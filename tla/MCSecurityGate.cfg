SPECIFICATION FairSpec
CONSTANTS
    x = x
    y = y
    None = None
    Advisories = {x, y}
    High = {x, y}
    Fixable = {x, y}
    Audited = {x, y}
    Shipped = {x}
    Registers <- MCRegisters
    MaxHighDays = 2
    LastDay = 4
INVARIANTS TypeOK
PROPERTIES WaiversHold ExpiryIsNoticed AdvisoryIsNoticed
