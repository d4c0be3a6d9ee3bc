SPECIFICATION FairSpec
CONSTANTS
    Environments <- MCEnvironments
    Clients = {c1, c2}
    Runs = {r1, r2}
    MaxKills = 1
INVARIANTS TypeOK TelemetryRuns OwnValues CreatedIsAudited
PROPERTIES OutageIsNoExit Recovers NeverResets
