SPECIFICATION Spec
CONSTANTS
    Migrations = {m1, m2}
    Contents = {sql1, sql2}
INVARIANTS UpgradeIsTested
CHECK_DEADLOCK FALSE
