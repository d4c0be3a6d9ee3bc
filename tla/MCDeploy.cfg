SPECIFICATION Spec
CONSTANTS
    v1 = v1
    v2 = v2
    v3 = v3
    None = None
    Plays = {p1}
    Releases = {v1, v2, v3}
    Signed = {v1, v2}
    Migrations <- MCMigrations
    VerifySignatures = TRUE
INVARIANTS TypeOK PlaysRunSigned SchemaCoversBackend
PROPERTIES RecordsWhatRuns
