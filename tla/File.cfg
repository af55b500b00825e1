\* A file that grows, is repaired and is rewritten at any time, read across restarts.
CONSTANTS
    MinRecords = 2
    MaxWrites = 4
    MaxRestarts = 1
SPECIFICATION LiveSpec
INVARIANTS
    SkipsAuditedOnce
PROPERTIES
    MissedOnlyRewritten
    RecordsAccounted
