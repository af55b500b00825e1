\* One adapter and one output of each type, a file varied one entry at a time, restarts.
CONSTANTS
    e1 = e1
    MaxSPN = 3
    Reserved = {"fleetnorm.spn_out_of_range"}
    DefaultPollInterval = 5
    DefaultTimeout = 10
    DefaultMaxAttempts = 5
    DefaultBuffer = 4
    DefaultDedupeRetention = 2
    DefaultAuditRetention = 3
    DefaultGeotabServer = "my"
    DefaultGeotabResultsLimit = 5
    DefaultGeotabCacheRefresh = 8
    MaxGeotabResultsLimit = 6
    MinGeotabPollInterval = 2
    Files <- MCFiles
    Environments <- MCEnvironments
    Events = {e1}
    Ms = 2
    MaxTime = 5
SPECIFICATION StartupSpec
INVARIANTS
    ConfigRuns
    IntentKept
    NeverUnsigned
PROPERTIES
    SweepExact
