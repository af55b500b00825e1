\* One attempt more than the durations allow.
CONSTANTS
    Second <- OneSecond
    Bits = 56
    MaxBackoff <- OneMinute
    MaxRetryAfter <- FiveMinutes
    MaxAttempts = 36
    Headers <- UsualHeaders
    Statuses <- UsualStatuses
SPECIFICATION Spec
INVARIANTS
    NeverPanics
CHECK_DEADLOCK FALSE
