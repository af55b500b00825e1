\* The durations of the program, as many attempts as they allow, every class of answer.
CONSTANTS
    Second <- OneSecond
    Bits = 56
    MaxBackoff <- OneMinute
    MaxRetryAfter <- FiveMinutes
    MaxAttempts = 35
    Headers <- UsualHeaders
    Statuses <- UsualStatuses
SPECIFICATION Spec
INVARIANTS
    ExponentialWithJitter
    AskedIsGiven
    RetriedWhileItHelps
CHECK_DEADLOCK FALSE
