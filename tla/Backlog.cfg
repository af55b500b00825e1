\* A backlog and a live adapter sharing one output, retries, a misrouted event and shutdown.
CONSTANTS
    s1 = s1
    s2 = s2
    out1 = out1
    out2 = out2
    ghost = ghost
    none = none
    e1 = e1
    e2 = e2
    e3 = e3
    Sources = {s1, s2}
    Outputs = {out1}
    Names = {out1, ghost}
    NoOutput = none
    Events = {e1, e2, e3}
    Feed <- BacklogAndLive
    PageLimit <- BacklogPages
    Backloggers = {s1}
    StuckAt <- NeverStuck
    Route <- Misrouted
    Buffer <- SmallBuffers
    MaxAttempts <- TwoAttempts
    Rejecting = {}
    MaxEagerPages = 2
    MaxFaults = 0
    MaxSweeps = 0
    MaxRestarts = 0
    MayCrash = FALSE
SPECIFICATION Spec
INVARIANTS
    TypeOK
    OutstandingExact
    ShutdownLeavesNothing
PROPERTIES
    OwnBacklogFirst
    WorkRunsOut
