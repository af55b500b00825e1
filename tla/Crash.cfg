\* A live adapter: store calls that fail, a sweep, crashes and restarts.
CONSTANTS
    s1 = s1
    s2 = s2
    out1 = out1
    out2 = out2
    ghost = ghost
    none = none
    e1 = e1
    e2 = e2
    e3 = e3
    Sources = {s1}
    Outputs = {out1}
    Names = {out1}
    NoOutput = none
    Events = {e1, e2}
    Feed <- TwoRecords
    PageLimit <- TwoPerPage
    Backloggers = {}
    StuckAt <- NeverStuck
    Route <- AllToOne
    Buffer <- SmallBuffers
    MaxAttempts <- OneAttempt
    Rejecting = {}
    MaxEagerPages = 3
    MaxFaults = 1
    MaxSweeps = 1
    MaxRestarts = 1
    MayCrash = TRUE
SPECIFICATION Spec
INVARIANTS
    CursorCovered
    AtMostOncePerSource
    CursorAccounted
PROPERTIES
    LedgerSpec
