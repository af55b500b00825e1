\* What must happen in the end, with two outputs; the cursor does not move past the first record.
CONSTANTS
    s1 = s1
    s2 = s2
    out1 = out1
    out2 = out2
    ghost = ghost
    none = none
    e1 = e1
    e2 = e2
    e3 = e3
    Sources = {s1}
    Outputs = {out1, out2}
    Names = {out1, out2}
    NoOutput = none
    Events = {e1, e2}
    Feed <- TwoRecords
    PageLimit <- OnePerPage
    Backloggers = {s1}
    StuckAt <- StuckAtOne
    Route <- Split
    Buffer <- SmallBuffers
    MaxAttempts <- OneAttempt
    Rejecting = {out2}
    MaxEagerPages = 4
    MaxFaults = 0
    MaxSweeps = 0
    MaxRestarts = 0
    MayCrash = FALSE
SPECIFICATION FairSpec
PROPERTIES
    EagerPagesMove
    DecisionsSettle
    ShutdownCompletes
    DrainsEnd
    PollsReturn
