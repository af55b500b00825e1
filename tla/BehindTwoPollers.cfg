\* pipeline.go: above zero every enqueue waits instead of dropping.
CONSTANTS
    s1 = s1
    s2 = s2
    out1 = out1
    out2 = out2
    ghost = ghost
    none = none
    e1 = e1
    e2 = e2
    e3 = e3
    Sources = {s1, s2}
    Outputs = {out1}
    Names = {out1}
    NoOutput = none
    Events = {e1, e2, e3}
    Feed <- TwoFeeds
    PageLimit <- OnePerPage
    Backloggers = {s1}
    StuckAt <- NeverStuck
    Route <- AllToOne
    Buffer <- SmallBuffers
    MaxAttempts <- OneAttempt
    Rejecting = {}
    MaxEagerPages = 3
    MaxFaults = 0
    MaxSweeps = 0
    MaxRestarts = 0
    MayCrash = FALSE
SPECIFICATION Spec
PROPERTIES
    BehindNeverDrops
