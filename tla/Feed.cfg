\* A feed of three records read page by page, with lookups that may fail.
CONSTANTS
    diagnostic = diagnostic
    controller = controller
    a = a
    d1 = d1
    c1 = c1
    any = any
    odd = odd
    was = was
    is = is
    none = none
    Records <- ThreeRecords
    Types = {diagnostic, controller}
    Sites = {controller}
    Diagnostic = diagnostic
    Ids = {a, d1, c1, any, odd, was, is}
    NoId = none
    Shape <- Shapes
    Negative = {d1}
    MinRecords = 2
    Limit = 2
    Seed = 0
    Sliding = TRUE
    CacheSize = 1
    Refresh = 1
    MaxClock = 1
    MaxFeed = 3
    MaxRestarts = 1
SPECIFICATION LiveSpec
INVARIANTS
    CacheListed
    CursorAccounted
    RevisionsSurvive
PROPERTIES
    LookupsExplained
    BacklogTold
    FeedIsRead
