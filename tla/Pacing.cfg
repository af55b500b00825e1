\* Two callers on one limiter and one client, two servers, sessions revoked at any time.
CONSTANTS
    c1 = c1
    c2 = c2
    my = my
    my23 = my23
    Callers = {c1, c2}
    Servers = {my, my23}
    Configured = my
    Free = free
    MaxSessions = 2
    Every = 2
    MaxTime = 2
SPECIFICATION PacedSpec
INVARIANTS
    RetryIsFresh
    GrantsPaced
    RequestsBounded
PROPERTIES
    GoodSessionKept
    CallReturns
