CONSTANTS
    c1 = c1
    c2 = c2
    c3 = c3
    c4 = c4
    k1 = k1
    k4 = k4
    k3 = k3
    None = None
    Conns = {c1, c2, c3, c4}
    Keys = {k1, k3, k4}
    KeyOf <- PortReused
    Class <- OneGarbled
    MaxFlows = 2
    TTL = 1
    CtWindow = 2
    MaxCopies <- OnlyOneAgain
    MaxRuns = 2
SPECIFICATION FairSpec
INVARIANTS WindowCap FakeFirst
PROPERTIES EveryVerdict OncePerWindow PanicOnlyInStop
CHECK_DEADLOCK FALSE
