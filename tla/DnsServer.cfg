CONSTANTS
    a1 = a1
    a2 = a2
    d1 = d1
    d2 = d2
    l1 = l1
    l2 = l2
    x = x
    y = y
    None = None
    Apps = {a1, a2}
    Lookups = {l1, l2}
    N = 2
    Named = {1}
    DomainOf <- TwoNames
    IPs = {x, y}
    Answer <- SameAddresses
    MaxAsks = 3
    MaxFlips = 1
SPECIFICATION FairSpec
INVARIANTS HealthyIsEnough QueuesAgree
PROPERTIES Answered
CHECK_DEADLOCK FALSE
