\* A call of a pure function ends: no deadlock is meant by it
CHECK_DEADLOCK FALSE
CONSTANTS
    Local = local
    Fallback = fallback
    isp = isp
    Servers <- MCServers
    MaxLines = 4
    Profiles <- MCProfiles
    Noise = 7
    Inputs <- MCInputs
    Conns <- MCConns
    TTLs = {1, 8, 255, 256, 300}
    PayloadBytes = {0, 1, 255}
    MaxPayload = 5
    QueueNums = {0, 7, 65535, 65536, 65736}
    Marks = {0, 1}
    PortLists <- MCPortLists
    FakeTTLs <- MCFakeTTLs
    FlowLimits <- MCFlowLimits
    MaxFlags = 4
SPECIFICATION AlgSpec
INVARIANTS RoundTrip DigestCommutes NeverServerless NeverPanics HelloUnderstood PacketSound ConfigSound
