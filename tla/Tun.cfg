CONSTANTS
    c1 = c1
    c2 = c2
    p1 = p1
    None = None
    Conns = {c1, c2}
    Ports = {p1}
    PortOf <- OnePort
    Capturable = {c1}
    KindsOf <- TargetLast
    MaxSynAcks = 2
SPECIFICATION FairSpec
INVARIANTS HostReleased SynAckUsedOnce NilOnlyInStop
PROPERTIES CutOff EndsTogether
CHECK_DEADLOCK FALSE
