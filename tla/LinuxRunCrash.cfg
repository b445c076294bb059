CONSTANTS
    Local = local
    Fallback = fallback
    isp = isp
    Servers <- MCServers
    HostServers <- OneHost
    None = none
    Insts = {r1}
    Unit = {}
    Cleaners = {c1}
    Events = {"kill"}
SPECIFICATION Spec
INVARIANTS SurvivesCrash
