CONSTANTS
    e1 = e1
    e2 = e2
    t1 = t1
    t2 = t2
    n1 = n1
    n2 = n2
    n3 = n3
    None = None
    Engines = {e1, e2}
    Threads = {t1, t2}
    EngineOf <- TwoProcesses
    Runners = {n1, n2, n3}
    Creator <- ThreeRunners
    RegisterModes = {"returns", "blocks"}
    Local = local
    Fallback = fallback
    isp = isp
    u1 = u1
SPECIFICATION BothSpec
INVARIANTS NothingLeft NeverStacked
PROPERTIES PromiseKept StopReturns OutageEnds
