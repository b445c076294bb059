CONSTANTS
    c1 = c1  c2 = c2  c3 = c3
    web = web  doh = doh
    https = https
    Conns = {c1, c2, c3}
    IPs = {web, doh}
    Ports = {https}
    RemoteIp4 <- MCRemoteIp4
    RemotePort <- MCRemotePort
    RestoreAfterBytes = 1
    MaxEntries = 1
    RingSize = 1
    SegLens = {1}
    MaxWire <- WebSends
    Refusable = {}
    TargetPortsCfg = {https}
    ExcludeIPsCfg = {doh}
SPECIFICATION Spec
INVARIANTS FakeBeforeData
