\* Two runs and a user's cleanup on a Linux host
CONSTANTS
    Local = local
    Fallback = fallback
    isp = isp
    Servers <- MCServers
    HostServers <- OneHost
    None = none
    Insts = {r1, r2}
    Unit = {}
    Cleaners = {c1}
    Events = {"kill", "tear", "io", "server", "power"}
\* One run and one cleanup at a time, any number in sequence, on macOS or Windows
CONSTANTS
    wifi = wifi
    eth = eth
    a = a
    b = b
    lease = lease
    Loopback = loopback
    Dhcp = dhcp
    Services <- MCServices
    Addrs <- MCAddrs
    DefaultService = wifi
    Lease = lease
    HostSettings <- MCHostSettings
SPECIFICATION HostSpec
INVARIANTS
    PortIsLock OnlyKnownLosses HijackServed
    DnsTypeOK HostRestored
PROPERTIES
    PromiseKept
    CleanupFrees DnsPromiseKept
CONSTRAINT FewAccidents
