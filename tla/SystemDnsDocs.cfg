SPECIFICATION DnsSpec
CONSTANTS
    wifi = wifi
    eth = eth
    a = a
    b = b
    lease = lease
    Loopback = Local
    Dhcp = Dhcp
    Services <- MCServices
    Addrs <- MCAddrs
    DefaultService = wifi
    Lease = lease
    HostSettings <- DhcpOnly
PROPERTIES
    RestoredAsPromised
CONSTRAINT FewAccidents
ACTION_CONSTRAINT StartSucceeds
