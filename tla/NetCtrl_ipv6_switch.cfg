CONSTANTS
    DhcpAddrs <- MC_DhcpAddrs
    StaStaticAddr <- MC_StaStaticAddr
    ApAddr <- MC_ApAddr
    NumIp6 = 2
    QueueCap = 8
    MaxLinkEvents = 3
    MaxDhcpEvents = 2
    MaxIp6Events = 2
    MaxSwitches = 2
    MaxFaults = 1
    NULL = NULL
SPECIFICATION Spec
INVARIANT Ip6StateConsistent
CHECK_DEADLOCK FALSE
