CONSTANTS
    DhcpAddrs <- MC_DhcpAddrs
    StaStaticAddr <- MC_StaStaticAddr
    ApAddr <- MC_ApAddr
    NumIp6 = 2
    QueueCap = 8
    MaxLinkEvents = 2
    MaxDhcpEvents = 2
    MaxIp6Events = 1
    MaxSwitches = 2
    MaxFaults = 1
    NULL = NULL
SPECIFICATION Spec
INVARIANT TypeOK

 
CHECK_DEADLOCK FALSE
