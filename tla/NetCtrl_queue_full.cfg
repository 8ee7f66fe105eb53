CONSTANTS
    DhcpAddrs <- MC_DhcpAddrs
    StaStaticAddr <- MC_StaStaticAddr
    ApAddr <- MC_ApAddr
    NumIp6 = 1
    QueueCap = 2
    MaxLinkEvents = 3
    MaxDhcpEvents = 1
    MaxIp6Events = 0
    MaxSwitches = 0
    MaxFaults = 0
    NULL = NULL
SPECIFICATION Spec
PROPERTY HandlerCompletes
CHECK_DEADLOCK FALSE
