CONSTANTS
    Nets = {0, 1}
    Role <- MC_RoleMixed
    AddrType <- MC_AddrType
    SsidSpecific <- MC_SsidGiven
    Users = {u1}
    MAX_EVENTS = 2
    WLAN_RESCAN_LIMIT = 2
    WLAN_RECONNECT_LIMIT = 1
    ReassocControl = FALSE
    NoNet = NoNet
    StartState = "INITIALIZING"
    MaxCalls = 2
    MaxDrops = 1
CONSTRAINT StateBound
SPECIFICATION FairSpec
 
PROPERTY LockGranted DisconnectReachesIdle
CHECK_DEADLOCK FALSE
