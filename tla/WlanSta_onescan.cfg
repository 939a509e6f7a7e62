CONSTANTS
    Nets = {0}
    Role <- MC_Role
    AddrType <- MC_AddrType
    SsidSpecific <- MC_SsidSpecific
    Users = {u1}
    MAX_EVENTS = 2
    WLAN_RESCAN_LIMIT = 2
    WLAN_RECONNECT_LIMIT = 1
    ReassocControl = FALSE
    NoNet = NoNet
    StartState = "IDLE"
    MaxCalls = 2
    MaxDrops = 1
CONSTRAINT StateBound
SPECIFICATION Spec
INVARIANT OneScanInFlight
CHECK_DEADLOCK FALSE
