CONSTANTS
    n1 = n1
    n2 = n2
    Names <- MC_Names
    Inputs <- MC_Inputs
    WLAN_MAX_KNOWN_NETWORKS = 2
    MAX_EVENTS = 2
    Users = {u1}
    MaxCalls = 5
    UINT_MAX = 2147483647
    UAP_DEFAULT_CHANNEL = 6
SPECIFICATION Spec
INVARIANT TypeOK NamesUnique
PROPERTY StoreRefinement
CHECK_DEADLOCK FALSE
