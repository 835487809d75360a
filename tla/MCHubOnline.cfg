SPECIFICATION Spec
CONSTANTS
    Networks = {n1}
    OpenNetworks = {}
    Null = Null
    AssocTimeout = 1
    DhcpTimeout = 1
    Backoff <- TwoWaits
    Floor = 1
    GiveUp = 2
    MaxWrites = 1
    MaxBoots = 0
    MaxQueued = 2
INVARIANTS OnlineIsReachable
CHECK_DEADLOCK FALSE
