SPECIFICATION FairSpec
CONSTANTS
    Networks = {n1}
    OpenNetworks = {n2}
    Null = Null
    AssocTimeout = 0
    DhcpTimeout = 0
    Backoff <- TwoWaits
    Floor = 1
    GiveUp = 2
    MaxWrites = 2
    MaxBoots = 1
    MaxQueued = 1
CONSTRAINT FewRaces
INVARIANTS TypeOK StateShowsPhase GivesUpInTime StoredTogether
PROPERTIES AttemptsEnd
CHECK_DEADLOCK FALSE
