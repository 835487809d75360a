SPECIFICATION Spec
CONSTANTS
    Rooms = {r1, r2}
    Hubs = {h1, h2}
    Items = {i1, i2}
    Labels = {l1}
    Keys = {k1, k2, k3}
    Dims = {10, 20}
    Sums = {11}
    Spots = {15}
    Requests = {q1, q2}
    MaxTime = 2
    Null = Null
CONSTRAINT Scenes
SYMMETRY Symmetry
INVARIANTS TypeOK StoredKeysNameObjects
PROPERTIES FaultsComeFromRaces LastSeenGoesBackOnlyByRacesOrBuffers
CHECK_DEADLOCK FALSE
