SPECIFICATION Spec
CONSTANTS
    Codes = {c1, c2}
    Gateways = {g1, g2}
    Requests = {q1, q2}
    CodeLife = 1
    BufferAge = 1
    KeepFor = 3
    Ahead = 1
    Skew = 2
    MaxEvents = 2
    MaxTime = 4
    Null = Null
CONSTRAINT Scenes
SYMMETRY Symmetry
INVARIANTS TypeOK CountedOncePerGateway
PROPERTIES CodeAdmitsOneGateway RevokedStoresNothing LastSeenFollowsOneGateway
CHECK_DEADLOCK FALSE
