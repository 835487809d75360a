SPECIFICATION Spec
CONSTANTS
    i1 = i1  i2 = i2  h1 = h1  r1 = r1  r2 = r2
    Rooms = {r1, r2}
    Items = {i1, i2}
    Hubs = {h1}
    Teams = {t1}
    Null = Null
    FirstPlaces <- Apart
    MaxNet = 3
    MaxOps = 3
INVARIANTS LocatesInSelectedRoom
CHECK_DEADLOCK FALSE
