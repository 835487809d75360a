\* Does one room have one active scan?
SPECIFICATION Spec
CONSTANTS
  b1 = b1  b2 = b2  p1 = p1  s1 = s1  s2 = s2  r1 = r1  r2 = r2
  h1 = h1  h2 = h2  d1 = d1  t1 = t1  Null = Null
  Bridges = {b1}
  Starters = {p1}
  Scans = {s1, s2}
  Rooms = {r1}
  Hubs = {h1}
  Hardware = {d1}
  HardwareOf <- Shared
  Tags = {t1}
  Items <- OneItem
  Messages <- OneReading
  ScanWindow = 1
  OnlineWindow = 2
  ClockSkew = 1
  RetainedAge = 3
  KeepFor = 2
  MaxClock = 2
INVARIANTS OneActiveScan
\* The clock is bounded: when it has run out and every request is over, nothing happens.
CHECK_DEADLOCK FALSE
