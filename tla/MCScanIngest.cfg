\* Two scans of a room that supersede each other, their clients and one page that posts what
\* the broker sends; and two pages that post the same events at once.
SPECIFICATION FairSpec
CONSTANTS
  b1 = b1  b2 = b2  p1 = p1  s1 = s1  s2 = s2  r1 = r1  r2 = r2
  h1 = h1  h2 = h2  d1 = d1  t1 = t1  Null = Null
  Bridges = {b1, b2}
  Starters = {p1}
  Scans = {s1, s2}
  Rooms = {r1}
  Hubs = {h1}
  Hardware = {d1}
  HardwareOf <- Shared
  Tags = {t1}
  Items <- OneItem
  Messages <- ReadingsAndHeartbeat
  ScanWindow = 1
  OnlineWindow = 2
  ClockSkew = 1
  RetainedAge = 3
  KeepFor = 0
  MaxClock = 1
CONSTRAINT Scenes
INVARIANTS TypeOK FinalScansAreDated JobCountsMatchObservations ReceiptsCoverRetention
PROPERTIES FinalScansAreLeftAlone PollingEnds CountedOncePerRetention LastSeenNeverRegresses
\* The clock is bounded: when it has run out and every request is over, nothing happens.
CHECK_DEADLOCK FALSE
