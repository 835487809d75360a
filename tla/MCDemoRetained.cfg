\* The scanner stops, and the page subscribes while what it published is young.
SPECIFICATION Spec
CONSTANTS
  TagCount = 1
  IdleAfter = 1
  FreshFor = 2
  OfflineAfter = 3
  Skew = 0
  Start = 1
  LastScan = 2
  MaxTime = 6
  MaxLag = 1
  MaxWire = 2
PROPERTY RetainedIsHistory
