\* One tag that is scanned three times: the theorems have any number of tags.
SPECIFICATION Spec
CONSTANTS
  TagCount = 1
  IdleAfter = 1
  FreshFor = 2
  OfflineAfter = 3
  Skew = 1
  Start = 1
  LastScan = 3
  MaxTime = 7
  MaxLag = 1
  MaxWire = 2
INVARIANTS TypeOK SubscribedShowsRetained LiveTagsWereRead
PROPERTY ClaimsEnd
