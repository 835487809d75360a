\* Three events, a queue of two, one death of the process.
SPECIFICATION FairSpec
CONSTANTS
  beat = beat  tag = tag
  Contents = {beat, tag}
  Heartbeat = beat
  MaxQueue = 2
  BufferAge = 1
  Bucket = 2
  DedupeSpan = 2
  SaveEvery = 2
  MaxDelay = 2
  MaxEvents = 3
  MaxRestarts = 1
INVARIANTS TypeOK NothingLost
PROPERTIES FirstDeliveriesInOrder QueueDrains
