SPECIFICATION Spec
CONSTANTS
  Brokers = {b1, b2}
  NoBroker = none
  Traffic <- SomeTraffic
  MaxFrames = 2
  MaxFaults = 2
INVARIANTS
  TypeOK
  SoundUnlessOverlap
  EveryLineOnce
PROPERTY StreamResumes
CHECK_DEADLOCK FALSE
