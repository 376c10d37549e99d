SPECIFICATION FairSpec
CONSTANTS
  Pids <- MCPids
  Axes <- MCAxes
  Series <- MCSeries
  SeriesOf <- MCSeriesOf
  EndThreshold <- MCEndThreshold
  BeforeSize = 2
  AfterSize = 2
  MaxSamples <- MCMaxSamples
  MaxRestarts = 1
INVARIANTS
  TypeOK
  OneEndPerThread
  PreCrashRecord
PROPERTY
  ImplementsCrashRecord
  CrashIsClosed
CHECK_DEADLOCK FALSE
