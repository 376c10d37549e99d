SPECIFICATION Spec
CONSTANTS
  Pids <- MCPids
  Axes <- MCAxes
  Series <- MCSeries
  SeriesOf <- MCSeriesOf
  EndThreshold <- MCEndThreshold
  BeforeSize = 2
  AfterSize = 2
  MaxSamples <- MCMaxSamples
  MaxRestarts = 1
INVARIANT FullDumpIsWindow
CHECK_DEADLOCK FALSE
