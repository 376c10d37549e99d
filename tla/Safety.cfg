SPECIFICATION SafetySpec
CONSTANTS
  Threads = {s1, s2}
  BrakePid = "brake"
  PedalPid = "pedal"
  Pids <- MCPids
  Axes <- MCAxes
  Series <- MCSeries
  SeriesOf <- MCSeriesOf
  EndThreshold <- MCEndThreshold
  BeforeSize = 2
  AfterSize = 2
  BrakeLimit = 1
  BrakeCooldown = 0
  PedalLimit = 2
  PedalStep = 1
  MaxSamples <- MCMaxSamples
  MaxRestarts = 1
  MaxReleases = 1
SYMMETRY MCSymmetry
PROPERTY OneRequestPerCrash
CHECK_DEADLOCK FALSE
