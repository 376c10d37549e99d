SPECIFICATION Spec
CONSTANTS
  d_size = 1
  size = 2
  leniency <- ProcessLeniency
  Returning = {0}
  Half = 2
  Words = 2
INVARIANT RestartsWhatItNames
CHECK_DEADLOCK FALSE
