SPECIFICATION FairSpec
CONSTANTS
  d_size = 2
  size = 2
  leniency <- ServiceLeniency
  Returning = {0}
  Half = 2
  Words = 2
INVARIANTS
  TypeOK
  ReturnIsNoticed
  TicksAreEarned
PROPERTIES
  ReturnedIsRestarted
  RecordEndsProgram
CHECK_DEADLOCK FALSE
