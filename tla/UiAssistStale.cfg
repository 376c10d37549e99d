SPECIFICATION Spec
CONSTANTS
  ShmSize = 3
  MaxPrompts = 3
  MaxNotifs = 2
PROPERTY StaleAnswersIgnored
CHECK_DEADLOCK FALSE
