SPECIFICATION Spec
CONSTANTS
  ShmSize = 3
  MaxPrompts = 3
  MaxNotifs = 4
INVARIANTS
  TypeOK
  EveryPromptHasAnOutcome
  InTimeAnswerHeeded
  OverflowNeedsStaleAnswer
PROPERTY
  MessagesInOrder
CHECK_DEADLOCK FALSE
