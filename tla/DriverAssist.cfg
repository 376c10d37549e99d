SPECIFICATION Spec
CONSTANTS
  BrakeLimit = 3
  BrakeCooldown = 2
  PedalLimit = 6
  PedalStep = 2
  MaxReleases = 7
INVARIANTS
  TypeOK
  BrakeCountsBrakings
  PedalNeverCautions
PROPERTY
  BrakeCautionIsRight
