CONSTANTS
  NULL = NULL
  Words = 4
  WordBytes = 2
  WordMod = 64
  MaxChunk = 18
  MaxLength = 26
  LaneBytes = 2
  Rates = {9, 13, 17, 18}
  Chunks = {0, 1, 16, 17, 19, 36, 57}
  MaxMessage = 58
  Every = 101
SPECIFICATION Spec
INVARIANTS
  HashesMessage
  AbsorbsMessage
  RoundsFollowStandard
  DigitsStandForScalar
  ScalarsAreResidues
  LimbsFollowField
CHECK_DEADLOCK FALSE
