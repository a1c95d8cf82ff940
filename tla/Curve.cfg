CONSTANTS
  NULL = NULL
  P = 61
  D = 40
  A24 = 2
  Sqrtneg1 = 11
  FieldBits = 6
  Base <- MCBase
  Added <- MCAdded
  Scales = {1, 2}
  Stale = {0, 7}
  Others <- MCOthers
  Exponent = 56
  Digits = 4
  WindowDigits <- MCWindowDigits
  SlidingLength = 3
  Sliding1 <- MCSliding1
  Sliding2 <- MCSliding2
  KeyBits = 10
  Order = 7
  SBits = 5
  AnyKeys <- MCAnyKeys
  Scalars = {0, 1, 6}
  Few = {1, 6}
SPECIFICATION Spec
INVARIANTS
  PointsFollowLaw
  MapsToPoints
  MultipliesByScalar
  LadderGivesProduct
  SignaturesVerify
CHECK_DEADLOCK FALSE
