CONSTANTS
  Nodes = {n1, n2, n3}
  NULL = NULL
  Letters = {"a"}
  Cases = {"upper", "lower"}
  Values = {1, 2}
  Kinds = {"Object", "String"}
  CircularLimit = 2
  MaxAllocs = 5
  MaxCount = 2
SPECIFICATION Spec
SYMMETRY Addresses
INVARIANTS
  AllAccounted
