CONSTANTS
  Nodes = {n1, n2, n3, n4, n5}
  NULL = NULL
  Letters = {}
  Cases = {}
  Values = {1}
  Kinds = {"Array", "Number"}
  CircularLimit = 2
  MaxAllocs = 5
  MaxCount = 3
SPECIFICATION Spec
SYMMETRY Addresses
INVARIANTS
  ListsLinked
  ItemsAccounted
PROPERTY
  ListsSpec
