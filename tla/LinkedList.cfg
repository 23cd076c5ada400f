CONSTANTS
  Lists = {a, b}
  Contents = {x, y}
  Nodes = {n1, n2, n3, n4}
  MaxSkip = 2
  NULL = NULL
  Free = Free
SPECIFICATION Spec
SYMMETRY Symmetry
INVARIANTS
  ListTypeOK
  BackLinksMirror
  SizeIsLength
  NodesAreOwned
  PassInOrder
PROPERTY ImplementsDeque
