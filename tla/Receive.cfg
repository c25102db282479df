SPECIFICATION Spec
CONSTANTS
  Nodes = {n1}
  Dsts = {local, group, wide}
  LastSeg = 1
  ZeroSpace = 3
  MaxSeq = 3
  MaxPending = 2
  MaxTracked = 2
SYMMETRY Interchangeable
INVARIANT TypeOK
INVARIANT AtMostOnce
INVARIANT NothingSpliced
PROPERTY NeverResurrected
PROPERTY GivenUpKnowingly
CHECK_DEADLOCK FALSE
