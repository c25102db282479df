SPECIFICATION Spec
CONSTANTS
  Space = 6
  Block = 2
  HasCompat = TRUE
  Foreground = fg
  AckTasks = {ack1, ack2}
SYMMETRY AckSymmetry
INVARIANTS TypeOK DurableBeforeUse RestartStartsAbove WriteOrder
PROPERTIES StoresNeverRegress ReplaySafe
