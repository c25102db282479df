SPECIFICATION Spec
CONSTANTS
  Colors = {c1, c2}
  Effects = {e1}
  Glare = glare
  Levels = {dim, full}
  DefaultColor = c1
  DefaultLevel = full
  Keep = keep
  NoLook = none
  Kinds = {"slide", "off", "boostOn", "boostOff", "stop"}
  MaxRequests = 3
INVARIANT TypeOK
INVARIANT Converges
INVARIANT SwitchShowsSession
PROPERTY SnapshotDischarged
PROPERTY CallsReturn
CHECK_DEADLOCK FALSE
