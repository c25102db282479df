SPECIFICATION Spec
CONSTANTS
  Colors = {c1, c2}
  Effects = {e1}
  Glare = glare
  Levels = {dim, full}
  DefaultColor = c1
  DefaultLevel = full
  Keep = keep
  NoLook = none
  Kinds = {"slide", "on", "off", "effect", "effectOff"}
  MaxRequests = 3
INVARIANT Converges
INVARIANT PendingIsTheLiveSlider
CHECK_DEADLOCK FALSE
