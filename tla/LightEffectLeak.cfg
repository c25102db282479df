SPECIFICATION Spec
CONSTANTS
  Colors = {c1, c2}
  Effects = {e1}
  Glare = glare
  Levels = {dim, full}
  DefaultColor = c1
  DefaultLevel = full
  Keep = keep
  NoLook = none
  Kinds = {"slide", "effect", "boostOn"}
  MaxRequests = 3
PROPERTY EffectSupersedesSnapshot
CHECK_DEADLOCK FALSE
