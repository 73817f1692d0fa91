SPECIFICATION FairSpec
CONSTANTS
  v1 = v1
  v2 = v2
  Views = {v1}
  l1 = l1
  Layers = {l1}
  k1 = k1
  k2 = k2
  LockSurfaces = {k1, k2}
  NoSurface = NoSurface
  NumWorkspaces = 2
  SwitchBinds = TRUE
  HotPlug = TRUE
PROPERTIES
  LockFocusRestored
