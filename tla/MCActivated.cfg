SPECIFICATION Spec
CONSTANTS
  v1 = v1
  v2 = v2
  v3 = v3
  Views = {v1, v2}
  l1 = l1
  Layers = {l1}
  k1 = k1
  LockSurfaces = {k1}
  NoSurface = NoSurface
  NumWorkspaces = 2
  SwitchBinds = FALSE
  HotPlug = FALSE
SYMMETRY Symmetry
INVARIANT
  AtMostOneActivated
