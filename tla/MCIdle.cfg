SPECIFICATION Spec
CONSTANTS
  v1 = v1
  v2 = v2
  l1 = l1
  Views = {v1, v2}
  Layers = {l1}
  LockSurfaces = {}
  NoSurface = NoSurface
  NumWorkspaces = 2
SYMMETRY Symmetry
PROPERTIES
  InhibitFollowsScreen
