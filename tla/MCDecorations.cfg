SPECIFICATION Spec
CONSTANTS
  v1 = v1
  v2 = v2
  Views = {v1, v2}
  Layers = {}
  LockSurfaces = {}
  NoSurface = NoSurface
  NumWorkspaces = 2
INVARIANTS
  FocusDrawn
PROPERTIES
  BordersCatchUp
