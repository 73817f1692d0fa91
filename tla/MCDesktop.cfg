SPECIFICATION Spec
CONSTANTS
  v1 = v1
  v2 = v2
  v3 = v3
  Views = {v1, v2}
  l1 = l1
  Layers = {l1}
  k1 = k1
  LockSurfaces = {k1}
  NoSurface = NoSurface
  NumWorkspaces = 3
  SwitchBinds = FALSE
  HotPlug = FALSE
SYMMETRY Symmetry
INVARIANTS
  TypeOK
  LockedFocus
  LockBookkeeping
  FocusedUsable
  ListExact
  WorkspaceReachable
  ShownBelongs
  LayerFocusTracked
  LockStopsSwitcher
PROPERTIES
  FocusHandedOver
  ForeignFocusByPanelOnly
  SeatSpec
