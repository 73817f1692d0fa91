SPECIFICATION Spec
CONSTANTS
  v1 = v1
  v2 = v2
  p1 = p1
  p2 = p2
  s1 = s1
  Views = {v1}
  NoView = NoView
  Points = {p1, p2}
  Sizes = {s1}
  SnapEdges = {"left", "top left"}
INVARIANTS
  TypeOK
  GrabLive
  SnapExclusive
  GeometryReturns
PROPERTIES
  SavedKept
