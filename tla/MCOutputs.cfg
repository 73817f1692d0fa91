SPECIFICATION Spec
CONSTANTS
  v1 = v1
  v2 = v2
  a1 = a1
  a2 = a2
  i1 = i1
  i2 = i2
  o1 = o1
  o2 = o2
  c1 = c1
  c2 = c2
  Views = {v1, v2}
  NoView = NoView
  Apps = {a1, a2}
  Icons = {i1, i2}
  Names = {o1, o2}
  Commands = {c1, c2}
  NumWorkspaces = 2
  Configs <- MCConfigs
  MaxExecs = 1
INVARIANTS
  TypeOK
  BarsPlaced
  ButtonsExact
  SlotsExact
  ExecsOnce
PROPERTIES
  BarKept
  BarReturns
  SlotsCatchUp
