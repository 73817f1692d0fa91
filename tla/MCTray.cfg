SPECIFICATION Spec
CONSTANTS
  a1 = a1
  a2 = a2
  s1 = s1
  s2 = s2
  m1 = m1
  m2 = m2
  p1 = p1
  p2 = p2
  b1 = b1
  Apps = {a1, a2}
  Services = {s1, s2}
  Owner <- MCOwner
  Images = {m1, m2}
  NoImage = NoImage
  Addrs = {p1, p2}
  NoMenu = NoMenu
  Bars = {b1}
  Looks <- MCLooks
  MaxChanges <- MCChanges
  MaxQueue = 2
  Slow = {a1}
SYMMETRY Symmetry
INVARIANTS
  TypeOK
  CellsMatch
  MenuLive
  ItemsExact
  IconCurrent
