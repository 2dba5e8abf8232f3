SPECIFICATION SpecEither
CONSTANTS
  e1 = e1 e2 = e2 m1 = m1 m2 = m2 c1 = c1 c2 = c2 c3 = c3
  Id = {e1, e2}
  Model = {m1, m2}
  Content = {c1, c2, c3}
  Absent = absent
  Offered <- OfOne
  Tx = {t1, t2}
  MaxInstant = 2
  MaxStaged = 3
  MaxVersions <- DirectToTwo
SYMMETRY Symmetry
INVARIANTS OneModel CreationStands
PROPERTY ShowsTheTimeline
CHECK_DEADLOCK FALSE
