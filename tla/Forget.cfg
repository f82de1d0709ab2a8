SPECIFICATION Spec
CONSTANTS
  p1 = p1
  p2 = p2
  d1 = d1
  d2 = d2
  none = none
  Process = {p1, p2}
  Db = {d1, d2}
  NoDb = none
  MaxRows = 1
  MaxKills = 1
SYMMETRY Alike
INVARIANTS TypeOK AcceptedIsForgotten
CHECK_DEADLOCK FALSE
