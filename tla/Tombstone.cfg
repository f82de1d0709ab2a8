SPECIFICATION Spec
CONSTANTS
  p1 = p1
  p2 = p2
  x1 = x1
  x2 = x2
  e1 = e1
  e2 = e2
  e3 = e3
  Nowhere = Nowhere
  Process = {p1, p2}
  Path = {x1, x2}
  Elsewhere = {x2}
  Entry = {e1, e2, e3}
  MaxEdits = 3
  MaxKills = 1
SYMMETRY Alike
INVARIANTS TypeOK NothingDestroyed Undoable RestoredIsGone
PROPERTIES RestoreFaithful
CHECK_DEADLOCK FALSE
