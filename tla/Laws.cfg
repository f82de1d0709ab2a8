SPECIFICATION Spec
CONSTANTS
  p1 = p1
  p2 = p2
  Process = {p1, p2}
  Example = {1}
  MaxLaws = 4
  MaxKills = 2
SYMMETRY Alike
INVARIANTS TypeOK LawKept DebtsVisible
CHECK_DEADLOCK FALSE
