SPECIFICATION Spec
CONSTANTS
  c1 = c1
  c2 = c2
  c3 = c3
  s1 = s1
  s2 = s2
  Call = {c1, c2, c3}
  Judged = {c1}
  Sealer = {s1, s2}
  MaxFull = 1
  MaxEdits = 3
ACTION_CONSTRAINT OthersEarly
SYMMETRY Alike
INVARIANTS TypeOK SealKept VerdictEarned AuditTrue
CHECK_DEADLOCK FALSE
