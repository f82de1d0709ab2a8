SPECIFICATION Spec
CONSTANTS
  i1 = i1
  i2 = i2
  c1 = c1
  Nothing = Nothing
  Junk = Junk
  Item = {i1, i2}
  Ttl = {0, 1}
  Checker = {c1}
  MaxDay = 2
  MaxLines = 3
  MaxFaults = 2
SYMMETRY Alike
INVARIANTS TypeOK
PROPERTIES Tracked NothingOverlooked
CHECK_DEADLOCK FALSE
