SPECIFICATION Spec
CONSTANTS
  p1 = p1
  p2 = p2
  sic = sic
  sit = sit
  t1 = t1
  t2 = t2
  Process = {p1, p2}
  NoOne = NoOne
  Name = {sic, sit}
  Agent <- SameAgent
  Task = {t1, t2}
  FirstTask = t1
  Modes <- AutoOnly
  EntityWindow = 2
  Faults = {}
  MaxRequests = 3
  MaxFaults = 0
SYMMETRY Alike
INVARIANTS
  TaskInherited
