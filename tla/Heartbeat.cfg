SPECIFICATION HeartbeatSpec
CONSTANTS
  p1 = p1
  p2 = p2
  sic = sic
  t1 = t1
  Process = {p1, p2}
  NoOne = NoOne
  Name = {sic}
  Agent <- SameAgent
  Task = {t1}
  FirstTask = t1
  Modes <- PipeModes
  EntityWindow = 2
  Faults = {"kill", "power", "error"}
  MaxRequests = 4
  MaxOthers = 1
  MaxFaults = 1
INVARIANTS
  TickTypeOK
  AloneIsGreen
  AloneIsRecorded
PROPERTIES
  ExitMeansRecorded
  EverythingEnds
CHECK_DEADLOCK FALSE
