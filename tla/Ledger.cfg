SPECIFICATION Spec
CONSTANTS
  p1 = p1
  p2 = p2
  sic = sic
  sit = sit
  t1 = t1
  t2 = t2
  Process = {p1, p2}
  NoOne = NoOne
  Name = {sic, sit}
  Agent <- SameAgent
  Task = {t1}
  FirstTask = t1
  Modes <- AllModes
  EntityWindow = 2
  Faults = {"kill", "power", "error"}
  MaxRequests = 3
  MaxFaults = 2
SYMMETRY Alike
INVARIANTS
  TypeOK
  QuietVerifies
  UpstreamLinked
  ChainIntact
  PublishedSurvives
  CurrentNotBehindAcked
  EventsInOrder
PROPERTIES
  DurableAppendOnly
  CutIsSaved
  AppendHeals
  VerdictHolds
  Logged
