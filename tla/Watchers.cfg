SPECIFICATION Spec
CONSTANTS
  i1 = i1
  i2 = i2
  i3 = i3
  none = none
  Id = {i1, i2, i3}
  NoCommand = none
  Command <- Commands
  RegisteredAs <- Registered
  LoopScript <- Scripts
SYMMETRY Alike
INVARIANTS TypeOK OneWatcher EntryIsTrue
CHECK_DEADLOCK FALSE
