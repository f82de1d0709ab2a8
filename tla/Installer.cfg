SPECIFICATION Spec
CONSTANTS
  p1 = p1
  p2 = p2
  sic = sic
  sic2 = sic2
  none = none
  Process = {p1, p2}
  Root = {sic, sic2}
  NoRoot = none
  Mentions <- Prefix
  MaxEdits = 2
  MaxSeconds = 2
  MaxKills = 1
SYMMETRY Alike
INVARIANTS TypeOK SettingsKept InstalledOnce
CHECK_DEADLOCK FALSE
