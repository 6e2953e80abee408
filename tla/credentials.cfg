SPECIFICATION Spec
CONSTANTS
  None = None
  Processes = {c1, c2}
  Profiles = {p, q}
  Tokens = {t, u}
  MaxCommands = 4
INVARIANTS UpdatesStand LoadsLatest
SYMMETRY Symmetry
CHECK_DEADLOCK FALSE
