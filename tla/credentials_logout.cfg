SPECIFICATION Spec
CONSTANTS
  None = None
  Processes = {c1}
  Profiles = {p}
  Tokens = {t}
  MaxCommands = 3
INVARIANT LogoutRemoves
CHECK_DEADLOCK FALSE
