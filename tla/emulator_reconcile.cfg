SPECIFICATION Spec
CONSTANTS
  None = None
  Runs = {r1}
  Tools = {t1}
  Args = {x, y}
  Ops = {op}
  Models = {}
  Results = {ok, ko}
  ApprovalIds = {}
  Callers = {c1, c2}
  Payloads = {}
  UserEvents = {}
  UserKeys = {}
  CrashTypes = {"tool.started", "tool.completed"}
  MaxRows = 6
INVARIANT RecordedResultStands
