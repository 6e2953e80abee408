SPECIFICATION Spec
CONSTANTS
  None = None
  Runs = {r1, r2}
  Tools = {}
  Args = {}
  Ops = {}
  Models = {m1, m2}
  Results = {ok}
  ApprovalIds = {}
  Callers = {c1, c2}
  Payloads = {bytes}
  UserEvents = {"run.started", "run.canceled"}
  UserKeys = {k1}
  CrashTypes = {"model.requested", "model.output_committed", "run.started"}
  MaxRows = 4
INVARIANTS CommitsMatchCalls ModelWorkIsRequested OneKeyPerRow
