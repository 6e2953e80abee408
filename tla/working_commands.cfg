SPECIFICATION WorkingSpec
CONSTANTS
  Processes = {p1, p2}
  Operations = {o1, o2}
  p1 = p1
  p2 = p2
  o1 = o1
  o2 = o2
  MaxVersion = 2
  MaxStarts = 4
  None = None
  Workers = {w1, w2}
  OperationIds = {op1}
  Values = {v1, v2}
  AgentResults = {r1, r2}
  MaxUploads = 7
  Invocations = {i1, i2}
  MaxSequence = 3
  PageLimit = 2
  MaxEntries = 5
  MaxHidings = 2
  Publishers = {u1, u2}
  Archives = {z1, z2, z3}
  Inspectable = {z1, z2}
  Nothing = Nothing
  MaxPacks = 3
  Paths = {n1, n2, n3}
  MaxSize = 3
  FileLimit = 2
  TotalLimit = 3
  EntryLimit = 2
  MaxEdits = 3
  Runtimes = {adapter}
  Artifacts = {adapter, cli}
  Environments = {e1}
  CoreLayers = {"core", "placement"}
  Capabilities = {c1}
  MaxReceipts = 2
  MaxDay = 2
SYMMETRY Symmetry
INVARIANTS WorkingTypeOK AnswersAreReceipts ResumesTasks OneChain DecisionIsTrue OrdersTakeEffectOnce ListedOnce AcceptedIsConfirmed PackagesPassInspection SnapshotIsBounded QualifiedRowsStand
PROPERTY ChangesAreAtomic
CHECK_DEADLOCK FALSE
