SPECIFICATION QualificationSpec
CONSTANTS
  Runtimes = {adapter}
  Artifacts = {adapter, cli}
  Environments = {e1, e2}
  CoreLayers = {"core", "placement"}
  Capabilities = {c1}
  MaxReceipts = 2
  MaxDay = 2
INVARIANT LayersAreOfTheSubject
CHECK_DEADLOCK FALSE
