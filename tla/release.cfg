SPECIFICATION Spec
CONSTANTS
  NRuns = 2
  PublicationRefs = {publish1}
  publish1 = publish1
  MaxFaults = 1
  None = None
INVARIANTS SuccessIsEverywhere OneBuildPerProject RecoveryIsVerified
PROPERTY PublishedIsReleased
CHECK_DEADLOCK FALSE
