SPECIFICATION PackagingSpec
CONSTANTS
  Paths = {n1, n2, n3}
  MaxSize = 3
  FileLimit = 2
  TotalLimit = 3
  EntryLimit = 2
  MaxEdits = 3
INVARIANT PackagesAreWithinLimits
CHECK_DEADLOCK FALSE
