SPECIFICATION Spec
CONSTANTS
  None = None
  Calls = {s1, a1}
  AsyncCalls = {a1}
  Keys = {k1}
  Bodies = {b1}
  MaxRetries = 1
  RetryAfters = {20, 601}
  MaxVersion = 2
INVARIANT KeyedOnce
PROPERTY CallsAreServedOnce
CHECK_DEADLOCK FALSE
