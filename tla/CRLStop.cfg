SPECIFICATION Spec
CONSTANTS
  Callers = {c1}
  Loops = {l1, l2}
  Serials = {s1}
  Reasons = {1}
  NoRevocation = NoRevocation
  NoCRL = NoCRL
  Free = Free
  Backend = "sqlite"
  MaxCalls = 3
  MaxNumber = 3
  MaxRestarts = 0
INVARIANTS OneLoopPerStart
\* Once the calls are used up the service may idle, or all wait for the mutex.
CHECK_DEADLOCK FALSE
