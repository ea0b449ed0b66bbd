SPECIFICATION FairSpec
CONSTANTS
  Callers = {c1, c2}
  Loops = {l1}
  Serials = {s1}
  Reasons = {1}
  NoRevocation = NoRevocation
  NoCRL = NoCRL
  Free = Free
  Backend = "sqlite"
  MaxCalls = 2
  MaxNumber = 3
  MaxRestarts = 0
PROPERTIES RegenerateReturns
\* Once the calls are used up the service may idle, or all wait for the mutex.
CHECK_DEADLOCK FALSE
