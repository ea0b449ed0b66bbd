SPECIFICATION Spec
CONSTANTS
  Callers = {c1, c2}
  Loops = {l1, l2}
  Serials = {s1, s2}
  Reasons = {1}
  NoRevocation = NoRevocation
  NoCRL = NoCRL
  Free = Free
  Backend = "sqlite"
  MaxCalls = 4
  MaxNumber = 2
  MaxRestarts = 1
INVARIANTS TypeOK NumbersOrdered LaterListsCoverEarlier RegenerateIsFresh NoLoopLeftBehind
PROPERTIES ListsSpec
SYMMETRY Symmetry
\* Once the calls are used up the service may idle, or all wait for the mutex.
CHECK_DEADLOCK FALSE
