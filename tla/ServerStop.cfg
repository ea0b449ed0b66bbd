SPECIFICATION FairSpec
CONSTANTS
  Handlers = {h1, h2, h3}
  Workers = {w1, w2}
  QueueSize = 1
  NoJob = NoJob
INVARIANTS TypeOK InOnePlace ShutdownIsClean
PROPERTIES CallsSpec RequestsAreAnswered StopEnds
\* The process ends.
CHECK_DEADLOCK FALSE
