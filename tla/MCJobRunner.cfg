CONSTANTS
  Jobs = {j1, j2, j3}
  Handled = {j1, j2}
  Workers = {w1, w2}
  QueueCap = 2
  NullErrorReadable = TRUE
  MaxBoots = 3
SPECIFICATION FairSpec
INVARIANTS TypeOK NoDoubleExecution NoJobIsLost HandlerRunsOnce
PROPERTIES ImplementsLifecycle QueuedJobsArePickedUp
CHECK_DEADLOCK FALSE
