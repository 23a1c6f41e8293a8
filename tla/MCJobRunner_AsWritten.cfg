CONSTANTS
  Jobs = {j1}
  Handled = {j1}
  Workers = {w1}
  QueueCap = 1
  NullErrorReadable = FALSE
  MaxBoots = 2
SPECIFICATION FairSpec
PROPERTY QueuedJobsArePickedUp
CHECK_DEADLOCK FALSE
