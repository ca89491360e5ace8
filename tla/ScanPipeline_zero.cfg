\* -threads 0: scan() clamps its number of workers to one, newGate(0) does not.
CONSTANTS
  Jobs = {j1, j2}
  Workers = {w1}
  Threads = 0
  FloorMin = 50
  Retries = 1
  NoJob = NoJob
  NoResult = NoResult
SPECIFICATION FairSpec
CHECK_DEADLOCK FALSE
PROPERTIES CancelEndsScan
