\* One listening port and two runs are enough: the first is cancelled.
CONSTANTS
  Jobs = {j1}
  Listening = {j1}
  Answering = {}
  Protos = {"tcp"}
  MaxRuns = 2
  LocalFailures = FALSE
  NoResult = NoResult
SPECIFICATION Spec
INVARIANTS NothingMissed
