CONSTANTS
  Jobs = {j1, j2, j3}
  Listening = {j1, j2}
  Answering = {j1}
  Protos = {"tcp", "udp"}
  MaxRuns = 3
  LocalFailures = TRUE
  NoResult = NoResult
SPECIFICATION Spec
INVARIANTS OneRecordPerJob CountsExact MissedOnlyIfMisjudged LossBounded
