CONSTANTS
  Jobs = {j1, j2}
  Workers = {w1, w2}
  Threads = 2
  FloorMin = 1
  Retries = 1
  NoJob = NoJob
  NoResult = NoResult
SPECIFICATION FairSpec
INVARIANTS OneOwner Complete ProgressExact PipelineInv
PROPERTIES NewProbesRespectLimit ImplementsGate ImplementsContract Termination
