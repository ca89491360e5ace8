CONSTANTS
  Jobs <- MCJobs
  Named <- MCNamed
  Local = {a}
  a = a
  SrcPorts = {5, 6}
  SeqNumbers = {7}
  Traffic <- MCTraffic
  Timeout = 2
  Resolver = 3
  Buffer = 1
  WordBase = 8
  Constant = 11
  NoPort = NoPort
  NoResult = NoResult
SPECIFICATION Spec
INVARIANT VerdictExact
INVARIANT WaitsBounded
INVARIANT SynsWellFormed
PROPERTY ImplementsContract
