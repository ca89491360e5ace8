CONSTANTS
  job = job
  Job = job
  Settings <- MCSettings
  SystemTime = 4
  ReadTime = 1
  MaxService = 2
  NameLengths = {0, 3}
  UnknownType = 9
SPECIFICATION Spec
INVARIANT StreamAligned
INVARIANT DescriptorsBalanced
INVARIANT WaitsBounded
PROPERTY ImplementsContract
