CONSTANTS
  PageSize = 8
  WordSize = 2
  CounterSize = 2
  FlagSize = 1
  SizeModulus = 128
  IntModulus = 64
  Creators = {c}
  Attachers = {a}
  Setups <- MCSetups
  BufferBytes = 8
  AttachSizes = {2}
  Changes <- MCChanges
  MaxMade = 3
  NumPages = 10
  FdLimit = 8
  NumFiles = 2
SPECIFICATION Spec
INVARIANTS TypeOK PointersReachTheirGrantors GrantorsApart NoFdLeak SidesShareMemory NoQueueFromFailedConversion
PROPERTY PagesAreReturned
\* The bound on constructions ends every behaviour.
CHECK_DEADLOCK FALSE
