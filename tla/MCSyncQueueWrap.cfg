\* Two slots of one byte and a counter of three bits: the writer may commit
\* past the largest counter value, as the comment on commitWrite allows.
CONSTANTS
  SizeofT = 1
  QueueBytes = 2
  PtrModulus = 8
  MaxRequest = 2
  Horizon = 10
  Data = {a}
SPECIFICATION Spec
INVARIANT NoOverflow
