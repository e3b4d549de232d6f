\* The smallest ring in which a transaction can wrap around.
CONSTANTS
  SizeofT = 1
  QueueBytes = 2
  PtrModulus = 64
  MaxRequest = 2
  Horizon = 4
  Data = {a}
SPECIFICATION Spec
INVARIANT GetSlotIsNullOutOfRange
