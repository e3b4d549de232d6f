\* One reader is enough to read a message while it is overwritten.
CONSTANTS
  SizeofT = 2
  QueueBytes = 4
  PtrModulus = 64
  MaxRequest = 3
  Horizon = 10
  Readers = {r1}
  Torn = Torn
  Blank = Blank
SPECIFICATION Spec
PROPERTY SuccessfulReadIsIntact
