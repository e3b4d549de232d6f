\* Two readers that poll; no symmetry, for a liveness property.
CONSTANTS
  SizeofT = 2
  QueueBytes = 4
  PtrModulus = 64
  MaxRequest = 3
  Horizon = 8
  Readers = {r1, r2}
  Torn = Torn
  Blank = Blank
SPECIFICATION PollingSpec
PROPERTY ReaderCatchesUp
