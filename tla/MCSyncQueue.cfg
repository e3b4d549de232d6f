\* Three slots of two bytes, three laps of the ring, requests up to one more
\* message than the ring holds.
CONSTANTS
  SizeofT = 2
  QueueBytes = 6
  PtrModulus = 64
  MaxRequest = 4
  Horizon = 18
  Data = {a, b}
SPECIFICATION Spec
INVARIANTS TypeOK NoOverflow NoSharedSlot
PROPERTIES AvailabilityHolds ImplementsFifo
