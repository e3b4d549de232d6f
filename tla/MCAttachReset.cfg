\* Both flavors. Two slots of two bytes; three attachments, so that both ends can attach
\* at once and one of them, or another reader, again while a peer still recovers.
CONSTANTS
  SizeofT = 2
  QueueBytes = 4
  PtrModulus = 64
  MaxRequest = 2
  Horizon = 12
  MaxAttach = 3
SPECIFICATION Spec
INVARIANT TypeOK
PROPERTY Recovers
