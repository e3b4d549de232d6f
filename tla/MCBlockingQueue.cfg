\* Transfers of one, two or three units of two messages over a ring of three units.
\* A read of two units fits the ring together with any write, a read of three does
\* not fit it together with a write of two, so the two sides can wait for each other.
\* A write of four units exceeds the ring.
CONSTANTS
  Capacity = 6
  WriteSizes = {2, 4, 8}
  ReadSizes = {4, 6}
SPECIFICATION FairSpec
INVARIANTS TypeOK NoStrandedSleeper NoMutualWait
PROPERTY CallReturns
