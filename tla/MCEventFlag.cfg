\* Three threads, so that two wakers can race over one sleeper and two waiters
\* over one bit, and two bits, so that masks overlap in part.  One of them never
\* waits, which leaves room to check a liveness property with the others.
CONSTANTS
  Threads = {t1, t2, t3}
  Bits = {b1, b2}
  Notifiers = {t1}
  Mortal = {}
SPECIFICATION FairSpec
INVARIANTS TypeOK NoLostWake
PROPERTIES NoBitsLost WaiterIsServed
