\* Two readers, a ring of two messages, and enough messages for the writer to
\* go round twice.
CONSTANTS
  SizeofT = 2
  QueueBytes = 4
  PtrModulus = 64
  MaxRequest = 3
  Horizon = 8
  Readers = {r1, r2}
  Torn = Torn
  Blank = Blank
SPECIFICATION Spec
SYMMETRY ReaderSymmetry
INVARIANTS TypeOK NothingOlder
PROPERTIES QuietReadIsIntact ReaderOnlyAdvances
