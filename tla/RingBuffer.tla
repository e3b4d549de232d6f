----------------------------- MODULE RingBuffer -----------------------------
(***************************************************************************)
(* The arithmetic of MessageQueueBase: how the two byte counters in shared *)
(* memory, mWritePtr and mReadPtr, become a number of available messages   *)
(* and a pair of memory regions inside the ring.  Every operator is a pure *)
(* function of the counter values it is given, so the modules of the two   *)
(* flavors decide when each counter is loaded.                             *)
(*                                                                         *)
(* Counters count bytes and live in uint64_t; PtrModulus stands for 2^64   *)
(* (a size_t is as wide).  A T* into the ring is the index of a message    *)
(* slot, 0 .. QuantumCount - 1; nullptr is Null.                           *)
(***************************************************************************)
EXTENDS Integers

CONSTANTS
  SizeofT,     \* sizeof(T), which initMemory checks against the quantum
  QueueBytes,  \* mDesc->getSize(): bytes of the data buffer
  PtrModulus   \* number of values of a counter and of a size_t

ASSUME RingAssumption ==
  /\ SizeofT \in Nat \ {0}
  /\ QueueBytes \in Nat \ {0}
  /\ QueueBytes % SizeofT = 0       \* kQueueSizeBytes = numElementsInQueue * sizeof(T)
  /\ PtrModulus \in Nat
  /\ QueueBytes < PtrModulus

-----------------------------------------------------------------------------
(* Counters *)

Wrap(x) == x % PtrModulus

QuantumCount == QueueBytes \div SizeofT

IsAligned(ptr) == ptr % SizeofT = 0

AvailableToReadBytes(w, r) == IF w < r THEN 0 ELSE w - r

AvailableToWriteBytes(w, r) ==
  IF QueueBytes < AvailableToReadBytes(w, r)
    THEN 0
    ELSE QueueBytes - AvailableToReadBytes(w, r)

AvailableToRead(w, r) == AvailableToReadBytes(w, r) \div SizeofT

AvailableToWrite(w, r) == AvailableToWriteBytes(w, r) \div SizeofT

\* The test beginRead and commitRead use: uint64_t subtraction, so it is exact
\* even when the write counter has wrapped and the read counter has not.
Overrun(w, r) == Wrap(w - r) > QueueBytes

-----------------------------------------------------------------------------
(* Memory regions *)

Null == -1

MemRegion(address, length) == [address |-> address, length |-> length]

NullTx == [first |-> MemRegion(Null, 0), second |-> MemRegion(Null, 0)]

TxLength(tx) == tx.first.length + tx.second.length

\* The regions for n messages from counter value ptr on: one region, or two
\* when the messages wrap around the end of the ring.
MemTransaction(ptr, n) ==
  LET offset     == ptr % QueueBytes
      contiguous == (QueueBytes - offset) \div SizeofT
      start      == offset \div SizeofT
  IN  IF contiguous < n
        THEN [first  |-> MemRegion(start, contiguous),
              second |-> MemRegion(0, n - contiguous)]
        ELSE [first  |-> MemRegion(start, n),
              second |-> MemRegion(Null, 0)]

GetSlot(tx, idx) ==
  IF idx > TxLength(tx) THEN Null
  ELSE IF idx < tx.first.length THEN tx.first.address + idx
  ELSE tx.second.address + idx - tx.first.length

\* getMemRegionInfo: whether n messages from startIdx on fit the transaction,
\* and the slot that copyTo and copyFrom use for the i-th of them.
InTx(tx, startIdx, n) == startIdx + n <= TxLength(tx)

\* Slip for the runs to notice: the second region is always used from its start.
CopySlotFromRegionStart(tx, startIdx, n, i) ==
  LET room       == tx.first.length - startIdx
      firstCount == IF startIdx < tx.first.length
                      THEN (IF n < room THEN n ELSE room) ELSE 0
  IN  IF i < firstCount THEN tx.first.address + startIdx + i
                        ELSE tx.second.address + (i - firstCount)

CopySlot(tx, startIdx, n, i) ==
  LET room        == tx.first.length - startIdx
      firstCount  == IF startIdx < tx.first.length
                       THEN (IF n < room THEN n ELSE room) ELSE 0
      secondStart == IF startIdx > tx.first.length
                       THEN startIdx - tx.first.length ELSE 0
  IN  IF i < firstCount THEN tx.first.address + startIdx + i
                        ELSE tx.second.address + secondStart + (i - firstCount)

-----------------------------------------------------------------------------
(* The decisions of the four transaction calls.  `tx` is the caller's      *)
(* MemTransaction before the call; each returns what the call leaves.      *)

\* Slip: a request for as much as is free and one message more is let through.
BeginWriteTxOneTooMany(sync, w, r, n, tx) ==
  IF (sync /\ AvailableToWrite(w, r) + 1 < n) \/ n > QuantumCount THEN NullTx
  ELSE IF ~IsAligned(w) THEN tx
  ELSE MemTransaction(w, n)

\* A misaligned counter leaves the caller's transaction as it was.
BeginWriteTx(sync, w, r, n, tx) ==
  IF (sync /\ AvailableToWrite(w, r) < n) \/ n > QuantumCount THEN NullTx
  ELSE IF ~IsAligned(w) THEN tx
  ELSE MemTransaction(w, n)

\* Slip: the counter advances by messages instead of bytes.
CommitWritePtrInMessages(w, n) == Wrap(w + n)

CommitWritePtr(w, n) == Wrap(w + n * SizeofT)

CanBeginRead(w, r, n) ==
  /\ IsAligned(w) /\ IsAligned(r)
  /\ ~Overrun(w, r)
  /\ Wrap(w - r) >= Wrap(n * SizeofT)

BeginReadTx(w, r, n) == IF CanBeginRead(w, r, n) THEN MemTransaction(r, n) ELSE NullTx

\* Slip: a reader that finds itself overrun only reports it.
BeginReadPtrKept(w, r) == r

\* A reader that finds itself overrun jumps to the write counter.
BeginReadPtr(w, r) ==
  IF IsAligned(w) /\ IsAligned(r) /\ Overrun(w, r) THEN w ELSE r

\* Slip: the counter is kept as an offset into the ring.
CommitReadPtrAsOffset(w, r, n) ==
  IF Overrun(w, r) THEN w ELSE (r + n * SizeofT) % QueueBytes

\* Slips: the overflow test is left out, or does not return.
CommitReadPtrUnchecked(w, r, n) == Wrap(r + n * SizeofT)

CommitReadPtrFallsThrough(w, r, n) ==
  Wrap((IF Overrun(w, r) THEN w ELSE r) + n * SizeofT)

CommitReadPtr(w, r, n) ==
  IF Overrun(w, r) THEN w ELSE Wrap(r + n * SizeofT)

=============================================================================
