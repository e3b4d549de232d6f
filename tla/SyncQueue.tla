------------------------------ MODULE SyncQueue ------------------------------
(***************************************************************************)
(* The kSynchronizedReadWrite flavor of MessageQueueBase: one writer and   *)
(* one reader, each a process of its own, share a ring and two counters    *)
(* and take no lock.                                                       *)
(*                                                                         *)
(* Each counter is stored by one side only.  Its stores are releases and   *)
(* the other side's loads are acquires, so a load may return an old value  *)
(* but never one older than the last it returned: wSeen is the value of    *)
(* mReadPtr that the writer's loads return, rSeen the value of mWritePtr   *)
(* that the reader's loads return, and a store reaches the other side in a *)
(* step of its own.  Every transaction call loads the other side's counter *)
(* once, so each call is one step.                                         *)
(*                                                                         *)
(* The client keeps to the protocol of the header: it commits no more      *)
(* messages than its transaction holds, a commit closes the transaction,   *)
(* and the writer has copied what it commits.  write() and read() are      *)
(* begin, copy and commit in a row.                                        *)
(*                                                                         *)
(* Either process may die at any point; another attaches in its place and  *)
(* leaves the counters as they are.                                        *)
(***************************************************************************)
EXTENDS RingBuffer

CONSTANTS
  Data,        \* values of type T
  MaxRequest,  \* largest nMessages a client asks for
  Horizon      \* bound: the writer stops before its counter passes this value

ASSUME SyncAssumption == MaxRequest \in Nat /\ Horizon \in Nat

\* A counter of 64 bits never gets this far, and no request is this large.
NoCounterWrap == Horizon < PtrModulus /\ MaxRequest * SizeofT < PtrModulus

VARIABLES
  ring,      \* contents of mRing, one value per slot
  writePtr,  \* *mWritePtr
  readPtr,   \* *mReadPtr
  wSeen,     \* value of *mReadPtr that the writer's loads return
  rSeen,     \* value of *mWritePtr that the reader's loads return
  wTx,       \* the writer's MemTransaction
  wBuf,      \* what the writer has copied to it, by index in the transaction
  rTx,       \* the reader's MemTransaction
  rBuf       \* what the reader has copied from it

vars == <<ring, writePtr, readPtr, wSeen, rSeen, wTx, wBuf, rTx, rBuf>>

Slots == 0 .. QuantumCount - 1

Empty == [i \in {} |-> {}]

Requests == 0 .. MaxRequest

TxSlots(tx) == {GetSlot(tx, i) : i \in 0 .. TxLength(tx) - 1}

\* The buffer may be a file the creator supplies, so it holds anything.
Init ==
  /\ ring \in [Slots -> Data]
  /\ writePtr = 0 /\ readPtr = 0
  /\ wSeen = 0 /\ rSeen = 0
  /\ wTx = NullTx /\ rTx = NullTx
  /\ wBuf = Empty /\ rBuf = Empty

-----------------------------------------------------------------------------
(* The writer *)

BeginWrite(n) ==
  /\ wTx' = BeginWriteTx(TRUE, writePtr, wSeen, n, wTx)
  /\ wBuf' = Empty
  /\ UNCHANGED <<ring, writePtr, readPtr, wSeen, rSeen, rTx, rBuf>>

\* memcpy into each of the two regions.
CopyInto(contents, tx, startIdx, n, data) ==
  [s \in Slots |->
     IF \E i \in 0 .. n - 1 : CopySlot(tx, startIdx, n, i) = s
       THEN data[CHOOSE i \in 0 .. n - 1 : CopySlot(tx, startIdx, n, i) = s]
       ELSE contents[s]]

CopyTo(startIdx, n, data) ==
  /\ InTx(wTx, startIdx, n)
  /\ ring' = CopyInto(ring, wTx, startIdx, n, data)
  /\ wBuf' = [i \in (DOMAIN wBuf) \cup (startIdx .. startIdx + n - 1) |->
                IF i \in startIdx .. startIdx + n - 1 THEN data[i - startIdx] ELSE wBuf[i]]
  /\ UNCHANGED <<writePtr, readPtr, wSeen, rSeen, wTx, rTx, rBuf>>

CommitWrite(k) ==
  /\ 0 .. k - 1 \subseteq DOMAIN wBuf
  /\ writePtr + k * SizeofT <= Horizon
  /\ writePtr' = CommitWritePtr(writePtr, k)
  /\ wTx' = NullTx
  /\ wBuf' = Empty
  /\ UNCHANGED <<ring, readPtr, wSeen, rSeen, rTx, rBuf>>

\* The writer goes away, perhaps killed in the middle of a memcpy, and another
\* attaches in its place with resetPointers = false: initMemory stores nothing.
WriterReattaches ==
  /\ ring' \in [Slots -> Data]
  /\ \A s \in Slots \ TxSlots(wTx) : ring'[s] = ring[s]
  /\ wTx' = NullTx
  /\ wBuf' = Empty
  /\ UNCHANGED <<writePtr, readPtr, wSeen, rSeen, rTx, rBuf>>

\* The writer's acquire load of mReadPtr begins to return the latest store.
ReadPtrReachesWriter ==
  /\ wSeen # readPtr
  /\ wSeen' = readPtr
  /\ UNCHANGED <<ring, writePtr, readPtr, rSeen, wTx, wBuf, rTx, rBuf>>

-----------------------------------------------------------------------------
(* The reader *)

\* Slip: the space is handed back to the writer before the reader has copied.
BeginReadReleasingSpace(n) ==
  /\ rTx' = BeginReadTx(rSeen, readPtr, n)
  /\ readPtr' = IF CanBeginRead(rSeen, readPtr, n)
                  THEN CommitReadPtr(rSeen, readPtr, n) ELSE BeginReadPtr(rSeen, readPtr)
  /\ rBuf' = Empty
  /\ UNCHANGED <<ring, writePtr, wSeen, rSeen, wTx, wBuf>>

BeginRead(n) ==
  /\ rTx' = BeginReadTx(rSeen, readPtr, n)
  /\ readPtr' = BeginReadPtr(rSeen, readPtr)
  /\ rBuf' = Empty
  /\ UNCHANGED <<ring, writePtr, wSeen, rSeen, wTx, wBuf>>

CopyFrom(startIdx, n) ==
  /\ InTx(rTx, startIdx, n)
  /\ rBuf' = [i \in (DOMAIN rBuf) \cup (startIdx .. startIdx + n - 1) |->
                IF i \in startIdx .. startIdx + n - 1
                  THEN ring[CopySlot(rTx, startIdx, n, i - startIdx)]
                  ELSE rBuf[i]]
  /\ UNCHANGED <<ring, writePtr, readPtr, wSeen, rSeen, wTx, wBuf, rTx>>

CommitRead(k) ==
  /\ k <= TxLength(rTx)
  /\ readPtr' = CommitReadPtr(rSeen, readPtr, k)
  /\ rTx' = NullTx
  /\ rBuf' = Empty
  /\ UNCHANGED <<ring, writePtr, wSeen, rSeen, wTx, wBuf>>

\* Another reader attaches in the place of one that is gone.
ReaderReattaches ==
  /\ rTx' = NullTx
  /\ rBuf' = Empty
  /\ UNCHANGED <<ring, writePtr, readPtr, wSeen, rSeen, wTx, wBuf>>

WritePtrReachesReader ==
  /\ rSeen # writePtr
  /\ rSeen' = writePtr
  /\ UNCHANGED <<ring, writePtr, readPtr, wSeen, wTx, wBuf, rTx, rBuf>>

-----------------------------------------------------------------------------

WriterNext ==
  \/ \E n \in Requests : BeginWrite(n)
  \/ \E startIdx \in Slots, n \in 1 .. QuantumCount :
       \E data \in [0 .. n - 1 -> Data] : CopyTo(startIdx, n, data)
  \/ \E k \in 0 .. QuantumCount : CommitWrite(k)
  \/ WriterReattaches
  \/ ReadPtrReachesWriter

ReaderNext ==
  \/ \E n \in Requests : BeginRead(n)
  \/ \E startIdx \in Slots, n \in 1 .. QuantumCount : CopyFrom(startIdx, n)
  \/ \E k \in 0 .. QuantumCount : CommitRead(k)
  \/ ReaderReattaches
  \/ WritePtrReachesReader

Next == WriterNext \/ ReaderNext

Spec == Init /\ [][Next]_vars

-----------------------------------------------------------------------------
(* Properties *)

Regions == [address : Slots \cup {Null}, length : 0 .. QuantumCount]

Transactions == [first : Regions, second : Regions]

Copies == UNION {[I -> Data] : I \in SUBSET Slots}

\* Counters hold whole messages, transactions describe slots of the ring, and
\* neither side's copies go beyond the ring.
TypeOK ==
  /\ ring \in [Slots -> Data]
  /\ {writePtr, readPtr, wSeen, rSeen} \subseteq 0 .. PtrModulus - 1
  /\ \A ptr \in {writePtr, readPtr, wSeen, rSeen} : IsAligned(ptr)
  /\ {wTx, rTx} \subseteq Transactions
  /\ {wBuf, rBuf} \subseteq Copies

\* The writer never laps the reader, although each decides with an old value
\* of the other's counter; beginRead and commitRead rely on this when they
\* take a distance above the queue size for an overflow.
NoOverflow == ~Overrun(writePtr, readPtr)

UnreadCount == Wrap(writePtr - readPtr) \div SizeofT

UnreadSlots == TxSlots(MemTransaction(readPtr, UnreadCount))

\* The slots of an open write transaction hold no message the reader has yet
\* to read or is reading: no memcpy of the writer races with one of the
\* reader, or destroys a committed message.
NoSharedSlot == TxSlots(wTx) \cap (UnreadSlots \cup TxSlots(rTx)) = {}

\* A count that availableToWrite() gave the writer stays available until the
\* writer itself commits, and one that availableToRead() gave the reader until
\* the reader commits, whatever the other side does meanwhile.
AvailabilityHolds ==
  [][/\ UNCHANGED writePtr =>
          AvailableToWrite(writePtr, wSeen') >= AvailableToWrite(writePtr, wSeen)
     /\ UNCHANGED readPtr =>
          AvailableToRead(rSeen', readPtr) >= AvailableToRead(rSeen, readPtr)]_vars

\* The unread messages, oldest first.
Contents ==
  [k \in 1 .. UnreadCount |-> ring[GetSlot(MemTransaction(readPtr, UnreadCount), k - 1)]]

Fifo == INSTANCE MessageFifo
          WITH Capacity <- QuantumCount, queue <- Contents, outbox <- wBuf, inbox <- rBuf

\* The two sides together implement a first-in first-out queue: what a read
\* transaction yields are the oldest committed messages, in the order of their
\* commits, each once and unchanged, and at most QuantumCount wait at a time.
ImplementsFifo == Fifo!Spec

\* getSlot: "the valid range of idx is between 0 and N-1 ... Will be nullptr
\* for an invalid idx", N being the number of messages of the transaction.
GetSlotIsNullOutOfRange == GetSlot(wTx, TxLength(wTx)) = Null

=============================================================================
