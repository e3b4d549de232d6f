----------------------------- MODULE UnsyncQueue -----------------------------
(***************************************************************************)
(* The kUnsynchronizedWrite flavor of MessageQueueBase: one writer that    *)
(* never waits, and several readers, each with a read counter of its own   *)
(* that nobody else sees.  Writer and readers share the write counter and  *)
(* the ring.                                                               *)
(*                                                                         *)
(* The payload of a message is its number in the stream, so a slot tells   *)
(* which message it holds.  A memcpy into a slot takes time, and a reader  *)
(* may copy the slot meanwhile: the slot is Torn from the first to the     *)
(* last byte stored.  rSeen[r] is the value of mWritePtr that the acquire  *)
(* loads of reader r return; it may lag behind, but the ring is at least   *)
(* as new as the commit that stored it.                                    *)
(*                                                                         *)
(* A reader attached late starts with its counter at 0, exactly like one   *)
(* that has not read yet.  The writer may give up a transaction, or crash  *)
(* and be attached again without a reset; what it had stored stays.        *)
(***************************************************************************)
EXTENDS RingBuffer

CONSTANTS
  Readers,
  MaxRequest,  \* largest nMessages a client asks for
  Horizon,     \* bound: the writer stops before its counter passes this value
  Torn,        \* contents of a slot that is being overwritten
  Blank        \* contents of a slot never written

ASSUME UnsyncAssumption ==
  /\ MaxRequest \in Nat
  /\ Horizon \in Nat
  /\ Torn # Blank /\ Torn \notin Nat /\ Blank \notin Nat

VARIABLES
  ring,      \* contents of mRing by slot
  writePtr,  \* *mWritePtr
  wTx,       \* the writer's MemTransaction
  wStored,   \* indices of wTx whose message is completely stored
  wStoring,  \* the index being stored, or Null
  readPtr,   \* by reader, its *mReadPtr
  rSeen,     \* by reader, the value of *mWritePtr its loads return
  rTx,       \* by reader, its MemTransaction
  rBuf,      \* by reader, what it has copied, by index in the transaction
  touched    \* history: messages below this number have been stored at least in part

writerVars == <<ring, writePtr, wTx, wStored, wStoring, touched>>
readerVars == <<readPtr, rSeen, rTx, rBuf>>
vars == <<writerVars, readerVars>>

Slots == 0 .. QuantumCount - 1

Requests == 0 .. MaxRequest

Empty == [i \in {} |-> {}]

Msg(ptr) == ptr \div SizeofT

Init ==
  /\ ring = [s \in Slots |-> Blank]
  /\ writePtr = 0 /\ wTx = NullTx /\ wStored = {} /\ wStoring = Null /\ touched = 0
  /\ readPtr = [r \in Readers |-> 0]
  /\ rSeen = [r \in Readers |-> 0]
  /\ rTx = [r \in Readers |-> NullTx]
  /\ rBuf = [r \in Readers |-> Empty]

-----------------------------------------------------------------------------
(* The writer *)

\* This flavor never looks at a read counter.
BeginWrite(n) ==
  /\ wStoring = Null
  /\ wTx' = BeginWriteTx(FALSE, writePtr, 0, n, wTx)
  /\ wStored' = {}
  /\ UNCHANGED <<ring, writePtr, wStoring, touched, readerVars>>

\* copyTo, message by message: its first byte, and its last.
StoreBegin(i) ==
  /\ wStoring = Null
  /\ i < TxLength(wTx) /\ i \notin wStored
  /\ wStoring' = i
  /\ ring' = [ring EXCEPT ![GetSlot(wTx, i)] = Torn]
  /\ touched' = IF touched < Msg(writePtr) + i + 1 THEN Msg(writePtr) + i + 1 ELSE touched
  /\ UNCHANGED <<writePtr, wTx, wStored, readerVars>>

StoreEnd ==
  /\ wStoring # Null
  /\ ring' = [ring EXCEPT ![GetSlot(wTx, wStoring)] = Msg(writePtr) + wStoring]
  /\ wStored' = wStored \cup {wStoring}
  /\ wStoring' = Null
  /\ UNCHANGED <<writePtr, wTx, touched, readerVars>>

\* Slip for the runs to notice: the counter is published before the copy.
CommitWriteEarly(k) ==
  /\ k <= TxLength(wTx)
  /\ writePtr + k * SizeofT <= Horizon
  /\ writePtr' = CommitWritePtr(writePtr, k)
  /\ wTx' = NullTx /\ wStored' = {} /\ wStoring' = Null
  /\ UNCHANGED <<ring, touched, readerVars>>

CommitWrite(k) ==
  /\ wStoring = Null
  /\ 0 .. k - 1 \subseteq wStored
  /\ writePtr + k * SizeofT <= Horizon
  /\ writePtr' = CommitWritePtr(writePtr, k)
  /\ wTx' = NullTx
  /\ wStored' = {}
  /\ UNCHANGED <<ring, wStoring, touched, readerVars>>

\* The writer's process dies, and a new one attaches with resetPointers false.
WriterRestart ==
  /\ wTx # NullTx
  /\ wTx' = NullTx
  /\ wStored' = {}
  /\ wStoring' = Null
  /\ UNCHANGED <<ring, writePtr, touched, readerVars>>

-----------------------------------------------------------------------------
(* A reader *)

BeginRead(r, n) ==
  /\ rTx' = [rTx EXCEPT ![r] = BeginReadTx(rSeen[r], readPtr[r], n)]
  /\ readPtr' = [readPtr EXCEPT ![r] = BeginReadPtr(rSeen[r], readPtr[r])]
  /\ rBuf' = [rBuf EXCEPT ![r] = Empty]
  /\ UNCHANGED <<rSeen, writerVars>>

\* copyFrom, message by message: the writer may be storing meanwhile.
CopyFrom(r, i) ==
  /\ i < TxLength(rTx[r]) /\ i \notin DOMAIN rBuf[r]
  /\ rBuf' = [rBuf EXCEPT ![r] =
                [j \in (DOMAIN rBuf[r]) \cup {i} |->
                   IF j = i THEN ring[GetSlot(rTx[r], i)] ELSE rBuf[r][j]]]
  /\ UNCHANGED <<readPtr, rSeen, rTx, writerVars>>

CommitRead(r, k) ==
  /\ 0 .. k - 1 \subseteq DOMAIN rBuf[r]
  /\ readPtr' = [readPtr EXCEPT ![r] = CommitReadPtr(rSeen[r], readPtr[r], k)]
  /\ rTx' = [rTx EXCEPT ![r] = NullTx]
  /\ rBuf' = [rBuf EXCEPT ![r] = Empty]
  /\ UNCHANGED <<rSeen, writerVars>>

WritePtrReaches(r) ==
  /\ rSeen[r] # writePtr
  /\ rSeen' = [rSeen EXCEPT ![r] = writePtr]
  /\ UNCHANGED <<readPtr, rTx, rBuf, writerVars>>

-----------------------------------------------------------------------------

WriterNext ==
  \/ \E n \in Requests : BeginWrite(n)
  \/ \E i \in Slots : StoreBegin(i)
  \/ StoreEnd
  \/ \E k \in 0 .. QuantumCount : CommitWrite(k)
  \/ WriterRestart

ReaderNext(r) ==
  \/ \E n \in Requests : BeginRead(r, n)
  \/ \E i \in Slots : CopyFrom(r, i)
  \/ \E k \in 0 .. QuantumCount : CommitRead(r, k)
  \/ WritePtrReaches(r)

Next == WriterNext \/ \E r \in Readers : ReaderNext(r)

Spec == Init /\ [][Next]_vars

\* A reader that calls read(data) over and over: begin, copy and commit of one
\* message.  A call that has been entered goes on, the next one is made, and a
\* store to the write counter is seen in the end.
ReadOne(r) ==
  \/ rTx[r] = NullTx /\ BeginRead(r, 1)
  \/ CopyFrom(r, 0)
  \/ CommitRead(r, 1)

PollingNext == WriterNext \/ \E r \in Readers : ReadOne(r) \/ WritePtrReaches(r)

PollingSpec ==
  /\ Init
  /\ [][PollingNext]_vars
  /\ \A r \in Readers : WF_vars(ReadOne(r)) /\ WF_vars(WritePtrReaches(r))

-----------------------------------------------------------------------------
(* Properties *)

Regions == [address : Slots \cup {Null}, length : 0 .. QuantumCount]

Transactions == [first : Regions, second : Regions]

TypeOK ==
  /\ ring \in [Slots -> Nat \cup {Torn, Blank}]
  /\ writePtr \in 0 .. PtrModulus - 1 /\ IsAligned(writePtr)
  /\ wTx \in Transactions
  /\ wStored \subseteq 0 .. TxLength(wTx) - 1
  /\ wStoring = Null \/ wStoring \in (0 .. TxLength(wTx) - 1) \ wStored
  /\ touched \in Nat
  /\ \A r \in Readers :
       /\ {readPtr[r], rSeen[r]} \subseteq 0 .. PtrModulus - 1
       /\ IsAligned(readPtr[r]) /\ IsAligned(rSeen[r])
       /\ rTx[r] \in Transactions
       /\ DOMAIN rBuf[r] \subseteq 0 .. TxLength(rTx[r]) - 1

\* The message that index i of reader r's transaction is for.
Wanted(r, i) == Msg(readPtr[r]) + i

\* A reader never gets an older message than the one it asked for, nor bytes
\* that were never a message: what it gets is the message itself, or comes from
\* a store of a later message of the same slot that the writer has begun.
NothingOlder ==
  \A r \in Readers : \A i \in DOMAIN rBuf[r] :
    \/ rBuf[r][i] = Wanted(r, i)
    \/ rBuf[r][i] = Torn /\ touched > Wanted(r, i) + QuantumCount
    \/ /\ rBuf[r][i] \in Wanted(r, i) + QuantumCount .. touched - 1
       /\ (rBuf[r][i] - Wanted(r, i)) % QuantumCount = 0

Intact(r) == \A i \in DOMAIN rBuf[r] : rBuf[r][i] = Wanted(r, i)

\* commitRead of k messages by r succeeds in this step.
Succeeds(r, k) ==
  /\ rTx[r] # NullTx /\ rTx'[r] = NullTx
  /\ 0 .. k - 1 \subseteq DOMAIN rBuf[r]
  /\ k > 0
  /\ readPtr'[r] = readPtr[r] + k * SizeofT

\* A read that succeeds while the reader has seen every store the writer has
\* begun, committed, returns exactly the messages it is for: an overwrite that
\* is complete and visible is always detected.
QuietReadIsIntact ==
  [][\A r \in Readers, k \in 1 .. QuantumCount :
       Succeeds(r, k) /\ touched * SizeofT <= rSeen[r] => Intact(r)]_vars

\* A reader's counter never goes back, so it delivers no message twice, and
\* never gets ahead of the writer, whatever is lost in between.
ReaderOnlyAdvances ==
  [][\A r \in Readers : readPtr'[r] >= readPtr[r] /\ readPtr'[r] <= writePtr]_vars

\* A reader that keeps reading catches up once the writer commits no more: an
\* overflow costs it messages, but never leaves it stuck.
ReaderCatchesUp ==
  (<>[][UNCHANGED writePtr]_vars) =>
    \A r \in Readers : <>[](readPtr[r] = writePtr)

\* A successful read returns the messages it is for: "A read operation can
\* detect an overwrite and reset the read counter".
SuccessfulReadIsIntact ==
  [][\A r \in Readers, k \in 1 .. QuantumCount : Succeeds(r, k) => Intact(r)]_vars

=============================================================================
