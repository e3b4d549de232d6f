-------------------------- MODULE SyncQueue_proofs --------------------------
(***************************************************************************)
(* Proofs about SyncQueue, for every message size, ring size, counter      *)
(* width, set of messages and bound on the requests, provided the write    *)
(* counter does not wrap (NoCounterWrap).                                  *)
(*                                                                         *)
(* The inductive invariant IInv counts in messages.  It orders the         *)
(* counters and what each side has seen of the other's,                    *)
(*    wSeen <= readPtr <= rSeen <= writePtr <= wSeen + QuantumCount,       *)
(* says which messages each open transaction is for, and that the buffers  *)
(* and the ring agree on them.                                             *)
(***************************************************************************)
EXTENDS SyncQueue, RingBuffer_proofs, Sequences

Msg(ptr) == ptr \div SizeofT

Slot(ptr, i) == (Msg(ptr) + i) % QuantumCount

\* tx is closed, or is for messages from ptr on that all come before limit.
TxFor(tx, ptr, limit) ==
  \/ tx = NullTx
  \/ \E n \in 0 .. QuantumCount :
       tx = MemTransaction(ptr, n) /\ Msg(ptr) + n <= limit

CountersInv ==
  /\ \A ptr \in {writePtr, readPtr, wSeen, rSeen} :
       Msg(ptr) \in Nat /\ ptr = SizeofT * Msg(ptr)
  /\ Msg(wSeen) <= Msg(readPtr)
  /\ Msg(readPtr) <= Msg(rSeen)
  /\ Msg(rSeen) <= Msg(writePtr)
  /\ Msg(writePtr) <= Msg(wSeen) + QuantumCount
  /\ writePtr <= Horizon

WriterInv ==
  /\ TxFor(wTx, writePtr, Msg(wSeen) + QuantumCount)
  /\ wBuf \in [DOMAIN wBuf -> Data]
  /\ DOMAIN wBuf \subseteq 0 .. TxLength(wTx) - 1
  /\ \A i \in DOMAIN wBuf : ring[Slot(writePtr, i)] = wBuf[i]

ReaderInv ==
  /\ TxFor(rTx, readPtr, Msg(rSeen))
  /\ rBuf \in [DOMAIN rBuf -> Data]
  /\ DOMAIN rBuf \subseteq 0 .. TxLength(rTx) - 1
  /\ \A i \in DOMAIN rBuf : ring[Slot(readPtr, i)] = rBuf[i]

IInv ==
  /\ ring \in [Slots -> Data]
  /\ CountersInv
  /\ WriterInv
  /\ ReaderInv

-----------------------------------------------------------------------------
(***************************************************************************)
(* Lemmas about the calls.                                                 *)
(***************************************************************************)

\* Every counter is a number of messages, and small enough not to wrap.
LEMMA CounterFacts ==
  ASSUME CountersInv, NoCounterWrap
  PROVE  /\ \A ptr \in {writePtr, readPtr, wSeen, rSeen} :
              ptr \in Nat /\ ptr < PtrModulus /\ IsAligned(ptr)
         /\ Msg(writePtr) <= Msg(readPtr) + QuantumCount
         /\ Msg(rSeen) <= Msg(readPtr) + QuantumCount
         /\ Msg(wSeen) <= Msg(writePtr)
<1>1. \A ptr \in {writePtr, readPtr, wSeen, rSeen} : ptr \in Nat /\ IsAligned(ptr)
  BY MessageCounter DEF CountersInv
<1>2. /\ Msg(writePtr) <= Msg(readPtr) + QuantumCount
      /\ Msg(rSeen) <= Msg(readPtr) + QuantumCount
      /\ Msg(wSeen) <= Msg(writePtr)
      /\ \A ptr \in {readPtr, wSeen, rSeen} : Msg(ptr) <= Msg(writePtr)
  BY QuantumFacts DEF CountersInv
<1>3. \A ptr \in {readPtr, wSeen, rSeen} : ptr <= writePtr
  BY <1>2, TimesOrder, RingAssumption DEF CountersInv
<1>4. \A ptr \in {writePtr, readPtr, wSeen, rSeen} : ptr < PtrModulus
  BY <1>1, <1>3, RingAssumption, SyncAssumption DEF CountersInv, NoCounterWrap
<1> QED  BY <1>1, <1>2, <1>4

\* How many messages a transaction is for.
LEMMA TxForLength ==
  ASSUME NEW ptr, Msg(ptr) \in Nat, ptr = SizeofT * Msg(ptr),
         NEW tx, NEW limit \in Nat, TxFor(tx, ptr, limit), Msg(ptr) <= limit
  PROVE  /\ TxLength(tx) \in 0 .. QuantumCount
         /\ Msg(ptr) + TxLength(tx) <= limit
         /\ TxLength(tx) # 0 => tx = MemTransaction(ptr, TxLength(tx))
         /\ \A i \in 0 .. TxLength(tx) - 1 : GetSlot(tx, i) = Slot(ptr, i)
<1>1. CASE tx = NullTx
  BY <1>1, NullTxLength, QuantumFacts
<1>2. CASE \E n \in 0 .. QuantumCount :
             tx = MemTransaction(ptr, n) /\ Msg(ptr) + n <= limit
  <2>1. PICK n \in 0 .. QuantumCount :
               tx = MemTransaction(ptr, n) /\ Msg(ptr) + n <= limit
    BY <1>2
  <2>2. TxLength(tx) = n /\ \A i \in 0 .. n - 1 : GetSlot(tx, i) = Slot(ptr, i)
    BY <2>1, TransactionSlots DEF Slot
  <2> QED  BY <2>1, <2>2
<1> QED  BY <1>1, <1>2 DEF TxFor

\* A transaction is for fewer messages when it is opened or the other side
\* moves on.
LEMMA TxForWeaken ==
  ASSUME NEW tx, NEW ptr, Msg(ptr) \in Nat, NEW limit \in Nat, NEW further \in Nat,
         TxFor(tx, ptr, limit), limit <= further
  PROVE  TxFor(tx, ptr, further)
<1>1. \A n \in 0 .. QuantumCount : Msg(ptr) + n <= limit => Msg(ptr) + n <= further
  BY QuantumFacts
<1> QED  BY <1>1 DEF TxFor

\* after is before with the n messages of data from message m + startIdx on
\* put in their slots, every message p that is not one of them and is less
\* than one ring away from the transaction's len messages left alone.
Copied(before, after, m, len, startIdx, n, data) ==
  /\ after \in [Slots -> Data]
  /\ \A j \in startIdx .. startIdx + n - 1 :
       after[(m + j) % QuantumCount] = data[j - startIdx]
  /\ \A p \in Nat :
       /\ m + len <= p + QuantumCount
       /\ p < m + QuantumCount
       /\ p \notin m + startIdx .. m + startIdx + n - 1
       => after[p % QuantumCount] = before[p % QuantumCount]

LEMMA CopyIntoRing ==
  ASSUME NEW m \in Nat, NEW len \in 0 .. QuantumCount,
         NEW startIdx \in Nat, NEW n \in Nat, startIdx + n <= len,
         NEW contents \in [Slots -> Data], NEW data \in [0 .. n - 1 -> Data],
         NEW after,
         after = CopyInto(contents, MemTransaction(SizeofT * m, len), startIdx, n, data)
  PROVE  Copied(contents, after, m, len, startIdx, n, data)
<1> DEFINE tx    == MemTransaction(SizeofT * m, len)
           to(i) == CopySlot(tx, startIdx, n, i)
<1>1. \A i \in 0 .. n - 1 : to(i) = (m + startIdx + i) % QuantumCount
  BY CopySlots
<1>2. after = [s \in Slots |-> IF \E i \in 0 .. n - 1 : to(i) = s
                                 THEN data[CHOOSE i \in 0 .. n - 1 : to(i) = s]
                                 ELSE contents[s]]
  BY DEF CopyInto
<1> HIDE DEF tx, to
<1>3. \A p \in Nat : p % QuantumCount \in Slots
  BY DivModExists, QuantumFacts DEF Slots
<1>4. after \in [Slots -> Data]
  BY <1>2
<1>5. ASSUME NEW j \in startIdx .. startIdx + n - 1
      PROVE  after[(m + j) % QuantumCount] = data[j - startIdx]
  <2>1. j - startIdx \in 0 .. n - 1 /\ m + startIdx + (j - startIdx) = m + j /\ m + j \in Nat
    OBVIOUS
  <2>2. ASSUME NEW i \in 0 .. n - 1, to(i) = (m + j) % QuantumCount
        PROVE  i = j - startIdx
    <3> DEFINE a == m + startIdx + i
               b == m + j
    <3>1. (m + startIdx + i) % QuantumCount = (m + j) % QuantumCount  BY <1>1, <2>2
    <3>2. a \in Nat /\ b \in Nat /\ a < b + QuantumCount /\ b < a + QuantumCount
      BY QuantumFacts
    <3>3. a = b
      <4> HIDE DEF a, b
      <4> QED  BY <3>1, <3>2, ModInjective, QuantumFacts DEF a, b
    <3> QED  BY <3>3
  <2>3. to(j - startIdx) = (m + j) % QuantumCount  BY <1>1, <2>1
  <2>4. (CHOOSE i \in 0 .. n - 1 : to(i) = (m + j) % QuantumCount) = j - startIdx
    BY <2>1, <2>2, <2>3
  <2>5. (m + j) % QuantumCount \in Slots  BY <1>3, <2>1
  <2> QED  BY <1>2, <2>1, <2>3, <2>4, <2>5
<1>6. ASSUME NEW p \in Nat, m + len <= p + QuantumCount, p < m + QuantumCount,
             p \notin m + startIdx .. m + startIdx + n - 1
      PROVE  after[p % QuantumCount] = contents[p % QuantumCount]
  <2>1. ASSUME NEW i \in 0 .. n - 1  PROVE to(i) # p % QuantumCount
    <3> DEFINE a == m + startIdx + i
    <3>1. a \in Nat /\ a # p /\ a < p + QuantumCount /\ p < a + QuantumCount
      BY <1>6, QuantumFacts
    <3> HIDE DEF a
    <3>2. a % QuantumCount # p % QuantumCount
      BY <3>1, ModInjective, QuantumFacts
    <3> QED  BY <3>2, <1>1 DEF a
  <2> QED  BY <1>2, <1>3, <2>1
<1> QED  BY <1>4, <1>5, <1>6 DEF Copied

\* What beginWrite leaves: a closed transaction, or one for n messages that
\* fit behind everything the writer knows to be read.
LEMMA BeginWriteOutcome ==
  ASSUME IInv, NoCounterWrap, NEW n \in Nat
  PROVE  BeginWriteTx(TRUE, writePtr, wSeen, n, wTx) =
           IF Msg(writePtr) + n <= Msg(wSeen) + QuantumCount /\ n <= QuantumCount
             THEN MemTransaction(writePtr, n) ELSE NullTx
<1>1. CountersInv  BY DEF IInv
<1>2. /\ Msg(writePtr) \in Nat /\ writePtr = SizeofT * Msg(writePtr)
      /\ Msg(wSeen) \in Nat /\ wSeen = SizeofT * Msg(wSeen)
      /\ Msg(writePtr) <= Msg(wSeen) + QuantumCount
  BY <1>1 DEF CountersInv
<1>3. Msg(wSeen) <= Msg(writePtr) /\ writePtr < PtrModulus /\ IsAligned(writePtr)
  BY <1>1, CounterFacts
<1>4. AvailableToWrite(writePtr, wSeen) = QuantumCount - (Msg(writePtr) - Msg(wSeen))
  BY <1>2, <1>3, Availability
<1> QED  BY <1>2, <1>3, <1>4, QuantumFacts DEF BeginWriteTx

\* What beginRead leaves: it never moves the read counter, and opens the
\* transaction exactly when the reader knows of n unread messages.
LEMMA BeginReadOutcome ==
  ASSUME IInv, NoCounterWrap, NEW n \in Requests
  PROVE  /\ BeginReadPtr(rSeen, readPtr) = readPtr
         /\ BeginReadTx(rSeen, readPtr, n) =
              IF Msg(readPtr) + n <= Msg(rSeen) THEN MemTransaction(readPtr, n) ELSE NullTx
<1>1. CountersInv  BY DEF IInv
<1>2. /\ Msg(readPtr) \in Nat /\ readPtr = SizeofT * Msg(readPtr)
      /\ Msg(rSeen) \in Nat /\ rSeen = SizeofT * Msg(rSeen)
      /\ Msg(readPtr) <= Msg(rSeen)
  BY <1>1 DEF CountersInv
<1>3. /\ Msg(rSeen) <= Msg(readPtr) + QuantumCount /\ rSeen < PtrModulus
      /\ IsAligned(readPtr) /\ IsAligned(rSeen)
  BY <1>1, CounterFacts
<1>4. /\ Wrap(rSeen - readPtr) = SizeofT * (Msg(rSeen) - Msg(readPtr))
      /\ ~Overrun(rSeen, readPtr)
  BY <1>2, <1>3, Availability
<1>5. n \in Nat /\ n <= MaxRequest /\ MaxRequest \in Nat
  BY SyncAssumption DEF Requests
<1>6. n * SizeofT <= MaxRequest * SizeofT /\ n * SizeofT = SizeofT * n /\ SizeofT * n \in Nat
  BY <1>5, TimesOrder, MessageCounter, RingAssumption
<1>7. SizeofT * n < PtrModulus
  <2>1. MaxRequest * SizeofT \in Nat  BY <1>5, TimesOrder, MessageCounter, RingAssumption
  <2> QED  BY <2>1, <1>6, RingAssumption DEF NoCounterWrap
<1>8. Wrap(n * SizeofT) = SizeofT * n
  BY <1>5, <1>6, <1>7, MessageCounter
<1>9. SizeofT * (Msg(rSeen) - Msg(readPtr)) >= SizeofT * n <=> Msg(readPtr) + n <= Msg(rSeen)
  <2> DEFINE unread == Msg(rSeen) - Msg(readPtr)
  <2>1. unread \in Nat  BY <1>2
  <2>2. n <= unread <=> SizeofT * n <= SizeofT * unread
    BY <2>1, <1>5, TimesOrder, RingAssumption
  <2>3. SizeofT * unread \in Nat  BY <2>1, MessageCounter
  <2>4. n <= unread <=> Msg(readPtr) + n <= Msg(rSeen)  BY <1>2, <1>5
  <2> QED  BY <2>2, <2>3, <2>4, <1>6
<1>10. CanBeginRead(rSeen, readPtr, n) <=> Msg(readPtr) + n <= Msg(rSeen)
  BY <1>3, <1>4, <1>8, <1>9 DEF CanBeginRead
<1> QED  BY <1>4, <1>10 DEF BeginReadTx, BeginReadPtr

\* What commitWrite does to the write counter.
LEMMA CommitWriteOutcome ==
  ASSUME IInv, NoCounterWrap, NEW k \in Nat, writePtr + k * SizeofT <= Horizon
  PROVE  CommitWritePtr(writePtr, k) = SizeofT * (Msg(writePtr) + k)
         /\ SizeofT * (Msg(writePtr) + k) <= Horizon
<1>1. Msg(writePtr) \in Nat /\ writePtr = SizeofT * Msg(writePtr)
  BY DEF IInv, CountersInv
<1>2. writePtr + k * SizeofT = SizeofT * (Msg(writePtr) + k)
  BY <1>1, TimesOrder, RingAssumption
<1>3. SizeofT * (Msg(writePtr) + k) < PtrModulus /\ Msg(writePtr) + k \in Nat
      /\ SizeofT * (Msg(writePtr) + k) <= Horizon
  <2>1. Msg(writePtr) + k \in Nat  BY <1>1
  <2>2. SizeofT * (Msg(writePtr) + k) \in Nat  BY <2>1, MessageCounter
  <2> QED  BY <1>2, <2>1, <2>2, RingAssumption, SyncAssumption DEF NoCounterWrap
<1> QED  BY <1>2, <1>3, MessageCounter DEF CommitWritePtr

\* What commitRead does to the read counter.
LEMMA CommitReadOutcome ==
  ASSUME IInv, NoCounterWrap, NEW k \in Nat, Msg(readPtr) + k <= Msg(rSeen)
  PROVE  CommitReadPtr(rSeen, readPtr, k) = SizeofT * (Msg(readPtr) + k)
<1>1. CountersInv  BY DEF IInv
<1>2. /\ Msg(readPtr) \in Nat /\ readPtr = SizeofT * Msg(readPtr)
      /\ Msg(rSeen) \in Nat /\ rSeen = SizeofT * Msg(rSeen)
      /\ Msg(readPtr) <= Msg(rSeen)
  BY <1>1 DEF CountersInv
<1>3. Msg(rSeen) <= Msg(readPtr) + QuantumCount /\ rSeen \in Nat /\ rSeen < PtrModulus
  BY <1>1, CounterFacts
<1>4. ~Overrun(rSeen, readPtr)
  BY <1>2, <1>3, Availability
<1>5. readPtr + k * SizeofT = SizeofT * (Msg(readPtr) + k)
  BY <1>2, TimesOrder, RingAssumption
<1>6. Msg(readPtr) + k \in Nat /\ SizeofT * (Msg(readPtr) + k) \in Nat
  BY <1>2, MessageCounter
<1>7. SizeofT * (Msg(readPtr) + k) <= rSeen
  BY <1>2, <1>6, TimesOrder, RingAssumption
<1>8. SizeofT * (Msg(readPtr) + k) < PtrModulus
  BY <1>3, <1>6, <1>7, RingAssumption
<1> QED  BY <1>4, <1>5, <1>6, <1>8, MessageCounter DEF CommitReadPtr

-----------------------------------------------------------------------------
(***************************************************************************)
(* The invariant is inductive.                                             *)
(***************************************************************************)

\* IInv written with the message numbers and transaction lengths it implies.
LEMMA InvFacts ==
  ASSUME IInv, NoCounterWrap
  PROVE  /\ \A ptr \in {writePtr, readPtr, wSeen, rSeen} :
              Msg(ptr) \in Nat /\ ptr = SizeofT * Msg(ptr)
         /\ TxLength(wTx) \in 0 .. QuantumCount
         /\ Msg(writePtr) + TxLength(wTx) <= Msg(wSeen) + QuantumCount
         /\ TxLength(wTx) # 0 => wTx = MemTransaction(writePtr, TxLength(wTx))
         /\ \A i \in 0 .. TxLength(wTx) - 1 : GetSlot(wTx, i) = Slot(writePtr, i)
         /\ TxLength(rTx) \in 0 .. QuantumCount
         /\ Msg(readPtr) + TxLength(rTx) <= Msg(rSeen)
         /\ TxLength(rTx) # 0 => rTx = MemTransaction(readPtr, TxLength(rTx))
         /\ \A i \in 0 .. TxLength(rTx) - 1 : GetSlot(rTx, i) = Slot(readPtr, i)
<1>1. \A ptr \in {writePtr, readPtr, wSeen, rSeen} :
        Msg(ptr) \in Nat /\ ptr = SizeofT * Msg(ptr)
  BY DEF IInv, CountersInv
<1>2. Msg(wSeen) + QuantumCount \in Nat /\ Msg(writePtr) <= Msg(wSeen) + QuantumCount
      /\ Msg(readPtr) <= Msg(rSeen)
  BY <1>1, QuantumFacts DEF IInv, CountersInv
<1>3. TxFor(wTx, writePtr, Msg(wSeen) + QuantumCount) /\ TxFor(rTx, readPtr, Msg(rSeen))
  BY DEF IInv, WriterInv, ReaderInv
<1>4. /\ TxLength(wTx) \in 0 .. QuantumCount
      /\ Msg(writePtr) + TxLength(wTx) <= Msg(wSeen) + QuantumCount
      /\ TxLength(wTx) # 0 => wTx = MemTransaction(writePtr, TxLength(wTx))
      /\ \A i \in 0 .. TxLength(wTx) - 1 : GetSlot(wTx, i) = Slot(writePtr, i)
  BY <1>1, <1>2, <1>3, TxForLength
<1>5. /\ TxLength(rTx) \in 0 .. QuantumCount
      /\ Msg(readPtr) + TxLength(rTx) <= Msg(rSeen)
      /\ TxLength(rTx) # 0 => rTx = MemTransaction(readPtr, TxLength(rTx))
      /\ \A i \in 0 .. TxLength(rTx) - 1 : GetSlot(rTx, i) = Slot(readPtr, i)
  BY <1>1, <1>2, <1>3, TxForLength
<1> QED  BY <1>1, <1>4, <1>5

LEMMA InitInv == ASSUME NoCounterWrap, Init PROVE IInv
<1>1. Msg(0) = 0 /\ 0 = SizeofT * 0
  BY MessageCounter, RingAssumption DEF Msg
<1>2. CountersInv
  BY <1>1, QuantumFacts, SyncAssumption DEF Init, CountersInv
<1>3. WriterInv /\ ReaderInv
  BY DEF Init, WriterInv, ReaderInv, TxFor, Empty
<1> QED  BY <1>2, <1>3 DEF IInv, Init

LEMMA BeginWriteInv ==
  ASSUME IInv, NoCounterWrap, NEW n \in Requests, BeginWrite(n)
  PROVE  IInv'
<1>1. n \in Nat  BY SyncAssumption DEF Requests
<1>2. TxFor(wTx', writePtr, Msg(wSeen) + QuantumCount)
  <2>1. wTx' = IF Msg(writePtr) + n <= Msg(wSeen) + QuantumCount /\ n <= QuantumCount
                 THEN MemTransaction(writePtr, n) ELSE NullTx
    BY <1>1, BeginWriteOutcome DEF BeginWrite
  <2>2. n <= QuantumCount => n \in 0 .. QuantumCount
    BY <1>1, QuantumFacts
  <2> QED  BY <2>1, <2>2 DEF TxFor
<1>3. WriterInv'
  BY <1>2 DEF BeginWrite, WriterInv, Empty, TxFor
<1> QED
  BY <1>3 DEF BeginWrite, IInv, CountersInv, ReaderInv

LEMMA CopyToInv ==
  ASSUME IInv, NoCounterWrap, NEW startIdx \in Slots, NEW n \in 1 .. QuantumCount,
         NEW data \in [0 .. n - 1 -> Data], CopyTo(startIdx, n, data)
  PROVE  IInv'
<1> DEFINE new == startIdx .. startIdx + n - 1
<1>0. PICK m \in Nat, len \in 0 .. QuantumCount : m = Msg(writePtr) /\ len = TxLength(wTx)
  BY InvFacts
<1>1. startIdx \in Nat /\ n \in Nat /\ n >= 1 /\ startIdx + n <= len /\ len # 0
  BY <1>0, QuantumFacts DEF CopyTo, InTx, Slots
<1>2. wTx = MemTransaction(SizeofT * m, len)
  BY <1>0, <1>1, InvFacts
<1>3. ring' = CopyInto(ring, MemTransaction(SizeofT * m, len), startIdx, n, data)
  BY <1>2 DEF CopyTo
<1>4. ring \in [Slots -> Data]  BY DEF IInv
<1>5. Copied(ring, ring', m, len, startIdx, n, data)
  BY <1>1, <1>3, <1>4, CopyIntoRing
<1>6. UNCHANGED <<writePtr, readPtr, wSeen, rSeen, wTx, rTx, rBuf>>  BY DEF CopyTo
<1>7. wBuf' = [i \in (DOMAIN wBuf) \cup new |->
                 IF i \in new THEN data[i - startIdx] ELSE wBuf[i]]
  BY DEF CopyTo
<1>8. DOMAIN wBuf \subseteq 0 .. len - 1 /\ wBuf \in [DOMAIN wBuf -> Data]
      /\ \A i \in DOMAIN wBuf : ring[(m + i) % QuantumCount] = wBuf[i]
  BY <1>0 DEF IInv, WriterInv, Slot
<1>9. WriterInv'
  <2>1. new \subseteq 0 .. len - 1 /\ \A i \in new : i - startIdx \in 0 .. n - 1
    BY <1>1
  <2>2. wBuf' \in [DOMAIN wBuf' -> Data] /\ DOMAIN wBuf' = (DOMAIN wBuf) \cup new
    BY <1>7, <1>8, <2>1
  <2>3. ASSUME NEW i \in DOMAIN wBuf'
        PROVE  ring'[(m + i) % QuantumCount] = wBuf'[i]
    <3>1. CASE i \in new  BY <3>1, <1>5, <1>7, <2>2 DEF Copied
    <3>2. CASE i \notin new
      <4> DEFINE p == m + i
      <4>1. i \in DOMAIN wBuf /\ i \in 0 .. len - 1  BY <3>2, <2>2, <1>8
      <4>2. p \in Nat /\ m + len <= p + QuantumCount /\ p < m + QuantumCount
            /\ p \notin m + startIdx .. m + startIdx + n - 1
        BY <4>1, <3>2, <1>1, QuantumFacts
      <4>3. ring'[p % QuantumCount] = ring[p % QuantumCount]  BY <4>2, <1>5 DEF Copied
      <4> QED  BY <4>1, <4>3, <3>2, <1>7, <1>8, <2>2
    <3> QED  BY <3>1, <3>2
  <2>4. TxFor(wTx', writePtr', Msg(wSeen') + QuantumCount)
    BY <1>6 DEF IInv, WriterInv
  <2>5. DOMAIN wBuf' \subseteq 0 .. TxLength(wTx') - 1
    BY <1>0, <1>6, <1>8, <2>1, <2>2
  <2> QED  BY <2>2, <2>3, <2>4, <2>5, <1>0, <1>6 DEF WriterInv, Slot
<1>10. ReaderInv'
  <2>1. ASSUME NEW i \in DOMAIN rBuf
        PROVE  ring'[Slot(readPtr, i)] = rBuf[i]
    <3> DEFINE p == Msg(readPtr) + i
    <3>0. ring[p % QuantumCount] = rBuf[i]
      BY DEF IInv, ReaderInv, Slot
    <3>1. i \in 0 .. TxLength(rTx) - 1
      BY DEF IInv, ReaderInv
    <3>2. Msg(readPtr) \in Nat /\ Msg(rSeen) \in Nat /\ Msg(wSeen) \in Nat
          /\ TxLength(rTx) \in 0 .. QuantumCount
          /\ Msg(readPtr) + TxLength(rTx) <= Msg(rSeen)
          /\ m + len <= Msg(wSeen) + QuantumCount
          /\ Msg(rSeen) <= m /\ Msg(wSeen) <= Msg(readPtr)
      BY <1>0, InvFacts DEF IInv, CountersInv
    <3>3. p \in Nat /\ p < m /\ m + len <= p + QuantumCount
      <4> DEFINE unread == TxLength(rTx)
      <4> HIDE DEF unread
      <4> QED  BY <3>1, <3>2, <1>1, QuantumFacts DEF unread
    <3>4. ring'[p % QuantumCount] = ring[p % QuantumCount]
      <4> HIDE DEF p
      <4>1. p < m + QuantumCount /\ p \notin m + startIdx .. m + startIdx + n - 1
        BY <3>3, <1>1, QuantumFacts
      <4> QED  BY <4>1, <3>3, <1>5, Zenon DEF Copied
    <3> QED  BY <3>0, <3>4 DEF Slot
  <2> QED  BY <2>1, <1>6 DEF IInv, ReaderInv
<1>11. CountersInv'  BY <1>6 DEF IInv, CountersInv
<1> QED  BY <1>5, <1>9, <1>10, <1>11 DEF IInv, Copied

LEMMA CommitWriteInv ==
  ASSUME IInv, NoCounterWrap, NEW k \in 0 .. QuantumCount, CommitWrite(k)
  PROVE  IInv'
<1>1. k \in Nat /\ writePtr + k * SizeofT <= Horizon
  BY QuantumFacts DEF CommitWrite
<1>2. Msg(writePtr) \in Nat  BY InvFacts
<1>3. writePtr' = SizeofT * (Msg(writePtr) + k) /\ writePtr' <= Horizon
  BY <1>1, CommitWriteOutcome DEF CommitWrite
<1>4. Msg(writePtr') = Msg(writePtr) + k
  BY <1>1, <1>2, <1>3, MessageCounter DEF Msg
<1>5. k <= TxLength(wTx)
  <2>1. CASE k = 0  BY <2>1, InvFacts, QuantumFacts
  <2>2. CASE k # 0
    <3>1. k - 1 \in 0 .. k - 1  BY <2>2, <1>1
    <3>2. k - 1 \in 0 .. TxLength(wTx) - 1
      BY <3>1 DEF CommitWrite, IInv, WriterInv
    <3> QED  BY <3>2, <1>1, InvFacts, QuantumFacts
  <2> QED  BY <2>1, <2>2
<1>6. Msg(writePtr) + k <= Msg(wSeen) + QuantumCount
  BY <1>1, <1>2, <1>5, InvFacts, QuantumFacts
<1>7. CountersInv'
  <2>1. UNCHANGED <<readPtr, wSeen, rSeen>>  BY DEF CommitWrite
  <2>2. Msg(rSeen) <= Msg(writePtr) + k
    BY <1>1, <1>2, InvFacts DEF IInv, CountersInv
  <2> QED
    BY <1>1, <1>2, <1>3, <1>4, <1>6, <2>1, <2>2 DEF IInv, CountersInv
<1>8. WriterInv'
  BY DEF CommitWrite, WriterInv, TxFor, Empty
<1>9. ReaderInv'
  BY DEF CommitWrite, IInv, ReaderInv
<1> QED  BY <1>7, <1>8, <1>9 DEF IInv, CommitWrite

\* Whatever a dying writer leaves in its transaction, no unread message is hit.
LEMMA WriterReattachesKeeps ==
  ASSUME IInv, NoCounterWrap, WriterReattaches,
         NEW j \in 0 .. Msg(writePtr) - Msg(readPtr) - 1
  PROVE  ring'[Slot(readPtr, j)] = ring[Slot(readPtr, j)]
<1>1. PICK w \in Nat, r \in Nat, len \in 0 .. QuantumCount :
        /\ w = Msg(writePtr) /\ r = Msg(readPtr) /\ len = TxLength(wTx)
        /\ r <= w /\ w + len <= r + QuantumCount
  BY InvFacts, QuantumFacts DEF IInv, CountersInv
<1>2. TxSlots(wTx) = {(w + i) % QuantumCount : i \in 0 .. len - 1}
  BY <1>1, InvFacts DEF TxSlots, Slot
<1> DEFINE b == r + j
<1>3. b \in Nat /\ b < w /\ r <= b
  BY <1>1
<1>4. ASSUME NEW i \in 0 .. len - 1
      PROVE  (w + i) % QuantumCount # b % QuantumCount
  <2> DEFINE a == w + i
  <2>1. a \in Nat /\ a # b /\ a < b + QuantumCount /\ b < a + QuantumCount
    BY <1>1, <1>3, QuantumFacts
  <2> HIDE DEF a, b
  <2>2. QuantumCount \in Nat \ {0}  BY QuantumFacts
  <2>3. ASSUME a % QuantumCount = b % QuantumCount PROVE a = b
    BY <1>3, <2>1, <2>2, <2>3, ModInjective
  <2>4. a % QuantumCount # b % QuantumCount  BY <2>1, <2>3
  <2> QED  BY <2>4 DEF a
<1>5. b % QuantumCount \in Slots \ TxSlots(wTx)
  <2> HIDE DEF b
  <2>1. b % QuantumCount \in Slots
    BY <1>3, DivModExists, QuantumFacts DEF Slots
  <2> QED  BY <2>1, <1>2, <1>4
<1>6. ring'[b % QuantumCount] = ring[b % QuantumCount]
  BY <1>5 DEF WriterReattaches
<1> QED  BY <1>1, <1>6 DEF Slot

LEMMA WriterReattachesInv ==
  ASSUME IInv, NoCounterWrap, WriterReattaches
  PROVE  IInv'
<1>1. /\ ring' \in [Slots -> Data] /\ wTx' = NullTx /\ wBuf' = Empty
      /\ UNCHANGED <<writePtr, readPtr, wSeen, rSeen, rTx, rBuf>>
  BY DEF WriterReattaches
<1>2. WriterInv'  BY <1>1 DEF WriterInv, TxFor, Empty
<1>3. ReaderInv'
  <2>1. ASSUME NEW i \in DOMAIN rBuf PROVE ring'[Slot(readPtr, i)] = rBuf[i]
    <3>1. i \in 0 .. TxLength(rTx) - 1 /\ ring[Slot(readPtr, i)] = rBuf[i]
      BY DEF IInv, ReaderInv
    <3>2. i \in 0 .. Msg(writePtr) - Msg(readPtr) - 1
      BY <3>1, InvFacts DEF IInv, CountersInv
    <3> QED  BY <3>1, <3>2, WriterReattachesKeeps
  <2> QED  BY <1>1, <2>1 DEF IInv, ReaderInv
<1>4. CountersInv'  BY <1>1 DEF IInv, CountersInv
<1> QED  BY <1>1, <1>2, <1>3, <1>4 DEF IInv

LEMMA ReadPtrReachesWriterInv ==
  ASSUME IInv, NoCounterWrap, ReadPtrReachesWriter
  PROVE  IInv'
<1>1. /\ wSeen' = readPtr
      /\ UNCHANGED <<ring, writePtr, readPtr, rSeen, wTx, wBuf, rTx, rBuf>>
  BY DEF ReadPtrReachesWriter
<1>2. /\ Msg(writePtr) \in Nat
      /\ Msg(wSeen) + QuantumCount \in Nat /\ Msg(readPtr) + QuantumCount \in Nat
      /\ Msg(wSeen) + QuantumCount <= Msg(readPtr) + QuantumCount
  BY InvFacts, QuantumFacts DEF IInv, CountersInv
<1>3. TxFor(wTx, writePtr, Msg(readPtr) + QuantumCount)
  BY <1>2, TxForWeaken DEF IInv, WriterInv
<1>4. WriterInv'  BY <1>1, <1>3 DEF IInv, WriterInv
<1>5. CountersInv'  BY <1>1, <1>2, InvFacts, QuantumFacts DEF IInv, CountersInv
<1> QED  BY <1>1, <1>4, <1>5 DEF IInv, ReaderInv

LEMMA BeginReadInv ==
  ASSUME IInv, NoCounterWrap, NEW n \in Requests, BeginRead(n)
  PROVE  IInv'
<1>1. n \in Nat  BY SyncAssumption DEF Requests
<1>2. UNCHANGED <<ring, writePtr, readPtr, wSeen, rSeen, wTx, wBuf>> /\ rBuf' = Empty
  BY BeginReadOutcome DEF BeginRead
<1>3. TxFor(rTx', readPtr, Msg(rSeen))
  <2>1. rTx' = IF Msg(readPtr) + n <= Msg(rSeen) THEN MemTransaction(readPtr, n) ELSE NullTx
    BY BeginReadOutcome DEF BeginRead
  <2>2. /\ Msg(readPtr) \in Nat /\ Msg(rSeen) \in Nat
        /\ Msg(rSeen) <= Msg(readPtr) + QuantumCount
    BY InvFacts, CounterFacts DEF IInv
  <2>3. Msg(readPtr) + n <= Msg(rSeen) => n \in 0 .. QuantumCount
    BY <1>1, <2>2, QuantumFacts
  <2> QED  BY <2>1, <2>3 DEF TxFor
<1>4. ReaderInv'  BY <1>2, <1>3 DEF ReaderInv, Empty
<1> QED  BY <1>2, <1>4 DEF IInv, CountersInv, WriterInv

LEMMA CopyFromInv ==
  ASSUME IInv, NoCounterWrap, NEW startIdx \in Slots, NEW n \in 1 .. QuantumCount,
         CopyFrom(startIdx, n)
  PROVE  IInv'
<1> DEFINE new == startIdx .. startIdx + n - 1
<1>1. PICK m \in Nat, len \in 0 .. QuantumCount : m = Msg(readPtr) /\ len = TxLength(rTx)
  BY InvFacts
<1>2. startIdx \in Nat /\ n \in Nat /\ n >= 1 /\ startIdx + n <= len /\ len # 0
  BY <1>1, QuantumFacts DEF CopyFrom, InTx, Slots
<1>3. rTx = MemTransaction(SizeofT * m, len)
  BY <1>1, <1>2, InvFacts
<1>4. /\ rBuf' = [i \in (DOMAIN rBuf) \cup new |->
                   IF i \in new THEN ring[CopySlot(rTx, startIdx, n, i - startIdx)]
                                ELSE rBuf[i]]
      /\ UNCHANGED <<ring, writePtr, readPtr, wSeen, rSeen, wTx, wBuf, rTx>>
  BY DEF CopyFrom
<1>5. /\ rBuf \in [DOMAIN rBuf -> Data]
      /\ DOMAIN rBuf \subseteq 0 .. len - 1
      /\ \A i \in DOMAIN rBuf : ring[(m + i) % QuantumCount] = rBuf[i]
      /\ ring \in [Slots -> Data]
  BY <1>1 DEF IInv, ReaderInv, Slot
<1>6. ASSUME NEW i \in new
      PROVE  /\ CopySlot(rTx, startIdx, n, i - startIdx) = (m + i) % QuantumCount
             /\ (m + i) % QuantumCount \in Slots
             /\ i \in 0 .. len - 1
  <2>1. i - startIdx \in 0 .. n - 1 /\ m + startIdx + (i - startIdx) = m + i
        /\ m + i \in Nat /\ i \in 0 .. len - 1
    BY <1>2
  <2>2. CopySlot(rTx, startIdx, n, i - startIdx)
          = (m + startIdx + (i - startIdx)) % QuantumCount
    BY <2>1, <1>2, <1>3, CopySlots
  <2>3. (m + i) % QuantumCount \in Slots
    BY <2>1, DivModExists, QuantumFacts DEF Slots
  <2> QED  BY <2>1, <2>2, <2>3
<1>7. rBuf' \in [DOMAIN rBuf' -> Data] /\ DOMAIN rBuf' = (DOMAIN rBuf) \cup new
  BY <1>4, <1>5, <1>6
<1>8. DOMAIN rBuf' \subseteq 0 .. len - 1
  BY <1>5, <1>6, <1>7
<1>9. \A i \in DOMAIN rBuf' : ring[(m + i) % QuantumCount] = rBuf'[i]
  BY <1>4, <1>5, <1>6, <1>7
<1>10. ReaderInv'
  BY <1>1, <1>4, <1>7, <1>8, <1>9 DEF IInv, ReaderInv, Slot
<1> QED  BY <1>4, <1>10 DEF IInv, CountersInv, WriterInv

LEMMA CommitReadInv ==
  ASSUME IInv, NoCounterWrap, NEW k \in 0 .. QuantumCount, CommitRead(k)
  PROVE  IInv'
<1>1. k \in Nat /\ Msg(readPtr) \in Nat /\ Msg(readPtr) + k <= Msg(rSeen)
  BY InvFacts, QuantumFacts DEF CommitRead
<1>2. readPtr' = SizeofT * (Msg(readPtr) + k)
  BY <1>1, CommitReadOutcome DEF CommitRead
<1>3. Msg(readPtr') = Msg(readPtr) + k
  BY <1>1, <1>2, MessageCounter DEF Msg
<1>4. UNCHANGED <<ring, writePtr, wSeen, rSeen, wTx, wBuf>> /\ rTx' = NullTx /\ rBuf' = Empty
  BY DEF CommitRead
<1>5. CountersInv'
  BY <1>1, <1>2, <1>3, <1>4, InvFacts DEF IInv, CountersInv
<1>6. ReaderInv'  BY <1>4 DEF ReaderInv, TxFor, Empty
<1> QED  BY <1>4, <1>5, <1>6 DEF IInv, WriterInv

LEMMA ReaderReattachesInv ==
  ASSUME IInv, ReaderReattaches
  PROVE  IInv'
<1>1. ReaderInv'  BY DEF ReaderReattaches, ReaderInv, TxFor, Empty
<1> QED  BY <1>1 DEF ReaderReattaches, IInv, CountersInv, WriterInv

LEMMA WritePtrReachesReaderInv ==
  ASSUME IInv, NoCounterWrap, WritePtrReachesReader
  PROVE  IInv'
<1>1. /\ rSeen' = writePtr
      /\ UNCHANGED <<ring, writePtr, readPtr, wSeen, wTx, wBuf, rTx, rBuf>>
  BY DEF WritePtrReachesReader
<1>2. /\ Msg(readPtr) \in Nat /\ Msg(rSeen) \in Nat /\ Msg(writePtr) \in Nat
      /\ Msg(rSeen) <= Msg(writePtr)
  BY InvFacts DEF IInv, CountersInv
<1>3. TxFor(rTx, readPtr, Msg(writePtr))
  BY <1>2, TxForWeaken DEF IInv, ReaderInv
<1>4. ReaderInv'  BY <1>1, <1>3 DEF IInv, ReaderInv
<1>5. CountersInv'  BY <1>1, <1>2, InvFacts DEF IInv, CountersInv
<1> QED  BY <1>1, <1>4, <1>5 DEF IInv, WriterInv

\* Every reachable state satisfies IInv.
THEOREM Invariance == ASSUME NoCounterWrap PROVE Spec => []IInv
<1>1. Init => IInv  BY InitInv
<1>2. IInv /\ [Next]_vars => IInv'
  <2> SUFFICES ASSUME IInv, [Next]_vars PROVE IInv'
    OBVIOUS
  <2>1. ASSUME NEW n \in Requests, BeginWrite(n) PROVE IInv'
    BY <2>1, BeginWriteInv
  <2>2. ASSUME NEW startIdx \in Slots, NEW n \in 1 .. QuantumCount,
               NEW data \in [0 .. n - 1 -> Data], CopyTo(startIdx, n, data)
        PROVE  IInv'
    BY <2>2, CopyToInv
  <2>3. ASSUME NEW k \in 0 .. QuantumCount, CommitWrite(k) PROVE IInv'
    BY <2>3, CommitWriteInv
  <2>4. CASE ReadPtrReachesWriter  BY <2>4, ReadPtrReachesWriterInv
  <2>5. ASSUME NEW n \in Requests, BeginRead(n) PROVE IInv'
    BY <2>5, BeginReadInv
  <2>6. ASSUME NEW startIdx \in Slots, NEW n \in 1 .. QuantumCount, CopyFrom(startIdx, n)
        PROVE  IInv'
    BY <2>6, CopyFromInv
  <2>7. ASSUME NEW k \in 0 .. QuantumCount, CommitRead(k) PROVE IInv'
    BY <2>7, CommitReadInv
  <2>8. CASE WritePtrReachesReader  BY <2>8, WritePtrReachesReaderInv
  <2>9. CASE WriterReattaches  BY <2>9, WriterReattachesInv
  <2>10. CASE ReaderReattaches  BY <2>10, ReaderReattachesInv
  <2>11. CASE UNCHANGED vars
    BY <2>11 DEF vars, IInv, CountersInv, WriterInv, ReaderInv
  <2> QED
    BY <2>1, <2>2, <2>3, <2>4, <2>5, <2>6, <2>7, <2>8, <2>9, <2>10, <2>11
       DEF Next, WriterNext, ReaderNext
<1> QED  BY <1>1, <1>2, PTL DEF Spec

-----------------------------------------------------------------------------
(***************************************************************************)
(* Safety.                                                                 *)
(***************************************************************************)

\* The unread messages between two counters, and their slots.
LEMMA UnreadView ==
  ASSUME NoCounterWrap, NEW wp, NEW rp,
         Msg(wp) \in Nat, wp = SizeofT * Msg(wp), Msg(rp) \in Nat, rp = SizeofT * Msg(rp),
         Msg(rp) <= Msg(wp), Msg(wp) <= Msg(rp) + QuantumCount, wp <= Horizon
  PROVE  /\ Wrap(wp - rp) \div SizeofT = Msg(wp) - Msg(rp)
         /\ Msg(wp) - Msg(rp) \in 0 .. QuantumCount
         /\ ~Overrun(wp, rp)
         /\ \A i \in 0 .. Msg(wp) - Msg(rp) - 1 :
              GetSlot(MemTransaction(rp, Msg(wp) - Msg(rp)), i) = Slot(rp, i)
         /\ TxLength(MemTransaction(rp, Msg(wp) - Msg(rp))) = Msg(wp) - Msg(rp)
<1>1. PICK n \in 0 .. QuantumCount : n = Msg(wp) - Msg(rp)
  BY QuantumFacts
<1>2. wp \in Nat /\ wp < PtrModulus
  BY MessageCounter, RingAssumption, SyncAssumption DEF NoCounterWrap
<1>3. Wrap(wp - rp) = SizeofT * n /\ ~Overrun(wp, rp)
  BY <1>1, <1>2, Availability
<1>4. (SizeofT * n) \div SizeofT = n
  BY MessageCounter, QuantumFacts
<1>5. TxLength(MemTransaction(rp, n)) = n
      /\ \A i \in 0 .. n - 1 : GetSlot(MemTransaction(rp, n), i) = Slot(rp, i)
  BY TransactionSlots DEF Slot
<1> QED  BY <1>1, <1>3, <1>4, <1>5

LEMMA CounterOrder ==
  ASSUME IInv, NoCounterWrap
  PROVE  /\ Msg(writePtr) \in Nat /\ writePtr = SizeofT * Msg(writePtr)
         /\ Msg(readPtr) \in Nat /\ readPtr = SizeofT * Msg(readPtr)
         /\ Msg(readPtr) <= Msg(writePtr)
         /\ Msg(writePtr) <= Msg(readPtr) + QuantumCount
         /\ writePtr <= Horizon
BY InvFacts, CounterFacts DEF IInv, CountersInv

LEMMA TypeOKFromInv == ASSUME IInv, NoCounterWrap PROVE TypeOK
<1>1. ring \in [Slots -> Data]  BY DEF IInv
<1>2. \A ptr \in {writePtr, readPtr, wSeen, rSeen} :
        ptr \in 0 .. PtrModulus - 1 /\ IsAligned(ptr)
  BY CounterFacts, RingAssumption DEF IInv
<1>3. NullTx \in Transactions
  <2>1. MemRegion(Null, 0) \in Regions
    <3>1. 0 \in 0 .. QuantumCount /\ Null \in Slots \cup {Null}  BY QuantumFacts
    <3> QED  BY <3>1 DEF Regions, MemRegion
  <2> QED  BY <2>1 DEF NullTx, Transactions
<1>4. ASSUME NEW m \in Nat, NEW n \in 0 .. QuantumCount
      PROVE  MemTransaction(SizeofT * m, n) \in Transactions
  BY TransactionType DEF Transactions, Regions, Slots
<1>5. wTx \in Transactions
  BY <1>3, <1>4, InvFacts DEF IInv, WriterInv, TxFor
<1>6. rTx \in Transactions
  BY <1>3, <1>4, InvFacts DEF IInv, ReaderInv, TxFor
<1>7. DOMAIN wBuf \in SUBSET Slots /\ DOMAIN rBuf \in SUBSET Slots
  BY InvFacts, QuantumFacts DEF IInv, WriterInv, ReaderInv, Slots
<1>8. wBuf \in Copies /\ rBuf \in Copies
  BY <1>7 DEF IInv, WriterInv, ReaderInv, Copies
<1> QED  BY <1>1, <1>2, <1>5, <1>6, <1>8 DEF TypeOK

\* Counters, transactions and buffers always have their types, so beginRead
\* and beginWrite never meet a misaligned counter.
THEOREM TypeCorrect == ASSUME NoCounterWrap PROVE Spec => []TypeOK
BY Invariance, TypeOKFromInv, PTL

\* The writer never laps the reader.
THEOREM NeverOverflows == ASSUME NoCounterWrap PROVE Spec => []NoOverflow
<1>1. IInv => NoOverflow
  BY CounterOrder, UnreadView DEF NoOverflow
<1> QED  BY <1>1, Invariance, PTL

\* A writer's and a reader's memcpy never touch the same slot, and a writer's
\* never touches a committed message that is still unread.
THEOREM NeverShares == ASSUME NoCounterWrap PROVE Spec => []NoSharedSlot
<1>1. ASSUME IInv PROVE NoSharedSlot
  <2>1. PICK w \in Nat, r \in Nat, lenW \in 0 .. QuantumCount, lenR \in 0 .. QuantumCount :
          /\ w = Msg(writePtr) /\ r = Msg(readPtr)
          /\ lenW = TxLength(wTx) /\ lenR = TxLength(rTx)
    BY <1>1, InvFacts
  <2>2. r <= w /\ w + lenW <= r + QuantumCount /\ r + lenR <= w
    BY <1>1, <2>1, InvFacts, QuantumFacts DEF IInv, CountersInv
  <2>3. TxSlots(wTx) = {(w + i) % QuantumCount : i \in 0 .. lenW - 1}
    BY <1>1, <2>1, InvFacts DEF TxSlots, Slot
  <2>4. TxSlots(rTx) = {(r + i) % QuantumCount : i \in 0 .. lenR - 1}
    BY <1>1, <2>1, InvFacts DEF TxSlots, Slot
  <2>5. UnreadSlots = {(r + i) % QuantumCount : i \in 0 .. (w - r) - 1}
    <3>1. UnreadCount = w - r  BY <1>1, <2>1, CounterOrder, UnreadView DEF UnreadCount
    <3>2. TxLength(MemTransaction(readPtr, w - r)) = w - r
          /\ \A i \in 0 .. (w - r) - 1 :
               GetSlot(MemTransaction(readPtr, w - r), i) = (r + i) % QuantumCount
      BY <1>1, <2>1, CounterOrder, UnreadView DEF Slot
    <3> QED  BY <3>1, <3>2 DEF UnreadSlots, TxSlots
  <2>6. ASSUME NEW i \in 0 .. lenW - 1, NEW j \in 0 .. (w - r) - 1
        PROVE  (w + i) % QuantumCount # (r + j) % QuantumCount
    <3> DEFINE a == w + i
               b == r + j
    <3>1. a \in Nat /\ b \in Nat /\ a # b /\ a < b + QuantumCount /\ b < a + QuantumCount
      BY <2>2, QuantumFacts
    <3> HIDE DEF a, b
    <3>2. a % QuantumCount # b % QuantumCount
      <4>1. QuantumCount \in Nat \ {0}  BY QuantumFacts
      <4>2. ASSUME a % QuantumCount = b % QuantumCount PROVE a = b
        BY <3>1, <4>1, <4>2, ModInjective
      <4> QED  BY <3>1, <4>2
    <3> QED  BY <3>2 DEF a, b
  <2>7. 0 .. lenR - 1 \subseteq 0 .. (w - r) - 1
    BY <2>2
  <2> QED  BY <2>3, <2>4, <2>5, <2>6, <2>7 DEF NoSharedSlot
<1> QED  BY <1>1, Invariance, PTL

\* An availability a side has been told of never shrinks before that side
\* itself commits, although it may be told an old value of the other counter.
THEOREM AvailabilityKept == ASSUME NoCounterWrap PROVE Spec => AvailabilityHolds
<1> DEFINE Kept ==
      /\ UNCHANGED writePtr =>
           AvailableToWrite(writePtr, wSeen') >= AvailableToWrite(writePtr, wSeen)
      /\ UNCHANGED readPtr =>
           AvailableToRead(rSeen', readPtr) >= AvailableToRead(rSeen, readPtr)
<1>1. ASSUME IInv, Next PROVE Kept
  <2>1. (wSeen' = wSeen \/ wSeen' = readPtr) /\ (rSeen' = rSeen \/ rSeen' = writePtr)
    BY <1>1 DEF Next, WriterNext, ReaderNext, BeginWrite, CopyTo, CommitWrite,
       WriterReattaches, ReadPtrReachesWriter, BeginRead, CopyFrom, CommitRead,
       ReaderReattaches, WritePtrReachesReader
  <2>2. \A ptr \in {writePtr, readPtr, wSeen, rSeen} :
          Msg(ptr) \in Nat /\ ptr = SizeofT * Msg(ptr) /\ ptr < PtrModulus
    BY <1>1, InvFacts, CounterFacts DEF IInv
  <2>3. /\ Msg(wSeen) <= Msg(readPtr) /\ Msg(readPtr) <= Msg(rSeen)
        /\ Msg(rSeen) <= Msg(writePtr) /\ Msg(wSeen) <= Msg(writePtr)
        /\ Msg(writePtr) <= Msg(wSeen) + QuantumCount
        /\ Msg(writePtr) <= Msg(readPtr) + QuantumCount
        /\ Msg(rSeen) <= Msg(readPtr) + QuantumCount
    BY <1>1, CounterFacts DEF IInv, CountersInv
  <2>4. \A ptr \in {wSeen, readPtr} :
          AvailableToWrite(writePtr, ptr) = QuantumCount - (Msg(writePtr) - Msg(ptr))
    <3>1. AvailableToWrite(writePtr, wSeen) = QuantumCount - (Msg(writePtr) - Msg(wSeen))
      BY <2>2, <2>3, Availability
    <3>2. AvailableToWrite(writePtr, readPtr) = QuantumCount - (Msg(writePtr) - Msg(readPtr))
      BY <2>2, <2>3, Availability, QuantumFacts
    <3> QED  BY <3>1, <3>2
  <2>5. \A ptr \in {rSeen, writePtr} :
          AvailableToRead(ptr, readPtr) = Msg(ptr) - Msg(readPtr)
    <3>1. AvailableToRead(rSeen, readPtr) = Msg(rSeen) - Msg(readPtr)
      BY <2>2, <2>3, Availability
    <3>2. AvailableToRead(writePtr, readPtr) = Msg(writePtr) - Msg(readPtr)
      BY <2>2, <2>3, Availability, QuantumFacts
    <3> QED  BY <3>1, <3>2
  <2>6. AvailableToWrite(writePtr, wSeen') >= AvailableToWrite(writePtr, wSeen)
    <3>1. QuantumCount - (Msg(writePtr) - Msg(readPtr))
            >= QuantumCount - (Msg(writePtr) - Msg(wSeen))
      BY <2>2, <2>3, QuantumFacts
    <3>2. QuantumCount - (Msg(writePtr) - Msg(wSeen)) \in Int  BY <2>2, QuantumFacts
    <3> QED  BY <2>1, <2>4, <3>1, <3>2
  <2>7. AvailableToRead(rSeen', readPtr) >= AvailableToRead(rSeen, readPtr)
    <3>1. Msg(writePtr) - Msg(readPtr) >= Msg(rSeen) - Msg(readPtr)
      BY <2>2, <2>3
    <3>2. Msg(rSeen) - Msg(readPtr) \in Int  BY <2>2
    <3> QED  BY <2>1, <2>5, <3>1, <3>2
  <2> QED  BY <2>6, <2>7
<1>2. IInv /\ [Next]_vars => [Kept]_vars
  BY <1>1
<1> QED  BY <1>2, Invariance, PTL DEF Spec, AvailabilityHolds

-----------------------------------------------------------------------------
(***************************************************************************)
(* Refinement of MessageFifo.                                              *)
(***************************************************************************)

\* The abstract queue, read from the ring.
LEMMA ContentsView ==
  ASSUME IInv, NoCounterWrap
  PROVE  Contents = [k \in 1 .. Msg(writePtr) - Msg(readPtr) |-> ring[Slot(readPtr, k - 1)]]
<1>1. UnreadCount = Msg(writePtr) - Msg(readPtr) /\ UnreadCount \in Nat
  BY CounterOrder, UnreadView DEF UnreadCount
<1>2. \A i \in 0 .. UnreadCount - 1 :
        GetSlot(MemTransaction(readPtr, UnreadCount), i) = Slot(readPtr, i)
  BY <1>1, CounterOrder, UnreadView
<1>3. \A k \in 1 .. UnreadCount : k - 1 \in 0 .. UnreadCount - 1
  BY <1>1
<1>4. \A k \in 1 .. UnreadCount :
        GetSlot(MemTransaction(readPtr, UnreadCount), k - 1) = Slot(readPtr, k - 1)
  BY <1>2, <1>3
<1> HIDE DEF UnreadCount
<1> QED  BY <1>1, <1>4 DEF Contents

\* The same of the next state.
LEMMA ContentsViewNext ==
  ASSUME IInv', NoCounterWrap
  PROVE  Contents' = [k \in 1 .. Msg(writePtr') - Msg(readPtr') |-> ring'[Slot(readPtr', k - 1)]]
<1>1. UnreadCount' = Msg(writePtr') - Msg(readPtr') /\ UnreadCount' \in Nat
      /\ \A i \in 0 .. Msg(writePtr') - Msg(readPtr') - 1 :
           GetSlot(MemTransaction(readPtr', Msg(writePtr') - Msg(readPtr')), i)
             = Slot(readPtr', i)
  <2>1. /\ Msg(writePtr') \in Nat /\ writePtr' = SizeofT * Msg(writePtr')
        /\ Msg(readPtr') \in Nat /\ readPtr' = SizeofT * Msg(readPtr')
        /\ Msg(wSeen') \in Nat /\ Msg(rSeen') \in Nat
        /\ Msg(wSeen') <= Msg(readPtr') /\ Msg(readPtr') <= Msg(rSeen')
        /\ Msg(rSeen') <= Msg(writePtr')
        /\ Msg(writePtr') <= Msg(wSeen') + QuantumCount
        /\ writePtr' <= Horizon
    BY DEF IInv, CountersInv
  <2>2. Msg(readPtr') <= Msg(writePtr') /\ Msg(writePtr') <= Msg(readPtr') + QuantumCount
    BY <2>1, QuantumFacts
  <2> QED  BY <2>1, <2>2, UnreadView DEF UnreadCount
<1>2. \A k \in 1 .. UnreadCount' :
        GetSlot(MemTransaction(readPtr', UnreadCount'), k - 1) = Slot(readPtr', k - 1)
  <2>1. \A k \in 1 .. UnreadCount' : k - 1 \in 0 .. UnreadCount' - 1  BY <1>1
  <2> QED  BY <1>1, <2>1
<1> HIDE DEF UnreadCount
<1> QED  BY <1>1, <1>2 DEF Contents

\* What either side has copied fits a box of the abstract queue.
LEMMA BoxesNext ==
  ASSUME IInv', NoCounterWrap
  PROVE  wBuf' \in Fifo!Boxes /\ rBuf' \in Fifo!Boxes
<1>1. /\ Msg(writePtr') \in Nat /\ writePtr' = SizeofT * Msg(writePtr')
      /\ Msg(readPtr') \in Nat /\ readPtr' = SizeofT * Msg(readPtr')
      /\ Msg(wSeen') \in Nat /\ Msg(rSeen') \in Nat
      /\ Msg(wSeen') + QuantumCount \in Nat
      /\ Msg(writePtr') <= Msg(wSeen') + QuantumCount /\ Msg(readPtr') <= Msg(rSeen')
  BY QuantumFacts DEF IInv, CountersInv
<1>2. TxLength(wTx') \in 0 .. QuantumCount /\ TxLength(rTx') \in 0 .. QuantumCount
  BY <1>1, TxForLength DEF IInv, WriterInv, ReaderInv
<1>3. DOMAIN wBuf' \in SUBSET (0 .. QuantumCount - 1)
      /\ DOMAIN rBuf' \in SUBSET (0 .. QuantumCount - 1)
  BY <1>2, QuantumFacts DEF IInv, WriterInv, ReaderInv
<1> QED  BY <1>3 DEF IInv, WriterInv, ReaderInv, Fifo!Boxes

LEMMA FifoInit == ASSUME NoCounterWrap, Init PROVE Fifo!Init
<1>1. IInv  BY InitInv
<1>2. Msg(writePtr) - Msg(readPtr) = 0
  BY <1>1, InvFacts DEF Init
<1>3. Contents = [k \in 1 .. 0 |-> ring[Slot(readPtr, k - 1)]]
  BY <1>1, <1>2, ContentsView
<1>4. Contents = << >>  BY <1>3
<1> QED  BY <1>4 DEF Init, Fifo!Init, Fifo!Empty, Empty

\* A step that leaves the counters and the ring alone leaves the queue alone.
LEMMA SameContents ==
  ASSUME UNCHANGED <<ring, writePtr, readPtr>>
  PROVE  UNCHANGED Contents
BY DEF Contents, UnreadCount

LEMMA CopyToRefines ==
  ASSUME IInv, IInv', NoCounterWrap, NEW startIdx \in Slots, NEW n \in 1 .. QuantumCount,
         NEW data \in [0 .. n - 1 -> Data], CopyTo(startIdx, n, data)
  PROVE  Fifo!Stage
<1>1. PICK m \in Nat, len \in 0 .. QuantumCount : m = Msg(writePtr) /\ len = TxLength(wTx)
  BY InvFacts
<1>2. startIdx \in Nat /\ n \in Nat /\ startIdx + n <= len /\ len # 0
  BY <1>1, QuantumFacts DEF CopyTo, InTx, Slots
<1>3. ring' = CopyInto(ring, MemTransaction(SizeofT * m, len), startIdx, n, data)
      /\ UNCHANGED <<writePtr, readPtr, rBuf>>
  BY <1>1, <1>2, InvFacts DEF CopyTo
<1>4. Copied(ring, ring', m, len, startIdx, n, data)
  BY <1>2, <1>3, CopyIntoRing DEF IInv
<1>5. PICK r \in Nat : r = Msg(readPtr) /\ r <= m /\ m + len <= r + QuantumCount
  <2>1. Msg(readPtr) \in Nat /\ Msg(wSeen) \in Nat /\ Msg(rSeen) \in Nat
        /\ m + len <= Msg(wSeen) + QuantumCount
        /\ Msg(wSeen) <= Msg(readPtr) /\ Msg(readPtr) <= Msg(rSeen) /\ Msg(rSeen) <= m
    BY <1>1, InvFacts DEF IInv, CountersInv
  <2>2. Msg(readPtr) <= m /\ m + len <= Msg(readPtr) + QuantumCount
    BY <2>1, QuantumFacts
  <2> QED  BY <2>1, <2>2
<1>6. ASSUME NEW k \in 1 .. m - r
      PROVE  ring'[(r + (k - 1)) % QuantumCount] = ring[(r + (k - 1)) % QuantumCount]
  <2> DEFINE p == r + (k - 1)
  <2>1. p \in Nat /\ m + len <= p + QuantumCount /\ p < m + QuantumCount
        /\ p \notin m + startIdx .. m + startIdx + n - 1
    BY <1>2, <1>5, QuantumFacts
  <2> HIDE DEF p
  <2>2. ring'[p % QuantumCount] = ring[p % QuantumCount]
    BY <2>1, <1>4, Zenon DEF Copied
  <2> QED  BY <2>2 DEF p
<1>7. Contents = [k \in 1 .. m - r |-> ring[(r + (k - 1)) % QuantumCount]]
  BY <1>1, <1>5, ContentsView DEF Slot
<1>8. Contents' = [k \in 1 .. m - r |-> ring'[(r + (k - 1)) % QuantumCount]]
  BY <1>1, <1>3, <1>5, ContentsViewNext DEF Slot
<1>9. UNCHANGED Contents  BY <1>6, <1>7, <1>8
<1> QED  BY <1>3, <1>9, BoxesNext DEF Fifo!Stage

LEMMA WriterReattachesRefines ==
  ASSUME IInv, IInv', NoCounterWrap, WriterReattaches
  PROVE  Fifo!Stage
<1>1. PICK n \in Nat : n = Msg(writePtr) - Msg(readPtr)
  <2>1. Msg(writePtr) - Msg(readPtr) \in Nat  BY CounterOrder
  <2> QED  BY <2>1
<1>2. UNCHANGED <<writePtr, readPtr, rBuf>>  BY DEF WriterReattaches
<1>3. Contents = [k \in 1 .. n |-> ring[Slot(readPtr, k - 1)]]
  BY <1>1, ContentsView
<1>4. Contents' = [k \in 1 .. n |-> ring'[Slot(readPtr, k - 1)]]
  BY <1>1, <1>2, ContentsViewNext
<1>5. ASSUME NEW k \in 1 .. n
      PROVE  ring'[Slot(readPtr, k - 1)] = ring[Slot(readPtr, k - 1)]
  <2>1. k - 1 \in 0 .. Msg(writePtr) - Msg(readPtr) - 1  BY <1>1
  <2> QED  BY <2>1, WriterReattachesKeeps
<1>6. UNCHANGED Contents  BY <1>3, <1>4, <1>5
<1> QED  BY <1>2, <1>6, BoxesNext DEF Fifo!Stage

LEMMA CommitWriteRefines ==
  ASSUME IInv, IInv', NoCounterWrap, NEW k \in 0 .. QuantumCount, CommitWrite(k)
  PROVE  Fifo!Put(k)
<1>1. PICK w \in Nat, r \in Nat : w = Msg(writePtr) /\ r = Msg(readPtr)
                               /\ r <= w /\ w <= r + QuantumCount
  BY CounterOrder
<1>2. k \in Nat /\ UNCHANGED <<ring, readPtr, rBuf>> /\ wBuf' = Empty
      /\ 0 .. k - 1 \subseteq DOMAIN wBuf
  BY QuantumFacts DEF CommitWrite
<1>3. Msg(writePtr') = w + k
  <2>1. writePtr' = SizeofT * (w + k)
    BY <1>1, <1>2, CommitWriteOutcome DEF CommitWrite
  <2> QED  BY <1>1, <1>2, <2>1, MessageCounter DEF Msg
<1>4. w + k <= r + QuantumCount
  BY <1>1, <1>2, <1>3, QuantumFacts DEF IInv, CountersInv
<1>5. Contents = [j \in 1 .. w - r |-> ring[(r + (j - 1)) % QuantumCount]]
  BY <1>1, ContentsView DEF Slot
<1>6. Contents' = [j \in 1 .. w + k - r |-> ring[(r + (j - 1)) % QuantumCount]]
  BY <1>1, <1>2, <1>3, ContentsViewNext DEF Slot
<1>7. Len(Contents) = w - r  BY <1>1, <1>5
<1>8. ASSUME NEW j \in 1 .. k
      PROVE  ring[(r + (w - r + j - 1)) % QuantumCount] = wBuf[j - 1]
  <2>1. j - 1 \in DOMAIN wBuf  BY <1>2
  <2>2. ring[(w + (j - 1)) % QuantumCount] = wBuf[j - 1]
    BY <2>1, <1>1 DEF IInv, WriterInv, Slot
  <2>3. r + (w - r + j - 1) = w + (j - 1)  BY <1>1
  <2> QED  BY <2>2, <2>3
<1>9. Contents' = Contents \o [j \in 1 .. k |-> wBuf[j - 1]]
  <2> DEFINE old == w - r
             at(j) == ring[(r + (j - 1)) % QuantumCount]
             msg(j) == wBuf[j - 1]
  <2>1. old \in Nat /\ w + k - r = old + k  BY <1>1, <1>2
  <2>2. \A j \in 1 .. k : at(old + j) = msg(j)  BY <1>1, <1>8
  <2>3. Contents = [j \in 1 .. old |-> at(j)] /\ Contents' = [j \in 1 .. old + k |-> at(j)]
    BY <1>5, <1>6, <2>1
  <2> HIDE DEF old, at, msg
  <2>4. [j \in 1 .. old + k |-> at(j)]
          = [j \in 1 .. old |-> at(j)] \o [j \in 1 .. k |-> msg(j)]
    BY <1>2, <2>1, <2>2
  <2> QED  BY <2>3, <2>4 DEF msg
<1>10. Len(Contents) + k <= QuantumCount  BY <1>1, <1>2, <1>4, <1>7, QuantumFacts
<1> QED  BY <1>2, <1>9, <1>10 DEF Fifo!Put, Fifo!Empty, Empty

LEMMA CopyFromRefines ==
  ASSUME IInv, IInv', NoCounterWrap, NEW startIdx \in Slots, NEW n \in 1 .. QuantumCount,
         CopyFrom(startIdx, n)
  PROVE  Fifo!Look
<1>1. UNCHANGED <<ring, writePtr, readPtr, wBuf, rTx>>  BY DEF CopyFrom
<1>2. UNCHANGED Contents  BY <1>1, SameContents
<1>3. PICK w \in Nat, r \in Nat, len \in Nat :
         /\ w = Msg(writePtr) /\ r = Msg(readPtr) /\ len = TxLength(rTx)
         /\ r + len <= w
  BY InvFacts, QuantumFacts DEF IInv, CountersInv
<1>4. Contents = [j \in 1 .. w - r |-> ring[(r + (j - 1)) % QuantumCount]]
  BY <1>3, ContentsView DEF Slot
<1>5. ASSUME NEW i \in DOMAIN rBuf'
      PROVE  i < Len(Contents) /\ rBuf'[i] = Contents[i + 1]
  <2>1. i \in 0 .. len - 1 /\ ring[(r + i) % QuantumCount] = rBuf'[i]
    BY <1>1, <1>3 DEF IInv, ReaderInv, Slot
  <2>2. i + 1 \in 1 .. w - r /\ (i + 1) - 1 = i /\ Len(Contents) = w - r
    BY <1>3, <1>4, <2>1
  <2>3. Contents[i + 1] = ring[(r + ((i + 1) - 1)) % QuantumCount]  BY <1>4, <2>2
  <2> QED  BY <2>1, <2>2, <2>3
<1> QED  BY <1>1, <1>2, <1>5, BoxesNext DEF Fifo!Look

LEMMA CommitReadRefines ==
  ASSUME IInv, IInv', NoCounterWrap, NEW k \in 0 .. QuantumCount, CommitRead(k)
  PROVE  Fifo!Take(k)
<1>1. PICK w \in Nat, r \in Nat : w = Msg(writePtr) /\ r = Msg(readPtr) /\ r + k <= w
  BY InvFacts, QuantumFacts DEF IInv, CountersInv, CommitRead
<1>2. k \in Nat /\ UNCHANGED <<ring, writePtr, wBuf>> /\ rBuf' = Empty
      /\ r + k <= Msg(rSeen)
  BY <1>1, InvFacts, QuantumFacts DEF CommitRead
<1>3. Msg(readPtr') = r + k
  <2>1. readPtr' = SizeofT * (r + k)
    BY <1>1, <1>2, CommitReadOutcome DEF CommitRead
  <2> QED  BY <1>1, <1>2, <2>1, MessageCounter DEF Msg
<1>4. Contents = [j \in 1 .. w - r |-> ring[(r + (j - 1)) % QuantumCount]]
  BY <1>1, ContentsView DEF Slot
<1>5. Contents' = [j \in 1 .. w - (r + k) |-> ring[((r + k) + (j - 1)) % QuantumCount]]
  BY <1>1, <1>2, <1>3, ContentsViewNext DEF Slot
<1>6. Contents' = SubSeq(Contents, k + 1, Len(Contents))
  <2> DEFINE old == w - r
             at(j) == ring[(r + (j - 1)) % QuantumCount]
  <2>1. old \in Nat /\ k <= old /\ w - (r + k) = old - k  BY <1>1, <1>2
  <2>2. \A j \in 1 .. old - k : ring[((r + k) + (j - 1)) % QuantumCount] = at(j + k)
    <3>1. \A j \in 1 .. old - k : (r + k) + (j - 1) = r + ((j + k) - 1)
      BY <1>1, <1>2, <2>1
    <3> QED  BY <3>1
  <2>3. Contents = [j \in 1 .. old |-> at(j)]
        /\ Contents' = [j \in 1 .. old - k |-> at(j + k)]
    BY <1>4, <1>5, <2>1, <2>2
  <2> HIDE DEF old, at
  <2>4. SubSeq([j \in 1 .. old |-> at(j)], k + 1, old) = [j \in 1 .. old - k |-> at(j + k)]
    BY <1>2, <2>1
  <2>5. Len(Contents) = old  BY <2>1, <2>3
  <2> QED  BY <2>3, <2>4, <2>5
<1>7. k <= Len(Contents)  BY <1>1, <1>2, <1>4
<1> QED  BY <1>2, <1>6, <1>7 DEF Fifo!Take, Fifo!Empty, Empty

\* The two sides implement the first-in first-out queue: every call of either
\* side is a step of MessageFifo, or changes nothing that it shows.
THEOREM Refinement == ASSUME NoCounterWrap PROVE Spec => ImplementsFifo
<1>1. Init => Fifo!Init  BY FifoInit
<1>2. IInv /\ IInv' /\ [Next]_vars => [Fifo!Next]_(Fifo!vars)
  <2> SUFFICES ASSUME IInv, IInv', [Next]_vars PROVE [Fifo!Next]_(Fifo!vars)
    OBVIOUS
  <2>1. ASSUME NEW n \in Requests, BeginWrite(n) PROVE Fifo!Next
    <3>1. UNCHANGED Contents  BY <2>1, SameContents DEF BeginWrite
    <3>2. Fifo!Stage  BY <2>1, <3>1, BoxesNext DEF BeginWrite, Fifo!Stage
    <3> QED  BY <3>2 DEF Fifo!Next
  <2>2. ASSUME NEW startIdx \in Slots, NEW n \in 1 .. QuantumCount,
               NEW data \in [0 .. n - 1 -> Data], CopyTo(startIdx, n, data)
        PROVE  Fifo!Next
    BY <2>2, CopyToRefines DEF Fifo!Next
  <2>3. ASSUME NEW k \in 0 .. QuantumCount, CommitWrite(k) PROVE Fifo!Next
    BY <2>3, CommitWriteRefines DEF Fifo!Next
  <2>4. CASE ReadPtrReachesWriter
    <3>1. UNCHANGED Contents  BY <2>4, SameContents DEF ReadPtrReachesWriter
    <3> QED  BY <2>4, <3>1 DEF ReadPtrReachesWriter, Fifo!vars
  <2>5. ASSUME NEW n \in Requests, BeginRead(n) PROVE Fifo!Next
    <3>1. UNCHANGED <<ring, writePtr, readPtr, wBuf>> /\ rBuf' = Empty
      BY <2>5, BeginReadOutcome DEF BeginRead
    <3>2. UNCHANGED Contents  BY <3>1, SameContents
    <3>3. Fifo!Look  BY <3>1, <3>2, BoxesNext DEF Fifo!Look, Empty
    <3> QED  BY <3>3 DEF Fifo!Next
  <2>6. ASSUME NEW startIdx \in Slots, NEW n \in 1 .. QuantumCount, CopyFrom(startIdx, n)
        PROVE  Fifo!Next
    BY <2>6, CopyFromRefines DEF Fifo!Next
  <2>7. ASSUME NEW k \in 0 .. QuantumCount, CommitRead(k) PROVE Fifo!Next
    BY <2>7, CommitReadRefines DEF Fifo!Next
  <2>8. CASE WritePtrReachesReader
    <3>1. UNCHANGED Contents  BY <2>8, SameContents DEF WritePtrReachesReader
    <3> QED  BY <2>8, <3>1 DEF WritePtrReachesReader, Fifo!vars
  <2>9. CASE WriterReattaches
    BY <2>9, WriterReattachesRefines DEF Fifo!Next
  <2>10. CASE ReaderReattaches
    <3>1. UNCHANGED Contents  BY <2>10, SameContents DEF ReaderReattaches
    <3>2. Fifo!Look  BY <2>10, <3>1, BoxesNext DEF ReaderReattaches, Fifo!Look, Empty
    <3> QED  BY <3>2 DEF Fifo!Next
  <2>11. CASE UNCHANGED vars
    <3>1. UNCHANGED Contents  BY <2>11, SameContents DEF vars
    <3> QED  BY <2>11, <3>1 DEF vars, Fifo!vars
  <2> QED
    BY <2>1, <2>2, <2>3, <2>4, <2>5, <2>6, <2>7, <2>8, <2>9, <2>10, <2>11
       DEF Next, WriterNext, ReaderNext
<1> QED  BY <1>1, <1>2, Invariance, PTL DEF Spec, Fifo!Spec, ImplementsFifo

=============================================================================
