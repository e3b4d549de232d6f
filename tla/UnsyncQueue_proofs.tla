-------------------------- MODULE UnsyncQueue_proofs --------------------------
(***************************************************************************)
(* UnsyncQueue, for any number of readers, every message size, ring size   *)
(* and counter width, provided the write counter does not wrap             *)
(* (NoCounterWrap): TypeOK and NothingOlder are invariants, and            *)
(* ReaderOnlyAdvances and QuietReadIsIntact hold of every step.            *)
(*                                                                         *)
(* The inductive invariant counts in messages.  It says of every committed *)
(* message what has become of it: its slot still holds it, or a store of a *)
(* later message of the same slot has begun (Holds).  Since `touched` only *)
(* grows, what a reader copied of a message stays that good while it looks *)
(* at it, however often the writer goes round meanwhile.                   *)
(***************************************************************************)
EXTENDS UnsyncQueue, RingBuffer_proofs

NoCounterWrap == Horizon < PtrModulus /\ MaxRequest * SizeofT < PtrModulus

\* c is what one may find in the slot of message m once m is
\* committed and a store has begun of every message below t.
Holds(c, m, t) ==
  \/ c = m
  \/ c = Torn /\ t > m + QuantumCount
  \/ c \in m + QuantumCount .. t - 1 /\ (c - m) % QuantumCount = 0

IsCounter(ptr) == Msg(ptr) \in Nat /\ ptr = SizeofT * Msg(ptr)

WriterInv ==
  /\ IsCounter(writePtr) /\ writePtr <= Horizon
  /\ Opened(wTx, Msg(writePtr), Msg(writePtr) + QuantumCount)
  /\ wStored \subseteq 0 .. TxLength(wTx) - 1
  /\ wStoring = Null \/ wStoring \in (0 .. TxLength(wTx) - 1) \ wStored
  /\ touched \in Msg(writePtr) .. Msg(writePtr) + QuantumCount
  /\ \A i \in wStored \cup {wStoring} : Msg(writePtr) + i < touched

RingInv ==
  /\ ring \in [Slots -> Nat \cup {Torn, Blank}]
  /\ \A m \in Nat : m < Msg(writePtr) => Holds(ring[m % QuantumCount], m, touched)
  /\ \A i \in wStored : ring[(Msg(writePtr) + i) % QuantumCount] = Msg(writePtr) + i

ReaderInv(r) ==
  /\ IsCounter(readPtr[r]) /\ IsCounter(rSeen[r])
  /\ Msg(readPtr[r]) <= Msg(rSeen[r]) /\ Msg(rSeen[r]) <= Msg(writePtr)
  /\ Opened(rTx[r], Msg(readPtr[r]), Msg(rSeen[r]))
  /\ DOMAIN rBuf[r] \subseteq 0 .. TxLength(rTx[r]) - 1
  /\ \A i \in DOMAIN rBuf[r] : Holds(rBuf[r][i], Wanted(r, i), touched)

IInv ==
  /\ WriterInv
  /\ RingInv
  /\ DOMAIN readPtr = Readers /\ DOMAIN rSeen = Readers
  /\ DOMAIN rTx = Readers /\ DOMAIN rBuf = Readers
  /\ \A r \in Readers : ReaderInv(r)

-----------------------------------------------------------------------------
(* Lemmas *)

LEMMA HoldsLater ==
  ASSUME NEW c, NEW m \in Nat, NEW t \in Nat, NEW u \in Nat, t <= u, Holds(c, m, t)
  PROVE  Holds(c, m, u)
  BY QuantumFacts DEF Holds

\* Two messages of one slot are whole rounds apart.
LEMMA SameSlot ==
  ASSUME NEW m \in Nat, NEW p \in Nat, m < p, m % QuantumCount = p % QuantumCount
  PROVE  m + QuantumCount <= p /\ (p - m) % QuantumCount = 0
<1> DEFINE q == QuantumCount
<1>1. q \in Nat \ {0}
  BY QuantumFacts
<1> HIDE DEF q
<1>2. m + q <= p
  <2> SUFFICES ASSUME p < m + q PROVE FALSE
    BY <1>1
  <2>1. m < p + q /\ m % q = p % q
    BY <1>1 DEF q
  <2>2. m = p
    BY <1>1, <2>1, ModInjective, Zenon
  <2> QED
    BY <2>2
<1>3. /\ m = q * (m \div q) + (m % q) /\ p = q * (p \div q) + (p % q)
      /\ m \div q \in Nat /\ p \div q \in Nat
  BY <1>1, DivModExists
<1>4. PICK x \in Int : p - m = q * x + 0
  <2>1. m % q = p % q /\ m % q \in Int
    BY <1>1, DivModExists DEF q
  <2>2. q * ((p \div q) - (m \div q)) = q * (p \div q) - q * (m \div q)
        /\ q * (p \div q) \in Int /\ q * (m \div q) \in Int
    BY <1>1, <1>3, TimesOrder
  <2>3. p - m = q * ((p \div q) - (m \div q)) + 0
    BY <1>3, <2>1, <2>2
  <2> QED
    BY <1>3, <2>3
<1>5. (p - m) % q = 0
  <2>1. p - m \in Int /\ 0 \in Int /\ 0 <= 0 /\ 0 < q
    BY <1>1
  <2> QED
    BY <1>1, <1>4, <2>1, DivModUnique, Zenon
<1> QED
  BY <1>2, <1>5 DEF q

LEMMA CounterFacts ==
  ASSUME NoCounterWrap, WriterInv, NEW ptr, IsCounter(ptr), Msg(ptr) <= Msg(writePtr)
  PROVE  ptr \in 0 .. PtrModulus - 1 /\ IsAligned(ptr) /\ ptr <= writePtr
<1>1. ptr \in Nat /\ IsAligned(ptr) /\ writePtr \in Nat
  BY MessageCounter DEF IsCounter, WriterInv
<1>2. ptr <= writePtr
  BY TimesOrder, RingAssumption DEF IsCounter, WriterInv
<1> QED
  BY <1>1, <1>2, RingAssumption, UnsyncAssumption DEF NoCounterWrap, WriterInv

LEMMA WriterTx ==
  ASSUME WriterInv
  PROVE  /\ TxLength(wTx) \in 0 .. QuantumCount
         /\ wTx \in Transactions
         /\ \A i \in 0 .. TxLength(wTx) - 1 :
              GetSlot(wTx, i) = (Msg(writePtr) + i) % QuantumCount /\ GetSlot(wTx, i) \in Slots
<1>1. Msg(writePtr) \in Nat /\ Msg(writePtr) + QuantumCount \in Nat
      /\ Msg(writePtr) <= Msg(writePtr) + QuantumCount
  BY QuantumFacts DEF WriterInv, IsCounter
<1>2. \A i \in Nat : (Msg(writePtr) + i) % QuantumCount \in Slots
  BY <1>1, RingOffset DEF Slots
<1> QED
  BY <1>1, <1>2, OpenedFacts DEF WriterInv, Transactions, Regions, RegionType, Slots

LEMMA ReaderTx ==
  ASSUME WriterInv, NEW r \in Readers, ReaderInv(r)
  PROVE  /\ TxLength(rTx[r]) \in 0 .. QuantumCount
         /\ Msg(readPtr[r]) + TxLength(rTx[r]) <= Msg(rSeen[r])
         /\ rTx[r] \in Transactions
         /\ \A i \in 0 .. TxLength(rTx[r]) - 1 :
              GetSlot(rTx[r], i) = (Msg(readPtr[r]) + i) % QuantumCount
  BY OpenedFacts DEF ReaderInv, IsCounter, Transactions, Regions, RegionType, Slots

\* The messages of one transaction are in different slots.
LEMMA DistinctSlots ==
  ASSUME NEW m \in Nat, NEW i \in Slots, NEW j \in Slots, i # j
  PROVE  (m + i) % QuantumCount # (m + j) % QuantumCount
<1> DEFINE q == QuantumCount
           a == m + i
           b == m + j
<1>1. q \in Nat \ {0} /\ a \in Nat /\ b \in Nat /\ a < b + q /\ b < a + q /\ a # b
  BY QuantumFacts DEF Slots
<1> HIDE DEF a, b, q
<1>2. a % q # b % q
  BY <1>1, ModInjective, Zenon
<1> QED
  BY <1>2 DEF a, b, q

LEMMA NumberFacts ==
  ASSUME IInv
  PROVE  /\ Msg(writePtr) \in Nat /\ writePtr = SizeofT * Msg(writePtr)
         /\ touched \in Nat /\ QuantumCount \in Nat \ {0}
         /\ Msg(writePtr) <= touched /\ touched <= Msg(writePtr) + QuantumCount
         /\ wStored \subseteq Slots
  BY WriterTx, QuantumFacts DEF IInv, WriterInv, IsCounter, Slots

-----------------------------------------------------------------------------
(* The writer *)

\* Nothing the writer does makes what a reader has copied any worse.
LEMMA ReadersKept ==
  ASSUME IInv, UNCHANGED readerVars, Msg(writePtr') \in Nat, Msg(writePtr) <= Msg(writePtr'),
         touched' \in Nat, touched <= touched'
  PROVE  /\ DOMAIN readPtr' = Readers /\ DOMAIN rSeen' = Readers
         /\ DOMAIN rTx' = Readers /\ DOMAIN rBuf' = Readers
         /\ \A r \in Readers : ReaderInv(r)'
<1>1. UNCHANGED <<readPtr, rSeen, rTx, rBuf>>
  BY DEF readerVars
<1>2. ASSUME NEW r \in Readers PROVE ReaderInv(r)'
  <2>1. ReaderInv(r)
    BY DEF IInv
  <2>2. Msg(rSeen[r]) <= Msg(writePtr')
    BY <2>1, NumberFacts DEF ReaderInv, IsCounter
  <2>3. ASSUME NEW i \in DOMAIN rBuf[r] PROVE Holds(rBuf[r][i], Wanted(r, i), touched')
    <3>1. i \in Nat /\ Wanted(r, i) \in Nat
      BY <2>1, ReaderTx, QuantumFacts DEF IInv, ReaderInv, IsCounter, Wanted
    <3>2. Holds(rBuf[r][i], Wanted(r, i), touched)
      BY <2>1 DEF ReaderInv
    <3> QED
      BY <3>1, <3>2, NumberFacts, HoldsLater
  <2> QED
    BY <1>1, <2>1, <2>2, <2>3 DEF ReaderInv, Wanted, IsCounter
<1> QED
  BY <1>1, <1>2 DEF IInv

LEMMA WriterQuiet ==
  ASSUME IInv, UNCHANGED <<ring, writePtr, touched, readerVars>>,
         wStored' = {}, wStoring' = Null,
         Opened(wTx', Msg(writePtr), Msg(writePtr) + QuantumCount)
  PROVE  IInv'
<1>1. WriterInv'
  BY NumberFacts DEF IInv, WriterInv, IsCounter, Null
<1>2. RingInv'
  BY DEF IInv, RingInv
<1> QED
  BY <1>1, <1>2, NumberFacts, ReadersKept DEF IInv

LEMMA BeginWriteInv ==
  ASSUME IInv, NEW n \in Requests, BeginWrite(n)
  PROVE  IInv'
<1>1. n \in Nat
  BY UnsyncAssumption DEF Requests
<1>2. IsAligned(writePtr)
  BY NumberFacts, MessageCounter
<1>3. wTx' = IF n > QuantumCount THEN NullTx ELSE MemTransaction(writePtr, n)
  BY <1>2 DEF BeginWrite, BeginWriteTx
<1>4. Opened(wTx', Msg(writePtr), Msg(writePtr) + QuantumCount)
  BY <1>1, <1>3, NumberFacts DEF Opened
<1> QED
  BY <1>4, WriterQuiet DEF BeginWrite

LEMMA RestartInv ==
  ASSUME IInv, WriterRestart
  PROVE  IInv'
  BY WriterQuiet DEF WriterRestart, Opened

\* What becomes of the ring when a store of message W + i begins or ends.
LEMMA StoreInRing ==
  ASSUME IInv, NEW i \in Slots, i \notin wStored, NEW c \in Nat \cup {Torn, Blank},
         ring' = [ring EXCEPT ![(Msg(writePtr) + i) % QuantumCount] = c],
         NEW t \in Nat, touched <= t, Msg(writePtr) + i < t,
         c = Torn \/ c = Msg(writePtr) + i
  PROVE  /\ ring' \in [Slots -> Nat \cup {Torn, Blank}]
         /\ \A m \in Nat : m < Msg(writePtr) => Holds(ring'[m % QuantumCount], m, t)
         /\ \A j \in wStored : ring'[(Msg(writePtr) + j) % QuantumCount] = Msg(writePtr) + j
         /\ ring'[(Msg(writePtr) + i) % QuantumCount] = c
<1> DEFINE W == Msg(writePtr)
           x == (W + i) % QuantumCount
<1>1. W \in Nat /\ W + i \in Nat /\ QuantumCount \in Nat \ {0}
  BY NumberFacts DEF Slots
<1>2. \A m \in Nat : m % QuantumCount \in Slots
  BY RingOffset DEF Slots
<1>3. ring \in [Slots -> Nat \cup {Torn, Blank}] /\ x \in Slots
  BY <1>1, <1>2 DEF IInv, RingInv
<1>4. ring' \in [Slots -> Nat \cup {Torn, Blank}] /\ ring'[x] = c
  BY <1>3
<1>5. ASSUME NEW m \in Nat, m < W PROVE Holds(ring'[m % QuantumCount], m, t)
  <2>1. CASE m % QuantumCount = x
    <3>1. m < W + i
      BY <1>1, <1>5 DEF Slots
    <3>2. m + QuantumCount <= W + i /\ ((W + i) - m) % QuantumCount = 0
      BY <1>1, <2>1, <3>1, SameSlot
    <3>3. m + QuantumCount < t /\ W + i \in m + QuantumCount .. t - 1
      BY <1>1, <3>2
    <3> QED
      BY <1>4, <2>1, <3>2, <3>3 DEF Holds
  <2>2. CASE m % QuantumCount # x
    <3>1. ring'[m % QuantumCount] = ring[m % QuantumCount]
      BY <1>2, <1>3, <2>2
    <3>2. Holds(ring[m % QuantumCount], m, touched)
      BY <1>5 DEF IInv, RingInv
    <3> QED
      BY <3>1, <3>2, NumberFacts, HoldsLater
  <2> QED
    BY <2>1, <2>2
<1>6. ASSUME NEW j \in wStored PROVE ring'[(W + j) % QuantumCount] = W + j
  <2>1. j \in Slots /\ j # i /\ W + j \in Nat
    BY <1>1, NumberFacts DEF Slots
  <2>2. (W + j) % QuantumCount # x /\ (W + j) % QuantumCount \in Slots
    BY <1>1, <1>2, <2>1, DistinctSlots
  <2>3. ring[(W + j) % QuantumCount] = W + j
    BY DEF IInv, RingInv
  <2> QED
    BY <1>3, <2>2, <2>3
<1> QED
  BY <1>4, <1>5, <1>6

LEMMA StoreBeginInv ==
  ASSUME IInv, NEW i \in Slots, StoreBegin(i)
  PROVE  IInv'
<1> DEFINE W == Msg(writePtr)
<1>1. /\ W \in Nat /\ W + i \in Nat /\ touched \in Nat
      /\ i \in 0 .. TxLength(wTx) - 1 /\ i < QuantumCount
      /\ UNCHANGED <<writePtr, wTx, wStored, readerVars>> /\ wStoring' = i
  BY NumberFacts, WriterTx DEF StoreBegin, Slots, IInv
<1>2. touched' \in Nat /\ touched <= touched' /\ W + i < touched' /\ touched' <= W + QuantumCount
  BY <1>1, NumberFacts DEF StoreBegin
<1>3. ring' = [ring EXCEPT ![(W + i) % QuantumCount] = Torn]
  BY <1>1, WriterTx DEF StoreBegin, IInv
<1>4. WriterInv'
  <2>1. \A j \in wStored \cup {i} : W + j < touched'
    BY <1>1, <1>2, NumberFacts DEF IInv, WriterInv, Slots
  <2>2. touched' \in W .. W + QuantumCount
    BY <1>1, <1>2, NumberFacts
  <2>3. i \in (0 .. TxLength(wTx) - 1) \ wStored
    BY <1>1 DEF StoreBegin
  <2> QED
    BY <1>1, <2>1, <2>2, <2>3 DEF IInv, WriterInv, IsCounter
<1>5. RingInv'
  BY <1>1, <1>2, <1>3, StoreInRing DEF RingInv, StoreBegin
<1> QED
  BY <1>1, <1>2, <1>4, <1>5, ReadersKept DEF IInv

LEMMA StoreEndInv ==
  ASSUME IInv, StoreEnd
  PROVE  IInv'
<1> DEFINE W == Msg(writePtr)
           i == wStoring
<1>1. /\ W \in Nat /\ touched \in Nat /\ i \in (0 .. TxLength(wTx) - 1) \ wStored
      /\ UNCHANGED <<writePtr, wTx, touched, readerVars>>
      /\ wStored' = wStored \cup {i} /\ wStoring' = Null
      /\ W + i < touched
  BY NumberFacts DEF StoreEnd, IInv, WriterInv
<1>2. i \in Slots /\ W + i \in Nat
  BY <1>1, WriterTx, QuantumFacts DEF IInv, Slots
<1>3. ring' = [ring EXCEPT ![(W + i) % QuantumCount] = W + i]
  BY <1>1, WriterTx DEF StoreEnd, IInv
<1>4. WriterInv'
  <2>1. \A j \in wStored \cup {i} \cup {Null} : W + j < touched
    BY <1>1, NumberFacts DEF IInv, WriterInv, Null
  <2> QED
    BY <1>1, <2>1 DEF IInv, WriterInv, IsCounter
<1>5. RingInv'
  <2>1. /\ ring' \in [Slots -> Nat \cup {Torn, Blank}]
        /\ \A m \in Nat : m < W => Holds(ring'[m % QuantumCount], m, touched)
        /\ \A j \in wStored : ring'[(W + j) % QuantumCount] = W + j
        /\ ring'[(W + i) % QuantumCount] = W + i
    <3>1. i \notin wStored /\ W + i \in Nat \cup {Torn, Blank} /\ touched <= touched
      BY <1>1, <1>2
    <3> QED
      BY <1>1, <1>2, <1>3, <3>1, StoreInRing
  <2> QED
    BY <1>1, <2>1 DEF RingInv
<1> QED
  BY <1>1, <1>4, <1>5, ReadersKept DEF IInv

\* A commit moves the counter past messages that are all in the ring.
LEMMA CommitWriteInv ==
  ASSUME NoCounterWrap, IInv, NEW k \in 0 .. QuantumCount, CommitWrite(k)
  PROVE  IInv'
<1> DEFINE W == Msg(writePtr)
<1>1. /\ W \in Nat /\ k \in Nat /\ W + k \in Nat /\ writePtr = SizeofT * W /\ touched \in Nat
      /\ UNCHANGED <<ring, touched, wStoring, readerVars>>
      /\ wStored' = {} /\ wStoring = Null /\ wTx' = NullTx /\ 0 .. k - 1 \subseteq wStored
  BY NumberFacts DEF CommitWrite
<1>2. writePtr + k * SizeofT = SizeofT * (W + k)
  BY <1>1, TimesOrder, RingAssumption
<1>3. SizeofT * (W + k) <= Horizon
  BY <1>2 DEF CommitWrite
<1>4. writePtr' = SizeofT * (W + k)
  <2>1. Horizon \in Nat /\ Horizon < PtrModulus
    BY UnsyncAssumption DEF NoCounterWrap
  <2>2. Wrap(SizeofT * (W + k)) = SizeofT * (W + k)
    BY <1>1, <1>3, <2>1, BelowWrap
  <2> QED
    BY <1>2, <2>2 DEF CommitWrite, CommitWritePtr
<1>5. Msg(writePtr') = W + k /\ IsCounter(writePtr')
  BY <1>1, <1>4, MessageCounter DEF Msg, IsCounter
<1>6. W + k <= touched /\ touched <= W + k + QuantumCount
  <2>1. CASE k = 0
    BY <1>1, <2>1, NumberFacts
  <2>2. CASE k # 0
    <3>1. k - 1 \in wStored
      BY <1>1, <2>2
    <3>2. W + (k - 1) < touched
      BY <3>1 DEF IInv, WriterInv
    <3> QED
      BY <1>1, <3>2, NumberFacts
  <2> QED
    BY <2>1, <2>2
<1>7. WriterInv'
  <2>1. touched \in W + k .. W + k + QuantumCount /\ W + k + Null < touched
    BY <1>1, <1>6, NumberFacts DEF Null
  <2> QED
    BY <1>1, <1>3, <1>4, <1>5, <2>1 DEF WriterInv, Opened
<1>8. RingInv'
  <2>1. ASSUME NEW m \in Nat, m < W + k PROVE Holds(ring[m % QuantumCount], m, touched)
    <3>1. CASE m < W
      BY <3>1 DEF IInv, RingInv
    <3>2. CASE ~(m < W)
      <4>1. m - W \in wStored /\ W + (m - W) = m
        BY <1>1, <2>1, <3>2
      <4>2. ring[(W + (m - W)) % QuantumCount] = W + (m - W)
        BY <4>1 DEF IInv, RingInv
      <4> QED
        BY <4>1, <4>2 DEF Holds
    <3> QED
      BY <3>1, <3>2
  <2> QED
    BY <1>1, <1>5, <2>1 DEF IInv, RingInv
<1> QED
  BY <1>1, <1>5, <1>7, <1>8, ReadersKept DEF IInv

-----------------------------------------------------------------------------
(* A reader *)

\* A step of reader r leaves everything else as it is.
LEMMA OnlyReader ==
  ASSUME IInv, NEW r \in Readers, UNCHANGED writerVars,
         DOMAIN readPtr' = Readers /\ DOMAIN rSeen' = Readers,
         DOMAIN rTx' = Readers /\ DOMAIN rBuf' = Readers,
         \A q \in Readers \ {r} : /\ readPtr'[q] = readPtr[q] /\ rSeen'[q] = rSeen[q]
                                /\ rTx'[q] = rTx[q] /\ rBuf'[q] = rBuf[q],
         ReaderInv(r)'
  PROVE  IInv'
<1>1. UNCHANGED <<ring, writePtr, wTx, wStored, wStoring, touched>>
  BY DEF writerVars
<1>2. ASSUME NEW q \in Readers \ {r} PROVE ReaderInv(q)'
  BY <1>1 DEF IInv, ReaderInv, Wanted, IsCounter
<1>3. WriterInv' /\ RingInv'
  BY <1>1 DEF IInv, WriterInv, RingInv, IsCounter
<1> QED
  BY <1>2, <1>3 DEF IInv

\* What the calls of reader r return, in messages: it is behind what it has seen
\* by some distance, and overrun when that is more than the ring.
LEMMA ReaderCalls ==
  ASSUME NoCounterWrap, IInv, NEW r \in Readers
  PROVE  LET R == Msg(readPtr[r])
             S == Msg(rSeen[r])
         IN  /\ R \in Nat /\ S \in Nat /\ R <= S /\ S <= Msg(writePtr)
             /\ readPtr[r] = SizeofT * R /\ rSeen[r] = SizeofT * S
             /\ BeginReadPtr(rSeen[r], readPtr[r]) =
                  IF QuantumCount < S - R THEN rSeen[r] ELSE readPtr[r]
             /\ \A n \in Requests : BeginReadTx(rSeen[r], readPtr[r], n) =
                  IF QuantumCount < S - R \/ S - R < n THEN NullTx
                  ELSE MemTransaction(readPtr[r], n)
             /\ \A k \in Nat : R + k <= S => CommitReadPtr(rSeen[r], readPtr[r], k) =
                  IF QuantumCount < S - R THEN rSeen[r] ELSE SizeofT * (R + k)
<1> DEFINE R == Msg(readPtr[r])
           S == Msg(rSeen[r])
<1>1. /\ R \in Nat /\ S \in Nat /\ R <= S /\ S <= Msg(writePtr)
      /\ readPtr[r] = SizeofT * R /\ rSeen[r] = SizeofT * S
  BY DEF IInv, ReaderInv, IsCounter
<1>2. SizeofT * S < PtrModulus
  BY <1>1, CounterFacts, RingAssumption DEF IInv, ReaderInv
<1>3. ASSUME NEW n \in Requests PROVE n \in Nat /\ SizeofT * n < PtrModulus
  <2>1. n \in Nat /\ MaxRequest \in Nat /\ n <= MaxRequest
    BY UnsyncAssumption DEF Requests
  <2>2. SizeofT * n <= SizeofT * MaxRequest /\ MaxRequest * SizeofT = SizeofT * MaxRequest
    BY <2>1, TimesOrder, RingAssumption
  <2>3. SizeofT * n \in Nat /\ SizeofT * MaxRequest \in Nat
    BY <2>1, MessageCounter
  <2>4. SizeofT * MaxRequest < PtrModulus
    BY <2>2 DEF NoCounterWrap
  <2> QED
    BY <2>1, <2>2, <2>3, <2>4, RingAssumption
<1> QED
  BY <1>1, <1>2, <1>3, ReadCalls

LEMMA BeginReadInv ==
  ASSUME NoCounterWrap, IInv, NEW r \in Readers, NEW n \in Requests, BeginRead(r, n)
  PROVE  IInv'
<1> DEFINE R == Msg(readPtr[r])
           S == Msg(rSeen[r])
<1>1. /\ R \in Nat /\ S \in Nat /\ R <= S /\ S <= Msg(writePtr) /\ n \in Nat
      /\ readPtr[r] = SizeofT * R /\ rSeen[r] = SizeofT * S /\ QuantumCount \in Nat
      /\ UNCHANGED <<rSeen, writerVars>> /\ writePtr' = writePtr
      /\ rBuf'[r] = Empty /\ DOMAIN Empty = {}
  BY ReaderCalls, UnsyncAssumption, QuantumFacts DEF BeginRead, Requests, IInv, Empty, writerVars
<1>2. /\ readPtr'[r] = IF QuantumCount < S - R THEN rSeen[r] ELSE readPtr[r]
      /\ rTx'[r] = IF QuantumCount < S - R \/ S - R < n THEN NullTx
                   ELSE MemTransaction(readPtr[r], n)
  BY ReaderCalls DEF BeginRead, IInv
<1>3. ReaderInv(r)'
  <2>1. CASE QuantumCount < S - R
    BY <1>1, <1>2, <2>1 DEF ReaderInv, IsCounter, Opened
  <2>2. CASE ~(QuantumCount < S - R)
    <3>1. Opened(rTx'[r], R, S)
      BY <1>1, <1>2, <2>2 DEF Opened
    <3> QED
      BY <1>1, <1>2, <2>2, <3>1 DEF ReaderInv, IsCounter
  <2> QED
    BY <2>1, <2>2
<1>4. \A q \in Readers \ {r} : readPtr'[q] = readPtr[q] /\ rTx'[q] = rTx[q] /\ rBuf'[q] = rBuf[q]
  BY DEF BeginRead, IInv
<1>5. DOMAIN readPtr' = Readers /\ DOMAIN rTx' = Readers /\ DOMAIN rBuf' = Readers
  BY DEF BeginRead, IInv
<1> QED
  BY <1>1, <1>3, <1>4, <1>5, OnlyReader DEF IInv

\* The message copied is committed, so its slot holds what RingInv says.
LEMMA CopyFromInv ==
  ASSUME IInv, NEW r \in Readers, NEW i \in Slots, CopyFrom(r, i)
  PROVE  IInv'
<1> DEFINE m == Wanted(r, i)
<1>1. /\ i \in 0 .. TxLength(rTx[r]) - 1 /\ Msg(readPtr[r]) \in Nat /\ Msg(rSeen[r]) \in Nat
      /\ UNCHANGED <<readPtr, rSeen, rTx, writerVars>> /\ UNCHANGED <<writePtr, touched>>
      /\ ReaderInv(r) /\ Msg(writePtr) \in Nat
  BY ReaderTx, NumberFacts DEF CopyFrom, Slots, IInv, ReaderInv, IsCounter, writerVars
<1>2. m \in Nat /\ m < Msg(writePtr) /\ m = Msg(readPtr[r]) + i
  BY <1>1, ReaderTx, QuantumFacts DEF Wanted, IInv, ReaderInv
<1>3. GetSlot(rTx[r], i) = m % QuantumCount
  BY <1>1, <1>2, ReaderTx DEF IInv
<1>4. Holds(ring[GetSlot(rTx[r], i)], m, touched)
  BY <1>2, <1>3 DEF IInv, RingInv
<1>5. /\ DOMAIN rBuf'[r] = DOMAIN rBuf[r] \cup {i}
      /\ \A j \in DOMAIN rBuf'[r] :
           rBuf'[r][j] = IF j = i THEN ring[GetSlot(rTx[r], i)] ELSE rBuf[r][j]
  BY DEF CopyFrom, IInv
<1>6. ReaderInv(r)'
  BY <1>1, <1>4, <1>5 DEF ReaderInv, IsCounter, Wanted
<1>7. /\ \A q \in Readers \ {r} : rBuf'[q] = rBuf[q]
      /\ DOMAIN rBuf' = Readers
  BY DEF CopyFrom, IInv
<1> QED
  BY <1>1, <1>6, <1>7, OnlyReader DEF IInv

LEMMA CommitReadOutcome ==
  ASSUME NoCounterWrap, IInv, NEW r \in Readers, NEW k \in 0 .. QuantumCount, CommitRead(r, k)
  PROVE  LET R == Msg(readPtr[r])
             S == Msg(rSeen[r])
         IN  /\ k \in Nat /\ R + k <= S
             /\ readPtr'[r] = IF QuantumCount < S - R THEN rSeen[r] ELSE SizeofT * (R + k)
<1> DEFINE R == Msg(readPtr[r])
           S == Msg(rSeen[r])
<1>1. R \in Nat /\ S \in Nat /\ R <= S /\ k \in Nat
  BY ReaderCalls, QuantumFacts
<1>2. k <= TxLength(rTx[r])
  <2>1. CASE k = 0
    BY <2>1, ReaderTx, QuantumFacts DEF IInv
  <2>2. CASE k # 0
    <3>1. k - 1 \in DOMAIN rBuf[r]
      BY <1>1, <2>2 DEF CommitRead
    <3> QED
      BY <1>1, <3>1, ReaderTx, QuantumFacts DEF IInv, ReaderInv
  <2> QED
    BY <2>1, <2>2
<1>3. R + k <= S
  BY <1>1, <1>2, ReaderTx, QuantumFacts DEF IInv
<1> QED
  BY <1>1, <1>3, ReaderCalls DEF CommitRead, IInv

LEMMA CommitReadInv ==
  ASSUME NoCounterWrap, IInv, NEW r \in Readers, NEW k \in 0 .. QuantumCount, CommitRead(r, k)
  PROVE  IInv'
<1> DEFINE R == Msg(readPtr[r])
           S == Msg(rSeen[r])
<1>1. /\ R \in Nat /\ S \in Nat /\ k \in Nat /\ R + k \in Nat /\ R + k <= S /\ S <= Msg(writePtr)
      /\ rSeen[r] = SizeofT * S
      /\ readPtr'[r] = IF QuantumCount < S - R THEN rSeen[r] ELSE SizeofT * (R + k)
      /\ UNCHANGED <<rSeen, writerVars>> /\ writePtr' = writePtr
      /\ rTx'[r] = NullTx /\ rBuf'[r] = Empty /\ DOMAIN Empty = {}
  <2>1. /\ R \in Nat /\ S \in Nat /\ S <= Msg(writePtr) /\ rSeen[r] = SizeofT * S
    BY ReaderCalls
  <2>2. /\ k \in Nat /\ R + k <= S
        /\ readPtr'[r] = IF QuantumCount < S - R THEN rSeen[r] ELSE SizeofT * (R + k)
    BY CommitReadOutcome
  <2>3. /\ UNCHANGED <<rSeen, writerVars>> /\ writePtr' = writePtr
        /\ rTx'[r] = NullTx /\ rBuf'[r] = Empty /\ DOMAIN Empty = {}
    BY DEF CommitRead, IInv, Empty, writerVars
  <2> QED
    BY <2>1, <2>2, <2>3
<1>2. ReaderInv(r)'
  <2>1. CASE QuantumCount < S - R
    BY <1>1, <2>1 DEF ReaderInv, IsCounter, Opened
  <2>2. CASE ~(QuantumCount < S - R)
    <3>1. Msg(readPtr'[r]) = R + k /\ IsCounter(readPtr'[r])
      BY <1>1, <2>2, MessageCounter DEF Msg, IsCounter
    <3> QED
      BY <1>1, <3>1 DEF ReaderInv, IsCounter, Opened
  <2> QED
    BY <2>1, <2>2
<1>3. /\ \A q \in Readers \ {r} : readPtr'[q] = readPtr[q] /\ rTx'[q] = rTx[q] /\ rBuf'[q] = rBuf[q]
      /\ DOMAIN readPtr' = Readers /\ DOMAIN rTx' = Readers /\ DOMAIN rBuf' = Readers
  BY DEF CommitRead, IInv
<1> QED
  BY <1>1, <1>2, <1>3, OnlyReader DEF IInv

LEMMA WritePtrReachesInv ==
  ASSUME IInv, NEW r \in Readers, WritePtrReaches(r)
  PROVE  IInv'
<1>1. /\ UNCHANGED <<readPtr, rTx, rBuf, writerVars>> /\ UNCHANGED <<writePtr, touched>>
      /\ rSeen'[r] = writePtr /\ DOMAIN rSeen' = Readers
      /\ \A q \in Readers \ {r} : rSeen'[q] = rSeen[q]
  BY DEF WritePtrReaches, writerVars, IInv
<1>2. ReaderInv(r) /\ IsCounter(writePtr)
  BY DEF IInv, WriterInv
<1>3. Opened(rTx[r], Msg(readPtr[r]), Msg(writePtr))
  BY <1>2, OpenedLater DEF ReaderInv, IsCounter
<1>4. ReaderInv(r)'
  BY <1>1, <1>2, <1>3 DEF ReaderInv, IsCounter, Wanted
<1> QED
  BY <1>1, <1>4, OnlyReader DEF IInv

\* A read counter jumps to what the reader has seen when that is more than a
\* ring away, and otherwise moves past messages it has seen.
LEMMA ReadPtrMoves ==
  ASSUME NoCounterWrap, IInv, [Next]_vars, NEW r \in Readers
  PROVE  LET R == Msg(readPtr[r])
             S == Msg(rSeen[r])
         IN  \/ readPtr'[r] = readPtr[r]
             \/ QuantumCount < S - R /\ readPtr'[r] = rSeen[r]
             \/ /\ ~(QuantumCount < S - R)
                /\ \E k \in Nat : R + k <= S /\ readPtr'[r] = SizeofT * (R + k)
<1>1. CASE WriterNext \/ UNCHANGED vars
  BY <1>1 DEF WriterNext, BeginWrite, StoreBegin, StoreEnd, CommitWrite, WriterRestart,
              vars, readerVars
<1>2. ASSUME NEW q \in Readers \ {r}, ReaderNext(q) PROVE readPtr'[r] = readPtr[r]
  BY <1>2 DEF ReaderNext, BeginRead, CopyFrom, CommitRead, WritePtrReaches, IInv
<1>3. ASSUME NEW n \in Requests, BeginRead(r, n)
      PROVE  readPtr'[r] = IF QuantumCount < Msg(rSeen[r]) - Msg(readPtr[r])
                           THEN rSeen[r] ELSE readPtr[r]
  BY <1>3, ReaderCalls DEF BeginRead, IInv
<1>4. CASE (\E i \in Slots : CopyFrom(r, i)) \/ WritePtrReaches(r)
  BY <1>4 DEF CopyFrom, WritePtrReaches
<1>5. ASSUME NEW k \in 0 .. QuantumCount, CommitRead(r, k)
      PROVE  /\ k \in Nat /\ Msg(readPtr[r]) + k <= Msg(rSeen[r])
             /\ readPtr'[r] = IF QuantumCount < Msg(rSeen[r]) - Msg(readPtr[r])
                              THEN rSeen[r] ELSE SizeofT * (Msg(readPtr[r]) + k)
  BY <1>5, CommitReadOutcome
<1>6. CASE ReaderNext(r)
  BY <1>3, <1>4, <1>5, <1>6 DEF ReaderNext
<1> QED
  BY <1>1, <1>2, <1>6 DEF Next

-----------------------------------------------------------------------------
(* The theorems *)

LEMMA Initially == Init => IInv
<1> SUFFICES ASSUME Init PROVE IInv
  OBVIOUS
<1>1. Msg(0) = 0 /\ 0 = SizeofT * 0
  BY MessageCounter, RingAssumption DEF Msg
<1>2. WriterInv
  BY <1>1, QuantumFacts, UnsyncAssumption DEF Init, WriterInv, IsCounter, Opened, Null
<1>3. RingInv
  BY <1>1 DEF Init, RingInv
<1>4. \A r \in Readers : ReaderInv(r)
  BY <1>1 DEF Init, ReaderInv, IsCounter, Opened, Empty
<1> QED
  BY <1>2, <1>3, <1>4 DEF Init, IInv

LEMMA Step ==
  ASSUME NoCounterWrap, IInv, [Next]_vars
  PROVE  IInv'
<1>1. CASE WriterNext
  BY <1>1, BeginWriteInv, StoreBeginInv, StoreEndInv, CommitWriteInv, RestartInv DEF WriterNext
<1>2. ASSUME NEW r \in Readers, ReaderNext(r) PROVE IInv'
  BY <1>2, BeginReadInv, CopyFromInv, CommitReadInv, WritePtrReachesInv DEF ReaderNext
<1>3. CASE UNCHANGED vars
  <2>1. UNCHANGED <<ring, writePtr, wTx, wStored, wStoring, touched, readPtr, rSeen, rTx, rBuf>>
    BY <1>3 DEF vars, writerVars, readerVars
  <2> QED
    BY <2>1 DEF IInv, WriterInv, RingInv, ReaderInv, Wanted, IsCounter
<1> QED
  BY <1>1, <1>2, <1>3 DEF Next

LEMMA IInvAlways ==
  ASSUME NoCounterWrap
  PROVE  Spec => []IInv
<1>1. IInv /\ [Next]_vars => IInv'
  BY Step
<1> QED
  BY Initially, <1>1, PTL DEF Spec

\* Whoever reads or dies when: counters hold whole messages within 64 bits, and
\* transactions and what is copied of them stay inside the ring.
THEOREM UnsyncTypeCorrect ==
  ASSUME NoCounterWrap
  PROVE  Spec => []TypeOK
<1>1. ASSUME IInv PROVE TypeOK
  <2>1. \A r \in Readers : ReaderInv(r)
    BY <1>1 DEF IInv
  <2>2. writePtr \in 0 .. PtrModulus - 1 /\ IsAligned(writePtr)
    BY <1>1, CounterFacts, NumberFacts DEF IInv, WriterInv, IsCounter
  <2>3. ASSUME NEW r \in Readers
        PROVE  /\ {readPtr[r], rSeen[r]} \subseteq 0 .. PtrModulus - 1
               /\ IsAligned(readPtr[r]) /\ IsAligned(rSeen[r])
    <3>1. Msg(readPtr[r]) <= Msg(writePtr)
      BY <1>1, <2>1, NumberFacts DEF ReaderInv, IsCounter
    <3> QED
      BY <1>1, <2>1, <3>1, CounterFacts DEF IInv, ReaderInv
  <2> QED
    BY <1>1, <2>1, <2>2, <2>3, WriterTx, ReaderTx, NumberFacts
      DEF IInv, WriterInv, RingInv, ReaderInv, TypeOK
<1> QED
  BY IInvAlways, <1>1, PTL

\* However often the writer goes round while a reader copies: what the reader
\* gets is the message it asked for, or bytes of a later message of its slot
\* whose store has begun, never an older message.
THEOREM NothingOlderIsRead ==
  ASSUME NoCounterWrap
  PROVE  Spec => []NothingOlder
<1>1. IInv => NothingOlder
  BY DEF IInv, ReaderInv, Holds, NothingOlder
<1> QED
  BY IInvAlways, <1>1, PTL

\* A read counter never goes back and never passes the writer's: no message is
\* delivered twice, whatever an overrun makes the reader skip.
THEOREM ReadersOnlyAdvance ==
  ASSUME NoCounterWrap
  PROVE  Spec => ReaderOnlyAdvances
<1>1. ASSUME IInv, [Next]_vars, NEW r \in Readers
      PROVE  readPtr'[r] >= readPtr[r] /\ readPtr'[r] <= writePtr
  <2> DEFINE R == Msg(readPtr[r])
             S == Msg(rSeen[r])
             W == Msg(writePtr)
  <2>1. /\ R \in Nat /\ S \in Nat /\ R <= S /\ S <= W
        /\ readPtr[r] = SizeofT * R /\ rSeen[r] = SizeofT * S
    BY <1>1, ReaderCalls
  <2>2. W \in Nat /\ writePtr = SizeofT * W
    BY <1>1, NumberFacts
  <2>3. PICK p \in Nat : readPtr'[r] = SizeofT * p /\ R <= p /\ p <= S
    BY <1>1, <2>1, ReadPtrMoves
  <2>4. R <= p /\ p <= W
    BY <2>1, <2>2, <2>3
  <2> HIDE DEF R, S, W
  <2>5. SizeofT * R <= SizeofT * p /\ SizeofT * p <= SizeofT * W
        /\ SizeofT * R \in Nat /\ SizeofT * p \in Nat
    BY <2>1, <2>2, <2>3, <2>4, TimesOrder, MessageCounter, RingAssumption
  <2> QED
    BY <2>1, <2>2, <2>3, <2>5
<1>2. IInv /\ [Next]_vars =>
        [\A r \in Readers : readPtr'[r] >= readPtr[r] /\ readPtr'[r] <= writePtr]_vars
  BY <1>1
<1> QED
  BY IInvAlways, <1>2, PTL DEF Spec, ReaderOnlyAdvances

\* A read that succeeds when no store has begun beyond the write counter the
\* reader acts on gets the very messages it is for: commitRead's comparison of
\* the two counters catches every overwrite that is complete and visible.
THEOREM QuietReadsAreIntact ==
  ASSUME NoCounterWrap
  PROVE  Spec => QuietReadIsIntact
<1>1. ASSUME IInv, [Next]_vars, NEW r \in Readers, NEW k \in 1 .. QuantumCount,
             Succeeds(r, k), touched * SizeofT <= rSeen[r]
      PROVE  Intact(r)
  <2> DEFINE R == Msg(readPtr[r])
             S == Msg(rSeen[r])
  <2>1. /\ R \in Nat /\ S \in Nat /\ R <= S /\ touched \in Nat
        /\ readPtr[r] = SizeofT * R /\ rSeen[r] = SizeofT * S
        /\ k \in Nat /\ k > 0 /\ k <= QuantumCount /\ QuantumCount \in Nat
    BY <1>1, ReaderCalls, NumberFacts
  <2>2. readPtr'[r] = SizeofT * (R + k)
    BY <1>1, <2>1, TimesOrder, RingAssumption DEF Succeeds
  <2>3. touched <= S
    BY <1>1, <2>1, TimesOrder, RingAssumption
  <2>4. ~(QuantumCount < S - R)
    <3>1. R + k # R /\ R + k \in Nat
      BY <2>1
    <3>2. readPtr'[r] # readPtr[r]
      BY <2>1, <2>2, <3>1, MessageCounter
    <3>3. QuantumCount < S - R => readPtr'[r] # rSeen[r]
      <4>1. QuantumCount < S - R => R + k # S
        BY <2>1
      <4> QED
        BY <2>1, <2>2, <3>1, <4>1, MessageCounter
    <3> QED
      BY <1>1, <3>2, <3>3, ReadPtrMoves
  <2>5. touched <= R + QuantumCount
    BY <2>1, <2>3, <2>4
  <2>6. ASSUME NEW i \in DOMAIN rBuf[r] PROVE rBuf[r][i] = Wanted(r, i)
    <3>1. Holds(rBuf[r][i], R + i, touched) /\ i \in Nat
      BY <1>1, ReaderTx, NumberFacts DEF IInv, ReaderInv, Wanted
    <3> QED
      BY <2>1, <2>5, <3>1 DEF Holds, Wanted
  <2> QED
    BY <2>6 DEF Intact
<1>2. IInv /\ [Next]_vars =>
        [\A r \in Readers, k \in 1 .. QuantumCount :
           Succeeds(r, k) /\ touched * SizeofT <= rSeen[r] => Intact(r)]_vars
  BY <1>1
<1> QED
  BY IInvAlways, <1>2, PTL DEF Spec, QuietReadIsIntact

=============================================================================
