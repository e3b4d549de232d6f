-------------------------- MODULE AttachReset_proofs --------------------------
(***************************************************************************)
(* AttachReset, for every message size, ring size and counter width: TypeOK*)
(* is an invariant as long as no counter comes within a ring of its last   *)
(* value (FarFromWrap).  What has to be shown is that a commit that adds to*)
(* a counter another process has just reset still makes a counter of whole *)
(* messages, and one that has not run away.                                *)
(*                                                                         *)
(* The inductive invariant bounds what the open read transaction may still *)
(* add: readPtr and the transaction together stay below Far, because the   *)
(* transaction was within what had been written when it was opened, and a  *)
(* reset of readPtr meanwhile only lowers the sum.                         *)
(***************************************************************************)
EXTENDS AttachReset, RingBuffer_proofs

\* No counter is larger: the writer stops at the Horizon, and a reader that was
\* reset in the middle of a transaction is ahead by less than a ring.
Far == IF Horizon < QueueBytes THEN QueueBytes ELSE Horizon

FarFromWrap == Far + QueueBytes < PtrModulus

\* A counter of whole messages up to a limit.
Counters(limit) == {ptr \in 0 .. limit : IsAligned(ptr)}

IInv ==
  /\ synchronized \in BOOLEAN
  /\ {writePtr, seen["reader"], computed["writer"]} \subseteq Counters(Horizon)
  /\ {readPtr, seen["writer"], computed["reader"]} \subseteq Counters(Far)
  /\ DOMAIN seen = Sides /\ DOMAIN computed = Sides /\ DOMAIN tx = Sides
  /\ \A p \in Sides : TxLength(tx[p]) \in 0 .. QuantumCount
  /\ readPtr + SizeofT * TxLength(tx["reader"]) <= Far
  /\ at["reader"] = "storing" => TxLength(tx["reader"]) = 0
  /\ at \in [Sides -> {"idle", "storing", "attaching"}]
  /\ attached \in 0 .. MaxAttach

-----------------------------------------------------------------------------
(* Lemmas about counters and the calls *)

LEMMA SidesTwo == "writer" \in Sides /\ "reader" \in Sides /\ "writer" # "reader"
  BY DEF Sides

LEMMA Limits ==
  ASSUME FarFromWrap
  PROVE  /\ Horizon \in Nat /\ Far \in Nat /\ QueueBytes \in Nat /\ PtrModulus \in Nat
         /\ Horizon <= Far /\ QueueBytes <= Far /\ Far + QueueBytes < PtrModulus
         /\ Counters(Horizon) \subseteq Counters(Far)
         /\ 0 \in Counters(Horizon)
<1>1. IsAligned(0)
  BY MessageCounter, RingAssumption DEF IsAligned
<1> QED
  BY <1>1, RingAssumption, AttachAssumption DEF FarFromWrap, Far, Counters

\* A counter value is a number of messages, and adding messages keeps it one.
LEMMA WholeMessages ==
  ASSUME NEW ptr \in Nat, IsAligned(ptr), NEW k \in Nat
  PROVE  /\ \E m \in Nat : ptr = SizeofT * m
         /\ ptr + k * SizeofT \in Nat /\ IsAligned(ptr + k * SizeofT)
<1>1. PICK m \in Nat : ptr = SizeofT * m
  BY AlignedIsMessages
<1>2. ptr + k * SizeofT = SizeofT * (m + k) /\ m + k \in Nat
  BY <1>1, TimesOrder, RingAssumption
<1> QED
  BY <1>1, <1>2, MessageCounter

LEMMA WrapSmall ==
  ASSUME NEW x \in 0 .. PtrModulus - 1
  PROVE  Wrap(x) = x
  BY DivModUnique, RingAssumption DEF Wrap

\* Subtracting a counter that is ahead wraps to a number that is out of reach.
LEMMA WrapBehind ==
  ASSUME FarFromWrap, NEW w \in 0 .. Far, NEW r \in 0 .. Far, w < r
  PROVE  Overrun(w, r)
<1>1. PtrModulus + w - r \in 0 .. PtrModulus - 1 /\ PtrModulus + w - r > QueueBytes
  BY Limits
<1>2. w - r = PtrModulus * (-1) + (PtrModulus + w - r)
  BY <1>1, RingAssumption
<1>3. Wrap(w - r) = PtrModulus + w - r
  <2> DEFINE x == PtrModulus + w - r
  <2>1. /\ PtrModulus \in Nat \ {0} /\ x \in Int /\ w - r \in Int
        /\ 0 <= x /\ x < PtrModulus /\ w - r = PtrModulus * (-1) + x
    BY <1>1, <1>2, RingAssumption
  <2> HIDE DEF x
  <2>2. (w - r) % PtrModulus = x
    BY <2>1, DivModUnique
  <2> QED
    BY <2>2 DEF Wrap, x
<1> QED
  BY <1>1, <1>3 DEF Overrun

\* A transaction is for as many messages as were asked for, at most the ring.
LEMMA LengthAsAsked ==
  ASSUME NEW ptr \in Nat, IsAligned(ptr), NEW n \in 0 .. QuantumCount
  PROVE  TxLength(MemTransaction(ptr, n)) = n
<1>1. PICK m \in Nat : ptr = SizeofT * m
  BY WholeMessages
<1> QED
  BY <1>1, TransactionSlots

LEMMA BeginWriteFits ==
  ASSUME NEW w \in Counters(Horizon), NEW r, NEW n \in Nat, NEW before, NEW sync \in BOOLEAN,
         FarFromWrap, TxLength(before) \in 0 .. QuantumCount
  PROVE  TxLength(BeginWriteTx(sync, w, r, n, before)) \in 0 .. QuantumCount
<1>1. w \in Nat /\ IsAligned(w)
  BY Limits DEF Counters
<1> QED
  BY <1>1, NullTxLength, LengthAsAsked, QuantumFacts DEF BeginWriteTx

\* What beginRead opens ends within what had been written, and a beginRead that
\* moves the read counter opens nothing.
LEMMA BeginReadFits ==
  ASSUME NEW w \in Counters(Far), NEW r \in Counters(Far), NEW n \in Nat,
         FarFromWrap, n * SizeofT < PtrModulus
  PROVE  /\ TxLength(BeginReadTx(w, r, n)) \in 0 .. QuantumCount
         /\ r + SizeofT * TxLength(BeginReadTx(w, r, n)) <= Far
         /\ BeginReadPtr(w, r) \in {w, r}
         /\ BeginReadPtr(w, r) # r => TxLength(BeginReadTx(w, r, n)) = 0
<1>1. w \in 0 .. Far /\ r \in 0 .. Far /\ IsAligned(w) /\ IsAligned(r) /\ w \in Nat /\ r \in Nat
  BY Limits DEF Counters
<1>2. BeginReadPtr(w, r) \in {w, r}
  BY DEF BeginReadPtr
<1>3. CASE CanBeginRead(w, r, n)
  <2>1. ~(w < r)
    BY <1>1, <1>3, WrapBehind DEF CanBeginRead
  <2>2. w - r \in 0 .. PtrModulus - 1 /\ SizeofT * n \in 0 .. PtrModulus - 1
        /\ n * SizeofT = SizeofT * n
    BY <1>1, <2>1, Limits, TimesOrder, RingAssumption, MessageCounter
  <2>3. Wrap(w - r) = w - r /\ Wrap(n * SizeofT) = SizeofT * n
    BY <2>2, WrapSmall
  <2>4. SizeofT * n <= w - r /\ w - r <= QueueBytes
    BY <1>1, <1>3, <2>3, Limits DEF CanBeginRead, Overrun
  <2>5. SizeofT * n <= SizeofT * QuantumCount
    BY <2>2, <2>4, <1>1, QuantumFacts, RingAssumption
  <2>6. n \in 0 .. QuantumCount
    BY <2>5, TimesOrder, QuantumFacts, RingAssumption
  <2>7. TxLength(BeginReadTx(w, r, n)) = n
    BY <1>1, <1>3, <2>6, LengthAsAsked DEF BeginReadTx
  <2>8. BeginReadPtr(w, r) = r
    BY <1>3 DEF CanBeginRead, BeginReadPtr
  <2> QED
    BY <1>1, <2>2, <2>4, <2>6, <2>7, <2>8, Limits
<1>4. CASE ~CanBeginRead(w, r, n)
  <2>1. TxLength(BeginReadTx(w, r, n)) = 0
    BY <1>4, NullTxLength DEF BeginReadTx
  <2> QED
    BY <1>1, <1>2, <2>1, QuantumFacts, RingAssumption
<1> QED
  BY <1>3, <1>4

LEMMA CommitReadFits ==
  ASSUME NEW w \in Counters(Horizon), NEW r \in Counters(Far), NEW k \in Nat,
         FarFromWrap, r + SizeofT * k <= Far
  PROVE  CommitReadPtr(w, r, k) \in Counters(Far)
<1>1. r \in Nat /\ IsAligned(r) /\ k * SizeofT = SizeofT * k
  BY Limits, TimesOrder, RingAssumption DEF Counters
<1>2. r + k * SizeofT \in Counters(Far)
  BY <1>1, WholeMessages, Limits DEF Counters
<1>3. Wrap(r + k * SizeofT) = r + k * SizeofT
  BY <1>2, WrapSmall, Limits, RingAssumption DEF Counters
<1> QED
  BY <1>2, <1>3, Limits DEF CommitReadPtr

LEMMA CommitWriteFits ==
  ASSUME NEW w \in Counters(Horizon), NEW k \in Nat, FarFromWrap, w + k * SizeofT <= Horizon
  PROVE  CommitWritePtr(w, k) \in Counters(Horizon)
<1>1. w \in Nat /\ IsAligned(w)
  BY Limits DEF Counters
<1>2. w + k * SizeofT \in Counters(Horizon)
  BY <1>1, WholeMessages, Limits DEF Counters
<1>3. Wrap(w + k * SizeofT) = w + k * SizeofT
  BY <1>2, WrapSmall, Limits DEF Counters
<1> QED
  BY <1>2, <1>3 DEF CommitWritePtr

-----------------------------------------------------------------------------
(* The invariant, action by action *)

LEMMA Initially ==
  ASSUME FarFromWrap, Init
  PROVE  IInv
<1>1. Sides = {"writer", "reader"} /\ 0 \in Counters(Horizon) /\ 0 \in Counters(Far)
  BY Limits DEF Sides
<1> QED
  BY <1>1, NullTxLength, Limits, QuantumFacts, RingAssumption, AttachAssumption DEF Init, IInv

LEMMA WriterStep ==
  ASSUME FarFromWrap, IInv, NEW n \in Requests, BeginWrite(n) \/ CommitWrite(n)
  PROVE  IInv'
<1>1. n \in Nat
  BY AttachAssumption DEF Requests
<1>2. CASE BeginWrite(n)
  <2>1. TxLength(tx'["writer"]) \in 0 .. QuantumCount /\ tx'["reader"] = tx["reader"]
    BY <1>1, <1>2, SidesTwo, BeginWriteFits DEF BeginWrite, IInv
  <2> QED
    BY <1>2, <2>1 DEF BeginWrite, IInv, Sides
<1>3. CASE CommitWrite(n)
  <2>1. CommitWritePtr(writePtr, n) \in Counters(Horizon)
    BY <1>1, <1>3, CommitWriteFits DEF CommitWrite, IInv
  <2>2. TxLength(tx'["writer"]) = 0 /\ tx'["reader"] = tx["reader"]
    BY <1>3, SidesTwo, NullTxLength DEF CommitWrite, IInv
  <2>3. computed'["writer"] \in Counters(Horizon) /\ computed'["reader"] = computed["reader"]
    BY <1>3, <2>1, SidesTwo DEF CommitWrite, WillStore, IInv
  <2>4. at'["reader"] = at["reader"]
    BY <1>3, SidesTwo DEF CommitWrite, WillStore, IInv
  <2> QED
    BY <1>3, <2>2, <2>3, <2>4, QuantumFacts DEF CommitWrite, WillStore, IInv, Sides
<1> QED
  BY <1>2, <1>3

LEMMA StoreWritePtrStep ==
  ASSUME FarFromWrap, IInv, StoreWritePtr
  PROVE  IInv'
<1>1. at'["reader"] = at["reader"] /\ computed'["reader"] = computed["reader"]
      /\ computed'["writer"] = 0
  BY SidesTwo DEF StoreWritePtr, Stored, IInv
<1> QED
  BY <1>1, Limits DEF StoreWritePtr, Stored, IInv, Sides

LEMMA BeginReadStep ==
  ASSUME FarFromWrap, IInv, NEW n \in Requests, BeginRead(n)
  PROVE  IInv'
<1> DEFINE w == seen["reader"]
<1>1. n \in Nat /\ n * SizeofT < PtrModulus
  BY AttachAssumption, RingAssumption, TimesOrder DEF Requests
<1>2. w \in Counters(Far) /\ w \in Counters(Horizon) /\ readPtr \in Counters(Far)
  BY Limits DEF IInv
<1>3. /\ TxLength(BeginReadTx(w, readPtr, n)) \in 0 .. QuantumCount
      /\ readPtr + SizeofT * TxLength(BeginReadTx(w, readPtr, n)) <= Far
      /\ BeginReadPtr(w, readPtr) \in {w, readPtr}
      /\ BeginReadPtr(w, readPtr) # readPtr => TxLength(BeginReadTx(w, readPtr, n)) = 0
  BY <1>1, <1>2, BeginReadFits
<1>4. tx'["reader"] = BeginReadTx(w, readPtr, n) /\ tx'["writer"] = tx["writer"]
  BY SidesTwo DEF BeginRead, IInv
<1>5. CASE BeginReadPtr(w, readPtr) = readPtr
  BY <1>3, <1>4, <1>5 DEF BeginRead, IInv, Sides
<1>6. CASE BeginReadPtr(w, readPtr) # readPtr
  <2>1. computed'["reader"] \in Counters(Far) /\ computed'["writer"] = computed["writer"]
    BY <1>2, <1>3, <1>6, SidesTwo DEF BeginRead, WillStore, IInv
  <2> QED
    BY <1>3, <1>4, <1>6, <2>1 DEF BeginRead, WillStore, IInv, Sides
<1> QED
  BY <1>5, <1>6

LEMMA CommitReadStep ==
  ASSUME FarFromWrap, IInv, NEW k \in Requests, CommitRead(k)
  PROVE  IInv'
<1> DEFINE len == TxLength(tx["reader"])
<1>1. k \in Nat /\ len \in 0 .. QuantumCount /\ k <= len /\ readPtr \in Nat
  BY AttachAssumption, Limits, SidesTwo DEF Requests, CommitRead, IInv, Counters
<1>2. readPtr + SizeofT * k <= Far
  <2>1. SizeofT * k <= SizeofT * len /\ SizeofT * k \in Int /\ SizeofT * len \in Int
    BY <1>1, TimesOrder, RingAssumption
  <2> QED
    BY <1>1, <2>1, Limits DEF IInv
<1>3. CommitReadPtr(seen["reader"], readPtr, k) \in Counters(Far)
  BY <1>1, <1>2, CommitReadFits DEF IInv
<1>4. TxLength(tx'["reader"]) = 0 /\ tx'["writer"] = tx["writer"]
  BY SidesTwo, NullTxLength DEF CommitRead, IInv
<1>5. computed'["reader"] \in Counters(Far) /\ computed'["writer"] = computed["writer"]
  BY <1>3, SidesTwo DEF CommitRead, WillStore, IInv
<1>6. readPtr + SizeofT * TxLength(tx'["reader"]) <= Far
  BY <1>1, <1>4, Limits, RingAssumption DEF IInv, Counters
<1> QED
  BY <1>4, <1>5, <1>6, QuantumFacts DEF CommitRead, WillStore, IInv, Sides

LEMMA StoreReadPtrStep ==
  ASSUME FarFromWrap, IInv, StoreReadPtr
  PROVE  IInv'
<1>1. TxLength(tx["reader"]) = 0 /\ readPtr' \in Counters(Far)
  BY DEF StoreReadPtr, Stored, IInv
<1>2. readPtr' + SizeofT * TxLength(tx["reader"]) <= Far
  BY <1>1, Limits, RingAssumption DEF Counters
<1>3. computed'["reader"] = 0 /\ computed'["writer"] = computed["writer"]
  BY SidesTwo DEF StoreReadPtr, Stored, IInv
<1> QED
  BY <1>1, <1>2, <1>3, Limits DEF StoreReadPtr, Stored, IInv, Sides

LEMMA AttachStep ==
  ASSUME FarFromWrap, IInv, NEW p \in Sides, AttachStoresReadPtr(p) \/ AttachStoresWritePtr(p)
  PROVE  IInv'
<1>1. 0 \in Counters(Horizon) /\ 0 \in Counters(Far)
  BY Limits
<1>2. CASE AttachStoresReadPtr(p)
  <2>1. \A q \in Sides : TxLength(tx'[q]) = TxLength(tx[q]) \/ TxLength(tx'[q]) = 0
    BY <1>2, NullTxLength DEF AttachStoresReadPtr, IInv
  <2>2. \A q \in Sides : TxLength(tx'[q]) \in 0 .. QuantumCount
    BY <2>1, QuantumFacts DEF IInv
  <2>3. SizeofT * TxLength(tx'["reader"]) <= Far
    <3>1. TxLength(tx'["reader"]) \in Int /\ TxLength(tx'["reader"]) <= QuantumCount
      BY <2>2, SidesTwo, QuantumFacts
    <3>2. SizeofT * TxLength(tx'["reader"]) <= SizeofT * QuantumCount
          /\ SizeofT * TxLength(tx'["reader"]) \in Int
      BY <3>1, TimesOrder, QuantumFacts, RingAssumption
    <3> QED
      BY <3>2, QuantumFacts, Limits
  <2>4. \A q \in Sides : computed'[q] = computed[q] \/ computed'[q] = 0
    BY <1>2 DEF AttachStoresReadPtr, IInv
  <2>5. \A q \in Sides : seen'[q] = seen[q] \/ seen'[q] = 0
    BY <1>2 DEF AttachStoresReadPtr, IInv
  <2>6. at'["reader"] = "storing" => TxLength(tx'["reader"]) = 0
    BY <1>2, <2>1, SidesTwo DEF AttachStoresReadPtr, IInv
  <2>7. attached' \in 0 .. MaxAttach
    BY <1>2, AttachAssumption DEF AttachStoresReadPtr, IInv
  <2>8. DOMAIN seen' = Sides /\ DOMAIN computed' = Sides /\ DOMAIN tx' = Sides
        /\ at' \in [Sides -> {"idle", "storing", "attaching"}]
    BY <1>2 DEF AttachStoresReadPtr, IInv
  <2>9. synchronized' = synchronized /\ writePtr' = writePtr
        /\ (readPtr' = 0 \/ (readPtr' = readPtr /\ tx'["reader"] = tx["reader"]))
    BY <1>2, SidesTwo DEF AttachStoresReadPtr, IInv
  <2>10. readPtr' \in Counters(Far) /\ readPtr' + SizeofT * TxLength(tx'["reader"]) <= Far
    <3>1. SizeofT * TxLength(tx'["reader"]) \in Int
      BY <2>2, SidesTwo, RingAssumption, QuantumFacts, TimesOrder
    <3>2. CASE readPtr' = 0
      BY <1>1, <2>3, <3>1, <3>2
    <3>3. CASE readPtr' = readPtr /\ tx'["reader"] = tx["reader"]
      BY <3>3 DEF IInv
    <3> QED
      BY <2>9, <3>2, <3>3
  <2> QED
    BY <1>1, <2>2, <2>4, <2>5, <2>6, <2>7, <2>8, <2>9, <2>10, SidesTwo DEF IInv
<1>3. CASE AttachStoresWritePtr(p)
  <2>1. \A q \in Sides : seen'[q] = seen[q] \/ seen'[q] = 0
    BY <1>3 DEF AttachStoresWritePtr, IInv
  <2>2. at'["reader"] = "storing" => at["reader"] = "storing"
    BY <1>3, SidesTwo DEF AttachStoresWritePtr, IInv
  <2> QED
    BY <1>1, <1>3, <2>1, <2>2, SidesTwo DEF AttachStoresWritePtr, IInv
<1> QED
  BY <1>2, <1>3

LEMMA AnotherReaderStep ==
  ASSUME FarFromWrap, IInv, AnotherReaderAttaches
  PROVE  IInv'
<1>1. 0 \in Counters(Horizon)
  BY Limits
<1>2. attached' \in 0 .. MaxAttach
  BY AttachAssumption DEF AnotherReaderAttaches, IInv
<1> QED
  BY <1>1, <1>2 DEF AnotherReaderAttaches, IInv

LEMMA ReachesStep ==
  ASSUME FarFromWrap, IInv, NEW p \in Sides, Reaches(p)
  PROVE  IInv'
<1>1. seen'["reader"] \in {seen["reader"], writePtr} /\ seen'["writer"] \in {seen["writer"], readPtr}
  BY SidesTwo DEF Reaches, IInv
<1> QED
  BY <1>1 DEF Reaches, IInv

LEMMA Step ==
  ASSUME FarFromWrap, IInv, [Next]_vars
  PROVE  IInv'
<1>1. ASSUME NEW n \in Requests, BeginWrite(n) \/ CommitWrite(n) \/ BeginRead(n) \/ CommitRead(n)
      PROVE  IInv'
  BY <1>1, WriterStep, BeginReadStep, CommitReadStep
<1>2. CASE UNCHANGED vars
  BY <1>2 DEF vars, IInv
<1> QED
  BY <1>1, <1>2, StoreWritePtrStep, StoreReadPtrStep, AttachStep, AnotherReaderStep, ReachesStep
    DEF Next

LEMMA IInvIsTyped ==
  ASSUME FarFromWrap, IInv
  PROVE  TypeOK
<1>1. \A ptr \in Counters(Far) : ptr \in {c \in 0 .. PtrModulus - 1 : IsAligned(c)}
  BY Limits DEF Counters
<1>2. \A p \in Sides : seen[p] \in Counters(Far) /\ computed[p] \in Counters(Far)
  BY Limits DEF IInv, Sides
<1>3. writePtr \in Counters(Far) /\ readPtr \in Counters(Far)
  BY Limits DEF IInv
<1> QED
  BY <1>1, <1>2, <1>3 DEF TypeOK, IInv

\* Whoever attaches with a reset, and between whichever steps of the other side:
\* the counters stay numbers of whole messages that have not run away, and no
\* transaction is for more than the ring holds.
THEOREM AttachTypeCorrect ==
  ASSUME FarFromWrap
  PROVE  Spec => []TypeOK
<1>1. Init => IInv
  BY Initially
<1>2. IInv /\ [Next]_vars => IInv'
  BY Step
<1>3. IInv => TypeOK
  BY IInvIsTyped
<1> QED
  BY <1>1, <1>2, <1>3, PTL DEF Spec

=============================================================================
