-------------------------- MODULE RingBuffer_proofs --------------------------
(***************************************************************************)
(* Facts about the arithmetic of RingBuffer, for every message size, ring  *)
(* size and counter width.  They restate it in message numbers: message m  *)
(* of the stream starts at counter value SizeofT * m and lives in slot     *)
(* m % QuantumCount.                                                       *)
(***************************************************************************)
EXTENDS RingBuffer, TLAPS

(***************************************************************************)
(* Multiplication, division and remainder.                                 *)
(***************************************************************************)

\* Multiplication by a positive number preserves and reflects order.
LEMMA TimesOrder ==
  ASSUME NEW s \in Nat \ {0}, NEW a \in Int, NEW b \in Int
  PROVE  /\ a <= b <=> s * a <= s * b
         /\ a < b <=> s * a < s * b
         /\ s * (a + b) = s * a + s * b
         /\ s * (a - b) = s * a - s * b
         /\ a * s = s * a
         /\ s * a \in Int
BY Z3

\* Quotient and remainder are the only pair that recombines to the dividend.
LEMMA DivModUnique ==
  ASSUME NEW a \in Int, NEW s \in Nat \ {0}, NEW q \in Int, NEW r \in Int,
         a = s * q + r, 0 <= r, r < s
  PROVE  a % s = r /\ a \div s = q
BY Z3

LEMMA DivModExists ==
  ASSUME NEW a \in Nat, NEW s \in Nat \ {0}
  PROVE  /\ a % s \in 0 .. s - 1
         /\ a \div s \in Nat
         /\ a = s * (a \div s) + (a % s)
BY Z3

\* Adding at most one divisor moves the remainder around the circle once.
LEMMA ModAdd ==
  ASSUME NEW a \in Nat, NEW s \in Nat \ {0}, NEW k \in 0 .. s
  PROVE  (a + k) % s = IF (a % s) + k < s THEN (a % s) + k ELSE (a % s) + k - s
<1> DEFINE q == a \div s
           r == a % s
<1>1. r \in 0 .. s - 1 /\ q \in Nat /\ a = s * q + r
  BY DivModExists
<1> HIDE DEF q, r
<1>2. CASE r + k < s
  <2>1. a + k = s * q + (r + k)  BY <1>1
  <2>2. (a + k) % s = r + k  BY <1>1, <1>2, <2>1, DivModUnique
  <2> QED  BY <1>2, <2>2 DEF r
<1>3. CASE ~(r + k < s)
  <2>1. s * (q + 1) = s * q + s  BY <1>1, TimesOrder
  <2>2. a + k = s * (q + 1) + (r + k - s)  BY <1>1, <2>1
  <2>3. a + k \in Int /\ q + 1 \in Int /\ r + k - s \in 0 .. s - 1  BY <1>1, <1>3
  <2>4. (a + k) % s = r + k - s  BY <2>2, <2>3, DivModUnique
  <2> QED  BY <1>3, <2>4 DEF r
<1> QED  BY <1>2, <1>3

\* Two numbers less than one divisor apart differ in their remainders.
LEMMA ModInjective ==
  ASSUME NEW s \in Nat \ {0}, NEW a \in Nat, NEW b \in Nat,
         a < b + s, b < a + s, a % s = b % s
  PROVE  a = b
<1>1. ASSUME NEW c \in Nat, NEW d \in Nat, c <= d, d < c + s, c % s = d % s
      PROVE  c = d
  <2>1. PICK k \in 0 .. s : d = c + k /\ k < s  BY <1>1, Z3
  <2>2. c % s \in 0 .. s - 1  BY DivModExists
  <2>3. (c % s) = IF (c % s) + k < s THEN (c % s) + k ELSE (c % s) + k - s
    BY <1>1, <2>1, ModAdd
  <2> QED  BY <2>1, <2>2, <2>3
<1>2. CASE a <= b  BY <1>1, <1>2
<1>3. CASE b <= a  BY <1>1, <1>3
<1> QED  BY <1>2, <1>3

-----------------------------------------------------------------------------
(***************************************************************************)
(* Counters.                                                               *)
(***************************************************************************)

\* The ring holds a whole number of messages.
LEMMA QuantumFacts ==
  QuantumCount \in Nat \ {0} /\ QueueBytes = SizeofT * QuantumCount
<1>1. QueueBytes = SizeofT * (QueueBytes \div SizeofT) + (QueueBytes % SizeofT)
      /\ QueueBytes \div SizeofT \in Nat
  BY DivModExists, RingAssumption
<1>2. QueueBytes = SizeofT * QuantumCount /\ QuantumCount \in Nat
  BY <1>1, RingAssumption DEF QuantumCount
<1>3. QuantumCount # 0  BY <1>2, RingAssumption
<1> QED  BY <1>2, <1>3

\* A counter value that is a number of messages is aligned and not wrapped.
LEMMA MessageCounter ==
  ASSUME NEW m \in Nat
  PROVE  /\ SizeofT * m \in Nat
         /\ IsAligned(SizeofT * m)
         /\ (SizeofT * m) \div SizeofT = m
         /\ SizeofT * m < PtrModulus => Wrap(SizeofT * m) = SizeofT * m
<1>1. SizeofT * m \in Nat  BY RingAssumption, Z3
<1>2. SizeofT * m = SizeofT * m + 0  BY <1>1
<1>3. (SizeofT * m) % SizeofT = 0 /\ (SizeofT * m) \div SizeofT = m
  BY <1>1, <1>2, DivModUnique, RingAssumption
<1>4. ASSUME SizeofT * m < PtrModulus  PROVE Wrap(SizeofT * m) = SizeofT * m
  BY <1>1, <1>4, RingAssumption DEF Wrap
<1> QED  BY <1>1, <1>3, <1>4 DEF IsAligned

\* What the availability functions and the overflow test say of counters at
\* most one ring apart.
LEMMA Availability ==
  ASSUME NEW w \in Nat, NEW r \in Nat, r <= w, w <= r + QuantumCount,
         SizeofT * w < PtrModulus
  PROVE  /\ AvailableToRead(SizeofT * w, SizeofT * r) = w - r
         /\ AvailableToWrite(SizeofT * w, SizeofT * r) = QuantumCount - (w - r)
         /\ Wrap(SizeofT * w - SizeofT * r) = SizeofT * (w - r)
         /\ ~Overrun(SizeofT * w, SizeofT * r)
<1> DEFINE d == w - r
<1>1. d \in 0 .. QuantumCount /\ QuantumCount - d \in Nat  BY QuantumFacts
<1>2. /\ SizeofT * w - SizeofT * r = SizeofT * d
      /\ SizeofT * QuantumCount - SizeofT * d = SizeofT * (QuantumCount - d)
      /\ SizeofT * r <= SizeofT * w
      /\ SizeofT * d <= SizeofT * QuantumCount
      /\ SizeofT * d <= SizeofT * w
  BY <1>1, TimesOrder, QuantumFacts, RingAssumption
<1>3. SizeofT * w \in Nat /\ SizeofT * r \in Nat /\ SizeofT * d \in Nat
  BY <1>1, MessageCounter
<1>4. AvailableToReadBytes(SizeofT * w, SizeofT * r) = SizeofT * d
  BY <1>2, <1>3 DEF AvailableToReadBytes
<1>5. AvailableToWriteBytes(SizeofT * w, SizeofT * r) = SizeofT * (QuantumCount - d)
  BY <1>2, <1>3, <1>4, QuantumFacts, RingAssumption DEF AvailableToWriteBytes
<1>6. Wrap(SizeofT * w - SizeofT * r) = SizeofT * d
  BY <1>1, <1>2, <1>3, MessageCounter, RingAssumption
<1>7. ~Overrun(SizeofT * w, SizeofT * r)
  BY <1>2, <1>3, <1>6, QuantumFacts, RingAssumption DEF Overrun
<1> QED
  BY <1>1, <1>4, <1>5, <1>6, <1>7, MessageCounter DEF AvailableToRead, AvailableToWrite

-----------------------------------------------------------------------------
(***************************************************************************)
(* Memory regions.                                                         *)
(***************************************************************************)

\* The place of message m in the ring.
LEMMA RingOffset ==
  ASSUME NEW m \in Nat
  PROVE  /\ (SizeofT * m) % QueueBytes = SizeofT * (m % QuantumCount)
         /\ m % QuantumCount \in 0 .. QuantumCount - 1
<1> DEFINE q == m \div QuantumCount
           r == m % QuantumCount
<1>1. r \in 0 .. QuantumCount - 1 /\ q \in Nat /\ m = QuantumCount * q + r
  BY DivModExists, QuantumFacts
<1> HIDE DEF q, r
<1>2. QuantumCount * q \in Nat  BY <1>1, QuantumFacts, Z3
<1>3. SizeofT * m = SizeofT * (QuantumCount * q) + SizeofT * r
  BY <1>1, <1>2, TimesOrder, RingAssumption
<1>4. SizeofT * (QuantumCount * q) = QueueBytes * q
  BY <1>1, QuantumFacts, RingAssumption, Z3
<1>5. 0 <= SizeofT * r /\ SizeofT * r < QueueBytes
  BY <1>1, TimesOrder, MessageCounter, QuantumFacts, RingAssumption
<1>6. SizeofT * m \in Int /\ SizeofT * r \in Int  BY <1>1, MessageCounter
<1>7. (SizeofT * m) % QueueBytes = SizeofT * r
  BY <1>1, <1>3, <1>4, <1>5, <1>6, DivModUnique, RingAssumption
<1> QED  BY <1>1, <1>7 DEF r

\* A transaction for n messages from message m on, in slots.
LEMMA RegionsInSlots ==
  ASSUME NEW m \in Nat, NEW n \in Nat
  PROVE  MemTransaction(SizeofT * m, n) =
           IF QuantumCount - (m % QuantumCount) < n
             THEN [first  |-> MemRegion(m % QuantumCount, QuantumCount - (m % QuantumCount)),
                   second |-> MemRegion(0, n - (QuantumCount - (m % QuantumCount)))]
             ELSE [first  |-> MemRegion(m % QuantumCount, n),
                   second |-> MemRegion(Null, 0)]
<1> DEFINE o == m % QuantumCount
<1>1. o \in 0 .. QuantumCount - 1 /\ (SizeofT * m) % QueueBytes = SizeofT * o
  BY RingOffset
<1> HIDE DEF o
<1>2. QueueBytes - SizeofT * o = SizeofT * (QuantumCount - o)
  BY <1>1, TimesOrder, QuantumFacts, RingAssumption
<1>3. (SizeofT * (QuantumCount - o)) \div SizeofT = QuantumCount - o
  BY <1>1, MessageCounter, QuantumFacts
<1>4. (SizeofT * o) \div SizeofT = o
  BY <1>1, MessageCounter, QuantumFacts
<1>5. MemTransaction(SizeofT * m, n) =
        IF QuantumCount - o < n
          THEN [first  |-> MemRegion(o, QuantumCount - o),
                second |-> MemRegion(0, n - (QuantumCount - o))]
          ELSE [first  |-> MemRegion(o, n), second |-> MemRegion(Null, 0)]
  BY <1>1, <1>2, <1>3, <1>4 DEF MemTransaction
<1> QED  BY <1>5 DEF o

\* A transaction for n messages describes the slots of those n messages, and
\* getSlot finds them.
LEMMA TransactionSlots ==
  ASSUME NEW m \in Nat, NEW n \in 0 .. QuantumCount
  PROVE  /\ TxLength(MemTransaction(SizeofT * m, n)) = n
         /\ \A i \in 0 .. n - 1 :
              GetSlot(MemTransaction(SizeofT * m, n), i) = (m + i) % QuantumCount
<1> DEFINE o  == m % QuantumCount
           tx == MemTransaction(SizeofT * m, n)
<1>1. o \in 0 .. QuantumCount - 1 /\ QuantumCount \in Nat \ {0} /\ n \in Nat
  BY RingOffset, QuantumFacts
<1>2. tx = IF QuantumCount - o < n
             THEN [first  |-> MemRegion(o, QuantumCount - o),
                   second |-> MemRegion(0, n - (QuantumCount - o))]
             ELSE [first  |-> MemRegion(o, n), second |-> MemRegion(Null, 0)]
  BY <1>1, RegionsInSlots
<1>3. ASSUME NEW i \in 0 .. n - 1
      PROVE  (m + i) % QuantumCount =
               IF o + i < QuantumCount THEN o + i ELSE o + i - QuantumCount
  <2>1. i \in 0 .. QuantumCount  BY <1>1
  <2> QED  BY <2>1, <1>1, ModAdd
<1> HIDE DEF o, tx
<1>4. TxLength(tx) = n  BY <1>1, <1>2 DEF TxLength, MemRegion
<1>5. ASSUME NEW i \in 0 .. n - 1  PROVE GetSlot(tx, i) = (m + i) % QuantumCount
  <2>1. CASE QuantumCount - o < n
    BY <2>1, <1>1, <1>2, <1>3, <1>4 DEF GetSlot, MemRegion
  <2>2. CASE ~(QuantumCount - o < n)
    BY <2>2, <1>1, <1>2, <1>3, <1>4 DEF GetSlot, MemRegion
  <2> QED  BY <2>1, <2>2
<1> QED  BY <1>4, <1>5 DEF tx

\* copyTo and copyFrom use the slots getSlot finds.
LEMMA CopySlots ==
  ASSUME NEW m \in Nat, NEW n \in 0 .. QuantumCount,
         NEW startIdx \in Nat, NEW k \in Nat, startIdx + k <= n,
         NEW i \in 0 .. k - 1
  PROVE  CopySlot(MemTransaction(SizeofT * m, n), startIdx, k, i)
           = (m + startIdx + i) % QuantumCount
<1> DEFINE o  == m % QuantumCount
           tx == MemTransaction(SizeofT * m, n)
<1>1. o \in 0 .. QuantumCount - 1 /\ QuantumCount \in Nat \ {0} /\ n \in Nat
  BY RingOffset, QuantumFacts
<1>2. tx = IF QuantumCount - o < n
             THEN [first  |-> MemRegion(o, QuantumCount - o),
                   second |-> MemRegion(0, n - (QuantumCount - o))]
             ELSE [first  |-> MemRegion(o, n), second |-> MemRegion(Null, 0)]
  BY <1>1, RegionsInSlots
<1>3. (m + (startIdx + i)) % QuantumCount =
        IF o + (startIdx + i) < QuantumCount
          THEN o + (startIdx + i) ELSE o + (startIdx + i) - QuantumCount
  <2>1. startIdx + i \in 0 .. QuantumCount  BY <1>1
  <2> QED  BY <2>1, <1>1, ModAdd
<1>4. m + (startIdx + i) = m + startIdx + i  OBVIOUS
<1> HIDE DEF o, tx
<1>5. ASSUME QuantumCount - o < n
      PROVE  CopySlot(tx, startIdx, k, i) = (m + startIdx + i) % QuantumCount
  <2>1. tx.first = MemRegion(o, QuantumCount - o)
        /\ tx.second = MemRegion(0, n - (QuantumCount - o))
    BY <1>2, <1>5
  <2>2. CopySlot(tx, startIdx, k, i) =
          IF o + (startIdx + i) < QuantumCount
            THEN o + (startIdx + i) ELSE o + (startIdx + i) - QuantumCount
    BY <2>1, <1>1, <1>5 DEF CopySlot, MemRegion
  <2> QED  BY <2>2, <1>3, <1>4
<1>6. ASSUME ~(QuantumCount - o < n)
      PROVE  CopySlot(tx, startIdx, k, i) = (m + startIdx + i) % QuantumCount
  <2>1. tx.first = MemRegion(o, n)  BY <1>2, <1>6
  <2>2. CopySlot(tx, startIdx, k, i) = o + (startIdx + i)
    BY <2>1, <1>1, <1>6 DEF CopySlot, MemRegion
  <2> QED  BY <2>2, <1>1, <1>3, <1>4, <1>6
<1> QED  BY <1>5, <1>6 DEF tx

\* The types of a transaction's fields.
LEMMA TransactionType ==
  ASSUME NEW m \in Nat, NEW n \in 0 .. QuantumCount
  PROVE  MemTransaction(SizeofT * m, n) \in
           LET regions == [address : (0 .. QuantumCount - 1) \cup {Null},
                           length  : 0 .. QuantumCount]
           IN  [first : regions, second : regions]
<1> DEFINE o  == m % QuantumCount
           tx == MemTransaction(SizeofT * m, n)
           regions == [address : (0 .. QuantumCount - 1) \cup {Null},
                       length  : 0 .. QuantumCount]
<1>1. o \in 0 .. QuantumCount - 1 /\ QuantumCount \in Nat \ {0} /\ n \in Nat
  BY RingOffset, QuantumFacts
<1>2. tx = IF QuantumCount - o < n
             THEN [first  |-> MemRegion(o, QuantumCount - o),
                   second |-> MemRegion(0, n - (QuantumCount - o))]
             ELSE [first  |-> MemRegion(o, n), second |-> MemRegion(Null, 0)]
  BY <1>1, RegionsInSlots
<1> HIDE DEF o, tx
<1>3. \A a \in (0 .. QuantumCount - 1) \cup {Null}, l \in 0 .. QuantumCount :
        MemRegion(a, l) \in regions
  BY DEF MemRegion
<1>4. \A f, g \in regions : [first |-> f, second |-> g] \in [first : regions, second : regions]
  OBVIOUS
<1> HIDE DEF regions
<1>5. CASE QuantumCount - o < n
  <2>1. MemRegion(o, QuantumCount - o) \in regions  BY <1>1, <1>3, <1>5
  <2>2. MemRegion(0, n - (QuantumCount - o)) \in regions  BY <1>1, <1>3, <1>5
  <2> QED  BY <2>1, <2>2, <1>2, <1>4, <1>5 DEF tx, regions
<1>6. CASE ~(QuantumCount - o < n)
  <2>1. MemRegion(o, n) \in regions  BY <1>1, <1>3
  <2>2. Null \in (0 .. QuantumCount - 1) \cup {Null} /\ 0 \in 0 .. QuantumCount  BY <1>1
  <2>3. MemRegion(Null, 0) \in regions  BY <2>2, <1>3
  <2> QED  BY <2>1, <2>3, <1>2, <1>4, <1>6 DEF tx, regions
<1> QED  BY <1>5, <1>6

\* The closed transaction holds nothing.
LEMMA NullTxLength == TxLength(NullTx) = 0
BY DEF TxLength, NullTx, MemRegion

-----------------------------------------------------------------------------
(***************************************************************************)
(* The calls, in message numbers.                                          *)
(***************************************************************************)

\* A counter value that passes the alignment test is a number of messages.
LEMMA AlignedIsMessages ==
  ASSUME NEW ptr \in Nat, IsAligned(ptr)
  PROVE  ptr \div SizeofT \in Nat /\ ptr = SizeofT * (ptr \div SizeofT)
<1>1. ptr \div SizeofT \in Nat /\ ptr = SizeofT * (ptr \div SizeofT) + (ptr % SizeofT)
  BY DivModExists, RingAssumption
<1>2. ptr % SizeofT = 0 /\ SizeofT * (ptr \div SizeofT) \in Nat
  BY <1>1, MessageCounter DEF IsAligned
<1> QED  BY <1>1, <1>2

\* A counter below one that does not wrap does not wrap.
LEMMA BelowWrap ==
  ASSUME NEW m \in Nat, NEW limit \in Nat, SizeofT * m <= limit, limit < PtrModulus
  PROVE  Wrap(SizeofT * m) = SizeofT * m
<1>1. SizeofT * m \in Nat  BY MessageCounter
<1> DEFINE x == SizeofT * m
<1>2. x < PtrModulus
  <2> HIDE DEF x
  <2>1. x \in Nat /\ x <= limit  BY <1>1 DEF x
  <2> QED  BY <2>1, RingAssumption
<1> QED  BY <1>2, MessageCounter

\* A reader that is behind the writer, by however much, is overrun when that is
\* more than the ring; otherwise it gets what it asks for if it is there.
LEMMA ReadCalls ==
  ASSUME NEW w \in Nat, NEW r \in Nat, r <= w, SizeofT * w < PtrModulus
  PROVE  /\ BeginReadPtr(SizeofT * w, SizeofT * r) =
              IF QuantumCount < w - r THEN SizeofT * w ELSE SizeofT * r
         /\ \A n \in Nat : SizeofT * n < PtrModulus =>
              BeginReadTx(SizeofT * w, SizeofT * r, n) =
                IF QuantumCount < w - r \/ w - r < n THEN NullTx
                ELSE MemTransaction(SizeofT * r, n)
         /\ \A k \in Nat : r + k <= w =>
              CommitReadPtr(SizeofT * w, SizeofT * r, k) =
                IF QuantumCount < w - r THEN SizeofT * w ELSE SizeofT * (r + k)
<1> DEFINE d == w - r
<1>1. d \in Nat /\ d <= w /\ QuantumCount \in Nat
  BY QuantumFacts
<1>2. SizeofT * w - SizeofT * r = SizeofT * d /\ SizeofT * d <= SizeofT * w
  BY <1>1, TimesOrder, RingAssumption
<1>3. SizeofT * d \in Nat /\ SizeofT * w \in Nat
  BY <1>1, MessageCounter
<1>4. Wrap(SizeofT * w - SizeofT * r) = SizeofT * d
  BY <1>1, <1>2, <1>3, BelowWrap
<1>5. Overrun(SizeofT * w, SizeofT * r) <=> QuantumCount < d
  <2>1. QuantumCount < d <=> SizeofT * QuantumCount < SizeofT * d
    BY <1>1, TimesOrder, RingAssumption
  <2> QED  BY <1>3, <1>4, <2>1, QuantumFacts, RingAssumption DEF Overrun
<1>6. IsAligned(SizeofT * w) /\ IsAligned(SizeofT * r)
  BY MessageCounter
<1> HIDE DEF d
<1>7. BeginReadPtr(SizeofT * w, SizeofT * r) =
        IF QuantumCount < d THEN SizeofT * w ELSE SizeofT * r
  BY <1>5, <1>6 DEF BeginReadPtr
<1>8. ASSUME NEW n \in Nat, SizeofT * n < PtrModulus
      PROVE  BeginReadTx(SizeofT * w, SizeofT * r, n) =
               IF QuantumCount < d \/ d < n THEN NullTx ELSE MemTransaction(SizeofT * r, n)
  <2>1. Wrap(n * SizeofT) = SizeofT * n /\ SizeofT * n \in Nat
    <3>1. n * SizeofT = SizeofT * n  BY TimesOrder, RingAssumption
    <3> QED  BY <1>8, <3>1, MessageCounter
  <2>2. SizeofT * d >= SizeofT * n <=> ~(d < n)
    <3>1. d < n <=> SizeofT * d < SizeofT * n
      BY <1>1, TimesOrder, RingAssumption
    <3> QED  BY <3>1, <2>1, <1>3
  <2>3. CanBeginRead(SizeofT * w, SizeofT * r, n) <=> ~(QuantumCount < d) /\ ~(d < n)
    BY <1>4, <1>5, <1>6, <2>1, <2>2 DEF CanBeginRead
  <2> QED  BY <2>3 DEF BeginReadTx
<1>9. ASSUME NEW k \in Nat, r + k <= w
      PROVE  CommitReadPtr(SizeofT * w, SizeofT * r, k) =
               IF QuantumCount < d THEN SizeofT * w ELSE SizeofT * (r + k)
  <2>1. SizeofT * r + k * SizeofT = SizeofT * (r + k)
    BY TimesOrder, RingAssumption
  <2>2. SizeofT * (r + k) <= SizeofT * w /\ SizeofT * (r + k) \in Nat /\ r + k \in Nat
    BY <1>9, TimesOrder, MessageCounter, RingAssumption
  <2>3. Wrap(SizeofT * (r + k)) = SizeofT * (r + k)
    BY <1>3, <2>2, BelowWrap
  <2> QED  BY <1>5, <2>1, <2>3 DEF CommitReadPtr
<1> QED  BY <1>7, <1>8, <1>9 DEF d

\* tx is closed, or is for messages from m on that all come before limit.
Opened(tx, m, limit) ==
  \/ tx = NullTx
  \/ \E n \in 0 .. QuantumCount : tx = MemTransaction(SizeofT * m, n) /\ m + n <= limit

RegionType == [address : (0 .. QuantumCount - 1) \cup {Null}, length : 0 .. QuantumCount]

\* How many messages such a transaction is for, and where they are.
LEMMA OpenedFacts ==
  ASSUME NEW m \in Nat, NEW limit \in Nat, m <= limit, NEW tx, Opened(tx, m, limit)
  PROVE  /\ TxLength(tx) \in 0 .. QuantumCount
         /\ m + TxLength(tx) <= limit
         /\ tx \in [first : RegionType, second : RegionType]
         /\ \A i \in 0 .. TxLength(tx) - 1 : GetSlot(tx, i) = (m + i) % QuantumCount
<1>1. CASE tx = NullTx
  <2>1. MemRegion(Null, 0) \in RegionType
    BY QuantumFacts DEF MemRegion, RegionType
  <2> QED  BY <1>1, <2>1, NullTxLength, QuantumFacts DEF NullTx
<1>2. ASSUME NEW n \in 0 .. QuantumCount, tx = MemTransaction(SizeofT * m, n), m + n <= limit
      PROVE  /\ TxLength(tx) = n /\ \A i \in 0 .. n - 1 : GetSlot(tx, i) = (m + i) % QuantumCount
             /\ tx \in [first : RegionType, second : RegionType]
  BY <1>2, TransactionSlots, TransactionType DEF RegionType
<1> QED  BY <1>1, <1>2 DEF Opened

\* It stays one when the other side moves on.
LEMMA OpenedLater ==
  ASSUME NEW m \in Nat, NEW limit \in Nat, NEW further \in Nat, limit <= further,
         NEW tx, Opened(tx, m, limit)
  PROVE  Opened(tx, m, further)
<1>1. \A n \in 0 .. QuantumCount : m + n <= limit => m + n <= further
  BY QuantumFacts
<1> QED  BY <1>1 DEF Opened

=============================================================================
