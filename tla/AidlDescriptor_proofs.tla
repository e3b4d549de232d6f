------------------------ MODULE AidlDescriptor_proofs ------------------------
(***************************************************************************)
(* Facts about GrantorLayout and AidlDescriptor, for every page size, word *)
(* size and integer width: what the casts keep, where the parts of a queue *)
(* lie in their files, which pages a grantor is mapped to, and how many    *)
(* file descriptors a copy of a handle opens.                              *)
(***************************************************************************)
EXTENDS AidlDescriptor, FiniteSetTheorems, TLAPS

(***************************************************************************)
(* Division and remainder.                                                 *)
(***************************************************************************)

LEMMA RecombineUnique ==
  ASSUME NEW a \in Int, NEW s \in Nat \ {0}, NEW q \in Int, NEW r \in Int,
         a = s * q + r, 0 <= r, r < s
  PROVE  a % s = r /\ a \div s = q
BY Z3

LEMMA Recombine ==
  ASSUME NEW a \in Int, NEW s \in Nat \ {0}
  PROVE  /\ a % s \in 0 .. s - 1
         /\ a \div s \in Int
         /\ a = s * (a \div s) + (a % s)
         /\ a >= 0 => a \div s >= 0
BY Z3

LEMMA WholeMultiple ==
  ASSUME NEW a \in Int, NEW s \in Nat \ {0}, a % s = 0
  PROVE  \E m \in Int : a = s * m
<1>1. a \div s \in Int /\ a = s * (a \div s) + (a % s)
  BY Recombine
<1> DEFINE m == a \div s
<1>2. m \in Int /\ a = s * m + 0
  BY <1>1
<1> HIDE DEF m
<1>3. s * m \in Int
  BY <1>2
<1> QED
  BY <1>2, <1>3

LEMMA SmallRemainder ==
  ASSUME NEW s \in Nat \ {0}, NEW a \in 0 .. s - 1
  PROVE  a % s = a /\ a \div s = 0
<1>1. a = s * 0 + a /\ a \in Int /\ 0 \in Int /\ 0 <= a /\ a < s
  OBVIOUS
<1> QED
  BY <1>1, RecombineUnique, Zenon

\* Numbers that are a multiple of s apart have the same remainder.
LEMMA SameRemainder ==
  ASSUME NEW s \in Nat \ {0}, NEW a \in Int, NEW b \in Int, NEW q \in Int, a = s * q + b
  PROVE  a % s = b % s
<1> DEFINE r == b % s
           p == b \div s
<1>1. r \in 0 .. s - 1 /\ p \in Int /\ b = s * p + r
  BY Recombine
<1> HIDE DEF r, p
<1>2. a = s * (q + p) + r
  BY <1>1, Z3
<1>3. q + p \in Int /\ r \in Int /\ 0 <= r /\ r < s
  BY <1>1
<1>4. a % s = r
  BY <1>2, <1>3, RecombineUnique, Zenon
<1> QED
  BY <1>4 DEF r

\* Two numbers less than s apart with the same remainder are the same.
LEMMA CloseAndSame ==
  ASSUME NEW s \in Nat \ {0}, NEW a \in Int, NEW b \in Int,
         a < b + s, b < a + s, a % s = b % s
  PROVE  a = b
<1> DEFINE p == a \div s
           q == b \div s
           r == a % s
<1>1. p \in Int /\ q \in Int /\ r \in 0 .. s - 1 /\ a = s * p + r /\ b = s * q + r
  BY Recombine
<1> HIDE DEF p, q, r
<1>2. s * p < s * (q + 1) /\ s * q < s * (p + 1)
  BY <1>1, Z3
<1>3. p < q + 1 /\ q < p + 1
  BY <1>1, <1>2, Z3
<1>4. p = q
  BY <1>1, <1>3
<1> QED
  BY <1>1, <1>4

-----------------------------------------------------------------------------
(***************************************************************************)
(* Casts.                                                                  *)
(***************************************************************************)

LEMMA LayoutFacts ==
  /\ PageSize \in Nat \ {0} /\ WordSize \in Nat \ {0} /\ CounterSize \in Nat \ {0}
  /\ FlagSize \in Nat \ {0} /\ SizeModulus \in Nat \ {0} /\ IntModulus \in Nat \ {0}
  /\ FlagSize <= WordSize /\ WordSize <= PageSize
  /\ IntMax \in Nat /\ IntModulus = 2 * (IntMax + 1) /\ IntModulus \div 2 = IntMax + 1
  /\ 2 * PageSize <= IntMax /\ IntModulus < SizeModulus
  /\ 2 * CounterSize + FlagSize <= PageSize
<1>1. /\ PageSize \in Nat \ {0} /\ WordSize \in Nat \ {0} /\ CounterSize \in Nat \ {0}
      /\ FlagSize \in Nat \ {0} /\ SizeModulus \in Nat \ {0} /\ IntModulus \in Nat \ {0}
  BY LayoutAssumption
<1>2. WordSize <= PageSize
  <2>1. PageSize % WordSize = 0
    BY LayoutAssumption
  <2>2. CASE PageSize < WordSize
    <3>1. PageSize % WordSize = PageSize
      BY <1>1, <2>2, SmallRemainder
    <3> QED
      BY <1>1, <2>1, <3>1
  <2> QED
    BY <1>1, <2>2
<1>3. IntModulus = 2 * (IntModulus \div 2) + (IntModulus % 2) /\ IntModulus \div 2 \in Int
  BY <1>1, Recombine
<1>4. IntModulus % 2 = 0 /\ 2 * PageSize < IntModulus \div 2 /\ IntModulus < SizeModulus
      /\ FlagSize <= WordSize /\ 2 * CounterSize + FlagSize <= PageSize
  BY LayoutAssumption
<1> QED
  BY <1>1, <1>2, <1>3, <1>4 DEF IntMax

LEMMA UnsignedCasts ==
  ASSUME NEW x \in Int
  PROVE  /\ ToUint32(x) \in 0 .. IntModulus - 1
         /\ ToSize(x) \in 0 .. SizeMax
         /\ x \in 0 .. IntModulus - 1 => ToUint32(x) = x
         /\ x \in 0 .. SizeMax => ToSize(x) = x
  BY LayoutFacts, Recombine, SmallRemainder DEF ToUint32, ToSize, SizeMax

\* A cast to a signed type moves a number by a multiple of the modulus m, to
\* the range from -h on.
LEMMA SignedCast ==
  ASSUME NEW m \in Nat \ {0}, NEW h \in 0 .. m, NEW x \in Int,
         NEW s, s = ((x + h) % m) - h
  PROVE  /\ s \in -h .. m - h - 1
         /\ s % m = x % m
         /\ \E q \in Int : x = m * q + s
         /\ x \in -h .. m - h - 1 => s = x
         /\ x \in 0 .. m - 1 /\ s >= 0 => s = x
<1> DEFINE q == (x + h) \div m
<1>1. (x + h) % m \in 0 .. m - 1 /\ q \in Int /\ x + h = m * q + ((x + h) % m) /\ x + h \in Int
  BY Recombine
<1>2. s \in -h .. m - h - 1
  BY <1>1
<1>3. x = m * q + s
  BY <1>1
<1> HIDE DEF q
<1>4. s % m = x % m
  <2>1. x \in Int /\ s \in Int /\ q \in Int /\ m \in Nat \ {0}
    BY <1>1, <1>2
  <2>2. x % m = s % m
    BY <1>3, <2>1, SameRemainder, Zenon
  <2> QED
    BY <2>2
<1>5. ASSUME x \in -h .. m - h - 1 PROVE s = x
  <2>1. s \in Int /\ s < x + m /\ x < s + m
    BY <1>2, <1>5
  <2> QED
    BY <2>1, <1>4, CloseAndSame
<1>6. ASSUME x \in 0 .. m - 1, s >= 0 PROVE s = x
  <2>1. s \in Int /\ s < x + m /\ x < s + m
    BY <1>2, <1>6
  <2> QED
    BY <2>1, <1>4, CloseAndSame
<1> QED
  BY <1>1, <1>2, <1>3, <1>4, <1>5, <1>6

LEMMA Int32Cast ==
  ASSUME NEW x \in Int
  PROVE  /\ ToInt32(x) \in Int /\ ToInt32(x) <= IntMax
         /\ ToUint32(ToInt32(x)) = ToUint32(x)
         /\ \E q \in Int : x = IntModulus * q + ToInt32(x)
         /\ x \in 0 .. IntMax => ToInt32(x) = x
         /\ x \in 0 .. IntModulus - 1 /\ ToInt32(x) >= 0 => ToInt32(x) = x
<1> DEFINE h == IntModulus \div 2
<1>1. h \in 0 .. IntModulus /\ IntMax = IntModulus - h - 1 /\ IntModulus \in Nat \ {0} /\ h >= 0
  BY LayoutFacts
<1>2. ToInt32(x) = ((x + h) % IntModulus) - h
  BY DEF ToInt32
<1> HIDE DEF h
<1>3. /\ ToInt32(x) \in -h .. IntModulus - h - 1
      /\ ToInt32(x) % IntModulus = x % IntModulus
      /\ \E q \in Int : x = IntModulus * q + ToInt32(x)
      /\ x \in -h .. IntModulus - h - 1 => ToInt32(x) = x
      /\ x \in 0 .. IntModulus - 1 /\ ToInt32(x) >= 0 => ToInt32(x) = x
  BY <1>1, <1>2, SignedCast, Zenon
<1>4. ToUint32(ToInt32(x)) = ToUint32(x) /\ \E q \in Int : x = IntModulus * q + ToInt32(x)
  BY <1>3, Zenon DEF ToUint32
<1>5. ToInt32(x) \in -h .. IntModulus - h - 1 /\ (x \in -h .. IntModulus - h - 1 => ToInt32(x) = x)
      /\ (x \in 0 .. IntModulus - 1 /\ ToInt32(x) >= 0 => ToInt32(x) = x)
  BY <1>3
<1>6. /\ ToInt32(x) \in Int /\ ToInt32(x) <= IntMax
      /\ x \in 0 .. IntMax => ToInt32(x) = x
      /\ x \in 0 .. IntModulus - 1 /\ ToInt32(x) >= 0 => ToInt32(x) = x
  BY <1>1, <1>5, LayoutFacts
<1> QED
  BY <1>4, <1>6, Zenon

LEMMA Int64Cast ==
  ASSUME NEW x \in Int
  PROVE  /\ ToInt64(x) \in Int
         /\ ToSize(ToInt64(x)) = ToSize(x)
         /\ x \in 0 .. IntMax => ToInt64(x) = x
         /\ x \in 0 .. SizeMax /\ ToInt64(x) >= 0 => ToInt64(x) = x
<1> DEFINE h == SizeModulus \div 2
<1>1. SizeModulus \in Nat \ {0} /\ h \in Int /\ SizeModulus = 2 * h + (SizeModulus % 2)
      /\ SizeModulus % 2 \in 0 .. 1
  BY LayoutFacts, Recombine
<1>2. h \in 0 .. SizeModulus /\ IntMax <= SizeModulus - h - 1 /\ h >= 0
  BY <1>1, LayoutFacts
<1>3. ToInt64(x) = ((x + h) % SizeModulus) - h
  BY DEF ToInt64
<1> HIDE DEF h
<1>4. /\ ToInt64(x) \in -h .. SizeModulus - h - 1
      /\ ToInt64(x) % SizeModulus = x % SizeModulus
      /\ \E q \in Int : x = SizeModulus * q + ToInt64(x)
      /\ x \in -h .. SizeModulus - h - 1 => ToInt64(x) = x
      /\ x \in 0 .. SizeModulus - 1 /\ ToInt64(x) >= 0 => ToInt64(x) = x
  <2>1. SizeModulus \in Nat \ {0} /\ h \in 0 .. SizeModulus
    BY <1>1, <1>2
  <2> QED
    BY <1>3, <2>1, SignedCast, Zenon
<1>5. ToSize(ToInt64(x)) = ToSize(x)
  BY <1>4, Zenon DEF ToSize
<1>6. ToInt64(x) \in -h .. SizeModulus - h - 1 /\ (x \in -h .. SizeModulus - h - 1 => ToInt64(x) = x)
      /\ (x \in 0 .. SizeModulus - 1 /\ ToInt64(x) >= 0 => ToInt64(x) = x)
  BY <1>4
<1> QED
  BY <1>1, <1>2, <1>5, <1>6, LayoutFacts DEF SizeMax

-----------------------------------------------------------------------------
(***************************************************************************)
(* Alignment and pages.                                                    *)
(***************************************************************************)

LEMMA RoundUpFacts ==
  ASSUME NEW unit \in Nat \ {0}, NEW x \in Nat, x + unit - 1 <= SizeMax
  PROVE  /\ RoundUp(x, unit) \in Nat
         /\ x <= RoundUp(x, unit) /\ RoundUp(x, unit) < x + unit
         /\ RoundUp(x, unit) % unit = 0
<1> DEFINE y == x + unit - 1
           q == y \div unit
           r == y % unit
<1>1. y \in Nat /\ y \in 0 .. SizeMax
  BY LayoutFacts DEF SizeMax
<1>2. r \in 0 .. unit - 1 /\ q \in Int /\ y = unit * q + r /\ (y >= 0 => q >= 0)
  <2>1. y \in Int
    BY <1>1
  <2> QED
    BY <2>1, Recombine, Zenon
<1>3. RoundUp(x, unit) = q * unit
  BY <1>1, UnsignedCasts DEF RoundUp
<1>4. y = x + unit - 1
  OBVIOUS
<1> HIDE DEF q, r, y
<1>5. q * unit = unit * q /\ unit * q \in Nat
  BY <1>1, <1>2, Z3
<1>6. unit * q = unit * q + 0 /\ unit * q \in Int /\ 0 \in Int /\ 0 <= 0 /\ 0 < unit
  BY <1>5
<1>7. (unit * q) % unit = 0
  BY <1>2, <1>6, RecombineUnique, Zenon
<1> QED
  BY <1>2, <1>3, <1>4, <1>5, <1>7

\* What a length is aligned to: it grows by less than a word, and a whole number
\* of words before it stays before it.
LEMMA AlignFacts ==
  ASSUME NEW b \in Nat, NEW c \in Nat, c % WordSize = 0, c + b + WordSize - 1 <= SizeMax
  PROVE  /\ AlignToWordBoundary(b) \in Nat
         /\ b <= AlignToWordBoundary(b) /\ AlignToWordBoundary(b) < b + WordSize
         /\ IsAlignedToWordBoundary(AlignToWordBoundary(b))
         /\ AlignToWordBoundary(c + b) = c + AlignToWordBoundary(b)
<1> DEFINE x == AlignToWordBoundary(b)
           y == AlignToWordBoundary(c + b)
<1>1. WordSize \in Nat \ {0} /\ SizeMax \in Nat
  BY LayoutFacts DEF SizeMax
<1>2. x \in Nat /\ b <= x /\ x < b + WordSize /\ x % WordSize = 0
  BY <1>1, RoundUpFacts DEF AlignToWordBoundary
<1>3. y \in Nat /\ c + b <= y /\ y < c + b + WordSize /\ y % WordSize = 0
  BY <1>1, RoundUpFacts DEF AlignToWordBoundary
<1> HIDE DEF x, y
<1>4. PICK p \in Int : c = WordSize * p
  <2>1. c \in Int
    OBVIOUS
  <2>2. c \div WordSize \in Int /\ c = WordSize * (c \div WordSize) + (c % WordSize)
    BY <1>1, <2>1, Recombine, Zenon
  <2> DEFINE p == c \div WordSize
  <2>3. p \in Int /\ c = WordSize * p + (c % WordSize) /\ c % WordSize = 0
    BY <2>2
  <2> HIDE DEF p
  <2>4. c = WordSize * p
    BY <1>1, <2>3
  <2> QED
    BY <2>3, <2>4, Zenon
<1>5. c + x \in Int /\ x \in Int /\ p \in Int /\ c + x = WordSize * p + x
  BY <1>2, <1>4
<1>6. (c + x) % WordSize = x % WordSize
  BY <1>1, <1>5, SameRemainder, Zenon
<1>7. y \in Int /\ c + x \in Int /\ y < (c + x) + WordSize /\ c + x < y + WordSize
      /\ y % WordSize = (c + x) % WordSize
  BY <1>1, <1>2, <1>3, <1>6
<1>8. y = c + x
  BY <1>1, <1>7, CloseAndSame, Zenon
<1> QED
  BY <1>2, <1>8 DEF x, y, IsAlignedToWordBoundary

Unsigned == [fdIndex : 0 .. IntModulus - 1, offset : 0 .. IntModulus - 1, extent : 0 .. SizeMax]

\* A grantor is mapped from the page its offset is in, whatever the offset.
LEMMA PageFacts ==
  ASSUME NEW grantor \in Unsigned
  PROVE  /\ InPage(grantor) = grantor.offset % PageSize
         /\ InPage(grantor) \in 0 .. PageSize - 1
         /\ MapOffset(grantor) >= 0 => MapOffset(grantor) \div PageSize = grantor.offset \div PageSize
         /\ grantor.extent <= IntMax - PageSize => MapLength(grantor) = InPage(grantor) + grantor.extent
<1> DEFINE o == grantor.offset
           q == o \div PageSize
           r == o % PageSize
           base == q * PageSize
           m == ToInt32(base)
<1>1. o \in 0 .. IntModulus - 1 /\ grantor.extent \in Nat
  BY LayoutFacts DEF Unsigned, SizeMax
<1>2. r \in 0 .. PageSize - 1 /\ q \in Int /\ o = PageSize * q + r /\ (o >= 0 => q >= 0)
  <2>1. o \in Int /\ PageSize \in Nat \ {0}
    BY <1>1, LayoutFacts
  <2> QED
    BY <2>1, Recombine, Zenon
<1>3. MapOffset(grantor) = m /\ InPage(grantor) = ToUint32(o - m)
  BY DEF MapOffset, InPage
<1> HIDE DEF o, q, r
<1>4. base = PageSize * q /\ PageSize * q \in Nat
  <2>1. q >= 0
    BY <1>1, <1>2
  <2> QED
    BY <1>2, <2>1, LayoutFacts, Z3
<1> HIDE DEF base, m
<1>5. base \in 0 .. IntModulus - 1 /\ o - base = r
  BY <1>1, <1>2, <1>4, LayoutFacts
<1> USE DEF m
<1>6. PICK p \in Int : base = IntModulus * p + m
  BY <1>5, Int32Cast
<1>7. m \in Int /\ (m >= 0 => m = base)
  BY <1>5, Int32Cast
<1> HIDE DEF m
<1>8. InPage(grantor) = r
  <2>1. o - m = IntModulus * p + r /\ o - m \in Int /\ r \in Int
    BY <1>1, <1>2, <1>5, <1>6, <1>7, LayoutFacts
  <2>2. (o - m) % IntModulus = r % IntModulus
    <3>1. IntModulus \in Nat \ {0} /\ p \in Int
      BY LayoutFacts
    <3> QED
      BY <2>1, <3>1, SameRemainder, Zenon
  <2>3. r \in 0 .. IntModulus - 1
    BY <1>2, LayoutFacts
  <2>4. r % IntModulus = r
    BY <2>3, LayoutFacts, SmallRemainder, Zenon
  <2> QED
    BY <1>3, <2>2, <2>4 DEF ToUint32
<1>9. ASSUME m >= 0 PROVE m \div PageSize = q
  <2>1. m = PageSize * q + 0 /\ m \in Int /\ 0 \in Int /\ 0 <= 0 /\ 0 < PageSize
    BY <1>4, <1>7, <1>9, LayoutFacts
  <2> QED
    BY <1>2, <2>1, LayoutFacts, RecombineUnique, Zenon
<1>10. ASSUME grantor.extent <= IntMax - PageSize
       PROVE  MapLength(grantor) = InPage(grantor) + grantor.extent
  <2>1. InPage(grantor) + grantor.extent \in 0 .. IntMax
    BY <1>1, <1>2, <1>8, <1>10, LayoutFacts
  <2> QED
    BY <2>1, Int32Cast DEF MapLength
<1> QED
  BY <1>2, <1>3, <1>8, <1>9, <1>10 DEF o, q, r

-----------------------------------------------------------------------------
(***************************************************************************)
(* Handles and vectors of grantors.                                        *)
(***************************************************************************)

Handles(files) == UNION {[0 .. k - 1 -> files] : k \in 0 .. 2}

Vectors(items) == UNION {[0 .. m - 1 -> items] : m \in 0 .. 4}

LEMMA VectorFacts ==
  ASSUME NEW items, NEW g \in Vectors(items)
  PROVE  /\ Count(g) \in 0 .. 4 /\ DOMAIN g = 0 .. Count(g) - 1
         /\ g \in [0 .. Count(g) - 1 -> items]
<1>1. PICK m \in 0 .. 4 : g \in [0 .. m - 1 -> items]
  BY DEF Vectors
<1>2. DOMAIN g = 0 .. m - 1 /\ m \in Int
  BY <1>1
<1>3. Cardinality(0 .. m - 1) = IF 0 > m - 1 THEN 0 ELSE (m - 1) - 0 + 1
  BY <1>2, FS_Interval
<1>4. Count(g) = m
  BY <1>1, <1>2, <1>3 DEF Count
<1> QED
  BY <1>1, <1>2, <1>4

LEMMA HandleFacts ==
  ASSUME NEW files, NEW fds \in Handles(files)
  PROVE  /\ \E k \in 0 .. 2 : DOMAIN fds = 0 .. k - 1
         /\ \A i \in DOMAIN fds : fds[i] \in files
         /\ Count(fds) \in 0 .. 2 /\ DOMAIN fds = 0 .. Count(fds) - 1
         /\ IsFiniteSet(OpenIn(fds)) /\ OpenFds(fds) \in Nat
<1>1. PICK k \in 0 .. 2 : fds \in [0 .. k - 1 -> files]
  BY DEF Handles
<1>2. DOMAIN fds = 0 .. k - 1 /\ k \in Int
  BY <1>1
<1>3. IsFiniteSet(0 .. k - 1) /\ Cardinality(0 .. k - 1) = IF 0 > k - 1 THEN 0 ELSE (k - 1) - 0 + 1
  BY <1>2, FS_Interval
<1>4. Count(fds) = k
  BY <1>1, <1>2, <1>3 DEF Count
<1>5. OpenIn(fds) \in SUBSET (0 .. k - 1)
  BY <1>2 DEF OpenIn
<1>6. IsFiniteSet(OpenIn(fds)) /\ OpenFds(fds) \in Nat
  BY <1>3, <1>5, FS_Subset, FS_CardinalityType DEF OpenFds
<1> QED
  BY <1>1, <1>2, <1>4, <1>6

LEMMA NothingOpen ==
  ASSUME NEW files
  PROVE  NoFds \in Handles(files) /\ OpenIn(NoFds) = {} /\ OpenFds(NoFds) = 0
         /\ NoGrantors \in Vectors(files) /\ DOMAIN NoGrantors = {} /\ Count(NoGrantors) = 0
<1>1. DOMAIN NoFds = 0 .. 0 - 1 /\ DOMAIN NoGrantors = 0 .. 0 - 1 /\ 0 .. 0 - 1 = {}
  BY DEF NoFds, NoGrantors
<1>2. NoFds \in [0 .. 0 - 1 -> files] /\ NoGrantors \in [0 .. 0 - 1 -> files]
  BY <1>1 DEF NoFds, NoGrantors
<1>3. NoFds \in Handles(files) /\ NoGrantors \in Vectors(files)
  BY <1>2 DEF Handles, Vectors
<1>4. OpenIn(NoFds) = {} /\ DOMAIN NoGrantors = {}
  BY <1>1 DEF OpenIn
<1> QED
  BY <1>3, <1>4, FS_EmptySet DEF OpenFds, Count

\* A copy of a handle has the same files, but for the calls of dup that failed,
\* and opens no more descriptors than there is room for.
LEMMA DupFacts ==
  ASSUME NEW files, Bad \in files, NEW fds \in Handles(files), NEW room \in Nat
  PROVE  /\ Dup(fds, room) \in Handles(files)
         /\ DOMAIN Dup(fds, room) = DOMAIN fds
         /\ \A i \in DOMAIN fds : Dup(fds, room)[i] \in {fds[i], Bad}
         /\ OpenFds(Dup(fds, room)) <= room
<1> DEFINE copy == Dup(fds, room)
           Below(i) == [j \in {k \in DOMAIN fds : k < i} |-> fds[j]]
<1>1. PICK k \in 0 .. 2 : fds \in [0 .. k - 1 -> files]
  BY DEF Handles
<1>2. DOMAIN fds = 0 .. k - 1 /\ DOMAIN copy = 0 .. k - 1
  BY <1>1 DEF Dup
<1>3. \A i \in DOMAIN fds : copy[i] = IF OpenFds(Below(i)) < room THEN fds[i] ELSE Bad
  BY DEF Dup
<1>4. copy \in [0 .. k - 1 -> files]
  BY <1>1, <1>2, <1>3 DEF Dup
<1>5. copy \in Handles(files)
  BY <1>4 DEF Handles
<1>6. OpenFds(copy) <= room
  <2>1. IsFiniteSet(OpenIn(copy)) /\ OpenFds(copy) \in Nat
    BY <1>5, HandleFacts
  <2>2. ASSUME NEW m \in OpenIn(copy), \A i \in OpenIn(copy) : i <= m
        PROVE  OpenFds(copy) <= room
    <3>1. m \in 0 .. k - 1 /\ copy[m] # Bad
      BY <1>2 DEF OpenIn
    <3>2. OpenFds(Below(m)) < room
      BY <1>2, <1>3, <3>1
    <3>3. OpenIn(copy) \subseteq OpenIn(Below(m)) \cup {m}
      <4>1. ASSUME NEW i \in OpenIn(copy), i # m PROVE i \in OpenIn(Below(m))
        <5>1. i \in DOMAIN fds /\ copy[i] # Bad /\ i < m
          BY <1>2, <2>2, <3>1, <4>1 DEF OpenIn
        <5>2. copy[i] = fds[i]
          BY <1>3, <5>1
        <5>3. i \in DOMAIN Below(m) /\ Below(m)[i] = fds[i]
          BY <5>1
        <5> QED
          BY <5>1, <5>2, <5>3 DEF OpenIn
      <4> QED
        BY <4>1
    <3>4. IsFiniteSet(OpenIn(Below(m)))
      <4>1. OpenIn(Below(m)) \in SUBSET (0 .. k - 1)
        BY <1>2 DEF OpenIn
      <4>2. IsFiniteSet(0 .. k - 1)
        BY FS_Interval
      <4> HIDE DEF Below
      <4> QED
        BY <4>1, <4>2, FS_Subset
    <3> DEFINE lower == OpenIn(Below(m))
    <3> HIDE DEF lower
    <3>5. /\ IsFiniteSet(lower \cup {m})
          /\ Cardinality(lower \cup {m}) <= Cardinality(lower) + 1
          /\ Cardinality(lower) \in Nat
      <4>1. IsFiniteSet(lower)
        BY <3>4 DEF lower
      <4>2. Cardinality(lower) \in Nat
        BY <4>1, FS_CardinalityType
      <4>3. IsFiniteSet(lower \cup {m}) /\ Cardinality(lower \cup {m}) =
              IF m \in lower THEN Cardinality(lower) ELSE Cardinality(lower) + 1
        BY <4>1, FS_AddElement
      <4> QED
        BY <4>2, <4>3
    <3>6. Cardinality(OpenIn(copy)) <= Cardinality(lower \cup {m})
      BY <3>3, <3>5, FS_Subset DEF lower
    <3>7. Cardinality(lower \cup {m}) \in Nat
      BY <3>5, FS_CardinalityType
    <3> QED
      BY <2>1, <3>2, <3>5, <3>6, <3>7 DEF OpenFds, lower
  <2>3. OpenIn(copy) \subseteq 0 .. 1
    BY <1>2 DEF OpenIn
  <2>4. CASE OpenIn(copy) = {}
    BY <2>4, FS_EmptySet DEF OpenFds
  <2>5. CASE 1 \in OpenIn(copy)
    BY <2>2, <2>3, <2>5
  <2>6. CASE OpenIn(copy) # {} /\ 1 \notin OpenIn(copy)
    <3>1. 0 \in OpenIn(copy) /\ \A i \in OpenIn(copy) : i <= 0
      BY <2>3, <2>6
    <3> QED
      BY <2>2, <3>1
  <2> QED
    BY <2>4, <2>5, <2>6
<1> QED
  BY <1>2, <1>3, <1>5, <1>6

-----------------------------------------------------------------------------
(***************************************************************************)
(* Descriptors on their way.                                               *)
(***************************************************************************)

Signed == [fdIndex : Int, offset : Int, extent : Int]

FromAidl(grantor) ==
  Grantor(ToUint32(grantor.fdIndex), ToUint32(grantor.offset), ToSize(grantor.extent))

\* A grantor comes through AIDL as it was, whatever sign its fields take on.
LEMMA AidlRoundTrip ==
  /\ \A grantor \in Unsigned : ToAidl(grantor) \in Signed /\ FromAidl(ToAidl(grantor)) = grantor
  /\ \A grantor \in Signed : FromAidl(grantor) \in Unsigned
<1>1. ASSUME NEW grantor \in Unsigned
      PROVE  ToAidl(grantor) \in Signed /\ FromAidl(ToAidl(grantor)) = grantor
  <2>1. /\ grantor.fdIndex \in 0 .. IntModulus - 1 /\ grantor.fdIndex \in Int
        /\ grantor.offset \in 0 .. IntModulus - 1 /\ grantor.offset \in Int
        /\ grantor.extent \in 0 .. SizeMax /\ grantor.extent \in Int
        /\ grantor = Grantor(grantor.fdIndex, grantor.offset, grantor.extent)
    BY LayoutFacts DEF Unsigned, Grantor, SizeMax
  <2>2. ToAidl(grantor) \in Signed
    BY <2>1, Int32Cast, Int64Cast DEF ToAidl, Grantor, Signed
  <2>3. ToUint32(ToInt32(grantor.fdIndex)) = grantor.fdIndex
    BY <2>1, Int32Cast, UnsignedCasts
  <2>4. ToUint32(ToInt32(grantor.offset)) = grantor.offset
    BY <2>1, Int32Cast, UnsignedCasts
  <2>5. ToSize(ToInt64(grantor.extent)) = grantor.extent
    BY <2>1, Int64Cast, UnsignedCasts
  <2> QED
    BY <2>1, <2>2, <2>3, <2>4, <2>5 DEF ToAidl, FromAidl, Grantor
<1>2. ASSUME NEW grantor \in Signed PROVE FromAidl(grantor) \in Unsigned
  BY UnsignedCasts DEF Signed, FromAidl, Grantor, Unsigned
<1> QED
  BY <1>1, <1>2

LEMMA ShimFacts ==
  ASSUME NEW parcel, parcel.grantors \in Vectors(Signed)
  PROVE  /\ ShimGrantors(parcel) \in Vectors(Unsigned)
         /\ ~ShimRejects(parcel) =>
              ShimGrantors(parcel) = [i \in DOMAIN parcel.grantors |-> FromAidl(parcel.grantors[i])]
<1> DEFINE g == parcel.grantors
<1>1. PICK m \in 0 .. 4 : g \in [0 .. m - 1 -> Signed]
  BY DEF Vectors
<1>2. Grantor(0, 0, 0) \in Unsigned
  BY LayoutFacts DEF Grantor, Unsigned, SizeMax
<1>3. \A i \in 0 .. m - 1 : FromAidl(g[i]) \in Unsigned
  BY <1>1, AidlRoundTrip
<1>4. ShimGrantors(parcel) \in Vectors(Unsigned)
  <2>1. CASE parcel.quantum < 0 \/ parcel.flags < 0
    BY <2>1, NothingOpen DEF ShimGrantors
  <2>2. CASE ~(parcel.quantum < 0 \/ parcel.flags < 0)
    <3>1. ShimGrantors(parcel) \in [0 .. m - 1 -> Unsigned]
      BY <1>1, <1>2, <1>3, <2>2 DEF ShimGrantors, FromAidl
    <3> QED
      BY <3>1 DEF Vectors
  <2> QED
    BY <2>1, <2>2
<1>5. ASSUME ~ShimRejects(parcel)
      PROVE  ShimGrantors(parcel) = [i \in DOMAIN g |-> FromAidl(g[i])]
  <2>1. \A i \in 0 .. m - 1 : \A j \in 0 .. i : j \in DOMAIN g
    BY <1>1
  <2>2. \A i \in DOMAIN g : ~(\E j \in 0 .. i : Negative(g[j]))
    BY <1>1, <1>5, <2>1 DEF ShimRejects
  <2> QED
    BY <1>5, <2>2 DEF ShimGrantors, ShimRejects, FromAidl
<1> QED
  BY <1>4, <1>5

\* The conversion appends the grantors up to the first one it cannot cast.
LEMMA AppendedFacts ==
  ASSUME NEW desc, desc.grantors \in Vectors(Unsigned)
  PROVE  /\ Appended(desc) \in Vectors(Signed)
         /\ DOMAIN Appended(desc) \subseteq DOMAIN desc.grantors
         /\ \A i \in DOMAIN Appended(desc) : Appended(desc)[i] = ToAidl(desc.grantors[i])
<1> DEFINE g == desc.grantors
           cast == DOMAIN Appended(desc)
<1>1. PICK m \in 0 .. 4 : g \in [0 .. m - 1 -> Unsigned]
  BY DEF Vectors
<1>2. cast = {k \in 0 .. m - 1 : \A j \in 0 .. k : ~UnsafeCast(g[j])}
  BY <1>1 DEF Appended
<1>3. \A i \in cast : Appended(desc)[i] = ToAidl(g[i])
  BY DEF Appended
<1>4. \A k \in cast : \A j \in 0 .. k : j \in cast
  BY <1>2
<1>5. cast \subseteq 0 .. m - 1
  BY <1>2
<1> HIDE DEF cast
<1>6. \E n \in 0 .. 4 : cast = 0 .. n - 1
  <2> DEFINE n == IF 0 \notin cast THEN 0 ELSE IF 1 \notin cast THEN 1
                  ELSE IF 2 \notin cast THEN 2 ELSE IF 3 \notin cast THEN 3 ELSE 4
  <2>1. \A k \in cast : k \in 0 .. 3 /\ \A j \in 0 .. k : j \in cast
    BY <1>4, <1>5
  <2>2. n \in 0 .. 4
    OBVIOUS
  <2>3. cast \subseteq 0 .. n - 1
    <3> SUFFICES ASSUME NEW k \in cast PROVE k \in 0 .. n - 1
      OBVIOUS
    <3>1. k \in 0 .. 3 /\ \A j \in 0 .. k : j \in cast
      BY <2>1
    <3> QED
      BY <3>1
  <2>4. 0 .. n - 1 \subseteq cast
    <3> SUFFICES ASSUME NEW k \in 0 .. n - 1 PROVE k \in cast
      OBVIOUS
    <3>1. k \in 0 .. 3
      OBVIOUS
    <3> QED
      BY <3>1
  <2> QED
    BY <2>2, <2>3, <2>4
<1>7. PICK n \in 0 .. 4 : cast = 0 .. n - 1
  BY <1>6
<1>8. \A i \in cast : ToAidl(g[i]) \in Signed
  BY <1>1, <1>5, AidlRoundTrip
<1>9. Appended(desc) \in [0 .. n - 1 -> Signed]
  BY <1>3, <1>7, <1>8 DEF cast, Appended
<1> QED
  BY <1>1, <1>3, <1>5, <1>9 DEF cast, Vectors

-----------------------------------------------------------------------------
(***************************************************************************)
(* The layout of a new queue.                                              *)
(***************************************************************************)

LaidOut(bytes, evFlag, supplied) ==
  IF supplied THEN GrantorsWithBuffer(bytes, evFlag) ELSE GrantorsInOneFile(bytes, evFlag)

LEMMA LaidOutFacts ==
  ASSUME NEW bytes \in 0 .. SizeMax, NEW evFlag \in BOOLEAN, NEW supplied \in BOOLEAN
  PROVE  LET g == LaidOut(bytes, evFlag, supplied)
         IN  /\ g \in Vectors(Unsigned)
             /\ DOMAIN g = IF evFlag THEN 0 .. 3 ELSE 0 .. 2
             /\ \A pos \in DOMAIN g : g[pos].fdIndex = IF supplied /\ pos = DATAPTRPOS THEN 1 ELSE 0
             /\ \A pos \in DOMAIN g : g[pos].extent = MemSize(bytes)[pos]
<1> DEFINE g == LaidOut(bytes, evFlag, supplied)
<1>1. bytes \in Nat /\ bytes <= SizeMax
  BY LayoutFacts DEF SizeMax
<1>2. DOMAIN g = IF evFlag THEN 0 .. 3 ELSE 0 .. 2
  BY DEF LaidOut, GrantorsWithBuffer, GrantorsInOneFile, Positions, READPTRPOS, DATAPTRPOS,
         EVFLAGWORDPOS
<1>3. \A x \in Int : AlignToWordBoundary(x) \in Int
  <2> SUFFICES ASSUME NEW x \in Int PROVE AlignToWordBoundary(x) \in Int
    OBVIOUS
  <2>1. x + WordSize - 1 \in Int
    BY LayoutFacts
  <2>2. ToSize(x + WordSize - 1) \in Int
    BY <2>1, LayoutFacts, UnsignedCasts DEF SizeMax
  <2>3. ToSize(x + WordSize - 1) \div WordSize \in Int
    BY <2>2, LayoutFacts, Recombine
  <2> QED
    BY <2>3, LayoutFacts, Z3 DEF AlignToWordBoundary, RoundUp
<1>4. \A pos \in 0 .. 3 : OffsetOf(bytes, pos) \in Int /\ OffsetOf(0, pos) \in Int
  BY <1>1, LayoutFacts, UnsignedCasts DEF OffsetOf, READPTRPOS, WRITEPTRPOS, DATAPTRPOS, SizeMax
<1>5. \A pos \in 0 .. 3 : /\ ToUint32(AlignToWordBoundary(OffsetOf(bytes, pos))) \in 0 .. IntModulus - 1
                         /\ ToUint32(AlignToWordBoundary(OffsetOf(0, pos))) \in 0 .. IntModulus - 1
  BY <1>3, <1>4, UnsignedCasts
<1>6. \A pos \in 0 .. 3 : MemSize(bytes)[pos] \in 0 .. SizeMax
  BY <1>1, LayoutFacts DEF MemSize, Positions, READPTRPOS, EVFLAGWORDPOS, SizeMax
<1>7. ASSUME NEW pos \in DOMAIN g
      PROVE  /\ g[pos] \in Unsigned
             /\ g[pos].fdIndex = IF supplied /\ pos = DATAPTRPOS THEN 1 ELSE 0
             /\ g[pos].extent = MemSize(bytes)[pos]
  <2>1. pos \in 0 .. 3 /\ pos \in Positions(evFlag)
    BY <1>2 DEF Positions, READPTRPOS, DATAPTRPOS, EVFLAGWORDPOS
  <2>2. 0 \in 0 .. IntModulus - 1 /\ 1 \in 0 .. IntModulus - 1
    BY LayoutFacts
  <2>3. MemSize(bytes)[DATAPTRPOS] = bytes
    BY DEF MemSize, Positions, READPTRPOS, DATAPTRPOS, EVFLAGWORDPOS
  <2>4. CASE supplied
    BY <1>1, <1>5, <1>6, <2>1, <2>2, <2>3, <2>4 DEF LaidOut, GrantorsWithBuffer, Grantor, Unsigned
  <2>5. CASE ~supplied
    BY <1>5, <1>6, <2>1, <2>2, <2>5 DEF LaidOut, GrantorsInOneFile, Grantor, Unsigned
  <2> QED
    BY <2>4, <2>5
<1>8. \E m \in 0 .. 4 : g \in [0 .. m - 1 -> Unsigned]
  <2>1. CASE evFlag
    <3>1. DOMAIN g = 0 .. 4 - 1
      BY <1>2, <2>1
    <3>2. g \in [0 .. 4 - 1 -> Unsigned]
      BY <1>7, <3>1 DEF LaidOut, GrantorsWithBuffer, GrantorsInOneFile
    <3> QED
      BY <3>2
  <2>2. CASE ~evFlag
    <3>1. DOMAIN g = 0 .. 3 - 1
      BY <1>2, <2>2
    <3>2. g \in [0 .. 3 - 1 -> Unsigned]
      BY <1>7, <3>1 DEF LaidOut, GrantorsWithBuffer, GrantorsInOneFile
    <3> QED
      BY <3>2
  <2> QED
    BY <2>1, <2>2
<1> QED
  BY <1>2, <1>7, <1>8 DEF Vectors

\* The parts of a queue whose ring can be mapped are apart, in the order of the
\* counters, the ring and the flag, and inside the shared memory made for them.
LEMMA PartsApart ==
  ASSUME NEW bytes \in Nat, bytes <= IntMax - PageSize,
         NEW evFlag \in BOOLEAN, NEW supplied \in BOOLEAN
  PROVE  LET g    == LaidOut(bytes, evFlag, supplied)
             size == KAshmemSizePageAligned(bytes, evFlag, supplied)
             End(pos) == g[pos].offset + g[pos].extent
         IN  /\ \A pos \in DOMAIN g :
                  End(pos) <= IF supplied /\ pos = DATAPTRPOS THEN bytes ELSE size
             /\ \A pos, other \in DOMAIN g :
                  pos < other /\ g[pos].fdIndex = g[other].fdIndex => End(pos) <= g[other].offset
<1> DEFINE g == LaidOut(bytes, evFlag, supplied)
           size == KAshmemSizePageAligned(bytes, evFlag, supplied)
           C == CounterSize
           ring == IF supplied THEN 0 ELSE AlignToWordBoundary(bytes)
<1>1. /\ C \in Nat \ {0} /\ bytes \in 0 .. SizeMax /\ SizeMax \in Nat
      /\ 2 * C + FlagSize + bytes + WordSize + PageSize <= SizeMax
      /\ 2 * C + bytes + WordSize - 1 < IntModulus
      /\ PageSize \in Nat \ {0} /\ WordSize \in Nat \ {0} /\ IntModulus \in Nat
      /\ FlagSize \in Nat \ {0} /\ FlagSize <= WordSize
  BY LayoutFacts DEF SizeMax
<1>2. 0 % WordSize = 0 /\ C % WordSize = 0 /\ (2 * C) % WordSize = 0
  <2>1. 0 \in 0 .. WordSize - 1
    BY <1>1
  <2>2. 0 % WordSize = 0
    BY <1>1, <2>1, SmallRemainder, Zenon
  <2>3. C % WordSize = 0
    BY LayoutAssumption, Zenon
  <2>4. C \in Int /\ C \div WordSize \in Int /\ C = WordSize * (C \div WordSize) + (C % WordSize)
    <3>1. C \in Int
      BY <1>1
    <3> QED
      BY <1>1, <3>1, Recombine, Zenon
  <2> DEFINE p == C \div WordSize
             r == C % WordSize
  <2>5. p \in Int /\ C = WordSize * p + r /\ r = 0
    BY <2>3, <2>4
  <2> HIDE DEF p, r
  <2>6. 2 * C = WordSize * p + C /\ 2 * C \in Int /\ C \in Int
    BY <1>1, <2>5
  <2> DEFINE twice == 2 * C
  <2> HIDE DEF twice, C
  <2>7. twice = WordSize * p + C /\ twice \in Int /\ C \in Int /\ WordSize \in Nat \ {0} /\ p \in Int
    BY <1>1, <2>5, <2>6 DEF twice
  <2>8. twice % WordSize = C % WordSize
    BY <2>7, SameRemainder, Zenon
  <2> USE DEF twice, C
  <2> QED
    BY <2>2, <2>3, <2>8, Zenon
<1>3. AlignToWordBoundary(0) = 0 /\ AlignToWordBoundary(C) = C /\ AlignToWordBoundary(2 * C) = 2 * C
  <2>1. /\ 0 \in Nat /\ C \in Nat /\ 2 * C \in Nat
        /\ 0 + 0 + WordSize - 1 <= SizeMax /\ C + 0 + WordSize - 1 <= SizeMax
        /\ 2 * C + 0 + WordSize - 1 <= SizeMax
    BY <1>1
  <2>2. /\ AlignToWordBoundary(0) \in Nat /\ AlignToWordBoundary(0) < 0 + WordSize
        /\ AlignToWordBoundary(0) % WordSize = 0
        /\ AlignToWordBoundary(C + 0) = C + AlignToWordBoundary(0)
        /\ AlignToWordBoundary(2 * C + 0) = 2 * C + AlignToWordBoundary(0)
    BY <1>2, <2>1, AlignFacts, Zenon DEF IsAlignedToWordBoundary
  <2> DEFINE z == AlignToWordBoundary(0)
  <2>3. z \in 0 .. WordSize - 1 /\ z % WordSize = 0
    BY <1>1, <2>2
  <2>4. z % WordSize = z
    BY <1>1, <2>3, SmallRemainder, Zenon
  <2>5. z = 0
    BY <2>3, <2>4, Zenon
  <2>6. C + 0 = C /\ 2 * C + 0 = 2 * C /\ C + z = C /\ 2 * C + z = 2 * C
    BY <1>1, <2>5
  <2> QED
    BY <2>2, <2>5, <2>6, Zenon
<1>4. /\ AlignToWordBoundary(bytes) \in Nat /\ bytes <= AlignToWordBoundary(bytes)
      /\ AlignToWordBoundary(bytes) < bytes + WordSize
      /\ AlignToWordBoundary(2 * C + bytes) = 2 * C + AlignToWordBoundary(bytes)
  <2>1. 2 * C \in Nat /\ 2 * C + bytes + WordSize - 1 <= SizeMax
    BY <1>1
  <2> QED
    BY <1>2, <2>1, AlignFacts, Zenon
<1>5. /\ OffsetOf(bytes, 0) = 0 /\ OffsetOf(bytes, 1) = C /\ OffsetOf(bytes, 2) = 2 * C
      /\ OffsetOf(bytes, 3) = 2 * C + bytes
      /\ OffsetOf(0, 0) = 0 /\ OffsetOf(0, 1) = C /\ OffsetOf(0, 3) = 2 * C
  <2>1. 2 * C + bytes \in 0 .. SizeMax /\ 2 * C + 0 \in 0 .. SizeMax /\ 2 * C + 0 = 2 * C
    BY <1>1
  <2>2. ToSize(2 * C + bytes) = 2 * C + bytes /\ ToSize(2 * C + 0) = 2 * C
    BY <1>1, <2>1, UnsignedCasts
  <2> QED
    BY <2>2 DEF OffsetOf, READPTRPOS, WRITEPTRPOS, DATAPTRPOS
<1>6. /\ ToUint32(0) = 0 /\ ToUint32(C) = C /\ ToUint32(2 * C) = 2 * C
      /\ ToUint32(2 * C + AlignToWordBoundary(bytes)) = 2 * C + AlignToWordBoundary(bytes)
  <2>1. /\ 0 \in 0 .. IntModulus - 1 /\ C \in 0 .. IntModulus - 1 /\ 2 * C \in 0 .. IntModulus - 1
        /\ 2 * C + AlignToWordBoundary(bytes) \in 0 .. IntModulus - 1
    BY <1>1, <1>4
  <2> QED
    BY <1>1, <2>1, UnsignedCasts
<1>7. \A pos \in DOMAIN g : g[pos].extent = CASE pos = 2 -> bytes [] pos = 3 -> FlagSize [] OTHER -> C
  <2>1. DOMAIN g \subseteq 0 .. 3 /\ \A pos \in DOMAIN g : g[pos].extent = MemSize(bytes)[pos]
    BY <1>1, LaidOutFacts
  <2> QED
    BY <2>1 DEF MemSize, Positions, READPTRPOS, DATAPTRPOS, EVFLAGWORDPOS
<1>8. \A pos \in DOMAIN g : g[pos].offset = CASE pos = 0 -> 0
                                        [] pos = 1 -> C
                                        [] pos = 2 -> (IF supplied THEN 0 ELSE 2 * C)
                                        [] pos = 3 -> 2 * C + ring
  <2> SUFFICES ASSUME NEW pos \in DOMAIN g
               PROVE  g[pos].offset = CASE pos = 0 -> 0
                                        [] pos = 1 -> C
                                        [] pos = 2 -> (IF supplied THEN 0 ELSE 2 * C)
                                        [] pos = 3 -> 2 * C + ring
    OBVIOUS
  <2>1. pos \in Positions(evFlag) /\ pos \in 0 .. 3
    BY DEF LaidOut, GrantorsWithBuffer, GrantorsInOneFile, Positions, READPTRPOS, DATAPTRPOS, EVFLAGWORDPOS
  <2>2. 2 * C + 0 = 2 * C
    BY <1>1
  <2>3. CASE supplied
    BY <1>3, <1>5, <1>6, <2>1, <2>2, <2>3
      DEF LaidOut, GrantorsWithBuffer, Grantor, DATAPTRPOS
  <2>4. CASE ~supplied
    BY <1>3, <1>4, <1>5, <1>6, <2>1, <2>4 DEF LaidOut, GrantorsInOneFile, Grantor
  <2> QED
    BY <2>3, <2>4
<1>9. 2 * C + ring + (IF evFlag THEN FlagSize ELSE 0) <= size
  <2> DEFINE x == ring + KMetaDataSize(evFlag)
  <2>1. x \in Nat /\ x = 2 * C + ring + (IF evFlag THEN FlagSize ELSE 0) /\ x + PageSize - 1 <= SizeMax
    BY <1>1, <1>4 DEF KMetaDataSize
  <2>2. size = RoundUp(x, PageSize)
    BY DEF KAshmemSizePageAligned
  <2> HIDE DEF x, size
  <2> QED
    BY <1>1, <2>1, <2>2, RoundUpFacts
<1>10. DOMAIN g = (IF evFlag THEN 0 .. 3 ELSE 0 .. 2)
       /\ \A pos \in DOMAIN g : g[pos].fdIndex = IF supplied /\ pos = 2 THEN 1 ELSE 0
  BY <1>1, LaidOutFacts DEF DATAPTRPOS
<1>11. ring \in Nat /\ (~supplied => bytes <= ring) /\ size \in Nat
  <2>1. ring \in Nat /\ (~supplied => bytes <= ring)
    BY <1>1, <1>4
  <2> DEFINE x == ring + KMetaDataSize(evFlag)
  <2>2. x \in Nat /\ x + PageSize - 1 <= SizeMax
    BY <1>1, <1>4 DEF KMetaDataSize
  <2>3. size = RoundUp(x, PageSize)
    BY DEF KAshmemSizePageAligned
  <2> HIDE DEF x, size
  <2> QED
    BY <1>1, <2>1, <2>2, <2>3, RoundUpFacts
<1> HIDE DEF g, size, ring
<1>12. \A pos \in DOMAIN g :
         g[pos].offset + g[pos].extent <= IF supplied /\ pos = DATAPTRPOS THEN bytes ELSE size
  BY <1>1, <1>7, <1>8, <1>9, <1>10, <1>11 DEF DATAPTRPOS
<1>13. \A pos, other \in DOMAIN g :
         pos < other /\ g[pos].fdIndex = g[other].fdIndex => g[pos].offset + g[pos].extent <= g[other].offset
  BY <1>1, <1>7, <1>8, <1>10, <1>11
<1> QED
  BY <1>12, <1>13 DEF g, size

=============================================================================
