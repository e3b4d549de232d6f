------------------------ MODULE QueueLifecycle_proofs ------------------------
(***************************************************************************)
(* QueueLifecycle, for any number of queue objects, any address space, any *)
(* limit on file descriptors and any set of queues asked for.              *)
(***************************************************************************)
EXTENDS QueueLifecycle, AidlDescriptor_proofs, WellFoundedInduction

\* Some client asks for a queue with an event flag.
FlagsAsked == \E setup \in Setups : setup.evFlag

\* The error path of initMemory unmaps the ring with the length of the flag's
\* grantor.  That unmaps other pages when the length is not the flag's.
FlagExtentKept ==
  FlagsAsked => \A change \in Changes : change.pos = EVFLAGWORDPOS => change.field # "extent"

-----------------------------------------------------------------------------
(* The inductive invariant *)

Files == [id : 0 .. NumFiles, size : Nat]

DescType == [grantors : Vectors(Unsigned), handle : [null : BOOLEAN, fds : Handles(Files)],
             quantum : Nat, flags : Nat]

ParcelType == [grantors : Vectors(Signed), fds : Handles(Files), quantum : Int, flags : Int]

QueueType == [stage : {"absent", "mapping", "done"}, next : Positions(TRUE), kind : Kinds,
              flavor : Flavors, sizeofT : Nat \ {0}, resets : BOOLEAN, desc : DescType,
              temp : Handles(Files), ptr : [Positions(TRUE) -> Nat \cup {Heap}],
              eventFlag : BOOLEAN]

PageType == [file : Files, page : Int, writable : BOOLEAN]

OriginType == {"genuine", "failed", "malformed"}

Types ==
  /\ space \in [Pages -> PageType]
  /\ queue \in [Queues -> QueueType]
  /\ hidl \in DescType /\ (hidl = NoDescriptor \/ hidl.flags \in Flavors)
  /\ parcel \in ParcelType
  /\ origin \in [Queues \cup Kinds -> OriginType]

LastOf(object) ==
  IF Count(object.desc.grantors) > EVFLAGWORDPOS THEN EVFLAGWORDPOS ELSE DATAPTRPOS

\* The pointers of a queue object are set in the order of its grantors.
InOrder(object) ==
  /\ object.stage = "absent" => object = NoQueue
  /\ object.stage = "done" => object.temp = NoFds
  /\ object.stage = "mapping" =>
       /\ Maps(object.desc, object.sizeofT)
       /\ object.next <= LastOf(object)
       /\ \A pos \in Positions(TRUE) : object.ptr[pos] # Nullptr <=> pos < object.next
       /\ object.eventFlag = FALSE
  /\ object.stage = "done" =>
       \/ object.ptr = NoPtrs
       \/ /\ Maps(object.desc, object.sizeofT)
          /\ \A pos \in Positions(TRUE) : object.ptr[pos] # Nullptr <=> pos <= LastOf(object)
  /\ \A pos \in Positions(TRUE) : object.ptr[pos] = Heap => pos = READPTRPOS
  /\ object.eventFlag = TRUE => IsPointer(object.ptr[EVFLAGWORDPOS])
  /\ object.kind = "hidl" => object.desc.flags \in Flavors

Progress == \A q \in Queues : InOrder(queue[q])

FdInv ==
  /\ IsFiniteSet(FdsKept)
  /\ opened = Cardinality(FdsKept)
  /\ opened <= FdLimit

BaseInv == Types /\ Progress /\ FdInv

\* What the flag's grantor keeps on the way of a descriptor.
FlagFits(grantors) ==
  EVFLAGWORDPOS \in DOMAIN grantors => FlagsAsked /\ grantors[EVFLAGWORDPOS].extent = FlagSize

FlagInv ==
  /\ \A q \in Queues : ~queue[q].desc.handle.null => FlagFits(Grantors(q))
  /\ FlagFits(hidl.grantors)
  /\ FlagFits(parcel.grantors)

Mapped(q, pos) ==
  /\ CanMap(Grantors(q), Count(Fds(q)), pos)
  /\ FileOf(q, pos) # Bad
  /\ MapLength(Grantors(q)[pos]) > 0
  /\ Reaches(q, pos)

MapInv(q) == \A pos \in Positions(TRUE) : IsPointer(queue[q].ptr[pos]) => Mapped(q, pos)

Apart ==
  \A q, r \in Queues, pos, other \in Positions(TRUE) :
    q # r \/ pos # other => PagesAt(q, pos) \cap PagesAt(r, other) = {}

MapsApart == (\A q \in Queues : MapInv(q)) /\ Apart

SpaceInv == BaseInv /\ FlagInv /\ MapsApart

-----------------------------------------------------------------------------
(* Counting file descriptors *)

Tagged(tag, x, fds) == {<<tag, x, i>> : i \in OpenIn(fds)}

LEMMA TaggedParts ==
  ASSUME NEW tag, NEW x, NEW fds, NEW t \in Tagged(tag, x, fds)
  PROVE  t[1] = tag /\ t[2] = x
<1>1. PICK i \in OpenIn(fds) : t = <<tag, x, i>>
  BY DEF Tagged
<1> QED
  BY <1>1

LEMMA TaggedCount ==
  ASSUME NEW tag, NEW x, NEW fds \in Handles(Files)
  PROVE  IsFiniteSet(Tagged(tag, x, fds)) /\ Cardinality(Tagged(tag, x, fds)) = OpenFds(fds)
<1> DEFINE S == OpenIn(fds)
           T == Tagged(tag, x, fds)
           f == [i \in S |-> <<tag, x, i>>]
<1>1. IsFiniteSet(S)
  BY HandleFacts
<1>2. f \in [S -> T] /\ \A i \in S : f[i] = <<tag, x, i>>
  BY DEF Tagged
<1>3. \A a, b \in S : f[a] = f[b] => a = b
  BY <1>2
<1>4. \A t \in T : \E i \in S : f[i] = t
  BY <1>2 DEF Tagged
<1>5. f \in Bijection(S, T)
  BY <1>2, <1>3, <1>4 DEF Bijection, Injection, Surjection, IsInjective
<1>6. ExistsBijection(S, T)
  BY <1>5 DEF ExistsBijection
<1> HIDE DEF S, T, f
<1>7. IsFiniteSet(T) /\ Cardinality(T) = Cardinality(S)
  BY <1>1, <1>6, FS_Bijection
<1> QED
  BY <1>7 DEF S, T, OpenFds

\* Replacing a part of a finite set by another.
LEMMA Exchange ==
  ASSUME NEW all, IsFiniteSet(all), NEW out, out \subseteq all,
         NEW in, IsFiniteSet(in), in \cap (all \ out) = {}
  PROVE  /\ IsFiniteSet((all \ out) \cup in)
         /\ Cardinality((all \ out) \cup in) = Cardinality(all) - Cardinality(out) + Cardinality(in)
         /\ Cardinality(all) \in Nat /\ Cardinality(out) \in Nat /\ Cardinality(in) \in Nat
<1> DEFINE rest == all \ out
<1>1. IsFiniteSet(out) /\ out = all \cap out /\ in \cap rest = {} /\ rest \cap in = {}
  BY FS_Subset
<1>2. IsFiniteSet(rest) /\ Cardinality(rest) = Cardinality(all) - Cardinality(all \cap out)
  BY FS_Difference
<1> HIDE DEF rest
<1>3. /\ IsFiniteSet(rest \cup in)
      /\ Cardinality(rest \cup in) = Cardinality(rest) + Cardinality(in) - Cardinality(rest \cap in)
  BY <1>2, FS_Union
<1>4. Cardinality(rest \cap in) = 0
  BY <1>1, FS_EmptySet
<1>5. Cardinality(all) \in Nat /\ Cardinality(out) \in Nat /\ Cardinality(in) \in Nat
      /\ Cardinality(rest) \in Nat
  BY <1>1, <1>2, FS_CardinalityType
<1>6. Cardinality(rest) = Cardinality(all) - Cardinality(out)
  BY <1>1, <1>2
<1> QED
  BY <1>3, <1>4, <1>5, <1>6 DEF rest

LEMMA DisjointUnion ==
  ASSUME NEW S, IsFiniteSet(S), NEW T, IsFiniteSet(T), S \cap T = {}
  PROVE  IsFiniteSet(S \cup T) /\ Cardinality(S \cup T) = Cardinality(S) + Cardinality(T)
<1>1. /\ IsFiniteSet(S \cup T)
      /\ Cardinality(S \cup T) = Cardinality(S) + Cardinality(T) - Cardinality(S \cap T)
  BY FS_Union
<1>2. Cardinality(S \cap T) = 0 /\ Cardinality(S) \in Nat /\ Cardinality(T) \in Nat
  BY FS_EmptySet, FS_CardinalityType
<1> QED
  BY <1>1, <1>2

OfQueue(q) == Tagged("queue", q, Fds(q)) \cup Tagged("shim", q, queue[q].temp)

LEMMA OfQueueParts ==
  /\ \A q \in Queues : \A t \in OfQueue(q) : t[1] \in {"queue", "shim"} /\ t[2] = q
  /\ \A q \in Queues : \A t \in OfQueue(q)' : t[1] \in {"queue", "shim"} /\ t[2] = q
<1>1. ASSUME NEW q \in Queues, NEW t \in OfQueue(q)
      PROVE  t[1] \in {"queue", "shim"} /\ t[2] = q
  BY TaggedParts DEF OfQueue
<1>2. ASSUME NEW q \in Queues, NEW t \in OfQueue(q)'
      PROVE  t[1] \in {"queue", "shim"} /\ t[2] = q
  <2>1. t \in Tagged("queue", q, Fds(q)') \/ t \in Tagged("shim", q, queue'[q].temp)
    BY DEF OfQueue, Tagged
  <2> QED
    BY <2>1, TaggedParts
<1> QED
  BY <1>1, <1>2

LEMMA KeptInParts ==
  /\ FdsKept = (UNION {OfQueue(r) : r \in Queues}) \cup Tagged("hidl", "hidl", hidl.handle.fds)
                 \cup Tagged("aidl", "aidl", parcel.fds)
  /\ FdsKept' = (UNION {OfQueue(r)' : r \in Queues}) \cup Tagged("hidl", "hidl", hidl'.handle.fds)
                 \cup Tagged("aidl", "aidl", parcel'.fds)
BY DEF FdsKept, OfQueue, Tagged

LEMMA OfQueueCount ==
  ASSUME NEW q, Fds(q) \in Handles(Files), queue[q].temp \in Handles(Files)
  PROVE  /\ IsFiniteSet(OfQueue(q))
         /\ Cardinality(OfQueue(q)) = OpenFds(Fds(q)) + OpenFds(queue[q].temp)
<1> DEFINE S == Tagged("queue", q, Fds(q))
           T == Tagged("shim", q, queue[q].temp)
<1>1. /\ IsFiniteSet(S) /\ Cardinality(S) = OpenFds(Fds(q))
      /\ IsFiniteSet(T) /\ Cardinality(T) = OpenFds(queue[q].temp)
  BY TaggedCount
<1>2. S \cap T = {}
  BY TaggedParts
<1> HIDE DEF S, T
<1>3. IsFiniteSet(S \cup T) /\ Cardinality(S \cup T) = Cardinality(S) + Cardinality(T)
  BY <1>1, <1>2, DisjointUnion
<1> QED
  BY <1>1, <1>3 DEF S, T, OfQueue

\* A step that changes the descriptors of one queue.
LEMMA CountQueue ==
  ASSUME FdInv, NEW q \in Queues, Fds(q) \in Handles(Files), queue[q].temp \in Handles(Files),
         Fds(q)' \in Handles(Files), queue'[q].temp \in Handles(Files),
         \A r \in Queues \ {q} : queue'[r] = queue[r], UNCHANGED <<hidl, parcel>>
  PROVE  /\ IsFiniteSet(FdsKept')
         /\ Cardinality(FdsKept') = Cardinality(FdsKept)
              - (OpenFds(Fds(q)) + OpenFds(queue[q].temp))
              + (OpenFds(Fds(q)') + OpenFds(queue'[q].temp))
         /\ Cardinality(FdsKept) \in Nat
<1>1. IsFiniteSet(OfQueue(q)) /\ Cardinality(OfQueue(q)) = OpenFds(Fds(q)) + OpenFds(queue[q].temp)
  BY OfQueueCount
<1>2. /\ IsFiniteSet(OfQueue(q)')
      /\ Cardinality(OfQueue(q)') = OpenFds(Fds(q)') + OpenFds(queue'[q].temp)
  <2> DEFINE S == Tagged("queue", q, Fds(q)')
             T == Tagged("shim", q, queue'[q].temp)
  <2>1. /\ IsFiniteSet(S) /\ Cardinality(S) = OpenFds(Fds(q)')
        /\ IsFiniteSet(T) /\ Cardinality(T) = OpenFds(queue'[q].temp)
    BY TaggedCount
  <2>2. S \cap T = {}
    BY TaggedParts
  <2>3. OfQueue(q)' = S \cup T
    BY DEF OfQueue, Tagged
  <2> HIDE DEF S, T
  <2>4. IsFiniteSet(S \cup T) /\ Cardinality(S \cup T) = Cardinality(S) + Cardinality(T)
    BY <2>1, <2>2, DisjointUnion
  <2> QED
    BY <2>1, <2>3, <2>4
<1>3. FdsKept = (UNION {OfQueue(r) : r \in Queues}) \cup Tagged("hidl", "hidl", hidl.handle.fds)
                \cup Tagged("aidl", "aidl", parcel.fds)
  BY KeptInParts
<1>4. FdsKept' = (UNION {OfQueue(r)' : r \in Queues}) \cup Tagged("hidl", "hidl", hidl.handle.fds)
                 \cup Tagged("aidl", "aidl", parcel.fds)
  BY KeptInParts
<1>5. \A r \in Queues \ {q} : OfQueue(r)' = OfQueue(r)
  BY DEF OfQueue, Fds, Tagged
<1>6. /\ OfQueue(q) \subseteq FdsKept
      /\ OfQueue(q)' \cap (FdsKept \ OfQueue(q)) = {}
      /\ FdsKept' = (FdsKept \ OfQueue(q)) \cup OfQueue(q)'
  <2> DEFINE others == Tagged("hidl", "hidl", hidl.handle.fds) \cup Tagged("aidl", "aidl", parcel.fds)
  <2>1. \A t \in others : t[1] \notin {"queue", "shim"}
    BY TaggedParts
  <2>2. FdsKept = (UNION {OfQueue(r) : r \in Queues}) \cup others
        /\ FdsKept' = (UNION {OfQueue(r)' : r \in Queues}) \cup others
    BY <1>3, <1>4
  <2> HIDE DEF others
  <2>3. \A t \in OfQueue(q)' : t \notin FdsKept \ OfQueue(q)
    BY <2>1, <2>2, OfQueueParts
  <2>4. \A t \in OfQueue(q) : t \in FdsKept
    BY <2>2
  <2>5. \A t \in FdsKept' : t \in (FdsKept \ OfQueue(q)) \cup OfQueue(q)'
    BY <1>5, <2>1, <2>2, OfQueueParts
  <2>6. \A t \in (FdsKept \ OfQueue(q)) \cup OfQueue(q)' : t \in FdsKept'
    BY <1>5, <2>2
  <2> QED
    BY <2>3, <2>4, <2>5, <2>6
<1>7. /\ IsFiniteSet((FdsKept \ OfQueue(q)) \cup OfQueue(q)')
      /\ Cardinality((FdsKept \ OfQueue(q)) \cup OfQueue(q)')
           = Cardinality(FdsKept) - Cardinality(OfQueue(q)) + Cardinality(OfQueue(q)')
      /\ Cardinality(FdsKept) \in Nat
  BY <1>2, <1>6, Exchange DEF FdInv
<1> QED
  BY <1>1, <1>2, <1>6, <1>7

\* A step that changes the descriptors of a description under way.
LEMMA CountHidl ==
  ASSUME FdInv, hidl.handle.fds \in Handles(Files), hidl'.handle.fds \in Handles(Files),
         UNCHANGED <<queue, parcel>>
  PROVE  /\ IsFiniteSet(FdsKept')
         /\ Cardinality(FdsKept') =
              Cardinality(FdsKept) - OpenFds(hidl.handle.fds) + OpenFds(hidl'.handle.fds)
         /\ Cardinality(FdsKept) \in Nat
<1> DEFINE S == Tagged("hidl", "hidl", hidl.handle.fds)
           T == Tagged("hidl", "hidl", hidl'.handle.fds)
           rest == (UNION {OfQueue(r) : r \in Queues}) \cup Tagged("aidl", "aidl", parcel.fds)
<1>1. /\ IsFiniteSet(S) /\ Cardinality(S) = OpenFds(hidl.handle.fds)
      /\ IsFiniteSet(T) /\ Cardinality(T) = OpenFds(hidl'.handle.fds)
  BY TaggedCount
<1>2. FdsKept = rest \cup S /\ FdsKept' = rest \cup T
  <2>1. \A q \in Queues : OfQueue(q)' = OfQueue(q)
    BY DEF OfQueue, Fds, Tagged
  <2> QED
    BY <2>1, KeptInParts
<1>3. rest \cap S = {} /\ rest \cap T = {}
  <2>1. ASSUME NEW t \in rest  PROVE t[1] # "hidl"
    <3>1. CASE \E q \in Queues : t \in OfQueue(q)
      BY <3>1, OfQueueParts
    <3>2. CASE t \in Tagged("aidl", "aidl", parcel.fds)
      BY <3>2, TaggedParts
    <3> QED
      BY <3>1, <3>2
  <2>2. (\A t \in S : t[1] = "hidl") /\ (\A t \in T : t[1] = "hidl")
    BY TaggedParts, Zenon
  <2> QED
    BY <2>1, <2>2
<1> HIDE DEF S, T, rest
<1>4. S \subseteq FdsKept /\ T \cap (FdsKept \ S) = {} /\ FdsKept' = (FdsKept \ S) \cup T
  BY <1>2, <1>3
<1> QED
  BY <1>1, <1>4, Exchange DEF FdInv

LEMMA CountParcel ==
  ASSUME FdInv, parcel.fds \in Handles(Files), parcel'.fds \in Handles(Files),
         UNCHANGED <<queue, hidl>>
  PROVE  /\ IsFiniteSet(FdsKept')
         /\ Cardinality(FdsKept') = Cardinality(FdsKept) - OpenFds(parcel.fds) + OpenFds(parcel'.fds)
         /\ Cardinality(FdsKept) \in Nat
<1> DEFINE S == Tagged("aidl", "aidl", parcel.fds)
           T == Tagged("aidl", "aidl", parcel'.fds)
           rest == (UNION {OfQueue(r) : r \in Queues}) \cup Tagged("hidl", "hidl", hidl.handle.fds)
<1>1. /\ IsFiniteSet(S) /\ Cardinality(S) = OpenFds(parcel.fds)
      /\ IsFiniteSet(T) /\ Cardinality(T) = OpenFds(parcel'.fds)
  BY TaggedCount
<1>2. FdsKept = rest \cup S /\ FdsKept' = rest \cup T
  <2>1. \A q \in Queues : OfQueue(q)' = OfQueue(q)
    BY DEF OfQueue, Fds, Tagged
  <2> QED
    BY <2>1, KeptInParts
<1>3. rest \cap S = {} /\ rest \cap T = {}
  <2>1. ASSUME NEW t \in rest  PROVE t[1] # "aidl"
    <3>1. CASE \E q \in Queues : t \in OfQueue(q)
      BY <3>1, OfQueueParts
    <3>2. CASE t \in Tagged("hidl", "hidl", hidl.handle.fds)
      BY <3>2, TaggedParts
    <3> QED
      BY <3>1, <3>2
  <2>2. (\A t \in S : t[1] = "aidl") /\ (\A t \in T : t[1] = "aidl")
    BY TaggedParts, Zenon
  <2> QED
    BY <2>1, <2>2
<1> HIDE DEF S, T, rest
<1>4. S \subseteq FdsKept /\ T \cap (FdsKept \ S) = {} /\ FdsKept' = (FdsKept \ S) \cup T
  BY <1>2, <1>3
<1> QED
  BY <1>1, <1>4, Exchange DEF FdInv

(***************************************************************************)
(* What is made of a descriptor on its way.                                *)
(***************************************************************************)

LEMMA LeastNatural ==
  ASSUME NEW S \in SUBSET Nat, S # {}
  PROVE  \E x \in S : \A y \in S : x <= y
<1> DEFINE R == OpToRel(<, Nat)
<1>1. IsWellFoundedOn(R, Nat)
  BY NatLessThanWellFounded
<1>2. \A x, y \in Nat : x < y => <<x, y>> \in R
  BY DEF OpToRel
<1> HIDE DEF R
<1>3. PICK x \in S : \A y \in S : ~ (<<y, x>> \in R)
  BY <1>1, WFMin
<1>4. ASSUME NEW y \in S  PROVE x <= y
  <2>1. x \in Nat /\ y \in Nat /\ ~(y < x)
    BY <1>2, <1>3
  <2> QED
    BY <2>1
<1> QED
  BY <1>4

LEMMA BoundFacts ==
  /\ MaxMade \in Nat /\ NumPages \in Nat /\ FdLimit \in Nat /\ NumFiles \in Nat
  /\ BufferBytes \in Nat
  /\ \A setup \in Setups :
       /\ setup.kind \in Kinds /\ setup.flavor \in Flavors /\ setup.n \in Nat
       /\ setup.sizeofT \in Nat \ {0} /\ setup.evFlag \in BOOLEAN /\ setup.supplied \in BOOLEAN
  /\ AttachSizes \subseteq Nat \ {0}
<1>1. MaxMade \in Nat /\ NumPages \in Nat /\ FdLimit \in Nat /\ NumFiles \in Nat
      /\ BufferBytes \in Nat
  BY LifecycleAssumption
<1>2. ASSUME NEW setup \in Setups
      PROVE  /\ setup.kind \in Kinds /\ setup.flavor \in Flavors /\ setup.n \in Nat
             /\ setup.sizeofT \in Nat \ {0} /\ setup.evFlag \in BOOLEAN /\ setup.supplied \in BOOLEAN
  BY LifecycleAssumption DEF Kinds
<1> QED
  BY <1>1, <1>2, LifecycleAssumption

LEMMA BadFile == Bad \in Files /\ NoFds \in Handles(Files) /\ OpenFds(NoFds) = 0
BY BoundFacts, NothingOpen DEF Bad, File, Files

LEMMA NothingTyped == NoDescriptor \in DescType /\ EmptyParcel \in ParcelType /\ NoQueue \in QueueType
<1>1. NoGrantors \in Vectors(Unsigned) /\ NoGrantors \in Vectors(Signed) /\ NoFds \in Handles(Files)
  BY NothingOpen
<1>2. NoDescriptor \in DescType
  BY <1>1 DEF NoDescriptor, Descriptor, DescType, NullHandle
<1>3. EmptyParcel \in ParcelType
  BY <1>1 DEF EmptyParcel, Parcel, ParcelType
<1>4. NoPtrs \in [Positions(TRUE) -> Nat \cup {Heap}] /\ READPTRPOS \in Positions(TRUE)
  BY DEF NoPtrs, Nullptr, Positions, READPTRPOS, EVFLAGWORDPOS
<1>5. kSynchronizedReadWrite \in Flavors /\ "aidl" \in Kinds /\ 1 \in Nat \ {0}
  BY DEF Flavors, Kinds
<1>6. NoQueue \in QueueType
  BY <1>1, <1>2, <1>4, <1>5 DEF NoQueue, QueueType
<1> QED
  BY <1>2, <1>3, <1>6

LEMMA DescriptorType ==
  ASSUME NEW g \in Vectors(Unsigned), NEW null \in BOOLEAN, NEW fds \in Handles(Files),
         NEW quantum \in Nat, NEW flags \in Nat
  PROVE  LET desc == Descriptor(g, [null |-> null, fds |-> fds], quantum, flags)
         IN  /\ desc \in DescType
             /\ desc.grantors = g /\ desc.handle.null = null /\ desc.handle.fds = fds
             /\ desc.quantum = quantum /\ desc.flags = flags
BY DEF Descriptor, DescType

LEMMA CopyType ==
  ASSUME NEW desc \in DescType, NEW room \in Nat
  PROVE  LET copy == CopyDescriptor(desc, room)
         IN  /\ copy \in DescType
             /\ copy.handle.fds \in Handles(Files) /\ OpenFds(copy.handle.fds) \in 0 .. room
             /\ copy.grantors = desc.grantors /\ copy.quantum = desc.quantum
             /\ copy.flags = desc.flags /\ copy.handle.null = desc.handle.null
             /\ ~desc.handle.null => copy.handle.fds = Dup(desc.handle.fds, room)
<1> DEFINE copy == CopyDescriptor(desc, room)
           fds == Dup(desc.handle.fds, room)
<1>1. desc.handle.fds \in Handles(Files) /\ desc.handle.null \in BOOLEAN
  BY DEF DescType
<1>2. fds \in Handles(Files) /\ OpenFds(fds) <= room
  BY <1>1, BadFile, DupFacts
<1>3. OpenFds(fds) \in Nat
  BY <1>2, HandleFacts
<1> HIDE DEF fds
<1> DEFINE null == desc.handle.null
           kept == IF null THEN NoFds ELSE fds
           result == Descriptor(desc.grantors, [null |-> null, fds |-> kept], desc.quantum, desc.flags)
<1>4. /\ desc.grantors \in Vectors(Unsigned) /\ desc.quantum \in Nat /\ desc.flags \in Nat
      /\ desc = [grantors |-> desc.grantors, handle |-> desc.handle, quantum |-> desc.quantum,
                 flags |-> desc.flags]
  BY DEF DescType
<1>5. kept \in Handles(Files) /\ OpenFds(kept) \in 0 .. room
  BY <1>2, <1>3, BadFile
<1>6. copy = result
  <2>1. CASE null
    <3>1. null = TRUE /\ kept = NoFds
      BY <1>1, <2>1
    <3>2. copy = [desc EXCEPT !.handle = [null |-> TRUE, fds |-> NoFds]]
      BY <3>1 DEF CopyDescriptor, NullHandle
    <3> HIDE DEF kept, null, copy
    <3> QED
      BY <1>4, <3>1, <3>2 DEF Descriptor
  <2>2. CASE ~null
    <3>1. null = FALSE /\ kept = fds
      BY <1>1, <2>2
    <3>2. copy = [desc EXCEPT !.handle = [null |-> FALSE, fds |-> fds]]
      BY <3>1 DEF CopyDescriptor, NativeHandle, fds
    <3> HIDE DEF kept, null, copy
    <3> QED
      BY <1>4, <3>1, <3>2 DEF Descriptor
  <2> QED
    BY <2>1, <2>2
<1>7. ~null => kept = fds
  OBVIOUS
<1> HIDE DEF kept
<1>8. /\ result \in DescType
      /\ result.grantors = desc.grantors /\ result.handle.null = null /\ result.handle.fds = kept
      /\ result.quantum = desc.quantum /\ result.flags = desc.flags
  BY <1>1, <1>4, <1>5, DescriptorType
<1> HIDE DEF result
<1> QED
  BY <1>5, <1>6, <1>7, <1>8 DEF fds

LEMMA ShimType ==
  ASSUME NEW p \in ParcelType, NEW room \in Nat
  PROVE  LET shim == Shim(p, room)
         IN  /\ shim \in DescType
             /\ shim.handle.fds \in Handles(Files) /\ OpenFds(shim.handle.fds) \in 0 .. room
             /\ shim.grantors = ShimGrantors(p)
             /\ shim.quantum = ToUint32(p.quantum) /\ shim.flags = ToUint32(p.flags)
             /\ shim.handle.null = ShimRejects(p)
             /\ ~ShimRejects(p) => shim.handle.fds = Dup(p.fds, room)
<1> DEFINE shim == Shim(p, room)
           fds == Dup(p.fds, room)
<1>1. p.fds \in Handles(Files) /\ p.grantors \in Vectors(Signed) /\ p.quantum \in Int /\ p.flags \in Int
  BY DEF ParcelType
<1>2. fds \in Handles(Files) /\ OpenFds(fds) <= room
  BY <1>1, BadFile, DupFacts
<1>3. OpenFds(fds) \in Nat
  BY <1>2, HandleFacts
<1>4. ShimGrantors(p) \in Vectors(Unsigned)
  BY <1>1, ShimFacts
<1>5. ToUint32(p.quantum) \in Nat /\ ToUint32(p.flags) \in Nat
  BY <1>1, UnsignedCasts, LayoutFacts
<1>6. ShimRejects(p) \in BOOLEAN
  BY DEF ShimRejects
<1> HIDE DEF fds
<1> DEFINE null == ShimRejects(p)
           kept == IF null THEN NoFds ELSE fds
           result == Descriptor(ShimGrantors(p), [null |-> null, fds |-> kept],
                                ToUint32(p.quantum), ToUint32(p.flags))
<1>7. kept \in Handles(Files) /\ OpenFds(kept) \in 0 .. room
  BY <1>2, <1>3, BadFile
<1>8. shim = result
  <2>1. CASE null
    <3>1. null = TRUE /\ kept = NoFds
      BY <1>6, <2>1
    <3> HIDE DEF kept
    <3> QED
      BY <3>1 DEF Shim, NullHandle
  <2>2. CASE ~null
    <3>1. null = FALSE /\ kept = fds
      BY <1>6, <2>2
    <3> HIDE DEF kept
    <3> QED
      BY <3>1 DEF Shim, NativeHandle, fds
  <2> QED
    BY <2>1, <2>2
<1>9. ~null => kept = fds
  OBVIOUS
<1> HIDE DEF kept
<1>10. /\ result \in DescType
       /\ result.grantors = ShimGrantors(p) /\ result.handle.null = null /\ result.handle.fds = kept
       /\ result.quantum = ToUint32(p.quantum) /\ result.flags = ToUint32(p.flags)
  BY <1>4, <1>5, <1>6, <1>7, DescriptorType
<1> HIDE DEF result
<1> QED
  BY <1>7, <1>8, <1>9, <1>10 DEF fds

LEMMA DupedType ==
  ASSUME NEW desc \in DescType, NEW room \in Nat
  PROVE  LET p == DupedDesc(desc, room)
         IN  /\ p \in ParcelType
             /\ p.fds = Dup(desc.handle.fds, room) /\ p.fds \in Handles(Files)
             /\ OpenFds(p.fds) \in 0 .. room
             /\ p.grantors = [i \in DOMAIN desc.grantors |-> ToAidl(desc.grantors[i])]
             /\ p.quantum = ToInt32(desc.quantum) /\ p.flags = ToInt32(desc.flags)
<1> DEFINE fds == Dup(desc.handle.fds, room)
           grantors == [i \in DOMAIN desc.grantors |-> ToAidl(desc.grantors[i])]
<1>1. /\ desc.handle.fds \in Handles(Files) /\ desc.grantors \in Vectors(Unsigned)
      /\ desc.quantum \in Int /\ desc.flags \in Int
  BY DEF DescType
<1>2. fds \in Handles(Files) /\ OpenFds(fds) <= room
  BY <1>1, BadFile, DupFacts
<1>3. OpenFds(fds) \in Nat
  BY <1>2, HandleFacts
<1>4. grantors \in Vectors(Signed)
  <2>1. PICK m \in 0 .. 4 : desc.grantors \in [0 .. m - 1 -> Unsigned]
    BY <1>1 DEF Vectors
  <2>2. grantors \in [0 .. m - 1 -> Signed]
    BY <2>1, AidlRoundTrip
  <2> QED
    BY <2>2 DEF Vectors
<1>5. ToInt32(desc.quantum) \in Int /\ ToInt32(desc.flags) \in Int
  BY <1>1, Int32Cast
<1>6. DupedDesc(desc, room) = Parcel(grantors, fds, ToInt32(desc.quantum), ToInt32(desc.flags))
  BY DEF DupedDesc
<1> HIDE DEF fds, grantors
<1>7. /\ DupedDesc(desc, room) \in ParcelType
      /\ DupedDesc(desc, room).fds = fds /\ DupedDesc(desc, room).grantors = grantors
      /\ DupedDesc(desc, room).quantum = ToInt32(desc.quantum)
      /\ DupedDesc(desc, room).flags = ToInt32(desc.flags)
  BY <1>2, <1>4, <1>5, <1>6 DEF Parcel, ParcelType
<1> QED
  BY <1>2, <1>3, <1>7 DEF fds, grantors

LEMMA ConvertedType ==
  ASSUME NEW desc \in DescType, NEW flavor, NEW room \in Nat
  PROVE  LET p == ConvertedParcel(desc, flavor, room)
         IN  /\ p \in ParcelType
             /\ p.fds \in Handles(Files) /\ OpenFds(p.fds) \in 0 .. room
             /\ p.grantors = Appended(desc)
             /\ p.quantum = IF Converts(desc, flavor) THEN ToInt32(desc.quantum) ELSE 0
             /\ p.flags = IF Converts(desc, flavor) THEN ToInt32(desc.flags) ELSE 0
             /\ AllAppended(desc) => p.fds = Dup(desc.handle.fds, room)
<1> DEFINE copies == Dup(desc.handle.fds, room)
           fds == IF AllAppended(desc) THEN copies ELSE NoFds
           quantum == IF Converts(desc, flavor) THEN ToInt32(desc.quantum) ELSE 0
           flags == IF Converts(desc, flavor) THEN ToInt32(desc.flags) ELSE 0
<1>1. /\ desc.handle.fds \in Handles(Files) /\ desc.grantors \in Vectors(Unsigned)
      /\ desc.quantum \in Int /\ desc.flags \in Int
  BY DEF DescType
<1>2. copies \in Handles(Files) /\ OpenFds(copies) <= room
  BY <1>1, BadFile, DupFacts
<1>3. OpenFds(copies) \in Nat
  BY <1>2, HandleFacts
<1>4. Appended(desc) \in Vectors(Signed)
  BY <1>1, AppendedFacts
<1>5. quantum \in Int /\ flags \in Int
  BY <1>1, Int32Cast
<1>6. ConvertedParcel(desc, flavor, room) = Parcel(Appended(desc), fds, quantum, flags)
  BY DEF ConvertedParcel
<1> HIDE DEF copies, quantum, flags
<1>7. fds \in Handles(Files) /\ OpenFds(fds) \in 0 .. room
  BY <1>2, <1>3, BadFile
<1> HIDE DEF fds
<1>8. /\ ConvertedParcel(desc, flavor, room) \in ParcelType
      /\ ConvertedParcel(desc, flavor, room).fds = fds
      /\ ConvertedParcel(desc, flavor, room).grantors = Appended(desc)
      /\ ConvertedParcel(desc, flavor, room).quantum = quantum
      /\ ConvertedParcel(desc, flavor, room).flags = flags
  BY <1>4, <1>5, <1>6, <1>7 DEF Parcel, ParcelType
<1> QED
  BY <1>7, <1>8 DEF fds, copies, quantum, flags

LEMMA MultipleFits ==
  ASSUME NEW n \in Nat, NEW s \in Nat \ {0}, n <= SizeMax \div s
  PROVE  n * s \in 0 .. SizeMax
<1> DEFINE d == SizeMax \div s
<1>1. SizeMax \in Nat
  BY LayoutFacts DEF SizeMax
<1>2. d \in Int /\ SizeMax = s * d + (SizeMax % s) /\ SizeMax % s \in 0 .. s - 1
  BY <1>1, Recombine
<1>3. n <= d
  OBVIOUS
<1> DEFINE r == SizeMax % s
<1> HIDE DEF d, r
<1>4. s * n <= s * d /\ s * n \in Nat /\ n * s = s * n
  BY <1>2, <1>3, Z3
<1>5. r \in Nat /\ SizeMax = s * d + r /\ s * d \in Int
  BY <1>2 DEF r
<1> QED
  BY <1>4, <1>5

LEMMA AshmemSize ==
  ASSUME NEW bytes \in Nat, NEW evFlag \in BOOLEAN, NEW supplied \in BOOLEAN
  PROVE  KAshmemSizePageAligned(bytes, evFlag, supplied) \in Nat
<1>1. ASSUME NEW x \in Int, NEW unit \in Nat \ {0}  PROVE RoundUp(x, unit) \in Nat
  <2>1. ToSize(x + unit - 1) \in Nat
    BY UnsignedCasts
  <2>2. ToSize(x + unit - 1) \div unit \in Nat
    BY <2>1, Recombine
  <2> QED
    BY <2>2 DEF RoundUp
<1>2. AlignToWordBoundary(bytes) \in Nat /\ KMetaDataSize(evFlag) \in Nat
  BY <1>1, LayoutFacts DEF AlignToWordBoundary, KMetaDataSize
<1>3. (IF supplied THEN 0 ELSE AlignToWordBoundary(bytes)) + KMetaDataSize(evFlag) \in Int
  BY <1>2
<1> QED
  BY <1>1, <1>3, LayoutFacts DEF KAshmemSizePageAligned

\* The descriptor that a constructor makes of its arguments.
LEMMA CreatedType ==
  ASSUME NEW setup \in Setups, ~RefusesToCreate(setup), NEW fds \in Handles(Files)
  PROVE  LET desc  == CreatedDescriptor(setup, fds)
             bytes == setup.n * setup.sizeofT
         IN  /\ bytes \in 0 .. SizeMax
             /\ desc \in DescType
             /\ desc.handle.null = FALSE /\ desc.handle.fds = fds
             /\ desc.quantum = setup.sizeofT /\ desc.flags = setup.flavor
             /\ desc.grantors \in {NoGrantors, LaidOut(bytes, setup.evFlag, setup.supplied)}
<1> DEFINE bytes == setup.n * setup.sizeofT
           laid == LaidOut(bytes, setup.evFlag, setup.supplied)
           desc == CreatedDescriptor(setup, fds)
           g == desc.grantors
<1>1. /\ setup.flavor \in Nat /\ setup.n \in Nat /\ setup.sizeofT \in Nat \ {0}
      /\ setup.evFlag \in BOOLEAN /\ setup.supplied \in BOOLEAN
  BY BoundFacts DEF Flavors, kSynchronizedReadWrite, kUnsynchronizedWrite
<1>2. setup.n <= SizeMax \div setup.sizeofT
  <2>1. SizeMax \div setup.sizeofT \in Int
    <3>1. SizeMax \in Int
      BY LayoutFacts DEF SizeMax
    <3> QED
      BY <1>1, <3>1, Recombine
  <2> QED
    BY <1>1, <2>1 DEF RefusesToCreate
<1>3. bytes \in 0 .. SizeMax
  BY <1>1, <1>2, MultipleFits
<1>4. laid \in Vectors(Unsigned)
  BY <1>1, <1>3, LaidOutFacts
<1>5. NoGrantors \in Vectors(Unsigned)
  BY NothingOpen
<1>6. desc = Descriptor(g, [null |-> FALSE, fds |-> fds], setup.sizeofT, setup.flavor)
      /\ g \in {NoGrantors, laid}
  BY <1>1 DEF CreatedDescriptor, Descriptor, NativeHandle, LaidOut
<1> DEFINE result == Descriptor(g, [null |-> FALSE, fds |-> fds], setup.sizeofT, setup.flavor)
<1> HIDE DEF desc, g, laid
<1>7. /\ result \in DescType
      /\ result.grantors = g /\ result.handle.null = FALSE /\ result.handle.fds = fds
      /\ result.quantum = setup.sizeofT /\ result.flags = setup.flavor
  <2>1. g \in Vectors(Unsigned) /\ FALSE \in BOOLEAN /\ setup.sizeofT \in Nat
    BY <1>1, <1>4, <1>5, <1>6
  <2> QED
    BY <1>1, <2>1 DEF Descriptor, DescType
<1> QED
  BY <1>3, <1>6, <1>7, Zenon DEF desc, g, laid

-----------------------------------------------------------------------------
(* The types, the order of construction and the count of descriptors *)

LEMMA BaseFacts ==
  ASSUME BaseInv
  PROVE  /\ Room \in Nat /\ opened \in 0 .. FdLimit
         /\ hidl \in DescType /\ parcel \in ParcelType
         /\ hidl.handle.fds \in Handles(Files) /\ parcel.fds \in Handles(Files)
         /\ \A q \in Queues :
              /\ queue[q] \in QueueType /\ queue[q].desc \in DescType
              /\ Grantors(q) \in Vectors(Unsigned)
              /\ Fds(q) \in Handles(Files) /\ queue[q].temp \in Handles(Files)
              /\ InOrder(queue[q])
<1>1. opened \in Nat /\ opened <= FdLimit
  BY FS_CardinalityType DEF BaseInv, FdInv
<1>2. hidl \in DescType /\ parcel \in ParcelType
  BY DEF BaseInv, Types
<1>3. hidl.handle.fds \in Handles(Files) /\ parcel.fds \in Handles(Files)
  BY <1>2 DEF DescType, ParcelType
<1>4. ASSUME NEW q \in Queues
      PROVE  /\ queue[q] \in QueueType /\ queue[q].desc \in DescType
             /\ Grantors(q) \in Vectors(Unsigned)
             /\ Fds(q) \in Handles(Files) /\ queue[q].temp \in Handles(Files)
             /\ InOrder(queue[q])
  <2>1. queue[q] \in QueueType /\ InOrder(queue[q])
    BY DEF BaseInv, Types, Progress
  <2>2. queue[q].desc \in DescType /\ queue[q].temp \in Handles(Files)
    BY <2>1 DEF QueueType
  <2> QED
    BY <2>1, <2>2 DEF DescType, Grantors, Fds
<1> QED
  BY <1>1, <1>2, <1>3, <1>4, BoundFacts DEF Room

\* A step that changes one queue object.
LEMMA QueueStep ==
  ASSUME BaseInv, NEW q \in Queues, NEW object \in QueueType, InOrder(object),
         queue' = [queue EXCEPT ![q] = object], UNCHANGED <<hidl, parcel>>,
         space' \in [Pages -> PageType], origin' \in [Queues \cup Kinds -> OriginType],
         opened' = opened - (OpenFds(Fds(q)) + OpenFds(queue[q].temp))
                     + (OpenFds(object.desc.handle.fds) + OpenFds(object.temp)),
         opened' <= FdLimit
  PROVE  BaseInv'
<1>1. queue \in [Queues -> QueueType]
  BY DEF BaseInv, Types
<1>2. /\ queue' \in [Queues -> QueueType] /\ queue'[q] = object
      /\ \A r \in Queues \ {q} : queue'[r] = queue[r]
  BY <1>1
<1>3. Types'
  BY <1>2 DEF BaseInv, Types
<1>4. Progress'
  BY <1>2 DEF BaseInv, Progress
<1>5. FdInv'
  <2>1. object.desc.handle.fds \in Handles(Files) /\ object.temp \in Handles(Files)
    BY DEF QueueType, DescType
  <2>2. /\ Fds(q)' = object.desc.handle.fds /\ queue'[q].temp = object.temp
    BY <1>2 DEF Fds
  <2>3. FdInv /\ Fds(q) \in Handles(Files) /\ queue[q].temp \in Handles(Files)
    BY BaseFacts DEF BaseInv
  <2>4. /\ IsFiniteSet(FdsKept')
        /\ Cardinality(FdsKept') = Cardinality(FdsKept)
             - (OpenFds(Fds(q)) + OpenFds(queue[q].temp))
             + (OpenFds(Fds(q)') + OpenFds(queue'[q].temp))
        /\ Cardinality(FdsKept) \in Nat
    BY <1>2, <2>1, <2>2, <2>3, CountQueue
  <2>5. Cardinality(FdsKept') = opened'
    BY <2>2, <2>3, <2>4 DEF FdInv
  <2> QED
    BY <2>4, <2>5 DEF FdInv
<1> QED
  BY <1>3, <1>4, <1>5 DEF BaseInv

Started(stage, kind, flavor, sizeofT, resets, desc, temp) ==
  [NoQueue EXCEPT !.stage = stage, !.kind = kind, !.flavor = flavor, !.sizeofT = sizeofT,
                  !.resets = resets, !.desc = desc, !.temp = temp]

Stages == {"absent", "mapping", "done"}

LEMMA StartedType ==
  ASSUME NEW stage \in Stages, NEW kind \in Kinds, NEW flavor \in Flavors,
         NEW sizeofT \in Nat \ {0}, NEW resets \in BOOLEAN, NEW desc \in DescType,
         NEW temp \in Handles(Files), NEW object,
         object = Started(stage, kind, flavor, sizeofT, resets, desc, temp)
  PROVE  /\ object \in QueueType
         /\ object.stage = stage
         /\ object.kind = kind /\ object.flavor = flavor /\ object.sizeofT = sizeofT
         /\ object.desc = desc /\ object.temp = temp
         /\ object.ptr = NoPtrs /\ object.next = READPTRPOS
             /\ object.eventFlag = NoQueue.eventFlag
<1>1. NoQueue \in QueueType /\ NoQueue.ptr = NoPtrs /\ NoQueue.next = READPTRPOS
  BY NothingTyped DEF NoQueue
<1>2. object \in QueueType
  BY <1>1 DEF QueueType, Started, Stages
<1>3. /\ object.stage = stage /\ object.kind = kind /\ object.flavor = flavor
      /\ object.sizeofT = sizeofT /\ object.desc = desc /\ object.temp = temp
      /\ object.ptr = NoQueue.ptr /\ object.next = NoQueue.next
      /\ object.eventFlag = NoQueue.eventFlag
  BY <1>1 DEF QueueType, Started
<1> QED
  BY <1>1, <1>2, <1>3

LEMMA EmptyHanded ==
  /\ QueueWithoutDescriptor \in QueueType /\ InOrder(QueueWithoutDescriptor)
  /\ InOrder(NoQueue)
  /\ QueueWithoutDescriptor.desc = NoDescriptor /\ QueueWithoutDescriptor.ptr = NoPtrs
  /\ QueueWithoutDescriptor.temp = NoFds /\ QueueWithoutDescriptor.stage = "done"
  /\ NoQueue.desc = NoDescriptor /\ NoQueue.ptr = NoPtrs /\ NoQueue.temp = NoFds
  /\ NoDescriptor.handle.fds = NoFds /\ NoDescriptor.handle.null = TRUE
  /\ NoDescriptor.grantors = NoGrantors /\ EmptyParcel.grantors = NoGrantors
  /\ EmptyParcel.fds = NoFds
<1>1. NoQueue \in QueueType
  BY NothingTyped
<1>2. QueueWithoutDescriptor \in QueueType
  BY <1>1 DEF QueueWithoutDescriptor, QueueType
<1>3. \A pos \in Positions(TRUE) : NoPtrs[pos] # Heap
  BY DEF NoPtrs, Nullptr, Heap
<1>4. /\ QueueWithoutDescriptor.stage = "done" /\ QueueWithoutDescriptor.temp = NoFds
      /\ QueueWithoutDescriptor.ptr = NoPtrs /\ QueueWithoutDescriptor.eventFlag = FALSE
      /\ QueueWithoutDescriptor.kind = "aidl" /\ QueueWithoutDescriptor.desc = NoDescriptor
  BY DEF QueueWithoutDescriptor, NoQueue
<1>5. InOrder(QueueWithoutDescriptor)
  BY <1>3, <1>4 DEF InOrder
<1>6. /\ NoQueue.stage = "absent" /\ NoQueue.temp = NoFds
      /\ NoQueue.ptr = NoPtrs /\ NoQueue.eventFlag = FALSE
      /\ NoQueue.kind = "aidl" /\ NoQueue.desc = NoDescriptor
  BY DEF NoQueue
<1>7. InOrder(NoQueue)
  BY <1>3, <1>6 DEF InOrder
<1> QED
  BY <1>2, <1>4, <1>5, <1>6, <1>7
     DEF NoDescriptor, Descriptor, NullHandle, EmptyParcel, Parcel

\* A constructor that has not mapped anything is in order.
LEMMA StartsInOrder ==
  ASSUME NEW object, object.stage # "absent",
         object.stage = "done" => object.temp = NoFds,
         object.stage = "mapping" => Maps(object.desc, object.sizeofT),
         object.ptr = NoPtrs, object.next = READPTRPOS,
         object.eventFlag = NoQueue.eventFlag,
         object.kind = "hidl" => object.desc.flags \in Flavors
  PROVE  InOrder(object)
<1>1. \A pos \in Positions(TRUE) : NoPtrs[pos] = Nullptr /\ Nullptr # Heap /\ pos >= READPTRPOS
                                   /\ ~(pos < READPTRPOS)
  BY DEF NoPtrs, Nullptr, Heap, Positions, READPTRPOS, EVFLAGWORDPOS
<1>2. object.eventFlag = FALSE
  BY DEF NoQueue
<1>3. READPTRPOS <= LastOf(object)
  BY DEF LastOf, READPTRPOS, DATAPTRPOS, EVFLAGWORDPOS
<1> QED
  BY <1>1, <1>2, <1>3 DEF InOrder

\* The constructor leaves q with this object, whose memory is yet to be mapped.
Installs(q, object) ==
  /\ object \in QueueType /\ InOrder(object) /\ object.ptr = NoPtrs
  /\ queue' = [queue EXCEPT ![q] = object]
  /\ UNCHANGED <<space, hidl, parcel>>
  /\ opened' = opened + (OpenFds(object.desc.handle.fds) + OpenFds(object.temp))
  /\ opened' <= FdLimit

LEMMA AbsentFacts ==
  ASSUME BaseInv, NEW q \in Queues, queue[q].stage = "absent"
  PROVE  /\ queue[q] = NoQueue /\ Fds(q) = NoFds /\ queue[q].temp = NoFds
         /\ OpenFds(Fds(q)) = 0 /\ OpenFds(queue[q].temp) = 0
<1>1. queue[q] = NoQueue
  BY BaseFacts DEF InOrder
<1> QED
  BY <1>1, BadFile, EmptyHanded DEF Fds

LEMMA InstallStep ==
  ASSUME BaseInv, NEW q \in Queues, queue[q].stage = "absent", NEW object, Installs(q, object),
         origin' \in [Queues \cup Kinds -> OriginType]
  PROVE  BaseInv'
<1>1. OpenFds(Fds(q)) = 0 /\ OpenFds(queue[q].temp) = 0
  BY AbsentFacts
<1>2. object.desc.handle.fds \in Handles(Files) /\ object.temp \in Handles(Files)
  BY DEF Installs, QueueType, DescType
<1>3. OpenFds(object.desc.handle.fds) \in Nat /\ OpenFds(object.temp) \in Nat /\ opened \in Nat
  BY <1>2, HandleFacts, BaseFacts
<1>4. opened' = opened - (OpenFds(Fds(q)) + OpenFds(queue[q].temp))
                  + (OpenFds(object.desc.handle.fds) + OpenFds(object.temp))
  BY <1>1, <1>3 DEF Installs
<1>5. space' \in [Pages -> PageType]
  BY DEF Installs, BaseInv, Types
<1> QED
  BY <1>4, <1>5, QueueStep DEF Installs

LEMMA InstallsNothing ==
  ASSUME BaseInv, NEW q \in Queues, queue' = [queue EXCEPT ![q] = QueueWithoutDescriptor],
         UNCHANGED <<space, opened, hidl, parcel>>
  PROVE  Installs(q, QueueWithoutDescriptor)
<1>1. opened' = opened + (0 + 0) /\ opened' <= FdLimit
  BY BaseFacts
<1> QED
  BY <1>1, EmptyHanded, BadFile DEF Installs

CreatedFds(setup, bufferId, fd) ==
  IF setup.supplied THEN [i \in 0 .. 1 |-> <<fd, File(bufferId, BufferBytes)>>[i + 1]]
                    ELSE [i \in 0 .. 0 |-> fd]

LEMMA CreatedFdsFacts ==
  ASSUME NEW setup \in Setups, NEW bufferId \in 1 .. NumFiles, NEW fd \in Files
  PROVE  LET fds == CreatedFds(setup, bufferId, fd)
         IN  /\ fds \in Handles(Files)
             /\ DOMAIN fds = IF setup.supplied THEN 0 .. 1 ELSE 0 .. 0
             /\ fds[0] = fd
             /\ setup.supplied => fds[1] = File(bufferId, BufferBytes)
             /\ OpenFds(fds) \in Nat
             /\ OpenFds(fds) <= (IF fd = Bad THEN 0 ELSE 1) + (IF setup.supplied THEN 1 ELSE 0)
<1> DEFINE fds == CreatedFds(setup, bufferId, fd)
           k == IF setup.supplied THEN 2 ELSE 1
<1>1. File(bufferId, BufferBytes) \in Files
  BY BoundFacts DEF File, Files
<1>2. /\ fds \in [0 .. k - 1 -> Files]
      /\ DOMAIN fds = IF setup.supplied THEN 0 .. 1 ELSE 0 .. 0
      /\ fds[0] = fd
      /\ setup.supplied => fds[1] = File(bufferId, BufferBytes)
  BY <1>1 DEF CreatedFds
<1>3. fds \in Handles(Files)
  BY <1>2 DEF Handles
<1>4. IsFiniteSet(OpenIn(fds)) /\ OpenFds(fds) \in Nat
  BY <1>3, HandleFacts
<1> HIDE DEF fds
<1>5. CASE fd # Bad
  <2>1. OpenIn(fds) \subseteq 0 .. k - 1
    BY <1>2 DEF OpenIn
  <2>2. k - 1 \in Int /\ 0 \in Int /\ k \in 1 .. 2
    OBVIOUS
  <2>3. IsFiniteSet(0 .. k - 1)
        /\ Cardinality(0 .. k - 1) = IF 0 > k - 1 THEN 0 ELSE k - 1 - 0 + 1
    BY <2>2, FS_Interval, Zenon
  <2>4. Cardinality(OpenIn(fds)) <= Cardinality(0 .. k - 1)
    BY <2>1, <2>3, FS_Subset
  <2>5. Cardinality(OpenIn(fds)) <= k
    BY <2>2, <2>3, <2>4
  <2> QED
    BY <1>2, <1>3, <1>4, <1>5, <2>5 DEF OpenFds, fds
<1>6. CASE fd = Bad
  <2>1. OpenIn(fds) \subseteq IF setup.supplied THEN {1} ELSE {}
    BY <1>2, <1>6 DEF OpenIn
  <2>2. IsFiniteSet({1}) /\ Cardinality({1}) = 1 /\ IsFiniteSet({}) /\ Cardinality({}) = 0
    BY FS_Singleton, FS_EmptySet
  <2>3. Cardinality(OpenIn(fds)) <= IF setup.supplied THEN 1 ELSE 0
    BY <2>1, <2>2, FS_Subset
  <2> QED
    BY <1>2, <1>3, <1>4, <1>6, <2>3 DEF OpenFds, fds
<1> QED
  BY <1>5, <1>6

CreatedObject(setup, fds) ==
  LET desc == CreatedDescriptor(setup, fds)
  IN  Constructed(setup.kind, setup.flavor, setup.sizeofT, TRUE, desc, NoFds,
                  Maps(desc, setup.sizeofT))

LEMMA CreatedObjectFacts ==
  ASSUME NEW setup \in Setups, ~RefusesToCreate(setup), NEW fds \in Handles(Files)
  PROVE  LET object == CreatedObject(setup, fds)
         IN  /\ object \in QueueType /\ InOrder(object) /\ object.ptr = NoPtrs
             /\ object.desc = CreatedDescriptor(setup, fds)
             /\ object.temp = NoFds /\ object.sizeofT = setup.sizeofT
             /\ object.flavor = setup.flavor
<1> DEFINE desc == CreatedDescriptor(setup, fds)
           object == CreatedObject(setup, fds)
           stage == IF Maps(desc, setup.sizeofT) THEN "mapping" ELSE "done"
<1>1. desc \in DescType /\ desc.flags = setup.flavor
  BY CreatedType
<1>2. /\ setup.kind \in Kinds /\ setup.flavor \in Flavors /\ setup.sizeofT \in Nat \ {0}
      /\ TRUE \in BOOLEAN /\ NoFds \in Handles(Files)
  BY BoundFacts, BadFile
<1>3. PICK reset \in BOOLEAN :
        object = Started(stage, setup.kind, setup.flavor, setup.sizeofT, reset, desc, NoFds)
  <2> HIDE DEF desc
  <2>1. CASE Maps(desc, setup.sizeofT)
    BY <2>1 DEF CreatedObject, Constructed, Started, desc
  <2>2. CASE ~Maps(desc, setup.sizeofT)
    BY <2>2 DEF CreatedObject, Constructed, Started, desc
  <2> QED
    BY <2>1, <2>2
<1>4. stage \in Stages /\ (stage = "mapping" => Maps(desc, setup.sizeofT)) /\ stage # "absent"
  BY DEF Stages
<1> HIDE DEF object, stage, desc
<1>5. /\ object \in QueueType
      /\ object.stage = stage
      /\ object.kind = setup.kind /\ object.flavor = setup.flavor /\ object.sizeofT = setup.sizeofT
      /\ object.desc = desc /\ object.temp = NoFds
      /\ object.ptr = NoPtrs /\ object.next = READPTRPOS
      /\ object.eventFlag = NoQueue.eventFlag
  BY <1>1, <1>2, <1>3, <1>4, StartedType
<1>6. InOrder(object)
  <2>1. object.stage # "absent"
    BY <1>4, <1>5
  <2>2. object.stage = "mapping" => Maps(object.desc, object.sizeofT)
    BY <1>4, <1>5
  <2> QED
    BY <1>1, <1>2, <1>5, <2>1, <2>2, StartsInOrder
<1> QED
  BY <1>5, <1>6 DEF object, desc

LEMMA CreateCases ==
  ASSUME BaseInv, NEW q \in Creators, NEW setup \in Setups, Create(q, setup)
  PROVE  /\ queue[q].stage = "absent" /\ NoneUnderWay
         /\ \/ ProcessDies
            \/ Installs(q, QueueWithoutDescriptor) /\ UNCHANGED origin
            \/ /\ ~RefusesToCreate(setup)
               /\ \E id, bufferId \in NewIds :
                    LET size == KAshmemSizePageAligned(setup.n * setup.sizeofT, setup.evFlag,
                                                       setup.supplied)
                    IN  \E fd \in {File(id, size), Bad} :
                          /\ fd \in Files
                          /\ setup.supplied => bufferId # id
                          /\ Installs(q, CreatedObject(setup, CreatedFds(setup, bufferId, fd)))
                          /\ origin' = [origin EXCEPT ![q] = "genuine"]
<1>1. q \in Queues /\ queue[q].stage = "absent" /\ NoneUnderWay
  BY DEF Create, Queues
<1>2. CASE RefusesToCreate(setup)
  <2>1. queue' = [queue EXCEPT ![q] = QueueWithoutDescriptor]
        /\ UNCHANGED <<space, opened, hidl, parcel, origin>>
    BY <1>2 DEF Create
  <2> QED
    BY <1>1, <2>1, InstallsNothing
<1>3. CASE ~RefusesToCreate(setup) /\ CreateAborts(setup)
  BY <1>1, <1>3 DEF Create
<1>4. CASE ~RefusesToCreate(setup) /\ ~CreateAborts(setup)
  <2> DEFINE size == KAshmemSizePageAligned(setup.n * setup.sizeofT, setup.evFlag, setup.supplied)
             Fd(id) == IF Room > (IF setup.supplied THEN 1 ELSE 0) THEN File(id, size) ELSE Bad
             New(id, bufferId) == CreatedFds(setup, bufferId, Fd(id))
  <2>1. PICK id \in NewIds, bufferId \in NewIds :
          /\ IF setup.supplied THEN IsLowest(bufferId, NewIds \ {id}) ELSE bufferId = id
          /\ opened' = opened + OpenFds(New(id, bufferId))
          /\ queue' = [queue EXCEPT ![q] = CreatedObject(setup, New(id, bufferId))]
          /\ origin' = [origin EXCEPT ![q] = "genuine"]
          /\ UNCHANGED <<space, hidl, parcel>>
    BY <1>4 DEF Create, CreatedFds, CreatedObject
  <2>2. id \in 1 .. NumFiles /\ bufferId \in 1 .. NumFiles /\ (setup.supplied => bufferId # id)
    BY <2>1 DEF NewIds, IsLowest
  <2>3. size \in Nat
    <3>1. setup.n * setup.sizeofT \in Nat
      BY BoundFacts, CreatedType, BadFile, <1>4
    <3> QED
      BY <3>1, BoundFacts, AshmemSize
  <2>4. Fd(id) \in Files /\ Fd(id) \in {File(id, size), Bad}
    BY <2>2, <2>3, BadFile DEF File, Files
  <2> DEFINE fd == Fd(id)
             fds == CreatedFds(setup, bufferId, fd)
  <2>5. /\ fds \in Handles(Files) /\ OpenFds(fds) \in Nat
        /\ OpenFds(fds) <= (IF fd = Bad THEN 0 ELSE 1) + (IF setup.supplied THEN 1 ELSE 0)
    <3> HIDE DEF fd
    <3> QED
      BY <2>2, <2>4, CreatedFdsFacts DEF fd
  <2>6. OpenFds(fds) <= Room
    <3>1. Room \in Nat /\ (setup.supplied => Room > 0)
      BY BaseFacts DEF Create
    <3>2. fd # Bad => Room > (IF setup.supplied THEN 1 ELSE 0)
      OBVIOUS
    <3> HIDE DEF fd, fds
    <3> QED
      BY <2>5, <3>1, <3>2
  <2> DEFINE object == CreatedObject(setup, fds)
  <2>7. /\ object \in QueueType /\ InOrder(object) /\ object.ptr = NoPtrs
        /\ object.desc = CreatedDescriptor(setup, fds) /\ object.temp = NoFds
    <3> HIDE DEF fds
    <3> QED
      BY <1>4, <2>5, CreatedObjectFacts
  <2>8. object.desc.handle.fds = fds
    <3> HIDE DEF fds
    <3> QED
      BY <1>4, <2>5, <2>7, CreatedType
  <2>9. /\ opened' = opened + OpenFds(fds)
        /\ queue' = [queue EXCEPT ![q] = object]
        /\ UNCHANGED <<space, hidl, parcel>>
    BY <2>1
  <2> HIDE DEF object, fds, fd
  <2>10. opened' <= FdLimit
    BY <2>5, <2>6, <2>9, BaseFacts, BoundFacts DEF Room
  <2>11. opened' = opened + (OpenFds(object.desc.handle.fds) + OpenFds(object.temp))
    BY <2>5, <2>7, <2>8, <2>9, BaseFacts, BadFile
  <2>12. Installs(q, object)
    BY <2>7, <2>9, <2>10, <2>11 DEF Installs
  <2> QED
    BY <1>1, <1>4, <2>1, <2>2, <2>4, <2>12 DEF object, fds, fd
<1> QED
  BY <1>2, <1>3, <1>4

LEMMA AttachCases ==
  ASSUME BaseInv, NEW q \in Queues, NEW kind \in Kinds, NEW flavor \in Flavors,
         NEW sizeofT \in Nat \ {0}, NEW resets \in BOOLEAN, NEW desc \in DescType,
         NEW temp \in Handles(Files), kind = "hidl" => desc.flags \in Flavors,
         OpenFds(desc.handle.fds) + OpenFds(temp) <= Room,
         AttachTo(q, kind, flavor, sizeofT, resets, desc, temp)
  PROVE  /\ origin' = [origin EXCEPT ![q] = origin[kind]]
         /\ \E object : /\ Installs(q, object) /\ object.desc = desc /\ object.kind = kind
                        /\ object.sizeofT = sizeofT /\ object.flavor = flavor
<1> DEFINE maps == SizeOf(desc.grantors) # 0 /\ Maps(desc, sizeofT)
           stage == IF maps THEN "mapping" ELSE "done"
           held == IF maps THEN temp ELSE NoFds
           object == Constructed(kind, flavor, sizeofT, resets, desc, held, maps)
<1>1. /\ queue' = [queue EXCEPT ![q] = object]
      /\ opened' = opened + OpenFds(desc.handle.fds) + (IF maps THEN OpenFds(temp) ELSE 0)
      /\ origin' = [origin EXCEPT ![q] = origin[kind]]
      /\ UNCHANGED <<space, hidl, parcel>>
  BY DEF AttachTo
<1>2. PICK reset \in BOOLEAN : object = Started(stage, kind, flavor, sizeofT, reset, desc, held)
  <2>1. CASE maps
    BY <2>1 DEF Constructed, Started
  <2>2. CASE ~maps
    BY <2>2 DEF Constructed, Started
  <2> QED
    BY <2>1, <2>2
<1>3. stage \in Stages /\ (stage = "mapping" => Maps(desc, sizeofT)) /\ stage # "absent"
      /\ (stage = "done" => held = NoFds)
  BY DEF Stages
<1>4. held \in Handles(Files) /\ OpenFds(held) = (IF maps THEN OpenFds(temp) ELSE 0)
  BY BadFile
<1>5. desc.handle.fds \in Handles(Files)
  BY DEF DescType
<1>6. /\ OpenFds(desc.handle.fds) \in Nat /\ OpenFds(temp) \in Nat
      /\ OpenFds(held) \in Nat /\ OpenFds(held) <= OpenFds(temp)
  BY <1>4, <1>5, HandleFacts
<1>7. opened' = opened + (OpenFds(desc.handle.fds) + OpenFds(held))
  BY <1>1, <1>4, <1>6, BaseFacts
<1> HIDE DEF object, stage, held, maps
<1>8. /\ object \in QueueType
      /\ object.stage = stage
      /\ object.kind = kind /\ object.flavor = flavor /\ object.sizeofT = sizeofT
      /\ object.desc = desc /\ object.temp = held
      /\ object.ptr = NoPtrs /\ object.next = READPTRPOS
      /\ object.eventFlag = NoQueue.eventFlag
  BY <1>2, <1>3, <1>4, StartedType
<1>9. InOrder(object)
  <2>1. object.stage # "absent"
    BY <1>3, <1>8
  <2>2. object.stage = "mapping" => Maps(object.desc, object.sizeofT)
    BY <1>3, <1>8
  <2>3. object.stage = "done" => object.temp = NoFds
    BY <1>3, <1>8
  <2> QED
    BY <1>8, <2>1, <2>2, <2>3, StartsInOrder
<1>10. opened' <= FdLimit
  BY <1>6, <1>7, BaseFacts, BoundFacts DEF Room
<1>11. Installs(q, object)
  BY <1>1, <1>7, <1>8, <1>9, <1>10 DEF Installs
<1> QED
  BY <1>1, <1>8, <1>11

LEMMA AttachHidlCases ==
  ASSUME BaseInv, NEW q \in Attachers, NEW sizeofT \in AttachSizes, NEW resets \in BOOLEAN,
         AttachHidl(q, sizeofT, resets)
  PROVE  /\ queue[q].stage = "absent" /\ hidl # NoDescriptor
         /\ origin' = [origin EXCEPT ![q] = origin["hidl"]]
         /\ \E object : /\ Installs(q, object) /\ object.desc = CopyDescriptor(hidl, Room)
                        /\ object.kind = "hidl" /\ object.sizeofT = sizeofT
                        /\ object.flavor = hidl.flags
<1> DEFINE desc == CopyDescriptor(hidl, Room)
<1>1. /\ q \in Queues /\ sizeofT \in Nat \ {0} /\ "hidl" \in Kinds /\ NoFds \in Handles(Files)
      /\ OpenFds(NoFds) = 0
  BY BoundFacts, BadFile DEF Queues, Kinds
<1>2. hidl \in DescType /\ Room \in Nat
  BY BaseFacts
<1>3. /\ desc \in DescType /\ OpenFds(desc.handle.fds) \in 0 .. Room
      /\ desc.flags = hidl.flags
  BY <1>2, CopyType
<1>4. hidl.flags \in Flavors
  BY DEF AttachHidl, BaseInv, Types
<1>5. /\ queue[q].stage = "absent" /\ hidl # NoDescriptor
      /\ AttachTo(q, "hidl", hidl.flags, sizeofT, resets, desc, NoFds)
  BY DEF AttachHidl
<1> HIDE DEF desc
<1>6. /\ desc.flags \in Flavors
      /\ OpenFds(desc.handle.fds) + OpenFds(NoFds) <= Room
  BY <1>1, <1>2, <1>3, <1>4
<1>7. /\ origin' = [origin EXCEPT ![q] = origin["hidl"]]
      /\ \E object : /\ Installs(q, object) /\ object.desc = desc
                     /\ object.kind = "hidl" /\ object.sizeofT = sizeofT
                     /\ object.flavor = hidl.flags
  BY <1>1, <1>3, <1>4, <1>5, <1>6, AttachCases
<1> QED
  BY <1>5, <1>7 DEF desc

ShimCopy == CopyDescriptor(Shim(parcel, Room), Room - OpenFds(Shim(parcel, Room).handle.fds))

LEMMA AttachAidlCases ==
  ASSUME BaseInv, NEW q \in Attachers, NEW flavor \in Flavors, NEW sizeofT \in AttachSizes,
         NEW resets \in BOOLEAN, AttachAidl(q, flavor, sizeofT, resets)
  PROVE  /\ queue[q].stage = "absent" /\ parcel # EmptyParcel
         /\ origin' = [origin EXCEPT ![q] = origin["aidl"]]
         /\ \E object : /\ Installs(q, object) /\ object.desc = ShimCopy
                        /\ object.kind = "aidl" /\ object.sizeofT = sizeofT
                        /\ object.flavor = flavor
<1> DEFINE shim == Shim(parcel, Room)
           temp == shim.handle.fds
           rest == Room - OpenFds(temp)
           desc == CopyDescriptor(shim, rest)
<1>1. /\ q \in Queues /\ sizeofT \in Nat \ {0} /\ "aidl" \in Kinds
  BY BoundFacts DEF Queues, Kinds
<1>2. parcel \in ParcelType /\ Room \in Nat
  BY BaseFacts
<1>3. shim \in DescType /\ temp \in Handles(Files) /\ OpenFds(temp) \in 0 .. Room
  BY <1>2, ShimType
<1>4. /\ queue[q].stage = "absent" /\ parcel # EmptyParcel
      /\ AttachTo(q, "aidl", flavor, sizeofT, resets, desc, temp)
  BY DEF AttachAidl
<1> HIDE DEF shim, temp
<1>5. rest \in Nat
  BY <1>2, <1>3
<1> HIDE DEF rest
<1>6. desc \in DescType /\ OpenFds(desc.handle.fds) \in 0 .. rest
  BY <1>3, <1>5, CopyType
<1> HIDE DEF desc
<1>7. OpenFds(desc.handle.fds) + OpenFds(temp) <= Room
  BY <1>2, <1>3, <1>6 DEF rest
<1>8. "aidl" # "hidl"
  OBVIOUS
<1>9. /\ origin' = [origin EXCEPT ![q] = origin["aidl"]]
      /\ \E object : /\ Installs(q, object) /\ object.desc = desc
                     /\ object.kind = "aidl" /\ object.sizeofT = sizeofT
                     /\ object.flavor = flavor
  BY <1>1, <1>3, <1>4, <1>6, <1>7, <1>8, AttachCases
<1> QED
  BY <1>4, <1>9 DEF desc, rest, temp, shim, ShimCopy

\* q is left with another object in place of the one it had, and the shim's
\* descriptors may have been closed.
Replaces(q, object) ==
  /\ object \in QueueType /\ InOrder(object)
  /\ queue' = [queue EXCEPT ![q] = object]
  /\ UNCHANGED <<hidl, parcel>>
  /\ opened' = opened - (OpenFds(Fds(q)) + OpenFds(queue[q].temp))
                 + (OpenFds(object.desc.handle.fds) + OpenFds(object.temp))
  /\ opened' <= FdLimit

LEMMA ReplaceStep ==
  ASSUME BaseInv, NEW q \in Queues, NEW object, Replaces(q, object),
         space' \in [Pages -> PageType], origin' \in [Queues \cup Kinds -> OriginType]
  PROVE  BaseInv'
BY QueueStep DEF Replaces

LEMMA MappingFacts ==
  ASSUME BaseInv, NEW q \in Queues, queue[q].stage = "mapping"
  PROVE  /\ queue[q].next \in Positions(TRUE) /\ queue[q].next <= LastPosition(q)
         /\ LastPosition(q) = LastOf(queue[q]) /\ LastPosition(q) \in {DATAPTRPOS, EVFLAGWORDPOS}
         /\ \A pos \in Positions(TRUE) : queue[q].ptr[pos] # Nullptr <=> pos < queue[q].next
         /\ Maps(queue[q].desc, queue[q].sizeofT)
         /\ queue[q].ptr \in [Positions(TRUE) -> Nat \cup {Heap}]
<1>1. queue[q] \in QueueType /\ InOrder(queue[q])
  BY BaseFacts
<1>2. LastPosition(q) = LastOf(queue[q]) /\ LastPosition(q) \in {DATAPTRPOS, EVFLAGWORDPOS}
  BY DEF LastPosition, LastOf, Grantors
<1>3. queue[q].next \in Positions(TRUE) /\ queue[q].ptr \in [Positions(TRUE) -> Nat \cup {Heap}]
  BY <1>1 DEF QueueType
<1> QED
  BY <1>1, <1>2, <1>3 DEF InOrder

LEMMA AdvanceCases ==
  ASSUME BaseInv, NEW q \in Queues, queue[q].stage = "mapping",
         NEW address \in Nat \cup {Heap}, address # Nullptr,
         address = Heap => queue[q].next = READPTRPOS,
         NEW eventFlag \in CreateEventFlag(queue[q].next),
         Advance(q, address, eventFlag)
  PROVE  /\ UNCHANGED <<frozen, origin>>
         /\ \E object :
              /\ Replaces(q, object)
              /\ object.desc = queue[q].desc /\ object.flavor = queue[q].flavor
              /\ object.sizeofT = queue[q].sizeofT /\ object.kind = queue[q].kind
              /\ object.ptr = [queue[q].ptr EXCEPT ![queue[q].next] = address]
              /\ object.stage \in {"mapping", "done"}
<1> DEFINE last == queue[q].next = LastPosition(q)
           stage == IF last THEN "done" ELSE "mapping"
           next == IF last THEN READPTRPOS ELSE queue[q].next + 1
           temp == IF last THEN NoFds ELSE queue[q].temp
           ptr == [queue[q].ptr EXCEPT ![queue[q].next] = address]
           object == [queue[q] EXCEPT !.ptr[queue[q].next] = address, !.eventFlag = eventFlag,
                                      !.stage = stage, !.next = next,
                                      !.resets = @ /\ ~last, !.temp = temp]
<1>1. /\ queue' = [queue EXCEPT ![q] = object]
      /\ opened' = IF last THEN opened - OpenFds(queue[q].temp) ELSE opened
      /\ UNCHANGED <<frozen, hidl, parcel, origin>>
  BY BaseFacts DEF Advance, BaseInv, Types
<1>2. PICK resets \in BOOLEAN :
        object = [queue[q] EXCEPT !.ptr = ptr, !.eventFlag = eventFlag, !.stage = stage,
                                  !.next = next, !.resets = resets, !.temp = temp]
  <2>1. queue[q] \in QueueType
    BY BaseFacts
  <2>2. CASE last
    BY <2>1, <2>2 DEF QueueType
  <2>3. CASE ~last
    BY <2>1, <2>3 DEF QueueType
  <2> QED
    BY <2>2, <2>3
<1>3. queue[q] \in QueueType /\ InOrder(queue[q])
  BY BaseFacts
<1>4. /\ queue[q].next \in Positions(TRUE) /\ queue[q].next <= LastPosition(q)
      /\ LastPosition(q) = LastOf(queue[q]) /\ LastPosition(q) \in {DATAPTRPOS, EVFLAGWORDPOS}
      /\ \A pos \in Positions(TRUE) : queue[q].ptr[pos] # Nullptr <=> pos < queue[q].next
      /\ Maps(queue[q].desc, queue[q].sizeofT)
      /\ queue[q].ptr \in [Positions(TRUE) -> Nat \cup {Heap}]
  BY MappingFacts
<1>5. /\ ptr \in [Positions(TRUE) -> Nat \cup {Heap}]
      /\ ptr[queue[q].next] = address
      /\ \A pos \in Positions(TRUE) : pos # queue[q].next => ptr[pos] = queue[q].ptr[pos]
  BY <1>4
<1>6. stage \in {"mapping", "done"} /\ temp \in Handles(Files)
  BY BaseFacts, BadFile
<1>7. eventFlag \in BOOLEAN /\ (eventFlag = TRUE => queue[q].next = EVFLAGWORDPOS)
  BY DEF CreateEventFlag
<1>8. next \in Positions(TRUE)
  BY <1>4 DEF Positions, READPTRPOS, DATAPTRPOS, EVFLAGWORDPOS
<1>9. opened' = opened - (OpenFds(Fds(q)) + OpenFds(queue[q].temp))
                  + (OpenFds(Fds(q)) + OpenFds(temp))
      /\ opened' <= FdLimit
  <2>1. OpenFds(Fds(q)) \in Nat /\ OpenFds(queue[q].temp) \in Nat /\ opened \in Nat /\ FdLimit \in Nat
        /\ opened <= FdLimit
    BY BaseFacts, HandleFacts, BoundFacts
  <2> QED
    BY <1>1, <2>1, BadFile
<1>10. /\ stage = "mapping" => next = queue[q].next + 1 /\ queue[q].next # LastPosition(q)
       /\ stage = "done" => temp = NoFds /\ queue[q].next = LastPosition(q)
  OBVIOUS
<1> HIDE DEF object, stage, next, temp, ptr
<1>11. /\ object \in QueueType
       /\ object.ptr = ptr /\ object.eventFlag = eventFlag /\ object.stage = stage
       /\ object.next = next /\ object.temp = temp /\ object.desc = queue[q].desc
       /\ object.flavor = queue[q].flavor /\ object.sizeofT = queue[q].sizeofT
       /\ object.kind = queue[q].kind
  BY <1>2, <1>3, <1>5, <1>6, <1>7, <1>8 DEF QueueType
<1>12. LastOf(object) = LastPosition(q)
  BY <1>4, <1>11 DEF LastOf
<1>13. InOrder(object)
  <2>1. CASE stage = "mapping"
    <3>1. next <= LastPosition(q)
      BY <1>4, <1>10, <2>1 DEF Positions, READPTRPOS, DATAPTRPOS, EVFLAGWORDPOS
    <3>2. \A pos \in Positions(TRUE) : ptr[pos] # Nullptr <=> pos < next
      BY <1>4, <1>5, <1>10, <2>1 DEF Positions, READPTRPOS, EVFLAGWORDPOS
    <3>3. eventFlag = FALSE
      BY <1>4, <1>7, <1>10, <2>1 DEF Positions, READPTRPOS, DATAPTRPOS, EVFLAGWORDPOS
    <3>4. \A pos \in Positions(TRUE) : ptr[pos] = Heap => pos = READPTRPOS
      BY <1>3, <1>5 DEF InOrder
    <3>5. object.kind = "hidl" => object.desc.flags \in Flavors
      BY <1>3, <1>11 DEF InOrder
    <3>6. object.stage = "mapping" /\ object.eventFlag = FALSE
      BY <1>11, <2>1, <3>3
    <3> QED
      BY <1>4, <1>11, <1>12, <3>1, <3>2, <3>4, <3>5, <3>6 DEF InOrder
  <2>2. CASE stage = "done"
    <3>1. \A pos \in Positions(TRUE) : ptr[pos] # Nullptr <=> pos <= LastPosition(q)
      BY <1>4, <1>5, <1>10, <2>2 DEF Positions, READPTRPOS, EVFLAGWORDPOS
    <3>2. \A pos \in Positions(TRUE) : ptr[pos] = Heap => pos = READPTRPOS
      BY <1>3, <1>5 DEF InOrder
    <3>3. object.kind = "hidl" => object.desc.flags \in Flavors
      BY <1>3, <1>11 DEF InOrder
    <3>4. object.eventFlag = TRUE => IsPointer(object.ptr[EVFLAGWORDPOS])
      <4>1. SUFFICES ASSUME eventFlag = TRUE  PROVE IsPointer(ptr[EVFLAGWORDPOS])
        BY <1>11
      <4>2. queue[q].next = EVFLAGWORDPOS
        BY <1>7, <4>1
      <4>3. ptr[EVFLAGWORDPOS] = address
        BY <1>5, <4>2, Zenon
      <4>4. EVFLAGWORDPOS # READPTRPOS
        BY DEF READPTRPOS, EVFLAGWORDPOS
      <4>5. address # Heap
        BY <4>2, <4>4
      <4> QED
        BY <4>3, <4>5 DEF IsPointer
    <3>5. object.stage = "done" /\ object.temp = NoFds
      BY <1>10, <1>11, <2>2
    <3> QED
      BY <1>4, <1>11, <1>12, <3>1, <3>2, <3>3, <3>4, <3>5 DEF InOrder
  <2> QED
    BY <1>6, <2>1, <2>2
<1>14. Replaces(q, object)
  BY <1>1, <1>9, <1>11, <1>13 DEF Replaces, Fds
<1> QED
  BY <1>1, <1>6, <1>11, <1>14 DEF ptr

LEMMA FailsCases ==
  ASSUME BaseInv, NEW q \in Queues, InitMemoryFails(q)
  PROVE  /\ queue[q].stage = "mapping"
         /\ UNCHANGED <<frozen, origin>>
         /\ \E object :
              /\ Replaces(q, object)
              /\ object.desc = queue[q].desc /\ object.flavor = queue[q].flavor
              /\ object.sizeofT = queue[q].sizeofT /\ object.kind = queue[q].kind
              /\ object.ptr = NoPtrs /\ object.stage = "done"
<1> DEFINE object == [queue[q] EXCEPT !.stage = "done", !.next = READPTRPOS, !.resets = FALSE,
                                      !.ptr = NoPtrs, !.temp = NoFds]
<1>1. /\ queue[q].stage = "mapping"
      /\ queue' = [queue EXCEPT ![q] = object]
      /\ opened' = opened - OpenFds(queue[q].temp)
      /\ UNCHANGED <<frozen, hidl, parcel, origin>>
  BY BaseFacts DEF InitMemoryFails, BaseInv, Types
<1>2. queue[q] \in QueueType /\ InOrder(queue[q])
  BY BaseFacts
<1>3. NoPtrs \in [Positions(TRUE) -> Nat \cup {Heap}] /\ READPTRPOS \in Positions(TRUE)
      /\ NoFds \in Handles(Files)
      /\ \A pos \in Positions(TRUE) : NoPtrs[pos] # Heap
  BY BadFile DEF NoPtrs, Nullptr, Heap, Positions, READPTRPOS, EVFLAGWORDPOS
<1>4. object \in QueueType
  BY <1>2, <1>3 DEF QueueType
<1>5. /\ object.desc = queue[q].desc /\ object.flavor = queue[q].flavor
      /\ object.sizeofT = queue[q].sizeofT /\ object.kind = queue[q].kind
      /\ object.ptr = NoPtrs /\ object.stage = "done" /\ object.temp = NoFds
      /\ object.eventFlag = queue[q].eventFlag
  BY <1>2 DEF QueueType
<1> HIDE DEF object
<1>6. queue[q].eventFlag = FALSE
  BY <1>1, <1>2 DEF InOrder
<1>7. InOrder(object)
  <2>1. object.stage # "absent" /\ object.stage # "mapping"
    BY <1>5
  <2>2. object.kind = "hidl" => object.desc.flags \in Flavors
    BY <1>2, <1>5 DEF InOrder
  <2>3. object.eventFlag = FALSE
    BY <1>5, <1>6
  <2> QED
    BY <1>3, <1>5, <2>1, <2>2, <2>3 DEF InOrder
<1>8. opened' = opened - (OpenFds(Fds(q)) + OpenFds(queue[q].temp))
                  + (OpenFds(Fds(q)) + OpenFds(NoFds))
      /\ opened' <= FdLimit
  <2>1. OpenFds(Fds(q)) \in Nat /\ OpenFds(queue[q].temp) \in Nat /\ opened \in Nat /\ FdLimit \in Nat
        /\ opened <= FdLimit
    BY BaseFacts, HandleFacts, BoundFacts
  <2> QED
    BY <1>1, <2>1, BadFile
<1>9. Replaces(q, object)
  BY <1>1, <1>4, <1>5, <1>7, <1>8 DEF Replaces, Fds
<1> QED
  BY <1>1, <1>5, <1>9

LEMMA DestroyCases ==
  ASSUME BaseInv, NEW q \in Queues, Destroy(q)
  PROVE  /\ queue[q].stage = "done" /\ Replaces(q, NoQueue)
         /\ UNCHANGED frozen /\ origin' = [origin EXCEPT ![q] = "genuine"]
<1>1. /\ queue[q].stage = "done"
      /\ queue' = [queue EXCEPT ![q] = NoQueue]
      /\ opened' = opened - OpenFds(Fds(q))
      /\ origin' = [origin EXCEPT ![q] = "genuine"]
      /\ UNCHANGED <<frozen, hidl, parcel>>
  BY DEF Destroy
<1>2. InOrder(queue[q])
  BY BaseFacts
<1>3. queue[q].temp = NoFds
  BY <1>1, <1>2 DEF InOrder
<1>4. /\ NoQueue.desc.handle.fds = NoFds /\ NoQueue.temp = NoFds
      /\ NoQueue \in QueueType /\ InOrder(NoQueue)
  BY EmptyHanded, NothingTyped
<1>5. opened' = opened - (OpenFds(Fds(q)) + OpenFds(NoFds)) + (OpenFds(NoFds) + OpenFds(NoFds))
      /\ opened' <= FdLimit
  <2>1. OpenFds(Fds(q)) \in Nat /\ opened \in Nat /\ FdLimit \in Nat /\ opened <= FdLimit
    BY BaseFacts, HandleFacts, BoundFacts
  <2> QED
    BY <1>1, <2>1, BadFile
<1> QED
  BY <1>1, <1>3, <1>4, <1>5 DEF Replaces

\* mmap finds the first place, if there is one.
LEMMA PlaceFacts ==
  ASSUME NEW length \in Nat, Places(length) # {}
  PROVE  /\ Place(length) \in Pages /\ Place(length) \in Nat /\ Place(length) >= 1
         /\ \A p \in Run(Place(length), length) : p \in Pages /\ space[p] = Free
<1>1. Places(length) \subseteq Pages /\ Pages \subseteq Nat
  BY BoundFacts DEF Places, Pages
<1>2. \E p \in Places(length) : \A other \in Places(length) : p <= other
  <2> DEFINE S == Places(length)
  <2>1. S \in SUBSET Nat /\ S # {}
    BY <1>1
  <2> HIDE DEF S
  <2>2. \E x \in S : \A y \in S : x <= y
    BY <2>1, LeastNatural
  <2> QED
    BY <2>2 DEF S
<1>3. Place(length) \in Places(length)
  BY <1>2 DEF Place
<1> QED
  BY <1>1, <1>3, BoundFacts DEF Places, Pages

LEMMA FreeFacts == Free \in PageType /\ Free.file = Bad
BY BadFile DEF Free, PageType

LEMMA UnmapType ==
  ASSUME NEW from \in [Pages -> PageType], NEW q \in Queues, NEW pos, NEW grantorPos
  PROVE  Unmap(from, q, pos, grantorPos) \in [Pages -> PageType]
BY FreeFacts DEF Unmap, Munmap

LEMMA ReleaseType ==
  ASSUME space \in [Pages -> PageType], NEW q \in Queues
  PROVE  Unwound(q) \in [Pages -> PageType] /\ Destroyed(q) \in [Pages -> PageType]
<1>1. Unmap(space, q, READPTRPOS, READPTRPOS) \in [Pages -> PageType]
  BY UnmapType
<1>2. Unmap(Unmap(space, q, READPTRPOS, READPTRPOS), q, WRITEPTRPOS, WRITEPTRPOS)
        \in [Pages -> PageType]
  BY <1>1, UnmapType
<1>3. Unmap(Unmap(Unmap(space, q, READPTRPOS, READPTRPOS), q, WRITEPTRPOS, WRITEPTRPOS),
            q, DATAPTRPOS, DATAPTRPOS) \in [Pages -> PageType]
  BY <1>2, UnmapType
<1> QED
  BY <1>2, <1>3, UnmapType DEF Unwound, Destroyed

\* The file and the range of pages that mapGrantorDescr asks mmap for.
LEMMA GrantorFacts ==
  ASSUME BaseInv, NEW q \in Queues, NEW pos \in Positions(TRUE),
         CanMap(Grantors(q), Count(Fds(q)), pos)
  PROVE  LET g == Grantors(q)[pos]
         IN  /\ pos \in DOMAIN Grantors(q) /\ g \in Unsigned
             /\ g.offset \in Nat /\ g.extent \in Nat
             /\ FileOf(q, pos) \in Files
             /\ InPage(g) = g.offset % PageSize /\ InPage(g) \in 0 .. PageSize - 1
             /\ MapLength(g) = InPage(g) + g.extent /\ MapLength(g) \in Nat
             /\ MapOffset(g) \in Int
             /\ MapOffset(g) >= 0 => MapOffset(g) \div PageSize = g.offset \div PageSize
<1> DEFINE g == Grantors(q)[pos]
<1>1. Grantors(q) \in Vectors(Unsigned) /\ Fds(q) \in Handles(Files)
  BY BaseFacts
<1>2. pos \in DOMAIN Grantors(q) /\ g.extent <= IntMax - PageSize
      /\ ToInt32(g.fdIndex) \in 0 .. Count(Fds(q)) - 1
  BY DEF CanMap
<1>3. g \in Unsigned
  BY <1>1, <1>2, VectorFacts
<1>4. FileOf(q, pos) \in Files
  BY <1>1, <1>2, HandleFacts DEF FileOf
<1>5. g.offset \in Nat /\ g.extent \in Nat
  <2>1. g.offset \in 0 .. IntModulus - 1 /\ g.extent \in 0 .. SizeMax
    BY <1>3 DEF Unsigned
  <2> QED
    BY <2>1
<1>6. (g.offset \div PageSize) * PageSize \in Int
  BY <1>5, LayoutFacts
<1>7. MapOffset(g) \in Int
  BY <1>6, Int32Cast DEF MapOffset
<1> HIDE DEF g
<1>8. /\ InPage(g) = g.offset % PageSize /\ InPage(g) \in 0 .. PageSize - 1
      /\ MapLength(g) = InPage(g) + g.extent
      /\ MapOffset(g) >= 0 => MapOffset(g) \div PageSize = g.offset \div PageSize
  BY <1>2, <1>3, PageFacts
<1>9. MapLength(g) \in Nat
  BY <1>5, <1>8, LayoutFacts
<1> QED
  BY <1>2, <1>3, <1>4, <1>5, <1>7, <1>8, <1>9 DEF g

LEMMA MmapType ==
  ASSUME space \in [Pages -> PageType], NEW file \in Files, NEW length \in Nat,
         Places(length) # {}, NEW offset \in Int
  PROVE  Mmap(file, length, offset) \in [Pages -> PageType]
<1>1. Place(length) \in Int
  BY PlaceFacts
<1>2. offset \div PageSize \in Int
  BY Recombine, LayoutFacts
<1> DEFINE first == Place(length)
           page == offset \div PageSize
<1> HIDE DEF first, page
<1>3. \A p \in Pages : [file |-> file, page |-> page + (p - first), writable |-> file \notin frozen]
                       \in PageType
  BY <1>1, <1>2, BoundFacts DEF PageType, Pages, first, page
<1>4. Mmap(file, length, offset) =
        [p \in Pages |-> IF p \in Run(first, length)
           THEN [file |-> file, page |-> page + (p - first), writable |-> file \notin frozen]
           ELSE space[p]]
  BY DEF Mmap, first, page
<1> QED
  BY <1>3, <1>4

LEMMA MapCases ==
  ASSUME BaseInv, NEW q \in Queues, MapGrantorDescr(q)
  PROVE  LET pos     == queue[q].next
             g       == Grantors(q)[pos]
             address == Place(MapLength(g)) * PageSize + InPage(g)
         IN  /\ queue[q].stage = "mapping" /\ pos \in Positions(TRUE)
             /\ CanMap(Grantors(q), Count(Fds(q)), pos)
             /\ FileOf(q, pos) # Bad /\ MapLength(g) > 0 /\ MapOffset(g) >= 0
             /\ Places(MapLength(g)) # {}
             /\ space' = Mmap(FileOf(q, pos), MapLength(g), MapOffset(g))
             /\ space' \in [Pages -> PageType]
             /\ address \in Nat /\ address # Nullptr
             /\ UNCHANGED <<frozen, origin>>
             /\ \E object :
                  /\ Replaces(q, object)
                  /\ object.desc = queue[q].desc /\ object.flavor = queue[q].flavor
                  /\ object.sizeofT = queue[q].sizeofT /\ object.kind = queue[q].kind
                  /\ object.ptr = [queue[q].ptr EXCEPT ![pos] = address]
                  /\ object.stage \in {"mapping", "done"}
<1> DEFINE pos == queue[q].next
           g == Grantors(q)[pos]
           first == Place(MapLength(g))
           address == first * PageSize + InPage(g)
<1>1. /\ queue[q].stage = "mapping"
      /\ CanMap(Grantors(q), Count(Fds(q)), pos)
      /\ CanMmap(FileOf(q, pos), MapLength(g), MapOffset(g), queue[q].flavor)
      /\ space' = Mmap(FileOf(q, pos), MapLength(g), MapOffset(g))
  BY DEF MapGrantorDescr, CanMapGrantor
<1>2. FileOf(q, pos) # Bad /\ MapLength(g) > 0 /\ MapOffset(g) >= 0 /\ Places(MapLength(g)) # {}
  BY <1>1 DEF CanMmap
<1>3. PICK eventFlag \in CreateEventFlag(pos) : Advance(q, address, eventFlag)
  BY DEF MapGrantorDescr
<1>4. pos \in Positions(TRUE)
  BY <1>1, MappingFacts
<1>5. /\ FileOf(q, pos) \in Files /\ InPage(g) \in 0 .. PageSize - 1 /\ MapLength(g) \in Nat
      /\ MapOffset(g) \in Int
  BY <1>1, <1>4, GrantorFacts
<1>6. first \in Nat /\ first >= 1
  BY <1>2, <1>5, PlaceFacts
<1>7. space' \in [Pages -> PageType]
  BY <1>1, <1>2, <1>5, MmapType DEF BaseInv, Types
<1>8. address \in Nat /\ address # Nullptr
  <2> DEFINE i == InPage(g)
  <2> HIDE DEF first, i
  <2>1. first * PageSize \in Nat /\ first * PageSize >= 1
    BY <1>6, LayoutFacts
  <2>2. i \in Nat
    BY <1>5, LayoutFacts DEF i
  <2> QED
    BY <2>1, <2>2 DEF Nullptr, i
<1> HIDE DEF address, first, pos
<1>9. address \in Nat \cup {Heap} /\ address # Heap
  BY <1>8 DEF Heap
<1>10. /\ UNCHANGED <<frozen, origin>>
       /\ \E object :
            /\ Replaces(q, object)
            /\ object.desc = queue[q].desc /\ object.flavor = queue[q].flavor
            /\ object.sizeofT = queue[q].sizeofT /\ object.kind = queue[q].kind
            /\ object.ptr = [queue[q].ptr EXCEPT ![pos] = address]
            /\ object.stage \in {"mapping", "done"}
  BY <1>1, <1>3, <1>8, <1>9, AdvanceCases DEF pos
<1> QED
  BY <1>1, <1>2, <1>4, <1>7, <1>8, <1>10 DEF address, first, pos

LEMMA AllocateCases ==
  ASSUME BaseInv, NEW q \in Queues, AllocateReadPtr(q)
  PROVE  /\ queue[q].stage = "mapping" /\ queue[q].next = READPTRPOS
         /\ UNCHANGED <<space, frozen, origin>>
         /\ \E object :
              /\ Replaces(q, object)
              /\ object.desc = queue[q].desc /\ object.flavor = queue[q].flavor
              /\ object.sizeofT = queue[q].sizeofT /\ object.kind = queue[q].kind
              /\ object.ptr = [queue[q].ptr EXCEPT ![READPTRPOS] = Heap]
              /\ object.stage \in {"mapping", "done"}
<1>1. /\ queue[q].stage = "mapping" /\ queue[q].next = READPTRPOS
      /\ Advance(q, Heap, FALSE) /\ space' = space
  BY DEF AllocateReadPtr, OnHeap
<1>2. Heap \in Nat \cup {Heap} /\ Heap # Nullptr
  BY DEF Heap, Nullptr
<1>3. FALSE \in CreateEventFlag(queue[q].next)
  BY DEF CreateEventFlag
<1> QED
  BY <1>1, <1>2, <1>3, AdvanceCases

LEMMA HidlStep ==
  ASSUME BaseInv, hidl' \in DescType, hidl' = NoDescriptor \/ hidl'.flags \in Flavors,
         UNCHANGED <<space, queue, parcel>>, origin' \in [Queues \cup Kinds -> OriginType],
         opened' = opened - OpenFds(hidl.handle.fds) + OpenFds(hidl'.handle.fds),
         opened' <= FdLimit
  PROVE  BaseInv'
<1>1. Types' /\ Progress'
  BY DEF BaseInv, Types, Progress
<1>2. hidl.handle.fds \in Handles(Files) /\ hidl'.handle.fds \in Handles(Files) /\ FdInv
  BY BaseFacts DEF DescType, BaseInv
<1>3. /\ IsFiniteSet(FdsKept')
      /\ Cardinality(FdsKept') =
           Cardinality(FdsKept) - OpenFds(hidl.handle.fds) + OpenFds(hidl'.handle.fds)
  BY <1>2, CountHidl
<1> QED
  BY <1>1, <1>2, <1>3 DEF BaseInv, FdInv

LEMMA ParcelStep ==
  ASSUME BaseInv, parcel' \in ParcelType,
         UNCHANGED <<space, queue, hidl>>, origin' \in [Queues \cup Kinds -> OriginType],
         opened' = opened - OpenFds(parcel.fds) + OpenFds(parcel'.fds),
         opened' <= FdLimit
  PROVE  BaseInv'
<1>1. Types' /\ Progress'
  BY DEF BaseInv, Types, Progress
<1>2. parcel.fds \in Handles(Files) /\ parcel'.fds \in Handles(Files) /\ FdInv
  BY BaseFacts DEF ParcelType, BaseInv
<1>3. /\ IsFiniteSet(FdsKept')
      /\ Cardinality(FdsKept') =
           Cardinality(FdsKept) - OpenFds(parcel.fds) + OpenFds(parcel'.fds)
  BY <1>2, CountParcel
<1> QED
  BY <1>1, <1>2, <1>3 DEF BaseInv, FdInv

\* Nothing is left of a process that died, nor is there anything at first.
LEMMA NothingKept ==
  /\ queue = [q \in Queues |-> NoQueue] /\ hidl = NoDescriptor /\ parcel = EmptyParcel
       => FdsKept = {}
  /\ queue' = [q \in Queues |-> NoQueue] /\ hidl' = NoDescriptor /\ parcel' = EmptyParcel
       => FdsKept' = {}
<1>1. \A tag, x : Tagged(tag, x, NoFds) = {}
  BY NothingOpen DEF Tagged
<1>2. /\ NoQueue.desc.handle.fds = NoFds /\ NoQueue.temp = NoFds
      /\ NoDescriptor.handle.fds = NoFds /\ EmptyParcel.fds = NoFds
  BY EmptyHanded
<1>3. ASSUME queue = [q \in Queues |-> NoQueue], hidl = NoDescriptor, parcel = EmptyParcel
      PROVE  FdsKept = {}
  <2>1. \A q \in Queues : OfQueue(q) = {}
    BY <1>1, <1>2, <1>3 DEF OfQueue, Fds
  <2>2. UNION {OfQueue(q) : q \in Queues} = {}
    BY <2>1
  <2> QED
    BY <1>1, <1>2, <1>3, <2>2, KeptInParts
<1>4. ASSUME queue' = [q \in Queues |-> NoQueue], hidl' = NoDescriptor, parcel' = EmptyParcel
      PROVE  FdsKept' = {}
  <2>1. \A q \in Queues : OfQueue(q)' = {}
    <3>1. SUFFICES ASSUME NEW q \in Queues  PROVE OfQueue(q)' = {}
      OBVIOUS
    <3>2. Fds(q)' = NoFds /\ queue'[q].temp = NoFds
      BY <1>2, <1>4 DEF Fds
    <3>3. OfQueue(q)' = Tagged("queue", q, Fds(q)') \cup Tagged("shim", q, queue'[q].temp)
      BY DEF OfQueue, Tagged
    <3> QED
      BY <1>1, <3>2, <3>3
  <2>2. UNION {OfQueue(q)' : q \in Queues} = {}
    BY <2>1
  <2> QED
    BY <1>1, <1>2, <1>4, <2>2, KeptInParts
<1> QED
  BY <1>3, <1>4

LEMMA BaseInit == Init => BaseInv
<1> SUFFICES ASSUME Init  PROVE BaseInv
  OBVIOUS
<1>1. Types
  BY NothingTyped, FreeFacts DEF Init, Types, NoOrigins, OriginType
<1>2. Progress
  BY EmptyHanded DEF Init, Progress
<1>3. FdsKept = {} /\ opened = 0
  BY NothingKept DEF Init
<1>4. FdInv
  BY <1>3, FS_EmptySet, BoundFacts DEF FdInv
<1> QED
  BY <1>1, <1>2, <1>4 DEF BaseInv

LEMMA DeathStep == ASSUME ProcessDies  PROVE BaseInv'
<1>1. Types'
  BY NothingTyped, FreeFacts DEF ProcessDies, Types, NoOrigins, OriginType
<1>2. Progress'
  BY EmptyHanded DEF ProcessDies, Progress
<1>3. FdsKept' = {} /\ opened' = 0
  BY NothingKept DEF ProcessDies
<1>4. FdInv'
  BY <1>3, FS_EmptySet, BoundFacts DEF FdInv
<1> QED
  BY <1>1, <1>2, <1>4 DEF BaseInv

LEMMA ChangedFacts ==
  ASSUME NEW change \in Changes, NEW x,
         NEW items, \/ items = Signed /\ x \in Int
                    \/ items = Unsigned /\ x \in 0 .. IntModulus - 1,
         NEW g \in Vectors(items), change.pos \in DOMAIN g
  PROVE  /\ Changed(g, change, x) \in Vectors(items)
         /\ DOMAIN Changed(g, change, x) = DOMAIN g
         /\ \A pos \in DOMAIN g :
              pos # change.pos \/ change.field # "extent" =>
                Changed(g, change, x)[pos].extent = g[pos].extent
<1> DEFINE pos == change.pos
           h == Changed(g, change, x)
           new == [g[pos] EXCEPT ![change.field] = x]
<1>1. change.field \in {"fdIndex", "offset", "extent"}
  BY LifecycleAssumption
<1>2. PICK m \in 0 .. 4 : g \in [0 .. m - 1 -> items]
  BY DEF Vectors
<1>3. g[pos] \in items /\ pos \in 0 .. m - 1
  BY <1>2
<1>4. IntModulus - 1 <= SizeMax
  BY LayoutFacts DEF SizeMax
<1>5. new \in items /\ (change.field # "extent" => new.extent = g[pos].extent)
  <2> DEFINE old == g[pos]
  <2>1. old \in items
    BY <1>3
  <2>2. x \in 0 .. IntModulus - 1 => x \in 0 .. SizeMax
    BY <1>4, LayoutFacts DEF SizeMax
  <2>3. items = Signed \/ items = Unsigned
    OBVIOUS
  <2>4. \/ items = Signed /\ x \in Int
        \/ items = Unsigned /\ x \in 0 .. IntModulus - 1
    OBVIOUS
  <2>5. new = [old EXCEPT ![change.field] = x]
    OBVIOUS
  <2> HIDE DEF new, old
  <2>6. CASE change.field = "fdIndex"
    <3>1. new = [old EXCEPT !.fdIndex = x]
      BY <2>5, <2>6
    <3>2. items = Signed /\ x \in Int => new \in items
      BY <2>1, <3>1 DEF Signed
    <3>3. items = Unsigned /\ x \in 0 .. IntModulus - 1 => new \in items
      BY <2>1, <2>2, <3>1 DEF Unsigned
    <3>4. new.extent = old.extent
      BY <2>1, <2>3, <3>1 DEF Signed, Unsigned
    <3> QED
      BY <2>4, <3>2, <3>3, <3>4 DEF old
  <2>7. CASE change.field = "offset"
    <3>1. new = [old EXCEPT !.offset = x]
      BY <2>5, <2>7
    <3>2. items = Signed /\ x \in Int => new \in items
      BY <2>1, <3>1 DEF Signed
    <3>3. items = Unsigned /\ x \in 0 .. IntModulus - 1 => new \in items
      BY <2>1, <2>2, <3>1 DEF Unsigned
    <3>4. new.extent = old.extent
      BY <2>1, <2>3, <3>1 DEF Signed, Unsigned
    <3> QED
      BY <2>4, <3>2, <3>3, <3>4 DEF old
  <2>8. CASE change.field = "extent"
    <3>1. new = [old EXCEPT !.extent = x]
      BY <2>5, <2>8
    <3>2. items = Signed /\ x \in Int => new \in items
      BY <2>1, <3>1 DEF Signed
    <3>3. items = Unsigned /\ x \in 0 .. IntModulus - 1 => new \in items
      BY <2>1, <2>2, <3>1 DEF Unsigned
    <3> QED
      BY <2>4, <2>8, <3>2, <3>3
  <2> QED
    BY <1>1, <2>6, <2>7, <2>8
<1>6. h = [g EXCEPT ![pos] = new]
  BY <1>2, <1>3 DEF Changed
<1> HIDE DEF new, h, pos
<1>7. /\ h \in [0 .. m - 1 -> items] /\ DOMAIN h = DOMAIN g
      /\ h[pos] = new /\ \A other \in DOMAIN g : other # pos => h[other] = g[other]
  BY <1>2, <1>3, <1>5, <1>6
<1>8. h \in Vectors(items)
  BY <1>7 DEF Vectors
<1> QED
  BY <1>5, <1>7, <1>8 DEF h, pos

LEMMA ConstructingStep ==
  ASSUME BaseInv, NEW q \in Queues, Constructs(q)
  PROVE  BaseInv'
<1>1. origin \in [Queues \cup Kinds -> OriginType] /\ space \in [Pages -> PageType]
  BY DEF BaseInv, Types
<1>2. CASE AllocateReadPtr(q)
  BY <1>1, <1>2, AllocateCases, ReplaceStep
<1>3. CASE MapGrantorDescr(q)
  BY <1>1, <1>3, MapCases, ReplaceStep
<1>4. CASE ResetFaults(q)
  BY <1>4, DeathStep DEF ResetFaults
<1>5. CASE InitMemoryFails(q)
  <2>1. space' \in [Pages -> PageType]
    BY <1>1, <1>5, ReleaseType DEF InitMemoryFails
  <2> QED
    BY <1>1, <1>5, <2>1, FailsCases, ReplaceStep
<1> QED
  BY <1>2, <1>3, <1>4, <1>5 DEF Constructs

LEMMA BaseNext == BaseInv /\ [Next]_vars => BaseInv'
<1> SUFFICES ASSUME BaseInv, [Next]_vars  PROVE BaseInv'
  OBVIOUS
<1>1. /\ origin \in [Queues \cup Kinds -> OriginType] /\ space \in [Pages -> PageType]
      /\ hidl \in DescType /\ parcel \in ParcelType /\ Room \in Nat /\ opened \in Nat
      /\ opened <= FdLimit /\ FdLimit \in Nat /\ opened + Room = FdLimit
  BY BaseFacts, BoundFacts DEF BaseInv, Types, Room
<1>2. \A q \in Queues : q \in Queues \cup Kinds
  OBVIOUS
<1>3. "hidl" \in Kinds /\ "aidl" \in Kinds
  BY DEF Kinds
<1>4. ASSUME NEW q \in Creators, NEW setup \in Setups, Create(q, setup)  PROVE BaseInv'
  <2>1. q \in Queues /\ queue[q].stage = "absent"
    BY <1>4 DEF Queues, Create
  <2>2. CASE ProcessDies
    BY <2>2, DeathStep
  <2>3. CASE \E object : Installs(q, object) /\ (UNCHANGED origin \/ origin' = [origin EXCEPT ![q] = "genuine"])
    <3>1. origin' \in [Queues \cup Kinds -> OriginType]
      BY <1>1, <2>3 DEF OriginType
    <3> QED
      BY <2>1, <2>3, <3>1, InstallStep
  <2> QED
    BY <1>4, <2>2, <2>3, CreateCases
<1>5. ASSUME NEW q \in Queues, queue[q].stage = "absent", UNCHANGED <<space, opened, hidl, parcel, origin>>,
             queue' = [queue EXCEPT ![q] = QueueWithoutDescriptor]
      PROVE  BaseInv'
  BY <1>1, <1>5, InstallsNothing, InstallStep
<1>6. ASSUME NEW q \in Creators, NEW setup \in Setups, CreateWithoutMemory(q, setup)
      PROVE  BaseInv'
  BY <1>5, <1>6 DEF CreateWithoutMemory, Queues
<1>7. ASSUME NEW q \in Attachers, AttachWithoutMemory(q)  PROVE BaseInv'
  BY <1>5, <1>7 DEF AttachWithoutMemory, Queues
<1>8. ASSUME NEW q \in Attachers, NEW sizeofT \in AttachSizes, NEW resets \in BOOLEAN,
             AttachHidl(q, sizeofT, resets)
      PROVE  BaseInv'
  <2>1. origin' \in [Queues \cup Kinds -> OriginType]
    BY <1>1, <1>3, <1>8, AttachHidlCases
  <2> QED
    BY <1>8, <2>1, AttachHidlCases, InstallStep DEF Queues
<1>9. ASSUME NEW q \in Attachers, NEW flavor \in Flavors, NEW sizeofT \in AttachSizes,
             NEW resets \in BOOLEAN, AttachAidl(q, flavor, sizeofT, resets)
      PROVE  BaseInv'
  <2>1. origin' \in [Queues \cup Kinds -> OriginType]
    BY <1>1, <1>3, <1>9, AttachAidlCases
  <2> QED
    BY <1>9, <2>1, AttachAidlCases, InstallStep DEF Queues
<1>10. ASSUME NEW q \in Queues, Destroy(q)  PROVE BaseInv'
  <2>1. space' \in [Pages -> PageType]
    BY <1>1, <1>10, ReleaseType DEF Destroy
  <2>2. Replaces(q, NoQueue) /\ origin' \in [Queues \cup Kinds -> OriginType]
    BY <1>1, <1>10, DestroyCases DEF OriginType
  <2> QED
    BY <2>1, <2>2, ReplaceStep
<1>11. ASSUME NEW q \in Queues, SendHidl(q)  PROVE BaseInv'
  <2> DEFINE desc == CopyDescriptor(queue[q].desc, Room)
  <2>1. /\ queue[q].kind = "hidl" /\ hidl = NoDescriptor
        /\ hidl' = desc /\ opened' = opened + OpenFds(hidl'.handle.fds)
        /\ origin' = [origin EXCEPT !["hidl"] = origin[q]]
        /\ UNCHANGED <<space, queue, parcel>>
    BY <1>11 DEF SendHidl
  <2>2. queue[q].desc \in DescType /\ queue[q].desc.flags \in Flavors
    BY <2>1, BaseFacts DEF InOrder
  <2>3. desc \in DescType /\ OpenFds(desc.handle.fds) \in 0 .. Room /\ desc.flags \in Flavors
    BY <1>1, <2>2, CopyType
  <2>4. OpenFds(hidl.handle.fds) = 0
    BY <2>1, BadFile, EmptyHanded
  <2>5. opened' = opened - OpenFds(hidl.handle.fds) + OpenFds(hidl'.handle.fds) /\ opened' <= FdLimit
    <3> HIDE DEF desc
    <3> QED
      BY <1>1, <2>1, <2>3, <2>4
  <2>6. origin' \in [Queues \cup Kinds -> OriginType]
    BY <1>1, <1>3, <2>1
  <2> QED
    BY <2>1, <2>3, <2>5, <2>6, HidlStep
<1>12. ASSUME NEW q \in Queues, DupeDesc(q)  PROVE BaseInv'
  <2> DEFINE p == DupedDesc(queue[q].desc, Room)
  <2>1. /\ parcel = EmptyParcel
        /\ parcel' = p /\ opened' = opened + OpenFds(parcel'.fds)
        /\ origin' = [origin EXCEPT !["aidl"] = origin[q]]
        /\ UNCHANGED <<space, queue, hidl>>
    BY <1>12 DEF DupeDesc
  <2>2. queue[q].desc \in DescType
    BY BaseFacts
  <2>3. p \in ParcelType /\ OpenFds(p.fds) \in 0 .. Room
    BY <1>1, <2>2, DupedType
  <2>4. OpenFds(parcel.fds) = 0
    BY <2>1, BadFile, EmptyHanded
  <2>5. opened' = opened - OpenFds(parcel.fds) + OpenFds(parcel'.fds) /\ opened' <= FdLimit
    <3> HIDE DEF p
    <3> QED
      BY <1>1, <2>1, <2>3, <2>4
  <2>6. origin' \in [Queues \cup Kinds -> OriginType]
    BY <1>1, <1>3, <2>1
  <2> QED
    BY <2>1, <2>3, <2>5, <2>6, ParcelStep
<1>13. ASSUME NEW flavor \in Flavors, UnsafeHidlToAidl(flavor)  PROVE BaseInv'
  <2> DEFINE p == ConvertedParcel(hidl, flavor, Room)
  <2>1. /\ parcel = EmptyParcel
        /\ parcel' = p /\ opened' = opened + OpenFds(parcel'.fds)
        /\ origin' = [origin EXCEPT !["aidl"] =
                        IF Converts(hidl, flavor) THEN origin["hidl"] ELSE "failed"]
        /\ UNCHANGED <<space, queue, hidl>>
    BY <1>13 DEF UnsafeHidlToAidl
  <2>2. p \in ParcelType /\ OpenFds(p.fds) \in 0 .. Room
    BY <1>1, ConvertedType
  <2>3. OpenFds(parcel.fds) = 0
    BY <2>1, BadFile, EmptyHanded
  <2>4. opened' = opened - OpenFds(parcel.fds) + OpenFds(parcel'.fds) /\ opened' <= FdLimit
    <3> HIDE DEF p
    <3> QED
      BY <1>1, <2>1, <2>2, <2>3
  <2>5. origin' \in [Queues \cup Kinds -> OriginType]
    BY <1>1, <1>3, <2>1 DEF OriginType
  <2> QED
    BY <2>1, <2>2, <2>4, <2>5, ParcelStep
<1>14. CASE Protect
  <2>1. UNCHANGED <<space, opened, queue, hidl, parcel, origin>>
    BY <1>14 DEF Protect
  <2> QED
    BY <2>1 DEF BaseInv, Types, Progress, FdInv, FdsKept, Fds
<1>15. ASSUME NEW change \in Changes, MalformParcel(change)  PROVE BaseInv'
  <2> DEFINE g == Changed(parcel.grantors, change, change.value)
  <2>1. /\ change.pos \in DOMAIN parcel.grantors /\ change.value \in Int
        /\ parcel' = [parcel EXCEPT !.grantors = g]
        /\ origin' = [origin EXCEPT !["aidl"] = "malformed"]
        /\ UNCHANGED <<space, opened, queue, hidl>>
    BY <1>15, LifecycleAssumption DEF MalformParcel
  <2>2. parcel.grantors \in Vectors(Signed)
    BY <1>1 DEF ParcelType
  <2>3. g \in Vectors(Signed)
    BY <2>1, <2>2, ChangedFacts
  <2> HIDE DEF g
  <2>4. parcel' \in ParcelType /\ parcel'.fds = parcel.fds
    BY <1>1, <2>1, <2>3 DEF ParcelType
  <2>5. OpenFds(parcel.fds) \in Nat
    BY BaseFacts, HandleFacts
  <2>6. opened' = opened - OpenFds(parcel.fds) + OpenFds(parcel'.fds) /\ opened' <= FdLimit
    BY <1>1, <2>1, <2>4, <2>5
  <2>7. origin' \in [Queues \cup Kinds -> OriginType]
    BY <1>1, <1>3, <2>1 DEF OriginType
  <2> QED
    BY <2>1, <2>4, <2>6, <2>7, ParcelStep
<1>16. ASSUME NEW change \in Changes, MalformHidl(change)  PROVE BaseInv'
  <2> DEFINE g == Changed(hidl.grantors, change, ToUint32(change.value))
  <2>1. /\ change.pos \in DOMAIN hidl.grantors /\ change.value \in Int
        /\ hidl' = [hidl EXCEPT !.grantors = g]
        /\ origin' = [origin EXCEPT !["hidl"] = "malformed"]
        /\ UNCHANGED <<space, opened, queue, parcel>>
    BY <1>16, LifecycleAssumption DEF MalformHidl
  <2>2. hidl.grantors \in Vectors(Unsigned)
    BY <1>1 DEF DescType
  <2>3. g \in Vectors(Unsigned)
    <3>1. ToUint32(change.value) \in 0 .. IntModulus - 1
      BY <2>1, UnsignedCasts
    <3> QED
      BY <2>1, <2>2, <3>1, ChangedFacts
  <2> HIDE DEF g
  <2>4. hidl' \in DescType /\ hidl'.handle.fds = hidl.handle.fds /\ hidl'.flags = hidl.flags
    BY <1>1, <2>1, <2>3 DEF DescType
  <2>5. hidl'.flags \in Flavors
    <3>1. hidl # NoDescriptor
      BY <2>1, EmptyHanded, NothingOpen
    <3> QED
      BY <2>4, <3>1 DEF BaseInv, Types
  <2>6. OpenFds(hidl.handle.fds) \in Nat
    BY BaseFacts, HandleFacts
  <2>7. opened' = opened - OpenFds(hidl.handle.fds) + OpenFds(hidl'.handle.fds) /\ opened' <= FdLimit
    BY <1>1, <2>1, <2>4, <2>6
  <2>8. origin' \in [Queues \cup Kinds -> OriginType]
    BY <1>1, <1>3, <2>1 DEF OriginType
  <2> QED
    BY <2>1, <2>4, <2>5, <2>7, <2>8, HidlStep
<1>17. CASE DropHidl
  <2>1. /\ hidl' = NoDescriptor /\ opened' = opened - OpenFds(hidl.handle.fds)
        /\ origin' = [origin EXCEPT !["hidl"] = "genuine"]
        /\ UNCHANGED <<space, queue, parcel>>
    BY <1>17 DEF DropHidl
  <2>2. OpenFds(hidl'.handle.fds) = 0 /\ OpenFds(hidl.handle.fds) \in Nat
    BY <2>1, BadFile, EmptyHanded, BaseFacts, HandleFacts
  <2>3. opened' = opened - OpenFds(hidl.handle.fds) + OpenFds(hidl'.handle.fds) /\ opened' <= FdLimit
    BY <1>1, <2>1, <2>2
  <2>4. origin' \in [Queues \cup Kinds -> OriginType]
    BY <1>1, <1>3, <2>1 DEF OriginType
  <2> QED
    BY <2>1, <2>3, <2>4, NothingTyped, HidlStep
<1>18. CASE DropParcel
  <2>1. /\ parcel' = EmptyParcel /\ opened' = opened - OpenFds(parcel.fds)
        /\ origin' = [origin EXCEPT !["aidl"] = "genuine"]
        /\ UNCHANGED <<space, queue, hidl>>
    BY <1>18 DEF DropParcel
  <2>2. OpenFds(parcel'.fds) = 0 /\ OpenFds(parcel.fds) \in Nat
    BY <2>1, BadFile, EmptyHanded, BaseFacts, HandleFacts
  <2>3. opened' = opened - OpenFds(parcel.fds) + OpenFds(parcel'.fds) /\ opened' <= FdLimit
    BY <1>1, <2>1, <2>2
  <2>4. origin' \in [Queues \cup Kinds -> OriginType]
    BY <1>1, <1>3, <2>1 DEF OriginType
  <2> QED
    BY <2>1, <2>3, <2>4, NothingTyped, ParcelStep
<1>19. CASE UNCHANGED vars
  BY <1>19 DEF vars, BaseInv, Types, Progress, FdInv, FdsKept, Fds
<1> QED
  BY <1>4, <1>6, <1>7, <1>8, <1>9, <1>10, <1>11, <1>12, <1>13, <1>14, <1>15, <1>16, <1>17, <1>18,
     <1>19, ConstructingStep DEF Next

\* Every object is in one of its stages, an EventFlag is made of a mapped word,
\* a constructed queue has all of its pointers or none, and files and
\* descriptors keep to their bounds.
THEOREM LifecycleTypeCorrect == Spec => []TypeOK
<1>1. BaseInv => TypeOK
  <2> SUFFICES ASSUME BaseInv  PROVE TypeOK
    OBVIOUS
  <2>1. \A p \in Pages : space[p].file.id \in 0 .. NumFiles
    BY DEF BaseInv, Types, PageType, Files
  <2>2. ASSUME NEW q \in Queues
        PROVE  /\ queue[q].stage \in {"absent", "mapping", "done"}
               /\ queue[q].next \in Positions(TRUE)
               /\ queue[q].kind \in Kinds /\ queue[q].flavor \in Flavors
               /\ queue[q].eventFlag \in BOOLEAN
               /\ queue[q].eventFlag => IsPointer(queue[q].ptr[EVFLAGWORDPOS])
               /\ queue[q].stage # "done" \/ IsValid(q) \/ queue[q].ptr = NoPtrs
    <3>1. queue[q] \in QueueType /\ InOrder(queue[q])
      BY BaseFacts
    <3>2. \A pos \in {READPTRPOS, WRITEPTRPOS, DATAPTRPOS} :
            pos \in Positions(TRUE) /\ pos <= LastOf(queue[q])
      BY DEF LastOf, Positions, READPTRPOS, WRITEPTRPOS, DATAPTRPOS, EVFLAGWORDPOS
    <3>3. queue[q].stage # "done" \/ IsValid(q) \/ queue[q].ptr = NoPtrs
      BY <3>1, <3>2 DEF InOrder, IsValid
    <3>4. queue[q].eventFlag => IsPointer(queue[q].ptr[EVFLAGWORDPOS])
      BY <3>1 DEF InOrder, QueueType
    <3> QED
      BY <3>1, <3>3, <3>4 DEF QueueType
  <2> QED
    BY <2>1, <2>2, BaseFacts DEF TypeOK
<1> QED
  BY <1>1, BaseInit, BaseNext, PTL DEF Spec

\* However constructions fail, whatever descriptors are sent, converted, changed
\* or dropped, and even if dup() or ashmem_create_region runs out of them, the
\* open file descriptors are those that queues, shims and descriptors hold.
THEOREM DescriptorsAreAccountedFor == Spec => []NoFdLeak
<1>1. BaseInv => NoFdLeak
  BY DEF BaseInv, FdInv, NoFdLeak
<1> QED
  BY <1>1, BaseInit, BaseNext, PTL DEF Spec

-----------------------------------------------------------------------------
(* Conversions that fail *)

\* A conversion that fails leaves a quantum of 0, which no cast and no copy of
\* the descriptor changes, and which initMemory refuses.
FailedInv ==
  /\ \A q \in Queues : origin[q] = "failed" => queue[q].desc.quantum = 0
  /\ origin["hidl"] = "failed" => hidl.quantum = 0
  /\ origin["aidl"] = "failed" => parcel.quantum = 0

LEMMA ZeroCasts == ToUint32(0) = 0 /\ ToInt32(0) = 0
  BY LayoutFacts, UnsignedCasts, Int32Cast

\* A step that gives one holder another origin, and leaves the others theirs.
LEMMA OriginOfOne ==
  ASSUME Types, NEW holder \in Queues \cup Kinds, NEW value,
         origin' = [origin EXCEPT ![holder] = value]
  PROVE  /\ origin'[holder] = value
         /\ \A other \in (Queues \cup Kinds) \ {holder} : origin'[other] = origin[other]
BY DEF Types

LEMMA HolderNames ==
  /\ "hidl" \in Kinds /\ "aidl" \in Kinds /\ "hidl" # "aidl"
  /\ \A q \in Queues : q \in Queues \cup Kinds /\ q # "hidl" /\ q # "aidl"
BY LifecycleAssumption DEF Queues, Kinds

LEMMA ReplacedQueue ==
  ASSUME Types, NEW q \in Queues, NEW object, queue' = [queue EXCEPT ![q] = object]
  PROVE  queue'[q] = object /\ \A r \in Queues \ {q} : queue'[r] = queue[r]
BY DEF Types

\* A step that puts a descriptor with this quantum into q.
LEMMA FailedQueueStep ==
  ASSUME Types, FailedInv, NEW q \in Queues, NEW object, NEW value,
         queue' = [queue EXCEPT ![q] = object], UNCHANGED <<hidl, parcel>>,
         \/ UNCHANGED origin /\ value = origin[q]
         \/ origin' = [origin EXCEPT ![q] = value],
         value = "failed" => object.desc.quantum = 0
  PROVE  FailedInv'
<1>1. origin'[q] = value /\ \A other \in (Queues \cup Kinds) \ {q} : origin'[other] = origin[other]
  BY OriginOfOne, HolderNames
<1>2. queue'[q] = object /\ \A r \in Queues \ {q} : queue'[r] = queue[r]
  BY ReplacedQueue
<1>3. \A r \in Queues : origin'[r] = "failed" => queue'[r].desc.quantum = 0
  <2> SUFFICES ASSUME NEW r \in Queues, origin'[r] = "failed"
               PROVE  queue'[r].desc.quantum = 0
    OBVIOUS
  <2>1. CASE r = q
    BY <1>1, <1>2, <2>1
  <2>2. CASE r # q
    BY <1>1, <1>2, <2>2, HolderNames DEF FailedInv
  <2> QED
    BY <2>1, <2>2
<1> QED
  BY <1>1, <1>3, HolderNames DEF FailedInv

LEMMA FailedHidlStep ==
  ASSUME Types, FailedInv, NEW value, origin' = [origin EXCEPT !["hidl"] = value],
         UNCHANGED <<queue, parcel>>, value = "failed" => hidl'.quantum = 0
  PROVE  FailedInv'
<1>1. /\ origin'["hidl"] = value
      /\ \A other \in (Queues \cup Kinds) \ {"hidl"} : origin'[other] = origin[other]
  BY OriginOfOne, HolderNames
<1> QED
  BY <1>1, HolderNames DEF FailedInv

LEMMA FailedParcelStep ==
  ASSUME Types, FailedInv, NEW value, origin' = [origin EXCEPT !["aidl"] = value],
         UNCHANGED <<queue, hidl>>, value = "failed" => parcel'.quantum = 0
  PROVE  FailedInv'
<1>1. /\ origin'["aidl"] = value
      /\ \A other \in (Queues \cup Kinds) \ {"aidl"} : origin'[other] = origin[other]
  BY OriginOfOne, HolderNames
<1> QED
  BY <1>1, HolderNames DEF FailedInv

LEMMA FailedNext == BaseInv /\ FailedInv /\ [Next]_vars => FailedInv'
<1> SUFFICES ASSUME BaseInv, FailedInv, [Next]_vars  PROVE FailedInv'
  OBVIOUS
<1>1. /\ Types /\ Room \in Nat /\ hidl \in DescType /\ parcel \in ParcelType
      /\ \A q \in Queues : queue[q].desc \in DescType
  BY BaseFacts DEF BaseInv
<1>2. CASE ProcessDies
  BY <1>2, HolderNames DEF ProcessDies, FailedInv, NoOrigins
<1>3. ASSUME NEW q \in Queues, NEW object, Replaces(q, object), object.desc = queue[q].desc,
             UNCHANGED origin
      PROVE  FailedInv'
  BY <1>1, <1>3, FailedQueueStep DEF Replaces, FailedInv
<1>4. ASSUME NEW q \in Queues, queue' = [queue EXCEPT ![q] = QueueWithoutDescriptor],
             UNCHANGED <<hidl, parcel, origin>>
      PROVE  FailedInv'
  <2>1. QueueWithoutDescriptor.desc.quantum = 0
    BY EmptyHanded DEF NoDescriptor, Descriptor
  <2> QED
    BY <1>1, <1>4, <2>1, FailedQueueStep
<1>5. ASSUME NEW q \in Creators, NEW setup \in Setups, Create(q, setup)  PROVE FailedInv'
  <2>1. q \in Queues
    BY DEF Queues
  <2>2. CASE Installs(q, QueueWithoutDescriptor) /\ UNCHANGED origin
    BY <1>4, <2>1, <2>2 DEF Installs
  <2>3. CASE \E object : Installs(q, object) /\ origin' = [origin EXCEPT ![q] = "genuine"]
    <3>1. PICK object : /\ queue' = [queue EXCEPT ![q] = object] /\ UNCHANGED <<hidl, parcel>>
                        /\ origin' = [origin EXCEPT ![q] = "genuine"]
      BY <2>3 DEF Installs
    <3> DEFINE value == "genuine"
    <3>2. origin' = [origin EXCEPT ![q] = value] /\ value # "failed"
      BY <3>1
    <3> HIDE DEF value
    <3> QED
      BY <1>1, <2>1, <3>1, <3>2, FailedQueueStep
  <2> QED
    BY <1>2, <1>5, <2>2, <2>3, CreateCases
<1>6. ASSUME NEW q \in Creators, NEW setup \in Setups, CreateWithoutMemory(q, setup)
      PROVE  FailedInv'
  BY <1>4, <1>6 DEF CreateWithoutMemory, Queues
<1>7. ASSUME NEW q \in Attachers, AttachWithoutMemory(q)  PROVE FailedInv'
  BY <1>4, <1>7 DEF AttachWithoutMemory, Queues
<1>8. ASSUME NEW q \in Attachers, NEW sizeofT \in AttachSizes, NEW resets \in BOOLEAN,
             AttachHidl(q, sizeofT, resets)
      PROVE  FailedInv'
  <2>1. PICK object : Installs(q, object) /\ object.desc = CopyDescriptor(hidl, Room)
    BY <1>8, AttachHidlCases DEF Queues
  <2>2. object.desc.quantum = hidl.quantum
    BY <1>1, <2>1, CopyType
  <2>3. origin' = [origin EXCEPT ![q] = origin["hidl"]]
    BY <1>8, AttachHidlCases
  <2> QED
    BY <1>1, <2>1, <2>2, <2>3, FailedQueueStep DEF Installs, Queues, FailedInv
<1>9. ASSUME NEW q \in Attachers, NEW flavor \in Flavors, NEW sizeofT \in AttachSizes,
             NEW resets \in BOOLEAN, AttachAidl(q, flavor, sizeofT, resets)
      PROVE  FailedInv'
  <2>1. PICK object : Installs(q, object) /\ object.desc = ShimCopy
    BY <1>9, AttachAidlCases DEF Queues
  <2>2. object.desc.quantum = ToUint32(parcel.quantum)
    <3>1. /\ Shim(parcel, Room) \in DescType /\ Shim(parcel, Room).quantum = ToUint32(parcel.quantum)
          /\ OpenFds(Shim(parcel, Room).handle.fds) \in 0 .. Room
      BY <1>1, ShimType
    <3>2. Room - OpenFds(Shim(parcel, Room).handle.fds) \in Nat
      BY <1>1, <3>1
    <3> QED
      BY <2>1, <3>1, <3>2, CopyType DEF ShimCopy
  <2>3. origin' = [origin EXCEPT ![q] = origin["aidl"]]
    BY <1>9, AttachAidlCases
  <2> QED
    BY <1>1, <2>1, <2>2, <2>3, ZeroCasts, FailedQueueStep DEF Installs, Queues, FailedInv
<1>10. ASSUME NEW q \in Queues, Constructs(q)  PROVE FailedInv'
  <2>1. CASE AllocateReadPtr(q)
    BY <1>3, <2>1, AllocateCases
  <2>2. CASE MapGrantorDescr(q)
    BY <1>3, <2>2, MapCases
  <2>3. CASE ResetFaults(q)
    BY <1>2, <2>3 DEF ResetFaults
  <2>4. CASE InitMemoryFails(q)
    BY <1>3, <2>4, FailsCases
  <2> QED
    BY <1>10, <2>1, <2>2, <2>3, <2>4 DEF Constructs
<1>11. ASSUME NEW q \in Queues, Destroy(q)  PROVE FailedInv'
  <2>1. /\ queue' = [queue EXCEPT ![q] = NoQueue] /\ origin' = [origin EXCEPT ![q] = "genuine"]
        /\ UNCHANGED <<hidl, parcel>>
    BY <1>11 DEF Destroy
  <2>2. NoQueue.desc.quantum = 0
    BY EmptyHanded DEF NoDescriptor, Descriptor
  <2> QED
    BY <1>1, <2>1, <2>2, FailedQueueStep
<1>12. ASSUME NEW q \in Queues, SendHidl(q)  PROVE FailedInv'
  <2>1. hidl' = CopyDescriptor(queue[q].desc, Room) /\ origin' = [origin EXCEPT !["hidl"] = origin[q]]
        /\ UNCHANGED <<queue, parcel>>
    BY <1>12 DEF SendHidl
  <2>2. hidl'.quantum = queue[q].desc.quantum
    BY <1>1, <2>1, CopyType
  <2> QED
    BY <1>1, <2>1, <2>2, FailedHidlStep DEF FailedInv
<1>13. ASSUME NEW q \in Queues, DupeDesc(q)  PROVE FailedInv'
  <2>1. parcel' = DupedDesc(queue[q].desc, Room) /\ origin' = [origin EXCEPT !["aidl"] = origin[q]]
        /\ UNCHANGED <<queue, hidl>>
    BY <1>13 DEF DupeDesc
  <2>2. parcel'.quantum = ToInt32(queue[q].desc.quantum)
    BY <1>1, <2>1, DupedType
  <2> QED
    BY <1>1, <2>1, <2>2, ZeroCasts, FailedParcelStep DEF FailedInv
<1>14. ASSUME NEW flavor \in Flavors, UnsafeHidlToAidl(flavor)  PROVE FailedInv'
  <2> DEFINE value == IF Converts(hidl, flavor) THEN origin["hidl"] ELSE "failed"
  <2>1. parcel' = ConvertedParcel(hidl, flavor, Room) /\ origin' = [origin EXCEPT !["aidl"] = value]
        /\ UNCHANGED <<queue, hidl>>
    BY <1>14 DEF UnsafeHidlToAidl
  <2>2. parcel'.quantum = IF Converts(hidl, flavor) THEN ToInt32(hidl.quantum) ELSE 0
    BY <1>1, <2>1, ConvertedType
  <2>3. value = "failed" => parcel'.quantum = 0
    BY <2>2, ZeroCasts DEF FailedInv
  <2> HIDE DEF value
  <2> QED
    BY <1>1, <2>1, <2>3, FailedParcelStep
<1>15. CASE Protect
  BY <1>15 DEF Protect, FailedInv
<1>16. ASSUME NEW change \in Changes, MalformParcel(change)  PROVE FailedInv'
  <2>1. origin' = [origin EXCEPT !["aidl"] = "malformed"] /\ UNCHANGED <<queue, hidl>>
    BY <1>16 DEF MalformParcel
  <2> QED
    BY <1>1, <2>1, FailedParcelStep
<1>17. ASSUME NEW change \in Changes, MalformHidl(change)  PROVE FailedInv'
  <2>1. origin' = [origin EXCEPT !["hidl"] = "malformed"] /\ UNCHANGED <<queue, parcel>>
    BY <1>17 DEF MalformHidl
  <2> QED
    BY <1>1, <2>1, FailedHidlStep
<1>18. CASE DropHidl
  <2>1. origin' = [origin EXCEPT !["hidl"] = "genuine"] /\ UNCHANGED <<queue, parcel>>
    BY <1>18 DEF DropHidl
  <2> QED
    BY <1>1, <2>1, FailedHidlStep
<1>19. CASE DropParcel
  <2>1. origin' = [origin EXCEPT !["aidl"] = "genuine"] /\ UNCHANGED <<queue, hidl>>
    BY <1>19 DEF DropParcel
  <2> QED
    BY <1>1, <2>1, FailedParcelStep
<1>20. CASE UNCHANGED vars
  BY <1>20 DEF vars, FailedInv
<1> QED
  BY <1>5, <1>6, <1>7, <1>8, <1>9, <1>10, <1>11, <1>12, <1>13, <1>14, <1>15, <1>16, <1>17, <1>18,
     <1>19, <1>20 DEF Next

\* Whatever is done with the parcel of a conversion that returned false, also
\* sent on, attached to and sent again, no queue made of it is ever valid.
THEOREM FailedConversionsMakeNoQueue == Spec => []NoQueueFromFailedConversion
<1>1. Init => FailedInv
  BY HolderNames DEF Init, FailedInv, NoOrigins
<1>2. BaseInv /\ FailedInv => NoQueueFromFailedConversion
  <2> SUFFICES ASSUME BaseInv, FailedInv, NEW q \in Queues, origin[q] = "failed", IsValid(q)
               PROVE  FALSE
    BY DEF NoQueueFromFailedConversion
  <2>1. queue[q] \in QueueType /\ InOrder(queue[q])
    BY BaseFacts
  <2>2. DATAPTRPOS \in Positions(TRUE)
    BY DEF Positions, READPTRPOS, DATAPTRPOS, EVFLAGWORDPOS
  <2>3. queue[q].ptr # NoPtrs
    BY <2>2 DEF IsValid, NoPtrs
  <2>4. queue[q].stage # "absent"
    BY <2>1, <2>3, EmptyHanded DEF InOrder
  <2>5. Maps(queue[q].desc, queue[q].sizeofT)
    BY <2>1, <2>3, <2>4 DEF InOrder, QueueType
  <2>6. queue[q].sizeofT # 0
    BY <2>1 DEF QueueType
  <2> QED
    BY <2>5, <2>6 DEF Maps, FailedInv
<1> QED
  BY <1>1, <1>2, FailedNext, BaseInit, BaseNext, PTL DEF Spec

-----------------------------------------------------------------------------
(* Unmapping *)

Freed(from, pages) == [p \in Pages |-> IF p \in pages THEN Free ELSE from[p]]

LEMMA FreedTwice ==
  ASSUME NEW from, NEW X, NEW Y
  PROVE  Freed(Freed(from, X), Y) = Freed(from, X \cup Y)
BY DEF Freed

LEMMA FreedNothing ==
  ASSUME NEW from \in [Pages -> PageType]
  PROVE  Freed(from, {}) = from
BY DEF Freed

\* Where a pointer leads and which pages it holds.
LEMMA HeldFacts ==
  ASSUME BaseInv, NEW q \in Queues, NEW pos \in Positions(TRUE), IsPointer(queue[q].ptr[pos]),
         Mapped(q, pos)
  PROVE  LET g       == Grantors(q)[pos]
             address == queue[q].ptr[pos]
         IN  /\ address \in Nat /\ address % PageSize = InPage(g)
             /\ address \div PageSize \in Nat
             /\ address = PageSize * (address \div PageSize) + InPage(g)
             /\ pos \in DOMAIN Grantors(q) /\ g \in Unsigned /\ g.offset % WordSize = 0
             /\ MapLength(g) \in Nat /\ MapLength(g) > 0
             /\ PagesAt(q, pos) = Run(address \div PageSize, MapLength(g))
             /\ \A p \in PagesAt(q, pos) : p \in Pages /\ space[p].file # Bad /\ space[p] # Free
<1> DEFINE g == Grantors(q)[pos]
           address == queue[q].ptr[pos]
<1>1. CanMap(Grantors(q), Count(Fds(q)), pos)
  BY DEF Mapped
<1>2. /\ pos \in DOMAIN Grantors(q) /\ g \in Unsigned /\ g.offset \in Nat /\ g.extent \in Nat
      /\ InPage(g) = g.offset % PageSize /\ InPage(g) \in 0 .. PageSize - 1
      /\ MapLength(g) = InPage(g) + g.extent /\ MapLength(g) \in Nat
  BY <1>1, GrantorFacts
<1>3. g.offset % WordSize = 0
  BY <1>1 DEF CanMap, IsAlignedToWordBoundary
<1>4. address \in Nat
  <2>1. queue[q] \in QueueType
    BY BaseFacts
  <2> QED
    BY <2>1 DEF QueueType, IsPointer
<1>5. address % PageSize = InPage(g)
  BY <1>2 DEF Mapped, Reaches
<1>6. address \div PageSize \in Nat /\ address = PageSize * (address \div PageSize) + InPage(g)
  <2> HIDE DEF address, g
  <2>1. address \div PageSize \in Int /\ address = PageSize * (address \div PageSize) + (address % PageSize)
        /\ address \div PageSize >= 0
    BY <1>4, LayoutFacts, Recombine
  <2> QED
    BY <1>5, <2>1
<1>7. MapLength(g) > 0
  BY DEF Mapped
<1>8. PagesAt(q, pos) = Run(address \div PageSize, MapLength(g))
  BY DEF PagesAt
<1>9. \A p \in PagesAt(q, pos) : p \in Pages /\ space[p].file # Bad /\ space[p] # Free
  <2>1. (g.offset % PageSize) + g.extent = MapLength(g)
    BY <1>2
  <2>2. \A p \in Run(address \div PageSize, MapLength(g)) : p \in Pages /\ space[p].file = FileOf(q, pos)
    BY <2>1 DEF Mapped, Reaches
  <2>3. FileOf(q, pos) # Bad
    BY DEF Mapped
  <2> QED
    BY <1>8, <2>2, <2>3, FreeFacts
<1> QED
  BY <1>2, <1>3, <1>4, <1>5, <1>6, <1>7, <1>8, <1>9

\* An address of a page, given as that of a byte and the byte's place in its page.
LEMMA PageOfAddress ==
  ASSUME NEW page \in Int, NEW rest \in 0 .. PageSize - 1, NEW address,
         address = PageSize * page + rest
  PROVE  /\ (address - rest) % PageSize = 0 /\ (address - rest) \div PageSize = page
         /\ address % PageSize = rest /\ address \div PageSize = page
<1> DEFINE base == address - rest
<1>1. PageSize \in Nat \ {0} /\ PageSize * page \in Int
  BY LayoutFacts
<1>2. base \in Int /\ base = PageSize * page + 0 /\ 0 \in Int /\ 0 < PageSize /\ 0 <= 0
  BY <1>1
<1>3. address \in Int /\ rest \in Int /\ 0 <= rest /\ rest < PageSize
  BY <1>1
<1> HIDE DEF base
<1>4. base % PageSize = 0 /\ base \div PageSize = page
  BY <1>1, <1>2, RecombineUnique
<1>5. address % PageSize = rest /\ address \div PageSize = page
  BY <1>1, <1>3, RecombineUnique
<1> QED
  BY <1>4, <1>5 DEF base

\* unmapGrantorDescr with a pointer's own grantor returns the pages it holds.
LEMMA UnmapOwn ==
  ASSUME BaseInv, NEW q \in Queues, MapInv(q), NEW pos \in Positions(TRUE),
         NEW from \in [Pages -> PageType]
  PROVE  Unmap(from, q, pos, pos) = Freed(from, PagesAt(q, pos))
<1>1. CASE ~IsPointer(queue[q].ptr[pos])
  BY <1>1, FreedNothing DEF Unmap, IsPointer, PagesAt
<1>2. CASE IsPointer(queue[q].ptr[pos])
  <2> DEFINE g == Grantors(q)[pos]
             address == queue[q].ptr[pos]
  <2>1. Mapped(q, pos)
    BY <1>2 DEF MapInv
  <2>2. /\ address \in Nat /\ address % PageSize = InPage(g) /\ address \div PageSize \in Nat
        /\ address = PageSize * (address \div PageSize) + InPage(g)
        /\ pos \in DOMAIN Grantors(q) /\ MapLength(g) \in Nat /\ MapLength(g) > 0
        /\ PagesAt(q, pos) = Run(address \div PageSize, MapLength(g))
    BY <1>2, <2>1, HeldFacts
  <2>3. InPage(g) \in 0 .. PageSize - 1
    BY <2>1, GrantorFacts DEF Mapped
  <2>4. /\ BaseAddress(address, g) % PageSize = 0
        /\ BaseAddress(address, g) \div PageSize = address \div PageSize
    <3> HIDE DEF g, address
    <3> QED
      BY <2>2, <2>3, PageOfAddress DEF BaseAddress
  <2>5. Unmap(from, q, pos, pos) = Munmap(from, BaseAddress(address, g), MapLength(g))
    BY <1>2, <2>2 DEF Unmap, IsPointer
  <2>6. Munmap(from, BaseAddress(address, g), MapLength(g)) = Freed(from, PagesAt(q, pos))
    <3> HIDE DEF g, address
    <3>1. ~(BaseAddress(address, g) % PageSize # 0 \/ MapLength(g) <= 0)
      BY <2>2, <2>4
    <3> QED
      BY <2>2, <2>4, <3>1 DEF Munmap, Freed
  <2> QED
    BY <2>5, <2>6
<1> QED
  BY <1>1, <1>2

LEMMA FourPositions ==
  /\ READPTRPOS \in Positions(TRUE) /\ WRITEPTRPOS \in Positions(TRUE)
  /\ DATAPTRPOS \in Positions(TRUE) /\ EVFLAGWORDPOS \in Positions(TRUE)
  /\ \A pos \in Positions(TRUE) : pos \in {READPTRPOS, WRITEPTRPOS, DATAPTRPOS, EVFLAGWORDPOS}
  /\ \A q : Held(q) = PagesAt(q, READPTRPOS) \cup PagesAt(q, WRITEPTRPOS)
                       \cup PagesAt(q, DATAPTRPOS) \cup PagesAt(q, EVFLAGWORDPOS)
<1>1. Positions(TRUE) = {READPTRPOS, WRITEPTRPOS, DATAPTRPOS, EVFLAGWORDPOS}
  BY DEF Positions, READPTRPOS, WRITEPTRPOS, DATAPTRPOS, EVFLAGWORDPOS
<1> QED
  BY <1>1 DEF Held

\* The destructor returns everything the queue's pointers hold, and nothing else.
LEMMA DestroyedIsFreed ==
  ASSUME BaseInv, NEW q \in Queues, MapInv(q)
  PROVE  Destroyed(q) = Freed(space, Held(q))
<1>1. space \in [Pages -> PageType]
  BY DEF BaseInv, Types
<1> DEFINE a == Unmap(space, q, READPTRPOS, READPTRPOS)
           b == Unmap(a, q, WRITEPTRPOS, WRITEPTRPOS)
           c == Unmap(b, q, DATAPTRPOS, DATAPTRPOS)
           d == Unmap(c, q, EVFLAGWORDPOS, EVFLAGWORDPOS)
<1>2. a \in [Pages -> PageType] /\ a = Freed(space, PagesAt(q, READPTRPOS))
  BY <1>1, UnmapType, UnmapOwn, FourPositions
<1> HIDE DEF a
<1>3. b \in [Pages -> PageType] /\ b = Freed(a, PagesAt(q, WRITEPTRPOS))
  BY <1>2, UnmapType, UnmapOwn, FourPositions
<1> HIDE DEF b
<1>4. c \in [Pages -> PageType] /\ c = Freed(b, PagesAt(q, DATAPTRPOS))
  BY <1>3, UnmapType, UnmapOwn, FourPositions
<1> HIDE DEF c
<1>5. d = Freed(c, PagesAt(q, EVFLAGWORDPOS))
  BY <1>4, UnmapOwn, FourPositions
<1> HIDE DEF d
<1>6. d = Freed(space, Held(q))
  <2>1. b = Freed(space, PagesAt(q, READPTRPOS) \cup PagesAt(q, WRITEPTRPOS))
    BY <1>2, <1>3, FreedTwice
  <2>2. c = Freed(space, PagesAt(q, READPTRPOS) \cup PagesAt(q, WRITEPTRPOS)
                           \cup PagesAt(q, DATAPTRPOS))
    BY <1>4, <2>1, FreedTwice
  <2>3. d = Freed(space, PagesAt(q, READPTRPOS) \cup PagesAt(q, WRITEPTRPOS)
                           \cup PagesAt(q, DATAPTRPOS) \cup PagesAt(q, EVFLAGWORDPOS))
    BY <1>5, <2>2, FreedTwice
  <2> QED
    BY <2>3, FourPositions
<1> QED
  BY <1>6 DEF Destroyed, a, b, c, d

\* The rest of a word from an aligned place on is in the same page.
LEMMA WordInPage ==
  ASSUME NEW offset \in Nat, offset % WordSize = 0, NEW length \in 1 .. WordSize
  PROVE  (offset % PageSize) + length \in 1 .. PageSize
<1> DEFINE word == offset \div WordSize
           words == PageSize \div WordSize
           page == offset \div PageSize
           rest == offset % PageSize
<1>1. /\ PageSize \in Nat \ {0} /\ WordSize \in Nat \ {0} /\ PageSize % WordSize = 0
  BY LayoutFacts, LayoutAssumption
<1>2. words \in Int /\ PageSize = WordSize * words
  BY <1>1, Recombine
<1>3. word \in Int /\ offset = WordSize * word
  BY <1>1, Recombine
<1>4. page \in Int /\ rest \in 0 .. PageSize - 1 /\ offset = PageSize * page + rest
  BY <1>1, Recombine
<1> HIDE DEF word, words, page, rest
<1>5. rest = WordSize * (word - words * page)
  <2>1. PageSize * page = (WordSize * words) * page
    BY <1>2
  <2>2. (WordSize * words) * page = WordSize * (words * page)
    BY <1>1, <1>2, <1>4
  <2>3. WordSize * (word - words * page) = WordSize * word - WordSize * (words * page)
    BY <1>1, <1>2, <1>3, <1>4
  <2>4. rest = offset - PageSize * page /\ PageSize * page \in Int
    BY <1>1, <1>4
  <2> QED
    BY <1>3, <2>1, <2>2, <2>3, <2>4
<1> DEFINE k == word - words * page
<1>6. k \in Int /\ rest = WordSize * k
  BY <1>2, <1>3, <1>4, <1>5
<1> HIDE DEF k
<1>7. k < words
  <2> SUFFICES ASSUME k >= words  PROVE FALSE
    BY <1>2, <1>6
  <2>1. WordSize * k >= WordSize * words
    BY <1>1, <1>2, <1>6
  <2> QED
    BY <1>1, <1>2, <1>4, <1>6, <2>1
<1>8. WordSize * (k + 1) <= WordSize * words
  BY <1>1, <1>2, <1>6, <1>7
<1>9. WordSize * (k + 1) = rest + WordSize
  BY <1>1, <1>6
<1>10. rest + length \in 1 .. PageSize
  BY <1>1, <1>2, <1>4, <1>8, <1>9
<1> QED
  BY <1>10 DEF rest

\* A range of at most a page from the start of one is that page.
LEMMA OnePage ==
  ASSUME NEW first \in Int, NEW length \in 1 .. PageSize
  PROVE  Run(first, length) = {first}
<1>1. PagesOf(length) = 1
  <2> DEFINE x == length + PageSize - 1
  <2>1. /\ PageSize \in Nat \ {0} /\ x \in Int /\ 1 \in Int /\ x - PageSize \in Int
        /\ x = PageSize * 1 + (x - PageSize) /\ 0 <= x - PageSize /\ x - PageSize < PageSize
    BY LayoutFacts
  <2> HIDE DEF x
  <2>2. x \div PageSize = 1
    BY <2>1, RecombineUnique
  <2> QED
    BY <2>2 DEF x, PagesOf
<1> QED
  BY <1>1 DEF Run

LEMMA FirstOfRun ==
  ASSUME NEW first \in Int, NEW length \in Nat, length > 0
  PROVE  first \in Run(first, length)
<1> DEFINE x == length + PageSize - 1
<1>1. PageSize \in Nat \ {0} /\ x \in Int /\ x >= PageSize
  BY LayoutFacts
<1> HIDE DEF x
<1>2. x \div PageSize \in Int /\ x = PageSize * (x \div PageSize) + (x % PageSize)
      /\ x % PageSize \in 0 .. PageSize - 1
  BY <1>1, Recombine
<1>3. x \div PageSize >= 1
  <2> SUFFICES ASSUME x \div PageSize <= 0  PROVE FALSE
    BY <1>2
  <2>1. PageSize * (x \div PageSize) <= 0
    BY <1>1, <1>2
  <2> QED
    BY <1>1, <1>2, <2>1
<1> QED
  BY <1>3, <1>2 DEF x, PagesOf, Run

\* The error path of initMemory returns the pages of the counters, of the ring's
\* at most the first, and nothing else.
LEMMA UnwoundIsFreed ==
  ASSUME BaseInv, FlagInv, NEW q \in Queues, MapInv(q), queue[q].stage = "mapping"
  PROVE  \E pages : /\ Unwound(q) = Freed(space, pages)
                    /\ pages \subseteq Held(q)
                    /\ PagesAt(q, READPTRPOS) \cup PagesAt(q, WRITEPTRPOS) \subseteq pages
<1>1. space \in [Pages -> PageType]
  BY DEF BaseInv, Types
<1> DEFINE a == Unmap(space, q, READPTRPOS, READPTRPOS)
           b == Unmap(a, q, WRITEPTRPOS, WRITEPTRPOS)
           c == Unmap(b, q, DATAPTRPOS, EVFLAGWORDPOS)
           counters == PagesAt(q, READPTRPOS) \cup PagesAt(q, WRITEPTRPOS)
<1>2. a \in [Pages -> PageType] /\ a = Freed(space, PagesAt(q, READPTRPOS))
  BY <1>1, UnmapType, UnmapOwn, FourPositions
<1> HIDE DEF a
<1>3. b \in [Pages -> PageType] /\ b = Freed(a, PagesAt(q, WRITEPTRPOS))
  BY <1>2, UnmapType, UnmapOwn, FourPositions
<1> HIDE DEF b
<1>4. b = Freed(space, counters)
  BY <1>2, <1>3, FreedTwice
<1>5. counters \subseteq Held(q) /\ PagesAt(q, DATAPTRPOS) \subseteq Held(q)
  BY FourPositions
<1>6. Unwound(q) = c
  BY DEF Unwound, a, b
<1> HIDE DEF c
<1>7. CASE c = b
  BY <1>4, <1>5, <1>6, <1>7
<1>8. CASE c # b
  <2> DEFINE flag == Grantors(q)[EVFLAGWORDPOS]
             ring == Grantors(q)[DATAPTRPOS]
             address == queue[q].ptr[DATAPTRPOS]
             page == address \div PageSize
  <2>1. IsPointer(address) /\ EVFLAGWORDPOS \in DOMAIN Grantors(q)
    BY <1>8 DEF c, Unmap, IsPointer
  <2>2. c = Munmap(b, BaseAddress(address, flag), MapLength(flag))
    BY <2>1 DEF c, Unmap, IsPointer
  <2>3. BaseAddress(address, flag) % PageSize = 0
    BY <1>8, <2>2 DEF Munmap
  <2>4. Mapped(q, DATAPTRPOS)
    BY <2>1, FourPositions DEF MapInv
  <2>5. /\ address \in Nat /\ address % PageSize = InPage(ring) /\ page \in Nat
        /\ address = PageSize * page + InPage(ring)
        /\ ring \in Unsigned /\ ring.offset % WordSize = 0
        /\ MapLength(ring) \in Nat /\ MapLength(ring) > 0
        /\ PagesAt(q, DATAPTRPOS) = Run(page, MapLength(ring))
    BY <2>1, <2>4, HeldFacts, FourPositions
  <2>6. flag \in Unsigned /\ flag.extent = FlagSize
    <3>1. Grantors(q) \in Vectors(Unsigned)
      BY BaseFacts
    <3>2. flag \in Unsigned
      BY <2>1, <3>1, VectorFacts
    <3>3. ~queue[q].desc.handle.null
      BY MappingFacts DEF Maps
    <3> QED
      BY <2>1, <3>2, <3>3 DEF FlagInv, FlagFits
  <2>7. /\ InPage(flag) \in 0 .. PageSize - 1 /\ MapLength(flag) = InPage(flag) + FlagSize
    BY <2>6, PageFacts, LayoutFacts
  <2>8. /\ InPage(ring) = ring.offset % PageSize /\ InPage(ring) \in 0 .. PageSize - 1
    BY <2>5, PageFacts
  <2>9. ring.offset \in Nat
    BY <2>5, LayoutFacts DEF Unsigned
  <2> HIDE DEF flag, ring, address, page
  <2>10. InPage(flag) = InPage(ring)
    <3>1. PageSize \in Nat \ {0} /\ address - InPage(flag) \in Int /\ InPage(flag) \in Int
      BY <2>5, <2>7, LayoutFacts
    <3>2. (address - InPage(flag)) % PageSize = 0
      BY <2>3 DEF BaseAddress
    <3>3. PICK multiple \in Int : address - InPage(flag) = PageSize * multiple
      BY <3>1, <3>2, WholeMultiple
    <3>4. PageSize * multiple \in Int
      BY <3>1
    <3>5. address = PageSize * multiple + InPage(flag)
      BY <2>5, <3>1, <3>3, <3>4
    <3>6. address % PageSize = InPage(flag)
      BY <2>7, <3>3, <3>5, PageOfAddress
    <3> QED
      BY <2>5, <3>6
  <2>11. BaseAddress(address, flag) \div PageSize = page
    BY <2>5, <2>7, <2>10, PageOfAddress DEF BaseAddress
  <2>12. MapLength(flag) \in 1 .. PageSize
    <3>1. FlagSize \in 1 .. WordSize
      BY LayoutFacts
    <3>2. (ring.offset % PageSize) + FlagSize \in 1 .. PageSize
      BY <2>5, <2>9, <3>1, WordInPage
    <3> QED
      BY <2>7, <2>8, <2>10, <3>2
  <2>13. Run(page, MapLength(flag)) = {page}
    BY <2>5, <2>12, OnePage
  <2>14. page \in Held(q)
    BY <1>5, <2>5, FirstOfRun
  <2>15. c = Freed(b, {page})
    <3>1. ~(BaseAddress(address, flag) % PageSize # 0 \/ MapLength(flag) <= 0)
      BY <2>3, <2>12
    <3> QED
      BY <2>2, <2>11, <2>13, <3>1 DEF Munmap, Freed
  <2>16. c = Freed(space, counters \cup {page})
    BY <1>4, <2>15, FreedTwice
  <2> QED
    BY <1>5, <1>6, <2>14, <2>16
<1> QED
  BY <1>7, <1>8

-----------------------------------------------------------------------------
(* The extent of the flag *)

LEMMA FlagQueueStep ==
  ASSUME Types, FlagInv, NEW q \in Queues, NEW object,
         queue' = [queue EXCEPT ![q] = object], UNCHANGED <<hidl, parcel>>,
         ~object.desc.handle.null => FlagFits(object.desc.grantors)
  PROVE  FlagInv'
<1>1. queue'[q] = object /\ \A r \in Queues \ {q} : queue'[r] = queue[r]
  BY ReplacedQueue
<1>2. ASSUME NEW r \in Queues, ~queue'[r].desc.handle.null
      PROVE  FlagFits(queue'[r].desc.grantors)
  <2>1. CASE r = q
    BY <1>1, <1>2, <2>1
  <2>2. CASE r # q
    BY <1>1, <1>2, <2>2 DEF FlagInv, Grantors
  <2> QED
    BY <2>1, <2>2
<1> QED
  BY <1>2 DEF FlagInv, Grantors, FlagFits

LEMMA NoFlag ==
  /\ FlagFits(NoGrantors) /\ NoDescriptor.handle.null = NullHandle.null
  /\ QueueWithoutDescriptor.desc.handle.null /\ NoQueue.desc.handle.null
  /\ FlagFits(NoDescriptor.grantors) /\ FlagFits(EmptyParcel.grantors)
BY EmptyHanded, NothingOpen DEF FlagFits, NoDescriptor, Descriptor, NullHandle

\* The flag's extent is as small as an int, and so comes through every cast.
LEMMA FlagCasts == ToSize(FlagSize) = FlagSize /\ ToInt64(FlagSize) = FlagSize
<1>1. FlagSize \in 0 .. IntMax /\ FlagSize \in 0 .. SizeMax /\ FlagSize \in Int
  BY LayoutFacts DEF SizeMax
<1> QED
  BY <1>1, UnsignedCasts, Int64Cast

LEMMA ToAidlFits ==
  ASSUME NEW g, FlagFits(g), NEW h, DOMAIN h \subseteq DOMAIN g,
         \A i \in DOMAIN h : h[i] = ToAidl(g[i])
  PROVE  FlagFits(h)
BY FlagCasts DEF FlagFits, ToAidl, Grantor

LEMMA FlagNext == FlagExtentKept /\ BaseInv /\ FlagInv /\ [Next]_vars => FlagInv'
<1> SUFFICES ASSUME FlagExtentKept, BaseInv, FlagInv, [Next]_vars  PROVE FlagInv'
  OBVIOUS
<1>1. /\ Types /\ Room \in Nat /\ hidl \in DescType /\ parcel \in ParcelType
      /\ \A q \in Queues : queue[q].desc \in DescType
  BY BaseFacts DEF BaseInv
<1>2. CASE ProcessDies
  BY <1>2, NoFlag DEF ProcessDies, FlagInv, FlagFits
<1>3. ASSUME NEW q \in Queues, NEW object, Replaces(q, object), object.desc = queue[q].desc
      PROVE  FlagInv'
  BY <1>1, <1>3, FlagQueueStep DEF Replaces, FlagInv, Grantors
<1>4. ASSUME NEW q \in Queues, queue' = [queue EXCEPT ![q] = QueueWithoutDescriptor],
             UNCHANGED <<hidl, parcel>>
      PROVE  FlagInv'
  BY <1>1, <1>4, NoFlag, FlagQueueStep
<1>5. ASSUME NEW q \in Creators, NEW setup \in Setups, Create(q, setup)  PROVE FlagInv'
  <2>1. q \in Queues
    BY DEF Queues
  <2>2. CASE Installs(q, QueueWithoutDescriptor)
    BY <1>4, <2>1, <2>2 DEF Installs
  <2>3. ASSUME ~RefusesToCreate(setup), NEW id \in NewIds, NEW bufferId \in NewIds,
               NEW fd \in Files, Installs(q, CreatedObject(setup, CreatedFds(setup, bufferId, fd)))
        PROVE  FlagInv'
    <3> DEFINE fds == CreatedFds(setup, bufferId, fd)
               object == CreatedObject(setup, fds)
               bytes == setup.n * setup.sizeofT
    <3>1. fds \in Handles(Files)
      BY <2>3, CreatedFdsFacts DEF NewIds
    <3> HIDE DEF fds
    <3>2. object.desc = CreatedDescriptor(setup, fds)
      BY <2>3, <3>1, CreatedObjectFacts
    <3>3. /\ bytes \in 0 .. SizeMax
          /\ object.desc.grantors \in {NoGrantors, LaidOut(bytes, setup.evFlag, setup.supplied)}
      BY <2>3, <3>1, <3>2, CreatedType
    <3> HIDE DEF bytes, object
    <3>4. FlagFits(LaidOut(bytes, setup.evFlag, setup.supplied))
      <4>1. setup.evFlag \in BOOLEAN /\ setup.supplied \in BOOLEAN
        BY BoundFacts
      <4>2. /\ DOMAIN LaidOut(bytes, setup.evFlag, setup.supplied) = IF setup.evFlag THEN 0 .. 3 ELSE 0 .. 2
            /\ \A pos \in DOMAIN LaidOut(bytes, setup.evFlag, setup.supplied) :
                 LaidOut(bytes, setup.evFlag, setup.supplied)[pos].extent = MemSize(bytes)[pos]
        BY <3>3, <4>1, LaidOutFacts
      <4>3. MemSize(bytes)[EVFLAGWORDPOS] = FlagSize
        BY FourPositions DEF MemSize, EVFLAGWORDPOS, DATAPTRPOS
      <4>4. EVFLAGWORDPOS \in DOMAIN LaidOut(bytes, setup.evFlag, setup.supplied) => FlagsAsked
        BY <4>1, <4>2 DEF EVFLAGWORDPOS, FlagsAsked
      <4> QED
        BY <4>2, <4>3, <4>4 DEF FlagFits
    <3>5. FlagFits(object.desc.grantors)
      BY <3>3, <3>4, NoFlag
    <3>6. queue' = [queue EXCEPT ![q] = object] /\ UNCHANGED <<hidl, parcel>>
      BY <2>3 DEF Installs, object, fds
    <3> QED
      BY <1>1, <2>1, <3>5, <3>6, FlagQueueStep
  <2> QED
    BY <1>2, <1>5, <2>2, <2>3, CreateCases
<1>6. ASSUME NEW q \in Creators, NEW setup \in Setups, CreateWithoutMemory(q, setup)
      PROVE  FlagInv'
  BY <1>4, <1>6 DEF CreateWithoutMemory, Queues
<1>7. ASSUME NEW q \in Attachers, AttachWithoutMemory(q)  PROVE FlagInv'
  BY <1>4, <1>7 DEF AttachWithoutMemory, Queues
<1>8. ASSUME NEW q \in Attachers, NEW sizeofT \in AttachSizes, NEW resets \in BOOLEAN,
             AttachHidl(q, sizeofT, resets)
      PROVE  FlagInv'
  <2>1. PICK object : Installs(q, object) /\ object.desc = CopyDescriptor(hidl, Room)
    BY <1>8, AttachHidlCases DEF Queues
  <2>2. object.desc.grantors = hidl.grantors
    BY <1>1, <2>1, CopyType
  <2> QED
    BY <1>1, <2>1, <2>2, FlagQueueStep DEF Installs, Queues, FlagInv
<1>9. ASSUME NEW q \in Attachers, NEW flavor \in Flavors, NEW sizeofT \in AttachSizes,
             NEW resets \in BOOLEAN, AttachAidl(q, flavor, sizeofT, resets)
      PROVE  FlagInv'
  <2>1. PICK object : Installs(q, object) /\ object.desc = ShimCopy
    BY <1>9, AttachAidlCases DEF Queues
  <2>2. object.desc.grantors = ShimGrantors(parcel) /\ object.desc.handle.null = ShimRejects(parcel)
    <3>1. /\ Shim(parcel, Room) \in DescType /\ Shim(parcel, Room).grantors = ShimGrantors(parcel)
          /\ Shim(parcel, Room).handle.null = ShimRejects(parcel)
          /\ OpenFds(Shim(parcel, Room).handle.fds) \in 0 .. Room
      BY <1>1, ShimType
    <3>2. Room - OpenFds(Shim(parcel, Room).handle.fds) \in Nat
      BY <1>1, <3>1
    <3>3. /\ ShimCopy.grantors = Shim(parcel, Room).grantors
          /\ ShimCopy.handle.null = Shim(parcel, Room).handle.null
      BY <3>1, <3>2, CopyType DEF ShimCopy
    <3> QED
      BY <2>1, <3>1, <3>3
  <2>3. ~ShimRejects(parcel) => FlagFits(ShimGrantors(parcel))
    <3>1. parcel.grantors \in Vectors(Signed) /\ FlagFits(parcel.grantors)
      BY <1>1 DEF ParcelType, FlagInv
    <3>2. ~ShimRejects(parcel) =>
            ShimGrantors(parcel) = [i \in DOMAIN parcel.grantors |-> FromAidl(parcel.grantors[i])]
      BY <3>1, ShimFacts
    <3> QED
      BY <3>1, <3>2, FlagCasts DEF FlagFits, FromAidl, Grantor
  <2> QED
    BY <1>1, <2>1, <2>2, <2>3, FlagQueueStep DEF Installs, Queues
<1>10. ASSUME NEW q \in Queues, Constructs(q)  PROVE FlagInv'
  <2>1. CASE AllocateReadPtr(q)
    BY <1>3, <2>1, AllocateCases
  <2>2. CASE MapGrantorDescr(q)
    BY <1>3, <2>2, MapCases
  <2>3. CASE ResetFaults(q)
    BY <1>2, <2>3 DEF ResetFaults
  <2>4. CASE InitMemoryFails(q)
    BY <1>3, <2>4, FailsCases
  <2> QED
    BY <1>10, <2>1, <2>2, <2>3, <2>4 DEF Constructs
<1>11. ASSUME NEW q \in Queues, Destroy(q)  PROVE FlagInv'
  BY <1>1, <1>11, NoFlag, FlagQueueStep DEF Destroy
<1>12. ASSUME NEW q \in Queues, SendHidl(q)  PROVE FlagInv'
  <2>1. /\ hidl' = CopyDescriptor(queue[q].desc, Room) /\ ~queue[q].desc.handle.null
        /\ UNCHANGED <<queue, parcel>>
    BY <1>12 DEF SendHidl
  <2>2. hidl'.grantors = queue[q].desc.grantors
    BY <1>1, <2>1, CopyType
  <2> QED
    BY <2>1, <2>2 DEF FlagInv, FlagFits, Grantors
<1>13. ASSUME NEW q \in Queues, DupeDesc(q)  PROVE FlagInv'
  <2>1. /\ parcel' = DupedDesc(queue[q].desc, Room) /\ ~queue[q].desc.handle.null
        /\ UNCHANGED <<queue, hidl>>
    BY <1>13 DEF DupeDesc
  <2>2. parcel'.grantors = [i \in DOMAIN queue[q].desc.grantors |-> ToAidl(queue[q].desc.grantors[i])]
    BY <1>1, <2>1, DupedType
  <2>3. FlagFits(parcel'.grantors)
    BY <2>1, <2>2, ToAidlFits DEF FlagInv, Grantors
  <2> QED
    BY <2>1, <2>3 DEF FlagInv, FlagFits, Grantors
<1>14. ASSUME NEW flavor \in Flavors, UnsafeHidlToAidl(flavor)  PROVE FlagInv'
  <2>1. parcel' = ConvertedParcel(hidl, flavor, Room) /\ UNCHANGED <<queue, hidl>>
    BY <1>14 DEF UnsafeHidlToAidl
  <2>2. parcel'.grantors = Appended(hidl)
    BY <1>1, <2>1, ConvertedType
  <2>3. FlagFits(parcel'.grantors)
    <3>1. hidl.grantors \in Vectors(Unsigned)
      BY <1>1 DEF DescType
    <3> QED
      BY <2>2, <3>1, AppendedFacts, ToAidlFits DEF FlagInv
  <2> QED
    BY <2>1, <2>3 DEF FlagInv, FlagFits, Grantors
<1>15. CASE Protect
  BY <1>15 DEF Protect, FlagInv, FlagFits, Grantors
<1>16. ASSUME NEW change \in Changes, MalformParcel(change)  PROVE FlagInv'
  <2> DEFINE g == Changed(parcel.grantors, change, change.value)
  <2>1. /\ change.pos \in DOMAIN parcel.grantors /\ change.value \in Int
        /\ parcel' = [parcel EXCEPT !.grantors = g] /\ UNCHANGED <<queue, hidl>>
    BY <1>16, LifecycleAssumption DEF MalformParcel
  <2>2. parcel.grantors \in Vectors(Signed)
    BY <1>1 DEF ParcelType
  <2>3. /\ DOMAIN g = DOMAIN parcel.grantors
        /\ \A pos \in DOMAIN g : pos # change.pos \/ change.field # "extent" =>
             g[pos].extent = parcel.grantors[pos].extent
    BY <2>1, <2>2, ChangedFacts
  <2> HIDE DEF g
  <2>4. parcel'.grantors = g
    BY <1>1, <2>1 DEF ParcelType
  <2>5. FlagFits(g)
    BY <2>3 DEF FlagFits, FlagInv, FlagExtentKept
  <2> QED
    BY <2>1, <2>4, <2>5 DEF FlagInv, FlagFits, Grantors
<1>17. ASSUME NEW change \in Changes, MalformHidl(change)  PROVE FlagInv'
  <2> DEFINE g == Changed(hidl.grantors, change, ToUint32(change.value))
  <2>1. /\ change.pos \in DOMAIN hidl.grantors /\ change.value \in Int
        /\ hidl' = [hidl EXCEPT !.grantors = g] /\ UNCHANGED <<queue, parcel>>
    BY <1>17, LifecycleAssumption DEF MalformHidl
  <2>2. hidl.grantors \in Vectors(Unsigned) /\ ToUint32(change.value) \in 0 .. IntModulus - 1
    BY <1>1, <2>1, UnsignedCasts DEF DescType
  <2>3. /\ DOMAIN g = DOMAIN hidl.grantors
        /\ \A pos \in DOMAIN g : pos # change.pos \/ change.field # "extent" =>
             g[pos].extent = hidl.grantors[pos].extent
    BY <2>1, <2>2, ChangedFacts
  <2> HIDE DEF g
  <2>4. hidl'.grantors = g
    BY <1>1, <2>1 DEF DescType
  <2>5. FlagFits(g)
    BY <2>3 DEF FlagFits, FlagInv, FlagExtentKept
  <2> QED
    BY <2>1, <2>4, <2>5 DEF FlagInv, FlagFits, Grantors
<1>18. CASE DropHidl
  BY <1>18, NoFlag DEF DropHidl, FlagInv, FlagFits, Grantors
<1>19. CASE DropParcel
  BY <1>19, NoFlag DEF DropParcel, FlagInv, FlagFits, Grantors
<1>20. CASE UNCHANGED vars
  BY <1>20 DEF vars, FlagInv, FlagFits, Grantors
<1> QED
  BY <1>5, <1>6, <1>7, <1>8, <1>9, <1>10, <1>11, <1>12, <1>13, <1>14, <1>15, <1>16, <1>17, <1>18,
     <1>19, <1>20 DEF Next

-----------------------------------------------------------------------------
(* What the pointers lead to *)

\* A pointer that keeps its value leads where it did if nothing happens to the
\* pages it holds.
LEMMA StaysMapped ==
  ASSUME BaseInv, NEW q \in Queues, NEW pos \in Positions(TRUE),
         IsPointer(queue[q].ptr[pos]), Mapped(q, pos),
         queue'[q].desc = queue[q].desc, queue'[q].ptr[pos] = queue[q].ptr[pos],
         \A p \in PagesAt(q, pos) : space'[p] = space[p]
  PROVE  Mapped(q, pos)' /\ PagesAt(q, pos)' = PagesAt(q, pos)
<1> DEFINE g == Grantors(q)[pos]
           address == queue[q].ptr[pos]
<1>1. /\ PagesAt(q, pos) = Run(address \div PageSize, MapLength(g))
      /\ \A p \in PagesAt(q, pos) : p \in Pages
  BY HeldFacts
<1>2. MapLength(g) = (g.offset % PageSize) + g.extent
  BY GrantorFacts DEF Mapped
<1>3. Grantors(q)' = Grantors(q) /\ Fds(q)' = Fds(q)
  BY DEF Grantors, Fds
<1>4. FileOf(q, pos)' = FileOf(q, pos)
  BY <1>3 DEF FileOf
<1>5. PagesAt(q, pos)' = PagesAt(q, pos)
  BY <1>3 DEF PagesAt
<1>6. Reaches(q, pos)'
  <2>1. \A p \in Run(address \div PageSize, (g.offset % PageSize) + g.extent) :
          space'[p] = space[p]
    BY <1>1, <1>2
  <2> QED
    BY <2>1, <1>3, <1>4 DEF Mapped, Reaches
<1> QED
  BY <1>3, <1>4, <1>5, <1>6 DEF Mapped

\* The pages of a queue other than q are not touched when q's are freed.
LEMMA OthersKept ==
  ASSUME Apart, NEW q \in Queues, NEW pages \in SUBSET Held(q),
         NEW r \in Queues \ {q}, NEW pos \in Positions(TRUE)
  PROVE  PagesAt(r, pos) \cap pages = {}
<1> SUFFICES ASSUME NEW p \in PagesAt(r, pos), p \in pages  PROVE FALSE
  OBVIOUS
<1>1. PICK other \in Positions(TRUE) : p \in PagesAt(q, other)
  BY DEF Held
<1>2. PagesAt(r, pos) \cap PagesAt(q, other) = {}
  BY DEF Apart
<1> QED
  BY <1>1, <1>2

\* A step after which the pointers of a queue that had some are the ones it had,
\* while their pages are left alone, and the others null.
LEMMA FewerPointers ==
  ASSUME BaseInv, MapsApart,
         \A q \in Queues, pos \in Positions(TRUE) :
           IsPointer(queue'[q].ptr[pos]) =>
             /\ queue'[q].desc = queue[q].desc /\ queue'[q].ptr[pos] = queue[q].ptr[pos]
             /\ \A p \in PagesAt(q, pos) : space'[p] = space[p]
  PROVE  MapsApart'
<1>1. ASSUME NEW q \in Queues, NEW pos \in Positions(TRUE), IsPointer(queue'[q].ptr[pos])
      PROVE  Mapped(q, pos)' /\ PagesAt(q, pos)' = PagesAt(q, pos)
  <2>1. Mapped(q, pos)
    BY <1>1 DEF MapsApart, MapInv
  <2> QED
    BY <1>1, <2>1, StaysMapped
<1>2. \A q \in Queues, pos \in Positions(TRUE) : PagesAt(q, pos)' \subseteq PagesAt(q, pos)
  BY <1>1 DEF PagesAt
<1>3. (\A q \in Queues : MapInv(q))'
  BY <1>1 DEF MapInv
<1>4. Apart'
  <2> SUFFICES ASSUME NEW r \in Queues, NEW s \in Queues,
                      NEW here \in Positions(TRUE), NEW there \in Positions(TRUE),
                      r # s \/ here # there
               PROVE  PagesAt(r, here)' \cap PagesAt(s, there)' = {}
    BY DEF Apart
  <2>1. PagesAt(r, here) \cap PagesAt(s, there) = {}
    BY DEF MapsApart, Apart
  <2>2. PagesAt(r, here)' \subseteq PagesAt(r, here) /\ PagesAt(s, there)' \subseteq PagesAt(s, there)
    BY <1>2
  <2> QED
    BY <2>1, <2>2
<1> QED
  BY <1>3, <1>4 DEF MapsApart

LEMMA NoPointers == \A pos \in Positions(TRUE) : ~IsPointer(NoPtrs[pos])
BY DEF NoPtrs, IsPointer

\* A step that leaves q without pointers and frees some of the pages they held.
LEMMA FreeingStep ==
  ASSUME BaseInv, MapsApart, NEW q \in Queues, NEW object, object.ptr = NoPtrs,
         queue' = [queue EXCEPT ![q] = object],
         NEW pages \in SUBSET Held(q), space' = Freed(space, pages)
  PROVE  MapsApart'
<1>1. queue'[q] = object /\ \A r \in Queues \ {q} : queue'[r] = queue[r]
  BY ReplacedQueue DEF BaseInv
<1>2. ASSUME NEW r \in Queues, NEW pos \in Positions(TRUE), IsPointer(queue'[r].ptr[pos])
      PROVE  /\ queue'[r].desc = queue[r].desc /\ queue'[r].ptr[pos] = queue[r].ptr[pos]
             /\ \A p \in PagesAt(r, pos) : space'[p] = space[p]
  <2>1. r # q
    BY <1>1, <1>2, NoPointers
  <2>2. queue'[r] = queue[r]
    BY <1>1, <2>1
  <2>3. Mapped(r, pos)
    BY <1>2, <2>2 DEF MapsApart, MapInv
  <2>4. \A p \in PagesAt(r, pos) : p \in Pages
    BY <1>2, <2>2, <2>3, HeldFacts
  <2>5. PagesAt(r, pos) \cap pages = {}
    BY <2>1, OthersKept DEF MapsApart
  <2>6. \A p \in PagesAt(r, pos) : space'[p] = space[p]
    BY <2>4, <2>5 DEF Freed
  <2> QED
    BY <2>2, <2>6
<1> QED
  BY <1>2, FewerPointers

\* mmap takes pages that no pointer holds.
LEMMA MappingStep ==
  ASSUME BaseInv, MapsApart, NEW q \in Queues, MapGrantorDescr(q),
         NEW pos, pos = queue[q].next
  PROVE  MapsApart'
<1> DEFINE g == Grantors(q)[pos]
           length == MapLength(g)
           first == Place(length)
           address == first * PageSize + InPage(g)
<1>1. /\ pos \in Positions(TRUE) /\ CanMap(Grantors(q), Count(Fds(q)), pos)
      /\ FileOf(q, pos) # Bad /\ length > 0 /\ MapOffset(g) >= 0 /\ Places(length) # {}
      /\ space' = Mmap(FileOf(q, pos), length, MapOffset(g))
  BY MapCases
<1>2. PICK object : /\ queue' = [queue EXCEPT ![q] = object] /\ object.desc = queue[q].desc
                    /\ object.ptr = [queue[q].ptr EXCEPT ![pos] = address]
  BY MapCases DEF Replaces
<1>3. queue'[q] = object /\ \A r \in Queues \ {q} : queue'[r] = queue[r]
  BY <1>2, ReplacedQueue DEF BaseInv
<1>4. queue[q].ptr \in [Positions(TRUE) -> Nat \cup {Heap}]
  BY BaseFacts DEF QueueType
<1>5. /\ queue'[q].ptr[pos] = address
      /\ \A other \in Positions(TRUE) \ {pos} : queue'[q].ptr[other] = queue[q].ptr[other]
  BY <1>1, <1>2, <1>3, <1>4
<1>6. /\ InPage(g) = g.offset % PageSize /\ InPage(g) \in 0 .. PageSize - 1
      /\ length = InPage(g) + g.extent /\ length \in Nat /\ g.offset \in Nat /\ g.extent \in Nat
      /\ MapOffset(g) \div PageSize = g.offset \div PageSize
  BY <1>1, GrantorFacts
<1>7. /\ first \in Pages /\ first \in Nat
      /\ \A p \in Run(first, length) : p \in Pages /\ space[p] = Free
  BY <1>1, <1>6, PlaceFacts
<1>8. address % PageSize = InPage(g) /\ address \div PageSize = first
  <2> HIDE DEF first, g
  <2>1. address = PageSize * first + InPage(g)
    BY <1>6, <1>7, LayoutFacts
  <2> QED
    BY <1>6, <1>7, <2>1, PageOfAddress
<1>9. Grantors(q)' = Grantors(q) /\ Fds(q)' = Fds(q) /\ FileOf(q, pos)' = FileOf(q, pos)
  <2>1. Grantors(q)' = Grantors(q) /\ Fds(q)' = Fds(q)
    BY <1>2, <1>3 DEF Grantors, Fds
  <2>2. Fds(q)'[ToInt32(Grantors(q)'[pos].fdIndex)] = Fds(q)[ToInt32(Grantors(q)[pos].fdIndex)]
    BY <2>1
  <2> QED
    BY <2>1, <2>2 DEF FileOf
<1>10. PagesAt(q, pos)' = Run(first, length)
  <2>1. queue'[q].ptr[pos] = address /\ IsPointer(address)
    <3>1. address # Nullptr /\ address \in Nat
      BY <1>1, MapCases
    <3> HIDE DEF address
    <3> QED
      BY <1>5, <3>1 DEF IsPointer, Heap
  <2>2. Grantors(q)'[pos] = g
    BY <1>9
  <2> HIDE DEF address, g
  <2> QED
    BY <1>8, <2>1, <2>2 DEF PagesAt
<1>11. \A p \in Run(first, length) : /\ space'[p].file = FileOf(q, pos)
                                    /\ space'[p].page = g.offset \div PageSize + (p - first)
  <2> HIDE DEF g
  <2>1. \A p \in Run(first, length) :
          space'[p] = [file |-> FileOf(q, pos), page |-> MapOffset(g) \div PageSize + (p - first),
                       writable |-> FileOf(q, pos) \notin frozen]
    BY <1>1, <1>7 DEF Mmap
  <2>2. ASSUME NEW p \in Run(first, length)
        PROVE  space'[p].file = FileOf(q, pos) /\ space'[p].page = MapOffset(g) \div PageSize + (p - first)
    <3> DEFINE file == FileOf(q, pos)
               page == MapOffset(g) \div PageSize + (p - first)
               writable == FileOf(q, pos) \notin frozen
    <3>1. space'[p] = [file |-> file, page |-> page, writable |-> writable]
      BY <2>1
    <3> HIDE DEF file, page, writable
    <3>2. space'[p].file = file /\ space'[p].page = page
      BY <3>1
    <3> QED
      BY <3>2 DEF file, page
  <2>3. MapOffset(g) \div PageSize = g.offset \div PageSize
    BY <1>6
  <2> QED
    BY <2>2, <2>3
<1>12. Mapped(q, pos)'
  <2>1. Grantors(q)'[pos] = g /\ queue'[q].ptr[pos] = address
    BY <1>5, <1>9
  <2>2. Reaches(q, pos)'
    <3>1. /\ queue'[q].ptr[pos] % PageSize = g.offset % PageSize
          /\ queue'[q].ptr[pos] \div PageSize = first
      BY <1>6, <1>8, <2>1
    <3>2. Run(first, (g.offset % PageSize) + g.extent) = Run(first, length)
      BY <1>6
    <3> HIDE DEF g, first, length, address
    <3> QED
      BY <1>7, <1>9, <1>11, <2>1, <3>1, <3>2 DEF Reaches
  <2>3. CanMap(Grantors(q), Count(Fds(q)), pos)' /\ FileOf(q, pos)' # Bad
    BY <1>1, <1>9
  <2>4. MapLength(Grantors(q)[pos])' > 0
    BY <1>1, <1>9
  <2> QED
    BY <2>2, <2>3, <2>4 DEF Mapped
<1>13. ASSUME NEW r \in Queues, NEW other \in Positions(TRUE), r # q \/ other # pos
       PROVE  /\ PagesAt(r, other)' = PagesAt(r, other)
              /\ IsPointer(queue'[r].ptr[other]) => Mapped(r, other)'
              /\ PagesAt(r, other) \cap Run(first, length) = {}
  <2>1. queue'[r].desc = queue[r].desc /\ queue'[r].ptr[other] = queue[r].ptr[other]
    BY <1>2, <1>3, <1>5, <1>13
  <2>2. CASE IsPointer(queue[r].ptr[other])
    <3>1. Mapped(r, other)
      BY <2>2 DEF MapsApart, MapInv
    <3>2. \A p \in PagesAt(r, other) : p \in Pages /\ space[p] # Free
      BY <2>2, <3>1, HeldFacts
    <3>3. PagesAt(r, other) \cap Run(first, length) = {}
      BY <1>7, <3>2
    <3>4. \A p \in PagesAt(r, other) : space'[p] = space[p]
      <4> HIDE DEF g, length, first
      <4> QED
        BY <1>1, <3>2, <3>3 DEF Mmap, first
    <3> QED
      BY <2>1, <2>2, <3>1, <3>3, <3>4, StaysMapped
  <2>3. CASE ~IsPointer(queue[r].ptr[other])
    <3>1. PagesAt(r, other)' = {} /\ PagesAt(r, other) = {} /\ ~IsPointer(queue'[r].ptr[other])
      BY <2>1, <2>3 DEF PagesAt
    <3> QED
      BY <3>1
  <2> QED
    BY <2>2, <2>3
<1>14. (\A r \in Queues : MapInv(r))'
  BY <1>12, <1>13 DEF MapInv
<1>15. Apart'
  <2> SUFFICES ASSUME NEW r \in Queues, NEW s \in Queues,
                      NEW here \in Positions(TRUE), NEW there \in Positions(TRUE),
                      r # s \/ here # there
               PROVE  PagesAt(r, here)' \cap PagesAt(s, there)' = {}
    BY DEF Apart
  <2>1. CASE r = q /\ here = pos
    <3>1. PagesAt(r, here)' = Run(first, length)
      BY <1>10, <2>1
    <3>2. PagesAt(s, there)' = PagesAt(s, there) /\ PagesAt(s, there) \cap Run(first, length) = {}
      BY <1>13, <2>1
    <3> HIDE DEF first, length
    <3> QED
      BY <3>1, <3>2
  <2>2. CASE s = q /\ there = pos
    BY <1>10, <1>13, <2>2
  <2>3. CASE (r # q \/ here # pos) /\ (s # q \/ there # pos)
    <3>1. PagesAt(r, here)' = PagesAt(r, here) /\ PagesAt(s, there)' = PagesAt(s, there)
      BY <1>13, <2>3
    <3>2. PagesAt(r, here) \cap PagesAt(s, there) = {}
      BY DEF MapsApart, Apart
    <3> QED
      BY <3>1, <3>2
  <2> QED
    BY <2>1, <2>2, <2>3
<1> QED
  BY <1>14, <1>15 DEF MapsApart

LEMMA InstallingKeeps ==
  ASSUME BaseInv, MapsApart, NEW q \in Queues, NEW object, object.ptr = NoPtrs,
         queue' = [queue EXCEPT ![q] = object], UNCHANGED space
  PROVE  MapsApart'
<1>1. space' = Freed(space, {})
  BY FreedNothing DEF BaseInv, Types
<1> QED
  BY <1>1, FreeingStep

LEMMA MapsApartNext == SpaceInv /\ [Next]_vars => MapsApart'
<1> SUFFICES ASSUME SpaceInv, [Next]_vars  PROVE MapsApart'
  OBVIOUS
<1>1. BaseInv /\ FlagInv /\ MapsApart /\ \A q \in Queues : MapInv(q)
  BY DEF SpaceInv, MapsApart
<1>2. CASE ProcessDies
  <2>1. \A q \in Queues, pos \in Positions(TRUE) : ~IsPointer(queue'[q].ptr[pos])
    BY <1>2, EmptyHanded, NoPointers DEF ProcessDies
  <2> QED
    BY <1>1, <2>1, FewerPointers
<1>3. CASE UNCHANGED <<space, queue>>
  BY <1>1, <1>3, FewerPointers
<1>4. ASSUME NEW q \in Queues, queue' = [queue EXCEPT ![q] = QueueWithoutDescriptor],
             UNCHANGED space
      PROVE  MapsApart'
  BY <1>1, <1>4, EmptyHanded, InstallingKeeps
<1>5. ASSUME NEW q \in Queues, NEW object, Installs(q, object)  PROVE MapsApart'
  BY <1>1, <1>5, InstallingKeeps DEF Installs
<1>6. ASSUME NEW q \in Creators, NEW setup \in Setups, Create(q, setup)  PROVE MapsApart'
  <2>1. q \in Queues
    BY DEF Queues
  <2>2. ProcessDies \/ \E object : Installs(q, object)
    BY <1>1, <1>6, CreateCases
  <2> QED
    BY <1>2, <1>5, <2>1, <2>2
<1>7. ASSUME NEW q \in Creators, NEW setup \in Setups, CreateWithoutMemory(q, setup)
      PROVE  MapsApart'
  BY <1>4, <1>7 DEF CreateWithoutMemory, Queues
<1>8. ASSUME NEW q \in Attachers, AttachWithoutMemory(q)  PROVE MapsApart'
  BY <1>4, <1>8 DEF AttachWithoutMemory, Queues
<1>9. ASSUME NEW q \in Attachers, NEW sizeofT \in AttachSizes, NEW resets \in BOOLEAN,
             AttachHidl(q, sizeofT, resets)
      PROVE  MapsApart'
  BY <1>1, <1>5, <1>9, AttachHidlCases DEF Queues
<1>10. ASSUME NEW q \in Attachers, NEW flavor \in Flavors, NEW sizeofT \in AttachSizes,
              NEW resets \in BOOLEAN, AttachAidl(q, flavor, sizeofT, resets)
       PROVE  MapsApart'
  BY <1>1, <1>5, <1>10, AttachAidlCases DEF Queues
<1>11. ASSUME NEW q \in Queues, AllocateReadPtr(q)  PROVE MapsApart'
  <2>1. PICK object : /\ Replaces(q, object) /\ object.desc = queue[q].desc
                      /\ object.ptr = [queue[q].ptr EXCEPT ![READPTRPOS] = Heap]
    BY <1>1, <1>11, AllocateCases
  <2>2. queue'[q] = object /\ \A r \in Queues \ {q} : queue'[r] = queue[r]
    BY <1>1, <2>1, ReplacedQueue DEF BaseInv, Replaces
  <2>3. UNCHANGED space /\ queue[q].ptr \in [Positions(TRUE) -> Nat \cup {Heap}]
    BY <1>1, <1>11, AllocateCases, BaseFacts DEF QueueType
  <2>4. ~IsPointer(object.ptr[READPTRPOS])
        /\ \A pos \in Positions(TRUE) \ {READPTRPOS} : object.ptr[pos] = queue[q].ptr[pos]
    BY <2>1, <2>3, FourPositions DEF IsPointer
  <2>5. \A r \in Queues, pos \in Positions(TRUE) :
          IsPointer(queue'[r].ptr[pos]) =>
            queue'[r].desc = queue[r].desc /\ queue'[r].ptr[pos] = queue[r].ptr[pos]
    BY <2>1, <2>2, <2>4
  <2> QED
    BY <1>1, <2>3, <2>5, FewerPointers
<1>12. ASSUME NEW q \in Queues, InitMemoryFails(q)  PROVE MapsApart'
  <2>1. PICK object : Replaces(q, object) /\ object.ptr = NoPtrs
    BY <1>1, <1>12, FailsCases
  <2>2. PICK pages : Unwound(q) = Freed(space, pages) /\ pages \subseteq Held(q)
    BY <1>1, <1>12, UnwoundIsFreed DEF InitMemoryFails
  <2> QED
    BY <1>1, <1>12, <2>1, <2>2, FreeingStep DEF InitMemoryFails, Replaces
<1>13. ASSUME NEW q \in Queues, Constructs(q)  PROVE MapsApart'
  BY <1>1, <1>2, <1>11, <1>12, <1>13, MappingStep DEF Constructs, ResetFaults
<1>14. ASSUME NEW q \in Queues, Destroy(q)  PROVE MapsApart'
  <2>1. Destroyed(q) = Freed(space, Held(q))
    BY <1>1, DestroyedIsFreed
  <2>2. queue' = [queue EXCEPT ![q] = NoQueue] /\ space' = Freed(space, Held(q))
    BY <1>14, <2>1 DEF Destroy
  <2> QED
    BY <1>1, <2>2, EmptyHanded, FreeingStep
<1>15. ASSUME NEW q \in Queues, SendHidl(q) \/ DupeDesc(q)  PROVE MapsApart'
  BY <1>3, <1>15 DEF SendHidl, DupeDesc
<1>16. ASSUME NEW flavor \in Flavors, UnsafeHidlToAidl(flavor)  PROVE MapsApart'
  BY <1>3, <1>16 DEF UnsafeHidlToAidl
<1>17. CASE Protect \/ DropHidl \/ DropParcel
  BY <1>3, <1>17 DEF Protect, DropHidl, DropParcel
<1>18. ASSUME NEW change \in Changes, MalformParcel(change) \/ MalformHidl(change)
       PROVE  MapsApart'
  BY <1>3, <1>18 DEF MalformParcel, MalformHidl
<1>19. CASE UNCHANGED vars
  BY <1>3, <1>19 DEF vars
<1> QED
  BY <1>6, <1>7, <1>8, <1>9, <1>10, <1>13, <1>14, <1>15, <1>16, <1>17, <1>18, <1>19 DEF Next

LEMMA SpaceInit == Init => SpaceInv
<1> SUFFICES ASSUME Init  PROVE SpaceInv
  OBVIOUS
<1>1. BaseInv
  BY BaseInit
<1>2. FlagInv
  BY NoFlag DEF Init, FlagInv, FlagFits
<1>3. \A q \in Queues, pos \in Positions(TRUE) : ~IsPointer(queue[q].ptr[pos])
  BY EmptyHanded, NoPointers DEF Init
<1>4. MapsApart
  BY <1>3 DEF MapsApart, MapInv, Apart, PagesAt
<1> QED
  BY <1>1, <1>2, <1>4 DEF SpaceInv

LEMMA SpaceNext == FlagExtentKept /\ SpaceInv /\ [Next]_vars => SpaceInv'
  BY BaseNext, FlagNext, MapsApartNext DEF SpaceInv

\* Whatever queues are made, fail and are destroyed, and whatever else their
\* descriptors say, the pointers of a queue lead to the bytes of its grantors.
\* The error path of initMemory unmaps the ring with the flag's length, so a
\* descriptor with another extent for the flag makes it unmap other pages.
THEOREM PointersReach ==
  ASSUME FlagExtentKept
  PROVE  Spec => []PointersReachTheirGrantors
<1>1. SpaceInv => PointersReachTheirGrantors
  <2> SUFFICES ASSUME SpaceInv, NEW q \in Queues, NEW pos \in DOMAIN Grantors(q),
                      IsPointer(queue[q].ptr[pos])
               PROVE  Reaches(q, pos)
    BY DEF PointersReachTheirGrantors
  <2>1. pos \in Positions(TRUE)
    <3>1. Grantors(q) \in Vectors(Unsigned)
      BY BaseFacts DEF SpaceInv
    <3>2. DOMAIN Grantors(q) = 0 .. Count(Grantors(q)) - 1 /\ Count(Grantors(q)) \in 0 .. 4
      BY <3>1, VectorFacts
    <3> QED
      BY <3>2 DEF Positions, READPTRPOS, EVFLAGWORDPOS
  <2> QED
    BY <2>1 DEF SpaceInv, MapsApart, MapInv, Mapped
<1>2. SpaceInv /\ [Next]_vars => SpaceInv'
  BY SpaceNext
<1> QED
  BY <1>1, <1>2, SpaceInit, PTL DEF Spec

\* Pointers are given up by the destructor and by the error path of initMemory.
LEMMA WhoLosesPointers ==
  ASSUME BaseInv, [Next]_vars, NEW q \in Queues,
         queue[q].ptr # NoPtrs, queue'[q].ptr = NoPtrs, ~ProcessEnds
  PROVE  Destroy(q) \/ InitMemoryFails(q)
<1>2. queue'[q] # queue[q]
  OBVIOUS
<1>3. queue[q].stage # "absent"
  BY AbsentFacts, EmptyHanded
<1>4. ASSUME NEW r \in Queues, NEW object, queue' = [queue EXCEPT ![r] = object]
      PROVE  r = q /\ queue'[q] = object
  BY <1>2, <1>4, ReplacedQueue DEF BaseInv
<1>5. ASSUME NEW r \in Queues, queue[r].stage = "absent",
             NEW object, queue' = [queue EXCEPT ![r] = object]
      PROVE  FALSE
  BY <1>3, <1>4, <1>5
<1>6. ASSUME NEW r \in Creators, NEW setup \in Setups,
             Create(r, setup) \/ CreateWithoutMemory(r, setup)
      PROVE  FALSE
  <2>1. r \in Queues
    BY DEF Queues
  <2>2. CASE Create(r, setup)
    <3>1. queue[r].stage = "absent" /\ (RefusesToCreate(setup) \/ ~CreateAborts(setup))
      BY <1>6, <2>2 DEF Create, ProcessEnds
    <3>2. CASE RefusesToCreate(setup)
      BY <1>5, <2>1, <2>2, <3>1, <3>2 DEF Create
    <3>3. CASE ~RefusesToCreate(setup) /\ ~CreateAborts(setup)
      BY <1>5, <2>1, <2>2, <3>1, <3>3 DEF Create
    <3> QED
      BY <3>1, <3>2, <3>3
  <2>3. CASE CreateWithoutMemory(r, setup)
    BY <1>5, <2>1, <2>3 DEF CreateWithoutMemory
  <2> QED
    BY <1>6, <2>2, <2>3
<1>7. ASSUME NEW r \in Attachers, AttachWithoutMemory(r)  PROVE FALSE
  BY <1>5, <1>7 DEF AttachWithoutMemory, Queues
<1>8. ASSUME NEW r \in Attachers, NEW sizeofT \in AttachSizes, NEW resets \in BOOLEAN,
             AttachHidl(r, sizeofT, resets)
      PROVE  FALSE
  BY <1>5, <1>8, AttachHidlCases DEF Queues, Installs
<1>9. ASSUME NEW r \in Attachers, NEW flavor \in Flavors, NEW sizeofT \in AttachSizes,
             NEW resets \in BOOLEAN, AttachAidl(r, flavor, sizeofT, resets)
      PROVE  FALSE
  BY <1>5, <1>9, AttachAidlCases DEF Queues, Installs
<1>10. ASSUME NEW r \in Queues, NEW object, Replaces(r, object),
              NEW pos \in Positions(TRUE), object.ptr[pos] # Nullptr
       PROVE  FALSE
  <2>1. r = q /\ queue'[q] = object
    BY <1>4, <1>10 DEF Replaces
  <2> QED
    BY <1>10, <2>1 DEF NoPtrs
<1>11. ASSUME NEW r \in Queues, Constructs(r)  PROVE InitMemoryFails(q)
  <2>1. CASE AllocateReadPtr(r)
    <3>1. Heap # Nullptr
      BY DEF Heap, Nullptr
    <3>2. PICK object : Replaces(r, object) /\ object.ptr = [queue[r].ptr EXCEPT ![READPTRPOS] = Heap]
      BY <2>1, AllocateCases
    <3>3. queue[r].ptr \in [Positions(TRUE) -> Nat \cup {Heap}] /\ READPTRPOS \in Positions(TRUE)
      BY BaseFacts, FourPositions DEF QueueType
    <3>4. object.ptr[READPTRPOS] # Nullptr
      BY <3>1, <3>2, <3>3
    <3> QED
      BY <1>10, <3>2, <3>3, <3>4
  <2>2. CASE MapGrantorDescr(r)
    <3> DEFINE pos == queue[r].next
               g == Grantors(r)[pos]
               address == Place(MapLength(g)) * PageSize + InPage(g)
    <3>1. PICK object : Replaces(r, object) /\ object.ptr = [queue[r].ptr EXCEPT ![pos] = address]
      BY <2>2, MapCases
    <3>2. pos \in Positions(TRUE) /\ address # Nullptr
      BY <2>2, MapCases
    <3>3. queue[r].ptr \in [Positions(TRUE) -> Nat \cup {Heap}]
      BY BaseFacts DEF QueueType
    <3> HIDE DEF pos, g, address
    <3>4. object.ptr[pos] # Nullptr
      BY <3>1, <3>2, <3>3
    <3> QED
      BY <1>10, <3>1, <3>2, <3>4
  <2>3. CASE ResetFaults(r)
    BY <1>11, <2>3 DEF ProcessEnds
  <2>4. CASE InitMemoryFails(r)
    BY <1>4, <2>4, FailsCases DEF Replaces
  <2> QED
    BY <1>11, <2>1, <2>2, <2>3, <2>4 DEF Constructs
<1>12. ASSUME NEW r \in Queues, Destroy(r) \/ SendHidl(r) \/ DupeDesc(r)
       PROVE  Destroy(q)
  BY <1>2, <1>4, <1>12 DEF Destroy, SendHidl, DupeDesc
<1>13. ASSUME NEW flavor \in Flavors, UnsafeHidlToAidl(flavor)  PROVE FALSE
  BY <1>2, <1>13 DEF UnsafeHidlToAidl
<1>14. ASSUME Protect \/ DropHidl \/ DropParcel \/ UNCHANGED vars  PROVE FALSE
  BY <1>2, <1>14 DEF Protect, DropHidl, DropParcel, vars
<1>15. ASSUME NEW change \in Changes, MalformParcel(change) \/ MalformHidl(change)
       PROVE  FALSE
  BY <1>2, <1>15 DEF MalformParcel, MalformHidl
<1> QED
  BY <1>6, <1>7, <1>8, <1>9, <1>11, <1>12, <1>13, <1>14, <1>15 DEF Next

\* Destruction and the error path return the pages that the queue's pointers
\* held, through the addresses and lengths they recompute, and no page of any
\* other queue; at most the ring of a queue whose flag could not be mapped stays.
THEOREM PagesReturned ==
  ASSUME FlagExtentKept
  PROVE  Spec => PagesAreReturned
<1>1. SpaceInv /\ [Next]_vars =>
        \A q \in Queues :
          queue[q].ptr # NoPtrs /\ queue'[q].ptr = NoPtrs /\ ~ProcessEnds =>
            \A p \in Pages :
              /\ p \notin Held(q) => space'[p] = space[p]
              /\ p \in Held(q) =>
                   \/ space'[p] = Free
                   \/ queue[q].next = EVFLAGWORDPOS /\ p \in PagesAt(q, DATAPTRPOS)
  <2> SUFFICES ASSUME SpaceInv, [Next]_vars, NEW q \in Queues,
                      queue[q].ptr # NoPtrs, queue'[q].ptr = NoPtrs, ~ProcessEnds,
                      NEW p \in Pages
               PROVE  /\ p \notin Held(q) => space'[p] = space[p]
                      /\ p \in Held(q) =>
                           \/ space'[p] = Free
                           \/ queue[q].next = EVFLAGWORDPOS /\ p \in PagesAt(q, DATAPTRPOS)
    OBVIOUS
  <2>1. BaseInv /\ FlagInv /\ MapInv(q)
    BY DEF SpaceInv, MapsApart
  <2>2. CASE Destroy(q)
    <3>1. space' = Freed(space, Held(q))
      BY <2>1, <2>2, DestroyedIsFreed DEF Destroy
    <3> QED
      BY <3>1 DEF Freed
  <2>3. CASE InitMemoryFails(q)
    <3>1. queue[q].stage = "mapping" /\ space' = Unwound(q)
      BY <2>3 DEF InitMemoryFails
    <3>2. PICK pages : /\ space' = Freed(space, pages) /\ pages \subseteq Held(q)
                       /\ PagesAt(q, READPTRPOS) \cup PagesAt(q, WRITEPTRPOS) \subseteq pages
      BY <2>1, <3>1, UnwoundIsFreed
    <3>3. p \in pages => space'[p] = Free
      BY <3>2 DEF Freed
    <3>4. p \notin pages => space'[p] = space[p]
      BY <3>2 DEF Freed
    <3>5. ASSUME p \in Held(q), p \notin pages
          PROVE  queue[q].next = EVFLAGWORDPOS /\ p \in PagesAt(q, DATAPTRPOS)
      <4>1. /\ queue[q].next \in Positions(TRUE)
            /\ \A pos \in Positions(TRUE) : queue[q].ptr[pos] # Nullptr <=> pos < queue[q].next
        BY <2>1, <3>1, MappingFacts
      <4>2. PagesAt(q, EVFLAGWORDPOS) = {}
        BY <4>1, FourPositions DEF PagesAt, IsPointer, Positions, READPTRPOS, EVFLAGWORDPOS
      <4>3. p \in PagesAt(q, DATAPTRPOS)
        BY <3>2, <3>5, <4>2, FourPositions
      <4>4. queue[q].ptr[DATAPTRPOS] # Nullptr
        BY <4>3 DEF PagesAt, IsPointer
      <4>5. DATAPTRPOS < queue[q].next
        BY <4>1, <4>4, FourPositions
      <4> QED
        BY <4>1, <4>3, <4>5 DEF Positions, READPTRPOS, DATAPTRPOS, EVFLAGWORDPOS
    <3> QED
      BY <3>2, <3>3, <3>4, <3>5
  <2> QED
    BY <2>1, <2>2, <2>3, WhoLosesPointers
<1>2. SpaceInv /\ [Next]_vars => SpaceInv'
  BY SpaceNext
<1> QED
  BY <1>1, <1>2, SpaceInit, PTL DEF Spec, PagesAreReturned

-----------------------------------------------------------------------------
(***************************************************************************)
(* What a description says, wherever it has been: every queue and every    *)
(* description under way that goes back to the library's own layout still  *)
(* says what its creator said.                                             *)
(***************************************************************************)

Holders == Queues \cup Kinds

ViewOf(desc) == [grantors |-> desc.grantors, fds |-> desc.handle.fds,
                 quantum |-> desc.quantum, flags |-> desc.flags]

ViewOfParcel(p) == [grantors |-> [i \in DOMAIN p.grantors |-> FromAidl(p.grantors[i])],
                    fds |-> p.fds, quantum |-> p.quantum, flags |-> p.flags]

\* What a holder has of a description, as it would be in a process.
View(h) ==
  CASE h = "hidl" -> ViewOf(hidl)
    [] h = "aidl" -> ViewOfParcel(parcel)
    [] OTHER -> ViewOf(queue[h].desc)

Meaningful(view) == 0 \in DOMAIN view.fds /\ 0 \in DOMAIN view.grantors

\* The grantors are those that a constructor lays out in the files of the handle.
Laid(view) ==
  LET bytes == view.grantors[DATAPTRPOS].extent
  IN  /\ bytes \in 0 .. SizeMax
      /\ bytes <= IntMax => view.quantum \in 1 .. IntMax /\ bytes % view.quantum = 0
      /\ view.flags \in Flavors
      /\ \E evFlag, supplied \in BOOLEAN :
           /\ view.grantors = LaidOut(bytes, evFlag, supplied)
           /\ DOMAIN view.fds = IF supplied THEN 0 .. 1 ELSE 0 .. 0
           /\ view.fds[0] # Bad =>
                view.fds[0].size = KAshmemSizePageAligned(bytes, evFlag, supplied)
           /\ supplied /\ view.fds[1] # Bad =>
                view.fds[1].size >= bytes /\ view.fds[1] # view.fds[0]

\* Two views of the same memory are of the same description.
Agree(view, other) ==
  view.fds[0] = other.fds[0] /\ view.fds[0] # Bad =>
    /\ view.grantors = other.grantors /\ view.flags = other.flags
    /\ DOMAIN view.fds = DOMAIN other.fds
    /\ \A i \in DOMAIN view.fds :
         view.fds[i] = other.fds[i] \/ view.fds[i] = Bad \/ other.fds[i] = Bad

Genuine(h) == origin[h] = "genuine" /\ Meaningful(View(h))

OriginInv ==
  /\ \A h \in Holders : Genuine(h) => Laid(View(h))
  /\ \A h, other \in Holders : Genuine(h) /\ Genuine(other) => Agree(View(h), View(other))
  /\ \A q \in Queues : Genuine(q) => queue[q].flavor = queue[q].desc.flags

\* A view made of another by copying, casting and dup().
CopyOf(view, source) ==
  Meaningful(view) =>
    /\ Meaningful(source)
    /\ view.grantors = source.grantors
    /\ DOMAIN view.fds = DOMAIN source.fds
    /\ \A i \in DOMAIN view.fds : view.fds[i] \in {source.fds[i], Bad}
    /\ source.quantum \in 0 .. IntMax => view.quantum = source.quantum
    /\ source.flags \in 0 .. IntMax => view.flags = source.flags

LEMMA SmallFlavors == \A flavor \in Flavors : flavor \in 0 .. IntMax
<1>1. 1 \in 0 .. IntMax /\ 2 \in 0 .. IntMax
  BY LayoutFacts
<1> QED
  BY <1>1 DEF Flavors, kSynchronizedReadWrite, kUnsynchronizedWrite

LEMMA CopyOfItself == ASSUME NEW view  PROVE CopyOf(view, view)
BY DEF CopyOf

LEMMA CopyOfCopy ==
  ASSUME NEW view, NEW middle, NEW source, CopyOf(view, middle), CopyOf(middle, source)
  PROVE  CopyOf(view, source)
BY DEF CopyOf

LEMMA CopyLaid ==
  ASSUME NEW view, NEW source, Meaningful(view), CopyOf(view, source), Laid(source)
  PROVE  Laid(view)
<1> DEFINE bytes == source.grantors[DATAPTRPOS].extent
<1>1. /\ view.grantors = source.grantors /\ DOMAIN view.fds = DOMAIN source.fds
      /\ \A i \in DOMAIN view.fds : view.fds[i] \in {source.fds[i], Bad}
      /\ source.quantum \in 0 .. IntMax => view.quantum = source.quantum
      /\ source.flags \in 0 .. IntMax => view.flags = source.flags
  BY DEF CopyOf
<1>2. PICK evFlag \in BOOLEAN, supplied \in BOOLEAN :
        /\ source.grantors = LaidOut(bytes, evFlag, supplied)
        /\ DOMAIN source.fds = IF supplied THEN 0 .. 1 ELSE 0 .. 0
        /\ source.fds[0] # Bad => source.fds[0].size = KAshmemSizePageAligned(bytes, evFlag, supplied)
        /\ supplied /\ source.fds[1] # Bad => source.fds[1].size >= bytes /\ source.fds[1] # source.fds[0]
  BY DEF Laid
<1>3. /\ bytes \in 0 .. SizeMax /\ source.flags \in Flavors
      /\ bytes <= IntMax => source.quantum \in 1 .. IntMax /\ bytes % source.quantum = 0
  BY DEF Laid
<1>4. view.grantors[DATAPTRPOS].extent = bytes
  BY <1>1
<1> HIDE DEF bytes
<1>5. view.flags \in Flavors
  BY <1>1, <1>3, SmallFlavors
<1>6. bytes <= IntMax => view.quantum \in 1 .. IntMax /\ bytes % view.quantum = 0
  BY <1>1, <1>3
<1>7. view.fds[0] # Bad => view.fds[0].size = KAshmemSizePageAligned(bytes, evFlag, supplied)
  BY <1>1, <1>2 DEF Meaningful
<1>8. supplied /\ view.fds[1] # Bad => view.fds[1].size >= bytes /\ view.fds[1] # view.fds[0]
  <2> SUFFICES ASSUME supplied, view.fds[1] # Bad
               PROVE  view.fds[1].size >= bytes /\ view.fds[1] # view.fds[0]
    OBVIOUS
  <2>1. 1 \in DOMAIN view.fds /\ 0 \in DOMAIN view.fds
    BY <1>1, <1>2
  <2>2. view.fds[1] = source.fds[1] /\ view.fds[0] \in {source.fds[0], Bad}
    BY <1>1, <2>1
  <2> QED
    BY <1>2, <2>2
<1>9. view.grantors = LaidOut(bytes, evFlag, supplied)
      /\ DOMAIN view.fds = IF supplied THEN 0 .. 1 ELSE 0 .. 0
  BY <1>1, <1>2
<1> QED
  BY <1>3, <1>4, <1>5, <1>6, <1>7, <1>8, <1>9 DEF Laid

LEMMA CopyAgrees ==
  ASSUME NEW view, NEW source, Meaningful(view), CopyOf(view, source), Laid(source)
  PROVE  /\ Meaningful(source)
         /\ \A other : Agree(source, other) => Agree(view, other)
         /\ \A other : Agree(other, source) => Agree(other, view)
<1>1. /\ view.grantors = source.grantors /\ DOMAIN view.fds = DOMAIN source.fds
      /\ \A i \in DOMAIN view.fds : view.fds[i] \in {source.fds[i], Bad}
      /\ source.flags \in 0 .. IntMax => view.flags = source.flags
      /\ 0 \in DOMAIN view.fds /\ Meaningful(source)
  BY DEF CopyOf, Meaningful
<1>2. view.flags = source.flags
  BY <1>1, SmallFlavors DEF Laid
<1>3. view.fds[0] # Bad => view.fds[0] = source.fds[0]
  BY <1>1
<1>4. ASSUME NEW other, Agree(source, other)  PROVE Agree(view, other)
  BY <1>1, <1>2, <1>3, <1>4 DEF Agree
<1>5. ASSUME NEW other, Agree(other, source)  PROVE Agree(other, view)
  <2> SUFFICES ASSUME other.fds[0] = view.fds[0], other.fds[0] # Bad
               PROVE  /\ other.grantors = view.grantors /\ other.flags = view.flags
                      /\ DOMAIN other.fds = DOMAIN view.fds
                      /\ \A i \in DOMAIN other.fds :
                           other.fds[i] = view.fds[i] \/ other.fds[i] = Bad \/ view.fds[i] = Bad
    BY DEF Agree
  <2>1. other.fds[0] = source.fds[0]
    BY <1>3
  <2>2. /\ other.grantors = source.grantors /\ other.flags = source.flags
        /\ DOMAIN other.fds = DOMAIN source.fds
        /\ \A i \in DOMAIN other.fds :
             other.fds[i] = source.fds[i] \/ other.fds[i] = Bad \/ source.fds[i] = Bad
    BY <1>5, <2>1 DEF Agree
  <2> QED
    BY <1>1, <1>2, <2>2
<1> QED
  BY <1>1, <1>4, <1>5

LEMMA AgreesWithItself == ASSUME NEW view  PROVE Agree(view, view)
BY DEF Agree

LEMMA Views ==
  /\ View("hidl") = ViewOf(hidl) /\ View("aidl") = ViewOfParcel(parcel)
  /\ \A q \in Queues : View(q) = ViewOf(queue[q].desc)
  /\ View("hidl")' = ViewOf(hidl') /\ View("aidl")' = ViewOfParcel(parcel')
  /\ \A q \in Queues : View(q)' = ViewOf(queue'[q].desc)
BY HolderNames DEF View

\* A holder with nothing of its own to say, with a copy of what another genuine
\* holder says, or with files that no other holder has.
LEMMA HolderStep ==
  ASSUME OriginInv, NEW h \in Holders, NEW view, view = View(h)',
         \A other \in Holders \ {h} : View(other)' = View(other) /\ origin'[other] = origin[other],
         \A q \in Queues \ {h} : queue'[q] = queue[q],
         origin'[h] = "genuine" /\ Meaningful(view) =>
           \/ \E source \in Holders : origin[source] = "genuine" /\ CopyOf(view, View(source))
           \/ /\ Laid(view)
              /\ \A other \in Holders \ {h} :
                   Genuine(other) => view.fds[0] = Bad \/ view.fds[0] # View(other).fds[0],
         \A q \in Queues :
           q = h /\ origin'[h] = "genuine" /\ Meaningful(view) => queue'[q].flavor = queue'[q].desc.flags
  PROVE  OriginInv'
<1>1. Genuine(h)' <=> origin'[h] = "genuine" /\ Meaningful(view)
  BY DEF Genuine, Meaningful
<1>2. \A other \in Holders \ {h} : Genuine(other)' <=> Genuine(other)
  BY DEF Genuine, Meaningful
<1>3. ASSUME Genuine(h)'
      PROVE  /\ Laid(view)
             /\ \A other \in Holders \ {h} :
                  Genuine(other) => Agree(view, View(other)) /\ Agree(View(other), view)
  <2>1. CASE \E source \in Holders : origin[source] = "genuine" /\ CopyOf(view, View(source))
    <3>1. PICK source \in Holders : origin[source] = "genuine" /\ CopyOf(view, View(source))
      BY <2>1
    <3>2. Genuine(source)
      BY <1>1, <1>3, <3>1 DEF CopyOf, Genuine
    <3>3. Laid(View(source))
      BY <3>2 DEF OriginInv
    <3>4. Laid(view)
      BY <1>1, <1>3, <3>1, <3>3, CopyLaid
    <3>5. \A other \in Holders : Genuine(other) =>
            Agree(View(source), View(other)) /\ Agree(View(other), View(source))
      BY <3>2 DEF OriginInv
    <3> DEFINE from == View(source)
    <3>6. /\ \A other : Agree(from, other) => Agree(view, other)
          /\ \A other : Agree(other, from) => Agree(other, view)
      <4>1. Meaningful(view) /\ CopyOf(view, from) /\ Laid(from)
        BY <1>1, <1>3, <3>1, <3>3
      <4> HIDE DEF from
      <4> QED
        BY <4>1, CopyAgrees
    <3> QED
      BY <3>4, <3>5, <3>6
  <2>2. CASE /\ Laid(view)
             /\ \A other \in Holders \ {h} :
                  Genuine(other) => view.fds[0] = Bad \/ view.fds[0] # View(other).fds[0]
    BY <2>2 DEF Agree
  <2> QED
    BY <1>1, <1>3, <2>1, <2>2
<1>4. \A other \in Holders : Genuine(other)' => Laid(View(other)')
  BY <1>2, <1>3 DEF OriginInv
<1>5. ASSUME NEW a \in Holders, NEW b \in Holders, Genuine(a)', Genuine(b)'
      PROVE  Agree(View(a)', View(b)')
  <2>1. CASE a = h /\ b = h
    BY <2>1, AgreesWithItself
  <2>2. CASE a = h /\ b # h
    BY <1>2, <1>3, <1>5, <2>2
  <2>3. CASE a # h /\ b = h
    BY <1>2, <1>3, <1>5, <2>3
  <2>4. CASE a # h /\ b # h
    BY <1>2, <1>5, <2>4 DEF OriginInv
  <2> QED
    BY <2>1, <2>2, <2>3, <2>4
<1>6. \A q \in Queues : Genuine(q)' => queue'[q].flavor = queue'[q].desc.flags
  <2>1. \A q \in Queues : q \in Holders
    BY DEF Holders
  <2> QED
    BY <1>1, <1>2, <2>1 DEF OriginInv
<1>7. \A other \in Holders : Genuine(other)' => Laid(View(other))'
  BY <1>4 DEF Laid
<1>8. \A a, b \in Holders : Genuine(a)' /\ Genuine(b)' => Agree(View(a), View(b))'
  BY <1>5 DEF Agree
<1> QED
  BY <1>6, <1>7, <1>8 DEF OriginInv, Holders, Queues

LEMMA SmallCasts ==
  ASSUME NEW x \in 0 .. IntMax
  PROVE  ToInt32(x) = x /\ ToUint32(x) = x
<1>1. x \in Int /\ x \in 0 .. IntModulus - 1
  BY LayoutFacts
<1> QED
  BY <1>1, Int32Cast, UnsignedCasts

LEMMA DupIsCopy ==
  ASSUME NEW fds \in Handles(Files), NEW room \in Nat
  PROVE  /\ DOMAIN Dup(fds, room) = DOMAIN fds
         /\ \A i \in DOMAIN fds : Dup(fds, room)[i] \in {fds[i], Bad}
BY BadFile, DupFacts

\* A handle without descriptors says nothing.
LEMMA Meaningless ==
  ASSUME NEW view, view.fds = NoFds \/ view.grantors = NoGrantors
  PROVE  ~Meaningful(view)
BY NothingOpen DEF Meaningful, NoFds, NoGrantors

LEMMA CopyIsCopy ==
  ASSUME NEW desc \in DescType, NEW room \in Nat
  PROVE  CopyOf(ViewOf(CopyDescriptor(desc, room)), ViewOf(desc))
<1> DEFINE copy == CopyDescriptor(desc, room)
<1>1. /\ copy.grantors = desc.grantors /\ copy.quantum = desc.quantum /\ copy.flags = desc.flags
      /\ ~desc.handle.null => copy.handle.fds = Dup(desc.handle.fds, room)
  BY CopyType
<1>2. desc.handle.null => copy.handle.fds = NoFds
  BY DEF CopyDescriptor, NullHandle, DescType
<1>3. desc.handle.fds \in Handles(Files) /\ desc.handle.null \in BOOLEAN
  BY DEF DescType
<1> HIDE DEF copy
<1>4. ASSUME desc.handle.null  PROVE CopyOf(ViewOf(copy), ViewOf(desc))
  <2>1. ViewOf(copy).fds = NoFds
    BY <1>2, <1>4 DEF ViewOf
  <2> QED
    BY <2>1, Meaningless DEF CopyOf
<1>5. ASSUME ~desc.handle.null  PROVE CopyOf(ViewOf(copy), ViewOf(desc))
  <2> DEFINE view == ViewOf(copy)
             source == ViewOf(desc)
  <2>1. /\ view.grantors = source.grantors /\ view.quantum = source.quantum
        /\ view.flags = source.flags
        /\ view.fds = Dup(desc.handle.fds, room) /\ source.fds = desc.handle.fds
    BY <1>1, <1>5 DEF ViewOf
  <2>2. DOMAIN view.fds = DOMAIN source.fds
        /\ \A i \in DOMAIN view.fds : view.fds[i] \in {source.fds[i], Bad}
    BY <1>3, <2>1, DupIsCopy
  <2> HIDE DEF view, source
  <2>3. CopyOf(view, source)
    BY <2>1, <2>2 DEF CopyOf, Meaningful
  <2> QED
    BY <2>3 DEF view, source
<1> QED
  BY <1>3, <1>4, <1>5 DEF copy

LEMMA ShimIsCopy ==
  ASSUME NEW p \in ParcelType, NEW room \in Nat
  PROVE  CopyOf(ViewOf(Shim(p, room)), ViewOfParcel(p))
<1> DEFINE shim == Shim(p, room)
<1>1. /\ shim.grantors = ShimGrantors(p)
      /\ shim.quantum = ToUint32(p.quantum) /\ shim.flags = ToUint32(p.flags)
      /\ ~ShimRejects(p) => shim.handle.fds = Dup(p.fds, room)
  BY ShimType
<1>2. ShimRejects(p) => shim.handle.fds = NoFds
  BY DEF Shim, Descriptor, NullHandle
<1>3. p.fds \in Handles(Files) /\ p.grantors \in Vectors(Signed)
  BY DEF ParcelType
<1>4. ~ShimRejects(p) => ShimGrantors(p) = [i \in DOMAIN p.grantors |-> FromAidl(p.grantors[i])]
  BY <1>3, ShimFacts
<1> HIDE DEF shim
<1>5. ASSUME ShimRejects(p)  PROVE CopyOf(ViewOf(shim), ViewOfParcel(p))
  <2>1. ViewOf(shim).fds = NoFds
    BY <1>2, <1>5 DEF ViewOf
  <2> QED
    BY <2>1, Meaningless DEF CopyOf
<1>6. ASSUME ~ShimRejects(p)  PROVE CopyOf(ViewOf(shim), ViewOfParcel(p))
  <2> DEFINE view == ViewOf(shim)
             source == ViewOfParcel(p)
  <2>1. /\ view.grantors = source.grantors
        /\ view.fds = Dup(p.fds, room) /\ source.fds = p.fds
        /\ view.quantum = ToUint32(p.quantum) /\ source.quantum = p.quantum
        /\ view.flags = ToUint32(p.flags) /\ source.flags = p.flags
    BY <1>1, <1>4, <1>6 DEF ViewOf, ViewOfParcel
  <2>2. DOMAIN view.fds = DOMAIN source.fds
        /\ \A i \in DOMAIN view.fds : view.fds[i] \in {source.fds[i], Bad}
    BY <1>3, <2>1, DupIsCopy
  <2> HIDE DEF view, source
  <2>3. CopyOf(view, source)
    BY <2>1, <2>2, SmallCasts DEF CopyOf, Meaningful
  <2> QED
    BY <2>3 DEF view, source
<1> QED
  BY <1>5, <1>6 DEF shim

LEMMA BackAndForth ==
  ASSUME NEW g \in Vectors(Unsigned), NEW h, DOMAIN h = DOMAIN g,
         \A i \in DOMAIN g : h[i] = ToAidl(g[i])
  PROVE  [i \in DOMAIN h |-> FromAidl(h[i])] = g
<1>1. \A i \in DOMAIN g : g[i] \in Unsigned /\ g = [j \in DOMAIN g |-> g[j]]
  BY VectorFacts
<1>2. g = [j \in DOMAIN g |-> g[j]]
  BY VectorFacts
<1>3. \A i \in DOMAIN h : FromAidl(h[i]) = g[i]
  BY <1>1, AidlRoundTrip
<1> QED
  BY <1>2, <1>3

LEMMA DupedIsCopy ==
  ASSUME NEW desc \in DescType, NEW room \in Nat
  PROVE  CopyOf(ViewOfParcel(DupedDesc(desc, room)), ViewOf(desc))
<1> DEFINE p == DupedDesc(desc, room)
<1>1. /\ p.fds = Dup(desc.handle.fds, room)
      /\ p.grantors = [i \in DOMAIN desc.grantors |-> ToAidl(desc.grantors[i])]
      /\ p.quantum = ToInt32(desc.quantum) /\ p.flags = ToInt32(desc.flags)
  BY DupedType
<1>2. desc.handle.fds \in Handles(Files) /\ desc.grantors \in Vectors(Unsigned)
  BY DEF DescType
<1> HIDE DEF p
<1> DEFINE view == ViewOfParcel(p)
           source == ViewOf(desc)
<1>3. /\ view.grantors = source.grantors
      /\ view.fds = Dup(desc.handle.fds, room) /\ source.fds = desc.handle.fds
      /\ view.quantum = ToInt32(desc.quantum) /\ source.quantum = desc.quantum
      /\ view.flags = ToInt32(desc.flags) /\ source.flags = desc.flags
  <2>1. [i \in DOMAIN p.grantors |-> FromAidl(p.grantors[i])] = desc.grantors
    BY <1>1, <1>2, BackAndForth
  <2> QED
    BY <1>1, <2>1 DEF ViewOf, ViewOfParcel
<1>4. DOMAIN view.fds = DOMAIN source.fds
      /\ \A i \in DOMAIN view.fds : view.fds[i] \in {source.fds[i], Bad}
  BY <1>2, <1>3, DupIsCopy
<1> HIDE DEF view, source
<1>5. CopyOf(view, source)
  BY <1>3, <1>4, SmallCasts DEF CopyOf, Meaningful
<1> QED
  BY <1>5 DEF view, source, p

LEMMA ConvertedIsCopy ==
  ASSUME NEW desc \in DescType, NEW flavor, Converts(desc, flavor), NEW room \in Nat
  PROVE  CopyOf(ViewOfParcel(ConvertedParcel(desc, flavor, room)), ViewOf(desc))
<1> DEFINE p == ConvertedParcel(desc, flavor, room)
<1>1. AllAppended(desc)
  BY DEF Converts
<1>2. /\ p.fds = Dup(desc.handle.fds, room) /\ p.grantors = Appended(desc)
      /\ p.quantum = ToInt32(desc.quantum) /\ p.flags = ToInt32(desc.flags)
  BY <1>1, ConvertedType
<1>3. desc.handle.fds \in Handles(Files) /\ desc.grantors \in Vectors(Unsigned)
  BY DEF DescType
<1>4. DOMAIN p.grantors = DOMAIN desc.grantors
      /\ \A i \in DOMAIN desc.grantors : p.grantors[i] = ToAidl(desc.grantors[i])
  BY <1>1, <1>2, <1>3, AppendedFacts DEF AllAppended
<1> HIDE DEF p
<1> DEFINE view == ViewOfParcel(p)
           source == ViewOf(desc)
<1>5. /\ view.grantors = source.grantors
      /\ view.fds = Dup(desc.handle.fds, room) /\ source.fds = desc.handle.fds
      /\ view.quantum = ToInt32(desc.quantum) /\ source.quantum = desc.quantum
      /\ view.flags = ToInt32(desc.flags) /\ source.flags = desc.flags
  <2>1. [i \in DOMAIN p.grantors |-> FromAidl(p.grantors[i])] = desc.grantors
    BY <1>3, <1>4, BackAndForth
  <2> QED
    BY <1>2, <2>1 DEF ViewOf, ViewOfParcel
<1>6. DOMAIN view.fds = DOMAIN source.fds
      /\ \A i \in DOMAIN view.fds : view.fds[i] \in {source.fds[i], Bad}
  BY <1>3, <1>5, DupIsCopy
<1> HIDE DEF view, source
<1>7. CopyOf(view, source)
  BY <1>5, <1>6, SmallCasts DEF CopyOf, Meaningful
<1> QED
  BY <1>7 DEF view, source, p

\* What a constructor lays out.
LEMMA CreatedLaid ==
  ASSUME NEW setup \in Setups, ~RefusesToCreate(setup),
         NEW id \in 1 .. NumFiles, NEW bufferId \in 1 .. NumFiles, setup.supplied => bufferId # id,
         NEW fd \in {File(id, KAshmemSizePageAligned(setup.n * setup.sizeofT, setup.evFlag,
                                                     setup.supplied)), Bad},
         fd \in Files, NEW desc, desc = CreatedDescriptor(setup, CreatedFds(setup, bufferId, fd)),
         Meaningful(ViewOf(desc))
  PROVE  Laid(ViewOf(desc)) /\ ViewOf(desc).fds[0] = fd
<1> DEFINE fds == CreatedFds(setup, bufferId, fd)
           bytes == setup.n * setup.sizeofT
           g == LaidOut(bytes, setup.evFlag, setup.supplied)
           size == KAshmemSizePageAligned(bytes, setup.evFlag, setup.supplied)
           view == ViewOf(desc)
<1>1. /\ fds \in Handles(Files)
      /\ DOMAIN fds = (IF setup.supplied THEN 0 .. 1 ELSE 0 .. 0)
      /\ fds[0] = fd /\ (setup.supplied => fds[1] = File(bufferId, BufferBytes))
  BY CreatedFdsFacts
<1> HIDE DEF fds
<1>2. /\ bytes \in 0 .. SizeMax /\ desc.handle.fds = fds
      /\ desc.quantum = setup.sizeofT /\ desc.flags = setup.flavor
      /\ desc.grantors \in {NoGrantors, g}
  BY <1>1, CreatedType DEF fds
<1>3. /\ setup.n \in Nat /\ setup.sizeofT \in Nat \ {0} /\ setup.flavor \in Flavors
      /\ setup.evFlag \in BOOLEAN /\ setup.supplied \in BOOLEAN /\ BufferBytes \in Nat
  BY BoundFacts
<1>4. setup.n # 0 /\ (setup.supplied => bytes <= BufferBytes)
  BY <1>2, <1>3 DEF RefusesToCreate
<1>5. setup.sizeofT <= bytes /\ bytes % setup.sizeofT = 0
  <2>1. bytes = setup.sizeofT * setup.n + 0
    BY <1>3
  <2>2. bytes % setup.sizeofT = 0
    <3> HIDE DEF bytes
    <3> QED
      BY <1>2, <1>3, <2>1, RecombineUnique
  <2>3. setup.sizeofT * setup.n >= setup.sizeofT * 1
    BY <1>3, <1>4
  <2> QED
    BY <1>3, <2>1, <2>2, <2>3
<1>6. /\ view.fds = fds /\ view.quantum = setup.sizeofT /\ view.flags = setup.flavor
      /\ view.grantors = desc.grantors
  BY <1>2 DEF ViewOf
<1>7. view.grantors = g
  BY <1>2, <1>6, Meaningless
<1>8. g[DATAPTRPOS].extent = bytes
  <2>1. /\ DOMAIN g = (IF setup.evFlag THEN 0 .. 3 ELSE 0 .. 2)
        /\ \A pos \in DOMAIN g : g[pos].extent = MemSize(bytes)[pos]
    BY <1>2, <1>3, LaidOutFacts
  <2>2. DATAPTRPOS \in DOMAIN g
    BY <1>3, <2>1 DEF DATAPTRPOS
  <2>3. MemSize(bytes)[DATAPTRPOS] = bytes
    <3> HIDE DEF bytes
    <3> QED
      BY FourPositions DEF MemSize, DATAPTRPOS, EVFLAGWORDPOS
  <2> QED
    BY <2>1, <2>2, <2>3
<1>9. view.fds[0] # Bad => view.fds[0].size = size
  BY <1>1, <1>6 DEF File
<1>10. setup.supplied => view.fds[1].size >= bytes /\ view.fds[1] # view.fds[0]
  <2> SUFFICES ASSUME setup.supplied  PROVE view.fds[1].size >= bytes /\ view.fds[1] # view.fds[0]
    OBVIOUS
  <2>1. view.fds[1] = File(bufferId, BufferBytes) /\ view.fds[0] = fd
    BY <1>1, <1>6
  <2>2. view.fds[1].size = BufferBytes /\ view.fds[1].id = bufferId
    BY <2>1 DEF File
  <2>3. File(id, size).id = id /\ Bad.id = 0 /\ fd \in {File(id, size), Bad}
    BY DEF File, Bad
  <2> HIDE DEF size
  <2>4. fd.id # bufferId
    BY <2>3
  <2> QED
    BY <1>2, <1>3, <1>4, <2>1, <2>2, <2>4
<1>11. bytes <= IntMax => view.quantum \in 1 .. IntMax /\ bytes % view.quantum = 0
  BY <1>2, <1>3, <1>5, <1>6, LayoutFacts
<1> HIDE DEF g, size, view, bytes
<1>12. Laid(view)
  <2>1. DOMAIN view.fds = (IF setup.supplied THEN 0 .. 1 ELSE 0 .. 0)
    BY <1>1, <1>6
  <2>2. view.grantors[DATAPTRPOS].extent = bytes
    BY <1>7, <1>8
  <2>3. view.grantors = LaidOut(bytes, setup.evFlag, setup.supplied)
    BY <1>7 DEF g
  <2>4. view.fds[0] # Bad => view.fds[0].size = KAshmemSizePageAligned(bytes, setup.evFlag, setup.supplied)
    BY <1>9 DEF size
  <2> QED
    BY <1>2, <1>3, <1>6, <1>10, <1>11, <2>1, <2>2, <2>3, <2>4 DEF Laid
<1> QED
  BY <1>1, <1>6, <1>12 DEF view

LEMMA OriginQueueStep ==
  ASSUME Types, OriginInv, NEW q \in Queues, NEW object, NEW value,
         queue' = [queue EXCEPT ![q] = object], UNCHANGED <<hidl, parcel>>,
         \/ UNCHANGED origin /\ value = origin[q]
         \/ origin' = [origin EXCEPT ![q] = value],
         value = "genuine" /\ Meaningful(ViewOf(object.desc)) =>
           /\ object.flavor = object.desc.flags
           /\ \/ \E source \in Holders :
                   origin[source] = "genuine" /\ CopyOf(ViewOf(object.desc), View(source))
              \/ /\ Laid(ViewOf(object.desc))
                 /\ \A other \in Holders \ {q} :
                      Genuine(other) => \/ ViewOf(object.desc).fds[0] = Bad
                                        \/ ViewOf(object.desc).fds[0] # View(other).fds[0]
  PROVE  OriginInv'
<1>1. origin'[q] = value /\ \A other \in Holders \ {q} : origin'[other] = origin[other]
  BY OriginOfOne, HolderNames DEF Holders
<1>2. queue'[q] = object /\ \A r \in Queues \ {q} : queue'[r] = queue[r]
  BY ReplacedQueue
<1>3. View(q)' = ViewOf(object.desc)
  BY <1>2, Views
<1>4. \A other \in Holders \ {q} : View(other)' = View(other)
  <2>1. View("hidl")' = View("hidl") /\ View("aidl")' = View("aidl")
    BY Views
  <2>2. \A r \in Queues \ {q} : View(r)' = View(r)
    BY <1>2, Views
  <2> QED
    BY <2>1, <2>2 DEF Holders, Kinds
<1>5. q \in Holders
  BY DEF Holders
<1> QED
  BY <1>1, <1>2, <1>3, <1>4, <1>5, HolderStep

LEMMA OriginHidlStep ==
  ASSUME Types, OriginInv, NEW value, origin' = [origin EXCEPT !["hidl"] = value],
         UNCHANGED <<queue, parcel>>,
         value = "genuine" /\ Meaningful(ViewOf(hidl')) =>
           \E source \in Holders : origin[source] = "genuine" /\ CopyOf(ViewOf(hidl'), View(source))
  PROVE  OriginInv'
<1>1. /\ origin'["hidl"] = value
      /\ \A other \in Holders \ {"hidl"} : origin'[other] = origin[other]
  BY OriginOfOne, HolderNames DEF Holders
<1>2. View("hidl")' = ViewOf(hidl')
  BY Views
<1>3. \A other \in Holders \ {"hidl"} : View(other)' = View(other)
  BY Views, HolderNames DEF Holders, Kinds
<1>4. "hidl" \in Holders /\ \A q \in Queues : q # "hidl" /\ queue'[q] = queue[q]
  BY HolderNames DEF Holders
<1> QED
  BY <1>1, <1>2, <1>3, <1>4, HolderStep

LEMMA OriginParcelStep ==
  ASSUME Types, OriginInv, NEW value, origin' = [origin EXCEPT !["aidl"] = value],
         UNCHANGED <<queue, hidl>>,
         value = "genuine" /\ Meaningful(ViewOfParcel(parcel')) =>
           \E source \in Holders :
             origin[source] = "genuine" /\ CopyOf(ViewOfParcel(parcel'), View(source))
  PROVE  OriginInv'
<1>1. /\ origin'["aidl"] = value
      /\ \A other \in Holders \ {"aidl"} : origin'[other] = origin[other]
  BY OriginOfOne, HolderNames DEF Holders
<1>2. View("aidl")' = ViewOfParcel(parcel')
  BY Views
<1>3. \A other \in Holders \ {"aidl"} : View(other)' = View(other)
  BY Views, HolderNames DEF Holders, Kinds
<1>4. "aidl" \in Holders /\ \A q \in Queues : q # "aidl" /\ queue'[q] = queue[q]
  BY HolderNames DEF Holders
<1> QED
  BY <1>1, <1>2, <1>3, <1>4, HolderStep

LEMMA NothingSaid ==
  /\ ~Meaningful(ViewOf(NoDescriptor)) /\ ~Meaningful(ViewOfParcel(EmptyParcel))
  /\ ~Meaningful(ViewOf(NoQueue.desc)) /\ ~Meaningful(ViewOf(QueueWithoutDescriptor.desc))
<1>1. ViewOf(NoDescriptor).fds = NoFds /\ ViewOfParcel(EmptyParcel).fds = NoFds
  BY EmptyHanded DEF ViewOf, ViewOfParcel
<1> QED
  BY <1>1, EmptyHanded, Meaningless

\* A file that a genuine holder has open is in use, and is given to no new queue.
LEMMA FilesInUse ==
  ASSUME NEW h \in Holders, Meaningful(View(h)), View(h).fds[0] # Bad,
         NEW id \in NewIds
  PROVE  View(h).fds[0].id # id
<1> DEFINE file == View(h).fds[0]
<1>1. file \in LiveFiles
  <2>1. CASE h = "hidl"
    <3>1. View(h).fds = hidl.handle.fds
      BY <2>1, Views DEF ViewOf
    <3>2. file \in HandleFiles(hidl.handle.fds)
      BY <3>1 DEF HandleFiles, Meaningful
    <3> QED
      BY <3>2 DEF LiveFiles
  <2>2. CASE h = "aidl"
    <3>1. View(h).fds = parcel.fds
      BY <2>2, Views DEF ViewOfParcel
    <3>2. file \in HandleFiles(parcel.fds)
      BY <3>1 DEF HandleFiles, Meaningful
    <3> QED
      BY <3>2 DEF LiveFiles
  <2>3. CASE h \in Queues
    <3>1. View(h).fds = queue[h].desc.handle.fds
      BY <2>3, Views DEF ViewOf
    <3>2. file \in HandleFiles(queue[h].desc.handle.fds)
      BY <3>1 DEF HandleFiles, Meaningful
    <3> QED
      BY <2>3, <3>2 DEF LiveFiles
  <2> QED
    BY <2>1, <2>2, <2>3 DEF Holders, Kinds
<1> HIDE DEF file
<1>2. file.id # id
  BY <1>1 DEF NewIds
<1> QED
  BY <1>2 DEF file

LEMMA OriginNext == BaseInv /\ OriginInv /\ [Next]_vars => OriginInv'
<1> SUFFICES ASSUME BaseInv, OriginInv, [Next]_vars  PROVE OriginInv'
  OBVIOUS
<1>1. /\ Types /\ Room \in Nat /\ hidl \in DescType /\ parcel \in ParcelType
      /\ \A q \in Queues : queue[q].desc \in DescType
  BY BaseFacts DEF BaseInv
<1>2. CASE ProcessDies
  <2>1. /\ \A q \in Queues : queue'[q] = NoQueue
        /\ hidl' = NoDescriptor /\ parcel' = EmptyParcel
    BY <1>2 DEF ProcessDies
  <2>2. \A h \in Holders : ~Meaningful(View(h)')
    BY <2>1, Views, NothingSaid DEF Holders, Kinds
  <2>3. \A h \in Holders : ~Meaningful(View(h))'
    BY <2>2 DEF Meaningful
  <2> QED
    BY <2>3 DEF OriginInv, Genuine, Holders
<1>3. ASSUME NEW q \in Queues, NEW object, Replaces(q, object), object.desc = queue[q].desc,
             object.flavor = queue[q].flavor, UNCHANGED origin
      PROVE  OriginInv'
  <2>1. View(q) = ViewOf(object.desc) /\ q \in Holders
    BY <1>3, Views DEF Holders
  <2>2. CopyOf(ViewOf(object.desc), View(q))
    BY <2>1, CopyOfItself
  <2>3. origin[q] = "genuine" /\ Meaningful(ViewOf(object.desc)) => object.flavor = object.desc.flags
    BY <1>3, <2>1 DEF OriginInv, Genuine
  <2> QED
    BY <1>1, <1>3, <2>1, <2>2, <2>3, OriginQueueStep DEF Replaces
<1>4. ASSUME NEW q \in Queues, queue' = [queue EXCEPT ![q] = QueueWithoutDescriptor],
             UNCHANGED <<hidl, parcel, origin>>
      PROVE  OriginInv'
  BY <1>1, <1>4, NothingSaid, OriginQueueStep
<1>5. ASSUME NEW q \in Creators, NEW setup \in Setups, Create(q, setup)  PROVE OriginInv'
  <2>1. q \in Queues
    BY DEF Queues
  <2>2. CASE Installs(q, QueueWithoutDescriptor) /\ UNCHANGED origin
    BY <1>4, <2>1, <2>2 DEF Installs
  <2> DEFINE size == KAshmemSizePageAligned(setup.n * setup.sizeofT, setup.evFlag, setup.supplied)
  <2>3. ASSUME ~RefusesToCreate(setup), NEW id \in NewIds, NEW bufferId \in NewIds,
               NEW fd \in {File(id, size), Bad}, fd \in Files, setup.supplied => bufferId # id,
               Installs(q, CreatedObject(setup, CreatedFds(setup, bufferId, fd))),
               origin' = [origin EXCEPT ![q] = "genuine"]
        PROVE  OriginInv'
    <3> DEFINE fds == CreatedFds(setup, bufferId, fd)
               object == CreatedObject(setup, fds)
               desc == CreatedDescriptor(setup, fds)
    <3>1. id \in 1 .. NumFiles /\ bufferId \in 1 .. NumFiles
      BY DEF NewIds
    <3>2. fds \in Handles(Files)
      BY <2>3, <3>1, CreatedFdsFacts
    <3>3. object.desc = desc /\ object.flavor = setup.flavor /\ desc.flags = setup.flavor
      <4> HIDE DEF fds
      <4> QED
        BY <2>3, <3>2, CreatedObjectFacts, CreatedType
    <3>4. Meaningful(ViewOf(desc)) => Laid(ViewOf(desc)) /\ ViewOf(desc).fds[0] = fd
      BY <2>3, <3>1, CreatedLaid
    <3>5. queue' = [queue EXCEPT ![q] = object] /\ UNCHANGED <<hidl, parcel>>
      BY <2>3 DEF Installs
    <3> HIDE DEF fds, object, desc, size
    <3>6. ASSUME NEW other \in Holders, Genuine(other), fd # Bad
          PROVE  fd # View(other).fds[0]
      <4>1. fd.id = id
        BY <2>3, <3>6 DEF File
      <4>2. View(other).fds[0] # Bad => View(other).fds[0].id # id
        BY <2>3, <3>6, FilesInUse DEF Genuine
      <4> QED
        BY <3>6, <4>1, <4>2
    <3> DEFINE value == "genuine"
    <3>7. origin' = [origin EXCEPT ![q] = value]
      BY <2>3
    <3>8. Meaningful(ViewOf(object.desc)) =>
            /\ object.flavor = object.desc.flags
            /\ Laid(ViewOf(object.desc))
            /\ \A other \in Holders \ {q} :
                 Genuine(other) => \/ ViewOf(object.desc).fds[0] = Bad
                                   \/ ViewOf(object.desc).fds[0] # View(other).fds[0]
      BY <3>3, <3>4, <3>6
    <3> HIDE DEF value
    <3> QED
      BY <1>1, <2>1, <3>5, <3>7, <3>8, OriginQueueStep
  <2> HIDE DEF size
  <2> QED
    BY <1>2, <1>5, <2>2, <2>3, CreateCases DEF size
<1>6. ASSUME NEW q \in Creators, NEW setup \in Setups, CreateWithoutMemory(q, setup)
      PROVE  OriginInv'
  BY <1>4, <1>6 DEF CreateWithoutMemory, Queues
<1>7. ASSUME NEW q \in Attachers, AttachWithoutMemory(q)  PROVE OriginInv'
  BY <1>4, <1>7 DEF AttachWithoutMemory, Queues
<1>8. ASSUME NEW q \in Attachers, NEW sizeofT \in AttachSizes, NEW resets \in BOOLEAN,
             AttachHidl(q, sizeofT, resets)
      PROVE  OriginInv'
  <2>1. PICK object : /\ Installs(q, object) /\ object.desc = CopyDescriptor(hidl, Room)
                      /\ object.flavor = hidl.flags
    BY <1>8, AttachHidlCases DEF Queues
  <2>2. object.desc.flags = hidl.flags
    BY <1>1, <2>1, CopyType
  <2>3. CopyOf(ViewOf(object.desc), View("hidl")) /\ "hidl" \in Holders
    BY <1>1, <2>1, CopyIsCopy, Views, HolderNames DEF Holders
  <2>4. origin' = [origin EXCEPT ![q] = origin["hidl"]]
    BY <1>8, AttachHidlCases
  <2> QED
    BY <1>1, <2>1, <2>2, <2>3, <2>4, OriginQueueStep DEF Installs, Queues
<1>9. ASSUME NEW q \in Attachers, NEW flavor \in Flavors, NEW sizeofT \in AttachSizes,
             NEW resets \in BOOLEAN, AttachAidl(q, flavor, sizeofT, resets)
      PROVE  OriginInv'
  <2>1. PICK object : /\ Installs(q, object) /\ object.desc = ShimCopy
                      /\ object.flavor = flavor
    BY <1>9, AttachAidlCases DEF Queues
  <2> DEFINE shim == Shim(parcel, Room)
  <2>2. shim \in DescType /\ Room - OpenFds(shim.handle.fds) \in Nat
    <3>1. shim \in DescType /\ OpenFds(shim.handle.fds) \in 0 .. Room
      BY <1>1, ShimType
    <3> HIDE DEF shim
    <3> QED
      BY <1>1, <3>1
  <2>3. CopyOf(ViewOf(ShimCopy), ViewOf(shim))
    BY <2>2, CopyIsCopy DEF ShimCopy
  <2>4. CopyOf(ViewOf(shim), View("aidl")) /\ "aidl" \in Holders
    BY <1>1, ShimIsCopy, Views, HolderNames DEF Holders
  <2> HIDE DEF shim
  <2>5. CopyOf(ViewOf(object.desc), View("aidl"))
    BY <2>1, <2>3, <2>4, CopyOfCopy
  <2>6. origin["aidl"] = "genuine" /\ Meaningful(ViewOf(object.desc)) =>
          object.flavor = object.desc.flags
    <3> SUFFICES ASSUME origin["aidl"] = "genuine", Meaningful(ViewOf(object.desc))
                 PROVE  object.flavor = object.desc.flags
      OBVIOUS
    <3>1. Genuine("aidl")
      BY <2>5 DEF Genuine, CopyOf
    <3>2. View("aidl").flags \in Flavors
      BY <2>4, <3>1 DEF OriginInv, Laid
    <3>3. View("aidl").flags = parcel.flags
      BY Views DEF ViewOfParcel
    <3>4. flavor = parcel.flags
      BY <1>9, <3>2, <3>3 DEF AttachAidl
    <3>5. ViewOf(object.desc).flags = View("aidl").flags
      BY <2>5, <3>2, SmallFlavors DEF CopyOf
    <3> QED
      BY <2>1, <3>3, <3>4, <3>5 DEF ViewOf
  <2>7. origin' = [origin EXCEPT ![q] = origin["aidl"]]
    BY <1>9, AttachAidlCases
  <2> QED
    BY <1>1, <2>1, <2>4, <2>5, <2>6, <2>7, OriginQueueStep DEF Installs, Queues
<1>10. ASSUME NEW q \in Queues, Constructs(q)  PROVE OriginInv'
  <2>1. CASE AllocateReadPtr(q)
    BY <1>3, <2>1, AllocateCases
  <2>2. CASE MapGrantorDescr(q)
    BY <1>3, <2>2, MapCases
  <2>3. CASE ResetFaults(q)
    BY <1>2, <2>3 DEF ResetFaults
  <2>4. CASE InitMemoryFails(q)
    BY <1>3, <2>4, FailsCases
  <2> QED
    BY <1>10, <2>1, <2>2, <2>3, <2>4 DEF Constructs
<1>11. ASSUME NEW q \in Queues, Destroy(q)  PROVE OriginInv'
  <2> DEFINE value == "genuine"
  <2>1. /\ queue' = [queue EXCEPT ![q] = NoQueue] /\ origin' = [origin EXCEPT ![q] = value]
        /\ UNCHANGED <<hidl, parcel>>
    BY <1>11 DEF Destroy
  <2> HIDE DEF value
  <2> QED
    BY <1>1, <2>1, NothingSaid, OriginQueueStep
<1>12. ASSUME NEW q \in Queues, SendHidl(q)  PROVE OriginInv'
  <2>1. hidl' = CopyDescriptor(queue[q].desc, Room) /\ origin' = [origin EXCEPT !["hidl"] = origin[q]]
        /\ UNCHANGED <<queue, parcel>>
    BY <1>12 DEF SendHidl
  <2>2. CopyOf(ViewOf(hidl'), View(q)) /\ q \in Holders
    BY <1>1, <2>1, CopyIsCopy, Views DEF Holders
  <2> QED
    BY <1>1, <2>1, <2>2, OriginHidlStep
<1>13. ASSUME NEW q \in Queues, DupeDesc(q)  PROVE OriginInv'
  <2>1. parcel' = DupedDesc(queue[q].desc, Room) /\ origin' = [origin EXCEPT !["aidl"] = origin[q]]
        /\ UNCHANGED <<queue, hidl>>
    BY <1>13 DEF DupeDesc
  <2>2. CopyOf(ViewOfParcel(parcel'), View(q)) /\ q \in Holders
    BY <1>1, <2>1, DupedIsCopy, Views DEF Holders
  <2> QED
    BY <1>1, <2>1, <2>2, OriginParcelStep
<1>14. ASSUME NEW flavor \in Flavors, UnsafeHidlToAidl(flavor)  PROVE OriginInv'
  <2> DEFINE value == IF Converts(hidl, flavor) THEN origin["hidl"] ELSE "failed"
  <2>1. parcel' = ConvertedParcel(hidl, flavor, Room) /\ origin' = [origin EXCEPT !["aidl"] = value]
        /\ UNCHANGED <<queue, hidl>>
    BY <1>14 DEF UnsafeHidlToAidl
  <2>2. value = "genuine" => Converts(hidl, flavor) /\ origin["hidl"] = "genuine"
    OBVIOUS
  <2>3. "hidl" \in Holders
    BY HolderNames DEF Holders
  <2>4. value = "genuine" => CopyOf(ViewOfParcel(parcel'), View("hidl"))
    BY <1>1, <2>1, <2>2, ConvertedIsCopy, Views
  <2> HIDE DEF value
  <2> QED
    BY <1>1, <2>1, <2>2, <2>3, <2>4, OriginParcelStep
<1>15. CASE UNCHANGED <<queue, hidl, parcel, origin>>
  <2>1. \A h \in Holders : View(h)' = View(h)
    BY <1>15, Views DEF Holders, Kinds
  <2>2. "hidl" \in Holders /\ CopyOf(ViewOf(hidl'), View("hidl"))
    BY <1>15, Views, CopyOfItself, HolderNames DEF Holders
  <2>3. origin' = [origin EXCEPT !["hidl"] = origin["hidl"]]
    BY <1>1, <1>15 DEF Types
  <2> QED
    BY <1>1, <1>15, <2>2, <2>3, OriginHidlStep
<1>16. CASE Protect
  BY <1>15, <1>16 DEF Protect
<1>17. ASSUME NEW change \in Changes, MalformParcel(change)  PROVE OriginInv'
  <2> DEFINE value == "malformed"
  <2>1. origin' = [origin EXCEPT !["aidl"] = value] /\ UNCHANGED <<queue, hidl>> /\ value # "genuine"
    BY <1>17 DEF MalformParcel
  <2> HIDE DEF value
  <2> QED
    BY <1>1, <2>1, OriginParcelStep
<1>18. ASSUME NEW change \in Changes, MalformHidl(change)  PROVE OriginInv'
  <2> DEFINE value == "malformed"
  <2>1. origin' = [origin EXCEPT !["hidl"] = value] /\ UNCHANGED <<queue, parcel>> /\ value # "genuine"
    BY <1>18 DEF MalformHidl
  <2> HIDE DEF value
  <2> QED
    BY <1>1, <2>1, OriginHidlStep
<1>19. CASE DropHidl
  <2> DEFINE value == "genuine"
  <2>1. origin' = [origin EXCEPT !["hidl"] = value] /\ UNCHANGED <<queue, parcel>> /\ hidl' = NoDescriptor
    BY <1>19 DEF DropHidl
  <2> HIDE DEF value
  <2> QED
    BY <1>1, <2>1, NothingSaid, OriginHidlStep
<1>20. CASE DropParcel
  <2> DEFINE value == "genuine"
  <2>1. origin' = [origin EXCEPT !["aidl"] = value] /\ UNCHANGED <<queue, hidl>> /\ parcel' = EmptyParcel
    BY <1>20 DEF DropParcel
  <2> HIDE DEF value
  <2> QED
    BY <1>1, <2>1, NothingSaid, OriginParcelStep
<1>21. CASE UNCHANGED vars
  BY <1>15, <1>21 DEF vars
<1> QED
  BY <1>5, <1>6, <1>7, <1>8, <1>9, <1>10, <1>11, <1>12, <1>13, <1>14, <1>16, <1>17, <1>18,
     <1>19, <1>20, <1>21 DEF Next

LEMMA OriginInit == Init => OriginInv
<1> SUFFICES ASSUME Init  PROVE OriginInv
  OBVIOUS
<1>1. \A h \in Holders : ~Meaningful(View(h))
  BY Views, NothingSaid DEF Init, Holders, Kinds
<1> QED
  BY <1>1 DEF OriginInv, Genuine, Holders

-----------------------------------------------------------------------------
(* What the tests of mapGrantorDescr leave true of a queue with pointers *)

Attached(object) ==
  /\ \A pos \in Positions(TRUE) :
       IsPointer(object.ptr[pos]) =>
         /\ CanMap(object.desc.grantors, Count(object.desc.handle.fds), pos)
         /\ object.desc.handle.fds[ToInt32(object.desc.grantors[pos].fdIndex)] # Bad
  /\ object.ptr[READPTRPOS] = Heap => object.flavor = kUnsynchronizedWrite
  /\ IsPointer(object.ptr[READPTRPOS]) => object.flavor = kSynchronizedReadWrite

AttachedInv == \A q \in Queues : Attached(queue[q])

LEMMA NothingAttached == ASSUME NEW object, object.ptr = NoPtrs  PROVE Attached(object)
<1>1. READPTRPOS \in Positions(TRUE) /\ NoPtrs[READPTRPOS] # Heap
  BY DEF NoPtrs, Heap, Nullptr, Positions, READPTRPOS, EVFLAGWORDPOS
<1> QED
  BY <1>1, NoPointers DEF Attached

LEMMA AttachedNext == BaseInv /\ AttachedInv /\ [Next]_vars => AttachedInv'
<1> SUFFICES ASSUME BaseInv, AttachedInv, [Next]_vars  PROVE AttachedInv'
  OBVIOUS
<1>1. ASSUME NEW q \in Queues, NEW object, queue' = [queue EXCEPT ![q] = object], Attached(object)
      PROVE  AttachedInv'
  <2>1. queue'[q] = object /\ \A r \in Queues \ {q} : queue'[r] = queue[r]
    BY <1>1, ReplacedQueue DEF BaseInv
  <2>2. \A r \in Queues : Attached(queue'[r])
    BY <1>1, <2>1 DEF AttachedInv
  <2> QED
    BY <2>2 DEF AttachedInv, Attached
<1>2. CASE ProcessDies
  <2>1. \A q \in Queues : Attached(queue'[q])
    BY <1>2, EmptyHanded, NothingAttached DEF ProcessDies
  <2> QED
    BY <2>1 DEF AttachedInv, Attached
<1>3. CASE UNCHANGED queue
  BY <1>3 DEF AttachedInv, Attached
<1>4. ASSUME NEW q \in Queues, queue' = [queue EXCEPT ![q] = QueueWithoutDescriptor]
      PROVE  AttachedInv'
  BY <1>1, <1>4, EmptyHanded, NothingAttached
<1>5. ASSUME NEW q \in Queues, NEW object, Installs(q, object)  PROVE AttachedInv'
  BY <1>1, <1>5, NothingAttached DEF Installs
<1>6. ASSUME NEW q \in Creators, NEW setup \in Setups, Create(q, setup)  PROVE AttachedInv'
  <2>1. q \in Queues
    BY DEF Queues
  <2>2. ProcessDies \/ \E object : Installs(q, object)
    BY <1>6, CreateCases
  <2> QED
    BY <1>2, <1>5, <2>1, <2>2
<1>7. ASSUME NEW q \in Creators, NEW setup \in Setups, CreateWithoutMemory(q, setup)
      PROVE  AttachedInv'
  BY <1>4, <1>7 DEF CreateWithoutMemory, Queues
<1>8. ASSUME NEW q \in Attachers, AttachWithoutMemory(q)  PROVE AttachedInv'
  BY <1>4, <1>8 DEF AttachWithoutMemory, Queues
<1>9. ASSUME NEW q \in Attachers, NEW sizeofT \in AttachSizes, NEW resets \in BOOLEAN,
             AttachHidl(q, sizeofT, resets)
      PROVE  AttachedInv'
  BY <1>5, <1>9, AttachHidlCases DEF Queues
<1>10. ASSUME NEW q \in Attachers, NEW flavor \in Flavors, NEW sizeofT \in AttachSizes,
              NEW resets \in BOOLEAN, AttachAidl(q, flavor, sizeofT, resets)
       PROVE  AttachedInv'
  BY <1>5, <1>10, AttachAidlCases DEF Queues
<1>11. ASSUME NEW q \in Queues, AllocateReadPtr(q)  PROVE AttachedInv'
  <2>1. PICK object : /\ Replaces(q, object) /\ object.desc = queue[q].desc
                      /\ object.flavor = queue[q].flavor
                      /\ object.ptr = [queue[q].ptr EXCEPT ![READPTRPOS] = Heap]
    BY <1>11, AllocateCases
  <2>2. queue[q].ptr \in [Positions(TRUE) -> Nat \cup {Heap}] /\ queue[q].flavor = kUnsynchronizedWrite
    BY <1>11, BaseFacts DEF QueueType, AllocateReadPtr, OnHeap
  <2>3. ~IsPointer(object.ptr[READPTRPOS])
        /\ \A pos \in Positions(TRUE) \ {READPTRPOS} : object.ptr[pos] = queue[q].ptr[pos]
    BY <2>1, <2>2, FourPositions DEF IsPointer
  <2>4. Attached(queue[q])
    BY DEF AttachedInv
  <2>5. \A pos \in Positions(TRUE) :
          IsPointer(object.ptr[pos]) =>
            /\ CanMap(object.desc.grantors, Count(object.desc.handle.fds), pos)
            /\ object.desc.handle.fds[ToInt32(object.desc.grantors[pos].fdIndex)] # Bad
    <3> SUFFICES ASSUME NEW pos \in Positions(TRUE), IsPointer(object.ptr[pos])
                 PROVE  /\ CanMap(object.desc.grantors, Count(object.desc.handle.fds), pos)
                        /\ object.desc.handle.fds[ToInt32(object.desc.grantors[pos].fdIndex)] # Bad
      OBVIOUS
    <3>1. object.desc = queue[q].desc /\ IsPointer(queue[q].ptr[pos])
      BY <2>1, <2>3
    <3> QED
      BY <2>4, <3>1 DEF Attached
  <2>6. Attached(object)
    BY <2>1, <2>2, <2>3, <2>5 DEF Attached
  <2> QED
    BY <1>1, <2>1, <2>6 DEF Replaces
<1>12. ASSUME NEW q \in Queues, MapGrantorDescr(q)  PROVE AttachedInv'
  <2> DEFINE pos == queue[q].next
             g == Grantors(q)[pos]
             address == Place(MapLength(g)) * PageSize + InPage(g)
  <2>1. /\ pos \in Positions(TRUE) /\ CanMap(Grantors(q), Count(Fds(q)), pos)
        /\ FileOf(q, pos) # Bad /\ address \in Nat
        /\ \E object : /\ Replaces(q, object) /\ object.desc = queue[q].desc
                       /\ object.flavor = queue[q].flavor
                       /\ object.ptr = [queue[q].ptr EXCEPT ![pos] = address]
    BY <1>12, MapCases
  <2>2. /\ queue[q].ptr \in [Positions(TRUE) -> Nat \cup {Heap}] /\ queue[q].flavor \in Flavors
        /\ ~OnHeap(q)
    BY <1>12, BaseFacts DEF QueueType, MapGrantorDescr
  <2>3. pos = READPTRPOS => queue[q].flavor = kSynchronizedReadWrite
    BY <2>2 DEF OnHeap, Flavors
  <2>4. address # Heap
    BY <2>1 DEF Heap
  <2> HIDE DEF address, pos
  <2>5. PICK object : /\ Replaces(q, object) /\ object.desc = queue[q].desc
                      /\ object.flavor = queue[q].flavor
                      /\ object.ptr = [queue[q].ptr EXCEPT ![pos] = address]
    BY <2>1
  <2>6. object.ptr[pos] = address
        /\ \A other \in Positions(TRUE) \ {pos} : object.ptr[other] = queue[q].ptr[other]
    BY <2>1, <2>2, <2>5
  <2>7. READPTRPOS \in Positions(TRUE) /\ Attached(queue[q])
    BY FourPositions DEF AttachedInv
  <2>8. ASSUME NEW other \in Positions(TRUE), IsPointer(object.ptr[other])
        PROVE  /\ CanMap(object.desc.grantors, Count(object.desc.handle.fds), other)
               /\ object.desc.handle.fds[ToInt32(object.desc.grantors[other].fdIndex)] # Bad
    <3>1. CASE other = pos
      BY <2>1, <2>5, <3>1 DEF Grantors, Fds, FileOf
    <3>2. CASE other # pos
      BY <2>5, <2>6, <2>7, <2>8, <3>2 DEF Attached
    <3> QED
      BY <3>1, <3>2
  <2>9. /\ object.ptr[READPTRPOS] = Heap => object.flavor = kUnsynchronizedWrite
        /\ IsPointer(object.ptr[READPTRPOS]) => object.flavor = kSynchronizedReadWrite
    BY <2>3, <2>4, <2>5, <2>6, <2>7 DEF Attached
  <2>10. Attached(object)
    BY <2>8, <2>9 DEF Attached
  <2> QED
    BY <1>1, <2>5, <2>10 DEF Replaces
<1>13. ASSUME NEW q \in Queues, Constructs(q)  PROVE AttachedInv'
  <2>1. ASSUME InitMemoryFails(q)  PROVE AttachedInv'
    BY <1>1, <2>1, FailsCases, NothingAttached DEF Replaces
  <2> QED
    BY <1>2, <1>11, <1>12, <1>13, <2>1 DEF Constructs, ResetFaults
<1>14. ASSUME NEW q \in Queues, Destroy(q)  PROVE AttachedInv'
  BY <1>1, <1>14, EmptyHanded, NothingAttached DEF Destroy
<1>15. ASSUME NEW q \in Queues, SendHidl(q) \/ DupeDesc(q)  PROVE AttachedInv'
  BY <1>3, <1>15 DEF SendHidl, DupeDesc
<1>16. ASSUME NEW flavor \in Flavors, UnsafeHidlToAidl(flavor)  PROVE AttachedInv'
  BY <1>3, <1>16 DEF UnsafeHidlToAidl
<1>17. CASE Protect \/ DropHidl \/ DropParcel
  BY <1>3, <1>17 DEF Protect, DropHidl, DropParcel
<1>18. ASSUME NEW change \in Changes, MalformParcel(change) \/ MalformHidl(change)
       PROVE  AttachedInv'
  BY <1>3, <1>18 DEF MalformParcel, MalformHidl
<1>19. CASE UNCHANGED vars
  BY <1>3, <1>19 DEF vars
<1> QED
  BY <1>6, <1>7, <1>8, <1>9, <1>10, <1>13, <1>14, <1>15, <1>16, <1>17, <1>18, <1>19 DEF Next

LEMMA AttachedInit == Init => AttachedInv
BY EmptyHanded, NothingAttached DEF Init, AttachedInv

-----------------------------------------------------------------------------
(* The parts of a valid queue *)

IsGenuine(q) == queue[q].stage = "done" /\ IsValid(q) /\ origin[q] = "genuine"

\* A valid queue has mapped every grantor of its description, so that the tests
\* of mapGrantorDescr have bounded the ring.
LEMMA ValidFacts ==
  ASSUME BaseInv, OriginInv, AttachedInv, NEW q \in Queues, IsGenuine(q)
  PROVE  LET bytes == Grantors(q)[DATAPTRPOS].extent
         IN  /\ Genuine(q) /\ Laid(ViewOf(queue[q].desc))
             /\ bytes \in Nat /\ bytes <= IntMax - PageSize
             /\ queue[q].desc.quantum = queue[q].sizeofT
             /\ 1 \in DOMAIN Grantors(q) /\ 0 \in DOMAIN Fds(q) /\ Fds(q)[0] # Bad
             /\ \A pos \in DOMAIN Grantors(q) :
                  /\ pos \in Positions(TRUE) /\ queue[q].ptr[pos] # Nullptr
                  /\ queue[q].ptr[pos] = Heap => pos = READPTRPOS
                  /\ IsPointer(queue[q].ptr[pos]) => FileOf(q, pos) # Bad
             /\ \A pos \in DOMAIN Grantors(q) :
                  Grantors(q)[pos].fdIndex \in {0, 1} =>
                    FileOf(q, pos) = Fds(q)[Grantors(q)[pos].fdIndex]
<1> DEFINE g == Grantors(q)
           bytes == g[DATAPTRPOS].extent
<1>1. /\ queue[q] \in QueueType /\ InOrder(queue[q]) /\ Attached(queue[q])
      /\ g \in Vectors(Unsigned) /\ Fds(q) \in Handles(Files)
  BY BaseFacts DEF AttachedInv
<1>2. queue[q].ptr # NoPtrs
  BY FourPositions DEF IsGenuine, IsValid, NoPtrs
<1>3. /\ Maps(queue[q].desc, queue[q].sizeofT)
      /\ \A pos \in Positions(TRUE) : queue[q].ptr[pos] # Nullptr <=> pos <= LastOf(queue[q])
      /\ \A pos \in Positions(TRUE) : queue[q].ptr[pos] = Heap => pos = READPTRPOS
  BY <1>1, <1>2 DEF InOrder, IsGenuine
<1>4. Count(g) \in 3 .. 4 /\ DOMAIN g = 0 .. Count(g) - 1 /\ g \in [DOMAIN g -> Unsigned]
  <2>1. Count(g) >= 3
    BY <1>3 DEF Maps, kMinGrantorCount, DATAPTRPOS, Grantors
  <2>2. Count(g) \in 0 .. 4 /\ DOMAIN g = 0 .. Count(g) - 1 /\ g \in [0 .. Count(g) - 1 -> Unsigned]
    BY <1>1, VectorFacts
  <2> HIDE DEF g
  <2> QED
    BY <2>1, <2>2
<1>5. ASSUME NEW pos \in DOMAIN g
      PROVE  pos \in Positions(TRUE) /\ pos <= LastOf(queue[q])
  BY <1>4 DEF LastOf, Positions, READPTRPOS, DATAPTRPOS, EVFLAGWORDPOS, Grantors
<1>6. 1 \in DOMAIN g /\ 2 \in DOMAIN g /\ 0 \in DOMAIN g
  BY <1>4
<1>7. ASSUME NEW pos \in DOMAIN g, pos # READPTRPOS
      PROVE  IsPointer(queue[q].ptr[pos]) /\ CanMap(g, Count(Fds(q)), pos) /\ FileOf(q, pos) # Bad
  <2>1. IsPointer(queue[q].ptr[pos])
    BY <1>3, <1>5, <1>7 DEF IsPointer
  <2> QED
    BY <1>1, <1>5, <2>1 DEF Attached, Grantors, Fds, FileOf
<1>8. 0 \in DOMAIN Fds(q)
  <2>1. CanMap(g, Count(Fds(q)), 1)
    BY <1>6, <1>7 DEF READPTRPOS
  <2>2. ToInt32(g[1].fdIndex) \in 0 .. Count(Fds(q)) - 1
    BY <2>1 DEF CanMap
  <2>3. Count(Fds(q)) \in 0 .. 2 /\ DOMAIN Fds(q) = 0 .. Count(Fds(q)) - 1
    BY <1>1, HandleFacts
  <2>4. Count(Fds(q)) > 0
    BY <2>2, <2>3
  <2> QED
    BY <2>3, <2>4
<1>9. Genuine(q) /\ Laid(ViewOf(queue[q].desc))
  <2>1. View(q) = ViewOf(queue[q].desc) /\ q \in Holders
    BY Views DEF Holders
  <2>2. Meaningful(View(q))
    BY <1>6, <1>8, <2>1 DEF Meaningful, ViewOf, Grantors, Fds
  <2> QED
    BY <2>1, <2>2 DEF IsGenuine, Genuine, OriginInv
<1>10. bytes \in Nat /\ bytes <= IntMax - PageSize
  <2>1. CanMap(g, Count(Fds(q)), DATAPTRPOS) /\ g[DATAPTRPOS] \in Unsigned
    BY <1>4, <1>6, <1>7 DEF READPTRPOS, DATAPTRPOS
  <2>2. bytes \in 0 .. SizeMax
    BY <2>1 DEF Unsigned
  <2> QED
    BY <2>1, <2>2 DEF CanMap
<1>11. 0 \in 0 .. IntMax /\ 1 \in 0 .. IntMax
  BY LayoutFacts
<1>12. \A pos \in DOMAIN g : g[pos].fdIndex \in {0, 1} => FileOf(q, pos) = Fds(q)[g[pos].fdIndex]
  BY <1>11, SmallCasts DEF FileOf
<1>13. Fds(q)[0] # Bad
  <2>1. 0 \in {0, 1} /\ g[1].fdIndex = 0
    <3>1. /\ bytes \in 0 .. SizeMax
          /\ \E evFlag, supplied \in BOOLEAN : g = LaidOut(bytes, evFlag, supplied)
      BY <1>9 DEF Laid, ViewOf, Grantors
    <3>2. PICK evFlag \in BOOLEAN, supplied \in BOOLEAN : g = LaidOut(bytes, evFlag, supplied)
      BY <3>1
    <3> HIDE DEF g, bytes
    <3> QED
      BY <1>6, <3>1, <3>2, LaidOutFacts DEF DATAPTRPOS
  <2> QED
    BY <1>6, <1>7, <1>12, <2>1 DEF READPTRPOS
<1>14. \A pos \in DOMAIN g :
         /\ pos \in Positions(TRUE) /\ queue[q].ptr[pos] # Nullptr
         /\ queue[q].ptr[pos] = Heap => pos = READPTRPOS
         /\ IsPointer(queue[q].ptr[pos]) => FileOf(q, pos) # Bad
  BY <1>3, <1>5, <1>7, <1>1 DEF Attached, FileOf, Grantors, Fds
<1>15. queue[q].desc.quantum = queue[q].sizeofT
  BY <1>3 DEF Maps
<1> QED
  BY <1>6, <1>8, <1>9, <1>10, <1>12, <1>13, <1>14, <1>15

\* The counters, the ring and the flag of a valid queue that nobody has changed
\* the description of are apart, in memory that holds them, and the ring holds
\* whole messages.
THEOREM PartsOfValidQueuesApart == Spec => []GrantorsApart
<1>1. BaseInv /\ OriginInv /\ AttachedInv => GrantorsApart
  <2> SUFFICES ASSUME BaseInv, OriginInv, AttachedInv, NEW q \in Queues, IsGenuine(q)
               PROVE  /\ \A pos \in DOMAIN Grantors(q) :
                           EndOf(Grantors(q)[pos]) <= FileOf(q, pos).size
                      /\ \A pos, other \in DOMAIN Grantors(q) :
                           pos # other /\ FileOf(q, pos) = FileOf(q, other) =>
                             \/ EndOf(Grantors(q)[pos]) <= Grantors(q)[other].offset
                             \/ EndOf(Grantors(q)[other]) <= Grantors(q)[pos].offset
                      /\ SizeOf(Grantors(q)) % queue[q].sizeofT = 0
    BY DEF GrantorsApart, IsGenuine
  <2> DEFINE g == Grantors(q)
             fds == Fds(q)
             bytes == g[DATAPTRPOS].extent
  <2>1. /\ Genuine(q) /\ Laid(ViewOf(queue[q].desc))
        /\ bytes \in Nat /\ bytes <= IntMax - PageSize
        /\ queue[q].desc.quantum = queue[q].sizeofT
        /\ 1 \in DOMAIN g /\ 0 \in DOMAIN fds /\ fds[0] # Bad
        /\ \A pos \in DOMAIN g :
             /\ pos \in Positions(TRUE) /\ queue[q].ptr[pos] # Nullptr
             /\ queue[q].ptr[pos] = Heap => pos = READPTRPOS
             /\ IsPointer(queue[q].ptr[pos]) => FileOf(q, pos) # Bad
        /\ \A pos \in DOMAIN g : g[pos].fdIndex \in {0, 1} => FileOf(q, pos) = fds[g[pos].fdIndex]
    BY ValidFacts
  <2>2. /\ bytes \in 0 .. SizeMax
        /\ bytes <= IntMax => bytes % queue[q].sizeofT = 0
        /\ \E evFlag, supplied \in BOOLEAN :
             /\ g = LaidOut(bytes, evFlag, supplied)
             /\ DOMAIN fds = IF supplied THEN 0 .. 1 ELSE 0 .. 0
             /\ fds[0] # Bad => fds[0].size = KAshmemSizePageAligned(bytes, evFlag, supplied)
             /\ supplied /\ fds[1] # Bad => fds[1].size >= bytes /\ fds[1] # fds[0]
    BY <2>1 DEF Laid, ViewOf, Grantors, Fds
  <2>3. PICK evFlag \in BOOLEAN, supplied \in BOOLEAN :
             /\ g = LaidOut(bytes, evFlag, supplied)
             /\ DOMAIN fds = IF supplied THEN 0 .. 1 ELSE 0 .. 0
             /\ fds[0] # Bad => fds[0].size = KAshmemSizePageAligned(bytes, evFlag, supplied)
             /\ supplied /\ fds[1] # Bad => fds[1].size >= bytes /\ fds[1] # fds[0]
    BY <2>2
  <2> DEFINE size == KAshmemSizePageAligned(bytes, evFlag, supplied)
             ofRing(pos) == supplied /\ pos = DATAPTRPOS
  <2>4. /\ g \in Vectors(Unsigned)
        /\ DOMAIN g = IF evFlag THEN 0 .. 3 ELSE 0 .. 2
        /\ \A pos \in DOMAIN g : g[pos].fdIndex = IF ofRing(pos) THEN 1 ELSE 0
        /\ \A pos \in DOMAIN g : g[pos].extent = MemSize(bytes)[pos]
    <3> HIDE DEF bytes, g
    <3> QED
      BY <2>2, <2>3, LaidOutFacts
  <2>5. /\ \A pos \in DOMAIN g :
             g[pos].offset + g[pos].extent <= IF ofRing(pos) THEN bytes ELSE size
        /\ \A pos, other \in DOMAIN g :
             pos < other /\ g[pos].fdIndex = g[other].fdIndex =>
               g[pos].offset + g[pos].extent <= g[other].offset
    <3> HIDE DEF bytes, g
    <3> QED
      BY <2>1, <2>3, PartsApart
  <2>6. ASSUME NEW pos \in DOMAIN g
        PROVE  FileOf(q, pos) = IF ofRing(pos) THEN fds[1] ELSE fds[0]
    BY <2>1, <2>4
  <2>7. ASSUME supplied  PROVE fds[1] # Bad /\ fds[1] # fds[0] /\ fds[1].size >= bytes
    <3>1. DATAPTRPOS \in DOMAIN g /\ READPTRPOS # DATAPTRPOS
      BY <2>4 DEF READPTRPOS, DATAPTRPOS
    <3>2. IsPointer(queue[q].ptr[DATAPTRPOS])
      BY <2>1, <3>1 DEF IsPointer
    <3>3. FileOf(q, DATAPTRPOS) # Bad
      BY <2>1, <3>1, <3>2
    <3>4. FileOf(q, DATAPTRPOS) = fds[1]
      BY <2>6, <2>7, <3>1
    <3> QED
      BY <2>3, <2>7, <3>3, <3>4
  <2>8. bytes <= IntMax
    BY <2>1, LayoutFacts
  <2>9. SizeOf(g) % queue[q].sizeofT = 0
    <3>1. Count(g) \in 0 .. 4 /\ DOMAIN g = 0 .. Count(g) - 1
      BY <2>4, VectorFacts
    <3>2. Count(g) > DATAPTRPOS
      <4> HIDE DEF g
      <4> QED
        BY <2>4, <3>1 DEF DATAPTRPOS
    <3> QED
      BY <2>2, <2>8, <3>2 DEF SizeOf
  <2>10. fds[0].size = size
    BY <2>1, <2>3
  <2>11. fds[0] \in Files /\ size \in Nat /\ (supplied => fds[1] \in Files)
    <3>1. fds \in Handles(Files)
      BY BaseFacts
    <3>2. \A i \in DOMAIN fds : fds[i] \in Files
      BY <3>1, HandleFacts
    <3>3. fds[0] \in Files /\ (supplied => fds[1] \in Files)
      BY <2>1, <2>3, <3>2
    <3> QED
      BY <2>10, <3>3 DEF Files
  <2>12. \A pos \in DOMAIN g : g[pos].offset \in Nat /\ g[pos].extent \in Nat /\ pos \in Nat
    <3>1. g \in [0 .. Count(g) - 1 -> Unsigned] /\ DOMAIN g = 0 .. Count(g) - 1 /\ Count(g) \in 0 .. 4
      BY <2>4, VectorFacts
    <3> HIDE DEF g
    <3> QED
      BY <3>1, LayoutFacts DEF Unsigned, SizeMax
  <2>13. (supplied => fds[1].size \in Nat) /\ fds[0].size \in Nat
    BY <2>11 DEF Files
  <2> DEFINE one == fds[1].size
  <2>14. \A pos \in DOMAIN g : EndOf(g[pos]) <= FileOf(q, pos).size
    <3> SUFFICES ASSUME NEW pos \in DOMAIN g  PROVE EndOf(g[pos]) <= FileOf(q, pos).size
      OBVIOUS
    <3>1. CASE ofRing(pos)
      <4>1. EndOf(g[pos]) <= bytes /\ FileOf(q, pos) = fds[1] /\ bytes <= fds[1].size /\ fds[1].size \in Nat
        BY <2>1, <2>5, <2>6, <2>7, <2>13, <3>1 DEF EndOf
      <4>2. EndOf(g[pos]) \in Nat
        BY <2>12 DEF EndOf
      <4> HIDE DEF g, fds, bytes
      <4> QED
        BY <2>1, <4>1, <4>2
    <3>2. CASE ~ofRing(pos)
      BY <2>5, <2>6, <2>10, <3>2 DEF EndOf
    <3> QED
      BY <3>1, <3>2
  <2>15. ASSUME NEW pos \in DOMAIN g, NEW other \in DOMAIN g, pos # other,
                FileOf(q, pos) = FileOf(q, other)
         PROVE  EndOf(g[pos]) <= g[other].offset \/ EndOf(g[other]) <= g[pos].offset
    <3>1. g[pos].fdIndex = g[other].fdIndex
      BY <2>4, <2>6, <2>7, <2>15
    <3>2. pos < other \/ other < pos
      BY <2>12, <2>15
    <3> QED
      BY <2>5, <3>1, <3>2 DEF EndOf
  <2> QED
    BY <2>9, <2>14, <2>15
<1> QED
  BY <1>1, BaseInit, OriginInit, AttachedInit, BaseNext, OriginNext, AttachedNext, PTL DEF Spec

-----------------------------------------------------------------------------
(* Two queues of one description *)

\* The byte behind a pointer is the first of its grantor.
LEMMA BehindFacts ==
  ASSUME BaseInv, NEW q \in Queues, NEW pos \in Positions(TRUE),
         IsPointer(queue[q].ptr[pos]), Mapped(q, pos)
  PROVE  Behind(queue[q].ptr[pos]) = <<FileOf(q, pos), Grantors(q)[pos].offset>>
<1> DEFINE g == Grantors(q)[pos]
           o == g.offset
           first == queue[q].ptr[pos] \div PageSize
<1>1. o \in Nat /\ PageSize \in Nat \ {0}
      /\ MapLength(g) = (o % PageSize) + g.extent /\ MapLength(g) \in Nat /\ MapLength(g) > 0
  BY GrantorFacts, LayoutFacts DEF Mapped
<1>2. PagesAt(q, pos) = Run(first, MapLength(g)) /\ first \in Nat
  BY HeldFacts
<1>3. first \in Run(first, MapLength(g)) /\ first \in Int
  <2> HIDE DEF first
  <2> QED
    BY <1>1, <1>2, FirstOfRun
<1>4. /\ queue[q].ptr[pos] % PageSize = o % PageSize
      /\ space[first].file = FileOf(q, pos)
      /\ space[first].page = (o \div PageSize) + (first - first)
  BY <1>1, <1>3 DEF Mapped, Reaches
<1>5. o \div PageSize \in Int /\ o % PageSize \in Int
      /\ PageSize * (o \div PageSize) + (o % PageSize) = o
  <2>1. o \in Int
    BY <1>1
  <2> HIDE DEF o
  <2>2. o = PageSize * (o \div PageSize) + (o % PageSize) /\ o \div PageSize \in Int
        /\ o % PageSize \in 0 .. PageSize - 1
    BY <1>1, <2>1, Recombine, Zenon
  <2> QED
    BY <1>1, <2>2
<1>6. space[first].page = o \div PageSize
  <2> DEFINE page == o \div PageSize
  <2> HIDE DEF first, page
  <2>1. space[first].page = page + (first - first) /\ page \in Int
    BY <1>4, <1>5 DEF page
  <2>2. space[first].page = page
    BY <1>3, <2>1
  <2> QED
    BY <2>2 DEF page
<1>7. Behind(queue[q].ptr[pos])
        = <<space[first].file, PageSize * space[first].page + (queue[q].ptr[pos] % PageSize)>>
  BY DEF Behind
<1> QED
  BY <1>4, <1>5, <1>6, <1>7, Zenon

\* Two valid queues whose descriptions go back to one constructor, on whatever
\* way, have their counters, ring and flag in the same bytes of the same files.
\* As for PointersReach, nobody has changed the extent of a flag.
THEOREM SidesShare ==
  ASSUME FlagExtentKept
  PROVE  Spec => []SidesShareMemory
<1>1. SpaceInv /\ OriginInv /\ AttachedInv => SidesShareMemory
  <2> SUFFICES ASSUME SpaceInv, OriginInv, AttachedInv, NEW q \in Queues, NEW other \in Queues,
                      IsGenuine(q), IsGenuine(other), Fds(q)[0] = Fds(other)[0]
               PROVE  /\ Count(Grantors(q)) = Count(Grantors(other))
                      /\ \A pos \in DOMAIN Grantors(q) :
                           queue[q].ptr[pos] # Heap =>
                             /\ Behind(queue[q].ptr[pos]) = Behind(queue[other].ptr[pos])
                             /\ Grantors(q)[pos].extent = Grantors(other)[pos].extent
    BY DEF SidesShareMemory, IsGenuine
  <2>1. BaseInv /\ \A r \in Queues : MapInv(r)
    BY DEF SpaceInv, MapsApart
  <2>2. ASSUME NEW r \in {q, other}
        PROVE  /\ r \in Queues /\ Genuine(r) /\ Fds(r)[0] # Bad
               /\ \A pos \in DOMAIN Grantors(r) :
                    /\ pos \in Positions(TRUE) /\ queue[r].ptr[pos] # Nullptr
                    /\ queue[r].ptr[pos] = Heap => pos = READPTRPOS
                    /\ IsPointer(queue[r].ptr[pos]) => FileOf(r, pos) # Bad
               /\ queue[r].flavor = queue[r].desc.flags
               /\ Attached(queue[r])
    <3>1. r \in Queues /\ IsGenuine(r)
      OBVIOUS
    <3>2. /\ Genuine(r) /\ Fds(r)[0] # Bad
          /\ \A pos \in DOMAIN Grantors(r) :
               /\ pos \in Positions(TRUE) /\ queue[r].ptr[pos] # Nullptr
               /\ queue[r].ptr[pos] = Heap => pos = READPTRPOS
               /\ IsPointer(queue[r].ptr[pos]) => FileOf(r, pos) # Bad
      BY <2>1, <3>1, ValidFacts
    <3> QED
      BY <3>1, <3>2 DEF OriginInv, AttachedInv
  <2>3. Agree(View(q), View(other))
    <3>1. q \in Holders /\ other \in Holders
      BY DEF Holders
    <3> QED
      BY <2>2, <3>1 DEF OriginInv
  <2>4. /\ Grantors(q) = Grantors(other) /\ queue[q].desc.flags = queue[other].desc.flags
        /\ DOMAIN Fds(q) = DOMAIN Fds(other)
        /\ \A i \in DOMAIN Fds(q) : Fds(q)[i] = Fds(other)[i] \/ Fds(q)[i] = Bad \/ Fds(other)[i] = Bad
    BY <2>2, <2>3, Views DEF Agree, ViewOf, Grantors, Fds
  <2>5. ASSUME NEW pos \in DOMAIN Grantors(q), queue[q].ptr[pos] # Heap
        PROVE  Behind(queue[q].ptr[pos]) = Behind(queue[other].ptr[pos])
    <3>1. IsPointer(queue[q].ptr[pos]) /\ pos \in Positions(TRUE)
      BY <2>2, <2>5 DEF IsPointer
    <3>2. queue[other].ptr[pos] # Heap
      <4>1. CASE pos = READPTRPOS
        <5>1. queue[q].flavor = kSynchronizedReadWrite
          BY <2>2, <3>1, <4>1 DEF Attached
        <5>2. queue[other].flavor = kSynchronizedReadWrite
          BY <2>2, <2>4, <5>1
        <5>3. kSynchronizedReadWrite # kUnsynchronizedWrite
          BY DEF kSynchronizedReadWrite, kUnsynchronizedWrite
        <5> QED
          BY <2>2, <4>1, <5>2, <5>3 DEF Attached
      <4>2. CASE pos # READPTRPOS
        BY <2>2, <2>4, <4>2
      <4> QED
        BY <4>1, <4>2
    <3>3. IsPointer(queue[other].ptr[pos])
      BY <2>2, <2>4, <3>2 DEF IsPointer
    <3>4. Mapped(q, pos) /\ Mapped(other, pos)
      BY <2>1, <3>1, <3>3 DEF MapInv
    <3>5. FileOf(q, pos) = FileOf(other, pos)
      <4> DEFINE i == ToInt32(Grantors(q)[pos].fdIndex)
      <4>1. FileOf(q, pos) = Fds(q)[i] /\ FileOf(other, pos) = Fds(other)[i]
        BY <2>4 DEF FileOf
      <4>2. i \in DOMAIN Fds(q)
        <5>1. i \in 0 .. Count(Fds(q)) - 1
          BY <3>4 DEF Mapped, CanMap
        <5>2. Fds(q) \in Handles(Files)
          BY <2>1, BaseFacts
        <5>3. DOMAIN Fds(q) = 0 .. Count(Fds(q)) - 1
          BY <5>2, HandleFacts
        <5> QED
          BY <5>1, <5>3
      <4> HIDE DEF i
      <4> QED
        BY <2>4, <3>4, <4>1, <4>2 DEF Mapped
    <3>6. /\ Behind(queue[q].ptr[pos]) = <<FileOf(q, pos), Grantors(q)[pos].offset>>
          /\ Behind(queue[other].ptr[pos]) = <<FileOf(other, pos), Grantors(other)[pos].offset>>
      BY <2>1, <3>1, <3>3, <3>4, BehindFacts
    <3> QED
      BY <2>4, <3>5, <3>6
  <2> QED
    BY <2>4, <2>5
<1>2. SpaceInv => BaseInv
  BY DEF SpaceInv
<1>3. SpaceInv /\ [Next]_vars => SpaceInv'
  BY SpaceNext
<1> QED
  BY <1>1, <1>2, <1>3, SpaceInit, OriginInit, AttachedInit, OriginNext, AttachedNext, PTL DEF Spec

-----------------------------------------------------------------------------
(* Queues without an event flag *)

LEMMA HoldsOn ==
  ASSUME NEW q \in Queues, queue'[q].desc = queue[q].desc,
         \A pos \in Positions(TRUE) : IsPointer(queue[q].ptr[pos]) => queue'[q].ptr[pos] = queue[q].ptr[pos]
  PROVE  Held(q) \subseteq Held(q)'
<1>1. \A pos \in Positions(TRUE) : PagesAt(q, pos) \subseteq PagesAt(q, pos)'
  BY DEF PagesAt, Grantors
<1> QED
  BY <1>1 DEF Held

LEMMA HoldsNothing == ASSUME NEW q \in Queues, queue[q].ptr = NoPtrs  PROVE Held(q) = {}
BY NoPointers DEF Held, PagesAt

\* A step in which q goes on holding what it holds and any new mapping is its own.
LEMMA KeepingStep ==
  ASSUME Types, NothingLeaked, NEW q \in Queues, NEW object, queue' = [queue EXCEPT ![q] = object],
         Held(q) \subseteq Held(q)',
         \A p \in Pages : space'[p] # Free => space'[p] = space[p] \/ p \in Held(q)'
  PROVE  NothingLeaked'
<1> SUFFICES ASSUME NEW p \in Pages, space'[p] # Free
             PROVE  \E r \in Queues : p \in Held(r)'
  BY DEF NothingLeaked, Held, PagesAt, Grantors, Pages
<1>1. \A r \in Queues \ {q} : queue'[r] = queue[r]
  BY ReplacedQueue
<1>2. \A r \in Queues : Held(r) \subseteq Held(r)'
  BY <1>1, HoldsOn
<1> QED
  BY <1>2 DEF NothingLeaked

\* A step in which q's pages, and no others, are freed.
LEMMA ReleasingStep ==
  ASSUME Types, NothingLeaked, NEW q \in Queues, NEW object, queue' = [queue EXCEPT ![q] = object],
         space' = Freed(space, Held(q))
  PROVE  NothingLeaked'
<1> SUFFICES ASSUME NEW p \in Pages, space'[p] # Free
             PROVE  \E r \in Queues : p \in Held(r)'
  BY DEF NothingLeaked, Held, PagesAt, Grantors, Pages
<1>1. p \notin Held(q) /\ space[p] # Free
  BY DEF Freed
<1>2. PICK r \in Queues : p \in Held(r)
  BY <1>1 DEF NothingLeaked
<1>3. queue'[r] = queue[r]
  BY <1>1, <1>2, ReplacedQueue
<1> QED
  BY <1>2, <1>3, HoldsOn

\* Without a flag the error path is taken before the ring is mapped, so that
\* there is nothing for it to unmap with the wrong length.
LEMMA UnwoundWithoutFlag ==
  ASSUME SpaceInv, ~FlagsAsked, NEW q \in Queues, queue[q].stage = "mapping"
  PROVE  Unwound(q) = Freed(space, Held(q))
<1>1. BaseInv /\ FlagInv /\ MapInv(q)
  BY DEF SpaceInv, MapsApart
<1>2. /\ queue[q].next \in Positions(TRUE) /\ queue[q].next <= LastPosition(q)
      /\ \A pos \in Positions(TRUE) : queue[q].ptr[pos] # Nullptr <=> pos < queue[q].next
      /\ Maps(queue[q].desc, queue[q].sizeofT)
  BY <1>1, MappingFacts
<1>3. EVFLAGWORDPOS \notin DOMAIN Grantors(q)
  BY <1>1, <1>2 DEF Maps, FlagInv, FlagFits
<1>4. LastPosition(q) = DATAPTRPOS
  <2>1. Grantors(q) \in Vectors(Unsigned)
    BY <1>1, BaseFacts
  <2>2. Count(Grantors(q)) \in 0 .. 4 /\ DOMAIN Grantors(q) = 0 .. Count(Grantors(q)) - 1
    BY <2>1, VectorFacts
  <2>3. ~(Count(Grantors(q)) > EVFLAGWORDPOS)
    BY <1>3, <2>2 DEF EVFLAGWORDPOS
  <2> QED
    BY <2>3 DEF LastPosition
<1>5. PagesAt(q, DATAPTRPOS) = {} /\ PagesAt(q, EVFLAGWORDPOS) = {}
  <2>1. queue[q].ptr[DATAPTRPOS] = Nullptr /\ queue[q].ptr[EVFLAGWORDPOS] = Nullptr
    BY <1>2, <1>4, FourPositions DEF Positions, READPTRPOS, DATAPTRPOS, EVFLAGWORDPOS
  <2> QED
    BY <2>1 DEF PagesAt, IsPointer
<1>6. PICK pages : /\ Unwound(q) = Freed(space, pages) /\ pages \subseteq Held(q)
                   /\ PagesAt(q, READPTRPOS) \cup PagesAt(q, WRITEPTRPOS) \subseteq pages
  BY <1>1, UnwoundIsFreed
<1>7. pages = Held(q)
  BY <1>5, <1>6, FourPositions
<1> QED
  BY <1>6, <1>7

\* initMemory holds on to the mapping it makes.
LEMMA MappingIsHeld ==
  ASSUME BaseInv, NothingLeaked, NEW q \in Queues, MapGrantorDescr(q),
         NEW pos, pos = queue[q].next
  PROVE  NothingLeaked'
<1> DEFINE g == Grantors(q)[pos]
           length == MapLength(g)
           first == Place(length)
           address == first * PageSize + InPage(g)
<1>1. /\ queue[q].stage = "mapping" /\ pos \in Positions(TRUE)
      /\ CanMap(Grantors(q), Count(Fds(q)), pos)
      /\ length > 0 /\ Places(length) # {}
      /\ space' = Mmap(FileOf(q, pos), length, MapOffset(g))
      /\ address \in Nat /\ address # Nullptr
  BY MapCases
<1>2. PICK object : /\ queue' = [queue EXCEPT ![q] = object] /\ object.desc = queue[q].desc
                    /\ object.ptr = [queue[q].ptr EXCEPT ![pos] = address]
  BY MapCases DEF Replaces
<1>3. queue'[q] = object
  BY <1>2, ReplacedQueue DEF BaseInv
<1>4. queue[q].ptr \in [Positions(TRUE) -> Nat \cup {Heap}] /\ queue[q].ptr[pos] = Nullptr
  BY <1>1, MappingFacts DEF Positions, READPTRPOS, EVFLAGWORDPOS
<1>5. object.ptr[pos] = address
      /\ \A other \in Positions(TRUE) \ {pos} : object.ptr[other] = queue[q].ptr[other]
  BY <1>1, <1>2, <1>4
<1>6. Held(q) \subseteq Held(q)'
  BY <1>2, <1>3, <1>4, <1>5, HoldsOn DEF IsPointer
<1>7. Run(first, length) \subseteq Held(q)'
  <2>1. InPage(g) \in 0 .. PageSize - 1 /\ length \in Nat
    BY <1>1, GrantorFacts
  <2>2. first \in Int
    BY <1>1, <2>1, PlaceFacts
  <2>3. address = PageSize * first + InPage(g)
    <3> DEFINE i == InPage(g)
    <3> HIDE DEF first, i
    <3>1. first * PageSize = PageSize * first
      BY <2>2, LayoutFacts
    <3> QED
      BY <3>1 DEF i
  <2> HIDE DEF first, address
  <2>4. address \div PageSize = first
    BY <2>1, <2>2, <2>3, PageOfAddress
  <2>5. IsPointer(address)
    BY <1>1 DEF IsPointer, Heap
  <2>6. PagesAt(q, pos)' = Run(first, length)
    BY <1>2, <1>3, <1>5, <2>4, <2>5 DEF PagesAt, Grantors
  <2> QED
    BY <1>1, <2>6 DEF Held
<1>8. \A p \in Pages : space'[p] = space[p] \/ p \in Run(first, length)
  BY <1>1 DEF Mmap
<1> QED
  BY <1>2, <1>6, <1>7, <1>8, KeepingStep DEF BaseInv

LEMMA NothingLeakedNext ==
  SpaceInv /\ ~FlagsAsked /\ NothingLeaked /\ [Next]_vars => NothingLeaked'
<1> SUFFICES ASSUME SpaceInv, ~FlagsAsked, NothingLeaked, [Next]_vars  PROVE NothingLeaked'
  OBVIOUS
<1>1. BaseInv /\ Types /\ \A q \in Queues : MapInv(q)
  BY DEF SpaceInv, MapsApart, BaseInv
<1>2. CASE ProcessDies
  <2>1. \A p \in Pages : space'[p] = Free
    BY <1>2 DEF ProcessDies
  <2> QED
    BY <2>1 DEF NothingLeaked, Pages
<1>3. CASE UNCHANGED <<space, queue>>
  BY <1>3 DEF NothingLeaked, Held, PagesAt, Grantors, Pages
<1>4. ASSUME NEW q \in Queues, queue[q].stage = "absent", NEW object,
             queue' = [queue EXCEPT ![q] = object], UNCHANGED space
      PROVE  NothingLeaked'
  <2>1. Held(q) = {}
    BY <1>1, <1>4, AbsentFacts, EmptyHanded, HoldsNothing
  <2> QED
    BY <1>1, <1>4, <2>1, KeepingStep
<1>5. ASSUME NEW q \in Creators, NEW setup \in Setups, Create(q, setup)  PROVE NothingLeaked'
  <2>1. q \in Queues
    BY DEF Queues
  <2>2. \/ ProcessDies
        \/ queue[q].stage = "absent" /\ \E object : Installs(q, object)
    BY <1>1, <1>5, CreateCases
  <2> QED
    BY <1>2, <1>4, <2>1, <2>2 DEF Installs
<1>6. ASSUME NEW q \in Creators, NEW setup \in Setups, CreateWithoutMemory(q, setup)
      PROVE  NothingLeaked'
  BY <1>4, <1>6 DEF CreateWithoutMemory, Queues
<1>7. ASSUME NEW q \in Attachers, AttachWithoutMemory(q)  PROVE NothingLeaked'
  BY <1>4, <1>7 DEF AttachWithoutMemory, Queues
<1>8. ASSUME NEW q \in Attachers, NEW sizeofT \in AttachSizes, NEW resets \in BOOLEAN,
             AttachHidl(q, sizeofT, resets)
      PROVE  NothingLeaked'
  <2>1. queue[q].stage = "absent" /\ \E object : Installs(q, object)
    BY <1>1, <1>8, AttachHidlCases
  <2> QED
    BY <1>4, <2>1 DEF Queues, Installs
<1>9. ASSUME NEW q \in Attachers, NEW flavor \in Flavors, NEW sizeofT \in AttachSizes,
             NEW resets \in BOOLEAN, AttachAidl(q, flavor, sizeofT, resets)
      PROVE  NothingLeaked'
  <2>1. queue[q].stage = "absent" /\ \E object : Installs(q, object)
    BY <1>1, <1>9, AttachAidlCases
  <2> QED
    BY <1>4, <2>1 DEF Queues, Installs
<1>10. ASSUME NEW q \in Queues, AllocateReadPtr(q)  PROVE NothingLeaked'
  <2>1. PICK object : /\ queue' = [queue EXCEPT ![q] = object] /\ object.desc = queue[q].desc
                      /\ object.ptr = [queue[q].ptr EXCEPT ![READPTRPOS] = Heap]
    BY <1>1, <1>10, AllocateCases DEF Replaces
  <2>2. /\ queue'[q] = object /\ UNCHANGED space
        /\ queue[q].stage = "mapping" /\ queue[q].next = READPTRPOS
    BY <1>1, <1>10, <2>1, AllocateCases, ReplacedQueue
  <2>3. queue[q].ptr \in [Positions(TRUE) -> Nat \cup {Heap}] /\ queue[q].ptr[READPTRPOS] = Nullptr
    <3>1. /\ queue[q].ptr \in [Positions(TRUE) -> Nat \cup {Heap}]
          /\ \A pos \in Positions(TRUE) : queue[q].ptr[pos] # Nullptr <=> pos < READPTRPOS
      BY <1>1, <2>2, MappingFacts
    <3>2. READPTRPOS \in Positions(TRUE)
      BY FourPositions
    <3>3. ~(READPTRPOS < READPTRPOS)
      BY DEF READPTRPOS
    <3> QED
      BY <3>1, <3>2, <3>3
  <2>4. Held(q) \subseteq Held(q)'
    BY <2>1, <2>2, <2>3, HoldsOn DEF IsPointer
  <2> QED
    BY <1>1, <2>1, <2>2, <2>4, KeepingStep
<1>11. ASSUME NEW q \in Queues, InitMemoryFails(q)  PROVE NothingLeaked'
  <2>1. /\ queue[q].stage = "mapping" /\ space' = Unwound(q)
        /\ \E object : queue' = [queue EXCEPT ![q] = object]
    BY <1>1, <1>11, FailsCases DEF InitMemoryFails, Replaces
  <2> QED
    BY <1>1, <2>1, UnwoundWithoutFlag, ReleasingStep
<1>12. ASSUME NEW q \in Queues, Constructs(q)  PROVE NothingLeaked'
  BY <1>1, <1>2, <1>10, <1>11, <1>12, MappingIsHeld DEF Constructs, ResetFaults
<1>13. ASSUME NEW q \in Queues, Destroy(q)  PROVE NothingLeaked'
  <2>1. queue' = [queue EXCEPT ![q] = NoQueue] /\ space' = Freed(space, Held(q))
    BY <1>1, <1>13, DestroyedIsFreed DEF Destroy
  <2> QED
    BY <1>1, <2>1, ReleasingStep
<1>14. ASSUME NEW q \in Queues, SendHidl(q) \/ DupeDesc(q)  PROVE NothingLeaked'
  BY <1>3, <1>14 DEF SendHidl, DupeDesc
<1>15. ASSUME NEW flavor \in Flavors, UnsafeHidlToAidl(flavor)  PROVE NothingLeaked'
  BY <1>3, <1>15 DEF UnsafeHidlToAidl
<1>16. CASE Protect \/ DropHidl \/ DropParcel
  BY <1>3, <1>16 DEF Protect, DropHidl, DropParcel
<1>17. ASSUME NEW change \in Changes, MalformParcel(change) \/ MalformHidl(change)
       PROVE  NothingLeaked'
  BY <1>3, <1>17 DEF MalformParcel, MalformHidl
<1>18. CASE UNCHANGED vars
  BY <1>3, <1>18 DEF vars
<1> QED
  BY <1>5, <1>6, <1>7, <1>8, <1>9, <1>12, <1>13, <1>14, <1>15, <1>16, <1>17, <1>18 DEF Next

\* Where no client asks for an event flag, which is the default of every
\* constructor, nothing stays mapped that no queue holds: the leak of the error
\* path of initMemory, which TLC finds, is that of a flag's mapping alone.
THEOREM OnlyFlagsLeak ==
  ASSUME ~FlagsAsked
  PROVE  Spec => []NothingLeaked
<1>1. FlagExtentKept
  BY DEF FlagExtentKept
<1>2. SpaceInv /\ NothingLeaked /\ [Next]_vars => SpaceInv' /\ NothingLeaked'
  BY <1>1, SpaceNext, NothingLeakedNext
<1>3. Init => SpaceInv /\ NothingLeaked
  BY SpaceInit DEF Init, NothingLeaked
<1> QED
  BY <1>2, <1>3, PTL DEF Spec

=============================================================================
