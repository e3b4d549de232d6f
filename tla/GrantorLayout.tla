---------------------------- MODULE GrantorLayout ----------------------------
(***************************************************************************)
(* Where the parts of a queue lie: the arithmetic of the constructors of   *)
(* MessageQueueBase and AidlMQDescriptorShim, which lay the two counters,  *)
(* the ring and the EventFlag word out in files, and of mapGrantorDescr    *)
(* and unmapGrantorDescr, which turn a grantor into a range of pages.      *)
(* Everything here is a pure operator, with the widths of the code: size_t *)
(* and uint64_t have SizeModulus values, int and uint32_t IntModulus, and  *)
(* a conversion to a narrower or a signed type is what the cast does.      *)
(*                                                                         *)
(* A std::vector of grantors is a function on 0 .. count - 1.              *)
(***************************************************************************)
EXTENDS Integers, FiniteSets

CONSTANTS
  PageSize,     \* getpagesize()
  WordSize,     \* kAlignmentSize / 8
  CounterSize,  \* sizeof(RingBufferPosition)
  FlagSize,     \* sizeof(std::atomic<uint32_t>)
  SizeModulus,  \* number of values of a size_t: 2^64
  IntModulus    \* number of values of an int: 2^32

ASSUME LayoutAssumption ==
  /\ {PageSize, WordSize, CounterSize, FlagSize, SizeModulus, IntModulus} \subseteq Nat \ {0}
  /\ PageSize % WordSize = 0 /\ CounterSize % WordSize = 0
  /\ FlagSize <= WordSize
  /\ SizeModulus % PageSize = 0 /\ IntModulus % 2 = 0 /\ IntModulus < SizeModulus
  /\ 2 * PageSize < IntModulus \div 2
  /\ 2 * CounterSize + FlagSize <= PageSize

SizeMax == SizeModulus - 1

IntMax == IntModulus \div 2 - 1

ToSize(x) == x % SizeModulus

ToUint32(x) == x % IntModulus

ToInt32(x) == ((x + IntModulus \div 2) % IntModulus) - IntModulus \div 2

ToInt64(x) == ((x + SizeModulus \div 2) % SizeModulus) - SizeModulus \div 2

-----------------------------------------------------------------------------
(* Alignment *)

\* (x + unit - 1) & ~(unit - 1) of a size_t, for a power of two.
RoundUp(x, unit) == (ToSize(x + unit - 1) \div unit) * unit

\* The check in alignToWordBoundary; when it fails the process aborts.
CanAlign(length) == length <= SizeMax - WordSize + 1

AlignToWordBoundary(length) == RoundUp(length, WordSize)

IsAlignedToWordBoundary(offset) == offset % WordSize = 0

-----------------------------------------------------------------------------
(* Creation: the size of the shared memory and the grantors *)

READPTRPOS == 0
WRITEPTRPOS == 1
DATAPTRPOS == 2
EVFLAGWORDPOS == 3

kMinGrantorCount == DATAPTRPOS + 1

Positions(evFlag) == READPTRPOS .. (IF evFlag THEN EVFLAGWORDPOS ELSE DATAPTRPOS)

NoGrantors == [pos \in {} |-> {}]

Count(grantors) == Cardinality(DOMAIN grantors)

Grantor(fdIndex, offset, extent) == [fdIndex |-> fdIndex, offset |-> offset, extent |-> extent]

KMetaDataSize(evFlag) == 2 * CounterSize + (IF evFlag THEN FlagSize ELSE 0)

\* With a supplied buffer the shared memory holds the counters and the flag only.
KAshmemSizePageAligned(bytes, evFlag, supplied) ==
  RoundUp((IF supplied THEN 0 ELSE AlignToWordBoundary(bytes)) + KMetaDataSize(evFlag), PageSize)

MemSize(bytes) == [pos \in Positions(TRUE) |->
  CASE pos = DATAPTRPOS -> bytes
    [] pos = EVFLAGWORDPOS -> FlagSize
    [] OTHER -> CounterSize]

\* The sum of the sizes of the grantors before pos, in a size_t.
OffsetOf(bytes, pos) ==
  CASE pos = READPTRPOS -> 0
    [] pos = WRITEPTRPOS -> CounterSize
    [] pos = DATAPTRPOS -> 2 * CounterSize
    [] OTHER -> ToSize(2 * CounterSize + bytes)

\* One file with everything in it, as the descriptors lay it out.
GrantorsInOneFile(bytes, evFlag) ==
  [pos \in Positions(evFlag) |->
     Grantor(0, ToUint32(AlignToWordBoundary(OffsetOf(bytes, pos))), MemSize(bytes)[pos])]

\* Slip: the flag's offset is counted past a ring that is in the other file.
GrantorsWithFlagPastRing(bytes, evFlag) ==
  [pos \in Positions(evFlag) |->
     IF pos = DATAPTRPOS
       THEN Grantor(1, 0, bytes)
       ELSE Grantor(0, ToUint32(AlignToWordBoundary(OffsetOf(bytes, pos))), MemSize(bytes)[pos])]

\* The data buffer is the supplied file; the flag then follows the counters.
GrantorsWithBuffer(bytes, evFlag) ==
  [pos \in Positions(evFlag) |->
     IF pos = DATAPTRPOS
       THEN Grantor(1, 0, bytes)
       ELSE Grantor(0, ToUint32(AlignToWordBoundary(OffsetOf(0, pos))), MemSize(bytes)[pos])]

\* The shim refuses sizes that a signed AIDL field cannot hold; it then has a
\* handle and no grantors.
AidlTooLarge(bytes, messageSize) ==
  \/ bytes > SizeMax - 2 * CounterSize
  \/ AlignToWordBoundary(ToSize(2 * CounterSize + bytes)) > IntMax
  \/ messageSize > IntMax

\* mDesc->getSize(): the extent of the data buffer, if there is one.
SizeOf(grantors) == IF Count(grantors) > DATAPTRPOS THEN grantors[DATAPTRPOS].extent ELSE 0

-----------------------------------------------------------------------------
(* Mapping *)

MinExtent(pos) ==
  CASE pos \in {READPTRPOS, WRITEPTRPOS} -> CounterSize
    [] pos = EVFLAGWORDPOS -> FlagSize
    [] OTHER -> 0

\* The tests of mapGrantorDescr on a handle of numFds descriptors.
CanMap(grantors, numFds, pos) ==
  /\ pos \in DOMAIN grantors
  /\ ToInt32(grantors[pos].fdIndex) \in 0 .. numFds - 1
  /\ IsAlignedToWordBoundary(grantors[pos].offset)
  /\ \A i \in DOMAIN grantors : grantors[i].extent >= MinExtent(i)
  /\ grantors[pos].extent <= IntMax - PageSize

MapOffset(grantor) == ToInt32((grantor.offset \div PageSize) * PageSize)

InPage(grantor) == ToUint32(grantor.offset - MapOffset(grantor))

\* Slip: the distance from the page boundary is forgotten.
MapLengthOfExtent(grantor) == ToInt32(grantor.extent)

MapLength(grantor) == ToInt32(InPage(grantor) + grantor.extent)

\* What unmapGrantorDescr passes to munmap for an address and a grantor.
BaseAddress(address, grantor) == address - InPage(grantor)

=============================================================================
