--------------------------- MODULE QueueLifecycle ---------------------------
(***************************************************************************)
(* The life of queue objects in a process: creation, attachment to a       *)
(* descriptor, initMemory with its error path, dupeDesc, conversion, and   *)
(* destruction, on an address space of pages and a limited number of file  *)
(* descriptors.  mmap may fail at any call, and so may an allocation.      *)
(*                                                                         *)
(* A constructor is one action up to initMemory, and initMemory one action *)
(* per grantor, so that the constructors of two threads interleave.        *)
(* What the counters hold is not part of this module.                      *)
(***************************************************************************)
EXTENDS AidlDescriptor

CONSTANTS
  Creators,     \* queue objects made with a number of elements
  Attachers,    \* queue objects made from a descriptor
  Setups,       \* the queues that clients ask for: type, arguments, and whether with a bufferFd
  BufferBytes,  \* bufferSize of a supplied bufferFd
  AttachSizes,  \* sizeof(T) of the attaching side
  Changes,      \* grantor, field and value that make a descriptor malformed
  MaxMade,      \* bound: queues constructed altogether
  NumPages,     \* bound: pages of address space
  FdLimit,      \* bound: file descriptors the process may open
  NumFiles      \* bound: shared memory files at one time

ASSUME LifecycleAssumption ==
  /\ {MaxMade, NumPages, FdLimit, NumFiles, BufferBytes} \subseteq Nat
  /\ Creators \cap Attachers = {} /\ (Creators \cup Attachers) \cap {"hidl", "aidl"} = {}
  /\ AttachSizes \subseteq Nat \ {0}
  /\ Changes \subseteq [pos : Positions(TRUE), field : {"fdIndex", "offset", "extent"}, value : Int]
  /\ Setups \subseteq [kind : {"hidl", "aidl"}, flavor : Flavors, n : Nat, sizeofT : Nat \ {0},
                     evFlag : BOOLEAN, supplied : BOOLEAN]

VARIABLES
  space,   \* what each page of the address space is mapped to
  frozen,  \* the files that may not be mapped for writing any more
  opened,  \* number of open file descriptors
  queue,   \* the queue objects
  hidl,    \* a HIDL descriptor received from a queue
  parcel,  \* an AIDL descriptor received from a queue
  made,    \* number of queues constructed so far, for the bound
  origin   \* ghost: where each descriptor comes from

vars == <<space, frozen, opened, queue, hidl, parcel, made, origin>>

Queues == Creators \cup Attachers

Kinds == {"hidl", "aidl"}

\* genuine: as a queue of the library describes itself; failed: left by a
\* conversion that returned false; malformed: with a field changed.
NoOrigins == [holder \in Queues \cup Kinds |-> "genuine"]

Pages == 1 .. NumPages

Free == [file |-> Bad, page |-> 0, writable |-> FALSE]

Nullptr == 0

\* mReadPtr of the unsynchronized flavor is allocated on the heap.
Heap == -1

NoPtrs == [pos \in Positions(TRUE) |-> Nullptr]

\* stage: "absent", the grantor initMemory maps next, or "done".
NoQueue == [stage |-> "absent", next |-> READPTRPOS, kind |-> "aidl",
            flavor |-> kSynchronizedReadWrite, sizeofT |-> 1, resets |-> FALSE,
            desc |-> NoDescriptor, temp |-> NoFds, ptr |-> NoPtrs, eventFlag |-> FALSE]

Init ==
  /\ space = [p \in Pages |-> Free]
  /\ frozen = {}
  /\ opened = 0
  /\ queue = [q \in Queues |-> NoQueue]
  /\ hidl = NoDescriptor
  /\ parcel = EmptyParcel
  /\ made = 0
  /\ origin = NoOrigins

-----------------------------------------------------------------------------
(* The kernel *)

HandleFiles(fds) == {fds[i] : i \in DOMAIN fds} \ {Bad}

LiveFiles ==
  (UNION {HandleFiles(queue[q].desc.handle.fds) \cup HandleFiles(queue[q].temp) : q \in Queues})
  \cup HandleFiles(hidl.handle.fds) \cup HandleFiles(parcel.fds)
  \cup {space[p].file : p \in Pages}

\* Identities that nothing refers to any more, for new regions.
NewIds == (1 .. NumFiles) \ {f.id : f \in LiveFiles}

IsLowest(id, ids) == id \in ids /\ \A other \in ids : id <= other

Room == FdLimit - opened

PagesOf(length) == (length + PageSize - 1) \div PageSize

Run(first, length) == first .. first + PagesOf(length) - 1

\* mmap puts a mapping at the first place where it fits.
Places(length) == {p \in Pages : \A i \in Run(p, length) : i \in Pages /\ space[i] = Free}

Place(length) == CHOOSE p \in Places(length) : \A other \in Places(length) : p <= other

\* The shared memory that mmap is asked for can be mapped; a file that may not
\* be written can, once mapGrantorDescr has retried, for this flavor only.
CanMmap(file, length, offset, flavor) ==
  /\ file # Bad /\ length > 0 /\ offset >= 0
  /\ file \notin frozen \/ flavor = kUnsynchronizedWrite
  /\ Places(length) # {}

Mmap(file, length, offset) ==
  [p \in Pages |->
     IF p \in Run(Place(length), length)
       THEN [file |-> file, page |-> offset \div PageSize + (p - Place(length)),
             writable |-> file \notin frozen]
       ELSE space[p]]

\* EINVAL, and no effect, unless the address is that of a page.
Munmap(from, base, length) ==
  IF base % PageSize # 0 \/ length <= 0 THEN from
  ELSE [p \in Pages |-> IF p \in Run(base \div PageSize, length) THEN Free ELSE from[p]]

ProcessDies ==
  /\ space' = [p \in Pages |-> Free]
  /\ opened' = 0
  /\ queue' = [q \in Queues |-> NoQueue]
  /\ hidl' = NoDescriptor
  /\ parcel' = EmptyParcel
  /\ origin' = NoOrigins
  /\ UNCHANGED frozen

-----------------------------------------------------------------------------
(* Construction up to initMemory *)

\* The first tests of initMemory.
Maps(desc, sizeofT) ==
  /\ ~desc.handle.null
  /\ Count(desc.grantors) >= kMinGrantorCount
  /\ desc.quantum = sizeofT

Constructed(kind, flavor, sizeofT, resets, desc, temp, maps) ==
  [NoQueue EXCEPT !.stage = IF maps THEN "mapping" ELSE "done", !.kind = kind, !.flavor = flavor,
                  !.sizeofT = sizeofT, !.resets = resets /\ maps, !.desc = desc, !.temp = temp]

QueueWithoutDescriptor == [NoQueue EXCEPT !.stage = "done"]

\* The early returns of the constructor; a supplied descriptor is closed.
RefusesToCreate(setup) ==
  \/ setup.n > SizeMax \div setup.sizeofT
  \/ setup.n = 0
  \/ setup.supplied /\ setup.n * setup.sizeofT > BufferBytes

\* One of the checks of alignToWordBoundary fails, which kills the process.
CreateAborts(setup) ==
  /\ ~setup.supplied
  /\ \/ ~CanAlign(setup.n * setup.sizeofT)
     \/ /\ setup.kind = "aidl" \/ setup.evFlag
        /\ ~CanAlign(ToSize(2 * CounterSize + setup.n * setup.sizeofT))

\* Slip: sizes that AIDL cannot hold leave the handle to nobody.
CreatedDescriptorWithoutHandle(setup, fds) ==
  LET bytes == setup.n * setup.sizeofT
  IN IF ~setup.supplied /\ setup.kind = "aidl" /\ AidlTooLarge(bytes, setup.sizeofT)
       THEN Descriptor(NoGrantors, NullHandle, setup.sizeofT, setup.flavor)
       ELSE Descriptor(IF setup.supplied THEN GrantorsWithBuffer(bytes, setup.evFlag)
                                         ELSE GrantorsInOneFile(bytes, setup.evFlag),
                       NativeHandle(fds), setup.sizeofT, setup.flavor)

\* The descriptor made for the handle fds.
CreatedDescriptor(setup, fds) ==
  LET bytes == setup.n * setup.sizeofT
  IN Descriptor(IF setup.supplied THEN GrantorsWithBuffer(bytes, setup.evFlag)
                ELSE IF setup.kind = "aidl" /\ AidlTooLarge(bytes, setup.sizeofT) THEN NoGrantors
                ELSE GrantorsInOneFile(bytes, setup.evFlag),
                NativeHandle(fds), setup.sizeofT, setup.flavor)

\* Bound: a new queue is made only while no descriptor is under way.
NoneUnderWay == hidl = NoDescriptor /\ parcel = EmptyParcel

\* ashmem_create_region fails when no descriptor is left, which is not tested.
Create(q, setup) ==
  LET bytes    == setup.n * setup.sizeofT
      supplied == setup.supplied
  IN
  /\ queue[q].stage = "absent"
  /\ made < MaxMade /\ made' = made + 1
  /\ NoneUnderWay
  /\ supplied => Room > 0
  /\ IF RefusesToCreate(setup)
       THEN /\ queue' = [queue EXCEPT ![q] = QueueWithoutDescriptor]
            /\ UNCHANGED <<space, frozen, opened, hidl, parcel, origin>>
     ELSE IF CreateAborts(setup)
       THEN ProcessDies
     ELSE \E id, bufferId \in NewIds :
          LET size == KAshmemSizePageAligned(bytes, setup.evFlag, supplied)
              fd   == IF Room > (IF supplied THEN 1 ELSE 0) THEN File(id, size) ELSE Bad
              fds  == IF supplied THEN [i \in 0 .. 1 |-> <<fd, File(bufferId, BufferBytes)>>[i + 1]]
                                  ELSE [i \in 0 .. 0 |-> fd]
              desc == CreatedDescriptor(setup, fds)
          IN /\ IsLowest(id, NewIds)
             /\ IF supplied THEN IsLowest(bufferId, NewIds \ {id}) ELSE bufferId = id
             /\ frozen' = {f \in frozen : f \in LiveFiles}
             /\ opened' = opened + OpenFds(fds)
             /\ queue' = [queue EXCEPT ![q] =
                            Constructed(setup.kind, setup.flavor, setup.sizeofT, TRUE, desc,
                                        NoFds, Maps(desc, setup.sizeofT))]
             /\ origin' = [origin EXCEPT ![q] = "genuine"]
             /\ UNCHANGED <<space, hidl, parcel>>

\* native_handle_create or the allocation of the descriptor fails; the handle,
\* if there is one, is closed, and a supplied descriptor with it.
CreateWithoutMemory(q, setup) ==
  /\ queue[q].stage = "absent"
  /\ made < MaxMade /\ made' = made + 1
  /\ NoneUnderWay
  /\ ~RefusesToCreate(setup) /\ ~CreateAborts(setup)
  /\ queue' = [queue EXCEPT ![q] = QueueWithoutDescriptor]
  /\ UNCHANGED <<space, frozen, opened, hidl, parcel, origin>>

\* The constructor from a descriptor copies it, and has nothing to map when the
\* data buffer is empty.
AttachTo(q, kind, flavor, sizeofT, resets, desc, temp) ==
  LET maps == SizeOf(desc.grantors) # 0 /\ Maps(desc, sizeofT)
  IN /\ queue' = [queue EXCEPT ![q] =
                    Constructed(kind, flavor, sizeofT, resets, desc,
                                IF maps THEN temp ELSE NoFds, maps)]
     /\ opened' = opened + OpenFds(desc.handle.fds) + (IF maps THEN OpenFds(temp) ELSE 0)
     /\ origin' = [origin EXCEPT ![q] = origin[kind]]
     /\ UNCHANGED <<space, frozen, hidl, parcel>>

AttachHidl(q, sizeofT, resets) ==
  /\ queue[q].stage = "absent"
  /\ made < MaxMade /\ made' = made + 1
  /\ hidl # NoDescriptor
  /\ AttachTo(q, "hidl", hidl.flags, sizeofT, resets, CopyDescriptor(hidl, Room), NoFds)

\* The copy of the descriptor cannot be allocated, or the handle of the shim it is
\* made from, whose grantors nothing looks at then.
AttachWithoutMemory(q) ==
  /\ queue[q].stage = "absent"
  /\ ~NoneUnderWay
  /\ made < MaxMade /\ made' = made + 1
  /\ queue' = [queue EXCEPT ![q] = QueueWithoutDescriptor]
  /\ UNCHANGED <<space, frozen, opened, hidl, parcel, origin>>

\* A shim is made of the parcel and copied by the base class's constructor; it
\* lives, with its own descriptors, until that constructor returns.
AttachAidl(q, flavor, sizeofT, resets) ==
  LET shim == Shim(parcel, Room)
      desc == CopyDescriptor(shim, Room - OpenFds(shim.handle.fds))
  IN /\ queue[q].stage = "absent"
     /\ made < MaxMade /\ made' = made + 1
     /\ parcel # EmptyParcel
     /\ parcel.flags \in Flavors => flavor = parcel.flags
     /\ AttachTo(q, "aidl", flavor, sizeofT, resets, desc, shim.handle.fds)

-----------------------------------------------------------------------------
(* initMemory, grantor by grantor *)

Grantors(q) == queue[q].desc.grantors

Fds(q) == queue[q].desc.handle.fds

FileOf(q, pos) == Fds(q)[ToInt32(Grantors(q)[pos].fdIndex)]

\* mapGrantorDescr returns an address.
CanMapGrantor(q, pos) ==
  /\ CanMap(Grantors(q), Count(Fds(q)), pos)
  /\ CanMmap(FileOf(q, pos), MapLength(Grantors(q)[pos]), MapOffset(Grantors(q)[pos]),
             queue[q].flavor)

OnHeap(q) == queue[q].next = READPTRPOS /\ queue[q].flavor = kUnsynchronizedWrite

LastPosition(q) ==
  IF Count(Grantors(q)) > EVFLAGWORDPOS THEN EVFLAGWORDPOS ELSE DATAPTRPOS

\* The pointer for the next grantor is set; after the last the constructor ends.
Advance(q, address, eventFlag) ==
  LET last == queue[q].next = LastPosition(q)
  IN /\ queue' = [queue EXCEPT ![q] =
                    [@ EXCEPT !.ptr[queue[q].next] = address, !.eventFlag = eventFlag,
                              !.stage = IF last THEN "done" ELSE "mapping",
                              !.next = IF last THEN READPTRPOS ELSE queue[q].next + 1,
                              !.resets = queue[q].resets /\ ~last,
                              !.temp = IF last THEN NoFds ELSE queue[q].temp]]
     /\ opened' = IF last THEN opened - OpenFds(queue[q].temp) ELSE opened
     /\ UNCHANGED <<frozen, hidl, parcel, made, origin>>

AllocateReadPtr(q) ==
  /\ queue[q].stage = "mapping" /\ OnHeap(q)
  /\ Advance(q, Heap, FALSE)
  /\ UNCHANGED space

\* With the write counter mapped, the counters are reset, which is a store to
\* the page of the write counter.
FaultsOnReset(q) ==
  /\ queue[q].next = WRITEPTRPOS /\ queue[q].resets
  /\ FileOf(q, WRITEPTRPOS) \in frozen

\* The EventFlag object may not be allocated; nobody looks at the status.
CreateEventFlag(pos) == IF pos = EVFLAGWORDPOS THEN BOOLEAN ELSE {FALSE}

MapGrantorDescr(q) ==
  LET pos     == queue[q].next
      grantor == Grantors(q)[pos]
  IN /\ queue[q].stage = "mapping" /\ ~OnHeap(q)
     /\ CanMapGrantor(q, pos)
     /\ ~FaultsOnReset(q)
     /\ space' = Mmap(FileOf(q, pos), MapLength(grantor), MapOffset(grantor))
     /\ \E created \in CreateEventFlag(pos) :
          Advance(q, Place(MapLength(grantor)) * PageSize + InPage(grantor), created)

ResetFaults(q) ==
  /\ queue[q].stage = "mapping" /\ ~OnHeap(q)
  /\ CanMapGrantor(q, queue[q].next)
  /\ FaultsOnReset(q)
  /\ ProcessDies
  /\ UNCHANGED made

\* unmapGrantorDescr(pointer at pos, grantorPos), on an address space.
Unmap(from, q, pos, grantorPos) ==
  IF queue[q].ptr[pos] \in {Nullptr, Heap} \/ grantorPos \notin DOMAIN Grantors(q)
    THEN from
    ELSE Munmap(from, BaseAddress(queue[q].ptr[pos], Grantors(q)[grantorPos]),
                MapLength(Grantors(q)[grantorPos]))

\* Slip: the write counter is left mapped.
UnwoundHalfway(q) ==
  Unmap(Unmap(space, q, READPTRPOS, READPTRPOS), q, DATAPTRPOS, EVFLAGWORDPOS)

\* The error path of initMemory.  The ring goes with the flag's grantor.
Unwound(q) ==
  LET noReadPtr  == Unmap(space, q, READPTRPOS, READPTRPOS)
      noWritePtr == Unmap(noReadPtr, q, WRITEPTRPOS, WRITEPTRPOS)
  IN  Unmap(noWritePtr, q, DATAPTRPOS, EVFLAGWORDPOS)

\* Slip: the pointers are not set back to nullptr.
InitMemoryFailsDangling(q) ==
  /\ queue[q].stage = "mapping"
  /\ space' = Unwound(q)
  /\ queue' = [queue EXCEPT ![q] = [@ EXCEPT !.stage = "done", !.next = READPTRPOS,
                                            !.resets = FALSE, !.temp = NoFds]]
  /\ opened' = opened - OpenFds(queue[q].temp)
  /\ UNCHANGED <<frozen, hidl, parcel, made, origin>>

\* A test of mapGrantorDescr, mmap or the allocation fails.
InitMemoryFails(q) ==
  /\ queue[q].stage = "mapping"
  /\ space' = Unwound(q)
  /\ queue' = [queue EXCEPT ![q] = [@ EXCEPT !.stage = "done", !.next = READPTRPOS,
                                            !.resets = FALSE, !.ptr = NoPtrs, !.temp = NoFds]]
  /\ opened' = opened - OpenFds(queue[q].temp)
  /\ UNCHANGED <<frozen, hidl, parcel, made, origin>>

-----------------------------------------------------------------------------
(* A queue that has been constructed *)

IsValid(q) ==
  \A pos \in {READPTRPOS, WRITEPTRPOS, DATAPTRPOS} : queue[q].ptr[pos] # Nullptr

\* Every pointer is unmapped with its own grantor; deleteEventFlag unmaps nothing.
Destroyed(q) ==
  LET noReadPtr  == Unmap(space, q, READPTRPOS, READPTRPOS)
      noWritePtr == Unmap(noReadPtr, q, WRITEPTRPOS, WRITEPTRPOS)
      noRing     == Unmap(noWritePtr, q, DATAPTRPOS, DATAPTRPOS)
  IN  Unmap(noRing, q, EVFLAGWORDPOS, EVFLAGWORDPOS)

\* The destructor, and with it that of the descriptor.
Destroy(q) ==
  /\ queue[q].stage = "done"
  /\ space' = Destroyed(q)
  /\ opened' = opened - OpenFds(Fds(q))
  /\ queue' = [queue EXCEPT ![q] = NoQueue]
  /\ origin' = [origin EXCEPT ![q] = "genuine"]
  /\ UNCHANGED <<frozen, hidl, parcel, made>>

\* A client sends *getDesc() through HIDL, which copies it.
SendHidl(q) ==
  /\ queue[q].stage = "done" /\ queue[q].kind = "hidl"
  /\ ~queue[q].desc.handle.null
  /\ hidl = NoDescriptor
  /\ hidl' = CopyDescriptor(queue[q].desc, Room)
  /\ opened' = opened + OpenFds(hidl'.handle.fds)
  /\ origin' = [origin EXCEPT !["hidl"] = origin[q]]
  /\ UNCHANGED <<space, frozen, queue, parcel, made>>

\* The client does not call dupeDesc on a queue that rejected its parcel: the
\* null handle is dereferenced.
DupeDesc(q) ==
  /\ queue[q].stage = "done" /\ queue[q].kind = "aidl"
  /\ ~queue[q].desc.handle.null
  /\ parcel = EmptyParcel
  /\ parcel' = DupedDesc(queue[q].desc, Room)
  /\ opened' = opened + OpenFds(parcel'.fds)
  /\ origin' = [origin EXCEPT !["aidl"] = origin[q]]
  /\ UNCHANGED <<space, frozen, queue, hidl, made>>

UnsafeHidlToAidl(flavor) ==
  /\ hidl # NoDescriptor
  /\ parcel = EmptyParcel
  /\ parcel' = ConvertedParcel(hidl, flavor, Room)
  /\ opened' = opened + OpenFds(parcel'.fds)
  /\ origin' = [origin EXCEPT !["aidl"] =
                   IF Converts(hidl, flavor) THEN origin["hidl"] ELSE "failed"]
  /\ UNCHANGED <<space, frozen, queue, hidl, made>>

\* The sender takes the right to write from the region it has sent.
Protect ==
  /\ 0 \in DOMAIN parcel.fds /\ parcel.fds[0] # Bad
  /\ parcel.flags = kUnsynchronizedWrite
  /\ frozen' = frozen \cup {parcel.fds[0]}
  /\ UNCHANGED <<space, opened, queue, hidl, parcel, made, origin>>

\* One grantor of a descriptor is changed, as in the tests of bad configurations.
Changed(grantors, change, x) == [grantors EXCEPT ![change.pos][change.field] = x]

\* Bound: a descriptor is changed before anything is attached, and only one is.
NoneMalformed ==
  /\ \A holder \in DOMAIN origin : origin[holder] = "genuine"
  /\ \A q \in Attachers : queue[q].stage = "absent"

MalformParcel(change) ==
  /\ change.pos \in DOMAIN parcel.grantors
  /\ NoneMalformed
  /\ parcel' = [parcel EXCEPT !.grantors = Changed(@, change, change.value)]
  /\ origin' = [origin EXCEPT !["aidl"] = "malformed"]
  /\ UNCHANGED <<space, frozen, opened, queue, hidl, made>>

MalformHidl(change) ==
  /\ change.pos \in DOMAIN hidl.grantors
  /\ NoneMalformed
  /\ hidl' = [hidl EXCEPT !.grantors = Changed(@, change, ToUint32(change.value))]
  /\ origin' = [origin EXCEPT !["hidl"] = "malformed"]
  /\ UNCHANGED <<space, frozen, opened, queue, parcel, made>>

DropHidl ==
  /\ hidl # NoDescriptor
  /\ hidl' = NoDescriptor
  /\ opened' = opened - OpenFds(hidl.handle.fds)
  /\ origin' = [origin EXCEPT !["hidl"] = "genuine"]
  /\ UNCHANGED <<space, frozen, queue, parcel, made>>

DropParcel ==
  /\ parcel # EmptyParcel
  /\ parcel' = EmptyParcel
  /\ opened' = opened - OpenFds(parcel.fds)
  /\ origin' = [origin EXCEPT !["aidl"] = "genuine"]
  /\ UNCHANGED <<space, frozen, queue, hidl, made>>

-----------------------------------------------------------------------------

Constructs(q) ==
  \/ AllocateReadPtr(q)
  \/ MapGrantorDescr(q)
  \/ ResetFaults(q)
  \/ InitMemoryFails(q)

Next ==
  \/ \E q \in Creators, setup \in Setups : Create(q, setup) \/ CreateWithoutMemory(q, setup)
  \/ \E q \in Attachers : AttachWithoutMemory(q)
  \/ \E q \in Attachers, sizeofT \in AttachSizes, resets \in BOOLEAN :
       \/ AttachHidl(q, sizeofT, resets)
       \/ \E flavor \in Flavors : AttachAidl(q, flavor, sizeofT, resets)
  \/ \E q \in Queues : Constructs(q)
  \/ \E q \in Queues : Destroy(q) \/ SendHidl(q) \/ DupeDesc(q)
  \/ \E flavor \in Flavors : UnsafeHidlToAidl(flavor)
  \/ Protect
  \/ \E change \in Changes : MalformParcel(change) \/ MalformHidl(change)
  \/ DropHidl
  \/ DropParcel

Spec == Init /\ [][Next]_vars

-----------------------------------------------------------------------------
(* Properties *)

IsPointer(address) == address \notin {Nullptr, Heap}

\* Every byte of a grantor is found behind the pointer to it.
Reaches(q, pos) ==
  LET grantor == Grantors(q)[pos]
      first   == queue[q].ptr[pos] \div PageSize
  IN /\ queue[q].ptr[pos] % PageSize = grantor.offset % PageSize
     /\ \A p \in Run(first, (grantor.offset % PageSize) + grantor.extent) :
          /\ p \in Pages
          /\ space[p].file = FileOf(q, pos)
          /\ space[p].page = (grantor.offset \div PageSize) + (p - first)

TypeOK ==
  /\ \A p \in Pages : space[p].file.id \in 0 .. NumFiles
  /\ opened \in 0 .. FdLimit
  /\ \A q \in Queues :
       /\ queue[q].stage \in {"absent", "mapping", "done"}
       /\ queue[q].next \in Positions(TRUE)
       /\ queue[q].kind \in Kinds /\ queue[q].flavor \in Flavors
       /\ queue[q].eventFlag \in BOOLEAN
       /\ queue[q].eventFlag => IsPointer(queue[q].ptr[EVFLAGWORDPOS])
       /\ queue[q].stage # "done" \/ IsValid(q) \/ queue[q].ptr = NoPtrs

\* Whatever queues are made, fail and are destroyed around it, a queue's pointers
\* lead to the bytes of its grantors, and nothing else has been mapped over or
\* unmapped under them.  This needs the flags' extents to be what the library
\* makes them: initMemory's error path unmaps a ring with the flag's length.
PointersReachTheirGrantors ==
  \A q \in Queues : \A pos \in DOMAIN Grantors(q) :
    IsPointer(queue[q].ptr[pos]) => Reaches(q, pos)

EndOf(grantor) == grantor.offset + grantor.extent

\* The parts of a valid queue that the library laid out do not overlap, lie in
\* their files, and its ring holds whole messages: sizes near the limits of
\* size_t, int32_t and int either work or make the queue invalid.
GrantorsApart ==
  \A q \in Queues :
    queue[q].stage = "done" /\ IsValid(q) /\ origin[q] = "genuine" =>
      /\ \A pos \in DOMAIN Grantors(q) :
           EndOf(Grantors(q)[pos]) <= FileOf(q, pos).size
      /\ \A pos, other \in DOMAIN Grantors(q) :
           pos # other /\ FileOf(q, pos) = FileOf(q, other) =>
             \/ EndOf(Grantors(q)[pos]) <= Grantors(q)[other].offset
             \/ EndOf(Grantors(q)[other]) <= Grantors(q)[pos].offset
      /\ SizeOf(Grantors(q)) % queue[q].sizeofT = 0

\* Where an open file descriptor is kept: in a queue's descriptor, in the shim it
\* is being made from, or in a descriptor under way.
FdsKept ==
  (UNION {{<<"queue", q, i>> : i \in OpenIn(Fds(q))} \cup
          {<<"shim", q, i>> : i \in OpenIn(queue[q].temp)} : q \in Queues})
  \cup {<<"hidl", "hidl", i>> : i \in OpenIn(hidl.handle.fds)}
  \cup {<<"aidl", "aidl", i>> : i \in OpenIn(parcel.fds)}

\* Whatever fails and in whichever order things are released, the open file
\* descriptors are those of the queues and of the descriptors under way.  A test
\* creates too large queues in a loop and looks "for leaked FDs" this way.
NoFdLeak == opened = Cardinality(FdsKept)

\* The byte of a file behind an address.
Behind(address) ==
  <<space[address \div PageSize].file,
    PageSize * space[address \div PageSize].page + (address % PageSize)>>

\* Two queues made, directly or by way of AIDL, HIDL or a conversion, from the
\* same description have their counters, ring and flag in the same bytes.
SidesShareMemory ==
  \A q, other \in Queues :
    /\ queue[q].stage = "done" /\ IsValid(q) /\ origin[q] = "genuine"
    /\ queue[other].stage = "done" /\ IsValid(other) /\ origin[other] = "genuine"
    /\ Fds(q)[0] = Fds(other)[0]
    => /\ Count(Grantors(q)) = Count(Grantors(other))
       /\ \A pos \in DOMAIN Grantors(q) :
            queue[q].ptr[pos] # Heap =>
              /\ Behind(queue[q].ptr[pos]) = Behind(queue[other].ptr[pos])
              /\ Grantors(q)[pos].extent = Grantors(other)[pos].extent

\* A conversion that returned false never leaves a usable description behind.
NoQueueFromFailedConversion ==
  \A q \in Queues : origin[q] = "failed" => ~IsValid(q)

\* The pages that a queue's pointers hold.
PagesAt(q, pos) ==
  IF IsPointer(queue[q].ptr[pos])
    THEN Run(queue[q].ptr[pos] \div PageSize, MapLength(Grantors(q)[pos]))
    ELSE {}

Held(q) == UNION {PagesAt(q, pos) : pos \in Positions(TRUE)}

\* A check of alignToWordBoundary fails, or the store that resets the counters.
ProcessEnds ==
  \/ \E q \in Creators, setup \in Setups :
       ~RefusesToCreate(setup) /\ CreateAborts(setup) /\ Create(q, setup)
  \/ \E q \in Queues : ResetFaults(q)

\* Whoever makes a queue lose its pointers, the end of the process apart, returns
\* the pages they hold and no others, through the sizes it recomputes: the
\* destructor all of them, and the error path of initMemory too, but for the ring
\* of a queue whose flag could not be mapped.
PagesAreReturned ==
  [][\A q \in Queues :
       queue[q].ptr # NoPtrs /\ queue'[q].ptr = NoPtrs /\ ~ProcessEnds =>
         \A p \in Pages :
           /\ p \notin Held(q) => space'[p] = space[p]
           /\ p \in Held(q) =>
                \/ space'[p] = Free
                \/ queue[q].next = EVFLAGWORDPOS /\ p \in PagesAt(q, DATAPTRPOS)]_vars

\* Whatever is still mapped belongs to some queue that will unmap it.  The error
\* path of initMemory and the destructor each unmap what their pointers hold, the
\* ring among them, before they forget the pointers.
NothingLeaked ==
  \A p \in Pages : space[p] # Free => \E q \in Queues : p \in Held(q)

=============================================================================
