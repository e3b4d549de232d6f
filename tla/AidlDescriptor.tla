--------------------------- MODULE AidlDescriptor ---------------------------
(***************************************************************************)
(* The descriptors that travel between processes, and what is made of them *)
(* on the way: AidlMessageQueue::dupeDesc writes the AIDL parcel of a      *)
(* queue, the constructor of AidlMQDescriptorShim reads one, and           *)
(* unsafeHidlToAidlMQDescriptor makes one of a HIDL descriptor.  AIDL has  *)
(* only signed integers, so every field is cast on each of these paths.    *)
(*                                                                         *)
(* A descriptor within a process (mDesc) has unsigned fields and a native  *)
(* handle; a parcel has signed ones and a vector of file descriptors.      *)
(* fds is a function from an index of the handle to the file it is open    *)
(* on, or Bad where dup or ashmem_create_region has failed.  A file is a   *)
(* record with an identity and a size.                                     *)
(***************************************************************************)
EXTENDS GrantorLayout

\* enum MQFlavor
kSynchronizedReadWrite == 1
kUnsynchronizedWrite == 2

Flavors == {kSynchronizedReadWrite, kUnsynchronizedWrite}

File(id, size) == [id |-> id, size |-> size]

Bad == File(0, 0)

NoFds == [i \in {} |-> Bad]

OpenIn(fds) == {i \in DOMAIN fds : fds[i] # Bad}

OpenFds(fds) == Cardinality(OpenIn(fds))

\* A loop of dup() over the descriptors: each fails when `room` more are open.
Dup(fds, room) ==
  [i \in DOMAIN fds |->
     IF OpenFds([j \in {k \in DOMAIN fds : k < i} |-> fds[j]]) < room THEN fds[i] ELSE Bad]

NullHandle == [null |-> TRUE, fds |-> NoFds]

NativeHandle(fds) == [null |-> FALSE, fds |-> fds]

Descriptor(grantors, handle, quantum, flags) ==
  [grantors |-> grantors, handle |-> handle, quantum |-> quantum, flags |-> flags]

NoDescriptor == Descriptor(NoGrantors, NullHandle, 0, 0)

Parcel(grantors, fds, quantum, flags) ==
  [grantors |-> grantors, fds |-> fds, quantum |-> quantum, flags |-> flags]

EmptyParcel == Parcel(NoGrantors, NoFds, 0, 0)

-----------------------------------------------------------------------------
(* AidlMQDescriptorShim *)

Negative(grantor) == grantor.offset < 0 \/ grantor.extent < 0 \/ grantor.fdIndex < 0

ShimRejects(parcel) ==
  \/ parcel.quantum < 0 \/ parcel.flags < 0
  \/ \E i \in DOMAIN parcel.grantors : Negative(parcel.grantors[i])

\* Slip: the index of the file is not copied.
ShimGrantorsOfOneFile(parcel) ==
  IF parcel.quantum < 0 \/ parcel.flags < 0 THEN NoGrantors
  ELSE [i \in DOMAIN parcel.grantors |->
          IF \E j \in 0 .. i : Negative(parcel.grantors[j])
            THEN Grantor(0, 0, 0)
            ELSE Grantor(0, ToUint32(parcel.grantors[i].offset),
                         ToSize(parcel.grantors[i].extent))]

\* The vector is resized first and filled up to the first negative grantor.
ShimGrantors(parcel) ==
  IF parcel.quantum < 0 \/ parcel.flags < 0 THEN NoGrantors
  ELSE [i \in DOMAIN parcel.grantors |->
          IF \E j \in 0 .. i : Negative(parcel.grantors[j])
            THEN Grantor(0, 0, 0)
            ELSE Grantor(ToUint32(parcel.grantors[i].fdIndex),
                         ToUint32(parcel.grantors[i].offset),
                         ToSize(parcel.grantors[i].extent))]

\* A rejected parcel leaves the handle null, which makes the queue invalid.
Shim(parcel, room) ==
  Descriptor(ShimGrantors(parcel),
             IF ShimRejects(parcel) THEN NullHandle ELSE NativeHandle(Dup(parcel.fds, room)),
             ToUint32(parcel.quantum), ToUint32(parcel.flags))

\* The copy constructor and operator=: grantors as they are, descriptors dup'ed.
CopyDescriptor(desc, room) ==
  [desc EXCEPT !.handle = IF desc.handle.null THEN NullHandle
                                              ELSE NativeHandle(Dup(desc.handle.fds, room))]

-----------------------------------------------------------------------------
(* AidlMessageQueue::dupeDesc *)

ToAidl(grantor) ==
  Grantor(ToInt32(grantor.fdIndex), ToInt32(grantor.offset), ToInt64(grantor.extent))

DupedDesc(desc, room) ==
  Parcel([i \in DOMAIN desc.grantors |-> ToAidl(desc.grantors[i])],
         Dup(desc.handle.fds, room), ToInt32(desc.quantum), ToInt32(desc.flags))

-----------------------------------------------------------------------------
(* unsafeHidlToAidlMQDescriptor *)

\* fdIndex is a uint32_t, so that its cast to int64_t is never negative.
UnsafeCast(grantor) == ToInt32(grantor.offset) < 0 \/ ToInt64(grantor.extent) < 0

\* Grantors are appended until one cannot be cast, which ends the call.
Appended(desc) ==
  [i \in {k \in DOMAIN desc.grantors : \A j \in 0 .. k : ~UnsafeCast(desc.grantors[j])} |->
     ToAidl(desc.grantors[i])]

AllAppended(desc) == DOMAIN Appended(desc) = DOMAIN desc.grantors

\* What the call leaves in a destination without grantors, and its result.
\* The quantum and the flags come last, so a call that fails leaves none.
Converts(desc, flavor) ==
  /\ AllAppended(desc)
  /\ ToInt32(desc.quantum) >= 0 /\ ToInt32(desc.flags) >= 0
  /\ desc.flags = flavor

\* Slip: quantum and flags are filled in first.
ConvertedParcelQuantumFirst(desc, flavor, room) ==
  Parcel(Appended(desc),
         IF AllAppended(desc) THEN Dup(desc.handle.fds, room) ELSE NoFds,
         ToInt32(desc.quantum), ToInt32(desc.flags))

ConvertedParcel(desc, flavor, room) ==
  Parcel(Appended(desc),
         IF AllAppended(desc) THEN Dup(desc.handle.fds, room) ELSE NoFds,
         IF Converts(desc, flavor) THEN ToInt32(desc.quantum) ELSE 0,
         IF Converts(desc, flavor) THEN ToInt32(desc.flags) ELSE 0)

=============================================================================
