# Verification of libfmq, the fast message queue

libfmq moves messages of one fixed-size type between processes through shared
memory. There is no broker: a queue is a ring buffer, two byte counters and an
optional futex word, all in shared memory, and every process that maps them runs
the same header, `include/fmq/MessageQueueBase.h`. Nothing is locked. What makes
a queue correct is the order in which each side loads and stores the counters,
copies messages, and touches the futex word. That is the subject of this project.

Paths below are relative to `src/`; `MQB` is `include/fmq/MessageQueueBase.h`.

## 1. The system

### Components

| Component | State | Operations | Correct when |
|---|---|---|---|
| Ring arithmetic (`MQB` 241-300, 467-577, 1049-1257) | none: pure functions of two counters | `MemRegion`, `MemTransaction`, `getSlot`, `copyTo`, `copyFrom`, `getMemRegionInfo`, `availableTo*`, the decisions of `begin*` and `commit*` | n messages from a counter on map to n distinct slots, in order, also across the end of the ring |
| Synchronized flavor (`MQB` 800-814, 1049-1267) | ring, `mReadPtr`, `mWritePtr`; each side's open transaction | `beginWrite`, `commitWrite`, `beginRead`, `commitRead`, `write`, `read` | a bounded first-in first-out queue between one writer and one reader |
| Unsynchronized flavor (same code, `mReadPtr` private to each reader, `MQB` 599-618) | ring, `mWritePtr`; a counter per reader | the same | a reader that has been overtaken notices, skips forward and catches up; nobody blocks the writer |
| `EventFlag` (`EventFlag.cpp`) | one 32-bit atomic word in shared memory | `wake`, `wait` | bits that are set reach one waiter and no sleeper is forgotten |
| Blocking calls (`MQB` 817-1046) | the synchronized queue and an `EventFlag` | `readBlocking`, `writeBlocking` | no side sleeps while it could proceed; the two wait for each other only with counts that do not fit the queue together |
| Lifecycle (`MQB` 579-797) | pointers into mappings, a descriptor that owns file descriptors, the flag object | constructors, `initMemory`, destructor | pointers lead where the grantors say; what is mapped and opened is given back once, on every way out; the peers survive an attachment |
| Grantor layout and mapping (`MQB` 662-778, 1275-1370, `base/fmq/MQDescriptorBase.h`) | none | offsets and extents of ring, counters and flag; page arithmetic of `mmap` | grantors are disjoint, aligned and inside the file |
| AIDL shim (`include/fmq/AidlMQDescriptorShim.h`, `AidlMessageQueue.h`) | a native handle | construction from AIDL descriptors, `dupeDesc` | only valid fields get through; the handle has one owner |
| HIDL to AIDL conversion (`include/fmq/ConvertMQDescriptors.h`) | none | `unsafeHidlToAidlMQDescriptor` | what it accepts describes the same queue |

`include/fmq/MessageQueue.h` (constructors that forward), `FmqInternal.cpp` (the
log), the tests, the fuzzer and the benchmarks keep no state of the system; they
were read for how the library is used.

### How the components interact

- The writer's process stores `mWritePtr` and the ring, and loads `mReadPtr`; the
  reader's process does the reverse. All counter stores that the other side loads
  are releases, and the loads are acquires. There are no other messages between them.
- A transaction call (`beginWrite`, ...) computes memory regions out of one value of
  each counter. Between `begin` and `commit` the client copies, at its leisure.
- A blocking call attempts a transfer, and otherwise waits on its bit of the flag
  word; after a transfer it wakes the bit the other side waits on.
- `wake` and `wait` reach other threads through the word and through the kernel's futex.
- A constructor lays the parts of a queue out in files and describes them by grantors
  (file, offset, extent). The descriptor travels, as itself in HIDL, as a parcel of signed
  fields in AIDL, or from the one to the other, and another process maps the same grantors.
- An attachment may store the two counters of a queue that a peer is using (`resetPointers`,
  the default); this is the one place where a counter has two writers.

### What is hard

- Both sides work at once, with values of each other's counter that may be old
  (a load of the other side's counter returns some value at least as new as the
  one it returned last; nothing says how soon it is the latest).
- A transaction can wrap around the end of the ring, a copy can start in its second
  part, and a commit can be for less than the transaction.
- The byte counters are 64-bit and wrap, and three pieces of code treat the
  difference of two counters in two ways.
- The unsynchronized writer stores over what a reader is copying.
- A futex wake-up can fall between looking at the word and going to sleep; `wake`
  skips the system call when it thinks somebody else is making it; waits are
  interrupted, time out and wake up for nothing.
- Two blocking calls can wait for each other.
- A process can die anywhere, and another can attach in its place, with or without
  a reset of the counters.
- Construction can fail at every `mmap`, `dup` and allocation, with part of the queue in place.
- Offsets are `uint32_t`, extents `uint64_t`, mapping arithmetic is in `int`, AIDL has only
  signed fields, and sizes come from clients.

`PROJECT.json` lists each of these at its line under `hazards`, with the property
that watches it, or why there is none yet.

## 2. The modules

| Module | Models | Uses |
|---|---|---|
| `RingBuffer` | the ring arithmetic, as operators | |
| `SyncQueue` | the synchronized flavor | extends `RingBuffer` |
| `MessageFifo` | what the synchronized flavor promises (abstract) | |
| `UnsyncQueue` | the unsynchronized flavor | extends `RingBuffer` |
| `EventFlag` | `EventFlag` and, as an external part, the futex | |
| `BlockingQueue` | `readBlocking` and `writeBlocking` | instantiates `EventFlag` |
| `GrantorLayout` | the arithmetic of layout, mapping and unmapping, as operators | |
| `AidlDescriptor` | descriptors and parcels, the AIDL shim, `dupeDesc` and the conversion, as operators | extends `GrantorLayout` |
| `QueueLifecycle` | queue objects in a process: constructors, `initMemory`, destructor, descriptors under way | extends `AidlDescriptor` |
| `AttachReset` | attachment with `resetPointers` under peers, in both flavors | extends `RingBuffer` |
| `*_proofs` | theorems and their proofs | extend the module they are about |
| `MC*` | the modules as TLC runs them | extend the module they run |

Definitions keep the names of the code, starting with a capital letter where they are
operators (`AvailableToWriteBytes`, `MemTransaction`, `CommitRead`). A definition whose
comment begins with *Slip* is a wrong variant of its neighbour, such as a plausible
bug would produce; it belongs to no specification, and is used to make sure that the
property it is paired with in `PROJECT.json` notices.

### RingBuffer

Counters are numbers of bytes below `PtrModulus`, which stands for 2^64. A pointer into
the ring is a slot number. `MemTransaction(ptr, n)` is the pair of regions of `n`
messages from `ptr` on; `CopySlot` is what `getMemRegionInfo` makes `copyTo` and
`copyFrom` touch. `BeginWriteTx`, `BeginReadTx`, `BeginReadPtr`, `CommitWritePtr` and
`CommitReadPtr` are the decisions of the four transaction calls, so that both
flavors share them as they do in the code. `Overrun` is the code's `uint64_t`
subtraction and `AvailableToReadBytes` its comparison: they differ once a counter has
wrapped, and the model keeps the difference.

### SyncQueue and MessageFifo

Each transaction call loads the other side's counter once and stores its own
at most once, so a call is one action. Copies are actions between them, so the copies
of both sides interleave with the calls in every way. `wSeen` and `rSeen` are what the
writer's and reader's loads of the other's counter return: a store reaches the other side in
an action of its own (`ReadPtrReachesWriter`, `WritePtrReachesReader`), which
models acquire loads that return an old value.
`read(data, n)` and `write(data, n)` are the sequence begin, copy, commit, which is
among the behaviours.

The client keeps to the header's protocol: it copies before it commits and does
not commit more than its transaction holds. Both flavors accept a commit of fewer.

`WriterReattaches` and `ReaderReattaches` are a side that dies and another that attaches in
its place with `resetPointers` false. A writer that is killed in a `memcpy` leaves anything in
the slots of its open transaction, which is why the ring is arbitrary there afterwards.

`MessageFifo` knows a sequence of messages and the two clients' copies
and nothing about memory. `ImplementsFifo` maps `SyncQueue` to it: the queue is the ring
between the two counters.

### UnsyncQueue

Messages are numbered, so a slot shows which message it holds, and a copy into
a slot takes two actions between which the slot is `Torn`. The writer never looks at
a reader. Each reader has a counter of its own and the value of `mWritePtr` it sees. The ring
that a reader copies from is always the newest: this is the case the code has to
survive, since a reader that sees old counters and new bytes misses an overwrite.
`WriterRestart` is a writer that dies, or gives up its transaction, and is attached again
without resetting the counters.

### EventFlag

`word` is a set of bits. `wake` is the `atomic_fetch_or` (`Wake`) and the system call
(`FutexWake`); `wait` is `waitHelper`'s first `atomic_fetch_and` (`FetchAnd`), the system
call (`FutexWait`), and the second `atomic_fetch_and` (`Collect`), with the loop of
`wait` around it when the caller asked to retry. The kernel compares the word and
queues the sleeper in one step. Time is not counted: a call that has a timeout may find
that it has passed wherever the loop or the kernel looks (`TimesOutInLoop`,
`TimesOutAsleep`), or that the kernel refuses the timeout, which is what
`addNanosecondsToCurrentTime` makes of a negative one (`TimeoutRefused`). `Interrupted` and `WokenSpuriously` are what a futex may also do.
`Dies` is only part of `CrashSpec`.

### BlockingQueue

`writeBlocking` and `readBlocking` are the same code with the sides exchanged, so one
set of actions serves both. `EventFlag` is instantiated with the two sides as its
threads. What `SyncQueue` establishes about a transfer is used here: a `write` or
`read` of `n` messages is an atomic attempt whose commit is its only visible store. What is
kept is that an attempt decides with an old view of the other side: `unseen[p]` messages (or
room) of the other side have not reached `p`. They reach it in steps of `Reaches`; an
atomic read-modify-write of the flag word also brings everything the other side did
before its own last one (`SeesPublished`), which is what the code's use of the word orders.
Only the default notifications are modelled, where the bit that a side waits for is the one
the other side sends.

### GrantorLayout and AidlDescriptor

Operators only, one for each piece of arithmetic or cast, with the widths of the code as
constants (`SizeModulus`, `IntModulus`). `CanMap`, `MapOffset`, `InPage` and `MapLength` are
`mapGrantorDescr`; the last three are what `unmapGrantorDescr` computes again.
`GrantorsInOneFile` and `GrantorsWithBuffer` are the two layouts that constructors make. The
layout of a HIDL descriptor is made by `MQDescriptor` in another library; it is taken to be
the one of the AIDL shim, which the shim's code follows, without the shim's check of
sizes. Files are an identity and a size, and a descriptor that `dup` or
`ashmem_create_region` could not give is `Bad`, which the code carries on with.

### QueueLifecycle

`space` is the address space, page by page; `opened` counts file descriptors; `queue[q]` is a
queue object with its pointers, descriptor and the temporary shim of an AIDL
attachment. A constructor is one action as far as `initMemory` (`Create`, `AttachHidl`,
`AttachAidl`, and the ways they fail), and `initMemory` one action per grantor
(`AllocateReadPtr`, `MapGrantorDescr`), so that constructors and destructors of two threads interleave in
one address space, where a page that one has unmapped may be what the other is
given. `InitMemoryFails` is the error path, at any grantor; `ResetFaults` is the store that
resets the counters hitting a region mapped read-only, and `CreateAborts` the check in
`alignToWordBoundary`: either ends the process. `SendHidl`, `DupeDesc` and `UnsafeHidlToAidl`
put a descriptor under way. `MalformParcel` and `MalformHidl` change a field of
it as the tests of bad configurations do, and `Protect` takes the right to write from the
region, as `tests/aidl/default/TestAidlMsgQ.cpp` 64 does. `origin` is a history variable: it
says whether a queue's descriptor is as the library made it.

### AttachReset

`initMemory` stores zero to `mReadPtr` and then to `mWritePtr` while a peer may be between any two
of its steps. `SyncQueue` and `UnsyncQueue` take a transaction call as one step because nobody else stores
its counter; here a commit is two, the load and the store, and only counters and the sizes
of transactions are kept. Messages are lost, of course; the question is whether the
counters recover. The comment at `MQB` 1182-1183, "there will be no stores to mReadPtr from a
different thread", does not hold in this situation.

`synchronized` is the flavor, chosen in `Init`. Both counters of a synchronized queue are shared, so an
attachment at either end resets both under the other. In an unsynchronized queue the read counter is a heap
object of the reader's own (`MQB` 604): an attachment at the writer's end leaves it alone, and one more
reader (`AnotherReaderAttaches`) resets the write counter under the writer and the other
readers, of which the module follows one.

## 3. The runs

| Run | Configuration | Result |
|---|---|---|
| `sync_queue` | 3 slots of 2 bytes, requests of 0 to 4, 2 message values, 3 laps | `TypeOK`, `NoOverflow`, `NoSharedSlot`, `AvailabilityHolds` and the refinement `ImplementsFifo` hold |
| `sync_counter_wrap` | 2 slots of 1 byte, counter of 3 bits, writer passes the largest value | `NoOverflow` is violated |
| `get_slot_range` | 2 slots of 1 byte | `GetSlotIsNullOutOfRange` is violated |
| `unsync_safety` | 2 readers, 2 slots of 2 bytes, 4 messages | `TypeOK`, `NothingOlder`, `QuietReadIsIntact`, `ReaderOnlyAdvances` hold |
| `unsync_catch_up` | 2 polling readers, the same ring | `ReaderCatchesUp` holds |
| `unsync_intact` | 1 reader, 5 messages | `SuccessfulReadIsIntact` is violated |
| `event_flag` | 3 threads of which one only wakes, 2 bits, fair | `TypeOK`, `NoLostWake`, `NoBitsLost`, `WaiterIsServed` hold |
| `event_flag_dead_waker` | a mortal waker, a waiter, a waker that goes on, fair | `WaiterIsServed` is violated |
| `blocking_calls` | capacity 6; writes of 2, 4, 8, reads of 4, 6; fair | `TypeOK`, `NoStrandedSleeper`, `NoMutualWait`, `CallReturns` hold |
| `queue_setup` | one object that creates and one that attaches, 3 constructions; page of 8 bytes, `size_t` of 7 bits | `TypeOK`, `PointersReachTheirGrantors`, `GrantorsApart`, `NoFdLeak`, `SidesShareMemory`, `NoQueueFromFailedConversion`, `PagesAreReturned` hold |
| `setup_leak` | the same | `NothingLeaked` is violated |
| `reset_recovers` | both flavors; 2 slots of 2 bytes, 3 attachments; the reader polls | `TypeOK` and `Recovers` hold |

### The bounds, and why they are enough

- **Ring.** Three slots are the fewest with which a transaction can have a first and
  a second part of different lengths; two bytes per message keep bytes and
  messages apart. Requests go one beyond the ring (`MaxRequest`), where the code refuses them.
- **Laps.** `Horizon` stops the writer after three laps of the ring (two in the runs of the
  unsynchronized flavor): the arithmetic depends on a counter only modulo
  the ring and on the distance between counters, so later laps repeat. It is the
  bound that ends the state space.
- **Counters.** `PtrModulus` is 64, far beyond `Horizon`, in the runs where no counter
  wraps. The run about wrapping has a counter of 8 values and lets the writer pass it.
- **Messages.** Two values tell a message from another one in the synchronized queue;
  in the unsynchronized one the value is the message's number.
- **Readers.** Readers share nothing; the second one is there to show that, and for the properties that
  speak about all of them.
- **Event flag.** With three threads two wakers can race over a sleeper and two
  waiters over a bit; with two bits masks overlap in part. One thread (`Notifiers`) never
  waits: with three that do, the liveness check does not end in reasonable time.
- **Blocking calls.** Transfers of one, two and three units of two messages over a ring of three units. A read of 4
  fits the ring together with any write, exactly so with the write of 4 (4 + 4 = 6 + 2). A read of 6 fits together with the
  write of 2 only. So the run has pairs on both sides of the condition, and states in which the two sides
  wait for each other. The write of 8 exceeds the ring.
- **Machine.** `queue_setup` runs on a machine scaled down with its proportions kept: a word of 2
  bytes, a page of 4 words, an `int` of 6 bits and a `size_t` of 7, so that requests reach the
  limits of each: the largest ring that can be mapped, one too large for `INT_MAX - kPageSize`, for an AIDL
  offset, for word alignment, and for `SIZE_MAX / sizeof(T)`.
- **Process.** 10 pages (`NumPages`) are what two queues with a flag and a ring of one page need, so
  pages are used again and the larger rings find no room; 8 file descriptors (`FdLimit`) run out in an AIDL
  attachment to a queue with a supplied buffer while both descriptors are under way; 2 files
  (`NumFiles`) at a time. `MaxMade` lets three queues be constructed. `NoneUnderWay` makes a new queue wait until no descriptor is
  under way, and `NoneMalformed` lets one field be changed, before anything is
  attached; these two only keep the state space small.
- **Attachments.** Three, so that both ends can attach at the same time, and one of them, or
  another reader, again while the other recovers. `Horizon` is three times the ring.

`CHECK_DEADLOCK` is off in the two configurations of `QueueLifecycle` only: there the bound on
constructions ends every behaviour. In every other module some process can always go on.

### Fairness

- `UnsyncQueue!PollingSpec`: a reader that is in a read goes on, calls again after it
  has returned (that is what polling means), and a store to `mWritePtr` is seen in the end. The writer
  is under no obligation.
- `EventFlag!FairSpec`: a thread that is runnable inside a call runs. Nobody has to call
  `wake`, no timeout has to pass, and no signal has to arrive. `CrashSpec` adds that
  the surviving notifiers call `wake` again and again, which makes its counterexample stronger.
- `BlockingQueue!FairSpec`: a side that is runnable in a call runs, stores become
  visible, and each side makes proper blocking calls again and again. The last is
  an assumption about clients: a writer cannot return from a full queue nobody reads. No timeout has to pass. Nothing is
  assumed of the counts: `CallReturns` itself makes the exception of two sides that have too little for either, again
  and again or for good, which is what the code allows (`NoMutualWait`).
- `AttachReset!Spec`: the reader polls with `beginRead`, a store that is due is made, and stores
  become visible. Neither the writer nor an attaching process is under an obligation to begin anything.

All of it is weak fairness of a scheduler that does not starve a thread.

### What the violations show

Four runs refute what a comment in the code says, and the fifth what the destructor shows was
meant; each is a `finding` in `PROJECT.json`.

1. `sync_counter_wrap`. The comment on `commitWrite` calls overflow of the counter legal.
   It is for `beginRead` and `commitRead`, which subtract. But `availableToReadBytes`
   answers 0 when the write counter is the smaller, so between the two wraps the
   synchronized writer is offered the whole ring and laps the reader. (A 64-bit
   counter of bytes takes decades of full speed to get there from zero. The model says what
   the code does, not how soon.)
2. `get_slot_range`. `getSlot(N)` of a transaction of `N` messages returns an address;
   the comment promises `nullptr`.
3. `unsync_intact`. A read that succeeds can return messages that are partly or wholly
   overwritten: the writer stores before it commits, and `commitRead` compares committed
   counters. What does hold is `NothingOlder` and `QuietReadIsIntact`.
4. `event_flag_dead_waker`. A waker that dies between setting the bit and the system call
   leaves a set bit and a sleeper, and every later `wake` of that bit sees it set and
   skips the system call.
5. `setup_leak`. When the flag's word cannot be mapped, `initMemory` unmaps the ring with the
   grantor of the flag (`MQB` 644). The address is then usually not that of a page and `munmap` fails, or
   the length is the flag's; the ring stays mapped in whole or in part. `PagesAreReturned` shows,
   of every step that makes a queue lose its pointers but the end of the process, that
   nothing else is leaked and that no other queue's pages go with it, as long as the flag's extent is
   the library's. If a descriptor arrives with a larger one, the same `munmap` takes pages beyond the ring:
   with two creators, one attachment, 10 file descriptors and a change of the flag's extent to 20, TLC
   finds a state in which the pointers of another queue of the process lead to unmapped pages. That is
   why some theorems about the lifecycle assume `FlagExtentKept` (section 4). `OnlyFlagsLeak` proves that
   there is no leak at all where nobody asks for a flag.

One more difference was met in modelling and has no run: `EventFlag.h` 67-68 documents
`BAD_VALUE` for a `wake` of no bits, and the code returns `NO_ERROR`, as
`EventFlag!Wake` does.

## 4. The proofs

TLAPS proves the following for every value of the constants that the assumptions
`RingAssumption`, `SyncAssumption`, `UnsyncAssumption`, `AttachAssumption`, `EventFlagAssumption`,
`BlockingAssumption`, `LayoutAssumption` and `LifecycleAssumption` admit. TLC evaluates each of them in a
run. They say of what kind the constants are and, in `LayoutAssumption`, how the sizes of a machine are
related: a page is a whole number of words, `size_t` is wider than `int` and a whole number
of pages, and the two counters and a flag fit a page.

Every invariant and every action property of the passing runs is stated by a theorem.

| Theorem | States | Hypothesis |
|---|---|---|
| `SyncQueue`: `TypeCorrect`, `NeverOverflows`, `NeverShares`, `AvailabilityKept`, `Refinement` | `TypeOK`, `NoOverflow`, `NoSharedSlot`, `AvailabilityHolds`, `ImplementsFifo` | `NoCounterWrap` |
| `UnsyncQueue`: `UnsyncTypeCorrect`, `NothingOlderIsRead`, `ReadersOnlyAdvance`, `QuietReadsAreIntact` | `TypeOK`, `NothingOlder`, `ReaderOnlyAdvances`, `QuietReadIsIntact` | `NoCounterWrap` |
| `EventFlag`: `TypeCorrect`, `NoWakeIsLost`, `BitsAreNotLost` | `TypeOK`, `NoLostWake`, `NoBitsLost` | |
| `BlockingQueue`: `BlockingTypeCorrect`, `BlockingUsesEventFlag`, `NoSideSleepsStranded`, `NeverMutuallyWaiting` | `TypeOK`, `Spec => EF!Spec`, `NoStrandedSleeper`, `NoMutualWait` | |
| `AttachReset`: `AttachTypeCorrect` | `TypeOK` | `FarFromWrap` |
| `QueueLifecycle`: `LifecycleTypeCorrect`, `DescriptorsAreAccountedFor`, `FailedConversionsMakeNoQueue`, `PartsOfValidQueuesApart` | `TypeOK`, `NoFdLeak`, `NoQueueFromFailedConversion`, `GrantorsApart` | |
| `QueueLifecycle`: `PointersReach`, `PagesReturned`, `SidesShare` | `PointersReachTheirGrantors`, `PagesAreReturned`, `SidesShareMemory` | `FlagExtentKept` |
| `QueueLifecycle`: `OnlyFlagsLeak` | `NothingLeaked` | `~FlagsAsked` |

### The hypotheses

- `NoCounterWrap` and `FarFromWrap`: the write counter stays below its modulus (and, with resets, a ring
  below it), and no request is so large that its bytes wrap. `sync_counter_wrap` shows that the first is
  needed. A 64-bit counter of bytes satisfies it for decades.
- `FlagExtentKept`: if flags are used, nobody changes the extent in a flag's grantor. Every other change of
  a descriptor under way is allowed. The counterexample in section 3 shows that this too is needed.
- `~FlagsAsked`: no constructor is asked for a flag. `setup_leak` is the violation otherwise.

### The arguments

**RingBuffer_proofs.** Lemmas about the arithmetic: a counter of whole messages is
`SizeofT` times their number (`MessageCounter`); what the two `available` functions
return (`Availability`); the i-th slot of a transaction from `ptr` on is the slot of
message `ptr \div SizeofT + i`, modulo the ring, through `getSlot` (`TransactionSlots`) and through
the copies (`CopySlots`); the regions are regions of the ring (`TransactionType`). The three modules
that use the ring share them.

**SyncQueue_proofs.** The properties are not inductive: that the writer does not lap the reader says
nothing about the old counter the writer will decide with next. The inductive invariant `IInv` counts in
messages and has three parts.

- The counters and what is seen of them are ordered:
  `wSeen <= readPtr <= rSeen <= writePtr <= wSeen + QuantumCount`.
- An open transaction of the writer is for messages from `writePtr` on, up to
  `wSeen + QuantumCount`; the reader's for messages from `readPtr` on, up to `rSeen`.
- What the clients have copied agrees with the ring, index by index.

`Invariance` proves it. `TypeCorrect`, `NeverOverflows` and `NeverShares` follow from
it, with slots of two transactions disjoint because their message numbers lie in one window of
`QuantumCount` (`ModInjective`). `AvailabilityKept` is the action property.
`Refinement` proves that `SyncQueue` implements `MessageFifo`, action by action. A side that is
attached again stutters, or empties the client's copies: the arbitrary slots are those of
the dead writer's transaction, and these hold no unread message (`WriterReattachesKeeps`).

**UnsyncQueue_proofs.** The writer looks at nobody, so nothing orders it with a reader's copies. What is
invariant instead is the fate of a message: the slot of a committed message `m` holds `m`, or it is torn and a store
beyond `m + QuantumCount` has begun, or it holds a later message of the same slot whose store has begun
(`Holds`). `touched` only grows, so what was true of a slot when it was copied stays
true of the copy (`HoldsLater`). `NothingOlder` is this for the copies in `rBuf`. For `QuietReadIsIntact`, a
`commitRead` that succeeds has found the write counter at most a ring ahead of the read counter; if no store
beyond that counter has begun, the other two alternatives are excluded.

**EventFlag_proofs.** For any number of threads and bits. `TypeOK /\ NoLostWake` is inductive: `TypeOK`
records that a thread about to sleep found none of its bits in the value it will compare, which is what makes going to
sleep safe, and a `wake` that skips the system call adds no bit to the word. `BitsAreNotLost` follows
the two `atomic_fetch_and` of `wait`: whatever they take out of the word is what the call returns.

**BlockingQueue_proofs.** A count of the writer and one of the reader fit the queue together when, for some unit `g`
that divides all counts, they do not exceed the capacity by more than `g` (`Fits`). The code checks each count by
itself, so clients may use others, and a ring can then be too full for the writer and too empty for the reader at once.
`NeverMutuallyWaiting` says that it happens with no others: the invariant is that `filled` is a multiple of every unit.
If the writer lacks room, `Capacity - filled < w`, and the reader lacks messages, `filled < r`, then `filled <= r - g`,
so `w + r > Capacity + g`.
`NoSideSleepsStranded` does not look at the counts. Every step of a blocking call is a step of
`EventFlag` or leaves the flag alone (`FlagStep`), so `EventFlag_proofs`, instantiated with the two sides as threads, gives
`NoLostWake` inside the queue (`SameFlag`, `FlagInvStep`). The invariant `BInv` adds
what ties the word to the ring: while its notification is not set, a side has seen all that the other
has notified it of (`Informed`); after an attempt in vain there is too little for it, or its notification is
set, or the other side is about to set it (`ShortOfCount`).

**AttachReset_proofs.** A commit that loaded the counter before a reset stores the old counter plus its
transaction after it. The invariant bounds this: `readPtr` and the reader's open transaction together
stay below `Far`, because the transaction was within what was written when it was
opened, and a reset only lowers the sum.

**AidlDescriptor_proofs.** Lemmas about layout and descriptors, for every page, word and integer width: the
parts of a layout do not overlap, are word-aligned and lie inside their files, also in the
second layout with a supplied buffer (`PartsApart`, `LaidOutFacts`); page offset and length computed at `mmap` and again at `munmap` agree
(`PageFacts`); a grantor that goes through AIDL's signed fields comes back as it was (`AidlRoundTrip`); what `dup`
leaves of a handle when descriptors run out (`DupFacts`).

**QueueLifecycle_proofs.** Five invariants, each used by the later ones.

- `BaseInv`: types; the pointers of an object are set in the order of its grantors as far as its stage says;
  and the count of open file descriptors is that of the places where one is kept. This is `TypeOK` and `NoFdLeak`. Every
  `dup`, move and close is a bijection between such places.
- `FailedInv`: what a conversion that failed leaves has a quantum of 0, and so has every copy and cast of it. `initMemory`
  refuses such a descriptor, which is `NoQueueFromFailedConversion`.
- `SpaceInv`: adds that a mapped pointer leads to its grantor's pages and that no two pointers share a page
  (`MapsApart`). It gives `PointersReach` and `PagesReturned`, and
  needs `FlagExtentKept` in one place, the error path of `initMemory`.
- `OriginInv`: a descriptor as the library made it is laid out by one of the two layouts, and two that hold
  the same file are copies of each other, up to what `dup` could not give. It is kept through any chain
  of `SendHidl`, `DupeDesc`, attachment and conversion.
- `AttachedInv`: what the pointers of a queue object say of its descriptor: that each could be mapped, and where the
  read counter is.

The last two give `PartsOfValidQueuesApart`, and with `SpaceInv` `SidesShare`. `OnlyFlagsLeak` adds to `SpaceInv`
that every mapped page is held by a pointer. TLC has checked these invariants on the instance of
`queue_setup`, and `NothingLeaked` on one without flags.

### Only model-checked

The four liveness properties: `ReaderCatchesUp`, `WaiterIsServed`, `CallReturns` and `Recovers`. They rest on
fairness, and so on `ENABLED`, which the prover does not reason about. The slots that `RingBuffer` computes, the
layouts and the casts are written without recursion, so nothing else was out of its reach.

## 5. What is not modelled

- `include/fmq/MessageQueue.h` and `FmqInternal.cpp`, which keep no state, and the tests, fuzzer and
  benchmarks, which are clients.
- The HIDL `MQDescriptor`, of another library, beyond what is said of it above.
- `native_handle_create` failing in the copy of a descriptor: `AidlMQDescriptorShim.h` 155-162 uses the
  result untested. (Where it is tested, 118-121, its failure is `AttachWithoutMemory`: a queue with nothing mapped. The
  grantors that the code leaves in that queue's descriptor are left out.) Nor `dupeDesc` or a conversion of a descriptor whose handle is null, which
  they dereference. A client that checks `isValid()` first makes neither call.
- A queue destroyed while another thread of its process is inside one of its calls, which
  C++ leaves to the client.
- A custom `readNotification`, `writeNotification` or a caller's `EventFlag` in the blocking calls. The
  two sides may then use bits that do not match; what holds of them is up to the caller.
- Several writers, or several readers of a synchronized queue: the code's comments exclude them.
- Compiler and hardware reordering beyond old acquire loads. Relaxed loads are only
  made of a counter that the same side stores.
- Calls of `EventFlag` with a bad pointer: a null `efState`, which `waitHelper` refuses like an empty mask, and an
  error of `FUTEX_WAKE_BITSET`, which the kernel reports for nothing else.
- A ring that is not a whole number of messages. The library lays out none (`GrantorsApart`, for every request and
  machine), but a descriptor from elsewhere may say so, and `CanMap` lets it through, as the code does (`MQB` 1321).
- Time: how long a timeout is, in `wait` and in the blocking calls.
- Death of a process inside a blocking call. The code does nothing about it: a side that
  dies between its commit and its `wake` leaves the other asleep until the next transfer or its timeout.
- Requests near 2^64, where `beginRead`'s `nMessages * sizeof(T)` wraps (`MQB` 1199). `RingBuffer` has the
  product with its width, but `NoCounterWrap` keeps the runs and proofs away from it.

## 6. Plan

Done: every module of section 2, with its runs, and a theorem for every invariant and action
property of the runs. What is left would add to it:

1. An abstract specification of the unsynchronized flavor, a log that readers fall behind in, with
   `UnsyncQueue` shown to implement it.
2. The steps of the liveness arguments that are safety properties: in `AttachReset`, that the
   distance of the counters is legal again after the reader's next `beginRead` once nobody attaches; in `EventFlag`, that
   a waiter with a set bit has a step that serves it.
