----------------------------- MODULE AttachReset -----------------------------
(***************************************************************************)
(* A process attaches to a queue with resetPointers, which is the default, *)
(* while others are using it.  The attachment stores zero to mReadPtr and  *)
(* then to mWritePtr; it takes no lock, and the others may be between any  *)
(* two of their steps, the load and the store of a commit included.        *)
(*                                                                         *)
(* In a synchronized queue both counters are shared.  In an unsynchronized *)
(* one each reader has a read counter of its own, which no other process   *)
(* can reset; the module follows one reader, and other readers come and    *)
(* reset the write counter under it and under the writer.                  *)
(*                                                                         *)
(* SyncQueue and UnsyncQueue rely on each counter being stored by one side *)
(* only, which does not hold here.  So a call that stores is two steps in  *)
(* this module, and only the counters and the sizes of the open            *)
(* transactions are kept.                                                  *)
(***************************************************************************)
EXTENDS RingBuffer

CONSTANTS
  MaxRequest,  \* largest nMessages a client asks for
  Horizon,     \* bound: the writer stops before its counter passes this value
  MaxAttach    \* bound: attachments that reset

ASSUME AttachAssumption ==
  /\ {MaxRequest, Horizon, MaxAttach} \subseteq Nat
  /\ Horizon < PtrModulus /\ MaxRequest * SizeofT < PtrModulus

VARIABLES
  synchronized,  \* the flavor of the queue
  writePtr,  \* *mWritePtr
  readPtr,   \* *mReadPtr, of the reader
  seen,      \* by side, the value of the other's counter that its loads return
  tx,        \* by side, its MemTransaction
  at,        \* by side, "idle", "storing" a counter it has computed, or "attaching"
  computed,  \* by side, the counter value it is about to store
  attached   \* number of attachments so far, for the bound

vars == <<synchronized, writePtr, readPtr, seen, tx, at, computed, attached>>

Sides == {"writer", "reader"}

Init ==
  /\ synchronized \in BOOLEAN
  /\ writePtr = 0 /\ readPtr = 0
  /\ seen = [p \in Sides |-> 0]
  /\ tx = [p \in Sides |-> NullTx]
  /\ at = [p \in Sides |-> "idle"]
  /\ computed = [p \in Sides |-> 0]
  /\ attached = 0

-----------------------------------------------------------------------------

\* Side p has loaded its counter, and goes on to store ptr to it.
WillStore(p, ptr) ==
  /\ at' = [at EXCEPT ![p] = "storing"]
  /\ computed' = [computed EXCEPT ![p] = ptr]

Stored(p) ==
  /\ at[p] = "storing"
  /\ at' = [at EXCEPT ![p] = "idle"]
  /\ computed' = [computed EXCEPT ![p] = 0]
  /\ UNCHANGED <<synchronized, seen, tx, attached>>

BeginWrite(n) ==
  /\ at["writer"] = "idle"
  /\ tx' = [tx EXCEPT !["writer"] = BeginWriteTx(synchronized, writePtr, seen["writer"], n, @)]
  /\ UNCHANGED <<synchronized, writePtr, readPtr, seen, at, computed, attached>>

CommitWrite(k) ==
  /\ at["writer"] = "idle"
  /\ k <= TxLength(tx["writer"])
  /\ writePtr + k * SizeofT <= Horizon
  /\ WillStore("writer", CommitWritePtr(writePtr, k))
  /\ tx' = [tx EXCEPT !["writer"] = NullTx]
  /\ UNCHANGED <<synchronized, writePtr, readPtr, seen, attached>>

StoreWritePtr ==
  /\ Stored("writer")
  /\ writePtr' = computed["writer"]
  /\ UNCHANGED readPtr

\* Only a reader that is overrun stores here.
BeginRead(n) ==
  LET w == seen["reader"]
  IN /\ at["reader"] = "idle"
     /\ tx' = [tx EXCEPT !["reader"] = BeginReadTx(w, readPtr, n)]
     /\ IF BeginReadPtr(w, readPtr) = readPtr
          THEN UNCHANGED <<at, computed>>
          ELSE WillStore("reader", BeginReadPtr(w, readPtr))
     /\ UNCHANGED <<synchronized, writePtr, readPtr, seen, attached>>

CommitRead(k) ==
  /\ at["reader"] = "idle"
  /\ k <= TxLength(tx["reader"])
  /\ WillStore("reader", CommitReadPtr(seen["reader"], readPtr, k))
  /\ tx' = [tx EXCEPT !["reader"] = NullTx]
  /\ UNCHANGED <<synchronized, writePtr, readPtr, seen, attached>>

StoreReadPtr ==
  /\ Stored("reader")
  /\ readPtr' = computed["reader"]
  /\ UNCHANGED writePtr

\* A process attaches at end p, perhaps after the death of the one there.
AttachStoresReadPtr(p) ==
  /\ attached < MaxAttach /\ attached' = attached + 1
  /\ readPtr' = IF synchronized \/ p = "reader" THEN 0 ELSE readPtr
  /\ tx' = [tx EXCEPT ![p] = NullTx]
  /\ at' = [at EXCEPT ![p] = "attaching"]
  /\ computed' = [computed EXCEPT ![p] = 0]
  /\ seen' = IF p = "writer" THEN [seen EXCEPT ![p] = 0] ELSE seen
  /\ UNCHANGED <<synchronized, writePtr>>

AttachStoresWritePtr(p) ==
  /\ at[p] = "attaching"
  /\ writePtr' = 0
  /\ at' = [at EXCEPT ![p] = "idle"]
  /\ seen' = IF p = "reader" THEN [seen EXCEPT ![p] = 0] ELSE seen
  /\ UNCHANGED <<synchronized, readPtr, tx, computed, attached>>

\* One more process reads from an unsynchronized queue.  Its read counter is its own.
AnotherReaderAttaches ==
  /\ ~synchronized
  /\ attached < MaxAttach /\ attached' = attached + 1
  /\ writePtr' = 0
  /\ UNCHANGED <<synchronized, readPtr, seen, tx, at, computed>>

\* Loads of the other side's counter begin to return the latest store.
Reaches(p) ==
  /\ seen' = [seen EXCEPT ![p] = IF p = "writer" THEN readPtr ELSE writePtr]
  /\ UNCHANGED <<synchronized, writePtr, readPtr, tx, at, computed, attached>>

-----------------------------------------------------------------------------

Requests == 1 .. MaxRequest

Next ==
  \/ \E n \in Requests : BeginWrite(n) \/ CommitWrite(n) \/ BeginRead(n) \/ CommitRead(n)
  \/ StoreWritePtr
  \/ StoreReadPtr
  \/ AnotherReaderAttaches
  \/ \E p \in Sides : AttachStoresReadPtr(p) \/ AttachStoresWritePtr(p) \/ Reaches(p)

\* The reader polls, a step that has been begun is ended, and a store is seen
\* by the other side in the end.  The writer need not write.
Spec ==
  /\ Init /\ [][Next]_vars
  /\ WF_vars(\E n \in Requests : BeginRead(n))
  /\ WF_vars(StoreWritePtr) /\ WF_vars(StoreReadPtr)
  /\ \A p \in Sides : WF_vars(AttachStoresWritePtr(p)) /\ WF_vars(Reaches(p))

-----------------------------------------------------------------------------
(* Properties *)

\* Counters hold whole messages whoever has stored them, and no transaction is
\* larger than the ring.
TypeOK ==
  /\ synchronized \in BOOLEAN
  /\ {writePtr, readPtr} \cup {seen[p] : p \in Sides} \cup {computed[p] : p \in Sides}
       \subseteq {ptr \in 0 .. PtrModulus - 1 : IsAligned(ptr)}
  /\ \A p \in Sides : TxLength(tx[p]) \in 0 .. QuantumCount
  /\ at \in [Sides -> {"idle", "storing", "attaching"}]
  /\ attached \in 0 .. MaxAttach

\* A reset that loses against a commit, or a commit that loses against a reset,
\* may leave a counter ahead of the other or too far behind it, so that the
\* calls report a corrupted queue.  Once the attachments are over, a reader
\* that polls brings the counters back in order for good: its own is not ahead,
\* and in a synchronized queue not more than the ring behind.
InOrder == IF synchronized THEN ~Overrun(writePtr, readPtr) ELSE readPtr <= writePtr

Recovers == <>[]InOrder

=============================================================================
