----------------------------- MODULE MessageFifo -----------------------------
(***************************************************************************)
(* What the kSynchronizedReadWrite flavor promises its one writer and its  *)
(* one reader: a first-in first-out queue of messages with a capacity.     *)
(* Shared memory, counters and memory regions do not appear here.          *)
(*                                                                         *)
(* outbox[i] is the i-th message the writer has placed in its open write   *)
(* transaction, inbox[i] the i-th message the reader has copied out of its *)
(* open read transaction (both count from 0, as slots of a MemTransaction  *)
(* do).  Nothing in outbox is in the queue before it is committed, and     *)
(* nothing in inbox has left the queue before the read is committed.       *)
(***************************************************************************)
EXTENDS Integers, Sequences

CONSTANTS Data, Capacity

VARIABLES queue, outbox, inbox

vars == <<queue, outbox, inbox>>

Empty == [i \in {} |-> {}]

Boxes == UNION {[I -> Data] : I \in SUBSET (0 .. Capacity - 1)}

Init == queue = <<>> /\ outbox = Empty /\ inbox = Empty

\* The writer opens, fills or gives up its transaction.
Stage == outbox' \in Boxes /\ UNCHANGED <<queue, inbox>>

\* The writer commits its first k messages.
Put(k) ==
  /\ 0 .. k - 1 \subseteq DOMAIN outbox
  /\ Len(queue) + k <= Capacity
  /\ queue' = queue \o [i \in 1 .. k |-> outbox[i - 1]]
  /\ outbox' = Empty
  /\ UNCHANGED inbox

\* The reader opens its transaction, or copies messages out of it.
Look ==
  /\ inbox' \in Boxes
  /\ \A i \in DOMAIN inbox' : i < Len(queue) /\ inbox'[i] = queue[i + 1]
  /\ UNCHANGED <<queue, outbox>>

\* The reader commits the read of the k oldest messages.
Take(k) ==
  /\ k <= Len(queue)
  /\ queue' = SubSeq(queue, k + 1, Len(queue))
  /\ inbox' = Empty
  /\ UNCHANGED outbox

Next == Stage \/ Look \/ \E k \in 0 .. Capacity : Put(k) \/ Take(k)

Spec == Init /\ [][Next]_vars

=============================================================================
