---------------------------- MODULE BlockingQueue ----------------------------
(***************************************************************************)
(* writeBlocking() and readBlocking(): a synchronized queue and an         *)
(* EventFlag together.  Each side tries its transfer, and while there is   *)
(* not enough room (messages) it waits for the other side's notification:  *)
(* FMQ_NOT_FULL for the writer, FMQ_NOT_EMPTY for the reader.  A side that *)
(* has transferred wakes the other.                                        *)
(*                                                                         *)
(* The two functions are the same code with the sides exchanged, so they   *)
(* are one set of actions over Sides.  SyncQueue shows what a write() or a *)
(* read() does to the ring; here one is an atomic attempt on the number of *)
(* messages, which is enough because its commit is its only store.         *)
(*                                                                         *)
(* What a side can see of the other's transfers: unseen[p] of them have    *)
(* not reached p.  They reach p by and by, and at the latest when p does   *)
(* an atomic read-modify-write of the flag word, which orders it after     *)
(* everything the other side did before its own last one.                  *)
(***************************************************************************)
EXTENDS Integers, FiniteSets

CONSTANTS
  Capacity,    \* getQuantumCount()
  WriteSizes,  \* counts the writer calls writeBlocking with
  ReadSizes    \* counts the reader calls readBlocking with

ASSUME BlockingAssumption ==
  /\ Capacity \in Nat \ {0}
  /\ WriteSizes \subseteq Nat \ {0}
  /\ ReadSizes \subseteq Nat \ {0}

VARIABLES
  filled,   \* messages in the queue
  unseen,   \* by side, messages or room the other side made that it cannot see
  pc,       \* by side, where it is in its blocking call
  count,    \* by side, the count of its call
  timed,    \* by side, whether its call has a timeout
  result,   \* by side, what its last call returned
  word, at, call, expected, status, efState   \* the EventFlag

queueVars == <<filled, unseen>>
callVars == <<pc, count, timed, result>>
flagVars == <<word, at, call, expected, status, efState>>
vars == <<queueVars, callVars, flagVars>>

Sides == {"writer", "reader"}

Other(p) == IF p = "writer" THEN "reader" ELSE "writer"

FMQ_NOT_FULL == "FMQ_NOT_FULL"
FMQ_NOT_EMPTY == "FMQ_NOT_EMPTY"

\* The notification a side waits for; it sends the one the other waits for.
Awaited(p) == IF p = "writer" THEN FMQ_NOT_FULL ELSE FMQ_NOT_EMPTY

EF == INSTANCE EventFlag
        WITH Threads <- Sides, Bits <- {FMQ_NOT_FULL, FMQ_NOT_EMPTY},
             Notifiers <- {}, Mortal <- {}

Init ==
  /\ filled = 0
  /\ unseen = [p \in Sides |-> 0]
  /\ pc = [p \in Sides |-> "out"]
  /\ count = [p \in Sides |-> 0]
  /\ timed = [p \in Sides |-> FALSE]
  /\ result = [p \in Sides |-> FALSE]
  /\ EF!Init

-----------------------------------------------------------------------------
(* The queue as the blocking calls see it *)

\* What p could transfer, and what it knows of that.
Available(p) == IF p = "writer" THEN Capacity - filled ELSE filled

\* Slip for the runs to notice: one more than there is.
KnownAvailableOneMore(p) == Available(p) - unseen[p] + 1

KnownAvailable(p) == Available(p) - unseen[p]

\* Slip: one message is committed, whatever the count.
TransferOne(p) ==
  /\ filled' = IF p = "writer" THEN filled + 1 ELSE filled - 1
  /\ unseen' = [unseen EXCEPT ![Other(p)] = @ + 1]

Transfer(p) ==
  /\ filled' = IF p = "writer" THEN filled + count[p] ELSE filled - count[p]
  /\ unseen' = [unseen EXCEPT ![Other(p)] = @ + count[p]]

\* A commit or release that the other side has not yet published with its
\* atomic_fetch_or may stay unseen beyond p's own access to the word.
Unpublished(p) == IF pc[p] = "notify" THEN count[p] ELSE 0

SeesPublished(p) ==
  /\ unseen' = [unseen EXCEPT ![p] = IF @ < Unpublished(Other(p)) THEN @
                                     ELSE Unpublished(Other(p))]
  /\ UNCHANGED filled

-----------------------------------------------------------------------------
(* One blocking call of side p *)

Goto(p, place) == pc' = [pc EXCEPT ![p] = place] /\ UNCHANGED <<count, timed, result>>

Return(p, ok) ==
  /\ pc' = [pc EXCEPT ![p] = "out"]
  /\ count' = [count EXCEPT ![p] = 0]
  /\ timed' = [timed EXCEPT ![p] = FALSE]
  /\ result' = [result EXCEPT ![p] = ok]

Sizes(p) == IF p = "writer" THEN WriteSizes ELSE ReadSizes

\* configured: there is an EventFlag, and the awaited notification is not zero.
Call(p, n, hasTimeout, configured) ==
  /\ pc[p] = "out"
  /\ IF ~configured \/ n > Capacity
       THEN Return(p, FALSE)
       ELSE /\ pc' = [pc EXCEPT ![p] = "firstAttempt"]
            /\ count' = [count EXCEPT ![p] = n]
            /\ timed' = [timed EXCEPT ![p] = hasTimeout]
            /\ result' = [result EXCEPT ![p] = FALSE]
  /\ UNCHANGED <<queueVars, flagVars>>

FirstAttempt(p) ==
  /\ pc[p] = "firstAttempt"
  /\ IF KnownAvailable(p) >= count[p]
       THEN Transfer(p) /\ Goto(p, "notify")
       ELSE Goto(p, "loop") /\ UNCHANGED queueVars
  /\ UNCHANGED flagVars

\* The loop finds its time used up, and attempts once more.
LastAttempt(p) ==
  /\ pc[p] = "loop" /\ timed[p]
  /\ IF KnownAvailable(p) >= count[p]
       THEN Transfer(p) /\ Goto(p, "notify")
       ELSE Return(p, FALSE) /\ UNCHANGED queueVars
  /\ UNCHANGED flagVars

StartWait(p) ==
  /\ pc[p] = "loop"
  /\ EF!Wait(p, {Awaited(p)}, timed[p], TRUE)
  /\ Goto(p, "wait")
  /\ UNCHANGED queueVars

\* Inside evFlag->wait() and evFlag->wake(): the atomic accesses to the word.
FlagAccess(p) ==
  /\ EF!FetchAnd(p) \/ EF!Collect(p)
  /\ SeesPublished(p)
  /\ UNCHANGED callVars

FlagCall(p) ==
  /\ EF!FutexWait(p) \/ EF!FutexWake(p)
  /\ UNCHANGED <<queueVars, callVars>>

FlagInterrupts(p) ==
  /\ EF!Interruptions(p)
  /\ UNCHANGED <<queueVars, callVars>>

\* Slip: after a wake-up the side sleeps again without another attempt.
AfterWaitNoAttempt(p) ==
  /\ pc[p] = "wait" /\ at[p] = "idle"
  /\ IF status[p] = "NO_ERROR" THEN Goto(p, "loop") ELSE Return(p, FALSE)
  /\ UNCHANGED <<queueVars, flagVars>>

AfterWait(p) ==
  /\ pc[p] = "wait" /\ at[p] = "idle"
  /\ IF status[p] = "NO_ERROR"
       THEN IF Awaited(p) \in efState[p] /\ KnownAvailable(p) >= count[p]
              THEN Transfer(p) /\ Goto(p, "notify")
              ELSE Goto(p, "loop") /\ UNCHANGED queueVars
       ELSE Return(p, FALSE) /\ UNCHANGED queueVars
  /\ UNCHANGED flagVars

\* Slip: a side that has transferred returns without a notification.
ReturnUnnotified(p) ==
  /\ pc[p] = "notify"
  /\ Return(p, TRUE)
  /\ UNCHANGED <<queueVars, flagVars>>

Notify(p) ==
  /\ pc[p] = "notify"
  /\ EF!Wake(p, {Awaited(Other(p))})
  /\ Goto(p, "wake")
  /\ SeesPublished(p)

AfterWake(p) ==
  /\ pc[p] = "wake" /\ at[p] = "idle"
  /\ Return(p, TRUE)
  /\ UNCHANGED <<queueVars, flagVars>>

\* Loads of the other side's counter begin to return a later value.
Reaches(p, k) ==
  /\ k < unseen[p]
  /\ unseen' = [unseen EXCEPT ![p] = k]
  /\ UNCHANGED <<filled, callVars, flagVars>>

-----------------------------------------------------------------------------

Calls(p) ==
  \E n \in Sizes(p), hasTimeout, configured \in BOOLEAN : Call(p, n, hasTimeout, configured)

Proceeds(p) ==
  \/ FirstAttempt(p) \/ LastAttempt(p) \/ StartWait(p) \/ FlagAccess(p)
  \/ FlagCall(p) \/ AfterWait(p) \/ Notify(p) \/ AfterWake(p)

Next ==
  \E p \in Sides :
    Calls(p) \/ Proceeds(p) \/ FlagInterrupts(p) \/ \E k \in 0 .. Capacity : Reaches(p, k)

Spec == Init /\ [][Next]_vars

\* A side that is runnable in a call goes on, it makes a proper call again when
\* one has returned, and a store is seen by the other side in the end.
FairSpec ==
  /\ Spec
  /\ \A p \in Sides : /\ WF_vars(Proceeds(p))
                      /\ WF_vars(\E n \in Sizes(p), hasTimeout \in BOOLEAN :
                                   Call(p, n, hasTimeout, TRUE))
                      /\ WF_vars(\E k \in 0 .. Capacity : Reaches(p, k))

-----------------------------------------------------------------------------
(* Properties *)

Places == {"out", "firstAttempt", "loop", "wait", "notify", "wake"}

\* The queue holds between 0 and Capacity messages, a side is never wrong about
\* it in its own favor, and the flag is called only from inside a blocking call.
TypeOK ==
  /\ filled \in 0 .. Capacity
  /\ pc \in [Sides -> Places]
  /\ count \in [Sides -> 0 .. Capacity]
  /\ timed \in [Sides -> BOOLEAN]
  /\ result \in [Sides -> BOOLEAN]
  /\ EF!TypeOK
  /\ \A p \in Sides :
       /\ unseen[p] \in 0 .. Available(p)
       /\ pc[p] \notin {"wait", "wake"} => at[p] = "idle"

\* p has transferred and has not yet woken the other side.
OwesWake(p) == pc[p] = "notify" \/ at[p] = "futexWake"

\* A side never sleeps while there is enough for its call, unless the other
\* side is on its way to wake it: the commit, the flag bit, the futex and the
\* two attempts fit together without a window.
NoStrandedSleeper ==
  \A p \in Sides :
    at[p] = "asleep" /\ Available(p) >= count[p] => OwesWake(Other(p))

\* Each side waits for the other, or is in its loop around the wait, with too
\* little for either.
MutualWait ==
  \A p \in Sides : pc[p] \in {"firstAttempt", "loop", "wait"} /\ Available(p) < count[p]

\* The units in which messages are moved: every count is a multiple of them.
Units == {g \in 1 .. Capacity : \A n \in WriteSizes \cup ReadSizes : n % g = 0}

\* A count w of the writer and a count r of the reader fit the queue together.
Fits(w, r) == \E g \in Units : w + r <= Capacity + g

\* The code only checks that each count fits the queue by itself, so the two sides
\* can wait for each other; but never with counts that fit the queue together.
NoMutualWait == MutualWait => ~Fits(count["writer"], count["reader"])

\* As long as the other side goes on making calls, every blocking call returns.
\* Only one for which there is too little for good need not, and only if the calls
\* of the other side, even those that time out, have too little as well.
CallReturns ==
  \A p \in Sides : \/ []<>(pc[p] = "out")
                  \/ /\ <>[](Available(p) < count[p])
                     /\ []<>MutualWait

=============================================================================
