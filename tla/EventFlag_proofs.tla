--------------------------- MODULE EventFlag_proofs ---------------------------
(***************************************************************************)
(* EventFlag, for any set of threads and of bits: TypeOK and NoLostWake are*)
(* invariants of Spec.  Together they are inductive: a thread falls asleep *)
(* only while the word is what its atomic_fetch_and left, which has none   *)
(* of its bits, and a bit that is set later comes with a waker on its way  *)
(* to the system call that wakes every sleeper on that bit.                *)
(***************************************************************************)
EXTENDS EventFlag, TLAPS

IInv == TypeOK /\ NoLostWake

LEMMA Initially == Init => IInv
  BY DEF Init, IInv, TypeOK, NoLostWake, Pending, CallRecords, NoCall, Places, Statuses

\* The parts of TypeOK that a step which leaves `expected` alone has to keep.
LEMMA ReturnTyped ==
  ASSUME TypeOK, NEW t \in Threads, NEW st \in Statuses, NEW B \in SUBSET Bits,
         Return(t, st, B), B # {} => st = "NO_ERROR"
  PROVE  /\ at' \in [Threads -> Places]
         /\ call' \in [Threads -> CallRecords]
         /\ status' \in [Threads -> Statuses]
         /\ efState' \in [Threads -> SUBSET Bits]
         /\ \A u \in Threads : efState'[u] # {} => status'[u] = "NO_ERROR"
         /\ at'[t] = "idle"
         /\ \A u \in Threads \ {t} : at'[u] = at[u] /\ call'[u] = call[u]
  BY DEF TypeOK, Return, Goto, NoCall, CallRecords, Places

LEMMA EnterTyped ==
  ASSUME TypeOK, NEW t \in Threads, NEW place \in Places, NEW c \in CallRecords,
         Enter(t, place, c)
  PROVE  /\ at' \in [Threads -> Places]
         /\ call' \in [Threads -> CallRecords]
         /\ status' \in [Threads -> Statuses]
         /\ efState' \in [Threads -> SUBSET Bits]
         /\ \A u \in Threads : efState'[u] # {} => status'[u] = "NO_ERROR"
         /\ at'[t] = place /\ call'[t] = c
         /\ \A u \in Threads \ {t} : at'[u] = at[u] /\ call'[u] = call[u]
  BY DEF TypeOK, Enter, Goto, Statuses

\* Every way out of waitHelper without bits: round the loop, or back.
LEMMA TryAgainTyped ==
  ASSUME TypeOK, NEW t \in Threads, NEW st \in Statuses, TryAgain(t, st)
  PROVE  /\ at' \in [Threads -> Places]
         /\ call' \in [Threads -> CallRecords]
         /\ status' \in [Threads -> Statuses]
         /\ efState' \in [Threads -> SUBSET Bits]
         /\ \A u \in Threads : efState'[u] # {} => status'[u] = "NO_ERROR"
         /\ at'[t] \in {"idle", "check"}
         /\ \A u \in Threads \ {t} : at'[u] = at[u] /\ call'[u] = call[u]
<1>1. CASE call[t].retry
  BY <1>1 DEF TryAgain, TypeOK, Goto, Places
<1>2. CASE ~call[t].retry
  <2>1. Return(t, st, {})
    BY <1>2 DEF TryAgain
  <2> QED
    BY <2>1, ReturnTyped
<1> QED
  BY <1>1, <1>2

\* What keeps NoLostWake when only thread t moves, not to sleep and not away
\* from its FUTEX_WAKE_BITSET call, and bits only leave the word.
LEMMA WakePending ==
  ASSUME IInv, NEW t \in Threads,
         at[t] # "futexWake", at'[t] # "asleep",
         word' \subseteq word,
         \A u \in Threads \ {t} : at'[u] = at[u] /\ call'[u] = call[u]
  PROVE  NoLostWake'
  BY DEF IInv, NoLostWake, Pending

LEMMA WakeStep ==
  ASSUME IInv, NEW t \in Threads, NEW B \in SUBSET Bits, Wake(t, B)
  PROVE  IInv'
<1>1. CASE B \subseteq word
  <2>1. Return(t, "NO_ERROR", {}) /\ word' = word /\ UNCHANGED expected
    BY <1>1 DEF Wake
  <2>2. at[t] = "idle"
    BY DEF Wake
  <2>3. TypeOK'
    BY <2>1, ReturnTyped DEF IInv, TypeOK, Statuses
  <2>4. NoLostWake'
    BY <2>1, <2>2, ReturnTyped, WakePending DEF IInv, Statuses
  <2> QED
    BY <2>3, <2>4 DEF IInv
<1>2. CASE ~(B \subseteq word)
  <2>1. Enter(t, "futexWake", WakeCall(B)) /\ word' = word \cup B /\ UNCHANGED expected
    BY <1>2 DEF Wake
  <2>2. at[t] = "idle" /\ WakeCall(B) \in CallRecords /\ WakeCall(B).mask = B
    BY DEF Wake, WakeCall, CallRecords
  <2>3. TypeOK'
    BY <2>1, <2>2, EnterTyped DEF IInv, TypeOK, Places
  <2>4. at'[t] = "futexWake" /\ call'[t].mask = B
    BY <2>1, <2>2, EnterTyped DEF IInv, Places
  <2>5. \A u \in Threads \ {t} : at'[u] = at[u] /\ call'[u] = call[u]
    BY <2>1, <2>2, EnterTyped DEF IInv, Places
  <2>6. NoLostWake'
    BY <2>1, <2>2, <2>4, <2>5 DEF IInv, NoLostWake, Pending
  <2> QED
    BY <2>3, <2>6 DEF IInv
<1> QED
  BY <1>1, <1>2

LEMMA FutexWakeStep ==
  ASSUME IInv, NEW t \in Threads, FutexWake(t)
  PROVE  IInv'
<1>1. TypeOK'
  BY DEF IInv, TypeOK, FutexWake, Places, NoCall, CallRecords
<1>2. NoLostWake'
  <2> SUFFICES ASSUME NEW s \in Threads, at'[s] = "asleep", NEW b \in Pending(s)'
      PROVE  \E u \in Threads : at'[u] = "futexWake" /\ b \in call'[u].mask
    BY DEF NoLostWake
  <2>1. s # t /\ at[s] = "asleep" /\ s \notin Sleepers(call[t].mask)
    BY DEF FutexWake, IInv, TypeOK
  <2>2. b \in Pending(s) /\ b \notin call[t].mask
    BY <2>1 DEF FutexWake, IInv, TypeOK, Pending, Sleepers
  <2>3. PICK u \in Threads : at[u] = "futexWake" /\ b \in call[u].mask
    BY <2>1, <2>2 DEF IInv, NoLostWake
  <2>4. u # t /\ at'[u] = at[u] /\ call'[u] = call[u]
    BY <2>2, <2>3 DEF FutexWake, IInv, TypeOK, Sleepers
  <2> QED
    BY <2>3, <2>4
<1> QED
  BY <1>1, <1>2 DEF IInv

LEMMA WaitStep ==
  ASSUME IInv, NEW t \in Threads, NEW B \in SUBSET Bits,
         NEW timed \in BOOLEAN, NEW retry \in BOOLEAN, Wait(t, B, timed, retry)
  PROVE  IInv'
<1>1. /\ at[t] = "idle" /\ UNCHANGED <<word, expected>>
      /\ Enter(t, "check", WaitCall(B, timed, retry))
  BY DEF Wait
<1>2. WaitCall(B, timed, retry) \in CallRecords
  BY DEF WaitCall, CallRecords
<1>3. TypeOK'
  BY <1>1, <1>2, EnterTyped DEF IInv, TypeOK, Places
<1>4. NoLostWake'
  BY <1>1, <1>2, EnterTyped, WakePending DEF IInv, Places
<1> QED
  BY <1>3, <1>4 DEF IInv

\* A wait() that ends without having looked at the word.
LEMMA GiveUpStep ==
  ASSUME IInv, NEW t \in Threads, TimesOutInLoop(t) \/ TimesOutAsleep(t) \/ HasNoBits(t)
  PROVE  IInv'
<1>1. PICK st \in {"TIMED_OUT", "BAD_VALUE"} :
        at[t] # "futexWake" /\ Return(t, st, {}) /\ UNCHANGED <<word, expected>>
  BY DEF TimesOutInLoop, TimesOutAsleep, HasNoBits
<1>2. TypeOK'
  BY <1>1, ReturnTyped DEF IInv, TypeOK, Statuses
<1>3. NoLostWake'
  BY <1>1, ReturnTyped, WakePending DEF IInv, Statuses
<1> QED
  BY <1>2, <1>3 DEF IInv

LEMMA TimeoutRefusedStep ==
  ASSUME IInv, NEW t \in Threads, TimeoutRefused(t)
  PROVE  IInv'
<1>1. /\ at[t] = "futexWait" /\ word' = word /\ expected' = [expected EXCEPT ![t] = {}]
      /\ Return(t, "EINVAL", {})
  BY DEF TimeoutRefused
<1>2. TypeOK'
  BY <1>1, ReturnTyped DEF IInv, TypeOK, Statuses
<1>3. NoLostWake'
  BY <1>1, ReturnTyped, WakePending DEF IInv, Statuses
<1> QED
  BY <1>2, <1>3 DEF IInv

LEMMA WokenSpuriouslyStep ==
  ASSUME IInv, NEW t \in Threads, WokenSpuriously(t)
  PROVE  IInv'
<1>1. /\ at[t] = "asleep" /\ at' = [at EXCEPT ![t] = "woken"]
      /\ UNCHANGED <<word, call, expected, status, efState>>
  BY DEF WokenSpuriously, Goto
<1>2. TypeOK'
  BY <1>1 DEF IInv, TypeOK, Places
<1>3. NoLostWake'
  BY <1>1, WakePending DEF IInv, TypeOK
<1> QED
  BY <1>2, <1>3 DEF IInv

LEMMA TakeStep ==
  ASSUME IInv, NEW t \in Threads, at[t] # "futexWake", Take(t), UNCHANGED expected
  PROVE  IInv'
<1>1. Pending(t) \in SUBSET Bits /\ word' \subseteq word
  BY DEF IInv, TypeOK, Pending, Take
<1>2. Return(t, "NO_ERROR", Pending(t))
  BY DEF Take
<1>3. TypeOK'
  BY <1>1, <1>2, ReturnTyped DEF IInv, TypeOK, Statuses
<1>4. NoLostWake'
  BY <1>1, <1>2, ReturnTyped, WakePending DEF IInv, Statuses
<1> QED
  BY <1>3, <1>4 DEF IInv

LEMMA FetchAndStep ==
  ASSUME IInv, NEW t \in Threads, FetchAnd(t)
  PROVE  IInv'
<1>1. CASE Pending(t) # {}
  BY <1>1, TakeStep DEF FetchAnd
<1>2. CASE Pending(t) = {}
  <2>1. /\ at[t] = "check" /\ at' = [at EXCEPT ![t] = "futexWait"]
        /\ expected' = [expected EXCEPT ![t] = word]
        /\ UNCHANGED <<word, call, status, efState>>
    BY <1>2 DEF FetchAnd, Goto
  <2>2. TypeOK'
    BY <1>2, <2>1 DEF IInv, TypeOK, Pending, Places
  <2>3. NoLostWake'
    BY <2>1, WakePending DEF IInv, TypeOK
  <2> QED
    BY <2>2, <2>3 DEF IInv
<1> QED
  BY <1>1, <1>2

\* A thread falls asleep only while none of its bits is set.
LEMMA FutexWaitStep ==
  ASSUME IInv, NEW t \in Threads, FutexWait(t)
  PROVE  IInv'
<1>1. at[t] = "futexWait" /\ word' = word /\ expected' = [expected EXCEPT ![t] = {}]
  BY DEF FutexWait
<1>2. CASE word = expected[t]
  <2>1. at' = [at EXCEPT ![t] = "asleep"] /\ UNCHANGED <<call, status, efState>>
    BY <1>2 DEF FutexWait, Goto
  <2>2. TypeOK'
    BY <1>1, <2>1 DEF IInv, TypeOK, Places
  <2>3. Pending(t) = {}
    BY <1>1, <1>2 DEF IInv, TypeOK, Pending
  <2>4. NoLostWake'
    BY <1>1, <2>1, <2>3 DEF IInv, TypeOK, NoLostWake, Pending
  <2> QED
    BY <2>2, <2>4 DEF IInv
<1>3. CASE word # expected[t]
  <2>1. TryAgain(t, "EAGAIN")
    BY <1>3 DEF FutexWait
  <2>2. TypeOK'
    BY <1>1, <2>1, TryAgainTyped DEF IInv, TypeOK, Statuses
  <2>3. NoLostWake'
    BY <1>1, <2>1, TryAgainTyped, WakePending DEF IInv, Statuses
  <2> QED
    BY <2>2, <2>3 DEF IInv
<1> QED
  BY <1>2, <1>3

LEMMA TryAgainStep ==
  ASSUME IInv, NEW t \in Threads, at[t] # "futexWake", TryAgain(t, "EINTR"),
         UNCHANGED <<word, expected>>
  PROVE  IInv'
<1>1. TypeOK'
  BY TryAgainTyped DEF IInv, TypeOK, Statuses
<1>2. NoLostWake'
  BY TryAgainTyped, WakePending DEF IInv, Statuses
<1> QED
  BY <1>1, <1>2 DEF IInv

LEMMA CollectStep ==
  ASSUME IInv, NEW t \in Threads, Collect(t)
  PROVE  IInv'
<1>1. CASE Pending(t) # {}
  BY <1>1, TakeStep DEF Collect
<1>2. CASE Pending(t) = {}
  BY <1>2, TryAgainStep DEF Collect
<1> QED
  BY <1>1, <1>2

LEMMA Step == IInv /\ [Next]_vars => IInv'
<1> SUFFICES ASSUME IInv, [Next]_vars PROVE IInv'
  OBVIOUS
<1>1. ASSUME NEW t \in Threads, Calls(t) PROVE IInv'
  BY <1>1, WakeStep, WaitStep DEF Calls
<1>2. ASSUME NEW t \in Threads, Proceeds(t) PROVE IInv'
  BY <1>2, FutexWakeStep, GiveUpStep, FetchAndStep, FutexWaitStep, CollectStep DEF Proceeds
<1>3. ASSUME NEW t \in Threads, Interrupted(t) PROVE IInv'
  BY <1>3, TryAgainStep DEF Interrupted
<1>4. ASSUME NEW t \in Threads, Interruptions(t) PROVE IInv'
  BY <1>3, <1>4, GiveUpStep, TimeoutRefusedStep, WokenSpuriouslyStep DEF Interruptions
<1>5. CASE UNCHANGED vars
  BY <1>5 DEF vars, IInv, TypeOK, NoLostWake, Pending
<1> QED
  BY <1>1, <1>2, <1>4, <1>5 DEF Next

\* Nothing is assumed of the numbers of threads and bits, of who calls what,
\* or of fairness: no wake-up of wait() is ever lost as long as no process dies
\* inside wake().
THEOREM NoWakeIsLost == Spec => []NoLostWake
<1>1. IInv => NoLostWake
  BY DEF IInv
<1> QED
  BY Initially, Step, <1>1, PTL DEF Spec

\* The type invariant, and what goes with it: a wait() that fails reports no
\* bits, and one that goes to sleep expects none of its bits in the word.
THEOREM TypeCorrect == Spec => []TypeOK
<1>1. IInv => TypeOK
  BY DEF IInv
<1> QED
  BY Initially, Step, <1>1, PTL DEF Spec

-----------------------------------------------------------------------------
(* Bits leave the word in one place only *)

BitsKept ==
  \/ word \subseteq word'
  \/ \E t \in Threads : /\ at[t] # "idle" /\ at'[t] = "idle"
                       /\ status'[t] = "NO_ERROR"
                       /\ efState'[t] = word \ word'

\* What one atomic_fetch_and clears is what its wait() reports.
LEMMA TakeKeepsBits ==
  ASSUME TypeOK, NEW t \in Threads, at[t] # "idle", Take(t)
  PROVE  BitsKept
  BY DEF Take, Pending, Return, Goto, TypeOK, BitsKept

LEMMA StepKeepsBits ==
  ASSUME TypeOK, NEW t \in Threads, Calls(t) \/ Proceeds(t) \/ Interruptions(t)
  PROVE  BitsKept
<1>1. CASE Calls(t)
  BY <1>1 DEF Calls, Wake, Wait, BitsKept
<1>2. CASE FutexWake(t) \/ HasNoBits(t) \/ FutexWait(t) \/ Interruptions(t)
  BY <1>2 DEF FutexWake, HasNoBits, FutexWait, Interruptions, TimesOutInLoop, TimeoutRefused,
              TimesOutAsleep, Interrupted, WokenSpuriously, BitsKept
<1>3. CASE FetchAnd(t)
  BY <1>3, TakeKeepsBits DEF FetchAnd, BitsKept
<1>4. CASE Collect(t)
  BY <1>4, TakeKeepsBits DEF Collect, BitsKept
<1> QED
  BY <1>1, <1>2, <1>3, <1>4 DEF Proceeds

\* No step of any thread, whatever fails in it, clears a bit of the word unless
\* a wait() succeeds in that step and reports exactly the bits it cleared.
THEOREM BitsAreNotLost == Spec => NoBitsLost
<1>1. TypeOK /\ [Next]_vars => [BitsKept]_vars
  BY StepKeepsBits DEF Next
<1>2. [BitsKept]_vars => [word \subseteq word' \/
     \E t \in Threads :
       /\ at[t] # "idle" /\ at'[t] = "idle"
       /\ status'[t] = "NO_ERROR"
       /\ efState'[t] = word \ word']_vars
  BY DEF BitsKept
<1> QED
  BY TypeCorrect, <1>1, <1>2, PTL DEF Spec, NoBitsLost

=============================================================================
