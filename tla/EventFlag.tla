------------------------------ MODULE EventFlag ------------------------------
(***************************************************************************)
(* EventFlag: threads of any process that maps the word set bits of it and *)
(* wait for bits of it.  The word is an atomic of 32 bits; here it is the  *)
(* set of its bits.                                                        *)
(*                                                                         *)
(* wake() is an atomic_fetch_or and then, unless every bit was set         *)
(* already, a FUTEX_WAKE_BITSET system call.  wait() is an                 *)
(* atomic_fetch_and that takes the bits it finds and then, if there were   *)
(* none, a FUTEX_WAIT_BITSET that sleeps only if the word is still as the  *)
(* atomic_fetch_and left it.  Anything may happen between two of these     *)
(* steps.  The futex itself (the kernel) is external: it compares and goes *)
(* to sleep in one step, and a sleeper leaves when a wake call matches its *)
(* bits, when its timeout passes, when a signal arrives, or spuriously.    *)
(*                                                                         *)
(* Time is not counted: a wait that has a timeout may find it has passed   *)
(* wherever the code or the kernel looks.                                  *)
(***************************************************************************)
EXTENDS Integers, FiniteSets

CONSTANTS
  Threads,
  Bits,       \* the bits of the word that clients use
  Notifiers,  \* threads that only call wake()
  Mortal      \* threads whose process may die in wake()

ASSUME EventFlagAssumption == Notifiers \subseteq Threads /\ Mortal \subseteq Threads

VARIABLES
  word,      \* *mEfWordPtr: the set of bits that are set
  at,        \* by thread, the next step of its call
  call,      \* by thread, the call it is in
  expected,  \* by thread, efWord, the value its FUTEX_WAIT_BITSET compares
  status,    \* by thread, the status_t of its last call
  efState    \* by thread, *efState, the bits that its last wait() returned

vars == <<word, at, call, expected, status, efState>>

\* "futexWake": in wake(), about to call FUTEX_WAKE_BITSET.  "check": about to
\* take bits with the first atomic_fetch_and of waitHelper.  "futexWait": about
\* to call FUTEX_WAIT_BITSET.  "woken": FUTEX_WAIT_BITSET has returned 0.
Places == {"idle", "futexWake", "check", "futexWait", "asleep", "woken", "dead"}

Statuses == {"NO_ERROR", "BAD_VALUE", "EAGAIN", "EINTR", "TIMED_OUT", "EINVAL"}

WakeCall(B) == [op |-> "wake", mask |-> B, timed |-> FALSE, retry |-> FALSE]

WaitCall(B, timed, retry) == [op |-> "wait", mask |-> B, timed |-> timed, retry |-> retry]

NoCall == [op |-> "none", mask |-> {}, timed |-> FALSE, retry |-> FALSE]

Init ==
  /\ word = {}
  /\ at = [t \in Threads |-> "idle"]
  /\ call = [t \in Threads |-> NoCall]
  /\ expected = [t \in Threads |-> {}]
  /\ status = [t \in Threads |-> "NO_ERROR"]
  /\ efState = [t \in Threads |-> {}]

Goto(t, place) == at' = [at EXCEPT ![t] = place]

\* A call ends with status st, and a wait() with the bits B in *efState.
Return(t, st, B) ==
  /\ Goto(t, "idle")
  /\ call' = [call EXCEPT ![t] = NoCall]
  /\ status' = [status EXCEPT ![t] = st]
  /\ efState' = [efState EXCEPT ![t] = B]

\* A thread enters a call; what the last one returned is the caller's business.
Enter(t, place, c) ==
  /\ Goto(t, place)
  /\ call' = [call EXCEPT ![t] = c]
  /\ status' = [status EXCEPT ![t] = "NO_ERROR"]
  /\ efState' = [efState EXCEPT ![t] = {}]

-----------------------------------------------------------------------------
(* wake(bitmask) *)

\* Slip for the runs to notice: the system call is skipped as soon as one of
\* the bits was set before.
WakeUnlessAnyBitSet(t, B) ==
  /\ at[t] = "idle"
  /\ word' = word \cup B
  /\ IF B = {} \/ B \cap word # {} THEN Return(t, "NO_ERROR", {})
                                   ELSE Enter(t, "futexWake", WakeCall(B))
  /\ UNCHANGED expected

Wake(t, B) ==
  /\ at[t] = "idle"
  /\ word' = word \cup B
  /\ IF B \subseteq word THEN Return(t, "NO_ERROR", {})
                         ELSE Enter(t, "futexWake", WakeCall(B))
  /\ UNCHANGED expected

Sleepers(B) == {t \in Threads : at[t] = "asleep" /\ call[t].mask \cap B # {}}

\* FUTEX_WAKE_BITSET for INT_MAX threads.  It fails only for a bad address or an
\* empty mask, which it is not called with.
FutexWake(t) ==
  /\ at[t] = "futexWake"
  /\ at' = [u \in Threads |-> IF u = t THEN "idle"
                              ELSE IF u \in Sleepers(call[t].mask) THEN "woken"
                              ELSE at[u]]
  /\ call' = [call EXCEPT ![t] = NoCall]
  /\ UNCHANGED <<word, expected, status, efState>>

-----------------------------------------------------------------------------
(* wait(bitmask, efState, timeout, retry) *)

Wait(t, B, timed, retry) ==
  /\ at[t] = "idle"
  /\ Enter(t, "check", WaitCall(B, timed, retry))
  /\ UNCHANGED <<word, expected>>

\* EAGAIN and EINTR: with retry, wait() goes round its loop.
TryAgain(t, st) ==
  IF call[t].retry THEN Goto(t, "check") /\ UNCHANGED <<call, status, efState>>
                   ELSE Return(t, st, {})

\* The loop of wait() looks at the clock before each round.
TimesOutInLoop(t) ==
  /\ at[t] = "check" /\ call[t].timed /\ call[t].retry
  /\ Return(t, "TIMED_OUT", {})
  /\ UNCHANGED <<word, expected>>

\* waitHelper refuses an empty mask.  A null efState it refuses in the same way.
HasNoBits(t) ==
  /\ at[t] = "check" /\ call[t].mask = {}
  /\ Return(t, "BAD_VALUE", {})
  /\ UNCHANGED <<word, expected>>

Pending(t) == word \cap call[t].mask

\* atomic_fetch_and(~bitmask): the word loses the bits, the thread gets them.
Take(t) ==
  /\ word' = word \ call[t].mask
  /\ Return(t, "NO_ERROR", Pending(t))

FetchAnd(t) ==
  /\ at[t] = "check" /\ call[t].mask # {}
  /\ IF Pending(t) # {}
       THEN Take(t) /\ UNCHANGED expected
       ELSE /\ expected' = [expected EXCEPT ![t] = word]
            /\ Goto(t, "futexWait")
            /\ UNCHANGED <<word, call, status, efState>>

\* Slip: the thread goes to sleep whatever the word holds by now.
FutexWaitUnchecked(t) ==
  /\ at[t] = "futexWait"
  /\ Goto(t, "asleep")
  /\ expected' = [expected EXCEPT ![t] = {}]
  /\ UNCHANGED <<word, call, status, efState>>

FutexWait(t) ==
  /\ at[t] = "futexWait"
  /\ IF word = expected[t] THEN Goto(t, "asleep") /\ UNCHANGED <<call, status, efState>>
                           ELSE TryAgain(t, "EAGAIN")
  /\ expected' = [expected EXCEPT ![t] = {}]
  /\ UNCHANGED word

\* addNanosecondsToCurrentTime makes a negative tv_nsec of a negative timeout, and
\* tv_sec may overflow; the kernel refuses either before it compares the word.
TimeoutRefused(t) ==
  /\ at[t] = "futexWait" /\ call[t].timed
  /\ Return(t, "EINVAL", {})
  /\ expected' = [expected EXCEPT ![t] = {}]
  /\ UNCHANGED word

\* Slip: a wait that fails still reports the bits it sees.
TimesOutReportingBits(t) ==
  /\ at[t] = "asleep" /\ call[t].timed
  /\ Return(t, "TIMED_OUT", Pending(t))
  /\ UNCHANGED <<word, expected>>

TimesOutAsleep(t) ==
  /\ at[t] = "asleep" /\ call[t].timed
  /\ Return(t, "TIMED_OUT", {})
  /\ UNCHANGED <<word, expected>>

Interrupted(t) ==
  /\ at[t] = "asleep"
  /\ TryAgain(t, "EINTR")
  /\ UNCHANGED <<word, expected>>

\* The kernel may also report a wake-up that nobody meant for this futex.
WokenSpuriously(t) ==
  /\ at[t] = "asleep"
  /\ Goto(t, "woken")
  /\ UNCHANGED <<word, call, expected, status, efState>>

\* Slip: the bits are cleared, and the wait goes on.
CollectAndWaitOn(t) ==
  /\ at[t] = "woken"
  /\ word' = word \ call[t].mask
  /\ TryAgain(t, "EINTR")
  /\ UNCHANGED expected

\* The second atomic_fetch_and of waitHelper.  Another thread may have taken
\* the bits by now: a spurious wake-up.
Collect(t) ==
  /\ at[t] = "woken"
  /\ IF Pending(t) # {} THEN Take(t) ELSE TryAgain(t, "EINTR") /\ UNCHANGED word
  /\ UNCHANGED expected

-----------------------------------------------------------------------------

Calls(t) ==
  \E B \in SUBSET Bits :
    \/ Wake(t, B)
    \/ t \notin Notifiers /\ \E timed, retry \in BOOLEAN : Wait(t, B, timed, retry)

\* What a thread does on its own once it is in a call.
Proceeds(t) == FutexWake(t) \/ HasNoBits(t) \/ FetchAnd(t) \/ FutexWait(t) \/ Collect(t)

\* What happens to it.
Interruptions(t) ==
  \/ TimesOutInLoop(t) \/ TimeoutRefused(t) \/ TimesOutAsleep(t)
  \/ Interrupted(t) \/ WokenSpuriously(t)

Next == \E t \in Threads : Calls(t) \/ Proceeds(t) \/ Interruptions(t)

Spec == Init /\ [][Next]_vars

\* A thread that is runnable in a call runs in the end.
FairSpec == Spec /\ \A t \in Threads : WF_vars(Proceeds(t))

\* A process dies after it has set bits, before its FUTEX_WAKE_BITSET.
Dies(t) ==
  /\ at[t] = "futexWake"
  /\ Goto(t, "dead")
  /\ UNCHANGED <<word, call, expected, status, efState>>

\* A process may die; the other threads go on, and the notifiers call wake()
\* again and again.
CrashSpec ==
  /\ Init
  /\ [][Next \/ \E t \in Mortal : Dies(t)]_vars
  /\ \A t \in Threads : WF_vars(Proceeds(t))
  /\ \A t \in Notifiers \ Mortal : WF_vars(\E B \in SUBSET Bits \ {{}} : Wake(t, B))

-----------------------------------------------------------------------------
(* Properties *)

CallRecords ==
  [op : {"none", "wake", "wait"}, mask : SUBSET Bits, timed : BOOLEAN, retry : BOOLEAN]

\* Calls, bits and results are of their kinds; only a wait that succeeds
\* reports bits, and only a thread that found none of its bits goes to sleep.
TypeOK ==
  /\ word \subseteq Bits
  /\ at \in [Threads -> Places]
  /\ call \in [Threads -> CallRecords]
  /\ expected \in [Threads -> SUBSET Bits]
  /\ status \in [Threads -> Statuses]
  /\ efState \in [Threads -> SUBSET Bits]
  /\ \A t \in Threads :
       /\ efState[t] # {} => status[t] = "NO_ERROR"
       /\ at[t] = "futexWait" => expected[t] \cap call[t].mask = {}

\* If a thread sleeps although a bit it waits for is set, some thread has set
\* that bit and is still to make a FUTEX_WAKE_BITSET call that names it, even
\* though wake() leaves the call out when its bits are set already.
NoLostWake ==
  \A t \in Threads : at[t] = "asleep" =>
    \A b \in Pending(t) : \E u \in Threads : at[u] = "futexWake" /\ b \in call[u].mask

\* Bits leave the word only into the efState of one wait() that succeeds with
\* them: a timeout, a signal, a spurious wake-up or a retry loses none.
NoBitsLost ==
  [][word \subseteq word' \/
     \E t \in Threads :
       /\ at[t] # "idle" /\ at'[t] = "idle"
       /\ status'[t] = "NO_ERROR"
       /\ efState'[t] = word \ word']_vars

InWait(t) == at[t] \in {"check", "futexWait", "asleep", "woken"}

\* A thread that waits for a bit that stays set returns in the end.
WaiterIsServed ==
  \A t \in Threads, b \in Bits :
    (InWait(t) /\ b \in Pending(t)) ~> (~InWait(t) \/ b \notin word)

=============================================================================
