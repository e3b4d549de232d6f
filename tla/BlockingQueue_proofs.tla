------------------------- MODULE BlockingQueue_proofs -------------------------
(***************************************************************************)
(* BlockingQueue, for every capacity.                                      *)
(*                                                                         *)
(* The writer and the reader never wait for each other with counts that    *)
(* fit the queue together.  The argument is arithmetic: all transfers are  *)
(* whole, so the fill level stays a multiple of every unit of the counts,  *)
(* and a level too low for the reader by a whole unit leaves the writer    *)
(* room.                                                                   *)
(*                                                                         *)
(* For all counts, the queue uses its flag as an EventFlag, whose theorems *)
(* hold inside it through an instance, and no side sleeps on while there is*)
(* enough for it: after an attempt in vain there is too little, or its     *)
(* notification is set, or the other side is about to set it (BInv).       *)
(***************************************************************************)
EXTENDS BlockingQueue, TLAPS

Level(g) ==
  /\ filled \in Int /\ filled % g = 0
  /\ count \in [Sides -> Nat]
  /\ pc \in [Sides -> Places]
  /\ \A p \in Sides : pc[p] # "out" => count[p] \in Sizes(p)

LEMMA SidesTwo == "writer" \in Sides /\ "reader" \in Sides /\ "writer" # "reader"
  BY DEF Sides

LEMMA Multiples ==
  ASSUME NEW g \in Nat \ {0}, NEW x \in Int, NEW y \in Int, x % g = 0, y % g = 0
  PROVE  /\ (x + y) % g = 0 /\ (x - y) % g = 0
         /\ x < y => x <= y - g
<1>1. PICK a \in Int, b \in Int : x = a * g /\ y = b * g
  <2>1. x = (x \div g) * g /\ y = (y \div g) * g /\ x \div g \in Int /\ y \div g \in Int
    BY SMT
  <2> QED
    BY <2>1
<1>2. x + y = (a + b) * g /\ x - y = (a - b) * g /\ a + b \in Int /\ a - b \in Int
  BY <1>1, SMT
<1>3. \A k \in Int : (k * g) % g = 0
  BY SMT
<1>4. (x + y) % g = 0 /\ (x - y) % g = 0
  BY <1>2, <1>3, Zenon
<1>5. ASSUME x < y PROVE x <= y - g
  <2>1. a < b
    BY <1>1, <1>5, SMT
  <2>2. (a + 1) * g <= b * g
    BY <2>1, SMT
  <2>3. (a + 1) * g = a * g + g
    BY SMT
  <2> QED
    BY <1>1, <2>2, <2>3, SMT
<1> QED
  BY <1>4, <1>5

LEMMA UnitsArePositive == \A g \in Units : g \in Nat \ {0}
  BY DEF Units

LEMMA Initially ==
  ASSUME NEW g \in Units, Init
  PROVE  Level(g)
<1>1. 0 % g = 0
  <2> g \in Nat \ {0}
    BY UnitsArePositive
  <2> QED
    BY SMT
<1> QED
  BY <1>1 DEF Init, Level, Places

LEMMA SizesAreCounts ==
  ASSUME NEW g \in Units, NEW p \in Sides, NEW n \in Sizes(p)
  PROVE  n \in Nat /\ n % g = 0
  BY BlockingAssumption DEF Units, Sizes

\* A transfer moves a multiple of the unit.
LEMMA TransferLevel ==
  ASSUME NEW g \in Units, Level(g), NEW p \in Sides, pc[p] # "out", Transfer(p)
  PROVE  filled' \in Int /\ filled' % g = 0
<1>1. count[p] \in Nat /\ count[p] % g = 0
  BY SizesAreCounts DEF Level
<1>2. filled' = filled + count[p] \/ filled' = filled - count[p]
  BY DEF Transfer
<1> QED
  BY <1>1, <1>2, Multiples DEF Level, Units

LEMMA GotoLevel ==
  ASSUME NEW g, Level(g), NEW p \in Sides, NEW place \in Places, pc[p] # "out",
         Goto(p, place), filled' \in Int /\ filled' % g = 0
  PROVE  Level(g)'
  BY DEF Level, Goto, Sizes

LEMMA ReturnLevel ==
  ASSUME NEW g, Level(g), NEW p \in Sides, NEW ok, Return(p, ok), filled' = filled
  PROVE  Level(g)'
  BY DEF Level, Return, Places, Sizes

LEMMA CallLevel ==
  ASSUME NEW g, Level(g), NEW p \in Sides, NEW n \in Sizes(p),
         NEW hasTimeout, NEW configured, Call(p, n, hasTimeout, configured)
  PROVE  Level(g)'
<1>1. filled' = filled
  BY DEF Call, queueVars
<1>2. n \in Nat
  BY BlockingAssumption DEF Sizes
<1>3. CASE ~configured \/ n > Capacity
  BY <1>1, <1>3, ReturnLevel DEF Call
<1>4. CASE ~(~configured \/ n > Capacity)
  BY <1>1, <1>2, <1>4 DEF Call, Level, Places, Sizes
<1> QED
  BY <1>3, <1>4

LEMMA Step ==
  ASSUME NEW g \in Units, Level(g), [Next]_vars
  PROVE  Level(g)'
<1>0. filled \in Int /\ filled % g = 0
  BY DEF Level
<1>1. ASSUME NEW p \in Sides, Calls(p) PROVE Level(g)'
  BY <1>1, CallLevel DEF Calls
<1>2. ASSUME NEW p \in Sides, FirstAttempt(p) PROVE Level(g)'
  <2>1. pc[p] # "out" /\ {"notify", "loop"} \subseteq Places
    BY <1>2 DEF FirstAttempt, Places
  <2> QED
    BY <1>0, <1>2, <2>1, TransferLevel, GotoLevel DEF FirstAttempt, queueVars
<1>3. ASSUME NEW p \in Sides, LastAttempt(p) PROVE Level(g)'
  <2>1. pc[p] # "out" /\ "notify" \in Places
    BY <1>3 DEF LastAttempt, Places
  <2> QED
    BY <1>0, <1>3, <2>1, TransferLevel, GotoLevel, ReturnLevel DEF LastAttempt, queueVars
<1>4. ASSUME NEW p \in Sides, StartWait(p) PROVE Level(g)'
  <2>1. pc[p] # "out" /\ "wait" \in Places /\ filled' = filled /\ Goto(p, "wait")
    BY <1>4 DEF StartWait, Places, queueVars
  <2> QED
    BY <1>0, <2>1, GotoLevel
<1>5. ASSUME NEW p \in Sides, AfterWait(p) PROVE Level(g)'
  <2>1. pc[p] # "out" /\ {"notify", "loop"} \subseteq Places
    BY <1>5 DEF AfterWait, Places
  <2> QED
    BY <1>0, <1>5, <2>1, TransferLevel, GotoLevel, ReturnLevel DEF AfterWait, queueVars
<1>6. ASSUME NEW p \in Sides, Notify(p) PROVE Level(g)'
  <2>1. pc[p] # "out" /\ "wake" \in Places /\ filled' = filled /\ Goto(p, "wake")
    BY <1>6 DEF Notify, SeesPublished, Places
  <2> QED
    BY <1>0, <2>1, GotoLevel
<1>7. ASSUME NEW p \in Sides, AfterWake(p) PROVE Level(g)'
  BY <1>7, ReturnLevel DEF AfterWake, queueVars
<1>8. ASSUME UNCHANGED <<filled, callVars>> PROVE Level(g)'
  BY <1>8 DEF callVars, Level, Sizes
<1>9. ASSUME NEW p \in Sides,
             FlagAccess(p) \/ FlagCall(p) \/ FlagInterrupts(p)
               \/ \E k \in 0 .. Capacity : Reaches(p, k)
      PROVE Level(g)'
  BY <1>8, <1>9
    DEF FlagAccess, FlagCall, FlagInterrupts, Reaches, SeesPublished, queueVars
<1>10. CASE UNCHANGED vars
  BY <1>8, <1>10 DEF vars, queueVars
<1> QED
  BY <1>1, <1>2, <1>3, <1>4, <1>5, <1>6, <1>7, <1>9, <1>10 DEF Next, Proceeds

\* A level too low for the reader's count is too low by a unit, which with the
\* room the writer lacks makes the two counts exceed Capacity by more than it.
LEMMA NoMutualWaitAtLevel ==
  ASSUME \A g \in Units : Level(g)
  PROVE  NoMutualWait
<1> DEFINE w == count["writer"]
           r == count["reader"]
<1> SUFFICES ASSUME MutualWait, NEW g \in Units, w + r <= Capacity + g
    PROVE FALSE
  BY DEF NoMutualWait, Fits
<1>1. w \in WriteSizes /\ r \in ReadSizes
  BY SidesTwo DEF MutualWait, Level, Sizes
<1>2. filled < r /\ Capacity - filled < w
  BY SidesTwo DEF MutualWait, Available
<1>3. g \in Nat \ {0} /\ w \in Nat /\ r \in Nat /\ r % g = 0 /\ filled \in Int /\ filled % g = 0
      /\ Capacity \in Nat
  <2>1. filled \in Int /\ filled % g = 0
    BY DEF Level
  <2>2. g \in Nat \ {0} /\ r % g = 0
    BY <1>1, UnitsArePositive DEF Units
  <2> QED
    BY <1>1, <2>1, <2>2, BlockingAssumption
<1>4. filled <= r - g
  BY <1>2, <1>3, Multiples
<1> QED
  BY <1>2, <1>3, <1>4, SMT

\* The two sides never wait for each other with counts that fit the queue together,
\* whatever the order of their steps, their timeouts and what each has seen.
THEOREM NeverMutuallyWaiting == Spec => []NoMutualWait
<1> DEFINE Levels == \A g \in Units : Level(g)
<1>1. Init => Levels
  BY Initially
<1>2. Levels /\ [Next]_vars => Levels'
  <2> SUFFICES ASSUME Levels, [Next]_vars, NEW g \in Units PROVE Level(g)'
    OBVIOUS
  <2> QED
    BY Step
<1>3. Levels => NoMutualWait
  BY NoMutualWaitAtLevel
<1> HIDE DEF Levels
<1> QED
  BY <1>1, <1>2, <1>3, PTL DEF Spec

-----------------------------------------------------------------------------
(* The flag of the queue is an EventFlag whose threads are the two sides: what *)
(* is proved of EventFlag holds of it.                                        *)

EFP == INSTANCE EventFlag_proofs
         WITH Threads <- Sides, Bits <- {FMQ_NOT_FULL, FMQ_NOT_EMPTY},
              Notifiers <- {}, Mortal <- {}

LEMMA FlagAssumption == EFP!EventFlagAssumption
  BY DEF EFP!EventFlagAssumption

\* EF, the instance BlockingQueue makes, and EFP say the same.
LEMMA SameFlag ==
  /\ EF!TypeOK <=> EFP!TypeOK
  /\ EF!NoLostWake <=> EFP!NoLostWake
  /\ EF!Init <=> EFP!Init
  /\ EF!Next <=> EFP!Next
  /\ EF!vars = EFP!vars
<1>1. EF!TypeOK <=> EFP!TypeOK
  BY DEF EF!TypeOK, EF!Places, EF!CallRecords, EF!Statuses,
         EFP!TypeOK, EFP!Places, EFP!CallRecords, EFP!Statuses
<1>2. EF!NoLostWake <=> EFP!NoLostWake
  BY DEF EF!NoLostWake, EF!Pending, EFP!NoLostWake, EFP!Pending
<1>3. EF!Init <=> EFP!Init
  BY DEF EF!Init, EF!NoCall, EFP!Init, EFP!NoCall
<1>4. EF!Next <=> EFP!Next
  BY DEF EF!Next, EF!Calls, EF!Proceeds, EF!Interruptions, EF!Wake, EF!FutexWake, EF!Sleepers,
         EF!Wait, EF!TryAgain, EF!TimesOutInLoop, EF!HasNoBits, EF!Pending, EF!Take, EF!FetchAnd,
         EF!FutexWait, EF!TimeoutRefused, EF!TimesOutAsleep, EF!Interrupted, EF!WokenSpuriously,
         EF!Collect, EF!Return, EF!Enter, EF!Goto, EF!WakeCall, EF!WaitCall, EF!NoCall,
         EFP!Next, EFP!Calls, EFP!Proceeds, EFP!Interruptions, EFP!Wake, EFP!FutexWake,
         EFP!Sleepers, EFP!Wait, EFP!TryAgain, EFP!TimesOutInLoop, EFP!HasNoBits, EFP!Pending,
         EFP!Take, EFP!FetchAnd, EFP!FutexWait, EFP!TimeoutRefused, EFP!TimesOutAsleep,
         EFP!Interrupted, EFP!WokenSpuriously, EFP!Collect, EFP!Return, EFP!Enter, EFP!Goto,
         EFP!WakeCall, EFP!WaitCall, EFP!NoCall
<1>5. EF!vars = EFP!vars
  BY DEF EF!vars, EFP!vars
<1> QED
  BY <1>1, <1>2, <1>3, <1>4, <1>5

\* Every step of a blocking call is a step of the flag's clients, or leaves it.
LEMMA FlagStep ==
  ASSUME TypeOK, [Next]_vars
  PROVE  [EF!Next]_(EF!vars)
<1>1. UNCHANGED flagVars => UNCHANGED EF!vars
  BY DEF flagVars, EF!vars
<1>2. ASSUME NEW p \in Sides,
             Calls(p) \/ FirstAttempt(p) \/ LastAttempt(p) \/ AfterWait(p) \/ AfterWake(p)
               \/ \E k \in 0 .. Capacity : Reaches(p, k)
      PROVE UNCHANGED flagVars
  BY <1>2 DEF Calls, Call, FirstAttempt, LastAttempt, AfterWait, AfterWake, Reaches, flagVars
<1>3. ASSUME NEW p \in Sides, StartWait(p) PROVE EF!Next
  <2>1. EF!Wait(p, {Awaited(p)}, timed[p], TRUE) /\ timed[p] \in BOOLEAN
    BY <1>3 DEF StartWait, TypeOK
  <2>2. {Awaited(p)} \in SUBSET {FMQ_NOT_FULL, FMQ_NOT_EMPTY}
    BY DEF Awaited
  <2>3. EF!Calls(p)
    BY <2>1, <2>2 DEF EF!Calls
  <2> QED
    BY <2>3 DEF EF!Next
<1>4. ASSUME NEW p \in Sides, Notify(p) PROVE EF!Next
  <2>1. {Awaited(Other(p))} \in SUBSET {FMQ_NOT_FULL, FMQ_NOT_EMPTY}
    BY DEF Awaited
  <2>2. EF!Calls(p)
    BY <1>4, <2>1 DEF EF!Calls, Notify
  <2> QED
    BY <2>2 DEF EF!Next
<1>5. ASSUME NEW p \in Sides, FlagAccess(p) \/ FlagCall(p) \/ FlagInterrupts(p) PROVE EF!Next
  BY <1>5 DEF FlagAccess, FlagCall, FlagInterrupts, EF!Next, EF!Proceeds
<1>6. CASE UNCHANGED vars
  BY <1>1, <1>6 DEF vars
<1> QED
  BY <1>1, <1>2, <1>3, <1>4, <1>5, <1>6 DEF Next, Proceeds

-----------------------------------------------------------------------------
(* No side sleeps through what it waits for.  The inductive invariant.        *)

\* The queue: TypeOK without the flag.
Ledger ==
  /\ filled \in 0 .. Capacity
  /\ unseen \in [Sides -> Nat]
  /\ pc \in [Sides -> Places]
  /\ count \in [Sides -> 0 .. Capacity]
  /\ timed \in [Sides -> BOOLEAN]
  /\ result \in [Sides -> BOOLEAN]
  /\ \A p \in Sides : unseen[p] <= Available(p)

\* Where p is in its call fits where it is in the flag's; it waits for the one
\* notification that is meant for it, and a wait() that succeeds reports it.
FlagPlace(p) ==
  /\ pc[p] = "wait" => at[p] \in {"idle", "check", "futexWait", "asleep", "woken"}
  /\ pc[p] = "wake" => at[p] \in {"idle", "futexWake"}
  /\ pc[p] \notin {"wait", "wake"} => at[p] = "idle"
  /\ pc[p] = "wait" /\ at[p] # "idle" => call[p].mask = {Awaited(p)}
  /\ pc[p] = "wait" /\ at[p] = "idle" /\ status[p] = "NO_ERROR" => Awaited(p) \in efState[p]

\* While p's notification is not set, p has seen all that the other side has
\* notified it of.
Informed(p) == Awaited(p) \notin word => unseen[p] <= Unpublished(Other(p))

\* p has attempted in vain and not succeeded in a wait() since.
Fruitless(p) == pc[p] = "loop" \/ (pc[p] = "wait" /\ at[p] # "idle")

\* Then there is too little for p, or its notification is set or about to be.
ShortOfCount(p) ==
  Fruitless(p) /\ Awaited(p) \notin word =>
    Available(p) < count[p] \/ pc[Other(p)] = "notify"

BInv ==
  /\ Ledger /\ EF!TypeOK /\ EF!NoLostWake
  /\ \A p \in Sides : FlagPlace(p) /\ Informed(p) /\ ShortOfCount(p)

LEMMA BInvIsTyped == BInv => TypeOK
<1> SUFFICES ASSUME BInv, NEW p \in Sides
    PROVE  unseen[p] \in 0 .. Available(p) /\ (pc[p] \notin {"wait", "wake"} => at[p] = "idle")
  BY DEF BInv, Ledger, TypeOK
<1> QED
  BY BlockingAssumption DEF BInv, Ledger, FlagPlace, Available

LEMMA BInitially == Init => BInv
<1> SUFFICES ASSUME Init PROVE BInv
  OBVIOUS
<1>1. Ledger
  BY BlockingAssumption DEF Init, Ledger, Places, Available
<1>2. EF!TypeOK /\ EF!NoLostWake
  BY SameFlag, EFP!Initially, FlagAssumption DEF Init, EFP!IInv
<1>3. \A p \in Sides : FlagPlace(p) /\ Informed(p) /\ ShortOfCount(p)
  BY DEF Init, EF!Init, FlagPlace, Informed, Unpublished, ShortOfCount, Fruitless, Other, Sides
<1> QED
  BY <1>1, <1>2, <1>3 DEF BInv

LEMMA FlagInvStep ==
  ASSUME BInv, [Next]_vars
  PROVE  EF!TypeOK' /\ EF!NoLostWake'
<1>1. EFP!IInv
  BY SameFlag DEF BInv, EFP!IInv
<1>2. [EFP!Next]_(EFP!vars)
  BY BInvIsTyped, FlagStep, SameFlag DEF EF!vars, EFP!vars
<1>3. EFP!IInv'
  BY <1>1, <1>2, EFP!Step, FlagAssumption
<1>4. EFP!TypeOK' /\ EFP!NoLostWake'
  BY <1>3 DEF EFP!IInv
<1> QED
  BY <1>4, SameFlag, PTL

\* What the steps of p change of the ledger: a transfer p can make, what p sees.
LEMMA TransferLedger ==
  ASSUME Ledger, NEW p \in Sides, KnownAvailable(p) >= count[p], pc[p] # "out",
         Transfer(p), Goto(p, "notify")
  PROVE  Ledger'
<1>1. unseen[Other(p)] <= Available(Other(p)) /\ Other(p) \in Sides /\ Other(p) # p
  BY DEF Ledger, Other, Sides
<1>2. Available(p)' = Available(p) - count[p]
      /\ Available(Other(p))' = Available(Other(p)) + count[p]
      /\ filled' \in 0 .. Capacity
  BY BlockingAssumption DEF Ledger, Transfer, Available, KnownAvailable, Other, Sides
<1>3. unseen' = [unseen EXCEPT ![Other(p)] = @ + count[p]]
  BY DEF Transfer
<1>4. \A q \in Sides : q = p \/ q = Other(p)
  BY DEF Sides, Other
<1>5. \A q \in Sides : unseen'[q] <= Available(q)'
  BY <1>1, <1>2, <1>3, <1>4, BlockingAssumption DEF Ledger, KnownAvailable, Available
<1> QED
  BY <1>1, <1>2, <1>3, <1>5 DEF Ledger, Goto, Places

LEMMA GotoLedger ==
  ASSUME Ledger, NEW p \in Sides, NEW place \in Places, Goto(p, place), UNCHANGED queueVars
  PROVE  Ledger'
  BY DEF Ledger, Goto, queueVars, Available

LEMMA ReturnLedger ==
  ASSUME Ledger, NEW p \in Sides, NEW ok \in BOOLEAN, Return(p, ok), UNCHANGED queueVars
  PROVE  Ledger'
  BY BlockingAssumption DEF Ledger, Return, queueVars, Available, Places

LEMMA SeesLedger ==
  ASSUME Ledger, NEW p \in Sides, UNCHANGED <<filled, count, timed, result>>,
         pc' \in [Sides -> Places],
         SeesPublished(p) \/ UNCHANGED queueVars \/ \E k \in 0 .. Capacity : Reaches(p, k)
  PROVE  Ledger'
<1>1. \A q \in Sides : Unpublished(q) \in Nat
  BY DEF Unpublished, Ledger
<1>2. Other(p) \in Sides
  BY DEF Other, Sides
<1>3. unseen' \in [Sides -> Nat] /\ \A q \in Sides : unseen'[q] <= unseen[q]
  BY <1>1, <1>2 DEF Ledger, SeesPublished, queueVars, Reaches
<1> QED
  BY <1>3, BlockingAssumption DEF Ledger, Available

LEMMA LedgerStep ==
  ASSUME BInv, [Next]_vars
  PROVE  Ledger'
<1> USE DEF BInv
<1>1. ASSUME NEW p \in Sides, Calls(p) PROVE Ledger'
  <2>1. PICK n \in Sizes(p), hasTimeout \in BOOLEAN, configured \in BOOLEAN :
          Call(p, n, hasTimeout, configured)
    BY <1>1 DEF Calls
  <2>2. n \in Nat
    BY BlockingAssumption DEF Sizes
  <2>3. CASE ~configured \/ n > Capacity
    BY <2>1, <2>3, ReturnLedger DEF Call
  <2>4. CASE ~(~configured \/ n > Capacity)
    <3>1. n \in 0 .. Capacity /\ UNCHANGED queueVars
      BY <2>1, <2>2, <2>4, BlockingAssumption DEF Call
    <3>2. /\ pc' = [pc EXCEPT ![p] = "firstAttempt"] /\ count' = [count EXCEPT ![p] = n]
          /\ timed' = [timed EXCEPT ![p] = hasTimeout] /\ result' = [result EXCEPT ![p] = FALSE]
      BY <2>1, <2>4 DEF Call
    <3> QED
      BY <3>1, <3>2 DEF Ledger, Places, queueVars, Available
  <2> QED
    BY <2>3, <2>4
<1>2. ASSUME NEW p \in Sides, FirstAttempt(p) \/ LastAttempt(p) \/ AfterWait(p) PROVE Ledger'
  <2>1. pc[p] # "out" /\ "loop" \in Places
    BY <1>2 DEF FirstAttempt, LastAttempt, AfterWait, Places
  <2> QED
    BY <1>2, <2>1, TransferLedger, GotoLedger, ReturnLedger DEF FirstAttempt, LastAttempt, AfterWait
<1>3. ASSUME NEW p \in Sides, StartWait(p) \/ AfterWake(p) PROVE Ledger'
  BY <1>3, GotoLedger, ReturnLedger DEF StartWait, AfterWake, Places
<1>4. ASSUME NEW p \in Sides, Notify(p) PROVE Ledger'
  <2>1. SeesPublished(p) /\ UNCHANGED <<filled, count, timed, result>> /\ pc' \in [Sides -> Places]
    BY <1>4 DEF Notify, SeesPublished, Goto, Ledger, Places
  <2> QED
    BY <2>1, SeesLedger
<1>5. ASSUME NEW p \in Sides,
             FlagAccess(p) \/ FlagCall(p) \/ FlagInterrupts(p)
               \/ \E k \in 0 .. Capacity : Reaches(p, k)
      PROVE Ledger'
  <2>1. UNCHANGED <<filled, count, timed, result>> /\ pc' = pc
    BY <1>5 DEF FlagAccess, FlagCall, FlagInterrupts, Reaches, SeesPublished, callVars, queueVars
  <2>2. SeesPublished(p) \/ UNCHANGED queueVars \/ \E k \in 0 .. Capacity : Reaches(p, k)
    BY <1>5 DEF FlagAccess, FlagCall, FlagInterrupts
  <2> QED
    BY <2>1, <2>2, SeesLedger DEF Ledger
<1>6. CASE UNCHANGED vars
  BY <1>6 DEF vars, queueVars, callVars, Ledger, Available
<1> QED
  BY <1>1, <1>2, <1>3, <1>4, <1>5, <1>6 DEF Next, Proceeds

\* What a step inside wait() does to the flag.
LEMMA InsideWait ==
  ASSUME EF!TypeOK, NEW p \in Sides,
         EF!FetchAnd(p) \/ EF!Collect(p) \/ EF!FutexWait(p) \/ EF!Interruptions(p)
  PROVE  /\ \A q \in Sides \ {p} : /\ at'[q] = at[q] /\ call'[q] = call[q]
                                  /\ status'[q] = status[q] /\ efState'[q] = efState[q]
         /\ at[p] \in {"check", "futexWait", "asleep", "woken"}
         /\ at'[p] \in {"idle", "check", "futexWait", "asleep", "woken"}
         /\ at'[p] # "idle" => call'[p] = call[p] /\ word' = word
         /\ word' \subseteq word /\ word \ word' \subseteq call[p].mask
         /\ at'[p] = "idle" /\ status'[p] = "NO_ERROR" =>
              efState'[p] # {} /\ efState'[p] \subseteq call[p].mask
<1> USE DEF EF!TypeOK, EF!Goto, EF!Return
<1>1. CASE EF!FetchAnd(p)
  BY <1>1 DEF EF!FetchAnd, EF!Take, EF!Pending
<1>2. CASE EF!Collect(p)
  <2>1. CASE EF!Pending(p) # {}
    BY <1>2, <2>1 DEF EF!Collect, EF!Take, EF!Pending
  <2>2. CASE EF!Pending(p) = {}
    BY <1>2, <2>2 DEF EF!Collect, EF!TryAgain
  <2> QED
    BY <2>1, <2>2
<1>3. CASE EF!FutexWait(p)
  <2>1. CASE word = expected[p]
    BY <1>3, <2>1 DEF EF!FutexWait
  <2>2. CASE word # expected[p]
    BY <1>3, <2>2 DEF EF!FutexWait, EF!TryAgain
  <2> QED
    BY <2>1, <2>2
<1>4. CASE EF!Interruptions(p)
  <2>1. CASE EF!TimesOutInLoop(p) \/ EF!TimeoutRefused(p) \/ EF!TimesOutAsleep(p)
    BY <2>1 DEF EF!TimesOutInLoop, EF!TimeoutRefused, EF!TimesOutAsleep
  <2>2. CASE EF!Interrupted(p) \/ EF!WokenSpuriously(p)
    BY <2>2 DEF EF!Interrupted, EF!TryAgain, EF!WokenSpuriously
  <2> QED
    BY <1>4, <2>1, <2>2 DEF EF!Interruptions
<1> QED
  BY <1>1, <1>2, <1>3, <1>4

LEMMA TwoSides ==
  ASSUME NEW p \in Sides
  PROVE  /\ Other(p) \in Sides \ {p} /\ Other(Other(p)) = p
         /\ Awaited(Other(p)) # Awaited(p)
         /\ \A q \in Sides : q = p \/ q = Other(p)
  BY DEF Sides, Other, Awaited, FMQ_NOT_FULL, FMQ_NOT_EMPTY

\* A step inside wait() takes only p's own notification, and one that takes it
\* shows p all that came before it.
LEMMA InsideWaitInv ==
  ASSUME BInv, NEW p \in Sides,
         EF!FetchAnd(p) \/ EF!Collect(p) \/ EF!FutexWait(p) \/ EF!Interruptions(p),
         SeesPublished(p) \/ (UNCHANGED queueVars /\ word' = word),
         UNCHANGED callVars
  PROVE  \A q \in Sides : FlagPlace(q)' /\ Informed(q)' /\ ShortOfCount(q)'
<1> DEFINE o == Other(p)
<1>1. EF!TypeOK /\ Ledger /\ \A q \in Sides : FlagPlace(q) /\ Informed(q) /\ ShortOfCount(q)
  BY DEF BInv
<1>2. UNCHANGED <<filled, pc, count>> /\ \A q \in Sides : Unpublished(q)' = Unpublished(q)
  BY DEF SeesPublished, queueVars, callVars, Unpublished
<1>3. pc[p] = "wait" /\ call[p].mask = {Awaited(p)}
  BY <1>1, InsideWait DEF FlagPlace
<1>4. unseen'[o] = unseen[o]
  BY TwoSides, <1>1 DEF SeesPublished, queueVars, Ledger
<1>5. Awaited(o) \in word' <=> Awaited(o) \in word
  BY <1>1, <1>3, InsideWait, TwoSides
<1>6. FlagPlace(p)'
  BY <1>1, <1>2, <1>3, InsideWait DEF FlagPlace
<1>7. Informed(p)'
  <2>1. CASE SeesPublished(p)
    <3>1. Unpublished(o) \in Nat /\ unseen[p] \in Nat
      BY <1>1, TwoSides DEF Ledger, Unpublished
    <3>2. unseen'[p] <= Unpublished(o)
      BY <1>1, <2>1, <3>1 DEF SeesPublished, Ledger
    <3> QED
      BY <1>2, <3>2, TwoSides DEF Informed
  <2>2. CASE UNCHANGED queueVars /\ word' = word
    BY <1>1, <1>2, <2>2, TwoSides DEF Informed, queueVars
  <2> QED
    BY <2>1, <2>2
<1>8. ShortOfCount(p)'
  BY <1>1, <1>2, <1>3, InsideWait DEF ShortOfCount, Fruitless, Available
<1>9. FlagPlace(o)' /\ Informed(o)' /\ ShortOfCount(o)'
  BY <1>1, <1>2, <1>4, <1>5, InsideWait, TwoSides
    DEF FlagPlace, Informed, ShortOfCount, Fruitless, Available
<1> QED
  BY <1>6, <1>7, <1>8, <1>9, TwoSides

\* A step of p outside the flag, other than a notification, that moves nothing.
LEMMA QuietInv ==
  ASSUME BInv, NEW p \in Sides, UNCHANGED <<queueVars, flagVars>>,
         pc[p] # "notify", pc'[p] \notin {"notify", "wait", "wake"}, at[p] = "idle",
         pc'[p] = "loop" => KnownAvailable(p) < count[p] /\ count'[p] = count[p],
         \A q \in Sides \ {p} : pc'[q] = pc[q] /\ count'[q] = count[q]
  PROVE  \A q \in Sides : FlagPlace(q)' /\ Informed(q)' /\ ShortOfCount(q)'
<1> DEFINE o == Other(p)
<1>1. Ledger /\ \A q \in Sides : FlagPlace(q) /\ Informed(q) /\ ShortOfCount(q)
  BY DEF BInv
<1>2. UNCHANGED <<filled, unseen, word, at, call, status, efState>>
  BY DEF queueVars, flagVars
<1>3. FlagPlace(p)' /\ Informed(p)'
  BY <1>1, <1>2, TwoSides DEF FlagPlace, Informed, Unpublished
<1>4. ShortOfCount(p)'
  <2> SUFFICES ASSUME pc'[p] = "loop", Awaited(p) \notin word, pc[o] # "notify"
      PROVE  Available(p) < count[p]
    BY <1>2, TwoSides DEF ShortOfCount, Fruitless, Available
  <2>1. unseen[p] \in Nat /\ unseen[p] <= 0
    BY <1>1, TwoSides DEF Informed, Unpublished, Ledger
  <2>2. Available(p) \in Int
    BY <1>1, BlockingAssumption DEF Ledger, Available
  <2> QED
    BY <2>1, <2>2 DEF KnownAvailable
<1>5. FlagPlace(o)' /\ Informed(o)' /\ ShortOfCount(o)'
  BY <1>1, <1>2, TwoSides
    DEF FlagPlace, Informed, Unpublished, ShortOfCount, Fruitless, Available
<1> QED
  BY <1>3, <1>4, <1>5, TwoSides

\* A transfer: p is on its way to notify the other side.
LEMMA TransferInv ==
  ASSUME BInv, NEW p \in Sides, pc[p] \notin {"out", "notify"}, at[p] = "idle",
         Transfer(p), Goto(p, "notify"), UNCHANGED flagVars
  PROVE  \A q \in Sides : FlagPlace(q)' /\ Informed(q)' /\ ShortOfCount(q)'
<1> DEFINE o == Other(p)
<1>1. Ledger /\ \A q \in Sides : FlagPlace(q) /\ Informed(q) /\ ShortOfCount(q)
  BY DEF BInv
<1>2. pc' = [pc EXCEPT ![p] = "notify"] /\ UNCHANGED <<count, word, at, call, status, efState>>
  BY DEF Goto, flagVars
<1>3. pc'[p] = "notify" /\ pc'[o] = pc[o]
  BY <1>1, <1>2, TwoSides DEF Ledger
<1>4. unseen'[p] = unseen[p] /\ unseen'[o] = unseen[o] + count[p]
  BY <1>1, TwoSides DEF Transfer, Ledger
<1>5. FlagPlace(p)' /\ Informed(p)' /\ ShortOfCount(p)'
  BY <1>1, <1>2, <1>3, <1>4, TwoSides DEF FlagPlace, Informed, Unpublished, ShortOfCount, Fruitless
<1>6. FlagPlace(o)' /\ ShortOfCount(o)'
  BY <1>1, <1>2, <1>3, TwoSides DEF FlagPlace, ShortOfCount
<1>7. Informed(o)'
  <2> SUFFICES ASSUME Awaited(o) \notin word PROVE unseen'[o] <= Unpublished(p)'
    BY <1>2, TwoSides DEF Informed
  <2>1. unseen[o] \in Nat /\ unseen[o] <= 0 /\ count[p] \in Nat
    BY <1>1, TwoSides DEF Informed, Unpublished, Ledger
  <2> QED
    BY <1>2, <1>3, <1>4, <2>1 DEF Unpublished
<1> QED
  BY <1>5, <1>6, <1>7, TwoSides

LEMMA AttemptInv ==
  ASSUME BInv, NEW p \in Sides, FirstAttempt(p) \/ LastAttempt(p) \/ AfterWait(p)
  PROVE  \A q \in Sides : FlagPlace(q)' /\ Informed(q)' /\ ShortOfCount(q)'
<1>1. pc[p] \in {"firstAttempt", "loop", "wait"} /\ at[p] = "idle" /\ UNCHANGED flagVars
  BY DEF FirstAttempt, LastAttempt, AfterWait, BInv, FlagPlace
<1>2. CASE Transfer(p) /\ Goto(p, "notify")
  BY <1>1, <1>2, TransferInv
<1>3. CASE Goto(p, "loop") /\ KnownAvailable(p) < count[p] /\ UNCHANGED queueVars
  BY <1>1, <1>3, QuietInv DEF Goto, BInv, Ledger
<1>4. CASE Return(p, FALSE) /\ UNCHANGED queueVars
  BY <1>1, <1>4, QuietInv DEF Return, BInv, Ledger
<1>5. status[p] = "NO_ERROR" /\ AfterWait(p) => Awaited(p) \in efState[p]
  BY DEF AfterWait, BInv, FlagPlace
<1>6. KnownAvailable(p) \in Int /\ count[p] \in Int
  BY BlockingAssumption DEF BInv, Ledger, KnownAvailable, Available
<1>7. \/ Transfer(p) /\ Goto(p, "notify")
      \/ Goto(p, "loop") /\ KnownAvailable(p) < count[p] /\ UNCHANGED queueVars
      \/ Return(p, FALSE) /\ UNCHANGED queueVars
  <2>1. ~(KnownAvailable(p) >= count[p]) => KnownAvailable(p) < count[p]
    BY <1>6
  <2>2. CASE FirstAttempt(p)
    BY <2>1, <2>2 DEF FirstAttempt
  <2>3. CASE LastAttempt(p)
    BY <2>1, <2>3 DEF LastAttempt
  <2>4. CASE AfterWait(p)
    BY <1>5, <2>1, <2>4 DEF AfterWait
  <2> QED
    BY <2>2, <2>3, <2>4
<1> QED
  BY <1>2, <1>3, <1>4, <1>7

LEMMA OutsideInv ==
  ASSUME BInv, NEW p \in Sides, Calls(p) \/ AfterWake(p)
  PROVE  \A q \in Sides : FlagPlace(q)' /\ Informed(q)' /\ ShortOfCount(q)'
<1>1. pc[p] \in {"out", "wake"} /\ at[p] = "idle" /\ UNCHANGED <<queueVars, flagVars>>
  BY DEF Calls, Call, AfterWake, BInv, FlagPlace
<1>2. pc'[p] \in {"out", "firstAttempt"}
      /\ \A q \in Sides \ {p} : pc'[q] = pc[q] /\ count'[q] = count[q]
  <2>1. CASE \E ok \in BOOLEAN : Return(p, ok)
    BY <2>1 DEF Return, BInv, Ledger
  <2>2. CASE Calls(p) /\ ~\E ok \in BOOLEAN : Return(p, ok)
    BY <2>2 DEF Calls, Call, BInv, Ledger
  <2> QED
    BY <2>1, <2>2 DEF AfterWake
<1> QED
  BY <1>1, <1>2, QuietInv

LEMMA StartWaitInv ==
  ASSUME BInv, NEW p \in Sides, StartWait(p)
  PROVE  \A q \in Sides : FlagPlace(q)' /\ Informed(q)' /\ ShortOfCount(q)'
<1> DEFINE o == Other(p)
<1>1. EF!TypeOK /\ Ledger /\ \A q \in Sides : FlagPlace(q) /\ Informed(q) /\ ShortOfCount(q)
  BY DEF BInv
<1>2. pc[p] = "loop" /\ pc' = [pc EXCEPT ![p] = "wait"] /\ UNCHANGED <<filled, unseen, count, word>>
  BY DEF StartWait, Goto, queueVars, EF!Wait
<1>3. at'[p] = "check" /\ call'[p].mask = {Awaited(p)}
  BY <1>1 DEF StartWait, EF!TypeOK, EF!Wait, EF!Enter, EF!Goto, EF!WaitCall
<1>4. at'[o] = at[o] /\ call'[o] = call[o] /\ status'[o] = status[o] /\ efState'[o] = efState[o]
  BY <1>1, TwoSides DEF StartWait, EF!TypeOK, EF!Wait, EF!Enter, EF!Goto
<1>5. pc'[p] = "wait" /\ pc'[o] = pc[o]
  BY <1>1, <1>2, TwoSides DEF Ledger
<1>6. FlagPlace(p)' /\ Informed(p)' /\ ShortOfCount(p)'
  BY <1>1, <1>2, <1>3, <1>5, TwoSides
    DEF FlagPlace, Informed, Unpublished, ShortOfCount, Fruitless, Available
<1>7. FlagPlace(o)' /\ Informed(o)' /\ ShortOfCount(o)'
  BY <1>1, <1>2, <1>4, <1>5, TwoSides
    DEF FlagPlace, Informed, Unpublished, ShortOfCount, Fruitless, Available
<1> QED
  BY <1>6, <1>7, TwoSides

\* Once p has notified it, the other side's notification is set, whatever it
\* has seen, and p itself has seen what the other has notified it of.
LEMMA NotifyInv ==
  ASSUME BInv, NEW p \in Sides, Notify(p)
  PROVE  \A q \in Sides : FlagPlace(q)' /\ Informed(q)' /\ ShortOfCount(q)'
<1> DEFINE o == Other(p)
<1>1. EF!TypeOK /\ Ledger /\ \A q \in Sides : FlagPlace(q) /\ Informed(q) /\ ShortOfCount(q)
  BY DEF BInv
<1>2. pc' = [pc EXCEPT ![p] = "wake"] /\ UNCHANGED <<filled, count>> /\ SeesPublished(p)
  BY DEF Notify, Goto, SeesPublished
<1>3. at'[p] \in {"idle", "futexWake"} /\ word' = word \cup {Awaited(o)}
  BY <1>1 DEF Notify, EF!TypeOK, EF!Wake, EF!Enter, EF!Return, EF!Goto
<1>4. at'[o] = at[o] /\ call'[o] = call[o] /\ status'[o] = status[o] /\ efState'[o] = efState[o]
  BY <1>1, TwoSides DEF Notify, EF!TypeOK, EF!Wake, EF!Enter, EF!Return, EF!Goto
<1>5. pc'[p] = "wake" /\ pc'[o] = pc[o]
  BY <1>1, <1>2, TwoSides DEF Ledger
<1>6. unseen'[p] <= Unpublished(o) /\ Unpublished(o)' = Unpublished(o)
  <2>1. unseen[p] \in Nat /\ Unpublished(o) \in Nat
    BY <1>1, TwoSides DEF Ledger, Unpublished
  <2>2. unseen'[p] <= Unpublished(o)
    BY <1>1, <1>2, <2>1 DEF Ledger, SeesPublished
  <2> QED
    BY <1>2, <1>5, <2>2 DEF Unpublished
<1>7. FlagPlace(p)' /\ Informed(p)' /\ ShortOfCount(p)'
  BY <1>3, <1>5, <1>6, TwoSides DEF FlagPlace, Informed, ShortOfCount, Fruitless
<1>8. FlagPlace(o)' /\ Informed(o)' /\ ShortOfCount(o)'
  BY <1>1, <1>3, <1>4, <1>5, TwoSides DEF FlagPlace, Informed, ShortOfCount
<1> QED
  BY <1>7, <1>8, TwoSides

LEMMA FutexWakeInv ==
  ASSUME BInv, NEW p \in Sides, EF!FutexWake(p), UNCHANGED <<queueVars, callVars>>
  PROVE  \A q \in Sides : FlagPlace(q)' /\ Informed(q)' /\ ShortOfCount(q)'
<1> DEFINE o == Other(p)
<1>1. EF!TypeOK /\ Ledger /\ \A q \in Sides : FlagPlace(q) /\ Informed(q) /\ ShortOfCount(q)
  BY DEF BInv
<1>2. UNCHANGED <<filled, unseen, pc, count, word, status, efState>>
  BY DEF queueVars, callVars, EF!FutexWake
<1>3. pc[p] = "wake" /\ at'[p] = "idle"
  BY <1>1 DEF EF!FutexWake, FlagPlace
<1>4. call'[o] = call[o] /\ (at'[o] = at[o] \/ (at[o] = "asleep" /\ at'[o] = "woken"))
  BY <1>1, TwoSides DEF EF!FutexWake, EF!TypeOK, EF!Sleepers
<1>5. \A q \in Sides : Informed(q)'
  BY <1>1, <1>2 DEF Informed, Unpublished
<1>6. FlagPlace(p)' /\ ShortOfCount(p)'
  BY <1>2, <1>3 DEF FlagPlace, ShortOfCount, Fruitless
<1>7. FlagPlace(o)' /\ ShortOfCount(o)'
  BY <1>1, <1>2, <1>4, TwoSides DEF FlagPlace, ShortOfCount, Fruitless, Available
<1> QED
  BY <1>5, <1>6, <1>7, TwoSides

LEMMA ReachesInv ==
  ASSUME BInv, NEW p \in Sides, NEW k \in 0 .. Capacity, Reaches(p, k)
  PROVE  \A q \in Sides : FlagPlace(q)' /\ Informed(q)' /\ ShortOfCount(q)'
<1>1. Ledger /\ \A q \in Sides : FlagPlace(q) /\ Informed(q) /\ ShortOfCount(q)
  BY DEF BInv
<1>2. UNCHANGED <<filled, pc, count, word, at, call, status, efState>>
  BY DEF Reaches, callVars, flagVars
<1>3. \A q \in Sides : unseen'[q] <= unseen[q] /\ unseen'[q] \in Nat /\ unseen[q] \in Nat
  BY <1>1 DEF Reaches, Ledger
<1>4. \A q \in Sides : Unpublished(q) \in Nat /\ Unpublished(q)' = Unpublished(q)
  BY <1>1, <1>2 DEF Unpublished, Ledger
<1>5. \A q \in Sides : Informed(q)'
  BY <1>1, <1>2, <1>3, <1>4, TwoSides DEF Informed
<1> QED
  BY <1>1, <1>2, <1>5 DEF FlagPlace, ShortOfCount, Fruitless, Available

LEMMA BInvStep == BInv /\ [Next]_vars => BInv'
<1> SUFFICES ASSUME BInv, [Next]_vars PROVE BInv'
  OBVIOUS
<1> DEFINE Kept == \A q \in Sides : FlagPlace(q)' /\ Informed(q)' /\ ShortOfCount(q)'
<1>1. ASSUME NEW p \in Sides, FlagAccess(p) \/ FlagCall(p) \/ FlagInterrupts(p) PROVE Kept
  <2>1. CASE EF!FutexWake(p) /\ UNCHANGED <<queueVars, callVars>>
    BY <2>1, FutexWakeInv
  <2>2. CASE FlagAccess(p)
    BY <2>2, InsideWaitInv DEF FlagAccess
  <2>3. CASE FlagCall(p) /\ EF!FutexWait(p)
    BY <2>3, InsideWaitInv DEF FlagCall, EF!FutexWait
  <2>4. CASE FlagInterrupts(p)
    <3>1. word' = word
      BY <2>4 DEF FlagInterrupts, EF!Interruptions, EF!TimesOutInLoop, EF!TimeoutRefused,
                  EF!TimesOutAsleep, EF!Interrupted, EF!WokenSpuriously
    <3> QED
      BY <2>4, <3>1, InsideWaitInv DEF FlagInterrupts
  <2> QED
    BY <1>1, <2>1, <2>2, <2>3, <2>4 DEF FlagCall
<1>2. ASSUME UNCHANGED vars PROVE Kept
  <2>1. UNCHANGED <<filled, unseen, pc, count, word, at, call, status, efState>>
    BY <1>2 DEF vars, queueVars, callVars, flagVars
  <2> QED
    BY <2>1 DEF BInv, FlagPlace, Informed, Unpublished, ShortOfCount, Fruitless, Available
<1>3. Kept
  <2>1. ASSUME NEW p \in Sides, Proceeds(p) PROVE Kept
    BY <1>1, <2>1, OutsideInv, AttemptInv, StartWaitInv, NotifyInv DEF Proceeds
  <2> QED
    BY <1>1, <1>2, <2>1, OutsideInv, ReachesInv DEF Next
<1> QED
  BY <1>3, LedgerStep, FlagInvStep DEF BInv

LEMMA BInvAlways == Spec => []BInv
  BY BInitially, BInvStep, PTL DEF Spec

\* Whatever the counts, the timeouts and the order in which stores are seen,
\* the queue never holds a negative number of messages nor too many, and no
\* side counts on messages or room that are not there.
THEOREM BlockingTypeCorrect == Spec => []TypeOK
  BY BInvAlways, BInvIsTyped, PTL

\* writeBlocking() and readBlocking() use the flag as its clients may: what is
\* proved of every EventFlag is proved of the one in a queue.
THEOREM BlockingUsesEventFlag == Spec => EF!Spec
<1>1. Init => EF!Init
  BY DEF Init
<1>2. TypeOK /\ [Next]_vars => [EF!Next]_(EF!vars)
  BY FlagStep
<1> QED
  BY <1>1, <1>2, BlockingTypeCorrect, PTL DEF Spec, EF!Spec

LEMMA SleeperIsOwed == BInv => NoStrandedSleeper
<1> SUFFICES ASSUME BInv, NEW p \in Sides, at[p] = "asleep", Available(p) >= count[p]
    PROVE  OwesWake(Other(p))
  BY DEF NoStrandedSleeper
<1> DEFINE o == Other(p)
<1>1. Ledger /\ FlagPlace(p) /\ ShortOfCount(p)
  BY DEF BInv
<1>2. pc[p] = "wait" /\ call[p].mask = {Awaited(p)}
  BY <1>1 DEF FlagPlace
<1>3. CASE Awaited(p) \in word
  <2>1. PICK u \in Sides : at[u] = "futexWake"
    BY <1>2, <1>3 DEF BInv, EF!NoLostWake, EF!Pending
  <2> QED
    BY <2>1, TwoSides DEF OwesWake
<1>4. CASE Awaited(p) \notin word
  <2>1. ~(Available(p) < count[p])
    BY <1>1, BlockingAssumption DEF Ledger, Available
  <2> QED
    BY <1>1, <1>2, <1>4, <2>1 DEF ShortOfCount, Fruitless, OwesWake
<1> QED
  BY <1>3, <1>4

\* For every capacity, all counts, and whatever each side has seen of the other:
\* a side asleep with enough for its call is about to be woken.
THEOREM NoSideSleepsStranded == Spec => []NoStrandedSleeper
  BY BInvAlways, SleeperIsOwed, PTL

=============================================================================
