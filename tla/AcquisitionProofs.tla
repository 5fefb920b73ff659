------------------------- MODULE AcquisitionProofs -------------------------
(***************************************************************************)
(* Proofs about CircuitBreaker, for every set of threads and keys and      *)
(* every threshold and cooldown, and about Acquisition, for every set of   *)
(* requests and every number of workers, permits and attempts.             *)
(***************************************************************************)
EXTENDS CircuitBreaker, Acquisition, FiniteSetTheorems, TLAPS

\* A CLOSED breaker has seen fewer failures in a row than the threshold.
ClosedIsHealthy == \A k \in Keys : state[k] = "closed" => fails[k] < FailureThreshold

\* The session's failures are all filed under the key its gate asks for.
StreakCounted == SessionKey = FailureKey => streak <= fails[SessionKey]

Inv == TypeOK /\ HeldWhileOpen /\ ClosedIsHealthy /\ StreakCounted

USE KeysAssumption, ThresholdsAssumption, CooldownAssumption

\* The initial state is healthy: nobody has called and no breaker is open.
LEMMA InitInv == Init => Inv
  BY DEF Init, Inv, TypeOK, HeldWhileOpen, ClosedIsHealthy, StreakCounted,
         States, Places, Waiting, PastGate

\* Moves that leave every breaker alone and admit nobody.
LEMMA QuietInv ==
  ASSUME Inv, NEW t \in Threads, UNCHANGED <<breakerVars, historyVars>>,
         \/ Attempt(t) \/ SleepEnd(t) \/ Call(t) \/ CallEnd(t)
  PROVE  Inv'
<1>1. TypeOK'
  BY DEF Inv, TypeOK, breakerVars, historyVars, Attempt, SleepEnd, Call, CallEnd, Move,
         Places, Waiting, PastGate
<1>2. HeldWhileOpen'
  BY DEF Inv, TypeOK, HeldWhileOpen, breakerVars, historyVars, Attempt, SleepEnd, Call,
         CallEnd, Move, Places, Waiting, PastGate
<1>3. ClosedIsHealthy' /\ StreakCounted'
  BY DEF Inv, ClosedIsHealthy, StreakCounted, breakerVars, historyVars
<1> QED BY <1>1, <1>2, <1>3 DEF Inv

\* A thread is admitted only by a step after which the breaker is not OPEN.
LEMMA GateInv ==
  ASSUME Inv, NEW t \in Threads, Gate(t) \/ Wait(t) \/ Recheck(t)
  PROVE  Inv'
<1> USE DEF Gate, Wait, Recheck, Move, Pass, ToHalfOpen, breakerVars
<1>1. TypeOK'
  BY DEF Inv, TypeOK, States, Places, Waiting, PastGate
<1>2. HeldWhileOpen'
  BY DEF Inv, TypeOK, HeldWhileOpen, States, Places, Waiting, PastGate
<1>3. ClosedIsHealthy' /\ StreakCounted'
  BY DEF Inv, TypeOK, ClosedIsHealthy, StreakCounted
<1> QED BY <1>1, <1>2, <1>3 DEF Inv

\* A success clears the failures of the session and can only close a breaker.
LEMMA SuccessInv ==
  ASSUME Inv, NEW t \in Threads, RecordSuccess(t)
  PROVE  Inv'
<1> DEFINE n == UpTo(SuccessThreshold, succs[SessionKey] + 1)
<1>1. n \in 0 .. SuccessThreshold
  BY DEF Inv, TypeOK, UpTo
<1>2. succs' = [succs EXCEPT ![SessionKey] = n]
  BY DEF RecordSuccess, Inv, TypeOK
<1> HIDE DEF n
<1>3. TypeOK'
  BY <1>1, <1>2 DEF Inv, TypeOK, RecordSuccess, Move, States, Places, PastGate, Waiting
<1>4. HeldWhileOpen'
  BY DEF Inv, TypeOK, HeldWhileOpen, RecordSuccess, Move, States
<1>5. ClosedIsHealthy'
  BY DEF Inv, TypeOK, ClosedIsHealthy, RecordSuccess
<1>6. StreakCounted'
  BY DEF Inv, TypeOK, StreakCounted, RecordSuccess
<1> QED BY <1>3, <1>4, <1>5, <1>6 DEF Inv

\* A failure opens the breaker at the threshold; those already admitted
\* become stale in the same step.
LEMMA FailureInv ==
  ASSUME Inv, NEW t \in Threads, RecordFailure(t)
  PROVE  Inv'
<1> DEFINE n == UpTo(FailureThreshold, fails[FailureKey] + 1)
           s == UpTo(FailureThreshold, streak + 1)
<1>1. /\ n \in 0 .. FailureThreshold
      /\ fails[FailureKey] + 1 < FailureThreshold => n = fails[FailureKey] + 1
      /\ fails[FailureKey] + 1 >= FailureThreshold => n = FailureThreshold
  BY DEF Inv, TypeOK, UpTo
<1>2. /\ s \in 0 .. FailureThreshold
      /\ streak + 1 < FailureThreshold => s = streak + 1
      /\ streak + 1 >= FailureThreshold => s = FailureThreshold
  BY DEF Inv, TypeOK, UpTo
<1>3. /\ fails' = [fails EXCEPT ![FailureKey] = n]
      /\ state' = [state EXCEPT ![FailureKey] = IF Opens(FailureKey, n) THEN "open" ELSE @]
      /\ cool'  = [cool EXCEPT ![FailureKey] = IF Opens(FailureKey, n) THEN Cooldown ELSE @]
      /\ streak' = s
  BY DEF RecordFailure
<1> HIDE DEF n, s
<1>4. TypeOK'
  BY <1>1, <1>2, <1>3 DEF Inv, TypeOK, RecordFailure, Move, States, Places, PastGate, Waiting
<1>5. HeldWhileOpen'
  <2> SUFFICES ASSUME NEW u \in Threads, pc'[u] \in {"admitted", "calling"},
                      state'[SessionKey] = "open"
               PROVE  stale'[u]
    BY DEF HeldWhileOpen
  <2>1. pc[u] = pc'[u] /\ pc[u] \in PastGate
    BY DEF RecordFailure, Move, Inv, TypeOK, PastGate
  <2>2. CASE state[SessionKey] = "open"
    BY <2>1, <2>2 DEF Inv, HeldWhileOpen, RecordFailure
  <2>3. CASE state[SessionKey] # "open"
    <3>1. SessionKey = FailureKey /\ Opens(FailureKey, n)
      BY <1>3, <2>3 DEF Inv, TypeOK
    <3> QED BY <3>1, <2>1 DEF RecordFailure, n
  <2> QED BY <2>2, <2>3
<1>6. ClosedIsHealthy'
  BY <1>1, <1>3 DEF Inv, TypeOK, ClosedIsHealthy, Opens, States
<1>7. StreakCounted'
  BY <1>1, <1>2, <1>3 DEF Inv, TypeOK, StreakCounted
<1> QED BY <1>4, <1>5, <1>6, <1>7 DEF Inv

\* A reset closes breakers and forgets their failures; time only runs down
\* the cooldowns.
LEMMA ResetTickInv ==
  ASSUME Inv, Reset \/ Tick
  PROVE  Inv'
<1>1. CASE Reset
  <2>1. TypeOK'
    BY <1>1 DEF Reset, Inv, TypeOK, States
  <2>2. HeldWhileOpen'
    BY <1>1 DEF Reset, Inv, TypeOK, HeldWhileOpen
  <2>3. ClosedIsHealthy'
    BY <1>1 DEF Reset, Inv, TypeOK, ClosedIsHealthy
  <2>4. StreakCounted'
    BY <1>1 DEF Reset, Inv, TypeOK, StreakCounted
  <2> QED BY <2>1, <2>2, <2>3, <2>4 DEF Inv
<1>2. CASE Tick
  BY <1>2 DEF Tick, historyVars, Inv, TypeOK, HeldWhileOpen, ClosedIsHealthy, StreakCounted
<1> QED BY <1>1, <1>2

\* Every step of the registry and of the threads around it keeps Inv.
LEMMA StepInv == Inv /\ [Next]_vars => Inv'
<1> SUFFICES ASSUME Inv, [Next]_vars PROVE Inv'
  OBVIOUS
<1>1. CASE UNCHANGED vars
  BY <1>1 DEF vars, breakerVars, historyVars, Inv, TypeOK, HeldWhileOpen,
              ClosedIsHealthy, StreakCounted
<1>2. ASSUME NEW t \in Threads, Attempt(t) \/ Proceed(t) \/ CallEnd(t)
      PROVE  Inv'
  <2>1. CASE Attempt(t) \/ SleepEnd(t) \/ Call(t) \/ CallEnd(t)
    BY <2>1, QuietInv DEF Attempt, SleepEnd, Call, CallEnd
  <2>2. CASE Gate(t) \/ Wait(t) \/ Recheck(t)
    BY <2>2, GateInv
  <2>3. CASE RecordSuccess(t)
    BY <2>3, SuccessInv
  <2>4. CASE RecordFailure(t)
    BY <2>4, FailureInv
  <2> QED BY <1>2, <2>1, <2>2, <2>3, <2>4 DEF Proceed
<1>3. CASE Reset \/ Tick
  BY <1>3, ResetTickInv
<1> QED BY <1>1, <1>2, <1>3 DEF Next

\* Inv holds in every reachable state, and with it the type invariant.
THEOREM BreakerInvariant == Spec => []Inv
<1>1. Init => Inv
  BY InitInv
<1>2. Inv /\ [Next]_vars => Inv'
  BY StepInv
<1> QED BY <1>1, <1>2, PTL DEF Spec

\* However many threads go through the gate, and whatever is reset meanwhile,
\* none is admitted while the session's breaker is OPEN (line 32).
THEOREM HeldWhileOpenHolds == Spec => []HeldWhileOpen
<1>1. Inv => HeldWhileOpen
  BY DEF Inv
<1> QED BY <1>1, BreakerInvariant, PTL

\* A session whose failures are filed under its own key is OPEN (or being
\* probed) after FailureThreshold failures in a row (lines 5-7).
THEOREM SessionFailuresOpenHolds ==
  ASSUME SessionKey = FailureKey
  PROVE  Spec => []SessionFailuresOpen
<1>1. Inv => SessionFailuresOpen
  BY DEF Inv, TypeOK, ClosedIsHealthy, StreakCounted, SessionFailuresOpen
<1> QED BY <1>1, BreakerInvariant, PTL

-----------------------------------------------------------------------------
(* Acquisition.                                                            *)

\* The requests inside a context of yt-dlp.
Calling == {q \in Fetches : fetch[q].at = "calling"}

\* The types without the bound of the permits, which follows from their count.
FetchStates ==
  [at : {"new", "queued", "taken", "before", "gate", "waiting", "lock", "permit",
         "calling", "captions", "succeeded", "raised", "retrying", "done"},
   attempt : 1..Attempts, page : 1..3,
   out : {"ok", "skip", "limited", "network", "permanent"}]
Circuits == [state : {"closed", "open", "half"}, fails : Nat, over : BOOLEAN]
Accounts == [paid : Nat, limited : Nat, heard : Nat, filed : Nat, passed : Nat]
FetchTypes ==
  /\ inline \in BOOLEAN /\ kind \in [Fetches -> RequestKinds]
  /\ fetch \in [Fetches -> FetchStates]
  /\ permits \in Nat /\ dumper \in Fetches \cup {"nobody"}
  /\ circuit \in Circuits /\ opened \in Nat /\ account \in [Fetches -> Accounts]

\* What a request has cost before the hook that may charge it.
PaidSoFar ==
  \A q \in Fetches :
    /\ fetch[q].at \in {"new", "queued", "taken"} =>
         account[q].paid = 0 /\ fetch[q].attempt = 1
    /\ fetch[q].at \in {"queued", "taken"} => ~inline
    /\ fetch[q].at = "before" =>
         account[q].paid = fetch[q].attempt - (IF Owes(q) THEN 1 ELSE 0)

\* Nobody was let through later than now.
PassedBefore == \A q \in Fetches : account[q].passed <= opened

\* The permits are with the requests inside a context.
PermitsCounted == IsFiniteSet(Calling) /\ permits + Cardinality(Calling) = Contexts

\* Who holds the page-dump lock is about to use a context or inside one.
DumperInside == dumper # "nobody" => fetch[dumper].at \in {"permit", "calling"}

Money == PaidSoFar /\ EachAttemptPaid
Circuit == PassedBefore /\ AskedAnew
FetchInv ==
  /\ FetchTypes /\ Money /\ LimitsHeard /\ Circuit
  /\ PermitsCounted /\ DumperInside

USE FetchAssumption

\* Before the first request nothing is owed and every permit is free.
LEMMA FetchInitInv == AcqInit => FetchInv
<1> SUFFICES ASSUME AcqInit PROVE FetchInv
  OBVIOUS
<1>1. FetchTypes
  BY DEF AcqInit, FetchTypes, FetchStates, Circuits, Accounts, NoAccount, RequestKinds
<1>2. Money /\ LimitsHeard /\ Circuit /\ DumperInside
  BY DEF AcqInit, Money, PaidSoFar, EachAttemptPaid, LimitsHeard, Circuit, PassedBefore,
         AskedAnew, DumperInside, NoAccount
<1>3. Calling = {}
  BY DEF AcqInit, Calling
<1>4. PermitsCounted
  BY <1>3, FS_EmptySet DEF AcqInit, PermitsCounted
<1> QED BY <1>1, <1>2, <1>4 DEF FetchInv

\* Where a request holds no permit.
Aside == {"new", "queued", "taken", "before", "gate", "waiting", "lock", "permit",
          "captions", "succeeded", "raised", "retrying", "done"}

\* A step of a request that stays outside the contexts.
LEMMA AsideKeeps ==
  ASSUME FetchInv, NEW q \in Fetches, fetch[q].at \in Aside,
         fetch' \in [Fetches -> FetchStates],
         fetch'[q].at \in Aside, \A p \in Fetches \ {q} : fetch'[p] = fetch[p],
         UNCHANGED permits
  PROVE  PermitsCounted'
<1>1. Calling' = Calling
  BY DEF Calling, Aside
<1> QED BY <1>1 DEF FetchInv, PermitsCounted

\* A request sets out: to the queue, or straight to its hook.
LEMMA DispatchInv ==
  ASSUME FetchInv, NEW q \in Fetches, Dispatch(q)
  PROVE  FetchInv'
<1> USE DEF Dispatch, Goto, KeepContexts, KeepBreaker
<1>0. FetchTypes
  BY DEF FetchInv
<1>a. fetch' \in [Fetches -> FetchStates]
  BY <1>0 DEF FetchTypes, FetchStates
<1>b. circuit' \in Circuits /\ opened' \in Nat
  BY <1>0 DEF FetchTypes, Circuits
<1>c. account' \in [Fetches -> Accounts]
  BY <1>0 DEF FetchTypes, Accounts
<1>1. FetchTypes'
  BY <1>0, <1>a, <1>b, <1>c DEF FetchTypes
<1>2. Money'
  BY <1>0 DEF FetchInv, FetchTypes, FetchStates, Accounts, Money, PaidSoFar, EachAttemptPaid,
     Owes
<1>3. LimitsHeard'
  BY <1>0 DEF FetchInv, FetchTypes, FetchStates, Accounts, LimitsHeard
<1>4. Circuit'
  BY <1>0 DEF FetchInv, FetchTypes, FetchStates, Circuits, Accounts, Circuit,
     PassedBefore, AskedAnew
<1>5. DumperInside'
  BY <1>0 DEF FetchInv, FetchTypes, FetchStates, DumperInside
<1>6. PermitsCounted'
  BY <1>0, <1>1, AsideKeeps DEF FetchTypes, FetchStates, Aside
<1> QED BY <1>1, <1>2, <1>3, <1>4, <1>5, <1>6 DEF FetchInv

\* A worker of the queue takes it.
LEMMA TakeTaskInv ==
  ASSUME FetchInv, NEW q \in Fetches, TakeTask(q)
  PROVE  FetchInv'
<1> USE DEF TakeTask, Goto, KeepContexts, KeepBreaker
<1>0. FetchTypes
  BY DEF FetchInv
<1>a. fetch' \in [Fetches -> FetchStates]
  BY <1>0 DEF FetchTypes, FetchStates
<1>b. circuit' \in Circuits /\ opened' \in Nat
  BY <1>0 DEF FetchTypes, Circuits
<1>c. account' \in [Fetches -> Accounts]
  BY <1>0 DEF FetchTypes, Accounts
<1>1. FetchTypes'
  BY <1>0, <1>a, <1>b, <1>c DEF FetchTypes
<1>2. Money'
  BY <1>0 DEF FetchInv, FetchTypes, FetchStates, Accounts, Money, PaidSoFar, EachAttemptPaid,
     Owes
<1>3. LimitsHeard'
  BY <1>0 DEF FetchInv, FetchTypes, FetchStates, Accounts, LimitsHeard
<1>4. Circuit'
  BY <1>0 DEF FetchInv, FetchTypes, FetchStates, Circuits, Accounts, Circuit,
     PassedBefore, AskedAnew
<1>5. DumperInside'
  BY <1>0 DEF FetchInv, FetchTypes, FetchStates, DumperInside
<1>6. PermitsCounted'
  BY <1>0, <1>1, AsideKeeps DEF FetchTypes, FetchStates, Aside
<1> QED BY <1>1, <1>2, <1>3, <1>4, <1>5, <1>6 DEF FetchInv

\* The worker pays.
LEMMA WorkerPaysInv ==
  ASSUME FetchInv, NEW q \in Fetches, WorkerPays(q)
  PROVE  FetchInv'
<1> USE DEF WorkerPays, Goto, Charge, KeepContexts, KeepBreaker
<1>0. FetchTypes
  BY DEF FetchInv
<1>a. fetch' \in [Fetches -> FetchStates]
  BY <1>0 DEF FetchTypes, FetchStates
<1>b. circuit' \in Circuits /\ opened' \in Nat
  BY <1>0 DEF FetchTypes, Circuits
<1>c. account' \in [Fetches -> Accounts]
  BY <1>0 DEF FetchTypes, Accounts
<1>1. FetchTypes'
  BY <1>0, <1>a, <1>b, <1>c DEF FetchTypes
<1>2. Money'
  BY <1>0 DEF FetchInv, FetchTypes, FetchStates, Accounts, Money, PaidSoFar, EachAttemptPaid,
     Owes
<1>3. LimitsHeard'
  BY <1>0 DEF FetchInv, FetchTypes, FetchStates, Accounts, LimitsHeard
<1>4. Circuit'
  BY <1>0 DEF FetchInv, FetchTypes, FetchStates, Circuits, Accounts, Circuit,
     PassedBefore, AskedAnew
<1>5. DumperInside'
  BY <1>0 DEF FetchInv, FetchTypes, FetchStates, DumperInside
<1>6. PermitsCounted'
  BY <1>0, <1>1, AsideKeeps DEF FetchTypes, FetchStates, Aside
<1> QED BY <1>1, <1>2, <1>3, <1>4, <1>5, <1>6 DEF FetchInv

\* The hook before an attempt pays the rest.
LEMMA BeforeInv ==
  ASSUME FetchInv, NEW q \in Fetches, Before(q)
  PROVE  FetchInv'
<1> USE DEF Before, Goto, Charge, KeepContexts, KeepBreaker
<1>0. FetchTypes
  BY DEF FetchInv
<1>a. fetch' \in [Fetches -> FetchStates]
  BY <1>0 DEF FetchTypes, FetchStates
<1>b. circuit' \in Circuits /\ opened' \in Nat
  BY <1>0 DEF FetchTypes, Circuits
<1>c. account' \in [Fetches -> Accounts]
  BY <1>0 DEF FetchTypes, Accounts
<1>1. FetchTypes'
  BY <1>0, <1>a, <1>b, <1>c DEF FetchTypes
<1>2. Money'
  BY <1>0 DEF FetchInv, FetchTypes, FetchStates, Accounts, Money, PaidSoFar, EachAttemptPaid,
     Owes
<1>3. LimitsHeard'
  BY <1>0 DEF FetchInv, FetchTypes, FetchStates, Accounts, LimitsHeard
<1>4. Circuit'
  BY <1>0 DEF FetchInv, FetchTypes, FetchStates, Circuits, Accounts, Circuit,
     PassedBefore, AskedAnew
<1>5. DumperInside'
  BY <1>0 DEF FetchInv, FetchTypes, FetchStates, DumperInside
<1>6. PermitsCounted'
  BY <1>0, <1>1, AsideKeeps DEF FetchTypes, FetchStates, Aside
<1> QED BY <1>1, <1>2, <1>3, <1>4, <1>5, <1>6 DEF FetchInv

\* A failure counts, and what it opens is opened anew.
LEMMA FailCircuitFacts ==
  ASSUME circuit \in Circuits, opened \in Nat, FailCircuit
  PROVE  /\ circuit' \in Circuits /\ opened' \in Nat /\ opened <= opened'
         /\ opened' = opened /\ circuit'.state = "open" => circuit.state = "open"
<1> DEFINE opens == \/ circuit.state = "half"
                    \/ circuit.state = "closed" /\ circuit.fails + 1 >= Threshold
<1>0. circuit.state \in {"closed", "open", "half"} /\ circuit.fails \in Nat /\ circuit.over \in BOOLEAN
  BY DEF Circuits
<1>1. CASE opens
  <2>1. /\ circuit' = [state |-> "open", fails |-> circuit.fails + 1, over |-> FALSE]
        /\ opened' = opened + 1
    BY ONLY FailCircuit, <1>1 DEF FailCircuit
  <2>2. circuit' \in Circuits
    BY <1>0, <2>1 DEF Circuits
  <2> QED BY <2>1, <2>2
<1>2. CASE ~opens
  <2>1. circuit' = [circuit EXCEPT !.fails = @ + 1] /\ opened' = opened
    BY ONLY FailCircuit, <1>2 DEF FailCircuit
  <2>2. circuit' \in Circuits /\ circuit'.state = circuit.state
    BY <1>0, <2>1 DEF Circuits
  <2> QED BY <2>1, <2>2
<1> QED BY <1>1, <1>2

\* The hook after a failed attempt reports a rate limit.
LEMMA AfterInv ==
  ASSUME FetchInv, NEW q \in Fetches, After(q)
  PROVE  FetchInv'
<1> USE DEF After, Goto, Heard, KeepContexts
<1>0. FetchTypes
  BY DEF FetchInv
<1>b. /\ circuit' \in Circuits /\ opened' \in Nat /\ opened <= opened'
      /\ opened' = opened /\ circuit'.state = "open" => circuit.state = "open"
  BY <1>0, FailCircuitFacts DEF FetchTypes, KeepBreaker
<1>a. fetch' \in [Fetches -> FetchStates]
  BY <1>0 DEF FetchTypes, FetchStates
<1>c. account' \in [Fetches -> Accounts]
  BY <1>0 DEF FetchTypes, Accounts
<1>1. FetchTypes'
  BY <1>0, <1>a, <1>b, <1>c DEF FetchTypes
<1>2. Money'
  BY <1>0 DEF FetchInv, FetchTypes, FetchStates, Accounts, Money, PaidSoFar, EachAttemptPaid,
     Owes
<1>3. LimitsHeard'
  BY <1>0 DEF FetchInv, FetchTypes, FetchStates, Accounts, LimitsHeard
<1>d. /\ \A p \in Fetches : account'[p].passed = account[p].passed
      /\ \A p \in Fetches \ {q} : fetch'[p].at = fetch[p].at
      /\ fetch'[q].at \in {"retrying", "done"}
      /\ \A p \in Fetches : account[p].passed \in Nat
  <2>1. \A p \in Fetches : account'[p].passed = account[p].passed
    <3>1. CASE fetch[q].out = "limited"
      BY <3>1, <1>0 DEF FetchTypes, Accounts
    <3>2. CASE fetch[q].out # "limited"
      BY <3>2
    <3> QED BY <3>1, <3>2
  <2>2. /\ \A p \in Fetches \ {q} : fetch'[p].at = fetch[p].at
        /\ fetch'[q].at \in {"retrying", "done"}
    BY <1>0 DEF FetchTypes, FetchStates
  <2>3. \A p \in Fetches : account[p].passed \in Nat
    BY <1>0 DEF FetchTypes, Accounts
  <2> QED BY <2>1, <2>2, <2>3
<1>4. Circuit'
  <2> HIDE DEF After
  <2>0. opened \in Nat /\ Circuit
    BY <1>0 DEF FetchTypes, FetchInv
  <2>1. PassedBefore'
    BY <1>b, <1>d, <2>0 DEF Circuit, PassedBefore
  <2>2. ASSUME circuit'.state = "open", NEW p \in Fetches,
               fetch'[p].at \in {"lock", "permit", "calling", "captions"}
        PROVE  account'[p].passed < opened'
    <3>1. p # q /\ fetch[p].at \in {"lock", "permit", "calling", "captions"}
      BY <1>d, <2>2
    <3>2. account[p].passed <= opened
      BY <2>0 DEF Circuit, PassedBefore
    <3>3. CASE opened' = opened
      BY <3>1, <3>3, <1>b, <1>d, <2>0, <2>2 DEF Circuit, AskedAnew
    <3>4. CASE opened' # opened
      BY <3>2, <3>4, <1>b, <1>d, <2>0
    <3> QED BY <3>3, <3>4
  <2> QED BY <2>1, <2>2 DEF Circuit, AskedAnew
<1>5. DumperInside'
  BY <1>0 DEF FetchInv, FetchTypes, FetchStates, DumperInside
<1>6. PermitsCounted'
  BY <1>0, <1>1, AsideKeeps DEF FetchTypes, FetchStates, Aside
<1> QED BY <1>1, <1>2, <1>3, <1>4, <1>5, <1>6 DEF FetchInv

\* A failed attempt is followed by another or by the end.
LEMMA RetryInv ==
  ASSUME FetchInv, NEW q \in Fetches, Retry(q)
  PROVE  FetchInv'
<1> USE DEF Retry, KeepContexts, KeepBreaker
<1>0. FetchTypes
  BY DEF FetchInv
<1>a. fetch' \in [Fetches -> FetchStates]
  BY <1>0 DEF FetchTypes, FetchStates
<1>b. circuit' \in Circuits /\ opened' \in Nat
  BY <1>0 DEF FetchTypes, Circuits
<1>c. account' \in [Fetches -> Accounts]
  BY <1>0 DEF FetchTypes, Accounts
<1>1. FetchTypes'
  BY <1>0, <1>a, <1>b, <1>c DEF FetchTypes
<1>2. Money'
  BY <1>0 DEF FetchInv, FetchTypes, FetchStates, Accounts, Money, PaidSoFar, EachAttemptPaid,
     Owes
<1>3. LimitsHeard'
  BY <1>0 DEF FetchInv, FetchTypes, FetchStates, Accounts, LimitsHeard
<1>4. Circuit'
  BY <1>0 DEF FetchInv, FetchTypes, FetchStates, Circuits, Accounts, Circuit,
     PassedBefore, AskedAnew
<1>5. DumperInside'
  BY <1>0 DEF FetchInv, FetchTypes, FetchStates, DumperInside
<1>6. PermitsCounted'
  BY <1>0, <1>1, AsideKeeps DEF FetchTypes, FetchStates, Aside
<1> QED BY <1>1, <1>2, <1>3, <1>4, <1>5, <1>6 DEF FetchInv

\* Who is let through has asked a breaker that is not OPEN afterwards.
LEMMA PassInv ==
  ASSUME FetchInv, NEW q \in Fetches, fetch[q].at \in {"gate", "waiting"}, LetThrough(q),
         KeepContexts, UNCHANGED <<inline, kind, opened>>
  PROVE  FetchInv'
<1> USE DEF KeepContexts
<1>0. FetchTypes
  BY DEF FetchInv
<1>f. /\ fetch' \in [Fetches -> FetchStates]
      /\ fetch'[q].at = "permit" /\ fetch'[q].attempt = fetch[q].attempt
      /\ \A p \in Fetches \ {q} : fetch'[p] = fetch[p]
  <2> DEFINE r == [at |-> "permit", attempt |-> fetch[q].attempt, page |-> 1,
                   out |-> fetch[q].out]
  <2>1. fetch[q] \in FetchStates
    BY <1>0 DEF FetchTypes
  <2>2. r \in FetchStates
    BY <2>1 DEF FetchStates
  <2>3. /\ fetch'[q] = r /\ \A p \in Fetches \ {q} : fetch'[p] = fetch[p]
        /\ fetch' = [p \in Fetches |-> IF p = q THEN fetch'[q] ELSE fetch[p]]
    BY <1>0 DEF LetThrough, FetchTypes, FetchStates
  <2> HIDE DEF r
  <2>4. fetch' \in [Fetches -> FetchStates]
    BY <2>2, <2>3, <1>0 DEF FetchTypes
  <2> QED BY <2>3, <2>4 DEF r
<1>c. circuit' \in Circuits /\ circuit'.state # "open"
  <2>1. CASE circuit.state = "open"
    <3>1. circuit' = [circuit EXCEPT !.state = "half", !.over = FALSE]
      BY <2>1 DEF LetThrough, MayPass, Allowed
    <3> QED BY <3>1, <1>0 DEF FetchTypes, Circuits
  <2>2. CASE circuit.state # "open"
    BY <2>2, <1>0 DEF LetThrough, FetchTypes
  <2> QED BY <2>1, <2>2
<1>a. /\ account' \in [Fetches -> Accounts] /\ account'[q].passed = opened
      /\ account'[q].paid = account[q].paid /\ account'[q].heard = account[q].heard
      /\ account'[q].limited = account[q].limited
      /\ \A p \in Fetches \ {q} : account'[p] = account[p]
  BY <1>0 DEF LetThrough, FetchTypes, Accounts
<1>1. FetchTypes'
  BY <1>0, <1>f, <1>c, <1>a DEF FetchTypes
<1>2. Money'
  BY <1>0, <1>f, <1>a DEF FetchInv, Money, PaidSoFar, EachAttemptPaid, Owes
<1>3. LimitsHeard'
  BY <1>0, <1>f, <1>a DEF FetchInv, LimitsHeard
<1>4. Circuit'
  BY <1>0, <1>c, <1>a DEF FetchInv, FetchTypes, Circuit, PassedBefore, AskedAnew
<1>5. DumperInside'
  BY <1>0, <1>f DEF FetchInv, FetchTypes, DumperInside
<1>6. PermitsCounted'
  BY <1>f, AsideKeeps DEF Aside
<1> QED BY <1>1, <1>2, <1>3, <1>4, <1>5, <1>6 DEF FetchInv

\* The breaker lets an attempt through or makes it wait.
LEMMA AskBreakerInv ==
  ASSUME FetchInv, NEW q \in Fetches, AskBreaker(q)
  PROVE  FetchInv'
<1>1. CASE LetThrough(q)
  BY <1>1, PassInv DEF AskBreaker
<1>2. CASE ~LetThrough(q)
  <2> USE DEF AskBreaker, Goto, KeepContexts
  <2>0. FetchTypes
    BY DEF FetchInv
  <2>1. FetchTypes'
    BY <1>2, <2>0 DEF FetchTypes, FetchStates
  <2>2. Money'
    BY <1>2, <2>0 DEF FetchInv, FetchTypes, FetchStates, Money, PaidSoFar, EachAttemptPaid,
       Owes
  <2>3. LimitsHeard' /\ Circuit' /\ DumperInside'
    BY <1>2, <2>0 DEF FetchInv, FetchTypes, FetchStates, LimitsHeard, Circuit, PassedBefore,
       AskedAnew, DumperInside
  <2>4. PermitsCounted'
    BY <1>2, <2>0, <2>1, AsideKeeps DEF FetchTypes, FetchStates, Aside
  <2> QED BY <2>1, <2>2, <2>3, <2>4 DEF FetchInv
<1> QED BY <1>1, <1>2

\* A wait for the breaker ends in passing it.
LEMMA WaitOutInv ==
  ASSUME FetchInv, NEW q \in Fetches, WaitOut(q)
  PROVE  FetchInv'
  BY PassInv DEF WaitOut

\* The page dump is one at a time.
LEMMA TakeLockInv ==
  ASSUME FetchInv, NEW q \in Fetches, TakeLock(q)
  PROVE  FetchInv'
<1> USE DEF TakeLock, Goto, KeepBreaker
<1>0. FetchTypes
  BY DEF FetchInv
<1>a. fetch' \in [Fetches -> FetchStates]
  BY <1>0 DEF FetchTypes, FetchStates
<1>b. circuit' \in Circuits /\ opened' \in Nat
  BY <1>0 DEF FetchTypes, Circuits
<1>c. account' \in [Fetches -> Accounts]
  BY <1>0 DEF FetchTypes, Accounts
<1>1. FetchTypes'
  BY <1>0, <1>a, <1>b, <1>c DEF FetchTypes
<1>2. Money'
  BY <1>0 DEF FetchInv, FetchTypes, FetchStates, Accounts, Money, PaidSoFar, EachAttemptPaid,
     Owes
<1>3. LimitsHeard'
  BY <1>0 DEF FetchInv, FetchTypes, FetchStates, Accounts, LimitsHeard
<1>4. Circuit'
  BY <1>0 DEF FetchInv, FetchTypes, FetchStates, Circuits, Accounts, Circuit,
     PassedBefore, AskedAnew
<1>5. DumperInside'
  BY <1>0 DEF FetchInv, FetchTypes, FetchStates, DumperInside
<1>6. PermitsCounted'
  BY <1>0, <1>1, AsideKeeps DEF FetchTypes, FetchStates, Aside
<1> QED BY <1>1, <1>2, <1>3, <1>4, <1>5, <1>6 DEF FetchInv

\* Captions are fetched outside the limiter.
LEMMA FetchCaptionInv ==
  ASSUME FetchInv, NEW q \in Fetches, FetchCaption(q)
  PROVE  FetchInv'
<1> USE DEF FetchCaption, KeepContexts, KeepBreaker
<1>0. FetchTypes
  BY DEF FetchInv
<1>a. fetch' \in [Fetches -> FetchStates]
  <2>1. PICK out \in {"ok", "limited", "network", "permanent"} :
          fetch' = [fetch EXCEPT ![q].at = IF out = "ok" THEN "succeeded" ELSE "raised",
                                 ![q].out = out]
    OBVIOUS
  <2> DEFINE to == IF out = "ok" THEN "succeeded" ELSE "raised"
  <2> DEFINE r == [at |-> to, attempt |-> fetch[q].attempt, page |-> fetch[q].page,
                   out |-> out]
  <2>2. fetch[q] \in FetchStates
    BY <1>0 DEF FetchTypes
  <2>3. r \in FetchStates
    BY <2>2 DEF FetchStates
  <2> HIDE DEF FetchCaption, to
  <2>6. fetch' = [fetch EXCEPT ![q].at = to, ![q].out = out]
    BY <2>1 DEF to
  <2>4. /\ fetch'[q] = r
        /\ fetch' = [p \in Fetches |-> IF p = q THEN fetch'[q] ELSE fetch[p]]
    BY <1>0, <2>6 DEF FetchTypes, FetchStates
  <2> HIDE DEF r
  <2> QED BY <2>3, <2>4, <1>0 DEF FetchTypes
<1>b. circuit' \in Circuits /\ opened' \in Nat
  BY <1>0 DEF FetchTypes, Circuits
<1>c. account' \in [Fetches -> Accounts]
  BY <1>0 DEF FetchTypes, Accounts
<1>1. FetchTypes'
  BY <1>0, <1>a, <1>b, <1>c DEF FetchTypes
<1>2. Money'
  BY <1>0 DEF FetchInv, FetchTypes, FetchStates, Accounts, Money, PaidSoFar, EachAttemptPaid,
     Owes
<1>3. LimitsHeard'
  BY <1>0 DEF FetchInv, FetchTypes, FetchStates, Accounts, LimitsHeard
<1>4. Circuit'
  BY <1>0 DEF FetchInv, FetchTypes, FetchStates, Circuits, Accounts, Circuit,
     PassedBefore, AskedAnew
<1>5. DumperInside'
  BY <1>0 DEF FetchInv, FetchTypes, FetchStates, DumperInside
<1>6. PermitsCounted'
  BY <1>0, <1>1, AsideKeeps DEF FetchTypes, FetchStates, Aside
<1> QED BY <1>1, <1>2, <1>3, <1>4, <1>5, <1>6 DEF FetchInv

\* A success is recorded.
LEMMA SucceedInv ==
  ASSUME FetchInv, NEW q \in Fetches, Succeed(q)
  PROVE  FetchInv'
<1> USE DEF Succeed, Goto, KeepContexts
<1>0. FetchTypes
  BY DEF FetchInv
<1>a. fetch' \in [Fetches -> FetchStates]
  BY <1>0 DEF FetchTypes, FetchStates
<1>b. circuit' \in Circuits /\ opened' \in Nat
  BY <1>0 DEF FetchTypes, Circuits
<1>c. account' \in [Fetches -> Accounts]
  BY <1>0 DEF FetchTypes, Accounts
<1>1. FetchTypes'
  BY <1>0, <1>a, <1>b, <1>c DEF FetchTypes
<1>2. Money'
  BY <1>0 DEF FetchInv, FetchTypes, FetchStates, Accounts, Money, PaidSoFar, EachAttemptPaid,
     Owes
<1>3. LimitsHeard'
  BY <1>0 DEF FetchInv, FetchTypes, FetchStates, Accounts, LimitsHeard
<1>4. Circuit'
  BY <1>0 DEF FetchInv, FetchTypes, FetchStates, Circuits, Accounts, Circuit,
     PassedBefore, AskedAnew
<1>5. DumperInside'
  BY <1>0 DEF FetchInv, FetchTypes, FetchStates, DumperInside
<1>6. PermitsCounted'
  BY <1>0, <1>1, AsideKeeps DEF FetchTypes, FetchStates, Aside
<1> QED BY <1>1, <1>2, <1>3, <1>4, <1>5, <1>6 DEF FetchInv

\* A context is opened with a permit.
LEMMA PermitInv ==
  ASSUME FetchInv, NEW q \in Fetches, TakePermit(q)
  PROVE  FetchInv'
<1> USE DEF TakePermit, Goto, KeepBreaker
<1>0. FetchTypes
  BY DEF FetchInv
<1>a. fetch' \in [Fetches -> FetchStates]
  BY <1>0 DEF FetchTypes, FetchStates
<1>b. circuit' \in Circuits /\ opened' \in Nat
  BY <1>0 DEF FetchTypes, Circuits
<1>c. account' \in [Fetches -> Accounts]
  BY <1>0 DEF FetchTypes, Accounts
<1>1. FetchTypes'
  BY <1>0, <1>a, <1>b, <1>c DEF FetchTypes
<1>2. Money'
  BY <1>0 DEF FetchInv, FetchTypes, FetchStates, Accounts, Money, PaidSoFar, EachAttemptPaid,
     Owes
<1>3. LimitsHeard'
  BY <1>0 DEF FetchInv, FetchTypes, FetchStates, Accounts, LimitsHeard
<1>4. Circuit'
  BY <1>0 DEF FetchInv, FetchTypes, FetchStates, Circuits, Accounts, Circuit,
     PassedBefore, AskedAnew
<1>5. DumperInside'
  BY <1>0 DEF FetchInv, FetchTypes, FetchStates, DumperInside
<1>6. Calling' = Calling \cup {q} /\ q \notin Calling
  BY <1>0 DEF FetchTypes, FetchStates, Calling
<1>7. IsFiniteSet(Calling') /\ Cardinality(Calling') = Cardinality(Calling) + 1
  BY <1>6, FS_AddElement DEF FetchInv, PermitsCounted
<1>8. Cardinality(Calling) \in Nat
  BY FS_CardinalityType DEF FetchInv, PermitsCounted
<1>9. PermitsCounted'
  BY <1>0, <1>7, <1>8 DEF FetchInv, FetchTypes, PermitsCounted
<1> QED BY <1>1, <1>2, <1>3, <1>4, <1>5, <1>9 DEF FetchInv

\* It is closed with one, however the call ended.
LEMMA EndCallInv ==
  ASSUME FetchInv, NEW q \in Fetches, EndCall(q)
  PROVE  FetchInv'
<1>0. FetchTypes /\ fetch[q].at = "calling"
  BY DEF FetchInv, EndCall
<1>p. PICK out \in {"ok", "skip", "limited", "network", "permanent"} :
        \E to \in Onward(q, out) :
          /\ fetch' = [fetch EXCEPT ![q].at = to, ![q].out = Raised(q, out),
                         ![q].page = IF to \in {"lock", "permit"} THEN @ + 1 ELSE 1]
          /\ permits' = Release(out)
          /\ account' = [account EXCEPT ![q].limited = @ + (IF out = "limited" THEN 1 ELSE 0)]
  BY DEF EndCall
<1>1. PICK to \in Onward(q, out) :
        /\ fetch' = [fetch EXCEPT ![q].at = to, ![q].out = Raised(q, out),
                       ![q].page = IF to \in {"lock", "permit"} THEN @ + 1 ELSE 1]
        /\ permits' = Release(out)
        /\ account' = [account EXCEPT ![q].limited = @ + (IF out = "limited" THEN 1 ELSE 0)]
  BY <1>p
<1> DEFINE page == IF to \in {"lock", "permit"} THEN fetch[q].page + 1 ELSE 1
<1>2. /\ to \in {"succeeded", "raised", "permit", "lock", "captions"} /\ page \in 1..3
      /\ out = "limited" /\ kind[q] \in {"video", "transcript"} => to = "raised"
  BY <1>0 DEF Onward, AfterVideo, AfterTranscript, AfterChannel, AfterRecommendations,
              FetchTypes, FetchStates, RequestKinds
<1>3. /\ Raised(q, out) \in {"ok", "skip", "limited", "network", "permanent"}
      /\ Raised(q, out) = "limited" => out = "limited"
      /\ out = "limited" /\ kind[q] \in {"video", "transcript"} => Raised(q, out) = "limited"
  BY DEF Raised
<1>4. /\ fetch'[q] = [at |-> to, attempt |-> fetch[q].attempt, page |-> page,
                      out |-> Raised(q, out)]
      /\ \A p \in Fetches \ {q} : fetch'[p] = fetch[p]
      /\ fetch' = [p \in Fetches |-> IF p = q THEN fetch'[q] ELSE fetch[p]]
  BY <1>0, <1>1 DEF FetchTypes, FetchStates, Accounts
<1>5. /\ account'[q] = [account[q] EXCEPT !.limited = @ + (IF out = "limited" THEN 1 ELSE 0)]
      /\ \A p \in Fetches \ {q} : account'[p] = account[p]
      /\ account' = [p \in Fetches |-> IF p = q THEN account'[q] ELSE account[p]]
  BY <1>0, <1>1 DEF FetchTypes, FetchStates, Accounts
<1>6. UNCHANGED <<inline, kind, circuit, opened>> /\ dumper' = (IF dumper = q THEN "nobody" ELSE dumper)
  BY DEF EndCall, KeepBreaker
<1>7. permits' = permits + 1
  BY <1>1 DEF Release
<1> HIDE DEF page
<1>8. FetchTypes'
  BY <1>0, <1>2, <1>3, <1>4, <1>5, <1>6, <1>7 DEF FetchTypes, FetchStates, Accounts
<1>9. Money'
  BY <1>0, <1>2, <1>4, <1>5, <1>6 DEF FetchInv, FetchTypes, FetchStates, Accounts, Money, PaidSoFar, EachAttemptPaid,
     Owes
<1>10. LimitsHeard'
  BY <1>0, <1>2, <1>3, <1>4, <1>5, <1>6 DEF FetchInv, FetchTypes, FetchStates, Accounts, LimitsHeard
<1>11. Circuit'
  BY <1>0, <1>2, <1>4, <1>5, <1>6 DEF FetchInv, FetchTypes, FetchStates, Circuits, Accounts, Circuit,
     PassedBefore, AskedAnew
<1>12. DumperInside'
  BY <1>0, <1>4, <1>6 DEF FetchInv, FetchTypes, FetchStates, DumperInside
<1>13. Calling' = Calling \ {q} /\ q \in Calling
  BY <1>0, <1>2, <1>4 DEF FetchTypes, FetchStates, Calling
<1>14. IsFiniteSet(Calling') /\ Cardinality(Calling') = Cardinality(Calling) - 1
  BY <1>13, FS_RemoveElement DEF FetchInv, PermitsCounted
<1>15. PermitsCounted'
  BY <1>0, <1>7, <1>14, FS_CardinalityType DEF FetchInv, FetchTypes, PermitsCounted
<1> QED BY <1>8, <1>9, <1>10, <1>11, <1>12, <1>15 DEF FetchInv

\* Every step keeps the invariant; the end of a cooldown moves nobody.
LEMMA FetchStepInv == FetchInv /\ [AcqNext]_acqVars => FetchInv'
<1> SUFFICES ASSUME FetchInv, [AcqNext]_acqVars PROVE FetchInv'
  OBVIOUS
<1>1. CASE CooldownOver
  <2>1. circuit' \in Circuits /\ circuit'.state = circuit.state
    BY <1>1 DEF CooldownOver, FetchInv, FetchTypes, Circuits
  <2> QED BY <1>1, <2>1 DEF CooldownOver, FetchInv, FetchTypes, Money, PaidSoFar,
         EachAttemptPaid, Owes, LimitsHeard, Circuit, PassedBefore, AskedAnew, PermitsCounted,
         Calling, DumperInside
<1>2. CASE UNCHANGED acqVars
  BY <1>2 DEF acqVars, FetchInv, FetchTypes, Money, PaidSoFar, EachAttemptPaid, Owes,
     LimitsHeard, Circuit, PassedBefore, AskedAnew, PermitsCounted, Calling, DumperInside
<1>3. ASSUME NEW q \in Fetches, Dispatch(q) \/ FetchStep(q) PROVE FetchInv'
  BY <1>3, DispatchInv, TakeTaskInv, WorkerPaysInv, BeforeInv, AfterInv, RetryInv,
     AskBreakerInv, WaitOutInv, TakeLockInv, PermitInv, EndCallInv, FetchCaptionInv,
     SucceedInv DEF FetchStep
<1> QED BY <1>1, <1>2, <1>3 DEF AcqNext

\* The count of the permits bounds them.
LEMMA FetchInvSound == FetchInv => FetchSound
<1> SUFFICES ASSUME FetchInv PROVE FetchSound
  OBVIOUS
<1>1. Cardinality(Calling) \in Nat
  BY FS_CardinalityType DEF FetchInv, PermitsCounted
<1>2. permits \in 0..Contexts
  BY <1>1 DEF FetchInv, FetchTypes, PermitsCounted
<1>3. AcqTypeOK
  BY <1>2 DEF FetchInv, FetchTypes, FetchStates, Circuits, Accounts, AcqTypeOK
<1>4. ContextsKept
  BY DEF FetchInv, ContextsKept, PermitsCounted, DumperInside, Calling
<1> QED BY <1>3, <1>4 DEF FetchInv, FetchSound, Money, Circuit

\* For any number of requests, queue workers, permits and attempts, with and
\* without a queue: every attempt is paid for once, every rate limit of a video
\* or transcript is reported, a retry asks the breaker anew, and permits and
\* the page-dump lock come back (retry.py:60-110, yt_dlp_adapter.py:225-330).
THEOREM FetchSoundHolds == AcqSpec => []FetchSound
<1>1. AcqInit => FetchInv
  BY FetchInitInv
<1>2. FetchInv /\ [AcqNext]_acqVars => FetchInv'
  BY FetchStepInv
<1>3. FetchInv => FetchSound
  BY FetchInvSound
<1> QED BY <1>1, <1>2, <1>3, PTL DEF AcqSpec
=============================================================================
