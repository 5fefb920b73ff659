----------------------- MODULE BudgetControllerProofs -----------------------
(***************************************************************************)
(* Proofs about BudgetController, for every set of threads, costs and      *)
(* spacings and every choice of the AIMD parameters.                       *)
(***************************************************************************)
EXTENDS BudgetController, TLAPS

\* _next_slot is never before the end of a reservation still running.
AheadOfAll == \A t \in Threads : wait[t] <= until[t] /\ until[t] <= ahead

\* The cooldown is at least what is missing of one since the last decrease.
CoolsLongEnough == AimdCooldown <= cooling + quiet

Inv == BudgetTypeOK /\ SlotsDisjoint /\ AheadOfAll /\ DriftBounded /\ CoolsLongEnough

USE SpacingAssumption, RatioAssumption, PeriodAssumption

\* A baseline lies between its own floor and ceiling.
LEMMA FloorCeiling ==
  ASSUME NEW b \in Nat
  PROVE  /\ b \div FloorDiv \in Nat /\ b * CeilingMul \in Nat
         /\ b \div FloorDiv <= b /\ b <= b * CeilingMul
<1>1. \A d \in Nat \ {0} : b \div d \in Nat /\ b \div d <= b
  OBVIOUS
<1>2. \A m \in Nat \ {0} : b * m \in Nat /\ b <= b * m
  OBVIOUS
<1> QED BY <1>1, <1>2

\* The controller starts with its baseline and no reservation.
LEMMA InitInv == BudgetInit => Inv
<1> SUFFICES ASSUME BudgetInit PROVE Inv
  OBVIOUS
<1>1. BudgetTypeOK
  <2>1. /\ interval \in Nat /\ anchor \in Nat /\ ahead \in Nat
        /\ nextCheck \in 0 .. IncreaseInterval
        /\ cooling \in 0 .. AimdCooldown /\ quiet \in 0 .. AimdCooldown
    BY DEF BudgetInit
  <2>2. /\ pc \in [Threads -> BudgetPlaces] /\ tuned \in [Threads -> BOOLEAN]
        /\ wait \in [Threads -> Nat] /\ until \in [Threads -> Nat]
        /\ seen \in [Threads -> Nat]
    BY DEF BudgetInit, BudgetPlaces
  <2>3. tuning \in BOOLEAN /\ doubled \in BOOLEAN
    BY DEF BudgetInit
  <2> QED BY <2>1, <2>2, <2>3 DEF BudgetTypeOK
<1>2. SlotsDisjoint /\ AheadOfAll /\ CoolsLongEnough
  BY DEF BudgetInit, SlotsDisjoint, AheadOfAll, CoolsLongEnough
<1>3. DriftBounded
  BY FloorCeiling DEF BudgetInit, DriftBounded, Floor, Ceiling
<1> QED BY <1>1, <1>2, <1>3 DEF Inv

\* An additive increase stays at or above the floor, never slows down, and
\* changes nothing while a decrease cools down.
LEMMA IncreaseFacts ==
  ASSUME BudgetTypeOK, DriftBounded, ~tuning, MaybeIncrease
  PROVE  /\ interval' \in Nat /\ nextCheck' \in 0 .. IncreaseInterval
         /\ Floor <= interval' /\ interval' <= Ceiling
         /\ interval' # interval => cooling = 0
<1>1. Floor \in Nat /\ Ceiling \in Nat
  BY FloorCeiling DEF BudgetTypeOK, Floor, Ceiling
<1>2. (interval * Keep) \div 100 \in Nat
  BY DEF BudgetTypeOK
<1>3. Faster(interval) \in Nat /\ Floor <= Faster(interval)
  BY <1>1, <1>2 DEF Faster, Larger
<1> QED BY <1>1, <1>3 DEF MaybeIncrease, Smaller, BudgetTypeOK, DriftBounded

\* A reservation starts where the last one ended.
LEMMA ReserveInv ==
  ASSUME Inv, NEW t \in Threads, NEW c \in Costs, Reserve(t, c)
  PROVE  Inv'
<1>1. /\ interval' \in Nat /\ nextCheck' \in 0 .. IncreaseInterval
      /\ Floor <= interval' /\ interval' <= Ceiling
  BY IncreaseFacts DEF Inv, Reserve
<1> DEFINE len == interval' * c
<1>2. len \in Nat
  <2>1. \A m, n \in Nat : m * n \in Nat
    OBVIOUS
  <2> QED BY <1>1, <2>1
<1>3. /\ ahead' = ahead + len
      /\ wait' = [wait EXCEPT ![t] = ahead]
      /\ until' = [until EXCEPT ![t] = ahead + len]
      /\ Move(t, "reserve", "waiting")
      /\ UNCHANGED <<anchor, tuning, cooling, quiet, seen, doubled, tuned>>
  BY DEF Reserve
<1> HIDE DEF len
<1>4. BudgetTypeOK'
  <2>1. /\ interval' \in Nat /\ anchor' \in Nat /\ ahead' \in Nat
        /\ nextCheck' \in 0 .. IncreaseInterval
        /\ cooling' \in 0 .. AimdCooldown /\ quiet' \in 0 .. AimdCooldown
    BY <1>1, <1>2, <1>3 DEF Inv, BudgetTypeOK, Move, BudgetPlaces
  <2>2. /\ pc' \in [Threads -> BudgetPlaces] /\ tuned' \in [Threads -> BOOLEAN]
        /\ wait' \in [Threads -> Nat] /\ until' \in [Threads -> Nat]
        /\ seen' \in [Threads -> Nat]
    BY <1>1, <1>2, <1>3 DEF Inv, BudgetTypeOK, Move, BudgetPlaces
  <2>3. tuning' \in BOOLEAN /\ doubled' \in BOOLEAN
    BY <1>1, <1>2, <1>3 DEF Inv, BudgetTypeOK, Move, BudgetPlaces
  <2> QED BY <2>1, <2>2, <2>3 DEF BudgetTypeOK
<1>5. SlotsDisjoint' /\ AheadOfAll'
  BY <1>2, <1>3 DEF Inv, BudgetTypeOK, SlotsDisjoint, AheadOfAll
<1>6. DriftBounded' /\ CoolsLongEnough'
  BY <1>1 DEF Reserve, Inv, DriftBounded, CoolsLongEnough, Floor, Ceiling
<1> QED BY <1>4, <1>5, <1>6 DEF Inv

\* Entering, being admitted, working and being judged reserve nothing.
LEMMA QuietInv ==
  ASSUME Inv, NEW t \in Threads,
         \/ Enter(t) \/ Admit(t) \/ WorkEnd(t)
         \/ ReadInterval(t) \/ Judge(t) \/ Report(t)
  PROVE  Inv'
<1> USE DEF Enter, Admit, WorkEnd, ReadInterval, Judge, Report, Move, rateVars,
            clockVars, slotVars
<1>1. BudgetTypeOK'
  <2>1. /\ interval' \in Nat /\ anchor' \in Nat /\ ahead' \in Nat
        /\ nextCheck' \in 0 .. IncreaseInterval
        /\ cooling' \in 0 .. AimdCooldown /\ quiet' \in 0 .. AimdCooldown
    BY DEF Inv, BudgetTypeOK, BudgetPlaces
  <2>2. /\ pc' \in [Threads -> BudgetPlaces] /\ tuned' \in [Threads -> BOOLEAN]
        /\ wait' \in [Threads -> Nat] /\ until' \in [Threads -> Nat]
        /\ seen' \in [Threads -> Nat]
    <3>1. pc' \in [Threads -> BudgetPlaces]
      BY DEF Inv, BudgetTypeOK, BudgetPlaces
    <3>2. tuned' \in [Threads -> BOOLEAN]
      BY DEF Inv, BudgetTypeOK
    <3>3. wait' \in [Threads -> Nat] /\ until' \in [Threads -> Nat]
      BY DEF Inv, BudgetTypeOK
    <3>4. seen' \in [Threads -> Nat]
      BY DEF Inv, BudgetTypeOK
    <3> QED BY <3>1, <3>2, <3>3, <3>4
  <2>3. tuning' \in BOOLEAN /\ doubled' \in BOOLEAN
    BY DEF Inv, BudgetTypeOK, BudgetPlaces
  <2> QED BY <2>1, <2>2, <2>3 DEF BudgetTypeOK
<1>2. SlotsDisjoint' /\ AheadOfAll'
  BY DEF Inv, BudgetTypeOK, SlotsDisjoint, AheadOfAll
<1>3. DriftBounded' /\ CoolsLongEnough'
  BY DEF Inv, DriftBounded, CoolsLongEnough, Floor, Ceiling
<1> QED BY <1>1, <1>2, <1>3 DEF Inv

\* A decrease stops at the ceiling and starts a cooldown.
LEMMA CountInv ==
  ASSUME Inv, NEW t \in Threads, Count(t)
  PROVE  Inv'
<1>1. Floor \in Nat /\ Ceiling \in Nat
  BY FloorCeiling DEF Inv, BudgetTypeOK, Floor, Ceiling
<1>2. Saturated(interval) \in BOOLEAN
  BY DEF Saturated
<1>3. BudgetTypeOK'
  <2>1. /\ interval' \in Nat /\ anchor' \in Nat /\ ahead' \in Nat
        /\ nextCheck' \in 0 .. IncreaseInterval
        /\ cooling' \in 0 .. AimdCooldown /\ quiet' \in 0 .. AimdCooldown
    BY <1>1, <1>2 DEF Inv, BudgetTypeOK, Count, Move, BudgetPlaces, Larger, Smaller, slotVars
  <2>2. /\ pc' \in [Threads -> BudgetPlaces] /\ tuned' \in [Threads -> BOOLEAN]
        /\ wait' \in [Threads -> Nat] /\ until' \in [Threads -> Nat]
        /\ seen' \in [Threads -> Nat]
    BY <1>1, <1>2 DEF Inv, BudgetTypeOK, Count, Move, BudgetPlaces, Larger, Smaller, slotVars
  <2>3. tuning' \in BOOLEAN /\ doubled' \in BOOLEAN
    BY <1>1, <1>2 DEF Inv, BudgetTypeOK, Count, Move, BudgetPlaces, Larger, Smaller, slotVars
  <2> QED BY <2>1, <2>2, <2>3 DEF BudgetTypeOK
<1>4. SlotsDisjoint' /\ AheadOfAll'
  BY DEF Inv, SlotsDisjoint, AheadOfAll, Count, slotVars
<1>5. interval' \in Nat /\ Floor <= interval' /\ interval' <= Ceiling
  BY <1>1 DEF Inv, BudgetTypeOK, DriftBounded, Count, Larger, Smaller
<1>6. DriftBounded'
  BY <1>5 DEF DriftBounded, Count, Floor, Ceiling
<1>7. CoolsLongEnough'
  BY DEF Inv, BudgetTypeOK, CoolsLongEnough, Count
<1> QED BY <1>3, <1>4, <1>6, <1>7 DEF Inv

\* Tuning selects a baseline, which lies within its own bounds; reservations
\* already made are kept.
LEMMA TuneInv ==
  ASSUME Inv, (\E b \in Baselines : Tune(b)) \/ ReAnchor
  PROVE  Inv'
<1>1. BudgetTypeOK'
  <2>1. /\ interval' \in Nat /\ anchor' \in Nat
        /\ UNCHANGED <<ahead, nextCheck, cooling, quiet, pc, wait, until, seen>>
    BY DEF Inv, BudgetTypeOK, Tune, ReAnchor, clockVars, slotVars
  <2>2. tuning' \in BOOLEAN /\ doubled' \in BOOLEAN
    <3>1. CASE \E b \in Baselines : Tune(b)
      BY <3>1 DEF Inv, BudgetTypeOK, Tune
    <3>2. CASE ReAnchor
      BY <3>2 DEF ReAnchor
    <3> QED BY <3>1, <3>2
  <2>3. tuned' \in [Threads -> BOOLEAN]
    <3>1. CASE \E b \in Baselines : Tune(b)
      BY <3>1 DEF Tune
    <3>2. CASE ReAnchor
      BY <3>2 DEF ReAnchor, Inv, BudgetTypeOK
    <3> QED BY <3>1, <3>2
  <2> QED BY <2>1, <2>2, <2>3 DEF Inv, BudgetTypeOK
<1>2. SlotsDisjoint' /\ AheadOfAll' /\ CoolsLongEnough'
  BY DEF Inv, SlotsDisjoint, AheadOfAll, CoolsLongEnough, Tune, ReAnchor,
         clockVars, slotVars
<1>3. DriftBounded'
  BY FloorCeiling DEF Inv, BudgetTypeOK, DriftBounded, Floor, Ceiling, Tune, ReAnchor
<1> QED BY <1>1, <1>2, <1>3 DEF Inv

\* Time brings all reservations nearer alike.
LEMMA TickInv ==
  ASSUME Inv, Tick
  PROVE  Inv'
<1>1. \A n \in Nat : Less(n) \in Nat /\ Less(n) <= n /\ (n > 0 => Less(n) = n - 1)
  BY DEF Less
<1>2. \A m, n \in Nat : m <= n => Less(m) <= Less(n)
  BY DEF Less
<1>3. BudgetTypeOK'
  BY <1>1 DEF Inv, BudgetTypeOK, Tick, Smaller, rateVars
<1>4. SlotsDisjoint' /\ AheadOfAll'
  BY <1>1, <1>2 DEF Inv, BudgetTypeOK, SlotsDisjoint, AheadOfAll, Tick
<1>5. DriftBounded'
  BY DEF Inv, DriftBounded, Floor, Ceiling, Tick, rateVars
<1>6. CoolsLongEnough'
  BY DEF Inv, BudgetTypeOK, CoolsLongEnough, Tick, Smaller, Less
<1> QED BY <1>3, <1>4, <1>5, <1>6 DEF Inv

\* Every step keeps Inv.
LEMMA StepInv == Inv /\ [BudgetNext]_budgetVars => Inv'
<1> SUFFICES ASSUME Inv, [BudgetNext]_budgetVars PROVE Inv'
  OBVIOUS
<1>1. CASE UNCHANGED budgetVars
  BY <1>1 DEF budgetVars, rateVars, clockVars, slotVars, Inv, BudgetTypeOK, SlotsDisjoint,
              AheadOfAll, DriftBounded, CoolsLongEnough, Floor, Ceiling
<1>2. ASSUME NEW t \in Threads, Acquire(t) \/ WorkEnd(t) \/ OnRateLimited(t)
      PROVE  Inv'
  <2>1. CASE \E c \in Costs : Reserve(t, c)
    BY <2>1, ReserveInv
  <2>2. CASE Count(t)
    BY <2>2, CountInv
  <2>3. CASE \/ Enter(t) \/ Admit(t) \/ WorkEnd(t)
             \/ ReadInterval(t) \/ Judge(t) \/ Report(t)
    BY <2>3, QuietInv
  <2> QED BY <1>2, <2>1, <2>2, <2>3 DEF Acquire, OnRateLimited
<1>3. CASE (\E b \in Baselines : Tune(b)) \/ ReAnchor
  BY <1>3, TuneInv
<1>4. CASE Tick
  BY <1>4, TickInv
<1> QED BY <1>1, <1>2, <1>3, <1>4 DEF BudgetNext

\* Inv holds in every reachable state, and with it the type invariant.
THEOREM BudgetInvariant == BudgetSpec => []Inv
<1>1. BudgetInit => Inv
  BY InitInv
<1>2. Inv /\ [BudgetNext]_budgetVars => Inv'
  BY StepInv
<1> QED BY <1>1, <1>2, PTL DEF BudgetSpec

\* Reservations of different threads never overlap, for any number of
\* threads, any costs and any sequence of tunings and 429s.
THEOREM SlotsDisjointHolds == BudgetSpec => []SlotsDisjoint
<1>1. Inv => SlotsDisjoint
  BY DEF Inv
<1> QED BY <1>1, BudgetInvariant, PTL

\* The adaptive drift stays within the bounds of the selected baseline.
THEOREM DriftBoundedHolds == BudgetSpec => []DriftBounded
<1>1. Inv => DriftBounded
  BY DEF Inv
<1> QED BY <1>1, BudgetInvariant, PTL

\* For a cooldown after a decrease only the operator changes the interval.
THEOREM BackoffHeldHolds == BudgetSpec => BackoffHeld
<1>1. Inv /\ [BudgetNext]_budgetVars
        => [interval' # interval /\ ~tuning' => quiet = AimdCooldown]_budgetVars
  <2> SUFFICES ASSUME Inv, BudgetNext, interval' # interval, ~tuning'
               PROVE  quiet = AimdCooldown
    OBVIOUS
  <2>1. cooling = 0 => quiet = AimdCooldown
    BY DEF Inv, BudgetTypeOK, CoolsLongEnough
  <2>2. cooling = 0
    <3>1. ASSUME NEW t \in Threads, Acquire(t) \/ WorkEnd(t) \/ OnRateLimited(t)
          PROVE  cooling = 0
      <4>1. CASE \E c \in Costs : Reserve(t, c)
        BY <4>1, IncreaseFacts DEF Inv, Reserve
      <4>2. CASE Count(t)
        BY <4>2 DEF Count
      <4>3. CASE \/ Enter(t) \/ Admit(t) \/ WorkEnd(t)
                 \/ ReadInterval(t) \/ Judge(t) \/ Report(t)
        BY <4>3 DEF Enter, Admit, WorkEnd, ReadInterval, Judge, Report, rateVars
      <4> QED BY <3>1, <4>1, <4>2, <4>3 DEF Acquire, OnRateLimited
    <3>2. ~(\E b \in Baselines : Tune(b)) /\ ~ReAnchor /\ ~Tick
      BY DEF Tune, ReAnchor, Tick, rateVars
    <3> QED BY <3>1, <3>2 DEF BudgetNext
  <2> QED BY <2>1, <2>2
<1> QED BY <1>1, BudgetInvariant, PTL DEF BudgetSpec, BackoffHeld

-----------------------------------------------------------------------------
\* What a thread that counted a 429 relies on: unless the spacing was selected
\* anew since, no tuning is under way, and what it read exceeds the selected
\* spacing only if AIMD has decreased the rate.
FedInv ==
  /\ ~tuning /\ ~doubled => interval <= anchor
  /\ \A t \in Threads : pc[t] \in {"counted", "judging"} /\ ~tuned[t] => ~tuning
  /\ \A t \in Threads :
       pc[t] = "judging" /\ ~tuned[t] /\ ~doubled => seen[t] <= anchor

\* Every step keeps FedInv.
LEMMA FedStep == Inv /\ FedInv /\ [BudgetNext]_budgetVars => FedInv'
<1> SUFFICES ASSUME Inv, FedInv, [BudgetNext]_budgetVars PROVE FedInv'
  OBVIOUS
<1> USE DEF FedInv, Move, rateVars, clockVars, slotVars
<1>1. CASE UNCHANGED budgetVars
  BY <1>1 DEF budgetVars
<1>2. ASSUME NEW t \in Threads, NEW c \in Costs, Reserve(t, c)
      PROVE  FedInv'
  <2>1. interval' \in Nat /\ interval' <= interval
    <3>1. ~tuning /\ MaybeIncrease
      BY <1>2 DEF Reserve
    <3>2. interval' \in Nat
      BY <3>1, IncreaseFacts DEF Inv
    <3> QED BY <3>1, <3>2 DEF MaybeIncrease, Smaller, Inv, BudgetTypeOK
  <2>2. /\ UNCHANGED <<anchor, tuning, seen, doubled, tuned>>
        /\ \A u \in Threads : pc'[u] \in {"counted", "judging"} => pc'[u] = pc[u]
    BY <1>2 DEF Inv, BudgetTypeOK, Reserve
  <2> QED BY <2>1, <2>2 DEF Inv, BudgetTypeOK
<1>3. ASSUME NEW t \in Threads, Count(t)
      PROVE  FedInv'
  <2>1. /\ ~tuning /\ UNCHANGED <<anchor, tuning, seen>>
        /\ pc' = [pc EXCEPT ![t] = "counted"] /\ tuned' = [tuned EXCEPT ![t] = FALSE]
    BY <1>3 DEF Count
  <2>2. doubled' \/ (doubled' = doubled /\ interval' = interval)
    <3>1. interval' >= interval /\ interval' \in Nat
      BY <1>3, FloorCeiling DEF Count, Inv, BudgetTypeOK, Larger, Smaller, Ceiling
    <3>2. interval \in Nat /\ (~(interval' > interval) => interval' = interval)
      BY <3>1 DEF Inv, BudgetTypeOK
    <3>3. CASE interval' > interval
      <4>1. interval' # interval
        BY <3>2, <3>3
      <4> QED BY <1>3, <3>3, <4>1, Zenon DEF Count
    <3>4. CASE ~(interval' > interval)
      BY <1>3, <3>2, <3>4, Zenon DEF Count
    <3> QED BY <3>3, <3>4
  <2> QED BY <2>1, <2>2 DEF Inv, BudgetTypeOK
<1>4. ASSUME NEW t \in Threads, ReadInterval(t)
      PROVE  FedInv'
  BY <1>4 DEF ReadInterval, Inv, BudgetTypeOK
<1>5. ASSUME NEW t \in Threads, Judge(t)
      PROVE  FedInv'
  <2>1. /\ UNCHANGED <<interval, anchor, tuning, doubled>>
        /\ \A u \in Threads : u # t => /\ pc'[u] = pc[u] /\ tuned'[u] = tuned[u]
                                       /\ seen'[u] = seen[u]
        /\ pc'[t] \notin {"counted", "judging"}
    BY <1>5 DEF Judge, Inv, BudgetTypeOK
  <2> QED BY <2>1
<1>6. ASSUME NEW t \in Threads, Enter(t) \/ Admit(t) \/ WorkEnd(t) \/ Report(t)
      PROVE  FedInv'
  BY <1>6 DEF Enter, Admit, WorkEnd, Report, Inv, BudgetTypeOK
<1>7. CASE \E b \in Baselines : Tune(b)
  BY <1>7 DEF Tune, Inv, BudgetTypeOK
<1>8. CASE ReAnchor
  BY <1>8 DEF ReAnchor, Inv, BudgetTypeOK
<1>9. CASE Tick
  BY <1>9 DEF Tick
<1> QED BY <1>1, <1>2, <1>3, <1>4, <1>5, <1>6, <1>7, <1>8, <1>9
           DEF BudgetNext, Acquire, OnRateLimited

\* A 429 reaches the circuit breaker only after AIMD has decreased the rate,
\* provided the spacing is positive and was not selected anew in between, for
\* any ceiling of at least twice the baseline.
THEOREM FedIfUntunedHolds ==
  ASSUME CeilingMul >= 2
  PROVE  BudgetSpec => FedIfUntuned
<1>1. BudgetInit => FedInv
  BY DEF BudgetInit, FedInv
<1>2. \A i, b \in Nat : b > 0 /\ i <= b => ~(10 * i >= 9 * (b * CeilingMul))
  <2> SUFFICES ASSUME NEW i \in Nat, NEW b \in Nat, b > 0, i <= b
               PROVE  10 * i < 9 * (b * CeilingMul)
    BY CeilingMul \in Nat
  <2>1. b * CeilingMul \in Nat /\ b * CeilingMul >= b * 2
    BY CeilingMul >= 2
  <2> QED BY <2>1
<1>3. ASSUME Inv, FedInv, [BudgetNext]_budgetVars, NEW t \in Threads, pc[t] = "judging",
             pc'[t] = "reported", anchor > 0, ~tuned[t]
      PROVE  doubled
  <2>1. Judge(t)
    <3>1. \A u \in Threads : Acquire(u) \/ WorkEnd(u) \/ OnRateLimited(u)
                             => u = t /\ Judge(u)
      BY <1>3 DEF Acquire, WorkEnd, OnRateLimited, Enter, Reserve, Admit, Count,
                  ReadInterval, Judge, Report, Move, Inv, BudgetTypeOK
    <3>2. ~(\E b \in Baselines : Tune(b)) /\ ~ReAnchor /\ ~Tick /\ ~UNCHANGED budgetVars
      BY <1>3 DEF Tune, ReAnchor, Tick, budgetVars
    <3> QED BY <1>3, <3>1, <3>2 DEF BudgetNext
  <2>2. Saturated(seen[t])
    BY <1>3, <2>1 DEF Judge, Move, Inv, BudgetTypeOK
  <2>3. seen[t] \in Nat /\ anchor \in Nat
    BY <1>3 DEF Inv, BudgetTypeOK
  <2>4. ~(seen[t] <= anchor)
    BY <1>2, <1>3, <2>2, <2>3 DEF Saturated, Ceiling
  <2> QED BY <1>3, <2>4 DEF FedInv
<1>4. Inv /\ FedInv /\ [BudgetNext]_budgetVars =>
        [\A t \in Threads : pc[t] = "judging" /\ pc'[t] = "reported" /\ anchor > 0
                             /\ ~tuned[t] => doubled]_budgetVars
  BY <1>3
<1> QED BY <1>1, <1>4, FedStep, BudgetInvariant, PTL DEF BudgetSpec, FedIfUntuned
=============================================================================
