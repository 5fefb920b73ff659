-------------------------- MODULE BudgetController --------------------------
(***************************************************************************)
(* concurrency/budget_controller.py: class BudgetController, the pacing of *)
(* all acquisition threads by slots on one shared timeline, and the AIMD   *)
(* adaptation of the slot length.                                          *)
(*                                                                         *)
(* Times are kept relative to now (time left, 0 once past), in whole       *)
(* units; intervals are whole units too, so the floor and the additive     *)
(* increase round down.  _last_decrease_at + aimd_cooldown and             *)
(* _in_cooldown_until are the same moment from the first 429 on and both   *)
(* past before it: one variable, cooling.  acquire reads _min_interval     *)
(* before it takes the lock and on_rate_limited reads _min_interval and    *)
(* _ceiling after it released it: those reads are steps of their own, and  *)
(* so are the two halves of set_min_interval they can fall between.        *)
(* Events, sinks and counters of the dashboard are left out.               *)
(***************************************************************************)
EXTENDS Naturals

CONSTANTS
  Threads,          \* threads of the provider
  Baselines,        \* the spacings set_min_interval may be given
  Start,            \* min_interval of the constructor
  Costs,            \* weighted operation costs
  FloorDiv,         \* floor   = baseline / FloorDiv   (aimd_floor_ratio)
  CeilingMul,       \* ceiling = baseline * CeilingMul (aimd_ceiling_ratio)
  Keep,             \* percent kept by an additive increase (95 in the code)
  IncreaseInterval, \* aimd_increase_interval
  AimdCooldown      \* aimd_cooldown

ASSUME SpacingAssumption ==
  Baselines \subseteq Nat /\ Start \in Nat /\ Costs \subseteq Nat
ASSUME RatioAssumption ==
  /\ FloorDiv \in Nat \ {0} /\ CeilingMul \in Nat \ {0} /\ Keep \in 0 .. 100
ASSUME PeriodAssumption == IncreaseInterval \in Nat /\ AimdCooldown \in Nat

VARIABLES
  interval,    \* _min_interval
  anchor,      \* _baseline_interval, from which _floor and _ceiling follow
  tuning,      \* set_min_interval holds the lock between its assignments
  ahead,       \* _next_slot - now
  nextCheck,   \* _next_ai_check - now
  cooling,     \* _in_cooldown_until - now = _last_decrease_at + cooldown - now
  pc,          \* where each thread is
  wait,        \* its latest reservation: time left until the slot begins
  until,       \* ... and until it ends
  seen,        \* the _min_interval read by on_rate_limited without the lock
  quiet,       \* history: time since the last AIMD decrease, cut at the cooldown
  doubled,     \* history: AIMD has decreased the rate since it was last tuned
  tuned        \* history: set_min_interval ran since t's 429 was counted

rateVars    == <<interval, anchor, tuning>>
clockVars   == <<nextCheck, cooling, quiet>>
slotVars    == <<ahead, wait, until>>
budgetVars == <<rateVars, clockVars, slotVars, pc, seen, doubled, tuned>>

Floor   == anchor \div FloorDiv
Ceiling == anchor * CeilingMul
Saturated(i) == 10 * i >= 9 * Ceiling

Larger(m, n) == IF m < n THEN n ELSE m
Smaller(m, n) == IF m < n THEN m ELSE n

BudgetPlaces == {"idle", "reserve", "waiting", "working", "limited", "counted",
           "judging", "reported"}

BudgetTypeOK ==
  /\ interval \in Nat /\ anchor \in Nat /\ tuning \in BOOLEAN
  /\ ahead \in Nat
  /\ nextCheck \in 0 .. IncreaseInterval
  /\ cooling \in 0 .. AimdCooldown /\ quiet \in 0 .. AimdCooldown
  /\ pc \in [Threads -> BudgetPlaces]
  /\ wait \in [Threads -> Nat] /\ until \in [Threads -> Nat]
  /\ seen \in [Threads -> Nat]
  /\ doubled \in BOOLEAN /\ tuned \in [Threads -> BOOLEAN]

BudgetInit ==
  /\ interval = Start /\ anchor = Start /\ tuning = FALSE
  /\ ahead = 0 /\ nextCheck = IncreaseInterval
  /\ cooling = 0 /\ quiet = AimdCooldown
  /\ pc = [t \in Threads |-> "idle"]
  /\ wait = [t \in Threads |-> 0] /\ until = [t \in Threads |-> 0]
  /\ seen = [t \in Threads |-> 0]
  /\ doubled = FALSE /\ tuned = [t \in Threads |-> FALSE]

Move(t, from, to) == pc[t] = from /\ pc' = [pc EXCEPT ![t] = to]

-----------------------------------------------------------------------------
(* acquire().                                                              *)

\* "if self._min_interval > 0", read without the lock.
Enter(t) ==
  /\ \/ /\ interval > 0
        /\ Move(t, "idle", "reserve")
        /\ UNCHANGED <<wait, until>>
     \/ /\ interval = 0
        /\ Move(t, "idle", "waiting")
        /\ wait' = [wait EXCEPT ![t] = 0] /\ until' = [until EXCEPT ![t] = 0]
  /\ UNCHANGED <<rateVars, clockVars, ahead, seen, doubled, tuned>>

Faster(i) == Larger(Floor, (i * Keep) \div 100)

\* Mutant: a recent 429 does not block increases.
IncreaseInCooldown ==
  \/ nextCheck > 0 /\ UNCHANGED <<interval, nextCheck>>
  \/ /\ nextCheck = 0
     /\ nextCheck' = IncreaseInterval
     /\ interval' = Smaller(interval, Faster(interval))

\* _maybe_aimd_increase.
MaybeIncrease ==
  \/ nextCheck > 0 /\ UNCHANGED <<interval, nextCheck>>
  \/ /\ nextCheck = 0
     /\ nextCheck' = IncreaseInterval
     /\ interval' = IF cooling > 0 THEN interval
                    ELSE Smaller(interval, Faster(interval))

\* Mutant: the slot begins now, whatever was reserved before.
ReserveFromNow(t, cost) ==
  /\ ~tuning
  /\ Move(t, "reserve", "waiting")
  /\ MaybeIncrease
  /\ wait' = [wait EXCEPT ![t] = ahead]
  /\ ahead' = interval' * cost
  /\ until' = [until EXCEPT ![t] = ahead + interval' * cost]
  /\ UNCHANGED <<anchor, tuning, cooling, quiet, seen, doubled, tuned>>

\* slot = max(next_slot, now); next_slot = slot + min_interval * cost
Reserve(t, cost) ==
  /\ ~tuning
  /\ Move(t, "reserve", "waiting")
  /\ MaybeIncrease
  /\ wait' = [wait EXCEPT ![t] = ahead]
  /\ ahead' = ahead + interval' * cost
  /\ until' = [until EXCEPT ![t] = ahead']
  /\ UNCHANGED <<anchor, tuning, cooling, quiet, seen, doubled, tuned>>

\* The sleep is over, at the slot or later; the admission is counted.
Admit(t) ==
  /\ ~tuning /\ wait[t] = 0
  /\ Move(t, "waiting", "working")
  /\ UNCHANGED <<rateVars, clockVars, slotVars, seen, doubled, tuned>>

\* The attempt returns, or raises RateLimitError.
WorkEnd(t) ==
  /\ \E to \in {"idle", "limited"} : Move(t, "working", to)
  /\ UNCHANGED <<rateVars, clockVars, slotVars, seen, doubled, tuned>>

-----------------------------------------------------------------------------
(* on_rate_limited().                                                      *)

\* Mutant: the decrease is not clamped to the ceiling.
CountUnclamped(t) ==
  /\ ~tuning
  /\ Move(t, "limited", "counted")
  /\ tuned' = [tuned EXCEPT ![t] = FALSE]
  /\ IF cooling = 0
     THEN /\ interval' = interval * 2
          /\ cooling' = AimdCooldown
          /\ quiet' = 0 /\ doubled' = TRUE
     ELSE UNCHANGED <<interval, cooling, quiet, doubled>>
  /\ UNCHANGED <<anchor, tuning, nextCheck, slotVars, seen>>

\* The critical section: at most one decrease per cooldown window.
Count(t) ==
  /\ ~tuning
  /\ Move(t, "limited", "counted")
  /\ tuned' = [tuned EXCEPT ![t] = FALSE]
  /\ \/ /\ cooling = 0
        /\ interval' = Larger(interval, Smaller(Ceiling, 2 * interval))
        /\ cooling' = AimdCooldown
        /\ IF interval' > interval THEN quiet' = 0 /\ doubled' = TRUE
                                   ELSE UNCHANGED <<quiet, doubled>>
     \/ /\ cooling > 0
        /\ UNCHANGED <<interval, cooling, quiet, doubled>>
  /\ UNCHANGED <<anchor, tuning, nextCheck, slotVars, seen>>

\* saturated = self._min_interval >= self._ceiling * 0.9, without the lock.
ReadInterval(t) ==
  /\ Move(t, "counted", "judging")
  /\ seen' = [seen EXCEPT ![t] = interval]
  /\ UNCHANGED <<rateVars, clockVars, slotVars, doubled, tuned>>

\* Mutant: every 429 is a failure of the session.
JudgeAlways(t) ==
  /\ Move(t, "judging", "reported")
  /\ seen' = [seen EXCEPT ![t] = 0] /\ tuned' = [tuned EXCEPT ![t] = FALSE]
  /\ UNCHANGED <<rateVars, clockVars, slotVars, doubled>>

Judge(t) ==
  /\ \/ Saturated(seen[t]) /\ Move(t, "judging", "reported")
     \/ ~Saturated(seen[t]) /\ Move(t, "judging", "idle")
  /\ seen' = [seen EXCEPT ![t] = 0] /\ tuned' = [tuned EXCEPT ![t] = FALSE]
  /\ UNCHANGED <<rateVars, clockVars, slotVars, doubled>>

\* record_failure of the circuit breaker, then the retry or the end.
Report(t) ==
  /\ Move(t, "reported", "idle")
  /\ UNCHANGED <<rateVars, clockVars, slotVars, seen, doubled, tuned>>

-----------------------------------------------------------------------------
(* set_min_interval(): PUT /scraper/config and the speed presets.          *)

Tune(b) ==
  /\ ~tuning /\ tuning' = TRUE
  /\ interval' = b
  /\ tuned' = [t \in Threads |-> pc[t] \in {"counted", "judging"}]
  /\ UNCHANGED <<anchor, clockVars, slotVars, pc, seen, doubled>>

ReAnchor ==
  /\ tuning /\ tuning' = FALSE
  /\ anchor' = interval
  /\ doubled' = FALSE
  /\ UNCHANGED <<interval, clockVars, slotVars, pc, seen, tuned>>

Less(n) == IF n > 0 THEN n - 1 ELSE 0

\* One unit of time.  It always can pass; the step is taken when it matters.
Tick ==
  /\ ahead' = Less(ahead)
  /\ wait'  = [t \in Threads |-> Less(wait[t])]
  /\ until' = [t \in Threads |-> Less(until[t])]
  /\ nextCheck' = Less(nextCheck) /\ cooling' = Less(cooling)
  /\ quiet' = Smaller(AimdCooldown, quiet + 1)
  /\ UNCHANGED <<rateVars, pc, seen, doubled, tuned>>

-----------------------------------------------------------------------------
Acquire(t) == Enter(t) \/ (\E c \in Costs : Reserve(t, c)) \/ Admit(t)
OnRateLimited(t) == Count(t) \/ ReadInterval(t) \/ Judge(t) \/ Report(t)

BudgetNext ==
  \/ \E t \in Threads : Acquire(t) \/ WorkEnd(t) \/ OnRateLimited(t)
  \/ (\E b \in Baselines : Tune(b)) \/ ReAnchor
  \/ Tick

BudgetSpec == BudgetInit /\ [][BudgetNext]_budgetVars

-----------------------------------------------------------------------------
(* Correctness.                                                            *)

\* "the aggregate request rate is coordinated": no two reservations overlap,
\* whatever the costs and however the interval is tuned or adapted meanwhile.
SlotsDisjoint == \A t, u \in Threads :
  t # u => until[t] <= wait[u] \/ until[u] <= wait[t]

\* AIMD drifts between the floor and the ceiling of the selected baseline
\* ("adaptive drift stays bounded around whatever the operator selected").
DriftBounded == ~tuning => Floor <= interval /\ interval <= Ceiling

\* After a decrease the rate is neither decreased again nor increased for a
\* whole cooldown, unless the operator selects another one.
BackoffHeld ==
  [][interval' # interval /\ ~tuning' => quiet = AimdCooldown]_budgetVars

\* "AIMD has already backed the global rate off" (line 395): a 429 reaches the
\* circuit breaker only after AIMD has decreased the rate the operator selected,
\* where that is positive (a ceiling of 0 is reached at once) and not selected
\* anew between the count of the 429 and its judgement.
FedIfUntuned ==
  [][\A t \in Threads :
       pc[t] = "judging" /\ pc'[t] = "reported" /\ anchor > 0 /\ ~tuned[t] => doubled]_budgetVars
=============================================================================
