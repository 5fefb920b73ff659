--------------------------- MODULE CircuitBreaker ---------------------------
(***************************************************************************)
(* concurrency/circuit_breaker.py: CircuitBreakerRegistry, driven by the   *)
(* worker threads of the acquisition provider through _guarded() and by    *)
(* BudgetController.on_rate_limited().                                     *)
(*                                                                         *)
(* Every registry method is one critical section, so it is one action; the *)
(* protocol around it is not: a thread asks at the gate, may wait in       *)
(* wait_until_allowed (which releases the lock between its own two         *)
(* checks), makes the call later and records the outcome later still.      *)
(* Time is the remaining cooldown of each breaker.  The counters are cut   *)
(* at their thresholds, which is all the code compares them with; totals   *)
(* and timestamps, which nothing reads back, are left out.                 *)
(***************************************************************************)
EXTENDS Naturals, FiniteSets

CONSTANTS
  Threads,           \* worker threads of the provider
  Keys,              \* session identities the registry knows
  SessionKey,        \* the key _guarded asks for: settings.proxy or "default"
  FailureKey,        \* the key failures are filed under: always "default"
  FailureThreshold, SuccessThreshold,
  Cooldown,          \* in ticks
  MayReset           \* is POST /budget/circuit-breakers/reset ever called?

ASSUME KeysAssumption == SessionKey \in Keys /\ FailureKey \in Keys
ASSUME ThresholdsAssumption ==
  FailureThreshold \in Nat \ {0} /\ SuccessThreshold \in Nat \ {0}
ASSUME CooldownAssumption == Cooldown \in Nat /\ MayReset \in BOOLEAN

VARIABLES
  state,      \* _Breaker.state
  fails,      \* _Breaker.consecutive_failures, cut at the threshold
  succs,      \* _Breaker.consecutive_successes, cut at the threshold
  cool,       \* cooldown - (now - opened_at), at least 0, while OPEN
  pc,         \* where each thread is in _guarded / on_rate_limited
  stale,      \* history: the session's breaker opened since t was admitted
  streak      \* history: consecutive failures reported for the session

breakerVars == <<state, fails, succs, cool>>
historyVars == <<stale, streak>>
vars == <<breakerVars, pc, historyVars>>

-----------------------------------------------------------------------------
States  == {"closed", "open", "halfOpen"}
Waiting == {"wait", "sleep", "recheck"}
PastGate == {"admitted", "calling", "succeeded", "limited"}
Places  == {"idle", "gate"} \cup Waiting \cup PastGate

UpTo(limit, n) == IF n < limit THEN n ELSE limit

TypeOK ==
  /\ state \in [Keys -> States]
  /\ fails \in [Keys -> 0 .. FailureThreshold]
  /\ succs \in [Keys -> 0 .. SuccessThreshold]
  /\ cool \in [Keys -> 0 .. Cooldown]
  /\ pc \in [Threads -> Places]
  /\ stale \in [Threads -> BOOLEAN]
  /\ streak \in 0 .. FailureThreshold

\* _get creates a breaker with these values; an absent one is no different.
Init ==
  /\ state = [k \in Keys |-> "closed"]
  /\ fails = [k \in Keys |-> 0] /\ succs = [k \in Keys |-> 0]
  /\ cool = [k \in Keys |-> 0]
  /\ pc = [t \in Threads |-> "idle"]
  /\ stale = [t \in Threads |-> FALSE]
  /\ streak = 0

Move(t, from, to) == pc[t] = from /\ pc' = [pc EXCEPT ![t] = to]

\* t passes the gate.
Pass(t, from) ==
  /\ Move(t, from, "admitted")
  /\ stale' = [stale EXCEPT ![t] = FALSE]

ToHalfOpen(k) ==
  /\ state[k] = "open" /\ cool[k] = 0
  /\ state' = [state EXCEPT ![k] = "halfOpen"]
  /\ UNCHANGED <<fails, succs, cool>>

-----------------------------------------------------------------------------
(* The gate.                                                               *)

\* A retried attempt starts here too.
Attempt(t) ==
  /\ Move(t, "idle", "gate")
  /\ UNCHANGED <<breakerVars, historyVars>>

\* _guarded: if not cb.allow_request(key): cb.wait_until_allowed(key)
Gate(t) ==
  /\ \/ /\ state[SessionKey] # "open"
        /\ Pass(t, "gate") /\ UNCHANGED breakerVars
     \/ /\ ToHalfOpen(SessionKey)
        /\ Pass(t, "gate")
     \/ /\ state[SessionKey] = "open" /\ cool[SessionKey] > 0
        /\ Move(t, "gate", "wait") /\ UNCHANGED <<breakerVars, stale>>
  /\ UNCHANGED streak

\* The critical section of the loop in wait_until_allowed.
Wait(t) ==
  /\ \/ state[SessionKey] # "open" /\ Pass(t, "wait")
     \/ /\ state[SessionKey] = "open" /\ UNCHANGED stale
        /\ \/ cool[SessionKey] = 0 /\ Move(t, "wait", "recheck")
           \/ cool[SessionKey] > 0 /\ Move(t, "wait", "sleep")
  /\ UNCHANGED <<breakerVars, streak>>

\* time.sleep(min(poll, remaining)): over at any moment up to the cooldown.
SleepEnd(t) ==
  /\ Move(t, "sleep", "wait")
  /\ UNCHANGED <<breakerVars, historyVars>>

\* Mutant: the elapsed cooldown is taken as a permission.
RecheckBlindly(t) ==
  /\ Pass(t, "recheck")
  /\ UNCHANGED <<breakerVars, streak>>

\* Mutant: an OPEN breaker answers "no" however long ago it opened.
RecheckWithoutProbe(t) ==
  /\ \/ state[SessionKey] # "open" /\ Pass(t, "recheck")
     \/ state[SessionKey] = "open" /\ Move(t, "recheck", "wait") /\ UNCHANGED stale
  /\ UNCHANGED <<breakerVars, streak>>

\* "if self.allow_request(key): return" after the lock was released.
Recheck(t) ==
  /\ \/ /\ state[SessionKey] # "open"
        /\ Pass(t, "recheck") /\ UNCHANGED breakerVars
     \/ /\ ToHalfOpen(SessionKey)
        /\ Pass(t, "recheck")
     \/ /\ state[SessionKey] = "open" /\ cool[SessionKey] > 0
        /\ Move(t, "recheck", "wait")
        /\ UNCHANGED <<breakerVars, stale>>
  /\ UNCHANGED streak

-----------------------------------------------------------------------------
(* The call and the record of its outcome.                                 *)

Call(t) ==
  /\ Move(t, "admitted", "calling")
  /\ UNCHANGED <<breakerVars, historyVars>>

\* func() returns, raises RateLimitError, or raises anything else, which the
\* breaker never hears of.  A RateLimitError reaches it only when the budget
\* is at its ceiling (BudgetController.on_rate_limited), else it is dropped.
CallEnd(t) ==
  /\ \E to \in {"succeeded", "limited", "idle"} : Move(t, "calling", to)
  /\ UNCHANGED <<breakerVars, historyVars>>

RecordSuccess(t) ==
  /\ Move(t, "succeeded", "idle")
  /\ fails' = [fails EXCEPT ![SessionKey] = 0]
  /\ succs' = [succs EXCEPT ![SessionKey] = UpTo(SuccessThreshold, @ + 1)]
  /\ state' = [state EXCEPT ![SessionKey] =
       IF @ = "halfOpen" /\ succs'[SessionKey] >= SuccessThreshold
       THEN "closed" ELSE @]
  /\ streak' = 0
  /\ UNCHANGED <<cool, stale>>

\* A failure counted as number n opens a CLOSED breaker at the threshold and a
\* HALF_OPEN one at once.
Opens(k, n) ==
  \/ state[k] = "closed" /\ n >= FailureThreshold
  \/ state[k] = "halfOpen"

\* Mutant: a CLOSED breaker tolerates one failure more.
RecordFailureLate(t) ==
  /\ Move(t, "limited", "idle")
  /\ fails' = [fails EXCEPT ![FailureKey] = UpTo(FailureThreshold, @ + 1)]
  /\ succs' = [succs EXCEPT ![FailureKey] = 0]
  /\ state' = [state EXCEPT ![FailureKey] =
       IF @ = "halfOpen" \/ fails[FailureKey] >= FailureThreshold THEN "open" ELSE @]
  /\ cool' = [cool EXCEPT ![FailureKey] =
       IF state'[FailureKey] = "open" THEN Cooldown ELSE @]
  /\ streak' = UpTo(FailureThreshold, streak + 1)
  /\ UNCHANGED stale

RecordFailure(t) ==
  /\ Move(t, "limited", "idle")
  /\ LET n     == UpTo(FailureThreshold, fails[FailureKey] + 1)
         opens == Opens(FailureKey, n)
         shut  == opens /\ FailureKey = SessionKey
     IN  /\ fails' = [fails EXCEPT ![FailureKey] = n]
         /\ state' = [state EXCEPT ![FailureKey] = IF opens THEN "open" ELSE @]
         /\ cool'  = [cool EXCEPT ![FailureKey] = IF opens THEN Cooldown ELSE @]
         /\ stale' = [u \in Threads |-> stale[u] \/ (shut /\ pc[u] \in PastGate)]
  /\ succs' = [succs EXCEPT ![FailureKey] = 0]
  /\ streak' = UpTo(FailureThreshold, streak + 1)

\* POST /budget/circuit-breakers/reset: one key or all of them.
Reset ==
  /\ MayReset
  /\ \E K \in {Keys} \cup {{k} : k \in Keys} :
       /\ state' = [k \in Keys |-> IF k \in K THEN "closed" ELSE state[k]]
       /\ fails' = [k \in Keys |-> IF k \in K THEN 0 ELSE fails[k]]
       /\ succs' = [k \in Keys |-> IF k \in K THEN 0 ELSE succs[k]]
       /\ cool'  = [k \in Keys |-> IF k \in K THEN 0 ELSE cool[k]]
       /\ streak' = IF FailureKey \in K THEN 0 ELSE streak
  /\ UNCHANGED <<pc, stale>>

Tick ==
  /\ \E k \in Keys : cool[k] > 0
  /\ cool' = [k \in Keys |-> IF cool[k] > 0 THEN cool[k] - 1 ELSE 0]
  /\ UNCHANGED <<state, fails, succs, pc, historyVars>>

-----------------------------------------------------------------------------
\* What a thread does on its own: everything but starting an attempt.
Proceed(t) ==
  \/ Gate(t) \/ Wait(t) \/ SleepEnd(t) \/ Recheck(t)
  \/ Call(t) \/ RecordSuccess(t) \/ RecordFailure(t)

Next ==
  \/ \E t \in Threads : Attempt(t) \/ Proceed(t) \/ CallEnd(t)
  \/ Reset \/ Tick

Spec == Init /\ [][Next]_vars

\* Time passes and threads are scheduled; that a call ends is not assumed.
FairSpec == Spec /\ WF_vars(Tick) /\ \A t \in Threads : WF_vars(Proceed(t))

-----------------------------------------------------------------------------
(* Correctness.                                                            *)

\* "OPEN: requests blocked during cooldown" (line 32).  Threads that passed
\* the gate before the breaker opened finish what they began; nobody else is
\* admitted or calling while it is OPEN.
HeldWhileOpen == \A t \in Threads :
  pc[t] \in {"admitted", "calling"} /\ state[SessionKey] = "open" => stale[t]

\* "When a given session accumulates repeated 429s / rate-limit errors, it is
\* marked UNHEALTHY (OPEN)" (lines 5-7): after FailureThreshold failures in a
\* row its breaker is not CLOSED.
SessionFailuresOpen == streak >= FailureThreshold => state[SessionKey] # "closed"

\* The wait is a backoff, not a deadlock: once failures stop being reported,
\* a thread that waits gets to make its call.
WaiterProceeds ==
  (<>[](\A t \in Threads : pc[t] # "limited")) =>
    \A t \in Threads : pc[t] = "wait" ~> pc[t] = "calling"

=============================================================================
