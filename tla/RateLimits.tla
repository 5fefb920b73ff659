----------------------------- MODULE RateLimits -----------------------------
(***************************************************************************)
(* What an embedding call of the homophily analysis passes before it        *)
(* reaches the provider: the throttle of its own TokenRateLimiter, which    *)
(* wraps the embedder, and then the shared RequestRateLimiter inside        *)
(* (infra/rate_limiter.py, and RateLimitedEmbedder of infra/embeddings.py). *)
(*                                                                          *)
(* Time is discrete.  Every stamp and every token taken has an age, which   *)
(* ends at Window, so that a bound on any rolling window is one on a state. *)
(* A thread sleeps with the lock held: the others would only be refused.    *)
(***************************************************************************)
EXTENDS Naturals, FiniteSets

CONSTANTS
  Embedders,   \* threads, each with one call
  Window,      \* window_seconds of both limiters, in ticks
  MaxRequests, \* max_requests_per_minute
  MaxTokens,   \* max_tokens_per_minute
  MaxOwed      \* bound: tokens of one call, more than a window holds

ASSUME RateAssumption ==
  /\ {Window, MaxRequests, MaxTokens, MaxOwed} \subseteq Nat \ {0}
  /\ IsFiniteSet(Embedders) /\ "nobody" \notin Embedders

VARIABLES
  embedder, \* where each thread is
  owed,     \* tokens a call has still to take
  payer,    \* the thread inside throttle, or "nobody"
  used,     \* tokens_used
  elapsed,  \* time since window_start, no more than Window
  stamps,   \* _timestamps: the age of each thread's stamp
  spent,    \* history: the age of each token that was taken
  total     \* history: tokens a call asked for and took

rateVars == <<embedder, owed, payer, used, elapsed, stamps, spent, total>>

Ages == 0..Window
Tokens == Embedders \X (1..MaxOwed)  \* the n-th token of a thread's call

\* What is younger than the window.
Recent(age) == {x \in DOMAIN age : age[x] < Window}

RateTypeOK ==
  /\ embedder \in [Embedders -> {"idle", "queued", "paying", "stamping", "called"}]
  /\ owed \in [Embedders -> 0..MaxOwed] /\ payer \in Embedders \cup {"nobody"}
  /\ used \in 0..MaxTokens /\ elapsed \in 0..Window
  /\ stamps \in [Embedders -> Ages] /\ spent \in [Tokens -> Ages]
  /\ total \in [Embedders -> [asked : 0..MaxOwed, took : 0..MaxOwed]]

RateInit ==
  /\ embedder = [t \in Embedders |-> "idle"] /\ owed = [t \in Embedders |-> 0]
  /\ payer = "nobody" /\ used = 0 /\ elapsed = 0
  /\ stamps = [t \in Embedders |-> Window] /\ spent = [k \in Tokens |-> Window]
  /\ total = [t \in Embedders |-> [asked |-> 0, took |-> 0]]

Go(t, from, to) == embedder[t] = from /\ embedder' = [embedder EXCEPT ![t] = to]

Embed(t, n) ==
  /\ Go(t, "idle", "queued")
  /\ owed' = [owed EXCEPT ![t] = n] /\ total' = [total EXCEPT ![t].asked = n]
  /\ UNCHANGED <<payer, used, elapsed, stamps, spent>>

EnterThrottle(t) ==
  /\ payer = "nobody" /\ Go(t, "queued", "paying") /\ payer' = t
  /\ UNCHANGED <<owed, used, elapsed, stamps, spent, total>>

Expired == elapsed = Window

\* Mutant: a reset does not start a new window.
SameWindow == elapsed
WindowStart == IF Expired THEN 0 ELSE elapsed

\* Mutant: what does not fit the window is let through.
TakeAll(n, left) == [took |-> IF n < left THEN n ELSE left, owed |-> 0]
TakeSome(n, left) ==
  LET took == IF n < left THEN n ELSE left IN [took |-> took, owed |-> n - took]

\* throttle: the window is reset when it is over; what it still holds is
\* taken, and the rest waits for the next.
TakeTokens(t) ==
  /\ payer = t /\ owed[t] > 0 /\ (Expired \/ used < MaxTokens)
  /\ LET base == IF Expired THEN 0 ELSE used
         take == TakeSome(owed[t], MaxTokens - base)
         had == total[t].took
     IN /\ used' = base + take.took
        /\ owed' = [owed EXCEPT ![t] = take.owed]
        /\ spent' = [k \in Tokens |->
             IF k[1] = t /\ k[2] \in (had + 1)..(had + take.took) THEN 0 ELSE spent[k]]
        /\ total' = [total EXCEPT ![t].took = had + take.took]
  /\ elapsed' = WindowStart
  /\ UNCHANGED <<embedder, payer, stamps>>

\* Mutant: the lock stays held.
Held == payer
Released == "nobody"

\* The lock is released and the wrapped embedder is called.
LeaveThrottle(t) ==
  /\ payer = t /\ owed[t] = 0 /\ Go(t, "paying", "stamping") /\ payer' = Released
  /\ UNCHANGED <<owed, used, elapsed, stamps, spent, total>>

\* Mutant: a slot too many.
RoomToo == Cardinality(Recent(stamps)) <= MaxRequests
Room == Cardinality(Recent(stamps)) < MaxRequests

\* RequestRateLimiter.acquire, then the provider: older stamps are purged, and
\* when there is room the call is stamped and made; otherwise it sleeps until
\* the oldest expires.
Stamp(t) ==
  /\ Go(t, "stamping", "called") /\ Room
  /\ stamps' = [stamps EXCEPT ![t] = 0]
  /\ UNCHANGED <<owed, payer, used, elapsed, spent, total>>

Older(age) == [x \in DOMAIN age |-> IF age[x] < Window THEN age[x] + 1 ELSE Window]

Tick ==
  /\ stamps' = Older(stamps) /\ spent' = Older(spent)
  /\ elapsed' = IF Expired THEN elapsed ELSE elapsed + 1
  /\ UNCHANGED <<embedder, owed, payer, used, total>>

EmbedderStep(t) == EnterThrottle(t) \/ TakeTokens(t) \/ LeaveThrottle(t) \/ Stamp(t)
RateNext ==
  \/ \E t \in Embedders : (\E n \in 1..MaxOwed : Embed(t, n)) \/ EmbedderStep(t)
  \/ Tick

RateSpec == RateInit /\ [][RateNext]_rateVars

-----------------------------------------------------------------------------
\* The request limiter's window rolls: no Window of time holds more stamps
\* than the limit, whatever made the calls wait before.
RequestsPaced == Cardinality(Recent(stamps)) <= MaxRequests

\* The token limiter's window is fixed, so a rolling one can hold the end of
\* a window and the start of the next, and never more than that.
TokensPaced == Cardinality(Recent(spent)) <= 2 * MaxTokens

\* A call larger than a window is queued and not cut: it reaches the provider
\* only when every token it asked for was taken.
NothingDropped ==
  \A t \in Embedders : embedder[t] = "called" => total[t].took = total[t].asked

\* What the limiters promise the provider and the caller.
RatesKept == RateTypeOK /\ RequestsPaced /\ TokensPaced /\ NothingDropped

\* Whatever a call's size and whoever waits with it, it gets through.
EveryCallMade == \A t \in Embedders : embedder[t] = "queued" ~> embedder[t] = "called"
=============================================================================
