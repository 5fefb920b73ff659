---------------------------- MODULE Acquisition ----------------------------
(***************************************************************************)
(* One request to YouTube from _dispatch to its answer: the provider of     *)
(* acquisition/yt_dlp_adapter.py, the retry policy of acquisition/retry.py  *)
(* and the limiter of concurrency/ytdlp_semaphore.py, between the queue,    *)
(* the budget and the breaker.                                              *)
(*                                                                          *)
(* The queue is a bound on the requests in work, the budget a count of what *)
(* was charged, the breaker its state; PriorityQueue, BudgetController and  *)
(* CircuitBreaker have the rest.  Whether a 429 finds AIMD exhausted is     *)
(* left open, and no proxy is configured.  An attempt opens one yt-dlp      *)
(* context after another; every kind of request has a policy of its own     *)
(* for a context that fails.                                                *)
(***************************************************************************)
EXTENDS Naturals, FiniteSets

CONSTANTS
  Fetches,      \* the requests
  QueueWorkers, \* threads of the queue
  Contexts,     \* permits of the limiter
  Attempts,     \* settings.retries, counting the first attempt
  Threshold     \* failure_threshold of the breaker

ASSUME FetchAssumption ==
  /\ "nobody" \notin Fetches
  /\ {QueueWorkers, Contexts, Attempts, Threshold} \subseteq Nat \ {0}

VARIABLES
  inline,  \* no queue was injected
  kind,    \* what each request extracts
  fetch,   \* [at, attempt, page, out] of each request
  permits, \* free permits of the limiter
  dumper,  \* who holds _PAGE_DUMP_LOCK
  circuit, \* [state, fails, over]: over, the cooldown has elapsed
  opened,  \* history: how often the breaker opened
  account  \* history: [paid, limited, heard, filed, passed] of each request

acqVars == <<inline, kind, fetch, permits, dumper, circuit, opened, account>>

NoAccount == [paid |-> 0, limited |-> 0, heard |-> 0, filed |-> 0, passed |-> 0]

RequestKinds == {"video", "transcript", "channel", "recommendations"}

AcqTypeOK ==
  /\ inline \in BOOLEAN /\ kind \in [Fetches -> RequestKinds]
  /\ fetch \in [Fetches ->
       [at : {"new", "queued", "taken", "before", "gate", "waiting", "lock", "permit",
              "calling", "captions", "succeeded", "raised", "retrying", "done"},
        attempt : 1..Attempts, page : 1..3,
        out : {"ok", "skip", "limited", "network", "permanent"}]]
  /\ permits \in 0..Contexts /\ dumper \in Fetches \cup {"nobody"}
  /\ circuit \in [state : {"closed", "open", "half"}, fails : Nat, over : BOOLEAN]
  /\ opened \in Nat
  /\ account \in [Fetches -> [paid : Nat, limited : Nat, heard : Nat, filed : Nat,
                              passed : Nat]]

AcqInit ==
  /\ inline \in BOOLEAN /\ kind \in [Fetches -> RequestKinds]
  /\ fetch = [q \in Fetches |-> [at |-> "new", attempt |-> 1, page |-> 1, out |-> "ok"]]
  /\ permits = Contexts /\ dumper = "nobody"
  /\ circuit = [state |-> "closed", fails |-> 0, over |-> FALSE] /\ opened = 0
  /\ account = [q \in Fetches |-> NoAccount]

Goto(q, from, to) == fetch[q].at = from /\ fetch' = [fetch EXCEPT ![q].at = to]
Charge(q, n) == account' = [account EXCEPT ![q].paid = @ + n]
KeepContexts == UNCHANGED <<permits, dumper>>
KeepBreaker == UNCHANGED <<circuit, opened>>

-----------------------------------------------------------------------------
(* The queue and the retry policy.                                         *)

InWork == {q \in Fetches : fetch[q].at \notin {"new", "queued", "done"}}

Dispatch(q) ==
  /\ Goto(q, "new", IF inline THEN "before" ELSE "queued")
  /\ KeepContexts /\ KeepBreaker /\ UNCHANGED <<inline, kind, account>>

TakeTask(q) ==
  /\ Cardinality(InWork) < QueueWorkers /\ Goto(q, "queued", "taken")
  /\ KeepContexts /\ KeepBreaker /\ UNCHANGED <<inline, kind, account>>

\* The queue's worker pays for the first attempt.
WorkerPays(q) ==
  /\ Goto(q, "taken", "before") /\ Charge(q, 1)
  /\ KeepContexts /\ KeepBreaker /\ UNCHANGED <<inline, kind>>

\* Mutants: budget_on_first everywhere; a retry is free.
OwesAlways(q) == TRUE
OwesOnce(q) == inline /\ fetch[q].attempt = 1
Owes(q) == inline \/ fetch[q].attempt > 1

\* The policy's before hook.
Before(q) ==
  /\ Goto(q, "before", "gate") /\ Charge(q, IF Owes(q) THEN 1 ELSE 0)
  /\ KeepContexts /\ KeepBreaker /\ UNCHANGED <<inline, kind>>

\* Mutant: a failure is reported when the request will be tried again.
HeardBeforeSleep(q) == IF fetch[q].attempt < Attempts THEN 1 ELSE 0
Heard(q) == 1

\* record_failure, in any state of the breaker.
FailCircuit ==
  IF \/ circuit.state = "half"
     \/ circuit.state = "closed" /\ circuit.fails + 1 >= Threshold
  THEN /\ circuit' = [state |-> "open", fails |-> circuit.fails + 1, over |-> FALSE]
       /\ opened' = opened + 1
  ELSE circuit' = [circuit EXCEPT !.fails = @ + 1] /\ UNCHANGED opened

\* The after hook: a rate limit goes to the budget, which feeds the breaker
\* when AIMD is exhausted.  Only these and network errors are retried.
After(q) ==
  /\ Goto(q, "raised", IF fetch[q].out \in {"limited", "network"} THEN "retrying" ELSE "done")
  /\ IF fetch[q].out = "limited"
     THEN /\ account' = [account EXCEPT ![q].heard = @ + Heard(q)]
          /\ FailCircuit \/ KeepBreaker
     ELSE KeepBreaker /\ UNCHANGED account
  /\ KeepContexts /\ UNCHANGED <<inline, kind>>

\* After a sleep the next attempt starts from the hook; the last error is
\* raised again.
Retry(q) ==
  /\ fetch[q].at = "retrying"
  /\ fetch' = IF fetch[q].attempt < Attempts
              THEN [fetch EXCEPT ![q].at = "before", ![q].attempt = @ + 1]
              ELSE [fetch EXCEPT ![q].at = "done"]
  /\ KeepContexts /\ KeepBreaker /\ UNCHANGED <<inline, kind, account>>

-----------------------------------------------------------------------------
(* _guarded and the extractions.                                           *)

Allowed == circuit.state # "open" \/ circuit.over
\* Mutant: the breaker is asked for the first attempt only.
AllowedOnce(q) == Allowed \/ fetch[q].attempt > 1
MayPass(q) == Allowed

LetThrough(q) ==
  /\ MayPass(q)
  /\ fetch' = [fetch EXCEPT ![q].at = "permit", ![q].page = 1]
  /\ circuit' = IF circuit.state = "open" /\ circuit.over
                THEN [circuit EXCEPT !.state = "half", !.over = FALSE] ELSE circuit
  /\ account' = [account EXCEPT ![q].passed = opened]

AskBreaker(q) ==
  /\ fetch[q].at = "gate"
  /\ \/ LetThrough(q)
     \/ /\ ~MayPass(q) /\ Goto(q, "gate", "waiting") /\ UNCHANGED <<circuit, account>>
  /\ KeepContexts /\ UNCHANGED <<inline, kind, opened>>

\* wait_until_allowed.
WaitOut(q) ==
  /\ fetch[q].at = "waiting" /\ LetThrough(q)
  /\ KeepContexts /\ UNCHANGED <<inline, kind, opened>>

CooldownOver ==
  /\ circuit.state = "open" /\ ~circuit.over
  /\ circuit' = [circuit EXCEPT !.over = TRUE]
  /\ UNCHANGED <<inline, kind, fetch, permits, dumper, opened, account>>

\* The page dump changes the working directory of the process.
TakeLock(q) ==
  /\ dumper = "nobody" /\ dumper' = q /\ Goto(q, "lock", "permit")
  /\ KeepBreaker /\ UNCHANGED <<inline, kind, permits, account>>

TakePermit(q) ==
  /\ permits > 0 /\ permits' = permits - 1 /\ Goto(q, "permit", "calling")
  /\ KeepBreaker /\ UNCHANGED <<inline, kind, dumper, account>>

(* Where an attempt goes after one of its contexts ended with out.         *)

\* A stream that has not aired is tried again without its comments.
AfterVideo(page, out) ==
  {IF out = "ok" THEN "succeeded" ELSE "raised"} \cup
  (IF out = "skip" /\ page = 1 THEN {"permit"} ELSE {})

\* There may be no captions.
AfterTranscript(out) == IF out = "ok" THEN {"captions", "succeeded"} ELSE {"raised"}

\* The tabs of uploads and of live streams are best effort.
AfterChannel(page, out) ==
  IF page = 1 /\ out # "ok" THEN {"raised"}
  ELSE {"succeeded"} \cup (IF page < 3 THEN {"permit"} ELSE {})

\* So are the sources of recommendations; the last of them is the page dump.
AfterRecommendations(page) ==
  {"succeeded", "raised"} \cup (IF page = 1 THEN {"lock"} ELSE {})

Onward(q, out) ==
  CASE kind[q] = "video" -> AfterVideo(fetch[q].page, out)
    [] kind[q] = "transcript" -> AfterTranscript(out)
    [] kind[q] = "channel" -> AfterChannel(fetch[q].page, out)
    [] kind[q] = "recommendations" -> AfterRecommendations(fetch[q].page)

\* What is raised: the failure of the context, or that nothing was found.
Raised(q, out) ==
  IF kind[q] = "recommendations" \/ out = "skip" THEN "permanent" ELSE out

\* Mutant: the permit comes back when the call succeeds.
ReleaseIfOk(out) == permits + (IF out = "ok" THEN 1 ELSE 0)
Release(out) == permits + 1

EndCall(q) ==
  /\ fetch[q].at = "calling"
  /\ \E out \in {"ok", "skip", "limited", "network", "permanent"} : \E to \in Onward(q, out) :
       /\ fetch' = [fetch EXCEPT ![q].at = to, ![q].out = Raised(q, out),
                      ![q].page = IF to \in {"lock", "permit"} THEN @ + 1 ELSE 1]
       /\ permits' = Release(out)
       /\ account' = [account EXCEPT ![q].limited = @ + (IF out = "limited" THEN 1 ELSE 0)]
  /\ dumper' = IF dumper = q THEN "nobody" ELSE dumper
  /\ KeepBreaker /\ UNCHANGED <<inline, kind>>

\* The captions are downloaded outside the limiter.
FetchCaption(q) ==
  /\ fetch[q].at = "captions"
  /\ \E out \in {"ok", "limited", "network", "permanent"} :
       /\ fetch' = [fetch EXCEPT ![q].at = IF out = "ok" THEN "succeeded" ELSE "raised",
                                ![q].out = out]
       /\ account' = [account EXCEPT ![q].limited = @ + (IF out = "limited" THEN 1 ELSE 0)]
  /\ KeepContexts /\ KeepBreaker /\ UNCHANGED <<inline, kind>>

\* record_success; the success of a half-open probe closes the breaker.
Succeed(q) ==
  /\ Goto(q, "succeeded", "done")
  /\ circuit' = [circuit EXCEPT !.fails = 0, !.state = IF @ = "half" THEN "closed" ELSE @]
  /\ account' = [account EXCEPT ![q].filed = @ + 1]
  /\ KeepContexts /\ UNCHANGED <<inline, kind, opened>>

-----------------------------------------------------------------------------
FetchStep(q) ==
  \/ TakeTask(q) \/ WorkerPays(q) \/ Before(q) \/ After(q) \/ Retry(q) \/ AskBreaker(q)
  \/ WaitOut(q) \/ TakeLock(q) \/ TakePermit(q) \/ EndCall(q) \/ FetchCaption(q)
  \/ Succeed(q)
AcqNext == (\E q \in Fetches : Dispatch(q) \/ FetchStep(q)) \/ CooldownOver

\* Calls return within the socket timeout, and a cooldown ends.
AcqFairness ==
  /\ \A q \in Fetches : WF_acqVars(FetchStep(q))
  /\ WF_acqVars(CooldownOver)
AcqSpec == AcqInit /\ [][AcqNext]_acqVars /\ AcqFairness

-----------------------------------------------------------------------------
\* With and without the queue, an attempt that reaches YouTube was charged
\* to the budget once, whatever number of contexts it opens.
EachAttemptPaid ==
  \A q \in Fetches :
    fetch[q].at \in {"gate", "waiting", "lock", "permit", "calling", "captions",
                     "succeeded", "raised", "retrying", "done"} =>
      account[q].paid = fetch[q].attempt

\* The budget hears of every rate limit that a request for a video or its
\* transcript met, the last one included; of a channel's or of
\* recommendations it may miss some.
LimitsHeard ==
  \A q \in Fetches :
    LET pending == IF fetch[q].at = "raised" /\ fetch[q].out = "limited" THEN 1 ELSE 0
    IN /\ account[q].heard + pending <= account[q].limited
       /\ kind[q] \in {"video", "transcript"} => account[q].heard + pending = account[q].limited

\* What works while the breaker is OPEN was let through before it opened: a
\* retry asks again.
AskedAnew ==
  circuit.state = "open" =>
    \A q \in Fetches :
      fetch[q].at \in {"lock", "permit", "calling", "captions"} => account[q].passed < opened

\* Permits and the page-dump lock are held by those inside a context only.
ContextsKept ==
  /\ permits + Cardinality({q \in Fetches : fetch[q].at = "calling"}) = Contexts
  /\ dumper # "nobody" => fetch[dumper].at \in {"permit", "calling"}

\* What a request costs, reports and holds.
FetchSound ==
  AcqTypeOK /\ EachAttemptPaid /\ LimitsHeard /\ AskedAnew /\ ContextsKept

\* Every request is answered, although its worker may wait out a cooldown,
\* the lock and a permit while others do.
FetchAnswered == \A q \in Fetches : fetch[q].at # "new" ~> fetch[q].at = "done"
=============================================================================
