--------------------------- MODULE MCAcquisition ---------------------------
(* The breaker with the threads that ask it, and, in behaviours of their    *)
(* own, requests on their whole way through the provider.  `part` says      *)
(* which of the two a behaviour is about.                                   *)
EXTENDS CircuitBreaker, Acquisition

VARIABLE part

mcVars == <<part, vars, acqVars>>

MCInit ==
  /\ part \in {"breaker", "fetch"} /\ Init /\ AcqInit
  /\ (part = "breaker" => inline /\ kind = [q \in Fetches |-> "video"])

\* Every request is answered: the one way a behaviour of requests may end.
Answered ==
  part = "fetch" /\ (\A q \in Fetches : fetch[q].at = "done") /\ UNCHANGED mcVars

MCNext ==
  \/ Answered
  \/ part = "breaker" /\ Next /\ UNCHANGED <<part, acqVars>>
  \/ part = "fetch" /\ AcqNext /\ UNCHANGED <<part, vars>>

\* Time passes and threads go on; that failures stop is assumed only where a
\* property says so.
MCSpec ==
  /\ MCInit /\ [][MCNext]_mcVars
  /\ WF_vars(part = "breaker" /\ Tick) /\ \A t \in Threads : WF_vars(Proceed(t))
  /\ AcqFairness

\* Who waits for the breaker makes its call, and who asks is answered.
CallsProceed == WaiterProceeds /\ FetchAnswered
=============================================================================
