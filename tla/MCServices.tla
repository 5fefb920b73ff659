----------------------------- MODULE MCServices -----------------------------
(* Five components that share no state with each other.  A behaviour is     *)
(* one of any of them: `part` says of which, and the others stay as they    *)
(* began, so that the state spaces add up instead of multiplying.           *)
EXTENDS JobStream, AgentRuns, EmbeddingPipeline, RateLimits, HomophilyPairs

VARIABLE part

vars == <<part, streamVars, agentVars, embedVars, rateVars, pairVars>>

Init ==
  /\ part \in {"stream", "agent", "embedding", "rates", "pairs"}
  /\ StreamInit /\ AgentInit /\ EmbedInit /\ RateInit
  /\ PairInit /\ (part # "pairs" => label = [v \in Clips |-> 1])

StreamPart ==
  /\ part = "stream" /\ StreamNext
  /\ UNCHANGED <<part, agentVars, embedVars, rateVars, pairVars>>
AgentPart ==
  /\ part = "agent" /\ AgentNext
  /\ UNCHANGED <<part, streamVars, embedVars, rateVars, pairVars>>
EmbedPart ==
  /\ part = "embedding" /\ EmbedNext
  /\ UNCHANGED <<part, streamVars, agentVars, rateVars, pairVars>>
RatePart ==
  /\ part = "rates" /\ RateNext
  /\ UNCHANGED <<part, streamVars, agentVars, embedVars, pairVars>>
PairPart ==
  /\ part = "pairs" /\ PairNext
  /\ UNCHANGED <<part, streamVars, agentVars, embedVars, rateVars>>

Next == StreamPart \/ AgentPart \/ EmbedPart \/ RatePart \/ PairPart

\* The threads, the loops and the clock of each part go on; no request,
\* change or cancellation is promised.
Spec ==
  /\ Init /\ [][Next]_vars
  /\ \A t \in Threads : WF_streamVars(NotifyStep(t))
  /\ \A c \in Clients : WF_streamVars(LoopStep(c))
  /\ AgentFairness
  /\ EmbedFairness
  /\ WF_rateVars(part = "rates" /\ Tick)
  /\ \A t \in Embedders : WF_rateVars(EmbedderStep(t))

-----------------------------------------------------------------------------
\* Whoever watches is told the end: the stream of a job closes, and so does
\* the subscription to a run of the agent, which also ends when cancelled.
ViewersServed == StreamCloses /\ AgentSettles

\* What an embedding call waits for comes: the worker settles what is queued
\* while its loop runs and its tries end, and a call of any size gets through
\* the limiters.
EmbeddingSettles == BatchSettled /\ EveryCallMade
=============================================================================
