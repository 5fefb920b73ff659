------------------------- MODULE EmbeddingPipeline -------------------------
(***************************************************************************)
(* ResilientEmbeddingPipeline of ingestion/embedding_pipeline.py: callers   *)
(* partition their documents into batches and queue one request for each;   *)
(* one worker task tries a request until it is stored or has failed too     *)
(* often; a caller polls the history for its ids until its timeout.         *)
(*                                                                          *)
(* The worker is a task of the loop of its callers and is cancelled with it. *)
(* A try may never end: acquire waits for a window that a batch fits in.    *)
(*                                                                          *)
(* A batch is a caller and a number.  Its request's id is made of the       *)
(* caller's id, which defaults to the time in milliseconds: two callers of  *)
(* one millisecond share it, and the history is never cleared.              *)
(***************************************************************************)
EXTENDS Naturals, Sequences

CONSTANTS
  Callers,    \* calls of embed_documents
  Ids,        \* request ids
  MaxBatches, \* bound: batches of one call
  MaxRetries  \* max_retries

ASSUME EmbedAssumption ==
  Ids # {} /\ MaxBatches \in Nat \ {0} /\ MaxRetries \in Nat \ {0}

VARIABLES
  call,     \* per caller: its id and number of batches, none before the call
  answer,   \* what embed_documents returned: "none" while it waits
  requests, \* request_queue, a sequence of batches
  inHand,   \* the batch the worker processes, none or one
  retries,  \* retry_count of the request in hand
  history,  \* request_history: per request id the last request's outcome
  stored,   \* batches add_documents has stored whole
  failed,   \* history: batches whose last try failed
  loopEnded \* asyncio.run has returned

embedVars == <<call, answer, requests, inHand, retries, history, stored, failed, loopEnded>>

Batches == Callers \X (1..MaxBatches)
Absent == "absent"
Answers == {"completed", "failed", "partial_failure", "timeout"}

\* One batch keeps the caller's id; several are numbered.
RequestId(b) == IF call[b[1]].n = 1 THEN <<call[b[1]].id, 0>> ELSE <<call[b[1]].id, b[2]>>
RequestIds == Ids \X (0..MaxBatches)
BatchesOf(c) == {<<c, i>> : i \in 1..call[c].n}

EmbedTypeOK ==
  /\ call \in [Callers -> [id : Ids, n : 0..MaxBatches]]
  /\ answer \in [Callers -> Answers \cup {"none"}]
  /\ requests \in Seq(Batches) /\ inHand \subseteq Batches
  /\ retries \in 0..(MaxRetries - 1)
  /\ history \in [RequestIds -> {"completed", "failed", Absent}]
  /\ stored \subseteq Batches /\ failed \subseteq Batches /\ loopEnded \in BOOLEAN

EmbedInit ==
  /\ call = [c \in Callers |-> [id |-> CHOOSE id \in Ids : TRUE, n |-> 0]]
  /\ answer = [c \in Callers |-> "none"]
  /\ requests = <<>> /\ inHand = {} /\ retries = 0
  /\ history = [k \in RequestIds |-> Absent] /\ stored = {} /\ failed = {}
  /\ loopEnded = FALSE

\* embed_documents: the requests are queued one by one, without waiting.
Submit(c, id, n) ==
  /\ ~loopEnded /\ call[c].n = 0 /\ call' = [call EXCEPT ![c] = [id |-> id, n |-> n]]
  /\ requests' = requests \o [i \in 1..n |-> <<c, i>>]
  /\ UNCHANGED <<answer, inHand, retries, history, stored, failed, loopEnded>>

\* Mutant: the worker takes all that is queued and processes the first.
RestLost == <<>>
Rest == Tail(requests)

TakeRequest ==
  /\ ~loopEnded /\ inHand = {} /\ requests # <<>>
  /\ inHand' = {Head(requests)} /\ requests' = Rest /\ retries' = 0
  /\ UNCHANGED <<call, answer, history, stored, failed, loopEnded>>

Record(b, outcome) == history' = [history EXCEPT ![RequestId(b)] = outcome]

Store ==
  /\ ~loopEnded
  /\ \E b \in inHand : stored' = stored \cup {b} /\ Record(b, "completed")
  /\ inHand' = {} /\ retries' = 0
  /\ UNCHANGED <<call, answer, requests, failed, loopEnded>>

\* acquire or add_documents raises; what was added before it did may be
\* the whole batch.  Only the last failure is recorded.
Attempt ==
  /\ ~loopEnded
  /\ \E b \in inHand :
       /\ stored' \in {stored, stored \cup {b}}
       /\ IF retries + 1 >= MaxRetries
          THEN /\ Record(b, "failed") /\ failed' = failed \cup {b}
               /\ inHand' = {} /\ retries' = 0
          ELSE retries' = retries + 1 /\ UNCHANGED <<history, failed, inHand>>
  /\ UNCHANGED <<call, answer, requests, loopEnded>>

Outcomes(c) == {history[RequestId(b)] : b \in BatchesOf(c)}

\* Mutant: a caller is answered when one of its batches is done.
AnyDone(c) == Outcomes(c) # {Absent}
AllDone(c) == Absent \notin Outcomes(c)

\* _wait_for_completion and _wait_for_all_batches: one poll.
Poll(c) ==
  /\ ~loopEnded /\ call[c].n > 0 /\ answer[c] = "none" /\ AllDone(c)
  /\ answer' = [answer EXCEPT ![c] =
       IF "failed" \notin Outcomes(c) THEN "completed"
       ELSE IF call[c].n = 1 THEN "failed" ELSE "partial_failure"]
  /\ UNCHANGED <<call, requests, inHand, retries, history, stored, failed, loopEnded>>

GiveUpWaiting(c) ==
  /\ ~loopEnded /\ call[c].n > 0 /\ answer[c] = "none"
  /\ answer' = [answer EXCEPT ![c] = "timeout"]
  /\ UNCHANGED <<call, requests, inHand, retries, history, stored, failed, loopEnded>>

\* main returns with its callers, and asyncio.run cancels the worker where it
\* waits: what is queued or in hand is dropped, stored or not.
LoopEnds ==
  /\ ~loopEnded /\ loopEnded' = TRUE
  /\ \E c \in Callers : call[c].n > 0
  /\ \A c \in Callers : call[c].n > 0 => answer[c] # "none"
  /\ stored' \in {stored, stored \cup inHand} /\ inHand' = {} /\ retries' = 0
  /\ UNCHANGED <<call, answer, requests, history, failed>>

EmbedNext ==
  \/ \E c \in Callers : (\E id \in Ids, n \in 1..MaxBatches : Submit(c, id, n))
                          \/ Poll(c) \/ GiveUpWaiting(c)
  \/ TakeRequest \/ Store \/ Attempt \/ LoopEnds

EmbedSpec == EmbedInit /\ [][EmbedNext]_embedVars

\* A worker that waits for a request gets it; no try is promised to end.
EmbedFairness == WF_embedVars(TakeRequest)

-----------------------------------------------------------------------------
Shares(c) == \E d \in Callers \ {c} : call[d].n > 0 /\ call[d].id = call[c].id

\* A caller is told the truth about all of its batches, whenever it polls and
\* whatever else the worker did: completed only if every batch is stored, a
\* failure only if one of them failed and none is left, so that only batches of
\* callers told of a timeout end with the loop.  Callers that share an id are
\* told of each other's.
AnswerTrue ==
  \A c \in Callers : call[c].n > 0 /\ ~Shares(c) =>
    /\ answer[c] = "completed" => BatchesOf(c) \subseteq stored
    /\ answer[c] \in {"failed", "partial_failure"} =>
         BatchesOf(c) \cap failed # {} /\ BatchesOf(c) \subseteq stored \cup failed

\* As long as the worker is done with each request, every queued batch is
\* settled or ends with the loop, also after its caller has given up: a caller
\* told of a timeout cannot tell whether its documents are stored.
BatchSettled ==
  []<>(inHand = {}) =>
    \A b \in Batches :
      (\E i \in DOMAIN requests : requests[i] = b) ~> b \in stored \cup failed \/ loopEnded
=============================================================================
