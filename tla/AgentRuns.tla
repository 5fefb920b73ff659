----------------------------- MODULE AgentRuns -----------------------------
(***************************************************************************)
(* The research agent's runs and the log hub that streams them:             *)
(* RetrievalPipeline/agent_server.py and loghub.py.                         *)
(*                                                                          *)
(* One run id: the hub keeps a record per id and they do not meet (the       *)
(* global stream, which no end closes, is left out).  A task                *)
(* is one POST /api/agent/run for it, the first or a resume, and executes   *)
(* on a thread and event loop of its own; the endpoints execute on the      *)
(* server's loop, and a third loop puts what is logged.  The hub has no     *)
(* lock, so a put appends its event and then reaches the subscribers, and   *)
(* another thread may act in between.  Its queues belong to the server's    *)
(* loop: a put from another thread finds the future of a reader that waits, *)
(* and nothing if the reader has only found its queue empty.                *)
(***************************************************************************)
EXTENDS Naturals

CONSTANTS
  Tasks,     \* successive executions of the run
  Readers,   \* connections to /api/agent/logs?run_id=
  MaxCancels \* bound: calls of the cancel endpoint

ASSUME AgentAssumption ==
  /\ Tasks \cap {"none", "server", "drain"} = {}
  /\ MaxCancels \in Nat

VARIABLES
  task,      \* where each task is
  worker,    \* RUN_WORKERS[run_id]: a task, or "none"
  asked,     \* tasks whose cancel() is scheduled on their loop
  log,       \* the kinds of event in the run's record of the hub
  over,      \* the run's done flag
  out,       \* per writer, the event appended and not yet fanned out
  readers,   \* the run's subs
  place,     \* where each connection is
  got,       \* the kinds of event put in the queue of each connection
  cancels,   \* calls of the cancel endpoint
  split,     \* history: readers whose subscription met an event half put
  missed,    \* history: readers to which the end was put while they subscribed,
             \* or after they had found their queue empty and did not wait yet
  resumed    \* history: a task was started while another was alive

agentVars == <<task, worker, asked, log, over, out, readers, place,
               got, cancels, split, missed, resumed>>

Writers == Tasks \cup {"server", "drain"}
Kinds == {"work", "error", "done", "complete", "cancelled"}
Alive(k) == task[k] \notin {"new", "ended"}

Places == {"away", "replayed", "checked", "open", "empty", "waiting", "closed"}
Connected(c) == place[c] \in {"open", "empty", "waiting"}

AgentTypeOK ==
  /\ task \in [Tasks -> {"new", "created", "graph", "failing", "closing", "closed",
                         "leaving", "ended"}]
  /\ worker \in Tasks \cup {"none"} /\ asked \subseteq Tasks
  /\ log \subseteq Kinds /\ over \in BOOLEAN /\ resumed \in BOOLEAN
  /\ out \in [Writers -> Kinds \cup {"none"}]
  /\ readers \subseteq Readers /\ split \subseteq Readers
  /\ missed \subseteq Readers /\ place \in [Readers -> Places]
  /\ got \in [Readers -> SUBSET Kinds] /\ cancels \in 0..MaxCancels

AgentInit ==
  /\ task = [k \in Tasks |-> "new"]
  /\ worker = "none" /\ asked = {} /\ log = {} /\ over = FALSE
  /\ out = [w \in Writers |-> "none"]
  /\ readers = {} /\ split = {} /\ missed = {} /\ resumed = FALSE
  /\ place = [c \in Readers |-> "away"] /\ got = [c \in Readers |-> {}]
  /\ cancels = 0

-----------------------------------------------------------------------------
(* The hub.                                                                *)

KeepServer == UNCHANGED <<readers, place, got, cancels, resumed>>
KeepTask == UNCHANGED <<log, over, out, split, missed>>
Joining == {c \in Readers : place[c] \in {"replayed", "checked"}}

Put(w, e) ==
  /\ out[w] = "none" /\ log' = log \cup {e}
  /\ out' = [out EXCEPT ![w] = e] /\ split' = split \cup Joining
  /\ UNCHANGED <<over, missed>>

\* The flag is read and then set: while another writer's end is on its way a
\* second thread may still have found it clear, and the end is put twice.
Done(w) ==
  /\ out[w] = "none"
  /\ \/ over /\ KeepTask
     \/ /\ ~over \/ \E v \in Writers : out[v] = "done"
        /\ log' = log \cup {"done"} /\ over' = TRUE
        /\ out' = [out EXCEPT ![w] = "done"]
        /\ split' = split \cup Joining /\ missed' = missed \cup Joining

\* Mutant: the end is recorded, for those who subscribe later, and not sent.
ReachesLater(e) == IF e = "done" THEN {} ELSE readers
Reaches(e) == readers

\* put_nowait wakes who waits.  Who is between the test and the wait is not
\* woken, by this event or by the ones put before it waits.
FanOut(w) ==
  /\ out[w] # "none" /\ out' = [out EXCEPT ![w] = "none"]
  /\ got' = [c \in Readers |-> IF c \in Reaches(out[w]) THEN got[c] \cup {out[w]}
                             ELSE got[c]]
  /\ place' = [c \in Readers |-> IF c \in Reaches(out[w]) /\ place[c] = "waiting"
                               THEN "open" ELSE place[c]]
  /\ missed' = IF out[w] = "done" THEN missed \cup {c \in Readers : place[c] = "empty"}
               ELSE missed
  /\ UNCHANGED <<task, worker, asked, log, over, readers, cancels, split,
                 resumed>>

\* LogForwarder: what the tasks log is put by the drain loop, some time later.
Drain ==
  /\ \E k \in Tasks : task[k] \notin {"new", "created"}
  /\ Put("drain", "work")
  /\ UNCHANGED <<task, worker, asked>> /\ KeepServer

-----------------------------------------------------------------------------
(* A task: _run_graph_async and _wrapped_ainvoke on the worker's loop.      *)

Step(k, from, to) == task[k] = from /\ task' = [task EXCEPT ![k] = to]

Start(k) ==
  /\ Step(k, "created", "graph") /\ Put(k, "work")
  /\ UNCHANGED <<worker, asked>> /\ KeepServer

Emit(k) ==
  /\ task[k] = "graph" /\ Put(k, "work")
  /\ UNCHANGED <<task, worker, asked>> /\ KeepServer

\* The graph returns, raises, or is cancelled where it waits; all three end
\* in done(), an error after its own event.
Return(k) ==
  /\ Step(k, "graph", "closing") /\ Done(k)
  /\ UNCHANGED <<worker, asked>> /\ KeepServer

Raise(k) ==
  /\ Step(k, "graph", "failing") /\ Put(k, "error")
  /\ UNCHANGED <<worker, asked>> /\ KeepServer

Fail(k) ==
  /\ Step(k, "failing", "leaving") /\ Done(k)
  /\ UNCHANGED <<worker, asked>> /\ KeepServer

\* Mutant: the handler of CancelledError does not close the stream.
QuietDone(k) == out[k] = "none" /\ KeepTask
CancelDone(k) == Done(k)

Interrupt(k) ==
  /\ k \in asked /\ Step(k, "graph", "leaving") /\ CancelDone(k)
  /\ UNCHANGED <<worker, asked>> /\ KeepServer

\* run_complete follows the end of the stream.
Complete(k) ==
  /\ Step(k, "closing", "leaving") /\ Put(k, "complete")
  /\ UNCHANGED <<worker, asked>> /\ KeepServer

\* Mutant: the handle stays when the task ends.
KeepHandle(k) == worker
\* finally: the run's entry is dropped, whichever task it holds.
DropHandle(k) == "none"

Leave(k) ==
  /\ out[k] = "none" /\ Step(k, "leaving", "ended") /\ worker' = DropHandle(k)
  /\ KeepTask /\ UNCHANGED asked /\ KeepServer

-----------------------------------------------------------------------------
(* The server's loop: one handler at a time up to its next await.           *)

ServerFree ==
  out["server"] = "none" /\ Joining = {} /\ \A c \in Readers : place[c] # "empty"

\* A resume is accepted whether or not the run is still executing.
RunAgent(k) ==
  /\ ServerFree /\ task[k] = "new"
  /\ task' = [task EXCEPT ![k] = "created"] /\ worker' = k
  /\ resumed' = (resumed \/ \E j \in Tasks : Alive(j))
  /\ KeepTask /\ UNCHANGED <<asked, readers, place, got, cancels>>

\* The handle is found: cancel() is scheduled and `cancelled` is put.
CancelRun ==
  /\ ServerFree /\ worker # "none" /\ cancels < MaxCancels /\ cancels' = cancels + 1
  /\ asked' = asked \cup {worker} /\ Put("server", "cancelled")
  /\ UNCHANGED <<task, worker, readers, place, got, resumed>>

\* subscribe: the events are replayed, the flag is read, the queue is added.
Replay(c) ==
  /\ ServerFree /\ place[c] = "away"
  /\ place' = [place EXCEPT ![c] = "replayed"] /\ got' = [got EXCEPT ![c] = log]
  /\ split' = IF \E w \in Writers : out[w] # "none" THEN split \cup {c} ELSE split
  /\ UNCHANGED <<task, worker, asked, log, over, out, readers, cancels,
                 missed, resumed>>

CheckOver(c) ==
  /\ place[c] = "replayed" /\ place' = [place EXCEPT ![c] = "checked"]
  /\ got' = [got EXCEPT ![c] = IF over THEN @ \cup {"done"} ELSE @]
  /\ KeepTask /\ UNCHANGED <<task, worker, asked, readers, cancels, resumed>>

Register(c) ==
  /\ place[c] = "checked" /\ place' = [place EXCEPT ![c] = "open"]
  /\ readers' = readers \cup {c}
  /\ KeepTask /\ UNCHANGED <<task, worker, asked, got, cancels, resumed>>

\* event_gen: the queue is sent up to a done, where the generator ends, or
\* until Queue.get finds it empty.
Read(c) ==
  /\ ServerFree /\ place[c] = "open"
  /\ place' = [place EXCEPT ![c] = IF "done" \in got[c] THEN "closed" ELSE "empty"]
  /\ KeepTask
  /\ UNCHANGED <<task, worker, asked, readers, got, cancels, resumed>>

\* Queue.get: the future is registered, and nothing is tested again.
Wait(c) ==
  /\ place[c] = "empty" /\ place' = [place EXCEPT ![c] = "waiting"]
  /\ KeepTask
  /\ UNCHANGED <<task, worker, asked, readers, got, cancels, resumed>>

TaskStep(k) == Start(k) \/ Fail(k) \/ Interrupt(k) \/ Complete(k) \/ Leave(k)
ConnStep(c) == CheckOver(c) \/ Register(c) \/ Read(c) \/ Wait(c)

AgentNext ==
  \/ \E k \in Tasks : TaskStep(k) \/ Emit(k) \/ Return(k) \/ Raise(k) \/ RunAgent(k)
  \/ Drain \/ \E w \in Writers : FanOut(w)
  \/ CancelRun
  \/ \E c \in Readers : Replay(c) \/ ConnStep(c)

AgentSpec == AgentInit /\ [][AgentNext]_agentVars

\* The loops run what is ready, in order (a loop that sleeps runs what another
\* thread has readied when it wakes next, for the ping of a stream at the
\* latest).  Nothing says that the graph ever returns.
AgentFairness ==
  /\ \A k \in Tasks : WF_agentVars(TaskStep(k)) /\ SF_agentVars(Interrupt(k))
  /\ \A w \in Writers : WF_agentVars(FanOut(w))
  /\ \A c \in Readers : SF_agentVars(ConnStep(c))

-----------------------------------------------------------------------------
\* What the cancel endpoint finds is a task that executes; and while no task
\* was started over another, every task that executes is found, so that it
\* can be cancelled.  A resume of a run that executes breaks the second half:
\* the first task to end drops the handle of the other.
HandleTrue ==
  /\ worker # "none" => Alive(worker)
  /\ ~resumed => \A k \in Tasks : Alive(k) => worker = k

\* A task that was cancelled ends, whatever the graph was doing.
CancelEnds == \A k \in Tasks : k \in asked ~> task[k] = "ended"

\* Once a task has ended, by any of its three ways, every reader's stream
\* closes, unless the end was put while it subscribed or between its test of
\* the queue and its wait: then it waits until another event is put, or for ever.
ReaderCloses ==
  \A c \in Readers :
    Connected(c) /\ (\E k \in Tasks : task[k] = "ended")
      ~> place[c] = "closed" \/ c \in missed

\* When no event is on its way, the queue of a connected reader has been given
\* every kind of event in the record, unless its subscription met an event half put.
ReaderComplete ==
  (\A w \in Writers : out[w] = "none") =>
    \A c \in Readers \ split : Connected(c) => log \subseteq got[c]

\* What the handle and the record promise, whichever loop acts next.
AgentSound == HandleTrue /\ ReaderComplete

\* Both ends: the task's after a cancellation, and its readers'.
AgentSettles == CancelEnds /\ ReaderCloses
=============================================================================
