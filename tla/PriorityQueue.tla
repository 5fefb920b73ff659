---------------------------- MODULE PriorityQueue ----------------------------
(***************************************************************************)
(* concurrency/priority_queue.py: class PriorityTaskQueue, with the        *)
(* callers that wait for the Future of their task                          *)
(* (YtDlpAcquisitionProvider._dispatch).                                   *)
(*                                                                         *)
(* Each block under _lock / _cv is one action.  enqueue has two of them,   *)
(* the push and the notify, shutdown likewise, and a worker reads          *)
(* future.cancelled() before it sets the result: those are steps of their  *)
(* own.  The budget and the retries are inside a task's func.              *)
(* Observability events are left out; queue_state's counters are not.      *)
(***************************************************************************)
EXTENDS Integers, FiniteSets

CONSTANTS
  Tasks,        \* one enqueue call each
  Workers,      \* max_workers threads
  NoTask,       \* "the worker holds no task"
  Kinds,        \* task types ("channel", "video", ...)
  Kind,         \* the type of each task
  Priority,     \* the priority of each type, lower is more urgent
  MayShutdown,  \* is shutdown() ever called?
  MayCancel     \* does the holder of a Future ever cancel it?

ASSUME QueueAssumption ==
  /\ Workers # {} /\ IsFiniteSet(Workers) /\ NoTask \notin Tasks
  /\ Kind \in [Tasks -> Kinds] /\ Priority \in [Kinds -> Nat]
  /\ MayShutdown \in BOOLEAN /\ MayCancel \in BOOLEAN

VARIABLES
  caller,    \* where the thread inside enqueue / future.result() is, per task
  future,    \* the task's Future
  heap,      \* the tasks in _heap
  seq,       \* the _seq of each task's heap item
  lastSeq,   \* _seq
  queued,    \* _counts[type]["queued"]
  running,   \* _counts[type]["running"]; their sum is _running
  started,   \* _started
  stop,      \* _stop
  closing,   \* where the thread inside shutdown() is
  worker,    \* where each worker thread is
  has,       \* the task each worker has popped and not finished
  outcome,   \* how its func() ended
  runs       \* history: how often each task's func was called

heapVars   == <<heap, seq, lastSeq, queued>>
workerVars == <<worker, has, outcome>>
stopVars   == <<started, stop, closing>>
vars == <<caller, future, heapVars, running, stopVars, workerVars, runs>>

Callers == {"idle", "spawn", "push", "notify", "blocked", "answered"}
Ends    == {"result", "exception"}
Busy    == {"popped", "dropping", "running", "ended", "settling", "final"}
Places  == {"none", "top", "sleeping", "woken", "exited", "dead"} \cup Busy

TypeOK ==
  /\ caller \in [Tasks -> Callers]
  /\ future \in [Tasks -> {"pending", "cancelled"} \cup Ends]
  /\ heap \subseteq Tasks /\ seq \in [Tasks -> Nat] /\ lastSeq \in Nat
  /\ queued \in [Kinds -> Int] /\ running \in [Kinds -> Int]
  /\ started \in BOOLEAN /\ stop \in BOOLEAN
  /\ closing \in {"no", "notify", "done"}
  /\ worker \in [Workers -> Places]
  /\ has \in [Workers -> Tasks \cup {NoTask}]
  /\ \A w \in Workers : worker[w] \in Busy => has[w] \in Tasks
  /\ outcome \in [Workers -> {"none", "escaped"} \cup Ends]
  /\ \A w \in Workers : worker[w] \in {"ended", "settling"} => outcome[w] \in Ends
  /\ runs \in [Tasks -> Nat]

Init ==
  /\ caller = [t \in Tasks |-> "idle"] /\ future = [t \in Tasks |-> "pending"]
  /\ heap = {} /\ seq = [t \in Tasks |-> 0] /\ lastSeq = 0
  /\ queued = [k \in Kinds |-> 0] /\ running = [k \in Kinds |-> 0]
  /\ started = FALSE /\ stop = FALSE /\ closing = "no"
  /\ worker = [w \in Workers |-> "none"]
  /\ has = [w \in Workers |-> NoTask] /\ outcome = [w \in Workers |-> "none"]
  /\ runs = [t \in Tasks |-> 0]

CallerStep(t, from, to) == caller[t] = from /\ caller' = [caller EXCEPT ![t] = to]
WorkerStep(w, from, to) == worker[w] = from /\ worker' = [worker EXCEPT ![w] = to]

-----------------------------------------------------------------------------
(* enqueue() and the wait for its Future.                                  *)

\* _ensure_started: the first caller creates the workers.
EnsureStarted(t) ==
  /\ \/ /\ ~started
        /\ CallerStep(t, "idle", "spawn")
        /\ started' = TRUE /\ stop' = FALSE
     \/ /\ started
        /\ CallerStep(t, "idle", "push")
        /\ UNCHANGED <<started, stop>>
  /\ UNCHANGED <<future, heapVars, running, closing, workerVars, runs>>

Spawn(t, w) ==
  /\ caller[t] = "spawn"
  /\ WorkerStep(w, "none", "top")
  /\ UNCHANGED <<caller, future, heapVars, running, stopVars, has, outcome, runs>>

Spawned(t) ==
  /\ \A w \in Workers : worker[w] # "none"
  /\ CallerStep(t, "spawn", "push")
  /\ UNCHANGED <<future, heapVars, running, stopVars, workerVars, runs>>

Push(t) ==
  /\ CallerStep(t, "push", "notify")
  /\ lastSeq' = lastSeq + 1
  /\ seq' = [seq EXCEPT ![t] = lastSeq']
  /\ heap' = heap \cup {t}
  /\ queued' = [queued EXCEPT ![Kind[t]] = @ + 1]
  /\ UNCHANGED <<future, running, stopVars, workerVars, runs>>

\* Mutant: the push is not followed by a notify.
NotifyForgotten(t) ==
  /\ CallerStep(t, "notify", "blocked")
  /\ UNCHANGED <<future, heapVars, running, stopVars, workerVars, runs>>

\* self._cv.notify(): one sleeper, if there is one.
Notify(t) ==
  /\ CallerStep(t, "notify", "blocked")
  /\ \/ \E w \in Workers : WorkerStep(w, "sleeping", "woken")
     \/ /\ \A w \in Workers : worker[w] # "sleeping"
        /\ UNCHANGED worker
  /\ UNCHANGED <<future, heapVars, running, stopVars, has, outcome, runs>>

\* future.result() returns, or raises.
Answer(t) ==
  /\ future[t] # "pending"
  /\ CallerStep(t, "blocked", "answered")
  /\ UNCHANGED <<future, heapVars, running, stopVars, workerVars, runs>>

\* Future.cancel() (external): succeeds until the Future is settled, for the
\* worker never marks it running.
Cancel(t) ==
  /\ MayCancel
  /\ caller[t] = "blocked" /\ future[t] = "pending"
  /\ future' = [future EXCEPT ![t] = "cancelled"]
  /\ UNCHANGED <<caller, heapVars, running, stopVars, workerVars, runs>>

-----------------------------------------------------------------------------
(* _worker().                                                              *)

\* heapq (external): the least (priority, _seq).
Before(t, u) ==
  \/ Priority[Kind[t]] < Priority[Kind[u]]
  \/ Priority[Kind[t]] = Priority[Kind[u]] /\ seq[t] <= seq[u]

\* The loop head, where _stop is read, and the wait loop after a wake-up,
\* where it is read only if the heap is empty.
AtHead(w) == (worker[w] = "top" /\ ~stop) \/ worker[w] = "woken"

\* Mutant: the task is looked at but stays in the heap.
PopPeeks(w, t) ==
  /\ AtHead(w)
  /\ t \in heap /\ \A u \in heap : Before(t, u)
  /\ worker' = [worker EXCEPT ![w] = "popped"]
  /\ has' = [has EXCEPT ![w] = t]
  /\ queued' = [queued EXCEPT ![Kind[t]] = @ - 1]
  /\ running' = [running EXCEPT ![Kind[t]] = @ + 1]
  /\ UNCHANGED <<caller, future, heap, seq, lastSeq, stopVars, outcome, runs>>

Pop(w, t) ==
  /\ AtHead(w)
  /\ t \in heap /\ \A u \in heap : Before(t, u)
  /\ heap' = heap \ {t}
  /\ worker' = [worker EXCEPT ![w] = "popped"]
  /\ has' = [has EXCEPT ![w] = t]
  /\ queued' = [queued EXCEPT ![Kind[t]] = @ - 1]
  /\ running' = [running EXCEPT ![Kind[t]] = @ + 1]
  /\ UNCHANGED <<caller, future, seq, lastSeq, stopVars, outcome, runs>>

Sleep(w) ==
  /\ worker[w] \in {"top", "woken"} /\ ~stop /\ heap = {}
  /\ worker' = [worker EXCEPT ![w] = "sleeping"]
  /\ UNCHANGED <<caller, future, heapVars, running, stopVars, has, outcome, runs>>

Exit(w) ==
  /\ stop /\ (worker[w] = "top" \/ (worker[w] = "woken" /\ heap = {}))
  /\ worker' = [worker EXCEPT ![w] = "exited"]
  /\ UNCHANGED <<caller, future, heapVars, running, stopVars, has, outcome, runs>>

\* if future.cancelled() ... else acquire the budget and call func().
CheckCancelled(w) ==
  /\ \/ /\ WorkerStep(w, "popped", "dropping")
        /\ future[has[w]] = "cancelled"
        /\ UNCHANGED runs
     \/ /\ WorkerStep(w, "popped", "running")
        /\ future[has[w]] # "cancelled"
        /\ runs' = [runs EXCEPT ![has[w]] = @ + 1]
  /\ UNCHANGED <<caller, future, heapVars, running, stopVars, has, outcome>>

\* The branch of a cancelled task counts it down; its continue runs the
\* finally block, which counts it down again.
Drop(w) ==
  /\ WorkerStep(w, "dropping", "final")
  /\ running' = [running EXCEPT ![Kind[has[w]]] = @ - 1]
  /\ UNCHANGED <<caller, future, heapVars, stopVars, has, outcome, runs>>

FuncEnd(w) ==
  /\ WorkerStep(w, "running", "ended")
  /\ \E e \in Ends : outcome' = [outcome EXCEPT ![w] = e]
  /\ UNCHANGED <<caller, future, heapVars, running, stopVars, has, runs>>

\* if not future.cancelled(), after a return or in the except branch.
CheckAgain(w) ==
  /\ \/ WorkerStep(w, "ended", "final") /\ future[has[w]] = "cancelled"
     \/ WorkerStep(w, "ended", "settling") /\ future[has[w]] # "cancelled"
  /\ UNCHANGED <<caller, future, heapVars, running, stopVars, has, outcome, runs>>

\* Mutant: a worker that caught an exception leaves the Future pending.
SettleResultsOnly(w) ==
  /\ WorkerStep(w, "settling", "final")
  /\ future' = IF outcome[w] = "result" THEN [future EXCEPT ![has[w]] = "result"]
                                        ELSE future
  /\ UNCHANGED <<caller, heapVars, running, stopVars, has, outcome, runs>>

\* set_result / set_exception.  Cancelled in between, either raises
\* InvalidStateError: set_result's is caught, set_exception's ends the thread.
Settle(w) ==
  /\ WorkerStep(w, "settling", "final")
  /\ \/ /\ future[has[w]] # "cancelled"
        /\ future' = [future EXCEPT ![has[w]] = outcome[w]]
        /\ UNCHANGED outcome
     \/ /\ future[has[w]] = "cancelled"
        /\ outcome' = [outcome EXCEPT ![w] = IF @ = "exception" THEN "escaped" ELSE @]
        /\ UNCHANGED future
  /\ UNCHANGED <<caller, heapVars, running, stopVars, has, runs>>

\* Mutant: the count is given back only when func returned.
FinallyUnlessRaised(w) ==
  /\ worker[w] = "final"
  /\ worker' = [worker EXCEPT ![w] = IF outcome[w] = "escaped" THEN "dead" ELSE "top"]
  /\ running' = IF outcome[w] = "exception" THEN running
                ELSE [running EXCEPT ![Kind[has[w]]] = @ - 1]
  /\ has' = [has EXCEPT ![w] = NoTask]
  /\ outcome' = [outcome EXCEPT ![w] = "none"]
  /\ UNCHANGED <<caller, future, heapVars, stopVars, runs>>

Finally(w) ==
  /\ worker[w] = "final"
  /\ worker' = [worker EXCEPT ![w] = IF outcome[w] = "escaped" THEN "dead" ELSE "top"]
  /\ running' = [running EXCEPT ![Kind[has[w]]] = @ - 1]
  /\ has' = [has EXCEPT ![w] = NoTask]
  /\ outcome' = [outcome EXCEPT ![w] = "none"]
  /\ UNCHANGED <<caller, future, heapVars, stopVars, runs>>

-----------------------------------------------------------------------------
(* shutdown(), called once when the application stops.                     *)

ShutdownStop ==
  /\ MayShutdown /\ closing = "no"
  /\ closing' = "notify" /\ stop' = TRUE
  /\ UNCHANGED <<caller, future, heapVars, running, started, workerVars, runs>>

\* Mutant: only one sleeper is woken.
ShutdownNotifyOne ==
  /\ closing = "notify" /\ closing' = "done"
  /\ \/ \E w \in Workers : WorkerStep(w, "sleeping", "woken")
     \/ (\A w \in Workers : worker[w] # "sleeping") /\ UNCHANGED worker
  /\ UNCHANGED <<caller, future, heapVars, running, started, stop, has, outcome, runs>>

ShutdownNotify ==
  /\ closing = "notify" /\ closing' = "done"
  /\ worker' = [w \in Workers |-> IF worker[w] = "sleeping" THEN "woken" ELSE worker[w]]
  /\ UNCHANGED <<caller, future, heapVars, running, started, stop, has, outcome, runs>>

-----------------------------------------------------------------------------
Enqueue(t) ==
  \/ EnsureStarted(t) \/ Spawned(t) \/ Push(t) \/ Notify(t) \/ Answer(t)
  \/ \E w \in Workers : Spawn(t, w)

\* What a worker does on its own, func() excepted.
WorkerLoop(w) ==
  \/ \E t \in Tasks : Pop(w, t)
  \/ Sleep(w) \/ Exit(w) \/ CheckCancelled(w) \/ Drop(w)
  \/ CheckAgain(w) \/ Settle(w) \/ Finally(w)

Next ==
  \/ \E t \in Tasks : Enqueue(t) \/ Cancel(t)
  \/ \E w \in Workers : WorkerLoop(w) \/ FuncEnd(w)
  \/ ShutdownStop \/ ShutdownNotify

Spec == Init /\ [][Next]_vars

\* Threads are scheduled and every func() ends: its retries are limited and
\* each waits for a finite time.
Fairness ==
  /\ \A t \in Tasks : WF_vars(caller[t] # "idle" /\ Enqueue(t))
  /\ \A w \in Workers : WF_vars(WorkerLoop(w)) /\ WF_vars(FuncEnd(w))
  /\ WF_vars(ShutdownNotify)
FairSpec == Spec /\ Fairness

-----------------------------------------------------------------------------
(* Correctness.                                                            *)

\* Two workers never hold the same task, a task that is held or was called
\* is not in the heap any more, and func is called at most once.
CalledOnce ==
  /\ \A v, w \in Workers :
       v # w /\ worker[v] \in Busy /\ worker[w] \in Busy => has[v] # has[w]
  /\ \A w \in Workers : worker[w] \in Busy => has[w] \notin heap
  /\ \A t \in Tasks : runs[t] <= 1 /\ (t \in heap => runs[t] = 0)

\* No lost wake-up: while work is in the heap and a worker sleeps, some worker
\* is about to look at the heap or a notify is under way, although the push and
\* the notify are two steps and workers may die in between.
NoLostWakeup ==
  heap # {} /\ (\E w \in Workers : worker[w] = "sleeping") =>
    \/ \E t \in Tasks : caller[t] = "notify"
    \/ closing = "notify"
    \/ \E w \in Workers : worker[w] \in {"none", "top", "woken"}

\* "Queue state (queued / running / waiting, broken down by task type) is
\* observable" (line 6): the counters of queue_state are the heap and the
\* workers that hold a task.  A cancelled Future breaks them for good (Drop),
\* hence the condition.
Waiting(k) == {t \in heap : Kind[t] = k}
Holding(k) == {w \in Workers : worker[w] \in Busy /\ Kind[has[w]] = k}
CountsMatch ==
  (\A t \in Tasks : future[t] # "cancelled") => \A k \in Kinds :
    queued[k] = Cardinality(Waiting(k)) /\ running[k] = Cardinality(Holding(k))

\* A caller gets the outcome of its task, unless the queue is shut down or
\* cancellations have killed every worker.
AnsweredWhileRunning == \A t \in Tasks :
  caller[t] = "blocked" ~>
    caller[t] = "answered" \/ stop \/ \A w \in Workers : worker[w] = "dead"

\* After shutdown() every worker thread ends, unless a first enqueue starts
\* the queue again.
WorkersExit ==
  closing = "done" /\ stop ~>
    ~stop \/ \A w \in Workers : worker[w] \in {"none", "exited", "dead"}
=============================================================================
