----------------------------- MODULE JobManager -----------------------------
(***************************************************************************)
(* The in-process job registry of SocialScienceResearch/services/jobs.py:  *)
(* class JobManager with its thread pool, its watchdog thread, the          *)
(* force-kill endpoint, the write-through store, and the one handler of     *)
(* api/app.py that saves rows through it (PATCH /jobs/{id}/tags).           *)
(*                                                                          *)
(* Granularity.  cancel, pause, resume, the registration half of submit,    *)
(* the watchdog sweep and the marking half of kill_stuck run under          *)
(* JobManager._lock; the worker thread (_run) never takes it to read or     *)
(* write job.status.  So every read and every write of job.status in _run,  *)
(* in the sweep and in the kill loop is a step of its own, and so are the   *)
(* two halves of _persist: building the row from the live job, and saving.  *)
(* A persisted row carries every column; only its status is kept here.      *)
(* Time is abstracted: a RUNNING job is over its cap whenever the watchdog  *)
(* says so.  Progress snapshots, messages, timestamps and the SSE fan-out   *)
(* are left out here.                                                       *)
(***************************************************************************)
EXTENDS Naturals, Sequences, FiniteSets

CONSTANTS
  Jobs,           \* the job ids
  Killers,        \* request threads that may be inside kill_stuck
  Taggers,        \* request threads that may be inside set_job_tags
  NoJob,          \* "no job selected"
  Nobody,         \* "the registry lock is free"
  Watchdog,       \* the watchdog thread, as a lock holder
  MaxWorkers,     \* ThreadPoolExecutor(max_workers)
  MaxKills,       \* bound: calls of kill_stuck (= pools created after the first)
  StoreMayFail,   \* may save_job raise?  (_persist logs and goes on)
  Requests,       \* what clients ask for: cancel, pause, resume, shutdown
  MayOverrun      \* can a job exceed max_run_seconds / max_stall_seconds?

ASSUME JobsAssumption ==
  /\ NoJob \notin Jobs
  /\ Nobody \notin Killers /\ Watchdog \notin Killers /\ Nobody # Watchdog
ASSUME WorkersAssumption == MaxWorkers \in Nat \ {0} /\ MaxKills \in Nat
ASSUME SwitchAssumption ==
  /\ StoreMayFail \in BOOLEAN /\ MayOverrun \in BOOLEAN
  /\ Requests \subseteq {"cancel", "pause", "resume", "shutdown"}

Gens == 0 .. MaxKills     \* generations of the executor

VARIABLES
  status,      \* Job.status; "none" before the job is registered
  cancelReq,   \* Job.cancel_requested
  pauseReq,    \* Job.pause_requested
  result,      \* is Job.result set?
  row,         \* the status column of the job's persisted row
  sub,         \* where the thread inside submit() is, per job
  task,        \* where the executor's work item / the worker thread is, per job
  outcome,     \* how fn ended: "return" or "raise"
  snap,        \* the row built by the submitter, later by the worker, unsaved
  pool,        \* the executor generation the job's work item was given to
  gen,         \* the generation self._executor refers to
  open,        \* does the executor of that generation accept work?
  queue,       \* its queue of work items, per generation
  lock,        \* holder of JobManager._lock across steps
  dog,         \* the watchdog: [at, todo, job, snap]
  kill,        \* each kill_stuck call: [at, todo, killed, job, snap]
  tag,         \* each set_job_tags call: [job, snap], the row it has built
  kills,       \* calls of kill_stuck so far
  stopped,     \* has shutdown() run?
  forced,      \* history: the watchdog or kill_stuck wrote the job's status
  resumed,     \* history: resume() accepted the job
  askedInTime, \* history: cancel or pause accepted before fn ended
  lost,        \* history: jobs whose worker's last save failed
  restamped    \* history: jobs whose last row, saved after their worker's
               \* last, is that of a tag request that had built it before

registryVars == <<status, cancelReq, pauseReq, result, row>>
workerVars   == <<task, outcome, snap>>
poolVars     == <<pool, gen, open, queue>>
controlVars  == <<lock, dog, kill, kills, stopped>>
tagVars      == <<tag, lost, restamped>>
historyVars  == <<forced, resumed, askedInTime, tagVars>>
vars == <<registryVars, sub, workerVars, poolVars, controlVars, historyVars>>

-----------------------------------------------------------------------------
Live     == {"pending", "running"}
Terminal == {"succeeded", "failed", "cancelled"}
Status   == {"none", "paused"} \cup Live \cup Terminal

\* The steps of submit().
Submitting == {"idle", "registered", "built", "saved", "returned", "raised"}

\* fn has not ended yet / fn has ended and the epilogue of _run is under way.
BeforeEnd == {"none", "queued", "claimed", "marked", "built", "working"}
Willing   == {"willPause", "willCancel", "willSucceed", "willFail"}
Epilogue  == {"ended", "checked", "unpaused"} \cup Willing
             \cup {"setResult", "final", "finalBuilt"}
Tasks     == BeforeEnd \cup Epilogue \cup {"dropped", "done"}

\* A thread of the pool is inside _run for the job.
Occupying == {"claimed", "marked", "built", "working"} \cup Epilogue

DogState == [at : {"idle", "scan", "mark", "build", "save"},
             todo : SUBSET Jobs, job : Jobs \cup {NoJob}, snap : Status]
KillState == [at : {"idle", "scan", "mark", "persist", "save", "newPool"},
              todo : SUBSET Jobs, killed : SUBSET Jobs,
              job : Jobs \cup {NoJob}, snap : Status]

JobTypeOK ==
  /\ status \in [Jobs -> Status] /\ row \in [Jobs -> Status]
  /\ cancelReq \in [Jobs -> BOOLEAN] /\ pauseReq \in [Jobs -> BOOLEAN]
  /\ result \in [Jobs -> BOOLEAN]
  /\ forced \in [Jobs -> BOOLEAN] /\ resumed \in [Jobs -> BOOLEAN]
  /\ askedInTime \in [Jobs -> BOOLEAN] /\ lost \subseteq Jobs
  /\ restamped \subseteq Jobs

ThreadTypeOK ==
  /\ sub \in [Jobs -> Submitting]
  /\ task \in [Jobs -> Tasks]
  /\ outcome \in [Jobs -> {"none", "return", "raise"}]
  /\ snap \in [Jobs -> Status]

PoolTypeOK ==
  /\ pool \in [Jobs -> Gens] /\ gen \in Gens /\ open \in [Gens -> BOOLEAN]
  /\ queue \in [Gens -> Seq(Jobs)]

ForcerTypeOK ==
  /\ lock \in Killers \cup {Nobody, Watchdog}
  /\ dog \in DogState
  /\ dog.at \in {"mark", "build", "save"} => dog.job \in Jobs
  /\ kill \in [Killers -> KillState]
  /\ \A k \in Killers : kill[k].at \in {"mark", "save"} => kill[k].job \in Jobs
  /\ kills \in 0 .. MaxKills /\ stopped \in BOOLEAN

NoTag == [job |-> NoJob, snap |-> "none"]

TagTypeOK == tag \in [Taggers -> {NoTag} \cup [job : Jobs, snap : Status]]

TypeOK == JobTypeOK /\ ThreadTypeOK /\ PoolTypeOK /\ ForcerTypeOK /\ TagTypeOK

Init ==
  /\ status = [j \in Jobs |-> "none"] /\ row = [j \in Jobs |-> "none"]
  /\ cancelReq = [j \in Jobs |-> FALSE] /\ pauseReq = [j \in Jobs |-> FALSE]
  /\ result = [j \in Jobs |-> FALSE]
  /\ sub = [j \in Jobs |-> "idle"]
  /\ task = [j \in Jobs |-> "none"]
  /\ outcome = [j \in Jobs |-> "none"]
  /\ snap = [j \in Jobs |-> "none"]
  /\ pool = [j \in Jobs |-> 0] /\ gen = 0 /\ open = [g \in Gens |-> g = 0]
  /\ queue = [g \in Gens |-> <<>>]
  /\ lock = Nobody
  /\ dog = [at |-> "idle", todo |-> {}, job |-> NoJob, snap |-> "none"]
  /\ kill = [k \in Killers |-> [at |-> "idle", todo |-> {}, killed |-> {},
                                job |-> NoJob, snap |-> "none"]]
  /\ kills = 0 /\ stopped = FALSE
  /\ forced = [j \in Jobs |-> FALSE] /\ resumed = [j \in Jobs |-> FALSE]
  /\ askedInTime = [j \in Jobs |-> FALSE]
  /\ tag = [t \in Taggers |-> NoTag] /\ lost = {} /\ restamped = {}

Registered == {j \in Jobs : status[j] # "none"}

\* _persist, second half: save the row built earlier (best effort).
Save(j, s) ==
  \/ row' = [row EXCEPT ![j] = s]
  \/ StoreMayFail /\ row' = row

TaskStep(j, from, to) == task[j] = from /\ task' = [task EXCEPT ![j] = to]

SetStatus(j, s) == status' = [status EXCEPT ![j] = s]

-----------------------------------------------------------------------------
(* submit(): register under the lock, persist, hand to the executor.       *)

SubmitRegister(j) ==
  /\ sub[j] = "idle" /\ lock = Nobody
  /\ SetStatus(j, "pending")
  /\ sub' = [sub EXCEPT ![j] = "registered"]
  /\ UNCHANGED <<cancelReq, pauseReq, result, row, workerVars, poolVars,
                 controlVars, historyVars>>

SubmitBuild(j) ==
  /\ sub[j] = "registered"
  /\ snap' = [snap EXCEPT ![j] = status[j]]
  /\ sub' = [sub EXCEPT ![j] = "built"]
  /\ UNCHANGED <<registryVars, task, outcome, poolVars, controlVars, historyVars>>

SubmitSave(j) ==
  /\ sub[j] = "built"
  /\ Save(j, snap[j])
  /\ sub' = [sub EXCEPT ![j] = "saved"]
  /\ UNCHANGED <<status, cancelReq, pauseReq, result, workerVars, poolVars,
                 controlVars, historyVars>>

\* Mutant: the error of a pool that was shut down is swallowed.
SubmitSwallows(j) ==
  /\ sub[j] = "saved"
  /\ sub' = [sub EXCEPT ![j] = "returned"]
  /\ IF open[gen]
     THEN /\ queue' = [queue EXCEPT ![gen] = Append(@, j)]
          /\ pool' = [pool EXCEPT ![j] = gen]
          /\ task' = [task EXCEPT ![j] = "queued"]
     ELSE UNCHANGED <<queue, pool, task>>
  /\ UNCHANGED <<registryVars, outcome, snap, gen, open, controlVars, historyVars>>

\* self._executor.submit: a pool that was shut down raises RuntimeError and
\* leaves the job registered.
SubmitEnqueue(j) ==
  /\ sub[j] = "saved"
  /\ \/ /\ open[gen]
        /\ queue' = [queue EXCEPT ![gen] = Append(@, j)]
        /\ pool' = [pool EXCEPT ![j] = gen]
        /\ task' = [task EXCEPT ![j] = "queued"]
        /\ sub' = [sub EXCEPT ![j] = "returned"]
     \/ /\ ~open[gen]
        /\ sub' = [sub EXCEPT ![j] = "raised"]
        /\ UNCHANGED <<queue, pool, task>>
  /\ UNCHANGED <<registryVars, outcome, snap, gen, open, controlVars, historyVars>>

-----------------------------------------------------------------------------
(* The executor (external) and the worker thread, _run().                  *)

\* The threads of a pool that are inside _run.
Busy(g) == {j \in Jobs : task[j] \in Occupying /\ pool[j] = g}

Claim(g, j) ==
  /\ queue[g] # <<>> /\ Head(queue[g]) = j
  /\ Cardinality(Busy(g)) < MaxWorkers
  /\ queue' = [queue EXCEPT ![g] = Tail(@)]
  /\ TaskStep(j, "queued", "claimed")
  /\ UNCHANGED <<registryVars, sub, outcome, snap, pool, gen, open, controlVars,
                 historyVars>>

\* job.status = RUNNING, whatever the status was.
RunMark(j) ==
  /\ TaskStep(j, "claimed", "marked")
  /\ SetStatus(j, "running")
  /\ UNCHANGED <<cancelReq, pauseReq, result, row, sub, outcome, snap, poolVars,
                 controlVars, historyVars>>

RunBuild(j) ==
  /\ TaskStep(j, "marked", "built")
  /\ snap' = [snap EXCEPT ![j] = status[j]]
  /\ UNCHANGED <<registryVars, sub, outcome, poolVars, controlVars, historyVars>>

RunSave(j) ==
  /\ TaskStep(j, "built", "working")
  /\ Save(j, snap[j])
  /\ UNCHANGED <<status, cancelReq, pauseReq, result, sub, outcome, snap,
                 poolVars, controlVars, historyVars>>

\* fn(progress) returns or raises.
WorkEnd(j) ==
  /\ TaskStep(j, "working", "ended")
  /\ \E o \in {"return", "raise"} : outcome' = [outcome EXCEPT ![j] = o]
  /\ UNCHANGED <<registryVars, sub, snap, poolVars, controlVars, historyVars>>

\* if job.status != RUNNING: return
CheckRunning(j) ==
  /\ \/ status[j] = "running" /\ TaskStep(j, "ended", "checked")
     \/ status[j] # "running" /\ TaskStep(j, "ended", "final")
  /\ UNCHANGED <<registryVars, sub, outcome, snap, poolVars, controlVars, historyVars>>

\* if job.pause_requested ...
CheckPause(j) ==
  /\ \/ pauseReq[j] /\ TaskStep(j, "checked", "willPause")
     \/ ~pauseReq[j] /\ TaskStep(j, "checked", "unpaused")
  /\ UNCHANGED <<registryVars, sub, outcome, snap, poolVars, controlVars, historyVars>>

\* Mutant: the exception branch does not look at cancel_requested.
CheckCancelUnlessRaised(j) ==
  /\ \/ outcome[j] = "raise" /\ TaskStep(j, "unpaused", "willFail")
     \/ /\ outcome[j] = "return" /\ cancelReq[j]
        /\ TaskStep(j, "unpaused", "willCancel")
     \/ /\ outcome[j] = "return" /\ ~cancelReq[j]
        /\ TaskStep(j, "unpaused", "willSucceed")
  /\ UNCHANGED <<registryVars, sub, outcome, snap, poolVars, controlVars, historyVars>>

\* elif job.cancel_requested ... else SUCCEEDED or, after an exception, FAILED
CheckCancel(j) ==
  /\ \/ cancelReq[j] /\ TaskStep(j, "unpaused", "willCancel")
     \/ /\ ~cancelReq[j] /\ outcome[j] = "return"
        /\ TaskStep(j, "unpaused", "willSucceed")
     \/ /\ ~cancelReq[j] /\ outcome[j] = "raise"
        /\ TaskStep(j, "unpaused", "willFail")
  /\ UNCHANGED <<registryVars, sub, outcome, snap, poolVars, controlVars, historyVars>>

Settle(j) ==
  /\ \/ TaskStep(j, "willPause", "final") /\ SetStatus(j, "paused")
     \/ TaskStep(j, "willCancel", "final") /\ SetStatus(j, "cancelled")
     \/ TaskStep(j, "willFail", "final") /\ SetStatus(j, "failed")
     \/ TaskStep(j, "willSucceed", "setResult") /\ SetStatus(j, "succeeded")
  /\ UNCHANGED <<cancelReq, pauseReq, result, row, sub, outcome, snap, poolVars,
                 controlVars, historyVars>>

SetResult(j) ==
  /\ TaskStep(j, "setResult", "final")
  /\ result' = [result EXCEPT ![j] = TRUE]
  /\ UNCHANGED <<status, cancelReq, pauseReq, row, sub, outcome, snap, poolVars,
                 controlVars, historyVars>>

\* Mutant: the final state is never persisted.
FinalForgotten(j) ==
  /\ TaskStep(j, "final", "done")
  /\ UNCHANGED <<registryVars, sub, outcome, snap, poolVars, controlVars, historyVars>>

\* finally: finished_at, then _persist.
FinalBuild(j) ==
  /\ TaskStep(j, "final", "finalBuilt")
  /\ snap' = [snap EXCEPT ![j] = status[j]]
  /\ UNCHANGED <<registryVars, sub, outcome, poolVars, controlVars, historyVars>>

FinalSave(j) ==
  /\ TaskStep(j, "finalBuilt", "done")
  /\ \/ row' = [row EXCEPT ![j] = snap[j]] /\ UNCHANGED lost
     \/ StoreMayFail /\ lost' = lost \cup {j} /\ UNCHANGED row
  /\ UNCHANGED <<status, cancelReq, pauseReq, result, sub, outcome, snap,
                 poolVars, controlVars, forced, resumed, askedInTime, tag,
                 restamped>>

-----------------------------------------------------------------------------
(* cancel(), pause(), resume(): one critical section each.                 *)

NoteRequest(j) ==
  askedInTime' = [askedInTime EXCEPT ![j] = @ \/ task[j] \in BeforeEnd]

\* Mutant: the job is declared CANCELLED while its thread goes on.
CancelAtOnce(j) ==
  /\ "cancel" \in Requests
  /\ lock = Nobody /\ status[j] \in Live
  /\ cancelReq' = [cancelReq EXCEPT ![j] = TRUE]
  /\ SetStatus(j, "cancelled")
  /\ NoteRequest(j)
  /\ UNCHANGED <<pauseReq, result, row, sub, workerVars, poolVars, controlVars,
                 forced, resumed, tagVars>>

Cancel(j) ==
  /\ "cancel" \in Requests
  /\ lock = Nobody /\ status[j] \in Live
  /\ cancelReq' = [cancelReq EXCEPT ![j] = TRUE]
  /\ NoteRequest(j)
  /\ UNCHANGED <<status, pauseReq, result, row, sub, workerVars, poolVars,
                 controlVars, forced, resumed, tagVars>>

Pause(j) ==
  /\ "pause" \in Requests
  /\ lock = Nobody /\ status[j] = "running"
  /\ pauseReq' = [pauseReq EXCEPT ![j] = TRUE]
  /\ NoteRequest(j)
  /\ UNCHANGED <<status, cancelReq, result, row, sub, workerVars, poolVars,
                 controlVars, forced, resumed, tagVars>>

\* Mutant: a finished job can be resumed too.
ResumeAnything(j) ==
  /\ "resume" \in Requests
  /\ lock = Nobody /\ status[j] \in {"paused"} \cup Terminal
  /\ SetStatus(j, "pending")
  /\ pauseReq' = [pauseReq EXCEPT ![j] = FALSE]
  /\ resumed' = [resumed EXCEPT ![j] = TRUE]
  /\ UNCHANGED <<cancelReq, result, row, sub, workerVars, poolVars, controlVars,
                 forced, askedInTime, tagVars>>

\* resume() marks the job PENDING and then calls self._submit_job, a method
\* that does not exist: nothing reaches the executor or the store.
Resume(j) ==
  /\ "resume" \in Requests
  /\ lock = Nobody /\ status[j] = "paused"
  /\ SetStatus(j, "pending")
  /\ pauseReq' = [pauseReq EXCEPT ![j] = FALSE]
  /\ resumed' = [resumed EXCEPT ![j] = TRUE]
  /\ UNCHANGED <<cancelReq, result, row, sub, workerVars, poolVars, controlVars,
                 forced, askedInTime, tagVars>>

-----------------------------------------------------------------------------
(* _watchdog_loop(): one sweep holds the lock throughout.                  *)

\* A sweep that can find nothing over its cap is left out (MayOverrun).
dogFrame == <<cancelReq, pauseReq, result, sub, workerVars, poolVars, kill,
              kills, stopped, resumed, askedInTime, tagVars>>

WatchdogBegin ==
  /\ MayOverrun /\ dog.at = "idle" /\ ~stopped /\ lock = Nobody
  /\ lock' = Watchdog
  /\ dog' = [dog EXCEPT !.at = "scan", !.todo = Registered]
  /\ UNCHANGED <<status, row, forced, dogFrame>>

\* started_at is set between the RUNNING mark and the first persist.
Started(j) == task[j] \notin {"none", "queued", "dropped", "claimed", "marked"}

\* Mutant: jobs asked to pause are exempt from the caps.
WatchdogSparesPausing(j) ==
  /\ dog.at = "scan" /\ j \in dog.todo
  /\ status[j] = "running" /\ Started(j) /\ ~pauseReq[j]
  /\ dog' = [dog EXCEPT !.at = "mark", !.todo = @ \ {j}, !.job = j]
  /\ UNCHANGED <<status, row, lock, forced, dogFrame>>

\* The job is RUNNING and found over max_run_seconds or max_stall_seconds.
WatchdogCheck(j) ==
  /\ dog.at = "scan" /\ j \in dog.todo
  /\ status[j] = "running" /\ Started(j)
  /\ dog' = [dog EXCEPT !.at = "mark", !.todo = @ \ {j}, !.job = j]
  /\ UNCHANGED <<status, row, lock, forced, dogFrame>>

\* Mutant: a status of its own for stalled jobs, which JobStatus does not have.
WatchdogMarksStalled ==
  /\ dog.at = "mark"
  /\ SetStatus(dog.job, "stalled")
  /\ forced' = [forced EXCEPT ![dog.job] = TRUE]
  /\ dog' = [dog EXCEPT !.at = "build"]
  /\ UNCHANGED <<row, lock, dogFrame>>

WatchdogMark ==
  /\ dog.at = "mark"
  /\ SetStatus(dog.job, "failed")
  /\ forced' = [forced EXCEPT ![dog.job] = TRUE]
  /\ dog' = [dog EXCEPT !.at = "build"]
  /\ UNCHANGED <<row, lock, dogFrame>>

WatchdogBuild ==
  /\ dog.at = "build"
  /\ dog' = [dog EXCEPT !.at = "save", !.snap = status[dog.job]]
  /\ UNCHANGED <<status, row, lock, forced, dogFrame>>

WatchdogSave ==
  /\ dog.at = "save"
  /\ Save(dog.job, dog.snap)
  /\ dog' = [dog EXCEPT !.at = "scan", !.job = NoJob, !.snap = "none"]
  /\ UNCHANGED <<status, lock, forced, dogFrame>>

\* The jobs still in todo are within their caps.
WatchdogEnd ==
  /\ dog.at = "scan"
  /\ dog' = [dog EXCEPT !.at = "idle", !.todo = {}]
  /\ lock' = Nobody
  /\ UNCHANGED <<status, row, forced, dogFrame>>

-----------------------------------------------------------------------------
(* kill_stuck(): mark under the lock, then persist each, then recycle.     *)

killFrame == <<cancelReq, pauseReq, result, sub, outcome, snap, pool, dog,
               stopped, resumed, askedInTime, tagVars>>

KillBegin(k) ==
  /\ kill[k].at = "idle" /\ kills < MaxKills /\ lock = Nobody
  /\ lock' = k
  /\ kills' = kills + 1
  /\ kill' = [kill EXCEPT ![k].at = "scan", ![k].todo = Registered]
  /\ UNCHANGED <<status, row, task, gen, open, queue, forced, killFrame>>

\* if job.status not in (PENDING, RUNNING): continue
KillSkip(k, j) ==
  /\ kill[k].at = "scan" /\ j \in kill[k].todo
  /\ status[j] \notin Live
  /\ kill' = [kill EXCEPT ![k].todo = @ \ {j}]
  /\ UNCHANGED <<status, row, task, gen, open, queue, lock, kills, forced, killFrame>>

\* PENDING is to become CANCELLED, RUNNING to become FAILED.
KillRead(k, j) ==
  /\ kill[k].at = "scan" /\ j \in kill[k].todo
  /\ status[j] \in Live
  /\ kill' = [kill EXCEPT ![k].at = "mark", ![k].todo = @ \ {j}, ![k].job = j,
                          ![k].snap = IF status[j] = "pending" THEN "cancelled"
                                                               ELSE "failed"]
  /\ UNCHANGED <<status, row, task, gen, open, queue, lock, kills, forced, killFrame>>

KillMark(k) ==
  /\ kill[k].at = "mark"
  /\ SetStatus(kill[k].job, kill[k].snap)
  /\ forced' = [forced EXCEPT ![kill[k].job] = TRUE]
  /\ kill' = [kill EXCEPT ![k].at = "scan", ![k].job = NoJob, ![k].snap = "none",
                          ![k].killed = @ \cup {kill[k].job}]
  /\ UNCHANGED <<row, task, gen, open, queue, lock, kills, killFrame>>

KillUnlock(k) ==
  /\ kill[k].at = "scan" /\ kill[k].todo = {}
  /\ lock' = Nobody
  /\ kill' = [kill EXCEPT ![k].at = IF kill[k].killed = {} THEN "idle" ELSE "persist"]
  /\ UNCHANGED <<status, row, task, gen, open, queue, kills, forced, killFrame>>

KillBuild(k, j) ==
  /\ kill[k].at = "persist" /\ j \in kill[k].killed
  /\ kill' = [kill EXCEPT ![k].at = "save", ![k].job = j, ![k].snap = status[j],
                          ![k].killed = @ \ {j}]
  /\ UNCHANGED <<status, row, task, gen, open, queue, lock, kills, forced, killFrame>>

KillSave(k) ==
  /\ kill[k].at = "save"
  /\ Save(kill[k].job, kill[k].snap)
  /\ kill' = [kill EXCEPT ![k].at = "persist", ![k].job = NoJob, ![k].snap = "none"]
  /\ UNCHANGED <<status, task, gen, open, queue, lock, kills, forced, killFrame>>

\* executor.shutdown(wait=False, cancel_futures=True) (external).
ClosePool ==
  /\ open' = [open EXCEPT ![gen] = FALSE]
  /\ queue' = [queue EXCEPT ![gen] = <<>>]
  /\ task' = [j \in Jobs |-> IF task[j] = "queued" /\ pool[j] = gen
                             THEN "dropped" ELSE task[j]]

\* Mutant: the old pool is replaced without being shut down.
RecycleWithoutShutdown(k) ==
  /\ kill[k].at = "persist" /\ kill[k].killed = {}
  /\ kill' = [kill EXCEPT ![k].at = "newPool"]
  /\ UNCHANGED <<status, row, task, open, queue, gen, lock, kills, forced, killFrame>>

\* recycle_executor(): close the pool, then bind a fresh one; no lock is held.
RecycleClose(k) ==
  /\ kill[k].at = "persist" /\ kill[k].killed = {}
  /\ ClosePool
  /\ kill' = [kill EXCEPT ![k].at = "newPool"]
  /\ UNCHANGED <<status, row, gen, lock, kills, forced, killFrame>>

RecycleOpen(k) ==
  /\ kill[k].at = "newPool"
  /\ gen < MaxKills              \* bound; kills never lets it bite
  /\ gen' = gen + 1
  /\ open' = [open EXCEPT ![gen + 1] = TRUE]
  /\ kill' = [kill EXCEPT ![k].at = "idle"]
  /\ UNCHANGED <<status, row, task, queue, lock, kills, forced, killFrame>>

\* shutdown(): stop the watchdog loop and close the pool.
Shutdown ==
  /\ "shutdown" \in Requests /\ ~stopped
  /\ stopped' = TRUE
  /\ ClosePool
  /\ UNCHANGED <<registryVars, sub, outcome, snap, pool, gen, lock, dog, kill,
                 kills, historyVars>>

-----------------------------------------------------------------------------
(* set_job_tags() of a registered job: persist_job on the request thread,   *)
(* without the lock, so any number of steps may lie between its two halves. *)

TagBuild(t, j) ==
  /\ tag[t] = NoTag /\ j \in Registered
  /\ tag' = [tag EXCEPT ![t] = [job |-> j, snap |-> status[j]]]
  /\ UNCHANGED <<registryVars, sub, workerVars, poolVars, controlVars, forced,
                 resumed, askedInTime, lost, restamped>>

\* A row saved after the worker's last one is either the live status again or
\* one the tag request had built before the job ended.
TagSave(t) ==
  LET j == tag[t].job
      stale == task[j] = "done" /\ tag[t].snap # status[j]
  IN
  /\ tag[t] # NoTag
  /\ \/ /\ row' = [row EXCEPT ![j] = tag[t].snap]
        /\ restamped' = IF stale THEN restamped \cup {j} ELSE restamped \ {j}
     \/ StoreMayFail /\ UNCHANGED <<row, restamped>>
  /\ tag' = [tag EXCEPT ![t] = NoTag]
  /\ UNCHANGED <<status, cancelReq, pauseReq, result, sub, workerVars, poolVars,
                 controlVars, forced, resumed, askedInTime, lost>>

-----------------------------------------------------------------------------
Submit(j) == SubmitRegister(j) \/ SubmitBuild(j) \/ SubmitSave(j) \/ SubmitEnqueue(j)

\* What the worker thread does on its own, fn excepted.
RunStep(j) ==
  \/ RunMark(j) \/ RunBuild(j) \/ RunSave(j)
  \/ CheckRunning(j) \/ CheckPause(j) \/ CheckCancel(j)
  \/ Settle(j) \/ SetResult(j) \/ FinalBuild(j) \/ FinalSave(j)

Request(j) == Cancel(j) \/ Pause(j) \/ Resume(j)

WatchdogStep == WatchdogMark \/ WatchdogBuild \/ WatchdogSave \/ WatchdogEnd

KillStep(k) ==
  \/ \E j \in Jobs : KillSkip(k, j) \/ KillRead(k, j) \/ KillBuild(k, j)
  \/ KillMark(k) \/ KillUnlock(k) \/ KillSave(k)
  \/ RecycleClose(k) \/ RecycleOpen(k)

Next ==
  \/ \E j \in Jobs : Submit(j) \/ RunStep(j) \/ WorkEnd(j) \/ Request(j)
  \/ \E g \in Gens, j \in Jobs : Claim(g, j)
  \/ WatchdogBegin \/ (\E j \in Jobs : WatchdogCheck(j)) \/ WatchdogStep
  \/ \E k \in Killers : KillBegin(k) \/ KillStep(k)
  \/ \E t \in Taggers : TagSave(t) \/ \E j \in Jobs : TagBuild(t, j)
  \/ Shutdown

Spec == Init /\ [][Next]_vars

\* Threads are scheduled: whoever is inside submit, _run, the sweep or
\* kill_stuck goes on, and an idle pool thread takes the next work item.  A
\* job that stays RUNNING is eventually over its cap at some sweep, hence the
\* strong fairness of WatchdogCheck.  Requests are never promised.
ThreadsGoOn ==
  /\ \A j \in Jobs : /\ WF_vars(sub[j] # "idle" /\ Submit(j))
                     /\ WF_vars(RunStep(j))
                     /\ SF_vars(WatchdogCheck(j))
  /\ \A g \in Gens : WF_vars(\E j \in Jobs : Claim(g, j))
  /\ WF_vars(WatchdogStep)
  /\ \A k \in Killers : WF_vars(KillStep(k))
  /\ \A t \in Taggers : WF_vars(TagSave(t))

-----------------------------------------------------------------------------
(* Correctness.                                                            *)

\* A job that was never force-terminated walks the documented lifecycle and
\* its outcome is final, whatever the interleaving of requests and workers.
Lifecycle == INSTANCE JobLifecycle WITH phase <- status
ImplementsLifecycle == Lifecycle!Spec

\* The status of a job tells what its thread does: unless the watchdog or
\* kill_stuck wrote it, a thread that may still be inside fn means RUNNING,
\* and a terminal status means that no thread will write it again.
StatusTellsThread == \A j \in Jobs : ~forced[j] =>
  /\ task[j] \in {"marked", "built", "working", "ended", "checked", "unpaused"} \cup Willing
       => status[j] = "running"
  /\ status[j] \in Terminal
       => task[j] \in {"setResult", "final", "finalBuilt", "done"}

\* A cancel or pause accepted before fn ended decides the outcome (jobs.py:
\* "acknowledged once the current unit of work finishes"), including when fn
\* raised: the job is never reported as succeeded or failed.
RequestHonoured == \A j \in Jobs :
  askedInTime[j] /\ ~forced[j] => status[j] \notin {"succeeded", "failed"}

\* When the worker is through, the persisted row shows the live status (a
\* reader after a restart sees what a reader before it saw), for a job that
\* was neither force-terminated nor resumed and whose last save did not fail.
\* One thing only undoes it: a tag request that had built its row while the
\* job was PENDING or RUNNING saves it after the worker's last save; then the
\* row claims the job is live still, never another outcome, and the next tag
\* request sets it right.
RowSettles == \A j \in Jobs :
  task[j] = "done" /\ ~forced[j] /\ ~resumed[j] /\ j \notin lost =>
    IF j \in restamped
    THEN row[j] \in Live
    ELSE row[j] = status[j] /\ (row[j] = "succeeded" <=> result[j])

\* A job whose fn blocks for ever does not stay RUNNING: the watchdog's
\* promise ("cannot hang indefinitely").
RunningEnds == \A j \in Jobs : status[j] = "running" ~> status[j] # "running"

\* A force-kill frees the queue ("the queue is unblocked", jobs.py:513): no job
\* stays queued behind threads that block for ever once a kill_stuck that
\* terminated anything has begun to persist.
KillFreesQueue == \A k \in Killers, j \in Jobs :
  kill[k].at = "persist" /\ task[j] = "queued" ~> task[j] # "queued"

\* If no fn blocks for ever, every job handed to the executor runs to the end
\* of _run unless kill_stuck drops it.
JobsFinish ==
  (\A j \in Jobs : []<>(task[j] # "working")) =>
    \A j \in Jobs : sub[j] = "returned" ~> task[j] \in {"done", "dropped"}

-----------------------------------------------------------------------------
(* What comments and docstrings of jobs.py say and the code does not do.   *)

\* jobs.py:394 "the orphaned worker thread must not resurrect it".
NoResurrection ==
  [][\A j \in Jobs : forced[j] /\ status[j] \in Terminal
       => status'[j] \in Terminal]_vars
=============================================================================
