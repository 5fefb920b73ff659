-------------------------- MODULE WorkspaceRuntime --------------------------
(***************************************************************************)
(* The active workspace of the backend (api/app.py): class WorkspaceRuntime *)
(* with build_services, the guard of routers/session.py, the reconciliation *)
(* of job rows at start-up and on reads, the write-through of live jobs,     *)
(* and crashes of the process.                                              *)
(*                                                                          *)
(* Granularity.  sync runs on the event loop, one at a time; handlers and   *)
(* jobs run on threads, so they meet sync between any two of its            *)
(* statements that touch shared state.  A connection pool is "current",     *)
(* "next" (opened by a rebuild that has not closed the old one) or          *)
(* "closed"; a statement on a closed pool raises and the caller swallows    *)
(* it.  A lookup in the services dictionary is one step with the statement  *)
(* it stands in, except where a handler keeps what it found: a manager or a *)
(* service taken before the dictionary is cleared may be used after it.     *)
(* The life of a job is cut down to what is saved and when; the module      *)
(* JobManager has the rest.                                                 *)
(***************************************************************************)
EXTENDS Naturals, FiniteSets

CONSTANTS
  Workspaces,  \* the registered workspaces; nothing deletes one
  Legacy,      \* the one that is the default database
  NoWs,        \* "no active workspace" (chooser), also _bound = None
  Jobs,        \* job ids; an id is submitted once
  NoJob,       \* "no job"
  Requests,    \* request threads that list jobs or switch the workspace
  Taggers,     \* request threads that set the tags of a job
  MayTear,     \* may registry.json be read while it is being rewritten?
  MayCrash

ASSUME WorkspaceAssumption == Legacy \in Workspaces /\ NoWs \notin Workspaces
ASSUME NoJobAssumption == NoJob \notin Jobs
ASSUME FaultAssumption == MayTear \in BOOLEAN /\ MayCrash \in BOOLEAN

VARIABLES
  pointer,  \* active.json
  runtime,  \* WorkspaceRuntime: [active |-> active_workspace_id, bound |-> _bound]
  db,       \* the database behind services["repos"]
  store,    \* the pool JobManager._store belongs to
  loop,     \* where sync is on the event loop, and what it is switching to
  known,    \* the jobs in JobManager._jobs
  job,      \* where each job is
  save,     \* the row each job's _persist has built: [pool, db, status]
  row,      \* the job rows of each database
  req,      \* the request threads that list or switch
  tag,      \* the request threads that tag, with the row they hold
  missed,   \* history: did the rebuild's reconciliation of this binding fail?
  home,     \* history: the database a job was submitted in
  exposed,  \* history: a switch may overtake the job's rows
  restamped \* history: jobs of which a tag request saved a row that was out
            \* of date, or outside the database it belongs to

jobVars == <<job, save, home>>
tagVars == <<tag, restamped>>
runtimeVars == <<pointer, runtime, db, store, loop>>
vars == <<runtimeVars, known, jobVars, row, req, tagVars, missed, exposed>>

-----------------------------------------------------------------------------
\* No workspace means the default configuration.
DB(w) == IF w = NoWs THEN Legacy ELSE w
Binding == Workspaces \cup {NoWs}
Live == {"pending", "running"}
RowStatus == {"none", "ended", "interrupted"} \cup Live

Phases == {"idle", "arrived", "registered", "pendSave", "queued", "started",
           "runSave", "working", "ended", "endSave", "over", "lost"}
\* JobStatus of a job of this process, as the guard reads it.
StatusOf(j) ==
  CASE job[j] \in {"registered", "pendSave", "queued"} -> "pending"
    [] job[j] \in {"started", "runSave", "working"}    -> "running"
    [] OTHER                                           -> "ended"
NoSave == [pool |-> "closed", db |-> Legacy, status |-> "none"]
Idle == [at |-> "idle", kind |-> "list", to |-> NoWs, busy |-> FALSE,
         pool |-> "current", from |-> Legacy, seen |-> {}]

LoopState == [at : {"down", "idle", "sync", "build", "built", "stored", "cleared",
                    "swapped", "served"}, to : Binding]
RowBuilt == [pool : {"current", "next", "closed"}, db : Workspaces, status : RowStatus]
RequestState ==
  [at : {"idle", "arrived", "guarded", "listed"}, kind : {"list", "switch"},
   to : Binding, busy : BOOLEAN, pool : {"current", "closed"}, from : Workspaces,
   seen : SUBSET Jobs]

\* A tag request of a live job has built its row from the job; one of a job of
\* an earlier process has read the row and may have to repair it.
Untagging == [at |-> "idle", job |-> NoJob, pool |-> "current", db |-> Legacy,
              status |-> "none"]
TagState == [at : {"arrived", "built", "read", "healed"}, job : Jobs,
             pool : {"current", "next", "closed"}, db : Workspaces, status : RowStatus]

TypeOK ==
  /\ pointer \in Binding /\ runtime \in [active : Binding, bound : Binding]
  /\ db \in Workspaces /\ store \in {"current", "next", "closed"}
  /\ loop \in LoopState
  /\ known \subseteq Jobs /\ job \in [Jobs -> Phases]
  /\ save \in [Jobs -> RowBuilt]
  /\ row \in [Workspaces -> [Jobs -> RowStatus]]
  /\ req \in [Requests -> RequestState]
  /\ missed \in BOOLEAN /\ home \in [Jobs -> Workspaces]
  /\ tag \in [Taggers -> {Untagging} \cup TagState]
  /\ exposed \subseteq Jobs /\ restamped \subseteq Jobs

\* First start: bootstrap writes the registry, then the pointer; a crash
\* between the two leaves no pointer.
Init ==
  /\ pointer \in {Legacy, NoWs}
  /\ runtime = [active |-> NoWs, bound |-> Legacy]
  /\ db = Legacy /\ store = "current"
  /\ loop = [at |-> "down", to |-> NoWs]
  /\ known = {} /\ job = [j \in Jobs |-> "idle"]
  /\ save = [j \in Jobs |-> NoSave] /\ home = [j \in Jobs |-> Legacy]
  /\ row = [w \in Workspaces |-> [j \in Jobs |-> "none"]]
  /\ req = [r \in Requests |-> Idle]
  /\ tag = [t \in Taggers |-> Untagging]
  /\ missed = FALSE /\ exposed = {} /\ restamped = {}

-----------------------------------------------------------------------------
(* build_services, sync.                                                   *)

\* Mutant: the UPDATE has no condition on the status.
InterruptedAll(rows) == [j \in Jobs |-> IF rows[j] = "none" THEN "none" ELSE "interrupted"]

\* reconcile_stale_running: one UPDATE over the rows of the database.
Interrupted(rows) ==
  [j \in Jobs |-> IF rows[j] \in Live THEN "interrupted" ELSE rows[j]]

\* Mutant: the rebuild does not repair job rows.
ReconcileNothing(w) == missed' = FALSE /\ UNCHANGED row

\* The reconciliation of a rebuild; an exception is swallowed.
Reconcile(w) ==
  \/ /\ row' = [row EXCEPT ![w] = Interrupted(@)]
     /\ missed' = FALSE
  \/ /\ missed' = TRUE /\ UNCHANGED row

\* create_app: the default database first, then a sync to the pointer.
Boot ==
  /\ loop.at = "down"
  /\ Reconcile(Legacy)
  /\ runtime' = [active |-> NoWs, bound |-> Legacy]
  /\ db' = Legacy /\ store' = "current"
  /\ loop' = [at |-> "sync", to |-> NoWs]
  /\ UNCHANGED <<tagVars, pointer, known, jobVars, req, exposed>>

\* A request reaches the middleware.
Arrive ==
  /\ loop.at = "idle"
  /\ loop' = [loop EXCEPT !.at = "sync"]
  /\ UNCHANGED <<tagVars, pointer, runtime, db, store, known, jobVars, row, req, missed,
                 exposed>>

\* Jobs whose rows a move to another database may still meet.
AtLarge == {j \in Jobs : job[j] \notin {"idle", "arrived", "over", "lost"}}

\* The pointer against the binding.  A torn registry looks empty, and a
\* pointer it does not name is dropped.
Compare ==
  /\ loop.at = "sync"
  /\ \E torn \in BOOLEAN :
       LET w == IF torn THEN NoWs ELSE pointer IN
       /\ torn => MayTear /\ pointer # NoWs
       /\ pointer' = w
       /\ exposed' = IF torn THEN exposed \cup AtLarge ELSE exposed
       /\ \/ /\ w = runtime.active /\ runtime.bound # NoWs
             /\ loop' = [loop EXCEPT !.at = "served"] /\ UNCHANGED runtime
          \/ /\ w # NoWs /\ w # runtime.active /\ w = runtime.bound
             /\ loop' = [loop EXCEPT !.at = "served"]
             /\ runtime' = [runtime EXCEPT !.active = w]
          \/ /\ ~(w = runtime.active /\ runtime.bound # NoWs)
             /\ w = NoWs \/ w # runtime.bound
             /\ loop' = [at |-> "build", to |-> w] /\ UNCHANGED runtime
  /\ UNCHANGED <<tagVars, db, store, known, jobVars, row, req, missed>>

Build ==
  /\ loop.at = "build"
  /\ Reconcile(DB(loop.to))
  /\ loop' = [loop EXCEPT !.at = "built"]
  /\ UNCHANGED <<tagVars, pointer, runtime, db, store, known, jobVars, req, exposed>>

\* Mutant: the manager keeps the old store.
SetStoreForgotten ==
  /\ loop.at = "built"
  /\ loop' = [loop EXCEPT !.at = "stored"]
  /\ UNCHANGED <<tagVars, pointer, runtime, db, store, known, jobVars, row, req, missed, exposed>>

SetStore ==
  /\ loop.at = "built"
  /\ store' = "next"
  /\ loop' = [loop EXCEPT !.at = "stored"]
  /\ UNCHANGED <<tagVars, pointer, runtime, db, known, jobVars, row, req, missed, exposed>>

\* services.clear(): until the next statement no handler finds anything.
Clear ==
  /\ loop.at = "stored"
  /\ loop' = [loop EXCEPT !.at = "cleared"]
  /\ UNCHANGED <<tagVars, pointer, runtime, db, store, known, jobVars, row, req,
                 missed, exposed>>

\* services.update(fresh)
Swap ==
  /\ loop.at = "cleared"
  /\ db' = DB(loop.to)
  /\ loop' = [loop EXCEPT !.at = "swapped"]
  /\ UNCHANGED <<tagVars, pointer, runtime, store, known, jobVars, row, req, missed, exposed>>

\* What a reference to a pool is worth once the old pool is closed.
AfterClose(pool) == IF pool = "next" THEN "current" ELSE "closed"

\* Mutant: the binding is recorded with the pointer's value of now.
CloseReread ==
  /\ loop.at = "swapped"
  /\ store' = AfterClose(store)
  /\ save' = [j \in Jobs |-> [save[j] EXCEPT !.pool = AfterClose(@)]]
  /\ UNCHANGED req
  /\ runtime' = [active |-> pointer, bound |-> pointer]
  /\ loop' = [at |-> "served", to |-> NoWs]
  /\ tag' = [t \in Taggers |-> IF tag[t].at # "built" THEN tag[t]
                             ELSE [tag[t] EXCEPT !.pool = AfterClose(@)]]
  /\ UNCHANGED <<restamped, pointer, db, known, job, home, row, missed, exposed>>

\* old_repos.store.close(), and the binding is recorded.
Close ==
  /\ loop.at = "swapped"
  /\ store' = AfterClose(store)
  /\ save' = [j \in Jobs |-> [save[j] EXCEPT !.pool = AfterClose(@)]]
  /\ req' = [r \in Requests |-> IF req[r].kind = "switch" /\ req[r].at \in {"guarded", "listed"}
                                THEN [req[r] EXCEPT !.pool = "closed"] ELSE req[r]]
  /\ runtime' = [active |-> loop.to, bound |-> loop.to]
  /\ loop' = [at |-> "served", to |-> NoWs]
  /\ tag' = [t \in Taggers |-> IF tag[t].at # "built" THEN tag[t]
                             ELSE [tag[t] EXCEPT !.pool = AfterClose(@)]]
  /\ UNCHANGED <<restamped, pointer, db, known, job, home, row, missed, exposed>>

\* call_next: the handler is given to a thread.
Dispatch ==
  /\ loop.at = "served"
  /\ loop' = [loop EXCEPT !.at = "idle"]
  /\ \/ UNCHANGED <<job, req, tag>>
     \/ /\ \E j \in Jobs : /\ job[j] = "idle"
                           /\ job' = [job EXCEPT ![j] = "arrived"]
        /\ UNCHANGED <<req, tag>>
     \/ /\ \E t \in Taggers, j \in Jobs :
             /\ tag[t] = Untagging
             /\ tag' = [tag EXCEPT ![t] = [Untagging EXCEPT !.at = "arrived", !.job = j]]
        /\ UNCHANGED <<job, req>>
     \/ /\ \E r \in Requests, k \in {"list", "switch"}, w \in Binding :
             /\ req[r].at = "idle"
             /\ k = "list" => w = NoWs
             /\ req' = [req EXCEPT ![r] = [Idle EXCEPT !.at = "arrived",
                                                       !.kind = k, !.to = w]]
        /\ UNCHANGED <<job, tag>>
  /\ UNCHANGED <<pointer, runtime, db, store, known, save, home, row, missed,
                 exposed, restamped>>

-----------------------------------------------------------------------------
(* Jobs: submit, the worker, and _persist.                                 *)

\* A switch is past its guard, or the pointer has moved and sync has not.
PastGuard(r) ==
  req[r].kind = "switch" /\ req[r].at \in {"guarded", "listed"} /\ ~req[r].busy
SwitchUnderWay ==
  \/ \E r \in Requests : PastGuard(r)
  \/ DB(pointer) # db \/ loop.at \in {"build", "built", "stored", "cleared", "swapped"}

Move(j, from, to) == job[j] = from /\ job' = [job EXCEPT ![j] = to]

\* Mutant: the first row is saved before the manager knows the job.
RegisterLate(j) ==
  \/ /\ Move(j, "arrived", "registered")
     /\ home' = [home EXCEPT ![j] = db]
     /\ exposed' = IF SwitchUnderWay THEN exposed \cup {j} ELSE exposed
     /\ UNCHANGED <<tagVars, runtimeVars, known, save, row, req, missed>>
  \/ /\ job[j] = "queued" /\ j \notin known
     /\ known' = known \cup {j}
     /\ UNCHANGED <<tagVars, runtimeVars, jobVars, row, req, missed, exposed>>

Register(j) ==
  /\ Move(j, "arrived", "registered")
  /\ known' = known \cup {j}
  /\ home' = [home EXCEPT ![j] = db]
  /\ exposed' = IF SwitchUnderWay THEN exposed \cup {j} ELSE exposed
  /\ UNCHANGED <<tagVars, runtimeVars, save, row, req, missed>>

\* A submit that finds no services answers with an error.
Refuse(j) ==
  /\ loop.at = "cleared" /\ Move(j, "arrived", "idle")
  /\ UNCHANGED <<tagVars, runtimeVars, known, save, home, row, req, missed, exposed>>

\* The database of the pool JobManager._store belongs to.
StoreDB == IF store = "next" THEN DB(loop.to) ELSE db

\* _persist takes the manager's store and builds the row, then saves it.
Bind(j) ==
  /\ \/ Move(j, "registered", "pendSave")
     \/ Move(j, "started", "runSave")
     \/ Move(j, "ended", "endSave")
  /\ save' = [save EXCEPT ![j] = [pool |-> store, db |-> StoreDB,
                                   status |-> StatusOf(j)]]
  /\ UNCHANGED <<tagVars, runtimeVars, known, home, row, req, missed, exposed>>

Save(j) ==
  /\ \/ Move(j, "pendSave", "queued")
     \/ Move(j, "runSave", "working")
     \/ Move(j, "endSave", "over")
  /\ row' = IF save[j].pool = "closed" THEN row
            ELSE [row EXCEPT ![save[j].db][j] = save[j].status]
  /\ save' = [save EXCEPT ![j] = NoSave]
  /\ UNCHANGED <<tagVars, runtimeVars, known, home, req, missed, exposed>>

Work(j) ==
  /\ Move(j, "queued", "started") \/ Move(j, "working", "ended")
  /\ UNCHANGED <<tagVars, runtimeVars, known, save, home, row, req, missed, exposed>>

-----------------------------------------------------------------------------
(* Handlers that list jobs or switch the workspace.                        *)

\* Mutant: the guard looks at running jobs only.
GuardRunning(r) ==
  /\ req[r].at = "arrived" /\ loop.at # "cleared"
  /\ LET busy == req[r].kind = "switch" /\ \E j \in known : StatusOf(j) = "running" IN
     /\ req' = [req EXCEPT ![r] = [@ EXCEPT !.at = "guarded", !.busy = busy,
                  !.from = IF req[r].kind = "switch" THEN db ELSE req[r].from]]
     /\ exposed' = IF req[r].kind = "switch" /\ ~busy
                   THEN exposed \cup {j \in AtLarge : StatusOf(j) = "ended"}
                   ELSE exposed
  /\ UNCHANGED <<tagVars, runtimeVars, known, jobVars, row, missed>>

\* active_jobs asks the manager first; the list of jobs does not ask.  With the
\* services cleared a list fails; for active_jobs there are no repositories to
\* look in, and no active job either unless it took the manager before.
Guard(r) ==
  /\ req[r].at = "arrived" /\ loop.at # "cleared"
  /\ LET busy == req[r].kind = "switch" /\ \E j \in known : StatusOf(j) \in Live IN
     /\ req' = [req EXCEPT ![r] = [@ EXCEPT !.at = "guarded", !.busy = busy,
                  !.from = IF req[r].kind = "switch" THEN db ELSE req[r].from]]
     /\ exposed' = IF req[r].kind = "switch" /\ ~busy
                   THEN exposed \cup {j \in AtLarge : StatusOf(j) = "ended"}
                   ELSE exposed
  /\ UNCHANGED <<tagVars, runtimeVars, known, jobVars, row, missed>>

GuardCleared(r) ==
  /\ req[r].at = "arrived" /\ loop.at = "cleared"
  /\ \/ /\ req[r].kind = "list"
        /\ req' = [req EXCEPT ![r] = Idle] /\ UNCHANGED exposed
     \/ /\ req[r].kind = "switch"
        /\ \E found \in BOOLEAN :
             LET busy == found /\ \E j \in known : StatusOf(j) \in Live IN
             /\ req' = [req EXCEPT ![r] = [@ EXCEPT !.at = "listed", !.busy = busy]]
             /\ exposed' = IF busy THEN exposed ELSE exposed \cup AtLarge
  /\ UNCHANGED <<tagVars, runtimeVars, known, jobVars, row, missed>>

\* The live rows: of the manager's store for a list, of the repositories
\* captured by active_jobs for a switch (none when their pool is closed).
ListRows(r) ==
  /\ req[r].at = "guarded"
  /\ LET from == IF req[r].kind = "switch" THEN req[r].from ELSE StoreDB
         live == {j \in Jobs : row[from][j] \in Live}
     IN req' = [req EXCEPT ![r] = [@ EXCEPT !.at = "listed", !.seen =
                  IF req[r].pool = "closed" THEN {} ELSE live]]
  /\ UNCHANGED <<tagVars, runtimeVars, known, jobVars, row, missed, exposed>>

\* Mutant: a row read before is not repaired.
SkipRow(r, j) ==
  /\ req[r].at = "listed" /\ j \in req[r].seen
  /\ req' = [req EXCEPT ![r].seen = @ \ {j}]
  /\ UNCHANGED <<tagVars, runtimeVars, known, jobVars, row, missed, exposed>>

\* _reconcile_stale_job_row for one row read before; a list looks the
\* repositories up anew for each.
ReconcileRow(r, j) ==
  /\ req[r].at = "listed" /\ j \in req[r].seen
  /\ req[r].kind = "list" => loop.at # "cleared"
  /\ req' = [req EXCEPT ![r].seen = @ \ {j}]
  /\ row' = IF j \in known \/ req[r].pool = "closed"
            THEN row
            ELSE [row EXCEPT ![IF req[r].kind = "switch" THEN req[r].from ELSE db][j]
                    = "interrupted"]
  /\ UNCHANGED <<tagVars, runtimeVars, known, jobVars, missed, exposed>>

\* A handler finds no services on its way: a list with a row to look at, or a
\* switch about to be carried out.
HandlerFails(r) ==
  /\ req[r].at = "listed" /\ loop.at = "cleared"
  /\ (req[r].kind = "switch") <=> (req[r].seen = {})
  /\ req' = [req EXCEPT ![r] = Idle]
  /\ UNCHANGED <<tagVars, runtimeVars, known, jobVars, row, missed, exposed>>

\* 409 while jobs are active; otherwise activate or deactivate.
Finish(r) ==
  /\ req[r].at = "listed" /\ req[r].seen = {}
  /\ req' = [req EXCEPT ![r] = Idle]
  /\ pointer' = IF req[r].kind = "switch" /\ ~req[r].busy THEN req[r].to ELSE pointer
  /\ UNCHANGED <<tagVars, runtime, db, store, loop, known, jobVars, row, missed, exposed>>

-----------------------------------------------------------------------------
(* set_job_tags(): a job the manager knows is saved through _persist, the   *)
(* row of any other is read, repaired if nobody owns it, and saved.         *)

TagStep(t, state) == tag' = [tag EXCEPT ![t] = state]

\* The job is in the manager: its row is built for the store of now.
TagBuild(t) ==
  /\ tag[t].at = "arrived" /\ tag[t].job \in known
  /\ TagStep(t, [tag[t] EXCEPT !.at = "built", !.pool = store, !.db = StoreDB,
                               !.status = StatusOf(tag[t].job)])
  /\ UNCHANGED <<runtimeVars, known, jobVars, row, req, missed, exposed, restamped>>

\* It is not: the row is read from the repositories of now.
TagRead(t) ==
  LET found == row[db][tag[t].job] IN
  /\ tag[t].at = "arrived" /\ tag[t].job \notin known
  /\ loop.at # "cleared" /\ found # "none"
  /\ TagStep(t, [tag[t] EXCEPT !.at = IF found \in Live THEN "read" ELSE "healed",
                               !.db = db, !.status = found])
  /\ UNCHANGED <<runtimeVars, known, jobVars, row, req, missed, exposed, restamped>>

\* No row (404), or no services (an error).
TagFails(t) ==
  /\ tag[t].at = "arrived"
  /\ \/ tag[t].job \notin known /\ row[db][tag[t].job] = "none"
     \/ loop.at = "cleared"
  /\ TagStep(t, Untagging)
  /\ UNCHANGED <<runtimeVars, known, jobVars, row, req, missed, exposed, restamped>>

\* What a row read before is saved with, and where: the repositories are looked
\* up again at each save.
SaveRead(t, status) ==
  /\ row' = IF loop.at = "cleared" THEN row
            ELSE [row EXCEPT ![db][tag[t].job] = status]
  /\ restamped' = IF loop.at # "cleared" /\ db # tag[t].db
                  THEN restamped \cup {tag[t].job} ELSE restamped

\* _reconcile_stale_job_row: the row in hand is "interrupted" even if it cannot
\* be saved.
TagHeal(t) ==
  /\ tag[t].at = "read"
  /\ SaveRead(t, "interrupted")
  /\ TagStep(t, [tag[t] EXCEPT !.at = "healed", !.status = "interrupted"])
  /\ UNCHANGED <<runtimeVars, known, jobVars, req, missed, exposed>>

TagSave(t) ==
  LET j == tag[t].job IN
  /\ \/ /\ tag[t].at = "built"
        /\ row' = IF tag[t].pool = "closed" THEN row
                  ELSE [row EXCEPT ![tag[t].db][j] = tag[t].status]
        /\ restamped' =
             IF /\ tag[t].pool # "closed"
                /\ tag[t].status # StatusOf(j) \/ tag[t].db # home[j]
             THEN restamped \cup {j} ELSE restamped
     \/ tag[t].at = "healed" /\ SaveRead(t, tag[t].status)
  /\ TagStep(t, Untagging)
  /\ UNCHANGED <<runtimeVars, known, jobVars, req, missed, exposed>>

-----------------------------------------------------------------------------
\* The process dies: files and databases stay.
Crash ==
  /\ MayCrash /\ loop.at # "down"
  /\ loop' = [at |-> "down", to |-> NoWs]
  /\ known' = {} /\ req' = [r \in Requests |-> Idle]
  /\ job' = [j \in Jobs |-> IF job[j] \in {"idle", "arrived"} THEN "idle" ELSE "lost"]
  /\ save' = [j \in Jobs |-> NoSave]
  /\ tag' = [t \in Taggers |-> Untagging]
  /\ UNCHANGED <<restamped, pointer, runtime, db, store, row, missed, home, exposed>>

-----------------------------------------------------------------------------
Loop == Boot \/ Compare \/ Build \/ SetStore \/ Clear \/ Swap \/ Close
JobStep(j) == Register(j) \/ Refuse(j) \/ Bind(j) \/ Save(j) \/ Work(j)
Handle(r) ==
  \/ Guard(r) \/ GuardCleared(r) \/ ListRows(r)
  \/ (\E j \in Jobs : ReconcileRow(r, j)) \/ HandlerFails(r) \/ Finish(r)
SetTags(t) == TagBuild(t) \/ TagRead(t) \/ TagFails(t) \/ TagHeal(t) \/ TagSave(t)

Next ==
  \/ Loop \/ Arrive \/ Dispatch \/ Crash
  \/ \E j \in Jobs : JobStep(j)
  \/ \E r \in Requests : Handle(r)
  \/ \E t \in Taggers : SetTags(t)

Spec == Init /\ [][Next]_vars

\* Threads and the loop are scheduled; requests and crashes are not promised.
FairSpec ==
  /\ Spec
  /\ WF_vars(Loop) /\ WF_vars(Dispatch)
  /\ \A r \in Requests : WF_vars(Handle(r))
  /\ \A t \in Taggers : WF_vars(SetTags(t))

-----------------------------------------------------------------------------
(* Correctness.                                                            *)

Stable == loop.at \in {"idle", "served"}

\* This process runs or ran the job.
Mine(j) == job[j] \notin {"idle", "arrived", "lost"}

\* Between rebuilds the services, the manager's store and the recorded binding
\* are of one database: that of active_workspace_id.
BindingAgrees == Stable =>
  /\ db = DB(runtime.active) /\ store = "current"
  /\ runtime.bound \in Workspaces => runtime.bound = db

\* "Crash honesty" (app.py:343): when requests are served, a row that reads
\* pending or running has an owner in this process, however the process died
\* and whatever was switched since, unless the database refused the repair.
LiveRowOwned == loop.at \in {"idle", "served"} /\ ~missed =>
  \A j \in Jobs : row[db][j] \in Live => j \in known /\ Mine(j)

\* The repair on reads spares the rows of this process ("Rows owned by a live
\* worker are left untouched", app.py:986).  Only a rebuild interrupts one.
OwnedRowSpared ==
  [][\A w \in Workspaces, j \in Jobs :
       /\ Mine(j) /\ row'[w][j] = "interrupted" /\ row[w][j] # "interrupted"
       => loop.at = "build"]_vars

\* While the guard sees it, a job pins its database (session.py:45): its worker
\* saves there, a row that claims it is live is only there, and a final row is
\* elsewhere only if a tag request brought it.  The exceptions are the jobs
\* submitted behind the back of a guard, or ended before a guard looked and
\* saved after it, or unseen by a guard because the services were being
\* replaced, or overtaken when a torn registry moved the pointer.
StrayExplained == \A j \in Jobs \ exposed :
  /\ save[j].status # "none" => save[j].db = home[j]
  /\ \A w \in Workspaces \ {home[j]} :
       row[w][j] \notin Live /\ (row[w][j] = "ended" => j \in restamped)

\* No repair, no late save and no tag request undoes a final row, but for the
\* jobs a switch may have spread over two databases, and for a tag request that
\* saves what it built while the job was live or read in another database.
EndedStays == [][\A w \in Workspaces, j \in Jobs :
  row[w][j] = "ended" /\ j \notin exposed \cup restamped' => row'[w][j] = "ended"]_vars

\* A row a dead process left is finished in the end, even when the repair of
\* the rebuild failed, if its workspace stays bound, without being rebuilt for
\* ever, and jobs are listed.
PhantomHealed == \A w \in Workspaces, j \in Jobs :
  (/\ \A r \in Requests : []<>(req[r].kind = "list" /\ req[r].at = "listed")
   /\ <>[](db = w /\ loop.at \notin {"down", "cleared"}))
    => (row[w][j] \in Live /\ j \notin known ~> row[w][j] \notin Live)
=============================================================================
