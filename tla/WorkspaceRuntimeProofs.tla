----------------------- MODULE WorkspaceRuntimeProofs -----------------------
(***************************************************************************)
(* Proofs about WorkspaceRuntime, for every set of workspaces, jobs and     *)
(* requests, torn registries and crashes included; and about the caches it  *)
(* clears (AnalysisCaches), for every set of workspaces and requests.       *)
(***************************************************************************)
EXTENDS WorkspaceRuntime, AnalysisCaches, TLAPS

USE WorkspaceAssumption

-----------------------------------------------------------------------------
(* Records.                                                                *)

\* Every binding has a database.
LEMMA DatabaseOf == \A w \in Binding : DB(w) \in Workspaces
BY DEF Binding, DB

\* The records the code starts from.
LEMMA EmptyRecords == NoSave \in RowBuilt /\ Idle \in RequestState
<1>1. NoSave \in RowBuilt
  BY DEF NoSave, RowBuilt, RowStatus
<1>2. Idle \in RequestState
  BY DEF Idle, RequestState, Binding
<1> QED BY <1>1, <1>2

\* The updates of a request's state keep its type.
LEMMA RequestUpdates ==
  ASSUME NEW q \in RequestState
  PROVE  /\ \A b \in BOOLEAN, w \in Workspaces :
              [q EXCEPT !.at = "guarded", !.busy = b, !.from = w] \in RequestState
         /\ \A S \in SUBSET Jobs : [q EXCEPT !.at = "listed", !.seen = S] \in RequestState
         /\ \A S \in SUBSET Jobs : [q EXCEPT !.seen = S] \in RequestState
         /\ [q EXCEPT !.pool = "closed"] \in RequestState
         /\ \A k \in {"list", "switch"}, w \in Binding :
              [q EXCEPT !.at = "arrived", !.kind = k, !.to = w] \in RequestState
         /\ q.from \in Workspaces /\ q.seen \subseteq Jobs /\ q.to \in Binding
BY DEF RequestState

\* Requests that find no services.
LEMMA RequestListed ==
  ASSUME NEW q \in RequestState
  PROVE  \A b \in BOOLEAN : [q EXCEPT !.at = "listed", !.busy = b] \in RequestState
BY DEF RequestState

\* The records a tag request holds.
LEMMA TagUpdates ==
  ASSUME NEW q \in TagState
  PROVE  /\ \A p \in {"current", "next", "closed"}, w \in Workspaces, s \in RowStatus :
              [q EXCEPT !.at = "built", !.pool = p, !.db = w, !.status = s] \in TagState
         /\ \A a \in {"read", "healed"}, w \in Workspaces, s \in RowStatus :
              [q EXCEPT !.at = a, !.db = w, !.status = s] \in TagState
         /\ [q EXCEPT !.at = "healed", !.status = "interrupted"] \in TagState
         /\ [q EXCEPT !.pool = AfterClose(@)] \in TagState
BY DEF TagState, RowStatus, AfterClose

\* A tag request that is under way has a record.
LEMMA TagRecord ==
  ASSUME TypeOK, NEW t \in Taggers, tag[t].at # "idle"
  PROVE  tag[t] \in TagState
BY DEF TypeOK, Untagging

\* A pool that is closed is still a pool.
LEMMA ClosedRow == ASSUME NEW s \in RowBuilt
                   PROVE  [s EXCEPT !.pool = AfterClose(@)] \in RowBuilt
BY DEF RowBuilt, AfterClose

-----------------------------------------------------------------------------
(* Types.                                                                  *)

\* The state of a first start has its types.
LEMMA InitType == Init => TypeOK
<1> SUFFICES ASSUME Init PROVE TypeOK
  OBVIOUS
<1>1. save \in [Jobs -> RowBuilt] /\ req \in [Requests -> RequestState]
  BY EmptyRecords DEF Init
<1>2. row \in [Workspaces -> [Jobs -> RowStatus]]
  BY DEF Init, RowStatus
<1>3. pointer \in Binding /\ runtime \in [active : Binding, bound : Binding]
  BY DEF Init, Binding
<1>4. db \in Workspaces /\ store \in {"current", "next", "closed"} /\ loop \in LoopState
  BY DEF Init, LoopState, Binding
<1>5. job \in [Jobs -> Phases] /\ home \in [Jobs -> Workspaces]
  BY DEF Init, Phases
<1>6. missed \in BOOLEAN
  BY DEF Init
<1>7. known \subseteq Jobs /\ exposed \subseteq Jobs /\ restamped \subseteq Jobs
  BY DEF Init
<1>8. tag \in [Taggers -> {Untagging} \cup TagState]
  BY DEF Init
<1> QED BY <1>1, <1>2, <1>3, <1>4, <1>5, <1>6, <1>7, <1>8 DEF TypeOK

\* A rebuild's repair keeps the type of the rows.
LEMMA ReconcileType ==
  ASSUME TypeOK, NEW w \in Workspaces, Reconcile(w)
  PROVE  row' \in [Workspaces -> [Jobs -> RowStatus]] /\ missed' \in BOOLEAN
<1>1. row[w] \in [Jobs -> RowStatus]
  BY DEF TypeOK
<1>2. Interrupted(row[w]) \in [Jobs -> RowStatus]
  BY <1>1 DEF Interrupted, RowStatus
<1>3. row \in [Workspaces -> [Jobs -> RowStatus]]
  BY DEF TypeOK
<1>4. row' \in [Workspaces -> [Jobs -> RowStatus]]
  BY <1>2, <1>3 DEF Reconcile
<1>5. missed' \in BOOLEAN
  BY DEF Reconcile
<1> QED BY <1>4, <1>5

\* The steps of the event loop.
LEMMA LoopType == TypeOK /\ Loop => TypeOK'
<1> SUFFICES ASSUME TypeOK, Loop PROVE TypeOK'
  OBVIOUS
<1> USE DEF jobVars, tagVars
<1>0. /\ pointer \in Binding /\ runtime \in [active : Binding, bound : Binding]
      /\ loop \in LoopState /\ store \in {"current", "next", "closed"} /\ db \in Workspaces
      /\ DB(loop.to) \in Workspaces /\ NoWs \in Binding /\ loop.to \in Binding
  <2>1. loop.to \in Binding /\ NoWs \in Binding
    BY DEF TypeOK, LoopState, Binding
  <2> QED BY <2>1, DatabaseOf DEF TypeOK
<1>1. CASE Boot
  <2>1. row' \in [Workspaces -> [Jobs -> RowStatus]] /\ missed' \in BOOLEAN
    BY <1>1, ReconcileType DEF Boot
  <2>2. /\ runtime' \in [active : Binding, bound : Binding] /\ loop' \in LoopState
        /\ db' \in Workspaces /\ store' \in {"current", "next", "closed"}
    BY <1>1, <1>0 DEF Boot, LoopState, Binding
  <2>3. UNCHANGED <<pointer, known, job, save, home, req, exposed, tag, restamped>>
    BY <1>1 DEF Boot
  <2> QED BY <2>1, <2>2, <2>3 DEF TypeOK
<1>2. CASE Compare
  <2>1. pointer' \in Binding /\ exposed' \subseteq Jobs
    BY <1>2, <1>0 DEF Compare, TypeOK, AtLarge
  <2>2. runtime' \in [active : Binding, bound : Binding] /\ loop' \in LoopState
    BY <1>2, <1>0 DEF Compare, LoopState
  <2>3. UNCHANGED <<db, store, known, job, save, home, row, req, missed, tag, restamped>>
    BY <1>2 DEF Compare
  <2> QED BY <2>1, <2>2, <2>3 DEF TypeOK
<1>3. CASE Build
  <2>1. row' \in [Workspaces -> [Jobs -> RowStatus]] /\ missed' \in BOOLEAN
    BY <1>3, <1>0, ReconcileType DEF Build
  <2>2. loop' \in LoopState
    BY <1>3, <1>0 DEF Build, LoopState
  <2>3. UNCHANGED <<pointer, runtime, db, store, known, job, save, home, req, exposed, tag, restamped>>
    BY <1>3 DEF Build
  <2> QED BY <2>1, <2>2, <2>3 DEF TypeOK
<1>4. CASE SetStore \/ Clear \/ Swap
  <2>1. db' \in Workspaces /\ store' \in {"current", "next", "closed"} /\ loop' \in LoopState
    BY <1>4, <1>0 DEF SetStore, Clear, Swap, LoopState
  <2>2. UNCHANGED <<pointer, runtime, known, job, save, home, row, req, missed, exposed, tag, restamped>>
    BY <1>4 DEF SetStore, Clear, Swap
  <2> QED BY <2>1, <2>2 DEF TypeOK
<1>5. CASE Close
  <2>1. save' \in [Jobs -> RowBuilt]
    BY <1>5, ClosedRow DEF Close, TypeOK
  <2>2. req' \in [Requests -> RequestState]
    <3> DEFINE hit(r) == req[r].kind = "switch" /\ req[r].at \in {"guarded", "listed"}
               cut(r) == [req[r] EXCEPT !.pool = "closed"]
    <3>1. \A r \in Requests : req[r] \in RequestState /\ cut(r) \in RequestState
      BY RequestUpdates DEF TypeOK
    <3>2. req' = [r \in Requests |-> IF hit(r) THEN cut(r) ELSE req[r]]
      BY <1>5 DEF Close
    <3> HIDE DEF hit, cut
    <3> QED BY <3>1, <3>2
  <2>3. store' \in {"current", "next", "closed"}
    <3>1. store' = AfterClose(store)
      BY <1>5 DEF Close
    <3> QED BY <3>1 DEF AfterClose
  <2>5. runtime' \in [active : Binding, bound : Binding] /\ loop' \in LoopState
    BY <1>5, <1>0 DEF Close, LoopState
  <2>4. UNCHANGED <<pointer, db, known, job, home, row, missed, exposed, restamped>>
    BY <1>5 DEF Close
  <2>6. tag' \in [Taggers -> {Untagging} \cup TagState]
    <3> DEFINE cut(t) == [tag[t] EXCEPT !.pool = AfterClose(@)]
    <3>1. \A t \in Taggers : tag[t].at = "built" => cut(t) \in TagState
      BY TagRecord, TagUpdates
    <3>2. tag' = [t \in Taggers |-> IF tag[t].at # "built" THEN tag[t] ELSE cut(t)]
      BY <1>5 DEF Close
    <3>3. \A t \in Taggers : tag[t] \in {Untagging} \cup TagState
      BY DEF TypeOK
    <3> HIDE DEF cut
    <3> QED BY <3>1, <3>2, <3>3
  <2> QED BY <2>1, <2>2, <2>3, <2>4, <2>5, <2>6 DEF TypeOK
<1> QED BY <1>1, <1>2, <1>3, <1>4, <1>5 DEF Loop

\* The steps of a job.
LEMMA JobType == ASSUME TypeOK, NEW j \in Jobs, JobStep(j) PROVE TypeOK'
<1> USE DEF runtimeVars, jobVars, tagVars, Move
<1>0. job \in [Jobs -> Phases] /\ save \in [Jobs -> RowBuilt]
  BY DEF TypeOK
<1>1. CASE Register(j)
  <2>1. job' \in [Jobs -> Phases]
    BY <1>0, <1>1 DEF Register, Phases
  <2>2. known' \subseteq Jobs /\ home' \in [Jobs -> Workspaces] /\ exposed' \subseteq Jobs
    BY <1>1 DEF Register, TypeOK
  <2>3. UNCHANGED <<pointer, runtime, db, store, loop, save, row, req, missed, tag, restamped>>
    BY <1>1 DEF Register
  <2> QED BY <2>1, <2>2, <2>3 DEF TypeOK
<1>5. CASE Refuse(j)
  <2>1. job' \in [Jobs -> Phases]
    BY <1>0, <1>5 DEF Refuse, Phases
  <2>2. UNCHANGED <<pointer, runtime, db, store, loop, known, save, home, row, req, missed,
                    exposed, tag, restamped>>
    BY <1>5 DEF Refuse
  <2> QED BY <2>1, <2>2 DEF TypeOK
<1>2. CASE Bind(j)
  <2>1. DB(loop.to) \in Workspaces /\ db \in Workspaces /\ store \in {"current", "next", "closed"}
    BY DatabaseOf DEF TypeOK, LoopState
  <2>2. StatusOf(j) \in RowStatus
    BY DEF StatusOf, RowStatus, Live
  <2>3. [pool |-> store, db |-> StoreDB, status |-> StatusOf(j)] \in RowBuilt
    BY <2>1, <2>2 DEF RowBuilt, StoreDB
  <2>4. save' \in [Jobs -> RowBuilt]
    BY <1>0, <1>2, <2>3 DEF Bind
  <2>5. job' \in [Jobs -> Phases]
    BY <1>0, <1>2 DEF Bind, Phases
  <2>6. UNCHANGED <<pointer, runtime, db, store, loop, known, home, row, req, missed, exposed, tag, restamped>>
    BY <1>2 DEF Bind
  <2> QED BY <2>4, <2>5, <2>6 DEF TypeOK
<1>3. CASE Save(j)
  <2>1. save' \in [Jobs -> RowBuilt]
    BY <1>0, <1>3, EmptyRecords DEF Save
  <2>2. save[j].db \in Workspaces /\ save[j].status \in RowStatus
    BY <1>0 DEF RowBuilt
  <2>3. row \in [Workspaces -> [Jobs -> RowStatus]]
    BY DEF TypeOK
  <2>4. row' \in [Workspaces -> [Jobs -> RowStatus]]
    BY <1>3, <2>2, <2>3 DEF Save
  <2>5. job' \in [Jobs -> Phases]
    BY <1>0, <1>3 DEF Save, Phases
  <2>6. UNCHANGED <<pointer, runtime, db, store, loop, known, home, req, missed, exposed, tag, restamped>>
    BY <1>3 DEF Save
  <2> QED BY <2>1, <2>4, <2>5, <2>6 DEF TypeOK
<1>4. CASE Work(j)
  <2>1. job' \in [Jobs -> Phases]
    BY <1>0, <1>4 DEF Work, Phases
  <2>2. UNCHANGED <<pointer, runtime, db, store, loop, known, save, home, row, req, missed,
                    exposed, tag, restamped>>
    BY <1>4 DEF Work
  <2> QED BY <2>1, <2>2 DEF TypeOK
<1> QED BY <1>1, <1>2, <1>3, <1>4, <1>5 DEF JobStep

\* The steps of a handler.
LEMMA HandlerType == ASSUME TypeOK, NEW r \in Requests, Handle(r) PROVE TypeOK'
<1> USE DEF runtimeVars, jobVars, tagVars
<1>0. req \in [Requests -> RequestState] /\ req[r] \in RequestState
      /\ row \in [Workspaces -> [Jobs -> RowStatus]]
  BY DEF TypeOK
<1>1. CASE Guard(r)
  <2> DEFINE busy == req[r].kind = "switch" /\ \E j \in known : StatusOf(j) \in Live
             from == IF req[r].kind = "switch" THEN db ELSE req[r].from
             new == [req[r] EXCEPT !.at = "guarded", !.busy = busy, !.from = from]
  <2>1. from \in Workspaces
    BY <1>0, RequestUpdates DEF TypeOK
  <2>2. busy \in BOOLEAN
    OBVIOUS
  <2>3. new \in RequestState
    <3> HIDE DEF busy, from
    <3> QED BY <1>0, <2>1, <2>2, RequestUpdates
  <2>4. req' = [req EXCEPT ![r] = new]
    BY <1>0, <1>1 DEF Guard
  <2>5. req' \in [Requests -> RequestState]
    <3> HIDE DEF new
    <3> QED BY <1>0, <2>3, <2>4
  <2>6. exposed' \subseteq Jobs
    BY <1>1 DEF Guard, TypeOK, AtLarge
  <2>7. UNCHANGED <<pointer, runtime, db, store, loop, known, job, save, home, row, missed, tag, restamped>>
    BY <1>1 DEF Guard
  <2> QED BY <2>5, <2>6, <2>7 DEF TypeOK
<1>5. CASE GuardCleared(r) \/ HandlerFails(r)
  <2>1. \/ req' = [req EXCEPT ![r] = Idle]
        \/ \E b \in BOOLEAN :
             req' = [req EXCEPT ![r] = [req[r] EXCEPT !.at = "listed", !.busy = b]]
    BY <1>0, <1>5 DEF GuardCleared, HandlerFails
  <2>2. req' \in [Requests -> RequestState]
    <3>1. CASE req' = [req EXCEPT ![r] = Idle]
      BY <1>0, <3>1, EmptyRecords
    <3>2. ASSUME NEW b \in BOOLEAN,
                 req' = [req EXCEPT ![r] = [req[r] EXCEPT !.at = "listed", !.busy = b]]
          PROVE  req' \in [Requests -> RequestState]
      <4> DEFINE new == [req[r] EXCEPT !.at = "listed", !.busy = b]
      <4>1. new \in RequestState /\ req' = [req EXCEPT ![r] = new]
        BY <1>0, <3>2, RequestListed
      <4> HIDE DEF new
      <4> QED BY <1>0, <4>1
    <3> QED BY <2>1, <3>1, <3>2
  <2>3. exposed' \subseteq Jobs
    BY <1>5 DEF GuardCleared, HandlerFails, TypeOK, AtLarge
  <2>4. UNCHANGED <<pointer, runtime, db, store, loop, known, job, save, home, row, missed,
                    tag, restamped>>
    BY <1>5 DEF GuardCleared, HandlerFails
  <2> QED BY <2>2, <2>3, <2>4 DEF TypeOK
<1>2. CASE ListRows(r)
  <2>1. \E S \in SUBSET Jobs :
          req' = [req EXCEPT ![r] = [req[r] EXCEPT !.at = "listed", !.seen = S]]
    BY <1>2 DEF ListRows
  <2>4. PICK S \in SUBSET Jobs :
          req' = [req EXCEPT ![r] = [req[r] EXCEPT !.at = "listed", !.seen = S]]
    BY <2>1
  <2> DEFINE new == [req[r] EXCEPT !.at = "listed", !.seen = S]
  <2>5. new \in RequestState /\ req' = [req EXCEPT ![r] = new]
    BY <1>0, <2>4, RequestUpdates
  <2>2. req' \in [Requests -> RequestState]
    <3> HIDE DEF new
    <3> QED BY <1>0, <2>5
  <2>3. UNCHANGED <<pointer, runtime, db, store, loop, known, job, save, home, row, missed,
                    exposed, tag, restamped>>
    BY <1>2 DEF ListRows
  <2> QED BY <2>2, <2>3 DEF TypeOK
<1>3. ASSUME NEW j \in Jobs, ReconcileRow(r, j)
      PROVE  TypeOK'
  <2>1. req[r].seen \ {j} \in SUBSET Jobs
    BY <1>0, RequestUpdates
  <2>2. req' \in [Requests -> RequestState]
    BY <1>0, <1>3, <2>1, RequestUpdates DEF ReconcileRow
  <2>3. row' \in [Workspaces -> [Jobs -> RowStatus]]
    BY <1>0, <1>3 DEF ReconcileRow, RowStatus
  <2>4. UNCHANGED <<pointer, runtime, db, store, loop, known, job, save, home, missed, exposed, tag, restamped>>
    BY <1>3 DEF ReconcileRow
  <2> QED BY <2>2, <2>3, <2>4 DEF TypeOK
<1>4. CASE Finish(r)
  <2>1. req' \in [Requests -> RequestState]
    BY <1>0, <1>4, EmptyRecords DEF Finish
  <2>2. pointer' \in Binding
    BY <1>0, <1>4, RequestUpdates DEF Finish, TypeOK
  <2>3. UNCHANGED <<runtime, db, store, loop, known, job, save, home, row, missed, exposed, tag, restamped>>
    BY <1>4 DEF Finish
  <2> QED BY <2>1, <2>2, <2>3 DEF TypeOK
<1> QED BY <1>1, <1>2, <1>3, <1>4, <1>5 DEF Handle

\* A new request.
LEMMA DispatchType == TypeOK /\ Dispatch => TypeOK'
<1> SUFFICES ASSUME TypeOK, Dispatch PROVE TypeOK'
  OBVIOUS
<1>1. \/ job' = job
      \/ \E j \in Jobs : job' = [job EXCEPT ![j] = "arrived"]
  BY DEF Dispatch
<1>2. \/ req' = req
      \/ \E r \in Requests, k \in {"list", "switch"}, w \in Binding :
           req' = [req EXCEPT ![r] = [Idle EXCEPT !.at = "arrived", !.kind = k, !.to = w]]
  BY DEF Dispatch
<1>3. loop' \in LoopState
  BY DEF Dispatch, TypeOK, LoopState
<1>4. job' \in [Jobs -> Phases]
  BY <1>1 DEF TypeOK, Phases
<1>5. req' \in [Requests -> RequestState]
  <2>1. req \in [Requests -> RequestState]
    BY DEF TypeOK
  <2>2. CASE req' = req
    BY <2>1, <2>2
  <2>3. ASSUME NEW r \in Requests, NEW k \in {"list", "switch"}, NEW w \in Binding,
               req' = [req EXCEPT ![r] = [Idle EXCEPT !.at = "arrived", !.kind = k, !.to = w]]
        PROVE  req' \in [Requests -> RequestState]
    <3>1. [Idle EXCEPT !.at = "arrived", !.kind = k, !.to = w] \in RequestState
      BY EmptyRecords, RequestUpdates
    <3> DEFINE new == [Idle EXCEPT !.at = "arrived", !.kind = k, !.to = w]
    <3>2. req' = [req EXCEPT ![r] = new] /\ new \in RequestState
      BY <2>3, <3>1
    <3> HIDE DEF new
    <3> QED BY <2>1, <3>2
  <2> QED BY <1>2, <2>2, <2>3
<1>6. UNCHANGED <<pointer, runtime, db, store, known, save, home, row, missed, exposed, restamped>>
  BY DEF Dispatch
<1>7. tag' \in [Taggers -> {Untagging} \cup TagState]
  <2>1. tag \in [Taggers -> {Untagging} \cup TagState]
    BY DEF TypeOK
  <2>2. ASSUME NEW t \in Taggers, NEW j \in Jobs,
               tag' = [tag EXCEPT ![t] = [Untagging EXCEPT !.at = "arrived", !.job = j]]
        PROVE  tag' \in [Taggers -> {Untagging} \cup TagState]
    <3> DEFINE new == [Untagging EXCEPT !.at = "arrived", !.job = j]
    <3>1. new \in TagState
      BY DEF Untagging, TagState, RowStatus
    <3>2. tag' = [tag EXCEPT ![t] = new]
      BY <2>2
    <3> HIDE DEF new
    <3> QED BY <2>1, <3>1, <3>2
  <2>3. \/ tag' = tag
        \/ \E t \in Taggers, j \in Jobs :
             tag' = [tag EXCEPT ![t] = [Untagging EXCEPT !.at = "arrived", !.job = j]]
    BY DEF Dispatch
  <2> QED BY <2>1, <2>2, <2>3
<1> QED BY <1>3, <1>4, <1>5, <1>6, <1>7 DEF TypeOK

\* The end of the process.
LEMMA CrashType == TypeOK /\ Crash => TypeOK'
<1> SUFFICES ASSUME TypeOK, Crash PROVE TypeOK'
  OBVIOUS
<1>1. loop' \in LoopState /\ known' \subseteq Jobs
  BY DEF Crash, LoopState, Binding
<1>2. job' \in [Jobs -> Phases]
  BY DEF Crash, TypeOK, Phases
<1>3. /\ save' \in [Jobs -> RowBuilt] /\ req' \in [Requests -> RequestState]
      /\ tag' \in [Taggers -> {Untagging} \cup TagState]
  BY EmptyRecords DEF Crash
<1>4. UNCHANGED <<pointer, runtime, db, store, row, missed, home, exposed, restamped>>
  BY DEF Crash
<1> QED BY <1>1, <1>2, <1>3, <1>4 DEF TypeOK

\* The steps of a tag request.
LEMMA TagType == ASSUME TypeOK, NEW t \in Taggers, SetTags(t) PROVE TypeOK'
<1> USE DEF runtimeVars, jobVars
<1>0. /\ tag \in [Taggers -> {Untagging} \cup TagState] /\ tag[t].at # "idle"
      /\ tag[t] \in TagState /\ db \in Workspaces /\ StoreDB \in Workspaces
      /\ row \in [Workspaces -> [Jobs -> RowStatus]] /\ tag[t].job \in Jobs
  <2>1. tag[t].at # "idle"
    BY DEF SetTags, TagBuild, TagRead, TagFails, TagHeal, TagSave
  <2>2. tag[t] \in TagState
    BY <2>1, TagRecord
  <2>3. DB(loop.to) \in Workspaces
    BY DatabaseOf DEF TypeOK, LoopState
  <2> QED BY <2>1, <2>2, <2>3 DEF TypeOK, StoreDB, TagState
<1>1. \E new \in {Untagging} \cup TagState : tag' = [tag EXCEPT ![t] = new]
  <2>1. CASE TagBuild(t)
    <3>1. StatusOf(tag[t].job) \in RowStatus /\ store \in {"current", "next", "closed"}
      BY DEF StatusOf, RowStatus, Live, TypeOK
    <3>2. [tag[t] EXCEPT !.at = "built", !.pool = store, !.db = StoreDB,
                         !.status = StatusOf(tag[t].job)] \in TagState
      BY <1>0, <3>1, TagUpdates
    <3> QED BY <2>1, <3>2 DEF TagBuild, TagStep
  <2>2. CASE TagRead(t)
    <3> DEFINE found == row[db][tag[t].job]
               to == IF found \in Live THEN "read" ELSE "healed"
    <3>1. found \in RowStatus /\ to \in {"read", "healed"}
      BY <1>0
    <3>2. tag' = [tag EXCEPT ![t] = [tag[t] EXCEPT !.at = to, !.db = db, !.status = found]]
      BY <2>2 DEF TagRead, TagStep
    <3> HIDE DEF found, to
    <3>3. [tag[t] EXCEPT !.at = to, !.db = db, !.status = found] \in TagState
      BY <1>0, <3>1, TagUpdates
    <3> QED BY <3>2, <3>3
  <2>3. CASE TagFails(t) \/ TagSave(t)
    BY <2>3 DEF TagFails, TagSave, TagStep
  <2>4. CASE TagHeal(t)
    BY <1>0, <2>4, TagUpdates DEF TagHeal, TagStep
  <2> QED BY <2>1, <2>2, <2>3, <2>4 DEF SetTags
<1>2. tag' \in [Taggers -> {Untagging} \cup TagState]
  BY <1>0, <1>1
<1>3. row' \in [Workspaces -> [Jobs -> RowStatus]] /\ restamped' \subseteq Jobs
  <2>1. CASE TagBuild(t) \/ TagRead(t) \/ TagFails(t)
    BY <2>1 DEF TagBuild, TagRead, TagFails, TypeOK
  <2>2. CASE TagHeal(t) \/ TagSave(t)
    <3>1. /\ tag[t].status \in RowStatus /\ "interrupted" \in RowStatus
          /\ tag[t].db \in Workspaces /\ restamped \subseteq Jobs
      BY <1>0 DEF TagState, RowStatus, TypeOK
    <3>2. /\ restamped' \subseteq restamped \cup {tag[t].job}
          /\ \/ row' = row
             \/ \E w \in Workspaces, s \in RowStatus :
                  row' = [row EXCEPT ![w][tag[t].job] = s]
      BY <1>0, <2>2, <3>1 DEF TagHeal, TagSave, SaveRead
    <3> QED BY <1>0, <3>1, <3>2
  <2> QED BY <2>1, <2>2 DEF SetTags
<1>4. UNCHANGED <<pointer, runtime, db, store, loop, known, job, save, home, req, missed,
                  exposed>>
  BY DEF SetTags, TagBuild, TagRead, TagFails, TagHeal, TagSave
<1> QED BY <1>2, <1>3, <1>4 DEF TypeOK

\* Every step keeps the types.
LEMMA TypeStep == TypeOK /\ [Next]_vars => TypeOK'
<1> SUFFICES ASSUME TypeOK, [Next]_vars PROVE TypeOK'
  OBVIOUS
<1>1. CASE UNCHANGED vars
  <2>1. UNCHANGED <<pointer, runtime, db, store, loop, known, job, save, home, row, req,
                    missed, exposed, tag, restamped>>
    BY <1>1 DEF vars, runtimeVars, jobVars, tagVars
  <2> QED BY <2>1 DEF TypeOK
<1>2. CASE Arrive
  <2>1. loop' \in LoopState
    BY <1>2 DEF Arrive, TypeOK, LoopState
  <2>2. UNCHANGED <<pointer, runtime, db, store, known, job, save, home, row, req, missed,
                    exposed, tag, restamped>>
    BY <1>2 DEF Arrive, jobVars, tagVars
  <2> QED BY <2>1, <2>2 DEF TypeOK
<1> QED BY <1>1, <1>2, LoopType, JobType, HandlerType, DispatchType, CrashType, TagType
        DEF Next

\* Every variable keeps its type.
THEOREM TypeCorrect == Spec => []TypeOK
BY InitType, TypeStep, PTL DEF Spec

-----------------------------------------------------------------------------
(* The inductive invariant.                                                *)

Rebuilding == loop.at \in {"build", "built", "stored", "cleared", "swapped"}

\* The jobs of this process are those its manager knows, and a worker's row is
\* built only by the job that is about to save it.
JobInv == \A j \in Jobs :
  /\ Mine(j) <=> j \in known
  /\ loop.at = "down" => job[j] \in {"idle", "lost"}
  /\ save[j].status # "interrupted"
  /\ save[j].status # "none" => job[j] \in {"pendSave", "runSave", "endSave"}
  /\ save[j].status = "ended" => job[j] = "endSave"
  /\ job[j] = "endSave" => save[j].status = "ended"

\* What services, store and binding are between any two steps of a rebuild.
BindInv == loop.at # "down" =>
  /\ store = IF loop.at \in {"stored", "cleared", "swapped"} THEN "next" ELSE "current"
  /\ loop.at = "swapped" => db = DB(loop.to)
  /\ loop.at # "swapped" =>
       /\ db = DB(runtime.active)
       /\ runtime.bound \in Workspaces => runtime.bound = db

\* The database whose rows the last repair made honest.
Repaired == IF loop.at \in {"built", "stored", "cleared", "swapped"} THEN DB(loop.to) ELSE db

OwnInv == loop.at # "down" /\ ~missed =>
  \A j \in Jobs : row[Repaired][j] \in Live => Mine(j)

\* A job that may still save and that nothing exposed pins its database.
PinInv == \A j \in AtLarge \ exposed :
  /\ home[j] = db /\ DB(pointer) = db
  /\ Rebuilding => DB(loop.to) = db
  /\ \A r \in Requests : ~PastGuard(r)

\* A row, and a row a list has read, is of a job that was submitted; a final row
\* of a job that neither a switch nor a tag request touched is of a job that
\* ended, and nobody is about to repair it.
RowInv ==
  /\ \A r \in Requests, j \in Jobs : j \in req[r].seen => job[j] \notin {"idle", "arrived"}
  /\ \A w \in Workspaces, j \in Jobs :
       /\ row[w][j] # "none" => job[j] \notin {"idle", "arrived"}
       /\ j \notin exposed \cup restamped /\ row[w][j] = "ended" =>
            /\ job[j] \in {"ended", "endSave", "over", "lost"}
            /\ \A r \in Requests : j \in req[r].seen => j \in known

\* What a tag request holds: the row of a live job of this process, or what it
\* read of a job of an earlier one.
TagOK(t) ==
  /\ tag[t].at = "built" =>
       /\ tag[t].job \in known /\ tag[t].status \in Live \cup {"ended"}
       /\ tag[t].status \in Live /\ tag[t].job \notin exposed => tag[t].db = home[tag[t].job]
  /\ tag[t].at \in {"read", "healed"} =>
       /\ job[tag[t].job] = "lost"
       /\ tag[t].at = "read" <=> tag[t].status \in Live
       /\ /\ tag[t].job \notin exposed /\ tag[t].status = "ended"
          /\ tag[t].db # home[tag[t].job]
          => tag[t].job \in restamped
       /\ tag[t].job \notin exposed \cup restamped =>
            (tag[t].status = "ended" <=> row[tag[t].db][tag[t].job] = "ended")

TagInv == \A t \in Taggers : TagOK(t)

Inv == /\ TypeOK /\ JobInv /\ BindInv /\ OwnInv /\ PinInv
       /\ StrayExplained /\ RowInv /\ TagInv

\* The invariant holds at the first start.
LEMMA InitInv == Init => Inv
<1> SUFFICES ASSUME Init PROVE Inv
  OBVIOUS
<1>1. TypeOK
  BY InitType
<1>2. JobInv
  BY DEF Init, JobInv, Mine, NoSave
<1>3. BindInv /\ OwnInv
  BY DEF Init, BindInv, OwnInv
<1>4. PinInv
  BY DEF Init, PinInv, AtLarge
<1>5. StrayExplained
  BY DEF Init, StrayExplained, NoSave, Live
<1>6. RowInv
  BY DEF Init, RowInv, Idle
<1>7. TagInv
  BY DEF Init, TagInv, TagOK, Untagging
<1> QED BY <1>1, <1>2, <1>3, <1>4, <1>5, <1>6, <1>7 DEF Inv

-----------------------------------------------------------------------------
(* What each group of steps leaves alone.                                  *)

\* The event loop runs no job and answers no request.
LEMMA LoopFrame ==
  ASSUME TypeOK, Loop \/ Arrive
  PROVE  /\ UNCHANGED <<known, job, home, restamped>> /\ exposed \subseteq exposed'
         /\ loop'.at # "down"
         /\ \A j \in Jobs : save'[j].status = save[j].status /\ save'[j].db = save[j].db
         /\ \A r \in Requests : /\ req'[r].at = req[r].at /\ req'[r].kind = req[r].kind
                                /\ req'[r].busy = req[r].busy /\ req'[r].seen = req[r].seen
         /\ \A t \in Taggers : /\ tag'[t].at = tag[t].at /\ tag'[t].job = tag[t].job
                               /\ tag'[t].db = tag[t].db /\ tag'[t].status = tag[t].status
<1> USE DEF jobVars, tagVars
<1>0. save \in [Jobs -> RowBuilt] /\ req \in [Requests -> RequestState]
  BY DEF TypeOK
<1>1. CASE Close
  <2>1. \A j \in Jobs : save'[j].status = save[j].status /\ save'[j].db = save[j].db
    BY <1>0, <1>1 DEF Close, RowBuilt
  <2>2. \A r \in Requests : /\ req'[r].at = req[r].at /\ req'[r].kind = req[r].kind
                            /\ req'[r].busy = req[r].busy /\ req'[r].seen = req[r].seen
    BY <1>0, <1>1 DEF Close, RequestState
  <2>3. \A t \in Taggers : /\ tag'[t].at = tag[t].at /\ tag'[t].job = tag[t].job
                           /\ tag'[t].db = tag[t].db /\ tag'[t].status = tag[t].status
    <3> SUFFICES ASSUME NEW t \in Taggers
                 PROVE  /\ tag'[t].at = tag[t].at /\ tag'[t].job = tag[t].job
                        /\ tag'[t].db = tag[t].db /\ tag'[t].status = tag[t].status
      OBVIOUS
    <3> DEFINE cut(u) == [tag[u] EXCEPT !.pool = AfterClose(@)]
    <3>1. tag'[t] = IF tag[t].at # "built" THEN tag[t] ELSE cut(t)
      BY <1>1 DEF Close
    <3>2. tag[t].at = "built" => /\ cut(t).at = tag[t].at /\ cut(t).job = tag[t].job
                                 /\ cut(t).db = tag[t].db /\ cut(t).status = tag[t].status
      BY TagRecord DEF TagState
    <3> HIDE DEF cut
    <3> QED BY <3>1, <3>2
  <2>4. UNCHANGED <<known, job, home, restamped>> /\ exposed \subseteq exposed' /\ loop'.at # "down"
    BY <1>1 DEF Close
  <2> QED BY <2>1, <2>2, <2>3, <2>4
<1>2. CASE Boot \/ Compare \/ Build \/ SetStore \/ Clear \/ Swap \/ Arrive
  <2>1. UNCHANGED <<known, job, home, save, req, tag, restamped>> /\ exposed \subseteq exposed'
    BY <1>2 DEF Boot, Compare, Build, SetStore, Clear, Swap, Arrive
  <2>2. loop'.at # "down"
    BY <1>2 DEF Boot, Compare, Build, SetStore, Clear, Swap, Arrive, TypeOK, LoopState
  <2> QED BY <2>1, <2>2
<1> QED BY <1>1, <1>2 DEF Loop

\* A job's step moves the job only; a submit that is refused leaves no trace.
LEMMA JobFrame ==
  ASSUME TypeOK, NEW j \in Jobs, JobStep(j)
  PROVE  /\ UNCHANGED <<pointer, runtime, db, store, loop, req, missed, tag, restamped>>
         /\ known \subseteq known' /\ exposed \subseteq exposed'
         /\ \A k \in Jobs \ {j} : job'[k] = job[k] /\ save'[k] = save[k] /\ home'[k] = home[k]
         /\ \A k \in Jobs \ {j} : k \in known' => k \in known
         /\ job[j] \notin {"idle", "over", "lost"}
         /\ job'[j] \notin {"arrived", "lost"}
         /\ job'[j] = "idle" => job[j] = "arrived"
         /\ job[j] # "arrived" => home' = home
<1> USE DEF runtimeVars, jobVars, tagVars, Move
<1>0. job \in [Jobs -> Phases] /\ save \in [Jobs -> RowBuilt] /\ home \in [Jobs -> Workspaces]
  BY DEF TypeOK
<1>1. UNCHANGED <<pointer, runtime, db, store, loop, req, missed, tag, restamped>>
  BY DEF JobStep, Register, Refuse, Bind, Save, Work
<1>2. known \subseteq known' /\ exposed \subseteq exposed'
      /\ \A k \in Jobs \ {j} : k \in known' => k \in known
  BY DEF JobStep, Register, Refuse, Bind, Save, Work
<1>3. \A k \in Jobs \ {j} : job'[k] = job[k] /\ save'[k] = save[k] /\ home'[k] = home[k]
  BY <1>0 DEF JobStep, Register, Refuse, Bind, Save, Work
<1>4. /\ job[j] \notin {"idle", "over", "lost"} /\ job'[j] \notin {"arrived", "lost"}
      /\ job'[j] = "idle" => job[j] = "arrived"
      /\ job[j] # "arrived" => home' = home
  BY <1>0 DEF JobStep, Register, Refuse, Bind, Save, Work
<1> QED BY <1>1, <1>2, <1>3, <1>4

\* A job's step changes at most the row it built.
LEMMA JobRow ==
  ASSUME TypeOK, NEW j \in Jobs, JobStep(j)
  PROVE  \A w \in Workspaces, k \in Jobs :
           row'[w][k] # row[w][k] =>
             /\ k = j /\ w = save[j].db /\ row'[w][k] = save[j].status
             /\ job[j] \in {"pendSave", "runSave", "endSave"}
             /\ job[j] = "endSave" => job'[j] = "over"
<1> USE DEF runtimeVars, jobVars, Move
<1>0. row \in [Workspaces -> [Jobs -> RowStatus]] /\ job \in [Jobs -> Phases]
  BY DEF TypeOK
<1>1. CASE Register(j) \/ Refuse(j) \/ Bind(j) \/ Work(j)
  <2>1. row' = row
    BY <1>1 DEF Register, Refuse, Bind, Work
  <2> QED BY <2>1
<1>2. CASE Save(j)
  <2> DEFINE d == save[j].db
             s == save[j].status
  <2>1. row' = row \/ row' = [row EXCEPT ![d][j] = s]
    BY <1>2 DEF Save
  <2>2. \A w \in Workspaces, k \in Jobs :
          row'[w][k] # row[w][k] => k = j /\ w = d /\ row'[w][k] = s
    <3> HIDE DEF d, s
    <3> QED BY <1>0, <2>1
  <2>3. job[j] \in {"pendSave", "runSave", "endSave"}
        /\ (job[j] = "endSave" => job'[j] = "over")
    BY <1>0, <1>2 DEF Save
  <2> QED BY <2>2, <2>3
<1> QED BY <1>1, <1>2 DEF JobStep

\* A request that was let through.
LEMMA DispatchFrame ==
  ASSUME TypeOK, Dispatch
  PROVE  /\ UNCHANGED <<pointer, runtime, db, store, known, save, home, row, missed, exposed,
                        restamped>>
         /\ \A t \in Taggers : tag'[t] = tag[t] \/ tag'[t].at = "arrived"
         /\ loop.at = "served" /\ loop'.at = "idle" /\ loop'.to = loop.to
         /\ \A j \in Jobs : job'[j] = job[j] \/ (job[j] = "idle" /\ job'[j] = "arrived")
         /\ \A r \in Requests : req'[r] = req[r] \/ (req'[r].at = "arrived" /\ req'[r].seen = {})
<1>1. job \in [Jobs -> Phases] /\ req \in [Requests -> RequestState]
  BY DEF TypeOK
<1>2. UNCHANGED <<pointer, runtime, db, store, known, save, home, row, missed, exposed,
                  restamped>>
  BY DEF Dispatch
<1>6. \A t \in Taggers : tag'[t] = tag[t] \/ tag'[t].at = "arrived"
  <2>1. CASE tag' = tag
    BY <2>1
  <2>2. ASSUME NEW t \in Taggers, NEW j \in Jobs,
               tag' = [tag EXCEPT ![t] = [Untagging EXCEPT !.at = "arrived", !.job = j]]
        PROVE  \A u \in Taggers : tag'[u] = tag[u] \/ tag'[u].at = "arrived"
    <3> DEFINE new == [Untagging EXCEPT !.at = "arrived", !.job = j]
    <3>1. new.at = "arrived" /\ tag' = [tag EXCEPT ![t] = new]
      BY <2>2 DEF Untagging
    <3>2. tag \in [Taggers -> {Untagging} \cup TagState]
      BY DEF TypeOK
    <3> HIDE DEF new
    <3> QED BY <3>1, <3>2
  <2>3. \/ tag' = tag
        \/ \E t \in Taggers, j \in Jobs :
             tag' = [tag EXCEPT ![t] = [Untagging EXCEPT !.at = "arrived", !.job = j]]
    BY DEF Dispatch
  <2> QED BY <2>1, <2>2, <2>3
<1>3. loop.at = "served" /\ loop'.at = "idle" /\ loop'.to = loop.to
  BY DEF Dispatch, TypeOK, LoopState
<1>4. \A j \in Jobs : job'[j] = job[j] \/ (job[j] = "idle" /\ job'[j] = "arrived")
  <2>1. \/ job' = job
        \/ \E j \in Jobs : job[j] = "idle" /\ job' = [job EXCEPT ![j] = "arrived"]
    BY DEF Dispatch
  <2> QED BY <1>1, <2>1
<1>5. \A r \in Requests : req'[r] = req[r] \/ (req'[r].at = "arrived" /\ req'[r].seen = {})
  <2>1. CASE req' = req
    BY <2>1
  <2>2. ASSUME NEW r \in Requests, NEW k \in {"list", "switch"}, NEW w \in Binding,
               req' = [req EXCEPT ![r] = [Idle EXCEPT !.at = "arrived", !.kind = k, !.to = w]]
        PROVE  \A q \in Requests : req'[q] = req[q] \/ (req'[q].at = "arrived" /\ req'[q].seen = {})
    <3> DEFINE new == [Idle EXCEPT !.at = "arrived", !.kind = k, !.to = w]
    <3>1. new.at = "arrived" /\ new.seen = {} /\ req' = [req EXCEPT ![r] = new]
      BY <2>2 DEF Idle
    <3> HIDE DEF new
    <3> QED BY <1>1, <3>1
  <2>3. \/ req' = req
        \/ \E r \in Requests, k \in {"list", "switch"}, w \in Binding :
             req' = [req EXCEPT ![r] = [Idle EXCEPT !.at = "arrived", !.kind = k, !.to = w]]
    BY DEF Dispatch
  <2> QED BY <2>1, <2>2, <2>3
<1> QED BY <1>2, <1>3, <1>4, <1>5, <1>6

\* The comparison may lose the pointer; the database stays until a rebuild.
LEMMA CompareFrame ==
  ASSUME TypeOK, Compare
  PROVE  /\ UNCHANGED <<db, store, known, job, save, home, row, req, missed>>
         /\ pointer' \in Binding /\ loop.at = "sync"
         /\ pointer' = pointer \/ exposed' = exposed \cup AtLarge
         /\ \/ loop'.at = "served" /\ runtime' = runtime
            \/ loop'.at = "served" /\ runtime.bound # NoWs
               /\ runtime'.active = runtime.bound /\ runtime'.bound = runtime.bound
            \/ loop'.at = "build" /\ runtime' = runtime /\ loop'.to = pointer'
<1>1. UNCHANGED <<db, store, known, job, save, home, row, req, missed>> /\ loop.at = "sync"
  BY DEF Compare, jobVars
<1>2. PICK w \in Binding :
        /\ pointer' = w
        /\ w = pointer \/ exposed' = exposed \cup AtLarge
        /\ \/ /\ loop' = [loop EXCEPT !.at = "served"] /\ UNCHANGED runtime
           \/ /\ w # NoWs /\ w = runtime.bound
              /\ loop' = [loop EXCEPT !.at = "served"]
              /\ runtime' = [runtime EXCEPT !.active = w]
           \/ loop' = [at |-> "build", to |-> w] /\ UNCHANGED runtime
  BY DEF Compare, TypeOK, Binding
<1>3. loop \in LoopState /\ runtime \in [active : Binding, bound : Binding]
  BY DEF TypeOK
<1>4. loop' = [loop EXCEPT !.at = "served"] => loop'.at = "served"
  BY <1>3 DEF LoopState
<1>5. loop' = [at |-> "build", to |-> w] => loop'.at = "build" /\ loop'.to = w
  OBVIOUS
<1>6. runtime' = [runtime EXCEPT !.active = w] =>
        runtime'.active = w /\ runtime'.bound = runtime.bound
  BY <1>3
<1> QED BY <1>1, <1>2, <1>4, <1>5, <1>6

\* A handler's step leaves the jobs and the binding alone, and a row it changes
\* is one it read as live, of a job the manager does not know.
LEMMA HandlerFrame ==
  ASSUME TypeOK, NEW r \in Requests, Handle(r)
  PROVE  /\ UNCHANGED <<runtime, db, store, loop, known, job, save, home, missed, tag,
                        restamped>>
         /\ exposed \subseteq exposed'
         /\ \A w \in Workspaces, j \in Jobs :
              row'[w][j] # row[w][j] =>
                row'[w][j] = "interrupted" /\ j \notin known /\ j \in req[r].seen
<1> USE DEF runtimeVars, jobVars, tagVars
<1>1. UNCHANGED <<runtime, db, store, loop, known, job, save, home, missed, tag, restamped>>
  BY DEF Handle, Guard, GuardCleared, ListRows, ReconcileRow, HandlerFails, Finish
<1>2. exposed \subseteq exposed'
  BY DEF Handle, Guard, GuardCleared, ListRows, ReconcileRow, HandlerFails, Finish
<1>3. CASE Guard(r) \/ GuardCleared(r) \/ ListRows(r) \/ HandlerFails(r) \/ Finish(r)
  <2>1. row' = row
    BY <1>3 DEF Guard, GuardCleared, ListRows, HandlerFails, Finish
  <2> QED BY <1>1, <1>2, <2>1
<1>4. ASSUME NEW j \in Jobs, ReconcileRow(r, j)
      PROVE  \A w \in Workspaces, k \in Jobs :
               row'[w][k] # row[w][k] =>
                 row'[w][k] = "interrupted" /\ k \notin known /\ k \in req[r].seen
  <2>1. row \in [Workspaces -> [Jobs -> RowStatus]]
    BY DEF TypeOK
  <2>2. CASE row' = row
    BY <2>2
  <2>3. CASE row' # row
    <3> DEFINE d == IF req[r].kind = "switch" THEN req[r].from ELSE db
    <3>1. j \notin known /\ j \in req[r].seen /\ row' = [row EXCEPT ![d][j] = "interrupted"]
      BY <1>4, <2>3 DEF ReconcileRow
    <3> HIDE DEF d
    <3> QED BY <2>1, <3>1
  <2> QED BY <2>2, <2>3
<1> QED BY <1>1, <1>2, <1>3, <1>4 DEF Handle

\* A tag request leaves the jobs, the binding and the other requests alone, and
\* changes at most the row of its job: to what it built, or to what it read or
\* repaired.
LEMMA TagFrame ==
  ASSUME TypeOK, NEW t \in Taggers, SetTags(t)
  PROVE  /\ UNCHANGED <<pointer, runtime, db, store, loop, known, job, save, home, req, missed,
                        exposed>>
         /\ restamped \subseteq restamped' /\ tag[t] \in TagState
         /\ \A u \in Taggers \ {t} : tag'[u] = tag[u]
<1>1. UNCHANGED <<pointer, runtime, db, store, loop, known, job, save, home, req, missed, exposed>>
  BY DEF SetTags, TagBuild, TagRead, TagFails, TagHeal, TagSave, runtimeVars, jobVars
<1>2. restamped \subseteq restamped'
  BY DEF SetTags, TagBuild, TagRead, TagFails, TagHeal, TagSave, SaveRead
<1>3. \A u \in Taggers \ {t} : tag'[u] = tag[u]
  <2>1. PICK new : tag' = [tag EXCEPT ![t] = new]
    BY DEF SetTags, TagBuild, TagRead, TagFails, TagHeal, TagSave, TagStep
  <2> QED BY <2>1 DEF TypeOK
<1>4. tag[t] \in TagState
  BY TagRecord DEF SetTags, TagBuild, TagRead, TagFails, TagHeal, TagSave
<1> QED BY <1>1, <1>2, <1>3, <1>4

LEMMA TagRow ==
  ASSUME TypeOK, NEW t \in Taggers, SetTags(t), NEW w \in Workspaces, NEW k \in Jobs,
         row'[w][k] # row[w][k]
  PROVE  /\ k = tag[t].job
         /\ \/ /\ tag[t].at = "built" /\ w = tag[t].db /\ row'[w][k] = tag[t].status
               /\ k \notin restamped' => tag[t].status = StatusOf(k) /\ w = home[k]
            \/ /\ tag[t].at \in {"read", "healed"}
               /\ row'[w][k] = IF tag[t].at = "read" THEN "interrupted" ELSE tag[t].status
               /\ k \notin restamped' => w = tag[t].db
<1>0. /\ row \in [Workspaces -> [Jobs -> RowStatus]] /\ tag[t] \in TagState
      /\ db \in Workspaces /\ tag[t].db \in Workspaces /\ tag[t].job \in Jobs
  BY TagFrame DEF TypeOK, TagState
<1>1. CASE TagBuild(t) \/ TagRead(t) \/ TagFails(t)
  BY <1>1 DEF TagBuild, TagRead, TagFails
<1>2. ASSUME NEW s, SaveRead(t, s)
      PROVE  /\ k = tag[t].job /\ row'[w][k] = s
             /\ k \notin restamped' => w = tag[t].db
  <2> DEFINE j == tag[t].job
  <2>1. row' = [row EXCEPT ![db][j] = s] /\ loop.at # "cleared"
        /\ (db # tag[t].db => j \in restamped')
    BY <1>2 DEF SaveRead
  <2>2. k = j /\ w = db /\ row'[w][k] = s
    <3> HIDE DEF j
    <3> QED BY <1>0, <2>1
  <2> QED BY <2>1, <2>2
<1>3. CASE TagHeal(t)
  BY <1>2, <1>3 DEF TagHeal
<1>4. CASE TagSave(t)
  <2>1. CASE tag[t].at = "healed" /\ SaveRead(t, tag[t].status)
    BY <1>2, <2>1
  <2>2. CASE /\ tag[t].at = "built" /\ tag[t].pool # "closed"
             /\ row' = [row EXCEPT ![tag[t].db][tag[t].job] = tag[t].status]
             /\ restamped' = IF tag[t].status # StatusOf(tag[t].job)
                                \/ tag[t].db # home[tag[t].job]
                             THEN restamped \cup {tag[t].job} ELSE restamped
    <3> DEFINE j == tag[t].job
               d == tag[t].db
               s == tag[t].status
    <3>1. k = j /\ w = d /\ row'[w][k] = s
      <4>1. row' = [row EXCEPT ![d][j] = s] /\ j \in Jobs /\ d \in Workspaces
        BY <1>0, <2>2
      <4> HIDE DEF j, d, s
      <4> QED BY <1>0, <4>1
    <3> QED BY <2>2, <3>1
  <2> QED BY <1>4, <2>1, <2>2 DEF TagSave
<1> QED BY <1>1, <1>3, <1>4 DEF SetTags

-----------------------------------------------------------------------------
(* Each part of the invariant.                                             *)

\* What is known of a job and its row is kept.
LEMMA JobInvStep == TypeOK /\ JobInv /\ [Next]_vars => JobInv'
<1> SUFFICES ASSUME TypeOK, JobInv, [Next]_vars PROVE JobInv'
  OBVIOUS
<1> USE DEF JobInv, Mine
<1>1. CASE Loop \/ Arrive
  BY <1>1, LoopFrame
<1>2. ASSUME NEW j \in Jobs, JobStep(j)
      PROVE  JobInv'
  <2>0. job \in [Jobs -> Phases] /\ save \in [Jobs -> RowBuilt]
    BY DEF TypeOK
  <2>1. \A k \in Jobs \ {j} : job'[k] = job[k] /\ save'[k] = save[k]
    BY <1>2, JobFrame
  <2>2. /\ known \subseteq known' /\ loop' = loop /\ loop.at # "down"
        /\ \A k \in Jobs \ {j} : k \in known' => k \in known
    BY <1>2, JobFrame
  <2>3. /\ Mine(j)' <=> j \in known'
        /\ save'[j].status # "interrupted"
        /\ save'[j].status # "none" => job'[j] \in {"pendSave", "runSave", "endSave"}
        /\ save'[j].status = "ended" <=> job'[j] = "endSave"
    <3>1. CASE Register(j)
      BY <2>0, <3>1 DEF Register, Move
    <3>5. CASE Refuse(j)
      BY <2>0, <3>5 DEF Refuse, Move
    <3>2. CASE Bind(j)
      BY <2>0, <3>2 DEF Bind, Move, StatusOf
    <3>3. CASE Save(j)
      BY <2>0, <3>3 DEF Save, Move, NoSave
    <3>4. CASE Work(j)
      BY <2>0, <3>4 DEF Work, Move
    <3> QED BY <1>2, <3>1, <3>2, <3>3, <3>4, <3>5 DEF JobStep
  <2> QED BY <2>1, <2>2, <2>3
<1>3. ASSUME NEW r \in Requests, Handle(r)
      PROVE  JobInv'
  BY <1>3, HandlerFrame
<1>4. CASE Dispatch
  BY <1>4, DispatchFrame
<1>5. CASE Crash
  BY <1>5 DEF Crash, NoSave
<1>6. CASE UNCHANGED vars
  BY <1>6 DEF vars, jobVars, runtimeVars
<1>7. ASSUME NEW t \in Taggers, SetTags(t)
      PROVE  JobInv'
  BY <1>7, TagFrame
<1> QED BY <1>1, <1>2, <1>3, <1>4, <1>5, <1>6, <1>7 DEF Next

\* What is known of the services and the connection pools is kept.
LEMMA BindInvStep == TypeOK /\ BindInv /\ [Next]_vars => BindInv'
<1> SUFFICES ASSUME TypeOK, BindInv, [Next]_vars PROVE BindInv'
  OBVIOUS
<1> USE DEF BindInv
<1>1. CASE Loop \/ Arrive
  <2>1. CASE Boot
    BY <2>1 DEF Boot, DB
  <2>2. CASE Compare
    BY <2>2, CompareFrame DEF DB, TypeOK, Binding
  <2>3. CASE Build \/ SetStore \/ Clear \/ Swap \/ Arrive
    BY <2>3 DEF Build, SetStore, Clear, Swap, Arrive, TypeOK, LoopState
  <2>4. CASE Close
    BY <2>4 DEF Close, AfterClose, DB
  <2> QED BY <1>1, <2>1, <2>2, <2>3, <2>4 DEF Loop
<1>2. ASSUME NEW j \in Jobs, JobStep(j)
      PROVE  BindInv'
  BY <1>2, JobFrame
<1>3. ASSUME NEW r \in Requests, Handle(r)
      PROVE  BindInv'
  BY <1>3, HandlerFrame
<1>4. CASE Dispatch
  BY <1>4 DEF Dispatch, TypeOK, LoopState
<1>5. CASE Crash
  BY <1>5 DEF Crash
<1>6. CASE UNCHANGED vars
  BY <1>6 DEF vars, runtimeVars
<1>7. ASSUME NEW t \in Taggers, SetTags(t)
      PROVE  BindInv'
  BY <1>7, TagFrame
<1> QED BY <1>1, <1>2, <1>3, <1>4, <1>5, <1>6, <1>7 DEF Next

\* A repair leaves no live row in its database.
LEMMA RepairEndsLive ==
  ASSUME TypeOK, NEW w \in Workspaces, Reconcile(w), ~missed'
  PROVE  \A j \in Jobs : row'[w][j] \notin Live
<1>1. row \in [Workspaces -> [Jobs -> RowStatus]] /\ row' = [row EXCEPT ![w] = Interrupted(@)]
  BY DEF Reconcile, TypeOK
<1>2. row'[w] = Interrupted(row[w])
  BY <1>1
<1> QED BY <1>2 DEF Interrupted, Live

\* A live row of the repaired database keeps an owner.
LEMMA OwnInvStep ==
  TypeOK /\ JobInv /\ BindInv /\ OwnInv /\ TagInv /\ [Next]_vars => OwnInv'
<1> SUFFICES ASSUME TypeOK, JobInv, BindInv, OwnInv, TagInv, [Next]_vars PROVE OwnInv'
  OBVIOUS
<1>0. DB(loop.to) \in Workspaces /\ db \in Workspaces
  BY DatabaseOf DEF TypeOK, LoopState
<1> USE DEF OwnInv, Repaired, Mine
<1>1. CASE Boot
  <2>1. ~missed' => \A j \in Jobs : row'[Legacy][j] \notin Live
    BY <1>1, RepairEndsLive DEF Boot
  <2> QED BY <1>1, <2>1 DEF Boot
<1>2. CASE Build
  <2>1. ~missed' => \A j \in Jobs : row'[DB(loop.to)][j] \notin Live
    BY <1>0, <1>2, RepairEndsLive DEF Build
  <2>2. loop'.at = "built" /\ loop'.to = loop.to
    BY <1>2 DEF Build, TypeOK, LoopState
  <2> QED BY <2>1, <2>2 DEF DB
<1>3. CASE Compare \/ Arrive
  <2>1. UNCHANGED <<db, job, row, missed>> /\ loop.at \in {"sync", "idle"}
    BY <1>3 DEF Compare, Arrive, jobVars
  <2>2. loop'.at \in {"sync", "build", "served"}
    BY <1>3 DEF Compare, Arrive, TypeOK, LoopState
  <2> QED BY <2>1, <2>2
<1>4. CASE SetStore
  BY <1>4 DEF SetStore, TypeOK, LoopState, jobVars, DB
<1>12. CASE Clear
  BY <1>12 DEF Clear, TypeOK, LoopState, jobVars, DB
<1>5. CASE Swap
  BY <1>5 DEF Swap, TypeOK, LoopState, jobVars, DB
<1>6. CASE Close
  BY <1>6 DEF Close, BindInv
<1>7. ASSUME NEW j \in Jobs, JobStep(j)
      PROVE  OwnInv'
  <2>1. UNCHANGED <<loop, db, missed>> /\ (\A k \in Jobs \ {j} : job'[k] = job[k])
        /\ (Mine(j) => Mine(j)')
    BY <1>7, JobFrame
  <2>2. \A w \in Workspaces, k \in Jobs \ {j} : row'[w][k] = row[w][k]
    BY <1>7, JobRow
  <2>3. \A w \in Workspaces : row'[w][j] # row[w][j] => Mine(j)
    BY <1>7, JobRow
  <2> QED BY <1>0, <2>1, <2>2, <2>3 DEF DB
<1>8. ASSUME NEW r \in Requests, Handle(r)
      PROVE  OwnInv'
  <2>1. UNCHANGED <<db, job, missed>> /\ loop' = loop
    BY <1>8, HandlerFrame
  <2>2. \A w \in Workspaces, j \in Jobs : row'[w][j] \in Live => row[w][j] \in Live
    BY <1>8, HandlerFrame DEF Live
  <2> QED BY <1>0, <2>1, <2>2 DEF DB
<1>13. ASSUME NEW t \in Taggers, SetTags(t)
      PROVE  OwnInv'
  <2>1. UNCHANGED <<db, job, missed>> /\ loop' = loop
    BY <1>13, TagFrame
  <2>2. ASSUME NEW w \in Workspaces, NEW k \in Jobs, row'[w][k] # row[w][k], row'[w][k] \in Live
        PROVE  Mine(k)
    <3>1. k = tag[t].job /\ tag[t].at = "built"
      BY <1>13, <2>2, TagRow DEF TagInv, TagOK, Live
    <3> QED BY <3>1 DEF TagInv, TagOK, JobInv
  <2> QED BY <1>0, <2>1, <2>2 DEF DB
<1>9. CASE Dispatch
  BY <1>9, DispatchFrame
<1>10. CASE Crash
  BY <1>10 DEF Crash
<1>11. CASE UNCHANGED vars
  BY <1>11 DEF vars, runtimeVars, jobVars, DB
<1> QED BY <1>1, <1>2, <1>3, <1>4, <1>5, <1>6, <1>7, <1>8, <1>9, <1>10, <1>11,
       <1>12, <1>13 DEF Next, Loop

\* A job that may still save is known, and nothing is at large at start-up.
LEMMA LargeIsMine == JobInv => /\ \A j \in AtLarge : Mine(j) /\ j \in known /\ j \in Jobs
                               /\ loop.at = "down" => AtLarge = {}
BY DEF JobInv, AtLarge, Mine

\* The requests past their guard: only a guard that found no active job makes one.
LEMMA GuardFrame ==
  ASSUME TypeOK, JobInv, NEW r \in Requests, Handle(r)
  PROVE  /\ \A q \in Requests : PastGuard(q)' => PastGuard(q) \/ AtLarge \subseteq exposed'
         /\ pointer' # pointer => PastGuard(r)
<1> USE DEF runtimeVars, jobVars
<1>0. req \in [Requests -> RequestState]
  BY DEF TypeOK
<1>1. CASE Guard(r)
  <2> DEFINE busy == req[r].kind = "switch" /\ \E j \in known : StatusOf(j) \in Live
             from == IF req[r].kind = "switch" THEN db ELSE req[r].from
             new == [req[r] EXCEPT !.at = "guarded", !.busy = busy, !.from = from]
  <2>1. req' = [req EXCEPT ![r] = new]
    BY <1>1 DEF Guard
  <2>2. new.kind = req[r].kind /\ (new.busy <=> busy)
    BY <1>0 DEF RequestState
  <2>3. \A q \in Requests : PastGuard(q)' => PastGuard(q) \/ (req[r].kind = "switch" /\ ~busy)
    <3> HIDE DEF new, busy
    <3> QED BY <1>0, <2>1, <2>2 DEF PastGuard
  <2>4. req[r].kind = "switch" /\ ~busy => AtLarge \subseteq exposed'
    <3>1. req[r].kind = "switch" /\ ~busy =>
            exposed' = exposed \cup {j \in AtLarge : StatusOf(j) = "ended"}
      BY <1>1 DEF Guard
    <3>2. req[r].kind = "switch" /\ ~busy => \A j \in AtLarge : StatusOf(j) = "ended"
      BY LargeIsMine DEF StatusOf, Live
    <3> QED BY <3>1, <3>2
  <2>5. pointer' = pointer
    BY <1>1 DEF Guard
  <2> QED BY <2>3, <2>4, <2>5
<1>5. CASE GuardCleared(r)
  <2>1. pointer' = pointer
    BY <1>5 DEF GuardCleared
  <2>2. CASE req' = [req EXCEPT ![r] = Idle]
    BY <1>0, <2>1, <2>2 DEF PastGuard, Idle
  <2>3. CASE req[r].kind = "switch"
    <3>1. PICK b \in BOOLEAN :
            /\ req' = [req EXCEPT ![r] = [req[r] EXCEPT !.at = "listed", !.busy = b]]
            /\ ~b => AtLarge \subseteq exposed'
      BY <1>5, <2>3 DEF GuardCleared
    <3> DEFINE new == [req[r] EXCEPT !.at = "listed", !.busy = b]
    <3>2. req' = [req EXCEPT ![r] = new] /\ (new.busy <=> b)
      BY <1>0, <3>1 DEF RequestState
    <3>3. \A q \in Requests : PastGuard(q)' => PastGuard(q) \/ ~b
      <4> HIDE DEF new
      <4> QED BY <1>0, <3>2 DEF PastGuard
    <3> QED BY <2>1, <3>1, <3>3
  <2> QED BY <1>5, <2>2, <2>3 DEF GuardCleared
<1>6. CASE HandlerFails(r)
  <2>1. req' = [req EXCEPT ![r] = Idle] /\ Idle.at = "idle" /\ pointer' = pointer
    BY <1>6 DEF HandlerFails, Idle
  <2> QED BY <1>0, <2>1 DEF PastGuard
<1>2. CASE ListRows(r)
  <2>1. PICK S : req' = [req EXCEPT ![r] = [req[r] EXCEPT !.at = "listed", !.seen = S]]
    BY <1>2 DEF ListRows
  <2> DEFINE new == [req[r] EXCEPT !.at = "listed", !.seen = S]
  <2>2. new.kind = req[r].kind /\ new.busy = req[r].busy
    BY <1>0 DEF RequestState
  <2>3. req[r].at = "guarded" /\ pointer' = pointer
    BY <1>2 DEF ListRows
  <2>4. req' = [req EXCEPT ![r] = new]
    BY <2>1
  <2> HIDE DEF new
  <2> QED BY <1>0, <2>2, <2>3, <2>4 DEF PastGuard
<1>3. ASSUME NEW j \in Jobs, ReconcileRow(r, j)
      PROVE  /\ \A q \in Requests : PastGuard(q)' => PastGuard(q)
             /\ pointer' = pointer
  <2> DEFINE new == [req[r] EXCEPT !.seen = req[r].seen \ {j}]
  <2>1. req' = [req EXCEPT ![r] = new] /\ pointer' = pointer
    BY <1>0, <1>3 DEF ReconcileRow
  <2>2. new.kind = req[r].kind /\ new.busy = req[r].busy /\ new.at = req[r].at
    BY <1>0 DEF RequestState
  <2> HIDE DEF new
  <2> QED BY <1>0, <2>1, <2>2 DEF PastGuard
<1>4. CASE Finish(r)
  <2>1. req' = [req EXCEPT ![r] = Idle] /\ Idle.at = "idle"
    BY <1>4 DEF Finish, Idle
  <2>2. \A q \in Requests : PastGuard(q)' => PastGuard(q)
    BY <1>0, <2>1 DEF PastGuard
  <2>3. pointer' # pointer => PastGuard(r)
    BY <1>4 DEF Finish, PastGuard
  <2> QED BY <2>2, <2>3
<1> QED BY <1>1, <1>2, <1>3, <1>4, <1>5, <1>6 DEF Handle

\* A job that nothing exposed still finds its database in place.
LEMMA PinInvStep ==
  TypeOK /\ JobInv /\ BindInv /\ PinInv /\ [Next]_vars => PinInv'
<1> SUFFICES ASSUME TypeOK, JobInv, BindInv, PinInv, [Next]_vars PROVE PinInv'
  OBVIOUS
<1>1. CASE Loop \/ Arrive
  <2>1. /\ AtLarge' = AtLarge /\ exposed \subseteq exposed' /\ home' = home
        /\ \A r \in Requests : PastGuard(r)' => PastGuard(r)
    <3>1. job' = job /\ exposed \subseteq exposed' /\ home' = home
      BY <1>1, LoopFrame
    <3>2. \A r \in Requests : PastGuard(r)' => PastGuard(r)
      BY <1>1, LoopFrame DEF PastGuard
    <3> QED BY <3>1, <3>2 DEF AtLarge
  <2>2. CASE Boot
    BY <2>1, <2>2, LargeIsMine DEF Boot, PinInv
  <2>3. CASE Compare
    <3>1. /\ db' = db /\ (pointer' = pointer \/ AtLarge \subseteq exposed')
          /\ loop'.at = "served" \/ loop'.to = pointer'
      BY <2>3, CompareFrame
    <3> QED BY <2>1, <3>1 DEF PinInv, Rebuilding, DB
  <2>4. CASE Build \/ SetStore \/ Clear \/ Arrive
    <3>1. /\ pointer' = pointer /\ db' = db /\ loop'.to = loop.to
          /\ Rebuilding' => Rebuilding
      BY <2>4 DEF Build, SetStore, Clear, Arrive, TypeOK, LoopState, Rebuilding
    <3> QED BY <2>1, <3>1 DEF PinInv, DB
  <2>5. CASE Swap
    <3>1. pointer' = pointer /\ db' = DB(loop.to) /\ loop'.to = loop.to /\ Rebuilding
      BY <2>5 DEF Swap, TypeOK, LoopState, Rebuilding
    <3> QED BY <2>1, <3>1 DEF PinInv, DB
  <2>6. CASE Close
    <3>1. pointer' = pointer /\ db' = db /\ ~Rebuilding'
      BY <2>6 DEF Close, Rebuilding
    <3> QED BY <2>1, <3>1 DEF PinInv, DB
  <2> QED BY <1>1, <2>2, <2>3, <2>4, <2>5, <2>6 DEF Loop
<1>2. ASSUME NEW j \in Jobs, JobStep(j)
      PROVE  PinInv'
  <2>1. /\ UNCHANGED <<pointer, db, loop, req>> /\ exposed \subseteq exposed'
        /\ \A k \in Jobs \ {j} : job'[k] = job[k] /\ home'[k] = home[k]
    BY <1>2, JobFrame
  <2>2. (Rebuilding' <=> Rebuilding) /\ (\A r \in Requests : PastGuard(r)' <=> PastGuard(r))
        /\ DB(pointer)' = DB(pointer) /\ DB(loop.to)' = DB(loop.to)
    BY <2>1 DEF Rebuilding, PastGuard, DB
  <2>3. AtLarge' \ exposed' \subseteq (AtLarge \ exposed) \cup {j}
    BY <2>1 DEF AtLarge
  <2>4. CASE Register(j)
    <3>1. j \in exposed' \/ (~SwitchUnderWay /\ home'[j] = db)
      BY <2>4 DEF Register, TypeOK
    <3>2. ~SwitchUnderWay => DB(pointer) = db /\ ~Rebuilding /\ \A r \in Requests : ~PastGuard(r)
      BY DEF SwitchUnderWay, Rebuilding
    <3>3. ASSUME j \notin exposed'
          PROVE  /\ home'[j] = db' /\ DB(pointer)' = db' /\ ~Rebuilding'
                 /\ \A r \in Requests : ~PastGuard(r)'
      BY <2>1, <2>2, <3>1, <3>2, <3>3
    <3>4. ASSUME NEW k \in AtLarge \ exposed, k # j
          PROVE  /\ home'[k] = db' /\ DB(pointer)' = db' /\ (Rebuilding' => DB(loop.to)' = db')
                 /\ \A r \in Requests : ~PastGuard(r)'
      BY <2>1, <2>2, <3>4 DEF PinInv, AtLarge
    <3> QED BY <2>3, <3>3, <3>4 DEF PinInv
  <2>6. CASE Refuse(j)
    <3>1. job'[j] = "idle" /\ home' = home /\ j \notin AtLarge
      BY <2>6 DEF Refuse, Move, AtLarge, TypeOK
    <3>2. AtLarge' \ exposed' \subseteq AtLarge \ exposed
      BY <2>3, <3>1 DEF AtLarge
    <3> QED BY <2>1, <2>2, <3>1, <3>2 DEF PinInv
  <2>5. CASE Bind(j) \/ Save(j) \/ Work(j)
    <3>1. job[j] \notin {"idle", "arrived", "over", "lost"} /\ home' = home
      BY <2>5 DEF Bind, Save, Work, Move
    <3>2. AtLarge' \ exposed' \subseteq AtLarge \ exposed
      BY <2>1, <2>3, <3>1 DEF AtLarge
    <3> QED BY <2>1, <2>2, <3>1, <3>2 DEF PinInv
  <2> QED BY <1>2, <2>4, <2>5, <2>6 DEF JobStep
<1>3. ASSUME NEW r \in Requests, Handle(r)
      PROVE  PinInv'
  <2>1. UNCHANGED <<db, loop, job, home>> /\ exposed \subseteq exposed'
    BY <1>3, HandlerFrame
  <2>2. AtLarge' = AtLarge /\ (Rebuilding' <=> Rebuilding)
    BY <2>1 DEF AtLarge, Rebuilding
  <2>3. /\ \A q \in Requests : PastGuard(q)' => PastGuard(q) \/ AtLarge \subseteq exposed'
        /\ pointer' # pointer => PastGuard(r)
    BY <1>3, GuardFrame
  <2> QED BY <2>1, <2>2, <2>3 DEF PinInv, DB
<1>4. CASE Dispatch
  <2>1. AtLarge' = AtLarge
    BY <1>4, DispatchFrame DEF AtLarge
  <2>2. UNCHANGED <<pointer, db, home, exposed>> /\ ~Rebuilding'
    BY <1>4, DispatchFrame DEF Rebuilding
  <2>3. \A r \in Requests : PastGuard(r)' => PastGuard(r)
    BY <1>4, DispatchFrame DEF PastGuard
  <2> QED BY <2>1, <2>2, <2>3 DEF PinInv, DB
<1>5. CASE Crash
  <2>1. AtLarge' = {}
    BY <1>5 DEF Crash, AtLarge
  <2> QED BY <2>1 DEF PinInv
<1>6. CASE UNCHANGED vars
  BY <1>6 DEF vars, runtimeVars, jobVars, PinInv, AtLarge, Rebuilding, PastGuard, DB
<1>7. ASSUME NEW t \in Taggers, SetTags(t)
      PROVE  PinInv'
  <2>1. UNCHANGED <<pointer, db, loop, req, job, home, exposed>>
    BY <1>7, TagFrame
  <2> QED BY <2>1 DEF PinInv, AtLarge, Rebuilding, PastGuard, DB
<1> QED BY <1>1, <1>2, <1>3, <1>4, <1>5, <1>6, <1>7 DEF Next

\* The repair of a rebuild interrupts live rows and nothing else.
LEMMA LoopRow ==
  ASSUME TypeOK, Loop \/ Arrive
  PROVE  \A w \in Workspaces, j \in Jobs :
           row'[w][j] # row[w][j] =>
             /\ row'[w][j] = "interrupted" /\ row[w][j] \in Live
             /\ loop.at \in {"down", "build"}
<1>0. row \in [Workspaces -> [Jobs -> RowStatus]]
  BY DEF TypeOK
<1>1. ASSUME NEW d \in Workspaces, Reconcile(d), loop.at \in {"down", "build"}
      PROVE  \A w \in Workspaces, j \in Jobs :
               row'[w][j] # row[w][j] =>
                 /\ row'[w][j] = "interrupted" /\ row[w][j] \in Live
                 /\ loop.at \in {"down", "build"}
  <2>1. CASE row' = row
    BY <2>1
  <2>2. CASE row' = [row EXCEPT ![d] = Interrupted(@)]
    <3>1. \A w \in Workspaces : row'[w] = IF w = d THEN Interrupted(row[d]) ELSE row[w]
      BY <1>0, <2>2
    <3> QED BY <1>1, <3>1 DEF Interrupted
  <2> QED BY <1>1, <2>1, <2>2 DEF Reconcile
<1>2. CASE Boot
  BY <1>1, <1>2 DEF Boot
<1>3. CASE Build
  <2>1. DB(loop.to) \in Workspaces
    BY DatabaseOf DEF TypeOK, LoopState
  <2> QED BY <1>1, <1>3, <2>1 DEF Build
<1>4. CASE Compare \/ SetStore \/ Clear \/ Swap \/ Close \/ Arrive
  <2>1. row' = row
    BY <1>4 DEF Compare, SetStore, Clear, Swap, Close, Arrive
  <2> QED BY <2>1
<1> QED BY <1>2, <1>3, <1>4 DEF Loop

\* A job at large that nothing exposed has its database behind the manager's
\* store, in the middle of a rebuild too.
LEMMA StoreHome ==
  ASSUME BindInv, PinInv, loop.at # "down", NEW j \in AtLarge \ exposed
  PROVE  StoreDB = home[j]
<1>1. store = "next" => Rebuilding
  BY DEF BindInv, Rebuilding
<1> QED BY <1>1 DEF PinInv, StoreDB

\* StrayExplained, for every step.
LEMMA StrayStep ==
  /\ TypeOK /\ JobInv /\ BindInv /\ PinInv /\ StrayExplained /\ RowInv /\ TagInv
  /\ [Next]_vars
  => StrayExplained'
<1> SUFFICES ASSUME TypeOK, JobInv, BindInv, PinInv, StrayExplained, RowInv, TagInv, [Next]_vars
             PROVE  StrayExplained'
  OBVIOUS
<1> USE DEF StrayExplained
<1>1. CASE Loop \/ Arrive
  <2>1. \A w \in Workspaces, j \in Jobs :
          row'[w][j] # row[w][j] => row'[w][j] = "interrupted"
    BY <1>1, LoopRow
  <2> QED BY <1>1, <2>1, LoopFrame DEF Live
<1>2. ASSUME NEW j \in Jobs, JobStep(j)
      PROVE  StrayExplained'
  <2>0. save \in [Jobs -> RowBuilt] /\ job \in [Jobs -> Phases]
    BY DEF TypeOK
  <2>1. (\A k \in Jobs \ {j} : save'[k] = save[k] /\ home'[k] = home[k])
        /\ exposed \subseteq exposed' /\ restamped' = restamped /\ loop.at # "down"
        /\ (job[j] # "arrived" => home' = home)
    BY <1>2, JobFrame DEF JobInv
  <2>2. save'[j].status # "none" /\ save'[j].db # home'[j] => j \in exposed'
    <3>1. CASE Register(j) \/ Refuse(j)
      BY <3>1 DEF Register, Refuse, JobInv, Move
    <3>2. CASE Bind(j)
      <4>1. save'[j].db = StoreDB
        BY <2>0, <3>2 DEF Bind
      <4>2. j \in AtLarge /\ home' = home
        BY <3>2 DEF Bind, Move, AtLarge
      <4> QED BY <2>1, <4>1, <4>2, StoreHome
    <3>3. CASE Save(j)
      BY <2>0, <3>3 DEF Save, NoSave
    <3>4. CASE Work(j)
      BY <3>4 DEF Work
    <3> QED BY <1>2, <3>1, <3>2, <3>3, <3>4 DEF JobStep
  <2>3. \A w \in Workspaces, k \in Jobs \ {j} : row'[w][k] = row[w][k]
    BY <1>2, JobRow
  <2>4. ASSUME NEW w \in Workspaces, w # home'[j], j \notin exposed'
        PROVE  row'[w][j] \notin Live /\ (row'[w][j] = "ended" => j \in restamped')
    <3>1. CASE row'[w][j] = row[w][j]
      <4>1. CASE job[j] = "arrived"
        BY <3>1, <4>1 DEF RowInv, Live
      <4>2. CASE job[j] # "arrived"
        BY <2>1, <2>4, <3>1, <4>2
      <4> QED BY <4>1, <4>2
    <3>2. CASE row'[w][j] # row[w][j]
      BY <1>2, <2>1, <2>4, <3>2, JobRow DEF Live
    <3> QED BY <3>1, <3>2
  <2> QED BY <2>1, <2>2, <2>3, <2>4
<1>3. ASSUME NEW r \in Requests, Handle(r)
      PROVE  StrayExplained'
  <2>1. \A w \in Workspaces, j \in Jobs :
          row'[w][j] # row[w][j] => row'[w][j] = "interrupted"
    BY <1>3, HandlerFrame
  <2> QED BY <1>3, <2>1, HandlerFrame DEF Live
<1>4. CASE Dispatch
  BY <1>4, DispatchFrame
<1>5. CASE Crash
  BY <1>5 DEF Crash, NoSave
<1>6. CASE UNCHANGED vars
  BY <1>6 DEF vars, jobVars, tagVars
<1>7. ASSUME NEW t \in Taggers, SetTags(t)
      PROVE  StrayExplained'
  <2>1. UNCHANGED <<save, home, exposed>> /\ restamped \subseteq restamped'
    BY <1>7, TagFrame
  <2>2. ASSUME NEW w \in Workspaces, NEW k \in Jobs \ exposed, w # home[k],
               row'[w][k] # row[w][k]
        PROVE  row'[w][k] \notin Live /\ (row'[w][k] = "ended" => k \in restamped')
    BY <1>7, <2>1, <2>2, TagRow DEF TagInv, TagOK, Live
  <2> QED BY <2>1, <2>2
<1> QED BY <1>1, <1>2, <1>3, <1>4, <1>5, <1>6, <1>7 DEF Next

\* A list in flight holds what it held, or live rows of one database.
LEMMA SeenFrame ==
  ASSUME TypeOK, NEW r \in Requests, Handle(r)
  PROVE  \A q \in Requests, j \in Jobs :
           j \in req'[q].seen =>
             j \in req[q].seen \/ \E d \in Workspaces : row[d][j] \in Live /\ row' = row
<1>5. CASE GuardCleared(r) \/ HandlerFails(r)
  <2>1. \/ req' = [req EXCEPT ![r] = Idle]
        \/ \E b \in BOOLEAN :
             req' = [req EXCEPT ![r] = [req[r] EXCEPT !.at = "listed", !.busy = b]]
    BY <1>5 DEF GuardCleared, HandlerFails
  <2>2. req \in [Requests -> RequestState]
    BY DEF TypeOK
  <2>3. CASE req' = [req EXCEPT ![r] = Idle]
    BY <2>2, <2>3 DEF Idle
  <2>4. ASSUME NEW b \in BOOLEAN,
               req' = [req EXCEPT ![r] = [req[r] EXCEPT !.at = "listed", !.busy = b]]
        PROVE  \A q \in Requests : req'[q].seen \subseteq req[q].seen
    <3> DEFINE new == [req[r] EXCEPT !.at = "listed", !.busy = b]
    <3>1. new.seen = req[r].seen /\ req' = [req EXCEPT ![r] = new]
      BY <2>2, <2>4 DEF RequestState
    <3> HIDE DEF new
    <3> QED BY <2>2, <3>1
  <2> QED BY <2>1, <2>3, <2>4
<1>0. /\ req \in [Requests -> RequestState] /\ DB(loop.to) \in Workspaces
      /\ db \in Workspaces /\ req[r].from \in Workspaces
  BY DatabaseOf DEF TypeOK, LoopState, RequestState
<1>1. CASE Guard(r)
  <2>1. PICK b, w : req' = [req EXCEPT ![r] = [req[r] EXCEPT !.at = "guarded", !.busy = b,
                                                              !.from = w]]
    BY <1>1 DEF Guard
  <2> DEFINE new == [req[r] EXCEPT !.at = "guarded", !.busy = b, !.from = w]
  <2>2. new.seen = req[r].seen /\ req' = [req EXCEPT ![r] = new]
    BY <1>0, <2>1 DEF RequestState
  <2> HIDE DEF new
  <2> QED BY <1>0, <2>2
<1>2. CASE ListRows(r)
  <2>1. PICK S : /\ req' = [req EXCEPT ![r] = [req[r] EXCEPT !.at = "listed", !.seen = S]]
                 /\ \A j \in S : \E d \in Workspaces : row[d][j] \in Live
    <3> DEFINE d == IF req[r].kind = "switch" THEN req[r].from ELSE StoreDB
               live == {j \in Jobs : row[d][j] \in Live}
               S == IF req[r].pool = "closed" THEN {} ELSE live
    <3>1. req' = [req EXCEPT ![r] = [req[r] EXCEPT !.at = "listed", !.seen = S]]
      BY <1>2 DEF ListRows
    <3>2. d \in Workspaces
      BY <1>0 DEF StoreDB
    <3>3. \A j \in S : row[d][j] \in Live
      OBVIOUS
    <3> HIDE DEF d, S
    <3> QED BY <3>1, <3>2, <3>3
  <2> DEFINE new == [req[r] EXCEPT !.at = "listed", !.seen = S]
  <2>2. new.seen = S
    BY <1>0 DEF RequestState
  <2>3. row' = row
    BY <1>2 DEF ListRows
  <2> HIDE DEF new
  <2>4. req' = [req EXCEPT ![r] = new]
    BY <2>1 DEF new
  <2> QED BY <1>0, <2>1, <2>2, <2>3, <2>4
<1>3. ASSUME NEW j \in Jobs, ReconcileRow(r, j)
      PROVE  \A q \in Requests : req'[q].seen \subseteq req[q].seen
  <2> DEFINE new == [req[r] EXCEPT !.seen = req[r].seen \ {j}]
  <2>1. req' = [req EXCEPT ![r] = new] /\ new.seen = req[r].seen \ {j}
    BY <1>0, <1>3 DEF ReconcileRow, RequestState
  <2> HIDE DEF new
  <2> QED BY <1>0, <2>1
<1>4. CASE Finish(r)
  <2>1. req' = [req EXCEPT ![r] = Idle] /\ Idle.seen = {}
    BY <1>4 DEF Finish, Idle
  <2> QED BY <1>0, <2>1
<1> QED BY <1>1, <1>2, <1>3, <1>4, <1>5 DEF Handle

\* What is known of the rows is kept.
LEMMA RowInvStep ==
  TypeOK /\ JobInv /\ StrayExplained /\ RowInv /\ TagInv /\ [Next]_vars => RowInv'
<1> SUFFICES ASSUME TypeOK, JobInv, StrayExplained, RowInv, TagInv, [Next]_vars PROVE RowInv'
  OBVIOUS
<1> USE DEF RowInv
<1>1. CASE Loop \/ Arrive
  <2>1. /\ UNCHANGED <<job, home, known, restamped>> /\ exposed \subseteq exposed'
        /\ \A r \in Requests : req'[r].seen = req[r].seen
    BY <1>1, LoopFrame
  <2>2. \A w \in Workspaces, j \in Jobs :
          row'[w][j] # row[w][j] => row'[w][j] = "interrupted" /\ row[w][j] # "none"
    BY <1>1, LoopRow DEF Live
  <2> QED BY <2>1, <2>2
<1>2. ASSUME NEW j \in Jobs, JobStep(j)
      PROVE  RowInv'
  <2>1. /\ exposed \subseteq exposed' /\ restamped' = restamped
        /\ known \subseteq known' /\ req' = req
        /\ \A k \in Jobs \ {j} : job'[k] = job[k]
        /\ job'[j] \notin {"arrived", "lost"} /\ (job'[j] = "idle" => job[j] = "arrived")
    BY <1>2, JobFrame
  <2>2. \A w \in Workspaces, k \in Jobs \ {j} : row'[w][k] = row[w][k]
    BY <1>2, JobRow
  <2>3. ASSUME NEW w \in Workspaces
        PROVE  /\ row'[w][j] # "none" => job'[j] \notin {"idle", "arrived"}
               /\ j \notin exposed' \cup restamped' /\ row'[w][j] = "ended" =>
                    job'[j] \in {"ended", "endSave", "over"} /\ j \in known'
    <3>1. CASE row'[w][j] = row[w][j]
      <4>1. row[w][j] # "none" => Mine(j) /\ Mine(j)'
        BY <1>2, <2>1, JobFrame DEF Mine
      <4>2. job[j] \in {"ended", "endSave", "over"} => job'[j] \in {"ended", "endSave", "over"}
        BY <1>2 DEF JobStep, Register, Refuse, Bind, Save, Work, Move, TypeOK
      <4> QED BY <2>1, <3>1, <4>1, <4>2 DEF JobInv, Mine
    <3>2. CASE row'[w][j] # row[w][j]
      BY <1>2, <2>1, <3>2, JobRow DEF JobInv, Mine
    <3> QED BY <3>1, <3>2
  <2> QED BY <2>1, <2>2, <2>3
<1>3. ASSUME NEW r \in Requests, Handle(r)
      PROVE  RowInv'
  <2>1. /\ UNCHANGED <<known, job, home, restamped>> /\ exposed \subseteq exposed'
        /\ \A w \in Workspaces, j \in Jobs :
             row'[w][j] # row[w][j] =>
               row'[w][j] = "interrupted" /\ j \notin known /\ j \in req[r].seen
    BY <1>3, HandlerFrame
  <2>2. ASSUME NEW w \in Workspaces, NEW j \in Jobs \ (exposed' \cup restamped'),
               row'[w][j] = "ended", NEW q \in Requests, j \in req'[q].seen
        PROVE  j \in known
    <3>1. row[w][j] = "ended"
      BY <2>1, <2>2
    <3>2. ASSUME NEW d \in Workspaces
          PROVE  row[d][j] \notin Live
      BY <2>1, <2>2, <3>1 DEF Live, StrayExplained
    <3>3. j \in req[q].seen
      BY <1>3, <2>2, <3>2, SeenFrame
    <3> QED BY <2>1, <2>2, <3>1, <3>3
  <2>3. ASSUME NEW q \in Requests, NEW j \in Jobs, j \in req'[q].seen
        PROVE  job[j] \notin {"idle", "arrived"}
    BY <1>3, <2>3, SeenFrame DEF Live
  <2> QED BY <2>1, <2>2, <2>3
<1>4. CASE Dispatch
  <2>1. UNCHANGED <<known, home, row, exposed, restamped>>
        /\ (\A j \in Jobs : job'[j] = job[j] \/ (job[j] = "idle" /\ job'[j] = "arrived"))
        /\ \A r \in Requests : req'[r].seen = req[r].seen \/ req'[r].seen = {}
    BY <1>4, DispatchFrame
  <2> QED BY <2>1
<1>5. CASE Crash
  <2>1. UNCHANGED <<row, home, exposed, restamped>>
        /\ (\A j \in Jobs : job'[j] = IF job[j] \in {"idle", "arrived"} THEN "idle" ELSE "lost")
        /\ \A r \in Requests : req'[r].seen = {}
    BY <1>5 DEF Crash, Idle
  <2> QED BY <2>1
<1>6. CASE UNCHANGED vars
  BY <1>6 DEF vars, jobVars, tagVars
<1>7. ASSUME NEW t \in Taggers, SetTags(t)
      PROVE  RowInv'
  <2>1. /\ UNCHANGED <<known, job, home, req, exposed>> /\ restamped \subseteq restamped'
    BY <1>7, TagFrame
  <2>2. ASSUME NEW w \in Workspaces, NEW k \in Jobs, row'[w][k] # row[w][k]
        PROVE  /\ job[k] \notin {"idle", "arrived"}
               /\ k \notin exposed \cup restamped' /\ row'[w][k] = "ended" =>
                    job[k] \in {"ended", "endSave", "over"} /\ k \in known
    <3>1. CASE tag[t].at = "built"
      <4>1. k = tag[t].job /\ k \in known /\ Mine(k) /\ row'[w][k] = tag[t].status
            /\ (k \notin restamped' => tag[t].status = StatusOf(k))
        BY <1>7, <2>2, <3>1, TagRow DEF TagInv, TagOK, JobInv
      <4>2. StatusOf(k) = "ended" /\ Mine(k) => job[k] \in {"ended", "endSave", "over"}
        BY DEF StatusOf, Mine, TypeOK, Phases
      <4> QED BY <4>1, <4>2 DEF Mine
    <3>2. CASE tag[t].at # "built"
      <4>1. /\ k = tag[t].job /\ tag[t].at \in {"read", "healed"}
            /\ row'[w][k] = IF tag[t].at = "read" THEN "interrupted" ELSE tag[t].status
            /\ k \notin restamped' => w = tag[t].db
        BY <1>7, <2>2, <3>2, TagRow
      <4>2. job[k] = "lost"
        BY <4>1 DEF TagInv, TagOK
      <4>3. k \notin exposed \cup restamped' => row'[w][k] # "ended"
        BY <2>1, <2>2, <4>1 DEF TagInv, TagOK
      <4> QED BY <4>2, <4>3
    <3> QED BY <3>1, <3>2
  <2> QED BY <2>1, <2>2
<1> QED BY <1>1, <1>2, <1>3, <1>4, <1>5, <1>6, <1>7 DEF Next

\* What a tag request holds is kept.
LEMMA TagInvStep ==
  /\ TypeOK /\ JobInv /\ BindInv /\ PinInv /\ StrayExplained /\ RowInv /\ TagInv
  /\ [Next]_vars
  => TagInv'
<1> SUFFICES ASSUME TypeOK, JobInv, BindInv, PinInv, StrayExplained, RowInv, TagInv, [Next]_vars
             PROVE  TagInv'
  OBVIOUS
<1> USE DEF TagInv, TagOK
<1>0. \A t \in Taggers : tag[t].at # "idle" => tag[t].job \in Jobs /\ tag[t].db \in Workspaces
  BY TagRecord DEF TagState
<1>1. CASE Loop \/ Arrive
  <2>1. \A w \in Workspaces, j \in Jobs :
          row'[w][j] # row[w][j] => row'[w][j] = "interrupted" /\ row[w][j] \in Live
    BY <1>1, LoopRow
  <2>2. \A w \in Workspaces, j \in Jobs : row'[w][j] = "ended" <=> row[w][j] = "ended"
    BY <2>1 DEF Live
  <2> QED BY <1>0, <1>1, <2>2, LoopFrame
<1>2. ASSUME NEW j \in Jobs, JobStep(j)
      PROVE  TagInv'
  <2>1. /\ exposed \subseteq exposed' /\ UNCHANGED <<tag, restamped>> /\ known \subseteq known'
        /\ \A k \in Jobs \ {j} : job'[k] = job[k] /\ home'[k] = home[k]
        /\ job[j] # "lost" /\ (job[j] # "arrived" => home' = home)
    BY <1>2, JobFrame
  <2>2. \A w \in Workspaces, k \in Jobs \ {j} : row'[w][k] = row[w][k]
    BY <1>2, JobRow
  <2>3. \A k \in Jobs : k \in known => home'[k] = home[k]
    BY <2>1 DEF JobInv, Mine
  <2> QED BY <1>0, <2>1, <2>2, <2>3
<1>3. ASSUME NEW r \in Requests, Handle(r)
      PROVE  TagInv'
  <2>1. /\ UNCHANGED <<known, job, home, tag, restamped>> /\ exposed \subseteq exposed'
        /\ \A w \in Workspaces, j \in Jobs :
             row'[w][j] # row[w][j] =>
               row'[w][j] = "interrupted" /\ j \notin known /\ j \in req[r].seen
    BY <1>3, HandlerFrame
  <2>2. \A w \in Workspaces, j \in Jobs \ (exposed' \cup restamped) :
          row'[w][j] = "ended" <=> row[w][j] = "ended"
    BY <2>1 DEF RowInv
  <2> QED BY <1>0, <2>1, <2>2
<1>4. CASE Dispatch
  <2>1. UNCHANGED <<known, home, row, exposed, restamped>>
        /\ (\A j \in Jobs : job'[j] = job[j] \/ (job[j] = "idle" /\ job'[j] = "arrived"))
        /\ \A t \in Taggers : tag'[t] = tag[t] \/ tag'[t].at = "arrived"
    BY <1>4, DispatchFrame
  <2> QED BY <1>0, <2>1
<1>5. CASE Crash
  <2>1. \A t \in Taggers : tag'[t].at = "idle"
    BY <1>5 DEF Crash, Untagging
  <2> QED BY <2>1
<1>6. CASE UNCHANGED vars
  BY <1>6 DEF vars, jobVars, tagVars
<1>7. ASSUME NEW t \in Taggers, SetTags(t)
      PROVE  TagInv'
  <2>1. /\ UNCHANGED <<db, store, loop, known, job, home, exposed>> /\ restamped \subseteq restamped'
        /\ \A u \in Taggers \ {t} : tag'[u] = tag[u]
        /\ tag[t] \in TagState
    BY <1>7, TagFrame
  <2>2. ASSUME NEW u \in Taggers \ {t}, tag[u].at \in {"read", "healed"}
        PROVE  TagOK(u)'
    <3> DEFINE j == tag[u].job
               d == tag[u].db
    <3>1. j \in Jobs /\ d \in Workspaces /\ job[j] = "lost" /\ j \notin known
      BY <1>0, <2>2 DEF JobInv, Mine
    <3>2. ASSUME j \notin exposed \cup restamped', row'[d][j] # row[d][j]
          PROVE  row[d][j] # "ended" /\ row'[d][j] # "ended"
      <4>1. j = tag[t].job /\ tag[t].at \in {"read", "healed"}
        BY <1>7, <3>1, <3>2, TagRow
      <4>2. /\ row'[d][j] = IF tag[t].at = "read" THEN "interrupted" ELSE tag[t].status
            /\ d = tag[t].db
        BY <1>7, <3>1, <3>2, <4>1, TagRow
      <4>3. /\ tag[t].status = "ended" <=> row[d][j] = "ended"
            /\ tag[t].at = "read" => tag[t].status \in Live
        BY <2>1, <3>2, <4>1, <4>2
      <4> QED BY <3>2, <4>1, <4>2, <4>3 DEF Live
    <3>3. TagOK(u)
      OBVIOUS
    <3> QED BY <2>1, <2>2, <3>1, <3>2, <3>3
  <2>3. ASSUME NEW u \in Taggers \ {t}, tag[u].at \notin {"read", "healed"}
        PROVE  TagOK(u)'
    BY <2>1, <2>3
  <2>4. TagOK(t)'
    <3> DEFINE j == tag[t].job
    <3>0. /\ tag \in [Taggers -> {Untagging} \cup TagState] /\ j \in Jobs /\ db \in Workspaces
      BY <2>1 DEF TypeOK, TagState
    <3>1. CASE TagBuild(t)
      <4>1. /\ tag'[t].at = "built" /\ tag'[t].job = j /\ tag'[t].db = StoreDB
            /\ tag'[t].status = StatusOf(j)
        BY <2>1, <3>0, <3>1 DEF TagBuild, TagStep, TagState
      <4>2. j \in known /\ Mine(j) /\ loop.at # "down"
        BY <3>0, <3>1 DEF TagBuild, JobInv, Mine
      <4>3. StatusOf(j) \in Live \cup {"ended"} /\ (StatusOf(j) \in Live => j \in AtLarge)
        BY <3>0 DEF StatusOf, Live, AtLarge
      <4>4. StatusOf(j) \in Live /\ j \notin exposed => StoreDB = home[j]
        BY <4>2, <4>3, StoreHome
      <4> QED BY <2>1, <4>1, <4>2, <4>3, <4>4
    <3>2. CASE TagRead(t)
      <4> DEFINE found == row[db][j]
      <4>1. /\ tag'[t].at = (IF found \in Live THEN "read" ELSE "healed") /\ tag'[t].job = j
            /\ tag'[t].db = db /\ tag'[t].status = found
        BY <2>1, <3>0, <3>2 DEF TagRead, TagStep, TagState
      <4>2. found # "none" /\ j \notin known /\ UNCHANGED <<row, restamped>>
        BY <3>2 DEF TagRead
      <4>3. job[j] = "lost"
        BY <3>0, <4>2 DEF RowInv, JobInv, Mine
      <4>4. j \notin exposed /\ found = "ended" /\ db # home[j] => j \in restamped
        BY <3>0 DEF StrayExplained
      <4> HIDE DEF j, found
      <4>5. row'[db][j] = found
        BY <4>2 DEF found
      <4> QED BY <2>1, <4>1, <4>2, <4>3, <4>4, <4>5
    <3>3. CASE TagHeal(t)
      <4>1. /\ tag'[t].at = "healed" /\ tag'[t].job = j
            /\ tag'[t].db = tag[t].db /\ tag'[t].status = "interrupted"
        BY <2>1, <3>0, <3>3 DEF TagHeal, TagStep, TagState
      <4>2. tag[t].at = "read" /\ tag[t].db \in Workspaces
        BY <2>1, <3>3 DEF TagHeal, TagState
      <4>3. j \notin exposed \cup restamped' => row'[tag[t].db][j] # "ended"
        <5>1. CASE row'[tag[t].db][j] = row[tag[t].db][j]
          BY <2>1, <4>2, <5>1 DEF Live
        <5>2. CASE row'[tag[t].db][j] # row[tag[t].db][j]
          BY <1>7, <3>0, <4>2, <5>2, TagRow
        <5> QED BY <5>1, <5>2
      <4> QED BY <2>1, <4>1, <4>2, <4>3 DEF Live
    <3>4. CASE TagFails(t) \/ TagSave(t)
      <4>1. tag'[t].at = "idle"
        BY <3>0, <3>4 DEF TagFails, TagSave, TagStep, Untagging
      <4> QED BY <4>1
    <3> QED BY <1>7, <3>1, <3>2, <3>3, <3>4 DEF SetTags
  <2> QED BY <2>2, <2>3, <2>4
<1> QED BY <1>1, <1>2, <1>3, <1>4, <1>5, <1>6, <1>7 DEF Next

\* Inv is inductive.
LEMMA InvStep == Inv /\ [Next]_vars => Inv'
BY TypeStep, JobInvStep, BindInvStep, OwnInvStep, PinInvStep, StrayStep, RowInvStep, TagInvStep
   DEF Inv

\* The invariant holds in every reachable state.
LEMMA InvHolds == Spec => []Inv
BY InitInv, InvStep, PTL DEF Spec

-----------------------------------------------------------------------------
(* The theorems.                                                           *)

\* Between rebuilds services, store and recorded binding are of the database
\* of active_workspace_id, however many rebuilds and crashes there were.
THEOREM BindingAgreesHolds == Spec => []BindingAgrees
<1>1. Inv => BindingAgrees
  BY DEF Inv, BindInv, BindingAgrees, Stable
<1> QED BY <1>1, InvHolds, PTL

\* When requests are served, a live row has an owner in this process, unless
\* the database refused the repair.
THEOREM LiveRowOwnedHolds == Spec => []LiveRowOwned
<1>1. Inv => LiveRowOwned
  BY DEF Inv, OwnInv, JobInv, LiveRowOwned, Repaired
<1> QED BY <1>1, InvHolds, PTL

\* While no switch overtakes a job, its worker saves in the database it was
\* submitted in, a live row of it is only there, and a final row elsewhere was
\* brought by a tag request.
THEOREM StrayExplainedHolds == Spec => []StrayExplained
<1>1. Inv => StrayExplained
  BY DEF Inv
<1> QED BY <1>1, InvHolds, PTL

\* Only a rebuild interrupts a row this process owns: the repair on reads and
\* the tag requests spare it, and no job saves such a row.
THEOREM OwnedRowSparedHolds == Spec => OwnedRowSpared
<1> DEFINE Spared == \A w \in Workspaces, j \in Jobs :
                       /\ Mine(j) /\ row'[w][j] = "interrupted" /\ row[w][j] # "interrupted"
                       => loop.at = "build"
<1>1. Inv /\ [Next]_vars => [Spared]_vars
  <2> SUFFICES ASSUME TypeOK, JobInv, TagInv, [Next]_vars, NEW w \in Workspaces, NEW j \in Jobs,
                      Mine(j), row'[w][j] = "interrupted", row[w][j] # "interrupted"
               PROVE  loop.at = "build"
    BY DEF Inv
  <2>1. CASE Loop \/ Arrive
    <3>1. loop.at # "down"
      BY DEF JobInv, Mine
    <3> QED BY <2>1, <3>1, LoopRow
  <2>2. ASSUME NEW k \in Jobs, JobStep(k)
        PROVE  FALSE
    BY <2>2, JobRow DEF JobInv
  <2>3. ASSUME NEW r \in Requests, Handle(r)
        PROVE  FALSE
    BY <2>3, HandlerFrame DEF JobInv
  <2>4. CASE Dispatch
    BY <2>4, DispatchFrame
  <2>5. CASE Crash
    BY <2>5 DEF Crash
  <2>6. CASE UNCHANGED vars
    BY <2>6 DEF vars
  <2>7. ASSUME NEW t \in Taggers, SetTags(t)
        PROVE  FALSE
    BY <2>7, TagRow DEF TagInv, TagOK, JobInv, Mine, Live
  <2> QED BY <2>1, <2>2, <2>3, <2>4, <2>5, <2>6, <2>7 DEF Next
<1> QED BY <1>1, InvHolds, PTL DEF Spec, OwnedRowSpared

\* Nothing undoes a final row of a job that no switch could have spread over
\* two databases: not a rebuild, not a late save, not a repair on a read, and
\* not a tag request unless it saves a row that is out of date or of another
\* database.
THEOREM EndedStaysHolds == Spec => EndedStays
<1> DEFINE Stays == \A w \in Workspaces, j \in Jobs :
                      row[w][j] = "ended" /\ j \notin exposed \cup restamped'
                      => row'[w][j] = "ended"
<1>1. Inv /\ [Next]_vars => [Stays]_vars
  <2> SUFFICES ASSUME TypeOK, JobInv, RowInv, TagInv, [Next]_vars,
                      NEW w \in Workspaces, NEW j \in Jobs, row[w][j] = "ended",
                      j \notin exposed \cup restamped', row'[w][j] # row[w][j],
                      row'[w][j] # "ended"
               PROVE  FALSE
    BY DEF Inv
  <2>1. CASE Loop \/ Arrive
    BY <2>1, LoopRow DEF Live
  <2>2. ASSUME NEW k \in Jobs, JobStep(k)
        PROVE  FALSE
    <3>1. restamped' = restamped
      BY <2>2, JobFrame
    <3> QED BY <2>2, <3>1, JobRow DEF RowInv, JobInv
  <2>3. ASSUME NEW r \in Requests, Handle(r)
        PROVE  FALSE
    <3>1. restamped' = restamped
      BY <2>3, HandlerFrame
    <3> QED BY <2>3, <3>1, HandlerFrame DEF RowInv
  <2>4. CASE Dispatch
    BY <2>4, DispatchFrame
  <2>5. CASE Crash
    BY <2>5 DEF Crash
  <2>6. CASE UNCHANGED vars
    BY <2>6 DEF vars
  <2>7. ASSUME NEW t \in Taggers, SetTags(t)
        PROVE  FALSE
    <3>1. restamped \subseteq restamped' /\ tag[t] \in TagState
      BY <2>7, TagFrame
    <3>2. CASE tag[t].at = "built"
      <4>1. j \in known /\ StatusOf(j) # "ended"
        BY <2>7, <3>2, TagRow DEF TagInv, TagOK
      <4>2. job[j] \in {"ended", "endSave", "over"}
        BY <3>1, <4>1 DEF RowInv, JobInv, Mine
      <4> QED BY <4>1, <4>2 DEF StatusOf
    <3>3. CASE tag[t].at # "built"
      <4>1. /\ j = tag[t].job /\ tag[t].at \in {"read", "healed"} /\ w = tag[t].db
            /\ row'[w][j] = IF tag[t].at = "read" THEN "interrupted" ELSE tag[t].status
        BY <2>7, <3>3, TagRow
      <4> QED BY <3>1, <4>1 DEF TagInv, TagOK, Live
    <3> QED BY <3>2, <3>3
  <2> QED BY <2>1, <2>2, <2>3, <2>4, <2>5, <2>6, <2>7 DEF Next
<1> QED BY <1>1, InvHolds, PTL DEF Spec, EndedStays

-----------------------------------------------------------------------------
(* The caches.                                                             *)

ReaderStates ==
  [at : {"idle", "lookup", "put", "take", "check", "lock", "build", "store", "done", "failed"},
   svc : Objects, home : Objects, base : Nat, got : Graphs]

\* The types, and that a job writes the rows whose caches it clears.
CacheTypes ==
  /\ kind \in Kinds /\ corpus \in [Studies -> Nat] /\ settled \in [Studies -> Nat]
  /\ active \in Studies /\ repos \in Objects /\ service \in Objects
  /\ phase \in {"bound", "clear", "close"} /\ lock \subseteq Readers
  /\ DOMAIN cache \subseteq Addresses \cup Slots \cup {0}
  /\ \A a \in DOMAIN cache : cache[a] \in Graphs
  /\ reader \in [Readers -> ReaderStates]
  /\ writer \in {"none"} \cup (IF Edges THEN {"scrape", "bulk"} ELSE {"comments"})

\* A binding has a number and, where it is a key, an address.
BindingKnown ==
  /\ repos.n # 0 /\ (ByRepos => repos.addr # 0)
  /\ \A w \in Studies : settled[w] <= corpus[w]

\* What holds a binding is not younger than the current one, and shares its
\* workspace and address with it only if it is the current one.
Holds(x) ==
  /\ x.n <= repos.n /\ (x.n = repos.n => x.ws = repos.ws)
  /\ ByRepos => (x.addr = repos.addr <=> x.n = repos.n)

\* A graph that met no end of a job has the batches of the jobs that ended,
\* and after the clear of a switch it is of the new workspace.
Fresh(g) == ~g.late =>
  /\ settled[g.ws] <= g.batches
  /\ kind # "analytics" /\ phase # "clear" => g.ws = repos.ws

EntriesFresh ==
  \A a \in DOMAIN cache :
    /\ Fresh(cache[a])
    /\ ByRepos /\ phase # "clear" /\ a = repos.addr => cache[a].ws = repos.ws

\* A request is at home only while its binding is the current one.
AtHome(r) == reader[r].home.n # 0 =>
  /\ reader[r].home = repos /\ phase = "bound"
  /\ reader[r].base <= settled[repos.ws]

\* What a request is about to store.
Built(r) == reader[r].at = "store" =>
  /\ reader[r].got.ws = reader[r].svc.ws
  /\ ~reader[r].got.late => reader[r].svc.n = repos.n
                            /\ settled[reader[r].got.ws] <= reader[r].got.batches

\* What a request that met nothing is served.
Served(r) == reader[r].at = "done" /\ Steady(r) =>
  /\ ~reader[r].got.late => /\ kind # "analytics" => Own(r)
                            /\ Own(r) => reader[r].base <= reader[r].got.batches
  /\ ByRepos => Own(r)

ReaderOK(r) ==
  /\ Holds(reader[r].svc) /\ AtHome(r) /\ Built(r) /\ Served(r)
  /\ reader[r].at = "failed" => ~Steady(r)

ReadersOK == \A r \in Readers : ReaderOK(r)

CacheInv == CacheTypes /\ BindingKnown /\ Holds(service) /\ EntriesFresh /\ ReadersOK

USE CacheAssumption

\* Nothing is cached at the start.
LEMMA CacheInitInv == CacheInit => CacheInv
<1> SUFFICES ASSUME CacheInit PROVE CacheInv
  OBVIOUS
<1>1. /\ Missing(First) \in Objects /\ Away \in ReaderStates
      /\ Away.svc = Missing(First) /\ Away.home = Missing(First) /\ Away.at = "idle"
      /\ Missing(First).n = 0 /\ Missing(First).addr = 0
  BY DEF Missing, Away, Objects, Graphs, ReaderStates
<1>2. /\ repos.n = 1 /\ repos.ws = First /\ repos \in Objects
      /\ ByRepos => repos.addr = 1 /\ repos.addr # 0
  BY DEF CacheInit, Objects
<1>3. service \in {repos, Missing(First)}
  BY <1>2 DEF CacheInit, Prepared
<1>4. CacheTypes
  BY <1>1, <1>2, <1>3 DEF CacheInit, CacheTypes, Empty
<1>5. Holds(service) /\ BindingKnown
  BY <1>1, <1>2, <1>3 DEF CacheInit, Holds, BindingKnown
<1>6. EntriesFresh
  BY DEF CacheInit, EntriesFresh, Empty
<1>7. ReadersOK
  BY <1>1, <1>2 DEF CacheInit, ReadersOK, ReaderOK, Holds, AtHome, Built, Served, Steady
<1> QED BY <1>4, <1>5, <1>6, <1>7 DEF CacheInv

\* What the end of a job or of a switch does to the requests under way.
LEMMA PassedFacts ==
  ASSUME CacheTypes, reader' = Passed
  PROVE  /\ reader' \in [Readers -> ReaderStates]
         /\ \A r \in Readers :
              /\ reader'[r].at = reader[r].at /\ reader'[r].svc = reader[r].svc
              /\ reader'[r].home.n = 0 /\ reader'[r].got.ws = reader[r].got.ws
              /\ reader[r].at = "store" => reader'[r].got.late
<1> DEFINE after(r) ==
      [at |-> reader[r].at, svc |-> reader[r].svc, home |-> Away.home, base |-> 0,
       got |-> [ws |-> reader[r].got.ws, batches |-> reader[r].got.batches,
                late |-> reader[r].got.late \/ reader[r].at = "store"]]
<1>1. Away.home \in Objects /\ Away.home.n = 0
  BY DEF Away, Missing, Objects
<1>2. ASSUME NEW r \in Readers PROVE reader'[r] = after(r) /\ after(r) \in ReaderStates
  <2>1. reader[r] \in ReaderStates
    BY DEF CacheTypes
  <2>2. reader'[r] = after(r)
    BY <2>1 DEF Passed, ReaderStates, Graphs
  <2>3. after(r) \in ReaderStates
    BY <1>1, <2>1 DEF ReaderStates, Graphs
  <2> QED BY <2>2, <2>3
<1>3. reader' = [r \in Readers |-> reader'[r]]
  BY DEF Passed
<1>4. ASSUME NEW r \in Readers
      PROVE  /\ reader'[r].at = reader[r].at /\ reader'[r].svc = reader[r].svc
             /\ reader'[r].home.n = 0 /\ reader'[r].got.ws = reader[r].got.ws
             /\ reader[r].at = "store" => reader'[r].got.late
  <2>1. reader'[r] = after(r)
    BY <1>2
  <2>2. /\ reader'[r].at = reader[r].at /\ reader'[r].svc = reader[r].svc
        /\ reader'[r].home.n = 0 /\ reader'[r].got.ws = reader[r].got.ws
    BY <1>1, <2>1
  <2>3. reader'[r].got.late = (reader[r].got.late \/ reader[r].at = "store")
    BY <2>1
  <2> QED BY <2>2, <2>3
<1> HIDE DEF after
<1>5. reader' \in [Readers -> ReaderStates]
  BY <1>2, <1>3
<1> QED BY <1>4, <1>5

\* After one no request is at home and no graph under way is fresh.
LEMMA PassedReaders ==
  ASSUME CacheTypes, ReadersOK, reader' = Passed,
         \A r \in Readers : Holds(reader[r].svc)'
  PROVE  ReadersOK'
<1>1. \A r \in Readers :
        /\ reader'[r].at = reader[r].at /\ reader'[r].svc = reader[r].svc
        /\ reader'[r].home.n = 0 /\ reader'[r].got.ws = reader[r].got.ws
        /\ reader[r].at = "store" => reader'[r].got.late
  BY PassedFacts
<1> QED BY <1>1 DEF ReadersOK, ReaderOK, AtHome, Built, Served, Steady

\* Jobs add rows, and what the end of one makes stale is cleared.
LEMMA SaveRowsInv ==
  ASSUME CacheInv, NEW by \in {"scrape", "bulk", "comments"}, SaveRows(by)
  PROVE  CacheInv'
<1>1. CacheTypes'
  BY DEF SaveRows, CacheInv, CacheTypes, Edges
<1>2. BindingKnown'
  BY DEF SaveRows, CacheInv, CacheTypes, BindingKnown, ByRepos
<1>3. UNCHANGED <<kind, settled, repos, service, phase, cache, reader>>
  BY DEF SaveRows
<1>4. Holds(service)' /\ EntriesFresh' /\ ReadersOK'
  BY <1>3 DEF CacheInv, Holds, EntriesFresh, Fresh, ReadersOK, ReaderOK, AtHome, Built, Served,
     Steady, Own, ByRepos
<1> QED BY <1>1, <1>2, <1>4 DEF CacheInv

\* What ends a job clears, and nobody under way is promised anything.
LEMMA InvalidateInv == CacheInv /\ Invalidate => CacheInv'
<1> SUFFICES ASSUME CacheInv, Invalidate PROVE CacheInv'
  OBVIOUS
<1>0. CacheTypes /\ ReadersOK
  BY DEF CacheInv
<1>1. /\ UNCHANGED <<kind, corpus, active, repos, service, phase, lock>> /\ writer' = "none"
      /\ Bulk => UNCHANGED <<settled, reader>>
      /\ ~Bulk => settled' = corpus /\ reader' = Passed
      /\ cache' \in {cache, Empty}
  BY DEF Invalidate
<1>2. CASE Bulk
  <2>1. CacheTypes'
    BY <1>0, <1>1, <1>2 DEF CacheTypes, Edges, Empty
  <2>2. BindingKnown' /\ Holds(service)' /\ EntriesFresh' /\ ReadersOK'
    BY <1>1, <1>2 DEF CacheInv, BindingKnown, Holds, EntriesFresh, Fresh, ReadersOK, ReaderOK,
       AtHome, Built, Served, Steady, Own, ByRepos, Empty
  <2> QED BY <2>1, <2>2 DEF CacheInv
<1>3. CASE ~Bulk
  <2>1. cache' = Empty
    BY <1>0, <1>3 DEF Invalidate, CacheTypes, Clears, Edges, Bulk
  <2>2. reader' \in [Readers -> ReaderStates]
    BY <1>0, <1>1, <1>3, PassedFacts
  <2>3. CacheTypes'
    BY <1>0, <1>1, <1>3, <2>1, <2>2 DEF CacheTypes, Edges, Empty
  <2>4. BindingKnown' /\ Holds(service)'
    BY <1>0, <1>1, <1>3 DEF CacheInv, CacheTypes, BindingKnown, Holds, ByRepos
  <2>5. EntriesFresh'
    BY <2>1 DEF EntriesFresh, Empty
  <2>6. \A r \in Readers : Holds(reader[r].svc)'
    BY <1>0, <1>1, <1>3, PassedFacts DEF ReadersOK, ReaderOK, Holds, ByRepos
  <2>7. ReadersOK'
    BY <1>0, <1>1, <1>3, <2>6, PassedReaders
  <2> QED BY <2>3, <2>4, <2>5, <2>7 DEF CacheInv
<1> QED BY <1>2, <1>3

\* A step of a switch that keeps the binding.
LEMMA SwitchInv ==
  ASSUME CacheInv, UNCHANGED <<kind, corpus, settled, repos, service, lock, writer>>,
         active' \in Studies, cache' = Switched, reader' = Passed,
         \/ phase' = phase
         \/ phase = "clear" /\ phase' = "close"
  PROVE  CacheInv'
<1>0. CacheTypes /\ ReadersOK
  BY DEF CacheInv
<1>1. reader' \in [Readers -> ReaderStates]
  BY <1>0, PassedFacts
<1>2. cache' \in {cache, Empty} /\ (kind # "analytics" => cache' = Empty)
  BY DEF Switched
<1>3. CacheTypes'
  BY <1>0, <1>1, <1>2 DEF CacheTypes, Edges, Empty
<1>4. BindingKnown' /\ Holds(service)'
  BY DEF CacheInv, BindingKnown, Holds, ByRepos
<1>5. EntriesFresh'
  BY <1>2 DEF CacheInv, EntriesFresh, Fresh, Empty, ByRepos
<1>6. \A r \in Readers : Holds(reader[r].svc)'
  BY <1>0, PassedFacts DEF ReadersOK, ReaderOK, Holds, ByRepos
<1>7. ReadersOK'
  BY <1>0, <1>6, PassedReaders
<1> QED BY <1>3, <1>4, <1>5, <1>7 DEF CacheInv

\* The new binding has an address that nobody holds.
LEMMA RebindInv == CacheInv /\ Rebind => CacheInv'
<1> SUFFICES ASSUME CacheInv, Rebind PROVE CacheInv'
  OBVIOUS
<1>0. CacheTypes /\ ReadersOK
  BY DEF CacheInv
<1>1. /\ UNCHANGED <<kind, corpus, settled, active, cache, lock, writer>>
      /\ service' = Prepared(repos') /\ phase' = "clear" /\ reader' = Passed
  BY DEF Rebind
<1>2. PICK a \in NewRepos : repos' = [n |-> repos.n + 1, ws |-> active, addr |-> a]
  BY DEF Rebind
<1>3. /\ a \in Addresses \cup {0}
      /\ ByRepos => a # 0 /\ \A r \in Readers : reader[r].svc.addr # a
  BY DEF NewRepos, InUse
<1>4. /\ repos' \in Objects /\ repos'.n = repos.n + 1 /\ repos'.addr = a /\ repos.n \in Nat
      /\ repos'.ws = active
  BY <1>0, <1>2, <1>3 DEF CacheTypes, Objects
<1>5. \/ service' = repos'
      \/ service' \in Objects /\ service'.n = 0 /\ service'.addr = 0
  BY <1>0, <1>1, <1>4 DEF Prepared, Missing, Objects, CacheTypes
<1>6. reader' \in [Readers -> ReaderStates]
  BY <1>0, <1>1, PassedFacts
<1>7. CacheTypes'
  BY <1>0, <1>1, <1>4, <1>5, <1>6 DEF CacheTypes, Edges
<1>8. BindingKnown'
  BY <1>1, <1>3, <1>4 DEF CacheInv, BindingKnown, ByRepos
<1>9. Holds(service)'
  BY <1>1, <1>3, <1>4, <1>5 DEF Holds, ByRepos
<1>10. EntriesFresh'
  BY <1>1 DEF CacheInv, EntriesFresh, Fresh, ByRepos
<1>11. \A r \in Readers : Holds(reader[r].svc)'
  <2> SUFFICES ASSUME NEW r \in Readers PROVE Holds(reader[r].svc)'
    OBVIOUS
  <2>1. reader'[r].svc = reader[r].svc
    BY <1>0, <1>1, PassedFacts
  <2>2. reader[r].svc.n \in Nat /\ reader[r].svc.n <= repos.n
    BY <1>0 DEF CacheTypes, ReaderStates, Objects, ReadersOK, ReaderOK, Holds
  <2> QED BY <1>1, <1>3, <1>4, <2>1, <2>2 DEF Holds, ByRepos
<1>12. ReadersOK'
  BY <1>0, <1>1, <1>11, PassedReaders
<1> QED BY <1>7, <1>8, <1>9, <1>10, <1>12 DEF CacheInv

\* With the old store closed the new binding is served.
LEMMA CloseOldInv == CacheInv /\ CloseOld => CacheInv'
<1> SUFFICES ASSUME CacheInv, CloseOld PROVE CacheInv'
  OBVIOUS
<1>1. CacheTypes'
  BY DEF CloseOld, CacheInv, CacheTypes, Edges
<1>2. BindingKnown' /\ Holds(service)' /\ EntriesFresh' /\ ReadersOK'
  BY DEF CloseOld, CacheInv, BindingKnown, Holds, EntriesFresh, Fresh, ReadersOK, ReaderOK,
     AtHome, Built, Served, Steady, Own, ByRepos
<1> QED BY <1>1, <1>2 DEF CacheInv

-----------------------------------------------------------------------------
(* Requests.                                                               *)

\* A step of one request that leaves the services and the entries alone.
LEMMA ServeFrame ==
  ASSUME CacheInv, NEW r \in Readers, reader'[r] \in ReaderStates,
         \A q \in Readers \ {r} : reader'[q] = reader[q],
         reader' = [q \in Readers |-> reader'[q]],
         UNCHANGED <<Rest, service, cache>>, lock' \subseteq Readers,
         ReaderOK(r)'
  PROVE  CacheInv'
<1>1. reader' \in [Readers -> ReaderStates]
  BY DEF CacheInv, CacheTypes
<1>2. CacheTypes'
  BY <1>1 DEF Rest, CacheInv, CacheTypes, Edges
<1>3. BindingKnown' /\ Holds(service)' /\ EntriesFresh'
  BY DEF Rest, CacheInv, BindingKnown, Holds, EntriesFresh, Fresh, ByRepos
<1>4. ReadersOK'
  <2> SUFFICES ASSUME NEW q \in Readers \ {r} PROVE ReaderOK(q)'
    BY DEF ReadersOK
  <2> QED BY <1>1 DEF Rest, CacheInv, ReadersOK, ReaderOK, Holds, AtHome, Built, Served, Steady,
             Own, ByRepos
<1> QED BY <1>2, <1>3, <1>4 DEF CacheInv

\* A request is admitted to the current binding.
LEMMA AdmittedInv ==
  ASSUME CacheInv, NEW r \in Readers, Admitted(r)
  PROVE  CacheInv'
<1> DEFINE new == [at |-> "lookup", svc |-> Missing(First), home |-> repos,
                   base |-> settled[active], got |-> Away.got]
<1>0. CacheTypes /\ reader[r] \in ReaderStates
  BY DEF CacheInv, CacheTypes
<1>1. /\ Missing(First) \in Objects /\ Away.got \in Graphs
      /\ Missing(First).n = 0 /\ Missing(First).addr = 0
  BY DEF Missing, Away, Objects, Graphs
<1>2. new \in ReaderStates
  BY <1>0, <1>1 DEF CacheTypes, ReaderStates
<1>3. /\ reader'[r] = new /\ \A q \in Readers \ {r} : reader'[q] = reader[q]
      /\ reader' = [q \in Readers |-> reader'[q]]
  BY <1>0 DEF Admitted, Away, CacheTypes
<1>4. UNCHANGED <<Rest, service, cache, lock>> /\ phase = "bound" /\ active = repos.ws
  BY DEF Admitted
<1>6. ReaderOK(r)'
  <2>1. repos.n \in Nat /\ repos.n # 0 /\ settled[active] \in Nat
    BY <1>0 DEF CacheInv, CacheTypes, BindingKnown, Objects
  <2>2. ByRepos => repos.addr # 0
    BY DEF CacheInv, BindingKnown
  <2> QED BY <1>1, <1>3, <1>4, <2>1, <2>2 DEF ReaderOK, Holds, AtHome, Built, Served, Rest, ByRepos
<1> QED BY <1>0, <1>2, <1>3, <1>4, <1>6, ServeFrame DEF CacheTypes

\* A request with what it has of its binding, at another place.
LEMMA StepInv ==
  ASSUME CacheInv, NEW r \in Readers,
         NEW to \in {"take", "check", "lock", "build", "failed"},
         reader' = [reader EXCEPT ![r].at = to],
         to = "failed" => ~Steady(r),
         UNCHANGED <<Rest, service, cache>>, lock' \subseteq Readers
  PROVE  CacheInv'
<1> DEFINE new == [at |-> to, svc |-> reader[r].svc, home |-> reader[r].home,
                   base |-> reader[r].base, got |-> reader[r].got]
<1>0. CacheTypes /\ reader[r] \in ReaderStates /\ ReaderOK(r)
  BY DEF CacheInv, CacheTypes, ReadersOK
<1>1. new \in ReaderStates
  BY <1>0 DEF ReaderStates
<1>3. /\ reader'[r] = new /\ \A q \in Readers \ {r} : reader'[q] = reader[q]
      /\ reader' = [q \in Readers |-> reader'[q]]
  BY <1>0 DEF CacheTypes, ReaderStates
<1>5. ReaderOK(r)'
  BY <1>0, <1>3 DEF ReaderOK, Holds, AtHome, Built, Served, Steady, Rest, ByRepos
<1> QED BY <1>1, <1>3, <1>5, ServeFrame

\* get_service: a new service holds the binding of the moment.
LEMMA LookupInv ==
  ASSUME CacheInv, NEW r \in Readers, Lookup(r)
  PROVE  CacheInv'
<1>0. CacheTypes /\ reader[r] \in ReaderStates /\ ReaderOK(r)
  BY DEF CacheInv, CacheTypes, ReadersOK
<1>1. UNCHANGED <<Rest, service, cache, lock>>
  BY DEF Lookup
<1>2. CASE service.n # 0
  <2>1. reader' = [reader EXCEPT ![r].at = "take"]
    BY <1>2 DEF Lookup, Step
  <2> QED BY <1>0, <1>1, <2>1, StepInv DEF CacheTypes
<1>3. CASE service.n = 0
  <2>1. PICK a \in NewService :
          reader' = [reader EXCEPT ![r].at = "put", ![r].svc = [repos EXCEPT !.addr = a]]
    BY <1>3 DEF Lookup
  <2> DEFINE mine == [n |-> repos.n, ws |-> repos.ws, addr |-> a]
  <2> DEFINE new == [at |-> "put", svc |-> mine, home |-> reader[r].home,
                     base |-> reader[r].base, got |-> reader[r].got]
  <2>2. /\ a \in Addresses \cup Slots \cup {0}
        /\ kind # "analytics" => a = repos.addr
    BY <1>0 DEF NewService, CacheTypes, Objects
  <2>3. mine \in Objects /\ [repos EXCEPT !.addr = a] = mine
    BY <1>0, <2>2 DEF CacheTypes, Objects
  <2>4. reader' = [reader EXCEPT ![r].at = "put", ![r].svc = mine]
    BY <2>1, <2>3
  <2> HIDE DEF mine
  <2>5. new \in ReaderStates
    BY <1>0, <2>3 DEF ReaderStates
  <2>7. /\ reader'[r] = new /\ \A q \in Readers \ {r} : reader'[q] = reader[q]
        /\ reader' = [q \in Readers |-> reader'[q]]
    BY <1>0, <2>4 DEF CacheTypes, ReaderStates
  <2>9. Holds(mine)
    BY <1>0, <2>2 DEF Holds, mine, ByRepos, CacheTypes, Objects
  <2>10. ReaderOK(r)'
    <3>1. Holds(reader[r].svc)' /\ reader'[r].at = "put"
      BY <1>1, <2>7, <2>9 DEF Holds, ByRepos, Rest
    <3>2. reader'[r].home = reader[r].home /\ reader'[r].base = reader[r].base
      BY <2>7
    <3> QED BY <1>0, <1>1, <3>1, <3>2 DEF ReaderOK, Holds, AtHome, Built, Served, Rest, ByRepos
  <2> QED BY <1>0, <1>1, <2>5, <2>7, <2>10, ServeFrame DEF CacheTypes
<1> QED BY <1>2, <1>3

\* It is put where others find it ...
LEMMA PutInv ==
  ASSUME CacheInv, NEW r \in Readers, Put(r)
  PROVE  CacheInv'
<1> DEFINE new == [at |-> "take", svc |-> reader[r].svc, home |-> reader[r].home,
                   base |-> reader[r].base, got |-> reader[r].got]
<1>0. CacheTypes /\ reader[r] \in ReaderStates /\ ReaderOK(r)
  BY DEF CacheInv, CacheTypes, ReadersOK
<1>1. /\ UNCHANGED <<Rest, cache, lock>> /\ service' = reader[r].svc
      /\ reader' = [reader EXCEPT ![r].at = "take"]
  BY DEF Put, Step
<1>2. new \in ReaderStates
  BY <1>0 DEF ReaderStates
<1>3. /\ reader'[r] = new /\ \A q \in Readers \ {r} : reader'[q] = reader[q]
      /\ reader' = [q \in Readers |-> reader'[q]]
  BY <1>0, <1>1 DEF CacheTypes, ReaderStates
<1>4. reader' \in [Readers -> ReaderStates]
  BY <1>0, <1>2, <1>3 DEF CacheTypes
<1>5. CacheTypes'
  BY <1>0, <1>1, <1>4 DEF Rest, CacheTypes, Edges, ReaderStates
<1>6. BindingKnown' /\ EntriesFresh' /\ Holds(service)'
  BY <1>0, <1>1 DEF Rest, CacheInv, BindingKnown, EntriesFresh, Fresh, ByRepos, Holds, ReaderOK
<1>7. ReadersOK'
  <2> SUFFICES ASSUME NEW q \in Readers PROVE ReaderOK(q)'
    BY DEF ReadersOK
  <2>1. CASE q = r
    BY <1>0, <1>1, <1>3, <2>1 DEF ReaderOK, Holds, AtHome, Built, Served, Steady, Rest, ByRepos
  <2>2. CASE q # r
    BY <1>1, <1>3, <2>2 DEF Rest, CacheInv, ReadersOK, ReaderOK, Holds, AtHome, Built, Served,
       Steady, Own, ByRepos
  <2> QED BY <2>1, <2>2
<1> QED BY <1>5, <1>6, <1>7 DEF CacheInv

\* ... and what is there is taken, which may be nothing.
LEMMA TakeInv ==
  ASSUME CacheInv, NEW r \in Readers, Take(r)
  PROVE  CacheInv'
<1> DEFINE to == IF service.n # 0 THEN "check" ELSE "failed"
<1> DEFINE new == [at |-> to, svc |-> service, home |-> reader[r].home,
                   base |-> reader[r].base, got |-> reader[r].got]
<1>0. CacheTypes /\ reader[r] \in ReaderStates /\ ReaderOK(r) /\ Holds(service)
  BY DEF CacheInv, CacheTypes, ReadersOK
<1>1. /\ UNCHANGED <<Rest, service, cache, lock>>
      /\ reader' = [reader EXCEPT ![r].svc = service, ![r].at = to]
  BY DEF Take
<1>2. to \in {"check", "failed"} /\ (to = "failed" => service.n = 0)
  OBVIOUS
<1> HIDE DEF to
<1>3. new \in ReaderStates
  BY <1>0, <1>2 DEF CacheTypes, ReaderStates
<1>6. /\ reader'[r] = new /\ \A q \in Readers \ {r} : reader'[q] = reader[q]
      /\ reader' = [q \in Readers |-> reader'[q]]
  BY <1>0, <1>1 DEF CacheTypes, ReaderStates
<1>7. ReaderOK(r)'
  BY <1>0, <1>1, <1>2, <1>6 DEF ReaderOK, Holds, AtHome, Built, Served, Steady, Rest, ByRepos
<1> QED BY <1>0, <1>1, <1>3, <1>6, <1>7, ServeFrame DEF CacheTypes

\* A fresh entry at the address of its service is what a request may be served.
LEMMA HitInv ==
  ASSUME CacheInv, NEW r \in Readers, NEW rest \in SUBSET Readers, Hit(r, rest),
         Key(r) \in DOMAIN cache, UNCHANGED <<Rest, service, cache>>
  PROVE  CacheInv'
<1> DEFINE g == cache[reader[r].svc.addr]
<1> DEFINE new == [at |-> "done", svc |-> reader[r].svc, home |-> reader[r].home,
                   base |-> reader[r].base, got |-> g]
<1>0. CacheTypes /\ reader[r] \in ReaderStates /\ ReaderOK(r)
  BY DEF CacheInv, CacheTypes, ReadersOK
<1>1. /\ reader' = [reader EXCEPT ![r].at = "done", ![r].got = g]
      /\ lock' = lock \ rest
  BY DEF Hit, Key
<1>2. /\ g \in Graphs /\ Fresh(g)
      /\ ByRepos /\ phase # "clear" /\ reader[r].svc.addr = repos.addr => g.ws = repos.ws
  BY <1>0 DEF Key, CacheInv, CacheTypes, EntriesFresh
<1> HIDE DEF g
<1>3. new \in ReaderStates
  BY <1>0, <1>2 DEF ReaderStates
<1>4. /\ reader'[r] = new /\ \A q \in Readers \ {r} : reader'[q] = reader[q]
      /\ reader' = [q \in Readers |-> reader'[q]]
  BY <1>0, <1>1 DEF CacheTypes, ReaderStates
<1>5. Served(r)'
  <2> SUFFICES ASSUME Steady(r)' PROVE Served(r)'
    BY DEF Served
  <2>1. /\ reader[r].home = repos /\ phase = "bound" /\ reader[r].base <= settled[repos.ws]
        /\ reader[r].svc.n = repos.n
    BY <1>0, <1>4 DEF Steady, ReaderOK, AtHome
  <2>2. ByRepos => g.ws = repos.ws
    BY <1>0, <1>2, <2>1 DEF ReaderOK, Holds
  <2>3. ~g.late => /\ kind # "analytics" => g.ws = repos.ws
                   /\ g.ws = repos.ws => reader[r].base <= g.batches
    <3>1. settled[repos.ws] \in Nat /\ reader[r].base \in Nat /\ g.batches \in Nat
      BY <1>0, <1>2 DEF CacheTypes, Objects, ReaderStates, Graphs
    <3> QED BY <1>2, <2>1, <3>1 DEF Fresh
  <2> QED BY <1>4, <2>1, <2>2, <2>3 DEF Served, Own, Rest, ByRepos
<1>6. ReaderOK(r)'
  BY <1>0, <1>4, <1>5 DEF ReaderOK, Holds, AtHome, Built, Rest, ByRepos
<1> QED BY <1>0, <1>1, <1>3, <1>4, <1>6, ServeFrame DEF CacheTypes

\* A request is served from the cache or goes on to build.
LEMMA CheckInv ==
  ASSUME CacheInv, NEW r \in Readers, Check(r) \/ TakeLock(r)
  PROVE  CacheInv'
<1>0. UNCHANGED <<Rest, service, cache>> /\ lock \subseteq Readers
  BY DEF Check, TakeLock, CacheInv, CacheTypes
<1>1. CASE Key(r) \in DOMAIN cache
  BY <1>0, <1>1, HitInv DEF Check, TakeLock
<1>2. CASE Key(r) \notin DOMAIN cache
  <2>1. PICK to \in {"lock", "build"} : reader' = [reader EXCEPT ![r].at = to]
    BY <1>2 DEF Check, TakeLock, Step
  <2>2. lock' \subseteq Readers
    BY <1>0, <1>2 DEF Check, TakeLock
  <2> QED BY <1>0, <2>1, <2>2, StepInv
<1> QED BY <1>1, <1>2

\* The rows that are read are those of the service's binding, which at home
\* is open.
LEMMA ScanInv ==
  ASSUME CacheInv, NEW r \in Readers, Scan(r)
  PROVE  CacheInv'
<1> DEFINE w == reader[r].svc.ws
<1>0. CacheTypes /\ reader[r] \in ReaderStates /\ ReaderOK(r)
  BY DEF CacheInv, CacheTypes, ReadersOK
<1>1. CASE Closed(reader[r].svc)
  <2>1. /\ reader' = [reader EXCEPT ![r].at = "failed"] /\ lock' = lock \ {r}
        /\ UNCHANGED <<Rest, service, cache>>
    BY <1>1 DEF Scan, Step
  <2>2. ~Steady(r)
    BY <1>0, <1>1 DEF Closed, Steady, ReaderOK, AtHome, CacheTypes, Objects, ReaderStates
  <2> QED BY <1>0, <2>1, <2>2, StepInv DEF CacheTypes
<1>2. CASE ~Closed(reader[r].svc)
  <2> DEFINE late == reader[r].svc.n # repos.n
  <2> DEFINE g == [ws |-> w, batches |-> corpus[w], late |-> late]
  <2> DEFINE new == [at |-> "store", svc |-> reader[r].svc, home |-> reader[r].home,
                     base |-> reader[r].base, got |-> g]
  <2>1. /\ reader' = [reader EXCEPT ![r].at = "store", ![r].got = g]
        /\ UNCHANGED <<Rest, service, cache, lock>>
    BY <1>2 DEF Scan
  <2>2. w \in Studies /\ corpus[w] \in Nat /\ settled[w] <= corpus[w]
    BY <1>0 DEF CacheInv, BindingKnown, CacheTypes, ReaderStates, Objects
  <2>3. g \in Graphs
    BY <2>2 DEF Graphs
  <2>4. g.ws = w /\ g.batches = corpus[w] /\ (~g.late => reader[r].svc.n = repos.n)
    OBVIOUS
  <2> HIDE DEF g
  <2>5. new \in ReaderStates
    BY <1>0, <2>3 DEF ReaderStates
  <2>6. /\ reader'[r] = new /\ \A q \in Readers \ {r} : reader'[q] = reader[q]
        /\ reader' = [q \in Readers |-> reader'[q]]
    BY <1>0, <2>1 DEF CacheTypes, ReaderStates
  <2>7. ReaderOK(r)'
    BY <1>0, <2>1, <2>2, <2>4, <2>6 DEF ReaderOK, Holds, AtHome, Built, Served, Rest, ByRepos
  <2> QED BY <1>0, <2>1, <2>5, <2>6, <2>7, ServeFrame DEF CacheTypes
<1> QED BY <1>1, <1>2

\* What is stored at the current binding's address was built from it.
LEMMA StoreInv ==
  ASSUME CacheInv, NEW r \in Readers, Store(r)
  PROVE  CacheInv'
<1> DEFINE g == reader[r].got
<1> DEFINE k == reader[r].svc.addr
<1>0. CacheTypes /\ reader[r] \in ReaderStates /\ ReaderOK(r) /\ EntriesFresh
  BY DEF CacheInv, CacheTypes, ReadersOK
<1>1. /\ reader[r].at = "store" /\ reader' = [reader EXCEPT ![r].at = "done"]
      /\ UNCHANGED <<Rest, service>> /\ lock' = lock \ {r}
      /\ cache' = [a \in DOMAIN cache \cup {k} |-> IF a = k THEN g ELSE cache[a]]
  BY DEF Store, Step, Key
<1>2. /\ g \in Graphs /\ k \in Addresses \cup Slots \cup {0} /\ g.ws = reader[r].svc.ws
      /\ ~g.late => reader[r].svc.n = repos.n /\ settled[g.ws] <= g.batches
  BY <1>0, <1>1 DEF ReaderOK, Built, ReaderStates, Objects
<1>3. /\ reader'[r] = [at |-> "done", svc |-> reader[r].svc, home |-> reader[r].home,
                       base |-> reader[r].base, got |-> g]
      /\ \A q \in Readers \ {r} : reader'[q] = reader[q]
      /\ reader' = [q \in Readers |-> reader'[q]]
  BY <1>0, <1>1 DEF CacheTypes, ReaderStates
<1>4. reader' \in [Readers -> ReaderStates]
  <2>1. reader'[r] \in ReaderStates
    BY <1>0, <1>3 DEF ReaderStates
  <2> QED BY <1>0, <1>3, <2>1 DEF CacheTypes
<1>5. CacheTypes'
  <2>1. DOMAIN cache' \subseteq Addresses \cup Slots \cup {0}
    BY <1>0, <1>1, <1>2 DEF CacheTypes
  <2>2. \A a \in DOMAIN cache' : cache'[a] \in Graphs
    BY <1>0, <1>1, <1>2 DEF CacheTypes
  <2> QED BY <1>0, <1>1, <1>4, <2>1, <2>2 DEF Rest, CacheTypes, Edges
<1>6. BindingKnown' /\ Holds(service)'
  BY <1>1 DEF Rest, CacheInv, BindingKnown, Holds, ByRepos
<1>7. EntriesFresh'
  <2>1. Fresh(g) /\ (ByRepos /\ k = repos.addr => g.ws = repos.ws)
    BY <1>0, <1>2 DEF Fresh, ReaderOK, Holds
  <2>2. ASSUME NEW a \in DOMAIN cache'
        PROVE  \/ cache'[a] = g /\ a = k
               \/ a \in DOMAIN cache /\ cache'[a] = cache[a]
    BY <1>1
  <2> HIDE DEF g, k
  <2> QED BY <1>0, <1>1, <2>1, <2>2 DEF EntriesFresh, Fresh, Rest, ByRepos
<1>8. Served(r)'
  <2> SUFFICES ASSUME Steady(r)' PROVE Served(r)'
    BY DEF Served
  <2>1. /\ reader[r].home = repos /\ phase = "bound" /\ reader[r].base <= settled[repos.ws]
        /\ reader[r].svc.n = repos.n
    BY <1>0, <1>3 DEF Steady, ReaderOK, AtHome
  <2>2. g.ws = repos.ws
    BY <1>0, <1>2, <2>1 DEF ReaderOK, Holds
  <2>3. ~g.late => reader[r].base <= g.batches
    <3>1. settled[repos.ws] \in Nat /\ reader[r].base \in Nat /\ g.batches \in Nat
      BY <1>0, <1>2 DEF CacheTypes, Objects, ReaderStates, Graphs
    <3> QED BY <1>2, <2>1, <2>2, <3>1
  <2> QED BY <1>1, <1>3, <2>1, <2>2, <2>3 DEF Served, Own, Rest, ByRepos
<1>9. ReadersOK'
  <2> SUFFICES ASSUME NEW q \in Readers PROVE ReaderOK(q)'
    BY DEF ReadersOK
  <2>1. CASE q = r
    BY <1>0, <1>1, <1>3, <1>8, <2>1 DEF ReaderOK, Holds, AtHome, Built, Rest, ByRepos
  <2>2. CASE q # r
    BY <1>1, <1>3, <2>2 DEF Rest, CacheInv, ReadersOK, ReaderOK, Holds, AtHome, Built, Served,
       Steady, Own, ByRepos
  <2> QED BY <2>1, <2>2
<1> QED BY <1>5, <1>6, <1>7, <1>9 DEF CacheInv

\* A request that is over holds nothing.
LEMMA RespondInv ==
  ASSUME CacheInv, NEW r \in Readers, Respond(r)
  PROVE  CacheInv'
<1>0. CacheTypes /\ repos.n \in Nat /\ repos.n # 0 /\ (ByRepos => repos.addr # 0)
  BY DEF CacheInv, CacheTypes, BindingKnown, Objects
<1>1. /\ reader' = [reader EXCEPT ![r] = Away] /\ UNCHANGED <<Rest, service, cache, lock>>
  BY DEF Respond
<1>2. /\ Away \in ReaderStates /\ Away.at = "idle" /\ Away.home.n = 0
      /\ Away.svc.n = 0 /\ Away.svc.addr = 0
  BY DEF Away, Missing, Objects, Graphs, ReaderStates
<1>3. /\ reader'[r] = Away /\ \A q \in Readers \ {r} : reader'[q] = reader[q]
      /\ reader' = [q \in Readers |-> reader'[q]]
  BY <1>0, <1>1 DEF CacheTypes
<1>4. ReaderOK(r)'
  BY <1>0, <1>1, <1>2, <1>3 DEF ReaderOK, Holds, AtHome, Built, Served, Rest, ByRepos
<1> QED BY <1>0, <1>1, <1>2, <1>3, <1>4, ServeFrame DEF CacheTypes

\* An entry is dropped at any time.
LEMMA ExpireInv ==
  ASSUME CacheInv, NEW a \in DOMAIN cache, Expire(a)
  PROVE  CacheInv'
<1>1. /\ UNCHANGED <<Rest, service, lock, reader>>
      /\ DOMAIN cache' \subseteq DOMAIN cache
      /\ \A b \in DOMAIN cache' : cache'[b] = cache[b]
  BY DEF Expire, Restrict
<1>2. CacheTypes'
  BY <1>1 DEF Rest, CacheInv, CacheTypes, Edges
<1>3. BindingKnown' /\ Holds(service)' /\ EntriesFresh' /\ ReadersOK'
  BY <1>1 DEF Rest, CacheInv, BindingKnown, Holds, EntriesFresh, Fresh, ReadersOK, ReaderOK,
     AtHome, Built, Served, Steady, Own, ByRepos
<1> QED BY <1>2, <1>3 DEF CacheInv

\* Every step keeps the invariant.
LEMMA CacheStepInv == CacheInv /\ [CacheNext]_cacheVars => CacheInv'
<1> SUFFICES ASSUME CacheInv, [CacheNext]_cacheVars PROVE CacheInv'
  OBVIOUS
<1>1. ASSUME NEW w \in Studies, Activate(w) PROVE CacheInv'
  BY <1>1, SwitchInv DEF Activate
<1>2. CASE ClearCaches
  <2>1. active \in Studies
    BY DEF CacheInv, CacheTypes
  <2> QED BY <1>2, <2>1, SwitchInv DEF ClearCaches
<1>3. ASSUME NEW r \in Readers, Admitted(r) \/ Serve(r) PROVE CacheInv'
  BY <1>3, AdmittedInv, LookupInv, PutInv, TakeInv, CheckInv, ScanInv, StoreInv, RespondInv
     DEF Serve
<1>4. CASE UNCHANGED cacheVars
  <2>1. CacheTypes'
    BY <1>4 DEF cacheVars, CacheInv, CacheTypes, Edges
  <2>2. BindingKnown' /\ Holds(service)' /\ EntriesFresh' /\ ReadersOK'
    BY <1>4 DEF cacheVars, CacheInv, BindingKnown, Holds, EntriesFresh, Fresh, ReadersOK,
       ReaderOK, AtHome, Built, Served, Steady, Own, ByRepos
  <2> QED BY <2>1, <2>2 DEF CacheInv
<1> QED BY <1>1, <1>2, <1>3, <1>4, SaveRowsInv, InvalidateInv, RebindInv, CloseOldInv, ExpireInv
        DEF CacheNext

\* The invariant says what the requests are promised.
LEMMA CacheInvSound == CacheInv => CachesSound
<1> SUFFICES ASSUME CacheInv PROVE CachesSound
  OBVIOUS
<1>1. CacheTypeOK
  BY DEF CacheInv, CacheTypes, CacheTypeOK, ReaderStates, Range
<1>2. \A r \in Readers : reader[r].base \in Nat /\ reader[r].got.batches \in Nat
  BY DEF CacheInv, CacheTypes, ReaderStates, Graphs
<1>3. SteadySound /\ AddressHeld /\ FailureExplained
  BY <1>2 DEF CacheInv, ReadersOK, ReaderOK, Served, SteadySound, AddressHeld, FailureExplained
<1> QED BY <1>1, <1>3 DEF CachesSound

\* However jobs, switches, expiries and requests interleave: a request that
\* met none of them is served its own workspace with every batch of the jobs
\* that had ended, unless what it is served was stored after one, the caches
\* keyed by id(repos) never serve another workspace, and it does not fail
\* (api/app.py:592-648, api/routers/common.py:24-42 and the four caches).
THEOREM CachesSoundHolds == CacheSpec => []CachesSound
<1>1. CacheInit => CacheInv
  BY CacheInitInv
<1>2. CacheInv /\ [CacheNext]_cacheVars => CacheInv'
  BY CacheStepInv
<1>3. CacheInv => CachesSound
  BY CacheInvSound
<1> QED BY <1>1, <1>2, <1>3, PTL DEF CacheSpec
=============================================================================
