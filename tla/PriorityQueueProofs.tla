------------------------- MODULE PriorityQueueProofs -------------------------
(***************************************************************************)
(* Proofs about PriorityQueue, for every set of tasks, every number of     *)
(* workers and every assignment of types and priorities.                   *)
(***************************************************************************)
EXTENDS PriorityQueue, FiniteSetTheorems, TLAPS

USE QueueAssumption

\* A task whose enqueue has not pushed it yet is nowhere.
Unpushed == \A t \in Tasks : caller[t] \in {"idle", "spawn", "push"} =>
  t \notin heap /\ runs[t] = 0 /\ \A w \in Workers : worker[w] \in Busy => has[w] # t

\* A task that was popped and not yet examined has not been called.
PoppedUncalled == \A w \in Workers : worker[w] = "popped" => runs[has[w]] = 0

CallInv == TypeOK /\ CalledOnce /\ Unpushed /\ PoppedUncalled

\* The initial state has the declared types.
LEMMA InitType == Init => TypeOK
<1> SUFFICES ASSUME Init PROVE TypeOK
  OBVIOUS
<1>1. heap \subseteq Tasks /\ seq \in [Tasks -> Nat] /\ lastSeq \in Nat
      /\ queued \in [Kinds -> Int] /\ running \in [Kinds -> Int] /\ runs \in [Tasks -> Nat]
  BY DEF Init
<1>2. started \in BOOLEAN /\ stop \in BOOLEAN
  BY DEF Init
<1>3. /\ caller \in [Tasks -> Callers] /\ future \in [Tasks -> {"pending", "cancelled"} \cup Ends]
      /\ closing \in {"no", "notify", "done"} /\ worker \in [Workers -> Places]
      /\ has \in [Workers -> Tasks \cup {NoTask}]
      /\ \A w \in Workers : worker[w] \in Busy => has[w] \in Tasks
      /\ outcome \in [Workers -> {"none", "escaped"} \cup Ends]
      /\ \A w \in Workers : worker[w] \in {"ended", "settling"} => outcome[w] \in Ends
  BY DEF Init, Callers, Places, Busy
<1> QED BY <1>1, <1>2, <1>3 DEF TypeOK

\* Every step keeps the types.
LEMMA TypeStep == TypeOK /\ [Next]_vars => TypeOK'
<1> SUFFICES ASSUME TypeOK, [Next]_vars PROVE TypeOK'
  OBVIOUS
<1> USE DEF TypeOK, Callers, Ends, Places, Busy, CallerStep, WorkerStep, heapVars,
            stopVars, workerVars
<1>1. CASE UNCHANGED vars
  BY <1>1 DEF vars
<1>2. ASSUME NEW t \in Tasks, Enqueue(t) \/ Cancel(t)
      PROVE  TypeOK'
  <2>1. CASE EnsureStarted(t)
    BY <2>1 DEF EnsureStarted
  <2>2. CASE Spawned(t)
    BY <2>2 DEF Spawned
  <2>3. CASE Push(t)
    BY <2>3 DEF Push
  <2>4. CASE Notify(t)
    BY <2>4 DEF Notify
  <2>5. CASE Answer(t)
    BY <2>5 DEF Answer
  <2>6. CASE \E w \in Workers : Spawn(t, w)
    BY <2>6 DEF Spawn
  <2>7. CASE Cancel(t)
    BY <2>7 DEF Cancel
  <2> QED BY <1>2, <2>1, <2>2, <2>3, <2>4, <2>5, <2>6, <2>7 DEF Enqueue
<1>3. ASSUME NEW w \in Workers, WorkerLoop(w) \/ FuncEnd(w)
      PROVE  TypeOK'
  <2>1. CASE \E t \in Tasks : Pop(w, t)
    BY <2>1 DEF Pop
  <2>2. CASE Sleep(w) \/ Exit(w)
    BY <2>2 DEF Sleep, Exit
  <2>3. CASE CheckCancelled(w)
    BY <2>3 DEF CheckCancelled
  <2>4. CASE Drop(w)
    BY <2>4 DEF Drop
  <2>5. CASE FuncEnd(w) \/ CheckAgain(w)
    BY <2>5 DEF FuncEnd, CheckAgain
  <2>6. CASE Settle(w)
    <3>1. has[w] \in Tasks /\ outcome[w] \in Ends
      BY <2>6 DEF Settle
    <3>2. future' \in [Tasks -> {"pending", "cancelled"} \cup Ends]
      BY <2>6, <3>1 DEF Settle
    <3>3. /\ worker' \in [Workers -> Places]
          /\ \A v \in Workers : v # w => worker'[v] = worker[v] /\ outcome'[v] = outcome[v]
          /\ worker'[w] = "final"
      BY <2>6 DEF Settle
    <3>4. outcome' \in [Workers -> {"none", "escaped"} \cup Ends]
      BY <2>6 DEF Settle
    <3>5. UNCHANGED <<caller, heap, seq, lastSeq, queued, running, started, stop, closing,
                      has, runs>>
      BY <2>6 DEF Settle
    <3>6. \A v \in Workers : /\ worker'[v] \in Busy => has'[v] \in Tasks
                             /\ worker'[v] \in {"ended", "settling"} => outcome'[v] \in Ends
      BY <3>1, <3>3, <3>5
    <3>7. started' \in BOOLEAN /\ stop' \in BOOLEAN
      BY <3>5
    <3> QED BY <3>2, <3>3, <3>4, <3>5, <3>6, <3>7
  <2>7. CASE Finally(w)
    <3>1. has[w] \in Tasks /\ Kind[has[w]] \in Kinds
      BY <2>7 DEF Finally
    <3>2. running' \in [Kinds -> Int]
      BY <2>7, <3>1 DEF Finally
    <3>3. worker' \in [Workers -> Places] /\ \A v \in Workers : worker'[v] \in Busy => v # w
      BY <2>7 DEF Finally
    <3>4. /\ has' \in [Workers -> Tasks \cup {NoTask}]
          /\ outcome' \in [Workers -> {"none", "escaped"} \cup Ends]
      BY <2>7 DEF Finally
    <3>5. \A v \in Workers : worker'[v] \in Busy => has'[v] \in Tasks
      BY <2>7, <3>3 DEF Finally
    <3>6. \A v \in Workers : worker'[v] \in {"ended", "settling"} => outcome'[v] \in Ends
      BY <2>7, <3>3 DEF Finally
    <3>7. UNCHANGED <<caller, future, heap, seq, lastSeq, queued, started, stop, closing, runs>>
      BY <2>7 DEF Finally
    <3> QED BY <3>2, <3>3, <3>4, <3>5, <3>6, <3>7
  <2> QED BY <1>3, <2>1, <2>2, <2>3, <2>4, <2>5, <2>6, <2>7 DEF WorkerLoop
<1>4. CASE ShutdownStop
  BY <1>4 DEF ShutdownStop
<1>5. CASE ShutdownNotify
  <2>1. worker' \in [Workers -> Places] /\ \A w \in Workers : 
           (worker'[w] \in Busy \/ worker[w] \in Busy) => worker'[w] = worker[w]
    BY <1>5 DEF ShutdownNotify
  <2>2. UNCHANGED <<caller, future, heap, seq, lastSeq, queued, running, started, stop,
                    has, outcome, runs>> /\ closing' = "done"
    BY <1>5 DEF ShutdownNotify
  <2> QED BY <2>1, <2>2
<1> QED BY <1>1, <1>2, <1>3, <1>4, <1>5 DEF Next

-----------------------------------------------------------------------------
\* A caller's steps hold no task; a push is the first sight of its task.
LEMMA CallerCallInv ==
  ASSUME CallInv, TypeOK', NEW t \in Tasks, Enqueue(t) \/ Cancel(t)
  PROVE  CallInv'
<1> USE DEF CallInv, TypeOK, CalledOnce, Unpushed, PoppedUncalled, Busy, CallerStep,
            WorkerStep, heapVars, stopVars, workerVars
<1>1. CASE EnsureStarted(t)
  BY <1>1 DEF EnsureStarted
<1>2. CASE Spawned(t) \/ Answer(t) \/ Cancel(t)
  BY <1>2 DEF Spawned, Answer, Cancel
<1>3. CASE Push(t)
  BY <1>3 DEF Push
<1>4. CASE Notify(t)
  BY <1>4 DEF Notify
<1>5. CASE \E w \in Workers : Spawn(t, w)
  BY <1>5 DEF Spawn
<1> QED BY <1>1, <1>2, <1>3, <1>4, <1>5 DEF Enqueue

\* A pop moves its task from the heap to one worker; only a popped task is
\* called.
LEMMA WorkerCallInv ==
  ASSUME CallInv, TypeOK', NEW w \in Workers, WorkerLoop(w) \/ FuncEnd(w)
  PROVE  CallInv'
<1> USE DEF CallInv, TypeOK, CalledOnce, Unpushed, PoppedUncalled, Busy, WorkerStep,
            heapVars, stopVars, workerVars
<1>1. CASE \E t \in Tasks : Pop(w, t)
  BY <1>1 DEF Pop
<1>2. CASE Sleep(w) \/ Exit(w)
  BY <1>2 DEF Sleep, Exit
<1>3. CASE CheckCancelled(w)
  <2>1. has[w] \in Tasks /\ has' = has /\ heap' = heap /\ caller' = caller
    BY <1>3 DEF CheckCancelled
  <2>2. CASE WorkerStep(w, "popped", "dropping") /\ UNCHANGED runs
    BY <2>1, <2>2
  <2>3. CASE WorkerStep(w, "popped", "running") /\ runs' = [runs EXCEPT ![has[w]] = @ + 1]
    <3>1. runs[has[w]] = 0 /\ \A v \in Workers : v # w /\ worker[v] \in Busy => has[v] # has[w]
      BY <2>3
    <3>2. has[w] \notin heap /\ caller[has[w]] \notin {"idle", "spawn", "push"}
      BY <2>1, <2>3
    <3> QED BY <2>1, <2>3, <3>1, <3>2
  <2> QED BY <1>3, <2>2, <2>3 DEF CheckCancelled
<1>4. CASE Drop(w) \/ FuncEnd(w) \/ CheckAgain(w)
  BY <1>4 DEF Drop, FuncEnd, CheckAgain
<1>5. CASE Settle(w)
  BY <1>5 DEF Settle
<1>6. CASE Finally(w)
  BY <1>6 DEF Finally
<1> QED BY <1>1, <1>2, <1>3, <1>4, <1>5, <1>6 DEF WorkerLoop

\* The invariant behind CalledOnce is inductive.
THEOREM CallInvariant == Spec => []CallInv
<1>1. Init => CallInv
  BY InitType DEF Init, CallInv, CalledOnce, Unpushed, PoppedUncalled, Busy
<1>2. CallInv /\ [Next]_vars => CallInv'
  <2> SUFFICES ASSUME CallInv, [Next]_vars PROVE CallInv'
    OBVIOUS
  <2>1. TypeOK'
    BY TypeStep DEF CallInv
  <2>2. CASE UNCHANGED vars
    BY <2>2, <2>1 DEF vars, heapVars, workerVars, CallInv, CalledOnce, Unpushed,
                      PoppedUncalled
  <2>3. ASSUME NEW t \in Tasks, Enqueue(t) \/ Cancel(t)
        PROVE  CallInv'
    BY <2>1, <2>3, CallerCallInv
  <2>4. ASSUME NEW w \in Workers, WorkerLoop(w) \/ FuncEnd(w)
        PROVE  CallInv'
    BY <2>1, <2>4, WorkerCallInv
  <2>5. CASE ShutdownStop \/ ShutdownNotify
    BY <2>1, <2>5 DEF ShutdownStop, ShutdownNotify, heapVars, workerVars, CallInv,
                      CalledOnce, Unpushed, PoppedUncalled, Busy
  <2> QED BY <2>2, <2>3, <2>4, <2>5 DEF Next
<1> QED BY <1>1, <1>2, PTL DEF Spec

\* However many workers and tasks, and whatever is cancelled or shut down, a
\* task is held by at most one worker and its func is called at most once.
THEOREM CalledOnceHolds == Spec => []CalledOnce
<1>1. CallInv => CalledOnce
  BY DEF CallInv
<1> QED BY <1>1, CallInvariant, PTL

-----------------------------------------------------------------------------
Notifying == {t \in Tasks : caller[t] = "notify"}
Looking   == {w \in Workers : worker[w] \in {"none", "top", "woken"}}
Sleepers  == {w \in Workers : worker[w] = "sleeping"}

\* While a worker sleeps, every task in the heap has a notify under way or a
\* worker about to look; of a stopped queue only shutdown's notify_all wakes it.
Covered ==
  /\ ~stop
  /\ Cardinality(heap) <= Cardinality(Notifying) + Cardinality(Looking)

WakeInv ==
  /\ TypeOK
  /\ IsFiniteSet(heap) /\ IsFiniteSet(Notifying)
  /\ Sleepers # {} => closing = "notify" \/ Covered

\* The workers that look at the heap are finitely many, now and after a step.
LEMMA LookingFinite == IsFiniteSet(Looking) /\ IsFiniteSet(Looking')
<1>1. Looking \subseteq Workers /\ Looking' \subseteq Workers
  BY DEF Looking
<1> QED BY <1>1, FS_Subset

\* A step that touches neither the heap nor a notify keeps the count if it
\* takes no worker from the heap, or if it leaves nobody asleep to be missed.
LEMMA QuietStep ==
  ASSUME WakeInv, TypeOK', heap' = heap, Notifying' = Notifying,
         Sleepers' # {} => \/ closing' = "notify"
                           \/ /\ Sleepers # {} /\ closing' = closing /\ (stop' => stop)
                              /\ Looking \subseteq Looking'
  PROVE  WakeInv'
<1>1. ASSUME Looking \subseteq Looking'
      PROVE  Cardinality(Looking) <= Cardinality(Looking')
  BY <1>1, LookingFinite, FS_Subset
<1>2. /\ Cardinality(Looking) \in Nat /\ Cardinality(Looking') \in Nat
      /\ Cardinality(heap) \in Nat /\ Cardinality(Notifying) \in Nat
  BY LookingFinite, FS_CardinalityType DEF WakeInv
<1>3. stop \in BOOLEAN /\ stop' \in BOOLEAN
  BY DEF WakeInv, TypeOK
<1> QED BY <1>1, <1>2, <1>3 DEF WakeInv, Covered

\* A push adds a task and a notify.
LEMMA PushWakes ==
  ASSUME WakeInv, TypeOK', NEW t \in Tasks, Push(t)
  PROVE  WakeInv'
<1>1. Notifying' = Notifying \cup {t} /\ t \notin Notifying
  BY DEF WakeInv, TypeOK, Push, CallerStep, Notifying
<1>2. /\ heap' = heap \cup {t} /\ Looking' = Looking /\ Sleepers' = Sleepers
      /\ closing' = closing /\ stop' = stop
  BY DEF Push, Looking, Sleepers, workerVars, stopVars
<1>3. /\ IsFiniteSet(Notifying') /\ Cardinality(Notifying') = Cardinality(Notifying) + 1
      /\ IsFiniteSet(heap') /\ Cardinality(heap') <= Cardinality(heap) + 1
  <2>1. IsFiniteSet(heap) /\ IsFiniteSet(Notifying) /\ Cardinality(heap) \in Nat
    BY FS_CardinalityType DEF WakeInv
  <2>2. IsFiniteSet(Notifying') /\ Cardinality(Notifying') = Cardinality(Notifying) + 1
    BY <1>1, <2>1, FS_AddElement
  <2>3. /\ IsFiniteSet(heap')
        /\ Cardinality(heap') = IF t \in heap THEN Cardinality(heap) ELSE Cardinality(heap) + 1
    BY <1>2, <2>1, FS_AddElement
  <2> QED BY <2>1, <2>2, <2>3
<1>4. /\ Cardinality(heap) \in Nat /\ Cardinality(heap') \in Nat
      /\ Cardinality(Notifying) \in Nat /\ Cardinality(Looking) \in Nat
  BY <1>3, LookingFinite, FS_CardinalityType DEF WakeInv
<1> QED BY <1>2, <1>3, <1>4 DEF WakeInv, Covered

\* A notify becomes a worker about to look, unless nobody sleeps.
LEMMA NotifyWakes ==
  ASSUME WakeInv, TypeOK', NEW t \in Tasks, Notify(t)
  PROVE  WakeInv'
<1>1. /\ Notifying' = Notifying \ {t} /\ t \in Notifying
      /\ heap' = heap /\ closing' = closing /\ stop' = stop
  BY DEF WakeInv, TypeOK, Notify, CallerStep, Notifying, heapVars, stopVars
<1>2. IsFiniteSet(Notifying') /\ Cardinality(Notifying') = Cardinality(Notifying) - 1
  BY <1>1, FS_RemoveElement DEF WakeInv
<1>3. /\ Cardinality(heap) \in Nat /\ Cardinality(Notifying) \in Nat
      /\ Cardinality(Looking) \in Nat
  BY LookingFinite, FS_CardinalityType DEF WakeInv
<1>4. CASE \E w \in Workers : WorkerStep(w, "sleeping", "woken")
  <2>1. PICK w \in Workers : WorkerStep(w, "sleeping", "woken")
    BY <1>4
  <2>2. Looking' = Looking \cup {w} /\ w \notin Looking /\ w \in Sleepers
    BY <2>1 DEF WakeInv, TypeOK, WorkerStep, Looking, Sleepers
  <2>3. Cardinality(Looking') = Cardinality(Looking) + 1
    BY <2>2, LookingFinite, FS_AddElement
  <2> QED BY <1>1, <1>2, <1>3, <2>2, <2>3 DEF WakeInv, Covered
<1>5. CASE (\A w \in Workers : worker[w] # "sleeping") /\ UNCHANGED worker
  <2>1. Sleepers' = {}
    BY <1>5 DEF Sleepers
  <2> QED BY <1>1, <1>2, <2>1 DEF WakeInv
<1> QED BY <1>4, <1>5 DEF Notify

\* A worker that leaves the heap takes a task with it.
LEMMA PopWakes ==
  ASSUME WakeInv, TypeOK', NEW w \in Workers, NEW t \in Tasks, Pop(w, t)
  PROVE  WakeInv'
<1>1. /\ Looking' = Looking \ {w} /\ w \in Looking /\ Sleepers' = Sleepers
      /\ heap' = heap \ {t} /\ t \in heap /\ Notifying' = Notifying
      /\ closing' = closing /\ stop' = stop
  BY DEF WakeInv, TypeOK, Pop, AtHead, Looking, Sleepers, Notifying, stopVars
<1>2. /\ Cardinality(Looking') = Cardinality(Looking) - 1
      /\ IsFiniteSet(heap') /\ Cardinality(heap') = Cardinality(heap) - 1
  BY <1>1, LookingFinite, FS_RemoveElement DEF WakeInv
<1>3. /\ Cardinality(heap) \in Nat /\ Cardinality(Notifying) \in Nat
      /\ Cardinality(Looking) \in Nat
  BY LookingFinite, FS_CardinalityType DEF WakeInv
<1> QED BY <1>1, <1>2, <1>3 DEF WakeInv, Covered

\* A worker falls asleep only over an empty heap.
LEMMA SleepWakes ==
  ASSUME WakeInv, TypeOK', NEW w \in Workers, Sleep(w)
  PROVE  WakeInv'
<1>1. heap = {} /\ heap' = heap /\ Notifying' = Notifying /\ ~stop /\ stop' = stop
  BY DEF Sleep, Notifying, heapVars, stopVars
<1>2. Cardinality(heap') = 0
  BY <1>1, FS_EmptySet
<1>3. Cardinality(Notifying') \in Nat /\ Cardinality(Looking') \in Nat
  BY <1>1, LookingFinite, FS_CardinalityType DEF WakeInv
<1> QED BY <1>1, <1>2, <1>3 DEF WakeInv, Covered

\* Every other step is quiet.
LEMMA WakeStep ==
  ASSUME WakeInv, TypeOK', [Next]_vars
  PROVE  WakeInv'
<1> USE DEF WakeInv, TypeOK, Looking, Sleepers, Notifying, CallerStep, WorkerStep,
            heapVars, stopVars, workerVars
<1>1. CASE UNCHANGED vars
  BY <1>1, QuietStep DEF vars
<1>2. ASSUME NEW t \in Tasks, Enqueue(t) \/ Cancel(t)
      PROVE  WakeInv'
  <2>1. CASE EnsureStarted(t)
    BY <2>1, QuietStep DEF EnsureStarted
  <2>2. CASE Spawned(t) \/ Answer(t) \/ Cancel(t)
    BY <2>2, QuietStep DEF Spawned, Answer, Cancel
  <2>3. CASE \E w \in Workers : Spawn(t, w)
    BY <2>3, QuietStep DEF Spawn
  <2> QED BY <1>2, <2>1, <2>2, <2>3, PushWakes, NotifyWakes DEF Enqueue
<1>3. ASSUME NEW w \in Workers, WorkerLoop(w) \/ FuncEnd(w)
      PROVE  WakeInv'
  <2>1. CASE Exit(w)
    <3>1. heap' = heap /\ Notifying' = Notifying /\ closing' = closing /\ stop
      BY <2>1 DEF Exit
    <3>2. Sleepers' # {} => Sleepers # {}
      BY <2>1 DEF Exit
    <3>3. Sleepers' # {} => closing' = "notify"
      BY <3>1, <3>2 DEF Covered
    <3> QED BY <3>1, <3>3, QuietStep
  <2>2. CASE CheckCancelled(w) \/ Drop(w) \/ FuncEnd(w) \/ CheckAgain(w)
    BY <2>2, QuietStep DEF CheckCancelled, Drop, FuncEnd, CheckAgain
  <2>3. CASE Settle(w)
    BY <2>3, QuietStep DEF Settle
  <2>4. CASE Finally(w)
    BY <2>4, QuietStep DEF Finally
  <2> QED BY <1>3, <2>1, <2>2, <2>3, <2>4, PopWakes, SleepWakes DEF WorkerLoop
<1>4. CASE ShutdownStop
  BY <1>4, QuietStep DEF ShutdownStop
<1>5. CASE ShutdownNotify
  <2>1. Sleepers' = {} /\ heap' = heap /\ Notifying' = Notifying
    BY <1>5 DEF ShutdownNotify
  <2> QED BY <2>1, QuietStep
<1> QED BY <1>1, <1>2, <1>3, <1>4, <1>5 DEF Next

\* However many workers and tasks, cancellations, dead workers and shutdowns
\* included, no wake-up is lost.
THEOREM NoLostWakeupHolds == Spec => []NoLostWakeup
<1>1. Init => WakeInv
  <2> SUFFICES ASSUME Init PROVE WakeInv
    OBVIOUS
  <2>1. heap = {} /\ Notifying = {} /\ Sleepers = {}
    BY DEF Init, Notifying, Sleepers
  <2> QED BY <2>1, InitType, FS_EmptySet DEF WakeInv
<1>2. WakeInv /\ [Next]_vars => WakeInv'
  BY TypeStep, WakeStep DEF WakeInv
<1>3. WakeInv => NoLostWakeup
  <2> SUFFICES ASSUME WakeInv, heap # {}, Sleepers # {}, closing # "notify"
               PROVE  Notifying # {} \/ Looking # {}
    BY DEF NoLostWakeup, Sleepers, Notifying, Looking
  <2>1. Cardinality(heap) \in Nat /\ Cardinality(heap) # 0
    BY FS_CardinalityType, FS_EmptySet DEF WakeInv
  <2>2. Cardinality({}) = 0
    BY FS_EmptySet
  <2> QED BY <2>1, <2>2 DEF WakeInv, Covered
<1> QED BY <1>1, <1>2, <1>3, PTL DEF Spec

-----------------------------------------------------------------------------
\* Only a cancelled task is dropped, and a cancellation is never undone.
Uncancelled == \A t \in Tasks : future[t] # "cancelled"

CountInv ==
  /\ CallInv /\ IsFiniteSet(heap)
  /\ \A w \in Workers : worker[w] = "dropping" => future[has[w]] = "cancelled"
  /\ CountsMatch

\* What is counted is finite.
LEMMA CountedFinite ==
  ASSUME CountInv, NEW k
  PROVE  IsFiniteSet(Waiting(k)) /\ IsFiniteSet(Holding(k)) /\ IsFiniteSet(Holding(k)')
<1>1. Waiting(k) \subseteq heap /\ Holding(k) \subseteq Workers /\ Holding(k)' \subseteq Workers
  BY DEF Waiting, Holding
<1> QED BY <1>1, FS_Subset DEF CountInv

\* A step that moves no task between the heap, a worker and the counters
\* keeps the counts.
LEMMA StillCounted ==
  ASSUME CountInv, CallInv', heap' = heap, queued' = queued, running' = running,
         Uncancelled' => Uncancelled,
         \A k \in Kinds : Holding(k)' = Holding(k),
         \A w \in Workers : worker'[w] = "dropping" => future'[has'[w]] = "cancelled"
  PROVE  CountInv'
<1>1. \A k \in Kinds : Waiting(k)' = Waiting(k)
  BY DEF Waiting
<1>2. CountsMatch'
  BY <1>1 DEF CountInv, CountsMatch, Uncancelled
<1> QED BY <1>2 DEF CountInv

\* A push is counted once, for its task was not in the heap.
LEMMA PushCounted ==
  ASSUME CountInv, CallInv', NEW t \in Tasks, Push(t)
  PROVE  CountInv'
<1>1. /\ heap' = heap \cup {t} /\ t \notin heap /\ future' = future /\ running' = running
      /\ worker' = worker /\ has' = has /\ queued' = [queued EXCEPT ![Kind[t]] = @ + 1]
  BY DEF Push, CallerStep, CountInv, CallInv, Unpushed, workerVars
<1>2. IsFiniteSet(heap')
  BY <1>1, FS_AddElement DEF CountInv
<1>3. ASSUME NEW k \in Kinds, Uncancelled
      PROVE  queued'[k] = Cardinality(Waiting(k)') /\ running'[k] = Cardinality(Holding(k)')
  <2>1. queued[k] = Cardinality(Waiting(k)) /\ running[k] = Cardinality(Holding(k))
    BY <1>3 DEF CountInv, CountsMatch, Uncancelled
  <2>2. Holding(k)' = Holding(k)
    BY <1>1 DEF Holding
  <2>3. queued \in [Kinds -> Int]
    BY DEF CountInv, CallInv, TypeOK
  <2>4. CASE Kind[t] = k
    <3>1. Waiting(k)' = Waiting(k) \cup {t} /\ t \notin Waiting(k)
      BY <1>1, <2>4 DEF Waiting
    <3>2. Cardinality(Waiting(k)') = Cardinality(Waiting(k)) + 1
      BY <3>1, CountedFinite, FS_AddElement
    <3> QED BY <1>1, <2>1, <2>2, <2>3, <2>4, <3>2
  <2>5. CASE Kind[t] # k
    <3>1. Waiting(k)' = Waiting(k)
      BY <1>1, <2>5 DEF Waiting
    <3> QED BY <1>1, <2>1, <2>2, <2>3, <2>5, <3>1
  <2> QED BY <2>4, <2>5
<1>4. CountsMatch'
  BY <1>1, <1>3 DEF CountsMatch, Uncancelled
<1> QED BY <1>1, <1>2, <1>4 DEF CountInv

\* A pop moves one count from the heap to the worker, which held nothing.
LEMMA PopCounted ==
  ASSUME CountInv, CallInv', NEW w \in Workers, NEW t \in Tasks, Pop(w, t)
  PROVE  CountInv'
<1> DEFINE q == Kind[t]
<1>1. /\ heap' = heap \ {t} /\ t \in heap /\ future' = future
      /\ queued' = [queued EXCEPT ![q] = @ - 1] /\ running' = [running EXCEPT ![q] = @ + 1]
      /\ worker' = [worker EXCEPT ![w] = "popped"] /\ has' = [has EXCEPT ![w] = t]
      /\ worker[w] \notin Busy
  BY DEF Pop, AtHead, Busy
<1>2. /\ worker \in [Workers -> Places] /\ has \in [Workers -> Tasks \cup {NoTask}]
      /\ queued \in [Kinds -> Int] /\ running \in [Kinds -> Int] /\ q \in Kinds
  BY DEF CountInv, CallInv, TypeOK
<1>3. IsFiniteSet(heap')
  BY <1>1, FS_RemoveElement DEF CountInv
<1>4. ASSUME NEW k \in Kinds, Uncancelled
      PROVE  queued'[k] = Cardinality(Waiting(k)') /\ running'[k] = Cardinality(Holding(k)')
  <2>1. queued[k] = Cardinality(Waiting(k)) /\ running[k] = Cardinality(Holding(k))
    BY <1>4 DEF CountInv, CountsMatch, Uncancelled
  <2>2. CASE q = k
    <3>1. Waiting(k)' = Waiting(k) \ {t} /\ t \in Waiting(k)
      BY <1>1, <2>2 DEF Waiting
    <3>2. Holding(k)' = Holding(k) \cup {w} /\ w \notin Holding(k)
      BY <1>1, <1>2, <2>2 DEF Holding, Busy
    <3>3. /\ Cardinality(Waiting(k)') = Cardinality(Waiting(k)) - 1
          /\ Cardinality(Holding(k)') = Cardinality(Holding(k)) + 1
      BY <3>1, <3>2, CountedFinite, FS_RemoveElement, FS_AddElement
    <3>4. queued'[k] = queued[k] - 1 /\ running'[k] = running[k] + 1
      BY <1>1, <1>2, <2>2
    <3> QED BY <2>1, <3>3, <3>4
  <2>3. CASE q # k
    <3>1. Waiting(k)' = Waiting(k) /\ Holding(k)' = Holding(k)
      BY <1>1, <1>2, <2>3 DEF Waiting, Holding
    <3>2. queued'[k] = queued[k] /\ running'[k] = running[k]
      BY <1>1, <1>2, <2>3
    <3> QED BY <2>1, <3>1, <3>2
  <2> QED BY <2>2, <2>3
<1>5. CountsMatch'
  BY <1>1, <1>4 DEF CountsMatch, Uncancelled
<1>6. \A v \in Workers : worker'[v] = "dropping" => future'[has'[v]] = "cancelled"
  BY <1>1, <1>2 DEF CountInv
<1> QED BY <1>3, <1>5, <1>6 DEF CountInv

\* The finally block gives back the count of the worker's task.
LEMMA FinallyCounted ==
  ASSUME CountInv, CallInv', NEW w \in Workers, Finally(w)
  PROVE  CountInv'
<1> DEFINE q == Kind[has[w]]
<1>1. /\ heap' = heap /\ future' = future /\ queued' = queued
      /\ running' = [running EXCEPT ![q] = @ - 1]
      /\ worker' = [worker EXCEPT ![w] = IF outcome[w] = "escaped" THEN "dead" ELSE "top"]
      /\ has' = [has EXCEPT ![w] = NoTask] /\ worker[w] = "final"
  BY DEF Finally, heapVars
<1>2. /\ worker \in [Workers -> Places] /\ has \in [Workers -> Tasks \cup {NoTask}]
      /\ running \in [Kinds -> Int] /\ has[w] \in Tasks /\ q \in Kinds
  BY <1>1 DEF CountInv, CallInv, TypeOK, Busy
<1>3. worker'[w] \notin Busy /\ \A v \in Workers : v # w => worker'[v] = worker[v] /\ has'[v] = has[v]
  BY <1>1, <1>2 DEF Busy
<1>4. ASSUME NEW k \in Kinds, Uncancelled
      PROVE  queued'[k] = Cardinality(Waiting(k)') /\ running'[k] = Cardinality(Holding(k)')
  <2>1. queued[k] = Cardinality(Waiting(k)) /\ running[k] = Cardinality(Holding(k))
    BY <1>4 DEF CountInv, CountsMatch, Uncancelled
  <2>2. Waiting(k)' = Waiting(k)
    BY <1>1 DEF Waiting
  <2>3. CASE q = k
    <3>1. Holding(k)' = Holding(k) \ {w} /\ w \in Holding(k)
      BY <1>1, <1>3, <2>3 DEF Holding, Busy
    <3>2. Cardinality(Holding(k)') = Cardinality(Holding(k)) - 1
      BY <3>1, CountedFinite, FS_RemoveElement
    <3>3. running'[k] = running[k] - 1 /\ queued'[k] = queued[k]
      BY <1>1, <1>2, <2>3
    <3> QED BY <2>1, <2>2, <3>2, <3>3
  <2>4. CASE q # k
    <3>1. Holding(k)' = Holding(k)
      BY <1>3, <2>4 DEF Holding
    <3>2. running'[k] = running[k] /\ queued'[k] = queued[k]
      BY <1>1, <1>2, <2>4
    <3> QED BY <2>1, <2>2, <3>1, <3>2
  <2> QED BY <2>3, <2>4
<1>5. CountsMatch'
  BY <1>1, <1>4 DEF CountsMatch, Uncancelled
<1>6. \A v \in Workers : worker'[v] = "dropping" => future'[has'[v]] = "cancelled"
  BY <1>1, <1>3 DEF CountInv, Busy
<1> QED BY <1>1, <1>5, <1>6 DEF CountInv

\* Every other step leaves the counts alone, or drops a cancelled task.
LEMMA CountStep ==
  ASSUME CountInv, CallInv', [Next]_vars
  PROVE  CountInv'
<1> USE DEF Busy, CallerStep, WorkerStep, heapVars, stopVars, workerVars, Uncancelled
<1>0. /\ worker \in [Workers -> Places] /\ has \in [Workers -> Tasks \cup {NoTask}]
      /\ future \in [Tasks -> {"pending", "cancelled"} \cup Ends]
      /\ \A v \in Workers : worker[v] \in Busy => has[v] \in Tasks
      /\ \A v \in Workers : worker[v] \in {"ended", "settling"} => outcome[v] \in Ends
      /\ \A v \in Workers : worker[v] = "dropping" => future[has[v]] = "cancelled"
  BY DEF CountInv, CallInv, TypeOK
<1>1. CASE UNCHANGED vars
  BY <1>0, <1>1, StillCounted DEF vars, Holding
<1>2. ASSUME NEW t \in Tasks, Enqueue(t) \/ Cancel(t)
      PROVE  CountInv'
  <2>1. CASE EnsureStarted(t) \/ Spawned(t) \/ Answer(t)
    BY <1>0, <2>1, StillCounted DEF EnsureStarted, Spawned, Answer, Holding
  <2>2. CASE Notify(t)
    BY <1>0, <2>2, StillCounted DEF Notify, Holding
  <2>3. CASE \E w \in Workers : Spawn(t, w)
    BY <1>0, <2>3, StillCounted DEF Spawn, Holding
  <2>4. CASE Cancel(t)
    BY <1>0, <2>4, StillCounted DEF Cancel, Holding
  <2> QED BY <1>2, <2>1, <2>2, <2>3, <2>4, PushCounted DEF Enqueue
<1>3. ASSUME NEW w \in Workers, WorkerLoop(w) \/ FuncEnd(w)
      PROVE  CountInv'
  <2>1. CASE Sleep(w) \/ Exit(w)
    BY <1>0, <2>1, StillCounted DEF Sleep, Exit, Holding
  <2>2. CASE CheckCancelled(w) \/ FuncEnd(w) \/ CheckAgain(w)
    BY <1>0, <2>2, StillCounted DEF CheckCancelled, FuncEnd, CheckAgain, Holding
  <2>3. CASE Drop(w)
    <3>1. has[w] \in Tasks /\ future[has[w]] = "cancelled" /\ future' = future /\ heap' = heap
      BY <1>0, <2>3 DEF Drop
    <3>2. CountsMatch'
      BY <3>1 DEF CountsMatch
    <3>3. \A v \in Workers : worker'[v] = "dropping" => future'[has'[v]] = "cancelled"
      BY <1>0, <2>3 DEF Drop
    <3> QED BY <3>1, <3>2, <3>3 DEF CountInv
  <2>4. CASE Settle(w)
    <3>1. /\ \A v \in Workers : v # w => worker'[v] = worker[v]
          /\ worker[w] = "settling" /\ worker'[w] = "final" /\ has' = has /\ heap' = heap
          /\ queued' = queued /\ running' = running
      BY <1>0, <2>4 DEF Settle
    <3>2. \A t \in Tasks : future[t] = "cancelled" => future'[t] = "cancelled"
      BY <1>0, <2>4 DEF Settle, Ends
    <3>3. \A v \in Workers : worker'[v] = "dropping" => future'[has'[v]] = "cancelled"
      BY <1>0, <3>1, <3>2
    <3>4. \A k \in Kinds : Holding(k)' = Holding(k)
      BY <3>1 DEF Holding
    <3>5. Uncancelled' => Uncancelled
      BY <3>2 DEF Uncancelled
    <3> QED BY <3>1, <3>3, <3>4, <3>5, StillCounted
  <2> QED BY <1>3, <2>1, <2>2, <2>3, <2>4, PopCounted, FinallyCounted DEF WorkerLoop
<1>4. CASE ShutdownStop
  BY <1>0, <1>4, StillCounted DEF ShutdownStop, Holding
<1>5. CASE ShutdownNotify
  <2>1. \A v \in Workers : \/ worker'[v] = worker[v]
                           \/ worker[v] = "sleeping" /\ worker'[v] = "woken"
    BY <1>5, <1>0 DEF ShutdownNotify
  <2>2. /\ has' = has /\ future' = future /\ heap' = heap /\ queued' = queued
        /\ running' = running
    BY <1>5 DEF ShutdownNotify
  <2>3. \A k \in Kinds : Holding(k)' = Holding(k)
    BY <2>1, <2>2 DEF Holding
  <2> QED BY <1>0, <2>1, <2>2, <2>3, StillCounted
<1> QED BY <1>1, <1>2, <1>3, <1>4, <1>5 DEF Next

\* While no Future has been cancelled, the counters of queue_state are exact
\* for every type, whatever func raises and whichever workers run.
THEOREM CountsMatchHolds == Spec => []CountsMatch
<1>1. ASSUME Init
      PROVE  CallInv => CountInv
  <2>1. heap = {} /\ \A w \in Workers : worker[w] = "none"
    BY <1>1 DEF Init
  <2>2. \A k \in Kinds : Waiting(k) = {} /\ Holding(k) = {} /\ queued[k] = 0 /\ running[k] = 0
    BY <1>1, <2>1 DEF Init, Waiting, Holding, Busy
  <2>3. IsFiniteSet({}) /\ Cardinality({}) = 0
    BY FS_EmptySet
  <2> QED BY <2>1, <2>2, <2>3 DEF CountInv, CountsMatch
<1>2. CountInv /\ CallInv' /\ [Next]_vars => CountInv'
  BY CountStep
<1>3. CountInv => CountsMatch
  BY DEF CountInv
<1> QED BY <1>1, <1>2, <1>3, CallInvariant, PTL DEF Spec
=============================================================================
