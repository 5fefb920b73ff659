-------------------------- MODULE JobManagerProofs --------------------------
(***************************************************************************)
(* Machine-checked proofs about JobManager, for any set of jobs, any number *)
(* of worker threads, force-kills and pools, and any request mix.           *)
(***************************************************************************)
EXTENDS JobManager, TLAPS

-----------------------------------------------------------------------------
(* The inductive invariant.                                                *)

\* submit() and the work item it creates; a job is visible once registered.
SubmitInv == \A j \in Jobs :
  /\ (sub[j] = "idle") <=> (status[j] = "none")
  /\ (sub[j] = "returned") <=> (task[j] # "none")

\* The watchdog and kill_stuck write the status of registered jobs only, and
\* rows only of jobs whose status they have written.
ForcerInv ==
  /\ dog.at = "mark" => dog.job \in Jobs /\ status[dog.job] # "none"
  /\ dog.at \in {"build", "save"} => dog.job \in Jobs /\ forced[dog.job]
  /\ \A k \in Killers :
       /\ kill[k].at = "mark" => /\ kill[k].job \in Jobs
                                 /\ status[kill[k].job] # "none"
                                 /\ kill[k].snap \in {"failed", "cancelled"}
       /\ \A j \in kill[k].killed : forced[j]
       /\ kill[k].at = "save" => kill[k].job \in Jobs /\ forced[kill[k].job]

Finishing == {"final", "finalBuilt", "done"}

\* Where the thread of a job nobody force-terminated is, against the job.
ThreadInv == \A j \in Jobs : ~forced[j] =>
  /\ task[j] \in {"none", "queued", "dropped", "claimed"}
       => status[j] \in {"none", "pending"}
  /\ task[j] \in {"marked", "built", "working", "ended", "checked", "unpaused"} \cup Willing
       => status[j] = "running"
  /\ task[j] = "setResult" => status[j] = "succeeded"
  /\ task[j] \in Finishing => /\ status[j] \in Terminal \cup {"paused", "pending"}
                              /\ result[j] <=> (status[j] = "succeeded")
  /\ task[j] \notin Finishing => ~result[j]

\* The rows in flight and the row saved at the end: what a tag request has
\* built is either stale, and then of a job that was live, or up to date.
RowInv == \A j \in Jobs : ~forced[j] /\ ~resumed[j] =>
  /\ task[j] = "finalBuilt" => snap[j] = status[j]
  /\ task[j] = "done" /\ j \notin lost =>
       IF j \in restamped THEN row[j] \in Live ELSE row[j] = status[j]
  /\ task[j] # "done" => j \notin restamped
  /\ \A t \in Taggers : tag[t].job = j => /\ status[j] # "none"
                                          /\ tag[t].snap \in Live \cup {status[j]}

\* A timely request is still on record when the worker looks for it.
RequestInv == \A j \in Jobs : askedInTime[j] /\ ~forced[j] =>
  /\ task[j] \in BeforeEnd \cup {"ended", "checked"} => cancelReq[j] \/ pauseReq[j]
  /\ task[j] = "unpaused" => cancelReq[j]
  /\ task[j] \notin {"willSucceed", "willFail", "setResult"}
  /\ status[j] \notin {"succeeded", "failed"}

IInv == TypeOK /\ SubmitInv /\ ForcerInv /\ ThreadInv /\ RowInv /\ RequestInv

-----------------------------------------------------------------------------
(* Type correctness.                                                       *)

\* The literals the actions write are declared values.
LEMMA Members ==
  /\ "none" \in Status /\ "paused" \in Status /\ "pending" \in Status
  /\ "running" \in Status /\ "succeeded" \in Status /\ "failed" \in Status
  /\ "cancelled" \in Status
  /\ "idle" \in Submitting /\ "none" \in Tasks
  /\ "registered" \in Submitting /\ "built" \in Submitting /\ "saved" \in Submitting
  /\ "returned" \in Submitting /\ "raised" \in Submitting
  /\ "queued" \in Tasks /\ "claimed" \in Tasks /\ "marked" \in Tasks
  /\ "built" \in Tasks /\ "working" \in Tasks /\ "ended" \in Tasks
  /\ "checked" \in Tasks /\ "unpaused" \in Tasks /\ "willPause" \in Tasks
  /\ "willCancel" \in Tasks /\ "willSucceed" \in Tasks /\ "willFail" \in Tasks
  /\ "setResult" \in Tasks /\ "final" \in Tasks /\ "finalBuilt" \in Tasks
  /\ "done" \in Tasks /\ "dropped" \in Tasks
BY DEF Status, Live, Terminal, Submitting, Tasks, BeforeEnd, Epilogue, Willing

\* The initial state has the declared types.
LEMMA InitType == Init => TypeOK
<1> SUFFICES ASSUME Init PROVE TypeOK
  OBVIOUS
<1> USE WorkersAssumption, Members DEF Init, Gens
<1>1. JobTypeOK
  BY DEF JobTypeOK
<1>2. ThreadTypeOK
  BY DEF ThreadTypeOK
<1>3. PoolTypeOK
  BY DEF PoolTypeOK
<1>4. ForcerTypeOK
  <2>1. dog \in DogState /\ dog.at = "idle"
    BY DEF DogState
  <2>2. kill \in [Killers -> KillState] /\ \A k \in Killers : kill[k].at = "idle"
    BY DEF KillState
  <2>3. kills \in 0 .. MaxKills
    OBVIOUS
  <2>4. stopped \in BOOLEAN /\ lock = Nobody
    OBVIOUS
  <2> QED
    BY <2>1, <2>2, <2>3, <2>4 DEF ForcerTypeOK
<1>5. TagTypeOK
  BY DEF TagTypeOK
<1> QED
  BY <1>1, <1>2, <1>3, <1>4, <1>5 DEF TypeOK

\* Every step of the registry keeps the types.
LEMMA TypeStep == TypeOK /\ [Next]_vars => TypeOK'
<1> SUFFICES ASSUME JobTypeOK, ThreadTypeOK, PoolTypeOK, ForcerTypeOK, TagTypeOK,
                    [Next]_vars
             PROVE  TypeOK'
  BY DEF TypeOK
<1> USE WorkersAssumption, Members DEF Gens, registryVars, workerVars, poolVars,
        controlVars, historyVars, tagVars
<1>1. ASSUME NEW j \in Jobs, SubmitRegister(j) PROVE TypeOK'
  <2>1. JobTypeOK' BY <1>1 DEF SubmitRegister, SetStatus, JobTypeOK
  <2>2. ThreadTypeOK' BY <1>1 DEF SubmitRegister, ThreadTypeOK
  <2>3. PoolTypeOK' BY <1>1 DEF SubmitRegister, PoolTypeOK
  <2>4. ForcerTypeOK' BY <1>1 DEF SubmitRegister, ForcerTypeOK
  <2>5. TagTypeOK' BY <1>1 DEF SubmitRegister, TagTypeOK
  <2> QED BY <2>1, <2>2, <2>3, <2>4, <2>5 DEF TypeOK
<1>2. ASSUME NEW j \in Jobs, SubmitBuild(j) PROVE TypeOK'
  <2>1. JobTypeOK' BY <1>2 DEF SubmitBuild, JobTypeOK
  <2>2. ThreadTypeOK' BY <1>2 DEF SubmitBuild, JobTypeOK, ThreadTypeOK
  <2>3. PoolTypeOK' BY <1>2 DEF SubmitBuild, PoolTypeOK
  <2>4. ForcerTypeOK' BY <1>2 DEF SubmitBuild, ForcerTypeOK
  <2>5. TagTypeOK' BY <1>2 DEF SubmitBuild, TagTypeOK
  <2> QED BY <2>1, <2>2, <2>3, <2>4, <2>5 DEF TypeOK
<1>3. ASSUME NEW j \in Jobs, SubmitSave(j) PROVE TypeOK'
  <2>1. JobTypeOK' BY <1>3 DEF SubmitSave, Save, ThreadTypeOK, JobTypeOK
  <2>2. ThreadTypeOK' BY <1>3 DEF SubmitSave, ThreadTypeOK
  <2>3. PoolTypeOK' BY <1>3 DEF SubmitSave, PoolTypeOK
  <2>4. ForcerTypeOK' BY <1>3 DEF SubmitSave, ForcerTypeOK
  <2>5. TagTypeOK' BY <1>3 DEF SubmitSave, TagTypeOK
  <2> QED BY <2>1, <2>2, <2>3, <2>4, <2>5 DEF TypeOK
<1>4. ASSUME NEW j \in Jobs, SubmitEnqueue(j) PROVE TypeOK'
  <2>1. JobTypeOK' BY <1>4 DEF SubmitEnqueue, JobTypeOK
  <2>2. ThreadTypeOK' BY <1>4 DEF SubmitEnqueue, ThreadTypeOK
  <2>3. PoolTypeOK'
    <3>1. Append(queue[gen], j) \in Seq(Jobs)
      BY DEF PoolTypeOK
    <3> QED
      <4>1. CASE open[gen]
        <5>1. /\ queue' = [queue EXCEPT ![gen] = Append(queue[gen], j)]
              /\ pool' = [pool EXCEPT ![j] = gen]
              /\ UNCHANGED <<gen, open>>
          BY <1>4, <4>1 DEF SubmitEnqueue
        <5> QED
          BY <3>1, <5>1 DEF PoolTypeOK
      <4>2. CASE ~open[gen]
        BY <1>4, <4>2 DEF SubmitEnqueue, PoolTypeOK
      <4> QED
        BY <4>1, <4>2
  <2>4. ForcerTypeOK' BY <1>4 DEF SubmitEnqueue, ForcerTypeOK
  <2>5. TagTypeOK' BY <1>4 DEF SubmitEnqueue, TagTypeOK
  <2> QED BY <2>1, <2>2, <2>3, <2>4, <2>5 DEF TypeOK
<1>5. ASSUME NEW g \in Gens, NEW j \in Jobs, Claim(g, j) PROVE TypeOK'
  <2>1. JobTypeOK' BY <1>5 DEF Claim, JobTypeOK
  <2>2. ThreadTypeOK' BY <1>5 DEF Claim, TaskStep, ThreadTypeOK
  <2>3. PoolTypeOK' BY <1>5 DEF Claim, PoolTypeOK
  <2>4. ForcerTypeOK' BY <1>5 DEF Claim, ForcerTypeOK
  <2>5. TagTypeOK' BY <1>5 DEF Claim, TagTypeOK
  <2> QED BY <2>1, <2>2, <2>3, <2>4, <2>5 DEF TypeOK
<1>6. ASSUME NEW j \in Jobs, RunMark(j) PROVE TypeOK'
  <2>1. JobTypeOK' BY <1>6 DEF RunMark, SetStatus, JobTypeOK
  <2>2. ThreadTypeOK' BY <1>6 DEF RunMark, TaskStep, ThreadTypeOK
  <2>3. PoolTypeOK' BY <1>6 DEF RunMark, PoolTypeOK
  <2>4. ForcerTypeOK' BY <1>6 DEF RunMark, ForcerTypeOK
  <2>5. TagTypeOK' BY <1>6 DEF RunMark, TagTypeOK
  <2> QED BY <2>1, <2>2, <2>3, <2>4, <2>5 DEF TypeOK
<1>7. ASSUME NEW j \in Jobs, RunBuild(j) PROVE TypeOK'
  <2>1. JobTypeOK' BY <1>7 DEF RunBuild, JobTypeOK
  <2>2. ThreadTypeOK' BY <1>7 DEF RunBuild, TaskStep, JobTypeOK, ThreadTypeOK
  <2>3. PoolTypeOK' BY <1>7 DEF RunBuild, PoolTypeOK
  <2>4. ForcerTypeOK' BY <1>7 DEF RunBuild, ForcerTypeOK
  <2>5. TagTypeOK' BY <1>7 DEF RunBuild, TagTypeOK
  <2> QED BY <2>1, <2>2, <2>3, <2>4, <2>5 DEF TypeOK
<1>8. ASSUME NEW j \in Jobs, RunSave(j) PROVE TypeOK'
  <2>1. JobTypeOK' BY <1>8 DEF RunSave, Save, ThreadTypeOK, JobTypeOK
  <2>2. ThreadTypeOK' BY <1>8 DEF RunSave, TaskStep, ThreadTypeOK
  <2>3. PoolTypeOK' BY <1>8 DEF RunSave, PoolTypeOK
  <2>4. ForcerTypeOK' BY <1>8 DEF RunSave, ForcerTypeOK
  <2>5. TagTypeOK' BY <1>8 DEF RunSave, TagTypeOK
  <2> QED BY <2>1, <2>2, <2>3, <2>4, <2>5 DEF TypeOK
<1>9. ASSUME NEW j \in Jobs, WorkEnd(j) PROVE TypeOK'
  <2>1. JobTypeOK' BY <1>9 DEF WorkEnd, JobTypeOK
  <2>2. ThreadTypeOK' BY <1>9 DEF WorkEnd, TaskStep, ThreadTypeOK
  <2>3. PoolTypeOK' BY <1>9 DEF WorkEnd, PoolTypeOK
  <2>4. ForcerTypeOK' BY <1>9 DEF WorkEnd, ForcerTypeOK
  <2>5. TagTypeOK' BY <1>9 DEF WorkEnd, TagTypeOK
  <2> QED BY <2>1, <2>2, <2>3, <2>4, <2>5 DEF TypeOK
<1>10. ASSUME NEW j \in Jobs, CheckRunning(j) PROVE TypeOK'
  <2>1. JobTypeOK' BY <1>10 DEF CheckRunning, JobTypeOK
  <2>2. ThreadTypeOK' BY <1>10 DEF CheckRunning, TaskStep, ThreadTypeOK
  <2>3. PoolTypeOK' BY <1>10 DEF CheckRunning, PoolTypeOK
  <2>4. ForcerTypeOK' BY <1>10 DEF CheckRunning, ForcerTypeOK
  <2>5. TagTypeOK' BY <1>10 DEF CheckRunning, TagTypeOK
  <2> QED BY <2>1, <2>2, <2>3, <2>4, <2>5 DEF TypeOK
<1>11. ASSUME NEW j \in Jobs, CheckPause(j) PROVE TypeOK'
  <2>1. JobTypeOK' BY <1>11 DEF CheckPause, JobTypeOK
  <2>2. ThreadTypeOK' BY <1>11 DEF CheckPause, TaskStep, ThreadTypeOK
  <2>3. PoolTypeOK' BY <1>11 DEF CheckPause, PoolTypeOK
  <2>4. ForcerTypeOK' BY <1>11 DEF CheckPause, ForcerTypeOK
  <2>5. TagTypeOK' BY <1>11 DEF CheckPause, TagTypeOK
  <2> QED BY <2>1, <2>2, <2>3, <2>4, <2>5 DEF TypeOK
<1>12. ASSUME NEW j \in Jobs, CheckCancel(j) PROVE TypeOK'
  <2>1. JobTypeOK' BY <1>12 DEF CheckCancel, JobTypeOK
  <2>2. ThreadTypeOK' BY <1>12 DEF CheckCancel, TaskStep, ThreadTypeOK
  <2>3. PoolTypeOK' BY <1>12 DEF CheckCancel, PoolTypeOK
  <2>4. ForcerTypeOK' BY <1>12 DEF CheckCancel, ForcerTypeOK
  <2>5. TagTypeOK' BY <1>12 DEF CheckCancel, TagTypeOK
  <2> QED BY <2>1, <2>2, <2>3, <2>4, <2>5 DEF TypeOK
<1>13. ASSUME NEW j \in Jobs, Settle(j) PROVE TypeOK'
  <2>1. JobTypeOK' BY <1>13 DEF Settle, SetStatus, JobTypeOK
  <2>2. ThreadTypeOK' BY <1>13 DEF Settle, TaskStep, ThreadTypeOK
  <2>3. PoolTypeOK' BY <1>13 DEF Settle, PoolTypeOK
  <2>4. ForcerTypeOK' BY <1>13 DEF Settle, ForcerTypeOK
  <2>5. TagTypeOK' BY <1>13 DEF Settle, TagTypeOK
  <2> QED BY <2>1, <2>2, <2>3, <2>4, <2>5 DEF TypeOK
<1>14. ASSUME NEW j \in Jobs, SetResult(j) PROVE TypeOK'
  <2>1. JobTypeOK' BY <1>14 DEF SetResult, JobTypeOK
  <2>2. ThreadTypeOK' BY <1>14 DEF SetResult, TaskStep, ThreadTypeOK
  <2>3. PoolTypeOK' BY <1>14 DEF SetResult, PoolTypeOK
  <2>4. ForcerTypeOK' BY <1>14 DEF SetResult, ForcerTypeOK
  <2>5. TagTypeOK' BY <1>14 DEF SetResult, TagTypeOK
  <2> QED BY <2>1, <2>2, <2>3, <2>4, <2>5 DEF TypeOK
<1>15. ASSUME NEW j \in Jobs, FinalBuild(j) PROVE TypeOK'
  <2>1. JobTypeOK' BY <1>15 DEF FinalBuild, JobTypeOK
  <2>2. ThreadTypeOK' BY <1>15 DEF FinalBuild, TaskStep, JobTypeOK, ThreadTypeOK
  <2>3. PoolTypeOK' BY <1>15 DEF FinalBuild, PoolTypeOK
  <2>4. ForcerTypeOK' BY <1>15 DEF FinalBuild, ForcerTypeOK
  <2>5. TagTypeOK' BY <1>15 DEF FinalBuild, TagTypeOK
  <2> QED BY <2>1, <2>2, <2>3, <2>4, <2>5 DEF TypeOK
<1>16. ASSUME NEW j \in Jobs, FinalSave(j) PROVE TypeOK'
  <2>1. JobTypeOK' BY <1>16 DEF FinalSave, Save, ThreadTypeOK, JobTypeOK
  <2>2. ThreadTypeOK' BY <1>16 DEF FinalSave, TaskStep, ThreadTypeOK
  <2>3. PoolTypeOK' BY <1>16 DEF FinalSave, PoolTypeOK
  <2>4. ForcerTypeOK' BY <1>16 DEF FinalSave, ForcerTypeOK
  <2>5. TagTypeOK' BY <1>16 DEF FinalSave, TagTypeOK
  <2> QED BY <2>1, <2>2, <2>3, <2>4, <2>5 DEF TypeOK
<1>17. ASSUME NEW j \in Jobs, Cancel(j) PROVE TypeOK'
  <2>1. JobTypeOK' BY <1>17 DEF Cancel, NoteRequest, JobTypeOK
  <2>2. ThreadTypeOK' BY <1>17 DEF Cancel, ThreadTypeOK
  <2>3. PoolTypeOK' BY <1>17 DEF Cancel, PoolTypeOK
  <2>4. ForcerTypeOK' BY <1>17 DEF Cancel, ForcerTypeOK
  <2>5. TagTypeOK' BY <1>17 DEF Cancel, TagTypeOK
  <2> QED BY <2>1, <2>2, <2>3, <2>4, <2>5 DEF TypeOK
<1>18. ASSUME NEW j \in Jobs, Pause(j) PROVE TypeOK'
  <2>1. JobTypeOK' BY <1>18 DEF Pause, NoteRequest, JobTypeOK
  <2>2. ThreadTypeOK' BY <1>18 DEF Pause, ThreadTypeOK
  <2>3. PoolTypeOK' BY <1>18 DEF Pause, PoolTypeOK
  <2>4. ForcerTypeOK' BY <1>18 DEF Pause, ForcerTypeOK
  <2>5. TagTypeOK' BY <1>18 DEF Pause, TagTypeOK
  <2> QED BY <2>1, <2>2, <2>3, <2>4, <2>5 DEF TypeOK
<1>19. ASSUME NEW j \in Jobs, Resume(j) PROVE TypeOK'
  <2>1. JobTypeOK' BY <1>19 DEF Resume, SetStatus, JobTypeOK
  <2>2. ThreadTypeOK' BY <1>19 DEF Resume, ThreadTypeOK
  <2>3. PoolTypeOK' BY <1>19 DEF Resume, PoolTypeOK
  <2>4. ForcerTypeOK' BY <1>19 DEF Resume, ForcerTypeOK
  <2>5. TagTypeOK' BY <1>19 DEF Resume, TagTypeOK
  <2> QED BY <2>1, <2>2, <2>3, <2>4, <2>5 DEF TypeOK
<1>20. ASSUME WatchdogBegin PROVE TypeOK'
  <2>1. JobTypeOK' BY <1>20 DEF WatchdogBegin, JobTypeOK, dogFrame
  <2>2. ThreadTypeOK' BY <1>20 DEF WatchdogBegin, ThreadTypeOK, dogFrame
  <2>3. PoolTypeOK' BY <1>20 DEF WatchdogBegin, PoolTypeOK, dogFrame
  <2>4. ForcerTypeOK' BY <1>20 DEF WatchdogBegin, Registered, ForcerTypeOK, DogState, dogFrame
  <2>5. TagTypeOK' BY <1>20 DEF WatchdogBegin, TagTypeOK, dogFrame
  <2> QED BY <2>1, <2>2, <2>3, <2>4, <2>5 DEF TypeOK
<1>21. ASSUME NEW j \in Jobs, WatchdogCheck(j) PROVE TypeOK'
  <2>1. JobTypeOK' BY <1>21 DEF WatchdogCheck, JobTypeOK, dogFrame
  <2>2. ThreadTypeOK' BY <1>21 DEF WatchdogCheck, ThreadTypeOK, dogFrame
  <2>3. PoolTypeOK' BY <1>21 DEF WatchdogCheck, PoolTypeOK, dogFrame
  <2>4. ForcerTypeOK' BY <1>21 DEF WatchdogCheck, ForcerTypeOK, DogState, dogFrame
  <2>5. TagTypeOK' BY <1>21 DEF WatchdogCheck, TagTypeOK, dogFrame
  <2> QED BY <2>1, <2>2, <2>3, <2>4, <2>5 DEF TypeOK
<1>22. ASSUME WatchdogMark PROVE TypeOK'
  <2>1. JobTypeOK' BY <1>22 DEF WatchdogMark, SetStatus, JobTypeOK, dogFrame
  <2>2. ThreadTypeOK' BY <1>22 DEF WatchdogMark, ThreadTypeOK, dogFrame
  <2>3. PoolTypeOK' BY <1>22 DEF WatchdogMark, PoolTypeOK, dogFrame
  <2>4. ForcerTypeOK' BY <1>22 DEF WatchdogMark, ForcerTypeOK, DogState, dogFrame
  <2>5. TagTypeOK' BY <1>22 DEF WatchdogMark, TagTypeOK, dogFrame
  <2> QED BY <2>1, <2>2, <2>3, <2>4, <2>5 DEF TypeOK
<1>23. ASSUME WatchdogBuild PROVE TypeOK'
  <2>1. JobTypeOK' BY <1>23 DEF WatchdogBuild, JobTypeOK, dogFrame
  <2>2. ThreadTypeOK' BY <1>23 DEF WatchdogBuild, ThreadTypeOK, dogFrame
  <2>3. PoolTypeOK' BY <1>23 DEF WatchdogBuild, PoolTypeOK, dogFrame
  <2>4. ForcerTypeOK' BY <1>23 DEF WatchdogBuild, JobTypeOK, ForcerTypeOK, DogState, dogFrame
  <2>5. TagTypeOK' BY <1>23 DEF WatchdogBuild, TagTypeOK, dogFrame
  <2> QED BY <2>1, <2>2, <2>3, <2>4, <2>5 DEF TypeOK
<1>24. ASSUME WatchdogSave PROVE TypeOK'
  <2>1. JobTypeOK' BY <1>24 DEF WatchdogSave, Save, ForcerTypeOK, DogState, KillState, JobTypeOK, dogFrame
  <2>2. ThreadTypeOK' BY <1>24 DEF WatchdogSave, ThreadTypeOK, dogFrame
  <2>3. PoolTypeOK' BY <1>24 DEF WatchdogSave, PoolTypeOK, dogFrame
  <2>4. ForcerTypeOK' BY <1>24 DEF WatchdogSave, ForcerTypeOK, DogState, dogFrame
  <2>5. TagTypeOK' BY <1>24 DEF WatchdogSave, TagTypeOK, dogFrame
  <2> QED BY <2>1, <2>2, <2>3, <2>4, <2>5 DEF TypeOK
<1>25. ASSUME WatchdogEnd PROVE TypeOK'
  <2>1. JobTypeOK' BY <1>25 DEF WatchdogEnd, JobTypeOK, dogFrame
  <2>2. ThreadTypeOK' BY <1>25 DEF WatchdogEnd, ThreadTypeOK, dogFrame
  <2>3. PoolTypeOK' BY <1>25 DEF WatchdogEnd, PoolTypeOK, dogFrame
  <2>4. ForcerTypeOK' BY <1>25 DEF WatchdogEnd, ForcerTypeOK, DogState, dogFrame
  <2>5. TagTypeOK' BY <1>25 DEF WatchdogEnd, TagTypeOK, dogFrame
  <2> QED BY <2>1, <2>2, <2>3, <2>4, <2>5 DEF TypeOK
<1>26. ASSUME NEW k \in Killers, KillBegin(k) PROVE TypeOK'
  <2>1. JobTypeOK' BY <1>26 DEF KillBegin, JobTypeOK, killFrame
  <2>2. ThreadTypeOK' BY <1>26 DEF KillBegin, ThreadTypeOK, killFrame
  <2>3. PoolTypeOK' BY <1>26 DEF KillBegin, PoolTypeOK, killFrame
  <2>4. ForcerTypeOK'
    <3>1. Registered \in SUBSET Jobs
      BY DEF Registered
    <3>2. kill' \in [Killers -> KillState]
      BY <1>26, <3>1 DEF KillBegin, ForcerTypeOK, KillState
    <3>3. \A i \in Killers : kill'[i].at \in {"mark", "save"} => kill'[i].job \in Jobs
      BY <1>26 DEF KillBegin, ForcerTypeOK, KillState
    <3>4. kills' \in 0 .. MaxKills
      BY <1>26 DEF KillBegin, ForcerTypeOK
    <3> QED
      BY <1>26, <3>2, <3>3, <3>4 DEF KillBegin, ForcerTypeOK, killFrame
  <2>5. TagTypeOK' BY <1>26 DEF KillBegin, TagTypeOK, killFrame
  <2> QED BY <2>1, <2>2, <2>3, <2>4, <2>5 DEF TypeOK
<1>27. ASSUME NEW k \in Killers, NEW j \in Jobs, KillSkip(k, j) PROVE TypeOK'
  <2>1. JobTypeOK' BY <1>27 DEF KillSkip, JobTypeOK, killFrame
  <2>2. ThreadTypeOK' BY <1>27 DEF KillSkip, ThreadTypeOK, killFrame
  <2>3. PoolTypeOK' BY <1>27 DEF KillSkip, PoolTypeOK, killFrame
  <2>4. ForcerTypeOK' BY <1>27 DEF KillSkip, ForcerTypeOK, KillState, killFrame
  <2>5. TagTypeOK' BY <1>27 DEF KillSkip, TagTypeOK, killFrame
  <2> QED BY <2>1, <2>2, <2>3, <2>4, <2>5 DEF TypeOK
<1>28. ASSUME NEW k \in Killers, NEW j \in Jobs, KillRead(k, j) PROVE TypeOK'
  <2>1. JobTypeOK' BY <1>28 DEF KillRead, JobTypeOK, killFrame
  <2>2. ThreadTypeOK' BY <1>28 DEF KillRead, ThreadTypeOK, killFrame
  <2>3. PoolTypeOK' BY <1>28 DEF KillRead, PoolTypeOK, killFrame
  <2>4. ForcerTypeOK' BY <1>28 DEF KillRead, ForcerTypeOK, KillState, killFrame
  <2>5. TagTypeOK' BY <1>28 DEF KillRead, TagTypeOK, killFrame
  <2> QED BY <2>1, <2>2, <2>3, <2>4, <2>5 DEF TypeOK
<1>29. ASSUME NEW k \in Killers, KillMark(k) PROVE TypeOK'
  <2>1. JobTypeOK' BY <1>29 DEF KillMark, SetStatus, ForcerTypeOK, DogState, KillState, JobTypeOK, killFrame
  <2>2. ThreadTypeOK' BY <1>29 DEF KillMark, ThreadTypeOK, killFrame
  <2>3. PoolTypeOK' BY <1>29 DEF KillMark, PoolTypeOK, killFrame
  <2>4. ForcerTypeOK'
    <3>1. kill' \in [Killers -> KillState]
      <4>1. kill[k] \in KillState /\ kill[k].job \in Jobs
        BY <1>29 DEF KillMark, ForcerTypeOK
      <4>2. kill[k].killed \cup {kill[k].job} \in SUBSET Jobs
        BY <4>1 DEF KillState
      <4>3. [kill[k] EXCEPT !.at = "scan", !.job = NoJob, !.snap = "none",
                            !.killed = @ \cup {kill[k].job}] \in KillState
        BY <4>1, <4>2 DEF KillState
      <4> QED
        BY <1>29, <4>3 DEF KillMark, ForcerTypeOK
    <3>2. \A i \in Killers : kill'[i].at \in {"mark", "save"} => kill'[i].job \in Jobs
      BY <1>29 DEF KillMark, ForcerTypeOK, KillState
    <3> QED
      BY <1>29, <3>1, <3>2 DEF KillMark, ForcerTypeOK, killFrame
  <2>5. TagTypeOK' BY <1>29 DEF KillMark, TagTypeOK, killFrame
  <2> QED BY <2>1, <2>2, <2>3, <2>4, <2>5 DEF TypeOK
<1>30. ASSUME NEW k \in Killers, KillUnlock(k) PROVE TypeOK'
  <2>1. JobTypeOK' BY <1>30 DEF KillUnlock, JobTypeOK, killFrame
  <2>2. ThreadTypeOK' BY <1>30 DEF KillUnlock, ThreadTypeOK, killFrame
  <2>3. PoolTypeOK' BY <1>30 DEF KillUnlock, PoolTypeOK, killFrame
  <2>4. ForcerTypeOK' BY <1>30 DEF KillUnlock, ForcerTypeOK, KillState, killFrame
  <2>5. TagTypeOK' BY <1>30 DEF KillUnlock, TagTypeOK, killFrame
  <2> QED BY <2>1, <2>2, <2>3, <2>4, <2>5 DEF TypeOK
<1>31. ASSUME NEW k \in Killers, NEW j \in Jobs, KillBuild(k, j) PROVE TypeOK'
  <2>1. JobTypeOK' BY <1>31 DEF KillBuild, JobTypeOK, killFrame
  <2>2. ThreadTypeOK' BY <1>31 DEF KillBuild, ThreadTypeOK, killFrame
  <2>3. PoolTypeOK' BY <1>31 DEF KillBuild, PoolTypeOK, killFrame
  <2>4. ForcerTypeOK' BY <1>31 DEF KillBuild, JobTypeOK, ForcerTypeOK, KillState, killFrame
  <2>5. TagTypeOK' BY <1>31 DEF KillBuild, TagTypeOK, killFrame
  <2> QED BY <2>1, <2>2, <2>3, <2>4, <2>5 DEF TypeOK
<1>32. ASSUME NEW k \in Killers, KillSave(k) PROVE TypeOK'
  <2>1. JobTypeOK' BY <1>32 DEF KillSave, Save, ForcerTypeOK, DogState, KillState, JobTypeOK, killFrame
  <2>2. ThreadTypeOK' BY <1>32 DEF KillSave, ThreadTypeOK, killFrame
  <2>3. PoolTypeOK' BY <1>32 DEF KillSave, PoolTypeOK, killFrame
  <2>4. ForcerTypeOK' BY <1>32 DEF KillSave, ForcerTypeOK, KillState, killFrame
  <2>5. TagTypeOK' BY <1>32 DEF KillSave, TagTypeOK, killFrame
  <2> QED BY <2>1, <2>2, <2>3, <2>4, <2>5 DEF TypeOK
<1>33. ASSUME NEW k \in Killers, RecycleClose(k) PROVE TypeOK'
  <2>1. JobTypeOK' BY <1>33 DEF RecycleClose, JobTypeOK, killFrame
  <2>2. ThreadTypeOK' BY <1>33 DEF RecycleClose, ClosePool, ThreadTypeOK, killFrame
  <2>3. PoolTypeOK' BY <1>33 DEF RecycleClose, ClosePool, PoolTypeOK, killFrame
  <2>4. ForcerTypeOK' BY <1>33 DEF RecycleClose, ClosePool, ForcerTypeOK, KillState, killFrame
  <2>5. TagTypeOK' BY <1>33 DEF RecycleClose, TagTypeOK, killFrame
  <2> QED BY <2>1, <2>2, <2>3, <2>4, <2>5 DEF TypeOK
<1>34. ASSUME NEW k \in Killers, RecycleOpen(k) PROVE TypeOK'
  <2>1. JobTypeOK' BY <1>34 DEF RecycleOpen, JobTypeOK, killFrame
  <2>2. ThreadTypeOK' BY <1>34 DEF RecycleOpen, ThreadTypeOK, killFrame
  <2>3. PoolTypeOK' BY <1>34 DEF RecycleOpen, PoolTypeOK, killFrame
  <2>4. ForcerTypeOK' BY <1>34 DEF RecycleOpen, ForcerTypeOK, KillState, killFrame
  <2>5. TagTypeOK' BY <1>34 DEF RecycleOpen, TagTypeOK, killFrame
  <2> QED BY <2>1, <2>2, <2>3, <2>4, <2>5 DEF TypeOK
<1>35. ASSUME Shutdown PROVE TypeOK'
  <2>1. JobTypeOK' BY <1>35 DEF Shutdown, JobTypeOK
  <2>2. ThreadTypeOK' BY <1>35 DEF Shutdown, ClosePool, ThreadTypeOK
  <2>3. PoolTypeOK' BY <1>35 DEF Shutdown, ClosePool, PoolTypeOK
  <2>4. ForcerTypeOK' BY <1>35 DEF Shutdown, ForcerTypeOK, KillState
  <2>5. TagTypeOK' BY <1>35 DEF Shutdown, TagTypeOK
  <2> QED BY <2>1, <2>2, <2>3, <2>4, <2>5 DEF TypeOK
<1>36. ASSUME NEW t \in Taggers, NEW j \in Jobs, TagBuild(t, j) PROVE TypeOK'
  <2>1. JobTypeOK' BY <1>36 DEF TagBuild, JobTypeOK
  <2>2. ThreadTypeOK' BY <1>36 DEF TagBuild, ThreadTypeOK
  <2>3. PoolTypeOK' BY <1>36 DEF TagBuild, PoolTypeOK
  <2>4. ForcerTypeOK' BY <1>36 DEF TagBuild, ForcerTypeOK
  <2>5. TagTypeOK' BY <1>36 DEF TagBuild, Registered, JobTypeOK, TagTypeOK
  <2> QED BY <2>1, <2>2, <2>3, <2>4, <2>5 DEF TypeOK
<1>37. ASSUME NEW t \in Taggers, TagSave(t) PROVE TypeOK'
  <2>1. JobTypeOK' BY <1>37 DEF TagSave, JobTypeOK, TagTypeOK
  <2>2. ThreadTypeOK' BY <1>37 DEF TagSave, ThreadTypeOK
  <2>3. PoolTypeOK' BY <1>37 DEF TagSave, PoolTypeOK
  <2>4. ForcerTypeOK' BY <1>37 DEF TagSave, ForcerTypeOK
  <2>5. TagTypeOK' BY <1>37 DEF TagSave, TagTypeOK, NoTag
  <2> QED BY <2>1, <2>2, <2>3, <2>4, <2>5 DEF TypeOK
<1>38. CASE UNCHANGED vars
  BY <1>38 DEF vars, TypeOK, JobTypeOK, ThreadTypeOK, PoolTypeOK, ForcerTypeOK, TagTypeOK
<1> QED
  BY <1>1, <1>2, <1>3, <1>4, <1>5, <1>6, <1>7, <1>8, <1>9, <1>10, <1>11, <1>12, <1>13, <1>14, <1>15, <1>16, <1>17, <1>18, <1>19, <1>20, <1>21, <1>22, <1>23, <1>24, <1>25, <1>26, <1>27, <1>28, <1>29, <1>30, <1>31, <1>32, <1>33, <1>34, <1>35, <1>36, <1>37, <1>38
    DEF Next, Submit, RunStep, Request, WatchdogStep, KillStep

\* The registry, its pools, the watchdog and the force-kill calls keep their types.
THEOREM TypeCorrect == Spec => []TypeOK
  BY InitType, TypeStep, PTL DEF Spec

-----------------------------------------------------------------------------
(* Preservation of the inductive invariant.                                *)

\* A job is visible exactly from its registration on, and has a work item
\* exactly once submit() has returned.
LEMMA SubmitInvStep == IInv /\ [Next]_vars => SubmitInv'
<1> SUFFICES ASSUME IInv, [Next]_vars PROVE SubmitInv'
  OBVIOUS
<1> USE DEF IInv, SubmitInv, ForcerInv, TypeOK, JobTypeOK, ThreadTypeOK, ForcerTypeOK, Live,
        registryVars, workerVars, controlVars, historyVars, tagVars
<1>1. ASSUME NEW j \in Jobs, SubmitRegister(j) PROVE SubmitInv'
  BY <1>1 DEF SubmitRegister, SetStatus
<1>2. ASSUME NEW j \in Jobs, SubmitBuild(j) PROVE SubmitInv'
  BY <1>2 DEF SubmitBuild
<1>3. ASSUME NEW j \in Jobs, SubmitSave(j) PROVE SubmitInv'
  BY <1>3 DEF SubmitSave, Save
<1>4. ASSUME NEW j \in Jobs, SubmitEnqueue(j) PROVE SubmitInv'
  BY <1>4 DEF SubmitEnqueue
<1>5. ASSUME NEW g \in Gens, NEW j \in Jobs, Claim(g, j) PROVE SubmitInv'
  BY <1>5 DEF Claim, TaskStep
<1>6. ASSUME NEW j \in Jobs, RunMark(j) PROVE SubmitInv'
  BY <1>6 DEF RunMark, TaskStep, SetStatus
<1>7. ASSUME NEW j \in Jobs, RunBuild(j) PROVE SubmitInv'
  BY <1>7 DEF RunBuild, TaskStep
<1>8. ASSUME NEW j \in Jobs, RunSave(j) PROVE SubmitInv'
  BY <1>8 DEF RunSave, TaskStep, Save
<1>9. ASSUME NEW j \in Jobs, WorkEnd(j) PROVE SubmitInv'
  BY <1>9 DEF WorkEnd, TaskStep
<1>10. ASSUME NEW j \in Jobs, CheckRunning(j) PROVE SubmitInv'
  BY <1>10 DEF CheckRunning, TaskStep
<1>11. ASSUME NEW j \in Jobs, CheckPause(j) PROVE SubmitInv'
  BY <1>11 DEF CheckPause, TaskStep
<1>12. ASSUME NEW j \in Jobs, CheckCancel(j) PROVE SubmitInv'
  BY <1>12 DEF CheckCancel, TaskStep
<1>13. ASSUME NEW j \in Jobs, Settle(j) PROVE SubmitInv'
  BY <1>13 DEF Settle, TaskStep, SetStatus
<1>14. ASSUME NEW j \in Jobs, SetResult(j) PROVE SubmitInv'
  BY <1>14 DEF SetResult, TaskStep
<1>15. ASSUME NEW j \in Jobs, FinalBuild(j) PROVE SubmitInv'
  BY <1>15 DEF FinalBuild, TaskStep
<1>16. ASSUME NEW j \in Jobs, FinalSave(j) PROVE SubmitInv'
  BY <1>16 DEF FinalSave, TaskStep, Save
<1>17. ASSUME NEW j \in Jobs, Cancel(j) PROVE SubmitInv'
  BY <1>17 DEF Cancel, NoteRequest
<1>18. ASSUME NEW j \in Jobs, Pause(j) PROVE SubmitInv'
  BY <1>18 DEF Pause, NoteRequest
<1>19. ASSUME NEW j \in Jobs, Resume(j) PROVE SubmitInv'
  BY <1>19 DEF Resume, SetStatus
<1>20. ASSUME WatchdogBegin PROVE SubmitInv'
  BY <1>20 DEF WatchdogBegin, dogFrame
<1>21. ASSUME NEW j \in Jobs, WatchdogCheck(j) PROVE SubmitInv'
  BY <1>21 DEF WatchdogCheck, dogFrame
<1>22. ASSUME WatchdogMark PROVE SubmitInv'
  BY <1>22 DEF WatchdogMark, SetStatus, dogFrame
<1>23. ASSUME WatchdogBuild PROVE SubmitInv'
  BY <1>23 DEF WatchdogBuild, dogFrame
<1>24. ASSUME WatchdogSave PROVE SubmitInv'
  BY <1>24 DEF WatchdogSave, Save, dogFrame
<1>25. ASSUME WatchdogEnd PROVE SubmitInv'
  BY <1>25 DEF WatchdogEnd, dogFrame
<1>26. ASSUME NEW k \in Killers, KillBegin(k) PROVE SubmitInv'
  BY <1>26 DEF KillBegin, killFrame
<1>27. ASSUME NEW k \in Killers, NEW j \in Jobs, KillSkip(k, j) PROVE SubmitInv'
  BY <1>27 DEF KillSkip, killFrame
<1>28. ASSUME NEW k \in Killers, NEW j \in Jobs, KillRead(k, j) PROVE SubmitInv'
  BY <1>28 DEF KillRead, killFrame
<1>29. ASSUME NEW k \in Killers, KillMark(k) PROVE SubmitInv'
  BY <1>29 DEF KillMark, SetStatus, killFrame
<1>30. ASSUME NEW k \in Killers, KillUnlock(k) PROVE SubmitInv'
  BY <1>30 DEF KillUnlock, killFrame
<1>31. ASSUME NEW k \in Killers, NEW j \in Jobs, KillBuild(k, j) PROVE SubmitInv'
  BY <1>31 DEF KillBuild, killFrame
<1>32. ASSUME NEW k \in Killers, KillSave(k) PROVE SubmitInv'
  BY <1>32 DEF KillSave, Save, killFrame
<1>33. ASSUME NEW k \in Killers, RecycleClose(k) PROVE SubmitInv'
  BY <1>33 DEF RecycleClose, ClosePool, killFrame
<1>34. ASSUME NEW k \in Killers, RecycleOpen(k) PROVE SubmitInv'
  BY <1>34 DEF RecycleOpen, killFrame
<1>35. ASSUME Shutdown PROVE SubmitInv'
  BY <1>35 DEF Shutdown, ClosePool
<1>36. ASSUME NEW t \in Taggers, NEW j \in Jobs, TagBuild(t, j) PROVE SubmitInv'
  BY <1>36 DEF TagBuild
<1>37. ASSUME NEW t \in Taggers, TagSave(t) PROVE SubmitInv'
  BY <1>37 DEF TagSave
<1>38. CASE UNCHANGED vars
  BY <1>38 DEF vars
<1> QED
  BY <1>1, <1>2, <1>3, <1>4, <1>5, <1>6, <1>7, <1>8, <1>9, <1>10, <1>11, <1>12, <1>13, <1>14, <1>15, <1>16, <1>17, <1>18, <1>19, <1>20, <1>21, <1>22, <1>23, <1>24, <1>25, <1>26, <1>27, <1>28, <1>29, <1>30, <1>31, <1>32, <1>33, <1>34, <1>35, <1>36, <1>37, <1>38
    DEF Next, Submit, RunStep, Request, WatchdogStep, KillStep

\* The watchdog and kill_stuck keep to registered jobs, and save only rows of
\* jobs they have marked.
LEMMA ForcerInvStep == IInv /\ [Next]_vars => ForcerInv'
<1> SUFFICES ASSUME IInv, [Next]_vars PROVE ForcerInv'
  OBVIOUS
<1> USE DEF IInv, ForcerInv, TypeOK, JobTypeOK, ForcerTypeOK, DogState, KillState, Live,
        registryVars, controlVars, historyVars, tagVars
<1>1. ASSUME NEW j \in Jobs, SubmitRegister(j) PROVE ForcerInv'
  BY <1>1 DEF SubmitRegister, SetStatus
<1>2. ASSUME NEW j \in Jobs, SubmitBuild(j) PROVE ForcerInv'
  BY <1>2 DEF SubmitBuild
<1>3. ASSUME NEW j \in Jobs, SubmitSave(j) PROVE ForcerInv'
  BY <1>3 DEF SubmitSave, Save
<1>4. ASSUME NEW j \in Jobs, SubmitEnqueue(j) PROVE ForcerInv'
  BY <1>4 DEF SubmitEnqueue
<1>5. ASSUME NEW g \in Gens, NEW j \in Jobs, Claim(g, j) PROVE ForcerInv'
  BY <1>5 DEF Claim, TaskStep
<1>6. ASSUME NEW j \in Jobs, RunMark(j) PROVE ForcerInv'
  BY <1>6 DEF RunMark, TaskStep, SetStatus
<1>7. ASSUME NEW j \in Jobs, RunBuild(j) PROVE ForcerInv'
  BY <1>7 DEF RunBuild, TaskStep
<1>8. ASSUME NEW j \in Jobs, RunSave(j) PROVE ForcerInv'
  BY <1>8 DEF RunSave, TaskStep, Save
<1>9. ASSUME NEW j \in Jobs, WorkEnd(j) PROVE ForcerInv'
  BY <1>9 DEF WorkEnd, TaskStep
<1>10. ASSUME NEW j \in Jobs, CheckRunning(j) PROVE ForcerInv'
  BY <1>10 DEF CheckRunning, TaskStep
<1>11. ASSUME NEW j \in Jobs, CheckPause(j) PROVE ForcerInv'
  BY <1>11 DEF CheckPause, TaskStep
<1>12. ASSUME NEW j \in Jobs, CheckCancel(j) PROVE ForcerInv'
  BY <1>12 DEF CheckCancel, TaskStep
<1>13. ASSUME NEW j \in Jobs, Settle(j) PROVE ForcerInv'
  BY <1>13 DEF Settle, TaskStep, SetStatus
<1>14. ASSUME NEW j \in Jobs, SetResult(j) PROVE ForcerInv'
  BY <1>14 DEF SetResult, TaskStep
<1>15. ASSUME NEW j \in Jobs, FinalBuild(j) PROVE ForcerInv'
  BY <1>15 DEF FinalBuild, TaskStep
<1>16. ASSUME NEW j \in Jobs, FinalSave(j) PROVE ForcerInv'
  BY <1>16 DEF FinalSave, TaskStep, Save
<1>17. ASSUME NEW j \in Jobs, Cancel(j) PROVE ForcerInv'
  BY <1>17 DEF Cancel, NoteRequest
<1>18. ASSUME NEW j \in Jobs, Pause(j) PROVE ForcerInv'
  BY <1>18 DEF Pause, NoteRequest
<1>19. ASSUME NEW j \in Jobs, Resume(j) PROVE ForcerInv'
  BY <1>19 DEF Resume, SetStatus
<1>20. ASSUME WatchdogBegin PROVE ForcerInv'
  BY <1>20 DEF WatchdogBegin, dogFrame
<1>21. ASSUME NEW j \in Jobs, WatchdogCheck(j) PROVE ForcerInv'
  BY <1>21 DEF WatchdogCheck, dogFrame
<1>22. ASSUME WatchdogMark PROVE ForcerInv'
  BY <1>22 DEF WatchdogMark, SetStatus, dogFrame
<1>23. ASSUME WatchdogBuild PROVE ForcerInv'
  BY <1>23 DEF WatchdogBuild, dogFrame
<1>24. ASSUME WatchdogSave PROVE ForcerInv'
  BY <1>24 DEF WatchdogSave, Save, dogFrame
<1>25. ASSUME WatchdogEnd PROVE ForcerInv'
  BY <1>25 DEF WatchdogEnd, dogFrame
<1>26. ASSUME NEW k \in Killers, KillBegin(k) PROVE ForcerInv'
  BY <1>26 DEF KillBegin, killFrame
<1>27. ASSUME NEW k \in Killers, NEW j \in Jobs, KillSkip(k, j) PROVE ForcerInv'
  BY <1>27 DEF KillSkip, killFrame
<1>28. ASSUME NEW k \in Killers, NEW j \in Jobs, KillRead(k, j) PROVE ForcerInv'
  BY <1>28 DEF KillRead, killFrame
<1>29. ASSUME NEW k \in Killers, KillMark(k) PROVE ForcerInv'
  BY <1>29 DEF KillMark, SetStatus, killFrame
<1>30. ASSUME NEW k \in Killers, KillUnlock(k) PROVE ForcerInv'
  BY <1>30 DEF KillUnlock, killFrame
<1>31. ASSUME NEW k \in Killers, NEW j \in Jobs, KillBuild(k, j) PROVE ForcerInv'
  BY <1>31 DEF KillBuild, killFrame
<1>32. ASSUME NEW k \in Killers, KillSave(k) PROVE ForcerInv'
  BY <1>32 DEF KillSave, Save, killFrame
<1>33. ASSUME NEW k \in Killers, RecycleClose(k) PROVE ForcerInv'
  BY <1>33 DEF RecycleClose, ClosePool, killFrame
<1>34. ASSUME NEW k \in Killers, RecycleOpen(k) PROVE ForcerInv'
  BY <1>34 DEF RecycleOpen, killFrame
<1>35. ASSUME Shutdown PROVE ForcerInv'
  BY <1>35 DEF Shutdown, ClosePool
<1>36. ASSUME NEW t \in Taggers, NEW j \in Jobs, TagBuild(t, j) PROVE ForcerInv'
  BY <1>36 DEF TagBuild
<1>37. ASSUME NEW t \in Taggers, TagSave(t) PROVE ForcerInv'
  BY <1>37 DEF TagSave
<1>38. CASE UNCHANGED vars
  BY <1>38 DEF vars
<1> QED
  BY <1>1, <1>2, <1>3, <1>4, <1>5, <1>6, <1>7, <1>8, <1>9, <1>10, <1>11, <1>12, <1>13, <1>14, <1>15, <1>16, <1>17, <1>18, <1>19, <1>20, <1>21, <1>22, <1>23, <1>24, <1>25, <1>26, <1>27, <1>28, <1>29, <1>30, <1>31, <1>32, <1>33, <1>34, <1>35, <1>36, <1>37, <1>38
    DEF Next, Submit, RunStep, Request, WatchdogStep, KillStep

\* Only its own worker moves the status of a job nobody force-terminated.
LEMMA ThreadInvStep == IInv /\ [Next]_vars => ThreadInv'
<1> SUFFICES ASSUME IInv, [Next]_vars PROVE ThreadInv'
  OBVIOUS
<1> USE DEF IInv, ThreadInv, ForcerInv, TypeOK, JobTypeOK, ThreadTypeOK, ForcerTypeOK, Finishing, Terminal, Willing, Live,
        registryVars, workerVars, controlVars, historyVars, tagVars
<1>1. ASSUME NEW j \in Jobs, SubmitRegister(j) PROVE ThreadInv'
  BY <1>1 DEF SubmitInv, SubmitRegister, SetStatus
<1>2. ASSUME NEW j \in Jobs, SubmitBuild(j) PROVE ThreadInv'
  BY <1>2 DEF SubmitBuild
<1>3. ASSUME NEW j \in Jobs, SubmitSave(j) PROVE ThreadInv'
  BY <1>3 DEF SubmitSave, Save
<1>4. ASSUME NEW j \in Jobs, SubmitEnqueue(j) PROVE ThreadInv'
  BY <1>4 DEF SubmitInv, SubmitEnqueue
<1>5. ASSUME NEW g \in Gens, NEW j \in Jobs, Claim(g, j) PROVE ThreadInv'
  BY <1>5 DEF Claim, TaskStep
<1>6. ASSUME NEW j \in Jobs, RunMark(j) PROVE ThreadInv'
  BY <1>6 DEF RunMark, TaskStep, SetStatus
<1>7. ASSUME NEW j \in Jobs, RunBuild(j) PROVE ThreadInv'
  BY <1>7 DEF RunBuild, TaskStep
<1>8. ASSUME NEW j \in Jobs, RunSave(j) PROVE ThreadInv'
  BY <1>8 DEF RunSave, TaskStep, Save
<1>9. ASSUME NEW j \in Jobs, WorkEnd(j) PROVE ThreadInv'
  BY <1>9 DEF WorkEnd, TaskStep
<1>10. ASSUME NEW j \in Jobs, CheckRunning(j) PROVE ThreadInv'
  BY <1>10 DEF CheckRunning, TaskStep
<1>11. ASSUME NEW j \in Jobs, CheckPause(j) PROVE ThreadInv'
  BY <1>11 DEF CheckPause, TaskStep
<1>12. ASSUME NEW j \in Jobs, CheckCancel(j) PROVE ThreadInv'
  BY <1>12 DEF CheckCancel, TaskStep
<1>13. ASSUME NEW j \in Jobs, Settle(j) PROVE ThreadInv'
  BY <1>13 DEF Settle, TaskStep, SetStatus
<1>14. ASSUME NEW j \in Jobs, SetResult(j) PROVE ThreadInv'
  BY <1>14 DEF SetResult, TaskStep
<1>15. ASSUME NEW j \in Jobs, FinalBuild(j) PROVE ThreadInv'
  BY <1>15 DEF FinalBuild, TaskStep
<1>16. ASSUME NEW j \in Jobs, FinalSave(j) PROVE ThreadInv'
  BY <1>16 DEF FinalSave, TaskStep, Save
<1>17. ASSUME NEW j \in Jobs, Cancel(j) PROVE ThreadInv'
  BY <1>17 DEF Cancel, NoteRequest
<1>18. ASSUME NEW j \in Jobs, Pause(j) PROVE ThreadInv'
  BY <1>18 DEF Pause, NoteRequest
<1>19. ASSUME NEW j \in Jobs, Resume(j) PROVE ThreadInv'
  BY <1>19 DEF Resume, SetStatus
<1>20. ASSUME WatchdogBegin PROVE ThreadInv'
  BY <1>20 DEF WatchdogBegin, dogFrame
<1>21. ASSUME NEW j \in Jobs, WatchdogCheck(j) PROVE ThreadInv'
  BY <1>21 DEF WatchdogCheck, dogFrame
<1>22. ASSUME WatchdogMark PROVE ThreadInv'
  BY <1>22 DEF WatchdogMark, SetStatus, dogFrame
<1>23. ASSUME WatchdogBuild PROVE ThreadInv'
  BY <1>23 DEF WatchdogBuild, dogFrame
<1>24. ASSUME WatchdogSave PROVE ThreadInv'
  BY <1>24 DEF WatchdogSave, Save, dogFrame
<1>25. ASSUME WatchdogEnd PROVE ThreadInv'
  BY <1>25 DEF WatchdogEnd, dogFrame
<1>26. ASSUME NEW k \in Killers, KillBegin(k) PROVE ThreadInv'
  BY <1>26 DEF KillBegin, killFrame
<1>27. ASSUME NEW k \in Killers, NEW j \in Jobs, KillSkip(k, j) PROVE ThreadInv'
  BY <1>27 DEF KillSkip, killFrame
<1>28. ASSUME NEW k \in Killers, NEW j \in Jobs, KillRead(k, j) PROVE ThreadInv'
  BY <1>28 DEF KillRead, killFrame
<1>29. ASSUME NEW k \in Killers, KillMark(k) PROVE ThreadInv'
  BY <1>29 DEF KillMark, SetStatus, killFrame
<1>30. ASSUME NEW k \in Killers, KillUnlock(k) PROVE ThreadInv'
  BY <1>30 DEF KillUnlock, killFrame
<1>31. ASSUME NEW k \in Killers, NEW j \in Jobs, KillBuild(k, j) PROVE ThreadInv'
  BY <1>31 DEF KillBuild, killFrame
<1>32. ASSUME NEW k \in Killers, KillSave(k) PROVE ThreadInv'
  BY <1>32 DEF KillSave, Save, killFrame
<1>33. ASSUME NEW k \in Killers, RecycleClose(k) PROVE ThreadInv'
  BY <1>33 DEF RecycleClose, ClosePool, killFrame
<1>34. ASSUME NEW k \in Killers, RecycleOpen(k) PROVE ThreadInv'
  BY <1>34 DEF RecycleOpen, killFrame
<1>35. ASSUME Shutdown PROVE ThreadInv'
  BY <1>35 DEF Shutdown, ClosePool
<1>36. ASSUME NEW t \in Taggers, NEW j \in Jobs, TagBuild(t, j) PROVE ThreadInv'
  BY <1>36 DEF TagBuild
<1>37. ASSUME NEW t \in Taggers, TagSave(t) PROVE ThreadInv'
  BY <1>37 DEF TagSave
<1>38. CASE UNCHANGED vars
  BY <1>38 DEF vars
<1> QED
  BY <1>1, <1>2, <1>3, <1>4, <1>5, <1>6, <1>7, <1>8, <1>9, <1>10, <1>11, <1>12, <1>13, <1>14, <1>15, <1>16, <1>17, <1>18, <1>19, <1>20, <1>21, <1>22, <1>23, <1>24, <1>25, <1>26, <1>27, <1>28, <1>29, <1>30, <1>31, <1>32, <1>33, <1>34, <1>35, <1>36, <1>37, <1>38
    DEF Next, Submit, RunStep, Request, WatchdogStep, KillStep

\* No status write of a job nobody forced or resumed falls between the build
\* and the save of its last row.
LEMMA RowInvStep == IInv /\ [Next]_vars => RowInv'
<1> SUFFICES ASSUME IInv, [Next]_vars PROVE RowInv'
  OBVIOUS
<1> USE DEF IInv, RowInv, ThreadInv, SubmitInv, ForcerInv, TypeOK, JobTypeOK, ThreadTypeOK, ForcerTypeOK, Finishing, Terminal,
        registryVars, workerVars, controlVars, historyVars, tagVars
<1>1. ASSUME NEW j \in Jobs, SubmitRegister(j) PROVE RowInv'
  BY <1>1 DEF SubmitRegister, SetStatus, SubmitInv
<1>2. ASSUME NEW j \in Jobs, SubmitBuild(j) PROVE RowInv'
  BY <1>2 DEF SubmitBuild
<1>3. ASSUME NEW j \in Jobs, SubmitSave(j) PROVE RowInv'
  BY <1>3 DEF SubmitSave, Save
<1>4. ASSUME NEW j \in Jobs, SubmitEnqueue(j) PROVE RowInv'
  BY <1>4 DEF SubmitEnqueue
<1>5. ASSUME NEW g \in Gens, NEW j \in Jobs, Claim(g, j) PROVE RowInv'
  BY <1>5 DEF Claim, TaskStep
<1>6. ASSUME NEW j \in Jobs, RunMark(j) PROVE RowInv'
  <2>1. /\ ~forced[j] => status[j] \in {"none", "pending"}
        /\ task[j] = "claimed" /\ task'[j] = "marked" /\ status'[j] = "running"
    BY <1>6 DEF RunMark, TaskStep, SetStatus
  <2>2. \A i \in Jobs \ {j} : task'[i] = task[i] /\ status'[i] = status[i]
    BY <1>6 DEF RunMark, TaskStep, SetStatus
  <2>3. UNCHANGED <<tag, snap, row, restamped, lost, forced, resumed>>
    BY <1>6 DEF RunMark
  <2> QED
    BY <2>1, <2>2, <2>3 DEF Live
<1>7. ASSUME NEW j \in Jobs, RunBuild(j) PROVE RowInv'
  BY <1>7 DEF RunBuild, TaskStep
<1>8. ASSUME NEW j \in Jobs, RunSave(j) PROVE RowInv'
  BY <1>8 DEF RunSave, TaskStep, Save
<1>9. ASSUME NEW j \in Jobs, WorkEnd(j) PROVE RowInv'
  BY <1>9 DEF WorkEnd, TaskStep
<1>10. ASSUME NEW j \in Jobs, CheckRunning(j) PROVE RowInv'
  BY <1>10 DEF CheckRunning, TaskStep
<1>11. ASSUME NEW j \in Jobs, CheckPause(j) PROVE RowInv'
  BY <1>11 DEF CheckPause, TaskStep
<1>12. ASSUME NEW j \in Jobs, CheckCancel(j) PROVE RowInv'
  BY <1>12 DEF CheckCancel, TaskStep
<1>13. ASSUME NEW j \in Jobs, Settle(j) PROVE RowInv'
  <2>1. /\ ~forced[j] => status[j] = "running"
        /\ task[j] # "done" /\ task'[j] \in {"final", "setResult"}
        /\ \A i \in Jobs \ {j} : task'[i] = task[i] /\ status'[i] = status[i]
    <3>1. /\ task[j] \in Willing
          /\ \E s \in {"final", "setResult"} : task' = [task EXCEPT ![j] = s]
          /\ \E s \in Status : status' = [status EXCEPT ![j] = s]
      BY <1>13, Members DEF Settle, TaskStep, SetStatus, Willing
    <3>2. ~forced[j] => status[j] = "running"
      BY <3>1
    <3> QED
      BY <3>1, <3>2 DEF Willing
  <2>2. UNCHANGED <<tag, snap, row, restamped, lost, forced, resumed>>
    BY <1>13 DEF Settle
  <2>3. ASSUME NEW i \in Jobs, i # j, ~forced[i], ~resumed[i]
        PROVE  /\ task'[i] = "finalBuilt" => snap[i] = status'[i]
               /\ task'[i] = "done" /\ i \notin lost =>
                    IF i \in restamped THEN row[i] \in Live ELSE row[i] = status'[i]
               /\ task'[i] # "done" => i \notin restamped
               /\ \A t \in Taggers : tag[t].job = i =>
                    status'[i] # "none" /\ tag[t].snap \in Live \cup {status'[i]}
    BY <2>1, <2>3
  <2>4. ASSUME ~forced[j], ~resumed[j]
        PROVE  /\ j \notin restamped
               /\ \A t \in Taggers : tag[t].job = j =>
                    status'[j] # "none" /\ tag[t].snap \in Live \cup {status'[j]}
    <3>1. status'[j] # "none"
      BY <1>13 DEF Settle, SetStatus
    <3>2. status[j] = "running" /\ j \notin restamped
      BY <2>1, <2>4
    <3>3. \A t \in Taggers : tag[t].job = j => tag[t].snap \in Live
      BY <2>4, <3>2 DEF Live
    <3> QED
      BY <3>1, <3>2, <3>3
  <2> QED
    BY <2>1, <2>2, <2>3, <2>4
<1>14. ASSUME NEW j \in Jobs, SetResult(j) PROVE RowInv'
  BY <1>14 DEF SetResult, TaskStep
<1>15. ASSUME NEW j \in Jobs, FinalBuild(j) PROVE RowInv'
  BY <1>15 DEF FinalBuild, TaskStep
<1>16. ASSUME NEW j \in Jobs, FinalSave(j) PROVE RowInv'
  BY <1>16 DEF FinalSave, TaskStep, Save
<1>17. ASSUME NEW j \in Jobs, Cancel(j) PROVE RowInv'
  BY <1>17 DEF Cancel, NoteRequest
<1>18. ASSUME NEW j \in Jobs, Pause(j) PROVE RowInv'
  BY <1>18 DEF Pause, NoteRequest
<1>19. ASSUME NEW j \in Jobs, Resume(j) PROVE RowInv'
  BY <1>19 DEF Resume, SetStatus
<1>20. ASSUME WatchdogBegin PROVE RowInv'
  BY <1>20 DEF WatchdogBegin, dogFrame
<1>21. ASSUME NEW j \in Jobs, WatchdogCheck(j) PROVE RowInv'
  BY <1>21 DEF WatchdogCheck, dogFrame
<1>22. ASSUME WatchdogMark PROVE RowInv'
  BY <1>22 DEF WatchdogMark, SetStatus, dogFrame
<1>23. ASSUME WatchdogBuild PROVE RowInv'
  BY <1>23 DEF WatchdogBuild, dogFrame
<1>24. ASSUME WatchdogSave PROVE RowInv'
  BY <1>24 DEF WatchdogSave, Save, dogFrame
<1>25. ASSUME WatchdogEnd PROVE RowInv'
  BY <1>25 DEF WatchdogEnd, dogFrame
<1>26. ASSUME NEW k \in Killers, KillBegin(k) PROVE RowInv'
  BY <1>26 DEF KillBegin, killFrame
<1>27. ASSUME NEW k \in Killers, NEW j \in Jobs, KillSkip(k, j) PROVE RowInv'
  BY <1>27 DEF KillSkip, killFrame
<1>28. ASSUME NEW k \in Killers, NEW j \in Jobs, KillRead(k, j) PROVE RowInv'
  BY <1>28 DEF KillRead, killFrame
<1>29. ASSUME NEW k \in Killers, KillMark(k) PROVE RowInv'
  BY <1>29 DEF KillMark, SetStatus, killFrame
<1>30. ASSUME NEW k \in Killers, KillUnlock(k) PROVE RowInv'
  BY <1>30 DEF KillUnlock, killFrame
<1>31. ASSUME NEW k \in Killers, NEW j \in Jobs, KillBuild(k, j) PROVE RowInv'
  BY <1>31 DEF KillBuild, killFrame
<1>32. ASSUME NEW k \in Killers, KillSave(k) PROVE RowInv'
  BY <1>32 DEF KillSave, Save, killFrame
<1>33. ASSUME NEW k \in Killers, RecycleClose(k) PROVE RowInv'
  BY <1>33 DEF RecycleClose, ClosePool, killFrame
<1>34. ASSUME NEW k \in Killers, RecycleOpen(k) PROVE RowInv'
  BY <1>34 DEF RecycleOpen, killFrame
<1>35. ASSUME Shutdown PROVE RowInv'
  BY <1>35 DEF Shutdown, ClosePool
<1>36. ASSUME NEW t \in Taggers, NEW j \in Jobs, TagBuild(t, j) PROVE RowInv'
  BY <1>36 DEF TagBuild, Registered
<1>37. ASSUME NEW t \in Taggers, TagSave(t) PROVE RowInv'
  <2> DEFINE j == tag[t].job
  <2>1. /\ j \in Jobs /\ tag'[t].job = NoJob /\ NoJob \notin Jobs
        /\ \A u \in Taggers \ {t} : tag'[u] = tag[u]
        /\ UNCHANGED <<status, task, snap, lost, forced, resumed>>
    BY <1>37, JobsAssumption DEF TagSave, NoTag, TagTypeOK
  <2>2. \A i \in Jobs \ {j} : row'[i] = row[i] /\ (i \in restamped' <=> i \in restamped)
    BY <1>37 DEF TagSave
  <2>3. CASE UNCHANGED <<row, restamped>>
    BY <2>1, <2>3
  <2>4. CASE /\ row'[j] = tag[t].snap
             /\ j \in restamped' <=> task[j] = "done" /\ tag[t].snap # status[j]
    BY <2>1, <2>2, <2>4
  <2>5. \/ UNCHANGED <<row, restamped>>
        \/ /\ row'[j] = tag[t].snap
           /\ j \in restamped' <=> task[j] = "done" /\ tag[t].snap # status[j]
    BY <1>37, <2>1 DEF TagSave
  <2> QED
    BY <2>3, <2>4, <2>5
<1>38. CASE UNCHANGED vars
  BY <1>38 DEF vars
<1> QED
  BY <1>1, <1>2, <1>3, <1>4, <1>5, <1>6, <1>7, <1>8, <1>9, <1>10, <1>11, <1>12, <1>13, <1>14, <1>15, <1>16, <1>17, <1>18, <1>19, <1>20, <1>21, <1>22, <1>23, <1>24, <1>25, <1>26, <1>27, <1>28, <1>29, <1>30, <1>31, <1>32, <1>33, <1>34, <1>35, <1>36, <1>37, <1>38
    DEF Next, Submit, RunStep, Request, WatchdogStep, KillStep

\* Nothing takes back a request before the worker has looked for it, except
\* a resume, which needs a job that is PAUSED already.
LEMMA RequestInvStep == IInv /\ [Next]_vars => RequestInv'
<1> SUFFICES ASSUME IInv, [Next]_vars PROVE RequestInv'
  OBVIOUS
<1> USE DEF IInv, RequestInv, ThreadInv, ForcerInv, TypeOK, JobTypeOK, ThreadTypeOK, ForcerTypeOK, Finishing, Terminal, Willing, BeforeEnd,
        registryVars, workerVars, controlVars, historyVars, tagVars
<1>1. ASSUME NEW j \in Jobs, SubmitRegister(j) PROVE RequestInv'
  BY <1>1 DEF SubmitRegister, SetStatus
<1>2. ASSUME NEW j \in Jobs, SubmitBuild(j) PROVE RequestInv'
  BY <1>2 DEF SubmitBuild
<1>3. ASSUME NEW j \in Jobs, SubmitSave(j) PROVE RequestInv'
  BY <1>3 DEF SubmitSave, Save
<1>4. ASSUME NEW j \in Jobs, SubmitEnqueue(j) PROVE RequestInv'
  BY <1>4 DEF SubmitInv, SubmitEnqueue
<1>5. ASSUME NEW g \in Gens, NEW j \in Jobs, Claim(g, j) PROVE RequestInv'
  BY <1>5 DEF Claim, TaskStep
<1>6. ASSUME NEW j \in Jobs, RunMark(j) PROVE RequestInv'
  BY <1>6 DEF RunMark, TaskStep, SetStatus
<1>7. ASSUME NEW j \in Jobs, RunBuild(j) PROVE RequestInv'
  BY <1>7 DEF RunBuild, TaskStep
<1>8. ASSUME NEW j \in Jobs, RunSave(j) PROVE RequestInv'
  BY <1>8 DEF RunSave, TaskStep, Save
<1>9. ASSUME NEW j \in Jobs, WorkEnd(j) PROVE RequestInv'
  BY <1>9 DEF WorkEnd, TaskStep
<1>10. ASSUME NEW j \in Jobs, CheckRunning(j) PROVE RequestInv'
  BY <1>10 DEF CheckRunning, TaskStep
<1>11. ASSUME NEW j \in Jobs, CheckPause(j) PROVE RequestInv'
  BY <1>11 DEF CheckPause, TaskStep
<1>12. ASSUME NEW j \in Jobs, CheckCancel(j) PROVE RequestInv'
  BY <1>12 DEF CheckCancel, TaskStep
<1>13. ASSUME NEW j \in Jobs, Settle(j) PROVE RequestInv'
  BY <1>13 DEF Settle, TaskStep, SetStatus
<1>14. ASSUME NEW j \in Jobs, SetResult(j) PROVE RequestInv'
  BY <1>14 DEF SetResult, TaskStep
<1>15. ASSUME NEW j \in Jobs, FinalBuild(j) PROVE RequestInv'
  BY <1>15 DEF FinalBuild, TaskStep
<1>16. ASSUME NEW j \in Jobs, FinalSave(j) PROVE RequestInv'
  BY <1>16 DEF FinalSave, TaskStep, Save
<1>17. ASSUME NEW j \in Jobs, Cancel(j) PROVE RequestInv'
  BY <1>17 DEF Cancel, NoteRequest
<1>18. ASSUME NEW j \in Jobs, Pause(j) PROVE RequestInv'
  BY <1>18 DEF Pause, NoteRequest
<1>19. ASSUME NEW j \in Jobs, Resume(j) PROVE RequestInv'
  BY <1>19 DEF Resume, SetStatus
<1>20. ASSUME WatchdogBegin PROVE RequestInv'
  BY <1>20 DEF WatchdogBegin, dogFrame
<1>21. ASSUME NEW j \in Jobs, WatchdogCheck(j) PROVE RequestInv'
  BY <1>21 DEF WatchdogCheck, dogFrame
<1>22. ASSUME WatchdogMark PROVE RequestInv'
  BY <1>22 DEF WatchdogMark, SetStatus, dogFrame
<1>23. ASSUME WatchdogBuild PROVE RequestInv'
  BY <1>23 DEF WatchdogBuild, dogFrame
<1>24. ASSUME WatchdogSave PROVE RequestInv'
  BY <1>24 DEF WatchdogSave, Save, dogFrame
<1>25. ASSUME WatchdogEnd PROVE RequestInv'
  BY <1>25 DEF WatchdogEnd, dogFrame
<1>26. ASSUME NEW k \in Killers, KillBegin(k) PROVE RequestInv'
  BY <1>26 DEF KillBegin, killFrame
<1>27. ASSUME NEW k \in Killers, NEW j \in Jobs, KillSkip(k, j) PROVE RequestInv'
  BY <1>27 DEF KillSkip, killFrame
<1>28. ASSUME NEW k \in Killers, NEW j \in Jobs, KillRead(k, j) PROVE RequestInv'
  BY <1>28 DEF KillRead, killFrame
<1>29. ASSUME NEW k \in Killers, KillMark(k) PROVE RequestInv'
  BY <1>29 DEF KillMark, SetStatus, killFrame
<1>30. ASSUME NEW k \in Killers, KillUnlock(k) PROVE RequestInv'
  BY <1>30 DEF KillUnlock, killFrame
<1>31. ASSUME NEW k \in Killers, NEW j \in Jobs, KillBuild(k, j) PROVE RequestInv'
  BY <1>31 DEF KillBuild, killFrame
<1>32. ASSUME NEW k \in Killers, KillSave(k) PROVE RequestInv'
  BY <1>32 DEF KillSave, Save, killFrame
<1>33. ASSUME NEW k \in Killers, RecycleClose(k) PROVE RequestInv'
  BY <1>33 DEF RecycleClose, ClosePool, killFrame
<1>34. ASSUME NEW k \in Killers, RecycleOpen(k) PROVE RequestInv'
  BY <1>34 DEF RecycleOpen, killFrame
<1>35. ASSUME Shutdown PROVE RequestInv'
  BY <1>35 DEF Shutdown, ClosePool
<1>36. ASSUME NEW t \in Taggers, NEW j \in Jobs, TagBuild(t, j) PROVE RequestInv'
  BY <1>36 DEF TagBuild
<1>37. ASSUME NEW t \in Taggers, TagSave(t) PROVE RequestInv'
  BY <1>37 DEF TagSave
<1>38. CASE UNCHANGED vars
  BY <1>38 DEF vars
<1> QED
  BY <1>1, <1>2, <1>3, <1>4, <1>5, <1>6, <1>7, <1>8, <1>9, <1>10, <1>11, <1>12, <1>13, <1>14, <1>15, <1>16, <1>17, <1>18, <1>19, <1>20, <1>21, <1>22, <1>23, <1>24, <1>25, <1>26, <1>27, <1>28, <1>29, <1>30, <1>31, <1>32, <1>33, <1>34, <1>35, <1>36, <1>37, <1>38
    DEF Next, Submit, RunStep, Request, WatchdogStep, KillStep

-----------------------------------------------------------------------------
(* The safety properties.                                                  *)

\* The inductive invariant holds at the start.
LEMMA InitInv == Init => IInv
BY InitType, JobsAssumption
   DEF Init, IInv, SubmitInv, ForcerInv, ThreadInv, RowInv, RequestInv, NoTag,
   Finishing, Terminal, Willing, BeforeEnd

\* The inductive invariant holds in every reachable state.
THEOREM Invariance == Spec => []IInv
<1>1. IInv /\ [Next]_vars => IInv'
  BY TypeStep, SubmitInvStep, ForcerInvStep, ThreadInvStep, RowInvStep, RequestInvStep
    DEF IInv
<1> QED
  BY InitInv, <1>1, PTL DEF Spec

\* A job nobody force-terminated is RUNNING while its thread may be in fn, and
\* once its status is terminal no thread writes it again.
THEOREM StatusTellsThreadHolds == Spec => []StatusTellsThread
<1>1. IInv => StatusTellsThread
  BY DEF IInv, TypeOK, ThreadTypeOK, Tasks, BeforeEnd, Epilogue, ThreadInv,
     StatusTellsThread, Finishing, Terminal, Willing
<1> QED
  BY Invariance, <1>1, PTL

\* A cancel or pause accepted before fn ended is never followed by SUCCEEDED or
\* FAILED, short of a force-termination.
THEOREM RequestHonouredHolds == Spec => []RequestHonoured
<1>1. IInv => RequestHonoured
  BY DEF IInv, RequestInv, RequestHonoured
<1> QED
  BY Invariance, <1>1, PTL

\* When the worker is through, the persisted row shows the live status.
THEOREM RowSettlesHolds == Spec => []RowSettles
<1>1. IInv => RowSettles
  BY DEF IInv, ThreadInv, RowInv, RowSettles, Finishing
<1> QED
  BY Invariance, <1>1, PTL

-----------------------------------------------------------------------------
(* JobManager implements JobLifecycle.                                     *)

\* Every step of the registry is a lifecycle step or leaves status and forced
\* alone; the invariant tells which status the unguarded writes of _run meet.
THEOREM LifecycleRefined == Spec => ImplementsLifecycle
<1>1. Init => Lifecycle!Init
  BY DEF Init, Lifecycle!Init
<1>2. IInv /\ [Next]_vars => [Lifecycle!Next]_(Lifecycle!lifecycleVars)
  <2> SUFFICES ASSUME IInv, [Next]_vars
               PROVE  [Lifecycle!Next]_(Lifecycle!lifecycleVars)
    OBVIOUS
  <2> USE DEF IInv, TypeOK, JobTypeOK
  <2>1. ASSUME NEW j \in Jobs, SubmitRegister(j) PROVE Lifecycle!Submit(j)
    BY <2>1 DEF SubmitRegister, SetStatus, SubmitInv, historyVars, Lifecycle!Submit,
       Lifecycle!Become
  <2>2. ASSUME NEW j \in Jobs, RunMark(j)
        PROVE  Lifecycle!Start(j) \/ Lifecycle!Straggle(j)
    <3>1. CASE forced[j]
      BY <2>2, <3>1 DEF RunMark, SetStatus, historyVars, Lifecycle!Straggle,
         Lifecycle!Become
    <3>2. CASE ~forced[j]
      <4>1. sub[j] # "idle"
        BY <2>2 DEF RunMark, TaskStep, SubmitInv
      <4>2. status[j] = "pending"
        BY <2>2, <3>2, <4>1 DEF RunMark, TaskStep, SubmitInv, ThreadInv
      <4> QED
        BY <2>2, <4>2 DEF RunMark, SetStatus, historyVars, Lifecycle!Start,
           Lifecycle!Become
    <3> QED
      BY <3>1, <3>2
  <2>3. ASSUME NEW j \in Jobs, Settle(j)
        PROVE  Lifecycle!Finish(j) \/ Lifecycle!Straggle(j)
    <3>1. /\ UNCHANGED forced
          /\ \E p \in Lifecycle!Outcomes : Lifecycle!Become(j, p)
      BY <2>3 DEF Settle, SetStatus, historyVars, Lifecycle!Outcomes, Lifecycle!Become
    <3>2. CASE forced[j]
      BY <3>1, <3>2 DEF Lifecycle!Straggle
    <3>3. CASE ~forced[j]
      <4>1. status[j] = "running"
        BY <2>3, <3>3 DEF Settle, TaskStep, ThreadInv, Willing
      <4> QED
        BY <3>1, <4>1 DEF Lifecycle!Finish
    <3> QED
      BY <3>2, <3>3
  <2>4. ASSUME NEW j \in Jobs, Resume(j) PROVE Lifecycle!Resume(j)
    BY <2>4 DEF Resume, SetStatus, Lifecycle!Resume, Lifecycle!Become
  <2>5. ASSUME WatchdogMark PROVE \E j \in Jobs : Lifecycle!Force(j)
    BY <2>5 DEF WatchdogMark, SetStatus, ForcerInv, Lifecycle!Force, Lifecycle!Become
  <2>6. ASSUME NEW k \in Killers, KillMark(k) PROVE \E j \in Jobs : Lifecycle!Force(j)
    BY <2>6 DEF KillMark, SetStatus, ForcerInv, Lifecycle!Force, Lifecycle!Become
  <2>7. ASSUME NEW j \in Jobs,
               \/ SubmitBuild(j) \/ SubmitSave(j) \/ SubmitEnqueue(j)
               \/ RunBuild(j) \/ RunSave(j) \/ WorkEnd(j)
               \/ CheckRunning(j) \/ CheckPause(j) \/ CheckCancel(j)
               \/ SetResult(j) \/ FinalBuild(j) \/ FinalSave(j)
               \/ Cancel(j) \/ Pause(j) \/ WatchdogCheck(j)
               \/ \E g \in Gens : Claim(g, j)
               \/ \E k \in Killers : KillSkip(k, j) \/ KillRead(k, j) \/ KillBuild(k, j)
               \/ \E t \in Taggers : TagBuild(t, j)
        PROVE  UNCHANGED Lifecycle!lifecycleVars
    BY <2>7 DEF SubmitBuild, SubmitSave, SubmitEnqueue, RunBuild, RunSave, WorkEnd,
       CheckRunning, CheckPause, CheckCancel, SetResult, FinalBuild, FinalSave, Cancel,
       Pause, WatchdogCheck, Claim, KillSkip, KillRead, KillBuild, TagBuild, registryVars,
       historyVars, dogFrame, killFrame, Lifecycle!lifecycleVars
  <2>8. ASSUME \/ WatchdogBegin \/ WatchdogBuild \/ WatchdogSave \/ WatchdogEnd
               \/ Shutdown \/ UNCHANGED vars
               \/ \E k \in Killers : \/ KillBegin(k) \/ KillUnlock(k) \/ KillSave(k)
                                     \/ RecycleClose(k) \/ RecycleOpen(k)
               \/ \E t \in Taggers : TagSave(t)
        PROVE  UNCHANGED Lifecycle!lifecycleVars
    BY <2>8 DEF WatchdogBegin, WatchdogBuild, WatchdogSave, WatchdogEnd, Shutdown,
       KillBegin, KillUnlock, KillSave, RecycleClose, RecycleOpen, TagSave, vars,
       registryVars, historyVars, dogFrame, killFrame, Lifecycle!lifecycleVars
  <2> QED
    BY <2>1, <2>2, <2>3, <2>4, <2>5, <2>6, <2>7, <2>8
      DEF Next, Submit, RunStep, Request, WatchdogStep, KillStep, Lifecycle!Next
<1> QED
  BY Invariance, <1>1, <1>2, PTL DEF Spec, ImplementsLifecycle, Lifecycle!Spec
=============================================================================
