---------------------------- MODULE JobLifecycle ----------------------------
(***************************************************************************)
(* What a caller of the job registry may rely on: the states a collection  *)
(* job goes through (SocialScienceResearch/services/jobs.py, JobStatus),    *)
(* with no threads, locks, queues or database rows.  JobManager.tla is the  *)
(* detailed specification; it implements this one.                          *)
(*                                                                          *)
(* A job nobody force-terminated walks none -> pending -> running -> one    *)
(* outcome, and an outcome is final except that a paused job can be resumed *)
(* to pending.  Once the watchdog or kill_stuck has force-terminated a job  *)
(* its abandoned worker may still write over the status (Straggle): that is *)
(* the price of a registry whose workers do not take the registry lock.     *)
(***************************************************************************)

CONSTANT Jobs      \* the job ids

VARIABLES
  phase,           \* the status a reader of the registry sees, per job
  forced           \* has the watchdog or kill_stuck terminated the job?

lifecycleVars == <<phase, forced>>

Outcomes == {"paused", "succeeded", "failed", "cancelled"}
Phases   == {"none", "pending", "running"} \cup Outcomes

LifecycleTypeOK ==
  /\ phase \in [Jobs -> Phases]
  /\ forced \in [Jobs -> BOOLEAN]

Init ==
  /\ phase = [j \in Jobs |-> "none"]
  /\ forced = [j \in Jobs |-> FALSE]

Become(j, p) == phase' = [phase EXCEPT ![j] = p]

Submit(j) == phase[j] = "none" /\ Become(j, "pending") /\ UNCHANGED forced

Start(j) == phase[j] = "pending" /\ Become(j, "running") /\ UNCHANGED forced

Finish(j) ==
  /\ phase[j] = "running"
  /\ \E p \in Outcomes : Become(j, p)
  /\ UNCHANGED forced

Resume(j) == phase[j] = "paused" /\ Become(j, "pending") /\ UNCHANGED forced

\* The watchdog or kill_stuck writes a terminal status.
Force(j) ==
  /\ phase[j] # "none"
  /\ \E p \in {"failed", "cancelled"} : Become(j, p)
  /\ forced' = [forced EXCEPT ![j] = TRUE]

\* The abandoned worker of a force-terminated job writes its own status.
Straggle(j) ==
  /\ forced[j]
  /\ \E p \in Outcomes \cup {"running"} : Become(j, p)
  /\ UNCHANGED forced

Next == \E j \in Jobs :
  \/ Submit(j) \/ Start(j) \/ Finish(j) \/ Resume(j)
  \/ Force(j) \/ Straggle(j)

Spec == Init /\ [][Next]_lifecycleVars
=============================================================================
