--------------------------- MODULE MCJobProgress ---------------------------
(* What becomes of jobs whose fn may block for ever.  The watchdog and the  *)
(* force-kill are looked at in behaviours of their own: `part` says which  *)
(* of the two a behaviour is about.                                        *)
EXTENDS JobManager

VARIABLE part

\* The job that clients cancel and pause in a stall; the other is left alone.
Asked == CHOOSE j \in Jobs : TRUE

\* In a stall nobody force-kills; while the queue is stuck nobody asks for
\* anything and the watchdog finds nothing.
StallNext ==
  /\ Next /\ UNCHANGED kills
  /\ \A j \in Jobs \ {Asked} : /\ cancelReq'[j] = cancelReq[j]
                             /\ pauseReq'[j] = pauseReq[j]
PoolNext == Next /\ UNCHANGED <<dog, cancelReq, pauseReq>>

ProgressNext ==
  \/ part = "stall" /\ StallNext /\ UNCHANGED part
  \/ part = "pool" /\ PoolNext /\ UNCHANGED part

ProgressInit == part \in {"stall", "pool"} /\ Init
ProgressSpec ==
  /\ ProgressInit /\ [][ProgressNext]_<<part, vars>>
  /\ ThreadsGoOn /\ WF_vars(part = "stall" /\ WatchdogBegin)

\* With the watchdog running, no job stays RUNNING for ever.
StallsEnd == part = "stall" => RunningEnds
=============================================================================
