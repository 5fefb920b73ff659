---------------------------- MODULE MCWorkspace ----------------------------
(* The runtime of the active workspace and, in behaviours of their own, the *)
(* files that name the workspaces and the caches of what is computed in     *)
(* them.  The runtime sees of the files only what a read of them yields, a  *)
(* torn one included, and the caches see of the runtime only its rebinds:   *)
(* `part` says which of the three a behaviour is about.                     *)
EXTENDS WorkspaceRuntime, WorkspaceRegistry, AnalysisCaches

VARIABLE part

mcVars == <<part, vars, regVars, cacheVars>>

MCInit ==
  /\ part \in {"runtime", "files", "caches"} /\ Init /\ RegInit /\ CacheInit
  /\ part # "runtime" => pointer = Legacy
  /\ part # "caches" => kind = "graph"

\* No request is left: the one way a behaviour of the files may end.
Spent ==
  /\ part = "files" /\ requests = MaxCalls /\ (\A a \in Actors : actor[a].at = "idle")
  /\ UNCHANGED mcVars

MCNext ==
  \/ Spent
  \/ part = "runtime" /\ Next /\ UNCHANGED <<part, regVars, cacheVars>>
  \/ part = "files" /\ RegNext /\ UNCHANGED <<part, vars, cacheVars>>
  \/ part = "caches" /\ CacheNext /\ UNCHANGED <<part, vars, regVars>>

\* The event loop and the request threads go on; that the server is started
\* again after a crash is promised by Loop.
MCSpec ==
  /\ MCInit /\ [][MCNext]_mcVars
  /\ WF_vars(part = "runtime" /\ Loop) /\ WF_vars(part = "runtime" /\ Dispatch)
  /\ \A r \in Requests : WF_vars(part = "runtime" /\ Handle(r))
=============================================================================
