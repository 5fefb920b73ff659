-------------------------- MODULE MCWorkspaceTags --------------------------
(* The runtime of the active workspace with tag requests.  Bounds: the      *)
(* process starts in the default workspace and clients only switch between  *)
(* workspaces, never to none; MCWorkspace has the rest, without tags.       *)
EXTENDS WorkspaceRuntime

TagInit == Init /\ pointer = Legacy
TagNext == Next /\ \A r \in Requests : req'[r].kind = "switch" => req'[r].to # NoWs

TagSpec == TagInit /\ [][TagNext]_vars
=============================================================================
