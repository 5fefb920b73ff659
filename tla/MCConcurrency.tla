--------------------------- MODULE MCConcurrency ---------------------------
(* The task queue and, in behaviours of their own, the budget that paces    *)
(* what its workers do: `part` says which of the two a behaviour is about.  *)
EXTENDS PriorityQueue, BudgetController, TLC
CONSTANT t1

VARIABLE part

\* Two types of task: comments give way to discovery.
MCKinds == {"channel", "comments"}
MCPriority == ("channel" :> 0) @@ ("comments" :> 3)
\* A comments task and otherwise discovery tasks.
MCKind == [t \in Tasks |-> IF t = t1 THEN "comments" ELSE "channel"]

MCInit == part \in {"queue", "budget"} /\ Init /\ BudgetInit
MCNext ==
  \/ part = "queue" /\ Next /\ UNCHANGED <<part, budgetVars>>
  \/ part = "budget" /\ BudgetNext /\ UNCHANGED <<part, vars>>
MCSpec == MCInit /\ [][MCNext]_<<part, vars, budgetVars>> /\ Fairness
=============================================================================
