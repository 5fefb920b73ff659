------------------------------ MODULE MCCorpus ------------------------------
(* The jobs that fill the corpus and, apart from them, the detection that   *)
(* drives such crawls layer by layer.  A detection sees of the tables only  *)
(* the layers of its family, so it keeps a counter of its own for them:     *)
(* `part` says which of the two a behaviour is about, and their state       *)
(* spaces add up instead of multiplying.  Runs are edited in behaviours of  *)
(* one job, and of two jobs at most one collects.                           *)
EXTENDS MCLayerCrawl, EchoDetection

VARIABLE part

corpusVars == <<part, vars, echoVars>>

CorpusInit == part \in {"tables", "edits", "detection"} /\ Init /\ EchoInit
             /\ (part = "detection" => \A v \in Videos : video[v].row = "none")
Collecting(j) == job[j].at \in {"extract", "collect", "deep"}

CorpusNext ==
  \/ /\ part = "tables" /\ (Work \/ (\E j \in Jobs : Die(j)) \/ Restart)
     /\ \A i, j \in Jobs : Collecting(i)' /\ Collecting(j)' => i = j
     /\ UNCHANGED <<part, echoVars>>
  \/ /\ part = "edits" /\ Next /\ (\A j \in Jobs \ {j1} : job'[j] = job[j])
     /\ UNCHANGED <<part, echoVars>>
  \/ part = "detection" /\ EchoNext /\ UNCHANGED <<part, vars>>

\* A job's thread keeps running; nothing is promised of the network.
CorpusSpec ==
  CorpusInit /\ [][CorpusNext]_corpusVars /\ \A j \in Jobs : WF_vars(Saves(j))
=============================================================================
