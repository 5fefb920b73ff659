---------------------------- MODULE CorpusProofs ----------------------------
(* The tables of LayerCrawl and the record of EchoDetection, for any number *)
(* of videos, jobs, request threads, runs and layers: each inductive        *)
(* invariant is a conjunction of named parts, preserved action by action.   *)
EXTENDS LayerCrawl, EchoDetection, SequenceTheorems, TLAPS

-----------------------------------------------------------------------------
(* The tables of the corpus: the inductive invariant.                      *)

RunRows == [open : BOOLEAN, parent : RunIds]
LayerRows == [index : LayerIds, root : RunIds, parent : LayerIds,
              runs : SUBSET RunIds, found : SUBSET Videos]
VideoRows == [row : {"none", "stub", "full"}, first : RunIds, scraped : BOOLEAN]
FetchRows == [had : BOOLEAN, info : BOOLEAN, out : {"none", "ok", "error", "raised"}]
JobStates ==
  [at : {"idle", "extract", "collect", "deep", "bulk", "saving", "enrich", "write"},
   root : RunIds, parent : LayerIds, index : LayerIds,
   short : SUBSET Videos, pend : SUBSET Videos, box : [Videos -> FetchRows],
   cur : SUBSET Videos, run : RunIds, first : RunIds,
   runs : SUBSET RunIds, found : SUBSET Videos, got : SUBSET Videos]

Full(v) == video[v].row = "full"

VideosOK ==
  /\ video \in [Videos -> VideoRows]
  /\ \A v \in Videos : Full(v) => video[v].first # 0
  /\ \A v \in Videos : video[v].scraped => v \in seen
  /\ seen \subseteq Videos

EdgesOK ==
  /\ edge \subseteq [run : 1..MaxRuns, src : Videos, dst : Videos]
  /\ \A e \in edge : e.src \in seen

\* A layer's index is at most its place, so no crawl runs out of indices.
LayersOK ==
  /\ layer \in Seq(LayerRows) /\ Len(layer) <= MaxLayers
  /\ \A l \in DOMAIN layer : layer[l].index <= l
  /\ DiscoveredKept

InRun(j) == job[j].at \in {"extract", "collect", "deep", "saving"}
\* A run that was begun and that no job will finish any more.
Over(r) == r \in DOMAIN run \ strand /\ \A j \in Jobs : InRun(j) => job[j].run # r
\* A closed copy is of a run that is over.
CopiesMade ==
  /\ edit \in [Editors -> [run : RunIds, open : BOOLEAN]]
  /\ \A e \in Editors : edit[e].run # 0 =>
       /\ edit[e].run \in DOMAIN run
       /\ ~edit[e].open => Over(edit[e].run)
\* A run is open exactly while one job is in it, or one has died in it, or an
\* open copy was saved over its end.
LedgerOK ==
  /\ run \in Seq(RunRows) /\ Len(run) <= MaxRuns
  /\ strand \subseteq DOMAIN run /\ reopened \subseteq DOMAIN run
  /\ \A j \in Jobs : InRun(j) => job[j].run \in DOMAIN run \ (strand \cup reopened)
  /\ \A i, j \in Jobs : InRun(i) /\ InRun(j) /\ job[i].run = job[j].run => i = j
  /\ \A r \in DOMAIN run :
       run[r].open <=> \/ r \in strand \cup reopened
                       \/ \E j \in Jobs : InRun(j) /\ job[j].run = r
  /\ CopiesMade

JobOK(j) ==
  /\ job[j].runs \subseteq DOMAIN run
  /\ job[j].at = "write" => job[j].run \in DOMAIN run
  /\ job[j].index <= Len(layer) + 1
  /\ \A v \in job[j].found \cup job[j].got : Full(v)
  /\ \A v \in Videos : job[j].box[v].info => ~job[j].box[v].had
  /\ job[j].at \in {"enrich", "write"} => job[j].pend \cap job[j].got = {}
  /\ job[j].at = "write" => job[j].pend \cap job[j].cur = {}

JobsOK == job \in [Jobs -> JobStates] /\ \A j \in Jobs : JobOK(j)

CrawlInv == VideosOK /\ EdgesOK /\ LayersOK /\ LedgerOK /\ JobsOK

USE VideoAssumption, BoundAssumption

\* Rows of the ledger: one more, and one closed.
LEMMA BegunFacts ==
  ASSUME run \in Seq(RunRows), Len(run) < MaxRuns, NEW p \in RunIds
  PROVE  /\ Begun(p) \in Seq(RunRows) /\ Len(Begun(p)) = Len(run) + 1
         /\ DOMAIN Begun(p) = DOMAIN run \cup {Len(run) + 1}
         /\ \A r \in DOMAIN run : Begun(p)[r] = run[r]
         /\ Begun(p)[Len(run) + 1] = [open |-> TRUE, parent |-> p]
         /\ Len(run) + 1 \notin DOMAIN run /\ Len(run) + 1 \in RunIds \ {0}
<1>1. [open |-> TRUE, parent |-> p] \in RunRows
  BY DEF RunRows
<1>2. Len(run) \in Nat /\ DOMAIN run = 1..Len(run)
  BY LenProperties
<1> QED BY <1>1, <1>2, AppendProperties DEF Begun, RunIds

\* A row of the ledger is closed.
LEMMA FinishedFacts ==
  ASSUME run \in Seq(RunRows), NEW r \in DOMAIN run
  PROVE  /\ Finished(r) \in Seq(RunRows) /\ Len(Finished(r)) = Len(run)
         /\ DOMAIN Finished(r) = DOMAIN run /\ Finished(r)[r].open = FALSE
         /\ \A s \in DOMAIN run \ {r} : Finished(r)[s] = run[s]
<1>1. Finished(r) = [run EXCEPT ![r] = [run[r] EXCEPT !.open = FALSE]]
  BY DEF Finished
<1>2. run[r] \in RunRows /\ DOMAIN run = 1..Len(run)
  BY ElementOfSeq, LenProperties
<1>3. [run[r] EXCEPT !.open = FALSE] \in RunRows /\ [run[r] EXCEPT !.open = FALSE].open = FALSE
  BY <1>2 DEF RunRows
<1> QED BY <1>1, <1>2, <1>3, ExceptSeq

\* A row of the layers is added.
LEMMA LayerFacts ==
  ASSUME layer \in Seq(LayerRows), Len(layer) < MaxLayers, NEW row \in LayerRows
  PROVE  /\ Append(layer, row) \in Seq(LayerRows)
         /\ Len(Append(layer, row)) = Len(layer) + 1
         /\ DOMAIN Append(layer, row) = DOMAIN layer \cup {Len(layer) + 1}
         /\ \A l \in DOMAIN layer : Append(layer, row)[l] = layer[l]
         /\ Append(layer, row)[Len(layer) + 1] = row
         /\ Len(layer) + 1 \notin DOMAIN layer /\ Len(layer) + 1 \in LayerIds
<1>1. Len(layer) \in Nat /\ DOMAIN layer = 1..Len(layer)
  BY LenProperties
<1> QED BY <1>1, AppendProperties DEF LayerIds

-----------------------------------------------------------------------------
(* What a step may leave alone.                                            *)

\* The job in hand moves, the tables only grow.
LEMMA Frame ==
  ASSUME CrawlInv, NEW j \in Jobs, NEW new \in JobStates, job' = [job EXCEPT ![j] = new],
         DOMAIN run \subseteq DOMAIN run', Len(layer) <= Len(layer'), Len(layer') \in Nat,
         \A v \in Videos : Full(v) => Full(v)',
         VideosOK', EdgesOK', LayersOK', LedgerOK', JobOK(j)'
  PROVE  CrawlInv'
<1>1. job' \in [Jobs -> JobStates]
  BY DEF CrawlInv, JobsOK
<1>2. ASSUME NEW i \in Jobs \ {j} PROVE JobOK(i)'
  <2>1. job'[i] = job[i] /\ JobOK(i) /\ job[i] \in JobStates
    BY DEF CrawlInv, JobsOK
  <2>2. job[i].found \cup job[i].got \subseteq Videos /\ job[i].index \in Nat
    BY <2>1 DEF JobStates, LayerIds
  <2>3. Len(layer) \in Nat
    BY LenProperties DEF CrawlInv, LayersOK
  <2> QED BY <2>1, <2>2, <2>3 DEF JobOK
<1> QED BY <1>1, <1>2 DEF CrawlInv, JobsOK

\* No run begins, ends or is left.
LEMMA LedgerKept ==
  ASSUME LedgerOK, UNCHANGED <<run, strand, editVars>>, NEW j \in Jobs, InRun(j)' <=> InRun(j),
         InRun(j) => job'[j].run = job[j].run, \A i \in Jobs \ {j} : job'[i] = job[i]
  PROVE  LedgerOK'
<1>1. \A i \in Jobs : (InRun(i)' <=> InRun(i)) /\ (InRun(i) => job'[i].run = job[i].run)
  BY DEF InRun
<1>2. UNCHANGED <<edit, reopened>>
  BY DEF editVars
<1>3. CopiesMade'
  BY <1>1, <1>2 DEF LedgerOK, CopiesMade, Over
<1> QED BY <1>1, <1>2, <1>3 DEF LedgerOK

\* A job begins a run.
LEMMA LedgerBegun ==
  ASSUME LedgerOK, NEW p \in RunIds, run' = Begun(p), Len(run) < MaxRuns,
         UNCHANGED <<strand, editVars>>,
         NEW j \in Jobs, ~InRun(j), InRun(j)', job'[j].run = Len(run) + 1,
         \A i \in Jobs \ {j} : job'[i] = job[i]
  PROVE  LedgerOK'
<1>1. /\ run' \in Seq(RunRows) /\ Len(run') = Len(run) + 1
      /\ DOMAIN run' = DOMAIN run \cup {Len(run) + 1}
      /\ \A r \in DOMAIN run : run'[r] = run[r]
      /\ run'[Len(run) + 1].open /\ Len(run) + 1 \notin DOMAIN run
  <2>1. run \in Seq(RunRows)
    BY DEF LedgerOK
  <2>2. /\ Begun(p) \in Seq(RunRows) /\ Len(Begun(p)) = Len(run) + 1
        /\ DOMAIN Begun(p) = DOMAIN run \cup {Len(run) + 1}
        /\ \A r \in DOMAIN run : Begun(p)[r] = run[r]
        /\ Begun(p)[Len(run) + 1] = [open |-> TRUE, parent |-> p]
        /\ Len(run) + 1 \notin DOMAIN run
    BY <2>1, BegunFacts
  <2> QED BY <2>2
<1>2. /\ \A i \in Jobs \ {j} : (InRun(i)' <=> InRun(i)) /\ job'[i].run = job[i].run
      /\ UNCHANGED <<edit, reopened>>
  BY DEF InRun, editVars
<1>3. Len(run') <= MaxRuns
  BY <1>1, LenProperties DEF LedgerOK
<1>4. \A i \in Jobs : InRun(i)' => job'[i].run \in DOMAIN run' \ (strand' \cup reopened')
  BY <1>1, <1>2 DEF LedgerOK
<1>5. \A i, k \in Jobs : InRun(i)' /\ InRun(k)' /\ job'[i].run = job'[k].run => i = k
  BY <1>1, <1>2 DEF LedgerOK
<1>6. \A r \in DOMAIN run' :
        run'[r].open <=> r \in strand' \cup reopened' \/ \E i \in Jobs : InRun(i)' /\ job'[i].run = r
  <2> SUFFICES ASSUME NEW r \in DOMAIN run'
               PROVE  run'[r].open <=> r \in strand' \cup reopened' \/ \E i \in Jobs : InRun(i)' /\ job'[i].run = r
    OBVIOUS
  <2>1. CASE r = Len(run) + 1
    BY <1>1, <2>1
  <2>2. CASE r # Len(run) + 1
    <3>1. r \in DOMAIN run /\ run'[r] = run[r]
      BY <1>1, <2>2
    <3>2. run[r].open <=> r \in strand \cup reopened \/ \E i \in Jobs : InRun(i) /\ job[i].run = r
      BY <3>1 DEF LedgerOK
    <3>3. ASSUME NEW i \in Jobs PROVE InRun(i)' /\ job'[i].run = r <=> InRun(i) /\ job[i].run = r
      BY <1>2, <2>2
    <3> QED BY <1>2, <3>1, <3>2, <3>3
  <2> QED BY <2>1, <2>2
<1>7. CopiesMade'
  BY <1>1, <1>2 DEF LedgerOK, CopiesMade, Over
<1> QED BY <1>1, <1>2, <1>3, <1>4, <1>5, <1>6, <1>7 DEF LedgerOK

\* A job finishes its run.
LEMMA LedgerFinished ==
  ASSUME LedgerOK, UNCHANGED <<strand, editVars>>, NEW j \in Jobs, InRun(j), ~InRun(j)',
         run' = Finished(job[j].run), \A i \in Jobs \ {j} : job'[i] = job[i]
  PROVE  LedgerOK' /\ DOMAIN run' = DOMAIN run
<1> DEFINE s == job[j].run
<1>0. s \in DOMAIN run /\ s \notin strand \cup reopened /\ run \in Seq(RunRows)
  BY DEF LedgerOK
<1>1. /\ run' \in Seq(RunRows) /\ Len(run') = Len(run)
      /\ DOMAIN run' = DOMAIN run /\ run'[s].open = FALSE
      /\ \A r \in DOMAIN run \ {s} : run'[r] = run[r]
  BY <1>0, FinishedFacts
<1>2. /\ \A i \in Jobs \ {j} : (InRun(i)' <=> InRun(i)) /\ job'[i].run = job[i].run
      /\ UNCHANGED <<edit, reopened>>
  BY DEF InRun, editVars
<1>3. \A i \in Jobs \ {j} : InRun(i) => job[i].run # s
  BY DEF LedgerOK
<1>4. \A i \in Jobs : InRun(i)' => job'[i].run \in DOMAIN run' \ (strand' \cup reopened')
  BY <1>1, <1>2 DEF LedgerOK
<1>5. \A i, k \in Jobs : InRun(i)' /\ InRun(k)' /\ job'[i].run = job'[k].run => i = k
  BY <1>2 DEF LedgerOK
<1>6. \A r \in DOMAIN run' :
        run'[r].open <=> r \in strand' \cup reopened' \/ \E i \in Jobs : InRun(i)' /\ job'[i].run = r
  <2> SUFFICES ASSUME NEW r \in DOMAIN run'
               PROVE  run'[r].open <=> r \in strand' \cup reopened' \/ \E i \in Jobs : InRun(i)' /\ job'[i].run = r
    OBVIOUS
  <2>1. CASE r = s
    <3>1. \A i \in Jobs : ~(InRun(i)' /\ job'[i].run = r)
      BY <1>2, <1>3, <2>1
    <3> QED BY <1>0, <1>1, <1>2, <2>1, <3>1
  <2>2. CASE r # s
    <3>1. r \in DOMAIN run /\ run'[r] = run[r]
      BY <1>1, <2>2
    <3>2. run[r].open <=> r \in strand \cup reopened \/ \E i \in Jobs : InRun(i) /\ job[i].run = r
      BY <3>1 DEF LedgerOK
    <3>3. ASSUME NEW i \in Jobs PROVE InRun(i)' /\ job'[i].run = r <=> InRun(i) /\ job[i].run = r
      BY <1>2, <2>2
    <3> QED BY <1>2, <3>1, <3>2, <3>3
  <2> QED BY <2>1, <2>2
<1>7. CopiesMade'
  BY <1>1, <1>2 DEF LedgerOK, CopiesMade, Over
<1> QED BY <1>0, <1>1, <1>2, <1>4, <1>5, <1>6, <1>7 DEF LedgerOK

\* A video row is written: it stays or becomes full, with a run.
LEMMA UpsertFacts ==
  ASSUME VideosOK, NEW v \in Videos, NEW r \in RunIds \ {0}, video' = Upsert(v, r),
         UNCHANGED seen
  PROVE  /\ VideosOK' /\ Full(v)'
         /\ \A w \in Videos : Full(w) => Full(w)'
BY DEF VideosOK, VideoRows, Upsert, Full

\* Layers stay sound while videos stay full.
LEMMA LayersKept ==
  ASSUME LayersOK, UNCHANGED layer, \A w \in Videos : Full(w) => Full(w)'
  PROVE  LayersOK'
<1>1. \A l \in DOMAIN layer : layer[l].found \subseteq Videos
  <2> SUFFICES ASSUME NEW l \in DOMAIN layer PROVE layer[l].found \subseteq Videos
    OBVIOUS
  <2>1. layer[l] \in LayerRows
    BY LenProperties, ElementOfSeq DEF LayersOK
  <2> QED BY <2>1 DEF LayerRows
<1> QED BY <1>1 DEF LayersOK, DiscoveredKept, Incomplete, Full

-----------------------------------------------------------------------------
(* Init, and one lemma per action.                                         *)

\* A thread of the pool without a crawl.
LEMMA IdleFacts ==
  /\ Idle \in JobStates /\ Idle.at = "idle" /\ Idle.runs = {} /\ Idle.index = 0
  /\ Idle.found = {} /\ Idle.got = {} /\ \A v \in Videos : ~Idle.box[v].info
<1>1. NoFetch \in FetchRows /\ NoFetch.info = FALSE
  BY DEF NoFetch, FetchRows
<1> QED BY <1>1 DEF Idle, JobStates, RunIds, LayerIds

\* The corpus may hold stubs at first, and nothing else.
LEMMA CrawlInitInv == Init => CrawlInv
<1> SUFFICES ASSUME Init PROVE CrawlInv
  OBVIOUS
<1>1. /\ edge = {} /\ run = <<>> /\ layer = <<>> /\ job = [j \in Jobs |-> Idle]
      /\ seen = {} /\ strand = {} /\ edit = [e \in Editors |-> NoCopy] /\ reopened = {}
  BY DEF Init
<1>2. VideosOK
  BY DEF Init, VideosOK, VideoRows, Full, RunIds
<1>3. EdgesOK
  BY <1>1 DEF EdgesOK
<1>4. LayersOK
  BY <1>1 DEF LayersOK, DiscoveredKept
<1>5. LedgerOK
  BY <1>1, IdleFacts DEF LedgerOK, CopiesMade, NoCopy, RunIds, InRun
<1>6. JobsOK
  BY <1>1, IdleFacts DEF JobsOK, JobOK
<1> QED BY <1>2, <1>3, <1>4, <1>5, <1>6 DEF CrawlInv

\* What the parts of the invariant say of the tables.
LEMMA TableFacts ==
  ASSUME CrawlInv
  PROVE  /\ VideosOK /\ EdgesOK /\ LayersOK /\ LedgerOK /\ JobsOK
         /\ job \in [Jobs -> JobStates] /\ \A j \in Jobs : JobOK(j)
         /\ Len(layer) \in Nat /\ DOMAIN layer = 1..Len(layer)
         /\ DOMAIN run = 1..Len(run) /\ Len(run) \in Nat /\ DOMAIN run \subseteq RunIds \ {0}
         /\ \A l \in DOMAIN layer : layer[l] \in LayerRows
         /\ \A r \in DOMAIN run : run[r] \in RunRows
<1>1. VideosOK /\ EdgesOK /\ LayersOK /\ LedgerOK /\ JobsOK
  BY DEF CrawlInv
<1>2. run \in Seq(RunRows) /\ layer \in Seq(LayerRows) /\ Len(run) <= MaxRuns
  BY <1>1 DEF LayersOK, LedgerOK
<1>3. /\ Len(layer) \in Nat /\ DOMAIN layer = 1..Len(layer)
      /\ DOMAIN run = 1..Len(run) /\ Len(run) \in Nat
  BY <1>2, LenProperties
<1>4. /\ \A l \in DOMAIN layer : layer[l] \in LayerRows
      /\ \A r \in DOMAIN run : run[r] \in RunRows
  BY <1>2, <1>3, ElementOfSeq
<1> QED BY <1>1, <1>2, <1>3, <1>4 DEF JobsOK, RunIds

\* A collection begins: its run has no parent.
LEMMA CollectInv == ASSUME CrawlInv, NEW j \in Jobs, Collect(j) PROVE CrawlInv'
<1>0. /\ job \in [Jobs -> JobStates] /\ Len(run) \in Nat /\ Len(layer) \in Nat /\ LedgerOK
      /\ VideosOK /\ EdgesOK /\ LayersOK /\ 0 \in RunIds
  BY TableFacts DEF RunIds
<1> DEFINE new == [Idle EXCEPT !.at = "extract", !.run = Len(run) + 1]
<1>1. /\ job[j].at = "idle" /\ Len(run) < MaxRuns /\ run' = Begun(0)
      /\ job' = [job EXCEPT ![j] = new]
      /\ UNCHANGED <<video, edge, layer, seen, strand, editVars>>
  BY DEF Collect
<1>2. new \in JobStates
  <2>1. Len(run) + 1 \in RunIds
    BY <1>0, <1>1 DEF RunIds
  <2> QED BY <2>1, IdleFacts DEF JobStates
<1>3. /\ new.at = "extract" /\ new.run = Len(run) + 1 /\ new.runs = {} /\ new.index = 0
      /\ new.found = {} /\ new.got = {} /\ \A v \in Videos : ~new.box[v].info
  BY IdleFacts DEF JobStates
<1> HIDE DEF new
<1>4. job'[j] = new /\ \A i \in Jobs \ {j} : job'[i] = job[i]
  BY <1>0, <1>1
<1>5. LedgerOK'
  BY <1>0, <1>1, <1>3, <1>4, LedgerBegun DEF InRun
<1>6. DOMAIN run \subseteq DOMAIN run' /\ Len(layer) <= Len(layer') /\ Len(layer') \in Nat
  <2>1. run \in Seq(RunRows)
    BY <1>0 DEF LedgerOK
  <2>2. DOMAIN Begun(0) = DOMAIN run \cup {Len(run) + 1}
    BY <1>0, <1>1, <2>1, BegunFacts
  <2> QED BY <1>0, <1>1, <2>2
<1>7. JobOK(j)'
  BY <1>0, <1>1, <1>3, <1>4 DEF JobOK
<1>8. VideosOK' /\ EdgesOK' /\ \A v \in Videos : Full(v) => Full(v)'
  BY <1>0, <1>1 DEF VideosOK, EdgesOK, Full
<1>9. LayersOK'
  BY <1>0, <1>1, <1>8, LayersKept
<1> QED BY <1>1, <1>2, <1>5, <1>6, <1>7, <1>8, <1>9, Frame

\* A collected video becomes the collection's.
LEMMA CollectVideoInv ==
  ASSUME CrawlInv, NEW j \in Jobs, NEW v \in Videos, CollectVideo(j, v) PROVE CrawlInv'
<1>0. /\ job \in [Jobs -> JobStates] /\ Len(layer) \in Nat /\ LedgerOK /\ JobOK(j)
      /\ VideosOK /\ EdgesOK /\ LayersOK /\ DOMAIN run \subseteq RunIds \ {0}
      /\ job[j] \in JobStates
  BY TableFacts
<1> DEFINE new == [job[j] EXCEPT !.pend = @ \ {v}]
<1>1. /\ job[j].at = "collect" /\ video' = Upsert(v, job[j].run)
      /\ job' = [job EXCEPT ![j] = new]
      /\ UNCHANGED <<edge, run, layer, seen, strand, editVars>>
  BY DEF CollectVideo
<1>2. /\ new \in JobStates /\ new.at = "collect" /\ new.run = job[j].run
      /\ new.runs = job[j].runs /\ new.index = job[j].index /\ new.found = job[j].found
      /\ new.got = job[j].got /\ new.box = job[j].box
  BY <1>0, <1>1 DEF JobStates
<1> HIDE DEF new
<1>3. job'[j] = new /\ \A i \in Jobs \ {j} : job'[i] = job[i]
  BY <1>0, <1>1
<1>4. job[j].run \in RunIds \ {0}
  BY <1>0, <1>1 DEF LedgerOK, InRun
<1>5. VideosOK' /\ \A w \in Videos : Full(w) => Full(w)'
  BY <1>0, <1>1, <1>4, UpsertFacts
<1>6. LayersOK' /\ EdgesOK'
  BY <1>0, <1>1, <1>5, LayersKept DEF EdgesOK
<1>7. LedgerOK'
  BY <1>0, <1>1, <1>2, <1>3, LedgerKept DEF InRun
<1>8. JobOK(j)'
  BY <1>0, <1>1, <1>2, <1>3, <1>5 DEF JobOK, JobStates
<1>9. DOMAIN run \subseteq DOMAIN run' /\ Len(layer) <= Len(layer') /\ Len(layer') \in Nat
  BY <1>0, <1>1
<1> QED BY <1>1, <1>2, <1>5, <1>6, <1>7, <1>8, <1>9, Frame

\* A job is over without touching the videos.
LEMMA IdleInv ==
  ASSUME CrawlInv, NEW j \in Jobs, job' = [job EXCEPT ![j] = Idle],
         UNCHANGED <<video, edge, seen>>, DOMAIN run \subseteq DOMAIN run',
         Len(layer) <= Len(layer'), Len(layer') \in Nat, LayersOK', LedgerOK'
  PROVE  CrawlInv'
<1>0. job \in [Jobs -> JobStates] /\ VideosOK /\ EdgesOK
  BY TableFacts
<1>1. job'[j] = Idle
  BY <1>0
<1>2. JobOK(j)'
  BY <1>1, IdleFacts DEF JobOK
<1>3. VideosOK' /\ EdgesOK' /\ \A v \in Videos : Full(v) => Full(v)'
  BY <1>0 DEF VideosOK, EdgesOK, Full
<1> QED BY <1>2, <1>3, IdleFacts, Frame

\* A collection ends: its run is closed.
LEMMA CollectEndInv == ASSUME CrawlInv, NEW j \in Jobs, CollectEnd(j) PROVE CrawlInv'
<1>0. /\ job \in [Jobs -> JobStates] /\ Len(layer) \in Nat /\ LedgerOK /\ LayersOK
  BY TableFacts
<1>1. /\ InRun(j) /\ run' = Finished(job[j].run) /\ job' = [job EXCEPT ![j] = Idle]
      /\ UNCHANGED <<video, edge, layer, seen, strand, editVars>>
  BY DEF CollectEnd, InRun
<1>2. job'[j] = Idle /\ \A i \in Jobs \ {j} : job'[i] = job[i]
  BY <1>0, <1>1
<1>3. LedgerOK' /\ DOMAIN run' = DOMAIN run
  BY <1>0, <1>1, <1>2, IdleFacts, LedgerFinished DEF InRun
<1>4. LayersOK'
  BY <1>0, <1>1, LayersKept DEF Full
<1>5. DOMAIN run \subseteq DOMAIN run' /\ Len(layer) <= Len(layer') /\ Len(layer') \in Nat
  BY <1>0, <1>1, <1>3
<1> QED BY <1>1, <1>3, <1>4, <1>5, IdleInv

\* Only a job's own state changes, and not whether it is in a run.
LEMMA MoveInv ==
  ASSUME CrawlInv, NEW j \in Jobs, NEW new \in JobStates, job' = [job EXCEPT ![j] = new],
         UNCHANGED <<video, edge, run, layer, seen, strand, editVars>>,
         new.at \in {"extract", "collect", "deep", "saving"} <=> InRun(j), InRun(j) => new.run = job[j].run,
         JobOK(j)'
  PROVE  CrawlInv'
<1>0. /\ job \in [Jobs -> JobStates] /\ Len(layer) \in Nat /\ LedgerOK /\ VideosOK
      /\ EdgesOK /\ LayersOK
  BY TableFacts
<1>1. job'[j] = new /\ \A i \in Jobs \ {j} : job'[i] = job[i]
  BY <1>0
<1>2. VideosOK' /\ EdgesOK' /\ \A v \in Videos : Full(v) => Full(v)'
  BY <1>0 DEF VideosOK, EdgesOK, Full
<1>3. LayersOK'
  BY <1>0, <1>2, LayersKept
<1>4. LedgerOK'
  BY <1>0, <1>1, LedgerKept DEF InRun
<1>5. DOMAIN run \subseteq DOMAIN run' /\ Len(layer) <= Len(layer') /\ Len(layer') \in Nat
  BY <1>0
<1> QED BY <1>2, <1>3, <1>4, <1>5, Frame

\* A collection's state moves on within its run: no table changes.
LEMMA PhaseInv ==
  ASSUME CrawlInv, NEW j \in Jobs, InRun(j), NEW at \in {"collect", "deep"},
         NEW pend \in SUBSET Videos, NEW box \in [Videos -> FetchRows],
         \A w \in Videos : box[w].info => ~box[w].had,
         job' = [job EXCEPT ![j] = [job[j] EXCEPT !.at = at, !.pend = pend, !.box = box]],
         UNCHANGED <<video, edge, run, layer, seen, strand, editVars>>
  PROVE  CrawlInv'
<1>0. job \in [Jobs -> JobStates] /\ JobOK(j) /\ job[j] \in JobStates
  BY TableFacts
<1> DEFINE new == [job[j] EXCEPT !.at = at, !.pend = pend, !.box = box]
<1>1. /\ new \in JobStates /\ new.at = at /\ new.run = job[j].run /\ new.runs = job[j].runs
      /\ new.index = job[j].index /\ new.found = job[j].found /\ new.got = job[j].got
      /\ new.box = box /\ job' = [job EXCEPT ![j] = new]
  BY <1>0 DEF JobStates
<1> HIDE DEF new
<1>2. job'[j] = new
  BY <1>0, <1>1
<1>3. JobOK(j)'
  BY <1>0, <1>1, <1>2 DEF JobOK, Full
<1> QED BY <1>1, <1>3, MoveInv DEF InRun

\* The channel is extracted, or cannot be.
LEMMA ExtractChannelInv == ASSUME CrawlInv, NEW j \in Jobs, ExtractChannel(j) PROVE CrawlInv'
<1>0. job \in [Jobs -> JobStates] /\ JobOK(j) /\ job[j] \in JobStates
  BY TableFacts
<1>1. /\ InRun(j) /\ Channel \in SUBSET Videos /\ job[j].pend \in SUBSET Videos
      /\ job[j].box \in [Videos -> FetchRows]
      /\ \A w \in Videos : job[j].box[w].info => ~job[j].box[w].had
      /\ UNCHANGED <<video, edge, run, layer, seen, strand, editVars>>
  BY <1>0 DEF ExtractChannel, InRun, JobStates, JobOK
<1>2. PICK at \in {"collect", "deep"}, pend \in {Channel, job[j].pend} :
        job' = [job EXCEPT ![j] = [job[j] EXCEPT !.at = at, !.pend = pend, !.box = job[j].box]]
  <2>1. \/ job' = [job EXCEPT ![j] = [job[j] EXCEPT !.at = "collect", !.pend = Channel,
                                                    !.box = job[j].box]]
        \/ job' = [job EXCEPT ![j] = [job[j] EXCEPT !.at = "deep", !.pend = job[j].pend,
                                                    !.box = job[j].box]]
    BY <1>0 DEF ExtractChannel, JobStates
  <2> QED BY <2>1
<1> QED BY <1>1, <1>2, PhaseInv

\* The videos to enrich are chosen.
LEMMA StartDeepInv == ASSUME CrawlInv, NEW j \in Jobs, StartDeep(j) PROVE CrawlInv'
<1>0. job \in [Jobs -> JobStates] /\ JobOK(j) /\ job[j] \in JobStates
  BY TableFacts
<1>1. /\ InRun(j) /\ job[j].box \in [Videos -> FetchRows]
      /\ \A w \in Videos : job[j].box[w].info => ~job[j].box[w].had
      /\ UNCHANGED <<video, edge, run, layer, seen, strand, editVars>>
  BY <1>0 DEF StartDeep, InRun, JobStates, JobOK
<1>2. PICK some \in SUBSET Channel : job' = [job EXCEPT ![j].at = "deep", ![j].pend = some]
  BY DEF StartDeep
<1>3. some \in SUBSET Videos
  OBVIOUS
<1>4. job' = [job EXCEPT ![j] = [job[j] EXCEPT !.at = "deep", !.pend = some, !.box = job[j].box]]
  BY <1>0, <1>2 DEF JobStates
<1> QED BY <1>1, <1>3, <1>4, PhaseInv

\* A video's enrichment brings a transcript, or nothing.
LEMMA EnrichTaskInv ==
  ASSUME CrawlInv, NEW j \in Jobs, NEW v \in Videos, EnrichTask(j, v) PROVE CrawlInv'
<1>0. job \in [Jobs -> JobStates] /\ JobOK(j) /\ job[j] \in JobStates
  BY TableFacts
<1>1. /\ InRun(j) /\ job[j].at = "deep" /\ job[j].pend \ {v} \in SUBSET Videos
      /\ UNCHANGED <<video, edge, run, layer, seen, strand, editVars>>
  BY <1>0 DEF EnrichTask, InRun, JobStates
<1>2. PICK transcript \in BOOLEAN :
        job' = [job EXCEPT ![j].pend = @ \ {v},
                  ![j].box[v].out = IF transcript THEN "ok" ELSE @]
  BY DEF EnrichTask
<1> DEFINE f == [job[j].box[v] EXCEPT !.out = IF transcript THEN "ok" ELSE @]
           box == [job[j].box EXCEPT ![v] = f]
<1>3. job[j].box \in [Videos -> FetchRows] /\ job[j].box[v] \in FetchRows
  BY <1>0 DEF JobStates
<1>4. f \in FetchRows /\ f.info = job[j].box[v].info /\ f.had = job[j].box[v].had
  BY <1>3 DEF FetchRows
<1>5. job' = [job EXCEPT ![j] = [job[j] EXCEPT !.at = "deep", !.pend = job[j].pend \ {v}, !.box = box]]
  BY <1>0, <1>1, <1>2, <1>3 DEF JobStates
<1> HIDE DEF f
<1>6. box \in [Videos -> FetchRows] /\ \A w \in Videos : box[w].info => ~box[w].had
  BY <1>0, <1>3, <1>4 DEF JobOK
<1> HIDE DEF box
<1> QED BY <1>1, <1>5, <1>6, PhaseInv

\* A transcript is saved with the video it was made for.
LEMMA SaveTranscriptInv ==
  ASSUME CrawlInv, NEW j \in Jobs, NEW v \in Videos, SaveTranscript(j, v) PROVE CrawlInv'
<1>0. /\ job \in [Jobs -> JobStates] /\ Len(layer) \in Nat /\ LedgerOK /\ JobOK(j)
      /\ VideosOK /\ EdgesOK /\ LayersOK /\ DOMAIN run \subseteq RunIds \ {0}
      /\ job[j] \in JobStates
  BY TableFacts
<1> DEFINE new == [job[j] EXCEPT !.box = [@ EXCEPT ![v] = NoFetch]]
<1>1. /\ job[j].at = "deep" /\ video' = Upsert(v, job[j].run)
      /\ UNCHANGED <<edge, run, layer, seen, strand, editVars>>
  BY DEF SaveTranscript
<1>2. job' = [job EXCEPT ![j] = new]
  BY <1>0 DEF SaveTranscript, JobStates
<1>3. NoFetch \in FetchRows /\ ~NoFetch.info
  BY DEF NoFetch, FetchRows
<1>4. /\ new \in JobStates /\ new.at = "deep" /\ new.run = job[j].run
      /\ new.runs = job[j].runs /\ new.index = job[j].index /\ new.found = job[j].found
      /\ new.got = job[j].got
  BY <1>0, <1>1, <1>3 DEF JobStates
<1>5. \A w \in Videos : new.box[w].info => ~new.box[w].had
  BY <1>0, <1>3 DEF JobStates, JobOK
<1> HIDE DEF new
<1>6. job'[j] = new /\ \A i \in Jobs \ {j} : job'[i] = job[i]
  BY <1>0, <1>2
<1>7. job[j].run \in RunIds \ {0}
  BY <1>0, <1>1 DEF LedgerOK, InRun
<1>8. VideosOK' /\ \A w \in Videos : Full(w) => Full(w)'
  BY <1>0, <1>1, <1>7, UpsertFacts
<1>9. LayersOK' /\ EdgesOK'
  BY <1>0, <1>1, <1>8, LayersKept DEF EdgesOK
<1>10. LedgerOK'
  BY <1>0, <1>1, <1>4, <1>6, LedgerKept DEF InRun
<1>11. JobOK(j)'
  BY <1>0, <1>1, <1>4, <1>5, <1>6, <1>8 DEF JobOK, JobStates
<1>12. DOMAIN run \subseteq DOMAIN run' /\ Len(layer) <= Len(layer') /\ Len(layer') \in Nat
  BY <1>0, <1>1
<1> QED BY <1>2, <1>4, <1>8, <1>9, <1>10, <1>11, <1>12, Frame

\* What a crawl may start from is in the corpus.
LEMMA FrontierFacts ==
  ASSUME CrawlInv
  PROVE  /\ \A r \in DOMAIN run : RunFrontier(r) \subseteq Videos
         /\ \A l \in DOMAIN layer : LayerFrontier(l) \subseteq Videos
         /\ \A rs : Targets(rs) \subseteq Videos
<1>1. EdgesOK /\ \A l \in DOMAIN layer : layer[l] \in LayerRows
  BY TableFacts
<1>2. \A rs : Targets(rs) \subseteq Videos
  BY <1>1 DEF EdgesOK, Targets
<1>3. \A r \in DOMAIN run : RunFrontier(r) \subseteq Videos
  BY <1>1 DEF EdgesOK, RunFrontier, Rows
<1>4. \A l \in DOMAIN layer : LayerFrontier(l) \subseteq Videos
  BY <1>1, <1>2 DEF LayerFrontier, LayerRows
<1> QED BY <1>2, <1>3, <1>4

\* A layer is saved; no video changes.
LEMMA LayerSaved ==
  ASSUME CrawlInv, NEW row \in LayerRows, layer' = Append(layer, row), Len(layer) < MaxLayers,
         UNCHANGED video, row.index <= Len(layer) + 1,
         row.index > 0 => \A v \in row.found : Full(v)
  PROVE  /\ LayersOK' /\ Len(layer') = Len(layer) + 1
         /\ Len(layer) <= Len(layer') /\ Len(layer') \in Nat
<1>0. LayersOK /\ Len(layer) \in Nat /\ layer \in Seq(LayerRows)
  BY TableFacts DEF LayersOK
<1>1. /\ layer' \in Seq(LayerRows) /\ Len(layer') = Len(layer) + 1
      /\ DOMAIN layer' = DOMAIN layer \cup {Len(layer) + 1}
      /\ \A l \in DOMAIN layer : layer'[l] = layer[l]
      /\ layer'[Len(layer) + 1] = row
  BY <1>0, LayerFacts
<1>2. \A l \in DOMAIN layer' : layer'[l].index <= l
  BY <1>0, <1>1 DEF LayersOK
<1>3. DiscoveredKept'
  <2> SUFFICES ASSUME NEW l \in DOMAIN layer', layer'[l].index > 0, NEW v \in layer'[l].found
               PROVE  ~Incomplete(v)'
    BY DEF DiscoveredKept
  <2>1. Incomplete(v)' <=> Incomplete(v)
    BY DEF Incomplete
  <2>2. CASE l \in DOMAIN layer
    BY <1>0, <1>1, <2>1, <2>2 DEF LayersOK, DiscoveredKept
  <2>3. CASE l = Len(layer) + 1
    BY <1>1, <2>1, <2>3 DEF Full, Incomplete
  <2> QED BY <1>1, <2>2, <2>3
<1> QED BY <1>0, <1>1, <1>2, <1>3 DEF LayersOK

\* A run's own layer.
LEMMA BootstrapInv == ASSUME CrawlInv, NEW r \in DOMAIN run, Bootstrap(r) PROVE CrawlInv'
<1>0. /\ VideosOK /\ EdgesOK /\ LedgerOK /\ JobsOK /\ Len(layer) \in Nat
      /\ DOMAIN run \subseteq RunIds \ {0} /\ job \in [Jobs -> JobStates]
  BY TableFacts
<1> DEFINE row == [index |-> 0, root |-> r, parent |-> 0, runs |-> {r}, found |-> RunFrontier(r)]
<1>1. /\ Len(layer) < MaxLayers /\ layer' = Append(layer, row)
      /\ UNCHANGED <<video, edge, run, job, seen, strand, editVars>>
  BY DEF Bootstrap
<1>2. row \in LayerRows /\ row.index = 0
  BY <1>0, FrontierFacts DEF LayerRows, RunIds, LayerIds
<1> HIDE DEF row
<1>3. LayersOK' /\ Len(layer') = Len(layer) + 1
  BY <1>0, <1>1, <1>2, LayerSaved
<1>4. VideosOK' /\ EdgesOK'
  BY <1>0, <1>1 DEF VideosOK, EdgesOK, Full
<1>5. LedgerOK'
  BY <1>0, <1>1 DEF LedgerOK, CopiesMade, Over, InRun, editVars
<1>6. JobsOK'
  <2>1. \A j \in Jobs : job[j].index \in Nat
    BY <1>0 DEF JobStates, LayerIds
  <2> QED BY <1>0, <1>1, <1>3, <2>1 DEF JobsOK, JobOK, Full
<1> QED BY <1>3, <1>4, <1>5, <1>6 DEF CrawlInv

\* A crawl starts below a layer or from a run.
LEMMA CrawlStarts ==
  ASSUME CrawlInv, NEW j \in Jobs, job[j].at = "idle", NEW root \in RunIds,
         NEW parent \in LayerIds, NEW index \in LayerIds, index <= Len(layer) + 1,
         NEW frontier \in SUBSET Videos, Crawl(j, root, parent, index, frontier)
  PROVE  CrawlInv'
<1>0. /\ job \in [Jobs -> JobStates] /\ Len(layer) \in Nat /\ VideosOK
  BY TableFacts
<1>1. PICK known \in BOOLEAN :
        LET front == IF known THEN frontier ELSE frontier \ AlreadyScraped(root) IN
        /\ front # {}
        /\ job' = [job EXCEPT ![j] =
             [Idle EXCEPT !.at = "bulk", !.root = root, !.parent = parent,
                          !.index = index, !.pend = front,
                          !.short = {v \in front : Incomplete(v)}]]
        /\ UNCHANGED <<video, edge, run, layer, seen, strand, editVars>>
  BY DEF Crawl
<1> DEFINE front == IF known THEN frontier ELSE frontier \ AlreadyScraped(root)
<1> DEFINE new == [Idle EXCEPT !.at = "bulk", !.root = root, !.parent = parent,
                          !.index = index, !.pend = front,
                          !.short = {v \in front : Incomplete(v)}]
<1>2. front \subseteq Videos
  OBVIOUS
<1>3. {v \in front : Incomplete(v)} \subseteq Videos
  BY <1>2
<1>4. job' = [job EXCEPT ![j] = new] /\ UNCHANGED <<video, edge, run, layer, seen, strand, editVars>>
  BY <1>1
<1>5. /\ new \in JobStates /\ new.at = "bulk" /\ new.runs = {} /\ new.index = index
      /\ new.found = {} /\ new.got = {} /\ \A v \in Videos : ~new.box[v].info
  <2> HIDE DEF front
  <2>1. SUBSET Videos = SUBSET Videos /\ front \in SUBSET Videos
        /\ {v \in front : Incomplete(v)} \in SUBSET Videos
    BY <1>2, <1>3
  <2> QED BY <2>1, IdleFacts DEF JobStates
<1> HIDE DEF new
<1>6. job'[j] = new
  BY <1>0, <1>4
<1>7. JobOK(j)'
  BY <1>0, <1>4, <1>5, <1>6 DEF JobOK
<1> QED BY <1>4, <1>5, <1>7, MoveInv DEF InRun

\* A crawl of the layer below a run, or below a layer.
LEMMA CrawlRunInv == ASSUME CrawlInv, NEW j \in Jobs, CrawlRun(j) PROVE CrawlInv'
<1>0. Len(layer) \in Nat /\ DOMAIN run \subseteq RunIds \ {0}
  BY TableFacts
<1>1. PICK r \in DOMAIN run : Crawl(j, r, 0, 1, RunFrontier(r))
  BY DEF CrawlRun
<1>2. job[j].at = "idle" /\ Len(layer) < MaxLayers
  BY DEF CrawlRun
<1>3. r \in RunIds /\ 0 \in LayerIds /\ 1 \in LayerIds /\ 1 <= Len(layer) + 1
  BY <1>0, <1>2 DEF LayerIds
<1>4. RunFrontier(r) \in SUBSET Videos
  BY FrontierFacts
<1> QED BY <1>1, <1>2, <1>3, <1>4, CrawlStarts

\* A crawl of the layer below a layer.
LEMMA CrawlLayerInv == ASSUME CrawlInv, NEW j \in Jobs, CrawlLayer(j) PROVE CrawlInv'
<1>0. /\ Len(layer) \in Nat /\ DOMAIN layer = 1..Len(layer) /\ LayersOK
      /\ \A l \in DOMAIN layer : layer[l] \in LayerRows
  BY TableFacts
<1>1. PICK l \in DOMAIN layer : Crawl(j, layer[l].root, l, layer[l].index + 1, LayerFrontier(l))
  BY DEF CrawlLayer
<1>2. job[j].at = "idle" /\ Len(layer) < MaxLayers
  BY DEF CrawlLayer
<1>3. /\ layer[l].root \in RunIds /\ l \in LayerIds
      /\ layer[l].index \in Nat /\ layer[l].index <= l
  BY <1>0, <1>2 DEF LayersOK, LayerRows, LayerIds
<1>4. layer[l].index + 1 \in LayerIds /\ layer[l].index + 1 <= Len(layer) + 1
  BY <1>0, <1>2, <1>3 DEF LayerIds
<1>5. LayerFrontier(l) \in SUBSET Videos
  BY FrontierFacts
<1> QED BY <1>1, <1>2, <1>3, <1>4, <1>5, CrawlStarts

\* A fetch ends: its info is kept only if the source had no row.
LEMMA ScrapeTaskInv ==
  ASSUME CrawlInv, NEW j \in Jobs, NEW v \in Videos, ScrapeTask(j, v) PROVE CrawlInv'
<1>0. job \in [Jobs -> JobStates] /\ JobOK(j) /\ job[j] \in JobStates
  BY TableFacts
<1>1. PICK out \in {"ok", "error", "raised"}, info \in BOOLEAN :
        /\ info => v \notin Rows
        /\ job' = [job EXCEPT ![j].pend = @ \ {v},
                     ![j].box[v] = [had |-> v \in Rows, info |-> info, out |-> out]]
  BY DEF ScrapeTask
<1>2. job[j].at \in {"bulk", "saving"} /\ UNCHANGED <<video, edge, run, layer, seen, strand, editVars>>
  BY DEF ScrapeTask
<1> DEFINE f == [had |-> v \in Rows, info |-> info, out |-> out]
<1>3. (v \in Rows) \in BOOLEAN
  OBVIOUS
<1>4. f \in FetchRows /\ (f.info => ~f.had)
  BY <1>1, <1>3 DEF FetchRows
<1> HIDE DEF f
<1> DEFINE new == [job[j] EXCEPT !.pend = @ \ {v}, !.box = [@ EXCEPT ![v] = f]]
<1>5. job' = [job EXCEPT ![j] = new]
  BY <1>0, <1>1 DEF f, JobStates
<1>6. /\ new \in JobStates /\ new.at = job[j].at /\ new.run = job[j].run
      /\ new.runs = job[j].runs /\ new.index = job[j].index /\ new.found = job[j].found
      /\ new.got = job[j].got
  BY <1>0, <1>4 DEF JobStates
<1>7. \A w \in Videos : new.box[w].info => ~new.box[w].had
  BY <1>0, <1>4 DEF JobStates, JobOK
<1> HIDE DEF new
<1>8. job'[j] = new
  BY <1>0, <1>5
<1>9. JobOK(j)'
  BY <1>0, <1>2, <1>6, <1>7, <1>8 DEF JobOK, Full
<1> QED BY <1>2, <1>5, <1>6, <1>9, MoveInv DEF InRun

\* A source is taken: its run begins and its info is saved.
LEMMA TakeVideoInv ==
  ASSUME CrawlInv, NEW j \in Jobs, NEW v \in Videos, TakeVideo(j, v) PROVE CrawlInv'
<1>0. /\ job \in [Jobs -> JobStates] /\ JobOK(j) /\ job[j] \in JobStates
      /\ LedgerOK /\ VideosOK /\ EdgesOK /\ LayersOK /\ Len(layer) \in Nat /\ Len(run) \in Nat
  BY TableFacts
<1> DEFINE f == job[j].box[v]
<1>1. job[j].at = "bulk" /\ UNCHANGED <<edge, layer, seen, strand, editVars>>
  BY DEF TakeVideo
<1>2. CASE f.out = "raised"
  <2> DEFINE new == [job[j] EXCEPT !.box = [@ EXCEPT ![v] = NoFetch]]
  <2>1. job' = [job EXCEPT ![j] = new] /\ UNCHANGED <<video, run>>
    BY <1>0, <1>2 DEF TakeVideo, JobStates
  <2>2. NoFetch \in FetchRows /\ ~NoFetch.info
    BY DEF NoFetch, FetchRows
  <2>3. /\ new \in JobStates /\ new.at = "bulk" /\ new.runs = job[j].runs
        /\ new.index = job[j].index /\ new.found = job[j].found /\ new.got = job[j].got
    BY <1>0, <1>1, <2>2 DEF JobStates
  <2>4. \A w \in Videos : new.box[w].info => ~new.box[w].had
    BY <1>0, <2>2 DEF JobStates, JobOK
  <2> HIDE DEF new
  <2>5. job'[j] = new
    BY <1>0, <2>1
  <2>6. JobOK(j)'
    BY <1>0, <1>1, <2>1, <2>3, <2>4, <2>5 DEF JobOK, Full
  <2> QED BY <1>1, <2>1, <2>3, <2>6, MoveInv DEF InRun
<1>3. CASE f.out # "raised"
  <2> DEFINE r == Len(run) + 1
             got == IF f.info THEN job[j].got \cup {v} ELSE job[j].got
             new == [job[j] EXCEPT !.at = "saving", !.cur = {v}, !.run = r, !.got = got]
  <2>1. /\ r <= MaxRuns /\ run' = Begun(job[j].root)
        /\ video' = IF f.info THEN Upsert(v, r) ELSE video
        /\ job' = [job EXCEPT ![j] = new]
    BY <1>0, <1>3 DEF TakeVideo, JobStates
  <2>2. r \in RunIds \ {0} /\ Len(run) < MaxRuns /\ job[j].root \in RunIds
    BY <1>0, <2>1 DEF RunIds, JobStates
  <2>3. /\ new \in JobStates /\ new.at = "saving" /\ new.run = r /\ new.runs = job[j].runs
        /\ new.index = job[j].index /\ new.found = job[j].found /\ new.got = got
        /\ new.box = job[j].box
    BY <1>0, <2>2 DEF JobStates
  <2>4. run \in Seq(RunRows)
    BY <1>0 DEF LedgerOK
  <2>5. DOMAIN run \subseteq DOMAIN run'
    BY <2>1, <2>2, <2>4, BegunFacts
  <2> HIDE DEF new
  <2>6. job'[j] = new /\ \A i \in Jobs \ {j} : job'[i] = job[i]
    BY <1>0, <2>1
  <2>7. /\ VideosOK' /\ \A w \in Videos : Full(w) => Full(w)'
        /\ f.info => Full(v)'
    <3>1. CASE f.info
      BY <1>0, <1>1, <2>1, <2>2, <3>1, UpsertFacts
    <3>2. CASE ~f.info
      BY <1>0, <1>1, <2>1, <3>2 DEF VideosOK, Full
    <3> QED BY <3>1, <3>2
  <2>8. LedgerOK'
    BY <1>0, <1>1, <2>1, <2>2, <2>3, <2>6, LedgerBegun DEF InRun
  <2>9. LayersOK' /\ EdgesOK'
    BY <1>0, <1>1, <2>7, LayersKept DEF EdgesOK
  <2>10. \A w \in new.found \cup new.got : Full(w)'
    <3>1. job[j].found \subseteq Videos /\ job[j].got \subseteq Videos
      BY <1>0 DEF JobStates
    <3> QED BY <1>0, <2>3, <2>7, <3>1 DEF JobOK
  <2>11. JobOK(j)'
    BY <1>0, <1>1, <2>3, <2>5, <2>6, <2>10 DEF JobOK
  <2>12. Len(layer) <= Len(layer') /\ Len(layer') \in Nat
    BY <1>0, <1>1
  <2> QED BY <2>1, <2>3, <2>5, <2>7, <2>8, <2>9, <2>11, <2>12, Frame
<1> QED BY <1>2, <1>3

\* An observed feed is saved, and its run is closed.
LEMMA SaveVideoInv ==
  ASSUME CrawlInv, NEW j \in Jobs, NEW v \in Videos, SaveVideo(j, v) PROVE CrawlInv'
<1>0. /\ job \in [Jobs -> JobStates] /\ JobOK(j) /\ job[j] \in JobStates
      /\ LedgerOK /\ VideosOK /\ EdgesOK /\ LayersOK /\ Len(layer) \in Nat
      /\ Len(run) \in Nat /\ DOMAIN run = 1..Len(run)
  BY TableFacts
<1> DEFINE f == job[j].box[v]
           new == [job[j] EXCEPT !.at = "bulk", !.cur = {}, !.run = 0,
                     !.runs = @ \cup {job[j].run}, !.box = [@ EXCEPT ![v] = NoFetch]]
<1>1. /\ job[j].at = "saving" /\ UNCHANGED <<layer, strand, editVars>>
      /\ edge' = edge \cup {[run |-> job[j].run, src |-> v, dst |-> w]
                              : w \in IF f.out = "ok" THEN Feed[v] ELSE {}}
      /\ video' = Marked(v, f.out)
      /\ seen' = IF f.out = "ok" THEN seen \cup {v} ELSE seen
      /\ run' = Finished(job[j].run)
  BY DEF SaveVideo, Closed
<1>2. job' = [job EXCEPT ![j] = new]
  BY <1>0 DEF SaveVideo, JobStates
<1>3. NoFetch \in FetchRows /\ ~NoFetch.info /\ 0 \in RunIds
  BY DEF NoFetch, FetchRows, RunIds
<1>4. job[j].run \in DOMAIN run /\ job[j].run \in 1..MaxRuns /\ InRun(j)
  BY <1>0, <1>1 DEF LedgerOK, InRun
<1>5. /\ new \in JobStates /\ new.at = "bulk" /\ new.runs = job[j].runs \cup {job[j].run}
      /\ new.index = job[j].index /\ new.found = job[j].found /\ new.got = job[j].got
  BY <1>0, <1>3 DEF JobStates
<1>6. \A w \in Videos : new.box[w].info => ~new.box[w].had
  BY <1>0, <1>3 DEF JobStates, JobOK
<1> HIDE DEF new
<1>7. job'[j] = new /\ \A i \in Jobs \ {j} : job'[i] = job[i]
  BY <1>0, <1>2
<1>8. LedgerOK' /\ DOMAIN run' = DOMAIN run
  BY <1>0, <1>1, <1>4, <1>5, <1>7, LedgerFinished DEF InRun
<1>9. VideosOK' /\ \A w \in Videos : Full(w) => Full(w)'
  <2>1. CASE f.out = "ok"
    <3>1. video' = [video EXCEPT ![v].scraped = @ \/ video[v].row # "none"]
          /\ seen' = seen \cup {v}
      BY <1>1, <2>1 DEF Marked, Mark
    <3>2. PICK s \in BOOLEAN : s = (video[v].scraped \/ video[v].row # "none")
      OBVIOUS
    <3>3. video' = [video EXCEPT ![v] = [video[v] EXCEPT !.scraped = s]]
      BY <1>0, <3>1, <3>2 DEF VideosOK, VideoRows
    <3>4. video[v] \in VideoRows /\ [video[v] EXCEPT !.scraped = s] \in VideoRows
      BY <1>0 DEF VideosOK, VideoRows
    <3>5. /\ video' \in [Videos -> VideoRows]
          /\ \A w \in Videos : video'[w].row = video[w].row /\ video'[w].first = video[w].first
      BY <1>0, <3>3, <3>4 DEF VideosOK, VideoRows
    <3>6. \A w \in Videos \ {v} : video'[w] = video[w]
      BY <1>0, <3>3 DEF VideosOK
    <3> QED BY <1>0, <3>1, <3>5, <3>6 DEF VideosOK, Full
  <2>2. CASE f.out # "ok"
    <3>1. UNCHANGED <<video, seen>>
      BY <1>1, <2>2 DEF Marked
    <3> QED BY <1>0, <3>1 DEF VideosOK, Full
  <2> QED BY <2>1, <2>2
<1>10. EdgesOK'
  <2>1. CASE f.out = "ok"
    <3>1. edge' = edge \cup {[run |-> job[j].run, src |-> v, dst |-> w] : w \in Feed[v]}
          /\ seen' = seen \cup {v} /\ Feed[v] \subseteq Videos
      BY <1>1, <2>1
    <3>2. {[run |-> job[j].run, src |-> v, dst |-> w] : w \in Feed[v]}
            \subseteq [run : 1..MaxRuns, src : Videos, dst : Videos]
      BY <1>4, <3>1
    <3> QED BY <1>0, <3>1, <3>2 DEF EdgesOK
  <2>2. CASE f.out # "ok"
    <3>1. UNCHANGED <<edge, seen>>
      BY <1>1, <2>2
    <3> QED BY <1>0, <3>1 DEF EdgesOK
  <2> QED BY <2>1, <2>2
<1>11. LayersOK'
  BY <1>0, <1>1, <1>9, LayersKept
<1>12. \A w \in new.found \cup new.got : Full(w)'
  <2>1. job[j].found \subseteq Videos /\ job[j].got \subseteq Videos
    BY <1>0 DEF JobStates
  <2> QED BY <1>0, <1>5, <1>9, <2>1 DEF JobOK
<1>13. JobOK(j)'
  BY <1>0, <1>1, <1>4, <1>5, <1>6, <1>7, <1>8, <1>12 DEF JobOK
<1>14. DOMAIN run \subseteq DOMAIN run' /\ Len(layer) <= Len(layer') /\ Len(layer') \in Nat
  BY <1>0, <1>1, <1>8
<1> QED BY <1>2, <1>5, <1>8, <1>9, <1>10, <1>11, <1>13, <1>14, Frame

\* What is left of a stalled round is given up.
LEMMA GiveUpInv == ASSUME CrawlInv, NEW j \in Jobs, GiveUp(j) PROVE CrawlInv'
<1>0. job \in [Jobs -> JobStates] /\ JobOK(j) /\ job[j] \in JobStates
  BY TableFacts
<1> DEFINE new == [job[j] EXCEPT !.pend = {}]
<1>1. /\ job[j].at \in {"bulk", "enrich"} /\ job' = [job EXCEPT ![j] = new]
      /\ UNCHANGED <<video, edge, run, layer, seen, strand, editVars>>
  BY DEF GiveUp
<1>2. /\ new \in JobStates /\ new.at = job[j].at /\ new.runs = job[j].runs
      /\ new.index = job[j].index /\ new.found = job[j].found /\ new.got = job[j].got
      /\ new.box = job[j].box /\ new.pend = {}
  BY <1>0 DEF JobStates
<1> HIDE DEF new
<1>3. job'[j] = new
  BY <1>0, <1>1
<1>4. JobOK(j)'
  BY <1>0, <1>1, <1>2, <1>3 DEF JobOK, Full
<1> QED BY <1>1, <1>2, <1>4, MoveInv DEF InRun

\* The targets of the enrichment have no row, so none has been saved.
LEMMA StartEnrichInv == ASSUME CrawlInv, NEW j \in Jobs, StartEnrich(j) PROVE CrawlInv'
<1>0. job \in [Jobs -> JobStates] /\ JobOK(j) /\ job[j] \in JobStates
  BY TableFacts
<1>1. /\ job[j].at = "bulk" /\ UNCHANGED <<video, edge, run, layer, seen, strand, editVars>>
  BY DEF StartEnrich
<1>2. PICK capped \in SUBSET ((Targets(job[j].runs) \cup job[j].short) \ Existing(j)) :
        job' = [job EXCEPT ![j].at = "enrich", ![j].pend = capped]
  BY DEF StartEnrich
<1> DEFINE new == [job[j] EXCEPT !.at = "enrich", !.pend = capped]
<1>3. capped \subseteq Videos /\ capped \cap Rows = {}
  BY <1>0, FrontierFacts DEF Existing, JobStates
<1>4. capped \cap job[j].got = {}
  <2>1. job[j].got \subseteq Rows
    BY <1>0 DEF JobOK, JobStates, Full, Rows
  <2> QED BY <1>3, <2>1
<1>5. job' = [job EXCEPT ![j] = new]
  BY <1>0, <1>2
<1>6. /\ new \in JobStates /\ new.at = "enrich" /\ new.runs = job[j].runs
      /\ new.index = job[j].index /\ new.found = job[j].found /\ new.got = job[j].got
      /\ new.box = job[j].box /\ new.pend = capped
  BY <1>0, <1>3 DEF JobStates
<1> HIDE DEF new
<1>7. job'[j] = new
  BY <1>0, <1>5
<1>8. JobOK(j)'
  BY <1>0, <1>1, <1>4, <1>6, <1>7 DEF JobOK, Full
<1> QED BY <1>1, <1>5, <1>6, <1>8, MoveInv DEF InRun

\* A target is filed under a run of its own crawl.
LEMMA RunOfFacts ==
  ASSUME NEW j \in Jobs, NEW v \in Videos
  PROVE  RunOf(j, v) \subseteq job[j].runs
BY DEF RunOf

\* A fetched target: its row is looked up, or left, or its stub dropped.
LEMMA TakeTargetInv ==
  ASSUME CrawlInv, NEW j \in Jobs, NEW v \in Videos, TakeTarget(j, v) PROVE CrawlInv'
<1>0. /\ job \in [Jobs -> JobStates] /\ JobOK(j) /\ job[j] \in JobStates
      /\ LedgerOK /\ VideosOK /\ EdgesOK /\ LayersOK /\ Len(layer) \in Nat
      /\ DOMAIN run \subseteq RunIds \ {0}
  BY TableFacts
<1>1. job[j].at = "enrich" /\ v \in job[j].pend /\ UNCHANGED <<edge, run, layer, seen, strand, editVars>>
  BY DEF TakeTarget
<1> DEFINE left == [job[j] EXCEPT !.pend = @ \ {v}]
<1>2. /\ left \in JobStates /\ left.at = "enrich" /\ left.runs = job[j].runs
      /\ left.index = job[j].index /\ left.found = job[j].found /\ left.got = job[j].got
      /\ left.box = job[j].box /\ left.pend = job[j].pend \ {v}
  BY <1>0, <1>1 DEF JobStates
<1>3. ASSUME job' = [job EXCEPT ![j].pend = @ \ {v}]
      PROVE  /\ job' = [job EXCEPT ![j] = left] /\ job'[j] = left
             /\ \A i \in Jobs \ {j} : job'[i] = job[i]
  BY <1>0, <1>3
<1> HIDE DEF left
<1>4. CASE job' = [job EXCEPT ![j].pend = @ \ {v}] /\ UNCHANGED video
  <2>1. JobOK(j)'
    BY <1>0, <1>1, <1>2, <1>3, <1>4 DEF JobOK, Full
  <2> QED BY <1>1, <1>2, <1>3, <1>4, <2>1, MoveInv DEF InRun
<1>5. CASE job' = [job EXCEPT ![j].pend = @ \ {v}] /\ video' = DropStub(v)
  <2>1. /\ VideosOK' /\ \A w \in Videos : Full(w) => Full(w)'
    <3>1. CASE video[v].row = "stub"
      <4> DEFINE none == [row |-> "none", first |-> 0, scraped |-> FALSE]
      <4>1. video' = [video EXCEPT ![v] = none]
        BY <1>5, <3>1 DEF DropStub
      <4>2. none \in VideoRows /\ ~none.scraped /\ none.row # "full"
        BY DEF VideoRows, RunIds
      <4> HIDE DEF none
      <4>3. /\ video' \in [Videos -> VideoRows] /\ video'[v] = none
            /\ \A w \in Videos \ {v} : video'[w] = video[w]
        BY <1>0, <4>1, <4>2 DEF VideosOK
      <4> QED BY <1>0, <1>1, <3>1, <4>2, <4>3 DEF VideosOK, Full
    <3>2. CASE video[v].row # "stub"
      BY <1>0, <1>1, <1>5, <3>2 DEF DropStub, VideosOK, Full
    <3> QED BY <3>1, <3>2
  <2>2. LayersOK' /\ EdgesOK'
    BY <1>0, <1>1, <2>1, LayersKept DEF EdgesOK
  <2>3. LedgerOK'
    BY <1>0, <1>1, <1>2, <1>3, <1>5, LedgerKept DEF InRun
  <2>4. \A w \in left.found \cup left.got : Full(w)'
    <3>1. job[j].found \subseteq Videos /\ job[j].got \subseteq Videos
      BY <1>0 DEF JobStates
    <3> QED BY <1>0, <1>2, <2>1, <3>1 DEF JobOK
  <2>5. JobOK(j)'
    BY <1>0, <1>1, <1>2, <1>3, <1>5, <2>4 DEF JobOK
  <2>6. DOMAIN run \subseteq DOMAIN run' /\ Len(layer) <= Len(layer') /\ Len(layer') \in Nat
    BY <1>0, <1>1
  <2> QED BY <1>2, <1>3, <1>5, <2>1, <2>2, <2>3, <2>4, <2>5, <2>6, Frame
<1>6. ASSUME NEW r \in RunOf(j, v), UNCHANGED video,
             job' = [job EXCEPT ![j].at = "write", ![j].cur = {v}, ![j].run = r,
                       ![j].pend = @ \ {v}, ![j].first = video[v].first]
      PROVE  CrawlInv'
  <2> DEFINE new == [job[j] EXCEPT !.at = "write", !.cur = {v}, !.run = r,
                       !.pend = @ \ {v}, !.first = video[v].first]
  <2>1. r \in DOMAIN run /\ r \in RunIds /\ video[v].first \in RunIds
    BY <1>0, RunOfFacts DEF JobOK, VideosOK, VideoRows
  <2>2. job' = [job EXCEPT ![j] = new]
    BY <1>0, <1>6
  <2>3. /\ new \in JobStates /\ new.at = "write" /\ new.runs = job[j].runs /\ new.run = r
        /\ new.index = job[j].index /\ new.found = job[j].found /\ new.got = job[j].got
        /\ new.box = job[j].box /\ new.pend = job[j].pend \ {v} /\ new.cur = {v}
    BY <1>0, <2>1 DEF JobStates
  <2> HIDE DEF new
  <2>4. job'[j] = new
    BY <1>0, <2>2
  <2>5. JobOK(j)'
    BY <1>0, <1>1, <1>6, <2>1, <2>3, <2>4 DEF JobOK, Full
  <2> QED BY <1>1, <1>6, <2>2, <2>3, <2>5, MoveInv DEF InRun
<1> QED BY <1>4, <1>5, <1>6 DEF TakeTarget

\* A target is written with the run that first saw it.
LEMMA WriteTargetInv ==
  ASSUME CrawlInv, NEW j \in Jobs, NEW v \in Videos, WriteTarget(j, v) PROVE CrawlInv'
<1>0. /\ job \in [Jobs -> JobStates] /\ JobOK(j) /\ job[j] \in JobStates
      /\ LedgerOK /\ VideosOK /\ EdgesOK /\ LayersOK /\ Len(layer) \in Nat
      /\ DOMAIN run \subseteq RunIds \ {0}
  BY TableFacts
<1> DEFINE new == [job[j] EXCEPT !.at = "enrich", !.cur = {}, !.run = 0, !.first = 0,
                     !.found = @ \cup {v}, !.got = @ \cup {v}]
<1>1. /\ job[j].at = "write" /\ v \in job[j].cur /\ video' = Upsert(v, First(j))
      /\ UNCHANGED <<edge, run, layer, seen, strand, editVars>>
  BY DEF WriteTarget
<1>2. job' = [job EXCEPT ![j] = new]
  BY <1>0 DEF WriteTarget
<1>3. 0 \in RunIds
  BY DEF RunIds
<1>4. /\ new \in JobStates /\ new.at = "enrich" /\ new.runs = job[j].runs
      /\ new.index = job[j].index /\ new.found = job[j].found \cup {v}
      /\ new.got = job[j].got \cup {v} /\ new.box = job[j].box /\ new.pend = job[j].pend
  BY <1>0, <1>3 DEF JobStates
<1> HIDE DEF new
<1>5. job'[j] = new /\ \A i \in Jobs \ {j} : job'[i] = job[i]
  BY <1>0, <1>2
<1>6. First(j) \in RunIds \ {0}
  BY <1>0, <1>1 DEF First, JobOK, JobStates
<1>7. VideosOK' /\ Full(v)' /\ \A w \in Videos : Full(w) => Full(w)'
  BY <1>0, <1>1, <1>6, UpsertFacts
<1>8. LayersOK' /\ EdgesOK'
  BY <1>0, <1>1, <1>7, LayersKept DEF EdgesOK
<1>9. LedgerOK'
  BY <1>0, <1>1, <1>4, <1>5, LedgerKept DEF InRun
<1>10. \A w \in new.found \cup new.got : Full(w)'
  <2>1. job[j].found \subseteq Videos /\ job[j].got \subseteq Videos
    BY <1>0 DEF JobStates
  <2> QED BY <1>0, <1>4, <1>7, <2>1 DEF JobOK
<1>11. new.pend \cap new.got = {}
  BY <1>0, <1>1, <1>4 DEF JobOK
<1>12. JobOK(j)'
  BY <1>0, <1>1, <1>4, <1>5, <1>10, <1>11 DEF JobOK
<1>13. DOMAIN run \subseteq DOMAIN run' /\ Len(layer) <= Len(layer') /\ Len(layer') \in Nat
  BY <1>0, <1>1
<1> QED BY <1>2, <1>4, <1>7, <1>8, <1>9, <1>12, <1>13, Frame

\* A layer lists what its crawl saved and what others completed meanwhile.
LEMMA SaveLayerInv == ASSUME CrawlInv, NEW j \in Jobs, SaveLayer(j) PROVE CrawlInv'
<1>0. /\ job \in [Jobs -> JobStates] /\ JobOK(j) /\ job[j] \in JobStates
      /\ LedgerOK /\ Len(layer) \in Nat
  BY TableFacts
<1> DEFINE row == [index |-> job[j].index, root |-> job[j].root, parent |-> job[j].parent,
                   runs |-> job[j].runs, found |-> Found(j)]
<1>1. /\ job[j].at = "enrich" /\ Len(layer) < MaxLayers /\ layer' = Append(layer, row)
      /\ job' = [job EXCEPT ![j] = Idle] /\ UNCHANGED <<video, edge, run, seen, strand, editVars>>
  BY DEF SaveLayer
<1>2. Found(j) \subseteq Videos /\ \A v \in Found(j) : Full(v)
  BY <1>0 DEF Found, JobStates, JobOK, Incomplete, Full
<1>3. row \in LayerRows /\ row.index = job[j].index /\ row.found = Found(j)
  BY <1>0, <1>2 DEF LayerRows, JobStates
<1> HIDE DEF row
<1>4. /\ LayersOK' /\ Len(layer) <= Len(layer') /\ Len(layer') \in Nat
  BY <1>0, <1>1, <1>2, <1>3, LayerSaved DEF JobOK
<1>5. job'[j] = Idle /\ \A i \in Jobs \ {j} : job'[i] = job[i]
  BY <1>0, <1>1
<1>6. LedgerOK'
  BY <1>0, <1>1, <1>5, IdleFacts, LedgerKept DEF InRun
<1> QED BY <1>1, <1>4, <1>6, IdleInv

\* Jobs leave the runs they are in: the runs stay open, and are remembered.
LEMMA LedgerLeft ==
  ASSUME LedgerOK, UNCHANGED <<run, reopened>>, NEW js \in SUBSET Jobs,
         strand' = strand \cup Inside(js),
         \A j \in js : ~InRun(j)', \A i \in Jobs \ js : job'[i] = job[i],
         edit' \in {edit, [e \in Editors |-> NoCopy]}
  PROVE  LedgerOK'
<1>1. \A r : r \in Inside(js) <=> \E j \in js : InRun(j) /\ job[j].run = r
  BY DEF Inside, InRun
<1>2. \A i \in Jobs \ js : (InRun(i)' <=> InRun(i)) /\ job'[i].run = job[i].run
  BY DEF InRun
<1>3. strand' \subseteq DOMAIN run
  BY <1>1 DEF LedgerOK
<1>4. \A i \in Jobs : InRun(i)' => i \notin js /\ InRun(i) /\ job'[i].run = job[i].run
  BY <1>2
<1>5. \A i \in Jobs : InRun(i)' => job'[i].run \in DOMAIN run \ (strand' \cup reopened)
  <2> SUFFICES ASSUME NEW i \in Jobs, InRun(i)' PROVE job'[i].run \in DOMAIN run \ (strand' \cup reopened)
    OBVIOUS
  <2>1. job[i].run \in DOMAIN run \ (strand \cup reopened) /\ job'[i].run = job[i].run /\ i \notin js
    BY <1>4 DEF LedgerOK
  <2>2. job[i].run \notin Inside(js)
    BY <1>1, <1>4, <2>1 DEF LedgerOK
  <2> QED BY <2>1, <2>2
<1>6. \A i, k \in Jobs : InRun(i)' /\ InRun(k)' /\ job'[i].run = job'[k].run => i = k
  BY <1>4 DEF LedgerOK
<1>7. \A r \in DOMAIN run :
        run[r].open <=> r \in strand' \cup reopened' \/ \E i \in Jobs : InRun(i)' /\ job'[i].run = r
  <2> SUFFICES ASSUME NEW r \in DOMAIN run
               PROVE  run[r].open <=> r \in strand' \cup reopened' \/ \E i \in Jobs : InRun(i)' /\ job'[i].run = r
    OBVIOUS
  <2>1. run[r].open <=> r \in strand \cup reopened \/ \E i \in Jobs : InRun(i) /\ job[i].run = r
    BY DEF LedgerOK
  <2>2. (\E i \in Jobs : InRun(i) /\ job[i].run = r)
          <=> r \in Inside(js) \/ \E i \in Jobs : InRun(i)' /\ job'[i].run = r
    BY <1>1, <1>2, <1>4
  <2> QED BY <2>1, <2>2
<1>8. CopiesMade'
  <2>1. ASSUME NEW r, Over(r) PROVE Over(r)'
    <3>1. r \notin Inside(js) /\ r \in DOMAIN run \ strand
      BY <1>1, <2>1 DEF Over
    <3>2. \A j \in Jobs : InRun(j)' => job'[j].run # r
      BY <1>4, <2>1 DEF Over
    <3> QED BY <3>1, <3>2 DEF Over
  <2>2. CASE edit' = edit
    BY <2>1, <2>2 DEF LedgerOK, CopiesMade
  <2>3. CASE edit' = [e \in Editors |-> NoCopy]
    BY <2>3 DEF CopiesMade, NoCopy, RunIds
  <2> QED BY <2>2, <2>3
<1> QED BY <1>3, <1>5, <1>6, <1>7, <1>8 DEF LedgerOK

\* A job fails inside its run.
LEMMA DieInv == ASSUME CrawlInv, NEW j \in Jobs, Die(j) PROVE CrawlInv'
<1>0. job \in [Jobs -> JobStates] /\ LedgerOK /\ LayersOK /\ Len(layer) \in Nat
  BY TableFacts
<1>1. /\ strand' = strand \cup Inside({j}) /\ job' = [job EXCEPT ![j] = Idle]
      /\ UNCHANGED <<video, edge, run, layer, seen, edit, reopened>>
  BY DEF Die, editVars
<1>2. job'[j] = Idle /\ \A i \in Jobs \ {j} : job'[i] = job[i]
  BY <1>0, <1>1
<1>3. ~InRun(j)'
  BY <1>2, IdleFacts DEF InRun
<1>4. LedgerOK'
  BY <1>0, <1>1, <1>2, <1>3, LedgerLeft
<1>5. LayersOK'
  BY <1>0, <1>1, LayersKept DEF Full
<1>6. DOMAIN run \subseteq DOMAIN run' /\ Len(layer) <= Len(layer') /\ Len(layer') \in Nat
  BY <1>0, <1>1
<1> QED BY <1>1, <1>4, <1>5, <1>6, IdleInv

\* The process fails: every job is gone, every run it was in stays open.
LEMMA RestartInv == ASSUME CrawlInv, Restart PROVE CrawlInv'
<1>0. /\ job \in [Jobs -> JobStates] /\ LedgerOK /\ LayersOK /\ VideosOK /\ EdgesOK
      /\ Len(layer) \in Nat
  BY TableFacts
<1>1. /\ strand' = strand \cup Inside(Jobs) /\ job' = [j \in Jobs |-> Idle]
      /\ edit' = [e \in Editors |-> NoCopy]
      /\ UNCHANGED <<video, edge, run, layer, seen, reopened>>
  BY DEF Restart
<1>2. \A j \in Jobs : ~InRun(j)'
  BY <1>1, IdleFacts DEF InRun
<1>3. LedgerOK'
  BY <1>0, <1>1, <1>2, LedgerLeft
<1>4. VideosOK' /\ EdgesOK' /\ \A v \in Videos : Full(v) => Full(v)'
  BY <1>0, <1>1 DEF VideosOK, EdgesOK, Full
<1>5. LayersOK'
  BY <1>0, <1>1, <1>4, LayersKept
<1>6. JobsOK'
  BY <1>0, <1>1, IdleFacts DEF JobsOK, JobOK
<1> QED BY <1>3, <1>4, <1>5, <1>6 DEF CrawlInv

\* Editing touches nothing but the ledger and the copies.
LEMMA EditFrame ==
  ASSUME CrawlInv, UNCHANGED <<video, edge, layer, job, seen>>, DOMAIN run' = DOMAIN run, LedgerOK'
  PROVE  CrawlInv'
<1>0. VideosOK /\ EdgesOK /\ LayersOK /\ JobsOK
  BY TableFacts
<1>1. VideosOK' /\ EdgesOK' /\ \A v \in Videos : Full(v) => Full(v)'
  BY <1>0 DEF VideosOK, EdgesOK, Full
<1>2. LayersOK'
  BY <1>0, <1>1, LayersKept
<1>3. JobsOK'
  BY <1>0 DEF JobsOK, JobOK, Full
<1> QED BY <1>1, <1>2, <1>3 DEF CrawlInv

\* A run is read: a run read as closed is over.
LEMMA EditReadInv ==
  ASSUME CrawlInv, NEW e \in Editors, NEW r \in DOMAIN run, EditRead(e, r) PROVE CrawlInv'
<1>0. LedgerOK /\ DOMAIN run \subseteq RunIds \ {0} /\ run[r] \in RunRows
  BY TableFacts
<1>1. /\ edit' = [edit EXCEPT ![e] = [run |-> r, open |-> run[r].open]]
      /\ UNCHANGED <<video, edge, run, layer, job, seen, strand, reopened>>
  BY DEF EditRead
<1>2. run[r].open \in BOOLEAN /\ (~run[r].open => Over(r))
  BY <1>0 DEF LedgerOK, RunRows, Over
<1>3. \A s : Over(s)' <=> Over(s)
  BY <1>1 DEF Over, InRun
<1>4. CopiesMade'
  BY <1>0, <1>1, <1>2, <1>3 DEF LedgerOK, CopiesMade
<1>5. LedgerOK'
  BY <1>0, <1>1, <1>4 DEF LedgerOK, InRun
<1> QED BY <1>1, <1>5, EditFrame

\* A copy is saved: an open one may be of a run that has ended meanwhile.
LEMMA EditSaveInv == ASSUME CrawlInv, NEW e \in Editors, EditSave(e) PROVE CrawlInv'
<1>0. LedgerOK /\ DOMAIN run = 1..Len(run) /\ CopiesMade /\ Len(run) \in Nat
  BY TableFacts DEF LedgerOK
<1> DEFINE r == edit[e].run
           open == edit[e].open
<1>1. /\ r \in DOMAIN run /\ open \in BOOLEAN /\ (~open => Over(r))
      /\ run' = [run EXCEPT ![r].open = open]
      /\ reopened' = IF open /\ r \notin strand \cup Inside(Jobs)
                     THEN reopened \cup {r} ELSE reopened \ {r}
      /\ edit' = [edit EXCEPT ![e] = NoCopy]
      /\ UNCHANGED <<video, edge, layer, job, seen, strand>>
  BY <1>0 DEF EditSave, CopiesMade
<1>2. \A s : s \in Inside(Jobs) <=> \E j \in Jobs : InRun(j) /\ job[j].run = s
  BY DEF Inside, InRun
<1> DEFINE row == [run[r] EXCEPT !.open = open]
<1>3. row \in RunRows /\ row.open = open
  <2>1. run[r] \in RunRows
    BY <1>1, TableFacts
  <2> QED BY <1>1, <2>1 DEF RunRows
<1>4. /\ run' \in Seq(RunRows) /\ Len(run') = Len(run) /\ DOMAIN run' = DOMAIN run
      /\ run'[r] = row /\ \A s \in DOMAIN run \ {r} : run'[s] = run[s]
  <2>1. run' = [run EXCEPT ![r] = row] /\ run \in Seq(RunRows)
    BY <1>0, <1>1 DEF LedgerOK
  <2> HIDE DEF row, r
  <2> QED BY <1>0, <1>1, <1>3, <2>1, ExceptSeq
<1>5. \A j \in Jobs : InRun(j)' <=> InRun(j)
  BY <1>1 DEF InRun
<1>6. \A s : Over(s)' <=> Over(s)
  BY <1>1, <1>4, <1>5 DEF Over
<1>7. CopiesMade'
  BY <1>0, <1>1, <1>4, <1>6 DEF CopiesMade, NoCopy, RunIds
<1>8. \A s \in DOMAIN run' :
        run'[s].open <=> \/ s \in strand' \cup reopened'
                         \/ \E j \in Jobs : InRun(j)' /\ job'[j].run = s
  <2> SUFFICES ASSUME NEW s \in DOMAIN run
               PROVE  run'[s].open <=> \/ s \in strand \cup reopened'
                                       \/ \E j \in Jobs : InRun(j) /\ job[j].run = s
    BY <1>1, <1>4, <1>5
  <2>1. CASE s # r
    <3>1. run'[s] = run[s] /\ (s \in reopened' <=> s \in reopened)
      BY <1>1, <1>4, <2>1
    <3> QED BY <1>0, <3>1 DEF LedgerOK
  <2>2. CASE s = r /\ open
    BY <1>1, <1>2, <1>3, <1>4, <2>2
  <2>3. CASE s = r /\ ~open
    BY <1>1, <1>3, <1>4, <2>3 DEF Over
  <2> QED BY <1>1, <2>1, <2>2, <2>3
<1>9. \A j \in Jobs : InRun(j)' => job'[j].run \in DOMAIN run' \ (strand' \cup reopened')
  <2>1. \A j \in Jobs : InRun(j) => job[j].run \notin strand \cup reopened'
    BY <1>0, <1>1, <1>2 DEF LedgerOK
  <2> QED BY <1>0, <1>1, <1>4, <1>5, <2>1 DEF LedgerOK
<1>10. LedgerOK'
  <2>1. /\ strand' \subseteq DOMAIN run' /\ reopened' \subseteq DOMAIN run' /\ Len(run') <= MaxRuns
        /\ \A i, j \in Jobs : InRun(i)' /\ InRun(j)' /\ job'[i].run = job'[j].run => i = j
    BY <1>0, <1>1, <1>4, <1>5 DEF LedgerOK
  <2> QED BY <1>4, <1>7, <1>8, <1>9, <2>1 DEF LedgerOK
<1> QED BY <1>1, <1>4, <1>10, EditFrame

\* A stuttering step.
LEMMA CrawlStutter == ASSUME CrawlInv, UNCHANGED vars PROVE CrawlInv'
BY DEF CrawlInv, vars, editVars, VideosOK, EdgesOK, LayersOK, LedgerOK, CopiesMade, Over,
       JobsOK, JobOK, InRun, Full, DiscoveredKept, Incomplete

\* Every step keeps the invariant of the tables.
LEMMA CrawlStepInv == CrawlInv /\ [Next]_vars => CrawlInv'
<1> SUFFICES ASSUME CrawlInv, [Next]_vars PROVE CrawlInv'
  OBVIOUS
<1>1. ASSUME NEW j \in Jobs, Collect(j) \/ CrawlRun(j) \/ CrawlLayer(j) PROVE CrawlInv'
  BY <1>1, CollectInv, CrawlRunInv, CrawlLayerInv
<1>2. ASSUME NEW j \in Jobs, NEW v \in Videos,
             \/ EnrichTask(j, v) \/ ScrapeTask(j, v) \/ CollectVideo(j, v)
             \/ SaveTranscript(j, v) \/ TakeVideo(j, v) \/ SaveVideo(j, v)
             \/ TakeTarget(j, v) \/ WriteTarget(j, v)
      PROVE  CrawlInv'
  BY <1>2, EnrichTaskInv, ScrapeTaskInv, CollectVideoInv, SaveTranscriptInv, TakeVideoInv,
     SaveVideoInv, TakeTargetInv, WriteTargetInv
<1>3. ASSUME NEW j \in Jobs,
             \/ ExtractChannel(j) \/ StartDeep(j) \/ CollectEnd(j)
             \/ GiveUp(j) \/ StartEnrich(j) \/ SaveLayer(j)
      PROVE  CrawlInv'
  BY <1>3, ExtractChannelInv, StartDeepInv, CollectEndInv, GiveUpInv, StartEnrichInv,
     SaveLayerInv
<1>4. ASSUME NEW r \in DOMAIN run, Bootstrap(r) PROVE CrawlInv'
  BY <1>4, BootstrapInv
<1>5. ASSUME NEW j \in Jobs, Die(j) PROVE CrawlInv'
  BY <1>5, DieInv
<1>6. CASE Restart
  BY <1>6, RestartInv
<1>7. CASE UNCHANGED vars
  BY <1>7, CrawlStutter
<1>8. CASE Work
  BY <1>1, <1>2, <1>3, <1>4, <1>8 DEF Work, Saves, Fetches
<1>9. CASE Edit
  BY <1>9, EditReadInv, EditSaveInv DEF Edit
<1> QED BY <1>5, <1>6, <1>7, <1>8, <1>9 DEF Next

\* The invariant holds in every reachable state.
THEOREM CrawlInvHolds == Spec => []CrawlInv
<1>1. Init => CrawlInv
  BY CrawlInitInv
<1>2. CrawlInv /\ [Next]_vars => CrawlInv'
  BY CrawlStepInv
<1> QED BY <1>1, <1>2, PTL DEF Spec

-----------------------------------------------------------------------------
(* The properties.                                                         *)

\* The tables are well formed, what layers list stays, a frontier crawl leaves
\* out only observed feeds, and a crawl fetches no video twice.
THEOREM TablesSoundHolds == Spec => []TablesSound
<1>1. CrawlInv => TablesSound
  <2> SUFFICES ASSUME CrawlInv PROVE TablesSound
    OBVIOUS
  <2>0. VideosOK /\ EdgesOK /\ LayersOK /\ LedgerOK /\ JobsOK /\ DOMAIN run \subseteq RunIds \ {0}
    BY TableFacts
  <2>1. TypeOK
    <3>1. job \in [Jobs -> JobStates] /\ run \in Seq(RunRows) /\ layer \in Seq(LayerRows)
          /\ video \in [Videos -> VideoRows]
      BY <2>0 DEF JobsOK, LedgerOK, LayersOK, VideosOK
    <3>2. /\ strand \subseteq RunIds /\ reopened \subseteq RunIds
          /\ edit \in [Editors -> [run : RunIds, open : BOOLEAN]]
      BY <2>0 DEF LedgerOK, CopiesMade
    <3>3. \A v \in Videos : video[v].row = "full" => video[v].first # 0
      BY <2>0 DEF VideosOK, Full
    <3>4. /\ edge \subseteq [run : 1..MaxRuns, src : Videos, dst : Videos]
          /\ Len(run) <= MaxRuns /\ Len(layer) <= MaxLayers /\ seen \subseteq Videos
      BY <2>0 DEF EdgesOK, LedgerOK, LayersOK, VideosOK
    <3> QED BY <3>1, <3>2, <3>3, <3>4
            DEF TypeOK, JobStates, RunRows, LayerRows, VideoRows, FetchRows
  <2>2. DiscoveredKept
    BY <2>0 DEF LayersOK
  <2>3. SkippedWasObserved
    <3> SUFFICES ASSUME NEW r \in DOMAIN run, NEW v \in AlreadyScraped(r) PROVE v \in seen
      BY DEF SkippedWasObserved
    <3>1. CASE v \in Rows /\ video[v].scraped
      BY <2>0, <3>1 DEF Rows, VideosOK
    <3>2. CASE \E e \in edge : v = e.src
      BY <2>0, <3>2 DEF EdgesOK
    <3> QED BY <3>1, <3>2 DEF AlreadyScraped
  <2>4. FetchedOnce
    BY <2>0 DEF FetchedOnce, JobsOK, JobOK
  <2> QED BY <2>1, <2>2, <2>3, <2>4 DEF TablesSound
<1> QED BY <1>1, CrawlInvHolds, PTL

\* A run of the ledger is RUNNING exactly while a job is in it or has died in it,
\* or an editor has saved over its end a copy read before: the invariant knows
\* that a copy read as finished is of a run that nobody finishes any more.
THEOREM LedgerExplainedHolds == Spec => []LedgerExplained
<1>1. CrawlInv => LedgerExplained
  <2> SUFFICES ASSUME CrawlInv PROVE LedgerExplained
    OBVIOUS
  <2>1. \A r : r \in Inside(Jobs) <=> \E j \in Jobs : InRun(j) /\ job[j].run = r
    BY DEF Inside, InRun
  <2> QED BY <2>1 DEF CrawlInv, LedgerOK, LedgerExplained
<1> QED BY <1>1, CrawlInvHolds, PTL

\* Another run takes a full video over only from a crawl that looked too early.
THEOREM ProvenanceKeptHolds == Spec => ProvenanceKept
<1> DEFINE Explained(v) ==
      \E j \in Jobs :
        \/ job[j].at \in {"collect", "deep"} /\ video'[v].first = job[j].run
        \/ job[j].at = "write" /\ v \in job[j].cur /\ job[j].first # video[v].first
        \/ job[j].at = "bulk" /\ ~job[j].box[v].had
<1> DEFINE Kept ==
      \A v \in Videos : video[v].row = "full" /\ video'[v].first # video[v].first => Explained(v)
<1>1. CrawlInv /\ [Next]_vars => [Kept]_vars
  <2> SUFFICES ASSUME CrawlInv, Next, NEW v \in Videos, Full(v),
                      video'[v].first # video[v].first
               PROVE  Explained(v)
    BY DEF Full
  <2>0. /\ video \in [Videos -> VideoRows] /\ video[v].first # 0
        /\ \A j \in Jobs : JobOK(j)
    BY TableFacts DEF VideosOK
  <2>1. ASSUME NEW w \in Videos, NEW r, video' = Upsert(w, r)
        PROVE  w = v /\ video'[v].first = r
    <3>1. \A u \in Videos \ {w} : video'[u] = video[u]
      BY <2>0, <2>1 DEF Upsert
    <3>2. video'[w].first = r
      BY <2>0, <2>1 DEF Upsert
    <3> QED BY <3>1, <3>2
  <2>2. ASSUME NEW j \in Jobs, NEW w \in Videos, CollectVideo(j, w) \/ SaveTranscript(j, w)
        PROVE  Explained(v)
    BY <2>1, <2>2 DEF CollectVideo, SaveTranscript
  <2>3. ASSUME NEW j \in Jobs, NEW w \in Videos, TakeVideo(j, w) PROVE Explained(v)
    <3>1. job[j].at = "bulk" /\ job[j].box[w].info /\ video' = Upsert(w, Len(run) + 1)
      BY <2>3 DEF TakeVideo
    <3>2. w = v
      BY <2>1, <3>1
    <3> QED BY <2>0, <3>1, <3>2 DEF JobOK
  <2>4. ASSUME NEW j \in Jobs, NEW w \in Videos, WriteTarget(j, w) PROVE Explained(v)
    <3>1. job[j].at = "write" /\ w \in job[j].cur /\ video' = Upsert(w, First(j))
      BY <2>4 DEF WriteTarget
    <3>2. w = v /\ video'[v].first = First(j)
      BY <2>1, <3>1
    <3>3. job[j].first # video[v].first
      BY <2>0, <3>2 DEF First
    <3> QED BY <3>1, <3>2, <3>3
  <2>5. ASSUME NEW j \in Jobs, NEW w \in Videos, SaveVideo(j, w) PROVE FALSE
    <3>1. video' = video \/ video' = Mark(w)
      BY <2>5 DEF SaveVideo, Marked
    <3>2. video'[v].first = video[v].first
      BY <2>0, <3>1 DEF Mark, VideoRows
    <3> QED BY <3>2
  <2>6. ASSUME NEW j \in Jobs, NEW w \in Videos, TakeTarget(j, w) PROVE FALSE
    <3>1. video' = video \/ video' = DropStub(w)
      BY <2>6 DEF TakeTarget
    <3>2. video'[v] = video[v]
      BY <2>0, <3>1 DEF DropStub, Full
    <3> QED BY <3>2
  <2>7. ASSUME UNCHANGED video PROVE FALSE
    BY <2>7
  <2> QED BY <2>2, <2>3, <2>4, <2>5, <2>6, <2>7
          DEF Next, Work, Saves, Fetches, Edit, Collect, ExtractChannel, StartDeep, EnrichTask,
              CollectEnd, Bootstrap, CrawlRun, CrawlLayer, Crawl, ScrapeTask, GiveUp,
              StartEnrich, SaveLayer, Die, Restart, EditRead, EditSave
<1>2. ProvenanceKept <=> [][Kept]_vars
  BY DEF ProvenanceKept
<1> QED BY <1>1, <1>2, CrawlInvHolds, PTL DEF Spec

-----------------------------------------------------------------------------
(* The record of a detection.  Threads save whole copies of it, so a save   *)
(* is sound while the copy is fresh; Named, ToldOK and TimelineOK say what  *)
(* holds as long as every save was.                                         *)

CrawlAts ==
  {"new", "queued", "loaded", "seed", "loop", "crawl", "crawled", "listed", "reloaded",
   "ending", "closing", "deciding", "failing", "failed", "over", "lost"}
Crawls ==
  [at : CrawlAts, copy : Records, last : Nat, left : 0..MaxLayersTotal, stop : Finals]
Handlers ==
  [at : {"idle", "loaded", "asked", "saved"}, kind : {"stop", "continue"},
   copy : Records, job : EchoJobs \cup {"nobody"}, left : 0..MaxLayersTotal]

Holding(w) ==
  crawl[w].at \in {"loaded", "seed", "reloaded", "closing", "deciding", "failed"}
Copied(r) == handler[r].at \in {"loaded", "asked"}
Saved(r) == handler[r].at = "saved"

\* Before the record there is nothing, and no copy is of nothing.
BegunOK ==
  /\ detection.status = "none" =>
       /\ \A w \in EchoJobs : crawl[w].at = "new"
       /\ \A r \in Researchers : handler[r].at = "idle"
  /\ \A w \in EchoJobs : Holding(w) => crawl[w].copy.status # "none"
  /\ \A r \in Researchers : Copied(r) => handler[r].copy.status # "none"

\* A fresh copy is the record.
CopiesOK ==
  /\ \A w \in EchoJobs : w \in fresh /\ Holding(w) => crawl[w].copy = detection
  /\ \A r \in Researchers : r \in fresh /\ Copied(r) => handler[r].copy = detection

\* A job saved is still to be submitted, and by one thread.
SavedOK ==
  /\ \A r \in Researchers :
       IF Saved(r) THEN handler[r].job \in EchoJobs /\ crawl[handler[r].job].at = "new"
                   ELSE handler[r].job = "nobody"
  /\ \A q, r \in Researchers : Saved(q) /\ Saved(r) /\ handler[q].job = handler[r].job => q = r
  /\ \A w \in told : crawl[w].at # "new"

Named ==
  /\ CrawlNamed
  /\ Undisturbed => \A r \in Researchers : Saved(r) => detection.job = handler[r].job
  /\ Undisturbed /\ Busy => detection.status \in {"pending", "running", "stopped"}

ToldOK == Undisturbed =>
  /\ \A w \in told \cap fresh :
       crawl[w].at = "deciding" /\ crawl[w].stop \in {"completed", "exhausted"} =>
         \E r \in Researchers : handler[r].at = "asked"
  /\ detection.job \in told /\ detection.status \in {"completed", "exhausted"} =>
       \E r \in Researchers : handler[r].at = "asked" /\ r \notin fresh

Below(layers, n) == \A i \in DOMAIN layers : layers[i] < n
Rising(layers) == \A i \in DOMAIN layers :
  layers[i] + 1 >= i /\ (i = 1 => layers[i] = 0) /\ (i > 1 => layers[i - 1] < layers[i])
Room(layers, n) == Len(layers) + n <= MaxLayersTotal + 1

PlaceOK(c, layers, tip) ==
  /\ c.at \in {"queued", "loaded", "seed", "loop"} => Room(layers, c.left)
  /\ c.at \in {"crawl", "crawled", "listed", "reloaded"} => Room(layers, c.left + 1)
  /\ c.at \in {"loop", "crawl", "crawled", "listed", "reloaded"} => layers # <<>>
  /\ c.at \in {"loop", "crawl"} => Below(layers, c.last + 1)
  /\ c.at = "crawled" => Below(layers, tip)
  /\ c.at \in {"listed", "reloaded"} => Below(layers, c.last) /\ c.last <= tip

Timely ==
  /\ Rising(detection.layers) /\ Room(detection.layers, 0)
  /\ Below(detection.layers, top + 1)
  /\ \A w \in EchoJobs : PlaceOK(crawl[w], detection.layers, top)
  /\ \A r \in Researchers : Saved(r) => Room(detection.layers, handler[r].left)
TimelineOK == Undisturbed => Timely

EchoInv ==
  /\ EchoTypeOK /\ BegunOK /\ CopiesOK /\ SavedOK /\ Named /\ ToldOK /\ StatusExplained
  /\ TimelineOK

USE EchoAssumption

\* The types, with names for the records.
LEMMA EchoTypes ==
  EchoTypeOK <=>
    /\ detection \in Records /\ crawl \in [EchoJobs -> Crawls]
    /\ handler \in [Researchers -> Handlers]
    /\ top \in Nat /\ halted \subseteq EchoJobs /\ forced \subseteq EchoJobs
    /\ calls \in 0..MaxCalls /\ told \subseteq halted
    /\ fresh \subseteq EchoJobs \cup Researchers
    /\ overlap \in BOOLEAN /\ crossed \in BOOLEAN
BY DEF EchoTypeOK, Crawls, CrawlAts, Handlers

\* A record without snapshots, and the states of threads at rest.
LEMMA RestFacts ==
  /\ NoRecord \in Records /\ NoRecord.status = "none" /\ NoRecord.layers = <<>>
  /\ Asleep \in Crawls /\ Asleep.at = "new" /\ Asleep.stop = "completed"
  /\ \A x \in CrawlAts : [Asleep EXCEPT !.at = x] \in Crawls
                        /\ [Asleep EXCEPT !.at = x].at = x
  /\ Free \in Handlers /\ Free.at = "idle" /\ Free.job = "nobody"
<1>1. NoRecord \in Records
  BY DEF NoRecord, Records
<1> QED BY <1>1 DEF NoRecord, Asleep, Crawls, CrawlAts, Free, Handlers, Finals

\* What is left of the layers allows more as the tip of the family grows.
LEMMA PlaceGrows ==
  ASSUME NEW c \in Crawls, NEW layers \in Seq(Nat), NEW s \in Nat, NEW t \in Nat, s <= t,
         PlaceOK(c, layers, s)
  PROVE  PlaceOK(c, layers, t)
<1>1. \A i \in DOMAIN layers : layers[i] \in Nat
  BY ElementOfSeq, LenProperties
<1>2. Below(layers, s) => Below(layers, t)
  BY <1>1 DEF Below
<1> QED BY <1>2 DEF PlaceOK, Crawls

\* Nobody has begun, and there is no record.
LEMMA EchoInitInv == EchoInit => EchoInv
<1> SUFFICES ASSUME EchoInit PROVE EchoInv
  OBVIOUS
<1>1. /\ detection = NoRecord /\ crawl = [w \in EchoJobs |-> Asleep]
      /\ handler = [r \in Researchers |-> Free] /\ fresh = {} /\ told = {} /\ top = 0
  BY DEF EchoInit
<1>2. EchoTypeOK
  <2>1. crawl \in [EchoJobs -> Crawls] /\ handler \in [Researchers -> Handlers]
    BY <1>1, RestFacts
  <2>2. /\ detection \in Records /\ halted \subseteq EchoJobs /\ forced \subseteq EchoJobs
        /\ told \subseteq halted /\ fresh \subseteq EchoJobs \cup Researchers
        /\ top \in Nat /\ calls \in 0..MaxCalls
    BY <1>1, RestFacts DEF EchoInit
  <2>3. overlap \in BOOLEAN /\ crossed \in BOOLEAN
    BY Zenon DEF EchoInit
  <2> QED BY <2>1, <2>2, <2>3, EchoTypes
<1>3. BegunOK /\ CopiesOK /\ SavedOK
  BY <1>1, RestFacts DEF BegunOK, CopiesOK, SavedOK, Holding, Copied, Saved
<1>4. Named /\ StatusExplained
  BY <1>1, RestFacts DEF Named, CrawlNamed, StatusExplained, Unfinished, Busy, InFlight, Saved
<1>5. ToldOK
  BY <1>1, RestFacts DEF ToldOK
<1>6. TimelineOK
  <2>1. DOMAIN <<>> = {} /\ Len(<<>>) = 0 /\ detection.layers = <<>>
    BY <1>1, RestFacts
  <2>2. \A w \in EchoJobs : crawl[w].at = "new"
    BY <1>1, RestFacts
  <2>3. \A r \in Researchers : ~Saved(r)
    BY <1>1, RestFacts DEF Saved
  <2>4. Rising(<<>>) /\ Room(<<>>, 0) /\ Below(<<>>, top + 1)
    BY <2>1 DEF Rising, Room, Below
  <2>5. \A w \in EchoJobs : PlaceOK(crawl[w], <<>>, top)
    BY <2>2 DEF PlaceOK
  <2> QED BY <2>1, <2>3, <2>4, <2>5 DEF TimelineOK, Timely
<1> QED BY <1>2, <1>3, <1>4, <1>5, <1>6 DEF EchoInv

\* A crawl goes on without saving.
LEMMA CrawlMoves ==
  ASSUME EchoInv, NEW w \in EchoJobs, Unfinished(w), NEW new \in Crawls,
         crawl' = [crawl EXCEPT ![w] = new], new.at \notin {"new", "over", "lost"},
         UNCHANGED <<detection, crossed>>, KeepRequests,
         fresh' \in {fresh, fresh \cup {w}}, top' \in Nat, top <= top',
         Holding(w)' => new.copy.status # "none" /\ (w \in fresh' => new.copy = detection),
         new.at = "deciding" /\ new.stop \in {"completed", "exhausted"} => w \notin told,
         Undisturbed => PlaceOK(new, detection.layers, top')
  PROVE  EchoInv'
<1>0. EchoTypeOK /\ BegunOK /\ CopiesOK /\ SavedOK /\ Named /\ ToldOK /\ TimelineOK
  BY DEF EchoInv
<1>1. /\ crawl \in [EchoJobs -> Crawls] /\ handler \in [Researchers -> Handlers]
      /\ detection \in Records /\ top \in Nat
  BY <1>0, EchoTypes
<1>2. crawl'[w] = new /\ \A v \in EchoJobs \ {w} : crawl'[v] = crawl[v]
  BY <1>1
<1>3. UNCHANGED <<detection, crossed, handler, halted, forced, calls, told, overlap>>
  BY DEF KeepRequests
<1>4. \A v \in EchoJobs : /\ Unfinished(v)' <=> Unfinished(v)
                          /\ crawl'[v].at = "new" <=> crawl[v].at = "new"
  BY <1>2 DEF Unfinished
<1>5. EchoTypeOK'
  <2>1. crawl' \in [EchoJobs -> Crawls] /\ fresh' \subseteq EchoJobs \cup Researchers
    BY <1>0, <1>1, EchoTypes
  <2>2. /\ detection' \in Records /\ handler' \in [Researchers -> Handlers]
        /\ halted' \subseteq EchoJobs /\ forced' \subseteq EchoJobs /\ calls' \in 0..MaxCalls
        /\ told' \subseteq halted' /\ overlap' \in BOOLEAN /\ crossed' \in BOOLEAN
    BY <1>0, <1>3, EchoTypes
  <2> QED BY <2>1, <2>2 DEF EchoTypeOK, Crawls, CrawlAts, Handlers
<1>6. BegunOK'
  <2>1. detection.status # "none"
    BY <1>0 DEF BegunOK, Unfinished
  <2> QED BY <1>0, <1>2, <1>3, <2>1 DEF BegunOK, Holding, Copied
<1>7. CopiesOK'
  BY <1>0, <1>2, <1>3 DEF CopiesOK, Holding, Copied
<1>8. SavedOK'
  BY <1>0, <1>3, <1>4 DEF SavedOK, Saved
<1>9. Busy' <=> Busy
  BY <1>3, <1>4 DEF Busy, InFlight
<1>10. Named' /\ StatusExplained'
  <2>1. Busy'
    BY <1>4, <1>9 DEF Busy
  <2> QED BY <1>0, <1>3, <1>4, <1>9, <2>1
          DEF Named, CrawlNamed, StatusExplained, Undisturbed, Saved
<1>11. ToldOK'
  BY <1>0, <1>2, <1>3 DEF ToldOK, Undisturbed
<1>12. TimelineOK'
  <2> SUFFICES ASSUME Undisturbed PROVE Timely'
    BY <1>3 DEF TimelineOK, Undisturbed
  <2>1. detection.layers \in Seq(Nat)
    BY <1>1 DEF Records
  <2>2. /\ Rising(detection.layers) /\ Room(detection.layers, 0)
        /\ Below(detection.layers, top + 1)
        /\ \A v \in EchoJobs : PlaceOK(crawl[v], detection.layers, top)
        /\ \A r \in Researchers : Saved(r) => Room(detection.layers, handler[r].left)
    BY <1>0 DEF TimelineOK, Timely
  <2>3. \A v \in EchoJobs : PlaceOK(crawl'[v], detection.layers, top')
    <3> TAKE v \in EchoJobs
    <3>1. CASE v = w
      BY <1>2, <3>1
    <3>2. CASE v # w
      BY <1>1, <1>2, <2>1, <2>2, <3>2, PlaceGrows
    <3> QED BY <3>1, <3>2
  <2>4. Below(detection.layers, top' + 1)
    <3>1. \A i \in DOMAIN detection.layers : detection.layers[i] \in Nat
      BY <2>1, ElementOfSeq, LenProperties
    <3> QED BY <1>1, <2>2, <3>1 DEF Below
  <2> QED BY <1>3, <2>2, <2>3, <2>4 DEF Timely, Saved
<1> QED BY <1>5, <1>6, <1>7, <1>8, <1>10, <1>11, <1>12 DEF EchoInv

\* A crawl saves its copy: without a crossing it is the only job at work.
LEMMA CrawlSaves ==
  ASSUME EchoInv, NEW w \in EchoJobs, Unfinished(w), Holding(w), NEW new \in Crawls,
         NEW rec \in Records, NEW keep \in SUBSET {w},
         crawl' = [crawl EXCEPT ![w] = new], SaveKeeping(keep, w, rec), UNCHANGED top,
         KeepRequests, rec.job = crawl[w].copy.job, rec.status # "none",
         new.at \notin {"new", "lost", "deciding"},
         new.at = "over" => rec.status \notin {"pending", "running"},
         new.at # "over" => rec.status \in {"running", crawl[w].copy.status},
         new.at = "over" /\ rec.status \in {"completed", "exhausted"} =>
           crawl[w].at = "deciding" /\ crawl[w].stop = rec.status,
         Holding(w)' => new.copy = rec,
         Undisturbed /\ crawl[w].copy = detection /\ Timely =>
           /\ Rising(rec.layers) /\ Room(rec.layers, 0) /\ Below(rec.layers, top + 1)
           /\ PlaceOK(new, rec.layers, top)
  PROVE  EchoInv'
<1>0. EchoTypeOK /\ BegunOK /\ CopiesOK /\ SavedOK /\ Named /\ ToldOK /\ TimelineOK
  BY DEF EchoInv
<1>1. /\ crawl \in [EchoJobs -> Crawls] /\ handler \in [Researchers -> Handlers]
      /\ detection \in Records /\ top \in Nat
  BY <1>0, EchoTypes
<1>2. crawl'[w] = new /\ \A v \in EchoJobs \ {w} : crawl'[v] = crawl[v]
  BY <1>1
<1>3. /\ UNCHANGED <<handler, halted, forced, calls, told, overlap, top>>
      /\ detection' = rec /\ fresh' = keep
  BY DEF KeepRequests, SaveKeeping
<1>4. Undisturbed' => Undisturbed /\ w \in fresh
  BY <1>3, Zenon DEF Undisturbed, SaveKeeping
<1>5. ASSUME Undisturbed'
      PROVE  /\ crawl[w].copy = detection /\ detection.job = w
             /\ detection.status \in {"pending", "running", "stopped"}
             /\ \A v \in EchoJobs \ {w} : ~Unfinished(v)
             /\ \A r \in Researchers : ~Saved(r)
  <2>1. Undisturbed /\ crawl[w].copy = detection
    BY <1>0, <1>4, <1>5 DEF CopiesOK
  <2>2. detection.job = w /\ \A v \in EchoJobs \ {w} : ~Unfinished(v)
    BY <1>0, <2>1 DEF Named, CrawlNamed
  <2>3. \A r \in Researchers : ~Saved(r)
    BY <1>0, <2>1, <2>2 DEF Named, SavedOK, Unfinished
  <2>4. detection.status \in {"pending", "running", "stopped"}
    BY <1>0, <2>1 DEF Named, Busy
  <2> QED BY <2>1, <2>2, <2>3, <2>4
<1>6. EchoTypeOK'
  <2>1. crawl' \in [EchoJobs -> Crawls] /\ fresh' \subseteq EchoJobs \cup Researchers
    BY <1>1, <1>3
  <2>2. /\ detection' \in Records /\ handler' \in [Researchers -> Handlers]
        /\ halted' \subseteq EchoJobs /\ forced' \subseteq EchoJobs /\ calls' \in 0..MaxCalls
        /\ told' \subseteq halted' /\ overlap' \in BOOLEAN /\ top' \in Nat
    BY <1>0, <1>3, EchoTypes
  <2>3. crossed' \in BOOLEAN
    BY Zenon DEF SaveKeeping
  <2> QED BY <2>1, <2>2, <2>3 DEF EchoTypeOK, Crawls, CrawlAts, Handlers
<1>7. BegunOK'
  BY <1>0, <1>2, <1>3 DEF BegunOK, Holding, Copied
<1>8. CopiesOK'
  BY <1>2, <1>3 DEF CopiesOK, Holding, Copied
<1>9. SavedOK'
  <2>1. \A v \in EchoJobs : crawl'[v].at = "new" <=> crawl[v].at = "new"
    BY <1>2 DEF Unfinished
  <2> QED BY <1>0, <1>3, <2>1 DEF SavedOK, Saved, EchoTypeOK
<1>10. Named'
  <2> SUFFICES ASSUME Undisturbed'
               PROVE  /\ \A v \in EchoJobs : Unfinished(v)' => detection'.job = v
                      /\ \A r \in Researchers : Saved(r)' => detection'.job = handler'[r].job
                      /\ Busy' => detection'.status \in {"pending", "running", "stopped"}
    BY DEF Named, CrawlNamed
  <2>1. \A v \in EchoJobs \ {w} : ~Unfinished(v)'
    BY <1>2, <1>5 DEF Unfinished
  <2>2. \A r \in Researchers : ~Saved(r)'
    BY <1>3, <1>5 DEF Saved
  <2>3. Busy' <=> Unfinished(w)'
    BY <2>1, <2>2 DEF Busy, InFlight, Saved
  <2> QED BY <1>2, <1>3, <1>5, <2>1, <2>2, <2>3 DEF Unfinished
<1>11. StatusExplained'
  <2>1. CASE new.at = "over"
    BY <1>3, <2>1 DEF StatusExplained
  <2>2. CASE new.at # "over"
    BY <1>2, <2>2 DEF StatusExplained, Busy, Unfinished
  <2> QED BY <2>1, <2>2
<1>12. ToldOK'
  <2> SUFFICES ASSUME Undisturbed'
               PROVE  /\ ~(crawl'[w].at = "deciding")
                      /\ detection'.job \in told'
                           /\ detection'.status \in {"completed", "exhausted"} =>
                         \E r \in Researchers : handler'[r].at = "asked" /\ r \notin fresh'
    BY <1>3 DEF ToldOK
  <2>1. ASSUME w \in told, rec.status \in {"completed", "exhausted"}
        PROVE  \E r \in Researchers : handler[r].at = "asked"
    <3>1. new.at = "over"
      BY <1>5, <2>1
    <3>2. w \in told \cap fresh /\ crawl[w].at = "deciding"
          /\ crawl[w].stop \in {"completed", "exhausted"}
      BY <1>4, <2>1, <3>1
    <3> QED BY <1>0, <1>4, <3>2 DEF ToldOK
  <2> QED BY <1>2, <1>3, <1>5, <2>1
<1>13. TimelineOK'
  <2> SUFFICES ASSUME Undisturbed' PROVE Timely'
    BY DEF TimelineOK
  <2>1. /\ Rising(rec.layers) /\ Room(rec.layers, 0) /\ Below(rec.layers, top + 1)
        /\ PlaceOK(new, rec.layers, top)
    BY <1>0, <1>4, <1>5 DEF TimelineOK
  <2>2. \A v \in EchoJobs : PlaceOK(crawl'[v], rec.layers, top)
    <3>1. \A v \in EchoJobs \ {w} : crawl'[v] = crawl[v] /\ crawl[v].at \in {"new", "over", "lost"}
      BY <1>2, <1>5 DEF Unfinished
    <3> QED BY <1>2, <2>1, <3>1 DEF PlaceOK
  <2>3. \A r \in Researchers : ~Saved(r)'
    BY <1>3, <1>5 DEF Saved
  <2> QED BY <1>3, <2>1, <2>2, <2>3 DEF Timely
<1> QED BY <1>6, <1>7, <1>8, <1>9, <1>10, <1>11, <1>12, <1>13 DEF EchoInv

\* The thread of a crawl is gone, and the record stays as it is.
LEMMA CrawlLost ==
  ASSUME EchoInv, NEW w \in EchoJobs, Unfinished(w),
         crawl' = [crawl EXCEPT ![w] = [Asleep EXCEPT !.at = "lost"]], KeepRecord,
         UNCHANGED <<handler, top, halted, told, overlap>>,
         forced' \subseteq EchoJobs, calls' \in 0..MaxCalls
  PROVE  EchoInv'
<1>0. EchoTypeOK /\ BegunOK /\ CopiesOK /\ SavedOK /\ Named /\ ToldOK /\ TimelineOK
  BY DEF EchoInv
<1>1. /\ crawl \in [EchoJobs -> Crawls] /\ handler \in [Researchers -> Handlers]
      /\ detection \in Records /\ top \in Nat
  BY <1>0, EchoTypes
<1> DEFINE new == [Asleep EXCEPT !.at = "lost"]
<1>2. new \in Crawls /\ new.at = "lost"
  BY RestFacts DEF CrawlAts
<1> HIDE DEF new
<1>3. crawl' = [crawl EXCEPT ![w] = new]
  BY DEF new
<1>4. crawl'[w] = new /\ \A v \in EchoJobs \ {w} : crawl'[v] = crawl[v]
  BY <1>1, <1>3
<1>5. UNCHANGED <<detection, fresh, crossed, handler, top, halted, told, overlap>>
  BY DEF KeepRecord
<1>6. \A v \in EchoJobs : (Unfinished(v)' <=> Unfinished(v) /\ v # w)
                          /\ (crawl'[v].at = "new" <=> crawl[v].at = "new")
  BY <1>2, <1>4 DEF Unfinished
<1>7. EchoTypeOK'
  <2>1. crawl' \in [EchoJobs -> Crawls]
    BY <1>1, <1>2, <1>3
  <2>2. /\ detection' \in Records /\ handler' \in [Researchers -> Handlers]
        /\ halted' \subseteq EchoJobs /\ fresh' \subseteq EchoJobs \cup Researchers
        /\ told' \subseteq halted' /\ overlap' \in BOOLEAN /\ crossed' \in BOOLEAN /\ top' \in Nat
    BY <1>0, <1>5, EchoTypes
  <2> QED BY <2>1, <2>2 DEF EchoTypeOK, Crawls, CrawlAts, Handlers
<1>8. BegunOK'
  <2>1. detection.status # "none"
    BY <1>0 DEF BegunOK, Unfinished
  <2> QED BY <1>0, <1>2, <1>4, <1>5, <2>1 DEF BegunOK, Holding, Copied
<1>9. CopiesOK'
  BY <1>0, <1>2, <1>4, <1>5 DEF CopiesOK, Holding, Copied
<1>10. SavedOK'
  BY <1>0, <1>5, <1>6 DEF SavedOK, Saved, EchoTypeOK
<1>11. Busy' => Busy
  BY <1>5, <1>6 DEF Busy, InFlight
<1>12. Named'
  BY <1>0, <1>5, <1>6, <1>11 DEF Named, CrawlNamed, Undisturbed, Saved
<1>13. StatusExplained'
  <2>1. Undisturbed => detection.job = w
    BY <1>0 DEF Named, CrawlNamed
  <2> QED BY <1>2, <1>4, <1>5, <2>1 DEF StatusExplained, Undisturbed
<1>14. ToldOK'
  BY <1>0, <1>2, <1>4, <1>5 DEF ToldOK, Undisturbed
<1>15. TimelineOK'
  <2>1. \A v \in EchoJobs : PlaceOK(crawl[v], detection.layers, top)
                              => PlaceOK(crawl'[v], detection.layers, top)
    BY <1>2, <1>4 DEF PlaceOK
  <2> QED BY <1>0, <1>5, <2>1 DEF TimelineOK, Timely, Undisturbed, Saved
<1> QED BY <1>7, <1>8, <1>9, <1>10, <1>12, <1>13, <1>14, <1>15 DEF EchoInv

\* Something outside the detection happens to its jobs or its family.
LEMMA Requested ==
  ASSUME EchoInv, UNCHANGED <<crawl, handler, told, overlap>>, KeepRecord,
         halted \subseteq halted', halted' \subseteq EchoJobs, forced' \subseteq EchoJobs,
         calls' \in 0..MaxCalls, top' \in Nat, top <= top'
  PROVE  EchoInv'
<1>0. EchoTypeOK /\ BegunOK /\ CopiesOK /\ SavedOK /\ Named /\ ToldOK /\ TimelineOK
      /\ StatusExplained
  BY DEF EchoInv
<1>1. /\ crawl \in [EchoJobs -> Crawls] /\ detection \in Records /\ top \in Nat
  BY <1>0, EchoTypes
<1>2. UNCHANGED <<detection, fresh, crossed, crawl, handler, told, overlap>>
  BY DEF KeepRecord
<1>3. EchoTypeOK'
  <2>1. /\ detection' \in Records /\ handler' \in [Researchers -> Handlers]
        /\ crawl' \in [EchoJobs -> Crawls] /\ fresh' \subseteq EchoJobs \cup Researchers
        /\ told' \subseteq halted' /\ overlap' \in BOOLEAN /\ crossed' \in BOOLEAN
    BY <1>0, <1>2, EchoTypes
  <2> QED BY <2>1 DEF EchoTypeOK, Crawls, CrawlAts, Handlers
<1>4. BegunOK' /\ CopiesOK' /\ SavedOK'
  BY <1>0, <1>2 DEF BegunOK, CopiesOK, SavedOK, Holding, Copied, Saved
<1>5. Named' /\ StatusExplained'
  BY <1>0, <1>2 DEF Named, CrawlNamed, StatusExplained, Undisturbed, Busy, InFlight,
     Unfinished, Saved
<1>6. ToldOK'
  BY <1>0, <1>2 DEF ToldOK, Undisturbed
<1>7. TimelineOK'
  <2> SUFFICES ASSUME Timely PROVE Timely'
    BY <1>0, <1>2 DEF TimelineOK, Undisturbed
  <2>1. detection.layers \in Seq(Nat)
    BY <1>1 DEF Records
  <2>2. \A i \in DOMAIN detection.layers : detection.layers[i] \in Nat
    BY <2>1, ElementOfSeq, LenProperties
  <2>3. Below(detection.layers, top' + 1)
    BY <1>1, <2>2 DEF Below, Timely
  <2>4. \A v \in EchoJobs : PlaceOK(crawl[v], detection.layers, top')
    BY <1>1, <2>1, PlaceGrows DEF Timely
  <2> QED BY <1>2, <2>3, <2>4 DEF Timely, Saved
<1> QED BY <1>3, <1>4, <1>5, <1>6, <1>7 DEF EchoInv

-----------------------------------------------------------------------------
(* One lemma per action of a crawl.                                        *)

\* What a crawl leaves the loop with, and what the record of one is.
LEMMA CrawlFacts ==
  ASSUME EchoInv, NEW w \in EchoJobs
  PROVE  /\ crawl[w] \in Crawls /\ detection \in Records /\ top \in Nat
         /\ crawl[w].copy \in Records /\ crawl[w].last \in Nat
         /\ crawl[w].left \in 0..MaxLayersTotal /\ crawl[w].stop \in Finals
         /\ detection.layers \in Seq(Nat)
         /\ \A i \in DOMAIN detection.layers : detection.layers[i] \in Nat
         /\ Unfinished(w) => detection.status # "none"
         /\ Holding(w) => Unfinished(w) /\ crawl[w].copy.status # "none"
         /\ Holding(w) /\ w \in fresh => crawl[w].copy = detection
         /\ Timely => PlaceOK(crawl[w], detection.layers, top)
         /\ Undisturbed => Timely
<1>1. crawl[w] \in Crawls /\ detection \in Records /\ top \in Nat
  BY EchoTypes DEF EchoInv
<1>2. /\ crawl[w].copy \in Records /\ crawl[w].last \in Nat
      /\ crawl[w].left \in 0..MaxLayersTotal /\ crawl[w].stop \in Finals
  BY <1>1 DEF Crawls
<1>3. detection.layers \in Seq(Nat)
  BY <1>1 DEF Records
<1>4. \A i \in DOMAIN detection.layers : detection.layers[i] \in Nat
  BY <1>3, ElementOfSeq, LenProperties
<1>5. /\ Unfinished(w) => detection.status # "none"
      /\ Holding(w) => Unfinished(w) /\ crawl[w].copy.status # "none"
  BY DEF EchoInv, BegunOK, Unfinished, Holding
<1>6. /\ Holding(w) /\ w \in fresh => crawl[w].copy = detection
      /\ Timely => PlaceOK(crawl[w], detection.layers, top)
      /\ Undisturbed => Timely
  BY DEF EchoInv, CopiesOK, TimelineOK, Timely
<1> QED BY <1>1, <1>2, <1>3, <1>4, <1>5, <1>6

\* The states a crawl leaves its work for.
LEMMA LeavingFacts ==
  /\ \A x \in CrawlAts : /\ [Asleep EXCEPT !.at = x] \in Crawls
                         /\ [Asleep EXCEPT !.at = x].at = x
  /\ \A s \in Finals : /\ [Asleep EXCEPT !.at = "ending", !.stop = s] \in Crawls
                       /\ [Asleep EXCEPT !.at = "ending", !.stop = s].at = "ending"
<1>1. /\ Asleep \in Crawls
      /\ \A x \in CrawlAts : /\ [Asleep EXCEPT !.at = x] \in Crawls
                            /\ [Asleep EXCEPT !.at = x].at = x
  BY RestFacts
<1>2. ASSUME NEW s \in Finals
      PROVE  /\ [Asleep EXCEPT !.at = "ending", !.stop = s] \in Crawls
             /\ [Asleep EXCEPT !.at = "ending", !.stop = s].at = "ending"
  BY <1>1 DEF Crawls, CrawlAts
<1> QED BY <1>1, <1>2

\* The record is loaded.
LEMMA LoadRecordInv ==
  ASSUME EchoInv, NEW w \in EchoJobs, LoadRecord(w) PROVE EchoInv'
<1>1. PICK from \in CrawlAts, to \in CrawlAts :
        /\ Load(w, from, to)
        /\ <<from, to>> \in {<<"queued", "loaded">>, <<"listed", "reloaded">>,
                             <<"ending", "closing">>, <<"failing", "failed">>}
  BY DEF LoadRecord, CrawlAts
<1> DEFINE new == [crawl[w] EXCEPT !.at = to, !.copy = detection]
<1>2. /\ crawl[w].at = from /\ crawl' = [crawl EXCEPT ![w] = new]
      /\ UNCHANGED <<detection, top, crossed>> /\ KeepRequests /\ fresh' = fresh \cup {w}
  BY <1>1, CrawlFacts DEF Load, Crawls
<1>3. /\ new \in Crawls /\ new.at = to /\ new.copy = detection /\ new.left = crawl[w].left
      /\ new.last = crawl[w].last
  BY <1>1, CrawlFacts DEF Crawls
<1> HIDE DEF new
<1>4. Unfinished(w) /\ new.at \notin {"new", "over", "lost", "deciding"}
  BY <1>1, <1>2, <1>3 DEF Unfinished
<1>5. Undisturbed => PlaceOK(new, detection.layers, top)
  BY <1>1, <1>2, <1>3, CrawlFacts DEF PlaceOK
<1>6. top' \in Nat /\ top <= top' /\ detection.status # "none"
  BY <1>2, <1>4, CrawlFacts
<1> QED BY <1>2, <1>3, <1>4, <1>5, <1>6, CrawlMoves

\* The loop goes on, or is left.
LEMMA NextLayerInv ==
  ASSUME EchoInv, NEW w \in EchoJobs, NextLayer(w) PROVE EchoInv'
<1> DEFINE new == [crawl[w] EXCEPT !.at = "crawl", !.left = @ - 1]
<1>1. /\ crawl[w].at = "loop" /\ crawl[w].left > 0 /\ crawl' = [crawl EXCEPT ![w] = new]
      /\ UNCHANGED top /\ KeepRecord /\ KeepRequests
  BY CrawlFacts DEF NextLayer, Crawls
<1>2. /\ new \in Crawls /\ new.at = "crawl" /\ new.left = crawl[w].left - 1
      /\ new.last = crawl[w].last
  <2>1. crawl[w].left - 1 \in 0..MaxLayersTotal
    BY <1>1, CrawlFacts
  <2> QED BY <2>1, CrawlFacts DEF Crawls, CrawlAts
<1> HIDE DEF new
<1>3. Undisturbed => PlaceOK(new, detection.layers, top)
  BY <1>1, <1>2, CrawlFacts DEF PlaceOK, Room
<1>4. Unfinished(w) /\ top' \in Nat /\ top <= top' /\ UNCHANGED <<detection, crossed, fresh>>
  BY <1>1, CrawlFacts DEF Unfinished, KeepRecord
<1>5. ~Holding(w)'
  BY <1>1, <1>2, EchoTypes DEF EchoInv, Holding
<1> QED BY <1>1, <1>2, <1>3, <1>4, <1>5, CrawlMoves

\* A crawl leaves the loop, or fails.
LEMMA LeavesInv ==
  ASSUME EchoInv, NEW w \in EchoJobs, Unfinished(w), NEW new \in Crawls,
         new.at \in {"ending", "failing"}, crawl' = [crawl EXCEPT ![w] = new],
         UNCHANGED top, KeepRecord, KeepRequests
  PROVE  EchoInv'
<1>1. top' \in Nat /\ top <= top' /\ UNCHANGED <<detection, crossed, fresh>>
  BY CrawlFacts DEF KeepRecord
<1>2. ~Holding(w)'
  BY EchoTypes DEF EchoInv, Holding
<1>3. PlaceOK(new, detection.layers, top')
  BY DEF PlaceOK
<1> QED BY <1>1, <1>2, <1>3, CrawlMoves

\* The target is reached, the job was cancelled, or nothing is left to scrape.
LEMMA LeaveLoopInv ==
  ASSUME EchoInv, NEW w \in EchoJobs, LeaveLoop(w) \/ Exhaust(w) PROVE EchoInv'
<1>1. PICK s \in Finals :
        /\ crawl' = [crawl EXCEPT ![w] = [Asleep EXCEPT !.at = "ending", !.stop = s]]
        /\ crawl[w].at \in {"loop", "crawl"} /\ UNCHANGED top /\ KeepRecord /\ KeepRequests
  BY DEF LeaveLoop, Exhaust, Ending, Finals
<1>2. Unfinished(w)
  BY <1>1 DEF Unfinished
<1> QED BY <1>1, <1>2, LeavingFacts, LeavesInv

\* A layer after the last of the family is saved: the tip is above the timeline.
LEMMA ScrapeLayerInv ==
  ASSUME EchoInv, NEW w \in EchoJobs, ScrapeLayer(w) PROVE EchoInv'
<1> DEFINE new == [crawl[w] EXCEPT !.at = "crawled"]
<1>1. /\ crawl[w].at = "crawl" /\ crawl' = [crawl EXCEPT ![w] = new]
      /\ top' = IF crawl[w].last < top THEN top ELSE crawl[w].last + 1
      /\ KeepRecord /\ KeepRequests
  BY CrawlFacts DEF ScrapeLayer, Advance, Crawls
<1>2. new \in Crawls /\ new.at = "crawled" /\ new.left = crawl[w].left
  BY CrawlFacts DEF Crawls, CrawlAts
<1> HIDE DEF new
<1>3. top' \in Nat /\ top <= top' /\ crawl[w].last + 1 <= top' /\ crawl[w].last \in Nat
  BY <1>1, CrawlFacts
<1>4. Undisturbed => PlaceOK(new, detection.layers, top')
  <2>1. Undisturbed => Below(detection.layers, crawl[w].last + 1)
    BY <1>1, CrawlFacts DEF PlaceOK
  <2>2. Undisturbed => Below(detection.layers, top')
    BY <1>3, <2>1, CrawlFacts DEF Below
  <2> QED BY <1>1, <1>2, <2>2, CrawlFacts DEF PlaceOK
<1>5. Unfinished(w) /\ UNCHANGED <<detection, crossed, fresh>>
  BY <1>1 DEF Unfinished, KeepRecord
<1>6. ~Holding(w)'
  BY <1>1, <1>2, EchoTypes DEF EchoInv, Holding
<1> QED BY <1>1, <1>2, <1>3, <1>4, <1>5, <1>6, CrawlMoves

\* The family is listed: the next snapshot is above the timeline.
LEMMA ListLayersInv ==
  ASSUME EchoInv, NEW w \in EchoJobs, ListLayers(w) PROVE EchoInv'
<1> DEFINE new == [crawl[w] EXCEPT !.at = "listed", !.last = top]
<1>1. /\ crawl[w].at = "crawled" /\ crawl' = [crawl EXCEPT ![w] = new]
      /\ UNCHANGED top /\ KeepRecord /\ KeepRequests
  BY CrawlFacts DEF ListLayers, Crawls
<1>2. /\ new \in Crawls /\ new.at = "listed" /\ new.left = crawl[w].left /\ new.last = top
  BY CrawlFacts DEF Crawls, CrawlAts
<1> HIDE DEF new
<1>3. Undisturbed => PlaceOK(new, detection.layers, top)
  BY <1>1, <1>2, CrawlFacts DEF PlaceOK
<1>4. Unfinished(w) /\ top' \in Nat /\ top <= top' /\ UNCHANGED <<detection, crossed, fresh>>
  BY <1>1, CrawlFacts DEF Unfinished, KeepRecord
<1>5. ~Holding(w)'
  BY <1>1, <1>2, EchoTypes DEF EchoInv, Holding
<1> QED BY <1>1, <1>2, <1>3, <1>4, <1>5, CrawlMoves

\* The verdict of a job that was told to stop is no success.
LEMMA DecideInv == ASSUME EchoInv, NEW w \in EchoJobs, Decide(w) PROVE EchoInv'
<1> DEFINE new == [crawl[w] EXCEPT !.at = "deciding", !.stop = Verdict(w)]
<1>1. /\ crawl[w].at = "closing" /\ crawl' = [crawl EXCEPT ![w] = new]
      /\ UNCHANGED top /\ KeepRecord /\ KeepRequests
  BY CrawlFacts DEF Decide, Crawls
<1>2. Verdict(w) \in Finals
  BY CrawlFacts DEF Verdict, Finals
<1>3. /\ new \in Crawls /\ new.at = "deciding" /\ new.stop = Verdict(w)
      /\ new.copy = crawl[w].copy
  BY <1>2, CrawlFacts DEF Crawls, CrawlAts
<1> HIDE DEF new
<1>4. w \in told => new.stop = "stopped"
  BY <1>3, EchoTypes DEF EchoInv, Verdict
<1>5. PlaceOK(new, detection.layers, top)
  BY <1>3 DEF PlaceOK
<1>6. /\ Unfinished(w) /\ top' \in Nat /\ top <= top' /\ UNCHANGED <<detection, crossed, fresh>>
      /\ crawl[w].copy.status # "none" /\ (w \in fresh => crawl[w].copy = detection)
  BY <1>1, CrawlFacts DEF Unfinished, KeepRecord, Holding
<1> QED BY <1>1, <1>3, <1>4, <1>5, <1>6, CrawlMoves

\* A crawl raises: its record is marked later, or stays as it is.
LEMMA RaiseErrorInv == ASSUME EchoInv, NEW w \in EchoJobs, RaiseError(w) PROVE EchoInv'
<1>1. UNCHANGED top /\ KeepRecord /\ KeepRequests
  BY DEF RaiseError
<1>2. CASE /\ crawl[w].at \in {"seed", "crawl", "reloaded", "deciding"}
           /\ crawl' = [crawl EXCEPT ![w] = [Asleep EXCEPT !.at = "failing"]]
  <2>1. /\ [Asleep EXCEPT !.at = "failing"] \in Crawls
        /\ [Asleep EXCEPT !.at = "failing"].at = "failing"
    BY LeavingFacts DEF CrawlAts
  <2> QED BY <1>1, <1>2, <2>1, LeavesInv DEF Unfinished
<1>3. CASE \E from \in {"loaded", "failed"} : End(w, from, "lost")
  <2>1. Unfinished(w) /\ crawl' = [crawl EXCEPT ![w] = [Asleep EXCEPT !.at = "lost"]]
    BY <1>3 DEF End, Unfinished
  <2>2. forced' \subseteq EchoJobs /\ calls' \in 0..MaxCalls
        /\ UNCHANGED <<handler, top, halted, told, overlap>>
    BY <1>1, EchoTypes DEF EchoInv, KeepRequests
  <2> QED BY <1>1, <2>1, <2>2, CrawlLost
<1> QED BY <1>2, <1>3 DEF RaiseError

\* The record with another status, and with more layers.
LEMMA RecordFacts ==
  ASSUME NEW c \in Records, NEW s \in {"pending", "running", "failed"} \cup Finals
  PROVE  /\ [c EXCEPT !.status = s] \in Records /\ [c EXCEPT !.status = s].status = s
         /\ [c EXCEPT !.status = s].job = c.job /\ [c EXCEPT !.status = s].layers = c.layers
BY DEF Records

\* The record with other layers.
LEMMA LayersFacts ==
  ASSUME NEW c \in Records, NEW layers \in Seq(Nat)
  PROVE  /\ [c EXCEPT !.layers = layers] \in Records
         /\ [c EXCEPT !.layers = layers].status = c.status
         /\ [c EXCEPT !.layers = layers].job = c.job
         /\ [c EXCEPT !.layers = layers].layers = layers
BY DEF Records

\* A snapshot above the timeline extends it.
LEMMA Extended ==
  ASSUME NEW layers \in Seq(Nat), NEW n \in Nat, NEW room \in Nat, NEW tip \in Nat,
         Rising(layers), Room(layers, room + 1), Below(layers, n), n <= tip,
         layers = <<>> => n = 0
  PROVE  /\ Append(layers, n) \in Seq(Nat) /\ Append(layers, n) # <<>>
         /\ Rising(Append(layers, n)) /\ Room(Append(layers, n), room)
         /\ Below(Append(layers, n), n + 1) /\ Below(Append(layers, n), tip + 1)
<1> DEFINE more == Append(layers, n)
<1>1. /\ more \in Seq(Nat) /\ Len(more) = Len(layers) + 1 /\ Len(layers) \in Nat
      /\ DOMAIN layers = 1..Len(layers) /\ DOMAIN more = 1..(Len(layers) + 1)
      /\ \A i \in 1..Len(layers) : more[i] = layers[i]
      /\ more[Len(layers) + 1] = n
  BY LenProperties, AppendProperties
<1>2. \A i \in DOMAIN layers : layers[i] \in Nat
  BY ElementOfSeq, LenProperties
<1>3. layers = <<>> <=> Len(layers) = 0
  BY EmptySeq
<1> HIDE DEF more
<1>4. Rising(more)
  <2> SUFFICES ASSUME NEW i \in DOMAIN more
               PROVE  more[i] + 1 >= i /\ (i = 1 => more[i] = 0) /\ (i > 1 => more[i - 1] < more[i])
    BY DEF Rising
  <2>1. CASE i <= Len(layers)
    <3>1. i \in DOMAIN layers /\ (i > 1 => i - 1 \in DOMAIN layers)
      BY <1>1, <2>1
    <3> QED BY <1>1, <3>1 DEF Rising
  <2>2. CASE i = Len(layers) + 1
    <3>1. CASE Len(layers) = 0
      BY <1>1, <1>3, <2>2, <3>1
    <3>2. CASE Len(layers) # 0
      <4>1. Len(layers) \in DOMAIN layers
        BY <1>1, <3>2
      <4>2. layers[Len(layers)] + 1 >= Len(layers) /\ layers[Len(layers)] < n
        BY <4>1 DEF Rising, Below
      <4>3. more[i] = n /\ more[i - 1] = layers[Len(layers)] /\ i > 1
        BY <1>1, <2>2, <3>2
      <4> QED BY <1>1, <1>2, <2>2, <4>1, <4>2, <4>3
    <3> QED BY <3>1, <3>2
  <2> QED BY <1>1, <2>1, <2>2
<1>5. Room(more, room)
  BY <1>1 DEF Room
<1>6. Below(more, n + 1) /\ Below(more, tip + 1)
  <2>1. \A i \in DOMAIN more : i \in DOMAIN layers \/ i = Len(layers) + 1
    BY <1>1
  <2>2. \A i \in DOMAIN layers : more[i] \in Nat /\ more[i] < n
    BY <1>1, <1>2 DEF Below
  <2>3. \A i \in DOMAIN more : more[i] \in Nat /\ more[i] <= n
    BY <1>1, <2>1, <2>2
  <2> QED BY <2>3 DEF Below
<1>7. more # <<>>
  BY <1>1
<1> QED BY <1>1, <1>4, <1>5, <1>6, <1>7 DEF more

\* The crawl is marked as running.
LEMMA MarkRunningInv == ASSUME EchoInv, NEW w \in EchoJobs, MarkRunning(w) PROVE EchoInv'
<1> DEFINE rec == [crawl[w].copy EXCEPT !.status = "running"]
           new == [crawl[w] EXCEPT !.at = "seed", !.copy = rec]
<1>1. /\ crawl[w].at = "loaded" /\ SaveKeeping({w}, w, rec)
      /\ crawl' = [crawl EXCEPT ![w] = new] /\ UNCHANGED top /\ KeepRequests
  BY CrawlFacts DEF MarkRunning, Crawls
<1>2. /\ rec \in Records /\ rec.status = "running" /\ rec.job = crawl[w].copy.job
      /\ rec.layers = crawl[w].copy.layers
  <2>1. crawl[w].copy \in Records
    BY CrawlFacts
  <2> QED BY <2>1, RecordFacts
<1> HIDE DEF rec
<1>3. /\ new \in Crawls /\ new.at = "seed" /\ new.copy = rec /\ new.left = crawl[w].left
  BY <1>2, CrawlFacts DEF Crawls, CrawlAts
<1> HIDE DEF new
<1>4. Unfinished(w) /\ Holding(w)
  BY <1>1 DEF Unfinished, Holding
<1>5. crawl[w].copy = detection /\ Timely =>
        /\ Rising(rec.layers) /\ Room(rec.layers, 0) /\ Below(rec.layers, top + 1)
        /\ PlaceOK(new, rec.layers, top)
  BY <1>1, <1>2, <1>3, CrawlFacts DEF Timely, PlaceOK
<1> QED BY <1>1, <1>2, <1>3, <1>4, <1>5, CrawlSaves

\* A crawl is over, and saves a final status.
LEMMA SavesEnd ==
  ASSUME EchoInv, NEW w \in EchoJobs, Holding(w), NEW s \in Finals \cup {"failed"},
         crawl' = [crawl EXCEPT ![w] = [Asleep EXCEPT !.at = "over"]],
         SaveRecord(w, [crawl[w].copy EXCEPT !.status = s]), UNCHANGED top, KeepRequests,
         s \in {"completed", "exhausted"} => crawl[w].at = "deciding" /\ crawl[w].stop = s
  PROVE  EchoInv'
<1> DEFINE rec == [crawl[w].copy EXCEPT !.status = s]
           new == [Asleep EXCEPT !.at = "over"]
<1>1. /\ rec \in Records /\ rec.status = s /\ rec.job = crawl[w].copy.job
      /\ rec.layers = crawl[w].copy.layers
  <2>1. crawl[w].copy \in Records
    BY CrawlFacts
  <2> QED BY <2>1, RecordFacts
<1>2. new \in Crawls /\ new.at = "over"
  BY LeavingFacts DEF CrawlAts
<1>3. SaveKeeping({}, w, rec) /\ crawl' = [crawl EXCEPT ![w] = new]
  BY DEF SaveRecord
<1> HIDE DEF rec, new
<1>4. s \notin {"none", "pending", "running"} /\ Unfinished(w)
  BY CrawlFacts DEF Finals
<1>5. crawl[w].copy = detection /\ Timely =>
        /\ Rising(rec.layers) /\ Room(rec.layers, 0) /\ Below(rec.layers, top + 1)
        /\ PlaceOK(new, rec.layers, top)
  BY <1>1, <1>2 DEF Timely, PlaceOK
<1>6. ~Holding(w)'
  BY <1>2, <1>3, EchoTypes DEF EchoInv, Holding
<1> QED BY <1>1, <1>2, <1>3, <1>4, <1>5, <1>6, CrawlSaves

\* The three saves a crawl can end with.
LEMMA EndInv ==
  ASSUME EchoInv, NEW w \in EchoJobs, NoFrontier(w) \/ SaveEnd(w) \/ SaveFailure(w)
  PROVE  EchoInv'
<1>1. CASE NoFrontier(w)
  BY <1>1, SavesEnd DEF NoFrontier, End, Holding, Finals
<1>2. CASE SaveEnd(w)
  BY <1>2, SavesEnd, CrawlFacts DEF SaveEnd, End, Holding
<1>3. CASE SaveFailure(w)
  BY <1>3, SavesEnd DEF SaveFailure, End, Holding
<1> QED BY <1>1, <1>2, <1>3

\* Layer 0 is saved, unless a crawl before has done so.
LEMMA AnchorInv == ASSUME EchoInv, NEW w \in EchoJobs, Anchor(w) PROVE EchoInv'
<1> DEFINE old == crawl[w].copy.layers
           layers == IF Contains(old, 0) THEN old ELSE Append(old, 0)
           rec == [crawl[w].copy EXCEPT !.layers = layers]
           new == [crawl[w] EXCEPT !.at = "loop", !.last = top, !.copy = NoRecord]
<1>1. /\ crawl[w].at = "seed" /\ SaveKeeping({}, w, rec)
      /\ crawl' = [crawl EXCEPT ![w] = new] /\ UNCHANGED top /\ KeepRequests
  BY CrawlFacts DEF Anchor, SaveRecord, Crawls
<1>2. old \in Seq(Nat)
  BY CrawlFacts DEF Records
<1>3. layers \in Seq(Nat)
  BY <1>2, AppendProperties
<1>4. /\ rec \in Records /\ rec.status = crawl[w].copy.status /\ rec.job = crawl[w].copy.job
      /\ rec.layers = layers
  <2>1. crawl[w].copy \in Records
    BY CrawlFacts
  <2> HIDE DEF layers
  <2> QED BY <1>3, <2>1, LayersFacts
<1>5. /\ new \in Crawls /\ new.at = "loop" /\ new.left = crawl[w].left /\ new.last = top
  <2>1. crawl[w] \in Crawls /\ NoRecord \in Records /\ top \in Nat
    BY CrawlFacts, RestFacts
  <2> QED BY <2>1 DEF Crawls, CrawlAts
<1>6. /\ Unfinished(w) /\ Holding(w) /\ crawl[w].copy.status # "none"
  BY <1>1, CrawlFacts DEF Unfinished, Holding
<1>7. ASSUME crawl[w].copy = detection, Timely
      PROVE  /\ Rising(layers) /\ Room(layers, 0) /\ Below(layers, top + 1)
             /\ PlaceOK(new, layers, top)
  <2>1. Rising(old) /\ Room(old, 0) /\ Below(old, top + 1) /\ Room(old, crawl[w].left)
    BY <1>1, <1>7, CrawlFacts DEF Timely, PlaceOK
  <2>2. crawl[w].left \in 0..MaxLayersTotal /\ top \in Nat
    BY CrawlFacts
  <2>3. Rising(layers) /\ Room(layers, 0) /\ Below(layers, top + 1) /\ Room(layers, crawl[w].left)
        /\ layers # <<>>
    <3>1. CASE Contains(old, 0)
      <4>1. old # <<>>
        BY <3>1 DEF Contains
      <4> QED BY <2>1, <3>1, <4>1
    <3>2. CASE ~Contains(old, 0)
      <4>1. old = <<>>
        <5> SUFFICES ASSUME old # <<>> PROVE FALSE
          OBVIOUS
        <5>1. 1 \in DOMAIN old /\ 1 \in 1..Len(old)
          BY <1>2, EmptySeq, LenProperties
        <5>2. old[1] = 0
          BY <2>1, <5>1 DEF Rising
        <5> QED BY <3>2, <5>1, <5>2 DEF Contains
      <4>2. Below(old, 0) /\ Room(old, crawl[w].left + 1) /\ Room(old, 0 + 1)
        BY <2>2, <4>1 DEF Below, Room
      <4>3. layers = Append(old, 0)
        BY <3>2
      <4> HIDE DEF layers
      <4>4. crawl[w].left \in Nat /\ 0 \in Nat /\ 0 <= top
        BY <2>2
      <4>5. Rising(layers) /\ Room(layers, 0) /\ Below(layers, top + 1) /\ layers # <<>>
        BY <1>2, <2>1, <2>2, <4>1, <4>2, <4>3, <4>4, Extended
      <4>6. Room(layers, crawl[w].left)
        BY <1>2, <2>1, <2>2, <4>1, <4>2, <4>3, <4>4, Extended
      <4> QED BY <4>5, <4>6
    <3> QED BY <3>1, <3>2
  <2> HIDE DEF layers, new
  <2> QED BY <1>5, <2>3 DEF PlaceOK
<1> HIDE DEF rec, new, layers
<1>8. ~Holding(w)'
  BY <1>1, <1>5, EchoTypes DEF EchoInv, Holding
<1> QED BY <1>1, <1>4, <1>5, <1>6, <1>7, <1>8, CrawlSaves

\* A snapshot is appended.
LEMMA SaveSnapshotInv == ASSUME EchoInv, NEW w \in EchoJobs, SaveSnapshot(w) PROVE EchoInv'
<1> DEFINE old == crawl[w].copy.layers
           layers == Append(old, crawl[w].last)
           rec == [crawl[w].copy EXCEPT !.layers = layers]
           on == [crawl[w] EXCEPT !.at = "loop", !.copy = NoRecord]
           off == [Asleep EXCEPT !.at = "ending", !.stop = "unsupported_stop"]
<1>1. /\ crawl[w].at = "reloaded" /\ SaveKeeping({}, w, rec) /\ UNCHANGED top /\ KeepRequests
      /\ \/ crawl' = [crawl EXCEPT ![w] = on]
         \/ crawl' = [crawl EXCEPT ![w] = off]
  BY CrawlFacts DEF SaveSnapshot, SaveRecord, Ending, Crawls
<1>2. old \in Seq(Nat) /\ crawl[w].last \in Nat /\ crawl[w].left \in 0..MaxLayersTotal
  BY CrawlFacts DEF Records
<1>3. layers \in Seq(Nat)
  BY <1>2, AppendProperties
<1>4. /\ rec \in Records /\ rec.status = crawl[w].copy.status /\ rec.job = crawl[w].copy.job
      /\ rec.layers = layers
  <2>1. crawl[w].copy \in Records
    BY CrawlFacts
  <2> HIDE DEF layers
  <2> QED BY <1>3, <2>1, LayersFacts
<1>5. /\ on \in Crawls /\ on.at = "loop" /\ on.left = crawl[w].left /\ on.last = crawl[w].last
  <2>1. crawl[w] \in Crawls /\ NoRecord \in Records /\ top \in Nat
    BY CrawlFacts, RestFacts
  <2> QED BY <2>1 DEF Crawls, CrawlAts
<1>6. off \in Crawls /\ off.at = "ending"
  BY LeavingFacts DEF Finals
<1>7. /\ Unfinished(w) /\ Holding(w) /\ crawl[w].copy.status # "none"
  BY <1>1, CrawlFacts DEF Unfinished, Holding
<1> HIDE DEF on, off
<1>8. ASSUME crawl[w].copy = detection, Timely
      PROVE  /\ Rising(layers) /\ Room(layers, 0) /\ Below(layers, top + 1)
             /\ PlaceOK(on, layers, top) /\ PlaceOK(off, layers, top)
  <2>1. /\ Rising(old) /\ Room(old, crawl[w].left + 1) /\ Below(old, crawl[w].last)
        /\ crawl[w].last <= top /\ old # <<>> /\ top \in Nat
    BY <1>1, <1>8, CrawlFacts DEF Timely, PlaceOK
  <2>2. crawl[w].left \in Nat
    BY <1>2
  <2>3. /\ layers # <<>> /\ Rising(layers) /\ Room(layers, crawl[w].left)
        /\ Below(layers, crawl[w].last + 1) /\ Below(layers, top + 1)
    BY <1>2, <2>1, <2>2, Extended
  <2>4. Room(layers, 0)
    BY <1>3, <2>2, <2>3, LenProperties DEF Room
  <2> HIDE DEF layers
  <2> QED BY <1>5, <1>6, <2>3, <2>4 DEF PlaceOK
<1> HIDE DEF rec, layers
<1>9. ~Holding(w)'
  BY <1>1, <1>5, <1>6, EchoTypes DEF EchoInv, Holding
<1>10. CASE crawl' = [crawl EXCEPT ![w] = on]
  BY <1>1, <1>4, <1>5, <1>7, <1>8, <1>9, <1>10, CrawlSaves
<1>11. CASE crawl' = [crawl EXCEPT ![w] = off]
  BY <1>1, <1>4, <1>6, <1>7, <1>8, <1>9, <1>11, CrawlSaves
<1> QED BY <1>1, <1>10, <1>11

-----------------------------------------------------------------------------
(* The endpoints, and the world outside.                                   *)

\* A handler and its copy.
LEMMA HandlerFacts ==
  ASSUME EchoInv, NEW r \in Researchers
  PROVE  /\ handler \in [Researchers -> Handlers] /\ crawl \in [EchoJobs -> Crawls]
         /\ handler[r] \in Handlers /\ handler[r].copy \in Records
         /\ handler[r].left \in 0..MaxLayersTotal
         /\ Copied(r) => handler[r].copy.status # "none" /\ detection.status # "none"
         /\ Copied(r) /\ r \in fresh => handler[r].copy = detection
         /\ EchoTypeOK /\ BegunOK /\ CopiesOK /\ SavedOK /\ Named /\ ToldOK /\ TimelineOK
<1>1. /\ EchoTypeOK /\ BegunOK /\ CopiesOK /\ SavedOK /\ Named /\ ToldOK /\ TimelineOK
  BY DEF EchoInv
<1>2. /\ handler \in [Researchers -> Handlers] /\ crawl \in [EchoJobs -> Crawls]
      /\ handler[r] \in Handlers
  BY <1>1, EchoTypes
<1>3. handler[r].copy \in Records /\ handler[r].left \in 0..MaxLayersTotal
  BY <1>2 DEF Handlers
<1>4. /\ Copied(r) => handler[r].copy.status # "none" /\ detection.status # "none"
      /\ Copied(r) /\ r \in fresh => handler[r].copy = detection
  BY <1>1 DEF BegunOK, CopiesOK, Copied
<1> QED BY <1>1, <1>2, <1>3, <1>4

\* A handler loads the record, or asks the job it names to stop.
LEMMA HandlerMoves ==
  ASSUME EchoInv, NEW r \in Researchers, handler[r].at \in {"idle", "loaded"},
         NEW new \in Handlers, new.at \in {"loaded", "asked"}, new.job = "nobody",
         handler' = [handler EXCEPT ![r] = new], new.copy.status # "none",
         detection.status # "none", r \in fresh' => new.copy = detection,
         fresh' \in {fresh, fresh \cup {r}}, calls' \in 0..MaxCalls,
         NEW asked \in SUBSET EchoJobs, halted' = halted \cup asked, told' = told \cup asked,
         \A w \in asked : Unfinished(w), asked # {} => new.at = "asked",
         UNCHANGED <<detection, crossed, overlap, forced>>, KeepCrawls
  PROVE  EchoInv'
<1>0. /\ EchoTypeOK /\ BegunOK /\ CopiesOK /\ SavedOK /\ Named /\ ToldOK /\ TimelineOK
      /\ handler \in [Researchers -> Handlers] /\ handler[r].at # "saved" /\ StatusExplained
  BY HandlerFacts DEF EchoInv
<1>1. handler'[r] = new /\ \A q \in Researchers \ {r} : handler'[q] = handler[q]
  BY <1>0
<1>2. UNCHANGED <<detection, crossed, overlap, forced, crawl, top>>
  BY DEF KeepCrawls
<1>3. \A q \in Researchers : (Saved(q)' <=> Saved(q)) /\ (Saved(q) => handler'[q] = handler[q])
  BY <1>0, <1>1 DEF Saved
<1>4. EchoTypeOK'
  <2>1. handler' \in [Researchers -> Handlers] /\ fresh' \subseteq EchoJobs \cup Researchers
        /\ halted' \subseteq EchoJobs /\ told' \subseteq halted'
    BY <1>0, EchoTypes
  <2>2. /\ detection' \in Records /\ crawl' \in [EchoJobs -> Crawls] /\ top' \in Nat
        /\ forced' \subseteq EchoJobs /\ overlap' \in BOOLEAN /\ crossed' \in BOOLEAN
    BY <1>0, <1>2, EchoTypes
  <2> QED BY <2>1, <2>2 DEF EchoTypeOK, Crawls, CrawlAts, Handlers
<1>5. BegunOK' /\ CopiesOK'
  <2>1. r \notin EchoJobs
    OBVIOUS
  <2> QED BY <1>0, <1>1, <1>2, <2>1 DEF BegunOK, CopiesOK, Holding, Copied
<1>6. SavedOK'
  <2>1. \A w \in told' : crawl'[w].at # "new"
    BY <1>0, <1>2 DEF SavedOK, Unfinished
  <2> QED BY <1>0, <1>1, <1>2, <1>3, <2>1 DEF SavedOK, Saved
<1>7. Busy' <=> Busy
  BY <1>2, <1>3 DEF Busy, InFlight, Saved, Unfinished
<1>8. Named' /\ StatusExplained'
  BY <1>0, <1>2, <1>3, <1>7
     DEF Named, CrawlNamed, StatusExplained, Undisturbed, Unfinished
<1>9. ToldOK'
  <2> SUFFICES ASSUME Undisturbed
               PROVE  /\ \A w \in told' \cap fresh' :
                           crawl[w].at = "deciding"
                             /\ crawl[w].stop \in {"completed", "exhausted"} =>
                           \E q \in Researchers : handler'[q].at = "asked"
                      /\ detection.job \in told'
                           /\ detection.status \in {"completed", "exhausted"} =>
                         \E q \in Researchers : handler'[q].at = "asked" /\ q \notin fresh'
    BY <1>2 DEF ToldOK, Undisturbed
  <2>1. ASSUME NEW w \in told' \cap fresh', crawl[w].at = "deciding",
               crawl[w].stop \in {"completed", "exhausted"}
        PROVE  \E q \in Researchers : handler'[q].at = "asked"
    <3>1. CASE w \in asked
      BY <1>1, <3>1
    <3>2. CASE w \notin asked
      <4>1. w \in told \cap fresh
        BY <1>0, <2>1, <3>2, EchoTypes
      <4>2. PICK q \in Researchers : handler[q].at = "asked"
        BY <1>0, <2>1, <4>1 DEF ToldOK
      <4> QED BY <1>0, <1>1, <4>2
    <3> QED BY <3>1, <3>2
  <2>2. ASSUME detection.job \in told', detection.status \in {"completed", "exhausted"}
        PROVE  \E q \in Researchers : handler'[q].at = "asked" /\ q \notin fresh'
    <3>1. ~Busy
      BY <1>0, <2>2 DEF Named
    <3>2. detection.job \in told
      BY <2>2, <3>1 DEF Busy
    <3>3. PICK q \in Researchers : handler[q].at = "asked" /\ q \notin fresh
      BY <1>0, <2>2, <3>2 DEF ToldOK
    <3> QED BY <1>0, <1>1, <3>3
  <2> QED BY <2>1, <2>2
<1>10. TimelineOK'
  BY <1>0, <1>2, <1>3 DEF TimelineOK, Timely, Undisturbed
<1> QED BY <1>4, <1>5, <1>6, <1>8, <1>9, <1>10 DEF EchoInv

\* A stop or a continuation loads the record.
LEMMA LoadForInv ==
  ASSUME EchoInv, NEW r \in Researchers, NEW kind \in {"stop", "continue"}, LoadFor(r, kind)
  PROVE  EchoInv'
<1> DEFINE new == [Free EXCEPT !.at = "loaded", !.kind = kind, !.copy = detection]
<1>1. /\ handler[r].at = "idle" /\ detection.status # "none" /\ KeepCrawls
      /\ handler' = [handler EXCEPT ![r] = new] /\ fresh' = fresh \cup {r} /\ Call
      /\ UNCHANGED <<detection, halted, forced, told, overlap, crossed>>
  BY DEF LoadFor
<1>2. new \in Handlers /\ new.at = "loaded" /\ new.job = "nobody" /\ new.copy = detection
  BY RestFacts, EchoTypes DEF EchoInv, Handlers
<1> HIDE DEF new
<1>3. calls' \in 0..MaxCalls
  BY <1>1, EchoTypes DEF EchoInv, Call
<1>4. {} \in SUBSET EchoJobs /\ halted' = halted \cup {} /\ told' = told \cup {}
  BY <1>1
<1> QED BY <1>1, <1>2, <1>3, <1>4, HandlerMoves

\* A stop cancels the job its copy names.
LEMMA CancelNamedInv ==
  ASSUME EchoInv, NEW r \in Researchers, CancelNamed(r) PROVE EchoInv'
<1> DEFINE w == handler[r].copy.job
           new == [handler[r] EXCEPT !.at = "asked"]
<1>1. PICK asked : /\ asked = IF AcceptsCancel(w) THEN {w} ELSE {}
                   /\ halted' = halted \cup asked /\ told' = told \cup asked
  BY DEF CancelNamed
<1>2. /\ handler[r].at = "loaded" /\ KeepCrawls /\ KeepRecord
      /\ UNCHANGED <<forced, calls, overlap>> /\ handler' = [handler EXCEPT ![r] = new]
  BY HandlerFacts DEF CancelNamed
<1>3. asked \in SUBSET EchoJobs /\ \A v \in asked : Unfinished(v)
  BY <1>1 DEF AcceptsCancel
<1>4. /\ new \in Handlers /\ new.at = "asked" /\ new.job = handler[r].job
      /\ new.copy = handler[r].copy
  BY HandlerFacts DEF Handlers
<1> HIDE DEF new
<1>5. handler[r].job = "nobody"
  BY <1>2, HandlerFacts DEF SavedOK, Saved
<1>6. /\ handler[r].copy.status # "none" /\ detection.status # "none"
      /\ r \in fresh => handler[r].copy = detection
  BY <1>2, HandlerFacts DEF Copied
<1>7. UNCHANGED <<detection, fresh, crossed>> /\ calls' \in 0..MaxCalls
  BY <1>2, EchoTypes DEF KeepRecord, EchoInv
<1> QED BY <1>1, <1>2, <1>3, <1>4, <1>5, <1>6, <1>7, HandlerMoves

\* Jobs that are asked to stop, or ended in the registry; other crawls.
LEMMA CancelCrawlInv ==
  ASSUME EchoInv, NEW w \in EchoJobs, CancelCrawl(w) PROVE EchoInv'
<1>1. /\ halted' = halted \cup {w} /\ UNCHANGED <<crawl, handler, told, overlap, forced, top>>
      /\ KeepRecord /\ Call
  BY DEF CancelCrawl, KeepCrawls
<1>2. /\ halted' \subseteq EchoJobs /\ forced' \subseteq EchoJobs /\ calls' \in 0..MaxCalls
      /\ top' \in Nat /\ top <= top'
  BY <1>1, EchoTypes DEF EchoInv, Call
<1> QED BY <1>1, <1>2, Requested

\* The registry ends a job whose thread may go on.
LEMMA ForceJobInv == ASSUME EchoInv, NEW w \in EchoJobs, ForceJob(w) PROVE EchoInv'
<1>1. /\ forced' = forced \cup {w} /\ UNCHANGED <<handler, top, halted, told, overlap>>
      /\ KeepRecord /\ Call /\ Unfinished(w)
  BY DEF ForceJob, AcceptsCancel
<1>2. /\ halted' \subseteq EchoJobs /\ forced' \subseteq EchoJobs /\ calls' \in 0..MaxCalls
      /\ top' \in Nat /\ top <= top'
  BY <1>1, EchoTypes DEF EchoInv, Call
<1>3. CASE crawl[w].at = "queued"
  BY <1>1, <1>2, <1>3, CrawlLost DEF ForceJob
<1>4. CASE crawl[w].at # "queued"
  BY <1>1, <1>2, <1>4, Requested DEF ForceJob
<1> QED BY <1>3, <1>4

\* Another crawl adds a layer to the family.
LEMMA OtherLayerInv == ASSUME EchoInv, OtherLayer PROVE EchoInv'
<1>1. /\ top' = top + 1 /\ UNCHANGED <<crawl, handler, halted, forced, told, overlap>>
      /\ KeepRecord /\ Call
  BY DEF OtherLayer
<1>2. /\ halted' \subseteq EchoJobs /\ forced' \subseteq EchoJobs /\ calls' \in 0..MaxCalls
      /\ top' \in Nat /\ top <= top'
  BY <1>1, EchoTypes DEF EchoInv, Call
<1> QED BY <1>1, <1>2, Requested

\* A stop saves its copy: without a crossing only the status changes.
LEMMA SaveStoppedInv ==
  ASSUME EchoInv, NEW r \in Researchers, SaveStopped(r) PROVE EchoInv'
<1> DEFINE rec == [handler[r].copy EXCEPT !.status = "stopped"]
<1>0. /\ EchoTypeOK /\ BegunOK /\ CopiesOK /\ SavedOK /\ Named /\ ToldOK /\ TimelineOK
      /\ handler \in [Researchers -> Handlers] /\ handler[r].copy \in Records
  BY HandlerFacts
<1>1. /\ handler[r].at = "asked" /\ SaveKeeping({}, r, rec)
      /\ handler' = [handler EXCEPT ![r] = Free]
      /\ UNCHANGED <<crawl, top, halted, forced, calls, told, overlap>>
  BY DEF SaveStopped, SaveRecord, KeepCrawls
<1>2. /\ rec \in Records /\ rec.status = "stopped" /\ rec.job = handler[r].copy.job
      /\ rec.layers = handler[r].copy.layers
  BY <1>0, RecordFacts DEF Finals
<1> HIDE DEF rec
<1>3. detection' = rec /\ fresh' = {}
  BY <1>1 DEF SaveKeeping
<1>4. Undisturbed' => Undisturbed /\ r \in fresh
  BY <1>1, Zenon DEF Undisturbed, SaveKeeping
<1>5. Undisturbed' => rec.job = detection.job /\ rec.layers = detection.layers
  BY <1>1, <1>2, <1>4, HandlerFacts DEF Copied
<1>6. handler'[r] = Free /\ \A q \in Researchers \ {r} : handler'[q] = handler[q]
  BY <1>0, <1>1
<1>7. \A q \in Researchers : (Saved(q)' <=> Saved(q)) /\ (Saved(q) => handler'[q] = handler[q])
  BY <1>1, <1>6, RestFacts DEF Saved
<1>8. EchoTypeOK'
  <2>1. handler' \in [Researchers -> Handlers] /\ fresh' \subseteq EchoJobs \cup Researchers
    BY <1>0, <1>1, <1>3, RestFacts
  <2>2. /\ detection' \in Records /\ crawl' \in [EchoJobs -> Crawls] /\ top' \in Nat
        /\ halted' \subseteq EchoJobs /\ forced' \subseteq EchoJobs /\ calls' \in 0..MaxCalls
        /\ told' \subseteq halted' /\ overlap' \in BOOLEAN
    BY <1>0, <1>1, <1>2, <1>3, EchoTypes
  <2>3. crossed' \in BOOLEAN
    BY <1>1, Zenon DEF SaveKeeping
  <2> QED BY <2>1, <2>2, <2>3 DEF EchoTypeOK, Crawls, CrawlAts, Handlers
<1>9. BegunOK' /\ CopiesOK'
  BY <1>0, <1>1, <1>2, <1>3, <1>6, RestFacts DEF BegunOK, CopiesOK, Holding, Copied
<1>10. SavedOK'
  BY <1>0, <1>1, <1>6, <1>7, RestFacts DEF SavedOK, Saved
<1>11. Named'
  BY <1>0, <1>1, <1>2, <1>3, <1>4, <1>5, <1>7 DEF Named, CrawlNamed, Unfinished
<1>12. StatusExplained' /\ ToldOK'
  BY <1>2, <1>3 DEF StatusExplained, ToldOK
<1>13. TimelineOK'
  BY <1>0, <1>1, <1>3, <1>4, <1>5, <1>7 DEF TimelineOK, Timely
<1> QED BY <1>8, <1>9, <1>10, <1>11, <1>12, <1>13 DEF EchoInv

\* A rising timeline has room for what the cap allows.
LEMMA RoomLeft ==
  ASSUME NEW d \in Records, Rising(d.layers), NEW n \in Remaining(d)
  PROVE  n \in 1..MaxLayersTotal /\ Room(d.layers, n)
<1>1. n \in 1..MaxLayersTotal /\ \A l \in ToSet(d.layers) : l + n <= MaxLayersTotal
  BY DEF Remaining
<1>2. d.layers \in Seq(Nat)
  BY DEF Records
<1>3. Len(d.layers) \in Nat /\ DOMAIN d.layers = 1..Len(d.layers)
  BY <1>2, LenProperties
<1>4. CASE Len(d.layers) = 0
  BY <1>1, <1>4 DEF Room
<1>5. CASE Len(d.layers) # 0
  <2>1. Len(d.layers) \in DOMAIN d.layers
    BY <1>3, <1>5
  <2>2. d.layers[Len(d.layers)] \in Nat /\ d.layers[Len(d.layers)] \in ToSet(d.layers)
    BY <1>2, <1>3, <2>1, ElementOfSeq DEF ToSet
  <2>3. d.layers[Len(d.layers)] + 1 >= Len(d.layers)
    BY <2>1 DEF Rising
  <2> QED BY <1>1, <1>3, <2>2, <2>3 DEF Room
<1> QED BY <1>1, <1>3, <1>4, <1>5

\* A continuation names its job: without a crossing or an overlap it is alone.
LEMMA SaveContinuedInv ==
  ASSUME EchoInv, NEW r \in Researchers, SaveContinued(r) PROVE EchoInv'
<1>0. /\ EchoTypeOK /\ BegunOK /\ CopiesOK /\ SavedOK /\ Named /\ ToldOK /\ TimelineOK
      /\ handler \in [Researchers -> Handlers] /\ handler[r].copy \in Records
  BY HandlerFacts
<1>1. PICK w \in EchoJobs, extra \in Extra(handler[r].copy) :
        /\ NewJob(w)
        /\ SaveRecord(r, [handler[r].copy EXCEPT !.status = "running", !.job = w])
        /\ handler' = [handler EXCEPT ![r] = [Free EXCEPT !.at = "saved", !.job = w,
                                                          !.left = extra]]
  BY DEF SaveContinued
<1> DEFINE rec == [handler[r].copy EXCEPT !.status = "running", !.job = w]
           new == [Free EXCEPT !.at = "saved", !.job = w, !.left = extra]
<1>2. /\ SaveKeeping({}, r, rec) /\ handler' = [handler EXCEPT ![r] = new]
      /\ UNCHANGED <<crawl, top, halted, forced, calls, told>>
      /\ handler[r].at = "loaded" /\ crawl[w].at = "new"
      /\ \A q \in Researchers : handler[q].job # w
  BY <1>1 DEF SaveContinued, SaveRecord, KeepCrawls, NewJob
<1>3. /\ rec \in Records /\ rec.status = "running" /\ rec.job = w
      /\ rec.layers = handler[r].copy.layers
  BY <1>0 DEF Records
<1>4. extra \in 1..MaxLayersTotal
  BY DEF Extra, Remaining
<1>5. new \in Handlers /\ new.at = "saved" /\ new.job = w /\ new.left = extra
  <2>1. extra \in 0..MaxLayersTotal /\ Free \in Handlers
    BY <1>4, RestFacts
  <2> QED BY <2>1 DEF Handlers
<1> HIDE DEF rec, new
<1>6. detection' = rec /\ fresh' = {}
  BY <1>2 DEF SaveKeeping
<1>7. Undisturbed' => Undisturbed /\ r \in fresh /\ ~Busy
  <2>1. overlap' = (overlap \/ Busy) /\ crossed' = (crossed \/ r \notin fresh)
    BY <1>2 DEF SaveContinued, SaveKeeping
  <2> QED BY <2>1, Zenon DEF Undisturbed
<1>8. Undisturbed' => handler[r].copy = detection
  BY <1>2, <1>7, HandlerFacts DEF Copied
<1>9. handler'[r] = new /\ \A q \in Researchers \ {r} : handler'[q] = handler[q]
  BY <1>0, <1>2
<1>10. EchoTypeOK'
  <2>1. handler' \in [Researchers -> Handlers] /\ fresh' \subseteq EchoJobs \cup Researchers
    BY <1>0, <1>2, <1>5, <1>6
  <2>2. /\ detection' \in Records /\ crawl' \in [EchoJobs -> Crawls] /\ top' \in Nat
        /\ halted' \subseteq EchoJobs /\ forced' \subseteq EchoJobs /\ calls' \in 0..MaxCalls
        /\ told' \subseteq halted'
    BY <1>0, <1>2, <1>3, <1>6, EchoTypes
  <2>3. crossed' \in BOOLEAN
    BY <1>2, Zenon DEF SaveKeeping
  <2>4. overlap' \in BOOLEAN
    BY Zenon DEF SaveContinued
  <2> QED BY <2>1, <2>2, <2>3, <2>4 DEF EchoTypeOK, Crawls, CrawlAts, Handlers
<1>11. BegunOK' /\ CopiesOK'
  BY <1>0, <1>2, <1>3, <1>5, <1>6, <1>9 DEF BegunOK, CopiesOK, Holding, Copied
<1>12. SavedOK'
  <2>1. \A q \in Researchers : Saved(q)' <=> q = r \/ Saved(q)
    BY <1>5, <1>9 DEF Saved
  <2>2. \A q \in Researchers :
          IF Saved(q)' THEN handler'[q].job \in EchoJobs /\ crawl'[handler'[q].job].at = "new"
                       ELSE handler'[q].job = "nobody"
    BY <1>0, <1>2, <1>5, <1>9, <2>1 DEF SavedOK
  <2>3. \A p, q \in Researchers :
          Saved(p)' /\ Saved(q)' /\ handler'[p].job = handler'[q].job => p = q
    BY <1>0, <1>2, <1>5, <1>9, <2>1 DEF SavedOK
  <2> QED BY <1>0, <1>2, <2>2, <2>3 DEF SavedOK
<1>13. Undisturbed' => /\ \A v \in EchoJobs : ~Unfinished(v)
                       /\ \A q \in Researchers \ {r} : ~Saved(q)'
  BY <1>7, <1>9 DEF Busy, InFlight, Saved
<1>14. Named'
  BY <1>2, <1>3, <1>5, <1>6, <1>9, <1>13 DEF Named, CrawlNamed, Unfinished, Saved
<1>15. StatusExplained' /\ ToldOK'
  BY <1>3, <1>5, <1>6, <1>9 DEF StatusExplained, ToldOK, Busy, InFlight
<1>16. TimelineOK'
  <2> SUFFICES ASSUME Undisturbed' PROVE Timely'
    BY DEF TimelineOK
  <2>1. Timely /\ rec.layers = detection.layers
    BY <1>0, <1>3, <1>7, <1>8 DEF TimelineOK
  <2>2. Room(detection.layers, extra)
    BY <1>0, <1>8, <2>1, RoomLeft DEF Timely, Extra
  <2>3. \A q \in Researchers : Saved(q)' => Room(detection.layers, handler'[q].left)
    BY <1>5, <1>9, <1>13, <2>2
  <2> QED BY <1>2, <1>6, <2>1, <2>3 DEF Timely
<1> QED BY <1>10, <1>11, <1>12, <1>14, <1>15, <1>16 DEF EchoInv

\* The record is made before its job.
LEMMA DetectInv == ASSUME EchoInv, NEW r \in Researchers, Detect(r) PROVE EchoInv'
<1>0. /\ EchoTypeOK /\ BegunOK /\ CopiesOK /\ SavedOK /\ Named /\ ToldOK /\ TimelineOK
      /\ handler \in [Researchers -> Handlers]
  BY HandlerFacts
<1>1. PICK w \in EchoJobs, n \in 1..MaxLayersTotal :
        /\ detection' = [status |-> "pending", job |-> w, layers |-> <<>>]
        /\ handler' = [handler EXCEPT ![r] = [Free EXCEPT !.at = "saved", !.job = w,
                                                          !.left = n]]
  BY DEF Detect
<1> DEFINE new == [Free EXCEPT !.at = "saved", !.job = w, !.left = n]
<1>2. /\ handler' = [handler EXCEPT ![r] = new] /\ detection.status = "none"
      /\ UNCHANGED <<crawl, top, halted, forced, calls, told, fresh, overlap, crossed>>
  BY <1>1 DEF Detect, KeepCrawls
<1>3. new \in Handlers /\ new.at = "saved" /\ new.job = w /\ new.left = n
  <2>1. n \in 0..MaxLayersTotal /\ Free \in Handlers
    BY RestFacts
  <2> QED BY <2>1 DEF Handlers
<1> HIDE DEF new
<1>4. /\ detection' \in Records /\ detection'.status = "pending" /\ detection'.job = w
      /\ detection'.layers = <<>>
  BY <1>1 DEF Records
<1>5. handler'[r] = new /\ \A q \in Researchers \ {r} : handler'[q] = handler[q]
  BY <1>0, <1>2
<1>6. /\ \A v \in EchoJobs : crawl[v].at = "new"
      /\ \A q \in Researchers : handler[q].at = "idle"
  BY <1>0, <1>2 DEF BegunOK
<1>7. EchoTypeOK'
  <2>1. handler' \in [Researchers -> Handlers]
    BY <1>0, <1>2, <1>3
  <2>2. /\ crawl' \in [EchoJobs -> Crawls] /\ top' \in Nat
        /\ halted' \subseteq EchoJobs /\ forced' \subseteq EchoJobs /\ calls' \in 0..MaxCalls
        /\ told' \subseteq halted' /\ fresh' \subseteq EchoJobs \cup Researchers
        /\ overlap' \in BOOLEAN /\ crossed' \in BOOLEAN
    BY <1>0, <1>2, EchoTypes
  <2> QED BY <1>4, <2>1, <2>2 DEF EchoTypeOK, Crawls, CrawlAts, Handlers
<1>8. BegunOK' /\ CopiesOK'
  BY <1>0, <1>2, <1>3, <1>4, <1>5, <1>6 DEF BegunOK, CopiesOK, Holding, Copied
<1>9. SavedOK'
  BY <1>0, <1>2, <1>3, <1>5, <1>6 DEF SavedOK, Saved
<1>10. Named' /\ StatusExplained'
  BY <1>2, <1>3, <1>4, <1>5, <1>6
     DEF Named, CrawlNamed, StatusExplained, Unfinished, Saved, Busy, InFlight
<1>11. ToldOK'
  <2>1. told' \subseteq EchoJobs
    BY <1>0, <1>2, EchoTypes
  <2> QED BY <1>2, <1>4, <1>6, <2>1 DEF ToldOK
<1>12. TimelineOK'
  <2>1. DOMAIN <<>> = {} /\ Len(<<>>) = 0
    OBVIOUS
  <2>2. Rising(<<>>) /\ Room(<<>>, 0) /\ Below(<<>>, top + 1) /\ Room(<<>>, n)
    BY <2>1 DEF Rising, Room, Below
  <2>3. \A v \in EchoJobs : PlaceOK(crawl[v], <<>>, top)
    BY <1>6 DEF PlaceOK
  <2>4. \A q \in Researchers : Saved(q)' => Room(<<>>, handler'[q].left)
    BY <1>3, <1>5, <1>6, <2>2 DEF Saved
  <2> QED BY <1>2, <1>4, <2>2, <2>3, <2>4 DEF TimelineOK, Timely
<1> QED BY <1>7, <1>8, <1>9, <1>10, <1>11, <1>12 DEF EchoInv

\* The job that is named is submitted.
LEMMA SubmitCrawlInv ==
  ASSUME EchoInv, NEW r \in Researchers, SubmitCrawl(r) PROVE EchoInv'
<1>0. /\ EchoTypeOK /\ BegunOK /\ CopiesOK /\ SavedOK /\ Named /\ ToldOK /\ TimelineOK
      /\ handler \in [Researchers -> Handlers] /\ crawl \in [EchoJobs -> Crawls]
      /\ handler[r].left \in 0..MaxLayersTotal /\ StatusExplained
  BY HandlerFacts DEF EchoInv
<1> DEFINE w == handler[r].job
           new == [crawl[w] EXCEPT !.at = "queued", !.left = handler[r].left]
<1>1. handler[r].at = "saved" /\ w \in EchoJobs /\ crawl[w].at = "new" /\ crawl[w] \in Crawls
  BY <1>0 DEF SubmitCrawl, SavedOK, Saved
<1>2. /\ crawl' = [crawl EXCEPT ![w] = new] /\ handler' = [handler EXCEPT ![r] = Free]
      /\ UNCHANGED <<detection, fresh, crossed, top, halted, forced, calls, told, overlap>>
  BY <1>0, <1>1 DEF SubmitCrawl, KeepRecord
<1>3. new \in Crawls /\ new.at = "queued" /\ new.left = handler[r].left
  BY <1>0, <1>1 DEF Crawls, CrawlAts
<1> HIDE DEF new
<1>4. PICK u \in EchoJobs : u = w
  BY <1>1
<1> HIDE DEF w
<1>5. crawl'[u] = new /\ \A v \in EchoJobs \ {u} : crawl'[v] = crawl[v]
  BY <1>0, <1>2, <1>4
<1>6. handler'[r] = Free /\ \A q \in Researchers \ {r} : handler'[q] = handler[q]
  BY <1>0, <1>2
<1>7. \A q \in Researchers : (Saved(q)' <=> Saved(q) /\ q # r) /\ (Saved(q)' => handler[q].job # u)
  BY <1>0, <1>1, <1>4, <1>6, RestFacts DEF SavedOK, Saved, w
<1>8. EchoTypeOK'
  <2>1. handler' \in [Researchers -> Handlers] /\ crawl' \in [EchoJobs -> Crawls]
    BY <1>0, <1>2, <1>3, RestFacts
  <2>2. /\ detection' \in Records /\ top' \in Nat
        /\ halted' \subseteq EchoJobs /\ forced' \subseteq EchoJobs /\ calls' \in 0..MaxCalls
        /\ told' \subseteq halted' /\ fresh' \subseteq EchoJobs \cup Researchers
        /\ overlap' \in BOOLEAN /\ crossed' \in BOOLEAN
    BY <1>0, <1>2, EchoTypes
  <2> QED BY <2>1, <2>2 DEF EchoTypeOK, Crawls, CrawlAts, Handlers
<1>9. BegunOK'
  <2>1. detection.status # "none"
    BY <1>0, <1>1 DEF BegunOK
  <2> QED BY <1>0, <1>2, <1>3, <1>5, <1>6, <2>1, RestFacts DEF BegunOK, Holding, Copied
<1>10. CopiesOK'
  BY <1>0, <1>2, <1>3, <1>5, <1>6, RestFacts DEF CopiesOK, Holding, Copied
<1>11. SavedOK'
  <2>1. \A q \in Researchers :
          IF Saved(q)' THEN handler'[q].job \in EchoJobs /\ crawl'[handler'[q].job].at = "new"
                       ELSE handler'[q].job = "nobody"
    BY <1>0, <1>5, <1>6, <1>7, RestFacts DEF SavedOK
  <2>2. \A p, q \in Researchers :
          Saved(p)' /\ Saved(q)' /\ handler'[p].job = handler'[q].job => p = q
    BY <1>0, <1>6, <1>7 DEF SavedOK
  <2>3. \A v \in told' : crawl'[v].at # "new"
    BY <1>0, <1>2, <1>3, <1>5, EchoTypes DEF SavedOK
  <2> QED BY <2>1, <2>2, <2>3 DEF SavedOK
<1>12. Busy /\ Busy'
  BY <1>1, <1>3, <1>5 DEF Busy, InFlight, Unfinished
<1>13. Named' /\ StatusExplained'
  <2>1. Undisturbed => detection.job = u
    BY <1>0, <1>1, <1>4 DEF Named, Saved, w
  <2>2. \A v \in EchoJobs : Unfinished(v)' => v = u \/ Unfinished(v)
    BY <1>5 DEF Unfinished
  <2> QED BY <1>0, <1>2, <1>6, <1>7, <1>12, <2>1, <2>2
          DEF Named, CrawlNamed, StatusExplained, Undisturbed
<1>14. ToldOK'
  <2>1. u \notin told
    BY <1>0, <1>1, <1>4 DEF SavedOK, w
  <2>2. told \subseteq EchoJobs
    BY <1>0, EchoTypes
  <2>3. \A q \in Researchers : handler[q].at = "asked" => handler'[q].at = "asked"
    BY <1>1, <1>6
  <2> QED BY <1>0, <1>2, <1>5, <2>1, <2>2, <2>3 DEF ToldOK, Undisturbed
<1>15. TimelineOK'
  <2> SUFFICES ASSUME Undisturbed PROVE Timely'
    BY <1>2 DEF TimelineOK, Undisturbed
  <2>1. Timely
    BY <1>0 DEF TimelineOK
  <2>2. Room(detection.layers, handler[r].left)
    BY <1>1, <2>1 DEF Timely, Saved
  <2>3. PlaceOK(new, detection.layers, top)
    BY <1>3, <2>2 DEF PlaceOK
  <2>4. \A v \in EchoJobs : PlaceOK(crawl'[v], detection.layers, top)
    BY <1>5, <2>1, <2>3 DEF Timely
  <2> QED BY <1>2, <1>6, <1>7, <2>1, <2>4 DEF Timely
<1> QED BY <1>8, <1>9, <1>10, <1>11, <1>13, <1>14, <1>15 DEF EchoInv

\* The process ends: every job that was named or at work is lost.
LEMMA ProcessEndsInv == ASSUME EchoInv, ProcessEnds PROVE EchoInv'
<1>0. /\ EchoTypeOK /\ BegunOK /\ CopiesOK /\ SavedOK /\ Named /\ ToldOK /\ TimelineOK
      /\ StatusExplained
  BY DEF EchoInv
<1>1. /\ handler \in [Researchers -> Handlers] /\ crawl \in [EchoJobs -> Crawls]
  BY <1>0, EchoTypes
<1> DEFINE Gone(v) == Unfinished(v) \/ \E r \in Researchers : handler[r].job = v
<1>2. /\ crawl' = [v \in EchoJobs |->
           IF Gone(v) THEN [Asleep EXCEPT !.at = "lost"] ELSE crawl[v]]
      /\ crawl' # crawl /\ handler' = [r \in Researchers |-> Free] /\ Call
      /\ UNCHANGED <<detection, fresh, crossed, top, halted, forced, told, overlap>>
  BY DEF ProcessEnds, KeepRecord
<1>3. \A v \in EchoJobs : /\ Gone(v) => crawl'[v].at = "lost"
                          /\ ~Gone(v) => crawl'[v] = crawl[v]
  BY <1>2, RestFacts DEF CrawlAts
<1>4. \A v \in EchoJobs :
        Gone(v) => Unfinished(v) \/ \E r \in Researchers : Saved(r) /\ handler[r].job = v
  BY <1>0 DEF SavedOK
<1>5. PICK v \in EchoJobs : Gone(v)
  <2>1. ASSUME \A v \in EchoJobs : ~Gone(v) PROVE FALSE
    BY <1>1, <1>2, <2>1
  <2> QED BY <2>1
<1>6. Busy /\ ~Busy'
  <2>1. Busy
    BY <1>4, <1>5 DEF Busy, InFlight, Saved
  <2>2. \A u \in EchoJobs : ~Unfinished(u)'
    BY <1>3 DEF Unfinished
  <2>3. \A r \in Researchers : handler'[r].at = "idle"
    BY <1>2, RestFacts
  <2> QED BY <2>1, <2>2, <2>3 DEF Busy, InFlight
<1>7. \A r \in Researchers : handler'[r].at = "idle" /\ handler'[r].job = "nobody"
  BY <1>2, RestFacts
<1>8. EchoTypeOK'
  <2>1. crawl' \in [EchoJobs -> Crawls]
    <3>1. [Asleep EXCEPT !.at = "lost"] \in Crawls
      BY RestFacts DEF CrawlAts
    <3> QED BY <1>1, <1>2, <3>1
  <2>2. handler' \in [Researchers -> Handlers] /\ calls' \in 0..MaxCalls
    BY <1>0, <1>2, RestFacts, EchoTypes DEF Call
  <2>3. /\ detection' \in Records /\ top' \in Nat
        /\ halted' \subseteq EchoJobs /\ forced' \subseteq EchoJobs
        /\ told' \subseteq halted' /\ fresh' \subseteq EchoJobs \cup Researchers
        /\ overlap' \in BOOLEAN /\ crossed' \in BOOLEAN
    BY <1>0, <1>2, EchoTypes
  <2> QED BY <2>1, <2>2, <2>3 DEF EchoTypeOK, Crawls, CrawlAts, Handlers
<1>9. BegunOK'
  <2>1. detection.status # "none"
    BY <1>0, <1>6 DEF BegunOK, Busy, InFlight, Unfinished
  <2> QED BY <1>0, <1>2, <1>3, <1>7, <2>1 DEF BegunOK, Holding, Copied
<1>10. CopiesOK'
  BY <1>0, <1>2, <1>3, <1>7 DEF CopiesOK, Holding, Copied
<1>11. SavedOK'
  <2>1. told \subseteq EchoJobs
    BY <1>0, EchoTypes
  <2> QED BY <1>0, <1>2, <1>3, <1>7, <2>1 DEF SavedOK, Saved
<1>12. Named'
  BY <1>6, <1>7 DEF Named, CrawlNamed, Busy, Saved
<1>13. StatusExplained'
  <2>1. Undisturbed => detection.job = v
    BY <1>0, <1>4, <1>5 DEF Named, CrawlNamed
  <2> QED BY <1>2, <1>3, <1>5, <2>1 DEF StatusExplained, Undisturbed
<1>14. ToldOK'
  <2>1. told \subseteq EchoJobs
    BY <1>0, EchoTypes
  <2>2. \A u \in EchoJobs : crawl'[u].at # "deciding"
    BY <1>3 DEF Unfinished
  <2>3. Undisturbed => detection.status \in {"pending", "running", "stopped"}
    BY <1>0, <1>6 DEF Named
  <2> QED BY <1>2, <2>1, <2>2, <2>3 DEF ToldOK, Undisturbed
<1>15. TimelineOK'
  <2>1. \A u \in EchoJobs : PlaceOK(crawl[u], detection.layers, top)
                              => PlaceOK(crawl'[u], detection.layers, top)
    BY <1>3 DEF PlaceOK
  <2> QED BY <1>0, <1>2, <1>7, <2>1 DEF TimelineOK, Timely, Undisturbed, Saved
<1> QED BY <1>8, <1>9, <1>10, <1>11, <1>12, <1>13, <1>14, <1>15 DEF EchoInv

\* A stuttering step.
LEMMA EchoStutter == ASSUME EchoInv, UNCHANGED echoVars PROVE EchoInv'
<1>1. UNCHANGED <<detection, crawl, handler, top, halted, forced, calls, told, fresh, overlap,
                  crossed>>
  BY DEF echoVars
<1>2. EchoTypeOK' /\ BegunOK' /\ CopiesOK' /\ SavedOK'
  BY <1>1 DEF EchoInv, EchoTypeOK, BegunOK, CopiesOK, SavedOK, Holding, Copied, Saved
<1>3. Named' /\ ToldOK' /\ StatusExplained' /\ TimelineOK'
  BY <1>1 DEF EchoInv, Named, CrawlNamed, ToldOK, StatusExplained, TimelineOK, Timely,
     Undisturbed, Busy, InFlight, Unfinished, Saved
<1> QED BY <1>2, <1>3 DEF EchoInv

\* Every step keeps the invariant of the record.
LEMMA EchoStepInv == EchoInv /\ [EchoNext]_echoVars => EchoInv'
<1> SUFFICES ASSUME EchoInv, [EchoNext]_echoVars PROVE EchoInv'
  OBVIOUS
<1>1. ASSUME NEW w \in EchoJobs, CrawlStep(w) PROVE EchoInv'
  BY <1>1, LoadRecordInv, MarkRunningInv, EndInv, AnchorInv, NextLayerInv, LeaveLoopInv,
     ScrapeLayerInv, ListLayersInv, SaveSnapshotInv, DecideInv, RaiseErrorInv DEF CrawlStep
<1>2. ASSUME NEW w \in EchoJobs, CancelCrawl(w) \/ ForceJob(w) PROVE EchoInv'
  BY <1>2, CancelCrawlInv, ForceJobInv
<1>3. ASSUME NEW r \in Researchers,
             \/ Detect(r) \/ (\E kind \in {"stop", "continue"} : LoadFor(r, kind))
             \/ CancelNamed(r) \/ SaveStopped(r) \/ SaveContinued(r) \/ SubmitCrawl(r)
      PROVE  EchoInv'
  BY <1>3, DetectInv, LoadForInv, CancelNamedInv, SaveStoppedInv, SaveContinuedInv,
     SubmitCrawlInv
<1>4. CASE OtherLayer \/ ProcessEnds
  BY <1>4, OtherLayerInv, ProcessEndsInv
<1>5. CASE UNCHANGED echoVars
  BY <1>5, EchoStutter
<1> QED BY <1>1, <1>2, <1>3, <1>4, <1>5 DEF EchoNext

\* However requests, jobs, failures and restarts cross: the status of a
\* detection is explained; and as long as no save crosses another, its record
\* names the job at work, keeps a stop, and holds a rising timeline in the cap.
THEOREM EchoSoundHolds == EchoSpec => []EchoSound
<1>1. EchoInit => EchoInv
  BY EchoInitInv
<1>2. EchoInv /\ [EchoNext]_echoVars => EchoInv'
  BY EchoStepInv
<1>3. EchoInv => EchoSound
  <2> SUFFICES ASSUME EchoInv PROVE EchoSound
    OBVIOUS
  <2>1. EchoTypeOK /\ StatusExplained /\ CrawlNamed
    BY DEF EchoInv, Named
  <2>2. StopKept
    BY DEF EchoInv, ToldOK, StopKept
  <2>3. TimelineSound
    <3> SUFFICES ASSUME Undisturbed, Timely
                 PROVE  /\ Len(detection.layers) <= MaxLayersTotal + 1
                        /\ \A i \in DOMAIN detection.layers :
                             IF i = 1 THEN detection.layers[i] = 0
                             ELSE detection.layers[i - 1] < detection.layers[i]
      BY DEF EchoInv, TimelineOK, TimelineSound
    <3>1. detection.layers \in Seq(Nat)
      BY EchoTypes DEF EchoInv, Records
    <3>2. Len(detection.layers) \in Nat /\ DOMAIN detection.layers = 1..Len(detection.layers)
      BY <3>1, LenProperties
    <3> QED BY <3>2 DEF Timely, Rising, Room
  <2> QED BY <2>1, <2>2, <2>3 DEF EchoSound
<1> QED BY <1>1, <1>2, <1>3, PTL DEF EchoSpec
=============================================================================
