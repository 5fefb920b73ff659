---------------------------- MODULE LayerCrawl ----------------------------
(***************************************************************************)
(* The jobs that fill the corpus: the layer crawl of                        *)
(* services/layer_scrape_service.py, over the bulk recommendation scrape of *)
(* services/recommendation_service.py, and the channel collection of        *)
(* services/collection_service.py, on the tables of                         *)
(* persistence/sql/repositories.py; and the editing of a run (api/app.py).   *)
(*                                                                          *)
(* Granularity.  Several jobs run at once.  A job is the thread that saves; *)
(* its pool of workers only fetches.  concurrent.futures.wait is called     *)
(* with a timeout and without return_when, so a round ends with whatever    *)
(* has been fetched, and with nothing fetched it gives up what is left; a   *)
(* collection waits for what it fetches without a timeout.                  *)
(* Every table write is a step, so jobs meet between a read and a write.    *)
(* Comments, channels, observations, datasets and report counts are left    *)
(* out, so are the criteria and quotas that choose a channel's videos, and  *)
(* the option (off by default) to save recommendations while collecting.    *)
(***************************************************************************)
EXTENDS Naturals, Sequences, FiniteSets

CONSTANTS
  Videos,
  Feed,      \* the recommendations a fetch of a video's watch page returns
  Channel,   \* the videos a channel lists
  Stubs,     \* videos of which an earlier version may have left a
             \* placeholder row (this one makes none)
  Jobs,      \* worker threads of the job pool
  Editors,   \* request threads that rename or tag a run
  EnrichCap, \* max_enrich_targets, 0 = unlimited
  MaxRuns,   \* bound: collection runs begun
  MaxLayers, \* bound: layers saved
  MaxStrand  \* bound: runs left by jobs that died

ASSUME VideoAssumption ==
  /\ Feed \in [Videos -> SUBSET Videos]
  /\ Channel \subseteq Videos /\ Stubs \subseteq Videos
ASSUME BoundAssumption ==
  EnrichCap \in Nat /\ MaxRuns \in Nat /\ MaxLayers \in Nat /\ MaxStrand \in Nat

VARIABLES
  video,  \* table videos: [row, first |-> first_observed_run_id, scraped]
  edge,   \* table recommendations: [run, src, dst]
  run,    \* table collection_runs, in the order begun: [open, parent],
          \* open: RUNNING (how a run ended is not told apart)
  layer,  \* table layer_runs, in the order saved
  job,    \* the local state of each job
  seen,   \* history: videos whose feed some run has saved
  strand, \* history: runs whose job died inside them
  edit,   \* the copy of a run each editor holds: [run, open], 0 is none
  reopened \* history: finished runs of which an open copy was saved last

editVars == <<edit, reopened>>
vars == <<video, edge, run, layer, job, seen, strand, editVars>>

-----------------------------------------------------------------------------
RunIds == 0..MaxRuns      \* 0 is no run
LayerIds == 0..MaxLayers  \* 0 is no layer
NoCopy == [run |-> 0, open |-> FALSE]
NoFetch == [had |-> FALSE, info |-> FALSE, out |-> "none"]

\* at: the phase; root, parent, index: the layer being crawled; short,
\* runs, found: incomplete_frontier, run_ids, enriched.
\* pend and box: futures without and with a result; cur: the item in hand;
\* got: history, the videos whose info the crawl has saved.
Idle == [at |-> "idle", root |-> 0, parent |-> 0, index |-> 0, short |-> {},
         pend |-> {}, box |-> [v \in Videos |-> NoFetch],
         cur |-> {}, run |-> 0, first |-> 0, runs |-> {}, found |-> {}, got |-> {}]

TypeOK ==
  /\ video \in [Videos -> [row : {"none", "stub", "full"}, first : RunIds,
                           scraped : BOOLEAN]]
  /\ \A v \in Videos : video[v].row = "full" => video[v].first # 0
  /\ edge \subseteq [run : 1..MaxRuns, src : Videos, dst : Videos]
  /\ run \in Seq([open : BOOLEAN, parent : RunIds]) /\ Len(run) <= MaxRuns
  /\ layer \in Seq([index : LayerIds, root : RunIds, parent : LayerIds,
                    runs : SUBSET RunIds, found : SUBSET Videos])
  /\ Len(layer) <= MaxLayers
  /\ job \in [Jobs -> [at : {"idle", "extract", "collect", "deep", "bulk", "saving",
                             "enrich", "write"},
                       root : RunIds, parent : LayerIds, index : LayerIds,
                       short : SUBSET Videos, pend : SUBSET Videos,
                       box : [Videos -> [had : BOOLEAN, info : BOOLEAN,
                         out : {"none", "ok", "error", "raised"}]],
                       cur : SUBSET Videos, run : RunIds, first : RunIds,
                       runs : SUBSET RunIds, found : SUBSET Videos,
                       got : SUBSET Videos]]
  /\ seen \subseteq Videos /\ strand \subseteq RunIds
  /\ edit \in [Editors -> [run : RunIds, open : BOOLEAN]] /\ reopened \subseteq RunIds

Init ==
  /\ \E old \in SUBSET Stubs :
       video = [v \in Videos |-> [row |-> IF v \in old THEN "stub" ELSE "none",
                                  first |-> 0, scraped |-> FALSE]]
  /\ edge = {} /\ run = <<>> /\ layer = <<>>
  /\ job = [j \in Jobs |-> Idle]
  /\ seen = {} /\ strand = {}
  /\ edit = [e \in Editors |-> NoCopy] /\ reopened = {}

-----------------------------------------------------------------------------
(* The repositories, and what is read from them.                           *)

\* upsert_video writes every column of a freshly normalised video.
Upsert(v, r) == [video EXCEPT ![v] = [row |-> "full", first |-> r,
                                      scraped |-> FALSE]]
\* mark_recommendations_scraped: an UPDATE, which misses an absent row.
Mark(v) == [video EXCEPT ![v].scraped = @ \/ video[v].row # "none"]
Begun(parent) == Append(run, [open |-> TRUE, parent |-> parent])
Finished(r) == [run EXCEPT ![r].open = FALSE]
Rows == {v \in Videos : video[v].row # "none"}
Targets(rs) == {e.dst : e \in {x \in edge : x.run \in rs}}
Incomplete(v) == video[v].row # "full"

\* _resolve_run_frontier of a channel run.
RunFrontier(r) ==
  {v \in Rows : video[v].first = r}
    \cup {e.src : e \in {x \in edge : run[x.run].parent = r}}
\* scrape_next_layer: every target of the parent layer, or what it found.
LayerFrontier(l) ==
  IF Targets(layer[l].runs) = {} THEN layer[l].found ELSE Targets(layer[l].runs)

\* list_layers(root): the bootstrapped layers of a run and all below them.
Family(root) ==
  LET In[l \in 0..Len(layer)] ==
        /\ l # 0
        /\ \/ layer[l].index = 0 /\ layer[l].root = root
           \/ In[layer[l].parent]
  IN {l \in 1..Len(layer) : In[l]}
AlreadyScraped(root) ==
  {v \in Rows : video[v].scraped}
    \cup {e.src : e \in {x \in edge : \E l \in Family(root) : x.run \in layer[l].runs}}

-----------------------------------------------------------------------------
(* collect_channel.                                                        *)

Collect(j) ==
  /\ job[j].at = "idle" /\ Len(run) < MaxRuns
  /\ run' = Begun(0)
  /\ job' = [job EXCEPT ![j] = [Idle EXCEPT !.at = "extract", !.run = Len(run) + 1]]
  /\ UNCHANGED <<video, edge, layer, seen, strand, editVars>>

\* The channel is extracted, or cannot be and only the end of the run is left.
ExtractChannel(j) ==
  /\ job[j].at = "extract"
  /\ job' = [job EXCEPT ![j].pend = Channel, ![j].at = "collect"]
       \/ job' = [job EXCEPT ![j].at = "deep"]
  /\ UNCHANGED <<video, edge, run, layer, seen, strand, editVars>>

\* _collect_videos, first phase: one discovered video.
CollectVideo(j, v) ==
  /\ job[j].at = "collect" /\ v \in job[j].pend
  /\ video' = Upsert(v, job[j].run)
  /\ job' = [job EXCEPT ![j].pend = @ \ {v}]
  /\ UNCHANGED <<edge, run, layer, seen, strand, editVars>>

\* Second phase: which videos are enriched is the experiment's choice.
StartDeep(j) ==
  /\ job[j].at = "collect" /\ job[j].pend = {}
  /\ \E some \in SUBSET Channel :
       job' = [job EXCEPT ![j].at = "deep", ![j].pend = some]
  /\ UNCHANGED <<video, edge, run, layer, seen, strand, editVars>>

\* _enrich_video_task brings a transcript, or nothing that touches the tables.
EnrichTask(j, v) ==
  /\ job[j].at = "deep" /\ v \in job[j].pend
  /\ \E transcript \in BOOLEAN :
       job' = [job EXCEPT ![j].pend = @ \ {v},
                 ![j].box[v].out = IF transcript THEN "ok" ELSE @]
  /\ UNCHANGED <<video, edge, run, layer, seen, strand, editVars>>

Fetched(j) == {v \in Videos : job[j].box[v].out # "none"}

\* _persist_transcript_extract saves the whole video of the first phase again.
SaveTranscript(j, v) ==
  /\ job[j].at = "deep" /\ v \in Fetched(j)
  /\ video' = Upsert(v, job[j].run)
  /\ job' = [job EXCEPT ![j].box[v] = NoFetch]
  /\ UNCHANGED <<edge, run, layer, seen, strand, editVars>>

CollectEnd(j) ==
  /\ job[j].at = "deep" /\ job[j].pend = {} /\ Fetched(j) = {}
  /\ run' = Finished(job[j].run)
  /\ job' = [job EXCEPT ![j] = Idle]
  /\ UNCHANGED <<video, edge, layer, seen, strand, editVars>>

-----------------------------------------------------------------------------
(* bootstrap_layer and the start of scrape_next_layer.                     *)

Bootstrap(r) ==
  /\ r \in DOMAIN run /\ run[r].parent = 0 /\ Len(layer) < MaxLayers
  /\ \A l \in DOMAIN layer : ~(layer[l].index = 0 /\ layer[l].root = r)
  /\ layer' = Append(layer, [index |-> 0, root |-> r, parent |-> 0,
                             runs |-> {r}, found |-> RunFrontier(r)])
  /\ UNCHANGED <<video, edge, run, job, seen, strand, editVars>>

\* An empty frontier raises before anything is written.
Crawl(j, root, parent, index, frontier) ==
  \E known \in BOOLEAN :  \* discovery_mode = "rescrape_known"
    LET front == IF known THEN frontier ELSE frontier \ AlreadyScraped(root) IN
    /\ front # {}
    /\ job' = [job EXCEPT ![j] =
         [Idle EXCEPT !.at = "bulk", !.root = root, !.parent = parent,
                      !.index = index, !.pend = front,
                      !.short = {v \in front : Incomplete(v)}]]
    /\ UNCHANGED <<video, edge, run, layer, seen, strand, editVars>>

CrawlRun(j) ==
  /\ job[j].at = "idle" /\ Len(layer) < MaxLayers
  /\ \E r \in DOMAIN run : run[r].parent = 0 /\ Crawl(j, r, 0, 1, RunFrontier(r))

CrawlLayer(j) ==
  /\ job[j].at = "idle" /\ Len(layer) < MaxLayers
  /\ \E l \in DOMAIN layer :
       Crawl(j, layer[l].root, l, layer[l].index + 1, LayerFrontier(l))

-----------------------------------------------------------------------------
(* collect_recommendations_for_videos.                                     *)

\* _scrape_video_task: the row is looked up here and used when the job saves;
\* an unexpected exception takes the info along.
ScrapeTask(j, v) ==
  /\ job[j].at \in {"bulk", "saving"} /\ v \in job[j].pend
  /\ \E out \in {"ok", "error", "raised"}, info \in BOOLEAN :
       /\ info => v \notin Rows /\ out # "raised"
       /\ job' = [job EXCEPT ![j].pend = @ \ {v},
            ![j].box[v] = [had |-> v \in Rows, info |-> info, out |-> out]]
  /\ UNCHANGED <<video, edge, run, layer, seen, strand, editVars>>

\* A task that raised leaves no run; the others begin one, and a source that
\* had no row is saved if its info came along.
TakeVideo(j, v) ==
  /\ job[j].at = "bulk" /\ v \in Fetched(j)
  /\ LET f == job[j].box[v]
         r == Len(run) + 1 IN
     IF f.out = "raised"
     THEN /\ job' = [job EXCEPT ![j].box[v] = NoFetch]
          /\ UNCHANGED <<video, run>>
     ELSE /\ r <= MaxRuns
          /\ run' = Begun(job[j].root)
          /\ video' = IF f.info THEN Upsert(v, r) ELSE video
          /\ job' = [job EXCEPT ![j].at = "saving", ![j].cur = {v}, ![j].run = r,
                             ![j].got = IF f.info THEN @ \cup {v} ELSE @]
  /\ UNCHANGED <<edge, layer, seen, strand, editVars>>

\* Mutant: the flag is set whatever the outcome.
MarkAlways(v, out) == [video EXCEPT ![v].scraped = @ \/ video[v].row # "none"]
Marked(v, out) == IF out = "ok" THEN Mark(v) ELSE video

\* Mutant: a video without a feed returns before its run is finished.
ClosedIfOk(j, out) == IF out = "ok" THEN Finished(job[j].run) ELSE run
Closed(j, out) == Finished(job[j].run)

\* _complete_video_result: the edges and the flag of an observed feed, and
\* the end of the run (one step: no job reads the status of a run).
SaveVideo(j, v) ==
  /\ job[j].at = "saving" /\ v \in job[j].cur
  /\ LET f == job[j].box[v] IN
     /\ edge' = edge \cup {[run |-> job[j].run, src |-> v, dst |-> w]
                             : w \in IF f.out = "ok" THEN Feed[v] ELSE {}}
     /\ video' = Marked(v, f.out)
     /\ seen' = IF f.out = "ok" THEN seen \cup {v} ELSE seen
     /\ run' = Closed(j, f.out)
  /\ job' = [job EXCEPT ![j].at = "bulk", ![j].cur = {}, ![j].run = 0,
               ![j].runs = @ \cup {job[j].run}, ![j].box[v] = NoFetch]
  /\ UNCHANGED <<layer, strand, editVars>>

\* Mutant: a round that ends with nothing is waited for again.
GiveUpNever(j) == /\ job[j].at = "bulk" /\ Fetched(j) = {} /\ job[j].pend # {}
                  /\ UNCHANGED vars

\* A round of 120 s without a result: what is left is cancelled, without a
\* run and without an error.
GiveUp(j) ==
  /\ job[j].at \in {"bulk", "enrich"} /\ Fetched(j) = {} /\ job[j].pend # {}
  /\ job' = [job EXCEPT ![j].pend = {}]
  /\ UNCHANGED <<video, edge, run, layer, seen, strand, editVars>>

-----------------------------------------------------------------------------
(* _enrich_new_targets and the end of scrape_next_layer.                   *)

\* Mutant: what exists is what existed when the crawl started.
ExistingBefore(j) == Rows \ job[j].short

\* list_videos does not read raw_json, which tells a stub: a stub "exists".
Existing(j) == Rows

StartEnrich(j) ==
  /\ job[j].at = "bulk" /\ job[j].pend = {} /\ Fetched(j) = {}
  /\ LET new == (Targets(job[j].runs) \cup job[j].short) \ Existing(j) IN
     \E capped \in SUBSET new :
       /\ IF EnrichCap = 0 \/ Cardinality(new) <= EnrichCap
          THEN capped = new ELSE Cardinality(capped) = EnrichCap
       /\ job' = [job EXCEPT ![j].at = "enrich", ![j].pend = capped]
  /\ UNCHANGED <<video, edge, run, layer, seen, strand, editVars>>

\* The run a target is filed under: that of its first edge, else run_ids[0].
RunOf(j, v) ==
  LET by == {e.run : e \in {x \in edge : x.run \in job[j].runs /\ x.dst = v}} IN
  IF by = {} THEN job[j].runs ELSE {r \in by : \A s \in by : r <= s}

\* Mutant: the row of a failed target is deleted whatever it holds.
DropRow(v) == [video EXCEPT ![v] = [row |-> "none", first |-> 0, scraped |-> FALSE]]

\* _drop_failed_stub, which reads the row with its raw_json.
DropStub(v) ==
  IF video[v].row = "stub"
  THEN [video EXCEPT ![v] = [row |-> "none", first |-> 0, scraped |-> FALSE]]
  ELSE video

\* A fetched target is skipped, recorded as failed, or its row is looked up
\* (the fetch reads nothing of the corpus: its outcome is chosen here).
TakeTarget(j, v) ==
  /\ job[j].at = "enrich" /\ v \in job[j].pend
  /\ \E out \in {"ok", "error", "raised"} :
       IF out = "raised" \/ RunOf(j, v) = {}
       THEN /\ job' = [job EXCEPT ![j].pend = @ \ {v}] /\ UNCHANGED video
       ELSE IF out = "ok"
       THEN /\ \E r \in RunOf(j, v) :
                 job' = [job EXCEPT ![j].at = "write", ![j].cur = {v}, ![j].run = r,
                           ![j].pend = @ \ {v}, ![j].first = video[v].first]
            /\ UNCHANGED video
       ELSE /\ video' = DropStub(v)
            /\ job' = [job EXCEPT ![j].pend = @ \ {v}]
  /\ UNCHANGED <<edge, run, layer, seen, strand, editVars>>

\* Mutants: a row without a run; the run that re-scraped takes the row over.
FirstRead(j) == job[j].first
FirstMine(j) == job[j].run
First(j) == IF job[j].first # 0 THEN job[j].first ELSE job[j].run

WriteTarget(j, v) ==
  /\ job[j].at = "write" /\ v \in job[j].cur
  /\ video' = Upsert(v, First(j))
  /\ job' = [job EXCEPT ![j].at = "enrich", ![j].cur = {}, ![j].run = 0,
               ![j].first = 0, ![j].found = @ \cup {v},
               ![j].got = @ \cup {v}]
  /\ UNCHANGED <<edge, run, layer, seen, strand, editVars>>

\* discovered_video_ids: what was enriched, and members that were incomplete.
Found(j) == job[j].found \cup {v \in job[j].short : ~Incomplete(v)}

SaveLayer(j) ==
  /\ job[j].at = "enrich" /\ job[j].pend = {} /\ Len(layer) < MaxLayers
  /\ layer' = Append(layer,
       [index |-> job[j].index, root |-> job[j].root, parent |-> job[j].parent,
        runs |-> job[j].runs, found |-> Found(j)])
  /\ job' = [job EXCEPT ![j] = Idle]
  /\ UNCHANGED <<video, edge, run, seen, strand, editVars>>

-----------------------------------------------------------------------------
\* The runs jobs have begun and not finished.
Inside(js) ==
  {job[j].run : j \in {i \in js : job[i].at \in {"extract", "collect", "deep", "saving"}}}

\* A database error leaves the function: the job fails where it is (outside
\* a run this only loses the job's work).
Die(j) ==
  /\ Inside({j}) # {} /\ Cardinality(strand) < MaxStrand
  /\ strand' = strand \cup Inside({j})
  /\ job' = [job EXCEPT ![j] = Idle]
  /\ UNCHANGED <<video, edge, run, layer, seen, editVars>>

\* The process dies and starts again.  The UPDATE of the run ledger calls a
\* method SqlDatabase does not have and names a column the table does not
\* have; create_app swallows the error.
Restart ==
  /\ Inside(Jobs) # {} /\ Cardinality(strand) < MaxStrand
  /\ strand' = strand \cup Inside(Jobs)
  /\ job' = [j \in Jobs |-> Idle]
  /\ edit' = [e \in Editors |-> NoCopy]
  /\ UNCHANGED <<video, edge, run, layer, seen, reopened>>

-----------------------------------------------------------------------------
(* update_run(): a run is read, renamed or tagged, and saved with every      *)
(* column, its status included.                                             *)

EditRead(e, r) ==
  /\ edit[e] = NoCopy /\ r \in DOMAIN run
  /\ edit' = [edit EXCEPT ![e] = [run |-> r, open |-> run[r].open]]
  /\ UNCHANGED <<video, edge, run, layer, job, seen, strand, reopened>>

EditSave(e) ==
  LET r == edit[e].run IN
  /\ r # 0
  /\ run' = [run EXCEPT ![r].open = edit[e].open]
  /\ reopened' = IF edit[e].open /\ r \notin strand \cup Inside(Jobs)
                 THEN reopened \cup {r} ELSE reopened \ {r}
  /\ edit' = [edit EXCEPT ![e] = NoCopy]
  /\ UNCHANGED <<video, edge, layer, job, seen, strand>>

Edit == \E e \in Editors : EditSave(e) \/ \E r \in DOMAIN run : EditRead(e, r)

-----------------------------------------------------------------------------
Saves(j) ==
  \/ \E v \in Videos : \/ CollectVideo(j, v) \/ SaveTranscript(j, v)
                       \/ TakeVideo(j, v) \/ SaveVideo(j, v)
                       \/ TakeTarget(j, v) \/ WriteTarget(j, v)
  \/ StartDeep(j) \/ CollectEnd(j) \/ GiveUp(j) \/ StartEnrich(j) \/ SaveLayer(j)
Fetches(j) == ExtractChannel(j) \/ \E v \in Videos : EnrichTask(j, v) \/ ScrapeTask(j, v)
Work ==
  \/ \E j \in Jobs : Collect(j) \/ CrawlRun(j) \/ CrawlLayer(j) \/ Saves(j) \/ Fetches(j)
  \/ \E r \in DOMAIN run : Bootstrap(r)
Next == Work \/ (\E j \in Jobs : Die(j)) \/ Restart \/ Edit

Spec == Init /\ [][Next]_vars
\* A job's thread keeps running; nothing is promised of the network.
FairSpec == Spec /\ \A j \in Jobs : WF_vars(Saves(j))
\* Jobs die with the process only.
RestartSpec == Init /\ [][Work \/ Restart]_vars

-----------------------------------------------------------------------------
(* Properties.                                                             *)

\* A run is RUNNING exactly while a job is inside it or died inside it, or when
\* an editor saved over its end what it had read before: no return of the scrape
\* or the collection skips _finish_run, and no edit ends a run too early.
LedgerExplained ==
  \A r \in DOMAIN run :
    run[r].open <=> r \in strand \cup Inside(Jobs) \cup reopened

\* Frontier mode leaves out only videos whose feed has been saved: a video
\* that failed or was given up is crawled by the next frontier crawl.
SkippedWasObserved == \A r \in DOMAIN run : AlreadyScraped(r) \subseteq seen

\* A crawl does not fetch again a video whose info it has already saved: the
\* bulk pass and the enrichment pass share the work.
FetchedOnce == \A j \in Jobs : job[j].at = "enrich" => job[j].pend \cap job[j].got = {}

\* What a layer lists as discovered stays a full video, whatever other jobs
\* fail to fetch afterwards.
DiscoveredKept ==
  \A l \in DOMAIN layer : layer[l].index > 0 =>
    \A v \in layer[l].found : ~Incomplete(v)

\* The tables stay well formed, a full row names the run that first saw it,
\* what the layers list is there, no video is fetched too often, and none is
\* left out too early.
TablesSound == TypeOK /\ DiscoveredKept /\ SkippedWasObserved /\ FetchedOnce

\* A crawl changes the first run of a full video only if another job has given
\* the row a run after the crawl had looked; a collection takes every row of
\* its channel over.
ProvenanceKept ==
  [][\A v \in Videos :
       video[v].row = "full" /\ video'[v].first # video[v].first =>
         \E j \in Jobs :
           \/ job[j].at \in {"collect", "deep"} /\ video'[v].first = job[j].run
           \/ job[j].at = "write" /\ v \in job[j].cur /\ job[j].first # video[v].first
           \/ job[j].at = "bulk" /\ ~job[j].box[v].had]_vars

\* A collection that waits for its channel or for what enriches its videos.
Waiting(j) == job[j].at = "extract" \/ (job[j].at = "deep" /\ job[j].pend # {})

\* However many fetches stall, a crawl ends; a collection ends or waits for a
\* fetch, for ever if that does not return.  The bounds of the model may end
\* first.
CrawlEnds ==
  \A j \in Jobs : job[j].at # "idle" ~>
    job[j].at = "idle" \/ Waiting(j) \/ Len(run) = MaxRuns \/ Len(layer) = MaxLayers

\* What persistence/sql/repositories.py:722 says of a start: a run that was
\* RUNNING when the process died is marked failed.
StaleRunsFailed == [][Restart => \A r \in DOMAIN run : ~run'[r].open]_vars
=============================================================================
