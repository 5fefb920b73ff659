# Verification of the Social Science Research collector

The repository collects YouTube data for social scientists: a FastAPI backend
(`src/SocialScienceResearch`) schedules collection jobs on threads, the jobs
fetch pages through yt-dlp under rate limits shared by the whole process, and
services analyse what was stored. Beside it stand a retrieval agent and an
embedding pipeline. This directory holds TLA+ specifications of the parts where
threads, processes or requests meet, TLC configurations that check them on
small instances, and TLAPS proofs that hold for every size. Paths below are
relative to `src/SocialScienceResearch` unless they start with `src/`.

## 1. Inventory

### Parts that keep state and meet others

| Part | State | Operations | Meets |
|---|---|---|---|
| Job registry `services/jobs.py` | `Job` objects (status, request flags, result), the thread pool, the watchdog, the job rows of the store, the event subscribers | `submit`, `_run`, `cancel`, `pause`, `resume`, `_watchdog_loop`, `kill_stuck`, `recycle_executor`, `shutdown`, `_persist`, `persist_job`; `subscribe`, `_notify` | request threads, pool threads, the event loop, the store |
| Priority task queue `concurrency/priority_queue.py` | heap, sequence numbers, counters, workers, a Future per task | `enqueue`, `_worker`, `shutdown`, `queue_state` | callers blocked in `_dispatch`, the budget |
| Budget controller `concurrency/budget_controller.py` | interval, baseline, floor and ceiling, next slot, AIMD stamps | `acquire`, `on_rate_limited`, `set_min_interval` | queue workers, the retry layer, the operator's speed preset, the breaker it feeds |
| Circuit breaker `concurrency/circuit_breaker.py` | per session key: state, consecutive counts, opening time | `allow_request`, `wait_until_allowed`, `record_failure`, `record_success`, `reset` | the adapter's gate, the budget controller, the reset endpoint |
| YoutubeDL limiter `concurrency/ytdlp_semaphore.py` | permits | `acquire` | every yt-dlp call |
| Acquisition adapter `acquisition/yt_dlp_adapter.py`, `acquisition/retry.py` | the page-dump lock | `_dispatch`, `_guarded`, the six kinds of request, `retry_policy_budgeted` | all of the above |
| Workspace runtime `api/app.py` | the services of the active workspace and its id | `sync`, `active_jobs`, reconciliation of job rows at start-up and on reads, tags of jobs | every request, live workers, the store |
| Workspace registry `services/workspace_service.py` | `registry.json`, `active.json`, one database per workspace | `bootstrap`, `create`, `update`, `activate`, leaving a workspace | concurrent requests, the end of the process |
| Analysis caches `services/recommendation_graph_service.py`, `commenter_overlap_service.py`, `commenter_network_service.py`, `network_analytics_service.py` | four caches with their keys, TTLs and build locks | look-up, build, store, the clears | jobs that write, a switch of the workspace |
| Collection runs `services/collection_service.py`, `PATCH /runs/{run_id}` | run rows, video rows | `_begin_run`, `_collect_videos`, `_finish_run`, `update_run` | the crawl, the store, whoever edits a run |
| Layer crawl, recommendations `services/layer_scrape_service.py`, `services/recommendation_service.py` | a private thread pool, futures; layer rows, edges, flags, stubs | `bootstrap_layer`, `scrape_next_layer`, the bulk scrape with its stall, enrichment | the adapter, other jobs, the store |
| Echo-chamber detection `services/echo_chamber_service.py` | the detection's record: status, job, snapshots | start, continue, stop, `_crawl_layers` | the crawl, the job registry, researchers |
| Homophily pairs `services/content_homophily_service.py` | one analysis: pairs, substitutes, missing videos, fetches | selection, sampling, replacement | transcripts and embeddings |
| Embedding pipeline `src/Ingestion_Pipline/ingestion/embedding_pipeline.py`, `infra/rate_limiter.py` | request queue, history of requests, token window, request stamps | `embed_documents`, `_worker_loop`, `_process_request`, `acquire`, `throttle` | callers that poll, the loop they share, the vector store |
| Agent server `src/RetrievalPipeline/agent_server.py`, `loghub.py` | worker loops and tasks of runs, events and subscribers per run | run, resume, cancel, `subscribe`, `put`, `done` | run threads, the drain loop, the server's loop |

How a request travels: a `POST` handler calls `JobManager.submit`; a pool thread
runs the service function; it calls the adapter, whose `_guarded` asks the
breaker and whose `_dispatch` enqueues the work and waits; a queue worker takes
a slot from the budget and a permit from the limiter and calls yt-dlp; the
retry policy reports a 429 to `on_rate_limited`, which may feed the breaker.
The jobs save what they fetched into the tables of the active workspace, the
analyses read those tables through their caches, and `sync` replaces all
services when the workspace is switched.

### Parts without concurrency of their own

Statistics, query, dataset and export services, domain models, HTTP routers,
the command line, the research graph and the ingestion script, the browser
client and the vendored `src/gpt-researcher`. `PROJECT.json` gives the reason
for each under `components`.

### What is hard in it

* `job.status` is written by pool threads without the registry lock, against
  the watchdog, force-kills and requests that hold it; saving a row is two
  steps (build, save) that several threads interleave; the executor is replaced
  while items are submitted to it.
* A breaker's state changes between the gate, the call and the record; the
  interval and its ceiling are read outside the lock that guards them; a slot
  is paid for before a cooldown is waited out.
* The queue pushes and notifies in two critical sections, and a cancelled
  Future can end a worker thread.
* Records are loaded, changed and saved whole, without a lock, by handlers and
  jobs alike (`registry.json`, detections, runs, and jobs that are tagged), and
  videos row by row by jobs that share them.
* A rebuild of the services leaves threads behind that hold old ones, and
  caches whose keys are the addresses of old objects.
* A process can end between any two saves, and some of what a start should
  repair is not repaired.
* Streams replay a snapshot and then follow: a change may fall in between. The
  agent's are asyncio queues that other threads put into.
* Nothing in Python ends a blocked yt-dlp call: liveness rests on timeouts, the
  watchdog and on abandoning pools.

`hazards` in `PROJECT.json` lists them at their lines, each with the properties
that watch it.

## 2. Modules

| Module | Models |
|---|---|
| `JobLifecycle` | The abstract specification of the registry: the states a caller may see |
| `JobManager` | `services/jobs.py` step by step; `ImplementsLifecycle` is the refinement |
| `JobStream` | The server-sent events of a job: subscribe, replay, bounded queues |
| `PriorityQueue` | enqueue, workers, Futures, shutdown |
| `BudgetController` | Slots, AIMD, the unlocked reads, live tuning |
| `CircuitBreaker` | The registry of breakers and the threads of `_guarded` around it |
| `Acquisition` | One request from `_dispatch` to its answer, between queue, budget, breaker, limiter and page-dump lock |
| `WorkspaceRuntime` | The active workspace: `sync`, the switch guard, job rows and their reconciliation, crashes |
| `WorkspaceRegistry` | `registry.json` and `active.json` with their inodes, concurrent saves, the end of the process |
| `AnalysisCaches` | The four caches of the network services across writes and switches |
| `LayerCrawl` | Collections and layer crawls that interleave at every table write, with stalls, failures and deaths |
| `EchoDetection` | The record of a detection, its jobs, its stops and continuations |
| `HomophilyPairs` | Selection, allocation, sampling and replacement of the pairs of an analysis |
| `EmbeddingPipeline` | Callers, the request queue, its worker and the history |
| `RateLimits` | The request limiter and the token throttle of one embedding call |
| `AgentRuns` | Runs of the agent, cancellation, the log hub and its subscribers |
| `MC<module>` | Instances: `MCJobManager`, `MCLayerCrawl`, `MCWorkspaceTags` give constants and bounds, `MCJobProgress` the parts of its run; `MCAcquisition`, `MCConcurrency`, `MCCorpus`, `MCServices`, `MCWorkspace` put components beside each other |
| `JobManagerProofs`, `PriorityQueueProofs`, `BudgetControllerProofs`, `AcquisitionProofs`, `WorkspaceRuntimeProofs`, `WorkspaceRegistryProofs`, `CorpusProofs`, `ServicesProofs` | Theorems (section 4) |

Components that share no state are checked in one run by a variable `part`,
chosen at the start, that says which of them a behaviour is about: their state
spaces add up instead of multiplying. What such a component sees of the others
is modelled in its own module (what a torn registry reads as, the layers other
crawls add to a family, whether a 429 finds AIMD exhausted).

Correspondence. A variable is named after the attribute it stands for where
there is one (`interval` is `_min_interval`, `heap` is `_heap`); program
counters (`task`, `pc`, `at`) hold a thread's place in its method. An action is
a critical section, or one read or write of shared state outside a lock.
Variables marked "history" are read by no action except to keep themselves.
`PROJECT.json` maps every definition to its lines. Operators marked "Mutant" in
a comment are wrong on purpose: each replaces the definition after it to show
that a property notices, and none is part of a next-state relation.

* `JobManager`. `SubmitRegister/Build/Save/Enqueue` are `submit`; `Claim` is a
  pool thread taking an item; `RunMark` to `FinalSave` are the statements of
  `_run`, with `WorkEnd` for the end of the job's function; `Cancel`, `Pause`,
  `Resume` are the request handlers; `Watchdog*` is one sweep, which holds the
  lock throughout; `Kill*` and `Recycle*` are `kill_stuck`, which gives the lock
  up before it persists. `TagBuild` and `TagSave` are the `persist_job` of a tag
  request, which builds the row on a request thread and saves it, both without
  the lock; `restamped` remembers the jobs whose last save was such an old one. A
  job's run time is abstracted: a RUNNING job may be over its cap at any sweep.
* `JobStream`. A snapshot is the number of changes the job has seen and whether
  it is over, and it may change after that (`_run` may resurrect it). What a client
  does runs on the event loop, where `subscribe` does not wait; `soon` is `call_soon_threadsafe`, `inbox` the bounded queue.
* `CircuitBreaker`. Times are what is left of a cooldown, counters are cut at
  their thresholds. `SessionKey` and `FailureKey` are the keys the two callers
  use: they are equal unless a proxy is configured.
* `BudgetController`. Times are relative to now and integral; so are intervals,
  hence the rounding of the floor and of the 5 % increase.
* `PriorityQueue`. `Spawn` creates the workers one by one, as the code does
  outside its lock; `CheckCancelled`, `CheckAgain` and `Settle` are separate
  because a Future may be cancelled between them.
* `Acquisition`. A request has one of the kinds the adapter extracts and goes
  through attempts (`Charge`, `PassGate`), contexts (permits, and for page dumps
  the lock) and the policy its kind has for a failed context; `account` counts
  what was paid, limited, heard and filed.
* `WorkspaceRuntime`. `Loop` is the event loop with `sync` and its rebuild
  (`Build`, `SetStore`, `Clear`, `Swap`, `Close`), `Handle` a request thread,
  `Dispatch` the middleware; a job is cut down to what it saves and when. A
  connection pool is current, next or closed. Between `Clear` and `Swap` the
  dictionary of services is empty: a submit or a list fails there, and
  `active_jobs` finds no manager, or no repositories after it had found one
  (`GuardCleared`). `SetTags` is a tag request: for a job of the manager it builds
  the row and saves it (`TagBuild`, `TagSave`); for any other it reads the row,
  repairs it and saves it (`TagRead`, `TagHeal`, `TagSave`), and looks the
  repositories up again at each of the three. `exposed` are the jobs a guard
  could not see, `restamped` those whose row such a save has made old or stray.
* `WorkspaceRegistry`. Files are inodes: a save opens `<path>.tmp`, writes and
  renames it, and all writers of a file use one such path. `given` is what an
  atomic registry would hold, `overlap` the files of which two changes have
  overlapped.
* `AnalysisCaches`. A graph is what it was built from; bindings of `repos` and
  services have addresses that are used again once nobody holds the object.
* `LayerCrawl`. A job is the thread that saves; its pool only fetches. Tables
  are `video`, `edge`, `run`, `layer`; `Family` is `list_layers`. A collection
  extracts its channel, saves every video (`CollectVideo`), and then the ones a
  transcript came for once more (`EnrichTask`, `SaveTranscript`). An editor of a
  run reads it (`EditRead`) and saves all of it (`EditSave`).
* `EchoDetection`. Handlers and jobs load the whole record, change their copy
  and save it whole; a snapshot is its layer's index; `top` is the highest layer
  of the seed's family.
* `HomophilyPairs`. Videos and communities are numbers so that sorting is their
  order; a random sample is any sample. A stratum is a pair of communities.
  `_allocate_balanced` runs step by step: `Allocate` is the call, `StartRound`
  fixes the even share of a round and `Serve` raises one stratum by it.
* `EmbeddingPipeline`. A call's documents are counted in batches, and a batch
  settles as stored or failed; a try is one step, with either outcome, or none.
  `LoopEnds` is the return of `asyncio.run` (`main.py:24`) once its callers are
  answered: the worker is cancelled, and what is queued or in hand stays so.
* `RateLimits`. The call of the homophily analysis: the throttle of its tokens
  is the outer wrapper, the limiter of requests the inner one. Each thread's stamp
  and each token has an age instead of a time, so that a window is the set of what
  is younger than it; `throttle` may take what its window holds and wait for the
  next.
* `AgentRuns`. One run id; a put appends its event and then reaches the
  subscribers, in two steps, for the hub has no lock. Writers are the tasks, the
  server and the drain loop. A reader is `open` (about to look into its queue),
  `empty` (has found nothing) or `waiting` (its future is registered): only the
  last is woken, and `Wait` tests nothing again. `missed` are the readers to which
  the end was put before they waited, or while they subscribed.

## 3. Runs

| Run | Instance | Shows |
|---|---|---|
| `job_safety` | 1 job, 2 concurrent force-kills, the watchdog, all requests, 1 tag request, shutdown, a store that may fail | `StatusTellsThread`, `RequestHonoured`, `RowSettles`, and that `JobManager` implements `JobLifecycle` |
| `job_progress` | 2 jobs, 1 thread; cancel, pause and functions that may block for ever, and, in other behaviours, 1 force-kill | `StallsEnd`, `KillFreesQueue`, `JobsFinish` |
| `breaker` | 3 threads, 2 keys, thresholds and cooldown 2; beside it 2 requests of any kind, 1 queue worker, 1 permit, 2 attempts | `HeldWhileOpen`, `SessionFailuresOpen`, `FetchSound`, `CallsProceed`; no deadlock |
| `queue` | 2 tasks, 2 workers, cancellations, shutdown; beside it 2 threads of the budget, costs 1 and 2, spacings 0 and 2 | `CalledOnce`, `NoLostWakeup`, `CountsMatch`, `AnsweredWhileRunning`, `WorkersExit`; `SlotsDisjoint`, `DriftBounded`, `BackoffHeld`, `FedIfUntuned` |
| `workspace` | Legacy and one workspace, 1 job, 1 request, torn reads, crashes; beside it 2 administrators, 2 ids, 3 requests, 1 end of the process; and 4 kinds of cache, 2 readers, 2 workspaces, 2 writes or switches | `BindingAgrees`, `LiveRowOwned`, `OwnedRowSpared`, `PhantomHealed`; `RegistrySound`; `CachesSound` |
| `workspace_tags` | Legacy and one workspace, 1 job, 1 request, 1 tag request, crashes | `StrayExplained`, `EndedStays` |
| `crawl` | 2 jobs, 2 videos, one of them possibly a stub, 3 runs, 2 layers, 1 death; 1 job and 1 editor of runs; beside it a detection with 2 jobs, 1 researcher, 2 layers, 2 calls | `TablesSound`, `LedgerExplained`, `ProvenanceKept`, `CrawlEnds`; `EchoSound` |
| `services` | a stream with 2 threads and a queue of 2; a run of the agent with a resume and a reader; 2 callers with 2 batches; 2 embedders; 4 videos in 2 communities | `StreamSound`, `AgentSound`, `AnswerTrue`, `RatesKept`, `SampleSound`, `ViewersServed`, `EmbeddingSettles` |
| `job_kill_doc` | 1 job, 1 force-kill | violates `NoResurrection` |
| `crawl_restart_doc` | 1 job, 1 restart | violates `StaleRunsFailed` |
| `homophily_selfpair_doc` | 4 videos, 2 pairs | violates `NoSelfPair` |
| `workspace_cache_doc` | the commenter cache, 1 switch | violates `NoStaleEntries` |

Bounds. Two actors of a kind, and one more than the shared resource can serve
(two jobs on one thread, two requests on one permit), produce every order of
two critical sections with a third party in between; the proofs remove the
bound for safety. `MaxKills` bounds the calls of `kill_stuck`, and with them
the pools; two are needed for one to recycle what the other just opened. The
breaker needs a threshold and a cooldown of 2 so that a failure can be counted
without opening and a wait can be interrupted. The budget needs a spacing of 2
for a decrease, a floor below and two doublings up to its ceiling. Three
requests to the registry let a third one read what two others made of it. Three
runs and two layers let a second crawl continue what a first one left; two
calls let a detection be stopped and continued. `QueueMax` 2 with three changes
overruns a subscriber. `MaxOwed` exceeds a token window, so one call needs two.
`MaxSweeps` is 3 where the code has 4: the last sweep differs from the others
only in being the last. One tag request and one editor suffice because what they
do wrong they do alone: they save what they read before. To keep the spaces
small, of the two jobs of `crawl` at most one collects, runs are edited where
one job works, and `workspace_tags` starts in the default workspace, has no torn
registry and no switch to none. `workspace` and `crawl` take two to three
minutes each, `services` four.

Deadlock is checked in `breaker`, `workspace` and `workspace_tags`. It is
switched off where a behaviour stops by design: a registry or queue that was shut
down, jobs that are all over, a bounded number of requests, runs, layers or calls
that is used up, an analysis or an agent run that is over.

Fairness. Threads are scheduled: weak fairness of every thread's own steps, of
the event loop and of the clock. Beyond that:

* a call of a request to YouTube or of a queue task ends (`FetchStep`,
  `WorkerStep`): the socket timeout bounds it and retries are finite. Of a job's
  function nothing is assumed but in the formula of `JobsFinish`; a crawl does
  without (`Saves(j)` is fair, the fetches are not: the stall timeout ends a
  round), and a collection, which has no such timeout, may wait for ever, which
  `CrawlEnds` allows for;
* of an embedding try nothing is assumed: `acquire` waits for a window that the
  batch fits in, and there may be none. Only a worker that waits for a request
  gets it; `EmbeddingSettles` supposes that the worker is done with a request
  again and again, and lets batches end with the loop;
* the watchdog's check of a job has strong fairness: sweeps recur, and a job
  that stays RUNNING is over its cap at all sweeps after some moment; the
  interrupt of an agent's task has it, too, because it meets the task at some
  await, and the server's steps for a reader, because one loop serves them all.
  No fairness wakes a reader that has missed an event: `ViewersServed` exempts
  it (`missed`);
* requests, force-kills, resets, cancellations, shutdowns, tuning, crashes and
  new work are never promised. That the server is started again after a crash
  is part of the loop's fairness, for `PhantomHealed` speaks of what a later
  read finds.

### Disagreements with what the repository says

`findings` in `PROJECT.json` quotes the lines; each has a run.

* A force-killed job is resurrected by its own worker (`services/jobs.py:380`).
* A start does not repair the run ledger: the statement raises and the error is
  swallowed (`persistence/sql/repositories.py:723`).
* Replacement sampling pairs a video with itself
  (`services/content_homophily_service.py:1048`).
* A build of the commenter network that outlives a switch of the workspace is
  stored for the new one (`services/commenter_network_service.py:990`).

Noted while modelling, without a run of their own:

* Jobs: a tag request may save a row it built before the worker's last save, so
  that a job that is over reads `running` until the next repair; a job cancelled
  while PENDING still starts; `resume` names a
  `_submit_job` that does not exist (`jobs.py:473`); an item submitted while
  `kill_stuck` recycles the pool is cancelled with it and its job stays PENDING
  (`JobsFinish` allows `dropped`); two force-kills that recycle at once can
  leave a pool open that is no longer `_executor`, so `KillFreesQueue` is
  checked with one killer.
* Job stream: `put_nowait` on a full queue loses the snapshot, also the last
  one, and the stream then never closes (`overrun`); a client that is gone
  before its generator starts leaves its queue registered.
* Breaker and budget: HALF_OPEN admits every caller, not one probe; a late
  success of a call begun before the breaker opened counts for closing it;
  with a proxy, failures are filed under "default" (`retry.py:101`) and the gate
  asks for another key (`yt_dlp_adapter.py:234`); at spacing 0 every 429
  reaches the breaker (`budget_controller.py:400`); the 429 whose own decrease
  reaches the ceiling is already reported.
* Queue: a shutdown strands the callers of queued tasks; a task whose Future was
  cancelled is counted down twice, and `set_exception` on such a Future ends the
  worker. Nothing in the repository cancels a Future today.
* Acquisition: `_extract_recommendations` swallows every failure of its source
  extraction except an invalid URL, and the further tabs of a channel swallow
  theirs, so their 429s reach neither AIMD nor breaker; an attempt is charged
  once although it opens several contexts; a slot paid for before a cooldown is
  used after it, so all waiters go at once; `extract_video_fast` and
  `get_video_metadata` bypass queue, budget and breaker.
* Workspaces: a tag request of a job whose workspace was left saves its row, also
  a final one, into the workspace that is bound now; `services` is empty between
  `clear` and `update` (`api/app.py:719`), where the guard of a switch sees no
  active job and a request may fail; overlapping saves of `registry.json` lose updates or mix texts,
  and a later save then drops what the reader could not parse, Legacy included;
  the chooser state rebuilds the services at every request; the guard of a
  switch looks at pending and running jobs only.
* Caches: crawls clear the graph cache only, so `/network/metrics` may be 300 s
  behind (the docstring of `clear_analytics_cache` says writers must call it);
  a service at a reused address serves its predecessor's entries for as long.
* Runs: an edit (`PATCH /runs/{run_id}`) saves the status it read, so that a run
  that ended meanwhile reads RUNNING for good; the fetches of a collection have no
  timeout of their own (`collection_service.py:379`, `694`): one that blocks keeps
  the collection until the watchdog fails the job, and its thread for ever.
* Crawl: `list_videos` leaves `raw_json` out, so a stub "exists" and is never
  enriched; an upsert resets the scraped flag and the first run; a stall ends a
  crawl as a success.
* Detections: a stop and its worker save over each other; a continuation right
  after a stop runs beside the first crawl, and the timeline may then repeat
  layers and pass its lifetime cap; nothing repairs detections after a crash.
* Homophily: replacement fetches exceed the transcript budget; a cancellation
  in the null model still reads "observed".
* Embedding: the default request id is the millisecond and the history is never
  cleared, so two callers may share one; a caller that times out lets
  `asyncio.run` cancel the worker with batches queued or in hand; a batch larger
  than a window makes `acquire` wait for ever (`rate_limiter.py:100`); a throttle of a "rolling" window uses
  fixed ones, so a rolling minute may see twice the limit (`TokensPaced`).
* Agent: events put between a replay and the registration of a subscriber are
  missed; `put_nowait` from a run's thread is not seen by a reader between its
  test of the queue and its wait (`loghub.py:65`, `asyncio.Queue` is not
  thread-safe), so a `done` put there leaves the stream open until another event
  comes, or for ever; two threads may both put the end; a resumed run's worker is
  removed from `RUN_WORKERS` by the end of the first.

## 4. Proofs

Every theorem is checked by TLAPS for all values of the constants, under the
assumptions the modules name (`JobsAssumption`, `QueueAssumption`, ...): sets of
threads, jobs or requests of any size, finite only where something is counted,
thresholds and limits in the ranges the code's constructors and settings admit.
Two theorems assume more, and the runs show why: `SessionFailuresOpen` needs one
key for the gate and for the failures, `FedIfUntuned` a ceiling of at least
twice the baseline.

Every invariant and action property of the passing runs is a theorem, and so is
the refinement of `JobLifecycle`. Each proof has the same shape: the initial
states satisfy an inductive invariant, one lemma or step per action preserves
it, and the property follows from it, or, for an action property, from it and
the step.

| Module | Inductive invariants | Properties |
|---|---|---|
| `JobManagerProofs` | `IInv` | `StatusTellsThread`, `RequestHonoured`, `RowSettles`, `ImplementsLifecycle` |
| `AcquisitionProofs` | `Inv` (breakers), `FetchInv` | `HeldWhileOpen`, `SessionFailuresOpen`; `FetchSound` |
| `BudgetControllerProofs` | `Inv`, `FedInv` | `SlotsDisjoint`, `DriftBounded`, `BackoffHeld`, `FedIfUntuned` |
| `PriorityQueueProofs` | `CallInv`, `WakeInv`, `CountInv` | `CalledOnce`, `NoLostWakeup`, `CountsMatch` |
| `WorkspaceRuntimeProofs` | `Inv`, `CacheInv` | `BindingAgrees`, `LiveRowOwned`, `StrayExplained`, `OwnedRowSpared`, `EndedStays`; `CachesSound` |
| `WorkspaceRegistryProofs` | `RegInv` | `RegistrySound` |
| `CorpusProofs` | `CrawlInv`, `EchoInv` | `TablesSound`, `LedgerExplained`, `ProvenanceKept`; `EchoSound` |
| `ServicesProofs` | `StreamInv`, `ReaderInv`, `EmbedInv`, `RateInv`, `PairInv` | `StreamSound`, `AgentSound`, `AnswerTrue`, `RatesKept`, `SampleSound` |

What the invariants add, and why the properties need it:

* `IInv`. A step of `_run` is right only because an earlier place of the same
  thread fixed the status. So it says where a job stands in `submit`
  (`SubmitInv`), that the watchdog and `kill_stuck` write rows only of jobs they
  have marked (`ForcerInv`), the status for each place of the worker
  (`ThreadInv`), the snapshots in flight, a tag request's included (`RowInv`),
  and the flags still set at each test (`RequestInv`). In the refinement the
  worker's write after a force is a `Straggle`; all its other writes are `Start`
  or `Finish`.
* Breakers. A CLOSED breaker is below its threshold (`ClosedIsHealthy`), and
  with one key the streak of failures never exceeds its counter.
* `FetchInv`. What a request has paid is its attempts, less the one it still
  owes (`PaidSoFar`); nobody passed the gate later than now, which gives that
  everybody asked it anew after an opening; permits and requests inside a
  context add up, and who holds the page-dump lock is in or before a context.
* Budget. Reservations end before the next free slot (`AheadOfAll`), and a
  cooldown since the last decrease or increase holds the interval.
* Queue. `WakeInv` counts: while a worker sleeps there are at most as many tasks
  in the heap as notifies under way and workers about to look. "Somebody is
  about to look" would not survive the pop of that somebody.
* Runtime. `BindInv` says what services, store and binding are between any two
  steps of a rebuild, `OwnInv` which database the last repair made honest, and
  `PinInv` that a job no switch overtook keeps its database bound. `RowInv` knows of a final row that
  nothing has touched that nobody is about to repair it; `TagOK` what a tag request
  holds: the row of a live job of this process, built for the job's own database,
  or what was read of a job of an earlier one, which is final only if the row still
  is.
* `CacheInv`. An entry, a build in progress and an answer are related to the
  age of the binding they were made from; a graph that a switch or the end of a
  job overtook before it was stored is `late`, and nothing is said of it.
* `RegInv`. Until two changes of a file overlap, its inodes and its `.tmp` are
  reached by one writer (`Separate`, `Alone`, `Opened`), and what it is about to
  save is what is meant (`Means`).
* `CrawlInv`. A run is open exactly while one job is in it, one has died in it, or
  an open copy was saved over its end (`LedgerOK`): only uniqueness makes it
  inductive, and that a closed copy is of a run that is over (`CopiesMade`). What a job has found is
  fetched in full, a layer's index is at most its place.
* `EchoInv`. A fresh copy is the record (`CopiesOK`), and for each place of a
  crawl what its next snapshot may be (`PlaceOK`): below, equal to or above the
  last one, with room left under the lifetime cap.
* `StreamInv`. While a subscriber's queue has not overrun, the current state has
  been sent to it or some thread is about to (`Covered`). `ReaderInv` says the
  same of the log hub.
* `EmbedInv`. The history speaks only of ids that calls have, and the truth of
  an id that one call has; so what the loop drops is of no caller that was
  answered by it.
* `RateInv`. Of the tokens of a rolling window those of the limiter's current
  window are at most `used`, the earlier ones at most `MaxTokens`, and none has
  age 0 when the window is reset (`TokensSplit`): hence at most twice the limit.
* `PairInv`. In a round of `_allocate_balanced` every stratum is raised from one
  common level by one share, as far as its capacity goes, and a share above 1
  never exceeds what is left (`Level`). `AllocatedEvenly` is its result: all is
  given, and no stratum with capacity left trails another by more than one.
  For the sweeps it keeps that what was not replaced is as drawn, and that each
  replacement has a reason (`Explained`).

Proof attempts changed the models where they were wrong or said too little.
`ProvenanceKept` first exempted too few crawls: a crawl may have looked at a
video before another job gave it its first run. In `EchoDetection` a record
could be overwritten and return to an equal value between a load and a save, so
`fresh` and `crossed` now follow loads and saves and not values. `RateLimits`
added tokens up, and `HomophilyPairs` computed the allocation in one fold; both
are now sets, cardinalities and steps, about which an invariant can be stated.

Model-checked only: liveness (`StallsEnd`, `KillFreesQueue`, `JobsFinish`,
`CallsProceed`, `AnsweredWhileRunning`, `WorkersExit`, `PhantomHealed`,
`CrawlEnds`, `ViewersServed`, `EmbeddingSettles`), for fairness and ENABLED are
out of the prover's reach. The properties of the four runs that end in a
violation are, of course, not theorems.

## 5. Not modelled

* Progress payloads, messages, log lines, observations and events, except where
  a decision reads them.
* Numerical code: centralities, overlaps, homophily statistics, the null model
  (but for its cancellation, noted above), signals and scores of detections.
  What it computes is floating-point arithmetic on stored data; it shares no
  state but the caches, which are modelled.
* Query, dataset and export services, routers and schemas, the command line and
  the browser client: stateless reads, validation and formatting. Together with
  the numerical code and the vendored `src/gpt-researcher` these are most of the
  repository's lines, so the map covers a small share of it.
* The research graph and the ingestion script, whose behaviour is that of
  external models and services called one after the other.
* Of modelled components: comments, criteria and quotas of collections; the
  expansions of a crawl and the scrape of a single video; `session_context.json`;
  the sampling service; SQL text and the workbook.
* `WorkspaceRuntime` assumes that no registered workspace vanishes.
  `WorkspaceRegistry` shows that overlapping saves may drop one; there it is
  only said what happens without such an overlap.
* `CachesSound` promises fresh answers after writes that clear the cache. Of the
  analytics it says so after single scrapes only: bulk crawls do not clear their
  cache, and an entry may be 300 s behind.

## 6. What is left

* Composition: queue, budget and breaker are each proved in full and
  `Acquisition` has its own, coarser steps for them. A refinement from each
  component to what `Acquisition` assumes would join them.
* Abstract specifications, like `JobLifecycle`, for the registry of workspaces
  (an atomic map) and for the embedding calls (each batch settled once).
* The expansions and the quotas in `LayerCrawl`, and `session_context.json` in
  `WorkspaceRegistry`, which is saved in the same way.
