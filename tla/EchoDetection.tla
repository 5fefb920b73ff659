--------------------------- MODULE EchoDetection ---------------------------
(***************************************************************************)
(* One echo-chamber detection: services/echo_chamber_service.py.            *)
(*                                                                          *)
(* A job crawls layer after layer around a seed and appends a snapshot of   *)
(* each to the record; the record can be stopped, and continued by another  *)
(* job.  Handlers and jobs run on threads, and each of them loads the whole *)
(* record, changes its copy and saves it whole.  A snapshot is its layer's  *)
(* index; of the seed's family of layers only the highest index matters,    *)
(* for a crawl goes on from the last layer of the family, whoever crawled   *)
(* it.  Signals, scores, comments and error texts are left out.             *)
(***************************************************************************)
EXTENDS Naturals, Sequences, SequencesExt

CONSTANTS
  EchoJobs,       \* job ids: one for start, one for each continuation
  Researchers,    \* request threads
  MaxLayersTotal, \* MAX_LAYERS_TOTAL, 10 in the code
  MaxCalls        \* bound: whatever reaches a detection from outside

ASSUME EchoAssumption ==
  /\ "nobody" \notin EchoJobs /\ EchoJobs \cap Researchers = {}
  /\ MaxLayersTotal \in Nat \ {0} /\ MaxCalls \in Nat

VARIABLES
  detection, \* the row: [status, job, layers]
  crawl,     \* the threads of the jobs: [at, copy, last, left, stop]
  handler,   \* the request threads: [at, kind, copy, job, left]
  top,       \* the highest layer index in the family of the seed run
  halted,    \* jobs whose cancel_requested is set
  forced,    \* jobs the watchdog or a force-kill has ended in the registry
  calls,     \* stops, continuations, cancellations and the like so far
  told,      \* history: jobs whose cancellation a stop has seen accepted
  fresh,     \* history: threads that have loaded the record as last saved
  overlap,   \* history: a continuation was saved while another job was not over
  crossed    \* history: a save fell between another thread's load and save

echoVars == <<detection, crawl, handler, top, halted, forced, calls, told, fresh,
              overlap, crossed>>

Finals == {"completed", "exhausted", "stopped", "unsupported_stop"}
Records ==
  [status : {"none", "pending", "running", "failed"} \cup Finals,
   job : EchoJobs \cup {"nobody"}, layers : Seq(Nat)]
NoRecord == [status |-> "none", job |-> "nobody", layers |-> <<>>]
Asleep == [at |-> "new", copy |-> NoRecord, last |-> 0, left |-> 0, stop |-> "completed"]
Free == [at |-> "idle", kind |-> "stop", copy |-> NoRecord, job |-> "nobody", left |-> 0]

EchoTypeOK ==
  /\ detection \in Records
  /\ crawl \in [EchoJobs ->
       [at : {"new", "queued", "loaded", "seed", "loop", "crawl", "crawled", "listed",
              "reloaded", "ending", "closing", "deciding", "failing", "failed",
              "over", "lost"},
        copy : Records, last : Nat, left : 0..MaxLayersTotal, stop : Finals]]
  /\ handler \in [Researchers ->
       [at : {"idle", "loaded", "asked", "saved"}, kind : {"stop", "continue"},
        copy : Records, job : EchoJobs \cup {"nobody"}, left : 0..MaxLayersTotal]]
  /\ top \in Nat /\ halted \subseteq EchoJobs /\ forced \subseteq EchoJobs
  /\ calls \in 0..MaxCalls /\ told \subseteq halted
  /\ fresh \subseteq EchoJobs \cup Researchers
  /\ overlap \in BOOLEAN /\ crossed \in BOOLEAN

EchoInit ==
  /\ detection = NoRecord /\ top = 0
  /\ crawl = [w \in EchoJobs |-> Asleep]
  /\ handler = [r \in Researchers |-> Free]
  /\ halted = {} /\ forced = {} /\ told = {} /\ fresh = {} /\ calls = 0
  /\ overlap = FALSE /\ crossed = FALSE

Unfinished(w) == crawl[w].at \notin {"new", "over", "lost"}

Call == calls < MaxCalls /\ calls' = calls + 1

\* save_detection writes every column; only `keep` holds what is saved now.
SaveKeeping(keep, thread, new) ==
  detection' = new /\ crossed' = (crossed \/ thread \notin fresh) /\ fresh' = keep
SaveRecord(thread, new) == SaveKeeping({}, thread, new)

-----------------------------------------------------------------------------
(* _crawl_layers and _execute_crawl.                                       *)

Advance(w, from, to) == crawl[w].at = from /\ crawl' = [crawl EXCEPT ![w].at = to]
\* What the thread leaves behind does not matter.
End(w, from, to) ==
  crawl[w].at = from /\ crawl' = [crawl EXCEPT ![w] = [Asleep EXCEPT !.at = to]]
\* The loop is left with a verdict of its own.
Ending(w, stop) ==
  [crawl EXCEPT ![w] = [Asleep EXCEPT !.at = "ending", !.stop = stop]]
KeepRequests == UNCHANGED <<handler, halted, forced, calls, told, overlap>>
KeepRecord == UNCHANGED <<detection, fresh, crossed>>

Load(w, from, to) ==
  /\ crawl[w].at = from
  /\ crawl' = [crawl EXCEPT ![w].at = to, ![w].copy = detection]
  /\ fresh' = fresh \cup {w}
  /\ UNCHANGED <<detection, top, crossed>> /\ KeepRequests

\* The worker starts; later it loads the record anew for each snapshot, for
\* its end and for a failure.
LoadRecord(w) ==
  \/ Load(w, "queued", "loaded")   \/ Load(w, "listed", "reloaded")
  \/ Load(w, "ending", "closing") \/ Load(w, "failing", "failed")

MarkRunning(w) ==
  /\ crawl[w].at = "loaded"
  /\ LET new == [crawl[w].copy EXCEPT !.status = "running"] IN
     /\ SaveKeeping({w}, w, new)
     /\ crawl' = [crawl EXCEPT ![w].at = "seed", ![w].copy = new]
  /\ UNCHANGED top /\ KeepRequests

\* The seed has no frontier to crawl.
NoFrontier(w) ==
  /\ End(w, "seed", "over")
  /\ SaveRecord(w, [crawl[w].copy EXCEPT !.status = "unsupported_stop"])
  /\ UNCHANGED top /\ KeepRequests

\* Layer 0, saved with the copy of the start; then the family is listed.
Anchor(w) ==
  /\ crawl[w].at = "seed"
  /\ SaveRecord(w,
       [crawl[w].copy EXCEPT !.layers = IF Contains(@, 0) THEN @ ELSE Append(@, 0)])
  /\ crawl' = [crawl EXCEPT ![w].at = "loop", ![w].last = top, ![w].copy = NoRecord]
  /\ UNCHANGED top /\ KeepRequests

NextLayer(w) ==
  /\ crawl[w].at = "loop" /\ crawl[w].left > 0 /\ w \notin halted
  /\ crawl' = [crawl EXCEPT ![w].at = "crawl", ![w].left = @ - 1]
  /\ UNCHANGED top /\ KeepRecord /\ KeepRequests

\* The target is reached, or the job was asked to stop.
LeaveLoop(w) ==
  /\ crawl[w].at = "loop" /\ (crawl[w].left = 0 \/ w \in halted)
  /\ crawl' = Ending(w, IF crawl[w].left = 0 THEN "completed" ELSE "stopped")
  /\ UNCHANGED top /\ KeepRecord /\ KeepRequests

\* scrape_next_layer ends with a layer after the last of the family...
ScrapeLayer(w) ==
  /\ Advance(w, "crawl", "crawled")
  /\ top' = IF crawl[w].last < top THEN top ELSE crawl[w].last + 1
  /\ KeepRecord /\ KeepRequests

\* ... or finds no unscraped video.
Exhaust(w) ==
  /\ crawl[w].at = "crawl"
  /\ crawl' = Ending(w, "exhausted")
  /\ UNCHANGED top /\ KeepRecord /\ KeepRequests

\* Mutant: the family is not listed again after a layer.
ListStale(w) ==
  /\ Advance(w, "crawled", "listed")
  /\ UNCHANGED top /\ KeepRecord /\ KeepRequests

ListLayers(w) ==
  /\ crawl[w].at = "crawled"
  /\ crawl' = [crawl EXCEPT ![w].at = "listed", ![w].last = top]
  /\ UNCHANGED top /\ KeepRecord /\ KeepRequests

\* A layer without edges is a natural end.
SaveSnapshot(w) ==
  /\ crawl[w].at = "reloaded"
  /\ SaveRecord(w, [crawl[w].copy EXCEPT !.layers = Append(@, crawl[w].last)])
  /\ \/ crawl' = [crawl EXCEPT ![w].at = "loop", ![w].copy = NoRecord]
     \/ crawl' = Ending(w, "unsupported_stop")
  /\ UNCHANGED top /\ KeepRequests

\* Mutant: the last test of the cancellation is forgotten.
DecideBlind(w) == crawl[w].stop
Verdict(w) == IF w \in halted THEN "stopped" ELSE crawl[w].stop

Decide(w) ==
  /\ crawl[w].at = "closing"
  /\ crawl' = [crawl EXCEPT ![w].at = "deciding", ![w].stop = Verdict(w)]
  /\ UNCHANGED top /\ KeepRecord /\ KeepRequests

SaveEnd(w) ==
  /\ End(w, "deciding", "over")
  /\ SaveRecord(w, [crawl[w].copy EXCEPT !.status = crawl[w].stop])
  /\ UNCHANGED top /\ KeepRequests

\* Mutant: the record is left as it is when the crawl fails.
SaveNoFailure(w) ==
  End(w, "failed", "over") /\ UNCHANGED top /\ KeepRecord /\ KeepRequests

SaveFailure(w) ==
  /\ End(w, "failed", "over")
  /\ SaveRecord(w, [crawl[w].copy EXCEPT !.status = "failed"])
  /\ UNCHANGED top /\ KeepRequests

\* An exception: from the crawl or a save it leads to the handler of
\* _crawl_layers; from that handler, or before it, the record is left.
RaiseError(w) ==
  /\ \/ /\ crawl[w].at \in {"seed", "crawl", "reloaded", "deciding"}
        /\ crawl' = [crawl EXCEPT ![w] = [Asleep EXCEPT !.at = "failing"]]
     \/ \E from \in {"loaded", "failed"} : End(w, from, "lost")
  /\ UNCHANGED top /\ KeepRecord /\ KeepRequests

-----------------------------------------------------------------------------
(* The endpoints.                                                          *)

KeepCrawls == UNCHANGED <<crawl, top>>

NewJob(w) == crawl[w].at = "new" /\ \A r \in Researchers : handler[r].job # w

\* start: the row is saved before the job is submitted.
Detect(r) ==
  /\ handler[r].at = "idle" /\ detection.status = "none"
  /\ \E w \in EchoJobs, n \in 1..MaxLayersTotal :
       /\ NewJob(w)
       /\ detection' = [status |-> "pending", job |-> w, layers |-> <<>>]
       /\ handler' = [handler EXCEPT ![r] = [Free EXCEPT !.at = "saved", !.job = w,
                                                         !.left = n]]
  /\ KeepCrawls /\ UNCHANGED <<halted, forced, calls, told, fresh, overlap, crossed>>

\* A job of the detection crawls, or is about to be submitted.
InFlight == \E r \in Researchers : handler[r].at = "saved"
Busy == InFlight \/ \E w \in EchoJobs : Unfinished(w)

\* The numbers of layers that the lifetime cap still allows.
Remaining(d) ==
  {n \in 1..MaxLayersTotal : \A l \in ToSet(d.layers) : l + n <= MaxLayersTotal}
MayContinue(d) == d.status \in Finals /\ Remaining(d) # {}

\* stop or continue_detection loads the record; a refusal changes nothing.
LoadFor(r, kind) ==
  /\ Call /\ handler[r].at = "idle" /\ detection.status # "none"
  /\ kind = "continue" => MayContinue(detection)
  /\ handler' = [handler EXCEPT ![r] = [Free EXCEPT !.at = "loaded", !.kind = kind,
                                                    !.copy = detection]]
  /\ fresh' = fresh \cup {r}
  /\ KeepCrawls /\ UNCHANGED <<detection, halted, forced, told, overlap, crossed>>

\* JobManager.cancel accepts a job that is pending or running.
AcceptsCancel(w) == w \in EchoJobs /\ Unfinished(w) /\ w \notin forced

CancelNamed(r) ==
  /\ handler[r].at = "loaded" /\ handler[r].kind = "stop"
  /\ LET w == handler[r].copy.job
         new == IF AcceptsCancel(w) THEN {w} ELSE {}
     IN halted' = halted \cup new /\ told' = told \cup new
  /\ handler' = [handler EXCEPT ![r].at = "asked"]
  /\ KeepCrawls /\ KeepRecord /\ UNCHANGED <<forced, calls, overlap>>

SaveStopped(r) ==
  /\ handler[r].at = "asked"
  /\ SaveRecord(r, [handler[r].copy EXCEPT !.status = "stopped"])
  /\ handler' = [handler EXCEPT ![r] = Free]
  /\ KeepCrawls /\ UNCHANGED <<halted, forced, calls, told, overlap>>

\* Mutant: the layers asked for are not cut at what the cap leaves.
Uncut(d) == 1..MaxLayersTotal
Extra(d) == Remaining(d)

SaveContinued(r) ==
  /\ handler[r].at = "loaded" /\ handler[r].kind = "continue"
  /\ \E w \in EchoJobs, extra \in Extra(handler[r].copy) :
       /\ NewJob(w)
       /\ SaveRecord(r,
            [handler[r].copy EXCEPT !.status = "running", !.job = w])
       /\ handler' = [handler EXCEPT ![r] = [Free EXCEPT !.at = "saved", !.job = w,
                                                         !.left = extra]]
  /\ overlap' = (overlap \/ Busy)
  /\ KeepCrawls /\ UNCHANGED <<halted, forced, calls, told>>

SubmitCrawl(r) ==
  /\ handler[r].at = "saved"
  /\ crawl' = [crawl EXCEPT ![handler[r].job].at = "queued",
                            ![handler[r].job].left = handler[r].left]
  /\ handler' = [handler EXCEPT ![r] = Free]
  /\ KeepRecord /\ UNCHANGED <<top, halted, forced, calls, told, overlap>>

-----------------------------------------------------------------------------
(* The job registry, other crawls, and the end of the process.             *)

\* POST /jobs/{id}/cancel.
CancelCrawl(w) ==
  /\ Call /\ AcceptsCancel(w) /\ halted' = halted \cup {w}
  /\ KeepCrawls /\ KeepRecord /\ UNCHANGED <<handler, forced, told, overlap>>

\* The watchdog or a force-kill: a queued job is gone, a thread goes
\* on (and so does one that has just left the queue: JobManager).
ForceJob(w) ==
  /\ Call /\ AcceptsCancel(w) /\ forced' = forced \cup {w}
  /\ crawl' = IF crawl[w].at = "queued"
              THEN [crawl EXCEPT ![w] = [Asleep EXCEPT !.at = "lost"]] ELSE crawl
  /\ KeepRecord /\ UNCHANGED <<handler, top, halted, told, overlap>>

\* Another crawl of the seed run, before or during this one.
OtherLayer ==
  /\ Call /\ top' = top + 1
  /\ KeepRecord /\ UNCHANGED <<crawl, handler, halted, forced, told, overlap>>

\* Nothing repairs a detection at the next start.
ProcessEnds ==
  /\ crawl' = [w \in EchoJobs |->
       IF Unfinished(w) \/ \E r \in Researchers : handler[r].job = w
       THEN [Asleep EXCEPT !.at = "lost"] ELSE crawl[w]]
  /\ Call /\ crawl' # crawl
  /\ handler' = [r \in Researchers |-> Free]
  /\ KeepRecord /\ UNCHANGED <<top, halted, forced, told, overlap>>

CrawlStep(w) ==
  \/ LoadRecord(w) \/ MarkRunning(w) \/ NoFrontier(w) \/ Anchor(w) \/ NextLayer(w)
  \/ LeaveLoop(w) \/ ScrapeLayer(w) \/ Exhaust(w) \/ ListLayers(w) \/ SaveSnapshot(w)
  \/ Decide(w) \/ SaveEnd(w) \/ SaveFailure(w) \/ RaiseError(w)
EchoNext ==
  \/ \E w \in EchoJobs : CrawlStep(w) \/ CancelCrawl(w) \/ ForceJob(w)
  \/ \E r \in Researchers :
       \/ Detect(r) \/ (\E kind \in {"stop", "continue"} : LoadFor(r, kind))
       \/ CancelNamed(r) \/ SaveStopped(r) \/ SaveContinued(r) \/ SubmitCrawl(r)
  \/ OtherLayer \/ ProcessEnds

EchoSpec == EchoInit /\ [][EchoNext]_echoVars

-----------------------------------------------------------------------------
\* A detection that reads pending or running is being crawled or submitted,
\* or a job was lost (the one it names, unless saves crossed): however stops,
\* continuations and failures cross, the last to save leaves a final status.
StatusExplained == detection.status \in {"pending", "running"} =>
  Busy \/ \E w \in EchoJobs :
            crawl[w].at = "lost" /\ (detection.job = w \/ overlap \/ crossed)

\* No continuation met a job that was not over, and no save crossed another's.
Undisturbed == ~overlap /\ ~crossed

\* The record names every job that crawls, so that a stop reaches it.
CrawlNamed == Undisturbed =>
  \A w \in EchoJobs : Unfinished(w) => detection.job = w

\* When all is quiet, a stop that was accepted has not become a verdict.
StopKept ==
  Undisturbed /\ ~Busy /\ (\A r \in Researchers : handler[r].at = "idle") =>
    (detection.job \in told => detection.status \notin {"completed", "exhausted"})

\* The timeline starts with layer 0 and ascends within the lifetime cap,
\* whatever other crawls add to the family.
TimelineSound == Undisturbed =>
  /\ Len(detection.layers) <= MaxLayersTotal + 1
  /\ \A i \in DOMAIN detection.layers :
       IF i = 1 THEN detection.layers[i] = 0
       ELSE detection.layers[i - 1] < detection.layers[i]

\* What a detection's record promises, whichever thread saves it next.
EchoSound ==
  EchoTypeOK /\ StatusExplained /\ CrawlNamed /\ StopKept /\ TimelineSound
=============================================================================
