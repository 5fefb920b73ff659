--------------------------- MODULE AnalysisCaches ---------------------------
(***************************************************************************)
(* The caches of the network services: who may be served what, while jobs   *)
(* write, workspaces are switched and computations take long.               *)
(*                                                                          *)
(*   graph      RecommendationGraphService._graph_cache, keyed by id(repos) *)
(*   overlap    CommenterOverlapService._overlap_cache, keyed by id(repos)  *)
(*   commenter  _COMMENTER_BUILD_CACHE, not keyed by any workspace; builds  *)
(*              of one key wait for each other                              *)
(*   analytics  _ttl_cache, keyed by id(self) of the service                *)
(*                                                                          *)
(* A behaviour is about one of them and one scope of analysis.  An address  *)
(* is free again once no request holds its object.  Entries age out and are *)
(* evicted at any time (the TTLs and the caps).  A graph is what it was     *)
(* built from: the workspace and how many batches of its rows.              *)
(***************************************************************************)
EXTENDS Naturals, Functions

CONSTANTS
  Kinds,       \* the caches, of those above
  Readers,     \* request threads
  Studies,     \* workspaces
  First,       \* the one that is active at the start
  Addresses,   \* what id(repos) may return, the first binding's 1 among them
  Slots,       \* what id(self) may return
  MaxEvents    \* bound: batches of rows written and switches, together

ASSUME CacheAssumption ==
  /\ Kinds \subseteq {"graph", "overlap", "commenter", "analytics"}
  /\ First \in Studies /\ 1 \in Addresses /\ 0 \notin Addresses \cup Slots /\ MaxEvents \in Nat

VARIABLES
  kind,     \* the cache this behaviour is about
  corpus,   \* per workspace, the batches the cache's table has
  settled,  \* history: ... those of them whose job has seen to the cache
  active,   \* active.json
  repos,    \* services["repos"]: the n-th binding, its workspace and address
  service,  \* services[name], n = 0 if there is none
  phase,    \* where sync is on the event loop
  cache,    \* address |-> the graph cached for it
  lock,     \* the readers inside the build lock
  reader,   \* the requests; home: the binding each was admitted to, if none followed
  writer    \* the job between its rows and its clear

cacheVars == <<kind, corpus, settled, active, repos, service, phase, cache, lock, reader, writer>>

Objects == [n : Nat, ws : Studies, addr : Addresses \cup Slots \cup {0}]
Graphs == [ws : Studies, batches : Nat, late : BOOLEAN]
Missing(ws) == [n |-> 0, ws |-> ws, addr |-> 0]
Away == [at |-> "idle", svc |-> Missing(First), home |-> Missing(First), base |-> 0,
         got |-> [ws |-> First, batches |-> 0, late |-> FALSE]]

CacheTypeOK ==
  /\ kind \in Kinds /\ corpus \in [Studies -> Nat]
  /\ settled \in [Studies -> Nat] /\ active \in Studies
  /\ repos \in Objects /\ service \in Objects /\ phase \in {"bound", "clear", "close"}
  /\ DOMAIN cache \subseteq Addresses \cup Slots \cup {0} /\ Range(cache) \subseteq Graphs
  /\ lock \subseteq Readers /\ writer \in {"none", "scrape", "bulk", "comments"}
  /\ reader \in [Readers ->
       [at : {"idle", "lookup", "put", "take", "check", "lock", "build", "store", "done", "failed"},
        svc : Objects, home : Objects, base : Nat, got : Graphs]]

-----------------------------------------------------------------------------
(* Objects and their addresses.                                            *)

ByRepos == kind \in {"graph", "overlap"}

\* id() of a new object, by which the cache is keyed.
InUse == {repos.addr, service.addr} \cup {reader[r].svc.addr : r \in Readers}
NewRepos == IF ByRepos THEN Addresses \ InUse ELSE {0}
NewService == IF kind = "analytics" THEN Slots \ InUse ELSE {repos.addr}

\* "network" is built with the binding, the other services when asked for.
Prepared(b) == IF kind = "graph" THEN b ELSE Missing(b.ws)

Closed(b) == b.n < (IF phase = "bound" THEN repos.n ELSE repos.n - 1)

Empty == [a \in {} |-> Away.got]

CacheInit ==
  /\ kind \in Kinds /\ corpus = [w \in Studies |-> 0] /\ settled = corpus /\ active = First
  /\ repos = [n |-> 1, ws |-> active, addr |-> IF ByRepos THEN 1 ELSE 0]
  /\ service = Prepared(repos) /\ phase = "bound"
  /\ cache = Empty /\ lock = {} /\ writer = "none"
  /\ reader = [r \in Readers |-> Away]

\* The end of a job or a switch: nothing is promised any more to the requests
\* under way, nor to who is served what they are about to store.
Passed == [r \in Readers |-> [reader[r] EXCEPT
  !.home = Away.home, !.base = 0, !.got.late = @ \/ reader[r].at = "store"]]

-----------------------------------------------------------------------------
(* Jobs and workspaces.                                                    *)

Events == repos.n - 1 + FoldFunction(+, 0, corpus)

Edges == kind \in {"graph", "analytics"}
\* Mutant: the comments of a collection clear one cache of the two.
ClearsOverlap(by) ==
  CASE by = "scrape" -> {"graph", "analytics"} [] by = "bulk" -> {"graph"}
    [] by = "comments" -> {"overlap"}
Clears(by) ==
  CASE by = "scrape" -> {"graph", "analytics"} [] by = "bulk" -> {"graph"}
    [] by = "comments" -> {"overlap", "commenter"}
Bulk == kind = "analytics" /\ writer = "bulk"

\* A scrape of one video, one of many or a layer, a collection of comments.
SaveRows(by) ==
  /\ by \in (IF Edges THEN {"scrape", "bulk"} ELSE {"comments"})
  /\ writer \in {"none", by} /\ phase = "bound" /\ active = repos.ws
  /\ Events < MaxEvents
  /\ corpus' = [corpus EXCEPT ![active] = @ + 1] /\ writer' = by
  /\ UNCHANGED <<kind, settled, active, repos, service, phase, cache, lock, reader>>

Invalidate ==
  /\ writer # "none" /\ writer' = "none"
  /\ cache' = IF kind \in Clears(writer) THEN Empty ELSE cache
  /\ IF Bulk THEN UNCHANGED <<settled, reader>> ELSE settled' = corpus /\ reader' = Passed
  /\ UNCHANGED <<kind, corpus, active, repos, service, phase, lock>>

\* A switch leaves the analytics to the end of their services.
Switched == IF kind = "analytics" THEN cache ELSE Empty

\* The guard keeps jobs and switches apart.
Activate(w) ==
  /\ writer = "none" /\ w # active /\ Events < MaxEvents /\ active' = w
  /\ cache' = Switched /\ reader' = Passed
  /\ UNCHANGED <<kind, corpus, settled, repos, service, phase, lock, writer>>

\* sync, before the next request is dispatched.
Rebind ==
  /\ phase = "bound" /\ active # repos.ws
  /\ \E a \in NewRepos : repos' = [n |-> repos.n + 1, ws |-> active, addr |-> a]
  /\ service' = Prepared(repos') /\ phase' = "clear" /\ reader' = Passed
  /\ UNCHANGED <<kind, corpus, settled, active, cache, lock, writer>>

\* Mutant: the rebuild leaves the caches to activate.
ClearNothing ==
  /\ phase = "clear" /\ phase' = "close"
  /\ UNCHANGED <<kind, corpus, settled, active, repos, service, cache, lock, reader, writer>>
ClearCaches ==
  /\ phase = "clear" /\ phase' = "close"
  /\ cache' = Switched /\ reader' = Passed
  /\ UNCHANGED <<kind, corpus, settled, active, repos, service, lock, writer>>

CloseOld ==
  /\ phase = "close" /\ phase' = "bound"
  /\ UNCHANGED <<kind, corpus, settled, active, repos, service, cache, lock, reader, writer>>

-----------------------------------------------------------------------------
(* A request.                                                              *)

Step(r, from, to) == reader[r].at = from /\ reader' = [reader EXCEPT ![r].at = to]
Rest == <<kind, corpus, settled, active, repos, phase, writer>>

\* The middleware has synced the services.
Admitted(r) ==
  /\ phase = "bound" /\ active = repos.ws /\ reader[r].at = "idle"
  /\ reader' = [reader EXCEPT ![r] = [Away EXCEPT
       !.at = "lookup", !.home = repos, !.base = settled[active]]]
  /\ UNCHANGED <<Rest, service, cache, lock>>

\* get_service: the factory reads services["repos"] ...
Lookup(r) ==
  /\ reader[r].at = "lookup"
  /\ IF service.n # 0 THEN Step(r, "lookup", "take")
     ELSE \E a \in NewService :
       reader' = [reader EXCEPT ![r].at = "put", ![r].svc = [repos EXCEPT !.addr = a]]
  /\ UNCHANGED <<Rest, service, cache, lock>>

\* ... and by now a switch may have replaced the services.
Put(r) ==
  /\ Step(r, "put", "take") /\ service' = reader[r].svc
  /\ UNCHANGED <<Rest, cache, lock>>

\* It returns what is there in the end; nothing is a KeyError.
Take(r) ==
  /\ reader[r].at = "take"
  /\ reader' = [reader EXCEPT ![r].svc = service,
                              ![r].at = IF service.n # 0 THEN "check" ELSE "failed"]
  /\ UNCHANGED <<Rest, service, cache, lock>>

\* Mutant: the caches keyed by id(repos) are keyed by nothing.
KeyNone(r) == 0
Key(r) == reader[r].svc.addr
Hit(r, release) ==
  /\ reader' = [reader EXCEPT ![r].at = "done", ![r].got = cache[Key(r)]]
  /\ lock' = lock \ release

Check(r) ==
  /\ reader[r].at = "check"
  /\ IF Key(r) \in DOMAIN cache THEN Hit(r, {})
     ELSE Step(r, "check", IF kind = "commenter" THEN "lock" ELSE "build") /\ UNCHANGED lock
  /\ UNCHANGED <<Rest, service, cache>>

\* Whoever had to wait looks again.
TakeLock(r) ==
  /\ reader[r].at = "lock" /\ lock = {}
  /\ IF Key(r) \in DOMAIN cache THEN Hit(r, {r})
     ELSE Step(r, "lock", "build") /\ lock' = {r}
  /\ UNCHANGED <<Rest, service, cache>>

\* The rows are read; a closed store raises.
Scan(r) ==
  LET w == reader[r].svc.ws IN
  /\ reader[r].at = "build"
  /\ IF Closed(reader[r].svc)
     THEN Step(r, "build", "failed") /\ lock' = lock \ {r}
     ELSE /\ reader' = [reader EXCEPT ![r].at = "store",
               ![r].got = [ws |-> w, batches |-> corpus[w],
                           late |-> reader[r].svc.n # repos.n]]
          /\ UNCHANGED lock
  /\ UNCHANGED <<Rest, service, cache>>

Store(r) ==
  /\ Step(r, "store", "done") /\ lock' = lock \ {r}
  /\ cache' = [a \in DOMAIN cache \cup {Key(r)} |->
                 IF a = Key(r) THEN reader[r].got ELSE cache[a]]
  /\ UNCHANGED <<Rest, service>>

Respond(r) ==
  /\ reader[r].at \in {"done", "failed"} /\ reader' = [reader EXCEPT ![r] = Away]
  /\ UNCHANGED <<Rest, service, cache, lock>>

\* The TTL, or the cap on the entries.
Expire(a) ==
  /\ cache' = Restrict(cache, DOMAIN cache \ {a})
  /\ UNCHANGED <<Rest, service, lock, reader>>

Serve(r) ==
  Lookup(r) \/ Put(r) \/ Take(r) \/ Check(r) \/ TakeLock(r) \/ Scan(r) \/ Store(r) \/ Respond(r)

CacheNext ==
  \/ \E by \in {"scrape", "bulk", "comments"} : SaveRows(by)
  \/ Invalidate \/ (\E w \in Studies : Activate(w)) \/ Rebind \/ ClearCaches \/ CloseOld
  \/ \E r \in Readers : Admitted(r) \/ Serve(r)
  \/ \E a \in DOMAIN cache : Expire(a)

CacheSpec == CacheInit /\ [][CacheNext]_cacheVars

-----------------------------------------------------------------------------
(* Properties.                                                             *)

\* The request met no end of a job, no step of a switch, and no service that
\* an earlier request has put there across a rebind.
Steady(r) == reader[r].home.n # 0 /\ reader[r].svc.n = reader[r].home.n
Own(r) == reader[r].got.ws = reader[r].home.ws

\* A steady request is served, of its own workspace, every batch of the jobs
\* that had ended before it (the analytics: of the scrapes that clear them),
\* unless such an end or a switch fell between the reads and the storing of
\* what it is served.  Only the analytics may serve what an earlier object at
\* the same address has left behind.
SteadySound == \A r \in Readers :
  reader[r].at = "done" /\ Steady(r) /\ ~reader[r].got.late =>
    /\ kind # "analytics" => Own(r)
    /\ Own(r) => reader[r].got.batches >= reader[r].base

\* The caches keyed by id(repos) serve a steady request its own workspace even
\* if builds have outlived switches: their objects keep their addresses.
AddressHeld == \A r \in Readers :
  ByRepos /\ reader[r].at = "done" /\ Steady(r) => Own(r)

\* A steady request does not fail.
FailureExplained == \A r \in Readers : reader[r].at = "failed" => ~Steady(r)

\* The caches between writers, switches and the requests they serve.
CachesSound == CacheTypeOK /\ SteadySound /\ AddressHeld /\ FailureExplained

\* What services/workspace_service.py:208 says of activate: a switch leaves no
\* stale entries behind, so whoever asks after it, of a service of his own
\* workspace, is served that workspace.
NoStaleEntries == \A r \in Readers : reader[r].at = "done" /\ Steady(r) => Own(r)
=============================================================================
