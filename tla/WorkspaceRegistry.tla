------------------------- MODULE WorkspaceRegistry -------------------------
(***************************************************************************)
(* The registry of workspaces and the pointer to the active one             *)
(* (services/workspace_service.py): two JSON files that every request loads, *)
(* changes and saves whole, on a thread of its own and without a lock, and   *)
(* a process that may end at any point.                                     *)
(*                                                                          *)
(* A save writes the path with ".tmp" and renames it.  All writers of a file *)
(* use one such path, so files are modelled with their inodes: the second of *)
(* two writers may hold open what the first one has renamed.  Of an entry    *)
(* only the name is kept, of its database whether it has been created.       *)
(***************************************************************************)
EXTENDS Naturals, FiniteSets, Functions

CONSTANTS
  Admins,     \* request threads
  New,        \* ids that create may draw
  Names,      \* names of workspaces
  MaxCalls,   \* bound: requests begun
  MaxEnds     \* bound: how often the process ends

ASSUME RegistryAssumption ==
  /\ {"legacy", "none"} \cap New = {} /\ "main" \notin Admins
  /\ IsFiniteSet(Admins) /\ "Legacy" \in Names /\ MaxCalls \in Nat /\ MaxEnds \in Nat

VARIABLES
  inode,   \* the files there have been
  file,    \* the inode of registry.json and of active.json, 0 if missing
  tmp,     \* the inode of each one's .tmp, 0 if missing
  actor,   \* request threads, and main, which starts the server
  ready,   \* databases that have been created
  requests, ends,
  given,   \* history: what an atomic registry would hold
  overlap  \* history: files of which two changes have overlapped

regVars == <<inode, file, tmp, actor, ready, requests, ends, given, overlap>>

Paths == {"registry", "active"}
Actors == Admins \cup {"main"}
Known == New \cup {"legacy"}
Registries == UNION {[W -> Names] : W \in SUBSET Known}

\* A file's text, and what the tolerant reads of the two files make of it.
Documents == [text : {"json", "empty", "mixed"}, rows : Registries, id : Known \cup {"none"}]
Nothing(text) == [text |-> text, rows |-> [w \in {} |-> "Legacy"], id |-> "none"]
Registry(rows) == [Nothing("json") EXCEPT !.rows = rows]
Active(id) == [Nothing("json") EXCEPT !.id = id]

Waiting == [at |-> "idle", op |-> "none", id |-> "none", name |-> "Legacy",
         on |-> "registry", doc |-> Nothing("empty"), fd |-> 0]
Starting == [Waiting EXCEPT !.at = "start", !.op = "start"]

RegTypeOK ==
  /\ \A i \in DOMAIN inode : inode[i] \in Documents
  /\ file \in [Paths -> {0} \cup DOMAIN inode] /\ tmp \in [Paths -> {0} \cup DOMAIN inode]
  /\ actor \in [Actors ->
       [at : {"idle", "start", "provision", "get", "load", "open", "write", "replace"},
        op : {"none", "start", "create", "rename", "activate", "leave"},
        id : Known \cup {"none"}, name : Names, on : Paths, doc : Documents,
        fd : {0} \cup DOMAIN inode]]
  /\ ready \subseteq New /\ given \in Registries /\ overlap \subseteq Paths

\* Before the first start there are no files.
RegInit ==
  /\ inode = <<>> /\ file = [p \in Paths |-> 0] /\ tmp = [p \in Paths |-> 0]
  /\ actor = [a \in Actors |-> IF a = "main" THEN Starting ELSE Waiting]
  /\ ready = {} /\ requests = 0 /\ ends = 0 /\ given = Nothing("empty").rows /\ overlap = {}

-----------------------------------------------------------------------------
(* The files.                                                              *)

Content(p) == IF file[p] = 0 THEN Nothing("empty") ELSE inode[file[p]]
Rows == Content("registry").rows
Pointer == Content("active").id

Goto(a, at) == actor' = [actor EXCEPT ![a].at = at]
SaveTo(a, p, doc) == actor' = [actor EXCEPT ![a].at = "open", ![a].on = p, ![a].doc = doc]
Return(a) == actor' = [actor EXCEPT ![a] = Waiting]

\* Mutant: a save opens the file itself.
FileOf(p) == file[p]
TmpOf(p) == tmp[p]

\* open(tmp, "w") empties the file or creates it.
Open(a) ==
  LET p == actor[a].on
      i == IF TmpOf(p) = 0 THEN Cardinality(DOMAIN inode) + 1 ELSE TmpOf(p)
  IN /\ actor[a].at = "open"
     /\ inode' = [n \in DOMAIN inode \cup {i} |-> IF n = i THEN Nothing("empty") ELSE inode[n]]
     /\ tmp' = [tmp EXCEPT ![p] = i]
     /\ actor' = [actor EXCEPT ![a].at = "write", ![a].fd = i]
  /\ UNCHANGED <<file, ready, requests, ends, given>>

\* Over another writer's text, if that is longer its end remains.
Write(a) ==
  /\ actor[a].at = "write" /\ Goto(a, "replace")
  /\ \E doc \in {actor[a].doc} \cup
               (IF inode[actor[a].fd].text = "empty" THEN {} ELSE {Nothing("mixed")}) :
       inode' = [inode EXCEPT ![actor[a].fd] = doc]
  /\ UNCHANGED <<file, tmp, ready, requests, ends, given>>

\* What a saved registry means: the caller's own change to it.
Applied(a) ==
  CASE actor[a].op = "start" -> Restrict([w \in Known |-> "Legacy"], {"legacy"})
    [] actor[a].op \in {"create", "rename"} ->
         [w \in DOMAIN given \cup {actor[a].id} |->
            IF w = actor[a].id THEN actor[a].name ELSE given[w]]
    [] OTHER -> given

\* os.replace; it fails if another writer has renamed the file already.  The
\* first start and activate have a second file to save.
Replace(a) ==
  LET p == actor[a].on IN
  /\ actor[a].at = "replace"
  /\ IF tmp[p] = 0 THEN Return(a) /\ UNCHANGED <<file, tmp, given>>
     ELSE /\ file' = [file EXCEPT ![p] = tmp[p]] /\ tmp' = [tmp EXCEPT ![p] = 0]
          /\ given' = IF p = "registry" THEN Applied(a) ELSE given
          /\ IF actor[a].op = "activate" /\ p = "active" THEN Goto(a, "load")
             ELSE IF actor[a].op = "start" /\ p = "registry" /\ Pointer = "none"
             THEN SaveTo(a, "active", Active("legacy"))
             ELSE Return(a)
  /\ UNCHANGED <<inode, ready, requests, ends>>

-----------------------------------------------------------------------------
(* The service.                                                            *)

KeepFiles == UNCHANGED <<inode, file, tmp>>

\* bootstrap: Legacy is registered unless there is a file.
Start ==
  /\ actor["main"].at = "start"
  /\ IF file["registry"] = 0
     THEN SaveTo("main", "registry", Registry([w \in {"legacy"} |-> "Legacy"]))
     ELSE Return("main")
  /\ KeepFiles /\ UNCHANGED <<ready, requests, ends, given>>

Up == actor["main"] = Waiting
\* Mutant: the database is created after the entry.
FirstStepEntry(op) == IF op = "activate" THEN "get" ELSE "load"
FirstStep(op) ==
  CASE op = "create" -> "provision" [] op = "rename" -> "load" [] op = "activate" -> "get"

Request(a) ==
  /\ Up /\ actor[a].at = "idle" /\ requests < MaxCalls /\ requests' = requests + 1
  /\ \/ \E op \in {"create", "rename", "activate"}, name \in Names :
          \E id \in IF op = "create" THEN New \ (ready \cup {actor[b].id : b \in Admins}) ELSE Known :
            /\ op = "activate" => name = "Legacy"
            /\ actor' = [actor EXCEPT ![a] = [Waiting EXCEPT
                           !.at = FirstStep(op), !.op = op, !.id = id, !.name = name]]
     \/ actor' = [actor EXCEPT ![a] = [Waiting EXCEPT
                    !.at = "open", !.op = "leave", !.on = "active", !.doc = Active("none")]]
  /\ KeepFiles /\ UNCHANGED <<ready, ends, given>>

\* The server may refuse to create the database.
Provision(a) ==
  /\ actor[a].at = "provision"
  /\ \/ Goto(a, "load") /\ ready' = ready \cup {actor[a].id}
     \/ Return(a) /\ UNCHANGED ready
  /\ KeepFiles /\ UNCHANGED <<requests, ends, given>>

\* Mutant: any workspace may be activated.
FoundAlways(id) == TRUE
Found(id) == id \in DOMAIN Rows

Get(a) ==
  /\ actor[a].at = "get"
  /\ IF Found(actor[a].id) THEN SaveTo(a, "active", Active(actor[a].id)) ELSE Return(a)
  /\ KeepFiles /\ UNCHANGED <<ready, requests, ends, given>>

\* activate only stamps the entry, which is not kept.
Changed(a) ==
  IF actor[a].op = "activate" THEN Rows
  ELSE [w \in DOMAIN Rows \cup {actor[a].id} |->
          IF w = actor[a].id THEN actor[a].name ELSE Rows[w]]

Load(a) ==
  /\ actor[a].at = "load"
  /\ IF actor[a].op = "rename" /\ ~Found(actor[a].id) THEN Return(a)
     ELSE SaveTo(a, "registry", Registry(Changed(a)))
  /\ KeepFiles /\ UNCHANGED <<ready, requests, ends, given>>

\* The process ends, and is started again.
End ==
  /\ ends < MaxEnds /\ ends' = ends + 1
  /\ actor' = [a \in Actors |-> IF a = "main" THEN Starting ELSE Waiting]
  /\ KeepFiles /\ UNCHANGED <<ready, requests, given>>

-----------------------------------------------------------------------------
\* Who is between its load of a file and its rename.
Changing(p) == {a \in Actors : actor[a].at \in {"open", "write", "replace"} /\ actor[a].on = p}

RegNext ==
  /\ \/ Start \/ End
     \/ \E a \in Actors : Open(a) \/ Write(a) \/ Replace(a)
     \/ \E a \in Admins : Request(a) \/ Provision(a) \/ Get(a) \/ Load(a)
  /\ overlap' = overlap \cup {p \in Paths : Cardinality(Changing(p)') > 1}

RegSpec == RegInit /\ [][RegNext]_regVars

-----------------------------------------------------------------------------
\* As long as no two changes of it have overlapped, the registry is what an
\* atomic one would be, whenever the process ended: no answered create or
\* rename is lost, and no reader ever finds half a file.
AtomicUnlessOverlap ==
  /\ "registry" \notin overlap => Rows = given
  /\ \A p \in Paths \ overlap : file[p] # 0 => Content(p).text = "json"

\* Then the pointer names a registered workspace, too.
PointerRegistered == overlap = {} => Pointer \in DOMAIN Rows \cup {"none"}

\* Even otherwise, whatever is registered has its database: a lost update can
\* leave a database without a workspace, never a workspace without one.
RegisteredReady == DOMAIN Rows \subseteq ready \cup {"legacy"}

\* The registry between requests, restarts and interleaved changes.
RegistrySound == RegTypeOK /\ AtomicUnlessOverlap /\ PointerRegistered /\ RegisteredReady
=============================================================================
