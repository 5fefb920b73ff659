---------------------- MODULE WorkspaceRegistryProofs ----------------------
(***************************************************************************)
(* Proofs about WorkspaceRegistry, for every finite set of request threads  *)
(* and any number of ids, names, requests and restarts.                     *)
(*                                                                          *)
(* The argument: a path of which no two changes have overlapped has one     *)
(* writer (Alone), so what that writer has open is the .tmp of the path     *)
(* (Opened), which holds its document when it is renamed (Means), and the   *)
(* document was computed from the registry that is still there.             *)
(***************************************************************************)
EXTENDS WorkspaceRegistry, FiniteSetTheorems, TLAPS

-----------------------------------------------------------------------------
(* The inductive invariant.                                                *)

ActorStates ==
  [at : {"idle", "start", "provision", "get", "load", "open", "write", "replace"},
   op : {"none", "start", "create", "rename", "activate", "leave"},
   id : Known \cup {"none"}, name : Names, on : Paths, doc : Documents,
   fd : {0} \cup DOMAIN inode]

\* The inodes are numbered from 1.
Numbered == \E n \in Nat : DOMAIN inode = 1..n

\* No inode is reached by two names.
Separate ==
  /\ \A p, q \in Paths : file[p] # 0 => file[p] # tmp[q]
  /\ \A p, q \in Paths : p # q /\ file[p] # 0 => file[p] # file[q]
  /\ \A p, q \in Paths : p # q /\ tmp[p] # 0 => tmp[p] # tmp[q]

\* What is registered anywhere has its database.
Backed(doc) == DOMAIN doc.rows \subseteq ready \cup {"legacy"}

FilesOK ==
  /\ Numbered /\ Separate /\ \A i \in DOMAIN inode : Backed(inode[i])
  /\ \A p \in Paths \ overlap : file[p] # 0 => Content(p).text = "json"
  /\ "registry" \notin overlap => Rows = given
  /\ overlap = {} => Pointer \in DOMAIN Rows \cup {"none"}

\* Where each kind of request can be.
Routed(a) ==
  /\ actor[a].at = "start" => actor[a].op = "start"
  /\ actor[a].at \in {"provision", "get", "load"} =>
       actor[a].op \in {"create", "rename", "activate"}
  /\ actor[a].op \in {"create", "rename", "activate"} => actor[a].id \in Known
  /\ actor[a].at = "provision" => actor[a].id \in New
  /\ actor[a].at = "load" /\ actor[a].op = "create" => actor[a].id \in ready

\* What a request is about to save is what is meant.
Means(a) ==
  actor[a].at \in {"open", "write", "replace"} =>
    /\ actor[a].doc.text = "json"
    /\ actor[a].on = "registry" /\ "registry" \notin overlap =>
         /\ actor[a].doc.rows = Applied(a)
         /\ actor[a].op = "start" => file["registry"] = 0
    /\ actor[a].on = "active" /\ overlap = {} =>
         actor[a].doc.id \in DOMAIN Rows \cup {"none"}

\* An open file is one of its own path, and the .tmp unless changes overlap.
Opened(a) ==
  actor[a].at \in {"write", "replace"} =>
    /\ actor[a].fd # 0
    /\ \A q \in Paths \ {actor[a].on} : actor[a].fd \notin {file[q], tmp[q]}
    /\ actor[a].on \notin overlap =>
         /\ actor[a].fd = tmp[actor[a].on]
         /\ actor[a].at = "write" => inode[actor[a].fd].text = "empty"
         /\ actor[a].at = "replace" => inode[actor[a].fd] = actor[a].doc

ActorOK(a) == Backed(actor[a].doc) /\ Routed(a) /\ Means(a) /\ Opened(a)

\* A path of which no two changes have overlapped has one writer.
Alone == \A p \in Paths \ overlap : \A a, b \in Changing(p) : a = b

RegInv == RegTypeOK /\ FilesOK /\ (\A a \in Actors : ActorOK(a)) /\ Alone

USE RegistryAssumption

\* The documents.
LEMMA DocumentFacts ==
  /\ \A text \in {"json", "empty", "mixed"} :
       /\ Nothing(text) \in Documents /\ Nothing(text).text = text
       /\ DOMAIN Nothing(text).rows = {} /\ Nothing(text).id = "none"
  /\ \A rows \in Registries :
       /\ Registry(rows) \in Documents /\ Registry(rows).text = "json"
       /\ Registry(rows).rows = rows
  /\ \A id \in Known \cup {"none"} :
       /\ Active(id) \in Documents /\ Active(id).text = "json"
       /\ DOMAIN Active(id).rows = {} /\ Active(id).id = id
<1>1. [w \in {} |-> "Legacy"] \in Registries
  <2>1. [w \in {} |-> "Legacy"] \in [{} -> Names] /\ {} \in SUBSET Known
    OBVIOUS
  <2> QED BY <2>1 DEF Registries
<1>2. ASSUME NEW text \in {"json", "empty", "mixed"}
      PROVE  /\ Nothing(text) \in Documents /\ Nothing(text).text = text
             /\ DOMAIN Nothing(text).rows = {} /\ Nothing(text).id = "none"
  BY <1>1 DEF Nothing, Documents
<1>3. ASSUME NEW rows \in Registries
      PROVE  /\ Registry(rows) \in Documents /\ Registry(rows).text = "json"
             /\ Registry(rows).rows = rows
  BY DEF Registry, Nothing, Documents
<1>4. ASSUME NEW id \in Known \cup {"none"}
      PROVE  /\ Active(id) \in Documents /\ Active(id).text = "json"
             /\ DOMAIN Active(id).rows = {} /\ Active(id).id = id
  BY <1>1 DEF Active, Nothing, Documents
<1> QED BY <1>2, <1>3, <1>4

\* A change of one entry of a registry.
LEMMA EntryFacts ==
  ASSUME NEW rows \in Registries, NEW id \in Known, NEW name \in Names
  PROVE  /\ [w \in DOMAIN rows \cup {id} |-> IF w = id THEN name ELSE rows[w]] \in Registries
         /\ DOMAIN rows \subseteq Known
<1>1. PICK W \in SUBSET Known : rows \in [W -> Names]
  BY DEF Registries
<1>2. W \cup {id} \in SUBSET Known
  BY <1>1
<1>3. [w \in W \cup {id} |-> IF w = id THEN name ELSE rows[w]] \in [W \cup {id} -> Names]
  BY <1>1
<1> QED BY <1>1, <1>2, <1>3 DEF Registries

\* The registry the first start saves.
LEMMA LegacyOnly ==
  /\ [w \in {"legacy"} |-> "Legacy"] \in Registries
  /\ Restrict([w \in Known |-> "Legacy"], {"legacy"}) = [w \in {"legacy"} |-> "Legacy"]
<1>1. "legacy" \in Known /\ {"legacy"} \in SUBSET Known
  BY DEF Known
<1>2. [w \in {"legacy"} |-> "Legacy"] \in [{"legacy"} -> Names]
  OBVIOUS
<1> QED BY <1>1, <1>2 DEF Registries, Restrict

\* The initial records of the threads.
LEMMA IdleFacts ==
  /\ Waiting \in ActorStates /\ Starting \in ActorStates
  /\ Waiting.at = "idle" /\ Waiting.op = "none" /\ Starting.at = "start" /\ Starting.op = "start"
  /\ DOMAIN Waiting.doc.rows = {} /\ DOMAIN Starting.doc.rows = {}
BY DocumentFacts DEF Waiting, Starting, ActorStates, Paths

\* Two changes of a path that has not been overlapped would be counted.
LEMMA AloneHolds ==
  ASSUME overlap' = overlap \cup {p \in Paths : Cardinality(Changing(p)') > 1}
  PROVE  Alone' /\ overlap \subseteq overlap'
<1> SUFFICES ASSUME NEW p \in Paths \ overlap', NEW a \in Changing(p)', NEW b \in Changing(p)',
                    a # b
             PROVE  FALSE
  BY DEF Alone
<1>1. IsFiniteSet(Actors)
  BY FS_AddElement DEF Actors
<1>2. IsFiniteSet(Changing(p)') /\ Cardinality(Changing(p)') \in Nat
  BY <1>1, FS_Subset, FS_CardinalityType DEF Changing
<1>3. {a, b} \subseteq Changing(p)' /\ IsFiniteSet({a, b}) /\ Cardinality({a, b}) = 2
  <2>1. IsFiniteSet({a}) /\ Cardinality({a}) = 1 /\ b \notin {a} /\ {a, b} = {a} \cup {b}
    BY FS_Singleton
  <2>2. IsFiniteSet({a} \cup {b}) /\ Cardinality({a} \cup {b}) = 1 + 1
    BY <2>1, FS_AddElement
  <2> QED BY <2>1, <2>2
<1>4. Cardinality(Changing(p)') >= 2
  BY <1>2, <1>3, FS_Subset
<1> QED BY <1>2, <1>4

\* Nothing is saved before the first start.
LEMMA RegInitInv == RegInit => RegInv
<1> SUFFICES ASSUME RegInit PROVE RegInv
  OBVIOUS
<1>1. DOMAIN inode = {} /\ \A p \in Paths : file[p] = 0 /\ tmp[p] = 0
  BY DEF RegInit
<1>2. \A a \in Actors : actor[a] \in {Waiting, Starting}
  BY DEF RegInit
<1>3. RegTypeOK
  <2>1. actor \in [Actors -> ActorStates]
    BY IdleFacts DEF RegInit
  <2>2. given \in Registries
    BY DocumentFacts DEF RegInit, Documents
  <2> QED BY <1>1, <2>1, <2>2 DEF RegInit, RegTypeOK, ActorStates
<1>4. FilesOK
  <2>1. Numbered
    <3>1. DOMAIN inode = 1..0
      BY <1>1
    <3> QED BY <3>1 DEF Numbered
  <2>2. Rows = given /\ Pointer = "none"
    BY <1>1, DocumentFacts DEF RegInit, Rows, Pointer, Content, Paths
  <2> QED BY <1>1, <2>1, <2>2 DEF FilesOK, Separate
<1>5. \A a \in Actors : ActorOK(a)
  BY <1>2, IdleFacts DEF ActorOK, Backed, Routed, Means, Opened
<1>6. Alone
  BY <1>2, IdleFacts DEF Alone, Changing
<1> QED BY <1>3, <1>4, <1>5, <1>6 DEF RegInv

\* A step of one thread that leaves the files alone.
LEMMA KeepFrame ==
  ASSUME RegInv, KeepFiles, UNCHANGED given, ready \subseteq ready', ready' \subseteq New,
         overlap \subseteq overlap', overlap' \subseteq Paths, Alone',
         NEW a \in Actors, actor'[a] \in ActorStates,
         \A b \in Actors \ {a} : actor'[b] = actor[b],
         actor' = [b \in Actors |-> actor'[b]],
         ActorOK(a)'
  PROVE  RegInv'
<1> USE DEF KeepFiles
<1>1. actor' \in [Actors -> ActorStates]
  BY DEF RegInv, RegTypeOK, ActorStates
<1>2. RegTypeOK'
  BY <1>1 DEF RegInv, RegTypeOK, ActorStates
<1>3. \A p \in Paths : Content(p)' = Content(p)
  BY DEF Content
<1>4. Rows' = Rows /\ Pointer' = Pointer
  BY <1>3 DEF Rows, Pointer, Paths
<1>5. FilesOK'
  BY <1>3, <1>4 DEF RegInv, FilesOK, Numbered, Separate, Backed
<1>6. ASSUME NEW b \in Actors \ {a} PROVE ActorOK(b)'
  <2>1. ActorOK(b) /\ actor'[b] = actor[b]
    BY DEF RegInv
  <2>2. Applied(b)' = Applied(b)
    BY <2>1 DEF Applied
  <2> QED BY <1>4, <2>1, <2>2 DEF ActorOK, Backed, Routed, Means, Opened
<1> QED BY <1>2, <1>5, <1>6 DEF RegInv

\* What the helpers do to a thread.
LEMMA GotoFacts ==
  ASSUME actor \in [Actors -> ActorStates], NEW a \in Actors,
         NEW at \in {"load", "replace"}, Goto(a, at)
  PROVE  /\ actor'[a] = [at |-> at, op |-> actor[a].op, id |-> actor[a].id,
                         name |-> actor[a].name, on |-> actor[a].on, doc |-> actor[a].doc,
                         fd |-> actor[a].fd]
         /\ \A b \in Actors \ {a} : actor'[b] = actor[b]
         /\ actor' = [b \in Actors |-> actor'[b]]
BY DEF Goto, ActorStates

\* A thread that begins to save a file.
LEMMA SaveToFacts ==
  ASSUME actor \in [Actors -> ActorStates], NEW a \in Actors, NEW p \in Paths,
         NEW doc \in Documents, SaveTo(a, p, doc)
  PROVE  /\ actor'[a] = [at |-> "open", op |-> actor[a].op, id |-> actor[a].id,
                         name |-> actor[a].name, on |-> p, doc |-> doc, fd |-> actor[a].fd]
         /\ \A b \in Actors \ {a} : actor'[b] = actor[b]
         /\ actor' = [b \in Actors |-> actor'[b]]
BY DEF SaveTo, ActorStates

\* A thread whose request is over.
LEMMA ReturnFacts ==
  ASSUME actor \in [Actors -> ActorStates], NEW a \in Actors, Return(a)
  PROVE  /\ actor'[a] = Waiting
         /\ \A b \in Actors \ {a} : actor'[b] = actor[b]
         /\ actor' = [b \in Actors |-> actor'[b]]
         /\ ActorOK(a)'
<1>1. /\ actor'[a] = Waiting
      /\ \A b \in Actors \ {a} : actor'[b] = actor[b]
      /\ actor' = [b \in Actors |-> actor'[b]]
  BY DEF Return
<1> QED BY <1>1, IdleFacts DEF ActorOK, Backed, Routed, Means, Opened

\* A request is over.
LEMMA ReturnInv ==
  ASSUME RegInv, KeepFiles, UNCHANGED given, ready' = ready,
         overlap \subseteq overlap', overlap' \subseteq Paths, Alone',
         NEW a \in Actors, Return(a)
  PROVE  RegInv'
<1>1. actor \in [Actors -> ActorStates] /\ ready \subseteq New
  BY DEF RegInv, RegTypeOK, ActorStates
<1>2. /\ actor'[a] = Waiting /\ \A b \in Actors \ {a} : actor'[b] = actor[b]
      /\ actor' = [b \in Actors |-> actor'[b]] /\ ActorOK(a)'
  BY <1>1, ReturnFacts
<1> QED BY <1>1, <1>2, IdleFacts, KeepFrame

\* A request begins to save the registry or the pointer.
LEMMA SaveToInv ==
  ASSUME RegInv, KeepFiles, UNCHANGED given, ready' = ready,
         overlap \subseteq overlap', overlap' \subseteq Paths, Alone',
         NEW a \in Actors, NEW p \in Paths, NEW doc \in Documents, SaveTo(a, p, doc),
         Backed(doc), doc.text = "json",
         p = "registry" /\ "registry" \notin overlap =>
           doc.rows = Applied(a) /\ (actor[a].op = "start" => file["registry"] = 0),
         p = "active" /\ overlap = {} => doc.id \in DOMAIN Rows \cup {"none"}
  PROVE  RegInv'
<1>1. actor \in [Actors -> ActorStates] /\ ready \subseteq New /\ ActorOK(a)
  BY DEF RegInv, RegTypeOK, ActorStates
<1>2. /\ actor'[a] = [at |-> "open", op |-> actor[a].op, id |-> actor[a].id,
                      name |-> actor[a].name, on |-> p, doc |-> doc, fd |-> actor[a].fd]
      /\ \A b \in Actors \ {a} : actor'[b] = actor[b]
      /\ actor' = [b \in Actors |-> actor'[b]]
  BY <1>1, SaveToFacts
<1>3. actor'[a] \in ActorStates'
  BY <1>1, <1>2 DEF KeepFiles, ActorStates
<1>4. Applied(a)' = Applied(a) /\ Rows' = Rows
  BY <1>2 DEF Applied, KeepFiles, Rows, Content, Paths
<1>5. ActorOK(a)'
  <2>1. Backed(actor[a].doc)' /\ Routed(a)' /\ Opened(a)'
    BY <1>1, <1>2 DEF ActorOK, Backed, Routed, Opened
  <2>2. Means(a)'
    BY <1>2, <1>4 DEF Means, KeepFiles
  <2> QED BY <2>1, <2>2 DEF ActorOK
<1> QED BY <1>1, <1>2, <1>3, <1>5, KeepFrame DEF KeepFiles, ActorStates

\* The first start finds no registry and saves one with Legacy.
LEMMA StartInv ==
  ASSUME RegInv, Start, overlap \subseteq overlap', overlap' \subseteq Paths, Alone'
  PROVE  RegInv'
<1>0. "main" \in Actors /\ KeepFiles /\ UNCHANGED <<ready, given>>
  BY DEF Start, Actors
<1>1. CASE file["registry"] = 0
  <2> DEFINE doc == Registry([w \in {"legacy"} |-> "Legacy"])
  <2>1. SaveTo("main", "registry", doc)
    BY <1>1 DEF Start
  <2>2. doc \in Documents /\ doc.text = "json" /\ doc.rows = [w \in {"legacy"} |-> "Legacy"]
    BY DocumentFacts, LegacyOnly
  <2> HIDE DEF doc
  <2>3. Backed(doc)
    BY <2>2 DEF Backed
  <2>4. actor["main"].op = "start" => doc.rows = Applied("main")
    BY <2>2, LegacyOnly DEF Applied
  <2>5. actor["main"].op = "start"
    BY <1>0 DEF Start, RegInv, ActorOK, Routed
  <2> QED BY <1>0, <1>1, <2>1, <2>2, <2>3, <2>4, <2>5, SaveToInv DEF Paths
<1>2. CASE file["registry"] # 0
  <2>1. Return("main")
    BY <1>2 DEF Start
  <2> QED BY <1>0, <2>1, ReturnInv
<1> QED BY <1>1, <1>2

\* The process ends: only the files are left.
LEMMA EndInv ==
  ASSUME RegInv, End, overlap \subseteq overlap', overlap' \subseteq Paths, Alone'
  PROVE  RegInv'
<1> USE DEF KeepFiles
<1>1. /\ KeepFiles /\ UNCHANGED <<ready, given>>
      /\ actor' = [a \in Actors |-> IF a = "main" THEN Starting ELSE Waiting]
  BY DEF End
<1>2. RegTypeOK'
  <2>1. actor' \in [Actors -> ActorStates]
    BY <1>1, IdleFacts
  <2> QED BY <1>1, <2>1 DEF RegInv, RegTypeOK, ActorStates
<1>3. \A p \in Paths : Content(p)' = Content(p)
  BY <1>1 DEF Content
<1>4. FilesOK'
  BY <1>1, <1>3 DEF RegInv, FilesOK, Numbered, Separate, Backed, Rows, Pointer, Paths
<1>5. \A a \in Actors : actor'[a] \in {Waiting, Starting}
  BY <1>1
<1>6. \A a \in Actors : ActorOK(a)'
  BY <1>5, IdleFacts DEF ActorOK, Backed, Routed, Means, Opened
<1> QED BY <1>2, <1>4, <1>6 DEF RegInv

\* A request arrives.
LEMMA RequestInv ==
  ASSUME RegInv, NEW a \in Admins, Request(a), overlap \subseteq overlap',
         overlap' \subseteq Paths, Alone'
  PROVE  RegInv'
<1>0. /\ KeepFiles /\ UNCHANGED <<ready, given>> /\ a \in Actors /\ ready \subseteq New
      /\ actor \in [Actors -> ActorStates]
  BY DEF Request, Actors, RegInv, RegTypeOK, ActorStates
<1>1. CASE \E op \in {"create", "rename", "activate"}, name \in Names :
             \E id \in IF op = "create" THEN New \ (ready \cup {actor[b].id : b \in Admins})
                      ELSE Known :
               actor' = [actor EXCEPT ![a] = [Waiting EXCEPT
                           !.at = FirstStep(op), !.op = op, !.id = id, !.name = name]]
  <2>1. PICK op \in {"create", "rename", "activate"}, name \in Names :
          \E id \in IF op = "create" THEN New \ (ready \cup {actor[b].id : b \in Admins})
                   ELSE Known :
            actor' = [actor EXCEPT ![a] = [Waiting EXCEPT
                        !.at = FirstStep(op), !.op = op, !.id = id, !.name = name]]
    BY <1>1
  <2>2. PICK id \in Known :
          /\ op = "create" => id \in New
          /\ actor' = [actor EXCEPT ![a] = [Waiting EXCEPT
                        !.at = FirstStep(op), !.op = op, !.id = id, !.name = name]]
    BY <2>1 DEF Known
  <2> DEFINE new == [at |-> FirstStep(op), op |-> op, id |-> id, name |-> name,
                     on |-> "registry", doc |-> Nothing("empty"), fd |-> 0]
  <2>3. /\ actor'[a] = new /\ \A b \in Actors \ {a} : actor'[b] = actor[b]
        /\ actor' = [b \in Actors |-> actor'[b]]
    BY <1>0, <2>2 DEF Waiting
  <2>4. /\ op = "create" => FirstStep(op) = "provision"
        /\ op = "rename" => FirstStep(op) = "load"
        /\ op = "activate" => FirstStep(op) = "get"
    BY DEF FirstStep
  <2>5. new \in ActorStates
    BY <2>4, DocumentFacts DEF ActorStates, Paths
  <2>6. ActorOK(a)'
    <3>1. /\ actor'[a].at \in {"provision", "load", "get"} /\ actor'[a].op = op
          /\ actor'[a].id = id /\ (actor'[a].at = "provision" => op = "create")
          /\ (op = "create" => actor'[a].at = "provision")
          /\ actor'[a].doc = Nothing("empty")
      BY <2>3, <2>4
    <3>2. Backed(actor[a].doc)'
      BY <3>1, DocumentFacts DEF Backed
    <3>3. Routed(a)'
      BY <2>2, <3>1 DEF Routed
    <3> QED BY <3>1, <3>2, <3>3 DEF ActorOK, Means, Opened
  <2> QED BY <1>0, <2>3, <2>5, <2>6, KeepFrame
<1>2. CASE actor' = [actor EXCEPT ![a] = [Waiting EXCEPT
                    !.at = "open", !.op = "leave", !.on = "active", !.doc = Active("none")]]
  <2> DEFINE new == [at |-> "open", op |-> "leave", id |-> "none", name |-> "Legacy",
                     on |-> "active", doc |-> Active("none"), fd |-> 0]
  <2>1. /\ actor'[a] = new /\ \A b \in Actors \ {a} : actor'[b] = actor[b]
        /\ actor' = [b \in Actors |-> actor'[b]]
    BY <1>0, <1>2 DEF Waiting
  <2>2. new \in ActorStates
    BY DocumentFacts DEF ActorStates, Paths
  <2>3. ActorOK(a)'
    BY <2>1, DocumentFacts DEF ActorOK, Backed, Routed, Means, Opened
  <2> QED BY <1>0, <2>1, <2>2, <2>3, KeepFrame
<1> QED BY <1>1, <1>2 DEF Request

\* The database of a new workspace is created before its entry.
LEMMA ProvisionInv ==
  ASSUME RegInv, NEW a \in Admins, Provision(a), overlap \subseteq overlap',
         overlap' \subseteq Paths, Alone'
  PROVE  RegInv'
<1>0. /\ KeepFiles /\ UNCHANGED given /\ a \in Actors /\ ready \subseteq New
      /\ actor \in [Actors -> ActorStates] /\ ActorOK(a) /\ actor[a].at = "provision"
  BY DEF Provision, Actors, RegInv, RegTypeOK, ActorStates
<1>1. CASE Return(a) /\ UNCHANGED ready
  BY <1>0, <1>1, ReturnInv
<1>2. CASE Goto(a, "load") /\ ready' = ready \cup {actor[a].id}
  <2>1. /\ actor'[a] = [at |-> "load", op |-> actor[a].op, id |-> actor[a].id,
                        name |-> actor[a].name, on |-> actor[a].on, doc |-> actor[a].doc,
                        fd |-> actor[a].fd]
        /\ \A b \in Actors \ {a} : actor'[b] = actor[b]
        /\ actor' = [b \in Actors |-> actor'[b]]
    BY <1>0, <1>2, GotoFacts
  <2>2. actor'[a] \in ActorStates
    BY <1>0, <2>1 DEF ActorStates
  <2>3. ready \subseteq ready' /\ ready' \subseteq New
    BY <1>0, <1>2 DEF ActorOK, Routed
  <2>4. ActorOK(a)'
    BY <1>0, <1>2, <2>1 DEF ActorOK, Backed, Routed, Means, Opened
  <2> QED BY <1>0, <2>1, <2>2, <2>3, <2>4, KeepFrame
<1> QED BY <1>1, <1>2 DEF Provision

\* Only what is registered is made active.
LEMMA GetInv ==
  ASSUME RegInv, NEW a \in Admins, Get(a), overlap \subseteq overlap',
         overlap' \subseteq Paths, Alone'
  PROVE  RegInv'
<1>0. /\ KeepFiles /\ UNCHANGED <<ready, given>> /\ a \in Actors /\ ActorOK(a)
      /\ actor[a].at = "get"
  BY DEF Get, Actors, RegInv
<1>1. CASE Found(actor[a].id)
  <2> DEFINE doc == Active(actor[a].id)
  <2>1. SaveTo(a, "active", doc)
    BY <1>1 DEF Get
  <2>2. actor[a].id \in Known
    BY <1>0 DEF ActorOK, Routed
  <2>3. /\ doc \in Documents /\ doc.text = "json" /\ DOMAIN doc.rows = {}
        /\ doc.id = actor[a].id
    BY <2>2, DocumentFacts
  <2> HIDE DEF doc
  <2> QED BY <1>0, <1>1, <2>1, <2>3, SaveToInv DEF Found, Backed, Paths
<1>2. CASE ~Found(actor[a].id)
  <2>1. Return(a)
    BY <1>2 DEF Get
  <2> QED BY <1>0, <2>1, ReturnInv
<1> QED BY <1>1, <1>2

\* The registry is read and changed.
LEMMA LoadInv ==
  ASSUME RegInv, NEW a \in Admins, Load(a), overlap \subseteq overlap',
         overlap' \subseteq Paths, Alone'
  PROVE  RegInv'
<1>0. /\ KeepFiles /\ UNCHANGED <<ready, given>> /\ a \in Actors /\ ActorOK(a)
      /\ actor[a].at = "load" /\ actor[a] \in ActorStates
  BY DEF Load, Actors, RegInv, RegTypeOK, ActorStates
<1>1. CASE actor[a].op = "rename" /\ ~Found(actor[a].id)
  <2>1. Return(a)
    BY <1>1 DEF Load
  <2> QED BY <1>0, <2>1, ReturnInv
<1>2. CASE ~(actor[a].op = "rename" /\ ~Found(actor[a].id))
  <2> DEFINE doc == Registry(Changed(a))
  <2>1. SaveTo(a, "registry", doc)
    BY <1>2 DEF Load
  <2>2. Rows \in Registries /\ DOMAIN Rows \subseteq ready \cup {"legacy"}
    <3>1. Content("registry") \in Documents /\ Backed(Content("registry"))
      <4>1. CASE file["registry"] = 0
        BY <4>1, DocumentFacts DEF Content, Backed
      <4>2. CASE file["registry"] # 0
        <5>1. file["registry"] \in DOMAIN inode
          BY <4>2 DEF RegInv, RegTypeOK, Paths
        <5> QED BY <4>2, <5>1 DEF Content, RegInv, RegTypeOK, FilesOK
      <4> QED BY <4>1, <4>2
    <3> QED BY <3>1 DEF Rows, Documents, Backed
  <2>3. /\ actor[a].op \in {"create", "rename", "activate"} /\ actor[a].id \in Known
        /\ actor[a].name \in Names
    BY <1>0 DEF ActorOK, Routed, ActorStates
  <2>4. Changed(a) \in Registries
    BY <2>2, <2>3, EntryFacts DEF Changed
  <2>5. doc \in Documents /\ doc.text = "json" /\ doc.rows = Changed(a)
    BY <2>4, DocumentFacts
  <2> HIDE DEF doc
  <2>6. DOMAIN Changed(a) \subseteq ready \cup {"legacy"}
    <3>1. CASE actor[a].op = "activate"
      BY <2>2, <3>1 DEF Changed
    <3>2. CASE actor[a].op # "activate"
      <4>1. actor[a].id \in ready \cup {"legacy"}
        BY <1>0, <1>2, <2>2, <2>3, <3>2 DEF Found, ActorOK, Routed
      <4> QED BY <2>2, <3>2, <4>1 DEF Changed
    <3> QED BY <3>1, <3>2
  <2>7. "registry" \notin overlap => doc.rows = Applied(a)
    <3>1. "registry" \notin overlap => Rows = given
      BY DEF RegInv, FilesOK
    <3> QED BY <2>3, <2>5, <3>1 DEF Changed, Applied
  <2> QED BY <1>0, <2>1, <2>3, <2>5, <2>6, <2>7, SaveToInv DEF Backed, Paths
<1> QED BY <1>1, <1>2

\* A .tmp is emptied or made: it is nobody's file.
LEMMA OpenInv ==
  ASSUME RegInv, NEW a \in Actors, Open(a), overlap \subseteq overlap',
         overlap' \subseteq Paths, Alone'
  PROVE  RegInv'
<1>p. PICK p \in Paths : actor[a].on = p
  BY DEF RegInv, RegTypeOK
<1> USE <1>p
<1> DEFINE i == IF tmp[p] = 0 THEN Cardinality(DOMAIN inode) + 1 ELSE tmp[p]
<1>0. /\ RegTypeOK /\ FilesOK /\ ActorOK(a) /\ actor[a] \in ActorStates /\ p \in Paths
      /\ actor \in [Actors -> ActorStates]
  BY DEF RegInv, RegTypeOK, ActorStates
<1>1. /\ actor[a].at = "open"
      /\ inode' = [n \in DOMAIN inode \cup {i} |-> IF n = i THEN Nothing("empty") ELSE inode[n]]
      /\ tmp' = [tmp EXCEPT ![p] = i]
      /\ actor' = [actor EXCEPT ![a].at = "write", ![a].fd = i]
      /\ UNCHANGED <<file, ready, requests, ends, given>>
  BY DEF Open, TmpOf
<1>2. PICK n \in Nat : DOMAIN inode = 1..n
  BY <1>0 DEF FilesOK, Numbered
<1>3. /\ tmp[p] = 0 => i = n + 1
      /\ tmp[p] # 0 => i = tmp[p] /\ i \in DOMAIN inode
  <2>1. Cardinality(1..n) = n
    BY FS_Interval
  <2> QED BY <1>0, <1>2, <2>1 DEF RegTypeOK
<1>4. /\ i # 0 /\ (tmp[p] = 0 => i \notin DOMAIN inode)
      /\ \E m \in Nat : DOMAIN inode \cup {i} = 1..m
  <2>1. CASE tmp[p] = 0
    <3>1. DOMAIN inode \cup {i} = 1..(n + 1)
      BY <1>2, <1>3, <2>1
    <3> QED BY <1>2, <1>3, <2>1, <3>1
  <2>2. CASE tmp[p] # 0
    <3>1. DOMAIN inode \cup {i} = 1..n
      BY <1>2, <1>3, <2>2
    <3> QED BY <1>2, <1>3, <2>2, <3>1
  <2> QED BY <2>1, <2>2
<1> HIDE DEF i
<1>5. /\ DOMAIN inode' = DOMAIN inode \cup {i} /\ inode'[i] = Nothing("empty")
      /\ \A m \in DOMAIN inode \ {i} : inode'[m] = inode[m]
      /\ tmp'[p] = i /\ \A q \in Paths \ {p} : tmp'[q] = tmp[q]
      /\ tmp' = [q \in Paths |-> tmp'[q]]
  BY <1>0, <1>1 DEF RegTypeOK
<1>6. /\ actor'[a] = [at |-> "write", op |-> actor[a].op, id |-> actor[a].id,
                      name |-> actor[a].name, on |-> actor[a].on, doc |-> actor[a].doc,
                      fd |-> i]
      /\ \A b \in Actors \ {a} : actor'[b] = actor[b]
      /\ actor' = [b \in Actors |-> actor'[b]]
  BY <1>0, <1>1 DEF ActorStates
<1>u. UNCHANGED <<file, ready, given>>
  BY <1>1
<1>7. RegTypeOK'
  <2>1. \A m \in DOMAIN inode' : inode'[m] \in Documents
    BY <1>0, <1>5, DocumentFacts DEF RegTypeOK
  <2>2. actor' \in [Actors -> ActorStates']
    <3>1. actor'[a] \in ActorStates'
      BY <1>0, <1>5, <1>6 DEF ActorStates
    <3>2. \A b \in Actors \ {a} : actor'[b] \in ActorStates'
      BY <1>0, <1>5, <1>6 DEF ActorStates
    <3> QED BY <1>6, <3>1, <3>2
  <2>3. file' \in [Paths -> {0} \cup DOMAIN inode'] /\ tmp' \in [Paths -> {0} \cup DOMAIN inode']
    BY <1>0, <1>1, <1>5 DEF RegTypeOK
  <2> QED BY <1>0, <1>1, <2>1, <2>2, <2>3 DEF RegTypeOK, ActorStates
<1>8. \A q, r \in Paths : file[q] # 0 => file[q] # i /\ file[q] \in DOMAIN inode
  <2>1. \A q \in Paths : file[q] # 0 => file[q] \in DOMAIN inode
    BY <1>0 DEF RegTypeOK
  <2> QED BY <1>0, <1>3, <1>4, <2>1 DEF FilesOK, Separate
<1>9. \A q \in Paths : Content(q)' = Content(q)
  BY <1>1, <1>5, <1>8 DEF Content
<1>10. Rows' = Rows /\ Pointer' = Pointer
  BY <1>9 DEF Rows, Pointer, Paths
<1>11. \A q \in Paths \ {p} : tmp[q] # i
  BY <1>0, <1>3, <1>4 DEF FilesOK, Separate, RegTypeOK
<1>12. FilesOK'
  <2>1. Numbered'
    BY <1>4, <1>5 DEF Numbered
  <2>2. Separate'
    BY <1>0, <1>1, <1>5, <1>8, <1>11 DEF FilesOK, Separate
  <2>3. \A m \in DOMAIN inode' : Backed(inode'[m])
    BY <1>0, <1>5, DocumentFacts DEF FilesOK, Backed
  <2> QED BY <1>0, <1>1, <1>9, <1>10, <2>1, <2>2, <2>3 DEF FilesOK, Backed
<1>13. ActorOK(a)'
  <2>1. Applied(a)' = Applied(a)
    BY <1>u, <1>6 DEF Applied
  <2>2. Backed(actor[a].doc)' /\ Routed(a)'
    BY <1>0, <1>u, <1>6 DEF ActorOK, Backed, Routed
  <2>3. Means(a)'
    BY <1>0, <1>1, <1>6, <1>10, <2>1 DEF ActorOK, Means
  <2>4. Opened(a)'
    <3>1. actor'[a].fd = i /\ actor'[a].on = p /\ actor'[a].at = "write"
      BY <1>6
    <3>2. \A q \in Paths \ {p} : i \notin {file'[q], tmp'[q]}
      BY <1>u, <1>4, <1>5, <1>8, <1>11
    <3>3. inode'[i].text = "empty" /\ tmp'[p] = i
      BY <1>5, DocumentFacts
    <3> QED BY <1>4, <3>1, <3>2, <3>3 DEF Opened
  <2> QED BY <2>2, <2>3, <2>4 DEF ActorOK
<1>14. ASSUME NEW b \in Actors \ {a} PROVE ActorOK(b)'
  <2>0. ActorOK(b) /\ actor'[b] = actor[b] /\ actor[b] \in ActorStates
    BY <1>0, <1>6 DEF RegInv
  <2>1. Applied(b)' = Applied(b)
    BY <1>u, <2>0 DEF Applied
  <2>2. Backed(actor[b].doc)' /\ Routed(b)'
    BY <1>u, <2>0 DEF ActorOK, Backed, Routed
  <2>3. Means(b)'
    BY <1>1, <1>10, <2>0, <2>1 DEF ActorOK, Means
  <2>4. Opened(b)'
    <3> SUFFICES ASSUME actor[b].at \in {"write", "replace"} PROVE Opened(b)'
      BY <2>0 DEF Opened
    <3>1. /\ actor[b].fd # 0 /\ actor[b].fd \in DOMAIN inode
          /\ \A q \in Paths \ {actor[b].on} : actor[b].fd \notin {file[q], tmp[q]}
      BY <2>0 DEF ActorOK, Opened, ActorStates
    <3>2. \A q \in Paths \ {actor[b].on} : actor'[b].fd \notin {file'[q], tmp'[q]}
      BY <1>1, <1>3, <1>4, <1>5, <2>0, <3>1
    <3>3. ASSUME actor[b].on \notin overlap'
          PROVE  actor[b].on # p /\ actor[b].fd = tmp[actor[b].on] /\ actor[b].fd # i
      <4>1. actor[b].on \in Paths
        BY <2>0 DEF ActorStates
      <4>2. actor[b].on # p
        <5> SUFFICES ASSUME actor[b].on = p PROVE FALSE
          OBVIOUS
        <5>1. actor'[a].at = "write" /\ actor'[a].on = p /\ actor'[b] = actor[b]
          BY <1>6, <2>0
        <5>2. a \in Actors /\ b \in Actors /\ a # b /\ actor[b].at \in {"write", "replace"}
          BY <1>0
        <5>3. p \in Paths \ overlap'
          BY <3>3, <4>1
        <5>4. a \in Changing(p)' /\ b \in Changing(p)'
          BY <5>1, <5>2 DEF Changing
        <5> QED BY <5>2, <5>3, <5>4 DEF Alone
      <4>3. actor[b].fd = tmp[actor[b].on]
        BY <2>0, <3>3 DEF ActorOK, Opened
      <4> QED BY <1>11, <4>1, <4>2, <4>3
    <3> QED BY <1>5, <2>0, <3>1, <3>2, <3>3 DEF ActorOK, Opened, ActorStates
  <2> QED BY <2>2, <2>3, <2>4 DEF ActorOK
<1> QED BY <1>7, <1>12, <1>13, <1>14 DEF RegInv

\* A text is written to the file that is open.
LEMMA WriteInv ==
  ASSUME RegInv, NEW a \in Actors, Write(a), overlap \subseteq overlap',
         overlap' \subseteq Paths, Alone'
  PROVE  RegInv'
<1>p. PICK p \in Paths : actor[a].on = p
  BY DEF RegInv, RegTypeOK
<1> USE <1>p
<1> DEFINE i == actor[a].fd
<1>0. /\ RegTypeOK /\ FilesOK /\ ActorOK(a) /\ actor[a] \in ActorStates /\ p \in Paths
      /\ actor \in [Actors -> ActorStates]
  BY DEF RegInv, RegTypeOK, ActorStates
<1>1. /\ actor[a].at = "write" /\ Goto(a, "replace")
      /\ UNCHANGED <<file, tmp, ready, requests, ends, given>>
  BY DEF Write
<1>2. PICK doc \in {actor[a].doc} \cup
                 (IF inode[i].text = "empty" THEN {} ELSE {Nothing("mixed")}) :
        inode' = [inode EXCEPT ![i] = doc]
  BY DEF Write
<1>3. i # 0 /\ i \in DOMAIN inode /\ \A q \in Paths \ {p} : i \notin {file[q], tmp[q]}
  BY <1>0, <1>1 DEF ActorOK, Opened, ActorStates
<1>4. doc \in Documents /\ Backed(doc)
  BY <1>0, DocumentFacts DEF ActorStates, ActorOK, Backed
<1>5. DOMAIN inode' = DOMAIN inode /\ inode'[i] = doc
      /\ \A m \in DOMAIN inode \ {i} : inode'[m] = inode[m]
  BY <1>2, <1>3
<1>6. p \notin overlap => i = tmp[p] /\ i # file[p] /\ doc = actor[a].doc
  <2> SUFFICES ASSUME p \notin overlap PROVE i = tmp[p] /\ i # file[p] /\ doc = actor[a].doc
    OBVIOUS
  <2>1. i = tmp[p] /\ inode[i].text = "empty"
    BY <1>0, <1>1 DEF ActorOK, Opened
  <2>2. i # file[p]
    BY <1>0, <1>3, <2>1 DEF FilesOK, Separate
  <2> QED BY <1>2, <2>1, <2>2
<1>7. /\ actor'[a] = [at |-> "replace", op |-> actor[a].op, id |-> actor[a].id,
                      name |-> actor[a].name, on |-> actor[a].on, doc |-> actor[a].doc,
                      fd |-> actor[a].fd]
      /\ \A b \in Actors \ {a} : actor'[b] = actor[b]
      /\ actor' = [b \in Actors |-> actor'[b]]
  BY <1>0, <1>1, GotoFacts
<1>u. UNCHANGED <<file, tmp, ready, given>>
  BY <1>1
<1>8. \A q \in Paths \ overlap : Content(q)' = Content(q)
  <2> SUFFICES ASSUME NEW q \in Paths \ overlap, file[q] # 0 PROVE inode'[file[q]] = inode[file[q]]
    BY <1>u DEF Content
  <2>1. file[q] # i /\ file[q] \in DOMAIN inode
    BY <1>0, <1>3, <1>6 DEF RegTypeOK
  <2> QED BY <1>5, <2>1
<1>9. /\ "registry" \notin overlap => Rows' = Rows
      /\ overlap = {} => Pointer' = Pointer
  BY <1>8 DEF Rows, Pointer, Paths
<1>10. RegTypeOK'
  <2>1. \A m \in DOMAIN inode' : inode'[m] \in Documents
    BY <1>0, <1>4, <1>5 DEF RegTypeOK
  <2>2. actor' \in [Actors -> ActorStates']
    <3>1. actor'[a] \in ActorStates'
      BY <1>0, <1>5, <1>7 DEF ActorStates
    <3>2. \A b \in Actors \ {a} : actor'[b] \in ActorStates'
      BY <1>0, <1>5, <1>7 DEF ActorStates
    <3> QED BY <1>7, <3>1, <3>2
  <2> QED BY <1>0, <1>u, <1>5, <2>1, <2>2 DEF RegTypeOK, ActorStates
<1>11. FilesOK'
  <2>1. \A m \in DOMAIN inode' : Backed(inode[m])'
    BY <1>0, <1>4, <1>5, <1>u DEF FilesOK, Backed
  <2>2. Numbered' /\ Separate'
    BY <1>0, <1>5, <1>u DEF FilesOK, Numbered, Separate
  <2>3. \A q \in Paths \ overlap' : file'[q] # 0 => Content(q)'.text = "json"
    BY <1>0, <1>8, <1>u DEF FilesOK
  <2>4. /\ "registry" \notin overlap' => Rows' = given'
        /\ overlap' = {} => Pointer' \in DOMAIN Rows' \cup {"none"}
    BY <1>0, <1>9, <1>u DEF FilesOK
  <2> QED BY <2>1, <2>2, <2>3, <2>4 DEF FilesOK
<1>12. \A b \in Actors : Applied(b)' = Applied(b)
  BY <1>7, <1>u DEF Applied
<1>13. \A b \in Actors : Means(b) => Means(b)'
  <2> SUFFICES ASSUME NEW b \in Actors, Means(b) PROVE Means(b)'
    OBVIOUS
  <2>1. /\ actor'[b].op = actor[b].op /\ actor'[b].on = actor[b].on /\ actor'[b].doc = actor[b].doc
        /\ actor'[b].at \in {"open", "write", "replace"}
              => actor[b].at \in {"open", "write", "replace"}
    BY <1>1, <1>7
  <2>2. Applied(b)' = Applied(b)
    BY <1>12
  <2> QED BY <1>9, <1>u, <2>1, <2>2 DEF Means
<1>14. ActorOK(a)'
  <2>1. Backed(actor[a].doc)' /\ Routed(a)'
    BY <1>0, <1>u, <1>7 DEF ActorOK, Backed, Routed
  <2>2. Opened(a)'
    <3>1. /\ actor'[a].fd = i /\ actor'[a].on = p /\ actor'[a].at = "replace"
          /\ actor'[a].doc = actor[a].doc
      BY <1>7
    <3>2. p \notin overlap' => i = tmp'[p] /\ inode'[i] = actor[a].doc
      BY <1>5, <1>6, <1>u
    <3>3. \A q \in Paths \ {p} : i \notin {file'[q], tmp'[q]}
      BY <1>3, <1>u
    <3> HIDE DEF i
    <3> QED BY <1>3, <3>1, <3>2, <3>3 DEF Opened
  <2> QED BY <1>0, <1>13, <2>1, <2>2 DEF ActorOK
<1>15. ASSUME NEW b \in Actors \ {a} PROVE ActorOK(b)'
  <2>0. ActorOK(b) /\ actor'[b] = actor[b] /\ actor[b] \in ActorStates
    BY <1>0, <1>7 DEF RegInv
  <2>1. Backed(actor[b].doc)' /\ Routed(b)'
    BY <1>u, <2>0 DEF ActorOK, Backed, Routed
  <2>2. Means(b)'
    BY <1>13, <2>0 DEF ActorOK
  <2>3. Opened(b)'
    <3> SUFFICES ASSUME actor[b].at \in {"write", "replace"} PROVE Opened(b)'
      BY <2>0 DEF Opened
    <3>1. /\ actor[b].fd # 0 /\ actor[b].fd \in DOMAIN inode
          /\ \A q \in Paths \ {actor[b].on} : actor[b].fd \notin {file[q], tmp[q]}
      BY <2>0 DEF ActorOK, Opened, ActorStates
    <3>2. ASSUME actor[b].on \notin overlap'
          PROVE  actor[b].fd = tmp[actor[b].on] /\ actor[b].fd # i
      <4>1. actor[b].on \in Paths
        BY <2>0 DEF ActorStates
      <4>2. actor[b].on # p
        <5> SUFFICES ASSUME actor[b].on = p PROVE FALSE
          OBVIOUS
        <5>1. actor'[a].at = "replace" /\ actor'[a].on = p /\ actor'[b] = actor[b]
          BY <1>7, <2>0
        <5>2. a \in Actors /\ b \in Actors /\ a # b /\ actor[b].at \in {"write", "replace"}
          BY <1>0
        <5>3. p \in Paths \ overlap'
          BY <3>2, <4>1
        <5>4. a \in Changing(p)' /\ b \in Changing(p)'
          BY <5>1, <5>2 DEF Changing
        <5> QED BY <5>2, <5>3, <5>4 DEF Alone
      <4>3. actor[b].fd = tmp[actor[b].on]
        BY <2>0, <3>2 DEF ActorOK, Opened
      <4> QED BY <1>3, <4>1, <4>2, <4>3
    <3>3. ASSUME actor[b].on \notin overlap'
          PROVE  inode'[actor[b].fd] = inode[actor[b].fd]
      BY <1>5, <3>1, <3>2, <3>3
    <3> QED BY <1>5, <1>u, <2>0, <3>1, <3>2, <3>3 DEF ActorOK, Opened
  <2> QED BY <2>1, <2>2, <2>3 DEF ActorOK
<1> QED BY <1>10, <1>11, <1>14, <1>15 DEF RegInv

\* What an atomic registry would hold is a registry, with no workspace less.
LEMMA AppliedFacts ==
  ASSUME RegInv, NEW a \in Actors
  PROVE  /\ Applied(a) \in Registries
         /\ actor[a].op = "start" => DOMAIN Applied(a) = {"legacy"}
         /\ actor[a].op # "start" => DOMAIN given \subseteq DOMAIN Applied(a)
<1>1. given \in Registries /\ actor[a] \in ActorStates /\ Routed(a)
  BY DEF RegInv, RegTypeOK, ActorStates, ActorOK
<1>2. CASE actor[a].op = "start"
  BY <1>2, LegacyOnly DEF Applied
<1>3. CASE actor[a].op \in {"create", "rename"}
  <2>1. actor[a].id \in Known /\ actor[a].name \in Names
    BY <1>1, <1>3 DEF Routed, ActorStates
  <2>2. Applied(a) = [w \in DOMAIN given \cup {actor[a].id} |->
                        IF w = actor[a].id THEN actor[a].name ELSE given[w]]
    BY <1>3 DEF Applied
  <2>3. Applied(a) \in Registries
    BY <1>1, <2>1, <2>2, EntryFacts
  <2> QED BY <1>3, <2>2, <2>3
<1>4. CASE actor[a].op \notin {"start", "create", "rename"}
  BY <1>1, <1>4 DEF Applied
<1> QED BY <1>2, <1>3, <1>4

\* A .tmp is renamed.
LEMMA ReplaceInv ==
  ASSUME RegInv, NEW a \in Actors, Replace(a), overlap \subseteq overlap',
         overlap' \subseteq Paths, Alone'
  PROVE  RegInv'
<1>p. PICK p \in Paths : actor[a].on = p
  BY DEF RegInv, RegTypeOK
<1> USE <1>p
<1>0. /\ RegTypeOK /\ FilesOK /\ ActorOK(a) /\ actor[a] \in ActorStates /\ p \in Paths
      /\ actor \in [Actors -> ActorStates] /\ Alone
  BY DEF RegInv, RegTypeOK, ActorStates
<1>1. actor[a].at = "replace" /\ UNCHANGED <<inode, ready>>
  BY DEF Replace
<1>2. CASE tmp[p] = 0
  <2>1. Return(a) /\ KeepFiles /\ UNCHANGED given /\ ready' = ready
    BY <1>2 DEF Replace, KeepFiles
  <2> QED BY <2>1, ReturnInv
<1>3. CASE tmp[p] # 0
  <2>1. /\ file' = [file EXCEPT ![p] = tmp[p]] /\ tmp' = [tmp EXCEPT ![p] = 0]
        /\ given' = IF p = "registry" THEN Applied(a) ELSE given
        /\ IF actor[a].op = "activate" /\ p = "active" THEN Goto(a, "load")
           ELSE IF actor[a].op = "start" /\ p = "registry" /\ Pointer = "none"
           THEN SaveTo(a, "active", Active("legacy"))
           ELSE Return(a)
    BY <1>3 DEF Replace
  <2>2. /\ file'[p] = tmp[p] /\ tmp'[p] = 0
        /\ \A q \in Paths \ {p} : file'[q] = file[q] /\ tmp'[q] = tmp[q]
        /\ file' \in [Paths -> {0} \cup DOMAIN inode] /\ tmp' \in [Paths -> {0} \cup DOMAIN inode]
    BY <1>0, <2>1 DEF RegTypeOK
  <2>3. /\ Applied(a) \in Registries
        /\ actor[a].op = "start" => DOMAIN Applied(a) = {"legacy"}
        /\ actor[a].op # "start" => DOMAIN given \subseteq DOMAIN Applied(a)
    BY AppliedFacts
  <2>4. \A q \in Paths \ {p} : Content(q)' = Content(q)
    BY <1>1, <2>2 DEF Content
  <2>5. p \notin overlap => Content(p)' = actor[a].doc /\ actor[a].doc.text = "json"
    <3> SUFFICES ASSUME p \notin overlap
                 PROVE  Content(p)' = actor[a].doc /\ actor[a].doc.text = "json"
      OBVIOUS
    <3>1. actor[a].fd = tmp[p] /\ inode[actor[a].fd] = actor[a].doc /\ actor[a].doc.text = "json"
      BY <1>0, <1>1 DEF ActorOK, Opened, Means
    <3> QED BY <1>1, <1>3, <2>2, <3>1 DEF Content
  <2>6. ASSUME p = "registry", "registry" \notin overlap
        PROVE  Rows' = given' /\ Rows' = Applied(a) /\ DOMAIN Rows \subseteq DOMAIN Rows'
    <3>1. Rows' = actor[a].doc.rows /\ actor[a].doc.rows = Applied(a)
      BY <1>0, <1>1, <2>5, <2>6 DEF Rows, ActorOK, Means
    <3>2. CASE actor[a].op = "start"
      <4>1. file["registry"] = 0
        BY <1>0, <1>1, <2>6, <3>2 DEF ActorOK, Means
      <4>2. DOMAIN Rows = {}
        BY <4>1, DocumentFacts DEF Rows, Content
      <4> QED BY <2>1, <2>6, <3>1, <4>2
    <3>3. CASE actor[a].op # "start"
      <4>1. Rows = given
        BY <1>0, <2>6 DEF FilesOK
      <4> QED BY <2>1, <2>3, <2>6, <3>1, <3>3, <4>1
    <3> QED BY <3>2, <3>3
  <2>7. p = "active" => Rows' = Rows /\ given' = given
    BY <2>1, <2>4 DEF Rows, Paths
  <2>8. p = "registry" => Pointer' = Pointer
    BY <2>4 DEF Pointer, Paths
  <2>9. p = "registry" \/ p = "active"
    BY <1>0 DEF Paths
  <2>10. "registry" \notin overlap => Rows' = given' /\ DOMAIN Rows \subseteq DOMAIN Rows'
    <3>1. "registry" \notin overlap => Rows = given
      BY <1>0 DEF FilesOK
    <3> QED BY <2>6, <2>7, <2>9, <3>1
  <2>11. FilesOK'
    <3>1. Numbered' /\ \A m \in DOMAIN inode' : Backed(inode[m])'
      BY <1>0, <1>1 DEF FilesOK, Numbered, Backed
    <3>2. Separate'
      <4> QED BY <1>0, <1>3, <2>2 DEF FilesOK, Separate
    <3>3. \A q \in Paths \ overlap' : file'[q] # 0 => Content(q)'.text = "json"
      <4> SUFFICES ASSUME NEW q \in Paths \ overlap', file'[q] # 0
                   PROVE  Content(q)'.text = "json"
        OBVIOUS
      <4>1. CASE q = p
        BY <2>5, <4>1
      <4>2. CASE q # p
        BY <1>0, <2>2, <2>4, <4>2 DEF FilesOK
      <4> QED BY <4>1, <4>2
    <3>4. overlap' = {} => Pointer' \in DOMAIN Rows' \cup {"none"}
      <4> SUFFICES ASSUME overlap' = {} PROVE Pointer' \in DOMAIN Rows' \cup {"none"}
        OBVIOUS
      <4>1. overlap = {}
        OBVIOUS
      <4>2. CASE p = "registry"
        <5>1. Pointer \in DOMAIN Rows \cup {"none"}
          BY <1>0, <4>1 DEF FilesOK
        <5> QED BY <2>8, <2>10, <4>1, <4>2, <5>1
      <4>3. CASE p = "active"
        <5>1. Pointer' = actor[a].doc.id
          BY <2>5, <4>1, <4>3 DEF Pointer
        <5>2. actor[a].doc.id \in DOMAIN Rows \cup {"none"}
          BY <1>0, <1>1, <4>1, <4>3 DEF ActorOK, Means
        <5> QED BY <2>7, <4>3, <5>1, <5>2
      <4> QED BY <2>9, <4>2, <4>3
    <3>5. "registry" \notin overlap' => Rows' = given'
      BY <2>10
    <3> QED BY <3>1, <3>2, <3>3, <3>4, <3>5 DEF FilesOK
  <2>12. /\ actor'[a] \in ActorStates /\ ActorOK(a)'
         /\ \A b \in Actors \ {a} : actor'[b] = actor[b]
         /\ actor' = [b \in Actors |-> actor'[b]]
    <3>1. CASE actor[a].op = "activate" /\ p = "active"
      <4>1. Goto(a, "load")
        BY <2>1, <3>1
      <4>2. /\ actor'[a] = [at |-> "load", op |-> actor[a].op, id |-> actor[a].id,
                            name |-> actor[a].name, on |-> actor[a].on, doc |-> actor[a].doc,
                            fd |-> actor[a].fd]
            /\ \A b \in Actors \ {a} : actor'[b] = actor[b]
            /\ actor' = [b \in Actors |-> actor'[b]]
        BY <1>0, <4>1, GotoFacts
      <4>3. actor'[a] \in ActorStates
        BY <1>0, <4>2 DEF ActorStates
      <4>4. ActorOK(a)'
        BY <1>0, <1>1, <3>1, <4>2 DEF ActorOK, Backed, Routed, Means, Opened
      <4> QED BY <4>2, <4>3, <4>4
    <3>2. CASE actor[a].op = "start" /\ p = "registry" /\ Pointer = "none"
      <4>1. SaveTo(a, "active", Active("legacy"))
        BY <2>1, <3>2
      <4>2. /\ Active("legacy") \in Documents /\ Active("legacy").text = "json"
            /\ DOMAIN Active("legacy").rows = {} /\ Active("legacy").id = "legacy"
        BY DocumentFacts DEF Known
      <4>3. /\ actor'[a] = [at |-> "open", op |-> actor[a].op, id |-> actor[a].id,
                            name |-> actor[a].name, on |-> "active", doc |-> Active("legacy"),
                            fd |-> actor[a].fd]
            /\ \A b \in Actors \ {a} : actor'[b] = actor[b]
            /\ actor' = [b \in Actors |-> actor'[b]]
        BY <1>0, <4>1, <4>2, SaveToFacts DEF Paths
      <4>4. actor'[a] \in ActorStates
        BY <1>0, <4>2, <4>3 DEF ActorStates, Paths
      <4>5. overlap' = {} => "legacy" \in DOMAIN Rows'
        BY <2>3, <2>6, <3>2
      <4>6. Means(a)'
        <5>1. actor'[a].doc.text = "json" /\ actor'[a].on = "active" /\ actor'[a].doc.id = "legacy"
          BY <4>2, <4>3
        <5> QED BY <4>5, <5>1 DEF Means
      <4>7. Backed(actor[a].doc)' /\ Routed(a)' /\ Opened(a)'
        BY <3>2, <4>2, <4>3 DEF Backed, Routed, Opened
      <4> QED BY <4>3, <4>4, <4>6, <4>7 DEF ActorOK
    <3>3. CASE /\ ~(actor[a].op = "activate" /\ p = "active")
               /\ ~(actor[a].op = "start" /\ p = "registry" /\ Pointer = "none")
      <4>1. Return(a)
        BY <2>1, <3>3
      <4> QED BY <1>0, <4>1, ReturnFacts, IdleFacts
    <3> QED BY <3>1, <3>2, <3>3
  <2>13. RegTypeOK'
    <3>1. actor' \in [Actors -> ActorStates]
      BY <1>0, <2>12
    <3>2. given' \in Registries
      BY <1>0, <2>1, <2>3 DEF RegTypeOK
    <3> QED BY <1>0, <1>1, <2>2, <3>1, <3>2 DEF RegTypeOK, ActorStates
  <2>14. ASSUME NEW b \in Actors \ {a} PROVE ActorOK(b)'
    <3>0. ActorOK(b) /\ actor'[b] = actor[b] /\ actor[b] \in ActorStates
      BY <1>0, <2>12 DEF RegInv
    <3>1. Backed(actor[b].doc)' /\ Routed(b)'
      BY <1>1, <3>0 DEF ActorOK, Backed, Routed
    <3>2. ASSUME actor[b].at \in {"open", "write", "replace"}, actor[b].on \notin overlap
          PROVE  actor[b].on # p
      <4> SUFFICES ASSUME actor[b].on = p PROVE FALSE
        OBVIOUS
      <4>1. a \in Actors /\ b \in Actors /\ a # b /\ actor[a].on = p
        OBVIOUS
      <4>2. p \in Paths \ overlap
        BY <1>0, <3>2
      <4>3. a \in Changing(p) /\ b \in Changing(p)
        BY <1>1, <3>2, <4>1 DEF Changing
      <4> QED BY <1>0, <4>1, <4>2, <4>3 DEF Alone
    <3>3. Means(b)'
      <4> SUFFICES ASSUME actor[b].at \in {"open", "write", "replace"} PROVE Means(b)'
        BY <3>0 DEF Means
      <4>1. actor[b].doc.text = "json"
        BY <3>0 DEF ActorOK, Means
      <4>2. ASSUME actor[b].on = "registry", "registry" \notin overlap'
            PROVE  /\ actor[b].doc.rows = Applied(b)'
                   /\ actor[b].op = "start" => file'["registry"] = 0
        <5>1. p = "active"
          BY <2>9, <3>2, <4>2
        <5>2. given' = given /\ file'["registry"] = file["registry"]
          BY <2>2, <2>7, <5>1 DEF Paths
        <5>3. Applied(b)' = Applied(b)
          BY <3>0, <5>2 DEF Applied
        <5> QED BY <3>0, <4>2, <5>2, <5>3 DEF ActorOK, Means
      <4>3. ASSUME actor[b].on = "active", overlap' = {}
            PROVE  actor[b].doc.id \in DOMAIN Rows' \cup {"none"}
        <5>1. overlap = {}
          BY <4>3
        <5>2. DOMAIN Rows \subseteq DOMAIN Rows'
          BY <2>10, <5>1
        <5> QED BY <3>0, <4>3, <5>1, <5>2 DEF ActorOK, Means
      <4> QED BY <3>0, <4>1, <4>2, <4>3 DEF Means
    <3>4. Opened(b)'
      <4> SUFFICES ASSUME actor[b].at \in {"write", "replace"} PROVE Opened(b)'
        BY <3>0 DEF Opened
      <4>1. /\ actor[b].fd # 0
            /\ \A q \in Paths \ {actor[b].on} : actor[b].fd \notin {file[q], tmp[q]}
        BY <3>0 DEF ActorOK, Opened
      <4>2. \A q \in Paths \ {actor[b].on} : actor[b].fd \notin {file'[q], tmp'[q]}
        <5> QED BY <2>2, <4>1
      <4>3. ASSUME actor[b].on \notin overlap'
            PROVE  tmp'[actor[b].on] = tmp[actor[b].on]
        <5>1. actor[b].on # p /\ actor[b].on \in Paths
          BY <3>0, <3>2, <4>3 DEF ActorStates
        <5> QED BY <2>2, <5>1
      <4> QED BY <1>1, <3>0, <4>1, <4>2, <4>3 DEF ActorOK, Opened
    <3> QED BY <3>1, <3>3, <3>4 DEF ActorOK
  <2> QED BY <2>11, <2>12, <2>13, <2>14 DEF RegInv
<1> QED BY <1>2, <1>3

\* Every step of every thread keeps the invariant.
LEMMA RegStepInv == RegInv /\ [RegNext]_regVars => RegInv'
<1> SUFFICES ASSUME RegInv, [RegNext]_regVars PROVE RegInv'
  OBVIOUS
<1>1. CASE RegNext
  <2>1. overlap' = overlap \cup {p \in Paths : Cardinality(Changing(p)') > 1}
    BY <1>1 DEF RegNext
  <2>2. Alone' /\ overlap \subseteq overlap'
    BY <2>1, AloneHolds
  <2>3. overlap' \subseteq Paths
    BY <2>1 DEF RegInv, RegTypeOK
  <2>4. Admins \subseteq Actors
    BY DEF Actors
  <2>5. CASE Start
    BY <2>2, <2>3, <2>5, StartInv
  <2>6. CASE End
    BY <2>2, <2>3, <2>6, EndInv
  <2>7. CASE \E a \in Actors : Open(a)
    BY <2>2, <2>3, <2>7, OpenInv
  <2>8. CASE \E a \in Actors : Write(a)
    BY <2>2, <2>3, <2>8, WriteInv
  <2>9. CASE \E a \in Actors : Replace(a)
    BY <2>2, <2>3, <2>9, ReplaceInv
  <2>10. CASE \E a \in Admins : Request(a)
    BY <2>2, <2>3, <2>10, RequestInv
  <2>11. CASE \E a \in Admins : Provision(a)
    BY <2>2, <2>3, <2>11, ProvisionInv
  <2>12. CASE \E a \in Admins : Get(a)
    BY <2>2, <2>3, <2>12, GetInv
  <2>13. CASE \E a \in Admins : Load(a)
    BY <2>2, <2>3, <2>13, LoadInv
  <2> QED BY <1>1, <2>5, <2>6, <2>7, <2>8, <2>9, <2>10, <2>11, <2>12, <2>13 DEF RegNext
<1>2. CASE UNCHANGED regVars
  <2> USE <1>2 DEF regVars
  <2>1. RegTypeOK'
    BY DEF RegInv, RegTypeOK
  <2>2. Rows' = Rows /\ Pointer' = Pointer /\ \A p \in Paths : Content(p)' = Content(p)
    BY DEF Rows, Pointer, Content
  <2>3. FilesOK'
    BY <2>2 DEF RegInv, FilesOK, Numbered, Separate, Backed
  <2>4. ASSUME NEW b \in Actors PROVE ActorOK(b)'
    <3>1. ActorOK(b) /\ Applied(b)' = Applied(b)
      BY DEF RegInv, Applied
    <3> QED BY <2>2, <3>1 DEF ActorOK, Backed, Routed, Means, Opened
  <2>5. Alone'
    BY DEF RegInv, Alone, Changing
  <2> QED BY <2>1, <2>3, <2>4, <2>5 DEF RegInv
<1> QED BY <1>1, <1>2

\* What the files promise follows from the invariant.
LEMMA RegInvSound == RegInv => RegistrySound
<1> SUFFICES ASSUME RegInv PROVE RegistrySound
  OBVIOUS
<1>1. RegTypeOK /\ FilesOK
  BY DEF RegInv
<1>2. DOMAIN Rows \subseteq ready \cup {"legacy"}
  <2>1. CASE file["registry"] = 0
    BY <2>1, DocumentFacts DEF Rows, Content
  <2>2. CASE file["registry"] # 0
    <3>1. file["registry"] \in DOMAIN inode
      BY <1>1, <2>2 DEF RegTypeOK, Paths
    <3> QED BY <1>1, <2>2, <3>1 DEF FilesOK, Backed, Rows, Content
  <2> QED BY <2>1, <2>2
<1> QED BY <1>1, <1>2 DEF RegistrySound, AtomicUnlessOverlap, PointerRegistered,
     RegisteredReady, FilesOK

\* However requests interleave and wherever the process ends, a registry of
\* which no two changes have overlapped is what an atomic one would be, its
\* pointer names a registered workspace, and what is registered has its
\* database (WorkspaceService's _save, create, update, activate).
THEOREM RegistrySoundHolds == RegSpec => []RegistrySound
<1>1. RegSpec => []RegInv
  BY RegInitInv, RegStepInv, PTL DEF RegSpec
<1> QED BY <1>1, RegInvSound, PTL
=============================================================================
