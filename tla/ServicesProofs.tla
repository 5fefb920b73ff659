--------------------------- MODULE ServicesProofs ---------------------------
(***************************************************************************)
(* Proofs about the components of MCServices: the stream of a job's         *)
(* snapshots, the runs of the research agent, the embedding pipeline, its   *)
(* limiters, and the pairs of a homophily analysis.                         *)
(***************************************************************************)
EXTENDS JobStream, AgentRuns, EmbeddingPipeline, RateLimits, HomophilyPairs,
        SequenceTheorems, FiniteSetTheorems, TLAPS

-----------------------------------------------------------------------------
(***************************************************************************)
(* JobStream, for any number of threads, clients and changes and every size *)
(* of a subscriber's queue.                                                *)
(***************************************************************************)
USE StreamAssumption

-----------------------------------------------------------------------------
(* Queues of snapshots.                                                    *)

\* The changes a queue has a snapshot of.
Has(q) == {q[i].n : i \in DOMAIN q}

\* A queue that grew has one more snapshot, its last.
LEMMA AppendHas ==
  ASSUME NEW q \in Seq(Snapshots), NEW s \in Snapshots
  PROVE  /\ Append(q, s) \in Seq(Snapshots) /\ Len(Append(q, s)) = Len(q) + 1
         /\ Has(Append(q, s)) = Has(q) \cup {s.n}
<1> DEFINE r == Append(q, s)
<1>1. /\ r \in Seq(Snapshots) /\ Len(r) = Len(q) + 1
      /\ \A i \in 1..Len(q) : r[i] = q[i]
      /\ r[Len(q) + 1] = s
  BY AppendProperties
<1>2. Len(q) \in Nat /\ DOMAIN q = 1..Len(q) /\ DOMAIN r = 1..(Len(q) + 1)
  BY <1>1, LenProperties
<1> HIDE DEF r
<1>3. Has(r) = Has(q) \cup {s.n}
  <2>1. \A i \in DOMAIN r : i \in DOMAIN q \/ i = Len(q) + 1
    BY <1>2
  <2>2. DOMAIN q \subseteq DOMAIN r /\ Len(q) + 1 \in DOMAIN r
    BY <1>2
  <2>3. \A i \in DOMAIN q : r[i] = q[i]
    BY <1>1, <1>2
  <2>4. r[Len(q) + 1] = s
    BY <1>1
  <2> QED BY <2>1, <2>2, <2>3, <2>4 DEF Has
<1> QED BY <1>1, <1>3 DEF r

\* A queue that lost its head has what the head did not have.
LEMMA TailHas ==
  ASSUME NEW q \in Seq(Snapshots), q # <<>>
  PROVE  /\ Head(q) \in Snapshots /\ Tail(q) \in Seq(Snapshots)
         /\ Len(Tail(q)) = Len(q) - 1 /\ Len(q) \in Nat \ {0}
         /\ Has(q) = {Head(q).n} \cup Has(Tail(q))
<1> DEFINE r == Tail(q)
<1>1. /\ Head(q) \in Snapshots /\ r \in Seq(Snapshots) /\ Len(r) = Len(q) - 1
      /\ \A i \in 1..Len(r) : r[i] = q[i + 1]
  BY HeadTailProperties
<1>2. Len(q) \in Nat \ {0} /\ DOMAIN q = 1..Len(q) /\ DOMAIN r = 1..Len(r)
  BY <1>1, LenProperties, EmptySeq
<1>3. Head(q) = q[1]
  OBVIOUS
<1> HIDE DEF r
<1>4. Has(q) = {Head(q).n} \cup Has(r)
  <2>1. \A i \in DOMAIN q : i = 1 \/ (i - 1 \in DOMAIN r /\ r[i - 1] = q[i])
    BY <1>1, <1>2
  <2>2. \A i \in DOMAIN r : i + 1 \in DOMAIN q /\ r[i] = q[i + 1]
    BY <1>1, <1>2
  <2>3. 1 \in DOMAIN q
    BY <1>2
  <2> QED BY <1>3, <2>1, <2>2, <2>3 DEF Has
<1> QED BY <1>1, <1>2, <1>4 DEF r

\* What a client was sent is what it has seen and what its queues hold.
LEMMA SentIs == \A c \in Clients : Sent(c) = {newest[c]} \cup Has(inbox[c]) \cup Has(soon[c])
BY DEF Sent, Has

-----------------------------------------------------------------------------
(* Types.                                                                  *)

StreamPlaces == {"away", "entered", "built", "ready", "open", "closed", "left", "dropped"}

\* The state in which a stream begins has its types, ...
LEMMA StreamInitType == StreamInit => StreamTypeOK
<1> SUFFICES ASSUME StreamInit PROVE StreamTypeOK
  OBVIOUS
<1>1. Resting.snap \in Snapshots /\ Resting.at = "rest"
  BY DEF Resting, Snapshots
<1>2. Resting \in [at : {"rest", "changed", "built"}, snap : Snapshots]
  BY DEF Resting, Snapshots
<1>3. soon \in [Clients -> Seq(Snapshots)] /\ inbox \in [Clients -> Seq(Snapshots)]
  BY DEF StreamInit
<1>4. \A c \in Clients : Len(inbox[c]) <= QueueMax
  BY DEF StreamInit
<1>5. state \in Snapshots /\ replay \in [Clients -> Snapshots]
  BY <1>1 DEF StreamInit
<1>6. newest \in [Clients -> 0..MaxChanges] /\ subs \subseteq Clients /\ overrun \subseteq Clients
  BY DEF StreamInit
<1>7. notifier \in [Threads -> [at : {"rest", "changed", "built"}, snap : Snapshots]]
  BY <1>2 DEF StreamInit
<1>8. client \in [Clients -> StreamPlaces]
  BY DEF StreamInit, StreamPlaces
<1> QED BY <1>3, <1>4, <1>5, <1>6, <1>7, <1>8 DEF StreamTypeOK, StreamPlaces

\* The parts of the type a step needs.
LEMMA Types ==
  ASSUME StreamTypeOK
  PROVE  /\ state \in Snapshots /\ state.n \in 0..MaxChanges
         /\ newest \in [Clients -> 0..MaxChanges]
         /\ notifier \in [Threads -> [at : {"rest", "changed", "built"}, snap : Snapshots]]
         /\ soon \in [Clients -> Seq(Snapshots)] /\ inbox \in [Clients -> Seq(Snapshots)]
         /\ client \in [Clients -> StreamPlaces] /\ replay \in [Clients -> Snapshots]
         /\ subs \subseteq Clients /\ overrun \subseteq Clients
BY DEF StreamTypeOK, Snapshots, StreamPlaces

\* The steps of a thread.
LEMMA ThreadType ==
  ASSUME StreamTypeOK, NEW t \in Threads, ChangeJob(t) \/ NotifyStep(t)
  PROVE  StreamTypeOK'
<1>1. Resting \in [at : {"rest", "changed", "built"}, snap : Snapshots]
  BY DEF Resting, Snapshots
<1>2. CASE ChangeJob(t)
  <2>1. state' \in Snapshots
    BY <1>2, Types DEF ChangeJob, Snapshots
  <2>2. notifier' \in [Threads -> [at : {"rest", "changed", "built"}, snap : Snapshots]]
    BY <1>2, Types DEF ChangeJob
  <2>3. UNCHANGED <<subs, soon, inbox, client, replay, newest, overrun>>
    BY <1>2 DEF ChangeJob
  <2> QED BY <2>1, <2>2, <2>3 DEF StreamTypeOK
<1>3. CASE BuildSnapshot(t)
  <2>1. notifier' \in [Threads -> [at : {"rest", "changed", "built"}, snap : Snapshots]]
    BY <1>3, Types DEF BuildSnapshot
  <2>2. UNCHANGED <<state, subs, soon, inbox, client, replay, newest, overrun>>
    BY <1>3 DEF BuildSnapshot
  <2> QED BY <2>1, <2>2 DEF StreamTypeOK
<1>4. CASE PostSnapshot(t)
  <2>1. notifier' \in [Threads -> [at : {"rest", "changed", "built"}, snap : Snapshots]]
    BY <1>1, <1>4, Types DEF PostSnapshot
  <2>2. notifier[t].snap \in Snapshots
    BY Types
  <2>3. \A c \in Clients : Append(soon[c], notifier[t].snap) \in Seq(Snapshots)
    BY <2>2, Types, AppendHas
  <2>4. soon' \in [Clients -> Seq(Snapshots)]
    BY <1>4, <2>3, Types DEF PostSnapshot
  <2>5. UNCHANGED <<state, subs, inbox, client, replay, newest, overrun>>
    BY <1>4 DEF PostSnapshot
  <2> QED BY <2>1, <2>4, <2>5 DEF StreamTypeOK
<1> QED BY <1>2, <1>3, <1>4 DEF NotifyStep

\* The steps of the event loop.
LEMMA ClientType ==
  ASSUME StreamTypeOK, NEW c \in Clients, Enter(c) \/ LoopStep(c) \/ Disconnect(c)
  PROVE  StreamTypeOK'
<1>1. CASE Enter(c) \/ BuildReplay(c) \/ StartStream(c) \/ Disconnect(c)
  <2>1. client' \in [Clients -> StreamPlaces]
    BY <1>1, Types DEF Enter, BuildReplay, StartStream, Disconnect, StreamPlaces
  <2>2. replay' \in [Clients -> Snapshots] /\ subs' \subseteq Clients
    BY <1>1, Types DEF Enter, BuildReplay, StartStream, Disconnect, Unsubscribe
  <2>3. UNCHANGED <<state, notifier, soon, inbox, newest, overrun>>
    BY <1>1 DEF Enter, BuildReplay, StartStream, Disconnect
  <2> QED BY <2>1, <2>2, <2>3 DEF StreamTypeOK, StreamPlaces
<1>2. CASE PostReplay(c)
  <2>1. Append(soon[c], replay[c]) \in Seq(Snapshots)
    BY Types, AppendHas
  <2>2. soon' \in [Clients -> Seq(Snapshots)]
    BY <1>2, <2>1, Types DEF PostReplay
  <2>3. client' \in [Clients -> StreamPlaces] /\ subs' \subseteq Clients
    BY <1>2, Types DEF PostReplay, StreamPlaces
  <2>4. UNCHANGED <<state, notifier, inbox, replay, newest, overrun>>
    BY <1>2 DEF PostReplay
  <2> QED BY <2>2, <2>3, <2>4 DEF StreamTypeOK, StreamPlaces
<1>3. CASE Deliver(c)
  <2>0. soon[c] \in Seq(Snapshots) /\ soon[c] # <<>> /\ inbox[c] \in Seq(Snapshots)
    BY <1>3, Types DEF Deliver
  <2>1. Tail(soon[c]) \in Seq(Snapshots) /\ Head(soon[c]) \in Snapshots
    BY <2>0, TailHas
  <2>2. soon' \in [Clients -> Seq(Snapshots)]
    BY <1>3, <2>1, Types DEF Deliver
  <2>3. /\ Append(inbox[c], Head(soon[c])) \in Seq(Snapshots)
        /\ Len(Append(inbox[c], Head(soon[c]))) = Len(inbox[c]) + 1
    BY <2>0, <2>1, AppendHas
  <2>4. inbox' \in [Clients -> Seq(Snapshots)] /\ overrun' \subseteq Clients
    BY <1>3, <2>3, Types DEF Deliver
  <2>5. \A d \in Clients : Len(inbox'[d]) <= QueueMax
    <3>1. Len(inbox[c]) \in Nat /\ \A d \in Clients : Len(inbox[d]) <= QueueMax
      BY <2>0, LenProperties DEF StreamTypeOK
    <3>2. CASE Fits(c)
      <4>1. inbox' = [inbox EXCEPT ![c] = Append(@, Head(soon[c]))] /\ Len(inbox[c]) < QueueMax
        BY <1>3, <3>2 DEF Deliver, Fits
      <4> QED BY <2>3, <3>1, <4>1, Types
    <3>3. CASE ~Fits(c)
      <4>1. inbox' = inbox
        BY <1>3, <3>3 DEF Deliver
      <4> QED BY <3>1, <4>1
    <3> QED BY <3>2, <3>3
  <2>6. UNCHANGED <<state, notifier, subs, client, replay, newest>>
    BY <1>3 DEF Deliver
  <2> QED BY <2>2, <2>4, <2>5, <2>6 DEF StreamTypeOK
<1>4. CASE SendEvent(c)
  <2>0. inbox[c] \in Seq(Snapshots) /\ inbox[c] # <<>>
    BY <1>4, Types DEF SendEvent
  <2>1. /\ Tail(inbox[c]) \in Seq(Snapshots) /\ Head(inbox[c]) \in Snapshots
        /\ Len(Tail(inbox[c])) = Len(inbox[c]) - 1 /\ Len(inbox[c]) \in Nat \ {0}
    BY <2>0, TailHas
  <2>2. inbox' = [inbox EXCEPT ![c] = Tail(@)]
    BY <1>4 DEF SendEvent
  <2>3. inbox' \in [Clients -> Seq(Snapshots)]
    BY <2>1, <2>2, Types
  <2>4. \A d \in Clients : Len(inbox'[d]) <= QueueMax
    <3>1. \A d \in Clients : Len(inbox[d]) <= QueueMax
      BY DEF StreamTypeOK
    <3> QED BY <2>1, <2>2, <3>1, Types
  <2>5. Head(inbox[c]).n \in 0..MaxChanges
    BY <2>1 DEF Snapshots
  <2>6. newest' \in [Clients -> 0..MaxChanges]
    BY <1>4, <2>5, Types DEF SendEvent
  <2>7. client' \in [Clients -> StreamPlaces] /\ subs' \subseteq Clients
    BY <1>4, Types DEF SendEvent, StreamPlaces, Unsubscribe
  <2>8. UNCHANGED <<state, notifier, soon, replay, overrun>>
    BY <1>4 DEF SendEvent
  <2> QED BY <2>3, <2>4, <2>6, <2>7, <2>8 DEF StreamTypeOK, StreamPlaces
<1> QED BY <1>1, <1>2, <1>3, <1>4 DEF LoopStep

\* ... and every step of a stream keeps them.
LEMMA StreamTypeStep == StreamTypeOK /\ [StreamNext]_streamVars => StreamTypeOK'
<1>1. StreamTypeOK /\ StreamNext => StreamTypeOK'
  BY ThreadType, ClientType DEF StreamNext
<1>2. StreamTypeOK /\ UNCHANGED streamVars => StreamTypeOK'
  BY DEF streamVars, StreamTypeOK
<1> QED BY <1>1, <1>2

\* Every variable keeps its type; a subscriber's queue never exceeds its size.
THEOREM StreamTypeCorrect == StreamSpec => []StreamTypeOK
BY StreamInitType, StreamTypeStep, PTL DEF StreamSpec

-----------------------------------------------------------------------------
(* The inductive invariant.                                                *)

\* No snapshot is newer than the job.
NoneNewer ==
  /\ \A c \in Clients : /\ \A n \in Sent(c) : n <= state.n
                        /\ replay[c].n <= state.n
  /\ \A t \in Threads : notifier[t].snap.n <= state.n

\* Some thread is about to post the current state.
OnItsWay == \E t \in Threads :
  \/ notifier[t].at = "changed"
  \/ notifier[t].at = "built" /\ notifier[t].snap.n = state.n

\* The current state has been sent or is about to be, to every client whose
\* replay was built.
Covered(c) ==
  \/ OnItsWay \/ state.n \in Sent(c)
  \/ client[c] = "built" /\ replay[c].n = state.n

DeliverInv == \A c \in Clients \ overrun : client[c] \in {"built", "ready", "open"} => Covered(c)

StreamInv == StreamTypeOK /\ NoneNewer /\ DeliverInv /\ SubscribersExplained

\* The invariant of the stream begins true, ...
LEMMA StreamInitInv == StreamInit => StreamInv
<1> SUFFICES ASSUME StreamInit PROVE StreamInv
  OBVIOUS
<1>1. StreamTypeOK
  BY StreamInitType
<1>2. NoneNewer
  <2>1. state.n = 0 /\ Resting.snap.n = 0
    BY DEF StreamInit, Resting
  <2>2. \A c \in Clients : Sent(c) = {0}
    BY DEF StreamInit, Sent
  <2>3. \A c \in Clients : replay[c].n = 0
    BY <2>1 DEF StreamInit
  <2>4. \A t \in Threads : notifier[t].snap.n = 0
    BY <2>1 DEF StreamInit
  <2> QED BY <2>1, <2>2, <2>3, <2>4 DEF NoneNewer
<1>3. DeliverInv /\ SubscribersExplained
  BY DEF StreamInit, DeliverInv, SubscribersExplained
<1> QED BY <1>1, <1>2, <1>3 DEF StreamInv

\* The numbers of changes are naturals wherever they are kept.
LEMMA Numbers ==
  ASSUME StreamTypeOK
  PROVE  /\ state.n \in Nat
         /\ \A c \in Clients : Sent(c) \subseteq Nat /\ replay[c].n \in Nat /\ newest[c] \in Nat
         /\ \A t \in Threads : notifier[t].snap.n \in Nat
<1>1. state.n \in Nat /\ \A t \in Threads : notifier[t].snap.n \in Nat
  BY Types DEF Snapshots
<1>2. ASSUME NEW c \in Clients
      PROVE  Sent(c) \subseteq Nat /\ replay[c].n \in Nat /\ newest[c] \in Nat
  <2>1. newest[c] \in Nat /\ replay[c].n \in Nat
    BY Types DEF Snapshots
  <2>2. inbox[c] \in Seq(Snapshots) /\ soon[c] \in Seq(Snapshots)
    BY Types
  <2>3. ASSUME NEW q \in Seq(Snapshots)
        PROVE  Has(q) \subseteq Nat
    <3>1. \A i \in DOMAIN q : q[i] \in Snapshots
      BY LenProperties, ElementOfSeq
    <3> QED BY <3>1 DEF Has, Snapshots
  <2> QED BY <2>1, <2>2, <2>3, SentIs
<1> QED BY <1>1, <1>2

\* The steps of a thread.
LEMMA ThreadStep ==
  ASSUME StreamInv, NEW t \in Threads, ChangeJob(t) \/ NotifyStep(t)
  PROVE  NoneNewer' /\ DeliverInv' /\ SubscribersExplained'
<1>0. /\ StreamTypeOK /\ NoneNewer /\ DeliverInv /\ SubscribersExplained
      /\ notifier \in [Threads -> [at : {"rest", "changed", "built"}, snap : Snapshots]]
  BY Types DEF StreamInv
<1>1. CASE ChangeJob(t)
  <2>1. state'.n = state.n + 1
    BY <1>1 DEF ChangeJob
  <2>2. /\ notifier'[t].at = "changed"
        /\ \A u \in Threads : notifier'[u].snap = notifier[u].snap
    BY <1>0, <1>1 DEF ChangeJob
  <2>3. UNCHANGED <<subs, soon, inbox, client, replay, newest, overrun>>
    BY <1>1 DEF ChangeJob
  <2>4. \A c \in Clients : Sent(c)' = Sent(c)
    BY <2>3 DEF Sent
  <2>5. NoneNewer'
    BY <1>0, <2>1, <2>2, <2>3, <2>4, Numbers DEF NoneNewer
  <2>6. DeliverInv'
    BY <2>2 DEF DeliverInv, Covered, OnItsWay
  <2> QED BY <1>0, <2>3, <2>5, <2>6 DEF SubscribersExplained
<1>2. CASE BuildSnapshot(t)
  <2>1. UNCHANGED <<state, subs, soon, inbox, client, replay, newest, overrun>>
    BY <1>2 DEF BuildSnapshot
  <2>2. /\ notifier'[t].at = "built" /\ notifier'[t].snap.n = state.n
        /\ \A u \in Threads \ {t} : notifier'[u] = notifier[u]
    BY <1>0, <1>2 DEF BuildSnapshot
  <2>3. \A c \in Clients : Sent(c)' = Sent(c)
    BY <2>1 DEF Sent
  <2>4. NoneNewer'
    BY <1>0, <2>1, <2>2, <2>3, Numbers DEF NoneNewer
  <2>5. OnItsWay'
    BY <2>1, <2>2 DEF OnItsWay
  <2> QED BY <1>0, <2>1, <2>4, <2>5 DEF SubscribersExplained, DeliverInv, Covered
<1>3. CASE PostSnapshot(t)
  <2> DEFINE s == notifier[t].snap
  <2>1. /\ UNCHANGED <<state, subs, inbox, client, replay, newest, overrun>>
        /\ notifier[t].at = "built"
        /\ soon' = [c \in Clients |-> IF c \in subs THEN Append(soon[c], s) ELSE soon[c]]
    BY <1>3 DEF PostSnapshot
  <2>2. /\ notifier'[t].snap.n = 0
        /\ \A u \in Threads \ {t} : notifier'[u] = notifier[u]
    BY <1>0, <1>3 DEF PostSnapshot, Resting
  <2>3. s \in Snapshots /\ s.n <= state.n
    BY <1>0 DEF NoneNewer
  <2> HIDE DEF s
  <2>4. \A c \in Clients : Sent(c)' = IF c \in subs THEN Sent(c) \cup {s.n} ELSE Sent(c)
    <3> SUFFICES ASSUME NEW c \in Clients
                 PROVE  Sent(c)' = IF c \in subs THEN Sent(c) \cup {s.n} ELSE Sent(c)
      OBVIOUS
    <3>1. Sent(c)' = {newest[c]} \cup Has(inbox[c]) \cup Has(soon'[c])
      BY <2>1 DEF Sent, Has
    <3>2. Has(soon'[c]) = IF c \in subs THEN Has(soon[c]) \cup {s.n} ELSE Has(soon[c])
      BY <1>0, <2>1, <2>3, Types, AppendHas
    <3> QED BY <3>1, <3>2, SentIs
  <2>5. NoneNewer'
    BY <1>0, <2>1, <2>2, <2>3, <2>4, Numbers DEF NoneNewer
  <2>6. DeliverInv'
    <3> SUFFICES ASSUME NEW c \in Clients \ overrun, client[c] \in {"built", "ready", "open"}
                 PROVE  Covered(c)'
      BY <2>1 DEF DeliverInv
    <3>1. c \in subs
      BY <1>0 DEF SubscribersExplained
    <3>2. Covered(c)
      BY <1>0 DEF DeliverInv
    <3>3. CASE OnItsWay
      <4>1. PICK u \in Threads : \/ notifier[u].at = "changed"
                                 \/ notifier[u].at = "built" /\ notifier[u].snap.n = state.n
        BY <3>3 DEF OnItsWay
      <4>2. CASE u = t
        BY <2>1, <2>4, <3>1, <4>1, <4>2 DEF Covered, s
      <4>3. CASE u # t
        BY <2>1, <2>2, <4>1, <4>3 DEF Covered, OnItsWay
      <4> QED BY <4>2, <4>3
    <3>4. CASE state.n \in Sent(c)
      BY <2>1, <2>4, <3>4 DEF Covered
    <3>5. CASE client[c] = "built" /\ replay[c].n = state.n
      BY <2>1, <3>5 DEF Covered
    <3> QED BY <3>2, <3>3, <3>4, <3>5 DEF Covered
  <2> QED BY <1>0, <2>1, <2>5, <2>6 DEF SubscribersExplained
<1> QED BY <1>1, <1>2, <1>3 DEF NotifyStep

\* A step of the loop for one client leaves the others as they are.
LEMMA ClientStep ==
  ASSUME StreamInv, NEW c \in Clients, Enter(c) \/ LoopStep(c) \/ Disconnect(c)
  PROVE  NoneNewer' /\ DeliverInv' /\ SubscribersExplained'
<1>0. /\ StreamTypeOK /\ NoneNewer /\ DeliverInv /\ SubscribersExplained
  BY DEF StreamInv
<1>1. UNCHANGED <<state, notifier>>
  BY DEF Enter, LoopStep, BuildReplay, PostReplay, StartStream, Deliver, SendEvent, Disconnect
<1>2. OnItsWay' <=> OnItsWay
  BY <1>1 DEF OnItsWay
\* What is left to show, once the step is known on its own client.
<1>3. ASSUME /\ \A d \in Clients \ {c} : /\ client'[d] = client[d] /\ replay'[d] = replay[d]
                                         /\ Sent(d)' = Sent(d) /\ (d \in overrun' <=> d \in overrun)
                                         /\ (d \in subs' <=> d \in subs),
             \A n \in Sent(c)' : n <= state.n, replay'[c].n <= state.n,
             c \notin overrun' /\ client'[c] \in {"built", "ready", "open"} => Covered(c)',
             c \in subs' <=> client'[c] \in {"entered", "built", "ready", "open", "dropped"}
      PROVE  NoneNewer' /\ DeliverInv' /\ SubscribersExplained'
  <2>1. NoneNewer'
    BY <1>0, <1>1, <1>3 DEF NoneNewer
  <2>2. DeliverInv'
    BY <1>0, <1>1, <1>2, <1>3 DEF DeliverInv, Covered
  <2>3. SubscribersExplained'
    BY <1>0, <1>3 DEF SubscribersExplained
  <2> QED BY <2>1, <2>2, <2>3
<1>4. CASE Enter(c) \/ BuildReplay(c) \/ StartStream(c) \/ Disconnect(c)
  <2>1. UNCHANGED <<soon, inbox, newest, overrun>>
    BY <1>4 DEF Enter, BuildReplay, StartStream, Disconnect
  <2>2. \A d \in Clients : Sent(d)' = Sent(d)
    BY <2>1 DEF Sent
  <2>3. /\ \A d \in Clients \ {c} : client'[d] = client[d] /\ replay'[d] = replay[d]
                                    /\ (d \in subs' <=> d \in subs)
        /\ replay'[c] = replay[c] \/ replay'[c] = state
    BY <1>0, <1>4, Types DEF Enter, BuildReplay, StartStream, Disconnect, Unsubscribe
  <2>4. c \in subs' <=> client'[c] \in {"entered", "built", "ready", "open", "dropped"}
    BY <1>0, <1>4, Types
       DEF SubscribersExplained, Enter, BuildReplay, StartStream, Disconnect, Unsubscribe
  <2>5. replay'[c].n <= state.n /\ \A n \in Sent(c)' : n <= state.n
    BY <1>0, <2>2, <2>3, Numbers DEF NoneNewer
  <2>6. c \notin overrun' /\ client'[c] \in {"built", "ready", "open"} => Covered(c)'
    <3>1. CASE Enter(c) \/ Disconnect(c)
      BY <1>0, <3>1, Types DEF Enter, Disconnect
    <3>2. CASE BuildReplay(c)
      BY <1>0, <1>1, <3>2, Types DEF BuildReplay, Covered
    <3>3. CASE StartStream(c)
      <4>1. client[c] = "ready" /\ client'[c] = "open"
        BY <1>0, <3>3, Types DEF StartStream
      <4>2. c \notin overrun => OnItsWay \/ state.n \in Sent(c)
        BY <1>0, <4>1 DEF DeliverInv, Covered
      <4> QED BY <1>1, <1>2, <2>1, <2>2, <4>2 DEF Covered
    <3> QED BY <1>4, <3>1, <3>2, <3>3
  <2> QED BY <1>3, <2>1, <2>2, <2>3, <2>4, <2>5, <2>6
<1>5. CASE PostReplay(c)
  <2>1. /\ UNCHANGED <<inbox, replay, newest, overrun>> /\ subs' = subs \cup {c}
        /\ client[c] = "built" /\ client' = [client EXCEPT ![c] = "ready"]
        /\ soon' = [soon EXCEPT ![c] = Append(@, replay[c])]
    BY <1>5 DEF PostReplay
  <2>2. client'[c] = "ready" /\ \A d \in Clients \ {c} : client'[d] = client[d]
    BY <1>0, <2>1, Types
  <2>3. \A d \in Clients \ {c} : Sent(d)' = Sent(d)
    BY <1>0, <2>1, Types DEF Sent
  <2>4. Sent(c)' = Sent(c) \cup {replay[c].n}
    <3>1. Has(soon'[c]) = Has(soon[c]) \cup {replay[c].n}
      BY <1>0, <2>1, Types, AppendHas
    <3>2. Sent(c)' = {newest[c]} \cup Has(inbox[c]) \cup Has(soon'[c])
      BY <2>1 DEF Sent, Has
    <3> QED BY <3>1, <3>2, SentIs
  <2>5. replay'[c].n <= state.n /\ \A n \in Sent(c)' : n <= state.n
    BY <1>0, <2>1, <2>4 DEF NoneNewer
  <2>6. c \notin overrun' => Covered(c)'
    BY <1>0, <1>1, <1>2, <2>1, <2>4 DEF DeliverInv, Covered
  <2> QED BY <1>3, <2>1, <2>2, <2>3, <2>5, <2>6
<1>6. CASE Deliver(c)
  <2>1. /\ UNCHANGED <<subs, client, replay, newest>> /\ soon[c] # <<>>
        /\ soon' = [soon EXCEPT ![c] = Tail(@)] /\ overrun \subseteq overrun'
        /\ overrun' \subseteq overrun \cup {c}
        /\ \/ inbox' = [inbox EXCEPT ![c] = Append(@, Head(soon[c]))]
           \/ inbox' = inbox /\ c \in overrun'
    BY <1>6 DEF Deliver
  <2>2. /\ Has(soon[c]) = {Head(soon[c]).n} \cup Has(soon'[c]) /\ Head(soon[c]) \in Snapshots
    BY <1>0, <2>1, Types, TailHas
  <2>3. \/ Has(inbox'[c]) = Has(inbox[c]) \cup {Head(soon[c]).n}
        \/ inbox'[c] = inbox[c] /\ c \in overrun'
    BY <1>0, <2>1, <2>2, Types, AppendHas
  <2>4. \A d \in Clients \ {c} : Sent(d)' = Sent(d)
    BY <1>0, <2>1, Types DEF Sent
  <2>5. Sent(c)' \subseteq Sent(c) /\ (Sent(c)' = Sent(c) \/ c \in overrun')
    <3>1. Sent(c)' = {newest[c]} \cup Has(inbox'[c]) \cup Has(soon'[c])
      BY <2>1 DEF Sent, Has
    <3>2. Sent(c) = {newest[c]} \cup Has(inbox[c]) \cup Has(soon[c])
      BY SentIs
    <3> QED BY <2>2, <2>3, <3>1, <3>2
  <2>6. replay'[c].n <= state.n /\ \A n \in Sent(c)' : n <= state.n
    BY <1>0, <2>1, <2>5 DEF NoneNewer
  <2>7. c \notin overrun' /\ client'[c] \in {"built", "ready", "open"} => Covered(c)'
    BY <1>0, <1>1, <1>2, <2>1, <2>5 DEF DeliverInv, Covered
  <2>8. c \in subs' <=> client'[c] \in {"entered", "built", "ready", "open", "dropped"}
    BY <1>0, <2>1 DEF SubscribersExplained
  <2> QED BY <1>3, <2>1, <2>4, <2>6, <2>7, <2>8
<1>7. CASE SendEvent(c)
  <2> DEFINE s == Head(inbox[c])
  <2>1. /\ UNCHANGED <<soon, replay, overrun>> /\ inbox[c] # <<>> /\ client[c] = "open"
        /\ newest' = [newest EXCEPT ![c] = IF s.n > @ THEN s.n ELSE @]
        /\ inbox' = [inbox EXCEPT ![c] = Tail(@)]
        /\ \/ client' = [client EXCEPT ![c] = "closed"] /\ subs' = subs \ {c}
           \/ UNCHANGED <<client, subs>>
    BY <1>7 DEF SendEvent, Unsubscribe
  <2>2. Has(inbox[c]) = {s.n} \cup Has(inbox'[c]) /\ s \in Snapshots
    BY <1>0, <2>1, Types, TailHas
  <2> HIDE DEF s
  <2>3. \A d \in Clients \ {c} : Sent(d)' = Sent(d)
    BY <1>0, <2>1, Types DEF Sent
  <2>4. Sent(c) = {newest[c]} \cup Has(inbox[c]) \cup Has(soon[c])
        /\ Sent(c)' = {newest'[c]} \cup Has(inbox'[c]) \cup Has(soon[c])
    <3>1. Sent(c)' = {newest'[c]} \cup Has(inbox'[c]) \cup Has(soon[c])
      BY <2>1 DEF Sent, Has
    <3> QED BY <3>1, SentIs
  <2>5. s.n \in Nat /\ newest[c] \in Nat /\ s.n <= state.n /\ newest[c] <= state.n
        /\ state.n \in Nat
    <3>1. s.n \in Sent(c) /\ newest[c] \in Sent(c)
      BY <2>2, <2>4
    <3> QED BY <1>0, <3>1, Numbers DEF NoneNewer
  <2>6. newest'[c] = IF s.n > newest[c] THEN s.n ELSE newest[c]
    BY <1>0, <2>1, Types
  <2>7. Sent(c)' \subseteq Sent(c) /\ (state.n \in Sent(c) => state.n \in Sent(c)')
    <3>1. newest'[c] \in {s.n, newest[c]}
      BY <2>6
    <3>2. state.n \in {s.n, newest[c]} => newest'[c] = state.n
      BY <2>5, <2>6
    <3> QED BY <2>2, <2>4, <3>1, <3>2
  <2>8. replay'[c].n <= state.n /\ \A n \in Sent(c)' : n <= state.n
    BY <1>0, <2>1, <2>7 DEF NoneNewer
  <2>9. c \notin overrun' /\ client'[c] \in {"built", "ready", "open"} => Covered(c)'
    <3>1. c \notin overrun => OnItsWay \/ state.n \in Sent(c)
      BY <1>0, <2>1 DEF DeliverInv, Covered
    <3> QED BY <1>1, <1>2, <2>1, <2>7, <3>1 DEF Covered
  <2>10. c \in subs' <=> client'[c] \in {"entered", "built", "ready", "open", "dropped"}
    BY <1>0, <2>1, Types DEF SubscribersExplained
  <2>11. \A d \in Clients \ {c} : client'[d] = client[d] /\ (d \in subs' <=> d \in subs)
    BY <1>0, <2>1, Types
  <2> QED BY <1>3, <2>1, <2>3, <2>8, <2>9, <2>10, <2>11
<1> QED BY <1>4, <1>5, <1>6, <1>7 DEF LoopStep

\* ... and every step of a stream keeps it.
LEMMA StreamInvStep == StreamInv /\ [StreamNext]_streamVars => StreamInv'
<1> SUFFICES ASSUME StreamInv, [StreamNext]_streamVars
             PROVE  NoneNewer' /\ DeliverInv' /\ SubscribersExplained'
  BY StreamTypeStep DEF StreamInv
<1>1. CASE StreamNext
  BY <1>1, ThreadStep, ClientStep DEF StreamNext
<1>2. CASE UNCHANGED streamVars
  BY <1>2 DEF StreamInv, streamVars, NoneNewer, DeliverInv, SubscribersExplained, Covered, Sent,
     OnItsWay
<1> QED BY <1>1, <1>2

\* When no thread is notifying, a client that listens has been sent the
\* current state of the job or is about to be, unless its queue overran; and
\* a queue is registered exactly while its stream is set up or runs, or was
\* abandoned before its generator started.
THEOREM StreamSoundHolds == StreamSpec => []StreamSound
<1>1. StreamInv => StreamSound
  <2> SUFFICES ASSUME StreamInv, \A t \in Threads : notifier[t].at = "rest",
                      NEW c \in Clients \ overrun, client[c] \in {"ready", "open"}
               PROVE  state.n \in Sent(c)
    BY DEF StreamSound, CurrentDelivered, StreamInv
  <2>1. ~OnItsWay
    BY DEF OnItsWay
  <2> QED BY <2>1 DEF StreamInv, DeliverInv, Covered
<1> QED BY StreamInitInv, StreamInvStep, <1>1, PTL DEF StreamSpec

-----------------------------------------------------------------------------
(***************************************************************************)
(* AgentRuns, for any number of tasks, readers and cancellations.          *)
(***************************************************************************)
HIDE StreamAssumption
USE AgentAssumption

-----------------------------------------------------------------------------
(* Types.                                                                  *)

\* What a put and an end leave well typed.
LEMMA PutType ==
  ASSUME AgentTypeOK, NEW w \in Writers, (\E e \in Kinds : Put(w, e)) \/ Done(w)
  PROVE  /\ log' \subseteq Kinds /\ over' \in BOOLEAN /\ split' \subseteq Readers
         /\ out' \in [Writers -> Kinds \cup {"none"}] /\ missed' \subseteq Readers
BY DEF AgentTypeOK, Put, Done, Kinds, Joining, KeepTask

\* The tasks, the server and the drain are the writers of the log.
LEMMA WriterKinds == /\ Tasks \subseteq Writers /\ "server" \in Writers /\ "drain" \in Writers
                     /\ "work" \in Kinds /\ "error" \in Kinds /\ "done" \in Kinds
                     /\ "complete" \in Kinds /\ "cancelled" \in Kinds
BY DEF Writers, Kinds

\* The steps of a task.
LEMMA TaskType ==
  ASSUME AgentTypeOK, NEW k \in Tasks,
         TaskStep(k) \/ Emit(k) \/ Return(k) \/ Raise(k) \/ RunAgent(k)
  PROVE  AgentTypeOK'
<1> USE DEF KeepServer, KeepTask
<1>1. task' \in [Tasks -> {"new", "created", "graph", "failing", "closing", "closed",
                           "leaving", "ended"}]
  BY DEF AgentTypeOK, TaskStep, Start, Emit, Return, Raise, Fail, Interrupt, Complete, Leave,
         RunAgent, Step
<1>2. worker' \in Tasks \cup {"none"} /\ asked' \subseteq Tasks /\ resumed' \in BOOLEAN
  BY DEF AgentTypeOK, TaskStep, Start, Emit, Return, Raise, Fail, Interrupt, Complete, Leave,
         RunAgent, DropHandle
<1>3. UNCHANGED <<readers, place, got, cancels>>
  BY DEF TaskStep, Start, Emit, Return, Raise, Fail, Interrupt, Complete, Leave, RunAgent
<1>4. /\ log' \subseteq Kinds /\ over' \in BOOLEAN /\ split' \subseteq Readers
      /\ out' \in [Writers -> Kinds \cup {"none"}] /\ missed' \subseteq Readers
  <2>1. CASE Leave(k) \/ RunAgent(k)
    BY <2>1 DEF Leave, RunAgent, AgentTypeOK
  <2>2. CASE ~(Leave(k) \/ RunAgent(k))
    <3>1. (\E e \in Kinds : Put(k, e)) \/ Done(k)
      BY <2>2, WriterKinds
         DEF TaskStep, Start, Emit, Return, Raise, Fail, Interrupt, CancelDone, Complete
    <3> QED BY <3>1, PutType, WriterKinds
  <2> QED BY <2>1, <2>2
<1> QED BY <1>1, <1>2, <1>3, <1>4 DEF AgentTypeOK

\* The steps of the server, of the drain and of the connections.
LEMMA ServerType ==
  ASSUME AgentTypeOK,
         \/ CancelRun \/ Drain
         \/ \E w \in Writers : FanOut(w)
         \/ \E c \in Readers : Replay(c) \/ CheckOver(c) \/ Register(c) \/ Read(c) \/ Wait(c)
  PROVE  AgentTypeOK'
<1> USE DEF KeepTask
<1>1. CASE CancelRun \/ Drain
  <2>1. Put("server", "cancelled") \/ Put("drain", "work")
    BY <1>1 DEF CancelRun, Drain
  <2>2. /\ log' \subseteq Kinds /\ over' \in BOOLEAN /\ split' \subseteq Readers
        /\ out' \in [Writers -> Kinds \cup {"none"}] /\ missed' \subseteq Readers
    BY <2>1, PutType, WriterKinds
  <2>3. asked' \subseteq Tasks /\ cancels' \in 0..MaxCancels
    BY <1>1 DEF CancelRun, Drain, KeepServer, AgentTypeOK
  <2>4. UNCHANGED <<task, worker, readers, place, got, resumed>>
    BY <1>1 DEF CancelRun, Drain, KeepServer
  <2> QED BY <2>2, <2>3, <2>4 DEF AgentTypeOK
<1>2. ASSUME NEW w \in Writers, FanOut(w)
      PROVE  AgentTypeOK'
  <2>1. out' \in [Writers -> Kinds \cup {"none"}]
    BY <1>2 DEF FanOut, AgentTypeOK
  <2>2. out[w] \in Kinds
    BY <1>2 DEF FanOut, AgentTypeOK
  <2>3. got' \in [Readers -> SUBSET Kinds] /\ missed' \subseteq Readers
    BY <1>2, <2>2 DEF FanOut, AgentTypeOK
  <2>4. place' \in [Readers -> Places]
    BY <1>2 DEF FanOut, AgentTypeOK, Places
  <2>5. UNCHANGED <<task, worker, asked, log, over, readers, cancels, split, resumed>>
    BY <1>2 DEF FanOut
  <2> QED BY <2>1, <2>3, <2>4, <2>5 DEF AgentTypeOK
<1>3. ASSUME NEW c \in Readers,
             Replay(c) \/ CheckOver(c) \/ Register(c) \/ Read(c) \/ Wait(c)
      PROVE  AgentTypeOK'
  <2>1. place' \in [Readers -> Places]
    BY <1>3 DEF Replay, CheckOver, Register, Read, Wait, AgentTypeOK, Places
  <2>2. got' \in [Readers -> SUBSET Kinds]
    BY <1>3, WriterKinds DEF Replay, CheckOver, Register, Read, Wait, AgentTypeOK
  <2>3. readers' \subseteq Readers /\ split' \subseteq Readers
    BY <1>3 DEF Replay, CheckOver, Register, Read, Wait, AgentTypeOK
  <2>4. UNCHANGED <<task, worker, asked, log, over, out, cancels, missed, resumed>>
    BY <1>3 DEF Replay, CheckOver, Register, Read, Wait
  <2> QED BY <2>1, <2>2, <2>3, <2>4 DEF AgentTypeOK
<1> QED BY <1>1, <1>2, <1>3

\* Every step is one of a task, one of the drain or one of the server.
LEMMA NextSplit ==
  AgentNext =>
    \/ \E k \in Tasks : TaskStep(k) \/ Emit(k) \/ Return(k) \/ Raise(k) \/ RunAgent(k)
    \/ CancelRun \/ Drain
    \/ \E w \in Writers : FanOut(w)
    \/ \E c \in Readers : Replay(c) \/ CheckOver(c) \/ Register(c) \/ Read(c) \/ Wait(c)
BY DEF AgentNext, ConnStep

\* The state in which the agent begins has its types, ...
LEMMA AgentInitType == AgentInit => AgentTypeOK
<1> SUFFICES ASSUME AgentInit PROVE AgentTypeOK
  OBVIOUS
<1>1. over \in BOOLEAN /\ resumed \in BOOLEAN
  BY DEF AgentInit
<1>2. /\ task \in [Tasks -> {"new", "created", "graph", "failing", "closing", "closed",
                            "leaving", "ended"}]
      /\ worker \in Tasks \cup {"none"} /\ asked \subseteq Tasks /\ log \subseteq Kinds
      /\ out \in [Writers -> Kinds \cup {"none"}]
      /\ readers \subseteq Readers /\ split \subseteq Readers /\ missed \subseteq Readers
      /\ place \in [Readers -> Places]
  BY DEF AgentInit, Places
<1>3. got \in [Readers -> SUBSET Kinds] /\ cancels \in 0..MaxCancels
  BY DEF AgentInit
<1> QED BY <1>1, <1>2, <1>3 DEF AgentTypeOK

\* ... and every step of it keeps them.
LEMMA AgentTypeStep == AgentTypeOK /\ [AgentNext]_agentVars => AgentTypeOK'
<1>1. AgentTypeOK /\ AgentNext => AgentTypeOK'
  BY NextSplit, TaskType, ServerType
<1>2. AgentTypeOK /\ UNCHANGED agentVars => AgentTypeOK'
  BY DEF agentVars, AgentTypeOK
<1> QED BY <1>1, <1>2

\* Every variable keeps its type.
THEOREM AgentTypeCorrect == AgentSpec => []AgentTypeOK
BY AgentInitType, AgentTypeStep, PTL DEF AgentSpec

-----------------------------------------------------------------------------
(* The handle.                                                             *)

\* A worker that is registered is alive, and only a resumed run has another.
LEMMA HandleStep == AgentTypeOK /\ HandleTrue /\ [AgentNext]_agentVars => HandleTrue'
<1> SUFFICES ASSUME AgentTypeOK, HandleTrue, [AgentNext]_agentVars PROVE HandleTrue'
  OBVIOUS
<1> USE DEF HandleTrue, Alive, KeepServer, KeepTask
<1>0. task \in [Tasks -> {"new", "created", "graph", "failing", "closing", "closed",
                          "leaving", "ended"}]
      /\ worker \in Tasks \cup {"none"} /\ resumed \in BOOLEAN
  BY DEF AgentTypeOK
<1>1. ASSUME NEW k \in Tasks, RunAgent(k)
      PROVE  HandleTrue'
  BY <1>0, <1>1 DEF RunAgent
<1>2. ASSUME NEW k \in Tasks, Leave(k)
      PROVE  HandleTrue'
  BY <1>0, <1>2 DEF Leave, Step, DropHandle
<1>3. ASSUME NEW k \in Tasks,
             \/ Start(k) \/ Emit(k) \/ Return(k) \/ Raise(k) \/ Fail(k) \/ Interrupt(k)
             \/ Complete(k)
      PROVE  HandleTrue'
  <2>1. UNCHANGED <<worker, resumed>>
    BY <1>3 DEF Start, Emit, Return, Raise, Fail, Interrupt, Complete
  <2>2. \A j \in Tasks : Alive(j)' <=> Alive(j)
    BY <1>0, <1>3 DEF Start, Emit, Return, Raise, Fail, Interrupt, Complete, Step
  <2> QED BY <1>0, <2>1, <2>2
<1>4. CASE \/ CancelRun \/ Drain
           \/ \E w \in Writers : FanOut(w)
           \/ \E c \in Readers : Replay(c) \/ CheckOver(c) \/ Register(c) \/ Read(c) \/ Wait(c)
  <2>1. UNCHANGED <<task, worker, resumed>>
    BY <1>4 DEF CancelRun, Drain, FanOut, Replay, CheckOver, Register, Read, Wait
  <2> QED BY <2>1
<1>5. CASE UNCHANGED agentVars
  BY <1>5 DEF agentVars
<1>6. CASE AgentNext
  BY <1>1, <1>2, <1>3, <1>4, <1>6, NextSplit DEF TaskStep
<1> QED BY <1>5, <1>6

-----------------------------------------------------------------------------
(* The record and the queues.                                              *)

Pending == {out[w] : w \in Writers}

\* A reader whose subscription met no half-put event: before it is registered
\* its queue holds the whole record; after, whatever is missing is on its way.
ReaderInv == \A c \in Readers \ split :
  /\ place[c] \in {"replayed", "checked"} => log \subseteq got[c]
  /\ Connected(c) => c \in readers /\ log \subseteq got[c] \cup Pending

\* A put or an end takes nothing away that is on its way.
LEMMA PutReader ==
  ASSUME AgentTypeOK, ReaderInv, NEW w \in Writers, (\E e \in Kinds : Put(w, e)) \/ Done(w),
         UNCHANGED <<readers, place, got>>
  PROVE  ReaderInv'
<1>0. out \in [Writers -> Kinds \cup {"none"}] /\ log \subseteq Kinds /\ "none" \notin Kinds
  BY DEF AgentTypeOK, Kinds
<1>1. CASE UNCHANGED <<log, out, split>>
  BY <1>1 DEF ReaderInv, Pending, Connected
<1>2. CASE \E e \in Kinds : /\ out[w] = "none" /\ log' = log \cup {e}
                            /\ out' = [out EXCEPT ![w] = e] /\ split' = split \cup Joining
  <2>1. PICK e \in Kinds : /\ out[w] = "none" /\ log' = log \cup {e}
                           /\ out' = [out EXCEPT ![w] = e] /\ split' = split \cup Joining
    BY <1>2
  <2>2. Pending \ {"none"} \subseteq Pending' /\ e \in Pending'
    BY <1>0, <2>1 DEF Pending
  <2>3. log' \subseteq log \cup Pending'
    BY <2>1, <2>2
  <2>4. ASSUME NEW c \in Readers \ split'
        PROVE  /\ place'[c] \notin {"replayed", "checked"}
               /\ Connected(c)' => c \in readers' /\ log' \subseteq got'[c] \cup Pending'
    <3>1. c \in Readers \ split /\ c \notin Joining
      BY <2>1, <2>4
    <3>2. Connected(c) => c \in readers /\ log \subseteq got[c] \cup Pending
      BY <3>1 DEF ReaderInv
    <3>3. log \subseteq got[c] \cup Pending => log' \subseteq got'[c] \cup Pending'
      BY <1>0, <2>2, <2>3
    <3> QED BY <3>1, <3>2, <3>3 DEF Joining, Connected
  <2> QED BY <2>4 DEF ReaderInv
<1> QED BY <1>1, <1>2, WriterKinds DEF Put, Done, KeepTask

\* ReaderInv, for every step of the agent.
LEMMA ReaderStep == AgentTypeOK /\ ReaderInv /\ [AgentNext]_agentVars => ReaderInv'
<1> SUFFICES ASSUME AgentTypeOK, ReaderInv, [AgentNext]_agentVars PROVE ReaderInv'
  OBVIOUS
<1> USE DEF KeepServer, KeepTask
<1>0. /\ out \in [Writers -> Kinds \cup {"none"}] /\ log \subseteq Kinds /\ "none" \notin Kinds
      /\ got \in [Readers -> SUBSET Kinds] /\ place \in [Readers -> Places]
  BY DEF AgentTypeOK, Kinds
<1>1. ASSUME NEW k \in Tasks, Leave(k) \/ RunAgent(k)
      PROVE  ReaderInv'
  <2>1. UNCHANGED <<log, out, split, readers, place, got>>
    BY <1>1 DEF Leave, RunAgent
  <2> QED BY <2>1 DEF ReaderInv, Pending, Connected
<1>2. ASSUME NEW k \in Tasks,
             \/ Start(k) \/ Emit(k) \/ Return(k) \/ Raise(k) \/ Fail(k) \/ Interrupt(k)
             \/ Complete(k)
      PROVE  ReaderInv'
  <2>1. (\E e \in Kinds : Put(k, e)) \/ Done(k)
    BY <1>2, WriterKinds DEF Start, Emit, Return, Raise, Fail, Interrupt, CancelDone, Complete
  <2>2. UNCHANGED <<readers, place, got>>
    BY <1>2 DEF Start, Emit, Return, Raise, Fail, Interrupt, Complete
  <2> QED BY <2>1, <2>2, PutReader, WriterKinds
<1>3. CASE CancelRun \/ Drain
  <2>1. /\ Put("server", "cancelled") \/ Put("drain", "work")
        /\ UNCHANGED <<readers, place, got>>
    BY <1>3 DEF CancelRun, Drain
  <2> QED BY <2>1, PutReader, WriterKinds
<1>4. ASSUME NEW w \in Writers, FanOut(w)
      PROVE  ReaderInv'
  <2>1. /\ UNCHANGED <<log, split, readers>> /\ out[w] # "none"
        /\ out' = [out EXCEPT ![w] = "none"]
        /\ got' = [c \in Readers |-> IF c \in Reaches(out[w]) THEN got[c] \cup {out[w]}
                                    ELSE got[c]]
    BY <1>4 DEF FanOut
  <2>2. \A c \in Readers : \/ place'[c] = place[c]
                           \/ place[c] = "waiting" /\ place'[c] = "open"
    BY <1>4 DEF FanOut
  <2>3. \A c \in Readers : got[c] \subseteq got'[c] /\ (c \in readers => out[w] \in got'[c])
    BY <1>0, <2>1 DEF Reaches
  <2>4. Pending \subseteq Pending' \cup {out[w]}
    BY <1>0, <2>1 DEF Pending
  <2> QED BY <1>0, <2>1, <2>3, <2>4, <2>2 DEF ReaderInv, Connected
<1>5. ASSUME NEW c \in Readers, Replay(c)
      PROVE  ReaderInv'
  <2>1. /\ UNCHANGED <<log, out, readers>> /\ place' = [place EXCEPT ![c] = "replayed"]
        /\ got' = [got EXCEPT ![c] = log] /\ split \subseteq split'
    BY <1>5 DEF Replay
  <2>2. Pending' = Pending
    BY <2>1 DEF Pending
  <2> QED BY <1>0, <2>1, <2>2 DEF ReaderInv, Connected
<1>6. ASSUME NEW c \in Readers, CheckOver(c)
      PROVE  ReaderInv'
  <2>1. /\ UNCHANGED <<log, out, split, readers>> /\ place' = [place EXCEPT ![c] = "checked"]
        /\ place[c] = "replayed"
        /\ \A d \in Readers : got[d] \subseteq got'[d]
    BY <1>0, <1>6 DEF CheckOver
  <2>2. Pending' = Pending
    BY <2>1 DEF Pending
  <2> QED BY <1>0, <2>1, <2>2 DEF ReaderInv, Connected
<1>7. ASSUME NEW c \in Readers, Register(c)
      PROVE  ReaderInv'
  <2>1. /\ UNCHANGED <<log, out, split, got>> /\ place' = [place EXCEPT ![c] = "open"]
        /\ place[c] = "checked" /\ readers' = readers \cup {c}
    BY <1>7 DEF Register
  <2>2. Pending' = Pending
    BY <2>1 DEF Pending
  <2> QED BY <1>0, <2>1, <2>2 DEF ReaderInv, Connected
<1>8. ASSUME NEW c \in Readers, Read(c) \/ Wait(c)
      PROVE  ReaderInv'
  <2>1. /\ UNCHANGED <<log, out, split, got, readers>>
        /\ \/ place[c] = "open" /\ place' \in {[place EXCEPT ![c] = "closed"],
                                              [place EXCEPT ![c] = "empty"]}
           \/ place[c] = "empty" /\ place' = [place EXCEPT ![c] = "waiting"]
    BY <1>8 DEF Read, Wait
  <2>2. Pending' = Pending
    BY <2>1 DEF Pending
  <2> QED BY <1>0, <2>1, <2>2 DEF ReaderInv, Connected
<1>9. CASE UNCHANGED agentVars
  BY <1>9 DEF agentVars, ReaderInv, Pending, Connected
<1>10. CASE AgentNext
  BY <1>1, <1>2, <1>3, <1>4, <1>5, <1>6, <1>7, <1>8, <1>10, NextSplit DEF TaskStep
<1> QED BY <1>9, <1>10

-----------------------------------------------------------------------------
(* The theorems.                                                           *)

\* The cancel endpoint finds a task that executes, and finds every one that
\* does unless a resume was accepted over one; and a connected reader has been
\* sent every kind of event in the record when none is on its way, unless
\* its subscription met an event half put.
THEOREM AgentSoundHolds == AgentSpec => []AgentSound
<1> DEFINE AgentInv == AgentTypeOK /\ HandleTrue /\ ReaderInv
<1>1. AgentInit => AgentInv
  <2>1. AgentInit => HandleTrue /\ ReaderInv
    BY DEF AgentInit, HandleTrue, Alive, ReaderInv, Connected
  <2> QED BY <2>1, AgentInitType
<1>2. AgentInv /\ [AgentNext]_agentVars => AgentInv'
  BY AgentTypeStep, HandleStep, ReaderStep
<1>3. AgentInv => AgentSound
  <2> SUFFICES ASSUME AgentInv, \A w \in Writers : out[w] = "none",
                      NEW c \in Readers \ split, Connected(c)
               PROVE  log \subseteq got[c]
    BY DEF AgentSound, ReaderComplete
  <2>1. Pending \subseteq {"none"}
    BY DEF Pending
  <2>2. log \subseteq got[c] \cup Pending /\ log \subseteq Kinds /\ "none" \notin Kinds
    BY DEF ReaderInv, AgentTypeOK, Kinds
  <2> QED BY <2>1, <2>2
<1> QED BY <1>1, <1>2, <1>3, PTL DEF AgentSpec

-----------------------------------------------------------------------------
(***************************************************************************)
(* EmbeddingPipeline, for any number of callers, request ids, batches and  *)
(* retries.                                                                *)
(***************************************************************************)
HIDE AgentAssumption
USE EmbedAssumption

-----------------------------------------------------------------------------
(* Types.                                                                  *)

\* The state in which the pipeline begins has its types.
LEMMA EmbedInitType == EmbedInit => EmbedTypeOK
<1> SUFFICES ASSUME EmbedInit PROVE EmbedTypeOK
  OBVIOUS
<1>1. (CHOOSE id \in Ids : TRUE) \in Ids
  OBVIOUS
<1>2. call \in [Callers -> [id : Ids, n : 0..MaxBatches]]
  <2> DEFINE first == CHOOSE id \in Ids : TRUE
  <2>1. call = [c \in Callers |-> [id |-> first, n |-> 0]] /\ first \in Ids
    BY <1>1 DEF EmbedInit
  <2> HIDE DEF first
  <2> QED BY <2>1
<1>3. /\ answer \in [Callers -> Answers \cup {"none"}] /\ inHand \subseteq Batches
      /\ history \in [RequestIds -> {"completed", "failed", Absent}]
      /\ stored \subseteq Batches /\ failed \subseteq Batches /\ loopEnded \in BOOLEAN
  BY DEF EmbedInit
<1>4. requests \in Seq(Batches) /\ retries \in 0..(MaxRetries - 1)
  BY DEF EmbedInit
<1> QED BY <1>2, <1>3, <1>4 DEF EmbedTypeOK

\* A batch and its request.
LEMMA BatchIds ==
  ASSUME EmbedTypeOK, NEW b \in Batches
  PROVE  /\ b[1] \in Callers /\ b[2] \in 1..MaxBatches
         /\ RequestId(b) \in RequestIds /\ RequestId(b)[1] = call[b[1]].id
BY DEF EmbedTypeOK, Batches, RequestId, RequestIds

\* What a caller hands in joins the queue, its own batches behind the others.
LEMMA QueuedBatches ==
  ASSUME EmbedTypeOK, NEW c \in Callers, NEW n \in 1..MaxBatches,
         requests' = requests \o [i \in 1..n |-> <<c, i>>]
  PROVE  /\ requests' \in Seq(Batches)
         /\ \A i \in DOMAIN requests' :
              \/ \E j \in DOMAIN requests : requests'[i] = requests[j]
              \/ \E m \in 1..n : requests'[i] = <<c, m>>
<1> DEFINE new == [i \in 1..n |-> <<c, i>>]
<1>1. new \in Seq(Batches) /\ Len(new) = n
  BY DEF Batches
<1>2. requests \in Seq(Batches)
  BY DEF EmbedTypeOK
<1>3. \A i \in 1..n : new[i] = <<c, i>>
  OBVIOUS
<1> HIDE DEF new
<1>4. /\ requests \o new \in Seq(Batches) /\ Len(requests \o new) = Len(requests) + n
      /\ \A i \in 1..(Len(requests) + n) :
           (requests \o new)[i] = IF i <= Len(requests) THEN requests[i]
                                  ELSE new[i - Len(requests)]
  BY <1>1, <1>2, ConcatProperties
<1>5. requests' = requests \o new
  BY DEF new
<1>6. Len(requests) \in Nat /\ DOMAIN requests = 1..Len(requests)
      /\ DOMAIN requests' = 1..(Len(requests) + n)
  BY <1>2, <1>4, <1>5, LenProperties
<1>7. ASSUME NEW i \in DOMAIN requests'
      PROVE  \/ \E j \in DOMAIN requests : requests'[i] = requests[j]
             \/ \E m \in 1..n : requests'[i] = <<c, m>>
  <2>1. CASE i <= Len(requests)
    BY <1>4, <1>5, <1>6, <2>1
  <2>2. CASE ~(i <= Len(requests))
    <3>1. i - Len(requests) \in 1..n
      BY <1>6, <2>2
    <3> QED BY <1>3, <1>4, <1>5, <1>6, <2>2, <3>1
  <2> QED BY <2>1, <2>2
<1> QED BY <1>4, <1>5, <1>7

\* The batch the worker takes is a batch, and the rest stays queued.
LEMMA TakenBatch ==
  ASSUME EmbedTypeOK, requests # <<>>
  PROVE  /\ Tail(requests) \in Seq(Batches) /\ Head(requests) \in Batches
         /\ 1 \in DOMAIN requests /\ Head(requests) = requests[1]
         /\ \A i \in DOMAIN Tail(requests) :
              \E j \in DOMAIN requests : Tail(requests)[i] = requests[j]
<1>1. requests \in Seq(Batches)
  BY DEF EmbedTypeOK
<1>2. /\ Head(requests) \in Batches /\ Tail(requests) \in Seq(Batches)
      /\ Len(Tail(requests)) = Len(requests) - 1
      /\ \A i \in 1..Len(Tail(requests)) : Tail(requests)[i] = requests[i + 1]
  BY <1>1, HeadTailProperties
<1>3. Len(requests) \in Nat \ {0} /\ DOMAIN requests = 1..Len(requests)
      /\ DOMAIN Tail(requests) = 1..Len(Tail(requests))
  BY <1>1, <1>2, LenProperties, EmptySeq
<1>4. Head(requests) = requests[1]
  BY <1>1
<1>5. \A i \in DOMAIN Tail(requests) : i + 1 \in DOMAIN requests
  BY <1>2, <1>3
<1> QED BY <1>2, <1>3, <1>4, <1>5

\* Every step of the pipeline keeps the types.
LEMMA EmbedTypeStep == EmbedTypeOK /\ [EmbedNext]_embedVars => EmbedTypeOK'
<1> SUFFICES ASSUME EmbedTypeOK, [EmbedNext]_embedVars PROVE EmbedTypeOK'
  OBVIOUS
<1>1. ASSUME NEW c \in Callers, NEW id \in Ids, NEW n \in 1..MaxBatches, Submit(c, id, n)
      PROVE  EmbedTypeOK'
  <2>1. call' \in [Callers -> [id : Ids, n : 0..MaxBatches]]
    BY <1>1 DEF Submit, EmbedTypeOK
  <2>2. requests' \in Seq(Batches)
    BY <1>1, QueuedBatches DEF Submit
  <2>3. UNCHANGED <<answer, inHand, retries, history, stored, failed, loopEnded>>
    BY <1>1 DEF Submit
  <2> QED BY <2>1, <2>2, <2>3 DEF EmbedTypeOK
<1>2. CASE TakeRequest
  <2>1. requests' \in Seq(Batches) /\ inHand' \subseteq Batches
    BY <1>2, TakenBatch DEF TakeRequest, Rest
  <2>2. retries' \in 0..(MaxRetries - 1)
    BY <1>2 DEF TakeRequest
  <2>3. UNCHANGED <<call, answer, history, stored, failed, loopEnded>>
    BY <1>2 DEF TakeRequest
  <2> QED BY <2>1, <2>2, <2>3 DEF EmbedTypeOK
<1>3. CASE Store
  <2>1. PICK b \in inHand : stored' = stored \cup {b} /\ Record(b, "completed")
    BY <1>3 DEF Store
  <2>2. b \in Batches
    BY DEF EmbedTypeOK
  <2>3. history' \in [RequestIds -> {"completed", "failed", Absent}]
    BY <2>1, <2>2, BatchIds DEF Record, EmbedTypeOK
  <2>4. stored' \subseteq Batches /\ inHand' \subseteq Batches
    BY <1>3, <2>1, <2>2 DEF Store, EmbedTypeOK
  <2>5. retries' \in 0..(MaxRetries - 1)
    BY <1>3 DEF Store
  <2>6. UNCHANGED <<call, answer, requests, failed, loopEnded>>
    BY <1>3 DEF Store
  <2> QED BY <2>3, <2>4, <2>5, <2>6 DEF EmbedTypeOK
<1>4. CASE Attempt
  <2>1. PICK b \in inHand :
          /\ stored' \in {stored, stored \cup {b}}
          /\ IF retries + 1 >= MaxRetries
             THEN /\ Record(b, "failed") /\ failed' = failed \cup {b}
                  /\ inHand' = {} /\ retries' = 0
             ELSE retries' = retries + 1 /\ UNCHANGED <<history, failed, inHand>>
    BY <1>4 DEF Attempt
  <2>2. b \in Batches
    BY DEF EmbedTypeOK
  <2>3. history' \in [RequestIds -> {"completed", "failed", Absent}]
    BY <2>1, <2>2, BatchIds DEF Record, EmbedTypeOK
  <2>4. stored' \subseteq Batches /\ failed' \subseteq Batches /\ inHand' \subseteq Batches
    BY <2>1, <2>2 DEF EmbedTypeOK
  <2>5. retries' \in 0..(MaxRetries - 1)
    BY <2>1 DEF EmbedTypeOK
  <2>6. UNCHANGED <<call, answer, requests, loopEnded>>
    BY <1>4 DEF Attempt
  <2> QED BY <2>3, <2>4, <2>5, <2>6 DEF EmbedTypeOK
<1>5. ASSUME NEW c \in Callers, Poll(c) \/ GiveUpWaiting(c)
      PROVE  EmbedTypeOK'
  <2>1. answer' \in [Callers -> Answers \cup {"none"}]
    BY <1>5 DEF Poll, GiveUpWaiting, EmbedTypeOK, Answers
  <2>2. UNCHANGED <<call, requests, inHand, retries, history, stored, failed, loopEnded>>
    BY <1>5 DEF Poll, GiveUpWaiting
  <2> QED BY <2>1, <2>2 DEF EmbedTypeOK
<1>6. CASE LoopEnds
  BY <1>6 DEF LoopEnds, EmbedTypeOK
<1>7. CASE UNCHANGED embedVars
  BY <1>7 DEF embedVars, EmbedTypeOK
<1> QED BY <1>1, <1>2, <1>3, <1>4, <1>5, <1>6, <1>7 DEF EmbedNext

\* Every variable keeps its type.
THEOREM EmbedTypeCorrect == EmbedSpec => []EmbedTypeOK
BY EmbedInitType, EmbedTypeStep, PTL DEF EmbedSpec

-----------------------------------------------------------------------------
(* The inductive invariant.                                                *)

\* What is queued or in hand belongs to a call that was made.
OwnedBatches ==
  /\ \A i \in DOMAIN requests : requests[i] \in BatchesOf(requests[i][1])
  /\ \A b \in inHand : b \in BatchesOf(b[1])

\* Nobody is answered before it asks.
Unasked == \A c \in Callers : call[c].n = 0 => answer[c] = "none"

\* The history speaks of ids that some call has.
KnownIds == \A k \in RequestIds :
  history[k] # Absent => \E d \in Callers : call[d].n > 0 /\ call[d].id = k[1]

\* Of a caller that shares its id with no other, the history speaks the truth.
HistoryTrue == \A c \in Callers : call[c].n > 0 /\ ~Shares(c) =>
  \A b \in BatchesOf(c) :
    /\ history[RequestId(b)] = "completed" => b \in stored
    /\ history[RequestId(b)] = "failed" => b \in failed

EmbedInv == EmbedTypeOK /\ OwnedBatches /\ Unasked /\ KnownIds /\ HistoryTrue /\ AnswerTrue

\* The batches of a caller, and what they are called.
LEMMA BatchesOfCaller ==
  ASSUME EmbedTypeOK, NEW c \in Callers
  PROVE  /\ BatchesOf(c) \subseteq Batches /\ call[c].n \in 0..MaxBatches /\ call[c].id \in Ids
         /\ \A b \in BatchesOf(c) : b[1] = c /\ b[2] \in 1..call[c].n /\ b = <<c, b[2]>>
<1>1. call[c].n \in 0..MaxBatches /\ call[c].id \in Ids
  BY DEF EmbedTypeOK
<1>2. BatchesOf(c) \subseteq Batches
  BY <1>1 DEF BatchesOf, Batches
<1>3. \A b \in BatchesOf(c) : b[1] = c /\ b[2] \in 1..call[c].n /\ b = <<c, b[2]>>
  BY DEF BatchesOf
<1> QED BY <1>1, <1>2, <1>3

\* Two batches of calls that were made have one request id only if they are
\* one batch or their callers share an id.
LEMMA RequestIdInjective ==
  ASSUME EmbedTypeOK, NEW c \in Callers, NEW d \in Callers, ~Shares(c),
         NEW b \in BatchesOf(c), NEW e \in BatchesOf(d), RequestId(b) = RequestId(e)
  PROVE  b = e
<1>1. /\ b \in Batches /\ e \in Batches /\ b[1] = c /\ e[1] = d
      /\ b[2] \in 1..call[c].n /\ e[2] \in 1..call[d].n
      /\ b = <<c, b[2]>> /\ e = <<d, e[2]>>
      /\ call[c].n \in 0..MaxBatches /\ call[d].n \in 0..MaxBatches
  BY BatchesOfCaller
<1>2. call[c].id = call[d].id
  BY <1>1, BatchIds
<1>3. c = d
  BY <1>1, <1>2 DEF Shares
<1>4. b[2] = e[2]
  BY <1>1, <1>3 DEF RequestId
<1> QED BY <1>1, <1>3, <1>4

\* A record of the batch in hand keeps the history true, if it is true of it.
LEMMA RecordTrue ==
  ASSUME EmbedInv, NEW b \in inHand, NEW outcome \in {"completed", "failed"},
         Record(b, outcome), call' = call, answer' = answer,
         stored \subseteq stored', failed \subseteq failed',
         outcome = "completed" => b \in stored', outcome = "failed" => b \in failed'
  PROVE  KnownIds' /\ HistoryTrue' /\ AnswerTrue'
<1>1. /\ b \in Batches /\ b \in BatchesOf(b[1]) /\ b[1] \in Callers
      /\ history \in [RequestIds -> {"completed", "failed", Absent}]
      /\ RequestId(b) \in RequestIds /\ RequestId(b)[1] = call[b[1]].id
      /\ call[b[1]].n > 0
  <2>1. b \in Batches /\ b \in BatchesOf(b[1])
    BY DEF EmbedInv, EmbedTypeOK, OwnedBatches
  <2>2. b[1] \in Callers
    BY <2>1, BatchIds DEF EmbedInv
  <2>3. b[2] \in 1..call[b[1]].n /\ call[b[1]].n \in 0..MaxBatches
    BY <2>1, <2>2, BatchesOfCaller DEF EmbedInv
  <2>4. call[b[1]].n > 0
    BY <2>3
  <2> QED BY <2>1, <2>2, <2>4, BatchIds DEF EmbedInv, EmbedTypeOK
<1>2. history' = [history EXCEPT ![RequestId(b)] = outcome]
  BY DEF Record
<1>3. KnownIds'
  BY <1>1, <1>2 DEF KnownIds, EmbedInv
<1>4. ASSUME NEW c \in Callers
      PROVE  (Shares(c)' <=> Shares(c)) /\ BatchesOf(c)' = BatchesOf(c)
  BY DEF Shares, BatchesOf
<1>5. \A e \in Batches : RequestId(e)' = RequestId(e)
  BY DEF RequestId
<1>6. ASSUME NEW c \in Callers, call[c].n > 0, ~Shares(c), NEW e \in BatchesOf(c)
      PROVE  /\ history'[RequestId(e)] = "completed" => e \in stored'
             /\ history'[RequestId(e)] = "failed" => e \in failed'
  <2>1. e \in Batches /\ RequestId(e) \in RequestIds
    BY BatchesOfCaller, BatchIds DEF EmbedInv
  <2>2. CASE RequestId(e) = RequestId(b)
    <3>1. e = b
      BY <1>1, <1>6, <2>2, RequestIdInjective DEF EmbedInv
    <3> QED BY <1>1, <1>2, <3>1
  <2>3. CASE RequestId(e) # RequestId(b)
    <3>1. history'[RequestId(e)] = history[RequestId(e)]
      BY <1>1, <1>2, <2>1, <2>3
    <3> QED BY <1>6, <3>1 DEF EmbedInv, HistoryTrue
  <2> QED BY <2>2, <2>3
<1>7. HistoryTrue'
  <2> SUFFICES ASSUME NEW c \in Callers, call[c].n > 0, ~Shares(c), NEW e \in BatchesOf(c)
               PROVE  /\ history'[RequestId(e)'] = "completed" => e \in stored'
                      /\ history'[RequestId(e)'] = "failed" => e \in failed'
    BY <1>4 DEF HistoryTrue
  <2>1. RequestId(e)' = RequestId(e)
    BY <1>5, BatchesOfCaller DEF EmbedInv
  <2> QED BY <1>6, <2>1
<1>8. AnswerTrue'
  BY <1>4 DEF AnswerTrue, EmbedInv
<1> QED BY <1>3, <1>7, <1>8

\* The invariant of the pipeline begins true, ...
LEMMA EmbedInitInv == EmbedInit => EmbedInv
<1> SUFFICES ASSUME EmbedInit PROVE EmbedInv
  OBVIOUS
<1>1. EmbedTypeOK
  BY EmbedInitType
<1>2. OwnedBatches /\ Unasked
  BY DEF EmbedInit, OwnedBatches, Unasked
<1>3. KnownIds
  BY DEF EmbedInit, KnownIds
<1>4. HistoryTrue /\ AnswerTrue
  <2> DEFINE first == CHOOSE id \in Ids : TRUE
  <2>2. call = [c \in Callers |-> [id |-> first, n |-> 0]]
    BY DEF EmbedInit
  <2>1. \A c \in Callers : ~(call[c].n > 0)
    <3> HIDE DEF first
    <3>1. \A c \in Callers : call[c].n = 0
      BY <2>2
    <3>2. ~(0 > 0)
      OBVIOUS
    <3> QED BY <3>1, <3>2
  <2> QED BY <2>1 DEF HistoryTrue, AnswerTrue
<1> QED BY <1>1, <1>2, <1>3, <1>4 DEF EmbedInv

\* A new call speaks of no batch of another, and its own id is new or shared.
LEMMA SubmitStep ==
  ASSUME EmbedInv, NEW c \in Callers, NEW id \in Ids, NEW n \in 1..MaxBatches, Submit(c, id, n)
  PROVE  OwnedBatches' /\ Unasked' /\ KnownIds' /\ HistoryTrue' /\ AnswerTrue'
<1>0. /\ EmbedTypeOK /\ call \in [Callers -> [id : Ids, n : 0..MaxBatches]] /\ call[c].n = 0
      /\ call' = [call EXCEPT ![c] = [id |-> id, n |-> n]]
      /\ requests' = requests \o [i \in 1..n |-> <<c, i>>]
      /\ UNCHANGED <<answer, inHand, history, stored, failed>>
  BY DEF Submit, EmbedInv, EmbedTypeOK
<1>1. /\ call'[c].n = n /\ call'[c].id = id
      /\ \A d \in Callers \ {c} : call'[d] = call[d]
  BY <1>0
<1>2. /\ \A d \in Callers \ {c} : BatchesOf(d)' = BatchesOf(d)
      /\ BatchesOf(c)' = {<<c, i>> : i \in 1..n} /\ BatchesOf(c) = {}
  BY <1>0, <1>1 DEF BatchesOf
<1>3. ASSUME NEW d \in Callers \ {c}, ~Shares(d)'
      PROVE  ~Shares(d)
  BY <1>0, <1>1, <1>3 DEF Shares
<1>9. \A i \in DOMAIN requests' :
        \/ \E j \in DOMAIN requests : requests'[i] = requests[j]
        \/ \E m \in 1..n : requests'[i] = <<c, m>>
  <2>1. requests' = requests \o [i \in 1..n |-> <<c, i>>]
    BY <1>0
  <2>2. EmbedTypeOK
    BY <1>0
  <2> QED BY <2>1, <2>2, QueuedBatches
<1> DEFINE Now(d) == {<<d, i>> : i \in 1..call'[d].n}
<1>4. OwnedBatches' /\ Unasked'
  <2>1. ASSUME NEW b \in Batches, b \in BatchesOf(b[1])
        PROVE  b \in Now(b[1])
    <3>1. b[1] \in Callers
      BY <1>0, BatchIds
    <3>2. b[1] # c
      BY <1>2, <2>1
    <3>3. call'[b[1]] = call[b[1]]
      BY <1>1, <3>1, <3>2
    <3>4. Now(b[1]) = BatchesOf(b[1])
      BY <3>3 DEF BatchesOf
    <3> QED BY <2>1, <3>4
  <2>2. ASSUME NEW i \in DOMAIN requests'
        PROVE  requests'[i] \in Now(requests'[i][1])
    <3>1. \/ \E j \in DOMAIN requests : requests'[i] = requests[j]
          \/ \E m \in 1..n : requests'[i] = <<c, m>>
      BY <1>9
    <3>2. ASSUME NEW j \in DOMAIN requests, requests'[i] = requests[j]
          PROVE  requests'[i] \in Now(requests'[i][1])
      <4>1. requests \in Seq(Batches) /\ j \in 1..Len(requests)
        BY <1>0, LenProperties DEF EmbedTypeOK
      <4>2. requests[j] \in Batches
        BY <4>1, ElementOfSeq
      <4>3. requests[j] \in BatchesOf(requests[j][1])
        BY DEF EmbedInv, OwnedBatches
      <4> QED BY <2>1, <3>2, <4>2, <4>3
    <3>3. ASSUME NEW m \in 1..n, requests'[i] = <<c, m>>
          PROVE  requests'[i] \in Now(requests'[i][1])
      BY <1>1, <3>3
    <3> QED BY <3>1, <3>2, <3>3
  <2>3. \A b \in inHand : b \in Now(b[1])
    BY <2>1 DEF EmbedInv, OwnedBatches, EmbedTypeOK
  <2>4. Unasked'
    BY <1>0, <1>1 DEF Unasked, EmbedInv
  <2> QED BY <1>0, <2>2, <2>3, <2>4 DEF OwnedBatches, BatchesOf
<1>5. KnownIds'
  <2> SUFFICES ASSUME NEW k \in RequestIds, history[k] # Absent
               PROVE  \E d \in Callers : call'[d].n > 0 /\ call'[d].id = k[1]
    BY <1>0 DEF KnownIds
  <2>1. PICK d \in Callers : call[d].n > 0 /\ call[d].id = k[1]
    BY DEF KnownIds, EmbedInv
  <2>2. d # c
    BY <1>0, <2>1
  <2> QED BY <1>1, <2>1, <2>2
<1>6. \A b \in Batches : b[1] # c => RequestId(b)' = RequestId(b)
  BY <1>0, <1>1, BatchIds DEF RequestId
<1>7. HistoryTrue'
  <2> SUFFICES ASSUME NEW d \in Callers, call'[d].n > 0, ~Shares(d)', NEW b \in BatchesOf(d)'
               PROVE  /\ history[RequestId(b)'] = "completed" => b \in stored
                      /\ history[RequestId(b)'] = "failed" => b \in failed
    BY <1>0 DEF HistoryTrue
  <2>1. CASE d = c
    <3>1. b = <<c, b[2]>> /\ b[1] = c /\ b[2] \in 1..MaxBatches
      BY <1>2, <2>1
    <3>2. RequestId(b)' \in RequestIds /\ RequestId(b)'[1] = id
      BY <1>1, <3>1 DEF RequestId, RequestIds
    <3>3. \A e \in Callers \ {c} : ~(call[e].n > 0 /\ call[e].id = id)
      BY <1>1, <2>1 DEF Shares
    <3>4. history[RequestId(b)'] = Absent
      BY <1>0, <3>2, <3>3 DEF KnownIds, EmbedInv
    <3> QED BY <3>4 DEF Absent
  <2>2. CASE d # c
    <3>1. b \in BatchesOf(d) /\ ~Shares(d) /\ call[d].n > 0
      BY <1>1, <1>2, <1>3, <2>2
    <3>2. b \in Batches /\ b[1] = d
      BY <1>0, <3>1, BatchesOfCaller
    <3>3. RequestId(b)' = RequestId(b)
      BY <1>6, <2>2, <3>2
    <3> QED BY <3>1, <3>3 DEF HistoryTrue, EmbedInv
  <2> QED BY <2>1, <2>2
<1>8. AnswerTrue'
  <2> SUFFICES ASSUME NEW d \in Callers, call'[d].n > 0, ~Shares(d)'
               PROVE  /\ answer[d] = "completed" => BatchesOf(d)' \subseteq stored
                      /\ answer[d] \in {"failed", "partial_failure"} =>
                           /\ BatchesOf(d)' \cap failed # {}
                           /\ BatchesOf(d)' \subseteq stored \cup failed
    BY <1>0 DEF AnswerTrue
  <2>1. CASE d = c
    BY <1>0, <2>1 DEF EmbedInv, Unasked
  <2>2. CASE d # c
    BY <1>1, <1>2, <1>3, <2>2 DEF EmbedInv, AnswerTrue
  <2> QED BY <2>1, <2>2
<1> QED BY <1>4, <1>5, <1>7, <1>8

\* ... and every step of the pipeline keeps it.
LEMMA EmbedInvStep == EmbedInv /\ [EmbedNext]_embedVars => EmbedInv'
<1> SUFFICES ASSUME EmbedInv, [EmbedNext]_embedVars
             PROVE  OwnedBatches' /\ Unasked' /\ KnownIds' /\ HistoryTrue' /\ AnswerTrue'
  BY EmbedTypeStep DEF EmbedInv
<1>0. EmbedTypeOK /\ OwnedBatches /\ Unasked /\ KnownIds /\ HistoryTrue /\ AnswerTrue
  BY DEF EmbedInv
<1>1. ASSUME NEW c \in Callers, NEW id \in Ids, NEW n \in 1..MaxBatches, Submit(c, id, n)
      PROVE  OwnedBatches' /\ Unasked' /\ KnownIds' /\ HistoryTrue' /\ AnswerTrue'
  BY <1>1, SubmitStep
<1>2. CASE TakeRequest
  <2>1. /\ UNCHANGED <<call, answer, history, stored, failed>> /\ requests # <<>>
        /\ inHand' = {Head(requests)} /\ requests' = Tail(requests)
    BY <1>2 DEF TakeRequest, Rest
  <2>2. OwnedBatches'
    <3>1. Head(requests) \in BatchesOf(Head(requests)[1])
      BY <1>0, <2>1, TakenBatch DEF OwnedBatches
    <3>2. \A i \in DOMAIN Tail(requests) :
            Tail(requests)[i] \in BatchesOf(Tail(requests)[i][1])
      BY <1>0, <2>1, TakenBatch DEF OwnedBatches
    <3> QED BY <2>1, <3>1, <3>2 DEF OwnedBatches, BatchesOf
  <2> QED BY <1>0, <2>1, <2>2
          DEF Unasked, KnownIds, HistoryTrue, AnswerTrue, Shares, BatchesOf, RequestId
<1>3. CASE Store
  <2>1. PICK b \in inHand : stored' = stored \cup {b} /\ Record(b, "completed")
    BY <1>3 DEF Store
  <2>2. UNCHANGED <<call, answer, requests, failed>> /\ inHand' = {}
    BY <1>3 DEF Store
  <2>3. KnownIds' /\ HistoryTrue' /\ AnswerTrue'
    BY <2>1, <2>2, RecordTrue
  <2>4. OwnedBatches' /\ Unasked'
    BY <1>0, <2>2 DEF OwnedBatches, Unasked, BatchesOf
  <2> QED BY <2>3, <2>4
<1>4. CASE Attempt
  <2>1. PICK b \in inHand :
          /\ stored' \in {stored, stored \cup {b}}
          /\ IF retries + 1 >= MaxRetries
             THEN /\ Record(b, "failed") /\ failed' = failed \cup {b}
                  /\ inHand' = {} /\ retries' = 0
             ELSE retries' = retries + 1 /\ UNCHANGED <<history, failed, inHand>>
    BY <1>4 DEF Attempt
  <2>2. UNCHANGED <<call, answer, requests>> /\ stored \subseteq stored' /\ inHand' \subseteq inHand
    BY <1>4, <2>1 DEF Attempt
  <2>3. OwnedBatches' /\ Unasked'
    BY <1>0, <2>2 DEF OwnedBatches, Unasked, BatchesOf
  <2>4. CASE retries + 1 >= MaxRetries
    <3>1. KnownIds' /\ HistoryTrue' /\ AnswerTrue'
      BY <2>1, <2>2, <2>4, RecordTrue
    <3> QED BY <2>3, <3>1
  <2>5. CASE ~(retries + 1 >= MaxRetries)
    <3>1. UNCHANGED <<history, failed>>
      BY <2>1, <2>5
    <3>2. KnownIds' /\ HistoryTrue' /\ AnswerTrue'
      BY <1>0, <2>2, <3>1
         DEF KnownIds, HistoryTrue, AnswerTrue, Shares, BatchesOf, RequestId
    <3> QED BY <2>3, <3>2
  <2> QED BY <2>4, <2>5
<1>5. ASSUME NEW c \in Callers, Poll(c) \/ GiveUpWaiting(c)
      PROVE  OwnedBatches' /\ Unasked' /\ KnownIds' /\ HistoryTrue' /\ AnswerTrue'
  <2>1. UNCHANGED <<call, requests, inHand, history, stored, failed>> /\ call[c].n > 0
    BY <1>5 DEF Poll, GiveUpWaiting
  <2>2. OwnedBatches' /\ KnownIds' /\ HistoryTrue'
    BY <1>0, <2>1 DEF OwnedBatches, KnownIds, HistoryTrue, Shares, BatchesOf, RequestId
  <2>3. answer \in [Callers -> Answers \cup {"none"}] /\ call[c].n \in Nat
    BY <1>0 DEF EmbedTypeOK
  <2>4. \A d \in Callers \ {c} : answer'[d] = answer[d]
    BY <1>5, <2>3 DEF Poll, GiveUpWaiting
  <2>5. Unasked'
    BY <1>0, <2>1, <2>3, <2>4 DEF Unasked
  <2>6. ASSUME ~Shares(c)
        PROVE  /\ answer'[c] = "completed" => BatchesOf(c) \subseteq stored
               /\ answer'[c] \in {"failed", "partial_failure"} =>
                    BatchesOf(c) \cap failed # {} /\ BatchesOf(c) \subseteq stored \cup failed
    <3>1. CASE GiveUpWaiting(c)
      BY <2>3, <3>1 DEF GiveUpWaiting
    <3>2. CASE Poll(c)
      <4>1. /\ Absent \notin Outcomes(c)
            /\ answer'[c] = "completed" => "failed" \notin Outcomes(c)
            /\ answer'[c] \in {"failed", "partial_failure"} => "failed" \in Outcomes(c)
        BY <2>3, <3>2 DEF Poll, AllDone
      <4>2. \A b \in BatchesOf(c) : history[RequestId(b)] \in {"completed", "failed", Absent}
        BY <1>0, BatchesOfCaller, BatchIds DEF EmbedTypeOK
      <4>3. \A b \in BatchesOf(c) :
              /\ history[RequestId(b)] = "completed" => b \in stored
              /\ history[RequestId(b)] = "failed" => b \in failed
        BY <1>0, <2>1, <2>6 DEF HistoryTrue
      <4> QED BY <4>1, <4>2, <4>3 DEF Outcomes
    <3> QED BY <1>5, <3>1, <3>2
  <2>7. AnswerTrue'
    <3>1. \A d \in Callers : (Shares(d)' <=> Shares(d)) /\ BatchesOf(d)' = BatchesOf(d)
      BY <2>1 DEF Shares, BatchesOf
    <3> QED BY <1>0, <2>1, <2>4, <2>6, <3>1 DEF AnswerTrue
  <2> QED BY <2>2, <2>5, <2>7
<1>6. CASE LoopEnds
  <2>1. /\ UNCHANGED <<call, answer, requests, history, failed>>
        /\ stored \subseteq stored' /\ inHand' = {}
    BY <1>6 DEF LoopEnds
  <2> QED BY <1>0, <2>1 DEF OwnedBatches, Unasked, KnownIds, HistoryTrue, AnswerTrue, Shares,
          BatchesOf, RequestId
<1>7. CASE UNCHANGED embedVars
  BY <1>0, <1>7 DEF embedVars, OwnedBatches, Unasked, KnownIds, HistoryTrue, AnswerTrue, Shares,
     BatchesOf, RequestId
<1> QED BY <1>1, <1>2, <1>3, <1>4, <1>5, <1>6, <1>7 DEF EmbedNext

\* A caller that shares its id with no other is told the truth about all of
\* its batches, whatever order requests, retries, polls and timeouts take.
THEOREM AnswerTrueHolds == EmbedSpec => []AnswerTrue
<1>1. EmbedInv => AnswerTrue
  BY DEF EmbedInv
<1> QED BY EmbedInitInv, EmbedInvStep, <1>1, PTL DEF EmbedSpec

-----------------------------------------------------------------------------
(* Finite sets.                                                             *)

\* A row of n units has n elements.
LEMMA RowCount ==
  ASSUME NEW x, NEW a \in Nat, NEW n \in Nat
  PROVE  /\ IsFiniteSet({x} \X ((a + 1)..(a + n)))
         /\ Cardinality({x} \X ((a + 1)..(a + n))) = n
<1> DEFINE R == (a + 1)..(a + n)
<1>1. IsFiniteSet(R) /\ Cardinality(R) = n
  <2>1. a + 1 \in Int /\ a + n \in Int
    OBVIOUS
  <2>2. /\ IsFiniteSet((a + 1)..(a + n))
        /\ Cardinality((a + 1)..(a + n)) = IF a + 1 > a + n THEN 0 ELSE (a + n) - (a + 1) + 1
    BY <2>1, FS_Interval
  <2> QED BY <2>2
<1>2. IsFiniteSet({x}) /\ Cardinality({x}) = 1
  BY FS_Singleton
<1> HIDE DEF R
<1>3. IsFiniteSet({x} \X R) /\ Cardinality({x} \X R) = Cardinality({x}) * Cardinality(R)
  BY <1>1, <1>2, FS_Product
<1> QED BY <1>1, <1>2, <1>3 DEF R

\* A part of a finite set is finite and no larger.
LEMMA Part ==
  ASSUME NEW S, IsFiniteSet(S), NEW T, T \subseteq S
  PROVE  /\ IsFiniteSet(T) /\ Cardinality(T) \in Nat /\ Cardinality(S) \in Nat
         /\ Cardinality(T) <= Cardinality(S)
BY FS_Subset, FS_CardinalityType

\* The union of two finite sets has no more elements than both.
LEMMA Joined ==
  ASSUME NEW S, IsFiniteSet(S), NEW T, IsFiniteSet(T)
  PROVE  /\ IsFiniteSet(S \cup T) /\ Cardinality(S \cup T) \in Nat
         /\ Cardinality(S) \in Nat /\ Cardinality(T) \in Nat
         /\ Cardinality(S \cup T) <= Cardinality(S) + Cardinality(T)
<1>1. /\ IsFiniteSet(S \cup T)
      /\ Cardinality(S \cup T) = Cardinality(S) + Cardinality(T) - Cardinality(S \cap T)
  BY FS_Union
<1>2. IsFiniteSet(S \cap T)
  BY FS_Intersection
<1> QED BY <1>1, <1>2, FS_CardinalityType

-----------------------------------------------------------------------------
(***************************************************************************)
(* RateLimits, for any number of threads and every size of the windows, the *)
(* limits and the calls.                                                    *)
(***************************************************************************)
HIDE EmbedAssumption
USE RateAssumption

\* The threads and the tokens they may ask for are finitely many.
LEMMA TokensFinite == IsFiniteSet(Embedders) /\ IsFiniteSet(Tokens)
<1>1. IsFiniteSet(1..MaxOwed)
  BY FS_Interval, 1 \in Int, MaxOwed \in Int
<1> QED BY <1>1, FS_Product DEF Tokens

-----------------------------------------------------------------------------
\* The tokens of the token limiter's window, and those of an earlier one that a
\* rolling window still holds: what is younger than the window began in it.
CurrentTokens == {k \in Tokens : spent[k] < Window /\ spent[k] <= elapsed}
EarlierTokens == {k \in Tokens : spent[k] < Window /\ spent[k] > elapsed}

TokensSplit ==
  /\ Cardinality(CurrentTokens) <= used
  /\ Cardinality(EarlierTokens) <= MaxTokens
  /\ Expired => \A k \in Tokens : spent[k] # 0

\* What is owed and what was taken make up what was asked.
Accounted == \A t \in Embedders :
  /\ owed[t] + total[t].took = total[t].asked
  /\ embedder[t] = "idle" => total[t].took = 0
  /\ embedder[t] \in {"stamping", "called"} => owed[t] = 0
  /\ payer = t => embedder[t] = "paying"

RateInv == RateTypeOK /\ RequestsPaced /\ TokensSplit /\ Accounted

\* The invariant of the limiters begins true.
LEMMA RateInitInv == RateInit => RateInv
<1> SUFFICES ASSUME RateInit PROVE RateInv
  OBVIOUS
<1>1. RateTypeOK
  BY DEF RateInit, RateTypeOK, Ages
<1>2. Recent(stamps) = {} /\ CurrentTokens = {} /\ EarlierTokens = {}
  BY DEF RateInit, Recent, CurrentTokens, EarlierTokens
<1>3. Cardinality({}) = 0
  BY FS_EmptySet
<1>4. RequestsPaced
  BY <1>2, <1>3 DEF RequestsPaced
<1>5. TokensSplit
  BY <1>2, <1>3 DEF TokensSplit, RateInit, Expired
<1>6. Accounted
  BY DEF RateInit, Accounted
<1> QED BY <1>1, <1>4, <1>5, <1>6 DEF RateInv

\* What a take from the window comes to.
LEMMA TakeBounds ==
  ASSUME NEW n \in Nat \ {0}, NEW left \in Nat
  PROVE  LET take == TakeSome(n, left) IN
         /\ take.took \in Nat /\ take.took <= left /\ take.took <= n
         /\ take.owed = n - take.took /\ take.owed \in Nat
BY DEF TakeSome

\* Every step of a limiter keeps the types.
LEMMA RateTypeStep == RateTypeOK /\ Accounted /\ [RateNext]_rateVars => RateTypeOK'
<1> SUFFICES ASSUME RateTypeOK, Accounted, [RateNext]_rateVars PROVE RateTypeOK'
  OBVIOUS
<1> USE DEF RateTypeOK, Ages
<1>1. CASE UNCHANGED rateVars
  BY <1>1 DEF rateVars
<1>2. ASSUME NEW t \in Embedders, NEW n \in 1..MaxOwed, Embed(t, n) PROVE RateTypeOK'
  BY <1>2 DEF Embed, Go
<1>3. ASSUME NEW t \in Embedders, Stamp(t) PROVE RateTypeOK'
  BY <1>3 DEF Stamp, Go
<1>4. ASSUME NEW t \in Embedders, EnterThrottle(t) PROVE RateTypeOK'
  BY <1>4 DEF EnterThrottle, Go
<1>5. ASSUME NEW t \in Embedders, LeaveThrottle(t) PROVE RateTypeOK'
  BY <1>5 DEF LeaveThrottle, Go, Released
<1>6. ASSUME NEW t \in Embedders, TakeTokens(t) PROVE RateTypeOK'
  <2> DEFINE base == IF Expired THEN 0 ELSE used
             take == TakeSome(owed[t], MaxTokens - base)
             had == total[t].took
  <2>1. owed[t] \in Nat \ {0} /\ base \in Nat /\ MaxTokens - base \in Nat
    BY <1>6 DEF TakeTokens
  <2>2. /\ take.took \in Nat /\ take.took <= MaxTokens - base /\ take.took <= owed[t]
        /\ take.owed = owed[t] - take.took /\ take.owed \in Nat
    BY <2>1, TakeBounds
  <2>3. had \in Nat /\ had + take.took <= MaxOwed /\ take.owed <= MaxOwed
    BY <2>2 DEF Accounted
  <2>4. /\ used' = base + take.took
        /\ owed' = [owed EXCEPT ![t] = take.owed]
        /\ spent' = [k \in Tokens |->
             IF k[1] = t /\ k[2] \in (had + 1)..(had + take.took) THEN 0 ELSE spent[k]]
        /\ total' = [total EXCEPT ![t].took = had + take.took]
        /\ elapsed' = WindowStart /\ UNCHANGED <<embedder, payer, stamps>>
    BY <1>6 DEF TakeTokens
  <2> HIDE DEF base, take, had
  <2>5. used' \in 0..MaxTokens /\ elapsed' \in 0..Window
    BY <2>1, <2>2, <2>4 DEF WindowStart
  <2>6. owed' \in [Embedders -> 0..MaxOwed]
    BY <2>2, <2>3, <2>4
  <2>7. spent' \in [Tokens -> 0..Window]
    BY <2>4
  <2>8. total' \in [Embedders -> [asked : 0..MaxOwed, took : 0..MaxOwed]]
    BY <2>2, <2>3, <2>4
  <2> QED BY <2>4, <2>5, <2>6, <2>7, <2>8
<1>7. CASE Tick
  <2>1. elapsed' \in 0..Window
    <3>1. Window \in Nat /\ elapsed \in 0..Window
      OBVIOUS
    <3>2. elapsed' = IF elapsed = Window THEN elapsed ELSE elapsed + 1
      BY <1>7 DEF Tick, Expired
    <3> QED BY <3>1, <3>2
  <2>2. stamps' \in [Embedders -> 0..Window] /\ spent' \in [Tokens -> 0..Window]
    BY <1>7 DEF Tick, Older
  <2> QED BY <1>7, <2>1, <2>2 DEF Tick
<1> QED BY <1>1, <1>2, <1>3, <1>4, <1>5, <1>6, <1>7 DEF RateNext, EmbedderStep

\* Only a stamp adds to the recent ones, and it adds one.
LEMMA RequestsStep ==
  RateTypeOK /\ RequestsPaced /\ [RateNext]_rateVars => RequestsPaced'
<1> SUFFICES ASSUME RateTypeOK, RequestsPaced, [RateNext]_rateVars PROVE RequestsPaced'
  OBVIOUS
<1>1. DOMAIN stamps = Embedders /\ stamps \in [Embedders -> 0..Window]
  BY DEF RateTypeOK, Ages
<1>2. IsFiniteSet(Recent(stamps)) /\ Cardinality(Recent(stamps)) \in Nat
  BY <1>1, Part, TokensFinite DEF Recent
<1>3. ASSUME NEW t \in Embedders, Stamp(t) PROVE RequestsPaced'
  <2>1. Recent(stamps') \subseteq Recent(stamps) \cup {t}
    BY <1>1, <1>3 DEF Stamp, Recent
  <2>2. IsFiniteSet({t}) /\ Cardinality({t}) = 1
    BY FS_Singleton
  <2>3. /\ IsFiniteSet(Recent(stamps) \cup {t})
        /\ Cardinality(Recent(stamps) \cup {t}) <= Cardinality(Recent(stamps)) + 1
        /\ Cardinality(Recent(stamps) \cup {t}) \in Nat
    BY <1>2, <2>2, Joined
  <2>4. /\ Cardinality(Recent(stamps')) <= Cardinality(Recent(stamps) \cup {t})
        /\ Cardinality(Recent(stamps')) \in Nat
    BY <2>1, <2>3, Part
  <2> QED BY <1>2, <1>3, <2>3, <2>4 DEF Stamp, Room, RequestsPaced
<1>4. CASE Tick
  <2>1. Recent(stamps') \subseteq Recent(stamps)
    BY <1>1, <1>4 DEF Tick, Older, Recent
  <2>2. Cardinality(Recent(stamps')) <= Cardinality(Recent(stamps))
        /\ Cardinality(Recent(stamps')) \in Nat
    BY <1>2, <2>1, Part
  <2> QED BY <1>2, <2>2 DEF RequestsPaced
<1>5. CASE UNCHANGED stamps
  BY <1>5 DEF RequestsPaced, Recent
<1> QED BY <1>3, <1>4, <1>5 DEF RateNext, EmbedderStep, Embed, EnterThrottle, TakeTokens,
           LeaveThrottle, rateVars

\* No token a call asked for is lost between what it owes and what it took.
LEMMA AccountedStep == RateTypeOK /\ Accounted /\ [RateNext]_rateVars => Accounted'
<1> SUFFICES ASSUME RateTypeOK, Accounted, [RateNext]_rateVars PROVE Accounted'
  OBVIOUS
<1> USE DEF RateTypeOK, Accounted
<1>1. CASE UNCHANGED <<embedder, owed, payer, total>>
  BY <1>1
<1>2. ASSUME NEW t \in Embedders, NEW n \in 1..MaxOwed, Embed(t, n) PROVE Accounted'
  <2> SUFFICES ASSUME NEW u \in Embedders PROVE Accounted!(u)'
    OBVIOUS
  <2>1. embedder[t] = "idle" /\ embedder'[t] = "queued"
    BY <1>2 DEF Embed, Go
  <2>2. total[t].took = 0 /\ total'[t].took = 0 /\ total'[t].asked = n /\ owed'[t] = n
        /\ payer' = payer /\ payer # t
    BY <1>2, <2>1 DEF Embed
  <2>3. u # t => embedder'[u] = embedder[u] /\ owed'[u] = owed[u] /\ total'[u] = total[u]
    BY <1>2 DEF Embed, Go
  <2>4. CASE u = t
    BY <2>1, <2>2, <2>4
  <2> QED BY <2>2, <2>3, <2>4
<1>3. ASSUME NEW t \in Embedders, Stamp(t) \/ EnterThrottle(t) \/ LeaveThrottle(t)
      PROVE  Accounted'
  <2>1. CASE Stamp(t)
    BY <2>1 DEF Stamp, Go
  <2>2. CASE EnterThrottle(t)
    BY <2>2 DEF EnterThrottle, Go
  <2>3. CASE LeaveThrottle(t)
    <3>1. payer' # t /\ \A u \in Embedders : payer' # u
      BY <2>3 DEF LeaveThrottle, Released
    <3> QED BY <2>3, <3>1 DEF LeaveThrottle, Go
  <2> QED BY <1>3, <2>1, <2>2, <2>3
<1>4. ASSUME NEW t \in Embedders, TakeTokens(t) PROVE Accounted'
  <2> DEFINE base == IF Expired THEN 0 ELSE used
             take == TakeSome(owed[t], MaxTokens - base)
  <2>1. owed[t] \in Nat \ {0} /\ MaxTokens - base \in Nat
    BY <1>4 DEF TakeTokens
  <2>2. take.took \in Nat /\ take.owed = owed[t] - take.took
    BY <2>1, TakeBounds
  <2>3. /\ owed' = [owed EXCEPT ![t] = take.owed]
        /\ total' = [total EXCEPT ![t].took = total[t].took + take.took]
        /\ UNCHANGED <<embedder, payer>>
    BY <1>4 DEF TakeTokens
  <2> HIDE DEF take
  <2> SUFFICES ASSUME NEW u \in Embedders PROVE Accounted!(u)'
    OBVIOUS
  <2>4. u # t => owed'[u] = owed[u] /\ total'[u] = total[u]
    BY <2>3
  <2>5. CASE u = t
    <3>1. /\ owed'[t] = owed[t] - take.took /\ total'[t].asked = total[t].asked
          /\ total'[t].took = total[t].took + take.took
      BY <2>2, <2>3
    <3>2. owed[t] + total[t].took = total[t].asked /\ owed[t] \in Nat /\ total[t].took \in Nat
      OBVIOUS
    <3>3. embedder[t] \notin {"idle", "stamping", "called"}
      BY <1>4 DEF TakeTokens
    <3> QED BY <1>4, <2>2, <2>3, <2>5, <3>1, <3>2, <3>3 DEF TakeTokens
  <2> QED BY <2>3, <2>4, <2>5
<1> QED BY <1>1, <1>2, <1>3, <1>4 DEF RateNext, EmbedderStep, Tick, rateVars

\* Time moves tokens out of the window, and a reset makes the current ones the
\* earlier ones, which the window before it has none of by then.
LEMMA TokensStep ==
  RateTypeOK /\ TokensSplit /\ Accounted /\ [RateNext]_rateVars => TokensSplit'
<1> SUFFICES ASSUME RateTypeOK, TokensSplit, Accounted, [RateNext]_rateVars
             PROVE  TokensSplit'
  OBVIOUS
<1>1. /\ Window \in Nat \ {0} /\ MaxTokens \in Nat \ {0} /\ elapsed \in 0..Window
      /\ spent \in [Tokens -> 0..Window] /\ used \in 0..MaxTokens
  BY DEF RateTypeOK, Ages
<1>2. /\ IsFiniteSet(CurrentTokens) /\ IsFiniteSet(EarlierTokens)
      /\ Cardinality(CurrentTokens) \in Nat /\ Cardinality(EarlierTokens) \in Nat
  BY Part, TokensFinite DEF CurrentTokens, EarlierTokens
<1>3. CASE UNCHANGED <<spent, elapsed, used>>
  BY <1>3 DEF TokensSplit, CurrentTokens, EarlierTokens, Expired
<1>4. CASE Tick
  <2>1. \A k \in Tokens :
          spent'[k] = IF spent[k] < Window THEN spent[k] + 1 ELSE Window
    BY <1>1, <1>4 DEF Tick, Older
  <2>2. elapsed' = IF elapsed = Window THEN elapsed ELSE elapsed + 1
    BY <1>4 DEF Tick, Expired
  <2>3. \A k \in Tokens : spent[k] \in 0..Window
    BY <1>1
  <2>4. CurrentTokens' \subseteq CurrentTokens
    BY <1>1, <2>1, <2>2, <2>3 DEF CurrentTokens
  <2>5. EarlierTokens' \subseteq EarlierTokens
    BY <1>1, <2>1, <2>2, <2>3 DEF EarlierTokens
  <2>6. /\ Cardinality(CurrentTokens') <= Cardinality(CurrentTokens)
        /\ Cardinality(CurrentTokens') \in Nat
    BY <1>2, <2>4, Part
  <2>7. /\ Cardinality(EarlierTokens') <= Cardinality(EarlierTokens)
        /\ Cardinality(EarlierTokens') \in Nat
    BY <1>2, <2>5, Part
  <2>8. \A k \in Tokens : spent'[k] # 0
    BY <1>1, <2>1, <2>3
  <2>9. used' = used
    BY <1>4 DEF Tick
  <2> QED BY <1>1, <1>2, <2>6, <2>7, <2>8, <2>9 DEF TokensSplit
<1>5. ASSUME NEW t \in Embedders, TakeTokens(t) PROVE TokensSplit'
  <2> DEFINE base == IF Expired THEN 0 ELSE used
             take == TakeSome(owed[t], MaxTokens - base)
             had == total[t].took
             row == {t} \X ((had + 1)..(had + take.took))
  <2>1. owed[t] \in Nat \ {0} /\ base \in Nat /\ MaxTokens - base \in Nat /\ had \in Nat
    BY <1>5 DEF TakeTokens, RateTypeOK
  <2>2. take.took \in Nat /\ take.took <= MaxTokens - base
    BY <2>1, TakeBounds
  <2>3. /\ used' = base + take.took /\ elapsed' = IF Expired THEN 0 ELSE elapsed
        /\ spent' = [k \in Tokens |->
             IF k[1] = t /\ k[2] \in (had + 1)..(had + take.took) THEN 0 ELSE spent[k]]
    BY <1>5 DEF TakeTokens, WindowStart
  <2>4. IsFiniteSet(row) /\ Cardinality(row) = take.took
    <3>1. \A a, n \in Nat : LET R == {t} \X ((a + 1)..(a + n)) IN
            IsFiniteSet(R) /\ Cardinality(R) = n
      BY RowCount
    <3>2. had \in Nat /\ take.took \in Nat
      BY <2>1, <2>2
    <3> HIDE DEF take, had
    <3> QED BY <3>1, <3>2
  <2> HIDE DEF base, take
  <2>5. \A k \in Tokens : spent'[k] = (IF k \in row THEN 0 ELSE spent[k])
    <3> SUFFICES ASSUME NEW k \in Tokens
                 PROVE  spent'[k] = (IF k \in row THEN 0 ELSE spent[k])
      OBVIOUS
    <3>1. k = <<k[1], k[2]>>
      BY DEF Tokens
    <3>2. k \in row <=> k[1] = t /\ k[2] \in (had + 1)..(had + take.took)
      BY <3>1
    <3> HIDE DEF row, had
    <3> QED BY <2>3, <3>2
  <2> HIDE DEF row, had
  <2>6. \A k \in Tokens : spent[k] \in 0..Window
    BY <1>1
  <2>7. CASE ~Expired
    <3>1. CurrentTokens' \subseteq CurrentTokens \cup row
      BY <1>1, <2>3, <2>5, <2>6, <2>7 DEF CurrentTokens
    <3>2. EarlierTokens' \subseteq EarlierTokens
      BY <1>1, <2>3, <2>5, <2>6, <2>7 DEF EarlierTokens
    <3>3. /\ IsFiniteSet(CurrentTokens \cup row) /\ Cardinality(CurrentTokens \cup row) \in Nat
          /\ Cardinality(CurrentTokens \cup row) <= Cardinality(CurrentTokens) + take.took
      BY <1>2, <2>4, Joined
    <3>4. /\ Cardinality(CurrentTokens') <= Cardinality(CurrentTokens \cup row)
          /\ Cardinality(CurrentTokens') \in Nat
      BY <3>1, <3>3, Part
    <3>5. /\ Cardinality(EarlierTokens') <= Cardinality(EarlierTokens)
          /\ Cardinality(EarlierTokens') \in Nat
      BY <1>2, <3>2, Part
    <3>6. ~Expired'
      BY <2>3, <2>7 DEF Expired
    <3>7. Cardinality(CurrentTokens) <= used /\ Cardinality(EarlierTokens) <= MaxTokens
      BY DEF TokensSplit
    <3>8. used' = used + take.took
      BY <2>3, <2>7 DEF base
    <3> QED BY <1>1, <1>2, <2>2, <3>3, <3>4, <3>5, <3>6, <3>7, <3>8 DEF TokensSplit
  <2>8. CASE Expired
    <3>1. elapsed = Window /\ elapsed' = 0 /\ used' = take.took
      BY <2>2, <2>3, <2>8 DEF Expired, base
    <3>2. \A k \in Tokens : spent[k] # 0
      BY <2>8 DEF TokensSplit
    <3>3. CurrentTokens' \subseteq row
      BY <1>1, <2>5, <2>6, <3>1, <3>2 DEF CurrentTokens
    <3>4. EarlierTokens' \subseteq CurrentTokens
      BY <1>1, <2>5, <2>6, <3>1 DEF CurrentTokens, EarlierTokens
    <3>5. Cardinality(CurrentTokens') <= take.took
      BY <2>4, <3>3, Part
    <3>6. /\ Cardinality(EarlierTokens') <= Cardinality(CurrentTokens)
          /\ Cardinality(EarlierTokens') \in Nat
      BY <1>2, <3>4, Part
    <3>7. Cardinality(CurrentTokens) <= used
      BY DEF TokensSplit
    <3>8. ~Expired'
      BY <1>1, <3>1 DEF Expired
    <3> QED BY <1>1, <1>2, <3>1, <3>5, <3>6, <3>7, <3>8 DEF TokensSplit
  <2> QED BY <2>7, <2>8
<1> QED BY <1>3, <1>4, <1>5 DEF RateNext, EmbedderStep, Embed, Stamp, EnterThrottle,
           LeaveThrottle, rateVars

\* At any size of the windows, the limits and the calls: no rolling window sees
\* more requests than allowed or more tokens than two fixed windows hold, and
\* no call reaches the provider before all it asked for was taken.
THEOREM RatesKeptHolds == RateSpec => []RatesKept
<1>1. RateInit => RateInv
  BY RateInitInv
<1>2. RateInv /\ [RateNext]_rateVars => RateInv'
  BY RateTypeStep, RequestsStep, TokensStep, AccountedStep DEF RateInv
<1>3. RateInv => RatesKept
  <2> SUFFICES ASSUME RateInv PROVE RatesKept
    OBVIOUS
  <2>1. /\ Window \in Nat \ {0} /\ MaxTokens \in Nat \ {0} /\ elapsed \in 0..Window
        /\ spent \in [Tokens -> 0..Window] /\ used \in 0..MaxTokens
    BY DEF RateInv, RateTypeOK, Ages
  <2>2. TokensPaced
    <3>1. Recent(spent) \subseteq CurrentTokens \cup EarlierTokens
      BY <2>1 DEF Recent, CurrentTokens, EarlierTokens
    <3>2. IsFiniteSet(CurrentTokens) /\ IsFiniteSet(EarlierTokens)
      BY Part, TokensFinite DEF CurrentTokens, EarlierTokens
    <3>3. LET both == CurrentTokens \cup EarlierTokens IN
          /\ IsFiniteSet(both) /\ Cardinality(both) \in Nat
          /\ Cardinality(CurrentTokens) \in Nat /\ Cardinality(EarlierTokens) \in Nat
          /\ Cardinality(both) <= Cardinality(CurrentTokens) + Cardinality(EarlierTokens)
      BY <3>2, Joined
    <3>4. /\ Cardinality(Recent(spent)) <= Cardinality(CurrentTokens \cup EarlierTokens)
          /\ Cardinality(Recent(spent)) \in Nat
      BY <3>1, <3>3, Part
    <3>5. Cardinality(CurrentTokens) <= used /\ Cardinality(EarlierTokens) <= MaxTokens
      BY DEF RateInv, TokensSplit
    <3> QED BY <2>1, <3>3, <3>4, <3>5 DEF TokensPaced
  <2>3. NothingDropped
    BY DEF NothingDropped, RateInv, Accounted, RateTypeOK
  <2> QED BY <2>2, <2>3 DEF RateInv, RatesKept
<1> QED BY <1>1, <1>2, <1>3, PTL DEF RateSpec

-----------------------------------------------------------------------------
(***************************************************************************)
(* HomophilyPairs, for any number of videos, communities, pairs and sweeps  *)
(* and any budgets.                                                         *)
(***************************************************************************)
HIDE RateAssumption
USE HomophilyAssumption

-----------------------------------------------------------------------------
(* Sums of functions of strata.                                            *)

\* A unit is a stratum and a number no larger than its value.
LEMMA UnitsMember ==
  ASSUME NEW S, NEW f \in [S -> Nat], NEW u
  PROVE  u \in Units(f) <=> \E s \in S, k \in Nat : k \in 1..f[s] /\ u = <<s, k>>
<1>1. \A s \in S : f[s] \in Nat
  OBVIOUS
<1>2. u \in Units(f) <=> \E s \in S : u \in {s} \X (1..f[s])
  BY DEF Units
<1>3. \A s \in S : u \in {s} \X (1..f[s]) <=> \E k \in 1..f[s] : u = <<s, k>>
  OBVIOUS
<1> QED BY <1>1, <1>2, <1>3

\* The sum of finitely many naturals is a natural.
LEMMA SumType ==
  ASSUME NEW S, IsFiniteSet(S), NEW f \in [S -> Nat]
  PROVE  IsFiniteSet(Units(f)) /\ Sum(f) \in Nat
<1> DEFINE row == [s \in S |-> {s} \X (1..f[s])]
           rows == {{s} \X (1..f[s]) : s \in S}
<1>1. row \in Surjection(S, rows)
  BY DEF Surjection
<1>2. IsFiniteSet(rows)
  <2> HIDE DEF row, rows
  <2> QED BY <1>1, FS_Surjection
<1>3. \A T \in rows : IsFiniteSet(T)
  <2> SUFFICES ASSUME NEW s \in S PROVE IsFiniteSet({s} \X (1..f[s]))
    OBVIOUS
  <2>1. f[s] \in Nat
    OBVIOUS
  <2>2. IsFiniteSet(1..f[s])
    BY <2>1, FS_Interval, 1 \in Int, f[s] \in Int
  <2> QED BY <2>2, FS_Singleton, FS_Product
<1>4. Units(f) = UNION rows
  BY DEF Units
<1>5. IsFiniteSet(UNION rows)
  <2> HIDE DEF rows
  <2> QED BY <1>2, <1>3, FS_UNION
<1> QED BY <1>4, <1>5, FS_CardinalityType DEF Sum

\* What one value grows by, the sum grows by.
LEMMA SumMore ==
  ASSUME NEW S, IsFiniteSet(S), NEW f \in [S -> Nat], NEW s \in S, NEW n \in Nat
  PROVE  LET g == [f EXCEPT ![s] = @ + n] IN
         g \in [S -> Nat] /\ Sum(g) = Sum(f) + n
<1> DEFINE g == [f EXCEPT ![s] = @ + n]
           row == {s} \X ((f[s] + 1)..(f[s] + n))
<1>1. g \in [S -> Nat] /\ g[s] = f[s] + n /\ \A r \in S \ {s} : g[r] = f[r]
  OBVIOUS
<1>2. f[s] \in Nat
  OBVIOUS
<1>3. IsFiniteSet(row) /\ Cardinality(row) = n
  <2>1. \A a, m \in Nat : LET R == {s} \X ((a + 1)..(a + m)) IN
          IsFiniteSet(R) /\ Cardinality(R) = m
    BY RowCount
  <2> QED BY <1>2, <2>1
<1>4. \A u : u \in row <=> \E k \in (f[s] + 1)..(f[s] + n) : u = <<s, k>>
  OBVIOUS
<1> HIDE DEF g, row
<1>5. Units(g) = Units(f) \cup row
  <2>1. ASSUME NEW u \in Units(g) PROVE u \in Units(f) \cup row
    <3>1. PICK r \in S, k \in Nat : k \in 1..g[r] /\ u = <<r, k>>
      BY <1>1, <2>1, UnitsMember
    <3>2. CASE r = s /\ k > f[s]
      BY <1>1, <1>2, <1>4, <3>1, <3>2
    <3>3. CASE ~(r = s /\ k > f[s])
      <4>1. k \in 1..f[r]
        BY <1>1, <1>2, <3>1, <3>3
      <4> QED BY <3>1, <4>1, UnitsMember
    <3> QED BY <3>2, <3>3
  <2>2. ASSUME NEW u \in Units(f) PROVE u \in Units(g)
    <3>1. PICK r \in S, k \in Nat : k \in 1..f[r] /\ u = <<r, k>>
      BY <2>2, UnitsMember
    <3>2. f[r] \in Nat /\ (g[r] = f[r] \/ g[r] = f[r] + n)
      BY <1>1
    <3>3. k \in 1..g[r]
      BY <3>1, <3>2
    <3> QED BY <1>1, <3>1, <3>3, UnitsMember
  <2>3. ASSUME NEW u \in row PROVE u \in Units(g)
    <3>1. PICK k \in (f[s] + 1)..(f[s] + n) : u = <<s, k>>
      BY <1>4, <2>3
    <3>2. k \in 1..g[s]
      BY <1>1, <1>2
    <3> QED BY <1>1, <3>1, <3>2, UnitsMember
  <2> QED BY <2>1, <2>2, <2>3
<1>6. Units(f) \cap row = {}
  <2> SUFFICES ASSUME NEW u \in row, u \in Units(f) PROVE FALSE
    OBVIOUS
  <2>1. PICK k \in (f[s] + 1)..(f[s] + n) : u = <<s, k>>
    BY <1>4
  <2>2. PICK r \in S, j \in Nat : j \in 1..f[r] /\ u = <<r, j>>
    BY UnitsMember
  <2> QED BY <1>2, <2>1, <2>2
<1>7. IsFiniteSet(Units(f)) /\ Cardinality(Units(f)) \in Nat
  BY SumType, FS_CardinalityType
<1>8. Cardinality(Units(f) \cup row)
        = Cardinality(Units(f)) + Cardinality(row) - Cardinality(Units(f) \cap row)
  BY <1>3, <1>7, FS_Union
<1>9. Cardinality(Units(f) \cap row) = 0
  BY <1>6, FS_EmptySet
<1>10. Sum(g) = Sum(f) + n
  BY <1>3, <1>5, <1>7, <1>8, <1>9 DEF Sum
<1> QED BY <1>1, <1>10 DEF g

\* A function nowhere larger has no larger sum.
LEMMA SumBelow ==
  ASSUME NEW S, IsFiniteSet(S), NEW f \in [S -> Nat], NEW g \in [S -> Nat],
         \A s \in S : f[s] <= g[s]
  PROVE  Sum(f) <= Sum(g)
<1>1. Units(f) \subseteq Units(g)
  <2> SUFFICES ASSUME NEW u \in Units(f) PROVE u \in Units(g)
    OBVIOUS
  <2>1. PICK s \in S, k \in Nat : k \in 1..f[s] /\ u = <<s, k>>
    BY UnitsMember
  <2>2. k \in 1..g[s]
    <3>1. f[s] \in Nat /\ g[s] \in Nat /\ f[s] <= g[s]
      OBVIOUS
    <3> QED BY <2>1, <3>1
  <2> QED BY <2>1, <2>2, UnitsMember
<1> QED BY <1>1, SumType, Part DEF Sum

\* Zeros sum up to zero.
LEMMA SumNothing ==
  ASSUME NEW S, NEW f \in [S -> Nat], \A s \in S : f[s] = 0
  PROVE  Sum(f) = 0
<1>1. Units(f) = {}
  BY UnitsMember
<1> QED BY <1>1, FS_EmptySet DEF Sum

-----------------------------------------------------------------------------
(* _allocate_balanced.                                                      *)

\* What a call knows: no stratum gets more than it has.
GrantOK(g) ==
  LET S == DOMAIN g.capacity IN
  /\ IsFiniteSet(S)
  /\ g \in [capacity : [S -> Nat], got : [S -> Nat], left : Nat, even : Nat,
                todo : SUBSET S]
  /\ \A s \in S : g.got[s] <= g.capacity[s]

\* A round lifts every stratum from n by the same share, as far as it can.
Level(g, n) ==
  LET S == DOMAIN g.capacity IN
  /\ \A s \in S \ g.todo : g.got[s] = Lesser(g.capacity[s], n + g.even)
  /\ \A s \in g.todo : g.got[s] = n /\ n < g.capacity[s]
  /\ g.todo # {} => g.even > 0
  /\ g.even # 1 => g.even * Cardinality(g.todo) <= g.left

GrantInv(g) == GrantOK(g) /\ \E n \in Nat : Level(g, n)

\* A call begins with nothing given, as much as the limit and the strata allow left.
LEMMA CallInv ==
  ASSUME NEW S, IsFiniteSet(S), NEW capacity \in [S -> Nat], NEW limit \in Nat,
         NEW g, g = Call(capacity, limit)
  PROVE  /\ GrantInv(g) /\ g.capacity = capacity
         /\ Sum(g.got) + g.left = Lesser(limit, Sum(capacity))
<1> DEFINE none == [s \in S |-> 0]
<1>1. g = [capacity |-> capacity, got |-> none, left |-> Lesser(limit, Sum(capacity)),
                even |-> 0, todo |-> {}]
  BY DEF Call
<1>2. Sum(capacity) \in Nat
  BY SumType
<1>3. Lesser(limit, Sum(capacity)) \in Nat
  BY <1>2 DEF Lesser
<1>4. none \in [S -> Nat] /\ \A s \in S : none[s] = 0
  OBVIOUS
<1> HIDE DEF none
<1>5. DOMAIN g.capacity = S
  BY <1>1
<1>6. GrantOK(g)
  BY <1>1, <1>3, <1>4, <1>5 DEF GrantOK
<1>7. Level(g, 0)
  <2>1. \A s \in S : capacity[s] \in Nat
    OBVIOUS
  <2>2. Cardinality({}) = 0
    BY FS_EmptySet
  <2> QED BY <1>1, <1>3, <1>4, <1>5, <2>1, <2>2 DEF Level, Lesser
<1>8. Sum(none) = 0
  BY <1>4, SumNothing
<1>9. GrantInv(g)
  BY <1>6, <1>7 DEF GrantInv
<1>10. Sum(g.got) + g.left = Lesser(limit, Sum(capacity))
  BY <1>1, <1>3, <1>8
<1> QED BY <1>1, <1>9, <1>10

\* Division rounds down, and not to zero when there is one for each.
LEMMA DivBounds ==
  ASSUME NEW a \in Nat, NEW b \in Nat \ {0}
  PROVE  /\ a \div b \in Nat /\ (a \div b) * b <= a
         /\ a >= b => a \div b >= 1
OBVIOUS

\* A new round gives nothing yet; its share, taken by all, does not exceed the rest.
LEMMA RoundInv ==
  GrantInv(grant) /\ StartRound => /\ GrantInv(grant') /\ grant'.capacity = grant.capacity
                            /\ grant'.got = grant.got /\ grant'.left = grant.left
<1> SUFFICES ASSUME GrantInv(grant), StartRound
             PROVE  /\ GrantInv(grant') /\ grant'.capacity = grant.capacity
                    /\ grant'.got = grant.got /\ grant'.left = grant.left
  OBVIOUS
<1> DEFINE S == DOMAIN grant.capacity
           n == Cardinality(Active)
           even == EvenShare(grant.left, n)
<1>1. /\ IsFiniteSet(S) /\ grant.capacity \in [S -> Nat] /\ grant.got \in [S -> Nat]
      /\ grant.left \in Nat /\ grant.even \in Nat /\ grant.todo \subseteq S
      /\ \A s \in S : grant.got[s] <= grant.capacity[s]
  BY DEF GrantInv, GrantOK
<1>2. Active \subseteq S /\ Active = {s \in S : grant.got[s] < grant.capacity[s]}
  BY <1>1 DEF Active
<1>3. grant.todo = {} /\ Active # {} /\ grant.left > 0
  BY DEF StartRound
<1>4. IsFiniteSet(Active) /\ n \in Nat \ {0}
  BY <1>1, <1>2, <1>3, Part, FS_EmptySet
<1>5. /\ even \in Nat \ {0} /\ (even # 1 => even * n <= grant.left)
  <2> HIDE DEF n
  <2>1. CASE grant.left >= n
    BY <1>1, <1>4, <2>1, DivBounds DEF EvenShare
  <2>2. CASE ~(grant.left >= n)
    BY <2>2 DEF EvenShare
  <2> QED BY <2>1, <2>2
<1>6. grant' = [grant EXCEPT !.todo = Active, !.even = even]
  BY DEF StartRound
<1> HIDE DEF even
<1>7. /\ grant'.capacity = grant.capacity /\ grant'.got = grant.got
      /\ grant'.left = grant.left /\ grant'.todo = Active /\ grant'.even = even
      /\ grant' \in [capacity : [S -> Nat], got : [S -> Nat], left : Nat, even : Nat,
                     todo : SUBSET S]
  BY <1>1, <1>2, <1>5, <1>6 DEF GrantInv, GrantOK
<1>8. GrantOK(grant')
  BY <1>1, <1>7 DEF GrantOK
<1>9. PICK m \in Nat : Level(grant, m)
  BY DEF GrantInv
<1>10a. PICK k \in Nat : k = m + grant.even
  BY <1>1
<1>10. k \in Nat /\ \A s \in S : grant.got[s] = Lesser(grant.capacity[s], k)
  BY <1>1, <1>3, <1>9, <1>10a DEF Level
<1>11. Level(grant', k)
  <2> HIDE DEF n
  <2>1. \A s \in S : grant.capacity[s] \in Nat /\ grant.got[s] \in Nat
    BY <1>1
  <2>2. \A s \in Active : grant.got[s] = k /\ k < grant.capacity[s]
    BY <1>2, <1>10, <2>1 DEF Lesser
  <2>3. \A s \in S \ Active : grant.got[s] = Lesser(grant.capacity[s], k + even)
    BY <1>2, <1>5, <1>10, <2>1 DEF Lesser
  <2>4. even # 1 => even * Cardinality(Active) <= grant.left
    BY <1>5 DEF n
  <2> QED BY <1>5, <1>7, <2>2, <2>3, <2>4 DEF Level
<1> QED BY <1>7, <1>8, <1>10, <1>11 DEF GrantInv

\* A stratum that is served takes the share or all it has, never a cut share.
LEMMA ServeInv ==
  ASSUME GrantInv(grant), NEW s, Serve(s)
  PROVE  /\ GrantInv(grant') /\ grant'.capacity = grant.capacity
         /\ Sum(grant'.got) + grant'.left = Sum(grant.got) + grant.left
<1> DEFINE S == DOMAIN grant.capacity
           take == Lesser(grant.even, Lesser(grant.capacity[s] - grant.got[s], grant.left))
<1>1. /\ IsFiniteSet(S) /\ grant.capacity \in [S -> Nat] /\ grant.got \in [S -> Nat]
      /\ grant.left \in Nat /\ grant.even \in Nat /\ grant.todo \subseteq S
      /\ \A r \in S : grant.got[r] <= grant.capacity[r]
  BY DEF GrantInv, GrantOK
<1>2. s \in grant.todo /\ s \in S /\ grant.left > 0
  BY <1>1 DEF Serve
<1>3. PICK n \in Nat : Level(grant, n)
  BY DEF GrantInv
<1>4. /\ grant.got[s] = n /\ n < grant.capacity[s] /\ grant.capacity[s] \in Nat
      /\ grant.even > 0
  BY <1>1, <1>2, <1>3 DEF Level
<1> DEFINE c == Cardinality(grant.todo)
           d == Cardinality(grant.todo \ {s})
<1>5. IsFiniteSet(grant.todo)
  BY <1>1, Part
<1>6. c \in Nat \ {0} /\ d = c - 1
  BY <1>2, <1>5, FS_CardinalityType, FS_EmptySet, FS_RemoveElement
<1>7. grant.even # 1 => grant.even * c <= grant.left
  BY <1>3 DEF Level
<1>8. grant.even <= grant.left
  <2> HIDE DEF c
  <2>1. CASE grant.even = 1
    BY <1>1, <1>2, <2>1
  <2>2. CASE grant.even # 1
    <3>1. \A e \in Nat, x \in Nat \ {0} : e <= e * x
      OBVIOUS
    <3> QED BY <1>1, <1>6, <1>7, <2>2, <3>1
  <2> QED BY <2>1, <2>2
<1>9. /\ take \in Nat /\ take <= grant.even /\ take <= grant.left
      /\ n + take = Lesser(grant.capacity[s], n + grant.even)
  BY <1>1, <1>4, <1>8 DEF Lesser
<1>10. grant' = [grant EXCEPT !.got[s] = @ + take, !.left = @ - take,
                              !.todo = @ \ {s}]
  BY DEF Serve
<1> HIDE DEF take, c, d
<1> DEFINE more == [grant.got EXCEPT ![s] = @ + take]
<1>11. grant' = [grant EXCEPT !.got = more, !.left = grant.left - take,
                              !.todo = grant.todo \ {s}]
  BY <1>1, <1>10 DEF GrantInv, GrantOK
<1>12. more \in [S -> Nat] /\ Sum(more) = Sum(grant.got) + take
  BY <1>1, <1>2, <1>9, SumMore
<1>13. more[s] = n + take /\ \A r \in S \ {s} : more[r] = grant.got[r]
  BY <1>1, <1>2, <1>4
<1> HIDE DEF more
<1>14. /\ grant'.capacity = grant.capacity /\ grant'.got = more
       /\ grant'.left = grant.left - take /\ grant'.todo = grant.todo \ {s}
       /\ grant'.even = grant.even
       /\ grant' \in [capacity : [S -> Nat], got : [S -> Nat], left : Nat, even : Nat,
                      todo : SUBSET S]
  <2>1. grant.left - take \in Nat
    BY <1>1, <1>9
  <2>2. grant.todo \ {s} \subseteq S
    BY <1>1
  <2>3. grant \in [capacity : [S -> Nat], got : [S -> Nat], left : Nat, even : Nat,
                   todo : SUBSET S]
    BY DEF GrantInv, GrantOK
  <2> HIDE DEF S
  <2> QED BY <1>11, <1>12, <2>1, <2>2, <2>3
<1>15. GrantOK(grant')
  <2>1. \A r \in S : more[r] <= grant.capacity[r]
    BY <1>1, <1>4, <1>9, <1>13 DEF Lesser
  <2> QED BY <1>1, <1>14, <2>1 DEF GrantOK
<1>16. Level(grant', n)
  <2>1. \A r \in S \ (grant.todo \ {s}) : more[r] = Lesser(grant.capacity[r], n + grant.even)
    BY <1>3, <1>9, <1>13 DEF Level
  <2>2. \A r \in grant.todo \ {s} : more[r] = n /\ n < grant.capacity[r]
    BY <1>1, <1>3, <1>13 DEF Level
  <2>3. grant.even # 1 => grant.even * d <= grant.left - take
    <3>1. \A e \in Nat, x \in Nat \ {0} : e * (x - 1) = e * x - e
      OBVIOUS
    <3>2. grant.even * d = grant.even * c - grant.even /\ grant.even * c \in Nat
      BY <1>1, <1>6, <3>1
    <3> QED BY <1>1, <1>7, <1>9, <3>2
  <2> QED BY <1>4, <1>14, <2>1, <2>2, <2>3 DEF Level, d
<1>17. Sum(grant.got) \in Nat
  BY <1>1, SumType
<1> QED BY <1>1, <1>9, <1>12, <1>14, <1>15, <1>16, <1>17 DEF GrantInv

\* The loop ends with everything given away, as evenly as capacities allow.
LEMMA AllocatedEvenly ==
  ASSUME GrantInv(grant), Allocated,
         NEW amount \in Nat, Sum(grant.got) + grant.left = amount,
         amount <= Sum(grant.capacity)
  PROVE  /\ Sum(grant.got) = amount
         /\ \A s, r \in DOMAIN grant.capacity :
              grant.got[s] < grant.capacity[s] => grant.got[r] <= grant.got[s] + 1
<1> DEFINE S == DOMAIN grant.capacity
<1>1. /\ IsFiniteSet(S) /\ grant.capacity \in [S -> Nat] /\ grant.got \in [S -> Nat]
      /\ grant.left \in Nat /\ grant.even \in Nat /\ grant.todo \subseteq S
      /\ \A r \in S : grant.got[r] <= grant.capacity[r]
  BY DEF GrantInv, GrantOK
<1>2. Active = {s \in S : grant.got[s] < grant.capacity[s]}
  BY <1>1 DEF Active
<1>3. Sum(grant.got) \in Nat /\ Sum(grant.capacity) \in Nat
  BY <1>1, SumType
<1>4. CASE grant.todo = {} /\ Active = {}
  <2>1. \A s \in S : grant.got[s] = grant.capacity[s]
    BY <1>1, <1>2, <1>4
  <2>2. Sum(grant.capacity) <= Sum(grant.got)
    BY <1>1, <2>1, SumBelow
  <2> QED BY <1>1, <1>3, <2>1, <2>2
<1>5. CASE grant.left = 0
  <2>1. Sum(grant.got) = amount
    BY <1>3, <1>5
  <2>2. PICK n \in Nat : Level(grant, n)
    BY DEF GrantInv
  <2>3. grant.todo = {} \/ grant.even = 1
    <3> SUFFICES ASSUME grant.todo # {}, grant.even # 1 PROVE FALSE
      OBVIOUS
    <3>1. grant.even > 0 /\ grant.even * Cardinality(grant.todo) <= 0
      BY <1>5, <2>2 DEF Level
    <3>2. Cardinality(grant.todo) \in Nat \ {0}
      BY <1>1, Part, FS_EmptySet
    <3>3. \A e, c \in Nat \ {0} : e * c > 0
      OBVIOUS
    <3> QED BY <1>1, <3>1, <3>2, <3>3
  <2>4. \A s \in S : grant.got[s] \in Nat /\ grant.capacity[s] \in Nat
    BY <1>1
  <2>5. CASE grant.todo = {}
    BY <1>1, <2>1, <2>2, <2>4, <2>5 DEF Level, Lesser
  <2>6. CASE grant.even = 1
    <3>1. \A s \in S : IF s \in grant.todo THEN grant.got[s] = n
                       ELSE grant.got[s] = Lesser(grant.capacity[s], n + 1)
      BY <2>2, <2>6 DEF Level
    <3>2. \A s \in S : grant.got[s] <= n + 1
      BY <2>4, <3>1 DEF Lesser
    <3>3. \A s \in S : grant.got[s] < grant.capacity[s] => grant.got[s] >= n
      BY <2>4, <3>1 DEF Lesser
    <3> QED BY <2>1, <2>4, <3>2, <3>3
  <2> QED BY <2>3, <2>5, <2>6
<1> QED BY <1>4, <1>5 DEF Allocated

-----------------------------------------------------------------------------
(* The pipeline.                                                           *)

\* Strata and what they hold are finite.
LEMMA StrataFinite == IsFiniteSet(Clips) /\ IsFiniteSet(Diagonal) /\ IsFiniteSet(Across)
<1>1. IsFiniteSet(Clips) /\ IsFiniteSet(Groups)
  BY FS_Interval, 1 \in Int, NumVideos \in Int, NumCommunities \in Int DEF Clips, Groups
<1>2. IsFiniteSet(Groups \X Groups)
  BY <1>1, FS_Product
<1>3. Diagonal \subseteq Groups \X Groups /\ Across \subseteq Groups \X Groups
  BY DEF Diagonal, Across
<1> QED BY <1>1, <1>2, <1>3, Part

\* The capped members of a community belong to it.
LEMMA CappedMembers == \A g : Capped(g) \subseteq {v \in Clips : label[v] = g}
BY DEF Capped, Members

\* What a community offers is a number.
LEMMA AvailableType == Available \in [Diagonal -> Nat]
<1>1. \A s \in Diagonal : Capped(s[1]) \subseteq Clips
  BY CappedMembers
<1>2. \A s \in Diagonal : Cardinality(Capped(s[1])) \in Nat
  BY <1>1, Part, StrataFinite
<1> QED BY <1>2 DEF Available

\* How many pairs a stratum offers is a number.
LEMMA PairsOfType ==
  ASSUME NEW strata, NEW chosen, chosen \subseteq Clips
  PROVE  PairsOf(strata, chosen) \in [strata -> Nat]
<1>1. IsFiniteSet(Clips \X Clips)
  BY StrataFinite, FS_Product
<1>2. \A s \in strata : Pool({s}, chosen) \subseteq Clips \X Clips
  BY DEF Pool
<1>3. \A s \in strata : Cardinality(Pool({s}, chosen)) \in Nat
  BY <1>1, <1>2, Part
<1> QED BY <1>3 DEF PairsOf

\* Until the texts are collected no pair has changed and nothing is missing.
Untouched ==
  stage \in {"select", "within", "between", "collect"} =>
    /\ pairs = drawn /\ missing = {}
    /\ \A v \in Clips : subst[v] = 0 /\ refused[v] = 0

\* A substitute is embedded and comes from the community it stands in for.
SubstOK == \A v \in Clips : subst[v] # 0 =>
  subst[v] \in vectors /\ label[subst[v]] = label[v]

\* A video that was refused once is confirmed missing.
RefusedOnce == \A v \in Clips : refused[v] # 0 => refused[v] = 1 /\ v \in missing

\* A pair has the videos it was drawn with or their substitutes.
Explained == \A i \in DOMAIN pairs, s \in {1, 2} :
  \/ pairs[i][s] = drawn[i][s]
  \/ subst[drawn[i][s]] # 0 /\ pairs[i][s] = subst[drawn[i][s]]

DrawnApart == \A i \in DOMAIN drawn : drawn[i][1] # drawn[i][2]

SweepOK == Untouched /\ SubstOK /\ RefusedOnce /\ Explained /\ DrawnApart /\ side[1] >= 1

\* While the selection waits it is allocating its budget to the communities.
ShareOK ==
  /\ stage = "select" =>
       /\ share = <<>> /\ grant.capacity = Available
       /\ Sum(grant.got) + grant.left = Lesser(MaxTranscripts, Sum(Available))
  /\ BudgetShared

PairInv == PairTypeOK /\ GrantInv(grant) /\ ShareOK /\ SweepOK

\* The invariant of the pipeline begins true.
LEMMA PairInitInv == PairInit => PairInv
<1> SUFFICES ASSUME PairInit PROVE PairInv
  OBVIOUS
<1>1. /\ Available \in [Diagonal -> Nat] /\ IsFiniteSet(Diagonal) /\ MaxTranscripts \in Nat
      /\ grant = Call(Available, MaxTranscripts)
  BY AvailableType, StrataFinite DEF PairInit
<1>2. GrantInv(grant)
      /\ grant.capacity = Available
      /\ Sum(grant.got) + grant.left = Lesser(MaxTranscripts, Sum(Available))
  BY <1>1, CallInv
<1>3. grant.got \in [DOMAIN grant.capacity -> Nat] /\ grant.left \in Nat
  BY <1>2 DEF GrantInv, GrantOK
<1>4. share = <<>> /\ DOMAIN <<>> = {}
  BY DEF PairInit
<1>5. share \in [DOMAIN share -> Nat]
  BY <1>4
<1>6. PairTypeOK
  <2>1. /\ label \in [Clips -> Groups] /\ refused \in [Clips -> Nat]
        /\ subst \in [Clips -> Clips \cup {0}]
    BY DEF PairInit
  <2>2. pairs \in Seq(Clips \X Clips) /\ drawn = pairs
    BY DEF PairInit
  <2>3. side \in Nat \X {1, 2} /\ sweep \in 1..MaxSweeps /\ fetches \in 0..FetchBudget
    BY DEF PairInit
  <2> QED BY <1>3, <1>5, <2>1, <2>2, <2>3 DEF PairInit, PairTypeOK
<1>7. ShareOK
  BY <1>2, <1>4 DEF ShareOK, BudgetShared
<1>8. SweepOK
  BY DEF PairInit, SweepOK, Untouched, SubstOK, RefusedOnce, Explained, DrawnApart
<1> QED BY <1>2, <1>6, <1>7, <1>8 DEF PairInv

\* The allocation goes on.
LEMMA AllocateStep == PairInv /\ Allocate => PairInv'
<1> SUFFICES ASSUME PairInv, Allocate PROVE PairInv'
  OBVIOUS
<1>1. /\ GrantInv(grant') /\ grant'.capacity = grant.capacity
      /\ Sum(grant'.got) + grant'.left = Sum(grant.got) + grant.left
  <2>1. CASE StartRound
    BY <2>1, RoundInv DEF PairInv
  <2>2. ASSUME NEW s \in grant.todo, Serve(s) PROVE <1>1!:
    BY <2>2, ServeInv DEF PairInv
  <2> QED BY <2>1, <2>2 DEF Allocate
<1>2. grant'.got \in [DOMAIN grant'.capacity -> Nat] /\ grant'.left \in Nat
  BY <1>1 DEF GrantInv, GrantOK
<1>3. /\ UNCHANGED <<label, stage, share, pairs, drawn, vectors, missing, subst, side>>
      /\ UNCHANGED <<sweep, progress, fetches, refused>>
  BY DEF Allocate
<1>4. PairTypeOK'
  BY <1>2, <1>3 DEF PairInv, PairTypeOK
<1>5. Available' = Available
  BY <1>3 DEF Available, Capped, Members
<1>6. ShareOK'
  BY <1>1, <1>3, <1>5 DEF PairInv, ShareOK, BudgetShared
<1>7. SweepOK'
  BY <1>3 DEF PairInv, SweepOK, Untouched, SubstOK, RefusedOnce, Explained, DrawnApart
<1> QED BY <1>1, <1>4, <1>6, <1>7 DEF PairInv

\* The selection gets its share once the loop is over.
LEMMA SelectStep == PairInv /\ Select => PairInv'
<1> SUFFICES ASSUME PairInv, Select PROVE PairInv'
  OBVIOUS
<1>1. PICK chosen \in SUBSET UNION {Capped(g) : g \in Groups} :
        /\ vectors' = chosen
        /\ stage' = IF Cardinality(chosen) < 2 THEN "insufficient" ELSE "within"
        /\ grant' = Call(PairsOf(Diagonal, chosen), MaxPairs)
  BY DEF Select
<1>2. chosen \subseteq Clips
  BY <1>1, CappedMembers
<1>3. GrantInv(grant')
  BY <1>1, <1>2, PairsOfType, StrataFinite, CallInv
<1>4. /\ share' = grant.got /\ Allocated /\ stage = "select"
      /\ UNCHANGED <<label, pairs, drawn, missing, subst, side, sweep, progress, fetches>>
      /\ UNCHANGED refused
  BY DEF Select
<1>5. grant'.got \in [DOMAIN grant'.capacity -> Nat] /\ grant'.left \in Nat
  BY <1>3 DEF GrantInv, GrantOK
<1>6. pairs = drawn /\ missing = {} /\ \A v \in Clips : subst[v] = 0 /\ refused[v] = 0
  BY <1>4 DEF PairInv, SweepOK, Untouched
<1>7. stage' \in {"within", "insufficient"}
  BY <1>1
<1>8. PairTypeOK'
  <2>1. share' \in [DOMAIN share' -> Nat]
    BY <1>4 DEF PairInv, PairTypeOK
  <2> QED BY <1>1, <1>2, <1>4, <1>5, <1>6, <1>7, <2>1 DEF PairInv, PairTypeOK
<1>9. ShareOK'
  <2>1. grant.capacity = Available /\ Available \in [Diagonal -> Nat]
    BY <1>4, AvailableType DEF PairInv, ShareOK
  <2>2. Sum(Available) \in Nat
    BY <2>1, SumType, StrataFinite
  <2> DEFINE amount == Lesser(MaxTranscripts, Sum(Available))
  <2>3. /\ amount \in Nat /\ amount <= Sum(grant.capacity)
        /\ Sum(grant.got) + grant.left = amount
    BY <1>4, <2>1, <2>2 DEF PairInv, ShareOK, Lesser
  <2>4. /\ Sum(grant.got) = amount
        /\ \A s, r \in DOMAIN grant.capacity :
             grant.got[s] < grant.capacity[s] => grant.got[r] <= grant.got[s] + 1
    <3> HIDE DEF amount
    <3> QED BY <1>4, <2>3, AllocatedEvenly DEF PairInv
  <2>5. Available' = Available
    BY <1>4 DEF Available, Capped, Members
  <2> QED BY <1>4, <1>7, <2>1, <2>4, <2>5 DEF ShareOK, BudgetShared
<1>10. SweepOK'
  BY <1>4, <1>6, <1>7
  DEF PairInv, SweepOK, Untouched, SubstOK, RefusedOnce, Explained, DrawnApart
<1> QED BY <1>3, <1>8, <1>9, <1>10 DEF PairInv

\* A draw is a sequence of pairs of two different videos.
LEMMA DrawType ==
  ASSUME PairInv, NEW d \in Draws
  PROVE  d \in Seq(Clips \X Clips) /\ \A i \in DOMAIN d : d[i][1] # d[i][2]
<1>1. vectors \subseteq Clips /\ label \in [Clips -> Groups]
  BY DEF PairInv, PairTypeOK
<1>2. Sum(grant.got) \in Nat
  BY SumType DEF PairInv, GrantInv, GrantOK
<1>3. d \in [1..Sum(grant.got) -> Pool(DOMAIN grant.got, vectors)]
  BY DEF Draws
<1>4. \A p \in Pool(DOMAIN grant.got, vectors) : p \in Clips \X Clips /\ p[1] # p[2]
  <2> SUFFICES ASSUME NEW p \in Pool(DOMAIN grant.got, vectors)
               PROVE  p \in Clips \X Clips /\ p[1] # p[2]
    OBVIOUS
  <2>1. p \in vectors \X vectors /\ (label[p[1]] = label[p[2]] => p[1] < p[2])
    BY DEF Pool
  <2>2. p[1] \in Clips /\ p[2] \in Clips /\ p \in Clips \X Clips
    BY <1>1, <2>1
  <2>3. p[1] \in Nat /\ p[2] \in Nat
    BY <2>2 DEF Clips
  <2> QED BY <2>1, <2>2, <2>3
<1> QED BY <1>2, <1>3, <1>4

\* A sample extends the pairs by different pairs of two different videos.
LEMMA SampleStep == PairInv /\ SamplePairs => PairInv'
<1> SUFFICES ASSUME PairInv, SamplePairs PROVE PairInv'
  OBVIOUS
<1>1. PICK d \in Draws : pairs' = pairs \o d /\ drawn' = drawn \o d
  BY DEF SamplePairs
<1>2. d \in Seq(Clips \X Clips) /\ \A i \in DOMAIN d : d[i][1] # d[i][2]
  BY <1>1, DrawType
<1>3. /\ stage \in {"within", "between"} /\ stage' \in {"between", "collect"}
      /\ UNCHANGED <<label, share, vectors, missing, subst, side, sweep, progress>>
      /\ UNCHANGED <<fetches, refused>>
  BY DEF SamplePairs
<1>4. GrantInv(grant')
  <2>1. CASE UNCHANGED grant
    BY <2>1 DEF PairInv
  <2>2. CASE grant' = Call(PairsOf(Across, vectors), MaxPairs)
    <3>1. vectors \subseteq Clips
      BY DEF PairInv, PairTypeOK
    <3> QED BY <2>2, <3>1, PairsOfType, StrataFinite, CallInv
  <2> QED BY <2>1, <2>2 DEF SamplePairs
<1>5. grant'.got \in [DOMAIN grant'.capacity -> Nat] /\ grant'.left \in Nat
  BY <1>4 DEF GrantInv, GrantOK
<1>6. /\ pairs = drawn /\ missing = {} /\ drawn \in Seq(Clips \X Clips)
      /\ \A v \in Clips : subst[v] = 0 /\ refused[v] = 0
  BY <1>3 DEF PairInv, SweepOK, Untouched, PairTypeOK
<1>7. pairs' = drawn' /\ drawn' \in Seq(Clips \X Clips)
  BY <1>1, <1>2, <1>6
<1>8. PairTypeOK'
  BY <1>3, <1>5, <1>7 DEF PairInv, PairTypeOK
<1>9. Available' = Available
  BY <1>3 DEF Available, Capped, Members
<1>10. ShareOK'
  BY <1>3, <1>9 DEF PairInv, ShareOK, BudgetShared
<1>11. DrawnApart'
  <2> SUFFICES ASSUME NEW i \in DOMAIN drawn' PROVE drawn'[i][1] # drawn'[i][2]
    BY DEF DrawnApart
  <2>1. Len(drawn) \in Nat /\ Len(d) \in Nat
    BY <1>2, <1>6
  <2>2. CASE i \in 1..Len(drawn)
    BY <1>1, <1>2, <1>6, <2>2 DEF PairInv, SweepOK, DrawnApart
  <2>3. CASE i \notin 1..Len(drawn)
    <3>1. i - Len(drawn) \in DOMAIN d /\ drawn'[i] = d[i - Len(drawn)]
      BY <1>1, <1>2, <1>6, <2>1, <2>3
    <3> QED BY <1>2, <3>1
  <2> QED BY <2>2, <2>3
<1>12. SweepOK'
  BY <1>3, <1>6, <1>7, <1>11
  DEF PairInv, SweepOK, Untouched, SubstOK, RefusedOnce, Explained
<1> QED BY <1>4, <1>8, <1>10, <1>12 DEF PairInv

\* The texts and embeddings of the pairs' videos.
LEMMA CollectStep == PairInv /\ CollectTexts => PairInv'
<1> SUFFICES ASSUME PairInv, CollectTexts PROVE PairInv'
  OBVIOUS
<1>1. PICK texts \in SUBSET Needed, made \in SUBSET Needed :
        /\ made \subseteq texts
        /\ vectors' = made /\ missing' = Needed \ texts
        /\ refused' = [v \in Clips |-> IF v \in Needed \ texts THEN 1 ELSE 0]
        /\ stage' = IF Cardinality(made) < 2 THEN "insufficient" ELSE "replace"
  BY DEF CollectTexts
<1>2. /\ stage = "collect"
      /\ UNCHANGED <<label, grant, share, pairs, drawn, subst, side, sweep, progress>>
      /\ UNCHANGED fetches
  BY DEF CollectTexts
<1>3. Needed \subseteq Clips
  <2>1. \A i \in DOMAIN pairs : pairs[i] \in Clips \X Clips
    BY DEF PairInv, PairTypeOK
  <2> QED BY <2>1 DEF Needed
<1>4. stage' \in {"replace", "insufficient"}
  BY <1>1
<1>5. pairs = drawn /\ \A v \in Clips : subst[v] = 0
  BY <1>2 DEF PairInv, SweepOK, Untouched
<1>6. PairTypeOK'
  BY <1>1, <1>2, <1>3, <1>4 DEF PairInv, PairTypeOK
<1>7. Available' = Available
  BY <1>2 DEF Available, Capped, Members
<1>8. ShareOK'
  BY <1>2, <1>4, <1>7 DEF PairInv, ShareOK, BudgetShared
<1>9. RefusedOnce'
  BY <1>1 DEF RefusedOnce
<1>10. SweepOK'
  BY <1>2, <1>4, <1>5, <1>9
  DEF PairInv, SweepOK, Untouched, SubstOK, Explained, DrawnApart
<1> QED BY <1>2, <1>6, <1>8, <1>10 DEF PairInv

\* A peer comes from the same community and is not known to be missing.
LEMMA PickType ==
  ASSUME PairInv, NEW v \in Clips, NEW other, NEW c \in Pick(v, other)
  PROVE  c \in Clips /\ label[c] = label[v] /\ c \notin missing
<1>1. c \in Peers(v, other)
  BY DEF Pick, First
<1> QED BY <1>1, CappedMembers DEF Peers

\* Putting a substitute for a video without an embedding.
LEMMA ApplyStep ==
  ASSUME PairInv, Sweeping,
         NEW v \in Clips, v = Here[side[2]], v \notin vectors,
         NEW c \in Clips, label[c] = label[v], subst[v] = 0 \/ subst[v] = c,
         Apply(v, c), c \in vectors', vectors \subseteq vectors', UNCHANGED <<label, drawn>>
  PROVE  /\ pairs' \in Seq(Clips \X Clips) /\ Len(pairs') = Len(pairs)
         /\ subst' \in [Clips -> Clips \cup {0}] /\ side' \in Nat \X {1, 2} /\ side'[1] >= 1
         /\ progress' \in BOOLEAN /\ SubstOK' /\ Explained'
<1> DEFINE i == side[1]
           p == pairs[i]
<1>1. /\ pairs \in Seq(Clips \X Clips) /\ Len(pairs) = Len(drawn)
      /\ drawn \in Seq(Clips \X Clips)
      /\ subst \in [Clips -> Clips \cup {0}] /\ side \in Nat \X {1, 2} /\ i >= 1
      /\ label \in [Clips -> Groups]
  BY DEF PairInv, PairTypeOK, SweepOK
<1>2. i \in DOMAIN pairs /\ p \in Clips \X Clips /\ p = <<p[1], p[2]>>
  BY <1>1 DEF Sweeping
<1>3. i \in DOMAIN drawn /\ drawn[i] \in Clips \X Clips /\ drawn[i][1] # drawn[i][2]
  BY <1>1, <1>2 DEF PairInv, SweepOK, DrawnApart
<1>4. v = p[side[2]] /\ side[2] \in {1, 2}
  BY <1>1 DEF Here
<1>5. \A s \in {1, 2} : p[s] \notin vectors => p[s] = drawn[i][s]
  BY <1>2, <1>3 DEF PairInv, SweepOK, Explained, SubstOK
<1>6. ~(v = p[1] /\ v = p[2])
  BY <1>3, <1>5
<1> DEFINE q == Replaced(p, v, c)
<1>7. /\ q \in Clips \X Clips /\ q[side[2]] = c
      /\ \A s \in {1, 2} : s # side[2] => q[s] = p[s]
  BY <1>2, <1>4, <1>6 DEF Replaced
<1>8. /\ pairs' = [pairs EXCEPT ![i] = q] /\ subst' = [subst EXCEPT ![v] = c]
      /\ side' = NextPair /\ progress' = TRUE
  BY DEF Apply
<1> HIDE DEF q
<1>9. pairs' \in Seq(Clips \X Clips) /\ Len(pairs') = Len(pairs)
  BY <1>1, <1>2, <1>7, <1>8
<1>10. subst' \in [Clips -> Clips \cup {0}] /\ side' \in Nat \X {1, 2} /\ side'[1] >= 1
  BY <1>1, <1>8 DEF NextPair
<1>11. c # 0
  BY DEF Clips
<1>12. SubstOK'
  <2> SUFFICES ASSUME NEW u \in Clips, subst'[u] # 0
               PROVE  subst'[u] \in vectors' /\ label'[subst'[u]] = label'[u]
    BY DEF SubstOK
  <2>1. CASE u = v
    BY <1>1, <1>8, <2>1
  <2>2. CASE u # v
    BY <1>1, <1>8, <2>2 DEF PairInv, SweepOK, SubstOK
  <2> QED BY <2>1, <2>2
<1>13. \A u \in Clips : subst[u] # 0 => subst'[u] = subst[u]
  BY <1>1, <1>8
<1>14. Explained'
  <2> SUFFICES ASSUME NEW j \in DOMAIN pairs', NEW s \in {1, 2}
               PROVE  \/ pairs'[j][s] = drawn[j][s]
                      \/ subst'[drawn[j][s]] # 0 /\ pairs'[j][s] = subst'[drawn[j][s]]
    BY DEF Explained
  <2>1. j \in DOMAIN pairs /\ j \in DOMAIN drawn
    BY <1>1, <1>8
  <2>2. drawn[j][s] \in Clips
    BY <1>1, <2>1
  <2>3. CASE j = i /\ s = side[2]
    <3>1. drawn[i][s] = v
      BY <1>4, <1>5, <2>3
    <3>2. pairs'[i][s] = c /\ subst'[v] = c
      BY <1>1, <1>2, <1>7, <1>8, <2>3
    <3> QED BY <1>11, <2>3, <3>1, <3>2
  <2>4. CASE ~(j = i /\ s = side[2])
    <3>1. pairs'[j][s] = pairs[j][s]
      BY <1>2, <1>7, <1>8, <2>1, <2>4
    <3>2. \/ pairs[j][s] = drawn[j][s]
          \/ subst[drawn[j][s]] # 0 /\ pairs[j][s] = subst[drawn[j][s]]
      BY <2>1 DEF PairInv, SweepOK, Explained
    <3> QED BY <1>13, <2>2, <3>1, <3>2
  <2> QED BY <2>3, <2>4
<1> QED BY <1>8, <1>9, <1>10, <1>12, <1>14

\* Going on without a change.
LEMMA NextSideType ==
  PairInv => /\ NextSide \in Nat \X {1, 2} /\ NextSide[1] >= 1
             /\ NextPair \in Nat \X {1, 2} /\ NextPair[1] >= 1
<1> SUFFICES ASSUME PairInv
             PROVE  /\ NextSide \in Nat \X {1, 2} /\ NextSide[1] >= 1
                    /\ NextPair \in Nat \X {1, 2} /\ NextPair[1] >= 1
  OBVIOUS
<1>1. side[1] \in Nat /\ side[1] >= 1
  BY DEF PairInv, PairTypeOK, SweepOK
<1> QED BY <1>1 DEF NextSide, NextPair

\* A side is replaced, left alone or found missing.
LEMMA ReplaceStep ==
  ASSUME PairInv, Sweeping, ~Usable(Here),
         Here[side[2]] \notin vectors, ReplaceSide(Here[side[2]], Here[3 - side[2]]),
         UNCHANGED <<label, stage, grant, share, drawn, sweep>>
  PROVE  /\ PairTypeOK' /\ SubstOK' /\ RefusedOnce' /\ Explained' /\ side'[1] >= 1
<1> DEFINE v == Here[side[2]]
           other == Here[3 - side[2]]
           found == IF Mapped(v) # 0 THEN {Mapped(v)} ELSE Pick(v, other)
<1>1. /\ pairs \in Seq(Clips \X Clips) /\ side \in Nat \X {1, 2} /\ side[1] >= 1
      /\ side[1] <= Len(pairs) /\ stage = "replace"
  BY DEF PairInv, PairTypeOK, SweepOK, Sweeping
<1>2. v \in Clips /\ v \notin vectors
  <2>1. Here \in Clips \X Clips
    BY <1>1 DEF Here
  <2> QED BY <1>1, <2>1
<1>3. ReplaceSide(v, other)
  OBVIOUS
<1> HIDE DEF other
<1>4. \A c \in found : /\ c \in Clips /\ label[c] = label[v]
                       /\ subst[v] = 0 \/ subst[v] = c
                       /\ c \notin vectors => c \notin missing /\ subst[v] = 0
  <2>1. CASE Mapped(v) # 0
    BY <1>2, <2>1 DEF PairInv, SweepOK, SubstOK, PairTypeOK, Mapped
  <2>2. CASE Mapped(v) = 0
    BY <1>2, <2>2, PickType DEF Mapped
  <2> QED BY <2>1, <2>2
<1>5. \/ /\ \E c \in found \cap vectors : Apply(v, c)
         /\ UNCHANGED <<vectors, fetches>>
      \/ NotReplaced /\ UNCHANGED <<missing, refused, fetches>>
      \/ \E c \in found \ vectors :
           /\ fetches < FetchBudget /\ fetches' = fetches + 1
           /\ \/ Apply(v, c) /\ vectors' = vectors \cup {c}
              \/ /\ NotReplaced /\ missing' = Failed(c)
                 /\ \E n \in {0, 1} : refused' = [refused EXCEPT ![c] = @ + n]
  BY <1>3 DEF ReplaceSide
<1> HIDE DEF v, found
<1>6. /\ label \in [Clips -> Groups] /\ refused \in [Clips -> Nat]
      /\ grant'.got \in [DOMAIN grant'.capacity -> Nat] /\ grant'.left \in Nat
      /\ share' \in [DOMAIN share' -> Nat] /\ stage' = "replace"
      /\ drawn' \in Seq(Clips \X Clips) /\ Len(pairs) = Len(drawn')
      /\ vectors \subseteq Clips /\ missing \subseteq Clips /\ vectors \cap missing = {}
      /\ sweep' \in 1..MaxSweeps /\ fetches \in 0..FetchBudget
      /\ label' = label /\ drawn' = drawn /\ progress \in BOOLEAN
      /\ subst \in [Clips -> Clips \cup {0}]
  BY <1>1 DEF PairInv, PairTypeOK
<1>7. RefusedOnce /\ SubstOK /\ Explained
  BY DEF PairInv, SweepOK
<1>8. ASSUME NEW c \in found \cap vectors, Apply(v, c), UNCHANGED <<vectors, fetches>>
      PROVE  PairTypeOK' /\ SubstOK' /\ RefusedOnce' /\ Explained' /\ side'[1] >= 1
  <2>1. c \in Clips /\ label[c] = label[v] /\ (subst[v] = 0 \/ subst[v] = c)
    BY <1>4
  <2>2. /\ pairs' \in Seq(Clips \X Clips) /\ Len(pairs') = Len(pairs)
        /\ subst' \in [Clips -> Clips \cup {0}] /\ side' \in Nat \X {1, 2} /\ side'[1] >= 1
        /\ progress' \in BOOLEAN /\ SubstOK' /\ Explained'
    BY <1>2, <1>6, <1>8, <2>1, ApplyStep DEF v
  <2>3. missing' = missing /\ refused' = refused
    BY <1>8 DEF Apply
  <2>4. RefusedOnce'
    BY <1>7, <2>3 DEF RefusedOnce
  <2> QED BY <1>6, <1>8, <2>2, <2>3, <2>4 DEF PairTypeOK
<1>9. ASSUME NotReplaced, UNCHANGED <<missing, refused, fetches>>
      PROVE  PairTypeOK' /\ SubstOK' /\ RefusedOnce' /\ Explained' /\ side'[1] >= 1
  <2>1. /\ UNCHANGED <<pairs, subst, progress, vectors>>
        /\ side' \in Nat \X {1, 2} /\ side'[1] >= 1
    BY <1>9, NextSideType DEF NotReplaced
  <2>2. SubstOK' /\ RefusedOnce' /\ Explained'
    BY <1>6, <1>7, <1>9, <2>1 DEF SubstOK, RefusedOnce, Explained
  <2> QED BY <1>1, <1>6, <1>9, <2>1, <2>2 DEF PairTypeOK
<1>10. ASSUME NEW c \in found \ vectors, fetches < FetchBudget, fetches' = fetches + 1,
              Apply(v, c), vectors' = vectors \cup {c}
       PROVE  PairTypeOK' /\ SubstOK' /\ RefusedOnce' /\ Explained' /\ side'[1] >= 1
  <2>1. /\ c \in Clips /\ label[c] = label[v] /\ (subst[v] = 0 \/ subst[v] = c)
        /\ c \notin missing
    BY <1>4
  <2>2. /\ pairs' \in Seq(Clips \X Clips) /\ Len(pairs') = Len(pairs)
        /\ subst' \in [Clips -> Clips \cup {0}] /\ side' \in Nat \X {1, 2} /\ side'[1] >= 1
        /\ progress' \in BOOLEAN /\ SubstOK' /\ Explained'
    BY <1>2, <1>6, <1>10, <2>1, ApplyStep DEF v
  <2>3. missing' = missing /\ refused' = refused
    BY <1>10 DEF Apply
  <2>4. RefusedOnce'
    BY <1>7, <2>3 DEF RefusedOnce
  <2>5. vectors' \subseteq Clips /\ vectors' \cap missing' = {}
    BY <1>6, <1>10, <2>1, <2>3
  <2>6. fetches' \in 0..FetchBudget
    BY <1>6, <1>10
  <2> QED BY <1>6, <2>2, <2>3, <2>4, <2>5, <2>6 DEF PairTypeOK
<1>11. ASSUME NEW c \in found \ vectors, fetches < FetchBudget, fetches' = fetches + 1,
              NotReplaced, missing' = Failed(c),
              NEW n \in {0, 1}, refused' = [refused EXCEPT ![c] = @ + n]
       PROVE  PairTypeOK' /\ SubstOK' /\ RefusedOnce' /\ Explained' /\ side'[1] >= 1
  <2>1. c \in Clips /\ c \notin missing
    BY <1>4
  <2>2. missing' = missing \cup {c}
    BY <1>11 DEF Failed
  <2>3. refused[c] = 0
    BY <1>7, <2>1 DEF RefusedOnce
  <2>4. refused' \in [Clips -> Nat] /\ refused'[c] = n
    BY <1>6, <1>11, <2>1, <2>3
  <2>5. RefusedOnce'
    BY <1>6, <1>7, <1>11, <2>1, <2>2, <2>4 DEF RefusedOnce
  <2>6. /\ UNCHANGED <<pairs, subst, progress, vectors>>
        /\ side' \in Nat \X {1, 2} /\ side'[1] >= 1
    BY <1>11, NextSideType DEF NotReplaced
  <2>7. SubstOK' /\ Explained'
    BY <1>6, <1>7, <2>6 DEF SubstOK, Explained
  <2>8. vectors' \cap missing' = {} /\ missing' \subseteq Clips
    BY <1>6, <2>1, <2>2, <2>6
  <2>9. fetches' \in 0..FetchBudget
    BY <1>6, <1>11
  <2> QED BY <1>1, <1>6, <2>4, <2>5, <2>6, <2>7, <2>8, <2>9 DEF PairTypeOK
<1> QED BY <1>5, <1>8, <1>9, <1>10, <1>11

\* A sweep keeps the invariant, whatever it meets.
LEMMA SweepStep == PairInv /\ (SweepSide \/ EndSweep) => PairInv'
<1> SUFFICES ASSUME PairInv, SweepSide \/ EndSweep PROVE PairInv'
  OBVIOUS
<1>1. /\ UNCHANGED <<label, grant, share, drawn>> /\ stage = "replace"
      /\ stage' \in {"replace", "observed", "insufficient"}
  BY DEF SweepSide, EndSweep, Sweeping
<1>2. PairTypeOK' /\ SubstOK' /\ RefusedOnce' /\ Explained' /\ side'[1] >= 1
  <2>1. CASE SweepSide /\ Usable(Here)
    <3>1. /\ UNCHANGED <<label, stage, grant, share, drawn, sweep, pairs, subst, progress>>
          /\ UNCHANGED <<vectors, missing, refused, fetches>>
          /\ side' \in Nat \X {1, 2} /\ side'[1] >= 1
      BY <2>1, NextSideType DEF SweepSide
    <3> QED BY <3>1 DEF PairInv, PairTypeOK, SweepOK, SubstOK, RefusedOnce, Explained
  <2>2. CASE SweepSide /\ ~Usable(Here) /\ Here[side[2]] \in vectors
    <3>1. /\ UNCHANGED <<label, stage, grant, share, drawn, sweep, pairs, subst, progress>>
          /\ UNCHANGED <<vectors, missing, refused, fetches>>
          /\ side' \in Nat \X {1, 2} /\ side'[1] >= 1
      BY <2>2, NextSideType DEF SweepSide, NotReplaced
    <3> QED BY <3>1 DEF PairInv, PairTypeOK, SweepOK, SubstOK, RefusedOnce, Explained
  <2>3. CASE SweepSide /\ ~Usable(Here) /\ Here[side[2]] \notin vectors
    <3>1. /\ Sweeping /\ ReplaceSide(Here[side[2]], Here[3 - side[2]])
          /\ UNCHANGED <<label, stage, grant, share, drawn, sweep>>
      BY <2>3 DEF SweepSide
    <3> QED BY <2>3, <3>1, ReplaceStep
  <2>4. CASE EndSweep
    <3>1. /\ UNCHANGED <<label, grant, share, pairs, drawn, vectors, missing, subst, fetches>>
          /\ UNCHANGED refused
      BY <2>4 DEF EndSweep
    <3>2. side' \in Nat \X {1, 2} /\ side'[1] >= 1 /\ sweep' \in 1..MaxSweeps
          /\ progress' \in BOOLEAN
      <4>1. /\ side \in Nat \X {1, 2} /\ side[1] >= 1 /\ sweep \in 1..MaxSweeps
            /\ progress \in BOOLEAN /\ MaxSweeps \in Nat
        BY DEF PairInv, PairTypeOK, SweepOK
      <4>2. CASE progress /\ sweep < MaxSweeps
        <5>1. side' = <<1, 1>> /\ sweep' = sweep + 1 /\ progress' = FALSE
          BY <2>4, <4>2 DEF EndSweep
        <5>2. sweep + 1 \in 1..MaxSweeps
          BY <4>1, <4>2
        <5>3. side'[1] = 1 /\ side' \in Nat \X {1, 2}
          <6>1. <<1, 1>> \in Nat \X {1, 2} /\ <<1, 1>>[1] = 1
            OBVIOUS
          <6> QED BY <5>1, <6>1
        <5>4. sweep' \in 1..MaxSweeps /\ progress' \in BOOLEAN
          BY <5>1, <5>2
        <5> QED BY <5>3, <5>4
      <4>3. CASE ~(progress /\ sweep < MaxSweeps)
        BY <2>4, <4>1, <4>3 DEF EndSweep
      <4> QED BY <4>2, <4>3
    <3> QED BY <1>1, <3>1, <3>2 DEF PairInv, PairTypeOK, SweepOK, SubstOK, RefusedOnce, Explained
  <2> QED BY <2>1, <2>2, <2>3, <2>4
<1>3. Available' = Available
  BY <1>1 DEF Available, Capped, Members
<1>4. ShareOK'
  BY <1>1, <1>3 DEF PairInv, ShareOK, BudgetShared
<1>5. SweepOK'
  BY <1>1, <1>2 DEF PairInv, SweepOK, Untouched, DrawnApart
<1> QED BY <1>1, <1>2, <1>4, <1>5 DEF PairInv

\* At any number of videos, communities and pairs and any budget: the transcript
\* budget is spent, and evenly; a pair keeps its communities; a video has one
\* substitute wherever it occurs, and one that was refused is not asked again.
THEOREM SampleSoundHolds == PairSpec => []SampleSound
<1>1. PairInv /\ [PairNext]_pairVars => PairInv'
  <2> SUFFICES ASSUME PairInv, [PairNext]_pairVars PROVE PairInv'
    OBVIOUS
  <2>1. CASE UNCHANGED pairVars
    <3>1. Available' = Available
      BY <2>1 DEF pairVars, Available, Capped, Members
    <3> QED BY <2>1, <3>1
        DEF pairVars, PairInv, PairTypeOK, ShareOK, BudgetShared, SweepOK, Untouched, SubstOK,
            RefusedOnce, Explained, DrawnApart
  <2> QED BY <2>1, AllocateStep, SelectStep, SampleStep, CollectStep, SweepStep DEF PairNext
<1>2. PairInv => SampleSound
  <2> SUFFICES ASSUME PairInv PROVE SampleSound
    OBVIOUS
  <2>1. /\ pairs \in Seq(Clips \X Clips) /\ drawn \in Seq(Clips \X Clips)
        /\ Len(pairs) = Len(drawn) /\ refused \in [Clips -> Nat]
    BY DEF PairInv, PairTypeOK
  <2>2. \A i \in DOMAIN pairs, s \in {1, 2} : drawn[i][s] \in Clips
    <3> SUFFICES ASSUME NEW i \in DOMAIN pairs PROVE drawn[i] \in Clips \X Clips
      OBVIOUS
    <3>1. i \in DOMAIN drawn
      BY <2>1
    <3> QED BY <2>1, <3>1
  <2>3. StrataKept
    BY <2>2 DEF StrataKept, PairInv, SweepOK, Explained, SubstOK
  <2>4. SameSubstitute
    BY DEF SameSubstitute, PairInv, SweepOK, Explained
  <2>5. NotRefetched
    <3> SUFFICES ASSUME NEW v \in Clips PROVE refused[v] <= 1
      BY DEF NotRefetched
    <3>1. refused[v] = 0 \/ refused[v] = 1
      BY DEF PairInv, SweepOK, RefusedOnce
    <3> QED BY <3>1
  <2> QED BY <2>3, <2>4, <2>5 DEF SampleSound, PairInv, ShareOK
<1> QED BY PairInitInv, <1>1, <1>2, PTL DEF PairSpec
=============================================================================
