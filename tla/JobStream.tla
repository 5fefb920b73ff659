----------------------------- MODULE JobStream -----------------------------
(***************************************************************************)
(* The server-sent events of a job: subscribe, unsubscribe and _notify of   *)
(* services/jobs.py and stream_job of api/app.py.                           *)
(*                                                                          *)
(* A snapshot is the number of changes the job had seen and whether it was  *)
(* over.  Threads change the job and notify; everything a client does runs  *)
(* on the event loop, where subscribe does not wait: no callback runs       *)
(* before it returns.  call_soon_threadsafe is a queue of callbacks, kept   *)
(* per client because callbacks of two clients do not meet.                 *)
(***************************************************************************)
EXTENDS Naturals, Sequences

CONSTANTS
  Threads,   \* threads that change the job: its worker, a control request
  Clients,   \* connections; one that reconnects is another client
  QueueMax,  \* maxsize of a subscriber's queue, 100 in the code
  MaxChanges \* bound: changes of the job

ASSUME StreamAssumption ==
  QueueMax \in Nat \ {0} /\ MaxChanges \in Nat

VARIABLES
  state,    \* the job
  notifier, \* a thread between its change and the end of _notify
  subs,     \* _subscribers of the job
  soon,     \* callbacks scheduled on the loop, per client
  inbox,    \* the asyncio.Queue of each subscriber
  client,   \* where the handler of each connection is
  replay,   \* the snapshot subscribe has built
  newest,   \* history: the newest snapshot each client was sent
  overrun   \* history: clients for which put_nowait found the queue full

streamVars == <<state, notifier, subs, soon, inbox, client, replay, newest, overrun>>

Snapshots == [n : 0..MaxChanges, over : BOOLEAN]
Resting == [at |-> "rest", snap |-> [n |-> 0, over |-> FALSE]]

StreamTypeOK ==
  /\ state \in Snapshots /\ newest \in [Clients -> 0..MaxChanges]
  /\ notifier \in [Threads -> [at : {"rest", "changed", "built"}, snap : Snapshots]]
  /\ subs \subseteq Clients /\ overrun \subseteq Clients
  /\ soon \in [Clients -> Seq(Snapshots)]
  /\ inbox \in [Clients -> Seq(Snapshots)]
  /\ \A c \in Clients : Len(inbox[c]) <= QueueMax
  /\ client \in [Clients -> {"away", "entered", "built", "ready", "open",
                             "closed", "left", "dropped"}]
  /\ replay \in [Clients -> Snapshots]

StreamInit ==
  /\ state = Resting.snap /\ notifier = [t \in Threads |-> Resting]
  /\ subs = {} /\ overrun = {}
  /\ soon = [c \in Clients |-> <<>>] /\ inbox = [c \in Clients |-> <<>>]
  /\ client = [c \in Clients |-> "away"]
  /\ replay = [c \in Clients |-> Resting.snap]
  /\ newest = [c \in Clients |-> 0]

-----------------------------------------------------------------------------
(* Any thread: a change under the lock, then _notify.                      *)

\* A job that is over may be set running again by the worker that finds it.
ChangeJob(t) ==
  /\ notifier[t].at = "rest" /\ state.n < MaxChanges
  /\ \E over \in BOOLEAN : state' = [n |-> state.n + 1, over |-> over]
  /\ notifier' = [notifier EXCEPT ![t].at = "changed"]
  /\ UNCHANGED <<subs, soon, inbox, client, replay, newest, overrun>>

BuildSnapshot(t) ==
  /\ notifier[t].at = "changed"
  /\ notifier' = [notifier EXCEPT ![t] = [at |-> "built", snap |-> state]]
  /\ UNCHANGED <<state, subs, soon, inbox, client, replay, newest, overrun>>

\* The subscribers are copied under the lock; each gets a callback.
PostSnapshot(t) ==
  /\ notifier[t].at = "built"
  /\ soon' = [c \in Clients |-> IF c \in subs THEN Append(soon[c], notifier[t].snap)
                                ELSE soon[c]]
  /\ notifier' = [notifier EXCEPT ![t] = Resting]
  /\ UNCHANGED <<state, subs, inbox, client, replay, newest, overrun>>

-----------------------------------------------------------------------------
(* The event loop.                                                         *)

LoopFree == \A c \in Clients : client[c] \notin {"entered", "built"}

\* Mutant: the queue is registered when the replay has been scheduled.
EnterUnregistered(c) ==
  /\ client[c] = "away" /\ LoopFree
  /\ client' = [client EXCEPT ![c] = "entered"]
  /\ UNCHANGED <<state, notifier, subs, soon, inbox, replay, newest, overrun>>

\* subscribe: the queue is registered, the current state is read without
\* the lock, and its replay is scheduled.
Enter(c) ==
  /\ client[c] = "away" /\ LoopFree
  /\ subs' = subs \cup {c}
  /\ client' = [client EXCEPT ![c] = "entered"]
  /\ UNCHANGED <<state, notifier, soon, inbox, replay, newest, overrun>>

BuildReplay(c) ==
  /\ client[c] = "entered"
  /\ replay' = [replay EXCEPT ![c] = state]
  /\ client' = [client EXCEPT ![c] = "built"]
  /\ UNCHANGED <<state, notifier, subs, soon, inbox, newest, overrun>>

PostReplay(c) ==
  /\ client[c] = "built"
  /\ soon' = [soon EXCEPT ![c] = Append(@, replay[c])]
  /\ subs' = subs \cup {c}  \* already so
  /\ client' = [client EXCEPT ![c] = "ready"]
  /\ UNCHANGED <<state, notifier, inbox, replay, newest, overrun>>

StartStream(c) ==
  /\ client[c] = "ready" /\ LoopFree
  /\ client' = [client EXCEPT ![c] = "open"]
  /\ UNCHANGED <<state, notifier, subs, soon, inbox, replay, newest, overrun>>

Fits(c) == Len(inbox[c]) < QueueMax

\* A callback: put_nowait raises on a full queue and the snapshot is gone.
Deliver(c) ==
  /\ LoopFree /\ soon[c] # <<>>
  /\ soon' = [soon EXCEPT ![c] = Tail(@)]
  /\ IF Fits(c)
     THEN /\ inbox' = [inbox EXCEPT ![c] = Append(@, Head(soon[c]))]
          /\ UNCHANGED overrun
     ELSE overrun' = overrun \cup {c} /\ UNCHANGED inbox
  /\ UNCHANGED <<state, notifier, subs, client, replay, newest>>

\* Mutant: the stream goes on after the last event.
EndsNever(snap) == FALSE
\* terminal: succeeded, failed or cancelled.
Ends(snap) == snap.over

\* Mutant: the queue stays registered when the stream returns.
KeepSub(c) == subs
Unsubscribe(c) == subs \ {c}

\* event_stream: one event; after a terminal one the generator returns.
SendEvent(c) ==
  /\ client[c] = "open" /\ LoopFree /\ inbox[c] # <<>>
  /\ LET s == Head(inbox[c]) IN
     /\ newest' = [newest EXCEPT ![c] = IF s.n > @ THEN s.n ELSE @]
     /\ inbox' = [inbox EXCEPT ![c] = Tail(@)]
     /\ IF Ends(s)
        THEN /\ client' = [client EXCEPT ![c] = "closed"]
             /\ subs' = Unsubscribe(c)
        ELSE UNCHANGED <<client, subs>>
  /\ UNCHANGED <<state, notifier, soon, replay, overrun>>

\* The client disconnects: a generator that has started runs its finally.
Disconnect(c) ==
  /\ client[c] \in {"ready", "open"} /\ LoopFree
  /\ IF client[c] = "open"
     THEN client' = [client EXCEPT ![c] = "left"] /\ subs' = Unsubscribe(c)
     ELSE client' = [client EXCEPT ![c] = "dropped"] /\ UNCHANGED subs
  /\ UNCHANGED <<state, notifier, soon, inbox, replay, newest, overrun>>

NotifyStep(t) == BuildSnapshot(t) \/ PostSnapshot(t)
LoopStep(c) == BuildReplay(c) \/ PostReplay(c) \/ StartStream(c) \/ Deliver(c)
                 \/ SendEvent(c)
StreamNext ==
  \/ \E t \in Threads : ChangeJob(t) \/ NotifyStep(t)
  \/ \E c \in Clients : Enter(c) \/ LoopStep(c) \/ Disconnect(c)

StreamSpec == StreamInit /\ [][StreamNext]_streamVars

-----------------------------------------------------------------------------
Sent(c) == {newest[c]} \cup {inbox[c][i].n : i \in DOMAIN inbox[c]}
             \cup {soon[c][i].n : i \in DOMAIN soon[c]}

\* No state of the job is missed: when no thread is notifying, a client that
\* listens has been sent the current state or is about to be, whichever way
\* its subscription met the changes, unless its queue overran.
CurrentDelivered ==
  (\A t \in Threads : notifier[t].at = "rest") =>
    \A c \in Clients \ overrun :
      client[c] \in {"ready", "open"} => state.n \in Sent(c)

\* A queue is registered exactly while its stream is being set up or runs; a
\* client that is gone before its generator starts leaves it for ever.
SubscribersExplained ==
  \A c \in Clients :
    c \in subs <=> client[c] \in {"entered", "built", "ready", "open", "dropped"}

\* What the registry of subscribers promises, whichever thread acts next.
StreamSound == CurrentDelivered /\ SubscribersExplained

\* The streams of a job that stays over close, also after it was set running
\* again in between, unless a queue overran: then the last event may be gone
\* and the stream stays open.
StreamCloses ==
  <>[]state.over =>
    \A c \in Clients : client[c] = "open" ~> client[c] # "open" \/ c \in overrun
=============================================================================
