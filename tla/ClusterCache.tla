---------------------------- MODULE ClusterCache ----------------------------
(***************************************************************************)
(* The web server's in-process cluster cache (internal/web/clustercache.go)*)
(* and the SSE handler that streams its events to a browser tab            *)
(* (internal/web/sse.go).                                                  *)
(*                                                                         *)
(* Every operation of the cache runs under c.mu.  applyEvent holds the     *)
(* mutex for a whole loop of channel sends while the handlers, which own   *)
(* the receiving ends, run without it; so the loop is modelled send by     *)
(* send.  `todo` is the set of subscribers the running loop has not reached*)
(* yet: the mutex is held exactly while it is not empty.  The other        *)
(* critical sections are single steps that need the mutex free.            *)
(*                                                                         *)
(* A stream is one slot for an invocation of handleClustersStream; a slot  *)
(* that has returned can be used by the next connection.  Subscriber ids   *)
(* (nextSubID) only ever name one channel, so the slot stands for the id.  *)
(***************************************************************************)
EXTENDS Integers, Sequences

CONSTANTS
    Keys,       \* the "namespace/name" keys of clusters
    Clusters,   \* the states a cluster can be seen in
    Absent,     \* no cluster under this key
    NoKey,      \* the key field of a message that is not about a cluster
    Streams,    \* the slots for SSE connections
    ChanCap,    \* capacity of a subscriber channel (32 in the code)
    WireCap     \* messages a connection buffers before a write blocks

ASSUME CacheAssumption ==
    /\ Absent \notin Clusters
    /\ NoKey \notin Keys
    /\ ChanCap \in Nat \ {0}
    /\ WireCap \in Nat \ {0}

VARIABLES
    byKey,      \* clusterCache.byKey, Absent where the map has no entry
    subs,       \* the domain of clusterCache.subs: streams with an open channel
    chan,       \* the buffered events of each subscriber channel
    todo,       \* subscribers the running applyEvent loop still has to serve
    event,      \* the event that loop is fanning out
    handler,    \* where each handleClustersStream invocation is
    wire,       \* SSE messages written to a connection and not yet read
    missed      \* history: keys whose current state the stream has not carried

vars == <<byKey, subs, chan, todo, event, handler, wire, missed>>

-----------------------------------------------------------------------------
(* Events and messages                                                     *)

States == Clusters \cup {Absent}

\* A capi.Event about a cluster.  EventAdded and EventModified carry its new
\* state; EventDeleted is the event whose state is Absent.
ClusterEvents == [kind : {"cluster"}, key : Keys, cluster : States]

\* A capi.Event of type EventError.
ErrorEvent == [kind |-> "error", key |-> NoKey, cluster |-> Absent]

\* The "event: sync" message that tells a tab to fetch the snapshot.
SyncMsg == [kind |-> "sync", key |-> NoKey, cluster |-> Absent]

Messages == ClusterEvents \cup {SyncMsg}

NoEvent == [kind |-> "none", key |-> NoKey, cluster |-> Absent]

Handling == {"idle", "subscribed", "streaming", "gone"}

TypeOK ==
    /\ byKey \in [Keys -> States]
    /\ subs \in SUBSET Streams
    /\ chan \in [Streams -> Seq(ClusterEvents)]
    /\ todo \in SUBSET Streams
    /\ event \in ClusterEvents \cup {NoEvent}
    /\ handler \in [Streams -> Handling]
    /\ wire \in [Streams -> Seq(Messages)]
    /\ missed \in [Streams -> SUBSET Keys]
    /\ \A s \in Streams : Len(chan[s]) <= ChanCap /\ Len(wire[s]) <= WireCap

Init ==
    /\ byKey = [k \in Keys |-> Absent]
    /\ subs = {}
    /\ chan = [s \in Streams |-> <<>>]
    /\ todo = {}
    /\ event = NoEvent
    /\ handler = [s \in Streams |-> "idle"]
    /\ wire = [s \in Streams |-> <<>>]
    /\ missed = [s \in Streams |-> Keys]

-----------------------------------------------------------------------------
(* The cache                                                               *)

\* Faulty variant: the operations do not take c.mu.
NoMutex == TRUE

\* c.mu is free.
Unlocked == todo = {}

\* replaceAll: the cache becomes exactly the listed clusters, and no
\* subscriber hears of it.
ReplaceAll(listed) ==
    /\ Unlocked
    /\ byKey' = listed
    /\ missed' = [s \in Streams |->
                    missed[s] \cup {k \in Keys : listed[k] # byKey[k]}]
    /\ UNCHANGED <<subs, chan, todo, event, handler, wire>>

\* Faulty variant: the error case falls through to the fan-out.
ApplyEventNoErrorCase(ev) ==
    /\ Unlocked
    /\ byKey' = [k \in Keys |-> IF k = ev.key THEN ev.cluster ELSE byKey[k]]
    /\ todo' = subs
    /\ event' = IF subs = {} THEN NoEvent ELSE ev
    /\ UNCHANGED <<subs, chan, handler, wire, missed>>

\* applyEvent up to its loop: take the mutex, update the map, and find the
\* subscribers to notify.  An error event returns before the loop.
ApplyEvent(ev) ==
    /\ Unlocked
    /\ IF ev.kind = "error"
       THEN UNCHANGED vars
       ELSE /\ byKey' = [byKey EXCEPT ![ev.key] = ev.cluster]
            /\ todo' = subs
            /\ event' = IF subs = {} THEN NoEvent ELSE ev
            /\ UNCHANGED <<subs, chan, handler, wire, missed>>

\* Faulty variant: a plain send, that waits for room in the channel.
FanOutBlocking(s) ==
    /\ s \in todo
    /\ Len(chan[s]) < ChanCap
    /\ chan' = [chan EXCEPT ![s] = Append(@, event)]
    /\ missed' = [missed EXCEPT ![s] = @ \ {event.key}]
    /\ todo' = todo \ {s}
    /\ event' = IF todo = {s} THEN NoEvent ELSE event
    /\ UNCHANGED <<byKey, subs, handler, wire>>

\* One turn of applyEvent's loop: a non-blocking send that drops the event
\* when the channel is full.  The last turn releases the mutex.
FanOut(s) ==
    /\ s \in todo
    /\ IF Len(chan[s]) < ChanCap
       THEN /\ chan' = [chan EXCEPT ![s] = Append(@, event)]
            /\ missed' = [missed EXCEPT ![s] = @ \ {event.key}]
       ELSE /\ missed' = [missed EXCEPT ![s] = @ \cup {event.key}]
            /\ UNCHANGED chan
    /\ todo' = todo \ {s}
    /\ event' = IF todo = {s} THEN NoEvent ELSE event
    /\ UNCHANGED <<byKey, subs, handler, wire>>

-----------------------------------------------------------------------------
(* The stream handler                                                      *)

\* The handler starts and calls subscribe: a fresh, empty channel.
Subscribe(s) ==
    /\ handler[s] = "idle"
    /\ Unlocked
    /\ subs' = subs \cup {s}
    /\ chan' = [chan EXCEPT ![s] = <<>>]
    /\ handler' = [handler EXCEPT ![s] = "subscribed"]
    /\ missed' = [missed EXCEPT ![s] = Keys]
    /\ UNCHANGED <<byKey, todo, event, wire>>

\* The handler writes and flushes the initial sync message.
WriteSync(s) ==
    /\ handler[s] = "subscribed"
    /\ Len(wire[s]) < WireCap
    /\ wire' = [wire EXCEPT ![s] = Append(@, SyncMsg)]
    /\ handler' = [handler EXCEPT ![s] = "streaming"]
    /\ UNCHANGED <<byKey, subs, chan, todo, event, missed>>

\* The loop receives an event and writes it.  The event a blocked write holds
\* counts as one of the WireCap messages of the connection.
WriteEvent(s) ==
    /\ handler[s] = "streaming"
    /\ chan[s] # <<>>
    /\ Len(wire[s]) < WireCap
    /\ wire' = [wire EXCEPT ![s] = Append(@, Head(chan[s]))]
    /\ chan' = [chan EXCEPT ![s] = Tail(@)]
    /\ UNCHANGED <<byKey, subs, todo, event, handler, missed>>

\* The connection is lost: r.Context() is done and what was written is gone.
Disconnect(s) ==
    /\ handler[s] \in {"subscribed", "streaming"}
    /\ handler' = [handler EXCEPT ![s] = "gone"]
    /\ wire' = [wire EXCEPT ![s] = <<>>]
    /\ UNCHANGED <<byKey, subs, chan, todo, event, missed>>

\* With the context done and an event ready, select may still pick the event;
\* the write goes nowhere.
DrainToNowhere(s) ==
    /\ handler[s] = "gone"
    /\ chan[s] # <<>>
    /\ chan' = [chan EXCEPT ![s] = Tail(@)]
    /\ UNCHANGED <<byKey, subs, todo, event, handler, wire, missed>>

\* Faulty variant: unsub does not take the mutex.
ReturnUnlocked(s) ==
    /\ handler[s] = "gone"
    /\ subs' = subs \ {s}
    /\ chan' = [chan EXCEPT ![s] = <<>>]
    /\ handler' = [handler EXCEPT ![s] = "idle"]
    /\ missed' = [missed EXCEPT ![s] = Keys]
    /\ UNCHANGED <<byKey, todo, event, wire>>

\* The handler sees the context done and returns; the deferred unsub deletes
\* the subscription and closes its channel.
Return(s) ==
    /\ handler[s] = "gone"
    /\ Unlocked
    /\ subs' = subs \ {s}
    /\ chan' = [chan EXCEPT ![s] = <<>>]
    /\ handler' = [handler EXCEPT ![s] = "idle"]
    /\ missed' = [missed EXCEPT ![s] = Keys]
    /\ UNCHANGED <<byKey, todo, event, wire>>

\* The browser reads the oldest message of the connection.
Read(s) ==
    /\ wire[s] # <<>>
    /\ wire' = [wire EXCEPT ![s] = Tail(@)]
    /\ UNCHANGED <<byKey, subs, chan, todo, event, handler, missed>>

-----------------------------------------------------------------------------

StreamStep(s) ==
    \/ Subscribe(s) \/ WriteSync(s) \/ WriteEvent(s)
    \/ Disconnect(s) \/ DrainToNowhere(s) \/ Return(s)

Next ==
    \/ \E listed \in [Keys -> States] : ReplaceAll(listed)
    \/ \E ev \in ClusterEvents \cup {ErrorEvent} : ApplyEvent(ev)
    \/ \E s \in Streams : FanOut(s) \/ StreamStep(s) \/ Read(s)

Spec == Init /\ [][Next]_vars

\* The loop of applyEvent does not stop half-way, and a goroutine waiting for
\* a sync.Mutex is not passed over for ever (its starvation mode), which is
\* why Return has strong fairness.  Nothing makes a browser read.
Fairness ==
    \A s \in Streams : WF_vars(FanOut(s)) /\ SF_vars(Return(s))

FairSpec == Spec /\ Fairness

-----------------------------------------------------------------------------
(* Properties                                                              *)

\* What a stream still has to show its tab, oldest first: the messages on the
\* wire, then the channel, then the event the running loop has for it.
Pending(s) == IF s \in todo THEN <<event>> ELSE <<>>

InFlight(s) == wire[s] \o chan[s] \o Pending(s)

\* The i-th message of q is the last one about its key.
IsLast(q, i) == \A j \in (i + 1)..Len(q) : q[j].key # q[i].key

\* Whoever reads q to its end knows the state in c of every key that q is
\* about, K apart.
EndsIn(q, c, K) ==
    \A i \in 1..Len(q) :
        (q[i].kind = "cluster" /\ q[i].key \notin K /\ IsLast(q, i))
            => c[q[i].key] = q[i].cluster

\* A stream ends in the state of the cache: for every key the stream has not
\* missed, the last event in flight about it is the cache's current state.
\* Wire, channel and the fan-out in progress are three places an event can be
\* in, filled and drained by different goroutines (clustercache.go:59-76,
\* sse.go:29-41).
LastWins == \A s \in subs : EndsIn(InFlight(s), byKey, missed[s])

\* applyEvent never sends on a channel unsub has closed, which would panic
\* (the hazard the comment at clustercache.go:55-56 describes).
NoSendOnClosed == todo \subseteq subs

\* The inductive strengthening: a subscription lives exactly as long as its
\* handler, the loop has an event exactly while it holds the mutex, that event
\* is the cache's current state, nothing is written before the sync message or
\* after the connection is gone, and a slot that waits for a connection is
\* as it was at the start.
HandlersSubscribed == subs = {s \in Streams : handler[s] # "idle"}
MutexHeldWithEvent == todo = {} <=> event = NoEvent
FanOutIsCurrent == todo # {} => byKey[event.key] = event.cluster
WiresOpen == \A s \in Streams : handler[s] # "streaming" => wire[s] = <<>>
SlotsFresh ==
    \A s \in Streams : handler[s] = "idle" => chan[s] = <<>> /\ missed[s] = Keys

\* What does not depend on `missed`, which LiveList counts differently.
Control ==
    /\ TypeOK
    /\ HandlersSubscribed
    /\ MutexHeldWithEvent
    /\ FanOutIsCurrent
    /\ WiresOpen
    /\ NoSendOnClosed

IInv ==
    /\ Control
    /\ SlotsFresh
    /\ LastWins

\* A handler whose connection is gone eventually gets the mutex and drops its
\* subscription, however slowly the other tabs read: holding c.mu during the
\* fan-out cannot block it for good (clustercache.go:57-58).
GoneUnsubscribes == \A s \in Streams : handler[s] = "gone" ~> s \notin subs

\* The code is an atomic broadcast over lossy queues: what a stream has in
\* flight is the tab's queue, and an event the running loop has not sent yet
\* is already in it.
PhaseOf(h) ==
    CASE h = "idle" -> "idle"
      [] h = "subscribed" -> "joined"
      [] h = "streaming" -> "greeted"
      [] h = "gone" -> "cut"

TabPhase == [s \in Streams |-> PhaseOf(handler[s])]
TabQueue == [s \in Streams |-> InFlight(s)]
TabLost ==
    [s \in Streams |-> IF s \in todo THEN missed[s] \ {event.key} ELSE missed[s]]

Promise == INSTANCE Broadcast WITH
    cache <- byKey, phase <- TabPhase, queue <- TabQueue, lost <- TabLost

\* The cache and its handlers implement the atomic broadcast: no interleaving
\* of fan-out, handlers, connections and disconnections shows a tab anything
\* the abstract queue could not (clustercache.go:59-95, sse.go:22-41).
ImplementsBroadcast == Promise!Spec

=============================================================================
