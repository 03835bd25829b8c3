------------------------------ MODULE LiveList ------------------------------
(***************************************************************************)
(* The cluster list of a browser tab (internal/web/frontend/src/App.tsx,   *)
(* api/stream.ts), kept up to date by two unordered sources: GET           *)
(* /api/v1/clusters, whose answer replaces the list, and the SSE stream of *)
(* ClusterCache, whose events patch it.  A tab is a stream slot; its       *)
(* EventSource reconnects by itself, which is a new Subscribe of the slot, *)
(* and the list survives the reconnection.                                 *)
(*                                                                         *)
(* `missed` of ClusterCache becomes the keys a tab cannot count on: those  *)
(* it has neither a current snapshot nor a current event of.               *)
(***************************************************************************)
EXTENDS ClusterCache

CONSTANT MaxGets    \* bound: GET /clusters requests a tab has in flight

ASSUME LiveListAssumption == MaxGets \in Nat \ {0}

VARIABLES
    view,       \* the `clusters` state of each tab
    gets,       \* the GET /clusters requests each tab has in flight
    loadErr,    \* the tab shows "Couldn't load clusters"
    informed    \* history: has the list come from a snapshot taken during
                \* this connection: no, yes, or no but a request has failed

tabVars == <<view, gets, loadErr, informed>>
allVars == <<vars, tabVars>>

Slots == 1..MaxGets

\* A request is asked until the server takes its snapshot, and answered until
\* the tab gets the response.  History: `since`, the keys on which the
\* snapshot may no longer be what the tab should show; `fresh`, whether it was
\* taken during the current connection of the tab's stream.
NoGet == [phase |-> "free", snap |-> [k \in Keys |-> Absent],
          since |-> {}, fresh |-> FALSE]
Asked == [NoGet EXCEPT !.phase = "asked"]
Answered(snapshot, K, connected) ==
    [phase |-> "answered", snap |-> snapshot, since |-> K, fresh |-> connected]

Gets == [phase : {"free", "asked", "answered"}, snap : [Keys -> States],
         since : SUBSET Keys, fresh : BOOLEAN]

TypeOKTab ==
    /\ TypeOK
    /\ view \in [Streams -> [Keys -> States]]
    /\ gets \in [Streams -> [Slots -> Gets]]
    /\ loadErr \in [Streams -> BOOLEAN]
    /\ informed \in [Streams -> {"no", "failed", "yes"}]

InitTab ==
    /\ Init
    /\ view = [s \in Streams |-> [k \in Keys |-> Absent]]
    /\ gets = [s \in Streams |-> [i \in Slots |-> NoGet]]
    /\ loadErr = [s \in Streams |-> FALSE]
    /\ informed = [s \in Streams |-> "no"]

\* History: the snapshots tab s waits for can no longer be trusted on K.
Distrust(s, K) ==
    [i \in Slots |->
       IF gets[s][i].phase = "answered"
       THEN [gets[s][i] EXCEPT !.since = @ \cup K] ELSE gets[s][i]]

\* History: an event with the current state of key k is on its way to s.
Trust(s, k) ==
    [i \in Slots |-> [gets[s][i] EXCEPT !.since = @ \ {k}]]

\* The tab's stream is open.
Connected(s) == handler[s] \in {"subscribed", "streaming"}

-----------------------------------------------------------------------------
(* The server's steps, with the history of the snapshots in flight         *)

ReplaceAllTab(listed) ==
    /\ ReplaceAll(listed)
    /\ gets' = [s \in Streams |->
                  Distrust(s, {k \in Keys : listed[k] # byKey[k]})]
    /\ UNCHANGED <<view, loadErr, informed>>

FanOutTab(s) ==
    /\ FanOut(s)
    /\ gets' = [gets EXCEPT ![s] =
                  IF event.key \in missed'[s] THEN Distrust(s, {event.key})
                                              ELSE Trust(s, event.key)]
    /\ UNCHANGED <<view, loadErr, informed>>

SubscribeTab(s) ==
    /\ Subscribe(s)
    /\ gets' = [gets EXCEPT ![s] =
                  [i \in Slots |-> [Distrust(s, Keys)[i] EXCEPT !.fresh = FALSE]]]
    /\ informed' = [informed EXCEPT ![s] = "no"]
    /\ UNCHANGED <<view, loadErr>>

HandlerTab(s) ==
    /\ WriteSync(s) \/ WriteEvent(s) \/ Disconnect(s) \/ DrainToNowhere(s) \/ Return(s)
    /\ UNCHANGED tabVars

\* handleGetClusters takes the cache's snapshot for request i of tab s.
Answer(s, i) ==
    /\ gets[s][i] = Asked
    /\ Unlocked
    /\ gets' = [gets EXCEPT ![s][i] =
          Answered(byKey,
                   {k \in missed[s] :
                      \E j \in 1..Len(InFlight(s)) : InFlight(s)[j].key = k},
                   Connected(s))]
    /\ UNCHANGED <<vars, view, loadErr, informed>>

-----------------------------------------------------------------------------
(* The tab's steps                                                         *)

\* refresh(): ask for the list once more.
Ask(s, i) ==
    /\ gets[s][i] = NoGet
    /\ gets' = [gets EXCEPT ![s][i] = Asked]

\* refresh() on mount, from the header button, the retry of the error banner
\* or after a switch of management cluster.
Refresh(s) ==
    /\ \E i \in Slots : Ask(s, i)
    /\ UNCHANGED <<vars, view, loadErr, informed>>

\* Faulty variant: the sync message is ignored.
OnSyncIgnored(s) ==
    /\ wire[s] # <<>> /\ Head(wire[s]).kind = "sync"
    /\ Read(s)
    /\ UNCHANGED tabVars

\* onSync: refresh().
OnSync(s) ==
    /\ wire[s] # <<>> /\ Head(wire[s]).kind = "sync"
    /\ Read(s)
    /\ \E i \in Slots : Ask(s, i)
    /\ UNCHANGED <<view, loadErr, informed>>

\* Faulty variant: a deleted event leaves the row in the list.
OnClusterKeepsDeleted(s) ==
    /\ wire[s] # <<>> /\ Head(wire[s]).kind = "cluster"
    /\ Read(s)
    /\ LET ev == Head(wire[s]) IN
        /\ view' = IF ev.cluster = Absent THEN view
                   ELSE [view EXCEPT ![s][ev.key] = ev.cluster]
        /\ gets' = [gets EXCEPT ![s] = Distrust(s, {ev.key})]
    /\ UNCHANGED <<loadErr, informed>>

\* onCluster: the event replaces, adds or removes the row of its key.
OnCluster(s) ==
    /\ wire[s] # <<>> /\ Head(wire[s]).kind = "cluster"
    /\ Read(s)
    /\ LET ev == Head(wire[s]) IN
        /\ view' = [view EXCEPT ![s][ev.key] = ev.cluster]
        /\ gets' = [gets EXCEPT ![s] = Distrust(s, {ev.key})]
    /\ UNCHANGED <<loadErr, informed>>

\* The response arrives, in any order with the stream and with other
\* responses: setClusters(cs).
Reply(s, i) ==
    /\ gets[s][i].phase = "answered"
    /\ view' = [view EXCEPT ![s] = gets[s][i].snap]
    /\ missed' = [missed EXCEPT ![s] = gets[s][i].since]
    /\ gets' = [gets EXCEPT ![s][i] = NoGet]
    /\ loadErr' = [loadErr EXCEPT ![s] = FALSE]
    /\ informed' = IF gets[s][i].fresh THEN [informed EXCEPT ![s] = "yes"]
                                       ELSE informed
    /\ UNCHANGED <<byKey, subs, chan, todo, event, handler, wire>>

\* The request fails on its way there or back.
GetFails(s, i) ==
    /\ gets[s][i].phase # "free"
    /\ gets' = [gets EXCEPT ![s][i] = NoGet]
    /\ loadErr' = [loadErr EXCEPT ![s] = TRUE]
    /\ informed' = IF informed[s] = "no"
                   THEN [informed EXCEPT ![s] = "failed"] ELSE informed
    /\ UNCHANGED <<vars, view>>

-----------------------------------------------------------------------------

NextTab ==
    \/ \E listed \in [Keys -> States] : ReplaceAllTab(listed)
    \/ \E ev \in ClusterEvents \cup {ErrorEvent} : ApplyEvent(ev) /\ UNCHANGED tabVars
    \/ \E s \in Streams :
         \/ FanOutTab(s) \/ SubscribeTab(s) \/ HandlerTab(s)
         \/ Refresh(s) \/ OnSync(s) \/ OnCluster(s)
         \/ \E i \in Slots : Answer(s, i) \/ Reply(s, i) \/ GetFails(s, i)

SpecTab == InitTab /\ [][NextTab]_allVars

-----------------------------------------------------------------------------
(* Properties                                                              *)

\* What tab s will show of key k once it has read all that is in flight, if
\* it shows `shown` now.
Settled(s, shown, k) ==
    LET q == InFlight(s)
        about == {i \in 1..Len(q) : q[i].key = k}
    IN  IF about = {} THEN shown[k]
        ELSE q[CHOOSE i \in about : \A j \in about : j <= i].cluster

\* A connected tab catches up: on every key it has neither missed an event of
\* nor overwritten with an older snapshot, reading what is in flight brings it
\* to the state of the cache.  Subscribing before the sync message and asking
\* for the snapshot only after it is what makes this true (sse.go:22-27,
\* App.tsx:41-61).
ViewCatchesUp ==
    \A s \in Streams : Connected(s) =>
        \A k \in Keys \ missed[s] : Settled(s, view[s], k) = byKey[k]

\* The same of a snapshot still on its way to the tab: the answer will not
\* bring back anything the tab has already seen change, but for the keys
\* whose events overtook it.
SnapshotCatchesUp ==
    \A s \in Streams, i \in Slots :
        (Connected(s) /\ gets[s][i].phase = "answered") =>
            \A k \in Keys \ gets[s][i].since :
                Settled(s, gets[s][i].snap, k) = byKey[k]

\* Tab s has read everything, waits for no answer and shows no error.
Quiet(s) ==
    /\ handler[s] = "streaming"
    /\ InFlight(s) = <<>>
    /\ \A i \in Slots : gets[s][i] = NoGet
    /\ ~loadErr[s]

\* A tab that has come to rest shows a list fetched during its current
\* connection, unless a request failed since it connected: the sync message
\* the server sends on every (re)connection makes the tab fetch again, so the
\* list of an earlier connection is never left in place (stream.ts:9-12,
\* App.tsx:48-50).
QuietIsInformed == \A s \in Streams : Quiet(s) => informed[s] # "no"

=============================================================================
