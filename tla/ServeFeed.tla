----------------------------- MODULE ServeFeed ------------------------------
(***************************************************************************)
(* How `kapish serve` keeps its cluster cache up to date                   *)
(* (cmd/kapish/serve.go:117-152, internal/capi/watch.go, list.go) and what *)
(* switching the management cluster does to it                             *)
(* (internal/web/mgmts_api.go:26-69).                                      *)
(*                                                                         *)
(* Two goroutines write the cache: one applies the events of a watch that  *)
(* it reopens whenever it ends, the other replaces the cache by a fresh    *)
(* list on every tick.  Both keep the client made at startup.  A third     *)
(* writer is the handler of PUT /mgmts/current.  The management clusters   *)
(* are external.  Cache operations are atomic here; ClusterCache opens     *)
(* them up.                                                                *)
(***************************************************************************)
EXTENDS Integers, Sequences, FiniteSets

CONSTANTS
    Mgmts,          \* the management clusters of the configuration
    Startup,        \* the one serve connected to when it started
    Keys, Clusters, Absent,
    OutCap,         \* capacity of WatchClusters' channel (16 in the code)
    MaxChanges,     \* bound: changes made to management clusters
    MaxSwitches     \* bound: PUT /mgmts/current requests

ASSUME ServeFeedAssumption ==
    /\ Startup \in Mgmts
    /\ IsFiniteSet(Keys)
    /\ Absent \notin Clusters
    /\ OutCap \in Nat \ {0}
    /\ MaxChanges \in Nat
    /\ MaxSwitches \in Nat

VARIABLES
    world,      \* the clusters each management cluster really has
    changes,    \* how many changes have been made (bound)
    watch,      \* the watch goroutine: down, open, closed, pause
    results,    \* events the API server has for the watch, not yet forwarded
    out,        \* the channel between the forwarder and the apply loop
    listing,    \* the relist goroutine: the list it holds, if any
    client,     \* s.opts.CapiClient, which POST /sessions uses
    put,        \* the PUT /mgmts/current handler
    switches,   \* how many switches have been requested (bound)
    cache,      \* clusterCache.byKey
    doubt       \* history: keys neither source has told the cache the state of

feedVars == <<watch, results, out>>
putVars == <<client, put, switches>>
vars == <<world, changes, feedVars, listing, putVars, cache, doubt>>

-----------------------------------------------------------------------------

States == Clusters \cup {Absent}
Maps == [Keys -> States]
Empty == [k \in Keys |-> Absent]
Event(k, c) == [key |-> k, cluster |-> c]
Events == [key : Keys, cluster : States]

\* A list being fetched: the API server's answer, and (history) the keys whose
\* events have overtaken it.
NoList == [held |-> FALSE, snap |-> Empty, since |-> {}]
List(m, K) == [held |-> TRUE, snap |-> m, since |-> K]

\* The switch handler: which management cluster it is for, how far it is, and
\* the list it has fetched.
NoPut == [phase |-> "idle", mgmt |-> Startup, snap |-> Empty]

InFlight == out \o results
About(k) == {i \in 1..Len(InFlight) : InFlight[i].key = k}

TypeOK ==
    /\ world \in [Mgmts -> Maps]
    /\ changes \in 0..MaxChanges
    /\ watch \in {"down", "open", "closed", "pause"}
    /\ results \in Seq(Events)
    /\ out \in Seq(Events) /\ Len(out) <= OutCap
    /\ listing \in [held : BOOLEAN, snap : Maps, since : SUBSET Keys]
    /\ client \in Mgmts
    /\ put \in [phase : {"idle", "listed", "connected"}, mgmt : Mgmts, snap : Maps]
    /\ switches \in 0..MaxSwitches
    /\ cache \in Maps
    /\ doubt \in SUBSET Keys
    /\ watch # "open" => results = <<>>
    /\ watch \in {"down", "pause"} => out = <<>>

\* The cache is seeded by one list, or left empty when that list fails.
Init ==
    /\ world \in [Mgmts -> Maps]
    /\ changes = 0
    /\ watch = "down"
    /\ results = <<>>
    /\ out = <<>>
    /\ listing = NoList
    /\ client = Startup
    /\ put = NoPut
    /\ switches = 0
    /\ cache \in {world[Startup], Empty}
    /\ doubt = {k \in Keys : cache[k] # world[Startup][k]}

-----------------------------------------------------------------------------
(* The management clusters                                                 *)

\* A cluster is created, changes or is deleted.  The API server queues the
\* event for a watch that is open.
Change(m, k, c) ==
    /\ changes < MaxChanges
    /\ world[m][k] # c
    /\ world' = [world EXCEPT ![m][k] = c]
    /\ changes' = changes + 1
    /\ IF m # Startup THEN UNCHANGED <<results, doubt, listing>>
       ELSE IF watch = "open"
       THEN /\ results' = Append(results, Event(k, c))
            /\ doubt' = doubt \ {k}
            /\ listing' = [listing EXCEPT !.since = @ \ {k}]
       ELSE /\ doubt' = doubt \cup {k}
            /\ listing' = IF listing.held
                          THEN [listing EXCEPT !.since = @ \cup {k}] ELSE listing
            /\ UNCHANGED results
    /\ UNCHANGED <<watch, out, putVars, cache>>

-----------------------------------------------------------------------------
(* The watch goroutine                                                     *)

Existing(m) == {k \in Keys : world[m][k] # Absent}

\* The orders in which the API server may report the clusters it has.
Reports(m) ==
    {q \in [1..Cardinality(Existing(m)) -> Existing(m)] :
        \A i, j \in DOMAIN q : q[i] = q[j] => i = j}

\* WatchClusters succeeds: a watch without a resource version begins with an
\* added event for every cluster there is, and says nothing of deleted ones.
WatchOpens ==
    /\ watch = "down"
    /\ watch' = "open"
    /\ \E q \in Reports(Startup) :
         results' = [i \in 1..Len(q) |-> Event(q[i], world[Startup][q[i]])]
    /\ doubt' = doubt \ Existing(Startup)
    /\ listing' = [listing EXCEPT !.since = @ \ Existing(Startup)]
    /\ UNCHANGED <<world, changes, out, putVars, cache>>

\* WatchClusters returns an error: sleep a second and try again.
WatchFails ==
    /\ watch = "down"
    /\ watch' = "pause"
    /\ UNCHANGED <<world, changes, results, out, listing, putVars, cache, doubt>>

\* Faulty variant: an event is dropped when the channel is full.
ForwardOrDrop ==
    /\ watch = "open"
    /\ results # <<>>
    /\ out' = IF Len(out) < OutCap THEN Append(out, Head(results)) ELSE out
    /\ results' = Tail(results)
    /\ UNCHANGED <<world, changes, watch, listing, putVars, cache, doubt>>

\* The forwarder of watch.go moves an event into the buffered channel.
Forward ==
    /\ watch = "open"
    /\ results # <<>>
    /\ Len(out) < OutCap
    /\ out' = Append(out, Head(results))
    /\ results' = Tail(results)
    /\ UNCHANGED <<world, changes, watch, listing, putVars, cache, doubt>>

\* The watch ends (the API server closes watches all the time): what had not
\* arrived is lost, and the forwarder closes its channel.
WatchCloses ==
    /\ watch = "open"
    /\ watch' = "closed"
    /\ results' = <<>>
    /\ LET lost == {results[i].key : i \in 1..Len(results)} IN
        /\ doubt' = doubt \cup lost
        /\ listing' = IF listing.held
                      THEN [listing EXCEPT !.since = @ \cup lost] ELSE listing
    /\ UNCHANGED <<world, changes, out, putVars, cache>>

\* Faulty variant: deleted events are not applied.
ApplyIgnoresDeleted ==
    /\ out # <<>>
    /\ cache' = IF Head(out).cluster = Absent THEN cache
                ELSE [cache EXCEPT ![Head(out).key] = Head(out).cluster]
    /\ out' = Tail(out)
    /\ listing' = IF listing.held
                  THEN [listing EXCEPT !.since = @ \cup {Head(out).key}] ELSE listing
    /\ UNCHANGED <<world, changes, watch, results, putVars, doubt>>

\* The loop over the channel applies an event to the cache.
Apply ==
    /\ out # <<>>
    /\ cache' = [cache EXCEPT ![Head(out).key] = Head(out).cluster]
    /\ out' = Tail(out)
    /\ listing' = IF listing.held
                  THEN [listing EXCEPT !.since = @ \cup {Head(out).key}] ELSE listing
    /\ UNCHANGED <<world, changes, watch, results, putVars, doubt>>

\* Faulty variant: the loop gives up before the channel is drained.
WatchEndsEarly ==
    /\ watch = "closed"
    /\ watch' = "pause"
    /\ UNCHANGED <<world, changes, results, out, listing, putVars, cache, doubt>>

\* The channel is closed and drained: sleep a second.
WatchEnds ==
    /\ watch = "closed"
    /\ out = <<>>
    /\ watch' = "pause"
    /\ UNCHANGED <<world, changes, results, out, listing, putVars, cache, doubt>>

\* The second is over: reconnect.
Reconnect ==
    /\ watch = "pause"
    /\ watch' = "down"
    /\ UNCHANGED <<world, changes, results, out, listing, putVars, cache, doubt>>

-----------------------------------------------------------------------------
(* The relist goroutine                                                    *)

\* A tick: ListClusters, and the API server takes its snapshot.  (A list that
\* fails changes nothing and the goroutine waits for the next tick.)
ListTaken ==
    /\ ~listing.held
    /\ listing' = List(world[Startup], {k \in doubt : About(k) # {}})
    /\ UNCHANGED <<world, changes, feedVars, putVars, cache, doubt>>

\* Faulty variant: the list is merged into the cache instead of replacing it.
ListMerged ==
    /\ listing.held
    /\ cache' = [k \in Keys |-> IF listing.snap[k] = Absent THEN cache[k]
                                                          ELSE listing.snap[k]]
    /\ doubt' = listing.since
    /\ listing' = NoList
    /\ UNCHANGED <<world, changes, feedVars, putVars>>

\* The answer has arrived: ReplaceAll.
ListApplied ==
    /\ listing.held
    /\ cache' = listing.snap
    /\ doubt' = listing.since
    /\ listing' = NoList
    /\ UNCHANGED <<world, changes, feedVars, putVars>>

-----------------------------------------------------------------------------
(* PUT /api/v1/mgmts/current                                               *)

\* The handler has found the entry, built a client for it and listed its
\* clusters.  A client or list that fails answers 502 and changes nothing.
PutLists(m) ==
    /\ put.phase = "idle"
    /\ switches < MaxSwitches
    /\ switches' = switches + 1
    /\ put' = [phase |-> "listed", mgmt |-> m, snap |-> world[m]]
    /\ UNCHANGED <<world, changes, feedVars, listing, client, cache, doubt>>

\* s.opts.CapiClient = c and s.opts.MgmtContext = c.Context().
PutSetsClient ==
    /\ put.phase = "listed"
    /\ client' = put.mgmt
    /\ put' = [put EXCEPT !.phase = "connected"]
    /\ UNCHANGED <<world, changes, feedVars, listing, switches, cache, doubt>>

\* s.cache.replaceAll(cs).
PutReplaces ==
    /\ put.phase = "connected"
    /\ cache' = put.snap
    /\ doubt' = doubt \cup {k \in Keys : put.snap[k] # cache[k]}
    /\ put' = NoPut
    /\ UNCHANGED <<world, changes, feedVars, listing, client, switches>>

-----------------------------------------------------------------------------

Feed == WatchOpens \/ WatchFails \/ Forward \/ WatchCloses \/ Apply
            \/ WatchEnds \/ Reconnect
Relist == ListTaken \/ ListApplied
Switch == (\E m \in Mgmts : PutLists(m)) \/ PutSetsClient \/ PutReplaces

Next ==
    \/ \E m \in Mgmts, k \in Keys, c \in States : Change(m, k, c)
    \/ Feed \/ Relist \/ Switch

Spec == Init /\ [][Next]_vars

\* The two goroutines and the handler keep running.  A tick's list succeeds
\* from time to time; nothing is assumed of the watch beyond its own code: it
\* may fail or close whenever it wants.
Fairness ==
    /\ WF_vars(Forward) /\ WF_vars(Apply) /\ WF_vars(WatchEnds)
    /\ WF_vars(ListTaken) /\ WF_vars(ListApplied)
    /\ WF_vars(PutSetsClient) /\ WF_vars(PutReplaces)

FairSpec == Spec /\ Fairness

-----------------------------------------------------------------------------
(* Properties                                                              *)

\* What the cache will have under k once the events in flight are applied to m.
Settled(m, k) ==
    IF About(k) = {} THEN m[k]
    ELSE InFlight[CHOOSE i \in About(k) : \A j \in About(k) : j <= i].cluster

\* The cache catches up with the management cluster it was started on: but for
\* the keys in doubt (an event lost with its watch, a list older than an event
\* already applied), applying what is in flight makes it exact.  In particular
\* reopening the watch leaves no cluster in doubt except deleted ones
\* (serve.go:121-152 interleaved with watch.go:47-67).
CacheCatchesUp ==
    \A k \in Keys \ doubt : Settled(cache, k) = world[Startup][k]

\* The same of the list the relist goroutine holds: replacing the cache by it
\* is wrong only for the keys whose events have overtaken it.
ListCatchesUp ==
    listing.held =>
        \A k \in Keys \ listing.since : Settled(listing.snap, k) = world[Startup][k]

\* Once the clusters stop changing, the cache becomes and stays what the
\* startup management cluster has, however often the watch is lost: the relist
\* repairs what the watch misses, ghosts of deleted clusters included.
ConvergesToStartup == <>[](cache = world[Startup])

\* "Immediately - rebuilds K8s client + watch" (2026-05-09-kapish-design.md:152):
\* after the last switch, the list shown is that of the management cluster
\* sessions are opened on.
ConvergesToCurrent == <>[](cache = world[client])

=============================================================================
