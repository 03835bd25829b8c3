----------------------------- MODULE Broadcast ------------------------------
(***************************************************************************)
(* What the cluster cache and its streams promise, without the mutex, the  *)
(* channels and the connections between them: a published event changes    *)
(* the cache and joins the queue of every connected tab in one step; a     *)
(* queue is read in order, and loses only its newest event.  Once a tab is *)
(* connected the first message it reads is the sync message.               *)
(***************************************************************************)
EXTENDS Integers, Sequences

CONSTANTS Keys, Clusters, Absent, NoKey, Streams

VARIABLES
    cache,  \* the clusters, Absent where there is none
    phase,  \* of each tab: idle, joined, greeted (reading) or cut
    queue,  \* what each tab has still to read, oldest first
    lost    \* the keys whose current state never reached the queue

vars == <<cache, phase, queue, lost>>

States == Clusters \cup {Absent}
Message(kind, k, c) == [kind |-> kind, key |-> k, cluster |-> c]
Sync == Message("sync", NoKey, Absent)
Live == {s \in Streams : phase[s] # "idle"}

Init ==
    /\ cache = [k \in Keys |-> Absent]
    /\ phase = [s \in Streams |-> "idle"]
    /\ queue = [s \in Streams |-> <<>>]
    /\ lost = [s \in Streams |-> Keys]

\* The cache is replaced as a whole; the tabs are not told.
Reset(m) ==
    /\ cache' = m
    /\ lost' = [s \in Streams |-> lost[s] \cup {k \in Keys : m[k] # cache[k]}]
    /\ UNCHANGED <<phase, queue>>

\* One cluster changes; every connected tab is queued the event.
Publish(k, c) ==
    /\ cache' = [cache EXCEPT ![k] = c]
    /\ queue' = [s \in Streams |->
                   IF s \in Live THEN Append(queue[s], Message("cluster", k, c))
                                 ELSE queue[s]]
    /\ lost' = [s \in Streams |-> IF s \in Live THEN lost[s] \ {k} ELSE lost[s]]
    /\ UNCHANGED phase

\* A slow tab loses the newest event of its queue.
Lose(s) ==
    /\ queue[s] # <<>>
    /\ LET n == Len(queue[s]) IN
        /\ queue[s][n].kind = "cluster"
        /\ queue' = [queue EXCEPT ![s] = SubSeq(@, 1, n - 1)]
        /\ lost' = [lost EXCEPT ![s] = @ \cup {queue[s][n].key}]
    /\ UNCHANGED <<cache, phase>>

Join(s) ==
    /\ phase[s] = "idle"
    /\ phase' = [phase EXCEPT ![s] = "joined"]
    /\ UNCHANGED <<cache, queue, lost>>

Greet(s) ==
    /\ phase[s] = "joined"
    /\ phase' = [phase EXCEPT ![s] = "greeted"]
    /\ queue' = [queue EXCEPT ![s] = <<Sync>> \o @]
    /\ UNCHANGED <<cache, lost>>

Deliver(s) ==
    /\ phase[s] = "greeted"
    /\ queue[s] # <<>>
    /\ queue' = [queue EXCEPT ![s] = Tail(@)]
    /\ UNCHANGED <<cache, phase, lost>>

\* The connection goes, and with it what had already been sent.
Cut(s) ==
    /\ phase[s] \in {"joined", "greeted"}
    /\ phase' = [phase EXCEPT ![s] = "cut"]
    /\ \E i \in 0..Len(queue[s]) :
          queue' = [queue EXCEPT ![s] = SubSeq(@, i + 1, Len(@))]
    /\ UNCHANGED <<cache, lost>>

Discard(s) ==
    /\ phase[s] = "cut"
    /\ queue[s] # <<>>
    /\ queue' = [queue EXCEPT ![s] = Tail(@)]
    /\ UNCHANGED <<cache, phase, lost>>

Leave(s) ==
    /\ phase[s] = "cut"
    /\ phase' = [phase EXCEPT ![s] = "idle"]
    /\ queue' = [queue EXCEPT ![s] = <<>>]
    /\ lost' = [lost EXCEPT ![s] = Keys]
    /\ UNCHANGED cache

Next ==
    \/ \E m \in [Keys -> States] : Reset(m)
    \/ \E k \in Keys, c \in States : Publish(k, c)
    \/ \E s \in Streams :
         \/ Lose(s) \/ Join(s) \/ Greet(s) \/ Deliver(s)
         \/ Cut(s) \/ Discard(s) \/ Leave(s)

Spec == Init /\ [][Next]_vars

=============================================================================
