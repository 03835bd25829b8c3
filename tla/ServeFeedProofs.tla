--------------------------- MODULE ServeFeedProofs ---------------------------
(***************************************************************************)
(* The cache of `kapish serve` catches up with the management cluster it   *)
(* was started on, for any clusters, any number of changes and switches    *)
(* and any capacity of the watch's channel.                                *)
(*                                                                         *)
(* Of each key the argument asks where its state will come from: the last  *)
(* event in flight about it or, when there is none, the map the events are *)
(* applied to.  That map is the cache or the list the relist goroutine     *)
(* holds; the same lemmas about queues serve both.                         *)
(***************************************************************************)
EXTENDS ServeFeed, SequenceTheorems, FiniteSetTheorems, TLAPS

\* Queue q says nothing of k.
Silent(q, k) == \A i \in 1..Len(q) : q[i].key # k

\* The i-th event of q is the last one about k.
LastAbout(q, k, i) ==
    /\ i \in 1..Len(q)
    /\ q[i].key = k
    /\ \A j \in 1..Len(q) : j > i => q[j].key # k

\* Queue q leaves k in state v.
Leaves(q, k, v) == \E i \in 1..Len(q) : LastAbout(q, k, i) /\ q[i].cluster = v

\* Once q is applied to m, every key is as in w, K apart.
Sound(q, m, w, K) ==
    \A k \in Keys \ K : Leaves(q, k, w[k]) \/ (Silent(q, k) /\ m[k] = w[k])

IInv ==
    /\ TypeOK
    /\ Sound(InFlight, cache, world[Startup], doubt)
    /\ listing.held => Sound(InFlight, listing.snap, world[Startup], listing.since)

-----------------------------------------------------------------------------
(* Queues                                                                  *)

\* A queue that is sound settles every key it can be counted on for.
LEMMA SoundSettles ==
    ASSUME NEW m, NEW w, NEW K, Sound(InFlight, m, w, K), NEW k \in Keys \ K
    PROVE  Settled(m, k) = w[k]
<1> DEFINE q == InFlight
<1>1. CASE Silent(q, k) /\ m[k] = w[k]
  <2>1. About(k) = {}
    BY <1>1 DEF Silent, About
  <2> QED BY <1>1, <2>1 DEF Settled
<1>2. CASE Leaves(q, k, w[k])
  <2>1. PICK i \in 1..Len(q) : LastAbout(q, k, i) /\ q[i].cluster = w[k]
    BY <1>2 DEF Leaves
  <2>2. i \in About(k) /\ \A j \in About(k) : j <= i
    BY <2>1 DEF About, LastAbout
  <2>3. \A n \in About(k) : (\A j \in About(k) : j <= n) => n = i
    BY <2>2 DEF About
  <2>4. (CHOOSE n \in About(k) : \A j \in About(k) : j <= n) = i
    BY <2>2, <2>3
  <2>5. About(k) # {}
    BY <2>2
  <2> QED BY <2>1, <2>4, <2>5 DEF Settled
<1> QED BY <1>1, <1>2 DEF Sound

\* Fewer promises are easier to keep.
LEMMA SoundMore ==
    ASSUME NEW q, NEW m, NEW w, NEW K, NEW L, K \subseteq L, Sound(q, m, w, K)
    PROVE  Sound(q, m, w, L)
BY DEF Sound

\* A change that is queued keeps the queue sound, and makes it so for its key.
LEMMA SoundAppend ==
    ASSUME NEW q \in Seq(Events), NEW m, NEW w \in Maps, NEW K,
           NEW k \in Keys, NEW c \in States, Sound(q, m, w, K)
    PROVE  Sound(Append(q, Event(k, c)), m, [w EXCEPT ![k] = c], K \ {k})
<1> DEFINE e == Event(k, c)
           p == Append(q, e)
           x == [w EXCEPT ![k] = c]
<1>1. e \in Events /\ e.key = k /\ e.cluster = c
  BY DEF Events, Event
<1>2. Len(q) \in Nat
  BY LenProperties
<1>3. /\ Len(p) = Len(q) + 1
      /\ \A i \in 1..Len(q) : p[i] = q[i]
      /\ p[Len(q) + 1] = e
  BY <1>1, AppendProperties
<1> HIDE DEF p, e
<1>4. Leaves(p, k, x[k])
  <2>1. LastAbout(p, k, Len(q) + 1) /\ p[Len(q) + 1].cluster = c
    BY <1>1, <1>2, <1>3 DEF LastAbout
  <2>2. x[k] = c
    BY DEF Maps
  <2> QED BY <2>1, <2>2, <1>2, <1>3 DEF Leaves
<1>5. ASSUME NEW j \in Keys \ K, j # k
      PROVE  Leaves(p, j, x[j]) \/ (Silent(p, j) /\ m[j] = x[j])
  <2>1. x[j] = w[j]
    BY <1>5 DEF Maps
  <2>2. CASE Silent(q, j) /\ m[j] = w[j]
    BY <2>1, <2>2, <1>1, <1>2, <1>3, <1>5 DEF Silent
  <2>3. CASE Leaves(q, j, w[j])
    <3>1. PICK i \in 1..Len(q) : LastAbout(q, j, i) /\ q[i].cluster = w[j]
      BY <2>3 DEF Leaves
    <3>2. LastAbout(p, j, i) /\ p[i].cluster = w[j] /\ i \in 1..Len(p)
      BY <3>1, <1>1, <1>2, <1>3, <1>5 DEF LastAbout
    <3> QED BY <2>1, <3>2 DEF Leaves
  <2> QED BY <2>2, <2>3 DEF Sound
<1>6. Sound(p, m, x, K \ {k})
  BY <1>4, <1>5 DEF Sound
<1> QED BY <1>6 DEF p, e

\* Where the events of a queue go when its oldest is taken.
LEMMA TakenHead ==
    ASSUME NEW q \in Seq(Events), q # <<>>, NEW k
    PROVE  /\ \A v : Leaves(q, k, v) =>
                \/ Leaves(Tail(q), k, v)
                \/ Silent(Tail(q), k) /\ Head(q).key = k /\ Head(q).cluster = v
           /\ Silent(q, k) => Silent(Tail(q), k) /\ Head(q).key # k
<1> DEFINE t == Tail(q)
<1>1. /\ Len(t) = Len(q) - 1
      /\ \A i \in 1..Len(t) : t[i] = q[i + 1]
  BY HeadTailProperties
<1>2. Len(q) \in Nat \ {0} /\ Head(q) = q[1]
  BY EmptySeq, LenProperties
<1> HIDE DEF t
<1>3. ASSUME NEW v, Leaves(q, k, v)
      PROVE  \/ Leaves(t, k, v)
             \/ Silent(t, k) /\ Head(q).key = k /\ Head(q).cluster = v
  <2>1. PICK i \in 1..Len(q) : LastAbout(q, k, i) /\ q[i].cluster = v
    BY <1>3 DEF Leaves
  <2>2. CASE i = 1
    BY <2>1, <2>2, <1>1, <1>2 DEF LastAbout, Silent
  <2>3. CASE i # 1
    <3>1. i - 1 \in 1..Len(t) /\ t[i - 1] = q[i]
      BY <2>3, <1>1, <1>2
    <3>2. ASSUME NEW j \in 1..Len(t), j > i - 1 PROVE t[j].key # k
      <4>1. j + 1 \in 1..Len(q) /\ j + 1 > i
        BY <3>2, <1>1, <1>2
      <4> QED BY <4>1, <2>1, <1>1 DEF LastAbout
    <3>3. LastAbout(t, k, i - 1) /\ t[i - 1].cluster = v
      BY <2>1, <3>1, <3>2 DEF LastAbout
    <3> QED BY <3>1, <3>3 DEF Leaves
  <2> QED BY <2>2, <2>3
<1>4. Silent(q, k) => Silent(t, k) /\ Head(q).key # k
  BY <1>1, <1>2 DEF Silent
<1> QED BY <1>3, <1>4 DEF t

\* Applying the oldest event to the map the queue is for keeps it sound.
LEMMA SoundApply ==
    ASSUME NEW q \in Seq(Events), q # <<>>, NEW m \in Maps, NEW w, NEW K,
           Sound(q, m, w, K)
    PROVE  Sound(Tail(q), [m EXCEPT ![Head(q).key] = Head(q).cluster], w, K)
<1> DEFINE n == [m EXCEPT ![Head(q).key] = Head(q).cluster]
<1> SUFFICES ASSUME NEW k \in Keys \ K
             PROVE  Leaves(Tail(q), k, w[k]) \/ (Silent(Tail(q), k) /\ n[k] = w[k])
  BY DEF Sound
<1>1. Head(q).key = k => n[k] = Head(q).cluster
  BY DEF Maps
<1>2. Head(q).key # k => n[k] = m[k]
  BY DEF Maps
<1> HIDE DEF n
<1>3. CASE Leaves(q, k, w[k])
  BY <1>1, <1>3, TakenHead
<1>4. CASE Silent(q, k) /\ m[k] = w[k]
  BY <1>2, <1>4, TakenHead
<1> QED BY <1>3, <1>4 DEF Sound

\* Applying it to another map leaves its key in doubt.
LEMMA SoundPass ==
    ASSUME NEW q \in Seq(Events), q # <<>>, NEW m, NEW w, NEW K, Sound(q, m, w, K)
    PROVE  Sound(Tail(q), m, w, K \cup {Head(q).key})
<1> SUFFICES ASSUME NEW k \in Keys \ K, k # Head(q).key
             PROVE  Leaves(Tail(q), k, w[k]) \/ (Silent(Tail(q), k) /\ m[k] = w[k])
  BY DEF Sound
<1>1. CASE Leaves(q, k, w[k])
  BY <1>1, TakenHead
<1>2. CASE Silent(q, k) /\ m[k] = w[k]
  BY <1>2, TakenHead
<1> QED BY <1>1, <1>2 DEF Sound

\* Losing the newest events leaves their keys in doubt, and no others.
LEMMA SoundCut ==
    ASSUME NEW o \in Seq(Events), NEW r \in Seq(Events), NEW m, NEW w, NEW K,
           Sound(o \o r, m, w, K)
    PROVE  Sound(o, m, w, K \cup {r[i].key : i \in 1..Len(r)})
<1> DEFINE q == o \o r
<1>1. Len(o) \in Nat /\ Len(r) \in Nat
  BY LenProperties
<1>2. /\ Len(q) = Len(o) + Len(r)
      /\ \A i \in 1..(Len(o) + Len(r)) :
            q[i] = IF i <= Len(o) THEN o[i] ELSE r[i - Len(o)]
  BY ConcatProperties
<1>3. Sound(q, m, w, K)
  OBVIOUS
<1> HIDE DEF q
<1>4. \A i \in 1..Len(o) : i \in 1..Len(q) /\ q[i] = o[i]
  BY <1>1, <1>2
<1> SUFFICES ASSUME NEW k \in Keys \ K, \A i \in 1..Len(r) : r[i].key # k
             PROVE  Leaves(o, k, w[k]) \/ (Silent(o, k) /\ m[k] = w[k])
  BY DEF Sound
<1>5. CASE Silent(q, k) /\ m[k] = w[k]
  BY <1>4, <1>5 DEF Silent
<1>6. CASE Leaves(q, k, w[k])
  <2>1. PICK i \in 1..Len(q) : LastAbout(q, k, i) /\ q[i].cluster = w[k]
    BY <1>6 DEF Leaves
  <2>2. i <= Len(o)
    <3> SUFFICES ASSUME ~(i <= Len(o)) PROVE FALSE
      OBVIOUS
    <3>1. i - Len(o) \in 1..Len(r) /\ q[i] = r[i - Len(o)]
      BY <1>1, <1>2
    <3> QED BY <3>1, <2>1 DEF LastAbout
  <2>3. LastAbout(o, k, i) /\ o[i].cluster = w[k] /\ i \in 1..Len(o)
    BY <2>1, <2>2, <1>1, <1>4 DEF LastAbout
  <2> QED BY <2>3 DEF Leaves
<1> QED BY <1>3, <1>5, <1>6 DEF Sound

-----------------------------------------------------------------------------
(* The reports of a watch that opens                                       *)

\* A report names every cluster there is exactly once.
LEMMA ReportsAll ==
    ASSUME NEW m, NEW q \in Reports(m)
    PROVE  /\ Cardinality(Existing(m)) \in Nat
           /\ q \in [1..Cardinality(Existing(m)) -> Existing(m)]
           /\ \A i, j \in 1..Cardinality(Existing(m)) : q[i] = q[j] => i = j
           /\ \A k \in Existing(m) : \E i \in 1..Cardinality(Existing(m)) : q[i] = k
<1> DEFINE E == Existing(m)
           n == Cardinality(E)
<1>1. IsFiniteSet(E) /\ n \in Nat
  BY ServeFeedAssumption, FS_Subset, FS_CardinalityType DEF Existing
<1>2. q \in [1..n -> E] /\ \A i, j \in 1..n : q[i] = q[j] => i = j
  BY DEF Reports
<1>3. IsFiniteSet(1..n) /\ Cardinality(1..n) = n
  <2>1. IsFiniteSet(1..n) /\ Cardinality(1..n) = IF 1 > n THEN 0 ELSE n - 1 + 1
    BY <1>1, FS_Interval
  <2> QED BY <2>1, <1>1
<1> HIDE DEF E, n
<1>4. q \in Injection(1..n, E)
  BY <1>2 DEF Injection, IsInjective
<1>5. q \in Surjection(1..n, E)
  <2>1. n = Cardinality(E)
    BY DEF n
  <2> QED BY <1>1, <1>3, <1>4, <2>1, FS_Injection
<1>6. \A k \in E : \E i \in 1..n : q[i] = k
  BY <1>5 DEF Surjection
<1> QED BY <1>1, <1>2, <1>6 DEF E, n

\* The events a watch begins with, in the order q.
Opening(q, w) == [i \in 1..Len(q) |-> Event(q[i], w[q[i]])]

\* They bring every cluster there is up to date, and say nothing of the others.
LEMMA SoundOpening ==
    ASSUME TypeOK, NEW q \in Reports(Startup)
    PROVE  /\ Opening(q, world[Startup]) \in Seq(Events)
           /\ \A m, K : Sound(<<>>, m, world[Startup], K) =>
                 Sound(Opening(q, world[Startup]), m, world[Startup],
                       K \ Existing(Startup))
<1> DEFINE w == world[Startup]
           E == Existing(Startup)
           n == Cardinality(E)
           p == Opening(q, w)
<1>1. /\ n \in Nat /\ q \in [1..n -> E]
      /\ \A i, j \in 1..n : q[i] = q[j] => i = j
      /\ \A k \in E : \E i \in 1..n : q[i] = k
  BY ReportsAll
<1>2. w \in Maps /\ E \subseteq Keys
  BY ServeFeedAssumption DEF TypeOK, Existing
<1>3. Len(q) = n
  BY <1>1
<1>4. /\ p = [i \in 1..n |-> Event(q[i], w[q[i]])]
      /\ \A i \in 1..n : p[i] \in Events /\ p[i].key = q[i] /\ p[i].cluster = w[q[i]]
  <2>1. \A i \in 1..n : q[i] \in Keys /\ w[q[i]] \in States
    BY <1>1, <1>2 DEF Maps
  <2>2. p = [i \in 1..n |-> Event(q[i], w[q[i]])]
    BY <1>3 DEF Opening
  <2>3. \A i \in 1..n : p[i] = Event(q[i], w[q[i]])
    BY <2>2
  <2> HIDE DEF p
  <2> QED BY <2>1, <2>2, <2>3 DEF Event, Events
<1>5. p \in Seq(Events) /\ Len(p) = n
  <2>1. p \in [1..n -> Events]
    BY <1>4
  <2> HIDE DEF p
  <2> QED BY <2>1, <1>1
<1> HIDE DEF p, w, n, E
<1>6. ASSUME NEW k \in E PROVE Leaves(p, k, w[k])
  <2>1. PICK i \in 1..n : q[i] = k
    BY <1>1, <1>6
  <2>2. LastAbout(p, k, i) /\ p[i].cluster = w[k]
    BY <2>1, <1>1, <1>4, <1>5 DEF LastAbout
  <2> QED BY <2>2, <1>5 DEF Leaves
<1>7. ASSUME NEW k \in Keys, k \notin E PROVE Silent(p, k)
  BY <1>1, <1>4, <1>5, <1>7 DEF Silent
<1>8. ASSUME NEW m, NEW K, Sound(<<>>, m, w, K) PROVE Sound(p, m, w, K \ E)
  <2> SUFFICES ASSUME NEW k \in Keys, k \notin K \ E, k \notin E
               PROVE  Silent(p, k) /\ m[k] = w[k]
    BY <1>6 DEF Sound
  <2>1. ~Leaves(<<>>, k, w[k])
    BY DEF Leaves
  <2> QED BY <2>1, <1>7, <1>8 DEF Sound
<1> QED BY <1>5, <1>8 DEF p, w, E

-----------------------------------------------------------------------------
(* The invariant                                                           *)

\* The parts of what is in flight are queues.
LEMMA FlightTyped ==
    TypeOK => /\ out \in Seq(Events) /\ results \in Seq(Events)
              /\ InFlight \in Seq(Events)
              /\ world[Startup] \in Maps
              /\ watch # "open" => InFlight = out
BY ServeFeedAssumption, ConcatProperties, ConcatEmptySeq DEF TypeOK, InFlight

LEMMA InitEstablishes == Init => IInv
<1> SUFFICES ASSUME Init PROVE IInv
  OBVIOUS
<1> USE ServeFeedAssumption
<1>1. Empty \in Maps /\ world[Startup] \in Maps /\ cache \in Maps
  BY DEF Init, Empty, Maps, States
<1>2. TypeOK
  BY <1>1 DEF Init, TypeOK, NoList, NoPut
<1>3. InFlight = <<>>
  <2>1. <<>> \o <<>> = <<>>
    BY EmptySeq, ConcatEmptySeq
  <2> QED BY <2>1 DEF Init, InFlight
<1>4. Sound(InFlight, cache, world[Startup], doubt)
  BY <1>3 DEF Init, Sound, Silent
<1>5. ~listing.held
  BY DEF Init, NoList
<1> QED BY <1>2, <1>4, <1>5 DEF IInv

\* What joins the second queue joins the two.
LEMMA AppendToSecond ==
    ASSUME NEW o \in Seq(Events), NEW r \in Seq(Events), NEW e \in Events
    PROVE  o \o Append(r, e) = Append(o \o r, e)
<1>1. /\ <<e>> \in Seq(Events) /\ o \o r \in Seq(Events)
      /\ Append(r, e) = r \o <<e>>
      /\ Append(o \o r, e) = (o \o r) \o <<e>>
  BY AppendIsConcat, ConcatProperties
<1> DEFINE u == <<e>>
<1>2. u \in Seq(Events)
  BY <1>1
<1> HIDE DEF u
<1>3. (o \o r) \o u = o \o (r \o u)
  BY <1>2, ConcatAssociative
<1> QED BY <1>1, <1>3 DEF u

Listings == [held : BOOLEAN, snap : Maps, since : SUBSET Keys]

\* Overtaking changes nothing of a list but the keys it is overtaken on.
LEMMA Overtaken ==
    ASSUME NEW l \in Listings, NEW K \in SUBSET Keys
    PROVE  /\ [l EXCEPT !.since = K] \in Listings
           /\ [l EXCEPT !.since = K].held = l.held
           /\ [l EXCEPT !.since = K].snap = l.snap
           /\ [l EXCEPT !.since = K].since = K
BY DEF Listings

\* What the steps below start from.
LEMMA InvFacts ==
    ASSUME IInv
    PROVE  /\ TypeOK /\ listing \in Listings /\ listing.since \in SUBSET Keys
           /\ doubt \in SUBSET Keys
           /\ listing.snap \in Maps /\ cache \in Maps /\ world[Startup] \in Maps
           /\ out \in Seq(Events) /\ results \in Seq(Events) /\ InFlight \in Seq(Events)
           /\ watch # "open" => InFlight = out
           /\ Sound(InFlight, cache, world[Startup], doubt)
           /\ listing.held => Sound(InFlight, listing.snap, world[Startup], listing.since)
<1>1. TypeOK
  BY DEF IInv
<1>2. listing \in Listings /\ doubt \in SUBSET Keys /\ cache \in Maps
  BY <1>1 DEF TypeOK, Listings
<1>3. listing.snap \in Maps /\ listing.since \in SUBSET Keys
  BY <1>2 DEF Listings
<1> QED BY <1>1, <1>2, <1>3, FlightTyped DEF IInv

\* Steps that leave the queues, the maps and their history alone.
LEMMA UntouchedKeeps ==
    ASSUME IInv, TypeOK', out' = out, results' = results, world' = world,
           cache' = cache, doubt' = doubt, listing' = listing
    PROVE  IInv'
BY DEF IInv, InFlight

\* A change of a management cluster.
LEMMA ChangeKeeps ==
    ASSUME IInv, NEW m \in Mgmts, NEW k \in Keys, NEW c \in States, Change(m, k, c)
    PROVE  IInv'
<1> USE ServeFeedAssumption
<1>1. /\ TypeOK /\ listing \in Listings /\ listing.since \in SUBSET Keys
      /\ doubt \in SUBSET Keys /\ cache \in Maps /\ world[Startup] \in Maps
      /\ out \in Seq(Events) /\ results \in Seq(Events) /\ InFlight \in Seq(Events)
      /\ Sound(InFlight, cache, world[Startup], doubt)
      /\ listing.held => Sound(InFlight, listing.snap, world[Startup], listing.since)
  BY InvFacts
<1> DEFINE w == world[Startup]
           x == [w EXCEPT ![k] = c]
<1>2. /\ changes < MaxChanges /\ changes' = changes + 1
      /\ world' = [world EXCEPT ![m][k] = c]
      /\ UNCHANGED <<watch, out, putVars, cache>>
  BY DEF Change
<1>3. /\ world' \in [Mgmts -> Maps] /\ changes' \in 0..MaxChanges
      /\ m = Startup => world'[Startup] = x
      /\ m # Startup => world'[Startup] = w
  <2>1. world \in [Mgmts -> Maps] /\ world[m] \in Maps /\ changes \in 0..MaxChanges
    BY <1>1 DEF TypeOK
  <2>2. [world[m] EXCEPT ![k] = c] \in Maps
    BY <2>1 DEF Maps
  <2> DEFINE y == [world[m] EXCEPT ![k] = c]
  <2>3. world' = [world EXCEPT ![m] = y]
    BY <1>2
  <2>4. m = Startup => y = x
    OBVIOUS
  <2> HIDE DEF x, y
  <2>5. world' \in [Mgmts -> Maps]
    BY <2>1, <2>2, <2>3 DEF y
  <2>6. world'[m] = y /\ (m # Startup => world'[Startup] = w)
    BY <2>1, <2>3
  <2>7. changes' \in 0..MaxChanges
    BY <2>1, <1>2
  <2> QED BY <2>4, <2>5, <2>6, <2>7
<1>w. /\ w \in Maps /\ w = world[Startup]
      /\ Sound(InFlight, cache, w, doubt)
      /\ listing.held => Sound(InFlight, listing.snap, w, listing.since)
      /\ \A j \in Keys : j # k => x[j] = w[j]
  BY <1>1 DEF Maps
<1> HIDE DEF w, x
<1>4. CASE m # Startup
  <2>1. UNCHANGED <<results, doubt, listing>>
    BY <1>4 DEF Change
  <2>2. TypeOK'
    BY <2>1, <1>1, <1>2, <1>3 DEF TypeOK, putVars
  <2>3. InFlight' = InFlight
    BY <2>1, <1>2 DEF InFlight
  <2> QED BY <2>1, <2>2, <2>3, <1>w, <1>2, <1>3, <1>4 DEF IInv
<1>5. CASE m = Startup /\ watch = "open"
  <2> DEFINE e == Event(k, c)
             K == listing.since \ {k}
  <2>1. results' = Append(results, e) /\ doubt' = doubt \ {k}
        /\ listing' = [listing EXCEPT !.since = K]
    BY <1>5 DEF Change
  <2>2. e \in Events
    BY DEF Event, Events
  <2>3. K \in SUBSET Keys
    BY <1>1
  <2>4. results' \in Seq(Events)
    BY <2>1, <2>2, <1>1, AppendProperties
  <2> HIDE DEF K, e
  <2>5. /\ listing' \in Listings /\ listing'.held = listing.held
        /\ listing'.snap = listing.snap /\ listing'.since = K
    BY <2>1, <2>3, <1>1, Overtaken
  <2>6. TypeOK'
    BY <2>1, <2>4, <2>5, <1>1, <1>2, <1>3, <1>5 DEF TypeOK, putVars, Listings
  <2>7. InFlight' = Append(InFlight, e)
    <3>1. InFlight' = out \o Append(results, e)
      BY <2>1, <1>2 DEF InFlight
    <3> QED BY <3>1, <2>2, <1>1, AppendToSecond DEF InFlight
  <2>8. \A s, L : Sound(InFlight, s, w, L) => Sound(Append(InFlight, e), s, x, L \ {k})
    BY <1>1, <1>w, SoundAppend DEF e, x
  <2>9. world'[Startup] = x
    BY <1>3, <1>5
  <2>10. Sound(InFlight', cache', world'[Startup], doubt')
    BY <2>1, <2>7, <2>8, <2>9, <1>w, <1>2
  <2>11. listing.held => Sound(InFlight', listing'.snap, world'[Startup], listing'.since)
    BY <2>5, <2>7, <2>8, <2>9, <1>w DEF K
  <2> QED BY <2>5, <2>6, <2>10, <2>11 DEF IInv
<1>6. CASE m = Startup /\ watch # "open"
  <2> DEFINE K == IF listing.held THEN listing.since \cup {k} ELSE listing.since
  <2>1. doubt' = doubt \cup {k} /\ results' = results
        /\ listing' = IF listing.held
                      THEN [listing EXCEPT !.since = listing.since \cup {k}] ELSE listing
    BY <1>6 DEF Change
  <2>2. /\ listing' \in Listings /\ listing'.held = listing.held
        /\ listing'.snap = listing.snap
        /\ listing.held => listing'.since = listing.since \cup {k}
    <3>1. listing.since \cup {k} \in SUBSET Keys
      BY <1>1
    <3> QED BY <2>1, <3>1, <1>1, Overtaken
  <2>3. TypeOK'
    BY <2>1, <2>2, <1>1, <1>2, <1>3, <1>6 DEF TypeOK, putVars, Listings
  <2>4. InFlight' = InFlight /\ world'[Startup] = x
    BY <2>1, <1>2, <1>3, <1>6 DEF InFlight
  <2>5. \A s, L : Sound(InFlight, s, w, L) => Sound(InFlight, s, x, L \cup {k})
    BY <1>w DEF Sound
  <2>6. Sound(InFlight', cache', world'[Startup], doubt')
    BY <2>1, <2>4, <2>5, <1>w, <1>2
  <2>7. listing.held => Sound(InFlight', listing'.snap, world'[Startup], listing'.since)
    BY <2>2, <2>4, <2>5, <1>w
  <2> QED BY <2>2, <2>3, <2>6, <2>7 DEF IInv
<1> QED BY <1>4, <1>5, <1>6

\* A non-empty queue is its oldest event followed by the others.
LEMMA HeadThenTail ==
    ASSUME NEW q \in Seq(Events), q # <<>>
    PROVE  <<Head(q)>> \o Tail(q) = q
<1>1. Len(q) \in Nat \ {0} /\ Head(q) = q[1] /\ Head(q) \in Events
  BY EmptySeq, LenProperties, HeadTailProperties
<1>2. /\ Tail(q) \in Seq(Events) /\ Len(Tail(q)) = Len(q) - 1
      /\ \A i \in 1..Len(Tail(q)) : Tail(q)[i] = q[i + 1]
  BY HeadTailProperties
<1> DEFINE u == <<Head(q)>>
           t == Tail(q)
           p == u \o t
<1>3. /\ u \in Seq(Events) /\ Len(u) = 1 /\ u[1] = Head(q)
      /\ t \in Seq(Events) /\ Len(t) = Len(q) - 1
  BY <1>1, <1>2
<1> HIDE DEF u, t
<1>4. /\ p \in Seq(Events) /\ Len(p) = Len(u) + Len(t)
      /\ \A i \in 1..(Len(u) + Len(t)) :
            p[i] = IF i <= Len(u) THEN u[i] ELSE t[i - Len(u)]
  BY <1>3, ConcatProperties
<1> HIDE DEF p
<1>5. Len(p) = Len(q)
  BY <1>1, <1>3, <1>4
<1>6. ASSUME NEW i \in 1..Len(q) PROVE p[i] = q[i]
  <2>1. CASE i = 1
    BY <2>1, <1>1, <1>3, <1>4, <1>5
  <2>2. CASE i # 1
    <3>1. i - 1 \in 1..Len(t) /\ ~(i <= 1) /\ (i - 1) + 1 = i
      BY <2>2, <1>1, <1>2 DEF t
    <3>2. p[i] = t[i - 1]
      BY <3>1, <1>3, <1>4, <1>5
    <3> QED BY <3>1, <3>2, <1>2 DEF t
  <2> QED BY <2>1, <2>2
<1>7. p = q
  BY <1>4, <1>5, <1>6, SeqEqual
<1> QED BY <1>7 DEF p, u, t

\* The oldest event of two queues in a row is the oldest of the first.
LEMMA HeadOfConcat ==
    ASSUME NEW o \in Seq(Events), o # <<>>, NEW r \in Seq(Events)
    PROVE  /\ o \o r # <<>> /\ Head(o \o r) = Head(o)
           /\ Tail(o \o r) = Tail(o) \o r
<1> DEFINE u == <<Head(o)>>
           q == Tail(o) \o r
<1>1. Head(o) \in Events /\ Tail(o) \in Seq(Events) /\ u \o Tail(o) = o
  BY HeadTailProperties, HeadThenTail
<1>2. u \in Seq(Events) /\ q \in Seq(Events)
  BY <1>1, ConcatProperties
<1> HIDE DEF u
<1>3. o \o r = u \o q
  <2>1. (u \o Tail(o)) \o r = u \o (Tail(o) \o r)
    BY <1>1, <1>2, ConcatAssociative
  <2> QED BY <2>1, <1>1
<1> HIDE DEF q
<1>4. /\ Len(u) = 1 /\ u[1] = Head(o) /\ Len(q) \in Nat
  BY <1>2, LenProperties DEF u
<1> DEFINE p == u \o q
<1>5. /\ p \in Seq(Events) /\ Len(p) = 1 + Len(q)
      /\ \A i \in 1..(1 + Len(q)) : p[i] = IF i <= 1 THEN u[i] ELSE q[i - 1]
  <2>1. /\ p \in Seq(Events) /\ Len(p) = Len(u) + Len(q)
        /\ \A i \in 1..(Len(u) + Len(q)) :
              p[i] = IF i <= Len(u) THEN u[i] ELSE q[i - Len(u)]
    BY <1>2, ConcatProperties
  <2> HIDE DEF p
  <2> QED BY <2>1, <1>4
<1> HIDE DEF p
<1>6. p # <<>> /\ Head(p) = Head(o)
  BY <1>4, <1>5, EmptySeq
<1> DEFINE t == Tail(p)
<1>7. /\ t \in Seq(Events) /\ Len(t) = Len(p) - 1
      /\ \A i \in 1..Len(t) : t[i] = p[i + 1]
  BY <1>5, <1>6, HeadTailProperties
<1> HIDE DEF t
<1>8. Len(t) = Len(q)
  BY <1>4, <1>5, <1>7
<1>9. ASSUME NEW i \in 1..Len(q) PROVE t[i] = q[i]
  <2>1. i + 1 \in 1..(1 + Len(q)) /\ ~(i + 1 <= 1) /\ (i + 1) - 1 = i
    BY <1>4
  <2> QED BY <2>1, <1>5, <1>7, <1>8
<1>10. t = q
  BY <1>2, <1>7, <1>8, <1>9, SeqEqual
<1> QED BY <1>3, <1>6, <1>10 DEF p, t, q

\* A watch that opens.
LEMMA WatchOpensKeeps == ASSUME IInv, WatchOpens PROVE IInv'
<1>1. /\ TypeOK /\ listing \in Listings /\ listing.since \in SUBSET Keys
      /\ doubt \in SUBSET Keys
      /\ watch # "open" => InFlight = out
      /\ Sound(InFlight, cache, world[Startup], doubt)
      /\ listing.held => Sound(InFlight, listing.snap, world[Startup], listing.since)
  BY InvFacts
<1> DEFINE E == Existing(Startup)
           K == listing.since \ E
           w == world[Startup]
<1>2. PICK q \in Reports(Startup) : results' = Opening(q, w)
  BY DEF WatchOpens, Opening
<1>3. /\ watch = "down" /\ watch' = "open" /\ out = <<>>
      /\ doubt' = doubt \ E
      /\ listing' = [listing EXCEPT !.since = K]
      /\ UNCHANGED <<world, changes, out, putVars, cache>>
  BY <1>1 DEF WatchOpens, TypeOK
<1>4. /\ results' \in Seq(Events)
      /\ \A m, L : Sound(<<>>, m, w, L) => Sound(results', m, w, L \ E)
  BY <1>1, <1>2, SoundOpening
<1>5. InFlight = <<>> /\ InFlight' = results'
  <2>1. <<>> \o results' = results'
    BY <1>4, ConcatEmptySeq
  <2> QED BY <2>1, <1>1, <1>3 DEF InFlight
<1>6. K \in SUBSET Keys /\ doubt \ E \in SUBSET Keys
  BY <1>1
<1> HIDE DEF E, K
<1>7. /\ listing' \in Listings /\ listing'.held = listing.held
      /\ listing'.snap = listing.snap /\ listing'.since = K
  BY <1>1, <1>3, <1>6, Overtaken
<1>8. TypeOK'
  BY <1>1, <1>3, <1>4, <1>6, <1>7 DEF TypeOK, putVars, Listings
<1> HIDE DEF w
<1>9. w' = w
  BY <1>3 DEF w
<1>10. Sound(InFlight', cache', w', doubt')
  <2>1. Sound(<<>>, cache, w, doubt)
    BY <1>1, <1>5 DEF w
  <2> QED BY <2>1, <1>3, <1>4, <1>5, <1>9
<1>11. listing'.held => Sound(InFlight', listing'.snap, w', listing'.since)
  <2>1. listing.held => Sound(<<>>, listing.snap, w, listing.since)
    BY <1>1, <1>5 DEF w
  <2> QED BY <2>1, <1>4, <1>5, <1>7, <1>9 DEF K
<1> QED BY <1>8, <1>10, <1>11 DEF IInv, w

\* The forwarder moves an event along: what is in flight stays the same.
LEMMA ForwardKeeps == ASSUME IInv, Forward PROVE IInv'
<1>1. TypeOK /\ out \in Seq(Events) /\ results \in Seq(Events)
  BY InvFacts
<1>2. /\ watch = "open" /\ results # <<>> /\ Len(out) < OutCap
      /\ out' = Append(out, Head(results)) /\ results' = Tail(results)
      /\ UNCHANGED <<world, changes, watch, listing, putVars, cache, doubt>>
  BY DEF Forward
<1>3. Head(results) \in Events /\ Tail(results) \in Seq(Events)
  BY <1>1, <1>2, HeadTailProperties
<1>4. /\ Append(out, Head(results)) \in Seq(Events)
      /\ Len(Append(out, Head(results))) = Len(out) + 1
      /\ Len(out) \in Nat
  BY <1>1, <1>3, AppendProperties, LenProperties
<1>5. out' \in Seq(Events) /\ Len(out') <= OutCap /\ results' \in Seq(Events)
  BY <1>2, <1>3, <1>4, ServeFeedAssumption
<1>6. TypeOK'
  BY <1>1, <1>2, <1>5 DEF TypeOK, putVars
<1>7. InFlight' = InFlight
  <2>1. Append(out, Head(results)) \o Tail(results) = out \o results
    <3>1. /\ Append(out, Head(results)) = out \o <<Head(results)>>
          /\ <<Head(results)>> \in Seq(Events)
          /\ <<Head(results)>> \o Tail(results) = results
      BY <1>1, <1>2, <1>3, AppendIsConcat, HeadThenTail
    <3> DEFINE h == <<Head(results)>>
    <3> HIDE DEF h
    <3>2. (out \o h) \o Tail(results) = out \o (h \o Tail(results))
      BY <3>1, <1>1, <1>3, ConcatAssociative DEF h
    <3> QED BY <3>1, <3>2 DEF h
  <2> QED BY <2>1, <1>2 DEF InFlight
<1> QED BY <1>2, <1>6, <1>7 DEF IInv

\* A watch that ends.
LEMMA WatchClosesKeeps == ASSUME IInv, WatchCloses PROVE IInv'
<1>1. /\ TypeOK /\ listing \in Listings /\ listing.since \in SUBSET Keys
      /\ doubt \in SUBSET Keys
      /\ out \in Seq(Events) /\ results \in Seq(Events)
      /\ Sound(InFlight, cache, world[Startup], doubt)
      /\ listing.held => Sound(InFlight, listing.snap, world[Startup], listing.since)
  BY InvFacts
<1> DEFINE lost == {results[i].key : i \in 1..Len(results)}
<1>2. /\ watch = "open" /\ watch' = "closed" /\ results' = <<>>
      /\ doubt' = doubt \cup lost
      /\ listing' = IF listing.held
                    THEN [listing EXCEPT !.since = listing.since \cup lost] ELSE listing
      /\ UNCHANGED <<world, changes, out, putVars, cache>>
  BY DEF WatchCloses
<1>3. lost \in SUBSET Keys
  <2>1. \A i \in 1..Len(results) : results[i] \in Events
    BY <1>1, ElementOfSeq
  <2>2. \A i \in 1..Len(results) : results[i].key \in Keys
    BY <2>1 DEF Events
  <2> QED BY <2>2
<1>4. \A m, w, L : Sound(InFlight, m, w, L) => Sound(out, m, w, L \cup lost)
  BY <1>1, SoundCut DEF InFlight
<1> HIDE DEF lost
<1>5. InFlight' = out
  BY <1>1, <1>2, ConcatEmptySeq DEF InFlight
<1>6. /\ listing' \in Listings /\ listing'.held = listing.held
      /\ listing'.snap = listing.snap
      /\ listing.held => listing'.since = listing.since \cup lost
  <2>1. listing.since \cup lost \in SUBSET Keys
    BY <1>1, <1>3
  <2> QED BY <2>1, <1>1, <1>2, Overtaken
<1>7. TypeOK'
  BY <1>1, <1>2, <1>3, <1>6, EmptySeq DEF TypeOK, putVars, Listings
<1>8. Sound(InFlight', cache', world'[Startup], doubt')
  BY <1>1, <1>2, <1>4, <1>5
<1>9. listing'.held => Sound(InFlight', listing'.snap, world'[Startup], listing'.since)
  BY <1>1, <1>2, <1>4, <1>5, <1>6
<1> QED BY <1>7, <1>8, <1>9 DEF IInv

\* An event is applied to the cache.  A list that is held does not get it.
LEMMA ApplyKeeps == ASSUME IInv, Apply PROVE IInv'
<1>1. /\ TypeOK /\ listing \in Listings /\ listing.since \in SUBSET Keys
      /\ cache \in Maps
      /\ out \in Seq(Events) /\ results \in Seq(Events) /\ InFlight \in Seq(Events)
      /\ Sound(InFlight, cache, world[Startup], doubt)
      /\ listing.held => Sound(InFlight, listing.snap, world[Startup], listing.since)
  BY InvFacts
<1> DEFINE h == Head(out)
           K == listing.since \cup {h.key}
<1>2. /\ out # <<>> /\ out' = Tail(out)
      /\ cache' = [cache EXCEPT ![h.key] = h.cluster]
      /\ listing' = IF listing.held THEN [listing EXCEPT !.since = K] ELSE listing
      /\ UNCHANGED <<world, changes, watch, results, putVars, doubt>>
  BY DEF Apply
<1>3. /\ h \in Events /\ Tail(out) \in Seq(Events)
      /\ Len(Tail(out)) = Len(out) - 1 /\ Len(out) \in Nat
  BY <1>1, <1>2, HeadTailProperties, LenProperties
<1>4. InFlight # <<>> /\ Head(InFlight) = h /\ InFlight' = Tail(InFlight)
  BY <1>1, <1>2, HeadOfConcat DEF InFlight
<1>5. h.key \in Keys /\ h.cluster \in States
  BY <1>3 DEF Events
<1> HIDE DEF h
<1>6. K \in SUBSET Keys
  BY <1>1, <1>5
<1> HIDE DEF K
<1>7. /\ listing' \in Listings /\ listing'.held = listing.held
      /\ listing'.snap = listing.snap
      /\ listing.held => listing'.since = K
  BY <1>1, <1>2, <1>6, Overtaken
<1>8. cache' \in Maps
  BY <1>1, <1>2, <1>5 DEF Maps
<1>9. TypeOK'
  <2>1. out' \in Seq(Events) /\ Len(out') <= OutCap
    BY <1>1, <1>2, <1>3, ServeFeedAssumption DEF TypeOK
  <2>2. watch \notin {"down", "pause"}
    BY <1>1, <1>2 DEF TypeOK
  <2>3. listing' \in [held : BOOLEAN, snap : Maps, since : SUBSET Keys]
    BY <1>7 DEF Listings
  <2> QED BY <2>1, <2>2, <2>3, <1>1, <1>2, <1>8 DEF TypeOK, putVars
<1>10. Sound(InFlight', cache', world'[Startup], doubt')
  <2>1. \A w, L : Sound(InFlight, cache, w, L) => Sound(Tail(InFlight), cache', w, L)
    BY <1>1, <1>2, <1>4, SoundApply
  <2> QED BY <2>1, <1>1, <1>2, <1>4
<1>11. listing'.held => Sound(InFlight', listing'.snap, world'[Startup], listing'.since)
  <2>1. \A m, w, L : Sound(InFlight, m, w, L) => Sound(Tail(InFlight), m, w, L \cup {h.key})
    BY <1>1, <1>4, SoundPass
  <2> QED BY <2>1, <1>1, <1>2, <1>4, <1>7 DEF K
<1> QED BY <1>9, <1>10, <1>11 DEF IInv

\* A list taken now is overtaken only by events in flight that end elsewhere.
LEMMA ListTakenKeeps == ASSUME IInv, ListTaken PROVE IInv'
<1>1. /\ TypeOK /\ doubt \in SUBSET Keys /\ world[Startup] \in Maps
      /\ Sound(InFlight, cache, world[Startup], doubt)
  BY InvFacts
<1> DEFINE K == {k \in doubt : About(k) # {}}
           w == world[Startup]
<1>2. /\ listing' = [held |-> TRUE, snap |-> w, since |-> K]
      /\ UNCHANGED <<world, changes, feedVars, putVars, cache, doubt>>
  BY DEF ListTaken, List
<1>3. K \in SUBSET Keys
  BY <1>1
<1>4. Sound(InFlight, w, w, K)
  <2> SUFFICES ASSUME NEW k \in Keys \ K
               PROVE  Leaves(InFlight, k, w[k]) \/ Silent(InFlight, k)
    BY DEF Sound
  <2>1. CASE k \notin doubt
    BY <2>1, <1>1 DEF Sound
  <2>2. CASE About(k) = {}
    BY <2>2 DEF About, Silent
  <2> QED BY <2>1, <2>2
<1> HIDE DEF K
<1>5. TypeOK'
  BY <1>1, <1>2, <1>3 DEF TypeOK, putVars, feedVars
<1>6. InFlight' = InFlight /\ listing'.snap = w /\ listing'.since = K
  BY <1>2 DEF InFlight, feedVars
<1> QED BY <1>1, <1>2, <1>4, <1>5, <1>6 DEF IInv

\* The list it held becomes the cache.
LEMMA ListAppliedKeeps == ASSUME IInv, ListApplied PROVE IInv'
<1>1. /\ TypeOK /\ listing.snap \in Maps /\ listing.since \in SUBSET Keys
      /\ listing.held => Sound(InFlight, listing.snap, world[Startup], listing.since)
  BY InvFacts
<1>2. /\ listing.held /\ cache' = listing.snap /\ doubt' = listing.since
      /\ listing' = [held |-> FALSE, snap |-> Empty, since |-> {}]
      /\ UNCHANGED <<world, changes, feedVars, putVars>>
  BY DEF ListApplied, NoList
<1>3. Empty \in Maps
  BY DEF Empty, Maps, States
<1>4. TypeOK'
  BY <1>1, <1>2, <1>3 DEF TypeOK, putVars, feedVars
<1>5. InFlight' = InFlight /\ ~listing'.held
  BY <1>2 DEF InFlight, feedVars
<1> QED BY <1>1, <1>2, <1>4, <1>5 DEF IInv

\* The switch handler replaces the cache by another management cluster's list.
LEMMA PutReplacesKeeps == ASSUME IInv, PutReplaces PROVE IInv'
<1>1. /\ TypeOK /\ doubt \in SUBSET Keys
      /\ Sound(InFlight, cache, world[Startup], doubt)
      /\ listing.held => Sound(InFlight, listing.snap, world[Startup], listing.since)
  BY InvFacts
<1> DEFINE D == {k \in Keys : put.snap[k] # cache[k]}
<1>2. /\ cache' = put.snap /\ doubt' = doubt \cup D
      /\ put' = [phase |-> "idle", mgmt |-> Startup, snap |-> Empty]
      /\ UNCHANGED <<world, changes, feedVars, listing, client, switches>>
  BY DEF PutReplaces, NoPut
<1>3. Empty \in Maps /\ put.snap \in Maps
  BY <1>1 DEF Empty, Maps, States, TypeOK
<1>4. TypeOK'
  BY <1>1, <1>2, <1>3, ServeFeedAssumption DEF TypeOK, feedVars
<1>5. InFlight' = InFlight
  BY <1>2 DEF InFlight, feedVars
<1>6. Sound(InFlight, put.snap, world[Startup], doubt \cup D)
  BY <1>1 DEF Sound
<1> QED BY <1>1, <1>2, <1>4, <1>5, <1>6 DEF IInv

\* The other steps of the watch and of the switch handler move no event, map
\* or doubt.
LEMMA OthersKeep ==
    ASSUME IInv,
           \/ WatchFails \/ WatchEnds \/ Reconnect
           \/ (\E m \in Mgmts : PutLists(m)) \/ PutSetsClient
    PROVE  IInv'
<1> USE ServeFeedAssumption
<1>1. TypeOK
  BY DEF IInv
<1>2. CASE WatchFails \/ WatchEnds \/ Reconnect
  <2>1. /\ watch' \in {"pause", "down"} /\ results = <<>> /\ out = <<>>
        /\ UNCHANGED <<world, changes, results, out, listing, putVars, cache, doubt>>
    BY <1>1, <1>2 DEF WatchFails, WatchEnds, Reconnect, TypeOK
  <2>2. TypeOK'
    BY <2>1, <1>1 DEF TypeOK, putVars
  <2> QED BY <2>1, <2>2, UntouchedKeeps
<1>3. ASSUME NEW m \in Mgmts, PutLists(m) PROVE IInv'
  <2>1. /\ switches < MaxSwitches /\ switches' = switches + 1
        /\ put' = [phase |-> "listed", mgmt |-> m, snap |-> world[m]]
        /\ UNCHANGED <<world, changes, watch, results, out, listing, client, cache, doubt>>
    BY <1>3 DEF PutLists, feedVars
  <2>2. switches' \in 0..MaxSwitches /\ world[m] \in Maps
    BY <2>1, <1>1 DEF TypeOK
  <2>3. TypeOK'
    BY <2>1, <2>2, <1>1 DEF TypeOK
  <2> QED BY <2>1, <2>3, UntouchedKeeps
<1>4. CASE PutSetsClient
  <2>1. /\ client' = put.mgmt /\ put' = [put EXCEPT !.phase = "connected"]
        /\ UNCHANGED <<world, changes, watch, results, out, listing, switches, cache, doubt>>
    BY <1>4 DEF PutSetsClient, feedVars
  <2>2. TypeOK'
    BY <2>1, <1>1 DEF TypeOK
  <2> QED BY <2>1, <2>2, UntouchedKeeps
<1> QED BY <1>2, <1>3, <1>4

\* Whatever step is taken, cache and list stay sound.
LEMMA StepKeeps == IInv /\ [Next]_vars => IInv'
<1> SUFFICES ASSUME IInv, [Next]_vars PROVE IInv'
  OBVIOUS
<1>1. CASE UNCHANGED vars
  <2>1. UNCHANGED <<world, changes, watch, results, out, listing, client, put,
                    switches, cache, doubt>>
    BY <1>1 DEF vars, feedVars, putVars
  <2>2. TypeOK'
    BY <2>1 DEF IInv, TypeOK
  <2> QED BY <2>1, <2>2, UntouchedKeeps
<1>2. CASE \E m \in Mgmts, k \in Keys, c \in States : Change(m, k, c)
  BY <1>2, ChangeKeeps
<1>3. CASE Feed
  BY <1>3, WatchOpensKeeps, ForwardKeeps, WatchClosesKeeps, ApplyKeeps, OthersKeep DEF Feed
<1>4. CASE Relist
  BY <1>4, ListTakenKeeps, ListAppliedKeeps DEF Relist
<1>5. CASE Switch
  BY <1>5, PutReplacesKeeps, OthersKeep DEF Switch
<1> QED BY <1>1, <1>2, <1>3, <1>4, <1>5 DEF Next

-----------------------------------------------------------------------------
(* Theorems                                                                *)

\* IInv holds in every reachable state.
THEOREM Invariance == Spec => []IInv
<1> QED BY InitEstablishes, StepKeeps, PTL DEF Spec

\* Every variable keeps its type, the watch's channel never outgrows its
\* capacity, and nothing is in flight while no watch is open or draining.
THEOREM TypeCorrect == Spec => []TypeOK
<1>1. IInv => TypeOK
  BY DEF IInv
<1> QED BY <1>1, Invariance, PTL

\* But for the keys in doubt, applying what is in flight makes the cache
\* exactly what the startup management cluster has: however often the watch is
\* lost and reopened, a list is applied late, or the management cluster is
\* switched in between.
THEOREM CacheIsCaughtUp == Spec => []CacheCatchesUp
<1>1. IInv => CacheCatchesUp
  BY SoundSettles DEF IInv, CacheCatchesUp
<1> QED BY <1>1, Invariance, PTL

\* The list the relist goroutine holds is wrong only for the keys whose events
\* have overtaken it.
THEOREM ListIsCaughtUp == Spec => []ListCatchesUp
<1>1. IInv => ListCatchesUp
  BY SoundSettles DEF IInv, ListCatchesUp
<1> QED BY <1>1, Invariance, PTL

=============================================================================
