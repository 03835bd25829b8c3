------------------------- MODULE ClusterCacheProofs -------------------------
(***************************************************************************)
(* Proofs about ClusterCache and about LiveList, the lists of the tabs it  *)
(* feeds, for every set of clusters and of tabs, every capacity of the     *)
(* channels and connections and any number of requests in flight:          *)
(*   - the invariants of ClusterCache, by its IInv;                        *)
(*   - that ClusterCache implements Broadcast, one lemma per action;       *)
(*   - the invariants of LiveList, by IInvTab below, in terms of where a   *)
(*     queue in flight leaves the list it will be applied to.              *)
(***************************************************************************)
EXTENDS LiveList, SequenceTheorems, WellFoundedInduction, TLAPS

-----------------------------------------------------------------------------
(* Sequences                                                               *)

\* Moving the head of one buffer to the end of the one before it leaves their
\* concatenation as it was.
LEMMA MoveHead ==
    ASSUME NEW S, NEW w \in Seq(S), NEW c \in Seq(S), c # <<>>
    PROVE  Append(w, Head(c)) \o Tail(c) = w \o c
<1>1. Head(c) \in S /\ Tail(c) \in Seq(S) /\ Len(Tail(c)) = Len(c) - 1
      /\ \A i \in 1..Len(Tail(c)) : Tail(c)[i] = c[i + 1]
  BY HeadTailProperties
<1>2. Len(c) \in Nat \ {0} /\ Len(w) \in Nat
  BY EmptySeq, LenProperties
<1>3. Append(w, Head(c)) \in Seq(S)
      /\ Len(Append(w, Head(c))) = Len(w) + 1
      /\ (\A i \in 1..Len(w) : Append(w, Head(c))[i] = w[i])
      /\ Append(w, Head(c))[Len(w) + 1] = Head(c)
  BY <1>1, AppendProperties
<1> DEFINE l == Append(w, Head(c)) \o Tail(c)
           r == w \o c
<1>4. l \in Seq(S) /\ Len(l) = Len(w) + Len(c)
      /\ \A i \in 1..(Len(w) + Len(c)) :
            l[i] = IF i <= Len(w) + 1 THEN Append(w, Head(c))[i]
                                      ELSE Tail(c)[i - (Len(w) + 1)]
  BY <1>1, <1>2, <1>3, ConcatProperties
<1>5. r \in Seq(S) /\ Len(r) = Len(w) + Len(c)
      /\ \A i \in 1..(Len(w) + Len(c)) :
            r[i] = IF i <= Len(w) THEN w[i] ELSE c[i - Len(w)]
  BY ConcatProperties
<1>6. Head(c) = c[1]
  BY <1>2
<1>7. ASSUME NEW i \in 1..Len(l) PROVE l[i] = r[i]
  <2>1. CASE i <= Len(w)
    BY <2>1, <1>2, <1>3, <1>4, <1>5
  <2>2. CASE i = Len(w) + 1
    BY <2>2, <1>2, <1>3, <1>4, <1>5, <1>6
  <2>3. CASE i > Len(w) + 1
    <3>1. i - (Len(w) + 1) \in 1..Len(Tail(c))
      BY <2>3, <1>1, <1>2, <1>4
    <3>2. Tail(c)[i - (Len(w) + 1)] = c[i - Len(w)]
      BY <3>1, <1>1, <1>2
    <3> QED BY <2>3, <3>2, <1>2, <1>4, <1>5
  <2> QED BY <2>1, <2>2, <2>3, <1>2, <1>4
<1> HIDE DEF l, r
<1>8. l = r
  BY <1>4, <1>5, <1>7, SeqEqual
<1> QED BY <1>8 DEF l, r

\* Taking the head of the first buffer takes the head of the queue.
LEMMA TailOfConcat ==
    ASSUME NEW S, NEW w \in Seq(S), NEW q \in Seq(S), w # <<>>
    PROVE  /\ w \o q # <<>> /\ Head(w \o q) = Head(w)
           /\ Tail(w \o q) = Tail(w) \o q
<1>1. Len(q) \in Nat /\ Len(w) \in Nat \ {0}
  BY LenProperties, EmptySeq
<1> DEFINE p == w \o q
           t == Tail(w)
           r == t \o q
           u == Tail(p)
<1>2. /\ p \in Seq(S) /\ Len(p) = Len(w) + Len(q)
      /\ \A i \in 1..(Len(w) + Len(q)) :
            p[i] = IF i <= Len(w) THEN w[i] ELSE q[i - Len(w)]
  BY ConcatProperties
<1>3. t \in Seq(S) /\ Len(t) = Len(w) - 1 /\ \A i \in 1..Len(t) : t[i] = w[i + 1]
  BY HeadTailProperties
<1> HIDE DEF p, t
<1>4. p # <<>> /\ Head(p) = Head(w)
  <2>1. 1 \in 1..(Len(w) + Len(q)) /\ 1 <= Len(w)
    BY <1>1
  <2>2. p[1] = w[1] /\ Len(p) # 0
    BY <2>1, <1>1, <1>2
  <2>3. p # <<>>
    BY <2>2, <1>2, EmptySeq
  <2> QED BY <2>2, <2>3, <1>1, <1>2
<1>5. u \in Seq(S) /\ Len(u) = Len(p) - 1 /\ \A i \in 1..Len(u) : u[i] = p[i + 1]
  BY <1>2, <1>4, HeadTailProperties
<1>6. /\ r \in Seq(S) /\ Len(r) = Len(t) + Len(q)
      /\ \A i \in 1..(Len(t) + Len(q)) :
            r[i] = IF i <= Len(t) THEN t[i] ELSE q[i - Len(t)]
  BY <1>3, ConcatProperties
<1> HIDE DEF r, u
<1>7. Len(u) = Len(r) /\ Len(u) = Len(w) + Len(q) - 1
  BY <1>1, <1>2, <1>3, <1>5, <1>6
<1>8. ASSUME NEW i \in 1..Len(u) PROVE u[i] = r[i]
  <2>1. CASE i <= Len(t)
    BY <2>1, <1>1, <1>2, <1>3, <1>5, <1>6, <1>7
  <2>2. CASE ~(i <= Len(t))
    <3>1. /\ i + 1 \in 1..(Len(w) + Len(q)) /\ ~(i + 1 <= Len(w))
          /\ (i + 1) - Len(w) = i - Len(t)
      BY <2>2, <1>1, <1>2, <1>3, <1>7
    <3> QED BY <2>2, <3>1, <1>1, <1>2, <1>3, <1>5, <1>6, <1>7
  <2> QED BY <2>1, <2>2
<1>9. u = r
  BY <1>5, <1>6, <1>7, <1>8, SeqEqual
<1> QED BY <1>4, <1>9 DEF p, t, r, u

-----------------------------------------------------------------------------
(* EndsIn                                                                  *)

\* Reading the oldest message does not change where the queue ends.
LEMMA EndsInTail ==
    ASSUME NEW S, NEW q \in Seq(S), q # <<>>, NEW c, NEW K, EndsIn(q, c, K)
    PROVE  EndsIn(Tail(q), c, K)
<1>1. /\ Len(Tail(q)) = Len(q) - 1
      /\ \A i \in 1..Len(Tail(q)) : Tail(q)[i] = q[i + 1]
  BY HeadTailProperties
<1>2. Len(q) \in Nat \ {0}
  BY EmptySeq
<1>3. ASSUME NEW i \in 1..Len(Tail(q)), IsLast(Tail(q), i)
      PROVE  IsLast(q, i + 1)
  <2> SUFFICES ASSUME NEW j \in (i + 2)..Len(q)
               PROVE  q[j].key # q[i + 1].key
    BY <1>1, <1>2 DEF IsLast
  <2>1. j - 1 \in (i + 1)..Len(Tail(q)) /\ j - 1 \in 1..Len(Tail(q))
    BY <1>1, <1>2
  <2>2. Tail(q)[j - 1].key # Tail(q)[i].key
    BY <2>1, <1>3 DEF IsLast
  <2> QED BY <2>1, <2>2, <1>1, <1>2
<1> QED BY <1>1, <1>2, <1>3 DEF EndsIn

\* Losing a whole prefix does not either.
LEMMA EndsInSuffix ==
    ASSUME NEW S, NEW w \in Seq(S), NEW q \in Seq(S), NEW c, NEW K,
           EndsIn(w \o q, c, K)
    PROVE  EndsIn(q, c, K)
<1>1. /\ Len(w \o q) = Len(w) + Len(q)
      /\ \A i \in 1..(Len(w) + Len(q)) :
            (w \o q)[i] = IF i <= Len(w) THEN w[i] ELSE q[i - Len(w)]
  BY ConcatProperties
<1>2. Len(q) \in Nat /\ Len(w) \in Nat
  BY LenProperties
<1>3. ASSUME NEW i \in 1..Len(q)
      PROVE  /\ i + Len(w) \in 1..Len(w \o q)
             /\ (w \o q)[i + Len(w)] = q[i]
  <2>1. i + Len(w) \in 1..(Len(w) + Len(q)) /\ ~(i + Len(w) <= Len(w))
        /\ (i + Len(w)) - Len(w) = i
    BY <1>2
  <2> QED BY <2>1, <1>1
<1>4. ASSUME NEW i \in 1..Len(q), IsLast(q, i)
      PROVE  IsLast(w \o q, i + Len(w))
  <2> SUFFICES ASSUME NEW j \in (i + Len(w) + 1)..Len(w \o q)
               PROVE  (w \o q)[j].key # (w \o q)[i + Len(w)].key
    BY DEF IsLast
  <2>1. j - Len(w) \in (i + 1)..Len(q) /\ j - Len(w) \in 1..Len(q)
        /\ (j - Len(w)) + Len(w) = j
    BY <1>1, <1>2
  <2>2. q[j - Len(w)].key # q[i].key
    BY <2>1, <1>4 DEF IsLast
  <2> QED BY <2>1, <2>2, <1>3
<1> QED BY <1>3, <1>4 DEF EndsIn

\* Publishing an event: the queue gets it, the state has it.
LEMMA EndsInPublish ==
    ASSUME NEW q \in Seq(Messages), NEW c \in [Keys -> States],
           NEW K, NEW ev \in ClusterEvents, EndsIn(q, c, K)
    PROVE  EndsIn(Append(q, ev), [c EXCEPT ![ev.key] = ev.cluster], K)
<1> DEFINE p == Append(q, ev)
           d == [c EXCEPT ![ev.key] = ev.cluster]
<1>1. ev \in Messages /\ ev.key \in Keys
  BY DEF Messages, ClusterEvents
<1>2. /\ Len(p) = Len(q) + 1
      /\ \A i \in 1..Len(q) : p[i] = q[i]
      /\ p[Len(q) + 1] = ev
  BY <1>1, AppendProperties
<1>3. Len(q) \in Nat
  BY LenProperties
<1> HIDE DEF p
<1> SUFFICES ASSUME NEW i \in 1..Len(p), p[i].kind = "cluster",
                    p[i].key \notin K, IsLast(p, i)
             PROVE  d[p[i].key] = p[i].cluster
  BY DEF EndsIn, p
<1>4. CASE i = Len(q) + 1
  BY <1>4, <1>1, <1>2
<1>5. CASE i \in 1..Len(q)
  <2>1. IsLast(q, i)
    BY <1>2, <1>3, <1>5 DEF IsLast
  <2>2. c[q[i].key] = q[i].cluster
    BY <2>1, <1>2, <1>5 DEF EndsIn
  <2>3. p[i].key # ev.key
    <3>1. Len(q) + 1 \in (i + 1)..Len(p)
      BY <1>2, <1>3, <1>5
    <3> QED BY <3>1, <1>2, <1>5 DEF IsLast
  <2>4. q[i] \in Messages
    BY <1>5, ElementOfSeq
  <2>5. q[i].key \in Keys
    BY <2>4, <1>2, <1>5 DEF Messages, ClusterEvents, SyncMsg
  <2> QED BY <2>2, <2>3, <2>5, <1>2, <1>5
<1> QED BY <1>2, <1>3, <1>4, <1>5

\* Fewer promises are easier to keep.
LEMMA EndsInMore ==
    ASSUME NEW q, NEW c, NEW K, NEW L, K \subseteq L, EndsIn(q, c, K)
    PROVE  EndsIn(q, c, L)
BY DEF EndsIn

\* A queue that ends with an event about k promises k's state: it is no
\* longer missed.
LEMMA EndsInSent ==
    ASSUME NEW q \in Seq(Messages), NEW c, NEW K, NEW ev \in ClusterEvents,
           c[ev.key] = ev.cluster, EndsIn(Append(q, ev), c, K)
    PROVE  EndsIn(Append(q, ev), c, K \ {ev.key})
<1> DEFINE p == Append(q, ev)
<1>1. /\ Len(p) = Len(q) + 1
      /\ p[Len(q) + 1] = ev
  BY AppendProperties DEF Messages
<1>2. Len(q) \in Nat
  BY LenProperties
<1> HIDE DEF p
<1>3. ASSUME NEW i \in 1..Len(p), p[i].key = ev.key, IsLast(p, i)
      PROVE  p[i] = ev
  <2>1. CASE i = Len(q) + 1
    BY <2>1, <1>1
  <2>2. CASE i # Len(q) + 1
    <3>1. Len(q) + 1 \in (i + 1)..Len(p)
      BY <2>2, <1>1, <1>2
    <3> QED BY <3>1, <1>1, <1>3 DEF IsLast
  <2> QED BY <2>1, <2>2
<1>4. EndsIn(p, c, K)
  BY DEF p
<1>5. EndsIn(p, c, K \ {ev.key})
  BY <1>3, <1>4 DEF EndsIn
<1> QED BY <1>5 DEF p

\* Losing the newest message is made up for by counting its key as missed.
LEMMA EndsInLose ==
    ASSUME NEW q \in Seq(Messages), NEW c, NEW K, NEW ev \in Messages,
           EndsIn(Append(q, ev), c, K)
    PROVE  EndsIn(q, c, K \cup {ev.key})
<1> DEFINE p == Append(q, ev)
<1>1. /\ Len(p) = Len(q) + 1
      /\ \A i \in 1..Len(q) : p[i] = q[i]
      /\ p[Len(q) + 1] = ev
  BY AppendProperties
<1>2. Len(q) \in Nat
  BY LenProperties
<1>3. EndsIn(p, c, K)
  OBVIOUS
<1> HIDE DEF p
<1>4. ASSUME NEW i \in 1..Len(q), q[i].key # ev.key, IsLast(q, i)
      PROVE  IsLast(p, i)
  BY <1>1, <1>2, <1>4 DEF IsLast
<1>5. 1..Len(q) \subseteq 1..Len(p)
  BY <1>1, <1>2
<1> QED BY <1>1, <1>3, <1>4, <1>5 DEF EndsIn

\* Replacing the state is made up for by counting what changed as missed.
LEMMA EndsInReset ==
    ASSUME NEW q \in Seq(Messages), NEW c, NEW K, NEW m, EndsIn(q, c, K)
    PROVE  EndsIn(q, m, K \cup {k \in Keys : m[k] # c[k]})
<1> SUFFICES ASSUME NEW i \in 1..Len(q), q[i].kind = "cluster",
                    q[i].key \notin K, m[q[i].key] = c[q[i].key] \/ q[i].key \notin Keys,
                    IsLast(q, i)
             PROVE  m[q[i].key] = q[i].cluster
  BY DEF EndsIn
<1>1. q[i].key \in Keys
  BY ElementOfSeq DEF Messages, ClusterEvents, SyncMsg
<1> QED BY <1>1 DEF EndsIn

\* A sync message in front promises nothing more.
LEMMA EndsInSync ==
    ASSUME NEW q \in Seq(Messages), NEW c, NEW K, EndsIn(q, c, K)
    PROVE  EndsIn(<<SyncMsg>> \o q, c, K)
<1>1. <<SyncMsg>> \in Seq(Messages) /\ Len(<<SyncMsg>>) = 1 /\ <<SyncMsg>>[1] = SyncMsg
  BY DEF Messages
<1> DEFINE p == <<SyncMsg>> \o q
<1>2. Len(q) \in Nat
  BY LenProperties
<1>3. /\ Len(p) = 1 + Len(q)
      /\ \A i \in 1..(1 + Len(q)) : p[i] = IF i <= 1 THEN SyncMsg ELSE q[i - 1]
  <2>1. /\ Len(p) = Len(<<SyncMsg>>) + Len(q)
        /\ \A i \in 1..(Len(<<SyncMsg>>) + Len(q)) :
              p[i] = IF i <= Len(<<SyncMsg>>) THEN <<SyncMsg>>[i]
                                              ELSE q[i - Len(<<SyncMsg>>)]
    BY <1>1, ConcatProperties
  <2>2. ASSUME NEW i \in 1..(1 + Len(q))
        PROVE  p[i] = IF i <= 1 THEN SyncMsg ELSE q[i - 1]
    <3>1. CASE i = 1
      BY <3>1, <2>1, <1>1, <1>2
    <3>2. CASE i # 1
      <4>1. ~(i <= 1)
        BY <3>2
      <4> QED BY <4>1, <2>1, <1>1, <1>2
    <3> QED BY <3>1, <3>2
  <2> QED BY <2>1, <2>2, <1>1
<1> HIDE DEF p
<1> SUFFICES ASSUME NEW i \in 1..Len(p), p[i].kind = "cluster",
                    p[i].key \notin K, IsLast(p, i)
             PROVE  c[p[i].key] = p[i].cluster
  BY DEF EndsIn, p
<1>4. i # 1
  BY <1>2, <1>3 DEF SyncMsg
<1>5. i - 1 \in 1..Len(q) /\ p[i] = q[i - 1]
  BY <1>2, <1>3, <1>4
<1>6. IsLast(q, i - 1)
  <2> SUFFICES ASSUME NEW j \in ((i - 1) + 1)..Len(q)
               PROVE  q[j].key # q[i - 1].key
    BY DEF IsLast
  <2>1. j + 1 \in (i + 1)..Len(p) /\ j + 1 \in 1..(1 + Len(q)) /\ ~(j + 1 <= 1)
        /\ (j + 1) - 1 = j
    BY <1>2, <1>3, <1>4
  <2>2. p[j + 1] = q[j]
    BY <2>1, <1>3
  <2> QED BY <2>1, <2>2, <1>5 DEF IsLast
<1> QED BY <1>5, <1>6 DEF EndsIn

-----------------------------------------------------------------------------
(* The invariant                                                           *)

LEMMA InitEstablishes == Init => IInv
<1> SUFFICES ASSUME Init PROVE IInv
  OBVIOUS
<1> USE CacheAssumption DEF Init
<1>1. TypeOK
  BY DEF TypeOK, States, Handling, ClusterEvents, Messages
<1>2. HandlersSubscribed /\ MutexHeldWithEvent /\ FanOutIsCurrent
      /\ WiresOpen /\ SlotsFresh /\ NoSendOnClosed
  BY DEF HandlersSubscribed, MutexHeldWithEvent, FanOutIsCurrent,
         WiresOpen, SlotsFresh, NoSendOnClosed
<1>3. LastWins
  BY DEF LastWins
<1> QED BY <1>1, <1>2, <1>3 DEF IInv, Control

\* Each message kind is a record of its own.
LEMMA EventFacts ==
    /\ ErrorEvent \notin ClusterEvents
    /\ NoEvent \notin ClusterEvents
    /\ \A ev \in ClusterEvents :
          ev.kind = "cluster" /\ ev.key \in Keys /\ ev.cluster \in States
    /\ SyncMsg.kind # "cluster"
BY DEF ErrorEvent, NoEvent, ClusterEvents, SyncMsg

\* The steps keep every variable in its type.
LEMMA TypePreserved == Control /\ [Next]_vars => TypeOK'
<1> SUFFICES ASSUME Control, [Next]_vars PROVE TypeOK'
  OBVIOUS
<1> USE CacheAssumption
<1>1. TypeOK
  BY DEF Control
<1>2. CASE UNCHANGED vars
  BY <1>1, <1>2 DEF vars, TypeOK
<1>3. ASSUME NEW listed \in [Keys -> States], ReplaceAll(listed) PROVE TypeOK'
  BY <1>1, <1>3 DEF ReplaceAll, TypeOK
<1>4. ASSUME NEW ev \in ClusterEvents \cup {ErrorEvent}, ApplyEvent(ev) PROVE TypeOK'
  <2>1. CASE ev = ErrorEvent
    BY <2>1, <1>1, <1>4 DEF ApplyEvent, ErrorEvent, vars, TypeOK
  <2>2. CASE ev \in ClusterEvents
    <3>1. byKey' \in [Keys -> States] /\ todo' \in SUBSET Streams
          /\ event' \in ClusterEvents \cup {NoEvent}
          /\ UNCHANGED <<subs, chan, handler, wire, missed>>
      BY <2>2, <1>1, <1>4, EventFacts DEF ApplyEvent, TypeOK
    <3> QED BY <3>1, <1>1 DEF TypeOK
  <2> QED BY <1>4, <2>1, <2>2
<1>5. ASSUME NEW s \in Streams, FanOut(s) PROVE TypeOK'
  <2>1. event \in ClusterEvents
    BY <1>1, <1>5 DEF FanOut, Control, MutexHeldWithEvent, TypeOK
  <2>2. todo' \in SUBSET Streams /\ event' \in ClusterEvents \cup {NoEvent}
        /\ UNCHANGED <<byKey, subs, handler, wire>>
    BY <1>1, <1>5, <2>1 DEF FanOut, TypeOK
  <2>3. missed' \in [Streams -> SUBSET Keys]
    <3>1. event.key \in Keys /\ missed[s] \in SUBSET Keys
      BY <1>1, <2>1, EventFacts DEF TypeOK
    <3> DEFINE more == missed[s] \cup {event.key}
               less == missed[s] \ {event.key}
    <3>2. more \in SUBSET Keys /\ less \in SUBSET Keys
      BY <3>1
    <3>3. missed' = [missed EXCEPT ![s] = more] \/ missed' = [missed EXCEPT ![s] = less]
      BY <1>5 DEF FanOut
    <3> HIDE DEF more, less
    <3> QED BY <3>2, <3>3, <1>1 DEF TypeOK
  <2>4. chan' \in [Streams -> Seq(ClusterEvents)]
    <3>1. Append(chan[s], event) \in Seq(ClusterEvents)
      BY <1>1, <2>1, AppendProperties DEF TypeOK
    <3>2. chan' = chan \/ chan' = [chan EXCEPT ![s] = Append(chan[s], event)]
      BY <1>5 DEF FanOut
    <3> QED BY <3>1, <3>2, <1>1 DEF TypeOK
  <2>5. \A t \in Streams : Len(chan'[t]) <= ChanCap
    <3> SUFFICES ASSUME NEW t \in Streams PROVE Len(chan'[t]) <= ChanCap
      OBVIOUS
    <3>1. CASE chan'[t] = chan[t]
      BY <3>1, <1>1 DEF TypeOK
    <3>2. CASE t = s /\ Len(chan[s]) < ChanCap
               /\ chan' = [chan EXCEPT ![s] = Append(@, event)]
      <4>1. chan[s] \in Seq(ClusterEvents) /\ chan'[s] = Append(chan[s], event)
        BY <3>2, <1>1 DEF TypeOK
      <4>2. Len(chan'[s]) = Len(chan[s]) + 1 /\ Len(chan[s]) \in Nat
        BY <4>1, <2>1, AppendProperties, LenProperties
      <4> QED BY <4>2, <3>2
    <3> QED BY <3>1, <3>2, <1>1, <1>5 DEF FanOut, TypeOK
  <2> QED BY <2>2, <2>3, <2>4, <2>5, <1>1 DEF TypeOK
<1>6. ASSUME NEW s \in Streams, Subscribe(s) PROVE TypeOK'
  BY <1>1, <1>6 DEF Subscribe, TypeOK, Handling
<1>7. ASSUME NEW s \in Streams, WriteSync(s) PROVE TypeOK'
  <2>1. SyncMsg \in Messages
    BY DEF Messages
  <2>2. wire[s] \in Seq(Messages)
    BY <1>1 DEF TypeOK
  <2>3. Append(wire[s], SyncMsg) \in Seq(Messages)
        /\ Len(Append(wire[s], SyncMsg)) = Len(wire[s]) + 1
        /\ Len(wire[s]) \in Nat
    BY <2>1, <2>2, AppendProperties, LenProperties
  <2>4. wire' \in [Streams -> Seq(Messages)]
        /\ \A t \in Streams : Len(wire'[t]) <= WireCap
    BY <1>1, <1>7, <2>3 DEF WriteSync, TypeOK
  <2> QED BY <2>4, <1>1, <1>7 DEF WriteSync, TypeOK, Handling
<1>8. ASSUME NEW s \in Streams, WriteEvent(s) PROVE TypeOK'
  <2>1. wire[s] \in Seq(Messages) /\ chan[s] \in Seq(ClusterEvents) /\ chan[s] # <<>>
    BY <1>1, <1>8 DEF WriteEvent, TypeOK
  <2>2. Head(chan[s]) \in Messages /\ Tail(chan[s]) \in Seq(ClusterEvents)
        /\ Len(Tail(chan[s])) = Len(chan[s]) - 1 /\ Len(chan[s]) \in Nat
    BY <2>1, HeadTailProperties, LenProperties DEF Messages
  <2>3. Append(wire[s], Head(chan[s])) \in Seq(Messages)
        /\ Len(Append(wire[s], Head(chan[s]))) = Len(wire[s]) + 1
        /\ Len(wire[s]) \in Nat
    BY <2>1, <2>2, AppendProperties, LenProperties
  <2>4. wire' \in [Streams -> Seq(Messages)]
        /\ \A t \in Streams : Len(wire'[t]) <= WireCap
    BY <1>1, <1>8, <2>3 DEF WriteEvent, TypeOK
  <2>5. chan' \in [Streams -> Seq(ClusterEvents)]
        /\ \A t \in Streams : Len(chan'[t]) <= ChanCap
    BY <1>1, <1>8, <2>2 DEF WriteEvent, TypeOK
  <2> QED BY <2>4, <2>5, <1>1, <1>8 DEF WriteEvent, TypeOK
<1>9. ASSUME NEW s \in Streams, Disconnect(s) PROVE TypeOK'
  BY <1>1, <1>9 DEF Disconnect, TypeOK, Handling
<1>10. ASSUME NEW s \in Streams, DrainToNowhere(s) PROVE TypeOK'
  <2>1. Tail(chan[s]) \in Seq(ClusterEvents)
        /\ Len(Tail(chan[s])) = Len(chan[s]) - 1 /\ Len(chan[s]) \in Nat
    BY <1>1, <1>10, HeadTailProperties, LenProperties DEF DrainToNowhere, TypeOK
  <2> QED BY <2>1, <1>1, <1>10 DEF DrainToNowhere, TypeOK
<1>11. ASSUME NEW s \in Streams, Return(s) PROVE TypeOK'
  BY <1>1, <1>11 DEF Return, TypeOK, Handling
<1>12. ASSUME NEW s \in Streams, Read(s) PROVE TypeOK'
  <2>1. Tail(wire[s]) \in Seq(Messages)
        /\ Len(Tail(wire[s])) = Len(wire[s]) - 1 /\ Len(wire[s]) \in Nat
    BY <1>1, <1>12, HeadTailProperties, LenProperties DEF Read, TypeOK
  <2> QED BY <2>1, <1>1, <1>12 DEF Read, TypeOK
<1> QED BY <1>2, <1>3, <1>4, <1>5, <1>6, <1>7, <1>8, <1>9, <1>10, <1>11, <1>12
        DEF Next, StreamStep

\* The bookkeeping of subscriptions, mutex and wires survives every step.
LEMMA ControlPreserved == Control /\ [Next]_vars => Control'
<1> SUFFICES ASSUME Control, [Next]_vars PROVE Control'
  OBVIOUS
<1> DEFINE Kept == /\ HandlersSubscribed /\ MutexHeldWithEvent
                   /\ FanOutIsCurrent /\ WiresOpen /\ NoSendOnClosed
<1>1. TypeOK /\ Kept
  BY DEF Control
<1> SUFFICES Kept'
  BY TypePreserved DEF Control
<1> USE DEF HandlersSubscribed, MutexHeldWithEvent, FanOutIsCurrent, WiresOpen,
            NoSendOnClosed, Unlocked
<1>2. CASE UNCHANGED vars
  BY <1>1, <1>2 DEF vars
<1>3. ASSUME NEW listed \in [Keys -> States], ReplaceAll(listed) PROVE Kept'
  BY <1>1, <1>3 DEF ReplaceAll
<1>4. ASSUME NEW ev \in ClusterEvents \cup {ErrorEvent}, ApplyEvent(ev) PROVE Kept'
  <2>1. CASE ev = ErrorEvent
    BY <2>1, <1>1, <1>4 DEF ApplyEvent, ErrorEvent, vars
  <2>2. CASE ev \in ClusterEvents
    <3>1. /\ byKey' = [byKey EXCEPT ![ev.key] = ev.cluster]
          /\ todo' = subs
          /\ event' = IF subs = {} THEN NoEvent ELSE ev
          /\ UNCHANGED <<subs, chan, handler, wire, missed>>
      BY <2>2, <1>4, EventFacts DEF ApplyEvent
    <3>2. ev # NoEvent /\ ev.key \in Keys
      BY <2>2, EventFacts
    <3> QED BY <3>1, <3>2, <1>1 DEF TypeOK
  <2> QED BY <1>4, <2>1, <2>2
<1>5. ASSUME NEW s \in Streams, FanOut(s) PROVE Kept'
  BY <1>1, <1>5 DEF FanOut
<1>6. ASSUME NEW s \in Streams, Subscribe(s) PROVE Kept'
  BY <1>1, <1>6 DEF Subscribe, TypeOK
<1>7. ASSUME NEW s \in Streams, WriteSync(s) PROVE Kept'
  BY <1>1, <1>7 DEF WriteSync, TypeOK
<1>8. ASSUME NEW s \in Streams, WriteEvent(s) PROVE Kept'
  BY <1>1, <1>8 DEF WriteEvent, TypeOK
<1>9. ASSUME NEW s \in Streams, Disconnect(s) PROVE Kept'
  BY <1>1, <1>9 DEF Disconnect, TypeOK
<1>10. ASSUME NEW s \in Streams, DrainToNowhere(s) PROVE Kept'
  BY <1>1, <1>10 DEF DrainToNowhere, TypeOK
<1>11. ASSUME NEW s \in Streams, Return(s) PROVE Kept'
  BY <1>1, <1>11 DEF Return, TypeOK
<1>12. ASSUME NEW s \in Streams, Read(s) PROVE Kept'
  BY <1>1, <1>12 DEF Read, TypeOK
<1> QED BY <1>2, <1>3, <1>4, <1>5, <1>6, <1>7, <1>8, <1>9, <1>10, <1>11, <1>12
        DEF Next, StreamStep

\* A slot that waits for a connection stays as it was at the start.
LEMMA SlotsPreserved == Control /\ SlotsFresh /\ [Next]_vars => SlotsFresh'
<1> SUFFICES ASSUME Control, SlotsFresh, [Next]_vars PROVE SlotsFresh'
  OBVIOUS
<1> SUFFICES ASSUME NEW t \in Streams, handler'[t] = "idle"
             PROVE  chan'[t] = <<>> /\ missed'[t] = Keys
  BY DEF SlotsFresh
<1>1. TypeOK /\ subs = {s \in Streams : handler[s] # "idle"} /\ todo \subseteq subs
      /\ \A s \in Streams : handler[s] = "idle" => chan[s] = <<>> /\ missed[s] = Keys
  BY DEF Control, HandlersSubscribed, NoSendOnClosed, SlotsFresh
<1>2. CASE UNCHANGED vars
  BY <1>1, <1>2 DEF vars
<1>3. ASSUME NEW listed \in [Keys -> States], ReplaceAll(listed)
      PROVE  chan'[t] = <<>> /\ missed'[t] = Keys
  BY <1>1, <1>3 DEF ReplaceAll
<1>4. ASSUME NEW ev \in ClusterEvents \cup {ErrorEvent}, ApplyEvent(ev)
      PROVE  chan'[t] = <<>> /\ missed'[t] = Keys
  BY <1>1, <1>4 DEF ApplyEvent, vars
<1>5. ASSUME NEW s \in Streams, FanOut(s)
      PROVE  chan'[t] = <<>> /\ missed'[t] = Keys
  <2>1. handler[s] # "idle" /\ handler' = handler
    BY <1>1, <1>5 DEF FanOut
  <2>2. t # s => chan'[t] = chan[t] /\ missed'[t] = missed[t]
    BY <1>1, <1>5 DEF FanOut, TypeOK
  <2> QED BY <2>1, <2>2, <1>1
<1>6. ASSUME NEW s \in Streams, StreamStep(s) \/ Read(s)
      PROVE  chan'[t] = <<>> /\ missed'[t] = Keys
  BY <1>1, <1>6 DEF StreamStep, Subscribe, WriteSync, WriteEvent, Disconnect,
                    DrainToNowhere, Return, Read, TypeOK
<1> QED BY <1>2, <1>3, <1>4, <1>5, <1>6 DEF Next

\* Concatenation of the buffers is associative, and a single message at the
\* end of a buffer is one appended to it.
LEMMA Assoc ==
    \A u, v, w \in Seq(Messages) : (u \o v) \o w = u \o (v \o w)
BY ConcatAssociative

LEMMA AppendIsSuffix ==
    \A q \in Seq(Messages), ev \in Messages : Append(q, ev) = q \o <<ev>>
BY AppendIsConcat

\* The parts of a stream's queue are sequences of messages.
LEMMA QueueTyped ==
    ASSUME TypeOK, MutexHeldWithEvent, NEW s \in Streams
    PROVE  /\ wire[s] \in Seq(Messages)
           /\ chan[s] \in Seq(Messages)
           /\ Pending(s) \in Seq(Messages)
           /\ wire[s] \o chan[s] \in Seq(Messages)
           /\ InFlight(s) \in Seq(Messages)
           /\ InFlight(s) = wire[s] \o (chan[s] \o Pending(s))
<1>1. wire[s] \in Seq(Messages) /\ chan[s] \in Seq(ClusterEvents)
  BY DEF TypeOK
<1>2. chan[s] \in Seq(Messages)
  BY <1>1, SeqMonotonic DEF Messages
<1>3. Pending(s) \in Seq(Messages)
  <2>1. CASE s \in todo
    <3>1. event \in Messages
      BY <2>1 DEF TypeOK, MutexHeldWithEvent, Messages
    <3> QED BY <2>1, <3>1 DEF Pending
  <2>2. CASE s \notin todo
    BY <2>2, EmptySeq DEF Pending
  <2> QED BY <2>1, <2>2
<1>4. wire[s] \o chan[s] \in Seq(Messages)
  BY <1>1, <1>2, ConcatProperties
<1>5. InFlight(s) \in Seq(Messages)
  BY <1>3, <1>4, ConcatProperties DEF InFlight
<1>6. InFlight(s) = wire[s] \o (chan[s] \o Pending(s))
  <2>1. (wire[s] \o chan[s]) \o Pending(s) = wire[s] \o (chan[s] \o Pending(s))
    BY <1>1, <1>2, <1>3, Assoc
  <2> QED BY <2>1, Zenon DEF InFlight
<1> QED BY <1>1, <1>2, <1>3, <1>4, <1>5, <1>6

\* Appending to the last buffer appends to the queue.
LEMMA AppendToLast ==
    \A w, c \in Seq(Messages), ev \in Messages :
        w \o Append(c, ev) = Append(w \o c, ev)
<1> SUFFICES ASSUME NEW w \in Seq(Messages), NEW c \in Seq(Messages), NEW ev \in Messages
             PROVE  w \o Append(c, ev) = Append(w \o c, ev)
  OBVIOUS
<1> DEFINE one == <<ev>>
<1>1. one \in Seq(Messages) /\ w \o c \in Seq(Messages)
  BY ConcatProperties
<1>2. Append(c, ev) = c \o one /\ Append(w \o c, ev) = (w \o c) \o one
  BY <1>1, AppendIsSuffix
<1> HIDE DEF one
<1>3. (w \o c) \o one = w \o (c \o one)
  BY <1>1, Assoc
<1> QED BY <1>2, <1>3

-----------------------------------------------------------------------------
(* What the steps do to a queue in flight                                  *)

\* Three buffers that stay as they are hold what they held.
LEMMA KeptQueue ==
    ASSUME NEW s \in Streams, wire'[s] = wire[s], chan'[s] = chan[s],
           Pending(s)' = Pending(s)
    PROVE  InFlight(s)' = InFlight(s)
BY DEF InFlight

\* An event that applyEvent takes the mutex for is in flight to all subscribers.
LEMMA ApplyEventQueue ==
    ASSUME Control, NEW ev \in ClusterEvents, ApplyEvent(ev), NEW s \in Streams
    PROVE  InFlight(s)' = IF s \in subs THEN Append(InFlight(s), ev) ELSE InFlight(s)
<1>1. /\ todo = {} /\ todo' = subs
      /\ subs # {} => event' = ev
      /\ UNCHANGED <<subs, chan, handler, wire, missed>>
  BY EventFacts DEF ApplyEvent, Unlocked
<1>2. CASE s \notin subs
  BY <1>1, <1>2, KeptQueue DEF Pending
<1>3. CASE s \in subs
  <2>1. Pending(s) = <<>> /\ Pending(s)' = <<ev>>
    BY <1>1, <1>3 DEF Pending
  <2>2. wire[s] \o chan[s] \in Seq(Messages) /\ ev \in Messages
    BY QueueTyped DEF Control, Messages
  <2>3. InFlight(s) = wire[s] \o chan[s]
    BY <2>1, <2>2, ConcatEmptySeq DEF InFlight
  <2>4. InFlight(s)' = (wire[s] \o chan[s]) \o <<ev>>
    BY <2>1, <1>1 DEF InFlight
  <2> QED BY <2>2, <2>3, <2>4, <1>3, AppendIsSuffix
<1> QED BY <1>2, <1>3

\* One turn of the fan-out puts the newest event in flight to a subscriber in
\* its channel, or drops it when there is no room.
LEMMA FanOutQueue ==
    ASSUME Control, NEW s \in Streams, FanOut(s)
    PROVE  /\ event \in ClusterEvents /\ byKey[event.key] = event.cluster
           /\ s \in subs /\ s \in todo
           /\ wire[s] \o chan[s] \in Seq(Messages)
           /\ InFlight(s) = Append(wire[s] \o chan[s], event)
           /\ Len(chan[s]) < ChanCap => /\ InFlight(s)' = InFlight(s)
                                        /\ missed'[s] = missed[s] \ {event.key}
           /\ ~(Len(chan[s]) < ChanCap) => /\ InFlight(s)' = wire[s] \o chan[s]
                                           /\ missed'[s] = missed[s] \cup {event.key}
           /\ \A t \in Streams : t # s =>
                 /\ wire'[t] = wire[t] /\ chan'[t] = chan[t]
                 /\ Pending(t)' = Pending(t) /\ missed'[t] = missed[t]
<1>1. TypeOK /\ MutexHeldWithEvent /\ NoSendOnClosed /\ FanOutIsCurrent
  BY DEF Control
<1>2. /\ s \in todo /\ s \in subs /\ todo' = todo \ {s}
      /\ event \in ClusterEvents /\ event \in Messages
      /\ byKey[event.key] = event.cluster
      /\ UNCHANGED <<byKey, subs, handler, wire>>
  BY <1>1 DEF FanOut, TypeOK, MutexHeldWithEvent, NoSendOnClosed, FanOutIsCurrent,
              Messages
<1>3. ASSUME NEW t \in Streams, t # s
      PROVE  /\ wire'[t] = wire[t] /\ chan'[t] = chan[t]
             /\ Pending(t)' = Pending(t) /\ missed'[t] = missed[t]
  <2>1. /\ wire'[t] = wire[t] /\ chan'[t] = chan[t] /\ missed'[t] = missed[t]
        /\ t \in todo' <=> t \in todo
        /\ t \in todo => event' = event
    BY <1>1, <1>3 DEF FanOut, TypeOK
  <2> QED BY <2>1 DEF Pending
<1> DEFINE q == wire[s] \o chan[s]
<1>4. wire[s] \in Seq(Messages) /\ chan[s] \in Seq(Messages) /\ q \in Seq(Messages)
  BY <1>1, QueueTyped
<1>5. Pending(s) = <<event>> /\ Pending(s)' = <<>>
  BY <1>2 DEF Pending
<1>6. InFlight(s) = Append(q, event)
  <2>1. InFlight(s) = q \o <<event>>
    BY <1>5 DEF InFlight
  <2>2. Append(q, event) = q \o <<event>>
    BY <1>2, <1>4, AppendIsSuffix
  <2> QED BY <2>1, <2>2
<1>7. ASSUME Len(chan[s]) < ChanCap
      PROVE  InFlight(s)' = InFlight(s) /\ missed'[s] = missed[s] \ {event.key}
  <2>1. chan'[s] = Append(chan[s], event) /\ missed'[s] = missed[s] \ {event.key}
    BY <1>1, <1>7 DEF FanOut, TypeOK
  <2>2. wire[s] \o Append(chan[s], event) = Append(wire[s] \o chan[s], event)
    BY <1>2, <1>4, AppendToLast
  <2>3. wire'[s] \o chan'[s] = Append(q, event)
    BY <2>1, <2>2, <1>2
  <2>4. Append(q, event) \in Seq(Messages)
    BY <1>2, <1>4, AppendProperties
  <2>5. InFlight(s)' = Append(q, event) \o <<>>
    BY <2>3, <1>5 DEF InFlight
  <2> HIDE DEF q
  <2> QED BY <2>1, <2>4, <2>5, <1>6, ConcatEmptySeq
<1>8. ASSUME ~(Len(chan[s]) < ChanCap)
      PROVE  InFlight(s)' = q /\ missed'[s] = missed[s] \cup {event.key}
  <2>1. chan'[s] = chan[s] /\ missed'[s] = missed[s] \cup {event.key}
    BY <1>1, <1>8 DEF FanOut, TypeOK
  <2>2. InFlight(s)' = q \o <<>>
    BY <2>1, <1>2, <1>5 DEF InFlight
  <2> HIDE DEF q
  <2> QED BY <2>1, <2>2, <1>4, ConcatEmptySeq
<1> QED BY <1>2, <1>3, <1>4, <1>6, <1>7, <1>8

\* The sync message goes in front of everything in flight.
LEMMA WriteSyncQueue ==
    ASSUME Control, NEW s \in Streams, WriteSync(s)
    PROVE  /\ wire'[s] = <<SyncMsg>>
           /\ InFlight(s)' = <<SyncMsg>> \o InFlight(s)
<1>1. TypeOK /\ MutexHeldWithEvent /\ WiresOpen
  BY DEF Control
<1>2. /\ wire[s] = <<>>
      /\ wire' = [wire EXCEPT ![s] = Append(@, SyncMsg)]
      /\ UNCHANGED <<chan, todo, event>>
  BY <1>1 DEF WriteSync, WiresOpen
<1>3. Append(<<>>, SyncMsg) = <<SyncMsg>>
  OBVIOUS
<1>4. wire'[s] = <<SyncMsg>>
  BY <1>1, <1>2, <1>3 DEF TypeOK
<1>5. /\ chan[s] \in Seq(Messages) /\ Pending(s) \in Seq(Messages)
      /\ chan[s] \o Pending(s) \in Seq(Messages)
      /\ InFlight(s) = wire[s] \o (chan[s] \o Pending(s))
  BY <1>1, QueueTyped, ConcatProperties
<1>6. InFlight(s) = chan[s] \o Pending(s)
  BY <1>2, <1>5, ConcatEmptySeq
<1>7. InFlight(s)' = (<<SyncMsg>> \o chan[s]) \o Pending(s)
  <2>1. Pending(s)' = Pending(s) /\ chan'[s] = chan[s]
    BY <1>2 DEF Pending
  <2> QED BY <2>1, <1>4 DEF InFlight
<1>8. (<<SyncMsg>> \o chan[s]) \o Pending(s) = <<SyncMsg>> \o (chan[s] \o Pending(s))
  <2>1. <<SyncMsg>> \in Seq(Messages)
    BY DEF Messages
  <2> QED BY <2>1, <1>5, Assoc
<1> QED BY <1>4, <1>6, <1>7, <1>8

\* Moving an event from the channel to the wire leaves it in flight.
LEMMA WriteEventQueue ==
    ASSUME Control, NEW s \in Streams, WriteEvent(s)
    PROVE  InFlight(s)' = InFlight(s)
<1>1. TypeOK /\ MutexHeldWithEvent
  BY DEF Control
<1>2. /\ chan[s] # <<>>
      /\ wire'[s] = Append(wire[s], Head(chan[s])) /\ chan'[s] = Tail(chan[s])
      /\ UNCHANGED <<todo, event>>
  BY <1>1 DEF WriteEvent, TypeOK
<1>3. Pending(s)' = Pending(s)
  BY <1>2 DEF Pending
<1>4. wire[s] \in Seq(Messages) /\ chan[s] \in Seq(Messages)
  BY <1>1, QueueTyped
<1>5. wire'[s] \o chan'[s] = wire[s] \o chan[s]
  BY <1>2, <1>4, MoveHead
<1> QED BY <1>3, <1>5 DEF InFlight

\* A connection that is lost loses what is on the wire.
LEMMA DisconnectQueue ==
    ASSUME Control, NEW s \in Streams, Disconnect(s)
    PROVE  /\ InFlight(s)' \in Seq(Messages)
           /\ InFlight(s) = wire[s] \o InFlight(s)'
<1>1. TypeOK /\ MutexHeldWithEvent
  BY DEF Control
<1>2. /\ wire'[s] = <<>> /\ UNCHANGED <<chan, todo, event>>
  BY <1>1 DEF Disconnect, TypeOK
<1>3. Pending(s)' = Pending(s)
  BY <1>2 DEF Pending
<1>4. /\ chan[s] \in Seq(Messages) /\ Pending(s) \in Seq(Messages)
      /\ chan[s] \o Pending(s) \in Seq(Messages)
      /\ InFlight(s) = wire[s] \o (chan[s] \o Pending(s))
  BY <1>1, QueueTyped, ConcatProperties
<1>5. InFlight(s)' = chan[s] \o Pending(s)
  BY <1>2, <1>3, <1>4, ConcatEmptySeq DEF InFlight
<1> QED BY <1>4, <1>5

\* An event drained to nowhere was the oldest in flight.
LEMMA DrainQueue ==
    ASSUME Control, NEW s \in Streams, DrainToNowhere(s)
    PROVE  InFlight(s) # <<>> /\ InFlight(s)' = Tail(InFlight(s))
<1>1. TypeOK /\ MutexHeldWithEvent /\ WiresOpen
  BY DEF Control
<1>2. /\ wire[s] = <<>> /\ chan[s] # <<>> /\ chan'[s] = Tail(chan[s])
      /\ UNCHANGED <<wire, todo, event>>
  BY <1>1 DEF DrainToNowhere, TypeOK, WiresOpen
<1>3. Pending(s)' = Pending(s)
  BY <1>2 DEF Pending
<1>4. chan[s] \in Seq(Messages) /\ Pending(s) \in Seq(Messages)
  BY <1>1, QueueTyped
<1>5. Tail(chan[s]) \in Seq(Messages)
  BY <1>2, <1>4, HeadTailProperties
<1>6. InFlight(s) = chan[s] \o Pending(s) /\ InFlight(s)' = Tail(chan[s]) \o Pending(s)
  BY <1>2, <1>3, <1>4, <1>5, ConcatEmptySeq DEF InFlight
<1> QED BY <1>2, <1>4, <1>6, TailOfConcat

\* A browser reads the oldest message in flight.
LEMMA ReadQueue ==
    ASSUME Control, NEW s \in Streams, Read(s)
    PROVE  /\ InFlight(s) # <<>> /\ Head(InFlight(s)) = Head(wire[s])
           /\ InFlight(s)' = Tail(InFlight(s))
<1>1. TypeOK /\ MutexHeldWithEvent
  BY DEF Control
<1>2. wire[s] # <<>> /\ wire'[s] = Tail(wire[s]) /\ UNCHANGED <<chan, todo, event>>
  BY <1>1 DEF Read, TypeOK
<1>3. Pending(s)' = Pending(s)
  BY <1>2 DEF Pending
<1> DEFINE q == chan[s] \o Pending(s)
<1>4. /\ wire[s] \in Seq(Messages) /\ chan[s] \in Seq(Messages)
      /\ Pending(s) \in Seq(Messages) /\ q \in Seq(Messages)
      /\ InFlight(s) = wire[s] \o q
  BY <1>1, QueueTyped, ConcatProperties
<1>5. InFlight(s)' = Tail(wire[s]) \o q
  <2>1. Tail(wire[s]) \in Seq(Messages)
    BY <1>2, <1>4, HeadTailProperties
  <2>2. (Tail(wire[s]) \o chan[s]) \o Pending(s) = Tail(wire[s]) \o q
    BY <2>1, <1>4, Assoc
  <2> QED BY <2>2, <1>2, <1>3 DEF InFlight
<1> HIDE DEF q
<1> QED BY <1>2, <1>4, <1>5, TailOfConcat

-----------------------------------------------------------------------------
(* Where the streams end                                                   *)

\* Whatever step is taken, every stream still ends in the state of the cache.
LEMMA LastWinsPreserved == IInv /\ [Next]_vars => LastWins'
<1> SUFFICES ASSUME IInv, [Next]_vars PROVE LastWins'
  OBVIOUS
<1> SUFFICES ASSUME NEW t \in Streams, t \in subs'
             PROVE  EndsIn(InFlight(t), byKey, missed[t])'
  <2>1. TypeOK'
    BY TypePreserved DEF IInv
  <2> QED BY <2>1 DEF LastWins, TypeOK
<1>1. Control /\ TypeOK /\ WiresOpen
  BY DEF IInv, Control
<1>2. /\ InFlight(t) \in Seq(Messages) /\ wire[t] \in Seq(Messages)
      /\ chan[t] \in Seq(Messages) /\ Pending(t) \in Seq(Messages)
  BY <1>1, QueueTyped DEF Control
<1>3. t \in subs => EndsIn(InFlight(t), byKey, missed[t])
  BY DEF IInv, LastWins
<1> DEFINE Goal == EndsIn(InFlight(t), byKey, missed[t])'
\* Steps that touch neither the cache nor what is in flight to t.
<1>4. ASSUME t \in subs, byKey' = byKey, missed'[t] = missed[t],
             wire'[t] = wire[t], chan'[t] = chan[t], Pending(t)' = Pending(t)
      PROVE  Goal
  BY <1>3, <1>4, KeptQueue
<1>5. CASE UNCHANGED vars
  BY <1>4, <1>5 DEF vars, Pending
<1>6. ASSUME NEW listed \in [Keys -> States], ReplaceAll(listed) PROVE Goal
  <2>1. InFlight(t)' = InFlight(t) /\ t \in subs /\ byKey' = listed
        /\ missed'[t] = missed[t] \cup {k \in Keys : listed[k] # byKey[k]}
    BY <1>6 DEF ReplaceAll, InFlight, Pending
  <2>2. EndsIn(InFlight(t), listed, missed[t] \cup {k \in Keys : listed[k] # byKey[k]})
    <3>1. \A q \in Seq(Messages) : EndsIn(q, byKey, missed[t]) =>
             EndsIn(q, listed, missed[t] \cup {k \in Keys : listed[k] # byKey[k]})
      BY EndsInReset
    <3> QED BY <3>1, <2>1, <1>2, <1>3
  <2> QED BY <2>1, <2>2
<1>7. ASSUME NEW ev \in ClusterEvents \cup {ErrorEvent}, ApplyEvent(ev) PROVE Goal
  <2>1. CASE ev = ErrorEvent
    <3>1. UNCHANGED vars
      BY <2>1, <1>7 DEF ApplyEvent, ErrorEvent
    <3> QED BY <3>1, <1>5
  <2>2. CASE ev \in ClusterEvents
    <3>1. /\ byKey' = [byKey EXCEPT ![ev.key] = ev.cluster]
          /\ subs' = subs /\ missed' = missed /\ byKey \in [Keys -> States]
      BY <2>2, <1>1, <1>7, EventFacts DEF ApplyEvent, TypeOK
    <3>2. InFlight(t)' = Append(InFlight(t), ev)
      BY <2>2, <3>1, <1>1, <1>7, ApplyEventQueue
    <3>3. EndsIn(Append(InFlight(t), ev), [byKey EXCEPT ![ev.key] = ev.cluster], missed[t])
      BY <3>1, <2>2, <1>2, <1>3, EndsInPublish
    <3> QED BY <3>1, <3>2, <3>3
  <2> QED BY <1>7, <2>1, <2>2
<1>8. ASSUME NEW s \in Streams, FanOut(s) PROVE Goal
  <2>1. byKey' = byKey /\ subs' = subs
    BY <1>8 DEF FanOut
  <2>2. CASE s # t
    BY <2>1, <2>2, <1>1, <1>4, <1>8, FanOutQueue
  <2>3. CASE s = t
    <3> DEFINE q == wire[t] \o chan[t]
    <3>1. /\ event \in ClusterEvents /\ byKey[event.key] = event.cluster
          /\ q \in Seq(Messages) /\ InFlight(t) = Append(q, event)
          /\ Len(chan[s]) < ChanCap => /\ InFlight(t)' = InFlight(t)
                                       /\ missed'[t] = missed[t] \ {event.key}
          /\ ~(Len(chan[s]) < ChanCap) => /\ InFlight(t)' = q
                                          /\ missed'[t] = missed[t] \cup {event.key}
      BY <2>3, <1>1, <1>8, FanOutQueue
    <3> HIDE DEF q
    <3>2. EndsIn(Append(q, event), byKey, missed[t])
      BY <3>1, <2>1, <1>3
    <3>3. EndsIn(Append(q, event), byKey, missed[t] \ {event.key})
      BY <3>1, <3>2, EndsInSent
    <3>4. EndsIn(q, byKey, missed[t] \cup {event.key})
      BY <3>1, <3>2, EndsInLose DEF Messages
    <3> QED BY <3>1, <3>3, <3>4, <2>1
  <2> QED BY <2>2, <2>3
<1>9. ASSUME NEW s \in Streams, Subscribe(s) PROVE Goal
  <2>1. CASE s # t
    BY <2>1, <1>1, <1>4, <1>9 DEF Subscribe, TypeOK, Pending
  <2>2. CASE s = t
    <3>1. wire'[t] = <<>> /\ chan'[t] = <<>> /\ Pending(t)' = <<>>
      BY <2>2, <1>1, <1>9 DEF Subscribe, TypeOK, WiresOpen, Pending, Unlocked
    <3>2. InFlight(t)' = <<>>
      <4>1. <<>> \o <<>> = <<>>
        BY EmptySeq, ConcatEmptySeq
      <4> QED BY <4>1, <3>1 DEF InFlight
    <3> QED BY <3>2, EmptySeq DEF EndsIn
  <2> QED BY <2>1, <2>2
<1>10. ASSUME NEW s \in Streams, WriteSync(s) PROVE Goal
  <2>1. CASE s # t
    BY <2>1, <1>1, <1>4, <1>10 DEF WriteSync, TypeOK, Pending
  <2>2. CASE s = t
    <3>1. InFlight(t)' = <<SyncMsg>> \o InFlight(t)
      BY <2>2, <1>1, <1>10, WriteSyncQueue
    <3>2. EndsIn(<<SyncMsg>> \o InFlight(t), byKey, missed[t])
      BY <1>2, <1>3, <1>10, EndsInSync DEF WriteSync
    <3> QED BY <3>1, <3>2, <1>10 DEF WriteSync
  <2> QED BY <2>1, <2>2
<1>11. ASSUME NEW s \in Streams, WriteEvent(s) PROVE Goal
  <2>1. CASE s # t
    BY <2>1, <1>1, <1>4, <1>11 DEF WriteEvent, TypeOK, Pending
  <2>2. CASE s = t
    BY <2>2, <1>1, <1>3, <1>11, WriteEventQueue DEF WriteEvent
  <2> QED BY <2>1, <2>2
<1>12. ASSUME NEW s \in Streams, Disconnect(s) PROVE Goal
  <2>1. CASE s # t
    BY <2>1, <1>1, <1>4, <1>12 DEF Disconnect, TypeOK, Pending
  <2>2. CASE s = t
    <3>1. InFlight(t)' \in Seq(Messages) /\ InFlight(t) = wire[t] \o InFlight(t)'
      BY <2>2, <1>1, <1>12, DisconnectQueue
    <3>2. EndsIn(InFlight(t)', byKey, missed[t])
      BY <3>1, <1>2, <1>3, <1>12, EndsInSuffix DEF Disconnect
    <3> QED BY <3>2, <1>12 DEF Disconnect
  <2> QED BY <2>1, <2>2
<1>13. ASSUME NEW s \in Streams, DrainToNowhere(s) PROVE Goal
  <2>1. CASE s # t
    BY <2>1, <1>1, <1>4, <1>13 DEF DrainToNowhere, TypeOK, Pending
  <2>2. CASE s = t
    <3>1. InFlight(t) # <<>> /\ InFlight(t)' = Tail(InFlight(t))
      BY <2>2, <1>1, <1>13, DrainQueue
    <3>2. EndsIn(Tail(InFlight(t)), byKey, missed[t])
      BY <3>1, <1>2, <1>3, <1>13, EndsInTail DEF DrainToNowhere
    <3> QED BY <3>1, <3>2, <1>13 DEF DrainToNowhere
  <2> QED BY <2>1, <2>2
<1>14. ASSUME NEW s \in Streams, Return(s) PROVE Goal
  BY <1>1, <1>4, <1>14 DEF Return, TypeOK, Pending
<1>15. ASSUME NEW s \in Streams, Read(s) PROVE Goal
  <2>1. CASE s # t
    BY <2>1, <1>1, <1>4, <1>15 DEF Read, TypeOK, Pending
  <2>2. CASE s = t
    <3>1. InFlight(t) # <<>> /\ InFlight(t)' = Tail(InFlight(t))
      BY <2>2, <1>1, <1>15, ReadQueue
    <3>2. EndsIn(Tail(InFlight(t)), byKey, missed[t])
      BY <3>1, <1>2, <1>3, <1>15, EndsInTail DEF Read
    <3> QED BY <3>1, <3>2, <1>15 DEF Read
  <2> QED BY <2>1, <2>2
<1> QED BY <1>5, <1>6, <1>7, <1>8, <1>9, <1>10, <1>11, <1>12, <1>13, <1>14, <1>15
        DEF Next, StreamStep

-----------------------------------------------------------------------------
(* The refinement                                                          *)

\* What the steps below use of the invariant.
LEMMA TabFacts ==
    ASSUME IInv, NEW s \in Streams
    PROVE  /\ TabQueue[s] = InFlight(s)
           /\ TabQueue[s] \in Seq(Messages)
           /\ TabPhase[s] # "idle" <=> s \in subs
           /\ s \notin todo => TabLost[s] = missed[s]
           /\ s \in todo => TabLost[s] = missed[s] \ {event.key}
           /\ handler[s] = "idle" => TabPhase[s] = "idle"
           /\ handler[s] = "subscribed" => TabPhase[s] = "joined"
           /\ handler[s] = "streaming" => TabPhase[s] = "greeted"
           /\ handler[s] = "gone" => TabPhase[s] = "cut"
<1>1. TypeOK /\ MutexHeldWithEvent /\ HandlersSubscribed
  BY DEF IInv, Control
<1>2. TabQueue[s] = InFlight(s) /\ InFlight(s) \in Seq(Messages)
  BY <1>1, QueueTyped DEF TabQueue
<1>3. handler[s] \in Handling
  BY <1>1 DEF TypeOK
<1>4. /\ handler[s] = "idle" => TabPhase[s] = "idle"
      /\ handler[s] = "subscribed" => TabPhase[s] = "joined"
      /\ handler[s] = "streaming" => TabPhase[s] = "greeted"
      /\ handler[s] = "gone" => TabPhase[s] = "cut"
  BY DEF TabPhase, PhaseOf
<1>5. TabPhase[s] # "idle" <=> s \in subs
  BY <1>1, <1>3, <1>4 DEF Handling, HandlersSubscribed
<1>6. /\ s \notin todo => TabLost[s] = missed[s]
      /\ s \in todo => TabLost[s] = missed[s] \ {event.key}
  BY DEF TabLost
<1> QED BY <1>2, <1>4, <1>5, <1>6

\* What is in flight to a stream is what its three buffers hold.
LEMMA SameQueue ==
    ASSUME NEW s \in Streams, wire'[s] = wire[s], chan'[s] = chan[s],
           Pending(s)' = Pending(s)
    PROVE  TabQueue'[s] = TabQueue[s]
BY DEF TabQueue, InFlight

\* The mapped variables are functions of the streams, so two values of one are
\* equal when they are at every stream.
LEMMA TabsEqual ==
    /\ (\A s \in Streams : TabQueue'[s] = TabQueue[s]) => TabQueue' = TabQueue
    /\ (\A s \in Streams : TabPhase'[s] = TabPhase[s]) => TabPhase' = TabPhase
    /\ (\A s \in Streams : TabLost'[s] = TabLost[s]) => TabLost' = TabLost
    /\ TabQueue = [s \in Streams |-> TabQueue[s]]
    /\ TabQueue' = [s \in Streams |-> TabQueue'[s]]
    /\ TabPhase = [s \in Streams |-> TabPhase[s]]
    /\ TabPhase' = [s \in Streams |-> TabPhase'[s]]
    /\ TabLost = [s \in Streams |-> TabLost[s]]
    /\ TabLost' = [s \in Streams |-> TabLost'[s]]
<1>1. /\ TabQueue = [s \in Streams |-> TabQueue[s]]
      /\ TabQueue' = [s \in Streams |-> TabQueue'[s]]
  BY DEF TabQueue
<1>2. /\ TabPhase = [s \in Streams |-> TabPhase[s]]
      /\ TabPhase' = [s \in Streams |-> TabPhase'[s]]
  BY DEF TabPhase
<1>3. /\ TabLost = [s \in Streams |-> TabLost[s]]
      /\ TabLost' = [s \in Streams |-> TabLost'[s]]
  BY DEF TabLost
<1>4. (\A s \in Streams : TabQueue'[s] = TabQueue[s]) => TabQueue' = TabQueue
  BY <1>1
<1>5. (\A s \in Streams : TabPhase'[s] = TabPhase[s]) => TabPhase' = TabPhase
  BY <1>2
<1>6. (\A s \in Streams : TabLost'[s] = TabLost[s]) => TabLost' = TabLost
  BY <1>3
<1> QED BY <1>1, <1>2, <1>3, <1>4, <1>5, <1>6

\* The handlers alone decide the phases.
LEMMA SamePhase == handler' = handler => TabPhase' = TabPhase
BY DEF TabPhase

\* With the mutex free, what is lost is what was missed.
LEMMA LostWhenUnlocked ==
    IInv => /\ todo = {} => TabLost = missed
            /\ (todo = {} /\ TypeOK)' => TabLost' = missed'
BY DEF TabLost, IInv, Control, TypeOK

\* replaceAll resets the cache of the abstract broadcast.
LEMMA ReplaceAllResets ==
    ASSUME IInv, NEW listed \in [Keys -> States], ReplaceAll(listed)
    PROVE  Promise!Reset(listed)
<1>1. TypeOK'
  BY TypePreserved DEF Next, IInv
<1>2. todo = {} /\ todo' = {} /\ handler' = handler /\ wire' = wire /\ chan' = chan
      /\ event' = event
  BY DEF ReplaceAll, Unlocked
<1>3. TabQueue' = TabQueue
  BY <1>2, SameQueue, TabsEqual DEF Pending
<1>4. TabPhase' = TabPhase
  BY <1>2, SamePhase
<1>5. TabLost = missed /\ TabLost' = missed'
  BY <1>1, <1>2, LostWhenUnlocked
<1> QED BY <1>3, <1>4, <1>5 DEF Promise!Reset, ReplaceAll

\* An event about a cluster is published the moment applyEvent has the mutex;
\* the error event is no step at all.
LEMMA ApplyEventPublishes ==
    ASSUME IInv, NEW ev \in ClusterEvents, ApplyEvent(ev)
    PROVE  Promise!Publish(ev.key, ev.cluster)
<1>0. Control /\ TypeOK
  BY DEF IInv, Control
<1>1. /\ byKey' = [byKey EXCEPT ![ev.key] = ev.cluster]
      /\ todo = {} /\ todo' = subs
      /\ subs # {} => event' = ev
      /\ UNCHANGED <<subs, chan, handler, wire, missed>>
  BY EventFacts DEF ApplyEvent, Unlocked
<1>2. ev = Promise!Message("cluster", ev.key, ev.cluster)
  BY DEF Promise!Message, ClusterEvents
<1>3. TabPhase' = TabPhase
  BY <1>1, SamePhase
<1>4. ASSUME NEW s \in Streams
      PROVE  TabQueue'[s] = IF s \in subs THEN Append(TabQueue[s], ev) ELSE TabQueue[s]
  <2>1. InFlight(s)' = IF s \in subs THEN Append(InFlight(s), ev) ELSE InFlight(s)
    BY <1>0, ApplyEventQueue
  <2> QED BY <2>1 DEF TabQueue
<1>5. ASSUME NEW s \in Streams
      PROVE  TabLost'[s] = IF s \in subs THEN TabLost[s] \ {ev.key} ELSE TabLost[s]
  BY <1>1 DEF TabLost
<1>6. Promise!Live = subs
  BY TabFacts, <1>0 DEF Promise!Live, TypeOK
<1>7. TabQueue' = [s \in Streams |-> IF s \in subs THEN Append(TabQueue[s], ev)
                                                   ELSE TabQueue[s]]
  BY <1>4, TabsEqual
<1>8. TabLost' = [s \in Streams |-> IF s \in subs THEN TabLost[s] \ {ev.key}
                                                  ELSE TabLost[s]]
  BY <1>5, TabsEqual
<1> QED BY <1>1, <1>2, <1>3, <1>6, <1>7, <1>8 DEF Promise!Publish

\* A step that moves only one stream moves only its abstract tab.
LEMMA OneTab ==
    ASSUME NEW s \in Streams,
           \A t \in Streams : t # s => /\ wire'[t] = wire[t]
                                       /\ chan'[t] = chan[t]
                                       /\ Pending(t)' = Pending(t)
    PROVE  TabQueue' = [TabQueue EXCEPT ![s] = TabQueue'[s]]
<1>1. \A t \in Streams : t # s => TabQueue'[t] = TabQueue[t]
  BY SameQueue
<1> DEFINE p == TabQueue
           q == TabQueue'
<1>2. p = [t \in Streams |-> p[t]] /\ q = [t \in Streams |-> q[t]]
  BY TabsEqual
<1>3. \A t \in Streams : t # s => q[t] = p[t]
  BY <1>1
<1> HIDE DEF p, q
<1>4. q = [p EXCEPT ![s] = q[s]]
  BY <1>2, <1>3
<1> QED BY <1>4 DEF p, q

\* The last event of a queue can be cut off again.
LEMMA DropLast ==
    ASSUME NEW S, NEW q \in Seq(S), NEW e \in S
    PROVE  /\ Append(q, e) # <<>>
           /\ Append(q, e)[Len(Append(q, e))] = e
           /\ SubSeq(Append(q, e), 1, Len(Append(q, e)) - 1) = q
<1>1. Len(q) \in Nat
  BY LenProperties
<1> DEFINE p == Append(q, e)
           r == SubSeq(p, 1, Len(p) - 1)
<1>2. /\ p \in Seq(S) /\ p # <<>>
      /\ Len(p) = Len(q) + 1 /\ p[Len(q) + 1] = e
      /\ \A i \in 1..Len(q) : p[i] = q[i]
  BY <1>1, AppendProperties, EmptySeq
<1> HIDE DEF p
<1>3. \A i \in 1..(Len(p) - 1) : p[i] \in S
  BY <1>1, <1>2, ElementOfSeq
<1>4. /\ r \in Seq(S)
      /\ Len(r) = IF 1 <= Len(p) - 1 THEN Len(p) - 1 - 1 + 1 ELSE 0
      /\ \A i \in 1..(Len(p) - 1 - 1 + 1) : r[i] = p[1 + i - 1]
  BY <1>1, <1>2, <1>3, SubSeqProperties
<1> HIDE DEF r
<1>5. Len(r) = Len(q) /\ \A i \in 1..Len(q) : r[i] = q[i]
  BY <1>1, <1>2, <1>4
<1>6. r = q
  BY <1>4, <1>5, SeqEqual
<1> QED BY <1>1, <1>2, <1>6 DEF p, r

\* A prefix can be cut off.
LEMMA DropPrefix ==
    ASSUME NEW S, NEW w \in Seq(S), NEW q \in Seq(S)
    PROVE  /\ Len(w) \in 0..Len(w \o q)
           /\ SubSeq(w \o q, Len(w) + 1, Len(w \o q)) = q
<1>1. Len(q) \in Nat /\ Len(w) \in Nat
  BY LenProperties
<1> DEFINE p == w \o q
           r == SubSeq(p, Len(w) + 1, Len(p))
<1>2. /\ p \in Seq(S) /\ Len(p) = Len(w) + Len(q)
      /\ \A i \in 1..(Len(w) + Len(q)) :
            p[i] = IF i <= Len(w) THEN w[i] ELSE q[i - Len(w)]
  BY ConcatProperties
<1> HIDE DEF p
<1>3. \A i \in (Len(w) + 1)..Len(p) : p[i] \in S
  BY <1>1, <1>2, ElementOfSeq
<1>4. /\ r \in Seq(S)
      /\ Len(r) = IF Len(w) + 1 <= Len(p) THEN Len(p) - (Len(w) + 1) + 1 ELSE 0
      /\ \A i \in 1..(Len(p) - (Len(w) + 1) + 1) : r[i] = p[Len(w) + 1 + i - 1]
  BY <1>1, <1>2, <1>3, SubSeqProperties
<1> HIDE DEF r
<1>5. Len(r) = Len(q)
  BY <1>1, <1>2, <1>4
<1>6. ASSUME NEW i \in 1..Len(q) PROVE r[i] = q[i]
  <2>1. i \in 1..(Len(p) - (Len(w) + 1) + 1) /\ Len(w) + 1 + i - 1 = Len(w) + i
    BY <1>1, <1>2
  <2>2. Len(w) + i \in 1..(Len(w) + Len(q)) /\ ~(Len(w) + i <= Len(w))
        /\ (Len(w) + i) - Len(w) = i
    BY <1>1
  <2> QED BY <2>1, <2>2, <1>2, <1>4
<1>7. r = q
  BY <1>4, <1>5, <1>6, SeqEqual
<1> QED BY <1>1, <1>2, <1>7 DEF p, r

\* One turn of the fan-out sends what was already published, or loses it.
LEMMA FanOutLoses ==
    ASSUME IInv, NEW s \in Streams, FanOut(s)
    PROVE  Promise!Lose(s) \/ UNCHANGED Promise!vars
<1>1. Control /\ TypeOK
  BY DEF IInv, Control
<1> DEFINE q == wire[s] \o chan[s]
<1>2. /\ event \in ClusterEvents /\ s \in todo
      /\ q \in Seq(Messages) /\ InFlight(s) = Append(q, event)
      /\ Len(chan[s]) < ChanCap => /\ InFlight(s)' = InFlight(s)
                                   /\ missed'[s] = missed[s] \ {event.key}
      /\ ~(Len(chan[s]) < ChanCap) => /\ InFlight(s)' = q
                                      /\ missed'[s] = missed[s] \cup {event.key}
      /\ \A t \in Streams : t # s =>
            /\ wire'[t] = wire[t] /\ chan'[t] = chan[t]
            /\ Pending(t)' = Pending(t) /\ missed'[t] = missed[t]
  BY <1>1, FanOutQueue
<1> HIDE DEF q
<1>3. /\ todo' = todo \ {s} /\ event \in Messages
      /\ event.kind = "cluster" /\ event.key \in Keys
      /\ UNCHANGED <<byKey, handler>>
  BY <1>2, EventFacts DEF FanOut, Messages
<1>4. TabPhase' = TabPhase
  BY <1>3, SamePhase
<1>5. ASSUME NEW t \in Streams, t # s PROVE TabLost'[t] = TabLost[t]
  <2>1. /\ missed'[t] = missed[t]
        /\ t \in todo' <=> t \in todo
        /\ t \in todo => event' = event
    BY <1>2, <1>5 DEF FanOut
  <2> QED BY <2>1 DEF TabLost
<1>6. TabQueue' = [TabQueue EXCEPT ![s] = TabQueue'[s]]
  BY <1>2, OneTab
<1>7. TabQueue[s] = Append(q, event) /\ TabQueue'[s] = InFlight(s)'
  BY <1>2 DEF TabQueue
<1>8. TabLost[s] = missed[s] \ {event.key} /\ TabLost'[s] = missed'[s]
  BY <1>2, <1>3 DEF TabLost
<1>9. CASE Len(chan[s]) < ChanCap
  <2>1. TabQueue' = TabQueue
    BY <1>2, <1>7, <1>9, SameQueue, TabsEqual
  <2>2. TabLost' = TabLost
    BY <1>2, <1>5, <1>8, <1>9, TabsEqual
  <2> QED BY <2>1, <2>2, <1>3, <1>4 DEF Promise!vars
<1>10. CASE ~(Len(chan[s]) < ChanCap)
  <2>1. TabQueue'[s] = q
    BY <1>2, <1>7, <1>10
  <2>2. /\ TabQueue[s] # <<>>
        /\ TabQueue[s][Len(TabQueue[s])] = event
        /\ SubSeq(TabQueue[s], 1, Len(TabQueue[s]) - 1) = q
    BY <1>2, <1>3, <1>7, DropLast
  <2>3. TabLost' = [TabLost EXCEPT ![s] = @ \cup {event.key}]
    <3>1. TabLost'[s] = TabLost[s] \cup {event.key}
      BY <1>2, <1>8, <1>10
    <3> QED BY <3>1, <1>5, TabsEqual
  <2> QED BY <2>1, <2>2, <2>3, <1>3, <1>4, <1>6 DEF Promise!Lose
<1> QED BY <1>9, <1>10

\* A handler changes its own phase only.
LEMMA OnePhase ==
    ASSUME TypeOK, NEW s \in Streams, NEW h, handler' = [handler EXCEPT ![s] = h]
    PROVE  TabPhase' = [TabPhase EXCEPT ![s] = PhaseOf(h)]
BY DEF TabPhase, TypeOK

\* Subscribing joins: the slot's queue was empty and everything was lost.
LEMMA SubscribeJoins ==
    ASSUME IInv, NEW s \in Streams, Subscribe(s)
    PROVE  Promise!Join(s)
<1>1. TypeOK /\ WiresOpen /\ SlotsFresh
  BY DEF IInv, Control
<1>2. /\ handler[s] = "idle" /\ todo = {} /\ todo' = {}
      /\ chan[s] = <<>> /\ missed[s] = Keys
      /\ chan' = [chan EXCEPT ![s] = <<>>] /\ missed' = [missed EXCEPT ![s] = Keys]
      /\ handler' = [handler EXCEPT ![s] = "subscribed"]
      /\ UNCHANGED <<byKey, event, wire>>
  BY <1>1 DEF Subscribe, SlotsFresh, Unlocked
<1>3. chan' = chan /\ missed' = missed
  BY <1>1, <1>2 DEF TypeOK
<1>4. TabQueue' = TabQueue
  BY <1>2, <1>3, SameQueue, TabsEqual DEF Pending
<1>5. TabLost' = TabLost
  BY <1>2, <1>3 DEF TabLost
<1>6. TabPhase' = [TabPhase EXCEPT ![s] = "joined"] /\ TabPhase[s] = "idle"
  BY <1>1, <1>2, OnePhase, TabFacts DEF PhaseOf
<1> QED BY <1>2, <1>4, <1>5, <1>6 DEF Promise!Join

\* The sync message goes in front of everything in flight.
LEMMA WriteSyncGreets ==
    ASSUME IInv, NEW s \in Streams, WriteSync(s)
    PROVE  Promise!Greet(s)
<1>1. Control /\ TypeOK
  BY DEF IInv, Control
<1>2. /\ handler[s] = "subscribed"
      /\ handler' = [handler EXCEPT ![s] = "streaming"]
      /\ \A t \in Streams : t # s => wire'[t] = wire[t]
      /\ UNCHANGED <<byKey, chan, todo, event, missed>>
  BY <1>1 DEF WriteSync, TypeOK
<1>3. TabPhase' = [TabPhase EXCEPT ![s] = "greeted"] /\ TabPhase[s] = "joined"
  BY <1>1, <1>2, OnePhase, TabFacts DEF PhaseOf
<1>4. TabLost' = TabLost
  BY <1>2 DEF TabLost
<1>5. TabQueue'[s] = <<SyncMsg>> \o TabQueue[s]
  BY <1>1, WriteSyncQueue DEF TabQueue
<1>6. \A t \in Streams : Pending(t)' = Pending(t)
  BY <1>2 DEF Pending
<1>7. TabQueue' = [TabQueue EXCEPT ![s] = TabQueue'[s]]
  BY <1>2, <1>6, OneTab
<1>8. SyncMsg = Promise!Sync
  BY DEF SyncMsg, Promise!Sync, Promise!Message
<1> QED BY <1>2, <1>3, <1>4, <1>5, <1>7, <1>8 DEF Promise!Greet

\* Moving an event from the channel to the wire is no step of the broadcast.
LEMMA WriteEventStutters ==
    ASSUME IInv, NEW s \in Streams, WriteEvent(s)
    PROVE  UNCHANGED Promise!vars
<1>1. Control /\ TypeOK
  BY DEF IInv, Control
<1>2. /\ \A t \in Streams : t # s => wire'[t] = wire[t] /\ chan'[t] = chan[t]
      /\ UNCHANGED <<byKey, todo, event, handler, missed>>
  BY <1>1 DEF WriteEvent, TypeOK
<1>3. \A t \in Streams : Pending(t)' = Pending(t)
  BY <1>2 DEF Pending
<1>4. TabQueue'[s] = TabQueue[s]
  BY <1>1, WriteEventQueue DEF TabQueue
<1>5. TabQueue' = TabQueue
  BY <1>2, <1>3, <1>4, SameQueue, TabsEqual
<1>6. TabPhase' = TabPhase /\ TabLost' = TabLost
  BY <1>2, SamePhase DEF TabLost
<1> QED BY <1>2, <1>5, <1>6 DEF Promise!vars

\* A lost connection cuts off exactly what had been written to it.
LEMMA DisconnectCuts ==
    ASSUME IInv, NEW s \in Streams, Disconnect(s)
    PROVE  Promise!Cut(s)
<1>1. Control /\ TypeOK
  BY DEF IInv, Control
<1>2. /\ handler[s] \in {"subscribed", "streaming"}
      /\ handler' = [handler EXCEPT ![s] = "gone"]
      /\ \A t \in Streams : t # s => wire'[t] = wire[t]
      /\ UNCHANGED <<byKey, chan, todo, event, missed>>
  BY <1>1 DEF Disconnect, TypeOK
<1>3. /\ TabPhase' = [TabPhase EXCEPT ![s] = "cut"]
      /\ TabPhase[s] \in {"joined", "greeted"}
  BY <1>1, <1>2, OnePhase, TabFacts DEF PhaseOf
<1>4. TabLost' = TabLost
  BY <1>2 DEF TabLost
<1>5. \A t \in Streams : Pending(t)' = Pending(t)
  BY <1>2 DEF Pending
<1>6. /\ wire[s] \in Seq(Messages) /\ TabQueue'[s] \in Seq(Messages)
      /\ TabQueue[s] = wire[s] \o TabQueue'[s]
  BY <1>1, DisconnectQueue DEF TabQueue, TypeOK
<1>7. /\ Len(wire[s]) \in 0..Len(TabQueue[s])
      /\ SubSeq(TabQueue[s], Len(wire[s]) + 1, Len(TabQueue[s])) = TabQueue'[s]
  <2>1. \A w, q \in Seq(Messages) :
           /\ Len(w) \in 0..Len(w \o q)
           /\ SubSeq(w \o q, Len(w) + 1, Len(w \o q)) = q
    BY DropPrefix
  <2> QED BY <1>6, <2>1
<1>8. TabQueue' = [TabQueue EXCEPT ![s] = TabQueue'[s]]
  BY <1>2, <1>5, OneTab
<1>9. TabQueue' = [TabQueue EXCEPT ![s] = SubSeq(@, Len(wire[s]) + 1, Len(@))]
  BY <1>7, <1>8
<1> QED BY <1>2, <1>3, <1>4, <1>7, <1>9 DEF Promise!Cut

\* A handler whose context is done throws away the oldest event in flight.
LEMMA DrainDiscards ==
    ASSUME IInv, NEW s \in Streams, DrainToNowhere(s)
    PROVE  Promise!Discard(s)
<1>1. Control /\ TypeOK
  BY DEF IInv, Control
<1>2. /\ handler[s] = "gone"
      /\ \A t \in Streams : t # s => chan'[t] = chan[t]
      /\ UNCHANGED <<byKey, todo, event, handler, wire, missed>>
  BY <1>1 DEF DrainToNowhere, TypeOK
<1>3. TabPhase' = TabPhase /\ TabLost' = TabLost /\ TabPhase[s] = "cut"
  BY <1>2, SamePhase, TabFacts DEF TabLost
<1>4. \A t \in Streams : Pending(t)' = Pending(t)
  BY <1>2 DEF Pending
<1>5. TabQueue[s] # <<>> /\ TabQueue'[s] = Tail(TabQueue[s])
  BY <1>1, DrainQueue DEF TabQueue
<1>6. TabQueue' = [TabQueue EXCEPT ![s] = TabQueue'[s]]
  BY <1>2, <1>4, OneTab
<1> QED BY <1>2, <1>3, <1>5, <1>6 DEF Promise!Discard

\* unsub leaves: nothing can be on its way to a slot whose mutex is free.
LEMMA ReturnLeaves ==
    ASSUME IInv, NEW s \in Streams, Return(s)
    PROVE  Promise!Leave(s)
<1>1. TypeOK /\ WiresOpen
  BY DEF IInv, Control
<1>2. /\ handler[s] = "gone" /\ wire[s] = <<>> /\ todo = {} /\ todo' = {}
      /\ chan'[s] = <<>>
      /\ \A t \in Streams : t # s => chan'[t] = chan[t]
      /\ missed' = [missed EXCEPT ![s] = Keys]
      /\ handler' = [handler EXCEPT ![s] = "idle"]
      /\ UNCHANGED <<byKey, event, wire>>
  BY <1>1 DEF Return, TypeOK, WiresOpen, Unlocked
<1>3. TabPhase' = [TabPhase EXCEPT ![s] = "idle"] /\ TabPhase[s] = "cut"
  BY <1>1, <1>2, OnePhase, TabFacts DEF PhaseOf
<1>4. TabLost = missed /\ TabLost' = missed'
  BY <1>1, <1>2 DEF TabLost, TypeOK
<1>5. \A t \in Streams : Pending(t)' = Pending(t) /\ Pending(t) = <<>>
  BY <1>2 DEF Pending
<1>6. TabQueue'[s] = <<>>
  <2>1. <<>> \o <<>> = <<>>
    BY EmptySeq, ConcatEmptySeq
  <2> QED BY <2>1, <1>2, <1>5 DEF TabQueue, InFlight
<1>7. TabQueue' = [TabQueue EXCEPT ![s] = TabQueue'[s]]
  BY <1>2, <1>5, OneTab
<1> QED BY <1>2, <1>3, <1>4, <1>6, <1>7 DEF Promise!Leave

\* A browser reads the oldest message in flight, and only after the sync.
LEMMA ReadDelivers ==
    ASSUME IInv, NEW s \in Streams, Read(s)
    PROVE  Promise!Deliver(s)
<1>1. Control /\ TypeOK /\ WiresOpen
  BY DEF IInv, Control
<1>2. /\ handler[s] = "streaming"
      /\ \A t \in Streams : t # s => wire'[t] = wire[t]
      /\ UNCHANGED <<byKey, chan, todo, event, handler, missed>>
  BY <1>1 DEF Read, TypeOK, WiresOpen
<1>3. TabPhase' = TabPhase /\ TabLost' = TabLost /\ TabPhase[s] = "greeted"
  BY <1>2, SamePhase, TabFacts DEF TabLost
<1>4. \A t \in Streams : Pending(t)' = Pending(t)
  BY <1>2 DEF Pending
<1>5. TabQueue[s] # <<>> /\ TabQueue'[s] = Tail(TabQueue[s])
  BY <1>1, ReadQueue DEF TabQueue
<1>6. TabQueue' = [TabQueue EXCEPT ![s] = TabQueue'[s]]
  BY <1>2, <1>4, OneTab
<1> QED BY <1>2, <1>3, <1>5, <1>6 DEF Promise!Deliver

\* The cache starts as the broadcast does.
LEMMA InitImplements == Init => Promise!Init
<1> SUFFICES ASSUME Init PROVE Promise!Init
  OBVIOUS
<1>1. \A s \in Streams : InFlight(s) = <<>>
  <2>1. <<>> \o <<>> = <<>>
    BY EmptySeq, ConcatEmptySeq
  <2> QED BY <2>1 DEF Init, InFlight, Pending
<1>2. TabQueue = [s \in Streams |-> <<>>]
  BY <1>1 DEF TabQueue
<1>3. PhaseOf("idle") = "idle"
  BY DEF PhaseOf
<1>4. TabPhase = [s \in Streams |-> "idle"]
  BY <1>3 DEF TabPhase, Init
<1>5. TabLost = [s \in Streams |-> Keys]
  BY DEF TabLost, Init
<1> QED BY <1>2, <1>4, <1>5 DEF Promise!Init, Init

\* Every step of the cache, a handler or a browser is one of the broadcast or
\* none.
LEMMA StepImplements == IInv /\ [Next]_vars => [Promise!Next]_(Promise!vars)
<1> SUFFICES ASSUME IInv, [Next]_vars PROVE Promise!Next \/ UNCHANGED Promise!vars
  OBVIOUS
<1>1. ASSUME UNCHANGED vars PROVE UNCHANGED Promise!vars
  <2>1. /\ \A s \in Streams : wire'[s] = wire[s] /\ chan'[s] = chan[s]
                              /\ Pending(s)' = Pending(s)
        /\ handler' = handler /\ byKey' = byKey
    BY <1>1 DEF vars, Pending
  <2>2. TabQueue' = TabQueue
    BY <2>1, SameQueue, TabsEqual
  <2>3. TabPhase' = TabPhase /\ TabLost' = TabLost
    BY <2>1, <1>1, SamePhase DEF TabLost, vars
  <2> QED BY <2>1, <2>2, <2>3 DEF Promise!vars
<1>2. ASSUME NEW listed \in [Keys -> States], ReplaceAll(listed) PROVE Promise!Next
  <2>1. listed \in [Keys -> Promise!States]
    BY DEF States, Promise!States
  <2> QED BY <2>1, <1>2, ReplaceAllResets DEF Promise!Next
<1>3. ASSUME NEW ev \in ClusterEvents \cup {ErrorEvent}, ApplyEvent(ev)
      PROVE  Promise!Next \/ UNCHANGED Promise!vars
  <2>1. CASE ev = ErrorEvent
    BY <2>1, <1>1, <1>3 DEF ApplyEvent, ErrorEvent
  <2>2. CASE ev \in ClusterEvents
    <3>1. ev.key \in Keys /\ ev.cluster \in Promise!States
      BY <2>2, EventFacts DEF States, Promise!States
    <3> QED BY <3>1, <2>2, <1>3, ApplyEventPublishes DEF Promise!Next
  <2> QED BY <2>1, <2>2
<1>4. ASSUME NEW s \in Streams, FanOut(s)
      PROVE  Promise!Next \/ UNCHANGED Promise!vars
  BY <1>4, FanOutLoses DEF Promise!Next
<1>5. ASSUME NEW s \in Streams, Subscribe(s) PROVE Promise!Next
  BY <1>5, SubscribeJoins DEF Promise!Next
<1>6. ASSUME NEW s \in Streams, WriteSync(s) PROVE Promise!Next
  BY <1>6, WriteSyncGreets DEF Promise!Next
<1>7. ASSUME NEW s \in Streams, WriteEvent(s) PROVE UNCHANGED Promise!vars
  BY <1>7, WriteEventStutters
<1>8. ASSUME NEW s \in Streams, Disconnect(s) PROVE Promise!Next
  BY <1>8, DisconnectCuts DEF Promise!Next
<1>9. ASSUME NEW s \in Streams, DrainToNowhere(s) PROVE Promise!Next
  BY <1>9, DrainDiscards DEF Promise!Next
<1>10. ASSUME NEW s \in Streams, Return(s) PROVE Promise!Next
  BY <1>10, ReturnLeaves DEF Promise!Next
<1>11. ASSUME NEW s \in Streams, Read(s) PROVE Promise!Next
  BY <1>11, ReadDelivers DEF Promise!Next
<1> QED BY <1>1, <1>2, <1>3, <1>4, <1>5, <1>6, <1>7, <1>8, <1>9, <1>10, <1>11
        DEF Next, StreamStep

-----------------------------------------------------------------------------
(* The tabs: where a queue leaves the list it is applied to                *)

\* Queue q says nothing of k.
Silent(q, k) == \A i \in 1..Len(q) : q[i].key # k

\* Once q is applied to m, every key is as in w, K apart: the last event about
\* a key says so, or there is none and m has it.
Sound(q, m, w, K) ==
    /\ EndsIn(q, w, K)
    /\ \A k \in Keys \ K : Silent(q, k) => m[k] = w[k]

\* A connected tab and the snapshots it waits for are sound on all they can be
\* counted on for.
TabSound(s) ==
    Connected(s) =>
        /\ Sound(InFlight(s), view[s], byKey, missed[s])
        /\ \A i \in Slots : gets[s][i].phase = "answered" =>
              Sound(InFlight(s), gets[s][i].snap, byKey, gets[s][i].since)

\* Request i of tab s has yet to bring a snapshot of this connection.
WillInform(s, i) ==
    \/ gets[s][i].phase = "asked"
    \/ gets[s][i].phase = "answered" /\ gets[s][i].fresh

\* A connection that has brought no snapshot has a sync message or a request
\* on its way.
Awaited(s) ==
    (handler[s] = "streaming" /\ informed[s] = "no") =>
        \/ \E j \in 1..Len(wire[s]) : wire[s][j].kind = "sync"
        \/ \E i \in Slots : WillInform(s, i)

IInvTab ==
    /\ TypeOKTab
    /\ Control
    /\ \A s \in Streams : TabSound(s)
    /\ \A s \in Streams : Awaited(s)

-----------------------------------------------------------------------------
(* Sound queues                                                            *)

\* Some index comes last.
LEMMA HasLast ==
    ASSUME NEW n \in Nat, NEW T \in SUBSET (1..n), T # {}
    PROVE  \E i \in T : \A j \in T : j <= i
<1> DEFINE R == OpToRel(<, Nat)
           U == {n - i : i \in T}
<1>1. U \subseteq Nat /\ U # {}
  <2>1. \A i \in T : n - i \in Nat
    OBVIOUS
  <2> QED BY <2>1
<1>2. IsWellFoundedOn(R, Nat)
  BY NatLessThanWellFounded
<1>3. \A x, y \in Nat : <<y, x>> \in R <=> y < x
  BY DEF OpToRel
<1> HIDE DEF R, U
<1>4. \E x \in U : \A y \in U : ~(<<y, x>> \in R)
  BY <1>1, <1>2, WFMin
<1>5. PICK x \in U : \A y \in U : ~(y < x)
  BY <1>1, <1>3, <1>4
<1>6. PICK i \in T : x = n - i
  BY DEF U
<1>7. ASSUME NEW j \in T PROVE j <= i
  <2>1. n - j \in U
    BY DEF U
  <2>2. ~(n - j < n - i)
    BY <2>1, <1>5, <1>6
  <2> QED BY <2>2
<1> QED BY <1>7

\* Messages about clusters are the ones with a key.
LEMMA KeyedMessages ==
    \A ev \in Messages :
        /\ ev.kind = "cluster" <=> ev \in ClusterEvents
        /\ ev.kind = "cluster" <=> ev.key \in Keys
        /\ ev.kind # "cluster" => ev = SyncMsg
BY CacheAssumption DEF Messages, ClusterEvents, SyncMsg

\* Reading a sound queue settles every key it can be counted on for.
LEMMA SoundSettles ==
    ASSUME NEW s, InFlight(s) \in Seq(Messages), NEW m, NEW w, NEW K,
           Sound(InFlight(s), m, w, K), NEW k \in Keys \ K
    PROVE  Settled(s, m, k) = w[k]
<1> DEFINE q == InFlight(s)
           about == {i \in 1..Len(q) : q[i].key = k}
<1>1. Len(q) \in Nat /\ q \in Seq(Messages)
  BY LenProperties
<1>2. CASE about = {}
  <2>1. Silent(q, k)
    BY <1>2 DEF Silent
  <2> QED BY <2>1, <1>2 DEF Settled, Sound
<1>3. CASE about # {}
  <2>1. \E i \in about : \A j \in about : j <= i
    BY <1>1, <1>3, HasLast
  <2> DEFINE n == CHOOSE i \in about : \A j \in about : j <= i
  <2>2. n \in about /\ \A j \in about : j <= n
    BY <2>1
  <2>3. Settled(s, m, k) = q[n].cluster
    BY <1>3 DEF Settled
  <2> HIDE DEF n
  <2>4. n \in 1..Len(q) /\ q[n].key = k /\ IsLast(q, n)
    BY <2>2, <1>1 DEF IsLast
  <2>5. q[n] \in Messages
    BY <2>4, <1>1, ElementOfSeq
  <2>6. q[n].kind = "cluster"
    BY <2>4, <2>5, KeyedMessages
  <2> QED BY <2>3, <2>4, <2>6 DEF Sound, EndsIn
<1> QED BY <1>2, <1>3

\* Fewer promises are easier to keep.
LEMMA SoundMore ==
    ASSUME NEW q, NEW m, NEW w, NEW K, NEW L, K \subseteq L, Sound(q, m, w, K)
    PROVE  Sound(q, m, w, L)
BY EndsInMore DEF Sound

\* What a longer queue is silent about.
LEMMA SilentAppend ==
    ASSUME NEW q \in Seq(Messages), NEW ev \in Messages, NEW k
    PROVE  Silent(Append(q, ev), k) <=> Silent(q, k) /\ ev.key # k
<1> DEFINE p == Append(q, ev)
<1>1. Len(q) \in Nat
  BY LenProperties
<1>2. /\ Len(p) = Len(q) + 1
      /\ \A i \in 1..Len(q) : p[i] = q[i]
      /\ p[Len(q) + 1] = ev
  BY AppendProperties
<1> HIDE DEF p
<1> QED BY <1>1, <1>2 DEF Silent, p

\* What the queue before it loses its head is silent about.
LEMMA SilentTail ==
    ASSUME NEW q \in Seq(Messages), q # <<>>, NEW k
    PROVE  Silent(q, k) <=> Silent(Tail(q), k) /\ Head(q).key # k
<1> DEFINE t == Tail(q)
<1>1. /\ Len(t) = Len(q) - 1
      /\ \A i \in 1..Len(t) : t[i] = q[i + 1]
  BY HeadTailProperties
<1>2. Len(q) \in Nat \ {0} /\ Head(q) = q[1]
  BY EmptySeq, LenProperties
<1> HIDE DEF t
<1>3. ASSUME Silent(t, k), Head(q).key # k, NEW i \in 1..Len(q)
      PROVE  q[i].key # k
  <2>1. CASE i = 1
    BY <2>1, <1>2, <1>3
  <2>2. CASE i # 1
    <3>1. i - 1 \in 1..Len(t) /\ (i - 1) + 1 = i
      BY <2>2, <1>1, <1>2
    <3> QED BY <3>1, <1>1, <1>3 DEF Silent
  <2> QED BY <2>1, <2>2
<1>4. ASSUME Silent(q, k) PROVE Silent(t, k) /\ Head(q).key # k
  BY <1>1, <1>2, <1>4 DEF Silent
<1> QED BY <1>3, <1>4 DEF Silent, t

\* Publishing an event: the queue gets it, the state has it.
LEMMA SoundPublish ==
    ASSUME NEW q \in Seq(Messages), NEW m, NEW w \in [Keys -> States],
           NEW K, NEW ev \in ClusterEvents, Sound(q, m, w, K)
    PROVE  Sound(Append(q, ev), m, [w EXCEPT ![ev.key] = ev.cluster], K)
<1>1. ev \in Messages
  BY DEF Messages
<1>2. EndsIn(Append(q, ev), [w EXCEPT ![ev.key] = ev.cluster], K)
  BY EndsInPublish DEF Sound
<1>3. \A k \in Keys \ K : Silent(Append(q, ev), k) =>
         m[k] = [w EXCEPT ![ev.key] = ev.cluster][k]
  BY <1>1, SilentAppend DEF Sound
<1> QED BY <1>2, <1>3 DEF Sound

\* An event that is sent can be counted on.
LEMMA SoundSent ==
    ASSUME NEW q \in Seq(Messages), NEW m, NEW w, NEW K, NEW ev \in ClusterEvents,
           w[ev.key] = ev.cluster, Sound(Append(q, ev), m, w, K)
    PROVE  Sound(Append(q, ev), m, w, K \ {ev.key})
<1>1. ev \in Messages
  BY DEF Messages
<1>2. EndsIn(Append(q, ev), w, K \ {ev.key})
  BY EndsInSent DEF Sound
<1>3. ~Silent(Append(q, ev), ev.key)
  BY <1>1, SilentAppend
<1> QED BY <1>2, <1>3 DEF Sound

\* One that is dropped leaves its key in doubt.
LEMMA SoundLose ==
    ASSUME NEW q \in Seq(Messages), NEW m, NEW w, NEW K, NEW ev \in Messages,
           Sound(Append(q, ev), m, w, K)
    PROVE  Sound(q, m, w, K \cup {ev.key})
<1>1. EndsIn(q, w, K \cup {ev.key})
  BY EndsInLose DEF Sound
<1>2. \A k \in Keys \ (K \cup {ev.key}) : Silent(q, k) => m[k] = w[k]
  BY SilentAppend DEF Sound
<1> QED BY <1>1, <1>2 DEF Sound

\* Replacing the state leaves what changed in doubt.
LEMMA SoundReset ==
    ASSUME NEW q \in Seq(Messages), NEW m, NEW w, NEW K, NEW x, NEW L,
           Sound(q, m, w, K), K \subseteq L, \A k \in Keys \ L : x[k] = w[k]
    PROVE  Sound(q, m, x, L)
<1>1. \A i \in 1..Len(q) : q[i].kind = "cluster" => q[i].key \in Keys
  <2>1. \A i \in 1..Len(q) : q[i] \in Messages
    BY ElementOfSeq
  <2> QED BY <2>1, KeyedMessages
<1>2. EndsIn(q, x, L)
  BY <1>1 DEF Sound, EndsIn
<1>3. \A k \in Keys \ L : Silent(q, k) => m[k] = x[k]
  BY DEF Sound
<1> QED BY <1>2, <1>3 DEF Sound

\* Applying the oldest message to the list the queue is for keeps it sound.
LEMMA SoundApply ==
    ASSUME NEW q \in Seq(Messages), q # <<>>, Head(q).kind = "cluster",
           NEW m \in [Keys -> States], NEW w, NEW K, Sound(q, m, w, K)
    PROVE  Sound(Tail(q), [m EXCEPT ![Head(q).key] = Head(q).cluster], w, K)
<1> DEFINE n == [m EXCEPT ![Head(q).key] = Head(q).cluster]
<1>1. EndsIn(Tail(q), w, K)
  BY EndsInTail DEF Sound
<1>2. ASSUME NEW k \in Keys \ K, Silent(Tail(q), k) PROVE n[k] = w[k]
  <2>1. CASE Head(q).key # k
    <3>1. Silent(q, k)
      BY <2>1, <1>2, SilentTail
    <3> QED BY <2>1, <3>1 DEF Sound
  <2>2. CASE Head(q).key = k
    <3> DEFINE t == Tail(q)
    <3>1. /\ Len(t) = Len(q) - 1
          /\ \A i \in 1..Len(t) : t[i] = q[i + 1]
      BY HeadTailProperties
    <3>2. Len(q) \in Nat \ {0} /\ Head(q) = q[1]
      BY EmptySeq, LenProperties
    <3>3. Silent(t, k)
      BY <1>2
    <3> HIDE DEF t
    <3>4. ASSUME NEW j \in 2..Len(q) PROVE q[j].key # k
      <4>1. j - 1 \in 1..Len(t) /\ (j - 1) + 1 = j
        BY <3>1, <3>2
      <4> QED BY <4>1, <3>1, <3>3 DEF Silent
    <3>5. IsLast(q, 1)
      BY <2>2, <3>2, <3>4 DEF IsLast
    <3>6. w[k] = Head(q).cluster
      BY <2>2, <3>2, <3>5 DEF Sound, EndsIn
    <3> QED BY <2>2, <3>6
  <2> QED BY <2>1, <2>2
<1> QED BY <1>1, <1>2 DEF Sound

\* Applying it to another list leaves its key in doubt.
LEMMA SoundPass ==
    ASSUME NEW q \in Seq(Messages), q # <<>>, NEW m, NEW w, NEW K, Sound(q, m, w, K)
    PROVE  Sound(Tail(q), m, w, K \cup {Head(q).key})
<1>1. EndsIn(Tail(q), w, K \cup {Head(q).key})
  BY EndsInTail, EndsInMore DEF Sound
<1>2. \A k \in Keys \ (K \cup {Head(q).key}) : Silent(Tail(q), k) => m[k] = w[k]
  BY SilentTail DEF Sound
<1> QED BY <1>1, <1>2 DEF Sound

\* A sync message says nothing of any key.
LEMMA SyncIsSilent ==
    ASSUME NEW q \in Seq(Messages), q # <<>>, Head(q).kind = "sync",
           NEW m, NEW w, NEW K, Sound(q, m, w, K)
    PROVE  Sound(Tail(q), m, w, K)
<1>1. Head(q) \in Messages
  BY HeadTailProperties
<1>2. Head(q).key \notin Keys
  BY <1>1, KeyedMessages
<1>3. EndsIn(Tail(q), w, K)
  BY EndsInTail DEF Sound
<1> QED BY <1>2, <1>3, SilentTail DEF Sound

\* Nor does one in front of the others.
LEMMA SoundSync ==
    ASSUME NEW q \in Seq(Messages), NEW m, NEW w, NEW K, Sound(q, m, w, K)
    PROVE  Sound(<<SyncMsg>> \o q, m, w, K)
<1> DEFINE p == <<SyncMsg>> \o q
<1>1. EndsIn(p, w, K)
  BY EndsInSync DEF Sound
<1>2. <<SyncMsg>> \in Seq(Messages) /\ Len(<<SyncMsg>>) = 1
  BY DEF Messages
<1>3. /\ Len(p) = Len(<<SyncMsg>>) + Len(q)
      /\ \A i \in 1..(Len(<<SyncMsg>>) + Len(q)) :
            p[i] = IF i <= Len(<<SyncMsg>>) THEN <<SyncMsg>>[i]
                                            ELSE q[i - Len(<<SyncMsg>>)]
  BY <1>2, ConcatProperties
<1>4. Len(q) \in Nat
  BY LenProperties
<1> HIDE DEF p
<1>5. ASSUME NEW k, Silent(p, k) PROVE Silent(q, k)
  <2> SUFFICES ASSUME NEW i \in 1..Len(q) PROVE q[i].key # k
    BY DEF Silent
  <2>1. i + 1 \in 1..(1 + Len(q)) /\ ~(i + 1 <= 1) /\ (i + 1) - 1 = i
    BY <1>4
  <2>2. p[i + 1] = q[i] /\ i + 1 \in 1..Len(p)
    BY <2>1, <1>2, <1>3
  <2> QED BY <2>2, <1>5 DEF Silent
<1> QED BY <1>1, <1>5 DEF Sound, p

\* A snapshot taken now is overtaken only by events that end elsewhere.
LEMMA SoundTaken ==
    ASSUME NEW q \in Seq(Messages), NEW m, NEW w, NEW K, Sound(q, m, w, K)
    PROVE  Sound(q, w, w, {k \in K : ~Silent(q, k)})
BY DEF Sound, EndsIn, Silent

-----------------------------------------------------------------------------
(* The tabs: the steps                                                     *)

\* Everything is in doubt.
LEMMA SoundOnNothing ==
    ASSUME NEW q \in Seq(Messages), NEW m, NEW w
    PROVE  Sound(q, m, w, Keys)
<1>1. \A i \in 1..Len(q) : q[i].kind = "cluster" => q[i].key \in Keys
  <2>1. \A i \in 1..Len(q) : q[i] \in Messages
    BY ElementOfSeq
  <2> QED BY <2>1, KeyedMessages
<1> QED BY <1>1 DEF Sound, EndsIn

\* The requests a tab can have.
LEMMA GetFacts ==
    /\ NoGet \in Gets /\ NoGet.phase = "free"
    /\ Asked \in Gets /\ Asked.phase = "asked"
    /\ \A g \in Gets :
          /\ g.phase \in {"free", "asked", "answered"} /\ g.snap \in [Keys -> States]
          /\ g.since \in SUBSET Keys /\ g.fresh \in BOOLEAN
<1>1. [k \in Keys |-> Absent] \in [Keys -> States]
  BY DEF States
<1> QED BY <1>1 DEF NoGet, Asked, Gets

LEMMA AnsweredFacts ==
    ASSUME NEW m \in [Keys -> States], NEW K \in SUBSET Keys, NEW b \in BOOLEAN
    PROVE  /\ Answered(m, K, b) \in Gets /\ Answered(m, K, b).phase = "answered"
           /\ Answered(m, K, b).snap = m /\ Answered(m, K, b).since = K
           /\ Answered(m, K, b).fresh = b
BY DEF Answered, Gets

LEMMA DoubtFacts ==
    ASSUME NEW g \in Gets, NEW K \in SUBSET Keys
    PROVE  /\ [g EXCEPT !.since = K] \in Gets
           /\ [g EXCEPT !.since = K].phase = g.phase
           /\ [g EXCEPT !.since = K].snap = g.snap
           /\ [g EXCEPT !.since = K].since = K
           /\ [g EXCEPT !.since = K].fresh = g.fresh
BY DEF Gets

\* Distrusting and trusting change nothing of a request but its doubts.
LEMMA DistrustFacts ==
    ASSUME gets \in [Streams -> [Slots -> Gets]], NEW s \in Streams,
           NEW K \in SUBSET Keys
    PROVE  /\ Distrust(s, K) \in [Slots -> Gets]
           /\ \A i \in Slots :
                 /\ Distrust(s, K)[i].phase = gets[s][i].phase
                 /\ Distrust(s, K)[i].snap = gets[s][i].snap
                 /\ Distrust(s, K)[i].fresh = gets[s][i].fresh
                 /\ gets[s][i].phase = "answered" =>
                       Distrust(s, K)[i].since = gets[s][i].since \cup K
<1>1. ASSUME NEW i \in Slots
      PROVE  /\ Distrust(s, K)[i] \in Gets
             /\ Distrust(s, K)[i].phase = gets[s][i].phase
             /\ Distrust(s, K)[i].snap = gets[s][i].snap
             /\ Distrust(s, K)[i].fresh = gets[s][i].fresh
             /\ gets[s][i].phase = "answered" =>
                   Distrust(s, K)[i].since = gets[s][i].since \cup K
  <2> DEFINE g == gets[s][i]
             L == g.since \cup K
  <2>1. g \in Gets /\ L \in SUBSET Keys
    BY GetFacts
  <2>2. Distrust(s, K)[i] = IF g.phase = "answered" THEN [g EXCEPT !.since = L] ELSE g
    BY DEF Distrust
  <2> HIDE DEF L, g
  <2> DEFINE h == [g EXCEPT !.since = L]
  <2>3. /\ h \in Gets /\ h.phase = g.phase /\ h.snap = g.snap /\ h.fresh = g.fresh
        /\ h.since = L
    BY <2>1, DoubtFacts
  <2> HIDE DEF h
  <2>4. /\ Distrust(s, K)[i] \in Gets /\ Distrust(s, K)[i].phase = g.phase
        /\ Distrust(s, K)[i].snap = g.snap /\ Distrust(s, K)[i].fresh = g.fresh
        /\ g.phase = "answered" => Distrust(s, K)[i].since = L
    BY <2>1, <2>2, <2>3 DEF h
  <2> QED BY <2>4 DEF g, L
<1>2. Distrust(s, K) \in [Slots -> Gets]
  BY <1>1 DEF Distrust
<1> QED BY <1>1, <1>2

LEMMA TrustFacts ==
    ASSUME gets \in [Streams -> [Slots -> Gets]], NEW s \in Streams, NEW k \in Keys
    PROVE  /\ Trust(s, k) \in [Slots -> Gets]
           /\ \A i \in Slots :
                 /\ Trust(s, k)[i].phase = gets[s][i].phase
                 /\ Trust(s, k)[i].snap = gets[s][i].snap
                 /\ Trust(s, k)[i].fresh = gets[s][i].fresh
                 /\ Trust(s, k)[i].since = gets[s][i].since \ {k}
<1>1. ASSUME NEW i \in Slots
      PROVE  /\ Trust(s, k)[i] \in Gets
             /\ Trust(s, k)[i].phase = gets[s][i].phase
             /\ Trust(s, k)[i].snap = gets[s][i].snap
             /\ Trust(s, k)[i].fresh = gets[s][i].fresh
             /\ Trust(s, k)[i].since = gets[s][i].since \ {k}
  <2> DEFINE g == gets[s][i]
             L == g.since \ {k}
  <2>1. g \in Gets /\ L \in SUBSET Keys
    BY GetFacts
  <2>2. Trust(s, k)[i] = [g EXCEPT !.since = L]
    BY DEF Trust
  <2> HIDE DEF L, g
  <2> DEFINE h == [g EXCEPT !.since = L]
  <2>3. /\ h \in Gets /\ h.phase = g.phase /\ h.snap = g.snap /\ h.fresh = g.fresh
        /\ h.since = L
    BY <2>1, DoubtFacts
  <2> HIDE DEF h
  <2>4. /\ Trust(s, k)[i] \in Gets /\ Trust(s, k)[i].phase = g.phase
        /\ Trust(s, k)[i].snap = g.snap /\ Trust(s, k)[i].fresh = g.fresh
        /\ Trust(s, k)[i].since = L
    BY <2>1, <2>2, <2>3 DEF h
  <2> QED BY <2>4 DEF g, L
<1>2. Trust(s, k) \in [Slots -> Gets]
  BY <1>1 DEF Trust
<1> QED BY <1>1, <1>2

\* What the steps start from.
LEMMA TabsTyped ==
    ASSUME IInvTab
    PROVE  /\ Control /\ TypeOK /\ TypeOKTab /\ byKey \in [Keys -> States]
           /\ gets \in [Streams -> [Slots -> Gets]]
           /\ \A s \in Streams :
                 /\ view[s] \in [Keys -> States] /\ gets[s] \in [Slots -> Gets]
                 /\ missed[s] \in SUBSET Keys /\ InFlight(s) \in Seq(Messages)
                 /\ \A i \in Slots : gets[s][i] \in Gets
<1>1. Control /\ TypeOK /\ TypeOKTab /\ MutexHeldWithEvent
  BY DEF IInvTab, Control
<1>2. \A s \in Streams : InFlight(s) \in Seq(Messages)
  BY <1>1, QueueTyped
<1> QED BY <1>1, <1>2 DEF TypeOK, TypeOKTab

\* A tab none of whose state a step touches.
LEMMA TabUntouched ==
    ASSUME IInvTab, NEW t \in Streams, byKey' = byKey, InFlight(t)' = InFlight(t),
           handler'[t] = handler[t], wire'[t] = wire[t], missed'[t] = missed[t],
           view'[t] = view[t], gets'[t] = gets[t], informed'[t] = informed[t]
    PROVE  TabSound(t)' /\ Awaited(t)'
<1>1. TabSound(t) /\ Awaited(t)
  BY DEF IInvTab
<1>2. TabSound(t)'
  BY <1>1 DEF TabSound, Connected
<1>3. Awaited(t)'
  BY <1>1 DEF Awaited, WillInform
<1> QED BY <1>2, <1>3

\* A step that keeps the sync message and the requests on their way.
LEMMA AwaitedKept ==
    ASSUME IInvTab, NEW t \in Streams,
           handler'[t] = "streaming" => handler[t] = "streaming",
           informed'[t] = "no" => informed[t] = "no",
           (\E j \in 1..Len(wire[t]) : wire[t][j].kind = "sync") =>
              \E j \in 1..Len(wire'[t]) : wire'[t][j].kind = "sync",
           \A i \in Slots : gets'[t][i].phase = gets[t][i].phase
                            /\ gets'[t][i].fresh = gets[t][i].fresh
    PROVE  Awaited(t)'
BY DEF IInvTab, Awaited, WillInform

\* The parts of the invariant.
LEMMA TabInvFrom ==
    ASSUME Control', view' \in [Streams -> [Keys -> States]],
           gets' \in [Streams -> [Slots -> Gets]],
           loadErr' \in [Streams -> BOOLEAN],
           informed' \in [Streams -> {"no", "failed", "yes"}],
           \A t \in Streams : TabSound(t)' /\ Awaited(t)'
    PROVE  IInvTab'
<1>1. TypeOKTab'
  BY DEF TypeOKTab, Control
<1>2. (\A t \in Streams : TabSound(t))' /\ (\A t \in Streams : Awaited(t))'
  OBVIOUS
<1> QED BY <1>1, <1>2 DEF IInvTab

LEMMA InitTabEstablishes == InitTab => IInvTab
<1> SUFFICES ASSUME InitTab PROVE IInvTab
  OBVIOUS
<1>1. Control
  BY InitEstablishes DEF InitTab, IInv
<1>2. TypeOKTab
  BY <1>1, GetFacts DEF InitTab, TypeOKTab, Control, States
<1>3. \A s \in Streams : ~Connected(s) /\ handler[s] # "streaming"
  BY DEF InitTab, Init, Connected
<1> QED BY <1>1, <1>2, <1>3 DEF IInvTab, TabSound, Awaited

\* The cache is replaced: what changed is in doubt at every tab.
LEMMA ReplaceAllTabKeeps ==
    ASSUME IInvTab, NEW listed \in [Keys -> States], ReplaceAllTab(listed)
    PROVE  IInvTab'
<1> DEFINE D == {k \in Keys : listed[k] # byKey[k]}
<1>1. /\ Control /\ gets \in [Streams -> [Slots -> Gets]]
      /\ \A s \in Streams : InFlight(s) \in Seq(Messages)
      /\ view \in [Streams -> [Keys -> States]] /\ loadErr \in [Streams -> BOOLEAN]
      /\ informed \in [Streams -> {"no", "failed", "yes"}]
  BY TabsTyped DEF TypeOKTab
<1>2. /\ byKey' = listed /\ \A s \in Streams : missed'[s] = missed[s] \cup D
      /\ \A s \in Streams : gets'[s] = Distrust(s, D)
      /\ gets' = [s \in Streams |-> Distrust(s, D)]
      /\ UNCHANGED <<subs, chan, todo, event, handler, wire, view, loadErr, informed>>
  BY DEF ReplaceAllTab, ReplaceAll
<1>3. Control'
  BY <1>1, ControlPreserved DEF ReplaceAllTab, Next
<1>4. D \in SUBSET Keys /\ \A k \in Keys \ D : byKey'[k] = byKey[k]
  BY <1>2
<1> HIDE DEF D
<1>5. ASSUME NEW t \in Streams PROVE TabSound(t)' /\ Awaited(t)'
  <2>1. /\ \A i \in Slots :
              /\ gets'[t][i].phase = gets[t][i].phase
              /\ gets'[t][i].snap = gets[t][i].snap
              /\ gets'[t][i].fresh = gets[t][i].fresh
              /\ gets[t][i].phase = "answered" => gets'[t][i].since = gets[t][i].since \cup D
    BY <1>1, <1>2, <1>4, DistrustFacts
  <2>2. InFlight(t)' = InFlight(t)
    BY <1>2, KeptQueue DEF Pending
  <2>3. \A m, K : Sound(InFlight(t), m, byKey, K) => Sound(InFlight(t), m, byKey', K \cup D)
    <3> SUFFICES ASSUME NEW m, NEW K, Sound(InFlight(t), m, byKey, K)
                 PROVE  Sound(InFlight(t), m, byKey', K \cup D)
      OBVIOUS
    <3>1. K \subseteq K \cup D /\ \A k \in Keys \ (K \cup D) : byKey'[k] = byKey[k]
      BY <1>4
    <3>2. \A q \in Seq(Messages) : \A w, x, L : (Sound(q, m, w, K) /\ K \subseteq L
             /\ \A k \in Keys \ L : x[k] = w[k]) => Sound(q, m, x, L)
      BY SoundReset
    <3> QED BY <3>1, <3>2, <1>1
  <2>4. TabSound(t)'
    <3>1. ASSUME Connected(t)
          PROVE  /\ Sound(InFlight(t), view[t], byKey', missed'[t])
                 /\ \A i \in Slots : gets[t][i].phase = "answered" =>
                       Sound(InFlight(t), gets[t][i].snap, byKey', gets'[t][i].since)
      BY <3>1, <1>2, <2>1, <2>3 DEF IInvTab, TabSound
    <3> QED BY <3>1, <1>2, <2>1, <2>2 DEF TabSound, Connected
  <2>5. Awaited(t)'
    BY <1>2, <2>1, AwaitedKept
  <2> QED BY <2>4, <2>5
<1>6. gets' \in [Streams -> [Slots -> Gets]]
  BY <1>1, <1>2, <1>4, DistrustFacts
<1> QED BY <1>1, <1>2, <1>3, <1>5, <1>6, TabInvFrom

\* An event is published: it is in flight to every tab that is connected.
LEMMA ApplyEventKeeps ==
    ASSUME IInvTab, NEW ev \in ClusterEvents \cup {ErrorEvent}, ApplyEvent(ev),
           UNCHANGED tabVars
    PROVE  IInvTab'
<1>1. /\ Control /\ TypeOK /\ HandlersSubscribed /\ byKey \in [Keys -> States]
      /\ gets \in [Streams -> [Slots -> Gets]]
      /\ \A s \in Streams : InFlight(s) \in Seq(Messages)
      /\ view \in [Streams -> [Keys -> States]] /\ loadErr \in [Streams -> BOOLEAN]
      /\ informed \in [Streams -> {"no", "failed", "yes"}]
  BY TabsTyped DEF TypeOKTab, Control
<1>2. UNCHANGED <<view, gets, loadErr, informed>>
  BY DEF tabVars
<1>3. Control'
  BY <1>1, ControlPreserved DEF Next
<1>4. ASSUME NEW t \in Streams PROVE TabSound(t)' /\ Awaited(t)'
  <2>1. CASE ev = ErrorEvent
    <3>1. UNCHANGED vars
      BY <2>1 DEF ApplyEvent, ErrorEvent
    <3>2. InFlight(t)' = InFlight(t)
      BY <3>1, KeptQueue DEF vars, Pending
    <3> QED BY <3>1, <3>2, <1>2, TabUntouched DEF vars
  <2>2. CASE ev \in ClusterEvents
    <3>1. /\ byKey' = [byKey EXCEPT ![ev.key] = ev.cluster]
          /\ UNCHANGED <<subs, chan, handler, wire, missed>>
      BY <2>2, EventFacts DEF ApplyEvent
    <3>2. t \in subs => InFlight(t)' = Append(InFlight(t), ev)
      BY <2>2, <1>1, ApplyEventQueue
    <3>3. Connected(t) => t \in subs
      BY <1>1 DEF Connected, HandlersSubscribed
    <3>4. \A m, K : Sound(InFlight(t), m, byKey, K) =>
             Sound(Append(InFlight(t), ev), m, byKey', K)
      BY <2>2, <3>1, <1>1, SoundPublish
    <3>5. TabSound(t)'
      BY <3>1, <3>2, <3>3, <3>4, <1>2 DEF IInvTab, TabSound, Connected
    <3>6. Awaited(t)'
      BY <3>1, <1>2, AwaitedKept
    <3> QED BY <3>5, <3>6
  <2> QED BY <2>1, <2>2
<1> QED BY <1>1, <1>2, <1>3, <1>4, TabInvFrom

\* One turn of the fan-out: an event that is sent can be counted on, one that
\* is dropped cannot.
LEMMA FanOutTabKeeps ==
    ASSUME IInvTab, NEW s \in Streams, FanOutTab(s)
    PROVE  IInvTab'
<1>1. /\ Control /\ TypeOK /\ gets \in [Streams -> [Slots -> Gets]]
      /\ view \in [Streams -> [Keys -> States]] /\ loadErr \in [Streams -> BOOLEAN]
      /\ informed \in [Streams -> {"no", "failed", "yes"}]
  BY TabsTyped DEF TypeOKTab
<1>2. /\ FanOut(s) /\ UNCHANGED <<byKey, handler, wire, view, loadErr, informed>>
      /\ gets' = [gets EXCEPT ![s] =
                    IF event.key \in missed'[s] THEN Distrust(s, {event.key})
                                                ELSE Trust(s, event.key)]
  BY DEF FanOutTab, FanOut
<1> DEFINE q == wire[s] \o chan[s]
<1>3. /\ event \in ClusterEvents /\ byKey[event.key] = event.cluster
      /\ q \in Seq(Messages) /\ InFlight(s) = Append(q, event)
      /\ Len(chan[s]) < ChanCap => /\ InFlight(s)' = InFlight(s)
                                   /\ missed'[s] = missed[s] \ {event.key}
      /\ ~(Len(chan[s]) < ChanCap) => /\ InFlight(s)' = q
                                      /\ missed'[s] = missed[s] \cup {event.key}
      /\ \A t \in Streams : t # s =>
            /\ wire'[t] = wire[t] /\ chan'[t] = chan[t]
            /\ Pending(t)' = Pending(t) /\ missed'[t] = missed[t]
  BY <1>1, <1>2, FanOutQueue
<1> HIDE DEF q
<1>4. Control'
  BY <1>1, <1>2, ControlPreserved DEF Next
<1>5. event \in Messages /\ event.key \in Keys
  BY <1>3, EventFacts DEF Messages
<1> DEFINE less == Trust(s, event.key)
           more == Distrust(s, {event.key})
<1>6. /\ less \in [Slots -> Gets]
      /\ \A i \in Slots : /\ less[i].phase = gets[s][i].phase
                          /\ less[i].snap = gets[s][i].snap
                          /\ less[i].fresh = gets[s][i].fresh
                          /\ less[i].since = gets[s][i].since \ {event.key}
  BY <1>1, <1>5, TrustFacts
<1>7. /\ more \in [Slots -> Gets]
      /\ \A i \in Slots : /\ more[i].phase = gets[s][i].phase
                          /\ more[i].snap = gets[s][i].snap
                          /\ more[i].fresh = gets[s][i].fresh
                          /\ gets[s][i].phase = "answered" =>
                                more[i].since = gets[s][i].since \cup {event.key}
  <2>1. {event.key} \in SUBSET Keys
    BY <1>5
  <2> QED BY <2>1, <1>1, DistrustFacts
<1>8. /\ Len(chan[s]) < ChanCap => gets'[s] = less
      /\ ~(Len(chan[s]) < ChanCap) => gets'[s] = more
      /\ \A t \in Streams : t # s => gets'[t] = gets[t]
      /\ gets' = [gets EXCEPT ![s] = less] \/ gets' = [gets EXCEPT ![s] = more]
  BY <1>1, <1>2, <1>3
<1> HIDE DEF less, more
<1>9. gets' \in [Streams -> [Slots -> Gets]]
  BY <1>1, <1>6, <1>7, <1>8
<1>10. TabSound(s)'
  <2> SUFFICES ASSUME Connected(s)'
               PROVE  /\ Sound(InFlight(s)', view[s], byKey, missed'[s])
                      /\ \A i \in Slots : gets'[s][i].phase = "answered" =>
                            Sound(InFlight(s)', gets'[s][i].snap, byKey, gets'[s][i].since)
    BY <1>2 DEF TabSound
  <2>1. /\ Sound(Append(q, event), view[s], byKey, missed[s])
        /\ \A i \in Slots : gets[s][i].phase = "answered" =>
              Sound(Append(q, event), gets[s][i].snap, byKey, gets[s][i].since)
    BY <1>2, <1>3 DEF IInvTab, TabSound, Connected
  <2>2. CASE Len(chan[s]) < ChanCap
    <3>1. \A m, K : Sound(Append(q, event), m, byKey, K) =>
             Sound(Append(q, event), m, byKey, K \ {event.key})
      BY <1>3, SoundSent
    <3>2. /\ gets'[s] = less /\ InFlight(s)' = Append(q, event)
          /\ missed'[s] = missed[s] \ {event.key}
      BY <2>2, <1>3, <1>8
    <3> QED BY <3>1, <3>2, <2>1, <1>6
  <2>3. CASE ~(Len(chan[s]) < ChanCap)
    <3>1. \A m, K : Sound(Append(q, event), m, byKey, K) =>
             Sound(q, m, byKey, K \cup {event.key})
      BY <1>3, <1>5, SoundLose
    <3>2. gets'[s] = more /\ InFlight(s)' = q /\ missed'[s] = missed[s] \cup {event.key}
      BY <2>3, <1>3, <1>8
    <3> QED BY <3>1, <3>2, <2>1, <1>7
  <2> QED BY <2>2, <2>3
<1>11. Awaited(s)'
  BY <1>2, <1>6, <1>7, <1>8, AwaitedKept
<1>12. ASSUME NEW t \in Streams, t # s PROVE TabSound(t)' /\ Awaited(t)'
  <2>1. InFlight(t)' = InFlight(t)
    BY <1>3, <1>12, KeptQueue
  <2> QED BY <2>1, <1>2, <1>3, <1>8, <1>12, TabUntouched
<1> QED BY <1>1, <1>2, <1>4, <1>9, <1>10, <1>11, <1>12, TabInvFrom

\* What is in flight is a queue of messages, and stays one.
LEMMA FlightTyped == Control => \A t \in Streams : InFlight(t) \in Seq(Messages)
BY QueueTyped DEF Control

LEMMA FlightTypedNext == (Control => \A t \in Streams : InFlight(t) \in Seq(Messages))'
BY FlightTyped, PTL

\* A new connection: everything is in doubt.
LEMMA SubscribeTabKeeps ==
    ASSUME IInvTab, NEW s \in Streams, SubscribeTab(s)
    PROVE  IInvTab'
<1>1. /\ Control /\ TypeOK /\ gets \in [Streams -> [Slots -> Gets]]
      /\ view \in [Streams -> [Keys -> States]] /\ loadErr \in [Streams -> BOOLEAN]
      /\ informed \in [Streams -> {"no", "failed", "yes"}]
  BY TabsTyped DEF TypeOKTab
<1> DEFINE D == Distrust(s, Keys)
           G == [i \in Slots |-> [D[i] EXCEPT !.fresh = FALSE]]
<1>2. /\ gets' = [gets EXCEPT ![s] = G] /\ informed' = [informed EXCEPT ![s] = "no"]
      /\ handler' = [handler EXCEPT ![s] = "subscribed"]
      /\ chan' = [chan EXCEPT ![s] = <<>>] /\ missed' = [missed EXCEPT ![s] = Keys]
      /\ UNCHANGED <<view, loadErr, byKey, wire, todo, event>>
  BY DEF SubscribeTab, Subscribe
<1>3. Control'
  BY <1>1, ControlPreserved DEF SubscribeTab, Next, StreamStep
<1>4. /\ D \in [Slots -> Gets]
      /\ \A i \in Slots : /\ D[i].phase = gets[s][i].phase
                          /\ gets[s][i].phase = "answered" => D[i].since = Keys
  <2>1. Keys \in SUBSET Keys /\ \A i \in Slots : gets[s][i].since \in SUBSET Keys
    BY <1>1, GetFacts
  <2>2. \A i \in Slots : gets[s][i].since \cup Keys = Keys
    BY <2>1
  <2>3. /\ D \in [Slots -> Gets]
        /\ \A i \in Slots : /\ D[i].phase = gets[s][i].phase
                            /\ gets[s][i].phase = "answered" =>
                                  D[i].since = gets[s][i].since \cup Keys
    BY <2>1, <1>1, DistrustFacts
  <2> HIDE DEF D
  <2> QED BY <2>2, <2>3
<1> HIDE DEF D
<1>5. ASSUME NEW i \in Slots
      PROVE  /\ G[i] \in Gets /\ G[i].phase = gets[s][i].phase
             /\ G[i].since = D[i].since /\ G[i].snap = D[i].snap
  <2>1. D[i] \in Gets
    BY <1>4
  <2> DEFINE g == D[i]
             h == [g EXCEPT !.fresh = FALSE]
  <2>2. \A d \in Gets : /\ [d EXCEPT !.fresh = FALSE] \in Gets
                        /\ [d EXCEPT !.fresh = FALSE].phase = d.phase
                        /\ [d EXCEPT !.fresh = FALSE].since = d.since
                        /\ [d EXCEPT !.fresh = FALSE].snap = d.snap
    BY DEF Gets
  <2>3. G[i] = h /\ h \in Gets /\ h.phase = g.phase /\ h.since = g.since
        /\ h.snap = g.snap
    BY <2>1, <2>2
  <2> QED BY <2>3, <1>4
<1>6. G \in [Slots -> Gets]
  BY <1>5
<1> HIDE DEF G
<1>7. gets' \in [Streams -> [Slots -> Gets]] /\ gets'[s] = G
      /\ \A t \in Streams : t # s => gets'[t] = gets[t]
  BY <1>1, <1>2, <1>6
<1>8. TabSound(s)'
  <2>2. InFlight(s)' \in Seq(Messages)
    BY <1>3, FlightTypedNext
  <2>3. missed'[s] = Keys
    BY <1>1, <1>2 DEF TypeOK
  <2>4. \A i \in Slots : gets'[s][i].phase = "answered" => gets'[s][i].since = Keys
    BY <1>4, <1>5, <1>7
  <2>5. \A m : Sound(InFlight(s)', m, byKey', Keys)
    BY <2>2, SoundOnNothing
  <2>6. /\ Sound(InFlight(s)', view'[s], byKey', missed'[s])
        /\ \A i \in Slots : gets'[s][i].phase = "answered" =>
              Sound(InFlight(s)', gets'[s][i].snap, byKey', gets'[s][i].since)
    BY <2>3, <2>4, <2>5
  <2> QED BY <2>6 DEF TabSound
<1>9. Awaited(s)'
  <2>1. handler'[s] = "subscribed"
    BY <1>1, <1>2 DEF TypeOK
  <2> QED BY <2>1 DEF Awaited
<1>10. ASSUME NEW t \in Streams, t # s PROVE TabSound(t)' /\ Awaited(t)'
  <2>1. /\ chan'[t] = chan[t] /\ missed'[t] = missed[t] /\ handler'[t] = handler[t]
        /\ Pending(t)' = Pending(t) /\ informed'[t] = informed[t]
    BY <1>1, <1>2, <1>10 DEF TypeOK, Pending
  <2>2. InFlight(t)' = InFlight(t)
    BY <2>1, <1>2, KeptQueue
  <2> QED BY <2>1, <2>2, <1>2, <1>7, <1>10, TabUntouched
<1> QED BY <1>1, <1>2, <1>3, <1>7, <1>8, <1>9, <1>10, TabInvFrom

\* The other steps of a handler leave the tab's requests alone.
LEMMA HandlerTabKeeps ==
    ASSUME IInvTab, NEW s \in Streams, HandlerTab(s)
    PROVE  IInvTab'
<1>1. /\ Control /\ TypeOK /\ WiresOpen /\ gets \in [Streams -> [Slots -> Gets]]
      /\ \A t \in Streams : InFlight(t) \in Seq(Messages)
      /\ view \in [Streams -> [Keys -> States]] /\ loadErr \in [Streams -> BOOLEAN]
      /\ informed \in [Streams -> {"no", "failed", "yes"}]
  BY TabsTyped DEF TypeOKTab, Control
<1>2. UNCHANGED <<view, gets, loadErr, informed, byKey, todo, event>>
  BY DEF HandlerTab, tabVars, WriteSync, WriteEvent, Disconnect, DrainToNowhere, Return
<1>3. Control'
  BY <1>1, ControlPreserved DEF HandlerTab, Next, StreamStep
<1>4. TabSound(s) /\ Awaited(s)
  BY DEF IInvTab
<1>5. ASSUME WriteSync(s) PROVE TabSound(s)' /\ Awaited(s)'
  <2>1. /\ handler[s] = "subscribed" /\ handler'[s] = "streaming" /\ missed' = missed
    BY <1>1, <1>5 DEF WriteSync, TypeOK
  <2>2. wire'[s] = <<SyncMsg>> /\ InFlight(s)' = <<SyncMsg>> \o InFlight(s)
    BY <1>1, <1>5, WriteSyncQueue
  <2>3. \A m, K : Sound(InFlight(s), m, byKey, K) =>
           Sound(<<SyncMsg>> \o InFlight(s), m, byKey, K)
    BY <1>1, SoundSync
  <2>4. TabSound(s)'
    BY <2>1, <2>2, <2>3, <1>2, <1>4 DEF TabSound, Connected
  <2>5. Awaited(s)'
    <3>1. 1 \in 1..Len(wire'[s]) /\ wire'[s][1].kind = "sync"
      BY <2>2 DEF SyncMsg
    <3> QED BY <3>1 DEF Awaited
  <2> QED BY <2>4, <2>5
<1>6. ASSUME WriteEvent(s) PROVE TabSound(s)' /\ Awaited(s)'
  <2>1. handler[s] = "streaming" /\ handler' = handler /\ missed' = missed
    BY <1>6 DEF WriteEvent
  <2>2. InFlight(s)' = InFlight(s)
    BY <1>1, <1>6, WriteEventQueue
  <2>3. TabSound(s)'
    BY <2>1, <2>2, <1>2, <1>4 DEF TabSound, Connected
  <2>4. ASSUME NEW j \in 1..Len(wire[s]), wire[s][j].kind = "sync"
        PROVE  j \in 1..Len(wire'[s]) /\ wire'[s][j].kind = "sync"
    <3>1. wire[s] \in Seq(Messages) /\ chan[s] \in Seq(Messages) /\ chan[s] # <<>>
          /\ wire'[s] = Append(wire[s], Head(chan[s]))
      BY <1>1, <1>6, QueueTyped DEF WriteEvent, TypeOK, Control
    <3>2. /\ Len(wire'[s]) = Len(wire[s]) + 1 /\ Len(wire[s]) \in Nat
          /\ \A i \in 1..Len(wire[s]) : wire'[s][i] = wire[s][i]
      BY <3>1, HeadTailProperties, AppendProperties, LenProperties
    <3> QED BY <3>2, <2>4
  <2>5. Awaited(s)'
    BY <2>1, <2>4, <1>2, AwaitedKept
  <2> QED BY <2>3, <2>5
<1>7. ASSUME Disconnect(s) \/ DrainToNowhere(s) \/ Return(s)
      PROVE  TabSound(s)' /\ Awaited(s)'
  <2>1. handler'[s] \in {"gone", "idle"}
    BY <1>1, <1>7 DEF Disconnect, DrainToNowhere, Return, TypeOK
  <2> QED BY <2>1 DEF TabSound, Connected, Awaited
<1>8. ASSUME NEW t \in Streams, t # s PROVE TabSound(t)' /\ Awaited(t)'
  <2>1. /\ chan'[t] = chan[t] /\ missed'[t] = missed[t] /\ handler'[t] = handler[t]
        /\ wire'[t] = wire[t]
    BY <1>1, <1>8 DEF HandlerTab, WriteSync, WriteEvent, Disconnect, DrainToNowhere,
                      Return, TypeOK
  <2>2. InFlight(t)' = InFlight(t)
    BY <2>1, <1>2, KeptQueue DEF Pending
  <2> QED BY <2>1, <2>2, <1>2, TabUntouched
<1>9. TabSound(s)' /\ Awaited(s)'
  BY <1>5, <1>6, <1>7 DEF HandlerTab
<1> QED BY <1>1, <1>2, <1>3, <1>8, <1>9, TabInvFrom

\* Steps that leave the server and the connections alone.
LEMMA ServerUntouched ==
    ASSUME IInvTab, UNCHANGED vars
    PROVE  Control' /\ \A t \in Streams : InFlight(t)' = InFlight(t)
<1>1. Control'
  BY ControlPreserved DEF IInvTab
<1>2. \A t \in Streams : InFlight(t)' = InFlight(t)
  BY KeptQueue DEF vars, Pending
<1> QED BY <1>1, <1>2

\* The server answers: the snapshot is overtaken only by what is in flight
\* and cannot be counted on.
LEMMA AnswerKeeps ==
    ASSUME IInvTab, NEW s \in Streams, NEW i \in Slots, Answer(s, i)
    PROVE  IInvTab'
<1>1. /\ Control /\ byKey \in [Keys -> States] /\ gets \in [Streams -> [Slots -> Gets]]
      /\ missed[s] \in SUBSET Keys /\ InFlight(s) \in Seq(Messages)
      /\ view \in [Streams -> [Keys -> States]] /\ loadErr \in [Streams -> BOOLEAN]
      /\ informed \in [Streams -> {"no", "failed", "yes"}]
  BY TabsTyped DEF TypeOKTab
<1> DEFINE K == {k \in missed[s] : ~Silent(InFlight(s), k)}
           g == Answered(byKey, K, Connected(s))
<1>2. /\ gets[s][i].phase = "asked" /\ UNCHANGED <<vars, view, loadErr, informed>>
      /\ gets' = [gets EXCEPT ![s][i] = g]
  <2>1. K = {k \in missed[s] : \E j \in 1..Len(InFlight(s)) : InFlight(s)[j].key = k}
    BY DEF Silent
  <2> QED BY <2>1, GetFacts DEF Answer
<1>3. Control' /\ \A t \in Streams : InFlight(t)' = InFlight(t)
  BY <1>2, ServerUntouched
<1>4. /\ g \in Gets /\ g.phase = "answered" /\ g.snap = byKey /\ g.since = K
      /\ g.fresh = Connected(s)
  <2>1. K \in SUBSET Keys /\ Connected(s) \in BOOLEAN
    BY <1>1 DEF Connected
  <2> HIDE DEF K
  <2> QED BY <2>1, <1>1, AnsweredFacts
<1> HIDE DEF g
<1>5. /\ gets' \in [Streams -> [Slots -> Gets]] /\ gets'[s][i] = g
      /\ \A j \in Slots : j # i => gets'[s][j] = gets[s][j]
      /\ \A t \in Streams : t # s => gets'[t] = gets[t]
  BY <1>1, <1>2, <1>4
<1>6. TabSound(s)'
  <2> SUFFICES ASSUME Connected(s)
               PROVE  /\ Sound(InFlight(s), view[s], byKey, missed[s])
                      /\ \A j \in Slots : gets'[s][j].phase = "answered" =>
                            Sound(InFlight(s), gets'[s][j].snap, byKey, gets'[s][j].since)
    BY <1>2, <1>3 DEF TabSound, Connected, vars
  <2>1. /\ Sound(InFlight(s), view[s], byKey, missed[s])
        /\ \A j \in Slots : gets[s][j].phase = "answered" =>
              Sound(InFlight(s), gets[s][j].snap, byKey, gets[s][j].since)
    BY DEF IInvTab, TabSound
  <2>2. Sound(InFlight(s), byKey, byKey, K)
    <3>1. \A q \in Seq(Messages) : \A m, w, L : Sound(q, m, w, L) =>
             Sound(q, w, w, {k \in L : ~Silent(q, k)})
      BY SoundTaken
    <3> QED BY <3>1, <2>1, <1>1
  <2> HIDE DEF K
  <2>3. ASSUME NEW j \in Slots, gets'[s][j].phase = "answered"
        PROVE  Sound(InFlight(s), gets'[s][j].snap, byKey, gets'[s][j].since)
    BY <2>1, <2>2, <2>3, <1>4, <1>5
  <2> QED BY <2>1, <2>3
<1>7. Awaited(s)'
  <2> SUFFICES ASSUME handler[s] = "streaming", informed[s] = "no"
               PROVE  \/ \E j \in 1..Len(wire[s]) : wire[s][j].kind = "sync"
                      \/ \E j \in Slots : WillInform(s, j)'
    BY <1>2 DEF Awaited, vars
  <2>1. WillInform(s, i)'
    BY <1>4, <1>5 DEF WillInform, Connected
  <2> QED BY <2>1
<1>8. ASSUME NEW t \in Streams, t # s PROVE TabSound(t)' /\ Awaited(t)'
  BY <1>2, <1>3, <1>5, <1>8, TabUntouched DEF vars
<1> QED BY <1>1, <1>2, <1>3, <1>5, <1>6, <1>7, <1>8, TabInvFrom

\* Asking once more promises a snapshot of this connection.
LEMMA AskFacts ==
    ASSUME gets \in [Streams -> [Slots -> Gets]], NEW s \in Streams,
           \E i \in Slots : Ask(s, i)
    PROVE  /\ gets' \in [Streams -> [Slots -> Gets]]
           /\ \A t \in Streams : t # s => gets'[t] = gets[t]
           /\ \A j \in Slots : gets'[s][j].phase = "answered" => gets'[s][j] = gets[s][j]
           /\ Awaited(s)'
<1>1. PICK i \in Slots : gets' = [gets EXCEPT ![s][i] = Asked]
  BY DEF Ask
<1>2. /\ gets' \in [Streams -> [Slots -> Gets]] /\ gets'[s][i] = Asked
      /\ \A j \in Slots : j # i => gets'[s][j] = gets[s][j]
      /\ \A t \in Streams : t # s => gets'[t] = gets[t]
  BY <1>1, GetFacts
<1>3. Asked.phase = "asked"
  BY GetFacts
<1>4. Awaited(s)'
  BY <1>2, <1>3 DEF Awaited, WillInform
<1>5. ASSUME NEW j \in Slots, gets'[s][j].phase = "answered"
      PROVE  gets'[s][j] = gets[s][j]
  BY <1>2, <1>3, <1>5
<1> QED BY <1>2, <1>4, <1>5

LEMMA RefreshKeeps ==
    ASSUME IInvTab, NEW s \in Streams, Refresh(s)
    PROVE  IInvTab'
<1>1. /\ gets \in [Streams -> [Slots -> Gets]]
      /\ view \in [Streams -> [Keys -> States]] /\ loadErr \in [Streams -> BOOLEAN]
      /\ informed \in [Streams -> {"no", "failed", "yes"}]
  BY TabsTyped DEF TypeOKTab
<1>2. UNCHANGED <<vars, view, loadErr, informed>>
  BY DEF Refresh
<1>3. Control' /\ \A t \in Streams : InFlight(t)' = InFlight(t)
  BY <1>2, ServerUntouched
<1>4. /\ gets' \in [Streams -> [Slots -> Gets]]
      /\ \A t \in Streams : t # s => gets'[t] = gets[t]
      /\ \A j \in Slots : gets'[s][j].phase = "answered" => gets'[s][j] = gets[s][j]
      /\ Awaited(s)'
  BY <1>1, AskFacts DEF Refresh
<1>5. TabSound(s)'
  <2>1. TabSound(s)
    BY DEF IInvTab
  <2> QED BY <2>1, <1>2, <1>3, <1>4 DEF TabSound, Connected, vars
<1>6. ASSUME NEW t \in Streams, t # s PROVE TabSound(t)' /\ Awaited(t)'
  BY <1>2, <1>3, <1>4, <1>6, TabUntouched DEF vars
<1> QED BY <1>1, <1>2, <1>3, <1>4, <1>5, <1>6, TabInvFrom

\* What a tab's reading of a message leaves alone.
LEMMA ReadFacts ==
    ASSUME IInvTab, NEW s \in Streams, Read(s)
    PROVE  /\ Control'
           /\ InFlight(s) # <<>> /\ Head(InFlight(s)) = Head(wire[s])
           /\ InFlight(s)' = Tail(InFlight(s))
           /\ Head(wire[s]) \in Messages /\ wire[s] \in Seq(Messages)
           /\ wire[s] # <<>> /\ wire'[s] = Tail(wire[s])
           /\ \A t \in Streams : t # s => /\ InFlight(t)' = InFlight(t)
                                          /\ wire'[t] = wire[t]
           /\ UNCHANGED <<byKey, subs, chan, todo, event, handler, missed>>
<1>1. Control /\ TypeOK
  BY TabsTyped
<1>2. Control'
  BY <1>1, ControlPreserved DEF Next
<1>3. /\ wire[s] # <<>> /\ wire'[s] = Tail(wire[s])
      /\ \A t \in Streams : t # s => wire'[t] = wire[t]
      /\ UNCHANGED <<byKey, subs, chan, todo, event, handler, missed>>
  BY <1>1 DEF Read, TypeOK
<1>4. wire[s] \in Seq(Messages) /\ Head(wire[s]) \in Messages
  BY <1>1, <1>3, HeadTailProperties DEF TypeOK
<1>5. \A t \in Streams : t # s => InFlight(t)' = InFlight(t)
  BY <1>3, KeptQueue DEF Pending
<1> QED BY <1>1, <1>2, <1>3, <1>4, <1>5, ReadQueue

LEMMA OnSyncKeeps ==
    ASSUME IInvTab, NEW s \in Streams, OnSync(s)
    PROVE  IInvTab'
<1>1. /\ gets \in [Streams -> [Slots -> Gets]]
      /\ \A t \in Streams : InFlight(t) \in Seq(Messages)
      /\ view \in [Streams -> [Keys -> States]] /\ loadErr \in [Streams -> BOOLEAN]
      /\ informed \in [Streams -> {"no", "failed", "yes"}]
  BY TabsTyped DEF TypeOKTab
<1>2. /\ Head(wire[s]).kind = "sync" /\ Read(s) /\ UNCHANGED <<view, loadErr, informed>>
  BY DEF OnSync
<1>3. /\ Control'
      /\ InFlight(s) # <<>> /\ Head(InFlight(s)) = Head(wire[s])
      /\ InFlight(s)' = Tail(InFlight(s))
      /\ \A t \in Streams : t # s => InFlight(t)' = InFlight(t) /\ wire'[t] = wire[t]
      /\ UNCHANGED <<byKey, handler, missed>>
  BY <1>2, ReadFacts
<1>4. /\ gets' \in [Streams -> [Slots -> Gets]]
      /\ \A t \in Streams : t # s => gets'[t] = gets[t]
      /\ \A j \in Slots : gets'[s][j].phase = "answered" => gets'[s][j] = gets[s][j]
      /\ Awaited(s)'
  BY <1>1, AskFacts DEF OnSync
<1>5. TabSound(s)'
  <2>1. TabSound(s)
    BY DEF IInvTab
  <2>2. \A m, K : Sound(InFlight(s), m, byKey, K) => Sound(InFlight(s)', m, byKey, K)
    BY <1>1, <1>2, <1>3, SyncIsSilent
  <2> QED BY <2>1, <2>2, <1>2, <1>3, <1>4 DEF TabSound, Connected
<1>6. ASSUME NEW t \in Streams, t # s PROVE TabSound(t)' /\ Awaited(t)'
  BY <1>2, <1>3, <1>4, <1>6, TabUntouched
<1> QED BY <1>1, <1>2, <1>3, <1>4, <1>5, <1>6, TabInvFrom

\* An event is applied to the list; a snapshot on its way does not get it.
LEMMA OnClusterKeeps ==
    ASSUME IInvTab, NEW s \in Streams, OnCluster(s)
    PROVE  IInvTab'
<1>1. /\ gets \in [Streams -> [Slots -> Gets]]
      /\ \A t \in Streams : InFlight(t) \in Seq(Messages)
      /\ view \in [Streams -> [Keys -> States]] /\ loadErr \in [Streams -> BOOLEAN]
      /\ informed \in [Streams -> {"no", "failed", "yes"}]
  BY TabsTyped DEF TypeOKTab
<1> DEFINE ev == Head(wire[s])
           D == Distrust(s, {ev.key})
           v == [view[s] EXCEPT ![ev.key] = ev.cluster]
<1>2. /\ ev.kind = "cluster" /\ Read(s) /\ UNCHANGED <<loadErr, informed>>
      /\ view' = [view EXCEPT ![s] = v] /\ gets' = [gets EXCEPT ![s] = D]
  BY DEF OnCluster
<1>3. /\ Control'
      /\ InFlight(s) # <<>> /\ Head(InFlight(s)) = ev
      /\ InFlight(s)' = Tail(InFlight(s))
      /\ ev \in Messages /\ wire[s] \in Seq(Messages)
      /\ wire[s] # <<>> /\ wire'[s] = Tail(wire[s])
      /\ \A t \in Streams : t # s => InFlight(t)' = InFlight(t) /\ wire'[t] = wire[t]
      /\ UNCHANGED <<byKey, handler, missed>>
  BY <1>2, ReadFacts
<1>4. ev \in ClusterEvents /\ ev.key \in Keys /\ ev.cluster \in States
  BY <1>2, <1>3, KeyedMessages, EventFacts
<1>5. /\ D \in [Slots -> Gets]
      /\ \A i \in Slots : /\ D[i].phase = gets[s][i].phase
                          /\ D[i].snap = gets[s][i].snap
                          /\ D[i].fresh = gets[s][i].fresh
                          /\ gets[s][i].phase = "answered" =>
                                D[i].since = gets[s][i].since \cup {ev.key}
  <2>1. {ev.key} \in SUBSET Keys
    BY <1>4
  <2> QED BY <2>1, <1>1, DistrustFacts
<1>6. v \in [Keys -> States] /\ view[s] \in [Keys -> States]
  BY <1>1, <1>4
<1>7. \A K : Sound(InFlight(s), view[s], byKey, K) => Sound(InFlight(s)', v, byKey, K)
  <2>1. \A q \in Seq(Messages), m \in [Keys -> States] : \A w, K :
           /\ q # <<>> /\ Head(q).kind = "cluster"
           /\ Sound(q, m, w, K)
           => Sound(Tail(q), [m EXCEPT ![Head(q).key] = Head(q).cluster], w, K)
    BY SoundApply
  <2>2. v = [view[s] EXCEPT ![Head(InFlight(s)).key] = Head(InFlight(s)).cluster]
    BY <1>3
  <2>3. InFlight(s) \in Seq(Messages) /\ Head(InFlight(s)).kind = "cluster"
    BY <1>1, <1>2, <1>3
  <2> HIDE DEF v, ev
  <2>4. \A w, K : Sound(InFlight(s), view[s], w, K) => Sound(Tail(InFlight(s)), v, w, K)
    BY <2>1, <2>2, <2>3, <1>3, <1>6
  <2> QED BY <2>4, <1>3
<1>8. \A m, K : Sound(InFlight(s), m, byKey, K) =>
         Sound(InFlight(s)', m, byKey, K \cup {ev.key})
  <2>1. \A q \in Seq(Messages) : \A m, w, K :
           q # <<>> /\ Sound(q, m, w, K) => Sound(Tail(q), m, w, K \cup {Head(q).key})
    BY SoundPass
  <2>2. Head(InFlight(s)).key = ev.key
    BY <1>3
  <2> HIDE DEF v, ev
  <2>3. \A m, w, K : Sound(InFlight(s), m, w, K)
                        => Sound(Tail(InFlight(s)), m, w, K \cup {ev.key})
    BY <2>1, <2>2, <1>1, <1>3
  <2> QED BY <2>3, <1>3
<1>9. ASSUME NEW j \in 1..Len(wire[s]), wire[s][j].kind = "sync"
      PROVE  \E i \in 1..Len(wire'[s]) : wire'[s][i].kind = "sync"
  <2>1. /\ Len(wire'[s]) = Len(wire[s]) - 1 /\ Len(wire[s]) \in Nat
        /\ \A i \in 1..Len(wire'[s]) : wire'[s][i] = wire[s][i + 1]
        /\ ev = wire[s][1]
    BY <1>3, HeadTailProperties, LenProperties
  <2>2. j # 1
    BY <2>1, <1>2, <1>9
  <2>3. j - 1 \in 1..Len(wire'[s]) /\ (j - 1) + 1 = j
    BY <2>1, <2>2
  <2>4. wire'[s][j - 1] = wire[s][j]
    BY <2>1, <2>3
  <2> QED BY <2>3, <2>4, <1>9
<1> HIDE DEF ev, D, v
<1>10. /\ gets' \in [Streams -> [Slots -> Gets]] /\ gets'[s] = D
       /\ view' \in [Streams -> [Keys -> States]] /\ view'[s] = v
       /\ \A t \in Streams : t # s => gets'[t] = gets[t] /\ view'[t] = view[t]
  BY <1>1, <1>2, <1>5, <1>6
<1>11. TabSound(s)'
  <2>1. TabSound(s)
    BY DEF IInvTab
  <2>2. ASSUME Connected(s)
        PROVE  /\ Sound(InFlight(s)', v, byKey, missed[s])
               /\ \A i \in Slots : D[i].phase = "answered" =>
                     Sound(InFlight(s)', D[i].snap, byKey, D[i].since)
    <3>1. /\ Sound(InFlight(s), view[s], byKey, missed[s])
          /\ \A i \in Slots : gets[s][i].phase = "answered" =>
                Sound(InFlight(s), gets[s][i].snap, byKey, gets[s][i].since)
      BY <2>1, <2>2 DEF TabSound
    <3> QED BY <3>1, <1>5, <1>7, <1>8
  <2> QED BY <2>2, <1>3, <1>10 DEF TabSound, Connected
<1>12. Awaited(s)'
  <2>1. \A i \in Slots : /\ gets'[s][i].phase = gets[s][i].phase
                         /\ gets'[s][i].fresh = gets[s][i].fresh
    BY <1>5, <1>10
  <2> QED BY <2>1, <1>2, <1>3, <1>9, AwaitedKept
<1>13. ASSUME NEW t \in Streams, t # s PROVE TabSound(t)' /\ Awaited(t)'
  BY <1>2, <1>3, <1>10, <1>13, TabUntouched
<1> QED BY <1>1, <1>2, <1>3, <1>10, <1>11, <1>12, <1>13, TabInvFrom

\* A response replaces the list: its doubts become the tab's.
LEMMA ReplyKeeps ==
    ASSUME IInvTab, NEW s \in Streams, NEW i \in Slots, Reply(s, i)
    PROVE  IInvTab'
<1>1. /\ Control /\ TypeOK /\ gets \in [Streams -> [Slots -> Gets]]
      /\ view \in [Streams -> [Keys -> States]] /\ loadErr \in [Streams -> BOOLEAN]
      /\ informed \in [Streams -> {"no", "failed", "yes"}]
  BY TabsTyped DEF TypeOKTab
<1>2. /\ gets[s][i].phase = "answered"
      /\ view' = [view EXCEPT ![s] = gets[s][i].snap]
      /\ missed' = [missed EXCEPT ![s] = gets[s][i].since]
      /\ gets' = [gets EXCEPT ![s][i] = NoGet]
      /\ loadErr' = [loadErr EXCEPT ![s] = FALSE]
      /\ informed' = IF gets[s][i].fresh THEN [informed EXCEPT ![s] = "yes"]
                                         ELSE informed
      /\ UNCHANGED <<byKey, subs, chan, todo, event, handler, wire>>
  BY DEF Reply
<1>3. gets[s][i].snap \in [Keys -> States] /\ gets[s][i].since \in SUBSET Keys
  BY <1>1, GetFacts
<1>4. /\ view' \in [Streams -> [Keys -> States]] /\ view'[s] = gets[s][i].snap
      /\ missed' \in [Streams -> SUBSET Keys] /\ missed'[s] = gets[s][i].since
      /\ gets' \in [Streams -> [Slots -> Gets]] /\ gets'[s][i].phase = "free"
      /\ \A j \in Slots : j # i => gets'[s][j] = gets[s][j]
      /\ \A t \in Streams : t # s => /\ view'[t] = view[t] /\ missed'[t] = missed[t]
                                     /\ gets'[t] = gets[t] /\ informed'[t] = informed[t]
  BY <1>1, <1>2, <1>3, GetFacts DEF TypeOK
<1>5. Control'
  BY <1>1, <1>2, <1>4 DEF Control, TypeOK, HandlersSubscribed, MutexHeldWithEvent,
                         FanOutIsCurrent, WiresOpen, NoSendOnClosed
<1>6. \A t \in Streams : InFlight(t)' = InFlight(t)
  BY <1>2, KeptQueue DEF Pending
<1>7. TabSound(s)'
  <2>1. TabSound(s)
    BY DEF IInvTab
  <2>2. ASSUME NEW j \in Slots, gets'[s][j].phase = "answered"
        PROVE  gets'[s][j] = gets[s][j]
    BY <2>2, <1>4
  <2> QED BY <2>1, <2>2, <1>2, <1>4, <1>6 DEF TabSound, Connected
<1>8. Awaited(s)'
  <2> SUFFICES ASSUME handler'[s] = "streaming", informed'[s] = "no"
               PROVE  \/ \E j \in 1..Len(wire'[s]) : wire'[s][j].kind = "sync"
                      \/ \E j \in Slots : WillInform(s, j)'
    BY DEF Awaited
  <2>1. ~gets[s][i].fresh /\ informed[s] = "no" /\ handler[s] = "streaming"
    BY <1>1, <1>2
  <2>2. \/ \E j \in 1..Len(wire[s]) : wire[s][j].kind = "sync"
        \/ \E j \in Slots : WillInform(s, j)
    BY <2>1 DEF IInvTab, Awaited
  <2>3. ASSUME NEW j \in Slots, WillInform(s, j) PROVE WillInform(s, j)'
    <3>1. j # i
      BY <2>1, <2>3, <1>2 DEF WillInform
    <3> QED BY <3>1, <2>3, <1>4 DEF WillInform
  <2> QED BY <2>2, <2>3, <1>2
<1>9. ASSUME NEW t \in Streams, t # s PROVE TabSound(t)' /\ Awaited(t)'
  BY <1>2, <1>4, <1>6, <1>9, TabUntouched
<1>10. loadErr' \in [Streams -> BOOLEAN]
       /\ informed' \in [Streams -> {"no", "failed", "yes"}]
  BY <1>1, <1>2
<1> QED BY <1>4, <1>5, <1>7, <1>8, <1>9, <1>10, TabInvFrom

\* A request that fails is remembered.
LEMMA GetFailsKeeps ==
    ASSUME IInvTab, NEW s \in Streams, NEW i \in Slots, GetFails(s, i)
    PROVE  IInvTab'
<1>1. /\ gets \in [Streams -> [Slots -> Gets]]
      /\ view \in [Streams -> [Keys -> States]] /\ loadErr \in [Streams -> BOOLEAN]
      /\ informed \in [Streams -> {"no", "failed", "yes"}]
  BY TabsTyped DEF TypeOKTab
<1>2. /\ gets' = [gets EXCEPT ![s][i] = NoGet]
      /\ loadErr' = [loadErr EXCEPT ![s] = TRUE]
      /\ informed' = IF informed[s] = "no"
                     THEN [informed EXCEPT ![s] = "failed"] ELSE informed
      /\ UNCHANGED <<vars, view>>
  BY DEF GetFails
<1>3. Control' /\ \A t \in Streams : InFlight(t)' = InFlight(t)
  BY <1>2, ServerUntouched
<1>4. /\ gets' \in [Streams -> [Slots -> Gets]] /\ gets'[s][i].phase = "free"
      /\ \A j \in Slots : j # i => gets'[s][j] = gets[s][j]
      /\ \A t \in Streams : t # s => gets'[t] = gets[t] /\ informed'[t] = informed[t]
      /\ informed'[s] # "no"
      /\ loadErr' \in [Streams -> BOOLEAN]
      /\ informed' \in [Streams -> {"no", "failed", "yes"}]
  BY <1>1, <1>2, GetFacts
<1>5. TabSound(s)'
  <2>1. TabSound(s)
    BY DEF IInvTab
  <2>2. ASSUME NEW j \in Slots, gets'[s][j].phase = "answered"
        PROVE  gets'[s][j] = gets[s][j]
    BY <2>2, <1>4
  <2> QED BY <2>1, <2>2, <1>2, <1>3 DEF TabSound, Connected, vars
<1>6. Awaited(s)'
  BY <1>4 DEF Awaited
<1>7. ASSUME NEW t \in Streams, t # s PROVE TabSound(t)' /\ Awaited(t)'
  BY <1>2, <1>3, <1>4, <1>7, TabUntouched DEF vars
<1> QED BY <1>1, <1>2, <1>3, <1>4, <1>5, <1>6, <1>7, TabInvFrom

LEMMA TabStepKeeps == IInvTab /\ [NextTab]_allVars => IInvTab'
<1> SUFFICES ASSUME IInvTab, [NextTab]_allVars PROVE IInvTab'
  OBVIOUS
<1>1. CASE UNCHANGED allVars
  <2>1. UNCHANGED vars /\ UNCHANGED <<view, gets, loadErr, informed>>
    BY <1>1 DEF allVars, tabVars
  <2>2. Control' /\ \A t \in Streams : InFlight(t)' = InFlight(t)
    BY <2>1, ServerUntouched
  <2>3. \A t \in Streams : TabSound(t)' /\ Awaited(t)'
    BY <2>1, <2>2, TabUntouched DEF vars
  <2> QED BY <2>1, <2>2, <2>3, TabInvFrom, TabsTyped DEF TypeOKTab
<1>2. ASSUME NEW listed \in [Keys -> States], ReplaceAllTab(listed) PROVE IInvTab'
  BY <1>2, ReplaceAllTabKeeps
<1>3. ASSUME NEW ev \in ClusterEvents \cup {ErrorEvent}, ApplyEvent(ev),
             UNCHANGED tabVars
      PROVE  IInvTab'
  BY <1>3, ApplyEventKeeps
<1>4. ASSUME NEW s \in Streams,
             \/ FanOutTab(s) \/ SubscribeTab(s) \/ HandlerTab(s)
             \/ Refresh(s) \/ OnSync(s) \/ OnCluster(s)
      PROVE  IInvTab'
  BY <1>4, FanOutTabKeeps, SubscribeTabKeeps, HandlerTabKeeps, RefreshKeeps,
     OnSyncKeeps, OnClusterKeeps
<1>5. ASSUME NEW s \in Streams, NEW i \in Slots,
             Answer(s, i) \/ Reply(s, i) \/ GetFails(s, i)
      PROVE  IInvTab'
  BY <1>5, AnswerKeeps, ReplyKeeps, GetFailsKeeps
<1> QED BY <1>1, <1>2, <1>3, <1>4, <1>5 DEF NextTab

-----------------------------------------------------------------------------
(* Theorems                                                                *)

\* IInv holds in every reachable state.
THEOREM Invariance == Spec => []IInv
<1>1. Init => IInv
  BY InitEstablishes
<1>2. IInv /\ [Next]_vars => IInv'
  BY ControlPreserved, SlotsPreserved, LastWinsPreserved DEF IInv
<1> QED BY <1>1, <1>2, PTL DEF Spec

\* Every variable keeps its type, and no buffer outgrows its capacity: a send
\* of applyEvent really is non-blocking and a handler's write really blocks.
THEOREM TypeCorrect == Spec => []TypeOK
<1>1. IInv => TypeOK
  BY DEF IInv, Control
<1> QED BY <1>1, Invariance, PTL

\* The fan-out of applyEvent never sends on a closed channel, whatever
\* subscribes and returns meanwhile.
THEOREM NeverSendsOnClosed == Spec => []NoSendOnClosed
<1>1. IInv => NoSendOnClosed
  BY DEF IInv, Control
<1> QED BY <1>1, Invariance, PTL

\* A stream read to its end leaves its tab with the cache's state of every
\* key it has not missed, for any number of tabs and clusters and any
\* capacity of channels and connections.
THEOREM StreamsEndInTheCache == Spec => []LastWins
<1>1. IInv => LastWins
  BY DEF IInv
<1> QED BY <1>1, Invariance, PTL

\* The cache, its mutex, channels, handlers and connections implement the
\* abstract broadcast, for any number of tabs and clusters and any capacities:
\* no interleaving shows a tab anything the abstract queue could not.
THEOREM CacheImplementsBroadcast == Spec => ImplementsBroadcast
<1>1. Init => Promise!Init
  BY InitImplements
<1>2. IInv /\ [Next]_vars => [Promise!Next]_(Promise!vars)
  BY StepImplements
<1> QED BY <1>1, <1>2, Invariance, PTL DEF Spec, ImplementsBroadcast, Promise!Spec


\* IInvTab holds in every reachable state of the tabs.
THEOREM TabInvariance == SpecTab => []IInvTab
<1>1. InitTab => IInvTab
  BY InitTabEstablishes
<1>2. IInvTab /\ [NextTab]_allVars => IInvTab'
  BY TabStepKeeps
<1> QED BY <1>1, <1>2, PTL DEF SpecTab

\* Every variable of the tabs and of the cache that feeds them keeps its type.
THEOREM TabTypeCorrect == SpecTab => []TypeOKTab
<1>1. IInvTab => TypeOKTab
  BY DEF IInvTab
<1> QED BY <1>1, TabInvariance, PTL

\* Reading what is in flight brings a connected tab to the state of the cache,
\* but for the keys it cannot count on, whatever the order in which responses,
\* events, replacements of the cache and reconnections meet.
THEOREM TabsCatchUp == SpecTab => []ViewCatchesUp
<1>1. ASSUME IInvTab PROVE ViewCatchesUp
  <2> SUFFICES ASSUME NEW s \in Streams, Connected(s), NEW k \in Keys \ missed[s]
               PROVE  Settled(s, view[s], k) = byKey[k]
    BY DEF ViewCatchesUp
  <2>1. InFlight(s) \in Seq(Messages)
    BY <1>1, TabsTyped
  <2>2. Sound(InFlight(s), view[s], byKey, missed[s])
    BY <1>1 DEF IInvTab, TabSound
  <2> QED BY <2>1, <2>2, SoundSettles
<1> QED BY <1>1, TabInvariance, PTL

\* And so does a snapshot on its way to it, but for the keys whose events have
\* overtaken it.
THEOREM SnapshotsCatchUp == SpecTab => []SnapshotCatchesUp
<1>1. ASSUME IInvTab PROVE SnapshotCatchesUp
  <2> SUFFICES ASSUME NEW s \in Streams, NEW i \in Slots,
                      Connected(s), gets[s][i].phase = "answered",
                      NEW k \in Keys \ gets[s][i].since
               PROVE  Settled(s, gets[s][i].snap, k) = byKey[k]
    BY DEF SnapshotCatchesUp
  <2>1. InFlight(s) \in Seq(Messages)
    BY <1>1, TabsTyped
  <2>2. Sound(InFlight(s), gets[s][i].snap, byKey, gets[s][i].since)
    BY <1>1 DEF IInvTab, TabSound
  <2> QED BY <2>1, <2>2, SoundSettles
<1> QED BY <1>1, TabInvariance, PTL

\* A tab at rest shows a list fetched during its connection, or knows that a
\* request has failed: the sync message or a request it caused is otherwise
\* still on its way.
THEOREM RestedTabsAreInformed == SpecTab => []QuietIsInformed
<1>1. ASSUME IInvTab PROVE QuietIsInformed
  <2> SUFFICES ASSUME NEW s \in Streams, Quiet(s), informed[s] = "no" PROVE FALSE
    BY DEF QuietIsInformed
  <2>1. \/ \E j \in 1..Len(wire[s]) : wire[s][j].kind = "sync"
        \/ \E i \in Slots : WillInform(s, i)
    BY <1>1 DEF IInvTab, Awaited, Quiet
  <2>2. \A i \in Slots : ~WillInform(s, i)
    BY GetFacts DEF Quiet, WillInform
  <2>3. Len(wire[s]) = 0
    <3>1. /\ wire[s] \in Seq(Messages) /\ chan[s] \o Pending(s) \in Seq(Messages)
          /\ InFlight(s) = wire[s] \o (chan[s] \o Pending(s))
      BY <1>1, TabsTyped, QueueTyped, ConcatProperties DEF Control
    <3>2. Len(InFlight(s)) = Len(wire[s]) + Len(chan[s] \o Pending(s))
      BY <3>1, ConcatProperties
    <3>3. Len(InFlight(s)) = 0
      BY DEF Quiet
    <3>4. Len(wire[s]) \in Nat /\ Len(chan[s] \o Pending(s)) \in Nat
      BY <3>1, LenProperties
    <3> DEFINE a == Len(wire[s])
               b == Len(chan[s] \o Pending(s))
    <3>5. a \in Nat /\ b \in Nat /\ a + b = 0
      BY <3>2, <3>3, <3>4
    <3> HIDE DEF a, b
    <3>6. a = 0
      BY <3>5
    <3> QED BY <3>6 DEF a
  <2> QED BY <2>1, <2>2, <2>3
<1> QED BY <1>1, TabInvariance, PTL

=============================================================================
