----------------------------- MODULE PageProofs -----------------------------
(***************************************************************************)
(* One terminal at a time, for any clusters and any number of terminals    *)
(* that are unmounted and not yet over: only the one that is shown is      *)
(* connected, and the others touch nothing.                                *)
(***************************************************************************)
EXTENDS Page, TLAPS

\* Who is connected is mounted.
ConnectedAreMounted ==
    \A t \in Effective : term[t].at \in {"connecting", "open"} => ~term[t].disposed

IInv == TypeOK /\ ConnectedAreMounted

-----------------------------------------------------------------------------
(* Effects                                                                 *)

\* No effect at all is not an effect.
LEMMA IdleIsApart == Idle \notin Effects
<1>1. \A e \in Effects : e.at # Idle.at
  BY DEF Effects, Stages, Idle
<1> QED
  BY <1>1

\* The cleanup leaves nothing connected.
LEMMA DisposeEnds ==
  ASSUME NEW e \in Effects
  PROVE  /\ Dispose(e) \in Effects
         /\ Dispose(e).disposed
         /\ Dispose(e).at \notin {"connecting", "open"}
<1>1. CASE e.at \in {"connecting", "open"}
  <2>1. Dispose(e) = [e EXCEPT !.disposed = TRUE, !.at = "ended"]
    BY <1>1 DEF Dispose
  <2> QED
    BY <2>1 DEF Effects, Stages
<1>2. CASE e.at \notin {"connecting", "open"}
  <2>1. Dispose(e) = [e EXCEPT !.disposed = TRUE, !.at = e.at]
    BY <1>2 DEF Dispose
  <2> QED
    BY <1>2, <2>1 DEF Effects, Stages
<1> QED
  BY <1>1, <1>2

\* What a step does to one terminal that stays mounted or disposed as it was.
LEMMA GoesKeeps ==
  ASSUME IInv, NEW t \in Terminals, NEW from, NEW to \in Stages, Goes(t, from, to),
         to \in {"connecting", "open"} => ~term[t].disposed
  PROVE  /\ IInv'
         /\ Shown' = Shown /\ selected' = selected
         /\ \A u \in Effective : term'[u] # Idle
<1> USE DEF IInv
<1>1. term[t] \in Effects /\ t \in Effective
  BY DEF Goes, TypeOK, Effective
<1>2. /\ term' = [term EXCEPT ![t] = [term[t] EXCEPT !.at = to]]
      /\ UNCHANGED <<listed, selected, view, confirm, pending>>
  BY DEF Goes
<1>3. /\ term'[t] \in Effects /\ term'[t].at = to
      /\ term'[t].disposed = term[t].disposed /\ term'[t].key = term[t].key
      /\ \A u \in Terminals \ {t} : term'[u] = term[u]
  BY <1>1, <1>2 DEF TypeOK, Effects
<1>4. term' \in [Terminals -> Effects \cup {Idle}]
  BY <1>2, <1>3 DEF TypeOK
<1>5. Effective' = Effective
  BY <1>1, <1>3, IdleIsApart DEF Effective
<1>6. Mounted' = Mounted /\ Shown' = Shown
  BY <1>1, <1>2, <1>3, <1>5 DEF Mounted, Shown, Renders, Effective
<1>7. TypeOK'
  <2>1. \A u \in Mounted' : term'[u].key = Shown'
    BY <1>3, <1>6 DEF TypeOK, Mounted, Effective
  <2> QED
    BY <1>2, <1>4, <1>6, <2>1 DEF TypeOK
<1>8. ConnectedAreMounted'
  BY <1>1, <1>3, <1>5 DEF ConnectedAreMounted, Effective
<1> QED
  BY <1>2, <1>5, <1>6, <1>7, <1>8 DEF Effective

\* What is heard of for the last time was disposed: nothing else changes.
LEMMA ForgetKeeps ==
  ASSUME IInv, NEW t \in Terminals, Forget(t), t \in Effective, term[t].disposed
  PROVE  /\ IInv'
         /\ Shown' = Shown /\ selected' = selected
<1> USE DEF IInv
<1>1. /\ term' = [term EXCEPT ![t] = Idle]
      /\ UNCHANGED <<listed, selected, view, confirm, pending>>
  BY DEF Forget
<1>2. term'[t] = Idle /\ \A u \in Terminals \ {t} : term'[u] = term[u]
  BY <1>1 DEF TypeOK, Effective
<1>3. term' \in [Terminals -> Effects \cup {Idle}]
  BY <1>1 DEF TypeOK
<1>4. Effective' = Effective \ {t}
  BY <1>2 DEF Effective
<1>5. Mounted' = Mounted /\ Shown' = Shown
  BY <1>1, <1>2, <1>4 DEF Mounted, Shown, Renders, Effective
<1>6. TypeOK'
  <2>1. \A u \in Mounted' : term'[u].key = Shown'
    BY <1>2, <1>4, <1>5 DEF TypeOK, Mounted, Effective
  <2> QED
    BY <1>1, <1>3, <1>5, <2>1 DEF TypeOK
<1>7. ConnectedAreMounted'
  BY <1>2, <1>4 DEF ConnectedAreMounted, Effective
<1> QED
  BY <1>1, <1>5, <1>6, <1>7

\* A rendering, with base what the terminals are before it: the same terminal
\* stays, or what was mounted is disposed and at most one terminal is new.
LEMMA RenderKeeps ==
  ASSUME IInv, NEW v \in {"main", "settings"}, NEW s \in Keys \cup {None}, NEW l \in SUBSET Keys,
         NEW base \in [Terminals -> Effects \cup {Idle}],
         \A t \in Terminals : base[t] = term[t] \/ base[t] = Idle,
         Renders(v, s, l) = Shown => base = term,
         Render(v, s, l, base),
         confirm' \in Keys \cup {None}, pending' \in Keys \cup {None}
  PROVE  /\ IInv'
         /\ Shown' = Renders(v, s, l) /\ selected' = s
         /\ \A t \in Effective : term[t].disposed /\ base[t] = term[t] => term'[t] # Idle
<1> USE DEF IInv
<1>1. view' = v /\ selected' = s /\ listed' = l
  BY DEF Render
<1> DEFINE k == Renders(v, s, l)
           left == [t \in Terminals |-> IF base[t] = Idle \/ base[t].disposed THEN base[t]
                                        ELSE Dispose(base[t])]
<1>2. Shown' = k
  BY <1>1 DEF Shown, Renders
<1>3. k \in Keys \cup {None}
  BY DEF Renders
<1>4. CASE k = Shown
  <2>1. term' = term
    BY <1>4 DEF Render
  <2>2. Effective' = Effective /\ Mounted' = Mounted
    BY <2>1 DEF Effective, Mounted
  <2>3. TypeOK' /\ ConnectedAreMounted'
    BY <1>1, <1>2, <1>4, <2>1, <2>2 DEF TypeOK, ConnectedAreMounted
  <2> QED
    BY <1>1, <1>2, <2>1, <2>3 DEF Effective
<1>5. CASE k # Shown
  <2>1. ASSUME NEW t \in Terminals
        PROVE  /\ left[t] \in Effects \cup {Idle}
               /\ left[t] # Idle => left[t].disposed /\ left[t].at \notin {"connecting", "open"}
               /\ base[t] # Idle => left[t] # Idle
    <3>1. CASE base[t] = Idle
      BY <3>1
    <3>2. CASE base[t] # Idle /\ base[t].disposed
      <4>1. left[t] = base[t] /\ base[t] = term[t] /\ t \in Effective
        BY <3>2 DEF Effective
      <4> QED
        BY <3>2, <4>1 DEF ConnectedAreMounted
    <3>3. CASE base[t] # Idle /\ ~base[t].disposed
      <4>1. left[t] = Dispose(base[t]) /\ base[t] \in Effects
        BY <3>3
      <4> QED
        BY <4>1, DisposeEnds, IdleIsApart
    <3> QED
      BY <3>1, <3>2, <3>3
  <2>2. left \in [Terminals -> Effects \cup {Idle}]
    BY <2>1
  <2> HIDE DEF left
  <2>3. CASE k = None
    <3>1. term' = left
      BY <1>5, <2>3 DEF Render, left
    <3>2. Mounted' = {}
      BY <2>1, <3>1 DEF Mounted, Effective
    <3>3. TypeOK'
      BY <1>1, <1>2, <2>2, <2>3, <3>1, <3>2 DEF TypeOK
    <3>4. ConnectedAreMounted'
      BY <2>1, <3>1 DEF ConnectedAreMounted, Effective
    <3> QED
      BY <1>1, <1>2, <2>1, <3>1, <3>3, <3>4 DEF Effective
  <2>4. CASE k # None
    <3> DEFINE new == [at |-> "asked", key |-> k, disposed |-> FALSE]
    <3>1. PICK t \in Terminals : left[t] = Idle /\ term' = [left EXCEPT ![t] = new]
      BY <1>5, <2>4 DEF Render, left
    <3>2. new \in Effects /\ new # Idle
      <4>1. k \in Keys
        BY <1>3, <2>4
      <4>2. new \in Effects
        BY <4>1 DEF Effects, Stages
      <4> QED
        BY <4>2, IdleIsApart
    <3>3. /\ term' \in [Terminals -> Effects \cup {Idle}]
          /\ term'[t] = new /\ \A u \in Terminals \ {t} : term'[u] = left[u]
      BY <2>2, <3>1, <3>2
    <3>4. Mounted' = {t}
      BY <2>1, <3>2, <3>3 DEF Mounted, Effective
    <3>5. TypeOK'
      BY <1>1, <1>2, <3>3, <3>4 DEF TypeOK
    <3>6. ConnectedAreMounted'
      BY <2>1, <3>2, <3>3 DEF ConnectedAreMounted, Effective
    <3>7. \A u \in Terminals : base[u] # Idle => term'[u] # Idle
      BY <2>1, <3>1, <3>2, <3>3
    <3> QED
      BY <1>1, <1>2, <3>5, <3>6, <3>7 DEF Effective
  <2> QED
    BY <2>3, <2>4
<1> QED
  BY <1>4, <1>5

-----------------------------------------------------------------------------
(* Steps                                                                   *)

\* What a step may do to the selection, and to a terminal that is gone.
StepAsks == Shown # None /\ Shown' \notin {None, Shown} => pending = Shown' /\ pending' = None
StepIsSilent == \A t \in Effective : term[t].disposed /\ term'[t] = Idle => selected' = selected

StepOK == IInv' /\ StepAsks /\ StepIsSilent

\* What is shown is what is selected.
LEMMA ShownIsSelected ==
  ASSUME TypeOK
  PROVE  /\ Shown # None => Shown = selected /\ view = "main" /\ Active = selected
         /\ view = "main" => Shown = Active
         /\ \A v, l : Renders(v, None, l) = None
         /\ \A v, s, l : Renders(v, s, l) \in {s, None}
BY DEF Shown, Active, Renders, TypeOK

\* A rendering that no terminal brings about.
LEMMA RenderIsOK ==
  ASSUME IInv, NEW v \in {"main", "settings"}, NEW s \in Keys \cup {None}, NEW l \in SUBSET Keys,
         Render(v, s, l, term),
         confirm' \in Keys \cup {None}, pending' \in Keys \cup {None},
         Shown # None /\ Renders(v, s, l) \notin {None, Shown}
           => pending = Renders(v, s, l) /\ pending' = None
  PROVE  StepOK
<1>1. term \in [Terminals -> Effects \cup {Idle}]
  BY DEF IInv, TypeOK
<1>2. /\ IInv' /\ Shown' = Renders(v, s, l)
      /\ \A t \in Effective : term[t].disposed => term'[t] # Idle
  BY <1>1, RenderKeeps
<1>3. StepAsks
  BY <1>2 DEF StepAsks
<1>4. StepIsSilent
  BY <1>2 DEF StepIsSilent
<1> QED
  BY <1>2, <1>3, <1>4 DEF StepOK

\* A dialog that opens or closes.
LEMMA DialogIsOK ==
  ASSUME IInv, UNCHANGED <<listed, selected, view, term>>,
         confirm' \in Keys \cup {None}, pending' \in Keys \cup {None}
  PROVE  StepOK
<1>1. Shown' = Shown /\ Mounted' = Mounted /\ Effective' = Effective
  BY DEF Shown, Renders, Mounted, Effective
<1>2. IInv'
  BY <1>1 DEF IInv, TypeOK, ConnectedAreMounted
<1> QED
  BY <1>1, <1>2 DEF StepOK, StepAsks, StepIsSilent, Effective

\* The end of the terminal that is shown ends the selection.
LEMMA DeselectIsOK ==
  ASSUME IInv, NEW t \in Effective, ~term[t].disposed, Deselect(t)
  PROVE  StepOK
<1> DEFINE base == [term EXCEPT ![t] = Idle]
<1>1. t \in Mounted /\ t \in Terminals /\ term[t] # Idle
  BY DEF Mounted, Effective
<1>2. Shown # None
  <2>1. term[t] \in Effects
    BY <1>1 DEF IInv, TypeOK
  <2>2. term[t].key \in Keys
    BY <2>1 DEF Effects
  <2> QED
    BY <1>1, <2>2, PageAssumption DEF IInv, TypeOK
<1>3. Renders(view, None, listed) = None
  BY ShownIsSelected DEF IInv
<1>4. /\ base \in [Terminals -> Effects \cup {Idle}]
      /\ \A u \in Terminals : base[u] = term[u] \/ base[u] = Idle
      /\ \A u \in Terminals \ {t} : base[u] = term[u]
  BY DEF IInv, TypeOK
<1>5. Render(view, None, listed, base) /\ UNCHANGED <<confirm, pending>>
  BY DEF Deselect
<1> HIDE DEF base
<1>6. /\ IInv' /\ Shown' = None
      /\ \A u \in Effective : term[u].disposed /\ base[u] = term[u] => term'[u] # Idle
  <2>1. /\ view \in {"main", "settings"} /\ None \in Keys \cup {None} /\ listed \in SUBSET Keys
        /\ confirm' \in Keys \cup {None} /\ pending' \in Keys \cup {None}
    BY <1>5 DEF IInv, TypeOK
  <2>2. Renders(view, None, listed) = Shown => base = term
    BY <1>2, <1>3
  <2> QED
    BY <1>3, <1>4, <1>5, <2>1, <2>2, RenderKeeps
<1>7. StepIsSilent
  BY <1>4, <1>6 DEF StepIsSilent, Effective
<1> QED
  BY <1>6, <1>7 DEF StepOK, StepAsks

\* Connecting from where the user is asked, or nothing is replaced.
LEMMA DoConnectIsOK ==
  ASSUME IInv, NEW k \in Keys, view = "main", DoConnect(k), confirm' \in Keys \cup {None}
  PROVE  StepOK
<1>1. CASE Active \notin {None, k}
  <2>1. pending' = k /\ UNCHANGED <<listed, selected, view, term>>
    BY <1>1 DEF DoConnect
  <2> QED
    BY <2>1, DialogIsOK
<1>2. CASE Active \in {None, k}
  <2>1. Render(view, k, listed, term) /\ UNCHANGED pending
    BY <1>2 DEF DoConnect
  <2>2. Renders(view, k, listed) \in {k, None} /\ Shown = Active
    BY ShownIsSelected DEF IInv
  <2> QED
    BY <1>2, <2>1, <2>2, RenderIsOK DEF IInv, TypeOK
<1> QED
  BY <1>1, <1>2

\* Every step keeps the invariant, asks before it replaces a terminal, and lets no
\* terminal that is gone touch the selection.
LEMMA StepsAreOK == IInv /\ [Next]_vars => StepOK
<1> SUFFICES ASSUME IInv, [Next]_vars PROVE StepOK
  OBVIOUS
<1>t. /\ view \in {"main", "settings"} /\ selected \in Keys \cup {None} /\ listed \in SUBSET Keys
      /\ confirm \in Keys \cup {None} /\ pending \in Keys \cup {None}
  BY DEF IInv, TypeOK
<1>s. /\ Shown # None => Shown = selected
      /\ Renders(view, None, listed) = None
      /\ \A v, s, l : Renders(v, s, l) \in {s, None}
  BY ShownIsSelected DEF IInv
<1>1. ASSUME NEW k \in Keys, TryConnect(k) PROVE StepOK
  <2>1. CASE confirm' = k /\ UNCHANGED <<listed, selected, view, pending, term>>
    BY <1>t, <2>1, DialogIsOK
  <2>2. CASE DoConnect(k) /\ UNCHANGED confirm
    BY <1>1, <1>t, <2>2, DoConnectIsOK DEF TryConnect
  <2> QED
    BY <1>1, <2>1, <2>2 DEF TryConnect
<1>2. CASE ConfirmFailed
  BY <1>2, <1>t, DoConnectIsOK DEF ConfirmFailed
<1>3. CASE ConfirmReplace
  BY <1>3, <1>s, <1>t, RenderIsOK DEF ConfirmReplace
<1>4. CASE CancelFailed
  BY <1>4, <1>t, DialogIsOK DEF CancelFailed
<1>5. CASE CancelReplace
  BY <1>5, <1>t, DialogIsOK DEF CancelReplace
<1>6. CASE Disconnect
  BY <1>6, <1>s, <1>t, RenderIsOK DEF Disconnect
<1>7. ASSUME NEW v \in {"main", "settings"}, ToggleView(v) PROVE StepOK
  BY <1>7, <1>s, <1>t, RenderIsOK DEF ToggleView
<1>8. ASSUME NEW l \in SUBSET Keys, ListBecomes(l) PROVE StepOK
  BY <1>8, <1>s, <1>t, RenderIsOK DEF ListBecomes
<1>9. CASE Switched
  BY <1>9, <1>s, <1>t, RenderIsOK DEF Switched
<1>10. ASSUME NEW t \in Terminals, NEW from, NEW to \in Stages, Goes(t, from, to),
              to \in {"connecting", "open"} => ~term[t].disposed
       PROVE  StepOK
  BY <1>10, GoesKeeps DEF StepOK, StepAsks, StepIsSilent
<1>11. ASSUME NEW t \in Terminals, Forget(t), t \in Effective, term[t].disposed PROVE StepOK
  BY <1>11, ForgetKeeps DEF StepOK, StepAsks, StepIsSilent
<1>12. ASSUME NEW t \in Terminals, Answers(t) \/ Refuses(t) \/ SocketEnds(t) PROVE StepOK
  BY <1>10, <1>12 DEF Answers, Refuses, SocketEnds, Stages
<1>13. ASSUME NEW t \in Terminals, Connect(t) PROVE StepOK
  BY <1>10, <1>11, <1>13 DEF Connect, Stages, Effective
<1>14. ASSUME NEW t \in Terminals, Opens(t) PROVE StepOK
  <2>1. ~term[t].disposed
    BY <1>14 DEF Opens, Goes, IInv, ConnectedAreMounted, Effective
  <2> QED
    BY <1>10, <1>14, <2>1 DEF Opens, Stages
<1>15. ASSUME NEW t \in Terminals, Fail(t) \/ Close(t) PROVE StepOK
  <2>1. t \in Effective
    BY <1>15 DEF Fail, Close, Effective
  <2> QED
    BY <1>11, <1>15, <2>1, DeselectIsOK DEF Fail, Close
<1>16. CASE UNCHANGED vars
  BY <1>16, <1>t, DialogIsOK DEF vars
<1> QED
  BY <1>1, <1>2, <1>3, <1>4, <1>5, <1>6, <1>7, <1>8, <1>9, <1>12, <1>13, <1>14, <1>15, <1>16
     DEF Next, User

\* Nothing is selected and no terminal is mounted.
LEMMA InitEstablishes == Init => IInv
<1> SUFFICES ASSUME Init PROVE IInv
  OBVIOUS
<1>1. Effective = {} /\ Mounted = {} /\ Shown = None
  BY DEF Init, Effective, Mounted, Shown, Renders
<1> QED
  BY <1>1 DEF Init, IInv, TypeOK, ConnectedAreMounted

LEMMA Inductive == Spec => []IInv
BY InitEstablishes, StepsAreOK, PTL DEF Spec, StepOK

-----------------------------------------------------------------------------
(* Theorems                                                                *)

\* Variables keep their types, and what is shown has exactly one terminal.
THEOREM TypeCorrect == Spec => []TypeOK
<1>1. IInv => TypeOK
  BY DEF IInv
<1> QED
  BY Inductive, <1>1, PTL

\* Whoever is connected is the terminal that is shown
\* (TerminalSession.tsx:25-26, 55-61).
THEOREM OnlyShownConnects == Spec => []SocketsAreCurrent
<1>1. IInv => SocketsAreCurrent
  BY DEF IInv, TypeOK, ConnectedAreMounted, SocketsAreCurrent, Mounted
<1> QED
  BY Inductive, <1>1, PTL

\* One terminal takes the place of another only from the dialog (App.tsx:74-81).
THEOREM ReplacingAsks == Spec => ReplaceAsks
<1>1. IInv /\ [Next]_vars => [StepAsks]_vars
  BY StepsAreOK DEF StepOK
<1> QED
  BY Inductive, <1>1, PTL DEF Spec, ReplaceAsks, StepAsks

\* A terminal that is gone does not touch the selection
\* (TerminalSession.tsx:26, 38, 43).
THEOREM GoneAreSilent == Spec => GoneTerminalsAreSilent
<1>1. IInv /\ [Next]_vars => [StepIsSilent]_vars
  BY StepsAreOK DEF StepOK
<1> QED
  BY Inductive, <1>1, PTL DEF Spec, GoneTerminalsAreSilent, StepIsSilent

=============================================================================
