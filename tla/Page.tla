-------------------------------- MODULE Page --------------------------------
(***************************************************************************)
(* The page of a browser tab: what is selected, the two dialogs that ask   *)
(* before a shell is opened or replaced, and the terminal shown for the    *)
(* selection, each time it is mounted with a session and a WebSocket of    *)
(* its own (App.tsx, ui/ConfirmDialog.tsx, ui/ClusterListRow.tsx,          *)
(* components/TerminalSession.tsx, ui/TerminalPanel.tsx, api/client.ts).   *)
(*                                                                         *)
(* The list may become anything at any time: LiveList has its reasons.     *)
(* What the server does with a session is in PtySessions, a switch of the  *)
(* management cluster in Switching.  The browser runs one callback after   *)
(* another; what a callback sets is rendered, and the effects of that run, *)
(* before the next.                                                        *)
(***************************************************************************)
EXTENDS Naturals

CONSTANTS
    Keys,       \* clusters
    Terminals,  \* bound: mounted and not yet forgotten terminals
    None        \* no cluster

ASSUME PageAssumption == None \notin Keys

VARIABLES
    listed,     \* clusters, as a set of keys
    selected,   \* selectedKey
    view,       \* "main" or "settings"
    confirm,    \* confirmFailed
    pending,    \* pendingCluster
    term        \* the effects of TerminalSession that are not over

vars == <<listed, selected, view, confirm, pending, term>>

-----------------------------------------------------------------------------

\* A terminal is asked for a session; has an answer on its way (answered or
\* refused); has a WebSocket, connecting or open; has an onclose due (ended).
Stages == {"asked", "answered", "refused", "connecting", "open", "ended"}
Effects == [at : Stages, key : Keys, disposed : BOOLEAN]
Idle == [at |-> "idle"]

Effective == {t \in Terminals : term[t] # Idle}
Mounted == {t \in Effective : ~term[t].disposed}

\* The cluster whose terminal is rendered; active, but for the settings.
Renders(v, s, l) == IF v = "main" /\ s \in l THEN s ELSE None
Active == IF selected \in listed THEN selected ELSE None
Shown == Renders(view, selected, listed)

TypeOK ==
    /\ listed \in SUBSET Keys
    /\ selected \in Keys \cup {None}
    /\ view \in {"main", "settings"}
    /\ confirm \in Keys \cup {None}
    /\ pending \in Keys \cup {None}
    /\ term \in [Terminals -> Effects \cup {Idle}]
    /\ \A t \in Mounted : term[t].key = Shown
    /\ \A t, u \in Mounted : t = u
    /\ Shown # None => Mounted # {}

Init ==
    /\ listed = {}
    /\ selected = None
    /\ view = "main"
    /\ confirm = None
    /\ pending = None
    /\ term = [t \in Terminals |-> Idle]

-----------------------------------------------------------------------------
(* Rendering                                                               *)

\* The cleanup of the effect: disposed, and the WebSocket, if any, is closed.
Dispose(e) ==
    [e EXCEPT !.disposed = TRUE, !.at = IF @ \in {"connecting", "open"} THEN "ended" ELSE @]

\* Faulty variant: the effect does not depend on the cluster.
RenderKeeping(v, s, l, base) ==
    /\ view' = v /\ selected' = s /\ listed' = l
    /\ LET k == Renders(v, s, l)
       IN  IF (k = None) = (Shown = None) THEN term' = base
           ELSE \E t \in Terminals :
                  term' = IF k = None THEN [t1 \in Terminals |-> Idle]
                          ELSE [base EXCEPT ![t] = [at |-> "asked", key |-> k, disposed |-> FALSE]]

\* What follows from v, s and l, with the effects in base: nothing while the
\* same terminal is rendered, else the old one is unmounted and the new mounted.
Render(v, s, l, base) ==
    /\ view' = v /\ selected' = s /\ listed' = l
    /\ LET k    == Renders(v, s, l)
           left == [t \in Terminals |-> IF base[t] = Idle \/ base[t].disposed THEN base[t]
                                        ELSE Dispose(base[t])]
       IN  IF k = Shown THEN term' = base
           ELSE IF k = None THEN term' = left
           ELSE \E t \in Terminals :
                  /\ left[t] = Idle
                  /\ term' = [left EXCEPT ![t] = [at |-> "asked", key |-> k, disposed |-> FALSE]]

-----------------------------------------------------------------------------
(* The page                                                                *)

\* A refresh or an event of the stream.
ListBecomes(l) ==
    /\ l # listed
    /\ Render(view, selected, l, term)
    /\ UNCHANGED <<confirm, pending>>

\* Faulty variant: the shell that is open is not asked about.
ConnectUnasked(k) ==
    /\ Render(view, k, listed, term)
    /\ UNCHANGED pending

\* doConnect: another terminal is not replaced before the user confirms.
DoConnect(k) ==
    IF Active \notin {None, k}
    THEN pending' = k /\ UNCHANGED <<listed, selected, view, term>>
    ELSE Render(view, k, listed, term) /\ UNCHANGED pending

\* tryConnect, by mouse or keyboard, also on a row behind a dialog: a cluster
\* that is Failed or Deleting is asked about first.
TryConnect(k) ==
    /\ view = "main" /\ k \in listed
    /\ \/ confirm' = k /\ UNCHANGED <<listed, selected, view, pending, term>>
       \/ DoConnect(k) /\ UNCHANGED confirm

\* "Continue anyway": a click or Enter.
ConfirmFailed ==
    /\ view = "main" /\ confirm # None
    /\ confirm' = None
    /\ DoConnect(confirm)

\* "Disconnect".
ConfirmReplace ==
    /\ view = "main" /\ pending # None
    /\ pending' = None
    /\ Render(view, pending, listed, term)
    /\ UNCHANGED confirm

\* A dialog's Cancel, Escape, or a click beside it.
CancelFailed ==
    /\ view = "main" /\ confirm # None
    /\ confirm' = None
    /\ UNCHANGED <<listed, selected, view, pending, term>>

CancelReplace ==
    /\ view = "main" /\ pending # None
    /\ pending' = None
    /\ UNCHANGED <<listed, selected, view, confirm, term>>

\* The button of the terminal.
Disconnect ==
    /\ Shown # None
    /\ Render(view, None, listed, term)
    /\ UNCHANGED <<confirm, pending>>

\* The gear, and the settings' Close: the terminal is unmounted meanwhile.
ToggleView(v) ==
    /\ v # view
    /\ Render(v, selected, listed, term)
    /\ UNCHANGED <<confirm, pending>>

\* onSwitched, whenever the picker's request is answered.
Switched ==
    /\ Render(view, None, listed, term)
    /\ UNCHANGED <<confirm, pending>>

-----------------------------------------------------------------------------
(* The terminal                                                            *)

\* Terminal t goes from one of the stages in from to stage to.
Goes(t, from, to) ==
    /\ term[t] # Idle /\ term[t].at \in from
    /\ term' = [term EXCEPT ![t].at = to]
    /\ UNCHANGED <<listed, selected, view, confirm, pending>>

\* POST /sessions is answered, or fails.
Answers(t) == Goes(t, {"asked"}, "answered")
Refuses(t) == Goes(t, {"asked"}, "refused")

\* Terminal t is heard of for the last time.
Forget(t) ==
    /\ term' = [term EXCEPT ![t] = Idle]
    /\ UNCHANGED <<listed, selected, view, confirm, pending>>

\* onDisconnect.
Deselect(t) ==
    /\ Render(view, None, listed, [term EXCEPT ![t] = Idle])
    /\ UNCHANGED <<confirm, pending>>

\* Faulty variant: a terminal that was unmounted meanwhile connects all the same.
ConnectDisposed(t) == Goes(t, {"answered"}, "connecting")

\* The session is there: a terminal that was unmounted meanwhile drops it.
Connect(t) ==
    \/ term[t] # Idle /\ ~term[t].disposed /\ Goes(t, {"answered"}, "connecting")
    \/ term[t] # Idle /\ term[t].disposed /\ term[t].at = "answered" /\ Forget(t)

\* Faulty variant: an error is shown and the terminal stays.
FailStays(t) ==
    /\ term[t] # Idle /\ term[t].at = "refused" /\ term[t].disposed
    /\ Forget(t)

\* createSession throws: the error is shown and the selection ends.
Fail(t) ==
    /\ term[t] # Idle /\ term[t].at = "refused"
    /\ IF term[t].disposed THEN Forget(t) ELSE Deselect(t)

\* onopen: the size is sent and the pings start.
Opens(t) == Goes(t, {"connecting"}, "open")

\* The shell exits, the server closes or the connection is lost.
SocketEnds(t) == Goes(t, {"connecting", "open"}, "ended")

\* Faulty variant: whoever is closed deselects.
CloseDeselects(t) == term[t] # Idle /\ term[t].at = "ended" /\ Deselect(t)

\* onclose.
Close(t) ==
    /\ term[t] # Idle /\ term[t].at = "ended"
    /\ IF term[t].disposed THEN Forget(t) ELSE Deselect(t)

-----------------------------------------------------------------------------

User ==
    \/ \E k \in Keys : TryConnect(k)
    \/ ConfirmFailed \/ CancelFailed \/ ConfirmReplace \/ CancelReplace
    \/ Disconnect
    \/ \E v \in {"main", "settings"} : ToggleView(v)

Next ==
    \/ User
    \/ \E l \in SUBSET Keys : ListBecomes(l)
    \/ Switched
    \/ \E t \in Terminals : Answers(t) \/ Refuses(t) \/ Connect(t) \/ Fail(t)
                            \/ Opens(t) \/ SocketEnds(t) \/ Close(t)

Spec == Init /\ [][Next]_vars

\* Requests are answered or fail (the handler's timeout, sessions.go:113),
\* connections open or fail, and the browser runs the callbacks that are due.
Fairness ==
    \A t \in Terminals :
      /\ WF_vars(Answers(t) \/ Refuses(t))
      /\ WF_vars(Opens(t) \/ SocketEnds(t))
      /\ WF_vars(Connect(t)) /\ WF_vars(Fail(t)) /\ WF_vars(Close(t))

FairSpec == Spec /\ Fairness

-----------------------------------------------------------------------------
(* Properties                                                              *)

\* A WebSocket that connects or is open belongs to the terminal that is shown,
\* whatever was unmounted while its session was being created
\* (TerminalSession.tsx:25-26, 55-61).
SocketsAreCurrent ==
    \A t \in Effective : term[t].at \in {"connecting", "open"} =>
      ~term[t].disposed /\ term[t].key = Shown

\* "Switching clusters while a shell is open prompts via ConfirmDialog": one
\* terminal takes the place of another only from the dialog (App.tsx:74-81).
ReplaceAsks ==
    [][Shown # None /\ Shown' \notin {None, Shown} => pending = Shown' /\ pending' = None]_vars

\* What a terminal that is no longer mounted hears does not touch the selection
\* of the one that is (TerminalSession.tsx:26, 38, 43).
GoneTerminalsAreSilent ==
    [][\A t \in Effective : term[t].disposed /\ term'[t] = Idle => selected' = selected]_vars

\* A terminal that is shown opens, or does not stay: whatever fails on the way
\* takes the selection back (TerminalSession.tsx:38, 41-43).
TerminalsSettle ==
    \A t \in Terminals : t \in Mounted /\ term[t].at # "open" ~> t \notin Mounted \/ term[t].at = "open"

=============================================================================
