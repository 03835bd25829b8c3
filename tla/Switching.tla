----------------------------- MODULE Switching ------------------------------
(***************************************************************************)
(* The current management cluster, as the server and a browser tab know    *)
(* it: handlePutMgmtsCurrent and handleGetMgmts (mgmts_api.go), which      *)
(* write and read s.opts without a lock, field after field;                *)
(* handlePutConfig (config_api.go), which writes one of these fields with  *)
(* all other settings; the picker (components/MgmtPicker.tsx) and the      *)
(* header of App.tsx; the calls of api/client.ts; and a session, whose     *)
(* kubeconfig and context handlePostSessions takes from s.opts one after   *)
(* the other (sessions.go).                                                *)
(*                                                                         *)
(* One tab, with one terminal at a time: Page has the terminals that are   *)
(* unmounted and still wait.  Other tabs switch as well.  ServeFeed has    *)
(* what a switch does to the list of clusters, Settings the rest of a      *)
(* configuration that is saved.                                            *)
(***************************************************************************)
EXTENDS Naturals

CONSTANTS
    Mgmts,      \* the management clusters of the configuration
    Default,    \* the cluster of the default kubeconfig, which has no name
    Puts,       \* bound: PUT /mgmts/current requests in flight
    Torn,       \* a string read or assigned while another is: no cluster's
    None,       \* no name: "", a dash in the header
    Loading     \* the picker's answer is not there

ASSUME SwitchingAssumption ==
    /\ Mgmts # {}
    /\ Torn \notin Mgmts /\ None \notin Mgmts /\ Torn # None
    /\ Default \notin Mgmts \cup {Torn, None}
    /\ Loading \notin Mgmts \cup {Torn, None}

VARIABLES
    client,     \* s.opts.CapiClient
    context,    \* s.opts.MgmtContext
    current,    \* s.opts.AppConfig.ManagementClusters.Current
    put,        \* the requests to switch
    first,      \* the tab's first GET /mgmts
    header,     \* mgmtCluster
    open,       \* mgmtPickerOpen
    data,       \* the picker's data.current
    copies,     \* what it is in configurations settings views have read
    shell,      \* the terminal
    mixed,      \* history: two switches were handled at once, and none alone since
    adrift,     \* history: the header may not be what the server has
    reverted    \* history: a save of settings has changed current, no switch since

server == <<client, context, current>>
saves == <<copies, reverted>>
tab == <<first, header, open, data>>
vars == <<server, put, tab, shell, mixed, adrift, saves>>

-----------------------------------------------------------------------------

Clients == Mgmts \cup {Default}

\* By whom a switch is awaited: the picker (busy), the tab whose picker has
\* been closed since, or another tab.  alone: no other was in flight meanwhile.
Requests == [at : {"sent", "client", "context", "ok", "failed"}, name : Mgmts,
             by : {"picker", "tab", "other"}, alone : BOOLEAN]
\* crossed: another switch, or one of which the tab does not know, came between.
Shells == [at : {"asked", "fetched", "answered", "open"},
           mgmt : Clients \cup {None}, context : Clients \cup {Torn, None}, crossed : BOOLEAN]
Idle == [at |-> "idle"]

Names == Mgmts \cup {Torn, None}
InFlight == {p \in Puts : put[p] # Idle}
Busy == \E p \in InFlight : put[p].by = "picker"

TypeOK ==
    /\ client \in Clients /\ context \in Clients \cup {Torn} /\ current \in Names
    /\ copies \in SUBSET (Names \ {Torn})
    /\ put \in [Puts -> Requests \cup {Idle}]
    /\ first \in [at : {"asked", "answered", "over"}, name : Names, clean : BOOLEAN]
    /\ header \in Names
    /\ open \in BOOLEAN
    /\ data \in Names \cup {Loading}
    /\ shell \in Shells \cup {Idle}
    /\ mixed \in BOOLEAN
    /\ adrift \in BOOLEAN
    /\ reverted \in BOOLEAN
    /\ Busy => open /\ data # Loading
    /\ \A p, q \in InFlight : put[p].by = "picker" /\ put[q].by = "picker" => p = q

Asked == [at |-> "asked", name |-> None, clean |-> FALSE]
Over == [at |-> "over", name |-> None, clean |-> FALSE]

\* indexOfCurrentEntry: when the configuration names no cluster, its only entry,
\* or the default kubeconfig's.
Chosen(name) ==
    IF name # None THEN {name}
    ELSE IF \E m \in Mgmts : Mgmts = {m} THEN Mgmts ELSE {Default}

Init ==
    /\ current \in Mgmts \cup {None}
    /\ client \in Chosen(current)
    /\ context = client
    /\ copies = {}
    /\ put = [p \in Puts |-> Idle]
    /\ first = Asked
    /\ header = None
    /\ open = FALSE
    /\ data = Loading
    /\ shell = Idle
    /\ mixed = FALSE
    /\ adrift = TRUE
    /\ reverted = FALSE

\* What a reader of the current cluster can get: while it is being assigned, no
\* name at all.
ReadCurrent ==
    {current} \cup {x \in {Torn} : \E p \in InFlight : put[p].at = "context"}
ReadContext ==
    {context} \cup {x \in {Torn} : \E p \in InFlight : put[p].at = "client"}

Crossed == IF shell = Idle THEN Idle ELSE [shell EXCEPT !.crossed = TRUE]

-----------------------------------------------------------------------------
(* PUT /mgmts/current                                                      *)

\* A request for m by w: two in flight are alone neither.
Send(m, w) ==
    \E p \in Puts \ InFlight :
      put' = [q \in Puts |->
                IF q = p THEN [at |-> "sent", name |-> m, by |-> w, alone |-> InFlight = {}]
                ELSE IF q \in InFlight THEN [put[q] EXCEPT !.alone = FALSE]
                ELSE Idle]

\* The name is unknown, the cluster does not answer, or the request is lost.
PutRefused(p) ==
    /\ put[p] # Idle /\ put[p].at = "sent"
    /\ put' = [put EXCEPT ![p] = IF @.by = "other" THEN Idle ELSE [@ EXCEPT !.at = "failed"]]
    /\ UNCHANGED <<server, tab, shell, mixed, adrift, saves>>

\* A step of the handler of p: what the tab sees may no longer be so if another
\* tab is switching.
Handles(p, from) ==
    /\ put[p] # Idle /\ put[p].at = from
    /\ IF put[p].by = "other"
       THEN adrift' = TRUE /\ shell' = Crossed
       ELSE UNCHANGED <<adrift, shell>>

\* s.opts.CapiClient = c.
SetsClient(p) ==
    /\ Handles(p, "sent")
    /\ client' = put[p].name
    /\ put' = [put EXCEPT ![p].at = "client"]
    /\ first' = [first EXCEPT !.clean = FALSE]
    /\ mixed' = (mixed \/ ~put[p].alone)
    /\ UNCHANGED <<context, current, header, open, data, saves>>

\* s.opts.MgmtContext = c.Context().
SetsContext(p) ==
    /\ Handles(p, "client")
    /\ context' = put[p].name
    /\ put' = [put EXCEPT ![p].at = "context"]
    /\ mixed' = (mixed \/ ~put[p].alone)
    /\ UNCHANGED <<client, current, tab, saves>>

\* Faulty variant: the configuration keeps the old name.
SetsNothing(p) ==
    /\ Handles(p, "context")
    /\ put' = [put EXCEPT ![p] = IF @.by = "other" THEN Idle ELSE [@ EXCEPT !.at = "ok"]]
    /\ mixed' = ~put[p].alone
    /\ UNCHANGED <<server, tab, saves>>

\* Current = body.Name; the answer is 200.  If settings are saved at the same
\* time the string may be of both.
SetsCurrent(p) ==
    /\ Handles(p, "context")
    /\ current' \in {put[p].name} \cup {x \in {Torn} : copies \ {put[p].name} # {}}
    /\ reverted' = (current' = Torn)
    /\ put' = [put EXCEPT ![p] = IF @.by = "other" THEN Idle ELSE [@ EXCEPT !.at = "ok"]]
    /\ mixed' = ~put[p].alone
    /\ UNCHANGED <<client, context, tab, copies>>

\* What is left of a request when its handler has assigned the next field.
Past(r) ==
    IF r.at = "client" THEN [r EXCEPT !.at = "context"]
    ELSE IF r.by = "other" THEN Idle ELSE [r EXCEPT !.at = "ok"]

\* Two handlers assign the same string at once: it is of both.
SwitchesRace(p, q) ==
    /\ p # q /\ put[p] # Idle /\ put[q] # Idle /\ put[p].name # put[q].name
    /\ put[p].at = put[q].at
    /\ \/ put[p].at = "client" /\ context' = Torn /\ UNCHANGED <<current, reverted>>
       \/ put[p].at = "context" /\ current' = Torn /\ reverted' = FALSE /\ UNCHANGED context
    /\ put' = [put EXCEPT ![p] = Past(@), ![q] = Past(@)]
    /\ mixed' = TRUE
    /\ IF "other" \in {put[p].by, put[q].by}
       THEN adrift' = TRUE /\ shell' = Crossed
       ELSE UNCHANGED <<adrift, shell>>
    /\ UNCHANGED <<client, tab, copies>>

\* The connection is lost: the tab takes the switch for failed, the handler goes
\* on with it, and it is as if another tab had asked.
AnswerLost(p) ==
    /\ put[p] # Idle /\ put[p].at # "failed" /\ put[p].by # "other"
    /\ put' = [put EXCEPT ![p] = IF @.at = "ok" THEN Idle ELSE [@ EXCEPT !.by = "other"]]
    /\ adrift' = TRUE
    /\ shell' = Crossed
    /\ UNCHANGED <<server, tab, mixed, saves>>

OtherTabSwitches(m) ==
    /\ Send(m, "other")
    /\ UNCHANGED <<server, tab, shell, mixed, adrift, saves>>

-----------------------------------------------------------------------------
(* GET and PUT /config, of any tab                                         *)

\* handleGetConfig: a settings view has what is current, and may save it at any
\* time.
ReadsSettings ==
    /\ current # Torn
    /\ copies' = copies \cup {current}
    /\ UNCHANGED <<server, put, tab, shell, mixed, adrift, reverted>>

\* s.opts.AppConfig = incoming: what was current when the settings were read.
Stores(x) ==
    /\ current' = x
    /\ reverted' = (reverted \/ x # current)
    /\ UNCHANGED <<client, context, copies>>

\* handlePutConfig: no client, and no context, is chosen anew.
SavesSettings(x) ==
    /\ Stores(x)
    /\ UNCHANGED <<put, tab, shell, mixed, adrift>>

-----------------------------------------------------------------------------
(* The picker and the header                                               *)

\* handleGetMgmts, for the tab's first GET.
FirstAnswered ==
    /\ first.at = "asked"
    /\ \E x \in ReadCurrent :
         first' = [at |-> "answered", name |-> x,
                   clean |-> /\ ~mixed /\ ~reverted
                             /\ \A p \in InFlight : put[p].at = "sent"]
    /\ UNCHANGED <<server, put, header, open, data, shell, mixed, adrift, saves>>

\* The same while settings are saved.
FirstRaces(x) ==
    /\ first.at = "asked" /\ x # current
    /\ Stores(x)
    /\ first' = [at |-> "answered", name |-> Torn, clean |-> FALSE]
    /\ UNCHANGED <<put, header, open, data, shell, mixed, adrift>>

\* setMgmtCluster, with a dash for no name.
FirstArrives ==
    /\ first.at = "answered"
    /\ header' = first.name
    /\ adrift' = ~first.clean
    /\ first' = Over
    /\ UNCHANGED <<server, put, open, data, shell, mixed, saves>>

\* catch(() => {}).
FirstFails ==
    /\ first.at # "over"
    /\ first' = Over
    /\ UNCHANGED <<server, put, header, open, data, shell, mixed, adrift, saves>>

OpenPicker ==
    /\ ~open
    /\ open' = TRUE
    /\ UNCHANGED <<server, put, first, header, data, shell, mixed, adrift, saves>>

\* The picker's own GET /mgmts.  If it fails, there is nothing to pick.
PickerLoads ==
    /\ open /\ data = Loading
    /\ \E x \in ReadCurrent : data' = x
    /\ UNCHANGED <<server, put, first, header, open, shell, mixed, adrift, saves>>

\* The picker is unmounted: a request goes on, for the tab.
Orphaned ==
    [p \in Puts |-> IF p \in InFlight /\ put[p].by = "picker"
                    THEN [put[p] EXCEPT !.by = "tab"] ELSE put[p]]

\* The same while settings are saved.
PickerRaces(x) ==
    /\ open /\ data = Loading /\ x # current
    /\ Stores(x)
    /\ data' = Torn
    /\ UNCHANGED <<put, first, header, open, shell, mixed, adrift>>

\* Faulty variant: a picker that is opened again is as busy as it was.
CloseBusy ==
    /\ open
    /\ open' = FALSE
    /\ data' = Loading
    /\ UNCHANGED <<server, put, first, header, shell, mixed, adrift, saves>>

\* Escape, the header's button, or the current cluster picked again.
ClosePicker ==
    /\ open
    /\ open' = FALSE
    /\ data' = Loading
    /\ put' = Orphaned
    /\ UNCHANGED <<server, first, header, shell, mixed, adrift, saves>>

\* The settings are opened and closed: another picker in the same place.
RemountPicker ==
    /\ open
    /\ data' = Loading
    /\ put' = Orphaned
    /\ UNCHANGED <<server, first, header, open, shell, mixed, adrift, saves>>

\* pick: rows are disabled while a request of this picker is in flight.
Pick(m) ==
    /\ open /\ data # Loading /\ data # m
    /\ ~Busy
    /\ Send(m, "picker")
    /\ UNCHANGED <<server, tab, shell, mixed, adrift, saves>>

\* Faulty variant: a terminal that is not connected yet stays.
SwitchedKeepingAsked(p) ==
    /\ put[p] # Idle /\ put[p].at = "ok"
    /\ header' = put[p].name
    /\ shell' = IF shell # Idle /\ shell.at = "open" THEN Idle ELSE shell
    /\ open' = FALSE
    /\ data' = Loading
    /\ put' = [Orphaned EXCEPT ![p] = Idle]
    /\ adrift' = ~put[p].alone
    /\ UNCHANGED <<server, first, mixed, saves>>

\* The answer: onSwitched names the cluster in the header and ends the
\* selection, and with it the terminal; onClose closes whatever picker is open.
Switched(p) ==
    /\ put[p] # Idle /\ put[p].at = "ok"
    /\ header' = put[p].name
    /\ shell' = Idle
    /\ open' = FALSE
    /\ data' = Loading
    /\ put' = [Orphaned EXCEPT ![p] = Idle]
    /\ adrift' = ~put[p].alone
    /\ UNCHANGED <<server, first, mixed, saves>>

\* The picker shows the error and can be used again.
SwitchFails(p) ==
    /\ put[p] # Idle /\ put[p].at = "failed"
    /\ put' = [put EXCEPT ![p] = Idle]
    /\ UNCHANGED <<server, tab, shell, mixed, adrift, saves>>

-----------------------------------------------------------------------------
(* The terminal and POST /sessions                                         *)

\* The terminal is mounted; a session is asked for.
Connect ==
    /\ shell = Idle
    /\ shell' = [at |-> "asked", mgmt |-> None, context |-> None, crossed |-> FALSE]
    /\ UNCHANGED <<server, put, tab, mixed, adrift, saves>>

\* FetchKubeconfig, with the client of the moment.
Fetches ==
    /\ shell # Idle /\ shell.at = "asked"
    /\ shell' = [shell EXCEPT !.at = "fetched", !.mgmt = client]
    /\ UNCHANGED <<server, put, tab, mixed, adrift, saves>>

\* PrepareSpawn and create, with the context of the moment.
Prepares ==
    /\ shell # Idle /\ shell.at = "fetched"
    /\ \E x \in ReadContext : shell' = [shell EXCEPT !.at = "answered", !.context = x]
    /\ UNCHANGED <<server, put, tab, mixed, adrift, saves>>

\* The WebSocket opens.
Opens ==
    /\ shell # Idle /\ shell.at = "answered"
    /\ shell' = [shell EXCEPT !.at = "open"]
    /\ UNCHANGED <<server, put, tab, mixed, adrift, saves>>

\* Any step fails, the shell ends, or the terminal is unmounted.
Ends ==
    /\ shell # Idle
    /\ shell' = Idle
    /\ UNCHANGED <<server, put, tab, mixed, adrift, saves>>

-----------------------------------------------------------------------------

Next ==
    \/ \E p \in Puts : \/ PutRefused(p) \/ SetsClient(p) \/ SetsContext(p) \/ SetsCurrent(p)
                       \/ AnswerLost(p) \/ Switched(p) \/ SwitchFails(p)
    \/ \E p, q \in Puts : SwitchesRace(p, q)
    \/ \E m \in Mgmts : OtherTabSwitches(m) \/ Pick(m)
    \/ ReadsSettings
    \/ \E x \in copies : SavesSettings(x) \/ FirstRaces(x) \/ PickerRaces(x)
    \/ FirstAnswered \/ FirstArrives \/ FirstFails
    \/ OpenPicker \/ PickerLoads \/ ClosePicker \/ RemountPicker
    \/ Connect \/ Fetches \/ Prepares \/ Opens \/ Ends

Spec == Init /\ [][Next]_vars

-----------------------------------------------------------------------------
(* Properties                                                              *)

\* When no switch is under way the header names the cluster of client and
\* context, if it names one, and is what the configuration says, unless settings
\* read before the last switch were saved after it.  Nothing is said when another
\* tab has switched, an answer was lost, or a switch overlapped another one or the
\* first GET, nor of a tab that came after such a save (mgmts_api.go:63-68,
\* config_api.go:24, App.tsx:46, 97).
HeaderIsCurrent ==
    InFlight = {} /\ ~adrift =>
      /\ client = context
      /\ header \in {None, client}
      /\ ~reverted => header = current

\* A shell's prompt says on which management cluster it is, and the header names
\* the same one, although kubeconfig and context were read at different times
\* (sessions.go:114, 128): a switch that comes between takes the shell with it.
ShellMatchesHeader ==
    InFlight = {} /\ ~adrift /\ shell # Idle /\ shell.at = "open" /\ ~shell.crossed =>
      /\ shell.mgmt = shell.context
      /\ header \in {None, shell.mgmt}

\* "Live PTY sessions keep their already-fetched kubeconfig and continue running"
\* (docs/superpowers/specs/2026-05-09-kapish-design.md:152): a switch leaves the
\* open shell of its tab alone.
ShellsSurviveSwitch ==
    [][\A p \in Puts : Switched(p) /\ shell # Idle /\ shell.at = "open" => shell' = shell]_vars

=============================================================================
