-------------------------------- MODULE Tui ---------------------------------
(***************************************************************************)
(* The terminal UI (internal/tui): one event loop, Model.Update, and the   *)
(* commands it starts, which run on their own and answer with a message.   *)
(* The loop handles one message at a time, in whatever order the answers   *)
(* come, and stops while a shell has the terminal (tea.ExecProcess).       *)
(*                                                                         *)
(* A list remembers the client it was started with.  Clusters are numbered *)
(* in the order they are sorted in; their phase is a choice of the model   *)
(* when it is looked at, and which of them a shell is for is left out, as  *)
(* are the theme and the configuration.  The refresh tick is always        *)
(* pending: its handler is the only one to start the next.  Nobody sends   *)
(* clusterEventMsg, so it is left out.                                     *)
(***************************************************************************)
EXTENDS Integers, FiniteSets

CONSTANTS
    Keys,           \* clusters, numbered in sorting order
    NoKey,
    Mgmts,          \* the configured management clusters
    Startup,        \* the one the TUI is started on
    MaxPlans,       \* bound: shells being prepared or run
    MaxLoads,       \* bound: lists in flight for one management cluster
    MaxSwitches     \* bound: switches of the management cluster

ASSUME TuiAssumption ==
    /\ Keys \subseteq Nat
    /\ IsFiniteSet(Keys)
    /\ NoKey \notin Keys
    /\ Startup \in Mgmts
    /\ MaxPlans \in Nat
    /\ MaxLoads \in Nat \ {0}
    /\ MaxSwitches \in Nat

VARIABLES
    screen,     \* Model.screen
    list,       \* Model.clusters
    match,      \* the clusters the filter's text matches
    focused,    \* the filter has the keyboard
    cursor,     \* Model.cursor, from 0
    sticky,     \* Model.stickyKey
    confirming, \* Model.confirmingSpawn
    client,     \* Model.cfg.CapiClient and mgmtContext
    source,     \* history: the management cluster the list came from
    loads,      \* lists in flight, by management cluster
    switching,  \* switches in flight
    switches,   \* how many there have been (bound)
    plans,      \* how many spawns are at each stage
    oneShot,    \* Config.OneShot
    quit        \* no, asked (tea.Quit is a command too), yes

listVars == <<list, source>>
cursorVars == <<cursor, sticky>>
filterVars == <<match, focused>>
mgmtVars == <<client, switching, switches>>
vars == <<screen, listVars, cursorVars, filterVars, confirming, mgmtVars,
          loads, plans, oneShot, quit>>

-----------------------------------------------------------------------------

Screens == {"loading", "ready", "spawning", "settings", "picker", "error"}
Stages == {"free", "fetching", "ready", "running", "exited"}

TypeOK ==
    /\ screen \in Screens
    /\ list \in SUBSET Keys
    /\ match \in SUBSET Keys
    /\ focused \in BOOLEAN
    /\ cursor \in Nat
    /\ sticky \in Keys \cup {NoKey}
    /\ confirming \in BOOLEAN
    /\ client \in Mgmts
    /\ source \in Mgmts
    /\ loads \in [Mgmts -> 0..MaxLoads]
    /\ switching \in SUBSET Mgmts
    /\ switches \in 0..MaxSwitches
    /\ plans \in [Stages -> 0..MaxPlans]
    /\ oneShot \in BOOLEAN
    /\ quit \in {"no", "asked", "yes"}

Init ==
    /\ screen = "loading"
    /\ list = {}
    /\ match = Keys
    /\ focused = FALSE
    /\ cursor = 0
    /\ sticky = NoKey
    /\ confirming = FALSE
    /\ client = Startup
    /\ source = Startup
    /\ loads = [m \in Mgmts |-> IF m = Startup THEN 1 ELSE 0]
    /\ switching = {}
    /\ switches = 0
    /\ plans = [s \in Stages |-> IF s = "free" THEN MaxPlans ELSE 0]
    /\ oneShot \in BOOLEAN
    /\ quit = "no"

\* A shell has the terminal.
InShell == plans["running"] > 0

\* The event loop takes the next message.
Listening == quit # "yes" /\ ~InShell

-----------------------------------------------------------------------------
(* The list and its cursor                                                 *)

\* Model.filtered, as a set; its i-th member from 0; the place of k in it.
Filtered == list \cap match
Place(S, k) == Cardinality({j \in S : j < k})
Member(S, i) == CHOOSE k \in S : Place(S, k) = i

\* The cursor stays on its cluster if S shows it, else moves to place i.
Follow(S, i) ==
    IF sticky \in S
    THEN cursor' = Place(S, sticky) /\ UNCHANGED sticky
    ELSE /\ cursor' = i
         /\ sticky' = IF S = {} THEN sticky ELSE Member(S, i)

\* Faulty variant: an empty list puts the cursor before its first row.
RecomputeUnclamped(S) ==
    Follow(S, IF cursor < Cardinality(S) THEN cursor ELSE Cardinality(S) - 1)

\* Faulty variant: the cursor stays on its row, whatever is in it.
RecomputeKeepingRow(S) ==
    /\ cursor' = IF cursor < Cardinality(S) THEN cursor
                 ELSE IF S = {} THEN 0 ELSE Cardinality(S) - 1
    /\ sticky' = IF S = {} THEN sticky ELSE Member(S, cursor')

\* recomputeFiltered: S is what the list shows now.
Recompute(S) ==
    Follow(S, IF cursor < Cardinality(S) THEN cursor
              ELSE IF S = {} THEN 0 ELSE Cardinality(S) - 1)

\* Faulty variant: the cursor moves without stickyKeyFromCursor.
MoveLeavesSticky(i) ==
    /\ cursor' = i
    /\ UNCHANGED sticky

\* The cursor moves to place i: stickyKeyFromCursor.
MoveTo(i) ==
    /\ cursor' = i
    /\ sticky' = IF i < Cardinality(Filtered) THEN Member(Filtered, i) ELSE sticky

-----------------------------------------------------------------------------
(* Commands and their answers                                              *)

\* loadCmd: a list with the client of this moment.
Load(m) ==
    /\ loads[m] < MaxLoads
    /\ loads' = [loads EXCEPT ![m] = @ + 1]

Answered(m) ==
    /\ Listening
    /\ loads[m] > 0
    /\ loads' = [loads EXCEPT ![m] = @ - 1]
    /\ UNCHANGED <<filterVars, confirming, mgmtVars, plans, oneShot, quit>>

\* clustersLoadedMsg: whatever the screen was, the list is shown.
Loaded(m, L) ==
    /\ Answered(m)
    /\ list' = L
    /\ source' = m
    /\ Recompute(L \cap match)
    /\ screen' = "ready"

\* errMsg from a list.
LoadFails(m) ==
    /\ Answered(m)
    /\ screen' = "error"
    /\ UNCHANGED <<listVars, cursorVars>>

\* Faulty variant: the tick starts the next and does not list.
TickWithoutList == Listening /\ UNCHANGED vars

\* refreshTickMsg: list in the background, and start the next tick.
Tick ==
    /\ Listening
    /\ Load(client)
    /\ UNCHANGED <<screen, listVars, cursorVars, filterVars, confirming,
                   mgmtVars, plans, oneShot, quit>>

\* mgmtSwitchedMsg: the probe of m has succeeded.
Switched(m) ==
    /\ Listening
    /\ m \in switching
    /\ switching' = switching \ {m}
    /\ client' = m
    /\ screen' = "loading"
    /\ Load(m)
    /\ UNCHANGED <<listVars, cursorVars, filterVars, confirming, switches,
                   plans, oneShot, quit>>

\* errMsg from a switch.
SwitchFails(m) ==
    /\ Listening
    /\ m \in switching
    /\ switching' = switching \ {m}
    /\ screen' = "error"
    /\ UNCHANGED <<listVars, cursorVars, filterVars, confirming, client, switches,
                   loads, plans, oneShot, quit>>

\* A spawn goes from stage a to stage b.
Becomes(a, b) ==
    /\ plans[a] > 0
    /\ plans' = [plans EXCEPT ![a] = @ - 1, ![b] = @ + 1]

\* spawnCmd.
Spawn == Becomes("free", "fetching")

\* The kubeconfig is fetched and the plan prepared, dir and all: spawnReadyMsg
\* is on its way, whatever the event loop is doing.
Prepared ==
    /\ quit # "yes"
    /\ Becomes("fetching", "ready")
    /\ UNCHANGED <<screen, listVars, cursorVars, filterVars, confirming,
                   mgmtVars, loads, oneShot, quit>>

\* Faulty variant: the failure leaves the screen as it is.
SpawnFailsUnseen ==
    /\ Listening
    /\ Becomes("fetching", "free")
    /\ quit' = IF oneShot THEN "asked" ELSE quit
    /\ UNCHANGED <<screen, listVars, cursorVars, filterVars, confirming,
                   mgmtVars, loads, oneShot>>

\* spawnFailedMsg.
SpawnFails ==
    /\ Listening
    /\ Becomes("fetching", "free")
    /\ screen' = "error"
    /\ quit' = IF oneShot THEN "asked" ELSE quit
    /\ UNCHANGED <<listVars, cursorVars, filterVars, confirming, mgmtVars, loads,
                   oneShot>>

\* spawnReadyMsg: tea.ExecProcess hands the terminal over.
Execs ==
    /\ Listening
    /\ Becomes("ready", "running")
    /\ UNCHANGED <<screen, listVars, cursorVars, filterVars, confirming,
                   mgmtVars, loads, oneShot, quit>>

\* The shell exits; its callback cleans the plan up and sends shellExitedMsg.
ShellExits ==
    /\ Becomes("running", "exited")
    /\ UNCHANGED <<screen, listVars, cursorVars, filterVars, confirming,
                   mgmtVars, loads, oneShot, quit>>

\* shellExitedMsg.
ShellExited ==
    /\ Listening
    /\ Becomes("exited", "free")
    /\ IF oneShot THEN quit' = "asked" /\ UNCHANGED screen
                  ELSE screen' = "ready" /\ UNCHANGED quit
    /\ UNCHANGED <<listVars, cursorVars, filterVars, confirming, mgmtVars,
                   loads, oneShot>>

\* The message of tea.Quit ends the loop.
Quits ==
    /\ Listening
    /\ quit = "asked"
    /\ quit' = "yes"
    /\ UNCHANGED <<screen, listVars, cursorVars, filterVars, confirming,
                   mgmtVars, loads, plans, oneShot>>

-----------------------------------------------------------------------------
(* The keyboard                                                            *)

\* A pending confirmation takes every key.
Confirms(yes) ==
    /\ Listening
    /\ confirming
    /\ confirming' = FALSE
    /\ IF yes THEN screen' = "spawning" /\ Spawn
              ELSE UNCHANGED <<screen, plans>>
    /\ UNCHANGED <<listVars, cursorVars, filterVars, mgmtVars, loads,
                   oneShot, quit>>

\* The filter takes every other key while it is focused, on any screen.
Filters ==
    /\ Listening
    /\ ~confirming /\ focused
    /\ \/ focused' = FALSE /\ match' = Keys /\ Recompute(list)              \* esc
       \/ focused' = FALSE /\ UNCHANGED <<match, cursorVars>>               \* enter
       \/ /\ UNCHANGED focused                                              \* text
          /\ match' \in SUBSET Keys
          /\ Recompute(list \cap match')
    /\ UNCHANGED <<screen, listVars, confirming, mgmtVars, loads, plans,
                   oneShot, quit>>

\* A key reaches the screen.
On(s) == Listening /\ ~confirming /\ ~focused /\ screen = s

\* q on the list and on the error screen.
AsksToQuit ==
    /\ On("ready") \/ On("error")
    /\ quit' = "asked"
    /\ UNCHANGED <<screen, listVars, cursorVars, filterVars, confirming,
                   mgmtVars, loads, plans, oneShot>>

\* r on the list and on the error screen.
Refreshes ==
    /\ On("ready") \/ On("error")
    /\ screen' = "loading"
    /\ Load(client)
    /\ UNCHANGED <<listVars, cursorVars, filterVars, confirming, mgmtVars, plans,
                   oneShot, quit>>

\* up, down, g and G.
Moves ==
    /\ On("ready")
    /\ \/ cursor < Cardinality(Filtered) - 1 /\ MoveTo(cursor + 1)
       \/ cursor > 0 /\ MoveTo(cursor - 1)
       \/ MoveTo(0)
       \/ Filtered # {} /\ MoveTo(Cardinality(Filtered) - 1)
    /\ UNCHANGED <<screen, listVars, filterVars, confirming, mgmtVars, loads,
                   plans, oneShot, quit>>

\* /, m and s; esc in the picker and in the settings.
Goes ==
    /\ \/ On("ready") /\ focused' = TRUE /\ UNCHANGED screen
       \/ On("ready") /\ screen' \in {"picker", "settings"} /\ UNCHANGED focused
       \/ (On("picker") \/ On("settings")) /\ screen' = "ready" /\ UNCHANGED focused
    /\ UNCHANGED <<listVars, cursorVars, match, confirming, mgmtVars, loads,
                   plans, oneShot, quit>>

\* enter on the list: beginSpawn.
BeginSpawn ==
    /\ On("ready")
    /\ cursor < Cardinality(Filtered)
    /\ \/ /\ confirming' = TRUE                    \* it is Failed or Deleting
          /\ UNCHANGED <<screen, plans>>
       \/ /\ screen' = "spawning"
          /\ Spawn
          /\ UNCHANGED confirming
    /\ UNCHANGED <<listVars, cursorVars, filterVars, mgmtVars, loads, oneShot, quit>>

\* enter in the picker: switchMgmtCmd for any of the entries.
Picks(m) ==
    /\ On("picker")
    /\ switches < MaxSwitches
    /\ m \notin switching
    /\ switching' = switching \cup {m}
    /\ switches' = switches + 1
    /\ screen' = "loading"
    /\ UNCHANGED <<listVars, cursorVars, filterVars, confirming, client, loads,
                   plans, oneShot, quit>>

-----------------------------------------------------------------------------

Lists(m) == \E L \in SUBSET Keys : Loaded(m, L)

Keyboard ==
    \/ \E yes \in BOOLEAN : Confirms(yes)
    \/ Filters \/ AsksToQuit \/ Refreshes \/ Moves \/ Goes \/ BeginSpawn
    \/ \E m \in Mgmts : Picks(m)

Next ==
    \/ Keyboard
    \/ \E m \in Mgmts : Lists(m) \/ LoadFails(m) \/ Switched(m) \/ SwitchFails(m)
    \/ Tick \/ Quits
    \/ Prepared \/ SpawnFails \/ Execs \/ ShellExits \/ ShellExited

Spec == Init /\ [][Next]_vars

\* Commands have timeouts, the tick keeps coming, and a management cluster that
\* is asked again and again lists its clusters in the end.  Messages wait in the
\* order they came for the loop to take them, so a shell delays them but passes
\* none over: hence SF.  Nothing makes a user type or leave a shell.
Fairness ==
    /\ SF_vars(Tick)
    /\ \A m \in Mgmts :
         /\ SF_vars(Lists(m))
         /\ SF_vars(Switched(m) \/ SwitchFails(m))

FairSpec == Spec /\ Fairness

-----------------------------------------------------------------------------
(* Properties                                                              *)

\* A cluster that stays on the list stays under the cursor, however lists and
\* filters move it, unless a key moves the cursor: enter is for the cluster that
\* was highlighted (model.go:91-112, 233-254, 279-291).
HighlightStays ==
    [][/\ ~Moves
       /\ cursor < Cardinality(Filtered)
       /\ Member(Filtered, cursor) \in Filtered'
       => /\ cursor' < Cardinality(Filtered')
          /\ Member(Filtered', cursor') = Member(Filtered, cursor)]_vars

\* The loading and spawning screens take no keys, not even q: something that
\* will leave them is always on its way, the end of a one-shot TUI included,
\* however many commands of different kinds have crossed (model.go:114-176,
\* 211-270).
WaitsForSomething ==
    /\ screen = "loading" => switching # {} \/ \E m \in Mgmts : loads[m] > 0
    /\ screen = "spawning" => quit # "no" \/ plans["free"] < MaxPlans

\* An answer of the management cluster that was left may put its clusters under
\* the name of the new one, but not for good (model.go:156-170, commands.go:15-29).
ListBecomesCurrent == <>[](source = client \/ quit = "yes" \/ InShell)

=============================================================================
