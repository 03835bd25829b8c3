# kapish in TLA+

kapish opens shells on the workload clusters of a Cluster API management
cluster. `kapish` is a terminal UI; `kapish serve` is a web server whose
browser tabs show the same list and run the shells in terminals of their own.
This directory models the parts of both in which order, failure and shared
state decide whether the program is right, checks them with TLC on small
instances, and proves the safety of all of them with TLAPS for every size.

- [The system](#the-system): its components, their state and their hazards
- [The modules](#the-modules): what models what
- [The runs](#the-runs): what each shows, its bounds, its fairness
- [The proofs](#the-proofs)
- [What the models leave out](#what-the-models-leave-out)
- [Plan](#plan)

Paths are relative to the repository root (`src/` in `PROJECT.json`); "the
design document" is `docs/superpowers/specs/2026-05-09-kapish-design.md`.

## The system

| component | code | state | operations | talks to |
|---|---|---|---|---|
| cluster cache | `internal/web/clustercache.go` | `byKey`, `subs`, the mutex `mu`, each subscriber's channel | replaceAll, applyEvent, snapshot, subscribe and its unsub | written by the feed and PUT /mgmts/current; read by the stream and GET /clusters |
| cluster stream | `sse.go`, `clusters.go` | one goroutine per connection | sync message, one message per event, return on disconnection | cache, browser |
| browser cluster list | `frontend/src/App.tsx`, `api/stream.ts` | `clusters`, GETs in flight, the EventSource; `selectedKey`, the two dialogs | refresh, onSync, onCluster, onError; select, confirm, cancel | GET /clusters, the stream, the terminal |
| cluster feed | `cmd/kapish/serve.go`, `internal/capi/watch.go`, `list.go` | a watch with its channel, a list in progress, the back-off | watch, reopen, apply, re-list on a tick | API server, cache |
| management clusters API | `mgmts_api.go` | `s.opts.CapiClient`, `MgmtContext`, the `current` field | GET /mgmts, PUT /mgmts/current | API server, cache, sessions, the picker and the header |
| browser terminals | `sessions.go`, `ws.go` | the session store, tokens, one handler and one copying goroutine per WebSocket, a PTY and a process | POST /sessions, the WebSocket, the janitor | session dirs, browser, operating system |
| session dirs and shutdown | `internal/shell/tempdir.go`, `spawn.go`, `cmd/kapish/lifecycle.go`, `server.go` | temp dirs holding kubeconfigs | create, remove, sweep at start, shutdown | file system |
| terminal UI | `internal/tui` | `Model`; commands in flight: lists, switches, spawns, the tick | Update, one message at a time | API server, session dirs, terminal |
| configuration file | `internal/config/write.go`, `load.go`, `template.go` | the file, its lock file, temp files | load, locked merge and rename, first-run template | TUI, server, editor |
| configuration API | `config_api.go` | `s.opts.AppConfig` | GET and PUT /config | configuration file, sessions, the `current` field of the management clusters API |
| browser terminal and settings views | `TerminalSession.tsx`, `SettingsView.tsx`, `SettingsSections.tsx`, `MgmtPicker.tsx` | a session and a socket per mounted terminal; `cfg`, drafts and saves in flight; the picker's request | mount, connect, unmount; edit, save, discard; pick | POST /sessions, WebSocket, configuration API, management clusters API |
| the rest | CAPI client, shell init files, command line, middleware, logging, layout | none that outlives a call | | |

What is hard in it, and what correctness means there:

- **Cache.** `applyEvent` sends to every subscriber while it holds `mu`, and
  the receivers need `mu` to leave. The sends must not block (the code drops
  instead), must not meet a channel that `unsub` has closed, and must leave
  every tab, whatever it has still to read, with the last word on each cluster
  it has not missed.
- **List.** Two unordered sources, a GET that replaces the list and a stream
  that patches it, and reconnections that lose everything in between. A tab
  must end up with the state of the cache and never rest on an old
  connection's list.
- **Feed.** Two goroutines write the cache from different reads of the API
  server: a list may be older than an event it overwrites, a watch that ends
  takes events with it. The cache must still converge.
- **Terminals.** A token is used once, although two requests may carry it; the
  janitor must not take a session that is being connected to; a half-failed
  start is undone by whichever defers were registered; a shell that ignores
  SIGHUP is killed after the grace period and waited for; no kubeconfig stays
  on disk with nobody to remove it.
- **Terminal UI.** Answers arrive in any order, on any screen. The cluster that is
  highlighted must stay so while lists and filters change around it, no screen may wait for an answer nobody will
  send, and the list must end as that of the current management cluster.
- **Page.** A terminal is unmounted for another cluster, for the settings, for
  a switch or because its row left the list, at any point of creating its
  session and its socket, and its callbacks come later. Only the terminal shown
  may be connected, one that is gone may touch nothing, and one shell is
  replaced by another only where the user was asked.
- **Switching.** PUT /mgmts/current assigns client, context and current one
  after the other, without a lock; GET /mgmts and POST /sessions read them
  likewise; the picker may be closed while it waits. PUT /config writes `current`
  too, with all other settings, as it was when a settings view read it. At the
  start there may be no `current`: then the server connects to the only entry or
  to the default kubeconfig and the header shows a dash. The header, the
  kubeconfig and the prompt of a shell must end up naming one management
  cluster.
- **Configuration.** Writers of several processes, a lock file that is removed,
  a memory copy that is changed before the file is, browsers that send back
  whole configurations they read earlier. What a view shows must be what the
  server has, a restart must lose nothing, and a save must not undo what its
  view has seen.

`PROJECT.json` lists every hazard at its line, with the properties that cover
it or the reason why none does.

## The modules

| module | models | state and actions in the code |
|---|---|---|
| `Broadcast` | what the cache promises its tabs: an atomic broadcast over queues that lose only their newest event | abstract |
| `ClusterCache` | `clustercache.go`, `sse.go` | `byKey`, `subs`, `chan` as in the code; `todo`: subscribers the running fan-out has not reached, not empty exactly while `applyEvent` holds `mu`; `handler`, `wire`: the SSE goroutine and its connection. `ReplaceAll`, `ApplyEvent` then one `FanOut` per subscriber, `Subscribe`, `WriteSync`, `WriteEvent`, `Disconnect`, `Return` (unsub) |
| `LiveList` | extends `ClusterCache` with the tab | `view`, `gets`, `loadErr` are the React state and the requests in flight; `Ask`, `Answer` (snapshot), `Reply`, `GetFails`, `OnSync`, `OnCluster` |
| `ServeFeed` | `serve.go`'s two goroutines, `watch.go`, `list.go`, PUT /mgmts/current | the watch and its channel, the list being held, the cache; the management clusters are external |
| `PtySessions` | `sessions.go`, `ws.go`, `spawn.go`, `tempdir.go`, `lifecycle.go`, the server's life | by session, `entry` (none, prepared, unused, used, removed, lost), `stale`, `ancient`, `dirs`, `shell`, `reaping`; by handler, `at` (its program counter, defers included), `of`, `open`, `bridging`; `server`. One action per early return, per defer, per signal; `Crash`, `Restart`, `Sweep` |
| `SessionLife` | what the server promises of a browser terminal: a session waits, is claimed at most once, has one shell at most, is over for good; its dir stays until then | abstract |
| `Tui` | `internal/tui` | `Model`'s fields and the commands in flight: `loads` per management cluster, `switching`, `plans` per stage; one action per message and per key |
| `ConfigFile` | `write.go`, `template.go` | `file`, the names the file on disk has; `lockFile`, the inode the lock's name leads to; by writer, `at`, `lk` (the lock file it has open) and `text` (what it is to write); `temps`. One action per system call that others can see: `Open` (called by `Save`), `Acquire`, `Render`, `MakeTemp`, `Rename`, `Fails`, `Unlock`, `RemoveLock`; `Crash`; `FindsNoFile`, `WritesTemplate`. `split` and `clobbered` are history |
| `Settings` | `SettingsView.tsx`, `SettingsSections.tsx`, `config_api.go`, the merge of `write.go` as it treats values, `load.go` | `mem` (`s.opts.AppConfig`), `file`, field by field: a field is a setting or one key of a map, so that env and aliases have a field for each key, as the merge (`write.go:136`) has; by view, `page`, `cfg`, `tab`, `draft`; `put`, the PUT requests with the fields each is for and the whole configuration it carries. `Merged` is `patchMappingValues`: what the body does not name stays in the file. Handlers: `PutRefused`, `PutStored`, `PutsRace`, then `PutWritten` or `PutNotWritten`; `AnswerLost`, `Switch`, `Restart`. View: `Open`, `Answer`, `AnswerRaces`, `Loaded`, `LoadFails`, `Close`, `SelectTab`, `Type`, `Discard`, `Save`, `ToggleTheme`, `Saved`, `SaveFails`. `last`, `doubt` and `adrift` are history |
| `Page` | `App.tsx` but the list and the picker, `ConfirmDialog.tsx`, `TerminalSession.tsx`, `TerminalPanel.tsx` | `selected`, `view`, `confirm` and `pending` are the React state, `listed` the keys of the list; `term`, the effects of `TerminalSession` that are not over, shown or `disposed`, each with its request, its socket or its last callback. `Render` is the rendering that ends every callback: it unmounts and mounts |
| `Switching` | `mgmts_api.go`, `config_api.go` as it reads and writes `current`, `MgmtPicker.tsx`, the header of `App.tsx`, POST /sessions as it reads `s.opts` | `client`, `context`, `current` are fields of `s.opts`; `put`, the requests, by how much they have assigned and by who waits; `first`, the tab's GET /mgmts; `header`, `open`, `data`; `copies`, what `current` was when settings were read, any of which may be saved at any time (`SavesSettings`); `shell`, with what it was given. One action per assignment and per read; `SwitchesRace`, `FirstRaces`, `PickerRaces` and a choice of `SetsCurrent` for two that touch one string at once, which is then nobody's (`Torn`). `mixed`, `adrift`, `reverted` and the fields `alone`, `clean`, `crossed` are history |
| `MC*` | small instances | constants and, where sound, symmetry |
| `ClusterCacheProofs` (and `LiveList`'s), `ServeFeedProofs`, `PtySessionsProofs`, `TuiProofs`, `ConfigFileProofs`, `SettingsProofs`, `PageProofs`, `SwitchingProofs` | theorems | |

`LiveList` composes with `ClusterCache` by extending it: every action of the
tab is joined to the cache's. `ServeFeed` sees the cache as one atomic
variable, which `ImplementsBroadcast` justifies: `ClusterCache` implements
`Broadcast`, in which a change and its notification are one step. `PtySessions`
implements `SessionLife`, which knows no handlers, tokens or timers: a session
is claimed while some handler has it and has not given its PTY up, and a token
used twice, a second shell or a dir removed too early would be steps it lacks.
`PtySessions` and `Tui` share nothing but the temp dirs, which the sweep of
either may remove (`OtherStarts`). The writers of `ConfigFile` are processes of
either kind and share only the file system.

The page of a browser is cut where its parts meet the server. `Page` lets the
list become anything at any time, which `LiveList` explains, and answers POST
/sessions and ends sockets at will, which `PtySessions` explains. `Switching`
has one terminal, which may end whenever `Page` would end it, and leaves what a
switch does to the clusters to `ServeFeed` and all settings but `current` to
`Settings`. `Settings` writes the file in one
step: `ConfigFile` has the steps, and shows that a merge keeps what is not
named. Each is wider than what it leaves to another, so what holds in it does
not depend on the other.

Some definitions are marked "Faulty variant". No specification uses them: each
is what a plausible mistake would make of the definition after it, and the
`mutants` of `PROJECT.json` say which property notices.

## The runs

| run | cfg | shows |
|---|---|---|
| cluster_cache | `MCClusterCache.cfg` | `LastWins`: the last event a stream has in flight about a cluster is the cache's state of it, unless the stream's history says it was dropped. `NoSendOnClosed`. `ImplementsBroadcast`: refinement of `Broadcast`. `GoneUnsubscribes`: a disconnected handler gets the mutex and leaves |
| live_list | `MCLiveList.cfg` | `ViewCatchesUp`, `SnapshotCatchesUp`: reading what is in flight brings list and pending answer to the cache's state, but for the keys whose events overtook them. `QuietIsInformed`: no tab rests on the list of an earlier connection |
| serve_feed | `MCServeFeed.cfg` | `CacheCatchesUp`, `ListCatchesUp`: only an event lost with its watch, or overtaken by a list, puts a key in doubt. `ConvergesToStartup`: the re-list repairs it |
| serve_feed_switch | `MCServeFeedSwitch.cfg` | violated: a switch "rebuilds K8s client + watch" (line 152). The goroutines keep the client of the start |
| pty_sessions | `MCPtySessions.cfg` | `NoLeakedDir`, `ShellHasItsDir` through failures, shutdown, crash, restart and sweep; `ImplementsSessionLife`: refinement of `SessionLife`; `UnclaimedExpires`, `EndedSessionLeavesNothing`, `ShellsReaped`: what is over is cleared away in the end |
| pty_shutdown | `MCPtySessionsShutdown.cfg` | violated: "ordered shutdown: close watch, kill PTY children, clean temp dirs, exit" (line 289). `Shutdown` ignores hijacked connections and nothing removes a dir |
| tui | `MCTui.cfg` | `HighlightStays`: a cluster that stays on the list stays under the cursor until a key moves it. `WaitsForSomething`: a screen that takes no keys has an answer on its way. `ListBecomesCurrent` |
| config_file | `MCConfigFile.cfg` | `NamesKept`: what the file names stays named through stale writers, failures and crashes, while the lock has not split and the template was not put over a file. `TempsAreOwned`. `WritesEnd`: nobody waits for a writer that is dead |
| settings | `MCSettings.cfg` | `ShownIsServed`: what an open view shows is in memory, or a call for it is on its way, or the history says why not. `FileFollowsMemory`: with no write pending a restart changes only what the history names (what was removed, a switch, a failed write, writes that crossed). `ClobbersOnlyUnseen`: a save undoes only what its view was not told |
| page | `MCPage.cfg` | `SocketsAreCurrent`: only the terminal shown has a socket. `ReplaceAsks`: one replaces another from the dialog only. `GoneTerminalsAreSilent`: late callbacks change no selection. `TerminalsSettle`: a terminal shown opens or goes |
| switching | `MCSwitching.cfg` | `HeaderIsCurrent`: with no switch on its way client and context agree, the header names them or nothing, and is what the configuration says unless settings read before were saved since. `ShellMatchesHeader`: kubeconfig and prompt of an open shell are of one cluster, the one the header names if it names any. Both but for what other tabs, lost answers, overlaps and, for a tab that opens then, such a save explain |
| switching_shells | `MCSwitchingShells.cfg` | violated: "Live PTY sessions keep their already-fetched kubeconfig and continue running" when the management cluster is switched (line 152). `onSwitched` ends the shell of its tab |

The violated runs state what the design document says of the program and are
recorded under `findings`.

### Bounds

Named in the modules as constants, given in the `.cfg` files.

- *cluster_cache*: two keys, so that an event about one can overtake or be
  dropped against one about the other; two streams, so that the fan-out can be
  between them while either leaves; one place per channel and connection, so
  that full, stalled and dropping all happen. One state beside Absent:
  creation and deletion are already different. Slots are reused, so
  reconnection needs no third. The larger capacities of the code (32) only
  delay the drop.
- *live_list*: one tab (tabs do not interact but through the cache), one key
  and two states beside Absent, two overlapping GETs, a channel of two, so
  that an answer can be overtaken by more than one event.
- *serve_feed*: two management clusters, two keys, at most two changes and one
  switch, a watch channel of one place.
- *pty_sessions*: two sessions and two handlers: two handlers may carry one
  token, and one session may expire or crash while another runs. Ids and slots
  are taken in order (`InOrder`, `FirstFree`). `Few`: two sessions wait, or two
  handlers race for one, but two terminals are not connected at once, which
  would take too long; that no handler meddles with another's session is proved
  for any number of both (`TerminalsLiveOnce`). POST, the WebSocket and the
  janitor are not bounded otherwise; ids are used once, as the code's are.
- *tui*: two clusters (a cursor that can be in two places), two management
  clusters, one list per client and one switch in flight, two spawns at once.
- *config_file*: two writers, each of which calls again and again, with any
  configuration; two names, so that each can write without the other's; two
  inodes, one for each lock file in use. Two writers are enough for the lock
  to split: one unlocks, the other acquires, the first removes the lock file
  under it, calls again and makes a new one. Without its exception for `split`,
  `NamesKept` is violated by exactly this, and without the one for `clobbered`
  by `kapish config edit` started while a first save is being written.

- *settings*: one view, two calls; one section, whose map has two keys, the theme
  and the current management cluster, with one text, two themes and two
  management clusters. `Stays`: one key is added, removed and saved, the other is
  there throughout, so that a key is removed from a map that is not empty; and
  there is a current management cluster (the proofs and *switching* start without
  one as well). A section of two settings differs from a map of two keys in
  nothing the model has. A second view is not needed to meet another's save: a
  view that is closed leaves its calls in flight and is opened again over them.
  Two calls are enough to overlap, to be stored in one order and written in the
  other, and to race.
- *page*: three clusters, one shown, one asked about in each dialog; two
  terminals, one shown and one that was unmounted and still waits.
- *switching*: two management clusters, to and fro, and that of the default
  kubeconfig; two requests in flight, one of the picker and one of anybody else.
  `Few`: settings views have read one value of `current` at a time, any, and while
  there is a terminal one switch is in flight at a time: two overlap while there is
  none, and a terminal may follow. The proofs have neither bound.

### Fairness

Only what the code's scheduling gives. In `ClusterCache`, the goroutine in a
fan-out runs (WF) and a handler that waits for `mu` gets it (SF: Go's mutex
hands itself over to a waiter that starves). Nothing obliges a tab to read, a
cluster to change or a connection to break. In `ServeFeed`, the goroutines
run and calls return (contexts have timeouts), ticks come; a watch need not
end and clusters need not change. In `PtySessions`, the janitor's ticker and
timers fire, the kernel ends a killed process, and a read from a closed
connection fails; nothing obliges a program to read its input or a user to
close a tab. In `Tui`, the loop takes messages in the order they came, so
that one which is handled again and again after shells is not passed over
(SF), and a management cluster that is asked over and over answers in the
end; no key is ever fair. In `ConfigFile`, a process that lives runs (WF) and
the kernel gives a lock that is free again and again to whoever waits for it
(SF); nobody is obliged to call, to fail or to die. In `Page`, a request is
answered or fails (the handler has a timeout), a connection opens or ends, and
the browser runs a callback that is due (WF each); no user acts and no list
changes out of fairness. `Settings` and `Switching` state safety only.

`tui` says `CHECK_DEADLOCK FALSE`: a TUI that has quit has no next step. The
others may not stop.

## The proofs

| theorem | module | says |
|---|---|---|
| `TypeCorrect` | `ClusterCacheProofs` | types and capacities |
| `NeverSendsOnClosed` | `ClusterCacheProofs` | `[]NoSendOnClosed` |
| `StreamsEndInTheCache` | `ClusterCacheProofs` | `[]LastWins` |
| `CacheImplementsBroadcast` | `ClusterCacheProofs` | `ImplementsBroadcast`: `Spec` of `ClusterCache` implies that of `Broadcast` |
| `TabTypeCorrect` | `ClusterCacheProofs` | `[]TypeOKTab` (of `LiveList`, as the next three) |
| `TabsCatchUp` | `ClusterCacheProofs` | `[]ViewCatchesUp` |
| `SnapshotsCatchUp` | `ClusterCacheProofs` | `[]SnapshotCatchesUp` |
| `RestedTabsAreInformed` | `ClusterCacheProofs` | `[]QuietIsInformed` |
| `TypeCorrect` | `ServeFeedProofs` | types |
| `CacheIsCaughtUp` | `ServeFeedProofs` | `[]CacheCatchesUp` |
| `ListIsCaughtUp` | `ServeFeedProofs` | `[]ListCatchesUp` |
| `TypeCorrect` | `PtySessionsProofs` | types |
| `TokensAreSingleUse` | `PtySessionsProofs` | `[]TokenIsSingleUse` |
| `NoDirLeaks` | `PtySessionsProofs` | `[]NoLeakedDir` |
| `ShellsHaveDirs` | `PtySessionsProofs` | `[]ShellHasItsDir` |
| `TerminalsLiveOnce` | `PtySessionsProofs` | `ImplementsSessionLife`: `Spec` of `PtySessions` implies that of `SessionLife` |
| `TypeCorrect` | `TuiProofs` | types |
| `CursorFollows` | `TuiProofs` | `[]CursorOnSticky`: the cursor is on a row of the list, that of the cluster it follows |
| `HighlightIsKept` | `TuiProofs` | `HighlightStays` |
| `NeverStuck` | `TuiProofs` | `[]WaitsForSomething` |
| `TypeCorrect` | `ConfigFileProofs` | types |
| `NoTempLeft` | `ConfigFileProofs` | `[]TempsAreOwned` |
| `KeepsNames` | `ConfigFileProofs` | `NamesKept` |
| `TypeCorrect` | `SettingsProofs` | types; a section that is saving is shown |
| `ViewsShowTheServed` | `SettingsProofs` | `[]ShownIsServed` |
| `FileFollows` | `SettingsProofs` | `[]FileFollowsMemory` |
| `ClobbersUnseenOnly` | `SettingsProofs` | `ClobbersOnlyUnseen` |
| `TypeCorrect` | `PageProofs` | types; at most one terminal is mounted, the one shown |
| `OnlyShownConnects` | `PageProofs` | `[]SocketsAreCurrent` |
| `ReplacingAsks` | `PageProofs` | `ReplaceAsks` |
| `GoneAreSilent` | `PageProofs` | `GoneTerminalsAreSilent` |
| `TypeCorrect` | `SwitchingProofs` | types; a picker that waits is open |
| `HeaderFollows` | `SwitchingProofs` | `[]HeaderIsCurrent` |
| `ShellFollowsHeader` | `SwitchingProofs` | `[]ShellMatchesHeader` |

They assume only what the modules' ASSUMEs say: the reserved values are not
members of the sets, capacities are positive, the clusters of a list, and those
of a management cluster, are finite in number (a watch that opens reports each
of them once, in some order).

*ClusterCache.* `LastWins` is not inductive alone: that appending the running
loop's event keeps it needs that the event is the cache's current state
(`FanOutIsCurrent`), which needs that nothing else writes the cache while the
loop runs (`MutexHeldWithEvent`: there is an event exactly while `todo` is not
empty); that a channel is not closed under the loop needs that subscriptions
and handlers live and die together (`HandlersSubscribed`); and that the sync
message comes first needs that a connection carries nothing before it
(`WiresOpen`). `Control` joins these, and `IInv` adds `LastWins`. The lemmas of
the first part are about sequences: moving the head of one buffer to the end of
the one before it does not change their concatenation, and dropping a head or
appending to the tail preserves "ends in".

*The broadcast.* `Broadcast` has one queue per tab, the cache has three places
where an event of it may be: the connection, the channel, and the fan-out that
has not reached the tab yet. `TabQueue` joins them in this order, so that
`ApplyEvent`, which puts the event in `event` and every subscriber in `todo`, is
`Publish`; `FanOut` and `WriteEvent` move a message along its queue and are
stutters, but for a fan-out that drops, which is `Lose` (the event is the
newest of the queue, since nothing else is queued while the mutex is held);
`WriteSync` is `Greet`, reading is `Deliver`, and a disconnection is `Cut`,
which takes the connection's share of the queue with it. A key whose event
the fan-out still has to bring is not lost yet (`TabLost`). Each action has a
lemma that says what it does to a queue in flight (`FanOutQueue`,
`WriteSyncQueue`, ...) and one that says which step of `Broadcast` it is. That a
slot which joins again has an empty queue and counts on no key (`SlotsFresh`) is
the last thing needed.

*LiveList.* What a tab will show is settled, key by key, by the last event in
flight about the key or, where there is none, by the list itself. So `Sound(q, m,
w, K)` says of a queue `q` and a list `m`: what `q` says last of a key outside `K`
is `w`'s state of it, and where `q` is silent `m` already has it. `TabSound` says so
of the view, but for the keys in `missed`, and of each snapshot on its way, but
for the keys whose events have overtaken it (`since`). Few facts carry every
step: the head of a queue may be applied to the list (`SoundApply`), or read past
it at the price of its key (`SoundPass`); an event that is queued settles its
key, and one that is dropped, or a replacement of the cache, is paid for with
the keys it concerns; a snapshot of the cache has every key the queue is silent
on. `QuietIsInformed` needs what
is still owed to a tab that knows nothing: the sync message, or a request made
during this connection (`Awaited`, `WillInform`). An answer that replaces the list also replaces `missed`, which then counts less
or more than the stream alone would, so of the cache's own invariant only
`Control`, which does not speak of `missed`, is shared; `IInvTab` joins it with the
tab's.

*ServeFeed.* The same question is asked of the cache and of the list a re-list
holds: the last event in the watch's channel about a key settles it or, where
the channel is silent, the map does. A watch that ends takes its events with it
and puts their keys in doubt; storing a list takes over the list's own doubts.
`IInv` says so of both maps for the management cluster the server started with,
and the properties follow by what it means to apply a queue.

*PtySessions.* `IInv` says who answers for what: a running handler has a
session and shares it with no other (`HandlersUseTheirs`); a running shell has
a handler that still holds its PTY (`ShellsHaveHandlers`); a handler that has
not reached its Cleanup still has its dir, unless the sweep took it
(`DirsAwaitCleanup`); before its one `pty.Start` a session has no shell
(`StartsOnce`). Each conjunct has a lemma, with a step per action.

*SessionLife.* Its states are read off the handlers (`LifeOf`): a used entry is
claimed as long as a handler that owns it is between consuming the token and
closing the PTY, over afterwards, although the entry is still in the map and
the dir still there. That a handler's move changes the life of its own session
only is `ServedMoves`, which needs that no other handler has it
(`TokenIsSingleUse`, a conjunct of `IInv`); that the shell a handler starts is the
session's first needs `StartsOnce`. A signal to a shell that is gone, and a
handler's steps between two of the promise's, are stutters.

*Tui.* Types need nothing else. `WaitsForSomething` needs that spawns are conserved: the stages of
`plans` add up to `MaxPlans`. `CursorOnSticky` needs that the row of a cluster
and the cluster of a row are inverse: no two clusters have one place, and
since the places are as many as the clusters no row is empty (an injection
between finite sets of one size is a surjection). `HighlightStays` follows: the
row's cluster is the one the cursor follows, before and after, and nothing but a
key changes that one while the list shows it (`StickyStays`).

*ConfigFile.* A rename keeps the file's names because what is renamed was
rendered from the file as it still is (`Fresh`): between rendering and renaming
nobody else was in the section. Two writers in the section never have the same
lock file open (`Exclusive`), and until the lock splits all have the same one
open, the one the lock's name leads to if it leads anywhere (`OneLock`): so only
one is in. A crash breaks none of it, since what it leaves behind is a lock
file that nobody holds.

*Settings.* `ShownIsServed` speaks of what is shown, but what is shown next is
what a call carries. So `ViewOK` says of every call a view waits for: where the
view is sure, the call carries what is in memory, but for its own field until it
is stored; and calls that overlap put their fields in doubt. Then storing one
changes memory in its field only, which is `ClobbersOnlyUnseen`, and taking its
answer over is right. `ViewSettles` is the step most others are: nothing
happens to a view but that memory changes where it is in doubt and its calls
come nearer to their end. `FileInv` says that what is stored last and not yet
written is what memory has, but for a switch, so that writing it makes the file
follow, key by key, but for the fields it leaves out and the file has.

*Page.* `SocketsAreCurrent` needs that who is connected is mounted
(`ConnectedAreMounted`) and that the one mounted is the one shown, which is part
of the types; the lemma `RenderKeeps` shows both for whatever a callback sets,
and every action is a rendering or a step of one terminal.

*Switching.* A switch that has met no other (`alone`) is the only one, and what
it has assigned is still so (`LoneSwitch`), but for `current` when a save has
put another name there (`reverted`); between switches that were handled one at a
time client and context agree, and `current` names them or nothing unless it was
put back (`ServerAgrees`); an answer to the first GET that met no switch and no
such save is still right when it arrives (`FirstIsCurrent`). `Told` is what being
right means: a name, if there is one, is that of the client's cluster. With
these, the header is right until a switch of this tab assigns (`HeaderNames`), and
so is what a shell was given (`ShellFollows`): the answer to the switch ends the
shell in the step that sets the header. A start without `current` makes no
exception: the header names nothing.

Only model-checked: the eight liveness properties (`GoneUnsubscribes`,
`ConvergesToStartup`, `UnclaimedExpires`, `EndedSessionLeavesNothing`,
`ShellsReaped`, `ListBecomesCurrent`, `WritesEnd`, `TerminalsSettle`), since the
prover does not reason about ENABLED and so not about fairness. Every invariant
and every action property that a run checks is proved.

## What the models leave out

- Contents: cluster fields other than "which state", terminal bytes, init
  files, JSON, logging and layout.
- Wrap-around and identity of tokens: `crypto/rand` ids are distinct.
- In `PtySessions`: resize and ping frames, which change no state. `os.RemoveAll`
  is taken to succeed: where it fails, `Remove` has already marked the dir as
  removed (`tempdir.go:41`), its callers ignore the error and the dir stays until
  a sweep finds it a day old. After a
  failed WebSocket upgrade the shell is killed and not waited for
  (`ws.go:35`), a zombie for the server's life; `ShellsReaped` excludes it and
  says so. The sweep looks only at a dir's modification time
  (`lifecycle.go:29`), so it may take the dir of a terminal open for a day;
  `ShellHasItsDir` excludes dirs that old.
- In `Tui`: which cluster a spawn is for, the theme key and the write it
  starts, `clusterEventMsg` (handled, never sent).
- In `ServeFeed`: two PUT /mgmts/current at once, which are in `Switching`.
- In `ConfigFile`: the user's own editor, which takes no lock; single values,
  which belong to whoever wrote last; the contents of entries, which are patched
  in place. A crash between making the temp file and renaming it leaves the temp
  file on disk for good; `TempsAreOwned` is about the calls that return.
- In `Settings`: the defaults a section shows for what is not set
  (`SettingsSections.tsx:23-31`, 84: saving one setting of the shell also saves
  the default of the other); the theme, which is painted before it is saved
  (`SettingsView.tsx:44`) and stays painted when the save fails; the terminal
  UI's own saves. A save that succeeds drops what was typed while it was in
  flight: `Type` and `Saved` do so, no property forbids it.
- In `Page`: the frames and bytes of `ws.ts` and the size of the terminal; the
  second mounting of React's development mode; the filter and the toasts.
- In `Settings` and `Switching`: the entries of the configuration are fixed, since no
  section edits them; names stand for the entries as they are in memory, with
  `--kubeconfig` and `--context`, which are written into the current one.
- In `Switching`: a restart of the server, after which header and server are as
  far apart as after another tab's switch; more than one terminal.
- Not modelled at all, for want of state that outlives a call: the rules of the
  configuration (overrides, validation, paths), CAPI client, shell init files,
  command line, middleware, logging, layout.

Some statements of the documents do not hold in the models. But for one they
are no runs of their own; the properties that are checked leave these cases open:

- "tabs see consistent state via the SSE stream" (design document, line 441):
  `replaceAll` sends no event, so a re-list leaves open tabs behind until the
  next event about the cluster. `ViewCatchesUp` says what a tab can rely on.
- "WebSocket close: backend sends SIGHUP" (line 268): a handler blocked in
  `ptmx.Write` (`ws.go:73`) reads nothing and does not notice.
- "Cleanup MUST be called" (`internal/shell/spawn.go:11`): a plan that is ready
  when the loop of the terminal UI ends is dropped with its dir. A list that
  arrives during a spawn (`model.go:124`) brings the list screen back and with
  it the key that quits.
- "Live PTY sessions keep their already-fetched kubeconfig and continue running"
  (lines 152 and 408, for the browser; 461: "Existing PTY sessions keep running"):
  `onSwitched` (`App.tsx:97`) deselects, which unmounts the terminal and so ends its
  shell; this is the run switching_shells. Opening the settings, or a list that
  lacks the cluster for a moment, does the same. The shells of other tabs, and
  those of the terminal UI (line 367), do continue.
- "Concurrent edits (TUI + Web UI both running) serialize on the lock" (line 157):
  the lock file is removed after it is unlocked (`write.go:31-34`), so that a writer
  that waited on the removed file and one that makes a new one are both in the
  section; `NamesKept` leaves it out from then on (`split`).
- "Immediately" (line 152) is undone by the next save of settings that were read
  before the switch (`config_api.go:24`): the old name is `current` again, while
  client and header have the new one, and a tab that opens then shows the old
  name over the new cluster's shells. `HeaderIsCurrent` leaves it out until the next
  switch (`reverted`).
- "Save merges the section's slice into the latest `cfg` ... so concurrent edits
  in another section that were already saved are not clobbered"
  (`docs/superpowers/specs/2026-05-12-webui-and-capi-fixes-design.md:38`): true
  of one view whose saves do not overlap, which `ClobbersOnlyUnseen` says; saves
  of two tabs, and a switch, are undone.
- A dialog stays open over a switch and connects the row it was opened for, of
  the list of the management cluster before.

## Plan

Done: `ClusterCache` with `Broadcast` and its proofs, `LiveList`, `ServeFeed`,
`PtySessions`, `Tui`, `ConfigFile`, `Settings`, `Page` and `Switching`, all with
proofs. What is left, by what it would add:

1. Pure functions against reference definitions: `ApplyOverrides`, `Validate`,
   `ResolvePath`.
2. The terminal's frames: input, resize and ping on one socket.
