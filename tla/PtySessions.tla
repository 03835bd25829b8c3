---------------------------- MODULE PtySessions -----------------------------
(***************************************************************************)
(* Browser terminals: the session store (internal/web/sessions.go), the    *)
(* WebSocket handler that runs a session's shell (internal/web/ws.go), the *)
(* session's temp dir (internal/shell/spawn.go, tempdir.go) and what       *)
(* happens to all of them when the server stops, crashes or starts         *)
(* (internal/web/server.go, cmd/kapish/serve.go, lifecycle.go).            *)
(*                                                                         *)
(* Sessions are ids: POST /sessions uses a new one each time.  A handler   *)
(* is a slot for an invocation of handleSessionWS, together with the       *)
(* goroutine that copies the PTY to the WebSocket.  The shell processes,   *)
(* the signals and the PTY belong to the operating system and are modelled *)
(* as ws.go uses them: closing the PTY hangs its shell up, a shell that    *)
(* has exited stays a zombie until it is waited for.                       *)
(*                                                                         *)
(* Two clocks age a session.  The janitor's (`stale`, 60 s) is the         *)
(* process's monotonic clock, the sweep's (`ancient`, 24 h) is the dir's   *)
(* modification time; a suspended machine sets them apart.                 *)
(***************************************************************************)
EXTENDS Integers

CONSTANTS
    Sessions,       \* session ids
    Handlers,       \* the slots for handleSessionWS
    NoSession       \* the session of an idle handler

ASSUME SessionsAssumption == NoSession \notin Sessions

VARIABLES
    server,     \* the serve process: up, stopping, exited, crashed
    entry,      \* what sessionStore.m and handlePostSessions know of a session
    stale,      \* sessions created more than the TTL ago
    ancient,    \* sessions whose dir was last modified more than 24 h ago
    dirs,       \* sessions whose temp dir exists
    shell,      \* the process of each session's shell
    reaping,    \* sessions whose shell somebody waits for
    at,         \* where each handler is
    of,         \* the session each handler has consumed
    open,       \* handlers whose WebSocket can be read: not closed by the
                \* tab, its context not cancelled
    bridging    \* handlers whose PTY -> WebSocket goroutine runs

storeVars == <<entry, stale, ancient>>
shellVars == <<shell, reaping>>
handlerVars == <<at, of, open, bridging>>
vars == <<server, storeVars, dirs, shellVars, handlerVars>>

-----------------------------------------------------------------------------

\* prepared: handlePostSessions has made the dir but not yet the entry.
\* unused, used: sessionEntry.used.  removed: deleted from the map.
\* lost: the process died with it.
Entries == {"none", "prepared", "unused", "used", "removed", "lost"}

\* hungup: sent SIGHUP, which a shell may trap.  exited: a zombie.
Shells == {"none", "running", "hungup", "killed", "exited", "reaped"}
Alive == {"running", "hungup", "killed"}

\* claimed: the token is consumed.  started: pty.Start has returned.  writing:
\* inside ptmx.Write.  winding: the select of ws.go:91-95.  closing, closed,
\* cleaned: running the deferred calls.
Places == {"idle", "claimed", "started", "serving", "writing",
           "winding", "closing", "closed", "cleaned"}

\* Where the handler has not closed the PTY yet.
HasPty == {"started", "serving", "writing", "winding", "closing"}

TypeOK ==
    /\ server \in {"up", "stopping", "exited", "crashed"}
    /\ entry \in [Sessions -> Entries]
    /\ stale \in SUBSET Sessions
    /\ ancient \in SUBSET Sessions
    /\ dirs \in SUBSET Sessions
    /\ shell \in [Sessions -> Shells]
    /\ reaping \in SUBSET Sessions
    /\ at \in [Handlers -> Places]
    /\ of \in [Handlers -> Sessions \cup {NoSession}]
    /\ open \in SUBSET Handlers
    /\ bridging \in SUBSET Handlers
    /\ \A c \in Handlers :
         /\ at[c] # "idle" => of[c] # NoSession
         /\ at[c] \in HasPty => shell[of[c]] # "none"

Init ==
    /\ server = "up"
    /\ entry = [s \in Sessions |-> "none"]
    /\ stale = {}
    /\ ancient = {}
    /\ dirs = {}
    /\ shell = [s \in Sessions |-> "none"]
    /\ reaping = {}
    /\ at = [c \in Handlers |-> "idle"]
    /\ of = [c \in Handlers |-> NoSession]
    /\ open = {}
    /\ bridging = {}

\* The process exists: its goroutines run.
Running == server \in {"up", "stopping"}

-----------------------------------------------------------------------------
(* POST /api/v1/sessions, the store and its janitor                        *)

\* newSessionDir: the dir and the kubeconfig are on disk.
MakeDir(s) ==
    /\ server = "up"
    /\ entry[s] = "none"
    /\ entry' = [entry EXCEPT ![s] = "prepared"]
    /\ dirs' = dirs \cup {s}
    /\ UNCHANGED <<server, stale, ancient, shellVars, handlerVars>>

\* PrepareSpawn fails after that and removes the dir it made.
PrepareFails(s) ==
    /\ Running
    /\ entry[s] = "prepared"
    /\ entry' = [entry EXCEPT ![s] = "removed"]
    /\ dirs' = dirs \ {s}
    /\ UNCHANGED <<server, stale, ancient, shellVars, handlerVars>>

\* sessionStore.create: the token is on its way to the tab.
Create(s) ==
    /\ Running
    /\ entry[s] = "prepared"
    /\ entry' = [entry EXCEPT ![s] = "unused"]
    /\ UNCHANGED <<server, stale, ancient, dirs, shellVars, handlerVars>>

\* The session's TTL passes on the process's clock.
Expires(s) ==
    /\ entry[s] = "unused"
    /\ s \notin stale
    /\ stale' = stale \cup {s}
    /\ UNCHANGED <<server, entry, ancient, dirs, shellVars, handlerVars>>

\* 24 hours pass since the dir was last modified.
DirAges(s) ==
    /\ s \in dirs \ ancient
    /\ ancient' = ancient \cup {s}
    /\ UNCHANGED <<server, entry, stale, dirs, shellVars, handlerVars>>

\* Faulty variant: the janitor does not look at used.
EvictUsed ==
    /\ Running
    /\ LET old == {s \in stale : entry[s] \in {"unused", "used"}} IN
        /\ old # {}
        /\ entry' = [s \in Sessions |-> IF s \in old THEN "removed" ELSE entry[s]]
        /\ dirs' = dirs \ old
    /\ UNCHANGED <<server, stale, ancient, shellVars, handlerVars>>

\* Faulty variant: the janitor forgets the entry but not its dir.
EvictKeepsDir ==
    /\ Running
    /\ LET old == {s \in stale : entry[s] = "unused"} IN
        /\ old # {}
        /\ entry' = [s \in Sessions |-> IF s \in old THEN "removed" ELSE entry[s]]
    /\ UNCHANGED <<server, stale, ancient, dirs, shellVars, handlerVars>>

\* A janitor tick: evictStale, one critical section for the whole map.
Evict ==
    /\ Running
    /\ LET old == {s \in stale : entry[s] = "unused"} IN
        /\ old # {}
        /\ entry' = [s \in Sessions |-> IF s \in old THEN "removed" ELSE entry[s]]
        /\ dirs' = dirs \ old
    /\ UNCHANGED <<server, stale, ancient, shellVars, handlerVars>>

-----------------------------------------------------------------------------
(* GET /api/v1/sessions/{id}/ws                                            *)

\* Faulty variant: the entry is not marked as used.
ConsumeKeepsToken(c, s) ==
    /\ server = "up"
    /\ at[c] = "idle"
    /\ c \notin bridging
    /\ entry[s] = "unused"
    /\ at' = [at EXCEPT ![c] = "claimed"]
    /\ of' = [of EXCEPT ![c] = s]
    /\ UNCHANGED <<server, storeVars, dirs, shellVars, open, bridging>>

\* consumeToken succeeds.  (A request it refuses is answered 403 and changes
\* nothing.)
Consume(c, s) ==
    /\ server = "up"
    /\ at[c] = "idle"
    /\ c \notin bridging
    /\ entry[s] = "unused"
    /\ entry' = [entry EXCEPT ![s] = "used"]
    /\ at' = [at EXCEPT ![c] = "claimed"]
    /\ of' = [of EXCEPT ![c] = s]
    /\ UNCHANGED <<server, stale, ancient, dirs, shellVars, open, bridging>>

PtyStarts(c) ==
    /\ Running
    /\ at[c] = "claimed"
    /\ at' = [at EXCEPT ![c] = "started"]
    /\ shell' = [shell EXCEPT ![of[c]] = "running"]
    /\ UNCHANGED <<server, storeVars, dirs, reaping, of, open, bridging>>

\* Faulty variant: the error of pty.Start is not looked at.
PtyStartFailsUnnoticed(c) ==
    /\ Running
    /\ at[c] = "claimed"
    /\ at' = [at EXCEPT ![c] = "started"]
    /\ UNCHANGED <<server, storeVars, dirs, shellVars, of, open, bridging>>

\* pty.Start fails: answer 500 and run the defers registered so far.
PtyStartFails(c) ==
    /\ Running
    /\ at[c] = "claimed"
    /\ at' = [at EXCEPT ![c] = "closed"]
    /\ UNCHANGED <<server, storeVars, dirs, shellVars, of, open, bridging>>

\* websocket.Accept succeeds and the PTY -> WebSocket goroutine is started.
Accepts(c) ==
    /\ Running
    /\ at[c] = "started"
    /\ at' = [at EXCEPT ![c] = "serving"]
    /\ open' = open \cup {c}
    /\ bridging' = bridging \cup {c}
    /\ UNCHANGED <<server, storeVars, dirs, shellVars, of>>

\* What a signal does to a process: nothing once it has exited.
Signalled(s, st) == [shell EXCEPT ![s] = IF @ \in Alive THEN st ELSE @]

\* websocket.Accept fails: Process.Kill, and nobody ever waits for the shell.
AcceptFails(c) ==
    /\ Running
    /\ at[c] = "started"
    /\ at' = [at EXCEPT ![c] = "closing"]
    /\ shell' = Signalled(of[c], "killed")
    /\ UNCHANGED <<server, storeVars, dirs, reaping, of, open, bridging>>

\* A stdin frame: ptmx.Write, which blocks while the PTY's buffer is full.
Input(c) ==
    /\ Running
    /\ at[c] = "serving"
    /\ c \in open
    /\ at' = [at EXCEPT ![c] = "writing"]
    /\ UNCHANGED <<server, storeVars, dirs, shellVars, of, open, bridging>>

InputDone(c) ==
    /\ Running
    /\ at[c] = "writing"
    /\ at' = [at EXCEPT ![c] = "serving"]
    /\ UNCHANGED <<server, storeVars, dirs, shellVars, of, open, bridging>>

\* The tab closes the WebSocket, or the connection is lost.
TabCloses(c) ==
    /\ at[c] \in {"serving", "writing"}
    /\ c \in open
    /\ open' = open \ {c}
    /\ UNCHANGED <<server, storeVars, dirs, shellVars, at, of, bridging>>

\* ptmx.Read fails: the shell is gone, or the handler has closed the PTY (or is
\* past it).  The goroutine cancels the context and returns.
BridgeReadFails(c) ==
    /\ Running
    /\ c \in bridging
    /\ at[c] \in HasPty => shell[of[c]] \notin Alive
    /\ bridging' = bridging \ {c}
    /\ open' = open \ {c}
    /\ UNCHANGED <<server, storeVars, dirs, shellVars, at, of>>

\* c.Write fails: the same, if the shell says anything after the tab is gone.
BridgeWriteFails(c) ==
    /\ Running
    /\ c \in bridging \ open
    /\ bridging' = bridging \ {c}
    /\ UNCHANGED <<server, storeVars, dirs, shellVars, at, of, open>>

\* c.Read fails, the loop ends: SIGHUP to the shell's process group, and
\* waitDone starts the goroutine that waits for it.
LoopEnds(c) ==
    /\ Running
    /\ at[c] = "serving"
    /\ c \notin open
    /\ at' = [at EXCEPT ![c] = "winding"]
    /\ shell' = [shell EXCEPT ![of[c]] = IF @ = "running" THEN "hungup" ELSE @]
    /\ reaping' = reaping \cup {of[c]}
    /\ UNCHANGED <<server, storeVars, dirs, of, open, bridging>>

\* Faulty variant: a shell that outlives the grace period is not killed.
GraceOverNoKill(c) ==
    /\ Running
    /\ at[c] = "winding"
    /\ at' = [at EXCEPT ![c] = "closing"]
    /\ UNCHANGED <<server, storeVars, dirs, shellVars, of, open, bridging>>

\* Two seconds are over: Process.Kill.
GraceOver(c) ==
    /\ Running
    /\ at[c] = "winding"
    /\ at' = [at EXCEPT ![c] = "closing"]
    /\ shell' = Signalled(of[c], "killed")
    /\ UNCHANGED <<server, storeVars, dirs, reaping, of, open, bridging>>

\* cmd.Wait has returned in time.
WaitDone(c) ==
    /\ Running
    /\ at[c] = "winding"
    /\ shell[of[c]] = "reaped"
    /\ at' = [at EXCEPT ![c] = "closing"]
    /\ UNCHANGED <<server, storeVars, dirs, shellVars, of, open, bridging>>

\* The first defers: cancel, c.Close, ptmx.Close.  The kernel hangs up the
\* session whose terminal this was.
Closes(c) ==
    /\ Running
    /\ at[c] = "closing"
    /\ at' = [at EXCEPT ![c] = "closed"]
    /\ open' = open \ {c}
    /\ shell' = [shell EXCEPT ![of[c]] = IF @ = "running" THEN "hungup" ELSE @]
    /\ UNCHANGED <<server, storeVars, dirs, reaping, of, bridging>>

\* Faulty variant: the handler does not clean up after itself.
RemovesNoDir(c) ==
    /\ Running
    /\ at[c] = "closed"
    /\ at' = [at EXCEPT ![c] = "cleaned"]
    /\ UNCHANGED <<server, storeVars, dirs, shellVars, of, open, bridging>>

\* sess.plan.Cleanup().
RemovesDir(c) ==
    /\ Running
    /\ at[c] = "closed"
    /\ at' = [at EXCEPT ![c] = "cleaned"]
    /\ dirs' = dirs \ {of[c]}
    /\ UNCHANGED <<server, storeVars, shellVars, of, open, bridging>>

\* s.sessions.remove(id), and the handler returns.
Forgets(c) ==
    /\ Running
    /\ at[c] = "cleaned"
    /\ entry' = [entry EXCEPT ![of[c]] = "removed"]
    /\ at' = [at EXCEPT ![c] = "idle"]
    /\ of' = [of EXCEPT ![c] = NoSession]
    /\ UNCHANGED <<server, stale, ancient, dirs, shellVars, open, bridging>>

-----------------------------------------------------------------------------
(* Shells                                                                  *)

\* The shell exits: its user says so, it obeys a SIGHUP, it is killed.
ShellExits(s) ==
    /\ shell[s] \in Alive
    /\ shell' = [shell EXCEPT ![s] = "exited"]
    /\ UNCHANGED <<server, storeVars, dirs, reaping, handlerVars>>

\* cmd.Wait, or init once kapish is gone.
Reaped(s) ==
    /\ s \in reaping
    /\ shell[s] = "exited"
    /\ shell' = [shell EXCEPT ![s] = "reaped"]
    /\ UNCHANGED <<server, storeVars, dirs, reaping, handlerVars>>

-----------------------------------------------------------------------------
(* The process                                                             *)

\* SIGINT or SIGTERM: the listener is closed and http.Server.Shutdown waits for
\* plain requests; a hijacked connection is not its business, and the janitor's
\* context is never cancelled.
Stop ==
    /\ server = "up"
    /\ server' = "stopping"
    /\ UNCHANGED <<storeVars, dirs, shellVars, handlerVars>>

\* The process is gone, and with it its memory and its goroutines.  Its file
\* descriptors are closed, which hangs its terminals up; its children are
\* init's.
Dies(how) ==
    /\ server' = how
    /\ entry' = [s \in Sessions |->
                    IF entry[s] \in {"none", "removed"} THEN entry[s] ELSE "lost"]
    /\ shell' = [s \in Sessions |->
                    IF shell[s] = "running" THEN "hungup" ELSE shell[s]]
    /\ reaping' = {s \in Sessions : shell[s] # "none"}
    /\ at' = [c \in Handlers |-> "idle"]
    /\ of' = [c \in Handlers |-> NoSession]
    /\ open' = {}
    /\ bridging' = {}
    /\ UNCHANGED <<stale, ancient, dirs>>

\* runServe returns: Shutdown is done or its five seconds are over.
Exit == server = "stopping" /\ Dies("exited")

Crash == Running /\ Dies("crashed")

\* sweepStaleTempDirs(os.TempDir(), 24h).
Sweep == dirs' = dirs \ ancient

\* serve is started again, and begins with the sweep.
Restart ==
    /\ ~Running
    /\ server' = "up"
    /\ Sweep
    /\ UNCHANGED <<storeVars, shellVars, handlerVars>>

\* Another kapish process (serve or the TUI) starts on this machine.
OtherStarts ==
    /\ dirs \cap ancient # {}
    /\ Sweep
    /\ UNCHANGED <<server, storeVars, shellVars, handlerVars>>

-----------------------------------------------------------------------------

Post(s) == MakeDir(s) \/ PrepareFails(s) \/ Create(s)

Handle(c) ==
    \/ PtyStarts(c) \/ PtyStartFails(c) \/ Accepts(c) \/ AcceptFails(c)
    \/ LoopEnds(c) \/ GraceOver(c) \/ WaitDone(c)
    \/ Closes(c) \/ RemovesDir(c) \/ Forgets(c)

Next ==
    \/ \E s \in Sessions :
         Post(s) \/ Expires(s) \/ DirAges(s) \/ ShellExits(s) \/ Reaped(s)
    \/ Evict
    \/ \E c \in Handlers :
         \/ \E s \in Sessions : Consume(c, s)
         \/ Handle(c) \/ Input(c) \/ InputDone(c) \/ TabCloses(c)
         \/ BridgeReadFails(c) \/ BridgeWriteFails(c)
    \/ Stop \/ Exit \/ Crash \/ Restart \/ OtherStarts

Spec == Init /\ [][Next]_vars

\* Goroutines run, clocks advance, a killed process dies and a blocked write to
\* a dead shell's PTY fails.  Nothing makes a shell read its input or obey a
\* SIGHUP, and nothing makes a tab go away.
Fairness ==
    /\ WF_vars(Evict)
    /\ \A s \in Sessions :
         /\ WF_vars(Expires(s)) /\ WF_vars(PrepareFails(s) \/ Create(s))
         /\ WF_vars(Reaped(s))
         /\ WF_vars(shell[s] = "killed" /\ ShellExits(s))
    /\ \A c \in Handlers :
         /\ WF_vars(Handle(c)) /\ WF_vars(BridgeReadFails(c))
         /\ WF_vars(at[c] = "writing" /\ shell[of[c]] \notin Alive /\ InputDone(c))

FairSpec == Spec /\ Fairness

-----------------------------------------------------------------------------
(* Safety                                                                  *)

\* A session's token opens one WebSocket: no two handlers ever run the same
\* session, so no two ever read one PTY (sessions.go:46-58).
TokenIsSingleUse ==
    \A c, d \in Handlers : of[c] = of[d] /\ of[c] # NoSession => c = d

\* Where a handler still has to run the deferred Cleanup.
WillClean == Places \ {"idle", "cleaned"}

\* Somebody in the process answers for every temp dir that exists: the POST
\* handler, the janitor, or the one WebSocket handler whose Cleanup is still to
\* come.  Only a process that died leaves dirs to the sweep (ws.go:23-24,
\* sessions.go:68-79, spawn.go:41-65).
NoLeakedDir ==
    \A s \in dirs :
        \/ entry[s] \in {"prepared", "unused", "lost"}
        \/ entry[s] = "used" /\ \E c \in Handlers : of[c] = s /\ at[c] \in WillClean

\* A shell that has not been told to go away keeps the dir with its kubeconfig
\* and init files (the order of the defers in ws.go:23-38, the used flag the
\* janitor looks at), unless the dir is 24 hours old: then the sweep of any
\* kapish that starts takes it, in use or not (lifecycle.go:29).
ShellHasItsDir ==
    \A s \in Sessions : shell[s] = "running" => s \in dirs \cup ancient

\* The rest of the inductive invariant.  A handler holds a session exactly while
\* it runs, and that session is in use.
HandlersUseTheirs ==
    \A c \in Handlers :
        /\ at[c] = "idle" <=> of[c] = NoSession
        /\ of[c] # NoSession => entry[of[c]] = "used"

\* Whoever has to remove a dir has not removed it yet: only the sweep may have.
DirsAwaitCleanup ==
    /\ \A c \in Handlers : at[c] \in WillClean => of[c] \in dirs \cup ancient
    /\ \A s \in Sessions : entry[s] \in {"prepared", "unused"} => s \in dirs \cup ancient

\* A shell runs only under a handler that still has its PTY.
ShellsHaveHandlers ==
    \A s \in Sessions :
        shell[s] = "running" => \E c \in Handlers : of[c] = s /\ at[c] \in HasPty

\* Before its one pty.Start a session has no shell.
StartsOnce ==
    \A s \in Sessions :
        \/ entry[s] \in {"none", "prepared", "unused"}
        \/ \E c \in Handlers : of[c] = s /\ at[c] = "claimed"
        => shell[s] = "none"

IInv ==
    /\ TypeOK
    /\ HandlersUseTheirs
    /\ TokenIsSingleUse
    /\ ShellsHaveHandlers
    /\ DirsAwaitCleanup
    /\ NoLeakedDir
    /\ StartsOnce

-----------------------------------------------------------------------------
(* What a terminal promises                                                *)

\* A handler has the session and has not given its PTY up, or not begun it.
Served(s) == \E c \in Handlers : of[c] = s /\ at[c] \in HasPty \cup {"claimed"}

LifeOf(s) ==
    CASE entry[s] = "none" -> "none"
      [] entry[s] \in {"prepared", "unused"} -> "waiting"
      [] entry[s] = "used" /\ Served(s) -> "claimed"
      [] OTHER -> "over"

ShellOf(s) ==
    CASE shell[s] \in {"none", "running"} -> shell[s]
      [] shell[s] \in {"hungup", "killed"} -> "leaving"
      [] OTHER -> "gone"

Lives == [s \in Sessions |-> LifeOf(s)]
ShellLives == [s \in Sessions |-> ShellOf(s)]

Promise == INSTANCE SessionLife WITH life <- Lives, aged <- ancient, shell <- ShellLives

\* Every session lives once, whatever handlers, janitor, signals, crashes and
\* sweeps do: its token opens one terminal, which starts one shell, whose dir
\* stays until the terminal is over, or is 24 hours old (sessions.go:46-79,
\* ws.go:15-100, lifecycle.go:20-40).
ImplementsSessionLife == Promise!Spec

-----------------------------------------------------------------------------
(* Liveness, and what the documents say                                    *)

\* A session nobody connects to does not keep its dir (sessions.go:66-98).
UnclaimedExpires ==
    \A s \in Sessions :
        entry[s] = "unused" ~> entry[s] \in {"used", "lost"} \/ s \notin dirs

\* Once the loop is over, whatever the shell does about its SIGHUP, the dir is
\* removed, the entry forgotten and the PTY goroutine ends (ws.go:87-97).
EndedSessionLeavesNothing ==
    \A s \in Sessions, c \in Handlers :
        of[c] = s /\ at[c] = "winding"
            ~> \/ entry[s] = "lost"
               \/ entry[s] = "removed" /\ s \notin dirs /\ c \notin bridging

Gone(s) == shell[s] \in {"hungup", "killed", "exited"}
Connected(s) ==
    \E c \in Handlers : of[c] = s /\ at[c] \in {"serving", "writing"}

\* A shell that was told to go away, or went, does not stay behind as a process
\* or a zombie, if its terminal was ever connected (ws.go:52-60, 88-104).  The
\* shell of a failed upgrade (ws.go:34-36) is killed but never waited for.
ShellsReaped ==
    \A s \in Sessions :
        Gone(s) /\ (s \in reaping \/ Connected(s))
            ~> entry[s] = "lost" \/ shell[s] = "reaped"

\* "SIGINT/SIGTERM on kapish triggers ordered shutdown: close watch, kill PTY
\* children, clean temp dirs, exit" (2026-05-09-kapish-design.md:289).
OrderlyExitCleans ==
    [][Exit => \A s \in Sessions : entry[s] \in {"unused", "used"} => s \notin dirs']_vars

=============================================================================
