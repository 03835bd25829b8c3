----------------------------- MODULE ConfigFile -----------------------------
(***************************************************************************)
(* The configuration file and those who write it: WriteToFile, called by   *)
(* the server's PUT /config and by the terminal UI's settings              *)
(* (internal/config/write.go, internal/web/config_api.go,                  *)
(* internal/tui/settings.go), and EnsureFirstRunTemplate, called by        *)
(* `kapish config edit` (internal/config/template.go).                     *)
(*                                                                         *)
(* Writers are in several processes and share only the file system, so a   *)
(* crash takes one of them anywhere.  They lock a file beside the          *)
(* configuration, and remove it when they have unlocked it: a lock is on   *)
(* the file that was opened (its inode), not on its name.  A configuration *)
(* is the set of its named things: management clusters, environment        *)
(* variables, aliases; single values belong to whoever wrote last.         *)
(***************************************************************************)
EXTENDS Naturals

CONSTANTS
    Writers,    \* slots for invocations of WriteToFile
    Names,      \* what a configuration can name
    Inodes,     \* bound: lock files in use at once
    NoFile      \* no file of this name

ASSUME ConfigAssumption == NoFile \notin Inodes

VARIABLES
    file,       \* what the configuration file names
    lockFile,   \* the inode the lock's name leads to
    at,         \* where each writer is
    lk,         \* the lock file each writer has open
    text,       \* the configuration each writer is to write, then what it
                \* has rendered; empty when it is no longer needed
    temps,      \* writers whose temp file exists, those that crashed apart
    first,      \* EnsureFirstRunTemplate has found no file
    split,      \* history: a lock file was made while another was still open
    clobbered   \* history: the first-run template was put over a file

lockVars == <<lockFile, lk, split>>
callVars == <<at, text, temps>>
vars == <<file, lockVars, callVars, first, clobbered>>

-----------------------------------------------------------------------------

\* waiting: has the lock file open.  locked, rendered, made: in the section, and
\* the output is rendered, and in the temp file.  leaving: the deferred unlock
\* is next.  unlocked: the removal of the lock file is next.
Places == {"idle", "waiting", "locked", "rendered", "made", "leaving", "unlocked"}
InSection == {w \in Writers : at[w] \in {"locked", "rendered", "made", "leaving"}}
HaveLockOpen == {w \in Writers : at[w] = "waiting"} \cup InSection

TypeOK ==
    /\ file \in (SUBSET Names) \cup {NoFile}
    /\ lockFile \in Inodes \cup {NoFile}
    /\ at \in [Writers -> Places]
    /\ lk \in [Writers -> Inodes \cup {NoFile}]
    /\ text \in [Writers -> SUBSET Names]
    /\ temps \in SUBSET Writers
    /\ first \in BOOLEAN
    /\ split \in BOOLEAN
    /\ clobbered \in BOOLEAN
    /\ \A w \in HaveLockOpen : lk[w] # NoFile

Init ==
    /\ file = NoFile
    /\ lockFile = NoFile
    /\ at = [w \in Writers |-> "idle"]
    /\ lk = [w \in Writers |-> NoFile]
    /\ text = [w \in Writers |-> {}]
    /\ temps = {}
    /\ first = FALSE
    /\ split = FALSE
    /\ clobbered = FALSE

\* Writer w goes from a to b.
Goes(w, a, b) == at[w] = a /\ at' = [at EXCEPT ![w] = b]

-----------------------------------------------------------------------------
(* WriteToFile                                                             *)

\* The lock file is opened, or made if its name leads nowhere, for a call with
\* configuration c: an older copy of the file with some of its names changed.
Open(w, c) ==
    /\ Goes(w, "idle", "waiting")
    /\ text' = [text EXCEPT ![w] = c]
    /\ IF lockFile # NoFile
       THEN lk' = [lk EXCEPT ![w] = lockFile] /\ UNCHANGED <<lockFile, split>>
       ELSE \E i \in Inodes \ {lk[v] : v \in HaveLockOpen} :
              /\ lk' = [lk EXCEPT ![w] = i]
              /\ lockFile' = i
              /\ split' = (split \/ HaveLockOpen # {})
    /\ UNCHANGED <<file, temps, first, clobbered>>

\* Faulty variant: a shared lock.
AcquireShared(w) ==
    /\ Goes(w, "waiting", "locked")
    /\ UNCHANGED <<file, lockVars, text, temps, first, clobbered>>

\* Faulty variant: a lock file that has been removed is refused, not reopened.
AcquireIfLinked(w) ==
    /\ lk[w] = lockFile
    /\ \A v \in InSection : lk[v] # lk[w]
    /\ Goes(w, "waiting", "locked")
    /\ UNCHANGED <<file, lockVars, text, temps, first, clobbered>>

\* flock(LOCK_EX).
Acquire(w) ==
    /\ \A v \in InSection : lk[v] # lk[w]
    /\ Goes(w, "waiting", "locked")
    /\ UNCHANGED <<file, lockVars, text, temps, first, clobbered>>

\* patchMappingValues and patchSequenceValues: what the file names is kept,
\* what it does not name is appended; an absent file adds nothing.
Patched(f, c) == IF f = NoFile THEN c ELSE f \cup c

\* renderYAML reads the file.
Render(w) ==
    /\ Goes(w, "locked", "rendered")
    /\ text' = [text EXCEPT ![w] = Patched(file, @)]
    /\ UNCHANGED <<file, lockVars, temps, first, clobbered>>

\* The temp file is created, written and closed.
MakeTemp(w) ==
    /\ Goes(w, "rendered", "made")
    /\ temps' = temps \cup {w}
    /\ UNCHANGED <<file, lockVars, text, first, clobbered>>

\* os.Rename.
Rename(w) ==
    /\ Goes(w, "made", "leaving")
    /\ file' = text[w]
    /\ text' = [text EXCEPT ![w] = {}]
    /\ temps' = temps \ {w}
    /\ UNCHANGED <<lockVars, first, clobbered>>

\* Faulty variant: the temp file of a rename that fails is forgotten.
FailsLeavingTemp(w) ==
    /\ at[w] \in {"locked", "rendered", "made"}
    /\ at' = [at EXCEPT ![w] = "leaving"]
    /\ text' = [text EXCEPT ![w] = {}]
    /\ UNCHANGED <<file, lockVars, temps, first, clobbered>>

\* Reading, rendering, writing or renaming fails; a temp file is removed.
Fails(w) ==
    /\ at[w] \in {"locked", "rendered", "made"}
    /\ at' = [at EXCEPT ![w] = "leaving"]
    /\ text' = [text EXCEPT ![w] = {}]
    /\ temps' = temps \ {w}
    /\ UNCHANGED <<file, lockVars, first, clobbered>>

\* The deferred Unlock, which closes the lock file too.
Unlock(w) ==
    /\ Goes(w, "leaving", "unlocked")
    /\ lk' = [lk EXCEPT ![w] = NoFile]
    /\ UNCHANGED <<file, lockFile, split, text, temps, first, clobbered>>

\* Faulty variant: the lock file is removed, and closed, by whoever waits for it.
RemoveLockAnywhere(w) ==
    /\ at[w] \in {"waiting", "unlocked"}
    /\ lockFile' = NoFile
    /\ lk' = [lk EXCEPT ![w] = NoFile]
    /\ UNCHANGED <<file, split, callVars, first, clobbered>>

\* The deferred os.Remove: of the file the name leads to now.
RemoveLock(w) ==
    /\ Goes(w, "unlocked", "idle")
    /\ lockFile' = NoFile
    /\ UNCHANGED <<file, lk, split, text, temps, first, clobbered>>

\* The process of w dies: the kernel closes the lock file, which frees the
\* lock; lock file and temp file stay on disk.
Crash(w) ==
    /\ at[w] # "idle"
    /\ at' = [at EXCEPT ![w] = "idle"]
    /\ lk' = [lk EXCEPT ![w] = NoFile]
    /\ text' = [text EXCEPT ![w] = {}]
    /\ temps' = temps \ {w}
    /\ UNCHANGED <<file, lockFile, split, first, clobbered>>

-----------------------------------------------------------------------------
(* EnsureFirstRunTemplate                                                  *)

\* os.Stat finds no file.
FindsNoFile ==
    /\ file = NoFile
    /\ first' = TRUE
    /\ UNCHANGED <<file, lockVars, callVars, clobbered>>

\* os.WriteFile truncates what is there by now.  The template names nothing.
WritesTemplate ==
    /\ first
    /\ first' = FALSE
    /\ file' = {}
    /\ clobbered' = (clobbered \/ file # NoFile)
    /\ UNCHANGED <<lockVars, callVars>>

-----------------------------------------------------------------------------

Step(w) ==
    \/ Acquire(w) \/ Render(w) \/ MakeTemp(w) \/ Rename(w) \/ Fails(w)
    \/ Unlock(w) \/ RemoveLock(w)

\* persistConfigCmd, or handlePutConfig: whatever the process has in memory, or
\* the browser sends.
Save(w) == \E c \in SUBSET Names : Open(w, c)

Next ==
    \/ \E w \in Writers : Save(w) \/ Step(w) \/ Crash(w)
    \/ FindsNoFile \/ WritesTemplate

Spec == Init /\ [][Next]_vars

\* A process that lives runs, and the kernel gives a lock that is free again and
\* again to whoever waits for it.
Fairness == \A w \in Writers : WF_vars(Step(w)) /\ SF_vars(Acquire(w))

FairSpec == Spec /\ Fairness

-----------------------------------------------------------------------------
(* Properties                                                              *)

\* What the file names stays named, whatever writers interleave, fail or crash
\* with stale configurations (write.go:120-123), unless the lock had split in
\* two, a new lock file made while a removed one was still waited for or held,
\* or the template was put over a file.
NamesKept == [][file # NoFile => file \subseteq file' \/ split \/ clobbered']_vars

\* A call that ends, in whatever way but a crash, has no temp file left
\* (write.go:43-65).
TempsAreOwned == \A w \in temps : at[w] = "made"

\* Every call ends, whoever crashed holding the lock (write.go:26-35).
WritesEnd == \A w \in Writers : at[w] # "idle" ~> at[w] = "idle"

=============================================================================
