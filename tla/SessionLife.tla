---------------------------- MODULE SessionLife -----------------------------
(***************************************************************************)
(* What `kapish serve` promises of a browser terminal, whatever handlers,  *)
(* tabs, timers and signals are at work: a session lives once.  It waits   *)
(* for its tab, is claimed at most once, has one shell at most, and is     *)
(* over for good; its temp dir is there until it is over, unless the dir   *)
(* has become so old that anybody may sweep it; and its shell is told to   *)
(* go when it is over, if not before.                                      *)
(***************************************************************************)
CONSTANT Sessions

VARIABLES
    life,   \* of each session: none, waiting, claimed or over
    dirs,   \* the sessions whose temp dir exists
    aged,   \* the sessions whose temp dir anybody may sweep
    shell   \* of each session: none, running, leaving or gone

vars == <<life, dirs, aged, shell>>

Init ==
    /\ life = [s \in Sessions |-> "none"]
    /\ dirs = {}
    /\ aged = {}
    /\ shell = [s \in Sessions |-> "none"]

\* The dir is made; the tab is given its token when it is complete.
Begin(s) ==
    /\ life[s] = "none"
    /\ life' = [life EXCEPT ![s] = "waiting"]
    /\ dirs' = dirs \cup {s}
    /\ UNCHANGED <<aged, shell>>

\* Sessions nobody will claim end, all at once, and leave no dir.
Expire(S) ==
    /\ \A s \in S : life[s] = "waiting"
    /\ life' = [s \in Sessions |-> IF s \in S THEN "over" ELSE life[s]]
    /\ dirs' = dirs \ S
    /\ UNCHANGED <<aged, shell>>

Claim(s) ==
    /\ life[s] = "waiting"
    /\ life' = [life EXCEPT ![s] = "claimed"]
    /\ UNCHANGED <<dirs, aged, shell>>

\* The one shell a session has, and only while it is claimed.
Start(s) ==
    /\ life[s] = "claimed"
    /\ shell[s] = "none"
    /\ shell' = [shell EXCEPT ![s] = "running"]
    /\ UNCHANGED <<life, dirs, aged>>

\* What becomes of a shell that is told to go.
Told(st) == IF st = "running" THEN "leaving" ELSE st

TellToGo(s) ==
    /\ shell' = [shell EXCEPT ![s] = Told(@)]
    /\ UNCHANGED <<life, dirs, aged>>

Exit(s) ==
    /\ shell[s] \in {"running", "leaving"}
    /\ shell' = [shell EXCEPT ![s] = "gone"]
    /\ UNCHANGED <<life, dirs, aged>>

\* The terminal is over, and its shell with it.
Finish(s) ==
    /\ life[s] = "claimed"
    /\ life' = [life EXCEPT ![s] = "over"]
    /\ shell' = [shell EXCEPT ![s] = Told(@)]
    /\ UNCHANGED <<dirs, aged>>

Remove(s) ==
    /\ life[s] = "over"
    /\ dirs' = dirs \ {s}
    /\ UNCHANGED <<life, aged, shell>>

Age(s) ==
    /\ s \in dirs
    /\ aged' = aged \cup {s}
    /\ UNCHANGED <<life, dirs, shell>>

Sweep ==
    /\ dirs' = dirs \ aged
    /\ UNCHANGED <<life, aged, shell>>

\* The process ends, however it does: so does every session, and the dirs stay.
Die ==
    /\ life' = [s \in Sessions |-> IF life[s] = "none" THEN "none" ELSE "over"]
    /\ shell' = [s \in Sessions |-> Told(shell[s])]
    /\ UNCHANGED <<dirs, aged>>

Next ==
    \/ \E s \in Sessions :
         \/ Begin(s) \/ Claim(s) \/ Start(s) \/ TellToGo(s) \/ Exit(s)
         \/ Finish(s) \/ Remove(s) \/ Age(s)
    \/ \E S \in SUBSET Sessions : Expire(S)
    \/ Sweep \/ Die

Spec == Init /\ [][Next]_vars

=============================================================================
