------------------------- MODULE PtySessionsProofs --------------------------
(***************************************************************************)
(* The safety of browser terminals, proved for any number of sessions and  *)
(* handlers.  IInv says who answers for what: a running handler owns one   *)
(* session, alone; a running shell has a handler that still holds its PTY; *)
(* and every dir is either somebody's to remove or has been removed.  From *)
(* it follows that every step of the server, seen by session, is a step of *)
(* SessionLife or none.                                                    *)
(***************************************************************************)
EXTENDS PtySessions, TLAPS

-----------------------------------------------------------------------------
(* The inductive invariant                                                 *)

\* The system starts with no session, no handler and no dir.
LEMMA InitEstablishes == Init => IInv
BY SessionsAssumption
   DEF Init, IInv, TypeOK, HandlersUseTheirs, TokenIsSingleUse, ShellsHaveHandlers,
       DirsAwaitCleanup, NoLeakedDir, StartsOnce, Entries, Shells, Places, HasPty, WillClean

\* Variables keep their types.
LEMMA TypePreserved == IInv /\ [Next]_vars => TypeOK'
<1> SUFFICES ASSUME IInv, [Next]_vars PROVE TypeOK'
  OBVIOUS
<1> USE SessionsAssumption DEF IInv, TypeOK, HandlersUseTheirs, Entries, Shells, Places, HasPty,
        Alive, Signalled
<1>1. CASE UNCHANGED vars
  BY <1>1 DEF vars, storeVars, shellVars, handlerVars
<1>2. ASSUME NEW s \in Sessions,
             Post(s) \/ Expires(s) \/ DirAges(s) \/ ShellExits(s) \/ Reaped(s)
      PROVE  TypeOK'
  BY <1>2 DEF Post, MakeDir, PrepareFails, Create, Expires, DirAges, ShellExits, Reaped,
              storeVars, shellVars, handlerVars
<1>3. CASE Evict
  BY <1>3 DEF Evict, shellVars, handlerVars
<1>4. ASSUME NEW c \in Handlers, NEW s \in Sessions, Consume(c, s)
      PROVE  TypeOK'
  BY <1>4 DEF Consume, shellVars
<1>5. ASSUME NEW c \in Handlers, Handle(c)
      PROVE  TypeOK'
  <2>1. CASE PtyStarts(c)
    BY <2>1 DEF PtyStarts, storeVars
  <2>2. CASE PtyStartFails(c) \/ Accepts(c) \/ AcceptFails(c)
    BY <2>2 DEF PtyStartFails, Accepts, AcceptFails, storeVars, shellVars
  <2>3. CASE LoopEnds(c) \/ GraceOver(c) \/ WaitDone(c)
    BY <2>3 DEF LoopEnds, GraceOver, WaitDone, storeVars, shellVars
  <2>4. CASE Closes(c) \/ RemovesDir(c)
    BY <2>4 DEF Closes, RemovesDir, storeVars, shellVars
  <2>5. CASE Forgets(c)
    BY <2>5 DEF Forgets, shellVars
  <2> QED
    BY <1>5, <2>1, <2>2, <2>3, <2>4, <2>5 DEF Handle
<1>6. ASSUME NEW c \in Handlers,
             Input(c) \/ InputDone(c) \/ TabCloses(c) \/ BridgeReadFails(c) \/ BridgeWriteFails(c)
      PROVE  TypeOK'
  BY <1>6 DEF Input, InputDone, TabCloses, BridgeReadFails, BridgeWriteFails,
              storeVars, shellVars
<1>7. CASE Stop \/ Restart \/ OtherStarts
  BY <1>7 DEF Stop, Restart, OtherStarts, Sweep, storeVars, shellVars, handlerVars
<1>8. CASE Exit \/ Crash
  BY <1>8 DEF Exit, Crash, Dies
<1> QED
  BY <1>1, <1>2, <1>3, <1>4, <1>5, <1>6, <1>7, <1>8 DEF Next

\* A token is consumed once, and the entry stays in use while its handler runs.
LEMMA OwnershipPreserved == IInv /\ TypeOK' /\ [Next]_vars => HandlersUseTheirs' /\ TokenIsSingleUse'
<1> SUFFICES ASSUME IInv, TypeOK', [Next]_vars PROVE HandlersUseTheirs' /\ TokenIsSingleUse'
  OBVIOUS
<1> USE SessionsAssumption DEF IInv, TypeOK, HandlersUseTheirs, TokenIsSingleUse, Entries, Shells, Places
<1>1. CASE UNCHANGED vars
  BY <1>1 DEF vars, storeVars, shellVars, handlerVars
<1>2. ASSUME NEW s \in Sessions, Post(s) \/ Expires(s) \/ DirAges(s)
      PROVE  HandlersUseTheirs' /\ TokenIsSingleUse'
  <2>1. CASE MakeDir(s)
    BY <2>1 DEF MakeDir, shellVars, handlerVars
  <2>2. CASE PrepareFails(s)
    BY <2>2 DEF PrepareFails, shellVars, handlerVars
  <2>3. CASE Create(s)
    BY <2>3 DEF Create, shellVars, handlerVars
  <2>4. CASE Expires(s) \/ DirAges(s)
    BY <2>4 DEF Expires, DirAges, shellVars, handlerVars
  <2> QED
    BY <1>2, <2>1, <2>2, <2>3, <2>4 DEF Post
<1>3. CASE Evict
  BY <1>3 DEF Evict, shellVars, handlerVars
<1>4. ASSUME NEW c \in Handlers, NEW s \in Sessions, Consume(c, s)
      PROVE  HandlersUseTheirs' /\ TokenIsSingleUse'
  BY <1>4 DEF Consume, shellVars
<1>5. ASSUME NEW c \in Handlers, Handle(c)
      PROVE  HandlersUseTheirs' /\ TokenIsSingleUse'
  <2>1. CASE PtyStarts(c)
    BY <2>1 DEF PtyStarts, storeVars
  <2>2. CASE PtyStartFails(c)
    BY <2>2 DEF PtyStartFails, storeVars, shellVars
  <2>3. CASE Accepts(c)
    BY <2>3 DEF Accepts, storeVars, shellVars
  <2>4. CASE AcceptFails(c)
    BY <2>4 DEF AcceptFails, storeVars
  <2>5. CASE LoopEnds(c)
    BY <2>5 DEF LoopEnds, storeVars
  <2>6. CASE GraceOver(c)
    BY <2>6 DEF GraceOver, storeVars
  <2>7. CASE WaitDone(c)
    BY <2>7 DEF WaitDone, storeVars, shellVars
  <2>8. CASE Closes(c)
    BY <2>8 DEF Closes, storeVars
  <2>9. CASE RemovesDir(c)
    BY <2>9 DEF RemovesDir, storeVars, shellVars
  <2>10. CASE Forgets(c)
    BY <2>10 DEF Forgets, shellVars
  <2> QED
    BY <1>5, <2>1, <2>2, <2>3, <2>4, <2>5, <2>6, <2>7, <2>8, <2>9, <2>10 DEF Handle
<1>6. ASSUME NEW c \in Handlers,
             Input(c) \/ InputDone(c) \/ TabCloses(c) \/ BridgeReadFails(c) \/ BridgeWriteFails(c)
      PROVE  HandlersUseTheirs' /\ TokenIsSingleUse'
  BY <1>6 DEF Input, InputDone, TabCloses, BridgeReadFails, BridgeWriteFails,
              storeVars, shellVars
<1>7. ASSUME NEW s \in Sessions, ShellExits(s) \/ Reaped(s)
      PROVE  HandlersUseTheirs' /\ TokenIsSingleUse'
  BY <1>7 DEF ShellExits, Reaped, storeVars, handlerVars
<1>8. CASE Stop \/ Restart \/ OtherStarts
  BY <1>8 DEF Stop, Restart, OtherStarts, Sweep, storeVars, shellVars, handlerVars
<1>9. CASE Exit \/ Crash
  BY <1>9 DEF Exit, Crash, Dies
<1> QED
  BY <1>1, <1>2, <1>3, <1>4, <1>5, <1>6, <1>7, <1>8, <1>9 DEF Next

\* A handler leaves its PTY only when its shell has been told to go.
LEMMA ShellsPreserved == IInv /\ TypeOK' /\ [Next]_vars => ShellsHaveHandlers'
<1> SUFFICES ASSUME IInv, TypeOK', [Next]_vars PROVE ShellsHaveHandlers'
  OBVIOUS
<1> USE SessionsAssumption DEF IInv, TypeOK, HandlersUseTheirs, TokenIsSingleUse, ShellsHaveHandlers,
        Entries, Shells, Places, HasPty, Alive, Signalled
<1>1. CASE UNCHANGED vars
  BY <1>1 DEF vars, storeVars, shellVars, handlerVars
<1>2. ASSUME NEW s \in Sessions, Post(s) \/ Expires(s) \/ DirAges(s)
      PROVE  ShellsHaveHandlers'
  <2>1. CASE MakeDir(s)
    BY <2>1 DEF MakeDir, shellVars, handlerVars
  <2>2. CASE PrepareFails(s)
    BY <2>2 DEF PrepareFails, shellVars, handlerVars
  <2>3. CASE Create(s)
    BY <2>3 DEF Create, shellVars, handlerVars
  <2>4. CASE Expires(s) \/ DirAges(s)
    BY <2>4 DEF Expires, DirAges, shellVars, handlerVars
  <2> QED
    BY <1>2, <2>1, <2>2, <2>3, <2>4 DEF Post
<1>3. CASE Evict
  BY <1>3 DEF Evict, shellVars, handlerVars
<1>4. ASSUME NEW c \in Handlers, NEW s \in Sessions, Consume(c, s)
      PROVE  ShellsHaveHandlers'
  BY <1>4 DEF Consume, shellVars
<1>5. ASSUME NEW c \in Handlers, Handle(c)
      PROVE  ShellsHaveHandlers'
  <2>1. CASE PtyStarts(c)
    BY <2>1 DEF PtyStarts, storeVars
  <2>2. CASE PtyStartFails(c)
    BY <2>2 DEF PtyStartFails, storeVars, shellVars
  <2>3. CASE Accepts(c)
    BY <2>3 DEF Accepts, storeVars, shellVars
  <2>4. CASE AcceptFails(c)
    BY <2>4 DEF AcceptFails, storeVars
  <2>5. CASE LoopEnds(c)
    BY <2>5 DEF LoopEnds, storeVars
  <2>6. CASE GraceOver(c)
    BY <2>6 DEF GraceOver, storeVars
  <2>7. CASE WaitDone(c)
    BY <2>7 DEF WaitDone, storeVars, shellVars
  <2>8. CASE Closes(c)
    BY <2>8 DEF Closes, storeVars
  <2>9. CASE RemovesDir(c)
    BY <2>9 DEF RemovesDir, storeVars, shellVars
  <2>10. CASE Forgets(c)
    BY <2>10 DEF Forgets, shellVars
  <2> QED
    BY <1>5, <2>1, <2>2, <2>3, <2>4, <2>5, <2>6, <2>7, <2>8, <2>9, <2>10 DEF Handle
<1>6. ASSUME NEW c \in Handlers,
             Input(c) \/ InputDone(c) \/ TabCloses(c) \/ BridgeReadFails(c) \/ BridgeWriteFails(c)
      PROVE  ShellsHaveHandlers'
  BY <1>6 DEF Input, InputDone, TabCloses, BridgeReadFails, BridgeWriteFails,
              storeVars, shellVars
<1>7. ASSUME NEW s \in Sessions, ShellExits(s) \/ Reaped(s)
      PROVE  ShellsHaveHandlers'
  BY <1>7 DEF ShellExits, Reaped, storeVars, handlerVars
<1>8. CASE Stop \/ Restart \/ OtherStarts
  BY <1>8 DEF Stop, Restart, OtherStarts, Sweep, storeVars, shellVars, handlerVars
<1>9. CASE Exit \/ Crash
  BY <1>9 DEF Exit, Crash, Dies
<1> QED
  BY <1>1, <1>2, <1>3, <1>4, <1>5, <1>6, <1>7, <1>8, <1>9 DEF Next

\* Nobody removes a dir another is to remove, but the sweep.
LEMMA CleanupPreserved == IInv /\ TypeOK' /\ [Next]_vars => DirsAwaitCleanup'
<1> SUFFICES ASSUME IInv, TypeOK', [Next]_vars PROVE DirsAwaitCleanup'
  OBVIOUS
<1> USE SessionsAssumption DEF IInv, TypeOK, HandlersUseTheirs, TokenIsSingleUse, DirsAwaitCleanup,
        Entries, Shells, Places, WillClean
<1>1. CASE UNCHANGED vars
  BY <1>1 DEF vars, storeVars, shellVars, handlerVars
<1>2. ASSUME NEW s \in Sessions, Post(s) \/ Expires(s) \/ DirAges(s)
      PROVE  DirsAwaitCleanup'
  <2>1. CASE MakeDir(s)
    BY <2>1 DEF MakeDir, shellVars, handlerVars
  <2>2. CASE PrepareFails(s)
    BY <2>2 DEF PrepareFails, shellVars, handlerVars
  <2>3. CASE Create(s)
    BY <2>3 DEF Create, shellVars, handlerVars
  <2>4. CASE Expires(s) \/ DirAges(s)
    BY <2>4 DEF Expires, DirAges, shellVars, handlerVars
  <2> QED
    BY <1>2, <2>1, <2>2, <2>3, <2>4 DEF Post
<1>3. CASE Evict
  BY <1>3 DEF Evict, shellVars, handlerVars
<1>4. ASSUME NEW c \in Handlers, NEW s \in Sessions, Consume(c, s)
      PROVE  DirsAwaitCleanup'
  BY <1>4 DEF Consume, shellVars
<1>5. ASSUME NEW c \in Handlers, Handle(c)
      PROVE  DirsAwaitCleanup'
  <2>1. CASE PtyStarts(c)
    BY <2>1 DEF PtyStarts, storeVars
  <2>2. CASE PtyStartFails(c)
    BY <2>2 DEF PtyStartFails, storeVars, shellVars
  <2>3. CASE Accepts(c)
    BY <2>3 DEF Accepts, storeVars, shellVars
  <2>4. CASE AcceptFails(c)
    BY <2>4 DEF AcceptFails, storeVars
  <2>5. CASE LoopEnds(c)
    BY <2>5 DEF LoopEnds, storeVars
  <2>6. CASE GraceOver(c)
    BY <2>6 DEF GraceOver, storeVars
  <2>7. CASE WaitDone(c)
    BY <2>7 DEF WaitDone, storeVars, shellVars
  <2>8. CASE Closes(c)
    BY <2>8 DEF Closes, storeVars
  <2>9. CASE RemovesDir(c)
    BY <2>9 DEF RemovesDir, storeVars, shellVars
  <2>10. CASE Forgets(c)
    BY <2>10 DEF Forgets, shellVars
  <2> QED
    BY <1>5, <2>1, <2>2, <2>3, <2>4, <2>5, <2>6, <2>7, <2>8, <2>9, <2>10 DEF Handle
<1>6. ASSUME NEW c \in Handlers,
             Input(c) \/ InputDone(c) \/ TabCloses(c) \/ BridgeReadFails(c) \/ BridgeWriteFails(c)
      PROVE  DirsAwaitCleanup'
  BY <1>6 DEF Input, InputDone, TabCloses, BridgeReadFails, BridgeWriteFails,
              storeVars, shellVars
<1>7. ASSUME NEW s \in Sessions, ShellExits(s) \/ Reaped(s)
      PROVE  DirsAwaitCleanup'
  BY <1>7 DEF ShellExits, Reaped, storeVars, handlerVars
<1>8. CASE Stop \/ Restart \/ OtherStarts
  BY <1>8 DEF Stop, Restart, OtherStarts, Sweep, storeVars, shellVars, handlerVars
<1>9. CASE Exit \/ Crash
  BY <1>9 DEF Exit, Crash, Dies
<1> QED
  BY <1>1, <1>2, <1>3, <1>4, <1>5, <1>6, <1>7, <1>8, <1>9 DEF Next

\* No step leaves a dir without somebody to remove it.
LEMMA NoLeakPreserved == IInv /\ TypeOK' /\ [Next]_vars => NoLeakedDir'
<1> SUFFICES ASSUME IInv, TypeOK', [Next]_vars PROVE NoLeakedDir'
  OBVIOUS
<1> USE SessionsAssumption DEF IInv, TypeOK, HandlersUseTheirs, TokenIsSingleUse, NoLeakedDir,
        Entries, Shells, Places, WillClean
<1>1. CASE UNCHANGED vars
  BY <1>1 DEF vars, storeVars, shellVars, handlerVars
<1>2. ASSUME NEW s \in Sessions, Post(s) \/ Expires(s) \/ DirAges(s)
      PROVE  NoLeakedDir'
  <2>1. CASE MakeDir(s)
    BY <2>1 DEF MakeDir, shellVars, handlerVars
  <2>2. CASE PrepareFails(s)
    BY <2>2 DEF PrepareFails, shellVars, handlerVars
  <2>3. CASE Create(s)
    BY <2>3 DEF Create, shellVars, handlerVars
  <2>4. CASE Expires(s) \/ DirAges(s)
    BY <2>4 DEF Expires, DirAges, shellVars, handlerVars
  <2> QED
    BY <1>2, <2>1, <2>2, <2>3, <2>4 DEF Post
<1>3. CASE Evict
  BY <1>3 DEF Evict, shellVars, handlerVars
<1>4. ASSUME NEW c \in Handlers, NEW s \in Sessions, Consume(c, s)
      PROVE  NoLeakedDir'
  BY <1>4 DEF Consume, shellVars
<1>5. ASSUME NEW c \in Handlers, Handle(c)
      PROVE  NoLeakedDir'
  <2>1. CASE PtyStarts(c)
    BY <2>1 DEF PtyStarts, storeVars
  <2>2. CASE PtyStartFails(c)
    BY <2>2 DEF PtyStartFails, storeVars, shellVars
  <2>3. CASE Accepts(c)
    BY <2>3 DEF Accepts, storeVars, shellVars
  <2>4. CASE AcceptFails(c)
    BY <2>4 DEF AcceptFails, storeVars
  <2>5. CASE LoopEnds(c)
    BY <2>5 DEF LoopEnds, storeVars
  <2>6. CASE GraceOver(c)
    BY <2>6 DEF GraceOver, storeVars
  <2>7. CASE WaitDone(c)
    BY <2>7 DEF WaitDone, storeVars, shellVars
  <2>8. CASE Closes(c)
    BY <2>8 DEF Closes, storeVars
  <2>9. CASE RemovesDir(c)
    BY <2>9 DEF RemovesDir, storeVars, shellVars
  <2>10. CASE Forgets(c)
    BY <2>10 DEF Forgets, shellVars
  <2> QED
    BY <1>5, <2>1, <2>2, <2>3, <2>4, <2>5, <2>6, <2>7, <2>8, <2>9, <2>10 DEF Handle
<1>6. ASSUME NEW c \in Handlers,
             Input(c) \/ InputDone(c) \/ TabCloses(c) \/ BridgeReadFails(c) \/ BridgeWriteFails(c)
      PROVE  NoLeakedDir'
  BY <1>6 DEF Input, InputDone, TabCloses, BridgeReadFails, BridgeWriteFails,
              storeVars, shellVars
<1>7. ASSUME NEW s \in Sessions, ShellExits(s) \/ Reaped(s)
      PROVE  NoLeakedDir'
  BY <1>7 DEF ShellExits, Reaped, storeVars, handlerVars
<1>8. CASE Stop \/ Restart \/ OtherStarts
  BY <1>8 DEF Stop, Restart, OtherStarts, Sweep, storeVars, shellVars, handlerVars
<1>9. CASE Exit \/ Crash
  BY <1>9 DEF Exit, Crash, Dies
<1> QED
  BY <1>1, <1>2, <1>3, <1>4, <1>5, <1>6, <1>7, <1>8, <1>9 DEF Next

\* A session without a shell gets one only from the handler that claimed it.
LEMMA StartsPreserved == IInv /\ TypeOK' /\ [Next]_vars => StartsOnce'
<1> SUFFICES ASSUME IInv, TypeOK', [Next]_vars PROVE StartsOnce'
  OBVIOUS
<1> USE SessionsAssumption DEF IInv, TypeOK, HandlersUseTheirs, TokenIsSingleUse, StartsOnce,
        Entries, Shells, Places, HasPty, Alive, Signalled
<1>1. CASE UNCHANGED vars
  BY <1>1 DEF vars, storeVars, shellVars, handlerVars
<1>2. ASSUME NEW s \in Sessions, Post(s) \/ Expires(s) \/ DirAges(s)
      PROVE  StartsOnce'
  BY <1>2 DEF Post, MakeDir, PrepareFails, Create, Expires, DirAges, shellVars, handlerVars
<1>3. CASE Evict
  BY <1>3 DEF Evict, shellVars, handlerVars
<1>4. ASSUME NEW c \in Handlers, NEW s \in Sessions, Consume(c, s)
      PROVE  StartsOnce'
  BY <1>4 DEF Consume, shellVars
<1>5. ASSUME NEW c \in Handlers, Handle(c)
      PROVE  StartsOnce'
  <2>1. CASE PtyStarts(c)
    BY <2>1 DEF PtyStarts, storeVars
  <2>2. CASE PtyStartFails(c) \/ Accepts(c) \/ AcceptFails(c)
    BY <2>2 DEF PtyStartFails, Accepts, AcceptFails, storeVars, shellVars
  <2>3. CASE LoopEnds(c) \/ GraceOver(c) \/ WaitDone(c)
    BY <2>3 DEF LoopEnds, GraceOver, WaitDone, storeVars, shellVars
  <2>4. CASE Closes(c) \/ RemovesDir(c)
    BY <2>4 DEF Closes, RemovesDir, storeVars, shellVars
  <2>5. CASE Forgets(c)
    BY <2>5 DEF Forgets, shellVars
  <2> QED
    BY <1>5, <2>1, <2>2, <2>3, <2>4, <2>5 DEF Handle
<1>6. ASSUME NEW c \in Handlers,
             Input(c) \/ InputDone(c) \/ TabCloses(c) \/ BridgeReadFails(c) \/ BridgeWriteFails(c)
      PROVE  StartsOnce'
  BY <1>6 DEF Input, InputDone, TabCloses, BridgeReadFails, BridgeWriteFails,
              storeVars, shellVars
<1>7. ASSUME NEW s \in Sessions, ShellExits(s) \/ Reaped(s)
      PROVE  StartsOnce'
  BY <1>7 DEF ShellExits, Reaped, storeVars, handlerVars
<1>8. CASE Stop \/ Restart \/ OtherStarts
  BY <1>8 DEF Stop, Restart, OtherStarts, Sweep, storeVars, shellVars, handlerVars
<1>9. CASE Exit \/ Crash
  BY <1>9 DEF Exit, Crash, Dies
<1> QED
  BY <1>1, <1>2, <1>3, <1>4, <1>5, <1>6, <1>7, <1>8, <1>9 DEF Next

-----------------------------------------------------------------------------
(* The refinement of SessionLife                                           *)

\* A handler that moves serves its own session or not, by where it is; what the
\* other sessions' handlers do is not changed.
LEMMA ServedMoves ==
    ASSUME IInv, NEW c \in Handlers, of[c] # NoSession, NEW p \in Places,
           of' = of, at' = [at EXCEPT ![c] = p]
    PROVE  \A t \in Sessions :
              Served(t)' <=> IF t = of[c] THEN p \in HasPty \cup {"claimed"}
                                          ELSE Served(t)
BY DEF IInv, TypeOK, TokenIsSingleUse, Served

\* What the phase of a session depends on.
LEMMA SameLife ==
    ASSUME NEW t, entry'[t] = entry[t], entry[t] = "used" => (Served(t)' <=> Served(t))
    PROVE  LifeOf(t)' = LifeOf(t)
BY DEF LifeOf

LEMMA SameShell ==
    ASSUME NEW t, shell'[t] = shell[t]
    PROVE  ShellOf(t)' = ShellOf(t)
BY DEF ShellOf

\* Phases that do not change are the same function.
LEMMA SameLives ==
    ASSUME \A t \in Sessions : LifeOf(t)' = LifeOf(t)
    PROVE  Lives' = Lives
BY DEF Lives

LEMMA SameShellLives ==
    ASSUME shell' = shell
    PROVE  ShellLives' = ShellLives
BY SameShell DEF ShellLives

\* The dir and the store's entry of a session begin its life or end it.
LEMMA PostLives ==
    ASSUME IInv, NEW s \in Sessions, Post(s)
    PROVE  Promise!Next \/ UNCHANGED Promise!vars
<1> USE DEF IInv, TypeOK
<1>0. ShellLives' = ShellLives /\ UNCHANGED ancient /\ entry \in [Sessions -> Entries]
  BY SameShellLives DEF Post, MakeDir, PrepareFails, Create, shellVars
<1>1. ASSUME NEW t \in Sessions, t # s PROVE LifeOf(t)' = LifeOf(t)
  <2>1. entry'[t] = entry[t] /\ (Served(t)' <=> Served(t))
    BY <1>1 DEF Post, MakeDir, PrepareFails, Create, handlerVars, Served
  <2> QED BY <2>1, SameLife
<1>2. CASE MakeDir(s)
  <2>1. LifeOf(s) = "none" /\ LifeOf(s)' = "waiting" /\ dirs' = dirs \cup {s}
    BY <1>0, <1>2 DEF MakeDir, LifeOf
  <2>2. Lives' = [Lives EXCEPT ![s] = "waiting"] /\ Lives[s] = "none"
    BY <1>1, <2>1 DEF Lives
  <2>3. Promise!Begin(s)
    BY <1>0, <2>1, <2>2 DEF Promise!Begin
  <2> QED BY <2>3 DEF Promise!Next
<1>3. CASE PrepareFails(s)
  <2>1. LifeOf(s) = "waiting" /\ LifeOf(s)' = "over" /\ dirs' = dirs \ {s}
    BY <1>0, <1>3 DEF PrepareFails, LifeOf
  <2>2. Lives' = [t \in Sessions |-> IF t \in {s} THEN "over" ELSE Lives[t]]
    BY <1>1, <2>1 DEF Lives
  <2>3. Lives[s] = "waiting" /\ {s} \in SUBSET Sessions
    BY <2>1 DEF Lives
  <2>4. Promise!Expire({s})
    BY <1>0, <2>1, <2>2, <2>3 DEF Promise!Expire
  <2> QED BY <2>3, <2>4 DEF Promise!Next
<1>4. CASE Create(s)
  <2>1. LifeOf(s)' = LifeOf(s) /\ dirs' = dirs
    BY <1>0, <1>4 DEF Create, LifeOf
  <2>2. Lives' = Lives
    BY <1>1, <2>1, SameLives
  <2> QED BY <1>0, <2>1, <2>2 DEF Promise!vars
<1> QED BY <1>2, <1>3, <1>4 DEF Post

\* The janitor ends what waits too long.
LEMMA EvictLives ==
    ASSUME IInv, Evict
    PROVE  Promise!Next
<1> DEFINE old == {s \in stale : entry[s] = "unused"}
<1>1. /\ entry' = [s \in Sessions |-> IF s \in old THEN "removed" ELSE entry[s]]
      /\ dirs' = dirs \ old
      /\ UNCHANGED <<ancient, shell, at, of>>
      /\ old \in SUBSET Sessions
  BY DEF Evict, shellVars, handlerVars, IInv, TypeOK
<1>2. ASSUME NEW t \in Sessions
      PROVE  /\ t \in old => LifeOf(t) = "waiting"
             /\ LifeOf(t)' = IF t \in old THEN "over" ELSE LifeOf(t)
  BY <1>1 DEF LifeOf, Served
<1> HIDE DEF old
<1>3. /\ \A t \in old : Lives[t] = "waiting"
      /\ Lives' = [t \in Sessions |-> IF t \in old THEN "over" ELSE Lives[t]]
  BY <1>1, <1>2 DEF Lives
<1>4. ShellLives' = ShellLives
  BY <1>1, SameShellLives
<1>5. Promise!Expire(old)
  BY <1>1, <1>3, <1>4 DEF Promise!Expire
<1> QED BY <1>1, <1>5 DEF Promise!Next

\* A token that is consumed claims its session.
LEMMA ConsumeClaims ==
    ASSUME IInv, NEW c \in Handlers, NEW s \in Sessions, Consume(c, s)
    PROVE  Promise!Claim(s)
<1>1. /\ entry \in [Sessions -> Entries] /\ at \in [Handlers -> Places]
      /\ of \in [Handlers -> Sessions \cup {NoSession}] /\ of[c] = NoSession
      /\ NoSession \notin Sessions
  BY SessionsAssumption DEF IInv, TypeOK, HandlersUseTheirs, Consume
<1>2. /\ entry[s] = "unused" /\ entry' = [entry EXCEPT ![s] = "used"]
      /\ at' = [at EXCEPT ![c] = "claimed"] /\ of' = [of EXCEPT ![c] = s]
      /\ UNCHANGED <<dirs, ancient, shell>>
  BY DEF Consume, shellVars
<1>3. LifeOf(s) = "waiting" /\ LifeOf(s)' = "claimed"
  <2>1. Served(s)'
    BY <1>1, <1>2 DEF Served
  <2> QED BY <1>1, <1>2, <2>1 DEF LifeOf
<1>4. ASSUME NEW t \in Sessions, t # s PROVE LifeOf(t)' = LifeOf(t)
  <2>1. entry'[t] = entry[t]
    BY <1>1, <1>2, <1>4
  <2>2. Served(t)' <=> Served(t)
    BY <1>1, <1>2, <1>4 DEF Served
  <2> QED BY <2>1, <2>2, SameLife
<1>5. Lives' = [Lives EXCEPT ![s] = "claimed"] /\ Lives[s] = "waiting"
  BY <1>3, <1>4 DEF Lives
<1>6. ShellLives' = ShellLives
  BY <1>2, SameShellLives
<1> QED BY <1>2, <1>5, <1>6 DEF Promise!Claim

\* A step of a handler that keeps its session changes the life of no other.
LEMMA HandlerLives ==
    ASSUME IInv, NEW c \in Handlers, of[c] # NoSession, NEW p \in Places,
           of' = of, at' = [at EXCEPT ![c] = p], entry' = entry
    PROVE  /\ of[c] \in Sessions /\ at[c] # "idle" /\ entry[of[c]] = "used"
           /\ LifeOf(of[c]) = IF at[c] \in HasPty \cup {"claimed"} THEN "claimed" ELSE "over"
           /\ Lives' = [Lives EXCEPT ![of[c]] =
                          IF p \in HasPty \cup {"claimed"} THEN "claimed" ELSE "over"]
<1>1. of[c] \in Sessions /\ at[c] # "idle" /\ entry[of[c]] = "used"
  BY DEF IInv, TypeOK, HandlersUseTheirs
<1>2. Served(of[c]) <=> at[c] \in HasPty \cup {"claimed"}
  BY <1>1 DEF IInv, TokenIsSingleUse, Served
<1>3. LifeOf(of[c]) = IF at[c] \in HasPty \cup {"claimed"} THEN "claimed" ELSE "over"
  BY <1>1, <1>2 DEF LifeOf
<1>4. LifeOf(of[c])' = IF p \in HasPty \cup {"claimed"} THEN "claimed" ELSE "over"
  <2>1. entry'[of[c]] = "used" /\ (Served(of[c])' <=> p \in HasPty \cup {"claimed"})
    BY <1>1, ServedMoves
  <2> QED BY <1>1, <2>1 DEF LifeOf
<1>5. ASSUME NEW t \in Sessions, t # of[c] PROVE LifeOf(t)' = LifeOf(t)
  BY <1>5, ServedMoves, SameLife
<1> QED BY <1>1, <1>3, <1>4, <1>5 DEF Lives

\* What a signal, an exit or a start does to one shell.
LEMMA ShellMoves ==
    ASSUME TypeOK, NEW s \in Sessions, NEW st \in Shells, shell' = [shell EXCEPT ![s] = st]
    PROVE  ShellLives' = [ShellLives EXCEPT ![s] = ShellOf(s)']
BY SameShell DEF TypeOK, ShellLives

\* A shell that is hung up or killed has been told to go; one that is gone
\* already does not notice.
LEMMA Signals ==
    ASSUME TypeOK, NEW s \in Sessions,
           \/ shell' = Signalled(s, "killed")
           \/ shell' = [shell EXCEPT ![s] = IF @ = "running" THEN "hungup" ELSE @]
    PROVE  ShellLives' = [ShellLives EXCEPT ![s] = Promise!Told(@)]
<1>1. /\ shell \in [Sessions -> Shells]
      /\ shell' = [shell EXCEPT ![s] = shell'[s]] /\ shell'[s] \in Shells
      /\ ShellLives[s] = ShellOf(s)
  BY DEF TypeOK, Signalled, Shells, ShellLives
<1>2. ShellOf(s)' = Promise!Told(ShellOf(s))
  BY <1>1 DEF ShellOf, Promise!Told, Signalled, Alive, Shells
<1>3. ShellLives' = [ShellLives EXCEPT ![s] = ShellOf(s)']
  BY <1>1, ShellMoves
<1> QED BY <1>1, <1>2, <1>3

\* The one start of a session's shell.
LEMMA StartLives ==
    ASSUME IInv, NEW c \in Handlers, PtyStarts(c)
    PROVE  Promise!Start(of[c])
<1>1. /\ at[c] = "claimed" /\ at' = [at EXCEPT ![c] = "started"]
      /\ shell' = [shell EXCEPT ![of[c]] = "running"]
      /\ UNCHANGED <<entry, ancient, dirs, of>>
  BY DEF PtyStarts, storeVars
<1>2. of[c] # NoSession /\ "started" \in Places \cap HasPty
  BY <1>1 DEF IInv, TypeOK, Places, HasPty
<1>3. /\ of[c] \in Sessions /\ LifeOf(of[c]) = "claimed"
      /\ Lives' = [Lives EXCEPT ![of[c]] = "claimed"]
  BY <1>1, <1>2, HandlerLives
<1>4. Lives' = Lives /\ Lives[of[c]] = "claimed"
  BY <1>3 DEF Lives
<1>5. shell[of[c]] = "none" /\ "running" \in Shells
  BY <1>1, <1>3 DEF IInv, StartsOnce, Shells
<1>6. ShellLives[of[c]] = "none"
  BY <1>3, <1>5 DEF ShellLives, ShellOf
<1>7. ShellOf(of[c])' = "running"
  BY <1>1, <1>3 DEF ShellOf, IInv, TypeOK
<1>8. ShellLives' = [ShellLives EXCEPT ![of[c]] = "running"]
  BY <1>1, <1>3, <1>5, <1>7, ShellMoves DEF IInv
<1> QED BY <1>1, <1>4, <1>6, <1>8 DEF Promise!Start

\* A handler that gives its PTY up, or fails to get one, ends the session.
LEMMA EndLives ==
    ASSUME IInv, NEW c \in Handlers, PtyStartFails(c) \/ Closes(c)
    PROVE  Promise!Finish(of[c])
<1>1. /\ at[c] \in HasPty \cup {"claimed"} /\ at' = [at EXCEPT ![c] = "closed"]
      /\ UNCHANGED <<entry, ancient, dirs, of>>
  BY DEF PtyStartFails, Closes, storeVars, HasPty
<1>2. /\ of[c] # NoSession /\ "closed" \in Places
      /\ "closed" \notin HasPty \cup {"claimed"}
  BY <1>1 DEF IInv, TypeOK, Places, HasPty
<1>3. /\ of[c] \in Sessions /\ LifeOf(of[c]) = "claimed"
      /\ Lives' = [Lives EXCEPT ![of[c]] = "over"]
  BY <1>1, <1>2, HandlerLives
<1>4. Lives[of[c]] = "claimed"
  BY <1>3 DEF Lives
<1>5. ShellLives' = [ShellLives EXCEPT ![of[c]] = Promise!Told(@)]
  <2>1. CASE PtyStartFails(c)
    <3>1. shell' = shell /\ shell[of[c]] = "none"
      BY <1>3, <2>1 DEF PtyStartFails, shellVars, IInv, StartsOnce
    <3>2. ShellLives[of[c]] = "none" /\ ShellLives' = ShellLives
      BY <1>3, <3>1, SameShellLives DEF ShellLives, ShellOf
    <3> QED BY <1>3, <3>2 DEF ShellLives, Promise!Told
  <2>2. CASE Closes(c)
    <3>1. shell' = [shell EXCEPT ![of[c]] = IF @ = "running" THEN "hungup" ELSE @]
      BY <2>2 DEF Closes
    <3> QED BY <1>3, <3>1, Signals DEF IInv
  <2> QED BY <2>1, <2>2
<1> QED BY <1>1, <1>3, <1>4, <1>5 DEF Promise!Finish

\* The ends of the loop and of its grace period tell the shell to go.
LEMMA TellLives ==
    ASSUME IInv, NEW c \in Handlers, AcceptFails(c) \/ LoopEnds(c) \/ GraceOver(c)
    PROVE  Promise!TellToGo(of[c])
<1> DEFINE p == at'[c]
<1>1. /\ at[c] \in HasPty /\ p \in HasPty /\ at' = [at EXCEPT ![c] = p]
      /\ UNCHANGED <<entry, ancient, dirs, of>>
  BY DEF AcceptFails, LoopEnds, GraceOver, storeVars, HasPty, IInv, TypeOK
<1>2. of[c] # NoSession /\ p \in Places
  BY <1>1 DEF IInv, TypeOK, Places, HasPty
<1> HIDE DEF p
<1>3. /\ of[c] \in Sessions /\ LifeOf(of[c]) = "claimed"
      /\ Lives' = [Lives EXCEPT ![of[c]] = "claimed"]
  BY <1>1, <1>2, HandlerLives
<1>4. Lives' = Lives
  BY <1>3 DEF Lives
<1>5. \/ shell' = Signalled(of[c], "killed")
      \/ shell' = [shell EXCEPT ![of[c]] = IF @ = "running" THEN "hungup" ELSE @]
  BY DEF AcceptFails, LoopEnds, GraceOver
<1>6. ShellLives' = [ShellLives EXCEPT ![of[c]] = Promise!Told(@)]
  BY <1>3, <1>5, Signals DEF IInv
<1> QED BY <1>1, <1>4, <1>6 DEF Promise!TellToGo

\* The deferred Cleanup comes when the session is over.
LEMMA CleanupLives ==
    ASSUME IInv, NEW c \in Handlers, RemovesDir(c)
    PROVE  Promise!Remove(of[c])
<1>1. /\ at[c] = "closed" /\ at' = [at EXCEPT ![c] = "cleaned"]
      /\ dirs' = dirs \ {of[c]}
      /\ UNCHANGED <<entry, ancient, shell, of>>
  BY DEF RemovesDir, storeVars, shellVars
<1>2. /\ of[c] # NoSession /\ "cleaned" \in Places
      /\ {"closed", "cleaned"} \cap (HasPty \cup {"claimed"}) = {}
  BY <1>1 DEF IInv, TypeOK, Places, HasPty
<1>3. /\ of[c] \in Sessions /\ LifeOf(of[c]) = "over"
      /\ Lives' = [Lives EXCEPT ![of[c]] = "over"]
  BY <1>1, <1>2, HandlerLives
<1>4. Lives' = Lives /\ Lives[of[c]] = "over"
  BY <1>3 DEF Lives
<1> QED BY <1>1, <1>4, SameShellLives DEF Promise!Remove

\* The steps of a handler that nobody sees.
LEMMA QuietHandlerLives ==
    ASSUME IInv, NEW c \in Handlers,
           Accepts(c) \/ WaitDone(c) \/ Forgets(c) \/ Input(c) \/ InputDone(c)
             \/ TabCloses(c) \/ BridgeReadFails(c) \/ BridgeWriteFails(c)
    PROVE  UNCHANGED Promise!vars
<1>1. UNCHANGED <<ancient, dirs, shell>>
  BY DEF Accepts, WaitDone, Forgets, Input, InputDone, TabCloses, BridgeReadFails,
         BridgeWriteFails, storeVars, shellVars
<1>2. ASSUME Accepts(c) \/ WaitDone(c) \/ Input(c) \/ InputDone(c) PROVE Lives' = Lives
  <2> DEFINE p == at'[c]
  <2>1. /\ at[c] \in HasPty /\ p \in HasPty /\ at' = [at EXCEPT ![c] = p]
        /\ UNCHANGED <<entry, of>>
    BY <1>2 DEF Accepts, WaitDone, Input, InputDone, storeVars, HasPty, IInv, TypeOK
  <2>2. of[c] # NoSession /\ p \in Places
    BY <2>1 DEF IInv, TypeOK, Places, HasPty
  <2> HIDE DEF p
  <2>3. /\ of[c] \in Sessions /\ LifeOf(of[c]) = "claimed"
        /\ Lives' = [Lives EXCEPT ![of[c]] = "claimed"]
    BY <2>1, <2>2, HandlerLives
  <2> QED BY <2>3 DEF Lives
<1>3. ASSUME Forgets(c) PROVE Lives' = Lives
  <2>1. PICK s \in Sessions : s = of[c]
    BY <1>3 DEF Forgets, IInv, TypeOK
  <2>2. /\ at[c] = "cleaned" /\ entry' = [entry EXCEPT ![s] = "removed"]
        /\ at' = [at EXCEPT ![c] = "idle"] /\ of' = [of EXCEPT ![c] = NoSession]
    BY <1>3, <2>1 DEF Forgets
  <2>3. entry[s] = "used" /\ ~Served(s) /\ entry'[s] = "removed"
    BY <2>1, <2>2, SessionsAssumption
       DEF IInv, TypeOK, HandlersUseTheirs, TokenIsSingleUse, Served, HasPty
  <2>4. LifeOf(s) = "over" /\ LifeOf(s)' = "over"
    BY <2>3 DEF LifeOf
  <2>5. ASSUME NEW t \in Sessions, t # s PROVE LifeOf(t)' = LifeOf(t)
    <3>1. entry'[t] = entry[t]
      BY <2>2, <2>5
    <3>2. Served(t)' <=> Served(t)
      BY <2>1, <2>2, <2>5, SessionsAssumption DEF Served, IInv, TypeOK, HasPty
    <3> QED BY <3>1, <3>2, SameLife
  <2> QED BY <2>4, <2>5, SameLives
<1>4. ASSUME TabCloses(c) \/ BridgeReadFails(c) \/ BridgeWriteFails(c)
      PROVE  Lives' = Lives
  <2>1. UNCHANGED <<entry, at, of>>
    BY <1>4 DEF TabCloses, BridgeReadFails, BridgeWriteFails, storeVars
  <2> QED BY <2>1, SameLife, SameLives DEF Served
<1>5. Lives' = Lives
  BY <1>2, <1>3, <1>4
<1> QED BY <1>1, <1>5, SameShellLives DEF Promise!vars

\* The process ends: whatever a session was, it is over.
LEMMA DeathLives ==
    ASSUME IInv, Exit \/ Crash
    PROVE  Promise!Die
<1>1. /\ entry' = [s \in Sessions |->
                     IF entry[s] \in {"none", "removed"} THEN entry[s] ELSE "lost"]
      /\ shell' = [s \in Sessions |->
                     IF shell[s] = "running" THEN "hungup" ELSE shell[s]]
      /\ UNCHANGED <<ancient, dirs>>
  BY DEF Exit, Crash, Dies
<1>2. ASSUME NEW s \in Sessions
      PROVE  LifeOf(s)' = IF LifeOf(s) = "none" THEN "none" ELSE "over"
  <2>1. entry[s] \in Entries /\ (entry[s] = "none" <=> LifeOf(s) = "none")
    BY DEF IInv, TypeOK, LifeOf
  <2>2. entry'[s] = IF entry[s] \in {"none", "removed"} THEN entry[s] ELSE "lost"
    BY <1>1
  <2> QED BY <2>1, <2>2 DEF LifeOf
<1>3. Lives' = [s \in Sessions |-> IF Lives[s] = "none" THEN "none" ELSE "over"]
  BY <1>2 DEF Lives
<1>4. ASSUME NEW s \in Sessions PROVE ShellOf(s)' = Promise!Told(ShellOf(s))
  <2>1. shell'[s] = IF shell[s] = "running" THEN "hungup" ELSE shell[s]
    BY <1>1
  <2> QED BY <2>1 DEF ShellOf, Promise!Told
<1>5. ShellLives' = [s \in Sessions |-> Promise!Told(ShellLives[s])]
  BY <1>4 DEF ShellLives
<1> QED BY <1>1, <1>3, <1>5 DEF Promise!Die

\* A shell exits on its own account or obeys; that it is waited for is not seen.
LEMMA ShellExitLives ==
    ASSUME IInv, NEW s \in Sessions, ShellExits(s) \/ Reaped(s)
    PROVE  Promise!Exit(s) \/ UNCHANGED Promise!vars
<1>1. /\ shell \in [Sessions -> Shells] /\ shell' = [shell EXCEPT ![s] = shell'[s]]
      /\ UNCHANGED <<entry, ancient, dirs, at, of>>
  BY DEF ShellExits, Reaped, IInv, TypeOK, storeVars, handlerVars
<1>2. Lives' = Lives
  BY <1>1, SameLife, SameLives DEF Served
<1>3. CASE ShellExits(s)
  <2>1. /\ shell[s] \in Alive /\ shell'[s] = "exited" /\ "exited" \in Shells
    BY <1>1, <1>3 DEF ShellExits, Shells
  <2>2. ShellLives[s] \in {"running", "leaving"} /\ ShellOf(s)' = "gone"
    BY <2>1 DEF ShellLives, ShellOf, Alive
  <2>3. ShellLives' = [ShellLives EXCEPT ![s] = "gone"]
    BY <1>1, <2>1, <2>2, ShellMoves DEF IInv
  <2> QED BY <1>1, <1>2, <2>2, <2>3 DEF Promise!Exit
<1>4. CASE Reaped(s)
  <2>1. /\ shell[s] = "exited" /\ shell'[s] = "reaped" /\ "reaped" \in Shells
    BY <1>1, <1>4 DEF Reaped, Shells
  <2>2. ShellLives[s] = "gone" /\ ShellOf(s)' = "gone"
    BY <2>1 DEF ShellLives, ShellOf
  <2>3. ShellLives' = [ShellLives EXCEPT ![s] = "gone"]
    BY <1>1, <2>1, <2>2, ShellMoves DEF IInv
  <2>4. ShellLives' = ShellLives
    BY <2>2, <2>3 DEF ShellLives
  <2> QED BY <1>1, <1>2, <2>4 DEF Promise!vars
<1> QED BY <1>3, <1>4

\* What concerns neither store, handlers nor shells is no life's step, but for
\* the age of a dir and the sweep.
LEMMA OutsideLives ==
    ASSUME IInv, UNCHANGED <<entry, shell, at, of>>
    PROVE  Lives' = Lives /\ ShellLives' = ShellLives
BY SameLife, SameLives, SameShellLives DEF Served

\* The server starts as the promise does.
LEMMA InitLives == Init => Promise!Init
<1> SUFFICES ASSUME Init PROVE Promise!Init
  OBVIOUS
<1>1. \A s \in Sessions : LifeOf(s) = "none" /\ ShellOf(s) = "none"
  BY DEF Init, LifeOf, ShellOf
<1> QED BY <1>1 DEF Init, Promise!Init, Lives, ShellLives

\* Every step of the server is one of the promise, or not seen.
LEMMA StepLives == IInv /\ [Next]_vars => [Promise!Next]_(Promise!vars)
<1> SUFFICES ASSUME IInv, [Next]_vars PROVE Promise!Next \/ UNCHANGED Promise!vars
  OBVIOUS
<1>1. ASSUME UNCHANGED vars PROVE UNCHANGED Promise!vars
  BY <1>1, OutsideLives DEF vars, storeVars, shellVars, handlerVars, Promise!vars
<1>2. ASSUME NEW s \in Sessions,
             Post(s) \/ Expires(s) \/ DirAges(s) \/ ShellExits(s) \/ Reaped(s)
      PROVE  Promise!Next \/ UNCHANGED Promise!vars
  <2>1. CASE Expires(s)
    BY <2>1, OutsideLives DEF Expires, shellVars, handlerVars, Promise!vars
  <2>2. ASSUME DirAges(s) PROVE Promise!Age(s)
    BY <2>2, OutsideLives DEF DirAges, shellVars, handlerVars, Promise!Age
  <2> QED BY <1>2, <2>1, <2>2, PostLives, ShellExitLives DEF Promise!Next
<1>3. ASSUME Evict PROVE Promise!Next
  BY <1>3, EvictLives
<1>4. ASSUME NEW c \in Handlers, NEW s \in Sessions, Consume(c, s) PROVE Promise!Next
  BY <1>4, ConsumeClaims DEF Promise!Next
<1>5. ASSUME NEW c \in Handlers,
             \/ Handle(c) \/ Input(c) \/ InputDone(c) \/ TabCloses(c)
             \/ BridgeReadFails(c) \/ BridgeWriteFails(c)
      PROVE  Promise!Next \/ UNCHANGED Promise!vars
  <2>1. at[c] # "idle" => of[c] \in Sessions
    BY DEF IInv, TypeOK
  <2>2. ASSUME PtyStarts(c) PROVE Promise!Next
    BY <2>1, <2>2, StartLives DEF PtyStarts, Promise!Next
  <2>3. ASSUME PtyStartFails(c) \/ Closes(c) PROVE Promise!Next
    BY <2>1, <2>3, EndLives DEF PtyStartFails, Closes, Promise!Next
  <2>4. ASSUME AcceptFails(c) \/ LoopEnds(c) \/ GraceOver(c) PROVE Promise!Next
    BY <2>1, <2>4, TellLives DEF AcceptFails, LoopEnds, GraceOver, Promise!Next
  <2>5. ASSUME RemovesDir(c) PROVE Promise!Next
    BY <2>1, <2>5, CleanupLives DEF RemovesDir, Promise!Next
  <2> QED BY <1>5, <2>2, <2>3, <2>4, <2>5, QuietHandlerLives DEF Handle
<1>6. ASSUME Stop PROVE UNCHANGED Promise!vars
  BY <1>6, OutsideLives DEF Stop, storeVars, shellVars, handlerVars, Promise!vars
<1>7. ASSUME Restart \/ OtherStarts PROVE Promise!Sweep
  BY <1>7, OutsideLives DEF Restart, OtherStarts, Sweep, storeVars, shellVars, handlerVars,
     Promise!Sweep
<1>8. ASSUME Exit \/ Crash PROVE Promise!Die
  BY <1>8, DeathLives
<1> QED
  BY <1>1, <1>2, <1>3, <1>4, <1>5, <1>6, <1>7, <1>8 DEF Next, Promise!Next

-----------------------------------------------------------------------------
(* Theorems                                                                *)

\* The inductive invariant holds in every reachable state.
THEOREM Invariance == Spec => []IInv
<1>1. Init => IInv
  BY InitEstablishes
<1>2. IInv /\ [Next]_vars => IInv'
  <2> SUFFICES ASSUME IInv, [Next]_vars PROVE IInv'
    OBVIOUS
  <2>1. TypeOK'
    BY TypePreserved
  <2> QED
    BY <2>1, OwnershipPreserved, ShellsPreserved, CleanupPreserved, NoLeakPreserved,
       StartsPreserved DEF IInv
<1> QED
  BY <1>1, <1>2, PTL DEF Spec

\* Every variable keeps its type, and a handler past pty.Start has a process.
THEOREM TypeCorrect == Spec => []TypeOK
<1>1. IInv => TypeOK
  BY DEF IInv
<1> QED
  BY <1>1, Invariance, PTL

\* However many tabs use however many tokens, no two handlers run one session.
THEOREM TokensAreSingleUse == Spec => []TokenIsSingleUse
<1>1. IInv => TokenIsSingleUse
  BY DEF IInv
<1> QED
  BY <1>1, Invariance, PTL

\* A temp dir always has somebody to remove it, unless its process has died.
THEOREM NoDirLeaks == Spec => []NoLeakedDir
<1>1. IInv => NoLeakedDir
  BY DEF IInv
<1> QED
  BY <1>1, Invariance, PTL

\* A running shell's dir is there, or the sweep took it: a running shell has a
\* handler that holds its PTY, and such a handler's dir awaits its Cleanup.
THEOREM ShellsHaveDirs == Spec => []ShellHasItsDir
<1>1. IInv => ShellHasItsDir
  <2>1. HasPty \subseteq WillClean
    BY DEF HasPty, WillClean, Places
  <2> QED
    BY <2>1 DEF IInv, ShellsHaveHandlers, DirsAwaitCleanup, ShellHasItsDir
<1> QED
  BY <1>1, Invariance, PTL

\* Whatever handlers, tabs, timers, signals, crashes and sweeps do, a session
\* lives as SessionLife says: claimed at most once, one shell at most, its dir
\* there until it is over.
THEOREM TerminalsLiveOnce == Spec => ImplementsSessionLife
<1>1. Init => Promise!Init
  BY InitLives
<1>2. IInv /\ [Next]_vars => [Promise!Next]_(Promise!vars)
  BY StepLives
<1> QED
  BY <1>1, <1>2, Invariance, PTL DEF Spec, ImplementsSessionLife, Promise!Spec

=============================================================================
