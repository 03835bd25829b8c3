-------------------------- MODULE ConfigFileProofs --------------------------
(***************************************************************************)
(* What the lock of the configuration file is good for, with any number of *)
(* writers: as long as it has not split, whoever renames has read the file *)
(* as it still is.                                                         *)
(***************************************************************************)
EXTENDS ConfigFile, TLAPS

\* Nobody shares a lock file with somebody in the section.
Exclusive == \A v, w \in InSection : v # w => lk[v] # lk[w]

\* Until it splits there is one lock file at a time, the one the name leads to
\* if it leads anywhere.
OneLock == ~split => /\ \A v, w \in HaveLockOpen : lk[v] = lk[w]
                     /\ lockFile # NoFile => \A w \in HaveLockOpen : lk[w] = lockFile

\* What is about to be renamed names all that the file does.
Fresh == ~split /\ ~clobbered /\ file # NoFile =>
           \A w \in Writers : at[w] \in {"rendered", "made"} => file \subseteq text[w]

IInv == TypeOK /\ TempsAreOwned /\ Exclusive /\ OneLock /\ Fresh

\* There is no file, no lock and no writer.
LEMMA InitEstablishes == Init => IInv
<1> SUFFICES ASSUME Init PROVE IInv
  OBVIOUS
<1>1. \A w \in Writers : at[w] = "idle" /\ text[w] = {}
  BY DEF Init
<1>2. HaveLockOpen = {} /\ InSection = {}
  BY <1>1 DEF HaveLockOpen, InSection
<1>3. TypeOK
  BY <1>2 DEF Init, TypeOK, Places
<1>4. TempsAreOwned /\ Exclusive /\ OneLock /\ Fresh
  BY <1>1, <1>2 DEF Init, TempsAreOwned, Exclusive, OneLock, Fresh
<1> QED
  BY <1>3, <1>4 DEF IInv

\* Variables keep their types, a temp file its owner.
LEMMA TypePreserved == IInv /\ [Next]_vars => TypeOK' /\ TempsAreOwned'
<1> SUFFICES ASSUME IInv, [Next]_vars PROVE TypeOK' /\ TempsAreOwned'
  OBVIOUS
<1> USE ConfigAssumption DEF IInv, TypeOK, TempsAreOwned, Places, InSection, HaveLockOpen, Goes,
        lockVars, callVars
<1>1. ASSUME NEW w \in Writers, NEW c \in SUBSET Names, Open(w, c)
      PROVE  TypeOK' /\ TempsAreOwned'
  <2>1. HaveLockOpen' = HaveLockOpen \cup {w} /\ w \notin HaveLockOpen
    BY <1>1 DEF Open
  <2>2. lk' \in [Writers -> Inodes \cup {NoFile}] /\ lockFile' \in Inodes \cup {NoFile}
        /\ split' \in BOOLEAN
    BY <1>1 DEF Open
  <2>3. lk'[w] # NoFile /\ \A v \in HaveLockOpen : lk'[v] = lk[v]
    BY <1>1, <2>1 DEF Open
  <2>4. \A v \in HaveLockOpen' : lk'[v] # NoFile
    BY <2>1, <2>3
  <2> HIDE DEF HaveLockOpen, InSection
  <2>5. at' \in [Writers -> Places] /\ text' \in [Writers -> SUBSET Names]
        /\ \A v \in temps : at'[v] = "made"
    BY <1>1 DEF Open
  <2> QED
    BY <1>1, <2>2, <2>4, <2>5 DEF Open
<1>2. ASSUME NEW w \in Writers, Acquire(w) \/ MakeTemp(w) PROVE TypeOK' /\ TempsAreOwned'
  BY <1>2 DEF Acquire, MakeTemp
<1>3. ASSUME NEW w \in Writers, Render(w) \/ Rename(w) \/ Fails(w)
      PROVE  TypeOK' /\ TempsAreOwned'
  <2>1. CASE Render(w)
    <3>1. Patched(file, text[w]) \in SUBSET Names
      BY DEF Patched
    <3> HIDE DEF Patched
    <3> QED
      BY <2>1, <3>1 DEF Render
  <2>2. CASE Rename(w)
    BY <2>2 DEF Rename
  <2>3. CASE Fails(w)
    BY <2>3 DEF Fails
  <2> QED
    BY <1>3, <2>1, <2>2, <2>3
<1>4. ASSUME NEW w \in Writers, Unlock(w) \/ RemoveLock(w) \/ Crash(w)
      PROVE  TypeOK' /\ TempsAreOwned'
  BY <1>4 DEF Unlock, RemoveLock, Crash
<1>5. CASE FindsNoFile \/ WritesTemplate
  BY <1>5 DEF FindsNoFile, WritesTemplate
<1>6. CASE UNCHANGED vars
  BY <1>6 DEF vars
<1> QED
  BY <1>1, <1>2, <1>3, <1>4, <1>5, <1>6 DEF Next, Save, Step

\* A lock file is locked once; it is opened under the name it has, and a new
\* one is made while none is open or is the split.
LEMMA LockPreserved == IInv /\ [Next]_vars => Exclusive' /\ OneLock'
<1> SUFFICES ASSUME IInv, [Next]_vars PROVE Exclusive' /\ OneLock'
  OBVIOUS
<1> USE ConfigAssumption DEF IInv, TypeOK, Exclusive, OneLock, Places, InSection, HaveLockOpen,
        Goes, lockVars, callVars
<1>1. ASSUME NEW w \in Writers, NEW c \in SUBSET Names, Open(w, c)
      PROVE  Exclusive' /\ OneLock'
  <2>1. InSection' = InSection /\ HaveLockOpen' = HaveLockOpen \cup {w} /\ w \notin HaveLockOpen
    BY <1>1 DEF Open
  <2>2. \A v \in HaveLockOpen : lk'[v] = lk[v]
    BY <1>1, <2>1 DEF Open
  <2> HIDE DEF HaveLockOpen, InSection
  <2>3. Exclusive'
    BY <2>1, <2>2 DEF HaveLockOpen
  <2>4. ASSUME lockFile # NoFile PROVE OneLock'
    BY <1>1, <2>1, <2>2, <2>4 DEF Open
  <2>5. ASSUME lockFile = NoFile PROVE OneLock'
    BY <1>1, <2>1, <2>2, <2>5 DEF Open
  <2>6. OneLock'
    BY <2>4, <2>5
  <2> QED
    BY <2>3, <2>6
<1>2. ASSUME NEW w \in Writers, Acquire(w) PROVE Exclusive' /\ OneLock'
  BY <1>2 DEF Acquire
<1>3. ASSUME NEW w \in Writers, MakeTemp(w) \/ Render(w) \/ Rename(w) \/ Fails(w)
      PROVE  Exclusive' /\ OneLock'
  BY <1>3 DEF MakeTemp, Render, Rename, Fails
<1>4. ASSUME NEW w \in Writers, Unlock(w) \/ RemoveLock(w) \/ Crash(w)
      PROVE  Exclusive' /\ OneLock'
  BY <1>4 DEF Unlock, RemoveLock, Crash
<1>5. CASE FindsNoFile \/ WritesTemplate
  BY <1>5 DEF FindsNoFile, WritesTemplate
<1>6. CASE UNCHANGED vars
  BY <1>6 DEF vars
<1> QED
  BY <1>1, <1>2, <1>3, <1>4, <1>5, <1>6 DEF Next, Save, Step

\* While there is one lock, only one writer is in the section.
LEMMA AloneInSection ==
  ASSUME IInv, ~split, NEW v \in InSection, NEW w \in InSection
  PROVE  v = w
BY DEF IInv, Exclusive, OneLock, HaveLockOpen

\* So nobody renames under a writer that has read.
LEMMA FreshPreserved == IInv /\ [Next]_vars => Fresh'
<1> SUFFICES ASSUME IInv, [Next]_vars PROVE Fresh'
  OBVIOUS
<1> USE DEF IInv, TypeOK, Fresh, Places, Goes, lockVars, callVars
<1>1. ASSUME NEW w \in Writers, NEW c \in SUBSET Names, Open(w, c) PROVE Fresh'
  BY <1>1 DEF Open
<1>2. ASSUME NEW w \in Writers, Acquire(w) \/ MakeTemp(w) PROVE Fresh'
  BY <1>2 DEF Acquire, MakeTemp
<1>3. ASSUME NEW w \in Writers, Render(w) PROVE Fresh'
  BY <1>3 DEF Render, Patched
<1>4. ASSUME NEW w \in Writers, Rename(w) PROVE Fresh'
  <2> SUFFICES ASSUME ~split, NEW v \in Writers, at'[v] \in {"rendered", "made"}
               PROVE  FALSE
    BY <1>4 DEF Rename
  <2>1. v # w /\ at[v] \in {"rendered", "made"} /\ at[w] = "made"
    BY <1>4 DEF Rename
  <2>2. v \in InSection /\ w \in InSection
    BY <2>1 DEF InSection
  <2> QED
    BY <2>1, <2>2, AloneInSection
<1>5. ASSUME NEW w \in Writers, Fails(w) \/ Unlock(w) \/ RemoveLock(w) \/ Crash(w)
      PROVE  Fresh'
  BY <1>5 DEF Fails, Unlock, RemoveLock, Crash
<1>6. CASE FindsNoFile
  BY <1>6 DEF FindsNoFile
<1>7. CASE WritesTemplate
  BY <1>7 DEF WritesTemplate
<1>8. CASE UNCHANGED vars
  BY <1>8 DEF vars
<1> QED
  BY <1>1, <1>2, <1>3, <1>4, <1>5, <1>6, <1>7, <1>8 DEF Next, Save, Step

\* The invariant of the writers.
THEOREM Invariance == Spec => []IInv
<1>1. IInv /\ [Next]_vars => IInv'
  BY TypePreserved, LockPreserved, FreshPreserved DEF IInv
<1> QED
  BY <1>1, InitEstablishes, PTL DEF Spec

\* Variables keep their types, and whoever has the lock open has its inode.
THEOREM TypeCorrect == Spec => []TypeOK
<1>1. IInv => TypeOK
  BY DEF IInv
<1> QED
  BY <1>1, Invariance, PTL

\* Calls that end leave no temp file.
THEOREM NoTempLeft == Spec => []TempsAreOwned
<1>1. IInv => TempsAreOwned
  BY DEF IInv
<1> QED
  BY <1>1, Invariance, PTL

\* No step takes a name from the file, unless the lock has split or the template
\* has been put over it.
THEOREM KeepsNames == Spec => NamesKept
<1> DEFINE Kept == file # NoFile => file \subseteq file' \/ split \/ clobbered'
<1>1. IInv /\ [Next]_vars => [Kept]_vars
  <2> SUFFICES ASSUME IInv, Next, file' # file, file # NoFile, ~split, ~clobbered'
               PROVE  file \subseteq file'
    BY DEF vars
  <2>1. CASE WritesTemplate
    BY <2>1 DEF WritesTemplate
  <2>2. ASSUME NEW w \in Writers, Rename(w) PROVE file \subseteq file'
    BY <2>2 DEF IInv, Fresh, Rename, Goes
  <2>3. ASSUME NEW w \in Writers,
               \/ \E c \in SUBSET Names : Open(w, c)
               \/ Acquire(w) \/ Render(w) \/ MakeTemp(w) \/ Fails(w)
               \/ Unlock(w) \/ RemoveLock(w) \/ Crash(w)
        PROVE  FALSE
    BY <2>3 DEF Open, Acquire, Render, MakeTemp, Fails, Unlock, RemoveLock, Crash
  <2>4. CASE FindsNoFile
    BY <2>4 DEF FindsNoFile
  <2> QED
    BY <2>1, <2>2, <2>3, <2>4 DEF Next, Save, Step
<1> QED
  BY <1>1, Invariance, PTL DEF Spec, NamesKept

=============================================================================
