----------------------------- MODULE TuiProofs ------------------------------
(***************************************************************************)
(* The terminal UI never waits for nothing, and its cursor never strays,   *)
(* for any clusters, management clusters and number of commands in flight. *)
(* The cursor's part rests on two facts about the rows of a list: no two   *)
(* clusters share one, and no row is empty.                                *)
(***************************************************************************)
EXTENDS Tui, FiniteSetTheorems, TLAPS

\* What the loop knows of its commands: spawns neither appear nor vanish.
CommandsInv ==
    /\ screen \in Screens
    /\ client \in Mgmts
    /\ loads \in [Mgmts -> 0..MaxLoads]
    /\ switching \in SUBSET Mgmts
    /\ plans \in [Stages -> 0..MaxPlans]
    /\ plans["free"] + plans["fetching"] + plans["ready"] + plans["running"]
         + plans["exited"] = MaxPlans
    /\ quit \in {"no", "asked", "yes"}
    /\ WaitsForSomething

\* Whatever lists, filters and keys do to the list, the cursor is on a row of
\* it, and on the row of the cluster it follows (model.go:91-112, 273-277).
CursorOnSticky ==
    Filtered # {} => /\ cursor < Cardinality(Filtered)
                     /\ Member(Filtered, cursor) = sticky

\* The list, and the cursor on it.
CursorInv ==
    /\ list \in SUBSET Keys
    /\ match \in SUBSET Keys
    /\ cursor \in Nat
    /\ CursorOnSticky

-----------------------------------------------------------------------------
(* Rows                                                                    *)

\* A list shows finitely many clusters.
LEMMA ListIsFinite ==
  ASSUME NEW S \in SUBSET Keys
  PROVE  IsFiniteSet(S) /\ Cardinality(S) \in Nat /\ (S # {} => Cardinality(S) > 0)
<1>1. IsFiniteSet(S)
  BY TuiAssumption, FS_Subset
<1>2. Cardinality(S) \in Nat
  BY <1>1, FS_CardinalityType
<1>3. Cardinality(S) = 0 <=> S = {}
  BY <1>1, FS_EmptySet
<1> QED
  BY <1>1, <1>2, <1>3

\* Fewer clusters stand above one of them than there are.
LEMMA PlaceInRange ==
  ASSUME NEW S \in SUBSET Keys, NEW k \in S
  PROVE  Place(S, k) \in 0..(Cardinality(S) - 1)
<1> DEFINE B == {j \in S : j < k}
<1>1. IsFiniteSet(S)
  BY TuiAssumption, FS_Subset
<1>2. IsFiniteSet(B) /\ Cardinality(B) \in Nat /\ Cardinality(B) <= Cardinality(S)
  BY <1>1, FS_Subset, FS_CardinalityType
<1>3. B # S
  BY TuiAssumption
<1>4. Cardinality(B) # Cardinality(S)
  BY <1>1, <1>3, FS_Subset
<1>5. Cardinality(S) \in Nat
  BY <1>1, FS_CardinalityType
<1> QED
  BY <1>2, <1>4, <1>5 DEF Place

\* No two clusters have the same place.
LEMMA PlaceIsUnique ==
  ASSUME NEW S \in SUBSET Keys, NEW k \in S, NEW j \in S, j < k
  PROVE  Place(S, j) < Place(S, k)
<1> DEFINE A == {i \in S : i < j}
           B == {i \in S : i < k}
<1>1. IsFiniteSet(B)
  BY TuiAssumption, FS_Subset
<1>2. A \subseteq B /\ A # B
  <2>1. j \in B /\ j \notin A
    BY TuiAssumption
  <2>2. \A i \in S : i < j => i < k
    BY TuiAssumption
  <2> QED
    BY <2>1, <2>2
<1>3. Cardinality(A) <= Cardinality(B) /\ Cardinality(A) # Cardinality(B)
  BY <1>1, <1>2, FS_Subset
<1>4. Cardinality(A) \in Nat /\ Cardinality(B) \in Nat
  BY <1>1, <1>2, FS_Subset, FS_CardinalityType
<1> QED
  BY <1>3, <1>4 DEF Place

\* Every row has a cluster: the places are as many as the clusters.
LEMMA RowHasMember ==
  ASSUME NEW S \in SUBSET Keys, NEW i \in Nat, i < Cardinality(S)
  PROVE  Member(S, i) \in S /\ Place(S, Member(S, i)) = i
<1> DEFINE f == [k \in S |-> Place(S, k)]
           T == 0..(Cardinality(S) - 1)
<1>1. IsFiniteSet(S) /\ Cardinality(S) \in Nat
  BY TuiAssumption, FS_Subset, FS_CardinalityType
<1>2. IsFiniteSet(T) /\ Cardinality(T) = Cardinality(S)
  <2>1. 0 \in Int /\ Cardinality(S) - 1 \in Int
    BY <1>1
  <2>2. IsFiniteSet(T) /\ Cardinality(T) = IF 0 > Cardinality(S) - 1 THEN 0
                                           ELSE Cardinality(S) - 1 - 0 + 1
    BY <2>1, FS_Interval
  <2> QED
    BY <1>1, <2>2
<1>3. f \in [S -> T]
  BY PlaceInRange
<1>4. \A j, k \in S : f[j] = f[k] => j = k
  <2> SUFFICES ASSUME NEW j \in S, NEW k \in S, j # k PROVE f[j] # f[k]
    OBVIOUS
  <2>1. j < k \/ k < j
    BY TuiAssumption
  <2>2. Place(S, j) \in Nat /\ Place(S, k) \in Nat
    BY <1>1, PlaceInRange
  <2> QED
    BY <2>1, <2>2, PlaceIsUnique
<1>5. f \in Injection(S, T)
  BY <1>3, <1>4 DEF Injection, IsInjective
<1>6. f \in Surjection(S, T)
  BY <1>2, <1>5, FS_Injection
<1>7. \E k \in S : Place(S, k) = i
  <2>1. i \in T
    BY <1>1
  <2>2. \E k \in S : f[k] = i
    BY <1>6, <2>1 DEF Surjection
  <2> QED
    BY <2>2
<1> QED
  BY <1>7 DEF Member

\* The cluster at a cluster's place is that cluster.
LEMMA MemberOfPlace ==
  ASSUME NEW S \in SUBSET Keys, NEW k \in S
  PROVE  Member(S, Place(S, k)) = k
<1>1. Cardinality(S) \in Nat
  BY TuiAssumption, FS_Subset, FS_CardinalityType
<1>2. Place(S, k) \in Nat /\ Place(S, k) < Cardinality(S)
  BY <1>1, PlaceInRange
<1> DEFINE j == Member(S, Place(S, k))
<1>3. j \in S /\ Place(S, j) = Place(S, k)
  BY <1>2, RowHasMember
<1>4. Place(S, j) \in Nat /\ ~(Place(S, j) < Place(S, k)) /\ ~(Place(S, k) < Place(S, j))
  BY <1>2, <1>3
<1>5. ~(j < k) /\ ~(k < j)
  BY <1>3, <1>4, PlaceIsUnique
<1>6. j \in Nat /\ k \in Nat
  BY <1>3, TuiAssumption
<1> HIDE DEF j
<1>7. j = k
  BY <1>5, <1>6
<1> QED
  BY <1>7 DEF j

-----------------------------------------------------------------------------
(* The cursor                                                              *)

\* The cursor is where it should be in the list that shows S.
Placed(S) ==
    /\ cursor \in Nat
    /\ S # {} => cursor < Cardinality(S) /\ Member(S, cursor) = sticky

\* Whatever the list now shows, recomputeFiltered puts the cursor in its place.
LEMMA RecomputePlaces ==
  ASSUME NEW S \in SUBSET Keys, cursor \in Nat, Recompute(S)
  PROVE  Placed(S)'
<1>1. Cardinality(S) \in Nat /\ (S # {} => Cardinality(S) > 0)
  BY ListIsFinite
<1>2. CASE sticky \in S
  <2>1. cursor' = Place(S, sticky) /\ sticky' = sticky
    BY <1>2 DEF Recompute, Follow
  <2>2. cursor' \in Nat /\ cursor' < Cardinality(S)
    BY <1>1, <1>2, <2>1, PlaceInRange
  <2>3. Member(S, cursor') = sticky'
    BY <1>2, <2>1, MemberOfPlace
  <2> QED
    BY <2>2, <2>3 DEF Placed
<1>3. CASE sticky \notin S
  <2>1. cursor' \in Nat /\ (S # {} => cursor' < Cardinality(S))
    BY <1>1, <1>3 DEF Recompute, Follow
  <2>2. S # {} => Member(S, cursor') = sticky'
    BY <1>3 DEF Recompute, Follow
  <2> QED
    BY <2>1, <2>2 DEF Placed
<1> QED
  BY <1>2, <1>3

\* A key that moves the cursor to a row moves what it follows.
LEMMA MovePlaces ==
  ASSUME CursorInv, NEW i \in Nat, Filtered # {} => i < Cardinality(Filtered), MoveTo(i)
  PROVE  cursor' \in Nat /\ (Filtered # {} => cursor' < Cardinality(Filtered)
                                             /\ Member(Filtered, cursor') = sticky')
BY DEF MoveTo

\* The keys that move the cursor, one by one.
LEMMA MovesPreserve == CursorInv /\ Moves => CursorInv'
<1> SUFFICES ASSUME CursorInv, Moves PROVE CursorInv'
  OBVIOUS
<1>1. Filtered \in SUBSET Keys /\ UNCHANGED <<list, match>> /\ Filtered' = Filtered
  BY DEF CursorInv, Filtered, Moves, listVars, filterVars
<1>2. Cardinality(Filtered) \in Nat /\ (Filtered # {} => Cardinality(Filtered) > 0)
  BY <1>1, ListIsFinite
<1>3. cursor \in Nat /\ (Filtered # {} => cursor < Cardinality(Filtered))
  BY DEF CursorInv, CursorOnSticky
<1>4. \E i \in Nat : (Filtered # {} => i < Cardinality(Filtered)) /\ MoveTo(i)
  <2>1. CASE cursor < Cardinality(Filtered) - 1 /\ MoveTo(cursor + 1)
    BY <2>1, <1>2, <1>3
  <2>2. CASE cursor > 0 /\ MoveTo(cursor - 1)
    BY <2>2, <1>2, <1>3
  <2>3. CASE MoveTo(0)
    BY <2>3, <1>2
  <2>4. CASE Filtered # {} /\ MoveTo(Cardinality(Filtered) - 1)
    BY <2>4, <1>2
  <2> QED
    BY <2>1, <2>2, <2>3, <2>4 DEF Moves
<1>5. Placed(Filtered)'
  BY <1>1, <1>4, MovePlaces DEF Placed
<1> QED
  BY <1>1, <1>5 DEF CursorInv, CursorOnSticky, Placed

\* Every step keeps the cursor on the cluster it follows.
LEMMA CursorPreserved == CursorInv /\ [Next]_vars => CursorInv'
<1> SUFFICES ASSUME CursorInv, [Next]_vars PROVE CursorInv'
  OBVIOUS
<1>1. ASSUME UNCHANGED <<list, match, cursor, sticky>> PROVE CursorInv'
  BY <1>1 DEF CursorInv, CursorOnSticky, Filtered
<1>2. ASSUME NEW m \in Mgmts, NEW L \in SUBSET Keys, Loaded(m, L) PROVE CursorInv'
  <2>1. list' = L /\ match' = match /\ match \in SUBSET Keys /\ cursor \in Nat
    BY <1>2 DEF Loaded, Answered, filterVars, CursorInv
  <2>2. Placed(L \cap match)'
    BY <2>1, <1>2, RecomputePlaces DEF Loaded
  <2> QED
    BY <2>1, <2>2 DEF CursorInv, CursorOnSticky, Placed, Filtered
<1>3. CASE Filters
  <2>1. list' = list /\ list \in SUBSET Keys /\ match \in SUBSET Keys /\ cursor \in Nat
    BY <1>3 DEF Filters, listVars, CursorInv
  <2>2. CASE match' = Keys /\ Recompute(list)
    <3>1. Placed(list)'
      BY <2>1, <2>2, RecomputePlaces
    <3>2. Filtered' = list
      BY <2>1, <2>2 DEF Filtered
    <3> QED
      BY <2>1, <2>2, <3>1, <3>2 DEF CursorInv, CursorOnSticky, Placed
  <2>3. CASE match' \in SUBSET Keys /\ Recompute(list \cap match')
    <3>1. PICK M \in SUBSET Keys : M = match' /\ Recompute(list \cap M)
      BY <2>3
    <3>2. Placed(list \cap M)'
      BY <2>1, <3>1, RecomputePlaces
    <3> QED
      BY <2>1, <3>1, <3>2 DEF CursorInv, CursorOnSticky, Placed, Filtered
  <2>4. CASE UNCHANGED <<match, cursorVars>>
    BY <2>1, <2>4, <1>1 DEF cursorVars
  <2> QED
    BY <1>3, <2>2, <2>3, <2>4 DEF Filters
<1>4. CASE Moves
  BY <1>4, MovesPreserve
<1>5. ASSUME NEW m \in Mgmts, LoadFails(m) \/ Switched(m) \/ SwitchFails(m) \/ Picks(m)
      PROVE  CursorInv'
  BY <1>1, <1>5 DEF LoadFails, Answered, Switched, SwitchFails, Picks, listVars, cursorVars,
                    filterVars
<1>6. ASSUME NEW yes \in BOOLEAN, Confirms(yes) PROVE CursorInv'
  BY <1>1, <1>6 DEF Confirms, listVars, cursorVars, filterVars
<1>7. CASE AsksToQuit \/ Refreshes \/ Goes \/ BeginSpawn \/ Tick \/ Quits
  BY <1>1, <1>7 DEF AsksToQuit, Refreshes, Goes, BeginSpawn, Tick, Quits, listVars, cursorVars,
                    filterVars
<1>8. CASE Prepared \/ SpawnFails \/ Execs \/ ShellExits \/ ShellExited
  BY <1>1, <1>8 DEF Prepared, SpawnFails, Execs, ShellExits, ShellExited, listVars, cursorVars,
                    filterVars
<1>9. CASE UNCHANGED vars
  BY <1>1, <1>9 DEF vars, listVars, cursorVars, filterVars
<1> QED
  BY <1>2, <1>3, <1>4, <1>5, <1>6, <1>7, <1>8, <1>9 DEF Next, Keyboard, Lists

\* The cursor is on a row of the list and on the cluster it follows, whatever
\* lists, filters and keys do.
THEOREM CursorFollows == Spec => []CursorOnSticky
<1>1. Init => CursorInv
  BY FS_EmptySet DEF Init, CursorInv, CursorOnSticky, Filtered
<1>2. CursorInv => CursorOnSticky
  BY DEF CursorInv
<1> QED
  BY <1>1, <1>2, CursorPreserved, PTL DEF Spec

\* recomputeFiltered leaves the cluster it follows alone if the list shows it.
LEMMA RecomputeFollows ==
  ASSUME NEW S \in SUBSET Keys, sticky \in S, Recompute(S)
  PROVE  sticky' = sticky
BY DEF Recompute, Follow

\* No key but those that move the cursor, no list and no filter changes what the
\* cursor follows while the list shows it.
LEMMA StickyStays ==
  ASSUME CursorInv, Next, ~Moves, sticky \in Filtered'
  PROVE  sticky' = sticky
<1>1. ASSUME NEW m \in Mgmts, NEW L \in SUBSET Keys, Loaded(m, L) PROVE sticky' = sticky
  <2>1. Filtered' = L \cap match /\ match \in SUBSET Keys
    BY <1>1 DEF Loaded, Answered, filterVars, Filtered, CursorInv
  <2> QED
    BY <1>1, <2>1, RecomputeFollows DEF Loaded
<1>2. CASE Filters
  <2>1. list' = list /\ list \in SUBSET Keys
    BY <1>2 DEF Filters, listVars, CursorInv
  <2>2. CASE match' = Keys /\ Recompute(list)
    <3>1. Filtered' = list
      BY <2>1, <2>2 DEF Filtered
    <3> QED
      BY <2>1, <2>2, <3>1, RecomputeFollows
  <2>3. CASE match' \in SUBSET Keys /\ Recompute(list \cap match')
    <3>1. PICK M \in SUBSET Keys : M = match' /\ Recompute(list \cap M)
      BY <2>3
    <3>2. sticky \in list \cap M
      BY <2>1, <3>1 DEF Filtered
    <3> QED
      BY <2>1, <3>1, <3>2, RecomputeFollows
  <2> QED
    BY <1>2, <2>2, <2>3 DEF Filters, cursorVars
<1>3. ASSUME NEW m \in Mgmts, LoadFails(m) \/ Switched(m) \/ SwitchFails(m) \/ Picks(m)
      PROVE  sticky' = sticky
  BY <1>3 DEF LoadFails, Switched, SwitchFails, Picks, cursorVars
<1>4. ASSUME NEW yes \in BOOLEAN, Confirms(yes) PROVE sticky' = sticky
  BY <1>4 DEF Confirms, cursorVars
<1>5. CASE AsksToQuit \/ Refreshes \/ Goes \/ BeginSpawn \/ Tick \/ Quits
  BY <1>5 DEF AsksToQuit, Refreshes, Goes, BeginSpawn, Tick, Quits, cursorVars
<1>6. CASE Prepared \/ SpawnFails \/ Execs \/ ShellExits \/ ShellExited
  BY <1>6 DEF Prepared, SpawnFails, Execs, ShellExits, ShellExited, cursorVars
<1> QED
  BY <1>1, <1>2, <1>3, <1>4, <1>5, <1>6 DEF Next, Keyboard, Lists

\* A cluster that stays on the list stays under the cursor until a key moves it.
THEOREM HighlightIsKept == Spec => HighlightStays
<1> DEFINE Kept == /\ ~Moves
                   /\ cursor < Cardinality(Filtered)
                   /\ Member(Filtered, cursor) \in Filtered'
                   => /\ cursor' < Cardinality(Filtered')
                      /\ Member(Filtered', cursor') = Member(Filtered, cursor)
<1>1. Init => CursorInv
  BY FS_EmptySet DEF Init, CursorInv, CursorOnSticky, Filtered
<1>2. CursorInv /\ [Next]_vars => [Kept]_vars
  <2> SUFFICES ASSUME CursorInv, Next, ~Moves, cursor < Cardinality(Filtered),
                      Member(Filtered, cursor) \in Filtered'
               PROVE  /\ cursor' < Cardinality(Filtered')
                      /\ Member(Filtered', cursor') = Member(Filtered, cursor)
    OBVIOUS
  <2>1. CursorOnSticky /\ CursorOnSticky'
    BY CursorPreserved DEF CursorInv
  <2>2. Filtered # {}
    BY FS_EmptySet DEF CursorInv
  <2>3. Member(Filtered, cursor) = sticky
    BY <2>1, <2>2 DEF CursorOnSticky
  <2>4. sticky' = sticky
    BY <2>3, StickyStays
  <2> QED
    BY <2>1, <2>3, <2>4 DEF CursorOnSticky
<1> HIDE DEF Kept
<1>3. Spec => [][Kept]_vars
  BY <1>1, <1>2, CursorPreserved, PTL DEF Spec
<1> QED
  BY <1>3 DEF Kept, HighlightStays

-----------------------------------------------------------------------------
(* Waiting                                                                 *)

\* Commands are started before the screen waits for them, and every answer
\* leaves the screen that waited.
LEMMA CommandsPreserved == CommandsInv /\ [Next]_vars => CommandsInv'
<1> SUFFICES ASSUME CommandsInv, [Next]_vars PROVE CommandsInv'
  OBVIOUS
<1> USE TuiAssumption DEF CommandsInv, WaitsForSomething, Screens, Stages, mgmtVars
<1>1. ASSUME NEW m \in Mgmts, NEW L \in SUBSET Keys, Loaded(m, L) PROVE CommandsInv'
  BY <1>1 DEF Loaded, Answered
<1>2. ASSUME NEW m \in Mgmts, LoadFails(m) PROVE CommandsInv'
  BY <1>2 DEF LoadFails, Answered
<1>3. ASSUME NEW m \in Mgmts, Switched(m) PROVE CommandsInv'
  BY <1>3 DEF Switched, Load
<1>4. ASSUME NEW m \in Mgmts, SwitchFails(m) PROVE CommandsInv'
  BY <1>4 DEF SwitchFails
<1>5. ASSUME NEW m \in Mgmts, Picks(m) PROVE CommandsInv'
  BY <1>5 DEF Picks
<1>6. ASSUME NEW yes \in BOOLEAN, Confirms(yes) PROVE CommandsInv'
  BY <1>6 DEF Confirms, Spawn, Becomes
<1>7. CASE Filters \/ Moves \/ AsksToQuit \/ Goes \/ Quits
  BY <1>7 DEF Filters, Moves, AsksToQuit, Goes, Quits
<1>8. CASE Tick \/ Refreshes
  BY <1>8 DEF Tick, Refreshes, Load
<1>9. CASE BeginSpawn
  BY <1>9 DEF BeginSpawn, Spawn, Becomes
<1>10. CASE Prepared \/ Execs \/ ShellExits
  BY <1>10 DEF Prepared, Execs, ShellExits, Becomes
<1>11. CASE SpawnFails
  BY <1>11 DEF SpawnFails, Becomes
<1>12. CASE ShellExited
  BY <1>12 DEF ShellExited, Becomes
<1>13. CASE UNCHANGED vars
  BY <1>13 DEF vars
<1> QED
  BY <1>1, <1>2, <1>3, <1>4, <1>5, <1>6, <1>7, <1>8, <1>9, <1>10, <1>11, <1>12, <1>13
     DEF Next, Keyboard, Lists

\* A screen that takes no keys has an answer to wait for.
THEOREM NeverStuck == Spec => []WaitsForSomething
<1>1. Init => CommandsInv
  BY TuiAssumption DEF Init, CommandsInv, WaitsForSomething, Screens, Stages
<1>2. CommandsInv => WaitsForSomething
  BY DEF CommandsInv
<1> QED
  BY <1>1, <1>2, CommandsPreserved, PTL DEF Spec

-----------------------------------------------------------------------------
(* Types                                                                   *)

\* The variables neither invariant above speaks of.
RestInv ==
    /\ focused \in BOOLEAN
    /\ sticky \in Keys \cup {NoKey}
    /\ confirming \in BOOLEAN
    /\ source \in Mgmts
    /\ switches \in 0..MaxSwitches
    /\ oneShot \in BOOLEAN

\* On a list that shows something, the cursor follows a cluster there is.
LEMMA StickyIsShown == CursorInv /\ Filtered # {} => sticky \in Keys
<1> SUFFICES ASSUME CursorInv, Filtered # {} PROVE sticky \in Keys
  OBVIOUS
<1>1. Filtered \in SUBSET Keys /\ cursor \in Nat /\ cursor < Cardinality(Filtered)
      /\ Member(Filtered, cursor) = sticky
  BY DEF CursorInv, CursorOnSticky, Filtered
<1>2. \A S \in SUBSET Keys, i \in Nat : i < Cardinality(S) => Member(S, i) \in S
  BY RowHasMember
<1> QED
  BY <1>1, <1>2

\* Only a list that shows something changes what the cursor follows.
LEMMA StickyPreserved ==
    RestInv /\ CursorInv /\ [Next]_vars => (sticky \in Keys \cup {NoKey})'
<1> SUFFICES ASSUME RestInv, CursorInv, [Next]_vars
             PROVE  (sticky \in Keys \cup {NoKey})'
  OBVIOUS
<1>1. CursorInv' /\ (Filtered' # {} => sticky' \in Keys)
  <2>1. (CursorInv /\ Filtered # {} => sticky \in Keys)'
    BY StickyIsShown, PTL
  <2> QED
    BY <2>1, CursorPreserved
<1> SUFFICES ASSUME Filtered' = {} PROVE sticky' = sticky
  BY <1>1 DEF RestInv
<1>2. ASSUME Recompute({}) PROVE sticky' = sticky
  BY <1>2 DEF Recompute, Follow
<1>3. ASSUME NEW m \in Mgmts, NEW L \in SUBSET Keys, Loaded(m, L) PROVE sticky' = sticky
  <2>1. L \cap match = {}
    BY <1>3 DEF Loaded, Answered, filterVars, Filtered
  <2> QED
    BY <1>2, <1>3, <2>1 DEF Loaded
<1>4. CASE Filters
  <2>1. list' = list /\ list \in SUBSET Keys
    BY <1>4 DEF Filters, listVars, CursorInv
  <2>2. CASE match' = Keys /\ Recompute(list)
    BY <1>2, <2>1, <2>2 DEF Filtered
  <2>3. CASE Recompute(list \cap match')
    BY <1>2, <2>1, <2>3 DEF Filtered
  <2> QED
    BY <1>4, <2>2, <2>3 DEF Filters, cursorVars
<1>5. CASE Moves
  <2>1. Filtered = {} /\ cursor \in Nat
    BY <1>5 DEF Moves, Filtered, listVars, filterVars, CursorInv
  <2>2. Cardinality(Filtered) = 0
    BY <2>1, FS_EmptySet
  <2>3. \A i \in Nat : MoveTo(i) => sticky' = sticky
    BY <2>2 DEF MoveTo
  <2> QED
    BY <1>5, <2>1, <2>2, <2>3 DEF Moves
<1>6. ASSUME NEW m \in Mgmts, LoadFails(m) \/ Switched(m) \/ SwitchFails(m) \/ Picks(m)
      PROVE  sticky' = sticky
  BY <1>6 DEF LoadFails, Switched, SwitchFails, Picks, cursorVars
<1>7. ASSUME NEW yes \in BOOLEAN, Confirms(yes) PROVE sticky' = sticky
  BY <1>7 DEF Confirms, cursorVars
<1>8. CASE AsksToQuit \/ Refreshes \/ Goes \/ BeginSpawn \/ Tick \/ Quits
  BY <1>8 DEF AsksToQuit, Refreshes, Goes, BeginSpawn, Tick, Quits, cursorVars
<1>9. CASE Prepared \/ SpawnFails \/ Execs \/ ShellExits \/ ShellExited
  BY <1>9 DEF Prepared, SpawnFails, Execs, ShellExits, ShellExited, cursorVars
<1>10. CASE UNCHANGED vars
  BY <1>10 DEF vars, cursorVars
<1> QED
  BY <1>3, <1>4, <1>5, <1>6, <1>7, <1>8, <1>9, <1>10 DEF Next, Keyboard, Lists

\* The rest is flags and counters.
LEMMA RestPreserved == RestInv /\ CursorInv /\ [Next]_vars => RestInv'
<1> SUFFICES ASSUME RestInv, CursorInv, [Next]_vars PROVE RestInv'
  OBVIOUS
<1>1. (sticky \in Keys \cup {NoKey})'
  BY StickyPreserved
<1> USE TuiAssumption DEF RestInv, listVars, filterVars, mgmtVars
<1>2. ASSUME NEW m \in Mgmts, NEW L \in SUBSET Keys, Loaded(m, L) PROVE RestInv'
  BY <1>1, <1>2 DEF Loaded, Answered
<1>3. ASSUME NEW m \in Mgmts, LoadFails(m) \/ Switched(m) \/ SwitchFails(m) \/ Picks(m)
      PROVE  RestInv'
  BY <1>1, <1>3 DEF LoadFails, Answered, Switched, SwitchFails, Picks
<1>4. ASSUME NEW yes \in BOOLEAN, Confirms(yes) PROVE RestInv'
  BY <1>1, <1>4 DEF Confirms
<1>5. CASE Filters \/ Moves \/ AsksToQuit \/ Refreshes \/ Goes
  BY <1>1, <1>5 DEF Filters, Moves, AsksToQuit, Refreshes, Goes
<1>6. CASE BeginSpawn \/ Tick \/ Quits
  BY <1>1, <1>6 DEF BeginSpawn, Tick, Quits
<1>7. CASE Prepared \/ SpawnFails \/ Execs \/ ShellExits \/ ShellExited
  BY <1>1, <1>7 DEF Prepared, SpawnFails, Execs, ShellExits, ShellExited
<1>8. CASE UNCHANGED vars
  BY <1>1, <1>8 DEF vars
<1> QED
  BY <1>2, <1>3, <1>4, <1>5, <1>6, <1>7, <1>8 DEF Next, Keyboard, Lists

\* Every variable of the event loop keeps its type: the cursor is never
\* negative, it follows a cluster there is or none, and lists, switches and
\* spawns are counted within their bounds, however their answers cross.
THEOREM TypeCorrect == Spec => []TypeOK
<1> DEFINE TInv == CursorInv /\ CommandsInv /\ RestInv
<1>1. Init => TInv
  <2> SUFFICES ASSUME Init PROVE TInv
    OBVIOUS
  <2>1. CursorInv
    BY FS_EmptySet DEF Init, CursorInv, CursorOnSticky, Filtered
  <2>2. CommandsInv
    BY TuiAssumption DEF Init, CommandsInv, WaitsForSomething, Screens, Stages
  <2>3. RestInv
    <3>1. focused \in BOOLEAN /\ confirming \in BOOLEAN /\ oneShot \in BOOLEAN
      BY DEF Init
    <3>2. sticky \in Keys \cup {NoKey} /\ source \in Mgmts /\ switches \in 0..MaxSwitches
      BY TuiAssumption DEF Init
    <3> QED
      BY <3>1, <3>2 DEF RestInv
  <2> QED
    BY <2>1, <2>2, <2>3
<1>2. TInv /\ [Next]_vars => TInv'
  BY CursorPreserved, CommandsPreserved, RestPreserved
<1>3. TInv => TypeOK
  BY DEF CursorInv, CommandsInv, RestInv, TypeOK
<1> HIDE DEF TInv
<1> QED
  BY <1>1, <1>2, <1>3, PTL DEF Spec

=============================================================================
