---------------------------- MODULE MCSwitching -----------------------------
(* Switching on a small instance.                                          *)
EXTENDS Switching, TLC, FiniteSets

\* Management clusters and requests are alike.
Symmetry == Permutations(Mgmts) \cup Permutations(Puts)

\* Bound: what settings views have read is the same in all of them, and while there
\* is a terminal one switch at a time is in flight.
Few ==
    /\ Cardinality(copies) <= 1
    /\ shell # Idle => Cardinality(InFlight) <= 1

SpecFew == Init /\ [][Next /\ Few']_vars

=============================================================================
