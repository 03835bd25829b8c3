--------------------------- MODULE MCPtySessions ----------------------------
(* PtySessions on small instances.                                         *)
EXTENDS PtySessions, FiniteSets

\* Ids and slots are alike, and numbers here: they are taken in order.  (Symmetry
\* would be unsound for liveness.)
InOrder == \A s, t \in Sessions : s < t /\ entry[t] # "none" => entry[s] # "none"
FirstFree ==
    \A c, d \in Handlers :
      d < c /\ at[c] = "idle" /\ at'[c] # "idle" => at[d] # "idle" \/ d \in bridging

\* Bound: sessions in use and handlers that are not done with theirs.  Two sessions
\* wait, or two handlers race for one, but two terminals are not connected at once.
Few == Cardinality({s \in Sessions : entry[s] = "used"})
         + Cardinality({c \in Handlers : at[c] # "idle" \/ c \in bridging}) <= 3

OrderedSpec == Init /\ [][Next /\ InOrder' /\ Few' /\ FirstFree]_vars /\ Fairness

=============================================================================
