----------------------------- MODULE MCSettings -----------------------------
(* Settings on a small instance.                                           *)
EXTENDS Settings, TLC

CONSTANTS env, k1, k2

\* One section: a map with two keys.
EnvEntries == [s \in {env} |-> {k1, k2}]

\* Bound: one key is edited, the other is there and keeps the map from being
\* empty; there is a current management cluster.
Stays ==
    /\ mem[k2] # Unset /\ mem[Current] # Unset
    /\ \A v \in Views : page[v] = "open" /\ tab[v] = env => draft[v][k2] = cfg[v][k2]

InitOneEdited == Init /\ Stays

SpecOneEdited == InitOneEdited /\ [][Next /\ Stays']_vars

\* Calls, themes and management clusters are alike.
Symmetry == Permutations(Calls) \cup Permutations(Themes) \cup Permutations(Clusters)

=============================================================================
