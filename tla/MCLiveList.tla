----------------------------- MODULE MCLiveList -----------------------------
(* LiveList on small instances.                                            *)
EXTENDS LiveList, TLC

\* Keys, cluster states and tabs are interchangeable.
Symmetric ==
    Permutations(Keys) \cup Permutations(Clusters) \cup Permutations(Streams)

=============================================================================
