--------------------------- MODULE MCClusterCache ---------------------------
(* ClusterCache on a small instance: two tabs, two clusters.               *)
EXTENDS ClusterCache

=============================================================================
