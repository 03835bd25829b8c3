------------------------------- MODULE MCTui --------------------------------
(* Tui on a small instance: two clusters, two management clusters.         *)
EXTENDS Tui

=============================================================================
