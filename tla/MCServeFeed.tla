---------------------------- MODULE MCServeFeed -----------------------------
(* ServeFeed on small instances: two management clusters.                  *)
EXTENDS ServeFeed

=============================================================================
