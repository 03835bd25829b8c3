------------------------------- MODULE MCPage -------------------------------
(* Page on a small instance.                                               *)
EXTENDS Page

=============================================================================
