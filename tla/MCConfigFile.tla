---------------------------- MODULE MCConfigFile ----------------------------
(* ConfigFile on a small instance.                                         *)
EXTENDS ConfigFile

=============================================================================
