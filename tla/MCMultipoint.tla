---------------------------- MODULE MCMultipoint ----------------------------
(* Multipoint with a local and a bridge connection of each kind, for TLC.  *)
EXTENDS Multipoint

=============================================================================
