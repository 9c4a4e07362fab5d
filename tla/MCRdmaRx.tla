------------------------------ MODULE MCRdmaRx ------------------------------
(* RdmaRx for TLC.  The bounds are in the configurations. *)
EXTENDS RdmaRx
=============================================================================
