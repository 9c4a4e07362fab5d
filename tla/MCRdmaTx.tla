------------------------------ MODULE MCRdmaTx ------------------------------
(* RdmaTx for TLC.  The bounds are in the configurations. *)
EXTENDS RdmaTx
=============================================================================
