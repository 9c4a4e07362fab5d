-------------------------- MODULE MCConnLifecycle --------------------------
(* ConnLifecycle for TLC. *)
EXTENDS ConnLifecycle
=============================================================================
