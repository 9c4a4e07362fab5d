------------------------ MODULE MCDataplaneAtomicPtr ------------------------
(* DataplaneAtomicPtr with a few pointers and writers, for TLC.            *)
EXTENDS DataplaneAtomicPtr
=============================================================================
