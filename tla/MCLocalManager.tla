--------------------------- MODULE MCLocalManager ---------------------------
(* LocalManager with two connections that ask for one group, for TLC.      *)
EXTENDS LocalManager

CONSTANTS c1, c2, g1

MCGroupOf == [c \in Conns |-> g1]

\* A receiver with a transmitter, and two receivers.
MCKinds == {{c1}, {c1, c2}}
=============================================================================
