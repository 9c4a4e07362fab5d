---- MODULE MCSdkConn ----
(***************************************************************************)
(* Small rings for SdkConn.  All numbers wrap, so nothing bounds the       *)
(* length of a run.                                                        *)
(***************************************************************************)
EXTENDS SdkConn

====
