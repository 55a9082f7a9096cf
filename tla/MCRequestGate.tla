---------------------------- MODULE MCRequestGate ----------------------------
(***************************************************************************)
(* Small instance of RequestGate.                                          *)
(***************************************************************************)
EXTENDS RequestGate
=============================================================================
