------------------------------ MODULE MCApiKeys ------------------------------
(***************************************************************************)
(* Small instance of ApiKeys: two keys, one endpoint besides the default.  *)
(***************************************************************************)
EXTENDS ApiKeys, TLC

Symmetry == Permutations(Worker)
=============================================================================
