---------------------------- MODULE MCTenantScope ----------------------------
(***************************************************************************)
(* Small instance of TenantScope.                                          *)
(***************************************************************************)
EXTENDS TenantScope, TLC

Symmetry == Permutations(Worker) \cup Permutations(Agent) \cup Permutations(Tenant)
=============================================================================
