--------------------------- MODULE MCTenantScope ---------------------------
(* Small instances of TenantScope. *)
EXTENDS TenantScope, TLC

ScopeSymmetry == Permutations(Tenants) \cup Permutations(Rows)
============================================================================
