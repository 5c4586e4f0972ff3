--------------------------- MODULE MCTenantContext ---------------------------
(* Instances of TenantContext for TLC. *)
EXTENDS TenantContext, TLC

CONSTANTS t1, t2, r1, r2, s1, s2, d1, a1, a2, w1

TwoTenants ==
  [s \in Sessions |-> IF s \in {r1, s1} THEN t1 ELSE t2]

Symmetry == Permutations(ApiPool)

=============================================================================
