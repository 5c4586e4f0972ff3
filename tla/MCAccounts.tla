------------------------------ MODULE MCAccounts ------------------------------
(* Instances of Accounts for TLC. *)
EXTENDS Accounts, TLC

CONSTANTS
  owner, r1, r2, r3, r4, r5,
  o, O, v, V   \* the owner's address and another, in lower case and not

LowerCase == [e \in Emails |-> CASE e \in {o, O} -> o [] e \in {v, V} -> v]

Symmetry == Permutations(Requests)

=============================================================================
