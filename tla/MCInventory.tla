----------------------------- MODULE MCInventory -----------------------------
(* Instances of Inventory for TLC. *)
EXTENDS Inventory, TLC

CONSTANTS i1, i2, i3, p, q, shop

Product(s) == [kind |-> "product", sku |-> s]
Batch(s, b, l) == [kind |-> "batch", sku |-> s, item |-> b, location |-> l]
Txn(s, t, l) == [kind |-> "transaction", sku |-> s, item |-> t, location |-> l]

\* Two orders of two products and a repeated one; batches of one location in
\* two orders; a transaction file with a repeated row and one of two rows.
MixedFiles ==
  {<<Product(p), Product(q)>>, <<Product(q), Product(p), Product(q)>>,
   <<Batch(p, "1", shop), Batch(p, "2", NoLocation)>>,
   <<Batch(p, "2", shop), Batch(p, "1", shop)>>,
   <<Txn(p, "1", shop), Txn(p, "1", shop)>>,
   <<Txn(p, "1", shop), Txn(q, "1", shop)>>}

\* Two imports of any kind, and a third of one transaction.
TwoMayLock ==
  [i \in Imports |-> IF i = i3 THEN {<<Txn(p, "1", shop)>>} ELSE MixedFiles]

\* Short files, so that a third import can follow two that overlapped.
ShortFiles == [i \in Imports |-> {<<Product(p)>>, <<Txn(p, "1", shop)>>}]

Symmetry == Permutations(Imports)

=============================================================================
