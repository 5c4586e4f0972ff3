------------------------------ MODULE MargExport ------------------------------
(***************************************************************************)
(* Runs of the Marg hook and what their imports make of the exported rows: *)
(* MargHook says which imports are committed, and how often, Conversions   *)
(* what becomes of a row in one of them.                                   *)
(***************************************************************************)
EXTENDS MargHook, Conversions

Kept(e) ==
  CASE e = "products" -> ProductsKept
    [] e = "batches" -> BatchesKept
    [] e = "transactions" -> TransactionsKept

(* Whatever an imported job stores of a row is what Marg exported legibly: *)
(* names under their columns, prices in paise once, days as documented,    *)
(* without a godown at the default location (transform_*_rows,             *)
(* csv_connector.py, normalizer.py).  It is about each row for itself:     *)
(* what the tables make of several imports is the matter of Inventory.     *)
ExportKept == \A j \in Jobs : imports[j] > 0 => Kept(j[2])

=============================================================================
