------------------------------ MODULE MCSyncRows ------------------------------
(* Instances of SyncRows for TLC. *)
EXTENDS SyncRows

CONSTANT MaxRows

FilesUpTo(kinds) == UNION {[1 .. n -> kinds] : n \in 0 .. MaxRows}

AllFiles == FilesUpTo(RowKinds)
\* Files whose bad rows are rejected before the database sees them.
RejectedFiles == FilesUpTo({"good", "invalid", "unknown"})
\* Files with at most one bad row.
OneBadRow == {f \in AllFiles : Cardinality({i \in DOMAIN f : f[i] # "good"}) <= 1}

=============================================================================
