------------------------------- MODULE SyncRows -------------------------------
(***************************************************************************)
(* One import, row by row, as process_sync runs it inside one database     *)
(* session: what a bad row does to the transaction, and what becomes of    *)
(* the errors appended to the sync_logs row.                               *)
(*                                                                         *)
(* The session is SQLAlchemy's: an attribute set to the object it already  *)
(* holds is not a change (the JSONB column is a plain list, so appending   *)
(* in place is invisible), a flush writes the changed attributes, a failed *)
(* statement aborts the transaction on the server, and a failed flush also *)
(* expires the session's objects until rollback.  A commit that takes      *)
(* effect although its answer is lost is a step of SyncLifecycle.          *)
(***************************************************************************)
EXTENDS Integers, Sequences, FiniteSets

CONSTANTS
  Files,         \* the files an import may be given: sequences of row kinds
  MaxRetries,    \* Celery's max_retries
  MaxRefusals    \* bound: statements the database refuses for reasons of its
                 \* own (a deadlock, a timeout, a lost connection)

RowKinds ==
  {"good",       \* normalizes, and the database takes it
   "invalid",    \* NormalizationError before any statement
   "unknown",    \* NormalizationError after a SELECT: no such sku_code
   "ambiguous",  \* another exception after a SELECT: two locations of one name
   "refused",    \* normalizes, and the database refuses it (value too long)
   "garbled"}    \* the connector raises while it maps the row (int of inf)

ASSUME RowsAssumption ==
  /\ Files \subseteq Seq(RowKinds)
  /\ MaxRetries \in Nat /\ MaxRefusals \in Nat

VARIABLES
  file,      \* the rows of the uploaded file
  row,       \* the committed sync_logs row
  stored,    \* indexes of the file's rows in the committed inventory tables
  obj,       \* the session's SyncLog object
  tx,        \* the session's transaction: its state and what it has written
  pc,        \* where process_sync is
  next,      \* index of the next row
  retries,   \* self.request.retries
  refusals   \* refusals injected so far

vars == <<file, row, stored, obj, tx, pc, next, retries, refusals>>

(* A row error names the row it is about; the fatal entry names none. *)
FatalEntry == 0

NewRow == [status |-> "PENDING", total |-> 0, processed |-> 0, failed |-> 0, errors |-> <<>>]

(* `replaced`: errors holds another list than the one loaded or flushed. *)
LoadedFrom(r) ==
  [total |-> r.total, processed |-> r.processed, failed |-> r.failed,
   errors |-> r.errors, replaced |-> FALSE]

NewTransaction(r) == [state |-> "open", errors |-> r.errors, rows |-> {}]

TypeOK ==
  /\ file \in Files
  /\ row \in [status : {"PENDING", "RUNNING", "COMPLETED", "FAILED"}, total : Nat,
              processed : Nat, failed : Nat, errors : Seq(Nat)]
  /\ stored \subseteq Nat
  /\ obj \in [total : Nat, processed : Nat, failed : Nat, errors : Seq(Nat),
              replaced : BOOLEAN]
  /\ tx \in [state : {"open", "aborted", "expired"}, errors : Seq(Nat), rows : SUBSET Nat]
  /\ pc \in {"begin", "rows", "failing", "raised", "done"}
  /\ next \in Nat \ {0}
  /\ retries \in 0 .. MaxRetries
  /\ refusals \in 0 .. MaxRefusals

Init ==
  /\ file \in Files
  /\ row = NewRow
  /\ stored = {}
  /\ obj = LoadedFrom(NewRow)
  /\ tx = NewTransaction(NewRow)
  /\ pc = "begin"
  /\ next = 1
  /\ retries = 0
  /\ refusals = 0

-----------------------------------------------------------------------------
(* The session. *)

(* Bug: the row's error replaces the list instead of extending it. *)
AppendErrorOverwriting(o, e) ==
  [o EXCEPT !.errors = <<e>>, !.replaced = TRUE]

(* errors = sync_log.errors or []; append; assign back.  An empty list is  *)
(* falsy, so the first append makes a new list; later ones mutate it.      *)
AppendError(o, e) ==
  IF o.errors = <<>> THEN [o EXCEPT !.errors = <<e>>, !.replaced = TRUE]
  ELSE [o EXCEPT !.errors = Append(@, e)]

FlushedErrors(t, o) == IF o.replaced THEN o.errors ELSE t.errors

(* The transaction after a flush of o and the insertion of `rows`. *)
Flushed(t, o, rows) == [t EXCEPT !.errors = FlushedErrors(t, o), !.rows = @ \cup rows]

Clean(o) == [o EXCEPT !.replaced = FALSE]

-----------------------------------------------------------------------------
(* status = RUNNING is committed; the counters are those of the row. *)
Begin ==
  /\ pc = "begin"
  /\ pc' = "rows"
  /\ row' = [row EXCEPT !.status = "RUNNING"]
  /\ obj' = LoadedFrom(row)
  /\ tx' = NewTransaction(row)
  /\ next' = 1
  /\ UNCHANGED <<file, stored, retries, refusals>>

Row == file[next]
Counted == [obj EXCEPT !.total = @ + 1]

AtRow(kinds) == pc = "rows" /\ next <= Len(file) /\ Row \in kinds
KeepRest == UNCHANGED <<file, row, stored, retries>>
Continue == pc' = "rows" /\ next' = next + 1

(* The row is persisted; the statements flush the SyncLog with it. *)
StoreRow ==
  /\ AtRow({"good"}) /\ tx.state = "open"
  /\ obj' = Clean([Counted EXCEPT !.processed = @ + 1])
  /\ tx' = Flushed(tx, Counted, {next})
  /\ Continue /\ KeepRest /\ UNCHANGED refusals

(* NormalizationError without a statement: _append_row_error. *)
RejectRow ==
  /\ AtRow({"invalid"})
  /\ obj' = AppendError([Counted EXCEPT !.failed = @ + 1], next)
  /\ Continue /\ KeepRest /\ UNCHANGED <<tx, refusals>>

(* _resolve_product: the SELECT flushes first, then the row is rejected. *)
RejectUnknown ==
  /\ AtRow({"unknown"}) /\ tx.state = "open"
  /\ obj' = AppendError(Clean([Counted EXCEPT !.failed = @ + 1]), next)
  /\ tx' = Flushed(tx, Counted, {})
  /\ Continue /\ KeepRest /\ UNCHANGED refusals

(* `except Exception`: counted as failed, without an entry in errors. *)
CountAmbiguous ==
  /\ AtRow({"ambiguous"}) /\ tx.state = "open"
  /\ obj' = Clean([Counted EXCEPT !.failed = @ + 1])
  /\ tx' = Flushed(tx, Counted, {})
  /\ Continue /\ KeepRest /\ UNCHANGED refusals

(* The database refuses the row's upsert: the transaction is aborted, the  *)
(* exception is caught, the row counted, and the loop goes on.             *)
StatementRefused ==
  /\ AtRow({"good", "refused"}) /\ tx.state = "open"
  /\ \/ Row = "refused" /\ UNCHANGED refusals
     \/ Row = "good" /\ refusals < MaxRefusals /\ refusals' = refusals + 1
  /\ obj' = [Counted EXCEPT !.failed = @ + 1]
  /\ tx' = [tx EXCEPT !.state = "aborted"]
  /\ Continue /\ KeepRest

(* The database refuses a flush (a location or a transaction): the objects *)
(* are expired, so the handler's own `records_failed += 1` raises.         *)
FlushRefused ==
  /\ AtRow({"good", "refused"}) /\ tx.state = "open"
  /\ \/ Row = "refused" /\ UNCHANGED refusals
     \/ Row = "good" /\ refusals < MaxRefusals /\ refusals' = refusals + 1
  /\ tx' = [tx EXCEPT !.state = "expired"]
  /\ pc' = "failing"
  /\ KeepRest /\ UNCHANGED <<obj, next>>

(* In an aborted transaction the next statement fails as well: alone, and  *)
(* the row is counted, or in its autoflush, and the handler raises.        *)
StatementAfterAbort ==
  /\ AtRow(RowKinds \ {"invalid", "garbled"}) /\ tx.state = "aborted"
  /\ \/ obj' = [Counted EXCEPT !.failed = @ + 1] /\ Continue /\ UNCHANGED tx
     \/ tx' = [tx EXCEPT !.state = "expired"] /\ pc' = "failing" /\ UNCHANGED <<obj, next>>
  /\ KeepRest /\ UNCHANGED refusals

(* The connector's generator raises outside the row's try block. *)
ConnectorRaises ==
  /\ AtRow({"garbled"})
  /\ pc' = "failing"
  /\ KeepRest /\ UNCHANGED <<obj, tx, next, refusals>>

(* Quality score, COMPLETED and the last flush are committed with the rows. *)
Commit ==
  /\ pc = "rows" /\ next > Len(file) /\ tx.state = "open"
  /\ row' = [status |-> "COMPLETED", total |-> obj.total, processed |-> obj.processed,
             failed |-> obj.failed, errors |-> FlushedErrors(tx, obj)]
  /\ stored' = stored \cup tx.rows
  /\ pc' = "done"
  /\ UNCHANGED <<file, obj, tx, next, retries, refusals>>

(* The flush of the final commit fails in an aborted transaction, or the   *)
(* commit is refused or does not reach the database.                       *)
CommitRefused ==
  /\ pc = "rows" /\ next > Len(file)
  /\ \/ tx.state = "aborted" /\ UNCHANGED refusals
     \/ tx.state = "open" /\ refusals < MaxRefusals /\ refusals' = refusals + 1
  /\ pc' = "failing"
  /\ KeepRest /\ UNCHANGED <<obj, tx, next>>

(* Bug: the failed attempt is committed instead of rolled back. *)
MarkFailedWithoutRollback ==
  LET o == AppendError(LoadedFrom(row), FatalEntry)
      t == NewTransaction(row)
  IN  /\ pc = "failing"
      /\ row' = [row EXCEPT !.status = "FAILED", !.errors = FlushedErrors(t, o)]
      /\ stored' = stored \cup tx.rows
      /\ pc' = "raised"
      /\ UNCHANGED <<file, obj, tx, next, retries, refusals>>

(* Bug: the object is not refreshed: FAILED is written over what it holds. *)
MarkFailedWithoutRefresh ==
  LET o == AppendError(obj, FatalEntry)
  IN  /\ pc = "failing"
      /\ row' = [row EXCEPT !.status = "FAILED", !.errors = FlushedErrors(NewTransaction(row), o)]
      /\ pc' = "raised"
      /\ UNCHANGED <<file, stored, obj, tx, next, retries, refusals>>

(* rollback and refresh, then FAILED and the fatal entry are committed;    *)
(* the entry is a change only if the list was empty.                       *)
MarkFailed ==
  LET o == AppendError(LoadedFrom(row), FatalEntry)
      t == NewTransaction(row)
  IN  /\ pc = "failing"
      /\ row' = [row EXCEPT !.status = "FAILED", !.errors = FlushedErrors(t, o)]
      /\ obj' = Clean(o)
      /\ tx' = t
      /\ pc' = "raised"
      /\ UNCHANGED <<file, stored, next, retries, refusals>>

(* Bug: every failure is retried. *)
RetryAlways ==
  /\ pc = "raised"
  /\ retries' = retries + 1
  /\ pc' = "begin"
  /\ UNCHANGED <<file, row, stored, obj, tx, next, refusals>>

(* sync_erp_data: another attempt, or the last one has failed. *)
Retry ==
  /\ pc = "raised" /\ retries < MaxRetries
  /\ retries' = retries + 1
  /\ pc' = "begin"
  /\ UNCHANGED <<file, row, stored, obj, tx, next, refusals>>

GiveUp ==
  /\ pc = "raised" /\ retries >= MaxRetries
  /\ pc' = "done"
  /\ UNCHANGED <<file, row, stored, obj, tx, next, retries, refusals>>

Next ==
  \/ Begin
  \/ StoreRow \/ RejectRow \/ RejectUnknown \/ CountAmbiguous
  \/ StatementRefused \/ FlushRefused \/ StatementAfterAbort \/ ConnectorRaises
  \/ Commit \/ CommitRefused
  \/ MarkFailed \/ Retry \/ GiveUp

Spec == Init /\ [][Next]_vars

-----------------------------------------------------------------------------
(* Properties. *)

RowsOf(kinds) == {i \in 1 .. Len(file) : file[i] \in kinds}

(* An import is all or nothing: a COMPLETED job has stored exactly the     *)
(* good rows of its file and counted every row once; any other status      *)
(* means that nothing of the file is in the inventory (sync.py:115-132).   *)
AllOrNothing ==
  IF row.status = "COMPLETED"
  THEN /\ stored = RowsOf({"good"})
       /\ row.processed = Cardinality(stored)
       /\ row.processed + row.failed = Len(file)
       /\ row.total = Len(file)
  ELSE stored = {} /\ row.total = 0

(* What the status route shows as errors is true: each row error names a   *)
(* row of the file that was rejected, in file order and once, and at most  *)
(* one fatal entry stands, in front (the list it would be appended to a    *)
(* second time is mutated in place, which is not written).                 *)
ErrorsAreGenuine ==
  /\ \A k \in 1 .. Len(row.errors) :
       \/ k = 1 /\ row.errors[k] = FatalEntry
       \/ row.errors[k] \in RowsOf({"invalid", "unknown"})
  /\ \A k \in 2 .. Len(row.errors) : row.errors[k-1] < row.errors[k]

(* A COMPLETED job that rejected rows on its first attempt reports the     *)
(* first rejected row: what is lost is never the first error.              *)
FirstErrorReported ==
  row.status = "COMPLETED" /\ retries = 0 /\ RowsOf({"invalid", "unknown"}) # {}
    => /\ row.errors # <<>>
       /\ \A i \in RowsOf({"invalid", "unknown"}) : row.errors[1] <= i

(* An error that was committed stays: no retry drops or rewrites an entry  *)
(* the status route has already shown.                                     *)
EntriesKept ==
  [][/\ Len(row'.errors) >= Len(row.errors)
     /\ \A k \in 1 .. Len(row.errors) : row'.errors[k] = row.errors[k]]_row

(* "Never raises on a single bad row" (sync.py:73) and "Never fail the     *)
(* entire sync for one bad row" (normalizer.py:37): a job fails only when  *)
(* the database refused something for reasons of its own.                  *)
BadRowIsNotFatal == row.status = "FAILED" => refusals > 0

(* What does fail a job or make it retry: a statement the database refused *)
(* for reasons of its own, or a row it refuses or the connector chokes on. *)
(* The rows the code rejects, known, unknown or ambiguous, never do.       *)
FailureHasCause ==
  row.status = "FAILED" \/ retries > 0
    => refusals > 0 \/ RowsOf({"refused", "garbled"}) # {}

(* The errors of a COMPLETED job, exactly: on a first attempt the rejected *)
(* rows that no flush separates from the first of them, for a row that is  *)
(* not "invalid" flushes before it is stored, counted or rejected; after a *)
(* failed attempt, only the fatal entry of that attempt.                   *)
ReportedRows ==
  LET rejected == RowsOf({"invalid", "unknown"})
  IN  {i \in rejected : \A h \in rejected, n \in 1 .. i : h < n => file[n] = "invalid"}

ReportedExactly ==
  row.status = "COMPLETED"
    => IF retries = 0 THEN {row.errors[k] : k \in 1 .. Len(row.errors)} = ReportedRows
       ELSE row.errors = <<FatalEntry>>

(* "errors accumulate in SyncLog.errors" (sync.py:73): a COMPLETED job     *)
(* has an entry for every row it rejected.                                 *)
ErrorsAccumulate ==
  row.status = "COMPLETED"
    => RowsOf({"invalid", "unknown"}) \subseteq {row.errors[k] : k \in 1 .. Len(row.errors)}

=============================================================================
