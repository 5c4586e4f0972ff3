--------------------------- MODULE SyncRows_proofs ---------------------------
(***************************************************************************)
(* What an import leaves in the tables and in sync_logs, for every file,   *)
(* any number of retries and of refusals.                                  *)
(***************************************************************************)
EXTENDS SyncRows, FiniteSetTheorems, TLAPS

Rejected == {"invalid", "unknown"}

(* The rows of some kinds before the n-th. *)
Seen(f, n, kinds) == {i \in 1 .. n - 1 : f[i] \in kinds}

(* A list of errors that is about rows before the n-th. *)
Genuine(f, n, s) ==
  /\ \A k \in 1 .. Len(s) : (k = 1 /\ s[k] = FatalEntry) \/ s[k] \in Seen(f, n, Rejected)
  /\ \A k \in 2 .. Len(s) : s[k-1] < s[k]

Extends(s, prefix) ==
  Len(s) >= Len(prefix) /\ \A k \in 1 .. Len(prefix) : s[k] = prefix[k]

(* The first rejected row is in the session's list, and is on its way to   *)
(* the database with it or has been flushed.                               *)
FirstKept(f, n, o, t) ==
  IF Seen(f, n, Rejected) = {} THEN o.errors = <<>> /\ t.errors = <<>>
  ELSE /\ o.errors # <<>>
       /\ \A i \in Seen(f, n, Rejected) : o.errors[1] <= i
       /\ o.replaced \/ (t.errors # <<>> /\ t.errors[1] = o.errors[1])

-----------------------------------------------------------------------------
(* The inductive invariant. *)

InFile == next <= Len(file) + 1

Uncommitted ==
  /\ row.status = "COMPLETED" => pc = "done"
  /\ row.status # "COMPLETED"
       => /\ stored = {} /\ row.total = 0 /\ row.processed = 0 /\ row.failed = 0
          /\ row.errors \in {<<>>, <<FatalEntry>>}

FirstAttempt == retries = 0 /\ pc \in {"begin", "rows", "failing"} => row.errors = <<>>

Tallied ==
  pc = "rows" /\ tx.state = "open"
    => /\ tx.rows = Seen(file, next, {"good"})
       /\ obj.total = next - 1 /\ obj.processed + obj.failed = next - 1
       /\ obj.processed = Cardinality(Seen(file, next, {"good"}))

Listed ==
  pc = "rows"
    => /\ Genuine(file, next, obj.errors) /\ Genuine(file, next, tx.errors)
       /\ Extends(obj.errors, row.errors) /\ Extends(tx.errors, row.errors)
       /\ row.errors = <<>> /\ tx.state = "open" => FirstKept(file, next, obj, tx)

Report == AllOrNothing /\ ErrorsAreGenuine /\ FirstErrorReported

IInv == TypeOK /\ InFile /\ Uncommitted /\ FirstAttempt /\ Tallied /\ Listed /\ Report

-----------------------------------------------------------------------------
(* The rows seen so far. *)

LEMMA SeenFinite ==
  ASSUME NEW f, NEW n \in Nat \ {0}, NEW kinds
  PROVE  IsFiniteSet(Seen(f, n, kinds)) /\ Cardinality(Seen(f, n, kinds)) \in Nat
<1>1. n - 1 \in Int
  OBVIOUS
<1>2. IsFiniteSet(1 .. n - 1)
  BY <1>1, FS_Interval
<1>3. IsFiniteSet(Seen(f, n, kinds))
  BY <1>2, FS_Subset DEF Seen
<1> QED
  BY <1>3, FS_CardinalityType

LEMMA SeenGrows ==
  ASSUME NEW f, NEW n \in Nat \ {0}, NEW kinds
  PROVE  /\ f[n] \in kinds =>
              /\ Seen(f, n + 1, kinds) = Seen(f, n, kinds) \cup {n}
              /\ Cardinality(Seen(f, n + 1, kinds)) = Cardinality(Seen(f, n, kinds)) + 1
         /\ f[n] \notin kinds => Seen(f, n + 1, kinds) = Seen(f, n, kinds)
<1>1. 1 .. (n + 1) - 1 = (1 .. n - 1) \cup {n}
  OBVIOUS
<1>2. f[n] \in kinds => Seen(f, n + 1, kinds) = Seen(f, n, kinds) \cup {n}
  BY <1>1 DEF Seen
<1>3. f[n] \notin kinds => Seen(f, n + 1, kinds) = Seen(f, n, kinds)
  BY <1>1 DEF Seen
<1>4. n \notin Seen(f, n, kinds)
  BY DEF Seen
<1>5. Cardinality(Seen(f, n, kinds) \cup {n}) = Cardinality(Seen(f, n, kinds)) + 1
  BY <1>4, SeenFinite, FS_AddElement
<1> QED
  BY <1>2, <1>3, <1>5

-----------------------------------------------------------------------------
(* Lists of errors. *)

LEMMA GenuineStays ==
  ASSUME NEW f, NEW n \in Nat \ {0}, NEW s \in Seq(Nat), Genuine(f, n, s)
  PROVE  Genuine(f, n + 1, s)
<1>1. Seen(f, n, Rejected) \subseteq Seen(f, n + 1, Rejected)
  BY DEF Seen
<1> QED
  BY <1>1 DEF Genuine

LEMMA GenuineGrows ==
  ASSUME NEW f, NEW n \in Nat \ {0}, NEW s \in Seq(Nat), Genuine(f, n, s), f[n] \in Rejected
  PROVE  Genuine(f, n + 1, Append(s, n))
<1>1. n \in Seen(f, n + 1, Rejected) /\ Seen(f, n, Rejected) \subseteq Seen(f, n + 1, Rejected)
  BY DEF Seen
<1>2. \A k \in 1 .. Len(s) : s[k] \in Nat /\ s[k] < n
  BY DEF Genuine, Seen, FatalEntry
<1>3. /\ Len(Append(s, n)) = Len(s) + 1 /\ Append(s, n)[Len(s) + 1] = n
      /\ \A k \in 1 .. Len(s) : Append(s, n)[k] = s[k]
  OBVIOUS
<1>4. \A k \in 1 .. Len(s) + 1 :
        (k = 1 /\ Append(s, n)[k] = FatalEntry) \/ Append(s, n)[k] \in Seen(f, n + 1, Rejected)
  BY <1>1, <1>3 DEF Genuine
<1>5. \A k \in 2 .. Len(s) + 1 : Append(s, n)[k-1] < Append(s, n)[k]
  BY <1>2, <1>3 DEF Genuine
<1> QED
  BY <1>3, <1>4, <1>5 DEF Genuine

LEMMA ExtendsGrows ==
  ASSUME NEW s \in Seq(Nat), NEW r \in Seq(Nat), NEW e \in Nat, Extends(s, r)
  PROVE  Extends(Append(s, e), r)
BY DEF Extends

SessionObjects ==
  [total : Nat, processed : Nat, failed : Nat, errors : Seq(Nat), replaced : BOOLEAN]
SessionTransactions ==
  [state : {"open", "aborted", "expired"}, errors : Seq(Nat), rows : SUBSET Nat]

(* However the list is appended to, it is appended to. *)
LEMMA Appended ==
  ASSUME NEW o \in SessionObjects, NEW e \in Nat
  PROVE  /\ AppendError(o, e).errors = Append(o.errors, e)
         /\ o.errors = <<>> => AppendError(o, e).replaced
         /\ o.errors # <<>> => AppendError(o, e).replaced = o.replaced
         /\ AppendError(o, e).total = o.total /\ AppendError(o, e).processed = o.processed
         /\ AppendError(o, e).failed = o.failed
         /\ AppendError(o, e) \in SessionObjects
<1> USE DEF SessionObjects
<1>1. CASE o.errors = <<>>
  <2>1. Append(<<>>, e) = <<e>> /\ <<e>> \in Seq(Nat)
    OBVIOUS
  <2> QED
    BY <1>1, <2>1 DEF AppendError
<1>2. CASE o.errors # <<>>
  <2>1. AppendError(o, e) = [o EXCEPT !.errors = Append(o.errors, e)]
    BY <1>2 DEF AppendError
  <2>2. Append(o.errors, e) \in Seq(Nat)
    OBVIOUS
  <2> QED
    BY <1>2, <2>1, <2>2
<1> QED
  BY <1>1, <1>2

(* The flush of what a row was counted in. *)
LEMMA FlushedIs ==
  ASSUME NEW t \in SessionTransactions, NEW o \in SessionObjects, NEW rows \in SUBSET Nat
  PROVE  /\ Flushed(t, o, rows).state = t.state
         /\ Flushed(t, o, rows).rows = t.rows \cup rows
         /\ Flushed(t, o, rows).errors = IF o.replaced THEN o.errors ELSE t.errors
         /\ Flushed(t, o, rows) \in SessionTransactions
BY DEF Flushed, FlushedErrors, SessionObjects, SessionTransactions

(* A row that is read is counted, one way or the other. *)
LEMMA CountedIs ==
  ASSUME obj \in SessionObjects
  PROVE  /\ Counted \in SessionObjects /\ Counted.total = obj.total + 1
         /\ Counted.processed = obj.processed /\ Counted.failed = obj.failed
         /\ Counted.errors = obj.errors /\ Counted.replaced = obj.replaced
BY DEF Counted, SessionObjects

LEMMA RowFailed ==
  ASSUME NEW o \in SessionObjects
  PROVE  LET failed == [o EXCEPT !.failed = @ + 1]
         IN  /\ failed \in SessionObjects /\ failed.failed = o.failed + 1
             /\ failed.total = o.total /\ failed.processed = o.processed
             /\ failed.errors = o.errors /\ failed.replaced = o.replaced
BY DEF SessionObjects

LEMMA RowProcessed ==
  ASSUME NEW o \in SessionObjects
  PROVE  LET processed == [o EXCEPT !.processed = @ + 1]
         IN  /\ processed \in SessionObjects /\ processed.processed = o.processed + 1
             /\ processed.total = o.total /\ processed.failed = o.failed
             /\ processed.errors = o.errors /\ processed.replaced = o.replaced
BY DEF SessionObjects

LEMMA CleanIs ==
  ASSUME NEW o \in SessionObjects
  PROVE  /\ Clean(o) \in SessionObjects /\ ~Clean(o).replaced /\ Clean(o).errors = o.errors
         /\ Clean(o).total = o.total /\ Clean(o).processed = o.processed
         /\ Clean(o).failed = o.failed
BY DEF Clean, SessionObjects

(* What the row in hand makes of the session, flushed or not. *)
LEMMA FlushedCounted ==
  ASSUME obj \in SessionObjects, tx \in SessionTransactions, NEW rows \in SUBSET Nat
  PROVE  /\ Flushed(tx, Counted, rows).state = tx.state
         /\ Flushed(tx, Counted, rows).rows = tx.rows \cup rows
         /\ Flushed(tx, Counted, rows).errors
              = IF obj.replaced THEN obj.errors ELSE tx.errors
         /\ Flushed(tx, Counted, rows) \in SessionTransactions
<1> DEFINE c == Counted
<1>1. c \in SessionObjects /\ c.errors = obj.errors /\ c.replaced = obj.replaced
  BY CountedIs
<1> HIDE DEF c
<1>2. /\ Flushed(tx, c, rows).state = tx.state
      /\ Flushed(tx, c, rows).rows = tx.rows \cup rows
      /\ Flushed(tx, c, rows).errors = IF c.replaced THEN c.errors ELSE tx.errors
      /\ Flushed(tx, c, rows) \in SessionTransactions
  BY <1>1, FlushedIs
<1>3. /\ Flushed(tx, c, rows).state = tx.state
      /\ Flushed(tx, c, rows).rows = tx.rows \cup rows
      /\ Flushed(tx, c, rows).errors = IF obj.replaced THEN obj.errors ELSE tx.errors
      /\ Flushed(tx, c, rows) \in SessionTransactions
  BY <1>1, <1>2
<1> QED
  BY <1>3 DEF c

LEMMA CountedFailed ==
  ASSUME obj \in SessionObjects
  PROVE  LET o == [Counted EXCEPT !.failed = @ + 1]
         IN  /\ o \in SessionObjects /\ o.total = obj.total + 1
             /\ o.processed = obj.processed /\ o.failed = obj.failed + 1
             /\ o.errors = obj.errors /\ o.replaced = obj.replaced
<1> DEFINE c == Counted
<1>1. /\ c \in SessionObjects /\ c.total = obj.total + 1 /\ c.processed = obj.processed
      /\ c.failed = obj.failed /\ c.errors = obj.errors /\ c.replaced = obj.replaced
  BY CountedIs
<1> HIDE DEF c
<1> DEFINE o == [c EXCEPT !.failed = @ + 1]
<1>2. /\ o \in SessionObjects /\ o.failed = c.failed + 1 /\ o.total = c.total
      /\ o.processed = c.processed /\ o.errors = c.errors /\ o.replaced = c.replaced
  BY <1>1, RowFailed
<1> HIDE DEF o
<1>3. /\ o \in SessionObjects /\ o.total = obj.total + 1
      /\ o.processed = obj.processed /\ o.failed = obj.failed + 1
      /\ o.errors = obj.errors /\ o.replaced = obj.replaced
  BY <1>1, <1>2
<1> QED
  BY <1>3 DEF c, o

LEMMA CountedFailedClean ==
  ASSUME obj \in SessionObjects
  PROVE  LET o == Clean([Counted EXCEPT !.failed = @ + 1])
         IN  /\ o \in SessionObjects /\ o.total = obj.total + 1
             /\ o.processed = obj.processed /\ o.failed = obj.failed + 1
             /\ o.errors = obj.errors /\ ~o.replaced
<1> DEFINE c == Counted
<1>1. /\ c \in SessionObjects /\ c.total = obj.total + 1 /\ c.processed = obj.processed
      /\ c.failed = obj.failed /\ c.errors = obj.errors /\ c.replaced = obj.replaced
  BY CountedIs
<1> HIDE DEF c
<1> DEFINE o == [c EXCEPT !.failed = @ + 1]
<1>2. /\ o \in SessionObjects /\ o.failed = c.failed + 1 /\ o.total = c.total
      /\ o.processed = c.processed /\ o.errors = c.errors /\ o.replaced = c.replaced
  BY <1>1, RowFailed
<1> HIDE DEF o
<1>3. /\ Clean(o) \in SessionObjects /\ ~Clean(o).replaced /\ Clean(o).errors = o.errors
      /\ Clean(o).total = o.total /\ Clean(o).processed = o.processed
      /\ Clean(o).failed = o.failed
  BY <1>2, CleanIs
<1>4. /\ Clean(o) \in SessionObjects /\ Clean(o).total = obj.total + 1
      /\ Clean(o).processed = obj.processed /\ Clean(o).failed = obj.failed + 1
      /\ Clean(o).errors = obj.errors /\ ~Clean(o).replaced
  BY <1>1, <1>2, <1>3
<1> QED
  BY <1>4 DEF c, o

LEMMA CountedProcessedClean ==
  ASSUME obj \in SessionObjects
  PROVE  LET o == Clean([Counted EXCEPT !.processed = @ + 1])
         IN  /\ o \in SessionObjects /\ o.total = obj.total + 1
             /\ o.processed = obj.processed + 1 /\ o.failed = obj.failed
             /\ o.errors = obj.errors /\ ~o.replaced
<1> DEFINE c == Counted
<1>1. /\ c \in SessionObjects /\ c.total = obj.total + 1 /\ c.processed = obj.processed
      /\ c.failed = obj.failed /\ c.errors = obj.errors /\ c.replaced = obj.replaced
  BY CountedIs
<1> HIDE DEF c
<1> DEFINE o == [c EXCEPT !.processed = @ + 1]
<1>2. /\ o \in SessionObjects /\ o.processed = c.processed + 1 /\ o.total = c.total
      /\ o.failed = c.failed /\ o.errors = c.errors /\ o.replaced = c.replaced
  BY <1>1, RowProcessed
<1> HIDE DEF o
<1>3. /\ Clean(o) \in SessionObjects /\ ~Clean(o).replaced /\ Clean(o).errors = o.errors
      /\ Clean(o).total = o.total /\ Clean(o).processed = o.processed
      /\ Clean(o).failed = o.failed
  BY <1>2, CleanIs
<1>4. /\ Clean(o) \in SessionObjects /\ Clean(o).total = obj.total + 1
      /\ Clean(o).processed = obj.processed + 1 /\ Clean(o).failed = obj.failed
      /\ Clean(o).errors = obj.errors /\ ~Clean(o).replaced
  BY <1>1, <1>2, <1>3
<1> QED
  BY <1>4 DEF c, o

(* The first rejected row stays the first when another is appended. *)
LEMMA FirstKeptGrows ==
  ASSUME NEW f, NEW n \in Nat \ {0}, f[n] \in Rejected, NEW t, NEW u,
         NEW o \in SessionObjects, NEW q \in SessionObjects, FirstKept(f, n, o, t),
         q.errors = Append(o.errors, n),
         o.errors = <<>> => q.replaced,
         o.errors # <<>> => q.replaced \/ (u.errors # <<>> /\ u.errors[1] = o.errors[1])
  PROVE  FirstKept(f, n + 1, q, u)
<1>1. Seen(f, n + 1, Rejected) = Seen(f, n, Rejected) \cup {n}
  BY SeenGrows
<1>2. o.errors \in Seq(Nat) /\ \A i \in Seen(f, n, Rejected) : i \in Nat /\ i < n
  BY DEF SessionObjects, Seen
<1>3. CASE Seen(f, n, Rejected) = {}
  <2>1. o.errors = <<>>
    BY <1>3 DEF FirstKept
  <2>2. q.errors = <<n>> /\ q.replaced
    <3>1. Append(<<>>, n) = <<n>>
      OBVIOUS
    <3> QED
      BY <2>1, <3>1
  <2>3. Seen(f, n + 1, Rejected) = {n} /\ <<n>>[1] = n /\ n <= n /\ <<n>> # <<>>
    BY <1>1, <1>3
  <2> QED
    BY <2>2, <2>3 DEF FirstKept
<1>4. CASE Seen(f, n, Rejected) # {}
  <2>1. o.errors # <<>> /\ Len(o.errors) > 0
    BY <1>2, <1>4 DEF FirstKept
  <2>2. q.errors # <<>> /\ q.errors[1] = o.errors[1]
    <3>1. Append(o.errors, n) # <<>> /\ Append(o.errors, n)[1] = o.errors[1]
      BY <1>2, <2>1
    <3> QED
      BY <3>1
  <2>3. o.errors[1] \in Nat /\ \A i \in Seen(f, n, Rejected) : o.errors[1] <= i
    BY <1>2, <1>4, <2>1 DEF FirstKept
  <2>4. o.errors[1] <= n
    BY <1>2, <1>4, <2>3
  <2> QED
    BY <1>1, <1>4, <2>1, <2>2, <2>3, <2>4 DEF FirstKept
<1> QED
  BY <1>3, <1>4

-----------------------------------------------------------------------------
(* The invariant holds. *)

LEMMA Initially == Init => IInv
<1> SUFFICES ASSUME Init PROVE IInv
  OBVIOUS
<1>1. TypeOK
  BY RowsAssumption DEF Init, TypeOK, NewRow, LoadedFrom, NewTransaction
<1>2. Len(file) \in Nat
  BY RowsAssumption DEF Init
<1>3. AllOrNothing /\ ErrorsAreGenuine /\ FirstErrorReported
  BY DEF Init, NewRow, AllOrNothing, ErrorsAreGenuine, FirstErrorReported
<1> QED
  BY <1>1, <1>2, <1>3
  DEF Init, IInv, InFile, Uncommitted, FirstAttempt, Tallied, Listed, Report, NewRow

(* The file is a sequence of rows of some kind. *)
LEMMA FileIsSequence ==
  ASSUME TypeOK
  PROVE  /\ file \in Seq(RowKinds) /\ Len(file) \in Nat
         /\ next <= Len(file) => file[next] \in RowKinds
BY RowsAssumption DEF TypeOK

(* A step of the loop over the rows leaves what is committed alone. *)
LEMMA ScanStep ==
  ASSUME IInv, pc = "rows", UNCHANGED <<file, row, stored, retries>>,
         pc' \in {"rows", "failing"}, obj' \in SessionObjects, tx' \in SessionTransactions,
         refusals' \in 0 .. MaxRefusals,
         next' = next \/ (next' = next + 1 /\ next <= Len(file)), Tallied', Listed'
  PROVE  IInv'
<1>0. TypeOK' /\ InFile'
  <2>1. TypeOK /\ InFile /\ Len(file) \in Nat
    BY FileIsSequence DEF IInv
  <2>2. next' \in Nat \ {0}
    <3>1. next \in Nat \ {0}
      BY <2>1 DEF TypeOK
    <3> QED
      BY <3>1
  <2>3. InFile'
    <3>1. next \in Nat /\ next <= Len(file) + 1 /\ file' = file
      BY <2>1 DEF TypeOK, InFile
    <3> QED
      BY <2>1, <3>1 DEF InFile
  <2> QED
    BY <2>1, <2>2, <2>3 DEF TypeOK, SessionObjects, SessionTransactions
<1>1. Uncommitted' /\ FirstAttempt'
  BY DEF IInv, Uncommitted, FirstAttempt
<1>2. Report'
  BY DEF IInv, Report, AllOrNothing, ErrorsAreGenuine, FirstErrorReported, RowsOf
<1> QED
  BY <1>0, <1>1, <1>2 DEF IInv

LEMMA StoreRowStep == IInv /\ StoreRow => IInv'
<1> SUFFICES ASSUME IInv, StoreRow PROVE IInv'
  OBVIOUS
<1> USE DEF StoreRow, AtRow, Continue, KeepRest
<1>1. /\ TypeOK /\ file[next] = "good" /\ next \in Nat \ {0} /\ next <= Len(file)
      /\ obj \in SessionObjects /\ tx \in SessionTransactions
  BY DEF IInv, TypeOK, Row, SessionObjects, SessionTransactions
<1>2. Len(file) \in Nat
  BY <1>1, FileIsSequence
<1>3. /\ tx'.state = "open" /\ tx'.rows = tx.rows \cup {next}
      /\ tx'.errors = IF obj.replaced THEN obj.errors ELSE tx.errors
      /\ tx' \in SessionTransactions
  <2>1. tx' = Flushed(tx, Counted, {next}) /\ tx.state = "open" /\ {next} \in SUBSET Nat
    BY <1>1
  <2> HIDE DEF StoreRow, AtRow, Continue, KeepRest
  <2> QED
    BY <1>1, <2>1, FlushedCounted
<1>4. /\ obj'.errors = obj.errors /\ ~obj'.replaced
      /\ obj'.total = obj.total + 1 /\ obj'.processed = obj.processed + 1
      /\ obj'.failed = obj.failed
      /\ obj' \in SessionObjects
  <2>1. obj' = Clean([Counted EXCEPT !.processed = @ + 1])
    OBVIOUS
  <2> HIDE DEF StoreRow, AtRow, Continue, KeepRest
  <2> QED
    BY <1>1, <2>1, CountedProcessedClean
<1>5. refusals' \in 0 .. MaxRefusals
  BY <1>1 DEF TypeOK
<1>6. Tallied'
  <2>1. /\ tx.rows = Seen(file, next, {"good"})
        /\ obj.total = next - 1 /\ obj.processed + obj.failed = next - 1
        /\ obj.processed = Cardinality(Seen(file, next, {"good"}))
        /\ obj.total \in Nat /\ obj.processed \in Nat /\ obj.failed \in Nat
    BY <1>1 DEF IInv, Tallied, SessionObjects
  <2>2. /\ Seen(file, next + 1, {"good"}) = Seen(file, next, {"good"}) \cup {next}
        /\ Cardinality(Seen(file, next + 1, {"good"}))
             = Cardinality(Seen(file, next, {"good"})) + 1
    BY <1>1, SeenGrows
  <2> QED
    <3>1. tx'.rows = Seen(file, next', {"good"})
      BY <1>3, <2>1, <2>2
    <3>2. /\ obj'.total = next' - 1 /\ obj'.processed + obj'.failed = next' - 1
          /\ obj'.processed = Cardinality(Seen(file, next', {"good"}))
      BY <1>1, <1>4, <2>1, <2>2
    <3> QED
      BY <3>1, <3>2 DEF Tallied
<1>7. Listed'
  <2>1. Seen(file, next + 1, Rejected) = Seen(file, next, Rejected)
    BY <1>1, SeenGrows DEF Rejected
  <2>2. Genuine(file, next + 1, obj.errors) /\ Genuine(file, next + 1, tx.errors)
    BY <1>1, GenuineStays DEF IInv, Listed, TypeOK
  <2>3. row.errors = <<>> => FirstKept(file, next + 1, obj', tx')
    BY <1>3, <1>4, <2>1 DEF IInv, Listed, FirstKept
  <2> QED
    BY <1>3, <1>4, <2>2, <2>3 DEF IInv, Listed
<1> QED
  BY <1>1, <1>3, <1>4, <1>5, <1>6, <1>7, ScanStep

LEMMA RejectRowStep == IInv /\ RejectRow => IInv'
<1> SUFFICES ASSUME IInv, RejectRow PROVE IInv'
  OBVIOUS
<1> USE DEF RejectRow, AtRow, Continue, KeepRest
<1>1. /\ TypeOK /\ file[next] = "invalid" /\ next \in Nat \ {0} /\ next <= Len(file)
      /\ obj \in SessionObjects /\ tx \in SessionTransactions
  BY DEF IInv, TypeOK, Row, SessionObjects, SessionTransactions
<1>2. Len(file) \in Nat
  BY <1>1, FileIsSequence
<1>3. tx' = tx
  OBVIOUS
<1>4. /\ obj'.errors = Append(obj.errors, next)
      /\ obj.errors = <<>> => obj'.replaced
      /\ obj.errors # <<>> => obj'.replaced = obj.replaced
      /\ obj'.total = obj.total + 1 /\ obj'.processed = obj.processed
      /\ obj'.failed = obj.failed + 1 /\ obj' \in SessionObjects
  <2> DEFINE counted == [Counted EXCEPT !.failed = @ + 1]
  <2>1. /\ counted \in SessionObjects /\ counted.total = obj.total + 1
        /\ counted.processed = obj.processed /\ counted.failed = obj.failed + 1
        /\ counted.errors = obj.errors /\ counted.replaced = obj.replaced
    BY <1>1, CountedFailed
  <2>2. obj' = AppendError(counted, next) /\ next \in Nat
    BY <1>1
  <2> HIDE DEF counted
  <2>3. /\ obj'.errors = Append(counted.errors, next)
        /\ counted.errors = <<>> => obj'.replaced
        /\ counted.errors # <<>> => obj'.replaced = counted.replaced
        /\ obj'.total = counted.total /\ obj'.processed = counted.processed
        /\ obj'.failed = counted.failed /\ obj' \in SessionObjects
    <3> DEFINE appended == AppendError(counted, next)
    <3>1. /\ appended.errors = Append(counted.errors, next)
          /\ counted.errors = <<>> => appended.replaced
          /\ counted.errors # <<>> => appended.replaced = counted.replaced
          /\ appended.total = counted.total /\ appended.processed = counted.processed
          /\ appended.failed = counted.failed /\ appended \in SessionObjects
      BY <2>1, <2>2, Appended
    <3> HIDE DEF appended
    <3> QED
      BY <2>2, <3>1 DEF appended
  <2> QED
    BY <2>1, <2>3
<1>5. refusals' \in 0 .. MaxRefusals
  BY <1>1 DEF TypeOK
<1>6. Tallied'
  <2>1. tx.state = "open" =>
          /\ tx.rows = Seen(file, next, {"good"})
          /\ obj.total = next - 1 /\ obj.processed + obj.failed = next - 1
          /\ obj.processed = Cardinality(Seen(file, next, {"good"}))
    BY <1>1 DEF IInv, Tallied
  <2>2. Seen(file, next + 1, {"good"}) = Seen(file, next, {"good"})
    BY <1>1, SeenGrows
  <2>3. obj.total \in Nat /\ obj.processed \in Nat /\ obj.failed \in Nat
    BY <1>1 DEF SessionObjects
  <2>4. tx.state = "open" =>
          /\ obj'.total = next' - 1 /\ obj'.processed + obj'.failed = next' - 1
          /\ obj'.processed = Cardinality(Seen(file, next', {"good"}))
    <3>1. next' = next + 1 /\ next \in Nat
      BY <1>1
    <3>2. /\ obj'.total = obj.total + 1 /\ obj'.processed = obj.processed
          /\ obj'.failed = obj.failed + 1
      BY <1>4
    <3> HIDE DEF RejectRow, AtRow, Continue, KeepRest
    <3>3. next' - 1 = (next - 1) + 1
      BY <3>1
    <3>4. tx.state = "open"
            => obj'.total = next' - 1 /\ obj'.processed + obj'.failed = next' - 1
      BY <2>1, <2>3, <3>2, <3>3, <3>1
    <3>5. Seen(file, next', {"good"}) = Seen(file, next, {"good"})
      BY <2>2, <3>1
    <3> QED
      BY <2>1, <3>2, <3>4, <3>5
  <2> QED
    BY <1>1, <1>3, <2>1, <2>2, <2>4 DEF Tallied
<1>7. Listed'
  <2>0. /\ obj.errors \in Seq(Nat) /\ tx.errors \in Seq(Nat) /\ row.errors \in Seq(Nat)
        /\ Genuine(file, next, obj.errors) /\ Genuine(file, next, tx.errors)
        /\ Extends(obj.errors, row.errors) /\ file[next] \in Rejected /\ next \in Nat
    BY <1>1 DEF IInv, Listed, TypeOK, Rejected
  <2>1. Genuine(file, next + 1, obj'.errors) /\ Genuine(file, next + 1, tx.errors)
    BY <1>1, <1>4, <2>0, GenuineStays, GenuineGrows
  <2>2. Extends(obj'.errors, row.errors)
    BY <1>4, <2>0, ExtendsGrows
  <2>3. row.errors = <<>> /\ tx.state = "open" => FirstKept(file, next + 1, obj', tx)
    <3>1. SUFFICES ASSUME FirstKept(file, next, obj, tx)
                   PROVE  FirstKept(file, next + 1, obj', tx)
      BY <1>1 DEF IInv, Listed
    <3>2. obj.errors # <<>>
            => obj'.replaced \/ (tx.errors # <<>> /\ tx.errors[1] = obj.errors[1])
      BY <1>4, <3>1 DEF FirstKept
    <3> QED
      BY <1>1, <1>4, <2>0, <3>1, <3>2, FirstKeptGrows
  <2> QED
    BY <1>3, <2>1, <2>2, <2>3 DEF IInv, Listed
<1> QED
  BY <1>1, <1>3, <1>4, <1>5, <1>6, <1>7, ScanStep

LEMMA CountAmbiguousStep == IInv /\ CountAmbiguous => IInv'
<1> SUFFICES ASSUME IInv, CountAmbiguous PROVE IInv'
  OBVIOUS
<1> USE DEF CountAmbiguous, AtRow, Continue, KeepRest
<1>1. /\ TypeOK /\ file[next] = "ambiguous" /\ next \in Nat \ {0} /\ next <= Len(file)
      /\ obj \in SessionObjects /\ tx \in SessionTransactions
  BY DEF IInv, TypeOK, Row, SessionObjects, SessionTransactions
<1>2. Len(file) \in Nat
  BY <1>1, FileIsSequence
<1>3. /\ tx'.state = "open" /\ tx'.rows = tx.rows
      /\ tx'.errors = IF obj.replaced THEN obj.errors ELSE tx.errors
      /\ tx' \in SessionTransactions
  <2>1. tx' = Flushed(tx, Counted, {}) /\ tx.state = "open"
    OBVIOUS
  <2>2. tx.rows \cup {} = tx.rows /\ {} \in SUBSET Nat
    OBVIOUS
  <2> HIDE DEF CountAmbiguous, AtRow, Continue, KeepRest
  <2> QED
    BY <1>1, <2>1, <2>2, FlushedCounted
<1>4. /\ obj'.errors = obj.errors /\ ~obj'.replaced
      /\ obj'.total = obj.total + 1 /\ obj'.processed = obj.processed
      /\ obj'.failed = obj.failed + 1 /\ obj' \in SessionObjects
  <2>1. obj' = Clean([Counted EXCEPT !.failed = @ + 1])
    OBVIOUS
  <2> HIDE DEF CountAmbiguous, AtRow, Continue, KeepRest
  <2> QED
    BY <1>1, <2>1, CountedFailedClean
<1>5. refusals' \in 0 .. MaxRefusals
  BY <1>1 DEF TypeOK
<1>6. Tallied'
  <2>1. tx.state = "open" =>
          /\ tx.rows = Seen(file, next, {"good"})
          /\ obj.total = next - 1 /\ obj.processed + obj.failed = next - 1
          /\ obj.processed = Cardinality(Seen(file, next, {"good"}))
    BY <1>1 DEF IInv, Tallied
  <2>2. Seen(file, next + 1, {"good"}) = Seen(file, next, {"good"})
    BY <1>1, SeenGrows
  <2>3. obj.total \in Nat /\ obj.processed \in Nat /\ obj.failed \in Nat
    BY <1>1 DEF SessionObjects
  <2>4. tx.state = "open" =>
          /\ obj'.total = next' - 1 /\ obj'.processed + obj'.failed = next' - 1
          /\ obj'.processed = Cardinality(Seen(file, next', {"good"}))
    <3>1. next' = next + 1 /\ next \in Nat
      BY <1>1
    <3>2. /\ obj'.total = obj.total + 1 /\ obj'.processed = obj.processed
          /\ obj'.failed = obj.failed + 1
      BY <1>4
    <3> HIDE DEF CountAmbiguous, AtRow, Continue, KeepRest
    <3>3. next' - 1 = (next - 1) + 1
      BY <3>1
    <3>4. tx.state = "open"
            => obj'.total = next' - 1 /\ obj'.processed + obj'.failed = next' - 1
      BY <2>1, <2>3, <3>2, <3>3, <3>1
    <3>5. Seen(file, next', {"good"}) = Seen(file, next, {"good"})
      BY <2>2, <3>1
    <3> QED
      BY <2>1, <3>2, <3>4, <3>5
  <2> QED
    BY <1>1, <1>3, <2>1, <2>2, <2>4 DEF Tallied
<1>7. Listed'
  <2>1. Seen(file, next + 1, Rejected) = Seen(file, next, Rejected)
    BY <1>1, SeenGrows DEF Rejected
  <2>2. Genuine(file, next + 1, obj.errors) /\ Genuine(file, next + 1, tx.errors)
    BY <1>1, GenuineStays DEF IInv, Listed, TypeOK
  <2>3. row.errors = <<>> => FirstKept(file, next + 1, obj', tx')
    BY <1>3, <1>4, <2>1 DEF IInv, Listed, FirstKept
  <2> QED
    BY <1>3, <1>4, <2>2, <2>3 DEF IInv, Listed
<1> QED
  BY <1>1, <1>3, <1>4, <1>5, <1>6, <1>7, ScanStep

LEMMA RejectUnknownStep == IInv /\ RejectUnknown => IInv'
<1> SUFFICES ASSUME IInv, RejectUnknown PROVE IInv'
  OBVIOUS
<1> USE DEF RejectUnknown, AtRow, Continue, KeepRest
<1>1. /\ TypeOK /\ file[next] = "unknown" /\ next \in Nat \ {0} /\ next <= Len(file)
      /\ obj \in SessionObjects /\ tx \in SessionTransactions
  BY DEF IInv, TypeOK, Row, SessionObjects, SessionTransactions
<1>2. Len(file) \in Nat
  BY <1>1, FileIsSequence
<1>3. /\ tx'.state = "open" /\ tx'.rows = tx.rows
      /\ tx'.errors = IF obj.replaced THEN obj.errors ELSE tx.errors
      /\ tx' \in SessionTransactions
  <2>1. tx' = Flushed(tx, Counted, {}) /\ tx.state = "open"
    OBVIOUS
  <2>2. tx.rows \cup {} = tx.rows /\ {} \in SUBSET Nat
    OBVIOUS
  <2> HIDE DEF RejectUnknown, AtRow, Continue, KeepRest
  <2> QED
    BY <1>1, <2>1, <2>2, FlushedCounted
<1>4. /\ obj'.errors = Append(obj.errors, next)
      /\ obj.errors = <<>> => obj'.replaced
      /\ obj'.total = obj.total + 1 /\ obj'.processed = obj.processed
      /\ obj'.failed = obj.failed + 1 /\ obj' \in SessionObjects
  <2> DEFINE counted == Clean([Counted EXCEPT !.failed = @ + 1])
  <2>1. /\ counted \in SessionObjects /\ counted.total = obj.total + 1
        /\ counted.processed = obj.processed /\ counted.failed = obj.failed + 1
        /\ counted.errors = obj.errors /\ ~counted.replaced
    BY <1>1, CountedFailedClean
  <2>2. obj' = AppendError(counted, next) /\ next \in Nat
    BY <1>1
  <2> HIDE DEF counted
  <2>3. /\ obj'.errors = Append(counted.errors, next)
        /\ counted.errors = <<>> => obj'.replaced
        /\ obj'.total = counted.total /\ obj'.processed = counted.processed
        /\ obj'.failed = counted.failed /\ obj' \in SessionObjects
    <3> DEFINE appended == AppendError(counted, next)
    <3>1. /\ appended.errors = Append(counted.errors, next)
          /\ counted.errors = <<>> => appended.replaced
          /\ appended.total = counted.total /\ appended.processed = counted.processed
          /\ appended.failed = counted.failed /\ appended \in SessionObjects
      BY <2>1, <2>2, Appended
    <3> HIDE DEF appended
    <3> QED
      BY <2>2, <3>1 DEF appended
  <2> QED
    BY <2>1, <2>3
<1>5. refusals' \in 0 .. MaxRefusals
  BY <1>1 DEF TypeOK
<1>6. Tallied'
  <2>1. tx.state = "open" =>
          /\ tx.rows = Seen(file, next, {"good"})
          /\ obj.total = next - 1 /\ obj.processed + obj.failed = next - 1
          /\ obj.processed = Cardinality(Seen(file, next, {"good"}))
    BY <1>1 DEF IInv, Tallied
  <2>2. Seen(file, next + 1, {"good"}) = Seen(file, next, {"good"})
    BY <1>1, SeenGrows
  <2>3. obj.total \in Nat /\ obj.processed \in Nat /\ obj.failed \in Nat
    BY <1>1 DEF SessionObjects
  <2>4. tx.state = "open" =>
          /\ obj'.total = next' - 1 /\ obj'.processed + obj'.failed = next' - 1
          /\ obj'.processed = Cardinality(Seen(file, next', {"good"}))
    <3>1. next' = next + 1 /\ next \in Nat
      BY <1>1
    <3>2. /\ obj'.total = obj.total + 1 /\ obj'.processed = obj.processed
          /\ obj'.failed = obj.failed + 1
      BY <1>4
    <3> HIDE DEF RejectUnknown, AtRow, Continue, KeepRest
    <3>3. next' - 1 = (next - 1) + 1
      BY <3>1
    <3>4. tx.state = "open"
            => obj'.total = next' - 1 /\ obj'.processed + obj'.failed = next' - 1
      BY <2>1, <2>3, <3>2, <3>3, <3>1
    <3>5. Seen(file, next', {"good"}) = Seen(file, next, {"good"})
      BY <2>2, <3>1
    <3> QED
      BY <2>1, <3>2, <3>4, <3>5
  <2> QED
    BY <1>1, <1>3, <2>1, <2>2, <2>4 DEF Tallied
<1>7. Listed'
  <2>0. /\ obj.errors \in Seq(Nat) /\ tx.errors \in Seq(Nat) /\ row.errors \in Seq(Nat)
        /\ Genuine(file, next, obj.errors) /\ Genuine(file, next, tx.errors)
        /\ Extends(obj.errors, row.errors) /\ file[next] \in Rejected /\ next \in Nat
    BY <1>1 DEF IInv, Listed, TypeOK, Rejected
  <2>1. Genuine(file, next + 1, obj'.errors) /\ Genuine(file, next + 1, tx.errors)
    BY <1>1, <1>4, <2>0, GenuineStays, GenuineGrows
  <2>2. Extends(obj'.errors, row.errors)
    BY <1>4, <2>0, ExtendsGrows
  <2>3. row.errors = <<>> => FirstKept(file, next + 1, obj', tx')
    <3>1. SUFFICES ASSUME FirstKept(file, next, obj, tx)
                   PROVE  FirstKept(file, next + 1, obj', tx')
      BY <1>1 DEF IInv, Listed
    <3>2. obj.errors # <<>> => tx'.errors # <<>> /\ tx'.errors[1] = obj.errors[1]
      BY <1>3, <3>1 DEF FirstKept
    <3> QED
      BY <1>1, <1>4, <2>0, <3>1, <3>2, FirstKeptGrows
  <2>4. Genuine(file, next + 1, tx'.errors) /\ Extends(tx'.errors, row.errors)
    BY <1>1, <1>3, <2>0, GenuineStays DEF IInv, Listed
  <2> QED
    BY <1>3, <2>1, <2>2, <2>3, <2>4 DEF IInv, Listed
<1> QED
  BY <1>1, <1>3, <1>4, <1>5, <1>6, <1>7, ScanStep

(* A row counted as failed in an aborted transaction: what it has written  *)
(* no longer matters.                                                      *)
LEMMA AbortedRow ==
  ASSUME IInv, pc = "rows", next <= Len(file), Continue, KeepRest,
         obj' = [Counted EXCEPT !.failed = @ + 1], tx' = [tx EXCEPT !.state = "aborted"],
         refusals' \in 0 .. MaxRefusals
  PROVE  IInv'
<1> USE DEF Continue, KeepRest
<1>1. /\ next \in Nat \ {0} /\ obj \in SessionObjects /\ tx \in SessionTransactions
      /\ obj.errors \in Seq(Nat) /\ tx.errors \in Seq(Nat)
  BY DEF IInv, TypeOK, SessionObjects, SessionTransactions
<1>2. tx'.state = "aborted" /\ tx'.errors = tx.errors /\ tx' \in SessionTransactions
  BY <1>1 DEF SessionTransactions
<1>3. obj'.errors = obj.errors /\ obj' \in SessionObjects
  BY <1>1, CountedFailed
<1>4. Tallied'
  BY <1>2 DEF Tallied
<1>5. Listed'
  BY <1>1, <1>2, <1>3, GenuineStays DEF IInv, Listed
<1> QED
  BY <1>1, <1>2, <1>3, <1>4, <1>5, ScanStep

(* A step that ends the loop with an exception: all will be rolled back. *)
LEMMA Raises ==
  ASSUME IInv, pc = "rows", pc' = "failing", KeepRest, UNCHANGED <<obj, next>>,
         tx' = tx \/ tx' = [tx EXCEPT !.state = "expired"], refusals' \in 0 .. MaxRefusals
  PROVE  IInv'
<1> USE DEF KeepRest
<1>1. obj \in SessionObjects /\ tx' \in SessionTransactions
  BY DEF IInv, TypeOK, SessionObjects, SessionTransactions
<1>2. Tallied' /\ Listed'
  BY DEF Tallied, Listed
<1> QED
  BY <1>1, <1>2, ScanStep

LEMMA RefusalsBounded ==
  ASSUME TypeOK, refusals' = refusals \/ (refusals < MaxRefusals /\ refusals' = refusals + 1)
  PROVE  refusals' \in 0 .. MaxRefusals
BY RowsAssumption DEF TypeOK

LEMMA RefusedSteps ==
  IInv /\ (StatementRefused \/ FlushRefused \/ StatementAfterAbort \/ ConnectorRaises
             \/ CommitRefused) => IInv'
<1> SUFFICES ASSUME IInv,
                    StatementRefused \/ FlushRefused \/ StatementAfterAbort \/ ConnectorRaises
                      \/ CommitRefused
             PROVE  IInv'
  OBVIOUS
<1>1. TypeOK
  BY DEF IInv
<1>2. ASSUME StatementRefused PROVE IInv'
  BY <1>1, <1>2, AbortedRow, RefusalsBounded DEF StatementRefused, AtRow
<1>3. ASSUME FlushRefused PROVE IInv'
  BY <1>1, <1>3, Raises, RefusalsBounded DEF FlushRefused, AtRow
<1>4. ASSUME StatementAfterAbort PROVE IInv'
  <2>1. pc = "rows" /\ next <= Len(file) /\ KeepRest /\ refusals' \in 0 .. MaxRefusals
    BY <1>1, <1>4, RefusalsBounded DEF StatementAfterAbort, AtRow
  <2>2. CASE obj' = [Counted EXCEPT !.failed = @ + 1] /\ Continue /\ UNCHANGED tx
    <3>1. tx = [tx EXCEPT !.state = "aborted"]
      BY <1>1, <1>4 DEF StatementAfterAbort, TypeOK
    <3> QED
      BY <2>1, <2>2, <3>1, AbortedRow
  <2>3. CASE tx' = [tx EXCEPT !.state = "expired"] /\ pc' = "failing" /\ UNCHANGED <<obj, next>>
    BY <2>1, <2>3, Raises
  <2> QED
    BY <1>4, <2>2, <2>3 DEF StatementAfterAbort
<1>5. ASSUME ConnectorRaises PROVE IInv'
  BY <1>1, <1>5, Raises, RefusalsBounded DEF ConnectorRaises, AtRow
<1>6. ASSUME CommitRefused PROVE IInv'
  BY <1>1, <1>6, Raises, RefusalsBounded DEF CommitRefused, KeepRest
<1> QED
  BY <1>2, <1>3, <1>4, <1>5, <1>6

-----------------------------------------------------------------------------
(* The whole file has been read. *)

LEMMA AllSeen ==
  ASSUME Len(file) \in Nat, NEW kinds
  PROVE  RowsOf(kinds) = Seen(file, Len(file) + 1, kinds)
<1>1. (Len(file) + 1) - 1 = Len(file)
  OBVIOUS
<1> QED
  BY <1>1 DEF RowsOf, Seen

LEMMA CommitStep == IInv /\ Commit => IInv'
<1> SUFFICES ASSUME IInv, Commit PROVE IInv'
  OBVIOUS
<1> USE DEF Commit
<1>1. /\ TypeOK /\ next \in Nat \ {0} /\ Len(file) \in Nat /\ next = Len(file) + 1
      /\ obj \in SessionObjects /\ tx \in SessionTransactions
  <2>1. TypeOK /\ InFile
    BY DEF IInv
  <2> QED
    <3>1. next \in Nat \ {0} /\ Len(file) \in Nat /\ next > Len(file)
          /\ next <= Len(file) + 1
      BY <2>1, FileIsSequence DEF InFile, TypeOK
    <3>2. obj \in SessionObjects /\ tx \in SessionTransactions
      BY <2>1 DEF TypeOK, SessionObjects, SessionTransactions
    <3> QED
      BY <2>1, <3>1, <3>2
<1>2. \A kinds : RowsOf(kinds) = Seen(file, next, kinds)
  BY <1>1, AllSeen
<1>3. /\ tx.rows = Seen(file, next, {"good"})
      /\ obj.total = next - 1 /\ obj.processed + obj.failed = next - 1
      /\ obj.processed = Cardinality(Seen(file, next, {"good"}))
      /\ stored = {}
  BY DEF IInv, Tallied, Uncommitted
<1> DEFINE reported == FlushedErrors(tx, obj)
<1>4. reported \in Seq(Nat) /\ Genuine(file, next, reported)
      /\ (row.errors = <<>> => IF Seen(file, next, Rejected) = {} THEN TRUE
            ELSE reported # <<>> /\ \A i \in Seen(file, next, Rejected) : reported[1] <= i)
  BY <1>1 DEF IInv, Listed, FirstKept, FlushedErrors, SessionObjects, SessionTransactions
<1>5. /\ row'.status = "COMPLETED" /\ row'.total = obj.total /\ row'.processed = obj.processed
      /\ row'.failed = obj.failed /\ row'.errors = reported
  OBVIOUS
<1> HIDE DEF reported
<1>6. stored' = Seen(file, next, {"good"})
  BY <1>3
<1>7. TypeOK'
  <2>1. row' \in [status : {"PENDING", "RUNNING", "COMPLETED", "FAILED"}, total : Nat,
                  processed : Nat, failed : Nat, errors : Seq(Nat)]
    BY <1>1, <1>4 DEF SessionObjects, reported
  <2>2. stored' \subseteq Nat
    BY <1>1, <1>6 DEF Seen
  <2> QED
    BY <1>1, <2>1, <2>2 DEF TypeOK
<1>8. AllOrNothing'
  BY <1>1, <1>2, <1>3, <1>5, <1>6 DEF AllOrNothing, RowsOf
<1>9. ErrorsAreGenuine'
  <2>1. RowsOf(Rejected)' = Seen(file, next, Rejected)
    BY <1>2 DEF RowsOf
  <2> QED
    BY <1>4, <1>5, <2>1 DEF ErrorsAreGenuine, Genuine, Rejected
<1>10. FirstErrorReported'
  <2>1. RowsOf(Rejected)' = Seen(file, next, Rejected)
    BY <1>2 DEF RowsOf
  <2>2. retries' = 0 => row.errors = <<>>
    BY DEF IInv, FirstAttempt
  <2> QED
    BY <1>4, <1>5, <2>1, <2>2 DEF FirstErrorReported, Rejected
<1>11. InFile' /\ Uncommitted' /\ FirstAttempt' /\ Tallied' /\ Listed'
  BY <1>5 DEF IInv, InFile, Uncommitted, FirstAttempt, Tallied, Listed
<1> QED
  BY <1>7, <1>8, <1>9, <1>10, <1>11 DEF IInv, Report

-----------------------------------------------------------------------------
(* From one attempt to the next. *)

(* Before the commit nothing is reported, so that every report is true. *)
LEMMA NothingReported ==
  ASSUME NEW r, r.errors \in {<<>>, <<FatalEntry>>}
  PROVE  /\ \A k \in 1 .. Len(r.errors) : k = 1 /\ r.errors[k] = FatalEntry
         /\ \A k \in 2 .. Len(r.errors) : r.errors[k-1] < r.errors[k]
<1>1. CASE r.errors = <<>>
  <2>1. Len(r.errors) = 0
    BY <1>1
  <2> QED
    BY <2>1
<1>2. CASE r.errors = <<FatalEntry>>
  <2>1. Len(r.errors) = 1 /\ r.errors[1] = FatalEntry
    BY <1>2
  <2> QED
    BY <2>1
<1> QED
  BY <1>1, <1>2

LEMMA BeginStep == IInv /\ Begin => IInv'
<1> SUFFICES ASSUME IInv, Begin PROVE IInv'
  OBVIOUS
<1> USE DEF Begin
<1>1. TypeOK /\ Len(file) \in Nat /\ Uncommitted /\ row.status # "COMPLETED"
  BY FileIsSequence DEF IInv, Uncommitted
<1>2. /\ row'.status = "RUNNING" /\ row'.total = 0 /\ row'.processed = 0 /\ row'.failed = 0
      /\ row'.errors = row.errors /\ row.errors \in {<<>>, <<FatalEntry>>} /\ stored = {}
      /\ row.total = 0 /\ row.processed = 0 /\ row.failed = 0
  BY <1>1 DEF Uncommitted, TypeOK
<1>3. /\ obj'.errors = row.errors /\ ~obj'.replaced /\ obj'.total = 0 /\ obj'.processed = 0
      /\ obj'.failed = 0 /\ tx'.state = "open" /\ tx'.errors = row.errors /\ tx'.rows = {}
  BY <1>2 DEF LoadedFrom, NewTransaction
<1>4. TypeOK'
  <2>1. obj' \in SessionObjects /\ tx' \in SessionTransactions
    BY <1>1 DEF LoadedFrom, NewTransaction, TypeOK, SessionObjects, SessionTransactions
  <2>2. row' \in [status : {"PENDING", "RUNNING", "COMPLETED", "FAILED"}, total : Nat,
                  processed : Nat, failed : Nat, errors : Seq(Nat)]
    BY <1>1 DEF TypeOK
  <2>3. /\ file' \in Files /\ stored' \subseteq Nat /\ pc' = "rows" /\ next' = 1
        /\ retries' \in 0 .. MaxRetries /\ refusals' \in 0 .. MaxRefusals
    BY <1>1 DEF TypeOK
  <2> HIDE DEF Begin
  <2> QED
    BY <2>1, <2>2, <2>3 DEF TypeOK, SessionObjects, SessionTransactions
<1>5. Uncommitted'
  BY <1>2 DEF Uncommitted
<1>6. FirstAttempt' /\ InFile'
  BY <1>1, <1>2 DEF IInv, FirstAttempt, InFile
<1>7. Tallied'
  <2>1. \A kinds : Seen(file, 1, kinds) = {}
    BY DEF Seen
  <2> QED
    BY <1>3, <2>1, FS_EmptySet DEF Tallied
<1>8. Listed'
  <2>1. Seen(file, 1, Rejected) = {}
    BY DEF Seen
  <2>2. Genuine(file, 1, row.errors) /\ Extends(row.errors, row.errors)
    <3>1. row.errors \in Seq(Nat)
      BY <1>1 DEF TypeOK
    <3> QED
      BY <1>1, <1>2, <3>1, NothingReported DEF Genuine, Extends
  <2>3. row.errors = <<>> => FirstKept(file, 1, obj', tx')
    BY <1>3, <2>1 DEF FirstKept
  <2> QED
    BY <1>2, <1>3, <2>2, <2>3 DEF Listed
<1>9. Report'
  BY <1>2, NothingReported
  DEF Report, AllOrNothing, ErrorsAreGenuine, FirstErrorReported
<1> QED
  BY <1>4, <1>5, <1>6, <1>7, <1>8, <1>9 DEF IInv

LEMMA MarkFailedStep == IInv /\ MarkFailed => IInv'
<1> SUFFICES ASSUME IInv, MarkFailed PROVE IInv'
  OBVIOUS
<1> DEFINE o == AppendError(LoadedFrom(row), FatalEntry)
           t == NewTransaction(row)
<1>1. /\ TypeOK /\ pc = "failing" /\ pc' = "raised"
      /\ row' = [row EXCEPT !.status = "FAILED", !.errors = FlushedErrors(t, o)]
      /\ obj' = Clean(o) /\ tx' = t /\ UNCHANGED <<file, stored, next, retries, refusals>>
  BY DEF IInv, MarkFailed
<1>2. row.status # "COMPLETED" /\ row.errors \in {<<>>, <<FatalEntry>>} /\ stored = {}
      /\ row.total = 0 /\ row.processed = 0 /\ row.failed = 0
  BY <1>1 DEF IInv, Uncommitted
<1>3. /\ LoadedFrom(row) \in SessionObjects /\ LoadedFrom(row).errors = row.errors
      /\ ~LoadedFrom(row).replaced /\ t \in SessionTransactions /\ t.errors = row.errors
  BY <1>1 DEF TypeOK, LoadedFrom, NewTransaction, SessionObjects, SessionTransactions
<1>4. o \in SessionObjects /\ o.errors = Append(row.errors, FatalEntry)
      /\ (row.errors = <<>> => o.replaced) /\ (row.errors # <<>> => ~o.replaced)
  <2>1. FatalEntry \in Nat
    BY DEF FatalEntry
  <2> DEFINE l == LoadedFrom(row)
  <2>2. l \in SessionObjects
    BY <1>3
  <2>3. /\ AppendError(l, FatalEntry) \in SessionObjects
        /\ AppendError(l, FatalEntry).errors = Append(l.errors, FatalEntry)
        /\ l.errors = <<>> => AppendError(l, FatalEntry).replaced
        /\ l.errors # <<>> => AppendError(l, FatalEntry).replaced = l.replaced
    <3> HIDE DEF l
    <3> QED
      BY <2>1, <2>2, Appended
  <2> QED
    BY <1>3, <2>3
<1>5. FlushedErrors(t, o) = <<FatalEntry>>
  <2>1. Append(<<>>, FatalEntry) = <<FatalEntry>>
    BY DEF FatalEntry
  <2> QED
    BY <1>2, <1>3, <1>4, <2>1 DEF FlushedErrors
<1> HIDE DEF o, t
<1>6. /\ row'.status = "FAILED" /\ row'.errors = <<FatalEntry>> /\ row'.total = 0
      /\ row'.processed = 0 /\ row'.failed = 0
  BY <1>1, <1>2, <1>5 DEF TypeOK
<1>7. TypeOK'
  <2>1. obj' \in SessionObjects /\ tx' \in SessionTransactions
    BY <1>1, <1>3, <1>4, CleanIs
  <2>2. row' \in [status : {"PENDING", "RUNNING", "COMPLETED", "FAILED"}, total : Nat,
                  processed : Nat, failed : Nat, errors : Seq(Nat)]
    <3>1. <<FatalEntry>> \in Seq(Nat)
      BY DEF FatalEntry
    <3> QED
      BY <1>1, <1>5, <3>1 DEF TypeOK
  <2> QED
    BY <1>1, <2>1, <2>2 DEF TypeOK, SessionObjects, SessionTransactions
<1>8. InFile' /\ Uncommitted' /\ FirstAttempt' /\ Tallied' /\ Listed'
  BY <1>1, <1>2, <1>6 DEF IInv, InFile, Uncommitted, FirstAttempt, Tallied, Listed
<1>9. Report'
  <2>1. ErrorsAreGenuine'
    <3>1. Len(row'.errors) = 1 /\ row'.errors[1] = FatalEntry
      BY <1>6
    <3> QED
      BY <3>1 DEF ErrorsAreGenuine
  <2> QED
    BY <1>1, <1>2, <1>6, <2>1
    DEF Report, AllOrNothing, FirstErrorReported
<1> QED
  BY <1>7, <1>8, <1>9 DEF IInv

LEMMA EndStep == IInv /\ (Retry \/ GiveUp) => IInv'
<1> SUFFICES ASSUME IInv, Retry \/ GiveUp PROVE IInv'
  OBVIOUS
<1>1. /\ TypeOK /\ pc = "raised" /\ pc' \in {"begin", "done"}
      /\ UNCHANGED <<file, row, stored, obj, tx, next, refusals>>
      /\ row.status # "COMPLETED"
  BY DEF IInv, Uncommitted, Retry, GiveUp
<1>2. retries' \in 0 .. MaxRetries /\ (pc' = "begin" => retries' # 0)
  BY <1>1, RowsAssumption DEF TypeOK, Retry, GiveUp
<1>3. TypeOK'
  BY <1>1, <1>2 DEF TypeOK
<1>4. InFile' /\ Uncommitted' /\ FirstAttempt' /\ Tallied' /\ Listed'
  BY <1>1, <1>2 DEF IInv, InFile, Uncommitted, FirstAttempt, Tallied, Listed
<1>5. Report'
  BY <1>1 DEF IInv, Report, AllOrNothing, ErrorsAreGenuine, FirstErrorReported, RowsOf
<1> QED
  BY <1>3, <1>4, <1>5 DEF IInv

LEMMA Invariant == Spec => []IInv
<1>1. Init => IInv
  BY Initially
<1>2. IInv /\ [Next]_vars => IInv'
  <2>1. ASSUME IInv, Next PROVE IInv'
    BY <2>1, BeginStep, StoreRowStep, RejectRowStep, RejectUnknownStep, CountAmbiguousStep,
       RefusedSteps, CommitStep, MarkFailedStep, EndStep DEF Next
  <2>2. ASSUME IInv, UNCHANGED vars PROVE IInv'
    <3>1. UNCHANGED <<file, row, stored, obj, tx, pc, next, retries, refusals>>
      BY <2>2 DEF vars
    <3>2. TypeOK' /\ InFile'
      BY <2>2, <3>1 DEF IInv, TypeOK, InFile
    <3>3. Uncommitted' /\ FirstAttempt'
      BY <2>2, <3>1 DEF IInv, Uncommitted, FirstAttempt
    <3>4. Tallied'
      BY <2>2, <3>1 DEF IInv, Tallied
    <3>5. Listed'
      BY <2>2, <3>1 DEF IInv, Listed
    <3>6. AllOrNothing' /\ FirstErrorReported'
      BY <2>2, <3>1 DEF IInv, Report, AllOrNothing, FirstErrorReported, RowsOf
    <3>7. ErrorsAreGenuine'
      BY <2>2, <3>1 DEF IInv, Report, ErrorsAreGenuine, RowsOf
    <3> QED
      BY <3>2, <3>3, <3>4, <3>5, <3>6, <3>7 DEF IInv, Report
  <2> QED
    BY <2>1, <2>2
<1> QED
  BY <1>1, <1>2, PTL DEF Spec

-----------------------------------------------------------------------------
(* The session, the transaction and the committed row are well typed.      *)
THEOREM TypeCorrect == Spec => []TypeOK
BY Invariant, PTL DEF IInv

(* A COMPLETED job has stored and counted its file exactly; any other has  *)
(* stored nothing.                                                         *)
THEOREM AllOrNothingHolds == Spec => []AllOrNothing
BY Invariant, PTL DEF IInv, Report

(* Every row error shown names a rejected row, once and in file order.     *)
THEOREM ErrorsAreGenuineHolds == Spec => []ErrorsAreGenuine
BY Invariant, PTL DEF IInv, Report

(* The first rejected row of a job that completes at once is reported.     *)
THEOREM FirstErrorReportedHolds == Spec => []FirstErrorReported
BY Invariant, PTL DEF IInv, Report

(* No retry drops or rewrites an error that has been committed.            *)
THEOREM EntriesKeptHolds == Spec => EntriesKept
<1>1. ASSUME IInv, IInv', [Next]_vars
      PROVE  [Extends(row'.errors, row.errors)]_row
  <2>1. SUFFICES ASSUME Next, row' # row PROVE Extends(row'.errors, row.errors)
    BY <1>1 DEF vars
  <2>2. row.errors \in Seq(Nat)
    BY <1>1 DEF IInv, TypeOK
  <2>3. CASE Begin
    BY <1>1, <2>2, <2>3 DEF Begin, IInv, TypeOK, Extends
  <2>4. CASE Commit
    <3>1. row'.errors \in {obj.errors, tx.errors}
      BY <2>4 DEF Commit, FlushedErrors
    <3> QED
      BY <1>1, <2>4, <3>1 DEF Commit, IInv, Listed
  <2>5. CASE MarkFailed
    <3>1. row.errors \in {<<>>, <<FatalEntry>>} /\ row'.errors \in {<<>>, <<FatalEntry>>}
      BY <1>1, <2>5 DEF MarkFailed, IInv, Uncommitted
    <3>2. row'.errors = <<FatalEntry>> \/ row'.errors = row.errors
      BY <2>5, <3>1
      DEF MarkFailed, FlushedErrors, AppendError, LoadedFrom, NewTransaction
    <3> QED
      BY <2>2, <3>1, <3>2 DEF Extends
  <2> QED
    BY <2>1, <2>3, <2>4, <2>5
    DEF Next, StoreRow, RejectRow, RejectUnknown, CountAmbiguous, StatementRefused,
        FlushRefused, StatementAfterAbort, ConnectorRaises, CommitRefused, Retry, GiveUp, KeepRest
<1> QED
  BY <1>1, Invariant, PTL DEF Spec, EntriesKept, Extends

-----------------------------------------------------------------------------
(* What fails a job. *)

Uncounted == {"refused", "garbled"}

Cause == refusals > 0 \/ RowsOf(Uncounted) # {}

(* Wherever the import has gone wrong there is a cause. *)
CauseKnown ==
  pc \in {"failing", "raised"} \/ (pc = "rows" /\ tx.state # "open")
    \/ row.status = "FAILED" \/ retries > 0 => Cause

(* The row in hand is one of the file's. *)
LEMMA RowInHand ==
  ASSUME TypeOK, NEW kinds, next <= Len(file), Row \in kinds
  PROVE  next \in RowsOf(kinds)
BY FileIsSequence DEF Row, RowsOf, TypeOK

LEMMA CauseStep ==
  ASSUME TypeOK, CauseKnown, Next
  PROVE  CauseKnown'
<1>1. file' = file /\ refusals \in Nat /\ refusals' \in Nat /\ refusals' >= refusals
  BY DEF TypeOK, Next, Begin, StoreRow, RejectRow, RejectUnknown, CountAmbiguous,
         StatementRefused, FlushRefused, StatementAfterAbort, ConnectorRaises, Commit,
         CommitRefused, MarkFailed, Retry, GiveUp, KeepRest
<1>2. Cause => Cause'
  BY <1>1 DEF Cause, RowsOf
<1>3. CASE StatementRefused \/ FlushRefused
  <2>1. next <= Len(file) /\ (Row = "refused" \/ refusals' = refusals + 1)
    BY <1>3 DEF StatementRefused, FlushRefused, AtRow
  <2>2. CASE Row = "refused"
    BY <1>2, <2>1, <2>2, RowInHand DEF Cause, Uncounted, CauseKnown
  <2>3. CASE refusals' = refusals + 1
    BY <1>1, <2>3 DEF Cause, CauseKnown
  <2> QED
    BY <2>1, <2>2, <2>3
<1>4. CASE ConnectorRaises
  BY <1>2, <1>4, RowInHand DEF ConnectorRaises, AtRow, Cause, Uncounted, CauseKnown
<1>5. CASE Begin \/ Commit
  <2>1. row'.status # "FAILED" /\ retries' = retries
    BY <1>5 DEF Begin, Commit, TypeOK
  <2>2. pc' = "done" \/ (pc' = "rows" /\ tx'.state = "open")
    BY <1>5 DEF Begin, Commit, NewTransaction
  <2> QED
    BY <1>2, <2>1, <2>2 DEF CauseKnown
<1>6. CASE CommitRefused \/ MarkFailed \/ Retry \/ GiveUp
  <2>1. Cause \/ refusals' = refusals + 1
    BY <1>6 DEF CommitRefused, MarkFailed, Retry, GiveUp, CauseKnown
  <2>2. Cause'
    BY <1>1, <1>2, <2>1 DEF Cause
  <2> QED
    BY <2>2 DEF CauseKnown
<1>7. CASE StoreRow \/ RejectRow \/ RejectUnknown \/ CountAmbiguous \/ StatementAfterAbort
  <2>1. row' = row /\ retries' = retries /\ pc = "rows"
    BY <1>7
    DEF StoreRow, RejectRow, RejectUnknown, CountAmbiguous, StatementAfterAbort, AtRow, KeepRest
  <2>2. tx'.state = tx.state \/ tx.state = "aborted"
    BY <1>7 DEF StoreRow, RejectRow, RejectUnknown, CountAmbiguous, StatementAfterAbort, Flushed,
                TypeOK
  <2>3. pc' = "rows" \/ tx.state = "aborted"
    BY <1>7
    DEF StoreRow, RejectRow, RejectUnknown, CountAmbiguous, StatementAfterAbort, Continue
  <2> QED
    BY <1>2, <2>1, <2>2, <2>3 DEF CauseKnown
<1> QED
  BY <1>3, <1>4, <1>5, <1>6, <1>7 DEF Next

(* The positive side of BadRowIsNotFatal: rows that the code itself        *)
(* rejects never fail a job nor cost it a retry, in a file of any length.  *)
THEOREM OnlyRefusalsFail == Spec => []FailureHasCause
<1>1. Init => CauseKnown
  BY DEF Init, CauseKnown, NewRow, NewTransaction
<1>2. TypeOK /\ CauseKnown /\ [Next]_vars => CauseKnown'
  <2>1. ASSUME CauseKnown, UNCHANGED vars PROVE CauseKnown'
    BY <2>1 DEF vars, CauseKnown, Cause, RowsOf
  <2> QED
    BY <2>1, CauseStep
<1>3. CauseKnown => FailureHasCause
  BY DEF CauseKnown, Cause, Uncounted, FailureHasCause
<1> QED
  BY <1>1, <1>2, <1>3, TypeCorrect, PTL DEF Spec

-----------------------------------------------------------------------------
(* What the import lets a client see is what ImportJob promises. *)

Promise == INSTANCE ImportJob WITH
  Jobs <- {1},
  status <- [j \in {1} |-> row.status],
  file <- [j \in {1} |-> TRUE],
  imported <- [j \in {1} |-> row.status = "COMPLETED" /\ stored = RowsOf({"good"})],
  attempts <- [j \in {1} |-> retries + 1],
  undisturbed <- TRUE

(* The committed status is the one process_sync has got to. *)
InStep ==
  /\ pc = "begin" => row.status \in {"PENDING", "FAILED"}
  /\ pc \in {"rows", "failing"} => row.status = "RUNNING"
  /\ pc = "raised" => row.status = "FAILED"

LEMMA InStepInvariant == Spec => []InStep
<1>1. Init => InStep
  BY DEF Init, InStep, NewRow
<1>2. TypeOK /\ InStep /\ [Next]_vars => InStep'
  <2> SUFFICES ASSUME TypeOK, InStep, [Next]_vars PROVE InStep'
    OBVIOUS
  <2>1. CASE Begin \/ Commit \/ MarkFailed
    BY <2>1 DEF InStep, Begin, Commit, MarkFailed, TypeOK
  <2>2. CASE UNCHANGED vars \/ Retry \/ GiveUp
    BY <2>2 DEF InStep, vars, Retry, GiveUp
  <2>3. CASE \/ StoreRow \/ RejectRow \/ RejectUnknown \/ CountAmbiguous \/ CommitRefused
             \/ StatementRefused \/ FlushRefused \/ StatementAfterAbort \/ ConnectorRaises
    <3>1. row' = row /\ pc = "rows" /\ pc' \in {"rows", "failing"}
      BY <2>3
      DEF StoreRow, RejectRow, RejectUnknown, CountAmbiguous, StatementRefused, FlushRefused,
          StatementAfterAbort, ConnectorRaises, CommitRefused, AtRow, Continue, KeepRest
    <3> QED
      BY <3>1 DEF InStep
  <2> QED
    BY <2>1, <2>2, <2>3 DEF Next
<1> QED
  BY <1>1, <1>2, TypeCorrect, PTL DEF Spec

LEMMA PromiseStep ==
  ASSUME IInv, IInv', InStep, [Next]_vars
  PROVE  [Promise!Next]_(Promise!vars)
<1>1. TypeOK /\ AllOrNothing /\ TypeOK' /\ AllOrNothing'
  BY DEF IInv, Report
<1>2. CASE Begin
  <2>1. /\ row.status \in {"PENDING", "FAILED"} /\ row'.status = "RUNNING"
        /\ retries' = retries /\ retries \in Nat
    BY <1>1, <1>2, RowsAssumption DEF Begin, InStep, TypeOK
  <2>2. Promise!Start(1)
    BY <2>1 DEF Promise!Start
  <2> QED
    BY <2>2 DEF Promise!Next, Promise!Progress
<1>3. CASE Commit
  <2>1. /\ row.status = "RUNNING" /\ row'.status = "COMPLETED" /\ retries' = retries
        /\ stored' = RowsOf({"good"})'
    BY <1>1, <1>3 DEF Commit, InStep, AllOrNothing
  <2>2. Promise!Succeed(1)
    BY <2>1 DEF Promise!Succeed
  <2> QED
    BY <2>2 DEF Promise!Next, Promise!Progress
<1>4. CASE MarkFailed
  <2>1. row.status = "RUNNING" /\ row'.status = "FAILED" /\ retries' = retries
    BY <1>1, <1>4 DEF MarkFailed, InStep, TypeOK
  <2>2. Promise!Fail(1)
    BY <2>1 DEF Promise!Fail
  <2> QED
    BY <2>2 DEF Promise!Next, Promise!Progress
<1>5. CASE Retry
  <2>1. /\ row.status = "FAILED" /\ row' = row /\ retries' = retries + 1
        /\ retries \in Nat /\ MaxRetries \in Nat /\ retries + 1 <= MaxRetries
    BY <1>1, <1>5, RowsAssumption DEF Retry, InStep, TypeOK
  <2>2. Promise!Attempt(1)
    BY <2>1 DEF Promise!Attempt
  <2> QED
    BY <2>2 DEF Promise!Next, Promise!Progress
<1>6. CASE UNCHANGED <<row, stored, retries, file>>
  BY <1>6 DEF Promise!vars, RowsOf
<1> QED
  BY <1>2, <1>3, <1>4, <1>5, <1>6
  DEF Next, vars, StoreRow, RejectRow, RejectUnknown, CountAmbiguous, StatementRefused,
      FlushRefused, StatementAfterAbort, ConnectorRaises, CommitRefused, GiveUp, KeepRest

(* An import worked through row by row, with every refusal and retry,      *)
(* takes only the steps ImportJob allows a job: the single step in which   *)
(* the lifecycle imports a file hides nothing a client could see.          *)
THEOREM ImplementsImportJobSteps == Spec => [][Promise!Next]_(Promise!vars)
<1>1. IInv /\ IInv' /\ InStep /\ [Next]_vars => [Promise!Next]_(Promise!vars)
  BY PromiseStep
<1> QED
  BY <1>1, Invariant, InStepInvariant, PTL DEF Spec

-----------------------------------------------------------------------------
(* The errors of a COMPLETED job, exactly. *)

Elements(s) == {s[k] : k \in 1 .. Len(s)}

(* Every row since the first rejected one is "invalid": nothing flushed.   *)
Unflushed(f, n) ==
  \A h \in Seen(f, n, Rejected), m \in 1 .. n - 1 : h < m => f[m] = "invalid"

(* What a flush before the n-th row writes of a first attempt's errors.    *)
Kept(f, n) ==
  {i \in Seen(f, n, Rejected) :
     \A h \in Seen(f, n, Rejected), m \in 1 .. i : h < m => f[m] = "invalid"}

KeptExactly(f, n, o, t) ==
  /\ Elements(IF o.replaced THEN o.errors ELSE t.errors) = Kept(f, n)
  /\ o.replaced <=> Seen(f, n, Rejected) # {} /\ Unflushed(f, n)

(* On a retry the list is the one the fatal entry was loaded in: appended  *)
(* to in place, it is never written again.                                 *)
Exact ==
  /\ pc = "rows" /\ tx.state = "open" /\ row.errors = <<>>
       => KeptExactly(file, next, obj, tx)
  /\ pc = "rows" /\ tx.state = "open" /\ row.errors # <<>>
       => ~obj.replaced /\ obj.errors # <<>> /\ tx.errors = row.errors
  /\ pc = "raised" \/ (retries > 0 /\ pc \in {"begin", "rows"})
       => row.errors = <<FatalEntry>>

LEMMA ElementsGrow ==
  ASSUME NEW s \in Seq(Nat), NEW e \in Nat
  PROVE  Elements(Append(s, e)) = Elements(s) \cup {e}
<1>1. /\ Len(Append(s, e)) = Len(s) + 1 /\ Append(s, e)[Len(s) + 1] = e
      /\ \A k \in 1 .. Len(s) : Append(s, e)[k] = s[k]
  OBVIOUS
<1>2. Len(s) \in Nat /\ 1 .. Len(s) + 1 = (1 .. Len(s)) \cup {Len(s) + 1}
  OBVIOUS
<1> QED
  BY <1>1, <1>2 DEF Elements

LEMMA NoElements == Elements(<<>>) = {}
BY DEF Elements

(* A row that is stored, or counted without an entry, is a flush.          *)
LEMMA FlushKeeps ==
  ASSUME NEW f, NEW n \in Nat \ {0}, f[n] \notin Rejected
  PROVE  /\ Kept(f, n + 1) = Kept(f, n)
         /\ Seen(f, n + 1, Rejected) # {} => ~Unflushed(f, n + 1)
<1>1. Seen(f, n + 1, Rejected) = Seen(f, n, Rejected)
  BY SeenGrows
<1>2. f[n] # "invalid" /\ n \in 1 .. (n + 1) - 1
  BY DEF Rejected
<1>3. \A h \in Seen(f, n, Rejected) : h < n
  BY DEF Seen
<1> QED
  BY <1>1, <1>2, <1>3 DEF Kept, Unflushed

(* The first rejected row is kept, a later one if nothing flushed since.   *)
LEMMA RejectedKept ==
  ASSUME NEW f, NEW n \in Nat \ {0}, f[n] \in Rejected
  PROVE  /\ Seen(f, n + 1, Rejected) # {}
         /\ Seen(f, n, Rejected) = {} => Kept(f, n + 1) = {n} /\ Unflushed(f, n + 1)
         /\ Seen(f, n, Rejected) # {} /\ f[n] = "invalid" /\ Unflushed(f, n)
              => Kept(f, n + 1) = Kept(f, n) \cup {n} /\ Unflushed(f, n + 1)
         /\ Seen(f, n, Rejected) # {} /\ (f[n] # "invalid" \/ ~Unflushed(f, n))
              => Kept(f, n + 1) = Kept(f, n) /\ ~Unflushed(f, n + 1)
<1> DEFINE S == Seen(f, n, Rejected)
<1>1. Seen(f, n + 1, Rejected) = S \cup {n} /\ 1 .. (n + 1) - 1 = (1 .. n - 1) \cup {n}
  BY SeenGrows
<1>2. \A h \in S : h \in Nat /\ h < n
  BY DEF Seen
<1>3. Unflushed(f, n + 1) <=> Unflushed(f, n) /\ (S # {} => f[n] = "invalid")
  <2>1. Unflushed(f, n + 1)
          <=> \A h \in S \cup {n}, m \in (1 .. n - 1) \cup {n} : h < m => f[m] = "invalid"
    BY <1>1 DEF Unflushed
  <2>2. \A m \in (1 .. n - 1) \cup {n} : ~(n < m)
    OBVIOUS
  <2>3. Unflushed(f, n) <=> \A h \in S, m \in 1 .. n - 1 : h < m => f[m] = "invalid"
    BY DEF Unflushed
  <2> HIDE DEF S
  <2> QED
    BY <1>2, <2>1, <2>2, <2>3
<1>4. \A i \in S : i \in Kept(f, n + 1) <=> i \in Kept(f, n)
  <2>1. \A i \in S : \A m \in 1 .. i : ~(n < m)
    BY <1>2
  <2> QED
    BY <1>1, <2>1 DEF Kept
<1>5. n \in Kept(f, n + 1) <=> Unflushed(f, n + 1)
  <2>1. n \in Seen(f, n + 1, Rejected) /\ (n + 1) - 1 = n
    BY <1>1
  <2> QED
    BY <2>1 DEF Kept, Unflushed
<1>6. Kept(f, n + 1) \subseteq S \cup {n} /\ Kept(f, n) \subseteq S
  BY <1>1 DEF Kept
<1>7. S = {} => Unflushed(f, n)
  BY DEF Unflushed
<1> HIDE DEF S
<1>8. Unflushed(f, n + 1) => Kept(f, n + 1) = Kept(f, n) \cup {n}
  BY <1>4, <1>5, <1>6
<1>9. ~Unflushed(f, n + 1) => Kept(f, n + 1) = Kept(f, n)
  BY <1>4, <1>5, <1>6
<1>10. S # {} /\ (f[n] # "invalid" \/ ~Unflushed(f, n)) => ~Unflushed(f, n + 1)
  BY <1>3
<1>11. S = {} => Unflushed(f, n + 1) /\ Kept(f, n + 1) = {n}
  BY <1>3, <1>6, <1>7, <1>8
<1>12. S # {} /\ f[n] = "invalid" /\ Unflushed(f, n) => Unflushed(f, n + 1)
  BY <1>3
<1> QED
  BY <1>1, <1>8, <1>9, <1>10, <1>11, <1>12 DEF S

(* What the three kinds of row do to the two lists.                        *)
LEMMA FlushEffect ==
  ASSUME TypeOK, StoreRow \/ CountAmbiguous
  PROVE  /\ pc = "rows" /\ tx.state = "open" /\ file[next] \notin Rejected
         /\ pc' = "rows" /\ next' = next + 1 /\ UNCHANGED <<file, row, retries>>
         /\ tx'.errors = (IF obj.replaced THEN obj.errors ELSE tx.errors)
         /\ obj'.errors = obj.errors /\ ~obj'.replaced
<1>1. /\ obj \in SessionObjects /\ tx \in SessionTransactions /\ next \in Nat
      /\ {next} \in SUBSET Nat /\ {} \in SUBSET Nat
  BY DEF TypeOK, SessionObjects, SessionTransactions
<1>2. /\ pc = "rows" /\ tx.state = "open" /\ file[next] \notin Rejected
      /\ pc' = "rows" /\ next' = next + 1 /\ UNCHANGED <<file, row, retries>>
  BY DEF StoreRow, CountAmbiguous, AtRow, Row, Rejected, Continue, KeepRest
<1>3. tx' = Flushed(tx, Counted, {next}) \/ tx' = Flushed(tx, Counted, {})
  BY DEF StoreRow, CountAmbiguous
<1>4. tx'.errors = IF obj.replaced THEN obj.errors ELSE tx.errors
  BY <1>1, <1>3, FlushedCounted
<1>5. \/ obj' = Clean([Counted EXCEPT !.processed = @ + 1])
      \/ obj' = Clean([Counted EXCEPT !.failed = @ + 1])
  BY DEF StoreRow, CountAmbiguous
<1>6. obj'.errors = obj.errors /\ ~obj'.replaced
  BY <1>1, <1>5, CountedProcessedClean, CountedFailedClean
<1> QED
  BY <1>2, <1>4, <1>6

LEMMA RejectEffect ==
  ASSUME TypeOK, RejectRow
  PROVE  /\ pc = "rows" /\ file[next] = "invalid" /\ pc' = "rows" /\ next' = next + 1
         /\ UNCHANGED <<file, row, retries, tx>>
         /\ obj'.errors = Append(obj.errors, next)
         /\ obj.errors = <<>> => obj'.replaced
         /\ obj.errors # <<>> => obj'.replaced = obj.replaced
<1>1. obj \in SessionObjects /\ next \in Nat
  BY DEF TypeOK, SessionObjects
<1>2. /\ pc = "rows" /\ file[next] = "invalid" /\ pc' = "rows" /\ next' = next + 1
      /\ UNCHANGED <<file, row, retries, tx>>
  BY DEF RejectRow, AtRow, Row, Continue, KeepRest
<1> DEFINE failed == [Counted EXCEPT !.failed = @ + 1]
<1>3. obj' = AppendError(failed, next)
  BY DEF RejectRow
<1>4. failed \in SessionObjects /\ failed.errors = obj.errors /\ failed.replaced = obj.replaced
  BY <1>1, CountedFailed
<1> HIDE DEF failed
<1>5. /\ AppendError(failed, next).errors = Append(failed.errors, next)
      /\ failed.errors = <<>> => AppendError(failed, next).replaced
      /\ failed.errors # <<>> => AppendError(failed, next).replaced = failed.replaced
  BY <1>1, <1>4, Appended
<1> QED
  BY <1>2, <1>3, <1>4, <1>5

LEMMA UnknownEffect ==
  ASSUME TypeOK, RejectUnknown
  PROVE  /\ pc = "rows" /\ tx.state = "open" /\ file[next] = "unknown"
         /\ pc' = "rows" /\ next' = next + 1 /\ UNCHANGED <<file, row, retries>>
         /\ tx'.errors = (IF obj.replaced THEN obj.errors ELSE tx.errors)
         /\ obj'.errors = Append(obj.errors, next)
         /\ obj.errors = <<>> => obj'.replaced
         /\ obj.errors # <<>> => ~obj'.replaced
<1>1. obj \in SessionObjects /\ tx \in SessionTransactions /\ next \in Nat /\ {} \in SUBSET Nat
  BY DEF TypeOK, SessionObjects, SessionTransactions
<1>2. /\ pc = "rows" /\ tx.state = "open" /\ file[next] = "unknown"
      /\ pc' = "rows" /\ next' = next + 1 /\ UNCHANGED <<file, row, retries>>
  BY DEF RejectUnknown, AtRow, Row, Continue, KeepRest
<1>3. tx'.errors = IF obj.replaced THEN obj.errors ELSE tx.errors
  <2>1. tx' = Flushed(tx, Counted, {})
    BY DEF RejectUnknown
  <2> QED
    BY <1>1, <2>1, FlushedCounted
<1> DEFINE failed == Clean([Counted EXCEPT !.failed = @ + 1])
<1>4. obj' = AppendError(failed, next)
  BY DEF RejectUnknown
<1>5. failed \in SessionObjects /\ failed.errors = obj.errors /\ ~failed.replaced
  BY <1>1, CountedFailedClean
<1> HIDE DEF failed
<1>6. /\ AppendError(failed, next).errors = Append(failed.errors, next)
      /\ failed.errors = <<>> => AppendError(failed, next).replaced
      /\ failed.errors # <<>> => AppendError(failed, next).replaced = failed.replaced
  BY <1>1, <1>5, Appended
<1> QED
  BY <1>2, <1>3, <1>4, <1>5, <1>6

(* The lists of a first attempt, one row on.                               *)
LEMMA ScanKeepsExactly ==
  ASSUME TypeOK, FirstKept(file, next, obj, tx), KeptExactly(file, next, obj, tx),
         StoreRow \/ CountAmbiguous \/ RejectRow \/ RejectUnknown
  PROVE  KeptExactly(file', next', obj', tx')
<1>1. next \in Nat \ {0} /\ obj.errors \in Seq(Nat) /\ tx.errors \in Seq(Nat)
  BY DEF TypeOK
<1>2. /\ Seen(file, next, Rejected) = {} => obj.errors = <<>> /\ tx.errors = <<>>
      /\ Seen(file, next, Rejected) # {} => obj.errors # <<>>
  BY DEF FirstKept
<1> DEFINE flushed == IF obj.replaced THEN obj.errors ELSE tx.errors
<1>3. Elements(flushed) = Kept(file, next)
  BY DEF KeptExactly
<1>4. obj.replaced <=> Seen(file, next, Rejected) # {} /\ Unflushed(file, next)
  BY DEF KeptExactly
<1>5. CASE StoreRow \/ CountAmbiguous
  <2>1. /\ file[next] \notin Rejected /\ next' = next + 1 /\ file' = file
        /\ tx'.errors = flushed /\ ~obj'.replaced
    BY <1>5, FlushEffect
  <2>2. /\ Kept(file, next + 1) = Kept(file, next)
        /\ Seen(file, next + 1, Rejected) # {} => ~Unflushed(file, next + 1)
    BY <1>1, <2>1, FlushKeeps
  <2> HIDE DEF flushed
  <2> QED
    BY <1>3, <2>1, <2>2 DEF KeptExactly
<1>6. CASE RejectRow
  <2>1. /\ file[next] = "invalid" /\ next' = next + 1 /\ file' = file /\ tx' = tx
        /\ obj'.errors = Append(obj.errors, next)
        /\ obj.errors = <<>> => obj'.replaced
        /\ obj.errors # <<>> => obj'.replaced = obj.replaced
    BY <1>6, RejectEffect
  <2>2. file[next] \in Rejected
    BY <2>1 DEF Rejected
  <2>3. Elements(obj'.errors) = Elements(obj.errors) \cup {next}
    BY <1>1, <2>1, ElementsGrow
  <2>4. CASE Seen(file, next, Rejected) = {}
    <3>1. obj'.replaced /\ Elements(obj'.errors) = {next}
      BY <1>2, <2>1, <2>3, <2>4, NoElements
    <3>2. /\ Seen(file, next + 1, Rejected) # {} /\ Unflushed(file, next + 1)
          /\ Kept(file, next + 1) = {next}
      BY <1>1, <2>2, <2>4, RejectedKept
    <3> QED
      BY <2>1, <3>1, <3>2 DEF KeptExactly
  <2>5. CASE Seen(file, next, Rejected) # {} /\ Unflushed(file, next)
    <3>1. obj.replaced /\ obj'.replaced /\ Elements(obj'.errors) = Kept(file, next) \cup {next}
      BY <1>2, <1>3, <1>4, <2>1, <2>3, <2>5
    <3>2. /\ Seen(file, next + 1, Rejected) # {} /\ Unflushed(file, next + 1)
          /\ Kept(file, next + 1) = Kept(file, next) \cup {next}
      BY <1>1, <2>1, <2>2, <2>5, RejectedKept
    <3> QED
      BY <2>1, <3>1, <3>2 DEF KeptExactly
  <2>6. CASE Seen(file, next, Rejected) # {} /\ ~Unflushed(file, next)
    <3>1. ~obj.replaced /\ ~obj'.replaced /\ Elements(tx.errors) = Kept(file, next)
      BY <1>2, <1>3, <1>4, <2>1, <2>6
    <3>2. ~Unflushed(file, next + 1) /\ Kept(file, next + 1) = Kept(file, next)
      BY <1>1, <2>2, <2>6, RejectedKept
    <3> QED
      BY <2>1, <3>1, <3>2 DEF KeptExactly
  <2> QED
    BY <2>4, <2>5, <2>6
<1>7. CASE RejectUnknown
  <2>1. /\ file[next] = "unknown" /\ next' = next + 1 /\ file' = file /\ tx'.errors = flushed
        /\ obj'.errors = Append(obj.errors, next)
        /\ obj.errors = <<>> => obj'.replaced
        /\ obj.errors # <<>> => ~obj'.replaced
    BY <1>7, UnknownEffect
  <2>2. file[next] \in Rejected /\ file[next] # "invalid"
    BY <2>1 DEF Rejected
  <2>3. Elements(obj'.errors) = Elements(obj.errors) \cup {next}
    BY <1>1, <2>1, ElementsGrow
  <2> HIDE DEF flushed
  <2>4. CASE Seen(file, next, Rejected) = {}
    <3>1. obj'.replaced /\ Elements(obj'.errors) = {next}
      BY <1>2, <2>1, <2>3, <2>4, NoElements
    <3>2. /\ Seen(file, next + 1, Rejected) # {} /\ Unflushed(file, next + 1)
          /\ Kept(file, next + 1) = {next}
      BY <1>1, <2>2, <2>4, RejectedKept
    <3> QED
      BY <2>1, <3>1, <3>2 DEF KeptExactly
  <2>5. CASE Seen(file, next, Rejected) # {}
    <3>1. ~obj'.replaced /\ Elements(tx'.errors) = Kept(file, next)
      BY <1>2, <1>3, <2>1, <2>5
    <3>2. ~Unflushed(file, next + 1) /\ Kept(file, next + 1) = Kept(file, next)
      BY <1>1, <2>2, <2>5, RejectedKept
    <3> QED
      BY <2>1, <3>1, <3>2 DEF KeptExactly
  <2> QED
    BY <2>4, <2>5
<1> QED
  BY <1>5, <1>6, <1>7

(* A failed attempt leaves the fatal entry and nothing else.               *)
LEMMA MarkedErrors ==
  ASSUME IInv, MarkFailed
  PROVE  row'.errors = <<FatalEntry>>
<1> DEFINE o == AppendError(LoadedFrom(row), FatalEntry)
           t == NewTransaction(row)
<1>1. row.errors \in {<<>>, <<FatalEntry>>}
  BY DEF MarkFailed, IInv, Uncommitted
<1>2. row'.errors = FlushedErrors(t, o)
  BY DEF MarkFailed, IInv, TypeOK
<1>3. t.errors = row.errors /\ LoadedFrom(row).errors = row.errors
      /\ ~LoadedFrom(row).replaced
  BY DEF NewTransaction, LoadedFrom
<1>4. CASE row.errors = <<>>
  <2>1. o.replaced /\ o.errors = <<FatalEntry>>
    BY <1>3, <1>4 DEF AppendError, LoadedFrom
  <2> QED
    BY <1>2, <2>1 DEF FlushedErrors
<1>5. CASE row.errors = <<FatalEntry>>
  <2>1. ~o.replaced
    BY <1>3, <1>5 DEF AppendError, LoadedFrom
  <2> QED
    BY <1>2, <1>3, <1>5, <2>1 DEF FlushedErrors
<1> QED
  BY <1>1, <1>4, <1>5

LEMMA ExactStep ==
  ASSUME IInv, Exact, Next
  PROVE  Exact'
<1>1. TypeOK /\ row.errors \in Seq(Nat) /\ obj.errors \in Seq(Nat) /\ next \in Nat
  BY DEF IInv, TypeOK
<1>2. CASE Begin
  <2>1. /\ row'.errors = row.errors /\ obj'.errors = row.errors /\ ~obj'.replaced
        /\ tx'.errors = row.errors /\ next' = 1 /\ pc' = "rows" /\ retries' = retries
    BY <1>1, <1>2 DEF Begin, LoadedFrom, NewTransaction, TypeOK
  <2>2. Seen(file', 1, Rejected) = {}
    BY DEF Seen
  <2>3. Kept(file', 1) = {}
    BY <2>2 DEF Kept
  <2>4. row'.errors = <<>> => KeptExactly(file', next', obj', tx')
    BY <2>1, <2>2, <2>3, NoElements DEF KeptExactly
  <2>5. retries > 0 => row.errors = <<FatalEntry>>
    BY <1>2 DEF Begin, Exact
  <2> QED
    BY <2>1, <2>4, <2>5 DEF Exact
<1>3. CASE StoreRow \/ CountAmbiguous \/ RejectRow \/ RejectUnknown
  <2>1. /\ pc = "rows" /\ pc' = "rows" /\ UNCHANGED <<file, row, retries>>
        /\ tx'.state = "open" => tx.state = "open"
    BY <1>1, <1>3, FlushEffect, RejectEffect, UnknownEffect
  <2>2. tx'.state = "open" /\ row.errors = <<>> => KeptExactly(file', next', obj', tx')
    <3>1. SUFFICES ASSUME tx.state = "open", row.errors = <<>>
                   PROVE  KeptExactly(file', next', obj', tx')
      BY <2>1
    <3>2. FirstKept(file, next, obj, tx) /\ KeptExactly(file, next, obj, tx)
      BY <2>1, <3>1 DEF IInv, Listed, Exact
    <3> QED
      BY <1>1, <1>3, <3>2, ScanKeepsExactly
  <2>3. tx'.state = "open" /\ row.errors # <<>>
          => ~obj'.replaced /\ obj'.errors # <<>> /\ tx'.errors = row.errors
    <3>1. SUFFICES ASSUME tx.state = "open", row.errors # <<>>
                   PROVE  ~obj'.replaced /\ obj'.errors # <<>> /\ tx'.errors = row.errors
      BY <2>1
    <3>2. ~obj.replaced /\ obj.errors # <<>> /\ tx.errors = row.errors
      BY <2>1, <3>1 DEF Exact
    <3>3. Append(obj.errors, next) # <<>>
      BY <1>1
    <3>4. tx'.errors = tx.errors
      BY <1>1, <1>3, <3>2, FlushEffect, RejectEffect, UnknownEffect
    <3>5. ~obj'.replaced /\ (obj'.errors = obj.errors \/ obj'.errors = Append(obj.errors, next))
      BY <1>1, <1>3, <3>2, FlushEffect, RejectEffect, UnknownEffect
    <3> QED
      BY <3>2, <3>3, <3>4, <3>5
  <2> QED
    BY <2>1, <2>2, <2>3 DEF Exact
<1>4. CASE StatementRefused \/ FlushRefused \/ StatementAfterAbort
  <2>1. tx'.state # "open" /\ pc = "rows" /\ pc' \in {"rows", "failing"}
        /\ row' = row /\ retries' = retries
    BY <1>1, <1>4 DEF StatementRefused, FlushRefused, StatementAfterAbort, AtRow, Continue,
                      KeepRest, TypeOK
  <2> QED
    BY <2>1 DEF Exact
<1>5. CASE ConnectorRaises \/ Commit \/ CommitRefused \/ GiveUp
  <2>1. pc' \in {"failing", "done"}
    BY <1>5 DEF ConnectorRaises, Commit, CommitRefused, GiveUp
  <2> QED
    BY <2>1 DEF Exact
<1>6. CASE MarkFailed
  <2>1. pc' = "raised" /\ row'.errors = <<FatalEntry>>
    BY <1>6, MarkedErrors DEF MarkFailed
  <2> QED
    BY <2>1 DEF Exact
<1>7. CASE Retry
  BY <1>7 DEF Retry, Exact
<1> QED
  BY <1>2, <1>3, <1>4, <1>5, <1>6, <1>7 DEF Next

LEMMA ExactInvariant == Spec => []Exact
<1>1. Init => Exact
  BY DEF Init, Exact
<1>2. IInv /\ Exact /\ [Next]_vars => Exact'
  <2>1. ASSUME Exact, UNCHANGED vars PROVE Exact'
    BY <2>1 DEF vars, Exact
  <2> QED
    BY <2>1, ExactStep
<1> QED
  BY <1>1, <1>2, Invariant, PTL DEF Spec

(* Before the row that follows the last, what is kept is the report.       *)
LEMMA KeptIsReported ==
  ASSUME TypeOK, next = Len(file) + 1
  PROVE  Kept(file, next) = ReportedRows
<1>1. Seen(file, next, Rejected) = RowsOf({"invalid", "unknown"})
  BY FileIsSequence DEF Seen, RowsOf, Rejected
<1> QED
  BY <1>1 DEF Kept, ReportedRows

LEMMA CommitReports ==
  ASSUME IInv, Exact, Commit
  PROVE  ReportedExactly'
<1>1. /\ TypeOK /\ pc = "rows" /\ tx.state = "open" /\ next > Len(file)
      /\ row'.errors = FlushedErrors(tx, obj) /\ file' = file /\ retries' = retries
  BY DEF IInv, Commit
<1>2. next = Len(file) + 1
  <2>1. next \in Nat /\ Len(file) \in Nat /\ next <= Len(file) + 1
    BY <1>1, FileIsSequence DEF IInv, InFile, TypeOK
  <2> QED
    BY <1>1, <2>1
<1>3. CASE retries = 0
  <2>1. row.errors = <<>>
    BY <1>1, <1>3 DEF IInv, FirstAttempt
  <2>2. Elements(row'.errors) = Kept(file, next)
    BY <1>1, <2>1 DEF Exact, KeptExactly, FlushedErrors
  <2>3. Elements(row'.errors) = ReportedRows
    BY <1>1, <1>2, <2>2, KeptIsReported
  <2>4. ReportedRows' = ReportedRows
    BY <1>1 DEF ReportedRows, RowsOf
  <2> QED
    BY <1>1, <1>3, <2>3, <2>4 DEF ReportedExactly, Elements
<1>4. CASE retries # 0
  <2>1. row.errors = <<FatalEntry>>
    BY <1>1, <1>4 DEF Exact, TypeOK
  <2>2. row'.errors = <<FatalEntry>>
    BY <1>1, <2>1 DEF Exact, FlushedErrors
  <2> QED
    BY <1>1, <1>4, <2>2 DEF ReportedExactly
<1> QED
  BY <1>3, <1>4

(* The exact side of ErrorsAccumulate: which rejected rows a job that      *)
(* completes reports, for a file of any length.                            *)
THEOREM ReportedExactlyHolds == Spec => []ReportedExactly
<1>1. Init => ReportedExactly
  BY DEF Init, NewRow, ReportedExactly
<1>2. IInv /\ Exact /\ ReportedExactly /\ [Next]_vars => ReportedExactly'
  <2> SUFFICES ASSUME IInv, Exact, ReportedExactly, [Next]_vars PROVE ReportedExactly'
    OBVIOUS
  <2>1. CASE Commit
    BY <2>1, CommitReports
  <2>2. CASE Begin \/ MarkFailed
    <3>1. row'.status # "COMPLETED"
      BY <2>2 DEF Begin, MarkFailed, IInv, TypeOK
    <3> QED
      BY <3>1 DEF ReportedExactly
  <2>3. CASE Retry \/ GiveUp
    <3>1. row' = row /\ row.status # "COMPLETED"
      BY <2>3 DEF Retry, GiveUp, IInv, Uncommitted
    <3> QED
      BY <3>1 DEF ReportedExactly
  <2>4. CASE UNCHANGED <<row, file, retries>>
    <3>1. ReportedRows' = ReportedRows
      BY <2>4 DEF ReportedRows, RowsOf
    <3> QED
      BY <2>4, <3>1 DEF ReportedExactly
  <2> QED
    BY <2>1, <2>2, <2>3, <2>4
    DEF Next, vars, StoreRow, RejectRow, RejectUnknown, CountAmbiguous, StatementRefused,
        FlushRefused, StatementAfterAbort, ConnectorRaises, CommitRefused, KeepRest
<1> QED
  BY <1>1, <1>2, Invariant, ExactInvariant, PTL DEF Spec

=============================================================================
