------------------------------- MODULE Inventory -------------------------------
(***************************************************************************)
(* Imports of one tenant that run at the same time, statement by           *)
(* statement: each is one READ COMMITTED transaction over the inventory    *)
(* tables.  Products and batches are upserted on a unique key, under a row *)
(* lock that is held to the end of the transaction; locations and          *)
(* transactions have no unique key and are looked up, then inserted.       *)
(*                                                                         *)
(* An attempt whose transaction was aborted ends as SyncRows shows: rolled *)
(* back, marked FAILED and retried, so it goes straight to "raised" here.  *)
(* A transaction row has a date of its own (one without a date would get   *)
(* the time of the attempt and never equal a stored one).                  *)
(***************************************************************************)
EXTENDS Integers, Sequences, FiniteSets, Functions

CONSTANTS
  Imports,     \* imports of the tenant, by one job each
  Skus,        \* product codes
  Catalogue,   \* codes of the products that earlier imports have stored
  Locations,   \* location names
  Items,       \* batch numbers, and the other columns of a transaction
  Files,       \* Files[i]: the files import i may be given
  MaxRetries,  \* Celery's max_retries
  Troubled     \* bound: imports that may fail for another reason than a deadlock

NoLocation == "-"

Rows ==
  [kind : {"product"}, sku : Skus]
    \cup [kind : {"batch"}, sku : Skus, item : Items, location : Locations \cup {NoLocation}]
    \cup [kind : {"transaction"}, sku : Skus, item : Items, location : Locations]

ASSUME InventoryAssumption ==
  /\ IsFiniteSet(Imports)
  /\ NoLocation \notin Locations
  /\ Catalogue \subseteq Skus
  /\ Files \in [Imports -> SUBSET Seq(Rows)]
  /\ MaxRetries \in Nat
  /\ Troubled \subseteq Imports

VARIABLES
  file,       \* file[i]: the rows import i reads
  upserted,   \* upserted[k]: the committed version of product or batch k
  places,     \* committed locations
  ledger,     \* committed transactions
  tx,         \* tx[i]: what the open transaction of i has written
  cache,      \* cache[i]: the locations the DataNormalizer of i has resolved
  pc,         \* pc[i]: the next statement of i
  next,       \* next[i]: index of the row of i at hand
  dropped,    \* dropped[i]: rows counted as failed without an entry in errors
  retries,    \* retries[i]: self.request.retries
  commits,    \* history: the imports committed, in order
  began       \* history: began[i] commits preceded the attempt of i

vars == <<file, upserted, places, ledger, tx, cache, pc, next, dropped, retries, commits, began>>
tables == <<upserted, places, ledger, commits>>
attempt == <<retries, began>>

-----------------------------------------------------------------------------
ProductKey(sku) == <<"product", sku>>
BatchKey(row) == <<"batch", row.sku, row.item>>
Keys == {ProductKey(s) : s \in Skus} \cup {<<"batch", s, b>> : s \in Skus, b \in Items}

(* Whoever wrote a row, and at which row of its file: its id. *)
Writers == Imports \X (Nat \ {0})
Nobody == <<>>
Earlier == <<0>>

(* A product or batch: who wrote it, and the location a batch refers to. *)
Versions == [by : Writers \cup {Earlier}, place : Writers \cup {Nobody}]
NoVersion == [by |-> Nobody, place |-> Nobody]
Initial(k) ==
  IF \E s \in Catalogue : k = ProductKey(s) THEN [NoVersion EXCEPT !.by = Earlier] ELSE NoVersion

Places == [id : Writers, name : Locations]
Entries == [id : Writers, sku : Skus, item : Items, place : Writers]

(* What a transaction has written: upserts is a set of <<key, version>>. *)
NothingWritten == [upserts |-> {}, places |-> {}, ledger |-> {}]

Running == {"row", "location", "create", "find", "insert", "upsert"}

TypeOK ==
  /\ \A i \in Imports : file[i] \in Files[i]
  /\ upserted \in [Keys -> Versions \cup {NoVersion}]
  /\ places \subseteq Places
  /\ ledger \subseteq Entries
  /\ tx \in [Imports -> [upserts : SUBSET (Keys \X Versions),
                         places : SUBSET Places, ledger : SUBSET Entries]]
  /\ cache \in [Imports -> SUBSET Places]
  /\ pc \in [Imports -> Running \cup {"idle", "raised", "committed", "failed"}]
  /\ next \in [Imports -> Nat \ {0}]
  /\ dropped \in [Imports -> SUBSET Nat]
  /\ retries \in [Imports -> 0 .. MaxRetries]
  /\ commits \in Seq(Imports)
  /\ began \in [Imports -> Nat]

Init ==
  /\ file \in {f \in [Imports -> UNION {Files[i] : i \in Imports}] :
                 \A i \in Imports : f[i] \in Files[i]}
  /\ upserted = [k \in Keys |-> Initial(k)]
  /\ places = {} /\ ledger = {}
  /\ tx = [i \in Imports |-> NothingWritten]
  /\ cache = [i \in Imports |-> {}]
  /\ pc = [i \in Imports |-> "idle"]
  /\ next = [i \in Imports |-> 1]
  /\ dropped = [i \in Imports |-> {}]
  /\ retries = [i \in Imports |-> 0]
  /\ commits = <<>>
  /\ began = [i \in Imports |-> 0]

Goto(i, to) == pc' = [pc EXCEPT ![i] = to]
NextRow(i) == Goto(i, "row") /\ next' = [next EXCEPT ![i] = @ + 1]

Row(i) == file[i][next[i]]
At(i, where) == pc[i] = where /\ next[i] <= Len(file[i])
Me(i) == <<i, next[i]>>

(* READ COMMITTED: a statement sees what is committed and its own writes. *)
Exists(i, k) == upserted[k] # NoVersion \/ \E e \in tx[i].upserts : e[1] = k
(* Bug: the lookup misses the locations of earlier imports. *)
PlacesOfMine(i, name) == {p \in tx[i].places : p.name = name}
PlacesNamed(i, name) == {p \in places \cup tx[i].places : p.name = name}
Resolved(i, name) == {p \in cache[i] : p.name = name}

Holds(i, k) == \E e \in tx[i].upserts : e[1] = k
Locked(i, k) == \E j \in Imports \ {i} : Holds(j, k)

-----------------------------------------------------------------------------
(* Bug: the locations an aborted attempt resolved stay in the cache. *)
BeginKeepingCache(i) ==
  /\ pc[i] = "idle"
  /\ Goto(i, "row")
  /\ next' = [next EXCEPT ![i] = 1]
  /\ dropped' = [dropped EXCEPT ![i] = {}]
  /\ began' = [began EXCEPT ![i] = Len(commits)]
  /\ UNCHANGED <<file, tables, tx, cache, retries>>

(* A new attempt: a new DataNormalizer, with empty caches. *)
Begin(i) ==
  /\ pc[i] = "idle"
  /\ Goto(i, "row")
  /\ next' = [next EXCEPT ![i] = 1]
  /\ cache' = [cache EXCEPT ![i] = {}]
  /\ dropped' = [dropped EXCEPT ![i] = {}]
  /\ began' = [began EXCEPT ![i] = Len(commits)]
  /\ UNCHANGED <<file, tables, tx, retries>>

(* INSERT ... ON CONFLICT DO UPDATE: waits for the lock of another import. *)
Write(i, k, place) ==
  /\ ~Locked(i, k)
  /\ tx' = [tx EXCEPT ![i].upserts =
       {e \in @ : e[1] # k} \cup {<<k, [by |-> Me(i), place |-> place]>>}]
  /\ NextRow(i)
  /\ UNCHANGED <<file, tables, cache, dropped, attempt>>

(* Bug: every product is committed by itself. *)
UpsertProductAutocommit(i) ==
  /\ At(i, "row") /\ Row(i).kind = "product"
  /\ ~Locked(i, ProductKey(Row(i).sku))
  /\ upserted' = [upserted EXCEPT ![ProductKey(Row(i).sku)] = [by |-> Me(i), place |-> Nobody]]
  /\ NextRow(i)
  /\ UNCHANGED <<file, places, ledger, commits, tx, cache, dropped, attempt>>

(* Bug: the codes of a file are upserted in no particular order. *)
UpsertProductFromSet(i) ==
  /\ At(i, "row") /\ Row(i).kind = "product"
  /\ \E row \in Range(file[i]) :
       row.kind = "product" /\ Write(i, ProductKey(row.sku), Nobody)

UpsertProduct(i) ==
  /\ At(i, "row") /\ Row(i).kind = "product"
  /\ Write(i, ProductKey(Row(i).sku), Nobody)

(* _resolve_product: a row of an unknown product is rejected. *)
ResolveProduct(i) ==
  /\ At(i, "row") /\ Row(i).kind # "product"
  /\ IF ~Exists(i, ProductKey(Row(i).sku)) THEN NextRow(i)
     ELSE /\ Goto(i, IF Row(i).location = NoLocation THEN "upsert" ELSE "location")
          /\ UNCHANGED next
  /\ UNCHANGED <<file, tables, tx, cache, dropped, attempt>>

Store(i) == Goto(i, IF Row(i).kind = "batch" THEN "upsert" ELSE "find")

(* More than one match: scalar_one_or_none raises, the row is counted.     *)
DropRow(i) ==
  /\ dropped' = [dropped EXCEPT ![i] = @ \cup {next[i]}]
  /\ NextRow(i)

(* _resolve_location: the cache, then a SELECT by name. *)
ResolveLocation(i) ==
  LET found == PlacesNamed(i, Row(i).location)
  IN  /\ At(i, "location")
      /\ \/ /\ Resolved(i, Row(i).location) # {}
            /\ Store(i)
            /\ UNCHANGED <<cache, next, dropped>>
         \/ /\ Resolved(i, Row(i).location) = {}
            /\ \/ Cardinality(found) = 0 /\ Goto(i, "create") /\ UNCHANGED <<cache, next, dropped>>
               \/ /\ Cardinality(found) = 1
                  /\ cache' = [cache EXCEPT ![i] = @ \cup found]
                  /\ Store(i)
                  /\ UNCHANGED <<next, dropped>>
               \/ Cardinality(found) > 1 /\ DropRow(i) /\ UNCHANGED cache
      /\ UNCHANGED <<file, tables, tx, attempt>>

(* No unique constraint on the name: the INSERT always succeeds. *)
CreateLocation(i) ==
  LET place == [id |-> Me(i), name |-> Row(i).location]
  IN  /\ At(i, "create")
      /\ tx' = [tx EXCEPT ![i].places = @ \cup {place}]
      /\ cache' = [cache EXCEPT ![i] = @ \cup {place}]
      /\ Store(i)
      /\ UNCHANGED <<file, tables, next, dropped, attempt>>

Place(i) == (CHOOSE p \in Resolved(i, Row(i).location) : TRUE).id

(* Bug: create_transaction does not look for an equal one. *)
FindNothing(i) ==
  /\ At(i, "find")
  /\ Goto(i, "insert")
  /\ UNCHANGED <<file, tables, tx, cache, next, dropped, attempt>>

(* Bug: transactions of different products are taken for equal. *)
FindSameItem(i) ==
  LET equal == {t \in ledger \cup tx[i].ledger :
                  t.item = Row(i).item /\ t.place = Place(i)}
  IN  /\ At(i, "find")
      /\ \/ Cardinality(equal) = 0 /\ Goto(i, "insert") /\ UNCHANGED <<next, dropped>>
         \/ Cardinality(equal) = 1 /\ NextRow(i) /\ UNCHANGED dropped
         \/ Cardinality(equal) > 1 /\ DropRow(i)
      /\ UNCHANGED <<file, tables, tx, cache, attempt>>

(* create_transaction: one equal to the row is returned, not inserted. *)
FindTransaction(i) ==
  LET equal == {t \in ledger \cup tx[i].ledger :
                  t.sku = Row(i).sku /\ t.item = Row(i).item /\ t.place = Place(i)}
  IN  /\ At(i, "find")
      /\ \/ Cardinality(equal) = 0 /\ Goto(i, "insert") /\ UNCHANGED <<next, dropped>>
         \/ Cardinality(equal) = 1 /\ NextRow(i) /\ UNCHANGED dropped
         \/ Cardinality(equal) > 1 /\ DropRow(i)
      /\ UNCHANGED <<file, tables, tx, cache, attempt>>

InsertTransaction(i) ==
  /\ At(i, "insert")
  /\ tx' = [tx EXCEPT ![i].ledger = @ \cup
       {[id |-> Me(i), sku |-> Row(i).sku, item |-> Row(i).item, place |-> Place(i)]}]
  /\ NextRow(i)
  /\ UNCHANGED <<file, tables, cache, dropped, attempt>>

UpsertBatch(i) ==
  /\ At(i, "upsert")
  /\ Write(i, BatchKey(Row(i)), IF Row(i).location = NoLocation THEN Nobody ELSE Place(i))

(* One commit at the end of the file. *)
Commit(i) ==
  /\ pc[i] = "row" /\ next[i] > Len(file[i])
  /\ upserted' = [k \in Keys |->
       IF Holds(i, k) THEN (CHOOSE e \in tx[i].upserts : e[1] = k)[2] ELSE upserted[k]]
  /\ places' = places \cup tx[i].places
  /\ ledger' = ledger \cup tx[i].ledger
  /\ commits' = Append(commits, i)
  /\ tx' = [tx EXCEPT ![i] = NothingWritten]
  /\ Goto(i, "committed")
  /\ UNCHANGED <<file, cache, next, dropped, attempt>>

-----------------------------------------------------------------------------
WaitsFor(i, j) ==
  \/ At(i, "row") /\ Row(i).kind = "product" /\ Holds(j, ProductKey(Row(i).sku))
  \/ At(i, "upsert") /\ Holds(j, BatchKey(Row(i)))

(* Imports that wait for each other in a circle. *)
Deadlocked(s) ==
  \A i \in s : (\E j \in s \ {i} : WaitsFor(i, j)) /\ (\E j \in s \ {i} : WaitsFor(j, i))

(* The transaction is rolled back, which releases its locks. *)
Rollback(i) ==
  /\ tx' = [tx EXCEPT ![i] = NothingWritten]
  /\ Goto(i, "raised")
  /\ UNCHANGED <<file, tables, cache, next, dropped, attempt>>

(* The server aborts one of the imports that wait for each other. *)
Abort(i) ==
  /\ \E s \in SUBSET Imports : i \in s /\ Deadlocked(s)
  /\ Rollback(i)

(* A statement or the commit is refused, or the connection is lost. *)
Refuse(i) == i \in Troubled /\ pc[i] \in Running /\ Rollback(i)

(* Bug: the retry is a new message, whose count begins again. *)
RetryAnew(i) ==
  /\ pc[i] = "raised"
  /\ Goto(i, "idle")
  /\ UNCHANGED <<file, tables, tx, cache, next, dropped, attempt>>

(* Bug: the retries are counted but not bounded. *)
RetryUnbounded(i) ==
  /\ pc[i] = "raised"
  /\ Goto(i, "idle") /\ retries' = [retries EXCEPT ![i] = @ + 1]
  /\ UNCHANGED <<file, tables, tx, cache, next, dropped, began>>

(* The countdown is any delay: the imports that were in the way may have   *)
(* gone on by one statement or be over.                                    *)
Retry(i) ==
  /\ pc[i] = "raised"
  /\ IF retries[i] < MaxRetries
     THEN Goto(i, "idle") /\ retries' = [retries EXCEPT ![i] = @ + 1]
     ELSE Goto(i, "failed") /\ UNCHANGED retries
  /\ UNCHANGED <<file, tables, tx, cache, next, dropped, began>>

Progress(i) ==
  \/ Begin(i) \/ UpsertProduct(i) \/ ResolveProduct(i) \/ ResolveLocation(i)
  \/ CreateLocation(i) \/ FindTransaction(i) \/ InsertTransaction(i) \/ UpsertBatch(i)
  \/ Commit(i) \/ Retry(i)

Step(i) == Progress(i) \/ Abort(i) \/ Refuse(i)

Next == \E i \in Imports : Step(i)

Spec == Init /\ [][Next]_vars

(* Each import is a task of a worker, and the server finds deadlocks. *)
FairSpec == Spec /\ \A i \in Imports : WF_vars(Progress(i) \/ Abort(i))

-----------------------------------------------------------------------------
(* Properties. *)

Committed(i) == pc[i] = "committed"

(* Neither of two committed imports had committed when the other began. *)
Overlapped(i, j) ==
  i # j /\ \E m, n \in 1 .. Len(commits) :
    commits[m] = i /\ commits[n] = j /\ began[i] < n /\ began[j] < m

ProductRows(i, sku) == {n \in 1 .. Len(file[i]) : file[i][n] = [kind |-> "product", sku |-> sku]}
Last(s) == CHOOSE n \in s : \A m \in s : m <= n

(* However product imports interleave, the catalogue is the one that their *)
(* files leave behind when run one after another in commit order: no mix   *)
(* of two files, and the last row of a repeated code wins.                 *)
SerialInCommitOrder ==
  \A s \in Skus :
    LET writers == {n \in 1 .. Len(commits) : ProductRows(commits[n], s) # {}}
        winner == commits[Last(writers)]
    IN  upserted[ProductKey(s)].by =
          IF writers = {} THEN Initial(ProductKey(s)).by
          ELSE <<winner, Last(ProductRows(winner, s))>>

NameOf(id) == (CHOOSE p \in places : p.id = id).name

(* A transaction is stored a second time only by an import that ran at the *)
(* same time as the one that stored it first: importing a file again, or a *)
(* file that repeats a row, adds nothing (create_transaction's lookup).    *)
(* Two executions of one job are two imports of one file here: a delivery  *)
(* repeated while the first still runs can store its rows twice.           *)
RepeatedOnlyInOverlap ==
  \A t, u \in ledger :
    t # u /\ t.sku = u.sku /\ t.item = u.item /\ NameOf(t.place) = NameOf(u.place)
      => Overlapped(t.id[1], u.id[1])

(* A location name is created a second time only by an import that ran at  *)
(* the same time as the one that created it first (_resolve_location).     *)
CreatedTwiceOnlyInOverlap ==
  \A p, q \in places : p # q /\ p.name = q.name => Overlapped(p.id[1], q.id[1])

(* Every committed batch and transaction refers to a committed product and *)
(* location: an id cached by an attempt that was rolled back is never used *)
(* by a later one, and the foreign keys never refuse a row.                *)
ReferencesResolve ==
  LET ids == {p.id : p \in places}
  IN  /\ \A t \in ledger : t.place \in ids /\ upserted[ProductKey(t.sku)] # NoVersion
      /\ \A s \in Skus, b \in Items :
           LET batch == upserted[<<"batch", s, b>>]
           IN  batch # NoVersion
                 => batch.place \in ids \cup {Nobody} /\ upserted[ProductKey(s)] # NoVersion

(* A row is left out of a committed import only because of two others that *)
(* overlapped: they stored two locations of its name, or its transaction   *)
(* twice, and each now stands in the way of the lookup.                    *)
DroppedOnlyAfterOverlap ==
  \A i \in Imports : Committed(i) => \A n \in dropped[i] :
    LET row == file[i][n]
    IN  \/ \E p, q \in places :
             /\ p # q /\ p.name = row.location /\ q.name = row.location
             /\ Overlapped(p.id[1], q.id[1])
        \/ \E t, u \in ledger :
             /\ t # u /\ \A s \in {t, u} : /\ s.sku = row.sku /\ s.item = row.item
                                         /\ NameOf(s.place) = row.location
             /\ Overlapped(t.id[1], u.id[1])

(* All or nothing, seen from the tables: a location, transaction or batch  *)
(* in them is that of a row of a committed import, its location included.  *)
(* Nothing is there of an attempt that was rolled back, and no id in a     *)
(* cache leads to another location than the one the row names.             *)
RowOf(id) == file[id[1]][id[2]]

OnlyCommittedRows ==
  /\ \A p \in places : Committed(p.id[1]) /\ RowOf(p.id).location = p.name
  /\ \A t \in ledger :
       /\ Committed(t.id[1])
       /\ RowOf(t.id) = [kind |-> "transaction", sku |-> t.sku, item |-> t.item,
                         location |-> NameOf(t.place)]
  /\ \A s \in Skus, b \in Items :
       LET batch == upserted[<<"batch", s, b>>]
       IN  batch # NoVersion =>
             /\ Committed(batch.by[1])
             /\ RowOf(batch.by) =
                  [kind |-> "batch", sku |-> s, item |-> b,
                   location |-> IF batch.place = Nobody THEN NoLocation ELSE NameOf(batch.place)]

(* When _resolve_product may reject row n: nothing that i is sure to see   *)
(* has stored the product, neither the catalogue and what was committed    *)
(* before its attempt began nor an earlier row of its file.                *)
Unknown(i, n) ==
  LET sku == file[i][n].sku
  IN  /\ sku \notin Catalogue
      /\ \A m \in 1 .. began[i] : ProductRows(commits[m], sku) = {}
      /\ \A m \in ProductRows(i, sku) : m >= n

Stored(row) ==
  /\ row.kind = "product" => upserted[ProductKey(row.sku)] # NoVersion
  /\ row.kind = "batch" => upserted[BatchKey(row)] # NoVersion
  /\ row.kind = "transaction" => \E t \in ledger :
       t.sku = row.sku /\ t.item = row.item /\ NameOf(t.place) = row.location

(* No row of a committed import gets lost on its way: it is in the tables, *)
(* or was left out for one of two reasons, an unknown product or a lookup  *)
(* with two matches.  A rollback, a retry, a cached location or a row that *)
(* repeats another one is not a reason.                                    *)
EveryRowAccountedFor ==
  \A i \in Imports : Committed(i) => \A n \in 1 .. Len(file[i]) :
    \/ Stored(file[i][n])
    \/ file[i][n].kind # "product" /\ Unknown(i, n)
    \/ n \in dropped[i]

(* The lock that row n of import i asks for.  A product row always gets    *)
(* it; a batch row may be rejected before.                                 *)
Asks(i, n, k) ==
  \/ file[i][n].kind = "product" /\ k = ProductKey(file[i][n].sku)
  \/ file[i][n].kind = "batch" /\ k = BatchKey(file[i][n])

(* Import i may hold k when it first asks for l. *)
LocksBefore(i, k, l) ==
  \E m, n \in 1 .. Len(file[i]) :
    /\ m < n /\ k # l /\ Asks(i, m, k) /\ Asks(i, n, l)
    /\ file[i][n].kind = "product" => \A h \in 1 .. n - 1 : ~Asks(i, h, l)

(* The files agree on an order of the rows they lock: of any of these rows *)
(* there is one that no import locks after another of them.                *)
OneLockOrder ==
  \A s \in (SUBSET Keys) \ {{}} : \E l \in s : \A k \in s, i \in Imports : ~LocksBefore(i, k, l)

(* Only the order of the files can make imports fail each other: if they   *)
(* agree on one, no import is ever a deadlock victim, whatever the         *)
(* locations, transactions and lookups between its upserts.                *)
VictimsOnlyByLockOrder ==
  (\E i \in Imports \ Troubled : retries[i] > 0 \/ pc[i] \in {"raised", "failed"})
    => ~OneLockOrder

(* No import waits for ever: rows are locked to the end of a transaction,  *)
(* a deadlock has a victim, and the victim's attempts are bounded.  An     *)
(* import that takes its retries soon enough can lose all of them against  *)
(* a long one, and then it has failed.                                     *)
EveryImportEnds == \A i \in Imports : <>(pc[i] \in {"committed", "failed"})

(* The worker "persists valid records, and records bounded API-visible     *)
(* errors" (architecture.md:51): no row of a committed import is left out  *)
(* without an entry in errors.                                             *)
ValidRowsPersisted == \A i \in Imports : Committed(i) => dropped[i] = {}

=============================================================================
