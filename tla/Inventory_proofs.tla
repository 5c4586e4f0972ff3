-------------------------- MODULE Inventory_proofs --------------------------
(***************************************************************************)
(* What concurrent imports leave in the inventory tables, for every number *)
(* of imports and all their files.                                         *)
(***************************************************************************)
EXTENDS Inventory, FiniteSetTheorems, TLAPS

Positions == Running \cup {"idle", "raised", "committed", "failed"}

-----------------------------------------------------------------------------
(* Types, and the row each import is at. *)

RowAt(i) ==
  /\ pc[i] \in Running \ {"row"} => next[i] <= Len(file[i]) /\ Row(i).kind # "product"
  /\ pc[i] \in {"location", "create"} => Row(i).location # NoLocation
  /\ pc[i] \in {"find", "insert"} => Row(i).kind = "transaction"
  /\ pc[i] = "upsert" => Row(i).kind = "batch"
  /\ pc[i] \in {"find", "insert", "upsert"} /\ Row(i).location # NoLocation
       => Resolved(i, Row(i).location) # {}

AtItsRow == \A i \in Imports : RowAt(i)

LEMMA RowIsTyped ==
  ASSUME TypeOK, NEW i \in Imports
  PROVE  /\ file[i] \in Seq(Rows) /\ Len(file[i]) \in Nat
         /\ next[i] <= Len(file[i]) => Row(i) \in Rows
<1>1. file[i] \in Seq(Rows)
  BY InventoryAssumption DEF TypeOK
<1>2. next[i] \in Nat \ {0}
  BY DEF TypeOK
<1> QED
  BY <1>1, <1>2 DEF Row

LEMMA KindsOfRows ==
  ASSUME NEW r \in Rows
  PROVE  /\ r.kind \in {"product", "batch", "transaction"} /\ r.sku \in Skus
         /\ r.kind # "product" => r.item \in Items /\ r.location \in Locations \cup {NoLocation}
         /\ r.kind = "transaction" => r.location \in Locations /\ r.location # NoLocation
BY InventoryAssumption DEF Rows

LEMMA WriterIsTyped ==
  ASSUME TypeOK, NEW i \in Imports
  PROVE  Me(i) \in Writers
BY DEF TypeOK, Me, Writers

LEMMA PlaceIsTyped ==
  ASSUME TypeOK, NEW i \in Imports, Resolved(i, Row(i).location) # {}
  PROVE  /\ Place(i) \in Writers
         /\ \E p \in cache[i] : p.name = Row(i).location /\ p.id = Place(i)
<1> DEFINE c == CHOOSE p \in Resolved(i, Row(i).location) : TRUE
<1>1. c \in Resolved(i, Row(i).location)
  OBVIOUS
<1>2. c \in cache[i] /\ c.name = Row(i).location /\ c \in Places
  BY <1>1 DEF Resolved, TypeOK
<1>3. Place(i) = c.id
  BY DEF Place
<1> QED
  BY <1>2, <1>3 DEF Places

LEMMA TypesInitially == Init => TypeOK /\ AtItsRow
<1> SUFFICES ASSUME Init PROVE TypeOK /\ AtItsRow
  OBVIOUS
<1>1. \A k : Initial(k) \in Versions \cup {NoVersion}
  BY DEF Initial, Versions, NoVersion
<1>2. \A i \in Imports : file[i] \in Files[i]
  BY DEF Init
<1>3. NothingWritten \in [upserts : SUBSET (Keys \X Versions), places : SUBSET Places,
                          ledger : SUBSET Entries]
  BY DEF NothingWritten
<1>4. TypeOK
  BY <1>1, <1>2, <1>3, InventoryAssumption DEF Init, TypeOK
<1>5. AtItsRow
  BY DEF Init, AtItsRow, RowAt, Running
<1> QED
  BY <1>4, <1>5

(* A step of i that goes to another statement. *)
LEMMA MovesOn ==
  ASSUME TypeOK, NEW i \in Imports, NEW to, to \in Positions, Goto(i, to)
  PROVE  /\ pc' \in [Imports -> Positions]
         /\ pc'[i] = to /\ \A j \in Imports \ {i} : pc'[j] = pc[j]
BY DEF TypeOK, Goto, Positions, Running

LEMMA NextRowMovesOn ==
  ASSUME TypeOK, NEW i \in Imports, NextRow(i)
  PROVE  /\ pc' \in [Imports -> Positions]
         /\ pc'[i] = "row" /\ \A j \in Imports \ {i} : pc'[j] = pc[j]
         /\ next' \in [Imports -> Nat \ {0}]
         /\ next'[i] = next[i] + 1 /\ \A j \in Imports \ {i} : next'[j] = next[j]
<1>1. Goto(i, "row") /\ next' = [next EXCEPT ![i] = @ + 1]
  BY DEF NextRow
<1> QED
  BY <1>1, MovesOn DEF TypeOK, Positions, Running

LEMMA DroppedIsTyped ==
  ASSUME TypeOK, NEW i \in Imports, UNCHANGED dropped \/ DropRow(i)
  PROVE  dropped' \in [Imports -> SUBSET Nat]
<1>1. dropped \in [Imports -> SUBSET Nat] /\ next[i] \in Nat
  BY DEF TypeOK
<1>2. CASE DropRow(i)
  <2>1. dropped' = [dropped EXCEPT ![i] = @ \cup {next[i]}]
    BY <1>2 DEF DropRow
  <2> QED
    BY <1>1, <2>1
<1> QED
  BY <1>1, <1>2

(* The imports that do not step stay where they are. *)
LEMMA OthersStay ==
  ASSUME AtItsRow, NEW i \in Imports, file' = file, RowAt(i)',
         \A j \in Imports \ {i} : pc'[j] = pc[j] /\ next'[j] = next[j] /\ cache'[j] = cache[j]
  PROVE  AtItsRow'
<1>1. ASSUME NEW j \in Imports \ {i} PROVE RowAt(j)'
  BY <1>1 DEF AtItsRow, RowAt, Row, Resolved
<1> QED
  BY <1>1 DEF AtItsRow

LEMMA TypesBegin ==
  ASSUME TypeOK, AtItsRow, NEW i \in Imports, Begin(i)
  PROVE  TypeOK' /\ AtItsRow'
<1> USE DEF Begin
<1>1. /\ pc' \in [Imports -> Positions]
      /\ pc'[i] = "row" /\ \A j \in Imports \ {i} : pc'[j] = pc[j]
  BY MovesOn DEF Positions, Running
<1>2. TypeOK'
  <2>1. Len(commits) \in Nat
    BY DEF TypeOK
  <2>2. /\ next' \in [Imports -> Nat \ {0}] /\ cache' \in [Imports -> SUBSET Places]
        /\ dropped' \in [Imports -> SUBSET Nat] /\ began' \in [Imports -> Nat]
    BY <2>1 DEF TypeOK
  <2> QED
    BY <1>1, <2>1, <2>2 DEF TypeOK, tables, Positions, Running
<1>3. RowAt(i)'
  BY <1>1 DEF RowAt, Running
<1> QED
  BY <1>1, <1>2, <1>3, OthersStay DEF TypeOK

LEMMA TypesWrite ==
  ASSUME TypeOK, AtItsRow, NEW i \in Imports, NEW k \in Keys,
         NEW place \in Writers \cup {Nobody}, Write(i, k, place)
  PROVE  TypeOK' /\ AtItsRow'
<1> USE DEF Write
<1>1. /\ pc' \in [Imports -> Positions]
      /\ pc'[i] = "row" /\ \A j \in Imports \ {i} : pc'[j] = pc[j]
      /\ next' \in [Imports -> Nat \ {0}]
      /\ next'[i] = next[i] + 1 /\ \A j \in Imports \ {i} : next'[j] = next[j]
  BY NextRowMovesOn
<1>2. [by |-> Me(i), place |-> place] \in Versions
  BY WriterIsTyped DEF Versions
<1>3. TypeOK'
  <2>1. tx' \in [Imports -> [upserts : SUBSET (Keys \X Versions), places : SUBSET Places,
                             ledger : SUBSET Entries]]
    <3> DEFINE u == {e \in tx[i].upserts : e[1] # k}
                      \cup {<<k, [by |-> Me(i), place |-> place]>>}
    <3>1. tx[i].upserts \subseteq Keys \X Versions
      BY DEF TypeOK
    <3>2. u \subseteq Keys \X Versions
      BY <1>2, <3>1
    <3>3. tx' = [tx EXCEPT ![i].upserts = u]
      OBVIOUS
    <3>4. tx \in [Imports -> [upserts : SUBSET (Keys \X Versions), places : SUBSET Places,
                            ledger : SUBSET Entries]]
      BY DEF TypeOK
    <3> HIDE DEF u, Write
    <3> QED
      BY <3>2, <3>3, <3>4
  <2> QED
    BY <1>1, <2>1 DEF TypeOK, tables, attempt, Positions, Running
<1>4. RowAt(i)'
  BY <1>1 DEF RowAt, Running
<1> QED
  BY <1>1, <1>3, <1>4, OthersStay

LEMMA TypesUpsert ==
  ASSUME TypeOK, AtItsRow, NEW i \in Imports, UpsertProduct(i) \/ UpsertBatch(i)
  PROVE  TypeOK' /\ AtItsRow'
<1>1. CASE UpsertProduct(i)
  <2>1. Row(i).sku \in Skus
    BY <1>1, RowIsTyped, KindsOfRows DEF UpsertProduct, At
  <2> QED
    BY <1>1, <2>1, TypesWrite DEF UpsertProduct, Keys
<1>2. CASE UpsertBatch(i)
  <2>1. Row(i) \in Rows /\ Row(i).kind = "batch"
    BY <1>2, RowIsTyped DEF UpsertBatch, At, AtItsRow, RowAt
  <2>2. BatchKey(Row(i)) \in Keys
    BY <2>1, KindsOfRows DEF BatchKey, Keys
  <2>3. (IF Row(i).location = NoLocation THEN Nobody ELSE Place(i)) \in Writers \cup {Nobody}
    BY <1>2, PlaceIsTyped DEF UpsertBatch, At, AtItsRow, RowAt
  <2> QED
    BY <1>2, <2>2, <2>3, TypesWrite DEF UpsertBatch
<1> QED
  BY <1>1, <1>2

LEMMA TypesResolveProduct ==
  ASSUME TypeOK, AtItsRow, NEW i \in Imports, ResolveProduct(i)
  PROVE  TypeOK' /\ AtItsRow'
<1> USE DEF ResolveProduct
<1>1. Row(i) \in Rows /\ Row(i).kind # "product" /\ next[i] <= Len(file[i])
  BY RowIsTyped DEF At
<1>2. CASE NextRow(i)
  <2>1. TypeOK' /\ RowAt(i)'
    BY <1>2, NextRowMovesOn DEF TypeOK, tables, attempt, Positions, RowAt, Running
  <2> QED
    BY <1>2, <2>1, NextRowMovesOn, OthersStay
<1>3. CASE /\ Goto(i, IF Row(i).location = NoLocation THEN "upsert" ELSE "location")
           /\ UNCHANGED next
  <2> DEFINE to == IF Row(i).location = NoLocation THEN "upsert" ELSE "location"
  <2>1. to \in Positions /\ Goto(i, to)
    BY <1>3 DEF Positions, Running
  <2>2. /\ pc' \in [Imports -> Positions]
        /\ pc'[i] = to /\ \A j \in Imports \ {i} : pc'[j] = pc[j]
    BY <2>1, MovesOn
  <2>3. TypeOK'
    BY <1>3, <2>2 DEF TypeOK, tables, attempt, Positions, Running
  <2>4. Row(i)' = Row(i)
    BY <1>3 DEF Row
  <2>5. RowAt(i)'
    BY <1>1, <1>3, <2>2, <2>4, KindsOfRows DEF RowAt, Running
  <2> QED
    BY <1>3, <2>2, <2>3, <2>5, OthersStay
<1> QED
  BY <1>2, <1>3

LEMMA TypesResolveLocation ==
  ASSUME TypeOK, AtItsRow, NEW i \in Imports, ResolveLocation(i)
  PROVE  TypeOK' /\ AtItsRow'
<1> DEFINE found == PlacesNamed(i, Row(i).location)
           to == IF Row(i).kind = "batch" THEN "upsert" ELSE "find"
<1>1. /\ Row(i) \in Rows /\ Row(i).kind # "product" /\ next[i] <= Len(file[i])
      /\ Row(i).location # NoLocation /\ pc[i] = "location"
      /\ UNCHANGED <<file, tables, tx, attempt>>
  BY RowIsTyped DEF ResolveLocation, At, AtItsRow, RowAt, Running
<1>2. found \subseteq Places
  BY DEF PlacesNamed, TypeOK
<1>3. CASE /\ Store(i) /\ UNCHANGED <<next, dropped>>
           /\ \/ UNCHANGED cache /\ Resolved(i, Row(i).location) # {}
              \/ cache' = [cache EXCEPT ![i] = @ \cup found] /\ found # {}
  <2>1. to \in Positions /\ Goto(i, to)
    BY <1>3 DEF Store, Positions, Running
  <2>2. pc' \in [Imports -> Positions] /\ pc'[i] = to /\ \A j \in Imports \ {i} : pc'[j] = pc[j]
    BY <2>1, MovesOn
  <2>3. cache' \in [Imports -> SUBSET Places] /\ \A j \in Imports \ {i} : cache'[j] = cache[j]
    <3>1. cache \in [Imports -> SUBSET Places]
      BY DEF TypeOK
    <3>2. cache' = cache \/ cache' = [cache EXCEPT ![i] = @ \cup found]
      BY <1>3
    <3> QED
      BY <1>2, <3>1, <3>2
  <2>4. TypeOK'
    BY <1>1, <1>3, <2>2, <2>3 DEF TypeOK, tables, attempt, Positions, Running
  <2>5. Row(i)' = Row(i)
    BY <1>1, <1>3 DEF Row
  <2>6. Resolved(i, Row(i).location)' # {}
    <3>1. \A p \in found : p.name = Row(i).location
      BY DEF PlacesNamed
    <3>2. \E p \in cache'[i] : p.name = Row(i).location
      <4>1. CASE UNCHANGED cache /\ Resolved(i, Row(i).location) # {}
        BY <4>1 DEF Resolved
      <4>2. CASE cache' = [cache EXCEPT ![i] = @ \cup found] /\ found # {}
        <5>1. cache'[i] = cache[i] \cup found
          BY <4>2 DEF TypeOK
        <5> QED
          BY <3>1, <4>2, <5>1
      <4> QED
        BY <1>3, <4>1, <4>2
    <3> QED
      BY <2>5, <3>2 DEF Resolved
  <2>7. RowAt(i)'
    BY <1>1, <1>3, <2>2, <2>5, <2>6, KindsOfRows DEF RowAt, Running
  <2> QED
    BY <1>1, <1>3, <2>2, <2>3, <2>4, <2>7, OthersStay
<1>4. CASE Goto(i, "create") /\ UNCHANGED <<cache, next, dropped>>
  <2>1. pc' \in [Imports -> Positions] /\ pc'[i] = "create"
        /\ \A j \in Imports \ {i} : pc'[j] = pc[j]
    BY <1>4, MovesOn DEF Positions, Running
  <2>2. TypeOK'
    BY <1>1, <1>4, <2>1 DEF TypeOK, tables, attempt, Positions, Running
  <2>3. RowAt(i)'
    BY <1>1, <1>4, <2>1 DEF RowAt, Running, Row
  <2> QED
    BY <1>1, <1>4, <2>1, <2>2, <2>3, OthersStay
<1>5. CASE DropRow(i) /\ UNCHANGED cache
  <2>1. NextRow(i)
    BY <1>5 DEF DropRow
  <2>2. dropped' \in [Imports -> SUBSET Nat]
    BY <1>5, DroppedIsTyped
  <2>3. TypeOK' /\ RowAt(i)'
    BY <1>1, <1>5, <2>1, <2>2, NextRowMovesOn
    DEF TypeOK, tables, attempt, Positions, RowAt, Running
  <2> QED
    BY <1>1, <1>5, <2>1, <2>3, NextRowMovesOn, OthersStay
<1>6. \/ /\ Store(i) /\ UNCHANGED <<next, dropped>>
         /\ \/ UNCHANGED cache /\ Resolved(i, Row(i).location) # {}
            \/ cache' = [cache EXCEPT ![i] = @ \cup found] /\ found # {}
      \/ Goto(i, "create") /\ UNCHANGED <<cache, next, dropped>>
      \/ DropRow(i) /\ UNCHANGED cache
  <2>1. found = {} => Cardinality(found) = 0
    BY FS_EmptySet
  <2>2. Cardinality(found) = 1 => found # {}
    BY <2>1
  <2>3. \/ /\ Resolved(i, Row(i).location) # {} /\ Store(i)
           /\ cache' = cache /\ next' = next /\ dropped' = dropped
        \/ Goto(i, "create") /\ cache' = cache /\ next' = next /\ dropped' = dropped
        \/ /\ Cardinality(found) = 1 /\ cache' = [cache EXCEPT ![i] = @ \cup found]
           /\ Store(i) /\ next' = next /\ dropped' = dropped
        \/ DropRow(i) /\ cache' = cache
    BY DEF ResolveLocation
  <2> HIDE DEF found
  <2> QED
    BY <2>2, <2>3
<1> QED
  BY <1>3, <1>4, <1>5, <1>6

LEMMA TypesCreateLocation ==
  ASSUME TypeOK, AtItsRow, NEW i \in Imports, CreateLocation(i)
  PROVE  TypeOK' /\ AtItsRow'
<1> DEFINE place == [id |-> Me(i), name |-> Row(i).location]
           to == IF Row(i).kind = "batch" THEN "upsert" ELSE "find"
<1>1. /\ Row(i) \in Rows /\ Row(i).kind # "product" /\ next[i] <= Len(file[i])
      /\ Row(i).location # NoLocation /\ UNCHANGED <<file, tables, next, dropped, attempt>>
  BY RowIsTyped DEF CreateLocation, At, AtItsRow, RowAt, Running
<1>2. place \in Places /\ place.name = Row(i).location
  BY <1>1, WriterIsTyped, KindsOfRows DEF Places
<1>3. tx' = [tx EXCEPT ![i].places = @ \cup {place}] /\ cache' = [cache EXCEPT ![i] = @ \cup {place}]
  BY DEF CreateLocation
<1>4. pc' \in [Imports -> Positions] /\ pc'[i] = to /\ \A j \in Imports \ {i} : pc'[j] = pc[j]
  BY MovesOn DEF CreateLocation, Store, Positions, Running
<1> HIDE DEF place
<1>5. cache' \in [Imports -> SUBSET Places] /\ place \in cache'[i]
      /\ \A j \in Imports \ {i} : cache'[j] = cache[j]
  BY <1>2, <1>3 DEF TypeOK
<1>6. tx' \in [Imports -> [upserts : SUBSET (Keys \X Versions), places : SUBSET Places,
                           ledger : SUBSET Entries]]
  <2>1. tx \in [Imports -> [upserts : SUBSET (Keys \X Versions), places : SUBSET Places,
                            ledger : SUBSET Entries]]
    BY DEF TypeOK
  <2> QED
    BY <1>2, <1>3, <2>1
<1>7. TypeOK'
  BY <1>1, <1>4, <1>5, <1>6 DEF TypeOK, tables, attempt, Positions, Running
<1>8. RowAt(i)'
  <2>1. Row(i)' = Row(i)
    BY <1>1 DEF Row
  <2>2. Resolved(i, Row(i).location)' # {}
    BY <1>2, <1>5, <2>1 DEF Resolved
  <2> QED
    BY <1>1, <1>4, <2>1, <2>2, KindsOfRows DEF RowAt, Running
<1> QED
  BY <1>1, <1>4, <1>5, <1>7, <1>8, OthersStay

LEMMA TypesFindTransaction ==
  ASSUME TypeOK, AtItsRow, NEW i \in Imports, FindTransaction(i)
  PROVE  TypeOK' /\ AtItsRow'
<1>1. /\ next[i] <= Len(file[i]) /\ pc[i] = "find" /\ Row(i).kind = "transaction"
      /\ UNCHANGED <<file, tables, tx, cache, attempt>>
      /\ Row(i).location # NoLocation => Resolved(i, Row(i).location) # {}
  BY DEF FindTransaction, At, AtItsRow, RowAt
<1>2. CASE Goto(i, "insert") /\ UNCHANGED <<next, dropped>>
  <2>1. pc' \in [Imports -> Positions] /\ pc'[i] = "insert"
        /\ \A j \in Imports \ {i} : pc'[j] = pc[j]
    BY <1>2, MovesOn DEF Positions, Running
  <2>2. TypeOK'
    BY <1>1, <1>2, <2>1 DEF TypeOK, tables, attempt, Positions, Running
  <2>3. RowAt(i)'
    BY <1>1, <1>2, <2>1 DEF RowAt, Running, Row, Resolved
  <2> QED
    BY <1>1, <1>2, <2>1, <2>2, <2>3, OthersStay
<1>3. CASE NextRow(i) /\ (UNCHANGED dropped \/ DropRow(i))
  <2>1. dropped' \in [Imports -> SUBSET Nat]
    BY <1>3, DroppedIsTyped
  <2>2. TypeOK' /\ RowAt(i)'
    BY <1>1, <1>3, <2>1, NextRowMovesOn DEF TypeOK, tables, attempt, Positions, RowAt, Running
  <2> QED
    BY <1>1, <1>3, <2>2, NextRowMovesOn, OthersStay
<1> QED
  BY <1>2, <1>3 DEF FindTransaction, DropRow

LEMMA TypesInsertTransaction ==
  ASSUME TypeOK, AtItsRow, NEW i \in Imports, InsertTransaction(i)
  PROVE  TypeOK' /\ AtItsRow'
<1> DEFINE entry == [id |-> Me(i), sku |-> Row(i).sku, item |-> Row(i).item, place |-> Place(i)]
<1>1. /\ Row(i) \in Rows /\ Row(i).kind = "transaction"
      /\ NextRow(i) /\ UNCHANGED <<file, tables, cache, dropped, attempt>>
      /\ tx' = [tx EXCEPT ![i].ledger = @ \cup {entry}]
  BY RowIsTyped DEF InsertTransaction, At, AtItsRow, RowAt
<1>2. Place(i) \in Writers
  BY <1>1, KindsOfRows, PlaceIsTyped DEF InsertTransaction, At, AtItsRow, RowAt
<1>3. entry \in Entries
  BY <1>1, <1>2, WriterIsTyped, KindsOfRows DEF Entries
<1> HIDE DEF entry
<1>4. tx' \in [Imports -> [upserts : SUBSET (Keys \X Versions), places : SUBSET Places,
                           ledger : SUBSET Entries]]
  <2>1. tx \in [Imports -> [upserts : SUBSET (Keys \X Versions), places : SUBSET Places,
                            ledger : SUBSET Entries]]
    BY DEF TypeOK
  <2> QED
    BY <1>1, <1>3, <2>1
<1>5. TypeOK' /\ RowAt(i)'
  BY <1>1, <1>4, NextRowMovesOn DEF TypeOK, tables, attempt, Positions, RowAt, Running
<1> QED
  BY <1>1, <1>5, NextRowMovesOn, OthersStay

(* What a commit writes of a key: what the import has upserted. *)
LEMMA CommitWrites ==
  ASSUME TypeOK, NEW i \in Imports, Commit(i), NEW k \in Keys
  PROVE  /\ Holds(i, k) => \E v \in Versions : <<k, v>> \in tx[i].upserts /\ upserted'[k] = v
         /\ ~Holds(i, k) => upserted'[k] = upserted[k]
         /\ upserted' \in [Keys -> Versions \cup {NoVersion}]
<1>1. upserted' = [l \in Keys |->
        IF Holds(i, l) THEN (CHOOSE e \in tx[i].upserts : e[1] = l)[2] ELSE upserted[l]]
  BY DEF Commit
<1>2. ASSUME NEW l \in Keys, Holds(i, l)
      PROVE  \E v \in Versions : <<l, v>> \in tx[i].upserts
                                 /\ (CHOOSE e \in tx[i].upserts : e[1] = l)[2] = v
  <2> DEFINE e == CHOOSE e \in tx[i].upserts : e[1] = l
  <2>1. e \in tx[i].upserts /\ e[1] = l
    BY <1>2 DEF Holds
  <2>2. tx[i].upserts \subseteq Keys \X Versions
    BY DEF TypeOK
  <2>3. e = <<l, e[2]>> /\ e[2] \in Versions
    <3> HIDE DEF e
    <3> QED
      BY <2>1, <2>2
  <2> QED
    BY <2>1, <2>3
<1>3. upserted \in [Keys -> Versions \cup {NoVersion}]
  BY DEF TypeOK
<1>4. upserted' \in [Keys -> Versions \cup {NoVersion}]
  <2>1. \A l \in Keys : (IF Holds(i, l) THEN (CHOOSE e \in tx[i].upserts : e[1] = l)[2]
                         ELSE upserted[l]) \in Versions \cup {NoVersion}
    <3> SUFFICES ASSUME NEW l \in Keys
                 PROVE  (IF Holds(i, l) THEN (CHOOSE e \in tx[i].upserts : e[1] = l)[2]
                         ELSE upserted[l]) \in Versions \cup {NoVersion}
      OBVIOUS
    <3> DEFINE written == (CHOOSE e \in tx[i].upserts : e[1] = l)[2]
    <3>1. ASSUME Holds(i, l) PROVE written \in Versions
      <4>1. PICK v \in Versions : written = v
        BY <1>2, <3>1
      <4> HIDE DEF written
      <4> QED
        BY <4>1
    <3>2. upserted[l] \in Versions \cup {NoVersion}
      BY <1>3
    <3> HIDE DEF written
    <3>3. (IF Holds(i, l) THEN written ELSE upserted[l]) \in Versions \cup {NoVersion}
      BY <3>1, <3>2
    <3> QED
      BY <3>3 DEF written
  <2> QED
    BY <1>1, <2>1
<1>5. ASSUME Holds(i, k)
      PROVE  \E v \in Versions : <<k, v>> \in tx[i].upserts /\ upserted'[k] = v
  BY <1>1, <1>2, <1>5
<1>6. ~Holds(i, k) => upserted'[k] = upserted[k]
  BY <1>1
<1> QED
  BY <1>4, <1>5, <1>6

LEMMA TypesCommit ==
  ASSUME TypeOK, AtItsRow, NEW i \in Imports, Commit(i)
  PROVE  TypeOK' /\ AtItsRow'
<1>1. /\ UNCHANGED <<file, cache, next, dropped, attempt>>
      /\ places' = places \cup tx[i].places /\ ledger' = ledger \cup tx[i].ledger
      /\ commits' = Append(commits, i) /\ tx' = [tx EXCEPT ![i] = NothingWritten]
  BY DEF Commit
<1>2. pc' \in [Imports -> Positions] /\ pc'[i] = "committed"
      /\ \A j \in Imports \ {i} : pc'[j] = pc[j]
  BY MovesOn DEF Commit, Positions, Running
<1>3. upserted' \in [Keys -> Versions \cup {NoVersion}]
  <2>1. CASE Keys = {}
    BY <2>1 DEF Commit
  <2>2. CASE Keys # {}
    BY <2>2, CommitWrites
  <2> QED
    BY <2>1, <2>2
<1>4. places' \subseteq Places /\ ledger' \subseteq Entries /\ commits' \in Seq(Imports)
  BY <1>1 DEF TypeOK
<1>5. tx' \in [Imports -> [upserts : SUBSET (Keys \X Versions), places : SUBSET Places,
                           ledger : SUBSET Entries]]
  BY <1>1 DEF TypeOK, NothingWritten
<1>6. TypeOK'
  BY <1>1, <1>2, <1>3, <1>4, <1>5 DEF TypeOK, attempt, Positions, Running
<1>7. RowAt(i)'
  BY <1>2 DEF RowAt, Running
<1> QED
  BY <1>1, <1>2, <1>6, <1>7, OthersStay

LEMMA TypesEnd ==
  ASSUME TypeOK, AtItsRow, NEW i \in Imports, Rollback(i) \/ Retry(i)
  PROVE  TypeOK' /\ AtItsRow'
<1>1. PICK to \in {"raised", "idle", "failed"} :
        Goto(i, to) /\ UNCHANGED <<file, tables, cache, next, dropped, began>>
  BY DEF Rollback, Retry, attempt
<1>2. pc' \in [Imports -> Positions] /\ pc'[i] = to /\ \A j \in Imports \ {i} : pc'[j] = pc[j]
  BY <1>1, MovesOn DEF Positions, Running
<1>3. tx' \in [Imports -> [upserts : SUBSET (Keys \X Versions), places : SUBSET Places,
                           ledger : SUBSET Entries]]
  <2>1. tx' = tx \/ tx' = [tx EXCEPT ![i] = NothingWritten]
    BY DEF Rollback, Retry
  <2>2. NothingWritten \in [upserts : SUBSET (Keys \X Versions), places : SUBSET Places,
                            ledger : SUBSET Entries]
    BY DEF NothingWritten
  <2>3. tx \in [Imports -> [upserts : SUBSET (Keys \X Versions), places : SUBSET Places,
                            ledger : SUBSET Entries]]
    BY DEF TypeOK
  <2> QED
    BY <2>1, <2>2, <2>3
<1>4. retries' \in [Imports -> 0 .. MaxRetries]
  <2>1. retries \in [Imports -> 0 .. MaxRetries] /\ MaxRetries \in Nat
    BY InventoryAssumption DEF TypeOK
  <2>2. \/ retries' = retries
        \/ retries[i] < MaxRetries /\ retries' = [retries EXCEPT ![i] = @ + 1]
    BY DEF Rollback, Retry, attempt
  <2>3. CASE retries[i] < MaxRetries /\ retries' = [retries EXCEPT ![i] = @ + 1]
    <3>1. retries[i] + 1 \in 0 .. MaxRetries
      BY <2>1, <2>3
    <3> QED
      BY <2>1, <2>3, <3>1
  <2> QED
    BY <2>1, <2>2, <2>3
<1>5. TypeOK'
  BY <1>1, <1>2, <1>3, <1>4 DEF TypeOK, tables, Positions, Running
<1>6. RowAt(i)'
  BY <1>2 DEF RowAt, Running
<1> QED
  BY <1>1, <1>2, <1>5, <1>6, OthersStay

LEMMA TypesHold == Spec => [](TypeOK /\ AtItsRow)
<1>1. Init => TypeOK /\ AtItsRow
  BY TypesInitially
<1>2. TypeOK /\ AtItsRow /\ [Next]_vars => TypeOK' /\ AtItsRow'
  <2>1. ASSUME TypeOK, AtItsRow, Next PROVE TypeOK' /\ AtItsRow'
    BY <2>1, TypesBegin, TypesUpsert, TypesResolveProduct, TypesResolveLocation,
       TypesCreateLocation, TypesFindTransaction, TypesInsertTransaction, TypesCommit, TypesEnd
    DEF Next, Step, Progress, Abort, Refuse
  <2>2. ASSUME TypeOK, AtItsRow, UNCHANGED vars PROVE TypeOK' /\ AtItsRow'
    BY <2>2 DEF vars, TypeOK, AtItsRow, RowAt, Row, Resolved
  <2> QED
    BY <2>1, <2>2
<1> QED
  BY <1>1, <1>2, PTL DEF Spec

(* Every table, transaction and cache is well typed. *)
THEOREM TypeCorrect == Spec => []TypeOK
BY TypesHold, PTL

-----------------------------------------------------------------------------
(* References: what an import has written refers to what it can see.       *)

Visible(i) == places \cup tx[i].places
PlaceSeen(i, id) == \E p \in Visible(i) : p.id = id
Known(i, s) == Exists(i, ProductKey(s))

Refers(i) ==
  /\ pc[i] \in Running => cache[i] \subseteq Visible(i)
  /\ pc[i] \in Running \ {"row"} => Known(i, Row(i).sku)
  /\ \A t \in tx[i].ledger : Known(i, t.sku) /\ PlaceSeen(i, t.place)
  /\ \A e \in tx[i].upserts, s \in Skus, b \in Items : e[1] = <<"batch", s, b>>
       => Known(i, s) /\ (e[2].place = Nobody \/ PlaceSeen(i, e[2].place))

References == ReferencesResolve /\ \A i \in Imports : Refers(i)

(* A step of i leaves the other imports alone; only its commit writes.     *)
Alone(i) ==
  /\ file' = file
  /\ \A j \in Imports \ {i} : /\ tx'[j] = tx[j] /\ cache'[j] = cache[j] /\ pc'[j] = pc[j]
                              /\ next'[j] = next[j] /\ began'[j] = began[j]
  /\ UNCHANGED tables \/ Commit(i)

LEMMA StepAlone ==
  ASSUME TypeOK, NEW i \in Imports, Step(i)
  PROVE  Alone(i)
<1> USE DEF Alone, TypeOK, Goto, NextRow, DropRow, Store, attempt
<1>1. CASE Begin(i)
  BY <1>1 DEF Begin
<1>2. CASE UpsertProduct(i)
  BY <1>2 DEF UpsertProduct, Write
<1>3. CASE UpsertBatch(i)
  BY <1>3 DEF UpsertBatch, Write
<1>4. CASE ResolveProduct(i)
  BY <1>4 DEF ResolveProduct
<1>5. CASE ResolveLocation(i)
  <2>1. \/ UNCHANGED <<cache, next>> /\ (Store(i) \/ Goto(i, "create"))
        \/ UNCHANGED cache /\ NextRow(i)
        \/ cache' = [cache EXCEPT ![i] = @ \cup PlacesNamed(i, Row(i).location)]
           /\ Store(i) /\ UNCHANGED next
    BY <1>5 DEF ResolveLocation
  <2>2. UNCHANGED <<file, tables, tx, began>>
    BY <1>5 DEF ResolveLocation
  <2> QED
    BY <2>1, <2>2
<1>6. CASE CreateLocation(i)
  BY <1>6 DEF CreateLocation
<1>7. CASE FindTransaction(i)
  <2>1. /\ UNCHANGED <<file, tables, tx, cache, began>>
        /\ NextRow(i) \/ (Goto(i, "insert") /\ UNCHANGED next)
    BY <1>7 DEF FindTransaction
  <2> QED
    BY <2>1
<1>8. CASE InsertTransaction(i)
  BY <1>8 DEF InsertTransaction
<1>9. CASE Commit(i)
  BY <1>9 DEF Commit
<1>10. CASE Rollback(i) \/ Retry(i)
  BY <1>10 DEF Rollback, Retry
<1> QED
  BY <1>1, <1>2, <1>3, <1>4, <1>5, <1>6, <1>7, <1>8, <1>9, <1>10 DEF Step, Progress, Abort, Refuse

LEMMA NoVersionIsNone == NoVersion \notin Versions
<1>1. \A w \in Writers : w # Nobody
  BY DEF Writers, Nobody
<1>2. Earlier # Nobody
  BY DEF Earlier, Nobody
<1> QED
  BY <1>1, <1>2 DEF Versions, NoVersion

(* What is committed stays committed. *)
LEMMA TablesGrow ==
  ASSUME TypeOK, NEW i \in Imports, Alone(i)
  PROVE  /\ places \subseteq places' /\ ledger \subseteq ledger'
         /\ \A k \in Keys : upserted[k] # NoVersion => upserted'[k] # NoVersion
<1>1. CASE UNCHANGED tables
  BY <1>1 DEF tables
<1>2. CASE Commit(i)
  <2>1. places' = places \cup tx[i].places /\ ledger' = ledger \cup tx[i].ledger
    BY <1>2 DEF Commit
  <2> QED
    BY <1>2, <2>1, CommitWrites, NoVersionIsNone
<1> QED
  BY <1>1, <1>2 DEF Alone

(* What j sees it goes on seeing, unless its transaction is rolled back. *)
LEMMA SeenStays ==
  ASSUME TypeOK, NEW i \in Imports, Alone(i), NEW j \in Imports,
         tx[j].places \subseteq tx'[j].places,
         \A k \in Keys : Holds(j, k) => Holds(j, k)'
  PROVE  /\ Visible(j) \subseteq Visible(j)'
         /\ \A id : PlaceSeen(j, id) => PlaceSeen(j, id)'
         /\ \A s \in Skus : Known(j, s) => Known(j, s)'
<1>1. Visible(j) \subseteq Visible(j)'
  BY TablesGrow DEF Visible
<1>2. ASSUME NEW s \in Skus, Known(j, s) PROVE Known(j, s)'
  <2>1. ProductKey(s) \in Keys
    BY DEF Keys
  <2> QED
    BY <1>2, <2>1, TablesGrow DEF Known, Exists, Holds, ProductKey
<1> QED
  BY <1>1, <1>2 DEF PlaceSeen

LEMMA RowAtHand ==
  ASSUME TypeOK, AtItsRow, NEW i \in Imports, pc[i] \in Running \ {"row"}
  PROVE  /\ Row(i) \in Rows /\ Row(i).sku \in Skus /\ Row(i).item \in Items
         /\ Row(i).kind # "product" /\ Row(i).location \in Locations \cup {NoLocation}
         /\ next[i] <= Len(file[i])
BY RowIsTyped, KindsOfRows DEF AtItsRow, RowAt

LEMMA OthersRefer ==
  ASSUME TypeOK, AtItsRow, NEW i \in Imports, Alone(i), NEW j \in Imports \ {i}, Refers(j)
  PROVE  Refers(j)'
<1>1. /\ file' = file /\ tx'[j] = tx[j] /\ cache'[j] = cache[j] /\ pc'[j] = pc[j]
      /\ next'[j] = next[j]
  BY DEF Alone
<1>2. /\ Visible(j) \subseteq Visible(j)'
      /\ \A id : PlaceSeen(j, id) => PlaceSeen(j, id)'
      /\ \A s \in Skus : Known(j, s) => Known(j, s)'
  <2>1. \A k \in Keys : Holds(j, k) => Holds(j, k)'
    BY <1>1 DEF Holds
  <2> QED
    BY <1>1, <2>1, SeenStays
<1>3. (pc[j] \in Running => cache[j] \subseteq Visible(j))'
  BY <1>1, <1>2 DEF Refers
<1>4. (pc[j] \in Running \ {"row"} => Known(j, Row(j).sku))'
  <2>1. Row(j)' = Row(j)
    BY <1>1 DEF Row
  <2>2. pc[j] \in Running \ {"row"} => Row(j).sku \in Skus /\ Known(j, Row(j).sku)
    BY RowAtHand DEF Refers
  <2>3. pc[j] \in Running \ {"row"} => \E s \in Skus : s = Row(j).sku /\ Known(j, s)'
    BY <1>2, <2>2
  <2> QED
    BY <1>1, <2>1, <2>3 DEF Known, Exists
<1>5. \A t \in tx[j].ledger : Known(j, t.sku)' /\ PlaceSeen(j, t.place)'
  <2>1. tx[j].ledger \subseteq Entries
    BY DEF TypeOK
  <2> QED
    BY <1>2, <2>1 DEF Refers, Entries
<1>6. \A e \in tx[j].upserts, s \in Skus, b \in Items : e[1] = <<"batch", s, b>>
        => Known(j, s)' /\ (e[2].place = Nobody \/ PlaceSeen(j, e[2].place)')
  BY <1>2 DEF Refers
<1> QED
  <2>1. \A t \in tx'[j].ledger : Known(j, t.sku)' /\ PlaceSeen(j, t.place)'
    BY <1>1, <1>5
  <2>2. \A e \in tx'[j].upserts, s \in Skus, b \in Items : e[1] = <<"batch", s, b>>
          => Known(j, s)' /\ (e[2].place = Nobody \/ PlaceSeen(j, e[2].place)')
    BY <1>1, <1>6
  <2> QED
    BY <1>3, <1>4, <2>1, <2>2 DEF Refers

(* A step of i that keeps its transaction and has only seen locations in   *)
(* its cache. *)
LEMMA LookupRefers ==
  ASSUME TypeOK, AtItsRow, NEW i \in Imports, Refers(i), UNCHANGED <<tx, tables>>,
         pc'[i] \in Running => cache'[i] \subseteq Visible(i),
         pc'[i] \in Running \ {"row"} => Row(i)' = Row(i) /\ Known(i, Row(i).sku)
  PROVE  Refers(i)'
<1>1. Visible(i)' = Visible(i) /\ \A id : PlaceSeen(i, id)' <=> PlaceSeen(i, id)
  BY DEF Visible, PlaceSeen, tables
<1>2. \A s : Known(i, s)' <=> Known(i, s)
  BY DEF Known, Exists, tables
<1>3. (pc[i] \in Running => cache[i] \subseteq Visible(i))'
  BY <1>1
<1>4. (pc[i] \in Running \ {"row"} => Known(i, Row(i).sku))'
  BY <1>2 DEF Known, Exists, tables
<1>5. (\A t \in tx[i].ledger : Known(i, t.sku) /\ PlaceSeen(i, t.place))'
  BY <1>1, <1>2 DEF Refers
<1>6. (\A e \in tx[i].upserts, s \in Skus, b \in Items : e[1] = <<"batch", s, b>>
         => Known(i, s) /\ (e[2].place = Nobody \/ PlaceSeen(i, e[2].place)))'
  BY <1>1, <1>2 DEF Refers
<1> QED
  BY <1>3, <1>4, <1>5, <1>6 DEF Refers

LEMMA WriteRefers ==
  ASSUME TypeOK, NEW i \in Imports, Refers(i), NEW k \in Keys,
         NEW place, Write(i, k, place), pc[i] \in Running,
         \A s \in Skus, b \in Items : k = <<"batch", s, b>>
           => Known(i, s) /\ (place = Nobody \/ PlaceSeen(i, place))
  PROVE  Refers(i)'
<1> DEFINE version == [by |-> Me(i), place |-> place]
<1>1. /\ tx' = [tx EXCEPT ![i].upserts = {e \in @ : e[1] # k} \cup {<<k, version>>}]
      /\ UNCHANGED <<file, tables, cache>> /\ pc'[i] = "row"
  BY NextRowMovesOn DEF Write
<1>2. /\ tx'[i].upserts = {e \in tx[i].upserts : e[1] # k} \cup {<<k, version>>}
      /\ tx'[i].places = tx[i].places /\ tx'[i].ledger = tx[i].ledger
  BY <1>1 DEF TypeOK
<1>3. \A l \in Keys : Holds(i, l) => Holds(i, l)'
  <2>1. <<k, version>>[1] = k
    OBVIOUS
  <2> HIDE DEF version
  <2> QED
    BY <1>2, <2>1 DEF Holds
<1>4. Visible(i)' = Visible(i) /\ \A id : PlaceSeen(i, id)' <=> PlaceSeen(i, id)
  BY <1>1, <1>2 DEF Visible, PlaceSeen, tables
<1>5. \A s \in Skus : Known(i, s) => Known(i, s)'
  BY <1>1, <1>3 DEF Known, Exists, Holds, tables, Keys
<1>6. (pc[i] \in Running => cache[i] \subseteq Visible(i))'
  BY <1>1, <1>4 DEF Refers
<1>7. (\A t \in tx[i].ledger : Known(i, t.sku) /\ PlaceSeen(i, t.place))'
  <2>1. tx[i].ledger \subseteq Entries
    BY DEF TypeOK
  <2> QED
    BY <1>2, <1>4, <1>5, <2>1 DEF Refers, Entries
<1>8. (\A e \in tx[i].upserts, s \in Skus, b \in Items : e[1] = <<"batch", s, b>>
         => Known(i, s) /\ (e[2].place = Nobody \/ PlaceSeen(i, e[2].place)))'
  <2>1. ASSUME NEW e \in tx'[i].upserts, NEW s \in Skus, NEW b \in Items, e[1] = <<"batch", s, b>>
        PROVE  Known(i, s)' /\ (e[2].place = Nobody \/ PlaceSeen(i, e[2].place)')
    <3>1. CASE e \in tx[i].upserts
      BY <1>4, <1>5, <2>1, <3>1 DEF Refers
    <3>2. CASE e = <<k, version>>
      <4>1. k = <<"batch", s, b>> /\ e[2].place = place
        BY <2>1, <3>2
      <4> QED
        BY <1>4, <1>5, <4>1
    <3> QED
      BY <1>2, <2>1, <3>1, <3>2
  <2> QED
    BY <2>1
<1> QED
  BY <1>1, <1>6, <1>7, <1>8 DEF Refers, Running

LEMMA CommitRefers ==
  ASSUME TypeOK, AtItsRow, References, NEW i \in Imports, Commit(i)
  PROVE  ReferencesResolve' /\ Refers(i)'
<1>1. /\ places' = places \cup tx[i].places /\ ledger' = ledger \cup tx[i].ledger
      /\ tx' = [tx EXCEPT ![i] = NothingWritten] /\ pc' = [pc EXCEPT ![i] = "committed"]
      /\ pc[i] = "row"
  BY DEF Commit, Goto
<1>2. Refers(i)'
  <2>1. tx'[i].ledger = {} /\ tx'[i].upserts = {} /\ pc'[i] = "committed"
    BY <1>1 DEF NothingWritten, TypeOK
  <2> QED
    BY <2>1 DEF Refers, Running
<1>3. ASSUME NEW id, PlaceSeen(i, id) PROVE id \in {p.id : p \in places'}
  BY <1>1, <1>3 DEF PlaceSeen, Visible
<1>4. ASSUME NEW s \in Skus, Known(i, s) PROVE upserted'[ProductKey(s)] # NoVersion
  <2>1. ProductKey(s) \in Keys
    BY DEF Keys
  <2>2. CASE Holds(i, ProductKey(s))
    BY <2>1, <2>2, CommitWrites, NoVersionIsNone
  <2>3. CASE ~Holds(i, ProductKey(s))
    BY <1>4, <2>1, <2>3, CommitWrites DEF Known, Exists, Holds
  <2> QED
    BY <2>2, <2>3
<1>5. ASSUME NEW s \in Skus, upserted[ProductKey(s)] # NoVersion
      PROVE  upserted'[ProductKey(s)] # NoVersion
  BY <1>4, <1>5 DEF Known, Exists
<1>6. {p.id : p \in places} \subseteq {p.id : p \in places'}
  BY <1>1
<1>7. ASSUME NEW t \in ledger'
      PROVE  t.place \in {p.id : p \in places'} /\ upserted'[ProductKey(t.sku)] # NoVersion
  <2>1. t.sku \in Skus
    BY <1>1 DEF TypeOK, Entries
  <2>2. CASE t \in ledger
    BY <1>5, <1>6, <2>1, <2>2 DEF References, ReferencesResolve
  <2>3. CASE t \in tx[i].ledger
    BY <1>3, <1>4, <2>1, <2>3 DEF References, Refers
  <2> QED
    BY <1>1, <2>2, <2>3
<1>8. ASSUME NEW s \in Skus, NEW b \in Items, upserted'[<<"batch", s, b>>] # NoVersion
      PROVE  /\ upserted'[<<"batch", s, b>>].place \in {p.id : p \in places'} \cup {Nobody}
             /\ upserted'[ProductKey(s)] # NoVersion
  <2> DEFINE k == <<"batch", s, b>>
  <2>1. k \in Keys
    BY DEF Keys
  <2>2. CASE Holds(i, k)
    <3>1. PICK v \in Versions : <<k, v>> \in tx[i].upserts /\ upserted'[k] = v
      BY <2>1, <2>2, CommitWrites
    <3>2. Known(i, s) /\ (v.place = Nobody \/ PlaceSeen(i, v.place))
      <4>1. \A e \in tx[i].upserts : e[1] = k
              => Known(i, s) /\ (e[2].place = Nobody \/ PlaceSeen(i, e[2].place))
        BY DEF References, Refers
      <4>2. <<k, v>>[1] = k /\ <<k, v>>[2] = v
        OBVIOUS
      <4> HIDE DEF k
      <4> QED
        BY <3>1, <4>1, <4>2
    <3> HIDE DEF k
    <3> QED
      BY <1>3, <1>4, <3>1, <3>2 DEF k
  <2>3. CASE ~Holds(i, k)
    <3>1. upserted'[k] = upserted[k]
      BY <2>1, <2>3, CommitWrites
    <3> QED
      BY <1>5, <1>6, <1>8, <3>1 DEF References, ReferencesResolve
  <2> QED
    BY <2>2, <2>3
<1> QED
  BY <1>2, <1>7, <1>8 DEF ReferencesResolve

LEMMA CreateRefers ==
  ASSUME TypeOK, AtItsRow, NEW i \in Imports, Refers(i), CreateLocation(i), Alone(i)
  PROVE  Refers(i)'
<1> DEFINE place == [id |-> Me(i), name |-> Row(i).location]
<1>1. /\ tx' = [tx EXCEPT ![i].places = @ \cup {place}] /\ pc[i] = "create"
      /\ cache' = [cache EXCEPT ![i] = @ \cup {place}] /\ UNCHANGED <<file, tables, next>>
  BY DEF CreateLocation, At
<1>2. /\ tx'[i].places = tx[i].places \cup {place} /\ cache'[i] = cache[i] \cup {place}
      /\ tx'[i].upserts = tx[i].upserts /\ tx'[i].ledger = tx[i].ledger
  BY <1>1 DEF TypeOK
<1> HIDE DEF place
<1>3. /\ Visible(i)' = Visible(i) \cup {place}
      /\ \A id : PlaceSeen(i, id) => PlaceSeen(i, id)'
      /\ \A s \in Skus : Known(i, s) => Known(i, s)'
  <2>1. \A k \in Keys : Holds(i, k) => Holds(i, k)'
    BY <1>2 DEF Holds
  <2>2. Visible(i)' = Visible(i) \cup {place}
    BY <1>1, <1>2 DEF Visible, tables
  <2> QED
    BY <1>2, <2>1, <2>2, SeenStays
<1>4. Row(i)' = Row(i) /\ Row(i).sku \in Skus /\ Known(i, Row(i).sku) /\ cache[i] \subseteq Visible(i)
  BY <1>1, RowAtHand DEF Row, Refers, Running
<1>5. (pc[i] \in Running \ {"row"} => Known(i, Row(i).sku))'
  <2>1. \E s \in Skus : s = Row(i).sku /\ Known(i, s)'
    BY <1>3, <1>4
  <2> QED
    BY <1>4, <2>1 DEF Known, Exists
<1>6. (\A t \in tx[i].ledger : Known(i, t.sku) /\ PlaceSeen(i, t.place))'
  <2>1. tx[i].ledger \subseteq Entries
    BY DEF TypeOK
  <2> QED
    BY <1>2, <1>3, <2>1 DEF Refers, Entries
<1>7. (\A e \in tx[i].upserts, s \in Skus, b \in Items : e[1] = <<"batch", s, b>>
         => Known(i, s) /\ (e[2].place = Nobody \/ PlaceSeen(i, e[2].place)))'
  BY <1>2, <1>3 DEF Refers
<1>8. (pc[i] \in Running => cache[i] \subseteq Visible(i))'
  BY <1>2, <1>3, <1>4
<1> QED
  BY <1>5, <1>6, <1>7, <1>8 DEF Refers

LEMMA InsertRefers ==
  ASSUME TypeOK, AtItsRow, NEW i \in Imports, Refers(i), InsertTransaction(i), Alone(i)
  PROVE  Refers(i)'
<1> DEFINE entry == [id |-> Me(i), sku |-> Row(i).sku, item |-> Row(i).item, place |-> Place(i)]
<1>1. /\ tx' = [tx EXCEPT ![i].ledger = @ \cup {entry}] /\ pc[i] = "insert" /\ pc'[i] = "row"
      /\ UNCHANGED <<file, tables, cache>>
  BY NextRowMovesOn DEF InsertTransaction, At
<1>2. /\ tx'[i].ledger = tx[i].ledger \cup {entry}
      /\ tx'[i].upserts = tx[i].upserts /\ tx'[i].places = tx[i].places
  BY <1>1 DEF TypeOK
<1>3. Visible(i)' = Visible(i) /\ \A id : PlaceSeen(i, id)' <=> PlaceSeen(i, id)
  BY <1>1, <1>2 DEF Visible, PlaceSeen, tables
<1>4. \A s : Known(i, s)' <=> Known(i, s)
  BY <1>1, <1>2 DEF Known, Exists, tables
<1>5. Known(i, entry.sku) /\ PlaceSeen(i, entry.place)
  <2>1. Known(i, Row(i).sku) /\ cache[i] \subseteq Visible(i)
    BY <1>1 DEF Refers, Running
  <2>2. \E p \in cache[i] : p.id = Place(i)
    BY <1>1, RowIsTyped, KindsOfRows, PlaceIsTyped DEF AtItsRow, RowAt, Running
  <2> QED
    BY <2>1, <2>2 DEF PlaceSeen
<1> HIDE DEF entry
<1>6. (\A t \in tx[i].ledger : Known(i, t.sku) /\ PlaceSeen(i, t.place))'
  BY <1>2, <1>3, <1>4, <1>5 DEF Refers
<1>7. (\A e \in tx[i].upserts, s \in Skus, b \in Items : e[1] = <<"batch", s, b>>
         => Known(i, s) /\ (e[2].place = Nobody \/ PlaceSeen(i, e[2].place)))'
  BY <1>2, <1>3, <1>4 DEF Refers
<1>8. (pc[i] \in Running => cache[i] \subseteq Visible(i))'
  BY <1>1, <1>3 DEF Refers, Running
<1> QED
  BY <1>1, <1>6, <1>7, <1>8 DEF Refers, Running

LEMMA StepRefers ==
  ASSUME TypeOK, AtItsRow, References, NEW i \in Imports, Step(i)
  PROVE  References'
<1>1. Alone(i) /\ Refers(i)
  BY StepAlone DEF References
<1>2. \A j \in Imports \ {i} : Refers(j)'
  BY <1>1, OthersRefer DEF References
<1>3. UNCHANGED tables => ReferencesResolve'
  BY DEF References, ReferencesResolve, tables
<1>4. CASE Begin(i)
  <2>1. cache'[i] = {} /\ pc'[i] = "row" /\ UNCHANGED <<tx, tables>>
    BY <1>4 DEF Begin, Goto, TypeOK
  <2> QED
    BY <1>1, <1>2, <1>3, <2>1, LookupRefers DEF References, Running
<1>5. CASE UpsertProduct(i)
  <2>1. /\ ProductKey(Row(i).sku) \in Keys /\ pc[i] \in Running /\ UNCHANGED tables
        /\ \A s \in Skus, b \in Items : ProductKey(Row(i).sku) # <<"batch", s, b>>
    <3>1. Row(i).sku \in Skus
      BY <1>5, RowIsTyped, KindsOfRows DEF UpsertProduct, At
    <3> QED
      BY <1>5, <3>1 DEF UpsertProduct, At, Keys, ProductKey, Running, Write
  <2> QED
    BY <1>1, <1>2, <1>3, <1>5, <2>1, WriteRefers DEF References, UpsertProduct
<1>6. CASE UpsertBatch(i)
  <2> DEFINE place == IF Row(i).location = NoLocation THEN Nobody ELSE Place(i)
             key == BatchKey(Row(i))
  <2>1. pc[i] = "upsert" /\ UNCHANGED tables /\ Write(i, key, place)
    BY <1>6 DEF UpsertBatch, At, Write
  <2>2. /\ Row(i).sku \in Skus /\ Row(i).item \in Items /\ Known(i, Row(i).sku)
        /\ cache[i] \subseteq Visible(i)
    BY <1>1, <2>1, RowAtHand DEF Refers, Running
  <2>3. key \in Keys /\ \A s \in Skus, b \in Items : key = <<"batch", s, b>> => s = Row(i).sku
    BY <2>2 DEF BatchKey, Keys
  <2>4. place = Nobody \/ PlaceSeen(i, place)
    BY <2>1, <2>2, PlaceIsTyped DEF AtItsRow, RowAt, PlaceSeen
  <2> HIDE DEF place, key
  <2> QED
    BY <1>1, <1>2, <1>3, <2>1, <2>2, <2>3, <2>4, WriteRefers DEF References, Running
<1>7. CASE ResolveProduct(i)
  <2>1. UNCHANGED <<file, tx, tables, cache>> /\ pc[i] = "row"
    BY <1>7 DEF ResolveProduct, At
  <2>2. CASE NextRow(i)
    BY <1>1, <1>2, <1>3, <2>1, <2>2, NextRowMovesOn, LookupRefers DEF References, Refers, Running
  <2>3. CASE UNCHANGED next /\ Known(i, Row(i).sku)
    <3>1. Row(i)' = Row(i)
      BY <2>1, <2>3 DEF Row
    <3> QED
      BY <1>1, <1>2, <1>3, <2>1, <2>3, <3>1, LookupRefers DEF References, Refers, Running
  <2> QED
    BY <1>7, <2>2, <2>3 DEF ResolveProduct, Known
<1>8. CASE ResolveLocation(i)
  <2>1. UNCHANGED <<file, tx, tables>> /\ pc[i] = "location"
    BY <1>8 DEF ResolveLocation, At
  <2>2. cache'[i] \subseteq Visible(i)
    <3>1. PlacesNamed(i, Row(i).location) \subseteq Visible(i) /\ cache[i] \subseteq Visible(i)
      BY <1>1, <2>1 DEF PlacesNamed, Visible, Refers, Running
    <3>2. \/ UNCHANGED cache
          \/ cache' = [cache EXCEPT ![i] = @ \cup PlacesNamed(i, Row(i).location)]
      BY <1>8 DEF ResolveLocation
    <3> QED
      BY <3>1, <3>2 DEF TypeOK
  <2>3. NextRow(i) \/ UNCHANGED next
    BY <1>8 DEF ResolveLocation, DropRow
  <2>4. pc'[i] \in Running \ {"row"} => Row(i)' = Row(i) /\ Known(i, Row(i).sku)
    BY <1>1, <2>1, <2>3, NextRowMovesOn DEF Refers, Running, Row
  <2> QED
    BY <1>1, <1>2, <1>3, <2>1, <2>2, <2>4, LookupRefers DEF References
<1>9. CASE FindTransaction(i)
  <2>1. UNCHANGED <<file, tx, tables, cache>> /\ pc[i] = "find"
    BY <1>9 DEF FindTransaction, At
  <2>2. NextRow(i) \/ UNCHANGED next
    BY <1>9 DEF FindTransaction, DropRow
  <2>3. pc'[i] \in Running \ {"row"} => Row(i)' = Row(i) /\ Known(i, Row(i).sku)
    BY <1>1, <2>1, <2>2, NextRowMovesOn DEF Refers, Running, Row
  <2> QED
    BY <1>1, <1>2, <1>3, <2>1, <2>3, LookupRefers DEF References, Refers, Running
<1>10. CASE Commit(i)
  BY <1>2, <1>10, CommitRefers DEF References
<1>11. CASE Retry(i)
  <2>1. UNCHANGED <<tx, tables>> /\ pc'[i] \notin Running
    BY <1>11 DEF Retry, Goto, TypeOK, Running
  <2> QED
    BY <1>1, <1>2, <1>3, <2>1, LookupRefers DEF References
<1>12. CASE Rollback(i)
  <2>1. /\ tx'[i].ledger = {} /\ tx'[i].upserts = {} /\ pc'[i] \notin Running
        /\ UNCHANGED tables
    BY <1>12 DEF Rollback, Goto, TypeOK, Running, NothingWritten
  <2> QED
    BY <1>2, <1>3, <2>1 DEF References, Refers
<1>13. CASE CreateLocation(i) \/ InsertTransaction(i)
  <2>1. UNCHANGED tables
    BY <1>13 DEF CreateLocation, InsertTransaction
  <2> QED
    BY <1>1, <1>2, <1>3, <1>13, <2>1, CreateRefers, InsertRefers DEF References
<1> QED
  BY <1>4, <1>5, <1>6, <1>7, <1>8, <1>9, <1>10, <1>11, <1>12, <1>13
  DEF Step, Progress, Abort, Refuse

LEMMA ReferencesHold == Spec => []References
<1>1. Init => References
  BY DEF Init, References, Refers, ReferencesResolve, Running, NothingWritten, Initial, Keys,
         ProductKey
<1>2. TypeOK /\ AtItsRow /\ References /\ [Next]_vars => References'
  <2>1. CASE UNCHANGED vars
    BY <2>1 DEF vars, References, ReferencesResolve, Refers, Known, Exists, PlaceSeen, Visible, Row
  <2> QED
    BY <2>1, StepRefers DEF Next
<1> QED
  BY <1>1, <1>2, TypesHold, PTL DEF Spec

(* Every committed batch and transaction refers to a committed product and *)
(* location, whatever the files and however the imports interleave, abort  *)
(* and are retried. *)
THEOREM ReferencesResolveHolds == Spec => []ReferencesResolve
<1>1. References => ReferencesResolve
  BY DEF References
<1> QED
  BY <1>1, ReferencesHold, PTL

-----------------------------------------------------------------------------
(* Overlap: who commits after another has begun. *)

(* j committed after the attempt of i had begun. *)
Late(i, j) == \E n \in 1 .. Len(commits) : commits[n] = j /\ began[i] < n

Ordered(i) ==
  /\ began[i] <= Len(commits)
  /\ (\E n \in 1 .. Len(commits) : commits[n] = i) <=> pc[i] = "committed"
  /\ pc[i] \notin Running => tx[i] = NothingWritten

Finite ==
  /\ IsFiniteSet(places) /\ IsFiniteSet(ledger)
  /\ \A i \in Imports : IsFiniteSet(tx[i].places) /\ IsFiniteSet(tx[i].ledger)

Order == Finite /\ \A i \in Imports : Ordered(i)

LEMMA CommitsGrow ==
  ASSUME TypeOK, NEW i \in Imports, Alone(i)
  PROVE  /\ Len(commits) \in Nat /\ Len(commits') \in Nat /\ Len(commits) <= Len(commits')
         /\ \A n \in 1 .. Len(commits) : commits'[n] = commits[n]
         /\ Commit(i) => /\ Len(commits') = Len(commits) + 1 /\ commits'[Len(commits')] = i
                         /\ Len(commits') \in 1 .. Len(commits')
         /\ ~Commit(i) => commits' = commits
<1>1. commits \in Seq(Imports)
  BY DEF TypeOK
<1>2. ~Commit(i) => commits' = commits
  BY DEF Alone, tables
<1>3. CASE commits' = Append(commits, i)
  BY <1>1, <1>2, <1>3
<1>4. CASE commits' = commits /\ ~Commit(i)
  BY <1>1, <1>4
<1> QED
  BY <1>2, <1>3, <1>4 DEF Commit

LEMMA LateStays ==
  ASSUME TypeOK, NEW i \in Imports, Alone(i), NEW j \in Imports, began'[j] = began[j]
  PROVE  \A k : Late(j, k) => Late(j, k)'
<1>1. 1 .. Len(commits) \subseteq 1 .. Len(commits')
  BY CommitsGrow
<1> QED
  BY <1>1, CommitsGrow DEF Late

LEMMA LateWhenCommitted ==
  ASSUME TypeOK, NEW i \in Imports, Alone(i), Commit(i), NEW j \in Imports, Ordered(j),
         began'[j] = began[j]
  PROVE  Late(j, i)'
<1>1. began[j] \in Nat /\ began[j] <= Len(commits)
  BY DEF Ordered, TypeOK
<1>2. Len(commits) \in Nat /\ Len(commits') = Len(commits) + 1
  BY CommitsGrow
<1>3. began[j] < Len(commits')
  BY <1>1, <1>2
<1> QED
  BY <1>1, <1>3, CommitsGrow DEF Late

(* Only a running import is rolled back: a victim waits for a lock. *)
LEMMA RunningRollback ==
  ASSUME NEW i \in Imports, Abort(i) \/ Refuse(i)
  PROVE  Rollback(i) /\ pc[i] \in Running
<1>1. CASE Refuse(i)
  BY <1>1 DEF Refuse
<1>2. CASE Abort(i)
  <2>1. PICK s \in SUBSET Imports : i \in s /\ Deadlocked(s)
    BY <1>2 DEF Abort
  <2>2. PICK j \in s : WaitsFor(i, j)
    BY <2>1 DEF Deadlocked
  <2> QED
    BY <1>2, <2>2 DEF Abort, WaitsFor, At, Running
<1> QED
  BY <1>1, <1>2

LEMMA CommittedAreDone ==
  ASSUME TypeOK, NEW i \in Imports, Step(i)
  PROVE  pc[i] # "committed"
<1>1. CASE Abort(i) \/ Refuse(i)
  BY <1>1, RunningRollback DEF Running
<1>2. CASE Progress(i)
  BY <1>2 DEF Progress, Begin, UpsertProduct, ResolveProduct, ResolveLocation, CreateLocation,
       FindTransaction, InsertTransaction, UpsertBatch, Commit, Retry, At
<1> QED
  BY <1>1, <1>2 DEF Step

(* How a step of i changes its transaction, and when its attempt begins. *)
LEMMA OwnTransaction ==
  ASSUME TypeOK, NEW i \in Imports, Step(i)
  PROVE  /\ \/ tx'[i].places = tx[i].places
            \/ \E p : tx'[i].places = tx[i].places \cup {p}
            \/ tx'[i].places = {}
         /\ \/ tx'[i].ledger = tx[i].ledger
            \/ \E t : tx'[i].ledger = tx[i].ledger \cup {t}
            \/ tx'[i].ledger = {}
         /\ began' = began \/ Begin(i)
         /\ pc'[i] \in Running \/ tx'[i] = NothingWritten \/ (tx'[i] = tx[i] /\ pc[i] \notin Running)
         /\ Commit(i) <=> pc'[i] = "committed"
<1> USE DEF TypeOK, Goto, NextRow, DropRow, Store, attempt, Running
<1>1. CASE Begin(i) \/ Retry(i)
  BY <1>1 DEF Begin, Retry, Commit
<1>2. CASE UpsertProduct(i) \/ UpsertBatch(i)
  BY <1>2 DEF UpsertProduct, UpsertBatch, Write, Commit
<1>3. CASE ResolveProduct(i)
  BY <1>3 DEF ResolveProduct, Commit
<1>4. CASE ResolveLocation(i) \/ FindTransaction(i)
  <2>1. /\ tx' = tx /\ began' = began
        /\ Store(i) \/ Goto(i, "create") \/ Goto(i, "insert") \/ NextRow(i)
    BY <1>4 DEF ResolveLocation, FindTransaction
  <2>2. pc'[i] \in Running
    BY <2>1
  <2>3. ~Commit(i)
    BY <2>2 DEF Commit
  <2> QED
    BY <2>1, <2>2, <2>3
<1>5. CASE CreateLocation(i)
  BY <1>5 DEF CreateLocation, Commit
<1>6. CASE InsertTransaction(i)
  BY <1>6 DEF InsertTransaction, Commit
<1>7. CASE Commit(i)
  BY <1>7 DEF Commit, NothingWritten
<1>8. CASE Rollback(i)
  BY <1>8 DEF Rollback, NothingWritten, Commit
<1> QED
  BY <1>1, <1>2, <1>3, <1>4, <1>5, <1>6, <1>7, <1>8 DEF Step, Progress, Abort, Refuse

LEMMA StepFinite ==
  ASSUME TypeOK, Finite, NEW i \in Imports, Step(i)
  PROVE  Finite'
<1>1. /\ IsFiniteSet(tx[i].places) /\ IsFiniteSet(tx[i].ledger) /\ IsFiniteSet({})
      /\ IsFiniteSet(places) /\ IsFiniteSet(ledger)
  BY FS_EmptySet DEF Finite
<1>2. IsFiniteSet(tx'[i].places)
  <2>1. \A p : IsFiniteSet(tx[i].places \cup {p})
    BY <1>1, FS_AddElement
  <2> QED
    BY <1>1, <2>1, OwnTransaction
<1>3. IsFiniteSet(tx'[i].ledger)
  <2>1. \A t : IsFiniteSet(tx[i].ledger \cup {t})
    BY <1>1, FS_AddElement
  <2> QED
    BY <1>1, <2>1, OwnTransaction
<1>4. IsFiniteSet(places') /\ IsFiniteSet(ledger')
  <2>1. CASE UNCHANGED tables
    BY <1>1, <2>1 DEF tables
  <2>2. CASE Commit(i)
    <3>1. IsFiniteSet(places \cup tx[i].places)
      BY <1>1, FS_Union
    <3>2. IsFiniteSet(ledger \cup tx[i].ledger)
      BY <1>1, FS_Union
    <3> QED
      BY <2>2, <3>1, <3>2 DEF Commit
  <2> QED
    BY <2>1, <2>2, StepAlone DEF Alone
<1>5. \A j \in Imports \ {i} : tx'[j] = tx[j]
  BY StepAlone DEF Alone
<1> QED
  BY <1>2, <1>3, <1>4, <1>5 DEF Finite

LEMMA StepOrdered ==
  ASSUME TypeOK, NEW i \in Imports, Step(i), \A j \in Imports : Ordered(j), NEW j \in Imports
  PROVE  Ordered(j)'
<1>1. Alone(i) /\ Ordered(j) /\ pc[i] # "committed"
  BY StepAlone, CommittedAreDone
<1>2. /\ Len(commits) \in Nat /\ Len(commits') \in Nat /\ Len(commits) <= Len(commits')
      /\ \A n \in 1 .. Len(commits) : commits'[n] = commits[n]
  BY <1>1, CommitsGrow
<1>3. began'[j] <= Len(commits')
  <2>1. began[j] \in Nat /\ began[j] <= Len(commits)
    BY <1>1 DEF Ordered, TypeOK
  <2>2. CASE began'[j] = began[j]
    BY <1>2, <2>1, <2>2
  <2>3. CASE j = i /\ Begin(i)
    BY <1>2, <2>3 DEF Begin, TypeOK, tables
  <2> QED
    BY <1>1, <2>2, <2>3, OwnTransaction DEF Alone
<1>4. (\E n \in 1 .. Len(commits') : commits'[n] = j) <=> pc'[j] = "committed"
  <2>1. CASE ~Commit(i)
    <3>1. commits' = commits
      BY <1>1, <2>1, CommitsGrow
    <3>2. pc'[j] = "committed" <=> pc[j] = "committed"
      BY <1>1, <2>1, OwnTransaction DEF Alone
    <3> QED
      BY <1>1, <3>1, <3>2 DEF Ordered
  <2>2. CASE Commit(i)
    <3>1. /\ Len(commits') = Len(commits) + 1 /\ commits'[Len(commits')] = i
      BY <1>1, <2>2, CommitsGrow
    <3>2. CASE j = i
      BY <1>2, <2>2, <3>1, <3>2, OwnTransaction
    <3>3. CASE j # i
      <4>1. \A n \in 1 .. Len(commits') : commits'[n] = j
              => n \in 1 .. Len(commits) /\ commits[n] = j
        BY <1>2, <3>1, <3>3
      <4>2. 1 .. Len(commits) \subseteq 1 .. Len(commits')
        BY <1>2
      <4> QED
        BY <1>1, <1>2, <3>3, <4>1, <4>2 DEF Ordered, Alone
    <3> QED
      BY <3>2, <3>3
  <2> QED
    BY <2>1, <2>2
<1>5. pc'[j] \notin Running => tx'[j] = NothingWritten
  BY <1>1, OwnTransaction DEF Ordered, Alone
<1> QED
  BY <1>3, <1>4, <1>5 DEF Ordered

LEMMA OrderHolds == Spec => []Order
<1>1. Init => Order
  <2> SUFFICES ASSUME Init PROVE Order
    OBVIOUS
  <2>1. Finite
    BY FS_EmptySet DEF Init, Finite, NothingWritten
  <2>2. ASSUME NEW i \in Imports PROVE Ordered(i)
    BY DEF Init, Ordered
  <2> QED
    BY <2>1, <2>2 DEF Order
<1>2. TypeOK /\ Order /\ [Next]_vars => Order'
  <2>1. CASE UNCHANGED vars
    BY <2>1 DEF vars, Order, Finite, Ordered
  <2>2. ASSUME TypeOK, Order, Next PROVE Order'
    BY <2>2, StepFinite, StepOrdered DEF Next, Order
  <2> QED
    BY <2>1, <2>2
<1> QED
  BY <1>1, <1>2, TypesHold, PTL DEF Spec

-----------------------------------------------------------------------------
(* Locations that share a name. *)

(* A location an import is about to create, or has created, was not there  *)
(* when it looked: whoever else has created it committed later.            *)
Creates(i) ==
  /\ \A p \in tx[i].places : p.id[1] = i /\ p \in cache[i]
  /\ \A p, q \in tx[i].places : p.name = q.name => p = q
  /\ \A p \in tx[i].places, q \in places : p.name = q.name => Late(i, q.id[1])
  /\ pc[i] = "create" =>
       /\ Resolved(i, Row(i).location) = {}
       /\ \A q \in places : q.name = Row(i).location => Late(i, q.id[1])

Creations ==
  /\ CreatedTwiceOnlyInOverlap
  /\ \A p \in places : pc[p.id[1]] = "committed"
  /\ \A i \in Imports : Creates(i)

LEMMA OthersCreate ==
  ASSUME TypeOK, Order, NEW i \in Imports, Alone(i), Creates(i), NEW j \in Imports \ {i},
         Creates(j)
  PROVE  Creates(j)'
<1>1. /\ file' = file /\ tx'[j] = tx[j] /\ cache'[j] = cache[j] /\ pc'[j] = pc[j]
      /\ next'[j] = next[j] /\ began'[j] = began[j] /\ Row(j)' = Row(j)
  BY DEF Alone, Row
<1>2. \A k : Late(j, k) => Late(j, k)'
  BY <1>1, LateStays
<1>3. ASSUME NEW name, \A q \in places : q.name = name => Late(j, q.id[1]), NEW q \in places',
             q.name = name
      PROVE  Late(j, q.id[1])'
  <2>1. CASE q \in places
    BY <1>2, <1>3, <2>1
  <2>2. CASE q \notin places
    <3>1. Commit(i) /\ q \in tx[i].places
      BY <2>2 DEF Alone, tables, Commit
    <3>2. q.id[1] = i
      BY <3>1 DEF Creates
    <3> QED
      BY <1>1, <3>1, <3>2, LateWhenCommitted DEF Order
  <2> QED
    BY <2>1, <2>2
<1>4. (\A p \in tx[j].places, q \in places : p.name = q.name => Late(j, q.id[1]))'
  <2>1. ASSUME NEW p \in tx[j].places, NEW q \in places', p.name = q.name
        PROVE  Late(j, q.id[1])'
    BY <1>3, <2>1 DEF Creates
  <2> QED
    BY <1>1, <2>1
<1>5. (pc[j] = "create" =>
         /\ Resolved(j, Row(j).location) = {}
         /\ \A q \in places : q.name = Row(j).location => Late(j, q.id[1]))'
  <2>1. Resolved(j, Row(j).location)' = Resolved(j, Row(j).location)
    BY <1>1 DEF Resolved
  <2>2. pc[j] = "create" => \A q \in places' : q.name = Row(j).location => Late(j, q.id[1])'
    BY <1>3 DEF Creates
  <2> QED
    BY <1>1, <2>1, <2>2 DEF Creates
<1> QED
  BY <1>1, <1>4, <1>5 DEF Creates

LEMMA CreatesNothing ==
  ASSUME NEW i \in Imports, tx'[i].places = {}, pc'[i] # "create"
  PROVE  Creates(i)'
BY DEF Creates

LEMMA CreatesKept ==
  ASSUME TypeOK, NEW i \in Imports, Creates(i), Alone(i), UNCHANGED <<tables, began>>,
         tx'[i].places = tx[i].places, cache[i] \subseteq cache'[i], pc'[i] # "create"
  PROVE  Creates(i)'
<1>1. \A k : Late(i, k) => Late(i, k)'
  BY LateStays
<1> QED
  BY <1>1 DEF Creates, tables

(* A name that was looked up and not found is not there. *)
LEMMA NoneNamed ==
  ASSUME TypeOK, Finite, NEW i \in Imports, NEW name, Cardinality(PlacesNamed(i, name)) = 0
  PROVE  PlacesNamed(i, name) = {}
<1>1. IsFiniteSet(places \cup tx[i].places)
  BY FS_Union DEF Finite
<1>2. PlacesNamed(i, name) \subseteq places \cup tx[i].places
  BY DEF PlacesNamed
<1>3. IsFiniteSet(PlacesNamed(i, name))
  BY <1>1, <1>2, FS_Subset
<1> QED
  BY <1>3, FS_EmptySet

LEMMA LookupCreates ==
  ASSUME TypeOK, Order, NEW i \in Imports, Creates(i), Alone(i), ResolveLocation(i)
  PROVE  Creates(i)'
<1>1. /\ UNCHANGED <<file, tables, tx, began>> /\ pc[i] = "location"
      /\ cache[i] \subseteq cache'[i]
  BY DEF ResolveLocation, At, TypeOK, attempt
<1>2. CASE pc'[i] # "create"
  BY <1>1, <1>2, CreatesKept
<1>3. CASE pc'[i] = "create"
  <2>1. /\ Resolved(i, Row(i).location) = {} /\ Cardinality(PlacesNamed(i, Row(i).location)) = 0
        /\ UNCHANGED <<cache, next>>
    <3>1. ~Store(i) /\ ~NextRow(i)
      BY <1>3, MovesOn, NextRowMovesOn DEF Store, Positions, Running
    <3> QED
      BY <3>1 DEF ResolveLocation, DropRow
  <2>2. PlacesNamed(i, Row(i).location) = {}
    BY <2>1, NoneNamed DEF Order
  <2>3. \A q \in places : q.name # Row(i).location
    BY <2>2 DEF PlacesNamed
  <2>4. Row(i)' = Row(i)
    BY <1>1, <2>1 DEF Row
  <2>5. Resolved(i, Row(i).location)' = {}
    BY <2>1, <2>4 DEF Resolved
  <2>6. \A k : Late(i, k) => Late(i, k)'
    BY <1>1, LateStays
  <2> QED
    BY <1>1, <2>1, <2>3, <2>4, <2>5, <2>6 DEF Creates, tables
<1> QED
  BY <1>2, <1>3

LEMMA CreateCreates ==
  ASSUME TypeOK, NEW i \in Imports, Creates(i), Alone(i), CreateLocation(i)
  PROVE  Creates(i)'
<1> DEFINE place == [id |-> Me(i), name |-> Row(i).location]
<1>1. /\ tx'[i].places = tx[i].places \cup {place} /\ cache'[i] = cache[i] \cup {place}
      /\ UNCHANGED <<tables, began>> /\ pc[i] = "create" /\ pc'[i] # "create"
  BY DEF CreateLocation, At, TypeOK, attempt, Store, Goto
<1>2. place.id[1] = i /\ place.name = Row(i).location
  BY DEF Me
<1> HIDE DEF place
<1>3. \A p \in tx[i].places : p.name # Row(i).location
  BY <1>1 DEF Creates, Resolved
<1>4. \A k : Late(i, k) => Late(i, k)'
  BY <1>1, LateStays
<1>5. \A p \in tx'[i].places : p.id[1] = i /\ p \in cache'[i]
  BY <1>1, <1>2 DEF Creates
<1>6. \A p, q \in tx'[i].places : p.name = q.name => p = q
  BY <1>1, <1>2, <1>3 DEF Creates
<1>7. \A p \in tx'[i].places, q \in places : p.name = q.name => Late(i, q.id[1])'
  BY <1>1, <1>2, <1>4 DEF Creates
<1> QED
  BY <1>1, <1>5, <1>6, <1>7 DEF Creates, tables

LEMMA StepCreates ==
  ASSUME TypeOK, Order, NEW i \in Imports, Creates(i), Step(i)
  PROVE  Creates(i)'
<1>1. Alone(i)
  BY StepAlone
<1>2. CASE Begin(i) \/ Retry(i)
  <2>1. tx[i] = NothingWritten /\ tx' = tx
    BY <1>2 DEF Begin, Retry, Order, Ordered, Running
  <2>2. pc'[i] # "create"
    BY <1>2 DEF Begin, Retry, Goto, TypeOK
  <2> QED
    BY <2>1, <2>2, CreatesNothing DEF NothingWritten
<1>3. CASE UpsertProduct(i) \/ UpsertBatch(i)
  <2>1. PICK k, place : Write(i, k, place)
    BY <1>3 DEF UpsertProduct, UpsertBatch
  <2>2. UNCHANGED <<tables, cache, began>> /\ tx'[i].places = tx[i].places /\ pc'[i] = "row"
    BY <2>1, NextRowMovesOn DEF Write, attempt, TypeOK
  <2> QED
    BY <1>1, <2>2, CreatesKept
<1>4. CASE ResolveProduct(i)
  BY <1>1, <1>4, CreatesKept DEF ResolveProduct, NextRow, Goto, attempt, TypeOK
<1>5. CASE FindTransaction(i)
  <2>1. UNCHANGED <<tables, tx, cache, began>>
    BY <1>5 DEF FindTransaction, attempt
  <2>2. Goto(i, "insert") \/ NextRow(i)
    BY <1>5 DEF FindTransaction, DropRow
  <2>3. pc'[i] # "create"
    BY <2>2 DEF NextRow, Goto, TypeOK
  <2> QED
    BY <1>1, <2>1, <2>3, CreatesKept
<1>6. CASE InsertTransaction(i)
  BY <1>1, <1>6, CreatesKept DEF InsertTransaction, NextRow, Goto, attempt, TypeOK
<1>7. CASE Commit(i) \/ Rollback(i)
  <2>1. tx' = [tx EXCEPT ![i] = NothingWritten] /\ (Goto(i, "committed") \/ Goto(i, "raised"))
    BY <1>7 DEF Commit, Rollback
  <2>2. tx'[i].places = {} /\ pc'[i] # "create"
    BY <2>1 DEF Goto, TypeOK, NothingWritten
  <2> QED
    BY <2>2, CreatesNothing
<1> QED
  BY <1>1, <1>2, <1>3, <1>4, <1>5, <1>6, <1>7, LookupCreates, CreateCreates
  DEF Step, Progress, Abort, Refuse

LEMMA OverlapStays ==
  ASSUME TypeOK, NEW i \in Imports, Step(i), NEW j \in Imports, NEW k \in Imports,
         pc[j] = "committed", pc[k] = "committed", Overlapped(j, k)
  PROVE  Overlapped(j, k)'
<1>1. Alone(i) /\ j # i /\ k # i
  BY StepAlone, CommittedAreDone
<1>2. began'[j] = began[j] /\ began'[k] = began[k]
  BY <1>1 DEF Alone
<1>3. 1 .. Len(commits) \subseteq 1 .. Len(commits')
      /\ \A n \in 1 .. Len(commits) : commits'[n] = commits[n]
  BY <1>1, CommitsGrow
<1> QED
  BY <1>2, <1>3 DEF Overlapped

(* Who commits while somebody he did not wait for has committed overlaps   *)
(* with him. *)
LEMMA CommitOverlaps ==
  ASSUME TypeOK, Order, NEW i \in Imports, Commit(i), Alone(i), NEW j \in Imports,
         pc[j] = "committed", Late(i, j)
  PROVE  Overlapped(i, j)' /\ Overlapped(j, i)'
<1>1. i # j
  BY DEF Commit
<1>2. PICK n \in 1 .. Len(commits) : commits[n] = j /\ began[i] < n
  BY DEF Late
<1>3. /\ n \in 1 .. Len(commits') /\ commits'[n] = j
      /\ Len(commits') \in 1 .. Len(commits') /\ commits'[Len(commits')] = i
      /\ began[j] < Len(commits')
  <2>1. began[j] \in Nat /\ began[j] <= Len(commits)
    BY DEF Order, Ordered, TypeOK
  <2>2. n \in 1 .. Len(commits') /\ commits'[n] = commits[n]
    BY CommitsGrow
  <2> QED
    BY <1>2, <2>1, <2>2, CommitsGrow
<1>4. began' = began
  BY DEF Commit, attempt
<1> QED
  BY <1>1, <1>2, <1>3, <1>4 DEF Overlapped

LEMMA StepCreations ==
  ASSUME TypeOK, Order, Creations, NEW i \in Imports, Step(i)
  PROVE  Creations'
<1>1. Alone(i) /\ pc[i] # "committed"
  BY StepAlone, CommittedAreDone
<1>2. \A j \in Imports : Creates(j)'
  BY <1>1, StepCreates, OthersCreate DEF Creations
<1>3. ASSUME NEW p \in places' PROVE p \in places \/ (Commit(i) /\ p \in tx[i].places)
  BY <1>1 DEF Alone, tables, Commit
<1>4. \A p \in places : p.id[1] \in Imports /\ pc[p.id[1]] = "committed"
  BY DEF Creations, TypeOK, Places, Writers
<1>5. \A p \in tx[i].places : p.id[1] = i
  BY DEF Creations, Creates
<1>6. \A p \in places' : pc'[p.id[1]] = "committed"
  BY <1>1, <1>3, <1>4, <1>5, OwnTransaction DEF Alone
<1>7. ASSUME NEW p \in places', NEW q \in places', p # q, p.name = q.name
      PROVE  Overlapped(p.id[1], q.id[1])'
  <2>1. CASE p \in places /\ q \in places
    BY <1>4, <1>7, <2>1, OverlapStays DEF Creations, CreatedTwiceOnlyInOverlap
  <2>2. CASE Commit(i) /\ p \in tx[i].places /\ q \in places
    BY <1>1, <1>4, <1>5, <1>7, <2>2, CommitOverlaps DEF Creations, Creates
  <2>3. CASE Commit(i) /\ q \in tx[i].places /\ p \in places
    BY <1>1, <1>4, <1>5, <1>7, <2>3, CommitOverlaps DEF Creations, Creates
  <2>4. CASE p \in tx[i].places /\ q \in tx[i].places
    BY <1>7, <2>4 DEF Creations, Creates
  <2> QED
    BY <1>3, <2>1, <2>2, <2>3, <2>4
<1> QED
  BY <1>2, <1>6, <1>7 DEF Creations, CreatedTwiceOnlyInOverlap

LEMMA CreationsHold == Spec => []Creations
<1>1. Init => Creations
  BY DEF Init, Creations, CreatedTwiceOnlyInOverlap, Creates, NothingWritten
<1>2. TypeOK /\ Order /\ Creations /\ [Next]_vars => Creations'
  <2>1. CASE UNCHANGED vars
    BY <2>1 DEF vars, Creations, CreatedTwiceOnlyInOverlap, Creates, Overlapped, Late, Resolved, Row
  <2> QED
    BY <2>1, StepCreations DEF Next
<1> QED
  BY <1>1, <1>2, TypesHold, OrderHolds, PTL DEF Spec

(* A location name is created a second time only by an import that         *)
(* overlapped with the one that created it first. *)
THEOREM CreatedTwiceOnlyInOverlapHolds == Spec => []CreatedTwiceOnlyInOverlap
<1>1. Creations => CreatedTwiceOnlyInOverlap
  BY DEF Creations
<1> QED
  BY <1>1, CreationsHold, PTL

-----------------------------------------------------------------------------
(* The catalogue. *)

(* What an import has written of a product is its last row of it so far.   *)
Written(i, s) == {n \in ProductRows(i, s) : n < next[i]}

Upserts(i) ==
  pc[i] \in Running => \A s \in Skus :
    /\ Written(i, s) = {} => ~Holds(i, ProductKey(s))
    /\ Written(i, s) # {} =>
         /\ Holds(i, ProductKey(s))
         /\ \A e \in tx[i].upserts : e[1] = ProductKey(s) => e[2].by = <<i, Last(Written(i, s))>>

CommittedWriters(s) == {n \in 1 .. Len(commits) : ProductRows(commits[n], s) # {}}

ByLastWriter(s) ==
  /\ CommittedWriters(s) = {} => upserted[ProductKey(s)].by = Initial(ProductKey(s)).by
  /\ \A n \in CommittedWriters(s) : (\A m \in CommittedWriters(s) : m <= n)
       => \A rows : rows = ProductRows(commits[n], s)
            => upserted[ProductKey(s)].by = <<commits[n], Last(rows)>>

Serial ==
  /\ \A s \in Skus : ByLastWriter(s)
  /\ \A i \in Imports : Upserts(i)
  /\ \A s \in Skus : CommittedWriters(s) # {}
       => \E n \in CommittedWriters(s) : \A m \in CommittedWriters(s) : m <= n

LEMMA LastIs ==
  ASSUME NEW S, S \subseteq Nat, NEW n \in S, \A m \in S : m <= n
  PROVE  Last(S) = n
<1>1. \A l \in S : (\A m \in S : m <= l) => l = n
  OBVIOUS
<1>2. Last(S) \in S /\ \A m \in S : m <= Last(S)
  BY DEF Last
<1> QED
  BY <1>1, <1>2

LEMMA WrittenOf ==
  ASSUME TypeOK, NEW i \in Imports, NEW s \in Skus
  PROVE  /\ ProductRows(i, s) \subseteq Nat /\ Written(i, s) \subseteq Nat
         /\ next[i] > Len(file[i]) => Written(i, s) = ProductRows(i, s)
         /\ next[i] = 1 => Written(i, s) = {}
<1>1. next[i] \in Nat /\ Len(file[i]) \in Nat
  BY RowIsTyped DEF TypeOK
<1> QED
  BY <1>1 DEF ProductRows, Written

(* One row on: the row adds itself to what is written of its product. *)
LEMMA WrittenNext ==
  ASSUME TypeOK, NEW i \in Imports, NEW s \in Skus, file' = file, next'[i] = next[i] + 1,
         next[i] <= Len(file[i])
  PROVE  /\ Row(i).kind = "product" /\ Row(i).sku = s
              => Written(i, s)' = Written(i, s) \cup {next[i]} /\ Last(Written(i, s)') = next[i]
         /\ ~(Row(i).kind = "product" /\ Row(i).sku = s) => Written(i, s)' = Written(i, s)
<1>1. next[i] \in Nat \ {0} /\ Len(file[i]) \in Nat /\ next[i] \in 1 .. Len(file[i])
  BY RowIsTyped DEF TypeOK
<1>2. Written(i, s)' = {n \in ProductRows(i, s) : n < next[i] + 1}
  BY DEF Written, ProductRows
<1>3. Row(i) \in Rows
  BY RowIsTyped
<1>4. next[i] \in ProductRows(i, s) <=> Row(i).kind = "product" /\ Row(i).sku = s
  BY <1>1, <1>3 DEF ProductRows, Row, Rows
<1>5. ProductRows(i, s) \subseteq Nat
  BY DEF ProductRows
<1>6. {n \in ProductRows(i, s) : n < next[i] + 1}
        = {n \in ProductRows(i, s) : n < next[i]} \cup (ProductRows(i, s) \cap {next[i]})
  BY <1>1, <1>5
<1>7. CASE next[i] \in ProductRows(i, s)
  <2>1. Written(i, s)' = Written(i, s) \cup {next[i]}
    BY <1>2, <1>6, <1>7 DEF Written
  <2>2. Written(i, s)' \subseteq Nat /\ \A m \in Written(i, s)' : m <= next[i]
    BY <1>1, <1>2, <1>5
  <2>3. Last(Written(i, s)') = next[i]
    <3>1. next[i] \in Written(i, s)'
      BY <2>1
    <3> QED
      BY <2>2, <3>1, LastIs
  <2> QED
    BY <1>4, <1>7, <2>1, <2>3
<1>8. CASE next[i] \notin ProductRows(i, s)
  BY <1>2, <1>4, <1>6, <1>8 DEF Written
<1> QED
  BY <1>7, <1>8

LEMMA UpsertsKept ==
  ASSUME TypeOK, NEW i \in Imports, Upserts(i), pc[i] \in Running,
         \A s \in Skus : Written(i, s)' = Written(i, s),
         \A s \in Skus : \A v : <<ProductKey(s), v>> \in tx'[i].upserts
                                  <=> <<ProductKey(s), v>> \in tx[i].upserts,
         tx' \in [Imports -> [upserts : SUBSET (Keys \X Versions),
                              places : SUBSET Places, ledger : SUBSET Entries]]
  PROVE  Upserts(i)'
<1>1. tx[i].upserts \subseteq Keys \X Versions /\ tx'[i].upserts \subseteq Keys \X Versions
  BY DEF TypeOK
<1>2. \A s \in Skus : \A e : e \in tx'[i].upserts /\ e[1] = ProductKey(s)
                               <=> e \in tx[i].upserts /\ e[1] = ProductKey(s)
  BY <1>1
<1> HIDE DEF ProductKey
<1>3. \A s \in Skus : Holds(i, ProductKey(s))' <=> Holds(i, ProductKey(s))
  BY <1>2 DEF Holds, ProductKey
<1> QED
  BY <1>2, <1>3 DEF Upserts, ProductKey

LEMMA ProductUpserts ==
  ASSUME TypeOK, NEW i \in Imports, Upserts(i), UpsertProduct(i)
  PROVE  Upserts(i)'
<1> DEFINE key == ProductKey(Row(i).sku)
           version == [by |-> Me(i), place |-> Nobody]
<1>1. /\ file' = file /\ next'[i] = next[i] + 1 /\ next[i] <= Len(file[i]) /\ pc[i] = "row"
      /\ Row(i).kind = "product"
      /\ tx' = [tx EXCEPT ![i].upserts = {e \in @ : e[1] # key} \cup {<<key, version>>}]
  BY NextRowMovesOn DEF UpsertProduct, Write, At
<1>2. tx'[i].upserts = {e \in tx[i].upserts : e[1] # key} \cup {<<key, version>>}
  BY <1>1 DEF TypeOK
<1>3. <<key, version>>[1] = key /\ <<key, version>>[2].by = <<i, next[i]>>
  BY DEF Me
<1>4. \A s \in Skus : ProductKey(s) = key <=> s = Row(i).sku
  BY DEF ProductKey
<1> HIDE DEF key, version
<1>5. ASSUME NEW s \in Skus
      PROVE  /\ (Written(i, s) = {} => ~Holds(i, ProductKey(s)))'
             /\ (Written(i, s) # {} =>
                   /\ Holds(i, ProductKey(s))
                   /\ \A e \in tx[i].upserts : e[1] = ProductKey(s)
                        => e[2].by = <<i, Last(Written(i, s))>>)'
  <2>0. ProductKey(s)' = ProductKey(s)
    BY DEF ProductKey
  <2>1. CASE s = Row(i).sku
    <3>1. Written(i, s)' # {} /\ Last(Written(i, s)') = next[i]
      <4>1. Written(i, s)' = Written(i, s) \cup {next[i]} /\ Last(Written(i, s)') = next[i]
        BY <1>1, <2>1, WrittenNext
      <4> QED
        BY <4>1
    <3>2. ProductKey(s) = key
      BY <1>4, <2>1
    <3>3. \E e \in tx'[i].upserts : e[1] = key
      BY <1>2, <1>3
    <3>4. \A e \in tx'[i].upserts : e[1] = key => e[2].by = <<i, next[i]>>
      BY <1>2, <1>3
    <3>5. Last(Written(i, s))' = next[i]
      BY <3>1 DEF Last
    <3> QED
      BY <2>0, <3>1, <3>2, <3>3, <3>4, <3>5 DEF Holds
  <2>2. CASE s # Row(i).sku
    <3>1. Written(i, s)' = Written(i, s)
      BY <1>1, <2>2, WrittenNext
    <3>2. \A e : e \in tx'[i].upserts /\ e[1] = ProductKey(s)
                   <=> e \in tx[i].upserts /\ e[1] = ProductKey(s)
      BY <1>2, <1>3, <1>4, <2>2
    <3>3. Holds(i, ProductKey(s))' <=> Holds(i, ProductKey(s))
      BY <2>0, <3>2 DEF Holds
    <3>4. Last(Written(i, s))' = Last(Written(i, s))
      BY <3>1 DEF Last
    <3>5. /\ Written(i, s) = {} => ~Holds(i, ProductKey(s))
          /\ Written(i, s) # {} => /\ Holds(i, ProductKey(s))
               /\ \A e \in tx[i].upserts : e[1] = ProductKey(s)
                    => e[2].by = <<i, Last(Written(i, s))>>
      BY <1>1 DEF Upserts, Running
    <3> QED
      BY <2>0, <3>1, <3>2, <3>3, <3>4, <3>5
  <2> QED
    BY <2>1, <2>2
<1> QED
  BY <1>5 DEF Upserts

(* The statements about other rows do not touch the products. *)
LEMMA OtherStatements ==
  ASSUME TypeOK, AtItsRow, NEW i \in Imports, Alone(i), Upserts(i),
         pc[i] \in Running, next[i] <= Len(file[i]), Row(i).kind # "product",
         next' = next \/ NextRow(i), TypeOK',
         \A s \in Skus : \A v : <<ProductKey(s), v>> \in tx'[i].upserts
                                  <=> <<ProductKey(s), v>> \in tx[i].upserts
  PROVE  Upserts(i)'
<1>1. ASSUME NEW s \in Skus PROVE Written(i, s)' = Written(i, s)
  <2>1. file' = file
    BY DEF Alone
  <2>2. CASE next' = next
    BY <2>1, <2>2 DEF Written, ProductRows
  <2>3. CASE NextRow(i)
    BY <2>1, <2>3, NextRowMovesOn, WrittenNext
  <2> QED
    BY <2>2, <2>3
<1>2. tx' \in [Imports -> [upserts : SUBSET (Keys \X Versions),
                           places : SUBSET Places, ledger : SUBSET Entries]]
  BY DEF TypeOK
<1> QED
  BY <1>1, <1>2, UpsertsKept

LEMMA StepUpserts ==
  ASSUME TypeOK, AtItsRow, TypeOK', Order, NEW i \in Imports, Upserts(i), Step(i)
  PROVE  Upserts(i)'
<1>1. Alone(i)
  BY StepAlone
<1>2. CASE Begin(i)
  <2>1. tx'[i] = NothingWritten /\ next'[i] = 1
    BY <1>2 DEF Begin, Order, Ordered, Running, TypeOK
  <2>2. \A s \in Skus : Written(i, s)' = {}
    <3>1. \A s \in Skus : Written(i, s)' \subseteq {n \in Nat : 1 <= n /\ n < 1}
      BY <2>1 DEF Written, ProductRows
    <3> QED
      BY <3>1
  <2>3. \A k : ~Holds(i, k)'
    BY <2>1 DEF Holds, NothingWritten
  <2>4. \A s \in Skus : ~Holds(i, ProductKey(s))'
    BY <2>3 DEF Holds, ProductKey
  <2> QED
    BY <2>2, <2>4 DEF Upserts
<1>3. CASE UpsertBatch(i)
  <2>1. PICK place : Write(i, BatchKey(Row(i)), place)
    BY <1>3 DEF UpsertBatch
  <2>2. /\ pc[i] \in Running /\ next[i] <= Len(file[i]) /\ Row(i).kind # "product" /\ NextRow(i)
    BY <1>3, <2>1, RowAtHand DEF UpsertBatch, At, Running, Write
  <2>3. tx'[i].upserts = {e \in tx[i].upserts : e[1] # BatchKey(Row(i))}
                           \cup {<<BatchKey(Row(i)), [by |-> Me(i), place |-> place]>>}
    BY <2>1 DEF Write, TypeOK
  <2>4. \A s \in Skus : ProductKey(s) # BatchKey(Row(i))
    BY DEF ProductKey, BatchKey
  <2>5. \A s \in Skus : \A v : <<ProductKey(s), v>> \in tx'[i].upserts
                                 <=> <<ProductKey(s), v>> \in tx[i].upserts
    BY <2>3, <2>4
  <2> QED
    BY <1>1, <2>2, <2>5, OtherStatements
<1>4. CASE ResolveProduct(i) \/ ResolveLocation(i) \/ CreateLocation(i) \/ FindTransaction(i)
           \/ InsertTransaction(i)
  <2>1. /\ pc[i] \in Running /\ next[i] <= Len(file[i]) /\ Row(i).kind # "product"
    BY <1>4, RowAtHand
    DEF ResolveProduct, ResolveLocation, CreateLocation, FindTransaction, InsertTransaction, At,
        Running
  <2>2. next' = next \/ NextRow(i)
    BY <1>4
    DEF ResolveProduct, ResolveLocation, CreateLocation, FindTransaction, InsertTransaction,
        DropRow
  <2>3. tx'[i].upserts = tx[i].upserts
    <3>1. \/ tx' = tx
          \/ \E p : tx' = [tx EXCEPT ![i].places = @ \cup {p}]
          \/ \E t : tx' = [tx EXCEPT ![i].ledger = @ \cup {t}]
      BY <1>4
      DEF ResolveProduct, ResolveLocation, CreateLocation, FindTransaction, InsertTransaction
    <3> QED
      BY <3>1 DEF TypeOK
  <2> QED
    BY <1>1, <2>1, <2>2, <2>3, OtherStatements
<1>5. CASE Commit(i) \/ Rollback(i) \/ Retry(i)
  <2>1. Goto(i, "committed") \/ Goto(i, "raised") \/ Goto(i, "idle") \/ Goto(i, "failed")
    BY <1>5 DEF Commit, Rollback, Retry
  <2>2. pc'[i] \notin Running
    BY <2>1 DEF Goto, TypeOK, Running
  <2> QED
    BY <2>2 DEF Upserts
<1> QED
  BY <1>2, <1>3, <1>4, <1>5, ProductUpserts DEF Step, Progress, Abort, Refuse

LEMMA UpsertsStay ==
  ASSUME NEW j \in Imports, Upserts(j), file' = file, tx'[j] = tx[j], pc'[j] = pc[j],
         next'[j] = next[j]
  PROVE  Upserts(j)'
<1>1. file' = file /\ tx'[j] = tx[j] /\ pc'[j] = pc[j] /\ next'[j] = next[j]
  OBVIOUS
<1>2. \A s : Written(j, s)' = Written(j, s)
  BY <1>1 DEF Written, ProductRows
<1>3. \A s : Holds(j, ProductKey(s))' <=> Holds(j, ProductKey(s))
  BY <1>1 DEF Holds, ProductKey
<1>4. \A s : Last(Written(j, s))' = Last(Written(j, s))
  BY <1>2 DEF Last
<1>5. ASSUME NEW s \in Skus, pc[j] \in Running
      PROVE  /\ Written(j, s) = {} => ~Holds(j, ProductKey(s))
             /\ Written(j, s) # {} => /\ Holds(j, ProductKey(s))
                  /\ \A e \in tx[j].upserts : e[1] = ProductKey(s)
                       => e[2].by = <<j, Last(Written(j, s))>>
  BY <1>5 DEF Upserts
<1> QED
  BY <1>1, <1>2, <1>3, <1>4, <1>5 DEF Upserts, ProductKey

LEMMA OthersUpsert ==
  ASSUME NEW i \in Imports, Alone(i), NEW j \in Imports \ {i}, Upserts(j)
  PROVE  Upserts(j)'
BY UpsertsStay DEF Alone

LEMMA CommitSerial ==
  ASSUME TypeOK, Serial, NEW i \in Imports, Commit(i), Alone(i), NEW s \in Skus
  PROVE  /\ CommittedWriters(s)' # {}
              => \E n \in CommittedWriters(s)' : \A m \in CommittedWriters(s)' : m <= n
         /\ ByLastWriter(s)'
<1> DEFINE key == ProductKey(s)
           N == Len(commits) + 1
<1>1. /\ Len(commits) \in Nat /\ Len(commits') = N /\ commits'[N] = i
      /\ \A n \in 1 .. Len(commits) : commits'[n] = commits[n]
      /\ file' = file /\ pc[i] \in Running /\ key \in Keys
  BY CommitsGrow DEF Alone, Commit, Running, Keys
<1>2. \A j : ProductRows(j, s)' = ProductRows(j, s)
  BY <1>1 DEF ProductRows
<1>3. /\ CommittedWriters(s) \subseteq 1 .. Len(commits) /\ CommittedWriters(s) \subseteq Nat
      /\ \A n \in CommittedWriters(s)' : n \in CommittedWriters(s) \/ n = N
      /\ CommittedWriters(s) \subseteq CommittedWriters(s)'
      /\ N \in CommittedWriters(s)' <=> ProductRows(i, s) # {}
  BY <1>1, <1>2 DEF CommittedWriters, ProductRows
<1>4. Written(i, s) = ProductRows(i, s)
  BY WrittenOf DEF Commit
<1>5. CASE ProductRows(i, s) # {}
  <2>1. N \in CommittedWriters(s)' /\ \A m \in CommittedWriters(s)' : m <= N
    BY <1>1, <1>3, <1>5
  <2>2. \A n \in CommittedWriters(s)' : (\A m \in CommittedWriters(s)' : m <= n) => n = N
    BY <1>1, <1>3, <2>1
  <2>3. PICK v \in Versions : <<key, v>> \in tx[i].upserts /\ upserted'[key] = v
    BY <1>1, <1>4, <1>5, CommitWrites DEF Serial, Upserts
  <2>4. v.by = <<i, Last(ProductRows(i, s))>>
    <3>1. <<key, v>>[1] = key /\ <<key, v>>[2] = v
      OBVIOUS
    <3> HIDE DEF key
    <3>2. \A e \in tx[i].upserts : e[1] = key => e[2].by = <<i, Last(ProductRows(i, s))>>
      BY <1>1, <1>4, <1>5 DEF Serial, Upserts, key
    <3> QED
      BY <2>3, <3>1, <3>2
  <2>5. ByLastWriter(s)'
    BY <1>1, <1>2, <2>1, <2>2, <2>3, <2>4 DEF ByLastWriter, ProductKey
  <2> QED
    BY <2>1, <2>5
<1>6. CASE ProductRows(i, s) = {}
  <2>1. CommittedWriters(s)' = CommittedWriters(s)
    BY <1>3, <1>6
  <2>2. upserted'[key] = upserted[key]
    BY <1>1, <1>4, <1>6, CommitWrites DEF Serial, Upserts
  <2>3. \A n \in CommittedWriters(s) : commits'[n] = commits[n]
    BY <1>1, <1>3
  <2>4. ByLastWriter(s)'
    BY <1>2, <2>1, <2>2, <2>3 DEF Serial, ByLastWriter, ProductKey, Initial
  <2> QED
    BY <2>1, <2>4 DEF Serial
<1> QED
  BY <1>5, <1>6

LEMMA CatalogueKept ==
  ASSUME Serial, UNCHANGED <<commits, upserted, file>>, NEW s \in Skus
  PROVE  /\ ByLastWriter(s)'
         /\ CommittedWriters(s)' # {}
              => \E n \in CommittedWriters(s)' : \A m \in CommittedWriters(s)' : m <= n
<1>1. \A j : ProductRows(j, s)' = ProductRows(j, s)
  BY DEF ProductRows
<1>2. CommittedWriters(s)' = CommittedWriters(s)
  BY DEF CommittedWriters, ProductRows
<1>3. ByLastWriter(s)'
  BY <1>1, <1>2 DEF Serial, ByLastWriter, ProductKey, Initial
<1> QED
  BY <1>2, <1>3 DEF Serial

LEMMA StepSerial ==
  ASSUME TypeOK, AtItsRow, TypeOK', Order, Serial, NEW i \in Imports, Step(i)
  PROVE  Serial'
<1>1. Alone(i) /\ \A j \in Imports : Upserts(j)'
  BY StepAlone, StepUpserts, OthersUpsert DEF Serial
<1>2. CASE UNCHANGED tables
  BY <1>1, <1>2, CatalogueKept DEF Serial, Alone, tables
<1>3. CASE Commit(i)
  BY <1>1, <1>3, CommitSerial DEF Serial
<1> QED
  BY <1>1, <1>2, <1>3 DEF Alone

LEMMA SerialHolds == Spec => []Serial
<1>1. Init => Serial
  <2> SUFFICES ASSUME Init PROVE Serial
    OBVIOUS
  <2>1. \A s : CommittedWriters(s) = {}
    BY DEF Init, CommittedWriters
  <2>2. \A s \in Skus : ByLastWriter(s)
    BY <2>1 DEF Init, ByLastWriter, Keys
  <2>3. \A i \in Imports : Upserts(i)
    BY DEF Init, Upserts, Running
  <2> QED
    BY <2>1, <2>2, <2>3 DEF Serial
<1>2. TypeOK /\ AtItsRow /\ TypeOK' /\ Order /\ Serial /\ [Next]_vars => Serial'
  <2>1. ASSUME Serial, UNCHANGED vars PROVE Serial'
    <3>1. commits' = commits /\ upserted' = upserted /\ file' = file /\ tx' = tx /\ pc' = pc
          /\ next' = next
      BY <2>1 DEF vars
    <3>2. ASSUME NEW j \in Imports PROVE Upserts(j)'
      BY <2>1, <3>1, UpsertsStay DEF Serial
    <3> QED
      BY <2>1, <3>1, <3>2, CatalogueKept DEF Serial
  <2> QED
    BY <2>1, StepSerial DEF Next
<1> QED
  BY <1>1, <1>2, TypesHold, OrderHolds, PTL DEF Spec

(* However product imports interleave, abort and are retried, the catalogue *)
(* is the one their files leave behind one after another in commit order.   *)
THEOREM SerialInCommitOrderHolds == Spec => []SerialInCommitOrder
<1>1. Serial => SerialInCommitOrder
  <2> SUFFICES ASSUME Serial, NEW s \in Skus, CommittedWriters(s) # {}
               PROVE  upserted[ProductKey(s)].by =
                        <<commits[Last(CommittedWriters(s))],
                          Last(ProductRows(commits[Last(CommittedWriters(s))], s))>>
    BY DEF Serial, SerialInCommitOrder, ByLastWriter, CommittedWriters
  <2>1. PICK n \in CommittedWriters(s) : \A m \in CommittedWriters(s) : m <= n
    BY DEF Serial
  <2>2. Last(CommittedWriters(s)) = n
    <3>1. CommittedWriters(s) \subseteq Nat
      BY DEF CommittedWriters
    <3> QED
      BY <2>1, <3>1, LastIs
  <2> QED
    BY <2>1, <2>2 DEF Serial, ByLastWriter
<1> QED
  BY <1>1, SerialHolds, PTL

-----------------------------------------------------------------------------
(* Caches: the name of a location is the one in the row that created it,   *)
(* and another location of a name in the cache was committed later.        *)

NameAt(id) == file[id[1]][id[2]].location

Caches(i) ==
  /\ \A p \in tx[i].places : p.name = NameAt(p.id)
  /\ pc[i] \in Running =>
       /\ \A c, d \in cache[i] : c.name = d.name => c = d
       /\ \A c \in cache[i], p \in places : c.name = p.name /\ c # p => Late(i, p.id[1])

Names == (\A p \in places : p.name = NameAt(p.id)) /\ \A i \in Imports : Caches(i)

(* What Late gains in a step is the import that commits. *)
LEMMA LateGains ==
  ASSUME TypeOK, NEW i \in Imports, Alone(i), NEW j \in Imports, began'[j] = began[j],
         NEW k, Late(j, k)', ~Late(j, k)
  PROVE  Commit(i) /\ k = i
<1>1. PICK n \in 1 .. Len(commits') : commits'[n] = k /\ began[j] < n
  BY DEF Late
<1>2. n \notin 1 .. Len(commits)
  BY <1>1, CommitsGrow DEF Late
<1> QED
  BY <1>1, <1>2, CommitsGrow

LEMMA OthersCache ==
  ASSUME TypeOK, Order, Creations, NEW i \in Imports, Alone(i), NEW j \in Imports \ {i}, Caches(j)
  PROVE  Caches(j)'
<1>1. /\ file' = file /\ tx'[j] = tx[j] /\ cache'[j] = cache[j] /\ pc'[j] = pc[j]
      /\ began'[j] = began[j]
  BY DEF Alone
<1>2. (\A p \in tx[j].places : p.name = NameAt(p.id))'
  BY <1>1 DEF Caches, NameAt
<1>3. ASSUME NEW p \in places', pc[j] \in Running, NEW c \in cache[j], c.name = p.name, c # p
      PROVE  Late(j, p.id[1])'
  <2>1. CASE p \in places
    BY <1>1, <1>3, <2>1, LateStays DEF Caches
  <2>2. CASE p \notin places
    <3>1. Commit(i) /\ p.id[1] = i
      BY <2>2 DEF Alone, tables, Commit, Creations, Creates
    <3> QED
      BY <1>1, <3>1, LateWhenCommitted DEF Order
  <2> QED
    BY <2>1, <2>2
<1> QED
  BY <1>1, <1>2, <1>3 DEF Caches

LEMMA CachesKept ==
  ASSUME TypeOK, NEW i \in Imports, Alone(i), Caches(i), pc[i] \in Running,
         UNCHANGED <<tables, began>>, tx'[i].places = tx[i].places, cache'[i] = cache[i]
  PROVE  Caches(i)'
<1>1. \A k : Late(i, k) => Late(i, k)'
  BY LateStays
<1> QED
  BY <1>1 DEF Caches, NameAt, Alone, tables

(* At the end of an attempt, and at the start of one. *)
LEMMA CachesNothing ==
  ASSUME NEW i \in Imports, tx'[i].places = {}, pc'[i] \notin Running \/ cache'[i] = {}
  PROVE  Caches(i)'
BY DEF Caches

LEMMA LookupCaches ==
  ASSUME TypeOK, Order, NEW i \in Imports, Alone(i), Caches(i), ResolveLocation(i)
  PROVE  Caches(i)'
<1> DEFINE found == PlacesNamed(i, Row(i).location)
<1>1. UNCHANGED <<file, tables, tx, began>> /\ pc[i] \in Running
  BY DEF ResolveLocation, At, Running, attempt
<1>2. CASE UNCHANGED cache
  BY <1>1, <1>2, CachesKept
<1>3. CASE /\ Resolved(i, Row(i).location) = {} /\ Cardinality(found) = 1
           /\ cache' = [cache EXCEPT ![i] = @ \cup found]
  <2>1. PICK one : found = {one}
    <3>1. IsFiniteSet(places \cup tx[i].places)
      BY FS_Union DEF Order, Finite
    <3>2. IsFiniteSet(found)
      BY <3>1, FS_Subset DEF PlacesNamed
    <3> HIDE DEF found
    <3> QED
      BY <1>3, <3>2, FS_Singleton
  <2>2. one.name = Row(i).location /\ \A p \in places : p.name = one.name => p = one
    BY <2>1 DEF PlacesNamed
  <2>3. cache'[i] = cache[i] \cup {one} /\ \A c \in cache[i] : c.name # one.name
    BY <1>3, <2>1, <2>2 DEF TypeOK, Resolved
  <2>4. \A k : Late(i, k) => Late(i, k)'
    BY <1>1, LateStays
  <2>5. \A c, d \in cache'[i] : c.name = d.name => c = d
    BY <1>1, <2>3 DEF Caches
  <2>6. \A c \in cache'[i], p \in places : c.name = p.name /\ c # p => Late(i, p.id[1])'
    BY <1>1, <2>2, <2>3, <2>4 DEF Caches
  <2> QED
    BY <1>1, <2>5, <2>6 DEF Caches, NameAt, tables
<1> QED
  BY <1>2, <1>3 DEF ResolveLocation

LEMMA CreateCaches ==
  ASSUME TypeOK, NEW i \in Imports, Alone(i), Creates(i), Caches(i), CreateLocation(i)
  PROVE  Caches(i)'
<1> DEFINE place == [id |-> Me(i), name |-> Row(i).location]
<1>1. /\ tx'[i].places = tx[i].places \cup {place} /\ cache'[i] = cache[i] \cup {place}
      /\ UNCHANGED <<file, tables, began>> /\ pc[i] = "create"
  BY DEF CreateLocation, At, TypeOK, attempt
<1>2. place.name = NameAt(place.id) /\ place.name = Row(i).location
  BY DEF Me, NameAt, Row
<1> HIDE DEF place
<1>3. /\ \A c \in cache[i] : c.name # place.name
      /\ \A q \in places : q.name = place.name => Late(i, q.id[1])
  BY <1>1, <1>2 DEF Creates, Resolved
<1>4. \A k : Late(i, k) => Late(i, k)'
  BY <1>1, LateStays
<1>5. \A c, d \in cache'[i] : c.name = d.name => c = d
  BY <1>1, <1>3 DEF Caches, Running
<1>6. \A c \in cache'[i], p \in places : c.name = p.name /\ c # p => Late(i, p.id[1])'
  BY <1>1, <1>3, <1>4 DEF Caches, Running
<1>7. (\A p \in tx[i].places : p.name = NameAt(p.id))'
  BY <1>1, <1>2 DEF Caches, NameAt
<1> QED
  BY <1>1, <1>5, <1>6, <1>7 DEF Caches, tables

LEMMA StepCaches ==
  ASSUME TypeOK, Order, Creations, NEW i \in Imports, Caches(i), Step(i)
  PROVE  Caches(i)'
<1>1. Alone(i)
  BY StepAlone
<1>2. CASE Begin(i)
  <2>1. tx'[i].places = {} /\ cache'[i] = {}
    <3>1. tx[i] = NothingWritten /\ tx' = tx
      BY <1>2 DEF Begin, Order, Ordered, Running
    <3>2. cache'[i] = {}
      BY <1>2 DEF Begin, TypeOK
    <3> QED
      BY <3>1, <3>2 DEF NothingWritten
  <2> QED
    BY <2>1, CachesNothing
<1>3. CASE UpsertProduct(i) \/ UpsertBatch(i)
  <2>1. PICK k, place : Write(i, k, place)
    BY <1>3 DEF UpsertProduct, UpsertBatch
  <2>2. /\ UNCHANGED <<tables, cache, began>> /\ tx'[i].places = tx[i].places
    BY <2>1 DEF Write, attempt, TypeOK
  <2>3. pc[i] \in Running
    BY <1>3 DEF UpsertProduct, UpsertBatch, At, Running
  <2> QED
    BY <1>1, <2>2, <2>3, CachesKept
<1>4. CASE ResolveProduct(i) \/ FindTransaction(i)
  <2>1. UNCHANGED <<tables, tx, cache, began>> /\ pc[i] \in Running
    BY <1>4 DEF ResolveProduct, FindTransaction, At, Running, attempt
  <2> QED
    BY <1>1, <2>1, CachesKept
<1>5. CASE InsertTransaction(i)
  <2>1. /\ UNCHANGED <<tables, cache, began>> /\ tx'[i].places = tx[i].places /\ pc[i] \in Running
    BY <1>5 DEF InsertTransaction, At, Running, attempt, TypeOK
  <2> QED
    BY <1>1, <2>1, CachesKept
<1>6. CASE Commit(i) \/ Rollback(i)
  <2>1. tx' = [tx EXCEPT ![i] = NothingWritten] /\ (Goto(i, "committed") \/ Goto(i, "raised"))
    BY <1>6 DEF Commit, Rollback
  <2>2. tx'[i].places = {} /\ pc'[i] \notin Running
    BY <2>1 DEF Goto, TypeOK, NothingWritten, Running
  <2> QED
    BY <2>2, CachesNothing
<1>7. CASE Retry(i)
  <2>1. tx'[i].places = {} /\ pc'[i] \notin Running
    <3>1. tx[i] = NothingWritten /\ tx' = tx
      BY <1>7 DEF Retry, Order, Ordered, Running
    <3>2. pc'[i] \notin Running
      BY <1>7 DEF Retry, Goto, Running, TypeOK
    <3> QED
      BY <3>1, <3>2 DEF NothingWritten
  <2> QED
    BY <2>1, CachesNothing
<1> QED
  BY <1>1, <1>2, <1>3, <1>4, <1>5, <1>6, <1>7, LookupCaches, CreateCaches
  DEF Step, Progress, Abort, Refuse, Creations

LEMMA NamesHold == Spec => []Names
<1>1. Init => Names
  BY DEF Init, Names, Caches, NothingWritten, Running
<1>2. TypeOK /\ Order /\ Creations /\ Names /\ [Next]_vars => Names'
  <2>1. CASE UNCHANGED vars
    BY <2>1 DEF vars, Names, Caches, NameAt, Late
  <2>2. ASSUME TypeOK, Order, Creations, Names, NEW i \in Imports, Step(i) PROVE Names'
    <3>1. Alone(i) /\ \A j \in Imports : Caches(j)'
      BY <2>2, StepAlone, StepCaches, OthersCache DEF Names
    <3>2. \A p \in places' : p \in places \/ p \in tx[i].places
      BY <3>1 DEF Alone, tables, Commit
    <3> QED
      BY <2>2, <3>1, <3>2 DEF Names, Caches, NameAt, Alone
  <2> QED
    BY <2>1, <2>2 DEF Next
<1> QED
  BY <1>1, <1>2, TypesHold, OrderHolds, CreationsHold, PTL DEF Spec

-----------------------------------------------------------------------------
(* Repetition: transactions with the same columns. *)

Alike(t, u) == t.sku = u.sku /\ t.item = u.item

(* What an import has inserted, or is about to, was not there when it      *)
(* looked: whoever else has inserted it committed later. *)
Records(i) ==
  /\ \A t \in tx[i].ledger : t.id[1] = i /\ \E c \in cache[i] : c.id = t.place
  /\ \A t, u \in tx[i].ledger : Alike(t, u) /\ t.place = u.place => t = u
  /\ \A t \in tx[i].ledger, u \in ledger :
       Alike(t, u) /\ NameAt(t.place) = NameAt(u.place) => Late(i, u.id[1])
  /\ pc[i] = "insert" =>
       /\ \A c \in cache[i] : c.name = Row(i).location
            => \A t \in tx[i].ledger : Alike(t, Row(i)) => t.place # c.id
       /\ \A u \in ledger :
            Alike(u, Row(i)) /\ NameAt(u.place) = Row(i).location => Late(i, u.id[1])

(* A transaction is not committed before its location. *)
Follows(i) == \A t \in ledger : Late(i, t.place[1]) => Late(i, t.id[1])

Repetitions ==
  /\ \A t, u \in ledger : t # u /\ Alike(t, u) /\ NameAt(t.place) = NameAt(u.place)
       => Overlapped(t.id[1], u.id[1])
  /\ \A t \in ledger : pc[t.id[1]] = "committed"
  /\ \A i \in Imports : Records(i) /\ Follows(i)

LEMMA NewInLedger ==
  ASSUME TypeOK, NEW i \in Imports, Alone(i), Records(i), NEW u \in ledger', u \notin ledger
  PROVE  Commit(i) /\ u \in tx[i].ledger /\ u.id[1] = i
BY DEF Alone, tables, Commit, Records

LEMMA OthersRecord ==
  ASSUME TypeOK, Order, NEW i \in Imports, Alone(i), Records(i), NEW j \in Imports \ {i}, Records(j)
  PROVE  Records(j)'
<1>1. /\ file' = file /\ tx'[j] = tx[j] /\ cache'[j] = cache[j] /\ pc'[j] = pc[j]
      /\ next'[j] = next[j] /\ began'[j] = began[j] /\ Row(j)' = Row(j)
      /\ \A id : NameAt(id)' = NameAt(id)
  BY DEF Alone, Row, NameAt
<1>2. \A k : Late(j, k) => Late(j, k)'
  BY <1>1, LateStays
<1>3. ASSUME NEW u \in ledger', u \notin ledger PROVE Late(j, u.id[1])'
  BY <1>1, <1>3, NewInLedger, LateWhenCommitted DEF Order
<1>4. \A t \in tx[j].ledger, u \in ledger' :
        Alike(t, u) /\ NameAt(t.place) = NameAt(u.place) => Late(j, u.id[1])'
  BY <1>2, <1>3 DEF Records
<1>5. pc[j] = "insert" => \A u \in ledger' :
        Alike(u, Row(j)) /\ NameAt(u.place) = Row(j).location => Late(j, u.id[1])'
  BY <1>2, <1>3 DEF Records
<1>6. pc[j] = "insert" => \A c \in cache[j] : c.name = Row(j).location
        => \A t \in tx[j].ledger : Alike(t, Row(j)) => t.place # c.id
  BY DEF Records
<1>7. /\ \A t \in tx[j].ledger : t.id[1] = j /\ \E c \in cache[j] : c.id = t.place
      /\ \A t, u \in tx[j].ledger : Alike(t, u) /\ t.place = u.place => t = u
  BY DEF Records
<1> QED
  BY <1>1, <1>4, <1>5, <1>6, <1>7 DEF Records, Alike, NameAt

LEMMA RecordsNothing ==
  ASSUME NEW i \in Imports, tx'[i].ledger = {}, pc'[i] # "insert"
  PROVE  Records(i)'
BY DEF Records

LEMMA RecordsKept ==
  ASSUME TypeOK, NEW i \in Imports, Alone(i), Records(i), UNCHANGED <<tables, began>>,
         tx'[i].ledger = tx[i].ledger, cache[i] \subseteq cache'[i], pc'[i] # "insert"
  PROVE  Records(i)'
<1>1. \A k : Late(i, k) => Late(i, k)'
  BY LateStays
<1>2. file' = file /\ ledger' = ledger
  BY DEF Alone, tables
<1> QED
  BY <1>1, <1>2 DEF Records, NameAt, Alike

(* The location an import has cached under the name in its row. *)
LEMMA CachedPlace ==
  ASSUME TypeOK, AtItsRow, References, Names, NEW i \in Imports, pc[i] \in {"find", "insert"}
  PROVE  \E c \in cache[i] : /\ c.name = Row(i).location /\ c.id = Place(i)
                             /\ NameAt(c.id) = c.name
                             /\ \A d \in cache[i] : d.name = c.name => d = c
<1>1. Row(i).location # NoLocation
  BY RowIsTyped, KindsOfRows DEF AtItsRow, RowAt, Running
<1>2. PICK c \in cache[i] : c.name = Row(i).location /\ c.id = Place(i)
  BY <1>1, PlaceIsTyped DEF AtItsRow, RowAt
<1>3. c \in places \cup tx[i].places
  BY DEF References, Refers, Running, Visible
<1> QED
  BY <1>2, <1>3 DEF Names, Caches, Running

LEMMA FindRecords ==
  ASSUME TypeOK, AtItsRow, References, Names, Order, NEW i \in Imports, Alone(i), Records(i),
         Follows(i), FindTransaction(i)
  PROVE  Records(i)'
<1> DEFINE equal == {t \in ledger \cup tx[i].ledger :
                       t.sku = Row(i).sku /\ t.item = Row(i).item /\ t.place = Place(i)}
<1>1. UNCHANGED <<file, tables, tx, cache, began>> /\ pc[i] = "find"
  BY DEF FindTransaction, At, attempt
<1>2. CASE pc'[i] # "insert"
  BY <1>1, <1>2, RecordsKept
<1>3. CASE pc'[i] = "insert"
  <2>1. Cardinality(equal) = 0 /\ UNCHANGED next
    <3>1. ~NextRow(i)
      BY <1>3, NextRowMovesOn
    <3> QED
      BY <3>1 DEF FindTransaction, DropRow
  <2>2. equal = {}
    <3>1. IsFiniteSet(ledger \cup tx[i].ledger)
      BY FS_Union DEF Order, Finite
    <3>2. IsFiniteSet(equal)
      BY <3>1, FS_Subset
    <3> HIDE DEF equal
    <3> QED
      BY <2>1, <3>2, FS_EmptySet
  <2>3. \A t \in ledger \cup tx[i].ledger : Alike(t, Row(i)) => t.place # Place(i)
    BY <2>2 DEF Alike
  <2>4. PICK c \in cache[i] : /\ c.name = Row(i).location /\ c.id = Place(i)
                              /\ \A d \in cache[i] : d.name = c.name => d = c
    BY <1>1, CachedPlace
  <2>5. ASSUME NEW u \in ledger, Alike(u, Row(i)), NameAt(u.place) = Row(i).location
        PROVE  Late(i, u.id[1])
    <3>1. PICK p \in places : p.id = u.place
      BY DEF References, ReferencesResolve
    <3>2. p.name = c.name /\ p # c
      BY <2>3, <2>4, <2>5, <3>1 DEF Names
    <3>3. Late(i, p.id[1])
      BY <1>1, <3>2 DEF Names, Caches, Running
    <3> QED
      BY <3>1, <3>3 DEF Follows
  <2>6. Row(i)' = Row(i) /\ (\A id : NameAt(id)' = NameAt(id)) /\ \A k : Late(i, k) => Late(i, k)'
    BY <1>1, <2>1, LateStays DEF Row, NameAt
  <2>7. \A d \in cache[i] : d.name = Row(i).location
          => \A t \in tx[i].ledger : Alike(t, Row(i)) => t.place # d.id
    BY <2>3, <2>4
  <2>8. \A u \in ledger :
          Alike(u, Row(i)) /\ NameAt(u.place) = Row(i).location => Late(i, u.id[1])'
    BY <2>5, <2>6
  <2>9. /\ \A t \in tx[i].ledger : t.id[1] = i /\ \E d \in cache[i] : d.id = t.place
        /\ \A t, u \in tx[i].ledger : Alike(t, u) /\ t.place = u.place => t = u
        /\ \A t \in tx[i].ledger, u \in ledger :
             Alike(t, u) /\ NameAt(t.place) = NameAt(u.place) => Late(i, u.id[1])'
    BY <2>6 DEF Records
  <2> QED
    BY <1>1, <2>6, <2>7, <2>8, <2>9 DEF Records, Alike, NameAt, tables
<1> QED
  BY <1>2, <1>3

LEMMA InsertRecords ==
  ASSUME TypeOK, AtItsRow, References, Names, NEW i \in Imports, Alone(i), Records(i),
         InsertTransaction(i)
  PROVE  Records(i)'
<1> DEFINE entry == [id |-> Me(i), sku |-> Row(i).sku, item |-> Row(i).item, place |-> Place(i)]
<1>1. /\ tx'[i].ledger = tx[i].ledger \cup {entry} /\ pc[i] = "insert" /\ pc'[i] = "row"
      /\ UNCHANGED <<file, tables, cache, began>>
  BY NextRowMovesOn DEF InsertTransaction, At, attempt, TypeOK
<1>2. PICK c \in cache[i] : c.name = Row(i).location /\ c.id = Place(i) /\ NameAt(c.id) = c.name
  BY <1>1, CachedPlace
<1>3. entry.id[1] = i /\ entry.place = c.id /\ entry.sku = Row(i).sku /\ entry.item = Row(i).item
  BY <1>2 DEF Me
<1> HIDE DEF entry
<1>4. \A t \in tx[i].ledger : Alike(t, entry) => t.place # entry.place
  BY <1>1, <1>2, <1>3 DEF Records, Alike
<1>5. \A u \in ledger : Alike(entry, u) /\ NameAt(entry.place) = NameAt(u.place)
        => Late(i, u.id[1])
  BY <1>1, <1>2, <1>3 DEF Records, Alike
<1>6. \A k : Late(i, k) => Late(i, k)'
  BY <1>1, LateStays
<1>7. /\ \A t \in tx'[i].ledger : t.id[1] = i /\ \E d \in cache[i] : d.id = t.place
      /\ \A t, u \in tx'[i].ledger : Alike(t, u) /\ t.place = u.place => t = u
  BY <1>1, <1>3, <1>4 DEF Records, Alike
<1>8. \A t \in tx'[i].ledger, u \in ledger :
        Alike(t, u) /\ NameAt(t.place) = NameAt(u.place) => Late(i, u.id[1])'
  BY <1>1, <1>5, <1>6 DEF Records
<1> QED
  BY <1>1, <1>7, <1>8 DEF Records, Alike, NameAt, tables

LEMMA StepRecords ==
  ASSUME TypeOK, AtItsRow, References, Names, Order, NEW i \in Imports, Records(i), Follows(i),
         Step(i)
  PROVE  Records(i)'
<1>1. Alone(i)
  BY StepAlone
<1>2. CASE Begin(i) \/ Retry(i)
  <2>1. tx[i] = NothingWritten /\ tx' = tx
    BY <1>2 DEF Begin, Retry, Order, Ordered, Running
  <2>2. pc'[i] # "insert"
    BY <1>2 DEF Begin, Retry, Goto, TypeOK
  <2> QED
    BY <2>1, <2>2, RecordsNothing DEF NothingWritten
<1>3. CASE UpsertProduct(i) \/ UpsertBatch(i)
  <2>1. PICK k, place : Write(i, k, place)
    BY <1>3 DEF UpsertProduct, UpsertBatch
  <2>2. UNCHANGED <<tables, cache, began>> /\ tx'[i].ledger = tx[i].ledger /\ pc'[i] = "row"
    BY <2>1, NextRowMovesOn DEF Write, attempt, TypeOK
  <2> QED
    BY <1>1, <2>2, RecordsKept
<1>4. CASE ResolveProduct(i)
  BY <1>1, <1>4, RecordsKept DEF ResolveProduct, NextRow, Goto, attempt, TypeOK
<1>5. CASE ResolveLocation(i)
  <2>1. /\ UNCHANGED <<tables, tx, began>> /\ cache[i] \subseteq cache'[i]
    BY <1>5 DEF ResolveLocation, attempt, TypeOK
  <2>2. Store(i) \/ Goto(i, "create") \/ NextRow(i)
    BY <1>5 DEF ResolveLocation, DropRow
  <2>3. pc'[i] # "insert"
    BY <2>2 DEF Store, NextRow, Goto, TypeOK
  <2> QED
    BY <1>1, <2>1, <2>3, RecordsKept
<1>6. CASE CreateLocation(i)
  <2>1. /\ UNCHANGED <<tables, began>> /\ tx'[i].ledger = tx[i].ledger /\ cache[i] \subseteq cache'[i]
        /\ pc'[i] # "insert"
    BY <1>6 DEF CreateLocation, attempt, TypeOK, Store, Goto
  <2> QED
    BY <1>1, <2>1, RecordsKept
<1>7. CASE Commit(i) \/ Rollback(i)
  <2>1. tx' = [tx EXCEPT ![i] = NothingWritten] /\ (Goto(i, "committed") \/ Goto(i, "raised"))
    BY <1>7 DEF Commit, Rollback
  <2>2. tx'[i].ledger = {} /\ pc'[i] # "insert"
    BY <2>1 DEF Goto, TypeOK, NothingWritten
  <2> QED
    BY <2>2, RecordsNothing
<1> QED
  BY <1>1, <1>2, <1>3, <1>4, <1>5, <1>6, <1>7, FindRecords, InsertRecords
  DEF Step, Progress, Abort, Refuse

LEMMA StepFollows ==
  ASSUME TypeOK, References, Order, Creations, Repetitions, NEW i \in Imports, Step(i), Alone(i),
         NEW j \in Imports
  PROVE  Follows(j)'
<1>1. CASE Begin(i) /\ j = i
  <2>1. began'[j] = Len(commits) /\ commits' = commits /\ Len(commits) \in Nat
    BY <1>1 DEF Begin, TypeOK, tables
  <2>2. \A k : ~Late(j, k)'
    BY <2>1 DEF Late
  <2> QED
    BY <2>2 DEF Follows
<1>2. CASE ~(Begin(i) /\ j = i)
  <2>1. began'[j] = began[j]
    BY <1>2, OwnTransaction DEF Alone
  <2>2. ASSUME NEW t \in ledger', Late(j, t.place[1])' PROVE Late(j, t.id[1])'
    <3>1. CASE t \in ledger
      <4>1. PICK p \in places : p.id = t.place
        BY <3>1 DEF References, ReferencesResolve
      <4>2. pc[t.place[1]] = "committed" /\ pc[i] # "committed"
        BY <4>1, CommittedAreDone DEF Creations
      <4>3. Late(j, t.place[1])
        BY <2>1, <2>2, <4>2, LateGains
      <4> QED
        BY <2>1, <3>1, <4>3, LateStays DEF Repetitions, Follows
    <3>2. CASE t \notin ledger
      BY <2>1, <3>2, NewInLedger, LateWhenCommitted DEF Repetitions, Order
    <3> QED
      BY <3>1, <3>2
  <2> QED
    BY <2>2 DEF Follows
<1> QED
  BY <1>1, <1>2

LEMMA StepRepetitions ==
  ASSUME TypeOK, AtItsRow, References, Names, Order, Creations, Repetitions, NEW i \in Imports,
         Step(i)
  PROVE  Repetitions'
<1>1. Alone(i) /\ pc[i] # "committed" /\ file' = file /\ Records(i) /\ Caches(i)
  BY StepAlone, CommittedAreDone DEF Alone, Repetitions, Names
<1>2. \A j \in Imports : Records(j)' /\ Follows(j)'
  BY <1>1, StepRecords, OthersRecord, StepFollows DEF Repetitions
<1>3. \A t \in ledger : t.id[1] \in Imports /\ pc[t.id[1]] = "committed"
  BY DEF Repetitions, TypeOK, Entries, Writers
<1>4. \A t \in ledger' : t \in ledger \/ (Commit(i) /\ t \in tx[i].ledger /\ t.id[1] = i)
  BY <1>1, NewInLedger
<1>5. \A t \in ledger' : pc'[t.id[1]] = "committed"
  BY <1>1, <1>3, <1>4, OwnTransaction DEF Alone
<1>6. ASSUME NEW t \in ledger', NEW u \in ledger', t # u, Alike(t, u),
             NameAt(t.place) = NameAt(u.place)
      PROVE  Overlapped(t.id[1], u.id[1])'
  <2>1. CASE t \in ledger /\ u \in ledger
    BY <1>3, <1>6, <2>1, OverlapStays DEF Repetitions
  <2>2. CASE t \notin ledger /\ u \in ledger
    <3>1. Late(i, u.id[1])
      BY <1>1, <1>4, <1>6, <2>2 DEF Records
    <3> QED
      BY <1>1, <1>3, <1>4, <2>2, <3>1, CommitOverlaps
  <2>3. CASE t \in ledger /\ u \notin ledger
    <3>1. Late(i, t.id[1])
      BY <1>1, <1>4, <1>6, <2>3 DEF Records, Alike
    <3> QED
      BY <1>1, <1>3, <1>4, <2>3, <3>1, CommitOverlaps
  <2>4. CASE t \notin ledger /\ u \notin ledger
    <3>1. Commit(i) /\ t \in tx[i].ledger /\ u \in tx[i].ledger
      BY <1>4, <2>4
    <3>2. PICK c \in cache[i], d \in cache[i] : c.id = t.place /\ d.id = u.place
      BY <1>1, <3>1 DEF Records
    <3>3. cache[i] \subseteq places \cup tx[i].places /\ pc[i] \in Running
      BY <3>1 DEF Commit, References, Refers, Running, Visible
    <3>4. c.name = d.name
      BY <1>1, <1>6, <3>2, <3>3 DEF Names, Caches
    <3>5. c = d
      BY <1>1, <3>2, <3>3, <3>4 DEF Caches
    <3> QED
      BY <1>1, <1>6, <3>1, <3>2, <3>5 DEF Records
  <2> QED
    BY <2>1, <2>2, <2>3, <2>4
<1>7. \A t, u \in ledger' : t # u /\ Alike(t, u) /\ (NameAt(t.place) = NameAt(u.place))'
        => Overlapped(t.id[1], u.id[1])'
  BY <1>1, <1>6 DEF NameAt
<1> QED
  BY <1>2, <1>5, <1>7 DEF Repetitions, Alike, NameAt

LEMMA RepetitionsHold == Spec => []Repetitions
<1>1. Init => Repetitions
  BY DEF Init, Repetitions, Records, Follows, NothingWritten
<1>2. TypeOK /\ AtItsRow /\ References /\ Names /\ Order /\ Creations /\ Repetitions
        /\ [Next]_vars => Repetitions'
  <2>1. ASSUME Repetitions, UNCHANGED vars PROVE Repetitions'
    <3>1. ASSUME NEW i \in Imports PROVE Records(i)' /\ Follows(i)'
      <4>1. Records(i) /\ Follows(i)
        BY <2>1 DEF Repetitions
      <4>2. Records(i)'
        BY <2>1, <4>1 DEF vars, Records, Late, NameAt, Alike, Row
      <4> QED
        BY <2>1, <4>1, <4>2 DEF vars, Follows, Late
    <3>2. (\A t, u \in ledger : t # u /\ Alike(t, u) /\ NameAt(t.place) = NameAt(u.place)
             => Overlapped(t.id[1], u.id[1]))'
      BY <2>1 DEF vars, Repetitions, Overlapped, NameAt, Alike
    <3>3. \A t \in ledger' : pc'[t.id[1]] = "committed"
      BY <2>1 DEF vars, Repetitions
    <3> QED
      BY <3>1, <3>2, <3>3 DEF Repetitions
  <2> QED
    BY <2>1, StepRepetitions DEF Next
<1> QED
  BY <1>1, <1>2, TypesHold, ReferencesHold, NamesHold, OrderHolds, CreationsHold, PTL DEF Spec

(* A transaction is stored a second time only by an import that overlapped *)
(* with the one that stored it first. *)
THEOREM RepeatedOnlyInOverlapHolds == Spec => []RepeatedOnlyInOverlap
<1>1. References /\ Names /\ Repetitions => RepeatedOnlyInOverlap
  <2> SUFFICES ASSUME References, Names, Repetitions PROVE RepeatedOnlyInOverlap
    OBVIOUS
  <2>1. \A t \in ledger : NameOf(t.place) = NameAt(t.place)
    BY DEF References, ReferencesResolve, Names, NameOf
  <2> QED
    BY <2>1 DEF Repetitions, RepeatedOnlyInOverlap, Alike
<1> QED
  BY <1>1, ReferencesHold, NamesHold, RepetitionsHold, PTL

-----------------------------------------------------------------------------
(* Rows left out: what made the lookup of a dropped row raise is committed, *)
(* or is being committed with it.                                          *)

TwoPlaces(name) == \E p, q \in places : p # q /\ p.name = name /\ q.name = name

Entered(t, row) == Alike(t, row) /\ NameAt(t.place) = row.location

TwoEntries(i, row) ==
  \E t, u \in ledger \cup tx[i].ledger : t # u /\ Entered(t, row) /\ Entered(u, row)

Blocked(i, row) == TwoPlaces(row.location) \/ TwoEntries(i, row)

Drops(i) ==
  pc[i] \in Running \cup {"committed"} => \A n \in dropped[i] : Blocked(i, file[i][n])

(* More than one match is two of them. *)
LEMMA TwoMatches ==
  ASSUME NEW s, IsFiniteSet(s), Cardinality(s) > 1
  PROVE  \E x, y \in s : x # y
<1>1. s # {}
  BY FS_EmptySet
<1>2. PICK x \in s : TRUE
  BY <1>1
<1>3. s # {x}
  BY FS_Singleton
<1> QED
  BY <1>2, <1>3

(* What stands in the way of a row stays there. *)
LEMMA BlockedStays ==
  ASSUME TypeOK, NEW i \in Imports, Alone(i), NEW j \in Imports, NEW row,
         tx[j].ledger \subseteq tx'[j].ledger \cup ledger', Blocked(j, row)
  PROVE  Blocked(j, row)'
<1>1. places \subseteq places' /\ ledger \subseteq ledger' /\ file' = file
  BY TablesGrow DEF Alone
<1>2. CASE TwoPlaces(row.location)
  BY <1>1, <1>2 DEF Blocked, TwoPlaces
<1>3. CASE TwoEntries(j, row)
  <2>1. PICK t \in ledger \cup tx[j].ledger, u \in ledger \cup tx[j].ledger :
          t # u /\ Entered(t, row) /\ Entered(u, row)
    BY <1>3 DEF TwoEntries
  <2>2. t \in ledger' \cup tx'[j].ledger /\ u \in ledger' \cup tx'[j].ledger
    BY <1>1
  <2>3. Entered(t, row)' /\ Entered(u, row)'
    BY <1>1, <2>1 DEF Entered, Alike, NameAt
  <2> QED
    BY <2>1, <2>2, <2>3 DEF Blocked, TwoEntries
<1> QED
  BY <1>2, <1>3 DEF Blocked

(* A step of i that drops no row of j, or all of them with the attempt.    *)
LEMMA DropsKept ==
  ASSUME TypeOK, NEW i \in Imports, Alone(i), NEW j \in Imports, Drops(j), dropped'[j] = dropped[j],
         tx[j].ledger \subseteq tx'[j].ledger \cup ledger',
         pc'[j] \in Running \cup {"committed"} => pc[j] \in Running \cup {"committed"}
  PROVE  Drops(j)'
<1>1. file' = file
  BY DEF Alone
<1>2. ASSUME NEW n \in dropped[j], pc'[j] \in Running \cup {"committed"}
      PROVE  Blocked(j, file[j][n])'
  <2>1. PICK row : row = file[j][n]
    OBVIOUS
  <2>2. Blocked(j, row)
    BY <1>2, <2>1 DEF Drops
  <2>3. Blocked(j, row)'
    BY <2>2, BlockedStays
  <2>4. (file[j][n])' = row
    BY <1>1, <2>1
  <2> QED
    BY <2>3, <2>4 DEF Blocked, TwoPlaces, TwoEntries, Entered, Alike, NameAt
<1> QED
  BY <1>1, <1>2 DEF Drops

(* The step that drops a row finds what blocks it.                         *)
LEMMA DropsOne ==
  ASSUME TypeOK, NEW i \in Imports, Alone(i), Drops(i), pc[i] \in Running, DropRow(i),
         UNCHANGED <<tables, tx>>, Blocked(i, Row(i))
  PROVE  Drops(i)'
<1>1. /\ dropped'[i] = dropped[i] \cup {next[i]} /\ file' = file
      /\ places' = places /\ ledger' = ledger
  BY DEF DropRow, TypeOK, Alone, tables
<1>2. ASSUME NEW n \in dropped'[i] PROVE Blocked(i, file[i][n])'
  <2>1. PICK row : row = file[i][n]
    OBVIOUS
  <2>2. Blocked(i, row)
    BY <1>1, <1>2, <2>1 DEF Drops, Row
  <2>3. Blocked(i, row)'
    BY <2>2, BlockedStays
  <2>4. (file[i][n])' = row
    BY <1>1, <2>1
  <2> QED
    BY <2>3, <2>4 DEF Blocked, TwoPlaces, TwoEntries, Entered, Alike, NameAt
<1> QED
  BY <1>1, <1>2 DEF Drops

LEMMA LookupDrops ==
  ASSUME TypeOK, Order, Creations, NEW i \in Imports, Alone(i), Drops(i), ResolveLocation(i)
  PROVE  Drops(i)'
<1> DEFINE found == PlacesNamed(i, Row(i).location)
<1>1. UNCHANGED <<file, tables, tx>> /\ pc[i] \in Running
  BY DEF ResolveLocation, At, Running
<1>2. CASE dropped' = dropped
  BY <1>1, <1>2, DropsKept
<1>3. CASE DropRow(i) /\ Resolved(i, Row(i).location) = {} /\ Cardinality(found) > 1
  <2>1. IsFiniteSet(found)
    <3>1. IsFiniteSet(places \cup tx[i].places)
      BY FS_Union DEF Order, Finite
    <3> QED
      BY <3>1, FS_Subset DEF PlacesNamed
  <2>2. PICK p \in found, q \in found : p # q
    <3> HIDE DEF found
    <3> QED
      BY <1>3, <2>1, TwoMatches
  <2>3. \A r \in found : r \in places /\ r.name = Row(i).location
    BY <1>3 DEF PlacesNamed, Resolved, Creations, Creates
  <2>4. Blocked(i, Row(i))
    BY <2>2, <2>3 DEF Blocked, TwoPlaces
  <2> QED
    BY <1>1, <1>3, <2>4, DropsOne
<1> QED
  BY <1>2, <1>3 DEF ResolveLocation

LEMMA FindDrops ==
  ASSUME TypeOK, AtItsRow, References, Names, Order, NEW i \in Imports, Alone(i), Drops(i),
         FindTransaction(i)
  PROVE  Drops(i)'
<1> DEFINE equal == {t \in ledger \cup tx[i].ledger :
                       t.sku = Row(i).sku /\ t.item = Row(i).item /\ t.place = Place(i)}
<1>1. UNCHANGED <<file, tables, tx>> /\ pc[i] = "find" /\ pc[i] \in Running
  BY DEF FindTransaction, At, Running
<1>2. CASE dropped' = dropped
  BY <1>1, <1>2, DropsKept
<1>3. CASE DropRow(i) /\ Cardinality(equal) > 1
  <2>1. IsFiniteSet(equal)
    <3>1. IsFiniteSet(ledger \cup tx[i].ledger)
      BY FS_Union DEF Order, Finite
    <3> QED
      BY <3>1, FS_Subset
  <2>2. PICK t \in equal, u \in equal : t # u
    <3> HIDE DEF equal
    <3> QED
      BY <1>3, <2>1, TwoMatches
  <2>3. NameAt(Place(i)) = Row(i).location
    BY <1>1, CachedPlace
  <2>4. \A x \in equal : x \in ledger \cup tx[i].ledger /\ Entered(x, Row(i))
    BY <2>3 DEF Entered, Alike
  <2>5. Blocked(i, Row(i))
    <3> HIDE DEF equal
    <3> QED
      BY <2>2, <2>4 DEF Blocked, TwoEntries
  <2> QED
    BY <1>1, <1>3, <2>5, DropsOne
<1> QED
  BY <1>2, <1>3 DEF FindTransaction

LEMMA StepDrops ==
  ASSUME TypeOK, AtItsRow, References, Names, Order, Creations, NEW i \in Imports, Drops(i), Step(i)
  PROVE  Drops(i)'
<1>1. Alone(i)
  BY StepAlone
<1>2. CASE Begin(i)
  <2>1. dropped'[i] = {}
    BY <1>2 DEF Begin, TypeOK
  <2> QED
    BY <2>1 DEF Drops
<1>3. CASE Rollback(i) \/ Retry(i)
  <2>1. pc'[i] \notin Running \cup {"committed"}
    BY <1>3 DEF Rollback, Retry, Goto, TypeOK, Running
  <2> QED
    BY <2>1 DEF Drops
<1>4. CASE Commit(i)
  <2>1. /\ ledger' = ledger \cup tx[i].ledger /\ dropped' = dropped /\ pc[i] \in Running
    BY <1>4 DEF Commit, Running
  <2> QED
    BY <1>1, <2>1, DropsKept
<1>5. CASE \/ UpsertProduct(i) \/ UpsertBatch(i) \/ ResolveProduct(i) \/ CreateLocation(i)
           \/ InsertTransaction(i)
  <2>1. dropped' = dropped /\ pc[i] \in Running
    BY <1>5 DEF UpsertProduct, UpsertBatch, Write, ResolveProduct, CreateLocation,
                InsertTransaction, At, Running
  <2>2. tx[i].ledger \subseteq tx'[i].ledger
    <3>1. CASE UpsertProduct(i) \/ UpsertBatch(i)
      <4>1. PICK k, place : Write(i, k, place)
        BY <3>1 DEF UpsertProduct, UpsertBatch
      <4> QED
        BY <4>1 DEF Write, TypeOK
    <3>2. CASE ResolveProduct(i) \/ CreateLocation(i)
      <4>1. CASE ResolveProduct(i)
        BY <4>1 DEF ResolveProduct
      <4>2. CASE CreateLocation(i)
        <5>1. tx'[i].ledger = tx[i].ledger
          BY <4>2 DEF CreateLocation, TypeOK
        <5> QED
          BY <5>1
      <4> QED
        BY <3>2, <4>1, <4>2
    <3>3. CASE InsertTransaction(i)
      BY <3>3 DEF InsertTransaction, TypeOK
    <3> QED
      BY <1>5, <3>1, <3>2, <3>3
  <2> QED
    BY <1>1, <2>1, <2>2, DropsKept
<1> QED
  BY <1>1, <1>2, <1>3, <1>4, <1>5, LookupDrops, FindDrops DEF Step, Progress, Abort, Refuse

LEMMA OthersDrop ==
  ASSUME TypeOK, NEW i \in Imports, Step(i), NEW j \in Imports \ {i}, Drops(j)
  PROVE  Drops(j)'
<1>1. Alone(i) /\ tx'[j] = tx[j] /\ pc'[j] = pc[j]
  BY StepAlone DEF Alone
<1>2. dropped'[j] = dropped[j]
  BY DEF Step, Progress, Abort, Refuse, Begin, UpsertProduct, UpsertBatch, Write,
         ResolveProduct, ResolveLocation,
         CreateLocation, FindTransaction, InsertTransaction, Commit, Rollback, Retry, DropRow, TypeOK
<1> QED
  BY <1>1, <1>2, DropsKept

LEMMA DropsHold == Spec => []\A i \in Imports : Drops(i)
<1> DEFINE Inv == \A i \in Imports : Drops(i)
<1>1. Init => Inv
  BY DEF Init, Drops
<1>2. TypeOK /\ AtItsRow /\ References /\ Names /\ Order /\ Creations /\ Inv
        /\ [Next]_vars => Inv'
  <2>1. ASSUME Inv, UNCHANGED vars PROVE Inv'
    BY <2>1 DEF vars, Drops, Blocked, TwoPlaces, TwoEntries, Entered, NameAt, Alike
  <2> QED
    BY <2>1, StepDrops, OthersDrop DEF Next
<1> QED
  BY <1>1, <1>2, TypesHold, ReferencesHold, NamesHold, OrderHolds, CreationsHold, PTL DEF Spec

(* What it takes for a lookup with two matches to leave a row out: two     *)
(* others that overlapped, and stored a location or a transaction twice.   *)
THEOREM DroppedOnlyAfterOverlapHolds == Spec => []DroppedOnlyAfterOverlap
<1>1. References /\ Names /\ Order /\ (\A i \in Imports : Drops(i))
        /\ CreatedTwiceOnlyInOverlap /\ RepeatedOnlyInOverlap => DroppedOnlyAfterOverlap
  <2> SUFFICES ASSUME References, Names, Order, CreatedTwiceOnlyInOverlap, RepeatedOnlyInOverlap,
                      NEW i \in Imports, Drops(i), Committed(i), NEW n \in dropped[i]
               PROVE  \/ \E p, q \in places :
                           /\ p # q /\ p.name = file[i][n].location
                           /\ q.name = file[i][n].location
                           /\ Overlapped(p.id[1], q.id[1])
                      \/ \E t, u \in ledger :
                           /\ t # u
                           /\ \A s \in {t, u} :
                                /\ s.sku = file[i][n].sku /\ s.item = file[i][n].item
                                /\ NameOf(s.place) = file[i][n].location
                           /\ Overlapped(t.id[1], u.id[1])
    BY DEF DroppedOnlyAfterOverlap
  <2>1. Blocked(i, file[i][n])
    BY DEF Drops, Committed
  <2>2. CASE TwoPlaces(file[i][n].location)
    BY <2>2 DEF TwoPlaces, CreatedTwiceOnlyInOverlap
  <2>3. CASE TwoEntries(i, file[i][n])
    <3>1. tx[i].ledger = {}
      BY DEF Order, Ordered, Committed, Running, NothingWritten
    <3>2. PICK t \in ledger, u \in ledger :
            t # u /\ Entered(t, file[i][n]) /\ Entered(u, file[i][n])
      BY <2>3, <3>1 DEF TwoEntries
    <3>3. \A s \in ledger : NameOf(s.place) = NameAt(s.place)
      BY DEF References, ReferencesResolve, Names, NameOf
    <3>4. Overlapped(t.id[1], u.id[1])
      BY <3>2, <3>3 DEF RepeatedOnlyInOverlap, Entered, Alike
    <3> QED
      BY <3>2, <3>3, <3>4 DEF Entered, Alike
  <2> QED
    BY <2>1, <2>2, <2>3 DEF Blocked
<1> QED
  BY <1>1, ReferencesHold, NamesHold, OrderHolds, DropsHold, CreatedTwiceOnlyInOverlapHolds,
     RepeatedOnlyInOverlapHolds, PTL

-----------------------------------------------------------------------------
(* No row is lost: what an import has passed is written, rejected or       *)
(* dropped, and what it has written is there when it has committed.        *)

KeptFor(i, row) ==
  /\ row.kind = "product" => Exists(i, ProductKey(row.sku))
  /\ row.kind = "batch" => Exists(i, BatchKey(row))
  /\ row.kind = "transaction" => \E t \in ledger \cup tx[i].ledger : Entered(t, row)

Handled(i, n) ==
  \/ KeptFor(i, file[i][n])
  \/ file[i][n].kind # "product" /\ Unknown(i, n)
  \/ n \in dropped[i]

Accounted(i) ==
  /\ pc[i] \in Running => \A n \in 1 .. Len(file[i]) : n < next[i] => Handled(i, n)
  /\ pc[i] = "committed" => \A n \in 1 .. Len(file[i]) : Handled(i, n)

(* A row that is still unknown, or known, at the end of a step of i.       *)
LEMMA UnknownStays ==
  ASSUME TypeOK, NEW i \in Imports, Alone(i), NEW j \in Imports, Ordered(j), NEW n,
         began'[j] = began[j], Unknown(j, n)
  PROVE  Unknown(j, n)'
<1>1. file' = file /\ \A h, s : ProductRows(h, s)' = ProductRows(h, s)
  BY DEF Alone, ProductRows
<1>2. \A m \in 1 .. began[j] : commits'[m] = commits[m]
  <2>1. began[j] \in Nat /\ began[j] <= Len(commits) /\ Len(commits) \in Nat
    BY CommitsGrow DEF Ordered, TypeOK
  <2>2. 1 .. began[j] \subseteq 1 .. Len(commits)
    BY <2>1
  <2> QED
    BY <2>2, CommitsGrow
<1> QED
  BY <1>1, <1>2 DEF Unknown

LEMMA ExistsStays ==
  ASSUME TypeOK, NEW i \in Imports, Alone(i), NEW j \in Imports,
         \A k \in Keys : Holds(j, k) => Holds(j, k)' \/ upserted'[k] # NoVersion
  PROVE  \A k \in Keys : Exists(j, k) => Exists(j, k)'
<1>1. \A k \in Keys : upserted[k] # NoVersion => upserted'[k] # NoVersion
  BY TablesGrow
<1> QED
  BY <1>1 DEF Exists, Holds

LEMMA HandledStays ==
  ASSUME TypeOK, NEW i \in Imports, Alone(i), NEW j \in Imports, Ordered(j),
         NEW n \in 1 .. Len(file[j]), Handled(j, n),
         began'[j] = began[j], dropped[j] \subseteq dropped'[j],
         tx[j].ledger \subseteq tx'[j].ledger \cup ledger',
         \A k \in Keys : Holds(j, k) => Holds(j, k)' \/ upserted'[k] # NoVersion
  PROVE  Handled(j, n)'
<1>1. file' = file
  BY DEF Alone
<1>2. PICK row \in Rows : row = file[j][n]
  BY RowIsTyped
<1>3. CASE KeptFor(j, row)
  <2>1. row.kind = "product" => Exists(j, ProductKey(row.sku))'
    <3>1. row.kind = "product" => ProductKey(row.sku) \in Keys
      BY KindsOfRows DEF Keys
    <3>2. \A k \in Keys : Exists(j, k) => Exists(j, k)'
      BY ExistsStays
    <3>3. \A k \in Keys : k = ProductKey(row.sku) /\ Exists(j, k)' => Exists(j, ProductKey(row.sku))'
      BY DEF Exists, ProductKey
    <3> QED
      BY <1>3, <3>1, <3>2, <3>3 DEF KeptFor
  <2>2. row.kind = "batch" => Exists(j, BatchKey(row))'
    <3>1. row.kind = "batch" => BatchKey(row) \in Keys
      BY KindsOfRows DEF Keys, BatchKey
    <3>2. \A k \in Keys : Exists(j, k) => Exists(j, k)'
      BY ExistsStays
    <3>3. \A k \in Keys : k = BatchKey(row) /\ Exists(j, k)' => Exists(j, BatchKey(row))'
      BY DEF Exists, BatchKey
    <3> QED
      BY <1>3, <3>1, <3>2, <3>3 DEF KeptFor
  <2>3. row.kind = "transaction" => \E t \in ledger' \cup tx'[j].ledger : Entered(t, row)'
    <3>1. ledger \subseteq ledger'
      BY TablesGrow
    <3>2. \A t : Entered(t, row) => Entered(t, row)'
      BY <1>1 DEF Entered, Alike, NameAt
    <3> QED
      BY <1>3, <3>1, <3>2 DEF KeptFor
  <2>4. KeptFor(j, row)'
    BY <2>1, <2>2, <2>3 DEF KeptFor
  <2>5. (file[j][n])' = row
    BY <1>1, <1>2
  <2> QED
    BY <2>4, <2>5 DEF Handled, KeptFor, Entered, Alike, Exists, ProductKey, BatchKey
<1>4. CASE row.kind # "product" /\ Unknown(j, n)
  BY <1>1, <1>2, <1>4, UnknownStays DEF Handled
<1>5. CASE n \in dropped[j]
  BY <1>5 DEF Handled
<1> QED
  BY <1>2, <1>3, <1>4, <1>5 DEF Handled

(* A statement of i that keeps what it has written, on the same row or on  *)
(* to the next.                                                            *)
LEMMA RowDone ==
  ASSUME TypeOK, NEW i \in Imports, Alone(i), Ordered(i), Accounted(i), pc[i] \in Running,
         began'[i] = began[i], dropped[i] \subseteq dropped'[i],
         tx[i].ledger \subseteq tx'[i].ledger,
         \A k \in Keys : Holds(i, k) => Holds(i, k)',
         pc'[i] \in Running, next'[i] \in {next[i], next[i] + 1},
         next'[i] = next[i] + 1 => \A n : n = next[i] => Handled(i, n)'
  PROVE  Accounted(i)'
<1>1. file' = file /\ next[i] \in Nat
  BY DEF Alone, TypeOK
<1>2. ASSUME NEW n \in 1 .. Len(file[i]), n < next'[i] PROVE Handled(i, n)'
  <2>1. CASE n < next[i]
    <3>1. Handled(i, n)
      BY <2>1 DEF Accounted
    <3> QED
      BY <3>1, HandledStays
  <2>2. CASE n = next[i] /\ next'[i] = next[i] + 1
    BY <2>2
  <2> QED
    BY <1>1, <1>2, <2>1, <2>2, RowIsTyped
<1>3. \A n \in 1 .. Len(file'[i]) : n < next'[i] => Handled(i, n)'
  BY <1>1, <1>2
<1>4. pc'[i] # "committed"
  BY DEF Running
<1> QED
  BY <1>3, <1>4 DEF Accounted

(* _resolve_product rejects a row only when it may.                        *)
LEMMA RejectedIsUnknown ==
  ASSUME TypeOK, Serial, NEW i \in Imports, Ordered(i), pc[i] \in Running,
         next[i] <= Len(file[i]), ~Exists(i, ProductKey(Row(i).sku))
  PROVE  Unknown(i, next[i])
<1> DEFINE s == Row(i).sku
           key == ProductKey(s)
<1>1. s \in Skus /\ next[i] \in Nat
  BY RowIsTyped, KindsOfRows DEF TypeOK
<1>2. upserted[key] = NoVersion /\ ~Holds(i, key)
  BY DEF Exists, Holds
<1>3. upserted[key].by = Nobody /\ \A x, y : <<x, y>> # Nobody
  BY <1>2 DEF NoVersion, Nobody
<1>4. Written(i, s) = {}
  BY <1>1, <1>2 DEF Serial, Upserts
<1>5. CommittedWriters(s) = {}
  <2>1. SUFFICES ASSUME CommittedWriters(s) # {} PROVE FALSE
    OBVIOUS
  <2>2. PICK n \in CommittedWriters(s) : \A m \in CommittedWriters(s) : m <= n
    BY <1>1, <2>1 DEF Serial
  <2>3. PICK rows : rows = ProductRows(commits[n], s)
    OBVIOUS
  <2>4. upserted[key].by = <<commits[n], Last(rows)>>
    BY <1>1, <2>2, <2>3 DEF Serial, ByLastWriter
  <2> QED
    BY <1>3, <2>4
<1>6. s \notin Catalogue
  <2>1. Initial(key).by = Nobody
    BY <1>1, <1>3, <1>5 DEF Serial, ByLastWriter
  <2>2. s \in Catalogue => Initial(key).by = Earlier
    BY DEF Initial, NoVersion
  <2>3. Earlier # Nobody
    BY DEF Earlier, Nobody
  <2> QED
    BY <2>1, <2>2, <2>3
<1>7. \A m \in 1 .. began[i] : ProductRows(commits[m], s) = {}
  <2>1. 1 .. began[i] \subseteq 1 .. Len(commits)
    BY DEF Ordered, TypeOK
  <2> QED
    BY <1>5, <2>1 DEF CommittedWriters
<1>8. \A m \in ProductRows(i, s) : m >= next[i]
  <2>1. ProductRows(i, s) \subseteq Nat
    BY DEF ProductRows
  <2> QED
    BY <1>1, <1>4, <2>1 DEF Written
<1> QED
  BY <1>6, <1>7, <1>8 DEF Unknown, Row

LEMMA WriteAccounts ==
  ASSUME TypeOK, NEW i \in Imports, Alone(i), Ordered(i), Accounted(i), pc[i] \in Running,
         NEW k \in Keys, NEW place, Write(i, k, place),
         \/ Row(i).kind = "product" /\ k = ProductKey(Row(i).sku)
         \/ Row(i).kind = "batch" /\ k = BatchKey(Row(i))
  PROVE  Accounted(i)'
<1> DEFINE written == <<k, [by |-> Me(i), place |-> place]>>
<1>1. /\ tx'[i].upserts = {e \in tx[i].upserts : e[1] # k} \cup {written}
      /\ tx'[i].ledger = tx[i].ledger
      /\ file' = file /\ dropped' = dropped /\ began' = began
      /\ pc'[i] = "row" /\ next'[i] = next[i] + 1
  BY NextRowMovesOn DEF Write, attempt, TypeOK
<1>2. written[1] = k
  OBVIOUS
<1> HIDE DEF written
<1>3. Holds(i, k)' /\ \A l \in Keys : Holds(i, l) => Holds(i, l)'
  BY <1>1, <1>2 DEF Holds
<1>4. Exists(i, k)'
  BY <1>3 DEF Exists, Holds
<1>5. PICK row : row = Row(i)
  OBVIOUS
<1>6. KeptFor(i, row)'
  <2>1. row.kind = "product" => Exists(i, ProductKey(row.sku))'
    BY <1>4, <1>5 DEF Exists, ProductKey
  <2>2. row.kind = "batch" => Exists(i, BatchKey(row))'
    BY <1>4, <1>5 DEF Exists, BatchKey
  <2>3. row.kind # "transaction"
    BY <1>5
  <2> QED
    BY <2>1, <2>2, <2>3 DEF KeptFor
<1>7. ASSUME NEW n, n = next[i] PROVE Handled(i, n)'
  <2>1. (file[i][n])' = row
    BY <1>1, <1>5, <1>7 DEF Row
  <2> QED
    BY <1>6, <2>1 DEF Handled, KeptFor, Entered, Alike, Exists, ProductKey, BatchKey
<1> QED
  BY <1>1, <1>3, <1>7, RowDone DEF Running

LEMMA FindAccounts ==
  ASSUME TypeOK, AtItsRow, References, Names, Order, NEW i \in Imports, Alone(i), Accounted(i),
         FindTransaction(i)
  PROVE  Accounted(i)'
<1> DEFINE equal == {t \in ledger \cup tx[i].ledger :
                       t.sku = Row(i).sku /\ t.item = Row(i).item /\ t.place = Place(i)}
<1>1. /\ UNCHANGED <<file, tables, tx, began>> /\ pc[i] = "find" /\ pc[i] \in Running /\ Ordered(i)
      /\ next[i] \in 1 .. Len(file[i]) /\ Row(i).kind = "transaction"
  BY RowIsTyped DEF FindTransaction, At, Running, attempt, Order, AtItsRow, RowAt, TypeOK
<1>2. \A k \in Keys : Holds(i, k) => Holds(i, k)'
  BY <1>1 DEF Holds
<1>3. CASE Goto(i, "insert") /\ UNCHANGED <<next, dropped>>
  <2>1. pc'[i] \in Running /\ next'[i] # next[i] + 1
    BY <1>1, <1>3, MovesOn DEF Positions, Running, TypeOK
  <2> QED
    BY <1>1, <1>2, <1>3, <2>1, RowDone
<1>4. CASE Cardinality(equal) = 1 /\ NextRow(i) /\ UNCHANGED dropped
  <2>1. PICK t \in equal : TRUE
    <3>1. equal # {}
      <4> HIDE DEF equal
      <4> QED
        BY <1>4, FS_EmptySet
    <3> QED
      BY <3>1
  <2>2. NameAt(Place(i)) = Row(i).location
    BY <1>1, CachedPlace
  <2>3. t \in ledger \cup tx[i].ledger /\ Entered(t, Row(i))
    BY <2>2 DEF Entered, Alike
  <2>4. Handled(i, next[i])
    BY <1>1, <2>3 DEF Handled, KeptFor, Row
  <2>5. \A n : n = next[i] => Handled(i, n)'
    BY <1>1, <1>2, <1>4, <2>4, HandledStays
  <2>6. pc'[i] = "row" /\ next'[i] = next[i] + 1
    BY <1>4, NextRowMovesOn
  <2> QED
    BY <1>1, <1>2, <1>4, <2>5, <2>6, RowDone DEF Running
<1>5. CASE DropRow(i)
  <2>1. pc'[i] = "row" /\ next'[i] = next[i] + 1 /\ dropped'[i] = dropped[i] \cup {next[i]}
    BY <1>5, NextRowMovesOn DEF DropRow, TypeOK
  <2>2. \A n : n = next[i] => Handled(i, n)'
    BY <2>1 DEF Handled
  <2> QED
    BY <1>1, <1>2, <2>1, <2>2, RowDone DEF Running
<1> QED
  BY <1>3, <1>4, <1>5 DEF FindTransaction

LEMMA InsertAccounts ==
  ASSUME TypeOK, AtItsRow, References, Names, NEW i \in Imports, Alone(i), Ordered(i),
         Accounted(i), InsertTransaction(i)
  PROVE  Accounted(i)'
<1> DEFINE entry == [id |-> Me(i), sku |-> Row(i).sku, item |-> Row(i).item, place |-> Place(i)]
<1>1. PICK row, new : row = Row(i) /\ new = entry
  OBVIOUS
<1>2. /\ tx'[i].ledger = tx[i].ledger \cup {new} /\ tx'[i].upserts = tx[i].upserts
      /\ pc[i] = "insert" /\ pc'[i] = "row" /\ next'[i] = next[i] + 1
      /\ UNCHANGED <<file, tables, dropped, began>> /\ row.kind = "transaction"
  BY <1>1, NextRowMovesOn DEF InsertTransaction, At, attempt, TypeOK, AtItsRow, RowAt
<1>3. new.sku = row.sku /\ new.item = row.item /\ NameAt(new.place) = row.location
  BY <1>1, <1>2, CachedPlace
<1> HIDE DEF entry
<1>4. Entered(new, row)'
  BY <1>2, <1>3 DEF Entered, Alike, NameAt
<1>5. KeptFor(i, row)'
  BY <1>2, <1>4 DEF KeptFor
<1>6. ASSUME NEW n, n = next[i] PROVE Handled(i, n)'
  <2>1. (file[i][n])' = row
    BY <1>1, <1>2, <1>6 DEF Row
  <2> QED
    BY <1>5, <2>1 DEF Handled, KeptFor, Entered, Alike, NameAt, Exists, ProductKey, BatchKey
<1> QED
  BY <1>2, <1>6, RowDone DEF Running, Holds

LEMMA LookupAccounts ==
  ASSUME TypeOK, AtItsRow, Serial, NEW i \in Imports, Alone(i), Ordered(i), Accounted(i),
         ResolveProduct(i) \/ ResolveLocation(i) \/ CreateLocation(i)
  PROVE  Accounted(i)'
<1>1. /\ file' = file /\ tables' = tables /\ began' = began
      /\ pc[i] \in Running /\ next[i] \in 1 .. Len(file[i]) /\ Row(i).kind # "product"
      /\ tx'[i].upserts = tx[i].upserts /\ tx'[i].ledger = tx[i].ledger
  <2>1. /\ file' = file /\ tables' = tables /\ began' = began
        /\ pc[i] \in Running /\ next[i] <= Len(file[i]) /\ Row(i).kind # "product"
    BY DEF ResolveProduct, ResolveLocation, CreateLocation, At, AtItsRow, RowAt, Running, attempt
  <2>2. tx' = tx \/ \E p : tx' = [tx EXCEPT ![i].places = @ \cup {p}]
    BY DEF ResolveProduct, ResolveLocation, CreateLocation
  <2> QED
    BY <2>1, <2>2, RowIsTyped DEF TypeOK
<1>2. \A k \in Keys : Holds(i, k) => Holds(i, k)'
  BY <1>1 DEF Holds
<1>3. CASE \/ (Store(i) \/ Goto(i, "create") \/ Goto(i, "upsert") \/ Goto(i, "location"))
              /\ UNCHANGED <<next, dropped>>
  <2>1. pc'[i] \in Running /\ next'[i] # next[i] + 1
    BY <1>1, <1>3, MovesOn DEF Store, Positions, Running
  <2> QED
    BY <1>1, <1>2, <1>3, <2>1, RowDone
<1>4. CASE DropRow(i)
  <2>1. pc'[i] = "row" /\ next'[i] = next[i] + 1 /\ dropped'[i] = dropped[i] \cup {next[i]}
    BY <1>4, NextRowMovesOn DEF DropRow, TypeOK
  <2>2. \A n : n = next[i] => Handled(i, n)'
    BY <2>1 DEF Handled
  <2> QED
    BY <1>1, <1>2, <2>1, <2>2, RowDone DEF Running
<1>5. CASE ~Exists(i, ProductKey(Row(i).sku)) /\ NextRow(i) /\ UNCHANGED dropped
  <2>1. pc'[i] = "row" /\ next'[i] = next[i] + 1
    BY <1>5, NextRowMovesOn
  <2>2. Handled(i, next[i])
    BY <1>1, <1>5, RejectedIsUnknown DEF Handled, Row
  <2>3. \A n : n = next[i] => Handled(i, n)'
    BY <1>1, <1>2, <1>5, <2>2, HandledStays
  <2> QED
    BY <1>1, <1>2, <1>5, <2>1, <2>3, RowDone DEF Running
<1>6. \/ (Store(i) \/ Goto(i, "create") \/ Goto(i, "upsert") \/ Goto(i, "location"))
           /\ UNCHANGED <<next, dropped>>
      \/ DropRow(i)
      \/ ~Exists(i, ProductKey(Row(i).sku)) /\ NextRow(i) /\ UNCHANGED dropped
  <2>1. CASE ResolveProduct(i)
    BY <2>1 DEF ResolveProduct
  <2>2. CASE ResolveLocation(i)
    BY <2>2 DEF ResolveLocation
  <2>3. CASE CreateLocation(i)
    BY <2>3 DEF CreateLocation
  <2> QED
    BY <2>1, <2>2, <2>3
<1> QED
  BY <1>3, <1>4, <1>5, <1>6

LEMMA CommitAccounts ==
  ASSUME TypeOK, NEW i \in Imports, Alone(i), Ordered(i), Accounted(i), Commit(i)
  PROVE  Accounted(i)'
<1>1. /\ file' = file /\ dropped' = dropped /\ began' = began /\ ledger' = ledger \cup tx[i].ledger
      /\ pc[i] = "row" /\ next[i] > Len(file[i]) /\ pc'[i] = "committed"
  BY DEF Commit, Goto, TypeOK, attempt
<1>2. \A k \in Keys : Holds(i, k) => upserted'[k] # NoVersion
  BY CommitWrites, NoVersionIsNone
<1>3. ASSUME NEW n \in 1 .. Len(file[i]) PROVE Handled(i, n)'
  <2>1. n < next[i]
    <3>1. n \in Nat /\ next[i] \in Nat /\ Len(file[i]) \in Nat /\ n <= Len(file[i])
      BY RowIsTyped DEF TypeOK
    <3> QED
      BY <1>1, <3>1
  <2>2. Handled(i, n)
    BY <1>1, <2>1 DEF Accounted, Running
  <2> QED
    BY <1>1, <1>2, <2>2, HandledStays
<1> QED
  BY <1>1, <1>3 DEF Accounted, Running

LEMMA StepAccounts ==
  ASSUME TypeOK, AtItsRow, References, Names, Order, Serial, NEW i \in Imports, Accounted(i),
         Step(i)
  PROVE  Accounted(i)'
<1>1. Alone(i) /\ Ordered(i)
  BY StepAlone DEF Order
<1>2. CASE Begin(i)
  <2>1. next'[i] = 1 /\ pc'[i] = "row"
    BY <1>2, MovesOn DEF Begin, TypeOK, Positions, Running
  <2>2. \A n \in 1 .. Len(file'[i]) : ~(n < 1)
    OBVIOUS
  <2> QED
    BY <2>1, <2>2 DEF Accounted
<1>3. CASE Rollback(i) \/ Retry(i)
  <2>1. pc'[i] \notin Running \cup {"committed"}
    BY <1>3 DEF Rollback, Retry, Goto, TypeOK, Running
  <2> QED
    BY <2>1 DEF Accounted
<1>4. CASE UpsertProduct(i)
  <2>1. ProductKey(Row(i).sku) \in Keys /\ pc[i] \in Running
    BY <1>4, RowIsTyped, KindsOfRows DEF UpsertProduct, At, Keys, Running
  <2> QED
    BY <1>1, <1>4, <2>1, WriteAccounts DEF UpsertProduct
<1>5. CASE UpsertBatch(i)
  <2>1. pc[i] \in Running /\ Row(i).kind = "batch" /\ Row(i) \in Rows
    BY <1>5, RowIsTyped DEF UpsertBatch, At, AtItsRow, RowAt, Running
  <2>2. BatchKey(Row(i)) \in Keys
    BY <2>1, KindsOfRows DEF BatchKey, Keys
  <2> QED
    BY <1>1, <1>5, <2>1, <2>2, WriteAccounts DEF UpsertBatch
<1> QED
  BY <1>1, <1>2, <1>3, <1>4, <1>5, LookupAccounts, FindAccounts, InsertAccounts, CommitAccounts
  DEF Step, Progress, Abort, Refuse

LEMMA OthersAccount ==
  ASSUME TypeOK, Order, NEW i \in Imports, Step(i), NEW j \in Imports \ {i}, Accounted(j)
  PROVE  Accounted(j)'
<1>1. /\ Alone(i) /\ file' = file /\ tx'[j] = tx[j] /\ pc'[j] = pc[j] /\ next'[j] = next[j]
      /\ began'[j] = began[j] /\ Ordered(j)
  BY StepAlone DEF Alone, Order
<1>2. dropped'[j] = dropped[j]
  BY DEF Step, Progress, Abort, Refuse, Begin, UpsertProduct, UpsertBatch, Write,
         ResolveProduct, ResolveLocation,
         CreateLocation, FindTransaction, InsertTransaction, Commit, Rollback, Retry, DropRow, TypeOK
<1>3. \A k \in Keys : Holds(j, k) => Holds(j, k)'
  BY <1>1 DEF Holds
<1>4. \A n \in 1 .. Len(file[j]) : Handled(j, n) => Handled(j, n)'
  BY <1>1, <1>2, <1>3, HandledStays
<1> QED
  BY <1>1, <1>4 DEF Accounted

LEMMA AccountedHold == Spec => []\A i \in Imports : Accounted(i)
<1> DEFINE Inv == \A i \in Imports : Accounted(i)
<1>1. Init => Inv
  BY DEF Init, Accounted, Running
<1>2. TypeOK /\ AtItsRow /\ References /\ Names /\ Order /\ Serial /\ Inv
        /\ [Next]_vars => Inv'
  <2>1. ASSUME Inv, UNCHANGED vars PROVE Inv'
    <3>1. \A j, row : KeptFor(j, row)' <=> KeptFor(j, row)
      BY <2>1 DEF vars, KeptFor, Exists, Entered, NameAt, Alike, ProductKey, BatchKey
    <3>2. \A j, n : Unknown(j, n)' <=> Unknown(j, n)
      BY <2>1 DEF vars, Unknown, ProductRows
    <3>3. \A j, n : Handled(j, n)' <=> Handled(j, n)
      <4>1. file' = file /\ dropped' = dropped
        BY <2>1 DEF vars
      <4>2. ASSUME NEW j, NEW n PROVE Handled(j, n)' <=> Handled(j, n)
        <5>1. PICK row : row = file[j][n]
          OBVIOUS
        <5>2. KeptFor(j, file[j][n])' <=> KeptFor(j, row)'
          BY <4>1, <5>1 DEF KeptFor, Exists, Entered, NameAt, Alike, ProductKey, BatchKey
        <5> QED
          BY <3>1, <3>2, <4>1, <5>1, <5>2 DEF Handled
      <4> QED
        BY <4>2
    <3> QED
      BY <2>1, <3>3 DEF vars, Accounted
  <2> QED
    BY <2>1, StepAccounts, OthersAccount DEF Next
<1> QED
  BY <1>1, <1>2, TypesHold, ReferencesHold, NamesHold, OrderHolds, SerialHolds, PTL DEF Spec

(* Every row of a committed import is in the tables, unless its product    *)
(* was unknown or two matches stood in the way of its lookup.              *)
THEOREM EveryRowAccountedForHolds == Spec => []EveryRowAccountedFor
<1>1. References /\ Names /\ Order /\ (\A i \in Imports : Accounted(i)) => EveryRowAccountedFor
  <2> SUFFICES ASSUME References, Names, Order, NEW i \in Imports, Accounted(i), Committed(i),
                      NEW n \in 1 .. Len(file[i]), KeptFor(i, file[i][n])
               PROVE  Stored(file[i][n])
    BY DEF EveryRowAccountedFor, Accounted, Handled, Committed
  <2>1. tx[i].ledger = {} /\ tx[i].upserts = {}
    BY DEF Order, Ordered, Committed, Running, NothingWritten
  <2>2. \A t \in ledger : NameOf(t.place) = NameAt(t.place)
    BY DEF References, ReferencesResolve, Names, NameOf
  <2> QED
    BY <2>1, <2>2 DEF KeptFor, Stored, Exists, Entered, Alike
<1> QED
  BY <1>1, ReferencesHold, NamesHold, OrderHolds, AccountedHold, PTL

(* The positive side of ValidRowsPersisted: as long as no two imports have *)
(* overlapped, a row of a committed import is stored unless its product    *)
(* was unknown.                                                            *)
NothingLostInTurn ==
  (\A i, j \in Imports : ~Overlapped(i, j)) =>
    \A i \in Imports : Committed(i) => \A n \in 1 .. Len(file[i]) :
      Stored(file[i][n]) \/ (file[i][n].kind # "product" /\ Unknown(i, n))

THEOREM NothingLostInTurnHolds == Spec => []NothingLostInTurn
<1>1. TypeOK /\ EveryRowAccountedFor /\ DroppedOnlyAfterOverlap => NothingLostInTurn
  <2> SUFFICES ASSUME TypeOK, EveryRowAccountedFor, DroppedOnlyAfterOverlap,
                      \A i, j \in Imports : ~Overlapped(i, j), NEW i \in Imports, Committed(i)
               PROVE  dropped[i] = {}
    BY DEF NothingLostInTurn, EveryRowAccountedFor
  <2>1. \A p \in places : p.id[1] \in Imports
    BY DEF TypeOK, Places, Writers
  <2>2. \A t \in ledger : t.id[1] \in Imports
    BY DEF TypeOK, Entries, Writers
  <2> QED
    BY <2>1, <2>2 DEF DroppedOnlyAfterOverlap
<1> QED
  BY <1>1, TypeCorrect, EveryRowAccountedForHolds, DroppedOnlyAfterOverlapHolds, PTL

-----------------------------------------------------------------------------
(* The promise: an import among others takes the steps of ImportJob.       *)

StatusOf(i) ==
  CASE pc[i] = "committed" -> "COMPLETED"
    [] pc[i] \in Running -> "RUNNING"
    [] pc[i] = "idle" /\ retries[i] = 0 -> "PENDING"
    [] OTHER -> "FAILED"

Promise == INSTANCE ImportJob WITH
  Jobs <- Imports,
  status <- [i \in Imports |-> StatusOf(i)],
  file <- [i \in Imports |-> TRUE],
  imported <- [i \in Imports |-> Committed(i)],
  attempts <- [i \in Imports |-> retries[i] + 1],
  undisturbed <- TRUE

(* What a client sees change is one job, as a step of ImportJob.           *)
LEMMA JobPromised ==
  ASSUME NEW i \in Imports,
         \A j \in Imports \ {i} : pc'[j] = pc[j] /\ retries'[j] = retries[j],
         \/ StatusOf(i) \in {"PENDING", "FAILED"} /\ StatusOf(i)' = "RUNNING"
              /\ retries'[i] = retries[i] /\ retries[i] \in Nat
         \/ StatusOf(i) = "RUNNING" /\ StatusOf(i)' = "COMPLETED" /\ retries'[i] = retries[i]
         \/ StatusOf(i) = "RUNNING" /\ StatusOf(i)' = "FAILED" /\ retries'[i] = retries[i]
         \/ StatusOf(i) = "FAILED" /\ StatusOf(i)' = "FAILED" /\ retries'[i] = retries[i] + 1
              /\ retries[i] \in Nat /\ MaxRetries \in Nat /\ retries[i] < MaxRetries
         \/ StatusOf(i)' = StatusOf(i) /\ retries'[i] = retries[i]
  PROVE  [Promise!Next]_(Promise!vars)
<1> DEFINE status == [j \in Imports |-> StatusOf(j)]
           imported == [j \in Imports |-> Committed(j)]
           attempts == [j \in Imports |-> retries[j] + 1]
<1>1. \A j \in Imports : Committed(j) <=> StatusOf(j) = "COMPLETED"
  BY DEF StatusOf, Committed, Running
<1>2. \A j \in Imports : Committed(j)' <=> StatusOf(j)' = "COMPLETED"
  BY DEF StatusOf, Committed, Running
<1>3. \A j \in Imports \ {i} : StatusOf(j)' = StatusOf(j)
  BY DEF StatusOf
<1>4. status' = [status EXCEPT ![i] = StatusOf(i)']
  BY <1>3
<1>5. ASSUME StatusOf(i)' = "COMPLETED" <=> StatusOf(i) = "COMPLETED"
      PROVE  imported' = imported
  <2>1. \A j \in Imports : Committed(j)' = Committed(j)
    BY <1>1, <1>2, <1>3, <1>5 DEF Committed
  <2> QED
    BY <2>1
<1>6. ASSUME StatusOf(i)' = "COMPLETED" PROVE imported' = [imported EXCEPT ![i] = TRUE]
  <2>1. \A j \in Imports : Committed(j)' = (IF j = i THEN TRUE ELSE Committed(j))
    BY <1>1, <1>2, <1>3, <1>6 DEF Committed
  <2>2. imported' = [j \in Imports |-> IF j = i THEN TRUE ELSE Committed(j)]
    BY <2>1
  <2> QED
    BY <2>2
<1>7. attempts' = [attempts EXCEPT ![i] = retries'[i] + 1]
  OBVIOUS
<1>8. /\ Promise!vars = <<status, [j \in Imports |-> TRUE], imported, attempts, TRUE>>
      /\ Promise!vars' = <<status', [j \in Imports |-> TRUE], imported', attempts', TRUE>>
  BY DEF Promise!vars
<1> USE DEF Promise!Next, Promise!Progress
<1>9. CASE /\ StatusOf(i) \in {"PENDING", "FAILED"} /\ StatusOf(i)' = "RUNNING"
           /\ retries'[i] = retries[i] /\ retries[i] \in Nat
  <2>1. imported' = imported
    BY <1>5, <1>9
  <2>2. attempts' = attempts
    BY <1>7, <1>9
  <2>3. Promise!Start(i)
    BY <1>4, <1>9, <2>1, <2>2 DEF Promise!Start
  <2> QED
    BY <2>3
<1>10. CASE StatusOf(i) = "RUNNING" /\ StatusOf(i)' = "COMPLETED" /\ retries'[i] = retries[i]
  <2>1. imported' = [imported EXCEPT ![i] = TRUE] /\ ~imported[i]
    BY <1>1, <1>6, <1>10
  <2>2. attempts' = attempts
    BY <1>7, <1>10
  <2>3. Promise!Succeed(i)
    BY <1>4, <1>10, <2>1, <2>2 DEF Promise!Succeed
  <2> QED
    BY <2>3
<1>11. CASE StatusOf(i) = "RUNNING" /\ StatusOf(i)' = "FAILED" /\ retries'[i] = retries[i]
  <2>1. imported' = imported
    BY <1>5, <1>11
  <2>2. attempts' = attempts
    BY <1>7, <1>11
  <2>3. Promise!Fail(i)
    BY <1>4, <1>11, <2>1, <2>2 DEF Promise!Fail
  <2> QED
    BY <2>3
<1>12. CASE /\ StatusOf(i) = "FAILED" /\ StatusOf(i)' = "FAILED" /\ retries'[i] = retries[i] + 1
            /\ retries[i] \in Nat /\ MaxRetries \in Nat /\ retries[i] < MaxRetries
  <2>1. imported' = imported /\ status' = status
    <3>1. \A j \in Imports : StatusOf(j)' = StatusOf(j)
      BY <1>3, <1>12
    <3>2. status' = status
      BY <3>1
    <3> QED
      BY <1>5, <1>12, <3>2
  <2>2. attempts' = [attempts EXCEPT ![i] = @ + 1] /\ attempts[i] <= MaxRetries
    BY <1>7, <1>12
  <2>3. Promise!Attempt(i)
    BY <1>12, <2>1, <2>2 DEF Promise!Attempt
  <2> QED
    BY <2>3
<1>13. CASE StatusOf(i)' = StatusOf(i) /\ retries'[i] = retries[i]
  <2>1. imported' = imported /\ status' = status
    <3>1. \A j \in Imports : StatusOf(j)' = StatusOf(j)
      BY <1>3, <1>13
    <3>2. status' = status
      BY <3>1
    <3> QED
      BY <1>5, <1>13, <3>2
  <2>2. attempts' = attempts
    BY <1>7, <1>13
  <2> QED
    BY <1>8, <2>1, <2>2
<1> QED
  BY <1>9, <1>10, <1>11, <1>12, <1>13

LEMMA StepPromised ==
  ASSUME TypeOK, TypeOK', NEW i \in Imports, Step(i)
  PROVE  [Promise!Next]_(Promise!vars)
<1>1. \A j \in Imports \ {i} : pc'[j] = pc[j] /\ retries'[j] = retries[j]
  <2>1. \A j \in Imports \ {i} : retries'[j] = retries[j]
    BY DEF Step, Progress, Abort, Refuse, Begin, UpsertProduct, UpsertBatch, Write,
           ResolveProduct, ResolveLocation,
       CreateLocation, FindTransaction, InsertTransaction, Commit, Rollback, Retry, attempt, TypeOK
  <2> QED
    BY <2>1, StepAlone DEF Alone
<1>2. retries[i] \in Nat
  BY DEF TypeOK
<1>3. CASE Begin(i)
  <2>1. pc[i] = "idle" /\ pc'[i] = "row" /\ retries' = retries
    BY <1>3, MovesOn DEF Begin, Positions, Running
  <2> QED
    BY <1>1, <1>2, <2>1, JobPromised DEF StatusOf, Running
<1>4. CASE Commit(i)
  <2>1. pc[i] = "row" /\ pc'[i] = "committed" /\ retries' = retries
    BY <1>4, MovesOn DEF Commit, Positions, Running, attempt
  <2> QED
    BY <1>1, <2>1, JobPromised DEF StatusOf, Running
<1>5. CASE Abort(i) \/ Refuse(i)
  <2>1. pc[i] \in Running /\ pc'[i] = "raised" /\ retries' = retries
    BY <1>5, RunningRollback, MovesOn DEF Rollback, Positions, Running, attempt
  <2> QED
    BY <1>1, <2>1, JobPromised DEF StatusOf, Running
<1>6. CASE Retry(i)
  <2>1. CASE retries[i] < MaxRetries
    <3>1. pc[i] = "raised" /\ pc'[i] = "idle" /\ retries'[i] = retries[i] + 1 /\ MaxRetries \in Nat
      BY <1>2, <1>6, <2>1, MovesOn, InventoryAssumption DEF Retry, Positions, Running, TypeOK
    <3> QED
      BY <1>1, <1>2, <2>1, <3>1, JobPromised DEF StatusOf, Running
  <2>2. CASE retries[i] >= MaxRetries
    <3>1. pc[i] = "raised" /\ pc'[i] = "failed" /\ retries' = retries
      BY <1>2, <1>6, <2>2, MovesOn, InventoryAssumption DEF Retry, Positions, Running
    <3> QED
      BY <1>1, <3>1, JobPromised DEF StatusOf, Running
  <2> QED
    BY <1>2, <2>1, <2>2, InventoryAssumption
<1>7. CASE \/ UpsertProduct(i) \/ UpsertBatch(i) \/ ResolveProduct(i) \/ ResolveLocation(i)
           \/ CreateLocation(i) \/ FindTransaction(i) \/ InsertTransaction(i)
  <2>1. pc[i] \in Running /\ retries' = retries
    BY <1>7 DEF UpsertProduct, UpsertBatch, Write, ResolveProduct, ResolveLocation,
       CreateLocation, FindTransaction, InsertTransaction, At, Running, attempt
  <2>2. pc'[i] \in Running
    <3>1. PICK to \in Running : Goto(i, to)
      BY <1>7 DEF UpsertProduct, UpsertBatch, Write, ResolveProduct, ResolveLocation,
         CreateLocation, FindTransaction, InsertTransaction, Store, NextRow, DropRow, Running
    <3> QED
      BY <3>1, MovesOn DEF Positions
  <2> QED
    BY <1>1, <2>1, <2>2, JobPromised DEF StatusOf, Running
<1> QED
  BY <1>3, <1>4, <1>5, <1>6, <1>7 DEF Step, Progress

(* Overlap, deadlock, rollback and retry show a client nothing but the     *)
(* steps ImportJob allows each of its jobs.  The mapping starts where the  *)
(* tasks do, with stored files and PENDING rows.                           *)
THEOREM ImplementsImportJobSteps == Spec => [][Promise!Next]_(Promise!vars)
<1>1. ASSUME TypeOK, TypeOK', Next PROVE [Promise!Next]_(Promise!vars)
  BY <1>1, StepPromised DEF Next
<1>2. ASSUME UNCHANGED vars PROVE UNCHANGED Promise!vars
  BY <1>2 DEF vars, Promise!vars, StatusOf, Committed
<1> QED
  BY <1>1, <1>2, TypeCorrect, PTL DEF Spec

-----------------------------------------------------------------------------
(* All or nothing: what an import writes is of the row it is at, and what  *)
(* is committed was written by an import that has committed.               *)

OfTransaction(t) ==
  /\ t.id[2] \in 1 .. Len(file[t.id[1]])
  /\ RowOf(t.id).kind = "transaction" /\ Alike(t, RowOf(t.id))
  /\ RowOf(t.id).location = NameAt(t.place)

OfBatch(s, b, version) ==
  /\ version.by \in Writers /\ version.by[2] \in 1 .. Len(file[version.by[1]])
  /\ RowOf(version.by).kind = "batch" /\ RowOf(version.by).sku = s /\ RowOf(version.by).item = b
  /\ version.place = Nobody => RowOf(version.by).location = NoLocation
  /\ version.place # Nobody => RowOf(version.by).location = NameAt(version.place)

Writes(i) ==
  /\ \A t \in tx[i].ledger : OfTransaction(t)
  /\ \A e \in tx[i].upserts, s \in Skus, b \in Items :
       e[1] = <<"batch", s, b>> => e[2].by[1] = i /\ OfBatch(s, b, e[2])

CommittedBatch(s, b) ==
  LET batch == upserted[<<"batch", s, b>>]
  IN  batch # NoVersion => pc[batch.by[1]] = "committed" /\ OfBatch(s, b, batch)

Origins ==
  /\ \A t \in ledger : OfTransaction(t)
  /\ \A s \in Skus, b \in Items : CommittedBatch(s, b)
  /\ \A i \in Imports : Writes(i)

(* Where a record comes from is settled by the files, which never change.  *)
LEMMA OriginsStay ==
  ASSUME file' = file
  PROVE  /\ \A t : OfTransaction(t)' <=> OfTransaction(t)
         /\ \A s, b, v : OfBatch(s, b, v)' <=> OfBatch(s, b, v)
BY DEF OfTransaction, OfBatch, RowOf, NameAt, Alike

LEMMA WritesKept ==
  ASSUME NEW i \in Imports, file' = file, Writes(i),
         tx'[i].ledger \subseteq tx[i].ledger, tx'[i].upserts \subseteq tx[i].upserts
  PROVE  Writes(i)'
<1>1. \A t \in tx'[i].ledger : OfTransaction(t)'
  BY OriginsStay DEF Writes
<1>2. \A e \in tx'[i].upserts, s \in Skus, b \in Items :
        e[1] = <<"batch", s, b>> => e[2].by[1] = i /\ OfBatch(s, b, e[2])'
  BY OriginsStay DEF Writes
<1> QED
  BY <1>1, <1>2 DEF Writes

(* The location a batch refers to is the one its row names.                *)
LEMMA BatchPlace ==
  ASSUME TypeOK, AtItsRow, References, Names, NEW i \in Imports, pc[i] = "upsert",
         Row(i).location # NoLocation
  PROVE  Place(i) \in Writers /\ NameAt(Place(i)) = Row(i).location
<1>1. PICK c \in cache[i] : c.name = Row(i).location /\ c.id = Place(i)
  BY PlaceIsTyped DEF AtItsRow, RowAt
<1>2. c \in places \cup tx[i].places
  BY DEF References, Refers, Running, Visible
<1>3. NameAt(c.id) = c.name
  BY <1>2 DEF Names, Caches
<1>4. Place(i) \in Writers
  BY PlaceIsTyped DEF AtItsRow, RowAt
<1> QED
  BY <1>1, <1>3, <1>4

LEMMA WrittenBatch ==
  ASSUME TypeOK, AtItsRow, References, Names, NEW i \in Imports, Writes(i), UpsertBatch(i)
  PROVE  Writes(i)'
<1> DEFINE place == IF Row(i).location = NoLocation THEN Nobody ELSE Place(i)
           version == [by |-> Me(i), place |-> place]
<1>1. PICK k, v : k = BatchKey(Row(i)) /\ v = version
  OBVIOUS
<1>2. /\ tx'[i].upserts = {e \in tx[i].upserts : e[1] # k} \cup {<<k, v>>}
      /\ tx'[i].ledger = tx[i].ledger /\ file' = file
      /\ pc[i] = "upsert" /\ next[i] \in 1 .. Len(file[i]) /\ Row(i).kind = "batch"
  BY <1>1, RowIsTyped DEF UpsertBatch, Write, At, TypeOK, AtItsRow, RowAt
<1>3. v.by = Me(i) /\ v.by \in Writers /\ v.by[1] = i /\ v.by[2] = next[i] /\ RowOf(v.by) = Row(i)
  BY <1>1, WriterIsTyped DEF Me, RowOf, Row
<1>4. /\ v.place = Nobody => Row(i).location = NoLocation
      /\ v.place # Nobody => Row(i).location = NameAt(v.place)
  <2>1. v.place = place
    BY <1>1
  <2>2. \A w \in Writers : w # Nobody
    BY DEF Writers, Nobody
  <2> QED
    BY <1>2, <2>1, <2>2, BatchPlace
<1>5. \A s \in Skus, b \in Items : k = <<"batch", s, b>> => OfBatch(s, b, v)
  BY <1>1, <1>2, <1>3, <1>4 DEF OfBatch, BatchKey
<1> HIDE DEF version, place
<1>6. ASSUME NEW e \in tx'[i].upserts, NEW s \in Skus, NEW b \in Items, e[1] = <<"batch", s, b>>
      PROVE  e[2].by[1] = i /\ OfBatch(s, b, e[2])
  <2>1. CASE e \in tx[i].upserts
    BY <1>6, <2>1 DEF Writes
  <2>2. CASE e = <<k, v>>
    <3>1. k = <<"batch", s, b>> /\ e[2] = v
      BY <1>6, <2>2
    <3> QED
      BY <1>3, <1>5, <3>1
  <2> QED
    BY <1>2, <2>1, <2>2
<1>7. \A e \in tx'[i].upserts, s \in Skus, b \in Items :
        e[1] = <<"batch", s, b>> => e[2].by[1] = i /\ OfBatch(s, b, e[2])'
  BY <1>2, <1>6, OriginsStay
<1>8. \A t \in tx'[i].ledger : OfTransaction(t)'
  BY <1>2, OriginsStay DEF Writes
<1> QED
  BY <1>7, <1>8 DEF Writes

LEMMA WrittenTransaction ==
  ASSUME TypeOK, AtItsRow, References, Names, NEW i \in Imports, Writes(i), InsertTransaction(i)
  PROVE  Writes(i)'
<1> DEFINE entry == [id |-> Me(i), sku |-> Row(i).sku, item |-> Row(i).item, place |-> Place(i)]
<1>1. PICK new : new = entry
  OBVIOUS
<1>2. /\ tx'[i].ledger = tx[i].ledger \cup {new} /\ tx'[i].upserts = tx[i].upserts
      /\ file' = file /\ pc[i] = "insert"
      /\ next[i] \in 1 .. Len(file[i]) /\ Row(i).kind = "transaction"
  BY <1>1, RowIsTyped DEF InsertTransaction, At, TypeOK, AtItsRow, RowAt
<1>3. new.id[1] = i /\ new.id[2] = next[i] /\ RowOf(new.id) = Row(i) /\ Alike(new, Row(i))
  BY <1>1 DEF Me, RowOf, Row, Alike
<1>4. NameAt(new.place) = Row(i).location
  BY <1>1, <1>2, CachedPlace
<1> HIDE DEF entry
<1>5. OfTransaction(new)
  BY <1>2, <1>3, <1>4 DEF OfTransaction
<1>6. \A t \in tx'[i].ledger : OfTransaction(t)'
  BY <1>2, <1>5, OriginsStay DEF Writes
<1>7. \A e \in tx'[i].upserts, s \in Skus, b \in Items :
        e[1] = <<"batch", s, b>> => e[2].by[1] = i /\ OfBatch(s, b, e[2])'
  BY <1>2, OriginsStay DEF Writes
<1> QED
  BY <1>6, <1>7 DEF Writes

LEMMA WrittenProduct ==
  ASSUME TypeOK, NEW i \in Imports, Writes(i), UpsertProduct(i)
  PROVE  Writes(i)'
<1>1. PICK k, v : /\ k = ProductKey(Row(i).sku)
                  /\ tx'[i].upserts = {e \in tx[i].upserts : e[1] # k} \cup {<<k, v>>}
                  /\ tx'[i].ledger = tx[i].ledger /\ file' = file
  BY DEF UpsertProduct, Write, TypeOK
<1>2. \A s, b : k # <<"batch", s, b>>
  BY <1>1 DEF ProductKey
<1>3. ASSUME NEW e \in tx'[i].upserts, NEW s \in Skus, NEW b \in Items, e[1] = <<"batch", s, b>>
      PROVE  e[2].by[1] = i /\ OfBatch(s, b, e[2])
  <2>1. CASE e \in tx[i].upserts
    BY <1>3, <2>1 DEF Writes
  <2>2. CASE e = <<k, v>>
    BY <1>2, <1>3, <2>2
  <2> QED
    BY <1>1, <2>1, <2>2
<1>4. \A e \in tx'[i].upserts, s \in Skus, b \in Items :
        e[1] = <<"batch", s, b>> => e[2].by[1] = i /\ OfBatch(s, b, e[2])'
  BY <1>1, <1>3, OriginsStay
<1>5. \A t \in tx'[i].ledger : OfTransaction(t)'
  BY <1>1, OriginsStay DEF Writes
<1> QED
  BY <1>4, <1>5 DEF Writes

LEMMA StepWrites ==
  ASSUME TypeOK, AtItsRow, References, Names, NEW i \in Imports, Writes(i), Step(i)
  PROVE  Writes(i)'
<1>1. file' = file
  BY StepAlone DEF Alone
<1>2. CASE UpsertProduct(i) \/ UpsertBatch(i) \/ InsertTransaction(i)
  BY <1>2, WrittenProduct, WrittenBatch, WrittenTransaction
<1>3. CASE Commit(i) \/ Rollback(i)
  <2>1. tx'[i].ledger = {} /\ tx'[i].upserts = {}
    BY <1>3 DEF Commit, Rollback, NothingWritten, TypeOK
  <2> QED
    BY <1>1, <2>1, WritesKept
<1>4. CASE CreateLocation(i)
  <2>1. tx'[i].ledger = tx[i].ledger /\ tx'[i].upserts = tx[i].upserts
    BY <1>4 DEF CreateLocation, TypeOK
  <2> QED
    BY <1>1, <2>1, WritesKept
<1>5. CASE Begin(i) \/ ResolveProduct(i) \/ ResolveLocation(i) \/ FindTransaction(i) \/ Retry(i)
  <2>1. tx' = tx
    BY <1>5 DEF Begin, ResolveProduct, ResolveLocation, FindTransaction, Retry
  <2> QED
    BY <1>1, <2>1, WritesKept
<1> QED
  BY <1>2, <1>3, <1>4, <1>5 DEF Step, Progress, Abort, Refuse

LEMMA StepBatches ==
  ASSUME TypeOK, NEW i \in Imports, Alone(i), pc[i] # "committed", Writes(i),
         NEW s \in Skus, NEW b \in Items, CommittedBatch(s, b)
  PROVE  CommittedBatch(s, b)'
<1> DEFINE key == <<"batch", s, b>>
<1>1. file' = file /\ key \in Keys
  BY DEF Alone, Keys
<1>2. CASE upserted'[key] = upserted[key]
  <2>1. upserted[key] # NoVersion => upserted[key].by[1] \in Imports
    BY DEF CommittedBatch, OfBatch, Writers
  <2>2. upserted[key] # NoVersion => pc'[upserted[key].by[1]] = "committed"
    BY <2>1 DEF CommittedBatch, Alone
  <2> QED
    BY <1>1, <1>2, <2>2, OriginsStay DEF CommittedBatch
<1>3. CASE Commit(i) /\ Holds(i, key)
  <2>1. PICK v \in Versions : <<key, v>> \in tx[i].upserts /\ upserted'[key] = v
    BY <1>1, <1>3, CommitWrites
  <2>2. v.by[1] = i /\ OfBatch(s, b, v)
    <3>1. <<key, v>>[1] = <<"batch", s, b>> /\ <<key, v>>[2] = v
      OBVIOUS
    <3> QED
      BY <2>1, <3>1 DEF Writes
  <2>3. pc'[i] = "committed"
    BY <1>3 DEF Commit, Goto, TypeOK
  <2> QED
    BY <1>1, <2>1, <2>2, <2>3, OriginsStay DEF CommittedBatch
<1> QED
  BY <1>1, <1>2, <1>3, CommitWrites DEF Alone, tables

LEMMA OriginsHold == Spec => []Origins
<1>1. Init => Origins
  BY DEF Init, Origins, Writes, CommittedBatch, NothingWritten, Initial, Keys, ProductKey
<1>2. TypeOK /\ AtItsRow /\ References /\ Names /\ Origins /\ [Next]_vars => Origins'
  <2>1. ASSUME Origins, UNCHANGED vars PROVE Origins'
    <3>1. /\ file' = file /\ tx' = tx /\ ledger' = ledger /\ upserted' = upserted /\ pc' = pc
      BY <2>1 DEF vars
    <3>2. \A i \in Imports : Writes(i)'
      BY <2>1, <3>1, WritesKept DEF Origins
    <3>3. \A t \in ledger' : OfTransaction(t)'
      BY <2>1, <3>1, OriginsStay DEF Origins
    <3>4. \A s \in Skus, b \in Items : CommittedBatch(s, b)'
      BY <2>1, <3>1, OriginsStay DEF Origins, CommittedBatch
    <3> QED
      BY <3>2, <3>3, <3>4 DEF Origins
  <2>2. ASSUME TypeOK, AtItsRow, References, Names, Origins, NEW i \in Imports, Step(i)
        PROVE  Origins'
    <3>1. Alone(i) /\ pc[i] # "committed" /\ file' = file /\ Writes(i)
      BY <2>2, StepAlone, CommittedAreDone DEF Alone, Origins
    <3>2. ASSUME NEW j \in Imports PROVE Writes(j)'
      <4>1. CASE j = i
        BY <2>2, <3>1, <4>1, StepWrites
      <4>2. CASE j # i
        <5>1. tx'[j] = tx[j]
          BY <3>1, <4>2 DEF Alone
        <5> QED
          BY <2>2, <3>1, <5>1, WritesKept DEF Origins
      <4> QED
        BY <4>1, <4>2
    <3>3. \A t \in ledger' : OfTransaction(t)'
      <4>1. \A t \in ledger' : t \in ledger \/ t \in tx[i].ledger
        BY <3>1 DEF Alone, tables, Commit
      <4> QED
        BY <2>2, <3>1, <4>1, OriginsStay DEF Origins, Writes
    <3>4. \A s \in Skus, b \in Items : CommittedBatch(s, b)'
      BY <2>2, <3>1, StepBatches DEF Origins
    <3> QED
      BY <3>2, <3>3, <3>4 DEF Origins
  <2> QED
    BY <2>1, <2>2 DEF Next
<1> QED
  BY <1>1, <1>2, TypesHold, ReferencesHold, NamesHold, PTL DEF Spec

(* A location, transaction or batch in the tables is that of a row of a    *)
(* committed import: nothing of an attempt that was rolled back is there,  *)
(* whatever the interleaving.                                              *)
THEOREM OnlyCommittedRowsHolds == Spec => []OnlyCommittedRows
<1>1. TypeOK /\ References /\ Names /\ Creations /\ Repetitions /\ Origins => OnlyCommittedRows
  <2> SUFFICES ASSUME TypeOK, References, Names, Creations, Repetitions, Origins
               PROVE  OnlyCommittedRows
    OBVIOUS
  <2>1. \A p \in places : NameOf(p.id) = NameAt(p.id)
    BY DEF Names, NameOf
  <2>2. \A h \in Imports, n \in Nat \ {0} : n <= Len(file[h]) => file[h][n] \in Rows
    BY RowIsTyped
  <2>3. \A p \in places : Committed(p.id[1]) /\ RowOf(p.id).location = p.name
    BY DEF Creations, Names, Committed, RowOf, NameAt
  <2>4. ASSUME NEW t \in ledger
        PROVE  /\ Committed(t.id[1])
               /\ RowOf(t.id) = [kind |-> "transaction", sku |-> t.sku, item |-> t.item,
                                 location |-> NameOf(t.place)]
    <3>1. NameOf(t.place) = NameAt(t.place)
      BY <2>1 DEF References, ReferencesResolve
    <3>2. t.id[1] \in Imports /\ t.id[2] \in Nat \ {0}
      BY DEF TypeOK, Entries, Writers
    <3>3. OfTransaction(t)
      BY DEF Origins
    <3>4. RowOf(t.id) \in Rows
      BY <2>2, <3>2, <3>3, RowIsTyped DEF OfTransaction, RowOf
    <3>5. RowOf(t.id) = [kind |-> "transaction", sku |-> t.sku, item |-> t.item,
                         location |-> NameOf(t.place)]
      BY <3>1, <3>3, <3>4 DEF OfTransaction, Alike, Rows
    <3> QED
      BY <3>5 DEF Repetitions, Committed
  <2>5. ASSUME NEW s \in Skus, NEW b \in Items, upserted[<<"batch", s, b>>] # NoVersion
        PROVE  /\ Committed(upserted[<<"batch", s, b>>].by[1])
               /\ RowOf(upserted[<<"batch", s, b>>].by) =
                    [kind |-> "batch", sku |-> s, item |-> b,
                     location |-> IF upserted[<<"batch", s, b>>].place = Nobody THEN NoLocation
                                  ELSE NameOf(upserted[<<"batch", s, b>>].place)]
    <3>1. PICK v : v = upserted[<<"batch", s, b>>]
      OBVIOUS
    <3>2. pc[v.by[1]] = "committed" /\ OfBatch(s, b, v)
      BY <2>5, <3>1 DEF Origins, CommittedBatch
    <3>3. v.place # Nobody => NameOf(v.place) = NameAt(v.place)
      BY <2>1, <2>5, <3>1 DEF References, ReferencesResolve
    <3>4. RowOf(v.by) \in Rows
      BY <2>2, <3>2, RowIsTyped DEF OfBatch, RowOf, Writers
    <3>5. RowOf(v.by) = [kind |-> "batch", sku |-> s, item |-> b,
                         location |-> IF v.place = Nobody THEN NoLocation ELSE NameOf(v.place)]
      BY <3>2, <3>3, <3>4 DEF OfBatch, Rows
    <3> QED
      BY <3>1, <3>2, <3>5 DEF Committed
  <2> QED
    BY <2>3, <2>4, <2>5 DEF OnlyCommittedRows
<1> QED
  BY <1>1, TypeCorrect, ReferencesHold, NamesHold, CreationsHold, RepetitionsHold, OriginsHold, PTL

-----------------------------------------------------------------------------
(* Locks and deadlocks. *)

(* A lock has one holder, who has asked for it at an earlier row.          *)
Exclusive(i, j) == \A k \in Keys : Holds(i, k) /\ Holds(j, k) => i = j

Asked(i) ==
  pc[i] \in Running => \A k \in Keys : Holds(i, k) =>
    \E m \in 1 .. Len(file[i]) : m < next[i] /\ Asks(i, m, k)

Locks == \A i \in Imports : Asked(i) /\ \A j \in Imports : Exclusive(i, j)

(* Import i waits for lock k, or would if somebody held it.                *)
WantsNow(i, k) ==
  \/ At(i, "row") /\ Row(i).kind = "product" /\ k = ProductKey(Row(i).sku)
  \/ At(i, "upsert") /\ k = BatchKey(Row(i))

LEMMA WantsAsks ==
  ASSUME TypeOK, AtItsRow, NEW i \in Imports, NEW k, WantsNow(i, k)
  PROVE  /\ k \in Keys /\ pc[i] \in Running
         /\ next[i] \in 1 .. Len(file[i]) /\ Asks(i, next[i], k)
<1>1. next[i] \in 1 .. Len(file[i]) /\ Row(i) \in Rows /\ Len(file[i]) \in Nat
  BY RowIsTyped DEF WantsNow, At, TypeOK
<1>2. CASE At(i, "row") /\ Row(i).kind = "product" /\ k = ProductKey(Row(i).sku)
  BY <1>1, <1>2, KindsOfRows DEF At, Running, Asks, Row, Keys
<1>3. CASE At(i, "upsert") /\ k = BatchKey(Row(i))
  <2>1. Row(i).kind = "batch"
    BY <1>3 DEF At, AtItsRow, RowAt
  <2>2. k \in Keys
    BY <1>1, <1>3, <2>1, KindsOfRows DEF Keys, BatchKey
  <2> QED
    BY <1>1, <1>3, <2>1, <2>2 DEF At, Running, Asks, Row
<1> QED
  BY <1>2, <1>3 DEF WantsNow

(* An upsert adds one lock, that nobody else holds; no other statement     *)
(* does, and the end of an attempt releases all.                           *)
LEMMA StepTakes ==
  ASSUME TypeOK, AtItsRow, Order, NEW i \in Imports, Step(i)
  PROVE  \/ /\ pc[i] \in Running /\ next'[i] = next[i] + 1
            /\ \E k \in Keys : /\ WantsNow(i, k) /\ ~Locked(i, k)
                               /\ \A l : Holds(i, l)' <=> Holds(i, l) \/ l = k
         \/ /\ pc[i] \in Running /\ next'[i] \in {next[i], next[i] + 1}
            /\ \A l : Holds(i, l)' <=> Holds(i, l)
         \/ pc'[i] \notin Running /\ \A l : Holds(i, l)' => Holds(i, l)
         \/ \A l : ~Holds(i, l)'
<1>1. CASE UpsertProduct(i) \/ UpsertBatch(i)
  <2>1. PICK k, place : WantsNow(i, k) /\ Write(i, k, place)
    BY <1>1 DEF UpsertProduct, UpsertBatch, WantsNow
  <2>2. k \in Keys /\ pc[i] \in Running /\ next'[i] = next[i] + 1 /\ ~Locked(i, k)
    BY <2>1, WantsAsks, NextRowMovesOn DEF Write
  <2>3. tx'[i].upserts = {e \in tx[i].upserts : e[1] # k}
                           \cup {<<k, [by |-> Me(i), place |-> place]>>}
    BY <2>1 DEF Write, TypeOK
  <2>4. <<k, [by |-> Me(i), place |-> place]>>[1] = k
    OBVIOUS
  <2>5. \A l : Holds(i, l)' <=> Holds(i, l) \/ l = k
    BY <2>3, <2>4 DEF Holds
  <2> QED
    BY <2>1, <2>2, <2>5
<1>2. CASE ResolveProduct(i) \/ ResolveLocation(i) \/ CreateLocation(i) \/ FindTransaction(i)
           \/ InsertTransaction(i)
  <2>1. pc[i] \in Running
    BY <1>2
    DEF ResolveProduct, ResolveLocation, CreateLocation, FindTransaction, InsertTransaction, At,
        Running
  <2>2. next' = next \/ NextRow(i)
    BY <1>2
    DEF ResolveProduct, ResolveLocation, CreateLocation, FindTransaction, InsertTransaction,
        DropRow
  <2>3. next'[i] \in {next[i], next[i] + 1}
    BY <2>2, NextRowMovesOn
  <2>4. tx'[i].upserts = tx[i].upserts
    <3>1. \/ tx' = tx
          \/ \E p : tx' = [tx EXCEPT ![i].places = @ \cup {p}]
          \/ \E t : tx' = [tx EXCEPT ![i].ledger = @ \cup {t}]
      BY <1>2
      DEF ResolveProduct, ResolveLocation, CreateLocation, FindTransaction, InsertTransaction
    <3> QED
      BY <3>1 DEF TypeOK
  <2> QED
    BY <2>1, <2>3, <2>4 DEF Holds
<1>3. CASE Begin(i)
  <2>1. tx'[i] = NothingWritten
    BY <1>3 DEF Begin, Order, Ordered, Running
  <2> QED
    BY <2>1 DEF Holds, NothingWritten
<1>4. CASE Commit(i) \/ Rollback(i)
  <2>1. tx'[i] = NothingWritten
    BY <1>4 DEF Commit, Rollback, TypeOK
  <2> QED
    BY <2>1 DEF Holds, NothingWritten
<1>5. CASE Retry(i)
  <2>1. tx' = tx /\ pc'[i] \notin Running
    BY <1>5 DEF Retry, Goto, TypeOK, Running
  <2> QED
    BY <2>1 DEF Holds
<1> QED
  BY <1>1, <1>2, <1>3, <1>4, <1>5 DEF Step, Progress, Abort, Refuse

LEMMA StepLocks ==
  ASSUME TypeOK, AtItsRow, Order, Locks, NEW i \in Imports, Step(i)
  PROVE  Locks'
<1>1. file' = file /\ next[i] \in Nat \ {0}
  BY StepAlone DEF Alone, TypeOK
<1>2. \A j \in Imports \ {i} : /\ pc'[j] = pc[j] /\ next'[j] = next[j]
                               /\ \A l : Holds(j, l)' <=> Holds(j, l)
  BY StepAlone DEF Alone, Holds
<1>3. \A j \in Imports : \A m, k : Asks(j, m, k)' <=> Asks(j, m, k)
  BY <1>1 DEF Asks
<1>4. Asked(i)' /\ \A k \in Keys, j \in Imports : Holds(i, k)' /\ Holds(j, k)' => i = j
  <2>1. CASE /\ pc[i] \in Running /\ next'[i] = next[i] + 1
             /\ \E k \in Keys : /\ WantsNow(i, k) /\ ~Locked(i, k)
                                /\ \A l : Holds(i, l)' <=> Holds(i, l) \/ l = k
    <3>1. PICK k \in Keys : /\ WantsNow(i, k) /\ ~Locked(i, k)
                            /\ \A l : Holds(i, l)' <=> Holds(i, l) \/ l = k
      BY <2>1
    <3>2. next[i] \in 1 .. Len(file[i]) /\ next[i] < next'[i] /\ Asks(i, next[i], k)
      BY <1>1, <2>1, <3>1, WantsAsks
    <3>3. ASSUME NEW l \in Keys, Holds(i, l)
          PROVE  \E m \in 1 .. Len(file[i]) : m < next'[i] /\ Asks(i, m, l)
      BY <1>1, <2>1, <3>3 DEF Locks, Asked
    <3>4. Asked(i)'
      BY <1>1, <1>3, <3>1, <3>2, <3>3 DEF Asked
    <3>5. ASSUME NEW l \in Keys, NEW j \in Imports \ {i}, Holds(i, l)', Holds(j, l)'
          PROVE  FALSE
      BY <1>2, <3>1, <3>5 DEF Locked, Locks, Exclusive
    <3> QED
      BY <3>4, <3>5
  <2>2. CASE /\ pc[i] \in Running /\ next'[i] \in {next[i], next[i] + 1}
             /\ \A l : Holds(i, l)' <=> Holds(i, l)
    <3>1. \A m \in Nat : m < next[i] => m < next'[i]
      BY <1>1, <2>2
    <3>2. Asked(i)'
      BY <1>1, <1>3, <2>2, <3>1 DEF Locks, Asked
    <3> QED
      BY <1>2, <2>2, <3>2 DEF Locks, Exclusive
  <2>3. CASE pc'[i] \notin Running /\ \A l : Holds(i, l)' => Holds(i, l)
    BY <1>2, <2>3 DEF Locks, Asked, Exclusive
  <2>4. CASE \A l : ~Holds(i, l)'
    BY <2>4 DEF Asked
  <2> QED
    BY <2>1, <2>2, <2>3, <2>4, StepTakes
<1>5. \A j \in Imports \ {i} : Asked(j)'
  BY <1>1, <1>2, <1>3 DEF Locks, Asked
<1>6. \A j, h \in Imports : Exclusive(j, h)'
  BY <1>2, <1>4 DEF Locks, Exclusive
<1> QED
  BY <1>4, <1>5, <1>6 DEF Locks

LEMMA LocksHold == Spec => []Locks
<1>1. Init => Locks
  BY DEF Init, Locks, Asked, Exclusive, Holds, NothingWritten
<1>2. TypeOK /\ AtItsRow /\ Order /\ Locks /\ [Next]_vars => Locks'
  <2>1. ASSUME Locks, UNCHANGED vars PROVE Locks'
    BY <2>1 DEF vars, Locks, Asked, Exclusive, Holds, Asks
  <2> QED
    BY <2>1, StepLocks DEF Next
<1> QED
  BY <1>1, <1>2, TypesHold, OrderHolds, PTL DEF Spec

(* In a circle of waiting imports every lock that one of them waits for is *)
(* asked for by an import that holds another such lock.                    *)
LEMMA CircleLocksBefore ==
  ASSUME TypeOK, AtItsRow, Serial, Locks, NEW s \in SUBSET Imports, Deadlocked(s),
         NEW a \in s, NEW b \in s \ {a}, NEW l, WantsNow(a, l), Holds(b, l)
  PROVE  \E c \in s \ {a}, k \in Keys : WantsNow(c, k) /\ Holds(a, k) /\ LocksBefore(a, k, l)
<1>1. a \in Imports /\ b \in Imports
  OBVIOUS
<1>2. PICK c \in s \ {a} : WaitsFor(c, a)
  BY DEF Deadlocked
<1>3. PICK k : WantsNow(c, k) /\ Holds(a, k)
  BY <1>2 DEF WaitsFor, WantsNow
<1>4. k \in Keys /\ l \in Keys /\ next[a] \in 1 .. Len(file[a]) /\ Asks(a, next[a], l)
      /\ pc[a] \in Running
  BY <1>1, <1>3, WantsAsks
<1>5. ~Holds(a, l)
  BY <1>1, <1>4 DEF Locks, Exclusive
<1>6. PICK m \in 1 .. Len(file[a]) : m < next[a] /\ Asks(a, m, k)
  BY <1>1, <1>3, <1>4 DEF Locks, Asked
<1>7. ASSUME file[a][next[a]].kind = "product", NEW h \in 1 .. next[a] - 1, Asks(a, h, l)
      PROVE  FALSE
  <2>1. PICK sku : sku = file[a][h].sku
    OBVIOUS
  <2>2. h \in Nat \ {0} /\ h < next[a] /\ h \in 1 .. Len(file[a]) /\ file[a][h] \in Rows
    BY <1>1, <1>4, RowIsTyped
  <2>3. l = ProductKey(file[a][next[a]].sku)
    BY <1>4, <1>7 DEF Asks
  <2>4. file[a][h].kind = "product" /\ l = ProductKey(sku)
    BY <1>7, <2>1, <2>3 DEF Asks, ProductKey, BatchKey
  <2>5. sku \in Skus /\ file[a][h] = [kind |-> "product", sku |-> sku]
    BY <2>1, <2>2, <2>4, KindsOfRows DEF Rows
  <2>6. h \in Written(a, sku)
    BY <2>2, <2>5 DEF Written, ProductRows
  <2>7. Holds(a, ProductKey(sku))
    BY <1>1, <1>4, <2>5, <2>6 DEF Serial, Upserts
  <2> QED
    BY <1>5, <2>4, <2>7
<1>8. LocksBefore(a, k, l)
  BY <1>3, <1>4, <1>5, <1>6, <1>7 DEF LocksBefore
<1> QED
  BY <1>3, <1>4, <1>8

(* The locks a circle waits for have no first one.                         *)
LEMMA NoCircle ==
  ASSUME TypeOK, AtItsRow, Serial, Locks, OneLockOrder, NEW i \in Imports
  PROVE  ~Abort(i)
<1> SUFFICES ASSUME Abort(i) PROVE FALSE
  OBVIOUS
<1>1. PICK s \in SUBSET Imports : i \in s /\ Deadlocked(s)
  BY DEF Abort
<1> DEFINE wanted == {k \in Keys : \E a \in s : \E b \in s \ {a} : WantsNow(a, k) /\ Holds(b, k)}
<1>2. wanted # {}
  <2>1. PICK j \in s \ {i} : WaitsFor(i, j)
    BY <1>1 DEF Deadlocked
  <2>2. PICK k : WantsNow(i, k) /\ Holds(j, k)
    BY <2>1 DEF WaitsFor, WantsNow
  <2> QED
    BY <1>1, <2>1, <2>2, WantsAsks
<1>3. PICK l \in wanted : \A k \in wanted, a \in Imports : ~LocksBefore(a, k, l)
  BY <1>2 DEF OneLockOrder
<1>4. PICK a \in s, b \in s : b # a /\ WantsNow(a, l) /\ Holds(b, l)
  BY <1>3
<1>5. PICK c \in s \ {a}, k \in Keys : WantsNow(c, k) /\ Holds(a, k) /\ LocksBefore(a, k, l)
  BY <1>1, <1>4, CircleLocksBefore
<1>6. k \in wanted
  BY <1>4, <1>5
<1> QED
  BY <1>3, <1>4, <1>5, <1>6

(* As long as the files agree on an order, an untroubled import has no     *)
(* failed attempt behind it.                                               *)
Untouched(i) == retries[i] = 0 /\ pc[i] \notin {"raised", "failed"}
NoVictims == OneLockOrder => \A i \in Imports \ Troubled : Untouched(i)

LEMMA OrderOfFiles ==
  ASSUME file' = file
  PROVE  OneLockOrder' <=> OneLockOrder
<1>1. \A i \in Imports : \A k, l : LocksBefore(i, k, l)' <=> LocksBefore(i, k, l)
  BY DEF LocksBefore, Asks
<1> QED
  BY <1>1 DEF OneLockOrder

LEMMA StepUntouched ==
  ASSUME TypeOK, NEW i \in Imports, NEW j \in Imports, Step(i), ~(j = i /\ (Abort(i) \/ Refuse(i))),
         Untouched(j)
  PROVE  Untouched(j)'
<1>1. CASE j # i
  <2>1. pc'[j] = pc[j]
    BY <1>1, StepAlone DEF Alone
  <2>2. retries' = retries \/ Retry(i)
    BY DEF Step, Progress, Abort, Refuse, Begin, UpsertProduct, UpsertBatch, Write,
           ResolveProduct, ResolveLocation, CreateLocation, FindTransaction, InsertTransaction,
           Commit, Rollback, attempt
  <2>3. retries'[j] = retries[j]
    BY <1>1, <2>2 DEF Retry, TypeOK
  <2> QED
    BY <2>1, <2>3 DEF Untouched
<1>2. CASE j = i
  <2>1. pc[i] # "raised" /\ ~Retry(i) /\ Progress(i)
    BY <1>2 DEF Untouched, Retry, Step
  <2>2. retries' = retries
    BY <2>1 DEF Progress, Begin, UpsertProduct, UpsertBatch, Write, ResolveProduct,
           ResolveLocation, CreateLocation, FindTransaction, InsertTransaction, Commit, attempt
  <2>3. pc'[i] \in Running \cup {"committed"}
    <3>1. PICK to \in Running \cup {"committed"} : Goto(i, to)
      BY <2>1 DEF Progress, Begin, UpsertProduct, UpsertBatch, Write, ResolveProduct,
         ResolveLocation, CreateLocation, FindTransaction, InsertTransaction, Commit, Store,
         NextRow, DropRow, Running
    <3> QED
      BY <3>1 DEF Goto, TypeOK
  <2> QED
    BY <1>2, <2>2, <2>3 DEF Untouched, Running
<1> QED
  BY <1>1, <1>2

(* Only the order of the files makes imports fail each other: whatever     *)
(* lookups, locations and transactions lie between its upserts, no import  *)
(* is a deadlock victim if the files agree on an order of the rows they    *)
(* lock (one transaction per import, upserts in file order).               *)
THEOREM VictimsOnlyByLockOrderHolds == Spec => []VictimsOnlyByLockOrder
<1>1. Init => NoVictims
  BY DEF Init, NoVictims, Untouched
<1>2. TypeOK /\ AtItsRow /\ Serial /\ Locks /\ NoVictims /\ [Next]_vars => NoVictims'
  <2>1. ASSUME NoVictims, UNCHANGED vars PROVE NoVictims'
    BY <2>1, OrderOfFiles DEF vars, NoVictims, Untouched
  <2>2. ASSUME TypeOK, AtItsRow, Serial, Locks, NoVictims, NEW i \in Imports, Step(i)
        PROVE  NoVictims'
    <3>1. OneLockOrder' <=> OneLockOrder
      <4>1. file' = file
        BY <2>2, StepAlone DEF Alone
      <4> QED
        BY <4>1, OrderOfFiles
    <3>2. ASSUME OneLockOrder, NEW j \in Imports \ Troubled PROVE Untouched(j)'
      <4>1. Untouched(j)
        BY <2>2, <3>2 DEF NoVictims
      <4>2. ~(j = i /\ (Abort(i) \/ Refuse(i)))
        BY <2>2, <3>2, NoCircle DEF Refuse
      <4> QED
        BY <2>2, <4>1, <4>2, StepUntouched
    <3> QED
      BY <3>1, <3>2 DEF NoVictims
  <2> QED
    BY <2>1, <2>2 DEF Next
<1>3. NoVictims => VictimsOnlyByLockOrder
  BY DEF NoVictims, Untouched, VictimsOnlyByLockOrder
<1> QED
  BY <1>1, <1>2, <1>3, TypesHold, SerialHolds, LocksHold, PTL DEF Spec

(* Imports never all fail for each other's locks: where nothing else goes  *)
(* wrong, one of them has not been rolled back or has begun again (the     *)
(* server's victim leaves behind an import that waited for it).            *)
SomeoneGoesOn ==
  Troubled = {} /\ Imports # {} => \E i \in Imports : pc[i] \notin {"raised", "failed"}

THEOREM SomeoneGoesOnHolds == Spec => []SomeoneGoesOn
<1>1. Init => SomeoneGoesOn
  BY DEF Init, SomeoneGoesOn
<1>2. TypeOK /\ SomeoneGoesOn /\ [Next]_vars => SomeoneGoesOn'
  <2>1. ASSUME SomeoneGoesOn, UNCHANGED vars PROVE SomeoneGoesOn'
    BY <2>1 DEF vars, SomeoneGoesOn
  <2>2. ASSUME TypeOK, SomeoneGoesOn, NEW i \in Imports, Step(i), Troubled = {}
        PROVE  \E j \in Imports : pc'[j] \notin {"raised", "failed"}
    <3>1. \A j \in Imports \ {i} : pc'[j] = pc[j]
      BY <2>2, StepAlone DEF Alone
    <3>2. CASE Abort(i)
      <4>1. PICK s \in SUBSET Imports : i \in s /\ Deadlocked(s)
        BY <3>2 DEF Abort
      <4>2. PICK j \in s \ {i} : WaitsFor(j, i)
        BY <4>1 DEF Deadlocked
      <4> QED
        BY <3>1, <4>2 DEF WaitsFor, At
    <3>3. CASE Retry(i)
      <4>1. PICK j \in Imports : pc[j] \notin {"raised", "failed"}
        BY <2>2 DEF SomeoneGoesOn
      <4> QED
        BY <3>1, <3>3, <4>1 DEF Retry
    <3>4. CASE Progress(i) /\ ~Retry(i)
      <4>1. PICK to \in Running \cup {"committed"} : Goto(i, to)
        BY <3>4 DEF Progress, Begin, UpsertProduct, UpsertBatch, Write, ResolveProduct,
           ResolveLocation, CreateLocation, FindTransaction, InsertTransaction, Commit, Store,
           NextRow, DropRow, Running
      <4> QED
        BY <2>2, <4>1 DEF Goto, TypeOK, Running
    <3> QED
      BY <2>2, <3>2, <3>3, <3>4 DEF Step, Refuse
  <2> QED
    BY <2>1, <2>2 DEF Next, SomeoneGoesOn
<1> QED
  BY <1>1, <1>2, TypesHold, PTL DEF Spec

=============================================================================
