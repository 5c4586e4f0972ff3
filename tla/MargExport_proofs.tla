-------------------------- MODULE MargExport_proofs --------------------------
(***************************************************************************)
(* What the conversions keep of an exported row, and what they leave to    *)
(* the moment of the import, for every set of rows.                        *)
(***************************************************************************)
EXTENDS MargExport, TLAPS

-----------------------------------------------------------------------------
(* Single cells. *)

(* A cell that says something survives the hook's cleaning and is not      *)
(* missing to the reader.                                                  *)
LEMMA Legible ==
  ASSUME NEW c, c.kind \in {"word", "number", "date"}
  PROVE  Clean(c) = c /\ Read(c) = c /\ Text(c) = c /\ c # Empty /\ c # Infinite
         /\ \A b : Or(c, b) = c
<1>1. c # Empty /\ c # Infinite
  <2>1. Empty.kind = "empty" /\ Infinite.kind = "infinite"
    BY DEF Empty, Infinite, Plain, Cell
  <2> QED
    BY <2>1
<1>2. Clean(c) = c
  BY DEF Clean
<1>3. Read(c) = c
  BY DEF Read
<1> QED
  BY <1>1, <1>2, <1>3 DEF Text, Or

(* The paise a price becomes are the nearest. *)
LEMMA NearestIsNear ==
  ASSUME NEW n \in Int
  PROVE  Nearest(n) \in Int /\ Distance(10 * Nearest(n), n) <= 5
<1> DEFINE Near(p) == 2 * Distance(10 * p, n) <= 10
           Around == {n \div 10, n \div 10 + 1}
<1>1. PICK q \in Int : n \div 10 = q /\ 10 * q <= n /\ n < 10 * q + 10
  OBVIOUS
<1>2. Near(q) \/ Near(q + 1)
  BY <1>1 DEF Distance
<1>3. \E p \in Around : Near(p)
  BY <1>1, <1>2
<1>4. Nearest(n) \in Around /\ Near(Nearest(n))
  BY <1>3 DEF Nearest
<1>5. Around \subseteq Int
  BY <1>1
<1> QED
  BY <1>4, <1>5 DEF Distance

(* A price in paise and a whole quantity, from the text of a number. *)
LEMMA AmountsConverted ==
  ASSUME NEW c \in Amounts, Amount(c)
  PROVE  Priced(ToPaise(c), c) /\ Counted(ToInt(c), c)
<1>1. c.value[1] \in Int
  BY ConversionsAssumption DEF Amount
<1>2. Priced(ToPaise(c), c)
  BY <1>1, NearestIsNear DEF Amount, Priced, ToPaise
<1>3. PICK n \in Int : n = c.value[1]
  BY <1>1
<1>4. Distance(1000 * Whole(n), n) < 1000
  <2>1. CASE n >= 0
    <3>1. PICK q \in Int : n \div 1000 = q /\ 1000 * q <= n /\ n < 1000 * q + 1000
      BY <2>1
    <3> QED
      BY <2>1, <3>1 DEF Whole, Distance
  <2>2. CASE n < 0
    <3>1. PICK q \in Int : (-n) \div 1000 = q /\ 1000 * q <= -n /\ -n < 1000 * q + 1000
      BY <2>2
    <3> QED
      BY <2>2, <3>1 DEF Whole, Distance
  <2> QED
    BY <2>1, <2>2
<1> QED
  BY <1>2, <1>3, <1>4 DEF Amount, Counted, ToInt

-----------------------------------------------------------------------------
(* Dates. *)

(* A text is read by the first format it matches. *)
LEMMA FirstFormat ==
  ASSUME NEW c, NEW i \in 1 .. 5, Matches(Formats[i], c),
         \A k \in 1 .. 5 : k < i => ~Matches(Formats[k], c)
  PROVE  ToDate(c) = DayBy(Formats[i], c)
<1> DEFINE matching == {k \in 1 .. Len(Formats) : Matches(Formats[k], c)}
           first == CHOOSE k \in matching : \A l \in matching : k <= l
<1>1. Len(Formats) = 5
  BY DEF Formats
<1>2. i \in matching /\ matching \subseteq 1 .. 5
  BY <1>1
<1>3. \A l \in matching : i <= l
  BY <1>1
<1>4. first \in matching /\ \A l \in matching : first <= l
  BY <1>2, <1>3
<1>5. first = i
  <2> HIDE DEF first, matching
  <2> QED
    BY <1>2, <1>3, <1>4
<1> QED
  BY <1>2, <1>5 DEF ToDate

(* Every documented way to write a day is read as that day. *)
LEMMA WritingsRead ==
  ASSUME NEW d \in Days, NEW c \in Writings(d)
  PROVE  ToDate(c) = d /\ d # NoDay /\ c.kind = "date"
<1>1. d \in Nat \X Nat \X Nat /\ IsDay(d)
  BY ConversionsAssumption
<1>2. PICK y \in Nat, m \in Nat, n \in Nat : d = <<y, m, n>>
  <2>1. d[1] \in Nat /\ d[2] \in Nat /\ d[3] \in Nat
    BY <1>1
  <2>2. d = <<d[1], d[2], d[3]>>
    BY <1>1
  <2> QED
    BY <2>1, <2>2
<1>3. y >= 1000 /\ m \in 1 .. 12 /\ n <= 31
  BY <1>1, <1>2 DEF IsDay, DaysIn
<1>4. d # NoDay
  BY <1>2 DEF NoDay
<1>5. \A a, b : ~IsDay(<<n, a, b>>)
  <2>1. \A i \in 1000 .. 9999 : i # n
    BY <1>3
  <2>2. \A a, b : <<n, a, b>>[1] = n
    OBVIOUS
  <2> QED
    BY <2>1, <2>2 DEF IsDay
<1>6. CASE c = DateText("-", <<y, m, n>>)
  <2>1. DayBy(Formats[1], c) = d /\ Matches(Formats[1], c) /\ c.kind = "date"
    BY <1>1, <1>2, <1>6 DEF Formats, Format, DayBy, Matches, DateText, Cell
  <2> QED
    BY <1>4, <2>1, FirstFormat
<1>7. CASE c = DateText("-", <<n, m, y>>)
  <2>1. DayBy(Formats[2], c) = d /\ Matches(Formats[2], c) /\ c.kind = "date"
    BY <1>1, <1>2, <1>7 DEF Formats, Format, DayBy, Matches, DateText, Cell
  <2>2. ~Matches(Formats[1], c)
    <3>1. DayBy(Formats[1], c) = <<n, m, y>>
      BY <1>7 DEF Formats, Format, DayBy, DateText, Cell
    <3> QED
      BY <1>5, <3>1 DEF Matches
  <2> QED
    BY <1>4, <2>1, <2>2, FirstFormat
<1>8. CASE c = DateText("/", <<m, n, y>>)
  <2>1. DayBy(Formats[3], c) = d /\ Matches(Formats[3], c) /\ c.kind = "date"
    BY <1>1, <1>2, <1>8 DEF Formats, Format, DayBy, Matches, DateText, Cell
  <2>2. ~Matches(Formats[1], c) /\ ~Matches(Formats[2], c)
    BY <1>8 DEF Formats, Format, Matches, DateText, Cell
  <2> QED
    BY <1>4, <2>1, <2>2, FirstFormat
<1>9. CASE c = DateText("/", <<y, m, n>>)
  <2>1. DayBy(Formats[4], c) = d /\ Matches(Formats[4], c) /\ c.kind = "date"
    BY <1>1, <1>2, <1>9 DEF Formats, Format, DayBy, Matches, DateText, Cell
  <2>2. ~Matches(Formats[1], c) /\ ~Matches(Formats[2], c)
    BY <1>9 DEF Formats, Format, Matches, DateText, Cell
  <2>3. ~Matches(Formats[3], c)
    <3>1. DayBy(Formats[3], c) = <<n, y, m>>
      BY <1>9 DEF Formats, Format, DayBy, DateText, Cell
    <3> QED
      BY <1>5, <3>1 DEF Matches
  <2> QED
    BY <1>4, <2>1, <2>2, <2>3, FirstFormat
<1> QED
  BY <1>2, <1>6, <1>7, <1>8, <1>9 DEF Writings

-----------------------------------------------------------------------------
(* What is kept. *)

(* Products: each stage makes one record, of the row's own fields. *)
THEOREM ProductsAreKept == ProductsKept
<1> SUFFICES ASSUME NEW row \in ProductRows,
                    Named(row.code), Named(row.name), Amount(row.prate), Amount(row.mrp)
             PROVE  \E p \in Products(row) :
                      /\ p.sku_code = row.code /\ p.name = row.name
                      /\ Priced(p.unit_cost_paise, row.prate)
                      /\ Priced(p.selling_price_paise, row.mrp)
  BY DEF ProductsKept
<1>1. row.prate \in Amounts /\ row.mrp \in Amounts
  BY DEF ProductRows
<1> DEFINE s == [sku_code |-> row.code, name |-> row.name, category |-> Clean(row.product),
                 unit_of_measure |-> Or(Clean(row.unit), Word("PCS")),
                 unit_cost |-> row.prate, selling_price |-> row.mrp]
           p == [sku_code |-> row.code, name |-> row.name,
                 category |-> Text(s.category),
                 unit_of_measure |-> Or(Text(s.unit_of_measure), Word("pcs")),
                 unit_cost_paise |-> ToPaise(row.prate),
                 selling_price_paise |-> ToPaise(row.mrp)]
<1>2. s \in HookProduct(row)
  BY Legible DEF HookProduct, Named, Amount
<1>3. p \in MapToProduct(s)
  BY Legible DEF MapToProduct, Named, Amount
<1>4. p \in NormalizeProduct(p)
  <2>1. [p EXCEPT !.unit_cost_paise = AsPaise(@), !.selling_price_paise = AsPaise(@)] = p
    BY DEF AsPaise
  <2> QED
    BY <2>1, Legible DEF NormalizeProduct, Named
<1>5. p \in Products(row)
  BY <1>2, <1>3, <1>4 DEF Products
<1>6. Priced(p.unit_cost_paise, row.prate) /\ Priced(p.selling_price_paise, row.mrp)
  BY <1>1, AmountsConverted
<1> QED
  BY <1>5, <1>6

(* Batches: dates on their own day, whatever the location. *)
THEOREM BatchesAreKept == BatchesKept
<1> SUFFICES ASSUME NEW row \in BatchRows,
                    Named(row.code), Named(row.batchno), Amount(row.balance)
             PROVE  \E b \in Batches(row) :
                      /\ b.sku_code = row.code /\ b.batch_no = row.batchno
                      /\ Counted(b.quantity, row.balance)
                      /\ \A d \in Days :
                           /\ row.mfd \in Writings(d) => b.manufactured_date = d
                           /\ row.exp \in Writings(d) => b.expiry_date = d
  BY DEF BatchesKept
<1>1. row.balance \in Amounts
  BY DEF BatchRows
<1> DEFINE s == [sku_code |-> row.code, batch_no |-> row.batchno,
                 manufactured_date |-> Clean(row.mfd), expiry_date |-> Clean(row.exp),
                 quantity |-> row.balance,
                 location_name |-> Or(Clean(row.godwon), DefaultPlace)]
           b == [sku_code |-> row.code, batch_no |-> row.batchno,
                 manufactured_date |-> ToDate(s.manufactured_date),
                 expiry_date |-> ToDate(s.expiry_date),
                 quantity |-> ToInt(row.balance), location_name |-> Text(s.location_name)]
<1>2. s \in HookBatch(row)
  BY Legible DEF HookBatch, Named, Amount
<1>3. b \in MapToBatch(s)
  BY Legible DEF MapToBatch, Named, Amount
<1>4. b \in NormalizeBatch(b)
  BY Legible DEF NormalizeBatch, Named
<1>5. b \in Batches(row)
  BY <1>2, <1>3, <1>4 DEF Batches
<1>6. ASSUME NEW d \in Days
      PROVE  /\ row.mfd \in Writings(d) => b.manufactured_date = d
             /\ row.exp \in Writings(d) => b.expiry_date = d
  BY WritingsRead, Legible
<1>7. Counted(b.quantity, row.balance)
  BY <1>1, AmountsConverted
<1> QED
  BY <1>5, <1>6, <1>7

(* Transactions: a movement out, on the day and at the place of the row. *)
THEOREM TransactionsAreKept == TransactionsKept
<1> SUFFICES ASSUME NEW row \in TransactionRows, NEW now \in Clock, NEW d \in Days,
                    Named(row.code), Amount(row.qty), Amount(row.rate),
                    row.date \in Writings(d), Named(row.godwon) \/ row.godwon = Empty
             PROVE  \E t \in Transactions(row, now) :
                      /\ t.sku_code = row.code /\ t.transaction_type = "out"
                      /\ t.location_name =
                           IF Named(row.godwon) THEN row.godwon ELSE DefaultPlace
                      /\ t.transaction_date = Midnight(d)
                      /\ Counted(t.quantity, row.qty) /\ Priced(t.unit_cost_paise, row.rate)
                      /\ Named(row.vcn) => t.reference_no = row.vcn
  BY DEF TransactionsKept
<1>1. row.qty \in Amounts /\ row.rate \in Amounts
  BY DEF TransactionRows
<1> DEFINE place == IF Named(row.godwon) THEN row.godwon ELSE DefaultPlace
           s == [sku_code |-> row.code, location_name |-> place,
                 transaction_type |-> Word("out"), quantity |-> row.qty,
                 unit_cost |-> row.rate, reference_no |-> Clean(Or(row.vcn, row.voucher)),
                 transaction_date |-> row.date]
           t == [sku_code |-> row.code, location_name |-> place,
                 transaction_type |-> "out", quantity |-> ToInt(row.qty),
                 unit_cost_paise |-> ToPaise(row.rate),
                 reference_no |-> Text(s.reference_no), transaction_date |-> Midnight(d)]
<1>2. ToDate(row.date) = d /\ d # NoDay /\ row.date.kind = "date"
  BY WritingsRead
<1>3. place.kind = "word" /\ Or(Clean(row.godwon), DefaultPlace) = place
  <2>1. CASE Named(row.godwon)
    BY <2>1, Legible DEF Named
  <2>2. CASE ~Named(row.godwon)
    <3>1. Empty.kind = "empty"
      BY DEF Empty, Plain, Cell
    <3>2. Clean(row.godwon) = Empty
      BY <2>2, <3>1 DEF Clean
    <3> QED
      BY <2>2, <3>2, ConversionsAssumption DEF Or
  <2> QED
    BY <2>1, <2>2
<1>4. s \in HookTransaction(row)
  BY <1>2, <1>3, Legible DEF HookTransaction, Named, Amount
<1>5. ToDatetime(row.date, now) = Midnight(d) /\ ToTransactionType(Word("out")) = "out"
  BY <1>2 DEF ToDatetime, ToTransactionType, Movements, Word, Cell
<1>6. t \in MapToTransaction(s, now)
  BY <1>3, <1>5, Legible DEF MapToTransaction, Named, Amount
<1>7. t \in NormalizeTransaction(t)
  BY <1>3, Legible DEF NormalizeTransaction, AsPaise, Named
<1>8. t \in Transactions(row, now)
  BY <1>4, <1>6, <1>7 DEF Transactions
<1>9. Counted(t.quantity, row.qty) /\ Priced(t.unit_cost_paise, row.rate)
  BY <1>1, AmountsConverted
<1>10. Named(row.vcn) => t.reference_no = row.vcn
  BY Legible DEF Named
<1> QED
  BY <1>8, <1>9, <1>10

-----------------------------------------------------------------------------
(* What a second import looks for. *)

(* A date written in a documented way leaves nothing of a transaction to   *)
(* the clock: an import at another moment, by another run or execution,    *)
(* looks for the very record the first one stored (create_transaction).    *)
(* Inventory rests on it: its rows have dates of their own.                *)
THEOREM ClockIsNotRead ==
  ASSUME NEW row \in TransactionRows, NEW d \in Days, row.date \in Writings(d),
         NEW first, NEW second
  PROVE  Transactions(row, first) = Transactions(row, second)
<1>1. ToDate(row.date) # NoDay /\ Clean(row.date) = row.date
  BY WritingsRead, Legible
<1>2. ToDatetime(row.date, first) = ToDatetime(row.date, second)
  BY <1>1 DEF ToDatetime
<1>3. ASSUME NEW s \in HookTransaction(row)
      PROVE  MapToTransaction(s, first) = MapToTransaction(s, second)
  <2>1. s.transaction_date = row.date
    BY <1>1 DEF HookTransaction
  <2> QED
    BY <1>2, <2>1 DEF MapToTransaction
<1>4. UNION {MapToTransaction(s, first) : s \in HookTransaction(row)}
        = UNION {MapToTransaction(s, second) : s \in HookTransaction(row)}
  BY <1>3
<1> QED
  BY <1>4 DEF Transactions

-----------------------------------------------------------------------------
(* The runs of the hook. *)

(* Whatever a run has imported of its export is what Marg exported, for    *)
(* every number of runs and faults and every set of cells, days and        *)
(* moments.                                                                *)
THEOREM ExportKeptHolds == HookSpec => []ExportKept
<1>1. ExportKept
  BY ProductsAreKept, BatchesAreKept, TransactionsAreKept, HookAssumption
     DEF ExportKept, Kept, Entities
<1> QED
  BY <1>1, PTL

=============================================================================
