----------------------------- MODULE Conversions -----------------------------
(***************************************************************************)
(* What becomes of one row of a Marg export: the hook rewrites it as a row *)
(* of the platform's CSV templates, the connector reads that, the          *)
(* normalizer validates it: the record that is stored, or none.  The       *)
(* tables it is stored in are those of Inventory.                          *)
(*                                                                         *)
(* A cell is the text of one field: a number in thousandths, a date as its *)
(* three groups of digits and their separator, or a word.  "dashes" is the *)
(* "-  -" Marg writes for no date, "None" a text both the hook and pandas  *)
(* take for nothing, "NA" one only pandas does.  A field that is not there *)
(* is the Empty cell, and so is None.                                      *)
(***************************************************************************)
EXTENDS Integers, Sequences

CONSTANTS
  Words,        \* cells of the columns with codes and names
  Amounts,      \* cells of the columns with quantities and prices
  Dates,        \* cells of the date columns
  Days,         \* days an export can be about, as year, month, day
  Clock,        \* moments at which an import may read the clock
  DefaultPlace  \* the hook's --default-location

Cell(kind, text, value) == [kind |-> kind, text |-> text, value |-> value]
Plain(kind) == Cell(kind, "", <<>>)
Word(text) == Cell("word", text, <<>>)
Number(thousandths) == Cell("number", "", <<thousandths>>)
DateText(separator, groups) == Cell("date", separator, groups)

Empty == Plain("empty")
Infinite == Plain("infinite")   \* "inf", which float() accepts

IsLeap(y) == y % 4 = 0 /\ (y % 100 # 0 \/ y % 400 = 0)

DaysIn(y, m) ==
  IF m = 2 THEN (IF IsLeap(y) THEN 29 ELSE 28)
  ELSE IF m \in {4, 6, 9, 11} THEN 30 ELSE 31

IsDay(d) == d[1] \in 1000 .. 9999 /\ d[2] \in 1 .. 12 /\ d[3] \in 1 .. DaysIn(d[1], d[2])

NoDay == <<>>

ASSUME ConversionsAssumption ==
  /\ DefaultPlace.kind = "word"
  /\ Infinite \notin Dates
  /\ \A c \in Amounts : c.kind = "number" => c.value \in Seq(Int) /\ Len(c.value) = 1
  /\ \A d \in Days : d \in Nat \X Nat \X Nat /\ IsDay(d)

-----------------------------------------------------------------------------
(* The hook: transform_product_rows, transform_batch_rows and              *)
(* transform_transaction_rows give a row of the template, or none.         *)

Clean(c) == IF c.kind \in {"spaces", "dashes", "None"} THEN Empty ELSE c

(* `a or b`: only "" is false. *)
Or(a, b) == IF a = Empty THEN b ELSE a

HookProduct(row) ==
  {s \in {[sku_code |-> Clean(row.code),
           name |-> Clean(Or(row.name, row.billname)),
           category |-> Clean(row.product),
           unit_of_measure |-> Or(Clean(row.unit), Word("PCS")),
           unit_cost |-> Clean(row.prate),
           selling_price |-> Clean(row.mrp)]} :
     s.sku_code # Empty /\ s.name # Empty}

HookBatch(row) ==
  {s \in {[sku_code |-> Clean(row.code),
           batch_no |-> Clean(Or(row.batchno, row.mybatch)),
           manufactured_date |-> Clean(row.mfd),
           expiry_date |-> Clean(row.exp),
           quantity |-> Clean(row.balance),
           location_name |-> Or(Clean(row.godwon), DefaultPlace)]} :
     s.sku_code # Empty /\ s.batch_no # Empty}

HookTransaction(row) ==
  {s \in {[sku_code |-> Clean(row.code),
           location_name |-> Or(Clean(row.godwon), DefaultPlace),
           transaction_type |-> Word("out"),
           quantity |-> Clean(row.qty),
           unit_cost |-> Clean(row.rate),
           reference_no |-> Clean(Or(row.vcn, row.voucher)),
           transaction_date |-> Clean(row.date)]} :
     s.sku_code # Empty /\ s.quantity # Empty /\ s.transaction_date # Empty}

-----------------------------------------------------------------------------
(* The connector.  An infinite amount raises OverflowError, which ends the *)
(* import (SyncRows calls such a row garbled): no record comes of it.      *)

(* read_csv and dropna: a field pandas takes for missing is not there. *)
Read(c) == IF c.kind \in {"None", "NA"} THEN Empty ELSE c

Text(c) == IF Read(c).kind = "spaces" THEN Empty ELSE Read(c)

Distance(a, b) == IF a < b THEN b - a ELSE a - b

(* Thousandths of a rupee to the nearest paisa.  Which of two equally near *)
(* ones it is, the binary fraction of the text decides.                    *)
Nearest(n) == CHOOSE p \in {n \div 10, n \div 10 + 1} : 2 * Distance(10 * p, n) <= 10

ToPaise(c) == IF c.kind = "number" THEN Nearest(c.value[1]) ELSE 0

Whole(n) == IF n < 0 THEN -((-n) \div 1000) ELSE n \div 1000

ToInt(c) == IF c.kind = "number" THEN Whole(c.value[1]) ELSE 0

Movements == {"in", "out", "transfer", "return", "adjustment"}

ToTransactionType(c) == IF c.kind = "word" /\ c.text \in Movements THEN c.text ELSE "in"

(* The strptime formats of _to_date, tried in this order: the separator    *)
(* and which group of digits is the year, the month and the day.           *)
Format(separator, year, month, day) ==
  [separator |-> separator, year |-> year, month |-> month, day |-> day]

(* Bug: the day is read before the month. *)
DayFirstFormats ==
  <<Format("-", 1, 2, 3), Format("-", 3, 2, 1), Format("/", 3, 2, 1), Format("/", 3, 1, 2),
    Format("/", 1, 2, 3), Format("", 1, 2, 3)>>

Formats ==
  <<Format("-", 1, 2, 3), Format("-", 3, 2, 1), Format("/", 3, 1, 2), Format("/", 1, 2, 3),
    Format("", 1, 2, 3)>>

DayBy(f, c) == <<c.value[f.year], c.value[f.month], c.value[f.day]>>
Matches(f, c) == c.kind = "date" /\ c.text = f.separator /\ IsDay(DayBy(f, c))

ToDate(c) ==
  LET matching == {i \in 1 .. Len(Formats) : Matches(Formats[i], c)}
  IN  IF matching = {} THEN NoDay
      ELSE DayBy(Formats[CHOOSE i \in matching : \A k \in matching : i <= k], c)

Midnight(d) == d \o <<0>>

(* A day is its midnight; a date and time is itself; all else is now. *)
ToDatetime(c, now) ==
  IF ToDate(c) # NoDay THEN Midnight(ToDate(c)) ELSE IF c.kind = "moment" THEN c.value ELSE now

MapToProduct(s) ==
  {p \in {[sku_code |-> Text(s.sku_code),
           name |-> Text(s.name),
           category |-> Text(s.category),
           unit_of_measure |-> Or(Text(s.unit_of_measure), Word("pcs")),
           unit_cost_paise |-> ToPaise(s.unit_cost),
           selling_price_paise |-> ToPaise(s.selling_price)]} :
     Infinite \notin {s.unit_cost, s.selling_price}}

MapToBatch(s) ==
  {b \in {[sku_code |-> Text(s.sku_code),
           batch_no |-> Text(s.batch_no),
           manufactured_date |-> ToDate(s.manufactured_date),
           expiry_date |-> ToDate(s.expiry_date),
           quantity |-> ToInt(s.quantity),
           location_name |-> Text(s.location_name)]} : s.quantity # Infinite}

MapToTransaction(s, now) ==
  {t \in {[sku_code |-> Text(s.sku_code),
           location_name |-> Text(s.location_name),
           transaction_type |-> ToTransactionType(s.transaction_type),
           quantity |-> ToInt(s.quantity),
           unit_cost_paise |-> ToPaise(s.unit_cost),
           reference_no |-> Text(s.reference_no),
           transaction_date |-> ToDatetime(s.transaction_date, now)]} :
     Infinite \notin {s.quantity, s.unit_cost}}

-----------------------------------------------------------------------------
(* The normalizer: validation, and a second conversion that has to leave   *)
(* alone what the connector has converted.                                 *)

(* Bug: rupees for the second time. *)
AsPaiseAgain(v) == 100 * v

(* normalizer._to_paise of an int: paise already. *)
AsPaise(v) == v

NormalizeProduct(p) ==
  {q \in {[p EXCEPT !.unit_cost_paise = AsPaise(@), !.selling_price_paise = AsPaise(@)]} :
     q.sku_code # Empty /\ q.name # Empty}

NormalizeBatch(b) == {c \in {b} : c.sku_code # Empty /\ c.batch_no # Empty}

NormalizeTransaction(t) ==
  {u \in {[t EXCEPT !.unit_cost_paise = AsPaise(@)]} :
     u.sku_code # Empty /\ u.location_name # Empty}

(* The stages together: the record that is stored of a row, if one is. *)
Products(row) ==
  UNION {NormalizeProduct(p) : p \in UNION {MapToProduct(s) : s \in HookProduct(row)}}

Batches(row) ==
  UNION {NormalizeBatch(b) : b \in UNION {MapToBatch(s) : s \in HookBatch(row)}}

Transactions(row, now) ==
  UNION {NormalizeTransaction(t) :
           t \in UNION {MapToTransaction(s, now) : s \in HookTransaction(row)}}

-----------------------------------------------------------------------------
(* Properties, over all the rows Marg may have exported. *)

ProductRows ==
  [code : Words, name : Words, billname : Words, product : Words, unit : Words,
   prate : Amounts, mrp : Amounts]

BatchRows ==
  [code : Words, batchno : Words, mybatch : Words, mfd : Dates, exp : Dates,
   balance : Amounts, godwon : Words]

TransactionRows ==
  [code : Words, godwon : Words, qty : Amounts, rate : Amounts, vcn : Words,
   voucher : Words, date : Dates]

(* A day as the normalizer's _parse_date documents the ways to write it. *)
Writings(d) ==
  {DateText("-", <<d[1], d[2], d[3]>>), DateText("-", <<d[3], d[2], d[1]>>),
   DateText("/", <<d[2], d[3], d[1]>>), DateText("/", <<d[1], d[2], d[3]>>)}

Amount(c) == c.kind = "number"
Named(c) == c.kind = "word"

(* A price to the nearest paisa, and a quantity less than one unit off. *)
Priced(paise, c) == Amount(c) => Distance(10 * paise, c.value[1]) <= 5
Counted(n, c) == Amount(c) => Distance(1000 * n, c.value[1]) < 1000

(* What Marg exported legibly arrives unaltered, through four conversions  *)
(* that each guess at types: the names under their columns, and a price of *)
(* rupees as paise once.                                                   *)
ProductsKept ==
  \A row \in ProductRows :
    Named(row.code) /\ Named(row.name) /\ Amount(row.prate) /\ Amount(row.mrp) =>
      \E p \in Products(row) :
        /\ p.sku_code = row.code /\ p.name = row.name
        /\ Priced(p.unit_cost_paise, row.prate) /\ Priced(p.selling_price_paise, row.mrp)

(* And a date on its own day in whichever documented way it is written.    *)
BatchesKept ==
  \A row \in BatchRows :
    Named(row.code) /\ Named(row.batchno) /\ Amount(row.balance) =>
      \E b \in Batches(row) :
        /\ b.sku_code = row.code /\ b.batch_no = row.batchno
        /\ Counted(b.quantity, row.balance)
        /\ \A d \in Days : /\ row.mfd \in Writings(d) => b.manufactured_date = d
                          /\ row.exp \in Writings(d) => b.expiry_date = d

(* And, without a godown, at the default location.                         *)
TransactionsKept ==
  \A row \in TransactionRows, now \in Clock, d \in Days :
    /\ Named(row.code) /\ Amount(row.qty) /\ Amount(row.rate) /\ row.date \in Writings(d)
    /\ Named(row.godwon) \/ row.godwon = Empty
    => \E t \in Transactions(row, now) :
         /\ t.sku_code = row.code /\ t.transaction_type = "out"
         /\ t.location_name = IF Named(row.godwon) THEN row.godwon ELSE DefaultPlace
         /\ t.transaction_date = Midnight(d)
         /\ Counted(t.quantity, row.qty) /\ Priced(t.unit_cost_paise, row.rate)
         /\ Named(row.vcn) => t.reference_no = row.vcn

=============================================================================
