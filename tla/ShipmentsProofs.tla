-------------------------- MODULE ShipmentsProofs --------------------------
(***************************************************************************)
(* What the ledger has of a shipment line and where, through every series  *)
(* of drafts, edits, receipts, undone receipts, cancellations and          *)
(* deletions, whatever other apps post in between and however long a       *)
(* receipt waits with the lines it loaded; and what the pooled stocks are  *)
(* worth.                                                                  *)
(***************************************************************************)
EXTENDS Shipments, StockLedgerProofs

-----------------------------------------------------------------------------
(* The invariant *)

ShipTypes == {"SHIPMENT", "SHIPMENT_RECEIPT"}

ShipmentRecords == [from: Locations, to: Locations, shipped: BOOLEAN,
                    cancelled: BOOLEAN, is_deleted: BOOLEAN]

\* The lines of the first n shipments.
ShipLineRecords(n) ==
    [shipment: 1..n, product: Products, quantity: Quantities, is_deleted: BOOLEAN]

\* What a receipt says of the first m lines.
ReceiptLines(m) == [line: 1..m, quantity: Quantities]

ReceiptRecords(n, m) == [shipment: 1..n, is_deleted: BOOLEAN, lines: Seq(ReceiptLines(m))]

\* What a request has loaded of them.
LoadedItems(m) == [line: 1..m, quantity: Quantities, product: Products]

LoadedRequests(n, m) == [shipment: 1..n, items: Seq(LoadedItems(m))]

RecordsFit ==
    /\ shipments \in Seq(ShipmentRecords)
    /\ shipLines \in Seq(ShipLineRecords(Len(shipments)))
    /\ receipts \in Seq(ReceiptRecords(Len(shipments), Len(shipLines)))
    /\ inFlight \subseteq LoadedRequests(Len(shipments), Len(shipLines))

\* How the records of different tables belong together: a shipment goes somewhere
\* else; a receipt is of a shipment that was sent, and of its lines; a deleted
\* shipment has no live line and no live receipt.
RecordsAgree ==
    /\ \A s \in DOMAIN shipments : shipments[s].from # shipments[s].to
    /\ \A l \in DOMAIN shipLines : ~shipLines[l].is_deleted => Live(shipLines[l].shipment)
    /\ \A r \in DOMAIN receipts :
          /\ shipments[receipts[r].shipment].shipped
          /\ ~receipts[r].is_deleted => Live(receipts[r].shipment)
          /\ \A i \in DOMAIN receipts[r].lines :
                shipLines[receipts[r].lines[i].line].shipment = receipts[r].shipment

\* A row of a shipment is of a line that exists, and of one that was sent; a row of
\* a receipt is of a line of the shipment the receipt is of.
RowFits(row) ==
    row.stype \in ShipTypes =>
        /\ row.line \in DOMAIN shipLines
        /\ shipments[shipLines[row.line].shipment].shipped
        /\ row.stype = "SHIPMENT_RECEIPT" =>
              /\ row.sid \in DOMAIN receipts
              /\ receipts[row.sid].shipment = shipLines[row.line].shipment

RowsFit == \A i \in DOMAIN ledger : RowFits(ledger[i])

\* The rows of a line, those of one product, location and bucket, and those of its
\* stock on the way.
RowsOn(l) == {row \in Rows : OfLine(row, l)}

LineAt(l, key) == {row \in RowsOn(l) : KeyOf(row) = key}

TransitOf(l) == {row \in RowsOn(l) : row.bucket = "IN_TRANSIT"}

\* Nothing is left of a deleted shipment.
DeadHoldNothing ==
    \A l \in DOMAIN shipLines : ~Live(shipLines[l].shipment) =>
        /\ \A key \in Keys : NetIn(ledger, LineAt(l, key)) = NoStock
        /\ NetIn(ledger, TransitOf(l)) = NoStock

Inv ==
    /\ Sound(Book)
    /\ RecordsFit
    /\ RecordsAgree
    /\ RowsFit
    /\ DeadHoldNothing

\* What no operation takes back: records stay, a shipment that was sent keeps its
\* route and its lines and gets no more of them, what is deleted stays deleted.
RecordsGrow ==
    /\ \A s \in DOMAIN shipments :
          /\ s \in DOMAIN shipments'
          /\ shipments[s].shipped =>
                /\ shipments'[s].shipped
                /\ shipments'[s].from = shipments[s].from
                /\ shipments'[s].to = shipments[s].to
          /\ shipments[s].is_deleted => shipments'[s].is_deleted
    /\ \A l \in DOMAIN shipLines :
          /\ l \in DOMAIN shipLines'
          /\ shipLines'[l].shipment = shipLines[l].shipment
          /\ shipments[shipLines[l].shipment].shipped =>
                /\ shipLines'[l].product = shipLines[l].product
                /\ shipLines'[l].quantity = shipLines[l].quantity
          /\ shipLines[l].is_deleted => shipLines'[l].is_deleted
    /\ \A l \in DOMAIN shipLines' \ DOMAIN shipLines :
          shipLines'[l].shipment \in DOMAIN shipments
              => ~shipments[shipLines'[l].shipment].shipped
    /\ \A r \in DOMAIN receipts :
          /\ r \in DOMAIN receipts'
          /\ receipts'[r].shipment = receipts[r].shipment
          /\ receipts'[r].lines = receipts[r].lines
          /\ receipts[r].is_deleted => receipts'[r].is_deleted

\* A step that posts these movements: they fit the records it leaves, and touch no
\* line of a shipment that was deleted before.
StepPosts(moves) ==
    /\ ledger' = ledger \o moves
    /\ Sound(Book)'
    /\ RecordsGrow
    /\ \A i \in 1..Len(moves) :
          /\ RowFits(moves[i])'
          /\ moves[i].stype \in ShipTypes /\ moves[i].line \in DOMAIN shipLines
                => Live(shipLines[moves[i].line].shipment)
    /\ \A l \in DOMAIN shipLines' \ DOMAIN shipLines : Live(shipLines[l].shipment)'

-----------------------------------------------------------------------------
(* Sets of rows *)

\* The sets of rows the invariant speaks of cannot tell amounts.
LEMMA LineSetsBlind ==
    /\ \A l : Blind(RowsOn(l)) /\ Blind(TransitOf(l))
    /\ \A l, key : Blind(LineAt(l, key)) /\ LineAt(l, key) \subseteq RowsOn(l)
    /\ \A l : TransitOf(l) \subseteq RowsOn(l)
<1>1. ASSUME NEW l, NEW r \in Rows, NEW s \in Rows, SameRecord(r, s)
      PROVE  /\ r \in RowsOn(l) <=> s \in RowsOn(l)
             /\ r \in TransitOf(l) <=> s \in TransitOf(l)
             /\ \A key : r \in LineAt(l, key) <=> s \in LineAt(l, key)
  <2>1. /\ r.stype = s.stype /\ r.line = s.line /\ KeyOf(r) = KeyOf(s)
        /\ r.bucket = s.bucket
    BY <1>1 DEF SameRecord, KeyOf
  <2> QED
    BY <2>1 DEF RowsOn, TransitOf, LineAt, OfLine
<1> QED
  BY <1>1 DEF Blind, LineAt, TransitOf

\* A row is a row of its line, if it is one of a shipment.
LEMMA RowOnLine ==
    ASSUME NEW row \in Rows, NEW l
    PROVE  row \in RowsOn(l) <=> row.stype \in ShipTypes /\ row.line = l
BY DEF RowsOn, OfLine, ShipTypes

\* The model's sums are sums over these sets.
LEMMA SumsOfSets ==
    ASSUME ledger \in Seq(Rows)
    PROVE  /\ \A l, product, loc, bucket :
                 LineStock(l, product, loc, bucket)
                     = NetIn(ledger, LineAt(l, <<product, loc, bucket>>))
           /\ \A l : InTransit(l) = NetIn(ledger, TransitOf(l))
<1>1. \A i \in 1..Len(ledger) : ledger[i] \in Rows
  OBVIOUS
<1>2. ASSUME NEW l, NEW product, NEW loc, NEW bucket
      PROVE  LineStock(l, product, loc, bucket)
                 = NetIn(ledger, LineAt(l, <<product, loc, bucket>>))
  <2> DEFINE key == <<product, loc, bucket>>
  <2>1. \A i \in 1..Len(ledger) :
           OfLine(ledger[i], l) /\ KeyOf(ledger[i]) = key <=> ledger[i] \in LineAt(l, key)
    BY <1>1 DEF LineAt, RowsOn
  <2> HIDE DEF key
  <2>2. [i \in 1..Len(ledger) |->
            IF OfLine(ledger[i], l) /\ KeyOf(ledger[i]) = key THEN ledger[i].qty ELSE 0] =
        [i \in 1..Len(ledger) |-> IF ledger[i] \in LineAt(l, key) THEN ledger[i].qty ELSE 0]
    BY <2>1
  <2>3. [i \in 1..Len(ledger) |->
            IF OfLine(ledger[i], l) /\ KeyOf(ledger[i]) = key THEN ledger[i].aed ELSE 0] =
        [i \in 1..Len(ledger) |-> IF ledger[i] \in LineAt(l, key) THEN ledger[i].aed ELSE 0]
    BY <2>1
  <2> QED
    BY <2>2, <2>3 DEF LineStock, NetIn, Net, SumOf, key
<1>3. ASSUME NEW l
      PROVE  InTransit(l) = NetIn(ledger, TransitOf(l))
  <2>1. \A i \in 1..Len(ledger) :
           OfLine(ledger[i], l) /\ ledger[i].bucket = "IN_TRANSIT" <=> ledger[i] \in TransitOf(l)
    BY <1>1 DEF TransitOf, RowsOn
  <2>2. [i \in 1..Len(ledger) |->
            IF OfLine(ledger[i], l) /\ ledger[i].bucket = "IN_TRANSIT"
            THEN ledger[i].qty ELSE 0] =
        [i \in 1..Len(ledger) |-> IF ledger[i] \in TransitOf(l) THEN ledger[i].qty ELSE 0]
    BY <2>1
  <2>3. [i \in 1..Len(ledger) |->
            IF OfLine(ledger[i], l) /\ ledger[i].bucket = "IN_TRANSIT"
            THEN ledger[i].aed ELSE 0] =
        [i \in 1..Len(ledger) |-> IF ledger[i] \in TransitOf(l) THEN ledger[i].aed ELSE 0]
    BY <2>1
  <2> QED
    BY <2>2, <2>3 DEF InTransit, NetIn, Net, SumOf
<1> QED
  BY <1>2, <1>3

\* Movements that are not in S leave what S adds up to.
LEMMA OutsideKeeps ==
    ASSUME NEW rows \in Seq(Rows), NEW moves \in Seq(Rows), NEW S,
           \A i \in 1..Len(moves) : moves[i] \notin S
    PROVE  NetIn(rows \o moves, S) = NetIn(rows, S)
<1>1. NetIn(moves, S) = NoStock
  BY NetInNone
<1>2. NetIn(rows \o moves, S) = Plus(NetIn(rows, S), NetIn(moves, S))
  BY NetInConcat
<1>3. NetIn(rows, S) \in [qty: Int, aed: Int]
  BY NetInType
<1> QED
  BY <1>1, <1>2, <1>3 DEF Plus, NoStock

-----------------------------------------------------------------------------
(* What a step that posts keeps *)

\* The fields of the records.
LEMMA RecordTypes ==
    ASSUME RecordsFit
    PROVE  /\ Len(shipments) \in Nat /\ DOMAIN shipments = 1..Len(shipments)
           /\ Len(shipLines) \in Nat /\ DOMAIN shipLines = 1..Len(shipLines)
           /\ Len(receipts) \in Nat /\ DOMAIN receipts = 1..Len(receipts)
           /\ \A s \in DOMAIN shipments : shipments[s] \in ShipmentRecords
           /\ \A l \in DOMAIN shipLines :
                 /\ shipLines[l] \in ShipLineRecords(Len(shipments))
                 /\ shipLines[l].shipment \in DOMAIN shipments
                 /\ shipLines[l].product \in Products
                 /\ shipLines[l].quantity \in Quantities
                 /\ shipLines[l].is_deleted \in BOOLEAN
           /\ \A r \in DOMAIN receipts :
                 /\ receipts[r] \in ReceiptRecords(Len(shipments), Len(shipLines))
                 /\ receipts[r].shipment \in DOMAIN shipments
                 /\ receipts[r].lines \in Seq(ReceiptLines(Len(shipLines)))
                 /\ receipts[r].is_deleted \in BOOLEAN
<1>1. /\ shipments \in Seq(ShipmentRecords)
      /\ shipLines \in Seq(ShipLineRecords(Len(shipments)))
      /\ receipts \in Seq(ReceiptRecords(Len(shipments), Len(shipLines)))
  BY DEF RecordsFit
<1>2. /\ Len(shipments) \in Nat /\ DOMAIN shipments = 1..Len(shipments)
      /\ Len(shipLines) \in Nat /\ DOMAIN shipLines = 1..Len(shipLines)
      /\ Len(receipts) \in Nat /\ DOMAIN receipts = 1..Len(receipts)
  BY <1>1
<1>3. \A s \in DOMAIN shipments : shipments[s] \in ShipmentRecords
  BY <1>1
<1>4. \A l \in DOMAIN shipLines : shipLines[l] \in ShipLineRecords(Len(shipments))
  BY <1>1
<1>5. \A r \in DOMAIN receipts : receipts[r] \in ReceiptRecords(Len(shipments), Len(shipLines))
  BY <1>1
<1>6. ASSUME NEW l \in DOMAIN shipLines
      PROVE  /\ shipLines[l].shipment \in DOMAIN shipments
             /\ shipLines[l].product \in Products
             /\ shipLines[l].quantity \in Quantities
             /\ shipLines[l].is_deleted \in BOOLEAN
  BY <1>2, <1>4 DEF ShipLineRecords
<1>7. ASSUME NEW r \in DOMAIN receipts
      PROVE  /\ receipts[r].shipment \in DOMAIN shipments
             /\ receipts[r].lines \in Seq(ReceiptLines(Len(shipLines)))
             /\ receipts[r].is_deleted \in BOOLEAN
  BY <1>2, <1>5 DEF ReceiptRecords
<1> QED
  BY <1>2, <1>3, <1>4, <1>5, <1>6, <1>7

\* A row that fits the records fits what a step makes of them.
LEMMA GrowKeepsFit ==
    ASSUME RecordsFit, RecordsGrow, NEW row, RowFits(row)
    PROVE  RowFits(row)'
<1>1. SUFFICES ASSUME row.stype \in ShipTypes
               PROVE  /\ row.line \in DOMAIN shipLines'
                      /\ shipments'[shipLines'[row.line].shipment].shipped
                      /\ row.stype = "SHIPMENT_RECEIPT" =>
                            /\ row.sid \in DOMAIN receipts'
                            /\ receipts'[row.sid].shipment = shipLines'[row.line].shipment
  BY DEF RowFits
<1>2. PICK l \in DOMAIN shipLines : l = row.line
  BY <1>1 DEF RowFits
<1>3. PICK s \in DOMAIN shipments : s = shipLines[l].shipment
  BY <1>2, RecordTypes
<1>4. shipments[s].shipped
  BY <1>1, <1>2, <1>3 DEF RowFits
<1>5. l \in DOMAIN shipLines' /\ shipLines'[l].shipment = s /\ shipments'[s].shipped
  BY <1>2, <1>3, <1>4 DEF RecordsGrow
<1>6. ASSUME row.stype = "SHIPMENT_RECEIPT"
      PROVE  row.sid \in DOMAIN receipts' /\ receipts'[row.sid].shipment = s
  BY <1>1, <1>2, <1>3, <1>6 DEF RowFits, RecordsGrow
<1> QED
  BY <1>2, <1>5, <1>6

\* A step that posts keeps the rows fitting and a deleted shipment empty, if the
\* shipments it deletes are empty.
LEMMA PostingKeeps ==
    ASSUME Inv, NEW moves \in Seq(Rows), StepPosts(moves), RecordsFit', RecordsAgree',
           \A l \in DOMAIN shipLines :
              Live(shipLines[l].shipment) /\ ~Live(shipLines[l].shipment)' =>
                  \A S : Blind(S) /\ S \subseteq RowsOn(l) => NetIn(ledger', S) = NoStock
    PROVE  Inv'
<1>1. ledger \in Seq(Rows) /\ ledger' = ledger \o moves
  BY DEF Inv, Sound, Book, StepPosts
<1>2. RowsFit'
  <2>1. SUFFICES ASSUME NEW i \in DOMAIN ledger' PROVE RowFits(ledger[i])'
    BY DEF RowsFit
  <2>2. CASE i \in 1..Len(ledger)
    <3>1. ledger'[i] = ledger[i] /\ i \in DOMAIN ledger
      BY <1>1, <2>2
    <3>2. RowFits(ledger[i])
      BY <3>1 DEF Inv, RowsFit
    <3>3. PICK row : row = ledger[i]
      OBVIOUS
    <3>4. RowFits(row)'
      BY <3>2, <3>3, GrowKeepsFit DEF Inv, StepPosts
    <3> QED
      BY <3>1, <3>3, <3>4 DEF RowFits
  <2>3. CASE i \notin 1..Len(ledger)
    <3>1. PICK j \in 1..Len(moves) : ledger'[i] = moves[j]
      <4>1. i - Len(ledger) \in 1..Len(moves) /\ ledger'[i] = moves[i - Len(ledger)]
        BY <1>1, <2>1, <2>3
      <4> QED
        BY <4>1
    <3>2. PICK row : row = moves[j]
      OBVIOUS
    <3>3. RowFits(moves[j])'
      BY DEF StepPosts
    <3>4. RowFits(row)'
      BY <3>2, <3>3
    <3> QED
      BY <3>1, <3>2, <3>4 DEF RowFits
  <2> QED
    BY <2>2, <2>3
<1>3. DeadHoldNothing'
  <2>1. SUFFICES ASSUME NEW l \in DOMAIN shipLines', ~Live(shipLines[l].shipment)'
                 PROVE  /\ \A key \in Keys : NetIn(ledger', LineAt(l, key)) = NoStock
                        /\ NetIn(ledger', TransitOf(l)) = NoStock
    BY DEF DeadHoldNothing
  <2>2. l \in DOMAIN shipLines
    BY <2>1 DEF StepPosts
  <2>3. CASE Live(shipLines[l].shipment)
    BY <2>1, <2>2, <2>3, LineSetsBlind
  <2>4. CASE ~Live(shipLines[l].shipment)
    <3>1. \A i \in 1..Len(moves) : moves[i] \notin RowsOn(l)
      <4>1. \A i \in 1..Len(moves) : moves[i] \in Rows
        OBVIOUS
      <4> QED
        BY <2>2, <2>4, <4>1, RowOnLine DEF StepPosts
    <3>2. ASSUME NEW S, S \subseteq RowsOn(l)
          PROVE  NetIn(ledger', S) = NetIn(ledger, S)
      BY <1>1, <3>1, <3>2, OutsideKeeps
    <3>3. /\ \A key \in Keys : NetIn(ledger, LineAt(l, key)) = NoStock
          /\ NetIn(ledger, TransitOf(l)) = NoStock
      BY <2>2, <2>4 DEF Inv, DeadHoldNothing
    <3> QED
      BY <3>2, <3>3, LineSetsBlind
  <2> QED
    BY <2>3, <2>4
<1> QED
  BY <1>2, <1>3 DEF Inv, StepPosts

-----------------------------------------------------------------------------
(* Movements that take stock from one place to another *)

\* What an item moves: so many units of a line's product, worth so much.
Legs == [line: Nat, product: Products, qty: Int, aed: Int]

Places == Locations \X Buckets

OutOf(stype, sid, leg, a) ==
    StockMove(stype, sid, leg.line, leg.product, a[1], a[2], -leg.qty, -leg.aed)

Into(stype, sid, leg, b) ==
    StockMove(stype, sid, leg.line, leg.product, b[1], b[2], leg.qty, leg.aed)

\* Every item leaves place a and comes to place b.
Transfers(stype, sid, legs, a, b) ==
    FlattenSeq([i \in 1..Len(legs) |->
                  << OutOf(stype, sid, legs[i], a), Into(stype, sid, legs[i], b) >>])

\* The two movements of an item are rows.
LEMMA LegRows ==
    ASSUME NEW stype \in ShipTypes, NEW sid \in Nat, NEW leg \in Legs, NEW a \in Places
    PROVE  /\ OutOf(stype, sid, leg, a) \in Rows
           /\ OutOf(stype, sid, leg, a).qty = -leg.qty /\ OutOf(stype, sid, leg, a).aed = -leg.aed
           /\ Into(stype, sid, leg, a) \in Rows
           /\ Into(stype, sid, leg, a).qty = leg.qty /\ Into(stype, sid, leg, a).aed = leg.aed
           /\ \A row \in {OutOf(stype, sid, leg, a), Into(stype, sid, leg, a)} :
                 /\ row.stype = stype /\ row.sid = sid /\ row.line = leg.line
                 /\ row.product = leg.product /\ row.loc = a[1] /\ row.bucket = a[2]
                 /\ KeyOf(row) = <<leg.product, a[1], a[2]>>
<1>1. /\ leg.line \in Nat /\ leg.product \in Products /\ leg.qty \in Int /\ leg.aed \in Int
      /\ a[1] \in Locations /\ a[2] \in Buckets /\ stype \in SourceTypes
  BY DEF Legs, Places, ShipTypes, SourceTypes
<1>2. PICK q \in Int, v \in Int : q = -leg.qty /\ v = -leg.aed
  <2>1. -leg.qty \in Int /\ -leg.aed \in Int
    BY <1>1
  <2> QED
    BY <2>1
<1>3. OutOf(stype, sid, leg, a) =
         [stype |-> stype, sid |-> sid, line |-> leg.line, product |-> leg.product,
          loc |-> a[1], bucket |-> a[2], qty |-> q, aed |-> v]
  BY <1>2 DEF OutOf, StockMove
<1>4. Into(stype, sid, leg, a) =
         [stype |-> stype, sid |-> sid, line |-> leg.line, product |-> leg.product,
          loc |-> a[1], bucket |-> a[2], qty |-> leg.qty, aed |-> leg.aed]
  BY DEF Into, StockMove
<1>5. OutOf(stype, sid, leg, a) \in Rows /\ Into(stype, sid, leg, a) \in Rows
  BY <1>1, <1>3, <1>4 DEF Rows
<1> QED
  BY <1>2, <1>3, <1>4, <1>5 DEF KeyOf

\* Two movements add up.
LEMMA PairNet ==
    ASSUME NEW x \in Rows, NEW y \in Rows, NEW S
    PROVE  /\ << x, y >> \in Seq(Rows)
           /\ NetIn(<< x, y >>, S) = Plus(IF x \in S THEN [qty |-> x.qty, aed |-> x.aed]
                                                     ELSE NoStock,
                                          IF y \in S THEN [qty |-> y.qty, aed |-> y.aed]
                                                     ELSE NoStock)
<1>1. << x >> \in Seq(Rows) /\ << y >> \in Seq(Rows)
  OBVIOUS
<1>2. Append(<< x >>, y) = << x, y >>
  BY AppendSecond
<1>3. Append(<< x >>, y) = << x >> \o << y >> /\ Append(<< x >>, y) \in Seq(Rows)
  BY <1>1, AppendIsConcat, AppendProperties
<1>4. NetIn(<< x >> \o << y >>, S) = Plus(NetIn(<< x >>, S), NetIn(<< y >>, S))
  BY <1>1, NetInConcat
<1> QED
  BY <1>2, <1>3, <1>4, NetInSingle

\* The units, and the value, that legs move of line l.
LegSum(legs, l) ==
    SumSeq([i \in 1..Len(legs) |-> IF legs[i].line = l THEN legs[i].qty ELSE 0])

LegValue(legs, l) ==
    SumSeq([i \in 1..Len(legs) |-> IF legs[i].line = l THEN legs[i].aed ELSE 0])

\* The sums of typed legs: over the legs of the line, of which there may be one or none.
LEMMA LegSums ==
    ASSUME NEW legs \in Seq(Legs), NEW l
    PROVE  /\ LegSum(legs, l) \in Int /\ LegValue(legs, l) \in Int
           /\ SumSeq([i \in 1..Len(legs) |-> IF legs[i].line = l THEN -legs[i].qty ELSE 0])
                 = -LegSum(legs, l)
           /\ SumSeq([i \in 1..Len(legs) |-> IF legs[i].line = l THEN -legs[i].aed ELSE 0])
                 = -LegValue(legs, l)
           /\ (\A i \in 1..Len(legs) : legs[i].line # l)
                 => LegSum(legs, l) = 0 /\ LegValue(legs, l) = 0
           /\ \A j \in 1..Len(legs) :
                 legs[j].line = l /\ (\A i \in 1..Len(legs) : legs[i].line = l => i = j)
                    => LegSum(legs, l) = legs[j].qty /\ LegValue(legs, l) = legs[j].aed
<1> DEFINE q == [i \in 1..Len(legs) |-> IF legs[i].line = l THEN legs[i].qty ELSE 0]
           v == [i \in 1..Len(legs) |-> IF legs[i].line = l THEN legs[i].aed ELSE 0]
           qq == [i \in 1..Len(legs) |-> IF legs[i].line = l THEN -legs[i].qty ELSE 0]
           vv == [i \in 1..Len(legs) |-> IF legs[i].line = l THEN -legs[i].aed ELSE 0]
<1>1. Len(legs) \in Nat
      /\ \A i \in 1..Len(legs) : legs[i].qty \in Int /\ legs[i].aed \in Int
  <2>1. Len(legs) \in Nat /\ \A i \in 1..Len(legs) : legs[i] \in Legs
    OBVIOUS
  <2> QED
    BY <2>1 DEF Legs
<1>2. /\ q \in Seq(Int) /\ Len(q) = Len(legs)
      /\ v \in Seq(Int) /\ Len(v) = Len(legs)
      /\ qq \in Seq(Int) /\ Len(qq) = Len(legs)
      /\ vv \in Seq(Int) /\ Len(vv) = Len(legs)
  BY <1>1
<1>3. \A i \in 1..Len(legs) : qq[i] = -q[i] /\ vv[i] = -v[i]
  BY <1>1
<1>4. \A i \in 1..Len(legs) : /\ q[i] = IF legs[i].line = l THEN legs[i].qty ELSE 0
                              /\ v[i] = IF legs[i].line = l THEN legs[i].aed ELSE 0
  OBVIOUS
<1>5. LegSum(legs, l) = SumSeq(q) /\ LegValue(legs, l) = SumSeq(v)
  BY DEF LegSum, LegValue
<1> HIDE DEF q, v, qq, vv
<1>6. SumSeq(q) \in Int /\ SumSeq(v) \in Int
  BY <1>2, SumSeqType
<1>7. SumSeq(qq) = -SumSeq(q) /\ SumSeq(vv) = -SumSeq(v)
  BY <1>2, <1>3, SumSeqNegated
<1>8. ASSUME \A i \in 1..Len(legs) : legs[i].line # l
      PROVE  SumSeq(q) = 0 /\ SumSeq(v) = 0
  BY <1>2, <1>4, <1>8, SumSeqZero
<1>9. ASSUME NEW j \in 1..Len(legs), legs[j].line = l,
             \A i \in 1..Len(legs) : legs[i].line = l => i = j
      PROVE  SumSeq(q) = legs[j].qty /\ SumSeq(v) = legs[j].aed
  <2>1. \A i \in 1..Len(legs) : i # j => q[i] = 0 /\ v[i] = 0
    BY <1>4, <1>9
  <2>2. q[j] = legs[j].qty /\ v[j] = legs[j].aed
    BY <1>4, <1>9
  <2>3. SumSeq(q) = q[j] /\ SumSeq(v) = v[j]
    BY <1>2, <2>1, SumSeqOne
  <2> QED
    BY <2>2, <2>3
<1> USE DEF qq, vv
<1> QED
  BY <1>5, <1>6, <1>7, <1>8, <1>9

\* The rows of transfers, and what those of a line add up to where they leave and where
\* they arrive.
TransferSums(moves, stype, sid, legs, a, b, S, l) ==
    /\ (\A i \in 1..Len(legs) : /\ Into(stype, sid, legs[i], b) \notin S
                                /\ OutOf(stype, sid, legs[i], a) \in S <=> legs[i].line = l)
          => NetIn(moves, S) = [qty |-> -LegSum(legs, l), aed |-> -LegValue(legs, l)]
    /\ (\A i \in 1..Len(legs) : /\ OutOf(stype, sid, legs[i], a) \notin S
                                /\ Into(stype, sid, legs[i], b) \in S <=> legs[i].line = l)
          => NetIn(moves, S) = [qty |-> LegSum(legs, l), aed |-> LegValue(legs, l)]

LEMMA TransfersFacts ==
    ASSUME NEW stype \in ShipTypes, NEW sid \in Nat, NEW legs \in Seq(Legs),
           NEW a \in Places, NEW b \in Places
    PROVE  /\ Transfers(stype, sid, legs, a, b) \in Seq(Rows)
           /\ \A k \in 1..Len(Transfers(stype, sid, legs, a, b)) :
                 \E i \in 1..Len(legs) :
                    Transfers(stype, sid, legs, a, b)[k]
                        \in {OutOf(stype, sid, legs[i], a), Into(stype, sid, legs[i], b)}
           /\ \A S, l :
                 TransferSums(Transfers(stype, sid, legs, a, b), stype, sid, legs, a, b, S, l)
<1> DEFINE parts == [i \in 1..Len(legs) |->
                       << OutOf(stype, sid, legs[i], a), Into(stype, sid, legs[i], b) >>]
<1>0. Transfers(stype, sid, legs, a, b) = FlattenSeq(parts)
  BY DEF Transfers
<1>1. PICK out, into :
         /\ out = [i \in 1..Len(legs) |-> OutOf(stype, sid, legs[i], a)]
         /\ into = [i \in 1..Len(legs) |-> Into(stype, sid, legs[i], b)]
  OBVIOUS
<1>2. Len(legs) \in Nat /\ \A i \in 1..Len(legs) : legs[i] \in Legs
  OBVIOUS
<1>3. \A i \in 1..Len(legs) :
         /\ out[i] \in Rows /\ into[i] \in Rows
         /\ out[i].qty = -legs[i].qty /\ out[i].aed = -legs[i].aed
         /\ into[i].qty = legs[i].qty /\ into[i].aed = legs[i].aed
  BY <1>1, <1>2, LegRows
<1>4. parts = [i \in 1..Len(legs) |-> << out[i], into[i] >>]
  BY <1>1
<1> HIDE DEF parts
<1>5. \A i \in 1..Len(legs) : parts[i] = << out[i], into[i] >> /\ parts[i] \in Seq(Rows)
  <2>1. ASSUME NEW i \in 1..Len(legs) PROVE << out[i], into[i] >> \in Seq(Rows)
    BY <1>3, PairNet
  <2> QED
    BY <1>4, <2>1
<1>6. parts \in Seq(Seq(Rows)) /\ Len(parts) = Len(legs)
  BY <1>2, <1>4, <1>5
<1>7. PICK flat : flat = FlattenSeq(parts)
  OBVIOUS
<1>8. /\ FlatUpTo(parts, Len(legs), flat)
      /\ \A S : /\ NetIn(flat, S).qty = SumSeq([i \in 1..Len(legs) |-> NetIn(parts[i], S).qty])
                /\ NetIn(flat, S).aed = SumSeq([i \in 1..Len(legs) |-> NetIn(parts[i], S).aed])
  BY <1>6, <1>7, FlattenFacts
<1>9. flat \in Seq(Rows)
  BY <1>8 DEF FlatUpTo
<1>10. ASSUME NEW k \in 1..Len(flat)
       PROVE  \E i \in 1..Len(legs) : flat[k] \in {out[i], into[i]}
  <2>1. PICK i \in 1..Len(legs) : \E j \in 1..Len(parts[i]) : flat[k] = parts[i][j]
    BY <1>8 DEF FlatUpTo
  <2>4. PICK j \in 1..Len(parts[i]) : flat[k] = parts[i][j]
    BY <2>1
  <2>2. parts[i] = << out[i], into[i] >>
    BY <1>5
  <2>3. j = 1 \/ j = 2
    BY <2>2
  <2> QED
    BY <2>2, <2>3, <2>4
<1>11. ASSUME NEW S, NEW i \in 1..Len(legs)
       PROVE  NetIn(parts[i], S) =
                 Plus(IF out[i] \in S THEN [qty |-> out[i].qty, aed |-> out[i].aed] ELSE NoStock,
                      IF into[i] \in S THEN [qty |-> into[i].qty, aed |-> into[i].aed] ELSE NoStock)
  <2>1. PICK x \in Rows, y \in Rows : x = out[i] /\ y = into[i]
    BY <1>3
  <2>2. parts[i] = << x, y >>
    BY <1>5, <2>1
  <2>3. NetIn(<< x, y >>, S) = Plus(IF x \in S THEN [qty |-> x.qty, aed |-> x.aed] ELSE NoStock,
                                  IF y \in S THEN [qty |-> y.qty, aed |-> y.aed] ELSE NoStock)
    BY PairNet
  <2> QED
    BY <2>1, <2>2, <2>3
<1>12. ASSUME NEW S, NEW l,
              \A i \in 1..Len(legs) : into[i] \notin S /\ (out[i] \in S <=> legs[i].line = l)
       PROVE  NetIn(flat, S).qty = -LegSum(legs, l) /\ NetIn(flat, S).aed = -LegValue(legs, l)
  <2>1. ASSUME NEW i \in 1..Len(legs)
        PROVE  /\ NetIn(parts[i], S).qty = IF out[i] \in S THEN -legs[i].qty ELSE 0
               /\ NetIn(parts[i], S).aed = IF out[i] \in S THEN -legs[i].aed ELSE 0
    <3>1. PICK q \in Int, v \in Int : q = out[i].qty /\ v = out[i].aed
      BY <1>3 DEF Rows
    <3>2. NetIn(parts[i], S) = Plus(IF out[i] \in S THEN [qty |-> q, aed |-> v] ELSE NoStock, NoStock)
      BY <1>11, <1>12, <3>1
    <3>3. NetIn(parts[i], S).qty = (IF out[i] \in S THEN q ELSE 0)
          /\ NetIn(parts[i], S).aed = (IF out[i] \in S THEN v ELSE 0)
      BY <3>2 DEF Plus, NoStock
    <3> QED
      BY <1>3, <3>1, <3>3
  <2>2. [i \in 1..Len(legs) |-> NetIn(parts[i], S).qty] =
        [i \in 1..Len(legs) |-> IF legs[i].line = l THEN -legs[i].qty ELSE 0]
    BY <1>12, <2>1
  <2>3. [i \in 1..Len(legs) |-> NetIn(parts[i], S).aed] =
        [i \in 1..Len(legs) |-> IF legs[i].line = l THEN -legs[i].aed ELSE 0]
    BY <1>12, <2>1
  <2>4. PICK f, g, x, y :
           /\ f = [i \in 1..Len(legs) |-> NetIn(parts[i], S).qty]
           /\ g = [i \in 1..Len(legs) |-> NetIn(parts[i], S).aed]
           /\ x = [i \in 1..Len(legs) |-> IF legs[i].line = l THEN -legs[i].qty ELSE 0]
           /\ y = [i \in 1..Len(legs) |-> IF legs[i].line = l THEN -legs[i].aed ELSE 0]
    OBVIOUS
  <2>5. NetIn(flat, S).qty = SumSeq(f) /\ NetIn(flat, S).aed = SumSeq(g)
    BY <1>8, <2>4
  <2>6. f = x /\ g = y
    BY <2>2, <2>3, <2>4
  <2>7. NetIn(flat, S).qty = SumSeq(x) /\ NetIn(flat, S).aed = SumSeq(y)
    BY <2>5, <2>6
  <2>8. SumSeq(x) = -LegSum(legs, l) /\ SumSeq(y) = -LegValue(legs, l)
    BY <2>4, LegSums
  <2> QED
    BY <2>7, <2>8
<1>13. ASSUME NEW S, NEW l,
              \A i \in 1..Len(legs) : out[i] \notin S /\ (into[i] \in S <=> legs[i].line = l)
       PROVE  NetIn(flat, S).qty = LegSum(legs, l) /\ NetIn(flat, S).aed = LegValue(legs, l)
  <2>1. ASSUME NEW i \in 1..Len(legs)
        PROVE  /\ NetIn(parts[i], S).qty = IF into[i] \in S THEN legs[i].qty ELSE 0
               /\ NetIn(parts[i], S).aed = IF into[i] \in S THEN legs[i].aed ELSE 0
    <3>1. PICK q \in Int, v \in Int : q = into[i].qty /\ v = into[i].aed
      BY <1>3 DEF Rows
    <3>2. NetIn(parts[i], S) = Plus(NoStock, IF into[i] \in S THEN [qty |-> q, aed |-> v] ELSE NoStock)
      BY <1>11, <1>13, <3>1
    <3>3. NetIn(parts[i], S).qty = (IF into[i] \in S THEN q ELSE 0)
          /\ NetIn(parts[i], S).aed = (IF into[i] \in S THEN v ELSE 0)
      BY <3>2 DEF Plus, NoStock
    <3> QED
      BY <1>3, <3>1, <3>3
  <2>2. [i \in 1..Len(legs) |-> NetIn(parts[i], S).qty] =
        [i \in 1..Len(legs) |-> IF legs[i].line = l THEN legs[i].qty ELSE 0]
    BY <1>13, <2>1
  <2>3. [i \in 1..Len(legs) |-> NetIn(parts[i], S).aed] =
        [i \in 1..Len(legs) |-> IF legs[i].line = l THEN legs[i].aed ELSE 0]
    BY <1>13, <2>1
  <2>4. PICK f, g, x, y :
           /\ f = [i \in 1..Len(legs) |-> NetIn(parts[i], S).qty]
           /\ g = [i \in 1..Len(legs) |-> NetIn(parts[i], S).aed]
           /\ x = [i \in 1..Len(legs) |-> IF legs[i].line = l THEN legs[i].qty ELSE 0]
           /\ y = [i \in 1..Len(legs) |-> IF legs[i].line = l THEN legs[i].aed ELSE 0]
    OBVIOUS
  <2>5. NetIn(flat, S).qty = SumSeq(f) /\ NetIn(flat, S).aed = SumSeq(g)
    BY <1>8, <2>4
  <2>6. f = x /\ g = y
    BY <2>2, <2>3, <2>4
  <2>7. NetIn(flat, S).qty = SumSeq(x) /\ NetIn(flat, S).aed = SumSeq(y)
    BY <2>5, <2>6
  <2>8. SumSeq(x) = LegSum(legs, l) /\ SumSeq(y) = LegValue(legs, l)
    BY <2>4 DEF LegSum, LegValue
  <2> QED
    BY <2>7, <2>8
<1>14. \A i \in 1..Len(legs) : /\ out[i] = OutOf(stype, sid, legs[i], a)
                               /\ into[i] = Into(stype, sid, legs[i], b)
  BY <1>1
<1>15. ASSUME NEW S, NEW l
       PROVE  TransferSums(flat, stype, sid, legs, a, b, S, l)
  <2>1. NetIn(flat, S) = [qty |-> NetIn(flat, S).qty, aed |-> NetIn(flat, S).aed]
    BY <1>9, NetInType
  <2> QED
    BY <1>12, <1>13, <1>14, <2>1 DEF TransferSums
<1>16. \A k \in 1..Len(flat) :
          \E i \in 1..Len(legs) :
             flat[k] \in {OutOf(stype, sid, legs[i], a), Into(stype, sid, legs[i], b)}
  BY <1>10, <1>14
<1>17. Transfers(stype, sid, legs, a, b) = flat
  BY <1>0, <1>7
<1> QED
  BY <1>9, <1>15, <1>16, <1>17

-----------------------------------------------------------------------------
(* The movements of the operations are transfers *)

\* What a shipment of these lines moves: every one of its live lines, once.
LegsOf(legs, s, lns) ==
    LET own == Ordered(LinesOf(lns, s), Len(lns))
    IN  /\ legs \in Seq(Legs)
        /\ Len(legs) = Len(own)
        /\ \A i \in 1..Len(legs) :
              /\ legs[i].line = own[i] /\ own[i] \in LinesOf(lns, s)
              /\ legs[i].product = lns[own[i]].product
              /\ legs[i].qty = lns[own[i]].quantity
              /\ legs[i].aed \in Nat

\* They are priced as their items draw on these pools, one after another.
PricedFrom(legs, pools) ==
    /\ pools \in [Products -> Amounts]
    /\ \E items : /\ AreItems(items)
                   /\ Len(items) = Len(legs)
                   /\ \A i \in 1..Len(legs) :
                         /\ legs[i].product = items[i].product
                         /\ legs[i].aed = ShareInTurn(pools, items, i)

\* Shipping moves them from the source onto the way (ShipMoves).
LEMMA ShipMovesAre ==
    ASSUME Sound(Book), NEW s, NEW route, route.from \in Locations, route.to \in Locations,
           NEW n \in Nat, NEW lns \in Seq(ShipLineRecords(n))
    PROVE  \E legs : /\ LegsOf(legs, s, lns)
                     /\ PricedFrom(legs, PoolsAt(route.from))
                     /\ ShipMoves(s, route, lns) =
                           Transfers("SHIPMENT", s, legs, << route.from, "PHYSICAL" >>,
                                                          << route.to, "IN_TRANSIT" >>)
<1>1. PICK own : own = Ordered(LinesOf(lns, s), Len(lns))
  OBVIOUS
<1>2. own \in Seq(LinesOf(lns, s))
  <2>1. Len(lns) \in Nat /\ LinesOf(lns, s) \in SUBSET (1..Len(lns))
    BY DEF LinesOf
  <2> QED
    BY <1>1, <2>1, OrderedFacts
<1>3. Len(own) \in Nat /\ DOMAIN own = 1..Len(own)
      /\ \A i \in 1..Len(own) : own[i] \in LinesOf(lns, s) /\ own[i] \in Nat
  <2>1. Len(own) \in Nat /\ DOMAIN own = 1..Len(own)
        /\ \A i \in 1..Len(own) : own[i] \in LinesOf(lns, s)
    BY <1>2
  <2> QED
    BY <2>1 DEF LinesOf
<1>4. \A i \in 1..Len(own) : /\ lns[own[i]].product \in Products
                             /\ lns[own[i]].quantity \in Nat \ {0}
  <2>1. \A i \in 1..Len(own) : lns[own[i]] \in ShipLineRecords(n)
    BY <1>3 DEF LinesOf
  <2> QED
    BY <2>1, QuantitiesAssumption DEF ShipLineRecords
<1>5. PICK items : items = [i \in 1..Len(own) |-> lns[own[i]]]
  OBVIOUS
<1>6. Len(items) = Len(own) /\ AreItems(items)
  <2>1. Len(items) = Len(own)
    BY <1>3, <1>5
  <2> QED
    BY <1>3, <1>4, <1>5, <2>1 DEF AreItems
<1>7. PICK pools \in [Products -> Amounts] : pools = PoolsAt(route.from)
  <2>1. PoolsAt(route.from) \in [Products -> Amounts]
    <3>1. \A p \in Products : <<p, route.from, "PHYSICAL">> \in Keys
      BY DEF Keys, Buckets
    <3>2. balance \in [Keys -> Amounts]
      BY RollupType DEF Sound, Book, Amounts
    <3>3. \A p \in Products : balance[<<p, route.from, "PHYSICAL">>] \in Amounts
      BY <3>1, <3>2
    <3> QED
      BY <3>3 DEF PoolsAt
  <2> QED
    BY <2>1
<1>8. PICK share : share = [i \in 1..Len(own) |-> ShareInTurn(pools, items, i)]
  OBVIOUS
<1>9. \A i \in 1..Len(own) : share[i] = ShareInTurn(pools, items, i) /\ share[i] \in Nat
  BY <1>6, <1>8, ShareInTurnType
<1>10. PICK legs : legs = [i \in 1..Len(own) |->
                            [line |-> own[i], product |-> lns[own[i]].product,
                             qty |-> lns[own[i]].quantity, aed |-> share[i]]]
  OBVIOUS
<1>11. legs \in Seq(Legs) /\ Len(legs) = Len(own)
  <2>1. \A i \in 1..Len(own) : legs[i] \in Legs
    BY <1>3, <1>4, <1>9, <1>10 DEF Legs
  <2> QED
    BY <1>3, <1>10, <2>1
<1>12. LegsOf(legs, s, lns)
  BY <1>1, <1>3, <1>9, <1>10, <1>11 DEF LegsOf
<1>14. PricedFrom(legs, PoolsAt(route.from))
  <2>1. \A i \in 1..Len(legs) : /\ legs[i].product = items[i].product
                                /\ legs[i].aed = ShareInTurn(pools, items, i)
    BY <1>5, <1>9, <1>10, <1>11
  <2>2. Len(items) = Len(legs)
    BY <1>6, <1>11
  <2> QED
    BY <1>6, <1>7, <2>1, <2>2 DEF PricedFrom
<1>13. ShipMoves(s, route, lns) =
          Transfers("SHIPMENT", s, legs, << route.from, "PHYSICAL" >>,
                                         << route.to, "IN_TRANSIT" >>)
  <2> DEFINE a == << route.from, "PHYSICAL" >>
             b == << route.to, "IN_TRANSIT" >>
  <2>1. ShipMoves(s, route, lns) =
           FlattenSeq([i \in 1..Len(own) |->
              << StockMove("SHIPMENT", s, own[i], items[i].product, route.from,
                           "PHYSICAL", -items[i].quantity, -ShareInTurn(pools, items, i)),
                 StockMove("SHIPMENT", s, own[i], items[i].product, route.to,
                           "IN_TRANSIT", items[i].quantity, ShareInTurn(pools, items, i)) >>])
    BY <1>1, <1>3, <1>5, <1>7 DEF ShipMoves
  <2>2. ASSUME NEW i \in 1..Len(own)
        PROVE  << StockMove("SHIPMENT", s, own[i], items[i].product, route.from,
                           "PHYSICAL", -items[i].quantity, -ShareInTurn(pools, items, i)),
                  StockMove("SHIPMENT", s, own[i], items[i].product, route.to,
                           "IN_TRANSIT", items[i].quantity, ShareInTurn(pools, items, i)) >>
               = << OutOf("SHIPMENT", s, legs[i], a), Into("SHIPMENT", s, legs[i], b) >>
    <3>1. items[i] = lns[own[i]] /\ share[i] = ShareInTurn(pools, items, i)
      BY <1>5, <1>9
    <3>2. /\ legs[i].line = own[i] /\ legs[i].product = items[i].product
          /\ legs[i].qty = items[i].quantity /\ legs[i].aed = ShareInTurn(pools, items, i)
      BY <1>10, <3>1
    <3>3. a[1] = route.from /\ a[2] = "PHYSICAL" /\ b[1] = route.to /\ b[2] = "IN_TRANSIT"
      OBVIOUS
    <3> QED
      BY <3>2, <3>3 DEF OutOf, Into
  <2>3. [i \in 1..Len(own) |->
              << StockMove("SHIPMENT", s, own[i], items[i].product, route.from,
                           "PHYSICAL", -items[i].quantity, -ShareInTurn(pools, items, i)),
                 StockMove("SHIPMENT", s, own[i], items[i].product, route.to,
                           "IN_TRANSIT", items[i].quantity, ShareInTurn(pools, items, i)) >>]
        = [i \in 1..Len(legs) |->
              << OutOf("SHIPMENT", s, legs[i], a), Into("SHIPMENT", s, legs[i], b) >>]
    BY <1>11, <2>2
  <2> QED
    BY <2>1, <2>3 DEF Transfers
<1> QED
  BY <1>12, <1>13, <1>14

\* What a receipt of these items moves.
ReceiptLegsOf(legs, items) ==
    /\ legs \in Seq(Legs)
    /\ Len(legs) = Len(items)
    /\ \A i \in 1..Len(legs) :
          /\ legs[i].line = items[i].line
          /\ legs[i].product = items[i].product
          /\ legs[i].qty = items[i].quantity
          /\ legs[i].aed \in Nat
          /\ legs[i].aed = TransitShare(items[i].line, items[i].quantity)

\* The movements of receive_shipment.
ReceiptMoves(s, r, items) ==
    FlattenSeq([i \in DOMAIN items |->
        LET item == items[i]
            aed  == TransitShare(item.line, item.quantity)
        IN  << StockMove("SHIPMENT_RECEIPT", r, item.line, item.product,
                         shipments[s].to, "IN_TRANSIT", -item.quantity, -aed),
               StockMove("SHIPMENT_RECEIPT", r, item.line, item.product,
                         shipments[s].to, "PHYSICAL", item.quantity, aed) >>])

\* The value that is in transit, and the share of it a receipt takes.
LEMMA TransitTypes ==
    ASSUME ledger \in Seq(Rows), NEW l
    PROVE  /\ InTransit(l) \in Amounts
           /\ \A q \in Nat \ {0} : TransitShare(l, q) \in Nat
<1>1. InTransit(l) \in Amounts
  BY SumsOfSets, NetInType DEF Amounts
<1> QED
  BY <1>1, CarryingShareWithin DEF TransitShare

\* Receiving moves the items from the way to the destination.
LEMMA ReceiptMovesAre ==
    ASSUME ledger \in Seq(Rows), NEW s, NEW r, NEW m \in Nat, NEW items \in Seq(LoadedItems(m))
    PROVE  \E legs : /\ ReceiptLegsOf(legs, items)
                     /\ ReceiptMoves(s, r, items) =
                           Transfers("SHIPMENT_RECEIPT", r, legs,
                                     << shipments[s].to, "IN_TRANSIT" >>,
                                     << shipments[s].to, "PHYSICAL" >>)
<1>1. Len(items) \in Nat /\ DOMAIN items = 1..Len(items)
      /\ \A i \in 1..Len(items) : items[i] \in LoadedItems(m)
  OBVIOUS
<1>2. \A i \in 1..Len(items) : /\ items[i].line \in Nat
                               /\ items[i].product \in Products
                               /\ items[i].quantity \in Nat \ {0}
  <2>1. \A i \in 1..Len(items) : /\ items[i].line \in 1..m
                                 /\ items[i].product \in Products
                                 /\ items[i].quantity \in Quantities
    BY <1>1 DEF LoadedItems
  <2>2. \A i \in 1..Len(items) : items[i].line \in Nat
    BY <2>1
  <2> QED
    BY <2>1, <2>2, QuantitiesAssumption
<1>3. PICK share : share = [i \in 1..Len(items) |->
                              TransitShare(items[i].line, items[i].quantity)]
  OBVIOUS
<1>4. \A i \in 1..Len(items) : /\ share[i] = TransitShare(items[i].line, items[i].quantity)
                               /\ share[i] \in Nat
  BY <1>2, <1>3, TransitTypes
<1>5. PICK legs : legs = [i \in 1..Len(items) |->
                            [line |-> items[i].line, product |-> items[i].product,
                             qty |-> items[i].quantity, aed |-> share[i]]]
  OBVIOUS
<1>6. legs \in Seq(Legs) /\ Len(legs) = Len(items)
  <2>1. \A i \in 1..Len(items) : legs[i] \in Legs
    BY <1>2, <1>4, <1>5 DEF Legs
  <2> QED
    BY <1>1, <1>5, <2>1
<1>7. ReceiptLegsOf(legs, items)
  BY <1>4, <1>5, <1>6 DEF ReceiptLegsOf
<1>8. ReceiptMoves(s, r, items) =
         Transfers("SHIPMENT_RECEIPT", r, legs, << shipments[s].to, "IN_TRANSIT" >>,
                                                << shipments[s].to, "PHYSICAL" >>)
  <2> DEFINE a == << shipments[s].to, "IN_TRANSIT" >>
             b == << shipments[s].to, "PHYSICAL" >>
             Pair(i) ==
               << StockMove("SHIPMENT_RECEIPT", r, items[i].line, items[i].product,
                            shipments[s].to, "IN_TRANSIT", -items[i].quantity,
                            -TransitShare(items[i].line, items[i].quantity)),
                  StockMove("SHIPMENT_RECEIPT", r, items[i].line, items[i].product,
                            shipments[s].to, "PHYSICAL", items[i].quantity,
                            TransitShare(items[i].line, items[i].quantity)) >>
  <2>1. ReceiptMoves(s, r, items) = FlattenSeq([i \in 1..Len(items) |-> Pair(i)])
    BY <1>1 DEF ReceiptMoves
  <2>2. ASSUME NEW i \in 1..Len(items)
        PROVE  Pair(i) = << OutOf("SHIPMENT_RECEIPT", r, legs[i], a),
                            Into("SHIPMENT_RECEIPT", r, legs[i], b) >>
    <3>1. share[i] = TransitShare(items[i].line, items[i].quantity)
      BY <1>4
    <3>2. /\ legs[i].line = items[i].line /\ legs[i].product = items[i].product
          /\ legs[i].qty = items[i].quantity
          /\ legs[i].aed = TransitShare(items[i].line, items[i].quantity)
      BY <1>5, <3>1
    <3>3. a[1] = shipments[s].to /\ a[2] = "IN_TRANSIT"
          /\ b[1] = shipments[s].to /\ b[2] = "PHYSICAL"
      OBVIOUS
    <3> QED
      BY <3>2, <3>3 DEF OutOf, Into
  <2> HIDE DEF Pair
  <2>3. [i \in 1..Len(items) |-> Pair(i)]
        = [i \in 1..Len(legs) |-> << OutOf("SHIPMENT_RECEIPT", r, legs[i], a),
                                     Into("SHIPMENT_RECEIPT", r, legs[i], b) >>]
    BY <1>6, <2>2
  <2> QED
    BY <2>1, <2>3 DEF Transfers
<1> QED
  BY <1>7, <1>8

\* The lines of a shipment that have something on the way.
OpenLines(s) == {l \in LinesOf(shipLines, s) : InTransit(l).qty > 0}

\* What cancelling a shipment moves: all that those lines have there.
RestLegsOf(legs, s) ==
    LET open == Ordered(OpenLines(s), Len(shipLines))
    IN  /\ legs \in Seq(Legs)
        /\ Len(legs) = Len(open)
        /\ \A i \in 1..Len(legs) :
              /\ legs[i].line = open[i] /\ open[i] \in OpenLines(s)
              /\ legs[i].product = shipLines[open[i]].product
              /\ legs[i].qty = InTransit(open[i]).qty
              /\ legs[i].aed \in Nat
              /\ legs[i].aed = IF InTransit(open[i]).aed > 0 THEN InTransit(open[i]).aed ELSE 0

\* Cancelling moves it back to the source (_unreceived_movements).
LEMMA UnreceivedMovesAre ==
    ASSUME Sound(Book), RecordsFit, NEW s
    PROVE  \E legs : /\ RestLegsOf(legs, s)
                     /\ UnreceivedMoves(s) =
                           Transfers("SHIPMENT", s, legs,
                                     << shipments[s].to, "IN_TRANSIT" >>,
                                     << shipments[s].from, "PHYSICAL" >>)
<1>1. PICK own : own = Ordered(OpenLines(s), Len(shipLines))
  OBVIOUS
<1>2. own \in Seq(OpenLines(s))
  <2>1. Len(shipLines) \in Nat /\ OpenLines(s) \in SUBSET (1..Len(shipLines))
    BY RecordTypes DEF LinesOf, OpenLines
  <2> QED
    BY <1>1, <2>1, OrderedFacts
<1>3. Len(own) \in Nat /\ DOMAIN own = 1..Len(own)
      /\ \A i \in 1..Len(own) : own[i] \in OpenLines(s) /\ own[i] \in DOMAIN shipLines
  <2>1. Len(own) \in Nat /\ DOMAIN own = 1..Len(own)
        /\ \A i \in 1..Len(own) : own[i] \in OpenLines(s)
    BY <1>2
  <2> QED
    BY <2>1 DEF OpenLines, LinesOf
<1>4. \A i \in 1..Len(own) : /\ shipLines[own[i]].product \in Products
                             /\ own[i] \in Nat
  BY <1>3, RecordTypes
<1>5. \A i \in 1..Len(own) : InTransit(own[i]) \in Amounts
  BY TransitTypes DEF Sound, Book
<1>6. PICK rest : rest = [i \in 1..Len(own) |->
                            IF InTransit(own[i]).aed > 0 THEN InTransit(own[i]).aed ELSE 0]
  OBVIOUS
<1>7. \A i \in 1..Len(own) :
         /\ rest[i] = IF InTransit(own[i]).aed > 0 THEN InTransit(own[i]).aed ELSE 0
         /\ rest[i] \in Nat
         /\ InTransit(own[i]).qty \in Int
  BY <1>5, <1>6 DEF Amounts
<1>8. PICK legs : legs = [i \in 1..Len(own) |->
                            [line |-> own[i], product |-> shipLines[own[i]].product,
                             qty |-> InTransit(own[i]).qty, aed |-> rest[i]]]
  OBVIOUS
<1>9. legs \in Seq(Legs) /\ Len(legs) = Len(own)
  <2>1. \A i \in 1..Len(own) : legs[i] \in Legs
    BY <1>4, <1>7, <1>8 DEF Legs
  <2> QED
    BY <1>3, <1>8, <2>1
<1>10. RestLegsOf(legs, s)
  BY <1>1, <1>3, <1>7, <1>8, <1>9 DEF RestLegsOf
<1>11. UnreceivedMoves(s) =
          Transfers("SHIPMENT", s, legs, << shipments[s].to, "IN_TRANSIT" >>,
                                         << shipments[s].from, "PHYSICAL" >>)
  <2> DEFINE a == << shipments[s].to, "IN_TRANSIT" >>
             b == << shipments[s].from, "PHYSICAL" >>
             Back(i) == IF InTransit(own[i]).aed > 0 THEN InTransit(own[i]).aed ELSE 0
             Pair(i) ==
               << StockMove("SHIPMENT", s, own[i], shipLines[own[i]].product, shipments[s].to,
                            "IN_TRANSIT", -InTransit(own[i]).qty, -Back(i)),
                  StockMove("SHIPMENT", s, own[i], shipLines[own[i]].product,
                            shipments[s].from, "PHYSICAL", InTransit(own[i]).qty, Back(i)) >>
  <2>1. UnreceivedMoves(s) = FlattenSeq([i \in 1..Len(own) |-> Pair(i)])
    BY <1>1, <1>3 DEF UnreceivedMoves, OpenLines
  <2>2. ASSUME NEW i \in 1..Len(own)
        PROVE  Pair(i) = << OutOf("SHIPMENT", s, legs[i], a), Into("SHIPMENT", s, legs[i], b) >>
    <3>1. rest[i] = Back(i)
      BY <1>7
    <3>2. /\ legs[i].line = own[i] /\ legs[i].product = shipLines[own[i]].product
          /\ legs[i].qty = InTransit(own[i]).qty /\ legs[i].aed = Back(i)
      BY <1>8, <3>1
    <3>3. a[1] = shipments[s].to /\ a[2] = "IN_TRANSIT"
          /\ b[1] = shipments[s].from /\ b[2] = "PHYSICAL"
      OBVIOUS
    <3> HIDE DEF Back
    <3> QED
      BY <3>2, <3>3 DEF OutOf, Into
  <2> HIDE DEF Pair
  <2>3. [i \in 1..Len(own) |-> Pair(i)]
        = [i \in 1..Len(legs) |-> << OutOf("SHIPMENT", s, legs[i], a),
                                     Into("SHIPMENT", s, legs[i], b) >>]
    BY <1>9, <2>2
  <2> QED
    BY <2>1, <2>3 DEF Transfers
<1> QED
  BY <1>10, <1>11

\* Movements of one record that are of the lines of some legs.
MovesOf(moves, stype, sid, legs) ==
    /\ moves \in Seq(Rows)
    /\ \A k \in 1..Len(moves) :
          /\ moves[k].stype = stype /\ moves[k].sid = sid
          /\ \E i \in 1..Len(legs) : moves[k].line = legs[i].line

\* A transfer is of the lines of its legs.
LEMMA TransferRows ==
    ASSUME NEW stype \in ShipTypes, NEW sid \in Nat, NEW legs \in Seq(Legs),
           NEW a \in Places, NEW b \in Places
    PROVE  MovesOf(Transfers(stype, sid, legs, a, b), stype, sid, legs)
<1> DEFINE moves == Transfers(stype, sid, legs, a, b)
<1>1. moves \in Seq(Rows)
  BY TransfersFacts
<1>2. SUFFICES ASSUME NEW k \in 1..Len(moves)
               PROVE  /\ moves[k].stype = stype /\ moves[k].sid = sid
                      /\ \E i \in 1..Len(legs) : moves[k].line = legs[i].line
  BY <1>1 DEF MovesOf
<1>3. \E i \in 1..Len(legs) :
         moves[k] \in {OutOf(stype, sid, legs[i], a), Into(stype, sid, legs[i], b)}
  BY TransfersFacts
<1>4. PICK i \in 1..Len(legs) :
         moves[k] \in {OutOf(stype, sid, legs[i], a), Into(stype, sid, legs[i], b)}
  BY <1>3
<1> HIDE DEF moves
<1>5. PICK leg \in Legs : leg = legs[i]
  OBVIOUS
<1>6. /\ OutOf(stype, sid, leg, a).stype = stype /\ OutOf(stype, sid, leg, a).sid = sid
      /\ OutOf(stype, sid, leg, a).line = leg.line
  BY DEF OutOf, StockMove
<1>7. /\ Into(stype, sid, leg, b).stype = stype /\ Into(stype, sid, leg, b).sid = sid
      /\ Into(stype, sid, leg, b).line = leg.line
  BY DEF Into, StockMove
<1> QED
  BY <1>4, <1>5, <1>6, <1>7

\* What a step that posts changes, and one that does not.
LEMMA PostStep ==
    ASSUME Inv, NEW moves, NEW confirm, Post(moves, confirm)
    PROVE  moves \in Seq(Rows) /\ ledger' = ledger \o moves /\ Sound(Book)'
BY PostFacts, PostSound DEF Inv

\* A step that posts nothing posts no rows.
LEMMA QuietStep ==
    ASSUME Inv, ledger' = ledger, balance' = balance
    PROVE  << >> \in Seq(Rows) /\ ledger' = ledger \o << >> /\ Sound(Book)'
<1>1. ledger \in Seq(Rows)
  BY DEF Inv, Sound, Book
<1>2. Sound(Book)'
  BY DEF Inv, Sound, Book
<1> QED
  BY <1>1, <1>2

\* What shipping posts.
LEMMA ShippingPosts ==
    ASSUME Inv, NEW s \in Nat, NEW route, route.from \in Locations, route.to \in Locations,
           NEW n \in Nat, NEW lns \in Seq(ShipLineRecords(n)),
           NEW confirm, Post(ShipMoves(s, route, lns), confirm)
    PROVE  \E moves \in Seq(Rows), legs \in Seq(Legs) :
              /\ ledger' = ledger \o moves /\ Sound(Book)'
              /\ LegsOf(legs, s, lns)
              /\ MovesOf(moves, "SHIPMENT", s, legs)
              /\ moves = Transfers("SHIPMENT", s, legs, << route.from, "PHYSICAL" >>,
                                                       << route.to, "IN_TRANSIT" >>)
<1>1. PICK a \in Places, b \in Places : /\ a = << route.from, "PHYSICAL" >>
                                       /\ b = << route.to, "IN_TRANSIT" >>
  <2>1. << route.from, "PHYSICAL" >> \in Places /\ << route.to, "IN_TRANSIT" >> \in Places
    BY DEF Places, Buckets
  <2> QED
    BY <2>1
<1>2. PICK legs : /\ LegsOf(legs, s, lns)
                  /\ ShipMoves(s, route, lns) = Transfers("SHIPMENT", s, legs, a, b)
  BY <1>1, ShipMovesAre DEF Inv
<1>3. PICK moves : moves = ShipMoves(s, route, lns)
  OBVIOUS
<1>4. moves \in Seq(Rows) /\ ledger' = ledger \o moves /\ Sound(Book)'
  BY <1>3, PostStep
<1>5. legs \in Seq(Legs) /\ "SHIPMENT" \in ShipTypes
  BY <1>2 DEF LegsOf, ShipTypes
<1>6. MovesOf(moves, "SHIPMENT", s, legs)
  BY <1>2, <1>3, <1>5, TransferRows
<1> QED
  BY <1>1, <1>2, <1>3, <1>4, <1>5, <1>6

\* What a receipt posts.
LEMMA ReceivingPosts ==
    ASSUME Inv, NEW s \in DOMAIN shipments, NEW r \in Nat, NEW m \in Nat,
           NEW items \in Seq(LoadedItems(m)),
           NEW confirm, Post(ReceiptMoves(s, r, items), confirm)
    PROVE  \E moves \in Seq(Rows), legs \in Seq(Legs) :
              /\ ledger' = ledger \o moves /\ Sound(Book)'
              /\ ReceiptLegsOf(legs, items)
              /\ MovesOf(moves, "SHIPMENT_RECEIPT", r, legs)
              /\ moves = Transfers("SHIPMENT_RECEIPT", r, legs,
                                   << shipments[s].to, "IN_TRANSIT" >>,
                                   << shipments[s].to, "PHYSICAL" >>)
<1>1. PICK a \in Places, b \in Places : /\ a = << shipments[s].to, "IN_TRANSIT" >>
                                       /\ b = << shipments[s].to, "PHYSICAL" >>
  <2>1. shipments[s].to \in Locations
    BY RecordTypes DEF Inv, ShipmentRecords
  <2>2. << shipments[s].to, "IN_TRANSIT" >> \in Places /\ << shipments[s].to, "PHYSICAL" >> \in Places
    BY <2>1 DEF Places, Buckets
  <2> QED
    BY <2>2
<1>2. PICK legs : /\ ReceiptLegsOf(legs, items)
                  /\ ReceiptMoves(s, r, items) = Transfers("SHIPMENT_RECEIPT", r, legs, a, b)
  <2>1. ledger \in Seq(Rows)
    BY DEF Inv, Sound, Book
  <2> QED
    BY <1>1, <2>1, ReceiptMovesAre
<1>3. PICK moves : moves = ReceiptMoves(s, r, items)
  OBVIOUS
<1>4. moves \in Seq(Rows) /\ ledger' = ledger \o moves /\ Sound(Book)'
  BY <1>3, PostStep
<1>5. legs \in Seq(Legs) /\ "SHIPMENT_RECEIPT" \in ShipTypes
  BY <1>2 DEF ReceiptLegsOf, ShipTypes
<1>6. MovesOf(moves, "SHIPMENT_RECEIPT", r, legs)
  BY <1>2, <1>3, <1>5, TransferRows
<1> QED
  BY <1>1, <1>2, <1>3, <1>4, <1>5, <1>6

\* What cancelling posts.
LEMMA CancellingPosts ==
    ASSUME Inv, NEW s \in DOMAIN shipments, NEW confirm, Post(UnreceivedMoves(s), confirm)
    PROVE  \E moves \in Seq(Rows), legs \in Seq(Legs) :
              /\ ledger' = ledger \o moves /\ Sound(Book)'
              /\ RestLegsOf(legs, s)
              /\ MovesOf(moves, "SHIPMENT", s, legs)
              /\ moves = Transfers("SHIPMENT", s, legs, << shipments[s].to, "IN_TRANSIT" >>,
                                                       << shipments[s].from, "PHYSICAL" >>)
<1>1. PICK a \in Places, b \in Places : /\ a = << shipments[s].to, "IN_TRANSIT" >>
                                       /\ b = << shipments[s].from, "PHYSICAL" >>
  <2>1. shipments[s].to \in Locations /\ shipments[s].from \in Locations
    BY RecordTypes DEF Inv, ShipmentRecords
  <2>2. /\ << shipments[s].to, "IN_TRANSIT" >> \in Places
        /\ << shipments[s].from, "PHYSICAL" >> \in Places
    BY <2>1 DEF Places, Buckets
  <2> QED
    BY <2>2
<1>2. PICK legs : /\ RestLegsOf(legs, s)
                  /\ UnreceivedMoves(s) = Transfers("SHIPMENT", s, legs, a, b)
  BY <1>1, UnreceivedMovesAre DEF Inv
<1>3. PICK moves : moves = UnreceivedMoves(s)
  OBVIOUS
<1>4. moves \in Seq(Rows) /\ ledger' = ledger \o moves /\ Sound(Book)'
  BY <1>3, PostStep
<1>5. legs \in Seq(Legs) /\ "SHIPMENT" \in ShipTypes /\ s \in Nat
  BY <1>2, RecordTypes DEF RestLegsOf, ShipTypes, Inv
<1>6. MovesOf(moves, "SHIPMENT", s, legs)
  BY <1>2, <1>3, <1>5, TransferRows
<1> QED
  BY <1>1, <1>2, <1>3, <1>4, <1>5, <1>6
-----------------------------------------------------------------------------
(* Records of longer tables *)

\* What fits short tables fits longer ones.
LEMMA Widen ==
    ASSUME NEW n \in Nat, NEW n2 \in Nat, n <= n2, NEW m \in Nat, NEW m2 \in Nat, m <= m2
    PROVE  /\ Seq(ShipLineRecords(n)) \subseteq Seq(ShipLineRecords(n2))
           /\ Seq(ReceiptRecords(n, m)) \subseteq Seq(ReceiptRecords(n2, m2))
           /\ LoadedRequests(n, m) \subseteq LoadedRequests(n2, m2)
<1>1. 1..n \subseteq 1..n2 /\ 1..m \subseteq 1..m2
  OBVIOUS
<1>2. ASSUME NEW A, NEW B, A \subseteq B
      PROVE  Seq(A) \subseteq Seq(B)
  <2>1. SUFFICES ASSUME NEW q \in Seq(A) PROVE q \in Seq(B)
    OBVIOUS
  <2>2. Len(q) \in Nat /\ q = [i \in 1..Len(q) |-> q[i]] /\ \A i \in 1..Len(q) : q[i] \in B
    BY <1>2
  <2> QED
    BY <2>2
<1>3. ShipLineRecords(n) \subseteq ShipLineRecords(n2)
  BY <1>1 DEF ShipLineRecords
<1>4. ReceiptLines(m) \subseteq ReceiptLines(m2) /\ LoadedItems(m) \subseteq LoadedItems(m2)
  BY <1>1 DEF ReceiptLines, LoadedItems
<1>5. Seq(ReceiptLines(m)) \subseteq Seq(ReceiptLines(m2))
      /\ Seq(LoadedItems(m)) \subseteq Seq(LoadedItems(m2))
  BY <1>2, <1>4
<1>6. ReceiptRecords(n, m) \subseteq ReceiptRecords(n2, m2)
  BY <1>1, <1>5 DEF ReceiptRecords
<1>7. LoadedRequests(n, m) \subseteq LoadedRequests(n2, m2)
  BY <1>1, <1>5 DEF LoadedRequests
<1> QED
  BY <1>2, <1>3, <1>6, <1>7

-----------------------------------------------------------------------------
(* Every operation keeps the invariant *)

\* A receipt is of lines that exist.
LEMMA ReceiptNames ==
    ASSUME RecordsFit
    PROVE  \A r \in DOMAIN receipts : \A i \in DOMAIN receipts[r].lines :
              /\ receipts[r].lines[i] \in ReceiptLines(Len(shipLines))
              /\ receipts[r].lines[i].line \in DOMAIN shipLines
<1>1. SUFFICES ASSUME NEW r \in DOMAIN receipts, NEW i \in DOMAIN receipts[r].lines
               PROVE  /\ receipts[r].lines[i] \in ReceiptLines(Len(shipLines))
                      /\ receipts[r].lines[i].line \in DOMAIN shipLines
  OBVIOUS
<1>2. PICK q : q = receipts[r].lines
  OBVIOUS
<1>3. q \in Seq(ReceiptLines(Len(shipLines))) /\ i \in DOMAIN q
  BY <1>1, <1>2, RecordTypes
<1>4. q[i] \in ReceiptLines(Len(shipLines))
  BY <1>3
<1>5. q[i].line \in 1..Len(shipLines)
  BY <1>4 DEF ReceiptLines
<1> QED
  BY <1>2, <1>4, <1>5, RecordTypes

\* A shipment entered.
LEMMA CreateKeeps ==
    ASSUME Inv, Create
    PROVE  Inv' /\ RecordsGrow
<1>1. PICK route \in Routes, terms \in Requests(LineTerms), ship \in BOOLEAN, confirm \in Confirms :
         CreateShipment(route, terms, ship, confirm)
  BY DEF Create
<1>2. PICK s, new, lns : /\ s = Len(shipments) + 1
                         /\ new = [i \in DOMAIN terms |-> NewShipLine(s, terms[i])]
                         /\ lns = shipLines \o new
  OBVIOUS
<1>3. /\ IF ship THEN Post(ShipMoves(s, route, lns), confirm) ELSE Install(Book)
      /\ shipments' = Append(shipments, [from |-> route.from, to |-> route.to,
                                         shipped |-> ship, cancelled |-> FALSE,
                                         is_deleted |-> FALSE])
      /\ shipLines' = lns
      /\ receipts' = receipts /\ inFlight' = inFlight
  BY <1>1, <1>2 DEF CreateShipment
<1>4. route.from \in Locations /\ route.to \in Locations /\ route.from # route.to
  BY DEF Routes
<1>5. RecordsFit /\ RecordsAgree
  BY DEF Inv
<1>6. /\ Len(shipments) \in Nat /\ DOMAIN shipments = 1..Len(shipments)
      /\ Len(shipLines) \in Nat /\ DOMAIN shipLines = 1..Len(shipLines)
      /\ s \in Nat /\ s > Len(shipments)
  BY <1>2, <1>5, RecordTypes
<1>7. PICK n \in Nat : terms \in [1..n -> LineTerms]
  BY DEF Requests
<1>8. /\ new \in Seq(ShipLineRecords(s)) /\ Len(new) = n
      /\ \A i \in 1..n : new[i].shipment = s /\ new[i] \in ShipLineRecords(s)
  <2>1. \A i \in 1..n : NewShipLine(s, terms[i]) \in ShipLineRecords(s)
                        /\ NewShipLine(s, terms[i]).shipment = s
    <3>1. \A i \in 1..n : terms[i] \in LineTerms
      BY <1>7
    <3>2. s \in 1..s
      BY <1>6
    <3> QED
      BY <3>1, <3>2 DEF NewShipLine, LineTerms, ShipLineRecords
  <2>2. new = [i \in 1..n |-> NewShipLine(s, terms[i])]
    BY <1>2, <1>7
  <2> QED
    BY <2>1, <2>2
<1>9. /\ shipments' \in Seq(ShipmentRecords) /\ Len(shipments') = s
      /\ shipments'[s] = [from |-> route.from, to |-> route.to, shipped |-> ship,
                          cancelled |-> FALSE, is_deleted |-> FALSE]
      /\ \A t \in DOMAIN shipments : t \in DOMAIN shipments' /\ shipments'[t] = shipments[t]
      /\ \A t \in DOMAIN shipments' : t \in DOMAIN shipments \/ t = s
  <2>1. [from |-> route.from, to |-> route.to, shipped |-> ship, cancelled |-> FALSE,
         is_deleted |-> FALSE] \in ShipmentRecords
    BY <1>4 DEF ShipmentRecords
  <2>2. shipments \in Seq(ShipmentRecords)
    BY <1>5 DEF RecordsFit
  <2> QED
    BY <1>2, <1>3, <2>1, <2>2, AppendProperties
<1>10. /\ shipLines \in Seq(ShipLineRecords(s))
       /\ receipts \in Seq(ReceiptRecords(s, Len(shipLines) + n))
       /\ inFlight \subseteq LoadedRequests(s, Len(shipLines) + n)
  <2>1. Len(shipments) <= s /\ Len(shipLines) + n \in Nat /\ Len(shipLines) <= Len(shipLines) + n
    BY <1>6
  <2>2. /\ Seq(ShipLineRecords(Len(shipments))) \subseteq Seq(ShipLineRecords(s))
        /\ Seq(ReceiptRecords(Len(shipments), Len(shipLines)))
              \subseteq Seq(ReceiptRecords(s, Len(shipLines) + n))
        /\ LoadedRequests(Len(shipments), Len(shipLines))
              \subseteq LoadedRequests(s, Len(shipLines) + n)
    BY <1>6, <2>1, Widen
  <2> QED
    BY <1>5, <2>2 DEF RecordsFit
<1>11. /\ lns \in Seq(ShipLineRecords(s)) /\ Len(lns) = Len(shipLines) + n
       /\ \A l \in DOMAIN shipLines : l \in DOMAIN lns /\ lns[l] = shipLines[l]
       /\ \A l \in DOMAIN lns : l \in DOMAIN shipLines \/ lns[l].shipment = s
  <2>1. lns \in Seq(ShipLineRecords(s)) /\ Len(lns) = Len(shipLines) + n
    BY <1>2, <1>8, <1>10, ConcatProperties
  <2>2. ASSUME NEW l \in DOMAIN shipLines
        PROVE  l \in DOMAIN lns /\ lns[l] = shipLines[l]
    BY <1>2, <1>6, <1>8, <1>10, <2>1, ConcatProperties
  <2>3. ASSUME NEW l \in DOMAIN lns, l \notin DOMAIN shipLines
        PROVE  lns[l].shipment = s
    <3>1. l - Len(shipLines) \in 1..n /\ lns[l] = new[l - Len(shipLines)]
      BY <1>2, <1>6, <1>8, <1>10, <2>1, <2>3, ConcatProperties
    <3> QED
      BY <1>8, <3>1
  <2> QED
    BY <2>1, <2>2, <2>3
<1>12. RecordsFit'
  BY <1>3, <1>9, <1>10, <1>11 DEF RecordsFit
<1>13. RecordsGrow
  <2>1. s \notin DOMAIN shipments
    BY <1>6
  <2> QED
    BY <1>3, <1>5, <1>9, <1>11, <2>1, RecordTypes DEF RecordsGrow
<1>14. RecordsAgree'
  <2>1. ASSUME NEW t \in DOMAIN shipments'
        PROVE  shipments'[t].from # shipments'[t].to
    BY <1>4, <1>5, <1>9 DEF RecordsAgree
  <2>2. ASSUME NEW l \in DOMAIN shipLines', ~shipLines'[l].is_deleted
        PROVE  ~shipments'[shipLines'[l].shipment].is_deleted
    <3>1. CASE l \in DOMAIN shipLines
      <4>1. shipLines'[l] = shipLines[l] /\ shipLines[l].shipment \in DOMAIN shipments
        BY <1>3, <1>5, <1>11, <3>1, RecordTypes
      <4>2. ~shipments[shipLines[l].shipment].is_deleted
        BY <1>5, <2>2, <3>1, <4>1 DEF RecordsAgree, Live
      <4> QED
        BY <1>9, <4>1, <4>2
    <3>2. CASE l \notin DOMAIN shipLines
      BY <1>3, <1>9, <1>11, <2>2, <3>2
    <3> QED
      BY <3>1, <3>2
  <2>3. ASSUME NEW r \in DOMAIN receipts'
        PROVE  /\ shipments'[receipts'[r].shipment].shipped
               /\ ~receipts'[r].is_deleted => ~shipments'[receipts'[r].shipment].is_deleted
               /\ \A i \in DOMAIN receipts'[r].lines :
                     shipLines'[receipts'[r].lines[i].line].shipment = receipts'[r].shipment
    <3>1. r \in DOMAIN receipts /\ receipts'[r] = receipts[r]
          /\ receipts[r].shipment \in DOMAIN shipments
          /\ receipts[r].lines \in Seq(ReceiptLines(Len(shipLines)))
      BY <1>3, <1>5, RecordTypes
    <3>2. shipments[receipts[r].shipment].shipped
          /\ (~receipts[r].is_deleted => ~shipments[receipts[r].shipment].is_deleted)
          /\ \A i \in DOMAIN receipts[r].lines :
                shipLines[receipts[r].lines[i].line].shipment = receipts[r].shipment
      BY <1>5, <3>1 DEF RecordsAgree, Live
    <3>3. \A i \in DOMAIN receipts[r].lines : receipts[r].lines[i].line \in DOMAIN shipLines
      BY <1>5, <3>1, ReceiptNames
    <3> QED
      BY <1>3, <1>9, <1>11, <3>1, <3>2, <3>3
  <2> QED
    BY <2>1, <2>2, <2>3 DEF RecordsAgree, Live
<1>15. \A l \in DOMAIN shipLines' \ DOMAIN shipLines : Live(shipLines[l].shipment)'
  BY <1>3, <1>9, <1>11 DEF Live
<1>16. \E moves : moves \in Seq(Rows) /\ StepPosts(moves)
  <2>1. CASE ship
    <3>1. PICK moves \in Seq(Rows), legs \in Seq(Legs) :
             /\ ledger' = ledger \o moves /\ Sound(Book)'
             /\ LegsOf(legs, s, lns)
             /\ MovesOf(moves, "SHIPMENT", s, legs)
      BY <1>3, <1>4, <1>6, <1>11, <2>1, ShippingPosts
    <3>2. ASSUME NEW k \in 1..Len(moves)
          PROVE  /\ RowFits(moves[k])'
                 /\ moves[k].stype \in ShipTypes /\ moves[k].line \in DOMAIN shipLines
                       => Live(shipLines[moves[k].line].shipment)
      <4>1. PICK row : row = moves[k]
        OBVIOUS
      <4>2. row.stype = "SHIPMENT" /\ row.line \in LinesOf(lns, s)
        BY <3>1, <4>1 DEF LegsOf, MovesOf
      <4>3. row.line \in DOMAIN lns /\ lns[row.line].shipment = s
        BY <4>2 DEF LinesOf
      <4>4. RowFits(row)'
        BY <1>3, <1>9, <2>1, <4>2, <4>3 DEF RowFits
      <4>5. row.line \notin DOMAIN shipLines
        <5>1. SUFFICES ASSUME row.line \in DOMAIN shipLines PROVE FALSE
          OBVIOUS
        <5>2. shipLines[row.line].shipment = s
          BY <1>11, <4>3, <5>1
        <5>3. shipLines[row.line].shipment \in 1..Len(shipments)
          BY <1>5, <5>1, RecordTypes
        <5> QED
          BY <1>6, <5>2, <5>3
      <4> QED
        BY <4>1, <4>4, <4>5 DEF RowFits
    <3> QED
      BY <1>13, <1>15, <3>1, <3>2 DEF StepPosts
  <2>2. CASE ~ship
    <3>1. ledger' = ledger /\ balance' = balance
      BY <1>3, <2>2 DEF Install, Book
    <3>2. PICK moves : moves = << >>
      OBVIOUS
    <3>3. moves \in Seq(Rows) /\ ledger' = ledger \o moves /\ Sound(Book)' /\ 1..Len(moves) = {}
      BY <3>1, <3>2, QuietStep
    <3> QED
      BY <1>13, <1>15, <3>3 DEF StepPosts
  <2> QED
    BY <2>1, <2>2
<1>17. \A l \in DOMAIN shipLines :
          Live(shipLines[l].shipment) => Live(shipLines[l].shipment)'
  BY <1>3, <1>5, <1>9, <1>11, RecordTypes DEF Live
<1> QED
  BY <1>12, <1>13, <1>14, <1>16, <1>17, PostingKeeps

\* What a step leaves the receipts with when it only changes shipments and lines.
LEMMA ReceiptsStay ==
    ASSUME RecordsFit, RecordsAgree, RecordsGrow, receipts' = receipts,
           \A s \in DOMAIN shipments : shipments'[s].is_deleted => shipments[s].is_deleted
    PROVE  \A r \in DOMAIN receipts' :
              /\ shipments'[receipts'[r].shipment].shipped
              /\ ~receipts'[r].is_deleted => ~shipments'[receipts'[r].shipment].is_deleted
              /\ \A i \in DOMAIN receipts'[r].lines :
                    shipLines'[receipts'[r].lines[i].line].shipment = receipts'[r].shipment
<1>1. SUFFICES ASSUME NEW r \in DOMAIN receipts
               PROVE  /\ shipments'[receipts[r].shipment].shipped
                      /\ ~receipts[r].is_deleted => ~shipments'[receipts[r].shipment].is_deleted
                      /\ \A i \in DOMAIN receipts[r].lines :
                            shipLines'[receipts[r].lines[i].line].shipment = receipts[r].shipment
  OBVIOUS
<1>2. PICK s \in DOMAIN shipments : s = receipts[r].shipment
  BY RecordTypes
<1>3. /\ shipments[s].shipped
      /\ ~receipts[r].is_deleted => ~shipments[s].is_deleted
      /\ \A i \in DOMAIN receipts[r].lines : shipLines[receipts[r].lines[i].line].shipment = s
  BY <1>2 DEF RecordsAgree, Live
<1>4. \A i \in DOMAIN receipts[r].lines : receipts[r].lines[i].line \in DOMAIN shipLines
  BY ReceiptNames
<1>5. shipments'[s].shipped /\ (~receipts[r].is_deleted => ~shipments'[s].is_deleted)
  BY <1>3 DEF RecordsGrow
<1>6. \A i \in DOMAIN receipts[r].lines : shipLines'[receipts[r].lines[i].line].shipment = s
  BY <1>3, <1>4 DEF RecordsGrow
<1> QED
  BY <1>2, <1>5, <1>6

\* A draft shipped.
LEMMA ShipKeeps ==
    ASSUME Inv, Ship
    PROVE  Inv' /\ RecordsGrow
<1>1. PICK s \in DOMAIN shipments, confirm \in Confirms : ShipShipment(s, confirm)
  BY DEF Ship
<1>2. RecordsFit /\ RecordsAgree
  BY DEF Inv
<1>3. /\ Live(s) /\ ~shipments[s].shipped
      /\ Post(ShipMoves(s, shipments[s], shipLines), confirm)
      /\ shipments' = [shipments EXCEPT ![s].shipped = TRUE]
      /\ shipLines' = shipLines /\ receipts' = receipts /\ inFlight' = inFlight
  BY <1>1 DEF ShipShipment
<1>4. /\ Len(shipments) \in Nat /\ DOMAIN shipments = 1..Len(shipments) /\ s \in Nat
      /\ shipments \in Seq(ShipmentRecords) /\ shipments[s] \in ShipmentRecords
  BY <1>2, RecordTypes DEF RecordsFit
<1>5. /\ shipments' \in Seq(ShipmentRecords) /\ Len(shipments') = Len(shipments)
      /\ DOMAIN shipments' = DOMAIN shipments
      /\ shipments'[s].shipped
      /\ \A t \in DOMAIN shipments : /\ shipments'[t].from = shipments[t].from
                                     /\ shipments'[t].to = shipments[t].to
                                     /\ shipments'[t].is_deleted = shipments[t].is_deleted
                                     /\ shipments[t].shipped => shipments'[t].shipped
  <2>1. PICK old \in ShipmentRecords : old = shipments[s]
    BY <1>4
  <2>2. PICK now : now = [old EXCEPT !.shipped = TRUE]
    OBVIOUS
  <2>3. now \in ShipmentRecords /\ now.shipped /\ now.from = old.from /\ now.to = old.to
        /\ now.is_deleted = old.is_deleted
    BY <2>2 DEF ShipmentRecords
  <2>4. shipments' = [shipments EXCEPT ![s] = now]
    BY <1>3, <2>1, <2>2
  <2> QED
    BY <1>4, <2>1, <2>3, <2>4
<1>6. RecordsFit'
  BY <1>2, <1>3, <1>5 DEF RecordsFit
<1>7. RecordsGrow
  BY <1>3, <1>5 DEF RecordsGrow
<1>8. RecordsAgree'
  <2>1. \A t \in DOMAIN shipments' : shipments'[t].from # shipments'[t].to
    BY <1>2, <1>5 DEF RecordsAgree
  <2>2. ASSUME NEW l \in DOMAIN shipLines', ~shipLines'[l].is_deleted
        PROVE  ~shipments'[shipLines'[l].shipment].is_deleted
    <3>1. PICK t \in DOMAIN shipments : t = shipLines[l].shipment
      BY <1>2, <1>3, RecordTypes
    <3>2. ~shipments[t].is_deleted
      BY <1>2, <1>3, <2>2, <3>1 DEF RecordsAgree, Live
    <3> QED
      BY <1>3, <1>5, <3>1, <3>2
  <2> QED
    BY <1>2, <1>3, <1>5, <1>7, <2>1, <2>2, ReceiptsStay DEF RecordsAgree, Live
<1>9. \E moves : moves \in Seq(Rows) /\ StepPosts(moves)
  <2>1. PICK moves \in Seq(Rows), legs \in Seq(Legs) :
           /\ ledger' = ledger \o moves /\ Sound(Book)'
           /\ LegsOf(legs, s, shipLines)
           /\ MovesOf(moves, "SHIPMENT", s, legs)
    <3>1. shipments[s].from \in Locations /\ shipments[s].to \in Locations
      BY <1>4 DEF ShipmentRecords
    <3>2. shipLines \in Seq(ShipLineRecords(Len(shipments)))
      BY <1>2 DEF RecordsFit
    <3> QED
      BY <1>3, <1>4, <3>1, <3>2, ShippingPosts
  <2>2. ASSUME NEW k \in 1..Len(moves)
        PROVE  /\ RowFits(moves[k])'
               /\ moves[k].stype \in ShipTypes /\ moves[k].line \in DOMAIN shipLines
                     => Live(shipLines[moves[k].line].shipment)
    <3>1. PICK row : row = moves[k]
      OBVIOUS
    <3>2. row.stype = "SHIPMENT" /\ row.line \in LinesOf(shipLines, s)
      BY <2>1, <3>1 DEF LegsOf, MovesOf
    <3>3. row.line \in DOMAIN shipLines /\ shipLines[row.line].shipment = s
      BY <3>2 DEF LinesOf
    <3>4. RowFits(row)'
      BY <1>3, <1>5, <3>2, <3>3 DEF RowFits
    <3> QED
      BY <1>3, <3>1, <3>3, <3>4 DEF RowFits
  <2> QED
    BY <1>3, <1>7, <2>1, <2>2 DEF StepPosts
<1>10. \A l \in DOMAIN shipLines :
          Live(shipLines[l].shipment) => Live(shipLines[l].shipment)'
  BY <1>2, <1>3, <1>5, RecordTypes DEF Live
<1> QED
  BY <1>6, <1>7, <1>8, <1>9, <1>10, PostingKeeps

\* A shipment cancelled.
LEMMA CancelKeeps ==
    ASSUME Inv, Cancel
    PROVE  Inv' /\ RecordsGrow
<1>1. PICK s \in DOMAIN shipments : CancelShipment(s)
  BY DEF Cancel
<1>2. RecordsFit /\ RecordsAgree
  BY DEF Inv
<1>3. /\ Live(s)
      /\ IF shipments[s].shipped THEN Post(UnreceivedMoves(s), FALSE) ELSE Install(Book)
      /\ shipments' = [shipments EXCEPT ![s].cancelled = TRUE]
      /\ shipLines' = shipLines /\ receipts' = receipts /\ inFlight' = inFlight
  BY <1>1 DEF CancelShipment
<1>4. /\ Len(shipments) \in Nat /\ DOMAIN shipments = 1..Len(shipments) /\ s \in Nat
      /\ shipments \in Seq(ShipmentRecords) /\ shipments[s] \in ShipmentRecords
  BY <1>2, RecordTypes DEF RecordsFit
<1>5. /\ shipments' \in Seq(ShipmentRecords) /\ Len(shipments') = Len(shipments)
      /\ DOMAIN shipments' = DOMAIN shipments
      /\ \A t \in DOMAIN shipments : /\ shipments'[t].from = shipments[t].from
                                     /\ shipments'[t].to = shipments[t].to
                                     /\ shipments'[t].is_deleted = shipments[t].is_deleted
                                     /\ shipments'[t].shipped = shipments[t].shipped
  <2>1. PICK old \in ShipmentRecords : old = shipments[s]
    BY <1>4
  <2>2. PICK now : now = [old EXCEPT !.cancelled = TRUE]
    OBVIOUS
  <2>3. now \in ShipmentRecords /\ now.shipped = old.shipped /\ now.from = old.from
        /\ now.to = old.to /\ now.is_deleted = old.is_deleted
    BY <2>2 DEF ShipmentRecords
  <2>4. shipments' = [shipments EXCEPT ![s] = now]
    BY <1>3, <2>1, <2>2
  <2> QED
    BY <1>4, <2>1, <2>3, <2>4
<1>6. RecordsFit'
  BY <1>2, <1>3, <1>5 DEF RecordsFit
<1>7. RecordsGrow
  BY <1>3, <1>5 DEF RecordsGrow
<1>8. RecordsAgree'
  <2>1. \A t \in DOMAIN shipments' : shipments'[t].from # shipments'[t].to
    BY <1>2, <1>5 DEF RecordsAgree
  <2>2. ASSUME NEW l \in DOMAIN shipLines', ~shipLines'[l].is_deleted
        PROVE  ~shipments'[shipLines'[l].shipment].is_deleted
    <3>1. PICK t \in DOMAIN shipments : t = shipLines[l].shipment
      BY <1>2, <1>3, RecordTypes
    <3>2. ~shipments[t].is_deleted
      BY <1>2, <1>3, <2>2, <3>1 DEF RecordsAgree, Live
    <3> QED
      BY <1>3, <1>5, <3>1, <3>2
  <2> QED
    BY <1>2, <1>3, <1>5, <1>7, <2>1, <2>2, ReceiptsStay DEF RecordsAgree, Live
<1>9. \E moves : moves \in Seq(Rows) /\ StepPosts(moves)
  <2>1. CASE shipments[s].shipped
    <3>1. PICK moves \in Seq(Rows), legs \in Seq(Legs) :
             /\ ledger' = ledger \o moves /\ Sound(Book)'
             /\ RestLegsOf(legs, s)
             /\ MovesOf(moves, "SHIPMENT", s, legs)
      BY <1>3, <2>1, CancellingPosts
    <3>2. ASSUME NEW k \in 1..Len(moves)
          PROVE  /\ RowFits(moves[k])'
                 /\ moves[k].stype \in ShipTypes /\ moves[k].line \in DOMAIN shipLines
                       => Live(shipLines[moves[k].line].shipment)
      <4>1. PICK row : row = moves[k]
        OBVIOUS
      <4>2. row.stype = "SHIPMENT" /\ row.line \in OpenLines(s)
        BY <3>1, <4>1 DEF RestLegsOf, MovesOf
      <4>3. row.line \in DOMAIN shipLines /\ shipLines[row.line].shipment = s
        BY <4>2 DEF LinesOf, OpenLines
      <4>4. RowFits(row)'
        BY <1>3, <1>5, <2>1, <4>2, <4>3 DEF RowFits
      <4> QED
        BY <1>3, <4>1, <4>3, <4>4 DEF RowFits
    <3> QED
      BY <1>3, <1>7, <3>1, <3>2 DEF StepPosts
  <2>2. CASE ~shipments[s].shipped
    <3>1. ledger' = ledger /\ balance' = balance
      BY <1>3, <2>2 DEF Install, Book
    <3>2. PICK moves : moves = << >>
      OBVIOUS
    <3>3. moves \in Seq(Rows) /\ ledger' = ledger \o moves /\ Sound(Book)' /\ 1..Len(moves) = {}
      BY <3>1, <3>2, QuietStep
    <3> QED
      BY <1>3, <1>7, <3>3 DEF StepPosts
  <2> QED
    BY <2>1, <2>2
<1>10. \A l \in DOMAIN shipLines :
          Live(shipLines[l].shipment) => Live(shipLines[l].shipment)'
  BY <1>2, <1>3, <1>5, RecordTypes DEF Live
<1> QED
  BY <1>6, <1>7, <1>8, <1>9, <1>10, PostingKeeps

\* Goods received, by a request that loaded its lines now or earlier.
LEMMA ReceiveKeeps ==
    ASSUME Inv, NEW s \in DOMAIN shipments, NEW items \in Seq(LoadedItems(Len(shipLines))),
           ReceiveShipment(s, items), inFlight' \subseteq inFlight
    PROVE  Inv' /\ RecordsGrow
<1>2. RecordsFit /\ RecordsAgree
  BY DEF Inv
<1>3. PICK r, lines : /\ r = Len(receipts) + 1
                      /\ lines = [i \in DOMAIN items |->
                                    [line |-> items[i].line, quantity |-> items[i].quantity]]
  OBVIOUS
<1>4. /\ MayReceive(s, items)
      /\ Post(ReceiptMoves(s, r, items), FALSE)
      /\ receipts' = Append(receipts, [shipment |-> s, is_deleted |-> FALSE, lines |-> lines])
      /\ shipments' = shipments /\ shipLines' = shipLines
  BY <1>3 DEF ReceiveShipment, ReceiptMoves
<1>5. /\ Live(s) /\ shipments[s].shipped
      /\ \A i \in DOMAIN items : shipLines[items[i].line].shipment = s
  BY <1>4 DEF MayReceive
<1>6. /\ Len(shipments) \in Nat /\ DOMAIN shipments = 1..Len(shipments) /\ s \in 1..Len(shipments)
      /\ Len(shipLines) \in Nat /\ DOMAIN shipLines = 1..Len(shipLines)
      /\ Len(receipts) \in Nat /\ DOMAIN receipts = 1..Len(receipts)
      /\ shipments[s] \in ShipmentRecords /\ r \in Nat
  BY <1>2, <1>3, RecordTypes
<1>7. /\ Len(items) \in Nat /\ DOMAIN items = 1..Len(items)
      /\ \A i \in 1..Len(items) : /\ items[i].line \in DOMAIN shipLines
                                  /\ items[i].quantity \in Quantities
  <2>1. Len(items) \in Nat /\ DOMAIN items = 1..Len(items)
        /\ \A i \in 1..Len(items) : items[i] \in LoadedItems(Len(shipLines))
    OBVIOUS
  <2> QED
    BY <1>6, <2>1 DEF LoadedItems
<1>8. /\ lines \in Seq(ReceiptLines(Len(shipLines)))
      /\ DOMAIN lines = 1..Len(items)
      /\ \A i \in 1..Len(items) : lines[i].line = items[i].line
  <2>1. \A i \in 1..Len(items) : [line |-> items[i].line, quantity |-> items[i].quantity]
                                    \in ReceiptLines(Len(shipLines))
    BY <1>6, <1>7 DEF ReceiptLines
  <2> QED
    BY <1>3, <1>7, <2>1
<1>9. PICK receipt : receipt = [shipment |-> s, is_deleted |-> FALSE, lines |-> lines]
  OBVIOUS
<1>10. /\ receipt \in ReceiptRecords(Len(shipments), Len(shipLines))
       /\ receipt.shipment = s /\ receipt.lines = lines
  BY <1>6, <1>8, <1>9 DEF ReceiptRecords
<1>11. /\ receipts' \in Seq(ReceiptRecords(Len(shipments), Len(shipLines)))
       /\ Len(receipts') = r /\ r \in DOMAIN receipts' /\ receipts'[r] = receipt
       /\ \A t \in DOMAIN receipts : t \in DOMAIN receipts' /\ receipts'[t] = receipts[t]
       /\ \A t \in DOMAIN receipts' : t \in DOMAIN receipts \/ t = r
  <2>1. receipts \in Seq(ReceiptRecords(Len(shipments), Len(shipLines)))
    BY <1>2 DEF RecordsFit
  <2>2. receipts' = Append(receipts, receipt)
    BY <1>4, <1>9
  <2> QED
    BY <1>3, <1>6, <1>10, <2>1, <2>2, AppendProperties
<1>12. RecordsFit'
  BY <1>2, <1>4, <1>11 DEF RecordsFit
<1>13. RecordsGrow
  BY <1>4, <1>11 DEF RecordsGrow
<1>14. RecordsAgree'
  <2>1. ASSUME NEW t \in DOMAIN receipts'
        PROVE  /\ shipments[receipts'[t].shipment].shipped
               /\ ~receipts'[t].is_deleted => Live(receipts'[t].shipment)
               /\ \A i \in DOMAIN receipts'[t].lines :
                     shipLines[receipts'[t].lines[i].line].shipment = receipts'[t].shipment
    <3>1. CASE t \in DOMAIN receipts
      BY <1>2, <1>11, <3>1 DEF RecordsAgree
    <3>2. CASE t = r
      BY <1>5, <1>7, <1>8, <1>10, <1>11, <3>2
    <3> QED
      BY <1>11, <3>1, <3>2
  <2>2. /\ \A t \in DOMAIN shipments : shipments[t].from # shipments[t].to
        /\ \A l \in DOMAIN shipLines : ~shipLines[l].is_deleted => Live(shipLines[l].shipment)
    BY <1>2 DEF RecordsAgree
  <2> QED
    BY <1>4, <2>1, <2>2 DEF RecordsAgree, Live
<1>15. \E moves : moves \in Seq(Rows) /\ StepPosts(moves)
  <2>1. PICK moves \in Seq(Rows), legs \in Seq(Legs) :
           /\ ledger' = ledger \o moves /\ Sound(Book)'
           /\ ReceiptLegsOf(legs, items)
           /\ MovesOf(moves, "SHIPMENT_RECEIPT", r, legs)
    BY <1>4, <1>6, ReceivingPosts
  <2>2. ASSUME NEW k \in 1..Len(moves)
        PROVE  /\ RowFits(moves[k])'
               /\ moves[k].stype \in ShipTypes /\ moves[k].line \in DOMAIN shipLines
                     => Live(shipLines[moves[k].line].shipment)
    <3>1. PICK row : row = moves[k]
      OBVIOUS
    <3>2. row.sid = r /\ \E i \in 1..Len(items) : row.line = items[i].line
      BY <2>1, <3>1 DEF ReceiptLegsOf, MovesOf
    <3>3. row.line \in DOMAIN shipLines /\ shipLines[row.line].shipment = s
      BY <1>5, <1>7, <3>2
    <3>4. RowFits(row)'
      BY <1>4, <1>5, <1>10, <1>11, <3>2, <3>3 DEF RowFits
    <3> QED
      BY <1>5, <3>1, <3>3, <3>4 DEF RowFits
  <2> QED
    BY <1>4, <1>13, <2>1, <2>2 DEF StepPosts
<1>16. \A l \in DOMAIN shipLines :
          Live(shipLines[l].shipment) => Live(shipLines[l].shipment)'
  BY <1>4 DEF Live
<1> QED
  BY <1>12, <1>13, <1>14, <1>15, <1>16, PostingKeeps

\* The items a request loads.
LEMMA LoadedType ==
    ASSUME RecordsFit, NEW payload \in Requests(ReceiptItems)
    PROVE  Loaded(payload) \in Seq(LoadedItems(Len(shipLines)))
<1>1. PICK n \in Nat : payload \in [1..n -> ReceiptItems]
  BY DEF Requests
<1>2. \A i \in 1..n : /\ payload[i].line \in DOMAIN shipLines
                      /\ payload[i].quantity \in Quantities
  BY <1>1 DEF ReceiptItems
<1>3. /\ DOMAIN shipLines = 1..Len(shipLines)
      /\ \A l \in DOMAIN shipLines : shipLines[l].product \in Products
  BY RecordTypes
<1>4. \A i \in 1..n : [line |-> payload[i].line, quantity |-> payload[i].quantity,
                       product |-> shipLines[payload[i].line].product]
                          \in LoadedItems(Len(shipLines))
  BY <1>2, <1>3 DEF LoadedItems
<1>5. DOMAIN payload = 1..n
  BY <1>1
<1> QED
  BY <1>4, <1>5 DEF Loaded

\* A receipt whose request reads its lines as it posts.
LEMMA ReceiveNowKeeps ==
    ASSUME Inv, Receive
    PROVE  Inv' /\ RecordsGrow
<1>1. PICK s \in DOMAIN shipments, payload \in Requests(ReceiptItems) : ReceiveNow(s, payload)
  BY DEF Receive
<1>2. ReceiveShipment(s, Loaded(payload)) /\ inFlight' = inFlight
  BY <1>1 DEF ReceiveNow
<1>3. Loaded(payload) \in Seq(LoadedItems(Len(shipLines)))
  BY LoadedType DEF Inv
<1> QED
  BY <1>2, <1>3, ReceiveKeeps

\* What changes nothing but the requests that wait keeps the invariant.
LEMMA WaitingKeeps ==
    ASSUME Inv, UNCHANGED <<ledger, balance, shipments, shipLines, receipts>>,
           inFlight' \subseteq LoadedRequests(Len(shipments), Len(shipLines))
    PROVE  Inv' /\ RecordsGrow
<1>1. /\ ledger' = ledger /\ balance' = balance /\ shipments' = shipments
      /\ shipLines' = shipLines /\ receipts' = receipts
  OBVIOUS
<1>2. RecordsFit'
  BY <1>1 DEF Inv, RecordsFit
<1>3. RecordsGrow
  BY <1>1 DEF RecordsGrow
<1>4. Sound(Book)'
  BY <1>1, QuietStep
<1>5. RecordsAgree'
  BY <1>1 DEF Inv, RecordsAgree, Live
<1>6. RowsFit'
  BY <1>1 DEF Inv, RowsFit, RowFits
<1>7. DeadHoldNothing'
  BY <1>1 DEF Inv, DeadHoldNothing, Live
<1> QED
  BY <1>2, <1>3, <1>4, <1>5, <1>6, <1>7 DEF Inv

\* A request that loads its lines and waits.
LEMMA LoadKeeps ==
    ASSUME Inv, Load
    PROVE  Inv' /\ RecordsGrow
<1>1. PICK s \in DOMAIN shipments, payload \in Requests(ReceiptItems) : LoadReceipt(s, payload)
  BY DEF Load
<1>2. /\ inFlight' = inFlight \union {[shipment |-> s, items |-> Loaded(payload)]}
      /\ UNCHANGED <<ledger, balance, shipments, shipLines, receipts>>
  BY <1>1 DEF LoadReceipt
<1>3. RecordsFit
  BY DEF Inv
<1>4. Loaded(payload) \in Seq(LoadedItems(Len(shipLines))) /\ s \in 1..Len(shipments)
  BY <1>3, LoadedType, RecordTypes
<1>5. [shipment |-> s, items |-> Loaded(payload)]
         \in LoadedRequests(Len(shipments), Len(shipLines))
  BY <1>4 DEF LoadedRequests
<1>6. inFlight \subseteq LoadedRequests(Len(shipments), Len(shipLines))
  BY <1>3 DEF RecordsFit
<1> QED
  BY <1>2, <1>5, <1>6, WaitingKeeps

\* A request that waited gets the lock, or is refused.
LEMMA ResumeKeeps ==
    ASSUME Inv, Resume
    PROVE  Inv' /\ RecordsGrow
<1>1. PICK request \in inFlight : ReceiveLoaded(request) \/ RefuseLoaded(request)
  BY DEF Resume
<1>2. RecordsFit
  BY DEF Inv
<1>3. inFlight \subseteq LoadedRequests(Len(shipments), Len(shipLines))
  BY <1>2 DEF RecordsFit
<1>4. CASE ReceiveLoaded(request)
  <2>1. /\ ReceiveShipment(request.shipment, request.items)
        /\ inFlight' \subseteq inFlight
    BY <1>4 DEF ReceiveLoaded
  <2>2. /\ request.shipment \in DOMAIN shipments
        /\ request.items \in Seq(LoadedItems(Len(shipLines)))
    BY <1>2, <1>3, RecordTypes DEF LoadedRequests
  <2> QED
    BY <2>1, <2>2, ReceiveKeeps
<1>5. CASE RefuseLoaded(request)
  <2>1. /\ inFlight' \subseteq inFlight
        /\ UNCHANGED <<ledger, balance, shipments, shipLines, receipts>>
    BY <1>5 DEF RefuseLoaded
  <2> QED
    BY <1>3, <2>1, WaitingKeeps
<1> QED
  BY <1>1, <1>4, <1>5

\* A receipt undone.
LEMMA UndoReceiptKeeps ==
    ASSUME Inv, UndoReceipt
    PROVE  Inv' /\ RecordsGrow
<1>1. PICK r \in DOMAIN receipts, confirm \in Confirms : DeleteReceipt(r, confirm)
  BY DEF UndoReceipt
<1>2. RecordsFit /\ RecordsAgree
  BY DEF Inv
<1>3. PICK rows : rows = SourceRows(ledger, "SHIPMENT_RECEIPT", r)
  OBVIOUS
<1>4. /\ ~receipts[r].is_deleted
      /\ Post(ReversalMovements(rows), confirm)
      /\ receipts' = [receipts EXCEPT ![r].is_deleted = TRUE]
      /\ shipments' = shipments /\ shipLines' = shipLines /\ inFlight' = inFlight
  BY <1>1, <1>3 DEF DeleteReceipt
<1>5. /\ Len(receipts) \in Nat /\ DOMAIN receipts = 1..Len(receipts)
      /\ receipts \in Seq(ReceiptRecords(Len(shipments), Len(shipLines)))
      /\ receipts[r] \in ReceiptRecords(Len(shipments), Len(shipLines))
      /\ receipts[r].shipment \in DOMAIN shipments
  BY <1>2, RecordTypes DEF RecordsFit
<1>6. /\ receipts' \in Seq(ReceiptRecords(Len(shipments), Len(shipLines)))
      /\ DOMAIN receipts' = DOMAIN receipts
      /\ receipts'[r].is_deleted
      /\ \A t \in DOMAIN receipts : /\ receipts'[t].shipment = receipts[t].shipment
                                    /\ receipts'[t].lines = receipts[t].lines
                                    /\ receipts[t].is_deleted => receipts'[t].is_deleted
  <2>1. PICK old \in ReceiptRecords(Len(shipments), Len(shipLines)) : old = receipts[r]
    BY <1>5
  <2>2. PICK now : now = [old EXCEPT !.is_deleted = TRUE]
    OBVIOUS
  <2>3. /\ now \in ReceiptRecords(Len(shipments), Len(shipLines))
        /\ now.is_deleted /\ now.shipment = old.shipment /\ now.lines = old.lines
    BY <2>2 DEF ReceiptRecords
  <2>4. receipts' = [receipts EXCEPT ![r] = now]
    BY <1>4, <2>1, <2>2
  <2> QED
    BY <1>5, <2>1, <2>3, <2>4
<1>7. RecordsFit'
  BY <1>2, <1>4, <1>6 DEF RecordsFit
<1>8. RecordsGrow
  BY <1>4, <1>6 DEF RecordsGrow
<1>9. RecordsAgree'
  BY <1>2, <1>4, <1>6 DEF RecordsAgree, Live
<1>10. \E moves : moves \in Seq(Rows) /\ StepPosts(moves)
  <2>1. PICK moves : moves = ReversalMovements(rows)
    OBVIOUS
  <2>2. moves \in Seq(Rows) /\ ledger' = ledger \o moves /\ Sound(Book)'
    BY <1>4, <2>1, PostStep
  <2>3. ledger \in Seq(Rows)
    BY DEF Inv, Sound, Book
  <2>4. /\ rows \in Seq(Rows)
        /\ \A k \in 1..Len(rows) :
              \E i \in DOMAIN ledger : /\ ledger[i].stype = "SHIPMENT_RECEIPT"
                                       /\ ledger[i].sid = r
                                       /\ rows[k] = ledger[i]
    <3>1. PICK I : I = {i \in DOMAIN ledger : /\ ledger[i].stype = "SHIPMENT_RECEIPT"
                                              /\ ledger[i].sid = r}
      OBVIOUS
    <3>2. rows = Kept(ledger, I)
      BY <1>3, <3>1 DEF SourceRows
    <3>3. /\ rows \in Seq(Rows)
          /\ \A k \in 1..Len(rows) : \E i \in 1..Len(ledger) : i \in I /\ rows[k] = ledger[i]
      BY <2>3, <3>2, KeptType
    <3> QED
      BY <3>1, <3>3
  <2>5. \A k \in 1..Len(moves) : \E j \in 1..Len(rows) : SameRecord(moves[k], rows[j])
    BY <2>1, <2>4, ReversalFacts
  <2>6. ASSUME NEW k \in 1..Len(moves)
        PROVE  /\ RowFits(moves[k])'
               /\ moves[k].stype \in ShipTypes /\ moves[k].line \in DOMAIN shipLines
                     => Live(shipLines[moves[k].line].shipment)
    <3>1. PICK j \in 1..Len(rows) : SameRecord(moves[k], rows[j])
      BY <2>5
    <3>2. PICK i \in DOMAIN ledger : /\ ledger[i].stype = "SHIPMENT_RECEIPT" /\ ledger[i].sid = r
                                     /\ rows[j] = ledger[i]
      BY <2>4
    <3>3. PICK row, old : row = moves[k] /\ old = ledger[i]
      OBVIOUS
    <3>4. /\ row.stype = "SHIPMENT_RECEIPT" /\ row.sid = r /\ row.line = old.line
          /\ old.stype = "SHIPMENT_RECEIPT" /\ old.sid = r
      BY <3>1, <3>2, <3>3 DEF SameRecord
    <3>5. RowFits(old)
      BY <3>3 DEF Inv, RowsFit
    <3>6. RowFits(row)
      BY <3>4, <3>5 DEF RowFits
    <3>7. RowFits(row)'
      BY <1>2, <1>8, <3>6, GrowKeepsFit
    <3>8. Live(receipts[r].shipment) /\ receipts[r].shipment = shipLines[row.line].shipment
      BY <1>2, <1>4, <3>4, <3>6 DEF RowFits, RecordsAgree, ShipTypes
    <3> QED
      BY <3>3, <3>7, <3>8 DEF RowFits
  <2> QED
    BY <1>4, <1>8, <2>2, <2>6 DEF StepPosts
<1>11. \A l \in DOMAIN shipLines :
          Live(shipLines[l].shipment) => Live(shipLines[l].shipment)'
  BY <1>4 DEF Live
<1> QED
  BY <1>7, <1>8, <1>9, <1>10, <1>11, PostingKeeps

\* The rows a deletion reverses.
LEMMA RowsOfFacts ==
    ASSUME Sound(Book), NEW s
    PROVE  /\ RowsOf(s) \in Seq(Rows)
           /\ \A k \in 1..Len(RowsOf(s)) :
                 \E i \in DOMAIN ledger : \E l \in DOMAIN shipLines :
                    /\ shipLines[l].shipment = s /\ OfLine(ledger[i], l)
                    /\ RowsOf(s)[k] = ledger[i]
           /\ \A l \in DOMAIN shipLines : shipLines[l].shipment = s =>
                 \A S : S \subseteq RowsOn(l) => NetIn(RowsOf(s), S) = NetIn(ledger, S)
<1>1. ledger \in Seq(Rows)
  BY DEF Sound, Book
<1>2. PICK I : I = {i \in DOMAIN ledger : \E l \in DOMAIN shipLines :
                                            shipLines[l].shipment = s /\ OfLine(ledger[i], l)}
  OBVIOUS
<1>3. RowsOf(s) = Kept(ledger, I)
  BY <1>2 DEF RowsOf
<1>4. /\ RowsOf(s) \in Seq(Rows)
      /\ \A k \in 1..Len(RowsOf(s)) :
            \E i \in 1..Len(ledger) : i \in I /\ RowsOf(s)[k] = ledger[i]
  BY <1>1, <1>3, KeptType
<1>5. ASSUME NEW l \in DOMAIN shipLines, shipLines[l].shipment = s,
             NEW S, S \subseteq RowsOn(l)
      PROVE  NetIn(RowsOf(s), S) = NetIn(ledger, S)
  <2>1. \A i \in 1..Len(ledger) : i \in I /\ ledger[i] \in S <=> ledger[i] \in S
    BY <1>1, <1>2, <1>5 DEF RowsOn
  <2> QED
    BY <1>1, <1>3, <2>1, KeptNetAs
<1> QED
  BY <1>2, <1>4, <1>5

\* Taking back all that the rows of a shipment say leaves nothing of its lines.
LEMMA DeletionEmpties ==
    ASSUME Sound(Book), NEW s, NEW moves, moves = ReversalMovements(RowsOf(s)),
           NEW l \in DOMAIN shipLines, shipLines[l].shipment = s,
           NEW S, Blind(S), S \subseteq RowsOn(l)
    PROVE  NetIn(ledger \o moves, S) = NoStock
<1>1. ledger \in Seq(Rows)
  BY DEF Sound, Book
<1>2. PICK rows \in Seq(Rows) : rows = RowsOf(s)
  BY RowsOfFacts
<1>3. NetIn(rows, S) = NetIn(ledger, S)
  BY <1>2, RowsOfFacts
<1>4. /\ moves \in Seq(Rows)
      /\ NetIn(moves, S).qty = -NetIn(rows, S).qty /\ NetIn(moves, S).aed = -NetIn(rows, S).aed
  BY <1>2, ReversalFacts
<1>5. NetIn(ledger \o moves, S) = Plus(NetIn(ledger, S), NetIn(moves, S))
  BY <1>1, <1>4, NetInConcat
<1>6. NetIn(ledger, S) \in [qty: Int, aed: Int]
  BY <1>1, NetInType
<1>7. PICK net \in [qty: Int, aed: Int] : net = NetIn(ledger, S)
  BY <1>6
<1>8. NetIn(moves, S).qty = -net.qty /\ NetIn(moves, S).aed = -net.aed
  BY <1>3, <1>4, <1>7
<1>9. net.qty \in Int /\ net.aed \in Int
  OBVIOUS
<1>10. net.qty + (-net.qty) = 0 /\ net.aed + (-net.aed) = 0
  BY <1>9
<1>11. Plus(net, NetIn(moves, S)) = NoStock
  BY <1>8, <1>10 DEF Plus, NoStock
<1> QED
  BY <1>5, <1>7, <1>11

\* A shipment deleted.
LEMMA DeleteKeeps ==
    ASSUME Inv, Delete
    PROVE  Inv' /\ RecordsGrow
<1>1. PICK s \in DOMAIN shipments, confirm \in Confirms : SoftDeleteShipment(s, confirm)
  BY DEF Delete
<1>2. RecordsFit /\ RecordsAgree /\ Sound(Book)
  BY DEF Inv
<1>3. PICK moves : moves = ReversalMovements(RowsOf(s))
  OBVIOUS
<1>4. /\ Live(s)
      /\ IF moves = << >> THEN Install(Book) ELSE Post(moves, confirm)
      /\ shipments' = [shipments EXCEPT ![s].is_deleted = TRUE]
      /\ shipLines' = [i \in DOMAIN shipLines |->
                         IF shipLines[i].shipment = s
                         THEN [shipLines[i] EXCEPT !.is_deleted = TRUE] ELSE shipLines[i]]
      /\ receipts' = [i \in DOMAIN receipts |->
                         IF receipts[i].shipment = s
                         THEN [receipts[i] EXCEPT !.is_deleted = TRUE] ELSE receipts[i]]
      /\ inFlight' = inFlight
  BY <1>1, <1>3 DEF SoftDeleteShipment
<1>5. /\ Len(shipments) \in Nat /\ DOMAIN shipments = 1..Len(shipments)
      /\ Len(shipLines) \in Nat /\ DOMAIN shipLines = 1..Len(shipLines)
      /\ Len(receipts) \in Nat /\ DOMAIN receipts = 1..Len(receipts)
      /\ shipments \in Seq(ShipmentRecords) /\ shipments[s] \in ShipmentRecords
  BY <1>2, RecordTypes DEF RecordsFit
<1>6. /\ shipments' \in Seq(ShipmentRecords) /\ Len(shipments') = Len(shipments)
      /\ DOMAIN shipments' = DOMAIN shipments
      /\ shipments'[s].is_deleted
      /\ \A t \in DOMAIN shipments : /\ shipments'[t].from = shipments[t].from
                                     /\ shipments'[t].to = shipments[t].to
                                     /\ shipments'[t].shipped = shipments[t].shipped
                                     /\ t # s => shipments'[t] = shipments[t]
  <2>1. PICK old \in ShipmentRecords : old = shipments[s]
    BY <1>5
  <2>2. PICK now : now = [old EXCEPT !.is_deleted = TRUE]
    OBVIOUS
  <2>3. now \in ShipmentRecords /\ now.is_deleted /\ now.from = old.from /\ now.to = old.to
        /\ now.shipped = old.shipped
    BY <2>2 DEF ShipmentRecords
  <2>4. shipments' = [shipments EXCEPT ![s] = now]
    BY <1>4, <2>1, <2>2
  <2> QED
    BY <1>5, <2>1, <2>3, <2>4
<1>7. /\ shipLines' \in Seq(ShipLineRecords(Len(shipments))) /\ Len(shipLines') = Len(shipLines)
      /\ DOMAIN shipLines' = DOMAIN shipLines
      /\ \A l \in DOMAIN shipLines :
            /\ shipLines'[l].shipment = shipLines[l].shipment
            /\ shipLines'[l].product = shipLines[l].product
            /\ shipLines'[l].quantity = shipLines[l].quantity
            /\ shipLines[l].is_deleted => shipLines'[l].is_deleted
            /\ shipLines[l].shipment = s => shipLines'[l].is_deleted
  <2>1. ASSUME NEW l \in DOMAIN shipLines
        PROVE  /\ shipLines'[l] \in ShipLineRecords(Len(shipments))
               /\ shipLines'[l].shipment = shipLines[l].shipment
               /\ shipLines'[l].product = shipLines[l].product
               /\ shipLines'[l].quantity = shipLines[l].quantity
               /\ shipLines[l].is_deleted => shipLines'[l].is_deleted
               /\ shipLines[l].shipment = s => shipLines'[l].is_deleted
    <3>1. PICK old \in ShipLineRecords(Len(shipments)) : old = shipLines[l]
      BY <1>2, RecordTypes
    <3>2. PICK now : now = [old EXCEPT !.is_deleted = TRUE]
      OBVIOUS
    <3>3. /\ now \in ShipLineRecords(Len(shipments)) /\ now.is_deleted
          /\ now.shipment = old.shipment /\ now.product = old.product
          /\ now.quantity = old.quantity
      BY <3>2 DEF ShipLineRecords
    <3>4. shipLines'[l] = IF old.shipment = s THEN now ELSE old
      BY <1>4, <3>1, <3>2
    <3> QED
      BY <3>1, <3>3, <3>4
  <2>2. DOMAIN shipLines' = 1..Len(shipLines)
        /\ shipLines' = [l \in 1..Len(shipLines) |-> shipLines'[l]]
    BY <1>4, <1>5
  <2> QED
    BY <1>5, <2>1, <2>2
<1>8. /\ receipts' \in Seq(ReceiptRecords(Len(shipments), Len(shipLines)))
      /\ DOMAIN receipts' = DOMAIN receipts
      /\ \A r \in DOMAIN receipts :
            /\ receipts'[r].shipment = receipts[r].shipment
            /\ receipts'[r].lines = receipts[r].lines
            /\ receipts[r].is_deleted => receipts'[r].is_deleted
            /\ receipts[r].shipment = s => receipts'[r].is_deleted
  <2>1. ASSUME NEW r \in DOMAIN receipts
        PROVE  /\ receipts'[r] \in ReceiptRecords(Len(shipments), Len(shipLines))
               /\ receipts'[r].shipment = receipts[r].shipment
               /\ receipts'[r].lines = receipts[r].lines
               /\ receipts[r].is_deleted => receipts'[r].is_deleted
               /\ receipts[r].shipment = s => receipts'[r].is_deleted
    <3>1. PICK old \in ReceiptRecords(Len(shipments), Len(shipLines)) : old = receipts[r]
      BY <1>2, RecordTypes
    <3>2. PICK now : now = [old EXCEPT !.is_deleted = TRUE]
      OBVIOUS
    <3>3. /\ now \in ReceiptRecords(Len(shipments), Len(shipLines)) /\ now.is_deleted
          /\ now.shipment = old.shipment /\ now.lines = old.lines
      BY <3>2 DEF ReceiptRecords
    <3>4. receipts'[r] = IF old.shipment = s THEN now ELSE old
      BY <1>4, <3>1, <3>2
    <3> QED
      BY <3>1, <3>3, <3>4
  <2>2. DOMAIN receipts' = 1..Len(receipts)
        /\ receipts' = [r \in 1..Len(receipts) |-> receipts'[r]]
    BY <1>4, <1>5
  <2> QED
    BY <1>5, <2>1, <2>2
<1>9. RecordsFit'
  BY <1>2, <1>4, <1>6, <1>7, <1>8 DEF RecordsFit
<1>10. RecordsGrow
  BY <1>6, <1>7, <1>8 DEF RecordsGrow
<1>11. RecordsAgree'
  <2>1. \A t \in DOMAIN shipments' : shipments'[t].from # shipments'[t].to
    BY <1>2, <1>6 DEF RecordsAgree
  <2>2. ASSUME NEW l \in DOMAIN shipLines', ~shipLines'[l].is_deleted
        PROVE  ~shipments'[shipLines'[l].shipment].is_deleted
    <3>1. PICK t \in DOMAIN shipments : t = shipLines[l].shipment
      BY <1>2, <1>7, RecordTypes
    <3>2. t # s /\ ~shipments[t].is_deleted
      BY <1>2, <1>7, <2>2, <3>1 DEF RecordsAgree, Live
    <3> QED
      BY <1>6, <1>7, <3>1, <3>2
  <2>3. ASSUME NEW r \in DOMAIN receipts'
        PROVE  /\ shipments'[receipts'[r].shipment].shipped
               /\ ~receipts'[r].is_deleted => ~shipments'[receipts'[r].shipment].is_deleted
               /\ \A i \in DOMAIN receipts'[r].lines :
                     shipLines'[receipts'[r].lines[i].line].shipment = receipts'[r].shipment
    <3>1. PICK t \in DOMAIN shipments : t = receipts[r].shipment
      BY <1>2, <1>8, RecordTypes
    <3>2. r \in DOMAIN receipts /\ receipts'[r].shipment = t /\ receipts'[r].lines = receipts[r].lines
      BY <1>8, <3>1
    <3>3. /\ shipments[t].shipped /\ (~receipts[r].is_deleted => ~shipments[t].is_deleted)
          /\ \A i \in DOMAIN receipts[r].lines : shipLines[receipts[r].lines[i].line].shipment = t
      BY <1>2, <3>1, <3>2 DEF RecordsAgree, Live
    <3>4. \A i \in DOMAIN receipts[r].lines : receipts[r].lines[i].line \in DOMAIN shipLines
      BY <1>2, <3>2, ReceiptNames
    <3>5. shipments'[t].shipped /\ (~receipts'[r].is_deleted => ~shipments'[t].is_deleted)
      BY <1>6, <1>8, <3>1, <3>2, <3>3
    <3>6. \A i \in DOMAIN receipts[r].lines : shipLines'[receipts[r].lines[i].line].shipment = t
      BY <1>7, <3>3, <3>4
    <3> QED
      BY <3>2, <3>5, <3>6
  <2> QED
    BY <2>1, <2>2, <2>3 DEF RecordsAgree, Live
<1>12. moves \in Seq(Rows) /\ ledger' = ledger \o moves /\ Sound(Book)'
  <2>1. CASE moves = << >>
    <3>1. ledger' = ledger /\ balance' = balance
      BY <1>4, <2>1 DEF Install, Book
    <3> QED
      BY <2>1, <3>1, QuietStep
  <2>2. CASE moves # << >>
    BY <1>4, <2>2, PostStep
  <2> QED
    BY <2>1, <2>2
<1>13. ASSUME NEW k \in 1..Len(moves)
       PROVE  /\ RowFits(moves[k])'
              /\ moves[k].stype \in ShipTypes /\ moves[k].line \in DOMAIN shipLines
                    => Live(shipLines[moves[k].line].shipment)
  <2>1. PICK rows \in Seq(Rows) : rows = RowsOf(s)
    BY <1>2, RowsOfFacts
  <2>2. PICK j \in 1..Len(rows) : SameRecord(moves[k], rows[j])
    <3>1. \E j \in 1..Len(rows) : SameRecord(moves[k], rows[j])
      BY <1>3, <2>1, ReversalFacts
    <3> QED
      BY <3>1
  <2>3. \E i \in DOMAIN ledger : \E l \in DOMAIN shipLines :
           /\ shipLines[l].shipment = s /\ OfLine(ledger[i], l) /\ rows[j] = ledger[i]
    BY <1>2, <2>1, <2>2, RowsOfFacts
  <2>4. PICK i \in DOMAIN ledger : \E l \in DOMAIN shipLines :
           /\ shipLines[l].shipment = s /\ OfLine(ledger[i], l) /\ rows[j] = ledger[i]
    BY <2>3
  <2>5. PICK row, old : row = moves[k] /\ old = ledger[i]
    OBVIOUS
  <2>6. /\ row.stype = old.stype /\ row.sid = old.sid /\ row.line = old.line
        /\ shipLines[old.line].shipment = s
    BY <2>2, <2>4, <2>5 DEF SameRecord, OfLine
  <2>7. RowFits(old)
    BY <2>5 DEF Inv, RowsFit
  <2>8. RowFits(row)
    BY <2>6, <2>7 DEF RowFits
  <2>9. RowFits(row)'
    BY <1>2, <1>10, <2>8, GrowKeepsFit
  <2> QED
    BY <1>4, <2>5, <2>6, <2>9 DEF RowFits
<1>14. StepPosts(moves)
  BY <1>7, <1>10, <1>12, <1>13 DEF StepPosts
<1>15. ASSUME NEW l \in DOMAIN shipLines,
              Live(shipLines[l].shipment), ~Live(shipLines[l].shipment)',
              NEW S, Blind(S), S \subseteq RowsOn(l)
       PROVE  NetIn(ledger', S) = NoStock
  <2>1. shipLines[l].shipment = s
    <3>1. PICK t \in DOMAIN shipments : t = shipLines[l].shipment
      BY <1>2, RecordTypes
    <3> QED
      BY <1>6, <1>7, <1>15, <3>1 DEF Live
  <2> QED
    BY <1>2, <1>3, <1>12, <1>15, <2>1, DeletionEmpties
<1> QED
  BY <1>9, <1>10, <1>11, <1>12, <1>14, <1>15, PostingKeeps

-----------------------------------------------------------------------------
(* Editing a draft *)

\* The recursion equation of EditsInTurn.
AreEdits(f, s, payload, n) ==
    f = [k \in 0..n |-> IF k = 0 THEN [ok |-> TRUE, lines |-> shipLines]
                        ELSE EditItem(f[k - 1], s, payload[k])]

\* It has a solution up to every length.
LEMMA EditsExist ==
    ASSUME NEW s, NEW payload
    PROVE  \A n \in Nat : \E f : AreEdits(f, s, payload, n)
<1> DEFINE T == {n \in Nat : \E f : AreEdits(f, s, payload, n)}
           start == [ok |-> TRUE, lines |-> shipLines]
           Item(edit, k) == EditItem(edit, s, payload[k])
<1>1. 0 \in T
  <2>1. AreEdits([k \in 0..0 |-> start], s, payload, 0)
    BY DEF AreEdits
  <2> QED
    BY <2>1
<1>2. ASSUME NEW n \in Nat, n \in T PROVE n + 1 \in T
  <2>1. PICK f : AreEdits(f, s, payload, n)
    BY <1>2
  <2>2. f = [k \in 0..n |-> IF k = 0 THEN start ELSE Item(f[k - 1], k)]
    BY <2>1 DEF AreEdits
  <2> HIDE DEF Item, start
  <2> DEFINE g == [k \in 0..(n + 1) |-> IF k = n + 1 THEN Item(f[n], n + 1) ELSE f[k]]
  <2>3. \A k \in 0..n : f[k] = IF k = 0 THEN start ELSE Item(f[k - 1], k)
    BY <2>2
  <2>4. \A k \in 0..(n + 1) : g[k] = IF k = 0 THEN start ELSE Item(g[k - 1], k)
    BY <2>3
  <2>5. g = [k \in 0..(n + 1) |-> IF k = 0 THEN start ELSE Item(g[k - 1], k)]
    BY <2>4
  <2> HIDE DEF g
  <2>6. AreEdits(g, s, payload, n + 1)
    BY <2>5 DEF AreEdits, Item, start
  <2> QED
    BY <2>6
<1> HIDE DEF T
<1>3. \A n \in Nat : n \in T
  BY <1>1, <1>2, NatSetInduction
<1> QED
  BY <1>3 DEF T

\* EditsInTurn is such a solution.
LEMMA EditsEquation ==
    ASSUME NEW s, NEW payload, Len(payload) \in Nat
    PROVE  \A k \in 0..Len(payload) :
              EditsInTurn(s, payload)[k] =
                 IF k = 0 THEN [ok |-> TRUE, lines |-> shipLines]
                 ELSE EditItem(EditsInTurn(s, payload)[k - 1], s, payload[k])
<1> DEFINE edit[n \in 0..Len(payload)] ==
               IF n = 0 THEN [ok |-> TRUE, lines |-> shipLines]
                        ELSE EditItem(edit[n - 1], s, payload[n])
<1>1. \E f : f = [n \in 0..Len(payload) |->
                     IF n = 0 THEN [ok |-> TRUE, lines |-> shipLines]
                              ELSE EditItem(f[n - 1], s, payload[n])]
  <2>1. PICK f : AreEdits(f, s, payload, Len(payload))
    BY EditsExist
  <2> QED
    BY <2>1 DEF AreEdits
<1>2. edit = [n \in 0..Len(payload) |->
                 IF n = 0 THEN [ok |-> TRUE, lines |-> shipLines]
                          ELSE EditItem(edit[n - 1], s, payload[n])]
  BY <1>1
<1>3. EditsInTurn(s, payload) = edit
  BY DEF EditsInTurn
<1> HIDE DEF edit
<1> QED
  BY <1>2, <1>3

\* What an edit of shipment s may make of the table of lines: lines of s are added
\* and changed, the others stay.
EditOf(lines, s) ==
    /\ lines \in Seq(ShipLineRecords(Len(shipments)))
    /\ Len(lines) >= Len(shipLines)
    /\ \A l \in DOMAIN shipLines : /\ lines[l].shipment = shipLines[l].shipment
                                   /\ l \notin LinesOf(shipLines, s) => lines[l] = shipLines[l]
    /\ \A l \in DOMAIN lines \ DOMAIN shipLines : lines[l].shipment = s

EditStates(s) ==
    {edit \in [ok: BOOLEAN, lines: Seq(ShipLineRecords(Len(shipments)))] : EditOf(edit.lines, s)}

\* One item of an edit.
LEMMA EditItemFacts ==
    ASSUME RecordsFit, NEW s \in DOMAIN shipments, NEW edit \in EditStates(s),
           NEW item \in EditItems
    PROVE  EditItem(edit, s, item) \in EditStates(s)
<1>1. PICK lines \in Seq(ShipLineRecords(Len(shipments))) : lines = edit.lines /\ EditOf(lines, s)
  BY DEF EditStates
<1>2. PICK new : new = NewShipLine(s, item.terms)
  OBVIOUS
<1>3. new \in ShipLineRecords(Len(shipments)) /\ new.shipment = s
  <2>1. item.terms \in LineTerms /\ s \in 1..Len(shipments)
    BY RecordTypes DEF EditItems
  <2> QED
    BY <1>2, <2>1 DEF NewShipLine, LineTerms, ShipLineRecords
<1>4. /\ Len(lines) \in Nat /\ DOMAIN lines = 1..Len(lines) /\ Len(lines) >= Len(shipLines)
      /\ Len(shipLines) \in Nat /\ DOMAIN shipLines = 1..Len(shipLines)
  BY <1>1, RecordTypes DEF EditOf
<1>5. /\ edit.ok \in BOOLEAN
      /\ \A l \in DOMAIN shipLines : /\ lines[l].shipment = shipLines[l].shipment
                                     /\ l \notin LinesOf(shipLines, s) => lines[l] = shipLines[l]
      /\ \A l \in DOMAIN lines \ DOMAIN shipLines : lines[l].shipment = s
  BY <1>1 DEF EditStates, EditOf
<1>6. CASE item.id = 0
  <2>1. PICK more : more = Append(lines, new)
    OBVIOUS
  <2>2. /\ more \in Seq(ShipLineRecords(Len(shipments))) /\ Len(more) = Len(lines) + 1
        /\ \A l \in DOMAIN lines : more[l] = lines[l]
        /\ more[Len(lines) + 1] = new
    BY <1>1, <1>3, <2>1, AppendProperties
  <2>3. EditOf(more, s)
    <3>1. ASSUME NEW l \in DOMAIN more \ DOMAIN shipLines PROVE more[l].shipment = s
      <4>1. CASE l \in DOMAIN lines
        BY <1>5, <2>2, <3>1, <4>1
      <4>2. CASE l \notin DOMAIN lines
        <5>1. l = Len(lines) + 1
          BY <1>4, <2>2, <3>1, <4>2
        <5> QED
          BY <1>3, <2>2, <5>1
      <4> QED
        BY <4>1, <4>2
    <3>2. \A l \in DOMAIN shipLines : l \in DOMAIN lines
      BY <1>4
    <3> QED
      BY <1>4, <1>5, <2>2, <3>1, <3>2 DEF EditOf
  <2>4. EditItem(edit, s, item) = [ok |-> edit.ok, lines |-> more]
    <3>1. PICK changed : changed = Append(edit.lines, new)
      OBVIOUS
    <3>0. item.id \notin LinesOf(shipLines, s)
      BY <1>4, <1>6 DEF LinesOf
    <3>2. EditItem(edit, s, item) = [edit EXCEPT !.lines = changed]
      <4>1. EditItem(edit, s, item) = [edit EXCEPT !.lines = Append(edit.lines, new)]
        BY <1>2, <1>6, <3>0 DEF EditItem
      <4> QED
        BY <3>1, <4>1
    <3>3. [edit EXCEPT !.lines = changed] = [ok |-> edit.ok, lines |-> changed]
      BY DEF EditStates
    <3>4. changed = more
      BY <1>1, <2>1, <3>1
    <3> QED
      BY <3>2, <3>3, <3>4
  <2> QED
    BY <1>5, <2>2, <2>3, <2>4 DEF EditStates
<1>7. CASE item.id # 0 /\ item.id \in LinesOf(shipLines, s)
  <2>0. PICK l \in DOMAIN shipLines : l = item.id /\ shipLines[l].shipment = s
                                      /\ l \in LinesOf(shipLines, s)
    BY <1>7 DEF LinesOf
  <2>1. PICK more : more = [lines EXCEPT ![l] = new]
    OBVIOUS
  <2>2. /\ more \in Seq(ShipLineRecords(Len(shipments))) /\ Len(more) = Len(lines)
        /\ more[l] = new
        /\ \A k \in DOMAIN lines : k # l => more[k] = lines[k]
    BY <1>1, <1>3, <1>4, <2>1
  <2>3. EditOf(more, s)
    <3>1. ASSUME NEW k \in DOMAIN shipLines
          PROVE  /\ more[k].shipment = shipLines[k].shipment
                 /\ k \notin LinesOf(shipLines, s) => more[k] = shipLines[k]
      BY <1>3, <1>4, <1>5, <2>0, <2>2
    <3>2. ASSUME NEW k \in DOMAIN more \ DOMAIN shipLines PROVE more[k].shipment = s
      BY <1>4, <1>5, <2>0, <2>2, <3>2
    <3> QED
      BY <1>4, <2>2, <3>1, <3>2 DEF EditOf
  <2>4. EditItem(edit, s, item) = [ok |-> edit.ok, lines |-> more]
    <3>1. EditItem(edit, s, item) = [edit EXCEPT !.lines[item.id] = new]
      BY <1>2, <1>7 DEF EditItem
    <3>2. [edit EXCEPT !.lines[item.id] = new] = [edit EXCEPT !.lines = [edit.lines EXCEPT ![l] = new]]
      BY <2>0
    <3>3. PICK changed : changed = [edit.lines EXCEPT ![l] = new]
      OBVIOUS
    <3>4. changed = more
      BY <1>1, <2>1, <3>3
    <3>5. EditItem(edit, s, item) = [edit EXCEPT !.lines = changed]
      BY <3>1, <3>2, <3>3
    <3>6. [edit EXCEPT !.lines = changed] = [ok |-> edit.ok, lines |-> changed]
      BY DEF EditStates
    <3>7. EditItem(edit, s, item) = [ok |-> edit.ok, lines |-> changed]
      BY <3>5, <3>6
    <3> QED
      BY <3>4, <3>7
  <2> QED
    BY <1>5, <2>2, <2>3, <2>4 DEF EditStates
<1>8. CASE item.id # 0 /\ item.id \notin LinesOf(shipLines, s)
  <2>1. EditItem(edit, s, item) = [ok |-> FALSE, lines |-> lines]
    BY <1>1, <1>8 DEF EditItem, EditStates
  <2> QED
    BY <1>1, <2>1 DEF EditStates
<1> QED
  BY <1>6, <1>7, <1>8

\* A whole edit.
LEMMA EditFacts ==
    ASSUME RecordsFit, NEW s \in DOMAIN shipments, NEW payload \in Requests(EditItems)
    PROVE  EditOf(EditsInTurn(s, payload)[Len(payload)].lines, s)
<1> DEFINE edits == EditsInTurn(s, payload)
           T == {n \in Nat : n <= Len(payload) => edits[n] \in EditStates(s)}
<1>1. Len(payload) \in Nat /\ \A n \in 1..Len(payload) : payload[n] \in EditItems
  BY DEF Requests
<1>2. \A k \in 0..Len(payload) :
         edits[k] = IF k = 0 THEN [ok |-> TRUE, lines |-> shipLines]
                    ELSE EditItem(edits[k - 1], s, payload[k])
  BY <1>1, EditsEquation
<1> HIDE DEF edits
<1>3. 0 \in T
  <2>1. shipLines \in Seq(ShipLineRecords(Len(shipments)))
    BY DEF RecordsFit
  <2>2. EditOf(shipLines, s)
    BY <2>1 DEF EditOf
  <2>3. [ok |-> TRUE, lines |-> shipLines] \in EditStates(s)
    BY <2>1, <2>2 DEF EditStates
  <2> QED
    BY <1>1, <1>2, <2>3
<1>4. ASSUME NEW n \in Nat, n \in T PROVE n + 1 \in T
  <2>1. SUFFICES ASSUME n + 1 <= Len(payload) PROVE edits[n + 1] \in EditStates(s)
    OBVIOUS
  <2>2. n + 1 \in 1..Len(payload) /\ n + 1 \in 0..Len(payload) /\ (n + 1) - 1 = n /\ n + 1 # 0
        /\ n <= Len(payload)
    BY <1>1, <2>1
  <2>3. edits[n] \in EditStates(s)
    BY <1>4, <2>2
  <2>4. edits[n + 1] = EditItem(edits[n], s, payload[n + 1])
    BY <1>2, <2>2
  <2> QED
    BY <1>1, <2>2, <2>3, <2>4, EditItemFacts
<1> HIDE DEF T
<1>5. \A n \in Nat : n \in T
  BY <1>3, <1>4, NatSetInduction
<1>6. edits[Len(payload)] \in EditStates(s)
  BY <1>1, <1>5 DEF T
<1> QED
  BY <1>6 DEF edits, EditStates

\* A draft edited.
LEMMA UpdateKeeps ==
    ASSUME Inv, Update
    PROVE  Inv' /\ RecordsGrow
<1>1. PICK s \in DOMAIN shipments, route \in Routes, payload \in Requests(EditItems) :
         UpdateShipment(s, route, payload)
  BY DEF Update
<1>2. RecordsFit /\ RecordsAgree
  BY DEF Inv
<1>3. PICK lines, left : /\ lines = EditsInTurn(s, payload)[Len(payload)].lines
                         /\ left = LinesOf(shipLines, s) \ {payload[i].id : i \in DOMAIN payload}
  OBVIOUS
<1>4. /\ Live(s) /\ ~shipments[s].shipped
      /\ shipments' = [shipments EXCEPT ![s].from = route.from, ![s].to = route.to]
      /\ shipLines' = [l \in DOMAIN lines |->
                         IF l \in left THEN [lines[l] EXCEPT !.is_deleted = TRUE] ELSE lines[l]]
      /\ ledger' = ledger /\ balance' = balance /\ receipts' = receipts /\ inFlight' = inFlight
  BY <1>1, <1>3 DEF UpdateShipment
<1>5. /\ Len(shipments) \in Nat /\ DOMAIN shipments = 1..Len(shipments)
      /\ Len(shipLines) \in Nat /\ DOMAIN shipLines = 1..Len(shipLines)
      /\ shipments \in Seq(ShipmentRecords) /\ shipments[s] \in ShipmentRecords
  BY <1>2, RecordTypes DEF RecordsFit
<1>6. /\ route.from \in Locations /\ route.to \in Locations /\ route.from # route.to
  BY DEF Routes
<1>7. /\ shipments' \in Seq(ShipmentRecords) /\ Len(shipments') = Len(shipments)
      /\ DOMAIN shipments' = DOMAIN shipments
      /\ shipments'[s].from # shipments'[s].to
      /\ \A t \in DOMAIN shipments : /\ shipments'[t].shipped = shipments[t].shipped
                                     /\ shipments'[t].is_deleted = shipments[t].is_deleted
                                     /\ t # s => shipments'[t] = shipments[t]
  <2>1. PICK old \in ShipmentRecords : old = shipments[s]
    BY <1>5
  <2>2. PICK now : now = [old EXCEPT !.from = route.from, !.to = route.to]
    OBVIOUS
  <2>3. now \in ShipmentRecords /\ now.from # now.to
        /\ now.shipped = old.shipped /\ now.is_deleted = old.is_deleted
    BY <1>6, <2>2 DEF ShipmentRecords
  <2>4. shipments' = [shipments EXCEPT ![s] = now]
    <3>1. shipments' = [shipments EXCEPT ![s] = [[shipments[s] EXCEPT !.from = route.from]
                                                                EXCEPT !.to = route.to]]
      BY <1>4, <1>5
    <3> QED
      BY <2>1, <2>2, <3>1
  <2> QED
    BY <1>5, <2>1, <2>3, <2>4
<1>8. EditOf(lines, s)
  BY <1>2, <1>3, EditFacts
<1>9. /\ lines \in Seq(ShipLineRecords(Len(shipments))) /\ Len(lines) \in Nat
      /\ DOMAIN lines = 1..Len(lines) /\ Len(lines) >= Len(shipLines)
      /\ \A l \in DOMAIN shipLines : /\ lines[l].shipment = shipLines[l].shipment
                                     /\ l \notin LinesOf(shipLines, s) => lines[l] = shipLines[l]
      /\ \A l \in DOMAIN lines \ DOMAIN shipLines : lines[l].shipment = s
  BY <1>8 DEF EditOf
<1>10. /\ shipLines' \in Seq(ShipLineRecords(Len(shipments)))
       /\ Len(shipLines') = Len(lines) /\ DOMAIN shipLines' = DOMAIN lines
       /\ \A l \in DOMAIN lines : /\ shipLines'[l].shipment = lines[l].shipment
                                  /\ l \notin left => shipLines'[l] = lines[l]
  <2>1. ASSUME NEW l \in DOMAIN lines
        PROVE  /\ shipLines'[l] \in ShipLineRecords(Len(shipments))
               /\ shipLines'[l].shipment = lines[l].shipment
               /\ l \notin left => shipLines'[l] = lines[l]
    <3>1. PICK old \in ShipLineRecords(Len(shipments)) : old = lines[l]
      BY <1>9
    <3>2. PICK now : now = [old EXCEPT !.is_deleted = TRUE]
      OBVIOUS
    <3>3. now \in ShipLineRecords(Len(shipments)) /\ now.shipment = old.shipment
      BY <3>2 DEF ShipLineRecords
    <3>4. shipLines'[l] = IF l \in left THEN now ELSE old
      BY <1>4, <3>1, <3>2
    <3> QED
      BY <3>1, <3>3, <3>4
  <2>2. DOMAIN shipLines' = 1..Len(lines)
        /\ shipLines' = [l \in 1..Len(lines) |-> shipLines'[l]]
    BY <1>4, <1>9
  <2> QED
    BY <1>9, <2>1, <2>2
<1>11. /\ \A l \in DOMAIN shipLines : /\ l \in DOMAIN shipLines'
                                      /\ shipLines'[l].shipment = shipLines[l].shipment
                                      /\ l \notin LinesOf(shipLines, s)
                                            => shipLines'[l] = shipLines[l]
       /\ \A l \in DOMAIN shipLines' : l \in DOMAIN shipLines \/ shipLines'[l].shipment = s
  <2>1. left \subseteq LinesOf(shipLines, s)
    BY <1>3
  <2>2. \A l \in DOMAIN shipLines : l \in DOMAIN lines
    BY <1>5, <1>9
  <2> QED
    BY <1>9, <1>10, <2>1, <2>2
<1>12. RecordsFit'
  <2>1. Len(shipLines) <= Len(shipLines') /\ Len(shipLines') \in Nat
    BY <1>9, <1>10
  <2>2. /\ Seq(ReceiptRecords(Len(shipments), Len(shipLines)))
              \subseteq Seq(ReceiptRecords(Len(shipments), Len(shipLines')))
        /\ LoadedRequests(Len(shipments), Len(shipLines))
              \subseteq LoadedRequests(Len(shipments), Len(shipLines'))
    BY <1>5, <2>1, Widen
  <2>3. /\ receipts' \in Seq(ReceiptRecords(Len(shipments), Len(shipLines')))
        /\ inFlight' \subseteq LoadedRequests(Len(shipments), Len(shipLines'))
    BY <1>2, <1>4, <2>2 DEF RecordsFit
  <2> QED
    BY <1>7, <1>10, <2>3 DEF RecordsFit
<1>13. RecordsGrow
  <2>1. ASSUME NEW l \in DOMAIN shipLines
        PROVE  /\ l \in DOMAIN shipLines'
               /\ shipLines'[l].shipment = shipLines[l].shipment
               /\ shipments[shipLines[l].shipment].shipped =>
                     /\ shipLines'[l].product = shipLines[l].product
                     /\ shipLines'[l].quantity = shipLines[l].quantity
               /\ shipLines[l].is_deleted => shipLines'[l].is_deleted
    BY <1>4, <1>11 DEF LinesOf
  <2>2. \A t \in DOMAIN shipments :
           /\ t \in DOMAIN shipments'
           /\ shipments[t].shipped => /\ shipments'[t].shipped
                                      /\ shipments'[t].from = shipments[t].from
                                      /\ shipments'[t].to = shipments[t].to
           /\ shipments[t].is_deleted => shipments'[t].is_deleted
    BY <1>4, <1>7
  <2>3. \A l \in DOMAIN shipLines' :
           l \in DOMAIN shipLines \/ ~shipments[shipLines'[l].shipment].shipped
    BY <1>4, <1>11
  <2> QED
    BY <1>4, <2>1, <2>2, <2>3 DEF RecordsGrow
<1>14. RecordsAgree'
  <2>1. \A t \in DOMAIN shipments' : shipments'[t].from # shipments'[t].to
    BY <1>2, <1>7 DEF RecordsAgree
  <2>2. ASSUME NEW l \in DOMAIN shipLines', ~shipLines'[l].is_deleted
        PROVE  ~shipments'[shipLines'[l].shipment].is_deleted
    <3>1. CASE l \in LinesOf(shipLines, s) \/ l \notin DOMAIN shipLines
      <4>1. shipLines'[l].shipment = s
        BY <1>11, <3>1, <2>2 DEF LinesOf
      <4> QED
        BY <1>4, <1>7, <4>1 DEF Live
    <3>2. CASE l \in DOMAIN shipLines /\ l \notin LinesOf(shipLines, s)
      <4>1. PICK t \in DOMAIN shipments : t = shipLines[l].shipment
        BY <1>2, <3>2, RecordTypes
      <4>2. shipLines'[l] = shipLines[l]
        BY <1>11, <3>2
      <4>3. ~shipments[t].is_deleted
        BY <1>2, <2>2, <3>2, <4>1, <4>2 DEF RecordsAgree, Live
      <4> QED
        BY <1>7, <4>1, <4>2, <4>3
    <3> QED
      BY <3>1, <3>2
  <2>3. \A t \in DOMAIN shipments : shipments'[t].is_deleted => shipments[t].is_deleted
    BY <1>7
  <2> QED
    BY <1>2, <1>4, <1>13, <2>1, <2>2, <2>3, ReceiptsStay DEF RecordsAgree, Live
<1>15. \A l \in DOMAIN shipLines' \ DOMAIN shipLines : Live(shipLines[l].shipment)'
  BY <1>4, <1>7, <1>11 DEF Live
<1>16. \E moves : moves \in Seq(Rows) /\ StepPosts(moves)
  <2>1. PICK moves : moves = << >>
    OBVIOUS
  <2>2. moves \in Seq(Rows) /\ ledger' = ledger \o moves /\ Sound(Book)' /\ 1..Len(moves) = {}
    BY <1>4, <2>1, QuietStep
  <2> QED
    BY <1>13, <1>15, <2>2 DEF StepPosts
<1>17. \A l \in DOMAIN shipLines :
          Live(shipLines[l].shipment) => Live(shipLines[l].shipment)'
  BY <1>2, <1>7, <1>11, RecordTypes DEF Live
<1> QED
  BY <1>12, <1>13, <1>14, <1>16, <1>17, PostingKeeps

-----------------------------------------------------------------------------
(* The other apps *)

\* The other apps post whatever they like, but never in the name of a shipment or a
\* receipt.
OthersPost ==
    \E moves \in Seq(Rows), confirm \in BOOLEAN :
        /\ \A i \in DOMAIN moves : moves[i].stype \notin ShipTypes
        /\ Post(moves, confirm)
        /\ UNCHANGED shipmentVars

\* Shipments among other apps.
OpenSpec == Init /\ [][Next \/ OthersPost]_vars

\* What the others post makes no difference to any line.
LEMMA OthersKeepInv ==
    ASSUME Inv, OthersPost
    PROVE  Inv' /\ RecordsGrow
<1>1. PICK moves \in Seq(Rows), confirm \in BOOLEAN :
         /\ \A i \in DOMAIN moves : moves[i].stype \notin ShipTypes
         /\ Post(moves, confirm)
         /\ UNCHANGED shipmentVars
  BY DEF OthersPost
<1>2. /\ shipments' = shipments /\ shipLines' = shipLines
      /\ receipts' = receipts /\ inFlight' = inFlight
  BY <1>1 DEF shipmentVars
<1>3. ledger' = ledger \o moves /\ Sound(Book)'
  BY <1>1, PostStep
<1>4. RecordsFit'
  BY <1>2 DEF Inv, RecordsFit
<1>5. RecordsAgree'
  BY <1>2 DEF Inv, RecordsAgree, Live
<1>6. RecordsGrow
  BY <1>2 DEF RecordsGrow
<1>7. ASSUME NEW k \in 1..Len(moves)
      PROVE  /\ RowFits(moves[k])'
             /\ moves[k].stype \in ShipTypes /\ moves[k].line \in DOMAIN shipLines
                   => Live(shipLines[moves[k].line].shipment)
  <2>1. PICK row : row = moves[k]
    OBVIOUS
  <2>2. row.stype \notin ShipTypes
    BY <1>1, <2>1
  <2>3. RowFits(row)'
    BY <2>2 DEF RowFits
  <2> QED
    BY <2>1, <2>2, <2>3 DEF RowFits
<1>8. StepPosts(moves)
  BY <1>2, <1>3, <1>6, <1>7 DEF StepPosts
<1>9. \A l \in DOMAIN shipLines :
         Live(shipLines[l].shipment) => Live(shipLines[l].shipment)'
  BY <1>2 DEF Live
<1> QED
  BY <1>4, <1>5, <1>6, <1>8, <1>9, PostingKeeps

-----------------------------------------------------------------------------
(* The theorems *)

\* Nothing has been shipped and nothing posted.
LEMMA InitInv == Init => Inv
<1>1. SUFFICES ASSUME Init PROVE Inv
  OBVIOUS
<1>2. ledger = << >> /\ shipments = << >> /\ shipLines = << >> /\ receipts = << >> /\ inFlight = {}
  BY <1>1 DEF Init, LedgerInit
<1>3. Sound(Book)
  BY <1>1, EmptySound DEF Init, LedgerInit, Book
<1> QED
  BY <1>2, <1>3 DEF Inv, RecordsFit, RecordsAgree, RowsFit, DeadHoldNothing

\* Every step keeps the invariant and takes nothing back.
LEMMA StepKeeps == Inv /\ [Next \/ OthersPost]_vars => Inv' /\ RecordsGrow
<1>1. SUFFICES ASSUME Inv, [Next \/ OthersPost]_vars PROVE Inv' /\ RecordsGrow
  OBVIOUS
<1>2. CASE Create
  BY <1>1, <1>2, CreateKeeps
<1>3. CASE Ship
  BY <1>1, <1>3, ShipKeeps
<1>4. CASE Update
  BY <1>1, <1>4, UpdateKeeps
<1>5. CASE Receive
  BY <1>1, <1>5, ReceiveNowKeeps
<1>6. CASE Load
  BY <1>1, <1>6, LoadKeeps
<1>7. CASE Resume
  BY <1>1, <1>7, ResumeKeeps
<1>8. CASE UndoReceipt
  BY <1>1, <1>8, UndoReceiptKeeps
<1>9. CASE Cancel
  BY <1>1, <1>9, CancelKeeps
<1>10. CASE Delete
  BY <1>1, <1>10, DeleteKeeps
<1>11. CASE OthersPost
  BY <1>1, <1>11, OthersKeepInv
<1>12. CASE UNCHANGED vars
  <2>1. /\ UNCHANGED <<ledger, balance, shipments, shipLines, receipts>>
        /\ inFlight' = inFlight
    BY <1>12 DEF vars, shipmentVars
  <2>2. inFlight \subseteq LoadedRequests(Len(shipments), Len(shipLines))
    BY <1>1 DEF Inv, RecordsFit
  <2> QED
    BY <1>1, <2>1, <2>2, WaitingKeeps
<1> QED
  BY <1>1, <1>2, <1>3, <1>4, <1>5, <1>6, <1>7, <1>8, <1>9, <1>10, <1>11, <1>12 DEF Next

\* The invariant has the types.
LEMMA InvMeansTypeOK == Inv => TypeOK
<1>1. SUFFICES ASSUME Inv PROVE TypeOK
  OBVIOUS
<1>2. LedgerTypeOK
  BY <1>1, RollupType DEF Inv, Sound, Book, LedgerTypeOK
<1>3. RecordsFit
  BY <1>1 DEF Inv
<1>4. DOMAIN shipments = 1..Len(shipments) /\ DOMAIN shipLines = 1..Len(shipLines)
  BY <1>3, RecordTypes
<1>5. /\ shipments \in Seq([from: Locations, to: Locations, shipped: BOOLEAN,
                            cancelled: BOOLEAN, is_deleted: BOOLEAN])
      /\ shipLines \in Seq([shipment: DOMAIN shipments, product: Products,
                            quantity: Quantities, is_deleted: BOOLEAN])
  BY <1>3, <1>4 DEF RecordsFit, ShipmentRecords, ShipLineRecords
<1>6. receipts \in Seq([shipment: DOMAIN shipments, is_deleted: BOOLEAN,
                        lines: Seq(ReceiptItems)])
  BY <1>3, <1>4 DEF RecordsFit, ReceiptRecords, ReceiptLines, ReceiptItems
<1>7. \A request \in inFlight : request.shipment \in DOMAIN shipments
  BY <1>3, <1>4 DEF RecordsFit, LoadedRequests
<1> QED
  BY <1>2, <1>5, <1>6, <1>7 DEF TypeOK

\* The invariant says that nothing is left of a deleted shipment.
LEMMA InvMeansEmpty == Inv => DeletedShipmentHoldsNothing
<1>1. SUFFICES ASSUME Inv, NEW l \in DOMAIN shipLines, ~Live(shipLines[l].shipment),
                      NEW key \in Keys
               PROVE  LineStock(l, key[1], key[2], key[3]) = [qty |-> 0, aed |-> 0]
  BY DEF DeletedShipmentHoldsNothing
<1>2. LineStock(l, key[1], key[2], key[3]) = NetIn(ledger, LineAt(l, <<key[1], key[2], key[3]>>))
  BY <1>1, SumsOfSets DEF Inv, Sound, Book
<1>3. <<key[1], key[2], key[3]>> = key
  BY <1>1 DEF Keys
<1>4. NetIn(ledger, LineAt(l, key)) = NoStock
  BY <1>1 DEF Inv, DeadHoldNothing
<1> QED
  BY <1>2, <1>3, <1>4 DEF NoStock

\* Shipments, lines, receipts, rows and balances keep their types.
THEOREM ShipmentsTyped == Spec => []TypeOK
<1>1. Inv /\ [Next]_vars => Inv'
  BY StepKeeps
<1>2. Spec => []Inv
  BY <1>1, InitInv, PTL DEF Spec
<1> QED
  BY <1>2, InvMeansTypeOK, PTL

\* Among whatever other apps post, once a shipment is deleted not a unit and not a
\* cent of it is left anywhere, wherever it had got to: drafted, shipped, received in
\* parts or beyond what was sent, with receipts undone or cancelled, and with receipts
\* that used lines they had loaded long before (soft_delete_shipment).
THEOREM DeletedHoldNothing == OpenSpec => []DeletedShipmentHoldsNothing
<1>1. Inv /\ [Next \/ OthersPost]_vars => Inv'
  BY StepKeeps
<1>2. OpenSpec => []Inv
  BY <1>1, InitInv, PTL DEF OpenSpec
<1> QED
  BY <1>2, InvMeansEmpty, PTL

\* No operation takes back what others rely on without the lock's protection: a
\* shipment that was sent keeps its route, its lines their product and quantity, a
\* receipt what it says, and nothing that was deleted comes back.
THEOREM SentStaysAsSent == OpenSpec => [][RecordsGrow]_vars
<1>1. Inv /\ [Next \/ OthersPost]_vars => Inv' /\ RecordsGrow
  BY StepKeeps
<1>2. Inv /\ [Next \/ OthersPost]_vars => Inv'
  BY <1>1
<1>3. OpenSpec => []Inv
  BY <1>2, InitInv, PTL DEF OpenSpec
<1>4. Inv /\ [Next \/ OthersPost]_vars => [RecordsGrow]_vars
  BY <1>1
<1> QED
  BY <1>3, <1>4, PTL DEF OpenSpec

-----------------------------------------------------------------------------
(* What receipts say of a line *)

\* What a list of receipt lines says of line l.
Named(items, l) ==
    SumSeq([i \in 1..Len(items) |-> IF items[i].line = l THEN items[i].quantity ELSE 0])

\* What every receipt counts for it, and all together.
Counted(records, l) ==
    [r \in 1..Len(records) |->
        IF records[r].is_deleted THEN 0 ELSE Named(records[r].lines, l)]

Got(records, l) == SumSeq(Counted(records, l))

\* A list names something of a line, or nothing if the line is not in it.
LEMMA NamedFacts ==
    ASSUME NEW m \in Nat, NEW items \in Seq(ReceiptLines(m)), NEW l
    PROVE  /\ Named(items, l) \in Nat
           /\ (\A i \in 1..Len(items) : items[i].line # l) => Named(items, l) = 0
<1> DEFINE f == [i \in 1..Len(items) |-> IF items[i].line = l THEN items[i].quantity ELSE 0]
<1>1. Len(items) \in Nat /\ \A i \in 1..Len(items) : items[i] \in ReceiptLines(m)
  OBVIOUS
<1>2. \A i \in 1..Len(items) : items[i].quantity \in Quantities
  BY <1>1 DEF ReceiptLines
<1>3. \A i \in 1..Len(items) : items[i].quantity \in Nat
  BY <1>2, QuantitiesAssumption
<1>4. f \in Seq(Nat) /\ f \in Seq(Int) /\ Len(f) = Len(items)
  BY <1>1, <1>3
<1>5. (\A i \in 1..Len(items) : items[i].line # l) => \A i \in 1..Len(f) : f[i] = 0
  BY <1>4
<1>6. Named(items, l) = SumSeq(f)
  BY DEF Named
<1> HIDE DEF f
<1> QED
  BY <1>4, <1>5, <1>6, SumSeqNatural, SumSeqZero

\* Receipts of n shipments and m lines count something of a line.
LEMMA GotFacts ==
    ASSUME NEW n \in Nat, NEW m \in Nat, NEW records \in Seq(ReceiptRecords(n, m)), NEW l
    PROVE  /\ Counted(records, l) \in Seq(Nat)
           /\ Len(Counted(records, l)) = Len(records)
           /\ \A r \in 1..Len(records) :
                 /\ Named(records[r].lines, l) \in Nat
                 /\ Counted(records, l)[r] = IF records[r].is_deleted THEN 0
                                             ELSE Named(records[r].lines, l)
           /\ Got(records, l) \in Nat
<1>1. Len(records) \in Nat /\ \A r \in 1..Len(records) : records[r] \in ReceiptRecords(n, m)
  OBVIOUS
<1>2. \A r \in 1..Len(records) : records[r].lines \in Seq(ReceiptLines(m))
  BY <1>1 DEF ReceiptRecords
<1>3. \A r \in 1..Len(records) : Named(records[r].lines, l) \in Nat
  BY <1>2, NamedFacts
<1>4. PICK f : f = Counted(records, l)
  OBVIOUS
<1>5. f = [r \in 1..Len(records) |-> IF records[r].is_deleted THEN 0
                                     ELSE Named(records[r].lines, l)]
  BY <1>4 DEF Counted
<1>6. \A r \in 1..Len(records) :
         f[r] = IF records[r].is_deleted THEN 0 ELSE Named(records[r].lines, l)
  BY <1>5
<1>7. \A r \in 1..Len(records) : f[r] \in Nat
  BY <1>3, <1>6
<1>8. f \in Seq(Nat) /\ Len(f) = Len(records)
  BY <1>1, <1>5, <1>7
<1> QED
  BY <1>3, <1>4, <1>6, <1>8, SumSeqNatural DEF Got

\* What each of them counts.
Counts(f, records, l) ==
    /\ f \in Seq(Nat) /\ f \in Seq(Int) /\ Len(f) = Len(records) /\ SumSeq(f) = Got(records, l)
    /\ \A r \in 1..Len(records) :
          /\ Named(records[r].lines, l) \in Nat
          /\ f[r] = IF records[r].is_deleted THEN 0 ELSE Named(records[r].lines, l)

LEMMA CountsExist ==
    ASSUME NEW n \in Nat, NEW m \in Nat, NEW records \in Seq(ReceiptRecords(n, m)), NEW l
    PROVE  \E f : Counts(f, records, l)
<1>1. Counts(Counted(records, l), records, l)
  <2>1. Counted(records, l) \in Seq(Nat)
    BY GotFacts
  <2>2. Counted(records, l) \in Seq(Int)
    BY <2>1
  <2>3. Got(records, l) = SumSeq(Counted(records, l))
    BY DEF Got
  <2> QED
    BY <2>1, <2>2, <2>3, GotFacts DEF Counts
<1> QED
  BY <1>1

\* received_qty, as the model writes it.
LEMMA ReceivedIsGot ==
    ASSUME RecordsFit, NEW l
    PROVE  ReceivedQty(l) = Got(receipts, l)
<1>1. DOMAIN receipts = 1..Len(receipts)
  BY RecordTypes
<1>2. [r \in DOMAIN receipts |->
         IF receipts[r].is_deleted THEN 0
         ELSE SumOf(receipts[r].lines, LAMBDA item : item.line = l,
                    LAMBDA item : item.quantity)] = Counted(receipts, l)
  BY <1>1 DEF Counted, Named, SumOf
<1> QED
  BY <1>2 DEF ReceivedQty, Got

\* One more receipt.
LEMMA GotAppend ==
    ASSUME NEW n \in Nat, NEW m \in Nat, NEW records \in Seq(ReceiptRecords(n, m)),
           NEW more \in ReceiptRecords(n, m), ~more.is_deleted, NEW l
    PROVE  Got(Append(records, more), l) = Got(records, l) + Named(more.lines, l)
<1>1. PICK all : all = Append(records, more)
  OBVIOUS
<1>2. /\ all \in Seq(ReceiptRecords(n, m)) /\ Len(all) = Len(records) + 1
      /\ Len(records) \in Nat
      /\ all[Len(records) + 1] = more
      /\ \A r \in 1..Len(records) : all[r] = records[r]
  BY <1>1
<1>3. PICK f : Counts(f, records, l)
  BY CountsExist
<1>4. PICK g : Counts(g, all, l)
  BY <1>2, CountsExist
<1>5. PICK x \in Nat : x = Named(more.lines, l)
  <2>1. Len(records) + 1 \in 1..Len(all)
    BY <1>2
  <2>2. Named(all[Len(records) + 1].lines, l) \in Nat
    BY <1>4, <2>1 DEF Counts
  <2> QED
    BY <1>2, <2>2
<1>6. /\ f \in Seq(Int) /\ Len(f) = Len(records)
      /\ g \in Seq(Int) /\ Len(g) = Len(records) + 1
  BY <1>2, <1>3, <1>4 DEF Counts
<1>7. ASSUME NEW r \in 1..Len(records) PROVE g[r] = f[r]
  <2>1. r \in 1..Len(all) /\ all[r] = records[r]
    BY <1>2
  <2>2. g[r] = IF all[r].is_deleted THEN 0 ELSE Named(all[r].lines, l)
    BY <1>4, <2>1 DEF Counts
  <2>3. f[r] = IF records[r].is_deleted THEN 0 ELSE Named(records[r].lines, l)
    BY <1>3 DEF Counts
  <2> QED
    BY <2>1, <2>2, <2>3
<1>8. g[Len(records) + 1] = x
  <2>1. Len(records) + 1 \in 1..Len(all)
    BY <1>2
  <2>2. g[Len(records) + 1] = IF more.is_deleted THEN 0 ELSE Named(more.lines, l)
    BY <1>2, <1>4, <2>1 DEF Counts
  <2> QED
    BY <1>5, <2>2
<1>9. g = Append(f, x)
  BY <1>2, <1>5, <1>6, <1>7, <1>8
<1>10. SumSeq(g) = SumSeq(f) + x
  BY <1>6, <1>9, SumSeqAppend
<1> QED
  BY <1>1, <1>3, <1>4, <1>5, <1>10 DEF Counts

\* One receipt deleted.
OneGone(records, rest, k) ==
    /\ Len(rest) = Len(records) /\ k \in 1..Len(records)
    /\ ~records[k].is_deleted /\ rest[k].is_deleted
    /\ \A r \in 1..Len(records) : r # k => rest[r] = records[r]

LEMMA GotLess ==
    ASSUME NEW n \in Nat, NEW m \in Nat, NEW records \in Seq(ReceiptRecords(n, m)),
           NEW rest \in Seq(ReceiptRecords(n, m)), NEW k, OneGone(records, rest, k), NEW l
    PROVE  Got(rest, l) = Got(records, l) - Named(records[k].lines, l)
<1>0. /\ Len(rest) = Len(records) /\ k \in 1..Len(records)
      /\ ~records[k].is_deleted /\ rest[k].is_deleted
      /\ \A r \in 1..Len(records) : r # k => rest[r] = records[r]
  BY DEF OneGone
<1>1. PICK f : Counts(f, records, l)
  BY CountsExist
<1>2. PICK g : Counts(g, rest, l)
  BY CountsExist
<1>3. f[k] = Named(records[k].lines, l) /\ Named(records[k].lines, l) \in Nat
  BY <1>0, <1>1 DEF Counts
<1>4. g[k] = 0
  <2>1. k \in 1..Len(rest)
    BY <1>0
  <2> QED
    BY <1>0, <1>2, <2>1 DEF Counts
<1>5. /\ f \in Seq(Int) /\ Len(f) = Len(records)
      /\ g \in Seq(Int) /\ Len(g) = Len(records)
  BY <1>0, <1>1, <1>2 DEF Counts
<1>6. ASSUME NEW r \in 1..Len(f), k # r PROVE g[r] = f[r]
  <2>1. r \in 1..Len(records) /\ r \in 1..Len(rest) /\ rest[r] = records[r]
    BY <1>0, <1>5, <1>6
  <2>2. g[r] = IF rest[r].is_deleted THEN 0 ELSE Named(rest[r].lines, l)
    BY <1>2, <2>1 DEF Counts
  <2>3. f[r] = IF records[r].is_deleted THEN 0 ELSE Named(records[r].lines, l)
    BY <1>1, <2>1 DEF Counts
  <2> QED
    BY <2>1, <2>2, <2>3
<1>7. SumSeq(g) = SumSeq(f) + (g[k] - f[k])
  BY <1>0, <1>5, <1>6, SumSeqOneChanged
<1>8. SumSeq(f) \in Int
  BY <1>5, SumSeqType
<1> QED
  BY <1>1, <1>2, <1>3, <1>4, <1>7, <1>8 DEF Counts

\* Receipts that count the same.
LEMMA GotSame ==
    ASSUME NEW n \in Nat, NEW m \in Nat, NEW records \in Seq(ReceiptRecords(n, m)),
           NEW rest \in Seq(ReceiptRecords(n, m)), Len(rest) = Len(records), NEW l,
           \A r \in 1..Len(records) :
              /\ rest[r].lines = records[r].lines
              /\ rest[r].is_deleted = records[r].is_deleted \/ Named(records[r].lines, l) = 0
    PROVE  Got(rest, l) = Got(records, l)
<1>1. ASSUME NEW r \in 1..Len(records)
      PROVE  (IF rest[r].is_deleted THEN 0 ELSE Named(rest[r].lines, l)) =
             (IF records[r].is_deleted THEN 0 ELSE Named(records[r].lines, l))
  OBVIOUS
<1>2. Counted(rest, l) = Counted(records, l)
  BY <1>1 DEF Counted
<1> QED
  BY <1>2 DEF Got

-----------------------------------------------------------------------------
(* Where the stock of a line is *)

\* The three places the stock of a line can be in, from its record and its shipment's.
Gone(ship, line) == << line.product, ship.from, "PHYSICAL" >>

Going(ship, line) == << line.product, ship.to, "IN_TRANSIT" >>

Here(ship, line) == << line.product, ship.to, "PHYSICAL" >>

ShipmentOf(l) == shipments[shipLines[l].shipment]

\* A row of a line is in one of them, and a receipt never touches the source.
PlacedIn(row, ship, line) ==
    /\ KeyOf(row) \in {Gone(ship, line), Going(ship, line), Here(ship, line)}
    /\ row.stype = "SHIPMENT_RECEIPT" => KeyOf(row) # Gone(ship, line)

RowPlaced(row) ==
    row.stype \in ShipTypes => PlacedIn(row, ShipmentOf(row.line), shipLines[row.line])

RowsPlaced == \A i \in DOMAIN ledger : RowPlaced(ledger[i])

\* The rows receipt r has of line l.
ReceiptRows(r, l) == {row \in RowsOn(l) : row.stype = "SHIPMENT_RECEIPT" /\ row.sid = r}

ReceiptAt(r, l, key) == {row \in ReceiptRows(r, l) : KeyOf(row) = key}

\* A receipt that moved q units of a line from the way to the destination.
ReceiptMoved(rows, r, l, ship, line, q) ==
    /\ NetIn(rows, ReceiptAt(r, l, Here(ship, line))).qty = q
    /\ NetIn(rows, ReceiptAt(r, l, Going(ship, line))).qty = -q

\* A live receipt moved just what it says.
ReceiptsFollow ==
    \A r \in DOMAIN receipts : ~receipts[r].is_deleted =>
        \A l \in DOMAIN shipLines : shipLines[l].shipment = receipts[r].shipment =>
            ReceiptMoved(ledger, r, l, ShipmentOf(l), shipLines[l], Named(receipts[r].lines, l))

\* What there is of a line that was sent and of which `got` was received.
LineMoved(rows, l, ship, line, got) ==
    /\ NetIn(rows, LineAt(l, Here(ship, line))).qty = got
    /\ ~ship.cancelled =>
          /\ NetIn(rows, LineAt(l, Gone(ship, line))).qty = -line.quantity
          /\ NetIn(rows, LineAt(l, Going(ship, line))).qty = line.quantity - got

LinesFollow ==
    \A l \in DOMAIN shipLines : ~shipLines[l].is_deleted /\ ShipmentOf(l).shipped =>
        LineMoved(ledger, l, ShipmentOf(l), shipLines[l], Got(receipts, l))

Placed == RowsPlaced /\ ReceiptsFollow /\ LinesFollow

-----------------------------------------------------------------------------
(* What a transfer moves of a line *)

\* Which rows of a leg are among those of a line.
LEMMA LegAt ==
    ASSUME NEW stype \in ShipTypes, NEW sid \in Nat, NEW leg \in Legs, NEW a \in Places, NEW l
    PROVE  /\ \A key : OutOf(stype, sid, leg, a) \in LineAt(l, key)
                          <=> leg.line = l /\ <<leg.product, a[1], a[2]>> = key
           /\ \A key : Into(stype, sid, leg, a) \in LineAt(l, key)
                          <=> leg.line = l /\ <<leg.product, a[1], a[2]>> = key
           /\ OutOf(stype, sid, leg, a) \in TransitOf(l) <=> leg.line = l /\ a[2] = "IN_TRANSIT"
           /\ Into(stype, sid, leg, a) \in TransitOf(l) <=> leg.line = l /\ a[2] = "IN_TRANSIT"
<1>1. ASSUME NEW row \in Rows, row.stype = stype, row.line = leg.line,
             row.bucket = a[2], KeyOf(row) = <<leg.product, a[1], a[2]>>
      PROVE  /\ \A key : row \in LineAt(l, key)
                            <=> leg.line = l /\ <<leg.product, a[1], a[2]>> = key
             /\ row \in TransitOf(l) <=> leg.line = l /\ a[2] = "IN_TRANSIT"
  <2>1. row \in RowsOn(l) <=> leg.line = l
    BY <1>1, RowOnLine
  <2> QED
    BY <1>1, <2>1 DEF LineAt, TransitOf
<1>2. OutOf(stype, sid, leg, a) \in Rows /\ Into(stype, sid, leg, a) \in Rows
  BY LegRows
<1>3. PICK out, in : out = OutOf(stype, sid, leg, a) /\ in = Into(stype, sid, leg, a)
  OBVIOUS
<1>4. /\ out.stype = stype /\ out.line = leg.line /\ out.bucket = a[2]
      /\ KeyOf(out) = <<leg.product, a[1], a[2]>>
  BY <1>3 DEF OutOf, StockMove, KeyOf
<1>5. /\ in.stype = stype /\ in.line = leg.line /\ in.bucket = a[2]
      /\ KeyOf(in) = <<leg.product, a[1], a[2]>>
  BY <1>3 DEF Into, StockMove, KeyOf
<1>6. out \in Rows /\ in \in Rows
  BY <1>2, <1>3
<1>7. /\ \A key : out \in LineAt(l, key)
                     <=> leg.line = l /\ <<leg.product, a[1], a[2]>> = key
      /\ out \in TransitOf(l) <=> leg.line = l /\ a[2] = "IN_TRANSIT"
  BY <1>1, <1>4, <1>6
<1>8. /\ \A key : in \in LineAt(l, key)
                     <=> leg.line = l /\ <<leg.product, a[1], a[2]>> = key
      /\ in \in TransitOf(l) <=> leg.line = l /\ a[2] = "IN_TRANSIT"
  BY <1>1, <1>5, <1>6
<1> QED
  BY <1>3, <1>7, <1>8

\* The legs of a line name its product.
ProductIs(legs, l, p) == \A i \in 1..Len(legs) : legs[i].line = l => legs[i].product = p

KeyAt(p, place) == << p, place[1], place[2] >>

\* Movements take q units of a line from one key to another.
MovesLine(moves, l, from, to, q) ==
    /\ NetIn(moves, LineAt(l, from)).qty = -q
    /\ NetIn(moves, LineAt(l, to)).qty = q
    /\ \A key : key # from /\ key # to => NetIn(moves, LineAt(l, key)) = NoStock

\* A transfer between two places moves the legs of a line from one to the other, if
\* they name its product, and touches no other place.
LEMMA TransferNet ==
    ASSUME NEW stype \in ShipTypes, NEW sid \in Nat, NEW legs \in Seq(Legs),
           NEW a \in Places, NEW b \in Places, a # b,
           NEW l, NEW p, ProductIs(legs, l, p)
    PROVE  MovesLine(Transfers(stype, sid, legs, a, b), l, KeyAt(p, a), KeyAt(p, b),
                     LegSum(legs, l))
<1>1. PICK ka, kb : /\ ka = KeyAt(p, a) /\ kb = KeyAt(p, b)
                    /\ ka = <<p, a[1], a[2]>> /\ kb = <<p, b[1], b[2]>>
  BY DEF KeyAt
<1>2. ka # kb
  BY <1>1 DEF Places
<1>3. \A i \in 1..Len(legs) : legs[i] \in Legs
  OBVIOUS
<1>4. ASSUME NEW i \in 1..Len(legs), NEW key
      PROVE  /\ OutOf(stype, sid, legs[i], a) \in LineAt(l, key)
                    <=> legs[i].line = l /\ key = ka
             /\ Into(stype, sid, legs[i], b) \in LineAt(l, key)
                    <=> legs[i].line = l /\ key = kb
  <2>1. PICK leg \in Legs : leg = legs[i]
    BY <1>3
  <2>2. OutOf(stype, sid, leg, a) \in LineAt(l, key)
           <=> leg.line = l /\ <<leg.product, a[1], a[2]>> = key
    BY LegAt
  <2>3. Into(stype, sid, leg, b) \in LineAt(l, key)
           <=> leg.line = l /\ <<leg.product, b[1], b[2]>> = key
    BY LegAt
  <2>4. leg.line = l => leg.product = p
    BY <2>1 DEF ProductIs
  <2> QED
    BY <1>1, <2>1, <2>2, <2>3, <2>4
<1>5. PICK moves : moves = Transfers(stype, sid, legs, a, b)
  OBVIOUS
<1>6. NetIn(moves, LineAt(l, ka)).qty = -LegSum(legs, l)
  <2>1. PICK S : S = LineAt(l, ka)
    OBVIOUS
  <2>2. \A i \in 1..Len(legs) : /\ Into(stype, sid, legs[i], b) \notin S
                                /\ OutOf(stype, sid, legs[i], a) \in S
                                      <=> legs[i].line = l
    BY <1>2, <1>4, <2>1
  <2>3. NetIn(Transfers(stype, sid, legs, a, b), S).qty = -LegSum(legs, l)
    BY <2>2, TransfersFacts DEF TransferSums
  <2> QED
    BY <1>5, <2>1, <2>3
<1>7. NetIn(moves, LineAt(l, kb)).qty = LegSum(legs, l)
  <2>1. PICK S : S = LineAt(l, kb)
    OBVIOUS
  <2>2. \A i \in 1..Len(legs) : /\ OutOf(stype, sid, legs[i], a) \notin S
                                /\ Into(stype, sid, legs[i], b) \in S
                                      <=> legs[i].line = l
    BY <1>2, <1>4, <2>1
  <2>3. NetIn(Transfers(stype, sid, legs, a, b), S).qty = LegSum(legs, l)
    BY <2>2, TransfersFacts DEF TransferSums
  <2> QED
    BY <1>5, <2>1, <2>3
<1>8. ASSUME NEW key, key # ka, key # kb
      PROVE  NetIn(moves, LineAt(l, key)) = NoStock
  <2>1. moves \in Seq(Rows)
        /\ \A k \in 1..Len(moves) : \E i \in 1..Len(legs) :
              moves[k] \in {OutOf(stype, sid, legs[i], a), Into(stype, sid, legs[i], b)}
    BY <1>5, TransfersFacts
  <2>2. \A k \in 1..Len(moves) : moves[k] \notin LineAt(l, key)
    BY <1>4, <1>8, <2>1
  <2> QED
    BY <2>1, <2>2, NetInNone
<1> QED
  BY <1>1, <1>5, <1>6, <1>7, <1>8 DEF MovesLine

\* The value it moves to or from the way.
LEMMA TransferWay ==
    ASSUME NEW stype \in ShipTypes, NEW sid \in Nat, NEW legs \in Seq(Legs),
           NEW a \in Places, NEW b \in Places, NEW l
    PROVE  /\ a[2] = "IN_TRANSIT" /\ b[2] # "IN_TRANSIT" =>
                 NetIn(Transfers(stype, sid, legs, a, b), TransitOf(l)).aed = -LegValue(legs, l)
           /\ a[2] # "IN_TRANSIT" /\ b[2] = "IN_TRANSIT" =>
                 NetIn(Transfers(stype, sid, legs, a, b), TransitOf(l)).aed = LegValue(legs, l)
<1>1. \A i \in 1..Len(legs) : legs[i] \in Legs
  OBVIOUS
<1> DEFINE moves == Transfers(stype, sid, legs, a, b)
<1>2. \A S : TransferSums(moves, stype, sid, legs, a, b, S, l)
  BY TransfersFacts
<1>5. \A i \in 1..Len(legs) :
         /\ OutOf(stype, sid, legs[i], a) \in TransitOf(l)
               <=> legs[i].line = l /\ a[2] = "IN_TRANSIT"
         /\ Into(stype, sid, legs[i], b) \in TransitOf(l)
               <=> legs[i].line = l /\ b[2] = "IN_TRANSIT"
  BY <1>1, LegAt
<1> HIDE DEF moves
<1>3. ASSUME a[2] = "IN_TRANSIT", b[2] # "IN_TRANSIT"
      PROVE  NetIn(moves, TransitOf(l)).aed = -LegValue(legs, l)
  <2>1. PICK S : S = TransitOf(l)
    OBVIOUS
  <2>2. \A i \in 1..Len(legs) : /\ Into(stype, sid, legs[i], b) \notin S
                                /\ OutOf(stype, sid, legs[i], a) \in S
                                      <=> legs[i].line = l
    BY <1>3, <1>5, <2>1
  <2>3. NetIn(moves, S).aed = -LegValue(legs, l)
    BY <1>2, <2>2 DEF TransferSums
  <2> QED
    BY <2>1, <2>3
<1>4. ASSUME a[2] # "IN_TRANSIT", b[2] = "IN_TRANSIT"
      PROVE  NetIn(moves, TransitOf(l)).aed = LegValue(legs, l)
  <2>1. PICK S : S = TransitOf(l)
    OBVIOUS
  <2>2. \A i \in 1..Len(legs) : /\ OutOf(stype, sid, legs[i], a) \notin S
                                /\ Into(stype, sid, legs[i], b) \in S
                                      <=> legs[i].line = l
    BY <1>4, <1>5, <2>1
  <2>3. NetIn(moves, S).aed = LegValue(legs, l)
    BY <1>2, <2>2 DEF TransferSums
  <2> QED
    BY <2>1, <2>3
<1> QED
  BY <1>3, <1>4 DEF moves

-----------------------------------------------------------------------------
(* What a step keeps of it *)

\* A line that was sent keeps its places.
LEMMA SentKeeps ==
    ASSUME RecordsFit, RecordsGrow, NEW l \in DOMAIN shipLines, ShipmentOf(l).shipped
    PROVE  /\ l \in DOMAIN shipLines' /\ shipLines'[l].shipment = shipLines[l].shipment
           /\ ShipmentOf(l)' = shipments'[shipLines[l].shipment]
           /\ ShipmentOf(l)'.shipped
           /\ ShipmentOf(l)'.from = ShipmentOf(l).from /\ ShipmentOf(l)'.to = ShipmentOf(l).to
           /\ shipLines'[l].product = shipLines[l].product
           /\ shipLines'[l].quantity = shipLines[l].quantity
           /\ ~shipLines'[l].is_deleted => ~shipLines[l].is_deleted
<1>1. PICK s \in DOMAIN shipments : s = shipLines[l].shipment
  BY RecordTypes
<1>2. shipments[s].shipped
  BY <1>1 DEF ShipmentOf
<1>3. /\ l \in DOMAIN shipLines' /\ shipLines'[l].shipment = s
      /\ shipments'[s].shipped
      /\ shipments'[s].from = shipments[s].from /\ shipments'[s].to = shipments[s].to
      /\ shipLines'[l].product = shipLines[l].product
      /\ shipLines'[l].quantity = shipLines[l].quantity
      /\ shipLines[l].is_deleted => shipLines'[l].is_deleted
  BY <1>1, <1>2 DEF RecordsGrow
<1>4. ShipmentOf(l) = shipments[s] /\ ShipmentOf(l)' = shipments'[s]
  BY <1>1, <1>3 DEF ShipmentOf
<1> QED
  BY <1>1, <1>3, <1>4

\* A line of the next state belongs to a shipment of the next state.
LEMMA RecordTypesNext ==
    ASSUME RecordsFit'
    PROVE  /\ \A l \in DOMAIN shipLines' : shipLines'[l].shipment \in DOMAIN shipments'
           /\ \A l \in DOMAIN shipLines' : l \in 1..Len(shipLines')
           /\ Len(shipments') \in Nat /\ Len(shipLines') \in Nat
           /\ receipts' \in Seq(ReceiptRecords(Len(shipments'), Len(shipLines')))
<1>1. /\ shipments' \in Seq(ShipmentRecords)
      /\ shipLines' \in Seq(ShipLineRecords(Len(shipments')))
      /\ receipts' \in Seq(ReceiptRecords(Len(shipments'), Len(shipLines')))
  BY DEF RecordsFit
<1>2. Len(shipments') \in Nat /\ Len(shipLines') \in Nat
      /\ DOMAIN shipments' = 1..Len(shipments') /\ DOMAIN shipLines' = 1..Len(shipLines')
  BY <1>1
<1>3. \A l \in DOMAIN shipLines' : shipLines'[l] \in ShipLineRecords(Len(shipments'))
  BY <1>1
<1>4. \A l \in DOMAIN shipLines' : shipLines'[l].shipment \in 1..Len(shipments')
  BY <1>3 DEF ShipLineRecords
<1> QED
  BY <1>1, <1>2, <1>4

\* A line is of a positive number of units.
LEMMA QuantityPositive ==
    ASSUME RecordsFit, NEW l \in DOMAIN shipLines
    PROVE  shipLines[l].quantity \in Int /\ shipLines[l].quantity > 0
<1>1. PICK q : q = shipLines[l].quantity
  OBVIOUS
<1>2. q \in Quantities
  BY <1>1, RecordTypes
<1>3. q \in Int /\ q > 0
  BY <1>2, QuantitiesAssumption
<1> QED
  BY <1>1, <1>3

\* Records that agree in route and product have the same places.
LEMMA SamePlaces ==
    ASSUME NEW ship, NEW ship2, NEW line, NEW line2,
           ship2.from = ship.from, ship2.to = ship.to, line2.product = line.product
    PROVE  /\ Gone(ship2, line2) = Gone(ship, line)
           /\ Going(ship2, line2) = Going(ship, line)
           /\ Here(ship2, line2) = Here(ship, line)
BY DEF Gone, Going, Here

\* A line that was not sent has no rows, and no receipt names it.
LEMMA NothingSent ==
    ASSUME Inv, NEW l, l \in DOMAIN shipLines => ~ShipmentOf(l).shipped
    PROVE  /\ \A i \in 1..Len(ledger) : ledger[i] \notin RowsOn(l)
           /\ \A S : S \subseteq RowsOn(l) => NetIn(ledger, S) = NoStock
           /\ Got(receipts, l) = 0
<1>1. ledger \in Seq(Rows) /\ RecordsFit /\ RecordsAgree
  BY DEF Inv, Sound, Book
<1>2. \A i \in 1..Len(ledger) : ledger[i] \notin RowsOn(l)
  <2>1. SUFFICES ASSUME NEW i \in 1..Len(ledger), ledger[i] \in RowsOn(l) PROVE FALSE
    OBVIOUS
  <2>2. PICK row \in Rows : row = ledger[i]
    BY <1>1
  <2>3. row.stype \in ShipTypes /\ row.line = l
    BY <2>1, <2>2, RowOnLine
  <2>4. RowFits(row)
    BY <1>1, <2>2 DEF Inv, RowsFit
  <2>5. l \in DOMAIN shipLines /\ shipments[shipLines[l].shipment].shipped
    BY <2>3, <2>4 DEF RowFits
  <2> QED
    BY <2>5 DEF ShipmentOf
<1>3. ASSUME NEW S, S \subseteq RowsOn(l) PROVE NetIn(ledger, S) = NoStock
  BY <1>1, <1>2, <1>3, NetInNone
<1>4. Got(receipts, l) = 0
  <2>1. PICK n \in Nat, m \in Nat : n = Len(shipments) /\ m = Len(shipLines)
    BY <1>1, RecordTypes
  <2>2. receipts \in Seq(ReceiptRecords(n, m))
    BY <1>1, <2>1 DEF RecordsFit
  <2>3. PICK f : Counts(f, receipts, l)
    BY <2>2, CountsExist
  <2>4. ASSUME NEW r \in 1..Len(receipts) PROVE Named(receipts[r].lines, l) = 0
    <3>1. r \in DOMAIN receipts
      BY <2>2
    <3>2. receipts[r].lines \in Seq(ReceiptLines(m))
      BY <1>1, <2>1, <3>1, RecordTypes
    <3>3. ASSUME NEW i \in 1..Len(receipts[r].lines), receipts[r].lines[i].line = l PROVE FALSE
      <4>1. i \in DOMAIN receipts[r].lines
        BY <3>2
      <4>2. l \in 1..m
        <5>1. PICK item \in ReceiptLines(m) : item = receipts[r].lines[i]
          BY <3>2
        <5>2. item.line \in 1..m
          BY DEF ReceiptLines
        <5> QED
          BY <3>3, <5>1, <5>2
      <4>3. l \in DOMAIN shipLines
        BY <1>1, <2>1, <4>2, RecordTypes
      <4>4. shipLines[l].shipment = receipts[r].shipment /\ shipments[receipts[r].shipment].shipped
        BY <1>1, <3>1, <3>3, <4>1 DEF RecordsAgree
      <4> QED
        BY <4>3, <4>4 DEF ShipmentOf
    <3> QED
      BY <3>2, <3>3, NamedFacts
  <2>5. \A r \in 1..Len(f) : f[r] = 0
    BY <2>3, <2>4 DEF Counts
  <2> QED
    BY <2>3, <2>5, SumSeqZero DEF Counts
<1> QED
  BY <1>2, <1>3, <1>4

\* The quantities the receipts have of a line are numbers.
LEMMA GotType ==
    ASSUME RecordsFit, NEW l
    PROVE  Got(receipts, l) \in Nat
<1>1. PICK n \in Nat, m \in Nat : n = Len(shipments) /\ m = Len(shipLines)
  BY RecordTypes
<1>2. receipts \in Seq(ReceiptRecords(n, m))
  BY <1>1 DEF RecordsFit
<1> QED
  BY <1>2, GotFacts

\* A row that is placed stays so.
LEMMA PlacedStays ==
    ASSUME RecordsFit, RecordsGrow, NEW row, RowFits(row), RowPlaced(row)
    PROVE  RowPlaced(row)'
<1>1. SUFFICES ASSUME row.stype \in ShipTypes
               PROVE  PlacedIn(row, ShipmentOf(row.line)', shipLines'[row.line])
  BY DEF RowPlaced, ShipmentOf
<1>2. PICK l \in DOMAIN shipLines : l = row.line /\ ShipmentOf(l).shipped
  BY <1>1 DEF RowFits, ShipmentOf
<1>3. PlacedIn(row, ShipmentOf(l), shipLines[l])
  BY <1>1, <1>2 DEF RowPlaced
<1>4. PICK ship, ship2, line, line2 :
         /\ ship = ShipmentOf(l) /\ ship2 = ShipmentOf(l)'
         /\ line = shipLines[l] /\ line2 = shipLines'[l]
  OBVIOUS
<1>5. ship2.from = ship.from /\ ship2.to = ship.to /\ line2.product = line.product
  BY <1>2, <1>4, SentKeeps
<1>6. PlacedIn(row, ship2, line2)
  BY <1>3, <1>4, <1>5, SamePlaces DEF PlacedIn
<1> QED
  BY <1>2, <1>4, <1>6

\* Rows that are placed stay so.
LEMMA RowsStayPlaced ==
    ASSUME Inv, RowsPlaced, RecordsGrow, NEW moves \in Seq(Rows), ledger' = ledger \o moves,
           \A k \in 1..Len(moves) : RowPlaced(moves[k])'
    PROVE  RowsPlaced'
<1>1. ledger \in Seq(Rows) /\ RecordsFit
  BY DEF Inv, Sound, Book
<1>2. SUFFICES ASSUME NEW i \in DOMAIN ledger' PROVE RowPlaced(ledger[i])'
  BY DEF RowsPlaced
<1>3. CASE i \in 1..Len(ledger)
  <2>1. ledger'[i] = ledger[i] /\ i \in DOMAIN ledger
    BY <1>1, <1>3
  <2>2. PICK row : row = ledger[i]
    OBVIOUS
  <2>3. RowFits(row) /\ RowPlaced(row)
    BY <2>1, <2>2 DEF Inv, RowsFit, RowsPlaced
  <2>4. RowPlaced(row)'
    BY <1>1, <2>3, PlacedStays
  <2> QED
    BY <2>1, <2>2, <2>4 DEF RowPlaced, ShipmentOf
<1>4. CASE i \notin 1..Len(ledger)
  <2>1. PICK j \in 1..Len(moves) : ledger'[i] = moves[j]
    <3>1. i - Len(ledger) \in 1..Len(moves) /\ ledger'[i] = moves[i - Len(ledger)]
      BY <1>1, <1>2, <1>4
    <3> QED
      BY <3>1
  <2>2. PICK row : row = moves[j]
    OBVIOUS
  <2>3. RowPlaced(moves[j])'
    OBVIOUS
  <2>4. RowPlaced(row)'
    BY <2>2, <2>3
  <2> QED
    BY <2>1, <2>2, <2>4 DEF RowPlaced, ShipmentOf
<1> QED
  BY <1>3, <1>4

\* What movements may do to a line of which `more` is received with them.
LineStep(moves, l, ship, line, cancelled, more) ==
    /\ ship.cancelled => cancelled
    /\ NetIn(moves, LineAt(l, Here(ship, line))).qty = more
    /\ ~cancelled => /\ NetIn(moves, LineAt(l, Gone(ship, line))).qty = 0
                     /\ NetIn(moves, LineAt(l, Going(ship, line))).qty = -more

LEMMA LineMoves ==
    ASSUME NEW rows \in Seq(Rows), NEW moves \in Seq(Rows), NEW l,
           NEW ship, NEW line, NEW ship2, NEW line2, NEW got \in Int, NEW more \in Int,
           line.quantity \in Int, line2.quantity = line.quantity,
           ship2.from = ship.from, ship2.to = ship.to, line2.product = line.product,
           LineMoved(rows, l, ship, line, got),
           LineStep(moves, l, ship, line, ship2.cancelled, more)
    PROVE  LineMoved(rows \o moves, l, ship2, line2, got + more)
<1>1. \A S : NetIn(rows \o moves, S).qty = NetIn(rows, S).qty + NetIn(moves, S).qty
  BY NetInConcat DEF Plus
<1>2. \A S : NetIn(rows, S).qty \in Int /\ NetIn(moves, S).qty \in Int
  BY NetInType
<1>3. PICK gone, going, here : /\ gone = LineAt(l, Gone(ship, line))
                               /\ going = LineAt(l, Going(ship, line))
                               /\ here = LineAt(l, Here(ship, line))
  OBVIOUS
<1>4. /\ gone = LineAt(l, Gone(ship2, line2)) /\ going = LineAt(l, Going(ship2, line2))
      /\ here = LineAt(l, Here(ship2, line2))
  BY <1>3, SamePlaces
<1>5. NetIn(rows \o moves, here).qty = got + more
  BY <1>1, <1>3 DEF LineMoved, LineStep
<1>6. ASSUME ~ship2.cancelled
      PROVE  /\ NetIn(rows \o moves, gone).qty = -line2.quantity
             /\ NetIn(rows \o moves, going).qty = line2.quantity - (got + more)
  <2>1. NetIn(rows, gone).qty = -line.quantity /\ NetIn(rows, going).qty = line.quantity - got
    BY <1>3, <1>6 DEF LineMoved, LineStep
  <2>2. NetIn(moves, gone).qty = 0 /\ NetIn(moves, going).qty = -more
    BY <1>3, <1>6 DEF LineStep
  <2>3. NetIn(rows \o moves, gone).qty = -line.quantity + 0
        /\ NetIn(rows \o moves, going).qty = (line.quantity - got) + (-more)
    BY <1>1, <2>1, <2>2
  <2> QED
    BY <2>3
<1> QED
  BY <1>4, <1>5, <1>6 DEF LineMoved

\* The lines follow after a step, if those sent before took such a part in it and those
\* it sends follow.
LEMMA LinesKeep ==
    ASSUME Inv, Inv', RecordsGrow, LinesFollow,
           NEW moves \in Seq(Rows), ledger' = ledger \o moves,
           \A l \in DOMAIN shipLines : ShipmentOf(l).shipped /\ ~shipLines'[l].is_deleted
              => LineStep(moves, l, ShipmentOf(l), shipLines[l], ShipmentOf(l)'.cancelled,
                          Got(receipts', l) - Got(receipts, l)),
           \A l \in DOMAIN shipLines' :
              /\ ~shipLines'[l].is_deleted /\ ShipmentOf(l)'.shipped
              /\ l \in DOMAIN shipLines => ~ShipmentOf(l).shipped
              => LineMoved(ledger', l, ShipmentOf(l)', shipLines'[l], Got(receipts', l))
    PROVE  LinesFollow'
<1>1. ledger \in Seq(Rows) /\ RecordsFit /\ RecordsFit'
  BY DEF Inv, Sound, Book
<1>2. SUFFICES ASSUME NEW l \in DOMAIN shipLines', ~shipLines'[l].is_deleted,
                      ShipmentOf(l)'.shipped
               PROVE  LineMoved(ledger', l, ShipmentOf(l)', shipLines'[l], Got(receipts', l))
  BY DEF LinesFollow, ShipmentOf
<1>3. CASE l \in DOMAIN shipLines /\ ShipmentOf(l).shipped
  <2>1. PICK ship, ship2, line, line2 :
           /\ ship = ShipmentOf(l) /\ ship2 = ShipmentOf(l)'
           /\ line = shipLines[l] /\ line2 = shipLines'[l]
    OBVIOUS
  <2>2. /\ ship2.from = ship.from /\ ship2.to = ship.to /\ line2.product = line.product
        /\ line2.quantity = line.quantity /\ ~line.is_deleted
    BY <1>1, <1>2, <1>3, <2>1, SentKeeps
  <2>3. line.quantity \in Int
    BY <1>1, <1>3, <2>1, QuantityPositive
  <2>4. PICK got \in Int, after \in Int : got = Got(receipts, l) /\ after = Got(receipts', l)
    <3>1. Got(receipts, l) \in Nat
      BY <1>1, GotType
    <3>2. Got(receipts', l) \in Nat
      <4>1. PICK n, m : n = Len(shipments') /\ m = Len(shipLines')
        OBVIOUS
      <4>2. /\ shipments' \in Seq(ShipmentRecords) /\ shipLines' \in Seq(ShipLineRecords(n))
            /\ receipts' \in Seq(ReceiptRecords(n, m))
        BY <1>1, <4>1 DEF RecordsFit
      <4>3. n \in Nat /\ m \in Nat
        BY <4>1, <4>2
      <4> QED
        BY <4>2, <4>3, GotFacts
    <3> QED
      BY <3>1, <3>2
  <2>5. LineMoved(ledger, l, ship, line, got)
    BY <1>3, <2>1, <2>2, <2>4 DEF LinesFollow
  <2>6. LineStep(moves, l, ship, line, ship2.cancelled, after - got)
    BY <1>2, <1>3, <2>1, <2>4
  <2>7. LineMoved(ledger \o moves, l, ship2, line2, got + (after - got))
    BY <1>1, <2>2, <2>3, <2>5, <2>6, LineMoves
  <2>8. got + (after - got) = after
    BY <2>4
  <2> QED
    BY <2>1, <2>4, <2>7, <2>8
<1>4. CASE ~(l \in DOMAIN shipLines /\ ShipmentOf(l).shipped)
  BY <1>2, <1>4
<1> QED
  BY <1>3, <1>4

\* A receipt has rows of the lines of its own shipment only.
ReceiptSets(r, l) == /\ ReceiptRows(r, l) \subseteq RowsOn(l)
                     /\ \A key : ReceiptAt(r, l, key) \subseteq ReceiptRows(r, l)

LEMMA ReceiptSetsNest == \A r, l : ReceiptSets(r, l)
BY DEF ReceiptSets, ReceiptRows, ReceiptAt

\* The receipts follow after a step, if it posts no more rows of those it leaves alive
\* and the new ones follow.
LEMMA ReceiptsKeep ==
    ASSUME Inv, RecordsGrow, ReceiptsFollow,
           NEW moves \in Seq(Rows), ledger' = ledger \o moves,
           \A r \in DOMAIN receipts : ~receipts'[r].is_deleted =>
              \A k \in 1..Len(moves) : moves[k].stype = "SHIPMENT_RECEIPT" => moves[k].sid # r,
           \A r \in DOMAIN receipts' \ DOMAIN receipts :
              \A l \in DOMAIN shipLines' : shipLines'[l].shipment = receipts'[r].shipment =>
                 ReceiptMoved(ledger', r, l, ShipmentOf(l)', shipLines'[l],
                              Named(receipts'[r].lines, l))
    PROVE  ReceiptsFollow'
<1>1. ledger \in Seq(Rows) /\ RecordsFit /\ RecordsAgree
  BY DEF Inv, Sound, Book
<1>2. SUFFICES ASSUME NEW r \in DOMAIN receipts', ~receipts'[r].is_deleted,
                      NEW l \in DOMAIN shipLines', shipLines'[l].shipment = receipts'[r].shipment
               PROVE  ReceiptMoved(ledger', r, l, ShipmentOf(l)', shipLines'[l],
                                   Named(receipts'[r].lines, l))
  BY DEF ReceiptsFollow, ShipmentOf
<1>3. CASE r \notin DOMAIN receipts
  BY <1>2, <1>3
<1>4. CASE r \in DOMAIN receipts
  <2>1. /\ receipts'[r].shipment = receipts[r].shipment
        /\ receipts'[r].lines = receipts[r].lines
        /\ ~receipts[r].is_deleted
    BY <1>2, <1>4 DEF RecordsGrow
  <2>2. PICK s \in DOMAIN shipments : s = receipts[r].shipment /\ shipments[s].shipped
    BY <1>1, <1>4, RecordTypes DEF RecordsAgree
  <2>3. l \in DOMAIN shipLines
    BY <1>2, <2>1, <2>2 DEF RecordsGrow
  <2>4. shipLines[l].shipment = s
    BY <1>2, <2>1, <2>2, <2>3 DEF RecordsGrow
  <2>5. ShipmentOf(l).shipped
    BY <2>2, <2>4 DEF ShipmentOf
  <2>6. PICK ship, ship2, line, line2 :
           /\ ship = ShipmentOf(l) /\ ship2 = ShipmentOf(l)'
           /\ line = shipLines[l] /\ line2 = shipLines'[l]
    OBVIOUS
  <2>7. ship2.from = ship.from /\ ship2.to = ship.to /\ line2.product = line.product
    BY <1>1, <2>3, <2>5, <2>6, SentKeeps
  <2>8. PICK q : q = Named(receipts[r].lines, l)
    OBVIOUS
  <2>9. ReceiptMoved(ledger, r, l, ship, line, q)
    BY <1>4, <2>1, <2>2, <2>3, <2>4, <2>6, <2>8 DEF ReceiptsFollow
  <2>10. ASSUME NEW key
         PROVE  NetIn(ledger', ReceiptAt(r, l, key)) = NetIn(ledger, ReceiptAt(r, l, key))
    <3>1. \A k \in 1..Len(moves) : moves[k] \notin ReceiptAt(r, l, key)
      BY <1>2, <1>4 DEF ReceiptAt, ReceiptRows
    <3> QED
      BY <1>1, <3>1, OutsideKeeps
  <2>11. ReceiptMoved(ledger', r, l, ship2, line2, q)
    <3>1. PICK going, here : going = Going(ship, line) /\ here = Here(ship, line)
      OBVIOUS
    <3>2. going = Going(ship2, line2) /\ here = Here(ship2, line2)
      BY <2>7, <3>1, SamePlaces
    <3>3. /\ NetIn(ledger', ReceiptAt(r, l, here)).qty = q
          /\ NetIn(ledger', ReceiptAt(r, l, going)).qty = -q
      BY <2>9, <2>10, <3>1 DEF ReceiptMoved
    <3> QED
      BY <3>2, <3>3 DEF ReceiptMoved
  <2> QED
    BY <2>1, <2>6, <2>8, <2>11
<1> QED
  BY <1>3, <1>4

-----------------------------------------------------------------------------
(* Steps that send nothing *)

\* Movements of other lines leave a line alone.
LEMMA UntouchedLine ==
    ASSUME NEW moves \in Seq(Rows), NEW l, \A k \in 1..Len(moves) : moves[k] \notin RowsOn(l),
           NEW ship, NEW line, NEW cancelled, ship.cancelled => cancelled
    PROVE  LineStep(moves, l, ship, line, cancelled, 0)
<1>1. \A key : \A k \in 1..Len(moves) : moves[k] \notin LineAt(l, key)
  BY DEF LineAt
<1>2. \A key : NetIn(moves, LineAt(l, key)) = NoStock
  BY <1>1, NetInNone
<1>3. \A key : NetIn(moves, LineAt(l, key)).qty = 0
  BY <1>2 DEF NoStock
<1> QED
  BY <1>3 DEF LineStep

\* A line whose receipts count as before.
LEMMA StillGot ==
    ASSUME Inv, NEW l, NEW after, after = Got(receipts, l)
    PROVE  after - Got(receipts, l) = 0
<1>1. PICK got \in Nat : got = Got(receipts, l)
  BY GotType DEF Inv
<1> QED
  BY <1>1

\* A line of which the step posts nothing.
LEMMA OtherLine ==
    ASSUME Inv, RecordsGrow, NEW moves \in Seq(Rows),
           \A s \in DOMAIN shipments : shipments[s].cancelled => shipments'[s].cancelled,
           NEW l \in DOMAIN shipLines, ShipmentOf(l).shipped,
           \A k \in 1..Len(moves) : moves[k] \notin RowsOn(l),
           Got(receipts', l) = Got(receipts, l)
    PROVE  LineStep(moves, l, ShipmentOf(l), shipLines[l], ShipmentOf(l)'.cancelled,
                    Got(receipts', l) - Got(receipts, l))
<1>1. RecordsFit
  BY DEF Inv
<1>2. PICK s \in DOMAIN shipments : s = shipLines[l].shipment
  BY <1>1, RecordTypes
<1>3. ShipmentOf(l) = shipments[s] /\ ShipmentOf(l)' = shipments'[s]
  BY <1>1, <1>2, SentKeeps DEF ShipmentOf
<1>4. PICK ship, line, cancelled : /\ ship = ShipmentOf(l) /\ line = shipLines[l]
                                   /\ cancelled = ShipmentOf(l)'.cancelled
  OBVIOUS
<1>5. ship.cancelled => cancelled
  BY <1>2, <1>3, <1>4
<1>6. LineStep(moves, l, ship, line, cancelled, 0)
  BY <1>5, UntouchedLine
<1>7. Got(receipts', l) - Got(receipts, l) = 0
  BY StillGot
<1> QED
  BY <1>4, <1>6, <1>7

\* A step that sends no shipment sends no line.
LEMMA NobodySent ==
    ASSUME RecordsFit', RecordsGrow,
           \A s \in DOMAIN shipments : shipments'[s].shipped => shipments[s].shipped,
           \A s \in DOMAIN shipments' \ DOMAIN shipments : ~shipments'[s].shipped,
           NEW l \in DOMAIN shipLines', ShipmentOf(l)'.shipped,
           l \in DOMAIN shipLines => ~ShipmentOf(l).shipped
    PROVE  FALSE
<1>1. PICK t : t = shipLines'[l].shipment
  OBVIOUS
<1>2. shipments'[t].shipped /\ t \in DOMAIN shipments'
  <2>1. t \in DOMAIN shipments'
    BY <1>1, RecordTypesNext
  <2> QED
    BY <1>1, <2>1 DEF ShipmentOf
<1>3. t \in DOMAIN shipments /\ shipments[t].shipped
  BY <1>2
<1>4. CASE l \in DOMAIN shipLines
  <2>1. shipLines[l].shipment = t
    BY <1>1, <1>4 DEF RecordsGrow
  <2> QED
    BY <1>3, <1>4, <2>1 DEF ShipmentOf
<1>5. CASE l \notin DOMAIN shipLines
  BY <1>1, <1>3, <1>5 DEF RecordsGrow
<1> QED
  BY <1>4, <1>5

\* A step in which other apps post at most, that sends nothing and takes back no
\* cancellation.
LEMMA QuietPlaced ==
    ASSUME Inv, Inv', RecordsGrow, Placed,
           NEW moves \in Seq(Rows), ledger' = ledger \o moves,
           \A k \in 1..Len(moves) : moves[k].stype \notin ShipTypes,
           receipts' = receipts,
           \A s \in DOMAIN shipments : /\ shipments'[s].shipped => shipments[s].shipped
                                       /\ shipments[s].cancelled => shipments'[s].cancelled,
           \A s \in DOMAIN shipments' \ DOMAIN shipments : ~shipments'[s].shipped
    PROVE  Placed'
<1>1. RecordsFit /\ RecordsFit'
  BY DEF Inv
<1>2. RowsPlaced'
  <2>1. ASSUME NEW k \in 1..Len(moves) PROVE RowPlaced(moves[k])'
    <3>1. PICK row : row = moves[k]
      OBVIOUS
    <3>2. row.stype \notin ShipTypes
      BY <3>1
    <3>3. RowPlaced(row)'
      BY <3>2 DEF RowPlaced
    <3> QED
      BY <3>1, <3>3 DEF RowPlaced, ShipmentOf
  <2> QED
    BY <2>1, RowsStayPlaced DEF Placed
<1>3. ReceiptsFollow'
  <2>1. \A k \in 1..Len(moves) : moves[k].stype # "SHIPMENT_RECEIPT"
    BY DEF ShipTypes
  <2> QED
    BY <2>1, ReceiptsKeep DEF Placed
<1>4. LinesFollow'
  <2>1. ASSUME NEW l \in DOMAIN shipLines, ShipmentOf(l).shipped
        PROVE  LineStep(moves, l, ShipmentOf(l), shipLines[l], ShipmentOf(l)'.cancelled,
                        Got(receipts', l) - Got(receipts, l))
    <3>1. \A k \in 1..Len(moves) : moves[k] \notin RowsOn(l)
      BY RowOnLine
    <3> QED
      BY <2>1, <3>1, OtherLine
  <2>2. ASSUME NEW l \in DOMAIN shipLines', ShipmentOf(l)'.shipped,
               l \in DOMAIN shipLines => ~ShipmentOf(l).shipped
        PROVE  FALSE
    BY <1>1, <2>2, NobodySent
  <2> QED
    BY <2>1, <2>2, LinesKeep DEF Placed
<1> QED
  BY <1>2, <1>3, <1>4 DEF Placed

\* What leaves ledger, shipments' state and receipts as they are.
LEMMA NothingPlaced ==
    ASSUME Inv, Inv', RecordsGrow, Placed, ledger' = ledger, receipts' = receipts,
           \A s \in DOMAIN shipments : /\ shipments'[s].shipped => shipments[s].shipped
                                       /\ shipments[s].cancelled => shipments'[s].cancelled,
           \A s \in DOMAIN shipments' \ DOMAIN shipments : ~shipments'[s].shipped
    PROVE  Placed'
<1>1. PICK moves : moves = << >>
  OBVIOUS
<1>2. ledger \in Seq(Rows)
  BY DEF Inv, Sound, Book
<1>3. moves \in Seq(Rows) /\ ledger' = ledger \o moves /\ 1..Len(moves) = {}
  BY <1>1, <1>2
<1> QED
  BY <1>3, QuietPlaced

\* Other apps.
LEMMA OthersPlaced ==
    ASSUME Inv, Inv', RecordsGrow, Placed, OthersPost
    PROVE  Placed'
<1>1. PICK moves \in Seq(Rows), confirm \in BOOLEAN :
         /\ \A i \in DOMAIN moves : moves[i].stype \notin ShipTypes
         /\ Post(moves, confirm)
         /\ UNCHANGED shipmentVars
  BY DEF OthersPost
<1>2. shipments' = shipments /\ receipts' = receipts
  BY <1>1 DEF shipmentVars
<1>3. ledger' = ledger \o moves
  BY <1>1, PostStep
<1>4. \A k \in 1..Len(moves) : moves[k].stype \notin ShipTypes
  BY <1>1
<1> QED
  BY <1>2, <1>3, <1>4, QuietPlaced

\* What changes at most the requests that wait.
LEMMA WaitingPlaced ==
    ASSUME Inv, Inv', RecordsGrow, Placed,
           UNCHANGED <<ledger, balance, shipments, shipLines, receipts>>
    PROVE  Placed'
<1>1. ledger' = ledger /\ shipments' = shipments /\ receipts' = receipts
  OBVIOUS
<1> QED
  BY <1>1, NothingPlaced

\* A draft edited.
LEMMA UpdatePlaced ==
    ASSUME Inv, Inv', RecordsGrow, Placed, Update
    PROVE  Placed'
<1>1. PICK s \in DOMAIN shipments, route \in Routes, payload \in Requests(EditItems) :
         UpdateShipment(s, route, payload)
  BY DEF Update
<1>2. /\ shipments' = [shipments EXCEPT ![s].from = route.from, ![s].to = route.to]
      /\ ledger' = ledger /\ receipts' = receipts
  BY <1>1 DEF UpdateShipment
<1>3. shipments[s] \in ShipmentRecords
  BY RecordTypes DEF Inv
<1>4. PICK old \in ShipmentRecords : old = shipments[s]
  BY <1>3
<1>5. PICK now : now = [old EXCEPT !.from = route.from, !.to = route.to]
  OBVIOUS
<1>6. now.shipped = old.shipped /\ now.cancelled = old.cancelled
  BY <1>5 DEF ShipmentRecords
<1>7. shipments' = [shipments EXCEPT ![s] = now]
  BY <1>2, <1>4, <1>5
<1>8. \A t \in DOMAIN shipments : /\ shipments'[t].shipped = shipments[t].shipped
                                  /\ shipments'[t].cancelled = shipments[t].cancelled
  BY <1>4, <1>6, <1>7
<1>9. DOMAIN shipments' = DOMAIN shipments
  BY <1>7
<1> QED
  BY <1>2, <1>8, <1>9, NothingPlaced

-----------------------------------------------------------------------------
(* Shipping *)

\* Legs name the products their lines have.
ProductsAre(legs, lns) == \A i \in 1..Len(legs) : legs[i].product = lns[legs[i].line].product

\* A row is one of a leg, and placed.
LegPlaced(row, legs, ship, lns) ==
    \E i \in 1..Len(legs) : /\ row.line = legs[i].line
                             /\ PlacedIn(row, ship, lns[legs[i].line])

\* The places of a shipment, and those its receipts touch.
PlaceOf(place, ship, stype) ==
    \/ place \in {<< ship.to, "IN_TRANSIT" >>, << ship.to, "PHYSICAL" >>}
    \/ stype = "SHIPMENT" /\ place = << ship.from, "PHYSICAL" >>

\* A transfer between the places of a shipment, of lines with their products, is placed;
\* if it is a receipt's, and does not touch the source.
LEMMA TransferPlaced ==
    ASSUME NEW stype \in ShipTypes, NEW sid \in Nat, NEW legs \in Seq(Legs),
           NEW a \in Places, NEW b \in Places, NEW ship, NEW lns, ship.from # ship.to,
           ProductsAre(legs, lns), PlaceOf(a, ship, stype), PlaceOf(b, ship, stype),
           NEW k \in 1..Len(Transfers(stype, sid, legs, a, b))
    PROVE  LegPlaced(Transfers(stype, sid, legs, a, b)[k], legs, ship, lns)
<1>1. PICK i \in 1..Len(legs) :
         Transfers(stype, sid, legs, a, b)[k]
            \in {OutOf(stype, sid, legs[i], a), Into(stype, sid, legs[i], b)}
  <2>1. \E i \in 1..Len(legs) :
           Transfers(stype, sid, legs, a, b)[k]
              \in {OutOf(stype, sid, legs[i], a), Into(stype, sid, legs[i], b)}
    BY TransfersFacts
  <2> QED
    BY <2>1
<1>2. PICK row : row = Transfers(stype, sid, legs, a, b)[k]
  OBVIOUS
<1>3. PICK leg \in Legs : leg = legs[i]
  OBVIOUS
<1>4. PICK line : line = lns[leg.line]
  OBVIOUS
<1>5. leg.product = line.product
  BY <1>3, <1>4 DEF ProductsAre
<1>6. \E place \in {a, b} : /\ row.stype = stype /\ row.line = leg.line
                            /\ KeyOf(row) = << leg.product, place[1], place[2] >>
  <2>1. /\ OutOf(stype, sid, leg, a).stype = stype /\ OutOf(stype, sid, leg, a).line = leg.line
        /\ KeyOf(OutOf(stype, sid, leg, a)) = << leg.product, a[1], a[2] >>
    BY DEF OutOf, StockMove, KeyOf
  <2>2. /\ Into(stype, sid, leg, b).stype = stype /\ Into(stype, sid, leg, b).line = leg.line
        /\ KeyOf(Into(stype, sid, leg, b)) = << leg.product, b[1], b[2] >>
    BY DEF Into, StockMove, KeyOf
  <2> QED
    BY <1>1, <1>2, <1>3, <2>1, <2>2
<1>7. PICK place \in {a, b} : /\ row.stype = stype /\ row.line = leg.line
                              /\ KeyOf(row) = << leg.product, place[1], place[2] >>
  BY <1>6
<1>8. /\ place \in {<< ship.from, "PHYSICAL" >>, << ship.to, "IN_TRANSIT" >>,
                    << ship.to, "PHYSICAL" >>}
      /\ stype = "SHIPMENT_RECEIPT" => place # << ship.from, "PHYSICAL" >>
  BY <1>7 DEF PlaceOf
<1>9. PICK loc, bucket : place = << loc, bucket >>
  BY <1>8
<1>10. KeyOf(row) = << line.product, loc, bucket >>
  BY <1>5, <1>7, <1>9
<1>11. KeyOf(row) \in {Gone(ship, line), Going(ship, line), Here(ship, line)}
  BY <1>8, <1>9, <1>10 DEF Gone, Going, Here
<1>12. row.stype = "SHIPMENT_RECEIPT" => KeyOf(row) # Gone(ship, line)
  BY <1>7, <1>8, <1>9, <1>10 DEF Gone
<1> QED
  BY <1>2, <1>3, <1>4, <1>7, <1>11, <1>12 DEF PlacedIn, LegPlaced

\* Movements of other lines are not rows of a line.
LEMMA RowsOffLine ==
    ASSUME NEW moves \in Seq(Rows), NEW l, \A k \in 1..Len(moves) : moves[k].line # l
    PROVE  \A k \in 1..Len(moves) : moves[k] \notin RowsOn(l)
<1>1. \A k \in 1..Len(moves) : moves[k] \in Rows
  OBVIOUS
<1> QED
  BY <1>1, RowOnLine

\* Lines that were not on their way, once the shipment they are in is sent.
LEMMA LineSent ==
    ASSUME NEW rows \in Seq(Rows), NEW s \in Nat, NEW legs \in Seq(Legs),
           NEW ship, ship.from \in Locations, ship.to \in Locations, ship.from # ship.to,
           NEW l, NEW line, line.quantity \in Int, LegSum(legs, l) = line.quantity,
           ProductIs(legs, l, line.product),
           \A S : S \subseteq RowsOn(l) => NetIn(rows, S) = NoStock,
           NEW moves, moves = Transfers("SHIPMENT", s, legs, << ship.from, "PHYSICAL" >>,
                                                            << ship.to, "IN_TRANSIT" >>)
    PROVE  LineMoved(rows \o moves, l, ship, line, 0)
<1>1. PICK a \in Places, b \in Places : /\ a = << ship.from, "PHYSICAL" >>
                                       /\ b = << ship.to, "IN_TRANSIT" >>
  <2>1. << ship.from, "PHYSICAL" >> \in Places /\ << ship.to, "IN_TRANSIT" >> \in Places
    BY DEF Places, Buckets
  <2> QED
    BY <2>1
<1>2. a # b /\ "SHIPMENT" \in ShipTypes
  BY <1>1 DEF ShipTypes
<1>3. PICK gone, going, here : /\ gone = Gone(ship, line) /\ going = Going(ship, line)
                               /\ here = Here(ship, line)
  OBVIOUS
<1>13. PICK p : p = line.product
  OBVIOUS
<1>4. /\ gone = << p, a[1], a[2] >> /\ going = << p, b[1], b[2] >>
      /\ here # gone /\ here # going
  BY <1>1, <1>3, <1>13 DEF Gone, Going, Here
<1>5. /\ NetIn(moves, LineAt(l, gone)).qty = -LegSum(legs, l)
      /\ NetIn(moves, LineAt(l, going)).qty = LegSum(legs, l)
      /\ \A key : key # gone /\ key # going => NetIn(moves, LineAt(l, key)) = NoStock
  <2>1. moves = Transfers("SHIPMENT", s, legs, a, b)
    BY <1>1
  <2>2. ProductIs(legs, l, p)
    BY <1>13
  <2>3. MovesLine(moves, l, KeyAt(p, a), KeyAt(p, b), LegSum(legs, l))
    <3>1. PICK stype \in ShipTypes : stype = "SHIPMENT"
      BY <1>2
    <3>2. MovesLine(Transfers(stype, s, legs, a, b), l, KeyAt(p, a), KeyAt(p, b),
                    LegSum(legs, l))
      BY <1>2, <2>2, TransferNet
    <3> QED
      BY <2>1, <3>1, <3>2
  <2> QED
    BY <1>4, <2>3 DEF MovesLine, KeyAt
<1>6. /\ NetIn(moves, LineAt(l, gone)).qty = -line.quantity
      /\ NetIn(moves, LineAt(l, going)).qty = line.quantity
      /\ NetIn(moves, LineAt(l, here)).qty = 0
  <2>1. NetIn(moves, LineAt(l, here)) = NoStock
    BY <1>4, <1>5
  <2> QED
    BY <1>5, <2>1 DEF NoStock
<1>7. moves \in Seq(Rows)
  BY <1>1, <1>2, TransfersFacts
<1>8. \A key : NetIn(rows \o moves, LineAt(l, key)).qty
                  = NetIn(rows, LineAt(l, key)).qty + NetIn(moves, LineAt(l, key)).qty
  BY <1>7, NetInConcat DEF Plus
<1>9. \A key : NetIn(rows, LineAt(l, key)).qty = 0
  BY DEF LineAt, NoStock
<1>10. PICK q \in Int : q = line.quantity
  OBVIOUS
<1>11. /\ NetIn(rows \o moves, LineAt(l, gone)).qty = 0 + (-q)
       /\ NetIn(rows \o moves, LineAt(l, going)).qty = 0 + q
       /\ NetIn(rows \o moves, LineAt(l, here)).qty = 0 + 0
  BY <1>6, <1>8, <1>9, <1>10
<1>12. 0 + (-q) = -q /\ 0 + q = q - 0 /\ 0 + 0 = 0
  OBVIOUS
<1> QED
  BY <1>3, <1>10, <1>11, <1>12 DEF LineMoved

\* What shipping posts for the shipment s, drafted before or with it.
LEMMA SendingPlaced ==
    ASSUME Inv, Inv', RecordsGrow, Placed,
           NEW s \in DOMAIN shipments', s \in DOMAIN shipments => ~shipments[s].shipped,
           NEW legs, LegsOf(legs, s, shipLines'),
           NEW moves, moves = Transfers("SHIPMENT", s, legs,
                                        << shipments'[s].from, "PHYSICAL" >>,
                                        << shipments'[s].to, "IN_TRANSIT" >>),
           ledger' = ledger \o moves, receipts' = receipts,
           \A t \in DOMAIN shipments : /\ t # s /\ shipments'[t].shipped => shipments[t].shipped
                                       /\ shipments[t].cancelled => shipments'[t].cancelled,
           \A t \in DOMAIN shipments' : t \in DOMAIN shipments \/ t = s
    PROVE  Placed'
<1>1. /\ RecordsFit /\ RecordsAgree /\ ledger \in Seq(Rows)
      /\ RecordsFit' /\ RecordsAgree'
  BY DEF Inv, Sound, Book
<1>2. PICK ship, lns, n : ship = shipments'[s] /\ lns = shipLines' /\ n = Len(shipments')
  OBVIOUS
<1>3. /\ ship \in ShipmentRecords /\ lns \in Seq(ShipLineRecords(n)) /\ s \in Nat
      /\ ship.from # ship.to
  <2>1. shipments' \in Seq(ShipmentRecords)
    BY <1>1 DEF RecordsFit
  <2>2. shipLines' \in Seq(ShipLineRecords(n))
    BY <1>1, <1>2 DEF RecordsFit
  <2>3. ship.from # ship.to
    BY <1>1, <1>2 DEF RecordsAgree
  <2> QED
    BY <1>2, <2>1, <2>2, <2>3
<1>4. ship.from \in Locations /\ ship.to \in Locations
  BY <1>3 DEF ShipmentRecords
<1>5. PICK own : own = Ordered(LinesOf(lns, s), Len(lns))
  OBVIOUS
<1>6. /\ Len(lns) \in Nat /\ DOMAIN lns = 1..Len(lns)
      /\ LinesOf(lns, s) \in SUBSET (1..Len(lns))
  BY <1>3 DEF LinesOf
<1>7. /\ \A j, k \in 1..Len(own) : own[j] = own[k] => j = k
      /\ \A l \in LinesOf(lns, s) : \E j \in 1..Len(own) : own[j] = l
  <2>1. PICK m \in Nat : m = Len(lns)
    BY <1>6
  <2>2. PICK ids \in SUBSET (1..m) : ids = LinesOf(lns, s)
    BY <1>6, <2>1
  <2>3. own = Ordered(ids, m)
    BY <1>5, <2>1, <2>2
  <2>4. /\ \A j, k \in 1..Len(Ordered(ids, m)) : Ordered(ids, m)[j] = Ordered(ids, m)[k] => j = k
        /\ \A l \in ids : \E j \in 1..Len(Ordered(ids, m)) : Ordered(ids, m)[j] = l
    BY OrderedFacts
  <2> QED
    BY <2>2, <2>3, <2>4
<1>8. /\ legs \in Seq(Legs) /\ Len(legs) = Len(own)
      /\ \A i \in 1..Len(legs) : /\ legs[i].line = own[i] /\ own[i] \in LinesOf(lns, s)
                                  /\ legs[i].product = lns[own[i]].product
                                  /\ legs[i].qty = lns[own[i]].quantity
  BY <1>2, <1>5 DEF LegsOf
<1>9. \A i \in 1..Len(legs) : /\ legs[i].line \in DOMAIN lns
                              /\ lns[legs[i].line].shipment = s
                              /\ legs[i].product = lns[legs[i].line].product
  BY <1>8 DEF LinesOf
<1>10. PICK a \in Places, b \in Places : /\ a = << ship.from, "PHYSICAL" >>
                                        /\ b = << ship.to, "IN_TRANSIT" >>
  <2>1. << ship.from, "PHYSICAL" >> \in Places /\ << ship.to, "IN_TRANSIT" >> \in Places
    BY <1>4 DEF Places, Buckets
  <2> QED
    BY <2>1
<1>11. moves = Transfers("SHIPMENT", s, legs, a, b) /\ "SHIPMENT" \in ShipTypes
  BY <1>2, <1>10 DEF ShipTypes
<1>12. MovesOf(moves, "SHIPMENT", s, legs) /\ moves \in Seq(Rows)
  BY <1>3, <1>8, <1>11, TransferRows, TransfersFacts
<1>13. RowsPlaced'
  <2>1. ASSUME NEW k \in 1..Len(moves) PROVE RowPlaced(moves[k])'
    <3>1. PICK row : row = moves[k]
      OBVIOUS
    <3>2. PICK i \in 1..Len(legs) : row.line = legs[i].line /\ PlacedIn(row, ship, lns[legs[i].line])
      <4>1. PICK stype \in ShipTypes : stype = "SHIPMENT"
        BY <1>11
      <4>2. PlaceOf(a, ship, stype) /\ PlaceOf(b, ship, stype) /\ ship.from # ship.to
        BY <1>3, <1>10, <4>1 DEF PlaceOf
      <4>3. ProductsAre(legs, lns) /\ legs \in Seq(Legs) /\ s \in Nat
        BY <1>3, <1>8, <1>9 DEF ProductsAre
      <4>4. moves = Transfers(stype, s, legs, a, b)
        BY <1>11, <4>1
      <4>5. LegPlaced(Transfers(stype, s, legs, a, b)[k], legs, ship, lns)
        BY <4>2, <4>3, <4>4, TransferPlaced
      <4> QED
        BY <3>1, <4>4, <4>5 DEF LegPlaced
    <3>3. ShipmentOf(row.line)' = ship /\ shipLines'[row.line] = lns[legs[i].line]
      BY <1>2, <1>9, <3>2 DEF ShipmentOf
    <3>4. RowPlaced(row)'
      BY <3>2, <3>3 DEF RowPlaced
    <3> QED
      BY <3>1, <3>4 DEF RowPlaced, ShipmentOf
  <2> QED
    BY <1>12, <2>1, RowsStayPlaced DEF Placed
<1>14. ReceiptsFollow'
  <2>1. \A k \in 1..Len(moves) : moves[k].stype # "SHIPMENT_RECEIPT"
    BY <1>12 DEF MovesOf
  <2> QED
    BY <1>12, <2>1, ReceiptsKeep DEF Placed
<1>15. LinesFollow'
  <2>1. ASSUME NEW l \in DOMAIN shipLines, ShipmentOf(l).shipped
        PROVE  LineStep(moves, l, ShipmentOf(l), shipLines[l], ShipmentOf(l)'.cancelled,
                        Got(receipts', l) - Got(receipts, l))
    <3>1. PICK t \in DOMAIN shipments : t = shipLines[l].shipment
      BY <1>1, RecordTypes
    <3>2. t # s /\ l \in DOMAIN lns /\ lns[l].shipment = t
      BY <1>1, <1>2, <2>1, <3>1, SentKeeps DEF ShipmentOf
    <3>3. \A k \in 1..Len(moves) : moves[k] \notin RowsOn(l)
      <4>1. ASSUME NEW k \in 1..Len(moves) PROVE moves[k].line # l
        <5>1. PICK i \in 1..Len(legs) : moves[k].line = legs[i].line
          BY <1>12 DEF MovesOf
        <5>2. lns[legs[i].line].shipment = s
          BY <1>9
        <5> QED
          BY <3>2, <5>1, <5>2
      <4>2. moves \in Seq(Rows)
        BY <1>12
      <4> QED
        BY <4>1, <4>2, RowsOffLine
    <3> QED
      BY <1>12, <2>1, <3>3, OtherLine
  <2>2. ASSUME NEW l \in DOMAIN shipLines', ~shipLines'[l].is_deleted, ShipmentOf(l)'.shipped,
               l \in DOMAIN shipLines => ~ShipmentOf(l).shipped
        PROVE  LineMoved(ledger', l, ShipmentOf(l)', shipLines'[l], Got(receipts', l))
    <3>1. PICK t : t = lns[l].shipment
      OBVIOUS
    <3>2. shipments'[t].shipped /\ t \in DOMAIN shipments'
      <4>1. t \in DOMAIN shipments'
        BY <1>1, <1>2, <3>1, RecordTypesNext
      <4> QED
        BY <1>2, <2>2, <3>1, <4>1 DEF ShipmentOf
    <3>3. t = s
      <4>1. SUFFICES ASSUME t # s PROVE FALSE
        OBVIOUS
      <4>2. t \in DOMAIN shipments /\ shipments[t].shipped
        BY <3>2, <4>1
      <4>3. CASE l \in DOMAIN shipLines
        <5>1. shipLines[l].shipment = t
          BY <1>2, <3>1, <4>3 DEF RecordsGrow
        <5> QED
          BY <2>2, <4>2, <4>3, <5>1 DEF ShipmentOf
      <4>4. CASE l \notin DOMAIN shipLines
        BY <1>2, <3>1, <4>2, <4>4 DEF RecordsGrow
      <4> QED
        BY <4>3, <4>4
    <3>4. l \in LinesOf(lns, s)
      BY <1>2, <2>2, <3>1, <3>3 DEF LinesOf
    <3>5. PICK j \in 1..Len(legs) : own[j] = l
      BY <1>7, <1>8, <3>4
    <3>6. PICK line : line = lns[l]
      OBVIOUS
    <3>7. /\ legs[j].line = l /\ legs[j].qty = line.quantity
          /\ \A i \in 1..Len(legs) : legs[i].line = l => i = j
          /\ ProductIs(legs, l, line.product)
      BY <1>7, <1>8, <3>5, <3>6 DEF ProductIs
    <3>8. LegSum(legs, l) = line.quantity /\ LegSum(legs, l) \in Int
      <4>1. legs \in Seq(Legs)
        BY <1>8
      <4>2. LegSum(legs, l) = legs[j].qty /\ LegSum(legs, l) \in Int
        BY <3>7, <4>1, LegSums
      <4> QED
        BY <3>7, <4>2
    <3>9. /\ \A S : S \subseteq RowsOn(l) => NetIn(ledger, S) = NoStock
          /\ Got(receipts, l) = 0
      BY <2>2, NothingSent
    <3>10. line.quantity \in Int
      BY <3>8
    <3>11. moves = Transfers("SHIPMENT", s, legs, << ship.from, "PHYSICAL" >>,
                                                 << ship.to, "IN_TRANSIT" >>)
      BY <1>2
    <3>12. LineMoved(ledger \o moves, l, ship, line, 0)
      <4>1. legs \in Seq(Legs) /\ ledger \in Seq(Rows) /\ s \in Nat
        BY <1>1, <1>3, <1>8
      <4> QED
        BY <1>3, <1>4, <3>7, <3>8, <3>9, <3>10, <3>11, <4>1, LineSent
    <3>13. ShipmentOf(l)' = ship /\ shipLines'[l] = line /\ Got(receipts', l) = 0
      BY <1>2, <3>1, <3>3, <3>6, <3>9 DEF ShipmentOf
    <3> QED
      BY <3>12, <3>13
  <2> QED
    BY <1>12, <2>1, <2>2, LinesKeep DEF Placed
<1> QED
  BY <1>13, <1>14, <1>15 DEF Placed

\* A draft shipped.
LEMMA ShipPlaced ==
    ASSUME Inv, Inv', RecordsGrow, Placed, Ship
    PROVE  Placed'
<1>1. PICK s \in DOMAIN shipments, confirm \in Confirms : ShipShipment(s, confirm)
  BY DEF Ship
<1>2. /\ ~shipments[s].shipped
      /\ Post(ShipMoves(s, shipments[s], shipLines), confirm)
      /\ shipments' = [shipments EXCEPT ![s].shipped = TRUE]
      /\ shipLines' = shipLines /\ receipts' = receipts
  BY <1>1 DEF ShipShipment
<1>3. RecordsFit
  BY DEF Inv
<1>4. PICK old \in ShipmentRecords : old = shipments[s]
  BY <1>3, RecordTypes
<1>5. PICK now : now = [old EXCEPT !.shipped = TRUE]
  OBVIOUS
<1>6. /\ now.from = old.from /\ now.to = old.to /\ now.cancelled = old.cancelled
      /\ old.from \in Locations /\ old.to \in Locations
  BY <1>5 DEF ShipmentRecords
<1>7. shipments' = [shipments EXCEPT ![s] = now]
  BY <1>2, <1>4, <1>5
<1>8. /\ DOMAIN shipments' = DOMAIN shipments /\ shipments'[s] = now
      /\ \A t \in DOMAIN shipments : /\ t # s => shipments'[t].shipped = shipments[t].shipped
                                     /\ shipments[t].cancelled => shipments'[t].cancelled
  BY <1>4, <1>6, <1>7
<1>9. s \in Nat
  BY <1>3, RecordTypes
<1>10. PICK n \in Nat : shipLines \in Seq(ShipLineRecords(n))
  BY <1>3, RecordTypes DEF RecordsFit
<1>11. PICK moves \in Seq(Rows), legs \in Seq(Legs) :
          /\ ledger' = ledger \o moves
          /\ LegsOf(legs, s, shipLines)
          /\ moves = Transfers("SHIPMENT", s, legs, << old.from, "PHYSICAL" >>,
                                                   << old.to, "IN_TRANSIT" >>)
  <2>1. Post(ShipMoves(s, old, shipLines), confirm)
    BY <1>2, <1>4
  <2>2. \E moves \in Seq(Rows), legs \in Seq(Legs) :
           /\ ledger' = ledger \o moves
           /\ LegsOf(legs, s, shipLines)
           /\ moves = Transfers("SHIPMENT", s, legs, << old.from, "PHYSICAL" >>,
                                                    << old.to, "IN_TRANSIT" >>)
    BY <1>6, <1>9, <1>10, <2>1, ShippingPosts
  <2> QED
    BY <2>2
<1>12. /\ LegsOf(legs, s, shipLines')
       /\ moves = Transfers("SHIPMENT", s, legs, << shipments'[s].from, "PHYSICAL" >>,
                                                << shipments'[s].to, "IN_TRANSIT" >>)
  BY <1>2, <1>6, <1>8, <1>11
<1>13. /\ s \in DOMAIN shipments'
       /\ \A t \in DOMAIN shipments : /\ t # s /\ shipments'[t].shipped => shipments[t].shipped
                                      /\ shipments[t].cancelled => shipments'[t].cancelled
       /\ \A t \in DOMAIN shipments' : t \in DOMAIN shipments \/ t = s
  BY <1>8
<1> QED
  BY <1>2, <1>11, <1>12, <1>13, SendingPlaced

\* A shipment entered, as a draft or as shipped.
LEMMA CreatePlaced ==
    ASSUME Inv, Inv', RecordsGrow, Placed, Create
    PROVE  Placed'
<1>1. PICK route \in Routes, terms \in Requests(LineTerms), ship \in BOOLEAN, confirm \in Confirms :
         CreateShipment(route, terms, ship, confirm)
  BY DEF Create
<1>2. PICK s, new, lns : /\ s = Len(shipments) + 1
                         /\ new = [i \in DOMAIN terms |-> NewShipLine(s, terms[i])]
                         /\ lns = shipLines \o new
  OBVIOUS
<1>3. /\ IF ship THEN Post(ShipMoves(s, route, lns), confirm) ELSE Install(Book)
      /\ shipments' = Append(shipments, [from |-> route.from, to |-> route.to,
                                         shipped |-> ship, cancelled |-> FALSE,
                                         is_deleted |-> FALSE])
      /\ shipLines' = lns
      /\ receipts' = receipts
  BY <1>1, <1>2 DEF CreateShipment
<1>4. route.from \in Locations /\ route.to \in Locations
  BY DEF Routes
<1>5. RecordsFit /\ RecordsFit'
  BY DEF Inv
<1>6. /\ Len(shipments) \in Nat /\ DOMAIN shipments = 1..Len(shipments)
      /\ shipments \in Seq(ShipmentRecords)
  BY <1>5, RecordTypes DEF RecordsFit
<1>7. PICK now : now = [from |-> route.from, to |-> route.to, shipped |-> ship,
                        cancelled |-> FALSE, is_deleted |-> FALSE]
  OBVIOUS
<1>8. now \in ShipmentRecords /\ now.from = route.from /\ now.to = route.to /\ now.shipped = ship
  BY <1>4, <1>7 DEF ShipmentRecords
<1>9. /\ s \in Nat /\ s \in DOMAIN shipments' /\ s \notin DOMAIN shipments
      /\ shipments'[s] = now
      /\ \A t \in DOMAIN shipments : shipments'[t] = shipments[t]
      /\ \A t \in DOMAIN shipments' : t \in DOMAIN shipments \/ t = s
  BY <1>2, <1>3, <1>6, <1>7, <1>8, AppendProperties
<1>10. CASE ~ship
  <2>1. ledger' = ledger
    BY <1>3, <1>10 DEF Install, Book
  <2>2. /\ \A t \in DOMAIN shipments : /\ shipments'[t].shipped => shipments[t].shipped
                                       /\ shipments[t].cancelled => shipments'[t].cancelled
        /\ \A t \in DOMAIN shipments' \ DOMAIN shipments : ~shipments'[t].shipped
    BY <1>8, <1>9, <1>10
  <2> QED
    BY <1>3, <2>1, <2>2, NothingPlaced
<1>11. CASE ship
  <2>1. PICK n \in Nat : lns \in Seq(ShipLineRecords(n))
    BY <1>3, <1>5, RecordTypesNext DEF RecordsFit
  <2>2. PICK moves \in Seq(Rows), legs \in Seq(Legs) :
           /\ ledger' = ledger \o moves
           /\ LegsOf(legs, s, lns)
           /\ moves = Transfers("SHIPMENT", s, legs, << route.from, "PHYSICAL" >>,
                                                    << route.to, "IN_TRANSIT" >>)
    <3>1. Post(ShipMoves(s, route, lns), confirm)
      BY <1>3, <1>11
    <3> QED
      BY <1>4, <1>9, <2>1, <3>1, ShippingPosts
  <2>3. /\ LegsOf(legs, s, shipLines')
        /\ moves = Transfers("SHIPMENT", s, legs, << shipments'[s].from, "PHYSICAL" >>,
                                                 << shipments'[s].to, "IN_TRANSIT" >>)
    BY <1>3, <1>8, <1>9, <2>2
  <2>4. /\ s \in DOMAIN shipments => ~shipments[s].shipped
        /\ \A t \in DOMAIN shipments : /\ t # s /\ shipments'[t].shipped => shipments[t].shipped
                                       /\ shipments[t].cancelled => shipments'[t].cancelled
    BY <1>9
  <2> QED
    BY <1>3, <1>9, <2>2, <2>3, <2>4, SendingPlaced
<1> QED
  BY <1>10, <1>11

-----------------------------------------------------------------------------
(* Cancelling *)

\* What is still on the way goes back; a draft has nothing on the way.
LEMMA CancelPlaced ==
    ASSUME Inv, Inv', RecordsGrow, Placed, Cancel
    PROVE  Placed'
<1>1. PICK s \in DOMAIN shipments : CancelShipment(s)
  BY DEF Cancel
<1>2. /\ IF shipments[s].shipped THEN Post(UnreceivedMoves(s), FALSE) ELSE Install(Book)
      /\ shipments' = [shipments EXCEPT ![s].cancelled = TRUE]
      /\ shipLines' = shipLines /\ receipts' = receipts
  BY <1>1 DEF CancelShipment
<1>3. RecordsFit /\ RecordsAgree /\ ledger \in Seq(Rows) /\ RecordsFit'
  BY DEF Inv, Sound, Book
<1>4. PICK old \in ShipmentRecords : old = shipments[s]
  BY <1>3, RecordTypes
<1>5. PICK now : now = [old EXCEPT !.cancelled = TRUE]
  OBVIOUS
<1>6. /\ now.from = old.from /\ now.to = old.to /\ now.shipped = old.shipped /\ now.cancelled
      /\ old.from \in Locations /\ old.to \in Locations
  BY <1>5 DEF ShipmentRecords
<1>7. old.from # old.to
  BY <1>3, <1>4 DEF RecordsAgree
<1>8. /\ DOMAIN shipments' = DOMAIN shipments /\ shipments'[s] = now
      /\ \A t \in DOMAIN shipments : /\ shipments'[t].shipped = shipments[t].shipped
                                     /\ shipments[t].cancelled => shipments'[t].cancelled
  <2>1. shipments' = [shipments EXCEPT ![s] = now]
    BY <1>2, <1>4, <1>5
  <2> QED
    BY <1>4, <1>6, <2>1
<1>9. CASE ~old.shipped
  <2>1. ledger' = ledger
    BY <1>2, <1>4, <1>9 DEF Install, Book
  <2> QED
    BY <1>2, <1>8, <2>1, NothingPlaced
<1>10. CASE old.shipped
  <2>1. PICK moves \in Seq(Rows), legs \in Seq(Legs) :
           /\ ledger' = ledger \o moves
           /\ RestLegsOf(legs, s)
           /\ MovesOf(moves, "SHIPMENT", s, legs)
           /\ moves = Transfers("SHIPMENT", s, legs, << old.to, "IN_TRANSIT" >>,
                                                    << old.from, "PHYSICAL" >>)
    <3>1. Post(UnreceivedMoves(s), FALSE)
      BY <1>2, <1>4, <1>10
    <3> QED
      BY <1>4, <3>1, CancellingPosts
  <2>2. \A i \in 1..Len(legs) : /\ legs[i].line \in DOMAIN shipLines
                                /\ shipLines[legs[i].line].shipment = s
                                /\ legs[i].product = shipLines[legs[i].line].product
    BY <2>1 DEF RestLegsOf, OpenLines, LinesOf
  <2>3. PICK a \in Places, b \in Places : /\ a = << old.to, "IN_TRANSIT" >>
                                         /\ b = << old.from, "PHYSICAL" >>
    <3>1. << old.from, "PHYSICAL" >> \in Places /\ << old.to, "IN_TRANSIT" >> \in Places
      BY <1>6 DEF Places, Buckets
    <3> QED
      BY <3>1
  <2>4. PICK stype \in ShipTypes : stype = "SHIPMENT"
    BY DEF ShipTypes
  <2>5. moves = Transfers(stype, s, legs, a, b) /\ s \in Nat
    BY <1>3, <2>1, <2>3, <2>4, RecordTypes
  <2>6. RowsPlaced'
    <3>1. ASSUME NEW k \in 1..Len(moves) PROVE RowPlaced(moves[k])'
      <4>1. PICK row : row = moves[k]
        OBVIOUS
      <4>2. PlaceOf(a, now, stype) /\ PlaceOf(b, now, stype) /\ now.from # now.to
        BY <1>6, <1>7, <2>3, <2>4 DEF PlaceOf
      <4>3. PICK lns : lns = shipLines
        OBVIOUS
      <4>4. ProductsAre(legs, lns)
        BY <2>2, <4>3 DEF ProductsAre
      <4>5. LegPlaced(Transfers(stype, s, legs, a, b)[k], legs, now, lns)
        BY <2>5, <4>2, <4>4, TransferPlaced
      <4>6. PICK i \in 1..Len(legs) : /\ row.line = legs[i].line
                                      /\ PlacedIn(row, now, lns[legs[i].line])
        BY <2>5, <4>1, <4>5 DEF LegPlaced
      <4>7. ShipmentOf(row.line)' = now /\ shipLines'[row.line] = lns[legs[i].line]
        BY <1>2, <1>8, <2>2, <4>3, <4>6 DEF ShipmentOf
      <4>8. RowPlaced(row)'
        BY <4>6, <4>7 DEF RowPlaced
      <4> QED
        BY <4>1, <4>8 DEF RowPlaced, ShipmentOf
    <3> QED
      BY <2>1, <3>1, RowsStayPlaced DEF Placed
  <2>7. ReceiptsFollow'
    <3>1. \A k \in 1..Len(moves) : moves[k].stype # "SHIPMENT_RECEIPT"
      BY <2>1 DEF MovesOf
    <3> QED
      BY <1>2, <2>1, <3>1, ReceiptsKeep DEF Placed
  <2>8. LinesFollow'
    <3>1. ASSUME NEW l \in DOMAIN shipLines, ShipmentOf(l).shipped
          PROVE  LineStep(moves, l, ShipmentOf(l), shipLines[l], ShipmentOf(l)'.cancelled,
                          Got(receipts', l) - Got(receipts, l))
      <4>1. CASE shipLines[l].shipment # s
        <5>1. ASSUME NEW k \in 1..Len(moves) PROVE moves[k].line # l
          BY <2>1, <2>2, <4>1 DEF MovesOf
        <5>2. \A k \in 1..Len(moves) : moves[k] \notin RowsOn(l)
          BY <2>1, <5>1, RowsOffLine
        <5> QED
          BY <1>2, <1>8, <2>1, <3>1, <5>2, OtherLine
      <4>2. CASE shipLines[l].shipment = s
        <5>1. ShipmentOf(l) = old /\ ShipmentOf(l)' = now
          BY <1>2, <1>4, <1>8, <4>2 DEF ShipmentOf
        <5>2. PICK line, p : line = shipLines[l] /\ p = line.product
          OBVIOUS
        <5>3. ProductIs(legs, l, p)
          BY <2>2, <5>2 DEF ProductIs
        <5>4. a # b
          BY <2>3
        <5>5. MovesLine(Transfers(stype, s, legs, a, b), l, KeyAt(p, a), KeyAt(p, b),
                        LegSum(legs, l))
          BY <2>5, <5>3, <5>4, TransferNet
        <5>6. PICK here : here = Here(old, line)
          OBVIOUS
        <5>7. here # KeyAt(p, a) /\ here # KeyAt(p, b)
          BY <1>7, <2>3, <5>2, <5>6 DEF Here, KeyAt
        <5>8. NetIn(moves, LineAt(l, here)) = NoStock
          BY <2>5, <5>5, <5>7 DEF MovesLine
        <5>9. LineStep(moves, l, old, line, now.cancelled, 0)
          BY <1>6, <5>6, <5>8 DEF LineStep, NoStock
        <5>10. Got(receipts', l) - Got(receipts, l) = 0
          BY <1>2, StillGot
        <5> QED
          BY <5>1, <5>2, <5>9, <5>10
      <4> QED
        BY <4>1, <4>2
    <3>2. ASSUME NEW l \in DOMAIN shipLines', ShipmentOf(l)'.shipped,
                 l \in DOMAIN shipLines => ~ShipmentOf(l).shipped
          PROVE  FALSE
      BY <1>3, <1>8, <3>2, NobodySent
    <3> QED
      BY <2>1, <3>1, <3>2, LinesKeep DEF Placed
  <2> QED
    BY <2>6, <2>7, <2>8 DEF Placed
<1> QED
  BY <1>9, <1>10

-----------------------------------------------------------------------------
(* Receiving *)

\* The lines of the receipt for these items.
Said(items) ==
    [i \in DOMAIN items |-> [line |-> items[i].line, quantity |-> items[i].quantity]]

\* The legs of a receipt take of a line what the receipt says.
LEMMA ReceiptLegSum ==
    ASSUME NEW m \in Nat, NEW items \in Seq(LoadedItems(m)), NEW legs, ReceiptLegsOf(legs, items),
           NEW l
    PROVE  LegSum(legs, l) = Named(Said(items), l)
<1> DEFINE lines == Said(items)
<1>1. /\ Len(items) \in Nat /\ DOMAIN items = 1..Len(items) /\ Len(legs) = Len(items)
      /\ Len(lines) = Len(items)
  BY DEF ReceiptLegsOf, Said
<1>2. \A i \in 1..Len(items) : /\ legs[i].line = lines[i].line
                               /\ legs[i].qty = lines[i].quantity
  BY <1>1 DEF ReceiptLegsOf, Said
<1>3. [i \in 1..Len(legs) |-> IF legs[i].line = l THEN legs[i].qty ELSE 0] =
      [i \in 1..Len(lines) |-> IF lines[i].line = l THEN lines[i].quantity ELSE 0]
  BY <1>1, <1>2
<1> QED
  BY <1>3 DEF LegSum, Named

\* The rows of a receipt are its own and new, if it posts the first of them.
AreOfReceipt(moves, r) ==
    \A k \in 1..Len(moves) : moves[k].stype = "SHIPMENT_RECEIPT" /\ moves[k].sid = r

LEMMA FirstRows ==
    ASSUME Inv, NEW r, r \notin DOMAIN receipts, NEW moves \in Seq(Rows),
           ledger' = ledger \o moves, AreOfReceipt(moves, r),
           NEW l, NEW key
    PROVE  NetIn(ledger', ReceiptAt(r, l, key)) = NetIn(moves, LineAt(l, key))
<1>1. ledger \in Seq(Rows)
  BY DEF Inv, Sound, Book
<1>2. PICK S : S = ReceiptAt(r, l, key)
  OBVIOUS
<1>3. NetIn(ledger, S) = NoStock
  <2>1. ASSUME NEW i \in 1..Len(ledger), ledger[i] \in S PROVE FALSE
    <3>1. PICK row \in Rows : row = ledger[i]
      BY <1>1
    <3>2. row.stype = "SHIPMENT_RECEIPT" /\ row.sid = r
      BY <1>2, <2>1, <3>1 DEF ReceiptAt, ReceiptRows
    <3>3. RowFits(row)
      BY <1>1, <3>1 DEF Inv, RowsFit
    <3> QED
      BY <3>2, <3>3 DEF RowFits, ShipTypes
  <2> QED
    BY <1>1, <2>1, NetInNone
<1>4. NetIn(moves, S) = NetIn(moves, LineAt(l, key))
  <2>1. \A k \in 1..Len(moves) : moves[k] \in S <=> moves[k] \in LineAt(l, key)
    BY <1>2 DEF AreOfReceipt, ReceiptAt, ReceiptRows, LineAt
  <2> QED
    BY <2>1, NetInSame
<1>5. NetIn(ledger', S) = Plus(NetIn(ledger, S), NetIn(moves, S))
  BY <1>1, NetInConcat
<1>6. NetIn(moves, S) \in [qty: Int, aed: Int]
  BY NetInType
<1>7. PICK net \in [qty: Int, aed: Int] : net = NetIn(moves, S)
  BY <1>6
<1>8. Plus(NoStock, net) = net
  <2>1. net.qty \in Int /\ net.aed \in Int /\ net = [qty |-> net.qty, aed |-> net.aed]
    OBVIOUS
  <2>2. 0 + net.qty = net.qty /\ 0 + net.aed = net.aed
    BY <2>1
  <2> QED
    BY <2>1, <2>2 DEF Plus, NoStock
<1> QED
  BY <1>2, <1>3, <1>4, <1>5, <1>7, <1>8

\* A receipt, of lines that still have the products it was loaded with.
LEMMA ReceivePlaced ==
    ASSUME Inv, Inv', RecordsGrow, Placed,
           NEW s \in DOMAIN shipments, NEW items \in Seq(LoadedItems(Len(shipLines))),
           ReceiveShipment(s, items), Fresh(items)
    PROVE  Placed'
<1>1. RecordsFit /\ RecordsAgree /\ ledger \in Seq(Rows) /\ RecordsFit'
  BY DEF Inv, Sound, Book
<1>2. PICK r, lines : r = Len(receipts) + 1 /\ lines = Said(items)
  OBVIOUS
<1>3. PICK receipt : receipt = [shipment |-> s, is_deleted |-> FALSE, lines |-> lines]
  OBVIOUS
<1>4. /\ MayReceive(s, items)
      /\ Post(ReceiptMoves(s, r, items), FALSE)
      /\ receipts' = Append(receipts, receipt)
      /\ shipments' = shipments /\ shipLines' = shipLines
  BY <1>2, <1>3 DEF ReceiveShipment, ReceiptMoves, Said
<1>5. PICK ship \in ShipmentRecords : ship = shipments[s]
  BY <1>1, RecordTypes
<1>6. ship.from \in Locations /\ ship.to \in Locations /\ ship.from # ship.to
  BY <1>1, <1>5 DEF ShipmentRecords, RecordsAgree
<1>7. PICK m \in Nat : m = Len(shipLines) /\ DOMAIN shipLines = 1..m
  BY <1>1, RecordTypes
<1>8. /\ Len(items) \in Nat /\ DOMAIN items = 1..Len(items)
      /\ \A i \in 1..Len(items) : /\ items[i].line \in DOMAIN shipLines
                                  /\ items[i].quantity \in Quantities
                                  /\ shipLines[items[i].line].shipment = s
  <2>1. Len(items) \in Nat /\ DOMAIN items = 1..Len(items)
        /\ \A i \in 1..Len(items) : items[i] \in LoadedItems(m)
    BY <1>7
  <2>2. \A i \in 1..Len(items) : shipLines[items[i].line].shipment = s
    BY <1>4, <2>1 DEF MayReceive
  <2> QED
    BY <1>7, <2>1, <2>2 DEF LoadedItems
<1>9. lines \in Seq(ReceiptLines(m)) /\ Len(lines) = Len(items)
      /\ \A i \in 1..Len(items) : lines[i].line = items[i].line
  <2>1. \A i \in 1..Len(items) : [line |-> items[i].line, quantity |-> items[i].quantity]
                                    \in ReceiptLines(m)
    BY <1>7, <1>8 DEF ReceiptLines
  <2> QED
    BY <1>2, <1>8, <2>1 DEF Said
<1>10. PICK n \in Nat : n = Len(shipments) /\ receipts \in Seq(ReceiptRecords(n, m)) /\ s \in 1..n
  BY <1>1, <1>7, RecordTypes DEF RecordsFit
<1>11. /\ receipt \in ReceiptRecords(n, m) /\ receipt.lines = lines
       /\ receipt.shipment = s /\ ~receipt.is_deleted
  BY <1>3, <1>9, <1>10 DEF ReceiptRecords
<1>12. /\ r \in Nat /\ r \notin DOMAIN receipts /\ receipts'[r] = receipt
       /\ \A t \in DOMAIN receipts : receipts'[t] = receipts[t]
       /\ \A t \in DOMAIN receipts' : t \in DOMAIN receipts \/ t = r
  BY <1>2, <1>4, <1>10, <1>11, AppendProperties
<1>13. PICK moves \in Seq(Rows) :
          /\ ledger' = ledger \o moves
          /\ \E legs \in Seq(Legs) :
                /\ ReceiptLegsOf(legs, items)
                /\ MovesOf(moves, "SHIPMENT_RECEIPT", r, legs)
                /\ moves = Transfers("SHIPMENT_RECEIPT", r, legs, << ship.to, "IN_TRANSIT" >>,
                                                                 << ship.to, "PHYSICAL" >>)
  <2>1. items \in Seq(LoadedItems(m))
    BY <1>7
  <2>2. \E moves \in Seq(Rows), legs \in Seq(Legs) :
          /\ ledger' = ledger \o moves
          /\ ReceiptLegsOf(legs, items)
          /\ MovesOf(moves, "SHIPMENT_RECEIPT", r, legs)
          /\ moves = Transfers("SHIPMENT_RECEIPT", r, legs, << shipments[s].to, "IN_TRANSIT" >>,
                                                           << shipments[s].to, "PHYSICAL" >>)
    BY <1>4, <1>12, <2>1, ReceivingPosts
  <2> QED
    BY <1>5, <2>2
<1>14. AreOfReceipt(moves, r)
  BY <1>13 DEF MovesOf, AreOfReceipt
<1>15. ASSUME NEW l, NEW key
       PROVE  NetIn(ledger', ReceiptAt(r, l, key)) = NetIn(moves, LineAt(l, key))
  <2>1. r \notin DOMAIN receipts /\ ledger' = ledger \o moves
    BY <1>12, <1>13
  <2> QED
    BY <1>14, <2>1, FirstRows
<1>16. PICK legs \in Seq(Legs) :
          /\ ReceiptLegsOf(legs, items)
          /\ MovesOf(moves, "SHIPMENT_RECEIPT", r, legs)
          /\ moves = Transfers("SHIPMENT_RECEIPT", r, legs, << ship.to, "IN_TRANSIT" >>,
                                                           << ship.to, "PHYSICAL" >>)
  BY <1>13
<1>17. \A i \in 1..Len(legs) : /\ legs[i].line \in DOMAIN shipLines
                               /\ shipLines[legs[i].line].shipment = s
                               /\ legs[i].product = shipLines[legs[i].line].product
  <2>1. \A i \in 1..Len(items) : items[i].product = shipLines[items[i].line].product
    BY <1>8 DEF Fresh
  <2> QED
    BY <1>8, <1>13, <1>16, <2>1 DEF ReceiptLegsOf
<1>18. PICK a \in Places, b \in Places : /\ a = << ship.to, "IN_TRANSIT" >>
                                        /\ b = << ship.to, "PHYSICAL" >>
  <2>1. << ship.to, "PHYSICAL" >> \in Places /\ << ship.to, "IN_TRANSIT" >> \in Places
    BY <1>6 DEF Places, Buckets
  <2> QED
    BY <2>1
<1>19. PICK stype \in ShipTypes : stype = "SHIPMENT_RECEIPT"
  BY DEF ShipTypes
<1>20. moves = Transfers(stype, r, legs, a, b) /\ a # b
  BY <1>13, <1>16, <1>18, <1>19
<1>21. \A l : LegSum(legs, l) = Named(lines, l) /\ LegSum(legs, l) \in Int
  <2>1. items \in Seq(LoadedItems(m)) /\ ReceiptLegsOf(legs, items)
    BY <1>7, <1>13, <1>16
  <2>2. ASSUME NEW l PROVE LegSum(legs, l) = Named(lines, l)
    BY <1>2, <2>1, ReceiptLegSum
  <2>3. ASSUME NEW l PROVE LegSum(legs, l) \in Int
    BY LegSums
  <2> QED
    BY <2>2, <2>3
<1>22. \A l : Got(receipts', l) = Got(receipts, l) + Named(lines, l)
  BY <1>4, <1>10, <1>11, GotAppend
<1>23. ASSUME NEW l, NEW line, line = shipLines[l]
       PROVE  /\ NetIn(moves, LineAt(l, Going(ship, line))).qty = -LegSum(legs, l)
              /\ NetIn(moves, LineAt(l, Here(ship, line))).qty = LegSum(legs, l)
              /\ NetIn(moves, LineAt(l, Gone(ship, line))).qty = 0
  <2>1. PICK p : p = line.product
    OBVIOUS
  <2>2. ProductIs(legs, l, p)
    BY <1>17, <1>23, <2>1 DEF ProductIs
  <2>3. MovesLine(Transfers(stype, r, legs, a, b), l, KeyAt(p, a), KeyAt(p, b), LegSum(legs, l))
    BY <1>12, <1>20, <2>2, TransferNet
  <2>4. PICK gone, going, here : /\ gone = Gone(ship, line) /\ going = Going(ship, line)
                                 /\ here = Here(ship, line)
    OBVIOUS
  <2>5. /\ going = KeyAt(p, a) /\ here = KeyAt(p, b)
        /\ gone # KeyAt(p, a) /\ gone # KeyAt(p, b)
    BY <1>6, <1>18, <2>1, <2>4 DEF Gone, Going, Here, KeyAt
  <2>6. NetIn(moves, LineAt(l, gone)) = NoStock
    BY <1>20, <2>3, <2>5 DEF MovesLine
  <2> QED
    BY <1>20, <2>3, <2>4, <2>5, <2>6 DEF MovesLine, NoStock
<1>24. RowsPlaced'
  <2>1. ASSUME NEW k \in 1..Len(moves) PROVE RowPlaced(moves[k])'
    <3>1. PICK row : row = moves[k]
      OBVIOUS
    <3>2. PlaceOf(a, ship, stype) /\ PlaceOf(b, ship, stype)
      BY <1>18 DEF PlaceOf
    <3>3. PICK lns : lns = shipLines
      OBVIOUS
    <3>4. ProductsAre(legs, lns)
      BY <1>17, <3>3 DEF ProductsAre
    <3>5. LegPlaced(Transfers(stype, r, legs, a, b)[k], legs, ship, lns)
      BY <1>6, <1>12, <1>20, <3>2, <3>4, TransferPlaced
    <3>6. PICK i \in 1..Len(legs) : /\ row.line = legs[i].line
                                    /\ PlacedIn(row, ship, lns[legs[i].line])
      BY <1>20, <3>1, <3>5 DEF LegPlaced
    <3>7. ShipmentOf(row.line)' = ship /\ shipLines'[row.line] = lns[legs[i].line]
      BY <1>4, <1>5, <1>17, <3>3, <3>6 DEF ShipmentOf
    <3>8. RowPlaced(row)'
      BY <3>6, <3>7 DEF RowPlaced
    <3> QED
      BY <3>1, <3>8 DEF RowPlaced, ShipmentOf
  <2> QED
    BY <1>13, <1>16, <2>1, RowsStayPlaced DEF Placed
<1>25. ReceiptsFollow'
  <2>2. ASSUME NEW t \in DOMAIN receipts' \ DOMAIN receipts,
               NEW l \in DOMAIN shipLines', shipLines'[l].shipment = receipts'[t].shipment
        PROVE  ReceiptMoved(ledger', t, l, ShipmentOf(l)', shipLines'[l],
                            Named(receipts'[t].lines, l))
    <3>1. t = r /\ receipts'[t] = receipt /\ shipLines[l].shipment = s
      BY <1>4, <1>11, <1>12, <2>2
    <3>2. ShipmentOf(l)' = ship
      BY <1>4, <1>5, <3>1 DEF ShipmentOf
    <3>3. PICK line, q : line = shipLines[l] /\ q = Named(lines, l)
      OBVIOUS
    <3>4. \A key : NetIn(ledger', ReceiptAt(r, l, key)) = NetIn(moves, LineAt(l, key))
      BY <1>15
    <3>5. ReceiptMoved(ledger', r, l, ship, line, q)
      BY <1>21, <1>23, <3>3, <3>4 DEF ReceiptMoved
    <3> QED
      BY <1>4, <1>11, <3>1, <3>2, <3>3, <3>5
  <2> QED
    <3>1. ASSUME NEW t \in DOMAIN receipts, NEW k \in 1..Len(moves),
                 moves[k].stype = "SHIPMENT_RECEIPT"
          PROVE  moves[k].sid # t
      BY <1>12, <1>14 DEF AreOfReceipt
    <3> QED
      BY <1>13, <1>16, <2>2, <3>1, ReceiptsKeep DEF Placed
<1>26. LinesFollow'
  <2>1. ASSUME NEW l \in DOMAIN shipLines, ShipmentOf(l).shipped
        PROVE  LineStep(moves, l, ShipmentOf(l), shipLines[l], ShipmentOf(l)'.cancelled,
                        Got(receipts', l) - Got(receipts, l))
    <3>1. PICK got \in Int : got = Got(receipts, l)
      BY <1>1, GotType
    <3>2. PICK more \in Int : more = LegSum(legs, l)
      BY <1>21
    <3>3. Got(receipts', l) - Got(receipts, l) = more
      <4>1. Got(receipts', l) = got + more
        BY <1>21, <1>22, <3>1, <3>2
      <4> QED
        BY <3>1, <4>1
    <3>4. CASE shipLines[l].shipment # s
      <4>1. ASSUME NEW k \in 1..Len(moves) PROVE moves[k].line # l
        <5>1. PICK i \in 1..Len(legs) : moves[k].line = legs[i].line
          BY <1>13, <1>16 DEF MovesOf
        <5>2. shipLines[legs[i].line].shipment = s
          BY <1>17
        <5> QED
          BY <3>4, <5>1, <5>2
      <4>2. \A k \in 1..Len(moves) : moves[k] \notin RowsOn(l)
        BY <4>1, RowsOffLine
      <4>3. \A i \in 1..Len(legs) : legs[i].line # l
        BY <1>17, <3>4
      <4>4. more = 0
        BY <3>2, <4>3, LegSums
      <4>5. Got(receipts', l) = Got(receipts, l)
        <5>1. Got(receipts', l) = got + 0
          BY <1>21, <1>22, <3>1, <3>2, <4>4
        <5> QED
          BY <3>1, <5>1
      <4> QED
        BY <1>4, <2>1, <4>2, <4>5, OtherLine
    <3>5. CASE shipLines[l].shipment = s
      <4>1. ShipmentOf(l) = ship /\ ShipmentOf(l)' = ship
        BY <1>4, <1>5, <3>5 DEF ShipmentOf
      <4>2. PICK line : line = shipLines[l]
        OBVIOUS
      <4>3. LineStep(moves, l, ship, line, ship.cancelled, more)
        BY <1>23, <3>2, <4>2 DEF LineStep
      <4> QED
        BY <3>3, <4>1, <4>2, <4>3
    <3> QED
      BY <3>4, <3>5
  <2>2. ASSUME NEW l \in DOMAIN shipLines', ShipmentOf(l)'.shipped,
               l \in DOMAIN shipLines => ~ShipmentOf(l).shipped
        PROVE  FALSE
    BY <1>1, <1>4, <2>2, NobodySent
  <2> QED
    BY <1>13, <1>16, <2>1, <2>2, LinesKeep DEF Placed
<1> QED
  BY <1>24, <1>25, <1>26 DEF Placed

\* The items a request has just loaded are fresh.
LEMMA LoadedFresh ==
    ASSUME NEW payload
    PROVE  Fresh(Loaded(payload))
<1>1. \A i \in DOMAIN payload :
         /\ Loaded(payload)[i].line = payload[i].line
         /\ Loaded(payload)[i].product = shipLines[payload[i].line].product
  BY DEF Loaded
<1>2. DOMAIN Loaded(payload) = DOMAIN payload
  BY DEF Loaded
<1> QED
  BY <1>1, <1>2 DEF Fresh

\* A receipt posted at once.
LEMMA ReceiveNowPlaced ==
    ASSUME Inv, Inv', RecordsGrow, Placed, Receive
    PROVE  Placed'
<1>1. PICK s \in DOMAIN shipments, payload \in Requests(ReceiptItems) : ReceiveNow(s, payload)
  BY DEF Receive
<1>2. PICK items : items = Loaded(payload)
  OBVIOUS
<1>3. ReceiveShipment(s, items) /\ Fresh(items)
  BY <1>1, <1>2, LoadedFresh DEF ReceiveNow
<1>4. items \in Seq(LoadedItems(Len(shipLines)))
  BY <1>2, LoadedType DEF Inv
<1> QED
  BY <1>3, <1>4, ReceivePlaced

\* One that waited, or is refused.
LEMMA ResumePlaced ==
    ASSUME Inv, Inv', RecordsGrow, Placed, LoadsFresh, Resume
    PROVE  Placed'
<1>1. PICK request \in inFlight : ReceiveLoaded(request) \/ RefuseLoaded(request)
  BY DEF Resume
<1>2. CASE ReceiveLoaded(request)
  <2>1. RecordsFit
    BY DEF Inv
  <2>2. request \in LoadedRequests(Len(shipments), Len(shipLines))
    BY <2>1 DEF RecordsFit
  <2>3. PICK s, items : s = request.shipment /\ items = request.items
    OBVIOUS
  <2>4. s \in DOMAIN shipments /\ items \in Seq(LoadedItems(Len(shipLines)))
    BY <2>1, <2>2, <2>3, RecordTypes DEF LoadedRequests
  <2>5. ReceiveShipment(s, items) /\ Fresh(items)
    BY <1>2, <2>3 DEF ReceiveLoaded, LoadsFresh
  <2> QED
    BY <2>4, <2>5, ReceivePlaced
<1>3. CASE RefuseLoaded(request)
  <2>1. UNCHANGED <<ledger, balance, shipments, shipLines, receipts>>
    BY <1>3 DEF RefuseLoaded
  <2> QED
    BY <2>1, WaitingPlaced
<1> QED
  BY <1>1, <1>2, <1>3

\* A request that starts to wait.
LEMMA LoadPlaced ==
    ASSUME Inv, Inv', RecordsGrow, Placed, Load
    PROVE  Placed'
<1>1. UNCHANGED <<ledger, balance, shipments, shipLines, receipts>>
  BY DEF Load, LoadReceipt
<1> QED
  BY <1>1, WaitingPlaced

-----------------------------------------------------------------------------
(* Taking back *)

\* Taking back nothing.
LEMMA ZeroBack ==
    ASSUME NEW x \in Int, x = 0
    PROVE  -x = 0
<1>1. PICK y \in Int : y = -x
  OBVIOUS
<1>2. x + y = 0
  BY <1>1
<1>3. y = 0
  BY <1>2
<1> QED
  BY <1>1, <1>3

\* A row that takes back one that is placed.
LEMMA SamePlaced ==
    ASSUME RecordsFit, RecordsGrow, NEW row, NEW old, SameRecord(row, old),
           RowFits(old), RowPlaced(old)
    PROVE  RowPlaced(row)'
<1>1. row.stype = old.stype /\ row.sid = old.sid /\ row.line = old.line /\ KeyOf(row) = KeyOf(old)
  BY DEF SameRecord
<1>2. RowFits(row)
  BY <1>1 DEF RowFits
<1>3. RowPlaced(row)
  BY <1>1 DEF RowPlaced, PlacedIn
<1> QED
  BY <1>2, <1>3, PlacedStays

\* A receipt says nothing of the lines of other shipments.
LEMMA NamesOwn ==
    ASSUME RecordsFit, RecordsAgree, NEW r \in DOMAIN receipts,
           NEW l \in DOMAIN shipLines, shipLines[l].shipment # receipts[r].shipment
    PROVE  Named(receipts[r].lines, l) = 0
<1>1. PICK m \in Nat : m = Len(shipLines)
  BY RecordTypes
<1>2. receipts[r].lines \in Seq(ReceiptLines(m))
  BY <1>1, RecordTypes
<1>3. ASSUME NEW i \in 1..Len(receipts[r].lines) PROVE receipts[r].lines[i].line # l
  <2>1. i \in DOMAIN receipts[r].lines
    BY <1>2
  <2> QED
    BY <2>1 DEF RecordsAgree
<1> QED
  BY <1>2, <1>3, NamedFacts

\* The rows of a receipt, and what reversing them moves of a line.
LEMMA ReceiptTakenBack ==
    ASSUME ledger \in Seq(Rows), NEW r, NEW rows,
           rows = SourceRows(ledger, "SHIPMENT_RECEIPT", r)
    PROVE  /\ rows \in Seq(Rows)
           /\ \A k \in 1..Len(rows) :
                 \E i \in DOMAIN ledger : /\ ledger[i].stype = "SHIPMENT_RECEIPT"
                                          /\ ledger[i].sid = r
                                          /\ rows[k] = ledger[i]
           /\ \A l, key : NetIn(ReversalMovements(rows), LineAt(l, key)).qty
                             = -NetIn(ledger, ReceiptAt(r, l, key)).qty
<1>1. PICK I : I = {i \in DOMAIN ledger : /\ ledger[i].stype = "SHIPMENT_RECEIPT"
                                          /\ ledger[i].sid = r}
  OBVIOUS
<1>2. rows = Kept(ledger, I)
  BY <1>1 DEF SourceRows
<1>3. /\ rows \in Seq(Rows)
      /\ \A k \in 1..Len(rows) : \E i \in 1..Len(ledger) : i \in I /\ rows[k] = ledger[i]
  BY <1>2, KeptType
<1>4. ASSUME NEW l, NEW key
      PROVE  NetIn(ReversalMovements(rows), LineAt(l, key)).qty
                = -NetIn(ledger, ReceiptAt(r, l, key)).qty
  <2>1. PICK S, T : S = LineAt(l, key) /\ T = ReceiptAt(r, l, key)
    OBVIOUS
  <2>2. \A i \in 1..Len(ledger) : i \in I /\ ledger[i] \in S <=> ledger[i] \in T
    BY <1>1, <2>1 DEF LineAt, ReceiptAt, ReceiptRows
  <2>3. NetIn(rows, S) = NetIn(ledger, T)
    BY <1>2, <2>2, KeptNetAs
  <2>4. Blind(S)
    BY <2>1, LineSetsBlind
  <2>5. NetIn(ReversalMovements(rows), S).qty = -NetIn(rows, S).qty
    BY <1>3, <2>4, ReversalFacts
  <2> QED
    BY <2>1, <2>3, <2>5
<1> QED
  BY <1>1, <1>3, <1>4

\* A receipt undone: what it brought goes back on its way.
LEMMA UndoPlaced ==
    ASSUME Inv, Inv', RecordsGrow, Placed, UndoReceipt
    PROVE  Placed'
<1>1. PICK r \in DOMAIN receipts, confirm \in Confirms : DeleteReceipt(r, confirm)
  BY DEF UndoReceipt
<1>2. RecordsFit /\ RecordsAgree /\ ledger \in Seq(Rows) /\ RecordsFit'
  BY DEF Inv, Sound, Book
<1>3. PICK rows : rows = SourceRows(ledger, "SHIPMENT_RECEIPT", r)
  OBVIOUS
<1>4. PICK moves : moves = ReversalMovements(rows)
  OBVIOUS
<1>5. /\ ~receipts[r].is_deleted
      /\ Post(moves, confirm)
      /\ receipts' = [receipts EXCEPT ![r].is_deleted = TRUE]
      /\ shipments' = shipments /\ shipLines' = shipLines
  BY <1>1, <1>3, <1>4 DEF DeleteReceipt
<1>6. moves \in Seq(Rows) /\ ledger' = ledger \o moves
  BY <1>5, PostStep
<1>7. PICK n \in Nat, m \in Nat : /\ n = Len(shipments) /\ m = Len(shipLines)
                                  /\ receipts \in Seq(ReceiptRecords(n, m))
                                  /\ receipts[r] \in ReceiptRecords(n, m)
  BY <1>2, RecordTypes DEF RecordsFit
<1>8. /\ receipts' \in Seq(ReceiptRecords(n, m)) /\ Len(receipts') = Len(receipts)
      /\ DOMAIN receipts' = DOMAIN receipts /\ receipts'[r].is_deleted
      /\ \A t \in DOMAIN receipts : t # r => receipts'[t] = receipts[t]
  <2>1. PICK old \in ReceiptRecords(n, m) : old = receipts[r]
    BY <1>7
  <2>2. PICK now : now = [old EXCEPT !.is_deleted = TRUE]
    OBVIOUS
  <2>3. now \in ReceiptRecords(n, m) /\ now.is_deleted
    BY <2>2 DEF ReceiptRecords
  <2>4. receipts' = [receipts EXCEPT ![r] = now]
    BY <1>5, <2>1, <2>2
  <2> QED
    BY <1>7, <2>1, <2>3, <2>4
<1>9. /\ rows \in Seq(Rows)
      /\ \A k \in 1..Len(rows) :
            \E i \in DOMAIN ledger : /\ ledger[i].stype = "SHIPMENT_RECEIPT"
                                     /\ ledger[i].sid = r
                                     /\ rows[k] = ledger[i]
  BY <1>2, <1>3, ReceiptTakenBack
<1>10. \A l, key : NetIn(moves, LineAt(l, key)).qty = -NetIn(ledger, ReceiptAt(r, l, key)).qty
  BY <1>2, <1>3, <1>4, ReceiptTakenBack
<1>11. ASSUME NEW k \in 1..Len(moves)
       PROVE  \E old : /\ SameRecord(moves[k], old) /\ RowFits(old) /\ RowPlaced(old)
                       /\ old.stype = "SHIPMENT_RECEIPT" /\ old.sid = r
  <2>1. PICK j \in 1..Len(rows) : SameRecord(moves[k], rows[j])
    <3>1. \E j \in 1..Len(rows) : SameRecord(moves[k], rows[j])
      BY <1>4, <1>9, ReversalFacts
    <3> QED
      BY <3>1
  <2>2. PICK i \in DOMAIN ledger : /\ ledger[i].stype = "SHIPMENT_RECEIPT" /\ ledger[i].sid = r
                                   /\ rows[j] = ledger[i]
    BY <1>9
  <2>3. RowFits(ledger[i]) /\ RowPlaced(ledger[i])
    BY DEF Inv, RowsFit, Placed, RowsPlaced
  <2> QED
    BY <2>1, <2>2, <2>3
<1>12. RowsPlaced'
  <2>1. ASSUME NEW k \in 1..Len(moves) PROVE RowPlaced(moves[k])'
    <3>1. PICK row : row = moves[k]
      OBVIOUS
    <3>2. PICK old : SameRecord(row, old) /\ RowFits(old) /\ RowPlaced(old)
      BY <1>11, <3>1
    <3>3. RowPlaced(row)'
      BY <1>2, <3>2, SamePlaced
    <3> QED
      BY <3>1, <3>3 DEF RowPlaced, ShipmentOf
  <2> QED
    BY <1>6, <2>1, RowsStayPlaced DEF Placed
<1>13. ReceiptsFollow'
  <2>1. ASSUME NEW t \in DOMAIN receipts, ~receipts'[t].is_deleted, NEW k \in 1..Len(moves)
        PROVE  moves[k].sid # t
    <3>1. t # r
      BY <1>8, <2>1
    <3> QED
      BY <1>11, <3>1 DEF SameRecord
  <2>2. DOMAIN receipts' \ DOMAIN receipts = {}
    BY <1>8
  <2> QED
    BY <1>6, <2>1, <2>2, ReceiptsKeep DEF Placed
<1>14. LinesFollow'
  <2>1. ASSUME NEW l \in DOMAIN shipLines, ShipmentOf(l).shipped
        PROVE  LineStep(moves, l, ShipmentOf(l), shipLines[l], ShipmentOf(l)'.cancelled,
                        Got(receipts', l) - Got(receipts, l))
    <3>1. PICK got \in Int : got = Got(receipts, l)
      BY <1>2, GotType
    <3>2. PICK q \in Int : q = Named(receipts[r].lines, l)
      <4>1. receipts[r].lines \in Seq(ReceiptLines(m))
        BY <1>2, <1>7, RecordTypes
      <4>2. Named(receipts[r].lines, l) \in Nat
        BY <4>1, NamedFacts
      <4> QED
        BY <4>2
    <3>3. Got(receipts', l) = got - q
      <4>1. PICK records \in Seq(ReceiptRecords(n, m)) : records = receipts
        BY <1>7
      <4>2. PICK rest \in Seq(ReceiptRecords(n, m)) : rest = receipts'
        BY <1>8
      <4>3. OneGone(records, rest, r)
        BY <1>5, <1>8, <4>1, <4>2 DEF OneGone
      <4>4. Got(rest, l) = Got(records, l) - Named(records[r].lines, l)
        BY <4>3, GotLess
      <4> QED
        BY <3>1, <3>2, <4>1, <4>2, <4>4
    <3>4. CASE shipLines[l].shipment # receipts[r].shipment
      <4>1. ASSUME NEW k \in 1..Len(moves) PROVE moves[k].line # l
        <5>1. PICK old : /\ SameRecord(moves[k], old) /\ RowFits(old)
                         /\ old.stype = "SHIPMENT_RECEIPT" /\ old.sid = r
          BY <1>11
        <5> QED
          BY <3>4, <5>1 DEF SameRecord, RowFits, ShipTypes
      <4>2. \A k \in 1..Len(moves) : moves[k] \notin RowsOn(l)
        BY <1>6, <4>1, RowsOffLine
      <4>3. q = 0
        BY <1>2, <3>2, <3>4, NamesOwn
      <4>4. Got(receipts', l) = Got(receipts, l)
        BY <3>1, <3>3, <4>3
      <4> QED
        BY <1>5, <1>6, <2>1, <4>2, <4>4, OtherLine
    <3>5. CASE shipLines[l].shipment = receipts[r].shipment
      <4>1. PICK ship, line : ship = ShipmentOf(l) /\ line = shipLines[l]
        OBVIOUS
      <4>2. ReceiptMoved(ledger, r, l, ship, line, q)
        BY <1>5, <3>2, <3>5, <4>1 DEF Placed, ReceiptsFollow
      <4>3. /\ NetIn(moves, LineAt(l, Here(ship, line))).qty = -q
            /\ NetIn(moves, LineAt(l, Going(ship, line))).qty = -(-q)
        BY <1>10, <4>2 DEF ReceiptMoved
      <4>4. NetIn(moves, LineAt(l, Gone(ship, line))).qty = 0
        <5>1. PICK S : S = ReceiptAt(r, l, Gone(ship, line))
          OBVIOUS
        <5>2. ASSUME NEW i \in 1..Len(ledger), ledger[i] \in S PROVE FALSE
          <6>1. PICK row \in Rows : row = ledger[i]
            BY <1>2
          <6>2. row.stype = "SHIPMENT_RECEIPT" /\ KeyOf(row) = Gone(ship, line) /\ row \in RowsOn(l)
            BY <5>1, <5>2, <6>1 DEF ReceiptAt, ReceiptRows
          <6>3. row.line = l /\ row.stype \in ShipTypes
            BY <6>2, RowOnLine
          <6>4. RowPlaced(row)
            BY <1>2, <6>1 DEF Placed, RowsPlaced
          <6>5. PlacedIn(row, ship, line)
            BY <4>1, <6>3, <6>4 DEF RowPlaced
          <6> QED
            BY <6>2, <6>5 DEF PlacedIn
        <5>3. NetIn(ledger, S) = NoStock
          BY <1>2, <5>2, NetInNone
        <5>4. NetIn(ledger, S).qty = 0
          BY <5>3 DEF NoStock
        <5>5. PICK x \in Int : x = NetIn(ledger, S).qty /\ x = 0
          BY <5>4
        <5>6. NetIn(moves, LineAt(l, Gone(ship, line))).qty = -x
          BY <1>10, <5>1, <5>5
        <5> QED
          BY <5>5, <5>6, ZeroBack
      <4>5. LineStep(moves, l, ship, line, ship.cancelled, -q)
        BY <4>3, <4>4 DEF LineStep
      <4>6. Got(receipts', l) - Got(receipts, l) = -q
        BY <3>1, <3>2, <3>3
      <4>7. ShipmentOf(l)'.cancelled = ship.cancelled
        BY <1>5, <4>1 DEF ShipmentOf
      <4> QED
        BY <4>1, <4>5, <4>6, <4>7
    <3> QED
      BY <3>4, <3>5
  <2>2. ASSUME NEW l \in DOMAIN shipLines', ShipmentOf(l)'.shipped,
               l \in DOMAIN shipLines => ~ShipmentOf(l).shipped
        PROVE  FALSE
    BY <1>2, <1>5, <2>2, NobodySent
  <2> QED
    BY <1>6, <2>1, <2>2, LinesKeep DEF Placed
<1> QED
  BY <1>12, <1>13, <1>14 DEF Placed

\* A shipment deleted, with its lines and receipts.
LEMMA DeletePlaced ==
    ASSUME Inv, Inv', RecordsGrow, Placed, Delete
    PROVE  Placed'
<1>1. PICK s \in DOMAIN shipments, confirm \in Confirms : SoftDeleteShipment(s, confirm)
  BY DEF Delete
<1>2. RecordsFit /\ RecordsAgree /\ ledger \in Seq(Rows) /\ RecordsFit' /\ Sound(Book)
  BY DEF Inv, Sound, Book
<1>3. PICK moves : moves = ReversalMovements(RowsOf(s))
  OBVIOUS
<1>4. /\ IF moves = << >> THEN Install(Book) ELSE Post(moves, confirm)
      /\ shipments' = [shipments EXCEPT ![s].is_deleted = TRUE]
      /\ shipLines' = [i \in DOMAIN shipLines |->
                         IF shipLines[i].shipment = s
                         THEN [shipLines[i] EXCEPT !.is_deleted = TRUE] ELSE shipLines[i]]
      /\ receipts' = [i \in DOMAIN receipts |->
                         IF receipts[i].shipment = s
                         THEN [receipts[i] EXCEPT !.is_deleted = TRUE] ELSE receipts[i]]
  BY <1>1, <1>3 DEF SoftDeleteShipment
<1>5. moves \in Seq(Rows) /\ ledger' = ledger \o moves
  <2>1. CASE moves = << >>
    <3>1. ledger' = ledger /\ balance' = balance
      BY <1>4, <2>1 DEF Install, Book
    <3> QED
      BY <2>1, <3>1, QuietStep
  <2>2. CASE moves # << >>
    BY <1>4, <2>2, PostStep
  <2> QED
    BY <2>1, <2>2
<1>6. /\ DOMAIN shipments' = DOMAIN shipments
      /\ \A t \in DOMAIN shipments : /\ shipments'[t].shipped = shipments[t].shipped
                                     /\ shipments'[t].cancelled = shipments[t].cancelled
  <2>1. PICK old \in ShipmentRecords : old = shipments[s]
    BY <1>2, RecordTypes
  <2>2. PICK now : now = [old EXCEPT !.is_deleted = TRUE]
    OBVIOUS
  <2>3. now.shipped = old.shipped /\ now.cancelled = old.cancelled
    BY <2>2 DEF ShipmentRecords
  <2>4. shipments' = [shipments EXCEPT ![s] = now]
    BY <1>4, <2>1, <2>2
  <2> QED
    BY <2>1, <2>3, <2>4
<1>7. \A l \in DOMAIN shipLines : shipLines[l].shipment = s => shipLines'[l].is_deleted
  <2>1. ASSUME NEW l \in DOMAIN shipLines, shipLines[l].shipment = s
        PROVE  shipLines'[l].is_deleted
    <3>1. PICK old \in ShipLineRecords(Len(shipments)) : old = shipLines[l]
      BY <1>2, RecordTypes
    <3>2. PICK now : now = [old EXCEPT !.is_deleted = TRUE]
      OBVIOUS
    <3>3. now.is_deleted
      BY <3>2 DEF ShipLineRecords
    <3>4. shipLines'[l] = now
      BY <1>4, <2>1, <3>1, <3>2
    <3> QED
      BY <3>3, <3>4
  <2> QED
    BY <2>1
<1>8. PICK n \in Nat, m \in Nat : /\ n = Len(shipments) /\ m = Len(shipLines)
                                  /\ receipts \in Seq(ReceiptRecords(n, m))
  BY <1>2, RecordTypes DEF RecordsFit
<1>9. /\ receipts' \in Seq(ReceiptRecords(n, m)) /\ Len(receipts') = Len(receipts)
      /\ DOMAIN receipts' = DOMAIN receipts
      /\ \A r \in DOMAIN receipts :
            /\ receipts'[r].lines = receipts[r].lines
            /\ receipts[r].shipment = s => receipts'[r].is_deleted
            /\ receipts[r].shipment # s => receipts'[r] = receipts[r]
  <2>1. ASSUME NEW r \in DOMAIN receipts
        PROVE  /\ receipts'[r] \in ReceiptRecords(n, m)
               /\ receipts'[r].lines = receipts[r].lines
               /\ receipts[r].shipment = s => receipts'[r].is_deleted
               /\ receipts[r].shipment # s => receipts'[r] = receipts[r]
    <3>1. PICK old \in ReceiptRecords(n, m) : old = receipts[r]
      BY <1>8
    <3>2. PICK now : now = [old EXCEPT !.is_deleted = TRUE]
      OBVIOUS
    <3>3. now \in ReceiptRecords(n, m) /\ now.is_deleted /\ now.lines = old.lines
      BY <3>2 DEF ReceiptRecords
    <3>4. receipts'[r] = IF old.shipment = s THEN now ELSE old
      BY <1>4, <3>1, <3>2
    <3> QED
      BY <3>1, <3>3, <3>4
  <2>2. /\ Len(receipts) \in Nat /\ DOMAIN receipts' = 1..Len(receipts)
        /\ receipts' = [r \in 1..Len(receipts) |-> receipts'[r]]
        /\ DOMAIN receipts = 1..Len(receipts)
    BY <1>4, <1>8
  <2> QED
    BY <2>1, <2>2
<1>10. ASSUME NEW k \in 1..Len(moves)
       PROVE  \E old : /\ SameRecord(moves[k], old) /\ RowFits(old) /\ RowPlaced(old)
                       /\ old.stype \in ShipTypes
                       /\ old.line \in DOMAIN shipLines /\ shipLines[old.line].shipment = s
  <2>1. PICK rows \in Seq(Rows) : rows = RowsOf(s)
    BY <1>2, RowsOfFacts
  <2>2. PICK j \in 1..Len(rows) : SameRecord(moves[k], rows[j])
    <3>1. \E j \in 1..Len(rows) : SameRecord(moves[k], rows[j])
      BY <1>3, <2>1, ReversalFacts
    <3> QED
      BY <3>1
  <2>3. \E i \in DOMAIN ledger : \E l \in DOMAIN shipLines :
           /\ shipLines[l].shipment = s /\ OfLine(ledger[i], l) /\ rows[j] = ledger[i]
    BY <1>2, <2>1, <2>2, RowsOfFacts
  <2>4. PICK i \in DOMAIN ledger : \E l \in DOMAIN shipLines :
           /\ shipLines[l].shipment = s /\ OfLine(ledger[i], l) /\ rows[j] = ledger[i]
    BY <2>3
  <2>5. RowFits(ledger[i]) /\ RowPlaced(ledger[i])
    BY DEF Inv, RowsFit, Placed, RowsPlaced
  <2>6. /\ ledger[i].stype \in ShipTypes /\ ledger[i].line \in DOMAIN shipLines
        /\ shipLines[ledger[i].line].shipment = s
    BY <2>4 DEF OfLine, ShipTypes
  <2> QED
    BY <2>2, <2>4, <2>5, <2>6
<1>11. RowsPlaced'
  <2>1. ASSUME NEW k \in 1..Len(moves) PROVE RowPlaced(moves[k])'
    <3>1. PICK row : row = moves[k]
      OBVIOUS
    <3>2. PICK old : SameRecord(row, old) /\ RowFits(old) /\ RowPlaced(old)
      BY <1>10, <3>1
    <3>3. RowPlaced(row)'
      BY <1>2, <3>2, SamePlaced
    <3> QED
      BY <3>1, <3>3 DEF RowPlaced, ShipmentOf
  <2> QED
    BY <1>5, <2>1, RowsStayPlaced DEF Placed
<1>12. ReceiptsFollow'
  <2>1. ASSUME NEW r \in DOMAIN receipts, ~receipts'[r].is_deleted, NEW k \in 1..Len(moves),
               moves[k].stype = "SHIPMENT_RECEIPT"
        PROVE  moves[k].sid # r
    <3>1. PICK old : /\ SameRecord(moves[k], old) /\ RowFits(old) /\ old.stype \in ShipTypes
                     /\ shipLines[old.line].shipment = s
      BY <1>10
    <3>2. old.stype = "SHIPMENT_RECEIPT" /\ old.sid = moves[k].sid
      BY <2>1, <3>1 DEF SameRecord
    <3>3. receipts[old.sid].shipment = s
      BY <3>1, <3>2 DEF RowFits
    <3> QED
      BY <1>9, <2>1, <3>2, <3>3
  <2>2. DOMAIN receipts' \ DOMAIN receipts = {}
    BY <1>9
  <2> QED
    BY <1>5, <2>1, <2>2, ReceiptsKeep DEF Placed
<1>13. LinesFollow'
  <2>1. ASSUME NEW l \in DOMAIN shipLines, ShipmentOf(l).shipped, ~shipLines'[l].is_deleted
        PROVE  LineStep(moves, l, ShipmentOf(l), shipLines[l], ShipmentOf(l)'.cancelled,
                        Got(receipts', l) - Got(receipts, l))
    <3>1. shipLines[l].shipment # s
      BY <1>7, <2>1
    <3>2. ASSUME NEW k \in 1..Len(moves) PROVE moves[k].line # l
      <4>1. PICK old : SameRecord(moves[k], old) /\ shipLines[old.line].shipment = s
        BY <1>10
      <4> QED
        BY <3>1, <4>1 DEF SameRecord
    <3>3. \A k \in 1..Len(moves) : moves[k] \notin RowsOn(l)
      BY <1>5, <3>2, RowsOffLine
    <3>4. Got(receipts', l) = Got(receipts, l)
      <4>1. PICK records \in Seq(ReceiptRecords(n, m)) : records = receipts
        BY <1>8
      <4>2. PICK rest \in Seq(ReceiptRecords(n, m)) : rest = receipts'
        BY <1>9
      <4>3. ASSUME NEW r \in 1..Len(records)
            PROVE  /\ rest[r].lines = records[r].lines
                   /\ rest[r].is_deleted = records[r].is_deleted \/ Named(records[r].lines, l) = 0
        <5>1. r \in DOMAIN receipts
          BY <4>1
        <5>2. CASE receipts[r].shipment = s
          <6>1. Named(receipts[r].lines, l) = 0
            BY <1>2, <3>1, <5>1, <5>2, NamesOwn
          <6> QED
            BY <1>9, <4>1, <4>2, <5>1, <6>1
        <5>3. CASE receipts[r].shipment # s
          BY <1>9, <4>1, <4>2, <5>1, <5>3
        <5> QED
          BY <5>2, <5>3
      <4>4. Len(rest) = Len(records)
        BY <1>9, <4>1, <4>2
      <4>5. Got(rest, l) = Got(records, l)
        BY <4>3, <4>4, GotSame
      <4> QED
        BY <4>1, <4>2, <4>5
    <3> QED
      BY <1>5, <1>6, <2>1, <3>3, <3>4, OtherLine
  <2>2. ASSUME NEW l \in DOMAIN shipLines', ShipmentOf(l)'.shipped,
               l \in DOMAIN shipLines => ~ShipmentOf(l).shipped
        PROVE  FALSE
    BY <1>2, <1>6, <2>2, NobodySent
  <2> QED
    BY <1>5, <2>1, <2>2, LinesKeep DEF Placed
<1> QED
  BY <1>11, <1>12, <1>13 DEF Placed

-----------------------------------------------------------------------------
(* Where the stock is *)

\* Nothing is anywhere at first.
LEMMA InitPlaced == Init => Placed
<1>1. SUFFICES ASSUME Init PROVE Placed
  OBVIOUS
<1>2. ledger = << >> /\ shipLines = << >> /\ receipts = << >>
  BY <1>1 DEF Init, LedgerInit
<1> QED
  BY <1>2 DEF Placed, RowsPlaced, ReceiptsFollow, LinesFollow

\* Every step leaves it where the records say, if no waiting request has loaded a line
\* whose product was edited since.
LEMMA StepPlaces ==
    Inv /\ Placed /\ LoadsFresh /\ [Next \/ OthersPost]_vars => Inv' /\ Placed'
<1>1. SUFFICES ASSUME Inv, Placed, LoadsFresh, [Next \/ OthersPost]_vars PROVE Inv' /\ Placed'
  OBVIOUS
<1>2. Inv' /\ RecordsGrow
  BY <1>1, StepKeeps
<1>3. CASE Create
  BY <1>1, <1>2, <1>3, CreatePlaced
<1>4. CASE Ship
  BY <1>1, <1>2, <1>4, ShipPlaced
<1>5. CASE Update
  BY <1>1, <1>2, <1>5, UpdatePlaced
<1>6. CASE Receive
  BY <1>1, <1>2, <1>6, ReceiveNowPlaced
<1>7. CASE Load
  BY <1>1, <1>2, <1>7, LoadPlaced
<1>8. CASE Resume
  BY <1>1, <1>2, <1>8, ResumePlaced
<1>9. CASE UndoReceipt
  BY <1>1, <1>2, <1>9, UndoPlaced
<1>10. CASE Cancel
  BY <1>1, <1>2, <1>10, CancelPlaced
<1>11. CASE Delete
  BY <1>1, <1>2, <1>11, DeletePlaced
<1>12. CASE OthersPost
  BY <1>1, <1>2, <1>12, OthersPlaced
<1>13. CASE UNCHANGED vars
  <2>1. UNCHANGED <<ledger, balance, shipments, shipLines, receipts>>
    BY <1>13 DEF vars, shipmentVars
  <2> QED
    BY <1>1, <1>2, <2>1, WaitingPlaced
<1> QED
  BY <1>1, <1>3, <1>4, <1>5, <1>6, <1>7, <1>8, <1>9, <1>10, <1>11, <1>12, <1>13 DEF Next

\* A line has nothing but in its three places.
LEMMA NothingElsewhere ==
    ASSUME Inv, RowsPlaced, NEW l \in DOMAIN shipLines, NEW key,
           key \notin {Gone(ShipmentOf(l), shipLines[l]), Going(ShipmentOf(l), shipLines[l]),
                       Here(ShipmentOf(l), shipLines[l])}
    PROVE  NetIn(ledger, LineAt(l, key)) = NoStock
<1>1. ledger \in Seq(Rows) /\ DOMAIN ledger = 1..Len(ledger)
  BY DEF Inv, Sound, Book
<1>2. ASSUME NEW i \in 1..Len(ledger), ledger[i] \in LineAt(l, key)
      PROVE  FALSE
  <2>1. PICK row \in Rows : row = ledger[i]
    BY <1>1
  <2>2. row \in RowsOn(l) /\ KeyOf(row) = key
    BY <1>2, <2>1 DEF LineAt
  <2>3. row.stype \in ShipTypes /\ row.line = l
    BY <2>2, RowOnLine
  <2>4. RowPlaced(row)
    BY <1>1, <2>1 DEF RowsPlaced
  <2>5. PlacedIn(row, ShipmentOf(l), shipLines[l])
    BY <2>3, <2>4 DEF RowPlaced
  <2> QED
    BY <2>2, <2>5 DEF PlacedIn
<1> QED
  BY <1>1, <1>2, NetInNone

\* What the invariant says of a live line in the words of the property.
LEMMA PlacedMeansFollow == Inv /\ Placed => StockFollowsRecords
<1>1. SUFFICES ASSUME Inv, Placed, NEW l \in DOMAIN shipLines, ~shipLines[l].is_deleted
               PROVE  LET line  == shipLines[l]
                          s     == shipments[line.shipment]
                          gone  == <<line.product, s.from, "PHYSICAL">>
                          going == <<line.product, s.to, "IN_TRANSIT">>
                          here_ == <<line.product, s.to, "PHYSICAL">>
                          qty(key) == LineStock(l, key[1], key[2], key[3]).qty
                      IN  /\ qty(here_) = ReceivedQty(l)
                          /\ \A key \in Keys \ {gone, going, here_} : qty(key) = 0
                          /\ s.shipped /\ ~s.cancelled =>
                                /\ qty(gone) = -line.quantity
                                /\ qty(going) = line.quantity - ReceivedQty(l)
                          /\ ~s.shipped => qty(gone) = 0 /\ qty(going) = 0
  BY DEF StockFollowsRecords
<1> DEFINE Stock(key) == NetIn(ledger, LineAt(l, key))
<1>2. PICK line, ship, got : line = shipLines[l] /\ ship = ShipmentOf(l) /\ got = Got(receipts, l)
  OBVIOUS
<1>3. PICK gone, going, here : /\ gone = Gone(ship, line) /\ going = Going(ship, line)
                               /\ here = Here(ship, line)
  OBVIOUS
<1>4. ReceivedQty(l) = got
  BY <1>1, <1>2, ReceivedIsGot DEF Inv
<1>5. \A product, loc, bucket :
         LineStock(l, product, loc, bucket) = Stock(<<product, loc, bucket>>)
  BY <1>1, SumsOfSets DEF Inv, Sound, Book
<1>6. \A key \in Keys : LineStock(l, key[1], key[2], key[3]) = Stock(key)
  BY <1>5 DEF Keys
<1>7. /\ LineStock(l, here[1], here[2], here[3]) = Stock(here)
      /\ LineStock(l, gone[1], gone[2], gone[3]) = Stock(gone)
      /\ LineStock(l, going[1], going[2], going[3]) = Stock(going)
  BY <1>3, <1>5 DEF Gone, Going, Here
<1> HIDE DEF Stock
<1>8. \A key \in Keys \ {gone, going, here} : Stock(key).qty = 0
  BY <1>1, <1>2, <1>3, NothingElsewhere DEF Placed, NoStock, Stock
<1>9. ~ship.shipped => Stock(here).qty = 0 /\ Stock(gone).qty = 0 /\ Stock(going).qty = 0 /\ got = 0
  <2>1. SUFFICES ASSUME ~ship.shipped
                 PROVE  /\ Stock(here).qty = 0 /\ Stock(gone).qty = 0 /\ Stock(going).qty = 0
                        /\ got = 0
    OBVIOUS
  <2>2. (\A S : S \subseteq RowsOn(l) => NetIn(ledger, S) = NoStock) /\ Got(receipts, l) = 0
    BY <1>1, <1>2, <2>1, NothingSent
  <2>3. \A key : LineAt(l, key) \subseteq RowsOn(l)
    BY DEF LineAt
  <2> QED
    BY <1>2, <2>2, <2>3 DEF Stock, NoStock
<1>10. ship.shipped => /\ Stock(here).qty = got
                       /\ ~ship.cancelled => /\ Stock(gone).qty = -line.quantity
                                             /\ Stock(going).qty = line.quantity - got
  <2>1. SUFFICES ASSUME ship.shipped
                 PROVE  LineMoved(ledger, l, ship, line, got)
    BY <1>3 DEF LineMoved, Stock
  <2> QED
    BY <1>1, <1>2, <2>1 DEF Placed, LinesFollow
<1>11. Stock(here).qty = got
  BY <1>1, <1>2, <1>9, <1>10, RecordTypes DEF Inv, ShipmentRecords, ShipmentOf
<1>12. /\ line = shipLines[l] /\ ship = shipments[line.shipment]
       /\ gone = <<line.product, ship.from, "PHYSICAL">>
       /\ going = <<line.product, ship.to, "IN_TRANSIT">>
       /\ here = <<line.product, ship.to, "PHYSICAL">>
  BY <1>2, <1>3 DEF ShipmentOf, Gone, Going, Here
<1> QED
  BY <1>4, <1>6, <1>7, <1>8, <1>9, <1>10, <1>11, <1>12

\* What a live line of a sent, uncancelled shipment has on its way.
LEMMA RestOnTheWay ==
    ASSUME Inv, Placed, NEW l \in DOMAIN shipLines, ~shipLines[l].is_deleted,
           ShipmentOf(l).shipped, ~ShipmentOf(l).cancelled
    PROVE  InTransit(l).qty = shipLines[l].quantity - ReceivedQty(l)
<1>1. PICK key : key = Going(ShipmentOf(l), shipLines[l])
  OBVIOUS
<1>2. ledger \in Seq(Rows) /\ DOMAIN ledger = 1..Len(ledger) /\ RecordsFit
  BY DEF Inv, Sound, Book
<1>3. ASSUME NEW i \in 1..Len(ledger)
      PROVE  ledger[i] \in TransitOf(l) <=> ledger[i] \in LineAt(l, key)
  <2>1. PICK row \in Rows : row = ledger[i]
    BY <1>2
  <2>2. RowPlaced(row)
    BY <1>2, <2>1 DEF Placed, RowsPlaced
  <2>3. row \in RowsOn(l) => PlacedIn(row, ShipmentOf(l), shipLines[l])
    BY <2>2, RowOnLine DEF RowPlaced
  <2>4. row \in RowsOn(l) => (row.bucket = "IN_TRANSIT" <=> KeyOf(row) = key)
    BY <1>1, <2>3 DEF PlacedIn, KeyOf, Gone, Going, Here
  <2> QED
    BY <2>1, <2>4 DEF TransitOf, LineAt
<1>4. NetIn(ledger, TransitOf(l)) = NetIn(ledger, LineAt(l, key))
  BY <1>2, <1>3, NetInSame
<1>5. InTransit(l) = NetIn(ledger, TransitOf(l))
  BY <1>2, SumsOfSets
<1>6. LineMoved(ledger, l, ShipmentOf(l), shipLines[l], Got(receipts, l))
  BY DEF Placed, LinesFollow
<1>7. ReceivedQty(l) = Got(receipts, l)
  BY <1>2, ReceivedIsGot
<1> QED
  BY <1>1, <1>4, <1>5, <1>6, <1>7 DEF LineMoved

\* The status in terms of what was received.
LEMMA StatusSays ==
    ASSUME RecordsFit, NEW s \in DOMAIN shipments,
           Status(s) \in {"FULLY_RECEIVED", "PARTIALLY_RECEIVED", "SHIPPED"}
    PROVE  /\ shipments[s].shipped /\ ~shipments[s].cancelled
           /\ Status(s) = "FULLY_RECEIVED" => FullyReceived(s)
           /\ Status(s) = "PARTIALLY_RECEIVED" => PartlyReceived(s)
           /\ Status(s) = "SHIPPED" => ~FullyReceived(s) /\ ~PartlyReceived(s)
<1>1. PICK full : full = FullyReceived(s)
  OBVIOUS
<1>2. PICK part : part = PartlyReceived(s)
  OBVIOUS
<1>3. full \in BOOLEAN /\ part \in BOOLEAN
  BY <1>1, <1>2 DEF FullyReceived, PartlyReceived
<1>4. shipments[s].shipped \in BOOLEAN /\ shipments[s].cancelled \in BOOLEAN
  BY RecordTypes DEF ShipmentRecords
<1>5. Status(s) = CASE shipments[s].cancelled -> "CANCELLED"
                    [] ~shipments[s].cancelled /\ ~shipments[s].shipped -> "DRAFT"
                    [] ~shipments[s].cancelled /\ shipments[s].shipped /\ full ->
                          "FULLY_RECEIVED"
                    [] ~shipments[s].cancelled /\ shipments[s].shipped /\ part ->
                          "PARTIALLY_RECEIVED"
                    [] OTHER -> "SHIPPED"
  BY <1>1, <1>2 DEF Status
<1>6. ~(full /\ part)
  BY <1>1, <1>2 DEF PartlyReceived
<1>7. /\ shipments[s].cancelled => Status(s) = "CANCELLED"
      /\ ~shipments[s].cancelled /\ ~shipments[s].shipped => Status(s) = "DRAFT"
      /\ ~shipments[s].cancelled /\ shipments[s].shipped /\ full => Status(s) = "FULLY_RECEIVED"
      /\ ~shipments[s].cancelled /\ shipments[s].shipped /\ part
            => Status(s) = "PARTIALLY_RECEIVED"
      /\ ~shipments[s].cancelled /\ shipments[s].shipped /\ ~full /\ ~part
            => Status(s) = "SHIPPED"
  BY <1>3, <1>4, <1>5, <1>6
<1> QED
  BY <1>1, <1>2, <1>3, <1>4, <1>7

\* What the invariant says of the lines of a shipment in the words of its status.
LEMMA PlacedMeansStatus == Inv /\ Placed => StatusTellsTransit
<1>1. SUFFICES ASSUME Inv, Placed, NEW s \in DOMAIN shipments, Live(s)
               PROVE  LET own == LinesOf(shipLines, s)
                      IN  /\ Status(s) = "FULLY_RECEIVED" => \A l \in own : InTransit(l).qty <= 0
                          /\ Status(s) = "PARTIALLY_RECEIVED" =>
                                /\ \E l \in own : InTransit(l).qty > 0
                                /\ \E l \in own : InTransit(l).qty < shipLines[l].quantity
                          /\ Status(s) = "SHIPPED" =>
                                \A l \in own : InTransit(l).qty = shipLines[l].quantity
  BY DEF StatusTellsTransit
<1>2. RecordsFit
  BY <1>1 DEF Inv
<1>3. PICK own : own = LinesOf(shipLines, s)
  OBVIOUS
<1>4. CASE Status(s) \in {"FULLY_RECEIVED", "PARTIALLY_RECEIVED", "SHIPPED"}
  <2>1. /\ shipments[s].shipped /\ ~shipments[s].cancelled
        /\ Status(s) = "FULLY_RECEIVED" => FullyReceived(s)
        /\ Status(s) = "PARTIALLY_RECEIVED" => PartlyReceived(s)
        /\ Status(s) = "SHIPPED" => ~FullyReceived(s) /\ ~PartlyReceived(s)
    BY <1>2, <1>4, StatusSays
  <2>2. ASSUME NEW l \in own
        PROVE  /\ InTransit(l).qty = shipLines[l].quantity - ReceivedQty(l)
               /\ ReceivedQty(l) \in Nat
               /\ shipLines[l].quantity \in Int /\ shipLines[l].quantity > 0
    <3>1. l \in DOMAIN shipLines /\ ~shipLines[l].is_deleted /\ shipLines[l].shipment = s
      BY <1>3, <2>2 DEF LinesOf
    <3>2. ShipmentOf(l).shipped /\ ~ShipmentOf(l).cancelled
      BY <2>1, <3>1 DEF ShipmentOf
    <3>3. InTransit(l).qty = shipLines[l].quantity - ReceivedQty(l)
      BY <1>1, <3>1, <3>2, RestOnTheWay
    <3>4. ReceivedQty(l) \in Nat
      BY <1>2, ReceivedIsGot, GotType
    <3>5. shipLines[l].quantity \in Int /\ shipLines[l].quantity > 0
      BY <1>2, <3>1, QuantityPositive
    <3> QED
      BY <3>3, <3>4, <3>5
  <2>3. ASSUME Status(s) = "FULLY_RECEIVED", NEW l \in own
        PROVE  InTransit(l).qty <= 0
    <3>1. ReceivedQty(l) >= shipLines[l].quantity
      BY <1>3, <2>1, <2>3 DEF FullyReceived
    <3> QED
      BY <2>2, <3>1
  <2>4. ASSUME Status(s) = "PARTIALLY_RECEIVED"
        PROVE  /\ \E l \in own : InTransit(l).qty > 0
               /\ \E l \in own : InTransit(l).qty < shipLines[l].quantity
    <3>1. ~FullyReceived(s) /\ \E l \in own : ReceivedQty(l) > 0
      BY <1>3, <2>1, <2>4 DEF PartlyReceived
    <3>2. PICK b \in own : ReceivedQty(b) > 0
      BY <3>1
    <3>3. PICK a \in own : ~(ReceivedQty(a) >= shipLines[a].quantity)
      BY <1>3, <3>1, <3>2 DEF FullyReceived
    <3>4. InTransit(a).qty > 0
      BY <2>2, <3>3
    <3>5. InTransit(b).qty < shipLines[b].quantity
      BY <2>2, <3>2
    <3> QED
      BY <3>4, <3>5
  <2>5. ASSUME Status(s) = "SHIPPED", NEW l \in own
        PROVE  InTransit(l).qty = shipLines[l].quantity
    <3>1. ~(ReceivedQty(l) > 0)
      BY <1>3, <2>1, <2>5 DEF PartlyReceived
    <3> QED
      BY <2>2, <3>1
  <2> QED
    BY <1>3, <2>3, <2>4, <2>5
<1>5. CASE Status(s) \notin {"FULLY_RECEIVED", "PARTIALLY_RECEIVED", "SHIPPED"}
  BY <1>5
<1> QED
  BY <1>4, <1>5

\* Where one product is all there is, no load can be stale.
LEMMA OneProductFresh ==
    ASSUME \A p, q \in Products : p = q
    PROVE  Inv => LoadsFresh
<1>1. SUFFICES ASSUME Inv, NEW request \in inFlight, NEW i \in DOMAIN request.items
               PROVE  request.items[i].product = shipLines[request.items[i].line].product
  BY DEF LoadsFresh, Fresh
<1>2. RecordsFit
  BY <1>1 DEF Inv
<1>3. PICK m \in Nat : m = Len(shipLines) /\ DOMAIN shipLines = 1..m
  BY <1>2, RecordTypes
<1>4. request.items \in Seq(LoadedItems(m))
  BY <1>1, <1>2, <1>3 DEF RecordsFit, LoadedRequests
<1>5. request.items[i] \in LoadedItems(m)
  BY <1>1, <1>4
<1>6. request.items[i].line \in DOMAIN shipLines /\ request.items[i].product \in Products
  BY <1>3, <1>5 DEF LoadedItems
<1>7. shipLines[request.items[i].line].product \in Products
  BY <1>2, <1>6, RecordTypes
<1> QED
  BY <1>6, <1>7

\* The invariant, as long as the loads are fresh.
LEMMA AlwaysPlaced == OpenSpec /\ []LoadsFresh => [](Inv /\ Placed)
BY InitInv, InitPlaced, StepPlaces, PTL DEF OpenSpec

\* Among whatever other apps post, the stock of a shipment line is where its records
\* say: received units at the destination, the rest in transit unless the shipment was
\* cancelled, all of it gone from the source, and none anywhere else, through partial
\* and excessive receipts, undone ones, cancellations and edits of drafts, as long as
\* no waiting receipt holds a line whose product was edited after it was loaded
\* (receive_shipment takes the product from the line the serializer loaded).
THEOREM StockIsWhereRecordsSay == OpenSpec => StockFollowsFreshLoads
BY AlwaysPlaced, PlacedMeansFollow, PTL DEF StockFollowsFreshLoads

\* Under the same condition the status of a shipment, which the code computes from
\* the receipts alone (Shipment.status), agrees with what the ledger has in transit.
THEOREM StatusAgreesWithLedger == OpenSpec /\ []LoadsFresh => []StatusTellsTransit
BY AlwaysPlaced, PlacedMeansStatus, PTL

\* With a single product the condition holds by itself, so that receipts may load and
\* wait as they like (receive_shipment, Shipment.status).
THEOREM OneProductIsEnough ==
    ASSUME \A p, q \in Products : p = q
    PROVE  OpenSpec => [](StockFollowsRecords /\ StatusTellsTransit)
<1>1. Inv /\ Placed /\ [Next \/ OthersPost]_vars => Inv' /\ Placed'
  BY OneProductFresh, StepPlaces
<1>2. OpenSpec => [](Inv /\ Placed)
  BY <1>1, InitInv, InitPlaced, PTL DEF OpenSpec
<1> QED
  BY <1>2, PlacedMeansFollow, PlacedMeansStatus, PTL

-----------------------------------------------------------------------------
(* What a line carries *)

\* The value rows leave on the way of a line, and the part of it that is a receipt's.
ReceiptTransit(r, l) == {row \in TransitOf(l) : row.stype = "SHIPMENT_RECEIPT" /\ row.sid = r}

Way(rows, l) == NetIn(rows, TransitOf(l)).aed

Took(rows, r, l) == NetIn(rows, ReceiptTransit(r, l)).aed

\* No line carries less than nothing, and no receipt brings value onto the way.
Carried ==
    /\ \A l : Way(ledger, l) >= 0
    /\ \A r, l : Took(ledger, r, l) <= 0

\* No waiting request names a line twice.
LoadsNameOnce == \A request \in inFlight : OneLineEach(request.items)

\* Movements after which this is still so.
Carries(moves) ==
    /\ \A l : Way(ledger, l) + Way(moves, l) >= 0
    /\ \A r, l : Took(ledger, r, l) + Took(moves, r, l) <= 0

\* Values are numbers, and add up.
LEMMA WayFacts ==
    ASSUME NEW rows \in Seq(Rows), NEW moves \in Seq(Rows), NEW r, NEW l
    PROVE  /\ Way(rows, l) \in Int /\ Took(rows, r, l) \in Int
           /\ Way(rows \o moves, l) = Way(rows, l) + Way(moves, l)
           /\ Took(rows \o moves, r, l) = Took(rows, r, l) + Took(moves, r, l)
<1>1. ASSUME NEW S
      PROVE  /\ NetIn(rows, S).aed \in Int
             /\ NetIn(rows \o moves, S).aed = NetIn(rows, S).aed + NetIn(moves, S).aed
  <2>1. NetIn(rows, S) \in [qty: Int, aed: Int]
    BY NetInType
  <2>2. NetIn(rows \o moves, S) = Plus(NetIn(rows, S), NetIn(moves, S))
    BY NetInConcat
  <2> QED
    BY <2>1, <2>2 DEF Plus
<1> QED
  BY <1>1 DEF Way, Took

\* Rows of no line, and rows of no receipt of it.
LEMMA WayOfNone ==
    ASSUME NEW rows \in Seq(Rows), NEW l
    PROVE  /\ (\A k \in 1..Len(rows) : rows[k] \notin RowsOn(l)) =>
                 Way(rows, l) = 0 /\ \A r : Took(rows, r, l) = 0
           /\ \A r : (\A k \in 1..Len(rows) : ~(/\ rows[k].stype = "SHIPMENT_RECEIPT"
                                                /\ rows[k].sid = r)) => Took(rows, r, l) = 0
<1>1. ASSUME NEW S, \A k \in 1..Len(rows) : rows[k] \notin S
      PROVE  NetIn(rows, S).aed = 0
  BY <1>1, NetInNone DEF NoStock
<1>2. ASSUME \A k \in 1..Len(rows) : rows[k] \notin RowsOn(l)
      PROVE  Way(rows, l) = 0 /\ \A r : Took(rows, r, l) = 0
  <2>1. \A k \in 1..Len(rows) : rows[k] \notin TransitOf(l)
    BY <1>2 DEF TransitOf
  <2>2. \A r : \A k \in 1..Len(rows) : rows[k] \notin ReceiptTransit(r, l)
    BY <2>1 DEF ReceiptTransit
  <2> QED
    BY <1>1, <2>1, <2>2 DEF Way, Took
<1>3. ASSUME NEW r, \A k \in 1..Len(rows) : ~(/\ rows[k].stype = "SHIPMENT_RECEIPT"
                                              /\ rows[k].sid = r)
      PROVE  Took(rows, r, l) = 0
  <2>1. \A k \in 1..Len(rows) : rows[k] \notin ReceiptTransit(r, l)
    BY <1>3 DEF ReceiptTransit
  <2> QED
    BY <1>1, <2>1 DEF Took
<1> QED
  BY <1>2, <1>3

\* If one receipt posts all of them, what it takes is what comes onto the way.
LEMMA TookOwn ==
    ASSUME NEW moves \in Seq(Rows), NEW r, AreOfReceipt(moves, r), NEW l
    PROVE  /\ Took(moves, r, l) = Way(moves, l)
           /\ \A t : t # r => Took(moves, t, l) = 0
<1>1. \A k \in 1..Len(moves) : moves[k] \in ReceiptTransit(r, l) <=> moves[k] \in TransitOf(l)
  BY DEF AreOfReceipt, ReceiptTransit
<1>2. Took(moves, r, l) = Way(moves, l)
  BY <1>1, NetInSame DEF Took, Way
<1>3. ASSUME NEW t, t # r
      PROVE  Took(moves, t, l) = 0
  <2>1. \A k \in 1..Len(moves) : ~(/\ moves[k].stype = "SHIPMENT_RECEIPT"
                                   /\ moves[k].sid = t)
    BY <1>3 DEF AreOfReceipt
  <2> QED
    BY <2>1, WayOfNone
<1> QED
  BY <1>2, <1>3

\* A step that posts such movements.
LEMMA CarriedOn ==
    ASSUME Inv, NEW moves \in Seq(Rows), ledger' = ledger \o moves, Carries(moves)
    PROVE  Carried'
<1>1. ledger \in Seq(Rows)
  BY DEF Inv, Sound, Book
<1>2. ASSUME NEW r, NEW l
      PROVE  /\ Way(ledger', l) = Way(ledger, l) + Way(moves, l)
             /\ Took(ledger', r, l) = Took(ledger, r, l) + Took(moves, r, l)
  BY <1>1, WayFacts
<1>3. \A l : Way(ledger', l) >= 0
  BY <1>2 DEF Carries
<1>4. \A r, l : Took(ledger', r, l) <= 0
  BY <1>2 DEF Carries
<1> QED
  BY <1>3, <1>4 DEF Carried, Way, Took

\* One that posts nothing of any line.
LEMMA CarriedQuiet ==
    ASSUME Inv, Carried, NEW moves \in Seq(Rows), ledger' = ledger \o moves,
           \A k \in 1..Len(moves) : moves[k].stype \notin ShipTypes
    PROVE  Carried'
<1>1. ledger \in Seq(Rows)
  BY DEF Inv, Sound, Book
<1>2. ASSUME NEW r, NEW l
      PROVE  /\ Way(ledger, l) + Way(moves, l) >= 0
             /\ Took(ledger, r, l) + Took(moves, r, l) <= 0
  <2>1. \A k \in 1..Len(moves) : moves[k] \notin RowsOn(l)
    BY RowOnLine
  <2>2. Way(moves, l) = 0 /\ Took(moves, r, l) = 0
    BY <2>1, WayOfNone
  <2>3. PICK way \in Int, took \in Int : way = Way(ledger, l) /\ took = Took(ledger, r, l)
    BY <1>1, WayFacts
  <2>4. way >= 0 /\ took <= 0
    BY <2>3 DEF Carried
  <2> QED
    BY <2>2, <2>3, <2>4
<1> QED
  BY <1>2, CarriedOn DEF Carries

\* One that leaves the ledger alone.
LEMMA CarriedStill ==
    ASSUME Carried, ledger' = ledger
    PROVE  Carried'
<1>1. (\A l : Way(ledger', l) >= 0) /\ (\A r, l : Took(ledger', r, l) <= 0)
  BY DEF Carried
<1> QED
  BY <1>1 DEF Carried, Way, Took

\* Legs that take no less than nothing, and those of a line that come once.
LEMMA LegValueUp ==
    ASSUME NEW legs \in Seq(Legs), \A i \in 1..Len(legs) : legs[i].aed \in Nat, NEW l
    PROVE  LegValue(legs, l) \in Nat
<1>1. PICK f : f = [i \in 1..Len(legs) |-> IF legs[i].line = l THEN legs[i].aed ELSE 0]
  OBVIOUS
<1>2. Len(legs) \in Nat
  OBVIOUS
<1>3. f \in Seq(Nat)
  BY <1>1, <1>2
<1>4. LegValue(legs, l) = SumSeq(f)
  BY <1>1 DEF LegValue
<1> QED
  BY <1>3, <1>4, SumSeqNatural

LineOnce(legs) ==
    \A i, j \in 1..Len(legs) : legs[i].line = legs[j].line => i = j

LEMMA LegValueOnce ==
    ASSUME NEW legs \in Seq(Legs), LineOnce(legs), NEW l, NEW most \in Nat,
           \A i \in 1..Len(legs) : legs[i].line = l => legs[i].aed <= most
    PROVE  LegValue(legs, l) <= most
<1>1. CASE \A i \in 1..Len(legs) : legs[i].line # l
  <2>1. LegValue(legs, l) = 0
    BY <1>1, LegSums
  <2> QED
    BY <2>1
<1>2. ASSUME NEW j \in 1..Len(legs), legs[j].line = l
      PROVE  LegValue(legs, l) <= most
  <2>1. \A i \in 1..Len(legs) : legs[i].line = l => i = j
    BY <1>2 DEF LineOnce
  <2>2. LegValue(legs, l) = legs[j].aed
    BY <1>2, <2>1, LegSums
  <2> QED
    BY <1>2, <2>2
<1> QED
  BY <1>1, <1>2

\* Movements of a shipment itself.
AreOfShipment(moves) == \A k \in 1..Len(moves) : moves[k].stype = "SHIPMENT"

LEMMA CarriedShipment ==
    ASSUME Inv, Carried, NEW moves \in Seq(Rows), ledger' = ledger \o moves, AreOfShipment(moves),
           \A l : Way(ledger, l) + Way(moves, l) >= 0
    PROVE  Carried'
<1>1. ledger \in Seq(Rows)
  BY DEF Inv, Sound, Book
<1>2. ASSUME NEW r, NEW l
      PROVE  Took(ledger, r, l) + Took(moves, r, l) <= 0
  <2>1. \A k \in 1..Len(moves) : ~(/\ moves[k].stype = "SHIPMENT_RECEIPT"
                                   /\ moves[k].sid = r)
    BY DEF AreOfShipment
  <2>2. Took(moves, r, l) = 0
    BY <2>1, WayOfNone
  <2>3. PICK took \in Int : took = Took(ledger, r, l)
    BY <1>1, WayFacts
  <2>4. took <= 0
    BY <2>3 DEF Carried
  <2> QED
    BY <2>2, <2>3, <2>4
<1> QED
  BY <1>2, CarriedOn DEF Carries

\* Shipping puts value on the way of its lines.
LEMMA CarriedSending ==
    ASSUME Inv, Carried, NEW s \in Nat, NEW route, route.from \in Locations,
           route.to \in Locations, NEW n \in Nat, NEW lns \in Seq(ShipLineRecords(n)),
           NEW confirm, Post(ShipMoves(s, route, lns), confirm)
    PROVE  Carried'
<1>1. ledger \in Seq(Rows)
  BY DEF Inv, Sound, Book
<1>2. PICK a \in Places, b \in Places : /\ a = << route.from, "PHYSICAL" >>
                                       /\ b = << route.to, "IN_TRANSIT" >>
  <2>1. << route.from, "PHYSICAL" >> \in Places /\ << route.to, "IN_TRANSIT" >> \in Places
    BY DEF Places, Buckets
  <2> QED
    BY <2>1
<1>3. PICK stype \in ShipTypes : stype = "SHIPMENT"
  BY DEF ShipTypes
<1>4. a[2] # "IN_TRANSIT" /\ b[2] = "IN_TRANSIT"
  BY <1>2
<1>5. \E moves \in Seq(Rows) : /\ ledger' = ledger \o moves /\ AreOfShipment(moves)
                               /\ \A l : Way(moves, l) \in Nat
  <2>1. PICK moves \in Seq(Rows), legs \in Seq(Legs) :
           /\ ledger' = ledger \o moves
           /\ LegsOf(legs, s, lns)
           /\ MovesOf(moves, "SHIPMENT", s, legs)
           /\ moves = Transfers("SHIPMENT", s, legs, << route.from, "PHYSICAL" >>,
                                                    << route.to, "IN_TRANSIT" >>)
    BY ShippingPosts
  <2>2. moves = Transfers(stype, s, legs, a, b)
    BY <1>2, <1>3, <2>1
  <2>3. AreOfShipment(moves)
    BY <2>1 DEF MovesOf, AreOfShipment
  <2>4. ASSUME NEW l
        PROVE  Way(moves, l) \in Nat
    <3>1. NetIn(Transfers(stype, s, legs, a, b), TransitOf(l)).aed = LegValue(legs, l)
      BY <1>4, TransferWay
    <3>2. \A i \in 1..Len(legs) : legs[i].aed \in Nat
      BY <2>1 DEF LegsOf
    <3>3. LegValue(legs, l) \in Nat
      BY <3>2, LegValueUp
    <3> QED
      BY <2>2, <3>1, <3>3 DEF Way
  <2> QED
    BY <2>1, <2>3, <2>4
<1>6. PICK moves \in Seq(Rows) : /\ ledger' = ledger \o moves /\ AreOfShipment(moves)
                                 /\ \A l : Way(moves, l) \in Nat
  BY <1>5
<1>7. ASSUME NEW l
      PROVE  Way(ledger, l) + Way(moves, l) >= 0
  <2>1. PICK way \in Int : way = Way(ledger, l)
    BY <1>1, WayFacts
  <2>2. PICK more \in Nat : more = Way(moves, l)
    BY <1>6
  <2>3. way >= 0
    BY <2>1 DEF Carried
  <2> QED
    BY <2>1, <2>2, <2>3
<1> QED
  BY <1>6, <1>7, CarriedShipment

\* A line that keeps a value no less than nothing if it gives no more than it has.
LEMMA WayDown ==
    ASSUME ledger \in Seq(Rows), Carried, NEW moves, NEW l, NEW less \in Int,
           Way(moves, l) = -less, less <= Way(ledger, l)
    PROVE  Way(ledger, l) + Way(moves, l) >= 0
<1>1. PICK way \in Int : way = Way(ledger, l)
  BY WayFacts
<1>2. PICK down \in Int : down = -less
  OBVIOUS
<1>3. way + down >= 0
  BY <1>1, <1>2
<1> QED
  BY <1>1, <1>2, <1>3

\* What the lines of a shipment have on the way goes back with what it is worth.
LEMMA CarriedCancelling ==
    ASSUME Inv, Carried, NEW s \in DOMAIN shipments, NEW confirm,
           Post(UnreceivedMoves(s), confirm)
    PROVE  Carried'
<1>1. ledger \in Seq(Rows) /\ RecordsFit
  BY DEF Inv, Sound, Book
<1>2. shipments[s].from \in Locations /\ shipments[s].to \in Locations /\ s \in Nat
  BY <1>1, RecordTypes DEF ShipmentRecords
<1>3. PICK a \in Places, b \in Places : /\ a = << shipments[s].to, "IN_TRANSIT" >>
                                       /\ b = << shipments[s].from, "PHYSICAL" >>
  <2>1. /\ << shipments[s].from, "PHYSICAL" >> \in Places
        /\ << shipments[s].to, "IN_TRANSIT" >> \in Places
    BY <1>2 DEF Places, Buckets
  <2> QED
    BY <2>1
<1>4. PICK stype \in ShipTypes : stype = "SHIPMENT"
  BY DEF ShipTypes
<1>5. a[2] = "IN_TRANSIT" /\ b[2] # "IN_TRANSIT"
  BY <1>3
<1>6. PICK m \in Nat : m = Len(shipLines) /\ DOMAIN shipLines = 1..m
  BY <1>1, RecordTypes
<1>7. PICK ids \in SUBSET (1..m) : ids = OpenLines(s)
  BY <1>6 DEF OpenLines, LinesOf
<1>8. \A j, k \in 1..Len(Ordered(ids, m)) : Ordered(ids, m)[j] = Ordered(ids, m)[k] => j = k
  BY OrderedFacts
<1>9. \E moves \in Seq(Rows) :
         /\ ledger' = ledger \o moves /\ AreOfShipment(moves)
         /\ \A l : \E less \in Int : Way(moves, l) = -less /\ less <= Way(ledger, l)
  <2>1. PICK moves \in Seq(Rows), legs \in Seq(Legs) :
           /\ ledger' = ledger \o moves
           /\ RestLegsOf(legs, s)
           /\ MovesOf(moves, "SHIPMENT", s, legs)
           /\ moves = Transfers("SHIPMENT", s, legs, << shipments[s].to, "IN_TRANSIT" >>,
                                                    << shipments[s].from, "PHYSICAL" >>)
    BY CancellingPosts
  <2>2. moves = Transfers(stype, s, legs, a, b)
    BY <1>3, <1>4, <2>1
  <2>3. AreOfShipment(moves)
    BY <2>1 DEF MovesOf, AreOfShipment
  <2>4. LineOnce(legs)
    <3>1. PICK open : open = Ordered(ids, m)
      OBVIOUS
    <3>2. Len(legs) = Len(open) /\ \A i \in 1..Len(legs) : legs[i].line = open[i]
      BY <1>6, <1>7, <2>1, <3>1 DEF RestLegsOf
    <3> QED
      BY <1>8, <3>1, <3>2 DEF LineOnce
  <2>5. ASSUME NEW l
        PROVE  \E less \in Int : Way(moves, l) = -less /\ less <= Way(ledger, l)
    <3>1. NetIn(Transfers(stype, s, legs, a, b), TransitOf(l)).aed = -LegValue(legs, l)
      BY <1>2, <1>5, TransferWay
    <3>2. PICK way \in Nat : way = Way(ledger, l)
      <4>1. Way(ledger, l) \in Int
        BY <1>1, WayFacts
      <4>2. Way(ledger, l) >= 0
        BY DEF Carried
      <4> QED
        BY <4>1, <4>2
    <3>3. InTransit(l).aed = way
      BY <1>1, <3>2, SumsOfSets DEF Way
    <3>4. \A i \in 1..Len(legs) : legs[i].line = l => legs[i].aed <= way
      BY <2>1, <3>3 DEF RestLegsOf
    <3>5. LegValue(legs, l) <= way
      BY <2>4, <3>4, LegValueOnce
    <3>6. LegValue(legs, l) \in Int
      BY LegSums
    <3> QED
      BY <2>2, <3>1, <3>2, <3>5, <3>6 DEF Way
  <2> QED
    BY <2>1, <2>3, <2>5
<1>10. PICK moves \in Seq(Rows) :
         /\ ledger' = ledger \o moves /\ AreOfShipment(moves)
         /\ \A l : \E less \in Int : Way(moves, l) = -less /\ less <= Way(ledger, l)
  BY <1>9
<1>11. ASSUME NEW l
       PROVE  Way(ledger, l) + Way(moves, l) >= 0
  <2>1. PICK less \in Int : Way(moves, l) = -less /\ less <= Way(ledger, l)
    BY <1>10
  <2> QED
    BY <1>1, <2>1, WayDown
<1> QED
  BY <1>10, <1>11, CarriedShipment

\* A receipt takes a share of what is there, if it names no line twice.
LEMMA CarriedReceiving ==
    ASSUME Inv, Carried, NEW s \in DOMAIN shipments,
           NEW items \in Seq(LoadedItems(Len(shipLines))), OneLineEach(items),
           ReceiveShipment(s, items)
    PROVE  Carried'
<1>1. ledger \in Seq(Rows) /\ RecordsFit
  BY DEF Inv, Sound, Book
<1>2. PICK r : r = Len(receipts) + 1
  OBVIOUS
<1>3. Post(ReceiptMoves(s, r, items), FALSE)
  BY <1>2 DEF ReceiveShipment, ReceiptMoves
<1>4. shipments[s].to \in Locations /\ r \in Nat
  BY <1>1, <1>2, RecordTypes DEF ShipmentRecords
<1>5. PICK a \in Places, b \in Places : /\ a = << shipments[s].to, "IN_TRANSIT" >>
                                       /\ b = << shipments[s].to, "PHYSICAL" >>
  <2>1. /\ << shipments[s].to, "PHYSICAL" >> \in Places
        /\ << shipments[s].to, "IN_TRANSIT" >> \in Places
    BY <1>4 DEF Places, Buckets
  <2> QED
    BY <2>1
<1>6. PICK stype \in ShipTypes : stype = "SHIPMENT_RECEIPT"
  BY DEF ShipTypes
<1>7. a[2] = "IN_TRANSIT" /\ b[2] # "IN_TRANSIT"
  BY <1>5
<1>8. PICK m \in Nat : m = Len(shipLines)
  BY <1>1, RecordTypes
<1>9. /\ Len(items) \in Nat /\ DOMAIN items = 1..Len(items)
      /\ \A i \in 1..Len(items) : items[i].quantity \in Nat \ {0}
  <2>1. Len(items) \in Nat /\ DOMAIN items = 1..Len(items)
        /\ \A i \in 1..Len(items) : items[i] \in LoadedItems(m)
    BY <1>8
  <2>2. \A i \in 1..Len(items) : items[i].quantity \in Quantities
    BY <2>1 DEF LoadedItems
  <2> QED
    BY <2>1, <2>2, QuantitiesAssumption
<1>10. ASSUME NEW l, NEW q \in Nat \ {0}
       PROVE  TransitShare(l, q) <= Way(ledger, l)
  <2>1. PICK pool \in Amounts : pool = InTransit(l)
    BY <1>1, TransitTypes
  <2>2. pool.aed = Way(ledger, l)
    BY <1>1, <2>1, SumsOfSets DEF Way
  <2>3. pool.aed >= 0
    BY <2>2 DEF Carried
  <2>4. CarryingShare(q, pool) <= pool.aed
    BY <2>3, CarryingShareWithin
  <2> QED
    BY <2>1, <2>2, <2>4 DEF TransitShare
<1>11. \E moves \in Seq(Rows) :
          /\ ledger' = ledger \o moves /\ AreOfReceipt(moves, r)
          /\ \A l : \E less \in Nat : Way(moves, l) = -less /\ less <= Way(ledger, l)
  <2>1. PICK moves \in Seq(Rows), legs \in Seq(Legs) :
           /\ ledger' = ledger \o moves
           /\ ReceiptLegsOf(legs, items)
           /\ MovesOf(moves, "SHIPMENT_RECEIPT", r, legs)
           /\ moves = Transfers("SHIPMENT_RECEIPT", r, legs,
                                << shipments[s].to, "IN_TRANSIT" >>,
                                << shipments[s].to, "PHYSICAL" >>)
    BY <1>3, <1>4, <1>8, ReceivingPosts
  <2>2. moves = Transfers(stype, r, legs, a, b)
    BY <1>5, <1>6, <2>1
  <2>3. AreOfReceipt(moves, r)
    BY <2>1 DEF MovesOf, AreOfReceipt
  <2>4. /\ Len(legs) = Len(items)
        /\ \A i \in 1..Len(legs) : /\ legs[i].line = items[i].line
                                   /\ legs[i].aed \in Nat
                                   /\ legs[i].aed = TransitShare(items[i].line, items[i].quantity)
    BY <2>1 DEF ReceiptLegsOf
  <2>5. LineOnce(legs)
    BY <1>9, <2>4 DEF LineOnce, OneLineEach
  <2>6. ASSUME NEW l
        PROVE  \E less \in Nat : Way(moves, l) = -less /\ less <= Way(ledger, l)
    <3>1. NetIn(Transfers(stype, r, legs, a, b), TransitOf(l)).aed = -LegValue(legs, l)
      BY <1>4, <1>7, TransferWay
    <3>2. PICK way \in Nat : way = Way(ledger, l)
      <4>1. Way(ledger, l) \in Int
        BY <1>1, WayFacts
      <4>2. Way(ledger, l) >= 0
        BY DEF Carried
      <4> QED
        BY <4>1, <4>2
    <3>3. \A i \in 1..Len(legs) : legs[i].line = l => legs[i].aed <= way
      BY <1>9, <1>10, <2>4, <3>2
    <3>4. LegValue(legs, l) <= way
      BY <2>5, <3>3, LegValueOnce
    <3>5. LegValue(legs, l) \in Nat
      BY <2>4, LegValueUp
    <3> QED
      BY <2>2, <3>1, <3>2, <3>4, <3>5 DEF Way
  <2> QED
    BY <2>1, <2>3, <2>6
<1>12. PICK moves \in Seq(Rows) :
          /\ ledger' = ledger \o moves /\ AreOfReceipt(moves, r)
          /\ \A l : \E less \in Nat : Way(moves, l) = -less /\ less <= Way(ledger, l)
  BY <1>11
<1>13. ASSUME NEW t, NEW l
       PROVE  /\ Way(ledger, l) + Way(moves, l) >= 0
              /\ Took(ledger, t, l) + Took(moves, t, l) <= 0
  <2>1. PICK less \in Nat : Way(moves, l) = -less /\ less <= Way(ledger, l)
    BY <1>12
  <2>2. Way(ledger, l) + Way(moves, l) >= 0
    BY <1>1, <2>1, WayDown
  <2>3. Took(moves, t, l) = -less \/ Took(moves, t, l) = 0
    BY <1>12, <2>1, TookOwn
  <2>4. PICK took \in Int : took = Took(ledger, t, l)
    BY <1>1, WayFacts
  <2>5. took <= 0
    BY <2>4 DEF Carried
  <2>6. PICK down \in Int : down = -less
    OBVIOUS
  <2>7. took + down <= 0 /\ took + 0 <= 0
    BY <2>5, <2>6
  <2> QED
    BY <2>2, <2>3, <2>4, <2>6, <2>7
<1> QED
  BY <1>12, <1>13, CarriedOn DEF Carries

\* Rows reversed.
LEMMA WayBack ==
    ASSUME NEW rows \in Seq(Rows), NEW l
    PROVE  Way(ReversalMovements(rows), l) = -Way(rows, l)
BY LineSetsBlind, ReversalFacts DEF Way

LEMMA ReceiptTransitBlind == \A r, l : Blind(ReceiptTransit(r, l))
<1>1. ASSUME NEW r, NEW l, NEW x \in Rows, NEW y \in Rows, SameRecord(x, y)
      PROVE  x \in ReceiptTransit(r, l) <=> y \in ReceiptTransit(r, l)
  <2>1. x \in TransitOf(l) <=> y \in TransitOf(l)
    BY <1>1, LineSetsBlind DEF Blind
  <2> QED
    BY <1>1, <2>1 DEF ReceiptTransit, SameRecord
<1> QED
  BY <1>1 DEF Blind

\* Undoing a receipt gives back what it took, which is no less than nothing.
LEMMA CarriedUndoing ==
    ASSUME Inv, Carried, NEW r, NEW confirm,
           Post(ReversalMovements(SourceRows(ledger, "SHIPMENT_RECEIPT", r)), confirm)
    PROVE  Carried'
<1>1. ledger \in Seq(Rows) /\ DOMAIN ledger = 1..Len(ledger)
  BY DEF Inv, Sound, Book
<1>2. PICK rows \in Seq(Rows) : rows = SourceRows(ledger, "SHIPMENT_RECEIPT", r)
  BY <1>1, ReceiptTakenBack
<1>3. AreOfReceipt(rows, r)
  BY <1>1, <1>2, ReceiptTakenBack DEF AreOfReceipt
<1>4. PICK moves : moves = ReversalMovements(rows)
  OBVIOUS
<1>5. moves \in Seq(Rows) /\ ledger' = ledger \o moves
  BY <1>2, <1>4, PostStep
<1>6. AreOfReceipt(moves, r)
  <2>1. ASSUME NEW k \in 1..Len(moves)
        PROVE  moves[k].stype = "SHIPMENT_RECEIPT" /\ moves[k].sid = r
    <3>1. \E j \in 1..Len(rows) : SameRecord(moves[k], rows[j])
      BY <1>4, <2>1, ReversalFacts
    <3>2. PICK j \in 1..Len(rows) : SameRecord(moves[k], rows[j])
      BY <3>1
    <3> QED
      BY <1>3, <3>2 DEF AreOfReceipt, SameRecord
  <2> QED
    BY <2>1 DEF AreOfReceipt
<1>7. ASSUME NEW l
      PROVE  Way(rows, l) = Took(ledger, r, l)
  <2>1. PICK I : I = {i \in DOMAIN ledger : /\ ledger[i].stype = "SHIPMENT_RECEIPT"
                                            /\ ledger[i].sid = r}
    OBVIOUS
  <2>2. rows = Kept(ledger, I)
    BY <1>2, <2>1 DEF SourceRows
  <2>3. PICK S, T : S = TransitOf(l) /\ T = ReceiptTransit(r, l)
    OBVIOUS
  <2>4. \A i \in 1..Len(ledger) : i \in I /\ ledger[i] \in S <=> ledger[i] \in T
    BY <1>1, <2>1, <2>3 DEF ReceiptTransit
  <2>5. NetIn(rows, S) = NetIn(ledger, T)
    BY <1>1, <2>2, <2>4, KeptNetAs
  <2> QED
    BY <2>3, <2>5 DEF Way, Took
<1>8. ASSUME NEW t, NEW l
      PROVE  /\ Way(ledger, l) + Way(moves, l) >= 0
             /\ Took(ledger, t, l) + Took(moves, t, l) <= 0
  <2>1. PICK took \in Int, way \in Int, other \in Int :
           took = Took(ledger, r, l) /\ way = Way(ledger, l) /\ other = Took(ledger, t, l)
    BY <1>1, WayFacts
  <2>2. took <= 0 /\ way >= 0 /\ other <= 0
    BY <2>1 DEF Carried
  <2>3. Way(moves, l) = -took
    BY <1>2, <1>4, <1>7, <2>1, WayBack
  <2>4. PICK back \in Int : back = -took
    OBVIOUS
  <2>5. way + back >= 0 /\ took + back <= 0 /\ other + 0 <= 0
    BY <2>2, <2>4
  <2>6. Took(moves, r, l) = back /\ (t # r => Took(moves, t, l) = 0)
    BY <1>5, <1>6, <2>3, <2>4, TookOwn
  <2> QED
    BY <2>1, <2>3, <2>4, <2>5, <2>6
<1> QED
  BY <1>5, <1>8, CarriedOn DEF Carries

\* Deleting a shipment leaves nothing of its lines, and of others what there was.
LEMMA CarriedDeleting ==
    ASSUME Inv, Carried, NEW s, NEW moves, moves = ReversalMovements(RowsOf(s)),
           ledger' = ledger \o moves
    PROVE  Carried'
<1>1. ledger \in Seq(Rows) /\ Sound(Book)
  BY DEF Inv, Sound, Book
<1>2. PICK rows \in Seq(Rows) : rows = RowsOf(s)
  BY <1>1, RowsOfFacts
<1>3. moves \in Seq(Rows)
  BY <1>2, ReversalFacts
<1>4. ASSUME NEW k \in 1..Len(moves)
      PROVE  moves[k].line \in DOMAIN shipLines /\ shipLines[moves[k].line].shipment = s
  <2>1. \E j \in 1..Len(rows) : SameRecord(moves[k], rows[j])
    BY <1>2, <1>4, ReversalFacts
  <2>2. PICK j \in 1..Len(rows) : SameRecord(moves[k], rows[j])
    BY <2>1
  <2>3. \E i \in DOMAIN ledger : \E l \in DOMAIN shipLines :
           shipLines[l].shipment = s /\ OfLine(ledger[i], l) /\ rows[j] = ledger[i]
    BY <1>1, <1>2, RowsOfFacts
  <2>4. PICK l \in DOMAIN shipLines : shipLines[l].shipment = s /\ rows[j].line = l
    BY <2>3 DEF OfLine
  <2> QED
    BY <2>2, <2>4 DEF SameRecord
<1>5. ASSUME NEW r, NEW l
      PROVE  Way(ledger', l) >= 0 /\ Took(ledger', r, l) <= 0
  <2>1. CASE l \in DOMAIN shipLines /\ shipLines[l].shipment = s
    <3>1. PICK S, T : S = TransitOf(l) /\ T = ReceiptTransit(r, l)
      OBVIOUS
    <3>2. Blind(S) /\ Blind(T) /\ S \subseteq RowsOn(l) /\ T \subseteq RowsOn(l)
      BY <3>1, LineSetsBlind, ReceiptTransitBlind DEF ReceiptTransit
    <3>3. NetIn(ledger \o moves, S) = NoStock
      BY <1>1, <2>1, <3>2, DeletionEmpties
    <3>4. NetIn(ledger \o moves, T) = NoStock
      BY <1>1, <2>1, <3>2, DeletionEmpties
    <3> QED
      BY <3>1, <3>3, <3>4 DEF Way, Took, NoStock
  <2>2. CASE ~(l \in DOMAIN shipLines /\ shipLines[l].shipment = s)
    <3>1. \A k \in 1..Len(moves) : moves[k] \notin RowsOn(l)
      BY <1>4, <2>2 DEF RowsOn, OfLine
    <3>2. Way(moves, l) = 0 /\ Took(moves, r, l) = 0
      BY <1>3, <3>1, WayOfNone
    <3>3. PICK way \in Int, took \in Int : way = Way(ledger, l) /\ took = Took(ledger, r, l)
      BY <1>1, WayFacts
    <3>4. way >= 0 /\ took <= 0
      BY <3>3 DEF Carried
    <3>5. Way(ledger', l) = way + Way(moves, l) /\ Took(ledger', r, l) = took + Took(moves, r, l)
      BY <1>1, <1>3, <3>3, WayFacts
    <3> QED
      BY <3>2, <3>3, <3>4, <3>5
  <2> QED
    BY <2>1, <2>2
<1> QED
  BY <1>5 DEF Carried, Way, Took

\* The lines a request loads, it names as often as its payload.
LEMMA LoadedOnce ==
    ASSUME NEW payload, OneLineEach(payload)
    PROVE  OneLineEach(Loaded(payload))
<1>1. PICK items : items = Loaded(payload)
  OBVIOUS
<1>2. DOMAIN items = DOMAIN payload /\ \A i \in DOMAIN payload : items[i].line = payload[i].line
  BY <1>1 DEF Loaded
<1> QED
  BY <1>1, <1>2 DEF OneLineEach

\* What waits names no line twice, if no request does.
LEMMA OnceStays ==
    ASSUME LoadsNameOnce, ~RepeatedLines, [Next \/ OthersPost]_vars
    PROVE  LoadsNameOnce'
<1>1. CASE Load
  <2>1. PICK s \in DOMAIN shipments, payload \in Requests(ReceiptItems) :
           OneLineEach(payload) /\ LoadReceipt(s, payload)
    BY <1>1 DEF Load
  <2>2. PICK new : new = [shipment |-> s, items |-> Loaded(payload)]
    OBVIOUS
  <2>3. inFlight' = inFlight \union {new} /\ OneLineEach(new.items)
    BY <2>1, <2>2, LoadedOnce DEF LoadReceipt
  <2> QED
    BY <2>3 DEF LoadsNameOnce
<1>2. CASE Resume
  <2>1. inFlight' \subseteq inFlight
    BY <1>2 DEF Resume, ReceiveLoaded, RefuseLoaded
  <2> QED
    BY <2>1 DEF LoadsNameOnce
<1>3. CASE inFlight' = inFlight
  BY <1>3 DEF LoadsNameOnce
<1>4. Create => inFlight' = inFlight
  BY DEF Create, CreateShipment
<1>5. Ship => inFlight' = inFlight
  BY DEF Ship, ShipShipment
<1>6. Update => inFlight' = inFlight
  BY DEF Update, UpdateShipment
<1>7. Receive => inFlight' = inFlight
  BY DEF Receive, ReceiveNow
<1>8. UndoReceipt => inFlight' = inFlight
  BY DEF UndoReceipt, DeleteReceipt
<1>9. Cancel => inFlight' = inFlight
  BY DEF Cancel, CancelShipment
<1>10. Delete => inFlight' = inFlight
  BY DEF Delete, SoftDeleteShipment
<1>11. OthersPost => inFlight' = inFlight
  BY DEF OthersPost, shipmentVars
<1>12. UNCHANGED vars => inFlight' = inFlight
  BY DEF vars, shipmentVars
<1> QED
  BY <1>1, <1>2, <1>3, <1>4, <1>5, <1>6, <1>7, <1>8, <1>9, <1>10, <1>11, <1>12 DEF Next

\* Every operation carries on.
LEMMA CreateCarries ==
    ASSUME Inv, Inv', Carried, Create
    PROVE  Carried'
<1>1. PICK route \in Routes, terms \in Requests(LineTerms), ship \in BOOLEAN, confirm \in Confirms :
         CreateShipment(route, terms, ship, confirm)
  BY DEF Create
<1>2. PICK s, lns : /\ s = Len(shipments) + 1
                    /\ lns = shipLines \o [i \in DOMAIN terms |-> NewShipLine(s, terms[i])]
  OBVIOUS
<1>3. /\ IF ship THEN Post(ShipMoves(s, route, lns), confirm) ELSE Install(Book)
      /\ shipLines' = lns
  BY <1>1, <1>2 DEF CreateShipment
<1>4. route.from \in Locations /\ route.to \in Locations
  BY DEF Routes
<1>5. RecordsFit /\ RecordsFit'
  BY DEF Inv
<1>6. s \in Nat
  BY <1>2, <1>5, RecordTypes
<1>7. CASE ~ship
  <2>1. ledger' = ledger
    BY <1>3, <1>7 DEF Install, Book
  <2> QED
    BY <2>1, CarriedStill
<1>8. CASE ship
  <2>1. PICK n \in Nat : lns \in Seq(ShipLineRecords(n))
    BY <1>3, <1>5, RecordTypesNext DEF RecordsFit
  <2>2. Post(ShipMoves(s, route, lns), confirm)
    BY <1>3, <1>8
  <2> QED
    BY <1>4, <1>6, <2>1, <2>2, CarriedSending
<1> QED
  BY <1>7, <1>8

LEMMA ShipCarries ==
    ASSUME Inv, Carried, Ship
    PROVE  Carried'
<1>1. PICK s \in DOMAIN shipments, confirm \in Confirms :
         Post(ShipMoves(s, shipments[s], shipLines), confirm)
  BY DEF Ship, ShipShipment
<1>2. RecordsFit
  BY DEF Inv
<1>3. PICK old \in ShipmentRecords : old = shipments[s]
  BY <1>2, RecordTypes
<1>4. old.from \in Locations /\ old.to \in Locations
  BY DEF ShipmentRecords
<1>5. s \in Nat
  BY <1>2, RecordTypes
<1>6. PICK n \in Nat : shipLines \in Seq(ShipLineRecords(n))
  BY <1>2, RecordTypes DEF RecordsFit
<1>7. Post(ShipMoves(s, old, shipLines), confirm)
  BY <1>1, <1>3
<1> QED
  BY <1>4, <1>5, <1>6, <1>7, CarriedSending

LEMMA CancelCarries ==
    ASSUME Inv, Carried, Cancel
    PROVE  Carried'
<1>1. PICK s \in DOMAIN shipments :
         IF shipments[s].shipped THEN Post(UnreceivedMoves(s), FALSE) ELSE Install(Book)
  BY DEF Cancel, CancelShipment
<1>2. CASE shipments[s].shipped
  BY <1>1, <1>2, CarriedCancelling
<1>3. CASE ~shipments[s].shipped
  <2>1. ledger' = ledger
    BY <1>1, <1>3 DEF Install, Book
  <2> QED
    BY <2>1, CarriedStill
<1> QED
  BY <1>2, <1>3

LEMMA ReceiveCarries ==
    ASSUME Inv, Carried, ~RepeatedLines, Receive
    PROVE  Carried'
<1>1. PICK s \in DOMAIN shipments, payload \in Requests(ReceiptItems) :
         OneLineEach(payload) /\ ReceiveNow(s, payload)
  BY DEF Receive
<1>2. PICK items : items = Loaded(payload)
  OBVIOUS
<1>3. ReceiveShipment(s, items) /\ OneLineEach(items)
  BY <1>1, <1>2, LoadedOnce DEF ReceiveNow
<1>4. items \in Seq(LoadedItems(Len(shipLines)))
  BY <1>2, LoadedType DEF Inv
<1> QED
  BY <1>3, <1>4, CarriedReceiving

LEMMA ResumeCarries ==
    ASSUME Inv, Carried, LoadsNameOnce, Resume
    PROVE  Carried'
<1>1. PICK request \in inFlight : ReceiveLoaded(request) \/ RefuseLoaded(request)
  BY DEF Resume
<1>2. CASE ReceiveLoaded(request)
  <2>1. RecordsFit
    BY DEF Inv
  <2>2. request \in LoadedRequests(Len(shipments), Len(shipLines))
    BY <2>1 DEF RecordsFit
  <2>3. PICK s, items : s = request.shipment /\ items = request.items
    OBVIOUS
  <2>4. s \in DOMAIN shipments /\ items \in Seq(LoadedItems(Len(shipLines)))
    BY <2>1, <2>2, <2>3, RecordTypes DEF LoadedRequests
  <2>5. ReceiveShipment(s, items) /\ OneLineEach(items)
    BY <1>2, <2>3 DEF ReceiveLoaded, LoadsNameOnce
  <2> QED
    BY <2>4, <2>5, CarriedReceiving
<1>3. CASE RefuseLoaded(request)
  BY <1>3, CarriedStill DEF RefuseLoaded
<1> QED
  BY <1>1, <1>2, <1>3

LEMMA DeleteCarries ==
    ASSUME Inv, Carried, Delete
    PROVE  Carried'
<1>1. PICK s \in DOMAIN shipments, confirm \in Confirms : SoftDeleteShipment(s, confirm)
  BY DEF Delete
<1>2. PICK moves : moves = ReversalMovements(RowsOf(s))
  OBVIOUS
<1>3. IF moves = << >> THEN Install(Book) ELSE Post(moves, confirm)
  BY <1>1, <1>2 DEF SoftDeleteShipment
<1>4. CASE moves = << >>
  <2>1. ledger' = ledger
    BY <1>3, <1>4 DEF Install, Book
  <2> QED
    BY <2>1, CarriedStill
<1>5. CASE moves # << >>
  <2>1. ledger' = ledger \o moves
    BY <1>3, <1>5, PostStep
  <2> QED
    BY <1>2, <2>1, CarriedDeleting
<1> QED
  BY <1>4, <1>5

\* So does every step.
LEMMA StepCarries ==
    ASSUME ~RepeatedLines
    PROVE  Inv /\ Carried /\ LoadsNameOnce /\ [Next \/ OthersPost]_vars
              => Inv' /\ Carried' /\ LoadsNameOnce'
<1>1. SUFFICES ASSUME Inv, Carried, LoadsNameOnce, [Next \/ OthersPost]_vars
               PROVE  Inv' /\ Carried' /\ LoadsNameOnce'
  OBVIOUS
<1>2. Inv' /\ LoadsNameOnce'
  <2>1. Inv'
    BY <1>1, StepKeeps
  <2>2. ~RepeatedLines
    OBVIOUS
  <2>3. LoadsNameOnce'
    BY <1>1, <2>2, OnceStays
  <2> QED
    BY <2>1, <2>3
<1>3. CASE Create
  BY <1>1, <1>2, <1>3, CreateCarries
<1>4. CASE Ship
  BY <1>1, <1>2, <1>4, ShipCarries
<1>5. CASE Update
  <2>1. ledger' = ledger
    BY <1>5 DEF Update, UpdateShipment
  <2> QED
    BY <1>1, <1>2, <2>1, CarriedStill
<1>6. CASE Receive
  BY <1>1, <1>2, <1>6, ReceiveCarries
<1>7. CASE Load
  <2>1. ledger' = ledger
    BY <1>7 DEF Load, LoadReceipt
  <2> QED
    BY <1>1, <1>2, <2>1, CarriedStill
<1>8. CASE Resume
  BY <1>1, <1>2, <1>8, ResumeCarries
<1>9. CASE UndoReceipt
  <2>1. PICK r \in DOMAIN receipts, confirm \in Confirms :
           Post(ReversalMovements(SourceRows(ledger, "SHIPMENT_RECEIPT", r)), confirm)
    BY <1>9 DEF UndoReceipt, DeleteReceipt
  <2> QED
    BY <1>1, <1>2, <2>1, CarriedUndoing
<1>10. CASE Cancel
  BY <1>1, <1>2, <1>10, CancelCarries
<1>11. CASE Delete
  BY <1>1, <1>2, <1>11, DeleteCarries
<1>12. CASE OthersPost
  <2>1. PICK moves \in Seq(Rows), confirm \in BOOLEAN :
           /\ \A i \in DOMAIN moves : moves[i].stype \notin ShipTypes
           /\ Post(moves, confirm)
    BY <1>12 DEF OthersPost
  <2>2. ledger' = ledger \o moves
    BY <1>1, <2>1, PostStep
  <2>3. \A k \in 1..Len(moves) : moves[k].stype \notin ShipTypes
    BY <2>1
  <2> QED
    BY <1>1, <1>2, <2>2, <2>3, CarriedQuiet
<1>13. CASE UNCHANGED vars
  <2>1. ledger' = ledger
    BY <1>13 DEF vars
  <2> QED
    BY <1>1, <1>2, <2>1, CarriedStill
<1> QED
  BY <1>1, <1>2, <1>3, <1>4, <1>5, <1>6, <1>7, <1>8, <1>9, <1>10, <1>11, <1>12, <1>13 DEF Next

\* At first nothing is carried.
LEMMA InitCarries == Init => Carried /\ LoadsNameOnce
<1>1. SUFFICES ASSUME Init PROVE Carried /\ LoadsNameOnce
  OBVIOUS
<1>2. ledger = << >> /\ inFlight = {}
  BY <1>1 DEF Init, LedgerInit
<1>3. \A S : NetIn(ledger, S) = NoStock
  BY <1>2, NetInEmpty
<1> QED
  BY <1>2, <1>3 DEF Carried, Way, Took, NoStock, LoadsNameOnce

\* In the words of the property.
LEMMA CarriedMeansCovered == Inv /\ Carried => TransitValueCovered
<1>1. SUFFICES ASSUME Inv, Carried, NEW l \in DOMAIN shipLines PROVE InTransit(l).aed >= 0
  BY DEF TransitValueCovered
<1>2. InTransit(l).aed = Way(ledger, l)
  BY <1>1, SumsOfSets DEF Way, Inv, Sound, Book
<1> QED
  BY <1>1, <1>2 DEF Carried

\* Among whatever other apps post, no line delivers more value than it was shipped with,
\* however its receipts come in parts, exceed what was sent, wait with lines loaded
\* before, and are undone in any order, as long as no receipt names a line twice
\* (_transit_share, which prices every item from what the ledger shows before it).
THEOREM NoLineDeliversTooMuch ==
    ASSUME ~RepeatedLines
    PROVE  OpenSpec => []TransitValueCovered
<1>1. OpenSpec => [](Inv /\ Carried /\ LoadsNameOnce)
  BY InitInv, InitCarries, StepCarries, PTL DEF OpenSpec
<1> QED
  BY <1>1, CarriedMeansCovered, PTL

-----------------------------------------------------------------------------
(* What the pools are worth *)

\* The rows of one product, location and bucket.
AtKey(k) == {row \in Rows : KeyOf(row) = k}

\* What a leg brings to the keys that a set of rows is about.
LegWorth(stype, sid, leg, a, b, S) ==
    (IF OutOf(stype, sid, leg, a) \in S THEN -leg.aed ELSE 0)
        + (IF Into(stype, sid, leg, b) \in S THEN leg.aed ELSE 0)

\* The value of a transfer is that of its legs.
LEMMA TransferWorth ==
    ASSUME NEW stype \in ShipTypes, NEW sid \in Nat, NEW legs \in Seq(Legs),
           NEW a \in Places, NEW b \in Places, NEW S
    PROVE  NetIn(Transfers(stype, sid, legs, a, b), S).aed =
              SumSeq([i \in 1..Len(legs) |-> LegWorth(stype, sid, legs[i], a, b, S)])
<1> DEFINE parts == [i \in 1..Len(legs) |->
                       << OutOf(stype, sid, legs[i], a), Into(stype, sid, legs[i], b) >>]
<1>1. Len(legs) \in Nat /\ \A i \in 1..Len(legs) : legs[i] \in Legs
  OBVIOUS
<1>2. ASSUME NEW i \in 1..Len(legs)
      PROVE  /\ parts[i] \in Seq(Rows)
             /\ NetIn(parts[i], S).aed = LegWorth(stype, sid, legs[i], a, b, S)
  <2>1. PICK leg \in Legs : leg = legs[i]
    BY <1>1
  <2>2. PICK x \in Rows, y \in Rows : /\ x = OutOf(stype, sid, leg, a)
                                      /\ y = Into(stype, sid, leg, b)
    BY LegRows
  <2>3. x.aed = -leg.aed /\ y.aed = leg.aed
    BY <2>2, LegRows
  <2>4. parts[i] = << x, y >>
    BY <2>1, <2>2
  <2>5. /\ << x, y >> \in Seq(Rows)
        /\ NetIn(<< x, y >>, S) = Plus(IF x \in S THEN [qty |-> x.qty, aed |-> x.aed]
                                                  ELSE NoStock,
                                       IF y \in S THEN [qty |-> y.qty, aed |-> y.aed]
                                                  ELSE NoStock)
    BY PairNet
  <2>6. NetIn(<< x, y >>, S).aed = (IF x \in S THEN x.aed ELSE 0) + (IF y \in S THEN y.aed ELSE 0)
    BY <2>5 DEF Plus, NoStock
  <2> HIDE DEF parts
  <2> QED
    BY <2>1, <2>2, <2>3, <2>4, <2>5, <2>6 DEF LegWorth
<1>3. parts \in Seq(Seq(Rows)) /\ Len(parts) = Len(legs)
  <2>1. parts = [i \in 1..Len(legs) |-> parts[i]]
    OBVIOUS
  <2> HIDE DEF parts
  <2> QED
    BY <1>1, <1>2, <2>1
<1>4. Transfers(stype, sid, legs, a, b) = FlattenSeq(parts)
  BY DEF Transfers
<1> HIDE DEF parts
<1>5. NetIn(FlattenSeq(parts), S).aed = SumSeq([i \in 1..Len(parts) |-> NetIn(parts[i], S).aed])
  BY <1>3, FlattenFacts
<1>6. [i \in 1..Len(parts) |-> NetIn(parts[i], S).aed] =
      [i \in 1..Len(legs) |-> LegWorth(stype, sid, legs[i], a, b, S)]
  BY <1>2, <1>3
<1> QED
  BY <1>4, <1>5, <1>6

\* What items that draw on a pool one after another take of one product leaves it with
\* no less than nothing.
LEMMA DrawnWithin ==
    ASSUME NEW pools \in [Products -> Amounts], NEW items, AreItems(items),
           NEW p \in Products, pools[p].aed >= 0,
           NEW f \in Seq(Int), Len(f) = Len(items),
           \A i \in 1..Len(items) :
              f[i] = IF items[i].product = p THEN -ShareInTurn(pools, items, i) ELSE 0
    PROVE  pools[p].aed + SumSeq(f) >= 0
<1> DEFINE left == PoolsInTurn(pools, items)
           T == {n \in Nat : n <= Len(items) =>
                    /\ left[n][p].aed = pools[p].aed + PrefixSums(f)[n]
                    /\ left[n][p].aed >= 0}
<1>0. Len(items) \in Nat /\ pools[p].aed \in Int
  BY DEF AreItems, Amounts
<1>1. \A k \in 0..Len(items) :
         left[k] = IF k = 0 THEN pools ELSE Taken(left[k - 1], items[k].product, items[k].quantity)
  BY <1>0, PoolsInTurnEquation
<1>2. \A k \in 0..Len(items) : left[k] \in [Products -> Amounts]
  BY PoolsInTurnType
<1>3. \A i \in 1..Len(items) :
         ShareInTurn(pools, items, i) = CarryingShare(items[i].quantity, left[i - 1][items[i].product])
  BY DEF ShareInTurn
<1> HIDE DEF left
<1>4. 0 \in T
  BY <1>0, <1>1, PrefixSumsStep
<1>5. ASSUME NEW n \in Nat, n \in T PROVE n + 1 \in T
  <2>1. SUFFICES ASSUME n + 1 <= Len(items)
                 PROVE  /\ left[n + 1][p].aed = pools[p].aed + PrefixSums(f)[n + 1]
                        /\ left[n + 1][p].aed >= 0
    OBVIOUS
  <2>2. n + 1 \in 1..Len(items) /\ n + 1 \in 0..Len(items) /\ n \in 0..Len(items)
        /\ n \in 0..(Len(f) - 1) /\ (n + 1) - 1 = n /\ n + 1 # 0
    BY <1>0, <2>1
  <2>3. PICK q, many : q = items[n + 1].product /\ many = items[n + 1].quantity
    OBVIOUS
  <2>4. q \in Products /\ many \in Nat \ {0}
    BY <2>2, <2>3 DEF AreItems
  <2>5. PICK now \in [Products -> Amounts] : now = left[n]
    BY <1>2, <2>2
  <2>6. left[n + 1] = Taken(now, q, many)
    BY <1>1, <2>2, <2>3, <2>5
  <2>7. PICK was \in Amounts : was = now[p]
    OBVIOUS
  <2>8. was.aed = pools[p].aed + PrefixSums(f)[n] /\ was.aed >= 0
    BY <1>5, <2>1, <2>5, <2>7
  <2>9. PrefixSums(f)[n + 1] = PrefixSums(f)[n] + f[n + 1] /\ PrefixSums(f)[n] \in Int
    BY <2>2, PrefixSumsStep, PrefixSumsType
  <2>10. CASE q = p
    <3>1. PICK share \in Nat : share = CarryingShare(many, was)
      BY <2>4, CarryingShareWithin
    <3>2. share <= was.aed
      BY <2>4, <2>8, <3>1, CarryingShareWithin
    <3>3. f[n + 1] = -share
      BY <1>3, <2>2, <2>3, <2>5, <2>7, <2>10, <3>1
    <3>4. left[n + 1][p].aed = was.aed - share
      BY <2>4, <2>6, <2>7, <2>10, <3>1 DEF Taken
    <3>5. was.aed \in Int
      BY DEF Amounts
    <3> QED
      BY <1>0, <2>8, <2>9, <3>2, <3>3, <3>4, <3>5
  <2>11. CASE q # p
    <3>1. f[n + 1] = 0
      BY <2>2, <2>3, <2>11
    <3>2. left[n + 1][p] = was
      BY <2>4, <2>6, <2>7, <2>11 DEF Taken
    <3> QED
      BY <1>0, <2>8, <2>9, <3>1, <3>2
  <2> QED
    BY <2>10, <2>11
<1> HIDE DEF T
<1>6. \A n \in Nat : n \in T
  BY <1>4, <1>5, NatSetInduction
<1>7. left[Len(items)][p].aed = pools[p].aed + PrefixSums(f)[Len(items)] /\ left[Len(items)][p].aed >= 0
  BY <1>0, <1>6 DEF T
<1> QED
  BY <1>7 DEF SumSeq

\* A post after which no stock is worth less than nothing.
LEMMA PostCovers ==
    ASSUME Inv, NEW moves, NEW confirm, Post(moves, confirm),
           \A k \in Keys : k[3] = "PHYSICAL" => balance[k].aed + NetIn(moves, AtKey(k)).aed >= 0
    PROVE  PoolValueCovered'
<1>1. moves \in Seq(Rows) /\ Book' = Posted(Book, moves)
  BY PostFacts
<1>2. ASSUME NEW k \in Keys, k[3] = "PHYSICAL"
      PROVE  balance'[k].aed >= 0
  <2>1. balance'[k].aed = balance[k].aed + Rollup(moves, k).aed
    BY <1>1 DEF Book, Posted
  <2>2. Rollup(moves, k) = NetIn(moves, AtKey(k))
    BY <1>1, RollupIn DEF AtKey
  <2> QED
    BY <1>2, <2>1, <2>2
<1> QED
  BY <1>2 DEF PoolValueCovered, Keys

\* One that leaves the balances alone.
LEMMA StillCovers ==
    ASSUME PoolValueCovered, balance' = balance
    PROVE  PoolValueCovered'
BY DEF PoolValueCovered, Keys

\* The balances are amounts.
LEMMA BalanceTypes ==
    ASSUME Inv
    PROVE  balance \in [Keys -> Amounts]
BY RollupType DEF Inv, Sound, Book, Amounts

\* A transfer that takes nothing out of a stock, of legs worth something or nothing.
LEMMA ArrivingCovers ==
    ASSUME Inv, PoolValueCovered, NEW stype \in ShipTypes, NEW sid \in Nat,
           NEW legs \in Seq(Legs), \A i \in 1..Len(legs) : legs[i].aed \in Nat,
           NEW a \in Places, NEW b \in Places, a[2] # "PHYSICAL",
           NEW confirm, Post(Transfers(stype, sid, legs, a, b), confirm)
    PROVE  PoolValueCovered'
<1>1. ASSUME NEW k \in Keys, k[3] = "PHYSICAL"
      PROVE  balance[k].aed + NetIn(Transfers(stype, sid, legs, a, b), AtKey(k)).aed >= 0
  <2>1. ASSUME NEW i \in 1..Len(legs)
        PROVE  LegWorth(stype, sid, legs[i], a, b, AtKey(k)) \in Nat
    <3>1. PICK leg \in Legs : leg = legs[i] /\ leg.aed \in Nat
      OBVIOUS
    <3>2. KeyOf(OutOf(stype, sid, leg, a)) = <<leg.product, a[1], a[2]>>
      BY LegRows
    <3>3. OutOf(stype, sid, leg, a) \notin AtKey(k)
      BY <1>1, <3>2 DEF AtKey
    <3> QED
      BY <3>1, <3>3 DEF LegWorth
  <2>2. PICK f : f = [i \in 1..Len(legs) |-> LegWorth(stype, sid, legs[i], a, b, AtKey(k))]
    OBVIOUS
  <2>3. Len(legs) \in Nat
    OBVIOUS
  <2>4. f \in Seq(Nat)
    BY <2>1, <2>2, <2>3
  <2>5. SumSeq(f) \in Nat
    BY <2>4, SumSeqNatural
  <2>6. NetIn(Transfers(stype, sid, legs, a, b), AtKey(k)).aed = SumSeq(f)
    <3>1. NetIn(Transfers(stype, sid, legs, a, b), AtKey(k)).aed =
             SumSeq([i \in 1..Len(legs) |-> LegWorth(stype, sid, legs[i], a, b, AtKey(k))])
      BY TransferWorth
    <3> QED
      BY <2>2, <3>1
  <2>7. PICK worth \in Int : worth = balance[k].aed
    BY BalanceTypes DEF Amounts
  <2>8. worth >= 0
    BY <1>1, <2>7 DEF PoolValueCovered
  <2> QED
    BY <2>5, <2>6, <2>7, <2>8
<1> QED
  BY <1>1, PostCovers

\* Shipping takes no more than the source stock is worth.
LEMMA SendingCovers ==
    ASSUME Inv, PoolValueCovered, NEW s \in Nat, NEW route, route.from \in Locations,
           route.to \in Locations, NEW n \in Nat, NEW lns \in Seq(ShipLineRecords(n)),
           NEW confirm, Post(ShipMoves(s, route, lns), confirm)
    PROVE  PoolValueCovered'
<1>1. PICK a \in Places, b \in Places : /\ a = << route.from, "PHYSICAL" >>
                                       /\ b = << route.to, "IN_TRANSIT" >>
  <2>1. << route.from, "PHYSICAL" >> \in Places /\ << route.to, "IN_TRANSIT" >> \in Places
    BY DEF Places, Buckets
  <2> QED
    BY <2>1
<1>2. PICK stype \in ShipTypes : stype = "SHIPMENT"
  BY DEF ShipTypes
<1>3. PICK legs : /\ LegsOf(legs, s, lns)
                  /\ PricedFrom(legs, PoolsAt(route.from))
                  /\ ShipMoves(s, route, lns) = Transfers(stype, s, legs, a, b)
  BY <1>1, <1>2, ShipMovesAre DEF Inv
<1>4. PICK pools \in [Products -> Amounts] : pools = PoolsAt(route.from)
  BY <1>3 DEF PricedFrom
<1>5. PICK items : /\ AreItems(items)
                   /\ Len(items) = Len(legs)
                   /\ \A i \in 1..Len(legs) : /\ legs[i].product = items[i].product
                                              /\ legs[i].aed = ShareInTurn(pools, items, i)
  BY <1>3, <1>4 DEF PricedFrom
<1>6. legs \in Seq(Legs) /\ Len(legs) \in Nat /\ \A i \in 1..Len(legs) : legs[i].aed \in Nat
  BY <1>3 DEF LegsOf
<1>7. ASSUME NEW k \in Keys, k[3] = "PHYSICAL"
      PROVE  balance[k].aed + NetIn(Transfers(stype, s, legs, a, b), AtKey(k)).aed >= 0
  <2>1. PICK f : f = [i \in 1..Len(legs) |-> LegWorth(stype, s, legs[i], a, b, AtKey(k))]
    OBVIOUS
  <2>2. NetIn(Transfers(stype, s, legs, a, b), AtKey(k)).aed = SumSeq(f)
    BY <1>6, <2>1, TransferWorth
  <2>3. ASSUME NEW i \in 1..Len(legs)
        PROVE  f[i] = IF <<legs[i].product, a[1], a[2]>> = k THEN -legs[i].aed ELSE 0
    <3>1. PICK leg \in Legs : leg = legs[i]
      BY <1>6
    <3>2. OutOf(stype, s, leg, a) \in Rows /\ KeyOf(OutOf(stype, s, leg, a)) = <<leg.product, a[1], a[2]>>
      BY LegRows
    <3>3. KeyOf(Into(stype, s, leg, b)) = <<leg.product, b[1], b[2]>>
      BY LegRows
    <3>4. Into(stype, s, leg, b) \notin AtKey(k)
      BY <1>1, <1>7, <3>3 DEF AtKey
    <3>5. OutOf(stype, s, leg, a) \in AtKey(k) <=> <<leg.product, a[1], a[2]>> = k
      BY <3>2 DEF AtKey
    <3>6. PICK v \in Nat : v = leg.aed
      BY <1>6, <3>1
    <3>7. f[i] = LegWorth(stype, s, leg, a, b, AtKey(k))
      BY <2>1, <3>1
    <3>8. PICK here_ \in BOOLEAN : here_ = (<<leg.product, a[1], a[2]>> = k)
      OBVIOUS
    <3>9. LegWorth(stype, s, leg, a, b, AtKey(k)) = (IF here_ THEN -v ELSE 0) + 0
      BY <3>4, <3>5, <3>6, <3>8 DEF LegWorth
    <3>10. (IF here_ THEN -v ELSE 0) + 0 = IF here_ THEN -v ELSE 0
      OBVIOUS
    <3> QED
      BY <3>1, <3>6, <3>7, <3>8, <3>9, <3>10
  <2>4. f \in Seq(Int) /\ Len(f) = Len(items)
    <3>1. \A i \in 1..Len(legs) : f[i] \in Int
      BY <1>6, <2>3
    <3> QED
      BY <1>5, <1>6, <2>1, <3>1
  <2>5. PICK worth \in Int : worth = balance[k].aed
    BY BalanceTypes DEF Amounts
  <2>6. worth >= 0
    BY <1>7, <2>5 DEF PoolValueCovered
  <2>7. CASE k[2] = a[1]
    <3>1. PICK p \in Products : p = k[1]
      BY DEF Keys
    <3>2. k = <<p, a[1], a[2]>> /\ a[1] = route.from /\ a[2] = "PHYSICAL"
      BY <1>1, <1>7, <2>7, <3>1 DEF Keys
    <3>3. pools[p].aed = worth
      BY <1>4, <2>5, <3>2 DEF PoolsAt
    <3>4. ASSUME NEW i \in 1..Len(items)
          PROVE  f[i] = IF items[i].product = p THEN -ShareInTurn(pools, items, i) ELSE 0
      <4>1. <<legs[i].product, a[1], a[2]>> = k <=> legs[i].product = p
        BY <3>2
      <4> QED
        BY <1>5, <2>3, <4>1
    <3>5. pools[p].aed + SumSeq(f) >= 0
      BY <1>5, <2>4, <2>6, <3>3, <3>4, DrawnWithin
    <3> QED
      BY <2>2, <2>5, <3>3, <3>5
  <2>8. CASE k[2] # a[1]
    <3>1. \A i \in 1..Len(f) : f[i] = 0
      BY <1>5, <2>3, <2>4, <2>8
    <3>2. SumSeq(f) = 0
      BY <2>4, <3>1, SumSeqZero
    <3> QED
      BY <2>2, <2>5, <2>6, <3>2
  <2> QED
    BY <2>7, <2>8
<1>8. Post(Transfers(stype, s, legs, a, b), confirm)
  BY <1>3
<1> QED
  BY <1>7, <1>8, PostCovers

\* A receipt brings value to the destination stock.
LEMMA ReceivingCovers ==
    ASSUME Inv, PoolValueCovered, NEW s \in DOMAIN shipments, NEW m \in Nat,
           NEW items \in Seq(LoadedItems(m)), ReceiveShipment(s, items)
    PROVE  PoolValueCovered'
<1>1. PICK r \in Nat : r = Len(receipts) + 1
  BY RecordTypes DEF Inv
<1>2. Post(ReceiptMoves(s, r, items), FALSE)
  BY <1>1 DEF ReceiveShipment, ReceiptMoves
<1>3. PICK a \in Places, b \in Places : /\ a = << shipments[s].to, "IN_TRANSIT" >>
                                       /\ b = << shipments[s].to, "PHYSICAL" >>
  <2>1. shipments[s].to \in Locations
    BY RecordTypes DEF Inv, ShipmentRecords
  <2>2. << shipments[s].to, "IN_TRANSIT" >> \in Places /\ << shipments[s].to, "PHYSICAL" >> \in Places
    BY <2>1 DEF Places, Buckets
  <2> QED
    BY <2>2
<1>4. PICK stype \in ShipTypes : stype = "SHIPMENT_RECEIPT"
  BY DEF ShipTypes
<1>5. ledger \in Seq(Rows)
  BY DEF Inv, Sound, Book
<1>6. PICK legs : /\ ReceiptLegsOf(legs, items)
                  /\ ReceiptMoves(s, r, items) = Transfers(stype, r, legs, a, b)
  BY <1>3, <1>4, <1>5, ReceiptMovesAre
<1>7. legs \in Seq(Legs) /\ \A i \in 1..Len(legs) : legs[i].aed \in Nat
  BY <1>6 DEF ReceiptLegsOf
<1>8. Post(Transfers(stype, r, legs, a, b), FALSE) /\ a[2] # "PHYSICAL"
  BY <1>2, <1>3, <1>6
<1> QED
  BY <1>7, <1>8, ArrivingCovers

\* Cancelling brings what is on the way back to the source stock.
LEMMA CancellingCovers ==
    ASSUME Inv, PoolValueCovered, NEW s \in DOMAIN shipments, Post(UnreceivedMoves(s), FALSE)
    PROVE  PoolValueCovered'
<1>1. PICK a \in Places, b \in Places : /\ a = << shipments[s].to, "IN_TRANSIT" >>
                                       /\ b = << shipments[s].from, "PHYSICAL" >>
  <2>1. shipments[s].to \in Locations /\ shipments[s].from \in Locations
    BY RecordTypes DEF Inv, ShipmentRecords
  <2>2. /\ << shipments[s].to, "IN_TRANSIT" >> \in Places
        /\ << shipments[s].from, "PHYSICAL" >> \in Places
    BY <2>1 DEF Places, Buckets
  <2> QED
    BY <2>2
<1>2. PICK stype \in ShipTypes : stype = "SHIPMENT"
  BY DEF ShipTypes
<1>3. PICK legs : /\ RestLegsOf(legs, s)
                  /\ UnreceivedMoves(s) = Transfers(stype, s, legs, a, b)
  BY <1>1, <1>2, UnreceivedMovesAre DEF Inv
<1>4. legs \in Seq(Legs) /\ \A i \in 1..Len(legs) : legs[i].aed \in Nat
  BY <1>3 DEF RestLegsOf
<1>5. s \in Nat
  BY RecordTypes DEF Inv
<1>6. Post(Transfers(stype, s, legs, a, b), FALSE) /\ a[2] # "PHYSICAL"
  BY <1>1, <1>3
<1> QED
  BY <1>4, <1>5, <1>6, ArrivingCovers

\* No receipt was undone, and no shipment that was sent deleted.
NothingTakenBack ==
    /\ \A r \in DOMAIN receipts : ~receipts[r].is_deleted
    /\ \A s \in DOMAIN shipments : shipments[s].shipped => Live(s)

\* The other apps, as long as what they post takes no more value than there is.
OthersKeep == OthersPost /\ (PoolValueCovered => PoolValueCovered')

\* Every operation covers the stocks.
LEMMA CreateCovers ==
    ASSUME Inv, Inv', PoolValueCovered, Create
    PROVE  PoolValueCovered'
<1>1. PICK route \in Routes, terms \in Requests(LineTerms), ship \in BOOLEAN, confirm \in Confirms :
         CreateShipment(route, terms, ship, confirm)
  BY DEF Create
<1>2. PICK s, lns : /\ s = Len(shipments) + 1
                    /\ lns = shipLines \o [i \in DOMAIN terms |-> NewShipLine(s, terms[i])]
  OBVIOUS
<1>3. /\ IF ship THEN Post(ShipMoves(s, route, lns), confirm) ELSE Install(Book)
      /\ shipLines' = lns
  BY <1>1, <1>2 DEF CreateShipment
<1>4. route.from \in Locations /\ route.to \in Locations
  BY DEF Routes
<1>5. RecordsFit /\ RecordsFit'
  BY DEF Inv
<1>6. s \in Nat
  BY <1>2, <1>5, RecordTypes
<1>7. CASE ~ship
  <2>1. balance' = balance
    BY <1>3, <1>7 DEF Install, Book
  <2> QED
    BY <2>1, StillCovers
<1>8. CASE ship
  <2>1. PICK n \in Nat : lns \in Seq(ShipLineRecords(n))
    BY <1>3, <1>5, RecordTypesNext DEF RecordsFit
  <2>2. Post(ShipMoves(s, route, lns), confirm)
    BY <1>3, <1>8
  <2> QED
    BY <1>4, <1>6, <2>1, <2>2, SendingCovers
<1> QED
  BY <1>7, <1>8

LEMMA ShipCovers ==
    ASSUME Inv, PoolValueCovered, Ship
    PROVE  PoolValueCovered'
<1>1. PICK s \in DOMAIN shipments, confirm \in Confirms :
         Post(ShipMoves(s, shipments[s], shipLines), confirm)
  BY DEF Ship, ShipShipment
<1>2. RecordsFit
  BY DEF Inv
<1>3. PICK old \in ShipmentRecords : old = shipments[s]
  BY <1>2, RecordTypes
<1>4. old.from \in Locations /\ old.to \in Locations
  BY DEF ShipmentRecords
<1>5. s \in Nat
  BY <1>2, RecordTypes
<1>6. PICK n \in Nat : shipLines \in Seq(ShipLineRecords(n))
  BY <1>2, RecordTypes DEF RecordsFit
<1>7. Post(ShipMoves(s, old, shipLines), confirm)
  BY <1>1, <1>3
<1> QED
  BY <1>4, <1>5, <1>6, <1>7, SendingCovers

LEMMA ReceiveCovers ==
    ASSUME Inv, PoolValueCovered, Receive
    PROVE  PoolValueCovered'
<1>1. PICK s \in DOMAIN shipments, payload \in Requests(ReceiptItems) : ReceiveNow(s, payload)
  BY DEF Receive
<1>2. PICK items : items = Loaded(payload)
  OBVIOUS
<1>3. ReceiveShipment(s, items)
  BY <1>1, <1>2 DEF ReceiveNow
<1>4. PICK m \in Nat : m = Len(shipLines)
  BY RecordTypes DEF Inv
<1>5. items \in Seq(LoadedItems(m))
  BY <1>1, <1>2, <1>4, LoadedType DEF Inv, ReceiveNow
<1> QED
  BY <1>3, <1>5, ReceivingCovers

LEMMA ResumeCovers ==
    ASSUME Inv, PoolValueCovered, Resume
    PROVE  PoolValueCovered'
<1>1. PICK request \in inFlight : ReceiveLoaded(request) \/ RefuseLoaded(request)
  BY DEF Resume
<1>2. CASE ReceiveLoaded(request)
  <2>1. RecordsFit
    BY DEF Inv
  <2>2. request \in LoadedRequests(Len(shipments), Len(shipLines))
    BY <2>1 DEF RecordsFit
  <2>3. PICK s, items : s = request.shipment /\ items = request.items
    OBVIOUS
  <2>4. PICK m \in Nat : m = Len(shipLines)
    BY <2>1, RecordTypes
  <2>5. s \in DOMAIN shipments /\ items \in Seq(LoadedItems(m))
    BY <2>1, <2>2, <2>3, <2>4, RecordTypes DEF LoadedRequests
  <2>6. ReceiveShipment(s, items)
    BY <1>2, <2>3 DEF ReceiveLoaded
  <2> QED
    BY <2>5, <2>6, ReceivingCovers
<1>3. CASE RefuseLoaded(request)
  BY <1>3, StillCovers DEF RefuseLoaded
<1> QED
  BY <1>1, <1>2, <1>3

LEMMA CancelCovers ==
    ASSUME Inv, PoolValueCovered, Cancel
    PROVE  PoolValueCovered'
<1>1. PICK s \in DOMAIN shipments :
         IF shipments[s].shipped THEN Post(UnreceivedMoves(s), FALSE) ELSE Install(Book)
  BY DEF Cancel, CancelShipment
<1>2. CASE shipments[s].shipped
  BY <1>1, <1>2, CancellingCovers
<1>3. CASE ~shipments[s].shipped
  <2>1. balance' = balance
    BY <1>1, <1>3 DEF Install, Book
  <2> QED
    BY <2>1, StillCovers
<1> QED
  BY <1>2, <1>3

\* Undoing a receipt takes something back.
LEMMA UndoTakesBack ==
    ASSUME Inv, UndoReceipt
    PROVE  ~NothingTakenBack'
<1>1. PICK r \in DOMAIN receipts : receipts' = [receipts EXCEPT ![r].is_deleted = TRUE]
  BY DEF UndoReceipt, DeleteReceipt
<1>2. PICK n, m : receipts \in Seq(ReceiptRecords(n, m))
  BY DEF Inv, RecordsFit
<1>3. PICK old \in ReceiptRecords(n, m) : old = receipts[r]
  BY <1>2
<1>4. receipts'[r] = [old EXCEPT !.is_deleted = TRUE] /\ r \in DOMAIN receipts'
  BY <1>1, <1>3
<1>5. receipts'[r].is_deleted
  BY <1>4 DEF ReceiptRecords
<1> QED
  BY <1>4, <1>5 DEF NothingTakenBack

\* A draft that is deleted has no rows to take back.
LEMMA DeleteCovers ==
    ASSUME Inv, PoolValueCovered, NothingTakenBack', Delete
    PROVE  PoolValueCovered'
<1>1. PICK s \in DOMAIN shipments, confirm \in Confirms : SoftDeleteShipment(s, confirm)
  BY DEF Delete
<1>2. PICK moves : moves = ReversalMovements(RowsOf(s))
  OBVIOUS
<1>3. /\ IF moves = << >> THEN Install(Book) ELSE Post(moves, confirm)
      /\ shipments' = [shipments EXCEPT ![s].is_deleted = TRUE]
  BY <1>1, <1>2 DEF SoftDeleteShipment
<1>4. ~shipments[s].shipped
  <2>1. shipments \in Seq(ShipmentRecords)
    BY DEF Inv, RecordsFit
  <2>2. PICK old \in ShipmentRecords : old = shipments[s]
    BY <2>1
  <2>3. shipments'[s] = [old EXCEPT !.is_deleted = TRUE] /\ s \in DOMAIN shipments'
    BY <1>3, <2>2
  <2>4. shipments'[s].is_deleted /\ shipments'[s].shipped = old.shipped
    BY <2>3 DEF ShipmentRecords
  <2>5. ~shipments'[s].shipped
    BY <2>3, <2>4 DEF NothingTakenBack, Live
  <2> QED
    BY <2>2, <2>4, <2>5
<1>5. PICK rows \in Seq(Rows) : rows = RowsOf(s)
  BY RowsOfFacts DEF Inv
<1>6. Len(rows) = 0
  <2>1. SUFFICES ASSUME NEW k \in 1..Len(rows) PROVE FALSE
    <3>1. Len(rows) \in Nat
      OBVIOUS
    <3>2. Len(rows) # 0 => 1 \in 1..Len(rows)
      BY <3>1
    <3> QED
      BY <3>2
  <2>2. PICK i \in DOMAIN ledger : \E l \in DOMAIN shipLines :
           shipLines[l].shipment = s /\ OfLine(ledger[i], l)
    BY <1>5, <2>1, RowsOfFacts DEF Inv
  <2>3. PICK l \in DOMAIN shipLines : shipLines[l].shipment = s /\ OfLine(ledger[i], l)
    BY <2>2
  <2>4. RowFits(ledger[i])
    BY DEF Inv, RowsFit
  <2>5. ledger[i].stype \in ShipTypes /\ ledger[i].line = l
    BY <2>3 DEF OfLine, ShipTypes
  <2> QED
    BY <1>4, <2>3, <2>4, <2>5 DEF RowFits
<1>7. moves = << >>
  BY <1>2, <1>5, <1>6 DEF ReversalMovements
<1>8. balance' = balance
  BY <1>3, <1>7 DEF Install, Book
<1> QED
  BY <1>8, StillCovers

\* So does every step.
LEMMA StepCovers ==
    Inv /\ PoolValueCovered /\ NothingTakenBack' /\ [Next \/ OthersKeep]_vars
        => Inv' /\ PoolValueCovered'
<1>1. SUFFICES ASSUME Inv, PoolValueCovered, NothingTakenBack', [Next \/ OthersKeep]_vars
               PROVE  Inv' /\ PoolValueCovered'
  OBVIOUS
<1>2. Inv'
  <2>1. [Next \/ OthersPost]_vars
    BY <1>1 DEF OthersKeep
  <2> QED
    BY <1>1, <2>1, StepKeeps
<1>3. CASE Create
  BY <1>1, <1>2, <1>3, CreateCovers
<1>4. CASE Ship
  BY <1>1, <1>2, <1>4, ShipCovers
<1>5. CASE Update
  <2>1. balance' = balance
    BY <1>5 DEF Update, UpdateShipment
  <2> QED
    BY <1>1, <1>2, <2>1, StillCovers
<1>6. CASE Receive
  BY <1>1, <1>2, <1>6, ReceiveCovers
<1>7. CASE Load
  <2>1. balance' = balance
    BY <1>7 DEF Load, LoadReceipt
  <2> QED
    BY <1>1, <1>2, <2>1, StillCovers
<1>8. CASE Resume
  BY <1>1, <1>2, <1>8, ResumeCovers
<1>9. CASE UndoReceipt
  BY <1>1, <1>9, UndoTakesBack
<1>10. CASE Cancel
  BY <1>1, <1>2, <1>10, CancelCovers
<1>11. CASE Delete
  BY <1>1, <1>2, <1>11, DeleteCovers
<1>12. CASE OthersKeep
  BY <1>1, <1>2, <1>12 DEF OthersKeep
<1>13. CASE UNCHANGED vars
  <2>1. balance' = balance
    BY <1>13 DEF vars
  <2> QED
    BY <1>1, <1>2, <2>1, StillCovers
<1> QED
  BY <1>1, <1>2, <1>3, <1>4, <1>5, <1>6, <1>7, <1>8, <1>9, <1>10, <1>11, <1>12, <1>13 DEF Next

\* Among other apps that take no more value than there is, shipping takes no more value
\* than the source stock is worth, however the lines of a shipment share a pool
\* (ship_shipment), and receipts, repeated lines and shortages included, and cancellations
\* bring value no less than nothing, as long as no receipt is undone and no shipment that
\* was sent is deleted: those take the value out that came in, whatever became of it.
THEOREM ShippingCoversPools ==
    Init /\ [][Next \/ OthersKeep]_vars /\ []NothingTakenBack => []ShipmentsKeepPoolValue
<1>1. Init => Inv /\ PoolValueCovered
  BY InitInv DEF Init, LedgerInit, PoolValueCovered
<1>2. PoolValueCovered => ShipmentsKeepPoolValue
  BY DEF ShipmentsKeepPoolValue
<1> QED
  BY <1>1, <1>2, StepCovers, PTL
=============================================================================
