------------------------- MODULE AdjustmentsProofs -------------------------
(***************************************************************************)
(* The ledger follows every adjustment through every series of edits, for  *)
(* every set of products, locations and quantities.                        *)
(*                                                                         *)
(* An edit reverses what NetPosted finds anywhere, at the place the record *)
(* names.  That is right only because all the adjustment has posted is at  *)
(* that place, and clears the value only because quantity and value have   *)
(* the same direction: both are part of the inductive invariant.           *)
(***************************************************************************)
EXTENDS Adjustments, StockLedgerProofs

\* The rows of an adjustment in PHYSICAL, and those of one product and location.
RowsOf(a) ==
    {row \in Rows : row.stype = "STOCK_ADJUSTMENT" /\ row.sid = a /\ row.bucket = "PHYSICAL"}

RowsAt(a, product, loc) ==
    {row \in Rows : /\ row.stype = "STOCK_ADJUSTMENT" /\ row.sid = a
                    /\ row.product = product /\ row.loc = loc}

\* The quantity a record stands for.
SignedQty(record) ==
    (IF record.adjustment_type = "INCREASE" THEN 1 ELSE -1) * record.quantity

\* The amount x is in one direction, quantity and value alike.
SameDirection(x) ==
    /\ x.qty > 0 => x.aed >= 0
    /\ x.qty < 0 => x.aed <= 0

\* What the rows of adjustment a look like when its record is `record`.
Follows(rows, a, record) ==
    /\ IF record.is_deleted
       THEN NetIn(rows, RowsOf(a)) = NoStock
       ELSE /\ NetIn(rows, RowsOf(a)).qty = SignedQty(record)
            /\ SameDirection(NetIn(rows, RowsOf(a)))
    /\ \A product \in Products, loc \in Locations :
          NetIn(rows, RowsAt(a, product, loc)) =
             IF product = record.product /\ loc = record.location
             THEN NetIn(rows, RowsOf(a)) ELSE NoStock

\* An adjustment that does not exist yet has posted nothing.
Untouched(rows, a) ==
    /\ NetIn(rows, RowsOf(a)) = NoStock
    /\ \A product \in Products, loc \in Locations :
          NetIn(rows, RowsAt(a, product, loc)) = NoStock

Records == [location: Locations, product: Products, is_deleted: BOOLEAN,
            adjustment_type: AdjustmentTypes, quantity: Quantities]

\* The inductive invariant.
Inv ==
    /\ Sound(Book)
    /\ adjustments \in Seq(Records)
    /\ \A a \in DOMAIN adjustments : Follows(ledger, a, adjustments[a])
    /\ \A a \in Nat \ DOMAIN adjustments : Untouched(ledger, a)

-----------------------------------------------------------------------------
(* Sums over the ledger as the model writes them *)

\* The model's sums are sums over the sets of rows above.
LEMMA SumsOfSets ==
    ASSUME ledger \in Seq(Rows)
    PROVE  /\ \A a : NetPosted(a) = NetIn(ledger, RowsOf(a))
           /\ \A a, product, loc :
                 Contribution(a, product, loc) = NetIn(ledger, RowsAt(a, product, loc))
<1>1. \A i \in 1..Len(ledger) : ledger[i] \in Rows
  OBVIOUS
<1>2. ASSUME NEW a PROVE NetPosted(a) = NetIn(ledger, RowsOf(a))
  <2>1. [i \in 1..Len(ledger) |->
            IF /\ ledger[i].stype = "STOCK_ADJUSTMENT" /\ ledger[i].sid = a
               /\ ledger[i].bucket = "PHYSICAL" THEN ledger[i].qty ELSE 0] =
        [i \in 1..Len(ledger) |-> IF ledger[i] \in RowsOf(a) THEN ledger[i].qty ELSE 0]
    BY <1>1 DEF RowsOf
  <2>2. [i \in 1..Len(ledger) |->
            IF /\ ledger[i].stype = "STOCK_ADJUSTMENT" /\ ledger[i].sid = a
               /\ ledger[i].bucket = "PHYSICAL" THEN ledger[i].aed ELSE 0] =
        [i \in 1..Len(ledger) |-> IF ledger[i] \in RowsOf(a) THEN ledger[i].aed ELSE 0]
    BY <1>1 DEF RowsOf
  <2> QED
    BY <2>1, <2>2 DEF NetPosted, NetIn, Net, SumOf
<1>3. ASSUME NEW a, NEW product, NEW loc
      PROVE  Contribution(a, product, loc) = NetIn(ledger, RowsAt(a, product, loc))
  <2>1. [i \in 1..Len(ledger) |->
            IF /\ ledger[i].stype = "STOCK_ADJUSTMENT" /\ ledger[i].sid = a
               /\ ledger[i].product = product /\ ledger[i].loc = loc
            THEN ledger[i].qty ELSE 0] =
        [i \in 1..Len(ledger) |->
            IF ledger[i] \in RowsAt(a, product, loc) THEN ledger[i].qty ELSE 0]
    BY <1>1 DEF RowsAt
  <2>2. [i \in 1..Len(ledger) |->
            IF /\ ledger[i].stype = "STOCK_ADJUSTMENT" /\ ledger[i].sid = a
               /\ ledger[i].product = product /\ ledger[i].loc = loc
            THEN ledger[i].aed ELSE 0] =
        [i \in 1..Len(ledger) |->
            IF ledger[i] \in RowsAt(a, product, loc) THEN ledger[i].aed ELSE 0]
    BY <1>1 DEF RowsAt
  <2> QED
    BY <2>1, <2>2 DEF Contribution, NetIn, Net, SumOf
<1> QED
  BY <1>2, <1>3

-----------------------------------------------------------------------------
(* One movement of an adjustment *)

\* m is a PHYSICAL movement of some adjustment.
IsAdjustmentMove(m) ==
    m \in Rows /\ m.stype = "STOCK_ADJUSTMENT" /\ m.bucket = "PHYSICAL"

Amount(m) == [qty |-> m.qty, aed |-> m.aed]

\* A movement adds its amount to its own adjustment, at its own place.
LEMMA MoveAdds ==
    ASSUME NEW rows \in Seq(Rows), NEW m, IsAdjustmentMove(m)
    PROVE  /\ rows \o << m >> \in Seq(Rows)
           /\ \A b : NetIn(rows \o << m >>, RowsOf(b)) =
                        IF b = m.sid THEN Plus(NetIn(rows, RowsOf(b)), Amount(m))
                        ELSE NetIn(rows, RowsOf(b))
           /\ \A b, product, loc :
                 NetIn(rows \o << m >>, RowsAt(b, product, loc)) =
                    IF b = m.sid /\ product = m.product /\ loc = m.loc
                    THEN Plus(NetIn(rows, RowsAt(b, product, loc)), Amount(m))
                    ELSE NetIn(rows, RowsAt(b, product, loc))
<1>1. m \in Rows /\ << m >> \in Seq(Rows) /\ rows \o << m >> \in Seq(Rows)
  BY DEF IsAdjustmentMove
<1>2. \A S : NetIn(rows \o << m >>, S) =
               IF m \in S THEN Plus(NetIn(rows, S), Amount(m)) ELSE NetIn(rows, S)
  <2>1. SUFFICES ASSUME NEW S
                 PROVE  NetIn(rows \o << m >>, S) =
                          IF m \in S THEN Plus(NetIn(rows, S), Amount(m)) ELSE NetIn(rows, S)
    OBVIOUS
  <2>2. NetIn(rows \o << m >>, S) = Plus(NetIn(rows, S), NetIn(<< m >>, S))
    BY <1>1, NetInConcat
  <2>3. NetIn(<< m >>, S) = IF m \in S THEN Amount(m) ELSE NoStock
    BY <1>1, NetInSingle DEF Amount
  <2>4. Plus(NetIn(rows, S), NoStock) = NetIn(rows, S)
    BY NetInType DEF Plus, NoStock
  <2> QED
    BY <2>2, <2>3, <2>4
<1>3. \A b : m \in RowsOf(b) <=> b = m.sid
  BY DEF RowsOf, IsAdjustmentMove
<1>4. \A b, product, loc :
         m \in RowsAt(b, product, loc) <=> b = m.sid /\ product = m.product /\ loc = m.loc
  BY DEF RowsAt, IsAdjustmentMove
<1> QED
  BY <1>1, <1>2, <1>3, <1>4

\* Other adjustments do not notice it.
LEMMA OthersFollow ==
    ASSUME NEW rows \in Seq(Rows), NEW m, IsAdjustmentMove(m), NEW b, b # m.sid
    PROVE  /\ \A record : Follows(rows, b, record) => Follows(rows \o << m >>, b, record)
           /\ Untouched(rows, b) => Untouched(rows \o << m >>, b)
<1>1. NetIn(rows \o << m >>, RowsOf(b)) = NetIn(rows, RowsOf(b))
  BY MoveAdds
<1>2. \A product, loc :
         NetIn(rows \o << m >>, RowsAt(b, product, loc)) = NetIn(rows, RowsAt(b, product, loc))
  BY MoveAdds
<1> QED
  BY <1>1, <1>2 DEF Follows, Untouched

\* An adjustment that has posted nothing follows its record once the movement
\* for that record is posted.
LEMMA FreshFollows ==
    ASSUME NEW rows \in Seq(Rows), NEW record \in Records, ~record.is_deleted,
           NEW m, IsAdjustmentMove(m), WellFormed(m), m.qty = SignedQty(record),
           m.product = record.product, m.loc = record.location, Untouched(rows, m.sid)
    PROVE  Follows(rows \o << m >>, m.sid, record)
<1>1. Plus(NoStock, Amount(m)) = Amount(m)
  BY DEF Plus, NoStock, Amount, IsAdjustmentMove, Rows
<1>2. NetIn(rows \o << m >>, RowsOf(m.sid)) = Amount(m)
  BY <1>1, MoveAdds DEF Untouched
<1>3. \A product \in Products, loc \in Locations :
         NetIn(rows \o << m >>, RowsAt(m.sid, product, loc)) =
            IF product = m.product /\ loc = m.loc THEN Amount(m) ELSE NoStock
  BY <1>1, MoveAdds DEF Untouched
<1>4. SameDirection(Amount(m)) /\ Amount(m).qty = SignedQty(record)
  BY DEF SameDirection, WellFormed, Amount
<1> QED
  BY <1>2, <1>3, <1>4 DEF Follows

\* Reversing what an adjustment has posted, at the place of its record, leaves
\* nothing of it, neither units nor value.
LEMMA ReversalClears ==
    ASSUME NEW rows \in Seq(Rows), NEW a, NEW record \in Records, ~record.is_deleted,
           Follows(rows, a, record), NEW m, IsAdjustmentMove(m), m.sid = a,
           m.product = record.product, m.loc = record.location,
           m.qty = -NetIn(rows, RowsOf(a)).qty,
           m.aed = (IF NetIn(rows, RowsOf(a)).qty > 0 THEN -1 ELSE 1)
                      * Magnitude(NetIn(rows, RowsOf(a)).aed)
    PROVE  Untouched(rows \o << m >>, a)
<1> DEFINE net == NetIn(rows, RowsOf(a))
<1>1. net \in [qty: Int, aed: Int]
  BY NetInType
<1>2. net.qty # 0 /\ SameDirection(net)
  <2>1. record.quantity \in Nat \ {0}
    BY QuantitiesAssumption DEF Records
  <2> QED
    BY <2>1 DEF Follows, SignedQty
<1>3. Plus(net, Amount(m)) = NoStock
  <2>1. m.qty = -net.qty
    OBVIOUS
  <2>2. m.aed = (IF net.qty > 0 THEN -1 ELSE 1) * Magnitude(net.aed)
    OBVIOUS
  <2> HIDE DEF net
  <2>3. m.aed = -net.aed
    BY <1>1, <1>2, <2>2 DEF SameDirection, Magnitude
  <2> QED
    BY <1>1, <2>1, <2>3 DEF Plus, Amount, NoStock
<1>4. NetIn(rows \o << m >>, RowsOf(a)) = NoStock
  BY <1>3, MoveAdds
<1>5. \A product \in Products, loc \in Locations :
         NetIn(rows, RowsAt(a, product, loc)) =
            IF product = m.product /\ loc = m.loc THEN net ELSE NoStock
  BY DEF Follows
<1> HIDE DEF net
<1>6. \A product \in Products, loc \in Locations :
         NetIn(rows \o << m >>, RowsAt(a, product, loc)) = NoStock
  BY <1>3, <1>5, MoveAdds
<1> QED
  BY <1>4, <1>6 DEF Untouched

-----------------------------------------------------------------------------
(* The steps *)

\* The movement that carries out an adjustment, once posting accepted it.
LEMMA FreshMove ==
    ASSUME NEW a \in Nat, NEW terms \in Terms,
           AdjustmentMove(a, terms) \in Rows, WellFormed(AdjustmentMove(a, terms))
    PROVE  /\ IsAdjustmentMove(AdjustmentMove(a, terms))
           /\ AdjustmentMove(a, terms).sid = a
           /\ AdjustmentMove(a, terms).qty = SignedQty(Record(terms))
           /\ AdjustmentMove(a, terms).product = Record(terms).product
           /\ AdjustmentMove(a, terms).loc = Record(terms).location
           /\ Record(terms) \in Records /\ ~Record(terms).is_deleted
<1>1. Record(terms) \in Records /\ ~Record(terms).is_deleted
  BY DEF Terms, Record, Records
<1> QED
  BY <1>1 DEF IsAdjustmentMove, AdjustmentMove, StockMove, SignedQty, Record

\* The reversal of a live adjustment is one movement, which clears it.
LEMMA ReverseFacts ==
    ASSUME Inv, NEW a \in DOMAIN adjustments, ~adjustments[a].is_deleted
    PROVE  \E m : /\ ReverseNet(a, adjustments[a]) = << m >>
                  /\ m.sid = a
                  /\ m \in Rows => /\ IsAdjustmentMove(m)
                                   /\ Untouched(ledger \o << m >>, a)
<1> DEFINE record == adjustments[a]
           net    == NetIn(ledger, RowsOf(a))
           m      == StockMove("STOCK_ADJUSTMENT", a, 0, record.product, record.location,
                               "PHYSICAL", -net.qty,
                               (IF net.qty > 0 THEN -1 ELSE 1) * Magnitude(net.aed))
<1>1. ledger \in Seq(Rows) /\ record \in Records /\ Follows(ledger, a, record)
  BY DEF Inv, Sound, Book
<1>2. NetPosted(a) = net
  BY <1>1, SumsOfSets
<1>3. net \in [qty: Int, aed: Int]
  BY <1>1, NetInType
<1>4. net.qty # 0
  <2>1. record.quantity \in Nat \ {0}
    BY <1>1, QuantitiesAssumption DEF Records
  <2>2. net.qty = SignedQty(record)
    BY <1>1 DEF Follows
  <2> HIDE DEF net, record
  <2> QED
    BY <2>1, <2>2 DEF SignedQty
<1>5. ReverseNet(a, record) = << m >>
  BY <1>2, <1>4 DEF ReverseNet
<1>6. /\ m.stype = "STOCK_ADJUSTMENT" /\ m.bucket = "PHYSICAL" /\ m.sid = a
      /\ m.product = record.product /\ m.loc = record.location
      /\ m.qty = -net.qty
      /\ m.aed = (IF net.qty > 0 THEN -1 ELSE 1) * Magnitude(net.aed)
  BY DEF StockMove
<1> HIDE DEF m
<1>7. ASSUME m \in Rows
      PROVE  IsAdjustmentMove(m) /\ Untouched(ledger \o << m >>, a)
  <2>1. IsAdjustmentMove(m)
    BY <1>6, <1>7 DEF IsAdjustmentMove
  <2> QED
    BY <1>1, <1>6, <2>1, ReversalClears
<1> QED
  BY <1>5, <1>6, <1>7

\* A new adjustment follows its record.
LEMMA CreateStep ==
    ASSUME Inv, NEW terms \in Terms, NEW confirm, CreateAdjustment(terms, confirm)
    PROVE  Inv'
<1> DEFINE a == Len(adjustments) + 1
           m == AdjustmentMove(a, terms)
<1>1. ledger \in Seq(Rows) /\ adjustments \in Seq(Records)
  BY DEF Inv, Sound, Book
<1>2. a \in Nat /\ a \notin DOMAIN adjustments
  BY <1>1
<1>3. Post(<< m >>, confirm) /\ adjustments' = Append(adjustments, Record(terms))
  BY DEF CreateAdjustment
<1> HIDE DEF m
<1>4. Sound(Book)' /\ << m >> \in Seq(Rows) /\ ledger' = ledger \o << m >>
  BY <1>3, PostSound, PostFacts DEF Inv
<1>5. m \in Rows /\ WellFormed(m)
  <2>1. ValidMovements(<< m >>)
    BY <1>3 DEF Post, CanPost
  <2>2. 1 \in DOMAIN << m >> /\ << m >>[1] = m
    OBVIOUS
  <2> QED
    BY <2>1, <2>2 DEF ValidMovements
<1>6. /\ IsAdjustmentMove(m) /\ m.sid = a /\ m.qty = SignedQty(Record(terms))
      /\ m.product = Record(terms).product /\ m.loc = Record(terms).location
      /\ Record(terms) \in Records /\ ~Record(terms).is_deleted
  BY <1>2, <1>5, FreshMove DEF m
<1>7. /\ adjustments' \in Seq(Records)
      /\ DOMAIN adjustments' = (DOMAIN adjustments) \union {a}
      /\ adjustments'[a] = Record(terms)
      /\ \A b \in DOMAIN adjustments : adjustments'[b] = adjustments[b]
  BY <1>1, <1>3, <1>6
<1> HIDE DEF a
<1>8. Follows(ledger', a, adjustments'[a])
  <2>1. Untouched(ledger, a)
    BY <1>2 DEF Inv
  <2> QED
    BY <1>1, <1>4, <1>5, <1>6, <1>7, <2>1, FreshFollows
<1>9. ASSUME NEW b \in DOMAIN adjustments PROVE Follows(ledger', b, adjustments'[b])
  <2>1. b # a /\ Follows(ledger, b, adjustments[b])
    BY <1>2 DEF Inv
  <2> QED
    BY <1>1, <1>4, <1>6, <1>7, <2>1, OthersFollow
<1>10. ASSUME NEW b \in Nat \ DOMAIN adjustments' PROVE Untouched(ledger', b)
  <2>1. b # a /\ Untouched(ledger, b)
    BY <1>7 DEF Inv
  <2> QED
    BY <1>1, <1>4, <1>6, <2>1, OthersFollow
<1> QED
  BY <1>4, <1>7, <1>8, <1>9, <1>10 DEF Inv

\* A deleted adjustment holds nothing.
LEMMA DeleteStep ==
    ASSUME Inv, NEW a \in DOMAIN adjustments, NEW confirm, SoftDeleteAdjustment(a, confirm)
    PROVE  Inv'
<1>1. ledger \in Seq(Rows) /\ adjustments \in Seq(Records) /\ ~adjustments[a].is_deleted
  BY DEF Inv, Sound, Book, SoftDeleteAdjustment
<1>2. PICK m : /\ ReverseNet(a, adjustments[a]) = << m >>
               /\ m.sid = a
               /\ m \in Rows => IsAdjustmentMove(m) /\ Untouched(ledger \o << m >>, a)
  BY <1>1, ReverseFacts
<1>3. Post(<< m >>, confirm)
  BY <1>2 DEF SoftDeleteAdjustment
<1>4. Sound(Book)' /\ << m >> \in Seq(Rows) /\ ledger' = ledger \o << m >>
  BY <1>3, PostSound, PostFacts DEF Inv
<1>5. IsAdjustmentMove(m) /\ Untouched(ledger', a)
  <2>1. m \in Rows
    BY <1>4
  <2> QED
    BY <1>2, <1>4, <2>1
<1>6. /\ adjustments' \in Seq(Records)
      /\ DOMAIN adjustments' = DOMAIN adjustments
      /\ adjustments'[a].is_deleted
      /\ \A b \in DOMAIN adjustments : b # a => adjustments'[b] = adjustments[b]
  <2> DEFINE gone == [adjustments[a] EXCEPT !.is_deleted = TRUE]
  <2>0. adjustments[a] \in Records
    BY <1>1
  <2>1. gone \in Records /\ gone.is_deleted
    <3> DEFINE old == adjustments[a]
    <3> HIDE DEF old
    <3>1. old \in Records => [old EXCEPT !.is_deleted = TRUE] \in Records
      BY DEF Records
    <3>2. old \in Records => [old EXCEPT !.is_deleted = TRUE].is_deleted
      BY DEF Records
    <3> QED
      BY <2>0, <3>1, <3>2 DEF old
  <2>2. adjustments' = [adjustments EXCEPT ![a] = gone]
    BY DEF SoftDeleteAdjustment
  <2> HIDE DEF gone
  <2> QED
    BY <1>1, <2>1, <2>2
<1>7. Follows(ledger', a, adjustments'[a])
  BY <1>5, <1>6 DEF Follows, Untouched
<1>8. ASSUME NEW b \in DOMAIN adjustments, b # a PROVE Follows(ledger', b, adjustments'[b])
  <2>1. Follows(ledger, b, adjustments[b])
    BY DEF Inv
  <2> QED
    BY <1>1, <1>2, <1>4, <1>5, <1>6, <1>8, <2>1, OthersFollow
<1>9. ASSUME NEW b \in Nat \ DOMAIN adjustments' PROVE Untouched(ledger', b)
  <2>1. b # a /\ Untouched(ledger, b)
    BY <1>6 DEF Inv
  <2> QED
    BY <1>1, <1>2, <1>4, <1>5, <2>1, OthersFollow
<1> QED
  BY <1>4, <1>6, <1>7, <1>8, <1>9 DEF Inv

\* An edit that matters to stock reverses the old state and posts the new one.
LEMMA RepostStep ==
    ASSUME Inv, NEW a \in DOMAIN adjustments, NEW terms \in Terms, NEW confirm,
           ~adjustments[a].is_deleted,
           Post(Append(ReverseNet(a, adjustments[a]), AdjustmentMove(a, terms)), confirm),
           adjustments' = [adjustments EXCEPT ![a] = Record(terms)]
    PROVE  Inv'
<1> DEFINE n == AdjustmentMove(a, terms)
<1>1. ledger \in Seq(Rows) /\ adjustments \in Seq(Records) /\ a \in Nat
  BY DEF Inv, Sound, Book
<1>2. PICK m : /\ ReverseNet(a, adjustments[a]) = << m >>
               /\ m.sid = a
               /\ m \in Rows => IsAdjustmentMove(m) /\ Untouched(ledger \o << m >>, a)
  BY ReverseFacts
<1>3. Post(<< m, n >>, confirm)
  <2>1. Append(<< m >>, n) = << m, n >>
    BY AppendSecond
  <2> QED
    BY <1>2, <2>1
<1> HIDE DEF n
<1>4. Sound(Book)' /\ << m, n >> \in Seq(Rows) /\ ledger' = ledger \o << m, n >>
  BY <1>3, PostSound, PostFacts DEF Inv
<1>5. m \in Rows /\ n \in Rows /\ WellFormed(n)
  <2>1. ValidMovements(<< m, n >>)
    BY <1>3 DEF Post, CanPost
  <2>2. 1 \in DOMAIN << m, n >> /\ 2 \in DOMAIN << m, n >>
        /\ << m, n >>[1] = m /\ << m, n >>[2] = n
    OBVIOUS
  <2> QED
    BY <2>1, <2>2 DEF ValidMovements
<1> DEFINE between == ledger \o << m >>
<1>6. between \in Seq(Rows) /\ ledger' = between \o << n >>
  BY <1>1, <1>4, <1>5
<1>7. IsAdjustmentMove(m) /\ Untouched(between, a)
  BY <1>2, <1>5
<1>8. /\ IsAdjustmentMove(n) /\ n.sid = a /\ n.qty = SignedQty(Record(terms))
      /\ n.product = Record(terms).product /\ n.loc = Record(terms).location
      /\ Record(terms) \in Records /\ ~Record(terms).is_deleted
  BY <1>1, <1>5, FreshMove DEF n
<1>9. /\ adjustments' \in Seq(Records)
      /\ DOMAIN adjustments' = DOMAIN adjustments
      /\ adjustments'[a] = Record(terms)
      /\ \A b \in DOMAIN adjustments : b # a => adjustments'[b] = adjustments[b]
  BY <1>1, <1>8
<1>10. ASSUME NEW b, b # a
       PROVE  /\ \A record : Follows(ledger, b, record) => Follows(ledger', b, record)
              /\ Untouched(ledger, b) => Untouched(ledger', b)
  <2>1. /\ \A record : Follows(ledger, b, record) => Follows(between, b, record)
        /\ Untouched(ledger, b) => Untouched(between, b)
    BY <1>1, <1>2, <1>7, <1>10, OthersFollow
  <2> HIDE DEF between
  <2>2. /\ \A record : Follows(between, b, record) => Follows(between \o << n >>, b, record)
        /\ Untouched(between, b) => Untouched(between \o << n >>, b)
    BY <1>6, <1>8, <1>10, OthersFollow
  <2> QED
    BY <1>6, <2>1, <2>2
<1> HIDE DEF between
<1>11. Follows(ledger', a, adjustments'[a])
  BY <1>5, <1>6, <1>7, <1>8, <1>9, FreshFollows
<1>12. \A b \in DOMAIN adjustments : b # a => Follows(ledger', b, adjustments'[b])
  BY <1>9, <1>10 DEF Inv
<1>13. \A b \in Nat \ DOMAIN adjustments' : Untouched(ledger', b)
  BY <1>9, <1>10 DEF Inv
<1> QED
  BY <1>4, <1>9, <1>11, <1>12, <1>13 DEF Inv

\* An edit.
LEMMA UpdateStep ==
    ASSUME Inv, NEW a \in DOMAIN adjustments, NEW terms \in Terms, NEW confirm,
           UpdateAdjustment(a, terms, confirm)
    PROVE  Inv'
<1>1. ~adjustments[a].is_deleted /\ adjustments' = [adjustments EXCEPT ![a] = Record(terms)]
  BY DEF UpdateAdjustment
<1>2. CASE Record(terms) = adjustments[a]
  <2>1. ledger' = ledger /\ balance' = balance
    BY <1>2 DEF UpdateAdjustment, Install, Book
  <2>2. adjustments' = adjustments
    BY <1>1, <1>2 DEF Inv
  <2> QED
    BY <2>1, <2>2 DEF Inv, Sound, Book, Follows, Untouched
<1>3. CASE Record(terms) # adjustments[a]
  <2>1. Post(Append(ReverseNet(a, adjustments[a]), AdjustmentMove(a, terms)), confirm)
    BY <1>3 DEF UpdateAdjustment, ReversalPlace
  <2> QED
    BY <1>1, <2>1, RepostStep
<1> QED
  BY <1>2, <1>3

-----------------------------------------------------------------------------
(* The other apps *)

\* The other apps post whatever they like, but never in the name of an adjustment.
OthersPost ==
    \E moves \in Seq(Rows), confirm \in BOOLEAN :
        /\ \A i \in DOMAIN moves : moves[i].stype # "STOCK_ADJUSTMENT"
        /\ Post(moves, confirm)
        /\ UNCHANGED adjustments

\* Adjustments among other apps.
OpenSpec == Init /\ [][Next \/ OthersPost]_vars

\* What the others post makes no difference to any adjustment.
LEMMA OthersStep ==
    ASSUME Inv, OthersPost
    PROVE  Inv'
<1>1. PICK moves \in Seq(Rows), confirm \in BOOLEAN :
         /\ \A i \in DOMAIN moves : moves[i].stype # "STOCK_ADJUSTMENT"
         /\ Post(moves, confirm)
         /\ UNCHANGED adjustments
  BY DEF OthersPost
<1>2. Sound(Book)' /\ ledger' = ledger \o moves /\ ledger \in Seq(Rows)
  BY <1>1, PostSound, PostFacts DEF Inv, Sound, Book
<1>3. ASSUME NEW S, \A row \in S : row.stype = "STOCK_ADJUSTMENT"
      PROVE  NetIn(ledger', S) = NetIn(ledger, S)
  <2>1. \A i \in 1..Len(moves) : moves[i] \notin S
    BY <1>1, <1>3
  <2>2. NetIn(moves, S) = NoStock
    BY <2>1, NetInNone
  <2>3. NetIn(ledger', S) = Plus(NetIn(ledger, S), NetIn(moves, S))
    BY <1>2, NetInConcat
  <2> QED
    BY <1>2, <2>2, <2>3, NetInType DEF Plus, NoStock
<1>4. \A b : NetIn(ledger', RowsOf(b)) = NetIn(ledger, RowsOf(b))
  <2>1. \A b : \A row \in RowsOf(b) : row.stype = "STOCK_ADJUSTMENT"
    BY DEF RowsOf
  <2> QED
    BY <1>3, <2>1
<1>5. \A b, product, loc :
         NetIn(ledger', RowsAt(b, product, loc)) = NetIn(ledger, RowsAt(b, product, loc))
  <2>1. \A b, product, loc : \A row \in RowsAt(b, product, loc) : row.stype = "STOCK_ADJUSTMENT"
    BY DEF RowsAt
  <2> QED
    BY <1>3, <2>1
<1>6. adjustments' = adjustments
  BY <1>1
<1> QED
  BY <1>2, <1>4, <1>5, <1>6 DEF Inv, Follows, Untouched

-----------------------------------------------------------------------------
(* Exact pools *)

\* How many rows an adjustment has.
RowCount(a) == Len(SourceRows(ledger, "STOCK_ADJUSTMENT", a))

\* Every adjustment has a row, and stocks are exact while none has a second one.
EntryInv ==
    /\ \A a \in DOMAIN adjustments : RowCount(a) >= 1
    /\ (\A a \in DOMAIN adjustments : RowCount(a) = 1) => PoolsExact

\* The other apps, as long as what they post leaves exact stocks exact.
OthersKeep == OthersPost /\ (PoolsExact => PoolsExact')

\* Rows only become more, and a movement of an adjustment is one more of its own.
LEMMA RowsGrow ==
    ASSUME Inv, NEW moves \in Seq(Rows), ledger' = ledger \o moves
    PROVE  /\ \A a : RowCount(a) \in Nat /\ RowCount(a)' \in Nat /\ RowCount(a)' >= RowCount(a)
           /\ \A i \in 1..Len(moves) :
                 IsAdjustmentMove(moves[i]) => RowCount(moves[i].sid)' > RowCount(moves[i].sid)
<1>1. ledger \in Seq(Rows)
  BY DEF Inv, Sound, Book
<1>2. ASSUME NEW a
      PROVE  /\ RowCount(a) \in Nat /\ RowCount(a)' \in Nat /\ RowCount(a)' >= RowCount(a)
             /\ (\E i \in 1..Len(moves) :
                    moves[i].stype = "STOCK_ADJUSTMENT" /\ moves[i].sid = a)
                   => RowCount(a)' > RowCount(a)
  BY <1>1, SourceRowsGrow DEF RowCount
<1> QED
  BY <1>2 DEF IsAdjustmentMove

\* An entry leaves exact stocks exact: an increase brings value, a decrease takes
\* its share.
LEMMA EntryExact ==
    ASSUME Inv, PoolsExact, NEW a, NEW terms \in Terms,
           Post(<< AdjustmentMove(a, terms) >>, FALSE)
    PROVE  PoolsExact'
<1> DEFINE m == AdjustmentMove(a, terms)
<1>1. << m >> \in Seq(Rows) /\ m \in Rows /\ WellFormed(m)
  <2>1. ValidMovements(<< m >>)
    BY DEF Post, CanPost
  <2>2. 1 \in DOMAIN << m >> /\ << m >>[1] = m
    OBVIOUS
  <2> QED
    BY <2>1, <2>2 DEF ValidMovements
<1>2. \A k \in Keys : balance[k] \in Amounts
  <2>1. ledger \in Seq(Rows) /\ \A k \in Keys : balance[k] = Rollup(ledger, k)
    BY DEF Inv, Sound, Book
  <2> QED
    BY <2>1, RollupType DEF Amounts
<1>3. PICK none \in Seq(Rows) : none = << >>
  <2>1. << >> \in Seq(Rows)
    OBVIOUS
  <2> QED
    BY <2>1
<1>4. StaysExact(none)
  BY <1>2, <1>3, NothingAfter DEF StaysExact, PoolsExact
<1>5. PICK q \in Nat \ {0} : q = terms.quantity
  BY QuantitiesAssumption DEF Terms
<1>6. /\ m.bucket = "PHYSICAL" /\ KeyOf(m) = <<terms.product, terms.location, "PHYSICAL">>
      /\ m.qty = (IF terms.adjustment_type = "INCREASE" THEN 1 ELSE -1) * q
      /\ m.aed = (IF terms.adjustment_type = "INCREASE" THEN 1 ELSE -1)
                    * AdjustedValue(terms, PoolOf(terms))
  BY <1>5 DEF AdjustmentMove, StockMove, KeyOf
<1> HIDE DEF m
<1>7. ASSUME terms.adjustment_type = "INCREASE" PROVE StaysExact(none \o << m >>)
  <2>1. m.qty > 0
    BY <1>5, <1>6, <1>7
  <2>2. m.aed >= 0
    BY <1>1, <2>1 DEF WellFormed
  <2> QED
    BY <1>1, <1>2, <1>4, <2>1, <2>2, PutBackExact
<1>8. ASSUME terms.adjustment_type = "DECREASE" PROVE StaysExact(none \o << m >>)
  <2>1. KeyOf(m) \in Keys
    BY <1>6 DEF Terms, Keys, Buckets
  <2>2. PICK pool \in Amounts : pool = PoolOf(terms) /\ pool = BalanceAfter(none, KeyOf(m))
    BY <1>2, <1>3, <1>6, <2>1, NothingAfter DEF PoolOf
  <2>3. PICK share \in Nat : share = CarryingShare(q, pool)
    BY CarryingShareWithin
  <2>4. AdjustedValue(terms, pool) = share
    BY <1>5, <1>8, <2>3 DEF AdjustedValue, CarryingShare
  <2>5. m.qty = -q /\ m.aed = -share
    <3>1. m.qty = (-1) * q /\ m.aed = (-1) * share
      BY <1>6, <1>8, <2>2, <2>4
    <3> QED
      BY <3>1
  <2>6. m.aed = -CarryingShare(q, BalanceAfter(none, KeyOf(m)))
    BY <2>2, <2>3, <2>5
  <2> QED
    BY <1>1, <1>2, <1>4, <1>6, <2>5, <2>6, TakeOutExact
<1>9. StaysExact(none \o << m >>)
  BY <1>7, <1>8 DEF Terms, AdjustmentTypes
<1>10. none \o << m >> = << m >>
  BY <1>1, <1>3
<1> QED
  BY <1>1, <1>9, <1>10, PostExact DEF m

\* A second event of an adjustment gives it a second row.
LEMMA SecondEvent ==
    ASSUME Inv, EntryInv, NEW a \in DOMAIN adjustments,
           DOMAIN adjustments' = DOMAIN adjustments,
           NEW moves \in Seq(Rows), ledger' = ledger \o moves,
           1 \in DOMAIN moves, IsAdjustmentMove(moves[1]), moves[1].sid = a
    PROVE  EntryInv'
<1>1. \A b : RowCount(b) \in Nat /\ RowCount(b)' \in Nat /\ RowCount(b)' >= RowCount(b)
  BY RowsGrow
<1>2. RowCount(a)' > RowCount(a)
  <2>1. 1 \in 1..Len(moves)
    OBVIOUS
  <2> QED
    BY <2>1, RowsGrow
<1>3. \A b \in DOMAIN adjustments : RowCount(b) >= 1
  BY DEF EntryInv
<1>4. \A b \in DOMAIN adjustments : RowCount(b)' >= 1
  BY <1>1, <1>3
<1>5. RowCount(a)' # 1
  BY <1>1, <1>2, <1>3
<1> QED
  BY <1>4, <1>5 DEF EntryInv

\* A first event leaves exact stocks exact.
LEMMA CreateEntry ==
    ASSUME Inv, EntryInv, NEW terms \in Terms, CreateAdjustment(terms, FALSE)
    PROVE  EntryInv'
<1>1. adjustments \in Seq(Records)
  BY DEF Inv
<1>2. PICK a \in Nat : a = Len(adjustments) + 1
  BY <1>1
<1>3. Post(<< AdjustmentMove(a, terms) >>, FALSE)
  BY <1>2 DEF CreateAdjustment
<1>4. DOMAIN adjustments' = DOMAIN adjustments \union {a}
  <2>1. adjustments' = Append(adjustments, Record(terms))
    BY DEF CreateAdjustment
  <2> QED
    BY <1>1, <1>2, <2>1
<1>5. PoolsExact => PoolsExact'
  BY <1>3, EntryExact
<1>6. PICK m : m = AdjustmentMove(a, terms)
  OBVIOUS
<1>7. << m >> \in Seq(Rows) /\ ledger' = ledger \o << m >>
  BY <1>3, <1>6, PostFacts DEF Inv
<1>8. IsAdjustmentMove(m) /\ m.sid = a
  <2>1. m.stype = "STOCK_ADJUSTMENT" /\ m.bucket = "PHYSICAL" /\ m.sid = a
    BY <1>6 DEF AdjustmentMove, StockMove
  <2>2. m \in Rows
    BY <1>7
  <2> QED
    BY <2>1, <2>2 DEF IsAdjustmentMove
<1>9. PICK moves \in Seq(Rows) : moves = << m >>
  BY <1>7
<1>10. 1 \in 1..Len(moves) /\ moves[1] = m
  BY <1>9
<1>11. \A b : RowCount(b) \in Nat /\ RowCount(b)' \in Nat /\ RowCount(b)' >= RowCount(b)
  BY <1>7, <1>9, RowsGrow
<1>12. RowCount(a)' > RowCount(a)
  BY <1>7, <1>8, <1>9, <1>10, RowsGrow
<1>13. \A b \in DOMAIN adjustments : RowCount(b) >= 1
  BY DEF EntryInv
<1>14. \A b \in DOMAIN adjustments' : RowCount(b)' >= 1
  BY <1>4, <1>11, <1>12, <1>13
<1>15. ASSUME \A b \in DOMAIN adjustments' : RowCount(b)' = 1
       PROVE  PoolsExact'
  <2>1. \A b \in DOMAIN adjustments : RowCount(b) = 1
    BY <1>4, <1>11, <1>13, <1>15
  <2> QED
    BY <1>5, <2>1 DEF EntryInv
<1> QED
  BY <1>14, <1>15 DEF EntryInv

\* An edit, too, is either a second event or no event.
LEMMA UpdateEntry ==
    ASSUME Inv, EntryInv, NEW a \in DOMAIN adjustments, NEW terms \in Terms, NEW confirm,
           UpdateAdjustment(a, terms, confirm)
    PROVE  EntryInv'
<1>1. /\ ~adjustments[a].is_deleted
      /\ adjustments' = [adjustments EXCEPT ![a] = Record(terms)]
  BY DEF UpdateAdjustment
<1>2. DOMAIN adjustments' = DOMAIN adjustments
  BY <1>1
<1>3. CASE Record(terms) = adjustments[a]
  <2>1. ledger' = ledger /\ balance' = balance
    BY <1>3 DEF UpdateAdjustment, Install, Book
  <2> QED
    BY <1>2, <2>1 DEF EntryInv, RowCount, PoolsExact
<1>4. CASE Record(terms) # adjustments[a]
  <2> DEFINE n == AdjustmentMove(a, terms)
  <2>1. Post(Append(ReverseNet(a, adjustments[a]), n), confirm)
    BY <1>4 DEF UpdateAdjustment, ReversalPlace
  <2>2. PICK m : /\ ReverseNet(a, adjustments[a]) = << m >>
                 /\ m.sid = a
                 /\ m \in Rows => IsAdjustmentMove(m) /\ Untouched(ledger \o << m >>, a)
    BY <1>1, ReverseFacts
  <2> HIDE DEF n
  <2>3. Post(<< m, n >>, confirm)
    <3>1. Append(<< m >>, n) = << m, n >>
      BY AppendSecond
    <3> QED
      BY <2>1, <2>2, <3>1
  <2>4. << m, n >> \in Seq(Rows) /\ ledger' = ledger \o << m, n >>
    BY <2>3, PostFacts DEF Inv
  <2>5. PICK moves \in Seq(Rows) : moves = << m, n >>
    BY <2>4
  <2>6. 1 \in DOMAIN moves /\ moves[1] = m /\ m \in Rows
    BY <2>5
  <2> QED
    BY <1>2, <2>2, <2>4, <2>5, <2>6, SecondEvent
<1> QED
  BY <1>3, <1>4

\* So is a deletion.
LEMMA DeleteEntry ==
    ASSUME Inv, EntryInv, NEW a \in DOMAIN adjustments, NEW confirm,
           SoftDeleteAdjustment(a, confirm)
    PROVE  EntryInv'
<1>1. ~adjustments[a].is_deleted /\ DOMAIN adjustments' = DOMAIN adjustments
  BY DEF SoftDeleteAdjustment
<1>2. PICK m : /\ ReverseNet(a, adjustments[a]) = << m >>
               /\ m.sid = a
               /\ m \in Rows => IsAdjustmentMove(m) /\ Untouched(ledger \o << m >>, a)
  BY <1>1, ReverseFacts
<1>3. Post(<< m >>, confirm)
  BY <1>2 DEF SoftDeleteAdjustment
<1>4. << m >> \in Seq(Rows) /\ ledger' = ledger \o << m >>
  BY <1>3, PostFacts DEF Inv
<1>5. PICK moves \in Seq(Rows) : moves = << m >>
  BY <1>4
<1>6. 1 \in DOMAIN moves /\ moves[1] = m /\ m \in Rows
  BY <1>5
<1> QED
  BY <1>1, <1>2, <1>4, <1>5, <1>6, SecondEvent

\* The other apps add no row to an adjustment, and keep exact stocks exact.
LEMMA OthersEntry ==
    ASSUME Inv, EntryInv, OthersKeep
    PROVE  EntryInv'
<1>1. PICK moves \in Seq(Rows), confirm \in BOOLEAN :
         Post(moves, confirm) /\ UNCHANGED adjustments
  BY DEF OthersKeep, OthersPost
<1>2. ledger' = ledger \o moves
  BY <1>1, PostFacts DEF Inv
<1>3. \A b : RowCount(b) \in Nat /\ RowCount(b)' \in Nat /\ RowCount(b)' >= RowCount(b)
  BY <1>2, RowsGrow
<1>4. \A b \in DOMAIN adjustments : RowCount(b) >= 1
  BY DEF EntryInv
<1>5. \A b \in DOMAIN adjustments : RowCount(b)' >= 1
  BY <1>3, <1>4
<1>6. ASSUME \A b \in DOMAIN adjustments : RowCount(b)' = 1
      PROVE  PoolsExact'
  <2>1. \A b \in DOMAIN adjustments : RowCount(b) = 1
    BY <1>3, <1>4, <1>6
  <2> QED
    BY <2>1 DEF EntryInv, OthersKeep
<1>7. adjustments' = adjustments
  BY <1>1
<1> QED
  BY <1>5, <1>6, <1>7 DEF EntryInv

\* Every step of theirs keeps it, if nobody confirms a shortage.
LEMMA StepEntry ==
    Confirms \subseteq {FALSE}
        => (Inv /\ EntryInv /\ [Next \/ OthersKeep]_vars => EntryInv')
<1>1. SUFFICES ASSUME Confirms \subseteq {FALSE},
                      Inv, EntryInv, [Next \/ OthersKeep]_vars
               PROVE  EntryInv'
  OBVIOUS
<1>2. CASE Create
  <2>1. PICK terms \in Terms, confirm \in Confirms : CreateAdjustment(terms, confirm)
    BY <1>2 DEF Create
  <2>2. CreateAdjustment(terms, FALSE)
    BY <1>1, <2>1
  <2> QED
    BY <1>1, <2>2, CreateEntry
<1>3. CASE Update
  BY <1>1, <1>3, UpdateEntry DEF Update
<1>4. CASE Delete
  BY <1>1, <1>4, DeleteEntry DEF Delete
<1>5. CASE OthersKeep
  BY <1>1, <1>5, OthersEntry
<1>6. CASE UNCHANGED vars
  BY <1>1, <1>6 DEF vars, EntryInv, RowCount, PoolsExact
<1> QED
  BY <1>1, <1>2, <1>3, <1>4, <1>5, <1>6 DEF Next

-----------------------------------------------------------------------------
(* The theorems *)

\* No adjustment has been made and nothing posted.
LEMMA InitInv == Init => Inv
<1>1. SUFFICES ASSUME Init PROVE Inv
  OBVIOUS
<1>2. ledger = << >> /\ adjustments = << >>
  BY <1>1 DEF Init, LedgerInit
<1>3. Sound(Book)
  BY <1>1, EmptySound DEF Init, LedgerInit, Book
<1>4. \A a : Untouched(ledger, a)
  BY <1>2, NetInEmpty DEF Untouched
<1> QED
  BY <1>2, <1>3, <1>4 DEF Inv

\* Every step keeps the invariant.
LEMMA StepInv == Inv /\ [Next \/ OthersPost]_vars => Inv'
<1>1. SUFFICES ASSUME Inv, [Next \/ OthersPost]_vars PROVE Inv'
  OBVIOUS
<1>2. CASE Create
  BY <1>1, <1>2, CreateStep DEF Create
<1>3. CASE Update
  BY <1>1, <1>3, UpdateStep DEF Update
<1>4. CASE Delete
  BY <1>1, <1>4, DeleteStep DEF Delete
<1>5. CASE OthersPost
  BY <1>1, <1>5, OthersStep
<1>6. CASE UNCHANGED vars
  BY <1>1, <1>6 DEF vars, Inv, Sound, Book, Follows, Untouched
<1> QED
  BY <1>1, <1>2, <1>3, <1>4, <1>5, <1>6 DEF Next

\* The invariant says what the ledger holds for each adjustment.
LEMMA InvMeansFollows == Inv => AdjustmentFollowsRecord
<1>1. SUFFICES ASSUME Inv, NEW a \in DOMAIN adjustments,
                      NEW product \in Products, NEW loc \in Locations
               PROVE  LET record == adjustments[a]
                          stock  == Contribution(a, product, loc)
                      IN  IF record.is_deleted \/ product # record.product
                             \/ loc # record.location
                          THEN stock = [qty |-> 0, aed |-> 0]
                          ELSE stock.qty = (IF record.adjustment_type = "INCREASE"
                                            THEN 1 ELSE -1) * record.quantity
  BY DEF AdjustmentFollowsRecord
<1>2. Contribution(a, product, loc) = NetIn(ledger, RowsAt(a, product, loc))
  BY <1>1, SumsOfSets DEF Inv, Sound, Book
<1>3. Follows(ledger, a, adjustments[a])
  BY <1>1 DEF Inv
<1> QED
  BY <1>1, <1>2, <1>3 DEF Follows, NoStock, SignedQty

\* The invariant has the types.
LEMMA InvMeansTypeOK == Inv => TypeOK
<1>1. Inv => LedgerTypeOK
  BY RollupType DEF Inv, Sound, Book, LedgerTypeOK
<1>2. Inv => adjustments \in Seq(Records)
  BY DEF Inv
<1> QED
  BY <1>1, <1>2 DEF TypeOK, Records

\* Among whatever other apps post, the ledger holds of every adjustment exactly
\* what its record says, at its place and nowhere else, through every series of
\* edits of its size, direction, product and place (update_adjustment).
THEOREM FollowsAmongOthers == OpenSpec => []AdjustmentFollowsRecord
<1>1. OpenSpec => []Inv
  BY InitInv, StepInv, PTL DEF OpenSpec
<1> QED
  BY <1>1, InvMeansFollows, PTL

\* In particular when only adjustments are made (update_adjustment).
THEOREM LedgerFollowsRecords == Spec => []AdjustmentFollowsRecord
<1>1. [Next]_vars => [Next \/ OthersPost]_vars
  OBVIOUS
<1>2. Spec => []Inv
  BY <1>1, InitInv, StepInv, PTL DEF Spec
<1> QED
  BY <1>2, InvMeansFollows, PTL

\* However adjustments are entered among other apps that leave exact stocks exact,
\* no shortage confirmed and none of them edited yet, every stock is covered by
\* value and has none left once it is empty (_carrying_share).
THEOREM EntriesKeepPools ==
    Confirms \subseteq {FALSE}
        => (Init /\ [][Next \/ OthersKeep]_vars => []EntriesKeepPoolExact)
<1>1. SUFFICES ASSUME Confirms \subseteq {FALSE}
               PROVE  Init /\ [][Next \/ OthersKeep]_vars => []EntriesKeepPoolExact
  OBVIOUS
<1>2. Init => Inv /\ EntryInv
  BY InitInv DEF Init, LedgerInit, EntryInv, PoolsExact, Exact
<1>3. [Next \/ OthersKeep]_vars => [Next \/ OthersPost]_vars
  BY DEF OthersKeep
<1>4. (Inv /\ EntryInv) /\ [Next \/ OthersKeep]_vars => (Inv /\ EntryInv)'
  BY <1>1, <1>3, StepInv, StepEntry
<1>5. Inv /\ EntryInv => EntriesKeepPoolExact
  BY DEF EntryInv, RowCount, PoolsExact, Exact, EntriesKeepPoolExact, PoolValueCovered,
         EmptyPoolHoldsNoValue
<1> QED
  BY <1>2, <1>4, <1>5, PTL

\* Records, rows and balances keep their types.
THEOREM AdjustmentsTyped == Spec => []TypeOK
<1>1. [Next]_vars => [Next \/ OthersPost]_vars
  OBVIOUS
<1>2. Spec => []Inv
  BY <1>1, InitInv, StepInv, PTL DEF Spec
<1> QED
  BY <1>2, InvMeansTypeOK, PTL
=============================================================================
