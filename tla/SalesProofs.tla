---------------------------- MODULE SalesProofs ----------------------------
(***************************************************************************)
(* The ledger follows every sale line through every series of edits, for   *)
(* every set of products, locations and quantities, whatever other apps    *)
(* post in between.                                                        *)
(*                                                                         *)
(* An edit reverses what _line_net_posted finds of a line, under the       *)
(* product its record names, and posts everything only at its end.  That   *)
(* is right as long as no line is touched twice: then what the ledger      *)
(* holds of a line not touched so far is what the edit would find had it   *)
(* posted as it went, which is the invariant of the loop (EditInv).        *)
(***************************************************************************)
EXTENDS Sales, StockLedgerProofs

\* The rows of a line in PHYSICAL, and those of one product.
LineRows(l) == {row \in Rows : row.stype = "SALE" /\ row.line = l /\ row.bucket = "PHYSICAL"}

ProductRows(l, product) ==
    {row \in Rows : row.stype = "SALE" /\ row.line = l /\ row.product = product}

\* What the rows of line l look like when its record is `line`.
Follows(rows, l, line) ==
    /\ IF line.is_deleted
       THEN NetIn(rows, LineRows(l)) = NoStock
       ELSE /\ NetIn(rows, LineRows(l)).qty = -line.quantity
            /\ NetIn(rows, LineRows(l)).aed <= 0
    /\ \A product \in Products :
          NetIn(rows, ProductRows(l, product)) =
             IF product = line.product THEN NetIn(rows, LineRows(l)) ELSE NoStock

\* A line that does not exist yet has taken nothing, nor has one that put all back.
Untouched(rows, l) ==
    /\ NetIn(rows, LineRows(l)) = NoStock
    /\ \A product \in Products : NetIn(rows, ProductRows(l, product)) = NoStock

\* The rows follow all these lines, and there are none of any other line.
Agree(rows, lines) ==
    /\ \A l \in DOMAIN lines : Follows(rows, l, lines[l])
    /\ \A l \in Nat \ DOMAIN lines : Untouched(rows, l)

SaleRecords == [location: SalesLocations, is_deleted: BOOLEAN]

\* The lines of the first n sales.
Lines(n) == [sale: 1..n, product: Products, quantity: Quantities, is_deleted: BOOLEAN]

\* The inductive invariant.
Inv ==
    /\ Sound(Book)
    /\ sales \in Seq(SaleRecords)
    /\ saleLines \in Seq(Lines(Len(sales)))
    /\ Agree(ledger, saleLines)

-----------------------------------------------------------------------------
(* The edit in progress *)

Edits == [ok: BOOLEAN, lines: Seq(Lines(Len(sales))), moves: Seq(Rows),
          pools: [Products -> Amounts]]

\* Were the edit to post now, the ledger would follow its lines; the lines in
\* `open` have not been touched.
EditInv(edit, open) ==
    /\ edit \in Edits
    /\ DOMAIN saleLines \subseteq DOMAIN edit.lines
    /\ Agree(ledger \o edit.moves, edit.lines)
    /\ \A l \in open :
          /\ edit.lines[l] = saleLines[l]
          /\ NetIn(ledger \o edit.moves, LineRows(l)) = NetIn(ledger, LineRows(l))

\* The running pools of sale s are what its balances will be, and these stay exact.
PoolsFollow(edit, s) ==
    /\ edit.pools = PoolsAfter(edit.moves, sales[s].location)
    /\ StaysExact(edit.moves)

\* The lines the first n items of a request do not name.
OpenAfter(s, payload, n) == LinesOf(s) \ {payload[i].id : i \in 1..n}

\* The inductive invariant of the two loops of an edit, as a property of states.
LoopsInv ==
    \A s \in DOMAIN sales, payload \in Requests(EditItems) :
        DistinctIds(payload) =>
            LET edits  == EditsInTurn(s, StartEdit(s), payload)
                edited == edits[Len(payload)]
                gone   == LeftOut(s, payload)
                ends   == RemovalsInTurn(s, edited, gone)
            IN  /\ \A n \in 0..Len(payload) : EditInv(edits[n], OpenAfter(s, payload, n))
                /\ \A n \in 0..Len(saleLines) : EditInv(ends[n], gone \ 1..n)

-----------------------------------------------------------------------------
(* Sums over the ledger as the model writes them *)

\* The model's sums are sums over the sets of rows above.
LEMMA SumsOfSets ==
    ASSUME ledger \in Seq(Rows)
    PROVE  /\ \A l : NetPosted(l) = [qty |-> -NetIn(ledger, LineRows(l)).qty,
                                     aed |-> -NetIn(ledger, LineRows(l)).aed]
           /\ \A l, product : LineStock(l, product) = NetIn(ledger, ProductRows(l, product))
<1>1. \A i \in 1..Len(ledger) : ledger[i] \in Rows
  OBVIOUS
<1>2. ASSUME NEW l
      PROVE  NetPosted(l) = [qty |-> -NetIn(ledger, LineRows(l)).qty,
                             aed |-> -NetIn(ledger, LineRows(l)).aed]
  <2>1. [i \in 1..Len(ledger) |->
            IF /\ ledger[i].stype = "SALE" /\ ledger[i].line = l
               /\ ledger[i].bucket = "PHYSICAL" THEN ledger[i].qty ELSE 0] =
        [i \in 1..Len(ledger) |-> IF ledger[i] \in LineRows(l) THEN ledger[i].qty ELSE 0]
    BY <1>1 DEF LineRows
  <2>2. [i \in 1..Len(ledger) |->
            IF /\ ledger[i].stype = "SALE" /\ ledger[i].line = l
               /\ ledger[i].bucket = "PHYSICAL" THEN ledger[i].aed ELSE 0] =
        [i \in 1..Len(ledger) |-> IF ledger[i] \in LineRows(l) THEN ledger[i].aed ELSE 0]
    BY <1>1 DEF LineRows
  <2> QED
    BY <2>1, <2>2 DEF NetPosted, NetIn, Net, SumOf
<1>3. ASSUME NEW l, NEW product
      PROVE  LineStock(l, product) = NetIn(ledger, ProductRows(l, product))
  <2>1. [i \in 1..Len(ledger) |->
            IF ledger[i].stype = "SALE" /\ ledger[i].line = l /\ ledger[i].product = product
            THEN ledger[i].qty ELSE 0] =
        [i \in 1..Len(ledger) |->
            IF ledger[i] \in ProductRows(l, product) THEN ledger[i].qty ELSE 0]
    BY <1>1 DEF ProductRows
  <2>2. [i \in 1..Len(ledger) |->
            IF ledger[i].stype = "SALE" /\ ledger[i].line = l /\ ledger[i].product = product
            THEN ledger[i].aed ELSE 0] =
        [i \in 1..Len(ledger) |->
            IF ledger[i] \in ProductRows(l, product) THEN ledger[i].aed ELSE 0]
    BY <1>1 DEF ProductRows
  <2> QED
    BY <2>1, <2>2 DEF LineStock, NetIn, Net, SumOf
<1> QED
  BY <1>2, <1>3

-----------------------------------------------------------------------------
(* One movement of a line *)

\* m is a PHYSICAL movement of some line.
IsSaleMove(m) == m \in Rows /\ m.stype = "SALE" /\ m.bucket = "PHYSICAL"

Amount(m) == [qty |-> m.qty, aed |-> m.aed]

\* A movement adds its amount to its own line, under its own product.
LEMMA MoveAdds ==
    ASSUME NEW rows \in Seq(Rows), NEW m, IsSaleMove(m)
    PROVE  /\ rows \o << m >> \in Seq(Rows)
           /\ \A l : NetIn(rows \o << m >>, LineRows(l)) =
                        IF l = m.line THEN Plus(NetIn(rows, LineRows(l)), Amount(m))
                        ELSE NetIn(rows, LineRows(l))
           /\ \A l, product :
                 NetIn(rows \o << m >>, ProductRows(l, product)) =
                    IF l = m.line /\ product = m.product
                    THEN Plus(NetIn(rows, ProductRows(l, product)), Amount(m))
                    ELSE NetIn(rows, ProductRows(l, product))
<1>1. m \in Rows /\ << m >> \in Seq(Rows) /\ rows \o << m >> \in Seq(Rows)
  BY DEF IsSaleMove
<1>2. \A S : NetIn(rows \o << m >>, S) =
               IF m \in S THEN Plus(NetIn(rows, S), Amount(m)) ELSE NetIn(rows, S)
  <2>1. SUFFICES ASSUME NEW S
                 PROVE  NetIn(rows \o << m >>, S) =
                          IF m \in S THEN Plus(NetIn(rows, S), Amount(m)) ELSE NetIn(rows, S)
    OBVIOUS
  <2>2. NetIn(rows \o << m >>, S) = Plus(NetIn(rows, S), NetIn(<< m >>, S))
    BY <1>1, NetInConcat
  <2>3. NetIn(<< m >>, S) = IF m \in S THEN Amount(m) ELSE NoStock
    BY <1>1, NetInSingle DEF Amount
  <2>4. Plus(NetIn(rows, S), NoStock) = NetIn(rows, S)
    BY NetInType DEF Plus, NoStock
  <2> QED
    BY <2>2, <2>3, <2>4
<1>3. \A l : m \in LineRows(l) <=> l = m.line
  BY DEF LineRows, IsSaleMove
<1>4. \A l, product : m \in ProductRows(l, product) <=> l = m.line /\ product = m.product
  BY DEF ProductRows, IsSaleMove
<1> QED
  BY <1>1, <1>2, <1>3, <1>4

\* One more movement posted is one more row in the end.
LEMMA PostOneMore ==
    ASSUME NEW rows \in Seq(Rows), NEW moves \in Seq(Rows), NEW m, IsSaleMove(m)
    PROVE  /\ moves \o << m >> \in Seq(Rows)
           /\ rows \o (moves \o << m >>) = (rows \o moves) \o << m >>
<1>1. << m >> \in Seq(Rows)
  BY DEF IsSaleMove
<1>2. PICK one \in Seq(Rows) : one = << m >>
  BY <1>1
<1>3. (rows \o moves) \o one = rows \o (moves \o one)
  BY ConcatAssociative
<1>4. moves \o one \in Seq(Rows)
  BY ConcatProperties
<1> QED
  BY <1>2, <1>3, <1>4

\* Other lines do not notice it.
LEMMA OthersFollow ==
    ASSUME NEW rows \in Seq(Rows), NEW m, IsSaleMove(m), NEW b, b # m.line
    PROVE  /\ \A line : Follows(rows, b, line) => Follows(rows \o << m >>, b, line)
           /\ Untouched(rows, b) => Untouched(rows \o << m >>, b)
           /\ NetIn(rows \o << m >>, LineRows(b)) = NetIn(rows, LineRows(b))
<1>1. NetIn(rows \o << m >>, LineRows(b)) = NetIn(rows, LineRows(b))
  BY MoveAdds
<1>2. \A product :
         NetIn(rows \o << m >>, ProductRows(b, product)) = NetIn(rows, ProductRows(b, product))
  BY MoveAdds
<1> QED
  BY <1>1, <1>2 DEF Follows, Untouched

\* The rows follow all these lines except l, of which they hold nothing.
AgreeBut(rows, lines, l) ==
    /\ Untouched(rows, l)
    /\ \A b \in DOMAIN lines : b # l => Follows(rows, b, lines[b])
    /\ \A b \in Nat \ DOMAIN lines : b # l => Untouched(rows, b)

\* Putting back what a line holds, under the product it has, leaves nothing of it,
\* neither units nor value.
LEMMA PutBack ==
    ASSUME NEW rows \in Seq(Rows), NEW lines, Agree(rows, lines),
           NEW l \in DOMAIN lines, ~lines[l].is_deleted,
           NEW m, IsSaleMove(m), m.line = l, m.product = lines[l].product,
           m.qty = -NetIn(rows, LineRows(l)).qty, m.aed = -NetIn(rows, LineRows(l)).aed
    PROVE  AgreeBut(rows \o << m >>, lines, l)
<1> DEFINE net == NetIn(rows, LineRows(l))
<1>1. net \in [qty: Int, aed: Int]
  BY NetInType
<1>2. Plus(net, Amount(m)) = NoStock
  <2>1. m.qty = -net.qty /\ m.aed = -net.aed
    OBVIOUS
  <2> HIDE DEF net
  <2> QED
    BY <1>1, <2>1 DEF Plus, Amount, NoStock
<1>3. NetIn(rows \o << m >>, LineRows(l)) = NoStock
  BY <1>2, MoveAdds
<1>4. \A product \in Products :
         NetIn(rows, ProductRows(l, product)) = IF product = m.product THEN net ELSE NoStock
  BY DEF Agree, Follows
<1> HIDE DEF net
<1>5. \A product \in Products : NetIn(rows \o << m >>, ProductRows(l, product)) = NoStock
  BY <1>2, <1>4, MoveAdds
<1>6. \A b \in DOMAIN lines : b # l => Follows(rows \o << m >>, b, lines[b])
  BY OthersFollow DEF Agree
<1>7. \A b \in Nat \ DOMAIN lines : b # l => Untouched(rows \o << m >>, b)
  BY OthersFollow DEF Agree
<1> QED
  BY <1>3, <1>5, <1>6, <1>7 DEF AgreeBut, Untouched

\* Taking what a line says makes the rows follow it too.
LEMMA TakeOut ==
    ASSUME NEW rows \in Seq(Rows), NEW lines, NEW l \in DOMAIN lines,
           AgreeBut(rows, lines, l), ~lines[l].is_deleted, lines[l].quantity \in Int,
           NEW m, IsSaleMove(m), m.line = l, m.product = lines[l].product,
           m.qty = -lines[l].quantity, m.aed <= 0
    PROVE  Agree(rows \o << m >>, lines)
<1>1. Plus(NoStock, Amount(m)) = Amount(m)
  BY DEF Plus, NoStock, Amount, IsSaleMove, Rows
<1>2. NetIn(rows \o << m >>, LineRows(l)) = Amount(m)
  BY <1>1, MoveAdds DEF AgreeBut, Untouched
<1>3. \A product \in Products :
         NetIn(rows \o << m >>, ProductRows(l, product)) =
            IF product = m.product THEN Amount(m) ELSE NoStock
  BY <1>1, MoveAdds DEF AgreeBut, Untouched
<1>4. Follows(rows \o << m >>, l, lines[l])
  BY <1>2, <1>3 DEF Follows, Amount
<1>5. \A b \in DOMAIN lines : b # l => Follows(rows \o << m >>, b, lines[b])
  BY OthersFollow DEF AgreeBut
<1>6. \A b \in Nat \ DOMAIN lines : Untouched(rows \o << m >>, b)
  BY OthersFollow DEF AgreeBut
<1> QED
  BY <1>4, <1>5, <1>6 DEF Agree

\* What is said of the lines other than l does not depend on line l.
LEMMA AgreeButSame ==
    ASSUME NEW rows, NEW lines, NEW l, AgreeBut(rows, lines, l),
           NEW others, DOMAIN lines \subseteq DOMAIN others,
           DOMAIN others \subseteq DOMAIN lines \union {l},
           \A b \in DOMAIN lines : b # l => others[b] = lines[b]
    PROVE  AgreeBut(rows, others, l)
BY DEF AgreeBut

-----------------------------------------------------------------------------
(* The movements of a line *)

\* A line of a sale, as the invariant types it.
LEMMA LineType ==
    ASSUME Inv, NEW s \in DOMAIN sales, NEW lines \in Seq(Lines(Len(sales))),
           NEW l \in DOMAIN lines
    PROVE  /\ s \in Nat /\ l \in Nat
           /\ sales[s].location \in Locations
           /\ lines[l].product \in Products
           /\ lines[l].quantity \in Nat \ {0}
           /\ lines[l].is_deleted \in BOOLEAN
           /\ lines[l] \in Lines(Len(sales))
<1>1. sales[s] \in SaleRecords /\ s \in Nat
  BY DEF Inv
<1>2. lines[l] \in Lines(Len(sales)) /\ l \in Nat
  OBVIOUS
<1> QED
  BY <1>1, <1>2, SaleTermsAssumption DEF SaleRecords, Lines

\* Balances are typed.
LEMMA BalancesTyped ==
    ASSUME Inv
    PROVE  \A k \in Keys : balance[k] \in Amounts
<1>1. ledger \in Seq(Rows) /\ \A k \in Keys : balance[k] = Rollup(ledger, k)
  BY DEF Inv, Sound, Book
<1> QED
  BY <1>1, RollupType DEF Amounts

\* `after` is the edit with m posted for line l, which takes its stock; the lines
\* are left alone.
Takes(after, edit, l, m) ==
    /\ after \in Edits
    /\ after.lines = edit.lines
    /\ after.moves = edit.moves \o << m >>
    /\ IsSaleMove(m)
    /\ m.line = l
    /\ m.product = edit.lines[l].product
    /\ m.qty = -edit.lines[l].quantity
    /\ m.aed <= 0

\* That is what taking a line's stock does, and it draws on the running pool what
\* it will draw on the balance.
LEMMA TakeLineFacts ==
    ASSUME Inv, NEW edit \in Edits, NEW s \in DOMAIN sales, NEW l \in DOMAIN edit.lines
    PROVE  /\ \E m : Takes(TakeLine(edit, s, l), edit, l, m)
           /\ PoolsFollow(edit, s) => PoolsFollow(TakeLine(edit, s, l), s)
<1> DEFINE line == edit.lines[l]
           aed  == CarryingShare(line.quantity, edit.pools[line.product])
           m    == SaleMove(s, sales[s].location, l, line.product, -line.quantity, -aed)
           pools == Taken(edit.pools, line.product, line.quantity)
<1>1. /\ s \in Nat /\ l \in Nat /\ sales[s].location \in Locations
      /\ line.product \in Products /\ line.quantity \in Nat \ {0}
  <2>1. edit.lines \in Seq(Lines(Len(sales)))
    BY DEF Edits
  <2> QED
    BY <2>1, LineType
<1>2. edit.pools \in [Products -> Amounts] /\ edit.moves \in Seq(Rows)
  BY DEF Edits
<1>3. TakeLine(edit, s, l) =
        [edit EXCEPT !.pools = pools, !.moves = Append(edit.moves, m)]
  BY DEF TakeLine, Edits
<1>4. aed \in Nat
  <2>1. edit.pools[line.product] \in Amounts
    BY <1>1, <1>2
  <2> QED
    BY <1>1, <2>1, CarryingShareWithin
<1>5. pools \in [Products -> Amounts]
  BY <1>1, <1>2, TakenType
<1> HIDE DEF aed, pools
<1>6. /\ IsSaleMove(m) /\ m.line = l /\ m.product = line.product
      /\ m.loc = sales[s].location
      /\ m.qty = -line.quantity /\ m.aed = -aed /\ m.aed <= 0
  <2>1. "SALE" \in SourceTypes /\ "PHYSICAL" \in Buckets
    BY DEF SourceTypes, Buckets
  <2> HIDE DEF line
  <2> QED
    BY <1>1, <1>4, <2>1 DEF IsSaleMove, SaleMove, StockMove, Rows
<1>7. Append(edit.moves, m) = edit.moves \o << m >> /\ Append(edit.moves, m) \in Seq(Rows)
  BY <1>2, <1>6 DEF IsSaleMove
<1> HIDE DEF m
<1>8. /\ TakeLine(edit, s, l) \in Edits
      /\ TakeLine(edit, s, l).lines = edit.lines
      /\ TakeLine(edit, s, l).moves = Append(edit.moves, m)
      /\ TakeLine(edit, s, l).pools = pools
  BY <1>3, <1>5, <1>7 DEF Edits
<1>9. Takes(TakeLine(edit, s, l), edit, l, m)
  BY <1>6, <1>7, <1>8 DEF Takes
<1>10. ASSUME PoolsFollow(edit, s)
       PROVE  PoolsFollow(TakeLine(edit, s, l), s)
  <2>1. edit.pools = PoolsAfter(edit.moves, m.loc) /\ StaysExact(edit.moves)
    BY <1>6, <1>10 DEF PoolsFollow
  <2>2. m \in Rows /\ m.bucket = "PHYSICAL"
    BY <1>6 DEF IsSaleMove
  <2>3. PICK q \in Nat \ {0} : q = line.quantity
    BY <1>1
  <2>4. aed = CarryingShare(q, edit.pools[m.product]) /\ pools = Taken(edit.pools, m.product, q)
    BY <1>6, <2>3 DEF aed, pools
  <2>5. PICK moves \in Seq(Rows) : moves = edit.moves
    BY <1>2
  <2>6. m.qty = -q /\ m.aed = -CarryingShare(q, PoolsAfter(moves, m.loc)[m.product])
    BY <1>6, <2>1, <2>3, <2>4, <2>5
  <2>7. pools = PoolsAfter(moves \o << m >>, m.loc)
    BY <2>1, <2>2, <2>4, <2>5, <2>6, BalancesTyped, TakenFollows
  <2>8. StaysExact(moves \o << m >>)
    <3>1. m.product \in Products /\ KeyOf(m) = <<m.product, m.loc, "PHYSICAL">>
      BY <1>1, <1>6, <2>2 DEF KeyOf
    <3>2. PoolsAfter(moves, m.loc)[m.product] = BalanceAfter(moves, KeyOf(m))
      BY <3>1 DEF PoolsAfter
    <3> QED
      BY <2>1, <2>2, <2>5, <2>6, <3>2, BalancesTyped, TakeOutExact
  <2> QED
    BY <1>6, <1>7, <1>8, <2>5, <2>7, <2>8 DEF PoolsFollow
<1> QED
  BY <1>9, <1>10

\* The reversal of a live line is one movement, of all the ledger holds of it.
LEMMA RestoreFacts ==
    ASSUME Inv, NEW s \in DOMAIN sales, NEW l \in LinesOf(s)
    PROVE  \E m : /\ Restore(s, l, saleLines[l].product) = << m >>
                  /\ IsSaleMove(m) /\ m.line = l /\ m.product = saleLines[l].product
                  /\ m.qty = -NetIn(ledger, LineRows(l)).qty
                  /\ m.aed = -NetIn(ledger, LineRows(l)).aed
                  /\ m.loc = sales[s].location /\ m.qty > 0 /\ m.aed >= 0
<1> DEFINE line == saleLines[l]
           net  == NetIn(ledger, LineRows(l))
           m    == SaleMove(s, sales[s].location, l, line.product, -net.qty, -net.aed)
<1>1. l \in DOMAIN saleLines /\ ~line.is_deleted
  BY DEF LinesOf
<1>2. /\ s \in Nat /\ l \in Nat /\ sales[s].location \in Locations
      /\ line.product \in Products /\ line.quantity \in Nat \ {0}
  BY <1>1, LineType DEF Inv
<1>3. ledger \in Seq(Rows)
  BY DEF Inv, Sound, Book
<1>4. net.qty = -line.quantity /\ net.aed <= 0
  BY <1>1 DEF Inv, Agree, Follows
<1>5. net.qty \in Int /\ net.aed \in Int
  BY <1>3, NetInType
<1>6. NetPosted(l) = [qty |-> -net.qty, aed |-> -net.aed]
  BY <1>3, SumsOfSets
<1>7. Restore(s, l, line.product) = << m >>
  <2> DEFINE out == NetPosted(l)
  <2>1. out.qty = -net.qty /\ out.aed = -net.aed
    BY <1>6
  <2>2. out.qty > 0 /\ (IF out.aed > 0 THEN out.aed ELSE 0) = -net.aed
    <3> HIDE DEF net, out, line
    <3> QED
      BY <1>2, <1>4, <1>5, <2>1
  <2> QED
    BY <2>1, <2>2 DEF Restore
<1>8. /\ IsSaleMove(m) /\ m.line = l /\ m.product = line.product
      /\ m.qty = -net.qty /\ m.aed = -net.aed /\ m.loc = sales[s].location
  <2>1. "SALE" \in SourceTypes /\ "PHYSICAL" \in Buckets
    BY DEF SourceTypes, Buckets
  <2> HIDE DEF line, net
  <2> QED
    BY <1>2, <1>5, <2>1 DEF IsSaleMove, SaleMove, StockMove, Rows
<1>9. -net.qty > 0 /\ -net.aed >= 0
  <2> HIDE DEF net, line
  <2> QED
    BY <1>2, <1>4, <1>5
<1> HIDE DEF m
<1> QED
  BY <1>7, <1>8, <1>9

-----------------------------------------------------------------------------
(* One item of an edit *)

\* An item without an id adds a line and takes its stock.
LEMMA AddLineKeeps ==
    ASSUME Inv, NEW s \in DOMAIN sales, NEW terms \in SaleTerms,
           NEW edit, NEW open \in SUBSET DOMAIN saleLines, EditInv(edit, open)
    PROVE  /\ EditInv(AddLine(edit, s, terms), open)
           /\ PoolsFollow(edit, s) => PoolsFollow(AddLine(edit, s, terms), s)
<1> DEFINE l     == Len(edit.lines) + 1
           rows  == ledger \o edit.moves
           added == [edit EXCEPT !.lines = Append(@, NewSaleLine(s, terms))]
<1>1. /\ edit \in Edits /\ edit.lines \in Seq(Lines(Len(sales)))
      /\ ledger \in Seq(Rows) /\ edit.moves \in Seq(Rows) /\ rows \in Seq(Rows)
  BY DEF EditInv, Edits, Inv, Sound, Book
<1>2. NewSaleLine(s, terms) \in Lines(Len(sales)) /\ ~NewSaleLine(s, terms).is_deleted
  <2>1. s \in 1..Len(sales)
    BY DEF Inv
  <2> QED
    BY <2>1 DEF NewSaleLine, SaleTerms, Lines
<1>3. /\ added \in Edits /\ added.moves = edit.moves /\ added.pools = edit.pools
      /\ added.lines = Append(edit.lines, NewSaleLine(s, terms))
  <2>0. Append(edit.lines, NewSaleLine(s, terms)) \in Seq(Lines(Len(sales)))
    BY <1>1, <1>2, AppendProperties
  <2>1. PICK lines \in Seq(Lines(Len(sales))) :
           lines = Append(edit.lines, NewSaleLine(s, terms))
    BY <2>0
  <2>2. added = [edit EXCEPT !.lines = lines]
    BY <2>1
  <2> QED
    BY <1>1, <2>1, <2>2 DEF Edits
<1>4. /\ l \in DOMAIN added.lines /\ l \notin DOMAIN edit.lines /\ l \in Nat
      /\ DOMAIN added.lines = DOMAIN edit.lines \union {l}
      /\ ~added.lines[l].is_deleted
      /\ \A b \in DOMAIN edit.lines : b # l /\ added.lines[b] = edit.lines[b]
  BY <1>1, <1>2, <1>3
<1> HIDE DEF added, l
<1>5. AgreeBut(rows, added.lines, l)
  BY <1>4 DEF EditInv, Agree, AgreeBut
<1>5a. PICK m : Takes(TakeLine(added, s, l), added, l, m)
  BY <1>3, <1>4, TakeLineFacts
<1>6. /\ TakeLine(added, s, l) \in Edits
      /\ TakeLine(added, s, l).lines = added.lines
      /\ TakeLine(added, s, l).moves = added.moves \o << m >>
      /\ IsSaleMove(m) /\ m.line = l /\ m.product = added.lines[l].product
      /\ m.qty = -added.lines[l].quantity /\ m.aed <= 0
  BY <1>5a DEF Takes
<1>7. AddLine(edit, s, terms) = TakeLine(added, s, l)
  BY DEF AddLine, added, l
<1>8. ledger \o (edit.moves \o << m >>) = rows \o << m >>
  BY <1>1, <1>6, PostOneMore
<1> HIDE DEF rows
<1>9. Agree(rows \o << m >>, added.lines)
  <2>1. added.lines[l].quantity \in Int
    BY <1>3, <1>4, LineType DEF Edits
  <2>2. /\ rows \in Seq(Rows) /\ l \in DOMAIN added.lines /\ ~added.lines[l].is_deleted
    BY <1>1, <1>4
  <2>3. PICK lines : lines = added.lines
    OBVIOUS
  <2>4. /\ IsSaleMove(m) /\ m.line = l /\ m.product = lines[l].product
        /\ m.qty = -lines[l].quantity /\ m.aed <= 0
    BY <1>6, <2>3
  <2>5. AgreeBut(rows, lines, l) /\ l \in DOMAIN lines /\ ~lines[l].is_deleted
    BY <1>5, <2>2, <2>3
  <2>6. Agree(rows \o << m >>, lines)
    BY <2>1, <2>2, <2>3, <2>4, <2>5, TakeOut
  <2> QED
    BY <2>3, <2>6
<1>10. ASSUME NEW b \in open
       PROVE  /\ added.lines[b] = saleLines[b]
              /\ NetIn(rows \o << m >>, LineRows(b)) = NetIn(ledger, LineRows(b))
  <2>1. b \in DOMAIN edit.lines /\ edit.lines[b] = saleLines[b]
        /\ NetIn(rows, LineRows(b)) = NetIn(ledger, LineRows(b))
    BY DEF EditInv, rows
  <2>2. b # m.line
    BY <1>4, <1>6, <2>1
  <2> QED
    BY <1>1, <1>4, <1>6, <2>1, <2>2, OthersFollow
<1>11. DOMAIN saleLines \subseteq DOMAIN added.lines
  BY <1>4 DEF EditInv
<1>12. EditInv(AddLine(edit, s, terms), open)
  BY <1>3, <1>6, <1>7, <1>8, <1>9, <1>10, <1>11 DEF EditInv
<1>13. PoolsFollow(edit, s) => PoolsFollow(added, s)
  BY <1>3 DEF PoolsFollow
<1>14. PoolsFollow(added, s) => PoolsFollow(AddLine(edit, s, terms), s)
  BY <1>3, <1>4, <1>7, TakeLineFacts
<1> QED
  BY <1>12, <1>13, <1>14

\* An item that names an untouched line puts it back and takes it anew.
LEMMA ChangeLineKeeps ==
    ASSUME Inv, NEW s \in DOMAIN sales, NEW terms \in SaleTerms,
           NEW edit, NEW open \in SUBSET DOMAIN saleLines, EditInv(edit, open),
           NEW l \in open, l \in LinesOf(s)
    PROVE  /\ EditInv(ChangeLine(edit, s, l, terms), open \ {l})
           /\ PoolsFollow(edit, s) => PoolsFollow(ChangeLine(edit, s, l, terms), s)
<1> DEFINE rows == ledger \o edit.moves
           old  == edit.lines[l]
           new  == [old EXCEPT !.product = terms.product, !.quantity = terms.quantity]
<1>1. /\ edit \in Edits /\ edit.lines \in Seq(Lines(Len(sales)))
      /\ ledger \in Seq(Rows) /\ edit.moves \in Seq(Rows) /\ rows \in Seq(Rows)
      /\ edit.pools \in [Products -> Amounts]
  BY DEF EditInv, Edits, Inv, Sound, Book
<1>2. /\ l \in DOMAIN edit.lines /\ l \in DOMAIN saleLines /\ old = saleLines[l]
      /\ ~saleLines[l].is_deleted
      /\ NetIn(rows, LineRows(l)) = NetIn(ledger, LineRows(l))
  BY DEF EditInv, LinesOf
<1>3. CASE new = old
  <2>1. ChangeLine(edit, s, l, terms) = edit
    BY <1>3 DEF ChangeLine
  <2> QED
    BY <2>1 DEF EditInv
<1>4. CASE new # old
  <2>1. PICK m : /\ Restore(s, l, saleLines[l].product) = << m >>
                 /\ IsSaleMove(m) /\ m.line = l /\ m.product = saleLines[l].product
                 /\ m.qty = -NetIn(ledger, LineRows(l)).qty
                 /\ m.aed = -NetIn(ledger, LineRows(l)).aed
                 /\ m.loc = sales[s].location /\ m.qty > 0 /\ m.aed >= 0
    BY RestoreFacts
  <2> DEFINE returned == GiveBack(edit, << m >>)
             changed  == [returned EXCEPT !.lines = [edit.lines EXCEPT ![l] = new]]
  <2>2. ChangeLine(edit, s, l, terms) = TakeLine(changed, s, l)
    BY <1>2, <1>4, <2>1 DEF ChangeLine, OldProduct
  <2>3. new \in Lines(Len(sales)) /\ ~new.is_deleted
    <3>1. old \in Lines(Len(sales)) /\ ~old.is_deleted
      BY <1>1, <1>2
    <3> QED
      BY <3>1 DEF Lines, SaleTerms
  <2>4. returned = [edit EXCEPT !.moves = edit.moves \o << m >>,
                                !.pools = Given(edit.pools, m.product, m.qty, m.aed)]
    BY <1>1 DEF GiveBack, Edits
  <2>5. Given(edit.pools, m.product, m.qty, m.aed) \in [Products -> Amounts]
    BY <1>1, <2>1, GivenType DEF IsSaleMove, Rows
  <2>6. edit.moves \o << m >> \in Seq(Rows)
    BY <1>1, <2>1, PostOneMore
  <2>7. /\ returned \in Edits /\ returned.lines = edit.lines
        /\ returned.moves = edit.moves \o << m >>
        /\ returned.pools = Given(edit.pools, m.product, m.qty, m.aed)
    BY <1>1, <2>4, <2>5, <2>6 DEF Edits
  <2> HIDE DEF returned, new, old
  <2>8. [edit.lines EXCEPT ![l] = new] \in Seq(Lines(Len(sales)))
    BY <1>1, <1>2, <2>3, ExceptSeq
  <2>9. /\ changed \in Edits /\ changed.moves = edit.moves \o << m >>
        /\ changed.lines = [edit.lines EXCEPT ![l] = new]
        /\ changed.pools = Given(edit.pools, m.product, m.qty, m.aed)
    BY <2>7, <2>8 DEF Edits
  <2>10. /\ DOMAIN changed.lines = DOMAIN edit.lines
         /\ changed.lines[l] = new
         /\ \A b \in DOMAIN edit.lines : b # l => changed.lines[b] = edit.lines[b]
    BY <1>1, <1>2, <2>9
  <2> HIDE DEF changed
  <2>10a. PICK t : Takes(TakeLine(changed, s, l), changed, l, t)
    BY <1>2, <2>9, <2>10, TakeLineFacts
  <2>11. /\ TakeLine(changed, s, l) \in Edits
         /\ TakeLine(changed, s, l).lines = changed.lines
         /\ TakeLine(changed, s, l).moves = changed.moves \o << t >>
         /\ IsSaleMove(t) /\ t.line = l /\ t.product = changed.lines[l].product
         /\ t.qty = -changed.lines[l].quantity /\ t.aed <= 0
    BY <2>10a DEF Takes
  <2> DEFINE between == rows \o << m >>
  <2>12. ledger \o ((edit.moves \o << m >>) \o << t >>) = between \o << t >>
    <3>1. PICK first \in Seq(Rows) : first = edit.moves \o << m >>
      BY <2>6
    <3>2. ledger \o (first \o << t >>) = (ledger \o first) \o << t >>
      BY <1>1, <2>11, PostOneMore
    <3>3. PICK moves \in Seq(Rows) : moves = edit.moves
      BY <1>1
    <3>4. IsSaleMove(m) /\ ledger \in Seq(Rows)
      BY <1>1, <2>1
    <3>5. ledger \o (moves \o << m >>) = (ledger \o moves) \o << m >>
      BY <3>4, PostOneMore
    <3>6. ledger \o first = between
      BY <3>1, <3>3, <3>5
    <3> QED
      BY <3>1, <3>2, <3>6
  <2>13. between \in Seq(Rows)
    BY <1>1, <2>1, MoveAdds
  <2>14. AgreeBut(between, edit.lines, l)
    <3>1. Agree(rows, edit.lines)
      BY DEF EditInv
    <3>2. m.product = edit.lines[l].product /\ ~edit.lines[l].is_deleted
      BY <1>2, <2>1 DEF old
    <3>3. /\ m.qty = -NetIn(rows, LineRows(l)).qty
          /\ m.aed = -NetIn(rows, LineRows(l)).aed
      BY <1>2, <2>1
    <3> HIDE DEF rows
    <3> QED
      BY <1>1, <1>2, <2>1, <3>1, <3>2, <3>3, PutBack
  <2>15. AgreeBut(between, changed.lines, l)
    BY <2>10, <2>14, AgreeButSame
  <2>16. ASSUME NEW b \in open \ {l}
         PROVE  /\ changed.lines[b] = saleLines[b]
                /\ NetIn(between \o << t >>, LineRows(b)) = NetIn(ledger, LineRows(b))
    <3>1. b \in DOMAIN edit.lines /\ edit.lines[b] = saleLines[b]
          /\ NetIn(rows, LineRows(b)) = NetIn(ledger, LineRows(b))
      BY DEF EditInv
    <3>2. NetIn(between, LineRows(b)) = NetIn(rows, LineRows(b))
      BY <1>1, <2>1, OthersFollow
    <3> HIDE DEF between
    <3>3. NetIn(between \o << t >>, LineRows(b)) = NetIn(between, LineRows(b))
      BY <2>11, <2>13, OthersFollow
    <3> QED
      BY <2>10, <3>1, <3>2, <3>3
  <2> HIDE DEF between
  <2>17. Agree(between \o << t >>, changed.lines)
    <3>1. changed.lines[l].quantity \in Int
      BY <1>2, <2>9, <2>10, LineType DEF Edits
    <3>2. l \in DOMAIN changed.lines /\ ~changed.lines[l].is_deleted
      BY <1>2, <2>3, <2>10
    <3> QED
      BY <2>11, <2>13, <2>15, <3>1, <3>2, TakeOut
  <2>18. DOMAIN saleLines \subseteq DOMAIN changed.lines
    BY <2>10 DEF EditInv
  <2>19. PICK after : after = TakeLine(changed, s, l)
    OBVIOUS
  <2>20. ledger \o after.moves = between \o << t >>
    BY <2>9, <2>11, <2>12, <2>19
  <2>21. after \in Edits /\ after.lines = changed.lines
    BY <2>11, <2>19
  <2>22. EditInv(after, open \ {l})
    BY <2>16, <2>17, <2>18, <2>20, <2>21 DEF EditInv
  <2>23. ASSUME PoolsFollow(edit, s) PROVE PoolsFollow(changed, s)
    <3>1. edit.pools = PoolsAfter(edit.moves, m.loc) /\ StaysExact(edit.moves)
      BY <2>1, <2>23 DEF PoolsFollow
    <3>2. m \in Rows /\ m.bucket = "PHYSICAL"
      BY <2>1 DEF IsSaleMove
    <3>3. PICK moves \in Seq(Rows) : moves = edit.moves
      BY <1>1
    <3>4. Given(edit.pools, m.product, m.qty, m.aed) = PoolsAfter(moves \o << m >>, m.loc)
      BY <3>1, <3>2, <3>3, BalancesTyped, GivenFollows
    <3>5. StaysExact(moves \o << m >>)
      BY <2>1, <3>1, <3>2, <3>3, BalancesTyped, PutBackExact
    <3> QED
      BY <2>1, <2>9, <3>3, <3>4, <3>5 DEF PoolsFollow
  <2>24. PoolsFollow(changed, s) => PoolsFollow(TakeLine(changed, s, l), s)
    BY <1>2, <2>9, <2>10, TakeLineFacts
  <2> QED
    BY <2>2, <2>19, <2>22, <2>23, <2>24
<1> QED
  BY <1>3, <1>4

\* A line that goes is put back.
LEMMA RemoveLineKeeps ==
    ASSUME Inv, NEW s \in DOMAIN sales,
           NEW edit, NEW open \in SUBSET DOMAIN saleLines, EditInv(edit, open),
           NEW l \in open, l \in LinesOf(s)
    PROVE  /\ EditInv(RemoveLine(edit, s, l), open \ {l})
           /\ StaysExact(edit.moves) => StaysExact(RemoveLine(edit, s, l).moves)
<1> DEFINE rows == ledger \o edit.moves
           old  == edit.lines[l]
           new  == [old EXCEPT !.is_deleted = TRUE]
<1>1. /\ edit \in Edits /\ edit.lines \in Seq(Lines(Len(sales)))
      /\ ledger \in Seq(Rows) /\ edit.moves \in Seq(Rows) /\ rows \in Seq(Rows)
  BY DEF EditInv, Edits, Inv, Sound, Book
<1>2. /\ l \in DOMAIN edit.lines /\ l \in DOMAIN saleLines /\ old = saleLines[l]
      /\ ~saleLines[l].is_deleted
      /\ NetIn(rows, LineRows(l)) = NetIn(ledger, LineRows(l))
  BY DEF EditInv, LinesOf
<1>3. PICK m : /\ Restore(s, l, saleLines[l].product) = << m >>
               /\ IsSaleMove(m) /\ m.line = l /\ m.product = saleLines[l].product
               /\ m.qty = -NetIn(ledger, LineRows(l)).qty
               /\ m.aed = -NetIn(ledger, LineRows(l)).aed
               /\ m.qty > 0 /\ m.aed >= 0
  BY RestoreFacts
<1>4. new \in Lines(Len(sales)) /\ new.is_deleted /\ new.product = old.product
  <2>1. old \in Lines(Len(sales))
    BY <1>1, <1>2
  <2> QED
    BY <2>1 DEF Lines
<1>5. PICK lines \in Seq(Lines(Len(sales))) : lines = [edit.lines EXCEPT ![l] = new]
  <2> HIDE DEF new
  <2>1. [edit.lines EXCEPT ![l] = new] \in Seq(Lines(Len(sales)))
    BY <1>1, <1>2, <1>4, ExceptSeq
  <2> QED
    BY <2>1
<1>6. PICK moves \in Seq(Rows) : /\ moves = edit.moves \o << m >>
                                /\ ledger \o moves = rows \o << m >>
  <2>1. /\ edit.moves \o << m >> \in Seq(Rows)
        /\ ledger \o (edit.moves \o << m >>) = rows \o << m >>
    BY <1>1, <1>3, PostOneMore
  <2> HIDE DEF rows
  <2> QED
    BY <2>1
<1>7. RemoveLine(edit, s, l) = [edit EXCEPT !.moves = moves, !.lines = lines]
  <2>1. [edit.lines EXCEPT ![l].is_deleted = TRUE] = lines
    BY <1>5
  <2>2. edit.moves \o Restore(s, l, saleLines[l].product) = moves
    BY <1>3, <1>6
  <2>3. RemoveLine(edit, s, l) =
          [edit EXCEPT !.moves = edit.moves \o Restore(s, l, saleLines[l].product),
                       !.lines = [edit.lines EXCEPT ![l].is_deleted = TRUE]]
    BY <1>1 DEF RemoveLine, Edits
  <2> QED
    BY <2>1, <2>2, <2>3
<1>8. PICK after : after = RemoveLine(edit, s, l)
  OBVIOUS
<1>9. after \in Edits /\ after.lines = lines /\ after.moves = moves
  BY <1>1, <1>5, <1>6, <1>7, <1>8 DEF Edits
<1>10. /\ DOMAIN lines = DOMAIN edit.lines
       /\ lines[l] = new
       /\ \A b \in DOMAIN edit.lines : b # l => lines[b] = edit.lines[b]
  BY <1>1, <1>2, <1>5
<1>11. ledger \o after.moves = rows \o << m >>
  BY <1>6, <1>9
<1>12. AgreeBut(rows \o << m >>, edit.lines, l)
  <2>1. Agree(rows, edit.lines)
    BY DEF EditInv
  <2>2. m.product = edit.lines[l].product /\ ~edit.lines[l].is_deleted
    BY <1>2, <1>3
  <2>3. /\ m.qty = -NetIn(rows, LineRows(l)).qty
        /\ m.aed = -NetIn(rows, LineRows(l)).aed
    BY <1>2, <1>3
  <2> HIDE DEF rows
  <2> QED
    BY <1>1, <1>2, <1>3, <2>1, <2>2, <2>3, PutBack
<1> HIDE DEF new, old
<1>13. Agree(rows \o << m >>, lines)
  <2>1. AgreeBut(rows \o << m >>, lines, l)
    BY <1>10, <1>12, AgreeButSame
  <2>2. Follows(rows \o << m >>, l, lines[l])
    BY <1>4, <1>10, <2>1 DEF AgreeBut, Untouched, Follows
  <2> QED
    BY <1>2, <1>10, <2>1, <2>2 DEF AgreeBut, Agree
<1>14. ASSUME NEW b \in open \ {l}
       PROVE  /\ lines[b] = saleLines[b]
              /\ NetIn(rows \o << m >>, LineRows(b)) = NetIn(ledger, LineRows(b))
  <2>1. b \in DOMAIN edit.lines /\ edit.lines[b] = saleLines[b]
        /\ NetIn(rows, LineRows(b)) = NetIn(ledger, LineRows(b))
    BY DEF EditInv
  <2> HIDE DEF rows
  <2>2. NetIn(rows \o << m >>, LineRows(b)) = NetIn(rows, LineRows(b))
    BY <1>1, <1>3, OthersFollow
  <2> QED
    BY <1>10, <2>1, <2>2
<1>15. DOMAIN saleLines \subseteq DOMAIN lines
  BY <1>10 DEF EditInv
<1>16. EditInv(after, open \ {l})
  BY <1>9, <1>11, <1>13, <1>14, <1>15 DEF EditInv
<1>17. ASSUME StaysExact(edit.moves) PROVE StaysExact(after.moves)
  <2>1. PICK before \in Seq(Rows) : before = edit.moves
    BY <1>1
  <2>2. StaysExact(before \o << m >>)
    BY <1>3, <1>17, <2>1, BalancesTyped, PutBackExact DEF IsSaleMove
  <2> QED
    BY <1>6, <1>9, <2>1, <2>2
<1> QED
  BY <1>8, <1>16, <1>17

\* Fewer lines are untouched, too.
LEMMA OpenFewer ==
    ASSUME NEW edit, NEW open, NEW fewer \in SUBSET open, EditInv(edit, open)
    PROVE  EditInv(edit, fewer)
BY DEF EditInv

\* Whatever an item says, it touches no line but the one it names.
LEMMA EditItemKeeps ==
    ASSUME Inv, NEW s \in DOMAIN sales, NEW item \in EditItems,
           NEW edit, NEW open \in SUBSET LinesOf(s), EditInv(edit, open),
           item.id \in LinesOf(s) => item.id \in open
    PROVE  /\ EditInv(EditItem(edit, s, item), open \ {item.id})
           /\ PoolsFollow(edit, s) => PoolsFollow(EditItem(edit, s, item), s)
<1>1. open \in SUBSET DOMAIN saleLines /\ item.terms \in SaleTerms
  BY DEF LinesOf, EditItems
<1>1a. 0 \notin LinesOf(s)
  BY DEF LinesOf, Inv
<1>2. CASE item.id = 0
  <2>1. EditItem(edit, s, item) = AddLine(edit, s, item.terms)
    BY <1>1a, <1>2 DEF EditItem
  <2>2. /\ EditInv(AddLine(edit, s, item.terms), open)
        /\ PoolsFollow(edit, s) => PoolsFollow(AddLine(edit, s, item.terms), s)
    BY <1>1, AddLineKeeps
  <2> QED
    BY <2>1, <2>2, OpenFewer
<1>3. CASE item.id # 0 /\ item.id \in LinesOf(s)
  <2>1. EditItem(edit, s, item) = ChangeLine(edit, s, item.id, item.terms)
    BY <1>3 DEF EditItem
  <2> QED
    BY <1>1, <1>3, <2>1, ChangeLineKeeps
<1>4. CASE item.id # 0 /\ item.id \notin LinesOf(s)
  <2>1. EditItem(edit, s, item) = [edit EXCEPT !.ok = FALSE]
    BY <1>4 DEF EditItem
  <2>2. PICK refused : refused = [edit EXCEPT !.ok = FALSE]
    OBVIOUS
  <2>3. edit \in Edits
    BY DEF EditInv
  <2>4. /\ refused \in Edits /\ refused.lines = edit.lines
        /\ refused.moves = edit.moves /\ refused.pools = edit.pools
    BY <2>2, <2>3 DEF Edits
  <2>5. /\ EditInv(refused, open)
        /\ PoolsFollow(edit, s) => PoolsFollow(refused, s)
    BY <2>4 DEF EditInv, PoolsFollow
  <2> QED
    BY <2>1, <2>2, <2>5, OpenFewer
<1> QED
  BY <1>2, <1>3, <1>4

-----------------------------------------------------------------------------
(* The two loops of an edit *)

\* The recursion equations of the loops, up to n.
AreEdits(f, s, start, payload, n) ==
    f = [k \in 0..n |-> IF k = 0 THEN start ELSE EditItem(f[k - 1], s, payload[k])]

AreRemovals(f, s, start, gone, n) ==
    f = [k \in 0..n |-> IF k = 0 THEN start
                        ELSE IF k \in gone THEN RemoveLine(f[k - 1], s, k) ELSE f[k - 1]]

\* They have solutions up to every length.
LEMMA EditsExist ==
    ASSUME NEW s, NEW start, NEW payload
    PROVE  \A n \in Nat : \E f : AreEdits(f, s, start, payload, n)
<1> DEFINE T == {n \in Nat : \E f : AreEdits(f, s, start, payload, n)}
           Item(edit, k) == EditItem(edit, s, payload[k])
<1>1. 0 \in T
  <2>1. AreEdits([k \in 0..0 |-> start], s, start, payload, 0)
    BY DEF AreEdits
  <2> QED
    BY <2>1
<1>2. ASSUME NEW n \in Nat, n \in T PROVE n + 1 \in T
  <2>1. PICK f : AreEdits(f, s, start, payload, n)
    BY <1>2
  <2>2. f = [k \in 0..n |-> IF k = 0 THEN start ELSE Item(f[k - 1], k)]
    BY <2>1 DEF AreEdits
  <2> HIDE DEF Item
  <2> DEFINE g == [k \in 0..(n + 1) |-> IF k = n + 1 THEN Item(f[n], n + 1) ELSE f[k]]
  <2>3. \A k \in 0..n : f[k] = IF k = 0 THEN start ELSE Item(f[k - 1], k)
    BY <2>2
  <2>4. \A k \in 0..(n + 1) : g[k] = IF k = 0 THEN start ELSE Item(g[k - 1], k)
    BY <2>3
  <2>5. g = [k \in 0..(n + 1) |-> IF k = 0 THEN start ELSE Item(g[k - 1], k)]
    BY <2>4
  <2> HIDE DEF g
  <2>6. AreEdits(g, s, start, payload, n + 1)
    BY <2>5 DEF AreEdits, Item
  <2> QED
    BY <2>6
<1> HIDE DEF T
<1>3. \A n \in Nat : n \in T
  BY <1>1, <1>2, NatSetInduction
<1> QED
  BY <1>3 DEF T

\* So do the removals.
LEMMA RemovalsExist ==
    ASSUME NEW s, NEW start, NEW gone
    PROVE  \A n \in Nat : \E f : AreRemovals(f, s, start, gone, n)
<1> DEFINE T == {n \in Nat : \E f : AreRemovals(f, s, start, gone, n)}
           Removed(edit, k) == IF k \in gone THEN RemoveLine(edit, s, k) ELSE edit
<1>1. 0 \in T
  <2>1. AreRemovals([k \in 0..0 |-> start], s, start, gone, 0)
    BY DEF AreRemovals
  <2> QED
    BY <2>1
<1>2. ASSUME NEW n \in Nat, n \in T PROVE n + 1 \in T
  <2>1. PICK f : AreRemovals(f, s, start, gone, n)
    BY <1>2
  <2>2. f = [k \in 0..n |-> IF k = 0 THEN start ELSE Removed(f[k - 1], k)]
    BY <2>1 DEF AreRemovals
  <2> HIDE DEF Removed
  <2> DEFINE g == [k \in 0..(n + 1) |-> IF k = n + 1 THEN Removed(f[n], n + 1) ELSE f[k]]
  <2>3. \A k \in 0..n : f[k] = IF k = 0 THEN start ELSE Removed(f[k - 1], k)
    BY <2>2
  <2>4. \A k \in 0..(n + 1) : g[k] = IF k = 0 THEN start ELSE Removed(g[k - 1], k)
    BY <2>3
  <2>5. g = [k \in 0..(n + 1) |-> IF k = 0 THEN start ELSE Removed(g[k - 1], k)]
    BY <2>4
  <2> HIDE DEF g
  <2>6. AreRemovals(g, s, start, gone, n + 1)
    BY <2>5 DEF AreRemovals, Removed
  <2> QED
    BY <2>6
<1> HIDE DEF T
<1>3. \A n \in Nat : n \in T
  BY <1>1, <1>2, NatSetInduction
<1> QED
  BY <1>3 DEF T

\* The model's loops are such solutions.
LEMMA EditsEquation ==
    ASSUME NEW s, NEW start, NEW payload, Len(payload) \in Nat
    PROVE  \A k \in 0..Len(payload) :
              EditsInTurn(s, start, payload)[k] =
                 IF k = 0 THEN start
                 ELSE EditItem(EditsInTurn(s, start, payload)[k - 1], s, payload[k])
<1> DEFINE edit[n \in 0..Len(payload)] ==
               IF n = 0 THEN start ELSE EditItem(edit[n - 1], s, payload[n])
<1>1. \E f : f = [n \in 0..Len(payload) |->
                     IF n = 0 THEN start ELSE EditItem(f[n - 1], s, payload[n])]
  <2>1. PICK f : AreEdits(f, s, start, payload, Len(payload))
    BY EditsExist
  <2> QED
    BY <2>1 DEF AreEdits
<1>2. edit = [n \in 0..Len(payload) |->
                 IF n = 0 THEN start ELSE EditItem(edit[n - 1], s, payload[n])]
  BY <1>1
<1>3. EditsInTurn(s, start, payload) = edit
  BY DEF EditsInTurn
<1> HIDE DEF edit
<1> QED
  BY <1>2, <1>3

\* Both of them.
LEMMA RemovalsEquation ==
    ASSUME NEW s, NEW start, NEW gone, Len(saleLines) \in Nat
    PROVE  \A k \in 0..Len(saleLines) :
              RemovalsInTurn(s, start, gone)[k] =
                 IF k = 0 THEN start
                 ELSE IF k \in gone THEN RemoveLine(RemovalsInTurn(s, start, gone)[k - 1], s, k)
                 ELSE RemovalsInTurn(s, start, gone)[k - 1]
<1> DEFINE edit[n \in 0..Len(saleLines)] ==
               IF n = 0 THEN start
               ELSE IF n \in gone THEN RemoveLine(edit[n - 1], s, n) ELSE edit[n - 1]
<1>1. \E f : f = [n \in 0..Len(saleLines) |->
                     IF n = 0 THEN start
                     ELSE IF n \in gone THEN RemoveLine(f[n - 1], s, n) ELSE f[n - 1]]
  <2>1. PICK f : AreRemovals(f, s, start, gone, Len(saleLines))
    BY RemovalsExist
  <2> QED
    BY <2>1 DEF AreRemovals
<1>2. edit = [n \in 0..Len(saleLines) |->
                 IF n = 0 THEN start
                 ELSE IF n \in gone THEN RemoveLine(edit[n - 1], s, n) ELSE edit[n - 1]]
  BY <1>1
<1>3. RemovalsInTurn(s, start, gone) = edit
  BY DEF RemovalsInTurn
<1> HIDE DEF edit
<1> QED
  BY <1>2, <1>3

\* An edit starts where the ledger is.
LEMMA StartKeeps ==
    ASSUME Inv, NEW s \in DOMAIN sales
    PROVE  /\ EditInv(StartEdit(s), LinesOf(s))
           /\ PoolsExact => PoolsFollow(StartEdit(s), s)
<1>1. ledger \in Seq(Rows) /\ saleLines \in Seq(Lines(Len(sales)))
  BY DEF Inv, Sound, Book
<1>2. PoolsAt(sales[s].location) \in [Products -> Amounts]
  <2>1. \A p \in Products : <<p, sales[s].location, "PHYSICAL">> \in Keys
    <3>1. sales[s] \in SaleRecords
      BY DEF Inv
    <3>2. sales[s].location \in Locations
      BY <3>1, SaleTermsAssumption DEF SaleRecords
    <3> QED
      BY <3>2 DEF Keys, Buckets
  <2>2. \A k \in Keys : balance[k] \in Amounts
    <3>1. \A k \in Keys : balance[k] = Rollup(ledger, k)
      BY DEF Inv, Sound, Book
    <3> QED
      BY <1>1, <3>1, RollupType DEF Amounts
  <2> QED
    BY <2>1, <2>2 DEF PoolsAt
<1>3. PICK start : start = StartEdit(s)
  OBVIOUS
<1>4. << >> \in Seq(Rows) /\ ledger \o << >> = ledger
  BY <1>1, ConcatEmptySeq
<1>5. /\ start \in Edits /\ start.lines = saleLines /\ start.moves = << >>
      /\ start.pools = PoolsAt(sales[s].location)
  BY <1>1, <1>2, <1>3, <1>4 DEF StartEdit, Edits
<1>6. Agree(ledger \o start.moves, start.lines)
  BY <1>4, <1>5 DEF Inv
<1>7. EditInv(start, LinesOf(s))
  BY <1>4, <1>5, <1>6 DEF EditInv
<1>8. ASSUME PoolsExact PROVE PoolsFollow(start, s)
  <2>1. sales[s].location \in Locations
    <3>1. sales[s] \in SaleRecords
      BY DEF Inv
    <3> QED
      BY <3>1, SaleTermsAssumption DEF SaleRecords
  <2>2. start.pools = PoolsAfter(<< >>, sales[s].location)
    BY <1>5, <2>1, BalancesTyped, NothingAfter
  <2>3. StaysExact(<< >>)
    BY <1>8, BalancesTyped, NothingAfter DEF StaysExact, PoolsExact
  <2> QED
    BY <1>5, <2>2, <2>3 DEF PoolsFollow
<1> QED
  BY <1>3, <1>7, <1>8

\* After each item, the lines the request has not named yet are untouched.
LEMMA EditsKeep ==
    ASSUME Inv, NEW s \in DOMAIN sales, NEW payload \in Seq(EditItems), DistinctIds(payload)
    PROVE  \A n \in 0..Len(payload) :
              /\ EditInv(EditsInTurn(s, StartEdit(s), payload)[n], OpenAfter(s, payload, n))
              /\ PoolsExact => PoolsFollow(EditsInTurn(s, StartEdit(s), payload)[n], s)
<1> DEFINE start == StartEdit(s)
           edits == EditsInTurn(s, start, payload)
           T     == {n \in Nat : n <= Len(payload) =>
                                    /\ EditInv(edits[n], OpenAfter(s, payload, n))
                                    /\ PoolsExact => PoolsFollow(edits[n], s)}
<1>1. \A k \in 0..Len(payload) :
         edits[k] = IF k = 0 THEN start ELSE EditItem(edits[k - 1], s, payload[k])
  BY EditsEquation
<1> HIDE DEF edits
<1>2. 0 \in T
  <2>1. OpenAfter(s, payload, 0) = LinesOf(s)
    BY DEF OpenAfter
  <2>2. edits[0] = start
    BY <1>1
  <2> QED
    BY <2>1, <2>2, StartKeeps
<1> HIDE DEF start
<1>3. ASSUME NEW n \in Nat, n \in T PROVE n + 1 \in T
  <2>1. SUFFICES ASSUME n + 1 <= Len(payload)
                 PROVE  /\ EditInv(edits[n + 1], OpenAfter(s, payload, n + 1))
                        /\ PoolsExact => PoolsFollow(edits[n + 1], s)
    OBVIOUS
  <2> DEFINE open == OpenAfter(s, payload, n)
             item == payload[n + 1]
  <2>2. EditInv(edits[n], open) /\ (PoolsExact => PoolsFollow(edits[n], s))
    BY <1>3, <2>1
  <2>3. edits[n + 1] = EditItem(edits[n], s, item)
    BY <1>1, <2>1
  <2>4. item \in EditItems /\ n + 1 \in DOMAIN payload
    BY <2>1
  <2>5. open \in SUBSET LinesOf(s)
    BY DEF OpenAfter
  <2>6. OpenAfter(s, payload, n + 1) = open \ {item.id}
    <3>1. 1..(n + 1) = 1..n \union {n + 1}
      OBVIOUS
    <3> QED
      BY <3>1 DEF OpenAfter
  <2>7. ASSUME item.id \in LinesOf(s) PROVE item.id \in open
    <3>1. item.id # 0
      BY <2>7 DEF LinesOf, Inv
    <3>2. \A i \in 1..n : i \in DOMAIN payload /\ i # n + 1
      BY <2>1
    <3>3. \A i \in 1..n : payload[i].id # item.id
      BY <2>4, <3>1, <3>2 DEF DistinctIds
    <3> QED
      BY <2>7, <3>3 DEF OpenAfter
  <2> HIDE DEF open, item
  <2>8. /\ EditInv(EditItem(edits[n], s, item), open \ {item.id})
        /\ PoolsFollow(edits[n], s) => PoolsFollow(EditItem(edits[n], s, item), s)
    BY <2>2, <2>4, <2>5, <2>7, EditItemKeeps
  <2> QED
    BY <2>2, <2>3, <2>6, <2>8
<1> HIDE DEF T
<1>4. \A n \in Nat : n \in T
  BY <1>2, <1>3, NatSetInduction
<1> QED
  BY <1>4 DEF T, edits, start

\* After each removal, the lines that still have to go are untouched.
LEMMA RemovalsKeep ==
    ASSUME Inv, NEW s \in DOMAIN sales, NEW start, NEW gone \in SUBSET LinesOf(s),
           EditInv(start, gone)
    PROVE  \A n \in 0..Len(saleLines) :
              /\ EditInv(RemovalsInTurn(s, start, gone)[n], gone \ 1..n)
              /\ StaysExact(start.moves) =>
                    StaysExact(RemovalsInTurn(s, start, gone)[n].moves)
<1> DEFINE ends == RemovalsInTurn(s, start, gone)
           T    == {n \in Nat : n <= Len(saleLines) =>
                                   /\ EditInv(ends[n], gone \ 1..n)
                                   /\ StaysExact(start.moves) => StaysExact(ends[n].moves)}
<1>0. Len(saleLines) \in Nat
  BY DEF Inv
<1>1. \A k \in 0..Len(saleLines) :
         ends[k] = IF k = 0 THEN start
                   ELSE IF k \in gone THEN RemoveLine(ends[k - 1], s, k) ELSE ends[k - 1]
  BY <1>0, RemovalsEquation
<1> HIDE DEF ends
<1>2. 0 \in T
  <2>1. gone \ 1..0 = gone
    OBVIOUS
  <2>2. ends[0] = start
    BY <1>0, <1>1
  <2> QED
    BY <2>1, <2>2
<1>3. ASSUME NEW n \in Nat, n \in T PROVE n + 1 \in T
  <2>1. SUFFICES ASSUME n + 1 <= Len(saleLines)
                 PROVE  /\ EditInv(ends[n + 1], gone \ 1..(n + 1))
                        /\ StaysExact(start.moves) => StaysExact(ends[n + 1].moves)
    OBVIOUS
  <2> DEFINE open == gone \ 1..n
  <2>2. EditInv(ends[n], open) /\ (StaysExact(start.moves) => StaysExact(ends[n].moves))
    BY <1>3, <1>0, <2>1
  <2>3. ends[n + 1] = IF n + 1 \in gone THEN RemoveLine(ends[n], s, n + 1) ELSE ends[n]
    BY <1>0, <1>1, <2>1
  <2>4. gone \ 1..(n + 1) = open \ {n + 1}
    <3>1. 1..(n + 1) = 1..n \union {n + 1}
      OBVIOUS
    <3> QED
      BY <3>1
  <2>5. open \in SUBSET DOMAIN saleLines
    BY DEF LinesOf
  <2>6. CASE n + 1 \in gone
    <3>1. n + 1 \in open /\ n + 1 \in LinesOf(s)
      BY <2>6
    <3> HIDE DEF open
    <3>2. /\ EditInv(RemoveLine(ends[n], s, n + 1), open \ {n + 1})
          /\ StaysExact(ends[n].moves) => StaysExact(RemoveLine(ends[n], s, n + 1).moves)
      BY <2>2, <2>5, <3>1, RemoveLineKeeps
    <3> QED
      BY <2>2, <2>3, <2>4, <2>6, <3>2
  <2>7. CASE n + 1 \notin gone
    <3>1. open \ {n + 1} \in SUBSET open
      OBVIOUS
    <3> HIDE DEF open
    <3> QED
      BY <2>2, <2>3, <2>4, <2>7, <3>1, OpenFewer
  <2> QED
    BY <2>6, <2>7
<1> HIDE DEF T
<1>4. \A n \in Nat : n \in T
  BY <1>2, <1>3, NatSetInduction
<1>5. \A n \in 0..Len(saleLines) : n \in Nat /\ n <= Len(saleLines)
  BY <1>0
<1> QED
  BY <1>4, <1>5, Zenon DEF T, ends

-----------------------------------------------------------------------------
(* The steps *)

\* A request that ends with such an edit, posted or empty, keeps the invariant.
LEMMA CommitStep ==
    ASSUME Inv, NEW final, NEW open, EditInv(final, open), NEW confirm,
           IF final.moves = << >> THEN Install(Book) ELSE Post(final.moves, confirm),
           saleLines' = final.lines, sales' \in Seq(SaleRecords), Len(sales') = Len(sales)
    PROVE  Inv'
<1>1. final \in Edits /\ Agree(ledger \o final.moves, final.lines) /\ ledger \in Seq(Rows)
  BY DEF EditInv, Inv, Sound, Book
<1>2. saleLines' \in Seq(Lines(Len(sales')))
  BY <1>1 DEF Edits
<1>3. Sound(Book)' /\ ledger' = ledger \o final.moves
  <2>1. CASE final.moves = << >>
    <3>1. ledger' = ledger /\ balance' = balance
      BY <2>1 DEF Install, Book
    <3>2. ledger \o << >> = ledger
      BY <1>1, ConcatEmptySeq
    <3> QED
      BY <2>1, <3>1, <3>2 DEF Inv, Sound, Book
  <2>2. CASE final.moves # << >>
    <3>1. Post(final.moves, confirm)
      BY <2>2
    <3> QED
      BY <3>1, PostSound, PostFacts DEF Inv
  <2> QED
    BY <2>1, <2>2
<1>4. Agree(ledger', saleLines')
  BY <1>1, <1>3
<1> QED
  BY <1>2, <1>3, <1>4 DEF Inv

\* Nor does it disturb exact stocks, when its movements do not and nobody confirmed.
LEMMA CommitExact ==
    ASSUME Inv, NEW moves \in Seq(Rows), StaysExact(moves), PoolsExact,
           IF moves = << >> THEN Install(Book) ELSE Post(moves, FALSE)
    PROVE  PoolsExact'
<1>1. CASE moves = << >>
  <2>1. balance' = balance
    BY <1>1 DEF Install, Book
  <2> QED
    BY <2>1 DEF PoolsExact
<1>2. CASE moves # << >>
  BY <1>2, PostExact
<1> QED
  BY <1>1, <1>2

\* An edit that names no line twice.
LEMMA UpdateStep ==
    ASSUME Inv, NEW s \in DOMAIN sales, NEW payload \in Seq(EditItems), DistinctIds(payload),
           NEW confirm, UpdateSale(s, payload, confirm)
    PROVE  /\ Inv'
           /\ PoolsExact /\ confirm = FALSE => PoolsExact'
<1> DEFINE edited == EditsInTurn(s, StartEdit(s), payload)[Len(payload)]
           gone   == LeftOut(s, payload)
           final  == RemovalsInTurn(s, edited, gone)[Len(saleLines)]
<1>1. Len(payload) \in 0..Len(payload) /\ Len(saleLines) \in 0..Len(saleLines)
  BY DEF Inv
<1>2. /\ EditInv(edited, OpenAfter(s, payload, Len(payload)))
      /\ PoolsExact => StaysExact(edited.moves)
  BY <1>1, EditsKeep DEF PoolsFollow
<1>3. OpenAfter(s, payload, Len(payload)) = gone /\ gone \in SUBSET LinesOf(s)
  <2>1. DOMAIN payload = 1..Len(payload)
    OBVIOUS
  <2> QED
    BY <2>1 DEF OpenAfter, LeftOut
<1>4. /\ IF final.moves = << >> THEN Install(Book) ELSE Post(final.moves, confirm)
      /\ saleLines' = final.lines /\ sales' = sales
  BY DEF UpdateSale
<1> HIDE DEF edited, gone
<1>5. /\ EditInv(final, gone \ 1..Len(saleLines))
      /\ PoolsExact => StaysExact(final.moves)
  BY <1>1, <1>2, <1>3, RemovalsKeep
<1> HIDE DEF final
<1>6. sales' \in Seq(SaleRecords) /\ Len(sales') = Len(sales)
  BY <1>4 DEF Inv
<1>7. Inv'
  BY <1>4, <1>5, <1>6, CommitStep
<1>8. ASSUME PoolsExact, confirm = FALSE PROVE PoolsExact'
  <2>1. PICK moves \in Seq(Rows) : moves = final.moves
    BY <1>5 DEF EditInv, Edits
  <2> QED
    BY <1>4, <1>5, <1>8, <2>1, CommitExact
<1> QED
  BY <1>7, <1>8

\* A deleted sale puts everything back.
LEMMA DeleteStep ==
    ASSUME Inv, NEW s \in DOMAIN sales, SoftDeleteSale(s)
    PROVE  Inv' /\ (PoolsExact => PoolsExact')
<1> DEFINE start == StartEdit(s)
           gone  == LinesOf(s)
           final == RemovalsInTurn(s, start, gone)[Len(saleLines)]
<1>1. Len(saleLines) \in 0..Len(saleLines)
  BY DEF Inv
<1>2. EditInv(start, gone) /\ (PoolsExact => StaysExact(start.moves))
  BY StartKeeps DEF PoolsFollow
<1>3. /\ IF final.moves = << >> THEN Install(Book) ELSE Post(final.moves, FALSE)
      /\ saleLines' = final.lines
      /\ sales' = [sales EXCEPT ![s].is_deleted = TRUE]
  BY DEF SoftDeleteSale
<1> HIDE DEF start
<1>4. /\ EditInv(final, gone \ 1..Len(saleLines))
      /\ PoolsExact => StaysExact(final.moves)
  BY <1>1, <1>2, RemovalsKeep
<1> HIDE DEF final
<1>5. sales' \in Seq(SaleRecords) /\ Len(sales') = Len(sales)
  <2>1. sales \in Seq(SaleRecords) /\ sales[s] \in SaleRecords /\ s \in 1..Len(sales)
    BY DEF Inv
  <2>2. PICK record \in SaleRecords : record = [sales[s] EXCEPT !.is_deleted = TRUE]
    <3>1. [sales[s] EXCEPT !.is_deleted = TRUE] \in SaleRecords
      BY <2>1 DEF SaleRecords
    <3> QED
      BY <3>1
  <2>3. sales' = [sales EXCEPT ![s] = record]
    BY <1>3, <2>2
  <2> QED
    BY <2>1, <2>3, ExceptSeq
<1>6. Inv'
  BY <1>3, <1>4, <1>5, CommitStep
<1>7. ASSUME PoolsExact PROVE PoolsExact'
  <2>1. PICK moves \in Seq(Rows) : moves = final.moves
    BY <1>4 DEF EditInv, Edits
  <2> QED
    BY <1>3, <1>4, <1>7, <2>1, CommitExact
<1> QED
  BY <1>6, <1>7

\* The lines of a new sale.
NewLines(s, terms) == [i \in DOMAIN terms |-> NewSaleLine(s, terms[i])]

\* A new sale's lines have each taken what they say.
LEMMA CreateStep ==
    ASSUME Inv, NEW loc, NEW terms \in Seq(SaleTerms), NEW confirm,
           CreateSale(loc, terms, confirm)
    PROVE  Inv'
<1> DEFINE s     == Len(sales) + 1
           base  == Len(saleLines)
           more  == NewLines(s, terms)
           moves == [i \in DOMAIN terms |->
                        SaleMove(s, loc, base + i, terms[i].product, -terms[i].quantity,
                                 -ShareInTurn(PoolsAt(loc), terms, i))]
<1>1. /\ ledger \in Seq(Rows) /\ sales \in Seq(SaleRecords)
      /\ saleLines \in Seq(Lines(Len(sales))) /\ Agree(ledger, saleLines)
      /\ base \in Nat /\ s \in Nat /\ Len(sales) \in Nat /\ Len(terms) \in Nat
      /\ DOMAIN terms = 1..Len(terms) /\ DOMAIN saleLines = 1..base
  BY DEF Inv, Sound, Book
<1>2. /\ Post(moves, confirm) /\ loc \in SalesLocations
      /\ sales' = Append(sales, [location |-> loc, is_deleted |-> FALSE])
      /\ saleLines' = saleLines \o more
  BY DEF CreateSale, NewLines
<1>3. Len(moves) = Len(terms) /\ DOMAIN moves = DOMAIN terms
  BY <1>1
<1>4. \A i \in 1..Len(terms) :
         /\ moves[i].stype = "SALE" /\ moves[i].bucket = "PHYSICAL"
         /\ moves[i].line = base + i /\ moves[i].product = terms[i].product
         /\ moves[i].qty = -terms[i].quantity
  BY <1>1 DEF SaleMove, StockMove
<1> HIDE DEF moves
<1>5. Sound(Book)' /\ moves \in Seq(Rows) /\ ledger' = ledger \o moves
  BY <1>2, PostSound, PostFacts DEF Inv
<1>6. \A i \in 1..Len(terms) : moves[i] \in Rows /\ moves[i].aed <= 0
  <2>1. SUFFICES ASSUME NEW i \in 1..Len(terms)
                 PROVE  moves[i] \in Rows /\ moves[i].aed <= 0
    OBVIOUS
  <2>2. WellFormed(moves[i])
    BY <1>1, <1>2, <1>3 DEF Post, CanPost, ValidMovements
  <2>3. moves[i] \in Rows
    BY <1>1, <1>3, <1>5
  <2>4. terms[i].quantity \in Nat \ {0}
    <3>1. terms[i] \in SaleTerms
      OBVIOUS
    <3> QED
      BY <3>1, SaleTermsAssumption DEF SaleTerms
  <2>5. moves[i].qty < 0
    BY <1>4, <2>4
  <2> QED
    BY <2>2, <2>3, <2>5 DEF WellFormed
<1>7. /\ more \in Seq(Lines(s)) /\ Len(more) = Len(terms)
      /\ \A i \in 1..Len(terms) : /\ more[i].product = terms[i].product
                                  /\ more[i].quantity = terms[i].quantity
                                  /\ ~more[i].is_deleted
  <2>1. \A i \in 1..Len(terms) : more[i] = NewSaleLine(s, terms[i])
    BY <1>1 DEF NewLines
  <2>2. ASSUME NEW i \in 1..Len(terms) PROVE NewSaleLine(s, terms[i]) \in Lines(s)
    <3>1. terms[i] \in SaleTerms
      OBVIOUS
    <3>2. s \in 1..s
      BY <1>1
    <3> HIDE DEF s
    <3> QED
      BY <3>1, <3>2 DEF NewSaleLine, Lines, SaleTerms
  <2>3. Len(more) = Len(terms) /\ more \in Seq(Lines(s))
    <3> HIDE DEF s
    <3> QED
      BY <1>1, <2>2 DEF NewLines
  <2>4. \A i \in 1..Len(terms) :
           /\ NewSaleLine(s, terms[i]).product = terms[i].product
           /\ NewSaleLine(s, terms[i]).quantity = terms[i].quantity
           /\ ~NewSaleLine(s, terms[i]).is_deleted
    BY DEF NewSaleLine
  <2> HIDE DEF more, s
  <2> QED
    BY <2>1, <2>3, <2>4
<1> HIDE DEF more
<1>8. saleLines \in Seq(Lines(s))
  <2>1. Lines(Len(sales)) \subseteq Lines(s)
    <3>1. 1..Len(sales) \subseteq 1..s
      BY <1>1
    <3> QED
      BY <3>1 DEF Lines
  <2> HIDE DEF s
  <2> QED
    BY <1>1, <2>1
<1>9. /\ sales' \in Seq(SaleRecords) /\ Len(sales') = s
  BY <1>1, <1>2 DEF SaleRecords
<1>10. /\ saleLines' \in Seq(Lines(s)) /\ DOMAIN saleLines' = 1..(base + Len(terms))
       /\ \A l \in 1..base : saleLines'[l] = saleLines[l]
       /\ \A i \in 1..Len(terms) : saleLines'[base + i] = more[i]
  <2> HIDE DEF s
  <2>0. /\ saleLines \o more \in Seq(Lines(s))
        /\ Len(saleLines \o more) = base + Len(more)
        /\ \A i \in 1..(base + Len(more)) :
              (saleLines \o more)[i] = IF i <= base THEN saleLines[i] ELSE more[i - base]
    <3>1. PICK old \in Seq(Lines(s)), new \in Seq(Lines(s)) : old = saleLines /\ new = more
      BY <1>7, <1>8
    <3>2. /\ old \o new \in Seq(Lines(s))
          /\ Len(old \o new) = Len(old) + Len(new)
          /\ \A i \in 1..Len(old) + Len(new) :
                (old \o new)[i] = IF i <= Len(old) THEN old[i] ELSE new[i - Len(old)]
      BY ConcatProperties
    <3> QED
      BY <3>1, <3>2
  <2>1. saleLines' \in Seq(Lines(s)) /\ Len(saleLines') = base + Len(terms)
    BY <1>2, <1>7, <2>0
  <2>2. \A i \in 1..(base + Len(terms)) :
           saleLines'[i] = IF i <= base THEN saleLines[i] ELSE more[i - base]
    BY <1>2, <1>7, <2>0
  <2>3. DOMAIN saleLines' = 1..(base + Len(terms))
    BY <2>1
  <2> HIDE DEF base
  <2>4. \A l \in 1..base : l \in 1..(base + Len(terms)) /\ l <= base
    BY <1>1
  <2>5. \A i \in 1..Len(terms) :
           /\ base + i \in 1..(base + Len(terms)) /\ ~(base + i <= base)
           /\ (base + i) - base = i
    BY <1>1
  <2>6. \A l \in 1..base : saleLines'[l] = saleLines[l]
    BY <2>2, <2>4
  <2>7. \A i \in 1..Len(terms) : saleLines'[base + i] = more[i]
    BY <2>2, <2>5
  <2> QED
    BY <2>1, <2>3, <2>6, <2>7
<1> HIDE DEF s, base
<1>11. \A S : NetIn(ledger', S) = Plus(NetIn(ledger, S), NetIn(moves, S))
  BY <1>1, <1>5, NetInConcat
<1>12. \A S : (\A i \in 1..Len(terms) : moves[i] \notin S) =>
                 NetIn(ledger', S) = NetIn(ledger, S)
  <2>1. SUFFICES ASSUME NEW S, \A i \in 1..Len(terms) : moves[i] \notin S
                 PROVE  NetIn(ledger', S) = NetIn(ledger, S)
    OBVIOUS
  <2>2. NetIn(moves, S) = NoStock
    BY <1>3, <1>5, <2>1, NetInNone
  <2> QED
    BY <1>1, <1>11, <2>2, NetInType DEF Plus, NoStock
<1>13. ASSUME NEW l \in Nat, \A i \in 1..Len(terms) : l # base + i
       PROVE  /\ \A line : Follows(ledger, l, line) => Follows(ledger', l, line)
              /\ Untouched(ledger, l) => Untouched(ledger', l)
  <2>1. NetIn(ledger', LineRows(l)) = NetIn(ledger, LineRows(l))
    BY <1>4, <1>12, <1>13 DEF LineRows
  <2>2. \A product : NetIn(ledger', ProductRows(l, product)) = NetIn(ledger, ProductRows(l, product))
    BY <1>4, <1>12, <1>13 DEF ProductRows
  <2> QED
    BY <2>1, <2>2 DEF Follows, Untouched
<1>14. ASSUME NEW j \in 1..Len(terms)
       PROVE  Follows(ledger', base + j, more[j])
  <2>1. Untouched(ledger, base + j)
    <3>1. base + j \in Nat \ (1..base)
      BY <1>1
    <3> QED
      BY <1>1, <3>1 DEF Agree
  <2>2. \A i \in 1..Len(terms) : base + i = base + j <=> i = j
    BY <1>1
  <2>3. moves[j].qty \in Int /\ moves[j].aed \in Int
    BY <1>6 DEF Rows
  <2>4. Plus(NoStock, [qty |-> moves[j].qty, aed |-> moves[j].aed]) =
          [qty |-> moves[j].qty, aed |-> moves[j].aed]
    BY <2>3 DEF Plus, NoStock
  <2>5. \A i \in 1..Len(terms) : moves[i] \in LineRows(base + j) <=> i = j
    BY <1>4, <1>6, <2>2 DEF LineRows
  <2>6. NetIn(ledger', LineRows(base + j)) = [qty |-> moves[j].qty, aed |-> moves[j].aed]
    <3>1. NetIn(moves, LineRows(base + j)) = [qty |-> moves[j].qty, aed |-> moves[j].aed]
      BY <1>3, <1>5, <2>5, NetInOne
    <3> QED
      BY <1>11, <2>1, <2>4, <3>1 DEF Untouched
  <2>7. ASSUME NEW product \in Products
        PROVE  NetIn(ledger', ProductRows(base + j, product)) =
                 IF product = moves[j].product
                 THEN [qty |-> moves[j].qty, aed |-> moves[j].aed] ELSE NoStock
    <3>1. CASE product = moves[j].product
      <4>1. \A i \in 1..Len(terms) : moves[i] \in ProductRows(base + j, product) <=> i = j
        BY <1>4, <1>6, <2>2, <3>1 DEF ProductRows
      <4>2. NetIn(moves, ProductRows(base + j, product)) =
              [qty |-> moves[j].qty, aed |-> moves[j].aed]
        BY <1>3, <1>5, <4>1, NetInOne
      <4> QED
        BY <1>11, <2>1, <2>4, <3>1, <4>2 DEF Untouched
    <3>2. CASE product # moves[j].product
      <4>1. \A i \in 1..Len(terms) : moves[i] \notin ProductRows(base + j, product)
        BY <1>4, <2>2, <3>2 DEF ProductRows
      <4> QED
        BY <1>12, <2>1, <3>2, <4>1 DEF Untouched
    <3> QED
      BY <3>1, <3>2
  <2>8. /\ moves[j].product = more[j].product /\ moves[j].qty = -more[j].quantity
        /\ moves[j].aed <= 0 /\ ~more[j].is_deleted
    BY <1>4, <1>6, <1>7
  <2> QED
    BY <2>6, <2>7, <2>8 DEF Follows
<1>15. Agree(ledger', saleLines')
  <2>1. ASSUME NEW l \in DOMAIN saleLines' PROVE Follows(ledger', l, saleLines'[l])
    <3>1. l \in Nat /\ l <= base + Len(terms) /\ l >= 1
      BY <1>1, <1>10
    <3>2. CASE l <= base
      <4>1. l \in 1..base /\ \A i \in 1..Len(terms) : l # base + i
        BY <1>1, <3>1, <3>2
      <4> QED
        BY <1>1, <1>10, <1>13, <3>1, <4>1 DEF Agree
    <3>3. CASE l > base
      <4>1. PICK j \in 1..Len(terms) : l = base + j
        <5>1. l - base \in 1..Len(terms) /\ l = base + (l - base)
          BY <1>1, <3>1, <3>3
        <5> QED
          BY <5>1
      <4> QED
        BY <1>10, <1>14, <4>1
    <3>4. l <= base \/ l > base
      BY <1>1, <3>1
    <3> QED
      BY <3>2, <3>3, <3>4
  <2>2. ASSUME NEW l \in Nat \ DOMAIN saleLines' PROVE Untouched(ledger', l)
    <3>1. l \notin 1..base /\ \A i \in 1..Len(terms) : l # base + i
      BY <1>1, <1>10
    <3> QED
      BY <1>1, <1>13, <3>1 DEF Agree
  <2> QED
    BY <2>1, <2>2 DEF Agree
<1> QED
  BY <1>5, <1>9, <1>10, <1>15 DEF Inv

\* A new sale's lines leave exact stocks exact: each draws on the pool it finds.
LEMMA CreateExact ==
    ASSUME Inv, PoolsExact, NEW loc, NEW terms \in Seq(SaleTerms),
           CreateSale(loc, terms, FALSE)
    PROVE  PoolsExact'
<1> DEFINE s     == Len(sales) + 1
           base  == Len(saleLines)
           pools == PoolsInTurn(PoolsAt(loc), terms)
           moves == [i \in DOMAIN terms |->
                        SaleMove(s, loc, base + i, terms[i].product, -terms[i].quantity,
                                 -ShareInTurn(PoolsAt(loc), terms, i))]
           T     == {n \in Nat : n <= Len(terms) =>
                        /\ pools[n] = PoolsAfter(SubSeq(moves, 1, n), loc)
                        /\ StaysExact(SubSeq(moves, 1, n))}
<1>1. Len(terms) \in Nat /\ DOMAIN terms = 1..Len(terms) /\ loc \in Locations
  BY SaleTermsAssumption DEF CreateSale
<1>2. Post(moves, FALSE) /\ moves \in Seq(Rows)
  BY PostFacts DEF CreateSale, Inv
<1>3. Len(moves) = Len(terms)
  BY <1>1
<1>4. ASSUME NEW n \in Nat, n + 1 <= Len(terms)
      PROVE  /\ moves[n + 1] \in Rows
             /\ moves[n + 1].bucket = "PHYSICAL" /\ moves[n + 1].loc = loc
             /\ moves[n + 1].product = terms[n + 1].product
             /\ moves[n + 1].qty = -terms[n + 1].quantity
             /\ moves[n + 1].aed =
                   -CarryingShare(terms[n + 1].quantity, pools[n][terms[n + 1].product])
             /\ terms[n + 1].quantity \in Nat \ {0} /\ terms[n + 1].product \in Products
  <2>1. n + 1 \in 1..Len(terms) /\ (n + 1) - 1 = n
    BY <1>1, <1>4
  <2>2. moves[n + 1] \in Rows
    BY <1>2, <1>3, <2>1
  <2>3. terms[n + 1] \in SaleTerms
    BY <1>1, <2>1
  <2>4. moves[n + 1] = SaleMove(s, loc, base + (n + 1), terms[n + 1].product,
                                -terms[n + 1].quantity,
                                -ShareInTurn(PoolsAt(loc), terms, n + 1))
    BY <1>1, <2>1
  <2>5. ShareInTurn(PoolsAt(loc), terms, n + 1) =
          CarryingShare(terms[n + 1].quantity, pools[n][terms[n + 1].product])
    BY <2>1 DEF ShareInTurn
  <2> HIDE DEF moves, pools
  <2>6. /\ moves[n + 1].bucket = "PHYSICAL" /\ moves[n + 1].loc = loc
        /\ moves[n + 1].product = terms[n + 1].product
        /\ moves[n + 1].qty = -terms[n + 1].quantity
        /\ moves[n + 1].aed = -ShareInTurn(PoolsAt(loc), terms, n + 1)
    BY <2>4 DEF SaleMove, StockMove
  <2> QED
    BY <2>2, <2>3, <2>5, <2>6, SaleTermsAssumption DEF SaleTerms
<1> HIDE DEF moves
<1>5. \A n \in 0..Len(terms) :
         pools[n] = IF n = 0 THEN PoolsAt(loc)
                    ELSE Taken(pools[n - 1], terms[n].product, terms[n].quantity)
  BY <1>1, PoolsInTurnEquation
<1> HIDE DEF pools
<1>6. 0 \in T
  <2>1. SubSeq(moves, 1, 0) = << >> /\ pools[0] = PoolsAt(loc)
    BY <1>1, <1>2, <1>5
  <2>2. PoolsAt(loc) = PoolsAfter(<< >>, loc)
    BY <1>1, BalancesTyped, NothingAfter
  <2>3. StaysExact(<< >>)
    BY BalancesTyped, NothingAfter DEF StaysExact, PoolsExact
  <2> QED
    BY <2>1, <2>2, <2>3
<1>7. ASSUME NEW n \in Nat, n \in T PROVE n + 1 \in T
  <2>1. SUFFICES ASSUME n + 1 <= Len(terms)
                 PROVE  /\ pools[n + 1] = PoolsAfter(SubSeq(moves, 1, n + 1), loc)
                        /\ StaysExact(SubSeq(moves, 1, n + 1))
    OBVIOUS
  <2>2. PICK before \in Seq(Rows) : before = SubSeq(moves, 1, n)
    <3>1. \A i \in 1..n : moves[i] \in Rows
      BY <1>1, <1>2, <1>3, <2>1
    <3>2. SubSeq(moves, 1, n) \in Seq(Rows)
      BY <3>1
    <3> QED
      BY <3>2
  <2>3. PICK m \in Rows : m = moves[n + 1]
    BY <1>4, <2>1
  <2>4. SubSeq(moves, 1, n + 1) = before \o << m >>
    BY <1>2, <1>3, <2>1, <2>2, <2>3
  <2>5. pools[n] = PoolsAfter(before, loc) /\ StaysExact(before)
    BY <1>1, <1>7, <2>1, <2>2
  <2>6. PICK q \in Nat \ {0} : q = terms[n + 1].quantity
    BY <1>4, <2>1
  <2>7. /\ m.bucket = "PHYSICAL" /\ m.loc = loc /\ m.product = terms[n + 1].product
        /\ m.product \in Products /\ m.qty = -q
        /\ m.aed = -CarryingShare(q, PoolsAfter(before, m.loc)[m.product])
    BY <1>4, <2>1, <2>3, <2>5, <2>6
  <2>8. pools[n + 1] = Taken(pools[n], m.product, q)
    <3>1. n + 1 \in 0..Len(terms) /\ n + 1 # 0 /\ (n + 1) - 1 = n
      BY <1>1, <2>1
    <3> QED
      BY <1>5, <2>6, <2>7, <3>1
  <2>9. Taken(PoolsAfter(before, m.loc), m.product, q) = PoolsAfter(before \o << m >>, m.loc)
    BY <2>7, BalancesTyped, TakenFollows
  <2>10. StaysExact(before \o << m >>)
    <3>1. PoolsAfter(before, m.loc)[m.product] = BalanceAfter(before, KeyOf(m))
      BY <2>7 DEF PoolsAfter, KeyOf
    <3> QED
      BY <2>5, <2>7, <3>1, BalancesTyped, TakeOutExact
  <2> QED
    BY <2>4, <2>5, <2>7, <2>8, <2>9, <2>10
<1> HIDE DEF T
<1>8. \A n \in Nat : n \in T
  BY <1>6, <1>7, NatSetInduction
<1>9. StaysExact(moves)
  <2>1. StaysExact(SubSeq(moves, 1, Len(terms)))
    BY <1>1, <1>8 DEF T
  <2>2. SubSeq(moves, 1, Len(terms)) = moves
    BY <1>2, <1>3
  <2> QED
    BY <2>1, <2>2
<1> QED
  BY <1>2, <1>9, PostExact

-----------------------------------------------------------------------------
(* The other apps *)

\* The other apps post whatever they like, but never in the name of a sale.
OthersPost ==
    \E moves \in Seq(Rows), confirm \in BOOLEAN :
        /\ \A i \in DOMAIN moves : moves[i].stype # "SALE"
        /\ Post(moves, confirm)
        /\ UNCHANGED saleVars

\* Sales among other apps.
OpenSpec == Init /\ [][Next \/ OthersPost]_vars

\* What the others post makes no difference to any line.
LEMMA OthersStep ==
    ASSUME Inv, OthersPost
    PROVE  Inv'
<1>1. PICK moves \in Seq(Rows), confirm \in BOOLEAN :
         /\ \A i \in DOMAIN moves : moves[i].stype # "SALE"
         /\ Post(moves, confirm)
         /\ UNCHANGED saleVars
  BY DEF OthersPost
<1>2. Sound(Book)' /\ ledger' = ledger \o moves /\ ledger \in Seq(Rows)
  BY <1>1, PostSound, PostFacts DEF Inv, Sound, Book
<1>3. ASSUME NEW S, \A row \in S : row.stype = "SALE"
      PROVE  NetIn(ledger', S) = NetIn(ledger, S)
  <2>1. \A i \in 1..Len(moves) : moves[i] \notin S
    BY <1>1, <1>3
  <2>2. NetIn(moves, S) = NoStock
    BY <2>1, NetInNone
  <2>3. NetIn(ledger', S) = Plus(NetIn(ledger, S), NetIn(moves, S))
    BY <1>2, NetInConcat
  <2> QED
    BY <1>2, <2>2, <2>3, NetInType DEF Plus, NoStock
<1>4. \A l : NetIn(ledger', LineRows(l)) = NetIn(ledger, LineRows(l))
  <2>1. \A l : \A row \in LineRows(l) : row.stype = "SALE"
    BY DEF LineRows
  <2> QED
    BY <1>3, <2>1
<1>5. \A l, product :
         NetIn(ledger', ProductRows(l, product)) = NetIn(ledger, ProductRows(l, product))
  <2>1. \A l, product : \A row \in ProductRows(l, product) : row.stype = "SALE"
    BY DEF ProductRows
  <2> QED
    BY <1>3, <2>1
<1>6. sales' = sales /\ saleLines' = saleLines
  BY <1>1 DEF saleVars
<1> QED
  BY <1>2, <1>4, <1>5, <1>6 DEF Inv, Agree, Follows, Untouched

-----------------------------------------------------------------------------
(* The theorems *)

\* Nothing has been sold and nothing posted.
LEMMA InitInv == Init => Inv
<1>1. SUFFICES ASSUME Init PROVE Inv
  OBVIOUS
<1>2. ledger = << >> /\ sales = << >> /\ saleLines = << >>
  BY <1>1 DEF Init, LedgerInit
<1>3. Sound(Book)
  BY <1>1, EmptySound DEF Init, LedgerInit, Book
<1>4. \A l : Untouched(ledger, l)
  BY <1>2, NetInEmpty DEF Untouched
<1> QED
  BY <1>2, <1>3, <1>4 DEF Inv, Agree

\* A request is a sequence of items.
LEMMA RequestsAreSeqs ==
    ASSUME NEW items, NEW request \in Requests(items)
    PROVE  request \in Seq(items)
BY DEF Requests

\* Every step keeps the invariant, as long as no request names a line twice.
LEMMA StepInv == ~RepeatedLines /\ Inv /\ [Next \/ OthersPost]_vars => Inv'
<1>1. SUFFICES ASSUME ~RepeatedLines, Inv, [Next \/ OthersPost]_vars PROVE Inv'
  OBVIOUS
<1>2. CASE Create
  BY <1>1, <1>2, CreateStep, RequestsAreSeqs DEF Create
<1>3. CASE Update
  BY <1>1, <1>3, UpdateStep, RequestsAreSeqs DEF Update
<1>4. CASE Delete
  BY <1>1, <1>4, DeleteStep DEF Delete
<1>5. CASE OthersPost
  BY <1>1, <1>5, OthersStep
<1>6. CASE UNCHANGED vars
  BY <1>1, <1>6 DEF vars, saleVars, Inv, Sound, Book, Agree, Follows, Untouched
<1> QED
  BY <1>1, <1>2, <1>3, <1>4, <1>5, <1>6 DEF Next

\* The other apps, as long as what they post leaves exact stocks exact, as a
\* delivery does.
OthersKeep == OthersPost /\ (PoolsExact => PoolsExact')

\* No step that nobody confirmed makes a stock inexact.
LEMMA StepExact ==
    ~RepeatedLines /\ Confirms \subseteq {FALSE}
        => (Inv /\ PoolsExact /\ [Next \/ OthersKeep]_vars => PoolsExact')
<1>1. SUFFICES ASSUME ~RepeatedLines, Confirms \subseteq {FALSE},
                      Inv, PoolsExact, [Next \/ OthersKeep]_vars
               PROVE  PoolsExact'
  OBVIOUS
<1>2. CASE Create
  <2>1. PICK loc \in SalesLocations, terms \in Requests(SaleTerms), confirm \in Confirms :
           CreateSale(loc, terms, confirm)
    BY <1>2 DEF Create
  <2>2. CreateSale(loc, terms, FALSE) /\ terms \in Seq(SaleTerms)
    BY <1>1, <2>1, RequestsAreSeqs
  <2> QED
    BY <1>1, <2>2, CreateExact
<1>3. CASE Update
  BY <1>1, <1>3, UpdateStep, RequestsAreSeqs DEF Update
<1>4. CASE Delete
  BY <1>1, <1>4, DeleteStep DEF Delete
<1>5. CASE OthersKeep
  BY <1>1, <1>5 DEF OthersKeep
<1>6. CASE UNCHANGED vars
  BY <1>1, <1>6 DEF vars, PoolsExact
<1> QED
  BY <1>1, <1>2, <1>3, <1>4, <1>5, <1>6 DEF Next

\* The invariant says what the ledger holds for each line.
LEMMA InvMeansSold == Inv => SoldMatchesRecords
<1>1. SUFFICES ASSUME Inv, NEW l \in DOMAIN saleLines, NEW product \in Products
               PROVE  LET line == saleLines[l]
                      IN  IF line.is_deleted \/ product # line.product
                          THEN LineStock(l, product) = [qty |-> 0, aed |-> 0]
                          ELSE LineStock(l, product).qty = -line.quantity
  BY DEF SoldMatchesRecords
<1>2. LineStock(l, product) = NetIn(ledger, ProductRows(l, product))
  BY <1>1, SumsOfSets DEF Inv, Sound, Book
<1>3. Follows(ledger, l, saleLines[l])
  BY <1>1 DEF Inv, Agree
<1> QED
  BY <1>2, <1>3 DEF Follows, NoStock

\* The invariant has the types.
LEMMA InvMeansTypeOK == Inv => TypeOK
<1>1. Inv => LedgerTypeOK
  BY RollupType DEF Inv, Sound, Book, LedgerTypeOK
<1>2. Inv => DOMAIN sales = 1..Len(sales)
  BY DEF Inv
<1>3. Inv => sales \in Seq(SaleRecords) /\ saleLines \in Seq(Lines(Len(sales)))
  BY DEF Inv
<1> QED
  BY <1>1, <1>2, <1>3 DEF TypeOK, SaleRecords, Lines

\* Among whatever other apps post, and as long as no request names a line twice,
\* the ledger holds of every line exactly the quantity its record says was sold, of
\* that product and no other, and of a removed line nothing, not a cent, through
\* every series of edits and deletions (update_sale, soft_delete_sale).
THEOREM SoldAmongOthers == ~RepeatedLines => (OpenSpec => []SoldMatchesRecords)
<1>1. SUFFICES ASSUME ~RepeatedLines PROVE OpenSpec => []SoldMatchesRecords
  OBVIOUS
<1>2. Inv /\ [Next \/ OthersPost]_vars => Inv'
  BY <1>1, StepInv
<1>3. OpenSpec => []Inv
  BY <1>2, InitInv, PTL DEF OpenSpec
<1> QED
  BY <1>3, InvMeansSold, PTL

\* In particular when only sales are made (update_sale, soft_delete_sale).
THEOREM LedgerFollowsSales == ~RepeatedLines => (Spec => []SoldMatchesRecords)
<1>1. SUFFICES ASSUME ~RepeatedLines PROVE Spec => []SoldMatchesRecords
  OBVIOUS
<1>2. Inv /\ [Next]_vars => Inv'
  BY <1>1, StepInv
<1>3. Spec => []Inv
  BY <1>2, InitInv, PTL DEF Spec
<1> QED
  BY <1>3, InvMeansSold, PTL

\* However sales are made, edited and deleted among other apps that leave exact
\* stocks exact, no line named twice and no shortage confirmed, the stock at every
\* location is covered by value and has none left once it is empty (CarryingPool).
THEOREM SalesKeepPools ==
    ~RepeatedLines /\ Confirms \subseteq {FALSE}
        => (Init /\ [][Next \/ OthersKeep]_vars => []SalesKeepPoolExact)
<1>1. SUFFICES ASSUME ~RepeatedLines, Confirms \subseteq {FALSE}
               PROVE  Init /\ [][Next \/ OthersKeep]_vars => []SalesKeepPoolExact
  OBVIOUS
<1>2. Init => Inv /\ PoolsExact
  BY InitInv DEF Init, LedgerInit, PoolsExact, Exact
<1>3. [Next \/ OthersKeep]_vars => [Next \/ OthersPost]_vars
  BY DEF OthersKeep
<1>4. (Inv /\ PoolsExact) /\ [Next \/ OthersKeep]_vars => (Inv /\ PoolsExact)'
  BY <1>1, <1>3, StepInv, StepExact
<1>5. Inv /\ PoolsExact => SalesKeepPoolExact
  BY DEF PoolsExact, Exact, SalesKeepPoolExact, PoolValueCovered, EmptyPoolHoldsNoValue
<1> QED
  BY <1>2, <1>4, <1>5, PTL

\* Sales, lines, rows and balances keep their types.
THEOREM SalesTyped == ~RepeatedLines => (Spec => []TypeOK)
<1>1. SUFFICES ASSUME ~RepeatedLines PROVE Spec => []TypeOK
  OBVIOUS
<1>2. Inv /\ [Next]_vars => Inv'
  BY <1>1, StepInv
<1>3. Spec => []Inv
  BY <1>2, InitInv, PTL DEF Spec
<1> QED
  BY <1>3, InvMeansTypeOK, PTL
=============================================================================
