------------------------------- MODULE Sales -------------------------------
(***************************************************************************)
(* Sales (apps/sales/services.py): a sale takes stock out of PHYSICAL at   *)
(* its location, valued at the carrying average; an edit puts a changed    *)
(* line back and takes it anew; a delete puts everything back.             *)
(*                                                                         *)
(* Every operation is one transaction under the stock lock, hence one      *)
(* action; a disabled action is a refused request, which rolls back.  The  *)
(* optional sale price, the customer and the notes never touch stock and   *)
(* are left out.                                                           *)
(***************************************************************************)
EXTENDS Carrying

CONSTANTS SalesLocations,     \* the active locations that may sell
          Quantities,         \* the quantities users enter
          Confirms,           \* the values of confirm_negative users send
          RepeatedLines,      \* may one edit name a line twice?
          MaxPayload,         \* bound: lines in one request
          MaxSales, MaxLines  \* bounds on records

\* "Sale quantity must be positive" (_validate_lines); a sale is at a location.
ASSUME SaleTermsAssumption ==
    Quantities \subseteq Nat \ {0} /\ SalesLocations \subseteq Locations

VARIABLES sales,              \* Sale: Seq([location, is_deleted])
          saleLines           \* SaleLine: Seq([sale, product, quantity, is_deleted])

saleVars == <<sales, saleLines>>
vars == <<ledger, balance, saleVars>>

SaleTerms == [product: Products, quantity: Quantities]

\* Mutant of NewSaleLine: the line goes to the sale saved last.
LineOfLatest(s, terms) ==
    [sale |-> Len(sales), product |-> terms.product, quantity |-> terms.quantity,
     is_deleted |-> FALSE]

\* The new SaleLine of sale s.
NewSaleLine(s, terms) ==
    [sale |-> s, product |-> terms.product, quantity |-> terms.quantity,
     is_deleted |-> FALSE]

SaleMove(s, loc, l, product, qty, aed) ==
    StockMove("SALE", s, l, product, loc, "PHYSICAL", qty, aed)

LinesOf(s) == {l \in DOMAIN saleLines : saleLines[l].sale = s /\ ~saleLines[l].is_deleted}

\* _line_net_posted: what the line has taken out, per the ledger.
NetPosted(l) ==
    LET net == Net(ledger, LAMBDA row : /\ row.stype = "SALE" /\ row.line = l
                                        /\ row.bucket = "PHYSICAL")
    IN  [qty |-> -net.qty, aed |-> -net.aed]

\* A reversal restores what the line has taken, of the product it took; a line
\* that took nothing needs none.
Restore(s, l, product) ==
    LET out == NetPosted(l)
    IN  IF out.qty > 0
        THEN << SaleMove(s, sales[s].location, l, product, out.qty,
                         IF out.aed > 0 THEN out.aed ELSE 0) >>
        ELSE << >>

CreateSale(loc, terms, confirm) ==
    LET s    == Len(sales) + 1
        base == Len(saleLines)
    IN  /\ s <= MaxSales
        /\ base + Len(terms) <= MaxLines
        /\ loc \in SalesLocations
        /\ Post([i \in DOMAIN terms |->
                    SaleMove(s, loc, base + i, terms[i].product, -terms[i].quantity,
                             -ShareInTurn(PoolsAt(loc), terms, i))],
                confirm)
        /\ sales' = Append(sales, [location |-> loc, is_deleted |-> FALSE])
        /\ saleLines' = saleLines \o [i \in DOMAIN terms |-> NewSaleLine(s, terms[i])]

-----------------------------------------------------------------------------
(* Editing.  The edit in progress: the lines so far, the running pools, and   *)
(* the movements to post at the end.                                          *)

\* A line takes its stock from the running pool.
TakeLine(edit, s, l) ==
    LET line == edit.lines[l]
        aed  == CarryingShare(line.quantity, edit.pools[line.product])
    IN  [edit EXCEPT
            !.pools = Taken(@, line.product, line.quantity),
            !.moves = Append(@, SaleMove(s, sales[s].location, l, line.product,
                                         -line.quantity, -aed))]

\* A reversal, if there is one, is credited to the running pool before the fresh
\* row draws from it.
GiveBack(edit, moves) ==
    IF moves = << >> THEN edit
    ELSE LET m == Head(moves)
         IN  [edit EXCEPT !.moves = @ \o moves,
                          !.pools = Given(@, m.product, m.qty, m.aed)]

AddLine(edit, s, terms) ==
    LET l == Len(edit.lines) + 1
    IN  TakeLine([edit EXCEPT !.lines = Append(@, NewSaleLine(s, terms))], s, l)

\* Mutant of OldProduct: the reversal names the product the line has now.
NewProduct(edit, l, terms) == terms.product

\* The reversal restores the product the line had before the request.
OldProduct(edit, l, terms) == edit.lines[l].product

\* A kept line: nothing is posted unless its product or quantity changed.
ChangeLine(edit, s, l, terms) ==
    LET old == edit.lines[l]
        new == [old EXCEPT !.product = terms.product, !.quantity = terms.quantity]
        returned == GiveBack(edit, Restore(s, l, OldProduct(edit, l, terms)))
    IN  IF new = old THEN edit
        ELSE TakeLine([returned EXCEPT !.lines = [edit.lines EXCEPT ![l] = new]], s, l)

\* One item of the request: id 0 stands for "no id".  A line of another sale, or
\* a removed one, is refused.
EditItem(edit, s, item) ==
    CASE item.id = 0 -> AddLine(edit, s, item.terms)
      [] item.id \in LinesOf(s) -> ChangeLine(edit, s, item.id, item.terms)
      [] OTHER -> [edit EXCEPT !.ok = FALSE]

\* The edit after each of the first items of the request.
EditsInTurn(s, start, payload) ==
    LET edit[n \in 0..Len(payload)] ==
            IF n = 0 THEN start ELSE EditItem(edit[n - 1], s, payload[n])
    IN  edit

\* A line goes: what it has taken is put back, past the running pool.
RemoveLine(edit, s, l) ==
    [edit EXCEPT !.moves = @ \o Restore(s, l, saleLines[l].product),
                 !.lines = [@ EXCEPT ![l].is_deleted = TRUE]]

\* The edit after the lines that go, among the first n lines, are gone.
RemovalsInTurn(s, start, gone) ==
    LET edit[n \in 0..Len(saleLines)] ==
            IF n = 0 THEN start
            ELSE IF n \in gone THEN RemoveLine(edit[n - 1], s, n) ELSE edit[n - 1]
    IN  edit

StartEdit(s) ==
    [ok |-> TRUE, lines |-> saleLines, moves |-> << >>, pools |-> PoolsAt(sales[s].location)]

\* The lines a request leaves out are removed.
LeftOut(s, payload) == LinesOf(s) \ {payload[i].id : i \in DOMAIN payload}

UpdateSale(s, payload, confirm) ==
    LET edited == EditsInTurn(s, StartEdit(s), payload)[Len(payload)]
        final  == RemovalsInTurn(s, edited, LeftOut(s, payload))[Len(saleLines)]
    IN  /\ ~sales[s].is_deleted
        /\ payload # << >>
        /\ final.ok
        /\ Len(final.lines) <= MaxLines
        /\ IF final.moves = << >> THEN Install(Book) ELSE Post(final.moves, confirm)
        /\ saleLines' = final.lines
        /\ UNCHANGED sales

-----------------------------------------------------------------------------

\* Deleting asks for no confirmation: stock only comes back.
SoftDeleteSale(s) ==
    LET final == RemovalsInTurn(s, StartEdit(s), LinesOf(s))[Len(saleLines)]
    IN  /\ ~sales[s].is_deleted
        /\ IF final.moves = << >> THEN Install(Book) ELSE Post(final.moves, FALSE)
        /\ sales' = [sales EXCEPT ![s].is_deleted = TRUE]
        /\ saleLines' = final.lines

Init == LedgerInit /\ sales = << >> /\ saleLines = << >>

Requests(items) == UNION {[1..n -> items] : n \in 1..MaxPayload}

EditItems == [id: 0..Len(saleLines), terms: SaleTerms]

\* What the model's client keeps to where RepeatedLines is FALSE; no serializer asks it.
DistinctIds(payload) ==
    \A i, j \in DOMAIN payload : payload[i].id = payload[j].id /\ payload[i].id # 0 => i = j

Create ==
    \E loc \in SalesLocations, terms \in Requests(SaleTerms), confirm \in Confirms :
        CreateSale(loc, terms, confirm)

Update ==
    \E s \in DOMAIN sales, payload \in Requests(EditItems), confirm \in Confirms :
        /\ RepeatedLines \/ DistinctIds(payload)
        /\ UpdateSale(s, payload, confirm)

Delete == \E s \in DOMAIN sales : SoftDeleteSale(s)

Next == Create \/ Update \/ Delete

Spec == Init /\ [][Next]_vars

-----------------------------------------------------------------------------
(* Properties *)

\* Every record, row and balance has its type.
TypeOK ==
    /\ LedgerTypeOK
    /\ sales \in Seq([location: SalesLocations, is_deleted: BOOLEAN])
    /\ saleLines \in Seq([sale: DOMAIN sales, product: Products, quantity: Quantities,
                          is_deleted: BOOLEAN])

\* What a line has in PHYSICAL of a product, per the ledger.
LineStock(l, product) ==
    Net(ledger, LAMBDA row : row.stype = "SALE" /\ row.line = l /\ row.product = product)

\* Through every series of edits, what the ledger says a line has taken is what
\* its record says was sold, of that product and no other; a removed or deleted
\* line has put back all it took, to the last cent (update_sale, soft_delete_sale).
SoldMatchesRecords ==
    \A l \in DOMAIN saleLines, product \in Products :
        LET line == saleLines[l]
        IN  IF line.is_deleted \/ product # line.product
            THEN LineStock(l, product) = [qty |-> 0, aed |-> 0]
            ELSE LineStock(l, product).qty = -line.quantity

\* However the lines of a request share a pool and whatever is edited or deleted
\* later, sales take out no more value than there is and, when they leave no units
\* of a product, leave no value of it either: "empties the pool to exactly zero"
\* (CarryingPool).  Stated for stock that is not oversold.
SalesKeepPoolExact == PoolValueCovered /\ EmptyPoolHoldsNoValue
=============================================================================
