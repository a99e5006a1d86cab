----------------------------- MODULE Purchases -----------------------------
(***************************************************************************)
(* Purchases, their collections and refunds, and corrections of received   *)
(* lines (apps/purchases/services.py, corrections.py, models.py).          *)
(*                                                                         *)
(* Every operation is one database transaction under the stock lock, hence *)
(* one action.  A disabled action is a request the service refuses: a      *)
(* ValidationError, PostingError or NegativeStockError rolls everything    *)
(* back.  Ids are positions in the sequences of records; deleted records   *)
(* keep theirs (soft delete).                                              *)
(***************************************************************************)
EXTENDS StockLedger, Money

CONSTANTS Quantities,      \* the quantities users enter
          Prices,          \* unit prices; with Rates and RateScale they give
          Rates,           \*   total = quantity * price * rate / RateScale
          RateScale,
          Confirms,        \* the values of confirm_negative users send
          RepeatedLines,   \* may one collection or refund name a line twice?
          MaxPayload,      \* bound: lines in one request
          MaxPurchases, MaxLines, MaxCollections, MaxRefunds   \* bounds on records

ASSUME QuantitiesAssumption == Quantities \subseteq Nat \ {0}

\* A price is not negative (PurchaseLineSerializer.validate).  Nobody looks at the
\* sign of a rate, but a negative one gives a negative value, which no movement may
\* have (Movement.__post_init__).
ASSUME MoneyAssumption ==
    Prices \subseteq Nat /\ Rates \subseteq Nat /\ RateScale \in Nat \ {0}

VARIABLES purchases,       \* Purchase: Seq([location, is_deleted])
          lines,           \* PurchaseLine: what was ordered and at what price
          collections,     \* PurchaseCollection with its PurchaseCollectionLines
          refunds,         \* PurchaseRefund with its PurchaseRefundLines
          drafts           \* (product, location) of open draft shipment lines,
                           \*   owned by the shipments app and only read here

purchaseVars == <<purchases, lines, collections, refunds, drafts>>
vars == <<ledger, balance, purchaseVars>>

RefundSources == {"PENDING", "RECEIVED"}

PurchaseSources == {"PURCHASE", "PURCHASE_COLLECTION", "PURCHASE_REFUND"}

LineTerms == [product: Products, quantity: Quantities, price: Prices, rate: Rates]

\* freeze_line_values: the AED value of the whole line, frozen with its terms.
TotalValue(line) == RoundHalfUp(line.quantity * line.price * line.rate, RateScale)

-----------------------------------------------------------------------------
(* What the models compute from the records of a line *)

CollectedIn(c, l) ==
    SumOf(collections[c].lines, LAMBDA item : item.line = l, LAMBDA item : item.quantity)

CollectedQty(l) ==
    SumSeq([c \in DOMAIN collections |->
              IF collections[c].is_deleted THEN 0 ELSE CollectedIn(c, l)])

RefundSum(l, source) ==
    SumSeq([r \in DOMAIN refunds |->
              IF refunds[r].is_deleted THEN 0
              ELSE SumOf(refunds[r].lines,
                         LAMBDA item : item.line = l /\ item.source = source,
                         LAMBDA item : item.quantity)])

CancelledPendingQty(l) == RefundSum(l, "PENDING")

RefundedQty(l) == CancelledPendingQty(l) + RefundSum(l, "RECEIVED")

\* Mutant of PendingQty: cancelled units are forgotten.
UncollectedQty(lns, l) == lns[l].quantity - CollectedQty(l)

PendingQty(lns, l) == lns[l].quantity - CollectedQty(l) - CancelledPendingQty(l)

\* What the line still has in PENDING, and in PHYSICAL at a location, per the ledger.
OfLine(row, l, bucket) ==
    row.stype \in PurchaseSources /\ row.line = l /\ row.bucket = bucket

PendingRemainder(rows, l) == Net(rows, LAMBDA row : OfLine(row, l, "PENDING"))

PhysicalRemainder(rows, l, loc) ==
    Net(rows, LAMBDA row : OfLine(row, l, "PHYSICAL") /\ row.loc = loc)

\* Mutant of ShareOf: a rounded value per unit, times the units.
PerUnitShare(q, remainder) == q * RoundHalfUp(remainder.aed, remainder.qty)

ShareOf(q, remainder) == Share(q, remainder.qty, remainder.aed)

LineMove(stype, sid, l, product, loc, bucket, qty, aed) ==
    [stype |-> stype, sid |-> sid, line |-> l, product |-> product, loc |-> loc,
     bucket |-> bucket, qty |-> qty, aed |-> aed]

\* -PENDING at the purchase location for q units.
PendingOut(stype, sid, lns, l, q, aed) ==
    LineMove(stype, sid, l, lns[l].product, purchases[lns[l].purchase].location,
             "PENDING", -q, -aed)

\* What was asked of the line by the items of the request before the i-th.
AskedBefore(payload, i, Counts(_)) ==
    SumOf(SubSeq(payload, 1, i - 1),
          LAMBDA item : item.line = payload[i].line /\ Counts(item),
          LAMBDA item : item.quantity)

\* What the model's client keeps to where RepeatedLines is FALSE; no serializer asks it.
OneLineEach(payload) ==
    \A i, j \in DOMAIN payload : payload[i].line = payload[j].line => i = j

LinesOf(lns, p) == {l \in DOMAIN lns : lns[l].purchase = p /\ ~lns[l].is_deleted}

\* Several posts of one transaction: the book so far, or failed.
ThenPost(chain, moves) ==
    IF ~chain.ok \/ moves = << >> THEN chain
    ELSE [ok |-> CanPost(chain.book, moves, FALSE), book |-> Posted(chain.book, moves)]

-----------------------------------------------------------------------------
(* Collecting *)

\* The checks of collect_purchase.  An item sees the collection lines of the
\* items before it, but the ledger as it was before the request.
CanCollect(book, lns, p, payload) ==
    /\ payload # << >>
    /\ \A i \in DOMAIN payload :
          LET item == payload[i]
          IN  /\ lns[item.line].purchase = p
              /\ ~lns[item.line].is_deleted
              /\ item.quantity <= PendingQty(lns, item.line)
                                    - AskedBefore(payload, i, LAMBDA x : TRUE)
              /\ item.quantity <= PendingRemainder(book.ledger, item.line).qty

\* -PENDING at the purchase location, +PHYSICAL at the collection location.
CollectMoves(book, lns, c, at, loc, payload) ==
    FlattenSeq([i \in DOMAIN payload |->
        LET l   == payload[i].line
            q   == payload[i].quantity
            aed == ShareOf(q, PendingRemainder(book.ledger, l))
        IN  << LineMove("PURCHASE_COLLECTION", c, l, lns[l].product,
                        at, "PENDING", -q, -aed),
               LineMove("PURCHASE_COLLECTION", c, l, lns[l].product,
                        loc, "PHYSICAL", q, aed) >>])

\* Items of purchase p, pending at location `at`, go out of `book` to `loc`, in a
\* new collection.
Collect(book, lns, p, at, loc, payload) ==
    LET c     == Len(collections) + 1
        moves == CollectMoves(book, lns, c, at, loc, payload)
    IN  /\ c <= MaxCollections
        /\ CanCollect(book, lns, p, payload)
        /\ CanPost(book, moves, FALSE)
        /\ Install(Posted(book, moves))
        /\ collections' = Append(collections, [purchase |-> p, location |-> loc,
                                               is_deleted |-> FALSE, lines |-> payload])

CollectPurchase(p, loc, payload) ==
    /\ ~purchases[p].is_deleted
    /\ UNCHANGED <<purchases, lines, refunds, drafts>>
    /\ Collect(Book, lines, p, purchases[p].location, loc, payload)

-----------------------------------------------------------------------------
(* Entering *)

\* Mutant of NewLine: the line goes to the purchase saved last.
NewLineOfLatest(p, terms) ==
    [purchase |-> Len(purchases), product |-> terms.product, quantity |-> terms.quantity,
     price |-> terms.price, rate |-> terms.rate, is_deleted |-> FALSE]

\* The new PurchaseLine of purchase p for the terms a request gives.
NewLine(p, terms) ==
    [purchase |-> p, product |-> terms.product, quantity |-> terms.quantity,
     price |-> terms.price, rate |-> terms.rate, is_deleted |-> FALSE]

\* +PENDING at the purchase location.
EntryMove(p, loc, l, line, q, aed) ==
    LineMove("PURCHASE", p, l, line.product, loc, "PENDING", q, aed)

\* create_purchase: lines enter PENDING in one event; quantities entered as
\* collected are then collected at the purchase location in a second event.
CreatePurchase(loc, terms, collected) ==
    LET p       == Len(purchases) + 1
        base    == Len(lines)
        new     == [i \in DOMAIN terms |-> NewLine(p, terms[i])]
        entry   == [i \in DOMAIN terms |->
                      EntryMove(p, loc, base + i, new[i], new[i].quantity, TotalValue(new[i]))]
        items   == [i \in DOMAIN terms |-> [line |-> base + i, quantity |-> collected[i]]]
        initial == Kept(items, {i \in DOMAIN items : items[i].quantity > 0})
    IN  /\ p <= MaxPurchases
        /\ base + Len(terms) <= MaxLines
        /\ \A i \in DOMAIN terms : collected[i] <= terms[i].quantity
        /\ CanPost(Book, entry, FALSE)
        /\ purchases' = Append(purchases, [location |-> loc, is_deleted |-> FALSE])
        /\ lines' = lines \o new
        /\ IF initial = << >>
           THEN Install(Posted(Book, entry)) /\ UNCHANGED collections
           ELSE Collect(Posted(Book, entry), lines \o new, p, loc, loc, initial)
        /\ UNCHANGED <<refunds, drafts>>

-----------------------------------------------------------------------------
(* Refunds and cancellations *)

\* The checks of create_refund.  Cancelling sees the refund lines of the items
\* before it; a received refund is only checked against the ledger.
CanRefund(p, payload) ==
    /\ payload # << >>
    /\ \A i \in DOMAIN payload :
          LET item == payload[i]
          IN  /\ lines[item.line].purchase = p
              /\ ~lines[item.line].is_deleted
              /\ item.source = "PENDING" =>
                    /\ item.quantity <= PendingQty(lines, item.line)
                          - AskedBefore(payload, i, LAMBDA x : x.source = "PENDING")
                    /\ item.quantity <= PendingRemainder(ledger, item.line).qty
              /\ item.source = "RECEIVED" =>
                    item.quantity <= PhysicalRemainder(ledger, item.line, item.location).qty

\* -PENDING at the purchase location, or -PHYSICAL where the stock is returned.
RefundMove(r, item) ==
    LET l   == item.line
        aed == ShareOf(item.quantity,
                       IF item.source = "PENDING" THEN PendingRemainder(ledger, l)
                       ELSE PhysicalRemainder(ledger, l, item.location))
    IN  IF item.source = "PENDING"
        THEN PendingOut("PURCHASE_REFUND", r, lines, l, item.quantity, aed)
        ELSE LineMove("PURCHASE_REFUND", r, l, lines[l].product, item.location,
                      "PHYSICAL", -item.quantity, -aed)

CreateRefund(p, payload, confirm) ==
    LET r == Len(refunds) + 1
    IN  /\ r <= MaxRefunds
        /\ ~purchases[p].is_deleted
        /\ CanRefund(p, payload)
        /\ Post([i \in DOMAIN payload |-> RefundMove(r, payload[i])], confirm)
        /\ refunds' = Append(refunds, [purchase |-> p, is_deleted |-> FALSE,
                                       lines |-> payload])
        /\ UNCHANGED <<purchases, lines, collections, drafts>>

\* Mutant of DeleteRefund: the refund is marked, its rows are not reversed.
ForgetRefund(r, confirm) ==
    /\ ~refunds[r].is_deleted
    /\ refunds' = [refunds EXCEPT ![r].is_deleted = TRUE]
    /\ UNCHANGED <<ledger, balance, purchases, lines, collections, drafts>>

\* delete_refund: the rows of the refund are reversed one by one.
DeleteRefund(r, confirm) ==
    /\ ~refunds[r].is_deleted
    /\ Post(ReversalMovements(SourceRows(ledger, "PURCHASE_REFUND", r)), confirm)
    /\ refunds' = [refunds EXCEPT ![r].is_deleted = TRUE]
    /\ UNCHANGED <<purchases, lines, collections, drafts>>

\* delete_collection: the current contribution of the collection is undone; a
\* collection whose lines were all corrected away has none left.
DeleteCollection(c, confirm) ==
    LET rows  == SourceRows(ledger, "PURCHASE_COLLECTION", c)
        moves == NetReversalMovements(rows)
    IN  /\ ~collections[c].is_deleted
        /\ NetReversible(rows)
        /\ IF moves = << >> THEN Install(Book) ELSE Post(moves, confirm)
        /\ collections' = [collections EXCEPT ![c].is_deleted = TRUE]
        /\ UNCHANGED <<purchases, lines, refunds, drafts>>

-----------------------------------------------------------------------------
(* Corrections of received lines: corrections.py *)

\* The live collections that took units of the line, and where they put them.
CollectionsOf(l) ==
    {c \in DOMAIN collections :
        ~collections[c].is_deleted /\ \E i \in DOMAIN collections[c].lines :
                                         collections[c].lines[i].line = l}

CollectionLocations(l) == {collections[c].location : c \in CollectionsOf(l)}

\* The rows that brought the line's product into PHYSICAL.
ReceivingRows(rows, l, product) ==
    {i \in DOMAIN rows : /\ rows[i].stype = "PURCHASE_COLLECTION"
                         /\ rows[i].line = l
                         /\ rows[i].product = product
                         /\ rows[i].bucket = "PHYSICAL"
                         /\ rows[i].qty > 0}

Dependencies == {"SALE", "SHIPMENT", "SHIPMENT_RECEIPT", "STOCK_ADJUSTMENT",
                 "PURCHASE_REFUND"}

\* Activity on the pooled stock of the line since its first collection.
Depended(rows, l, product) ==
    \E i \in DOMAIN rows :
        /\ rows[i].product = product
        /\ rows[i].loc \in CollectionLocations(l)
        /\ rows[i].stype \in Dependencies
        /\ \E first \in ReceivingRows(rows, l, product) : first < i

\* Mutant of StillHeld: the pooled balance is not looked at.
HeldByLine(book, l, product) ==
    Net(book.ledger, LAMBDA row : OfLine(row, l, "PHYSICAL")).qty = CollectedQty(l)

\* What the line received is still there, and so is its value.
StillHeld(book, l, product) ==
    LET held(loc) == PhysicalRemainder(book.ledger, l, loc)
    IN  /\ Net(book.ledger, LAMBDA row : OfLine(row, l, "PHYSICAL")).qty = CollectedQty(l)
        /\ \A loc \in Locations :
              /\ held(loc).qty >= 0 /\ held(loc).aed >= 0
              /\ held(loc).qty = 0 => held(loc).aed = 0
              /\ held(loc).qty # 0 =>
                    LET pool == book.balance[<<product, loc, "PHYSICAL">>]
                    IN  pool.qty >= held(loc).qty /\ pool.aed >= held(loc).aed

\* correction_block_reason is empty.
MayCorrect(book, lns, l) ==
    /\ ~lns[l].is_deleted
    /\ RefundedQty(l) = 0
    /\ CollectedQty(l) # 0 =>
          /\ ReceivingRows(book.ledger, l, lns[l].product) # {}
          /\ ~Depended(book.ledger, l, lns[l].product)
          /\ \A loc \in CollectionLocations(l) : <<lns[l].product, loc>> \notin drafts
          /\ StillHeld(book, l, lns[l].product)

\* The rows of the line in one business record.
LineRows(rows, stype, sid, l) ==
    Kept(rows, {i \in DOMAIN rows : /\ rows[i].stype = stype
                                    /\ rows[i].sid = sid
                                    /\ rows[i].line = l})

\* _reverse_source: undo what the line contributed to one record.
ReverseSource(chain, stype, sid, l) ==
    LET rows == LineRows(chain.book.ledger, stype, sid, l)
    IN  ThenPost([chain EXCEPT !.ok = chain.ok /\ NetReversible(rows)],
                 NetReversalMovements(rows))

\* The chain after what the first collections took of the line is reversed.
ReversedInTurn(book, l) ==
    LET chain[n \in 0..Len(collections)] ==
            IF n = 0 THEN [ok |-> TRUE, book |-> book]
            ELSE IF n \in CollectionsOf(l)
                 THEN ReverseSource(chain[n - 1], "PURCHASE_COLLECTION", n, l)
                 ELSE chain[n - 1]
    IN  chain

\* The book once the collections of the line and its entry are reversed.
ReverseLine(book, p, l) ==
    ReverseSource(ReversedInTurn(book, l)[Len(collections)], "PURCHASE", p, l)

\* Mutant of PlaceOf: where the purchase was entered.
EntryPlaceOf(c) == purchases[collections[c].purchase].location

\* Where a collection put its units.
PlaceOf(c) == collections[c].location

\* Replay q units that collection c took, at the corrected product and cost.
ReplayItem(chain, lns, l, c, q) ==
    LET at    == purchases[lns[l].purchase].location
        moves == CollectMoves(chain.book, lns, c, at, PlaceOf(c),
                              << [line |-> l, quantity |-> q] >>)
    IN  IF q > PendingRemainder(chain.book.ledger, l).qty THEN [chain EXCEPT !.ok = FALSE]
        ELSE ThenPost(chain, moves)

\* The chain after the line's items among the first of collection c.
ItemsReplayed(start, lns, l, c) ==
    LET items == collections[c].lines
        chain[n \in 0..Len(items)] ==
            IF n = 0 THEN start
            ELSE IF items[n].line = l
                 THEN ReplayItem(chain[n - 1], lns, l, c, items[n].quantity)
                 ELSE chain[n - 1]
    IN  chain

\* The chain after the first collections of the line, oldest first.
ReplayedInTurn(start, lns, l) ==
    LET chain[n \in 0..Len(collections)] ==
            IF n = 0 THEN start
            ELSE IF n \in CollectionsOf(l)
                 THEN ItemsReplayed(chain[n - 1], lns, l, n)[Len(collections[n].lines)]
                 ELSE chain[n - 1]
    IN  chain

\* correct_received_line for changed terms: reverse, enter afresh, replay.
CorrectLine(book, lns, l) ==
    LET p     == lns[l].purchase
        entry == << EntryMove(p, purchases[p].location, l, lns[l],
                              lns[l].quantity, TotalValue(lns[l])) >>
    IN  ReplayedInTurn(ThenPost(ReverseLine(book, p, l), entry), lns, l)[Len(collections)]

-----------------------------------------------------------------------------
(* Editing: update_purchase.  The request names the lines to keep, each with   *)
(* its terms; lines it leaves out are removed, items without an id are added.  *)
(* An edit carries the book (corrections post at once), the lines, and the     *)
(* movements posted together at the end.                                       *)

Refuse(edit) == [edit EXCEPT !.ok = FALSE]

AddLine(edit, p, terms) ==
    LET l    == Len(edit.lines) + 1
        line == NewLine(p, terms)
    IN  [edit EXCEPT
            !.lines = Append(@, line),
            !.moves = Append(@, EntryMove(p, purchases[p].location, l, line,
                                          line.quantity, TotalValue(line)))]

\* What is left of the line's pending stock, out.
PendingReversal(book, lns, l) ==
    LET rest == PendingRemainder(book.ledger, l)
    IN  IF rest.qty > 0
        THEN << PendingOut("PURCHASE", lns[l].purchase, lns, l, rest.qty, rest.aed) >>
        ELSE << >>

\* Mutant of FreshValue: a partly collected line enters again at full value.
WholeValue(line, fresh) == TotalValue(line)

FreshValue(line, fresh) == RoundHalfUp(TotalValue(line) * fresh, line.quantity)

\* The uncollected, uncancelled part of the line, at its terms.
FreshPending(lns, l) ==
    LET line  == lns[l]
        fresh == PendingQty(lns, l)
    IN  IF fresh > 0
        THEN << EntryMove(line.purchase, purchases[line.purchase].location, l, line, fresh,
                          FreshValue(line, fresh)) >>
        ELSE << >>

\* The edits _reprice_line accepts.
RepriceAllowed(old, new, l) ==
    LET collected == CollectedQty(l)
        repriced  == \/ new.product # old.product
                     \/ new.price # old.price
                     \/ new.rate # old.rate
    IN  /\ RefundedQty(l) > 0 => ~repriced
        /\ new.quantity >= collected + CancelledPendingQty(l)
        /\ collected > 0 /\ repriced => new.rate = old.rate


\* Mutant of NeedsCorrection: a changed product is not noticed.
PriceCorrection(old, new, l) == CollectedQty(l) > 0 /\ new.price # old.price

NeedsCorrection(old, new, l) ==
    CollectedQty(l) > 0 /\ (new.product # old.product \/ new.price # old.price)

\* _reprice_line: keep the line at new terms.
RepriceLine(edit, l, terms) ==
    LET old == edit.lines[l]
        new == [old EXCEPT !.product = terms.product, !.quantity = terms.quantity,
                           !.price = terms.price, !.rate = terms.rate]
        lns == [edit.lines EXCEPT ![l] = new]
        corrected == CorrectLine(edit.book, lns, l)
    IN  CASE new = old -> edit
          [] new # old /\ ~RepriceAllowed(old, new, l) -> Refuse(edit)
          [] new # old /\ RepriceAllowed(old, new, l) /\ NeedsCorrection(old, new, l) ->
                [edit EXCEPT !.ok = MayCorrect(edit.book, edit.lines, l) /\ corrected.ok,
                             !.book = corrected.book,
                             !.lines = lns]
          [] OTHER ->
                [edit EXCEPT !.lines = lns,
                             !.moves = @ \o PendingReversal(edit.book, edit.lines, l)
                                         \o FreshPending(lns, l)]

\* Mutant of RemoveLine: a cancelled line may be dropped too.
RemoveCancelled(edit, l) ==
    LET gone == [edit.lines EXCEPT ![l].is_deleted = TRUE]
        back == ReverseLine(edit.book, edit.lines[l].purchase, l)
    IN  CASE ~edit.ok -> edit
          [] edit.ok /\ CollectedQty(l) > 0 ->
                [edit EXCEPT !.ok = MayCorrect(edit.book, edit.lines, l) /\ back.ok,
                             !.book = back.book,
                             !.lines = gone]
          [] OTHER ->
                [edit EXCEPT !.lines = gone,
                             !.moves = @ \o PendingReversal(edit.book, edit.lines, l)]

\* _remove_line: drop a line the request leaves out.
RemoveLine(edit, l) ==
    LET p    == edit.lines[l].purchase
        gone == [edit.lines EXCEPT ![l].is_deleted = TRUE]
        back == ReverseLine(edit.book, p, l)
    IN  CASE ~edit.ok -> edit
          [] edit.ok /\ CollectedQty(l) > 0 ->
                [edit EXCEPT !.ok = MayCorrect(edit.book, edit.lines, l) /\ back.ok,
                             !.book = back.book,
                             !.lines = gone]
          [] edit.ok /\ CollectedQty(l) = 0 /\ RefundedQty(l) > 0 -> Refuse(edit)
          [] OTHER ->
                [edit EXCEPT !.lines = gone,
                             !.moves = @ \o PendingReversal(edit.book, edit.lines, l)]

\* One item of the request: id 0 stands for "no id".
EditItem(edit, p, kept, item) ==
    CASE ~edit.ok -> edit
      [] edit.ok /\ item.id = 0 -> AddLine(edit, p, item.terms)
      [] edit.ok /\ item.id \in kept -> RepriceLine(edit, item.id, item.terms)
      [] OTHER -> Refuse(edit)

\* The edit is saved, and what it has to post at its end is posted.
CommitEdit(edit) ==
    /\ edit.ok
    /\ Len(edit.lines) <= MaxLines
    /\ IF edit.moves = << >> THEN Install(edit.book)
       ELSE /\ CanPost(edit.book, edit.moves, FALSE)
            /\ Install(Posted(edit.book, edit.moves))
    /\ lines' = edit.lines

\* The edit after each of the first items of the request.
EditsInTurn(p, payload) ==
    LET edit[n \in 0..Len(payload)] ==
            IF n = 0
            THEN [ok |-> TRUE, book |-> Book, lines |-> lines, moves |-> << >>]
            ELSE EditItem(edit[n - 1], p, LinesOf(lines, p), payload[n])
    IN  edit

\* The edit after the lines that go, among the first n lines, are gone.
RemovalsInTurn(start, gone) ==
    LET edit[n \in 0..Len(lines)] ==
            IF n = 0 THEN start
            ELSE IF n \in gone THEN RemoveLine(edit[n - 1], n) ELSE edit[n - 1]
    IN  edit

UpdatePurchase(p, payload) ==
    LET edited == EditsInTurn(p, payload)[Len(payload)]
        gone   == LinesOf(lines, p) \ {payload[i].id : i \in DOMAIN payload}
        final  == RemovalsInTurn(edited, gone)[Len(lines)]
    IN  /\ ~purchases[p].is_deleted
        /\ payload # << >>
        /\ \A i, j \in DOMAIN payload :
              payload[i].id = payload[j].id /\ payload[i].id # 0 => i = j
        /\ CommitEdit(final)
        /\ UNCHANGED <<purchases, collections, refunds, drafts>>

-----------------------------------------------------------------------------
(* Deleting a purchase *)

\* Mutant of LineReversal: only the pending stock goes back.
PendingOnly(p, l) == PendingReversal(Book, lines, l)

\* What the line still has in PENDING, and wherever its PHYSICAL stock is positive.
LineReversal(p, l) ==
    LET out(loc) == PhysicalRemainder(ledger, l, loc)
        at == SetToSeq({loc \in Locations : out(loc).qty > 0})
    IN  PendingReversal(Book, lines, l)
          \o [i \in DOMAIN at |->
                LineMove("PURCHASE", p, l, lines[l].product, at[i], "PHYSICAL",
                         -out(at[i]).qty, -out(at[i]).aed)]

SoftDeletePurchase(p, confirm) ==
    LET gone  == Ordered(LinesOf(lines, p), Len(lines))
        moves == FlattenSeq([i \in DOMAIN gone |-> LineReversal(p, gone[i])])
        Marked(records) == [i \in DOMAIN records |->
                              IF records[i].purchase = p
                              THEN [records[i] EXCEPT !.is_deleted = TRUE]
                              ELSE records[i]]
    IN  /\ ~purchases[p].is_deleted
        /\ IF moves = << >> THEN Install(Book) ELSE Post(moves, confirm)
        /\ purchases' = [purchases EXCEPT ![p].is_deleted = TRUE]
        /\ lines' = Marked(lines)
        /\ collections' = Marked(collections)
        /\ refunds' = Marked(refunds)
        /\ UNCHANGED drafts

-----------------------------------------------------------------------------
Init ==
    /\ LedgerInit
    /\ purchases = << >>
    /\ lines = << >>
    /\ collections = << >>
    /\ refunds = << >>
    /\ drafts = {}

\* The lists of 1 to MaxPayload items a request may carry.
Requests(items) == UNION {[1..n -> items] : n \in 1..MaxPayload}

LineItems == [line: DOMAIN lines, quantity: Quantities]

RefundItems ==
    [line: DOMAIN lines, quantity: Quantities, source: RefundSources, location: Locations]

EditItems == [id: 0..Len(lines), terms: LineTerms]

Create ==
    \E loc \in Locations, terms \in Requests(LineTerms) :
        \E collected \in [DOMAIN terms -> {0} \union Quantities] :
            CreatePurchase(loc, terms, collected)

CollectSome ==
    \E p \in DOMAIN purchases, loc \in Locations, payload \in Requests(LineItems) :
        /\ RepeatedLines \/ OneLineEach(payload)
        /\ CollectPurchase(p, loc, payload)

Refund ==
    \E p \in DOMAIN purchases, payload \in Requests(RefundItems), confirm \in Confirms :
        /\ RepeatedLines \/ OneLineEach(payload)
        /\ \A i \in DOMAIN payload :
              payload[i].source = "PENDING" => payload[i].location = purchases[p].location
        /\ CreateRefund(p, payload, confirm)

Update ==
    \E p \in DOMAIN purchases, payload \in Requests(EditItems) : UpdatePurchase(p, payload)

UndoCollection == \E c \in DOMAIN collections, confirm \in Confirms : DeleteCollection(c, confirm)

UndoRefund == \E r \in DOMAIN refunds, confirm \in Confirms : DeleteRefund(r, confirm)

Delete == \E p \in DOMAIN purchases, confirm \in Confirms : SoftDeletePurchase(p, confirm)

Next == Create \/ CollectSome \/ Refund \/ Update \/ UndoCollection \/ UndoRefund \/ Delete

Spec == Init /\ [][Next]_vars

-----------------------------------------------------------------------------
(* Properties *)

\* Every record, row and balance has its type.
TypeOK ==
    /\ LedgerTypeOK
    /\ purchases \in Seq([location: Locations, is_deleted: BOOLEAN])
    /\ lines \in Seq([purchase: DOMAIN purchases, product: Products, quantity: Quantities,
                      price: Prices, rate: Rates, is_deleted: BOOLEAN])
    /\ collections \in Seq([purchase: DOMAIN purchases, location: Locations,
                            is_deleted: BOOLEAN, lines: Seq(LineItems)])
    /\ refunds \in Seq([purchase: DOMAIN purchases, is_deleted: BOOLEAN,
                        lines: Seq(RefundItems)])
    /\ drafts \subseteq Products \X Locations

\* What a line still has per bucket, wherever it is.
Held(l) == Net(ledger, LAMBDA row : OfLine(row, l, "PHYSICAL"))

\* The pending quantity users see (purchased - collected - cancelled) is exactly
\* what the ledger holds in PENDING for the line, through every mix of partial
\* collections, cancellations, edits, corrections and undos; and it never goes
\* below zero (SYSTEM_SPEC section 8).
PendingMatchesLedger ==
    \A l \in DOMAIN lines : ~lines[l].is_deleted =>
        /\ PendingQty(lines, l) = PendingRemainder(ledger, l).qty
        /\ PendingQty(lines, l) >= 0

\* "No cent residue is left behind at zero quantity": whoever takes the last
\* pending units of a line takes all of its remaining value, rounding included.
NoPendingResidue ==
    \A l \in DOMAIN lines :
        LET rest == PendingRemainder(ledger, l)
        IN  rest.aed >= 0 /\ (rest.qty = 0 => rest.aed = 0)

\* The stock a line received and did not return, per the records, is what the
\* ledger says it holds in PHYSICAL.
HeldMatchesRecords ==
    \A l \in DOMAIN lines : ~lines[l].is_deleted =>
        Held(l).qty = CollectedQty(l) - RefundSum(l, "RECEIVED")

\* A corrected line leaves nothing on the product it used to name: reversals
\* never resurrect superseded products or costs (net_reversal_movements).
NothingOnSupersededProduct ==
    \A l \in DOMAIN lines, product \in Products : product # lines[l].product =>
        \A loc \in Locations, bucket \in Buckets :
            Net(ledger, LAMBDA row : /\ OfLine(row, l, bucket)
                                     /\ row.product = product /\ row.loc = loc)
                = [qty |-> 0, aed |-> 0]

\* An undone collection or refund of a live purchase contributes nothing any
\* more, also when its lines were corrected after it was made.
UndoneContributesNothing ==
    LET Cleared(rows) == \A i \in DOMAIN rows :
                            GroupNet(rows, rows[i]) = [qty |-> 0, aed |-> 0]
        Undone(record) == record.is_deleted /\ ~purchases[record.purchase].is_deleted
    IN  /\ \A c \in DOMAIN collections :
              Undone(collections[c]) => Cleared(SourceRows(ledger, "PURCHASE_COLLECTION", c))
        /\ \A r \in DOMAIN refunds :
              Undone(refunds[r]) => Cleared(SourceRows(ledger, "PURCHASE_REFUND", r))

\* A removed line, or a line of a deleted purchase, holds nothing: remaining
\* pending was backed out and collected stock reversed (soft_delete_purchase).
\* Only where received stock of it was once returned may it have been overdrawn
\* (by undoing the collection afterwards), and an overdraft is left as it is.
DeletedHoldsNothing ==
    LET Returned(l) == \E r \in DOMAIN refunds : \E i \in DOMAIN refunds[r].lines :
                          /\ refunds[r].lines[i].line = l
                          /\ refunds[r].lines[i].source = "RECEIVED"
    IN  \A l \in DOMAIN lines : lines[l].is_deleted =>
            /\ PendingRemainder(ledger, l) = [qty |-> 0, aed |-> 0]
            /\ \A loc \in Locations :
                  LET held == PhysicalRemainder(ledger, l, loc)
                  IN  held.qty <= 0 /\ (held = [qty |-> 0, aed |-> 0] \/ Returned(l))

\* The eligibility check of a correction is sufficient: once a received line is
\* found correctable, none of the posts of the correction can fail, so no
\* NegativeStockError escapes from the middle of an edit.
EligibleCorrectionPosts ==
    \A l \in DOMAIN lines :
        MayCorrect(Book, lines, l) /\ CollectedQty(l) > 0 =>
            /\ ReverseLine(Book, lines[l].purchase, l).ok
            /\ CorrectLine(Book, lines, l).ok

\* An edit re-values received stock or removes it with its line, but never
\* changes how much of a kept line is where ("without creating or changing
\* collection quantities", corrections.py).
EditKeepsReceivedStock ==
    [][lines' # lines /\ purchases' = purchases =>
         \A l \in DOMAIN lines, loc \in Locations : ~lines'[l].is_deleted =>
            PhysicalRemainder(ledger', l, loc).qty = PhysicalRemainder(ledger, l, loc).qty]_vars

\* While nothing is refunded, what a line has in PENDING and in PHYSICAL adds up
\* to its frozen total value, give or take one rounding unit for every collection
\* and every refund ever made of it: no edit, undo or correction of the price of
\* received stock loses or invents value (_reprice_line,
\* correct_received_line).
ValueFollowsTotal ==
    LET Moves(l) == Cardinality({c \in DOMAIN collections : CollectedIn(c, l) > 0})
                      + Cardinality({r \in DOMAIN refunds :
                                        \E i \in DOMAIN refunds[r].lines :
                                            refunds[r].lines[i].line = l})
    IN  \A l \in DOMAIN lines : ~lines[l].is_deleted /\ RefundedQty(l) = 0 =>
            PendingRemainder(ledger, l).aed + Held(l).aed - TotalValue(lines[l])
                \in -Moves(l) .. Moves(l)
=============================================================================
