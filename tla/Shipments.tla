----------------------------- MODULE Shipments -----------------------------
(***************************************************************************)
(* Shipments between locations and their receipts                          *)
(* (apps/shipments/services.py, models.py).  Shipping takes stock out of   *)
(* PHYSICAL at the source and puts it, at the carrying average, into       *)
(* IN_TRANSIT at the destination; receiving, possibly in parts and         *)
(* possibly more than was sent, moves it on to PHYSICAL there.             *)
(*                                                                         *)
(* Every operation is one transaction under the stock lock, hence one      *)
(* action; a disabled action is a refused request.  A receiving request    *)
(* loads the lines it names before it waits for the lock, and uses them    *)
(* without reading them again, so it also comes in two steps, with other   *)
(* requests in between.  Shipping cost, type, dates and notes carry no     *)
(* stock and are left out, and with them the edits of a shipment that has  *)
(* been shipped, which can change nothing else.                            *)
(***************************************************************************)
EXTENDS Carrying

CONSTANTS Quantities,       \* the quantities users enter
          Confirms,         \* the values of confirm_negative users send
          RepeatedLines,    \* may one receipt name a line twice?
          MaxPayload,       \* bound: lines in one request
          MaxShipments, MaxLines, MaxReceipts,   \* bounds on records
          MaxInFlight       \* bound: receiving requests that wait for the lock

\* "Quantity must be positive" (ShipmentLineSerializer, receive_shipment).
ASSUME QuantitiesAssumption == Quantities \subseteq Nat \ {0}

VARIABLES shipments,        \* Shipment: route, shipped_at and cancelled_at set?
          shipLines,        \* ShipmentLine
          receipts,         \* ShipmentReceipt with its ShipmentReceiptLines
          inFlight          \* receiving requests that loaded their lines

shipmentVars == <<shipments, shipLines, receipts, inFlight>>
vars == <<ledger, balance, shipmentVars>>

LineTerms == [product: Products, quantity: Quantities]

\* Mutant of NewShipLine: the line goes to the shipment saved last.
LineOfLatest(s, terms) ==
    [shipment |-> Len(shipments), product |-> terms.product, quantity |-> terms.quantity,
     is_deleted |-> FALSE]

\* The ShipmentLine of shipment s for the terms a request gives.
NewShipLine(s, terms) ==
    [shipment |-> s, product |-> terms.product, quantity |-> terms.quantity,
     is_deleted |-> FALSE]

LinesOf(lns, s) == {l \in DOMAIN lns : lns[l].shipment = s /\ ~lns[l].is_deleted}

Live(s) == ~shipments[s].is_deleted

\* The rows of a line, of its shipment and of its receipts alike.
OfLine(row, l) == row.stype \in {"SHIPMENT", "SHIPMENT_RECEIPT"} /\ row.line = l

InTransit(l) == Net(ledger, LAMBDA row : OfLine(row, l) /\ row.bucket = "IN_TRANSIT")

\* Mutant of ReceivedQty: receipts that were undone still count.
EverReceived(l) ==
    SumSeq([r \in DOMAIN receipts |->
              SumOf(receipts[r].lines, LAMBDA item : item.line = l,
                    LAMBDA item : item.quantity)])

\* received_qty: what the live receipts of a line say.
ReceivedQty(l) ==
    SumSeq([r \in DOMAIN receipts |->
              IF receipts[r].is_deleted THEN 0
              ELSE SumOf(receipts[r].lines, LAMBDA item : item.line = l,
                         LAMBDA item : item.quantity)])

\* Mutant of FullyReceived: one complete line is enough.
AnyLineReceived(s) ==
    \E l \in LinesOf(shipLines, s) : ReceivedQty(l) >= shipLines[l].quantity

\* There are lines, and every one has received what it was shipped with or more.
FullyReceived(s) ==
    /\ LinesOf(shipLines, s) # {}
    /\ \A l \in LinesOf(shipLines, s) : ReceivedQty(l) >= shipLines[l].quantity

PartlyReceived(s) ==
    ~FullyReceived(s) /\ \E l \in LinesOf(shipLines, s) : ReceivedQty(l) > 0

\* Shipment.status, from recorded facts and receipt quantities.
Status(s) ==
    CASE shipments[s].cancelled -> "CANCELLED"
      [] ~shipments[s].cancelled /\ ~shipments[s].shipped -> "DRAFT"
      [] ~shipments[s].cancelled /\ shipments[s].shipped /\ FullyReceived(s) ->
            "FULLY_RECEIVED"
      [] ~shipments[s].cancelled /\ shipments[s].shipped /\ PartlyReceived(s) ->
            "PARTIALLY_RECEIVED"
      [] OTHER -> "SHIPPED"

-----------------------------------------------------------------------------
(* Drafting and shipping *)

\* -PHYSICAL at the source, +IN_TRANSIT at the destination, line by line.
ShipMoves(s, route, lns) ==
    LET own   == Ordered(LinesOf(lns, s), Len(lns))
        items == [i \in DOMAIN own |-> lns[own[i]]]
    IN  FlattenSeq([i \in DOMAIN own |->
            LET aed == ShareInTurn(PoolsAt(route.from), items, i)
            IN  << StockMove("SHIPMENT", s, own[i], items[i].product, route.from,
                            "PHYSICAL", -items[i].quantity, -aed),
                   StockMove("SHIPMENT", s, own[i], items[i].product, route.to,
                            "IN_TRANSIT", items[i].quantity, aed) >>])

Routes == {r \in [from: Locations, to: Locations] : r.from # r.to}

\* A draft posts nothing; a shipment entered as shipped is shipped with it.
CreateShipment(route, terms, ship, confirm) ==
    LET s   == Len(shipments) + 1
        lns == shipLines \o [i \in DOMAIN terms |-> NewShipLine(s, terms[i])]
    IN  /\ s <= MaxShipments
        /\ Len(lns) <= MaxLines
        /\ IF ship THEN Post(ShipMoves(s, route, lns), confirm) ELSE Install(Book)
        /\ shipments' = Append(shipments, [from |-> route.from, to |-> route.to,
                                           shipped |-> ship, cancelled |-> FALSE,
                                           is_deleted |-> FALSE])
        /\ shipLines' = lns
        /\ UNCHANGED <<receipts, inFlight>>

ShipShipment(s, confirm) ==
    /\ Live(s) /\ ~shipments[s].cancelled /\ ~shipments[s].shipped
    /\ LinesOf(shipLines, s) # {}
    /\ Post(ShipMoves(s, shipments[s], shipLines), confirm)
    /\ shipments' = [shipments EXCEPT ![s].shipped = TRUE]
    /\ UNCHANGED <<shipLines, receipts, inFlight>>

\* One item of an edit: id 0 adds a line, the id of a live line changes it.
EditItem(edit, s, item) ==
    CASE item.id = 0 -> [edit EXCEPT !.lines = Append(@, NewShipLine(s, item.terms))]
      [] item.id \in LinesOf(shipLines, s) ->
            [edit EXCEPT !.lines[item.id] = NewShipLine(s, item.terms)]
      [] OTHER -> [edit EXCEPT !.ok = FALSE]

\* The edit after each of the first items of the request.
EditsInTurn(s, payload) ==
    LET edit[n \in 0..Len(payload)] ==
            IF n = 0 THEN [ok |-> TRUE, lines |-> shipLines]
                     ELSE EditItem(edit[n - 1], s, payload[n])
    IN  edit

\* update_shipment of a draft: the route and the lines are free; the lines the
\* request leaves out are removed.
UpdateShipment(s, route, payload) ==
    LET edited == EditsInTurn(s, payload)[Len(payload)]
        left   == LinesOf(shipLines, s) \ {payload[i].id : i \in DOMAIN payload}
    IN  /\ Live(s) /\ ~shipments[s].cancelled /\ ~shipments[s].shipped
        /\ payload # << >>
        /\ edited.ok
        /\ Len(edited.lines) <= MaxLines
        /\ shipments' = [shipments EXCEPT ![s].from = route.from, ![s].to = route.to]
        /\ shipLines' = [l \in DOMAIN edited.lines |->
                            IF l \in left THEN [edited.lines[l] EXCEPT !.is_deleted = TRUE]
                            ELSE edited.lines[l]]
        /\ UNCHANGED <<ledger, balance, receipts, inFlight>>

-----------------------------------------------------------------------------
(* Receiving *)

\* Mutant of TransitShare: the value of what was shipped, not of what is left.
ShippedShare(l, q) ==
    LET sent == Net(ledger, LAMBDA row : /\ OfLine(row, l) /\ row.bucket = "IN_TRANSIT"
                                         /\ row.qty > 0)
    IN  CarryingShare(q, sent)

\* _transit_share: from what the line has in transit before the request.
TransitShare(l, q) == CarryingShare(q, InTransit(l))

\* The serializer loads the lines a request names: live ones, as they are now.
Loaded(payload) ==
    [i \in DOMAIN payload |->
        [line |-> payload[i].line, quantity |-> payload[i].quantity,
         product |-> shipLines[payload[i].line].product]]

Loadable(payload) ==
    /\ payload # << >>
    /\ \A i \in DOMAIN payload : ~shipLines[payload[i].line].is_deleted

MayReceive(s, items) ==
    /\ Live(s) /\ ~shipments[s].cancelled /\ shipments[s].shipped
    /\ \A i \in DOMAIN items : shipLines[items[i].line].shipment = s

\* receive_shipment with the lines as they were loaded.
ReceiveShipment(s, items) ==
    LET r     == Len(receipts) + 1
        moves == FlattenSeq([i \in DOMAIN items |->
            LET item == items[i]
                aed  == TransitShare(item.line, item.quantity)
            IN  << StockMove("SHIPMENT_RECEIPT", r, item.line, item.product,
                            shipments[s].to, "IN_TRANSIT", -item.quantity, -aed),
                   StockMove("SHIPMENT_RECEIPT", r, item.line, item.product,
                            shipments[s].to, "PHYSICAL", item.quantity, aed) >>])
    IN  /\ r <= MaxReceipts
        /\ MayReceive(s, items)
        /\ Post(moves, FALSE)
        /\ receipts' = Append(receipts,
              [shipment |-> s, is_deleted |-> FALSE,
               lines |-> [i \in DOMAIN items |->
                            [line |-> items[i].line, quantity |-> items[i].quantity]]])
        /\ UNCHANGED <<shipments, shipLines>>

\* A request that gets the lock at once.
ReceiveNow(s, payload) ==
    /\ Loadable(payload)
    /\ ReceiveShipment(s, Loaded(payload))
    /\ UNCHANGED inFlight

\* A request that has loaded its lines and waits for the lock ...
LoadReceipt(s, payload) ==
    /\ Cardinality(inFlight) < MaxInFlight
    /\ Live(s)
    /\ Loadable(payload)
    /\ inFlight' = inFlight \union {[shipment |-> s, items |-> Loaded(payload)]}
    /\ UNCHANGED <<ledger, balance, shipments, shipLines, receipts>>

\* ... gets it ...
ReceiveLoaded(request) ==
    /\ ReceiveShipment(request.shipment, request.items)
    /\ inFlight' = inFlight \ {request}

\* ... or is refused.
RefuseLoaded(request) ==
    /\ ~MayReceive(request.shipment, request.items)
    /\ inFlight' = inFlight \ {request}
    /\ UNCHANGED <<ledger, balance, shipments, shipLines, receipts>>

\* delete_receipt: its rows are reversed, whatever became of the shipment.
DeleteReceipt(r, confirm) ==
    /\ ~receipts[r].is_deleted
    /\ Post(ReversalMovements(SourceRows(ledger, "SHIPMENT_RECEIPT", r)), confirm)
    /\ receipts' = [receipts EXCEPT ![r].is_deleted = TRUE]
    /\ UNCHANGED <<shipments, shipLines, inFlight>>

-----------------------------------------------------------------------------
(* Cancelling and deleting *)

\* _unreceived_movements: what is still in transit goes back to the source.
UnreceivedMoves(s) ==
    LET open == Ordered({l \in LinesOf(shipLines, s) : InTransit(l).qty > 0}, Len(shipLines))
    IN  FlattenSeq([i \in DOMAIN open |->
            LET l    == open[i]
                rest == InTransit(l)
                aed  == IF rest.aed > 0 THEN rest.aed ELSE 0
            IN  << StockMove("SHIPMENT", s, l, shipLines[l].product, shipments[s].to,
                            "IN_TRANSIT", -rest.qty, -aed),
                   StockMove("SHIPMENT", s, l, shipLines[l].product, shipments[s].from,
                            "PHYSICAL", rest.qty, aed) >>])

\* A draft is just cancelled; a shipment of which everything arrived cannot be.
CancelShipment(s) ==
    /\ Live(s) /\ ~shipments[s].cancelled
    /\ IF shipments[s].shipped THEN Post(UnreceivedMoves(s), FALSE) ELSE Install(Book)
    /\ shipments' = [shipments EXCEPT ![s].cancelled = TRUE]
    /\ UNCHANGED <<shipLines, receipts, inFlight>>

\* Mutant of RowsOf: the rows of the receipts are forgotten.
ShipmentRows(s) == SourceRows(ledger, "SHIPMENT", s)

\* Every row the shipment ever posted, removed lines included.
RowsOf(s) ==
    Kept(ledger, {i \in DOMAIN ledger : \E l \in DOMAIN shipLines :
                                          shipLines[l].shipment = s /\ OfLine(ledger[i], l)})

SoftDeleteShipment(s, confirm) ==
    LET moves == ReversalMovements(RowsOf(s))
        Marked(records) == [i \in DOMAIN records |->
                              IF records[i].shipment = s
                              THEN [records[i] EXCEPT !.is_deleted = TRUE]
                              ELSE records[i]]
    IN  /\ Live(s)
        /\ IF moves = << >> THEN Install(Book) ELSE Post(moves, confirm)
        /\ shipments' = [shipments EXCEPT ![s].is_deleted = TRUE]
        /\ shipLines' = Marked(shipLines)
        /\ receipts' = Marked(receipts)
        /\ UNCHANGED inFlight

-----------------------------------------------------------------------------
Init ==
    /\ LedgerInit
    /\ shipments = << >>
    /\ shipLines = << >>
    /\ receipts = << >>
    /\ inFlight = {}

Requests(items) == UNION {[1..n -> items] : n \in 1..MaxPayload}

EditItems == [id: 0..Len(shipLines), terms: LineTerms]

ReceiptItems == [line: DOMAIN shipLines, quantity: Quantities]

\* What the model's client keeps to where RepeatedLines is FALSE; no serializer asks it.
OneLineEach(payload) ==
    \A i, j \in DOMAIN payload : payload[i].line = payload[j].line => i = j

Create ==
    \E route \in Routes, terms \in Requests(LineTerms), ship \in BOOLEAN, confirm \in Confirms :
        CreateShipment(route, terms, ship, confirm)

Ship == \E s \in DOMAIN shipments, confirm \in Confirms : ShipShipment(s, confirm)

Update ==
    \E s \in DOMAIN shipments, route \in Routes, payload \in Requests(EditItems) :
        UpdateShipment(s, route, payload)

Receive ==
    \E s \in DOMAIN shipments, payload \in Requests(ReceiptItems) :
        /\ RepeatedLines \/ OneLineEach(payload)
        /\ ReceiveNow(s, payload)

Load ==
    \E s \in DOMAIN shipments, payload \in Requests(ReceiptItems) :
        /\ RepeatedLines \/ OneLineEach(payload)
        /\ LoadReceipt(s, payload)

Resume == \E request \in inFlight : ReceiveLoaded(request) \/ RefuseLoaded(request)

UndoReceipt == \E r \in DOMAIN receipts, confirm \in Confirms : DeleteReceipt(r, confirm)

Cancel == \E s \in DOMAIN shipments : CancelShipment(s)

Delete == \E s \in DOMAIN shipments, confirm \in Confirms : SoftDeleteShipment(s, confirm)

Next ==
    \/ Create \/ Ship \/ Update
    \/ Receive \/ Load \/ Resume \/ UndoReceipt
    \/ Cancel \/ Delete

Spec == Init /\ [][Next]_vars

-----------------------------------------------------------------------------
(* Properties *)

\* Every record, row and balance has its type.
TypeOK ==
    /\ LedgerTypeOK
    /\ shipments \in Seq([from: Locations, to: Locations, shipped: BOOLEAN,
                          cancelled: BOOLEAN, is_deleted: BOOLEAN])
    /\ shipLines \in Seq([shipment: DOMAIN shipments, product: Products,
                          quantity: Quantities, is_deleted: BOOLEAN])
    /\ receipts \in Seq([shipment: DOMAIN shipments, is_deleted: BOOLEAN,
                         lines: Seq(ReceiptItems)])
    /\ \A request \in inFlight : request.shipment \in DOMAIN shipments

\* What a line has of a product in one bucket of one location, per the ledger.
LineStock(l, product, loc, bucket) ==
    Net(ledger, LAMBDA row : OfLine(row, l) /\ KeyOf(row) = <<product, loc, bucket>>)

\* Where the stock of a live line is follows from its records, over-receipts and
\* undone receipts included: what was received is at the destination; unless the
\* shipment was cancelled, the rest is in transit and all of it left the source;
\* and there is nothing else anywhere (SYSTEM_SPEC, shipment ledger behavior;
\* "refresh supplied records", TECHNICAL_ARCHITECTURE, section 5.5).  A receipt that
\* posts the product its line had when it was loaded breaks it (receive_shipment).
StockFollowsRecords ==
    \A l \in DOMAIN shipLines :
        LET line  == shipLines[l]
            s     == shipments[line.shipment]
            gone  == <<line.product, s.from, "PHYSICAL">>
            going == <<line.product, s.to, "IN_TRANSIT">>
            here_ == <<line.product, s.to, "PHYSICAL">>
            qty(key) == LineStock(l, key[1], key[2], key[3]).qty
        IN  ~line.is_deleted =>
              /\ qty(here_) = ReceivedQty(l)
              /\ \A key \in Keys \ {gone, going, here_} : qty(key) = 0
              /\ s.shipped /\ ~s.cancelled =>
                    /\ qty(gone) = -line.quantity
                    /\ qty(going) = line.quantity - ReceivedQty(l)
              /\ ~s.shipped => qty(gone) = 0 /\ qty(going) = 0

\* The products are those of the lines now.
Fresh(items) ==
    \A i \in DOMAIN items : items[i].product = shipLines[items[i].line].product

\* No draft was edited after a waiting request loaded its lines.
LoadsFresh == \A request \in inFlight : Fresh(request.items)

\* As long as no line changes its product between the load of a receipt and its post
\* (the shipment is drafted, edited and shipped meanwhile), stock follows records,
\* whatever else comes between them (receive_shipment, update_shipment).
StockFollowsFreshLoads == []LoadsFresh => []StockFollowsRecords

\* The status users see agrees with the ledger: a shipment is fully received just
\* when nothing of it is left in transit, and merely shipped just when all of it
\* still is (Shipment.status is computed from receipts, not from the ledger).
StatusTellsTransit ==
    \A s \in DOMAIN shipments : Live(s) =>
        LET own == LinesOf(shipLines, s)
        IN  /\ Status(s) = "FULLY_RECEIVED" => \A l \in own : InTransit(l).qty <= 0
            /\ Status(s) = "PARTIALLY_RECEIVED" =>
                  /\ \E l \in own : InTransit(l).qty > 0
                  /\ \E l \in own : InTransit(l).qty < shipLines[l].quantity
            /\ Status(s) = "SHIPPED" =>
                  \A l \in own : InTransit(l).qty = shipLines[l].quantity

\* A line never delivers more value than it was shipped with: "over-received
\* quantity beyond the remainder carries no extra value" (_transit_share).
TransitValueCovered == \A l \in DOMAIN shipLines : InTransit(l).aed >= 0

\* Deleting a shipment undoes all it ever did, wherever it had got to: nothing
\* of any of its lines is left on any balance (soft_delete_shipment).
DeletedShipmentHoldsNothing ==
    \A l \in DOMAIN shipLines : ~Live(shipLines[l].shipment) =>
        \A key \in Keys :
            LineStock(l, key[1], key[2], key[3]) = [qty |-> 0, aed |-> 0]

\* Shipping takes no more value than the source stock is worth, however the lines
\* of the shipment share a pool (ship_shipment).
ShipmentsKeepPoolValue == PoolValueCovered
=============================================================================
