---------------------------- MODULE Adjustments ----------------------------
(***************************************************************************)
(* Manual corrections of PHYSICAL stock (apps/inventory/adjustments.py).   *)
(* An increase adds at the carrying average, a decrease takes a share of   *)
(* the pool; an edit reverses what the adjustment had posted and posts it  *)
(* afresh, in one event; a delete only reverses.                           *)
(*                                                                         *)
(* One action per transaction under the stock lock; a disabled action is a *)
(* refused request.  Date, reason and notes carry no stock and are left    *)
(* out.                                                                    *)
(***************************************************************************)
EXTENDS Carrying

CONSTANTS Quantities,       \* the quantities users enter
          Confirms,         \* the values of confirm_negative users send
          MaxAdjustments    \* bound on records

\* "Quantity must be positive" (StockAdjustmentSerializer, _validate).
ASSUME QuantitiesAssumption == Quantities \subseteq Nat \ {0}

VARIABLES adjustments       \* StockAdjustment: Seq(Terms with is_deleted)

vars == <<ledger, balance, adjustments>>

AdjustmentTypes == {"INCREASE", "DECREASE"}

Terms == [location: Locations, product: Products,
          adjustment_type: AdjustmentTypes, quantity: Quantities]

\* Mutant of AdjustedValue: a rounded value per unit, times the units.
UnitCostValue(terms, pool) ==
    IF pool.qty <= 0 THEN 0 ELSE terms.quantity * RoundHalfUp(pool.aed, pool.qty)

\* _carrying_share: an increase extends the pool at its average, without end.
AdjustedValue(terms, pool) ==
    CASE pool.qty <= 0 \/ pool.aed <= 0 -> 0
      [] pool.qty > 0 /\ pool.aed > 0 /\ terms.adjustment_type = "DECREASE" ->
            CarryingShare(terms.quantity, pool)
      [] OTHER -> RoundHalfUp(pool.aed * terms.quantity, pool.qty)

\* The balance as it stands before the request posts anything.
PoolOf(terms) == balance[<<terms.product, terms.location, "PHYSICAL">>]

\* The movement that carries out the adjustment.
AdjustmentMove(a, terms) ==
    LET aed  == AdjustedValue(terms, PoolOf(terms))
        sign == IF terms.adjustment_type = "INCREASE" THEN 1 ELSE -1
    IN  StockMove("STOCK_ADJUSTMENT", a, 0, terms.product, terms.location, "PHYSICAL",
                  sign * terms.quantity, sign * aed)

\* _net_posted: what the adjustment has put into PHYSICAL, wherever that was.
NetPosted(a) ==
    Net(ledger, LAMBDA row : /\ row.stype = "STOCK_ADJUSTMENT" /\ row.sid = a
                             /\ row.bucket = "PHYSICAL")

Magnitude(n) == IF n < 0 THEN -n ELSE n

\* Mutant of ReversalPlace: the place the adjustment is moved to.
NewPlace(a, terms) == terms

\* The product and location of a reversal: those the record has before the request.
ReversalPlace(a, terms) == adjustments[a]

\* _reverse_net_movement: undo the net state at `place`, value against quantity.
ReverseNet(a, place) ==
    LET net  == NetPosted(a)
        sign == IF net.qty > 0 THEN -1 ELSE 1
    IN  IF net.qty = 0 THEN << >>
        ELSE << StockMove("STOCK_ADJUSTMENT", a, 0, place.product, place.location,
                          "PHYSICAL", -net.qty, sign * Magnitude(net.aed)) >>

\* The fields of a StockAdjustment that matter to stock.
Record(terms) ==
    [location |-> terms.location, product |-> terms.product,
     adjustment_type |-> terms.adjustment_type, quantity |-> terms.quantity,
     is_deleted |-> FALSE]

CreateAdjustment(terms, confirm) ==
    LET a == Len(adjustments) + 1
    IN  /\ a <= MaxAdjustments
        /\ Post(<< AdjustmentMove(a, terms) >>, confirm)
        /\ adjustments' = Append(adjustments, Record(terms))

\* An edit that changes nothing that matters to stock posts nothing.
UpdateAdjustment(a, terms, confirm) ==
    /\ ~adjustments[a].is_deleted
    /\ IF Record(terms) = adjustments[a] THEN Install(Book)
       ELSE Post(Append(ReverseNet(a, ReversalPlace(a, terms)), AdjustmentMove(a, terms)),
                 confirm)
    /\ adjustments' = [adjustments EXCEPT ![a] = Record(terms)]

SoftDeleteAdjustment(a, confirm) ==
    LET moves == ReverseNet(a, adjustments[a])
    IN  /\ ~adjustments[a].is_deleted
        /\ IF moves = << >> THEN Install(Book) ELSE Post(moves, confirm)
        /\ adjustments' = [adjustments EXCEPT ![a].is_deleted = TRUE]

Init == LedgerInit /\ adjustments = << >>

Create == \E terms \in Terms, confirm \in Confirms : CreateAdjustment(terms, confirm)

Update ==
    \E a \in DOMAIN adjustments, terms \in Terms, confirm \in Confirms :
        UpdateAdjustment(a, terms, confirm)

Delete ==
    \E a \in DOMAIN adjustments, confirm \in Confirms : SoftDeleteAdjustment(a, confirm)

Next == Create \/ Update \/ Delete

Spec == Init /\ [][Next]_vars

-----------------------------------------------------------------------------
(* Properties *)

\* Every record, row and balance has its type.
TypeOK ==
    /\ LedgerTypeOK
    /\ adjustments \in Seq([location: Locations, product: Products, is_deleted: BOOLEAN,
                            adjustment_type: AdjustmentTypes, quantity: Quantities])

\* What an adjustment's rows add up to for one product and location.
Contribution(a, product, loc) ==
    Net(ledger, LAMBDA row : /\ row.stype = "STOCK_ADJUSTMENT" /\ row.sid = a
                             /\ row.product = product /\ row.loc = loc)

\* However often an adjustment is changed in size, direction, product or place,
\* the ledger holds its signed quantity where its record says, and nothing, not
\* a cent, anywhere it used to be; a deleted one holds nothing (SRS FR-081).
AdjustmentFollowsRecord ==
    \A a \in DOMAIN adjustments, product \in Products, loc \in Locations :
        LET record == adjustments[a]
            stock  == Contribution(a, product, loc)
        IN  IF record.is_deleted \/ product # record.product \/ loc # record.location
            THEN stock = [qty |-> 0, aed |-> 0]
            ELSE stock.qty = (IF record.adjustment_type = "INCREASE" THEN 1 ELSE -1)
                                * record.quantity

\* As long as no adjustment was edited or deleted, adjustments neither take more
\* value than there is nor strand value on an emptied pool, in whatever order
\* increases and decreases are entered ("exact when it empties").  Stated for stock
\* that is not oversold.
EntriesKeepPoolExact ==
    (\A a \in DOMAIN adjustments : Len(SourceRows(ledger, "STOCK_ADJUSTMENT", a)) = 1)
        => PoolValueCovered /\ EmptyPoolHoldsNoValue
=============================================================================
