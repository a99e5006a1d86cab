------------------------------ MODULE Carrying ------------------------------
(***************************************************************************)
(* Stock leaves a location at the carrying average of its PHYSICAL         *)
(* balance: sales, shipments and adjustments all draw value from that pool *)
(* in proportion to the quantity they take.  A request with several lines  *)
(* keeps a running pool per product (CarryingPool in apps/sales, the       *)
(* `remainders` of ship_shipment), because the balance itself moves only   *)
(* when the whole request is posted.                                       *)
(***************************************************************************)
EXTENDS StockLedger, Money

\* The pools of a location before the request: [Products -> [qty, aed]].
PoolsAt(loc) == [p \in Products |-> balance[<<p, loc, "PHYSICAL">>]]

\* The value q units take with them: none from an empty or worthless pool, all
\* of it with the last unit, the rounded proportion otherwise.
CarryingShare(q, pool) ==
    CASE pool.qty <= 0 \/ pool.aed <= 0 -> 0
      [] pool.qty > 0 /\ pool.aed > 0 /\ q >= pool.qty -> pool.aed
      [] OTHER -> RoundHalfUp(pool.aed * q, pool.qty)

\* Mutant of Taken: the running pool is not drawn down.
TakenTwice(pools, p, q) == pools

\* The pools after q units of product p were taken.
Taken(pools, p, q) ==
    [pools EXCEPT ![p] = [qty |-> @.qty - q, aed |-> @.aed - CarryingShare(q, @)]]

\* The pools after q units worth aed were given back.
Given(pools, p, q, aed) ==
    [pools EXCEPT ![p] = [qty |-> @.qty + q, aed |-> @.aed + aed]]

\* The pools as several items find them one after another: the n-th entry is
\* what the first n of them leave.
PoolsInTurn(pools, items) ==
    LET left[n \in 0..Len(items)] ==
            IF n = 0 THEN pools
                     ELSE Taken(left[n - 1], items[n].product, items[n].quantity)
    IN  left

\* The value the i-th of several items takes, the items before it served first.
ShareInTurn(pools, items, i) ==
    CarryingShare(items[i].quantity, PoolsInTurn(pools, items)[i - 1][items[i].product])

\* An outgoing or incoming movement of a record's line.
StockMove(stype, sid, l, product, loc, bucket, qty, aed) ==
    [stype |-> stype, sid |-> sid, line |-> l, product |-> product, loc |-> loc,
     bucket |-> bucket, qty |-> qty, aed |-> aed]

\* Every location's stock is worth something or nothing, never less than nothing.
PoolValueCovered == \A k \in Keys : k[3] = "PHYSICAL" => balance[k].aed >= 0

\* All remaining value moves with the last unit.
EmptyPoolHoldsNoValue ==
    \A k \in Keys : k[3] = "PHYSICAL" /\ balance[k].qty = 0 => balance[k].aed = 0
=============================================================================
