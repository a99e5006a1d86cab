------------------------------ MODULE MCSales ------------------------------
(* Small instances of Sales: one selling location whose stock arrives in a  *)
(* delivery of a few units worth an amount that does not divide evenly.     *)
EXTENDS Sales

CONSTANTS p1, p2, here,
          TwoProducts,     \* does the instance have the second product?
          Upfront,         \* does all stock arrive before the first sale?
          MaxDeliveries    \* bound: deliveries by other apps

MCProducts == IF TwoProducts THEN {p1, p2} ELSE {p1}
MCLocations == {here}
MCSymmetry == Permutations(MCProducts)

Delivered == {i \in DOMAIN ledger : ledger[i].stype = "PURCHASE_COLLECTION"}

Deliver ==
    /\ Cardinality(Delivered) < MaxDeliveries
    /\ Upfront => sales = << >>
    /\ \E product \in Products :
          Post(<< StockMove("PURCHASE_COLLECTION", 1, 1, product, here, "PHYSICAL", 3, 10) >>,
               FALSE)
    /\ UNCHANGED saleVars

MCNext == Next \/ Deliver

MCSpec == Init /\ [][MCNext]_vars
=============================================================================
