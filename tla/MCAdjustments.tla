--------------------------- MODULE MCAdjustments ---------------------------
(* Small instances of Adjustments: stock arrives in a delivery whose value  *)
(* does not divide evenly, and other apps sell some of it.                  *)
EXTENDS Adjustments

CONSTANTS p1, p2, here, away,
          Wide              \* two products and two locations, or one of each?

MCProducts == IF Wide THEN {p1, p2} ELSE {p1}
MCLocations == IF Wide THEN {here, away} ELSE {here}

Deliver ==
    /\ \A i \in DOMAIN ledger : ledger[i].stype # "PURCHASE_COLLECTION"
    /\ Post(<< StockMove("PURCHASE_COLLECTION", 1, 1, p1, here, "PHYSICAL", 3, 10) >>, FALSE)
    /\ UNCHANGED adjustments

Sell ==
    /\ \A i \in DOMAIN ledger : ledger[i].stype # "SALE"
    /\ Post(<< StockMove("SALE", 1, 1, p1, here, "PHYSICAL", -1,
                         -CarryingShare(1, balance[<<p1, here, "PHYSICAL">>])) >>, FALSE)
    /\ UNCHANGED adjustments

MCNext == Next \/ Deliver \/ Sell

MCSpec == Init /\ [][MCNext]_vars
=============================================================================
