---------------------------- MODULE MCPurchases ----------------------------
(* Small instances of Purchases.  The other apps appear only as far as      *)
(* purchases can notice them: a draft shipment line that is opened and      *)
(* resolved, and a sale out of the pooled stock.                            *)
EXTENDS PurchaseReports

CONSTANTS p1, p2, here, away,
          Products2, Locations2,    \* does the instance have the second one?
          Others                    \* do other apps act?

MCProducts == IF Products2 THEN {p1, p2} ELSE {p1}
MCLocations == IF Locations2 THEN {here, away} ELSE {here}

DraftShipment ==
    /\ Others
    /\ drafts' \in {{}, {<<p1, here>>}}
    /\ UNCHANGED <<ledger, balance, purchases, lines, collections, refunds>>

SellPooled ==
    LET pool == balance[<<p1, here, "PHYSICAL">>]
    IN  /\ Others
        /\ pool.qty > 0
        /\ \A i \in DOMAIN ledger : ledger[i].stype # "SALE"
        /\ Post(<< LineMove("SALE", 1, 1, p1, here, "PHYSICAL", -1,
                            -Share(1, pool.qty, pool.aed)) >>, FALSE)
        /\ UNCHANGED purchaseVars

MCNext == Next \/ DraftShipment \/ SellPooled

MCSpec == Init /\ [][MCNext]_vars
=============================================================================
