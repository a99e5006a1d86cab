---------------------------- MODULE MCShipments ----------------------------
(* Small instances of Shipments: stock arrives at the source in a delivery  *)
(* whose value does not divide evenly.                                      *)
EXTENDS ShipmentReports

CONSTANTS p1, p2, here, away,
          TwoProducts       \* does the instance have the second product?

MCProducts == IF TwoProducts THEN {p1, p2} ELSE {p1}
MCLocations == {here, away}

Deliver ==
    /\ ledger = << >>
    /\ Post(<< StockMove("PURCHASE_COLLECTION", 1, 1, p1, here, "PHYSICAL", 3, 10) >>, FALSE)
    /\ UNCHANGED shipmentVars

MCNext == Next \/ Deliver

MCSpec == Init /\ [][MCNext]_vars
=============================================================================
