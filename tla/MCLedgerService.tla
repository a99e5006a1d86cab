-------------------------- MODULE MCLedgerService --------------------------
(* A small instance of LedgerService: two products, two locations, and      *)
(* batches of two records: single movements, a move between buckets, a      *)
(* batch that moves the same balance out, in and out, a batch that takes    *)
(* twice from one balance, one location having what the other owes, and a   *)
(* movement of an unknown bucket.                                           *)
EXTENDS LedgerService, StockReports

CONSTANTS p1, p2, here, there

MCProducts == {p1, p2}
MCLocations == {here, there}

Move(sid, line, product, bucket, qty, aed) ==
    [stype |-> "PURCHASE_COLLECTION", sid |-> sid, line |-> line, product |-> product,
     loc |-> here, bucket |-> bucket, qty |-> qty, aed |-> aed]

MCBatches ==
    { << Move(1, 1, p1, "PENDING", -2, -7), Move(1, 1, p1, "PHYSICAL", 2, 7) >>,
      << Move(1, 2, p1, "PHYSICAL", -1, -3), Move(1, 1, p2, "PHYSICAL", 1, 4) >>,
      << Move(2, 1, p1, "PHYSICAL", -1, -3), Move(2, 1, p1, "PHYSICAL", 1, 4),
         Move(2, 2, p1, "PHYSICAL", -1, -4) >>,
      << Move(2, 2, p1, "PHYSICAL", 1, 0) >>,
      << Move(2, 3, p2, "PHYSICAL", -1, 0), Move(2, 3, p2, "PHYSICAL", -1, -1) >>,
      << [Move(1, 3, p1, "PENDING", 2, 8) EXCEPT !.loc = there] >>,
      << Move(2, 3, p2, "LOST", 1, 0) >> }
=============================================================================
