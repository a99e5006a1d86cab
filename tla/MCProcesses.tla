---------------------------- MODULE MCProcesses ----------------------------
(* Small instances of StockRequests and ExportJobs, which share no state: in a *)
(* behaviour either the requests act or the exports do.                        *)
(*                                                                             *)
(* Three requests sell two products in opposite orders out of stock whose      *)
(* value does not divide evenly, and that does not cover all of them.  Two     *)
(* jobs and two workers: a job can be run twice at once while the other waits, *)
(* and one of the runs may die.                                                *)
EXTENDS StockRequests, ExportJobs

CONSTANTS p1, p2, shop, j1, j2, w1, w2

MCJobs == {j1, j2}
MCWorkers == {w1, w2}

One(p) == [product |-> p, quantity |-> 1]

MCOrders == {<<One(p1), One(p2)>>, <<One(p2), One(p1)>>, <<One(p1), One(p1)>>}

MCOpening ==
    << StockMove("PURCHASE_COLLECTION", 1, 1, p1, shop, "PHYSICAL", 3, 10),
       StockMove("PURCHASE_COLLECTION", 1, 2, p2, shop, "PHYSICAL", 2, 5) >>

NoJobs == \A j \in Jobs : row[j].status = "NONE"
NoRequests == \A r \in Requests : pc[r] = "new"

MCInit == Init /\ JobsInit

MCNext ==
    \/ NoJobs /\ Next /\ UNCHANGED jobVars
    \/ NoRequests /\ JobsNext /\ UNCHANGED vars

MCSpec ==
    /\ MCInit
    /\ [][MCNext]_<<vars, jobVars>>
    /\ Fairness /\ JobsFairness
=============================================================================
