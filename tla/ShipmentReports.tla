--------------------------- MODULE ShipmentReports ---------------------------
(***************************************************************************)
(* What the reports show of stock on its way (apps/reports/builders.py):   *)
(* the in-transit report and the in-transit column of the Australian one.  *)
(* They count shipment lines and receipts and never look at the ledger,    *)
(* from which the dashboard and the stock reports take the same figure.    *)
(***************************************************************************)
EXTENDS Shipments

\* remaining_qty: negative when more was received than sent.
RemainingQty(l) == shipLines[l].quantity - ReceivedQty(l)

\* The live lines of shipments on their way.
OnTheWay ==
    {l \in DOMAIN shipLines :
        LET s == shipLines[l].shipment
        IN  ~shipLines[l].is_deleted /\ Live(s) /\ shipments[s].shipped /\ ~shipments[s].cancelled}

\* Mutant of InTransitRows: as in the Australian report, only what is missing.
ExpectedRows == {l \in OnTheWay : RemainingQty(l) > 0}

\* build_in_transit_stock: over-received lines count against the others.
InTransitRows == {l \in OnTheWay : RemainingQty(l) # 0}

\* Its total for a product and a destination.
ReportedInTransit(p, to) ==
    LET rows == {l \in InTransitRows : /\ shipLines[l].product = p
                                       /\ shipments[shipLines[l].shipment].to = to}
    IN  MapThenSumSet(RemainingQty, rows)

\* build_australia_combined_stock: what is expected from a group of locations, in
\* which over-received lines do not count.
ExpectedFrom(p, group) ==
    LET rows == {l \in OnTheWay : /\ RemainingQty(l) > 0
                                  /\ shipLines[l].product = p
                                  /\ shipments[shipLines[l].shipment].from \in group}
    IN  MapThenSumSet(RemainingQty, rows)

-----------------------------------------------------------------------------
(* Properties *)

\* Lines of live shipments the report does not show: removed, or cancelled.
HiddenLines ==
    {l \in DOMAIN shipLines :
        LET s == shipLines[l].shipment
        IN  Live(s) /\ (shipLines[l].is_deleted \/ shipments[s].cancelled)}

\* A receipt that brought units of the line was undone.
ReceiptUndone(l) ==
    \E r \in DOMAIN receipts :
        receipts[r].is_deleted /\ \E i \in DOMAIN receipts[r].lines : receipts[r].lines[i].line = l

\* The in-transit report and the balances the dashboard adds up agree for every
\* product and destination, but for lines the report hides.  Those hold stock only
\* where a receipt was undone after the cancellation, which puts units back on the
\* way of a shipment nobody can receive or cancel again; and they owe stock only
\* where more was received than sent, or where a receipt that waited for the lock
\* received a line that was removed meanwhile.  (A waiting receipt whose line was
\* edited to another product breaks this too, as it breaks StockFollowsRecords; the
\* run has one product.)  The Australian report, which leaves over-received lines
\* out, never expects less than the in-transit report.
InTransitReportMatchesLedger ==
    /\ \A p \in Products, to \in Locations :
          balance[<<p, to, "IN_TRANSIT">>].qty =
              ReportedInTransit(p, to)
              + MapThenSumSet(LAMBDA l : InTransit(l).qty,
                              {l \in HiddenLines :
                                  /\ shipLines[l].product = p
                                  /\ shipments[shipLines[l].shipment].to = to})
    /\ \A l \in HiddenLines :
          LET s == shipLines[l].shipment
          IN  /\ InTransit(l).qty > 0 => shipments[s].cancelled /\ ReceiptUndone(l)
              /\ InTransit(l).qty < 0 =>
                    RemainingQty(l) < 0 \/ (shipLines[l].is_deleted /\ ReceivedQty(l) > 0)
    /\ \A p \in Products :
          ExpectedFrom(p, Locations) >=
              MapThenSumSet(LAMBDA to : ReportedInTransit(p, to), Locations)
=============================================================================
