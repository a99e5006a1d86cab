--------------------------- MODULE PurchaseReports ---------------------------
(***************************************************************************)
(* What the reports and the dashboard show of purchases                    *)
(* (apps/reports/builders.py, dashboard.py): pending stock, GST and        *)
(* refunds.  They count lines and refund lines, each with a choice of its  *)
(* own of which records are still alive.                                   *)
(*                                                                         *)
(* GST amounts are frozen on the lines: on a purchase line with its terms  *)
(* (freeze_line_values), on a refund line when the refund is made.  A line *)
(* with a live refund can change neither price nor rate, so both follow    *)
(* from the terms the line has now.                                        *)
(***************************************************************************)
EXTENDS Purchases

CONSTANTS GstRate,         \* per cent, of every line
          GstLocations     \* the locations that have a GST region

\* freeze_line_values: the GST contained in the line, and the same in AED.
GstAmount(l) == GstComponent(lines[l].quantity * lines[l].price, GstRate)

GstAmountAed(l) == RoundHalfUp(GstAmount(l) * lines[l].rate, RateScale)

\* create_refund: the GST contained in what the refund line takes back.
GstReversalAed(item) ==
    LET line == lines[item.line]
    IN  RoundHalfUp(GstComponent(item.quantity * line.price, GstRate) * line.rate, RateScale)

\* The live refunds' share of a sum over refund lines.
RefundTotal(Sel(_), Val(_)) ==
    SumSeq([r \in DOMAIN refunds |->
              IF refunds[r].is_deleted THEN 0 ELSE SumOf(refunds[r].lines, Sel, Val)])

\* _purchase_lines: live lines of live purchases.
ReportLines ==
    {l \in DOMAIN lines : ~lines[l].is_deleted /\ ~purchases[lines[l].purchase].is_deleted}

\* build_pending_purchase_stock, and by location and product.
PendingRows == {l \in ReportLines : PendingQty(lines, l) > 0}

PendingAt(p, loc) ==
    LET rows == {l \in PendingRows : /\ lines[l].product = p
                                     /\ purchases[lines[l].purchase].location = loc}
    IN  SumFunction([l \in rows |-> PendingQty(lines, l)])

\* build_gst_report: lines of a GST region, or with GST on them.
GstRows ==
    {l \in ReportLines :
        purchases[lines[l].purchase].location \in GstLocations \/ GstAmount(l) > 0}

ReversedGst(l) == RefundTotal(LAMBDA item : item.line = l, GstReversalAed)

GstReportNet == SumFunction([l \in GstRows |-> GstAmountAed(l) - ReversedGst(l)])

\* _gst_total: live lines, less every line of a live refund.
DashboardGst ==
    SumFunction([l \in {x \in DOMAIN lines : ~lines[x].is_deleted} |-> GstAmountAed(l)])
        - RefundTotal(LAMBDA item : TRUE, GstReversalAed)

\* build_refund_report.
RefundReportQty == RefundTotal(LAMBDA item : TRUE, LAMBDA item : item.quantity)

-----------------------------------------------------------------------------
(* Properties *)

\* The pending report shows for every product and location what the balances hold
\* in PENDING.
PendingReportAgrees ==
    \A p \in Products, loc \in Locations :
        PendingAt(p, loc) = balance[<<p, loc, "PENDING">>].qty

\* The net GST of the dashboard is that of the GST report: "line-level flags suffice"
\* (_gst_total).
GstReportsAgree == DashboardGst = GstReportNet

\* The refund report shows the refunds of the lines the other reports show, and no
\* others.
RefundReportAgrees ==
    RefundReportQty = SumFunction([l \in ReportLines |-> RefundedQty(l)])

\* Through every edit, refund and undo, the reports count the same records.
PurchaseReportsAgree == PendingReportAgrees /\ GstReportsAgree /\ RefundReportAgrees

\* "A refund can never return more GST than the purchase recorded"
\* (PROJECT_CONTEXT.md, GST entry): the refunds of a line, together.
GstNeverOverReversed == \A l \in ReportLines : ReversedGst(l) <= GstAmountAed(l)
=============================================================================
