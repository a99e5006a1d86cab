---------------------------- MODULE StockReports ----------------------------
(***************************************************************************)
(* The read models of stock (apps/reports/builders.py, dashboard.py): what *)
(* the dashboard and the stock reports show of the balances, or of the     *)
(* ledger up to a past cutoff.  They change nothing.                       *)
(*                                                                         *)
(* A report is a choice of rows and the totals over them.  Every report    *)
(* leaves out rows it takes for empty, and they do not agree on what empty *)
(* is.  The filters for one product, location or category only narrow the  *)
(* rows, and are left out with the columns, the sort and the wording.      *)
(*                                                                         *)
(* Rows are stamped with the time of their post, so a cutoff, like the     *)
(* start of a ledger report, is a number of rows.  A cutoff never falls    *)
(* inside a post, so what it shows is what was there in an earlier state.  *)
(***************************************************************************)
EXTENDS StockLedger

\* The products and the locations are rows of two tables.
ASSUME FiniteAssumption == IsFiniteSet(Products) /\ IsFiniteSet(Locations)

Pairs == Products \X Locations

\* balance_map with a cutoff: the SUMs over the ledger that far.
BalancesAt(cutoff) == [k \in Keys |-> Rollup(SubSeq(ledger, 1, cutoff), k)]

QtyIn(map, bucket) == [pair \in Pairs |-> map[<<pair[1], pair[2], bucket>>].qty]

AedIn(map, bucket) == [pair \in Pairs |-> map[<<pair[1], pair[2], bucket>>].aed]

\* The quantity of a bucket, and the value, that a report adds up over its rows.
TotalQty(map, pairs, bucket) == SumFunctionOnSet(QtyIn(map, bucket), pairs)

TotalAed(map, pairs, bucket) == SumFunctionOnSet(AedIn(map, bucket), pairs)

\* dashboard_data: the cards add up every balance there is.
DashboardCard(map, bucket) == TotalQty(map, Pairs, bucket)

\* build_current_stock_by_location: no row without a quantity in some bucket.
StockByLocationRows(map) ==
    {pair \in Pairs : \E bucket \in Buckets : QtyIn(map, bucket)[pair] # 0}

\* build_total_company_stock: no row for a product with no quantity anywhere in
\* the company, though one location may owe what another has.
PairsOf(p) == {p} \X Locations

CompanyRows(map) ==
    {p \in Products : \E bucket \in Buckets : TotalQty(map, PairsOf(p), bucket) # 0}

CompanyQty(map, bucket) ==
    SumFunctionOnSet([p \in Products |-> TotalQty(map, PairsOf(p), bucket)], CompanyRows(map))

WorthOf(map, pairs) ==
    SumFunctionOnSet([bucket \in Buckets |-> TotalAed(map, pairs, bucket)], Buckets)

CompanyValue(map) ==
    SumFunctionOnSet([p \in Products |-> WorthOf(map, PairsOf(p))], CompanyRows(map))

\* Mutant of ValuationRows: value without units is taken for nothing.
StockedPairs(map) == StockByLocationRows(map)

\* _valuation_pivot: no row where both the quantities and the values of the three
\* buckets add up to nothing.
ValuationRows(map) ==
    {pair \in Pairs :
        \/ SumFunctionOnSet([bucket \in Buckets |-> QtyIn(map, bucket)[pair]], Buckets) # 0
        \/ WorthOf(map, {pair}) # 0}

\* build_valuation_summary and build_valuation_detail.
WorthByBucket(map, bucket) == TotalAed(map, ValuationRows(map), bucket)

TotalWorth(map) == WorthOf(map, ValuationRows(map))

\* build_stock_ledger_report: what came in less what went out, from one row of the
\* ledger to another.
LedgerReportNet(from, to, bucket) ==
    Net(SubSeq(ledger, from + 1, to), LAMBDA row : row.bucket = bucket).qty

-----------------------------------------------------------------------------
(* Properties *)

\* A location whose buckets cancel out: it owes in one bucket what it has in
\* another, in units and in value.
CancelsOut(map, pair) ==
    /\ pair \notin ValuationRows(map)
    /\ \E bucket \in Buckets : AedIn(map, bucket)[pair] # 0

\* Live or from the ledger, no report loses stock: the valuation is worth all that
\* is on the books, the location and the company report count what the dashboard
\* counts, and what the ledger report shows since any moment is what the dashboard
\* changed by since.
\* The company report is worth what the valuation is unless value is stranded on a
\* product without units, and the worth of a bucket is exact unless a location
\* cancels out.
ReportsAccountForStock ==
    LET Agree(map) ==
          /\ TotalWorth(map) = WorthOf(map, Pairs)
          /\ \/ CompanyValue(map) = TotalWorth(map)
             \/ \E p \in Products \ CompanyRows(map) : WorthOf(map, PairsOf(p)) # 0
          /\ \A bucket \in Buckets :
                /\ TotalQty(map, StockByLocationRows(map), bucket)
                      = DashboardCard(map, bucket)
                /\ CompanyQty(map, bucket) = DashboardCard(map, bucket)
                /\ \/ WorthByBucket(map, bucket) = TotalAed(map, Pairs, bucket)
                   \/ \E pair \in Pairs : CancelsOut(map, pair)
    IN  /\ \A map \in {balance, BalancesAt(Len(ledger))} : Agree(map)
        /\ \A from \in 0..Len(ledger), bucket \in Buckets :
              LedgerReportNet(from, Len(ledger), bucket)
                  = DashboardCard(balance, bucket) - DashboardCard(BalancesAt(from), bucket)
=============================================================================
