--------------------------- MODULE LedgerService ---------------------------
(***************************************************************************)
(* The posting service on its own, driven by any caller: a caller posts a  *)
(* batch of movements for one of its records, with or without the          *)
(* confirmation of negative stock, undoes what a record contributed, or    *)
(* runs the nightly reconciliation.  The modules of the stock services     *)
(* (Purchases, ...) are such callers; here the callers are arbitrary, so   *)
(* that what holds here holds whatever a service asks for.                 *)
(***************************************************************************)
EXTENDS StockLedger

CONSTANTS Batches,          \* the batches of movements the callers may post
          CallerConfirms    \* the values of confirm_negative they may pass

ASSUME ConfirmsAssumption == CallerConfirms \subseteq BOOLEAN

Sources == {<<row.stype, row.sid>> : row \in ToSet(ledger)}

\* A caller posts one business event.
PostEvent(moves, confirm) == Post(moves, confirm)

\* A caller undoes the current contribution of a record.
UndoSource(src, confirm) ==
    LET rows == SourceRows(ledger, src[1], src[2])
    IN  /\ NetReversible(rows)
        /\ Post(NetReversalMovements(rows), confirm)

\* A caller undoes a record's rows one by one.
UndoRows(src, confirm) ==
    Post(ReversalMovements(SourceRows(ledger, src[1], src[2])), confirm)

ServiceNext ==
    \/ \E moves \in Batches, confirm \in CallerConfirms : PostEvent(moves, confirm)
    \/ \E src \in Sources, confirm \in CallerConfirms : UndoSource(src, confirm)
    \/ \E src \in Sources, confirm \in CallerConfirms : UndoRows(src, confirm)
    \/ RebuildStockBalances

ServiceSpec == LedgerInit /\ [][ServiceNext]_ledgerVars

-----------------------------------------------------------------------------
(* Properties *)

\* The materialised balances always equal the rollup of the ledger, so the
\* nightly rebuild never finds drift (rebuild_stock_balances, "empty = clean"),
\* whatever mix of posts and undos the services make.
NoDrift == Drift = {}

\* As long as nobody confirms, no PHYSICAL balance is ever negative, although
\* the check of post_event only looks at outgoing movements one at a time and
\* one event may move several lines of the same balance (FR-082).
PhysicalNeverNegative ==
    TRUE \notin CallerConfirms => \A k \in Keys : k[3] = "PHYSICAL" => balance[k].qty >= 0

\* Undoing a record's net contribution leaves nothing of it: every group of its
\* rows is at zero quantity and value, and a second undo has nothing to do.
UndoLeavesNothing ==
    \A src \in Sources :
        LET rows  == SourceRows(ledger, src[1], src[2])
            after == rows \o NetReversalMovements(rows)
        IN  NetReversible(rows) =>
                /\ \A i \in DOMAIN after :
                      GroupNet(after, after[i]) = [qty |-> 0, aed |-> 0]
                /\ NetReversalMovements(after) = << >>

\* Undoing a net contribution never asks for a confirmation the outcome does not
\* need: if no balance ends below zero, no step on the way is refused
\* ("Credits first if a source contains several components of a pooled balance").
UndoHasNoTransientShortage ==
    \A src \in Sources :
        LET rows  == SourceRows(ledger, src[1], src[2])
            moves == NetReversalMovements(rows)
        IN  (\A k \in Keys : Posted(Book, moves).balance[k].qty >= 0)
                => StaysCovered(Book, moves)
=============================================================================
