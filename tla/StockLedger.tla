---------------------------- MODULE StockLedger ----------------------------
(***************************************************************************)
(* The stock ledger and its posting service (apps/inventory/services.py):  *)
(* an append-only sequence of rows, and one running balance per            *)
(* product, location and bucket that is rolled forward with every post.    *)
(*                                                                         *)
(* Every stock service of the application reads the ledger with SUMs and   *)
(* writes it through post_event.  A service may post several times in one  *)
(* database transaction, and read between its posts, so posting is first   *)
(* defined on a "book" (a ledger with its balances) and the actions below  *)
(* install the book a whole transaction ends with.                         *)
(*                                                                         *)
(* A row's quantity and value are signed here: +n stands for qty_in = n,   *)
(* -n for qty_out = n, and the value follows the direction, as in the SUMs *)
(* of the code.  The tax component of a row is carried by the code with    *)
(* the same arithmetic as its value and is left out.                       *)
(***************************************************************************)
EXTENDS SeqSums, SequencesExt

CONSTANTS Products,     \* masterdata: the products
          Locations,    \* masterdata: the locations
          MaxRows       \* bound: the ledger never grows beyond this

VARIABLES ledger,       \* StockLedgerEntry: the rows, in order of their id
          balance       \* StockBalance: [Keys -> [qty, aed]]

ledgerVars == <<ledger, balance>>

Buckets == {"PHYSICAL", "PENDING", "IN_TRANSIT"}

SourceTypes == {"PURCHASE", "PURCHASE_COLLECTION", "PURCHASE_REFUND", "SHIPMENT",
                "SHIPMENT_RECEIPT", "SALE", "STOCK_ADJUSTMENT"}

Keys == Products \X Locations \X Buckets

Rows == [stype: SourceTypes, sid: Nat, line: Nat, product: Products,
         loc: Locations, bucket: Buckets, qty: Int, aed: Int]

KeyOf(row) == <<row.product, row.loc, row.bucket>>

\* What the rows that Sel selects add up to: SUM(quantity) and SUM(value).
Net(rows, Sel(_)) ==
    [qty |-> SumOf(rows, Sel, LAMBDA row : row.qty),
     aed |-> SumOf(rows, Sel, LAMBDA row : row.aed)]

\* The rollup of one key, which rebuild_stock_balances computes for every key.
Rollup(rows, key) == Net(rows, LAMBDA row : KeyOf(row) = key)

\* The rows of one business record (source_type, source_id), oldest first.
SourceRows(rows, stype, sid) ==
    Kept(rows, {i \in DOMAIN rows : rows[i].stype = stype /\ rows[i].sid = sid})

\* The ids among `ids` of a table with n records, in order.
Ordered(ids, n) == Kept([i \in 1..n |-> i], ids)

-----------------------------------------------------------------------------
(* Posting *)

\* Movement.__post_init__: exactly one direction, and a value magnitude >= 0.
WellFormed(move) ==
    /\ move.qty # 0
    /\ move.qty > 0 => move.aed >= 0
    /\ move.qty < 0 => move.aed <= 0

\* Mutant of ValidMovements: nobody looks at the bucket.
AnyMovements(moves) ==
    /\ moves # << >>
    /\ \A i \in DOMAIN moves : WellFormed(moves[i])

\* At least one movement, each with a known bucket and source type, a product
\* and a location that exist (foreign keys), and well formed.
ValidMovements(moves) ==
    /\ moves \in Seq(Rows)
    /\ moves # << >>
    /\ \A i \in DOMAIN moves : WellFormed(moves[i])

\* The running balance after the first i movements of a post.
RunningQty(book, moves, i) ==
    book.balance[KeyOf(moves[i])].qty
        + Rollup(SubSeq(moves, 1, i), KeyOf(moves[i])).qty

\* Unless confirmed, no movement may take a PHYSICAL balance out and below zero.
StaysCovered(book, moves) ==
    \A i \in DOMAIN moves :
        moves[i].bucket = "PHYSICAL" /\ moves[i].qty < 0
            => RunningQty(book, moves, i) >= 0

\* Mutant of CanPost: only the first movement of the event is looked at.
CanStart(book, moves, confirm) ==
    /\ ValidMovements(moves)
    /\ confirm \/ StaysCovered(book, SubSeq(moves, 1, 1))

\* post_event raises unless this holds; the caller's transaction then rolls back.
CanPost(book, moves, confirm) ==
    /\ ValidMovements(moves)
    /\ confirm \/ StaysCovered(book, moves)

\* Mutant of Posted: each movement rolls the balance read before the loop
\* forward, so only the last one of a key counts.
PostedStale(book, moves) ==
    LET last(k) == SelectLastInSeq(moves, LAMBDA m : KeyOf(m) = k)
    IN  [ledger  |-> book.ledger \o moves,
         balance |-> [k \in Keys |->
                        IF last(k) = 0 THEN book.balance[k]
                        ELSE [qty |-> book.balance[k].qty + moves[last(k)].qty,
                              aed |-> book.balance[k].aed + moves[last(k)].aed]]]

\* The book after post_event: rows appended, each balance rolled forward.
Posted(book, moves) ==
    [ledger  |-> book.ledger \o moves,
     balance |-> [k \in Keys |->
                    [qty |-> book.balance[k].qty + Rollup(moves, k).qty,
                     aed |-> book.balance[k].aed + Rollup(moves, k).aed]]]

Book == [ledger |-> ledger, balance |-> balance]

\* The transaction commits with this book.
Install(book) ==
    /\ Len(book.ledger) <= MaxRows
    /\ ledger' = book.ledger
    /\ balance' = book.balance

\* A transaction that posts once.
Post(moves, confirm) ==
    /\ CanPost(Book, moves, confirm)
    /\ Install(Posted(Book, moves))

-----------------------------------------------------------------------------
(* Reversals *)

\* reversal_movements: undo the rows one by one.  Entries come newest first,
\* the default order of StockLedgerEntry.
ReversalMovements(rows) ==
    [i \in 1..Len(rows) |->
        LET row == rows[Len(rows) + 1 - i]
        IN  [row EXCEPT !.qty = -row.qty, !.aed = -row.aed]]

\* net_reversal_movements: the rows are grouped by line, product, location and
\* bucket, and each group is undone by one movement.
SameGroup(r, s) == r.line = s.line /\ KeyOf(r) = KeyOf(s)

GroupNet(rows, row) == Net(rows, LAMBDA r : SameGroup(r, row))

\* A group whose quantity is zero but whose value is not, or whose quantity and
\* value point in opposite directions, is refused with a PostingError.
NetReversible(rows) ==
    \A i \in DOMAIN rows :
        LET net == GroupNet(rows, rows[i])
        IN  /\ net.qty = 0 => net.aed = 0
            /\ net.qty > 0 => net.aed >= 0
            /\ net.qty < 0 => net.aed <= 0

\* What undoes the group of each row, newest row first.
GroupReversals(rows) ==
    [i \in 1..Len(rows) |->
        LET row == rows[Len(rows) + 1 - i]
            net == GroupNet(rows, row)
        IN  [row EXCEPT !.qty = -net.qty, !.aed = -net.aed]]

\* Where a group comes up first.
FirstOfGroup(moves) ==
    {i \in DOMAIN moves : \A j \in 1..(i - 1) : ~SameGroup(moves[i], moves[j])}

\* One movement per group, unless the group is at zero already.
Effective(moves) == Kept(moves, {i \in FirstOfGroup(moves) : moves[i].qty # 0})

\* Mutant of NetReversalMovements: only the newest row of a group is undone.
NewestReversals(rows) == Effective(ReversalMovements(rows))

\* One movement per group that is not already at zero (before the sort: a mutant
\* of NetReversalMovements that leaves the sort out).
NetReversals(rows) == Effective(GroupReversals(rows))

\* What brings stock before what takes it, otherwise in the order they have.
CreditsFirst(moves) ==
    Kept(moves, {i \in DOMAIN moves : moves[i].qty > 0})
        \o Kept(moves, {i \in DOMAIN moves : moves[i].qty < 0})

\* Credits before debits, otherwise in the order of the newest rows.
NetReversalMovements(rows) == CreditsFirst(NetReversals(rows))

-----------------------------------------------------------------------------
(* Reconciliation *)

\* The balances that disagree with the ledger: what rebuild_stock_balances
\* reports.  A missing balance row is a balance of zero.
Drift == {k \in Keys : balance[k] # Rollup(ledger, k)}

\* rebuild_stock_balances: overwrite the balances that drifted.
RebuildStockBalances ==
    /\ balance' = [k \in Keys |-> IF k \in Drift THEN Rollup(ledger, k) ELSE balance[k]]
    /\ UNCHANGED ledger

LedgerInit ==
    /\ ledger = << >>
    /\ balance = [k \in Keys |-> [qty |-> 0, aed |-> 0]]

LedgerTypeOK ==
    /\ ledger \in Seq(Rows)
    /\ balance \in [Keys -> [qty: Int, aed: Int]]
=============================================================================
