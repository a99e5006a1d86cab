------------------------- MODULE StockRequestsProofs -------------------------
(***************************************************************************)
(* Proofs about concurrent stock requests, for every set of requests,      *)
(* products and orders, and every stocked shop: what the advisory lock     *)
(* protects, and that requests which interleave and die act as if each     *)
(* took effect at once.                                                    *)
(*                                                                         *)
(* Both rest on the same invariant: only the holder of the advisory lock   *)
(* reads, posts and owns balance rows (LockInv), so what it computed and   *)
(* what it has posted so far is about the stock as it is (BatchInv).       *)
(***************************************************************************)
EXTENDS StockRequests, StockLedgerProofs

\* What is committed is typed, and the shop was stocked.
StockInv ==
    /\ ledger \in Seq(Rows) \ {<< >>}
    /\ balance \in [Keys -> Amounts]

\* A request is new exactly as long as it asked nothing.
AskedInv ==
    /\ asked \in [Requests -> Serial!Bodies \union {Serial!Nothing}]
    /\ pc \in [Requests -> States]
    /\ \A r \in Requests : pc[r] = "new" <=> asked[r] = Serial!Nothing

\* Whoever holds the advisory lock reads or posts, and nobody else does; the
\* rows of the balance table are locked by the holder only.
LockInv ==
    /\ holder \in Requests \union {NoOne}
    /\ \A r \in Requests : holder = r <=> pc[r] \in {"reading", "posting"}
    /\ rowOwner \in [Keys -> Requests \union {NoOne}]
    /\ \A k \in Keys : rowOwner[k] \in {NoOne, holder}

\* A request that posts has the key and the movements it would get now, and what
\* it posted so far was covered.
BatchInv ==
    /\ id \in [Requests -> Nat]
    /\ moves \in [Requests -> Seq(Rows)]
    /\ posted \in [Requests -> Nat]
    /\ \A r \in Requests : posted[r] <= Len(moves[r])
    /\ \A r \in Requests : pc[r] = "posting" =>
        /\ id[r] = Len(ledger)
        /\ moves[r] = Serial!SaleMoves(PoolsAt(Shop), id[r], asked[r].items)
        /\ asked[r].confirm \/
              \A i \in 1..posted[r] : RunningQty(Book, moves[r], i) >= 0

\* Who does not post has posted nothing.
IdleInv == \A r \in Requests : pc[r] # "posting" => posted[r] = 0

RequestInv == StockInv /\ AskedInv /\ LockInv /\ BatchInv /\ IdleInv
-----------------------------------------------------------------------------
(* SerialStock speaks of the same stock *)

\* What the ledger of either module adds up to for a key is the same.
LEMMA SameRollup == \A rows, key : Serial!Rollup(rows, key) = Rollup(rows, key)
BY DEF Serial!Rollup, Serial!Net, Serial!SumOf, Serial!SumSeq, Serial!PrefixSums, Serial!KeyOf,
       Rollup, Net, SumOf, SumSeq, PrefixSums, KeyOf

\* Keys and rows are the same.
LEMMA SameKeys == Serial!Keys = Keys /\ Serial!Rows = Rows
BY DEF Serial!Keys, Serial!Buckets, Serial!Rows, Serial!SourceTypes, Keys, Buckets, Rows, SourceTypes

\* Posting leads to the same book.
LEMMA SamePosted == \A book, batch : Serial!Posted(book, batch) = Posted(book, batch)
BY SameKeys, SameRollup DEF Serial!Posted, Posted

\* Either module posts the same batches.
LEMMA SameCanPost == \A book, batch, confirm :
    Serial!CanPost(book, batch, confirm) <=> CanPost(book, batch, confirm)
<1>1. \A batch : Serial!ValidMovements(batch) <=> ValidMovements(batch)
  BY SameKeys DEF Serial!ValidMovements, Serial!WellFormed, ValidMovements, WellFormed
<1>2. \A book, batch : Serial!StaysCovered(book, batch) <=> StaysCovered(book, batch)
  BY SameRollup DEF Serial!StaysCovered, Serial!RunningQty, Serial!KeyOf,
                    StaysCovered, RunningQty, KeyOf
<1> QED
  BY <1>1, <1>2 DEF Serial!CanPost, CanPost

\* A step that posts is the same step.
LEMMA SamePost == \A batch, confirm : Serial!Post(batch, confirm) <=> Post(batch, confirm)
BY SameCanPost, SamePosted DEF Serial!Post, Serial!Install, Serial!Book, Post, Install, Book

\* Lines are priced the same.
LEMMA SameShare == \A pools, items, i :
    Serial!ShareInTurn(pools, items, i) = ShareInTurn(pools, items, i)
<1>1. \A q, pool : Serial!CarryingShare(q, pool) = CarryingShare(q, pool)
  BY DEF Serial!CarryingShare, Serial!RoundHalfUp, CarryingShare, RoundHalfUp
<1>2. \A pools, p, q : Serial!Taken(pools, p, q) = Taken(pools, p, q)
  BY <1>1 DEF Serial!Taken, Taken
<1>3. \A pools, items : Serial!PoolsInTurn(pools, items) = PoolsInTurn(pools, items)
  BY <1>2 DEF Serial!PoolsInTurn, PoolsInTurn
<1> QED
  BY <1>1, <1>3 DEF Serial!ShareInTurn, ShareInTurn

-----------------------------------------------------------------------------
(* What a request computes *)

\* The pools of the shop hold amounts.
LEMMA ShopPools == StockInv => PoolsAt(Shop) \in [Products -> Amounts]
<1> SUFFICES ASSUME StockInv, NEW p \in Products
             PROVE  balance[<<p, Shop, "PHYSICAL">>] \in Amounts
  BY DEF PoolsAt
<1>1. <<p, Shop, "PHYSICAL">> \in Keys
  BY OrdersAssumption DEF Keys, Buckets
<1> QED
  BY <1>1 DEF StockInv

\* The movements of an order are ones post_event accepts, all out of PHYSICAL.
LEMMA SaleMovesValid ==
    ASSUME NEW pools \in [Products -> Amounts], NEW n \in Nat, NEW items \in Orders
    PROVE  LET sale == Serial!SaleMoves(pools, n, items)
           IN  /\ sale \in Seq(Rows)
               /\ ValidMovements(sale)
               /\ \A i \in DOMAIN sale : sale[i].bucket = "PHYSICAL" /\ sale[i].qty < 0
<1> DEFINE sale == Serial!SaleMoves(pools, n, items)
           out(i) == -items[i].quantity
           aed(i) == -ShareInTurn(pools, items, i)
<1>1. items \in Seq(Items) /\ items # << >> /\ Shop \in Locations
  BY OrdersAssumption DEF Items
<1>2. DOMAIN items = 1..Len(items) /\ Len(items) \in Nat
  BY <1>1
<1>3. sale = [i \in 1..Len(items) |->
                [stype |-> "SALE", sid |-> n, line |-> i, product |-> items[i].product,
                 loc |-> Shop, bucket |-> "PHYSICAL", qty |-> out(i), aed |-> aed(i)]]
  BY <1>2, SameShare DEF Serial!SaleMoves, Serial!StockMove
<1>4. ASSUME NEW i \in 1..Len(items)
      PROVE  /\ items[i].product \in Products
             /\ out(i) \in Int /\ out(i) < 0
             /\ aed(i) \in Int /\ aed(i) <= 0
  <2>1. items[i] \in Items
    BY <1>1
  <2>2. items[i].product \in Products /\ items[i].quantity \in Nat \ {0}
    BY <2>1 DEF Items
  <2>3. AreItems(items)
    <3>1. \A k \in 1..Len(items) : items[k] \in Items
      BY <1>1
    <3> QED
      BY <1>2, <3>1 DEF AreItems, Items
  <2>4. ShareInTurn(pools, items, i) \in Nat
    BY <1>2, <2>3, ShareInTurnType
  <2> QED
    BY <2>2, <2>4
<1> HIDE DEF out, aed, sale
<1>5. ASSUME NEW i \in 1..Len(items)
      PROVE  /\ sale[i] \in Rows
             /\ sale[i].bucket = "PHYSICAL" /\ sale[i].qty < 0
             /\ WellFormed(sale[i])
  <2>1. sale[i] = [stype |-> "SALE", sid |-> n, line |-> i, product |-> items[i].product,
                   loc |-> Shop, bucket |-> "PHYSICAL", qty |-> out(i), aed |-> aed(i)]
    BY <1>3
  <2>2. sale[i] \in Rows
    BY <1>1, <1>2, <1>4, <2>1 DEF Rows, SourceTypes, Buckets
  <2>3. sale[i].qty = out(i) /\ sale[i].aed = aed(i) /\ sale[i].bucket = "PHYSICAL"
    BY <2>1
  <2> QED
    BY <1>4, <2>2, <2>3 DEF WellFormed
<1>6. sale \in Seq(Rows) /\ DOMAIN sale = 1..Len(items) /\ Len(sale) = Len(items)
  BY <1>2, <1>3, <1>5
<1>7. sale # << >>
  BY <1>1, <1>6
<1>8. ValidMovements(sale)
  BY <1>5, <1>6, <1>7 DEF ValidMovements
<1>9. \A i \in DOMAIN sale : sale[i].bucket = "PHYSICAL" /\ sale[i].qty < 0
  BY <1>5, <1>6
<1> QED
  BY <1>6, <1>8, <1>9 DEF sale

\* Installing a batch of rows on typed stock leaves typed stock.
LEMMA InstallTyped ==
    ASSUME StockInv, NEW batch \in Seq(Rows), Install(Posted(Book, batch))
    PROVE  StockInv'
<1>1. ledger' = ledger \o batch
  BY DEF Install, Posted, Book
<1>2. balance' = [k \in Keys |-> [qty |-> balance[k].qty + Rollup(batch, k).qty,
                                  aed |-> balance[k].aed + Rollup(batch, k).aed]]
  BY DEF Install, Posted, Book
<1>3. ASSUME NEW k \in Keys
      PROVE  [qty |-> balance[k].qty + Rollup(batch, k).qty,
              aed |-> balance[k].aed + Rollup(batch, k).aed] \in Amounts
  <2>1. Rollup(batch, k) \in Amounts
    BY RollupType DEF Amounts
  <2>2. balance[k] \in Amounts
    BY DEF StockInv
  <2> QED
    BY <2>1, <2>2 DEF Amounts
<1>4. balance' \in [Keys -> Amounts]
  BY <1>2, <1>3
<1>5. ledger' \in Seq(Rows) \ {<< >>}
  BY <1>1 DEF StockInv
<1> QED
  BY <1>4, <1>5 DEF StockInv

\* The stocked shop is typed.
LEMMA StockedTyped ==
    ASSUME ledger = Serial!Stocked.ledger, balance = Serial!Stocked.balance
    PROVE  StockInv
<1> DEFINE zero == [k \in Keys |-> [qty |-> 0, aed |-> 0]]
           empty == [ledger |-> << >>, balance |-> zero]
<1>1. Serial!Stocked = Posted(empty, Opening)
  BY SamePosted, SameKeys DEF Serial!Stocked
<1>2. ledger = << >> \o Opening
  BY <1>1 DEF Posted
<1>3. balance = [k \in Keys |-> [qty |-> zero[k].qty + Rollup(Opening, k).qty,
                                 aed |-> zero[k].aed + Rollup(Opening, k).aed]]
  BY <1>1 DEF Posted
<1>4. ASSUME NEW k \in Keys
      PROVE  [qty |-> zero[k].qty + Rollup(Opening, k).qty,
              aed |-> zero[k].aed + Rollup(Opening, k).aed] \in Amounts
  <2>1. Rollup(Opening, k) \in Amounts
    BY OpeningAssumption, RollupType DEF Amounts
  <2>2. zero[k].qty = 0 /\ zero[k].aed = 0
    OBVIOUS
  <2> QED
    BY <2>1, <2>2 DEF Amounts
<1> HIDE DEF zero
<1>5. balance \in [Keys -> Amounts]
  BY <1>3, <1>4
<1>6. ledger \in Seq(Rows) \ {<< >>}
  BY <1>2, OpeningAssumption
<1> QED
  BY <1>5, <1>6 DEF StockInv

-----------------------------------------------------------------------------
(* The invariant *)

\* What r computed and posted so far, on the stock as it is.
BatchOf(r) ==
    /\ id[r] = Len(ledger)
    /\ moves[r] = Serial!SaleMoves(PoolsAt(Shop), id[r], asked[r].items)
    /\ asked[r].confirm \/
          \A i \in 1..posted[r] : RunningQty(Book, moves[r], i) >= 0

\* It is still so if neither the stock nor the request's own record changed.
LEMMA BatchKept ==
    ASSUME NEW r \in Requests, BatchOf(r), UNCHANGED <<ledger, balance>>,
           asked'[r] = asked[r], id'[r] = id[r], moves'[r] = moves[r], posted'[r] = posted[r]
    PROVE  BatchOf(r)'
<1>1. PoolsAt(Shop)' = PoolsAt(Shop) /\ Book' = Book
  BY DEF PoolsAt, Book
<1> QED
  BY <1>1 DEF BatchOf

\* BatchInv in these words.
LEMMA BatchMeans ==
    BatchInv <=> /\ id \in [Requests -> Nat]
                 /\ moves \in [Requests -> Seq(Rows)]
                 /\ posted \in [Requests -> Nat]
                 /\ \A r \in Requests : posted[r] <= Len(moves[r])
                 /\ \A r \in Requests : pc[r] = "posting" => BatchOf(r)
BY DEF BatchInv, BatchOf

\* Whoever posts asked for an order.
LEMMA PostingAsked ==
    ASSUME AskedInv, NEW r \in Requests, pc[r] # "new"
    PROVE  /\ asked[r] \in Serial!Bodies
           /\ asked[r].items \in Orders
           /\ asked[r].confirm \in Confirms
<1>1. asked[r] \in Serial!Bodies
  BY DEF AskedInv
<1> QED
  BY <1>1 DEF Serial!Bodies

\* The end of a transaction frees what the request held and touches nobody else's.
LEMMA EndFacts ==
    ASSUME AskedInv, LockInv, BatchInv, IdleInv, NEW r \in Requests, NEW how \in Ended,
           pc[r] # "new", End(r, how)
    PROVE  /\ AskedInv' /\ LockInv' /\ IdleInv'
           /\ id' \in [Requests -> Nat]
           /\ moves' \in [Requests -> Seq(Rows)]
           /\ posted' \in [Requests -> Nat]
           /\ \A s \in Requests : posted'[s] <= Len(moves'[s])
           /\ pc'[r] = how
           /\ \A s \in Requests : s # r =>
                 /\ pc'[s] = pc[s] /\ asked'[s] = asked[s] /\ id'[s] = id[s]
                 /\ moves'[s] = moves[s] /\ posted'[s] = posted[s]
<1>1. /\ pc' = [pc EXCEPT ![r] = how]
      /\ asked' = asked
      /\ id' = [id EXCEPT ![r] = 0]
      /\ moves' = [moves EXCEPT ![r] = << >>]
      /\ posted' = [posted EXCEPT ![r] = 0]
  BY DEF End, GoTo
<1>2. how \in States \ {"new", "reading", "posting"}
  BY DEF Ended, States
<1>3. pc \in [Requests -> States] /\ id \in [Requests -> Nat]
      /\ moves \in [Requests -> Seq(Rows)] /\ posted \in [Requests -> Nat]
  BY DEF AskedInv, BatchInv
<1>4. /\ pc' \in [Requests -> States] /\ id' \in [Requests -> Nat]
      /\ moves' \in [Requests -> Seq(Rows)] /\ posted' \in [Requests -> Nat]
      /\ pc'[r] = how /\ moves'[r] = << >> /\ posted'[r] = 0
  BY <1>1, <1>2, <1>3
<1>5. \A s \in Requests : s # r =>
         /\ pc'[s] = pc[s] /\ asked'[s] = asked[s] /\ id'[s] = id[s]
         /\ moves'[s] = moves[s] /\ posted'[s] = posted[s]
  BY <1>1, <1>3
<1>6. AskedInv'
  BY <1>1, <1>2, <1>4, <1>5 DEF AskedInv
<1>7. LockInv'
  <2>1. /\ holder' = IF holder = r THEN NoOne ELSE holder
        /\ rowOwner' = [k \in Keys |-> IF rowOwner[k] = r THEN NoOne ELSE rowOwner[k]]
    BY DEF End, Released
  <2>2. \A s \in Requests : holder' = s <=> pc'[s] \in {"reading", "posting"}
    BY <1>2, <1>4, <1>5, <2>1, NoOneAssumption DEF LockInv
  <2>3. rowOwner' \in [Keys -> Requests \union {NoOne}]
    BY <2>1 DEF LockInv
  <2>4. \A k \in Keys : rowOwner'[k] \in {NoOne, holder'}
    BY <2>1 DEF LockInv
  <2> QED
    BY <2>1, <2>2, <2>3, <2>4 DEF LockInv
<1>8. IdleInv'
  BY <1>4, <1>5 DEF IdleInv
<1>9. \A s \in Requests : posted'[s] <= Len(moves'[s])
  <2>1. Len(<< >>) = 0
    OBVIOUS
  <2> QED
    BY <1>4, <1>5, <2>1 DEF BatchInv
<1> QED
  BY <1>4, <1>5, <1>6, <1>7, <1>8, <1>9

\* A rollback disturbs nothing of the others.
LEMMA RollbackKeeps ==
    ASSUME RequestInv, NEW r \in Requests, NEW how \in Ended,
           pc[r] # "new", End(r, how), UNCHANGED <<ledger, balance>>
    PROVE  RequestInv'
<1> USE DEF RequestInv
<1>1. \A s \in Requests : pc'[s] = "posting" => BatchOf(s)'
  <2> SUFFICES ASSUME NEW s \in Requests, pc'[s] = "posting" PROVE BatchOf(s)'
    OBVIOUS
  <2>1. s # r
    BY EndFacts DEF Ended
  <2>2. BatchOf(s)
    BY <2>1, EndFacts, BatchMeans
  <2> QED
    BY <2>1, <2>2, EndFacts, BatchKept
<1>2. BatchInv'
  BY <1>1, EndFacts DEF BatchInv, BatchOf
<1>3. StockInv'
  BY DEF StockInv
<1> QED
  BY <1>2, <1>3, EndFacts

\* A request that posts has movements post_event accepts, all out of PHYSICAL.
LEMMA BatchValid ==
    ASSUME RequestInv, NEW r \in Requests, pc[r] = "posting"
    PROVE  /\ moves[r] \in Seq(Rows)
           /\ ValidMovements(moves[r])
           /\ \A i \in DOMAIN moves[r] : moves[r][i].bucket = "PHYSICAL" /\ moves[r][i].qty < 0
<1>1. moves[r] = Serial!SaleMoves(PoolsAt(Shop), id[r], asked[r].items) /\ id[r] \in Nat
  BY DEF RequestInv, BatchInv
<1>2. asked[r].items \in Orders
  BY PostingAsked DEF RequestInv
<1>3. PoolsAt(Shop) \in [Products -> Amounts]
  BY ShopPools DEF RequestInv
<1> QED
  BY <1>1, <1>2, <1>3, SaleMovesValid

\* A commit installs a batch that may be posted on the stock of that moment.
LEMMA CommitPosts ==
    ASSUME RequestInv, NEW r \in Requests, Commit(r)
    PROVE  Post(moves[r], asked[r].confirm)
<1>1. pc[r] = "posting" /\ posted[r] = Len(moves[r]) /\ Install(Posted(Book, moves[r]))
  BY DEF Commit
<1>2. moves[r] \in Seq(Rows) /\ ValidMovements(moves[r])
  BY <1>1, BatchValid
<1>3. asked[r].confirm \/ \A i \in 1..Len(moves[r]) : RunningQty(Book, moves[r], i) >= 0
  BY <1>1 DEF RequestInv, BatchInv
<1>4. asked[r].confirm \/ StaysCovered(Book, moves[r])
  BY <1>2, <1>3 DEF StaysCovered
<1> QED
  BY <1>1, <1>2, <1>4 DEF Post, CanPost

\* A commit changes the stock, and nobody else had computed anything from it.
LEMMA CommitKeeps ==
    ASSUME RequestInv, NEW r \in Requests, Commit(r)
    PROVE  RequestInv'
<1> USE DEF RequestInv
<1>1. pc[r] = "posting" /\ End(r, "committed") /\ "committed" \in Ended
  BY DEF Commit, Ended
<1>2. moves[r] \in Seq(Rows) /\ Install(Posted(Book, moves[r]))
  BY <1>1, BatchValid DEF Commit
<1>3. StockInv'
  BY <1>2, InstallTyped
<1>4. \A s \in Requests : pc'[s] # "posting"
  <2> SUFFICES ASSUME NEW s \in Requests, pc'[s] = "posting" PROVE FALSE
    OBVIOUS
  <2>1. s # r /\ pc[s] = "posting"
    BY <1>1, EndFacts
  <2> QED
    BY <1>1, <2>1 DEF LockInv
<1>5. BatchInv'
  BY <1>1, <1>4, EndFacts DEF BatchInv
<1> QED
  BY <1>1, <1>3, <1>5, EndFacts

\* An arrival only joins the line.
LEMMA ArriveKeeps ==
    ASSUME RequestInv, NEW r \in Requests, NEW body \in Serial!Bodies, Arrive(r, body)
    PROVE  RequestInv'
<1> USE DEF RequestInv
<1>1. /\ pc[r] = "new"
      /\ asked' = [asked EXCEPT ![r] = body]
      /\ pc' = [pc EXCEPT ![r] = "waiting"]
      /\ UNCHANGED <<ledger, balance, id, moves, posted, holder, rowOwner>>
  BY DEF Arrive, GoTo
<1>2. body # Serial!Nothing
  BY OrdersAssumption DEF Serial!Bodies, Serial!Nothing
<1>3. /\ pc \in [Requests -> States] /\ "waiting" \in States
      /\ asked \in [Requests -> Serial!Bodies \union {Serial!Nothing}]
  BY DEF AskedInv, States
<1>4. /\ pc' \in [Requests -> States] /\ pc'[r] = "waiting"
      /\ asked' \in [Requests -> Serial!Bodies \union {Serial!Nothing}] /\ asked'[r] = body
      /\ \A s \in Requests : s # r => pc'[s] = pc[s] /\ asked'[s] = asked[s]
  BY <1>1, <1>3
<1>5. AskedInv'
  BY <1>2, <1>4 DEF AskedInv
<1>6. LockInv' /\ StockInv' /\ IdleInv'
  BY <1>1, <1>4 DEF LockInv, StockInv, IdleInv
<1>7. \A s \in Requests : pc'[s] = "posting" => BatchOf(s)'
  BY <1>1, <1>4, BatchMeans, BatchKept
<1>8. BatchInv'
  BY <1>1, <1>7 DEF BatchInv, BatchOf
<1> QED
  BY <1>5, <1>6, <1>8

\* The lock is granted when nobody reads or posts.
LEMMA AcquireKeeps ==
    ASSUME RequestInv, NEW r \in Requests, Acquire(r)
    PROVE  RequestInv'
<1> USE DEF RequestInv
<1>1. /\ pc[r] = "waiting"
      /\ holder = NoOne /\ holder' = r
      /\ pc' = [pc EXCEPT ![r] = "reading"]
      /\ UNCHANGED <<ledger, balance, asked, id, moves, posted, rowOwner>>
  BY DEF Acquire, LockGranted, GoTo
<1>2. /\ pc' \in [Requests -> States] /\ pc'[r] = "reading"
      /\ \A s \in Requests : s # r => pc'[s] = pc[s]
  BY <1>1 DEF AskedInv, States
<1>3. AskedInv'
  BY <1>1, <1>2 DEF AskedInv
<1>4. LockInv'
  BY <1>1, <1>2, NoOneAssumption DEF LockInv
<1>5. StockInv' /\ IdleInv'
  BY <1>1, <1>2 DEF StockInv, IdleInv
<1>6. \A s \in Requests : pc'[s] = "posting" => BatchOf(s)'
  BY <1>1, <1>2, BatchMeans, BatchKept
<1>7. BatchInv'
  BY <1>1, <1>6 DEF BatchInv, BatchOf
<1> QED
  BY <1>3, <1>4, <1>5, <1>7

\* What the holder computes is about the stock as it is.
LEMMA ComputeKeeps ==
    ASSUME RequestInv, NEW r \in Requests, Compute(r)
    PROVE  RequestInv'
<1> USE DEF RequestInv
<1> DEFINE sale == Serial!SaleMoves(PoolsAt(Shop), Len(ledger), asked[r].items)
<1>1. /\ pc[r] = "reading"
      /\ id' = [id EXCEPT ![r] = Len(ledger)]
      /\ moves' = [moves EXCEPT ![r] = sale]
      /\ pc' = [pc EXCEPT ![r] = "posting"]
      /\ UNCHANGED <<ledger, balance, asked, posted, holder, rowOwner>>
  BY DEF Compute, GoTo
<1>2. sale \in Seq(Rows) /\ Len(ledger) \in Nat
  <2>1. asked[r].items \in Orders
    BY <1>1, PostingAsked
  <2>2. PoolsAt(Shop) \in [Products -> Amounts]
    BY ShopPools
  <2>3. Len(ledger) \in Nat
    BY DEF StockInv
  <2> QED
    BY <2>1, <2>2, <2>3, SaleMovesValid
<1>3. PoolsAt(Shop)' = PoolsAt(Shop)
  BY <1>1 DEF PoolsAt
<1>4. /\ pc' \in [Requests -> States] /\ pc'[r] = "posting"
      /\ id' \in [Requests -> Nat] /\ id'[r] = Len(ledger)
      /\ moves' \in [Requests -> Seq(Rows)] /\ moves'[r] = sale
      /\ \A s \in Requests : s # r => pc'[s] = pc[s] /\ id'[s] = id[s] /\ moves'[s] = moves[s]
  <2> HIDE DEF sale
  <2> QED
    BY <1>1, <1>2 DEF AskedInv, BatchInv, States
<1>5. posted[r] = 0
  BY <1>1 DEF IdleInv
<1>6. AskedInv'
  BY <1>1, <1>4 DEF AskedInv
<1>7. LockInv'
  BY <1>1, <1>4 DEF LockInv
<1>8. StockInv' /\ IdleInv'
  BY <1>1, <1>4 DEF StockInv, IdleInv
<1>9. BatchOf(r)'
  BY <1>1, <1>3, <1>4, <1>5 DEF BatchOf
<1>10. ASSUME NEW s \in Requests, pc'[s] = "posting", s # r PROVE BatchOf(s)'
  BY <1>1, <1>4, <1>10, BatchMeans, BatchKept
<1>11. \A s \in Requests : posted'[s] <= Len(moves'[s])
  <2>1. posted'[r] <= Len(moves'[r])
    BY <1>1, <1>2, <1>4, <1>5
  <2> QED
    BY <1>1, <1>4, <2>1 DEF BatchInv
<1>12. BatchInv'
  BY <1>1, <1>4, <1>9, <1>10, <1>11 DEF BatchInv, BatchOf
<1> QED
  BY <1>6, <1>7, <1>8, <1>12

\* What is posted next is covered, on a row nobody else holds.
LEMMA PostNextKeeps ==
    ASSUME RequestInv, NEW r \in Requests, PostNext(r)
    PROVE  RequestInv'
<1> USE DEF RequestInv
<1>1. /\ pc[r] = "posting" /\ posted[r] < Len(moves[r])
      /\ asked[r].confirm \/ RunningQty(Book, moves[r], posted[r] + 1) >= 0
      /\ rowOwner' = [rowOwner EXCEPT ![NextRow(r)] = r]
      /\ posted' = [posted EXCEPT ![r] = posted[r] + 1]
      /\ UNCHANGED <<ledger, balance, asked, pc, id, moves, holder>>
  BY DEF PostNext, RowGranted, More, NextCovered
<1>2. posted[r] \in Nat /\ moves[r] \in Seq(Rows) /\ Len(moves[r]) \in Nat
  BY DEF BatchInv
<1>3. /\ posted' \in [Requests -> Nat] /\ posted'[r] = posted[r] + 1
      /\ \A s \in Requests : s # r => posted'[s] = posted[s]
  BY <1>1, <1>2 DEF BatchInv
<1>4. AskedInv' /\ StockInv'
  BY <1>1 DEF AskedInv, StockInv
<1>5. LockInv'
  <2>1. holder = r
    BY <1>1 DEF LockInv
  <2> DEFINE k == NextRow(r)
  <2>2. rowOwner' = [rowOwner EXCEPT ![k] = r]
    BY <1>1
  <2> HIDE DEF k
  <2>3. rowOwner' \in [Keys -> Requests \union {NoOne}]
    BY <2>2 DEF LockInv
  <2>4. \A q \in Keys : rowOwner'[q] \in {NoOne, holder'}
    BY <1>1, <2>1, <2>2 DEF LockInv
  <2> QED
    BY <1>1, <2>3, <2>4 DEF LockInv
<1>6. IdleInv'
  BY <1>1, <1>3 DEF IdleInv
<1>7. BatchOf(r)'
  <2>1. PoolsAt(Shop)' = PoolsAt(Shop) /\ Book' = Book
    BY <1>1 DEF PoolsAt, Book
  <2>2. BatchOf(r)
    BY <1>1, BatchMeans
  <2>3. asked[r].confirm \/ \A i \in 1..(posted[r] + 1) : RunningQty(Book, moves[r], i) >= 0
    <3>1. \A i \in 1..(posted[r] + 1) : i \in 1..posted[r] \/ i = posted[r] + 1
      BY <1>2
    <3> QED
      BY <1>1, <2>2, <3>1 DEF BatchOf
  <2> QED
    BY <1>1, <1>3, <2>1, <2>2, <2>3 DEF BatchOf
<1>8. ASSUME NEW s \in Requests, pc'[s] = "posting", s # r PROVE BatchOf(s)'
  BY <1>1, <1>3, <1>8, BatchMeans, BatchKept
<1>9. \A s \in Requests : posted'[s] <= Len(moves'[s])
  <2>1. posted'[r] <= Len(moves'[r])
    BY <1>1, <1>2, <1>3
  <2> QED
    BY <1>1, <1>3, <2>1 DEF BatchInv
<1>10. BatchInv'
  BY <1>1, <1>3, <1>7, <1>8, <1>9 DEF BatchInv, BatchOf
<1> QED
  BY <1>4, <1>5, <1>6, <1>10

\* Every step keeps the invariant.
LEMMA RequestStep == RequestInv /\ [Next]_vars => RequestInv'
<1> SUFFICES ASSUME RequestInv, [Next]_vars PROVE RequestInv'
  OBVIOUS
<1>1. ASSUME NEW r \in Requests, NEW body \in Serial!Bodies, Arrive(r, body) PROVE RequestInv'
  BY <1>1, ArriveKeeps
<1>2. ASSUME NEW r \in Requests, Acquire(r) PROVE RequestInv'
  BY <1>2, AcquireKeeps
<1>3. ASSUME NEW r \in Requests, Compute(r) PROVE RequestInv'
  BY <1>3, ComputeKeeps
<1>4. ASSUME NEW r \in Requests, PostNext(r) PROVE RequestInv'
  BY <1>4, PostNextKeeps
<1>5. ASSUME NEW r \in Requests, Refuse(r) PROVE RequestInv'
  <2>1. /\ pc[r] # "new" /\ "refused" \in Ended
        /\ End(r, "refused") /\ UNCHANGED <<ledger, balance>>
    BY <1>5 DEF Refuse, RowGranted, More, Ended
  <2> QED
    BY <2>1, RollbackKeeps
<1>6. ASSUME NEW r \in Requests, Commit(r) PROVE RequestInv'
  BY <1>6, CommitKeeps
<1>7. ASSUME NEW r \in Requests, Die(r) PROVE RequestInv'
  <2>1. /\ pc[r] # "new" /\ "lost" \in Ended
        /\ End(r, "lost") /\ UNCHANGED <<ledger, balance>>
    BY <1>7 DEF Die, Ended
  <2> QED
    BY <2>1, RollbackKeeps
<1>8. CASE UNCHANGED vars
  <2>1. /\ UNCHANGED <<ledger, balance, asked, pc, id, moves, posted, holder, rowOwner>>
    BY <1>8 DEF vars, requestVars
  <2>2. \A s \in Requests : pc'[s] = "posting" => BatchOf(s)'
    BY <2>1, BatchMeans, BatchKept DEF RequestInv
  <2>3. BatchInv'
    BY <2>1, <2>2 DEF RequestInv, BatchInv, BatchOf
  <2>4. StockInv' /\ AskedInv' /\ LockInv' /\ IdleInv'
    BY <2>1 DEF RequestInv, StockInv, AskedInv, LockInv, IdleInv
  <2> QED
    BY <2>3, <2>4 DEF RequestInv
<1>9. ASSUME NEW r \in Requests, Step(r) PROVE RequestInv'
  BY <1>2, <1>3, <1>4, <1>5, <1>6, <1>9 DEF Step
<1> QED
  BY <1>1, <1>7, <1>8, <1>9, Zenon DEF Next

\* It holds when nobody has asked for anything.
LEMMA RequestStart == Init => RequestInv
<1> SUFFICES ASSUME Init PROVE RequestInv
  OBVIOUS
<1>1. StockInv
  BY StockedTyped DEF Init
<1>2. AskedInv
  BY DEF Init, AskedInv, States
<1>3. LockInv
  BY NoOneAssumption DEF Init, LockInv
<1>4. BatchInv /\ IdleInv
  BY DEF Init, BatchInv, IdleInv
<1> QED
  BY <1>1, <1>2, <1>3, <1>4 DEF RequestInv

\* The lock order protects what a request computed, and its progress: what it
\* priced is what it would price now, and two requests never wait for each
\* other's balance rows (stock_transaction, "serialized before any
\* eligibility/cost reads").
THEOREM LockOrderProtects == Spec => []LockProtects
<1>1. RequestInv => LockProtects
  <2> SUFFICES ASSUME RequestInv PROVE LockProtects
    OBVIOUS
  <2>1. ComputedIsCurrent
    BY DEF RequestInv, BatchInv, ComputedIsCurrent
  <2>2. NoDeadlock
    <3> SUFFICES ASSUME NEW r \in Requests, NEW s \in Requests, r # s,
                        WaitsFor(r, s), WaitsFor(s, r)
                 PROVE  FALSE
      BY DEF NoDeadlock
    <3>1. pc[r] = "posting" /\ pc[s] = "posting"
      BY DEF WaitsFor, More
    <3> QED
      BY <3>1 DEF RequestInv, LockInv
  <2> QED
    BY <2>1, <2>2 DEF LockProtects
<1> QED
  BY <1>1, RequestStart, RequestStep, PTL DEF Spec

\* A set of positions that is not empty has a first one.
LEMMA FirstPosition ==
    ASSUME NEW I, I \subseteq Nat, I # {}
    PROVE  Min(I) \in I
<1>1. IsWellFoundedOn(OpToRel(<, Nat), Nat)
  BY NatLessThanWellFounded
<1>2. PICK m \in I : \A y \in I : ~ (<<y, m>> \in OpToRel(<, Nat))
  BY <1>1, WFMin, Zenon
<1>3. \A y \in I : ~ (y < m)
  BY <1>2 DEF OpToRel
<1>4. \A y \in I : m <= y
  BY <1>3
<1> QED
  BY <1>2, <1>4 DEF Min

\* The line is one of requests still when somebody leaves it.
LEMMA LineType ==
    ASSUME NEW line \in Seq(Requests), NEW r
    PROVE  RemoveFirst(line, r) \in Seq(Requests)
<1> DEFINE I == {i \in 1..Len(line) : line[i] = r}
<1>1. CASE I = {}
  <2>1. RemoveFirst(line, r) = line
    BY <1>1 DEF RemoveFirst
  <2> QED
    BY <2>1
<1>2. CASE I # {}
  <2>1. RemoveFirst(line, r) = RemoveAt(line, Min(I))
    <3>1. \E i \in 1..Len(line) : line[i] = r
      BY <1>2
    <3>2. RemoveFirst(line, r) = RemoveAt(line, SelectInSeq(line, LAMBDA v : v = r))
      BY <3>1, Zenon DEF RemoveFirst
    <3>3. SelectInSeq(line, LAMBDA v : v = r) = Min(I)
      BY <1>2, Zenon DEF SelectInSeq
    <3> QED
      BY <3>2, <3>3
  <2>2. Min(I) \in 1..Len(line)
    <3>1. I \subseteq 1..Len(line) /\ I \subseteq Nat
      OBVIOUS
    <3> HIDE DEF I
    <3>2. Min(I) \in I
      BY <1>2, <3>1, FirstPosition
    <3> QED
      BY <3>1, <3>2
  <2> DEFINE n == Min(I)
  <2>3. RemoveFirst(line, r) = SubSeq(line, 1, n - 1) \o SubSeq(line, n + 1, Len(line))
    BY <2>1 DEF RemoveAt
  <2>4. n \in 1..Len(line)
    BY <2>2
  <2> HIDE DEF n
  <2>5. SubSeq(line, 1, n - 1) \in Seq(Requests) /\ SubSeq(line, n + 1, Len(line)) \in Seq(Requests)
    BY <2>4
  <2> QED
    BY <2>3, <2>5
<1> QED
  BY <1>1, <1>2

\* Requests stand in line.
LineInv == queue \in Seq(Requests)

\* Requests, locks and line have their types.
THEOREM RequestsTyped == Spec => []TypeOK
<1>1. Init => LineInv
  BY DEF Init, LineInv
<1>2. LineInv /\ [Next]_vars => LineInv'
  <2> SUFFICES ASSUME LineInv, [Next]_vars PROVE LineInv'
    OBVIOUS
  <2>1. ASSUME NEW r \in Requests, NEW body \in Serial!Bodies, Arrive(r, body)
        PROVE  LineInv'
    BY <2>1 DEF Arrive, LineInv
  <2>2. ASSUME NEW r \in Requests, Acquire(r) \/ Die(r) PROVE LineInv'
    BY <2>2, LineType DEF Acquire, Die, LineInv
  <2>3. ASSUME NEW r \in Requests, Compute(r) \/ PostNext(r) \/ Refuse(r) \/ Commit(r)
        PROVE  LineInv'
    BY <2>3 DEF Compute, PostNext, Refuse, Commit, LineInv
  <2>4. CASE UNCHANGED vars
    BY <2>4 DEF vars, requestVars, LineInv
  <2>5. ASSUME NEW r \in Requests, Step(r) PROVE LineInv'
    BY <2>2, <2>3, <2>5 DEF Step
  <2>6. ASSUME NEW r \in Requests, Die(r) PROVE LineInv'
    BY <2>2, <2>6
  <2> QED
    BY <2>1, <2>4, <2>5, <2>6, Zenon DEF Next
<1>3. RequestInv /\ LineInv => TypeOK
  <2> SUFFICES ASSUME RequestInv, LineInv PROVE TypeOK
    OBVIOUS
  <2>1. LedgerTypeOK
    BY DEF RequestInv, StockInv, LedgerTypeOK, Amounts
  <2>2. /\ asked \in [Requests -> Serial!Bodies \union {Serial!Nothing}]
        /\ pc \in [Requests -> States]
    BY DEF RequestInv, AskedInv
  <2>3. /\ holder \in Requests \union {NoOne}
        /\ rowOwner \in [Keys -> Requests \union {NoOne}]
    BY DEF RequestInv, LockInv
  <2>4. /\ id \in [Requests -> Nat]
        /\ moves \in [Requests -> Seq(Rows)]
        /\ posted \in [Requests -> Nat]
        /\ \A r \in Requests : posted[r] <= Len(moves[r])
    BY DEF RequestInv, BatchInv
  <2> QED
    BY <2>1, <2>2, <2>3, <2>4 DEF TypeOK, LineInv
<1> QED
  BY <1>1, <1>2, <1>3, RequestStart, RequestStep, PTL DEF Spec

-----------------------------------------------------------------------------
(* Requests act as if served one at a time *)

\* What a client was told so far: the outcome of SerialStock.
Told == [r \in Requests |-> IF pc[r] \in Ended THEN pc[r] ELSE "open"]

\* A request that is under way counts as open there.
LEMMA UnderWayIsOpen ==
    ASSUME RequestInv, NEW r \in Requests, pc[r] \in {"waiting", "reading", "posting"}
    PROVE  Serial!Open(r)
<1>1. asked[r] # Serial!Nothing
  BY DEF RequestInv, AskedInv
<1>2. pc[r] \notin Ended
  BY DEF Ended
<1> QED
  BY <1>1, <1>2 DEF Serial!Open

\* The end of a request is its answer.
LEMMA EndAnswers ==
    ASSUME RequestInv, NEW r \in Requests, NEW how \in Ended, pc[r] # "new", End(r, how)
    PROVE  Serial!Answer(r, how) /\ UNCHANGED asked
<1>1. pc'[r] = how /\ \A s \in Requests : s # r => pc'[s] = pc[s]
  BY EndFacts DEF RequestInv
<1>2. Told' = [Told EXCEPT ![r] = how]
  BY <1>1 DEF Told
<1>3. asked' = asked
  BY DEF End
<1> QED
  BY <1>2, <1>3 DEF Serial!Answer, Told

\* A commit serves the whole request on the stock of that moment.
LEMMA CommitServes ==
    ASSUME RequestInv, NEW r \in Requests, Commit(r)
    PROVE  \E n \in 1..Len(ledger) : Serial!Serve(r, n)
<1>1. pc[r] = "posting" /\ End(r, "committed") /\ "committed" \in Ended
  BY DEF Commit, Ended
<1>2. /\ id[r] = Len(ledger)
      /\ moves[r] = Serial!SaleMoves(PoolsAt(Shop), id[r], asked[r].items)
  BY <1>1 DEF RequestInv, BatchInv
<1>3. Serial!PoolsAt(Shop) = PoolsAt(Shop)
  BY DEF Serial!PoolsAt, PoolsAt
<1>4. Serial!Post(Serial!SaleMoves(Serial!PoolsAt(Shop), id[r], asked[r].items), asked[r].confirm)
  BY <1>2, <1>3, CommitPosts, SamePost
<1>5. Serial!Answer(r, "committed") /\ UNCHANGED asked
  BY <1>1, EndAnswers
<1>6. Serial!Open(r)
  BY <1>1, UnderWayIsOpen
<1>7. Serial!Serve(r, id[r])
  BY <1>4, <1>5, <1>6 DEF Serial!Serve
<1>8. id[r] \in 1..Len(ledger)
  BY <1>2 DEF RequestInv, StockInv
<1> QED
  BY <1>7, <1>8

\* A request is refused only if the stock of that moment does not cover it.
LEMMA RefuseRefuses ==
    ASSUME RequestInv, NEW r \in Requests, Refuse(r)
    PROVE  \E n \in 1..Len(ledger) : Serial!Refuse(r, n)
<1>1. /\ pc[r] = "posting" /\ End(r, "refused") /\ "refused" \in Ended
      /\ posted[r] < Len(moves[r])
      /\ ~asked[r].confirm
      /\ ~(RunningQty(Book, moves[r], posted[r] + 1) >= 0)
      /\ UNCHANGED <<ledger, balance>>
  BY DEF Refuse, RowGranted, More, NextCovered, Ended
<1>2. /\ id[r] = Len(ledger)
      /\ moves[r] = Serial!SaleMoves(PoolsAt(Shop), id[r], asked[r].items)
      /\ posted[r] \in Nat
  BY <1>1 DEF RequestInv, BatchInv
<1>3. posted[r] + 1 \in DOMAIN moves[r]
  BY <1>1, <1>2, BatchValid
<1>4. moves[r][posted[r] + 1].bucket = "PHYSICAL" /\ moves[r][posted[r] + 1].qty < 0
  BY <1>1, <1>3, BatchValid
<1>5. ~CanPost(Book, moves[r], asked[r].confirm)
  BY <1>1, <1>3, <1>4 DEF CanPost, StaysCovered
<1>6. Serial!PoolsAt(Shop) = PoolsAt(Shop) /\ Serial!Book = Book
  BY DEF Serial!PoolsAt, PoolsAt, Serial!Book, Book
<1>7. ~Serial!CanPost(Serial!Book, Serial!SaleMoves(Serial!PoolsAt(Shop), id[r], asked[r].items),
                      asked[r].confirm)
  BY <1>2, <1>5, <1>6, SameCanPost
<1>8. Serial!Answer(r, "refused") /\ UNCHANGED asked
  BY <1>1, EndAnswers
<1>9. Serial!Open(r)
  BY <1>1, UnderWayIsOpen
<1>10. Serial!Refuse(r, id[r])
  BY <1>1, <1>7, <1>8, <1>9 DEF Serial!Refuse
<1>11. id[r] \in 1..Len(ledger)
  BY <1>2 DEF RequestInv, StockInv
<1> QED
  BY <1>10, <1>11

\* The steps in between are not seen from outside.
LEMMA InnerStepsHidden ==
    ASSUME RequestInv, NEW r \in Requests, Acquire(r) \/ Compute(r) \/ PostNext(r)
    PROVE  UNCHANGED Serial!serialVars
<1>1. UNCHANGED <<ledger, balance, asked>>
  BY DEF Acquire, Compute, PostNext
<1>2. Told' = Told
  <2>1. pc \in [Requests -> States]
    BY DEF RequestInv, AskedInv
  <2>2. CASE PostNext(r)
    BY <2>2 DEF PostNext, Told
  <2>3. CASE Acquire(r) \/ Compute(r)
    <3>1. PICK state \in {"reading", "posting"} :
             pc' = [pc EXCEPT ![r] = state] /\ pc[r] \in {"waiting", "reading"}
      BY <2>3 DEF Acquire, Compute, GoTo
    <3>2. \A s \in Requests : pc'[s] \in Ended \/ pc[s] \in Ended => pc'[s] = pc[s]
      BY <2>1, <3>1 DEF Ended
    <3> QED
      BY <3>2 DEF Told
  <2> QED
    BY <2>2, <2>3
<1> QED
  BY <1>1, <1>2 DEF Serial!serialVars, Told

\* Every step of the interleaved requests is a step of requests served one at a
\* time, or none.
LEMMA SerialStep == RequestInv /\ [Next]_vars => [Serial!Next]_Serial!serialVars
<1> SUFFICES ASSUME RequestInv, [Next]_vars PROVE Serial!Next \/ UNCHANGED Serial!serialVars
  OBVIOUS
<1>1. ASSUME NEW r \in Requests, NEW body \in Serial!Bodies, Arrive(r, body)
      PROVE  Serial!Ask(r, body)
  <2>1. asked[r] = Serial!Nothing /\ UNCHANGED <<ledger, balance>>
        /\ asked' = [asked EXCEPT ![r] = body]
    BY <1>1 DEF Arrive, RequestInv, AskedInv
  <2>2. pc' = [pc EXCEPT ![r] = "waiting"] /\ pc[r] = "new" /\ pc \in [Requests -> States]
    BY <1>1 DEF Arrive, GoTo, RequestInv, AskedInv
  <2>3. \A s \in Requests : pc'[s] \in Ended \/ pc[s] \in Ended => pc'[s] = pc[s]
    BY <2>2 DEF Ended
  <2>4. Told' = Told
    BY <2>3 DEF Told
  <2> QED
    BY <2>1, <2>4 DEF Serial!Ask, Told
<1>2. ASSUME NEW r \in Requests, Acquire(r) \/ Compute(r) \/ PostNext(r)
      PROVE  UNCHANGED Serial!serialVars
  BY <1>2, InnerStepsHidden
<1>3. ASSUME NEW r \in Requests, Commit(r) PROVE \E n \in 1..Len(ledger) : Serial!Serve(r, n)
  BY <1>3, CommitServes
<1>4. ASSUME NEW r \in Requests, Refuse(r) PROVE \E n \in 1..Len(ledger) : Serial!Refuse(r, n)
  BY <1>4, RefuseRefuses
<1>5. ASSUME NEW r \in Requests, Die(r) PROVE Serial!Lose(r)
  <2>1. /\ pc[r] \in {"waiting", "reading", "posting"} /\ pc[r] # "new" /\ "lost" \in Ended
        /\ End(r, "lost") /\ UNCHANGED <<ledger, balance>>
    BY <1>5 DEF Die, Ended
  <2>2. Serial!Answer(r, "lost") /\ UNCHANGED asked
    BY <2>1, EndAnswers
  <2>3. Serial!Open(r)
    BY <2>1, UnderWayIsOpen
  <2> QED
    BY <2>1, <2>2, <2>3 DEF Serial!Lose
<1>6. CASE UNCHANGED vars
  BY <1>6 DEF vars, requestVars, Serial!serialVars
<1>7. ASSUME NEW r \in Requests, Step(r) PROVE Serial!Next \/ UNCHANGED Serial!serialVars
  <2>1. CASE Acquire(r) \/ Compute(r) \/ PostNext(r)
    BY <1>2, <2>1
  <2>2. CASE Commit(r)
    BY <1>3, <2>2 DEF Serial!Next
  <2>3. CASE Refuse(r)
    BY <1>4, <2>3 DEF Serial!Next
  <2> QED
    BY <1>7, <2>1, <2>2, <2>3 DEF Step
<1>8. ASSUME NEW r \in Requests, Die(r) PROVE Serial!Next
  BY <1>5, <1>8 DEF Serial!Next
<1>9. ASSUME NEW r \in Requests, NEW body \in Serial!Bodies, Arrive(r, body) PROVE Serial!Next
  BY <1>1, <1>9 DEF Serial!Next
<1> QED
  BY <1>6, <1>7, <1>8, <1>9, Zenon DEF Next

\* However requests interleave, are refused and die, each takes effect at once
\* on the stock of that moment, or not at all (post_event, "partial updates are
\* impossible"): the reading under which the services are one action each.
THEOREM RequestsActSerially == Spec => ActsSerially
<1>1. Init => Serial!Init
  <2> SUFFICES ASSUME Init PROVE Serial!Init
    OBVIOUS
  <2>1. Told = [r \in Requests |-> "open"]
    BY DEF Init, Told, Ended
  <2> QED
    BY <2>1 DEF Init, Serial!Init, Told
<1>2. RequestInv /\ [Next]_vars => [Serial!Next]_Serial!serialVars
  BY SerialStep
<1> QED
  BY <1>1, <1>2, RequestStart, RequestStep, PTL DEF Spec, ActsSerially, Serial!Spec
=============================================================================
