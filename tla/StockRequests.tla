--------------------------- MODULE StockRequests ---------------------------
(***************************************************************************)
(* Concurrent requests to the stock services, step by step: the advisory   *)
(* lock of stock_transaction, the reads that price a request, post_event   *)
(* locking one balance row after another, commit, rollback, and the death  *)
(* of the process that serves a request (apps/inventory/services.py).      *)
(*                                                                         *)
(* ledger and balance hold what is committed.  What a transaction wrote    *)
(* and did not commit is the first posted[r] movements of moves[r]; nobody *)
(* else sees it (READ COMMITTED).                                          *)
(***************************************************************************)
EXTENDS Carrying

CONSTANTS Requests, Shop, Orders, Confirms, Opening,    \* as in SerialStock
          NoOne                                         \* holder of a free lock

\* What serializers and services refuse at once: an order has lines
\* (_validate_lines), each of a product that exists and of more than nothing
\* (SaleLineSerializer.validate); the shop is a location.
ASSUME OrdersAssumption ==
    /\ Orders \subseteq Seq([product: Products, quantity: Nat \ {0}]) \ {<< >>}
    /\ Confirms \subseteq BOOLEAN
    /\ Shop \in Locations

\* The shop was stocked by posts of other services.
ASSUME OpeningAssumption == Opening \in Seq(Rows) \ {<< >>}

ASSUME NoOneAssumption == NoOne \notin Requests

VARIABLES asked,     \* as in SerialStock
          pc,        \* where each request is
          id,        \* the primary key the request's sale got
          moves,     \* the movements it computed
          posted,    \* how many of them post_event has written
          holder,    \* who holds the advisory lock
          queue,     \* who waits for it, in order
          rowOwner   \* who holds FOR UPDATE on a balance row

requestVars == <<asked, pc, id, moves, posted, holder, queue, rowOwner>>
vars == <<ledger, balance, requestVars>>

States == {"new", "waiting", "reading", "posting", "committed", "refused", "lost"}

Ended == {"committed", "refused", "lost"}

Serial == INSTANCE SerialStock WITH
            outcome <- [r \in Requests |-> IF pc[r] \in Ended THEN pc[r] ELSE "open"]

Init ==
    /\ ledger = Serial!Stocked.ledger
    /\ balance = Serial!Stocked.balance
    /\ asked = [r \in Requests |-> Serial!Nothing]
    /\ pc = [r \in Requests |-> "new"]
    /\ id = [r \in Requests |-> 0]
    /\ moves = [r \in Requests |-> << >>]
    /\ posted = [r \in Requests |-> 0]
    /\ holder = NoOne
    /\ queue = << >>
    /\ rowOwner = [k \in Keys |-> NoOne]

GoTo(r, state) == pc' = [pc EXCEPT ![r] = state]

\* The request reaches its service and asks for the advisory lock.
Arrive(r, body) ==
    /\ pc[r] = "new"
    /\ asked' = [asked EXCEPT ![r] = body]
    /\ queue' = Append(queue, r)
    /\ GoTo(r, "waiting")
    /\ UNCHANGED <<ledger, balance, id, moves, posted, holder, rowOwner>>

\* Mutant of LockGranted: a service that is not wrapped in stock_transaction.
NotAsked(r) == TRUE

\* PostgreSQL grants the lock in the order it was asked for.
LockGranted(r) == holder = NoOne /\ r = Head(queue)

Acquire(r) ==
    /\ pc[r] = "waiting"
    /\ LockGranted(r)
    /\ holder' = r
    /\ queue' = RemoveFirst(queue, r)
    /\ GoTo(r, "reading")
    /\ UNCHANGED <<ledger, balance, asked, id, moves, posted, rowOwner>>

\* The business record gets its key, and every line its value, from what is
\* committed now.
Compute(r) ==
    /\ pc[r] = "reading"
    /\ id' = [id EXCEPT ![r] = Len(ledger)]
    /\ moves' = [moves EXCEPT ![r] =
                    Serial!SaleMoves(PoolsAt(Shop), Len(ledger), asked[r].items)]
    /\ GoTo(r, "posting")
    /\ UNCHANGED <<ledger, balance, asked, posted, holder, queue, rowOwner>>

\* The row the request will ask for next.
NextRow(r) == KeyOf(moves[r][posted[r] + 1])

More(r) == pc[r] = "posting" /\ posted[r] < Len(moves[r])

\* SELECT ... FOR UPDATE returns: nobody else holds the row.
RowGranted(r) == More(r) /\ rowOwner[NextRow(r)] \in {NoOne, r}

\* The next movement leaves its balance at or above zero, or was confirmed.
NextCovered(r) ==
    \/ asked[r].confirm
    \/ RunningQty(Book, moves[r], posted[r] + 1) >= 0

PostNext(r) ==
    /\ RowGranted(r)
    /\ NextCovered(r)
    /\ rowOwner' = [rowOwner EXCEPT ![NextRow(r)] = r]
    /\ posted' = [posted EXCEPT ![r] = @ + 1]
    /\ UNCHANGED <<ledger, balance, asked, pc, id, moves, holder, queue>>

\* Mutant of Released: a lock of the session, not of the transaction; it
\* survives a rollback.
RowsReleased(r, how) ==
    /\ holder' = IF holder = r /\ how = "committed" THEN NoOne ELSE holder
    /\ rowOwner' = [k \in Keys |-> IF rowOwner[k] = r THEN NoOne ELSE rowOwner[k]]

\* The end of the transaction, however it ends, gives every lock back.
Released(r, how) ==
    /\ holder' = IF holder = r THEN NoOne ELSE holder
    /\ rowOwner' = [k \in Keys |-> IF rowOwner[k] = r THEN NoOne ELSE rowOwner[k]]

\* Nothing of the transaction is left outside the tables.
End(r, how) ==
    /\ GoTo(r, how)
    /\ Released(r, how)
    /\ moves' = [moves EXCEPT ![r] = << >>]
    /\ posted' = [posted EXCEPT ![r] = 0]
    /\ id' = [id EXCEPT ![r] = 0]
    /\ UNCHANGED asked

\* Mutant of Refuse: without transaction.atomic around the batch, what came
\* before the shortage stays.
RefuseTheRest(r) ==
    /\ RowGranted(r)
    /\ ~NextCovered(r)
    /\ Install(Posted(Book, SubSeq(moves[r], 1, posted[r])))
    /\ End(r, "refused")
    /\ UNCHANGED queue

\* NegativeStockError: everything is rolled back.
Refuse(r) ==
    /\ RowGranted(r)
    /\ ~NextCovered(r)
    /\ End(r, "refused")
    /\ UNCHANGED <<ledger, balance, queue>>

Commit(r) ==
    /\ pc[r] = "posting"
    /\ posted[r] = Len(moves[r])
    /\ Install(Posted(Book, moves[r]))
    /\ End(r, "committed")
    /\ UNCHANGED queue

\* The process is killed or times out: its connection drops, the transaction
\* rolls back.
Die(r) ==
    /\ pc[r] \in {"waiting", "reading", "posting"}
    /\ End(r, "lost")
    /\ queue' = RemoveFirst(queue, r)
    /\ UNCHANGED <<ledger, balance>>

Step(r) == Acquire(r) \/ Compute(r) \/ PostNext(r) \/ Refuse(r) \/ Commit(r)

Next ==
    \E r \in Requests :
        \/ \E body \in Serial!Bodies : Arrive(r, body)
        \/ Step(r)
        \/ Die(r)

\* A process that is not killed goes on; nobody is obliged to send a request or
\* to be killed.
Fairness == \A r \in Requests : WF_vars(Step(r))

Spec == Init /\ [][Next]_vars /\ Fairness

-----------------------------------------------------------------------------
(* Properties *)

\* Every lock, queue and record has its type.
TypeOK ==
    /\ LedgerTypeOK
    /\ asked \in [Requests -> Serial!Bodies \union {Serial!Nothing}]
    /\ pc \in [Requests -> States]
    /\ id \in [Requests -> Nat]
    /\ moves \in [Requests -> Seq(Rows)]
    /\ posted \in [Requests -> Nat]
    /\ \A r \in Requests : posted[r] <= Len(moves[r])
    /\ holder \in Requests \union {NoOne}
    /\ queue \in Seq(Requests)
    /\ rowOwner \in [Keys -> Requests \union {NoOne}]

\* What a transaction computed from the stock it read is still what it would
\* compute now, up to its commit: no sale or dispatch comes in between
\* (stock_transaction, "serialized before any eligibility/cost reads").
ComputedIsCurrent ==
    \A r \in Requests : pc[r] = "posting" =>
        moves[r] = Serial!SaleMoves(PoolsAt(Shop), id[r], asked[r].items)

\* Two requests that touch the same balances in opposite orders never wait for
\* each other.
WaitsFor(r, s) == More(r) /\ rowOwner[NextRow(r)] = s

NoDeadlock == ~\E r, s \in Requests : r # s /\ WaitsFor(r, s) /\ WaitsFor(s, r)

\* The lock order of the services protects both: the prices and checks a
\* transaction made, and its progress.
LockProtects == ComputedIsCurrent /\ NoDeadlock

\* However requests interleave and die, each takes effect at once or not at all,
\* on the stock of that moment (post_event, "partial updates are impossible").
ActsSerially == Serial!Spec

\* Whoever asked for the lock is answered, though others ahead are refused or
\* die holding it.
EveryRequestEnds == \A r \in Requests : pc[r] = "waiting" ~> pc[r] \in Ended
=============================================================================
