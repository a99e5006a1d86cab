---------------------------- MODULE SerialStock ----------------------------
(***************************************************************************)
(* What stock_transaction (apps/inventory/services.py) promises about      *)
(* requests that arrive together: each takes effect at once, on the stock  *)
(* as it is at that moment, or not at all.  This is the reading under      *)
(* which Purchases, Sales, Adjustments and Shipments make one action of    *)
(* one service; StockRequests implements it.                               *)
(*                                                                         *)
(* The requests are sales of several products, the simplest service that   *)
(* reads balances to price its movements and then writes several of them.  *)
(***************************************************************************)
EXTENDS Carrying

CONSTANTS Requests,      \* the requests
          Shop,          \* the location they sell at
          Orders,        \* what may be asked: sequences of [product, quantity]
          Confirms,      \* the values of confirm_negative users send
          Opening        \* the movements that stocked the shop

VARIABLES asked,         \* [Requests -> what a request asked, or Nothing]
          outcome        \* [Requests -> Outcomes]

serialVars == <<ledger, balance, asked, outcome>>

Outcomes == {"open", "committed", "refused", "lost"}

\* The state of a request that has not arrived.
Nothing == [items |-> << >>, confirm |-> FALSE]

Bodies == [items: Orders, confirm: Confirms]

\* The movements of a sale, each line at the carrying average the lines before
\* it leave.
SaleMoves(pools, id, items) ==
    [i \in DOMAIN items |->
        StockMove("SALE", id, i, items[i].product, Shop, "PHYSICAL",
                  -items[i].quantity, -ShareInTurn(pools, items, i))]

\* The stocked shop, before any request.
Stocked ==
    Posted([ledger |-> << >>, balance |-> [k \in Keys |-> [qty |-> 0, aed |-> 0]]],
           Opening)

Init ==
    /\ ledger = Stocked.ledger
    /\ balance = Stocked.balance
    /\ asked = [r \in Requests |-> Nothing]
    /\ outcome = [r \in Requests |-> "open"]

Open(r) == asked[r] # Nothing /\ outcome[r] = "open"

Answer(r, how) == outcome' = [outcome EXCEPT ![r] = how]

Ask(r, body) ==
    /\ asked[r] = Nothing
    /\ asked' = [asked EXCEPT ![r] = body]
    /\ UNCHANGED <<ledger, balance, outcome>>

\* Priced and posted as one, on the stock of this moment.
Serve(r, id) ==
    /\ Open(r)
    /\ Post(SaleMoves(PoolsAt(Shop), id, asked[r].items), asked[r].confirm)
    /\ Answer(r, "committed")
    /\ UNCHANGED asked

\* Refused only if the stock of this moment does not cover it.
Refuse(r, id) ==
    /\ Open(r)
    /\ ~CanPost(Book, SaleMoves(PoolsAt(Shop), id, asked[r].items), asked[r].confirm)
    /\ Answer(r, "refused")
    /\ UNCHANGED <<ledger, balance, asked>>

\* The client gets no answer, and nothing was done.
Lose(r) ==
    /\ Open(r)
    /\ Answer(r, "lost")
    /\ UNCHANGED <<ledger, balance, asked>>

Next ==
    \E r \in Requests :
        \/ \E body \in Bodies : Ask(r, body)
        \/ \E id \in 1..Len(ledger) : Serve(r, id) \/ Refuse(r, id)
        \/ Lose(r)

Spec == Init /\ [][Next]_serialVars
=============================================================================
