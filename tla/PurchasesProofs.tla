-------------------------- MODULE PurchasesProofs --------------------------
(***************************************************************************)
(* The edits of a purchase, with the correction of received lines, what    *)
(* the reports make of the records, and the theorems.                      *)
(*                                                                         *)
(* A correction posts several times: it reverses the line record by record *)
(* and replays its collections one by one.  Each loop is a recursive       *)
(* function of the model and is followed by an induction over its steps    *)
(* (LessAll, AllRestored).  An edit is two loops more, which keep what is  *)
(* still to be posted aside; the invariant of an edit under way (Under)    *)
(* says what the tables and rows would be were it saved now.               *)
(*                                                                         *)
(* The reports add up over lines, or over refunds and their lines.  Both   *)
(* are sums over the same things in another order, once it is known that a *)
(* refund that counts names no deleted line (LiveRefundsLive): the edits   *)
(* and the delete of a purchase see to that.                               *)
(***************************************************************************)
EXTENDS PurchaseRecordsProofs, PurchaseReports

-----------------------------------------------------------------------------
(* Several posts about a line in one transaction *)

IsChain(chain) == chain = [ok |-> chain.ok, book |-> chain.book] /\ chain.ok \in BOOLEAN

\* The rows grew by rows of the line.
Grown(rows, all, l) ==
    /\ rows \in Seq(Rows) /\ all \in Seq(Rows)
    /\ \E more \in Seq(Rows) : /\ all = rows \o more
                               /\ \A k \in 1..Len(more) : more[k] \in OnLine(l)

\* Rows are like themselves.
LEMMA AlikeSame ==
    ASSUME NEW rows, NEW T
    PROVE  Alike(rows, rows, T)
BY DEF Alike

\* Likeness goes from one to the next.
LEMMA AlikeTwice ==
    ASSUME NEW rows, NEW mid, NEW all, NEW T, Alike(rows, mid, T), Alike(mid, all, T)
    PROVE  Alike(rows, all, T)
BY DEF Alike

\* No row more is such a growth.
LEMMA GrownSame ==
    ASSUME NEW rows \in Seq(Rows), NEW l
    PROVE  Grown(rows, rows, l)
<1>1. PICK more : more = << >>
  OBVIOUS
<1>2. more \in Seq(Rows) /\ rows \o more = rows /\ \A k \in 1..Len(more) : more[k] \in OnLine(l)
  BY <1>1
<1> QED
  BY <1>2 DEF Grown

\* Rows of the line are such a growth.
LEMMA GrownBy ==
    ASSUME NEW rows \in Seq(Rows), NEW more \in Seq(Rows), NEW l,
           \A k \in 1..Len(more) : more[k] \in OnLine(l)
    PROVE  Grown(rows, rows \o more, l)
<1>1. rows \o more \in Seq(Rows)
  BY ConcatParts
<1> QED
  BY <1>1 DEF Grown

\* Growth after growth.
LEMMA GrownTwice ==
    ASSUME NEW rows, NEW mid, NEW all, NEW l, Grown(rows, mid, l), Grown(mid, all, l)
    PROVE  Grown(rows, all, l)
<1>1. PICK a \in Seq(Rows) : mid = rows \o a /\ \A k \in 1..Len(a) : a[k] \in OnLine(l)
  BY DEF Grown
<1>2. PICK b \in Seq(Rows) : all = mid \o b /\ \A k \in 1..Len(b) : b[k] \in OnLine(l)
  BY DEF Grown
<1>3. rows \in Seq(Rows) /\ all \in Seq(Rows)
  BY DEF Grown
<1>4. PICK c : c = a \o b
  OBVIOUS
<1>5. /\ c \in Seq(Rows) /\ Len(c) = Len(a) + Len(b)
      /\ \A k \in 1..Len(a) : c[k] = a[k]
      /\ \A k \in 1..Len(b) : c[Len(a) + k] = b[k]
  BY <1>4, ConcatParts
<1>6. ASSUME NEW k \in 1..Len(c) PROVE c[k] \in OnLine(l)
  <2>1. CASE k <= Len(a)
    <3>1. k \in 1..Len(a)
      BY <2>1
    <3> QED
      BY <1>1, <1>5, <3>1
  <2>2. CASE ~(k <= Len(a))
    <3>1. k - Len(a) \in 1..Len(b) /\ Len(a) + (k - Len(a)) = k
      BY <1>5, <2>2
    <3>2. c[k] = b[k - Len(a)]
      BY <1>5, <3>1
    <3> QED
      BY <1>2, <3>1, <3>2
  <2> QED
    BY <2>1, <2>2
<1>7. all = rows \o c
  BY <1>1, <1>2, <1>3, <1>4
<1> QED
  BY <1>3, <1>5, <1>6, <1>7 DEF Grown

\* A chain goes on with a post, or with none where there is nothing to post.
LEMMA ThenPostFacts ==
    ASSUME NEW chain, IsChain(chain), NEW moves, NEW next, next = ThenPost(chain, moves)
    PROVE  /\ IsChain(next)
           /\ next.ok => chain.ok
           /\ next.ok /\ Sound(chain.book) /\ moves \in Seq(Rows) =>
                 /\ AllWellFormed(moves)
                 /\ Sound(next.book) /\ next.book.ledger = chain.book.ledger \o moves
<1>1. CASE ~chain.ok \/ moves = << >>
  <2>1. next = chain
    BY <1>1 DEF ThenPost
  <2>2. ASSUME next.ok, Sound(chain.book), moves \in Seq(Rows)
        PROVE  /\ AllWellFormed(moves)
               /\ Sound(next.book) /\ next.book.ledger = chain.book.ledger \o moves
    <3>1. moves = << >>
      BY <1>1, <2>1, <2>2
    <3>2. chain.book.ledger \in Seq(Rows)
      BY <2>2 DEF Sound
    <3>3. chain.book.ledger \o moves = chain.book.ledger
      BY <3>1, <3>2
    <3>4. AllWellFormed(moves)
      BY <3>1 DEF AllWellFormed
    <3> QED
      BY <2>1, <2>2, <3>3, <3>4
  <2> QED
    BY <2>1, <2>2
<1>2. CASE ~(~chain.ok \/ moves = << >>)
  <2>1. next = [ok |-> CanPost(chain.book, moves, FALSE), book |-> Posted(chain.book, moves)]
    BY <1>2 DEF ThenPost
  <2>2. IsChain(next)
    <3>1. CanPost(chain.book, moves, FALSE) \in BOOLEAN
      BY DEF CanPost, ValidMovements, StaysCovered
    <3>2. PICK can \in BOOLEAN : can = CanPost(chain.book, moves, FALSE)
      BY <3>1
    <3>3. next = [ok |-> can, book |-> Posted(chain.book, moves)]
      BY <2>1, <3>2
    <3> QED
      BY <3>3 DEF IsChain
  <2>3. chain.ok
    BY <1>2
  <2>4. ASSUME next.ok, Sound(chain.book), moves \in Seq(Rows)
        PROVE  /\ AllWellFormed(moves)
               /\ Sound(next.book) /\ next.book.ledger = chain.book.ledger \o moves
    <3>1. CanPost(chain.book, moves, FALSE)
      <4>1. next.ok = CanPost(chain.book, moves, FALSE)
        BY <2>1
      <4> QED
        BY <2>4, <4>1
    <3>2. AllWellFormed(moves)
      BY <2>4, <3>1 DEF CanPost, ValidMovements, AllWellFormed
    <3>3. Sound(Posted(chain.book, moves))
      BY <2>4, PostedSound
    <3>4. next.book = Posted(chain.book, moves)
      BY <2>1
    <3> QED
      BY <3>2, <3>3, <3>4 DEF Posted
  <2> QED
    BY <2>2, <2>3, <2>4
<1> QED
  BY <1>1, <1>2

\* What a record left of the line is gone; what others left is as it was.
SourceGone(rows, all, t, s, l) ==
    /\ Grown(rows, all, l)
    /\ Nothing(all, Of(t, s, l))
    /\ \A u, x : u # t \/ x # s => Alike(rows, all, Of(u, x, l))

KeepsFitting(rows, all) ==
    \A ps, lns, cs, rs : RowsFit(rows, ps, lns, cs, rs) => RowsFit(all, ps, lns, cs, rs)

\* _reverse_source clears what the record did of the line, and leaves all else.
LEMMA ReverseSourceStep ==
    ASSUME NEW chain, IsChain(chain), chain.ok => Sound(chain.book),
           NEW t \in PurchaseSources, NEW s, NEW l,
           NEW next, next = ReverseSource(chain, t, s, l)
    PROVE  /\ IsChain(next)
           /\ next.ok => /\ chain.ok /\ Sound(next.book)
                         /\ SourceGone(chain.book.ledger, next.book.ledger, t, s, l)
                         /\ KeepsFitting(chain.book.ledger, next.book.ledger)
<1>1. PICK rows, kept, moves, mid :
         /\ rows = chain.book.ledger /\ kept = LineRows(rows, t, s, l)
         /\ moves = NetReversalMovements(kept)
         /\ mid = [chain EXCEPT !.ok = chain.ok /\ NetReversible(kept)]
  OBVIOUS
<1>2. next = ThenPost(mid, moves)
  BY <1>1 DEF ReverseSource
<1>3. IsChain(mid) /\ mid.book = chain.book /\ (mid.ok <=> chain.ok /\ NetReversible(kept))
  <2>1. NetReversible(kept) \in BOOLEAN
    BY DEF NetReversible
  <2> QED
    BY <1>1, <2>1 DEF IsChain
<1>4. IsChain(next) /\ (next.ok => mid.ok)
  BY <1>2, <1>3, ThenPostFacts
<1>5. ASSUME next.ok
      PROVE  /\ chain.ok /\ Sound(next.book)
             /\ SourceGone(rows, next.book.ledger, t, s, l)
             /\ KeepsFitting(rows, next.book.ledger)
  <2>1. chain.ok /\ NetReversible(kept) /\ Sound(mid.book) /\ rows \in Seq(Rows)
    BY <1>1, <1>3, <1>4, <1>5 DEF Sound
  <2>2. PICK T : T = Of(t, s, l)
    OBVIOUS
  <2>3. TakesBack(rows, moves, T) /\ Blind(T)
    BY <1>1, <2>1, <2>2, LineTakenBack, SetsBlind
  <2>4. moves \in Seq(Rows) /\ \A k \in 1..Len(moves) : moves[k] \in T
    BY <2>3 DEF TakesBack
  <2>5. Sound(next.book) /\ next.book.ledger = rows \o moves
    <3>1. Sound(next.book) /\ next.book.ledger = mid.book.ledger \o moves
      BY <1>2, <1>3, <1>5, <2>1, <2>4, ThenPostFacts
    <3> QED
      BY <1>1, <1>3, <3>1
  <2>6. Grown(rows, rows \o moves, l)
    <3>1. \A k \in 1..Len(moves) : moves[k] \in OnLine(l)
      BY <2>2, <2>4 DEF Of
    <3> QED
      BY <2>1, <2>4, <3>1, GrownBy
  <2>7. T \intersect OnLine(l) = Of(t, s, l)
    BY <2>2 DEF Of
  <2>8. TakenBack(rows, moves, t, s, l)
    BY <2>1, <2>3, <2>7, TakenBackLine
  <2>9. /\ Nothing(rows \o moves, Of(t, s, l))
        /\ \A u, x : u # t \/ x # s => Alike(rows, rows \o moves, Of(u, x, l))
    <3>1. /\ Nothing(rows \o moves, Of(t, s, l))
          /\ \A u, x : u # t \/ x # s => Nothing(moves, Of(u, x, l))
      BY <2>8 DEF TakenBack
    <3> QED
      BY <2>1, <2>4, <3>1, MoreAlike
  <2>10. KeepsFitting(rows, rows \o moves)
    <3>1. ASSUME NEW ps, NEW lns, NEW cs, NEW rs, RowsFit(rows, ps, lns, cs, rs)
          PROVE  RowsFit(rows \o moves, ps, lns, cs, rs)
      <4>1. RowsFit(moves, ps, lns, cs, rs)
        BY <2>1, <2>3, <3>1, TakesBackFits
      <4> QED
        BY <2>1, <2>4, <3>1, <4>1, RowsFitMore
    <3> QED
      BY <3>1 DEF KeepsFitting
  <2>11. SourceGone(rows, rows \o moves, t, s, l)
    BY <2>6, <2>9 DEF SourceGone
  <2> QED
    BY <2>1, <2>5, <2>10, <2>11
<1> QED
  BY <1>1, <1>4, <1>5

\* The chain after one more collection.
ReversedNext(prev, k, book, l) ==
    IF k \in CollectionsOf(l) THEN ReverseSource(prev, "PURCHASE_COLLECTION", k, l) ELSE prev

\* The recursion equation of ReversedInTurn, up to n.
AreReversed(f, book, l, n) ==
    f = [k \in 0..n |-> IF k = 0 THEN [ok |-> TRUE, book |-> book] ELSE ReversedNext(f[k - 1], k, book, l)]

\* The recursion over the first collections has a solution.
LEMMA ReversedInTurnExist ==
    ASSUME NEW book, NEW l
    PROVE  \A n \in Nat : \E f : AreReversed(f, book, l, n)
<1> DEFINE T == {n \in Nat : \E f : AreReversed(f, book, l, n)}
           first == [ok |-> TRUE, book |-> book]
           Next1(prev, k) == ReversedNext(prev, k, book, l)
<1>1. 0 \in T
  <2>1. AreReversed([k \in 0..0 |-> first], book, l, 0)
    BY DEF AreReversed
  <2> QED
    BY <2>1
<1>2. ASSUME NEW n \in Nat, n \in T PROVE n + 1 \in T
  <2>1. PICK f : AreReversed(f, book, l, n)
    BY <1>2
  <2>2. f = [k \in 0..n |-> IF k = 0 THEN first ELSE Next1(f[k - 1], k)]
    BY <2>1 DEF AreReversed
  <2> HIDE DEF first, Next1
  <2> DEFINE g == [k \in 0..(n + 1) |-> IF k = n + 1 THEN Next1(f[n], n + 1) ELSE f[k]]
  <2>3. \A k \in 0..n : f[k] = IF k = 0 THEN first ELSE Next1(f[k - 1], k)
    BY <2>2
  <2>4. \A k \in 0..(n + 1) : g[k] = IF k = 0 THEN first ELSE Next1(g[k - 1], k)
    BY <2>3
  <2>5. g = [k \in 0..(n + 1) |-> IF k = 0 THEN first ELSE Next1(g[k - 1], k)]
    BY <2>4
  <2> HIDE DEF g
  <2>6. AreReversed(g, book, l, n + 1)
    BY <2>5 DEF AreReversed, first, Next1
  <2> QED
    BY <2>6
<1> HIDE DEF T
<1>3. \A n \in Nat : n \in T
  BY <1>1, <1>2, NatSetInduction
<1> QED
  BY <1>3 DEF T

\* So the function of the model satisfies its equation.
LEMMA ReversedInTurnEquation ==
    ASSUME NEW book, NEW l, Len(collections) \in Nat
    PROVE  \A k \in 0..Len(collections) :
              ReversedInTurn(book, l)[k] =
                 IF k = 0 THEN [ok |-> TRUE, book |-> book] ELSE ReversedNext(ReversedInTurn(book, l)[k - 1], k, book, l)
<1>1. \E f : f = [k \in 0..Len(collections) |-> IF k = 0 THEN [ok |-> TRUE, book |-> book] ELSE ReversedNext(f[k - 1], k, book, l)]
  <2>1. PICK f : AreReversed(f, book, l, Len(collections))
    BY ReversedInTurnExist
  <2> QED
    BY <2>1 DEF AreReversed
<1> DEFINE chain[n \in 0..Len(collections)] == IF n = 0 THEN [ok |-> TRUE, book |-> book] ELSE ReversedNext(chain[n - 1], n, book, l)
<1>2. chain = [n \in 0..Len(collections) |-> IF n = 0 THEN [ok |-> TRUE, book |-> book] ELSE ReversedNext(chain[n - 1], n, book, l)]
  BY <1>1
<1>3. ReversedInTurn(book, l) = chain
  BY DEF ReversedInTurn, ReversedNext
<1> HIDE DEF chain
<1> QED
  BY <1>2, <1>3

\* The first n collections of the line are reversed; what else is of the line is as it was.
LineLess(rows, all, l, n) ==
    /\ Grown(rows, all, l)
    /\ KeepsFitting(rows, all)
    /\ \A s \in 1..n : s \in CollectionsOf(l) => Nothing(all, Of("PURCHASE_COLLECTION", s, l))
    /\ \A t, s : \/ t = "PURCHASE_COLLECTION" /\ s \in CollectionsOf(l)
                 \/ Alike(rows, all, Of(t, s, l))

LessChain(rows, chain, l, n) ==
    /\ IsChain(chain)
    /\ chain.ok => Sound(chain.book) /\ LineLess(rows, chain.book.ledger, l, n)

\* What fits stays fitting step after step.
LEMMA KeepsTwice ==
    ASSUME NEW rows, NEW mid, NEW all, KeepsFitting(rows, mid), KeepsFitting(mid, all)
    PROVE  KeepsFitting(rows, all)
BY DEF KeepsFitting

\* One collection more is reversed.
LEMMA LessNext ==
    ASSUME NEW rows, NEW book, NEW l, NEW n \in Nat, NEW prev, LessChain(rows, prev, l, n),
           NEW next, next = ReversedNext(prev, n + 1, book, l)
    PROVE  LessChain(rows, next, l, n + 1)
<1>1. CASE n + 1 \in CollectionsOf(l)
  <2>1. next = ReverseSource(prev, "PURCHASE_COLLECTION", n + 1, l)
    BY <1>1 DEF ReversedNext
  <2>2. IsChain(prev) /\ (prev.ok => Sound(prev.book))
    BY DEF LessChain
  <2>3. "PURCHASE_COLLECTION" \in PurchaseSources
    BY DEF PurchaseSources
  <2>4. PICK t, s : t = "PURCHASE_COLLECTION" /\ s = n + 1
    OBVIOUS
  <2>5. /\ IsChain(next)
        /\ next.ok => /\ prev.ok /\ Sound(next.book)
                      /\ SourceGone(prev.book.ledger, next.book.ledger, t, s, l)
                      /\ KeepsFitting(prev.book.ledger, next.book.ledger)
    BY <2>1, <2>2, <2>3, <2>4, ReverseSourceStep
  <2>6. ASSUME next.ok PROVE LineLess(rows, next.book.ledger, l, n + 1)
    <3>1. PICK mid, all : mid = prev.book.ledger /\ all = next.book.ledger
      OBVIOUS
    <3>2. SourceGone(mid, all, t, s, l) /\ KeepsFitting(mid, all) /\ LineLess(rows, mid, l, n)
      BY <2>5, <2>6, <3>1 DEF LessChain
    <3>3. Grown(rows, all, l) /\ KeepsFitting(rows, all)
      BY <3>2, GrownTwice, KeepsTwice DEF SourceGone, LineLess
    <3>4. ASSUME NEW x \in 1..(n + 1), x \in CollectionsOf(l) PROVE Nothing(all, Of(t, x, l))
      <4>1. CASE x = s
        BY <3>2, <4>1 DEF SourceGone
      <4>2. CASE x # s
        <5>1. x \in 1..n
          BY <2>4, <4>2
        <5>2. Nothing(mid, Of(t, x, l))
          BY <2>4, <3>2, <3>4, <5>1 DEF LineLess
        <5>3. Alike(mid, all, Of(t, x, l))
          BY <3>2, <4>2 DEF SourceGone
        <5> QED
          BY <5>2, <5>3, NothingAlike
      <4> QED
        BY <4>1, <4>2
    <3>5. ASSUME NEW u, NEW x, ~(u = t /\ x \in CollectionsOf(l))
          PROVE  Alike(rows, all, Of(u, x, l))
      <4>1. Alike(rows, mid, Of(u, x, l))
        BY <2>4, <3>2, <3>5 DEF LineLess
      <4>2. u # t \/ x # s
        BY <1>1, <2>4, <3>5
      <4>3. Alike(mid, all, Of(u, x, l))
        BY <3>2, <4>2 DEF SourceGone
      <4> QED
        BY <4>1, <4>3, AlikeTwice
    <3> QED
      BY <2>4, <3>1, <3>3, <3>4, <3>5 DEF LineLess
  <2> QED
    BY <2>5, <2>6 DEF LessChain
<1>2. CASE n + 1 \notin CollectionsOf(l)
  <2>1. next = prev
    BY <1>2 DEF ReversedNext
  <2>2. ASSUME next.ok PROVE LineLess(rows, next.book.ledger, l, n + 1)
    <3>1. LineLess(rows, next.book.ledger, l, n)
      BY <2>1, <2>2 DEF LessChain
    <3>2. \A x \in 1..(n + 1) : x \in CollectionsOf(l) => x \in 1..n
      BY <1>2
    <3> QED
      BY <3>1, <3>2 DEF LineLess
  <2> QED
    BY <2>1, <2>2 DEF LessChain
<1> QED
  BY <1>1, <1>2

\* All collections of the line are reversed.
LEMMA LessAll ==
    ASSUME NEW book, Sound(book), NEW l, Len(collections) \in Nat
    PROVE  LessChain(book.ledger, ReversedInTurn(book, l)[Len(collections)], l, Len(collections))
<1> DEFINE f == ReversedInTurn(book, l)
           T == {n \in Nat : n <= Len(collections) => LessChain(book.ledger, f[n], l, n)}
<1>1. \A k \in 0..Len(collections) :
         f[k] = IF k = 0 THEN [ok |-> TRUE, book |-> book] ELSE ReversedNext(f[k - 1], k, book, l)
  BY ReversedInTurnEquation
<1>2. 0 \in T
  <2>1. f[0] = [ok |-> TRUE, book |-> book]
    <3>1. 0 \in 0..Len(collections)
      OBVIOUS
    <3> HIDE DEF f
    <3> QED
      BY <1>1, <3>1
  <2>2. PICK first : first = f[0]
    OBVIOUS
  <2>3. IsChain(first) /\ first.book = book
    BY <2>1, <2>2 DEF IsChain
  <2>4. Grown(book.ledger, book.ledger, l)
    BY GrownSame DEF Sound
  <2>5. LineLess(book.ledger, book.ledger, l, 0)
    BY <2>4, AlikeSame DEF LineLess, KeepsFitting
  <2>6. LessChain(book.ledger, first, l, 0)
    BY <2>3, <2>5 DEF LessChain
  <2> QED
    BY <2>2, <2>6
<1>3. ASSUME NEW n \in Nat, n \in T PROVE n + 1 \in T
  <2>1. SUFFICES ASSUME n + 1 <= Len(collections)
                 PROVE  LessChain(book.ledger, f[n + 1], l, n + 1)
    OBVIOUS
  <2>2. LessChain(book.ledger, f[n], l, n)
    BY <1>3, <2>1
  <2>3. f[n + 1] = ReversedNext(f[n], n + 1, book, l)
    BY <1>1, <2>1
  <2> HIDE DEF f
  <2> QED
    BY <2>2, <2>3, LessNext
<1> HIDE DEF T
<1>4. \A n \in Nat : n \in T
  BY <1>2, <1>3, NatSetInduction
<1> QED
  BY <1>4 DEF T

\* Nobody has returned or cancelled any of the line.
NotBack(rs, l) ==
    \A r \in 1..Len(rs) : /\ \A source \in RefundSources : Back(rs, r, l, source) = 0
                          /\ \A loc \in Locations : BackAt(rs, r, l, loc) = 0

\* The line is empty, and the rows that made it so fit.
Emptied(rows, all, l) ==
    Grown(rows, all, l) /\ KeepsFitting(rows, all) /\ Nothing(all, OnLine(l))

\* With the entry reversed too, nothing is left of the line.
LEMMA ReverseLineFacts ==
    ASSUME NEW lns, TablesTyped(purchases, lns, collections, refunds),
           NEW book, Sound(book), NEW rows, rows = book.ledger,
           RowsFit(rows, purchases, lns, collections, refunds),
           NEW l \in 1..Len(lns), NEW p, p = lns[l].purchase,
           \A c \in 1..Len(collections) : CollectionTraced(rows, collections, c, l),
           \A r \in 1..Len(refunds) : RefundTraced(rows, refunds, r, l),
           NotBack(refunds, l),
           NEW next, next = ReverseLine(book, p, l)
    PROVE  /\ IsChain(next)
           /\ next.ok => Sound(next.book) /\ Emptied(rows, next.book.ledger, l)
<1>1. Len(collections) \in Nat
  BY TableTypes
<1>2. PICK prev : prev = ReversedInTurn(book, l)[Len(collections)]
  OBVIOUS
<1>3. LessChain(rows, prev, l, Len(collections))
  BY <1>1, <1>2, LessAll
<1>4. IsChain(prev) /\ (prev.ok => Sound(prev.book))
  BY <1>3 DEF LessChain
<1>5. PICK t : t = "PURCHASE"
  OBVIOUS
<1>6. t \in PurchaseSources
  BY <1>5 DEF PurchaseSources
<1>7. next = ReverseSource(prev, t, p, l)
  BY <1>2, <1>5 DEF ReverseLine
<1>8. /\ IsChain(next)
      /\ next.ok => /\ prev.ok /\ Sound(next.book)
                    /\ SourceGone(prev.book.ledger, next.book.ledger, t, p, l)
                    /\ KeepsFitting(prev.book.ledger, next.book.ledger)
  BY <1>4, <1>6, <1>7, ReverseSourceStep
<1>9. ASSUME next.ok PROVE Emptied(rows, next.book.ledger, l)
  <2>1. PICK mid, all : mid = prev.book.ledger /\ all = next.book.ledger
    OBVIOUS
  <2>2. SourceGone(mid, all, t, p, l) /\ KeepsFitting(mid, all)
    BY <1>8, <1>9, <2>1
  <2>3. LineLess(rows, mid, l, Len(collections))
    BY <1>3, <1>8, <1>9, <2>1 DEF LessChain
  <2>4. Grown(rows, all, l) /\ KeepsFitting(rows, all) /\ all \in Seq(Rows)
    <3>1. Grown(rows, mid, l) /\ Grown(mid, all, l) /\ KeepsFitting(rows, mid)
      BY <2>2, <2>3 DEF SourceGone, LineLess
    <3>2. Grown(rows, all, l) /\ KeepsFitting(rows, all)
      BY <2>2, <3>1, GrownTwice, KeepsTwice
    <3> QED
      BY <3>2 DEF Grown
  <2>5. RowsFit(all, purchases, lns, collections, refunds)
    BY <2>4 DEF KeepsFitting
  <2>6. ASSUME NEW c \in 1..Len(collections) PROVE Nothing(all, Of("PURCHASE_COLLECTION", c, l))
    <3>1. PICK u : u = "PURCHASE_COLLECTION"
      OBVIOUS
    <3>2. Alike(mid, all, Of(u, c, l))
      BY <1>5, <2>2, <3>1 DEF SourceGone
    <3>3. Nothing(mid, Of(u, c, l))
      <4>1. CASE c \in CollectionsOf(l)
        BY <2>3, <3>1, <4>1 DEF LineLess
      <4>2. CASE c \notin CollectionsOf(l)
        <5>1. Took(collections, c, l) = 0
          <6>1. CASE collections[c].is_deleted
            BY <6>1 DEF Took
          <6>2. CASE ~collections[c].is_deleted
            <7>1. DOMAIN collections = 1..Len(collections)
              BY DEF TablesTyped
            <7>2. AskSome(collections[c].lines) /\ collections[c].lines \in Seq(AskedItems(Len(lns)))
              BY TableTypes
            <7>3. DOMAIN collections[c].lines = 1..Len(collections[c].lines)
              BY <7>2
            <7>4. \A i \in 1..Len(collections[c].lines) : i \notin On(collections[c].lines, l)
              BY <4>2, <6>2, <7>1, <7>3 DEF CollectionsOf, On
            <7>5. Total(collections[c].lines, On(collections[c].lines, l)) = 0
              BY <7>2, <7>4, TotalFacts
            <7> QED
              BY <6>2, <7>5 DEF Took
          <6> QED
            BY <6>1, <6>2
        <5>2. \A loc \in Locations : TookAt(collections, c, l)[loc] = 0
          BY <5>1 DEF TookAt
        <5>3. CollectionTraced(rows, collections, c, l)
          OBVIOUS
        <5>4. Nothing(rows, Of(u, c, l))
          BY <3>1, <5>1, <5>2, <5>3 DEF CollectionTraced, Traced
        <5>5. Alike(rows, mid, Of(u, c, l))
          BY <2>3, <3>1, <4>2 DEF LineLess
        <5> QED
          BY <5>4, <5>5, NothingAlike
      <4> QED
        BY <4>1, <4>2
    <3> QED
      BY <3>1, <3>2, <3>3, NothingAlike
  <2>7. ASSUME NEW r \in 1..Len(refunds) PROVE Nothing(all, Of("PURCHASE_REFUND", r, l))
    <3>1. PICK u : u = "PURCHASE_REFUND"
      OBVIOUS
    <3>2. Back(refunds, r, l, "PENDING") = 0
      BY DEF NotBack, RefundSources
    <3>3. \A loc \in Locations : BackFrom(refunds, r, l)[loc] = 0
      BY DEF NotBack, BackFrom
    <3>4. RefundTraced(rows, refunds, r, l)
      OBVIOUS
    <3>5. Nothing(rows, Of(u, r, l))
      BY <3>1, <3>2, <3>3, <3>4 DEF RefundTraced, Traced
    <3>6. u # "PURCHASE_COLLECTION" /\ u # t
      BY <1>5, <3>1
    <3>7. Alike(rows, mid, Of(u, r, l)) /\ Alike(mid, all, Of(u, r, l))
      BY <2>2, <2>3, <3>6 DEF LineLess, SourceGone
    <3> QED
      BY <3>1, <3>5, <3>7, NothingAlike
  <2>8. Nothing(all, Of("PURCHASE", lns[l].purchase, l))
    BY <1>5, <2>2 DEF SourceGone
  <2>9. \A u, x : Of(u, x, l) \intersect OnLine(l) = Of(u, x, l)
    BY DEF Of
  <2>10. Nothing(all, OnLine(l))
    <3>1. OnlyOn(OnLine(l), l)
      BY DEF OnlyOn
    <3>2. Nothing(all, Of("PURCHASE", lns[l].purchase, l) \intersect OnLine(l))
      BY <2>8, <2>9
    <3>3. \A c \in 1..Len(collections) : Nothing(all, Of("PURCHASE_COLLECTION", c, l) \intersect OnLine(l))
      BY <2>6, <2>9
    <3>4. \A r \in 1..Len(refunds) : Nothing(all, Of("PURCHASE_REFUND", r, l) \intersect OnLine(l))
      BY <2>7, <2>9
    <3> QED
      BY <2>4, <2>5, <3>1, <3>2, <3>3, <3>4, LineEmpty
  <2> QED
    BY <2>1, <2>4, <2>10 DEF Emptied
<1> QED
  BY <1>8, <1>9

-----------------------------------------------------------------------------
(* Entering a corrected line again, and replaying its collections *)

\* The chain after one more item of the collection.
ItemsNext(prev, k, start, lns, l, c) ==
    IF collections[c].lines[k].line = l
    THEN ReplayItem(prev, lns, l, c, collections[c].lines[k].quantity) ELSE prev

\* The recursion equation of ItemsReplayed, up to n.
AreItemsReplayed(f, start, lns, l, c, n) ==
    f = [k \in 0..n |-> IF k = 0 THEN start ELSE ItemsNext(f[k - 1], k, start, lns, l, c)]

\* The recursion over the items of a collection has a solution.
LEMMA ItemsReplayedExist ==
    ASSUME NEW start, NEW lns, NEW l, NEW c
    PROVE  \A n \in Nat : \E f : AreItemsReplayed(f, start, lns, l, c, n)
<1> DEFINE T == {n \in Nat : \E f : AreItemsReplayed(f, start, lns, l, c, n)}
           first == start
           Next1(prev, k) == ItemsNext(prev, k, start, lns, l, c)
<1>1. 0 \in T
  <2>1. AreItemsReplayed([k \in 0..0 |-> first], start, lns, l, c, 0)
    BY DEF AreItemsReplayed
  <2> QED
    BY <2>1
<1>2. ASSUME NEW n \in Nat, n \in T PROVE n + 1 \in T
  <2>1. PICK f : AreItemsReplayed(f, start, lns, l, c, n)
    BY <1>2
  <2>2. f = [k \in 0..n |-> IF k = 0 THEN first ELSE Next1(f[k - 1], k)]
    BY <2>1 DEF AreItemsReplayed
  <2> HIDE DEF first, Next1
  <2> DEFINE g == [k \in 0..(n + 1) |-> IF k = n + 1 THEN Next1(f[n], n + 1) ELSE f[k]]
  <2>3. \A k \in 0..n : f[k] = IF k = 0 THEN first ELSE Next1(f[k - 1], k)
    BY <2>2
  <2>4. \A k \in 0..(n + 1) : g[k] = IF k = 0 THEN first ELSE Next1(g[k - 1], k)
    BY <2>3
  <2>5. g = [k \in 0..(n + 1) |-> IF k = 0 THEN first ELSE Next1(g[k - 1], k)]
    BY <2>4
  <2> HIDE DEF g
  <2>6. AreItemsReplayed(g, start, lns, l, c, n + 1)
    BY <2>5 DEF AreItemsReplayed, first, Next1
  <2> QED
    BY <2>6
<1> HIDE DEF T
<1>3. \A n \in Nat : n \in T
  BY <1>1, <1>2, NatSetInduction
<1> QED
  BY <1>3 DEF T

\* So the function of the model satisfies its equation.
LEMMA ItemsReplayedEquation ==
    ASSUME NEW start, NEW lns, NEW l, NEW c, Len(collections[c].lines) \in Nat
    PROVE  \A k \in 0..Len(collections[c].lines) :
              ItemsReplayed(start, lns, l, c)[k] =
                 IF k = 0 THEN start ELSE ItemsNext(ItemsReplayed(start, lns, l, c)[k - 1], k, start, lns, l, c)
<1>1. \E f : f = [k \in 0..Len(collections[c].lines) |-> IF k = 0 THEN start ELSE ItemsNext(f[k - 1], k, start, lns, l, c)]
  <2>1. PICK f : AreItemsReplayed(f, start, lns, l, c, Len(collections[c].lines))
    BY ItemsReplayedExist
  <2> QED
    BY <2>1 DEF AreItemsReplayed
<1> DEFINE chain[n \in 0..Len(collections[c].lines)] == IF n = 0 THEN start ELSE ItemsNext(chain[n - 1], n, start, lns, l, c)
<1>2. chain = [n \in 0..Len(collections[c].lines) |-> IF n = 0 THEN start ELSE ItemsNext(chain[n - 1], n, start, lns, l, c)]
  BY <1>1
<1>3. ItemsReplayed(start, lns, l, c) = chain
  BY DEF ItemsReplayed, ItemsNext
<1> HIDE DEF chain
<1> QED
  BY <1>2, <1>3

\* The chain after one more collection is replayed.
ReplayedNext(prev, k, start, lns, l) ==
    IF k \in CollectionsOf(l)
    THEN ItemsReplayed(prev, lns, l, k)[Len(collections[k].lines)] ELSE prev

\* The recursion equation of ReplayedInTurn, up to n.
AreReplayed(f, start, lns, l, n) ==
    f = [k \in 0..n |-> IF k = 0 THEN start ELSE ReplayedNext(f[k - 1], k, start, lns, l)]

\* The recursion over the collections has a solution.
LEMMA ReplayedInTurnExist ==
    ASSUME NEW start, NEW lns, NEW l
    PROVE  \A n \in Nat : \E f : AreReplayed(f, start, lns, l, n)
<1> DEFINE T == {n \in Nat : \E f : AreReplayed(f, start, lns, l, n)}
           first == start
           Next1(prev, k) == ReplayedNext(prev, k, start, lns, l)
<1>1. 0 \in T
  <2>1. AreReplayed([k \in 0..0 |-> first], start, lns, l, 0)
    BY DEF AreReplayed
  <2> QED
    BY <2>1
<1>2. ASSUME NEW n \in Nat, n \in T PROVE n + 1 \in T
  <2>1. PICK f : AreReplayed(f, start, lns, l, n)
    BY <1>2
  <2>2. f = [k \in 0..n |-> IF k = 0 THEN first ELSE Next1(f[k - 1], k)]
    BY <2>1 DEF AreReplayed
  <2> HIDE DEF first, Next1
  <2> DEFINE g == [k \in 0..(n + 1) |-> IF k = n + 1 THEN Next1(f[n], n + 1) ELSE f[k]]
  <2>3. \A k \in 0..n : f[k] = IF k = 0 THEN first ELSE Next1(f[k - 1], k)
    BY <2>2
  <2>4. \A k \in 0..(n + 1) : g[k] = IF k = 0 THEN first ELSE Next1(g[k - 1], k)
    BY <2>3
  <2>5. g = [k \in 0..(n + 1) |-> IF k = 0 THEN first ELSE Next1(g[k - 1], k)]
    BY <2>4
  <2> HIDE DEF g
  <2>6. AreReplayed(g, start, lns, l, n + 1)
    BY <2>5 DEF AreReplayed, first, Next1
  <2> QED
    BY <2>6
<1> HIDE DEF T
<1>3. \A n \in Nat : n \in T
  BY <1>1, <1>2, NatSetInduction
<1> QED
  BY <1>3 DEF T

\* So the function of the model satisfies its equation.
LEMMA ReplayedInTurnEquation ==
    ASSUME NEW start, NEW lns, NEW l, Len(collections) \in Nat
    PROVE  \A k \in 0..Len(collections) :
              ReplayedInTurn(start, lns, l)[k] =
                 IF k = 0 THEN start ELSE ReplayedNext(ReplayedInTurn(start, lns, l)[k - 1], k, start, lns, l)
<1>1. \E f : f = [k \in 0..Len(collections) |-> IF k = 0 THEN start ELSE ReplayedNext(f[k - 1], k, start, lns, l)]
  <2>1. PICK f : AreReplayed(f, start, lns, l, Len(collections))
    BY ReplayedInTurnExist
  <2> QED
    BY <2>1 DEF AreReplayed
<1> DEFINE chain[n \in 0..Len(collections)] == IF n = 0 THEN start ELSE ReplayedNext(chain[n - 1], n, start, lns, l)
<1>2. chain = [n \in 0..Len(collections) |-> IF n = 0 THEN start ELSE ReplayedNext(chain[n - 1], n, start, lns, l)]
  BY <1>1
<1>3. ReplayedInTurn(start, lns, l) = chain
  BY DEF ReplayedInTurn, ReplayedNext
<1> HIDE DEF chain
<1> QED
  BY <1>2, <1>3

\* The item of a replay, and the movements that replay it.
Item(l, q) == [line |-> l, quantity |-> q]

Replays(more, lns, l, c, q) ==
    /\ more \in Seq(Rows)
    /\ \A k \in 1..Len(more) :
          CollectRowOf(more[k], lns, c, purchases[lns[l].purchase].location, PlaceOf(c), Item(l, q))
    /\ Traced(more, Of("PURCHASE_COLLECTION", c, l), q, q, PutAt(PlaceOf(c), q))

\* They take their share of what is pending.
ReplaysOn(rows, all, lns, l, c, q) ==
    /\ \E more \in Seq(Rows) : all = rows \o more /\ Replays(more, lns, l, c, q)
    /\ Clean(PendOf(rows, l)) => Clean(PendOf(all, l))

\* Replaying an item posts its pair of rows at the terms the line has now.
LEMMA ReplayItemFacts ==
    ASSUME NEW chain, IsChain(chain), chain.ok => Sound(chain.book), NEW lns, NEW l \in Nat,
           lns[l].product \in Products, purchases[lns[l].purchase].location \in Locations,
           NEW c \in Nat, PlaceOf(c) \in Locations, NEW q \in Nat \ {0},
           NEW next, next = ReplayItem(chain, lns, l, c, q)
    PROVE  /\ IsChain(next)
           /\ next.ok => /\ chain.ok /\ Sound(next.book)
                         /\ ReplaysOn(chain.book.ledger, next.book.ledger, lns, l, c, q)
<1>1. PICK at, loc, book, rows, items :
         /\ at = purchases[lns[l].purchase].location /\ loc = PlaceOf(c)
         /\ book = chain.book /\ rows = book.ledger /\ items = << Item(l, q) >>
  OBVIOUS
<1>2. PICK moves : moves = CollectMoves(book, lns, c, at, loc, items)
  OBVIOUS
<1>3. CASE q > PendingRemainder(rows, l).qty
  <2>1. next = [chain EXCEPT !.ok = FALSE]
    BY <1>1, <1>3 DEF ReplayItem
  <2> QED
    BY <2>1 DEF IsChain
<1>4. CASE ~(q > PendingRemainder(rows, l).qty)
  <2>1. next = ThenPost(chain, moves)
    BY <1>1, <1>2, <1>4 DEF ReplayItem, Item
  <2>2. IsChain(next) /\ (next.ok => chain.ok)
    BY <2>1, ThenPostFacts
  <2>3. ASSUME next.ok PROVE Sound(next.book) /\ ReplaysOn(rows, next.book.ledger, lns, l, c, q)
    <3>1. Sound(book) /\ rows \in Seq(Rows)
      BY <1>1, <2>2, <2>3 DEF Sound
    <3>2. items[1] = Item(l, q) /\ Len(items) = 1 /\ IsList(items)
      BY <1>1 DEF IsList
    <3>3. Item(l, q).line = l /\ Item(l, q).quantity = q
      BY DEF Item
    <3>4. AskSome(items)
      BY <3>2, <3>3 DEF AskSome
    <3>5. PendingRemainder(rows, l) = PendOf(rows, l)
      BY <3>1, SumsAreNets DEF PendOf
    <3>6. PendOf(rows, l).qty \in Int
      <4>1. PendOf(rows, l) \in [qty: Int, aed: Int]
        BY <3>1, NetInType DEF PendOf
      <4> QED
        BY <4>1
    <3>7. q <= PendOf(rows, l).qty
      BY <1>4, <3>5, <3>6
    <3>8. Askable(items, rows, lns)
      BY <3>2, <3>3, <3>4, <3>7 DEF Askable, MayAsk
    <3>9. /\ moves = FlattenSeq(CollectParts(book, lns, c, at, loc, items))
          /\ PairsFor(CollectParts(book, lns, c, at, loc, items), items, c, loc)
          /\ moves \in Seq(Rows)
          /\ \A k \in 1..Len(moves) : CollectRow(moves[k], lns, c, at, loc, items)
      BY <1>1, <1>2, <3>1, <3>2, <3>8, CollectMovesFacts
    <3>10. /\ AllWellFormed(moves) /\ Sound(next.book)
           /\ next.book.ledger = rows \o moves
      <4>1. Sound(chain.book) /\ moves \in Seq(Rows) /\ chain.book.ledger = rows
        BY <1>1, <3>1, <3>9
      <4>2. /\ AllWellFormed(moves) /\ Sound(next.book)
            /\ next.book.ledger = chain.book.ledger \o moves
        BY <2>1, <2>3, <4>1, ThenPostFacts
      <4> QED
        BY <4>1, <4>2
    <3>11. Total(items, On(items, l)) = q
      <4>1. PICK f : f = [i \in 1..Len(items) |-> IF i \in On(items, l) THEN items[i].quantity ELSE 0]
        OBVIOUS
      <4>2. 1 \in On(items, l)
        BY <3>2, <3>3 DEF On
      <4>3. Len(f) = 1 /\ f[1] = q /\ f \in Seq(Int)
        <5>1. f = << q >>
          BY <3>2, <3>3, <4>1, <4>2
        <5> QED
          BY <5>1
      <4>4. SumSeq(f) = q
        <5>1. 1 \in 1..Len(f) /\ \A i \in 1..Len(f) : i # 1 => f[i] = 0
          BY <4>3
        <5> QED
          BY <4>3, <5>1, SumSeqOne
      <4> QED
        BY <4>1, <4>4 DEF Total
    <3>12. Traced(moves, Of("PURCHASE_COLLECTION", c, l), q, q, PutAt(loc, q))
      <4>1. PICK parts : parts = CollectParts(book, lns, c, at, loc, items)
        OBVIOUS
      <4>2. AllWellFormed(FlattenSeq(parts))
        BY <3>9, <3>10, <4>1
      <4>3. Traced(FlattenSeq(parts), Of("PURCHASE_COLLECTION", c, l), q, q, PutAt(loc, q))
        BY <3>4, <3>9, <3>11, <4>1, <4>2, PairsTraced
      <4> QED
        BY <3>9, <4>1, <4>3
    <3>13. ASSUME NEW k \in 1..Len(moves)
           PROVE  CollectRowOf(moves[k], lns, c, at, loc, Item(l, q))
      <4>1. PICK i \in 1..Len(items) : CollectRowOf(moves[k], lns, c, at, loc, items[i])
        BY <3>9 DEF CollectRow
      <4>2. items[i] = Item(l, q)
        BY <3>2
      <4> QED
        BY <4>1, <4>2
    <3>14. Replays(moves, lns, l, c, q)
      BY <1>1, <3>9, <3>12, <3>13 DEF Replays
    <3>15. ASSUME Clean(PendOf(rows, l)) PROVE Clean(PendOf(rows \o moves, l))
      <4>1. OneLineEach(items)
        BY <3>2 DEF OneLineEach, IsList
      <4>2. AllWellFormed(CollectMoves(book, lns, c, at, loc, items))
        BY <1>2, <3>10
      <4>3. Clean(PendOf(book.ledger \o CollectMoves(book, lns, c, at, loc, items), l))
        BY <1>1, <3>1, <3>2, <3>8, <3>15, <4>1, <4>2, CollectClean
      <4> QED
        BY <1>1, <1>2, <4>3
    <3> QED
      BY <3>9, <3>10, <3>14, <3>15 DEF ReplaysOn
  <2> QED
    BY <1>1, <2>2, <2>3
<1> QED
  BY <1>3, <1>4

\* The line is entered, its collections before the n-th are replayed, and m units of
\* the n-th are.
Restoring(rows, lns, l, n, m) ==
    /\ RowsFit(rows, purchases, lns, collections, refunds)
    /\ Nothing(rows, OnLine(l) \ OfProduct(lns[l].product))
    /\ Clean(PendOf(rows, l))
    /\ NetIn(rows, Of("PURCHASE", lns[l].purchase, l)).qty = lns[l].quantity
    /\ \A c \in 1..(n - 1) : CollectionTraced(rows, collections, c, l)
    /\ Traced(rows, Of("PURCHASE_COLLECTION", n, l), m, m, PutAt(PlaceOf(n), m))
    /\ \A c \in 1..Len(collections) : c > n => Nothing(rows, Of("PURCHASE_COLLECTION", c, l))
    /\ \A r \in 1..Len(refunds) : Nothing(rows, Of("PURCHASE_REFUND", r, l))

\* The first n are replayed.
Restored(rows, lns, l, n) ==
    /\ RowsFit(rows, purchases, lns, collections, refunds)
    /\ Nothing(rows, OnLine(l) \ OfProduct(lns[l].product))
    /\ Clean(PendOf(rows, l))
    /\ NetIn(rows, Of("PURCHASE", lns[l].purchase, l)).qty = lns[l].quantity
    /\ \A c \in 1..n : CollectionTraced(rows, collections, c, l)
    /\ \A c \in 1..Len(collections) : c > n => Nothing(rows, Of("PURCHASE_COLLECTION", c, l))
    /\ \A r \in 1..Len(refunds) : Nothing(rows, Of("PURCHASE_REFUND", r, l))

\* A line of tables that fit, neither deleted nor of a deleted purchase.
Correctable(lns, l) ==
    /\ TablesTyped(purchases, lns, collections, refunds)
    /\ NamesOwn(collections, lns)
    /\ l \in 1..Len(lns)
    /\ ~lns[l].is_deleted
    /\ ~purchases[lns[l].purchase].is_deleted

\* What a correction finds in the tables.
LEMMA CorrectableFacts ==
    ASSUME NEW lns, NEW l, Correctable(lns, l)
    PROVE  /\ l \in Nat /\ lns[l].product \in Products
           /\ purchases[lns[l].purchase].location \in Locations
           /\ Len(collections) \in Nat /\ Len(refunds) \in Nat
           /\ \A c \in 1..Len(collections) :
                 /\ PlaceOf(c) \in Locations /\ c \in Nat
                 /\ AskSome(collections[c].lines)
<1>1. TablesTyped(purchases, lns, collections, refunds) /\ l \in 1..Len(lns)
  BY DEF Correctable
<1>2. Len(lns) \in Nat /\ Len(collections) \in Nat /\ Len(refunds) \in Nat
  BY <1>1, TableTypes
<1>3. lns[l].product \in Products /\ purchases[lns[l].purchase].location \in Locations
  BY <1>1, TableTypes
<1>4. \A c \in 1..Len(collections) : collections[c].location \in Locations /\ AskSome(collections[c].lines)
  BY <1>1, TableTypes
<1> QED
  BY <1>1, <1>2, <1>3, <1>4 DEF PlaceOf

\* One item more.
LEMMA RestoringMore ==
    ASSUME NEW lns, NEW l, Correctable(lns, l), NEW n \in 1..Len(collections),
           NEW i \in 1..Len(collections[n].lines), collections[n].lines[i].line = l,
           NEW m \in Nat, NEW rows \in Seq(Rows), Restoring(rows, lns, l, n, m),
           NEW q \in Nat \ {0}, NEW all, ReplaysOn(rows, all, lns, l, n, q)
    PROVE  all \in Seq(Rows) /\ Grown(rows, all, l) /\ Restoring(all, lns, l, n, m + q)
<1>1. PICK more \in Seq(Rows) : all = rows \o more /\ Replays(more, lns, l, n, q)
  BY DEF ReplaysOn
<1>2. /\ l \in Nat /\ n \in Nat /\ PlaceOf(n) \in Locations
      /\ lns[l].product \in Products
  BY CorrectableFacts
<1>3. PICK u, p, at : u = "PURCHASE_COLLECTION" /\ p = lns[l].purchase /\ at = purchases[p].location
  OBVIOUS
<1>4. ASSUME NEW k \in 1..Len(more)
      PROVE  /\ more[k].stype = u /\ more[k].sid = n /\ more[k].line = l
             /\ more[k].product = lns[l].product
             /\ \/ more[k].bucket = "PENDING" /\ more[k].loc = at
                \/ more[k].bucket = "PHYSICAL"
  BY <1>1, <1>3 DEF Replays, CollectRowOf, Item
<1>5. \A k \in 1..Len(more) : more[k] \in OnLine(l)
  <2>1. u \in PurchaseSources
    BY <1>3 DEF PurchaseSources
  <2>2. \A k \in 1..Len(more) : more[k] \in Rows
    OBVIOUS
  <2> QED
    BY <1>4, <2>1, <2>2 DEF OnLine
<1>6. all \in Seq(Rows) /\ Grown(rows, all, l)
  BY <1>1, <1>5, GrownBy DEF Grown
<1>7. \A v, x : v # u \/ x # n => Nothing(more, Of(v, x, l))
  <2>1. \A k \in 1..Len(more) : more[k].stype = u /\ more[k].sid = n /\ more[k].line \in {l}
    BY <1>4
  <2> QED
    BY <2>1, OfOther
<1>8. \A v, x : v # u \/ x # n => Alike(rows, all, Of(v, x, l))
  BY <1>1, <1>7, MoreAlike
<1>9. RowsFit(all, purchases, lns, collections, refunds)
  <2>1. RowsFit(rows, purchases, lns, collections, refunds)
    BY DEF Restoring
  <2>2. l \in 1..Len(lns) /\ collections[n].purchase = p
    BY <1>3 DEF Correctable, NamesOwn
  <2>3. ASSUME NEW k \in 1..Len(more) PROVE RowFits(more[k], purchases, lns, collections, refunds)
    BY <1>3, <1>4, <2>2, <2>3 DEF OwnRowFits, RowFits, PurchaseSources
  <2> QED
    BY <1>1, <2>1, <2>3, RowsFitMore DEF RowsFit
<1>10. Nothing(all, OnLine(l) \ OfProduct(lns[l].product))
  <2>1. Nothing(rows, OnLine(l) \ OfProduct(lns[l].product))
    BY DEF Restoring
  <2> QED
    BY <1>1, <1>4, <2>1, ProductKept
<1>11. Clean(PendOf(all, l))
  BY DEF Restoring, ReplaysOn
<1>12. NetIn(all, Of("PURCHASE", p, l)).qty = lns[l].quantity
  <2>1. Alike(rows, all, Of("PURCHASE", p, l))
    BY <1>3, <1>8
  <2>2. NetIn(all, Of("PURCHASE", p, l)) = NetIn(rows, Of("PURCHASE", p, l))
    BY <2>1, SetsBlind DEF Alike
  <2>3. NetIn(rows, Of("PURCHASE", p, l)).qty = lns[l].quantity
    BY <1>3 DEF Restoring
  <2> QED
    BY <2>2, <2>3
<1>13. ASSUME NEW c \in 1..(n - 1) PROVE CollectionTraced(all, collections, c, l)
  <2>1. CollectionTraced(rows, collections, c, l)
    BY DEF Restoring
  <2>2. Alike(rows, all, Of(u, c, l))
    BY <1>2, <1>8
  <2> QED
    BY <1>3, <2>1, <2>2, SetsBlind, TracedAlike DEF CollectionTraced
<1>14. ASSUME NEW c \in 1..Len(collections), c > n PROVE Nothing(all, Of(u, c, l))
  <2>1. Nothing(rows, Of(u, c, l))
    BY <1>3, <1>14 DEF Restoring
  <2>2. Alike(rows, all, Of(u, c, l))
    BY <1>2, <1>8, <1>14
  <2> QED
    BY <2>1, <2>2, NothingAlike
<1>15. ASSUME NEW r \in 1..Len(refunds) PROVE Nothing(all, Of("PURCHASE_REFUND", r, l))
  <2>1. Nothing(rows, Of("PURCHASE_REFUND", r, l))
    BY DEF Restoring
  <2>2. Alike(rows, all, Of("PURCHASE_REFUND", r, l))
    BY <1>3, <1>8
  <2> QED
    BY <2>1, <2>2, NothingAlike
<1>16. Traced(all, Of(u, n, l), m + q, m + q, PutAt(PlaceOf(n), m + q))
  <2>1. PICK a1, a2, a3, T :
           /\ a1 = PutAt(PlaceOf(n), m) /\ a2 = PutAt(PlaceOf(n), q)
           /\ a3 = PutAt(PlaceOf(n), m + q) /\ T = Of(u, n, l)
    OBVIOUS
  <2>2. a1 \in [Locations -> Int] /\ a2 \in [Locations -> Int] /\ a3 \in [Locations -> Int]
    BY <2>1 DEF PutAt
  <2>3. \A loc \in Locations : /\ a3[loc] = a1[loc] + a2[loc]
                               /\ a1[loc] >= 0 /\ a2[loc] >= 0
    BY <2>1 DEF PutAt
  <2>4. Traced(rows, T, m, m, a1) /\ Traced(more, T, q, q, a2)
    BY <1>1, <1>3, <2>1 DEF Restoring, Replays
  <2>5. Traced(rows \o more, T, m + q, m + q, a3)
    <3>1. m \in Int /\ q \in Int /\ m >= 0 /\ q >= 0
      OBVIOUS
    <3>2. \A loc \in Locations : /\ a3[loc] = a1[loc] + a2[loc]
                                 /\ \/ a1[loc] >= 0 /\ a2[loc] >= 0
                                    \/ a1[loc] <= 0 /\ a2[loc] <= 0
      BY <2>3
    <3> QED
      BY <2>2, <2>4, <3>1, <3>2, TracedMore
  <2> QED
    BY <1>1, <2>1, <2>5
<1> QED
  BY <1>3, <1>6, <1>9, <1>10, <1>11, <1>12, <1>13, <1>14, <1>15, <1>16 DEF Restoring

\* The chain in the middle of collection n.
RestoringChain(base, chain, lns, l, n, m) ==
    /\ IsChain(chain)
    /\ chain.ok => /\ Sound(chain.book) /\ Grown(base, chain.book.ledger, l)
                   /\ Restoring(chain.book.ledger, lns, l, n, m)

\* One item more is replayed.
LEMMA RestoringNext ==
    ASSUME NEW base, NEW lns, NEW l, Correctable(lns, l), NEW n \in 1..Len(collections),
           NEW i \in 1..Len(collections[n].lines), NEW m \in Nat,
           NEW prev, RestoringChain(base, prev, lns, l, n, m),
           NEW start, NEW next, next = ItemsNext(prev, i, start, lns, l, n),
           NEW a, a = Asked(collections[n].lines, On(collections[n].lines, l))[i]
    PROVE  RestoringChain(base, next, lns, l, n, m + a)
<1>1. AskSome(collections[n].lines)
  BY CorrectableFacts
<1>2. PICK items : items = collections[n].lines
  OBVIOUS
<1>3. i \in 1..Len(items) /\ items[i].quantity \in Nat \ {0}
  BY <1>1, <1>2 DEF AskSome
<1>4. CASE items[i].line = l
  <2>1. PICK q \in Nat \ {0} : q = items[i].quantity
    BY <1>3
  <2>2. i \in On(items, l)
    BY <1>3, <1>4 DEF On
  <2>3. a = q
    BY <1>2, <1>3, <2>1, <2>2 DEF Asked
  <2>4. next = ReplayItem(prev, lns, l, n, q)
    BY <1>2, <1>4, <2>1 DEF ItemsNext
  <2>5. IsChain(prev) /\ (prev.ok => Sound(prev.book))
    BY DEF RestoringChain
  <2>6. /\ l \in Nat /\ lns[l].product \in Products
        /\ purchases[lns[l].purchase].location \in Locations
        /\ n \in Nat /\ PlaceOf(n) \in Locations
    BY CorrectableFacts
  <2>7. /\ IsChain(next)
        /\ next.ok => /\ prev.ok /\ Sound(next.book)
                      /\ ReplaysOn(prev.book.ledger, next.book.ledger, lns, l, n, q)
    BY <2>4, <2>5, <2>6, ReplayItemFacts
  <2>8. ASSUME next.ok
        PROVE  Grown(base, next.book.ledger, l) /\ Restoring(next.book.ledger, lns, l, n, m + q)
    <3>1. PICK rows, all : rows = prev.book.ledger /\ all = next.book.ledger
      OBVIOUS
    <3>2. /\ Grown(base, rows, l) /\ Restoring(rows, lns, l, n, m)
          /\ ReplaysOn(rows, all, lns, l, n, q)
      BY <2>7, <2>8, <3>1 DEF RestoringChain
    <3>3. rows \in Seq(Rows)
      BY <3>2 DEF Grown
    <3>4. i \in 1..Len(collections[n].lines) /\ collections[n].lines[i].line = l
      BY <1>2, <1>4
    <3>5. Grown(rows, all, l) /\ Restoring(all, lns, l, n, m + q)
      BY <3>2, <3>3, <3>4, RestoringMore
    <3> QED
      BY <3>1, <3>2, <3>5, GrownTwice
  <2> QED
    BY <2>3, <2>7, <2>8 DEF RestoringChain
<1>5. CASE items[i].line # l
  <2>1. next = prev
    BY <1>2, <1>5 DEF ItemsNext
  <2>2. i \notin On(items, l)
    BY <1>5 DEF On
  <2>3. a = 0
    BY <1>2, <1>3, <2>2 DEF Asked
  <2>4. m + a = m
    BY <2>3
  <2> QED
    BY <2>1, <2>4
<1> QED
  BY <1>4, <1>5

\* All the items of a collection.
LEMMA ItemsRestored ==
    ASSUME NEW base, NEW lns, NEW l, Correctable(lns, l), NEW n \in 1..Len(collections),
           NEW start, RestoringChain(base, start, lns, l, n, 0),
           NEW next,
           next = ItemsReplayed(start, lns, l, n)[Len(collections[n].lines)]
    PROVE  RestoringChain(base, next, lns, l, n,
                          Total(collections[n].lines, On(collections[n].lines, l)))
<1>1. PICK items, f, asked :
         /\ items = collections[n].lines /\ f = ItemsReplayed(start, lns, l, n)
         /\ asked = Asked(items, On(items, l))
  OBVIOUS
<1>2. AskSome(items) /\ Len(items) \in Nat
  BY <1>1, CorrectableFacts DEF AskSome
<1>3. asked \in Seq(Nat) /\ asked \in Seq(Int) /\ Len(asked) = Len(items)
  <2>1. PICK k \in Nat : k = Len(items)
    BY <1>2
  <2>2. asked = [i \in 1..k |-> IF i \in On(items, l) THEN items[i].quantity ELSE 0]
    BY <1>1, <2>1 DEF Asked
  <2>3. Len(asked) = k
    BY <2>2
  <2>4. \A i \in 1..k : asked[i] \in Nat
    BY <1>2, <2>1, <2>2 DEF AskSome
  <2>5. asked = [i \in 1..k |-> asked[i]]
    BY <2>2
  <2>6. asked \in [1..k -> Nat] /\ asked \in [1..k -> Int]
    BY <2>4, <2>5
  <2> QED
    BY <2>1, <2>3, <2>6
<1>4. \A k \in 0..Len(items) : f[k] = IF k = 0 THEN start ELSE ItemsNext(f[k - 1], k, start, lns, l, n)
  BY <1>1, <1>2, ItemsReplayedEquation
<1>5. PICK sums : sums = PrefixSums(asked)
  OBVIOUS
<1>6. /\ sums[0] = 0
      /\ \A k \in 0..(Len(items) - 1) : sums[k + 1] = sums[k] + asked[k + 1]
  BY <1>3, <1>5, PrefixSumsStep
<1> DEFINE T == {k \in Nat : k <= Len(items) =>
                    sums[k] \in Nat /\ RestoringChain(base, f[k], lns, l, n, sums[k])}
<1>7. 0 \in T
  <2>1. f[0] = start
    BY <1>2, <1>4
  <2> QED
    BY <1>6, <2>1
<1>8. ASSUME NEW k \in Nat, k \in T PROVE k + 1 \in T
  <2>1. SUFFICES ASSUME k + 1 <= Len(items)
                 PROVE  sums[k + 1] \in Nat /\ RestoringChain(base, f[k + 1], lns, l, n, sums[k + 1])
    OBVIOUS
  <2>2. sums[k] \in Nat /\ RestoringChain(base, f[k], lns, l, n, sums[k])
    BY <1>2, <1>8, <2>1
  <2>3. k + 1 \in 1..Len(items) /\ k \in 0..(Len(items) - 1) /\ k + 1 \in 0..Len(items)
    BY <1>2, <2>1
  <2>4. f[k + 1] = ItemsNext(f[k], k + 1, start, lns, l, n)
    BY <1>4, <2>3
  <2>5. sums[k + 1] = sums[k] + asked[k + 1] /\ asked[k + 1] \in Nat
    BY <1>3, <1>6, <2>3
  <2>6. PICK m, a, prev, i :
           m \in Nat /\ a \in Nat /\
           m = sums[k] /\ a = asked[k + 1] /\ prev = f[k] /\ i = k + 1
    BY <2>2, <2>5
  <2>7. RestoringChain(base, f[k + 1], lns, l, n, m + a)
    <3>1. i \in 1..Len(collections[n].lines) /\ RestoringChain(base, prev, lns, l, n, m)
      BY <1>1, <2>2, <2>3, <2>6
    <3>2. a = Asked(collections[n].lines, On(collections[n].lines, l))[i]
      BY <1>1, <2>6
    <3>3. PICK after : after = f[k + 1] /\ after = ItemsNext(prev, i, start, lns, l, n)
      BY <2>4, <2>6
    <3>4. m \in Nat
      BY <2>6
    <3>5. RestoringChain(base, after, lns, l, n, m + a)
      BY <3>1, <3>2, <3>3, <3>4, RestoringNext
    <3> QED
      BY <3>3, <3>5
  <2> QED
    BY <2>2, <2>5, <2>6, <2>7
<1> HIDE DEF T
<1>9. \A k \in Nat : k \in T
  BY <1>7, <1>8, NatSetInduction
<1>10. RestoringChain(base, f[Len(items)], lns, l, n, sums[Len(items)])
  BY <1>2, <1>9 DEF T
<1>11. Total(items, On(items, l)) = sums[Len(items)]
  BY <1>1, <1>3, <1>5, TotalAsked DEF SumSeq
<1> QED
  BY <1>1, <1>10, <1>11

\* The chain after collection n.
RestoredChain(base, chain, lns, l, n) ==
    /\ IsChain(chain)
    /\ chain.ok => /\ Sound(chain.book) /\ Grown(base, chain.book.ledger, l)
                   /\ Restored(chain.book.ledger, lns, l, n)

\* A collection to replay has nothing of the line yet.
LEMMA RestoringStarts ==
    ASSUME NEW lns, NEW l, NEW n \in Nat, n + 1 \in 1..Len(collections), NEW rows,
           Restored(rows, lns, l, n)
    PROVE  Restoring(rows, lns, l, n + 1, 0)
<1>1. PICK T, at : T = Of("PURCHASE_COLLECTION", n + 1, l) /\ at = PutAt(PlaceOf(n + 1), 0)
  OBVIOUS
<1>2. Nothing(rows, T) /\ Blind(T)
  BY <1>1, SetsBlind DEF Restored
<1>3. \A loc \in Locations : at[loc] = 0
  BY <1>1 DEF PutAt
<1>4. Traced(rows, T, 0, 0, at)
  BY <1>2, <1>3, NothingTraced
<1>5. n + 1 - 1 = n /\ \A c \in 1..Len(collections) : c > n + 1 => c > n
  OBVIOUS
<1> QED
  BY <1>1, <1>4, <1>5 DEF Restored, Restoring

\* It is replayed when all that it took is.
LEMMA RestoringEnds ==
    ASSUME NEW lns, NEW l, NEW n \in Nat, n + 1 \in 1..Len(collections), NEW rows,
           Restoring(rows, lns, l, n + 1, Took(collections, n + 1, l))
    PROVE  Restored(rows, lns, l, n + 1)
<1>1. PutAt(PlaceOf(n + 1), Took(collections, n + 1, l)) = TookAt(collections, n + 1, l)
  BY DEF PutAt, PlaceOf, TookAt
<1>2. CollectionTraced(rows, collections, n + 1, l)
  BY <1>1 DEF Restoring, CollectionTraced
<1>3. \A c \in 1..(n + 1) : c \in 1..n \/ c = n + 1
  OBVIOUS
<1>4. n + 1 - 1 = n
  OBVIOUS
<1> QED
  BY <1>2, <1>3, <1>4 DEF Restored, Restoring

\* One collection more is replayed.
LEMMA RestoredNext ==
    ASSUME NEW base, NEW lns, NEW l, Correctable(lns, l),
           NEW n \in Nat, n + 1 \in 1..Len(collections),
           NEW prev, RestoredChain(base, prev, lns, l, n),
           NEW start, NEW next, next = ReplayedNext(prev, n + 1, start, lns, l)
    PROVE  RestoredChain(base, next, lns, l, n + 1)
<1>1. PICK c : c = n + 1
  OBVIOUS
<1>2. RestoringChain(base, prev, lns, l, c, 0)
  <2>1. ASSUME prev.ok PROVE Restoring(prev.book.ledger, lns, l, c, 0)
    BY <1>1, <2>1, RestoringStarts DEF RestoredChain
  <2> QED
    BY <2>1 DEF RestoredChain, RestoringChain
<1>3. DOMAIN collections = 1..Len(collections) /\ c \in 1..Len(collections)
  BY <1>1 DEF Correctable, TablesTyped
<1>4. AskSome(collections[c].lines) /\ DOMAIN collections[c].lines = 1..Len(collections[c].lines)
  <2>1. TablesTyped(purchases, lns, collections, refunds)
    BY DEF Correctable
  <2>2. AskSome(collections[c].lines) /\ collections[c].lines \in Seq(AskedItems(Len(lns)))
    BY <1>3, <2>1, TableTypes
  <2> QED
    BY <2>2
<1>5. RestoringChain(base, next, lns, l, c, Took(collections, c, l))
  <2>1. CASE c \in CollectionsOf(l)
    <3>1. next = ItemsReplayed(prev, lns, l, c)[Len(collections[c].lines)]
      BY <1>1, <2>1 DEF ReplayedNext
    <3>2. Took(collections, c, l) = Total(collections[c].lines, On(collections[c].lines, l))
      BY <2>1 DEF CollectionsOf, Took
    <3> QED
      BY <1>2, <1>3, <3>1, <3>2, ItemsRestored
  <2>2. CASE c \notin CollectionsOf(l)
    <3>1. next = prev
      BY <1>1, <2>2 DEF ReplayedNext
    <3>2. Took(collections, c, l) = 0
      <4>1. CASE collections[c].is_deleted
        BY <4>1 DEF Took
      <4>2. CASE ~collections[c].is_deleted
        <5>1. \A i \in 1..Len(collections[c].lines) : i \notin On(collections[c].lines, l)
          BY <1>3, <1>4, <2>2, <4>2 DEF CollectionsOf, On
        <5>2. Total(collections[c].lines, On(collections[c].lines, l)) = 0
          BY <1>4, <5>1, TotalFacts
        <5> QED
          BY <4>2, <5>2 DEF Took
      <4> QED
        BY <4>1, <4>2
    <3> QED
      BY <1>2, <3>1, <3>2
  <2> QED
    BY <2>1, <2>2
<1>6. ASSUME next.ok PROVE Restored(next.book.ledger, lns, l, n + 1)
  BY <1>1, <1>5, <1>6, RestoringEnds DEF RestoringChain
<1> QED
  BY <1>5, <1>6 DEF RestoringChain, RestoredChain

\* All collections are replayed: each did again what its record says.
LEMMA AllRestored ==
    ASSUME NEW base, NEW lns, NEW l, Correctable(lns, l),
           NEW start, RestoredChain(base, start, lns, l, 0)
    PROVE  RestoredChain(base, ReplayedInTurn(start, lns, l)[Len(collections)], lns, l, Len(collections))
<1>1. Len(collections) \in Nat
  BY CorrectableFacts
<1>2. PICK f : f = ReplayedInTurn(start, lns, l)
  OBVIOUS
<1>3. \A k \in 0..Len(collections) :
         f[k] = IF k = 0 THEN start ELSE ReplayedNext(f[k - 1], k, start, lns, l)
  BY <1>1, <1>2, ReplayedInTurnEquation
<1> DEFINE T == {n \in Nat : n <= Len(collections) => RestoredChain(base, f[n], lns, l, n)}
<1>4. 0 \in T
  BY <1>1, <1>3
<1>5. ASSUME NEW n \in Nat, n \in T PROVE n + 1 \in T
  <2>1. SUFFICES ASSUME n + 1 <= Len(collections) PROVE RestoredChain(base, f[n + 1], lns, l, n + 1)
    OBVIOUS
  <2>2. RestoredChain(base, f[n], lns, l, n) /\ n + 1 \in 1..Len(collections)
    BY <1>1, <1>5, <2>1
  <2>3. f[n + 1] = ReplayedNext(f[n], n + 1, start, lns, l)
    BY <1>3, <2>2
  <2> QED
    BY <2>2, <2>3, RestoredNext
<1> HIDE DEF T
<1>6. \A n \in Nat : n \in T
  BY <1>4, <1>5, NatSetInduction
<1>7. RestoredChain(base, f[Len(collections)], lns, l, Len(collections))
  BY <1>1, <1>6 DEF T
<1> QED
  BY <1>2, <1>7

\* A member of a sequence of rows is a row.
LEMMA RowsAre ==
    ASSUME NEW s \in Seq(Rows), NEW k \in 1..Len(s)
    PROVE  s[k] \in Rows
OBVIOUS

\* A line entered into an empty one.
LEMMA EntryRestores ==
    ASSUME NEW lns, NEW l, Correctable(lns, l),
           NEW rows \in Seq(Rows), RowsFit(rows, purchases, lns, collections, refunds),
           Nothing(rows, OnLine(l)),
           NEW more, Enters(more, 1, lns[l], l), Len(more) = 1,
           more[1].loc = purchases[lns[l].purchase].location
    PROVE  Grown(rows, rows \o more, l) /\ Restored(rows \o more, lns, l, 0)
<1>1. more \in Seq(Rows) /\ \A k \in 1..Len(more) : k = 1
  BY DEF Enters
<1>2. PICK row, p : row = more[1] /\ p = lns[l].purchase
  OBVIOUS
<1>3. /\ row \in Rows /\ row.stype = "PURCHASE" /\ row.sid = p /\ row.line = l
      /\ row.product = lns[l].product /\ row.bucket = "PENDING"
      /\ row.qty = lns[l].quantity /\ row.aed >= 0 /\ 1 \in 1..Len(more)
      /\ row.loc = purchases[p].location
  <2>1. 1 \in 1..Len(more)
    BY DEF Enters
  <2>2. more[1] \in Rows
    BY <1>1, <2>1, RowsAre
  <2> QED
    BY <1>2, <2>1, <2>2 DEF Enters
<1>4. row \in OnLine(l) /\ row \in Of("PURCHASE", p, l) /\ row \in OnLine(l) \intersect Pend
  <2>1. "PURCHASE" \in PurchaseSources
    BY DEF PurchaseSources
  <2> QED
    BY <1>3, <2>1 DEF OnLine, Of, Pend, BucketRows
<1>5. Grown(rows, rows \o more, l)
  BY <1>1, <1>2, <1>4, GrownBy
<1>6. RowsFit(rows \o more, purchases, lns, collections, refunds)
  <2>1. l \in 1..Len(lns)
    BY DEF Correctable
  <2>2. RowFits(row, purchases, lns, collections, refunds)
    BY <1>2, <1>3, <2>1 DEF OwnRowFits, RowFits, PurchaseSources
  <2>3. RowsFit(more, purchases, lns, collections, refunds)
    BY <1>1, <1>2, <2>2 DEF RowsFit
  <2> QED
    BY <1>1, <2>3, RowsFitMore
<1>7. Nothing(rows \o more, OnLine(l) \ OfProduct(lns[l].product))
  <2>1. Nothing(rows, OnLine(l) \ OfProduct(lns[l].product))
    BY NothingLess
  <2>2. \A k \in 1..Len(more) : more[k].line = l => more[k].product = lns[l].product
    BY <1>1, <1>2, <1>3
  <2> QED
    BY <1>1, <2>1, <2>2, ProductKept
<1>8. ASSUME NEW S, Blind(S), S \subseteq OnLine(l)
      PROVE  NetIn(rows \o more, S) = IF row \in S THEN [qty |-> row.qty, aed |-> row.aed] ELSE NoStock
  <2>1. Nothing(rows, S)
    BY <1>8, NothingLess
  <2>2. Alike(more, rows \o more, S)
    BY <1>1, <2>1, FirstAlike
  <2>3. NetIn(rows \o more, S) = NetIn(more, S)
    BY <1>8, <2>2 DEF Alike
  <2>4. NetIn(more, S) = IF more[1] \in S THEN [qty |-> more[1].qty, aed |-> more[1].aed] ELSE NoStock
    BY <1>8, EntryNets
  <2> QED
    BY <1>2, <2>3, <2>4
<1>9. Clean(PendOf(rows \o more, l))
  <2>1. Blind(OnLine(l) \intersect Pend) /\ OnLine(l) \intersect Pend \subseteq OnLine(l)
    BY SetsBlind, BlindParts
  <2>2. PendOf(rows \o more, l) = [qty |-> row.qty, aed |-> row.aed]
    BY <1>4, <1>8, <2>1 DEF PendOf
  <2>3. row.qty # 0
    <3>1. TablesTyped(purchases, lns, collections, refunds) /\ l \in 1..Len(lns)
      BY DEF Correctable
    <3>2. lns[l].quantity \in Nat \ {0}
      BY <3>1, TableTypes
    <3> QED
      BY <1>3, <3>2
  <2> QED
    BY <1>3, <2>2, <2>3 DEF Clean
<1>10. NetIn(rows \o more, Of("PURCHASE", p, l)).qty = lns[l].quantity
  <2>1. Blind(Of("PURCHASE", p, l)) /\ Of("PURCHASE", p, l) \subseteq OnLine(l)
    BY SetsBlind
  <2>2. NetIn(rows \o more, Of("PURCHASE", p, l)) = [qty |-> row.qty, aed |-> row.aed]
    BY <1>4, <1>8, <2>1
  <2> QED
    BY <1>3, <2>2
<1>11. ASSUME NEW t, NEW s, t # "PURCHASE" PROVE Nothing(rows \o more, Of(t, s, l))
  <2>1. Nothing(rows, Of(t, s, l))
    BY SetsBlind, NothingLess
  <2>2. \A k \in 1..Len(more) : more[k] \notin Of(t, s, l)
    BY <1>1, <1>2, <1>3, <1>11 DEF Of
  <2>3. Nothing(more, Of(t, s, l))
    BY <1>1, <2>2, NothingOutside
  <2> QED
    BY <1>1, <2>1, <2>3, NothingMore
<1> QED
  BY <1>2, <1>5, <1>6, <1>7, <1>9, <1>10, <1>11 DEF Restored

\* A restored line is in order.
LEMMA RestoredGood ==
    ASSUME NEW lns, NEW l, Correctable(lns, l), NEW rows,
           Restored(rows, lns, l, Len(collections)),
           NotBack(refunds, l), Pending(lns, collections, refunds, l) >= 0
    PROVE  LineGood(rows, purchases, lns, collections, refunds, l)
<1>1. ASSUME NEW r \in 1..Len(refunds) PROVE RefundTraced(rows, refunds, r, l)
  <2>1. PICK T, at : T = Of("PURCHASE_REFUND", r, l) /\ at = BackFrom(refunds, r, l)
    OBVIOUS
  <2>2. Nothing(rows, T) /\ Blind(T)
    BY <2>1, SetsBlind DEF Restored
  <2>3. \A loc \in Locations : at[loc] = 0
    BY <2>1 DEF NotBack, BackFrom
  <2>4. Traced(rows, T, 0, 0, at)
    BY <2>2, <2>3, NothingTraced
  <2>5. Back(refunds, r, l, "PENDING") = 0 /\ Back(refunds, r, l, "RECEIVED") = 0
    BY DEF NotBack, RefundSources
  <2>6. -Back(refunds, r, l, "RECEIVED") = 0
    BY <2>5
  <2> QED
    BY <2>1, <2>4, <2>5, <2>6 DEF RefundTraced
<1>2. LiveLine(rows, lns, collections, refunds, l)
  BY <1>1 DEF LiveLine, Restored
<1>3. ~lns[l].is_deleted
  BY DEF Correctable
<1>4. /\ Nothing(rows, OnLine(l) \ OfProduct(lns[l].product))
      /\ Clean(NetIn(rows, OnLine(l) \intersect Pend))
  BY DEF Restored, PendOf
<1> QED
  BY <1>2, <1>3, <1>4, LiveGood

\* The line that is corrected.
LEMMA CorrectLineFacts ==
    ASSUME NEW lns, NEW l, Correctable(lns, l),
           NEW book, Sound(book), NEW rows, rows = book.ledger,
           RowsFit(rows, purchases, lns, collections, refunds),
           \A c \in 1..Len(collections) : CollectionTraced(rows, collections, c, l),
           \A r \in 1..Len(refunds) : RefundTraced(rows, refunds, r, l),
           NotBack(refunds, l), Pending(lns, collections, refunds, l) >= 0,
           NEW next, next = CorrectLine(book, lns, l)
    PROVE  /\ IsChain(next)
           /\ next.ok => /\ Sound(next.book) /\ Grown(rows, next.book.ledger, l)
                         /\ RowsFit(next.book.ledger, purchases, lns, collections, refunds)
                         /\ LineGood(next.book.ledger, purchases, lns, collections, refunds, l)
<1>1. PICK p, line, prev, row, entry, start :
         /\ p = lns[l].purchase /\ line = lns[l]
         /\ prev = ReverseLine(book, p, l)
         /\ row = EntryMove(p, purchases[p].location, l, line, line.quantity, TotalValue(line))
         /\ entry = << row >>
         /\ start = ThenPost(prev, entry)
  OBVIOUS
<1>2. next = ReplayedInTurn(start, lns, l)[Len(collections)]
  BY <1>1 DEF CorrectLine
<1>3. TablesTyped(purchases, lns, collections, refunds) /\ l \in 1..Len(lns)
  BY DEF Correctable
<1>4. /\ IsChain(prev)
      /\ prev.ok => Sound(prev.book) /\ Emptied(rows, prev.book.ledger, l)
  BY <1>1, <1>3, ReverseLineFacts
<1>5. row \in Rows /\ entry \in Seq(Rows) /\ Enters(entry, 1, line, l) /\ Len(entry) = 1
      /\ row.loc = purchases[p].location
  <2>1. /\ l \in Nat /\ line.product \in Products
        /\ purchases[p].location \in Locations
    BY <1>1, CorrectableFacts
  <2>2. /\ line.quantity \in Nat \ {0} /\ p \in Nat /\ TotalValue(line) \in Nat
    <3>1. line \in LineRecords(Len(purchases)) /\ p \in 1..Len(purchases) /\ Len(purchases) \in Nat
      BY <1>1, <1>3, TableTypes
    <3> QED
      BY <3>1, LineTypes, TotalNatural
  <2>3. PICK q \in Nat \ {0}, aed \in Nat, at \in Locations, product \in Products :
           /\ q = line.quantity /\ aed = TotalValue(line) /\ at = purchases[p].location
           /\ product = line.product
    BY <2>1, <2>2
  <2>4. row = [stype |-> "PURCHASE", sid |-> p, line |-> l, product |-> product, loc |-> at,
               bucket |-> "PENDING", qty |-> q, aed |-> aed]
    BY <1>1, <2>3 DEF EntryMove, LineMove
  <2>5. row \in Rows
    BY <2>1, <2>2, <2>4 DEF Rows, SourceTypes, Buckets
  <2>6. entry \in Seq(Rows) /\ Len(entry) = 1 /\ entry[1] = row
    BY <1>1, <2>5
  <2>7. \A j \in 1..Len(entry) : j = 1
    BY <2>6
  <2>8. Enters(entry, 1, line, l)
    BY <1>1, <2>3, <2>4, <2>6, <2>7 DEF Enters
  <2> QED
    BY <2>3, <2>4, <2>5, <2>6, <2>8
<1>6. RestoredChain(rows, start, lns, l, 0)
  <2>1. IsChain(start) /\ (start.ok => prev.ok)
    BY <1>1, <1>4, ThenPostFacts
  <2>2. ASSUME start.ok
        PROVE  /\ Sound(start.book) /\ Grown(rows, start.book.ledger, l)
               /\ Restored(start.book.ledger, lns, l, 0)
    <3>1. Sound(prev.book) /\ Emptied(rows, prev.book.ledger, l)
      BY <1>4, <2>1, <2>2
    <3>2. PICK mid : mid = prev.book.ledger
      OBVIOUS
    <3>3. /\ Sound(start.book) /\ start.book.ledger = mid \o entry
      <4>1. start = ThenPost(prev, entry) /\ IsChain(prev) /\ entry \in Seq(Rows)
        BY <1>1, <1>4, <1>5
      <4>2. Sound(start.book) /\ start.book.ledger = prev.book.ledger \o entry
        BY <2>2, <3>1, <4>1, ThenPostFacts
      <4> QED
        BY <3>2, <4>2
    <3>4. /\ mid \in Seq(Rows) /\ RowsFit(mid, purchases, lns, collections, refunds)
          /\ Nothing(mid, OnLine(l)) /\ Grown(rows, mid, l)
      BY <3>1, <3>2 DEF Emptied, KeepsFitting, Grown
    <3>5. entry[1].loc = purchases[lns[l].purchase].location
      BY <1>1, <1>5
    <3>6. Grown(mid, mid \o entry, l) /\ Restored(mid \o entry, lns, l, 0)
      BY <1>1, <1>5, <3>4, <3>5, EntryRestores
    <3> QED
      BY <3>3, <3>4, <3>6, GrownTwice
  <2> QED
    BY <2>1, <2>2 DEF RestoredChain
<1>7. RestoredChain(rows, next, lns, l, Len(collections))
  BY <1>2, <1>6, AllRestored
<1>8. ASSUME next.ok
      PROVE  /\ Sound(next.book) /\ Grown(rows, next.book.ledger, l)
             /\ RowsFit(next.book.ledger, purchases, lns, collections, refunds)
             /\ LineGood(next.book.ledger, purchases, lns, collections, refunds, l)
  <2>1. /\ Sound(next.book) /\ Grown(rows, next.book.ledger, l)
        /\ Restored(next.book.ledger, lns, l, Len(collections))
    BY <1>7, <1>8 DEF RestoredChain
  <2>2. RowsFit(next.book.ledger, purchases, lns, collections, refunds)
    BY <2>1 DEF Restored
  <2>3. LineGood(next.book.ledger, purchases, lns, collections, refunds, l)
    BY <2>1, RestoredGood
  <2> QED
    BY <2>1, <2>2, <2>3
<1> QED
  BY <1>7, <1>8 DEF RestoredChain

-----------------------------------------------------------------------------
(* Editing: one line at a time *)

\* Only line l is another, of the same purchase.
OnlyLine(ps, lns, mns, l) ==
    /\ mns \in Seq(LineRecords(Len(ps))) /\ Len(mns) = Len(lns) /\ l \in 1..Len(lns)
    /\ \A k \in 1..Len(lns) : k # l => mns[k] = lns[k]
    /\ mns[l].purchase = lns[l].purchase

\* A line that changes keeps the tables together and the rows fitting.
LEMMA OnlyLineKeeps ==
    ASSUME NEW ps, NEW lns, NEW cs, NEW rs, TablesFit(ps, lns, cs, rs),
           NEW mns, NEW l, OnlyLine(ps, lns, mns, l), ~ps[lns[l].purchase].is_deleted
    PROVE  /\ TablesFit(ps, mns, cs, rs)
           /\ \A rows : RowsFit(rows, ps, lns, cs, rs) => RowsFit(rows, ps, mns, cs, rs)
<1>1. TablesTyped(ps, lns, cs, rs) /\ Len(lns) = Len(mns)
  BY DEF TablesFit, OnlyLine
<1>2. \A k \in 1..Len(lns) : mns[k].purchase = lns[k].purchase
  BY DEF OnlyLine
<1>3. TablesTyped(ps, mns, cs, rs)
  BY <1>1 DEF TablesTyped, OnlyLine
<1>4. TablesKeep(ps, lns, cs, rs, ps, mns, cs, rs)
  <2>1. Len(lns) <= Len(mns) /\ Len(cs) <= Len(cs) /\ Len(rs) <= Len(rs)
    <3>1. Len(lns) \in Nat /\ Len(cs) \in Nat /\ Len(rs) \in Nat
      BY <1>1, TableTypes
    <3> QED
      BY <1>1, <3>1
  <2> QED
    BY <1>2, <2>1 DEF TablesKeep
<1>5. NamesOwn(cs, mns) /\ NamesOwn(rs, mns)
  <2>1. /\ \A c \in 1..Len(cs) : \A i \in 1..Len(cs[c].lines) : cs[c].lines[i].line \in 1..Len(lns)
        /\ \A r \in 1..Len(rs) : \A i \in 1..Len(rs[r].lines) : rs[r].lines[i].line \in 1..Len(lns)
    BY <1>1, KnownLines
  <2>2. NamesOwn(cs, lns) /\ NamesOwn(rs, lns)
    BY DEF TablesFit
  <2> QED
    BY <1>2, <2>1, <2>2 DEF NamesOwn
<1>6. GoneWith(mns, ps)
  <2>1. GoneWith(lns, ps)
    BY DEF TablesFit
  <2>2. ASSUME NEW k \in 1..Len(mns), ps[mns[k].purchase].is_deleted PROVE mns[k].is_deleted
    <3>1. CASE k = l
      BY <1>1, <1>2, <2>2, <3>1
    <3>2. CASE k # l
      <4>1. mns[k] = lns[k] /\ k \in 1..Len(lns)
        BY <1>1, <3>2 DEF OnlyLine
      <4> QED
        BY <2>1, <2>2, <4>1 DEF GoneWith
    <3> QED
      BY <3>1, <3>2
  <2> QED
    BY <2>2 DEF GoneWith
<1>7. GoneWith(cs, ps) /\ GoneWith(rs, ps)
  BY DEF TablesFit
<1>8. \A rows : RowsFit(rows, ps, lns, cs, rs) => RowsFit(rows, ps, mns, cs, rs)
  BY <1>1, <1>3, <1>4, RowsFitKept
<1> QED
  BY <1>3, <1>5, <1>6, <1>7, <1>8 DEF TablesFit

\* Lines other than l keep what they had.
LEMMA LineChanged ==
    ASSUME NEW ps, NEW lns, NEW cs, NEW rs, NEW rows, Good(rows, ps, lns, cs, rs),
           NEW mns, NEW l, OnlyLine(ps, lns, mns, l), ~ps[lns[l].purchase].is_deleted,
           NEW all \in Seq(Rows), RowsFit(all, ps, mns, cs, rs),
           \A k \in 1..Len(lns) : k # l => Alike(rows, all, OnLine(k)),
           LineGood(all, ps, mns, cs, rs, l)
    PROVE  Good(all, ps, mns, cs, rs)
<1>1. TablesFit(ps, mns, cs, rs)
  BY OnlyLineKeeps DEF Good
<1>2. ASSUME NEW k \in 1..Len(mns) PROVE LineGood(all, ps, mns, cs, rs, k)
  <2>1. CASE k = l
    BY <2>1
  <2>2. CASE k # l
    <3>1. k \in 1..Len(lns) /\ mns[k] = lns[k]
      BY <2>2 DEF OnlyLine
    <3>2. LineGood(rows, ps, lns, cs, rs, k)
      BY <3>1 DEF Good, LinesGood
    <3>3. LineGood(all, ps, lns, cs, rs, k)
      BY <2>2, <3>1, <3>2, LineGoodAlike
    <3> QED
      BY <3>1, <3>3, LineGoodSame
  <2> QED
    BY <2>1, <2>2
<1> QED
  BY <1>1, <1>2 DEF Good, LinesGood

\* Nothing of the line: it may be deleted.
LEMMA BlankGood ==
    ASSUME NEW ps, NEW lns, NEW cs, NEW rs, NEW rows, NEW l,
           lns[l].is_deleted, Nothing(rows, OnLine(l))
    PROVE  LineGood(rows, ps, lns, cs, rs, l)
<1>1. Nothing(rows, OnLine(l) \ OfProduct(lns[l].product))
  BY NothingLess
<1>2. NetIn(rows, OnLine(l) \intersect Pend) = NoStock
  <2>1. Blind(OnLine(l) \intersect Pend)
    BY SetsBlind, BlindParts
  <2> QED
    BY <2>1 DEF Nothing
<1>3. \A loc : NetIn(rows, OnLine(l) \intersect PhysAt(loc)) = NoStock
  <2>1. ASSUME NEW loc PROVE NetIn(rows, OnLine(l) \intersect PhysAt(loc)) = NoStock
    <3>1. Blind(OnLine(l) \intersect PhysAt(loc))
      BY SetsBlind, BlindParts
    <3> QED
      BY <3>1 DEF Nothing
  <2> QED
    BY <2>1
<1>4. NoStock.qty <= 0 /\ NoStock.qty = 0 /\ Clean(NoStock)
  BY DEF NoStock, Clean
<1>5. DeadLine(rows, rs, l)
  BY <1>2, <1>3, <1>4 DEF DeadLine
<1> QED
  BY <1>1, <1>2, <1>4, <1>5 DEF LineGood

\* Where the models count no refund of a line, no refund asks for any of it.
BackNone(rs, l) ==
    \A r \in 1..Len(rs) : /\ \A source : Back(rs, r, l, source) = 0
                          /\ \A loc : BackAt(rs, r, l, loc) = 0

\* Where nothing counts as refunded, no refund names the line with effect.
LEMMA RefundedNone ==
    ASSUME NEW ps, NEW lns, TablesTyped(ps, lns, collections, refunds), NEW l,
           RefundedQty(l) = 0
    PROVE  BackNone(refunds, l) /\ NotBack(refunds, l)
<1>1. refunds \in Seq(RefundRecords(Len(ps), Len(lns)))
      /\ collections \in Seq(CollectionRecords(Len(ps), Len(lns)))
  BY DEF TablesTyped
<1>2. /\ CancelledPendingQty(l) = BackAll(refunds, l, "PENDING")
      /\ RefundSum(l, "RECEIVED") = BackAll(refunds, l, "RECEIVED")
  BY <1>1, RecordsSay
<1>3. BackAll(refunds, l, "PENDING") \in Nat /\ BackAll(refunds, l, "RECEIVED") \in Nat
  BY AmountTypes
<1>4. BackAll(refunds, l, "PENDING") = 0 /\ BackAll(refunds, l, "RECEIVED") = 0
  BY <1>2, <1>3 DEF RefundedQty
<1>5. ASSUME NEW r \in 1..Len(refunds), NEW source, BackAll(refunds, l, source) = 0
      PROVE  Back(refunds, r, l, source) = 0
  <2>1. PICK f : f = [x \in 1..Len(refunds) |-> Back(refunds, x, l, source)]
    OBVIOUS
  <2>2. Len(refunds) \in Nat
    BY <1>1
  <2>3. \A x \in 1..Len(refunds) : Back(refunds, x, l, source) \in Nat
    BY AmountTypes
  <2>4. f \in Seq(Nat) /\ Len(f) = Len(refunds) /\ f[r] = Back(refunds, r, l, source)
    <3>1. PICK n \in Nat : n = Len(refunds)
      BY <2>2
    <3>2. f = [x \in 1..n |-> Back(refunds, x, l, source)]
      BY <2>1, <3>1
    <3>3. \A x \in 1..n : f[x] \in Nat
      BY <2>3, <3>1, <3>2
    <3>4. f = [x \in 1..n |-> f[x]]
      BY <3>2
    <3>5. f \in [1..n -> Nat]
      BY <3>3, <3>4
    <3> QED
      BY <3>1, <3>2, <3>5
  <2>5. SumSeq(f) = 0
    BY <1>5, <2>1 DEF BackAll
  <2>6. r \in 1..Len(f)
    BY <2>4
  <2>7. SumSeq(f) >= f[r] /\ f[r] \in Nat
    BY <2>4, <2>6, SumSeqAtLeast
  <2> QED
    BY <2>4, <2>5, <2>7
<1>6. ASSUME NEW r \in 1..Len(refunds)
      PROVE  /\ \A source : Back(refunds, r, l, source) = 0
             /\ \A loc : BackAt(refunds, r, l, loc) = 0
  <2>1. CASE refunds[r].is_deleted
    BY <2>1 DEF Back, BackAt
  <2>2. CASE ~refunds[r].is_deleted
    <3>1. PICK items : items = refunds[r].lines
      OBVIOUS
    <3>2. AskSome(items) /\ items \in Seq(BackItems(Len(lns)))
      BY <3>1, TableTypes
    <3>3. Total(items, OnFrom(items, l, "PENDING")) = 0 /\ Total(items, OnFrom(items, l, "RECEIVED")) = 0
      BY <1>4, <1>5, <2>2, <3>1 DEF Back
    <3>4. \A i \in 1..Len(items) : i \notin OnFrom(items, l, "PENDING") /\ i \notin OnFrom(items, l, "RECEIVED")
      BY <3>2, <3>3, TotalFacts
    <3>5. \A i \in 1..Len(items) : items[i].source \in RefundSources
      <4>1. ASSUME NEW i \in 1..Len(items) PROVE items[i].source \in RefundSources
        <5>1. items[i] \in BackItems(Len(lns))
          BY <3>2
        <5> QED
          BY <5>1 DEF BackItems
      <4> QED
        BY <4>1
    <3>6. \A i \in 1..Len(items) : i \notin On(items, l)
      BY <3>4, <3>5 DEF OnFrom, RefundSources
    <3>7. ASSUME NEW source PROVE Total(items, OnFrom(items, l, source)) = 0
      <4>1. \A i \in 1..Len(items) : i \notin OnFrom(items, l, source)
        BY <3>6 DEF OnFrom
      <4> QED
        BY <3>2, <4>1, TotalFacts
    <3>8. ASSUME NEW loc PROVE Total(items, OnAt(items, l, loc)) = 0
      <4>1. \A i \in 1..Len(items) : i \notin OnAt(items, l, loc)
        BY <3>6 DEF OnFrom, OnAt
      <4> QED
        BY <3>2, <4>1, TotalFacts
    <3> QED
      BY <2>2, <3>1, <3>7, <3>8 DEF Back, BackAt
  <2> QED
    BY <2>1, <2>2
<1> QED
  BY <1>6 DEF BackNone, NotBack

\* Where nothing counts as collected, no collection took anything.
LEMMA CollectedNone ==
    ASSUME NEW ps, NEW lns, TablesTyped(ps, lns, collections, refunds), NEW l,
           CollectedQty(l) = 0
    PROVE  \A c \in 1..Len(collections) : Took(collections, c, l) = 0
<1>1. refunds \in Seq(RefundRecords(Len(ps), Len(lns)))
      /\ collections \in Seq(CollectionRecords(Len(ps), Len(lns)))
  BY DEF TablesTyped
<1>2. TookAll(collections, l) = 0
  BY <1>1, RecordsSay
<1>3. ASSUME NEW c \in 1..Len(collections) PROVE Took(collections, c, l) = 0
  <2>1. PICK f : f = [x \in 1..Len(collections) |-> Took(collections, x, l)]
    OBVIOUS
  <2>2. \A x \in 1..Len(collections) : Took(collections, x, l) \in Nat
    BY AmountTypes
  <2>3. f \in Seq(Nat) /\ Len(f) = Len(collections) /\ f[c] = Took(collections, c, l)
    <3>1. PICK n \in Nat : n = Len(collections)
      BY <1>1
    <3>2. f = [x \in 1..n |-> Took(collections, x, l)]
      BY <2>1, <3>1
    <3>3. \A x \in 1..n : f[x] \in Nat
      BY <2>2, <3>1, <3>2
    <3>4. f = [x \in 1..n |-> f[x]]
      BY <3>2
    <3>5. f \in [1..n -> Nat]
      BY <3>3, <3>4
    <3> QED
      BY <3>1, <3>2, <3>5
  <2>4. SumSeq(f) = 0
    BY <1>2, <2>1 DEF TookAll
  <2>5. c \in 1..Len(f)
    BY <2>3
  <2>6. SumSeq(f) >= f[c] /\ f[c] \in Nat
    BY <2>3, <2>5, SumSeqAtLeast
  <2> QED
    BY <2>3, <2>4, <2>6
<1> QED
  BY <1>3

\* Rows of the entry that can be told apart only by their amounts.
EntryRows(p, l, product, at) ==
    {row \in Rows : /\ row.stype = "PURCHASE" /\ row.sid = p /\ row.line = l
                    /\ row.product = product /\ row.bucket = "PENDING" /\ row.loc = at}

\* The pending rows of an entry are one group.
LEMMA EntryRowsFacts ==
    ASSUME NEW p, NEW l, NEW product, NEW at, NEW E, E = EntryRows(p, l, product, at)
    PROVE  /\ Blind(E) /\ E \subseteq OnLine(l) /\ E \subseteq Pend
           /\ \A S : Blind(S) => S \intersect E = E \/ S \intersect E = {}
<1>1. Blind(E)
  BY DEF EntryRows, Blind, SameRecord, KeyOf
<1>2. E \subseteq OnLine(l) /\ E \subseteq Pend
  <2>1. "PURCHASE" \in PurchaseSources
    BY DEF PurchaseSources
  <2> QED
    BY <2>1 DEF EntryRows, OnLine, Pend, BucketRows
<1>3. ASSUME NEW S, Blind(S), S \intersect E # {} PROVE S \intersect E = E
  <2>1. PICK x : x \in S /\ x \in E
    BY <1>3
  <2>2. ASSUME NEW y \in E PROVE y \in S
    <3>1. SameRecord(x, y) /\ x \in Rows /\ y \in Rows
      BY <2>1 DEF EntryRows, SameRecord, KeyOf
    <3> QED
      BY <1>3, <2>1, <3>1 DEF Blind
  <2> QED
    BY <2>2
<1> QED
  BY <1>1, <1>2, <1>3

\* Of a live line that nobody collected, refunded or cancelled, only the entry is
\* there, all in one place; what takes its pending stock out leaves nothing.
LEMMA PendingOutBlank ==
    ASSUME NEW ps, NEW lns, NEW cs, NEW rs, NEW rows, Good(rows, ps, lns, cs, rs),
           NEW l \in 1..Len(lns), ~lns[l].is_deleted, ~ps[lns[l].purchase].is_deleted,
           Untouched(cs, rs, l),
           NEW out, PendingUndone(out, rows, lns, lns[l].purchase, ps[lns[l].purchase].location, l)
    PROVE  Nothing(rows \o out, OnLine(l))
<1>1. /\ TablesTyped(ps, lns, cs, rs) /\ rows \in Seq(Rows) /\ RowsFit(rows, ps, lns, cs, rs)
      /\ LineGood(rows, ps, lns, cs, rs, l)
  BY DEF Good, TablesFit, LinesGood
<1>2. LiveLine(rows, lns, cs, rs, l) /\ Nothing(rows, OnLine(l) \ OfProduct(lns[l].product))
  BY <1>1 DEF LineGood
<1>3. PICK p, product, at :
         p = lns[l].purchase /\ product = lns[l].product /\ at = ps[p].location
  OBVIOUS
<1>4. PICK E : E = EntryRows(p, l, product, at)
  OBVIOUS
<1>5. /\ Blind(E) /\ E \subseteq OnLine(l) /\ E \subseteq Pend
      /\ \A S : Blind(S) => S \intersect E = E \/ S \intersect E = {}
  BY <1>4, EntryRowsFacts
<1>6. PICK T : T = OnLine(l) \ E
  OBVIOUS
<1>7. Blind(T) /\ T \subseteq OnLine(l)
  BY <1>5, <1>6, SetsBlind, BlindParts
<1>8. Nothing(rows, T)
  <2>1. Nothing(rows, Of("PURCHASE", p, l) \intersect T)
    <3>1. PICK U : U = Of("PURCHASE", p, l) \intersect T
      OBVIOUS
    <3>2. Blind(U) /\ U \subseteq OnLine(l)
      BY <1>7, <3>1, SetsBlind, BlindParts
    <3>3. \A i \in 1..Len(rows) : rows[i] \notin U \intersect OfProduct(product)
      <4>1. SUFFICES ASSUME NEW i \in 1..Len(rows), rows[i] \in U, rows[i] \in OfProduct(product)
                     PROVE  FALSE
        OBVIOUS
      <4>2. PICK row : row = rows[i]
        OBVIOUS
      <4>3. RowFits(row, ps, lns, cs, rs)
        BY <1>1, <4>2 DEF RowsFit
      <4>4. /\ row \in Rows /\ row.stype = "PURCHASE" /\ row.sid = p /\ row.line = l
            /\ row.product = product /\ row.stype \in PurchaseSources /\ row \notin E
        BY <1>6, <3>1, <4>1, <4>2 DEF Of, OnLine, OfProduct
      <4>5. row.bucket = "PENDING"
        BY <1>3, <4>3, <4>4 DEF OwnRowFits, RowFits
      <4>6. row.loc = at
        BY <1>3, <4>3, <4>4, <4>5 DEF OwnRowFits, RowFits
      <4> QED
        BY <1>4, <4>4, <4>5, <4>6 DEF EntryRows
    <3>4. Nothing(rows, U \intersect OfProduct(product))
      BY <1>1, <3>3, NothingOutside
    <3>5. Nothing(rows, U \ OfProduct(product))
      <4>1. U \ OfProduct(product) \subseteq OnLine(l) \ OfProduct(product)
        BY <3>2
      <4> QED
        BY <1>2, <1>3, <4>1, NothingLess
    <3>6. Blind(U \intersect OfProduct(product))
      BY <3>2, SetsBlind, BlindParts
    <3>7. (U \intersect OfProduct(product)) \union (U \ OfProduct(product)) = U
      OBVIOUS
    <3>8. Nothing(rows, (U \intersect OfProduct(product)) \union (U \ OfProduct(product)))
      BY <1>1, <3>4, <3>5, <3>6, NothingUnion
    <3> QED
      BY <3>1, <3>7, <3>8
  <2>2. ASSUME NEW c \in 1..Len(cs) PROVE Nothing(rows, Of("PURCHASE_COLLECTION", c, l) \intersect T)
    <3>1. Took(cs, c, l) = 0 /\ CollectionTraced(rows, cs, c, l)
      BY <1>2 DEF Untouched, LiveLine
    <3>2. \A loc \in Locations : TookAt(cs, c, l)[loc] = 0
      BY <3>1 DEF TookAt
    <3>3. Nothing(rows, Of("PURCHASE_COLLECTION", c, l))
      BY <3>1, <3>2 DEF CollectionTraced, Traced
    <3> QED
      BY <3>3, NothingLess
  <2>3. ASSUME NEW r \in 1..Len(rs) PROVE Nothing(rows, Of("PURCHASE_REFUND", r, l) \intersect T)
    <3>1. Back(rs, r, l, "PENDING") = 0 /\ RefundTraced(rows, rs, r, l)
      BY <1>2 DEF Untouched, LiveLine
    <3>2. \A loc \in Locations : BackFrom(rs, r, l)[loc] = 0
      BY DEF Untouched, BackFrom
    <3>3. Nothing(rows, Of("PURCHASE_REFUND", r, l))
      BY <3>1, <3>2 DEF RefundTraced, Traced
    <3> QED
      BY <3>3, NothingLess
  <2>4. OnlyOn(T, l)
    BY <1>7 DEF OnlyOn
  <2> QED
    BY <1>1, <1>3, <2>1, <2>2, <2>3, <2>4, LineEmpty
<1>9. out \in Seq(Rows) /\ \A k \in 1..Len(out) : out[k] \in E
  <2>1. out \in Seq(Rows)
    BY DEF PendingUndone
  <2>2. ASSUME NEW k \in 1..Len(out) PROVE out[k] \in E
    <3>1. RowOut(out[k], lns, p, at, l) /\ out[k].bucket = "PENDING"
      BY <1>3 DEF PendingUndone
    <3>2. out[k] \in Rows
      BY <2>1
    <3> QED
      BY <1>3, <1>4, <3>1, <3>2 DEF RowOut, EntryRows
  <2> QED
    BY <2>1, <2>2
<1>10. Nothing(out, T)
  <2>1. \A k \in 1..Len(out) : out[k] \notin T
    BY <1>6, <1>9
  <2> QED
    BY <1>9, <2>1, NothingOutside
<1>11. ASSUME NEW S, Blind(S), S \subseteq OnLine(l)
       PROVE  /\ NetIn(rows, S) = NetIn(rows, S \intersect E)
              /\ NetIn(out, S) = NetIn(out, S \intersect E)
  <2>1. Nothing(rows, S \ E) /\ Nothing(out, S \ E)
    <3>1. S \ E \subseteq T
      BY <1>6, <1>11
    <3> QED
      BY <1>8, <1>10, <3>1, NothingLess
  <2> QED
    BY <1>1, <1>5, <1>9, <1>11, <2>1, AllWithin
<1>12. PICK P : P = OnLine(l) \intersect Pend
  OBVIOUS
<1>13. Blind(P) /\ P \subseteq OnLine(l) /\ P \intersect E = E
  <2>1. Blind(P)
    BY <1>12, SetsBlind, BlindParts
  <2> QED
    BY <1>5, <1>12, <2>1
<1>14. NetIn(rows, E) = NetIn(rows, P) /\ NetIn(out, E) = NetIn(out, P)
  BY <1>11, <1>13
<1>15. Plus(NetIn(rows, E), NetIn(out, E)) = NoStock
  <2>1. Holds(rows, lns, cs, rs, l)
    BY <1>1, <1>2, LineTotals
  <2>2. NetIn(rows, P).qty = Pending(lns, cs, rs, l)
    BY <1>12, <2>1 DEF Holds
  <2>3. TookAll(cs, l) = 0 /\ BackAll(rs, l, "PENDING") = 0
    BY <1>1, UntouchedTotals
  <2>4. lns[l].quantity \in Nat \ {0}
    BY <1>1, TableTypes
  <2>5. NetIn(rows, P).qty > 0
    BY <2>2, <2>3, <2>4 DEF Pending
  <2>6. NetIn(out, P) = Undo(NetIn(rows, P))
    BY <1>12 DEF PendingUndone
  <2>7. PICK x \in [qty: Int, aed: Int] : x = NetIn(rows, P)
    BY <1>1, NetInType
  <2>8. Plus(x, Undo(x)) = NoStock
    BY <2>5, <2>7, UndoFacts
  <2> QED
    BY <1>14, <2>6, <2>7, <2>8
<1>16. ASSUME NEW S, Blind(S), S \subseteq OnLine(l) PROVE NetIn(rows \o out, S) = NoStock
  <2>1. NetIn(rows \o out, S) = Plus(NetIn(rows, S), NetIn(out, S))
    BY <1>1, <1>9, NetInConcat
  <2>2. CASE S \intersect E = E
    BY <1>11, <1>15, <1>16, <2>1, <2>2
  <2>3. CASE S \intersect E = {}
    <3>1. NetIn(rows, {}) = NoStock /\ NetIn(out, {}) = NoStock
      BY <1>1, <1>8, <1>9, <1>10 DEF Nothing, Blind
    <3>2. NetIn(rows, S) = NoStock /\ NetIn(out, S) = NoStock
      BY <1>11, <1>16, <2>3, <3>1
    <3> QED
      BY <2>1, <3>2 DEF Plus, NoStock
  <2> QED
    BY <1>5, <1>16, <2>2, <2>3
<1> QED
  BY <1>16 DEF Nothing

\* A line enters again with what is not collected or cancelled of it.
Entered(more, lns, p, at, l, fresh) ==
    /\ more \in Seq(Rows)
    /\ \A k \in 1..Len(more) : RowOut(more[k], lns, p, at, l) /\ more[k].bucket = "PENDING"
    /\ fresh = 0 => more = << >>
    /\ fresh > 0 => Len(more) = 1 /\ more[1].qty = fresh /\ more[1].aed >= 0

\* The fresh row of an edited line enters its pending units with their value.
LEMMA FreshFacts ==
    ASSUME NEW n \in Nat, NEW lns, NEW l \in Nat, lns[l] \in LineRecords(n),
           NEW p, p = lns[l].purchase, NEW at \in Locations, purchases[p].location = at,
           NEW fresh \in Nat, fresh = PendingQty(lns, l)
    PROVE  Entered(FreshPending(lns, l), lns, p, at, l, fresh)
<1>1. PICK more, line : more = FreshPending(lns, l) /\ line = lns[l]
  OBVIOUS
<1>2. CASE fresh > 0
  <2>1. PICK row : row = EntryMove(p, at, l, line, fresh, FreshValue(line, fresh))
    OBVIOUS
  <2>2. more = << row >>
    BY <1>1, <1>2, <2>1 DEF FreshPending
  <2>3. line.quantity \in Nat \ {0} /\ line.product \in Products /\ TotalValue(line) \in Nat /\ p \in Nat
    <3>1. line.quantity \in Nat \ {0} /\ line.product \in Products /\ TotalValue(line) \in Nat
      BY <1>1, LineTypes, TotalNatural
    <3>2. p \in 1..n
      BY <1>1 DEF LineRecords
    <3> QED
      BY <3>1, <3>2
  <2>4. PICK q \in Nat \ {0}, total \in Nat, product \in Products :
           q = line.quantity /\ total = TotalValue(line) /\ product = line.product
    BY <2>3
  <2>5. PICK value \in Nat : value = FreshValue(line, fresh)
    <3>1. total * fresh \in Nat
      OBVIOUS
    <3>2. RoundHalfUp(total * fresh, q) \in Nat
      BY <3>1, RoundNatural
    <3> QED
      BY <2>4, <3>2 DEF FreshValue
  <2>6. row = [stype |-> "PURCHASE", sid |-> p, line |-> l, product |-> product, loc |-> at,
               bucket |-> "PENDING", qty |-> fresh, aed |-> value]
    BY <2>1, <2>4, <2>5 DEF EntryMove, LineMove
  <2>7. row \in Rows
    BY <2>3, <2>6 DEF Rows, SourceTypes, Buckets
  <2>8. more \in Seq(Rows) /\ Len(more) = 1 /\ more[1] = row
    BY <2>2, <2>7
  <2>9. RowOut(row, lns, p, at, l) /\ row.bucket = "PENDING" /\ row.qty = fresh /\ row.aed >= 0
    BY <1>1, <2>4, <2>6 DEF RowOut
  <2> QED
    BY <1>1, <1>2, <2>8, <2>9 DEF Entered
<1>3. CASE ~(fresh > 0)
  <2>1. fresh = 0
    BY <1>3
  <2>2. more = << >>
    BY <1>1, <1>3 DEF FreshPending
  <2>3. more \in Seq(Rows) /\ Len(more) = 0
    BY <2>2
  <2> QED
    BY <1>1, <2>1, <2>2, <2>3 DEF Entered
<1> QED
  BY <1>2, <1>3

\* Rows that are all in S.
LEMMA AllInside ==
    ASSUME NEW more \in Seq(Rows), NEW S, NEW U,
           \A k \in 1..Len(more) : more[k] \in S /\ more[k] \in U
    PROVE  NetIn(more, S) = NetIn(more, U)
BY NetInSame

\* What such a row adds up to.
LEMMA EnteredNet ==
    ASSUME NEW more, NEW lns, NEW p, NEW at, NEW l, NEW fresh \in Nat,
           Entered(more, lns, p, at, l, fresh),
           NEW S, \A k \in 1..Len(more) : more[k] \in S
    PROVE  /\ NetIn(more, S).qty = fresh /\ NetIn(more, S).aed >= 0
           /\ fresh = 0 => NetIn(more, S).aed = 0
<1>1. CASE fresh = 0
  <2>1. more = << >>
    BY <1>1 DEF Entered
  <2>2. NetIn(more, S) = NoStock
    BY <2>1, NetInEmpty
  <2> QED
    BY <1>1, <2>2 DEF NoStock
<1>2. CASE fresh # 0
  <2>1. more \in Seq(Rows) /\ Len(more) = 1 /\ more[1].qty = fresh /\ more[1].aed >= 0
    BY <1>2 DEF Entered
  <2>2. 1 \in 1..Len(more) /\ \A k \in 1..Len(more) : k # 1 => more[k] \notin S
    BY <2>1
  <2>3. NetIn(more, S) = IF more[1] \in S THEN [qty |-> more[1].qty, aed |-> more[1].aed] ELSE NoStock
    BY <2>1, <2>2, NetInOne
  <2>4. NetIn(more, S) = [qty |-> more[1].qty, aed |-> more[1].aed]
    BY <2>2, <2>3
  <2> QED
    BY <1>2, <2>1, <2>4
<1> QED
  BY <1>1, <1>2

\* Rows of the entry, and pending; other records do not see them.
PendingPart(more, lns, p, at, l) ==
    \A k \in 1..Len(more) : RowOut(more[k], lns, p, at, l) /\ more[k].bucket = "PENDING"

EntryOnly(more, lns, p, l) ==
    /\ \A k \in 1..Len(more) : /\ more[k] \in OnLine(l)
                                /\ more[k] \in OnLine(l) \intersect Pend
                                /\ more[k] \in Of("PURCHASE", p, l)
                                /\ more[k].product = lns[l].product /\ more[k].line = l
    /\ \A t, s : t # "PURCHASE" => Nothing(more, Of(t, s, l))

\* Rows that back out pending stock belong to the entry.
LEMMA OutRows ==
    ASSUME NEW more \in Seq(Rows), NEW lns, NEW p, NEW at, NEW l, PendingPart(more, lns, p, at, l)
    PROVE  EntryOnly(more, lns, p, l)
<1>1. "PURCHASE" \in PurchaseSources
  BY DEF PurchaseSources
<1>2. ASSUME NEW k \in 1..Len(more)
      PROVE  /\ more[k] \in OnLine(l) /\ more[k] \in OnLine(l) \intersect Pend
             /\ more[k] \in Of("PURCHASE", p, l)
             /\ more[k].product = lns[l].product /\ more[k].line = l
             /\ more[k].stype = "PURCHASE" /\ more[k].sid = p
  <2>1. more[k] \in Rows
    OBVIOUS
  <2> QED
    BY <1>1, <2>1 DEF PendingPart, RowOut, OnLine, Of, Pend, BucketRows
<1>3. \A k \in 1..Len(more) : more[k].stype = "PURCHASE" /\ more[k].sid = p /\ more[k].line \in {l}
  BY <1>2
<1>4. \A t, s : t # "PURCHASE" => Nothing(more, Of(t, s, l))
  BY <1>3, OfOther
<1> QED
  BY <1>2, <1>4 DEF EntryOnly

\* New terms for the same product: what is pending is replaced.
LEMMA RepricedLine ==
    ASSUME NEW ps, NEW lns, NEW cs, NEW rs, NEW rows, Good(rows, ps, lns, cs, rs),
           NEW l \in 1..Len(lns), ~lns[l].is_deleted, ~ps[lns[l].purchase].is_deleted,
           NEW mns, OnlyLine(ps, lns, mns, l), ~mns[l].is_deleted,
           mns[l].product = lns[l].product,
           NEW p, p = lns[l].purchase, NEW at, at = ps[p].location,
           NEW fresh \in Nat, fresh = Pending(mns, cs, rs, l),
           NEW out, PendingUndone(out, rows, lns, p, at, l),
           NEW in, Entered(in, mns, p, at, l, fresh)
    PROVE  LineGood((rows \o out) \o in, ps, mns, cs, rs, l)
<1>1. /\ TablesTyped(ps, lns, cs, rs) /\ rows \in Seq(Rows) /\ RowsFit(rows, ps, lns, cs, rs)
      /\ LineGood(rows, ps, lns, cs, rs, l)
  BY DEF Good, TablesFit, LinesGood
<1>2. LiveLine(rows, lns, cs, rs, l) /\ Nothing(rows, OnLine(l) \ OfProduct(lns[l].product))
  BY <1>1 DEF LineGood
<1>3. out \in Seq(Rows) /\ in \in Seq(Rows)
  BY DEF PendingUndone, Entered
<1>4. PICK mid, all : mid = rows \o out /\ all = mid \o in
  OBVIOUS
<1>5. mid \in Seq(Rows) /\ all \in Seq(Rows)
  BY <1>1, <1>3, <1>4, ConcatParts
<1>6. PICK P, Z : P = OnLine(l) \intersect Pend /\ Z = Of("PURCHASE", p, l)
  OBVIOUS
<1>7. /\ \A k \in 1..Len(out) : /\ out[k] \in P /\ out[k] \in Z
                                /\ out[k].product = lns[l].product
      /\ \A t, s : t # "PURCHASE" => Nothing(out, Of(t, s, l))
  <2>1. PendingPart(out, lns, p, at, l)
    BY DEF PendingUndone, PendingPart
  <2>2. EntryOnly(out, lns, p, l)
    BY <1>3, <2>1, OutRows
  <2> QED
    BY <1>6, <2>2 DEF EntryOnly
<1>8. /\ \A k \in 1..Len(in) : /\ in[k] \in P /\ in[k] \in Z
                               /\ in[k].product = mns[l].product
      /\ \A t, s : t # "PURCHASE" => Nothing(in, Of(t, s, l))
  <2>1. PendingPart(in, mns, p, at, l)
    BY DEF Entered, PendingPart
  <2>2. EntryOnly(in, mns, p, l)
    BY <1>3, <2>1, OutRows
  <2> QED
    BY <1>6, <2>2 DEF EntryOnly
<1>9. PICK rest \in [qty: Int, aed: Int], y \in [qty: Int, aed: Int] :
         rest = NetIn(rows, P) /\ y = NetIn(in, P)
  BY <1>1, <1>3, NetInType
<1>10. NetIn(out, P) = Undo(rest) /\ NetIn(out, Z) = Undo(rest) /\ NetIn(in, Z) = y
  <2>1. NetIn(out, P) = Undo(rest)
    BY <1>6, <1>9 DEF PendingUndone
  <2>2. NetIn(out, Z) = NetIn(out, P) /\ NetIn(in, Z) = NetIn(in, P)
    BY <1>3, <1>7, <1>8, AllInside
  <2> QED
    BY <1>9, <2>1, <2>2
<1>11. y.qty = fresh /\ y.aed >= 0 /\ (fresh = 0 => y.aed = 0)
  BY <1>8, <1>9, EnteredNet
<1>12. rest.qty = Pending(lns, cs, rs, l) /\ rest.qty >= 0
  <2>1. Holds(rows, lns, cs, rs, l)
    BY <1>1, <1>2, LineTotals
  <2> QED
    BY <1>2, <1>6, <1>9, <2>1 DEF Holds, LiveLine
<1>13. mns[l].quantity - fresh = lns[l].quantity - rest.qty
  <2>1. lns[l].quantity \in Int
    <3>1. lns[l].quantity \in Nat \ {0}
      BY <1>1, TableTypes
    <3> QED
      BY <3>1
  <2>2. mns[l].quantity \in Int
    <3>1. mns \in Seq(LineRecords(Len(ps))) /\ l \in 1..Len(mns)
      BY DEF OnlyLine
    <3>2. mns[l] \in LineRecords(Len(ps))
      BY <3>1
    <3> QED
      BY <3>2, LineTypes
  <2>3. TookAll(cs, l) \in Nat /\ BackAll(rs, l, "PENDING") \in Nat
    BY <1>1, AmountTypes
  <2>4. PICK a \in Int, b \in Int, t \in Int, k \in Int :
           a = lns[l].quantity /\ b = mns[l].quantity /\ t = TookAll(cs, l) /\ k = BackAll(rs, l, "PENDING")
    BY <2>1, <2>2, <2>3
  <2>5. rest.qty = a - t - k /\ fresh = b - t - k
    BY <1>12, <2>4 DEF Pending
  <2>6. b - fresh = a - rest.qty
    <3>1. PICK r \in Int, f \in Int : r = rest.qty /\ f = fresh
      OBVIOUS
    <3>2. r = a - t - k /\ f = b - t - k
      BY <2>5, <3>1
    <3> QED
      BY <3>1, <3>2
  <2> QED
    BY <2>4, <2>6
<1>14. \A S : /\ NetIn(mid, S) = Plus(NetIn(rows, S), NetIn(out, S))
              /\ NetIn(all, S) = Plus(NetIn(mid, S), NetIn(in, S))
  <2>1. \A S : NetIn(rows \o out, S) = Plus(NetIn(rows, S), NetIn(out, S))
    BY <1>1, <1>3, NetInConcat
  <2>2. \A S : NetIn(mid \o in, S) = Plus(NetIn(mid, S), NetIn(in, S))
    BY <1>3, <1>5, NetInConcat
  <2> QED
    BY <1>4, <2>1, <2>2
<1>15. NetIn(all, P) = Plus(Plus(rest, Undo(rest)), y)
  BY <1>9, <1>10, <1>14
<1>16. Clean(rest) => Clean(NetIn(all, P))
  <2>1. PICK x \in [qty: Int, aed: Int] : x = Plus(rest, Undo(rest))
    <3>1. Undo(rest) \in [qty: Int, aed: Int]
      BY UndoFacts
    <3>2. Plus(rest, Undo(rest)) \in [qty: Int, aed: Int]
      BY <3>1 DEF Plus
    <3> QED
      BY <3>2
  <2>2. x = IF rest.qty > 0 THEN NoStock ELSE rest
    BY <2>1, UndoFacts
  <2>3. Clean(rest) => x.qty = 0 /\ x.aed = 0
    BY <1>12, <2>2 DEF Clean, NoStock
  <2>4. Clean(rest) => Plus(x, y).qty = y.qty /\ Plus(x, y).aed = y.aed
    BY <2>3 DEF Plus
  <2>5. NetIn(all, P) = Plus(x, y)
    BY <1>15, <2>1
  <2> QED
    BY <1>11, <2>4, <2>5 DEF Clean
<1>17. NetIn(all, Z).qty = mns[l].quantity
  <2>1. PICK z \in [qty: Int, aed: Int] : z = NetIn(rows, Z)
    BY <1>1, NetInType
  <2>2. z.qty = lns[l].quantity
    BY <1>2, <1>6, <2>1 DEF LiveLine
  <2>3. NetIn(all, Z) = Plus(Plus(z, Undo(rest)), y)
    BY <1>10, <1>14, <2>1
  <2>4. Undo(rest).qty = -rest.qty /\ Undo(rest) \in [qty: Int, aed: Int]
    BY <1>12, UndoFacts DEF Undo, NoStock
  <2>5. NetIn(all, Z).qty = z.qty - rest.qty + fresh
    BY <1>11, <2>3, <2>4 DEF Plus
  <2>6. PICK q \in Int : q = mns[l].quantity
    <3>1. mns \in Seq(LineRecords(Len(ps))) /\ l \in 1..Len(mns)
      BY DEF OnlyLine
    <3>2. mns[l] \in LineRecords(Len(ps))
      BY <3>1
    <3>3. mns[l].quantity \in Int
      BY <3>2, LineTypes
    <3> QED
      BY <3>3
  <2> QED
    BY <1>13, <2>2, <2>5, <2>6
<1>18. Nothing(all, OnLine(l) \ OfProduct(mns[l].product))
  <2>1. Nothing(mid, OnLine(l) \ OfProduct(lns[l].product))
    BY <1>1, <1>2, <1>3, <1>4, <1>7, ProductKept
  <2>2. Nothing(mid, OnLine(l) \ OfProduct(mns[l].product))
    BY <2>1
  <2> QED
    BY <1>3, <1>4, <1>5, <1>8, <2>2, ProductKept
<1>19. LiveLine(all, mns, cs, rs, l)
  <2>1. ASSUME NEW c \in 1..Len(cs) PROVE CollectionTraced(all, cs, c, l)
    <3>1. PICK T : T = Of("PURCHASE_COLLECTION", c, l)
      OBVIOUS
    <3>2. Blind(T) /\ Nothing(out, T) /\ Nothing(in, T)
      BY <1>7, <1>8, <3>1, SetsBlind
    <3>3. CollectionTraced(mid, cs, c, l)
      BY <1>1, <1>2, <1>3, <1>4, <3>1, <3>2, TracedKept DEF LiveLine, CollectionTraced
    <3> QED
      BY <1>3, <1>4, <1>5, <3>1, <3>2, <3>3, TracedKept DEF CollectionTraced
  <2>2. ASSUME NEW r \in 1..Len(rs) PROVE RefundTraced(all, rs, r, l)
    <3>1. PICK T : T = Of("PURCHASE_REFUND", r, l)
      OBVIOUS
    <3>2. Blind(T) /\ Nothing(out, T) /\ Nothing(in, T)
      BY <1>7, <1>8, <3>1, SetsBlind
    <3>3. RefundTraced(mid, rs, r, l)
      BY <1>1, <1>2, <1>3, <1>4, <3>1, <3>2, TracedKept DEF LiveLine, RefundTraced
    <3> QED
      BY <1>3, <1>4, <1>5, <3>1, <3>2, <3>3, TracedKept DEF RefundTraced
  <2>3. mns[l].purchase = p
    BY DEF OnlyLine
  <2>4. NetIn(all, Of("PURCHASE", mns[l].purchase, l)).qty = mns[l].quantity
    BY <1>6, <1>17, <2>3
  <2>5. Pending(mns, cs, rs, l) >= 0
    OBVIOUS
  <2> QED
    BY <2>1, <2>2, <2>4, <2>5 DEF LiveLine
<1>20. ~RepeatedLines => Clean(NetIn(all, OnLine(l) \intersect Pend))
  <2>1. ~RepeatedLines => Clean(rest)
    BY <1>1, <1>6, <1>9 DEF LineGood
  <2> QED
    BY <1>6, <1>16, <2>1
<1> QED
  BY <1>4, <1>18, <1>19, <1>20, LiveGood

-----------------------------------------------------------------------------
(* Editing: the whole request *)

\* What an edit would leave if it were saved now: the book, and the movements that
\* are still to be posted.
EditGood(edit) ==
    /\ Sound(edit.book)
    /\ edit.moves \in Seq(Rows)
    /\ Good(edit.book.ledger \o edit.moves, purchases, edit.lines, collections, refunds)

\* Lines of the purchase that the edit has not come to: nothing of them is to be posted.
Open(edit, p, L) ==
    \A l \in L : /\ l \in 1..Len(edit.lines)
                 /\ edit.lines[l].purchase = p
                 /\ ~edit.lines[l].is_deleted
                 /\ \A k \in 1..Len(edit.moves) : edit.moves[k].line # l

IsEdit(edit) ==
    /\ edit = [ok |-> edit.ok, book |-> edit.book, lines |-> edit.lines, moves |-> edit.moves]
    /\ edit.ok \in BOOLEAN

Editing(edit, p, L) ==
    /\ IsEdit(edit)
    /\ edit.ok => EditGood(edit) /\ Open(edit, p, L)

\* Rows that fit together fit alone.
LEMMA RowsFitParts ==
    ASSUME NEW ps, NEW lns, NEW cs, NEW rs, NEW rows \in Seq(Rows), NEW more \in Seq(Rows),
           RowsFit(rows \o more, ps, lns, cs, rs)
    PROVE  RowsFit(rows, ps, lns, cs, rs) /\ RowsFit(more, ps, lns, cs, rs)
<1>1. PICK all : all = rows \o more
  OBVIOUS
<1>2. /\ Len(all) = Len(rows) + Len(more) /\ Len(rows) \in Nat /\ Len(more) \in Nat
      /\ \A k \in 1..Len(rows) : all[k] = rows[k]
      /\ \A k \in 1..Len(more) : all[Len(rows) + k] = more[k]
  BY <1>1, ConcatParts
<1>3. ASSUME NEW k \in 1..Len(rows) PROVE RowFits(rows[k], ps, lns, cs, rs)
  <2>1. k \in 1..Len(all)
    BY <1>2
  <2> QED
    BY <1>1, <1>2, <2>1 DEF RowsFit
<1>4. ASSUME NEW k \in 1..Len(more) PROVE RowFits(more[k], ps, lns, cs, rs)
  <2>1. Len(rows) + k \in 1..Len(all)
    BY <1>2
  <2> QED
    BY <1>1, <1>2, <2>1 DEF RowsFit
<1> QED
  BY <1>3, <1>4 DEF RowsFit

\* What the book alone says of such a line.
LEMMA OpenLine ==
    ASSUME NEW edit, EditGood(edit), NEW p, NEW L, Open(edit, p, L), NEW l \in L,
           NEW rows, rows = edit.book.ledger, NEW moves, moves = edit.moves
    PROVE  /\ rows \in Seq(Rows) /\ moves \in Seq(Rows) /\ rows \o moves \in Seq(Rows)
           /\ Nothing(moves, OnLine(l))
           /\ RowsFit(rows, purchases, edit.lines, collections, refunds)
           /\ RowsFit(moves, purchases, edit.lines, collections, refunds)
           /\ NetIn(rows, OnLine(l) \intersect Pend) = NetIn(rows \o moves, OnLine(l) \intersect Pend)
           /\ LineGood(rows, purchases, edit.lines, collections, refunds, l)
           /\ LineGood(rows \o moves, purchases, edit.lines, collections, refunds, l)
<1>1. PICK all : all = rows \o moves
  OBVIOUS
<1>2. /\ rows \in Seq(Rows) /\ moves \in Seq(Rows) /\ all \in Seq(Rows)
      /\ Good(all, purchases, edit.lines, collections, refunds)
  BY <1>1, ConcatParts DEF EditGood, Sound
<1>3. \A k \in 1..Len(moves) : moves[k] \notin OnLine(l)
  BY DEF Open, OnLine
<1>4. Nothing(moves, OnLine(l))
  BY <1>2, <1>3, NothingOutside
<1>5. RowsFit(rows, purchases, edit.lines, collections, refunds)
      /\ RowsFit(moves, purchases, edit.lines, collections, refunds)
  <2>1. RowsFit(rows \o moves, purchases, edit.lines, collections, refunds)
    BY <1>1, <1>2 DEF Good
  <2> QED
    BY <1>2, <2>1, RowsFitParts
<1>6. Alike(rows, all, OnLine(l))
  BY <1>1, <1>2, <1>4, MoreAlike
<1>7. Alike(all, rows, OnLine(l))
  BY <1>6 DEF Alike
<1>8. LineGood(all, purchases, edit.lines, collections, refunds, l)
  BY <1>2 DEF Good, LinesGood, Open
<1>9. LineGood(rows, purchases, edit.lines, collections, refunds, l)
  BY <1>7, <1>8, LineGoodAlike
<1>10. NetIn(rows, OnLine(l) \intersect Pend) = NetIn(all, OnLine(l) \intersect Pend)
  <2>1. Blind(OnLine(l) \intersect Pend)
    BY SetsBlind, BlindParts
  <2> QED
    BY <1>7, <2>1 DEF Alike
<1> QED
  BY <1>1, <1>2, <1>4, <1>5, <1>8, <1>9, <1>10

\* A line corrected, or taken out of the book: what the other lines have to post stays.
LEMMA BookChanged ==
    ASSUME NEW edit, EditGood(edit), NEW p, ~purchases[p].is_deleted,
           NEW L, Open(edit, p, L), NEW l \in L,
           NEW mns, OnlyLine(purchases, edit.lines, mns, l),
           NEW now, Grown(edit.book.ledger, now, l),
           RowsFit(now, purchases, mns, collections, refunds),
           LineGood(now, purchases, mns, collections, refunds, l)
    PROVE  Good(now \o edit.moves, purchases, mns, collections, refunds)
<1>1. PICK rows, moves, lns : rows = edit.book.ledger /\ moves = edit.moves /\ lns = edit.lines
  OBVIOUS
<1>2. /\ rows \in Seq(Rows) /\ moves \in Seq(Rows) /\ rows \o moves \in Seq(Rows)
      /\ Nothing(moves, OnLine(l))
      /\ RowsFit(moves, purchases, lns, collections, refunds)
  BY <1>1, OpenLine
<1>3. Good(rows \o moves, purchases, lns, collections, refunds)
  BY <1>1 DEF EditGood
<1>4. PICK more \in Seq(Rows) : now = rows \o more /\ \A k \in 1..Len(more) : more[k] \in OnLine(l)
  BY <1>1 DEF Grown
<1>5. now \in Seq(Rows)
  BY DEF Grown
<1>6. PICK all : all = now \o moves
  OBVIOUS
<1>7. all \in Seq(Rows)
  BY <1>2, <1>5, <1>6, ConcatParts
<1>8. ~purchases[lns[l].purchase].is_deleted /\ OnlyLine(purchases, lns, mns, l)
  BY <1>1 DEF Open
<1>9. RowsFit(all, purchases, mns, collections, refunds)
  <2>1. TablesFit(purchases, lns, collections, refunds)
    BY <1>3 DEF Good
  <2>2. RowsFit(moves, purchases, mns, collections, refunds)
    BY <1>2, <1>8, <2>1, OnlyLineKeeps
  <2> QED
    BY <1>2, <1>5, <1>6, <2>2, RowsFitMore
<1>10. ASSUME NEW k \in 1..Len(lns), k # l PROVE Alike(rows \o moves, all, OnLine(k))
  <2>1. ASSUME NEW S, Blind(S), S \subseteq OnLine(k) PROVE NetIn(all, S) = NetIn(rows \o moves, S)
    <3>1. NetIn((rows \o more) \o moves, S) = NetIn((rows \o moves) \o more, S)
      BY <1>2, SwapNet
    <3>2. \A i \in 1..Len(more) : more[i] \notin S
      <4>1. ASSUME NEW i \in 1..Len(more) PROVE more[i] \notin S
        <5>1. more[i].line = l
          BY <1>4 DEF OnLine
        <5>2. \A row \in S : row.line = k
          BY <2>1 DEF OnLine
        <5> QED
          BY <1>10, <5>1, <5>2
      <4> QED
        BY <4>1
    <3>3. NetIn((rows \o moves) \o more, S) = NetIn(rows \o moves, S)
      BY <1>2, <3>2, OutsideSame
    <3> QED
      BY <1>4, <1>6, <3>1, <3>3
  <2> QED
    BY <2>1 DEF Alike
<1>11. LineGood(all, purchases, mns, collections, refunds, l)
  <2>1. Alike(now, all, OnLine(l))
    BY <1>2, <1>5, <1>6, MoreAlike
  <2> QED
    BY <2>1, LineGoodAlike
<1>12. Good(all, purchases, mns, collections, refunds)
  BY <1>3, <1>7, <1>8, <1>9, <1>10, <1>11, LineChanged
<1> QED
  BY <1>1, <1>6, <1>12

\* Movements that post stock of a line to its entry, and pending.
PendingEntry(row, p, at, l) ==
    /\ row.stype = "PURCHASE" /\ row.sid = p /\ row.line = l
    /\ row.bucket = "PENDING" /\ row.loc = at

EntryMoves(more, p, at, l) == \A k \in 1..Len(more) : PendingEntry(more[k], p, at, l)

\* Movements of an entry may follow one another.
LEMMA EntryMovesTwice ==
    ASSUME NEW a \in Seq(Rows), NEW b \in Seq(Rows), NEW p, NEW at, NEW l,
           EntryMoves(a, p, at, l), EntryMoves(b, p, at, l)
    PROVE  EntryMoves(a \o b, p, at, l)
<1>1. PICK new : new = a \o b
  OBVIOUS
<1>2. /\ Len(new) = Len(a) + Len(b) /\ Len(a) \in Nat /\ Len(b) \in Nat
      /\ \A i \in 1..Len(a) : new[i] = a[i]
      /\ \A i \in 1..Len(b) : new[Len(a) + i] = b[i]
  BY <1>1, ConcatParts
<1>3. ASSUME NEW i \in 1..Len(new) PROVE PendingEntry(new[i], p, at, l)
  <2>1. CASE i <= Len(a)
    <3>1. i \in 1..Len(a) /\ new[i] = a[i]
      BY <1>2, <2>1
    <3> QED
      BY <3>1 DEF EntryMoves
  <2>2. CASE ~(i <= Len(a))
    <3>1. i - Len(a) \in 1..Len(b) /\ Len(a) + (i - Len(a)) = i
      BY <1>2, <2>2
    <3>2. new[i] = b[i - Len(a)]
      BY <1>2, <3>1
    <3> QED
      BY <3>1, <3>2 DEF EntryMoves
  <2> QED
    BY <2>1, <2>2
<1> QED
  BY <1>1, <1>3 DEF EntryMoves

\* Rows that back out pending stock are movements of an entry.
LEMMA PendingPartEntry ==
    ASSUME NEW more, NEW lns, NEW p, NEW at, NEW l, PendingPart(more, lns, p, at, l)
    PROVE  EntryMoves(more, p, at, l)
BY DEF PendingPart, RowOut, EntryMoves, PendingEntry

\* A line for which movements are added: what the other lines have stays.
LEMMA MovesAdded ==
    ASSUME NEW edit, EditGood(edit), NEW p, ~purchases[p].is_deleted,
           NEW L, Open(edit, p, L), NEW l \in L,
           NEW mns, OnlyLine(purchases, edit.lines, mns, l),
           NEW more \in Seq(Rows), NEW at, EntryMoves(more, p, at, l),
           at = purchases[p].location,
           LineGood((edit.book.ledger \o edit.moves) \o more, purchases, mns, collections, refunds, l)
    PROVE  Good(edit.book.ledger \o (edit.moves \o more), purchases, mns, collections, refunds)
<1>1. PICK rows, moves, old : rows = edit.book.ledger /\ moves = edit.moves /\ old = edit.lines
  OBVIOUS
<1>2. rows \in Seq(Rows) /\ moves \in Seq(Rows) /\ rows \o moves \in Seq(Rows)
  BY <1>1, OpenLine
<1>3. Good(rows \o moves, purchases, old, collections, refunds)
  BY <1>1 DEF EditGood
<1>4. PICK base, all : base = rows \o moves /\ all = base \o more
  OBVIOUS
<1>5. base \in Seq(Rows) /\ all \in Seq(Rows) /\ all = rows \o (moves \o more)
  <2>1. (rows \o moves) \o more = rows \o (moves \o more)
    BY <1>2
  <2> QED
    BY <1>2, <1>4, <2>1, ConcatParts
<1>6. ~purchases[old[l].purchase].is_deleted /\ OnlyLine(purchases, old, mns, l) /\ old[l].purchase = p
  BY <1>1 DEF Open
<1>7. \A k \in 1..Len(more) : PendingEntry(more[k], p, at, l)
  BY DEF EntryMoves
<1>8. RowsFit(all, purchases, mns, collections, refunds)
  <2>1. TablesFit(purchases, old, collections, refunds)
    BY <1>3 DEF Good
  <2>2. RowsFit(base, purchases, mns, collections, refunds)
    BY <1>3, <1>4, <1>6, <2>1, OnlyLineKeeps DEF Good
  <2>3. l \in 1..Len(mns) /\ mns[l].purchase = p
    BY <1>6 DEF OnlyLine
  <2>4. ASSUME NEW k \in 1..Len(more) PROVE RowFits(more[k], purchases, mns, collections, refunds)
    <3>1. PendingEntry(more[k], p, at, l)
      BY <1>7
    <3> QED
      BY <2>3, <3>1 DEF PendingEntry, OwnRowFits, RowFits, PurchaseSources
  <2> QED
    BY <1>4, <1>5, <2>2, <2>4, RowsFitMore DEF RowsFit
<1>9. ASSUME NEW k \in 1..Len(old), k # l PROVE Alike(base, all, OnLine(k))
  <2>1. \A i \in 1..Len(more) : more[i] \notin OnLine(k)
    BY <1>7, <1>9 DEF PendingEntry, OnLine
  <2>2. Nothing(more, OnLine(k))
    BY <2>1, NothingOutside
  <2> QED
    BY <1>4, <1>5, <2>2, MoreAlike
<1>10. LineGood(all, purchases, mns, collections, refunds, l)
  BY <1>1, <1>4
<1>11. Good(all, purchases, mns, collections, refunds)
  BY <1>3, <1>4, <1>5, <1>6, <1>8, <1>9, <1>10, LineChanged
<1> QED
  BY <1>1, <1>5, <1>11

\* The other lines are open as before.
LEMMA OpenLess ==
    ASSUME NEW edit, NEW p, NEW L, Open(edit, p, L), NEW l \in L, NEW next,
           OnlyLine(purchases, edit.lines, next.lines, l), next.moves = edit.moves
    PROVE  Open(next, p, L \ {l})
BY DEF Open, OnlyLine

\* What is done about one line leaves the other lines open.
LEMMA OpenMore ==
    ASSUME NEW edit, EditGood(edit), NEW p, NEW L, Open(edit, p, L), NEW l \in L,
           NEW next, OnlyLine(purchases, edit.lines, next.lines, l),
           NEW more \in Seq(Rows), NEW at, EntryMoves(more, p, at, l),
           next.moves = edit.moves \o more
    PROVE  Open(next, p, L \ {l})
<1>1. PICK moves, now : moves = edit.moves /\ now = next.moves
  OBVIOUS
<1>2. moves \in Seq(Rows) /\ now = moves \o more
  BY <1>1 DEF EditGood
<1>3. /\ Len(now) = Len(moves) + Len(more) /\ Len(moves) \in Nat /\ Len(more) \in Nat
      /\ \A i \in 1..Len(moves) : now[i] = moves[i]
      /\ \A i \in 1..Len(more) : now[Len(moves) + i] = more[i]
  BY <1>2, ConcatParts
<1>4. ASSUME NEW k \in L, k # l, NEW i \in 1..Len(now) PROVE now[i].line # k
  <2>1. CASE i <= Len(moves)
    <3>1. i \in 1..Len(moves)
      BY <2>1
    <3>2. moves[i].line # k
      BY <1>1, <3>1 DEF Open
    <3> QED
      BY <1>3, <3>1, <3>2
  <2>2. CASE ~(i <= Len(moves))
    <3>1. i - Len(moves) \in 1..Len(more) /\ Len(moves) + (i - Len(moves)) = i
      BY <1>3, <2>2
    <3>2. now[i] = more[i - Len(moves)]
      BY <1>3, <3>1
    <3>3. more[i - Len(moves)].line = l
      BY <3>1 DEF EntryMoves, PendingEntry
    <3> QED
      BY <1>4, <3>2, <3>3
  <2> QED
    BY <2>1, <2>2
<1>5. ASSUME NEW k \in L \ {l}
      PROVE  /\ k \in 1..Len(next.lines) /\ next.lines[k].purchase = p
             /\ ~next.lines[k].is_deleted
  BY DEF Open, OnlyLine
<1> QED
  BY <1>1, <1>4, <1>5 DEF Open

\* The line is deleted, and nothing else is different.
GoneLine(lns, l) == [lns EXCEPT ![l].is_deleted = TRUE]

\* A removed line is deleted and else as it was.
LEMMA GoneLineFacts ==
    ASSUME NEW n, NEW ps, n = Len(ps), NEW lns \in Seq(LineRecords(n)), NEW l \in 1..Len(lns)
    PROVE  OnlyLine(ps, lns, GoneLine(lns, l), l) /\ GoneLine(lns, l)[l].is_deleted
<1>1. PICK old : old = lns[l]
  OBVIOUS
<1>2. PICK new : new = [old EXCEPT !.is_deleted = TRUE]
  OBVIOUS
<1>3. PICK mns : mns = [lns EXCEPT ![l] = new]
  OBVIOUS
<1>4. GoneLine(lns, l) = mns
  BY <1>1, <1>2, <1>3 DEF GoneLine
<1>5. new \in LineRecords(n) /\ new.is_deleted /\ new.purchase = old.purchase
  <2>1. old \in LineRecords(n)
    BY <1>1
  <2> QED
    BY <1>2, <2>1 DEF LineRecords
<1>6. /\ mns \in Seq(LineRecords(n)) /\ Len(mns) = Len(lns) /\ mns[l] = new
      /\ \A k \in 1..Len(lns) : k # l => mns[k] = lns[k]
  BY <1>3, <1>5
<1> QED
  BY <1>1, <1>4, <1>5, <1>6 DEF OnlyLine

\* Where the models count nothing as collected or given back, no record asks for units.
LEMMA NothingAsked ==
    ASSUME NEW lns, TablesTyped(purchases, lns, collections, refunds), NEW l,
           CollectedQty(l) = 0, RefundedQty(l) = 0
    PROVE  Untouched(collections, refunds, l)
<1>1. \A c \in 1..Len(collections) : Took(collections, c, l) = 0
  BY CollectedNone
<1>2. BackNone(refunds, l)
  BY RefundedNone
<1> QED
  BY <1>1, <1>2 DEF Untouched, BackNone

\* The quantities the code counts are those of the records, and natural numbers.
LEMMA CountsNatural ==
    ASSUME NEW lns, TablesTyped(purchases, lns, collections, refunds), NEW l
    PROVE  /\ CollectedQty(l) \in Nat /\ RefundedQty(l) \in Nat /\ CancelledPendingQty(l) \in Nat
           /\ CollectedQty(l) = TookAll(collections, l)
           /\ CancelledPendingQty(l) = BackAll(refunds, l, "PENDING")
           /\ PendingQty(lns, l) = Pending(lns, collections, refunds, l)
<1>1. /\ collections \in Seq(CollectionRecords(Len(purchases), Len(lns)))
      /\ refunds \in Seq(RefundRecords(Len(purchases), Len(lns)))
  BY DEF TablesTyped
<1>2. /\ CollectedQty(l) = TookAll(collections, l)
      /\ CancelledPendingQty(l) = BackAll(refunds, l, "PENDING")
      /\ RefundSum(l, "RECEIVED") = BackAll(refunds, l, "RECEIVED")
      /\ PendingQty(lns, l) = Pending(lns, collections, refunds, l)
  BY <1>1, RecordsSay
<1>3. /\ TookAll(collections, l) \in Nat
      /\ BackAll(refunds, l, "PENDING") \in Nat /\ BackAll(refunds, l, "RECEIVED") \in Nat
  BY AmountTypes
<1> QED
  BY <1>2, <1>3 DEF RefundedQty

\* A line in the middle of an edit, and what the book says of it.
LEMMA LineFacts ==
    ASSUME NEW edit, EditGood(edit), NEW p, p \in 1..Len(purchases), ~purchases[p].is_deleted,
           NEW L, Open(edit, p, L), NEW l \in L, NEW lns, lns = edit.lines
    PROVE  /\ TablesFit(purchases, lns, collections, refunds)
           /\ TablesTyped(purchases, lns, collections, refunds)
           /\ l \in 1..Len(lns) /\ l \in Nat /\ lns[l].purchase = p /\ ~lns[l].is_deleted
           /\ lns \in Seq(LineRecords(Len(purchases))) /\ lns[l] \in LineRecords(Len(purchases))
           /\ lns[l].product \in Products /\ p \in Nat
           /\ purchases[p].location \in Locations
<1>1. TablesFit(purchases, lns, collections, refunds) /\ TablesTyped(purchases, lns, collections, refunds)
  BY DEF EditGood, Good, TablesFit
<1>2. l \in 1..Len(lns) /\ lns[l].purchase = p /\ ~lns[l].is_deleted
  BY DEF Open
<1>3. /\ Len(lns) \in Nat /\ lns[l].product \in Products /\ lns[l] \in LineRecords(Len(purchases))
      /\ Len(purchases) \in Nat
  BY <1>1, <1>2, TableTypes
<1>4. purchases[p].location \in Locations
  BY <1>1, <1>2, TableTypes
<1>5. lns \in Seq(LineRecords(Len(purchases)))
  BY <1>1 DEF TablesTyped
<1> QED
  BY <1>1, <1>2, <1>3, <1>4, <1>5

\* The stock a line has pending, as the edit's last post will take it out.
LEMMA PendingOutFacts ==
    ASSUME NEW edit, EditGood(edit), NEW p, p \in 1..Len(purchases), ~purchases[p].is_deleted,
           NEW L, Open(edit, p, L), NEW l \in L
    PROVE  PendingUndone(PendingReversal(edit.book, edit.lines, l),
                         edit.book.ledger \o edit.moves, edit.lines, p, purchases[p].location, l)
<1>1. PICK rows, all, lns, at, out :
         /\ rows = edit.book.ledger /\ all = rows \o edit.moves /\ lns = edit.lines
         /\ at = purchases[p].location /\ out = PendingReversal(edit.book, lns, l)
  OBVIOUS
<1>2. rows \in Seq(Rows) /\ NetIn(rows, OnLine(l) \intersect Pend) = NetIn(all, OnLine(l) \intersect Pend)
  BY <1>1, OpenLine
<1>3. /\ l \in Nat /\ lns[l].product \in Products /\ p \in Nat /\ lns[l].purchase = p
      /\ at \in Locations
  BY <1>1, LineFacts
<1>4. PendingUndone(PendingReversal(edit.book, lns, l), edit.book.ledger, lns, p, at, l)
  BY <1>1, <1>2, <1>3, PendingReversalFacts
<1>5. PendingUndone(out, rows, lns, p, at, l)
  BY <1>1, <1>4
<1>6. PendingUndone(out, all, lns, p, at, l)
  BY <1>2, <1>5 DEF PendingUndone
<1> QED
  BY <1>1, <1>6

-----------------------------------------------------------------------------
(* Removing a line *)

\* A live line of the edit, as the book alone has it.
LEMMA OpenTraced ==
    ASSUME NEW edit, EditGood(edit), NEW p, NEW L, Open(edit, p, L), NEW l \in L,
           NEW rows, rows = edit.book.ledger, NEW lns, lns = edit.lines
    PROVE  /\ \A c \in 1..Len(collections) : CollectionTraced(rows, collections, c, l)
           /\ \A r \in 1..Len(refunds) : RefundTraced(rows, refunds, r, l)
           /\ RowsFit(rows, purchases, lns, collections, refunds)
<1>1. /\ LineGood(rows, purchases, lns, collections, refunds, l)
      /\ RowsFit(rows, purchases, lns, collections, refunds)
  BY OpenLine
<1>2. ~lns[l].is_deleted
  BY DEF Open
<1>3. LiveLine(rows, lns, collections, refunds, l)
  BY <1>1, <1>2 DEF LineGood
<1> QED
  BY <1>1, <1>3 DEF LiveLine

\* Removing a received line reverses all of it at once (correct_received_line).
LEMMA RemoveCollected ==
    ASSUME NEW edit, IsEdit(edit), EditGood(edit), NEW p, p \in 1..Len(purchases),
           ~purchases[p].is_deleted, NEW L, Open(edit, p, L), NEW l \in L,
           NEW may \in BOOLEAN, may => RefundedQty(l) = 0,
           NEW back, back = ReverseLine(edit.book, p, l),
           NEW next, next = [ok |-> may /\ back.ok, book |-> back.book,
                             lines |-> GoneLine(edit.lines, l), moves |-> edit.moves]
    PROVE  Editing(next, p, L \ {l})
<1>1. PICK lns, gone, rows : lns = edit.lines /\ gone = GoneLine(lns, l) /\ rows = edit.book.ledger
  OBVIOUS
<1>2. /\ TablesTyped(purchases, lns, collections, refunds)
      /\ l \in 1..Len(lns) /\ lns[l].purchase = p
      /\ lns \in Seq(LineRecords(Len(purchases)))
  BY <1>1, LineFacts
<1>3. OnlyLine(purchases, lns, gone, l) /\ gone[l].is_deleted
  BY <1>1, <1>2, GoneLineFacts
<1>4. IsEdit(next)
  <2>1. (may /\ back.ok) \in BOOLEAN
    OBVIOUS
  <2> QED
    BY <2>1 DEF IsEdit
<1>5. ASSUME next.ok PROVE EditGood(next) /\ Open(next, p, L \ {l})
  <2>1. may /\ back.ok
    BY <1>5
  <2>2. NotBack(refunds, l)
    BY <1>2, <2>1, RefundedNone
  <2>3. /\ \A c \in 1..Len(collections) : CollectionTraced(rows, collections, c, l)
        /\ \A r \in 1..Len(refunds) : RefundTraced(rows, refunds, r, l)
        /\ RowsFit(rows, purchases, lns, collections, refunds)
    BY <1>1, OpenTraced
  <2>4. PICK book : book = edit.book
    OBVIOUS
  <2>5. Sound(book) /\ rows = book.ledger /\ back = ReverseLine(book, p, l)
    BY <1>1, <2>4 DEF EditGood
  <2>6. Sound(back.book) /\ Emptied(rows, back.book.ledger, l)
    BY <1>2, <2>1, <2>2, <2>3, <2>5, ReverseLineFacts
  <2>7. PICK now : now = back.book.ledger
    OBVIOUS
  <2>8. Grown(rows, now, l) /\ KeepsFitting(rows, now) /\ Nothing(now, OnLine(l))
    BY <2>6, <2>7 DEF Emptied
  <2>9. LineGood(now, purchases, gone, collections, refunds, l)
    BY <1>3, <2>8, BlankGood
  <2>10. RowsFit(now, purchases, gone, collections, refunds)
    <3>1. TablesFit(purchases, lns, collections, refunds)
      BY <1>1, LineFacts
    <3>2. RowsFit(rows, purchases, gone, collections, refunds)
      BY <1>2, <1>3, <2>3, <3>1, OnlyLineKeeps
    <3> QED
      BY <2>8, <3>2 DEF KeepsFitting
  <2>11. Good(now \o edit.moves, purchases, gone, collections, refunds)
    BY <1>1, <1>3, <2>8, <2>9, <2>10, BookChanged
  <2>12. edit.moves \in Seq(Rows)
    BY DEF EditGood
  <2>13. next.book = back.book /\ next.lines = gone /\ next.moves = edit.moves
    BY <1>1
  <2>14. EditGood(next)
    BY <2>6, <2>7, <2>11, <2>12, <2>13 DEF EditGood
  <2>15. Open(next, p, L \ {l})
    BY <1>1, <1>3, <2>13, OpenLess
  <2> QED
    BY <2>14, <2>15
<1> QED
  BY <1>4, <1>5 DEF Editing

\* Removing a line nobody touched backs out what is pending.
LEMMA RemoveUntouched ==
    ASSUME NEW edit, IsEdit(edit), EditGood(edit), NEW p, p \in 1..Len(purchases),
           ~purchases[p].is_deleted, NEW L, Open(edit, p, L), NEW l \in L,
           CollectedQty(l) = 0, RefundedQty(l) = 0,
           NEW out, out = PendingReversal(edit.book, edit.lines, l),
           NEW next, next = [ok |-> edit.ok, book |-> edit.book,
                             lines |-> GoneLine(edit.lines, l), moves |-> edit.moves \o out]
    PROVE  Editing(next, p, L \ {l})
<1>1. PICK lns, gone, rows, at, all :
         /\ lns = edit.lines /\ gone = GoneLine(lns, l) /\ rows = edit.book.ledger
         /\ at = purchases[p].location /\ all = rows \o edit.moves
  OBVIOUS
<1>2. /\ TablesTyped(purchases, lns, collections, refunds)
      /\ l \in 1..Len(lns) /\ lns[l].purchase = p /\ ~lns[l].is_deleted
      /\ lns \in Seq(LineRecords(Len(purchases)))
  BY <1>1, LineFacts
<1>3. OnlyLine(purchases, lns, gone, l) /\ gone[l].is_deleted
  BY <1>1, <1>2, GoneLineFacts
<1>4. PendingUndone(out, all, lns, p, at, l)
  BY <1>1, PendingOutFacts
<1>5. out \in Seq(Rows) /\ PendingPart(out, lns, p, at, l)
  BY <1>4 DEF PendingUndone, PendingPart
<1>6. Nothing(all \o out, OnLine(l))
  <2>1. Untouched(collections, refunds, l)
    BY <1>2, NothingAsked
  <2>2. Good(all, purchases, lns, collections, refunds)
    BY <1>1 DEF EditGood
  <2> QED
    BY <1>1, <1>2, <1>4, <2>1, <2>2, PendingOutBlank
<1>7. LineGood(all \o out, purchases, gone, collections, refunds, l)
  BY <1>3, <1>6, BlankGood
<1>8. EntryMoves(out, p, at, l)
  BY <1>5, PendingPartEntry
<1>9. Good(rows \o (edit.moves \o out), purchases, gone, collections, refunds)
  BY <1>1, <1>3, <1>5, <1>7, <1>8, MovesAdded
<1>10. edit.moves \o out \in Seq(Rows)
  <2>1. edit.moves \in Seq(Rows)
    BY DEF EditGood
  <2> QED
    BY <1>5, <2>1, ConcatParts
<1>11. /\ next.book = edit.book /\ next.lines = gone /\ next.moves = edit.moves \o out
       /\ next.ok = edit.ok
  BY <1>1
<1>12. EditGood(next)
  <2>1. Sound(edit.book)
    BY DEF EditGood
  <2> QED
    BY <1>1, <1>9, <1>10, <1>11, <2>1 DEF EditGood
<1>13. Open(next, p, L \ {l})
  BY <1>1, <1>3, <1>5, <1>8, <1>11, OpenMore
<1>14. IsEdit(next)
  <2>1. edit.ok \in BOOLEAN
    BY DEF IsEdit
  <2> QED
    BY <2>1 DEF IsEdit
<1> QED
  BY <1>12, <1>13, <1>14 DEF Editing

\* A refused edit promises nothing.
LEMMA Refused ==
    ASSUME NEW edit, IsEdit(edit), NEW p, NEW L
    PROVE  Editing(Refuse(edit), p, L)
<1>1. PICK next : next = [edit EXCEPT !.ok = FALSE]
  OBVIOUS
<1>2. next = [ok |-> FALSE, book |-> edit.book, lines |-> edit.lines, moves |-> edit.moves]
  BY <1>1 DEF IsEdit
<1>3. IsEdit(next) /\ ~next.ok
  BY <1>2 DEF IsEdit
<1> QED
  BY <1>1, <1>3 DEF Editing, Refuse

\* The invariant may forget lines that are open.
LEMMA EditingLess ==
    ASSUME NEW edit, NEW p, NEW L, Editing(edit, p, L), NEW M, M \subseteq L
    PROVE  Editing(edit, p, M)
BY DEF Editing, Open

\* Either way a removal keeps the invariant of the edit (_remove_line).
LEMMA RemoveGood ==
    ASSUME NEW edit, NEW p, p \in 1..Len(purchases), ~purchases[p].is_deleted,
           NEW L, Editing(edit, p, L), NEW l \in L
    PROVE  Editing(RemoveLine(edit, l), p, L \ {l})
<1>1. IsEdit(edit)
  BY DEF Editing
<1>2. CASE ~edit.ok
  <2>1. RemoveLine(edit, l) = edit
    BY <1>2 DEF RemoveLine
  <2> QED
    BY <2>1, EditingLess
<1>3. CASE edit.ok
  <2>1. EditGood(edit) /\ Open(edit, p, L)
    BY <1>3 DEF Editing
  <2>2. edit.lines[l].purchase = p /\ TablesTyped(purchases, edit.lines, collections, refunds)
    BY <2>1, LineFacts
  <2>3. CollectedQty(l) \in Nat /\ RefundedQty(l) \in Nat
    BY <2>2, CountsNatural
  <2>4. PICK gone : gone = GoneLine(edit.lines, l)
    OBVIOUS
  <2>5. CASE CollectedQty(l) > 0
    <3>1. PICK back : back = ReverseLine(edit.book, p, l)
      OBVIOUS
    <3>2. PICK may \in BOOLEAN : may <=> MayCorrect(edit.book, edit.lines, l)
      <4>1. CASE MayCorrect(edit.book, edit.lines, l)
        BY <4>1
      <4>2. CASE ~MayCorrect(edit.book, edit.lines, l)
        BY <4>2
      <4> QED
        BY <4>1, <4>2
    <3>3. may => RefundedQty(l) = 0
      BY <3>2 DEF MayCorrect
    <3>4. PICK next : next = [ok |-> may /\ back.ok, book |-> back.book,
                              lines |-> gone, moves |-> edit.moves]
      OBVIOUS
    <3>5. RemoveLine(edit, l)
            = [edit EXCEPT !.ok = MayCorrect(edit.book, edit.lines, l) /\ back.ok,
                           !.book = back.book, !.lines = gone]
      BY <1>3, <2>2, <2>4, <2>5, <3>1 DEF RemoveLine, GoneLine
    <3>6. (MayCorrect(edit.book, edit.lines, l) /\ back.ok) = (may /\ back.ok)
      BY <3>2
    <3>7. RemoveLine(edit, l) = next
      BY <1>1, <3>4, <3>5, <3>6 DEF IsEdit
    <3> QED
      BY <1>1, <2>1, <2>4, <3>1, <3>3, <3>4, <3>7, RemoveCollected
  <2>6. CASE CollectedQty(l) = 0 /\ RefundedQty(l) > 0
    <3>1. RemoveLine(edit, l) = Refuse(edit)
      BY <1>3, <2>3, <2>6 DEF RemoveLine
    <3> QED
      BY <1>1, <3>1, Refused
  <2>7. CASE CollectedQty(l) = 0 /\ RefundedQty(l) = 0
    <3>1. PICK out : out = PendingReversal(edit.book, edit.lines, l)
      OBVIOUS
    <3>2. PICK next : next = [ok |-> edit.ok, book |-> edit.book,
                              lines |-> gone, moves |-> edit.moves \o out]
      OBVIOUS
    <3>3. RemoveLine(edit, l) = [edit EXCEPT !.lines = gone, !.moves = edit.moves \o out]
      BY <1>3, <2>4, <2>7, <3>1 DEF RemoveLine, GoneLine
    <3>4. RemoveLine(edit, l) = next
      BY <1>1, <3>2, <3>3 DEF IsEdit
    <3> QED
      BY <1>1, <2>1, <2>4, <2>7, <3>1, <3>2, <3>4, RemoveUntouched
  <2> QED
    BY <2>3, <2>5, <2>6, <2>7
<1> QED
  BY <1>1, <1>2, <1>3 DEF IsEdit

-----------------------------------------------------------------------------
(* Keeping a line at new terms *)

NewTerms(old, terms) ==
    [old EXCEPT !.product = terms.product, !.quantity = terms.quantity,
                !.price = terms.price, !.rate = terms.rate]

AtTerms(lns, l, terms) == [lns EXCEPT ![l] = NewTerms(lns[l], terms)]

\* The line at its new terms.
LEMMA AtTermsFacts ==
    ASSUME NEW n, NEW ps, n = Len(ps), NEW lns \in Seq(LineRecords(n)), NEW l \in 1..Len(lns),
           NEW terms \in LineTerms, NEW mns, mns = AtTerms(lns, l, terms)
    PROVE  /\ OnlyLine(ps, lns, mns, l) /\ mns[l] \in LineRecords(n)
           /\ mns[l] = NewTerms(lns[l], terms)
           /\ mns[l].is_deleted = lns[l].is_deleted
<1>1. PICK old : old = lns[l]
  OBVIOUS
<1>2. PICK new : new = NewTerms(old, terms)
  OBVIOUS
<1>3. mns = [lns EXCEPT ![l] = new]
  BY <1>1, <1>2 DEF AtTerms
<1>4. new \in LineRecords(n) /\ new.purchase = old.purchase /\ new.is_deleted = old.is_deleted
  <2>1. old \in LineRecords(n)
    BY <1>1
  <2> QED
    BY <1>2, <2>1 DEF LineRecords, NewTerms, LineTerms
<1>5. /\ mns \in Seq(LineRecords(n)) /\ Len(mns) = Len(lns) /\ mns[l] = new
      /\ \A k \in 1..Len(lns) : k # l => mns[k] = lns[k]
  BY <1>3, <1>4
<1> QED
  BY <1>1, <1>2, <1>4, <1>5 DEF OnlyLine

\* A received line at its new terms: reversed and replayed.
LEMMA RepriceReceived ==
    ASSUME NEW edit, IsEdit(edit), EditGood(edit), NEW p, p \in 1..Len(purchases),
           ~purchases[p].is_deleted, NEW L, Open(edit, p, L), NEW l \in L,
           NEW mns, OnlyLine(purchases, edit.lines, mns, l), ~mns[l].is_deleted,
           Pending(mns, collections, refunds, l) >= 0,
           NEW may \in BOOLEAN, may => RefundedQty(l) = 0,
           NEW corrected, corrected = CorrectLine(edit.book, mns, l),
           NEW next, next = [ok |-> may /\ corrected.ok, book |-> corrected.book,
                             lines |-> mns, moves |-> edit.moves]
    PROVE  Editing(next, p, L \ {l})
<1>1. PICK lns, rows, book : lns = edit.lines /\ book = edit.book /\ rows = book.ledger
  OBVIOUS
<1>2. /\ TablesTyped(purchases, lns, collections, refunds)
      /\ TablesFit(purchases, lns, collections, refunds)
      /\ l \in 1..Len(lns) /\ lns[l].purchase = p
  BY <1>1, LineFacts
<1>3. IsEdit(next)
  <2>1. (may /\ corrected.ok) \in BOOLEAN
    OBVIOUS
  <2> QED
    BY <2>1 DEF IsEdit
<1>4. ASSUME next.ok PROVE EditGood(next) /\ Open(next, p, L \ {l})
  <2>1. may /\ corrected.ok
    BY <1>4
  <2>2. NotBack(refunds, l)
    BY <1>2, <2>1, RefundedNone
  <2>3. /\ \A c \in 1..Len(collections) : CollectionTraced(rows, collections, c, l)
        /\ \A r \in 1..Len(refunds) : RefundTraced(rows, refunds, r, l)
        /\ RowsFit(rows, purchases, lns, collections, refunds)
    BY <1>1, OpenTraced
  <2>4. OnlyLine(purchases, lns, mns, l)
    BY <1>1
  <2>5. TablesFit(purchases, mns, collections, refunds)
        /\ RowsFit(rows, purchases, mns, collections, refunds)
    BY <1>2, <2>3, <2>4, OnlyLineKeeps
  <2>6. Correctable(mns, l)
    <3>1. l \in 1..Len(mns) /\ mns[l].purchase = p
      BY <1>2, <2>4 DEF OnlyLine
    <3> QED
      BY <2>5, <3>1 DEF Correctable, TablesFit
  <2>7. Sound(book) /\ corrected = CorrectLine(book, mns, l)
    BY <1>1 DEF EditGood
  <2>8. /\ Sound(corrected.book) /\ Grown(rows, corrected.book.ledger, l)
        /\ RowsFit(corrected.book.ledger, purchases, mns, collections, refunds)
        /\ LineGood(corrected.book.ledger, purchases, mns, collections, refunds, l)
    BY <1>1, <2>1, <2>2, <2>3, <2>5, <2>6, <2>7, CorrectLineFacts
  <2>9. PICK now : now = corrected.book.ledger
    OBVIOUS
  <2>10. Good(now \o edit.moves, purchases, mns, collections, refunds)
    BY <1>1, <2>4, <2>8, <2>9, BookChanged
  <2>11. edit.moves \in Seq(Rows)
    BY DEF EditGood
  <2>12. next.book = corrected.book /\ next.lines = mns /\ next.moves = edit.moves
    OBVIOUS
  <2>13. EditGood(next)
    BY <2>8, <2>9, <2>10, <2>11, <2>12 DEF EditGood
  <2>14. Open(next, p, L \ {l})
    BY <2>12, OpenLess
  <2> QED
    BY <2>13, <2>14
<1> QED
  BY <1>3, <1>4 DEF Editing

\* A line whose pending stock is replaced.
LEMMA RepricePending ==
    ASSUME NEW edit, IsEdit(edit), EditGood(edit), NEW p, p \in 1..Len(purchases),
           ~purchases[p].is_deleted, NEW L, Open(edit, p, L), NEW l \in L,
           NEW mns, OnlyLine(purchases, edit.lines, mns, l), ~mns[l].is_deleted,
           mns[l] \in LineRecords(Len(purchases)),
           Pending(mns, collections, refunds, l) >= 0,
           \/ mns[l].product = edit.lines[l].product
           \/ CollectedQty(l) = 0 /\ RefundedQty(l) = 0,
           NEW out, out = PendingReversal(edit.book, edit.lines, l),
           NEW in, in = FreshPending(mns, l),
           NEW next, next = [ok |-> edit.ok, book |-> edit.book, lines |-> mns,
                             moves |-> (edit.moves \o out) \o in]
    PROVE  Editing(next, p, L \ {l})
<1>1. PICK lns, rows, moves, all, at :
         /\ lns = edit.lines /\ rows = edit.book.ledger /\ moves = edit.moves
         /\ all = rows \o moves /\ at = purchases[p].location
  OBVIOUS
<1>2. /\ TablesTyped(purchases, lns, collections, refunds)
      /\ TablesFit(purchases, lns, collections, refunds)
      /\ l \in 1..Len(lns) /\ l \in Nat /\ lns[l].purchase = p /\ ~lns[l].is_deleted
      /\ at \in Locations
  BY <1>1, LineFacts
<1>3. OnlyLine(purchases, lns, mns, l) /\ mns[l].purchase = p
  BY <1>1, <1>2 DEF OnlyLine
<1>4. TablesTyped(purchases, mns, collections, refunds)
  <2>1. TablesFit(purchases, mns, collections, refunds)
    BY <1>2, <1>3, OnlyLineKeeps
  <2> QED
    BY <2>1 DEF TablesFit
<1>5. PICK fresh \in Nat : fresh = Pending(mns, collections, refunds, l) /\ fresh = PendingQty(mns, l)
  <2>1. /\ PendingQty(mns, l) = Pending(mns, collections, refunds, l)
        /\ CollectedQty(l) = TookAll(collections, l) /\ CollectedQty(l) \in Nat
        /\ CancelledPendingQty(l) = BackAll(refunds, l, "PENDING") /\ CancelledPendingQty(l) \in Nat
    BY <1>4, CountsNatural
  <2>2. mns[l].quantity \in Nat
    <3>1. l \in 1..Len(mns)
      BY <1>2, <1>3 DEF OnlyLine
    <3> QED
      BY <1>4, <3>1, TableTypes
  <2>3. PICK fresh : fresh = Pending(mns, collections, refunds, l)
    OBVIOUS
  <2>4. fresh \in Nat
    BY <2>1, <2>2, <2>3 DEF Pending
  <2> QED
    BY <2>1, <2>3, <2>4
<1>6. PendingUndone(out, all, lns, p, at, l)
  BY <1>1, PendingOutFacts
<1>7. Entered(in, mns, p, at, l, fresh)
  <2>1. PICK n \in Nat : n = Len(purchases)
    BY <1>2, TableTypes
  <2>2. Entered(FreshPending(mns, l), mns, p, at, l, fresh)
    BY <1>1, <1>2, <1>3, <1>5, <2>1, FreshFacts
  <2> QED
    BY <2>2
<1>8. out \in Seq(Rows) /\ in \in Seq(Rows) /\ EntryMoves(out, p, at, l) /\ EntryMoves(in, p, at, l)
  <2>1. PendingPart(out, lns, p, at, l) /\ PendingPart(in, mns, p, at, l)
    BY <1>6, <1>7 DEF PendingUndone, Entered, PendingPart
  <2> QED
    BY <1>6, <1>7, <2>1, PendingPartEntry DEF PendingUndone, Entered
<1>9. /\ rows \in Seq(Rows) /\ moves \in Seq(Rows) /\ all \in Seq(Rows)
      /\ Good(all, purchases, lns, collections, refunds)
  <2>1. rows \in Seq(Rows) /\ moves \in Seq(Rows) /\ rows \o moves \in Seq(Rows)
    BY <1>1, OpenLine
  <2> QED
    BY <1>1, <2>1 DEF EditGood
<1>10. LineGood((all \o out) \o in, purchases, mns, collections, refunds, l)
  <2>1. CASE mns[l].product = edit.lines[l].product
    BY <1>1, <1>2, <1>3, <1>5, <1>6, <1>7, <1>9, <2>1, RepricedLine
  <2>2. CASE CollectedQty(l) = 0 /\ RefundedQty(l) = 0
    <3>1. Untouched(collections, refunds, l)
      BY <1>2, <2>2, NothingAsked
    <3>2. Nothing(all \o out, OnLine(l))
      BY <1>1, <1>2, <1>6, <1>9, <3>1, PendingOutBlank
    <3>3. all \o out \in Seq(Rows)
      BY <1>8, <1>9, ConcatParts
    <3>4. l \in 1..Len(mns)
      BY <1>2, <1>3 DEF OnlyLine
    <3>5. fresh = mns[l].quantity
      <4>1. /\ CollectedQty(l) = TookAll(collections, l)
            /\ CancelledPendingQty(l) = BackAll(refunds, l, "PENDING")
            /\ CancelledPendingQty(l) \in Nat
        BY <1>4, CountsNatural
      <4>2. BackAll(refunds, l, "PENDING") = 0
        <5>1. RefundSum(l, "RECEIVED") \in Nat
          <6>1. BackAll(refunds, l, "RECEIVED") \in Nat
            BY <1>4, AmountTypes
          <6>2. RefundSum(l, "RECEIVED") = BackAll(refunds, l, "RECEIVED")
            BY <1>4, RecordsSay DEF TablesTyped
          <6> QED
            BY <6>1, <6>2
        <5> QED
          BY <2>2, <4>1, <5>1 DEF RefundedQty
      <4>3. mns[l].quantity \in Nat
        BY <1>4, <3>4, TableTypes
      <4> QED
        BY <1>5, <2>2, <4>1, <4>2, <4>3 DEF Pending
    <3>6. Enters(in, 1, mns[l], l)
      <4>1. mns[l].quantity \in Nat \ {0}
        BY <1>4, <3>4, TableTypes
      <4>2. Len(in) = 1 /\ in[1].qty = fresh /\ in[1].aed >= 0
        BY <1>7, <3>5, <4>1 DEF Entered
      <4>3. 1 \in 1..Len(in)
        BY <4>2
      <4>4. RowOut(in[1], mns, p, at, l) /\ in[1].bucket = "PENDING"
        BY <1>7, <4>3 DEF Entered
      <4>5. \A j \in 1..Len(in) : j = 1
        BY <4>2
      <4> QED
        BY <1>3, <1>8, <3>5, <4>2, <4>3, <4>4, <4>5 DEF Enters, RowOut
    <3> QED
      BY <1>4, <3>1, <3>2, <3>3, <3>4, <3>6, FreshLine
  <2> QED
    BY <2>1, <2>2
<1>11. PICK more : more = out \o in
  OBVIOUS
<1>12. more \in Seq(Rows) /\ EntryMoves(more, p, at, l)
  BY <1>8, <1>11, ConcatParts, EntryMovesTwice
<1>13. (all \o out) \o in = all \o more /\ (moves \o out) \o in = moves \o more
  <2>1. \A a, b, c \in Seq(Rows) : (a \o b) \o c = a \o (b \o c)
    OBVIOUS
  <2>2. out \in Seq(Rows) /\ in \in Seq(Rows) /\ moves \in Seq(Rows) /\ all \in Seq(Rows)
    BY <1>8, <1>9
  <2>3. (all \o out) \o in = all \o (out \o in)
    BY <2>1, <2>2
  <2>4. (moves \o out) \o in = moves \o (out \o in)
    BY <2>1, <2>2
  <2> QED
    BY <1>11, <2>3, <2>4
<1>14. Good(rows \o (moves \o more), purchases, mns, collections, refunds)
  <2>1. LineGood(all \o more, purchases, mns, collections, refunds, l)
    BY <1>10, <1>13
  <2>2. LineGood((edit.book.ledger \o edit.moves) \o more, purchases, mns, collections, refunds, l)
    BY <1>1, <2>1
  <2> QED
    BY <1>1, <1>12, <2>2, MovesAdded
<1>15. next.book = edit.book /\ next.lines = mns /\ next.moves = moves \o more /\ next.ok = edit.ok
  BY <1>1, <1>13
<1>16. EditGood(next)
  <2>1. Sound(edit.book) /\ moves \o more \in Seq(Rows)
    BY <1>9, <1>12, ConcatParts DEF EditGood
  <2> QED
    BY <1>1, <1>14, <1>15, <2>1 DEF EditGood
<1>17. Open(next, p, L \ {l})
  BY <1>1, <1>12, <1>15, OpenMore
<1>18. IsEdit(next)
  <2>1. edit.ok \in BOOLEAN
    BY DEF IsEdit
  <2> QED
    BY <2>1 DEF IsEdit
<1> QED
  BY <1>16, <1>17, <1>18 DEF Editing

\* Repricing or correcting a line keeps the invariant of the edit (_reprice_line).
LEMMA RepriceGood ==
    ASSUME NEW edit, edit.ok, NEW p, p \in 1..Len(purchases), ~purchases[p].is_deleted,
           NEW L, Editing(edit, p, L), NEW l \in L, NEW terms \in LineTerms
    PROVE  Editing(RepriceLine(edit, l, terms), p, L \ {l})
<1>1. IsEdit(edit) /\ EditGood(edit) /\ Open(edit, p, L)
  BY DEF Editing
<1>2. PICK lns, old, new, mns :
         lns = edit.lines /\ old = lns[l] /\ new = NewTerms(old, terms) /\ mns = AtTerms(lns, l, terms)
  OBVIOUS
<1>3. /\ TablesTyped(purchases, lns, collections, refunds)
      /\ l \in 1..Len(lns) /\ lns[l].purchase = p /\ ~lns[l].is_deleted
      /\ lns \in Seq(LineRecords(Len(purchases))) /\ old \in LineRecords(Len(purchases))
  BY <1>1, <1>2, LineFacts
<1>4. /\ OnlyLine(purchases, lns, mns, l) /\ mns[l] \in LineRecords(Len(purchases))
      /\ mns[l] = new /\ ~mns[l].is_deleted
  BY <1>2, <1>3, AtTermsFacts
<1>5. PICK corrected : corrected = CorrectLine(edit.book, mns, l)
  OBVIOUS
<1>6. PICK may \in BOOLEAN : may <=> MayCorrect(edit.book, edit.lines, l)
  <2>1. CASE MayCorrect(edit.book, edit.lines, l)
    BY <2>1
  <2>2. CASE ~MayCorrect(edit.book, edit.lines, l)
    BY <2>2
  <2> QED
    BY <2>1, <2>2
<1>7. PICK out, in : out = PendingReversal(edit.book, edit.lines, l) /\ in = FreshPending(mns, l)
  OBVIOUS
<1>8. new = [old EXCEPT !.product = terms.product, !.quantity = terms.quantity,
                        !.price = terms.price, !.rate = terms.rate]
      /\ mns = [lns EXCEPT ![l] = new]
  BY <1>2 DEF NewTerms, AtTerms
<1>9. CASE new = old
  <2>1. RepriceLine(edit, l, terms) = edit
    BY <1>2, <1>8, <1>9 DEF RepriceLine
  <2> QED
    BY <2>1, EditingLess
<1>10. CASE new # old /\ ~RepriceAllowed(old, new, l)
  <2>1. RepriceLine(edit, l, terms) = Refuse(edit)
    BY <1>2, <1>8, <1>10 DEF RepriceLine
  <2> QED
    BY <1>1, <2>1, Refused
<1>11. ASSUME RepriceAllowed(old, new, l)
       PROVE  /\ RefundedQty(l) > 0 => new.product = old.product
              /\ Pending(mns, collections, refunds, l) >= 0
              /\ CollectedQty(l) \in Nat /\ RefundedQty(l) \in Nat
  <2>1. /\ CollectedQty(l) \in Nat /\ RefundedQty(l) \in Nat /\ CancelledPendingQty(l) \in Nat
        /\ CollectedQty(l) = TookAll(collections, l)
        /\ CancelledPendingQty(l) = BackAll(refunds, l, "PENDING")
    BY <1>3, CountsNatural
  <2>2. new.quantity \in Nat
    BY <1>4, LineTypes
  <2>3. RefundedQty(l) > 0 => new.product = old.product
    BY <1>11 DEF RepriceAllowed
  <2>4. new.quantity >= CollectedQty(l) + CancelledPendingQty(l)
    BY <1>11 DEF RepriceAllowed
  <2>5. Pending(mns, collections, refunds, l) >= 0
    BY <1>4, <2>1, <2>2, <2>4 DEF Pending
  <2> QED
    BY <2>1, <2>3, <2>5
<1>12. CASE new # old /\ RepriceAllowed(old, new, l) /\ NeedsCorrection(old, new, l)
  <2>1. may => RefundedQty(l) = 0
    BY <1>6 DEF MayCorrect
  <2>2. PICK next : next = [ok |-> may /\ corrected.ok, book |-> corrected.book,
                            lines |-> mns, moves |-> edit.moves]
    OBVIOUS
  <2>3. RepriceLine(edit, l, terms)
          = [edit EXCEPT !.ok = MayCorrect(edit.book, edit.lines, l) /\ corrected.ok,
                         !.book = corrected.book, !.lines = mns]
    BY <1>2, <1>5, <1>8, <1>12 DEF RepriceLine
  <2>4. (MayCorrect(edit.book, edit.lines, l) /\ corrected.ok) = (may /\ corrected.ok)
    BY <1>6
  <2>5. RepriceLine(edit, l, terms) = next
    BY <1>1, <2>2, <2>3, <2>4 DEF IsEdit
  <2>6. Pending(mns, collections, refunds, l) >= 0
    BY <1>11, <1>12
  <2>7. Editing(next, p, L \ {l})
    BY <1>1, <1>2, <1>4, <1>5, <2>1, <2>2, <2>6, RepriceReceived
  <2> QED
    BY <2>5, <2>7
<1>13. CASE new # old /\ RepriceAllowed(old, new, l) /\ ~NeedsCorrection(old, new, l)
  <2>1. PICK next : next = [ok |-> edit.ok, book |-> edit.book, lines |-> mns,
                            moves |-> (edit.moves \o out) \o in]
    OBVIOUS
  <2>2. RepriceLine(edit, l, terms) = [edit EXCEPT !.lines = mns, !.moves = (edit.moves \o out) \o in]
    BY <1>2, <1>7, <1>8, <1>13 DEF RepriceLine
  <2>3. RepriceLine(edit, l, terms) = next
    BY <1>1, <2>1, <2>2 DEF IsEdit
  <2>4. Pending(mns, collections, refunds, l) >= 0
    BY <1>11, <1>13
  <2>5. mns[l].product = edit.lines[l].product \/ (CollectedQty(l) = 0 /\ RefundedQty(l) = 0)
    <3>1. CASE new.product = old.product
      BY <1>2, <1>4, <3>1
    <3>2. CASE new.product # old.product
      <4>1. ~(CollectedQty(l) > 0)
        BY <1>13, <3>2 DEF NeedsCorrection
      <4>2. ~(RefundedQty(l) > 0)
        BY <1>11, <1>13, <3>2
      <4>3. CollectedQty(l) \in Nat /\ RefundedQty(l) \in Nat
        BY <1>11, <1>13
      <4> QED
        BY <4>1, <4>2, <4>3
    <3> QED
      BY <3>1, <3>2
  <2>6. Editing(next, p, L \ {l})
    BY <1>1, <1>2, <1>4, <1>7, <2>1, <2>4, <2>5, RepricePending
  <2> QED
    BY <2>3, <2>6
<1> QED
  BY <1>9, <1>10, <1>12, <1>13

-----------------------------------------------------------------------------
(* The whole request, item by item *)

\* The edit after one more item.
EditsNext(prev, k, p, payload) ==
    EditItem(prev, p, LinesOf(lines, p), payload[k])

\* The recursion equation of EditsInTurn, up to n.
AreEdits(f, p, payload, n) ==
    f = [k \in 0..n |-> IF k = 0 THEN [ok |-> TRUE, book |-> Book, lines |-> lines, moves |-> << >>] ELSE EditsNext(f[k - 1], k, p, payload)]

\* The recursion over the items of an edit has a solution.
LEMMA EditsInTurnExist ==
    ASSUME NEW p, NEW payload
    PROVE  \A n \in Nat : \E f : AreEdits(f, p, payload, n)
<1> DEFINE T == {n \in Nat : \E f : AreEdits(f, p, payload, n)}
           first == [ok |-> TRUE, book |-> Book, lines |-> lines, moves |-> << >>]
           Next1(prev, k) == EditsNext(prev, k, p, payload)
<1>1. 0 \in T
  <2>1. AreEdits([k \in 0..0 |-> first], p, payload, 0)
    BY DEF AreEdits
  <2> QED
    BY <2>1
<1>2. ASSUME NEW n \in Nat, n \in T PROVE n + 1 \in T
  <2>1. PICK f : AreEdits(f, p, payload, n)
    BY <1>2
  <2>2. f = [k \in 0..n |-> IF k = 0 THEN first ELSE Next1(f[k - 1], k)]
    BY <2>1 DEF AreEdits
  <2> HIDE DEF first, Next1
  <2> DEFINE g == [k \in 0..(n + 1) |-> IF k = n + 1 THEN Next1(f[n], n + 1) ELSE f[k]]
  <2>3. \A k \in 0..n : f[k] = IF k = 0 THEN first ELSE Next1(f[k - 1], k)
    BY <2>2
  <2>4. \A k \in 0..(n + 1) : g[k] = IF k = 0 THEN first ELSE Next1(g[k - 1], k)
    BY <2>3
  <2>5. g = [k \in 0..(n + 1) |-> IF k = 0 THEN first ELSE Next1(g[k - 1], k)]
    BY <2>4
  <2> HIDE DEF g
  <2>6. AreEdits(g, p, payload, n + 1)
    BY <2>5 DEF AreEdits, first, Next1
  <2> QED
    BY <2>6
<1> HIDE DEF T
<1>3. \A n \in Nat : n \in T
  BY <1>1, <1>2, NatSetInduction
<1> QED
  BY <1>3 DEF T

\* So the function of the model satisfies its equation.
LEMMA EditsInTurnEquation ==
    ASSUME NEW p, NEW payload, Len(payload) \in Nat
    PROVE  \A k \in 0..Len(payload) :
              EditsInTurn(p, payload)[k] =
                 IF k = 0 THEN [ok |-> TRUE, book |-> Book, lines |-> lines, moves |-> << >>] ELSE EditsNext(EditsInTurn(p, payload)[k - 1], k, p, payload)
<1>1. \E f : f = [k \in 0..Len(payload) |-> IF k = 0 THEN [ok |-> TRUE, book |-> Book, lines |-> lines, moves |-> << >>] ELSE EditsNext(f[k - 1], k, p, payload)]
  <2>1. PICK f : AreEdits(f, p, payload, Len(payload))
    BY EditsInTurnExist
  <2> QED
    BY <2>1 DEF AreEdits
<1> DEFINE chain[n \in 0..Len(payload)] == IF n = 0 THEN [ok |-> TRUE, book |-> Book, lines |-> lines, moves |-> << >>] ELSE EditsNext(chain[n - 1], n, p, payload)
<1>2. chain = [n \in 0..Len(payload) |-> IF n = 0 THEN [ok |-> TRUE, book |-> Book, lines |-> lines, moves |-> << >>] ELSE EditsNext(chain[n - 1], n, p, payload)]
  BY <1>1
<1>3. EditsInTurn(p, payload) = chain
  BY DEF EditsInTurn, EditsNext
<1> HIDE DEF chain
<1> QED
  BY <1>2, <1>3

\* The edit after one more line.
RemovalsNext(prev, k, start, gone) ==
    IF k \in gone THEN RemoveLine(prev, k) ELSE prev

\* The recursion equation of RemovalsInTurn, up to n.
AreRemovals(f, start, gone, n) ==
    f = [k \in 0..n |-> IF k = 0 THEN start ELSE RemovalsNext(f[k - 1], k, start, gone)]

\* The recursion over the lines that go has a solution.
LEMMA RemovalsInTurnExist ==
    ASSUME NEW start, NEW gone
    PROVE  \A n \in Nat : \E f : AreRemovals(f, start, gone, n)
<1> DEFINE T == {n \in Nat : \E f : AreRemovals(f, start, gone, n)}
           first == start
           Next1(prev, k) == RemovalsNext(prev, k, start, gone)
<1>1. 0 \in T
  <2>1. AreRemovals([k \in 0..0 |-> first], start, gone, 0)
    BY DEF AreRemovals
  <2> QED
    BY <2>1
<1>2. ASSUME NEW n \in Nat, n \in T PROVE n + 1 \in T
  <2>1. PICK f : AreRemovals(f, start, gone, n)
    BY <1>2
  <2>2. f = [k \in 0..n |-> IF k = 0 THEN first ELSE Next1(f[k - 1], k)]
    BY <2>1 DEF AreRemovals
  <2> HIDE DEF first, Next1
  <2> DEFINE g == [k \in 0..(n + 1) |-> IF k = n + 1 THEN Next1(f[n], n + 1) ELSE f[k]]
  <2>3. \A k \in 0..n : f[k] = IF k = 0 THEN first ELSE Next1(f[k - 1], k)
    BY <2>2
  <2>4. \A k \in 0..(n + 1) : g[k] = IF k = 0 THEN first ELSE Next1(g[k - 1], k)
    BY <2>3
  <2>5. g = [k \in 0..(n + 1) |-> IF k = 0 THEN first ELSE Next1(g[k - 1], k)]
    BY <2>4
  <2> HIDE DEF g
  <2>6. AreRemovals(g, start, gone, n + 1)
    BY <2>5 DEF AreRemovals, first, Next1
  <2> QED
    BY <2>6
<1> HIDE DEF T
<1>3. \A n \in Nat : n \in T
  BY <1>1, <1>2, NatSetInduction
<1> QED
  BY <1>3 DEF T

\* So the function of the model satisfies its equation.
LEMMA RemovalsInTurnEquation ==
    ASSUME NEW start, NEW gone, Len(lines) \in Nat
    PROVE  \A k \in 0..Len(lines) :
              RemovalsInTurn(start, gone)[k] =
                 IF k = 0 THEN start ELSE RemovalsNext(RemovalsInTurn(start, gone)[k - 1], k, start, gone)
<1>1. \E f : f = [k \in 0..Len(lines) |-> IF k = 0 THEN start ELSE RemovalsNext(f[k - 1], k, start, gone)]
  <2>1. PICK f : AreRemovals(f, start, gone, Len(lines))
    BY RemovalsInTurnExist
  <2> QED
    BY <2>1 DEF AreRemovals
<1> DEFINE chain[n \in 0..Len(lines)] == IF n = 0 THEN start ELSE RemovalsNext(chain[n - 1], n, start, gone)
<1>2. chain = [n \in 0..Len(lines) |-> IF n = 0 THEN start ELSE RemovalsNext(chain[n - 1], n, start, gone)]
  BY <1>1
<1>3. RemovalsInTurn(start, gone) = chain
  BY DEF RemovalsInTurn, RemovalsNext
<1> HIDE DEF chain
<1> QED
  BY <1>2, <1>3

\* A line the request adds.
LEMMA AddGood ==
    ASSUME NEW edit, edit.ok, NEW p, p \in 1..Len(purchases), ~purchases[p].is_deleted,
           NEW L, Editing(edit, p, L), NEW terms \in LineTerms
    PROVE  Editing(AddLine(edit, p, terms), p, L)
<1>1. IsEdit(edit) /\ EditGood(edit) /\ Open(edit, p, L)
  BY DEF Editing
<1>2. PICK lns, rows, moves, all, at :
         /\ lns = edit.lines /\ rows = edit.book.ledger /\ moves = edit.moves
         /\ all = rows \o moves /\ at = purchases[p].location
  OBVIOUS
<1>3. /\ rows \in Seq(Rows) /\ moves \in Seq(Rows) /\ all \in Seq(Rows)
      /\ Good(all, purchases, lns, collections, refunds) /\ Sound(edit.book)
  BY <1>1, <1>2, ConcatParts DEF EditGood, Sound
<1>4. TablesTyped(purchases, lns, collections, refunds)
  BY <1>3 DEF Good, TablesFit
<1>5. PICK n \in Nat, m \in Nat : n = Len(purchases) /\ m = Len(lns)
  BY <1>4, TableTypes
<1>6. lns \in Seq(LineRecords(n)) /\ p \in 1..n /\ at \in Locations
  <2>1. purchases \in Seq(PurchaseRecords) /\ lns \in Seq(LineRecords(n))
    BY <1>4, <1>5 DEF TablesTyped
  <2>2. purchases[p] \in PurchaseRecords
    BY <2>1
  <2> QED
    BY <1>2, <1>5, <2>1, <2>2 DEF PurchaseRecords
<1>7. PICK l, line : l = m + 1 /\ line = NewLine(p, terms)
  OBVIOUS
<1>8. /\ line \in LineRecords(n) /\ line.purchase = p /\ ~line.is_deleted
      /\ TotalValue(line) \in Nat
  <2>1. line \in LineRecords(n) /\ line.purchase = p /\ ~line.is_deleted
    BY <1>6, <1>7 DEF NewLine, LineTerms, LineRecords
  <2> QED
    BY <2>1, TotalNatural
<1>9. PICK v \in Nat : v = TotalValue(line)
  BY <1>8
<1>10. PICK row : row = EntryMove(p, at, l, line, line.quantity, v)
  OBVIOUS
<1>11. row \in Rows /\ EntryRow(row, line, l, at)
  <2>1. l \in Nat /\ p \in Nat
    BY <1>5, <1>6, <1>7
  <2>2. line.quantity \in Int /\ line.product \in Products
    BY <1>8, LineTypes
  <2> QED
    BY <1>6, <1>8, <1>9, <1>10, <2>1, <2>2 DEF EntryMove, LineMove, Rows, SourceTypes, Buckets, EntryRow
<1>12. PICK new, entry : new = << line >> /\ entry = << row >>
  OBVIOUS
<1>13. /\ new \in Seq(LineRecords(n)) /\ Len(new) = 1 /\ new[1] = line
       /\ entry \in Seq(Rows) /\ Len(entry) = 1 /\ entry[1] = row
  BY <1>8, <1>11, <1>12
<1>14. Good(all \o entry, purchases, lns \o new, collections, refunds)
  <2>1. \A i \in 1..Len(new) : new[i].purchase = p /\ ~new[i].is_deleted
    BY <1>8, <1>13
  <2>2. \A i \in 1..Len(new) : EntryRow(entry[i], new[i], Len(lns) + i, purchases[p].location)
    BY <1>2, <1>5, <1>7, <1>11, <1>13
  <2>3. Len(entry) = Len(new) /\ p \in 1..Len(purchases) /\ new \in Seq(LineRecords(Len(purchases)))
    BY <1>5, <1>6, <1>13
  <2> QED
    BY <1>3, <1>13, <2>1, <2>2, <2>3, LinesAdded
<1>15. PICK mns, out : mns = lns \o new /\ out = moves \o entry
  OBVIOUS
<1>16. /\ Append(lns, line) = mns /\ Append(moves, row) = out
       /\ out \in Seq(Rows) /\ all \o entry = rows \o out
  <2>1. Append(lns, line) = lns \o << line >>
    BY <1>6, <1>8
  <2>2. Append(moves, row) = moves \o << row >>
    BY <1>3, <1>11
  <2>3. out \in Seq(Rows)
    BY <1>3, <1>13, <1>15, ConcatParts
  <2>4. (rows \o moves) \o entry = rows \o (moves \o entry)
    BY <1>3, <1>13
  <2> QED
    BY <1>2, <1>12, <1>15, <2>1, <2>2, <2>3, <2>4
<1>17. PICK next : next = [ok |-> edit.ok, book |-> edit.book, lines |-> mns, moves |-> out]
  OBVIOUS
<1>18. AddLine(edit, p, terms) = next
  <2>1. AddLine(edit, p, terms) = [edit EXCEPT !.lines = Append(edit.lines, line),
                                              !.moves = Append(edit.moves, row)]
    BY <1>2, <1>5, <1>7, <1>9, <1>10 DEF AddLine
  <2>2. AddLine(edit, p, terms) = [edit EXCEPT !.lines = mns, !.moves = out]
    BY <1>2, <1>16, <2>1
  <2> QED
    BY <1>1, <1>17, <2>2 DEF IsEdit
<1>19. EditGood(next)
  BY <1>2, <1>3, <1>14, <1>15, <1>16, <1>17 DEF EditGood
<1>20. Open(next, p, L)
  <2>1. /\ Len(mns) = m + 1 /\ \A k \in 1..m : mns[k] = lns[k]
    <3>1. /\ Len(lns \o new) = Len(lns) + Len(new)
          /\ \A k \in 1..Len(lns) : (lns \o new)[k] = lns[k]
      BY <1>6, <1>13, ConcatParts
    <3> QED
      BY <1>5, <1>13, <1>15, <3>1
  <2>2. /\ Len(out) = Len(moves) + 1 /\ Len(moves) \in Nat
        /\ \A i \in 1..Len(moves) : out[i] = moves[i]
        /\ out[Len(moves) + 1] = row
    <3>1. /\ Len(moves \o entry) = Len(moves) + Len(entry)
          /\ \A k \in 1..Len(moves) : (moves \o entry)[k] = moves[k]
          /\ \A k \in 1..Len(entry) : (moves \o entry)[Len(moves) + k] = entry[k]
      <4>1. moves \in Seq(Rows) /\ entry \in Seq(Rows)
        BY <1>3, <1>13
      <4> QED
        BY <4>1, ConcatParts
    <3>2. 1 \in 1..Len(entry)
      BY <1>13
    <3>3. (moves \o entry)[Len(moves) + 1] = row
      BY <1>13, <3>1, <3>2
    <3> QED
      BY <1>3, <1>13, <1>15, <3>1, <3>3
  <2>3. ASSUME NEW k \in L
        PROVE  /\ k \in 1..Len(mns) /\ mns[k].purchase = p /\ ~mns[k].is_deleted
               /\ k # l
    <3>1. k \in 1..m /\ lns[k].purchase = p /\ ~lns[k].is_deleted
      BY <1>1, <1>2, <1>5 DEF Open
    <3> QED
      BY <1>5, <1>7, <2>1, <3>1
  <2>4. ASSUME NEW k \in L, NEW i \in 1..Len(out) PROVE out[i].line # k
    <3>1. CASE i \in 1..Len(moves)
      <4>1. moves[i].line # k
        BY <1>1, <1>2, <3>1 DEF Open
      <4> QED
        BY <2>2, <3>1, <4>1
    <3>2. CASE i \notin 1..Len(moves)
      <4>1. i = Len(moves) + 1
        BY <2>2, <3>2
      <4>2. out[i] = row
        BY <1>13, <2>2, <4>1
      <4>3. row.line = l
        BY <1>11 DEF EntryRow
      <4> QED
        BY <2>3, <4>2, <4>3
    <3> QED
      BY <3>1, <3>2
  <2> QED
    BY <1>17, <2>3, <2>4 DEF Open
<1>21. IsEdit(next)
  <2>1. edit.ok \in BOOLEAN
    BY <1>1 DEF IsEdit
  <2> QED
    BY <1>17, <2>1 DEF IsEdit
<1> QED
  BY <1>18, <1>19, <1>20, <1>21 DEF Editing

\* Lines that are deleted stay where they are, and deleted; a line of which something
\* is refunded is not deleted.
DeadStay(edit) ==
    /\ Len(edit.lines) \in Nat /\ Len(edit.lines) >= Len(lines)
    /\ \A l \in 1..Len(lines) : lines[l].is_deleted => edit.lines[l].is_deleted
    /\ \A l \in 1..Len(lines) :
          edit.lines[l].is_deleted => lines[l].is_deleted \/ RefundedQty(l) = 0

\* Changing a line that is not deleted leaves the deleted ones as they are.
LEMMA DeadStayOnly ==
    ASSUME NEW edit, DeadStay(edit), NEW l, ~edit.lines[l].is_deleted,
           NEW next, OnlyLine(purchases, edit.lines, next.lines, l), Len(lines) \in Nat,
           next.lines[l].is_deleted => RefundedQty(l) = 0
    PROVE  DeadStay(next)
BY DEF DeadStay, OnlyLine

\* One item of the request.
LEMMA EditItemGood ==
    ASSUME NEW edit, NEW p, p \in 1..Len(purchases), ~purchases[p].is_deleted,
           NEW L, Editing(edit, p, L), edit.ok => DeadStay(edit),
           NEW kept, 0 \notin kept, NEW item, item.terms \in LineTerms, item.id \in kept => item.id \in L,
           NEW next, next = EditItem(edit, p, kept, item), Len(lines) \in Nat
    PROVE  Editing(next, p, L \ {item.id}) /\ (next.ok => DeadStay(next))
<1>1. IsEdit(edit)
  BY DEF Editing
<1>2. CASE ~edit.ok
  <2>1. next = edit
    BY <1>2 DEF EditItem
  <2> QED
    BY <1>2, <2>1, EditingLess
<1>3. CASE edit.ok /\ item.id = 0
  <2>1. next = AddLine(edit, p, item.terms)
    BY <1>3 DEF EditItem
  <2>2. Editing(next, p, L)
    BY <1>3, <2>1, AddGood
  <2>3. DeadStay(next)
    <3>1. PICK lns, line : lns = edit.lines /\ line = NewLine(p, item.terms)
      OBVIOUS
    <3>2. next.lines = Append(lns, line)
      <4>1. next.lines = Append(edit.lines, line)
        BY <1>1, <2>1, <3>1 DEF AddLine, IsEdit
      <4> QED
        BY <3>1, <4>1
    <3>3. lns \in Seq(LineRecords(Len(purchases)))
      BY <1>3, <3>1 DEF Editing, EditGood, Good, TablesFit, TablesTyped
    <3>4. PICK mns : mns = next.lines
      OBVIOUS
    <3>5. Len(mns) = Len(lns) + 1 /\ \A k \in 1..Len(lns) : mns[k] = lns[k]
      BY <3>2, <3>3, <3>4, AppendProperties
    <3>6. /\ Len(lns) \in Nat /\ Len(lns) >= Len(lines)
          /\ \A l \in 1..Len(lines) : lines[l].is_deleted => lns[l].is_deleted
          /\ \A l \in 1..Len(lines) : lns[l].is_deleted => lines[l].is_deleted \/ RefundedQty(l) = 0
      BY <1>3, <3>1 DEF DeadStay
    <3>7. \A l \in 1..Len(lines) : l \in 1..Len(lns)
      BY <3>6
    <3>8. \A l \in 1..Len(lines) :
             /\ lines[l].is_deleted => mns[l].is_deleted
             /\ mns[l].is_deleted => lines[l].is_deleted \/ RefundedQty(l) = 0
      BY <3>5, <3>6, <3>7
    <3>9. Len(mns) \in Nat /\ Len(mns) >= Len(lines)
      BY <3>5, <3>6
    <3> QED
      BY <3>4, <3>8, <3>9 DEF DeadStay
  <2> QED
    BY <2>2, <2>3, EditingLess
<1>4. CASE edit.ok /\ item.id # 0 /\ item.id \in kept
  <2>1. next = RepriceLine(edit, item.id, item.terms)
    BY <1>4 DEF EditItem
  <2>2. PICK l \in L : l = item.id
    BY <1>4
  <2>3. PICK terms \in LineTerms : terms = item.terms
    OBVIOUS
  <2>4. Editing(next, p, L \ {l})
    BY <1>4, <2>1, <2>2, <2>3, RepriceGood
  <2>5. ASSUME next.ok PROVE DeadStay(next)
    <3>1. EditGood(edit) /\ Open(edit, p, L)
      BY <1>4 DEF Editing
    <3>2. PICK lns, mns : lns = edit.lines /\ mns = AtTerms(lns, l, terms)
      OBVIOUS
    <3>3. /\ l \in 1..Len(lns) /\ ~lns[l].is_deleted
          /\ lns \in Seq(LineRecords(Len(purchases)))
      BY <3>1, <3>2, LineFacts
    <3>4. OnlyLine(purchases, lns, mns, l)
      BY <3>2, <3>3, AtTermsFacts
    <3>5. next.lines = edit.lines \/ next.lines = mns
      <4>1. next = RepriceLine(edit, l, terms)
        BY <2>1, <2>2, <2>3
      <4> QED
        BY <1>1, <3>2, <4>1 DEF RepriceLine, IsEdit, Refuse, AtTerms, NewTerms
    <3>6. CASE next.lines = edit.lines
      BY <1>4, <3>6 DEF DeadStay
    <3>7. CASE next.lines = mns
      <4>1. ~mns[l].is_deleted
        BY <3>2, <3>3 DEF AtTerms, NewTerms
      <4> QED
        BY <1>4, <3>2, <3>3, <3>4, <3>7, <4>1, DeadStayOnly
    <3> QED
      BY <3>5, <3>6, <3>7
  <2> QED
    BY <2>2, <2>4, <2>5
<1>5. CASE edit.ok /\ item.id # 0 /\ item.id \notin kept
  <2>1. next = Refuse(edit)
    BY <1>5 DEF EditItem
  <2>2. ~next.ok
    BY <1>1, <2>1 DEF Refuse, IsEdit
  <2> QED
    BY <1>1, <2>1, <2>2, Refused
<1> QED
  BY <1>1, <1>2, <1>3, <1>4, <1>5 DEF IsEdit

\* The invariant of an edit under way.
Under(edit, p, L) == Editing(edit, p, L) /\ (edit.ok => DeadStay(edit))

\* The same for the whole invariant of the edit.
LEMMA UnderLess ==
    ASSUME NEW edit, NEW p, NEW L, Under(edit, p, L), NEW M, M \subseteq L
    PROVE  Under(edit, p, M)
BY EditingLess DEF Under

\* Lines of the request up to item n.
Named(payload, n) == {payload[i].id : i \in 1..n}

\* No line is named twice.
NamedOnce(payload) ==
    \A i, j \in 1..Len(payload) : payload[i].id = payload[j].id /\ payload[i].id # 0 => i = j

\* An edit begins with the state as it is.
LEMMA EditStart ==
    ASSUME Inv, NEW p
    PROVE  Under([ok |-> TRUE, book |-> Book, lines |-> lines, moves |-> << >>], p, LinesOf(lines, p))
<1>1. PICK edit : edit = [ok |-> TRUE, book |-> Book, lines |-> lines, moves |-> << >>]
  OBVIOUS
<1>2. Sound(Book) /\ Good(ledger, purchases, lines, collections, refunds)
  BY DEF Inv
<1>3. ledger \in Seq(Rows) /\ ledger \o << >> = ledger /\ << >> \in Seq(Rows) /\ Len(<< >>) = 0
  BY <1>2 DEF Good
<1>4. TablesTyped(purchases, lines, collections, refunds)
  BY <1>2 DEF Good, TablesFit
<1>5. Len(lines) \in Nat /\ DOMAIN lines = 1..Len(lines)
  BY <1>4, TableTypes DEF TablesTyped
<1>6. edit.book.ledger = ledger /\ edit.lines = lines /\ edit.moves = << >> /\ edit.book = Book
  BY <1>1 DEF Book
<1>7. IsEdit(edit)
  BY <1>1 DEF IsEdit
<1>8. EditGood(edit)
  BY <1>2, <1>3, <1>6 DEF EditGood
<1>9. Open(edit, p, LinesOf(lines, p))
  <2>1. \A l \in LinesOf(lines, p) : l \in 1..Len(lines) /\ lines[l].purchase = p /\ ~lines[l].is_deleted
    BY <1>5 DEF LinesOf
  <2> QED
    BY <1>3, <1>6, <2>1 DEF Open
<1>10. DeadStay(edit)
  BY <1>5, <1>6 DEF DeadStay
<1> QED
  BY <1>1, <1>7, <1>8, <1>9, <1>10 DEF Under, Editing

\* All items of the request are worked through.
LEMMA EditsGood ==
    ASSUME Inv, NEW p, p \in 1..Len(purchases), ~purchases[p].is_deleted,
           NEW payload, Len(payload) \in Nat,
           \A i \in 1..Len(payload) : payload[i].terms \in LineTerms,
           NamedOnce(payload)
    PROVE  Under(EditsInTurn(p, payload)[Len(payload)], p,
                 LinesOf(lines, p) \ Named(payload, Len(payload)))
<1> DEFINE f == EditsInTurn(p, payload)
           kept == LinesOf(lines, p)
           first == [ok |-> TRUE, book |-> Book, lines |-> lines, moves |-> << >>]
           T == {n \in Nat : n <= Len(payload) => Under(f[n], p, kept \ Named(payload, n))}
<1>1. \A k \in 0..Len(payload) :
         f[k] = IF k = 0 THEN first ELSE EditsNext(f[k - 1], k, p, payload)
  BY EditsInTurnEquation
<1>2. Under(first, p, kept)
  BY EditStart
<1>a. TablesTyped(purchases, lines, collections, refunds)
  BY DEF Inv, Good, TablesFit
<1>b. Len(lines) \in Nat /\ DOMAIN lines = 1..Len(lines)
  BY <1>a, TableTypes DEF TablesTyped
<1>c. 0 \notin kept
  BY <1>b DEF LinesOf
<1>d. \A n \in 1..Len(payload) : EditsNext(f[n - 1], n, p, payload) = EditItem(f[n - 1], p, kept, payload[n])
  BY DEF EditsNext
<1> HIDE DEF f, kept, first
<1>3. 0 \in T
  <2>1. 0 \in 0..Len(payload)
    OBVIOUS
  <2>2. f[0] = first
    BY <1>1, <2>1
  <2>3. kept \ Named(payload, 0) \subseteq kept
    OBVIOUS
  <2>4. Under(f[0], p, kept \ Named(payload, 0))
    BY <1>2, <2>2, <2>3, UnderLess
  <2> QED
    BY <2>4
<1>4. ASSUME NEW n \in Nat, n \in T PROVE n + 1 \in T
  <2>1. SUFFICES ASSUME n + 1 <= Len(payload)
                 PROVE  Under(f[n + 1], p, kept \ Named(payload, n + 1))
    OBVIOUS
  <2>2. Under(f[n], p, kept \ Named(payload, n))
    BY <1>4, <2>1
  <2>3. n + 1 \in 1..Len(payload) /\ n + 1 \in 0..Len(payload) /\ (n + 1) - 1 = n /\ n + 1 # 0
    BY <2>1
  <2>4. f[n + 1] = EditItem(f[n], p, kept, payload[n + 1])
    BY <1>1, <1>d, <2>3
  <2>5. PICK item, edit, next : item = payload[n + 1] /\ edit = f[n] /\ next = f[n + 1]
    OBVIOUS
  <2>6. item.terms \in LineTerms
    BY <2>3, <2>5
  <2>7. PICK L : L = kept \ Named(payload, n)
    OBVIOUS
  <2>8. ASSUME item.id \in kept PROVE item.id \in L
    <3>1. item.id # 0
      BY <1>c, <2>8
    <3>2. ASSUME NEW i \in 1..n PROVE payload[i].id # item.id
      <4>1. i \in 1..Len(payload) /\ i # n + 1
        BY <2>3
      <4> QED
        BY <2>3, <2>5, <3>1, <4>1 DEF NamedOnce
    <3> QED
      BY <2>7, <2>8, <3>2 DEF Named
  <2>9. Editing(next, p, L \ {item.id}) /\ (next.ok => DeadStay(next))
    <3>1. Editing(edit, p, L) /\ (edit.ok => DeadStay(edit))
      BY <2>2, <2>5, <2>7 DEF Under
    <3>2. next = EditItem(edit, p, kept, item)
      BY <2>4, <2>5
    <3> QED
      BY <1>b, <1>c, <2>6, <2>8, <3>1, <3>2, EditItemGood
  <2>10. kept \ Named(payload, n + 1) \subseteq L \ {item.id}
    <3>1. Named(payload, n) \subseteq Named(payload, n + 1)
      BY DEF Named
    <3>2. item.id \in Named(payload, n + 1)
      <4>1. n + 1 \in 1..(n + 1)
        OBVIOUS
      <4> QED
        BY <2>5, <4>1 DEF Named
    <3> QED
      BY <2>7, <3>1, <3>2
  <2>11. Under(next, p, L \ {item.id})
    BY <2>9 DEF Under
  <2> QED
    BY <2>5, <2>10, <2>11, UnderLess
<1> HIDE DEF T
<1>5. \A n \in Nat : n \in T
  BY <1>3, <1>4, NatSetInduction
<1>6. Len(payload) \in T
  BY <1>5
<1>7. Under(f[Len(payload)], p, kept \ Named(payload, Len(payload)))
  <2>1. PICK n \in Nat : n = Len(payload)
    OBVIOUS
  <2>2. n \in T /\ n <= Len(payload)
    BY <1>6, <2>1
  <2>3. Under(f[n], p, kept \ Named(payload, n))
    BY <2>2 DEF T
  <2> QED
    BY <2>1, <2>3
<1> QED
  BY <1>7 DEF f, kept

\* What the models count of a line are numbers of units.
LEMMA CountTypes ==
    ASSUME NEW ps, NEW lns, TablesTyped(ps, lns, collections, refunds), NEW l
    PROVE  /\ CollectedQty(l) \in Nat
           /\ CancelledPendingQty(l) \in Nat /\ RefundSum(l, "RECEIVED") \in Nat
           /\ RefundedQty(l) \in Nat
<1>1. /\ refunds \in Seq(RefundRecords(Len(ps), Len(lns)))
      /\ collections \in Seq(CollectionRecords(Len(ps), Len(lns)))
  BY DEF TablesTyped
<1>2. /\ CollectedQty(l) \in Nat
      /\ CancelledPendingQty(l) \in Nat /\ RefundSum(l, "RECEIVED") \in Nat
  BY <1>1, RecordsSay, AmountTypes
<1> QED
  BY <1>2 DEF RefundedQty

\* One line less.
LEMMA RemoveUnder ==
    ASSUME NEW edit, NEW p, p \in 1..Len(purchases), ~purchases[p].is_deleted,
           NEW L, Under(edit, p, L), NEW l \in L, Len(lines) \in Nat
    PROVE  Under(RemoveLine(edit, l), p, L \ {l})
<1>1. PICK next : next = RemoveLine(edit, l)
  OBVIOUS
<1>2. Editing(edit, p, L) /\ (edit.ok => DeadStay(edit))
  BY DEF Under
<1>3. Editing(next, p, L \ {l})
  BY <1>1, <1>2, RemoveGood
<1>4. IsEdit(edit)
  BY <1>2 DEF Editing
<1>5. CASE edit.ok
  <2>1. EditGood(edit) /\ Open(edit, p, L)
    BY <1>2, <1>5 DEF Editing
  <2>2. PICK lns, gone : lns = edit.lines /\ gone = GoneLine(lns, l)
    OBVIOUS
  <2>3. /\ l \in 1..Len(lns) /\ ~lns[l].is_deleted
        /\ lns \in Seq(LineRecords(Len(purchases)))
    BY <2>1, <2>2, LineFacts
  <2>4. OnlyLine(purchases, lns, gone, l)
    BY <2>2, <2>3, GoneLineFacts
  <2>5. next.lines = edit.lines \/ next.lines = gone
    BY <1>1, <1>4, <2>2 DEF RemoveLine, IsEdit, Refuse, GoneLine
  <2>6. CASE next.lines = edit.lines
    <3>1. DeadStay(next)
      BY <1>2, <1>5, <2>6 DEF DeadStay
    <3> QED
      BY <1>1, <1>3, <3>1 DEF Under
  <2>7. CASE next.lines = gone
    <3>1. ASSUME next.ok PROVE DeadStay(next)
      <4>1. TablesTyped(purchases, edit.lines, collections, refunds)
        BY <2>1 DEF EditGood, Good, TablesFit
      <4>2. PICK c \in Nat, r \in Nat : c = CollectedQty(l) /\ r = RefundedQty(l)
        BY <4>1, CountTypes
      <4>3. CASE c > 0
        <5>1. PICK back, may : /\ back = ReverseLine(edit.book, edit.lines[l].purchase, l)
                               /\ may = MayCorrect(edit.book, edit.lines, l)
          OBVIOUS
        <5>2. next = [edit EXCEPT !.ok = may /\ back.ok, !.book = back.book, !.lines = gone]
          BY <1>1, <1>5, <2>2, <4>2, <4>3, <5>1 DEF RemoveLine, GoneLine
        <5>3. next.ok = (may /\ back.ok)
          BY <1>4, <5>2 DEF IsEdit
        <5>4. may
          BY <3>1, <5>3
        <5> QED
          BY <1>2, <1>5, <2>2, <2>3, <2>4, <2>7, <5>1, <5>4, DeadStayOnly DEF MayCorrect
      <4>4. CASE c = 0 /\ r > 0
        <5>1. next = Refuse(edit)
          BY <1>1, <1>5, <4>2, <4>4 DEF RemoveLine
        <5> QED
          BY <1>4, <3>1, <5>1 DEF Refuse, IsEdit
      <4>5. CASE c = 0 /\ r = 0
        BY <1>2, <1>5, <2>2, <2>3, <2>4, <2>7, <4>2, <4>5, DeadStayOnly
      <4> QED
        BY <4>2, <4>3, <4>4, <4>5
    <3> QED
      BY <1>1, <1>3, <3>1 DEF Under
  <2> QED
    BY <2>5, <2>6, <2>7
<1>6. CASE ~edit.ok
  <2>1. next = edit
    BY <1>1, <1>6 DEF RemoveLine
  <2> QED
    BY <1>1, <1>3, <1>6, <2>1 DEF Under
<1> QED
  BY <1>5, <1>6

\* All lines the request does not name are removed.
LEMMA RemovalsGood ==
    ASSUME NEW start, NEW gone, NEW p, p \in 1..Len(purchases), ~purchases[p].is_deleted,
           Under(start, p, gone), Len(lines) \in Nat
    PROVE  Under(RemovalsInTurn(start, gone)[Len(lines)], p, gone \ 1..Len(lines))
<1> DEFINE f == RemovalsInTurn(start, gone)
           T == {n \in Nat : n <= Len(lines) => Under(f[n], p, gone \ 1..n)}
<1>1. \A k \in 0..Len(lines) :
         f[k] = IF k = 0 THEN start ELSE RemovalsNext(f[k - 1], k, start, gone)
  BY RemovalsInTurnEquation
<1> HIDE DEF f
<1>2. 0 \in T
  <2>1. 0 \in 0..Len(lines)
    OBVIOUS
  <2>2. f[0] = start
    BY <1>1, <2>1
  <2>3. Under(f[0], p, gone \ 1..0)
    BY <2>2, UnderLess
  <2> QED
    BY <2>3
<1>3. ASSUME NEW n \in Nat, n \in T PROVE n + 1 \in T
  <2>1. SUFFICES ASSUME n + 1 <= Len(lines) PROVE Under(f[n + 1], p, gone \ 1..(n + 1))
    OBVIOUS
  <2>2. PICK edit, next, L : edit = f[n] /\ next = f[n + 1] /\ L = gone \ 1..n
    OBVIOUS
  <2>3. Under(edit, p, L)
    BY <1>3, <2>1, <2>2
  <2>4. next = RemovalsNext(edit, n + 1, start, gone)
    <3>1. n + 1 \in 0..Len(lines) /\ n + 1 # 0 /\ (n + 1) - 1 = n
      BY <2>1
    <3> QED
      BY <1>1, <2>2, <3>1
  <2>5. gone \ 1..(n + 1) = L \ {n + 1}
    <3>1. 1..(n + 1) = 1..n \union {n + 1}
      OBVIOUS
    <3> QED
      BY <2>2, <3>1
  <2>6. CASE n + 1 \in gone
    <3>1. n + 1 \in L
      BY <2>2, <2>6
    <3>2. next = RemoveLine(edit, n + 1)
      BY <2>4, <2>6 DEF RemovalsNext
    <3>3. Under(RemoveLine(edit, n + 1), p, L \ {n + 1})
      BY <2>3, <3>1, RemoveUnder
    <3> QED
      BY <2>2, <2>5, <3>2, <3>3
  <2>7. CASE n + 1 \notin gone
    <3>1. next = edit
      BY <2>4, <2>7 DEF RemovalsNext
    <3>2. Under(edit, p, L \ {n + 1})
      BY <2>3, UnderLess
    <3> QED
      BY <2>2, <2>5, <3>1, <3>2
  <2> QED
    BY <2>6, <2>7
<1> HIDE DEF T
<1>4. \A n \in Nat : n \in T
  BY <1>2, <1>3, NatSetInduction
<1>5. Under(f[Len(lines)], p, gone \ 1..Len(lines))
  <2>1. PICK n \in Nat : n = Len(lines)
    OBVIOUS
  <2>2. n \in T /\ n <= Len(lines)
    BY <1>4, <2>1
  <2>3. Under(f[n], p, gone \ 1..n)
    BY <2>2 DEF T
  <2> QED
    BY <2>1, <2>3
<1> QED
  BY <1>5 DEF f

\* What the saved edit leaves.
LEMMA UpdateStep ==
    ASSUME Inv, Update
    PROVE  /\ Inv'
           /\ \A l \in 1..Len(lines) : lines[l].is_deleted => lines'[l].is_deleted
           /\ \A l \in 1..Len(lines) :
                 lines'[l].is_deleted => lines[l].is_deleted \/ RefundedQty(l) = 0
           /\ UNCHANGED <<purchases, collections, refunds>>
           /\ Len(lines') >= Len(lines)
<1>1. PICK p \in DOMAIN purchases, payload \in Requests(EditItems) : UpdatePurchase(p, payload)
  BY DEF Update
<1>2. TablesTyped(purchases, lines, collections, refunds) /\ drafts \subseteq Products \X Locations
  BY DEF Inv, Good, TablesFit
<1>3. /\ Len(lines) \in Nat /\ DOMAIN purchases = 1..Len(purchases) /\ p \in 1..Len(purchases)
      /\ DOMAIN lines = 1..Len(lines)
  BY <1>2, TableTypes DEF TablesTyped
<1>4. payload \in Seq(EditItems) /\ DOMAIN payload = 1..Len(payload) /\ Len(payload) \in Nat
  BY RequestLists
<1>5. PICK edited : edited = EditsInTurn(p, payload)[Len(payload)]
  OBVIOUS
<1>6. PICK gone : gone = LinesOf(lines, p) \ {payload[i].id : i \in DOMAIN payload}
  OBVIOUS
<1>7. PICK final : final = RemovalsInTurn(edited, gone)[Len(lines)]
  OBVIOUS
<1>8. /\ ~purchases[p].is_deleted
      /\ \A i, j \in DOMAIN payload : payload[i].id = payload[j].id /\ payload[i].id # 0 => i = j
      /\ CommitEdit(final)
      /\ UNCHANGED <<purchases, collections, refunds, drafts>>
  BY <1>1, <1>5, <1>6, <1>7 DEF UpdatePurchase
<1>9. Under(edited, p, gone)
  <2>1. NamedOnce(payload)
    BY <1>4, <1>8 DEF NamedOnce
  <2>2. \A i \in 1..Len(payload) : payload[i].terms \in LineTerms
    <3>1. ASSUME NEW i \in 1..Len(payload) PROVE payload[i].terms \in LineTerms
      <4>1. PICK item \in EditItems : item = payload[i]
        BY <1>4
      <4> QED
        BY <4>1 DEF EditItems
    <3> QED
      BY <3>1
  <2>3. gone = LinesOf(lines, p) \ Named(payload, Len(payload))
    BY <1>4, <1>6 DEF Named
  <2> QED
    BY <1>3, <1>4, <1>5, <1>8, <2>1, <2>2, <2>3, EditsGood
<1>10. Under(final, p, gone \ 1..Len(lines))
  BY <1>3, <1>7, <1>8, <1>9, RemovalsGood
<1>11. /\ final.ok /\ lines' = final.lines
       /\ IF final.moves = << >> THEN Install(final.book)
          ELSE CanPost(final.book, final.moves, FALSE) /\ Install(Posted(final.book, final.moves))
  BY <1>8 DEF CommitEdit
<1>12. EditGood(final) /\ DeadStay(final)
  BY <1>10, <1>11 DEF Under, Editing
<1>13. PICK book, moves : book = final.book /\ moves = final.moves
  OBVIOUS
<1>14. /\ Sound(book) /\ moves \in Seq(Rows)
       /\ Good(book.ledger \o moves, purchases, final.lines, collections, refunds)
  BY <1>12, <1>13 DEF EditGood
<1>15. Sound(Book)' /\ ledger' = book.ledger \o moves
  <2>1. CASE moves = << >>
    <3>1. ledger' = book.ledger /\ balance' = book.balance
      BY <1>11, <1>13, <2>1 DEF Install
    <3>2. book.ledger \in Seq(Rows)
      BY <1>14 DEF Sound
    <3>3. Sound([ledger |-> ledger', balance |-> balance'])
      BY <1>14, <3>1 DEF Sound
    <3> QED
      BY <2>1, <3>1, <3>2, <3>3 DEF Book
  <2>2. CASE moves # << >>
    <3>1. PICK then : then = Posted(book, moves)
      OBVIOUS
    <3>2. Sound(then) /\ then.ledger = book.ledger \o moves
      <4>1. Sound(Posted(book, moves))
        BY <1>14, PostedSound
      <4> QED
        BY <3>1, <4>1 DEF Posted
    <3>3. ledger' = then.ledger /\ balance' = then.balance
      BY <1>11, <1>13, <2>2, <3>1 DEF Install
    <3>4. Sound([ledger |-> ledger', balance |-> balance'])
      BY <3>2, <3>3 DEF Sound
    <3> QED
      BY <3>2, <3>3, <3>4 DEF Book
  <2> QED
    BY <2>1, <2>2
<1>16. Good(ledger', purchases', lines', collections', refunds')
  BY <1>8, <1>11, <1>14, <1>15
<1>17. Inv'
  BY <1>2, <1>8, <1>15, <1>16 DEF Inv
<1> QED
  BY <1>8, <1>11, <1>12, <1>17 DEF DeadStay

-----------------------------------------------------------------------------
(* The invariant *)

\* The invariant holds in an empty shop.
LEMMA InitInv == Init => Inv
<1>1. SUFFICES ASSUME Init PROVE Inv
  OBVIOUS
<1>2. /\ Sound(Book) /\ ledger = << >> /\ purchases = << >> /\ lines = << >>
      /\ collections = << >> /\ refunds = << >> /\ drafts = {}
  BY <1>1, InitSound DEF Init, LedgerInit
<1>3. /\ \A X : << >> \in Seq(X)
      /\ Len(<< >>) = 0 /\ \A k \in 1..0 : FALSE
  OBVIOUS
<1>4. TablesFit(<< >>, << >>, << >>, << >>)
  BY <1>3 DEF TablesFit, TablesTyped, NamesOwn, GoneWith
<1>5. Good(<< >>, << >>, << >>, << >>, << >>)
  BY <1>3, <1>4 DEF Good, RowsFit, LinesGood
<1> QED
  BY <1>2, <1>5 DEF Inv

\* The other apps post whatever they like, but never in PENDING, where only purchases
\* have stock, nor in the name of a purchase, its collections or its refunds; shipments
\* open and close drafts.
OthersPost ==
    /\ \/ \E moves, confirm :
            /\ \A i \in 1..Len(moves) : /\ moves[i].stype \notin PurchaseSources
                                       /\ moves[i].bucket # "PENDING"
            /\ Post(moves, confirm)
       \/ UNCHANGED <<ledger, balance>>
    /\ UNCHANGED <<purchases, lines, collections, refunds>>
    /\ drafts' \subseteq Products \X Locations

\* Purchases among other apps.
OpenSpec == Init /\ [][Next \/ OthersPost]_vars

\* What the others post makes no difference to any line.
LEMMA OthersStep ==
    ASSUME Inv, OthersPost
    PROVE  Inv'
<1>1. /\ Sound(Book) /\ Good(ledger, purchases, lines, collections, refunds)
  BY DEF Inv
<1>2. /\ UNCHANGED <<purchases, lines, collections, refunds>>
      /\ drafts' \subseteq Products \X Locations
  BY DEF OthersPost
<1>3. CASE UNCHANGED <<ledger, balance>>
  <2>1. Sound(Book)'
    BY <1>1, <1>3 DEF Book, Sound
  <2>2. Good(ledger', purchases', lines', collections', refunds')
    BY <1>1, <1>2, <1>3
  <2> QED
    BY <1>2, <2>1, <2>2 DEF Inv
<1>4. ASSUME NEW moves, NEW confirm,
             \A i \in 1..Len(moves) : /\ moves[i].stype \notin PurchaseSources
                                       /\ moves[i].bucket # "PENDING",
             Post(moves, confirm)
      PROVE  Inv'
  <2>1. moves \in Seq(Rows) /\ ledger' = ledger \o moves /\ Sound(Book)'
    BY <1>4, PostStep
  <2>2. PICK all : all = ledger \o moves
    OBVIOUS
  <2>3. ledger \in Seq(Rows) /\ all \in Seq(Rows)
    BY <1>1, <2>1, <2>2, ConcatParts DEF Good
  <2>4. RowsFit(all, purchases, lines, collections, refunds)
    <3>1. RowsFit(moves, purchases, lines, collections, refunds)
      BY <1>4 DEF RowsFit, OwnRowFits, RowFits
    <3> QED
      BY <1>1, <2>1, <2>2, <2>3, <3>1, RowsFitMore DEF Good
  <2>5. ASSUME NEW l \in 1..Len(lines) PROVE LineGood(all, purchases, lines, collections, refunds, l)
    <3>1. \A i \in 1..Len(moves) : moves[i] \notin OnLine(l)
      BY <1>4 DEF OnLine
    <3>2. Nothing(moves, OnLine(l))
      BY <2>1, <3>1, NothingOutside
    <3>3. Alike(ledger, all, OnLine(l))
      BY <2>1, <2>2, <2>3, <3>2, MoreAlike
    <3>4. LineGood(ledger, purchases, lines, collections, refunds, l)
      BY <1>1 DEF Good, LinesGood
    <3> QED
      BY <3>3, <3>4, LineGoodAlike
  <2>6. Good(all, purchases, lines, collections, refunds)
    BY <1>1, <2>3, <2>4, <2>5 DEF Good, LinesGood
  <2>7. Good(ledger', purchases', lines', collections', refunds')
    BY <1>2, <2>1, <2>2, <2>6
  <2> QED
    BY <1>2, <2>1, <2>7 DEF Inv
<1> QED
  BY <1>3, <1>4 DEF OthersPost

\* Every service keeps the invariant, and so do the other apps.
LEMMA StepInv == Inv /\ [Next \/ OthersPost]_vars => Inv'
<1>1. SUFFICES ASSUME Inv, [Next \/ OthersPost]_vars PROVE Inv'
  OBVIOUS
<1>2. CASE Create
  BY <1>1, <1>2, CreateStep
<1>3. CASE CollectSome
  BY <1>1, <1>3, CollectStep
<1>4. CASE Refund
  BY <1>1, <1>4, RefundStep
<1>5. CASE Update
  BY <1>1, <1>5, UpdateStep
<1>6. CASE UndoCollection
  BY <1>1, <1>6, UndoCollectionStep
<1>7. CASE UndoRefund
  BY <1>1, <1>7, UndoRefundStep
<1>8. CASE Delete
  BY <1>1, <1>8, DeleteStep
<1>9. CASE OthersPost
  BY <1>1, <1>9, OthersStep
<1>10. CASE UNCHANGED vars
  <2>1. /\ Sound(Book) /\ drafts \subseteq Products \X Locations
        /\ Good(ledger, purchases, lines, collections, refunds)
    BY <1>1 DEF Inv
  <2>2. UNCHANGED <<ledger, balance, purchases, lines, collections, refunds, drafts>>
    BY <1>10 DEF vars, purchaseVars
  <2>3. Sound(Book)'
    BY <2>1, <2>2 DEF Book, Sound
  <2>4. Good(ledger', purchases', lines', collections', refunds')
    BY <2>1, <2>2
  <2> QED
    BY <2>1, <2>2, <2>3, <2>4 DEF Inv
<1> QED
  BY <1>1, <1>2, <1>3, <1>4, <1>5, <1>6, <1>7, <1>8, <1>9, <1>10 DEF Next

\* So it always holds.
LEMMA InvAlways == OpenSpec => []Inv
BY InitInv, StepInv, PTL DEF OpenSpec

\* An app alone is an app among others that do nothing.
LEMMA SpecOpen == Spec => OpenSpec
<1>1. [Next]_vars => [Next \/ OthersPost]_vars
  OBVIOUS
<1> QED
  BY <1>1, PTL DEF Spec, OpenSpec

-----------------------------------------------------------------------------
(* What the invariant says *)

\* What the invariant says of the tables.
LEMMA TablesKnown ==
    ASSUME Inv
    PROVE  /\ TablesFit(purchases, lines, collections, refunds)
           /\ TablesTyped(purchases, lines, collections, refunds)
           /\ ledger \in Seq(Rows)
           /\ RowsFit(ledger, purchases, lines, collections, refunds)
           /\ DOMAIN purchases = 1..Len(purchases) /\ Len(purchases) \in Nat
           /\ DOMAIN lines = 1..Len(lines) /\ Len(lines) \in Nat
           /\ DOMAIN collections = 1..Len(collections) /\ Len(collections) \in Nat
           /\ DOMAIN refunds = 1..Len(refunds) /\ Len(refunds) \in Nat
<1>1. Good(ledger, purchases, lines, collections, refunds)
  BY DEF Inv
<1>2. /\ TablesFit(purchases, lines, collections, refunds) /\ ledger \in Seq(Rows)
      /\ RowsFit(ledger, purchases, lines, collections, refunds)
      /\ TablesTyped(purchases, lines, collections, refunds)
  BY <1>1 DEF Good, TablesFit
<1>3. /\ purchases \in Seq(PurchaseRecords) /\ lines \in Seq(LineRecords(Len(purchases)))
      /\ collections \in Seq(CollectionRecords(Len(purchases), Len(lines)))
      /\ refunds \in Seq(RefundRecords(Len(purchases), Len(lines)))
  BY <1>2 DEF TablesTyped
<1>4. DOMAIN purchases = 1..Len(purchases) /\ Len(purchases) \in Nat
  BY <1>3
<1>5. DOMAIN lines = 1..Len(lines) /\ Len(lines) \in Nat
  BY <1>3
<1>6. DOMAIN collections = 1..Len(collections) /\ Len(collections) \in Nat
  BY <1>3
<1>7. DOMAIN refunds = 1..Len(refunds) /\ Len(refunds) \in Nat
  BY <1>3
<1> QED
  BY <1>2, <1>4, <1>5, <1>6, <1>7

\* What it says of a line.
LEMMA LineKnown ==
    ASSUME Inv, NEW l \in 1..Len(lines)
    PROVE  LineGood(ledger, purchases, lines, collections, refunds, l)
BY DEF Inv, Good, LinesGood

\* The invariant implies the types,
LEMMA InvMeansTypeOK == Inv => TypeOK
<1>1. SUFFICES ASSUME Inv PROVE TypeOK
  OBVIOUS
<1>2. LedgerTypeOK /\ drafts \subseteq Products \X Locations
  BY <1>1, SoundMeansTypeOK DEF Inv
<1>3. TablesTyped(purchases, lines, collections, refunds)
      /\ DOMAIN purchases = 1..Len(purchases) /\ DOMAIN lines = 1..Len(lines)
  BY <1>1, TablesKnown
<1>4. purchases \in Seq([location: Locations, is_deleted: BOOLEAN])
  BY <1>3 DEF TablesTyped, PurchaseRecords
<1>5. lines \in Seq([purchase: DOMAIN purchases, product: Products, quantity: Quantities,
                     price: Prices, rate: Rates, is_deleted: BOOLEAN])
  BY <1>3 DEF TablesTyped, LineRecords
<1>6. collections \in Seq([purchase: DOMAIN purchases, location: Locations,
                           is_deleted: BOOLEAN, lines: Seq(LineItems)])
  BY <1>3 DEF TablesTyped, CollectionRecords, AskedItems, LineItems
<1>7. refunds \in Seq([purchase: DOMAIN purchases, is_deleted: BOOLEAN,
                       lines: Seq(RefundItems)])
  BY <1>3 DEF TablesTyped, RefundRecords, BackItems, RefundItems
<1> QED
  BY <1>2, <1>4, <1>5, <1>6, <1>7 DEF TypeOK

\* A line that is not deleted holds what its records say.
LEMMA LiveHolds ==
    ASSUME Inv, NEW l \in 1..Len(lines), ~lines[l].is_deleted
    PROVE  /\ ~purchases[lines[l].purchase].is_deleted
           /\ LiveLine(ledger, lines, collections, refunds, l)
           /\ Holds(ledger, lines, collections, refunds, l)
<1>1. /\ TablesFit(purchases, lines, collections, refunds)
      /\ TablesTyped(purchases, lines, collections, refunds)
      /\ ledger \in Seq(Rows) /\ RowsFit(ledger, purchases, lines, collections, refunds)
  BY TablesKnown
<1>2. ~purchases[lines[l].purchase].is_deleted
  BY <1>1 DEF TablesFit, GoneWith
<1>3. LiveLine(ledger, lines, collections, refunds, l)
  BY LineKnown DEF LineGood
<1> QED
  BY <1>1, <1>2, <1>3, LineTotals

\* What the models compute of a line, by the amounts of the records.
LEMMA CountsKnown ==
    ASSUME Inv, NEW l
    PROVE  /\ CollectedQty(l) = TookAll(collections, l)
           /\ RefundSum(l, "RECEIVED") = BackAll(refunds, l, "RECEIVED")
           /\ PendingQty(lines, l) = Pending(lines, collections, refunds, l)
<1>1. /\ collections \in Seq(CollectionRecords(Len(purchases), Len(lines)))
      /\ refunds \in Seq(RefundRecords(Len(purchases), Len(lines)))
  BY TablesKnown DEF TablesTyped
<1> QED
  BY <1>1, RecordsSay

\* that pending follows the records,
LEMMA InvMeansPending == Inv => PendingMatchesLedger
<1>1. SUFFICES ASSUME Inv, NEW l \in DOMAIN lines, ~lines[l].is_deleted
               PROVE  /\ PendingQty(lines, l) = PendingRemainder(ledger, l).qty
                      /\ PendingQty(lines, l) >= 0
  BY DEF PendingMatchesLedger
<1>2. l \in 1..Len(lines) /\ ledger \in Seq(Rows)
  BY <1>1, TablesKnown
<1>3. /\ Holds(ledger, lines, collections, refunds, l)
      /\ LiveLine(ledger, lines, collections, refunds, l)
  BY <1>1, <1>2, LiveHolds
<1>4. PendingQty(lines, l) = Pending(lines, collections, refunds, l)
  BY <1>1, CountsKnown
<1>5. PendingRemainder(ledger, l) = NetIn(ledger, OnLine(l) \intersect Pend)
  BY <1>2, SumsAreNets
<1> QED
  BY <1>3, <1>4, <1>5 DEF Holds, LiveLine

\* that received stock follows the records,
LEMMA InvMeansHeld == Inv => HeldMatchesRecords
<1>1. SUFFICES ASSUME Inv, NEW l \in DOMAIN lines, ~lines[l].is_deleted
               PROVE  Held(l).qty = CollectedQty(l) - RefundSum(l, "RECEIVED")
  BY DEF HeldMatchesRecords
<1>2. l \in 1..Len(lines) /\ ledger \in Seq(Rows)
  BY <1>1, TablesKnown
<1>3. Holds(ledger, lines, collections, refunds, l)
  BY <1>1, <1>2, LiveHolds
<1>4. /\ CollectedQty(l) = TookAll(collections, l)
      /\ RefundSum(l, "RECEIVED") = BackAll(refunds, l, "RECEIVED")
  BY <1>1, CountsKnown
<1>5. Held(l) = NetIn(ledger, OnLine(l) \intersect Phys)
  BY <1>2, SumsAreNets DEF Held
<1> QED
  BY <1>3, <1>4, <1>5 DEF Holds

\* What the model sums up of a line, product, bucket and place is what these rows
\* add up to.
OfKey(row, l, product, loc, bucket) ==
    /\ OfLine(row, l, bucket)
    /\ row.product = product /\ row.loc = loc

KeyRemainder(rows, l, product, loc, bucket) ==
    Net(rows, LAMBDA row : /\ OfLine(row, l, bucket)
                           /\ row.product = product /\ row.loc = loc)

\* What a line has of a product at a place, as a sum over rows.
LEMMA KeyNet ==
    ASSUME NEW rows \in Seq(Rows), NEW l, NEW product, NEW loc, NEW bucket,
           NEW S, S = OnLine(l) \intersect AtKey(<<product, loc, bucket>>)
    PROVE  KeyRemainder(rows, l, product, loc, bucket) = NetIn(rows, S)
<1>1. ASSUME NEW i \in 1..Len(rows) PROVE OfKey(rows[i], l, product, loc, bucket) <=> rows[i] \in S
  <2>1. PICK row \in Rows : row = rows[i]
    OBVIOUS
  <2>2. KeyOf(row) = <<product, loc, bucket>>
           <=> row.product = product /\ row.loc = loc /\ row.bucket = bucket
    BY DEF KeyOf
  <2> QED
    BY <2>1, <2>2 DEF OfKey, OfLine, OnLine, AtKey
<1>2. /\ [i \in 1..Len(rows) |-> IF OfKey(rows[i], l, product, loc, bucket) THEN rows[i].qty ELSE 0]
            = [i \in 1..Len(rows) |-> IF rows[i] \in S THEN rows[i].qty ELSE 0]
      /\ [i \in 1..Len(rows) |-> IF OfKey(rows[i], l, product, loc, bucket) THEN rows[i].aed ELSE 0]
            = [i \in 1..Len(rows) |-> IF rows[i] \in S THEN rows[i].aed ELSE 0]
  BY <1>1
<1>3. KeyRemainder(rows, l, product, loc, bucket)
        = [qty |-> SumSeq([i \in 1..Len(rows) |->
                      IF OfKey(rows[i], l, product, loc, bucket) THEN rows[i].qty ELSE 0]),
           aed |-> SumSeq([i \in 1..Len(rows) |->
                      IF OfKey(rows[i], l, product, loc, bucket) THEN rows[i].aed ELSE 0])]
  BY DEF KeyRemainder, Net, SumOf, OfKey
<1> QED
  BY <1>2, <1>3 DEF NetIn, Net, SumOf

\* that nothing is on a superseded product,
LEMMA InvMeansSuperseded == Inv => NothingOnSupersededProduct
<1>1. SUFFICES ASSUME Inv, NEW l \in DOMAIN lines, NEW product \in Products,
                      product # lines[l].product, NEW loc \in Locations, NEW bucket \in Buckets
               PROVE  KeyRemainder(ledger, l, product, loc, bucket) = NoStock
  BY DEF NothingOnSupersededProduct, NoStock, KeyRemainder
<1>2. l \in 1..Len(lines) /\ ledger \in Seq(Rows)
  BY <1>1, TablesKnown
<1>3. Nothing(ledger, OnLine(l) \ OfProduct(lines[l].product))
  BY <1>1, <1>2, LineKnown DEF LineGood
<1>4. PICK S : S = OnLine(l) \intersect AtKey(<<product, loc, bucket>>)
  OBVIOUS
<1>5. Blind(S)
  BY <1>4, SetsBlind, BlindParts
<1>6. S \subseteq OnLine(l) \ OfProduct(lines[l].product)
  BY <1>1, <1>4 DEF AtKey, KeyOf, OfProduct
<1>7. NetIn(ledger, S) = NoStock
  BY <1>3, <1>5, <1>6 DEF Nothing
<1> QED
  BY <1>2, <1>4, <1>7, KeyNet

\* What is left of a business record, group by group.
LEMMA GroupsCleared ==
    ASSUME NEW rows \in Seq(Rows), NEW t \in PurchaseSources, NEW s,
           \A i \in 1..Len(rows) :
              rows[i].stype = t /\ rows[i].sid = s => Nothing(rows, Of(t, s, rows[i].line)),
           NEW own, own = SourceRows(rows, t, s), NEW i \in DOMAIN own
    PROVE  GroupNet(own, own[i]) = NoStock
<1> DEFINE I == {k \in DOMAIN rows : rows[k].stype = t /\ rows[k].sid = s}
<1>1. own = Kept(rows, I)
  BY DEF SourceRows
<1>2. \A k \in 1..Len(rows) : k \in I <=> rows[k].stype = t /\ rows[k].sid = s
  OBVIOUS
<1> HIDE DEF I
<1>3. own \in Seq(Rows) /\ i \in 1..Len(own)
  BY <1>1, KeptType
<1>4. PICK k \in 1..Len(rows) : k \in I /\ own[i] = rows[k]
  BY <1>1, <1>3, KeptType
<1>5. PICK row, l : row \in Rows /\ row = own[i] /\ row = rows[k] /\ l = row.line
  BY <1>4
<1>6. row.stype = t /\ row.sid = s /\ Nothing(rows, Of(t, s, l))
  BY <1>2, <1>4, <1>5
<1>7. PICK G : G = GroupOf(row)
  OBVIOUS
<1>8. GroupNet(own, row) = NetIn(own, G)
  BY <1>3, <1>7, GroupNetIn
<1>9. PICK S : S = G \intersect Of(t, s, l)
  OBVIOUS
<1>10. \A j \in 1..Len(rows) : j \in I /\ rows[j] \in G <=> rows[j] \in S
  <2>1. ASSUME NEW j \in 1..Len(rows) PROVE j \in I /\ rows[j] \in G <=> rows[j] \in S
    <3>1. PICK r \in Rows : r = rows[j]
      OBVIOUS
    <3>2. r \in G => r.line = l
      BY <1>5, <1>7 DEF GroupOf, SameGroup
    <3> QED
      BY <1>2, <1>9, <3>1, <3>2 DEF Of, OnLine
  <2> QED
    BY <2>1
<1>11. NetIn(own, G) = NetIn(rows, S)
  BY <1>1, <1>10, KeptNetAs
<1>12. Blind(G)
  BY <1>7 DEF Blind, SameRecord, GroupOf, SameGroup
<1>13. Blind(S) /\ S \subseteq Of(t, s, l)
  BY <1>9, <1>12, SetsBlind, BlindParts
<1> QED
  BY <1>5, <1>6, <1>8, <1>11, <1>13 DEF Nothing

\* Of an undone collection or refund nothing is left on any line, as long as its
\* purchase is not deleted.
LEMMA UndoneLeavesNothing ==
    ASSUME Inv, NEW l \in 1..Len(lines), ~purchases[lines[l].purchase].is_deleted
    PROVE  /\ \A c \in 1..Len(collections) : collections[c].is_deleted
                 => Nothing(ledger, Of("PURCHASE_COLLECTION", c, l))
           /\ \A r \in 1..Len(refunds) : refunds[r].is_deleted
                 => Nothing(ledger, Of("PURCHASE_REFUND", r, l))
<1>1. LineGood(ledger, purchases, lines, collections, refunds, l)
  BY LineKnown
<1>2. CASE lines[l].is_deleted
  <2>1. Nothing(ledger, OnLine(l))
    BY <1>1, <1>2 DEF LineGood
  <2>2. \A t, s : Nothing(ledger, Of(t, s, l))
    BY <2>1, SetsBlind, NothingLess
  <2> QED
    BY <2>2
<1>3. CASE ~lines[l].is_deleted
  <2>1. LiveLine(ledger, lines, collections, refunds, l)
    BY <1>3, LiveHolds
  <2>2. ASSUME NEW c \in 1..Len(collections), collections[c].is_deleted
        PROVE  Nothing(ledger, Of("PURCHASE_COLLECTION", c, l))
    <3>1. CollectionTraced(ledger, collections, c, l)
      BY <2>1 DEF LiveLine
    <3>2. Took(collections, c, l) = 0
      BY <2>2 DEF Took
    <3>3. \A loc \in Locations : TookAt(collections, c, l)[loc] = 0
      BY <3>2 DEF TookAt
    <3> QED
      BY <3>1, <3>2, <3>3 DEF CollectionTraced, Traced
  <2>3. ASSUME NEW r \in 1..Len(refunds), refunds[r].is_deleted
        PROVE  Nothing(ledger, Of("PURCHASE_REFUND", r, l))
    <3>1. RefundTraced(ledger, refunds, r, l)
      BY <2>1 DEF LiveLine
    <3>2. Back(refunds, r, l, "PENDING") = 0 /\ \A loc : BackAt(refunds, r, l, loc) = 0
      BY <2>3 DEF Back, BackAt
    <3>3. \A loc \in Locations : BackFrom(refunds, r, l)[loc] = 0
      BY <3>2 DEF BackFrom
    <3> QED
      BY <3>1, <3>2, <3>3 DEF RefundTraced, Traced
  <2> QED
    BY <2>2, <2>3
<1> QED
  BY <1>2, <1>3

ClearedRows(rows) == \A i \in DOMAIN rows : GroupNet(rows, rows[i]) = NoStock

\* that what is undone contributes nothing,
LEMMA InvMeansUndone == Inv => UndoneContributesNothing
<1>1. SUFFICES ASSUME Inv
               PROVE  /\ \A c \in DOMAIN collections :
                            collections[c].is_deleted /\ ~purchases[collections[c].purchase].is_deleted
                               => ClearedRows(SourceRows(ledger, "PURCHASE_COLLECTION", c))
                      /\ \A r \in DOMAIN refunds :
                            refunds[r].is_deleted /\ ~purchases[refunds[r].purchase].is_deleted
                               => ClearedRows(SourceRows(ledger, "PURCHASE_REFUND", r))
  BY DEF UndoneContributesNothing, ClearedRows, NoStock
<1>2. /\ ledger \in Seq(Rows) /\ RowsFit(ledger, purchases, lines, collections, refunds)
      /\ DOMAIN collections = 1..Len(collections) /\ DOMAIN refunds = 1..Len(refunds)
  BY <1>1, TablesKnown
<1>3. ASSUME NEW c \in 1..Len(collections), collections[c].is_deleted,
             ~purchases[collections[c].purchase].is_deleted
      PROVE  ClearedRows(SourceRows(ledger, "PURCHASE_COLLECTION", c))
  <2>1. "PURCHASE_COLLECTION" \in PurchaseSources
    BY DEF PurchaseSources
  <2>2. ASSUME NEW i \in 1..Len(ledger), ledger[i].stype = "PURCHASE_COLLECTION", ledger[i].sid = c
        PROVE  Nothing(ledger, Of("PURCHASE_COLLECTION", c, ledger[i].line))
    <3>1. PICK l : l = ledger[i].line
      OBVIOUS
    <3>2. l \in 1..Len(lines) /\ collections[c].purchase = lines[l].purchase
      BY <1>2, <2>1, <2>2, <3>1 DEF RowsFit, OwnRowFits, RowFits
    <3> QED
      BY <1>1, <1>3, <3>1, <3>2, UndoneLeavesNothing
  <2>3. PICK own : own = SourceRows(ledger, "PURCHASE_COLLECTION", c)
    OBVIOUS
  <2>4. \A i \in DOMAIN own : GroupNet(own, own[i]) = NoStock
    BY <1>2, <2>1, <2>2, <2>3, GroupsCleared
  <2> QED
    BY <2>3, <2>4 DEF ClearedRows
<1>4. ASSUME NEW r \in 1..Len(refunds), refunds[r].is_deleted,
             ~purchases[refunds[r].purchase].is_deleted
      PROVE  ClearedRows(SourceRows(ledger, "PURCHASE_REFUND", r))
  <2>1. "PURCHASE_REFUND" \in PurchaseSources
    BY DEF PurchaseSources
  <2>2. ASSUME NEW i \in 1..Len(ledger), ledger[i].stype = "PURCHASE_REFUND", ledger[i].sid = r
        PROVE  Nothing(ledger, Of("PURCHASE_REFUND", r, ledger[i].line))
    <3>1. PICK l : l = ledger[i].line
      OBVIOUS
    <3>2. l \in 1..Len(lines) /\ refunds[r].purchase = lines[l].purchase
      BY <1>2, <2>1, <2>2, <3>1 DEF RowsFit, OwnRowFits, RowFits
    <3> QED
      BY <1>1, <1>4, <3>1, <3>2, UndoneLeavesNothing
  <2>3. PICK own : own = SourceRows(ledger, "PURCHASE_REFUND", r)
    OBVIOUS
  <2>4. \A i \in DOMAIN own : GroupNet(own, own[i]) = NoStock
    BY <1>2, <2>1, <2>2, <2>3, GroupsCleared
  <2> QED
    BY <2>3, <2>4 DEF ClearedRows
<1> QED
  BY <1>2, <1>3, <1>4

\* that no cent is left in PENDING,
LEMMA InvMeansNoResidue == ~RepeatedLines /\ Inv => NoPendingResidue
<1>1. SUFFICES ASSUME ~RepeatedLines, Inv PROVE NoPendingResidue
  OBVIOUS
<1>2. ledger \in Seq(Rows) /\ DOMAIN lines = 1..Len(lines)
  BY <1>1, TablesKnown
<1>3. ASSUME NEW l \in DOMAIN lines PROVE Clean(PendingRemainder(ledger, l))
  <2>1. LineGood(ledger, purchases, lines, collections, refunds, l)
    BY <1>1, <1>2, <1>3, LineKnown
  <2>2. Clean(NetIn(ledger, OnLine(l) \intersect Pend))
    BY <1>1, <2>1 DEF LineGood
  <2>3. PendingRemainder(ledger, l) = NetIn(ledger, OnLine(l) \intersect Pend)
    BY <1>2, SumsAreNets
  <2> QED
    BY <2>2, <2>3
<1> QED
  BY <1>3 DEF NoPendingResidue, Clean

\* and that what is deleted holds nothing.
LEMMA InvMeansDeleted == ~RepeatedLines /\ Inv => DeletedHoldsNothing
<1>1. SUFFICES ASSUME ~RepeatedLines, Inv PROVE DeletedHoldsNothing
  OBVIOUS
<1>2. /\ ledger \in Seq(Rows) /\ DOMAIN lines = 1..Len(lines)
      /\ DOMAIN refunds = 1..Len(refunds)
      /\ refunds \in Seq(RefundRecords(Len(purchases), Len(lines)))
  BY <1>1, TablesKnown DEF TablesTyped
<1>3. ASSUME NEW l \in DOMAIN lines, lines[l].is_deleted
      PROVE  /\ PendingRemainder(ledger, l) = NoStock
             /\ \A loc \in Locations :
                   /\ PhysicalRemainder(ledger, l, loc).qty <= 0
                   /\ PhysicalRemainder(ledger, l, loc) = NoStock \/ Returned(refunds, l)
  <2>1. LineGood(ledger, purchases, lines, collections, refunds, l)
    BY <1>1, <1>2, <1>3, LineKnown
  <2>2. DeadLine(ledger, refunds, l)
    BY <1>3, <2>1 DEF LineGood
  <2>3. /\ PendingRemainder(ledger, l) = NetIn(ledger, OnLine(l) \intersect Pend)
        /\ \A loc : PhysicalRemainder(ledger, l, loc)
                      = NetIn(ledger, OnLine(l) \intersect PhysAt(loc))
    BY <1>2, SumsAreNets
  <2> QED
    BY <1>1, <2>2, <2>3 DEF DeadLine
<1>4. \A r \in 1..Len(refunds) : DOMAIN refunds[r].lines = 1..Len(refunds[r].lines)
  <2>1. ASSUME NEW r \in 1..Len(refunds)
        PROVE  DOMAIN refunds[r].lines = 1..Len(refunds[r].lines)
    <3>1. refunds[r].lines \in Seq(BackItems(Len(lines)))
      BY <1>1, TablesKnown, TableTypes
    <3> QED
      BY <3>1
  <2> QED
    BY <2>1
<1>5. \A l : Returned(refunds, l) =>
         \E r \in DOMAIN refunds : \E i \in DOMAIN refunds[r].lines :
             refunds[r].lines[i].line = l /\ refunds[r].lines[i].source = "RECEIVED"
  BY <1>2, <1>4 DEF Returned
<1> QED
  BY <1>3, <1>5 DEF DeletedHoldsNothing, NoStock

\* An edit that is saved leaves the amounts of the records of a kept line.
LEMMA StepKeepsReceived ==
    Inv /\ [Next \/ OthersPost]_vars =>
        [lines' # lines /\ purchases' = purchases =>
           \A l \in DOMAIN lines, loc \in Locations : ~lines'[l].is_deleted =>
              PhysicalRemainder(ledger', l, loc).qty = PhysicalRemainder(ledger, l, loc).qty]_vars
<1>1. SUFFICES ASSUME Inv, [Next \/ OthersPost]_vars, lines' # lines, purchases' = purchases,
                      NEW l \in DOMAIN lines, NEW loc \in Locations, ~lines'[l].is_deleted
               PROVE  PhysicalRemainder(ledger', l, loc).qty = PhysicalRemainder(ledger, l, loc).qty
  OBVIOUS
<1>2. TablesTyped(purchases, lines, collections, refunds) /\ l \in 1..Len(lines)
      /\ ledger \in Seq(Rows) /\ Len(lines) \in Nat /\ Len(purchases) \in Nat
  BY <1>1, TablesKnown
<1>3. Update
  <2>1. Len(purchases') = Len(purchases)
    BY <1>1
  <2>2. ~Create
    <3>1. ASSUME Create PROVE FALSE
      <4>1. PICK loc1 \in Locations, terms \in Requests(LineTerms) :
               \E collected \in [DOMAIN terms -> {0} \union Quantities] :
                  CreatePurchase(loc1, terms, collected)
        BY <3>1 DEF Create
      <4>2. purchases' = Append(purchases, [location |-> loc1, is_deleted |-> FALSE])
        BY <4>1 DEF CreatePurchase
      <4>3. purchases \in Seq(PurchaseRecords) /\ [location |-> loc1, is_deleted |-> FALSE] \in PurchaseRecords
        BY <1>2 DEF TablesTyped, PurchaseRecords
      <4>4. Len(purchases') = Len(purchases) + 1
        BY <4>2, <4>3
      <4> QED
        BY <1>2, <2>1, <4>4
    <3> QED
      BY <3>1
  <2>3. ~Delete
    <3>1. ASSUME Delete PROVE FALSE
      <4>1. PICK p \in DOMAIN purchases, confirm \in Confirms : SoftDeletePurchase(p, confirm)
        BY <3>1 DEF Delete
      <4>2. ~purchases[p].is_deleted /\ purchases' = [purchases EXCEPT ![p].is_deleted = TRUE]
        BY <4>1 DEF SoftDeletePurchase
      <4>3. purchases \in Seq(PurchaseRecords)
        BY <1>2 DEF TablesTyped
      <4>4. PICK old, gone : old = purchases[p] /\ gone = [old EXCEPT !.is_deleted = TRUE]
        OBVIOUS
      <4>5. old \in PurchaseRecords
        BY <4>3, <4>4
      <4>6. gone.is_deleted /\ ~old.is_deleted
        BY <4>2, <4>4, <4>5 DEF PurchaseRecords
      <4>7. purchases' = [purchases EXCEPT ![p] = gone]
        BY <4>2, <4>4
      <4>8. purchases'[p] = gone
        BY <4>3, <4>7
      <4> QED
        BY <1>1, <4>4, <4>6, <4>8
    <3> QED
      BY <3>1
  <2>4. ~CollectSome /\ ~Refund /\ ~UndoCollection /\ ~UndoRefund /\ ~OthersPost
        /\ ~UNCHANGED vars
    BY <1>1 DEF CollectSome, CollectPurchase, Refund, CreateRefund, UndoCollection, DeleteCollection,
                UndoRefund, DeleteRefund, OthersPost, vars, purchaseVars
  <2> QED
    BY <1>1, <2>2, <2>3, <2>4 DEF Next
<1>4. /\ Inv' /\ UNCHANGED <<purchases, collections, refunds>> /\ Len(lines') >= Len(lines)
      /\ ~lines[l].is_deleted
  BY <1>1, <1>2, <1>3, UpdateStep
<1>5. Holds(ledger, lines, collections, refunds, l)
  BY <1>1, <1>2, <1>4, LiveHolds
<1>6. l \in 1..Len(lines') /\ ledger' \in Seq(Rows)
  <2>1. ledger' \in Seq(Rows) /\ Len(lines') \in Nat
    <3>1. Good(ledger', purchases', lines', collections', refunds')
      BY <1>4 DEF Inv
    <3>2. ledger' \in Seq(Rows) /\ TablesTyped(purchases', lines', collections', refunds')
      BY <3>1 DEF Good, TablesFit
    <3> QED
      BY <3>2, TableTypes
  <2> QED
    BY <1>2, <1>4, <2>1
<1>7. Holds(ledger', lines', collections', refunds', l)
  <2>1. Good(ledger', purchases', lines', collections', refunds')
    BY <1>4 DEF Inv
  <2>2. /\ TablesTyped(purchases', lines', collections', refunds')
        /\ RowsFit(ledger', purchases', lines', collections', refunds')
        /\ GoneWith(lines', purchases')
        /\ LineGood(ledger', purchases', lines', collections', refunds', l)
    BY <1>6, <2>1 DEF Good, TablesFit, LinesGood
  <2>3. ~purchases'[lines'[l].purchase].is_deleted
    BY <1>1, <1>6, <2>2 DEF GoneWith
  <2>4. LiveLine(ledger', lines', collections', refunds', l)
    BY <1>1, <2>2 DEF LineGood
  <2> QED
    BY <1>6, <2>2, <2>3, <2>4, LineTotals
<1>8. /\ PhysicalRemainder(ledger, l, loc) = NetIn(ledger, OnLine(l) \intersect PhysAt(loc))
      /\ PhysicalRemainder(ledger', l, loc) = NetIn(ledger', OnLine(l) \intersect PhysAt(loc))
  BY <1>2, <1>6, SumsAreNets
<1>9. HeldAt(collections', refunds', l, loc) = HeldAt(collections, refunds, l, loc)
  BY <1>4
<1> QED
  BY <1>5, <1>7, <1>8, <1>9 DEF Holds

-----------------------------------------------------------------------------
(* What the reports count *)

\* A refund that counts names only lines that are not deleted.
LiveRefundsLive(rs, lns) ==
    \A r \in 1..Len(rs) : ~rs[r].is_deleted =>
        \A i \in 1..Len(rs[r].lines) : ~lns[rs[r].lines[i].line].is_deleted

\* No service deletes a line of which something is refunded without the refund.
LEMMA LiveRefundsStep ==
    ASSUME Inv, LiveRefundsLive(refunds, lines), [Next \/ OthersPost]_vars
    PROVE  LiveRefundsLive(refunds', lines')
<1>1. /\ TablesTyped(purchases, lines, collections, refunds)
      /\ NamesOwn(refunds, lines)
      /\ DOMAIN lines = 1..Len(lines) /\ Len(lines) \in Nat
      /\ DOMAIN refunds = 1..Len(refunds) /\ Len(refunds) \in Nat
  BY TablesKnown DEF TablesFit
<1>2. \A r \in 1..Len(refunds) : \A i \in 1..Len(refunds[r].lines) :
         refunds[r].lines[i].line \in 1..Len(lines)
  BY <1>1, KnownLines
<1>a. /\ lines \in Seq(LineRecords(Len(purchases)))
      /\ refunds \in Seq(RefundRecords(Len(purchases), Len(lines)))
  BY <1>1 DEF TablesTyped
<1>3. CASE Create
  <2>a. PICK loc \in Locations, terms \in Requests(LineTerms) :
           \E collected \in [DOMAIN terms -> {0} \union Quantities] : CreatePurchase(loc, terms, collected)
    BY <1>3 DEF Create
  <2>b. PICK collected \in [DOMAIN terms -> {0} \union Quantities] : CreatePurchase(loc, terms, collected)
    BY <2>a
  <2>c. PICK new : new = [i \in DOMAIN terms |-> NewLine(Len(purchases) + 1, terms[i])]
    OBVIOUS
  <2>1. lines' = lines \o new /\ refunds' = refunds
    BY <2>b, <2>c DEF CreatePurchase
  <2>2. PICK n \in Nat : DOMAIN terms = 1..n
    BY RequestLists
  <2>3. new \in Seq({new[i] : i \in 1..n})
    BY <2>c, <2>2
  <2>4. \A k \in 1..Len(lines) : lines'[k] = lines[k]
    <3>1. PICK X : X = LineRecords(Len(purchases)) \union {new[i] : i \in 1..n}
      OBVIOUS
    <3>2. lines \in Seq(X)
      BY <1>a, <3>1
    <3>3. new \in Seq(X)
      BY <2>3, <3>1
    <3> QED
      BY <2>1, <3>2, <3>3, ConcatParts
  <2> QED
    BY <1>2, <2>1, <2>4 DEF LiveRefundsLive
<1>4. CASE CollectSome \/ UndoCollection \/ OthersPost \/ UNCHANGED vars
  <2>1. UNCHANGED <<lines, refunds>>
    BY <1>4 DEF CollectSome, CollectPurchase, UndoCollection, DeleteCollection, OthersPost,
                vars, purchaseVars
  <2> QED
    BY <2>1
<1>5. CASE Refund
  <2>a. PICK p \in DOMAIN purchases, items \in Requests(RefundItems), confirm \in Confirms :
           CreateRefund(p, items, confirm)
    BY <1>5 DEF Refund
  <2>1. /\ CanRefund(p, items) /\ lines' = lines
        /\ refunds' = Append(refunds, [purchase |-> p, is_deleted |-> FALSE, lines |-> items])
    BY <2>a DEF CreateRefund
  <2>2. \A i \in 1..Len(items) : ~lines[items[i].line].is_deleted
    <3>1. DOMAIN items = 1..Len(items)
      BY <2>1, RequestLists
    <3> QED
      BY <2>1, <3>1 DEF CanRefund
  <2>3. PICK new : new = [purchase |-> p, is_deleted |-> FALSE, lines |-> items]
    OBVIOUS
  <2>4. /\ Len(refunds') = Len(refunds) + 1
        /\ \A r \in 1..Len(refunds) : refunds'[r] = refunds[r]
        /\ refunds'[Len(refunds) + 1] = new
    <3>1. PICK X : X = RefundRecords(Len(purchases), Len(lines)) \union {new}
      OBVIOUS
    <3>2. refunds \in Seq(X)
      BY <1>a, <3>1
    <3>3. new \in X
      BY <3>1
    <3> QED
      BY <2>1, <2>3, <3>2, <3>3, AppendProperties
  <2>5. \A r \in 1..Len(refunds') : r \in 1..Len(refunds) \/ r = Len(refunds) + 1
    BY <1>1, <2>4
  <2>6. new.lines = items
    BY <2>3
  <2>7. ASSUME NEW r \in 1..Len(refunds'), ~refunds'[r].is_deleted,
               NEW i \in 1..Len(refunds'[r].lines)
        PROVE  ~lines[refunds'[r].lines[i].line].is_deleted
    BY <2>2, <2>4, <2>5, <2>6, <2>7 DEF LiveRefundsLive
  <2> QED
    BY <2>1, <2>7 DEF LiveRefundsLive
<1>6. CASE Update
  <2>1. /\ refunds' = refunds
        /\ \A l \in 1..Len(lines) :
              lines'[l].is_deleted => lines[l].is_deleted \/ RefundedQty(l) = 0
    BY <1>6, UpdateStep
  <2>2. ASSUME NEW r \in 1..Len(refunds), ~refunds[r].is_deleted,
               NEW i \in 1..Len(refunds[r].lines)
        PROVE  ~lines'[refunds[r].lines[i].line].is_deleted
    <3>1. PICK l : l = refunds[r].lines[i].line
      OBVIOUS
    <3>2. l \in 1..Len(lines) /\ ~lines[l].is_deleted
      BY <1>2, <2>2, <3>1 DEF LiveRefundsLive
    <3>3. RefundedQty(l) = 0 => NotBack(refunds, l)
      BY <1>1, RefundedNone
    <3>4. ~NotBack(refunds, l)
      <4>1. PICK items, source : items = refunds[r].lines /\ source = items[i].source
        OBVIOUS
      <4>2. items \in Seq(BackItems(Len(lines))) /\ AskSome(items)
        BY <1>1, <4>1, TableTypes
      <4>3. source \in RefundSources
        <5>1. PICK item \in BackItems(Len(lines)) : item = items[i]
          BY <2>2, <4>1, <4>2
        <5> QED
          BY <4>1, <5>1 DEF BackItems
      <4>4. i \in OnFrom(items, l, source)
        BY <2>2, <3>1, <4>1 DEF OnFrom, On
      <4>5. Total(items, OnFrom(items, l, source)) # 0
        BY <2>2, <4>1, <4>2, <4>4, TotalFacts
      <4>6. Back(refunds, r, l, source) # 0
        BY <2>2, <4>1, <4>5 DEF Back
      <4> QED
        BY <4>3, <4>6 DEF NotBack
    <3> QED
      BY <2>1, <3>1, <3>2, <3>3, <3>4
  <2> QED
    BY <2>1, <2>2 DEF LiveRefundsLive
<1>7. CASE UndoRefund
  <2>1. PICK s \in DOMAIN refunds : lines' = lines /\ refunds' = [refunds EXCEPT ![s].is_deleted = TRUE]
    BY <1>7 DEF UndoRefund, DeleteRefund
  <2>2. PICK old, new : old = refunds[s] /\ new = [old EXCEPT !.is_deleted = TRUE]
    OBVIOUS
  <2>3. refunds' = [refunds EXCEPT ![s] = new]
    BY <2>1, <2>2
  <2>4. /\ new.is_deleted
        /\ Len(refunds') = Len(refunds)
        /\ \A r \in 1..Len(refunds) : refunds'[r] = IF r = s THEN new ELSE refunds[r]
    <3>1. old \in RefundRecords(Len(purchases), Len(lines))
      BY <1>1, <1>a, <2>1, <2>2
    <3>2. new.is_deleted
      BY <2>2, <3>1 DEF RefundRecords
    <3>3. refunds' = [r \in 1..Len(refunds) |-> IF r = s THEN new ELSE refunds[r]]
      BY <1>1, <1>a, <2>3
    <3>4. PICK n \in Nat : n = Len(refunds)
      BY <1>1
    <3>5. DOMAIN refunds' = 1..n /\ Len(refunds') = n
      <4>1. refunds' \in Seq({refunds'[r] : r \in 1..n})
        BY <3>3, <3>4
      <4> QED
        BY <3>3, <3>4, <4>1
    <3> QED
      BY <3>2, <3>3, <3>4, <3>5
  <2>5. ASSUME NEW r \in 1..Len(refunds'), ~refunds'[r].is_deleted
        PROVE  r \in 1..Len(refunds) /\ refunds'[r] = refunds[r]
    BY <2>4, <2>5
  <2>6. ASSUME NEW r \in 1..Len(refunds'), ~refunds'[r].is_deleted,
               NEW i \in 1..Len(refunds'[r].lines)
        PROVE  ~lines[refunds'[r].lines[i].line].is_deleted
    <3>1. r \in 1..Len(refunds) /\ refunds'[r] = refunds[r]
      BY <2>5, <2>6
    <3> QED
      BY <2>6, <3>1 DEF LiveRefundsLive
  <2> QED
    BY <2>1, <2>6 DEF LiveRefundsLive
<1>8. CASE Delete
  <2> DEFINE Marked(p, records) == [i \in DOMAIN records |->
                              IF records[i].purchase = p
                              THEN [records[i] EXCEPT !.is_deleted = TRUE]
                              ELSE records[i]]
  <2>1. PICK p : lines' = Marked(p, lines) /\ refunds' = Marked(p, refunds)
    BY <1>8 DEF Delete, SoftDeletePurchase
  <2>2. ASSUME NEW r \in 1..Len(refunds), ~refunds'[r].is_deleted
        PROVE  refunds[r].purchase # p /\ refunds'[r] = refunds[r]
    <3>1. refunds[r] \in RefundRecords(Len(purchases), Len(lines))
      BY <1>1, <1>a
    <3> QED
      BY <1>1, <2>1, <2>2, <3>1 DEF RefundRecords
  <2>3. DOMAIN refunds' = 1..Len(refunds) /\ Len(refunds') = Len(refunds)
    <3>1. refunds' = [r \in 1..Len(refunds) |-> refunds'[r]]
      BY <1>1, <2>1
    <3> QED
      BY <1>1, <3>1
  <2>4. \A l \in 1..Len(lines) : lines[l].purchase # p => lines'[l] = lines[l]
    BY <1>1, <2>1
  <2> HIDE DEF Marked
  <2>5. ASSUME NEW r \in 1..Len(refunds), ~refunds'[r].is_deleted,
               NEW i \in 1..Len(refunds'[r].lines)
        PROVE  ~lines'[refunds'[r].lines[i].line].is_deleted
    <3>1. refunds[r].purchase # p /\ refunds'[r] = refunds[r]
      BY <2>2, <2>5
    <3>2. PICK l : l = refunds[r].lines[i].line
      OBVIOUS
    <3>3. /\ l \in 1..Len(lines) /\ lines[l].purchase = refunds[r].purchase
          /\ ~lines[l].is_deleted
      BY <1>1, <1>2, <2>5, <3>1, <3>2 DEF NamesOwn, LiveRefundsLive
    <3> QED
      BY <2>4, <3>1, <3>2, <3>3
  <2> QED
    BY <2>3, <2>5 DEF LiveRefundsLive
<1> QED
  BY <1>3, <1>4, <1>5, <1>6, <1>7, <1>8 DEF Next

\* What the reports sum up of the refunds: a value v of each refund line that names a
\* line in S, of refunds that count.
ItemsWorth(items, v, S) ==
    SumSeq([i \in 1..Len(items) |-> IF items[i].line \in S THEN v[items[i]] ELSE 0])

RefundsWorth(rs, v, S) ==
    SumSeq([r \in 1..Len(rs) |-> IF rs[r].is_deleted THEN 0 ELSE ItemsWorth(rs[r].lines, v, S)])

\* The sums are sums of integers.
LEMMA WorthTypes ==
    ASSUME NEW n, NEW m, NEW rs \in Seq(RefundRecords(n, m)), NEW v \in [BackItems(m) -> Int]
    PROVE  /\ \A items \in Seq(BackItems(m)) : \A S :
                 /\ [i \in 1..Len(items) |-> IF items[i].line \in S THEN v[items[i]] ELSE 0] \in Seq(Int)
                 /\ ItemsWorth(items, v, S) \in Int
           /\ \A r \in 1..Len(rs) : rs[r].lines \in Seq(BackItems(m))
           /\ \A S : /\ [r \in 1..Len(rs) |->
                           IF rs[r].is_deleted THEN 0 ELSE ItemsWorth(rs[r].lines, v, S)] \in Seq(Int)
                     /\ RefundsWorth(rs, v, S) \in Int
<1>1. ASSUME NEW items \in Seq(BackItems(m)), NEW S
      PROVE  /\ [i \in 1..Len(items) |-> IF items[i].line \in S THEN v[items[i]] ELSE 0] \in Seq(Int)
             /\ ItemsWorth(items, v, S) \in Int
  <2>1. PICK f : f = [i \in 1..Len(items) |-> IF items[i].line \in S THEN v[items[i]] ELSE 0]
    OBVIOUS
  <2>2. \A i \in 1..Len(items) : f[i] \in Int
    BY <2>1
  <2>3. f \in Seq(Int)
    BY <2>1, <2>2
  <2> QED
    BY <2>1, <2>3, SumSeqType DEF ItemsWorth
<1>2. ASSUME NEW r \in 1..Len(rs) PROVE rs[r].lines \in Seq(BackItems(m))
  <2>1. rs[r] \in RefundRecords(n, m)
    OBVIOUS
  <2> QED
    BY <2>1 DEF RefundRecords
<1>3. ASSUME NEW S
      PROVE  /\ [r \in 1..Len(rs) |->
                    IF rs[r].is_deleted THEN 0 ELSE ItemsWorth(rs[r].lines, v, S)] \in Seq(Int)
             /\ RefundsWorth(rs, v, S) \in Int
  <2>1. PICK f : f = [r \in 1..Len(rs) |->
                         IF rs[r].is_deleted THEN 0 ELSE ItemsWorth(rs[r].lines, v, S)]
    OBVIOUS
  <2>2. \A r \in 1..Len(rs) : f[r] \in Int
    BY <1>1, <1>2, <2>1
  <2>3. f \in Seq(Int)
    BY <2>1, <2>2
  <2> QED
    BY <2>1, <2>3, SumSeqType DEF RefundsWorth
<1> QED
  BY <1>1, <1>2, <1>3

\* Lines of one set or of the other.
LEMMA WorthAdds ==
    ASSUME NEW n, NEW m, NEW rs \in Seq(RefundRecords(n, m)), NEW v \in [BackItems(m) -> Int],
           NEW S, NEW T, S \intersect T = {}
    PROVE  RefundsWorth(rs, v, S \union T) = RefundsWorth(rs, v, S) + RefundsWorth(rs, v, T)
<1> DEFINE I(items, s) == [i \in 1..Len(items) |-> IF items[i].line \in s THEN v[items[i]] ELSE 0]
           R(s) == [r \in 1..Len(rs) |-> IF rs[r].is_deleted THEN 0 ELSE ItemsWorth(rs[r].lines, v, s)]
<1>1. ASSUME NEW items \in Seq(BackItems(m))
      PROVE  ItemsWorth(items, v, S \union T) = ItemsWorth(items, v, S) + ItemsWorth(items, v, T)
  <2>1. PICK f, g, h : f = I(items, S) /\ g = I(items, T) /\ h = I(items, S \union T)
    OBVIOUS
  <2>2. f \in Seq(Int) /\ g \in Seq(Int) /\ h \in Seq(Int)
    BY <2>1, WorthTypes
  <2>3. Len(f) = Len(h) /\ Len(g) = Len(h) /\ Len(h) = Len(items)
    BY <2>1
  <2>4. ASSUME NEW i \in 1..Len(items) PROVE h[i] = f[i] + g[i]
    <3>0. PICK k : k = items[i].line
      OBVIOUS
    <3>1. PICK x \in Int : x = v[items[i]]
      OBVIOUS
    <3>2. /\ f[i] = IF k \in S THEN x ELSE 0
          /\ g[i] = IF k \in T THEN x ELSE 0
          /\ h[i] = IF k \in S \union T THEN x ELSE 0
      BY <2>1, <3>0, <3>1
    <3> QED
      BY <3>1, <3>2
  <2>5. SumSeq(h) = SumSeq(f) + SumSeq(g)
    BY <2>2, <2>3, <2>4, SumSeqPlus
  <2> QED
    BY <2>1, <2>5 DEF ItemsWorth
<1>2. PICK f, g, h : f = R(S) /\ g = R(T) /\ h = R(S \union T)
  OBVIOUS
<1>3. f \in Seq(Int) /\ g \in Seq(Int) /\ h \in Seq(Int)
  BY <1>2, WorthTypes
<1>4. Len(f) = Len(h) /\ Len(g) = Len(h) /\ Len(h) = Len(rs)
  BY <1>2
<1>5. ASSUME NEW r \in 1..Len(rs) PROVE h[r] = f[r] + g[r]
  <2>1. PICK items \in Seq(BackItems(m)) : items = rs[r].lines
    BY WorthTypes
  <2>2. PICK x \in Int, y \in Int : x = ItemsWorth(items, v, S) /\ y = ItemsWorth(items, v, T)
    BY WorthTypes
  <2>3. ItemsWorth(items, v, S \union T) = x + y
    BY <1>1, <2>2
  <2>4. /\ f[r] = IF rs[r].is_deleted THEN 0 ELSE x
        /\ g[r] = IF rs[r].is_deleted THEN 0 ELSE y
        /\ h[r] = IF rs[r].is_deleted THEN 0 ELSE x + y
    BY <1>2, <2>1, <2>2, <2>3
  <2> QED
    BY <2>2, <2>4
<1>6. SumSeq(h) = SumSeq(f) + SumSeq(g)
  BY <1>3, <1>4, <1>5, SumSeqPlus
<1> QED
  BY <1>2, <1>6 DEF RefundsWorth

\* Lines whose refunds are worth nothing, or of which nothing is refunded.
LEMMA WorthNothing ==
    ASSUME NEW n, NEW m, NEW rs \in Seq(RefundRecords(n, m)), NEW v \in [BackItems(m) -> Int], NEW S,
           \A r \in 1..Len(rs) : ~rs[r].is_deleted => \A i \in 1..Len(rs[r].lines) :
              rs[r].lines[i].line \in S => v[rs[r].lines[i]] = 0
    PROVE  RefundsWorth(rs, v, S) = 0
<1>1. PICK f : f = [r \in 1..Len(rs) |->
                       IF rs[r].is_deleted THEN 0 ELSE ItemsWorth(rs[r].lines, v, S)]
  OBVIOUS
<1>2. f \in Seq(Int) /\ Len(f) = Len(rs)
  <2>1. f \in Seq(Int)
    BY <1>1, WorthTypes
  <2> QED
    BY <1>1, <2>1
<1>3. ASSUME NEW r \in 1..Len(rs) PROVE f[r] = 0
  <2>1. CASE rs[r].is_deleted
    BY <1>1, <2>1
  <2>2. CASE ~rs[r].is_deleted
    <3>1. PICK items \in Seq(BackItems(m)) : items = rs[r].lines
      BY WorthTypes
    <3>2. PICK g : g = [i \in 1..Len(items) |-> IF items[i].line \in S THEN v[items[i]] ELSE 0]
      OBVIOUS
    <3>3. g \in Seq(Int)
      BY <3>2, WorthTypes
    <3>4. \A i \in 1..Len(items) : items[i].line \in S => v[items[i]] = 0
      BY <2>2, <3>1
    <3>5. Len(g) = Len(items) /\ \A i \in 1..Len(items) : g[i] = 0
      BY <3>2, <3>4
    <3>6. SumSeq(g) = 0
      BY <3>3, <3>5, SumSeqZero
    <3>7. ItemsWorth(items, v, S) = 0
      BY <3>2, <3>6 DEF ItemsWorth
    <3> QED
      BY <1>1, <2>2, <3>1, <3>7
  <2> QED
    BY <2>1, <2>2
<1>4. SumSeq(f) = 0
  BY <1>2, <1>3, SumSeqZero
<1> QED
  BY <1>1, <1>4 DEF RefundsWorth

\* The worth of every line of a set.
ByLine(f, rs, v, S) == \A l \in S : f[l] = RefundsWorth(rs, v, {l})

\* The lines of a set, one by one.
LEMMA WorthByLine ==
    ASSUME NEW n, NEW m, NEW rs \in Seq(RefundRecords(n, m)), NEW v \in [BackItems(m) -> Int],
           NEW S, IsFiniteSet(S), NEW f, ByLine(f, rs, v, S)
    PROVE  SumFunctionOnSet(f, S) = RefundsWorth(rs, v, S)
<1> DEFINE T == {s \in SUBSET S : SumFunctionOnSet(f, s) = RefundsWorth(rs, v, s)}
<1>1. \A s : RefundsWorth(rs, v, s) \in Int
  BY WorthTypes
<1>2. {} \in T
  <2>1. RefundsWorth(rs, v, {}) = 0
    BY WorthNothing
  <2> QED
    BY <2>1, SumNothing
<1>3. ASSUME NEW s \in SUBSET S, NEW l \in S \ s, s \in T PROVE s \union {l} \in T
  <2>1. IsFiniteSet(s) /\ \A k \in s \union {l} : f[k] \in Int
    BY <1>1, FS_Subset DEF ByLine
  <2>2. SumFunctionOnSet(f, s \union {l}) = f[l] + SumFunctionOnSet(f, s)
    BY <2>1, SumOneMore
  <2>3. RefundsWorth(rs, v, s \union {l}) = RefundsWorth(rs, v, s) + RefundsWorth(rs, v, {l})
    <3>1. s \intersect {l} = {}
      OBVIOUS
    <3> QED
      BY <3>1, WorthAdds
  <2>4. PICK a \in Int, b \in Int : a = RefundsWorth(rs, v, s) /\ b = RefundsWorth(rs, v, {l})
    BY <1>1
  <2>5. SumFunctionOnSet(f, s) = a /\ f[l] = b
    BY <1>3, <2>4 DEF ByLine
  <2>6. SumFunctionOnSet(f, s \union {l}) = b + a
    BY <2>2, <2>5
  <2>7. RefundsWorth(rs, v, s \union {l}) = a + b
    BY <2>3, <2>4
  <2>8. SumFunctionOnSet(f, s \union {l}) = RefundsWorth(rs, v, s \union {l})
    BY <2>4, <2>6, <2>7
  <2> QED
    BY <2>8
<1> HIDE DEF T
<1>4. S \in T
  BY <1>2, <1>3, SubsetInduction
<1> QED
  BY <1>4 DEF T

\* The units of a refund line, and the GST it takes back.
UnitsOf == [item \in BackItems(Len(lines)) |-> item.quantity]

GstOf == [item \in BackItems(Len(lines)) |-> GstReversalAed(item)]

\* A tax contained in an amount is not negative, and none of nothing.
LEMMA GstNatural ==
    ASSUME GstRate \in Nat, NEW gross \in Nat
    PROVE  GstComponent(gross, GstRate) \in Nat
<1>1. PICK n \in Nat, d \in Nat \ {0} : n = gross * GstRate /\ d = 100 + GstRate
  OBVIOUS
<1> QED
  BY <1>1, RoundNatural DEF GstComponent

\* What a refund line takes back is a number of units,
LEMMA UnitsTyped == UnitsOf \in [BackItems(Len(lines)) -> Int]
<1>1. \A item \in BackItems(Len(lines)) : item.quantity \in Nat
  BY QuantitiesAssumption DEF BackItems
<1> QED
  BY <1>1 DEF UnitsOf

\* and an amount of GST.
LEMMA GstTyped ==
    ASSUME GstRate \in Nat, NEW ps, TablesTyped(ps, lines, collections, refunds)
    PROVE  GstOf \in [BackItems(Len(lines)) -> Int]
<1>1. ASSUME NEW item \in BackItems(Len(lines)) PROVE GstReversalAed(item) \in Int
  <2>1. item.quantity \in Nat /\ item.line \in 1..Len(lines)
    BY QuantitiesAssumption DEF BackItems
  <2>2. lines[item.line] \in LineRecords(Len(ps))
    BY <2>1 DEF TablesTyped
  <2>3. PICK q \in Nat, price \in Nat, rate \in Nat :
           q = item.quantity /\ price = lines[item.line].price /\ rate = lines[item.line].rate
    BY <2>1, <2>2, MoneyAssumption DEF LineRecords
  <2>4. q * price \in Nat
    OBVIOUS
  <2>5. PICK gst \in Nat : gst = GstComponent(q * price, GstRate)
    BY <2>4, GstNatural
  <2>6. gst * rate \in Nat
    OBVIOUS
  <2>7. RoundHalfUp(gst * rate, RateScale) \in Nat
    BY <2>6, MoneyAssumption, RoundNatural
  <2> QED
    BY <2>3, <2>5, <2>7 DEF GstReversalAed
<1> QED
  BY <1>1 DEF GstOf

\* The sums of the reports, as sums over the refunds.
LEMMA SumsAreWorth ==
    ASSUME NEW ps, TablesTyped(ps, lines, collections, refunds)
    PROVE  /\ RefundReportQty = RefundsWorth(refunds, UnitsOf, 1..Len(lines))
           /\ RefundTotal(LAMBDA item : TRUE, GstReversalAed)
                 = RefundsWorth(refunds, GstOf, 1..Len(lines))
           /\ \A l : ReversedGst(l) = RefundsWorth(refunds, GstOf, {l})
           /\ \A l : RefundedQty(l) = RefundsWorth(refunds, UnitsOf, {l})
<1>1. /\ DOMAIN refunds = 1..Len(refunds) /\ Len(refunds) \in Nat
      /\ \A r \in 1..Len(refunds) : refunds[r].lines \in Seq(BackItems(Len(lines)))
      /\ refunds \in Seq(RefundRecords(Len(ps), Len(lines)))
  <2>1. refunds \in Seq(RefundRecords(Len(ps), Len(lines)))
    BY DEF TablesTyped
  <2> QED
    BY <2>1, TableTypes
<1>2. ASSUME NEW items \in Seq(BackItems(Len(lines))), NEW i \in 1..Len(items)
      PROVE  /\ items[i] \in BackItems(Len(lines)) /\ items[i].line \in 1..Len(lines)
             /\ UnitsOf[items[i]] = items[i].quantity
             /\ GstOf[items[i]] = GstReversalAed(items[i])
  <2>1. PICK item \in BackItems(Len(lines)) : item = items[i]
    OBVIOUS
  <2> QED
    BY <2>1 DEF BackItems, UnitsOf, GstOf
<1>3. ASSUME NEW items \in Seq(BackItems(Len(lines)))
      PROVE  /\ SumOf(items, LAMBDA item : TRUE, LAMBDA item : item.quantity)
                   = ItemsWorth(items, UnitsOf, 1..Len(lines))
             /\ SumOf(items, LAMBDA item : TRUE, GstReversalAed)
                   = ItemsWorth(items, GstOf, 1..Len(lines))
             /\ \A l : SumOf(items, LAMBDA item : item.line = l, GstReversalAed)
                          = ItemsWorth(items, GstOf, {l})
  <2>1. [i \in 1..Len(items) |-> IF TRUE THEN items[i].quantity ELSE 0]
          = [i \in 1..Len(items) |->
               IF items[i].line \in 1..Len(lines) THEN UnitsOf[items[i]] ELSE 0]
    BY <1>2
  <2>2. [i \in 1..Len(items) |-> IF TRUE THEN GstReversalAed(items[i]) ELSE 0]
          = [i \in 1..Len(items) |->
               IF items[i].line \in 1..Len(lines) THEN GstOf[items[i]] ELSE 0]
    BY <1>2
  <2>3. ASSUME NEW l
        PROVE  [i \in 1..Len(items) |-> IF items[i].line = l THEN GstReversalAed(items[i]) ELSE 0]
                 = [i \in 1..Len(items) |-> IF items[i].line \in {l} THEN GstOf[items[i]] ELSE 0]
    BY <1>2
  <2> QED
    BY <2>1, <2>2, <2>3 DEF SumOf, ItemsWorth
<1>4. RefundReportQty = RefundsWorth(refunds, UnitsOf, 1..Len(lines))
  <2>1. [r \in 1..Len(refunds) |->
           IF refunds[r].is_deleted THEN 0
           ELSE SumOf(refunds[r].lines, LAMBDA item : TRUE, LAMBDA item : item.quantity)]
          = [r \in 1..Len(refunds) |->
               IF refunds[r].is_deleted THEN 0
               ELSE ItemsWorth(refunds[r].lines, UnitsOf, 1..Len(lines))]
    BY <1>1, <1>3
  <2> QED
    BY <1>1, <2>1 DEF RefundReportQty, RefundTotal, RefundsWorth
<1>5. RefundTotal(LAMBDA item : TRUE, GstReversalAed)
        = RefundsWorth(refunds, GstOf, 1..Len(lines))
  <2>1. [r \in 1..Len(refunds) |->
           IF refunds[r].is_deleted THEN 0
           ELSE SumOf(refunds[r].lines, LAMBDA item : TRUE, GstReversalAed)]
          = [r \in 1..Len(refunds) |->
               IF refunds[r].is_deleted THEN 0
               ELSE ItemsWorth(refunds[r].lines, GstOf, 1..Len(lines))]
    BY <1>1, <1>3
  <2> QED
    BY <1>1, <2>1 DEF RefundTotal, RefundsWorth
<1>6. ASSUME NEW l PROVE ReversedGst(l) = RefundsWorth(refunds, GstOf, {l})
  <2>1. [r \in 1..Len(refunds) |->
           IF refunds[r].is_deleted THEN 0
           ELSE SumOf(refunds[r].lines, LAMBDA item : item.line = l, GstReversalAed)]
          = [r \in 1..Len(refunds) |->
               IF refunds[r].is_deleted THEN 0
               ELSE ItemsWorth(refunds[r].lines, GstOf, {l})]
    BY <1>1, <1>3
  <2> QED
    BY <1>1, <2>1 DEF ReversedGst, RefundTotal, RefundsWorth
<1>7. ASSUME NEW l PROVE RefundedQty(l) = RefundsWorth(refunds, UnitsOf, {l})
  <2>1. PICK f, g, h : /\ f = BackBy(refunds, l, "PENDING") /\ g = BackBy(refunds, l, "RECEIVED")
                       /\ h = [r \in 1..Len(refunds) |->
                                 IF refunds[r].is_deleted THEN 0
                                 ELSE ItemsWorth(refunds[r].lines, UnitsOf, {l})]
    OBVIOUS
  <2>2. /\ f \in Seq(Int) /\ Len(f) = Len(refunds) /\ g \in Seq(Int) /\ Len(g) = Len(refunds)
        /\ SumSeq(f) = BackAll(refunds, l, "PENDING") /\ SumSeq(g) = BackAll(refunds, l, "RECEIVED")
    BY <2>1, AmountSequences
  <2>3. h \in Seq(Int) /\ Len(h) = Len(refunds)
    <3>1. h \in Seq(Int)
      <4>1. PICK v \in [BackItems(Len(lines)) -> Int] : v = UnitsOf
        BY UnitsTyped
      <4> QED
        BY <1>1, <2>1, <4>1, WorthTypes
    <3>2. PICK n \in Nat : n = Len(refunds)
      BY <1>1
    <3>3. DOMAIN h = 1..n
      BY <2>1, <3>2
    <3>4. Len(h) = n
      BY <3>1, <3>2, <3>3
    <3> QED
      BY <3>1, <3>2, <3>4
  <2>4. ASSUME NEW items \in Seq(BackItems(Len(lines))), AskSome(items)
        PROVE  ItemsWorth(items, UnitsOf, {l})
                 = Total(items, OnFrom(items, l, "PENDING")) + Total(items, OnFrom(items, l, "RECEIVED"))
    <3> DEFINE A(N) == [i \in 1..Len(items) |-> IF i \in N THEN items[i].quantity ELSE 0]
    <3>1. PICK a, b, c : /\ a = A(OnFrom(items, l, "PENDING")) /\ b = A(OnFrom(items, l, "RECEIVED"))
                         /\ c = [i \in 1..Len(items) |->
                                   IF items[i].line \in {l} THEN UnitsOf[items[i]] ELSE 0]
      OBVIOUS
    <3>2. a \in Seq(Nat) /\ b \in Seq(Nat) /\ c \in Seq(Int)
      <4>1. PICK v \in [BackItems(Len(lines)) -> Int] : v = UnitsOf
        BY UnitsTyped
      <4>2. c \in Seq(Int)
        BY <1>1, <3>1, <4>1, WorthTypes
      <4>3. \A N : A(N) \in Seq(Nat)
        BY <2>4, TotalFacts
      <4>4. a \in Seq(Nat) /\ b \in Seq(Nat)
        BY <3>1, <4>3
      <4> QED
        BY <4>2, <4>4
    <3>3. a \in Seq(Int) /\ b \in Seq(Int)
      BY <3>2
    <3>4. Len(a) = Len(c) /\ Len(b) = Len(c) /\ Len(c) = Len(items)
      <4>1. PICK n \in Nat : n = Len(items)
        OBVIOUS
      <4>2. DOMAIN a = 1..n /\ DOMAIN b = 1..n /\ DOMAIN c = 1..n
        BY <3>1, <4>1
      <4>3. Len(a) = n /\ Len(b) = n /\ Len(c) = n
        BY <3>2, <4>1, <4>2
      <4> QED
        BY <4>1, <4>3
    <3>5. ASSUME NEW i \in 1..Len(items) PROVE c[i] = a[i] + b[i]
      <4>1. PICK item \in BackItems(Len(lines)) : item = items[i]
        OBVIOUS
      <4>2. PICK q \in Nat : q = item.quantity
        BY QuantitiesAssumption DEF BackItems
      <4>3. item.source = "PENDING" \/ item.source = "RECEIVED"
        BY DEF BackItems, RefundSources
      <4>4. c[i] = IF item.line = l THEN q ELSE 0
        BY <1>2, <3>1, <4>1, <4>2
      <4>5. a[i] = IF item.line = l /\ item.source = "PENDING" THEN q ELSE 0
        BY <3>1, <4>1, <4>2 DEF OnFrom, On
      <4>6. b[i] = IF item.line = l /\ item.source = "RECEIVED" THEN q ELSE 0
        BY <3>1, <4>1, <4>2 DEF OnFrom, On
      <4> QED
        BY <4>2, <4>3, <4>4, <4>5, <4>6
    <3>6. SumSeq(c) = SumSeq(a) + SumSeq(b)
      BY <3>2, <3>3, <3>4, <3>5, SumSeqPlus
    <3> QED
      BY <3>1, <3>6 DEF ItemsWorth, Total
  <2>5. ASSUME NEW r \in 1..Len(refunds) PROVE h[r] = f[r] + g[r]
    <3>1. PICK items \in Seq(BackItems(Len(lines))) : items = refunds[r].lines /\ AskSome(items)
      BY TableTypes
    <3>2. PICK x \in Nat, y \in Nat : /\ x = Total(items, OnFrom(items, l, "PENDING"))
                                      /\ y = Total(items, OnFrom(items, l, "RECEIVED"))
      BY <3>1, TotalFacts
    <3>3. ItemsWorth(items, UnitsOf, {l}) = x + y
      BY <2>4, <3>1, <3>2
    <3>4. /\ f[r] = IF refunds[r].is_deleted THEN 0 ELSE x
          /\ g[r] = IF refunds[r].is_deleted THEN 0 ELSE y
          /\ h[r] = IF refunds[r].is_deleted THEN 0 ELSE x + y
      BY <2>1, <3>1, <3>2, <3>3 DEF BackBy, Back
    <3> QED
      BY <3>2, <3>4
  <2>6. SumSeq(h) = SumSeq(f) + SumSeq(g)
    BY <2>2, <2>3, <2>5, SumSeqPlus
  <2>7. RefundedQty(l) = BackAll(refunds, l, "PENDING") + BackAll(refunds, l, "RECEIVED")
    <3>1. /\ CancelledPendingQty(l) = BackAll(refunds, l, "PENDING")
          /\ RefundSum(l, "RECEIVED") = BackAll(refunds, l, "RECEIVED")
      <4>1. collections \in Seq(CollectionRecords(Len(ps), Len(lines)))
        BY DEF TablesTyped
      <4> QED
        BY <1>1, <4>1, RecordsSay
    <3> QED
      BY <3>1 DEF RefundedQty
  <2> QED
    BY <2>1, <2>2, <2>6, <2>7 DEF RefundsWorth
<1> QED
  BY <1>4, <1>5, <1>6, <1>7

\* The reports show the lines that are not deleted: no line outlives its purchase.
LEMMA ReportedLive ==
    ASSUME Inv
    PROVE  /\ ReportLines = {l \in 1..Len(lines) : ~lines[l].is_deleted}
           /\ ReportLines \subseteq 1..Len(lines) /\ IsFiniteSet(ReportLines)
           /\ IsFiniteSet(1..Len(lines))
<1>1. DOMAIN lines = 1..Len(lines) /\ Len(lines) \in Nat
      /\ TablesFit(purchases, lines, collections, refunds)
  BY TablesKnown
<1>2. GoneWith(lines, purchases)
  BY <1>1 DEF TablesFit
<1>3. ReportLines = {l \in 1..Len(lines) : ~lines[l].is_deleted}
  BY <1>1, <1>2 DEF ReportLines, GoneWith
<1>4. IsFiniteSet(1..Len(lines))
  BY <1>1, FS_Interval
<1> QED
  BY <1>3, <1>4, FS_Subset

\* A sum over all refunds is the sum over the lines the reports show.
LEMMA WorthReported ==
    ASSUME Inv, LiveRefundsLive(refunds, lines), NEW v \in [BackItems(Len(lines)) -> Int],
           NEW f, ByLine(f, refunds, v, ReportLines)
    PROVE  RefundsWorth(refunds, v, 1..Len(lines)) = SumFunctionOnSet(f, ReportLines)
<1>1. /\ refunds \in Seq(RefundRecords(Len(purchases), Len(lines)))
      /\ TablesTyped(purchases, lines, collections, refunds)
  BY TablesKnown DEF TablesTyped
<1>2. PICK R, D : R = ReportLines /\ D = (1..Len(lines)) \ R
  OBVIOUS
<1>3. R \union D = 1..Len(lines) /\ R \intersect D = {} /\ IsFiniteSet(R)
  BY <1>2, ReportedLive
<1>4. RefundsWorth(refunds, v, D) = 0
  <2>1. ASSUME NEW r \in 1..Len(refunds), ~refunds[r].is_deleted,
               NEW i \in 1..Len(refunds[r].lines), refunds[r].lines[i].line \in D
        PROVE  FALSE
    <3>1. ~lines[refunds[r].lines[i].line].is_deleted
      BY <2>1 DEF LiveRefundsLive
    <3> QED
      BY <1>2, <2>1, <3>1, ReportedLive
  <2> QED
    BY <1>1, <2>1, WorthNothing
<1>5. RefundsWorth(refunds, v, R) \in Int
  BY <1>1, WorthTypes
<1>6. RefundsWorth(refunds, v, R \union D)
        = RefundsWorth(refunds, v, R) + RefundsWorth(refunds, v, D)
  BY <1>1, <1>3, WorthAdds
<1>7. RefundsWorth(refunds, v, R \union D) = RefundsWorth(refunds, v, R)
  BY <1>4, <1>5, <1>6
<1>8. SumFunctionOnSet(f, R) = RefundsWorth(refunds, v, R)
  <2>1. ByLine(f, refunds, v, R)
    BY <1>2
  <2>2. refunds \in Seq(RefundRecords(Len(purchases), Len(lines)))
    BY <1>1
  <2> QED
    BY <1>3, <2>1, <2>2, WorthByLine
<1> QED
  BY <1>2, <1>3, <1>7, <1>8

\* The refund report shows the refunds of the lines the other reports show.
LEMMA RefundsReported == Inv /\ LiveRefundsLive(refunds, lines) => RefundReportAgrees
<1>1. SUFFICES ASSUME Inv, LiveRefundsLive(refunds, lines) PROVE RefundReportAgrees
  OBVIOUS
<1>2. TablesTyped(purchases, lines, collections, refunds)
  BY <1>1, TablesKnown
<1>3. PICK f : f = [l \in ReportLines |-> RefundedQty(l)]
  OBVIOUS
<1>4. ByLine(f, refunds, UnitsOf, ReportLines)
  BY <1>2, <1>3, SumsAreWorth DEF ByLine
<1>5. RefundsWorth(refunds, UnitsOf, 1..Len(lines)) = SumFunctionOnSet(f, ReportLines)
  BY <1>1, <1>4, UnitsTyped, WorthReported
<1>6. SumFunction(f) = SumFunctionOnSet(f, ReportLines)
  BY <1>3 DEF SumFunction
<1>7. RefundReportQty = RefundsWorth(refunds, UnitsOf, 1..Len(lines))
  BY <1>2, SumsAreWorth
<1> QED
  BY <1>3, <1>5, <1>6, <1>7 DEF RefundReportAgrees

\* Sums of the same numbers are the same.
LEMMA SumSame ==
    ASSUME NEW S, IsFiniteSet(S), NEW f, NEW g, \A x \in S : f[x] \in Int /\ g[x] = f[x]
    PROVE  SumFunctionOnSet(g, S) = SumFunctionOnSet(f, S)
<1>1. PICK z : z = [x \in S |-> 0]
  OBVIOUS
<1>2. \A x \in S : z[x] = 0
  BY <1>1
<1>3. \A x \in S : f[x] \in Int /\ z[x] \in Int /\ g[x] = f[x] + z[x]
  BY <1>2
<1>4. SumFunctionOnSet(z, S) = 0
  BY <1>2, SumZeros
<1>5. SumFunctionOnSet(g, S) = SumFunctionOnSet(f, S) + SumFunctionOnSet(z, S)
  BY <1>3, SumPlus
<1>6. SumFunctionOnSet(f, S) \in Int
  <2>1. \A x \in S : f[x] \in Int
    OBVIOUS
  <2> QED
    BY <2>1, SumAnyFirst
<1> QED
  BY <1>4, <1>5, <1>6

\* Sets that no row tells apart have the same net.
LEMMA SameRows ==
    ASSUME NEW rows, NEW S, NEW T, \A i \in 1..Len(rows) : rows[i] \in S <=> rows[i] \in T
    PROVE  NetIn(rows, S) = NetIn(rows, T)
<1>1. /\ [i \in 1..Len(rows) |-> IF rows[i] \in S THEN rows[i].qty ELSE 0]
            = [i \in 1..Len(rows) |-> IF rows[i] \in T THEN rows[i].qty ELSE 0]
      /\ [i \in 1..Len(rows) |-> IF rows[i] \in S THEN rows[i].aed ELSE 0]
            = [i \in 1..Len(rows) |-> IF rows[i] \in T THEN rows[i].aed ELSE 0]
  OBVIOUS
<1> QED
  BY <1>1 DEF NetIn, Net, SumOf

\* The rows of K that are on a line of a set.
OnLines(K, s) == {row \in K : row.stype \in PurchaseSources /\ row.line \in s}

\* The units in K, line by line, are those of all rows of K that are on some line.
LEMMA UnitsByLine ==
    ASSUME NEW rows \in Seq(Rows), NEW K, K \subseteq Rows, NEW S, IsFiniteSet(S)
    PROVE  SumFunctionOnSet([l \in S |-> NetIn(rows, OnLine(l) \intersect K).qty], S)
              = NetIn(rows, OnLines(K, S)).qty
<1> DEFINE f == [l \in S |-> NetIn(rows, OnLine(l) \intersect K).qty]
           net(s) == NetIn(rows, OnLines(K, s)).qty
           T == {s \in SUBSET S : SumFunctionOnSet(f, s) = net(s)}
<1>1. ASSUME NEW l \in S PROVE f[l] = net({l}) /\ f[l] \in Int
  <2>1. OnLine(l) \intersect K = OnLines(K, {l})
    BY DEF OnLine, OnLines
  <2>2. NetIn(rows, OnLines(K, {l})) \in [qty: Int, aed: Int]
    BY NetInType
  <2> QED
    BY <2>1, <2>2
<1>2. ASSUME NEW s \in SUBSET S, NEW l \in S \ s
      PROVE  net(s \union {l}) = net(s) + net({l}) /\ net(s) \in Int
  <2>1. /\ OnLines(K, s \union {l}) = OnLines(K, s) \union OnLines(K, {l})
        /\ OnLines(K, s) \intersect OnLines(K, {l}) = {}
    BY DEF OnLines
  <2>2. PICK A, B : A = OnLines(K, s) /\ B = OnLines(K, {l})
    OBVIOUS
  <2>3. NetIn(rows, A \union B) = Plus(NetIn(rows, A), NetIn(rows, B))
    BY <2>1, <2>2, NetInUnion
  <2>4. NetIn(rows, A) \in [qty: Int, aed: Int]
    BY NetInType
  <2>5. NetIn(rows, A \union B).qty = NetIn(rows, A).qty + NetIn(rows, B).qty
    BY <2>3 DEF Plus
  <2>6. net(s) = NetIn(rows, A).qty /\ net({l}) = NetIn(rows, B).qty
    BY <2>2
  <2>7. net(s \union {l}) = NetIn(rows, A \union B).qty
    BY <2>1, <2>2
  <2>8. net(s) \in Int
    BY <2>4, <2>6
  <2> HIDE DEF net
  <2> QED
    BY <2>5, <2>6, <2>7, <2>8
<1>3. net({}) = 0
  <2>1. \A i \in 1..Len(rows) : rows[i] \notin OnLines(K, {})
    BY DEF OnLines
  <2> QED
    BY <2>1, NetInNone DEF NoStock
<1> HIDE DEF f, net
<1>4. {} \in T
  BY <1>3, SumNothing
<1>5. ASSUME NEW s \in SUBSET S, NEW l \in S \ s, s \in T PROVE s \union {l} \in T
  <2>1. SumFunctionOnSet(f, s \union {l}) = f[l] + SumFunctionOnSet(f, s)
    <3>1. IsFiniteSet(s) /\ \A y \in s \union {l} : f[y] \in Int
      BY <1>1, FS_Subset
    <3> QED
      BY <3>1, SumOneMore
  <2>2. PICK n \in Int, m \in Int : n = net(s) /\ m = net({l})
    BY <1>1, <1>2
  <2>3. SumFunctionOnSet(f, s \union {l}) = m + n
    BY <1>1, <1>5, <2>1, <2>2
  <2>4. net(s \union {l}) = n + m
    BY <1>2, <2>2
  <2> QED
    BY <2>3, <2>4
<1> HIDE DEF T
<1>6. S \in T
  BY <1>4, <1>5, SubsetInduction
<1> QED
  BY <1>6 DEF T, f, net

\* What a line has pending of its product, where it was bought, is all it has pending;
\* of another product, or elsewhere, it has nothing.
LEMMA PendingWhere ==
    ASSUME Inv, NEW l \in 1..Len(lines), NEW p \in Products, NEW loc \in Locations,
           NEW K, K = AtKey(<<p, loc, "PENDING">>)
    PROVE  NetIn(ledger, OnLine(l) \intersect K).qty =
              IF lines[l].product = p /\ purchases[lines[l].purchase].location = loc
              THEN NetIn(ledger, OnLine(l) \intersect Pend).qty ELSE 0
<1>1. ledger \in Seq(Rows) /\ RowsFit(ledger, purchases, lines, collections, refunds)
  BY TablesKnown
<1>2. Nothing(ledger, OnLine(l) \ OfProduct(lines[l].product))
  BY LineKnown DEF LineGood
<1>3. ASSUME NEW i \in 1..Len(ledger), ledger[i] \in OnLine(l), ledger[i].bucket = "PENDING"
      PROVE  ledger[i].loc = purchases[lines[l].purchase].location
  BY <1>1, <1>3 DEF RowsFit, RowFits, OwnRowFits, OnLine
<1>4. \A row \in K : row \in Rows /\ row.product = p /\ row.loc = loc /\ row.bucket = "PENDING"
  BY DEF AtKey, KeyOf
<1>5. CASE lines[l].product # p
  <2>1. PICK S : S = OnLine(l) \intersect K
    OBVIOUS
  <2>2. Blind(S)
    BY <2>1, SetsBlind, BlindParts
  <2>3. S \subseteq OnLine(l) \ OfProduct(lines[l].product)
    BY <1>4, <1>5, <2>1 DEF OfProduct
  <2>4. NetIn(ledger, S) = NoStock
    BY <1>2, <2>2, <2>3 DEF Nothing
  <2> QED
    BY <1>5, <2>1, <2>4 DEF NoStock
<1>6. CASE purchases[lines[l].purchase].location # loc
  <2>1. \A i \in 1..Len(ledger) : ledger[i] \notin OnLine(l) \intersect K
    BY <1>3, <1>4, <1>6
  <2>2. NetIn(ledger, OnLine(l) \intersect K) = NoStock
    BY <1>1, <2>1, NetInNone
  <2> QED
    BY <1>6, <2>2 DEF NoStock
<1>7. CASE lines[l].product = p /\ purchases[lines[l].purchase].location = loc
  <2>1. PICK S, P : S = OnLine(l) \intersect Pend /\ P = OfProduct(p)
    OBVIOUS
  <2>2. Blind(S) /\ Blind(P)
    BY <2>1, SetsBlind, BlindParts
  <2>3. Nothing(ledger, S \ P)
    <3>1. S \ P \subseteq OnLine(l) \ OfProduct(lines[l].product)
      BY <1>7, <2>1
    <3> QED
      BY <1>2, <3>1, NothingLess
  <2>4. NetIn(ledger, S) = NetIn(ledger, S \intersect P)
    BY <1>1, <2>2, <2>3, AllWithin
  <2>5. \A i \in 1..Len(ledger) :
           ledger[i] \in S \intersect P <=> ledger[i] \in OnLine(l) \intersect K
    <3>1. SUFFICES ASSUME NEW i \in 1..Len(ledger), ledger[i] \in OnLine(l)
                   PROVE  ledger[i] \in Pend \intersect P <=> ledger[i] \in K
      BY <2>1
    <3>2. PICK row \in Rows : row = ledger[i]
      BY <1>1
    <3>3. row.bucket = "PENDING" => row.loc = loc
      BY <1>3, <1>7, <3>1, <3>2
    <3>4. row \in Pend \intersect P <=> row.bucket = "PENDING" /\ row.product = p
      BY <2>1 DEF Pend, BucketRows, OfProduct
    <3>5. row \in K <=> row.product = p /\ row.loc = loc /\ row.bucket = "PENDING"
      BY DEF AtKey, KeyOf
    <3> QED
      BY <3>2, <3>3, <3>4, <3>5
  <2>6. NetIn(ledger, S \intersect P) = NetIn(ledger, OnLine(l) \intersect K)
    BY <2>5, SameRows
  <2> QED
    BY <1>7, <2>1, <2>4, <2>6
<1> QED
  BY <1>5, <1>6, <1>7

\* The pending report shows for every product and location what the balances hold.
LEMMA PendingReported == Inv => PendingReportAgrees
<1>1. SUFFICES ASSUME Inv, NEW p \in Products, NEW loc \in Locations
               PROVE  PendingAt(p, loc) = balance[<<p, loc, "PENDING">>].qty
  BY DEF PendingReportAgrees
<1>2. /\ ledger \in Seq(Rows) /\ RowsFit(ledger, purchases, lines, collections, refunds)
      /\ DOMAIN lines = 1..Len(lines)
  BY <1>1, TablesKnown
<1>3. PICK n, K : n = 1..Len(lines) /\ K = AtKey(<<p, loc, "PENDING">>)
  OBVIOUS
<1>4. PICK g : g = [l \in n |-> NetIn(ledger, OnLine(l) \intersect K).qty]
  OBVIOUS
<1>5. PICK S : S = {l \in PendingRows : /\ lines[l].product = p
                                        /\ purchases[lines[l].purchase].location = loc}
  OBVIOUS
<1>6. PICK f : f = [l \in S |-> PendingQty(lines, l)]
  OBVIOUS
<1>7. S \in SUBSET n /\ IsFiniteSet(n) /\ IsFiniteSet(S)
  <2>1. PendingRows \subseteq n
    BY <1>1, <1>3, ReportedLive DEF PendingRows
  <2>2. IsFiniteSet(n)
    BY <1>1, <1>3, ReportedLive
  <2> QED
    BY <1>5, <2>1, <2>2, FS_Subset
<1>8. \A l \in n : g[l] \in Int
  <2>1. ASSUME NEW l \in n PROVE g[l] \in Int
    <3>1. NetIn(ledger, OnLine(l) \intersect K) \in [qty: Int, aed: Int]
      BY <1>2, NetInType
    <3> QED
      BY <1>4, <3>1
  <2> QED
    BY <2>1
<1>9. ASSUME NEW l \in n, lines[l].product = p, purchases[lines[l].purchase].location = loc,
             ~lines[l].is_deleted
      PROVE  g[l] = PendingQty(lines, l) /\ PendingQty(lines, l) >= 0
  <2>1. g[l] = NetIn(ledger, OnLine(l) \intersect Pend).qty
    BY <1>1, <1>3, <1>4, <1>9, PendingWhere
  <2>2. PendingRemainder(ledger, l) = NetIn(ledger, OnLine(l) \intersect Pend)
    BY <1>2, SumsAreNets
  <2>3. PendingQty(lines, l) = PendingRemainder(ledger, l).qty /\ PendingQty(lines, l) >= 0
    BY <1>1, <1>2, <1>3, <1>9, InvMeansPending DEF PendingMatchesLedger
  <2> QED
    BY <2>1, <2>2, <2>3
<1>10. \A l \in S : g[l] \in Int /\ f[l] = g[l]
  <2>1. ASSUME NEW l \in S PROVE f[l] = g[l]
    <3>1. l \in n /\ ~lines[l].is_deleted /\ lines[l].product = p
          /\ purchases[lines[l].purchase].location = loc
      BY <1>5, <1>7 DEF PendingRows, ReportLines
    <3> QED
      BY <1>6, <1>9, <3>1
  <2> QED
    BY <1>7, <1>8, <2>1
<1>11. \A l \in n \ S : g[l] = 0
  <2>1. SUFFICES ASSUME NEW l \in n, l \notin S PROVE g[l] = 0
    OBVIOUS
  <2>2. l \in 1..Len(lines)
    BY <1>3
  <2>3. CASE ~(lines[l].product = p /\ purchases[lines[l].purchase].location = loc)
    BY <1>1, <1>3, <1>4, <2>2, <2>3, PendingWhere
  <2>4. CASE /\ lines[l].product = p /\ purchases[lines[l].purchase].location = loc
             /\ lines[l].is_deleted
    <3>1. g[l] = NetIn(ledger, OnLine(l) \intersect Pend).qty
      BY <1>1, <1>3, <1>4, <2>2, <2>4, PendingWhere
    <3>2. NetIn(ledger, OnLine(l) \intersect Pend).qty = 0
      BY <1>1, <2>2, <2>4, LineKnown DEF LineGood, DeadLine
    <3> QED
      BY <3>1, <3>2
  <2>5. CASE /\ lines[l].product = p /\ purchases[lines[l].purchase].location = loc
             /\ ~lines[l].is_deleted
    <3>1. l \in ReportLines
      BY <1>1, <2>2, <2>5, ReportedLive
    <3>2. ~(PendingQty(lines, l) > 0)
      BY <1>5, <2>1, <2>5, <3>1 DEF PendingRows
    <3>3. PICK q : q = PendingQty(lines, l)
      OBVIOUS
    <3>4. g[l] = q /\ q >= 0 /\ ~(q > 0) /\ g[l] \in Int
      BY <1>8, <1>9, <2>5, <3>2, <3>3
    <3> QED
      BY <3>4
  <2> QED
    BY <2>3, <2>4, <2>5
<1>12. PendingAt(p, loc) = SumFunctionOnSet(f, S)
  <2>1. PendingAt(p, loc) = SumFunction(f)
    BY <1>5, <1>6 DEF PendingAt
  <2>2. DOMAIN f = S
    BY <1>6
  <2> QED
    BY <2>1, <2>2 DEF SumFunction
<1>13. SumFunctionOnSet(f, S) = SumFunctionOnSet(g, S)
  BY <1>7, <1>10, SumSame
<1>14. SumFunctionOnSet(g, S) = SumFunctionOnSet(g, n)
  BY <1>7, <1>8, <1>11, SumLessZeros
<1>15. SumFunctionOnSet(g, n) = NetIn(ledger, OnLines(K, n)).qty
  <2>1. K \subseteq Rows
    BY <1>3 DEF AtKey
  <2> QED
    BY <1>2, <1>4, <1>7, <2>1, UnitsByLine
<1>16. NetIn(ledger, OnLines(K, n)) = NetIn(ledger, K)
  <2>1. ASSUME NEW i \in 1..Len(ledger) PROVE ledger[i] \in OnLines(K, n) <=> ledger[i] \in K
    <3>1. ledger[i] \in K => ledger[i].bucket = "PENDING"
      BY <1>3 DEF AtKey, KeyOf
    <3>2. ledger[i] \in K => ledger[i].stype \in PurchaseSources /\ ledger[i].line \in n
      BY <1>2, <1>3, <3>1 DEF RowsFit, RowFits, OwnRowFits
    <3> QED
      BY <3>2 DEF OnLines
  <2> QED
    BY <2>1, SameRows
<1>17. balance[<<p, loc, "PENDING">>] = NetIn(ledger, K)
  <2>1. PICK key \in Keys : key = <<p, loc, "PENDING">>
    BY DEF Keys, Buckets
  <2>2. balance[key] = Rollup(ledger, key)
    <3>1. Sound(Book)
      BY <1>1 DEF Inv
    <3>2. balance = [k \in Keys |-> Rollup(ledger, k)]
      BY <3>1 DEF Sound, Book
    <3> QED
      BY <3>2
  <2>3. Rollup(ledger, key) = NetIn(ledger, {row \in Rows : KeyOf(row) = key})
    BY <1>2, RollupIn
  <2>4. K = {row \in Rows : KeyOf(row) = key}
    BY <1>3, <2>1 DEF AtKey
  <2> QED
    BY <2>1, <2>2, <2>3, <2>4
<1> QED
  BY <1>12, <1>13, <1>14, <1>15, <1>16, <1>17

\* Division by a positive number gives nothing exactly below it.
LEMMA DivNothing ==
    ASSUME NEW x \in Nat, NEW y \in Nat \ {0}
    PROVE  x \div y = 0 <=> x < y
OBVIOUS

\* Of less, no more is rounded up.
LEMMA RoundLess ==
    ASSUME NEW n \in Nat, NEW m \in Nat, n <= m, NEW d \in Nat \ {0}, RoundHalfUp(m, d) = 0
    PROVE  RoundHalfUp(n, d) = 0
<1>1. PICK x \in Nat, y \in Nat, z \in Nat \ {0} : x = 2 * n + d /\ y = 2 * m + d /\ z = 2 * d
  OBVIOUS
<1>2. RoundHalfUp(n, d) = x \div z /\ RoundHalfUp(m, d) = y \div z
  BY <1>1 DEF RoundHalfUp
<1>3. y < z
  BY <1>1, <1>2, DivNothing
<1>4. x < z
  BY <1>1, <1>3
<1>5. x \div z = 0
  BY <1>4, DivNothing
<1> QED
  BY <1>2, <1>5

\* Half of nothing is nothing.
LEMMA RoundNothing ==
    ASSUME NEW d \in Nat \ {0}
    PROVE  RoundHalfUp(0, d) = 0
<1>1. PICK z \in Nat \ {0} : z = 2 * d
  OBVIOUS
<1>2. RoundHalfUp(0, d) = d \div z
  BY <1>1 DEF RoundHalfUp
<1>3. d < z
  BY <1>1
<1>4. d \div z = 0
  BY <1>3, DivNothing
<1> QED
  BY <1>2, <1>4

\* An amount without GST has none in a part of it.
LEMMA GstLess ==
    ASSUME GstRate \in Nat, NEW n \in Nat, NEW m \in Nat, n <= m, GstComponent(m, GstRate) = 0
    PROVE  GstComponent(n, GstRate) = 0
<1>1. CASE GstRate = 0
  BY <1>1 DEF GstComponent
<1>2. CASE GstRate # 0
  <2>1. PICK x \in Nat, y \in Nat, d \in Nat \ {0} :
           x = n * GstRate /\ y = m * GstRate /\ d = 100 + GstRate
    OBVIOUS
  <2>2. x <= y
    BY <2>1
  <2>3. RoundHalfUp(y, d) = 0
    BY <1>2, <2>1 DEF GstComponent
  <2>4. RoundHalfUp(x, d) = 0
    BY <2>2, <2>3, RoundLess
  <2> QED
    BY <1>2, <2>1, <2>4 DEF GstComponent
<1> QED
  BY <1>1, <1>2

\* No line has more refunded than it counts.
RefundsWithinLines == \A l \in ReportLines : RefundedQty(l) <= lines[l].quantity

\* The money terms of a line.
LEMMA LineMoney ==
    ASSUME Inv, NEW l \in 1..Len(lines)
    PROVE  lines[l].quantity \in Nat /\ lines[l].price \in Nat /\ lines[l].rate \in Nat
<1>1. lines[l] \in LineRecords(Len(purchases))
  BY TablesKnown DEF TablesTyped
<1> QED
  BY <1>1, QuantitiesAssumption, MoneyAssumption DEF LineRecords

\* The GST of a line.
LEMMA LineGst ==
    ASSUME Inv, GstRate \in Nat, NEW l \in 1..Len(lines)
    PROVE  /\ GstAmount(l) \in Nat /\ GstAmountAed(l) \in Int
           /\ GstAmount(l) = 0 => GstAmountAed(l) = 0
<1>1. PICK q \in Nat, price \in Nat, rate \in Nat :
         q = lines[l].quantity /\ price = lines[l].price /\ rate = lines[l].rate
  BY LineMoney
<1>2. q * price \in Nat
  OBVIOUS
<1>3. PICK gst \in Nat : gst = GstComponent(q * price, GstRate)
  BY <1>2, GstNatural
<1>4. GstAmount(l) = gst
  BY <1>1, <1>3 DEF GstAmount
<1>5. PICK n \in Nat : n = gst * rate
  OBVIOUS
<1>6. GstAmountAed(l) = RoundHalfUp(n, RateScale)
  BY <1>1, <1>4, <1>5 DEF GstAmountAed
<1>7. RoundHalfUp(n, RateScale) \in Nat
  BY MoneyAssumption, RoundNatural
<1>8. gst = 0 => n = 0
  BY <1>5
<1>9. RoundHalfUp(0, RateScale) = 0
  BY MoneyAssumption, RoundNothing
<1> QED
  BY <1>4, <1>6, <1>7, <1>8, <1>9

\* A refund line that counts is part of what is refunded of its line.
LEMMA ItemRefunded ==
    ASSUME Inv, NEW r \in 1..Len(refunds), ~refunds[r].is_deleted,
           NEW i \in 1..Len(refunds[r].lines), NEW l, refunds[r].lines[i].line = l
    PROVE  /\ refunds[r].lines[i].quantity \in Nat /\ RefundedQty(l) \in Nat
           /\ refunds[r].lines[i].quantity <= RefundedQty(l)
<1>1. TablesTyped(purchases, lines, collections, refunds)
  BY TablesKnown
<1>2. PICK items \in Seq(BackItems(Len(lines))) : items = refunds[r].lines /\ AskSome(items)
  BY <1>1, TableTypes
<1>3. PICK item \in BackItems(Len(lines)) : item = items[i]
  BY <1>2
<1>4. PICK source \in RefundSources : source = item.source
  BY DEF BackItems
<1>5. PICK q \in Nat : q = item.quantity
  BY QuantitiesAssumption DEF BackItems
<1>6. i \in OnFrom(items, l, source)
  BY <1>2, <1>3, <1>4 DEF OnFrom, On
<1>7. Total(items, OnFrom(items, l, source)) >= q
  <2>1. PICK f : f = [j \in 1..Len(items) |->
                         IF j \in OnFrom(items, l, source) THEN items[j].quantity ELSE 0]
    OBVIOUS
  <2>2. f \in Seq(Nat)
    <3>1. AskSome(items)
      BY <1>2
    <3>2. \A N : [j \in 1..Len(items) |-> IF j \in N THEN items[j].quantity ELSE 0] \in Seq(Nat)
      BY <3>1, TotalFacts
    <3>3. PICK N : N = OnFrom(items, l, source)
      OBVIOUS
    <3> QED
      BY <2>1, <3>2, <3>3
  <2>3. f[i] = q /\ i \in 1..Len(f)
    BY <1>2, <1>3, <1>5, <1>6, <2>1
  <2>4. SumSeq(f) >= f[i]
    BY <2>2, <2>3, SumSeqAtLeast
  <2> QED
    BY <2>1, <2>3, <2>4 DEF Total
<1>8. Back(refunds, r, l, source) >= q
  BY <1>2, <1>7 DEF Back
<1>9. BackAll(refunds, l, source) >= q
  <2>1. PICK f : f = BackBy(refunds, l, source)
    OBVIOUS
  <2>2. f \in Seq(Nat) /\ f[r] = Back(refunds, r, l, source) /\ r \in 1..Len(f)
    <3>0. \A k \in 1..Len(refunds) : Back(refunds, k, l, source) \in Nat
      BY <1>1, AmountTypes
    <3>1. BackBy(refunds, l, source) \in Seq(Nat)
      <4>1. Len(refunds) \in Nat
        BY <1>1, TableTypes
      <4> QED
        BY <3>0, <4>1 DEF BackBy
    <3>2. f \in Seq(Nat) /\ DOMAIN f = 1..Len(refunds)
      BY <2>1, <3>1 DEF BackBy
    <3>3. r \in 1..Len(f)
      BY <3>2
    <3> QED
      BY <2>1, <3>2, <3>3 DEF BackBy
  <2>3. SumSeq(f) >= f[r] /\ f[r] \in Nat /\ SumSeq(f) \in Nat
    BY <2>2, SumSeqAtLeast
  <2>4. BackAll(refunds, l, source) = SumSeq(f)
    BY <2>1 DEF BackAll, BackBy
  <2> QED
    BY <1>8, <2>2, <2>3, <2>4
<1>10. /\ CancelledPendingQty(l) = BackAll(refunds, l, "PENDING")
       /\ RefundSum(l, "RECEIVED") = BackAll(refunds, l, "RECEIVED")
  <2>1. /\ collections \in Seq(CollectionRecords(Len(purchases), Len(lines)))
        /\ refunds \in Seq(RefundRecords(Len(purchases), Len(lines)))
    BY <1>1 DEF TablesTyped
  <2> QED
    BY <2>1, RecordsSay
<1>11. PICK a \in Nat, b \in Nat : a = CancelledPendingQty(l) /\ b = RefundSum(l, "RECEIVED")
  BY <1>1, CountTypes
<1>12. q <= a + b
  <2>1. CASE source = "PENDING"
    BY <1>9, <1>10, <1>11, <2>1
  <2>2. CASE source = "RECEIVED"
    BY <1>9, <1>10, <1>11, <2>2
  <2> QED
    BY <1>4, <2>1, <2>2 DEF RefundSources
<1>13. RefundedQty(l) = a + b
  BY <1>11 DEF RefundedQty
<1> QED
  BY <1>2, <1>3, <1>5, <1>12, <1>13

\* A line without GST has none reversed, if no more is refunded than it counts.
LEMMA NoGstReversed ==
    ASSUME Inv, GstRate \in Nat, NEW l \in 1..Len(lines), GstAmount(l) = 0,
           RefundedQty(l) <= lines[l].quantity
    PROVE  RefundsWorth(refunds, GstOf, {l}) = 0
<1>1. TablesTyped(purchases, lines, collections, refunds)
  BY TablesKnown
<1>2. PICK m \in Nat, price \in Nat, rate \in Nat :
         m = lines[l].quantity /\ price = lines[l].price /\ rate = lines[l].rate
  BY LineMoney
<1>3. GstComponent(m * price, GstRate) = 0
  BY <1>2 DEF GstAmount
<1>4. ASSUME NEW r \in 1..Len(refunds), ~refunds[r].is_deleted,
             NEW i \in 1..Len(refunds[r].lines), refunds[r].lines[i].line \in {l}
      PROVE  GstOf[refunds[r].lines[i]] = 0
  <2>1. PICK items \in Seq(BackItems(Len(lines))) : items = refunds[r].lines
    BY <1>1, TableTypes
  <2>2. PICK item \in BackItems(Len(lines)) : item = items[i]
    BY <2>1
  <2>3. item.line = l
    BY <1>4, <2>1, <2>2
  <2>4. PICK q \in Nat, all \in Nat : q = item.quantity /\ all = RefundedQty(l) /\ q <= all
    BY <1>4, <2>1, <2>2, <2>3, ItemRefunded
  <2>5. q <= m
    BY <1>2, <2>4
  <2>6. PICK x \in Nat, y \in Nat : x = q * price /\ y = m * price
    OBVIOUS
  <2>7. x <= y
    BY <2>5, <2>6
  <2>8. GstComponent(x, GstRate) = 0
    BY <1>3, <2>6, <2>7, GstLess
  <2>9. GstReversalAed(item) = RoundHalfUp(GstComponent(x, GstRate) * rate, RateScale)
    BY <1>2, <2>3, <2>4, <2>6 DEF GstReversalAed
  <2>10. 0 * rate = 0
    OBVIOUS
  <2>11. GstReversalAed(item) = RoundHalfUp(0, RateScale)
    BY <2>8, <2>9, <2>10
  <2>12. GstReversalAed(item) = 0
    BY <2>11, MoneyAssumption, RoundNothing
  <2> QED
    BY <2>1, <2>2, <2>12 DEF GstOf
<1>5. refunds \in Seq(RefundRecords(Len(purchases), Len(lines)))
  BY <1>1 DEF TablesTyped
<1>6. GstOf \in [BackItems(Len(lines)) -> Int]
  BY <1>1, GstTyped
<1> QED
  BY <1>4, <1>5, <1>6, WorthNothing

\* The net GST of the dashboard is that of the GST report.
LEMMA GstReported ==
    ASSUME Inv, GstRate \in Nat, LiveRefundsLive(refunds, lines), RefundsWithinLines
    PROVE  GstReportsAgree
<1>1. TablesTyped(purchases, lines, collections, refunds) /\ DOMAIN lines = 1..Len(lines)
  BY TablesKnown
<1>2. PICK R, G : R = ReportLines /\ G = GstRows
  OBVIOUS
<1>3. G \in SUBSET R /\ IsFiniteSet(R)
  BY <1>2, ReportedLive DEF GstRows
<1>4. PICK a, b, c : /\ a = [l \in R |-> GstAmountAed(l)]
                     /\ b = [l \in R |-> ReversedGst(l)]
                     /\ c = [l \in R |-> GstAmountAed(l) - ReversedGst(l)]
  OBVIOUS
<1>5. ASSUME NEW l \in R
      PROVE  /\ a[l] \in Int /\ b[l] \in Int /\ c[l] \in Int /\ a[l] = c[l] + b[l]
             /\ b[l] = RefundsWorth(refunds, GstOf, {l})
  <2>1. l \in 1..Len(lines)
    BY <1>2, ReportedLive
  <2>2. PICK x \in Int : x = GstAmountAed(l)
    BY <2>1, LineGst
  <2>3. ReversedGst(l) = RefundsWorth(refunds, GstOf, {l})
    BY <1>1, SumsAreWorth
  <2>4. PICK y \in Int : y = ReversedGst(l)
    <3>1. refunds \in Seq(RefundRecords(Len(purchases), Len(lines)))
      BY <1>1 DEF TablesTyped
    <3>2. GstOf \in [BackItems(Len(lines)) -> Int]
      BY <1>1, GstTyped
    <3>3. RefundsWorth(refunds, GstOf, {l}) \in Int
      BY <3>1, <3>2, WorthTypes
    <3> QED
      BY <2>3, <3>3
  <2>5. a[l] = x /\ b[l] = y /\ c[l] = x - y
    BY <1>4, <2>2, <2>4
  <2> QED
    BY <2>2, <2>3, <2>4, <2>5
<1>6. ASSUME NEW l \in R \ G PROVE c[l] = 0
  <2>1. l \in 1..Len(lines)
    BY <1>2, ReportedLive
  <2>2. GstAmount(l) = 0
    <3>1. ~(GstAmount(l) > 0)
      BY <1>2 DEF GstRows
    <3>2. PICK x \in Nat : x = GstAmount(l)
      BY <2>1, LineGst
    <3> QED
      BY <3>1, <3>2
  <2>3. GstAmountAed(l) = 0
    BY <2>1, <2>2, LineGst
  <2>4. RefundsWorth(refunds, GstOf, {l}) = 0
    BY <1>2, <2>1, <2>2, NoGstReversed DEF RefundsWithinLines
  <2>5. ReversedGst(l) = 0
    BY <1>1, <2>4, SumsAreWorth
  <2> QED
    BY <1>4, <2>3, <2>5
<1>7. SumFunctionOnSet(c, G) = SumFunctionOnSet(c, R)
  <2>1. \A l \in R : c[l] \in Int
    BY <1>5
  <2> QED
    BY <1>3, <1>6, <2>1, SumLessZeros
<1>8. SumFunctionOnSet(a, R) = SumFunctionOnSet(c, R) + SumFunctionOnSet(b, R)
  <2>1. \A l \in R : c[l] \in Int /\ b[l] \in Int /\ a[l] = c[l] + b[l]
    BY <1>5
  <2> QED
    BY <1>3, <2>1, SumPlus
<1>9. /\ SumFunctionOnSet(c, R) \in Int /\ SumFunctionOnSet(b, R) \in Int
  <2>1. (\A l \in R : c[l] \in Int) /\ \A l \in R : b[l] \in Int
    BY <1>5
  <2> QED
    BY <1>3, <2>1, SumAnyFirst
<1>10. SumFunctionOnSet(b, R) = RefundTotal(LAMBDA item : TRUE, GstReversalAed)
  <2>1. ByLine(b, refunds, GstOf, R)
    BY <1>5 DEF ByLine
  <2>2. GstOf \in [BackItems(Len(lines)) -> Int]
    BY <1>1, GstTyped
  <2>3. RefundsWorth(refunds, GstOf, 1..Len(lines)) = SumFunctionOnSet(b, R)
    BY <1>2, <2>1, <2>2, WorthReported
  <2> QED
    BY <1>1, <2>3, SumsAreWorth
<1>11. GstReportNet = SumFunctionOnSet(c, G)
  <2>1. PICK d : d = [l \in G |-> GstAmountAed(l) - ReversedGst(l)]
    OBVIOUS
  <2>2. \A l \in G : c[l] \in Int /\ d[l] = c[l]
    BY <1>3, <1>4, <1>5, <2>1
  <2>3. SumFunctionOnSet(d, G) = SumFunctionOnSet(c, G)
    <3>1. IsFiniteSet(G)
      BY <1>3, FS_Subset
    <3> QED
      BY <2>2, <3>1, SumSame
  <2>4. DOMAIN d = G
    BY <2>1
  <2>5. GstReportNet = SumFunction(d)
    BY <1>2, <2>1 DEF GstReportNet
  <2> QED
    BY <2>3, <2>4, <2>5 DEF SumFunction
<1>12. DashboardGst = SumFunctionOnSet(a, R)
                        - RefundTotal(LAMBDA item : TRUE, GstReversalAed)
  <2>1. {x \in DOMAIN lines : ~lines[x].is_deleted} = R
    BY <1>1, <1>2, ReportedLive
  <2>2. SumFunction(a) = SumFunctionOnSet(a, R)
    BY <1>4 DEF SumFunction
  <2> QED
    BY <1>4, <2>1, <2>2 DEF DashboardGst
<1>13. PICK s \in Int, t \in Int : s = SumFunctionOnSet(c, R) /\ t = SumFunctionOnSet(b, R)
  BY <1>9
<1>14. DashboardGst = (s + t) - t /\ GstReportNet = s
  BY <1>7, <1>8, <1>10, <1>11, <1>12, <1>13
<1> QED
  BY <1>14 DEF GstReportsAgree

\* Live refunds name live lines, in every state.
LEMMA ReportsInvAlways == OpenSpec => [](Inv /\ LiveRefundsLive(refunds, lines))
<1>1. Init => Inv /\ LiveRefundsLive(refunds, lines)
  <2>1. Init => refunds = << >>
    BY DEF Init
  <2>2. refunds = << >> => LiveRefundsLive(refunds, lines)
    BY DEF LiveRefundsLive
  <2> QED
    BY <2>1, <2>2, InitInv
<1>2. /\ Inv /\ LiveRefundsLive(refunds, lines)
      /\ [Next \/ OthersPost]_vars
      => (Inv /\ LiveRefundsLive(refunds, lines))'
  <2>1. SUFFICES ASSUME Inv, LiveRefundsLive(refunds, lines), [Next \/ OthersPost]_vars
                 PROVE  Inv' /\ LiveRefundsLive(refunds', lines')
    OBVIOUS
  <2> QED
    BY <2>1, StepInv, LiveRefundsStep
<1> QED
  BY <1>1, <1>2, PTL DEF OpenSpec

-----------------------------------------------------------------------------
(* Theorems *)

\* Every record, row and balance has its type, whatever sequence of requests the
\* service accepts (Purchase, PurchaseLine, PurchaseCollection, PurchaseRefund and
\* their lines, models.py).
THEOREM PurchasesTyped == Spec => []TypeOK
BY SpecOpen, InvAlways, InvMeansTypeOK, PTL

\* The pending quantity users see is what the ledger holds in PENDING for the line,
\* and never negative (pending_qty, models.py; SYSTEM_SPEC section 8).
THEOREM PendingFollowsRecords == Spec => []PendingMatchesLedger
BY SpecOpen, InvAlways, InvMeansPending, PTL

\* What the ledger holds in PHYSICAL for a line is what was collected and not
\* returned of it, per the records (collect_purchase, create_refund, corrections.py).
THEOREM HeldFollowsRecords == Spec => []HeldMatchesRecords
BY SpecOpen, InvAlways, InvMeansHeld, PTL

\* An undone collection or refund of a live purchase leaves nothing, also when a line
\* of it was corrected or removed since (delete_collection, delete_refund).
THEOREM UndoneIsGone == Spec => []UndoneContributesNothing
BY SpecOpen, InvAlways, InvMeansUndone, PTL

\* A corrected or repriced line leaves nothing on the product it used to name
\* (net_reversal_movements, correct_line).
THEOREM SupersededIsGone == Spec => []NothingOnSupersededProduct
BY SpecOpen, InvAlways, InvMeansSuperseded, PTL

\* No value is left in PENDING once a line has no pending units, and never less than
\* nothing, if no request names a line twice (_share, services.py).
THEOREM PendingLeavesNoResidue == ~RepeatedLines => (Spec => []NoPendingResidue)
<1>1. SUFFICES ASSUME ~RepeatedLines PROVE Spec => []NoPendingResidue
  OBVIOUS
<1>2. Inv => NoPendingResidue
  BY <1>1, InvMeansNoResidue
<1> QED
  BY <1>2, SpecOpen, InvAlways, PTL

\* A removed line and the lines of a deleted purchase hold nothing, but for an
\* overdraft where received stock was once returned (soft_delete_purchase,
\* _remove_line), if no request names a line twice.
THEOREM DeletedIsEmpty == ~RepeatedLines => (Spec => []DeletedHoldsNothing)
<1>1. SUFFICES ASSUME ~RepeatedLines PROVE Spec => []DeletedHoldsNothing
  OBVIOUS
<1>2. Inv => DeletedHoldsNothing
  BY <1>1, InvMeansDeleted
<1> QED
  BY <1>2, SpecOpen, InvAlways, PTL

\* An edit never changes how much of a kept line is where ("without creating or
\* changing collection quantities", corrections.py).
THEOREM EditsKeepReceived == Spec => EditKeepsReceivedStock
<1>1. Inv /\ [Next \/ OthersPost]_vars =>
        [lines' # lines /\ purchases' = purchases =>
           \A l \in DOMAIN lines, loc \in Locations : ~lines'[l].is_deleted =>
              PhysicalRemainder(ledger', l, loc).qty = PhysicalRemainder(ledger, l, loc).qty]_vars
  BY StepKeepsReceived
<1>2. OpenSpec => EditKeepsReceivedStock
  BY <1>1, InvAlways, PTL DEF OpenSpec, EditKeepsReceivedStock
<1> QED
  BY <1>2, SpecOpen, PTL

\* All this stays so among other apps that post whatever they like, as long as they post
\* neither in the name of a purchase nor in PENDING.
THEOREM PurchasesAmongOthers ==
    OpenSpec => [](/\ TypeOK /\ PendingMatchesLedger /\ HeldMatchesRecords
                   /\ UndoneContributesNothing /\ NothingOnSupersededProduct)
<1>1. Inv => /\ TypeOK /\ PendingMatchesLedger /\ HeldMatchesRecords
             /\ UndoneContributesNothing /\ NothingOnSupersededProduct
  BY InvMeansTypeOK, InvMeansPending, InvMeansHeld, InvMeansUndone, InvMeansSuperseded
<1> QED
  BY <1>1, InvAlways, PTL

\* The pending report and the balances count the same units, and the refund report
\* shows the refunds of the lines the other reports show, also among other apps
\* (build_pending_purchase_stock, build_refund_report).
THEOREM PendingAndRefundsReported == OpenSpec => [](PendingReportAgrees /\ RefundReportAgrees)
<1>1. Inv /\ LiveRefundsLive(refunds, lines) => PendingReportAgrees /\ RefundReportAgrees
  BY PendingReported, RefundsReported
<1> QED
  BY <1>1, ReportsInvAlways, PTL

\* All reports of purchases count the same records, and the dashboard shows the net GST
\* of the GST report, as long as no line has more refunded than it counts (_gst_total,
\* build_gst_report); nothing checks the sign of a GST rate.
THEOREM PurchasesReported ==
    GstRate \in Nat => (Spec => [](RefundsWithinLines => PurchaseReportsAgree))
<1>1. SUFFICES ASSUME GstRate \in Nat
               PROVE  Spec => [](RefundsWithinLines => PurchaseReportsAgree)
  OBVIOUS
<1>2. Inv /\ LiveRefundsLive(refunds, lines) => (RefundsWithinLines => PurchaseReportsAgree)
  BY <1>1, PendingReported, RefundsReported, GstReported DEF PurchaseReportsAgree
<1> QED
  BY <1>2, SpecOpen, ReportsInvAlways, PTL
=============================================================================
