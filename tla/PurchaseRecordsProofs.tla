----------------------- MODULE PurchaseRecordsProofs -----------------------
(***************************************************************************)
(* What the ledger has of a purchase line and where, and why entering,     *)
(* collecting, refunding, undoing and deleting keep it so.                 *)
(*                                                                         *)
(* The rows of a line are told apart by the business record they were      *)
(* posted for: its entry, each collection, each refund.  The invariant     *)
(* says what each of them contributes now (LiveLine); what the line holds  *)
(* in total is their sum (RowsByRecord, LineTotals).                       *)
(***************************************************************************)
EXTENDS Purchases, StockLedgerProofs
-----------------------------------------------------------------------------
(* Sets of rows *)

OnLine(l) == {row \in Rows : row.stype \in PurchaseSources /\ row.line = l}

\* The rows of a line in one business record.
Of(t, s, l) == {row \in OnLine(l) : row.stype = t /\ row.sid = s}

Pend == BucketRows("PENDING")

Phys == BucketRows("PHYSICAL")

PhysAt(loc) == {row \in Phys : row.loc = loc}

OfProduct(product) == {row \in Rows : row.product = product}

AtKey(key) == {row \in Rows : KeyOf(row) = key}

\* The rows of a business record.
Source(t, s) == {row \in Rows : row.stype = t /\ row.sid = s}

\* Nothing is left of the rows in T, however one looks at them.
Nothing(rows, T) == \A S : Blind(S) /\ S \subseteq T => NetIn(rows, S) = NoStock

\* None of these sets can tell amounts.
LEMMA SetsBlind ==
    /\ Blind(Pend) /\ Blind(Phys) /\ Pend \intersect Phys = {}
    /\ \A loc : Blind(PhysAt(loc)) /\ PhysAt(loc) \subseteq Phys
    /\ \A l : Blind(OnLine(l))
    /\ \A t, s, l : Blind(Of(t, s, l)) /\ Of(t, s, l) \subseteq OnLine(l)
    /\ \A t, s : Blind(Source(t, s))
    /\ \A product : Blind(OfProduct(product))
    /\ \A key : Blind(AtKey(key))
<1>1. ASSUME NEW r \in Rows, NEW s \in Rows, SameRecord(r, s)
      PROVE  /\ r \in Pend <=> s \in Pend
             /\ r \in Phys <=> s \in Phys
             /\ \A loc : r \in PhysAt(loc) <=> s \in PhysAt(loc)
             /\ \A l : r \in OnLine(l) <=> s \in OnLine(l)
             /\ \A t, x, l : r \in Of(t, x, l) <=> s \in Of(t, x, l)
             /\ \A t, x : r \in Source(t, x) <=> s \in Source(t, x)
             /\ \A product : r \in OfProduct(product) <=> s \in OfProduct(product)
             /\ \A key : r \in AtKey(key) <=> s \in AtKey(key)
  <2>1. /\ r.stype = s.stype /\ r.sid = s.sid /\ r.line = s.line /\ KeyOf(r) = KeyOf(s)
        /\ r.product = s.product /\ r.loc = s.loc /\ r.bucket = s.bucket
    BY <1>1 DEF SameRecord, KeyOf
  <2> QED
    BY <2>1 DEF Pend, Phys, PhysAt, OnLine, Of, Source, OfProduct, AtKey, BucketRows
<1>2. Pend \intersect Phys = {}
  BY DEF Pend, Phys, BucketRows
<1>3. \A loc : PhysAt(loc) \subseteq Phys
  BY DEF PhysAt
<1>4. \A t, s, l : Of(t, s, l) \subseteq OnLine(l)
  BY DEF Of
<1> QED
  BY <1>1, <1>2, <1>3, <1>4 DEF Blind

\* Nor what is made of sets that cannot.
LEMMA BlindParts ==
    ASSUME NEW S, Blind(S), NEW T, Blind(T)
    PROVE  Blind(S \intersect T) /\ Blind(S \ T) /\ Blind(S \union T)
BY DEF Blind

\* Rows that are not in T leave nothing of it.
LEMMA NothingOutside ==
    ASSUME NEW rows \in Seq(Rows), NEW T, \A i \in 1..Len(rows) : rows[i] \notin T
    PROVE  Nothing(rows, T)
<1>1. ASSUME NEW S, S \subseteq T PROVE NetIn(rows, S) = NoStock
  <2>1. \A i \in 1..Len(rows) : rows[i] \notin S
    BY <1>1
  <2> QED
    BY <2>1, NetInNone
<1> QED
  BY <1>1 DEF Nothing

\* What leaves nothing leaves nothing of a part.
LEMMA NothingLess ==
    ASSUME NEW rows, NEW T, Nothing(rows, T), NEW U, U \subseteq T
    PROVE  Nothing(rows, U)
BY DEF Nothing

\* Nothing and nothing is nothing.
LEMMA NothingMore ==
    ASSUME NEW rows \in Seq(Rows), NEW more \in Seq(Rows), NEW T,
           Nothing(rows, T), Nothing(more, T)
    PROVE  Nothing(rows \o more, T)
<1>1. ASSUME NEW S, Blind(S), S \subseteq T PROVE NetIn(rows \o more, S) = NoStock
  <2>1. NetIn(rows, S) = NoStock /\ NetIn(more, S) = NoStock
    BY <1>1 DEF Nothing
  <2>2. NetIn(rows \o more, S) = Plus(NetIn(rows, S), NetIn(more, S))
    BY NetInConcat
  <2> QED
    BY <2>1, <2>2 DEF Plus, NoStock
<1> QED
  BY <1>1 DEF Nothing

\* What adds up over two sets without a common row.
LEMMA SplitNet ==
    ASSUME NEW rows \in Seq(Rows), NEW S, NEW T
    PROVE  NetIn(rows, S) = Plus(NetIn(rows, S \intersect T), NetIn(rows, S \ T))
<1>1. (S \intersect T) \union (S \ T) = S /\ (S \intersect T) \intersect (S \ T) = {}
  OBVIOUS
<1> QED
  BY <1>1, NetInUnion

\* Nothing of either part is nothing of the whole.
LEMMA NothingUnion ==
    ASSUME NEW rows \in Seq(Rows), NEW T, Blind(T), Nothing(rows, T),
           NEW U, Nothing(rows, U)
    PROVE  Nothing(rows, T \union U)
<1>1. ASSUME NEW S, Blind(S), S \subseteq T \union U PROVE NetIn(rows, S) = NoStock
  <2>1. Blind(S \intersect T) /\ Blind(S \ T)
    BY <1>1, BlindParts
  <2>2. S \intersect T \subseteq T /\ S \ T \subseteq U
    BY <1>1
  <2>3. NetIn(rows, S \intersect T) = NoStock /\ NetIn(rows, S \ T) = NoStock
    BY <2>1, <2>2 DEF Nothing
  <2>4. NetIn(rows, S) = Plus(NetIn(rows, S \intersect T), NetIn(rows, S \ T))
    BY SplitNet
  <2> QED
    BY <2>3, <2>4 DEF Plus, NoStock
<1> QED
  BY <1>1 DEF Nothing

\* What is nothing outside T is in T.
LEMMA AllWithin ==
    ASSUME NEW rows \in Seq(Rows), NEW T, Blind(T), NEW S, Blind(S), Nothing(rows, S \ T)
    PROVE  NetIn(rows, S) = NetIn(rows, S \intersect T)
<1>1. NetIn(rows, S \ T) = NoStock
  BY BlindParts DEF Nothing
<1>2. NetIn(rows, S) = Plus(NetIn(rows, S \intersect T), NetIn(rows, S \ T))
  BY SplitNet
<1>3. NetIn(rows, S \intersect T) \in [qty: Int, aed: Int]
  BY NetInType
<1> QED
  BY <1>1, <1>2, <1>3 DEF Plus, NoStock

\* Movements that are not in S leave what S adds up to.
LEMMA OutsideSame ==
    ASSUME NEW rows \in Seq(Rows), NEW more \in Seq(Rows), NEW S,
           \A i \in 1..Len(more) : more[i] \notin S
    PROVE  NetIn(rows \o more, S) = NetIn(rows, S)
<1>1. NetIn(more, S) = NoStock
  BY NetInNone
<1>2. NetIn(rows \o more, S) = Plus(NetIn(rows, S), NetIn(more, S))
  BY NetInConcat
<1>3. NetIn(rows, S) \in [qty: Int, aed: Int]
  BY NetInType
<1> QED
  BY <1>1, <1>2, <1>3 DEF Plus, NoStock

\* The order in which batches are posted changes no sum.
LEMMA SwapNet ==
    ASSUME NEW rows \in Seq(Rows), NEW a \in Seq(Rows), NEW b \in Seq(Rows), NEW S
    PROVE  NetIn((rows \o a) \o b, S) = NetIn((rows \o b) \o a, S)
<1>1. PICK ra \in Seq(Rows), rb \in Seq(Rows) : ra = rows \o a /\ rb = rows \o b
  BY ConcatProperties
<1>2. PICK x \in [qty: Int, aed: Int], y \in [qty: Int, aed: Int], z \in [qty: Int, aed: Int] :
         x = NetIn(rows, S) /\ y = NetIn(a, S) /\ z = NetIn(b, S)
  BY NetInType
<1>3. NetIn(ra \o b, S) = Plus(NetIn(ra, S), z)
  BY <1>2, NetInConcat
<1>4. NetIn(ra, S) = Plus(x, y)
  BY <1>1, <1>2, NetInConcat
<1>5. NetIn(rb \o a, S) = Plus(NetIn(rb, S), y)
  BY <1>2, NetInConcat
<1>6. NetIn(rb, S) = Plus(x, z)
  BY <1>1, <1>2, NetInConcat
<1>7. Plus(Plus(x, y), z) = Plus(Plus(x, z), y)
  BY DEF Plus
<1> QED
  BY <1>1, <1>3, <1>4, <1>5, <1>6, <1>7

\* The elements with a label.
Labelled(S, F, v) == {row \in S : F[row] = v}

\* No class leaves anything.
NoClass(rows, S, F) == \A v : NetIn(rows, Labelled(S, F, v)) = NoStock

\* Rows of S are among the first n.
AmongFirst(rows, S, n) == \A i \in 1..Len(rows) : rows[i] \in S => i <= n

\* If every class of some labelling leaves nothing, nothing is left.
LEMMA ClassesEmpty ==
    ASSUME NEW rows \in Seq(Rows), NEW S, NEW F, NoClass(rows, S, F)
    PROVE  NetIn(rows, S) = NoStock
<1> DEFINE Class(R, v) == Labelled(R, F, v)
           Upto(R, n) == AmongFirst(rows, R, n)
           T == {n \in Nat : \A R : NoClass(rows, R, F) /\ AmongFirst(rows, R, n)
                                       => NetIn(rows, R) = NoStock}
<1>1. Len(rows) \in Nat
  OBVIOUS
<1>2. 0 \in T
  <2>1. ASSUME NEW R, Upto(R, 0) PROVE NetIn(rows, R) = NoStock
    <3>1. \A i \in 1..Len(rows) : rows[i] \notin R
      BY <2>1, <1>1 DEF AmongFirst
    <3> QED
      BY <3>1, NetInNone
  <2> QED
    BY <2>1
<1>3. ASSUME NEW n \in Nat, n \in T PROVE n + 1 \in T
  <2>1. SUFFICES ASSUME NEW R, NoClass(rows, R, F), Upto(R, n + 1)
                 PROVE  NetIn(rows, R) = NoStock
    BY <1>3
  <2>2. CASE n + 1 \in 1..Len(rows) /\ rows[n + 1] \in R
    <3>1. PICK w : w = F[rows[n + 1]]
      OBVIOUS
    <3>2. PICK Q : Q = R \ Class(R, w)
      OBVIOUS
    <3>3. Upto(Q, n)
      <4>1. SUFFICES ASSUME NEW i \in 1..Len(rows), rows[i] \in Q PROVE i <= n
        BY DEF AmongFirst
      <4>2. rows[i] \in R /\ F[rows[i]] # w
        BY <4>1, <3>2 DEF Labelled
      <4>3. i # n + 1
        BY <4>2, <3>1
      <4> QED
        BY <4>1, <4>2, <4>3, <2>1, <1>1 DEF AmongFirst
    <3>4. ASSUME NEW v PROVE NetIn(rows, Class(Q, v)) = NoStock
      <4>1. CASE v = w
        <5>1. \A i \in 1..Len(rows) : rows[i] \notin Class(Q, v)
          BY <4>1, <3>2 DEF Labelled
        <5> QED
          BY <5>1, NetInNone
      <4>2. CASE v # w
        <5>1. Class(Q, v) = Class(R, v)
          BY <4>2, <3>2 DEF Labelled
        <5> QED
          BY <5>1, <2>1 DEF NoClass
      <4> QED
        BY <4>1, <4>2
    <3>5. NetIn(rows, Q) = NoStock
      BY <1>3, <3>3, <3>4 DEF NoClass
    <3>6. Class(R, w) \union Q = R /\ Class(R, w) \intersect Q = {}
      BY <3>2 DEF Labelled
    <3>7. NetIn(rows, R) = Plus(NetIn(rows, Class(R, w)), NetIn(rows, Q))
      BY <3>6, NetInUnion
    <3>8. NetIn(rows, Class(R, w)) = NoStock
      BY <2>1 DEF NoClass
    <3> QED
      BY <3>5, <3>7, <3>8 DEF Plus, NoStock
  <2>3. CASE ~(n + 1 \in 1..Len(rows) /\ rows[n + 1] \in R)
    <3>1. \A i \in 1..Len(rows) : rows[i] \in R => i # n + 1
      BY <2>3
    <3>2. Upto(R, n)
      BY <3>1, <2>1, <1>1 DEF AmongFirst
    <3> QED
      BY <1>3, <2>1, <3>2
  <2> QED
    BY <2>2, <2>3
<1> HIDE DEF T
<1>4. Len(rows) \in T
  BY <1>1, <1>2, <1>3, NatSetInduction
<1>5. Upto(S, Len(rows))
  BY <1>1 DEF AmongFirst
<1> QED
  BY <1>4, <1>5 DEF T

\* A line of which no record leaves anything is left with nothing.
LEMMA RecordsEmpty ==
    ASSUME NEW rows \in Seq(Rows), NEW l, NEW T, T \subseteq OnLine(l),
           \A t, s : Nothing(rows, Of(t, s, l) \intersect T)
    PROVE  Nothing(rows, T)
<1>1. SUFFICES ASSUME NEW S, Blind(S), S \subseteq T PROVE NetIn(rows, S) = NoStock
  BY DEF Nothing
<1>2. PICK F : F = [row \in Rows |-> <<row.stype, row.sid>>]
  OBVIOUS
<1>3. \A row \in Rows : F[row] = <<row.stype, row.sid>>
  BY <1>2
<1>4. ASSUME NEW v PROVE NetIn(rows, Labelled(S, F, v)) = NoStock
  <2>1. CASE \E row \in S : F[row] = v
    <3>1. PICK row \in S : F[row] = v
      BY <2>1
    <3>2. PICK t, s : row \in Rows /\ v = <<t, s>>
      BY <1>1, <1>3, <3>1 DEF OnLine
    <3>3. Labelled(S, F, v) = S \intersect Of(t, s, l)
      BY <1>1, <1>3, <3>2 DEF OnLine, Of, Labelled
    <3>4. Blind(S \intersect Of(t, s, l))
      BY <1>1, SetsBlind, BlindParts
    <3>5. S \intersect Of(t, s, l) \subseteq Of(t, s, l) \intersect T
      BY <1>1
    <3> QED
      BY <3>3, <3>4, <3>5 DEF Nothing
  <2>2. CASE ~\E row \in S : F[row] = v
    <3>1. \A i \in 1..Len(rows) : rows[i] \notin Labelled(S, F, v)
      BY <2>2 DEF Labelled
    <3> QED
      BY <3>1, NetInNone
  <2> QED
    BY <2>1, <2>2
<1> QED
  BY <1>4, ClassesEmpty DEF NoClass

-----------------------------------------------------------------------------
(* Taking back what a record contributed *)

\* The movements take back what the rows in T add up to, and only that.
TakesBack(rows, moves, T) ==
    /\ moves \in Seq(Rows)
    /\ \A k \in 1..Len(moves) :
          moves[k] \in T /\ \E j \in 1..Len(rows) : SameRecord(moves[k], rows[j])
    /\ \A S : Blind(S) => Plus(NetIn(rows, S \intersect T), NetIn(moves, S)) = NoStock

\* Nothing is left of T then.
LEMMA NothingLeft ==
    ASSUME NEW rows \in Seq(Rows), NEW moves, NEW T, Blind(T), TakesBack(rows, moves, T)
    PROVE  Nothing(rows \o moves, T)
<1>1. moves \in Seq(Rows)
  BY DEF TakesBack
<1>2. ASSUME NEW S, Blind(S), S \subseteq T PROVE NetIn(rows \o moves, S) = NoStock
  <2>1. S \intersect T = S
    BY <1>2
  <2>2. Plus(NetIn(rows, S), NetIn(moves, S)) = NoStock
    BY <1>2, <2>1 DEF TakesBack
  <2> QED
    BY <1>1, <2>2, NetInConcat
<1> QED
  BY <1>2 DEF Nothing

\* The movements of a net reversal are of the records of the rows they undo, and
\* undo them for whoever cannot tell amounts.
LEMMA NetReversalFacts ==
    ASSUME NEW rows \in Seq(Rows), NetReversible(rows), NEW t, NEW s,
           \A i \in 1..Len(rows) : rows[i].stype = t /\ rows[i].sid = s
    PROVE  /\ NetReversalMovements(rows) \in Seq(Rows)
           /\ \A k \in 1..Len(NetReversalMovements(rows)) :
                 \E j \in 1..Len(rows) : SameRecord(NetReversalMovements(rows)[k], rows[j])
           /\ \A S : Blind(S) =>
                 Plus(NetIn(rows, S), NetIn(NetReversalMovements(rows), S)) = NoStock
<1> DEFINE all == GroupReversals(rows)
           I   == {i \in FirstOfGroup(all) : all[i].qty # 0}
           net == NetReversals(rows)
           In  == {i \in DOMAIN net : net[i].qty > 0}
           Out == {i \in DOMAIN net : net[i].qty < 0}
<1>1. \A i \in 1..Len(rows) : rows[i] \in Rows
  OBVIOUS
<1>2. all \in Seq(Rows) /\ Len(all) = Len(rows)
  BY GroupReversalsFacts
<1>3. ASSUME NEW i \in 1..Len(all) PROVE \E j \in 1..Len(rows) : SameRecord(all[i], rows[j])
  <2>1. Len(rows) \in Nat /\ i \in 1..Len(rows)
    BY <1>2, <1>3
  <2>2. Len(rows) + 1 - i \in 1..Len(rows)
    BY <2>1
  <2>3. PICK row \in Rows : row = rows[Len(rows) + 1 - i]
    BY <1>1, <2>2
  <2>4. all[i] = [row EXCEPT !.qty = -GroupNet(rows, row).qty, !.aed = -GroupNet(rows, row).aed]
    BY <2>1, <2>3 DEF GroupReversals
  <2>5. SameRecord(all[i], row)
    BY <2>3, <2>4 DEF SameRecord, KeyOf, Rows
  <2> QED
    BY <2>2, <2>3, <2>5
<1>4. net = Kept(all, I)
  BY DEF NetReversals, Effective
<1>5. NetReversalMovements(rows) = Kept(net, In) \o Kept(net, Out)
  BY DEF NetReversalMovements, CreditsFirst
<1> HIDE DEF all, I
<1>6. net \in Seq(Rows) /\ \A k \in 1..Len(net) : \E i \in 1..Len(all) : net[k] = all[i]
  BY <1>2, <1>4, KeptType
<1> HIDE DEF net, In, Out
<1>7. PICK a \in Seq(Rows), b \in Seq(Rows) :
         /\ a = Kept(net, In) /\ b = Kept(net, Out)
         /\ \A k \in 1..Len(a) : \E i \in 1..Len(net) : a[k] = net[i]
         /\ \A k \in 1..Len(b) : \E i \in 1..Len(net) : b[k] = net[i]
  BY <1>6, KeptType
<1>8. PICK moves \in Seq(Rows) : moves = a \o b
  BY ConcatProperties
<1>9. moves = NetReversalMovements(rows)
  BY <1>5, <1>7, <1>8
<1>10. ASSUME NEW k \in 1..Len(moves)
       PROVE  \E j \in 1..Len(rows) : SameRecord(moves[k], rows[j])
  <2>1. \E i \in 1..Len(net) : moves[k] = net[i]
    <3>1. CASE k <= Len(a)
      <4>1. moves[k] = a[k] /\ k \in 1..Len(a)
        BY <1>8, <3>1
      <4> QED
        BY <4>1, <1>7
    <3>2. CASE k > Len(a)
      <4>1. moves[k] = b[k - Len(a)] /\ k - Len(a) \in 1..Len(b)
        BY <1>8, <3>2
      <4> QED
        BY <4>1, <1>7
    <3> QED
      BY <3>1, <3>2, <1>8
  <2> QED
    BY <2>1, <1>6, <1>3
<1>11. /\ rows \o moves \in Seq(Rows)
       /\ \A x \in Rows : NetIn(rows \o moves, GroupOf(x)) = NoStock
  BY <1>9, NetReversalClears
<1>12. ASSUME NEW i \in 1..Len(rows \o moves)
       PROVE  /\ (rows \o moves)[i] \in Rows
              /\ (rows \o moves)[i].stype = t /\ (rows \o moves)[i].sid = s
  <2>1. CASE i <= Len(rows)
    <3>1. (rows \o moves)[i] = rows[i] /\ i \in 1..Len(rows)
      BY <2>1
    <3> QED
      BY <3>1
  <2>2. CASE i > Len(rows)
    <3>1. (rows \o moves)[i] = moves[i - Len(rows)] /\ i - Len(rows) \in 1..Len(moves)
      BY <2>2
    <3>2. PICK j \in 1..Len(rows) : SameRecord(moves[i - Len(rows)], rows[j])
      BY <3>1, <1>10
    <3> QED
      BY <3>1, <3>2 DEF SameRecord
  <2> QED
    BY <2>1, <2>2
<1>13. ASSUME NEW S, Blind(S) PROVE NetIn(rows \o moves, S) = NoStock
  <2>1. PICK X \in Seq(Rows) : X = rows \o moves
    BY <1>11
  <2>2. \A i \in 1..Len(X) : X[i] \in Rows /\ X[i].stype = t /\ X[i].sid = s
    BY <2>1, <1>12
  <2>3. PICK F : F = [row \in Rows |-> <<row.line, KeyOf(row)>>]
    OBVIOUS
  <2>4. \A row \in Rows : F[row] = <<row.line, KeyOf(row)>>
    BY <2>3
  <2>5. ASSUME NEW v PROVE NetIn(X, Labelled(S, F, v)) = NoStock
    <3>1. CASE \E i \in 1..Len(X) : X[i] \in S /\ F[X[i]] = v
      <4>1. PICK y \in Rows : y \in S /\ F[y] = v /\ y.stype = t /\ y.sid = s
        BY <3>1, <2>2
      <4>2. \A i \in 1..Len(X) : X[i] \in Labelled(S, F, v) <=> X[i] \in GroupOf(y)
        <5>1. SUFFICES ASSUME NEW x \in Rows, x.stype = t, x.sid = s
                       PROVE  x \in S /\ F[x] = v <=> x \in GroupOf(y)
          BY <2>2 DEF Labelled
        <5>2. x \in GroupOf(y) <=> F[x] = F[y]
          <6>1. F[x] = <<x.line, KeyOf(x)>> /\ F[y] = <<y.line, KeyOf(y)>>
            BY <2>4
          <6>2. x \in GroupOf(y) <=> x.line = y.line /\ KeyOf(x) = KeyOf(y)
            BY DEF GroupOf, SameGroup
          <6> HIDE DEF KeyOf
          <6> QED
            BY <6>1, <6>2
        <5>3. F[x] = F[y] => SameRecord(x, y)
          BY <2>4, <4>1, <5>1 DEF SameRecord
        <5>4. F[x] = F[y] => x \in S
          BY <5>3, <4>1, <1>13 DEF Blind
        <5> QED
          BY <5>2, <5>4, <4>1 DEF Labelled
      <4>3. NetIn(X, Labelled(S, F, v)) = NetIn(X, GroupOf(y))
        BY <4>2, NetInSame
      <4> QED
        BY <4>3, <2>1, <1>11
    <3>2. CASE ~\E i \in 1..Len(X) : X[i] \in S /\ F[X[i]] = v
      <4>1. \A i \in 1..Len(X) : X[i] \notin Labelled(S, F, v)
        BY <3>2 DEF Labelled
      <4> QED
        BY <4>1, NetInNone
    <3> QED
      BY <3>1, <3>2
  <2> QED
    BY <2>1, <2>5, ClassesEmpty DEF NoClass
<1>14. ASSUME NEW S, Blind(S) PROVE Plus(NetIn(rows, S), NetIn(moves, S)) = NoStock
  BY <1>13, <1>14, NetInConcat
<1> QED
  BY <1>9, <1>10, <1>14

\* Undoing what was kept of the rows takes back T, if T describes just these rows.
LEMMA KeptTakesBack ==
    ASSUME NEW rows \in Seq(Rows), NEW I, NEW T, Blind(T),
           \A i \in 1..Len(rows) : i \in I <=> rows[i] \in T,
           NEW moves \in Seq(Rows),
           \A k \in 1..Len(moves) :
              \E j \in 1..Len(Kept(rows, I)) : SameRecord(moves[k], Kept(rows, I)[j]),
           \A S : Blind(S) => Plus(NetIn(Kept(rows, I), S), NetIn(moves, S)) = NoStock
    PROVE  TakesBack(rows, moves, T)
<1>1. ASSUME NEW k \in 1..Len(moves)
      PROVE  moves[k] \in T /\ \E j \in 1..Len(rows) : SameRecord(moves[k], rows[j])
  <2>1. PICK j \in 1..Len(Kept(rows, I)) : SameRecord(moves[k], Kept(rows, I)[j])
    OBVIOUS
  <2>2. PICK i \in 1..Len(rows) : i \in I /\ Kept(rows, I)[j] = rows[i]
    BY KeptType
  <2>3. moves[k] \in Rows /\ rows[i] \in Rows
    OBVIOUS
  <2> QED
    BY <2>1, <2>2, <2>3 DEF Blind
<1>2. ASSUME NEW S, Blind(S)
      PROVE  Plus(NetIn(rows, S \intersect T), NetIn(moves, S)) = NoStock
  <2>1. \A i \in 1..Len(rows) : i \in I /\ rows[i] \in S <=> rows[i] \in S \intersect T
    OBVIOUS
  <2>2. NetIn(Kept(rows, I), S) = NetIn(rows, S \intersect T)
    BY <2>1, KeptNetAs
  <2> QED
    BY <1>2, <2>2
<1> QED
  BY <1>1, <1>2 DEF TakesBack

\* A net reversal of kept rows of one record.
LEMMA NetTakesBack ==
    ASSUME NEW rows \in Seq(Rows), NEW I, NEW T, Blind(T),
           \A i \in 1..Len(rows) : i \in I <=> rows[i] \in T,
           NEW t, NEW s, \A row \in T : row.stype = t /\ row.sid = s,
           NetReversible(Kept(rows, I))
    PROVE  TakesBack(rows, NetReversalMovements(Kept(rows, I)), T)
<1>1. PICK kept \in Seq(Rows) : kept = Kept(rows, I)
  BY KeptType
<1>2. ASSUME NEW k \in 1..Len(kept) PROVE kept[k].stype = t /\ kept[k].sid = s
  <2>1. PICK i \in 1..Len(rows) : i \in I /\ kept[k] = rows[i]
    BY <1>1, KeptType
  <2> QED
    BY <2>1
<1>3. PICK moves : moves = NetReversalMovements(kept)
  OBVIOUS
<1>4. /\ moves \in Seq(Rows)
      /\ \A k \in 1..Len(moves) : \E j \in 1..Len(kept) : SameRecord(moves[k], kept[j])
      /\ \A S : Blind(S) => Plus(NetIn(kept, S), NetIn(moves, S)) = NoStock
  BY <1>1, <1>2, <1>3, NetReversalFacts
<1>5. TakesBack(rows, moves, T)
  BY <1>1, <1>4, KeptTakesBack
<1> QED
  BY <1>1, <1>3, <1>5

\* Undoing a business record, row by row or net.
LEMMA SourceTakenBack ==
    ASSUME NEW rows \in Seq(Rows), NEW t, NEW s
    PROVE  /\ TakesBack(rows, ReversalMovements(SourceRows(rows, t, s)), Source(t, s))
           /\ NetReversible(SourceRows(rows, t, s)) =>
                 TakesBack(rows, NetReversalMovements(SourceRows(rows, t, s)), Source(t, s))
<1> DEFINE I == {i \in DOMAIN rows : rows[i].stype = t /\ rows[i].sid = s}
<1>1. SourceRows(rows, t, s) = Kept(rows, I)
  BY DEF SourceRows
<1>2. \A i \in 1..Len(rows) : i \in I <=> rows[i] \in Source(t, s)
  BY DEF Source
<1>3. \A row \in Source(t, s) : row.stype = t /\ row.sid = s
  BY DEF Source
<1>4. Blind(Source(t, s))
  BY SetsBlind
<1> HIDE DEF I
<1>5. PICK kept \in Seq(Rows) : kept = Kept(rows, I)
  BY KeptType
<1>6. PICK moves : moves = ReversalMovements(kept)
  OBVIOUS
<1>7. /\ moves \in Seq(Rows)
      /\ \A k \in 1..Len(moves) : \E j \in 1..Len(kept) : SameRecord(moves[k], kept[j])
      /\ \A S : Blind(S) => /\ NetIn(moves, S).qty = -NetIn(kept, S).qty
                            /\ NetIn(moves, S).aed = -NetIn(kept, S).aed
  BY <1>6, ReversalFacts
<1>8. ASSUME NEW S, Blind(S) PROVE Plus(NetIn(kept, S), NetIn(moves, S)) = NoStock
  <2>1. NetIn(kept, S) \in [qty: Int, aed: Int]
    BY NetInType
  <2> QED
    BY <1>7, <1>8, <2>1 DEF Plus, NoStock
<1>9. TakesBack(rows, moves, Source(t, s))
  BY <1>2, <1>4, <1>5, <1>7, <1>8, KeptTakesBack
<1>10. NetReversible(kept) => TakesBack(rows, NetReversalMovements(kept), Source(t, s))
  BY <1>2, <1>3, <1>4, <1>5, NetTakesBack
<1> QED
  BY <1>1, <1>5, <1>6, <1>9, <1>10

\* Undoing a line in a business record.
LEMMA LineTakenBack ==
    ASSUME NEW rows \in Seq(Rows), NEW t \in PurchaseSources, NEW s, NEW l,
           NetReversible(LineRows(rows, t, s, l))
    PROVE  TakesBack(rows, NetReversalMovements(LineRows(rows, t, s, l)), Of(t, s, l))
<1> DEFINE I == {i \in DOMAIN rows : /\ rows[i].stype = t
                                     /\ rows[i].sid = s
                                     /\ rows[i].line = l}
<1>1. LineRows(rows, t, s, l) = Kept(rows, I)
  BY DEF LineRows
<1>2. \A i \in 1..Len(rows) : i \in I <=> rows[i] \in Of(t, s, l)
  BY DEF Of, OnLine
<1>3. \A row \in Of(t, s, l) : row.stype = t /\ row.sid = s
  BY DEF Of
<1>4. Blind(Of(t, s, l))
  BY SetsBlind
<1> HIDE DEF I
<1> QED
  BY <1>1, <1>2, <1>3, <1>4, NetTakesBack

-----------------------------------------------------------------------------
(* Sums over the records of a line *)

\* Rows of business records 1 to n add up record by record.
OfRecord(T, s) == {row \in T : row.sid = s}

UptoRecord(T, n) == {row \in T : row.sid \in 1..n}

\* What rows of several records have in T adds up record by record.
LEMMA NetByRecord ==
    ASSUME NEW rows \in Seq(Rows), NEW n \in Nat, NEW T,
           \A i \in 1..Len(rows) : rows[i] \in T => rows[i].sid \in 1..n
    PROVE  NetIn(rows, T).qty = SumSeq([s \in 1..n |-> NetIn(rows, OfRecord(T, s)).qty])
<1> DEFINE f == [s \in 1..n |-> NetIn(rows, OfRecord(T, s)).qty]
           P == {k \in Nat : k <= n => NetIn(rows, UptoRecord(T, k)).qty = PrefixSums(f)[k]}
<1>1. f \in Seq(Int) /\ Len(f) = n /\ \A s \in 1..n : f[s] = NetIn(rows, OfRecord(T, s)).qty
  <2>1. \A s \in 1..n : NetIn(rows, OfRecord(T, s)).qty \in Int
    BY NetInType
  <2>2. f \in [1..n -> Int]
    BY <2>1
  <2> QED
    BY <2>2
<1> HIDE DEF f
<1>2. /\ PrefixSums(f)[0] = 0
      /\ \A k \in 0..(n - 1) : PrefixSums(f)[k + 1] = PrefixSums(f)[k] + f[k + 1]
  BY <1>1, PrefixSumsStep
<1>3. 0 \in P
  <2>1. \A i \in 1..Len(rows) : rows[i] \notin UptoRecord(T, 0)
    BY DEF UptoRecord
  <2>2. NetIn(rows, UptoRecord(T, 0)) = NoStock
    BY <2>1, NetInNone
  <2> QED
    BY <1>2, <2>2 DEF NoStock
<1>4. ASSUME NEW k \in Nat, k \in P PROVE k + 1 \in P
  <2>1. SUFFICES ASSUME k + 1 <= n PROVE NetIn(rows, UptoRecord(T, k + 1)).qty = PrefixSums(f)[k + 1]
    OBVIOUS
  <2>2. /\ UptoRecord(T, k + 1) = UptoRecord(T, k) \union OfRecord(T, k + 1)
        /\ UptoRecord(T, k) \intersect OfRecord(T, k + 1) = {}
    BY DEF OfRecord, UptoRecord
  <2>3. NetIn(rows, UptoRecord(T, k + 1)) = Plus(NetIn(rows, UptoRecord(T, k)), NetIn(rows, OfRecord(T, k + 1)))
    BY <2>2, NetInUnion
  <2>4. NetIn(rows, UptoRecord(T, k)).qty = PrefixSums(f)[k]
    BY <1>4, <2>1
  <2>5. f[k + 1] = NetIn(rows, OfRecord(T, k + 1)).qty /\ k \in 0..(n - 1)
    BY <1>1, <2>1
  <2> QED
    BY <1>2, <2>3, <2>4, <2>5 DEF Plus
<1> HIDE DEF P
<1>5. n \in P
  BY <1>3, <1>4, NatSetInduction
<1>6. NetIn(rows, UptoRecord(T, n)).qty = SumSeq(f)
  BY <1>1, <1>5 DEF P, SumSeq
<1>7. \A i \in 1..Len(rows) : rows[i] \in UptoRecord(T, n) <=> rows[i] \in T
  BY DEF UptoRecord
<1>8. NetIn(rows, UptoRecord(T, n)) = NetIn(rows, T)
  BY <1>7, NetInSame
<1> QED
  BY <1>6, <1>8 DEF f

\* The model's sums over the rows of a line are sums over these sets.
LEMMA SumsAreNets ==
    ASSUME NEW rows \in Seq(Rows), NEW l
    PROVE  /\ PendingRemainder(rows, l) = NetIn(rows, OnLine(l) \intersect Pend)
           /\ Net(rows, LAMBDA row : OfLine(row, l, "PHYSICAL"))
                 = NetIn(rows, OnLine(l) \intersect Phys)
           /\ \A loc : PhysicalRemainder(rows, l, loc)
                          = NetIn(rows, OnLine(l) \intersect PhysAt(loc))
<1>1. \A i \in 1..Len(rows) : rows[i] \in Rows
  OBVIOUS
<1>2. \A i \in 1..Len(rows) :
         /\ OfLine(rows[i], l, "PENDING") <=> rows[i] \in OnLine(l) \intersect Pend
         /\ OfLine(rows[i], l, "PHYSICAL") <=> rows[i] \in OnLine(l) \intersect Phys
         /\ \A loc : OfLine(rows[i], l, "PHYSICAL") /\ rows[i].loc = loc
                       <=> rows[i] \in OnLine(l) \intersect PhysAt(loc)
  BY <1>1 DEF OfLine, OnLine, Pend, Phys, PhysAt, BucketRows
<1>3. PendingRemainder(rows, l) = NetIn(rows, OnLine(l) \intersect Pend)
  <2>1. /\ [i \in 1..Len(rows) |-> IF OfLine(rows[i], l, "PENDING") THEN rows[i].qty ELSE 0] =
           [i \in 1..Len(rows) |->
              IF rows[i] \in OnLine(l) \intersect Pend THEN rows[i].qty ELSE 0]
        /\ [i \in 1..Len(rows) |-> IF OfLine(rows[i], l, "PENDING") THEN rows[i].aed ELSE 0] =
           [i \in 1..Len(rows) |->
              IF rows[i] \in OnLine(l) \intersect Pend THEN rows[i].aed ELSE 0]
    BY <1>2
  <2> QED
    BY <2>1 DEF PendingRemainder, NetIn, Net, SumOf
<1>4. Net(rows, LAMBDA row : OfLine(row, l, "PHYSICAL"))
         = NetIn(rows, OnLine(l) \intersect Phys)
  <2>1. /\ [i \in 1..Len(rows) |-> IF OfLine(rows[i], l, "PHYSICAL") THEN rows[i].qty ELSE 0] =
           [i \in 1..Len(rows) |->
              IF rows[i] \in OnLine(l) \intersect Phys THEN rows[i].qty ELSE 0]
        /\ [i \in 1..Len(rows) |-> IF OfLine(rows[i], l, "PHYSICAL") THEN rows[i].aed ELSE 0] =
           [i \in 1..Len(rows) |->
              IF rows[i] \in OnLine(l) \intersect Phys THEN rows[i].aed ELSE 0]
    BY <1>2
  <2> QED
    BY <2>1 DEF NetIn, Net, SumOf
<1>5. ASSUME NEW loc
      PROVE  PhysicalRemainder(rows, l, loc) = NetIn(rows, OnLine(l) \intersect PhysAt(loc))
  <2>1. /\ [i \in 1..Len(rows) |-> IF OfLine(rows[i], l, "PHYSICAL") /\ rows[i].loc = loc
                                   THEN rows[i].qty ELSE 0] =
           [i \in 1..Len(rows) |->
              IF rows[i] \in OnLine(l) \intersect PhysAt(loc) THEN rows[i].qty ELSE 0]
        /\ [i \in 1..Len(rows) |-> IF OfLine(rows[i], l, "PHYSICAL") /\ rows[i].loc = loc
                                   THEN rows[i].aed ELSE 0] =
           [i \in 1..Len(rows) |->
              IF rows[i] \in OnLine(l) \intersect PhysAt(loc) THEN rows[i].aed ELSE 0]
    BY <1>2
  <2> QED
    BY <2>1 DEF PhysicalRemainder, NetIn, Net, SumOf
<1> QED
  BY <1>3, <1>4, <1>5

-----------------------------------------------------------------------------
(* What the records say of a line *)

\* The units that the items at the positions in N ask for.
Total(items, N) ==
    SumSeq([i \in 1..Len(items) |-> IF i \in N THEN items[i].quantity ELSE 0])

On(items, l) == {i \in 1..Len(items) : items[i].line = l}

OnFrom(items, l, source) == {i \in On(items, l) : items[i].source = source}

OnAt(items, l, loc) == {i \in OnFrom(items, l, "RECEIVED") : items[i].location = loc}

\* What a collection took of a line from PENDING, and put at its location.
Took(cs, c, l) == IF cs[c].is_deleted THEN 0 ELSE Total(cs[c].lines, On(cs[c].lines, l))

TookAt(cs, c, l) ==
    [loc \in Locations |-> IF loc = cs[c].location THEN Took(cs, c, l) ELSE 0]

\* What a refund gave back of a line, and from where.
Back(rs, r, l, source) ==
    IF rs[r].is_deleted THEN 0 ELSE Total(rs[r].lines, OnFrom(rs[r].lines, l, source))

BackAt(rs, r, l, loc) ==
    IF rs[r].is_deleted THEN 0 ELSE Total(rs[r].lines, OnAt(rs[r].lines, l, loc))

BackFrom(rs, r, l) == [loc \in Locations |-> -BackAt(rs, r, l, loc)]

TookAll(cs, l) == SumSeq([c \in 1..Len(cs) |-> Took(cs, c, l)])

BackAll(rs, l, source) == SumSeq([r \in 1..Len(rs) |-> Back(rs, r, l, source)])

HeldAt(cs, rs, l, loc) ==
    SumSeq([c \in 1..Len(cs) |-> TookAt(cs, c, l)[loc]])
        - SumSeq([r \in 1..Len(rs) |-> BackAt(rs, r, l, loc)])

Pending(lns, cs, rs, l) == lns[l].quantity - TookAll(cs, l) - BackAll(rs, l, "PENDING")

-----------------------------------------------------------------------------
(* The tables *)

PurchaseRecords == [location: Locations, is_deleted: BOOLEAN]

LineRecords(n) == [purchase: 1..n, product: Products, quantity: Quantities,
                   price: Prices, rate: Rates, is_deleted: BOOLEAN]

AskedItems(m) == [line: 1..m, quantity: Quantities]

CollectionRecords(n, m) == [purchase: 1..n, location: Locations, is_deleted: BOOLEAN,
                            lines: Seq(AskedItems(m))]

BackItems(m) == [line: 1..m, quantity: Quantities, source: RefundSources, location: Locations]

RefundRecords(n, m) == [purchase: 1..n, is_deleted: BOOLEAN, lines: Seq(BackItems(m))]

TablesTyped(ps, lns, cs, rs) ==
    /\ ps \in Seq(PurchaseRecords)
    /\ lns \in Seq(LineRecords(Len(ps)))
    /\ cs \in Seq(CollectionRecords(Len(ps), Len(lns)))
    /\ rs \in Seq(RefundRecords(Len(ps), Len(lns)))

\* A collection or a refund names lines of its purchase.
NamesOwn(records, lns) ==
    \A k \in 1..Len(records) : \A i \in 1..Len(records[k].lines) :
        lns[records[k].lines[i].line].purchase = records[k].purchase

\* What belongs to a deleted purchase is deleted.
GoneWith(records, ps) ==
    \A k \in 1..Len(records) : ps[records[k].purchase].is_deleted => records[k].is_deleted

TablesFit(ps, lns, cs, rs) ==
    /\ TablesTyped(ps, lns, cs, rs)
    /\ NamesOwn(cs, lns) /\ NamesOwn(rs, lns)
    /\ GoneWith(lns, ps) /\ GoneWith(cs, ps) /\ GoneWith(rs, ps)

\* A row is of a line and of a record of the line's purchase; pending stock is where
\* the purchase is, and the purchase itself touches other stock only when deleted.
OwnRowFits(row, ps, lns, cs, rs) ==
    /\ row.line \in 1..Len(lns)
    /\ row.bucket = "PENDING" => row.loc = ps[lns[row.line].purchase].location
    /\ row.bucket # "PENDING" => /\ row.bucket = "PHYSICAL"
                                 /\ row.stype = "PURCHASE"
                                       => ps[lns[row.line].purchase].is_deleted
    /\ row.stype = "PURCHASE" => row.sid = lns[row.line].purchase
    /\ row.stype = "PURCHASE_COLLECTION" =>
          row.sid \in 1..Len(cs) /\ cs[row.sid].purchase = lns[row.line].purchase
    /\ row.stype = "PURCHASE_REFUND" =>
          row.sid \in 1..Len(rs) /\ rs[row.sid].purchase = lns[row.line].purchase

\* Only purchases have pending stock.
RowFits(row, ps, lns, cs, rs) ==
    /\ row.bucket = "PENDING" => row.stype \in PurchaseSources
    /\ row.stype \in PurchaseSources => OwnRowFits(row, ps, lns, cs, rs)

RowsFit(rows, ps, lns, cs, rs) ==
    \A i \in 1..Len(rows) : RowFits(rows[i], ps, lns, cs, rs)

-----------------------------------------------------------------------------
(* What the rows of a record add up to *)

\* The rows in T took `out` units out of PENDING with their value, and brought `all`
\* units into PHYSICAL, at[loc] of them to loc.  Where they brought none, nothing is
\* left of them.
Traced(rows, T, out, all, at) ==
    /\ NetIn(rows, T \intersect Pend).qty = -out
    /\ NetIn(rows, T \intersect Pend).aed <= 0
    /\ out = 0 => Nothing(rows, T \intersect Pend)
    /\ NetIn(rows, T \intersect Phys).qty = all
    /\ \A loc \in Locations :
          /\ NetIn(rows, T \intersect PhysAt(loc)).qty = at[loc]
          /\ at[loc] >= 0 => NetIn(rows, T \intersect PhysAt(loc)).aed >= 0
          /\ at[loc] = 0 => Nothing(rows, T \intersect PhysAt(loc))
    /\ out = 0 /\ (\A loc \in Locations : at[loc] = 0) => Nothing(rows, T)

CollectionTraced(rows, cs, c, l) ==
    Traced(rows, Of("PURCHASE_COLLECTION", c, l), Took(cs, c, l), Took(cs, c, l), TookAt(cs, c, l))

RefundTraced(rows, rs, r, l) ==
    Traced(rows, Of("PURCHASE_REFUND", r, l), Back(rs, r, l, "PENDING"),
           -Back(rs, r, l, "RECEIVED"), BackFrom(rs, r, l))

\* A line that is not deleted: what it entered with, and what became of it.
LiveLine(rows, lns, cs, rs, l) ==
    /\ NetIn(rows, Of("PURCHASE", lns[l].purchase, l)).qty = lns[l].quantity
    /\ \A c \in 1..Len(cs) : CollectionTraced(rows, cs, c, l)
    /\ \A r \in 1..Len(rs) : RefundTraced(rows, rs, r, l)
    /\ Pending(lns, cs, rs, l) >= 0

\* Received stock of the line was returned at some time.
Returned(rs, l) ==
    \E r \in 1..Len(rs) : \E i \in 1..Len(rs[r].lines) :
        rs[r].lines[i].line = l /\ rs[r].lines[i].source = "RECEIVED"

\* A deleted line: nothing, or what was overdrawn.
DeadLine(rows, rs, l) ==
    /\ NetIn(rows, OnLine(l) \intersect Pend).qty = 0
    /\ ~RepeatedLines => NetIn(rows, OnLine(l) \intersect Pend) = NoStock
    /\ \A loc \in Locations :
          /\ NetIn(rows, OnLine(l) \intersect PhysAt(loc)).qty <= 0
          /\ NetIn(rows, OnLine(l) \intersect PhysAt(loc)) = NoStock \/ Returned(rs, l)

\* No value without units, and never less than nothing.
Clean(rest) == rest.aed >= 0 /\ (rest.qty = 0 => rest.aed = 0)

LineGood(rows, ps, lns, cs, rs, l) ==
    /\ Nothing(rows, OnLine(l) \ OfProduct(lns[l].product))
    /\ ~RepeatedLines => Clean(NetIn(rows, OnLine(l) \intersect Pend))
    /\ ~lns[l].is_deleted => LiveLine(rows, lns, cs, rs, l)
    /\ lns[l].is_deleted => DeadLine(rows, rs, l)
    /\ lns[l].is_deleted /\ ~ps[lns[l].purchase].is_deleted => Nothing(rows, OnLine(l))

LinesGood(rows, ps, lns, cs, rs) ==
    \A l \in 1..Len(lns) : LineGood(rows, ps, lns, cs, rs, l)

Good(rows, ps, lns, cs, rs) ==
    /\ TablesFit(ps, lns, cs, rs)
    /\ rows \in Seq(Rows)
    /\ RowsFit(rows, ps, lns, cs, rs)
    /\ LinesGood(rows, ps, lns, cs, rs)

Inv ==
    /\ Sound(Book)
    /\ drafts \subseteq Products \X Locations
    /\ Good(ledger, purchases, lines, collections, refunds)

-----------------------------------------------------------------------------
(* How the sums of a record change *)

\* The two sequences of rows add up to the same, wherever in T one looks.
Alike(rows, other, T) == \A S : Blind(S) /\ S \subseteq T => NetIn(other, S) = NetIn(rows, S)

\* Rows that leave nothing of T make no difference there.
LEMMA MoreAlike ==
    ASSUME NEW rows \in Seq(Rows), NEW more \in Seq(Rows), NEW T, Nothing(more, T)
    PROVE  Alike(rows, rows \o more, T)
<1>1. ASSUME NEW S, Blind(S), S \subseteq T PROVE NetIn(rows \o more, S) = NetIn(rows, S)
  <2>1. NetIn(more, S) = NoStock
    BY <1>1 DEF Nothing
  <2>2. NetIn(rows \o more, S) = Plus(NetIn(rows, S), NetIn(more, S))
    BY NetInConcat
  <2>3. NetIn(rows, S) \in [qty: Int, aed: Int]
    BY NetInType
  <2> QED
    BY <2>1, <2>2, <2>3 DEF Plus, NoStock
<1> QED
  BY <1>1 DEF Alike

\* Rows that add up to the same as others leave nothing where those leave nothing.
LEMMA NothingAlike ==
    ASSUME NEW rows, NEW other, NEW T, Alike(rows, other, T), Nothing(rows, T)
    PROVE  Nothing(other, T)
BY DEF Alike, Nothing

\* What is alike in a set is alike in its parts.
LEMMA AlikeLess ==
    ASSUME NEW rows, NEW other, NEW T, Alike(rows, other, T), NEW U, U \subseteq T
    PROVE  Alike(rows, other, U)
BY DEF Alike

\* What a record did is read off sums only.
LEMMA TracedAlike ==
    ASSUME NEW rows, NEW other, NEW T, Blind(T), Alike(rows, other, T),
           NEW out, NEW all, NEW at, Traced(rows, T, out, all, at)
    PROVE  Traced(other, T, out, all, at)
<1>1. /\ NetIn(other, T \intersect Pend) = NetIn(rows, T \intersect Pend)
      /\ NetIn(other, T \intersect Phys) = NetIn(rows, T \intersect Phys)
      /\ Nothing(rows, T \intersect Pend) => Nothing(other, T \intersect Pend)
  <2>1. Blind(T \intersect Pend) /\ Blind(T \intersect Phys)
    BY SetsBlind, BlindParts
  <2> QED
    BY <2>1, AlikeLess, NothingAlike DEF Alike
<1>2. ASSUME NEW loc
      PROVE  /\ NetIn(other, T \intersect PhysAt(loc)) = NetIn(rows, T \intersect PhysAt(loc))
             /\ Nothing(rows, T \intersect PhysAt(loc)) => Nothing(other, T \intersect PhysAt(loc))
  <2>1. Blind(T \intersect PhysAt(loc))
    BY SetsBlind, BlindParts
  <2> QED
    BY <2>1, AlikeLess, NothingAlike DEF Alike
<1>3. Nothing(rows, T) => Nothing(other, T)
  BY NothingAlike
<1> QED
  BY <1>1, <1>2, <1>3 DEF Traced

\* A record that leaves nothing took and brought nothing.
LEMMA NothingTraced ==
    ASSUME NEW rows, NEW T, Blind(T), Nothing(rows, T), NEW at, \A loc \in Locations : at[loc] = 0
    PROVE  Traced(rows, T, 0, 0, at)
<1>1. /\ NetIn(rows, T \intersect Pend) = NoStock /\ NetIn(rows, T \intersect Phys) = NoStock
      /\ Nothing(rows, T \intersect Pend)
  <2>1. Blind(T \intersect Pend) /\ Blind(T \intersect Phys)
    BY SetsBlind, BlindParts
  <2> QED
    BY <2>1, NothingLess DEF Nothing
<1>2. ASSUME NEW loc
      PROVE  /\ NetIn(rows, T \intersect PhysAt(loc)) = NoStock
             /\ Nothing(rows, T \intersect PhysAt(loc))
  <2>1. Blind(T \intersect PhysAt(loc))
    BY SetsBlind, BlindParts
  <2> QED
    BY <2>1, NothingLess DEF Nothing
<1> QED
  BY <1>1, <1>2 DEF Traced, NoStock

\* What rows and more rows took and brought adds up, if both went the same way.
LEMMA TracedMore ==
    ASSUME NEW rows \in Seq(Rows), NEW more \in Seq(Rows), NEW T,
           NEW o1 \in Int, NEW o2 \in Int, NEW n1 \in Int, NEW n2 \in Int,
           NEW a1 \in [Locations -> Int], NEW a2 \in [Locations -> Int],
           NEW a3 \in [Locations -> Int],
           o1 >= 0, o2 >= 0,
           \A loc \in Locations :
              /\ a3[loc] = a1[loc] + a2[loc]
              /\ \/ a1[loc] >= 0 /\ a2[loc] >= 0
                 \/ a1[loc] <= 0 /\ a2[loc] <= 0,
           Traced(rows, T, o1, n1, a1), Traced(more, T, o2, n2, a2)
    PROVE  Traced(rows \o more, T, o1 + o2, n1 + n2, a3)
<1>1. \A S : /\ NetIn(rows, S) \in [qty: Int, aed: Int]
             /\ NetIn(more, S) \in [qty: Int, aed: Int]
             /\ NetIn(rows \o more, S) = Plus(NetIn(rows, S), NetIn(more, S))
  BY NetInType, NetInConcat
<1>2. /\ NetIn(rows \o more, T \intersect Pend).qty = -(o1 + o2)
      /\ NetIn(rows \o more, T \intersect Pend).aed <= 0
      /\ NetIn(rows \o more, T \intersect Phys).qty = n1 + n2
  <2>1. /\ NetIn(rows, T \intersect Pend).qty = -o1 /\ NetIn(more, T \intersect Pend).qty = -o2
        /\ NetIn(rows, T \intersect Pend).aed <= 0 /\ NetIn(more, T \intersect Pend).aed <= 0
        /\ NetIn(rows, T \intersect Phys).qty = n1 /\ NetIn(more, T \intersect Phys).qty = n2
    BY DEF Traced
  <2>2. ASSUME NEW S
        PROVE  /\ NetIn(rows \o more, S).qty = NetIn(rows, S).qty + NetIn(more, S).qty
               /\ NetIn(rows \o more, S).aed = NetIn(rows, S).aed + NetIn(more, S).aed
               /\ NetIn(rows, S).qty \in Int /\ NetIn(more, S).qty \in Int
               /\ NetIn(rows, S).aed \in Int /\ NetIn(more, S).aed \in Int
    BY <1>1 DEF Plus
  <2>3. PICK A : A = T \intersect Pend
    OBVIOUS
  <2>4. PICK B : B = T \intersect Phys
    OBVIOUS
  <2>5. NetIn(rows \o more, A).qty = -(o1 + o2)
    <3>1. NetIn(rows, A).qty = -o1 /\ NetIn(more, A).qty = -o2
      BY <2>1, <2>3
    <3> QED
      BY <2>2, <3>1
  <2>6. NetIn(rows \o more, A).aed <= 0
    <3>1. NetIn(rows, A).aed <= 0 /\ NetIn(more, A).aed <= 0
      BY <2>1, <2>3
    <3>2. PICK x \in Int, y \in Int : x = NetIn(rows, A).aed /\ y = NetIn(more, A).aed
      BY <2>2
    <3> QED
      BY <2>2, <3>1, <3>2
  <2>7. NetIn(rows \o more, B).qty = n1 + n2
    BY <2>1, <2>2, <2>4
  <2> QED
    BY <2>3, <2>4, <2>5, <2>6, <2>7
<1>3. ASSUME NEW loc \in Locations
      PROVE  /\ NetIn(rows \o more, T \intersect PhysAt(loc)).qty = a3[loc]
             /\ a3[loc] >= 0 => NetIn(rows \o more, T \intersect PhysAt(loc)).aed >= 0
             /\ a3[loc] = 0 => Nothing(rows \o more, T \intersect PhysAt(loc))
  <2>1. PICK x \in [qty: Int, aed: Int], y \in [qty: Int, aed: Int] :
           x = NetIn(rows, T \intersect PhysAt(loc)) /\ y = NetIn(more, T \intersect PhysAt(loc))
    BY <1>1
  <2>2. PICK u \in Int, v \in Int, w \in Int : u = a1[loc] /\ v = a2[loc] /\ w = a3[loc]
    OBVIOUS
  <2>3. w = u + v /\ ((u >= 0 /\ v >= 0) \/ (u <= 0 /\ v <= 0))
    BY <2>2
  <2>4. x.qty = u /\ (u >= 0 => x.aed >= 0) /\ y.qty = v /\ (v >= 0 => y.aed >= 0)
    BY <2>1, <2>2 DEF Traced
  <2>5. w = 0 => u = 0 /\ v = 0
    BY <2>3
  <2>6. w = 0 => Nothing(rows \o more, T \intersect PhysAt(loc))
    BY <2>2, <2>5, NothingMore DEF Traced
  <2>7. NetIn(rows \o more, T \intersect PhysAt(loc)) = Plus(x, y)
    BY <1>1, <2>1
  <2>8. Plus(x, y).qty = w /\ (w >= 0 => Plus(x, y).aed >= 0)
    <3>1. w >= 0 => x.aed >= 0 /\ y.aed >= 0
      <4>1. CASE u >= 0 /\ v >= 0
        BY <4>1, <2>4
      <4>2. CASE u <= 0 /\ v <= 0
        <5>1. w >= 0 => u = 0 /\ v = 0
          BY <4>2, <2>3
        <5> QED
          BY <5>1, <2>4
      <4> QED
        BY <4>1, <4>2, <2>3
    <3> QED
      BY <2>3, <2>4, <3>1 DEF Plus
  <2> QED
    BY <2>2, <2>6, <2>7, <2>8
<1>4. o1 + o2 = 0 /\ (\A loc \in Locations : a3[loc] = 0) => Nothing(rows \o more, T)
  <2>1. SUFFICES ASSUME o1 + o2 = 0, \A loc \in Locations : a3[loc] = 0
                 PROVE  Nothing(rows \o more, T)
    OBVIOUS
  <2>2. o1 = 0 /\ o2 = 0
    BY <2>1
  <2>3. \A loc \in Locations : a1[loc] = 0 /\ a2[loc] = 0
    BY <2>1
  <2> QED
    BY <2>2, <2>3, NothingMore DEF Traced
<1>5. o1 + o2 = 0 => Nothing(rows \o more, T \intersect Pend)
  <2>1. SUFFICES ASSUME o1 + o2 = 0 PROVE Nothing(rows \o more, T \intersect Pend)
    OBVIOUS
  <2>2. o1 = 0 /\ o2 = 0
    BY <2>1
  <2> QED
    BY <2>2, NothingMore DEF Traced
<1> QED
  BY <1>2, <1>3, <1>4, <1>5 DEF Traced

-----------------------------------------------------------------------------
(* The amounts the records give *)

\* A sum of numbers that are not negative is not less than any of them.
LEMMA SumSeqAtLeast ==
    ASSUME NEW f \in Seq(Nat), NEW j \in 1..Len(f)
    PROVE  SumSeq(f) \in Nat /\ f[j] \in Nat /\ SumSeq(f) >= f[j]
<1> DEFINE g == [f EXCEPT ![j] = 0]
<1>1. f \in Seq(Int) /\ SumSeq(f) \in Nat /\ f[j] \in Nat
  BY SumSeqNatural
<1>2. g \in Seq(Nat) /\ Len(g) = Len(f) /\ g[j] = 0 /\ \A i \in 1..Len(f) : i # j => g[i] = f[i]
  <2>1. g \in [1..Len(f) -> Nat]
    OBVIOUS
  <2> QED
    BY <2>1
<1> HIDE DEF g
<1>3. SumSeq(g) \in Nat /\ g \in Seq(Int)
  BY <1>2, SumSeqNatural
<1>4. SumSeq(g) = SumSeq(f) + (g[j] - f[j])
  BY <1>1, <1>2, <1>3, SumSeqOneChanged
<1> QED
  BY <1>1, <1>2, <1>3, <1>4

\* A list of items, each for some units.
AskSome(items) ==
    Len(items) \in Nat /\ \A i \in 1..Len(items) : items[i].quantity \in Nat \ {0}

\* They ask for nothing exactly where there are none.
LEMMA TotalFacts ==
    ASSUME NEW items, AskSome(items), NEW N
    PROVE  /\ Total(items, N) \in Nat
           /\ [i \in 1..Len(items) |-> IF i \in N THEN items[i].quantity ELSE 0] \in Seq(Nat)
           /\ Total(items, N) = 0 <=> \A i \in 1..Len(items) : i \notin N
<1> DEFINE f == [i \in 1..Len(items) |-> IF i \in N THEN items[i].quantity ELSE 0]
<1>1. f \in Seq(Nat) /\ Len(f) = Len(items)
  <2>1. Len(items) \in Nat
    BY DEF AskSome
  <2>2. f \in [1..Len(items) -> Nat]
    BY DEF AskSome
  <2> QED
    BY <2>1, <2>2
<1>2. \A i \in 1..Len(items) : /\ i \in N => f[i] = items[i].quantity /\ f[i] # 0
                               /\ i \notin N => f[i] = 0
  BY DEF AskSome
<1>3. Total(items, N) = SumSeq(f)
  BY DEF Total
<1> HIDE DEF f
<1>4. SumSeq(f) \in Nat
  BY <1>1, SumSeqNatural
<1>5. ASSUME \A i \in 1..Len(items) : i \notin N PROVE SumSeq(f) = 0
  <2>1. f \in Seq(Int) /\ \A i \in 1..Len(f) : f[i] = 0
    BY <1>1, <1>2, <1>5
  <2> QED
    BY <2>1, SumSeqZero
<1>6. ASSUME NEW i \in 1..Len(items), i \in N PROVE SumSeq(f) # 0
  <2>1. f[i] # 0 /\ i \in 1..Len(f)
    BY <1>1, <1>2, <1>6
  <2>2. f[i] \in Nat /\ SumSeq(f) >= f[i]
    BY <1>1, <2>1, SumSeqAtLeast
  <2> QED
    BY <1>4, <2>1, <2>2
<1> QED
  BY <1>1, <1>3, <1>4, <1>5, <1>6 DEF f

\* The fields of the records.
LEMMA TableTypes ==
    ASSUME NEW ps, NEW lns, NEW cs, NEW rs, TablesTyped(ps, lns, cs, rs)
    PROVE  /\ Len(ps) \in Nat /\ Len(lns) \in Nat /\ Len(cs) \in Nat /\ Len(rs) \in Nat
           /\ \A p \in 1..Len(ps) : ps[p] \in PurchaseRecords
           /\ \A l \in 1..Len(lns) : /\ lns[l] \in LineRecords(Len(ps))
                                     /\ lns[l].purchase \in 1..Len(ps)
                                     /\ lns[l].product \in Products
                                     /\ lns[l].quantity \in Nat \ {0}
                                     /\ lns[l].is_deleted \in BOOLEAN
                                     /\ ps[lns[l].purchase].location \in Locations
           /\ \A c \in 1..Len(cs) : /\ cs[c].purchase \in 1..Len(ps)
                                    /\ cs[c].location \in Locations
                                    /\ cs[c].lines \in Seq(AskedItems(Len(lns)))
                                    /\ AskSome(cs[c].lines)
                                    /\ cs[c].is_deleted \in BOOLEAN
           /\ \A r \in 1..Len(rs) : /\ rs[r].purchase \in 1..Len(ps)
                                    /\ rs[r].lines \in Seq(BackItems(Len(lns)))
                                    /\ AskSome(rs[r].lines)
                                    /\ rs[r].is_deleted \in BOOLEAN
<1>1. /\ ps \in Seq(PurchaseRecords)
      /\ lns \in Seq(LineRecords(Len(ps)))
      /\ cs \in Seq(CollectionRecords(Len(ps), Len(lns)))
      /\ rs \in Seq(RefundRecords(Len(ps), Len(lns)))
  BY DEF TablesTyped
<1>2. \A p \in 1..Len(ps) : ps[p] \in PurchaseRecords
  BY <1>1
<1>3. ASSUME NEW l \in 1..Len(lns)
      PROVE  /\ lns[l] \in LineRecords(Len(ps))
             /\ lns[l].purchase \in 1..Len(ps)
             /\ lns[l].product \in Products
             /\ lns[l].quantity \in Nat \ {0}
             /\ lns[l].is_deleted \in BOOLEAN
             /\ ps[lns[l].purchase].location \in Locations
  <2>1. lns[l] \in LineRecords(Len(ps))
    BY <1>1
  <2>2. ps[lns[l].purchase] \in PurchaseRecords
    BY <1>2, <2>1 DEF LineRecords
  <2> QED
    BY <2>1, <2>2, QuantitiesAssumption DEF LineRecords, PurchaseRecords
<1>4. ASSUME NEW c \in 1..Len(cs)
      PROVE  /\ cs[c].purchase \in 1..Len(ps)
             /\ cs[c].location \in Locations
             /\ cs[c].lines \in Seq(AskedItems(Len(lns)))
             /\ AskSome(cs[c].lines)
             /\ cs[c].is_deleted \in BOOLEAN
  <2>1. cs[c] \in CollectionRecords(Len(ps), Len(lns))
    BY <1>1
  <2>2. cs[c].lines \in Seq(AskedItems(Len(lns)))
    BY <2>1 DEF CollectionRecords
  <2>3. PICK items \in Seq(AskedItems(Len(lns))) : items = cs[c].lines
    BY <2>2
  <2>4. AskSome(cs[c].lines)
    <3>1. \A item \in AskedItems(Len(lns)) : item.quantity \in Nat \ {0}
      BY QuantitiesAssumption DEF AskedItems
    <3>2. \A i \in 1..Len(items) : items[i] \in AskedItems(Len(lns))
      OBVIOUS
    <3>3. AskSome(items)
      BY <3>1, <3>2 DEF AskSome
    <3> QED
      BY <2>3, <3>3
  <2> QED
    BY <2>1, <2>2, <2>4 DEF CollectionRecords
<1>5. ASSUME NEW r \in 1..Len(rs)
      PROVE  /\ rs[r].purchase \in 1..Len(ps)
             /\ rs[r].lines \in Seq(BackItems(Len(lns)))
             /\ AskSome(rs[r].lines)
             /\ rs[r].is_deleted \in BOOLEAN
  <2>1. rs[r] \in RefundRecords(Len(ps), Len(lns))
    BY <1>1
  <2>2. rs[r].lines \in Seq(BackItems(Len(lns)))
    BY <2>1 DEF RefundRecords
  <2>3. PICK items \in Seq(BackItems(Len(lns))) : items = rs[r].lines
    BY <2>2
  <2>4. AskSome(rs[r].lines)
    <3>1. \A item \in BackItems(Len(lns)) : item.quantity \in Nat \ {0}
      BY QuantitiesAssumption DEF BackItems
    <3>2. \A i \in 1..Len(items) : items[i] \in BackItems(Len(lns))
      OBVIOUS
    <3>3. AskSome(items)
      BY <3>1, <3>2 DEF AskSome
    <3> QED
      BY <2>3, <3>3
  <2> QED
    BY <2>1, <2>2, <2>4 DEF RefundRecords
<1> QED
  BY <1>1, <1>2, <1>3, <1>4, <1>5

\* Amounts of collections and refunds are not negative, nor are their sums.
LEMMA AmountTypes ==
    ASSUME NEW ps, NEW lns, NEW cs, NEW rs, TablesTyped(ps, lns, cs, rs), NEW l
    PROVE  /\ \A c \in 1..Len(cs) : Took(cs, c, l) \in Nat /\ TookAt(cs, c, l) \in [Locations -> Nat]
           /\ \A r \in 1..Len(rs) : /\ \A source : Back(rs, r, l, source) \in Nat
                                    /\ \A loc : BackAt(rs, r, l, loc) \in Nat
           /\ [c \in 1..Len(cs) |-> Took(cs, c, l)] \in Seq(Nat)
           /\ \A source : [r \in 1..Len(rs) |-> Back(rs, r, l, source)] \in Seq(Nat)
           /\ \A loc \in Locations : [c \in 1..Len(cs) |-> TookAt(cs, c, l)[loc]] \in Seq(Nat)
           /\ \A loc : [r \in 1..Len(rs) |-> BackAt(rs, r, l, loc)] \in Seq(Nat)
           /\ TookAll(cs, l) \in Nat
           /\ \A source : BackAll(rs, l, source) \in Nat
<1>1. /\ Len(cs) \in Nat /\ Len(rs) \in Nat
      /\ \A c \in 1..Len(cs) : AskSome(cs[c].lines)
      /\ \A r \in 1..Len(rs) : AskSome(rs[r].lines)
  BY TableTypes
<1>2. ASSUME NEW c \in 1..Len(cs)
      PROVE  Took(cs, c, l) \in Nat /\ TookAt(cs, c, l) \in [Locations -> Nat]
  <2>1. Took(cs, c, l) \in Nat
    BY <1>1, TotalFacts DEF Took
  <2> QED
    BY <2>1 DEF TookAt
<1>3. ASSUME NEW r \in 1..Len(rs)
      PROVE  /\ \A source : Back(rs, r, l, source) \in Nat
             /\ \A loc : BackAt(rs, r, l, loc) \in Nat
  BY <1>1, TotalFacts DEF Back, BackAt
<1>4. [c \in 1..Len(cs) |-> Took(cs, c, l)] \in Seq(Nat)
  <2>1. [c \in 1..Len(cs) |-> Took(cs, c, l)] \in [1..Len(cs) -> Nat]
    BY <1>2
  <2> QED
    BY <1>1, <2>1
<1>5. ASSUME NEW source PROVE [r \in 1..Len(rs) |-> Back(rs, r, l, source)] \in Seq(Nat)
  <2>1. [r \in 1..Len(rs) |-> Back(rs, r, l, source)] \in [1..Len(rs) -> Nat]
    BY <1>3
  <2> QED
    BY <1>1, <2>1
<1>6. ASSUME NEW loc \in Locations PROVE [c \in 1..Len(cs) |-> TookAt(cs, c, l)[loc]] \in Seq(Nat)
  <2>1. \A c \in 1..Len(cs) : TookAt(cs, c, l)[loc] \in Nat
    BY <1>2
  <2>2. [c \in 1..Len(cs) |-> TookAt(cs, c, l)[loc]] \in [1..Len(cs) -> Nat]
    BY <2>1
  <2> QED
    BY <1>1, <2>2
<1>7. ASSUME NEW loc PROVE [r \in 1..Len(rs) |-> BackAt(rs, r, l, loc)] \in Seq(Nat)
  <2>1. [r \in 1..Len(rs) |-> BackAt(rs, r, l, loc)] \in [1..Len(rs) -> Nat]
    BY <1>3
  <2> QED
    BY <1>1, <2>1
<1>8. TookAll(cs, l) \in Nat /\ \A source : BackAll(rs, l, source) \in Nat
  BY <1>4, <1>5, SumSeqNatural DEF TookAll, BackAll
<1> QED
  BY <1>2, <1>3, <1>4, <1>5, <1>6, <1>7, <1>8

-----------------------------------------------------------------------------
(* What a line holds in total *)

\* The units in T of the rows of each collection, and of each refund.
ByCollection(rows, cs, l, T) ==
    [c \in 1..Len(cs) |-> NetIn(rows, Of("PURCHASE_COLLECTION", c, l) \intersect T).qty]

ByRefund(rows, rs, l, T) ==
    [r \in 1..Len(rs) |-> NetIn(rows, Of("PURCHASE_REFUND", r, l) \intersect T).qty]

\* The rows in T are of the line.
OnlyOn(T, l) == T \subseteq OnLine(l)

\* The rows of a line are those of its entry, its collections and its refunds.
LEMMA RowsByRecord ==
    ASSUME NEW ps, NEW lns, NEW cs, NEW rs, TablesTyped(ps, lns, cs, rs),
           NEW rows \in Seq(Rows), RowsFit(rows, ps, lns, cs, rs),
           NEW l, NEW T, OnlyOn(T, l)
    PROVE  NetIn(rows, T).qty =
              NetIn(rows, Of("PURCHASE", lns[l].purchase, l) \intersect T).qty
                + SumSeq(ByCollection(rows, cs, l, T)) + SumSeq(ByRefund(rows, rs, l, T))
<1> USE DEF OnlyOn
<1> DEFINE Typed(t) == {row \in T : row.stype = t}
           e == Typed("PURCHASE")
           c == Typed("PURCHASE_COLLECTION")
           r == Typed("PURCHASE_REFUND")
<1>1. Len(cs) \in Nat /\ Len(rs) \in Nat
  BY TableTypes
<1>2. T = e \union (c \union r) /\ e \intersect (c \union r) = {} /\ c \intersect r = {}
  BY DEF OnLine, PurchaseSources
<1>3. NetIn(rows, T) = Plus(NetIn(rows, e), Plus(NetIn(rows, c), NetIn(rows, r)))
  <2> HIDE DEF e, c, r
  <2>1. NetIn(rows, e \union (c \union r)) = Plus(NetIn(rows, e), NetIn(rows, c \union r))
    BY <1>2, NetInUnion
  <2>2. NetIn(rows, c \union r) = Plus(NetIn(rows, c), NetIn(rows, r))
    BY <1>2, NetInUnion
  <2> QED
    BY <1>2, <2>1, <2>2
<1>4. \A i \in 1..Len(rows) : rows[i] \in OnLine(l) =>
         /\ rows[i].stype = "PURCHASE" => rows[i].sid = lns[l].purchase
         /\ rows[i].stype = "PURCHASE_COLLECTION" => rows[i].sid \in 1..Len(cs)
         /\ rows[i].stype = "PURCHASE_REFUND" => rows[i].sid \in 1..Len(rs)
  BY DEF RowsFit, OwnRowFits, RowFits, OnLine
<1>5. NetIn(rows, e) = NetIn(rows, Of("PURCHASE", lns[l].purchase, l) \intersect T)
  <2>1. \A i \in 1..Len(rows) :
           rows[i] \in e <=> rows[i] \in Of("PURCHASE", lns[l].purchase, l) \intersect T
    BY <1>4 DEF Of
  <2> HIDE DEF e
  <2> QED
    BY <2>1, NetInSame
<1>6. NetIn(rows, c).qty =
         SumSeq([s \in 1..Len(cs) |->
                   NetIn(rows, Of("PURCHASE_COLLECTION", s, l) \intersect T).qty])
  <2>1. \A s : OfRecord(c, s) = Of("PURCHASE_COLLECTION", s, l) \intersect T
    BY DEF OfRecord, Of
  <2>2. \A i \in 1..Len(rows) : rows[i] \in c => rows[i].sid \in 1..Len(cs)
    BY <1>4
  <2> HIDE DEF c
  <2>3. NetIn(rows, c).qty = SumSeq([s \in 1..Len(cs) |-> NetIn(rows, OfRecord(c, s)).qty])
    BY <1>1, <2>2, NetByRecord
  <2> QED
    BY <2>1, <2>3
<1>7. NetIn(rows, r).qty =
         SumSeq([s \in 1..Len(rs) |->
                   NetIn(rows, Of("PURCHASE_REFUND", s, l) \intersect T).qty])
  <2>1. \A s : OfRecord(r, s) = Of("PURCHASE_REFUND", s, l) \intersect T
    BY DEF OfRecord, Of
  <2>2. \A i \in 1..Len(rows) : rows[i] \in r => rows[i].sid \in 1..Len(rs)
    BY <1>4
  <2> HIDE DEF r
  <2>3. NetIn(rows, r).qty = SumSeq([s \in 1..Len(rs) |-> NetIn(rows, OfRecord(r, s)).qty])
    BY <1>1, <2>2, NetByRecord
  <2> QED
    BY <2>1, <2>3
<1> HIDE DEF e, c, r
<1>8. PICK x \in [qty: Int, aed: Int], y \in [qty: Int, aed: Int], z \in [qty: Int, aed: Int] :
         x = NetIn(rows, e) /\ y = NetIn(rows, c) /\ z = NetIn(rows, r)
  BY NetInType
<1>9. NetIn(rows, T).qty = x.qty + y.qty + z.qty
  BY <1>3, <1>8 DEF Plus
<1> QED
  BY <1>5, <1>6, <1>7, <1>8, <1>9 DEF ByCollection, ByRefund

\* The entry of a line is in PENDING as long as its purchase is not deleted.
LEMMA EntryPending ==
    ASSUME NEW ps, NEW lns, NEW cs, NEW rs,
           NEW rows \in Seq(Rows), RowsFit(rows, ps, lns, cs, rs),
           NEW l, ~ps[lns[l].purchase].is_deleted,
           NEW T, \A row \in T : row \in OnLine(l) /\ row.bucket # "PENDING"
    PROVE  Nothing(rows, Of("PURCHASE", lns[l].purchase, l) \intersect T)
<1>1. ASSUME NEW i \in 1..Len(rows), rows[i] \in Of("PURCHASE", lns[l].purchase, l) \intersect T
      PROVE  FALSE
  <2>1. rows[i].stype = "PURCHASE" /\ rows[i].line = l /\ rows[i].bucket # "PENDING"
    BY <1>1 DEF Of, OnLine
  <2> QED
    BY <2>1 DEF RowsFit, OwnRowFits, RowFits, PurchaseSources
<1> QED
  BY <1>1, NothingOutside

\* Numbers that are the opposite of others sum to the opposite.
LEMMA SumsNegated ==
    ASSUME NEW n \in Nat, NEW f \in [1..n -> Int], NEW g \in [1..n -> Int],
           \A i \in 1..n : f[i] = -g[i]
    PROVE  SumSeq(f) \in Int /\ SumSeq(g) \in Int /\ SumSeq(f) = -SumSeq(g)
<1>1. f \in Seq(Int) /\ g \in Seq(Int) /\ Len(f) = n /\ Len(g) = n
  OBVIOUS
<1>2. SumSeq(f) = -SumSeq(g)
  BY <1>1, SumSeqNegated
<1> QED
  BY <1>1, <1>2, SumSeqType

\* What each collection and each refund adds to the rows of a line in V.
Adds(rows, cs, rs, l, V, t, b) ==
    /\ t \in [1..Len(cs) -> Int] /\ b \in [1..Len(rs) -> Int]
    /\ \A c \in 1..Len(cs) :
          NetIn(rows, Of("PURCHASE_COLLECTION", c, l) \intersect V).qty = t[c]
    /\ \A r \in 1..Len(rs) :
          NetIn(rows, Of("PURCHASE_REFUND", r, l) \intersect V).qty = -b[r]

\* The rows of the line in V add up to that.
LEMMA LineSum ==
    ASSUME NEW ps, NEW lns, NEW cs, NEW rs, TablesTyped(ps, lns, cs, rs),
           NEW rows \in Seq(Rows), RowsFit(rows, ps, lns, cs, rs),
           NEW l, NEW V, NEW t, NEW b, Adds(rows, cs, rs, l, V, t, b)
    PROVE  /\ SumSeq(t) \in Int /\ SumSeq(b) \in Int
           /\ NetIn(rows, OnLine(l) \intersect V).qty =
                 NetIn(rows, Of("PURCHASE", lns[l].purchase, l) \intersect V).qty
                    + SumSeq(t) - SumSeq(b)
<1> USE DEF Adds
<1>1. PICK T : T = OnLine(l) \intersect V
  OBVIOUS
<1>2. \A k, s : Of(k, s, l) \intersect T = Of(k, s, l) \intersect V
  BY <1>1 DEF Of
<1>3. OnlyOn(T, l)
  BY <1>1 DEF OnlyOn
<1>4. Len(cs) \in Nat /\ Len(rs) \in Nat
  BY TableTypes
<1>5. NetIn(rows, T).qty =
         NetIn(rows, Of("PURCHASE", lns[l].purchase, l) \intersect T).qty
           + SumSeq(ByCollection(rows, cs, l, T)) + SumSeq(ByRefund(rows, rs, l, T))
  BY <1>3, RowsByRecord
<1>6. ByCollection(rows, cs, l, T) = t
  BY <1>2 DEF ByCollection
<1>7. PICK g : g = ByRefund(rows, rs, l, T)
  OBVIOUS
<1>8. g \in [1..Len(rs) -> Int] /\ \A r \in 1..Len(rs) : g[r] = -b[r]
  <2>1. \A r \in 1..Len(rs) : NetIn(rows, Of("PURCHASE_REFUND", r, l) \intersect T).qty = -b[r]
    BY <1>2
  <2>2. \A r \in 1..Len(rs) : b[r] \in Int
    OBVIOUS
  <2>3. \A r \in 1..Len(rs) : -b[r] \in Int
    BY <2>2
  <2> QED
    BY <1>7, <2>1, <2>3 DEF ByRefund
<1>9. SumSeq(g) \in Int /\ SumSeq(b) \in Int /\ SumSeq(g) = -SumSeq(b)
  BY <1>4, <1>8, SumsNegated
<1>10. SumSeq(t) \in Int
  BY <1>4, SumSeqType
<1>11. NetIn(rows, Of("PURCHASE", lns[l].purchase, l) \intersect T) \in [qty: Int, aed: Int]
  BY NetInType
<1>12. NetIn(rows, T).qty =
         NetIn(rows, Of("PURCHASE", lns[l].purchase, l) \intersect T).qty + SumSeq(t) + SumSeq(g)
  BY <1>5, <1>6, <1>7
<1>13. PICK x \in Int : x = NetIn(rows, Of("PURCHASE", lns[l].purchase, l) \intersect T).qty
  BY <1>11
<1>14. NetIn(rows, T).qty = x + SumSeq(t) - SumSeq(b)
  BY <1>9, <1>10, <1>12, <1>13
<1> QED
  BY <1>1, <1>2, <1>9, <1>10, <1>13, <1>14

\* What a line that is not deleted holds follows from its records: in PENDING what
\* was bought and neither collected nor cancelled, in PHYSICAL what was collected and
\* not returned, and the same place by place.
Holds(rows, lns, cs, rs, l) ==
    /\ NetIn(rows, OnLine(l) \intersect Pend).qty = Pending(lns, cs, rs, l)
    /\ NetIn(rows, OnLine(l) \intersect Phys).qty = TookAll(cs, l) - BackAll(rs, l, "RECEIVED")
    /\ \A loc \in Locations :
          NetIn(rows, OnLine(l) \intersect PhysAt(loc)).qty = HeldAt(cs, rs, l, loc)

\* What a live line holds follows from what its records did.
LEMMA LineTotals ==
    ASSUME NEW ps, NEW lns, NEW cs, NEW rs, TablesTyped(ps, lns, cs, rs),
           NEW rows \in Seq(Rows), RowsFit(rows, ps, lns, cs, rs),
           NEW l \in 1..Len(lns), ~ps[lns[l].purchase].is_deleted,
           LiveLine(rows, lns, cs, rs, l)
    PROVE  Holds(rows, lns, cs, rs, l)
<1>1. /\ Len(cs) \in Nat /\ Len(rs) \in Nat
      /\ lns[l].quantity \in Nat
      /\ TookAll(cs, l) \in Nat
      /\ \A source : BackAll(rs, l, source) \in Nat
      /\ \A c \in 1..Len(cs) : Took(cs, c, l) \in Nat /\ TookAt(cs, c, l) \in [Locations -> Nat]
      /\ \A r \in 1..Len(rs) : /\ \A source : Back(rs, r, l, source) \in Nat
                               /\ \A loc : BackAt(rs, r, l, loc) \in Nat
  BY TableTypes, AmountTypes
<1>2. /\ NetIn(rows, Of("PURCHASE", lns[l].purchase, l)).qty = lns[l].quantity
      /\ \A c \in 1..Len(cs) :
            /\ NetIn(rows, Of("PURCHASE_COLLECTION", c, l) \intersect Pend).qty = -Took(cs, c, l)
            /\ NetIn(rows, Of("PURCHASE_COLLECTION", c, l) \intersect Phys).qty = Took(cs, c, l)
            /\ \A loc \in Locations :
                  NetIn(rows, Of("PURCHASE_COLLECTION", c, l) \intersect PhysAt(loc)).qty
                     = TookAt(cs, c, l)[loc]
  BY DEF LiveLine, CollectionTraced, Traced
<1>3. \A r \in 1..Len(rs) :
         /\ NetIn(rows, Of("PURCHASE_REFUND", r, l) \intersect Pend).qty = -Back(rs, r, l, "PENDING")
         /\ NetIn(rows, Of("PURCHASE_REFUND", r, l) \intersect Phys).qty = -Back(rs, r, l, "RECEIVED")
         /\ \A loc \in Locations :
               NetIn(rows, Of("PURCHASE_REFUND", r, l) \intersect PhysAt(loc)).qty
                  = -BackAt(rs, r, l, loc)
  BY DEF LiveLine, RefundTraced, BackFrom, Traced
<1>4. NetIn(rows, Of("PURCHASE", lns[l].purchase, l) \intersect Pend).qty = lns[l].quantity
  <2>1. \A i \in 1..Len(rows) : rows[i] \in Of("PURCHASE", lns[l].purchase, l) \intersect Pend
                                  <=> rows[i] \in Of("PURCHASE", lns[l].purchase, l)
    <3>1. SUFFICES ASSUME NEW i \in 1..Len(rows), rows[i] \in Of("PURCHASE", lns[l].purchase, l)
                   PROVE  rows[i].bucket = "PENDING"
      BY DEF Pend, BucketRows, Of, OnLine
    <3>2. rows[i].stype = "PURCHASE" /\ rows[i].line = l
      BY <3>1 DEF Of, OnLine
    <3> QED
      BY <3>2 DEF RowsFit, OwnRowFits, RowFits, PurchaseSources
  <2>2. NetIn(rows, Of("PURCHASE", lns[l].purchase, l) \intersect Pend)
           = NetIn(rows, Of("PURCHASE", lns[l].purchase, l))
    BY <2>1, NetInSame
  <2> QED
    BY <2>2, <1>2
<1>5. ASSUME NEW V, V \subseteq Phys
      PROVE  NetIn(rows, Of("PURCHASE", lns[l].purchase, l) \intersect V).qty = 0
  <2>1. \A i \in 1..Len(rows) : rows[i] \notin Of("PURCHASE", lns[l].purchase, l) \intersect V
    <3>1. SUFFICES ASSUME NEW i \in 1..Len(rows),
                          rows[i] \in Of("PURCHASE", lns[l].purchase, l) \intersect V
                   PROVE  FALSE
      OBVIOUS
    <3>2. rows[i].stype = "PURCHASE" /\ rows[i].line = l /\ rows[i].bucket # "PENDING"
      BY <1>5, <3>1 DEF Of, OnLine, Phys, BucketRows
    <3> QED
      BY <3>2 DEF RowsFit, OwnRowFits, RowFits, PurchaseSources
  <2>2. NetIn(rows, Of("PURCHASE", lns[l].purchase, l) \intersect V) = NoStock
    BY <2>1, NetInNone
  <2> QED
    BY <2>2 DEF NoStock
<1>6. NetIn(rows, OnLine(l) \intersect Pend).qty = Pending(lns, cs, rs, l)
  <2>1. PICK f, g, b : /\ f = [c \in 1..Len(cs) |-> -Took(cs, c, l)]
                       /\ g = [c \in 1..Len(cs) |-> Took(cs, c, l)]
                       /\ b = [r \in 1..Len(rs) |-> Back(rs, r, l, "PENDING")]
    OBVIOUS
  <2>2. g \in [1..Len(cs) -> Int] /\ b \in [1..Len(rs) -> Int]
    BY <1>1, <2>1
  <2>3. f \in [1..Len(cs) -> Int] /\ \A c \in 1..Len(cs) : f[c] = -g[c]
    <3>1. \A c \in 1..Len(cs) : -Took(cs, c, l) \in Int
      BY <1>1
    <3> QED
      BY <2>1, <3>1
  <2>4. SumSeq(f) \in Int /\ SumSeq(g) \in Int /\ SumSeq(f) = -SumSeq(g)
    BY <1>1, <2>2, <2>3, SumsNegated
  <2>5. SumSeq(g) = TookAll(cs, l) /\ SumSeq(b) = BackAll(rs, l, "PENDING")
    BY <2>1 DEF TookAll, BackAll
  <2>6. /\ \A c \in 1..Len(cs) :
              NetIn(rows, Of("PURCHASE_COLLECTION", c, l) \intersect Pend).qty = f[c]
        /\ \A r \in 1..Len(rs) :
              NetIn(rows, Of("PURCHASE_REFUND", r, l) \intersect Pend).qty = -b[r]
    BY <1>2, <1>3, <2>1
  <2>8. Adds(rows, cs, rs, l, Pend, f, b)
    BY <2>2, <2>3, <2>6 DEF Adds
  <2>7. /\ SumSeq(f) \in Int /\ SumSeq(b) \in Int
        /\ NetIn(rows, OnLine(l) \intersect Pend).qty =
              NetIn(rows, Of("PURCHASE", lns[l].purchase, l) \intersect Pend).qty
                 + SumSeq(f) - SumSeq(b)
    BY <2>8, LineSum
  <2>9. NetIn(rows, OnLine(l) \intersect Pend).qty
           = lns[l].quantity - TookAll(cs, l) - BackAll(rs, l, "PENDING")
    <3>1. NetIn(rows, OnLine(l) \intersect Pend).qty = lns[l].quantity + SumSeq(f) - SumSeq(b)
      BY <1>4, <2>7
    <3>2. BackAll(rs, l, "PENDING") \in Nat
      BY <1>1
    <3> QED
      BY <1>1, <2>4, <2>5, <3>1, <3>2
  <2> QED
    BY <2>9 DEF Pending
<1>7. NetIn(rows, OnLine(l) \intersect Phys).qty = TookAll(cs, l) - BackAll(rs, l, "RECEIVED")
  <2>1. PICK g, b : /\ g = [c \in 1..Len(cs) |-> Took(cs, c, l)]
                    /\ b = [r \in 1..Len(rs) |-> Back(rs, r, l, "RECEIVED")]
    OBVIOUS
  <2>2. g \in [1..Len(cs) -> Int] /\ b \in [1..Len(rs) -> Int]
    BY <1>1, <2>1
  <2>3. SumSeq(g) = TookAll(cs, l) /\ SumSeq(b) = BackAll(rs, l, "RECEIVED")
    BY <2>1 DEF TookAll, BackAll
  <2>4. /\ \A c \in 1..Len(cs) :
              NetIn(rows, Of("PURCHASE_COLLECTION", c, l) \intersect Phys).qty = g[c]
        /\ \A r \in 1..Len(rs) :
              NetIn(rows, Of("PURCHASE_REFUND", r, l) \intersect Phys).qty = -b[r]
    BY <1>2, <1>3, <2>1
  <2>9. Adds(rows, cs, rs, l, Phys, g, b)
    BY <2>2, <2>4 DEF Adds
  <2>5. /\ SumSeq(g) \in Int /\ SumSeq(b) \in Int
        /\ NetIn(rows, OnLine(l) \intersect Phys).qty =
              NetIn(rows, Of("PURCHASE", lns[l].purchase, l) \intersect Phys).qty
                 + SumSeq(g) - SumSeq(b)
    BY <2>9, LineSum
  <2>6. NetIn(rows, Of("PURCHASE", lns[l].purchase, l) \intersect Phys).qty = 0
    BY <1>5
  <2> QED
    BY <2>3, <2>5, <2>6
<1>8. ASSUME NEW loc \in Locations
      PROVE  NetIn(rows, OnLine(l) \intersect PhysAt(loc)).qty = HeldAt(cs, rs, l, loc)
  <2>0. PICK V : V = PhysAt(loc)
    OBVIOUS
  <2>1. PICK g, b : /\ g = [c \in 1..Len(cs) |-> TookAt(cs, c, l)[loc]]
                    /\ b = [r \in 1..Len(rs) |-> BackAt(rs, r, l, loc)]
    OBVIOUS
  <2>2. g \in [1..Len(cs) -> Int] /\ b \in [1..Len(rs) -> Int]
    BY <1>1, <2>1
  <2>3. SumSeq(g) - SumSeq(b) = HeldAt(cs, rs, l, loc)
    BY <2>1 DEF HeldAt
  <2>4. /\ \A c \in 1..Len(cs) :
              NetIn(rows, Of("PURCHASE_COLLECTION", c, l) \intersect V).qty = g[c]
        /\ \A r \in 1..Len(rs) :
              NetIn(rows, Of("PURCHASE_REFUND", r, l) \intersect V).qty = -b[r]
    BY <1>2, <1>3, <2>0, <2>1
  <2>9. Adds(rows, cs, rs, l, V, g, b)
    BY <2>2, <2>4 DEF Adds
  <2>5. /\ SumSeq(g) \in Int /\ SumSeq(b) \in Int
        /\ NetIn(rows, OnLine(l) \intersect V).qty =
              NetIn(rows, Of("PURCHASE", lns[l].purchase, l) \intersect V).qty
                 + SumSeq(g) - SumSeq(b)
    <3>1. /\ TablesTyped(ps, lns, cs, rs) /\ rows \in Seq(Rows) /\ RowsFit(rows, ps, lns, cs, rs)
          /\ Adds(rows, cs, rs, l, V, g, b)
      BY <2>9
    <3>2. NetIn(rows, OnLine(l) \intersect V).qty =
              NetIn(rows, Of("PURCHASE", lns[l].purchase, l) \intersect V).qty
                 + SumSeq(g) - SumSeq(b)
      BY <3>1, LineSum
    <3>3. SumSeq(g) \in Int /\ SumSeq(b) \in Int
      BY <3>1, LineSum
    <3> QED
      BY <3>2, <3>3
  <2>6. NetIn(rows, Of("PURCHASE", lns[l].purchase, l) \intersect V).qty = 0
    BY <1>5, <2>0, SetsBlind
  <2> QED
    BY <2>0, <2>3, <2>5, <2>6
<1> QED
  BY <1>6, <1>7, <1>8 DEF Holds
-----------------------------------------------------------------------------
(* What the records of the tables say *)

\* The units each item asks for, if it is one of those in N.
Asked(items, N) == [i \in 1..Len(items) |-> IF i \in N THEN items[i].quantity ELSE 0]

\* A total is the sum of what the items ask for.
LEMMA TotalAsked == \A items, N : Total(items, N) = SumSeq(Asked(items, N))
BY DEF Total, Asked

\* What a refund says of a line.
Returning(r, l, source) ==
    SumOf(refunds[r].lines, LAMBDA item : item.line = l /\ item.source = source,
          LAMBDA item : item.quantity)

\* What the models compute is what the records say.
LEMMA RecordsSay ==
    ASSUME NEW X, collections \in Seq(X), NEW Y, refunds \in Seq(Y), NEW l
    PROVE  /\ CollectedQty(l) = TookAll(collections, l)
           /\ \A source : RefundSum(l, source) = BackAll(refunds, l, source)
           /\ CancelledPendingQty(l) = BackAll(refunds, l, "PENDING")
           /\ \A lns : PendingQty(lns, l) = Pending(lns, collections, refunds, l)
<1>1. ASSUME NEW c PROVE CollectedIn(c, l) = Total(collections[c].lines, On(collections[c].lines, l))
  <2>1. PICK items : items = collections[c].lines
    OBVIOUS
  <2>2. [i \in 1..Len(items) |-> IF items[i].line = l THEN items[i].quantity ELSE 0] =
        [i \in 1..Len(items) |-> IF i \in On(items, l) THEN items[i].quantity ELSE 0]
    BY DEF On
  <2> QED
    BY <2>1, <2>2 DEF CollectedIn, Total, SumOf
<1>2. CollectedQty(l) = TookAll(collections, l)
  <2>1. [c \in DOMAIN collections |->
            IF collections[c].is_deleted THEN 0 ELSE CollectedIn(c, l)] =
        [c \in 1..Len(collections) |-> Took(collections, c, l)]
    BY <1>1 DEF Took
  <2> QED
    BY <2>1 DEF CollectedQty, TookAll
<1>3. ASSUME NEW source PROVE RefundSum(l, source) = BackAll(refunds, l, source)
  <2>1. ASSUME NEW r
        PROVE  Returning(r, l, source)
                  = Total(refunds[r].lines, OnFrom(refunds[r].lines, l, source))
    <3>1. PICK items : items = refunds[r].lines
      OBVIOUS
    <3>2. [i \in 1..Len(items) |->
              IF items[i].line = l /\ items[i].source = source THEN items[i].quantity ELSE 0] =
          [i \in 1..Len(items) |->
              IF i \in OnFrom(items, l, source) THEN items[i].quantity ELSE 0]
      BY DEF OnFrom, On
    <3> QED
      BY <3>1, <3>2 DEF Returning, Total, SumOf
  <2>2. [r \in DOMAIN refunds |->
            IF refunds[r].is_deleted THEN 0 ELSE Returning(r, l, source)] =
        [r \in 1..Len(refunds) |-> Back(refunds, r, l, source)]
    BY <2>1 DEF Back
  <2> QED
    BY <2>2 DEF RefundSum, Returning, SumOf, BackAll
<1>4. CancelledPendingQty(l) = BackAll(refunds, l, "PENDING")
  BY <1>3 DEF CancelledPendingQty
<1> QED
  BY <1>2, <1>3, <1>4 DEF PendingQty, Pending

\* What the items before one asked of its line.
LEMMA AskedIs ==
    ASSUME NEW X, NEW items \in Seq(X), AskSome(items), NEW i \in 1..Len(items),
           NEW l, items[i].line = l
    PROVE  /\ AskedBefore(items, i, LAMBDA x : TRUE)
                 = PrefixSums(Asked(items, On(items, l)))[i - 1]
           /\ AskedBefore(items, i, LAMBDA x : x.source = "PENDING")
                 = PrefixSums(Asked(items, OnFrom(items, l, "PENDING")))[i - 1]
<1>1. PICK sub : sub = SubSeq(items, 1, i - 1)
  OBVIOUS
<1>2. Len(sub) = i - 1 /\ \A k \in 1..(i - 1) : sub[k] = items[k]
  BY <1>1
<1>3. i - 1 \in Nat /\ 1..(i - 1) \subseteq 1..Len(items)
  OBVIOUS
<1>4. ASSUME NEW N, NEW g,
             g = [k \in 1..Len(sub) |-> IF k \in N THEN items[k].quantity ELSE 0]
      PROVE  SumSeq(g) = PrefixSums(Asked(items, N))[i - 1]
  <2>1. Asked(items, N) \in Seq(Nat)
    BY TotalFacts DEF Asked
  <2>2. Asked(items, N) \in Seq(Int) /\ Len(Asked(items, N)) = Len(items)
    <3>1. \A f \in Seq(Nat) : f \in Seq(Int)
      OBVIOUS
    <3>2. DOMAIN Asked(items, N) = 1..Len(items)
      BY DEF Asked
    <3> QED
      BY <2>1, <3>1, <3>2
  <2>3. \A k \in 1..(i - 1) : g[k] = Asked(items, N)[k] /\ g[k] \in Int
    <3>1. \A k \in 1..(i - 1) : items[k].quantity \in Nat
      BY <1>3 DEF AskSome
    <3> QED
      BY <1>2, <1>3, <1>4, <3>1 DEF Asked
  <2>4. g \in Seq(Int) /\ Len(g) = i - 1
    <3>1. g \in [1..(i - 1) -> Int]
      BY <1>2, <1>4, <2>3
    <3> QED
      BY <1>3, <3>1
  <2>5. Len(g) <= Len(Asked(items, N)) /\ \A k \in 1..Len(g) : g[k] = Asked(items, N)[k]
    BY <1>3, <2>2, <2>3, <2>4
  <2>6. PrefixSums(g)[Len(g)] = PrefixSums(Asked(items, N))[Len(g)]
    <3>1. PICK f \in Seq(Int) : f = Asked(items, N)
      BY <2>2
    <3>2. \A k \in 0..Len(g) : PrefixSums(g)[k] = PrefixSums(f)[k]
      BY <2>4, <2>5, <3>1, PrefixSumsAgree
    <3>3. Len(g) \in 0..Len(g)
      BY <1>3, <2>4
    <3> QED
      BY <3>1, <3>2, <3>3
  <2> QED
    BY <2>4, <2>6 DEF SumSeq
<1>5. [k \in 1..Len(sub) |-> IF sub[k].line = l THEN sub[k].quantity ELSE 0] =
      [k \in 1..Len(sub) |-> IF k \in On(items, l) THEN items[k].quantity ELSE 0]
  BY <1>2, <1>3 DEF On
<1>6. [k \in 1..Len(sub) |->
          IF sub[k].line = l /\ sub[k].source = "PENDING" THEN sub[k].quantity ELSE 0] =
      [k \in 1..Len(sub) |->
          IF k \in OnFrom(items, l, "PENDING") THEN items[k].quantity ELSE 0]
  BY <1>2, <1>3 DEF On, OnFrom
<1>7. AskedBefore(items, i, LAMBDA x : TRUE)
         = SumSeq([k \in 1..Len(sub) |-> IF sub[k].line = l THEN sub[k].quantity ELSE 0])
  BY <1>1 DEF AskedBefore, SumOf
<1>8. AskedBefore(items, i, LAMBDA x : x.source = "PENDING")
         = SumSeq([k \in 1..Len(sub) |->
                     IF sub[k].line = l /\ sub[k].source = "PENDING" THEN sub[k].quantity ELSE 0])
  BY <1>1 DEF AskedBefore, SumOf
<1>9. /\ SumSeq([k \in 1..Len(sub) |-> IF k \in On(items, l) THEN items[k].quantity ELSE 0])
            = PrefixSums(Asked(items, On(items, l)))[i - 1]
      /\ SumSeq([k \in 1..Len(sub) |->
                   IF k \in OnFrom(items, l, "PENDING") THEN items[k].quantity ELSE 0])
            = PrefixSums(Asked(items, OnFrom(items, l, "PENDING")))[i - 1]
  BY <1>4
<1> QED
  BY <1>5, <1>6, <1>7, <1>8, <1>9

\* Items that never ask for more than is left ask for no more than there is.
LEMMA AskedWithin ==
    ASSUME NEW items, AskSome(items), NEW N, NEW most \in Nat,
           \A i \in 1..Len(items) : i \in N =>
              items[i].quantity <= most - PrefixSums(Asked(items, N))[i - 1]
    PROVE  Total(items, N) <= most
<1>1. PICK f : f = Asked(items, N)
  OBVIOUS
<1>2. f \in Seq(Nat) /\ Len(items) \in Nat
  BY <1>1, TotalFacts DEF Asked, AskSome
<1>3. f \in Seq(Int) /\ Len(f) = Len(items)
  <2>1. DOMAIN f = 1..Len(items)
    BY <1>1 DEF Asked
  <2> QED
    BY <1>2, <2>1
<1>4. /\ PrefixSums(f)[0] = 0
      /\ \A k \in 0..(Len(f) - 1) : PrefixSums(f)[k + 1] = PrefixSums(f)[k] + f[k + 1]
  BY <1>3, PrefixSumsStep
<1>5. \A k \in 0..Len(f) : PrefixSums(f)[k] \in Int
  BY <1>3, PrefixSumsType
<1>6. \A i \in 1..Len(items) : f[i] = IF i \in N THEN items[i].quantity ELSE 0
  BY <1>1 DEF Asked
<1> DEFINE T == {n \in Nat : n <= Len(f) => PrefixSums(f)[n] <= most}
<1>7. 0 \in T
  BY <1>4
<1>8. ASSUME NEW n \in Nat, n \in T PROVE n + 1 \in T
  <2>1. SUFFICES ASSUME n + 1 <= Len(f) PROVE PrefixSums(f)[n + 1] <= most
    OBVIOUS
  <2>2. n \in 0..(Len(f) - 1) /\ n + 1 \in 1..Len(items) /\ n <= Len(f)
    BY <1>3, <2>1
  <2>3. PICK a \in Int : a = PrefixSums(f)[n] /\ a <= most
    BY <1>5, <1>8, <2>2
  <2>4. PrefixSums(f)[n + 1] = a + f[n + 1]
    BY <1>4, <2>2, <2>3
  <2>5. CASE n + 1 \in N
    <3>1. items[n + 1].quantity <= most - PrefixSums(Asked(items, N))[(n + 1) - 1]
      BY <2>2, <2>5
    <3>2. (n + 1) - 1 = n
      OBVIOUS
    <3>3. items[n + 1].quantity <= most - a
      BY <1>1, <2>3, <3>1, <3>2
    <3>4. f[n + 1] = items[n + 1].quantity /\ f[n + 1] \in Nat
      BY <1>2, <1>3, <1>6, <2>2, <2>5
    <3> QED
      BY <2>3, <2>4, <3>3, <3>4
  <2>6. CASE n + 1 \notin N
    <3>1. f[n + 1] = 0
      BY <1>6, <2>2, <2>6
    <3> QED
      BY <2>3, <2>4, <3>1
  <2> QED
    BY <2>5, <2>6
<1> HIDE DEF T
<1>9. Len(f) \in T
  BY <1>3, <1>2, <1>7, <1>8, NatSetInduction
<1>10. SumSeq(f) <= most
  BY <1>9, <1>3, <1>2 DEF T, SumSeq
<1> QED
  BY <1>1, <1>10, TotalAsked

\* Amounts that follow the items sum to what the items ask for, or to the opposite.
LEMMA ItemSums ==
    ASSUME NEW items, AskSome(items), NEW N, NEW f \in Seq(Int), Len(f) = Len(items)
    PROVE  /\ (\A i \in 1..Len(items) : f[i] = IF i \in N THEN items[i].quantity ELSE 0)
                 => SumSeq(f) = Total(items, N)
           /\ (\A i \in 1..Len(items) : f[i] = IF i \in N THEN -items[i].quantity ELSE 0)
                 => SumSeq(f) = -Total(items, N)
<1>1. PICK g : g = Asked(items, N)
  OBVIOUS
<1>2. g \in Seq(Nat) /\ Len(items) \in Nat
  BY <1>1, TotalFacts DEF Asked, AskSome
<1>3. /\ DOMAIN g = 1..Len(items) /\ Len(g) = Len(items) /\ g \in Seq(Int)
      /\ \A i \in 1..Len(items) : g[i] = IF i \in N THEN items[i].quantity ELSE 0
  <2>1. DOMAIN g = 1..Len(items)
    BY <1>1 DEF Asked
  <2> QED
    BY <1>1, <1>2, <2>1 DEF Asked
<1>4. SumSeq(g) = Total(items, N)
  BY <1>1, TotalAsked
<1>5. ASSUME \A i \in 1..Len(items) : f[i] = IF i \in N THEN items[i].quantity ELSE 0
      PROVE  SumSeq(f) = Total(items, N)
  <2>1. f = g
    <3>1. \A i \in 1..Len(items) : f[i] = g[i]
      BY <1>3, <1>5
    <3> QED
      BY <1>2, <1>3, <3>1
  <2> QED
    BY <1>4, <2>1
<1>6. ASSUME \A i \in 1..Len(items) : f[i] = IF i \in N THEN -items[i].quantity ELSE 0
      PROVE  SumSeq(f) = -Total(items, N)
  <2>1. \A i \in 1..Len(items) : f[i] = -g[i]
    <3>1. ASSUME NEW i \in 1..Len(items) PROVE f[i] = -g[i]
      <4>1. CASE i \in N
        <5>1. PICK q \in Nat : q = items[i].quantity
          BY DEF AskSome
        <5>2. f[i] = -q /\ g[i] = q
          BY <1>3, <1>6, <4>1, <5>1
        <5> QED
          BY <5>2
      <4>2. CASE i \notin N
        <5>1. f[i] = 0 /\ g[i] = 0
          BY <1>3, <1>6, <4>2
        <5>2. \A q \in Int : -q = q \/ q # 0
          OBVIOUS
        <5>3. g[i] \in Int
          BY <5>1
        <5>4. -g[i] = g[i]
          BY <5>1, <5>2, <5>3
        <5> QED
          BY <5>1, <5>4
      <4> QED
        BY <4>1, <4>2
    <3> QED
      BY <3>1
  <2>2. f \in [1..Len(items) -> Int] /\ g \in [1..Len(items) -> Int]
    BY <1>3
  <2>3. SumSeq(f) = -SumSeq(g)
    BY <1>2, <2>1, <2>2, SumsNegated
  <2> QED
    BY <1>4, <2>3
<1> QED
  BY <1>5, <1>6

-----------------------------------------------------------------------------
(* How the records of a line change *)

\* What each collection took, and each refund gave back.
TookBy(cs, l) == [c \in 1..Len(cs) |-> Took(cs, c, l)]

BackBy(rs, l, source) == [r \in 1..Len(rs) |-> Back(rs, r, l, source)]

\* The amounts of a line, record by record, and their sums.
LEMMA AmountSequences ==
    ASSUME NEW ps, NEW lns, NEW cs, NEW rs, TablesTyped(ps, lns, cs, rs), NEW l, NEW source
    PROVE  /\ TookBy(cs, l) \in Seq(Int) /\ Len(TookBy(cs, l)) = Len(cs)
           /\ DOMAIN TookBy(cs, l) = 1..Len(cs)
           /\ TookAll(cs, l) = SumSeq(TookBy(cs, l))
           /\ BackBy(rs, l, source) \in Seq(Int) /\ Len(BackBy(rs, l, source)) = Len(rs)
           /\ DOMAIN BackBy(rs, l, source) = 1..Len(rs)
           /\ BackAll(rs, l, source) = SumSeq(BackBy(rs, l, source))
<1>1. /\ Len(cs) \in Nat /\ Len(rs) \in Nat
      /\ \A c \in 1..Len(cs) : Took(cs, c, l) \in Int
      /\ \A r \in 1..Len(rs) : Back(rs, r, l, source) \in Int
  <2>1. \A n \in Nat : n \in Int
    OBVIOUS
  <2> QED
    BY <2>1, TableTypes, AmountTypes
<1>2. TookBy(cs, l) \in [1..Len(cs) -> Int] /\ BackBy(rs, l, source) \in [1..Len(rs) -> Int]
  BY <1>1 DEF TookBy, BackBy
<1>3. TookAll(cs, l) = SumSeq(TookBy(cs, l)) /\ BackAll(rs, l, source) = SumSeq(BackBy(rs, l, source))
  BY DEF TookAll, TookBy, BackAll, BackBy
<1>4. ASSUME NEW n \in Nat, NEW f \in [1..n -> Int]
      PROVE  f \in Seq(Int) /\ Len(f) = n /\ DOMAIN f = 1..n
  OBVIOUS
<1>5. /\ TookBy(cs, l) \in Seq(Int) /\ Len(TookBy(cs, l)) = Len(cs)
      /\ DOMAIN TookBy(cs, l) = 1..Len(cs)
  BY <1>1, <1>2, <1>4
<1>6. /\ BackBy(rs, l, source) \in Seq(Int) /\ Len(BackBy(rs, l, source)) = Len(rs)
      /\ DOMAIN BackBy(rs, l, source) = 1..Len(rs)
  BY <1>1, <1>2, <1>4
<1> QED
  BY <1>3, <1>5, <1>6

\* One record more, and what it says of the line.
LEMMA OneMoreCollection ==
    ASSUME NEW ps, NEW lns, NEW cs, NEW rs, TablesTyped(ps, lns, cs, rs),
           NEW rec \in CollectionRecords(Len(ps), Len(lns)), NEW l
    PROVE  /\ Len(Append(cs, rec)) = Len(cs) + 1
           /\ TablesTyped(ps, lns, Append(cs, rec), rs)
           /\ Append(cs, rec)[Len(cs) + 1] = rec
           /\ \A c \in 1..Len(cs) : /\ Append(cs, rec)[c] = cs[c]
                                    /\ Took(Append(cs, rec), c, l) = Took(cs, c, l)
                                    /\ TookAt(Append(cs, rec), c, l) = TookAt(cs, c, l)
           /\ TookAll(Append(cs, rec), l)
                 = TookAll(cs, l) + Took(Append(cs, rec), Len(cs) + 1, l)
<1>1. cs \in Seq(CollectionRecords(Len(ps), Len(lns))) /\ Len(cs) \in Nat
  BY DEF TablesTyped
<1>2. PICK more : more = Append(cs, rec)
  OBVIOUS
<1>3. /\ more \in Seq(CollectionRecords(Len(ps), Len(lns))) /\ Len(more) = Len(cs) + 1
      /\ more[Len(cs) + 1] = rec /\ \A c \in 1..Len(cs) : more[c] = cs[c]
  BY <1>1, <1>2
<1>4. TablesTyped(ps, lns, more, rs)
  BY <1>3 DEF TablesTyped
<1>5. \A c \in 1..Len(cs) : Took(more, c, l) = Took(cs, c, l)
  BY <1>3 DEF Took
<1>6. \A c \in 1..Len(cs) : TookAt(more, c, l) = TookAt(cs, c, l)
  BY <1>3, <1>5 DEF TookAt
<1>7. TookAll(more, l) = TookAll(cs, l) + Took(more, Len(cs) + 1, l)
  <2>1. PICK f, g : f = TookBy(cs, l) /\ g = TookBy(more, l)
    OBVIOUS
  <2>2. /\ f \in Seq(Int) /\ Len(f) = Len(cs) /\ TookAll(cs, l) = SumSeq(f)
        /\ g \in Seq(Int) /\ Len(g) = Len(more) /\ TookAll(more, l) = SumSeq(g)
    BY <1>4, <2>1, AmountSequences
  <2>3. Took(more, Len(cs) + 1, l) \in Int
    <3>1. Len(cs) + 1 \in 1..Len(more)
      BY <1>1, <1>3
    <3>2. Took(more, Len(cs) + 1, l) \in Nat
      BY <1>4, <3>1, AmountTypes
    <3> QED
      BY <3>2
  <2>4. g = Append(f, Took(more, Len(cs) + 1, l))
    <3>1. \A c \in 1..Len(more) : g[c] = IF c = Len(cs) + 1 THEN Took(more, Len(cs) + 1, l) ELSE f[c]
      BY <1>1, <1>3, <1>5, <2>1 DEF TookBy
    <3> QED
      BY <1>1, <1>3, <2>2, <2>3, <3>1
  <2>5. SumSeq(g) = SumSeq(f) + Took(more, Len(cs) + 1, l)
    BY <2>2, <2>3, <2>4, SumSeqAppend
  <2> QED
    BY <2>2, <2>5
<1> QED
  BY <1>2, <1>3, <1>4, <1>5, <1>6, <1>7

\* A refund more changes nothing about those there were.
LEMMA OneMoreRefund ==
    ASSUME NEW ps, NEW lns, NEW cs, NEW rs, TablesTyped(ps, lns, cs, rs),
           NEW rec \in RefundRecords(Len(ps), Len(lns)), NEW l
    PROVE  /\ Len(Append(rs, rec)) = Len(rs) + 1
           /\ TablesTyped(ps, lns, cs, Append(rs, rec))
           /\ Append(rs, rec)[Len(rs) + 1] = rec
           /\ \A r \in 1..Len(rs) :
                 /\ Append(rs, rec)[r] = rs[r]
                 /\ \A source : Back(Append(rs, rec), r, l, source) = Back(rs, r, l, source)
                 /\ \A loc : BackAt(Append(rs, rec), r, l, loc) = BackAt(rs, r, l, loc)
           /\ BackAll(Append(rs, rec), l, "PENDING")
                 = BackAll(rs, l, "PENDING") + Back(Append(rs, rec), Len(rs) + 1, l, "PENDING")
<1>1. rs \in Seq(RefundRecords(Len(ps), Len(lns))) /\ Len(rs) \in Nat
  BY DEF TablesTyped
<1>2. PICK more : more = Append(rs, rec)
  OBVIOUS
<1>3. /\ more \in Seq(RefundRecords(Len(ps), Len(lns))) /\ Len(more) = Len(rs) + 1
      /\ more[Len(rs) + 1] = rec /\ \A r \in 1..Len(rs) : more[r] = rs[r]
  BY <1>1, <1>2
<1>4. TablesTyped(ps, lns, cs, more)
  BY <1>3 DEF TablesTyped
<1>5. \A r \in 1..Len(rs) : \A source : Back(more, r, l, source) = Back(rs, r, l, source)
  BY <1>3 DEF Back
<1>6. \A r \in 1..Len(rs) : \A loc : BackAt(more, r, l, loc) = BackAt(rs, r, l, loc)
  BY <1>3 DEF BackAt
<1>7. BackAll(more, l, "PENDING") = BackAll(rs, l, "PENDING") + Back(more, Len(rs) + 1, l, "PENDING")
  <2>1. PICK f, g : f = BackBy(rs, l, "PENDING") /\ g = BackBy(more, l, "PENDING")
    OBVIOUS
  <2>2. /\ f \in Seq(Int) /\ Len(f) = Len(rs) /\ BackAll(rs, l, "PENDING") = SumSeq(f)
        /\ g \in Seq(Int) /\ Len(g) = Len(more) /\ BackAll(more, l, "PENDING") = SumSeq(g)
    BY <1>4, <2>1, AmountSequences
  <2>3. Back(more, Len(rs) + 1, l, "PENDING") \in Int
    <3>1. Len(rs) + 1 \in 1..Len(more)
      BY <1>1, <1>3
    <3>2. Back(more, Len(rs) + 1, l, "PENDING") \in Nat
      BY <1>4, <3>1, AmountTypes
    <3> QED
      BY <3>2
  <2>4. g = Append(f, Back(more, Len(rs) + 1, l, "PENDING"))
    <3>1. \A r \in 1..Len(more) :
             g[r] = IF r = Len(rs) + 1 THEN Back(more, Len(rs) + 1, l, "PENDING") ELSE f[r]
      BY <1>1, <1>3, <1>5, <2>1 DEF BackBy
    <3> QED
      BY <1>1, <1>3, <2>2, <2>3, <3>1
  <2>5. SumSeq(g) = SumSeq(f) + Back(more, Len(rs) + 1, l, "PENDING")
    BY <2>2, <2>3, <2>4, SumSeqAppend
  <2> QED
    BY <2>2, <2>5
<1> QED
  BY <1>2, <1>3, <1>4, <1>5, <1>6, <1>7

\* The collections in K are marked as deleted; nothing else of any changes.
CollectionsMarked(cs, more, K) ==
    /\ Len(more) = Len(cs)
    /\ \A c \in 1..Len(cs) : /\ more[c].lines = cs[c].lines
                             /\ more[c].purchase = cs[c].purchase
                             /\ more[c].location = cs[c].location
                             /\ (more[c].is_deleted <=> cs[c].is_deleted \/ c \in K)

RefundsMarked(rs, more, K) ==
    /\ Len(more) = Len(rs)
    /\ \A r \in 1..Len(rs) : /\ more[r].lines = rs[r].lines
                             /\ more[r].purchase = rs[r].purchase
                             /\ (more[r].is_deleted <=> rs[r].is_deleted \/ r \in K)

\* Marking one record.
LEMMA OneMarked ==
    ASSUME NEW ps, NEW lns, NEW cs, NEW rs, TablesTyped(ps, lns, cs, rs)
    PROVE  /\ \A k \in 1..Len(cs) :
                 /\ CollectionsMarked(cs, [cs EXCEPT ![k].is_deleted = TRUE], {k})
                 /\ TablesTyped(ps, lns, [cs EXCEPT ![k].is_deleted = TRUE], rs)
           /\ \A k \in 1..Len(rs) :
                 /\ RefundsMarked(rs, [rs EXCEPT ![k].is_deleted = TRUE], {k})
                 /\ TablesTyped(ps, lns, cs, [rs EXCEPT ![k].is_deleted = TRUE])
<1>1. /\ cs \in Seq(CollectionRecords(Len(ps), Len(lns))) /\ Len(cs) \in Nat
      /\ rs \in Seq(RefundRecords(Len(ps), Len(lns))) /\ Len(rs) \in Nat
  BY DEF TablesTyped
<1>2. ASSUME NEW k \in 1..Len(cs)
      PROVE  /\ CollectionsMarked(cs, [cs EXCEPT ![k].is_deleted = TRUE], {k})
             /\ TablesTyped(ps, lns, [cs EXCEPT ![k].is_deleted = TRUE], rs)
  <2>1. PICK old \in CollectionRecords(Len(ps), Len(lns)) : old = cs[k]
    BY <1>1
  <2>2. PICK now : now = [old EXCEPT !.is_deleted = TRUE]
    OBVIOUS
  <2>3. /\ now \in CollectionRecords(Len(ps), Len(lns))
        /\ now.is_deleted = TRUE /\ now.purchase = old.purchase /\ now.lines = old.lines
        /\ now.location = old.location
    BY <2>2 DEF CollectionRecords
  <2>4. \A c \in 1..Len(cs) : cs[c].is_deleted \in BOOLEAN
    BY TableTypes
  <2>5. PICK more : more = [cs EXCEPT ![k] = now]
    OBVIOUS
  <2>6. [cs EXCEPT ![k].is_deleted = TRUE] = more
    BY <2>1, <2>2, <2>5
  <2>7. more \in Seq(CollectionRecords(Len(ps), Len(lns))) /\ Len(more) = Len(cs)
    BY <1>1, <2>3, <2>5
  <2>8. TablesTyped(ps, lns, more, rs)
    BY <2>7 DEF TablesTyped
  <2>9. CollectionsMarked(cs, more, {k})
    BY <1>1, <2>1, <2>3, <2>4, <2>5, <2>7 DEF CollectionsMarked
  <2> QED
    BY <2>6, <2>8, <2>9
<1>3. ASSUME NEW k \in 1..Len(rs)
      PROVE  /\ RefundsMarked(rs, [rs EXCEPT ![k].is_deleted = TRUE], {k})
             /\ TablesTyped(ps, lns, cs, [rs EXCEPT ![k].is_deleted = TRUE])
  <2>1. PICK old \in RefundRecords(Len(ps), Len(lns)) : old = rs[k]
    BY <1>1
  <2>2. PICK now : now = [old EXCEPT !.is_deleted = TRUE]
    OBVIOUS
  <2>3. /\ now \in RefundRecords(Len(ps), Len(lns))
        /\ now.is_deleted = TRUE /\ now.purchase = old.purchase /\ now.lines = old.lines
    BY <2>2 DEF RefundRecords
  <2>4. \A r \in 1..Len(rs) : rs[r].is_deleted \in BOOLEAN
    BY TableTypes
  <2>5. PICK more : more = [rs EXCEPT ![k] = now]
    OBVIOUS
  <2>6. [rs EXCEPT ![k].is_deleted = TRUE] = more
    BY <2>1, <2>2, <2>5
  <2>7. more \in Seq(RefundRecords(Len(ps), Len(lns))) /\ Len(more) = Len(rs)
    BY <1>1, <2>3, <2>5
  <2>8. TablesTyped(ps, lns, cs, more)
    BY <2>7 DEF TablesTyped
  <2>9. RefundsMarked(rs, more, {k})
    BY <1>1, <2>1, <2>3, <2>4, <2>5, <2>7 DEF RefundsMarked
  <2> QED
    BY <2>6, <2>8, <2>9
<1> QED
  BY <1>2, <1>3

\* A record that is not marked says of the line what it said, a marked one nothing.
LEMMA CollectionAmounts ==
    ASSUME NEW cs, NEW more, NEW K, CollectionsMarked(cs, more, K),
           NEW c \in 1..Len(cs), NEW l
    PROVE  /\ c \notin K \/ cs[c].is_deleted =>
                /\ Took(more, c, l) = Took(cs, c, l)
                /\ TookAt(more, c, l) = TookAt(cs, c, l)
           /\ c \in K => /\ Took(more, c, l) = 0
                         /\ \A loc \in Locations : TookAt(more, c, l)[loc] = 0
<1>1. /\ more[c].lines = cs[c].lines /\ more[c].location = cs[c].location
      /\ (more[c].is_deleted <=> cs[c].is_deleted \/ c \in K)
  BY DEF CollectionsMarked
<1>2. (c \notin K \/ cs[c].is_deleted) => Took(more, c, l) = Took(cs, c, l)
  BY <1>1 DEF Took
<1>3. c \in K => Took(more, c, l) = 0
  BY <1>1 DEF Took
<1> QED
  BY <1>1, <1>2, <1>3 DEF TookAt

\* What is marked as deleted gave nothing back; the others gave what they gave.
LEMMA RefundAmounts ==
    ASSUME NEW rs, NEW more, NEW K, RefundsMarked(rs, more, K),
           NEW r \in 1..Len(rs), NEW l
    PROVE  /\ r \notin K \/ rs[r].is_deleted =>
                /\ \A source : Back(more, r, l, source) = Back(rs, r, l, source)
                /\ \A loc : BackAt(more, r, l, loc) = BackAt(rs, r, l, loc)
           /\ r \in K => /\ \A source : Back(more, r, l, source) = 0
                         /\ \A loc : BackAt(more, r, l, loc) = 0
<1>1. /\ more[r].lines = rs[r].lines
      /\ (more[r].is_deleted <=> rs[r].is_deleted \/ r \in K)
  BY DEF RefundsMarked
<1> QED
  BY <1>1 DEF Back, BackAt

\* That stock was once returned is not forgotten by an undo.
LEMMA ReturnedStays ==
    ASSUME NEW rs, NEW more, NEW K, RefundsMarked(rs, more, K), NEW l
    PROVE  Returned(more, l) <=> Returned(rs, l)
BY DEF RefundsMarked, Returned

\* The sums without one record.
LEMMA OneMarkedSums ==
    ASSUME NEW ps, NEW lns, NEW cs, NEW rs, TablesTyped(ps, lns, cs, rs), NEW l
    PROVE  /\ \A more : \A k \in 1..Len(cs) :
                 CollectionsMarked(cs, more, {k}) /\ TablesTyped(ps, lns, more, rs)
                    => TookAll(more, l) = TookAll(cs, l) - Took(cs, k, l)
           /\ \A more : \A k \in 1..Len(rs) :
                 RefundsMarked(rs, more, {k}) /\ TablesTyped(ps, lns, cs, more)
                    => BackAll(more, l, "PENDING")
                          = BackAll(rs, l, "PENDING") - Back(rs, k, l, "PENDING")
<1>1. ASSUME NEW more, NEW k \in 1..Len(cs),
             CollectionsMarked(cs, more, {k}), TablesTyped(ps, lns, more, rs)
      PROVE  TookAll(more, l) = TookAll(cs, l) - Took(cs, k, l)
  <2>1. PICK f, g : f = TookBy(cs, l) /\ g = TookBy(more, l)
    OBVIOUS
  <2>2. /\ f \in Seq(Int) /\ Len(f) = Len(cs) /\ TookAll(cs, l) = SumSeq(f)
        /\ g \in Seq(Int) /\ Len(g) = Len(more) /\ TookAll(more, l) = SumSeq(g)
    BY <1>1, <2>1, AmountSequences
  <2>3. Len(more) = Len(cs)
    BY <1>1 DEF CollectionsMarked
  <2>4. \A c \in 1..Len(cs) : f[c] = Took(cs, c, l) /\ g[c] = Took(more, c, l)
    BY <2>1, <2>3 DEF TookBy
  <2>5. Took(more, k, l) = 0 /\ \A c \in 1..Len(cs) : c # k => Took(more, c, l) = Took(cs, c, l)
    BY <1>1, CollectionAmounts
  <2>6. g[k] = 0 /\ f[k] = Took(cs, k, l) /\ \A c \in 1..Len(f) : c # k => g[c] = f[c]
    BY <2>2, <2>4, <2>5
  <2>7. SumSeq(g) = SumSeq(f) + (g[k] - f[k])
    BY <2>2, <2>3, <2>6, SumSeqOneChanged
  <2>8. SumSeq(f) \in Int /\ Took(cs, k, l) \in Nat
    BY <2>2, AmountTypes, SumSeqType
  <2> QED
    BY <2>2, <2>6, <2>7, <2>8
<1>2. ASSUME NEW more, NEW k \in 1..Len(rs),
             RefundsMarked(rs, more, {k}), TablesTyped(ps, lns, cs, more)
      PROVE  BackAll(more, l, "PENDING") = BackAll(rs, l, "PENDING") - Back(rs, k, l, "PENDING")
  <2>1. PICK f, g : f = BackBy(rs, l, "PENDING") /\ g = BackBy(more, l, "PENDING")
    OBVIOUS
  <2>2. /\ f \in Seq(Int) /\ Len(f) = Len(rs) /\ BackAll(rs, l, "PENDING") = SumSeq(f)
        /\ g \in Seq(Int) /\ Len(g) = Len(more) /\ BackAll(more, l, "PENDING") = SumSeq(g)
    BY <1>2, <2>1, AmountSequences
  <2>3. Len(more) = Len(rs)
    BY <1>2 DEF RefundsMarked
  <2>4. \A r \in 1..Len(rs) : f[r] = Back(rs, r, l, "PENDING") /\ g[r] = Back(more, r, l, "PENDING")
    BY <2>1, <2>3 DEF BackBy
  <2>5. /\ Back(more, k, l, "PENDING") = 0
        /\ \A r \in 1..Len(rs) : r # k => Back(more, r, l, "PENDING") = Back(rs, r, l, "PENDING")
    <3>1. \A r \in 1..Len(rs) :
             /\ r \notin {k} => \A source : Back(more, r, l, source) = Back(rs, r, l, source)
             /\ r \in {k} => \A source : Back(more, r, l, source) = 0
      BY <1>2, RefundAmounts
    <3> QED
      BY <3>1
  <2>6. /\ g[k] = 0 /\ f[k] = Back(rs, k, l, "PENDING")
        /\ \A r \in 1..Len(f) : r # k => g[r] = f[r]
    BY <2>2, <2>4, <2>5
  <2>7. SumSeq(g) = SumSeq(f) + (g[k] - f[k])
    BY <2>2, <2>3, <2>6, SumSeqOneChanged
  <2>8. SumSeq(f) \in Int /\ Back(rs, k, l, "PENDING") \in Nat
    BY <2>2, AmountTypes, SumSeqType
  <2> QED
    BY <2>2, <2>6, <2>7, <2>8
<1> QED
  BY <1>1, <1>2

-----------------------------------------------------------------------------
(* What a step leaves of the other lines, and of the other records of a line *)

\* A line is as good on rows that add up to the same.
LEMMA LineGoodAlike ==
    ASSUME NEW ps, NEW lns, NEW cs, NEW rs, NEW rows, NEW other, NEW l,
           Alike(rows, other, OnLine(l)), LineGood(rows, ps, lns, cs, rs, l)
    PROVE  LineGood(other, ps, lns, cs, rs, l)
<1>1. ASSUME NEW T, Blind(T) PROVE NetIn(other, OnLine(l) \intersect T) = NetIn(rows, OnLine(l) \intersect T)
  <2>1. Blind(OnLine(l) \intersect T)
    BY <1>1, SetsBlind, BlindParts
  <2> QED
    BY <2>1 DEF Alike
<1>2. ASSUME NEW T, T \subseteq OnLine(l), Nothing(rows, T) PROVE Nothing(other, T)
  BY <1>2, AlikeLess, NothingAlike
<1>3. ASSUME NEW t, NEW s, NEW out, NEW all, NEW at, Traced(rows, Of(t, s, l), out, all, at)
      PROVE  Traced(other, Of(t, s, l), out, all, at)
  BY <1>3, SetsBlind, AlikeLess, TracedAlike
<1>4. ASSUME NEW t, NEW s PROVE NetIn(other, Of(t, s, l)) = NetIn(rows, Of(t, s, l))
  BY SetsBlind DEF Alike
<1>5. LiveLine(rows, lns, cs, rs, l) => LiveLine(other, lns, cs, rs, l)
  BY <1>3, <1>4 DEF LiveLine, CollectionTraced, RefundTraced
<1>6. /\ NetIn(other, OnLine(l) \intersect Pend) = NetIn(rows, OnLine(l) \intersect Pend)
      /\ \A loc : NetIn(other, OnLine(l) \intersect PhysAt(loc))
                     = NetIn(rows, OnLine(l) \intersect PhysAt(loc))
  BY <1>1, SetsBlind
<1>7. DeadLine(rows, rs, l) => DeadLine(other, rs, l)
  BY <1>6 DEF DeadLine
<1>8. /\ Nothing(rows, OnLine(l) \ OfProduct(lns[l].product))
            => Nothing(other, OnLine(l) \ OfProduct(lns[l].product))
      /\ Nothing(rows, OnLine(l)) => Nothing(other, OnLine(l))
  BY <1>2
<1> QED
  BY <1>5, <1>6, <1>7, <1>8 DEF LineGood

\* Movements of other records leave what the rows of a record add up to.
LEMMA TracedKept ==
    ASSUME NEW rows \in Seq(Rows), NEW more \in Seq(Rows), NEW T, Blind(T), Nothing(more, T),
           NEW out, NEW all, NEW at, Traced(rows, T, out, all, at)
    PROVE  Traced(rows \o more, T, out, all, at)
BY MoreAlike, TracedAlike

\* A step keeps a collection's part of a line, or traces it anew; likewise a refund's.
CollectionStays(cs, now, c, l, more) ==
    /\ c \in 1..Len(cs)
    /\ Took(now, c, l) = Took(cs, c, l) /\ TookAt(now, c, l) = TookAt(cs, c, l)
    /\ Nothing(more, Of("PURCHASE_COLLECTION", c, l))

RefundStays(rs, now, r, l, more) ==
    /\ r \in 1..Len(rs)
    /\ \A source : Back(now, r, l, source) = Back(rs, r, l, source)
    /\ \A loc : BackAt(now, r, l, loc) = BackAt(rs, r, l, loc)
    /\ Nothing(more, Of("PURCHASE_REFUND", r, l))

\* A line stays live: its entry is left alone, and so is every record that is not
\* traced anew.
LEMMA LiveStep ==
    ASSUME NEW lns, NEW cs, NEW now, NEW rs, NEW then,
           NEW rows \in Seq(Rows), NEW more \in Seq(Rows), NEW l,
           LiveLine(rows, lns, cs, rs, l),
           Nothing(more, Of("PURCHASE", lns[l].purchase, l)),
           \A c \in 1..Len(now) : \/ CollectionStays(cs, now, c, l, more)
                                  \/ CollectionTraced(rows \o more, now, c, l),
           \A r \in 1..Len(then) : \/ RefundStays(rs, then, r, l, more)
                                   \/ RefundTraced(rows \o more, then, r, l),
           Pending(lns, now, then, l) >= 0
    PROVE  LiveLine(rows \o more, lns, now, then, l)
<1>1. PICK all \in Seq(Rows) : all = rows \o more
  BY ConcatProperties
<1>2. NetIn(all, Of("PURCHASE", lns[l].purchase, l)).qty = lns[l].quantity
  <2>1. Alike(rows, all, Of("PURCHASE", lns[l].purchase, l))
    BY <1>1, MoreAlike
  <2>2. NetIn(all, Of("PURCHASE", lns[l].purchase, l)) = NetIn(rows, Of("PURCHASE", lns[l].purchase, l))
    BY <2>1, SetsBlind DEF Alike
  <2> QED
    BY <2>2 DEF LiveLine
<1>3. ASSUME NEW c \in 1..Len(now) PROVE CollectionTraced(all, now, c, l)
  <2>1. CASE CollectionStays(cs, now, c, l, more)
    <3>1. Traced(rows, Of("PURCHASE_COLLECTION", c, l), Took(cs, c, l), Took(cs, c, l), TookAt(cs, c, l))
      BY <2>1 DEF LiveLine, CollectionTraced, CollectionStays
    <3>2. Traced(all, Of("PURCHASE_COLLECTION", c, l), Took(cs, c, l), Took(cs, c, l), TookAt(cs, c, l))
      BY <1>1, <2>1, <3>1, SetsBlind, TracedKept DEF CollectionStays
    <3> QED
      BY <2>1, <3>2 DEF CollectionTraced, CollectionStays
  <2> QED
    BY <1>1, <2>1
<1>4. ASSUME NEW r \in 1..Len(then) PROVE RefundTraced(all, then, r, l)
  <2>1. CASE RefundStays(rs, then, r, l, more)
    <3>1. Traced(rows, Of("PURCHASE_REFUND", r, l), Back(rs, r, l, "PENDING"),
                 -Back(rs, r, l, "RECEIVED"), BackFrom(rs, r, l))
      BY <2>1 DEF LiveLine, RefundTraced, RefundStays
    <3>2. Traced(all, Of("PURCHASE_REFUND", r, l), Back(rs, r, l, "PENDING"),
                 -Back(rs, r, l, "RECEIVED"), BackFrom(rs, r, l))
      BY <1>1, <2>1, <3>1, SetsBlind, TracedKept DEF RefundStays
    <3>3. BackFrom(then, r, l) = BackFrom(rs, r, l)
      BY <2>1 DEF RefundStays, BackFrom
    <3> QED
      BY <2>1, <3>2, <3>3 DEF RefundTraced, RefundStays
  <2> QED
    BY <1>1, <2>1
<1> QED
  BY <1>1, <1>2, <1>3, <1>4 DEF LiveLine

\* A deleted line stays as it is if nothing more of it is left.
LEMMA DeadKept ==
    ASSUME NEW ps, NEW lns, NEW cs, NEW rs, NEW now, NEW then,
           NEW rows \in Seq(Rows), NEW more \in Seq(Rows), NEW l,
           lns[l].is_deleted, LineGood(rows, ps, lns, cs, rs, l),
           Nothing(more, OnLine(l)), Returned(rs, l) => Returned(then, l)
    PROVE  LineGood(rows \o more, ps, lns, now, then, l)
<1>1. PICK all \in Seq(Rows) : all = rows \o more
  BY ConcatProperties
<1>2. LineGood(all, ps, lns, cs, rs, l)
  BY <1>1, MoreAlike, LineGoodAlike
<1> QED
  BY <1>1, <1>2 DEF LineGood, DeadLine

\* Movements that are all of one record, which the line's other records and other
\* lines do not see.
LEMMA OfOther ==
    ASSUME NEW more \in Seq(Rows), NEW t, NEW s, NEW L,
           \A i \in 1..Len(more) : more[i].stype = t /\ more[i].sid = s /\ more[i].line \in L
    PROVE  /\ \A l, u, x : u # t \/ x # s \/ l \notin L => Nothing(more, Of(u, x, l))
           /\ \A l : l \notin L => Nothing(more, OnLine(l))
<1>1. ASSUME NEW l, NEW u, NEW x, u # t \/ x # s \/ l \notin L PROVE Nothing(more, Of(u, x, l))
  <2>1. \A i \in 1..Len(more) : more[i] \notin Of(u, x, l)
    BY <1>1 DEF Of, OnLine
  <2> QED
    BY <2>1, NothingOutside
<1>2. ASSUME NEW l, l \notin L PROVE Nothing(more, OnLine(l))
  <2>1. \A i \in 1..Len(more) : more[i] \notin OnLine(l)
    BY <1>2 DEF OnLine
  <2> QED
    BY <2>1, NothingOutside
<1> QED
  BY <1>1, <1>2

\* Tables that only grow stay typed.
LEMMA TablesGrow ==
    ASSUME NEW ps, NEW lns, NEW cs, NEW rs, TablesTyped(ps, lns, cs, rs),
           NEW qs \in Seq(PurchaseRecords), Len(ps) <= Len(qs),
           NEW mns \in Seq(LineRecords(Len(qs))), Len(lns) <= Len(mns)
    PROVE  TablesTyped(qs, mns, cs, rs)
<1>1. /\ ps \in Seq(PurchaseRecords) /\ lns \in Seq(LineRecords(Len(ps)))
      /\ cs \in Seq(CollectionRecords(Len(ps), Len(lns)))
      /\ rs \in Seq(RefundRecords(Len(ps), Len(lns)))
  BY DEF TablesTyped
<1>2. PICK n \in Nat, m \in Nat, k \in Nat, j \in Nat :
         n = Len(ps) /\ m = Len(lns) /\ k = Len(qs) /\ j = Len(mns) /\ n <= k /\ m <= j
  BY <1>1
<1>3. 1..n \subseteq 1..k /\ 1..m \subseteq 1..j
  BY <1>2
<1>4. AskedItems(m) \subseteq AskedItems(j) /\ BackItems(m) \subseteq BackItems(j)
  BY <1>3 DEF AskedItems, BackItems
<1>5. Seq(AskedItems(m)) \subseteq Seq(AskedItems(j)) /\ Seq(BackItems(m)) \subseteq Seq(BackItems(j))
  BY <1>4
<1>6. /\ CollectionRecords(n, m) \subseteq CollectionRecords(k, j)
      /\ RefundRecords(n, m) \subseteq RefundRecords(k, j)
  BY <1>3, <1>5 DEF CollectionRecords, RefundRecords
<1>7. cs \in Seq(CollectionRecords(k, j)) /\ rs \in Seq(RefundRecords(k, j))
  BY <1>1, <1>2, <1>6
<1> QED
  BY <1>2, <1>7 DEF TablesTyped


-----------------------------------------------------------------------------
(* Movements in pairs: what a collection posts *)

\* What two sequences make.
LEMMA ConcatParts ==
    ASSUME NEW X, NEW s \in Seq(X), NEW t \in Seq(X)
    PROVE  /\ s \o t \in Seq(X) /\ Len(s \o t) = Len(s) + Len(t)
           /\ \A k \in 1..Len(s) : (s \o t)[k] = s[k]
           /\ \A k \in 1..Len(t) : (s \o t)[Len(s) + k] = t[k]
<1>1. /\ s \o t \in Seq(X) /\ Len(s \o t) = Len(s) + Len(t)
      /\ \A k \in 1..(Len(s) + Len(t)) :
            (s \o t)[k] = IF k <= Len(s) THEN s[k] ELSE t[k - Len(s)]
  BY ConcatProperties
<1>2. \A k \in 1..Len(s) : (s \o t)[k] = s[k]
  BY <1>1
<1>3. ASSUME NEW k \in 1..Len(t) PROVE (s \o t)[Len(s) + k] = t[k]
  <2>1. Len(s) + k \in 1..(Len(s) + Len(t)) /\ ~(Len(s) + k <= Len(s))
           /\ (Len(s) + k) - Len(s) = k
    OBVIOUS
  <2> QED
    BY <1>1, <2>1
<1> QED
  BY <1>1, <1>2, <1>3

\* Every row of the parts is in the flattened sequence.
HasAll(flat, parts, n) ==
    \A i \in 1..n : \A j \in 1..Len(parts[i]) :
        \E k \in 1..Len(flat) : flat[k] = parts[i][j]

\* The library's concatenation of sequences of rows has all of them in order.
LEMMA FlattenAll ==
    ASSUME NEW parts \in Seq(Seq(Rows))
    PROVE  HasAll(FlattenSeq(parts), parts, Len(parts))
<1> DEFINE flat == Flattened(parts)
           T == {n \in Nat : n + 1 <= Len(parts) =>
                    flat[n + 1] \in Seq(Rows) /\ HasAll(flat[n + 1], parts, n + 1)}
<1>1. /\ \A k \in 1..Len(parts) : flat[k] = IF k = 1 THEN parts[k] ELSE flat[k - 1] \o parts[k]
      /\ FlattenSeq(parts) = IF Len(parts) = 0 THEN parts ELSE flat[Len(parts)]
      /\ Len(parts) \in Nat
  BY FlattenedEquation
<1>2. \A i \in 1..Len(parts) : parts[i] \in Seq(Rows)
  OBVIOUS
<1> HIDE DEF flat
<1>3. 0 \in T
  <2>1. SUFFICES ASSUME 1 <= Len(parts)
                 PROVE  flat[1] \in Seq(Rows) /\ HasAll(flat[1], parts, 1)
    OBVIOUS
  <2>2. 1 \in 1..Len(parts)
    BY <1>1, <2>1
  <2>3. flat[1] = parts[1] /\ parts[1] \in Seq(Rows)
    BY <1>1, <1>2, <2>2
  <2> QED
    BY <2>3 DEF HasAll
<1>4. ASSUME NEW n \in Nat, n \in T PROVE n + 1 \in T
  <2>1. SUFFICES ASSUME (n + 1) + 1 <= Len(parts)
                 PROVE  flat[(n + 1) + 1] \in Seq(Rows) /\ HasAll(flat[(n + 1) + 1], parts, (n + 1) + 1)
    OBVIOUS
  <2>2. PICK m \in 1..(Len(parts) - 1) : m = n + 1
    BY <1>1, <2>1
  <2>3. flat[m] \in Seq(Rows) /\ HasAll(flat[m], parts, m)
    BY <1>4, <2>1, <2>2
  <2>4. PICK old \in Seq(Rows), part \in Seq(Rows) : old = flat[m] /\ part = parts[m + 1]
    BY <1>2, <2>2, <2>3
  <2>5. flat[m + 1] = old \o part
    <3>1. m + 1 \in 1..Len(parts) /\ m + 1 # 1 /\ (m + 1) - 1 = m
      BY <1>1, <2>2
    <3> QED
      BY <1>1, <2>4, <3>1
  <2>a. PICK new : new = old \o part
    OBVIOUS
  <2>6. /\ new \in Seq(Rows) /\ new = old \o part
        /\ Len(new) = Len(old) + Len(part)
        /\ \A k \in 1..Len(old) : new[k] = old[k]
        /\ \A k \in 1..Len(part) : new[Len(old) + k] = part[k]
    BY <2>a, ConcatParts
  <2>7. ASSUME NEW i \in 1..(m + 1), NEW j \in 1..Len(parts[i])
        PROVE  \E k \in 1..Len(new) : new[k] = parts[i][j]
    <3>1. CASE i = m + 1
      <4>1. j \in 1..Len(part) /\ parts[i][j] = part[j]
        BY <2>4, <3>1
      <4>2. Len(old) + j \in 1..Len(new)
        BY <2>6, <4>1
      <4> QED
        BY <2>6, <4>1, <4>2
    <3>2. CASE i # m + 1
      <4>1. i \in 1..m
        BY <2>2, <3>2
      <4>2. PICK k \in 1..Len(old) : old[k] = parts[i][j]
        BY <2>3, <2>4, <4>1 DEF HasAll
      <4>3. k \in 1..Len(new)
        BY <2>6
      <4> QED
        BY <2>6, <4>2, <4>3
    <3> QED
      BY <3>1, <3>2
  <2>8. HasAll(new, parts, m + 1)
    BY <2>7 DEF HasAll
  <2> QED
    BY <2>2, <2>5, <2>6, <2>8
<1> HIDE DEF T
<1>5. \A n \in Nat : n \in T
  BY <1>3, <1>4, NatSetInduction
<1>6. CASE Len(parts) = 0
  BY <1>6 DEF HasAll
<1>7. CASE Len(parts) # 0
  <2>1. Len(parts) - 1 \in Nat /\ (Len(parts) - 1) + 1 = Len(parts)
    BY <1>1, <1>7
  <2>2. Len(parts) - 1 \in T
    BY <1>5, <2>1
  <2>3. HasAll(flat[(Len(parts) - 1) + 1], parts, (Len(parts) - 1) + 1)
    BY <2>1, <2>2 DEF T
  <2>4. HasAll(flat[Len(parts)], parts, Len(parts))
    BY <2>1, <2>3
  <2> QED
    BY <1>1, <1>7, <2>4
<1> QED
  BY <1>6, <1>7

\* Two movements add up.
LEMMA PairNet ==
    ASSUME NEW x \in Rows, NEW y \in Rows, NEW S
    PROVE  /\ << x, y >> \in Seq(Rows)
           /\ NetIn(<< x, y >>, S) = Plus(IF x \in S THEN [qty |-> x.qty, aed |-> x.aed]
                                                     ELSE NoStock,
                                          IF y \in S THEN [qty |-> y.qty, aed |-> y.aed]
                                                     ELSE NoStock)
<1>1. << x >> \in Seq(Rows) /\ << y >> \in Seq(Rows)
  OBVIOUS
<1>2. Append(<< x >>, y) = << x, y >>
  BY AppendSecond
<1>3. Append(<< x >>, y) = << x >> \o << y >> /\ Append(<< x >>, y) \in Seq(Rows)
  BY <1>1, AppendIsConcat, AppendProperties
<1>4. NetIn(<< x >> \o << y >>, S) = Plus(NetIn(<< x >>, S), NetIn(<< y >>, S))
  BY <1>1, NetInConcat
<1> QED
  BY <1>2, <1>3, <1>4, NetInSingle

\* A share of positive units is a number.
LEMMA ShareInt ==
    ASSUME NEW q \in Int, NEW qty \in Int, qty > 0, NEW aed \in Int
    PROVE  Share(q, qty, aed) \in Int
<1>1. PICK n \in Int : n = aed * q
  OBVIOUS
<1>2. PICK d \in Int : d = 2 * qty /\ d > 0
  OBVIOUS
<1>3. PICK a \in Int, b \in Int : a = 2 * n + qty /\ b = 2 * (-n) + qty
  OBVIOUS
<1>4. a \div d \in Int /\ b \div d \in Int
  BY <1>2, DivFloor
<1>5. RoundHalfUp(n, qty) = IF n >= 0 THEN a \div d ELSE -(b \div d)
  BY <1>2, <1>3 DEF RoundHalfUp
<1>6. RoundHalfUp(n, qty) \in Int
  BY <1>4, <1>5
<1> QED
  BY <1>1, <1>6 DEF Share

\* Two movements of a collection: units of a line out of PENDING, into PHYSICAL at loc.
PairFor(part, item, c, loc) ==
    \E x, y \in Rows :
        /\ part = << x, y >>
        /\ x.stype = "PURCHASE_COLLECTION" /\ x.sid = c /\ x.line = item.line
        /\ x.bucket = "PENDING" /\ x.qty = -item.quantity
        /\ y.stype = "PURCHASE_COLLECTION" /\ y.sid = c /\ y.line = item.line
        /\ y.bucket = "PHYSICAL" /\ y.loc = loc /\ y.qty = item.quantity
        /\ y.aed = -x.aed

\* The value of a pair, as it leaves PENDING.
OutValue(part) == part[1].aed

\* What a pair adds to the collection's part of a line.
PairAdds(part, item, c, loc, l) ==
    LET T == Of("PURCHASE_COLLECTION", c, l)
    IN  /\ item.line = l =>
              /\ NetIn(part, T \intersect Pend) = [qty |-> -item.quantity, aed |-> OutValue(part)]
              /\ NetIn(part, T \intersect Phys) = [qty |-> item.quantity, aed |-> -OutValue(part)]
              /\ NetIn(part, T \intersect PhysAt(loc))
                    = [qty |-> item.quantity, aed |-> -OutValue(part)]
        /\ item.line # l =>
              /\ NetIn(part, T \intersect Pend) = NoStock
              /\ NetIn(part, T \intersect Phys) = NoStock
              /\ NetIn(part, T \intersect PhysAt(loc)) = NoStock

\* What one item's pair of rows adds up to in the sets the invariant speaks of.
LEMMA PairNets ==
    ASSUME NEW part, NEW item, NEW c, NEW loc, PairFor(part, item, c, loc),
           item.quantity \in Int, NEW l
    PROVE  /\ part \in Seq(Rows) /\ OutValue(part) \in Int
           /\ 1 \in 1..Len(part) /\ part[1].qty = -item.quantity
           /\ PairAdds(part, item, c, loc, l)
<1>1. PICK x \in Rows, y \in Rows :
         /\ part = << x, y >>
         /\ x.stype = "PURCHASE_COLLECTION" /\ x.sid = c /\ x.line = item.line
         /\ x.bucket = "PENDING" /\ x.qty = -item.quantity
         /\ y.stype = "PURCHASE_COLLECTION" /\ y.sid = c /\ y.line = item.line
         /\ y.bucket = "PHYSICAL" /\ y.loc = loc /\ y.qty = item.quantity
         /\ y.aed = -x.aed
  BY DEF PairFor
<1>2. part \in Seq(Rows)
  BY <1>1, PairNet
<1>3. part[1] = x /\ part[2] = y /\ Len(part) = 2
  BY <1>1
<1>4. /\ x \in Of("PURCHASE_COLLECTION", c, l) \intersect Pend <=> item.line = l
      /\ y \notin Of("PURCHASE_COLLECTION", c, l) \intersect Pend
      /\ x \notin Of("PURCHASE_COLLECTION", c, l) \intersect Phys
      /\ y \in Of("PURCHASE_COLLECTION", c, l) \intersect Phys <=> item.line = l
      /\ x \notin Of("PURCHASE_COLLECTION", c, l) \intersect PhysAt(loc)
      /\ y \in Of("PURCHASE_COLLECTION", c, l) \intersect PhysAt(loc) <=> item.line = l
  BY <1>1 DEF Of, OnLine, Pend, Phys, PhysAt, BucketRows, PurchaseSources
<1>5. x.qty \in Int /\ x.aed \in Int /\ y.qty \in Int /\ y.aed \in Int
  BY DEF Rows
<1>6. ASSUME NEW S
      PROVE  NetIn(part, S) = Plus(IF x \in S THEN [qty |-> x.qty, aed |-> x.aed] ELSE NoStock,
                                   IF y \in S THEN [qty |-> y.qty, aed |-> y.aed] ELSE NoStock)
  BY <1>1, PairNet
<1>7. Plus(NoStock, NoStock) = NoStock
  BY DEF Plus, NoStock
<1>8. \A q, a \in Int : /\ Plus([qty |-> q, aed |-> a], NoStock) = [qty |-> q, aed |-> a]
                        /\ Plus(NoStock, [qty |-> q, aed |-> a]) = [qty |-> q, aed |-> a]
  BY DEF Plus, NoStock
<1>9. NetIn(part, Of("PURCHASE_COLLECTION", c, l) \intersect Pend) =
         IF item.line = l THEN [qty |-> x.qty, aed |-> x.aed] ELSE NoStock
  BY <1>4, <1>5, <1>6, <1>7, <1>8
<1>10. NetIn(part, Of("PURCHASE_COLLECTION", c, l) \intersect Phys) =
         IF item.line = l THEN [qty |-> y.qty, aed |-> y.aed] ELSE NoStock
  BY <1>4, <1>5, <1>6, <1>7, <1>8
<1>11. NetIn(part, Of("PURCHASE_COLLECTION", c, l) \intersect PhysAt(loc)) =
         IF item.line = l THEN [qty |-> y.qty, aed |-> y.aed] ELSE NoStock
  BY <1>4, <1>5, <1>6, <1>7, <1>8
<1>12. OutValue(part) = x.aed /\ y.aed = -OutValue(part)
  BY <1>1, <1>3 DEF OutValue
<1>13. PairAdds(part, item, c, loc, l)
  <2>1. CASE item.line = l
    BY <1>1, <1>9, <1>10, <1>11, <1>12, <2>1 DEF PairAdds
  <2>2. CASE item.line # l
    BY <1>9, <1>10, <1>11, <2>2 DEF PairAdds
  <2> QED
    BY <2>1, <2>2
<1> QED
  BY <1>1, <1>2, <1>3, <1>5, <1>12, <1>13

\* What each part adds to S.
QtyBy(parts, S) == [i \in 1..Len(parts) |-> NetIn(parts[i], S).qty]

AedBy(parts, S) == [i \in 1..Len(parts) |-> NetIn(parts[i], S).aed]

\* The sums over concatenated parts are sums over the parts.
LEMMA ByParts ==
    ASSUME NEW parts \in Seq(Seq(Rows)), NEW S
    PROVE  /\ QtyBy(parts, S) \in Seq(Int) /\ Len(QtyBy(parts, S)) = Len(parts)
           /\ AedBy(parts, S) \in Seq(Int) /\ Len(AedBy(parts, S)) = Len(parts)
           /\ \A i \in 1..Len(parts) : /\ QtyBy(parts, S)[i] = NetIn(parts[i], S).qty
                                       /\ AedBy(parts, S)[i] = NetIn(parts[i], S).aed
           /\ NetIn(FlattenSeq(parts), S).qty = SumSeq(QtyBy(parts, S))
           /\ NetIn(FlattenSeq(parts), S).aed = SumSeq(AedBy(parts, S))
<1>1. \A i \in 1..Len(parts) : parts[i] \in Seq(Rows)
  OBVIOUS
<1>2. \A i \in 1..Len(parts) : NetIn(parts[i], S).qty \in Int /\ NetIn(parts[i], S).aed \in Int
  BY <1>1, NetInType
<1>3. /\ QtyBy(parts, S) \in [1..Len(parts) -> Int] /\ AedBy(parts, S) \in [1..Len(parts) -> Int]
      /\ \A i \in 1..Len(parts) : /\ QtyBy(parts, S)[i] = NetIn(parts[i], S).qty
                                  /\ AedBy(parts, S)[i] = NetIn(parts[i], S).aed
  BY <1>2 DEF QtyBy, AedBy
<1>4. ASSUME NEW n \in Nat, NEW f \in [1..n -> Int] PROVE f \in Seq(Int) /\ Len(f) = n
  OBVIOUS
<1>5. Len(parts) \in Nat
  OBVIOUS
<1>6. /\ NetIn(FlattenSeq(parts), S).qty = SumSeq(QtyBy(parts, S))
      /\ NetIn(FlattenSeq(parts), S).aed = SumSeq(AedBy(parts, S))
  BY FlattenFacts DEF QtyBy, AedBy
<1> QED
  BY <1>3, <1>4, <1>5, <1>6

AllWellFormed(moves) == \A k \in 1..Len(moves) : WellFormed(moves[k])

\* A pair of movements for each item.
PairsFor(parts, items, c, loc) ==
    /\ parts \in Seq(Seq(Rows))
    /\ Len(parts) = Len(items)
    /\ \A i \in 1..Len(items) : PairFor(parts[i], items[i], c, loc)

\* Rows of T take n units out of PENDING and bring them to loc; what the only item
\* of a line takes out of PENDING.
PairsGo(rows, parts, items, T, loc, l, n) ==
    /\ NetIn(rows, T \intersect Pend).qty = -n
    /\ NetIn(rows, T \intersect Pend).aed <= 0
    /\ \A V \in {Phys, PhysAt(loc)} :
          /\ NetIn(rows, T \intersect V).qty = n
          /\ NetIn(rows, T \intersect V).aed >= 0
    /\ \A i \in 1..Len(items) : On(items, l) = {i} =>
          NetIn(rows, T \intersect Pend)
             = [qty |-> -items[i].quantity, aed |-> OutValue(parts[i])]

\* Wherever these movements go, each pair does the same or nothing.
LEMMA PairsNet ==
    ASSUME NEW items, AskSome(items), NEW parts, NEW c, NEW loc, PairsFor(parts, items, c, loc),
           AllWellFormed(FlattenSeq(parts)),
           NEW l, NEW n, n = Total(items, On(items, l)), NEW T, T = Of("PURCHASE_COLLECTION", c, l)
    PROVE  PairsGo(FlattenSeq(parts), parts, items, T, loc, l, n)
<1>1. parts \in Seq(Seq(Rows)) /\ Len(parts) = Len(items)
  BY DEF PairsFor
<1>a. \A i \in 1..Len(items) : PairFor(parts[i], items[i], c, loc)
  BY DEF PairsFor
<1>b. \A i \in 1..Len(items) : items[i].quantity \in Nat \ {0}
  BY DEF AskSome
<1>2. ASSUME NEW i \in 1..Len(items)
      PROVE  /\ OutValue(parts[i]) \in Int
             /\ 1 \in 1..Len(parts[i]) /\ parts[i][1].qty = -items[i].quantity
             /\ PairAdds(parts[i], items[i], c, loc, l)
  <2>1. PICK part, item : part = parts[i] /\ item = items[i]
    OBVIOUS
  <2>2. PairFor(part, item, c, loc) /\ item.quantity \in Int
    BY <1>a, <1>b, <2>1
  <2>3. /\ OutValue(part) \in Int /\ 1 \in 1..Len(part) /\ part[1].qty = -item.quantity
        /\ PairAdds(part, item, c, loc, l)
    BY <2>2, PairNets
  <2> QED
    BY <2>1, <2>3
<1>c. ASSUME NEW i \in 1..Len(items)
      PROVE  /\ NetIn(parts[i], T \intersect Pend).qty =
                   IF i \in On(items, l) THEN -items[i].quantity ELSE 0
             /\ NetIn(parts[i], T \intersect Pend).aed =
                   IF i \in On(items, l) THEN OutValue(parts[i]) ELSE 0
             /\ \A V \in {Phys, PhysAt(loc)} :
                   /\ NetIn(parts[i], T \intersect V).qty =
                         IF i \in On(items, l) THEN items[i].quantity ELSE 0
                   /\ NetIn(parts[i], T \intersect V).aed =
                         IF i \in On(items, l) THEN -OutValue(parts[i]) ELSE 0
  <2>1. i \in On(items, l) <=> items[i].line = l
    BY DEF On
  <2>2. PICK u, v, w, q, a :
           /\ u = NetIn(parts[i], T \intersect Pend) /\ v = NetIn(parts[i], T \intersect Phys)
           /\ w = NetIn(parts[i], T \intersect PhysAt(loc))
           /\ q = items[i].quantity /\ a = OutValue(parts[i])
    OBVIOUS
  <2>3. CASE i \in On(items, l)
    <3>1. /\ u = [qty |-> -q, aed |-> a] /\ v = [qty |-> q, aed |-> -a]
          /\ w = [qty |-> q, aed |-> -a]
      BY <1>2, <2>1, <2>2, <2>3 DEF PairAdds
    <3>2. u.qty = -q /\ u.aed = a /\ v.qty = q /\ v.aed = -a /\ w.qty = q /\ w.aed = -a
      BY <3>1
    <3>3. \A V \in {Phys, PhysAt(loc)} : /\ NetIn(parts[i], T \intersect V).qty = q
                                        /\ NetIn(parts[i], T \intersect V).aed = -a
      BY <2>2, <3>2
    <3> QED
      BY <2>2, <2>3, <3>2, <3>3
  <2>4. CASE i \notin On(items, l)
    <3>1. u = NoStock /\ v = NoStock /\ w = NoStock
      BY <1>2, <2>1, <2>2, <2>4 DEF PairAdds
    <3>2. u.qty = 0 /\ u.aed = 0 /\ v.qty = 0 /\ v.aed = 0 /\ w.qty = 0 /\ w.aed = 0
      BY <3>1 DEF NoStock
    <3>3. \A V \in {Phys, PhysAt(loc)} : /\ NetIn(parts[i], T \intersect V).qty = 0
                                        /\ NetIn(parts[i], T \intersect V).aed = 0
      BY <2>2, <3>2
    <3> QED
      BY <2>2, <2>4, <3>2, <3>3
  <2> QED
    BY <2>3, <2>4
<1>3. ASSUME NEW i \in 1..Len(items) PROVE OutValue(parts[i]) <= 0
  <2>1. HasAll(FlattenSeq(parts), parts, Len(parts))
    BY <1>1, FlattenAll
  <2>2. 1 \in 1..Len(parts[i]) /\ i \in 1..Len(parts)
    BY <1>1, <1>2
  <2>3. PICK k \in 1..Len(FlattenSeq(parts)) : FlattenSeq(parts)[k] = parts[i][1]
    BY <2>1, <2>2 DEF HasAll
  <2>4. PICK row : row = parts[i][1]
    OBVIOUS
  <2>5. WellFormed(row)
    BY <2>3, <2>4 DEF AllWellFormed
  <2>6. row.qty < 0
    <3>1. PICK q \in Nat \ {0} : q = items[i].quantity
      BY <1>b
    <3>2. row.qty = -q
      BY <1>2, <2>4, <3>1
    <3> QED
      BY <3>1, <3>2
  <2> QED
    BY <2>4, <2>5, <2>6 DEF WellFormed, OutValue
<1>4. \A S : /\ QtyBy(parts, S) \in Seq(Int) /\ Len(QtyBy(parts, S)) = Len(items)
             /\ AedBy(parts, S) \in Seq(Int) /\ Len(AedBy(parts, S)) = Len(items)
             /\ \A i \in 1..Len(items) : /\ QtyBy(parts, S)[i] = NetIn(parts[i], S).qty
                                         /\ AedBy(parts, S)[i] = NetIn(parts[i], S).aed
             /\ NetIn(FlattenSeq(parts), S).qty = SumSeq(QtyBy(parts, S))
             /\ NetIn(FlattenSeq(parts), S).aed = SumSeq(AedBy(parts, S))
  BY <1>1, ByParts
<1>5. PICK S : S = T \intersect Pend
  OBVIOUS
<1>6. /\ \A i \in 1..Len(items) : QtyBy(parts, S)[i] = IF i \in On(items, l) THEN -items[i].quantity ELSE 0
      /\ \A i \in 1..Len(items) : AedBy(parts, S)[i] = IF i \in On(items, l) THEN OutValue(parts[i]) ELSE 0
  BY <1>c, <1>4, <1>5
<1>7. NetIn(FlattenSeq(parts), S).qty = -n
  <2>1. PICK f \in Seq(Int) : f = QtyBy(parts, S)
    BY <1>4
  <2>2. SumSeq(f) = -n
    BY <1>4, <1>6, <2>1, ItemSums
  <2> QED
    BY <1>4, <2>1, <2>2
<1>8. NetIn(FlattenSeq(parts), S).aed <= 0
  <2>1. \A i \in 1..Len(AedBy(parts, S)) : AedBy(parts, S)[i] <= 0
    BY <1>3, <1>4, <1>6
  <2> QED
    BY <1>4, <2>1, SumSeqNotPositive
<1>9. ASSUME NEW V \in {Phys, PhysAt(loc)}
      PROVE  /\ NetIn(FlattenSeq(parts), T \intersect V).qty = n
             /\ NetIn(FlattenSeq(parts), T \intersect V).aed >= 0
  <2>1. PICK R : R = T \intersect V
    OBVIOUS
  <2>2. /\ \A i \in 1..Len(items) : QtyBy(parts, R)[i] = IF i \in On(items, l) THEN items[i].quantity ELSE 0
        /\ \A i \in 1..Len(items) : AedBy(parts, R)[i] = IF i \in On(items, l) THEN -OutValue(parts[i]) ELSE 0
    <3>1. ASSUME NEW i \in 1..Len(items)
          PROVE  /\ NetIn(parts[i], R).qty = IF i \in On(items, l) THEN items[i].quantity ELSE 0
                 /\ NetIn(parts[i], R).aed = IF i \in On(items, l) THEN -OutValue(parts[i]) ELSE 0
      BY <1>c, <2>1
    <3> QED
      BY <1>4, <3>1
  <2>3. NetIn(FlattenSeq(parts), R).qty = n
    <3>1. PICK f \in Seq(Int) : f = QtyBy(parts, R)
      BY <1>4
    <3>2. SumSeq(f) = n
      BY <1>4, <2>2, <3>1, ItemSums
    <3> QED
      BY <1>4, <3>1, <3>2
  <2>4. AedBy(parts, R) \in Seq(Nat)
    <3>1. ASSUME NEW i \in 1..Len(AedBy(parts, R))
          PROVE  AedBy(parts, R)[i] \in Int /\ AedBy(parts, R)[i] >= 0
      <4>1. i \in 1..Len(items)
        BY <1>4
      <4>2. PICK a \in Int : a = OutValue(parts[i]) /\ a <= 0
        BY <1>2, <1>3, <4>1
      <4>3. AedBy(parts, R)[i] = -a \/ AedBy(parts, R)[i] = 0
        BY <2>2, <4>1, <4>2
      <4> QED
        BY <4>2, <4>3
    <3>2. PICK f \in Seq(Int) : f = AedBy(parts, R)
      BY <1>4
    <3>3. \A i \in 1..Len(f) : f[i] \in Nat
      BY <3>1, <3>2
    <3>4. f \in [1..Len(f) -> Nat] /\ Len(f) \in Nat
      BY <3>3
    <3>5. f \in Seq(Nat)
      BY <3>4
    <3> QED
      BY <3>2, <3>5
  <2>5. NetIn(FlattenSeq(parts), R).aed \in Nat
    BY <1>4, <2>4, SumSeqNatural
  <2> QED
    BY <2>1, <2>3, <2>5
<1>10. ASSUME NEW i \in 1..Len(items), On(items, l) = {i}
       PROVE  NetIn(FlattenSeq(parts), S) = [qty |-> -items[i].quantity, aed |-> OutValue(parts[i])]
  <2>1. /\ \A j \in 1..Len(items) : j # i => QtyBy(parts, S)[j] = 0 /\ AedBy(parts, S)[j] = 0
        /\ QtyBy(parts, S)[i] = -items[i].quantity /\ AedBy(parts, S)[i] = OutValue(parts[i])
    BY <1>6, <1>10
  <2>2. PICK f \in Seq(Int), g \in Seq(Int) : f = QtyBy(parts, S) /\ g = AedBy(parts, S)
    BY <1>4
  <2>3. SumSeq(f) = f[i] /\ SumSeq(g) = g[i]
    BY <1>4, <2>1, <2>2, SumSeqOne
  <2>4. NetIn(FlattenSeq(parts), S) \in [qty: Int, aed: Int]
    <3>1. FlattenSeq(parts) \in Seq(Rows)
      BY <1>1, FlattenFacts DEF FlatUpTo
    <3> QED
      BY <3>1, NetInType
  <2> QED
    BY <1>4, <2>1, <2>2, <2>3, <2>4
<1> QED
  BY <1>5, <1>7, <1>8, <1>9, <1>10 DEF PairsGo

\* Where a collection puts the units of a line.
PutAt(loc, n) == [x \in Locations |-> IF x = loc THEN n ELSE 0]

\* So the collection is traced.
LEMMA PairsTraced ==
    ASSUME NEW items, AskSome(items), NEW parts, NEW c, NEW loc, PairsFor(parts, items, c, loc),
           AllWellFormed(FlattenSeq(parts)),
           NEW l, NEW n, n = Total(items, On(items, l))
    PROVE  Traced(FlattenSeq(parts), Of("PURCHASE_COLLECTION", c, l), n, n, PutAt(loc, n))
<1>1. PICK T, moves : T = Of("PURCHASE_COLLECTION", c, l) /\ moves = FlattenSeq(parts)
  OBVIOUS
<1>2. /\ NetIn(moves, T \intersect Pend).qty = -n
      /\ NetIn(moves, T \intersect Pend).aed <= 0
      /\ NetIn(moves, T \intersect Phys).qty = n
      /\ NetIn(moves, T \intersect PhysAt(loc)).qty = n
      /\ NetIn(moves, T \intersect PhysAt(loc)).aed >= 0
  <2>1. PairsGo(moves, parts, items, T, loc, l, n)
    BY <1>1, PairsNet
  <2> QED
    BY <2>1 DEF PairsGo
<1>3. /\ parts \in Seq(Seq(Rows)) /\ Len(parts) = Len(items)
      /\ \A i \in 1..Len(items) : PairFor(parts[i], items[i], c, loc)
  BY DEF PairsFor
<1>4. /\ moves \in Seq(Rows)
      /\ \A k \in 1..Len(moves) : \E i \in 1..Len(parts) : \E j \in 1..Len(parts[i]) :
            moves[k] = parts[i][j]
  BY <1>1, <1>3, FlattenFacts DEF FlatUpTo
<1>5. ASSUME NEW k \in 1..Len(moves)
      PROVE  /\ moves[k].bucket = "PHYSICAL" => moves[k].loc = loc
             /\ \E i \in 1..Len(items) : items[i].line = moves[k].line
  <2>1. PICK i \in 1..Len(parts) : \E j \in 1..Len(parts[i]) : moves[k] = parts[i][j]
    BY <1>4
  <2>2. PairFor(parts[i], items[i], c, loc)
    BY <1>3
  <2>3. PICK x \in Rows, y \in Rows :
           /\ parts[i] = << x, y >>
           /\ x.line = items[i].line /\ x.bucket = "PENDING"
           /\ y.line = items[i].line /\ y.bucket = "PHYSICAL" /\ y.loc = loc
    BY <2>2 DEF PairFor
  <2>4. moves[k] = x \/ moves[k] = y
    BY <2>1, <2>3
  <2> QED
    BY <1>3, <2>3, <2>4
<1>6. n = 0 => \A k \in 1..Len(moves) : moves[k] \notin T
  <2>1. n = 0 => \A i \in 1..Len(items) : i \notin On(items, l)
    BY TotalFacts
  <2> QED
    BY <1>1, <1>5, <2>1 DEF On, Of, OnLine
<1>7. n = 0 => Nothing(moves, T)
  BY <1>4, <1>6, NothingOutside
<1>8. ASSUME NEW x \in Locations
      PROVE  /\ NetIn(moves, T \intersect PhysAt(x)).qty = PutAt(loc, n)[x]
             /\ NetIn(moves, T \intersect PhysAt(x)).aed >= 0
             /\ PutAt(loc, n)[x] = 0 => Nothing(moves, T \intersect PhysAt(x))
  <2>1. CASE x = loc
    <3>1. PutAt(loc, n)[x] = n
      BY <2>1 DEF PutAt
    <3>2. n = 0 => Nothing(moves, T \intersect PhysAt(x))
      BY <1>7, NothingLess
    <3> QED
      BY <1>2, <2>1, <3>1, <3>2
  <2>2. CASE x # loc
    <3>1. \A k \in 1..Len(moves) : moves[k] \notin T \intersect PhysAt(x)
      BY <1>5, <2>2 DEF PhysAt, Phys, BucketRows
    <3>2. Nothing(moves, T \intersect PhysAt(x))
      BY <1>4, <3>1, NothingOutside
    <3>3. NetIn(moves, T \intersect PhysAt(x)) = NoStock
      BY <1>4, <3>1, NetInNone
    <3> QED
      BY <2>2, <3>2, <3>3 DEF PutAt, NoStock
  <2> QED
    BY <2>1, <2>2
<1>9. n = 0 => Nothing(moves, T \intersect Pend)
  BY <1>7, NothingLess
<1> QED
  BY <1>1, <1>2, <1>7, <1>8, <1>9 DEF Traced

-----------------------------------------------------------------------------
(* Collecting *)

\* The two movements of an item.
CollectPart(book, lns, c, at, loc, item) ==
    << LineMove("PURCHASE_COLLECTION", c, item.line, lns[item.line].product, at, "PENDING",
                -item.quantity, -ShareOf(item.quantity, PendingRemainder(book.ledger, item.line))),
       LineMove("PURCHASE_COLLECTION", c, item.line, lns[item.line].product, loc, "PHYSICAL",
                item.quantity, ShareOf(item.quantity, PendingRemainder(book.ledger, item.line))) >>

CollectParts(book, lns, c, at, loc, items) ==
    [i \in 1..Len(items) |-> CollectPart(book, lns, c, at, loc, items[i])]

\* What the rows have of a line in PENDING, and the value its item takes out of it.
PendOf(rows, l) == NetIn(rows, OnLine(l) \intersect Pend)

ValueOut(item, rows) == -ShareOf(item.quantity, PendOf(rows, item.line))

\* Where a row of a collection is, and what of.
CollectRowOf(row, lns, c, at, loc, item) ==
    /\ row.stype = "PURCHASE_COLLECTION" /\ row.sid = c
    /\ row.line = item.line /\ row.product = lns[item.line].product
    /\ \/ row.bucket = "PENDING" /\ row.loc = at
       \/ row.bucket = "PHYSICAL" /\ row.loc = loc

CollectRow(row, lns, c, at, loc, items) ==
    \E i \in 1..Len(items) : CollectRowOf(row, lns, c, at, loc, items[i])

\* An item that may be asked for: of a product there is, from what is pending.
MayAsk(item, rows, lns) ==
    /\ item.line \in Nat /\ lns[item.line].product \in Products
    /\ item.quantity \in Nat \ {0}
    /\ item.quantity <= PendOf(rows, item.line).qty

\* collect_purchase moves the units of an item out of PENDING and into PHYSICAL.
LEMMA CollectPartFacts ==
    ASSUME NEW book, book.ledger \in Seq(Rows), NEW lns, NEW c \in Nat, NEW at \in Locations,
           NEW loc \in Locations, NEW item, MayAsk(item, book.ledger, lns)
    PROVE  /\ PairFor(CollectPart(book, lns, c, at, loc, item), item, c, loc)
           /\ CollectPart(book, lns, c, at, loc, item) \in Seq(Rows)
           /\ OutValue(CollectPart(book, lns, c, at, loc, item))
                 = ValueOut(item, book.ledger)
           /\ \A j \in 1..Len(CollectPart(book, lns, c, at, loc, item)) :
                 CollectRowOf(CollectPart(book, lns, c, at, loc, item)[j], lns, c, at, loc, item)
<1>a. /\ item.line \in Nat /\ lns[item.line].product \in Products
      /\ item.quantity \in Nat \ {0}
      /\ item.quantity <= PendOf(book.ledger, item.line).qty
  BY DEF MayAsk
<1>1. PICK rest \in [qty: Int, aed: Int] :
         /\ rest = PendingRemainder(book.ledger, item.line)
         /\ rest = PendOf(book.ledger, item.line)
  <2>1. PendingRemainder(book.ledger, item.line)
           = NetIn(book.ledger, OnLine(item.line) \intersect Pend)
    BY SumsAreNets
  <2> QED
    BY <2>1, NetInType DEF PendOf
<1>2. PICK a \in Int : a = ShareOf(item.quantity, rest)
  <2>1. item.quantity \in Int /\ rest.qty \in Int /\ rest.aed \in Int /\ rest.qty > 0
    BY <1>1, <1>a
  <2>2. Share(item.quantity, rest.qty, rest.aed) \in Int
    BY <2>1, ShareInt
  <2> QED
    BY <2>2 DEF ShareOf
<1>3. PICK x : x = LineMove("PURCHASE_COLLECTION", c, item.line, lns[item.line].product, at,
                            "PENDING", -item.quantity, -a)
  OBVIOUS
<1>4. PICK y : y = LineMove("PURCHASE_COLLECTION", c, item.line, lns[item.line].product, loc,
                            "PHYSICAL", item.quantity, a)
  OBVIOUS
<1>5. PICK part : part = CollectPart(book, lns, c, at, loc, item)
  OBVIOUS
<1>6. part = << x, y >>
  BY <1>1, <1>2, <1>3, <1>4, <1>5 DEF CollectPart
<1>7. PICK q \in Nat \ {0}, product \in Products, l \in Nat :
         q = item.quantity /\ product = lns[item.line].product /\ l = item.line
  BY <1>a
<1>8. /\ x \in Rows /\ x.stype = "PURCHASE_COLLECTION" /\ x.sid = c /\ x.line = l
      /\ x.product = product /\ x.loc = at /\ x.bucket = "PENDING" /\ x.qty = -q /\ x.aed = -a
  BY <1>3, <1>7 DEF LineMove, Rows, SourceTypes, Buckets
<1>9. /\ y \in Rows /\ y.stype = "PURCHASE_COLLECTION" /\ y.sid = c /\ y.line = l
      /\ y.product = product /\ y.loc = loc /\ y.bucket = "PHYSICAL" /\ y.qty = q /\ y.aed = a
  BY <1>4, <1>7 DEF LineMove, Rows, SourceTypes, Buckets
<1>10. y.aed = -x.aed
  BY <1>8, <1>9
<1>11. PairFor(part, item, c, loc)
  <2>1. \E u, v \in Rows :
           /\ part = << u, v >>
           /\ u.stype = "PURCHASE_COLLECTION" /\ u.sid = c /\ u.line = item.line
           /\ u.bucket = "PENDING" /\ u.qty = -item.quantity
           /\ v.stype = "PURCHASE_COLLECTION" /\ v.sid = c /\ v.line = item.line
           /\ v.bucket = "PHYSICAL" /\ v.loc = loc /\ v.qty = item.quantity
           /\ v.aed = -u.aed
    BY <1>6, <1>7, <1>8, <1>9, <1>10
  <2> QED
    BY <2>1 DEF PairFor
<1>12. part \in Seq(Rows)
  BY <1>6, <1>8, <1>9, PairNet
<1>13. OutValue(part) = -a
  BY <1>6, <1>8 DEF OutValue
<1>15. OutValue(part) = ValueOut(item, book.ledger)
  BY <1>1, <1>2, <1>13 DEF ValueOut, PendOf
<1>14. \A j \in 1..Len(part) : CollectRowOf(part[j], lns, c, at, loc, item)
  <2>1. \A j \in 1..Len(part) : part[j] = x \/ part[j] = y
    BY <1>6
  <2> QED
    BY <1>7, <1>8, <1>9, <2>1 DEF CollectRowOf
<1> QED
  BY <1>1, <1>5, <1>11, <1>12, <1>15, <1>14

\* So may each of some.
Askable(items, rows, lns) ==
    /\ AskSome(items)
    /\ \A i \in 1..Len(items) : MayAsk(items[i], rows, lns)

IsList(items) == DOMAIN items = 1..Len(items) /\ Len(items) \in Nat

\* Each pair takes out the value of its item.
ValuesOut(parts, items, rows) ==
    \A i \in 1..Len(items) : OutValue(parts[i]) = ValueOut(items[i], rows)

\* The movements of collect_purchase are such pairs, item by item.
LEMMA CollectMovesFacts ==
    ASSUME NEW book, book.ledger \in Seq(Rows), NEW lns, NEW c \in Nat, NEW at \in Locations,
           NEW loc \in Locations, NEW items, IsList(items), Askable(items, book.ledger, lns)
    PROVE  /\ CollectMoves(book, lns, c, at, loc, items)
                 = FlattenSeq(CollectParts(book, lns, c, at, loc, items))
           /\ PairsFor(CollectParts(book, lns, c, at, loc, items), items, c, loc)
           /\ CollectMoves(book, lns, c, at, loc, items) \in Seq(Rows)
           /\ \A k \in 1..Len(CollectMoves(book, lns, c, at, loc, items)) :
                 CollectRow(CollectMoves(book, lns, c, at, loc, items)[k], lns, c, at, loc, items)
           /\ ValuesOut(CollectParts(book, lns, c, at, loc, items), items, book.ledger)
<1>1. DOMAIN items = 1..Len(items) /\ Len(items) \in Nat
  BY DEF IsList
<1>2. PICK parts : parts = CollectParts(book, lns, c, at, loc, items)
  OBVIOUS
<1>3. /\ DOMAIN parts = 1..Len(items)
      /\ \A i \in 1..Len(items) : parts[i] = CollectPart(book, lns, c, at, loc, items[i])
      /\ parts = [i \in 1..Len(items) |-> parts[i]]
  BY <1>2 DEF CollectParts
<1>4. CollectMoves(book, lns, c, at, loc, items) = FlattenSeq(parts)
  BY <1>1, <1>2 DEF CollectMoves, CollectParts, CollectPart
<1>5. ASSUME NEW i \in 1..Len(items)
      PROVE  /\ PairFor(parts[i], items[i], c, loc)
             /\ parts[i] \in Seq(Rows)
             /\ OutValue(parts[i]) = ValueOut(items[i], book.ledger)
             /\ \A j \in 1..Len(parts[i]) :
                   CollectRowOf(parts[i][j], lns, c, at, loc, items[i])
  <2>1. PICK item : item = items[i]
    OBVIOUS
  <2>2. MayAsk(item, book.ledger, lns)
    BY <2>1 DEF Askable
  <2>3. PICK part : part = CollectPart(book, lns, c, at, loc, item)
    OBVIOUS
  <2>4. /\ PairFor(part, item, c, loc) /\ part \in Seq(Rows)
        /\ OutValue(part) = ValueOut(item, book.ledger)
        /\ \A j \in 1..Len(part) : CollectRowOf(part[j], lns, c, at, loc, item)
    BY <2>2, <2>3, CollectPartFacts
  <2> QED
    BY <1>3, <2>1, <2>3, <2>4
<1>6. parts \in Seq(Seq(Rows)) /\ Len(parts) = Len(items)
  <2>1. parts \in [1..Len(items) -> Seq(Rows)]
    BY <1>3, <1>5
  <2> QED
    BY <1>1, <2>1
<1>7. PairsFor(parts, items, c, loc)
  BY <1>5, <1>6 DEF PairsFor
<1>8. PICK moves : moves = FlattenSeq(parts)
  OBVIOUS
<1>9. FlatUpTo(parts, Len(parts), moves)
  BY <1>6, <1>8, FlattenFacts
<1>10. ASSUME NEW k \in 1..Len(moves)
       PROVE  CollectRow(moves[k], lns, c, at, loc, items)
  <2>1. PICK i \in 1..Len(parts) : \E j \in 1..Len(parts[i]) : moves[k] = parts[i][j]
    BY <1>9 DEF FlatUpTo
  <2>2. i \in 1..Len(items)
    BY <1>6
  <2>3. CollectRowOf(moves[k], lns, c, at, loc, items[i])
    BY <1>5, <2>1, <2>2
  <2> QED
    BY <2>2, <2>3 DEF CollectRow
<1> QED
  BY <1>2, <1>4, <1>5, <1>7, <1>8, <1>9, <1>10 DEF FlatUpTo, ValuesOut

-----------------------------------------------------------------------------
(* A record more *)

\* Rows of records that had none before are all there is of them.
LEMMA FirstAlike ==
    ASSUME NEW rows \in Seq(Rows), NEW more \in Seq(Rows), NEW T, Nothing(rows, T)
    PROVE  Alike(more, rows \o more, T)
<1>1. ASSUME NEW S, Blind(S), S \subseteq T PROVE NetIn(rows \o more, S) = NetIn(more, S)
  <2>1. NetIn(rows, S) = NoStock
    BY <1>1 DEF Nothing
  <2>2. NetIn(rows \o more, S) = Plus(NetIn(rows, S), NetIn(more, S))
    BY NetInConcat
  <2>3. NetIn(more, S) \in [qty: Int, aed: Int]
    BY NetInType
  <2> QED
    BY <2>1, <2>2, <2>3 DEF Plus, NoStock
<1> QED
  BY <1>1 DEF Alike

\* The first rows of a record are all there is of it.
LEMMA FirstTraced ==
    ASSUME NEW rows \in Seq(Rows), NEW more \in Seq(Rows), NEW T, Blind(T), Nothing(rows, T),
           NEW out, NEW all, NEW at, Traced(more, T, out, all, at)
    PROVE  Traced(rows \o more, T, out, all, at)
BY FirstAlike, TracedAlike

\* The tables keep what rows refer to.
TablesKeep(ps, lns, cs, rs, qs, mns, ds, ts) ==
    /\ Len(lns) <= Len(mns)
    /\ \A l \in 1..Len(lns) :
          /\ mns[l].purchase = lns[l].purchase
          /\ qs[lns[l].purchase].location = ps[lns[l].purchase].location
          /\ ps[lns[l].purchase].is_deleted => qs[lns[l].purchase].is_deleted
    /\ Len(cs) <= Len(ds) /\ \A c \in 1..Len(cs) : ds[c].purchase = cs[c].purchase
    /\ Len(rs) <= Len(ts) /\ \A r \in 1..Len(rs) : ts[r].purchase = rs[r].purchase

\* Rows that fit the records fit them when there are more.
LEMMA RowsFitKept ==
    ASSUME NEW ps, NEW lns, NEW cs, NEW rs, TablesTyped(ps, lns, cs, rs),
           NEW qs, NEW mns, NEW ds, NEW ts, TablesTyped(qs, mns, ds, ts),
           TablesKeep(ps, lns, cs, rs, qs, mns, ds, ts),
           NEW rows, RowsFit(rows, ps, lns, cs, rs)
    PROVE  RowsFit(rows, qs, mns, ds, ts)
<1>1. /\ Len(lns) \in Nat /\ Len(cs) \in Nat /\ Len(rs) \in Nat
      /\ Len(mns) \in Nat /\ Len(ds) \in Nat /\ Len(ts) \in Nat
  BY TableTypes
<1>2. /\ 1..Len(lns) \subseteq 1..Len(mns) /\ 1..Len(cs) \subseteq 1..Len(ds)
      /\ 1..Len(rs) \subseteq 1..Len(ts)
  BY <1>1 DEF TablesKeep
<1>3. ASSUME NEW i \in 1..Len(rows) PROVE RowFits(rows[i], qs, mns, ds, ts)
  <2>1. RowFits(rows[i], ps, lns, cs, rs)
    BY DEF RowsFit
  <2>2. SUFFICES ASSUME rows[i].stype \in PurchaseSources PROVE RowFits(rows[i], qs, mns, ds, ts)
    BY <2>1 DEF RowFits
  <2>3. PICK l, row : l = rows[i].line /\ row = rows[i]
    OBVIOUS
  <2>4. l \in 1..Len(lns) /\ l \in 1..Len(mns)
    BY <1>2, <2>1, <2>2, <2>3 DEF OwnRowFits, RowFits
  <2>5. /\ mns[l].purchase = lns[l].purchase
        /\ qs[lns[l].purchase].location = ps[lns[l].purchase].location
        /\ ps[lns[l].purchase].is_deleted => qs[lns[l].purchase].is_deleted
    BY <2>4 DEF TablesKeep
  <2>6. /\ row.bucket = "PENDING" => row.loc = qs[mns[l].purchase].location
        /\ row.bucket # "PENDING" => /\ row.bucket = "PHYSICAL"
                                     /\ row.stype = "PURCHASE" => qs[mns[l].purchase].is_deleted
        /\ row.stype = "PURCHASE" => row.sid = mns[l].purchase
    BY <2>1, <2>2, <2>3, <2>5 DEF OwnRowFits, RowFits
  <2>7. row.stype = "PURCHASE_COLLECTION" =>
           row.sid \in 1..Len(ds) /\ ds[row.sid].purchase = mns[l].purchase
    BY <1>2, <2>1, <2>2, <2>3, <2>5 DEF OwnRowFits, RowFits, TablesKeep
  <2>8. row.stype = "PURCHASE_REFUND" =>
           row.sid \in 1..Len(ts) /\ ts[row.sid].purchase = mns[l].purchase
    BY <1>2, <2>1, <2>2, <2>3, <2>5 DEF OwnRowFits, RowFits, TablesKeep
  <2> QED
    BY <2>2, <2>3, <2>4, <2>6, <2>7, <2>8 DEF OwnRowFits, RowFits
<1> QED
  BY <1>3 DEF RowsFit

\* Rows that fit may be followed by rows that fit.
LEMMA RowsFitMore ==
    ASSUME NEW ps, NEW lns, NEW cs, NEW rs, NEW rows \in Seq(Rows), NEW more \in Seq(Rows),
           RowsFit(rows, ps, lns, cs, rs), RowsFit(more, ps, lns, cs, rs)
    PROVE  RowsFit(rows \o more, ps, lns, cs, rs)
<1>1. PICK all : all = rows \o more
  OBVIOUS
<1>2. /\ Len(all) = Len(rows) + Len(more)
      /\ \A k \in 1..Len(rows) : all[k] = rows[k]
      /\ \A k \in 1..Len(more) : all[Len(rows) + k] = more[k]
  BY <1>1, ConcatParts
<1>3. ASSUME NEW i \in 1..Len(all) PROVE RowFits(all[i], ps, lns, cs, rs)
  <2>1. CASE i <= Len(rows)
    BY <1>2, <2>1 DEF RowsFit
  <2>2. CASE ~(i <= Len(rows))
    <3>1. i - Len(rows) \in 1..Len(more) /\ Len(rows) + (i - Len(rows)) = i
      BY <1>2, <2>2
    <3>2. all[i] = more[i - Len(rows)]
      BY <1>2, <3>1
    <3> QED
      BY <3>1, <3>2 DEF RowsFit
  <2> QED
    BY <2>1, <2>2
<1> QED
  BY <1>1, <1>3 DEF RowsFit

\* A line that is not deleted.
LEMMA LiveGood ==
    ASSUME NEW ps, NEW lns, NEW cs, NEW rs, NEW rows, NEW l, ~lns[l].is_deleted,
           Nothing(rows, OnLine(l) \ OfProduct(lns[l].product)),
           ~RepeatedLines => Clean(NetIn(rows, OnLine(l) \intersect Pend)),
           LiveLine(rows, lns, cs, rs, l)
    PROVE  LineGood(rows, ps, lns, cs, rs, l)
BY DEF LineGood

\* Movements of a line's product keep the line to its product.
LEMMA ProductKept ==
    ASSUME NEW lns, NEW rows \in Seq(Rows), NEW more \in Seq(Rows), NEW l,
           Nothing(rows, OnLine(l) \ OfProduct(lns[l].product)),
           \A k \in 1..Len(more) : more[k].line = l => more[k].product = lns[l].product
    PROVE  Nothing(rows \o more, OnLine(l) \ OfProduct(lns[l].product))
<1>1. \A k \in 1..Len(more) : more[k] \notin OnLine(l) \ OfProduct(lns[l].product)
  BY DEF OnLine, OfProduct
<1>2. Nothing(more, OnLine(l) \ OfProduct(lns[l].product))
  BY <1>1, NothingOutside
<1> QED
  BY <1>2, NothingMore

\* Units that go with their share leave no value without units.
LEMMA CleanTaken ==
    ASSUME NEW rest \in [qty: Int, aed: Int], Clean(rest), NEW q \in Nat \ {0}, q <= rest.qty
    PROVE  Clean(Plus(rest, [qty |-> -q, aed |-> -ShareOf(q, rest)]))
<1>1. rest.qty \in Nat /\ q \in 1..rest.qty /\ rest.aed \in Nat
  BY DEF Clean
<1>2. /\ Share(q, rest.qty, rest.aed) \in 0..rest.aed
      /\ Share(rest.qty, rest.qty, rest.aed) = rest.aed
  BY <1>1, ShareWithin
<1>3. ShareOf(q, rest) \in 0..rest.aed /\ (q = rest.qty => ShareOf(q, rest) = rest.aed)
  BY <1>2 DEF ShareOf
<1>4. Plus(rest, [qty |-> -q, aed |-> -ShareOf(q, rest)])
         = [qty |-> rest.qty - q, aed |-> rest.aed - ShareOf(q, rest)]
  BY <1>1, <1>3 DEF Plus
<1> QED
  BY <1>1, <1>3, <1>4 DEF Clean

-----------------------------------------------------------------------------
(* A collection more *)

\* Items that ask a purchase's lines for no more than is left.
CollectAsks(items, p, rows, lns, cs, rs) ==
    /\ \A i \in 1..Len(items) :
          /\ lns[items[i].line].purchase = p
          /\ ~lns[items[i].line].is_deleted
          /\ items[i].quantity <= PendOf(rows, items[i].line).qty
          /\ items[i].quantity <= Pending(lns, cs, rs, items[i].line)
                - PrefixSums(Asked(items, On(items, items[i].line)))[i - 1]
    /\ RepeatedLines \/ OneLineEach(items)

\* What a collection may ask for can be moved.
LEMMA AsksAskable ==
    ASSUME NEW ps, NEW lns, NEW cs, NEW rs, TablesTyped(ps, lns, cs, rs),
           NEW items \in Seq(AskedItems(Len(lns))), NEW p, NEW rows,
           CollectAsks(items, p, rows, lns, cs, rs)
    PROVE  IsList(items) /\ AskSome(items) /\ Askable(items, rows, lns)
           /\ \A i \in 1..Len(items) : items[i].line \in 1..Len(lns) /\ items[i].line \in Nat
<1>1. \A item \in AskedItems(Len(lns)) : item.quantity \in Nat \ {0} /\ item.line \in 1..Len(lns)
  BY QuantitiesAssumption DEF AskedItems
<1>2. \A i \in 1..Len(items) : items[i] \in AskedItems(Len(lns))
  OBVIOUS
<1>3. AskSome(items)
  BY <1>1, <1>2 DEF AskSome
<1>4. ASSUME NEW i \in 1..Len(items) PROVE MayAsk(items[i], rows, lns)
  <2>1. items[i].quantity \in Nat \ {0} /\ items[i].line \in 1..Len(lns)
    BY <1>1, <1>2
  <2>2. lns[items[i].line].product \in Products
    BY <2>1, TableTypes
  <2>3. items[i].quantity <= PendOf(rows, items[i].line).qty
    BY DEF CollectAsks
  <2> QED
    BY <2>1, <2>2, <2>3 DEF MayAsk
<1> QED
  BY <1>1, <1>2, <1>3, <1>4 DEF Askable, IsList

\* A collection of these items, in its own record.
CollectionOf(p, loc, items) ==
    [purchase |-> p, location |-> loc, is_deleted |-> FALSE, lines |-> items]

\* The pending value of a line stays with its pending units.
LEMMA CollectClean ==
    ASSUME NEW book, book.ledger \in Seq(Rows), NEW lns, NEW c \in Nat, NEW at \in Locations,
           NEW loc \in Locations, NEW items, IsList(items), Askable(items, book.ledger, lns),
           OneLineEach(items),
           AllWellFormed(CollectMoves(book, lns, c, at, loc, items)),
           NEW l, Clean(PendOf(book.ledger, l))
    PROVE  Clean(PendOf(book.ledger \o CollectMoves(book, lns, c, at, loc, items), l))
<1>1. PICK rows \in Seq(Rows) : rows = book.ledger
  OBVIOUS
<1>2. PICK moves : moves = CollectMoves(book, lns, c, at, loc, items)
  OBVIOUS
<1>3. PICK parts : parts = CollectParts(book, lns, c, at, loc, items)
  OBVIOUS
<1>4. /\ moves \in Seq(Rows) /\ moves = FlattenSeq(parts) /\ PairsFor(parts, items, c, loc)
      /\ \A k \in 1..Len(moves) : CollectRow(moves[k], lns, c, at, loc, items)
      /\ \A i \in 1..Len(items) : OutValue(parts[i]) = ValueOut(items[i], rows)
  <2>1. /\ moves = FlattenSeq(parts) /\ PairsFor(parts, items, c, loc)
        /\ moves \in Seq(Rows)
    BY <1>2, <1>3, CollectMovesFacts
  <2>2. \A k \in 1..Len(moves) : CollectRow(moves[k], lns, c, at, loc, items)
    BY <1>2, CollectMovesFacts
  <2>3. \A i \in 1..Len(items) : OutValue(parts[i]) = ValueOut(items[i], rows)
    <3>1. ValuesOut(parts, items, book.ledger)
      BY <1>3, CollectMovesFacts
    <3> QED
      BY <1>1, <3>1 DEF ValuesOut
  <2> QED
    BY <2>1, <2>2, <2>3
<1>5. AskSome(items) /\ \A i \in 1..Len(items) : MayAsk(items[i], rows, lns)
  BY <1>1 DEF Askable
<1>6. CASE \A i \in 1..Len(items) : items[i].line # l
  <2>1. \A k \in 1..Len(moves) : moves[k] \notin OnLine(l) \intersect Pend
    BY <1>4, <1>6 DEF CollectRow, CollectRowOf, OnLine
  <2>2. NetIn(rows \o moves, OnLine(l) \intersect Pend) = NetIn(rows, OnLine(l) \intersect Pend)
    BY <1>4, <2>1, OutsideSame
  <2> QED
    BY <1>1, <1>2, <2>2 DEF PendOf
<1>7. ASSUME NEW i \in 1..Len(items), items[i].line = l
      PROVE  Clean(PendOf(rows \o moves, l))
  <2>1. On(items, l) = {i}
    <3>1. \A j \in 1..Len(items) : items[j].line = l <=> j = i
      BY <1>7 DEF OneLineEach
    <3> QED
      BY <3>1 DEF On
  <2>2. PICK q \in Nat \ {0} : q = items[i].quantity /\ q <= PendOf(rows, l).qty
    BY <1>5, <1>7 DEF MayAsk
  <2>3. PICK rest \in [qty: Int, aed: Int] : rest = PendOf(rows, l)
    BY NetInType DEF PendOf
  <2>4. NetIn(moves, Of("PURCHASE_COLLECTION", c, l) \intersect Pend)
           = [qty |-> -items[i].quantity, aed |-> OutValue(parts[i])]
    <3>1. AllWellFormed(FlattenSeq(parts))
      BY <1>2, <1>4
    <3>2. PICK n, T : n = Total(items, On(items, l)) /\ T = Of("PURCHASE_COLLECTION", c, l)
      OBVIOUS
    <3>3. PairsGo(FlattenSeq(parts), parts, items, T, loc, l, n)
      BY <1>4, <1>5, <3>1, <3>2, PairsNet
    <3> QED
      BY <1>4, <1>7, <2>1, <3>2, <3>3 DEF PairsGo
  <2>5. OutValue(parts[i]) = -ShareOf(q, rest)
    BY <1>4, <1>7, <2>2, <2>3 DEF ValueOut
  <2>6. \A k \in 1..Len(moves) :
           moves[k] \in OnLine(l) \intersect Pend
              <=> moves[k] \in Of("PURCHASE_COLLECTION", c, l) \intersect Pend
    BY <1>4 DEF CollectRow, CollectRowOf, Of
  <2>7. NetIn(moves, OnLine(l) \intersect Pend)
           = NetIn(moves, Of("PURCHASE_COLLECTION", c, l) \intersect Pend)
    BY <1>4, <2>6, NetInSame
  <2>8. NetIn(moves, OnLine(l) \intersect Pend) = [qty |-> -q, aed |-> -ShareOf(q, rest)]
    BY <2>2, <2>4, <2>5, <2>7
  <2>9. PendOf(rows \o moves, l) = Plus(rest, [qty |-> -q, aed |-> -ShareOf(q, rest)])
    <3>1. NetIn(rows \o moves, OnLine(l) \intersect Pend)
             = Plus(NetIn(rows, OnLine(l) \intersect Pend), NetIn(moves, OnLine(l) \intersect Pend))
      BY <1>4, NetInConcat
    <3> QED
      BY <2>3, <2>8, <3>1 DEF PendOf
  <2>10. Clean(rest) /\ q <= rest.qty
    BY <1>1, <2>2, <2>3
  <2> QED
    BY <2>9, <2>10, CleanTaken
<1> QED
  BY <1>1, <1>2, <1>6, <1>7

\* So collecting keeps everything in order.
LEMMA CollectGood ==
    ASSUME NEW ps, NEW lns, NEW cs, NEW rs, NEW rows, Good(rows, ps, lns, cs, rs),
           NEW p \in 1..Len(ps), ~ps[p].is_deleted, NEW loc \in Locations,
           NEW items \in Seq(AskedItems(Len(lns))), CollectAsks(items, p, rows, lns, cs, rs),
           NEW book, book.ledger = rows,
           NEW moves, moves = CollectMoves(book, lns, Len(cs) + 1, ps[p].location, loc, items),
           AllWellFormed(moves)
    PROVE  Good(rows \o moves, ps, lns, Append(cs, CollectionOf(p, loc, items)), rs)
<1>1. /\ TablesFit(ps, lns, cs, rs) /\ TablesTyped(ps, lns, cs, rs)
      /\ rows \in Seq(Rows) /\ RowsFit(rows, ps, lns, cs, rs)
      /\ LinesGood(rows, ps, lns, cs, rs)
  BY DEF Good, TablesFit
<1>2. PICK c, at : c = Len(cs) + 1 /\ at = ps[p].location
  OBVIOUS
<1>3. c \in Nat /\ Len(cs) \in Nat /\ at \in Locations
  <2>1. ps[p] \in PurchaseRecords
    BY <1>1, TableTypes
  <2> QED
    BY <1>1, <1>2, <2>1, TableTypes DEF PurchaseRecords
<1>4. PICK rec : rec = CollectionOf(p, loc, items)
  OBVIOUS
<1>5. /\ rec.purchase = p /\ rec.location = loc /\ ~rec.is_deleted /\ rec.lines = items
      /\ rec \in CollectionRecords(Len(ps), Len(lns))
  BY <1>4 DEF CollectionOf, CollectionRecords
<1>6. PICK now : now = Append(cs, rec)
  OBVIOUS
<1>7. /\ Len(now) = c /\ TablesTyped(ps, lns, now, rs) /\ now[c] = rec
      /\ \A k \in 1..Len(cs) : now[k] = cs[k]
      /\ \A k \in 1..Len(now) : k \in 1..Len(cs) \/ k = c
  <2>0. TablesTyped(ps, lns, cs, rs)
    BY <1>1
  <2>1. /\ Len(now) = c /\ TablesTyped(ps, lns, now, rs) /\ now[c] = rec
        /\ \A k \in 1..Len(cs) : now[k] = cs[k]
    BY <2>0, <1>2, <1>5, <1>6, OneMoreCollection
  <2> QED
    BY <1>2, <1>3, <2>1
<1>8. ASSUME NEW l
      PROVE  /\ \A k \in 1..Len(cs) : Took(now, k, l) = Took(cs, k, l)
                                      /\ TookAt(now, k, l) = TookAt(cs, k, l)
             /\ TookAll(now, l) = TookAll(cs, l) + Took(now, c, l)
             /\ Took(now, c, l) = Total(items, On(items, l))
             /\ TookAt(now, c, l) = PutAt(loc, Total(items, On(items, l)))
  <2>1. /\ \A k \in 1..Len(cs) : Took(now, k, l) = Took(cs, k, l)
                                 /\ TookAt(now, k, l) = TookAt(cs, k, l)
        /\ TookAll(now, l) = TookAll(cs, l) + Took(now, c, l)
    BY <1>1, <1>2, <1>5, <1>6, OneMoreCollection
  <2>2. Took(now, c, l) = Total(items, On(items, l))
    BY <1>5, <1>7 DEF Took
  <2>3. TookAt(now, c, l) = PutAt(loc, Total(items, On(items, l)))
    BY <1>5, <1>7, <2>2 DEF TookAt, PutAt
  <2> QED
    BY <2>1, <2>2, <2>3
<1>9. /\ IsList(items) /\ AskSome(items) /\ Askable(items, rows, lns)
      /\ \A i \in 1..Len(items) : items[i].line \in 1..Len(lns) /\ items[i].line \in Nat
  BY <1>1, AsksAskable
<1>10. \A i \in 1..Len(items) : lns[items[i].line].purchase = p /\ ~lns[items[i].line].is_deleted
  BY DEF CollectAsks
<1>11. TablesFit(ps, lns, now, rs)
  <2>1. NamesOwn(now, lns)
    <3>1. ASSUME NEW k \in 1..Len(now), NEW i \in 1..Len(now[k].lines)
          PROVE  lns[now[k].lines[i].line].purchase = now[k].purchase
      <4>1. CASE k \in 1..Len(cs)
        BY <1>1, <1>7, <4>1 DEF TablesFit, NamesOwn
      <4>2. CASE k = c
        BY <1>5, <1>7, <1>10, <4>2
      <4> QED
        BY <1>7, <4>1, <4>2
    <3> QED
      BY <3>1 DEF NamesOwn
  <2>2. GoneWith(now, ps)
    <3>1. ASSUME NEW k \in 1..Len(now), ps[now[k].purchase].is_deleted
          PROVE  now[k].is_deleted
      <4>1. CASE k \in 1..Len(cs)
        BY <1>1, <1>7, <3>1, <4>1 DEF TablesFit, GoneWith
      <4>2. CASE k = c
        BY <1>5, <1>7, <3>1, <4>2
      <4> QED
        BY <1>7, <4>1, <4>2
    <3> QED
      BY <3>1 DEF GoneWith
  <2> QED
    BY <1>1, <1>7, <2>1, <2>2 DEF TablesFit
<1>12. PICK parts : parts = CollectParts(book, lns, c, at, loc, items)
  OBVIOUS
<1>13. /\ moves = FlattenSeq(parts) /\ PairsFor(parts, items, c, loc)
       /\ moves \in Seq(Rows)
       /\ \A k \in 1..Len(moves) : CollectRow(moves[k], lns, c, at, loc, items)
  <2>1. moves = CollectMoves(book, lns, c, at, loc, items)
    BY <1>2
  <2>2. book.ledger \in Seq(Rows) /\ Askable(items, book.ledger, lns)
    BY <1>1, <1>9
  <2>3. moves = FlattenSeq(parts) /\ PairsFor(parts, items, c, loc)
    BY <1>3, <1>9, <1>12, <2>1, <2>2, CollectMovesFacts
  <2>4. moves \in Seq(Rows)
    <3>1. CollectMoves(book, lns, c, at, loc, items) \in Seq(Rows)
      BY <1>3, <1>9, <2>2, CollectMovesFacts
    <3> QED
      BY <2>1, <3>1
  <2>5. \A k \in 1..Len(moves) : CollectRow(moves[k], lns, c, at, loc, items)
    BY <1>3, <1>9, <2>1, <2>2, CollectMovesFacts
  <2> QED
    BY <2>3, <2>4, <2>5
<1>14. \A k \in 1..Len(moves) :
          /\ moves[k].stype = "PURCHASE_COLLECTION" /\ moves[k].sid = c
          /\ moves[k].line \in 1..Len(lns) /\ lns[moves[k].line].purchase = p
          /\ ~lns[moves[k].line].is_deleted
          /\ moves[k].product = lns[moves[k].line].product
          /\ \/ moves[k].bucket = "PENDING" /\ moves[k].loc = at
             \/ moves[k].bucket = "PHYSICAL"
  BY <1>9, <1>10, <1>13 DEF CollectRow, CollectRowOf
<1>15. rows \o moves \in Seq(Rows) /\ RowsFit(rows \o moves, ps, lns, now, rs)
  <2>1. TablesKeep(ps, lns, cs, rs, ps, lns, now, rs)
    <3>1. Len(cs) <= Len(now) /\ Len(lns) <= Len(lns) /\ Len(rs) <= Len(rs)
      BY <1>1, <1>2, <1>3, <1>7, TableTypes
    <3> QED
      BY <1>7, <3>1 DEF TablesKeep
  <2>2. RowsFit(rows, ps, lns, now, rs)
    BY <1>1, <1>7, <2>1, RowsFitKept
  <2>3. c \in 1..Len(now) /\ now[c].purchase = p
    BY <1>2, <1>3, <1>5, <1>7
  <2>4. RowsFit(moves, ps, lns, now, rs)
    <3>1. ASSUME NEW k \in 1..Len(moves) PROVE RowFits(moves[k], ps, lns, now, rs)
      <4>1. PICK row : row = moves[k]
        OBVIOUS
      <4>2. /\ row.stype = "PURCHASE_COLLECTION" /\ row.sid = c
            /\ row.line \in 1..Len(lns) /\ lns[row.line].purchase = p
            /\ (row.bucket = "PENDING" /\ row.loc = at) \/ row.bucket = "PHYSICAL"
        BY <1>14, <4>1
      <4>3. RowFits(row, ps, lns, now, rs)
        BY <1>2, <2>3, <4>2 DEF OwnRowFits, RowFits, PurchaseSources
      <4> QED
        BY <4>1, <4>3
    <3> QED
      BY <3>1 DEF RowsFit
  <2> QED
    BY <1>1, <1>13, <2>2, <2>4, RowsFitMore, ConcatParts
<1>16. /\ \A l, u, x : u # "PURCHASE_COLLECTION" \/ x # c => Nothing(moves, Of(u, x, l))
       /\ \A l : (\A k \in 1..Len(moves) : moves[k].line # l) => Nothing(moves, OnLine(l))
  <2>1. ASSUME NEW l, NEW u, NEW x, u # "PURCHASE_COLLECTION" \/ x # c
        PROVE  Nothing(moves, Of(u, x, l))
    <3>1. \A k \in 1..Len(moves) : moves[k] \notin Of(u, x, l)
      BY <1>14, <2>1 DEF Of
    <3> QED
      BY <1>13, <3>1, NothingOutside
  <2>2. ASSUME NEW l, \A k \in 1..Len(moves) : moves[k].line # l PROVE Nothing(moves, OnLine(l))
    <3>1. \A k \in 1..Len(moves) : moves[k] \notin OnLine(l)
      BY <2>2 DEF OnLine
    <3> QED
      BY <1>13, <3>1, NothingOutside
  <2> QED
    BY <2>1, <2>2
<1>17. ASSUME NEW l \in 1..Len(lns) PROVE LineGood(rows \o moves, ps, lns, now, rs, l)
  <2>1. LineGood(rows, ps, lns, cs, rs, l)
    BY <1>1 DEF LinesGood
  <2>2. CASE lns[l].is_deleted
    <3>1. Nothing(moves, OnLine(l))
      BY <1>14, <1>16, <2>2
    <3> QED
      BY <1>1, <1>13, <2>1, <2>2, <3>1, DeadKept
  <2>3. CASE ~lns[l].is_deleted
    <3>1. /\ Nothing(rows, OnLine(l) \ OfProduct(lns[l].product))
          /\ ~RepeatedLines => Clean(NetIn(rows, OnLine(l) \intersect Pend))
          /\ LiveLine(rows, lns, cs, rs, l)
      BY <2>1, <2>3 DEF LineGood
    <3>2. Nothing(rows \o moves, OnLine(l) \ OfProduct(lns[l].product))
      BY <1>1, <1>13, <1>14, <3>1, ProductKept
    <3>3. ~RepeatedLines => Clean(NetIn(rows \o moves, OnLine(l) \intersect Pend))
      <4>1. SUFFICES ASSUME ~RepeatedLines PROVE Clean(PendOf(rows \o moves, l))
        BY DEF PendOf
      <4>2. Clean(PendOf(book.ledger, l))
        BY <3>1, <4>1 DEF PendOf
      <4>3. OneLineEach(items)
        BY <4>1 DEF CollectAsks
      <4>4. moves = CollectMoves(book, lns, c, at, loc, items)
        BY <1>2
      <4>5. Clean(PendOf(book.ledger \o CollectMoves(book, lns, c, at, loc, items), l))
        BY <1>1, <1>3, <1>9, <4>2, <4>3, <4>4, CollectClean
      <4> QED
        BY <4>4, <4>5
    <3>4. LiveLine(rows \o moves, lns, now, rs, l)
      <4>1. Nothing(moves, Of("PURCHASE", lns[l].purchase, l))
        BY <1>16
      <4>2. ASSUME NEW k \in 1..Len(now)
            PROVE  CollectionStays(cs, now, k, l, moves)
                   \/ CollectionTraced(rows \o moves, now, k, l)
        <5>1. CASE k \in 1..Len(cs)
          <6>1. k # c
            BY <1>2, <1>3, <5>1
          <6> QED
            BY <1>8, <1>16, <5>1, <6>1 DEF CollectionStays
        <5>2. CASE k = c
          <6>1. Nothing(rows, Of("PURCHASE_COLLECTION", c, l))
            <7>1. \A i \in 1..Len(rows) : rows[i] \notin Of("PURCHASE_COLLECTION", c, l)
              <8>1. ASSUME NEW i \in 1..Len(rows), rows[i] \in Of("PURCHASE_COLLECTION", c, l)
                    PROVE  FALSE
                <9>1. rows[i].stype = "PURCHASE_COLLECTION" /\ rows[i].sid = c
                  BY <8>1 DEF Of
                <9>2. rows[i].sid \in 1..Len(cs)
                  BY <1>1, <9>1 DEF RowsFit, OwnRowFits, RowFits, PurchaseSources
                <9> QED
                  BY <1>2, <1>3, <9>1, <9>2
              <8> QED
                BY <8>1
            <7> QED
              BY <1>1, <7>1, NothingOutside
          <6>2. PICK n : n = Total(items, On(items, l))
            OBVIOUS
          <6>3. Traced(moves, Of("PURCHASE_COLLECTION", c, l), n, n, PutAt(loc, n))
            BY <1>9, <1>13, <6>2, PairsTraced
          <6>4. Traced(rows \o moves, Of("PURCHASE_COLLECTION", c, l), n, n, PutAt(loc, n))
            BY <1>1, <1>13, <6>1, <6>3, SetsBlind, FirstTraced
          <6> QED
            BY <1>8, <5>2, <6>2, <6>4 DEF CollectionTraced
        <5> QED
          BY <1>7, <5>1, <5>2
      <4>3. ASSUME NEW r \in 1..Len(rs) PROVE RefundStays(rs, rs, r, l, moves)
        BY <1>16 DEF RefundStays
      <4>4. Pending(lns, now, rs, l) >= 0
        <5>1. PICK most \in Nat : most = Pending(lns, cs, rs, l)
          <6>1. TookAll(cs, l) \in Nat /\ BackAll(rs, l, "PENDING") \in Nat
            BY <1>1, AmountTypes
          <6>2. lns[l].quantity \in Nat
            BY <1>1, TableTypes
          <6> QED
            BY <3>1, <6>1, <6>2 DEF LiveLine, Pending
        <5>2. ASSUME NEW i \in 1..Len(items), i \in On(items, l)
              PROVE  items[i].quantity <= most - PrefixSums(Asked(items, On(items, l)))[i - 1]
          <6>1. items[i].line = l
            BY <5>2 DEF On
          <6> QED
            BY <5>1, <6>1 DEF CollectAsks
        <5>3. PICK n \in Nat : n = Total(items, On(items, l))
          BY <1>9, TotalFacts
        <5>4. n <= most
          BY <1>9, <5>2, <5>3, AskedWithin
        <5>5. TookAll(now, l) = TookAll(cs, l) + n
          BY <1>8, <5>3
        <5>6. TookAll(cs, l) \in Int /\ BackAll(rs, l, "PENDING") \in Int /\ lns[l].quantity \in Int
          BY <1>1, AmountTypes, TableTypes
        <5> QED
          BY <5>1, <5>4, <5>5, <5>6 DEF Pending
      <4> QED
        BY <1>1, <1>13, <3>1, <4>1, <4>2, <4>3, <4>4, LiveStep
    <3> QED
      BY <2>3, <3>2, <3>3, <3>4, LiveGood
  <2> QED
    BY <2>2, <2>3
<1> QED
  BY <1>4, <1>6, <1>11, <1>15, <1>17 DEF Good, LinesGood

-----------------------------------------------------------------------------
(* The steps: collecting and entering *)

\* Lists of items that requests carry.
LEMMA RequestLists ==
    ASSUME NEW X, NEW items \in Requests(X)
    PROVE  items \in Seq(X) /\ DOMAIN items = 1..Len(items) /\ Len(items) \in Nat
<1>1. PICK n \in 1..MaxPayload : items \in [1..n -> X]
  BY DEF Requests
<1> QED
  BY <1>1

\* What a collection that is accepted leaves.
LEMMA CollectFacts ==
    ASSUME NEW ps, NEW lns, TablesTyped(ps, lns, collections, refunds),
           NEW items \in Seq(AskedItems(Len(lns))), RepeatedLines \/ OneLineEach(items),
           NEW book, Sound(book), NEW p, NEW at, NEW loc,
           Collect(book, lns, p, at, loc, items),
           NEW moves, moves = CollectMoves(book, lns, Len(collections) + 1, at, loc, items)
    PROVE  /\ CollectAsks(items, p, book.ledger, lns, collections, refunds)
           /\ moves \in Seq(Rows) /\ AllWellFormed(moves)
           /\ Sound(Book)' /\ ledger' = book.ledger \o moves
           /\ collections' = Append(collections, CollectionOf(p, loc, items))
<1>1. /\ CanCollect(book, lns, p, items) /\ CanPost(book, moves, FALSE)
      /\ Install(Posted(book, moves))
      /\ collections' = Append(collections, CollectionOf(p, loc, items))
  BY DEF Collect, CollectionOf
<1>2. moves \in Seq(Rows) /\ AllWellFormed(moves)
  <2>1. moves \in Seq(Rows) /\ \A i \in DOMAIN moves : WellFormed(moves[i])
    BY <1>1 DEF CanPost, ValidMovements
  <2> QED
    BY <2>1 DEF AllWellFormed
<1>3. Sound(Book)' /\ ledger' = book.ledger \o moves
  <2>1. Sound(Posted(book, moves))
    BY <1>2, PostedSound
  <2>2. ledger' = Posted(book, moves).ledger /\ balance' = Posted(book, moves).balance
    BY <1>1 DEF Install
  <2>3. Book' = Posted(book, moves)
    BY <2>2 DEF Book, Posted
  <2> QED
    BY <2>1, <2>2, <2>3 DEF Sound, Posted
<1>4. AskSome(items) /\ \A i \in 1..Len(items) : items[i].line \in Nat
  <2>1. \A item \in AskedItems(Len(lns)) : item.quantity \in Nat \ {0} /\ item.line \in Nat
    <3>1. Len(lns) \in Nat
      BY TableTypes
    <3>2. \A k \in 1..Len(lns) : k \in Nat
      BY <3>1
    <3> QED
      BY <3>2, QuantitiesAssumption DEF AskedItems
  <2>2. \A i \in 1..Len(items) : items[i] \in AskedItems(Len(lns))
    OBVIOUS
  <2> QED
    BY <2>1, <2>2 DEF AskSome
<1>5. book.ledger \in Seq(Rows)
  BY DEF Sound
<1>6. ASSUME NEW i \in 1..Len(items)
      PROVE  /\ lns[items[i].line].purchase = p
             /\ ~lns[items[i].line].is_deleted
             /\ items[i].quantity <= PendOf(book.ledger, items[i].line).qty
             /\ items[i].quantity <= Pending(lns, collections, refunds, items[i].line)
                   - PrefixSums(Asked(items, On(items, items[i].line)))[i - 1]
  <2>1. PICK l, item : l = items[i].line /\ item = items[i]
    OBVIOUS
  <2>2. /\ lns[l].purchase = p /\ ~lns[l].is_deleted
        /\ item.quantity <= PendingQty(lns, l) - AskedBefore(items, i, LAMBDA x : TRUE)
        /\ item.quantity <= PendingRemainder(book.ledger, l).qty
    BY <1>1, <2>1 DEF CanCollect
  <2>3. PendingQty(lns, l) = Pending(lns, collections, refunds, l)
    BY RecordsSay DEF TablesTyped
  <2>4. AskedBefore(items, i, LAMBDA x : TRUE) = PrefixSums(Asked(items, On(items, l)))[i - 1]
    BY <1>4, <2>1, AskedIs
  <2>5. PendingRemainder(book.ledger, l) = PendOf(book.ledger, l)
    BY <1>5, SumsAreNets DEF PendOf
  <2> QED
    BY <2>1, <2>2, <2>3, <2>4, <2>5
<1> QED
  BY <1>1, <1>2, <1>3, <1>6 DEF CollectAsks

\* Collecting keeps the invariant (collect_purchase).
LEMMA CollectStep ==
    ASSUME Inv, CollectSome
    PROVE  Inv'
<1>1. PICK p \in DOMAIN purchases, loc \in Locations, items \in Requests(LineItems) :
         (RepeatedLines \/ OneLineEach(items)) /\ CollectPurchase(p, loc, items)
  BY DEF CollectSome
<1>2. /\ Sound(Book) /\ drafts \subseteq Products \X Locations
      /\ Good(ledger, purchases, lines, collections, refunds)
      /\ TablesTyped(purchases, lines, collections, refunds)
  BY DEF Inv, Good, TablesFit
<1>3. p \in 1..Len(purchases) /\ items \in Seq(AskedItems(Len(lines)))
  <2>1. DOMAIN purchases = 1..Len(purchases) /\ DOMAIN lines = 1..Len(lines)
    BY <1>2 DEF TablesTyped
  <2>2. LineItems = AskedItems(Len(lines))
    BY <2>1 DEF LineItems, AskedItems
  <2> QED
    BY <1>1, <2>1, <2>2, RequestLists
<1>4. /\ ~purchases[p].is_deleted
      /\ UNCHANGED <<purchases, lines, refunds, drafts>>
      /\ Collect(Book, lines, p, purchases[p].location, loc, items)
  BY <1>1 DEF CollectPurchase
<1>5. PICK moves : moves = CollectMoves(Book, lines, Len(collections) + 1, purchases[p].location,
                                        loc, items)
  OBVIOUS
<1>6. PICK book : book = Book
  OBVIOUS
<1>7. book.ledger = ledger
  BY <1>6 DEF Book
<1>8. /\ CollectAsks(items, p, ledger, lines, collections, refunds)
      /\ moves \in Seq(Rows) /\ AllWellFormed(moves)
      /\ Sound(Book)' /\ ledger' = ledger \o moves
      /\ collections' = Append(collections, CollectionOf(p, loc, items))
  BY <1>1, <1>2, <1>3, <1>4, <1>5, <1>6, <1>7, CollectFacts
<1>9. Good(ledger \o moves, purchases, lines,
           Append(collections, CollectionOf(p, loc, items)), refunds)
  BY <1>1, <1>2, <1>3, <1>4, <1>5, <1>6, <1>7, <1>8, CollectGood
<1>10. Good(ledger', purchases', lines', collections', refunds')
  BY <1>4, <1>8, <1>9
<1> QED
  BY <1>2, <1>4, <1>8, <1>10 DEF Inv

-----------------------------------------------------------------------------
(* Lines that are new *)

\* A rounded amount of something is not negative.
LEMMA RoundNatural ==
    ASSUME NEW n \in Nat, NEW d \in Nat \ {0}
    PROVE  RoundHalfUp(n, d) \in Nat
<1>1. PICK a \in Nat, b \in Nat \ {0} : a = 2 * n + d /\ b = 2 * d
  OBVIOUS
<1>2. PICK x \in Int : x = a \div b /\ a < x * b + b
  BY <1>1, DivFloor
<1>3. x >= 0
  <2>1. SUFFICES ASSUME x < 0 PROVE FALSE
    OBVIOUS
  <2>2. PICK y \in Nat : y = -x - 1
    BY <2>1
  <2>3. x * b + b = -(y * b) /\ y * b >= 0
    BY <2>2
  <2> QED
    BY <1>1, <1>2, <2>3
<1> QED
  BY <1>1, <1>2, <1>3 DEF RoundHalfUp

\* The fields of a line record.
LEMMA LineTypes ==
    ASSUME NEW n, NEW line \in LineRecords(n)
    PROVE  line.quantity \in Nat \ {0} /\ line.quantity \in Int /\ line.product \in Products
<1>1. PICK q \in Quantities : q = line.quantity
  BY DEF LineRecords
<1>2. q \in Nat \ {0} /\ q \in Int
  BY QuantitiesAssumption
<1> QED
  BY <1>1, <1>2 DEF LineRecords

\* The frozen value of a line is a number of cents.
LEMMA TotalNatural ==
    ASSUME NEW n, NEW line \in LineRecords(n)
    PROVE  TotalValue(line) \in Nat
<1>1. /\ line.quantity \in Nat /\ line.price \in Nat /\ line.rate \in Nat
      /\ RateScale \in Nat \ {0}
  BY QuantitiesAssumption, MoneyAssumption DEF LineRecords
<1>2. PICK a \in Nat : a = line.quantity * line.price
  BY <1>1
<1>3. PICK b \in Nat : b = a * line.rate
  BY <1>1, <1>2
<1> QED
  BY <1>1, <1>2, <1>3, RoundNatural DEF TotalValue

\* No record that is not deleted asks for units of the line.
Untouched(cs, rs, l) ==
    /\ \A c \in 1..Len(cs) : Took(cs, c, l) = 0
    /\ \A r \in 1..Len(rs) : /\ \A source : Back(rs, r, l, source) = 0
                             /\ \A loc : BackAt(rs, r, l, loc) = 0

\* Of a line nobody touched nothing was taken and nothing came back.
LEMMA UntouchedTotals ==
    ASSUME NEW ps, NEW lns, NEW cs, NEW rs, TablesTyped(ps, lns, cs, rs),
           NEW l, Untouched(cs, rs, l)
    PROVE  /\ TookAll(cs, l) = 0
           /\ \A source : BackAll(rs, l, source) = 0
<1>1. TookAll(cs, l) = 0
  <2>1. PICK f \in Seq(Int) : f = TookBy(cs, l) /\ Len(f) = Len(cs) /\ TookAll(cs, l) = SumSeq(f)
    BY AmountSequences
  <2>2. \A c \in 1..Len(f) : f[c] = 0
    BY <2>1 DEF TookBy, Untouched
  <2> QED
    BY <2>1, <2>2, SumSeqZero
<1>2. ASSUME NEW source PROVE BackAll(rs, l, source) = 0
  <2>1. PICK f \in Seq(Int) : /\ f = BackBy(rs, l, source) /\ Len(f) = Len(rs)
                              /\ BackAll(rs, l, source) = SumSeq(f)
    BY AmountSequences
  <2>2. \A r \in 1..Len(f) : f[r] = 0
    BY <2>1 DEF BackBy, Untouched
  <2> QED
    BY <2>1, <2>2, SumSeqZero
<1> QED
  BY <1>1, <1>2

\* Of a line with no rows, in more[k] its whole quantity enters PENDING.
Enters(more, k, line, l) ==
    /\ more \in Seq(Rows) /\ k \in 1..Len(more)
    /\ more[k].stype = "PURCHASE" /\ more[k].sid = line.purchase /\ more[k].line = l
    /\ more[k].product = line.product /\ more[k].bucket = "PENDING"
    /\ more[k].qty = line.quantity /\ more[k].aed >= 0
    /\ \A j \in 1..Len(more) : more[j].line = l => j = k

\* The entry of a line is its only row.
LEMMA EntryNets ==
    ASSUME NEW more, NEW k, NEW line, NEW l, Enters(more, k, line, l)
    PROVE  \A S : S \subseteq OnLine(l) =>
              NetIn(more, S) = IF more[k] \in S THEN [qty |-> more[k].qty, aed |-> more[k].aed]
                                                ELSE NoStock
<1>1. SUFFICES ASSUME NEW S, S \subseteq OnLine(l)
               PROVE  NetIn(more, S) = IF more[k] \in S
                                       THEN [qty |-> more[k].qty, aed |-> more[k].aed]
                                       ELSE NoStock
  OBVIOUS
<1>2. more \in Seq(Rows) /\ k \in 1..Len(more)
  BY DEF Enters
<1>3. \A j \in 1..Len(more) : more[j] \in S => j = k
  BY <1>1 DEF Enters, OnLine
<1>4. CASE more[k] \in S
  <2>1. \A j \in 1..Len(more) : more[j] \in S <=> j = k
    BY <1>3, <1>4
  <2> QED
    BY <1>2, <1>4, <2>1, NetInOne
<1>5. CASE more[k] \notin S
  <2>1. \A j \in 1..Len(more) : more[j] \notin S
    BY <1>3, <1>5
  <2> QED
    BY <1>2, <1>5, <2>1, NetInNone
<1> QED
  BY <1>4, <1>5

\* A line entered afresh is good.
LEMMA FreshLine ==
    ASSUME NEW ps, NEW lns, NEW cs, NEW rs, TablesTyped(ps, lns, cs, rs),
           NEW l \in 1..Len(lns), ~lns[l].is_deleted, Untouched(cs, rs, l),
           NEW rows \in Seq(Rows), Nothing(rows, OnLine(l)),
           NEW more, NEW k, Enters(more, k, lns[l], l)
    PROVE  LineGood(rows \o more, ps, lns, cs, rs, l)
<1>1. PICK e : e = more[k]
  OBVIOUS
<1>2. /\ e \in Rows /\ e \in OnLine(l) /\ e \in Pend /\ more \in Seq(Rows)
      /\ e.qty = lns[l].quantity /\ e.aed >= 0 /\ e.product = lns[l].product
      /\ e.stype = "PURCHASE" /\ e.sid = lns[l].purchase
  BY <1>1 DEF Enters, OnLine, Pend, BucketRows, PurchaseSources
<1>3. e.qty \in Nat \ {0} /\ e.aed \in Int
  BY <1>2, TableTypes DEF Rows
<1>4. \A S : S \subseteq OnLine(l) =>
         NetIn(more, S) = IF e \in S THEN [qty |-> e.qty, aed |-> e.aed] ELSE NoStock
  BY <1>1, EntryNets
<1>5. ASSUME NEW T, T \subseteq OnLine(l), e \notin T PROVE Nothing(more, T)
  <2>1. \A S : S \subseteq T => S \subseteq OnLine(l) /\ e \notin S
    BY <1>5
  <2> QED
    BY <1>4, <2>1 DEF Nothing
<1>6. Nothing(more, OnLine(l) \ OfProduct(lns[l].product))
  <2>1. e \notin OnLine(l) \ OfProduct(lns[l].product)
    BY <1>2 DEF OfProduct
  <2> QED
    BY <1>5, <2>1
<1>7. Clean(NetIn(more, OnLine(l) \intersect Pend))
  <2>1. NetIn(more, OnLine(l) \intersect Pend) = [qty |-> e.qty, aed |-> e.aed]
    BY <1>2, <1>4
  <2> QED
    BY <1>2, <1>3, <2>1 DEF Clean
<1>8. NetIn(more, Of("PURCHASE", lns[l].purchase, l)).qty = lns[l].quantity
  <2>1. e \in Of("PURCHASE", lns[l].purchase, l) /\ Of("PURCHASE", lns[l].purchase, l) \subseteq OnLine(l)
    BY <1>2 DEF Of
  <2> QED
    BY <1>2, <1>4, <2>1
<1>9. ASSUME NEW c \in 1..Len(cs) PROVE CollectionTraced(more, cs, c, l)
  <2>1. Nothing(more, Of("PURCHASE_COLLECTION", c, l))
    BY <1>2, <1>5 DEF Of
  <2>2. Took(cs, c, l) = 0 /\ \A loc \in Locations : TookAt(cs, c, l)[loc] = 0
    BY DEF Untouched, TookAt
  <2>3. PICK at : at = TookAt(cs, c, l)
    OBVIOUS
  <2>4. Traced(more, Of("PURCHASE_COLLECTION", c, l), 0, 0, at)
    BY <2>1, <2>2, <2>3, SetsBlind, NothingTraced
  <2> QED
    BY <2>2, <2>3, <2>4 DEF CollectionTraced
<1>10. ASSUME NEW r \in 1..Len(rs) PROVE RefundTraced(more, rs, r, l)
  <2>1. Nothing(more, Of("PURCHASE_REFUND", r, l))
    BY <1>2, <1>5 DEF Of
  <2>2. /\ Back(rs, r, l, "PENDING") = 0 /\ -Back(rs, r, l, "RECEIVED") = 0
        /\ \A loc \in Locations : BackFrom(rs, r, l)[loc] = 0
    BY DEF Untouched, BackFrom
  <2>3. PICK at : at = BackFrom(rs, r, l)
    OBVIOUS
  <2>4. Traced(more, Of("PURCHASE_REFUND", r, l), 0, 0, at)
    BY <2>1, <2>2, <2>3, SetsBlind, NothingTraced
  <2> QED
    BY <2>2, <2>3, <2>4 DEF RefundTraced
<1>11. Pending(lns, cs, rs, l) >= 0
  <2>1. TookAll(cs, l) = 0 /\ BackAll(rs, l, "PENDING") = 0
    BY UntouchedTotals
  <2> QED
    BY <1>2, <1>3, <2>1 DEF Pending
<1>12. LineGood(more, ps, lns, cs, rs, l)
  BY <1>6, <1>7, <1>8, <1>9, <1>10, <1>11 DEF LineGood, LiveLine
<1>13. Alike(more, rows \o more, OnLine(l))
  BY <1>2, FirstAlike
<1> QED
  BY <1>12, <1>13, LineGoodAlike

\* A line is as good in tables that say the same of it.
LEMMA LineGoodSame ==
    ASSUME NEW ps, NEW lns, NEW cs, NEW rs, NEW rows, NEW l, NEW qs, NEW mns,
           mns[l] = lns[l], qs[lns[l].purchase].is_deleted <=> ps[lns[l].purchase].is_deleted,
           LineGood(rows, ps, lns, cs, rs, l)
    PROVE  LineGood(rows, qs, mns, cs, rs, l)
<1>1. LiveLine(rows, lns, cs, rs, l) => LiveLine(rows, mns, cs, rs, l)
  BY DEF LiveLine, Pending
<1> QED
  BY <1>1 DEF LineGood

\* A purchase more, with no lines yet.
LEMMA PurchaseAdded ==
    ASSUME NEW ps, NEW lns, NEW cs, NEW rs, NEW rows, Good(rows, ps, lns, cs, rs),
           NEW rec \in PurchaseRecords
    PROVE  Good(rows, Append(ps, rec), lns, cs, rs)
<1>1. /\ TablesFit(ps, lns, cs, rs) /\ TablesTyped(ps, lns, cs, rs)
      /\ rows \in Seq(Rows) /\ RowsFit(rows, ps, lns, cs, rs)
      /\ LinesGood(rows, ps, lns, cs, rs)
  BY DEF Good, TablesFit
<1>2. PICK qs : qs = Append(ps, rec)
  OBVIOUS
<1>3. /\ qs \in Seq(PurchaseRecords) /\ Len(qs) = Len(ps) + 1 /\ Len(ps) \in Nat
      /\ \A p \in 1..Len(ps) : qs[p] = ps[p]
  <2>1. ps \in Seq(PurchaseRecords)
    BY <1>1 DEF TablesTyped
  <2> QED
    BY <1>2, <2>1
<1>4. TablesTyped(qs, lns, cs, rs)
  <2>1. lns \in Seq(LineRecords(Len(qs)))
    <3>1. LineRecords(Len(ps)) \subseteq LineRecords(Len(qs))
      <4>1. 1..Len(ps) \subseteq 1..Len(qs)
        BY <1>3
      <4> QED
        BY <4>1 DEF LineRecords
    <3>2. lns \in Seq(LineRecords(Len(ps)))
      BY <1>1 DEF TablesTyped
    <3> QED
      BY <3>1, <3>2
  <2>2. Len(ps) <= Len(qs) /\ Len(lns) <= Len(lns)
    BY <1>1, <1>3, TableTypes
  <2> QED
    BY <1>1, <1>3, <2>1, <2>2, TablesGrow
<1>5. /\ \A l \in 1..Len(lns) : qs[lns[l].purchase] = ps[lns[l].purchase]
      /\ \A c \in 1..Len(cs) : qs[cs[c].purchase] = ps[cs[c].purchase]
      /\ \A r \in 1..Len(rs) : qs[rs[r].purchase] = ps[rs[r].purchase]
  BY <1>1, <1>3, TableTypes
<1>6. TablesFit(qs, lns, cs, rs)
  <2>1. GoneWith(lns, qs) /\ GoneWith(cs, qs) /\ GoneWith(rs, qs)
    BY <1>1, <1>5 DEF TablesFit, GoneWith
  <2> QED
    BY <1>1, <1>4, <2>1 DEF TablesFit
<1>7. RowsFit(rows, qs, lns, cs, rs)
  <2>1. TablesKeep(ps, lns, cs, rs, qs, lns, cs, rs)
    BY <1>1, <1>5, TableTypes DEF TablesKeep
  <2> QED
    BY <1>1, <1>4, <2>1, RowsFitKept
<1>8. ASSUME NEW l \in 1..Len(lns) PROVE LineGood(rows, qs, lns, cs, rs, l)
  BY <1>1, <1>5, LineGoodSame DEF LinesGood
<1> QED
  BY <1>1, <1>2, <1>6, <1>7, <1>8 DEF Good, LinesGood

\* The row that enters a line.
EntryRow(row, line, l, at) ==
    /\ row.stype = "PURCHASE" /\ row.sid = line.purchase /\ row.line = l
    /\ row.product = line.product /\ row.loc = at /\ row.bucket = "PENDING"
    /\ row.qty = line.quantity /\ row.aed >= 0

\* Collections and refunds name lines there are.
LEMMA KnownLines ==
    ASSUME NEW ps, NEW lns, NEW cs, NEW rs, TablesTyped(ps, lns, cs, rs)
    PROVE  /\ \A c \in 1..Len(cs) : \A i \in 1..Len(cs[c].lines) : cs[c].lines[i].line \in 1..Len(lns)
           /\ \A r \in 1..Len(rs) : \A i \in 1..Len(rs[r].lines) : rs[r].lines[i].line \in 1..Len(lns)
<1>1. \A c \in 1..Len(cs) : \A i \in 1..Len(cs[c].lines) : cs[c].lines[i].line \in 1..Len(lns)
  <2>1. ASSUME NEW c \in 1..Len(cs), NEW i \in 1..Len(cs[c].lines)
        PROVE  cs[c].lines[i].line \in 1..Len(lns)
    <3>1. cs[c].lines \in Seq(AskedItems(Len(lns)))
      BY TableTypes
    <3>2. cs[c].lines[i] \in AskedItems(Len(lns))
      BY <3>1
    <3> QED
      BY <3>2 DEF AskedItems
  <2> QED
    BY <2>1
<1>2. \A r \in 1..Len(rs) : \A i \in 1..Len(rs[r].lines) : rs[r].lines[i].line \in 1..Len(lns)
  <2>1. ASSUME NEW r \in 1..Len(rs), NEW i \in 1..Len(rs[r].lines)
        PROVE  rs[r].lines[i].line \in 1..Len(lns)
    <3>1. rs[r].lines \in Seq(BackItems(Len(lns)))
      BY TableTypes
    <3>2. rs[r].lines[i] \in BackItems(Len(lns))
      BY <3>1
    <3> QED
      BY <3>2 DEF BackItems
  <2> QED
    BY <2>1
<1> QED
  BY <1>1, <1>2

\* Lines more, each with its entry.
LEMMA LinesAdded ==
    ASSUME NEW ps, NEW lns, NEW cs, NEW rs, NEW rows, Good(rows, ps, lns, cs, rs),
           NEW p \in 1..Len(ps), ~ps[p].is_deleted,
           NEW new \in Seq(LineRecords(Len(ps))),
           \A i \in 1..Len(new) : new[i].purchase = p /\ ~new[i].is_deleted,
           NEW entry \in Seq(Rows), Len(entry) = Len(new),
           \A i \in 1..Len(new) : EntryRow(entry[i], new[i], Len(lns) + i, ps[p].location)
    PROVE  Good(rows \o entry, ps, lns \o new, cs, rs)
<1>1. /\ TablesFit(ps, lns, cs, rs) /\ TablesTyped(ps, lns, cs, rs)
      /\ rows \in Seq(Rows) /\ RowsFit(rows, ps, lns, cs, rs)
      /\ LinesGood(rows, ps, lns, cs, rs)
  BY DEF Good, TablesFit
<1>2. PICK mns : mns = lns \o new
  OBVIOUS
<1>3. /\ mns \in Seq(LineRecords(Len(ps))) /\ Len(mns) = Len(lns) + Len(new)
      /\ Len(lns) \in Nat /\ Len(new) \in Nat
      /\ \A l \in 1..Len(lns) : mns[l] = lns[l]
      /\ \A i \in 1..Len(new) : mns[Len(lns) + i] = new[i]
  <2>1. lns \in Seq(LineRecords(Len(ps)))
    BY <1>1 DEF TablesTyped
  <2> QED
    BY <1>2, <2>1, ConcatParts
<1>4. \A l \in 1..Len(mns) : l \in 1..Len(lns) \/ \E i \in 1..Len(new) : l = Len(lns) + i
  <2>1. SUFFICES ASSUME NEW l \in 1..Len(mns), l \notin 1..Len(lns)
                 PROVE  \E i \in 1..Len(new) : l = Len(lns) + i
    OBVIOUS
  <2>2. l - Len(lns) \in 1..Len(new) /\ l = Len(lns) + (l - Len(lns))
    BY <1>3, <2>1
  <2> QED
    BY <2>2
<1>5. TablesTyped(ps, mns, cs, rs)
  <2>1. ps \in Seq(PurchaseRecords) /\ Len(ps) <= Len(ps) /\ Len(lns) <= Len(mns)
    BY <1>1, <1>3, TableTypes DEF TablesTyped
  <2> QED
    BY <1>1, <1>3, <2>1, TablesGrow
<1>6. TablesFit(ps, mns, cs, rs)
  <2>3. NamesOwn(cs, mns) /\ NamesOwn(rs, mns)
    <3>1. TablesTyped(ps, lns, cs, rs) /\ NamesOwn(cs, lns) /\ NamesOwn(rs, lns)
      BY <1>1 DEF TablesFit
    <3>2. /\ \A c \in 1..Len(cs) : \A i \in 1..Len(cs[c].lines) : cs[c].lines[i].line \in 1..Len(lns)
          /\ \A r \in 1..Len(rs) : \A i \in 1..Len(rs[r].lines) : rs[r].lines[i].line \in 1..Len(lns)
      BY <3>1, KnownLines
    <3>3. NamesOwn(cs, mns)
      <4>1. ASSUME NEW c \in 1..Len(cs), NEW i \in 1..Len(cs[c].lines)
            PROVE  mns[cs[c].lines[i].line].purchase = cs[c].purchase
        <5>1. PICK l \in 1..Len(lns) : l = cs[c].lines[i].line
          BY <3>2
        <5>2. lns[l].purchase = cs[c].purchase
          BY <3>1, <5>1 DEF NamesOwn
        <5> QED
          BY <1>3, <5>1, <5>2
      <4> QED
        BY <4>1 DEF NamesOwn
    <3>4. NamesOwn(rs, mns)
      <4>1. ASSUME NEW r \in 1..Len(rs), NEW i \in 1..Len(rs[r].lines)
            PROVE  mns[rs[r].lines[i].line].purchase = rs[r].purchase
        <5>1. PICK l \in 1..Len(lns) : l = rs[r].lines[i].line
          BY <3>2
        <5>2. lns[l].purchase = rs[r].purchase
          BY <3>1, <5>1 DEF NamesOwn
        <5> QED
          BY <1>3, <5>1, <5>2
      <4> QED
        BY <4>1 DEF NamesOwn
    <3> QED
      BY <3>3, <3>4
  <2>4. GoneWith(mns, ps)
    <3>1. ASSUME NEW l \in 1..Len(mns), ps[mns[l].purchase].is_deleted PROVE mns[l].is_deleted
      <4>1. CASE l \in 1..Len(lns)
        BY <1>1, <1>3, <3>1, <4>1 DEF TablesFit, GoneWith
      <4>2. CASE \E i \in 1..Len(new) : l = Len(lns) + i
        BY <1>3, <3>1, <4>2
      <4> QED
        BY <1>4, <4>1, <4>2
    <3> QED
      BY <3>1 DEF GoneWith
  <2> QED
    BY <1>1, <1>5, <2>3, <2>4 DEF TablesFit
<1>7. RowsFit(rows \o entry, ps, mns, cs, rs)
  <2>1. TablesKeep(ps, lns, cs, rs, ps, mns, cs, rs)
    BY <1>1, <1>3, TableTypes DEF TablesKeep
  <2>2. RowsFit(rows, ps, mns, cs, rs)
    BY <1>1, <1>5, <2>1, RowsFitKept
  <2>3. RowsFit(entry, ps, mns, cs, rs)
    <3>1. ASSUME NEW i \in 1..Len(entry) PROVE RowFits(entry[i], ps, mns, cs, rs)
      <4>1. PICK l \in 1..Len(mns) : l = Len(lns) + i /\ mns[l] = new[i]
        BY <1>3
      <4>2. /\ EntryRow(entry[i], new[i], l, ps[p].location) /\ new[i].purchase = p
        BY <4>1
      <4> QED
        BY <4>1, <4>2 DEF OwnRowFits, RowFits, EntryRow, PurchaseSources
    <3> QED
      BY <3>1 DEF RowsFit
  <2> QED
    BY <1>1, <2>2, <2>3, RowsFitMore
<1>8. ASSUME NEW l \in 1..Len(mns) PROVE LineGood(rows \o entry, ps, mns, cs, rs, l)
  <2>1. CASE l \in 1..Len(lns)
    <3>1. \A i \in 1..Len(entry) : entry[i] \notin OnLine(l)
      <4>1. ASSUME NEW i \in 1..Len(entry) PROVE entry[i] \notin OnLine(l)
        <5>1. entry[i].line = Len(lns) + i
          BY DEF EntryRow
        <5>2. entry[i].line # l
          BY <1>3, <2>1, <5>1
        <5> QED
          BY <5>2 DEF OnLine
      <4> QED
        BY <4>1
    <3>2. Nothing(entry, OnLine(l))
      BY <3>1, NothingOutside
    <3>3. LineGood(rows \o entry, ps, lns, cs, rs, l)
      BY <1>1, <2>1, <3>2, MoreAlike, LineGoodAlike DEF LinesGood
    <3> QED
      BY <1>3, <2>1, <3>3, LineGoodSame
  <2>2. CASE \E i \in 1..Len(new) : l = Len(lns) + i
    <3>1. PICK i \in 1..Len(new) : l = Len(lns) + i
      BY <2>2
    <3>2. mns[l] = new[i] /\ l \notin 1..Len(lns)
      BY <1>3, <3>1
    <3>3. Nothing(rows, OnLine(l))
      <4>1. \A k \in 1..Len(rows) : rows[k] \notin OnLine(l)
        BY <1>1, <3>2 DEF RowsFit, OwnRowFits, RowFits, OnLine
      <4> QED
        BY <1>1, <4>1, NothingOutside
    <3>4. Enters(entry, i, mns[l], l)
      <4>1. EntryRow(entry[i], new[i], l, ps[p].location)
        BY <3>1
      <4>2. \A j \in 1..Len(entry) : entry[j].line = l => j = i
        <5>1. ASSUME NEW j \in 1..Len(entry), entry[j].line = l PROVE j = i
          <6>1. entry[j].line = Len(lns) + j
            BY DEF EntryRow
          <6> QED
            BY <1>3, <3>1, <5>1, <6>1
        <5> QED
          BY <5>1
      <4> QED
        BY <3>2, <4>1, <4>2 DEF EntryRow, Enters
    <3>5. Untouched(cs, rs, l)
      <4>1. ASSUME NEW c \in 1..Len(cs) PROVE Took(cs, c, l) = 0
        <5>1. PICK items : items = cs[c].lines
          OBVIOUS
        <5>2. items \in Seq(AskedItems(Len(lns))) /\ AskSome(items)
          BY <1>1, <5>1, TableTypes
        <5>3. \A j \in 1..Len(items) : items[j].line \in 1..Len(lns)
          BY <1>1, <5>1, KnownLines
        <5>4. \A j \in 1..Len(items) : j \notin On(items, l)
          BY <3>2, <5>3 DEF On
        <5>5. Total(items, On(items, l)) = 0
          BY <5>2, <5>4, TotalFacts
        <5> QED
          BY <5>1, <5>5 DEF Took
      <4>2. ASSUME NEW r \in 1..Len(rs)
            PROVE  /\ \A source : Back(rs, r, l, source) = 0
                   /\ \A loc : BackAt(rs, r, l, loc) = 0
        <5>1. PICK items : items = rs[r].lines
          OBVIOUS
        <5>2. items \in Seq(BackItems(Len(lns))) /\ AskSome(items)
          BY <1>1, <5>1, TableTypes
        <5>3. \A j \in 1..Len(items) : items[j].line \in 1..Len(lns)
          BY <1>1, <5>1, KnownLines
        <5>4. \A j \in 1..Len(items) : j \notin On(items, l)
          BY <3>2, <5>3 DEF On
        <5>5. ASSUME NEW N, N \subseteq On(items, l) PROVE Total(items, N) = 0
          <6>1. \A j \in 1..Len(items) : j \notin N
            BY <5>4, <5>5
          <6> QED
            BY <5>2, <6>1, TotalFacts
        <5>6. ASSUME NEW source PROVE Back(rs, r, l, source) = 0
          <6>1. Total(items, OnFrom(items, l, source)) = 0
            BY <5>5 DEF OnFrom
          <6> QED
            BY <5>1, <6>1 DEF Back
        <5>7. ASSUME NEW loc PROVE BackAt(rs, r, l, loc) = 0
          <6>1. Total(items, OnAt(items, l, loc)) = 0
            BY <5>5 DEF OnAt, OnFrom
          <6> QED
            BY <5>1, <6>1 DEF BackAt
        <5> QED
          BY <5>6, <5>7
      <4> QED
        BY <4>1, <4>2 DEF Untouched
    <3> QED
      BY <1>1, <1>5, <3>2, <3>3, <3>4, <3>5, FreshLine
  <2> QED
    BY <1>4, <2>1, <2>2
<1>9. rows \o entry \in Seq(Rows)
  BY <1>1, ConcatParts
<1> QED
  BY <1>2, <1>6, <1>7, <1>8, <1>9 DEF Good, LinesGood

\* No two items are of the same line.
Distinct(items) == \A a, b \in 1..Len(items) : items[a].line = items[b].line => a = b

\* What is kept of items of different lines, are items of different lines.
LEMMA KeptDistinct ==
    ASSUME NEW X, NEW s \in Seq(X), Distinct(s), NEW I
    PROVE  Distinct(Kept(s, I))
<1> DEFINE FromFirst(t, m) ==
              /\ t \in Seq(X)
              /\ \A k \in 1..Len(t) : \E i \in 1..m : i <= Len(s) /\ t[k] = s[i]
              /\ Distinct(t)
           T == {m \in Nat : m <= Len(s) => FromFirst(KeptPrefixes(s, I)[m], m)}
<1>1. Len(s) \in Nat
  OBVIOUS
<1>2. \A m \in 0..Len(s) :
         KeptPrefixes(s, I)[m] =
            IF m = 0 THEN << >>
            ELSE IF m \in I THEN Append(KeptPrefixes(s, I)[m - 1], s[m])
            ELSE KeptPrefixes(s, I)[m - 1]
  BY <1>1, KeptEquation
<1>3. 0 \in T
  <2>1. PICK t : t = KeptPrefixes(s, I)[0] /\ t = << >>
    BY <1>1, <1>2
  <2>2. t \in Seq(X) /\ Len(t) = 0
    BY <2>1
  <2>3. FromFirst(t, 0)
    BY <2>2 DEF Distinct
  <2> QED
    BY <2>1, <2>3
<1>4. ASSUME NEW m \in Nat, m \in T PROVE m + 1 \in T
  <2>1. SUFFICES ASSUME m + 1 <= Len(s) PROVE FromFirst(KeptPrefixes(s, I)[m + 1], m + 1)
    OBVIOUS
  <2>a. m <= Len(s) /\ FromFirst(KeptPrefixes(s, I)[m], m)
    BY <1>1, <1>4, <2>1
  <2> HIDE DEF FromFirst
  <2>2. PICK t : t = KeptPrefixes(s, I)[m] /\ FromFirst(t, m)
    BY <2>a
  <2> USE DEF FromFirst
  <2>3. m + 1 \in 0..Len(s) /\ m + 1 # 0 /\ (m + 1) - 1 = m
    BY <1>1, <2>1
  <2>4. KeptPrefixes(s, I)[m + 1] = IF m + 1 \in I THEN Append(t, s[m + 1]) ELSE t
    BY <1>2, <2>2, <2>3
  <2>5. CASE m + 1 \notin I
    <3>1. \A i \in 1..m : i \in 1..(m + 1)
      OBVIOUS
    <3>2. FromFirst(t, m + 1)
      BY <2>2, <3>1
    <3> QED
      BY <2>4, <2>5, <3>2
  <2>6. CASE m + 1 \in I
    <3>1. PICK x : x = s[m + 1] /\ x \in X
      BY <2>1
    <3>2. PICK u : u = Append(t, x)
      OBVIOUS
    <3>3. t \in Seq(X) /\ Len(t) \in Nat
      BY <2>2
    <3>4. /\ u \in Seq(X) /\ Len(u) = Len(t) + 1 /\ u[Len(t) + 1] = x
          /\ \A k \in 1..Len(t) : u[k] = t[k]
      BY <3>1, <3>2, <3>3
    <3>5. \A k \in 1..Len(u) : k = Len(t) + 1 \/ k \in 1..Len(t)
      BY <3>3, <3>4
    <3>6. \A k \in 1..Len(t) : t[k].line # x.line
      <4>1. ASSUME NEW k \in 1..Len(t), t[k].line = x.line PROVE FALSE
        <5>1. PICK i \in 1..m : i <= Len(s) /\ t[k] = s[i]
          BY <2>2
        <5>2. i \in 1..Len(s) /\ m + 1 \in 1..Len(s) /\ i # m + 1
          BY <1>1, <2>1, <5>1
        <5>3. s[i].line = s[m + 1].line
          BY <3>1, <4>1, <5>1
        <5> QED
          BY <5>2, <5>3 DEF Distinct
      <4> QED
        BY <4>1
    <3>7. Distinct(u)
      <4>1. ASSUME NEW a \in 1..Len(u), NEW b \in 1..Len(u), u[a].line = u[b].line PROVE a = b
        BY <2>2, <3>4, <3>5, <3>6, <4>1 DEF Distinct
      <4> QED
        BY <4>1 DEF Distinct
    <3>8. ASSUME NEW k \in 1..Len(u) PROVE \E i \in 1..(m + 1) : i <= Len(s) /\ u[k] = s[i]
      <4>1. CASE k = Len(t) + 1
        <5>1. m + 1 \in 1..(m + 1) /\ u[k] = s[m + 1]
          BY <3>1, <3>4, <4>1
        <5> QED
          BY <2>1, <5>1
      <4>2. CASE k \in 1..Len(t)
        <5>1. PICK i \in 1..m : i <= Len(s) /\ t[k] = s[i]
          BY <2>2, <4>2
        <5>2. i \in 1..(m + 1)
          OBVIOUS
        <5> QED
          BY <3>4, <4>2, <5>1, <5>2
      <4> QED
        BY <3>5, <4>1, <4>2
    <3>9. FromFirst(u, m + 1)
      BY <3>4, <3>7, <3>8
    <3> QED
      BY <2>4, <2>6, <3>1, <3>2, <3>9
  <2> QED
    BY <2>5, <2>6
<1> HIDE DEF T
<1>5. \A m \in Nat : m \in T
  BY <1>3, <1>4, NatSetInduction
<1>6. FromFirst(KeptPrefixes(s, I)[Len(s)], Len(s))
  BY <1>1, <1>5 DEF T
<1> QED
  BY <1>6 DEF Kept

\* What one request enters: the purchase with its lines, and what is already collected.
LEMMA CreateStep ==
    ASSUME Inv, Create
    PROVE  Inv'
<1>a. PICK loc \in Locations, terms \in Requests(LineTerms) :
         \E collected \in [DOMAIN terms -> {0} \union Quantities] : CreatePurchase(loc, terms, collected)
  BY DEF Create
<1>1. PICK collected \in [DOMAIN terms -> {0} \union Quantities] : CreatePurchase(loc, terms, collected)
  BY <1>a
<1>2. /\ Sound(Book) /\ drafts \subseteq Products \X Locations
      /\ Good(ledger, purchases, lines, collections, refunds)
      /\ TablesTyped(purchases, lines, collections, refunds)
  BY DEF Inv, Good, TablesFit
<1>3. /\ terms \in Seq(LineTerms) /\ DOMAIN terms = 1..Len(terms) /\ Len(terms) \in Nat
      /\ Len(purchases) \in Nat /\ Len(lines) \in Nat
  BY <1>2, RequestLists, TableTypes
<1>4. PICK p, base, n : p = Len(purchases) + 1 /\ base = Len(lines) /\ n = Len(terms)
  OBVIOUS
<1>5. PICK new : new = [i \in DOMAIN terms |-> NewLine(p, terms[i])]
  OBVIOUS
<1>6. PICK entry : entry = [i \in DOMAIN terms |->
         EntryMove(p, loc, base + i, new[i], new[i].quantity, TotalValue(new[i]))]
  OBVIOUS
<1>7. PICK items : items = [i \in DOMAIN terms |-> [line |-> base + i, quantity |-> collected[i]]]
  OBVIOUS
<1>8. PICK initial : initial = Kept(items, {i \in DOMAIN items : items[i].quantity > 0})
  OBVIOUS
<1>9. PICK rec : rec = [location |-> loc, is_deleted |-> FALSE]
  OBVIOUS
<1>10. PICK qs, mns : qs = Append(purchases, rec) /\ mns = lines \o new
  OBVIOUS
<1>11. /\ CanPost(Book, entry, FALSE)
       /\ purchases' = qs /\ lines' = mns
       /\ IF initial = << >>
          THEN Install(Posted(Book, entry)) /\ UNCHANGED collections
          ELSE Collect(Posted(Book, entry), mns, p, loc, loc, initial)
       /\ UNCHANGED <<refunds, drafts>>
  BY <1>1, <1>4, <1>5, <1>6, <1>7, <1>8, <1>9, <1>10 DEF CreatePurchase
<1>12. /\ rec \in PurchaseRecords /\ Len(qs) = p /\ qs[p] = rec /\ p \in 1..Len(qs)
       /\ qs[p].location = loc /\ ~qs[p].is_deleted
  <2>1. rec \in PurchaseRecords /\ rec.location = loc /\ ~rec.is_deleted
    BY <1>9 DEF PurchaseRecords
  <2>2. purchases \in Seq(PurchaseRecords)
    BY <1>2 DEF TablesTyped
  <2>3. Len(qs) = p /\ qs[p] = rec
    BY <1>3, <1>4, <1>10, <2>1, <2>2
  <2>4. p \in 1..Len(qs)
    BY <1>3, <1>4, <2>3
  <2> QED
    BY <2>1, <2>3, <2>4
<1>13. ASSUME NEW i \in 1..n
       PROVE  /\ new[i] \in LineRecords(Len(qs)) /\ new[i].purchase = p /\ ~new[i].is_deleted
              /\ TotalValue(new[i]) \in Nat
  <2>1. PICK t \in LineTerms : t = terms[i]
    BY <1>3, <1>4
  <2>2. new[i] = NewLine(p, t)
    BY <1>3, <1>4, <1>5, <2>1
  <2>3. NewLine(p, t) \in LineRecords(Len(qs)) /\ NewLine(p, t).purchase = p /\ ~NewLine(p, t).is_deleted
    BY <1>12 DEF NewLine, LineTerms, LineRecords
  <2> QED
    BY <2>2, <2>3, TotalNatural
<1>14. new \in Seq(LineRecords(Len(qs))) /\ Len(new) = n /\ n \in Nat
  <2>1. new \in [1..n -> LineRecords(Len(qs))]
    BY <1>3, <1>4, <1>5, <1>13
  <2> QED
    BY <1>3, <1>4, <2>1
<1>15. ASSUME NEW i \in 1..n
       PROVE  entry[i] \in Rows /\ EntryRow(entry[i], new[i], base + i, loc)
  <2>1. PICK line \in LineRecords(Len(qs)), v \in Nat :
           line = new[i] /\ v = TotalValue(new[i]) /\ line.purchase = p
    BY <1>13
  <2>2. PICK row : row = EntryMove(p, loc, base + i, line, line.quantity, v)
    OBVIOUS
  <2>3. entry[i] = row
    BY <1>3, <1>4, <1>6, <2>1, <2>2
  <2>4. base + i \in Nat /\ p \in Nat /\ line.quantity \in Int /\ line.product \in Products
    <3>1. base + i \in Nat /\ p \in Nat
      BY <1>3, <1>4
    <3>2. line.quantity \in Int /\ line.product \in Products
      BY LineTypes
    <3> QED
      BY <3>1, <3>2
  <2>5. row \in Rows /\ EntryRow(row, line, base + i, loc)
    BY <2>1, <2>2, <2>4 DEF EntryMove, LineMove, Rows, SourceTypes, Buckets, EntryRow
  <2> QED
    BY <2>1, <2>3, <2>5
<1>16. entry \in Seq(Rows) /\ Len(entry) = n
  <2>1. entry \in [1..n -> Rows]
    BY <1>3, <1>4, <1>6, <1>15
  <2> QED
    BY <1>14, <2>1
<1>17. Good(ledger, qs, lines, collections, refunds)
  BY <1>2, <1>10, <1>12, PurchaseAdded
<1>18. Good(ledger \o entry, qs, mns, collections, refunds)
  <2>1. \A i \in 1..Len(new) : new[i].purchase = p /\ ~new[i].is_deleted
    BY <1>13, <1>14
  <2>2. \A i \in 1..Len(new) : EntryRow(entry[i], new[i], Len(lines) + i, qs[p].location)
    BY <1>4, <1>12, <1>14, <1>15
  <2> QED
    BY <1>10, <1>12, <1>14, <1>16, <1>17, <2>1, <2>2, LinesAdded
<1>19. PICK book : book = Posted(Book, entry)
  OBVIOUS
<1>20. Sound(book) /\ book.ledger = ledger \o entry
  <2>1. Sound(book)
    BY <1>2, <1>16, <1>19, PostedSound
  <2> QED
    BY <1>19, <2>1 DEF Posted, Book
<1>21. CASE initial = << >>
  <2>1. Install(book) /\ UNCHANGED collections
    BY <1>11, <1>19, <1>21
  <2>2. Sound(Book)' /\ ledger' = ledger \o entry
    <3>1. ledger' = book.ledger /\ balance' = book.balance
      BY <2>1 DEF Install
    <3>2. Book' = book
      BY <1>19, <3>1 DEF Book, Posted
    <3> QED
      BY <1>20, <3>1, <3>2 DEF Sound
  <2>3. Good(ledger', purchases', lines', collections', refunds')
    BY <1>11, <1>18, <2>1, <2>2
  <2> QED
    BY <1>2, <1>11, <2>2, <2>3 DEF Inv
<1>22. CASE initial # << >>
  <2>1. Collect(book, mns, p, loc, loc, initial)
    BY <1>11, <1>19, <1>22
  <2>2. TablesTyped(qs, mns, collections, refunds)
    BY <1>18 DEF Good, TablesFit
  <2>3. initial \in Seq(AskedItems(Len(mns))) /\ OneLineEach(initial)
    <3>1. PICK Y : Y = [line: 1..Len(mns), quantity: {0} \union Quantities]
      OBVIOUS
    <3>2. Len(mns) = base + n
      <4>1. lines \in Seq(LineRecords(Len(qs)))
        BY <1>17 DEF Good, TablesFit, TablesTyped
      <4> QED
        BY <1>4, <1>10, <1>14, <4>1, ConcatParts
    <3>3. ASSUME NEW i \in 1..n
          PROVE  items[i] \in Y /\ items[i].line = base + i /\ items[i].quantity = collected[i]
      <4>1. items[i] = [line |-> base + i, quantity |-> collected[i]]
        BY <1>3, <1>4, <1>7
      <4>2. base + i \in 1..Len(mns) /\ collected[i] \in {0} \union Quantities
        BY <1>3, <1>4, <3>2
      <4> QED
        BY <3>1, <4>1, <4>2
    <3>4. items \in Seq(Y) /\ Len(items) = n
      <4>1. items \in [1..n -> Y]
        BY <1>3, <1>4, <1>7, <3>3
      <4> QED
        BY <1>14, <4>1
    <3>5. Distinct(items)
      <4>1. ASSUME NEW a \in 1..n, NEW b \in 1..n, items[a].line = items[b].line PROVE a = b
        <5>1. base + a = base + b
          BY <3>3, <4>1
        <5> QED
          BY <1>3, <1>4, <5>1
      <4> QED
        BY <3>4, <4>1 DEF Distinct
    <3>6. PICK I : I = {i \in DOMAIN items : items[i].quantity > 0}
      OBVIOUS
    <3>7. /\ initial \in Seq(Y)
          /\ \A k \in 1..Len(initial) : \E i \in 1..Len(items) : i \in I /\ initial[k] = items[i]
      <4>1. initial = Kept(items, I)
        BY <1>8, <3>6
      <4> QED
        BY <3>4, <4>1, KeptType
    <3>8. ASSUME NEW k \in 1..Len(initial) PROVE initial[k] \in AskedItems(Len(mns))
      <4>1. PICK i \in 1..Len(items) : i \in I /\ initial[k] = items[i]
        BY <3>7
      <4>2. PICK y \in Y : y = items[i] /\ y.quantity > 0
        BY <3>4, <3>6, <4>1
      <4>3. y.quantity \in Quantities
        BY <3>1, <4>2
      <4> QED
        BY <3>1, <4>1, <4>2, <4>3 DEF AskedItems
    <3>9. initial \in Seq(AskedItems(Len(mns)))
      <4>1. \E m \in Nat : initial \in [1..m -> Y] /\ Len(initial) = m
        BY <3>7
      <4>2. PICK m \in Nat : initial \in [1..m -> Y] /\ Len(initial) = m
        BY <4>1
      <4>3. initial \in [1..m -> AskedItems(Len(mns))]
        BY <3>8, <4>2
      <4> QED
        BY <4>3
    <3>10. OneLineEach(initial)
      <4>1. Distinct(initial)
        BY <1>8, <3>4, <3>5, KeptDistinct
      <4> QED
        BY <3>9, <4>1 DEF Distinct, OneLineEach
    <3> QED
      BY <3>9, <3>10
  <2>4. PICK moves : moves = CollectMoves(book, mns, Len(collections) + 1, loc, loc, initial)
    OBVIOUS
  <2>5. UNCHANGED <<refunds, drafts>> /\ purchases' = qs /\ lines' = mns
    BY <1>11
  <2>6. /\ CollectAsks(initial, p, book.ledger, mns, collections, refunds)
        /\ moves \in Seq(Rows) /\ AllWellFormed(moves)
        /\ Sound(Book)' /\ ledger' = book.ledger \o moves
        /\ collections' = Append(collections, CollectionOf(p, loc, initial))
    BY <1>20, <2>1, <2>2, <2>3, <2>4, CollectFacts
  <2>7. Good(book.ledger \o moves, qs, mns,
             Append(collections, CollectionOf(p, loc, initial)), refunds)
    <3>1. PICK rows : rows = book.ledger
      OBVIOUS
    <3>2. Good(rows, qs, mns, collections, refunds)
      BY <1>18, <1>20, <3>1
    <3>3. CollectAsks(initial, p, rows, mns, collections, refunds)
      BY <2>6, <3>1
    <3>4. moves = CollectMoves(book, mns, Len(collections) + 1, qs[p].location, loc, initial)
      BY <1>12, <2>4
    <3>5. Good(rows \o moves, qs, mns,
               Append(collections, CollectionOf(p, loc, initial)), refunds)
      BY <1>12, <2>3, <2>6, <3>1, <3>2, <3>3, <3>4, CollectGood
    <3> QED
      BY <3>1, <3>5
  <2>8. Good(ledger', purchases', lines', collections', refunds')
    BY <2>5, <2>6, <2>7
  <2> QED
    BY <1>2, <2>5, <2>6, <2>8 DEF Inv
<1> QED
  BY <1>21, <1>22

-----------------------------------------------------------------------------
(* Refunds and cancellations *)

\* Rows that take out what the items at the positions in N ask for.
LEMMA NetByItems ==
    ASSUME NEW items, AskSome(items), NEW moves \in Seq(Rows), Len(moves) = Len(items),
           AllWellFormed(moves), \A i \in 1..Len(items) : moves[i].qty = -items[i].quantity,
           NEW N, NEW S, \A i \in 1..Len(items) : moves[i] \in S <=> i \in N
    PROVE  /\ NetIn(moves, S).qty = -Total(items, N)
           /\ NetIn(moves, S).aed <= 0
           /\ Total(items, N) = 0 => Nothing(moves, S)
<1>1. PICK f : f = [i \in 1..Len(moves) |-> IF moves[i] \in S THEN moves[i].qty ELSE 0]
  OBVIOUS
<1>2. PICK g : g = [i \in 1..Len(moves) |-> IF moves[i] \in S THEN moves[i].aed ELSE 0]
  OBVIOUS
<1>3. NetIn(moves, S).qty = SumSeq(f) /\ NetIn(moves, S).aed = SumSeq(g)
  BY <1>1, <1>2 DEF NetIn, Net, SumOf
<1>4. \A i \in 1..Len(moves) : moves[i].qty \in Int /\ moves[i].aed \in Int
  <2>1. \A i \in 1..Len(moves) : moves[i] \in Rows
    OBVIOUS
  <2> QED
    BY <2>1 DEF Rows
<1>5. f \in Seq(Int) /\ g \in Seq(Int) /\ Len(f) = Len(moves) /\ Len(g) = Len(moves)
  <2>1. PICK n \in Nat : n = Len(moves)
    OBVIOUS
  <2>2. f \in [1..n -> Int] /\ g \in [1..n -> Int]
    BY <1>1, <1>2, <1>4, <2>1
  <2> QED
    BY <2>1, <2>2
<1>6. \A i \in 1..Len(items) : f[i] = IF i \in N THEN -items[i].quantity ELSE 0
  BY <1>1
<1>7. SumSeq(f) = -Total(items, N)
  BY <1>5, <1>6, ItemSums
<1>8. SumSeq(g) <= 0
  <2>1. \A i \in 1..Len(items) : items[i].quantity \in Nat \ {0}
    BY DEF AskSome
  <2>2. ASSUME NEW i \in 1..Len(moves) PROVE moves[i].aed <= 0
    <3>1. moves[i].qty < 0
      BY <2>1
    <3> QED
      BY <3>1 DEF AllWellFormed, WellFormed
  <2>3. \A i \in 1..Len(g) : g[i] <= 0
    BY <1>2, <1>5, <2>2
  <2> QED
    BY <1>5, <2>3, SumSeqNotPositive
<1>9. Total(items, N) = 0 => Nothing(moves, S)
  <2>1. SUFFICES ASSUME Total(items, N) = 0 PROVE Nothing(moves, S)
    OBVIOUS
  <2>2. \A i \in 1..Len(items) : i \notin N
    BY <2>1, TotalFacts
  <2>3. \A i \in 1..Len(moves) : moves[i] \notin S
    BY <2>2
  <2> QED
    BY <2>3, NothingOutside
<1> QED
  BY <1>3, <1>7, <1>8, <1>9

\* The row of an item of refund r.
BackRow(row, item, r, lns, at) ==
    /\ row.stype = "PURCHASE_REFUND" /\ row.sid = r
    /\ row.line = item.line /\ row.product = lns[item.line].product
    /\ row.qty = -item.quantity
    /\ item.source = "PENDING" => row.bucket = "PENDING" /\ row.loc = at
    /\ item.source = "RECEIVED" => row.bucket = "PHYSICAL" /\ row.loc = item.location

\* The rows of the items of refund r; what is cancelled goes with its share.
BackRows(moves, items, r, lns, at, rows) ==
    /\ moves \in Seq(Rows) /\ Len(moves) = Len(items) /\ AllWellFormed(moves)
    /\ \A i \in 1..Len(items) : BackRow(moves[i], items[i], r, lns, at)
    /\ \A i \in 1..Len(items) :
          items[i].source = "PENDING" => moves[i].aed = ValueOut(items[i], rows)

\* What a refund of these items brings.
BringsBack(items, l) == [loc \in Locations |-> -Total(items, OnAt(items, l, loc))]

\* The rows of a refund do what its items say.
LEMMA BackRowsTraced ==
    ASSUME NEW m, NEW items \in Seq(BackItems(m)), AskSome(items),
           NEW moves, NEW r, NEW lns, NEW at, NEW rows, BackRows(moves, items, r, lns, at, rows),
           NEW l
    PROVE  Traced(moves, Of("PURCHASE_REFUND", r, l), Total(items, OnFrom(items, l, "PENDING")),
                  -Total(items, OnFrom(items, l, "RECEIVED")), BringsBack(items, l))
<1>1. PICK T : T = Of("PURCHASE_REFUND", r, l)
  OBVIOUS
<1>2. /\ moves \in Seq(Rows) /\ Len(moves) = Len(items) /\ AllWellFormed(moves)
      /\ \A i \in 1..Len(items) : BackRow(moves[i], items[i], r, lns, at)
      /\ \A i \in 1..Len(items) : moves[i].qty = -items[i].quantity
  BY DEF BackRows, BackRow
<1>3. \A i \in 1..Len(items) : /\ items[i].source \in RefundSources
                               /\ items[i].location \in Locations
                               /\ moves[i] \in Rows
  <2>1. \A i \in 1..Len(items) : items[i] \in BackItems(m)
    OBVIOUS
  <2> QED
    BY <1>2, <2>1 DEF BackItems
<1>4. ASSUME NEW i \in 1..Len(items)
      PROVE  /\ moves[i] \in T <=> items[i].line = l
             /\ moves[i] \in Pend <=> items[i].source = "PENDING"
             /\ moves[i] \in Phys <=> items[i].source = "RECEIVED"
             /\ \A loc : moves[i] \in PhysAt(loc) <=>
                            items[i].source = "RECEIVED" /\ items[i].location = loc
  <2>1. PICK row, item : row \in Rows /\ row = moves[i] /\ item = items[i]
    BY <1>3
  <2>2. BackRow(row, item, r, lns, at) /\ item.source \in {"PENDING", "RECEIVED"}
    BY <1>2, <1>3, <2>1 DEF RefundSources
  <2>6. row \in Rows
    BY <2>1
  <2>3. row \in T <=> item.line = l
    <3>1. row.stype = "PURCHASE_REFUND" /\ row.sid = r /\ row.line = item.line
      BY <2>2 DEF BackRow
    <3> QED
      BY <1>1, <2>6, <3>1 DEF Of, OnLine, PurchaseSources
  <2>4. /\ row \in Pend <=> item.source = "PENDING"
        /\ row \in Phys <=> item.source = "RECEIVED"
    <3>1. /\ item.source = "PENDING" => row.bucket = "PENDING"
          /\ item.source = "RECEIVED" => row.bucket = "PHYSICAL"
      BY <2>2 DEF BackRow
    <3> QED
      BY <2>2, <2>6, <3>1 DEF Pend, Phys, BucketRows
  <2>5. \A loc : row \in PhysAt(loc) <=> item.source = "RECEIVED" /\ item.location = loc
    BY <2>2, <2>4 DEF BackRow, PhysAt
  <2> QED
    BY <2>1, <2>3, <2>4, <2>5
<1>5. PICK N, R : N = OnFrom(items, l, "PENDING") /\ R = OnFrom(items, l, "RECEIVED")
  OBVIOUS
<1>6. /\ \A i \in 1..Len(items) : moves[i] \in T \intersect Pend <=> i \in N
      /\ \A i \in 1..Len(items) : moves[i] \in T \intersect Phys <=> i \in R
      /\ \A loc : \A i \in 1..Len(items) :
            moves[i] \in T \intersect PhysAt(loc) <=> i \in OnAt(items, l, loc)
  BY <1>4, <1>5 DEF OnFrom, On, OnAt
<1>7. /\ NetIn(moves, T \intersect Pend).qty = -Total(items, N)
      /\ NetIn(moves, T \intersect Pend).aed <= 0
      /\ Total(items, N) = 0 => Nothing(moves, T \intersect Pend)
  <2>1. PICK S : S = T \intersect Pend
    OBVIOUS
  <2> QED
    BY <1>2, <1>6, <2>1, NetByItems
<1>8. NetIn(moves, T \intersect Phys).qty = -Total(items, R)
  <2>1. PICK S : S = T \intersect Phys
    OBVIOUS
  <2> QED
    BY <1>2, <1>6, <2>1, NetByItems
<1>9. ASSUME NEW loc \in Locations
      PROVE  /\ NetIn(moves, T \intersect PhysAt(loc)).qty = BringsBack(items, l)[loc]
             /\ BringsBack(items, l)[loc] >= 0 => NetIn(moves, T \intersect PhysAt(loc)).aed >= 0
             /\ BringsBack(items, l)[loc] = 0 => Nothing(moves, T \intersect PhysAt(loc))
  <2>1. PICK S, M : S = T \intersect PhysAt(loc) /\ M = OnAt(items, l, loc)
    OBVIOUS
  <2>2. \A i \in 1..Len(items) : moves[i] \in S <=> i \in M
    BY <1>6, <2>1
  <2>3. NetIn(moves, S).qty = -Total(items, M) /\ (Total(items, M) = 0 => Nothing(moves, S))
    BY <1>2, <2>2, NetByItems
  <2>4. PICK n \in Nat : n = Total(items, M)
    BY TotalFacts
  <2>5. BringsBack(items, l)[loc] = -n
    BY <2>1, <2>4 DEF BringsBack
  <2>6. Nothing(moves, S) => NetIn(moves, S).aed >= 0
    <3>1. Blind(S)
      BY <1>1, <2>1, SetsBlind, BlindParts
    <3> QED
      BY <3>1 DEF Nothing, NoStock
  <2> QED
    BY <2>1, <2>3, <2>4, <2>5, <2>6
<1>10. Total(items, N) = 0 /\ (\A loc \in Locations : BringsBack(items, l)[loc] = 0)
          => Nothing(moves, T)
  <2>1. SUFFICES ASSUME Total(items, N) = 0,
                        \A loc \in Locations : BringsBack(items, l)[loc] = 0
                 PROVE  Nothing(moves, T)
    OBVIOUS
  <2>2. ASSUME NEW i \in 1..Len(items), moves[i] \in T PROVE FALSE
    <3>1. items[i].line = l
      BY <1>4, <2>2
    <3>2. CASE items[i].source = "PENDING"
      <4>1. i \in N
        BY <1>5, <3>1, <3>2 DEF OnFrom, On
      <4> QED
        BY <2>1, <4>1, TotalFacts
    <3>3. CASE items[i].source = "RECEIVED"
      <4>1. PICK loc \in Locations : loc = items[i].location
        BY <1>3
      <4>a. PICK M : M = OnAt(items, l, loc)
        OBVIOUS
      <4>2. PICK n \in Nat : M = OnAt(items, l, loc) /\ n = Total(items, M)
        BY <4>a, TotalFacts
      <4>3. BringsBack(items, l)[loc] = -n
        BY <4>2 DEF BringsBack
      <4>4. n = 0
        BY <2>1, <4>3
      <4>5. i \in M
        BY <3>1, <3>3, <4>1, <4>2 DEF OnAt, OnFrom, On
      <4> QED
        BY <4>2, <4>4, <4>5, TotalFacts
    <3> QED
      BY <1>3, <3>2, <3>3 DEF RefundSources
  <2>3. \A i \in 1..Len(moves) : moves[i] \notin T
    BY <1>2, <2>2
  <2> QED
    BY <1>2, <2>3, NothingOutside
<1> QED
  BY <1>1, <1>5, <1>7, <1>8, <1>9, <1>10 DEF Traced

\* Items that cancel of a purchase's lines no more than is left.
RefundAsks(items, p, rows, lns, cs, rs) ==
    /\ \A i \in 1..Len(items) :
          /\ lns[items[i].line].purchase = p
          /\ ~lns[items[i].line].is_deleted
          /\ items[i].source = "PENDING" =>
                /\ items[i].quantity <= PendOf(rows, items[i].line).qty
                /\ items[i].quantity <= Pending(lns, cs, rs, items[i].line)
                      - PrefixSums(Asked(items, OnFrom(items, items[i].line, "PENDING")))[i - 1]
    /\ RepeatedLines \/ OneLineEach(items)

RefundOf(p, items) == [purchase |-> p, is_deleted |-> FALSE, lines |-> items]

\* The pending value of a line stays with its pending units.
LEMMA RefundClean ==
    ASSUME NEW m, NEW items \in Seq(BackItems(m)), AskSome(items), OneLineEach(items),
           NEW rows \in Seq(Rows), NEW moves, NEW r, NEW lns, NEW at,
           BackRows(moves, items, r, lns, at, rows),
           NEW p, NEW cs, NEW rs, RefundAsks(items, p, rows, lns, cs, rs),
           NEW l, Clean(PendOf(rows, l))
    PROVE  Clean(PendOf(rows \o moves, l))
<1>1. /\ moves \in Seq(Rows) /\ Len(moves) = Len(items)
      /\ \A i \in 1..Len(items) : BackRow(moves[i], items[i], r, lns, at)
      /\ \A i \in 1..Len(items) :
            items[i].source = "PENDING" => moves[i].aed = ValueOut(items[i], rows)
  BY DEF BackRows
<1>2. \A i \in 1..Len(items) : items[i].source \in RefundSources
  <2>1. \A i \in 1..Len(items) : items[i] \in BackItems(m)
    OBVIOUS
  <2> QED
    BY <2>1 DEF BackItems
<1>3. PICK S : S = OnLine(l) \intersect Pend
  OBVIOUS
<1>4. \A i \in 1..Len(moves) : moves[i] \in S => items[i].line = l /\ items[i].source = "PENDING"
  <2>1. ASSUME NEW i \in 1..Len(moves), moves[i] \in S
        PROVE  items[i].line = l /\ items[i].source = "PENDING"
    <3>1. moves[i].line = l /\ moves[i].bucket = "PENDING"
      BY <1>3, <2>1 DEF OnLine, Pend, BucketRows
    <3>2. BackRow(moves[i], items[i], r, lns, at) /\ items[i].source \in {"PENDING", "RECEIVED"}
      BY <1>1, <1>2 DEF RefundSources
    <3> QED
      BY <3>1, <3>2 DEF BackRow
  <2> QED
    BY <2>1
<1>5. CASE \A i \in 1..Len(moves) : moves[i] \notin S
  <2>1. NetIn(rows \o moves, S) = NetIn(rows, S)
    BY <1>1, <1>5, OutsideSame
  <2> QED
    BY <1>3, <2>1 DEF PendOf
<1>6. ASSUME NEW i \in 1..Len(moves), moves[i] \in S PROVE Clean(PendOf(rows \o moves, l))
  <2>1. items[i].line = l /\ items[i].source = "PENDING" /\ i \in 1..Len(items)
    BY <1>1, <1>4, <1>6
  <2>2. \A j \in 1..Len(moves) : moves[j] \in S <=> j = i
    <3>1. ASSUME NEW j \in 1..Len(moves), moves[j] \in S PROVE j = i
      <4>1. items[j].line = items[i].line
        BY <1>4, <2>1, <3>1
      <4> QED
        BY <1>1, <2>1, <4>1 DEF OneLineEach
    <3> QED
      BY <1>6, <3>1
  <2>3. NetIn(moves, S) = [qty |-> moves[i].qty, aed |-> moves[i].aed]
    BY <1>1, <2>2, NetInOne
  <2>4. PICK rest \in [qty: Int, aed: Int] : rest = PendOf(rows, l)
    BY NetInType DEF PendOf
  <2>5. PICK q \in Nat \ {0} : q = items[i].quantity /\ q <= rest.qty
    BY <2>1, <2>4 DEF AskSome, RefundAsks
  <2>6. moves[i].qty = -q /\ moves[i].aed = -ShareOf(q, rest)
    BY <1>1, <2>1, <2>4, <2>5 DEF BackRow, ValueOut
  <2>7. PendOf(rows \o moves, l) = Plus(rest, [qty |-> -q, aed |-> -ShareOf(q, rest)])
    <3>1. NetIn(rows \o moves, S) = Plus(NetIn(rows, S), NetIn(moves, S))
      BY <1>1, NetInConcat
    <3> QED
      BY <1>3, <2>3, <2>4, <2>6, <3>1 DEF PendOf
  <2> QED
    BY <2>4, <2>5, <2>7, CleanTaken
<1> QED
  BY <1>5, <1>6

\* So refunds keep everything in order.
LEMMA RefundGood ==
    ASSUME NEW ps, NEW lns, NEW cs, NEW rs, NEW rows, Good(rows, ps, lns, cs, rs),
           NEW p \in 1..Len(ps), ~ps[p].is_deleted,
           NEW items \in Seq(BackItems(Len(lns))), RefundAsks(items, p, rows, lns, cs, rs),
           NEW moves, BackRows(moves, items, Len(rs) + 1, lns, ps[p].location, rows)
    PROVE  Good(rows \o moves, ps, lns, cs, Append(rs, RefundOf(p, items)))
<1>1. /\ TablesFit(ps, lns, cs, rs) /\ TablesTyped(ps, lns, cs, rs)
      /\ rows \in Seq(Rows) /\ RowsFit(rows, ps, lns, cs, rs)
      /\ LinesGood(rows, ps, lns, cs, rs)
  BY DEF Good, TablesFit
<1>2. PICK r, at : r = Len(rs) + 1 /\ at = ps[p].location
  OBVIOUS
<1>3. r \in Nat /\ Len(rs) \in Nat
  BY <1>1, <1>2, TableTypes
<1>4. PICK rec : rec = RefundOf(p, items)
  OBVIOUS
<1>5. /\ rec.purchase = p /\ ~rec.is_deleted /\ rec.lines = items
      /\ rec \in RefundRecords(Len(ps), Len(lns))
  BY <1>4 DEF RefundOf, RefundRecords
<1>6. PICK now : now = Append(rs, rec)
  OBVIOUS
<1>7. /\ Len(now) = r /\ TablesTyped(ps, lns, cs, now) /\ now[r] = rec
      /\ \A k \in 1..Len(rs) : now[k] = rs[k]
      /\ \A k \in 1..Len(now) : k \in 1..Len(rs) \/ k = r
  <2>0. TablesTyped(ps, lns, cs, rs)
    BY <1>1
  <2>1. /\ Len(now) = r /\ TablesTyped(ps, lns, cs, now) /\ now[r] = rec
        /\ \A k \in 1..Len(rs) : now[k] = rs[k]
    BY <2>0, <1>2, <1>5, <1>6, OneMoreRefund
  <2> QED
    BY <1>2, <1>3, <2>1
<1>8. ASSUME NEW l
      PROVE  /\ \A k \in 1..Len(rs) :
                   /\ \A source : Back(now, k, l, source) = Back(rs, k, l, source)
                   /\ \A loc : BackAt(now, k, l, loc) = BackAt(rs, k, l, loc)
             /\ BackAll(now, l, "PENDING") = BackAll(rs, l, "PENDING") + Back(now, r, l, "PENDING")
             /\ \A source : Back(now, r, l, source) = Total(items, OnFrom(items, l, source))
             /\ BackFrom(now, r, l) = BringsBack(items, l)
  <2>1. /\ \A k \in 1..Len(rs) :
              /\ \A source : Back(now, k, l, source) = Back(rs, k, l, source)
              /\ \A loc : BackAt(now, k, l, loc) = BackAt(rs, k, l, loc)
        /\ BackAll(now, l, "PENDING") = BackAll(rs, l, "PENDING") + Back(now, r, l, "PENDING")
    BY <1>1, <1>2, <1>5, <1>6, OneMoreRefund
  <2>2. \A source : Back(now, r, l, source) = Total(items, OnFrom(items, l, source))
    BY <1>5, <1>7 DEF Back
  <2>3. BackFrom(now, r, l) = BringsBack(items, l)
    BY <1>5, <1>7 DEF BackFrom, BackAt, BringsBack
  <2> QED
    BY <2>1, <2>2, <2>3
<1>9. /\ AskSome(items)
      /\ \A i \in 1..Len(items) : items[i].line \in 1..Len(lns)
  <2>1. \A item \in BackItems(Len(lns)) : item.quantity \in Nat \ {0} /\ item.line \in 1..Len(lns)
    BY QuantitiesAssumption DEF BackItems
  <2>2. \A i \in 1..Len(items) : items[i] \in BackItems(Len(lns))
    OBVIOUS
  <2> QED
    BY <2>1, <2>2 DEF AskSome
<1>10. \A i \in 1..Len(items) : lns[items[i].line].purchase = p /\ ~lns[items[i].line].is_deleted
  BY DEF RefundAsks
<1>11. TablesFit(ps, lns, cs, now)
  <2>1. NamesOwn(now, lns)
    <3>1. ASSUME NEW k \in 1..Len(now), NEW i \in 1..Len(now[k].lines)
          PROVE  lns[now[k].lines[i].line].purchase = now[k].purchase
      <4>1. CASE k \in 1..Len(rs)
        BY <1>1, <1>7, <4>1 DEF TablesFit, NamesOwn
      <4>2. CASE k = r
        BY <1>5, <1>7, <1>10, <4>2
      <4> QED
        BY <1>7, <4>1, <4>2
    <3> QED
      BY <3>1 DEF NamesOwn
  <2>2. GoneWith(now, ps)
    <3>1. ASSUME NEW k \in 1..Len(now), ps[now[k].purchase].is_deleted
          PROVE  now[k].is_deleted
      <4>1. CASE k \in 1..Len(rs)
        BY <1>1, <1>7, <3>1, <4>1 DEF TablesFit, GoneWith
      <4>2. CASE k = r
        BY <1>5, <1>7, <3>1, <4>2
      <4> QED
        BY <1>7, <4>1, <4>2
    <3> QED
      BY <3>1 DEF GoneWith
  <2> QED
    BY <1>1, <1>7, <2>1, <2>2 DEF TablesFit
<1>12. BackRows(moves, items, r, lns, at, rows)
  BY <1>2
<1>13. moves \in Seq(Rows) /\ Len(moves) = Len(items) /\ Len(moves) \in Nat
  BY <1>12 DEF BackRows
<1>14. \A k \in 1..Len(moves) :
          /\ moves[k].stype = "PURCHASE_REFUND" /\ moves[k].sid = r
          /\ moves[k].line \in 1..Len(lns) /\ lns[moves[k].line].purchase = p
          /\ ~lns[moves[k].line].is_deleted
          /\ moves[k].product = lns[moves[k].line].product
          /\ (moves[k].bucket = "PENDING" /\ moves[k].loc = at) \/ moves[k].bucket = "PHYSICAL"
  <2>1. ASSUME NEW k \in 1..Len(moves)
        PROVE  /\ moves[k].stype = "PURCHASE_REFUND" /\ moves[k].sid = r
               /\ moves[k].line \in 1..Len(lns) /\ lns[moves[k].line].purchase = p
               /\ ~lns[moves[k].line].is_deleted
               /\ moves[k].product = lns[moves[k].line].product
               /\ (moves[k].bucket = "PENDING" /\ moves[k].loc = at) \/ moves[k].bucket = "PHYSICAL"
    <3>1. PICK item, row : item = items[k] /\ row = moves[k]
      OBVIOUS
    <3>2. BackRow(row, item, r, lns, at) /\ k \in 1..Len(items)
      BY <1>12, <1>13, <3>1 DEF BackRows
    <3>3. item.source = "PENDING" \/ item.source = "RECEIVED"
      <4>1. items[k] \in BackItems(Len(lns))
        BY <3>2
      <4> QED
        BY <3>1, <4>1 DEF BackItems, RefundSources
    <3>4. item.line \in 1..Len(lns) /\ lns[item.line].purchase = p /\ ~lns[item.line].is_deleted
      BY <1>9, <1>10, <3>1, <3>2
    <3> QED
      BY <3>1, <3>2, <3>3, <3>4 DEF BackRow
  <2> QED
    BY <2>1
<1>15. rows \o moves \in Seq(Rows) /\ RowsFit(rows \o moves, ps, lns, cs, now)
  <2>1. TablesKeep(ps, lns, cs, rs, ps, lns, cs, now)
    <3>1. Len(rs) <= Len(now) /\ Len(lns) <= Len(lns) /\ Len(cs) <= Len(cs)
      BY <1>1, <1>2, <1>3, <1>7, TableTypes
    <3> QED
      BY <1>7, <3>1 DEF TablesKeep
  <2>2. RowsFit(rows, ps, lns, cs, now)
    BY <1>1, <1>7, <2>1, RowsFitKept
  <2>3. r \in 1..Len(now) /\ now[r].purchase = p
    BY <1>2, <1>3, <1>5, <1>7
  <2>4. RowsFit(moves, ps, lns, cs, now)
    <3>1. ASSUME NEW k \in 1..Len(moves) PROVE RowFits(moves[k], ps, lns, cs, now)
      <4>1. PICK row : row = moves[k]
        OBVIOUS
      <4>2. /\ row.stype = "PURCHASE_REFUND" /\ row.sid = r
            /\ row.line \in 1..Len(lns) /\ lns[row.line].purchase = p
            /\ (row.bucket = "PENDING" /\ row.loc = at) \/ row.bucket = "PHYSICAL"
        BY <1>14, <4>1
      <4>3. RowFits(row, ps, lns, cs, now)
        BY <1>2, <2>3, <4>2 DEF OwnRowFits, RowFits, PurchaseSources
      <4> QED
        BY <4>1, <4>3
    <3> QED
      BY <3>1 DEF RowsFit
  <2> QED
    BY <1>1, <1>13, <2>2, <2>4, RowsFitMore, ConcatParts
<1>16. /\ \A l, u, x : u # "PURCHASE_REFUND" \/ x # r => Nothing(moves, Of(u, x, l))
       /\ \A l : (\A k \in 1..Len(moves) : moves[k].line # l) => Nothing(moves, OnLine(l))
  <2>1. ASSUME NEW l, NEW u, NEW x, u # "PURCHASE_REFUND" \/ x # r
        PROVE  Nothing(moves, Of(u, x, l))
    <3>1. \A k \in 1..Len(moves) : moves[k] \notin Of(u, x, l)
      BY <1>14, <2>1 DEF Of
    <3> QED
      BY <1>13, <3>1, NothingOutside
  <2>2. ASSUME NEW l, \A k \in 1..Len(moves) : moves[k].line # l PROVE Nothing(moves, OnLine(l))
    <3>1. \A k \in 1..Len(moves) : moves[k] \notin OnLine(l)
      BY <2>2 DEF OnLine
    <3> QED
      BY <1>13, <3>1, NothingOutside
  <2> QED
    BY <2>1, <2>2
<1>17. ASSUME NEW l \in 1..Len(lns) PROVE LineGood(rows \o moves, ps, lns, cs, now, l)
  <2>1. LineGood(rows, ps, lns, cs, rs, l)
    BY <1>1 DEF LinesGood
  <2>2. CASE lns[l].is_deleted
    <3>1. Nothing(moves, OnLine(l))
      BY <1>14, <1>16, <2>2
    <3>2. Returned(rs, l) => Returned(now, l)
      <4>1. SUFFICES ASSUME Returned(rs, l) PROVE Returned(now, l)
        OBVIOUS
      <4>2. PICK k \in 1..Len(rs) : \E i \in 1..Len(rs[k].lines) :
               rs[k].lines[i].line = l /\ rs[k].lines[i].source = "RECEIVED"
        BY <4>1 DEF Returned
      <4>3. k \in 1..Len(now) /\ now[k] = rs[k]
        BY <1>2, <1>3, <1>7
      <4> QED
        BY <4>2, <4>3 DEF Returned
    <3> QED
      BY <1>1, <1>13, <2>1, <2>2, <3>1, <3>2, DeadKept
  <2>3. CASE ~lns[l].is_deleted
    <3>1. /\ Nothing(rows, OnLine(l) \ OfProduct(lns[l].product))
          /\ ~RepeatedLines => Clean(NetIn(rows, OnLine(l) \intersect Pend))
          /\ LiveLine(rows, lns, cs, rs, l)
      BY <2>1, <2>3 DEF LineGood
    <3>2. Nothing(rows \o moves, OnLine(l) \ OfProduct(lns[l].product))
      BY <1>1, <1>13, <1>14, <3>1, ProductKept
    <3>3. ~RepeatedLines => Clean(NetIn(rows \o moves, OnLine(l) \intersect Pend))
      <4>1. SUFFICES ASSUME ~RepeatedLines PROVE Clean(PendOf(rows \o moves, l))
        BY DEF PendOf
      <4>2. Clean(PendOf(rows, l))
        BY <3>1, <4>1 DEF PendOf
      <4>3. OneLineEach(items)
        BY <4>1 DEF RefundAsks
      <4> QED
        BY <1>1, <1>9, <1>12, <4>2, <4>3, RefundClean
    <3>4. LiveLine(rows \o moves, lns, cs, now, l)
      <4>1. Nothing(moves, Of("PURCHASE", lns[l].purchase, l))
        BY <1>16
      <4>2. ASSUME NEW k \in 1..Len(now)
            PROVE  RefundStays(rs, now, k, l, moves) \/ RefundTraced(rows \o moves, now, k, l)
        <5>1. CASE k \in 1..Len(rs)
          <6>1. k # r
            BY <1>2, <1>3, <5>1
          <6> QED
            BY <1>8, <1>16, <5>1, <6>1 DEF RefundStays
        <5>2. CASE k = r
          <6>1. Nothing(rows, Of("PURCHASE_REFUND", r, l))
            <7>1. \A i \in 1..Len(rows) : rows[i] \notin Of("PURCHASE_REFUND", r, l)
              <8>1. ASSUME NEW i \in 1..Len(rows), rows[i] \in Of("PURCHASE_REFUND", r, l)
                    PROVE  FALSE
                <9>1. rows[i].stype = "PURCHASE_REFUND" /\ rows[i].sid = r
                  BY <8>1 DEF Of
                <9>2. rows[i].sid \in 1..Len(rs)
                  BY <1>1, <9>1 DEF RowsFit, OwnRowFits, RowFits, PurchaseSources
                <9> QED
                  BY <1>2, <1>3, <9>1, <9>2
              <8> QED
                BY <8>1
            <7> QED
              BY <1>1, <7>1, NothingOutside
          <6>2. PICK out, all, from : /\ out = Total(items, OnFrom(items, l, "PENDING"))
                                      /\ all = -Total(items, OnFrom(items, l, "RECEIVED"))
                                      /\ from = BringsBack(items, l)
            OBVIOUS
          <6>3. Traced(moves, Of("PURCHASE_REFUND", r, l), out, all, from)
            BY <1>9, <1>12, <6>2, BackRowsTraced
          <6>4. Traced(rows \o moves, Of("PURCHASE_REFUND", r, l), out, all, from)
            BY <1>1, <1>13, <6>1, <6>3, SetsBlind, FirstTraced
          <6> QED
            BY <1>8, <5>2, <6>2, <6>4 DEF RefundTraced
        <5> QED
          BY <1>7, <5>1, <5>2
      <4>3. ASSUME NEW c \in 1..Len(cs) PROVE CollectionStays(cs, cs, c, l, moves)
        BY <1>16 DEF CollectionStays
      <4>4. Pending(lns, cs, now, l) >= 0
        <5>1. PICK most \in Nat : most = Pending(lns, cs, rs, l)
          <6>1. TookAll(cs, l) \in Nat /\ BackAll(rs, l, "PENDING") \in Nat
            BY <1>1, AmountTypes
          <6>2. lns[l].quantity \in Nat
            BY <1>1, TableTypes
          <6> QED
            BY <3>1, <6>1, <6>2 DEF LiveLine, Pending
        <5>2. PICK N : N = OnFrom(items, l, "PENDING")
          OBVIOUS
        <5>3. ASSUME NEW i \in 1..Len(items), i \in N
              PROVE  items[i].quantity <= most - PrefixSums(Asked(items, N))[i - 1]
          <6>1. items[i].line = l /\ items[i].source = "PENDING"
            BY <5>2, <5>3 DEF OnFrom, On
          <6> QED
            BY <5>1, <5>2, <6>1 DEF RefundAsks
        <5>4. PICK n \in Nat : n = Total(items, N)
          BY <1>9, TotalFacts
        <5>5. n <= most
          BY <1>9, <5>3, <5>4, AskedWithin
        <5>6. BackAll(now, l, "PENDING") = BackAll(rs, l, "PENDING") + n
          BY <1>8, <5>2, <5>4
        <5>7. TookAll(cs, l) \in Int /\ BackAll(rs, l, "PENDING") \in Int /\ lns[l].quantity \in Int
          BY <1>1, AmountTypes, TableTypes
        <5> QED
          BY <5>1, <5>5, <5>6, <5>7 DEF Pending
      <4> QED
        BY <1>1, <1>13, <3>1, <4>1, <4>2, <4>3, <4>4, LiveStep
    <3> QED
      BY <2>3, <3>2, <3>3, <3>4, LiveGood
  <2> QED
    BY <2>2, <2>3
<1> QED
  BY <1>4, <1>6, <1>11, <1>15, <1>17 DEF Good, LinesGood

\* A post keeps the book sound and adds its movements.
LEMMA PostStep ==
    ASSUME Inv, NEW moves, NEW confirm, Post(moves, confirm)
    PROVE  /\ moves \in Seq(Rows) /\ AllWellFormed(moves)
           /\ ledger' = ledger \o moves /\ Sound(Book)'
<1>1. moves \in Seq(Rows) /\ ledger' = ledger \o moves
  BY PostFacts
<1>2. Sound(Book)'
  BY PostSound DEF Inv
<1>3. AllWellFormed(moves)
  BY <1>1 DEF Post, CanPost, ValidMovements, AllWellFormed
<1> QED
  BY <1>1, <1>2, <1>3

\* Refunding and cancelling keep the invariant (create_refund).
LEMMA RefundStep ==
    ASSUME Inv, Refund
    PROVE  Inv'
<1>1. PICK p \in DOMAIN purchases, items \in Requests(RefundItems), confirm \in Confirms :
         (RepeatedLines \/ OneLineEach(items)) /\ CreateRefund(p, items, confirm)
  BY DEF Refund
<1>2. /\ Sound(Book) /\ drafts \subseteq Products \X Locations
      /\ Good(ledger, purchases, lines, collections, refunds)
      /\ TablesTyped(purchases, lines, collections, refunds)
      /\ ledger \in Seq(Rows)
  BY DEF Inv, Good, TablesFit
<1>3. p \in 1..Len(purchases) /\ items \in Seq(BackItems(Len(lines))) /\ DOMAIN items = 1..Len(items)
  <2>1. DOMAIN purchases = 1..Len(purchases) /\ DOMAIN lines = 1..Len(lines)
    BY <1>2 DEF TablesTyped
  <2>2. RefundItems = BackItems(Len(lines))
    BY <2>1 DEF RefundItems, BackItems
  <2> QED
    BY <1>1, <2>1, <2>2, RequestLists
<1>4. PICK r : r = Len(refunds) + 1
  OBVIOUS
<1>5. PICK moves : moves = [i \in DOMAIN items |-> RefundMove(r, items[i])]
  OBVIOUS
<1>6. /\ ~purchases[p].is_deleted /\ CanRefund(p, items) /\ Post(moves, confirm)
      /\ refunds' = Append(refunds, RefundOf(p, items))
      /\ UNCHANGED <<purchases, lines, collections, drafts>>
  BY <1>1, <1>4, <1>5 DEF CreateRefund, RefundOf
<1>7. /\ moves \in Seq(Rows) /\ AllWellFormed(moves)
      /\ ledger' = ledger \o moves /\ Sound(Book)'
  BY <1>6, PostStep
<1>8. Len(moves) = Len(items)
  <2>1. DOMAIN moves = 1..Len(items) /\ Len(items) \in Nat
    BY <1>3, <1>5
  <2> QED
    BY <1>7, <2>1
<1>9. AskSome(items) /\ \A i \in 1..Len(items) : items[i] \in BackItems(Len(lines))
  <2>1. \A item \in BackItems(Len(lines)) : item.quantity \in Nat \ {0}
    BY QuantitiesAssumption DEF BackItems
  <2>2. \A i \in 1..Len(items) : items[i] \in BackItems(Len(lines))
    BY <1>3
  <2> QED
    BY <2>1, <2>2 DEF AskSome
<1>10. \A l : /\ PendingQty(lines, l) = Pending(lines, collections, refunds, l)
              /\ PendingRemainder(ledger, l) = PendOf(ledger, l)
  BY <1>2, RecordsSay, SumsAreNets DEF TablesTyped, PendOf
<1>11. RefundAsks(items, p, ledger, lines, collections, refunds)
  <2>1. ASSUME NEW i \in 1..Len(items)
        PROVE  /\ lines[items[i].line].purchase = p
               /\ ~lines[items[i].line].is_deleted
               /\ items[i].source = "PENDING" =>
                     /\ items[i].quantity <= PendOf(ledger, items[i].line).qty
                     /\ items[i].quantity <= Pending(lines, collections, refunds, items[i].line)
                           - PrefixSums(Asked(items, OnFrom(items, items[i].line, "PENDING")))[i - 1]
    <3>1. PICK l, item : l = items[i].line /\ item = items[i]
      OBVIOUS
    <3>2. /\ lines[l].purchase = p /\ ~lines[l].is_deleted
          /\ item.source = "PENDING" =>
                /\ item.quantity <= PendingQty(lines, l)
                      - AskedBefore(items, i, LAMBDA x : x.source = "PENDING")
                /\ item.quantity <= PendingRemainder(ledger, l).qty
      BY <1>3, <1>6, <3>1 DEF CanRefund
    <3>3. AskedBefore(items, i, LAMBDA x : x.source = "PENDING")
             = PrefixSums(Asked(items, OnFrom(items, l, "PENDING")))[i - 1]
      BY <1>3, <1>9, <3>1, AskedIs
    <3> QED
      BY <1>10, <3>1, <3>2, <3>3
  <2> QED
    BY <1>1, <2>1 DEF RefundAsks
<1>12. BackRows(moves, items, r, lines, purchases[p].location, ledger)
  <2>1. ASSUME NEW i \in 1..Len(items)
        PROVE  /\ BackRow(moves[i], items[i], r, lines, purchases[p].location)
               /\ items[i].source = "PENDING" => moves[i].aed = ValueOut(items[i], ledger)
    <3>1. PICK item, l, q : item = items[i] /\ l = item.line /\ q = item.quantity
      OBVIOUS
    <3>2. moves[i] = RefundMove(r, item)
      BY <1>3, <1>5, <3>1
    <3>3. lines[l].purchase = p
      BY <1>11, <3>1 DEF RefundAsks
    <3>4. CASE item.source = "PENDING"
      <4>1. PICK a : a = ShareOf(q, PendingRemainder(ledger, l))
        OBVIOUS
      <4>2. moves[i] = LineMove("PURCHASE_REFUND", r, l, lines[l].product, purchases[p].location,
                                "PENDING", -q, -a)
        BY <3>1, <3>2, <3>3, <3>4, <4>1 DEF RefundMove, PendingOut
      <4>3. BackRow(moves[i], item, r, lines, purchases[p].location)
        BY <3>1, <3>4, <4>2 DEF BackRow, LineMove
      <4>4. moves[i].aed = ValueOut(item, ledger)
        BY <1>10, <3>1, <4>1, <4>2 DEF LineMove, ValueOut
      <4> QED
        BY <3>1, <4>3, <4>4
    <3>5. CASE item.source # "PENDING"
      <4>1. PICK a : a = ShareOf(q, PhysicalRemainder(ledger, l, item.location))
        OBVIOUS
      <4>2. moves[i] = LineMove("PURCHASE_REFUND", r, l, lines[l].product, item.location,
                                "PHYSICAL", -q, -a)
        BY <3>1, <3>2, <3>5, <4>1 DEF RefundMove
      <4>3. BackRow(moves[i], item, r, lines, purchases[p].location)
        BY <3>1, <3>5, <4>2 DEF BackRow, LineMove
      <4> QED
        BY <3>1, <3>5, <4>3
    <3> QED
      BY <3>4, <3>5
  <2> QED
    BY <1>7, <1>8, <2>1 DEF BackRows
<1>13. Good(ledger \o moves, purchases, lines, collections, Append(refunds, RefundOf(p, items)))
  <2>1. BackRows(moves, items, Len(refunds) + 1, lines, purchases[p].location, ledger)
    BY <1>4, <1>12
  <2> QED
    BY <1>2, <1>3, <1>6, <1>11, <2>1, RefundGood
<1>14. Good(ledger', purchases', lines', collections', refunds')
  BY <1>6, <1>7, <1>13
<1> QED
  BY <1>2, <1>6, <1>7, <1>14 DEF Inv

-----------------------------------------------------------------------------
(* Undone records *)

\* Movements that take back leave alone what was already nothing.
LEMMA TakesBackNothing ==
    ASSUME NEW rows, NEW moves, NEW T, Blind(T), TakesBack(rows, moves, T),
           NEW U, Nothing(rows, U)
    PROVE  Nothing(moves, U)
<1>1. moves \in Seq(Rows)
  BY DEF TakesBack
<1>2. ASSUME NEW S, Blind(S), S \subseteq U PROVE NetIn(moves, S) = NoStock
  <2>1. Plus(NetIn(rows, S \intersect T), NetIn(moves, S)) = NoStock
    BY <1>2 DEF TakesBack
  <2>2. Blind(S \intersect T) /\ S \intersect T \subseteq U
    BY <1>2, BlindParts
  <2>3. NetIn(rows, S \intersect T) = NoStock
    BY <2>2 DEF Nothing
  <2>4. PICK x \in [qty: Int, aed: Int] : x = NetIn(moves, S)
    BY <1>1, NetInType
  <2> QED
    BY <2>1, <2>3, <2>4 DEF Plus, NoStock
<1> QED
  BY <1>2 DEF Nothing

\* They are rows like those they take back.
LEMMA TakesBackFits ==
    ASSUME NEW ps, NEW lns, NEW cs, NEW rs, NEW rows \in Seq(Rows), RowsFit(rows, ps, lns, cs, rs),
           NEW moves, NEW T, TakesBack(rows, moves, T)
    PROVE  RowsFit(moves, ps, lns, cs, rs)
<1>1. ASSUME NEW k \in 1..Len(moves) PROVE RowFits(moves[k], ps, lns, cs, rs)
  <2>1. PICK j \in 1..Len(rows) : SameRecord(moves[k], rows[j])
    BY DEF TakesBack
  <2>2. PICK x, y \in Rows : x = moves[k] /\ y = rows[j]
    BY DEF TakesBack
  <2>3. /\ x.stype = y.stype /\ x.sid = y.sid /\ x.line = y.line /\ KeyOf(x) = KeyOf(y)
        /\ x.loc = y.loc /\ x.bucket = y.bucket
    BY <2>1, <2>2 DEF SameRecord, KeyOf
  <2>4. RowFits(y, ps, lns, cs, rs)
    BY <2>2 DEF RowsFit
  <2>5. RowFits(x, ps, lns, cs, rs)
    BY <2>3, <2>4 DEF OwnRowFits, RowFits
  <2> QED
    BY <2>2, <2>5
<1> QED
  BY <1>1 DEF RowsFit

\* What a record of the line took comes back to the line as it was.
TakenBack(rows, moves, t, s, l) ==
    /\ Nothing(rows \o moves, Of(t, s, l))
    /\ \A u, x : u # t \/ x # s => Nothing(moves, Of(u, x, l))
    /\ NetIn(moves, OnLine(l) \intersect Pend)
          = [qty |-> -NetIn(rows, Of(t, s, l) \intersect Pend).qty,
             aed |-> -NetIn(rows, Of(t, s, l) \intersect Pend).aed]

\* What a reversal takes back of a record, seen from one line.
LEMMA TakenBackLine ==
    ASSUME NEW rows \in Seq(Rows), NEW t \in PurchaseSources, NEW s, NEW l,
           NEW moves, NEW T, Blind(T), TakesBack(rows, moves, T),
           T \intersect OnLine(l) = Of(t, s, l)
    PROVE  TakenBack(rows, moves, t, s, l)
<1>1. moves \in Seq(Rows) /\ \A k \in 1..Len(moves) : moves[k] \in T
  BY DEF TakesBack
<1>2. Nothing(rows \o moves, T)
  BY NothingLeft
<1>3. Nothing(rows \o moves, Of(t, s, l))
  <2>1. Of(t, s, l) \subseteq T
    OBVIOUS
  <2> QED
    BY <1>2, <2>1, NothingLess
<1>4. ASSUME NEW u, NEW x, u # t \/ x # s PROVE Nothing(moves, Of(u, x, l))
  <2>1. \A k \in 1..Len(moves) : moves[k] \notin Of(u, x, l)
    <3>1. ASSUME NEW k \in 1..Len(moves), moves[k] \in Of(u, x, l) PROVE FALSE
      <4>1. PICK row : row = moves[k]
        OBVIOUS
      <4>2. row \in T /\ row \in OnLine(l) /\ row.stype = u /\ row.sid = x
        BY <1>1, <3>1, <4>1 DEF Of
      <4>3. row \in Of(t, s, l)
        BY <4>2
      <4> QED
        BY <1>4, <4>2, <4>3 DEF Of
    <3> QED
      BY <3>1
  <2> QED
    BY <1>1, <2>1, NothingOutside
<1>5. PICK S, R : S = OnLine(l) \intersect Pend /\ R = Of(t, s, l) \intersect Pend
  OBVIOUS
<1>6. S \intersect T = R /\ Blind(S)
  BY <1>5, SetsBlind, BlindParts
<1>7. Plus(NetIn(rows, R), NetIn(moves, S)) = NoStock
  BY <1>6 DEF TakesBack
<1>8. PICK a \in [qty: Int, aed: Int], b \in [qty: Int, aed: Int] :
         a = NetIn(rows, R) /\ b = NetIn(moves, S)
  BY <1>1, NetInType
<1>9. b = [qty |-> -a.qty, aed |-> -a.aed]
  <2>1. b.qty = -a.qty /\ b.aed = -a.aed
    BY <1>7, <1>8 DEF Plus, NoStock
  <2> QED
    BY <2>1
<1> QED
  BY <1>3, <1>4, <1>5, <1>8, <1>9 DEF TakenBack

\* What was taken out of what is pending can come back to it.
LEMMA CleanBack ==
    ASSUME NEW rest \in [qty: Int, aed: Int], Clean(rest), rest.qty >= 0,
           NEW back \in [qty: Int, aed: Int], back.qty <= 0, back.aed <= 0,
           back.qty = 0 => back.aed = 0
    PROVE  Clean(Plus(rest, [qty |-> -back.qty, aed |-> -back.aed]))
<1>1. PICK q \in Int, a \in Int, x \in Int, y \in Int :
         q = rest.qty /\ a = rest.aed /\ x = back.qty /\ y = back.aed
  OBVIOUS
<1>2. q >= 0 /\ a >= 0 /\ (q = 0 => a = 0) /\ x <= 0 /\ y <= 0 /\ (x = 0 => y = 0)
  BY <1>1 DEF Clean
<1>3. q + (-x) = 0 => q = 0 /\ x = 0
  BY <1>2
<1>4. a + (-y) >= 0 /\ (q + (-x) = 0 => a + (-y) = 0)
  BY <1>2, <1>3
<1> QED
  BY <1>1, <1>4 DEF Clean, Plus

\* The business record was traced on every line that is not deleted.
TracedSource(rows, lns, t, s) ==
    \A l \in 1..Len(lns) : ~lns[l].is_deleted =>
        \E out \in Nat : \E all, at : Traced(rows, Of(t, s, l), out, all, at)

\* Its rows are of purchases that are not deleted.
LiveSource(rows, ps, lns, t, s) ==
    \A i \in 1..Len(rows) : rows[i] \in Source(t, s) => ~ps[lns[rows[i].line].purchase].is_deleted

\* What undoing it leaves of the tables, of the rows, and of every line that stays live.
LEMMA UndoneRows ==
    ASSUME NEW ps, NEW lns, NEW cs, NEW rs, NEW rows, Good(rows, ps, lns, cs, rs),
           NEW t \in PurchaseSources, NEW s, NEW moves, TakesBack(rows, moves, Source(t, s)),
           TracedSource(rows, lns, t, s), LiveSource(rows, ps, lns, t, s),
           NEW now, NEW then, NEW K, NEW J, TablesTyped(ps, lns, now, then),
           CollectionsMarked(cs, now, K), RefundsMarked(rs, then, J),
           \A l \in 1..Len(lns) : ~lns[l].is_deleted => LiveLine(rows \o moves, lns, now, then, l)
    PROVE  Good(rows \o moves, ps, lns, now, then)
<1>1. /\ TablesFit(ps, lns, cs, rs) /\ TablesTyped(ps, lns, cs, rs)
      /\ rows \in Seq(Rows) /\ RowsFit(rows, ps, lns, cs, rs)
      /\ LinesGood(rows, ps, lns, cs, rs)
  BY DEF Good, TablesFit
<1>2. moves \in Seq(Rows)
  BY DEF TakesBack
<1>3. /\ Len(now) = Len(cs) /\ Len(then) = Len(rs)
      /\ \A c \in 1..Len(cs) : /\ now[c].lines = cs[c].lines /\ now[c].purchase = cs[c].purchase
                               /\ cs[c].is_deleted => now[c].is_deleted
      /\ \A r \in 1..Len(rs) : /\ then[r].lines = rs[r].lines /\ then[r].purchase = rs[r].purchase
                               /\ rs[r].is_deleted => then[r].is_deleted
  BY DEF CollectionsMarked, RefundsMarked
<1>4. TablesFit(ps, lns, now, then)
  <2>3. /\ NamesOwn(cs, lns) /\ NamesOwn(rs, lns)
        /\ GoneWith(lns, ps) /\ GoneWith(cs, ps) /\ GoneWith(rs, ps)
    BY <1>1 DEF TablesFit
  <2>1. NamesOwn(now, lns) /\ NamesOwn(then, lns)
    <3>1. NamesOwn(now, lns)
      BY <1>3, <2>3 DEF NamesOwn
    <3>2. NamesOwn(then, lns)
      BY <1>3, <2>3 DEF NamesOwn
    <3> QED
      BY <3>1, <3>2
  <2>2. GoneWith(now, ps) /\ GoneWith(then, ps)
    <3>1. GoneWith(now, ps)
      BY <1>3, <2>3 DEF GoneWith
    <3>2. GoneWith(then, ps)
      BY <1>3, <2>3 DEF GoneWith
    <3> QED
      BY <3>1, <3>2
  <2> QED
    BY <2>1, <2>2, <2>3 DEF TablesFit
<1>5. RowsFit(rows \o moves, ps, lns, now, then)
  <2>1. TablesKeep(ps, lns, cs, rs, ps, lns, now, then)
    <3>1. Len(lns) <= Len(lns) /\ Len(cs) <= Len(now) /\ Len(rs) <= Len(then)
      BY <1>1, <1>3, TableTypes
    <3> QED
      BY <1>3, <3>1 DEF TablesKeep
  <2>2. RowsFit(rows, ps, lns, now, then)
    BY <1>1, <2>1, RowsFitKept
  <2>3. RowsFit(moves, ps, lns, now, then)
    BY <1>1, <2>2, TakesBackFits
  <2> QED
    BY <1>1, <1>2, <2>2, <2>3, RowsFitMore
<1>6. Blind(Source(t, s))
  BY SetsBlind
<1>7. ASSUME NEW l \in 1..Len(lns) PROVE LineGood(rows \o moves, ps, lns, now, then, l)
  <2>1. LineGood(rows, ps, lns, cs, rs, l)
    BY <1>1 DEF LinesGood
  <2>2. CASE lns[l].is_deleted
    <3>1. Nothing(moves, OnLine(l))
      <4>1. CASE ps[lns[l].purchase].is_deleted
        <5>1. ASSUME NEW k \in 1..Len(moves), moves[k] \in OnLine(l) PROVE FALSE
          <6>1. moves[k] \in Source(t, s) /\ \E j \in 1..Len(rows) : SameRecord(moves[k], rows[j])
            BY DEF TakesBack
          <6>2. PICK j \in 1..Len(rows) : SameRecord(moves[k], rows[j])
            BY <6>1
          <6>3. moves[k] \in Rows /\ rows[j] \in Rows
            BY <1>1, <1>2
          <6>4. rows[j] \in Source(t, s) /\ rows[j].line = l
            BY <5>1, <6>1, <6>2, <6>3 DEF SameRecord, Source, OnLine
          <6> QED
            BY <4>1, <6>4 DEF LiveSource
        <5> QED
          BY <1>2, <5>1, NothingOutside
      <4>2. CASE ~ps[lns[l].purchase].is_deleted
        <5>1. Nothing(rows, OnLine(l))
          BY <2>1, <2>2, <4>2 DEF LineGood
        <5> QED
          BY <1>6, <5>1, TakesBackNothing
      <4> QED
        BY <4>1, <4>2
    <3>2. Returned(rs, l) => Returned(then, l)
      BY ReturnedStays
    <3> QED
      BY <1>1, <1>2, <2>1, <2>2, <3>1, <3>2, DeadKept
  <2>3. CASE ~lns[l].is_deleted
    <3>1. /\ Nothing(rows, OnLine(l) \ OfProduct(lns[l].product))
          /\ ~RepeatedLines => Clean(NetIn(rows, OnLine(l) \intersect Pend))
          /\ LiveLine(rows, lns, cs, rs, l)
      BY <2>1, <2>3 DEF LineGood
    <3>2. Nothing(rows \o moves, OnLine(l) \ OfProduct(lns[l].product))
      <4>1. Nothing(moves, OnLine(l) \ OfProduct(lns[l].product))
        BY <1>6, <3>1, TakesBackNothing
      <4> QED
        BY <1>1, <1>2, <3>1, <4>1, NothingMore
    <3>3. ~RepeatedLines => Clean(NetIn(rows \o moves, OnLine(l) \intersect Pend))
      <4>1. SUFFICES ASSUME ~RepeatedLines
                     PROVE  Clean(NetIn(rows \o moves, OnLine(l) \intersect Pend))
        OBVIOUS
      <4>2. PICK S, R : S = OnLine(l) \intersect Pend /\ R = Of(t, s, l) \intersect Pend
        OBVIOUS
      <4>3. PICK rest \in [qty: Int, aed: Int], back \in [qty: Int, aed: Int] :
               rest = NetIn(rows, S) /\ back = NetIn(rows, R)
        BY <1>1, NetInType
      <4>4. NetIn(moves, S) = [qty |-> -back.qty, aed |-> -back.aed]
        <5>1. Source(t, s) \intersect OnLine(l) = Of(t, s, l)
          BY DEF Source, Of, OnLine
        <5>2. NetIn(moves, OnLine(l) \intersect Pend)
                 = [qty |-> -NetIn(rows, Of(t, s, l) \intersect Pend).qty,
                    aed |-> -NetIn(rows, Of(t, s, l) \intersect Pend).aed]
          <6>1. PICK T : T = Source(t, s)
            OBVIOUS
          <6>2. Blind(T) /\ TakesBack(rows, moves, T) /\ T \intersect OnLine(l) = Of(t, s, l)
            BY <1>6, <5>1, <6>1
          <6>3. TakenBack(rows, moves, t, s, l)
            BY <1>1, <6>2, TakenBackLine
          <6> QED
            BY <6>3 DEF TakenBack
        <5> QED
          BY <4>2, <4>3, <5>2
      <4>5. PICK out \in Nat : \E all, at : Traced(rows, Of(t, s, l), out, all, at)
        BY <2>3 DEF TracedSource
      <4>6. back.qty = -out /\ back.aed <= 0 /\ (out = 0 => Nothing(rows, R))
        BY <4>2, <4>3, <4>5 DEF Traced
      <4>7. out = 0 => back = NoStock
        <5>1. Blind(R)
          BY <4>2, SetsBlind, BlindParts
        <5> QED
          BY <4>3, <4>6, <5>1 DEF Nothing
      <4>8. back.qty <= 0 /\ back.aed <= 0 /\ (back.qty = 0 => back.aed = 0)
        BY <4>6, <4>7 DEF NoStock
      <4>9. Clean(rest)
        BY <3>1, <4>1, <4>2, <4>3
      <4>10. rest.qty >= 0
        <5>1. ~ps[lns[l].purchase].is_deleted
          BY <1>1, <2>3 DEF TablesFit, GoneWith
        <5>2. LiveLine(rows, lns, cs, rs, l)
          BY <3>1
        <5>3. Holds(rows, lns, cs, rs, l)
          BY <1>1, <5>1, <5>2, LineTotals
        <5> QED
          BY <4>2, <4>3, <5>2, <5>3 DEF LiveLine, Holds
      <4>11. Clean(Plus(rest, [qty |-> -back.qty, aed |-> -back.aed]))
        BY <4>3, <4>8, <4>9, <4>10, CleanBack
      <4>12. NetIn(rows \o moves, S) = Plus(NetIn(rows, S), NetIn(moves, S))
        BY <1>1, <1>2, NetInConcat
      <4> QED
        BY <4>2, <4>3, <4>4, <4>11, <4>12
    <3> QED
      BY <2>3, <3>2, <3>3, LiveGood
  <2> QED
    BY <2>2, <2>3
<1> QED
  BY <1>1, <1>2, <1>4, <1>5, <1>7, ConcatParts DEF Good, LinesGood

\* A line of the purchase gets back what the collection took.
LEMMA UndoneCollectionLine ==
    ASSUME NEW ps, NEW lns, NEW cs, NEW rs, TablesTyped(ps, lns, cs, rs),
           NEW rows \in Seq(Rows), NEW c \in 1..Len(cs), NEW now, TablesTyped(ps, lns, now, rs),
           CollectionsMarked(cs, now, {c}),
           NEW moves, TakesBack(rows, moves, Source("PURCHASE_COLLECTION", c)),
           NEW l \in 1..Len(lns), LiveLine(rows, lns, cs, rs, l)
    PROVE  LiveLine(rows \o moves, lns, now, rs, l)
<1>1. PICK T, t : T = Source(t, c) /\ t = "PURCHASE_COLLECTION"
  OBVIOUS
<1>2. /\ Blind(T) /\ TakesBack(rows, moves, T) /\ T \intersect OnLine(l) = Of(t, c, l)
      /\ t \in PurchaseSources
  <2>1. T \intersect OnLine(l) = Of(t, c, l)
    BY <1>1 DEF Source, Of, OnLine
  <2>2. Blind(T)
    BY <1>1, SetsBlind
  <2> QED
    BY <1>1, <2>1, <2>2 DEF PurchaseSources
<1>3. TakenBack(rows, moves, t, c, l)
  BY <1>2, TakenBackLine
<1>4. /\ Nothing(rows \o moves, Of(t, c, l))
      /\ \A u, x : u # t \/ x # c => Nothing(moves, Of(u, x, l))
  BY <1>3 DEF TakenBack
<1>5. moves \in Seq(Rows)
  BY DEF TakesBack
<1>6. Len(now) = Len(cs)
  BY DEF CollectionsMarked
<1>7. \A k \in 1..Len(cs) : k # c => Took(now, k, l) = Took(cs, k, l)
                                     /\ TookAt(now, k, l) = TookAt(cs, k, l)
  <2>1. ASSUME NEW k \in 1..Len(cs), k # c
        PROVE  Took(now, k, l) = Took(cs, k, l) /\ TookAt(now, k, l) = TookAt(cs, k, l)
    BY <2>1, CollectionAmounts
  <2> QED
    BY <2>1
<1>8. Took(now, c, l) = 0 /\ \A loc \in Locations : TookAt(now, c, l)[loc] = 0
  BY CollectionAmounts
<1>9. ASSUME NEW k \in 1..Len(now)
      PROVE  CollectionStays(cs, now, k, l, moves) \/ CollectionTraced(rows \o moves, now, k, l)
  <2>1. CASE k # c
    BY <1>1, <1>4, <1>6, <1>7, <2>1 DEF CollectionStays
  <2>2. CASE k = c
    <3>1. PICK all, at : all = rows \o moves /\ at = TookAt(now, c, l)
      OBVIOUS
    <3>2. Traced(all, Of(t, c, l), 0, 0, at)
      BY <1>4, <1>8, <3>1, SetsBlind, NothingTraced
    <3> QED
      BY <1>1, <1>8, <2>2, <3>1, <3>2 DEF CollectionTraced
  <2> QED
    BY <2>1, <2>2
<1>10. ASSUME NEW r \in 1..Len(rs) PROVE RefundStays(rs, rs, r, l, moves)
  BY <1>1, <1>4 DEF RefundStays
<1>11. Nothing(moves, Of("PURCHASE", lns[l].purchase, l))
  BY <1>1, <1>4
<1>12. Pending(lns, now, rs, l) >= 0
  <2>1. TookAll(now, l) = TookAll(cs, l) - Took(cs, c, l)
    BY OneMarkedSums
  <2>2. /\ TookAll(cs, l) \in Nat /\ BackAll(rs, l, "PENDING") \in Nat /\ Took(cs, c, l) \in Nat
        /\ lns[l].quantity \in Nat
    BY AmountTypes, TableTypes
  <2>3. Pending(lns, cs, rs, l) >= 0
    BY DEF LiveLine
  <2> QED
    BY <2>1, <2>2, <2>3 DEF Pending
<1> QED
  BY <1>5, <1>9, <1>10, <1>11, <1>12, LiveStep

\* And what the refund cancelled or returned.
LEMMA UndoneRefundLine ==
    ASSUME NEW ps, NEW lns, NEW cs, NEW rs, TablesTyped(ps, lns, cs, rs),
           NEW rows \in Seq(Rows), NEW r \in 1..Len(rs), NEW then, TablesTyped(ps, lns, cs, then),
           RefundsMarked(rs, then, {r}),
           NEW moves, TakesBack(rows, moves, Source("PURCHASE_REFUND", r)),
           NEW l \in 1..Len(lns), LiveLine(rows, lns, cs, rs, l)
    PROVE  LiveLine(rows \o moves, lns, cs, then, l)
<1>1. PICK T, t : T = Source(t, r) /\ t = "PURCHASE_REFUND"
  OBVIOUS
<1>2. /\ Blind(T) /\ TakesBack(rows, moves, T) /\ T \intersect OnLine(l) = Of(t, r, l)
      /\ t \in PurchaseSources
  <2>1. T \intersect OnLine(l) = Of(t, r, l)
    BY <1>1 DEF Source, Of, OnLine
  <2>2. Blind(T)
    BY <1>1, SetsBlind
  <2> QED
    BY <1>1, <2>1, <2>2 DEF PurchaseSources
<1>3. TakenBack(rows, moves, t, r, l)
  BY <1>2, TakenBackLine
<1>4. /\ Nothing(rows \o moves, Of(t, r, l))
      /\ \A u, x : u # t \/ x # r => Nothing(moves, Of(u, x, l))
  BY <1>3 DEF TakenBack
<1>5. moves \in Seq(Rows)
  BY DEF TakesBack
<1>6. Len(then) = Len(rs)
  BY DEF RefundsMarked
<1>7. ASSUME NEW k \in 1..Len(rs), k # r
      PROVE  /\ \A source : Back(then, k, l, source) = Back(rs, k, l, source)
             /\ \A loc : BackAt(then, k, l, loc) = BackAt(rs, k, l, loc)
  BY <1>7, RefundAmounts
<1>8. /\ Back(then, r, l, "PENDING") = 0 /\ -Back(then, r, l, "RECEIVED") = 0
      /\ \A loc \in Locations : BackFrom(then, r, l)[loc] = 0
  <2>1. /\ \A source : Back(then, r, l, source) = 0
        /\ \A loc : BackAt(then, r, l, loc) = 0
    BY RefundAmounts
  <2> QED
    BY <2>1 DEF BackFrom
<1>9. ASSUME NEW k \in 1..Len(then)
      PROVE  RefundStays(rs, then, k, l, moves) \/ RefundTraced(rows \o moves, then, k, l)
  <2>1. CASE k # r
    BY <1>1, <1>4, <1>6, <1>7, <2>1 DEF RefundStays
  <2>2. CASE k = r
    <3>1. PICK all, at : all = rows \o moves /\ at = BackFrom(then, r, l)
      OBVIOUS
    <3>2. Traced(all, Of(t, r, l), 0, 0, at)
      BY <1>4, <1>8, <3>1, SetsBlind, NothingTraced
    <3> QED
      BY <1>1, <1>8, <2>2, <3>1, <3>2 DEF RefundTraced
  <2> QED
    BY <2>1, <2>2
<1>10. ASSUME NEW c \in 1..Len(cs) PROVE CollectionStays(cs, cs, c, l, moves)
  BY <1>1, <1>4 DEF CollectionStays
<1>11. Nothing(moves, Of("PURCHASE", lns[l].purchase, l))
  BY <1>1, <1>4
<1>12. Pending(lns, cs, then, l) >= 0
  <2>1. BackAll(then, l, "PENDING") = BackAll(rs, l, "PENDING") - Back(rs, r, l, "PENDING")
    BY OneMarkedSums
  <2>2. /\ TookAll(cs, l) \in Nat /\ BackAll(rs, l, "PENDING") \in Nat
        /\ Back(rs, r, l, "PENDING") \in Nat /\ lns[l].quantity \in Nat
    BY AmountTypes, TableTypes
  <2>3. Pending(lns, cs, rs, l) >= 0
    BY DEF LiveLine
  <2> QED
    BY <2>1, <2>2, <2>3 DEF Pending
<1> QED
  BY <1>5, <1>9, <1>10, <1>11, <1>12, LiveStep

\* Undoing a collection keeps everything in order.
LEMMA UndoneCollectionGood ==
    ASSUME NEW ps, NEW lns, NEW cs, NEW rs, NEW rows, Good(rows, ps, lns, cs, rs),
           NEW c \in 1..Len(cs), ~cs[c].is_deleted,
           NEW moves, TakesBack(rows, moves, Source("PURCHASE_COLLECTION", c))
    PROVE  Good(rows \o moves, ps, lns, [cs EXCEPT ![c].is_deleted = TRUE], rs)
<1>1. /\ TablesFit(ps, lns, cs, rs) /\ TablesTyped(ps, lns, cs, rs)
      /\ rows \in Seq(Rows) /\ RowsFit(rows, ps, lns, cs, rs)
      /\ LinesGood(rows, ps, lns, cs, rs)
  BY DEF Good, TablesFit
<1>2. PICK now : now = [cs EXCEPT ![c].is_deleted = TRUE]
  OBVIOUS
<1>3. CollectionsMarked(cs, now, {c}) /\ TablesTyped(ps, lns, now, rs)
  BY <1>1, <1>2, OneMarked
<1>4. \A l \in 1..Len(lns) : ~lns[l].is_deleted => LiveLine(rows, lns, cs, rs, l)
  BY <1>1 DEF LinesGood, LineGood
<1>5. ASSUME NEW l \in 1..Len(lns), ~lns[l].is_deleted
      PROVE  LiveLine(rows \o moves, lns, now, rs, l)
  BY <1>1, <1>3, <1>4, <1>5, UndoneCollectionLine
<1>6. TracedSource(rows, lns, "PURCHASE_COLLECTION", c)
  <2>1. ASSUME NEW l \in 1..Len(lns), ~lns[l].is_deleted
        PROVE  \E out \in Nat : \E all, at :
                  Traced(rows, Of("PURCHASE_COLLECTION", c, l), out, all, at)
    <3>1. CollectionTraced(rows, cs, c, l)
      BY <1>4, <2>1 DEF LiveLine
    <3>2. Took(cs, c, l) \in Nat
      BY <1>1, AmountTypes
    <3> QED
      BY <3>1, <3>2 DEF CollectionTraced
  <2> QED
    BY <2>1 DEF TracedSource
<1>7. LiveSource(rows, ps, lns, "PURCHASE_COLLECTION", c)
  <2>1. ASSUME NEW i \in 1..Len(rows), rows[i] \in Source("PURCHASE_COLLECTION", c)
        PROVE  ~ps[lns[rows[i].line].purchase].is_deleted
    <3>1. rows[i].stype = "PURCHASE_COLLECTION" /\ rows[i].sid = c
      BY <2>1 DEF Source
    <3>2. cs[c].purchase = lns[rows[i].line].purchase
      BY <1>1, <3>1 DEF RowsFit, OwnRowFits, RowFits, PurchaseSources
    <3> QED
      BY <1>1, <3>2 DEF TablesFit, GoneWith
  <2> QED
    BY <2>1 DEF LiveSource
<1>8. RefundsMarked(rs, rs, {})
  BY DEF RefundsMarked
<1>9. PICK t : t = "PURCHASE_COLLECTION"
  OBVIOUS
<1>10. /\ t \in PurchaseSources /\ TracedSource(rows, lns, t, c) /\ LiveSource(rows, ps, lns, t, c)
       /\ TakesBack(rows, moves, Source(t, c))
  BY <1>6, <1>7, <1>9 DEF PurchaseSources
<1>11. Good(rows \o moves, ps, lns, now, rs)
  BY <1>3, <1>5, <1>8, <1>10, UndoneRows
<1> QED
  BY <1>2, <1>11

\* And so does undoing a refund.
LEMMA UndoneRefundGood ==
    ASSUME NEW ps, NEW lns, NEW cs, NEW rs, NEW rows, Good(rows, ps, lns, cs, rs),
           NEW r \in 1..Len(rs), ~rs[r].is_deleted,
           NEW moves, TakesBack(rows, moves, Source("PURCHASE_REFUND", r))
    PROVE  Good(rows \o moves, ps, lns, cs, [rs EXCEPT ![r].is_deleted = TRUE])
<1>1. /\ TablesFit(ps, lns, cs, rs) /\ TablesTyped(ps, lns, cs, rs)
      /\ rows \in Seq(Rows) /\ RowsFit(rows, ps, lns, cs, rs)
      /\ LinesGood(rows, ps, lns, cs, rs)
  BY DEF Good, TablesFit
<1>2. PICK then : then = [rs EXCEPT ![r].is_deleted = TRUE]
  OBVIOUS
<1>3. RefundsMarked(rs, then, {r}) /\ TablesTyped(ps, lns, cs, then)
  BY <1>1, <1>2, OneMarked
<1>4. \A l \in 1..Len(lns) : ~lns[l].is_deleted => LiveLine(rows, lns, cs, rs, l)
  BY <1>1 DEF LinesGood, LineGood
<1>5. ASSUME NEW l \in 1..Len(lns), ~lns[l].is_deleted
      PROVE  LiveLine(rows \o moves, lns, cs, then, l)
  BY <1>1, <1>3, <1>4, <1>5, UndoneRefundLine
<1>6. TracedSource(rows, lns, "PURCHASE_REFUND", r)
  <2>1. ASSUME NEW l \in 1..Len(lns), ~lns[l].is_deleted
        PROVE  \E out \in Nat : \E all, at :
                  Traced(rows, Of("PURCHASE_REFUND", r, l), out, all, at)
    <3>1. RefundTraced(rows, rs, r, l)
      BY <1>4, <2>1 DEF LiveLine
    <3>2. Back(rs, r, l, "PENDING") \in Nat
      BY <1>1, AmountTypes
    <3> QED
      BY <3>1, <3>2 DEF RefundTraced
  <2> QED
    BY <2>1 DEF TracedSource
<1>7. LiveSource(rows, ps, lns, "PURCHASE_REFUND", r)
  <2>1. ASSUME NEW i \in 1..Len(rows), rows[i] \in Source("PURCHASE_REFUND", r)
        PROVE  ~ps[lns[rows[i].line].purchase].is_deleted
    <3>1. rows[i].stype = "PURCHASE_REFUND" /\ rows[i].sid = r
      BY <2>1 DEF Source
    <3>2. rs[r].purchase = lns[rows[i].line].purchase
      BY <1>1, <3>1 DEF RowsFit, OwnRowFits, RowFits, PurchaseSources
    <3> QED
      BY <1>1, <3>2 DEF TablesFit, GoneWith
  <2> QED
    BY <2>1 DEF LiveSource
<1>8. CollectionsMarked(cs, cs, {})
  BY DEF CollectionsMarked
<1>9. PICK t : t = "PURCHASE_REFUND"
  OBVIOUS
<1>10. /\ t \in PurchaseSources /\ TracedSource(rows, lns, t, r) /\ LiveSource(rows, ps, lns, t, r)
       /\ TakesBack(rows, moves, Source(t, r))
  BY <1>6, <1>7, <1>9 DEF PurchaseSources
<1>11. Good(rows \o moves, ps, lns, cs, then)
  BY <1>3, <1>5, <1>8, <1>10, UndoneRows
<1> QED
  BY <1>2, <1>11

\* Undoing a refund keeps the invariant (delete_refund).
LEMMA UndoRefundStep ==
    ASSUME Inv, UndoRefund
    PROVE  Inv'
<1>1. /\ Sound(Book) /\ drafts \subseteq Products \X Locations
      /\ Good(ledger, purchases, lines, collections, refunds)
      /\ TablesTyped(purchases, lines, collections, refunds)
      /\ ledger \in Seq(Rows)
  BY DEF Inv, Good, TablesFit
<1>2. PICK r \in DOMAIN refunds, confirm \in Confirms : DeleteRefund(r, confirm)
  BY DEF UndoRefund
<1>3. r \in 1..Len(refunds)
  BY <1>1, <1>2 DEF TablesTyped
<1>4. PICK moves : moves = ReversalMovements(SourceRows(ledger, "PURCHASE_REFUND", r))
  OBVIOUS
<1>5. /\ ~refunds[r].is_deleted /\ Post(moves, confirm)
      /\ refunds' = [refunds EXCEPT ![r].is_deleted = TRUE]
      /\ UNCHANGED <<purchases, lines, collections, drafts>>
  BY <1>2, <1>4 DEF DeleteRefund
<1>6. ledger' = ledger \o moves /\ Sound(Book)'
  BY <1>5, PostStep
<1>7. TakesBack(ledger, moves, Source("PURCHASE_REFUND", r))
  BY <1>1, <1>4, SourceTakenBack
<1>8. Good(ledger \o moves, purchases, lines, collections, [refunds EXCEPT ![r].is_deleted = TRUE])
  BY <1>1, <1>3, <1>5, <1>7, UndoneRefundGood
<1>9. Good(ledger', purchases', lines', collections', refunds')
  BY <1>5, <1>6, <1>8
<1> QED
  BY <1>1, <1>5, <1>6, <1>9 DEF Inv

\* Installing the book as it is changes nothing.
LEMMA InstallSame ==
    ASSUME Sound(Book), Install(Book)
    PROVE  ledger' = ledger /\ Sound(Book)' /\ ledger \o << >> = ledger
<1>1. ledger' = ledger /\ balance' = balance
  BY DEF Install, Book
<1>2. Sound(Book)'
  BY <1>1 DEF Sound, Book
<1>3. ledger \in Seq(Rows)
  BY DEF Sound, Book
<1> QED
  BY <1>1, <1>2, <1>3

\* Undoing a collection keeps the invariant (delete_collection).
LEMMA UndoCollectionStep ==
    ASSUME Inv, UndoCollection
    PROVE  Inv'
<1>1. /\ Sound(Book) /\ drafts \subseteq Products \X Locations
      /\ Good(ledger, purchases, lines, collections, refunds)
      /\ TablesTyped(purchases, lines, collections, refunds)
      /\ ledger \in Seq(Rows)
  BY DEF Inv, Good, TablesFit
<1>2. PICK c \in DOMAIN collections, confirm \in Confirms : DeleteCollection(c, confirm)
  BY DEF UndoCollection
<1>3. c \in 1..Len(collections)
  BY <1>1, <1>2 DEF TablesTyped
<1>4. PICK rows, moves : /\ rows = SourceRows(ledger, "PURCHASE_COLLECTION", c)
                         /\ moves = NetReversalMovements(rows)
  OBVIOUS
<1>5. /\ ~collections[c].is_deleted /\ NetReversible(rows)
      /\ IF moves = << >> THEN Install(Book) ELSE Post(moves, confirm)
      /\ collections' = [collections EXCEPT ![c].is_deleted = TRUE]
      /\ UNCHANGED <<purchases, lines, refunds, drafts>>
  BY <1>2, <1>4 DEF DeleteCollection
<1>6. ledger' = ledger \o moves /\ Sound(Book)'
  <2>1. CASE moves = << >>
    BY <1>1, <1>5, <2>1, InstallSame
  <2>2. CASE moves # << >>
    BY <1>5, <2>2, PostStep
  <2> QED
    BY <2>1, <2>2
<1>7. TakesBack(ledger, moves, Source("PURCHASE_COLLECTION", c))
  BY <1>1, <1>4, <1>5, SourceTakenBack
<1>8. Good(ledger \o moves, purchases, lines, [collections EXCEPT ![c].is_deleted = TRUE], refunds)
  BY <1>1, <1>3, <1>5, <1>7, UndoneCollectionGood
<1>9. Good(ledger', purchases', lines', collections', refunds')
  BY <1>5, <1>6, <1>8
<1> QED
  BY <1>1, <1>5, <1>6, <1>9 DEF Inv

-----------------------------------------------------------------------------
(* A purchase and everything of it deleted *)

\* A finite set as a sequence: all of its elements, each once.
ListOf(s, S) ==
    /\ s \in Seq(S) /\ Len(s) \in Nat
    /\ \A i, j \in 1..Len(s) : s[i] = s[j] => i = j
    /\ \A x \in S : \E i \in 1..Len(s) : s[i] = x

\* The library lists a finite set, each element once.
LEMMA SetToSeqFacts ==
    ASSUME NEW S, IsFiniteSet(S)
    PROVE  ListOf(SetToSeq(S), S)
<1>1. PICK n \in Nat : n = Cardinality(S)
  BY FS_CardinalityType
<1>2. \E f \in [1..n -> S] : IsInjective(f)
  <2>1. ExistsBijection(1..n, S)
    BY <1>1, FS_CardinalityType
  <2>2. PICK f : f \in Bijection(1..n, S)
    BY <2>1 DEF ExistsBijection
  <2> QED
    BY <2>2 DEF Bijection, Injection
<1>3. PICK s : s = SetToSeq(S)
  OBVIOUS
<1>4. s \in [1..n -> S] /\ IsInjective(s)
  BY <1>1, <1>2, <1>3 DEF SetToSeq
<1>5. s \in Injection(1..n, S)
  BY <1>4 DEF Injection
<1>6. s \in Surjection(1..n, S)
  <2>1. Cardinality(1..n) = Cardinality(S)
    BY <1>1, FS_Interval
  <2> QED
    BY <1>5, <2>1, FS_Injection
<1>7. s \in Seq(S) /\ Len(s) = n
  BY <1>4
<1> QED
  BY <1>3, <1>4, <1>6, <1>7 DEF ListOf, IsInjective, Surjection

\* A line that no record left anything of, of all that can have.
LEMMA LineEmpty ==
    ASSUME NEW ps, NEW lns, NEW cs, NEW rs, NEW rows \in Seq(Rows), RowsFit(rows, ps, lns, cs, rs),
           NEW l, NEW T, OnlyOn(T, l),
           Nothing(rows, Of("PURCHASE", lns[l].purchase, l) \intersect T),
           \A c \in 1..Len(cs) : Nothing(rows, Of("PURCHASE_COLLECTION", c, l) \intersect T),
           \A r \in 1..Len(rs) : Nothing(rows, Of("PURCHASE_REFUND", r, l) \intersect T)
    PROVE  Nothing(rows, T)
<1>1. ASSUME NEW t, NEW s PROVE Nothing(rows, Of(t, s, l) \intersect T)
  <2>1. CASE \E i \in 1..Len(rows) : rows[i] \in Of(t, s, l)
    <3>1. PICK i \in 1..Len(rows) : rows[i] \in Of(t, s, l)
      BY <2>1
    <3>2. PICK row : row = rows[i]
      OBVIOUS
    <3>3. row.stype = t /\ row.sid = s /\ row.line = l /\ t \in PurchaseSources
      BY <3>1, <3>2 DEF Of, OnLine
    <3>4. RowFits(row, ps, lns, cs, rs)
      BY <3>2 DEF RowsFit
    <3>5. \/ t = "PURCHASE" /\ s = lns[l].purchase
          \/ t = "PURCHASE_COLLECTION" /\ s \in 1..Len(cs)
          \/ t = "PURCHASE_REFUND" /\ s \in 1..Len(rs)
      BY <3>3, <3>4 DEF OwnRowFits, RowFits, PurchaseSources
    <3> QED
      BY <3>5
  <2>2. CASE ~\E i \in 1..Len(rows) : rows[i] \in Of(t, s, l)
    BY <2>2, NothingOutside
  <2> QED
    BY <2>1, <2>2
<1>2. T \subseteq OnLine(l)
  BY DEF OnlyOn
<1> QED
  BY <1>1, <1>2, RecordsEmpty

\* A stock that is positive goes out, whole.
Undo(x) == IF x.qty > 0 THEN [qty |-> -x.qty, aed |-> -x.aed] ELSE NoStock

\* Taking out what is held leaves nothing, or the overdraft there was.
LEMMA UndoFacts ==
    ASSUME NEW x \in [qty: Int, aed: Int]
    PROVE  /\ Undo(x) \in [qty: Int, aed: Int]
           /\ Plus(x, Undo(x)).qty <= 0
           /\ Plus(x, Undo(x)) = IF x.qty > 0 THEN NoStock ELSE x
BY DEF Undo, Plus, NoStock

\* The movements take out what is left of the lines in L, and of no other line.
BacksOut(moves, rows, lns, p, at, L) ==
    /\ moves \in Seq(Rows)
    /\ \A k \in 1..Len(moves) :
          /\ moves[k].stype = "PURCHASE" /\ moves[k].sid = p /\ moves[k].line \in L
          /\ moves[k].product = lns[moves[k].line].product
          /\ (moves[k].bucket = "PENDING" /\ moves[k].loc = at) \/ moves[k].bucket = "PHYSICAL"
    /\ \A l \in L :
          /\ NetIn(moves, OnLine(l) \intersect Pend) = Undo(NetIn(rows, OnLine(l) \intersect Pend))
          /\ \A loc \in Locations :
                NetIn(moves, OnLine(l) \intersect PhysAt(loc))
                   = Undo(NetIn(rows, OnLine(l) \intersect PhysAt(loc)))

\* What is left of a live line in PHYSICAL, if that is not positive: nothing, unless
\* received stock of it was returned.
LEMMA NotPositive ==
    ASSUME NEW ps, NEW lns, NEW cs, NEW rs, TablesTyped(ps, lns, cs, rs),
           NEW rows \in Seq(Rows), RowsFit(rows, ps, lns, cs, rs),
           NEW l \in 1..Len(lns), ~ps[lns[l].purchase].is_deleted,
           LiveLine(rows, lns, cs, rs, l),
           NEW loc \in Locations, NetIn(rows, OnLine(l) \intersect PhysAt(loc)).qty <= 0,
           ~Returned(rs, l)
    PROVE  NetIn(rows, OnLine(l) \intersect PhysAt(loc)) = NoStock
<1>1. PICK f, g : /\ f = [c \in 1..Len(cs) |-> TookAt(cs, c, l)[loc]]
                  /\ g = [r \in 1..Len(rs) |-> BackAt(rs, r, l, loc)]
  OBVIOUS
<1>2. f \in Seq(Nat) /\ g \in Seq(Nat) /\ Len(cs) \in Nat /\ Len(rs) \in Nat
  <2>1. \A c \in 1..Len(cs) : TookAt(cs, c, l)[loc] \in Nat
    <3>1. \A c \in 1..Len(cs) : TookAt(cs, c, l) \in [Locations -> Nat]
      BY AmountTypes
    <3> QED
      BY <3>1
  <2>2. \A r \in 1..Len(rs) : BackAt(rs, r, l, loc) \in Nat
    BY AmountTypes
  <2>3. Len(cs) \in Nat /\ Len(rs) \in Nat
    BY TableTypes
  <2>4. PICK m \in Nat, n \in Nat : m = Len(cs) /\ n = Len(rs)
    BY <2>3
  <2>5. f \in [1..m -> Nat] /\ g \in [1..n -> Nat]
    BY <1>1, <2>1, <2>2, <2>4
  <2>6. f \in Seq(Nat) /\ g \in Seq(Nat)
    BY <2>5
  <2> QED
    BY <2>3, <2>6
<1>3. Len(f) = Len(cs) /\ Len(g) = Len(rs)
  BY <1>1, <1>2
<1>4. ASSUME NEW r \in 1..Len(rs) PROVE BackAt(rs, r, l, loc) = 0
  <2>1. PICK items : items = rs[r].lines
    OBVIOUS
  <2>2. \A i \in 1..Len(items) : i \notin OnAt(items, l, loc)
    BY <2>1 DEF Returned, OnAt, OnFrom, On
  <2>3. AskSome(items)
    BY <2>1, TableTypes
  <2>4. Total(items, OnAt(items, l, loc)) = 0
    BY <2>2, <2>3, TotalFacts
  <2> QED
    BY <2>1, <2>4 DEF BackAt
<1>5. SumSeq(g) = 0
  <2>1. g \in Seq(Int) /\ \A r \in 1..Len(g) : g[r] = 0
    BY <1>1, <1>2, <1>3, <1>4
  <2> QED
    BY <2>1, SumSeqZero
<1>6. NetIn(rows, OnLine(l) \intersect PhysAt(loc)).qty = SumSeq(f) - SumSeq(g)
  <2>1. Holds(rows, lns, cs, rs, l)
    BY LineTotals
  <2> QED
    BY <1>1, <2>1 DEF Holds, HeldAt
<1>7. ASSUME NEW c \in 1..Len(cs) PROVE TookAt(cs, c, l)[loc] = 0
  <2>1. SumSeq(f) \in Nat /\ f[c] \in Nat /\ SumSeq(f) >= f[c]
    BY <1>2, <1>3, SumSeqAtLeast
  <2>2. SumSeq(f) <= 0
    BY <1>5, <1>6, <2>1
  <2>3. f[c] = 0
    BY <2>1, <2>2
  <2> QED
    BY <1>1, <2>3
<1>8. PICK T : T = OnLine(l) \intersect PhysAt(loc)
  OBVIOUS
<1>9. ASSUME NEW t, NEW s PROVE Of(t, s, l) \intersect T = Of(t, s, l) \intersect PhysAt(loc)
  BY <1>8 DEF Of
<1>10. ASSUME NEW c \in 1..Len(cs)
       PROVE  Nothing(rows, Of("PURCHASE_COLLECTION", c, l) \intersect T)
  <2>1. CollectionTraced(rows, cs, c, l)
    BY DEF LiveLine
  <2> QED
    BY <1>7, <1>9, <2>1 DEF CollectionTraced, Traced
<1>11. ASSUME NEW r \in 1..Len(rs)
       PROVE  Nothing(rows, Of("PURCHASE_REFUND", r, l) \intersect T)
  <2>1. RefundTraced(rows, rs, r, l)
    BY DEF LiveLine
  <2>2. BackFrom(rs, r, l)[loc] = 0
    BY <1>4 DEF BackFrom
  <2> QED
    BY <1>9, <2>1, <2>2 DEF RefundTraced, Traced
<1>12. Nothing(rows, Of("PURCHASE", lns[l].purchase, l) \intersect T)
  <2>1. \A row \in T : row \in OnLine(l) /\ row.bucket # "PENDING"
    BY <1>8 DEF PhysAt, Phys, BucketRows
  <2> QED
    BY <2>1, EntryPending
<1>13. Nothing(rows, T)
  <2>1. OnlyOn(T, l)
    BY <1>8 DEF OnlyOn
  <2> QED
    BY <1>10, <1>11, <1>12, <2>1, LineEmpty
<1>14. Blind(T)
  BY <1>8, SetsBlind, BlindParts
<1> QED
  BY <1>8, <1>13, <1>14 DEF Nothing

\* The tables with the purchase marked, and with all that belongs to it.
PurchaseMarked(ps, qs, p) ==
    /\ Len(qs) = Len(ps)
    /\ \A k \in 1..Len(ps) : /\ qs[k].location = ps[k].location
                             /\ (qs[k].is_deleted <=> ps[k].is_deleted \/ k = p)

LinesMarked(lns, mns, p) ==
    /\ Len(mns) = Len(lns)
    /\ \A l \in 1..Len(lns) :
          /\ mns[l].purchase = lns[l].purchase /\ mns[l].product = lns[l].product
          /\ mns[l].quantity = lns[l].quantity
          /\ (mns[l].is_deleted <=> lns[l].is_deleted \/ lns[l].purchase = p)

OfPurchase(records, p) == {k \in 1..Len(records) : records[k].purchase = p}

AllMarked(ps, lns, cs, rs, qs, mns, now, then, p) ==
    /\ TablesTyped(qs, mns, now, then)
    /\ PurchaseMarked(ps, qs, p) /\ LinesMarked(lns, mns, p)
    /\ CollectionsMarked(cs, now, OfPurchase(cs, p))
    /\ RefundsMarked(rs, then, OfPurchase(rs, p))

\* The records of one purchase tell nothing of the lines of another.
LEMMA OthersUnmarked ==
    ASSUME NEW ps, NEW lns, NEW cs, NEW rs, TablesFit(ps, lns, cs, rs),
           NEW p, NEW now, NEW then,
           CollectionsMarked(cs, now, OfPurchase(cs, p)),
           RefundsMarked(rs, then, OfPurchase(rs, p)),
           NEW l \in 1..Len(lns), lns[l].purchase # p
    PROVE  /\ \A c \in 1..Len(cs) : /\ Took(now, c, l) = Took(cs, c, l)
                                    /\ TookAt(now, c, l) = TookAt(cs, c, l)
           /\ \A r \in 1..Len(rs) :
                 /\ \A source : Back(then, r, l, source) = Back(rs, r, l, source)
                 /\ \A loc : BackAt(then, r, l, loc) = BackAt(rs, r, l, loc)
<1>1. TablesTyped(ps, lns, cs, rs) /\ NamesOwn(cs, lns) /\ NamesOwn(rs, lns)
  BY DEF TablesFit
<1>2. ASSUME NEW c \in 1..Len(cs)
      PROVE  Took(now, c, l) = Took(cs, c, l) /\ TookAt(now, c, l) = TookAt(cs, c, l)
  <2>1. CASE c \notin OfPurchase(cs, p)
    BY <2>1, CollectionAmounts
  <2>2. CASE c \in OfPurchase(cs, p)
    <3>1. PICK items : items = cs[c].lines
      OBVIOUS
    <3>2. AskSome(items)
      BY <1>1, <3>1, TableTypes
    <3>3. \A i \in 1..Len(items) : i \notin On(items, l)
      BY <1>1, <2>2, <3>1 DEF NamesOwn, OfPurchase, On
    <3>4. Total(items, On(items, l)) = 0
      BY <3>2, <3>3, TotalFacts
    <3>5. Took(cs, c, l) = 0
      BY <3>1, <3>4 DEF Took
    <3>6. Took(now, c, l) = 0
      BY <2>2, CollectionAmounts
    <3>7. now[c].location = cs[c].location
      BY DEF CollectionsMarked
    <3> QED
      BY <3>5, <3>6, <3>7 DEF TookAt
  <2> QED
    BY <2>1, <2>2
<1>3. ASSUME NEW r \in 1..Len(rs)
      PROVE  /\ \A source : Back(then, r, l, source) = Back(rs, r, l, source)
             /\ \A loc : BackAt(then, r, l, loc) = BackAt(rs, r, l, loc)
  <2>1. CASE r \notin OfPurchase(rs, p)
    BY <2>1, RefundAmounts
  <2>2. CASE r \in OfPurchase(rs, p)
    <3>1. PICK items : items = rs[r].lines
      OBVIOUS
    <3>2. AskSome(items)
      BY <1>1, <3>1, TableTypes
    <3>3. \A i \in 1..Len(items) : i \notin On(items, l)
      BY <1>1, <2>2, <3>1 DEF NamesOwn, OfPurchase, On
    <3>4. ASSUME NEW source PROVE Back(rs, r, l, source) = 0
      <4>1. \A i \in 1..Len(items) : i \notin OnFrom(items, l, source)
        BY <3>3 DEF OnFrom
      <4>2. Total(items, OnFrom(items, l, source)) = 0
        BY <3>2, <4>1, TotalFacts
      <4> QED
        BY <3>1, <4>2 DEF Back
    <3>5. ASSUME NEW loc PROVE BackAt(rs, r, l, loc) = 0
      <4>1. \A i \in 1..Len(items) : i \notin OnAt(items, l, loc)
        BY <3>3 DEF OnAt, OnFrom
      <4>2. Total(items, OnAt(items, l, loc)) = 0
        BY <3>2, <4>1, TotalFacts
      <4> QED
        BY <3>1, <4>2 DEF BackAt
    <3>6. /\ \A source : Back(then, r, l, source) = 0
          /\ \A loc : BackAt(then, r, l, loc) = 0
      BY <2>2, RefundAmounts
    <3> QED
      BY <3>4, <3>5, <3>6
  <2> QED
    BY <2>1, <2>2
<1> QED
  BY <1>2, <1>3

\* A line of another purchase stays as it is.
LEMMA OtherPurchaseLine ==
    ASSUME NEW ps, NEW lns, NEW cs, NEW rs, NEW rows, Good(rows, ps, lns, cs, rs),
           NEW p, NEW qs, NEW mns, NEW now, NEW then,
           AllMarked(ps, lns, cs, rs, qs, mns, now, then, p),
           NEW moves \in Seq(Rows), NEW l \in 1..Len(lns), Nothing(moves, OnLine(l)),
           lns[l].purchase # p, ~lns[l].is_deleted
    PROVE  LineGood(rows \o moves, qs, mns, now, then, l)
<1>1. /\ TablesFit(ps, lns, cs, rs) /\ TablesTyped(ps, lns, cs, rs)
      /\ rows \in Seq(Rows) /\ LineGood(rows, ps, lns, cs, rs, l)
  BY DEF Good, TablesFit, LinesGood
<1>2. /\ CollectionsMarked(cs, now, OfPurchase(cs, p)) /\ RefundsMarked(rs, then, OfPurchase(rs, p))
      /\ Len(now) = Len(cs) /\ Len(then) = Len(rs)
      /\ mns[l].purchase = lns[l].purchase /\ mns[l].product = lns[l].product
      /\ mns[l].quantity = lns[l].quantity /\ ~mns[l].is_deleted
      /\ TablesTyped(qs, mns, now, then)
  BY DEF AllMarked, LinesMarked, CollectionsMarked, RefundsMarked
<1>3. /\ \A c \in 1..Len(cs) : /\ Took(now, c, l) = Took(cs, c, l)
                               /\ TookAt(now, c, l) = TookAt(cs, c, l)
      /\ \A r \in 1..Len(rs) :
            /\ \A source : Back(then, r, l, source) = Back(rs, r, l, source)
            /\ \A loc : BackAt(then, r, l, loc) = BackAt(rs, r, l, loc)
  BY <1>1, <1>2, OthersUnmarked
<1>4. LineGood(rows \o moves, ps, lns, cs, rs, l)
  BY <1>1, MoreAlike, LineGoodAlike
<1>5. PICK all : all = rows \o moves
  OBVIOUS
<1>6. /\ Nothing(all, OnLine(l) \ OfProduct(lns[l].product))
      /\ ~RepeatedLines => Clean(NetIn(all, OnLine(l) \intersect Pend))
      /\ LiveLine(all, lns, cs, rs, l)
  BY <1>4, <1>5 DEF LineGood
<1>7. TookAll(now, l) = TookAll(cs, l) /\ BackAll(then, l, "PENDING") = BackAll(rs, l, "PENDING")
  <2>1. [c \in 1..Len(now) |-> Took(now, c, l)] = [c \in 1..Len(cs) |-> Took(cs, c, l)]
    BY <1>2, <1>3
  <2>2. [r \in 1..Len(then) |-> Back(then, r, l, "PENDING")]
           = [r \in 1..Len(rs) |-> Back(rs, r, l, "PENDING")]
    BY <1>2, <1>3
  <2> QED
    BY <2>1, <2>2 DEF TookAll, BackAll
<1>8. LiveLine(all, mns, now, then, l)
  <2>1. NetIn(all, Of("PURCHASE", mns[l].purchase, l)).qty = mns[l].quantity
    BY <1>2, <1>6 DEF LiveLine
  <2>2. ASSUME NEW c \in 1..Len(now) PROVE CollectionTraced(all, now, c, l)
    <3>1. CollectionTraced(all, cs, c, l) /\ c \in 1..Len(cs)
      BY <1>2, <1>6 DEF LiveLine
    <3> QED
      BY <1>3, <3>1 DEF CollectionTraced
  <2>3. ASSUME NEW r \in 1..Len(then) PROVE RefundTraced(all, then, r, l)
    <3>1. RefundTraced(all, rs, r, l) /\ r \in 1..Len(rs)
      BY <1>2, <1>6 DEF LiveLine
    <3>2. BackFrom(then, r, l) = BackFrom(rs, r, l)
      BY <1>3, <3>1 DEF BackFrom
    <3> QED
      BY <1>3, <3>1, <3>2 DEF RefundTraced
  <2>4. Pending(mns, now, then, l) = Pending(lns, cs, rs, l)
    BY <1>2, <1>7 DEF Pending
  <2> QED
    BY <1>6, <2>1, <2>2, <2>3, <2>4 DEF LiveLine
<1>9. Nothing(all, OnLine(l) \ OfProduct(mns[l].product))
  BY <1>2, <1>6
<1> QED
  BY <1>2, <1>5, <1>6, <1>8, <1>9, LiveGood

\* A line of the purchase holds nothing any more, or what was overdrawn.
LEMMA LineBackedOut ==
    ASSUME NEW ps, NEW lns, NEW cs, NEW rs, NEW rows, Good(rows, ps, lns, cs, rs),
           NEW p, NEW qs, NEW mns, NEW now, NEW then,
           AllMarked(ps, lns, cs, rs, qs, mns, now, then, p),
           NEW at, NEW L, NEW moves, BacksOut(moves, rows, lns, p, at, L),
           NEW l \in 1..Len(lns), l \in L, lns[l].purchase = p, ~lns[l].is_deleted, p \in 1..Len(ps)
    PROVE  LineGood(rows \o moves, qs, mns, now, then, l)
<1>1. /\ TablesFit(ps, lns, cs, rs) /\ TablesTyped(ps, lns, cs, rs)
      /\ rows \in Seq(Rows) /\ RowsFit(rows, ps, lns, cs, rs)
      /\ LineGood(rows, ps, lns, cs, rs, l)
  BY DEF Good, TablesFit, LinesGood
<1>2. /\ mns[l].product = lns[l].product /\ mns[l].purchase = p /\ mns[l].is_deleted
      /\ qs[p].is_deleted /\ RefundsMarked(rs, then, OfPurchase(rs, p))
  BY DEF AllMarked, LinesMarked, PurchaseMarked
<1>3. /\ Nothing(rows, OnLine(l) \ OfProduct(lns[l].product))
      /\ ~RepeatedLines => Clean(NetIn(rows, OnLine(l) \intersect Pend))
      /\ LiveLine(rows, lns, cs, rs, l)
  BY <1>1 DEF LineGood
<1>4. ~ps[lns[l].purchase].is_deleted
  BY <1>1 DEF TablesFit, GoneWith
<1>5. moves \in Seq(Rows)
  BY DEF BacksOut
<1>6. Nothing(rows \o moves, OnLine(l) \ OfProduct(lns[l].product))
  <2>1. \A k \in 1..Len(moves) : moves[k].line = l => moves[k].product = lns[l].product
    BY DEF BacksOut
  <2> QED
    BY <1>1, <1>3, <1>5, <2>1, ProductKept
<1>7. ASSUME NEW S, NetIn(moves, S) = Undo(NetIn(rows, S))
      PROVE  /\ NetIn(rows \o moves, S).qty <= 0
             /\ NetIn(rows \o moves, S) = IF NetIn(rows, S).qty > 0 THEN NoStock ELSE NetIn(rows, S)
             /\ NetIn(rows, S) \in [qty: Int, aed: Int]
  <2>1. PICK x \in [qty: Int, aed: Int] : x = NetIn(rows, S)
    BY <1>1, NetInType
  <2>2. NetIn(rows \o moves, S) = Plus(x, Undo(x))
    BY <1>1, <1>5, <1>7, <2>1, NetInConcat
  <2> QED
    BY <2>1, <2>2, UndoFacts
<1>8. /\ NetIn(rows \o moves, OnLine(l) \intersect Pend).qty = 0
      /\ ~RepeatedLines => NetIn(rows \o moves, OnLine(l) \intersect Pend) = NoStock
  <2>1. PICK S : S = OnLine(l) \intersect Pend
    OBVIOUS
  <2>2. NetIn(moves, S) = Undo(NetIn(rows, S))
    BY <2>1 DEF BacksOut
  <2>3. PICK x \in [qty: Int, aed: Int] : x = NetIn(rows, S)
    BY <1>7, <2>2
  <2>4. NetIn(rows \o moves, S) = IF x.qty > 0 THEN NoStock ELSE x
    BY <1>7, <2>2, <2>3
  <2>5. x.qty >= 0
    <3>1. Holds(rows, lns, cs, rs, l)
      BY <1>1, <1>3, <1>4, LineTotals
    <3> QED
      BY <1>3, <2>1, <2>3, <3>1 DEF Holds, LiveLine
  <2>9. NetIn(rows \o moves, S).qty = 0
    BY <2>3, <2>4, <2>5 DEF NoStock
  <2>6. SUFFICES ASSUME ~RepeatedLines PROVE NetIn(rows \o moves, S) = NoStock
    BY <2>1, <2>9
  <2>7. Clean(x)
    BY <1>3, <2>1, <2>3, <2>6
  <2>8. x.qty = 0 => x = NoStock
    BY <2>3, <2>7 DEF Clean, NoStock
  <2> QED
    BY <2>3, <2>4, <2>5, <2>8
<1>9. ASSUME NEW loc \in Locations
      PROVE  /\ NetIn(rows \o moves, OnLine(l) \intersect PhysAt(loc)).qty <= 0
             /\ NetIn(rows \o moves, OnLine(l) \intersect PhysAt(loc)) = NoStock \/ Returned(then, l)
  <2>1. PICK S : S = OnLine(l) \intersect PhysAt(loc)
    OBVIOUS
  <2>2. NetIn(moves, S) = Undo(NetIn(rows, S))
    BY <2>1 DEF BacksOut
  <2>3. /\ NetIn(rows \o moves, S).qty <= 0
        /\ NetIn(rows \o moves, S) = IF NetIn(rows, S).qty > 0 THEN NoStock ELSE NetIn(rows, S)
        /\ NetIn(rows, S) \in [qty: Int, aed: Int]
    BY <1>7, <2>2
  <2>4. Returned(then, l) <=> Returned(rs, l)
    BY <1>2, ReturnedStays
  <2>5. CASE NetIn(rows, S).qty > 0
    BY <2>1, <2>3, <2>5
  <2>6. CASE ~(NetIn(rows, S).qty > 0)
    <3>1. NetIn(rows, S).qty <= 0
      BY <2>3, <2>6
    <3>2. ~Returned(rs, l) => NetIn(rows, S) = NoStock
      BY <1>1, <1>3, <1>4, <2>1, <3>1, NotPositive
    <3> QED
      BY <2>1, <2>3, <2>4, <2>6, <3>2
  <2> QED
    BY <2>5, <2>6
<1>10. DeadLine(rows \o moves, then, l)
  BY <1>8, <1>9 DEF DeadLine
<1>11. ~RepeatedLines => Clean(NetIn(rows \o moves, OnLine(l) \intersect Pend))
  BY <1>8 DEF Clean, NoStock
<1> QED
  BY <1>2, <1>6, <1>10, <1>11 DEF LineGood

\* With all of it backed out, a purchase may be marked as deleted.
LEMMA DeletedGood ==
    ASSUME NEW ps, NEW lns, NEW cs, NEW rs, NEW rows, Good(rows, ps, lns, cs, rs),
           NEW p \in 1..Len(ps), ~ps[p].is_deleted, NEW qs, NEW mns, NEW now, NEW then,
           AllMarked(ps, lns, cs, rs, qs, mns, now, then, p),
           NEW moves, BacksOut(moves, rows, lns, p, ps[p].location, LinesOf(lns, p))
    PROVE  Good(rows \o moves, qs, mns, now, then)
<1>1. /\ TablesFit(ps, lns, cs, rs) /\ TablesTyped(ps, lns, cs, rs)
      /\ rows \in Seq(Rows) /\ RowsFit(rows, ps, lns, cs, rs)
      /\ LinesGood(rows, ps, lns, cs, rs)
  BY DEF Good, TablesFit
<1>2. /\ TablesTyped(qs, mns, now, then) /\ PurchaseMarked(ps, qs, p) /\ LinesMarked(lns, mns, p)
      /\ CollectionsMarked(cs, now, OfPurchase(cs, p))
      /\ RefundsMarked(rs, then, OfPurchase(rs, p))
  BY DEF AllMarked
<1>3. PICK L : L = LinesOf(lns, p)
  OBVIOUS
<1>4. \A l : l \in L <=> l \in 1..Len(lns) /\ lns[l].purchase = p /\ ~lns[l].is_deleted
  <2>1. DOMAIN lns = 1..Len(lns)
    BY <1>1 DEF TablesTyped
  <2> QED
    BY <1>3, <2>1 DEF LinesOf
<1>5. moves \in Seq(Rows)
  BY DEF BacksOut
<1>6. /\ Len(qs) = Len(ps) /\ Len(mns) = Len(lns) /\ Len(now) = Len(cs) /\ Len(then) = Len(rs)
      /\ \A k \in 1..Len(ps) : /\ qs[k].location = ps[k].location
                               /\ (qs[k].is_deleted <=> ps[k].is_deleted \/ k = p)
      /\ \A l \in 1..Len(lns) :
            /\ mns[l].purchase = lns[l].purchase /\ mns[l].product = lns[l].product
            /\ (mns[l].is_deleted <=> lns[l].is_deleted \/ lns[l].purchase = p)
            /\ lns[l].purchase \in 1..Len(ps)
  BY <1>1, <1>2, TableTypes DEF PurchaseMarked, LinesMarked, CollectionsMarked, RefundsMarked
<1>7. /\ \A c \in 1..Len(cs) :
            /\ now[c].lines = cs[c].lines /\ now[c].purchase = cs[c].purchase
            /\ (now[c].is_deleted <=> cs[c].is_deleted \/ cs[c].purchase = p)
            /\ cs[c].purchase \in 1..Len(ps)
            /\ \A i \in 1..Len(cs[c].lines) : cs[c].lines[i].line \in 1..Len(lns)
      /\ \A r \in 1..Len(rs) :
            /\ then[r].lines = rs[r].lines /\ then[r].purchase = rs[r].purchase
            /\ (then[r].is_deleted <=> rs[r].is_deleted \/ rs[r].purchase = p)
            /\ rs[r].purchase \in 1..Len(ps)
            /\ \A i \in 1..Len(rs[r].lines) : rs[r].lines[i].line \in 1..Len(lns)
  <2>1. TablesTyped(ps, lns, cs, rs)
    BY <1>1
  <2>2. /\ \A c \in 1..Len(cs) : cs[c].purchase \in 1..Len(ps)
        /\ \A r \in 1..Len(rs) : rs[r].purchase \in 1..Len(ps)
    BY <2>1, TableTypes
  <2>3. /\ \A c \in 1..Len(cs) : \A i \in 1..Len(cs[c].lines) : cs[c].lines[i].line \in 1..Len(lns)
        /\ \A r \in 1..Len(rs) : \A i \in 1..Len(rs[r].lines) : rs[r].lines[i].line \in 1..Len(lns)
    BY <2>1, KnownLines
  <2>4. \A c \in 1..Len(cs) :
            /\ now[c].lines = cs[c].lines /\ now[c].purchase = cs[c].purchase
            /\ (now[c].is_deleted <=> cs[c].is_deleted \/ cs[c].purchase = p)
    BY <1>2 DEF CollectionsMarked, OfPurchase
  <2>5. \A r \in 1..Len(rs) :
            /\ then[r].lines = rs[r].lines /\ then[r].purchase = rs[r].purchase
            /\ (then[r].is_deleted <=> rs[r].is_deleted \/ rs[r].purchase = p)
    BY <1>2 DEF RefundsMarked, OfPurchase
  <2> QED
    BY <2>2, <2>3, <2>4, <2>5
<1>8. TablesFit(qs, mns, now, then)
  <2>1. NamesOwn(now, mns) /\ NamesOwn(then, mns)
    <3>1. NamesOwn(cs, lns) /\ NamesOwn(rs, lns)
      BY <1>1 DEF TablesFit
    <3>2. NamesOwn(now, mns)
      <4>1. ASSUME NEW k \in 1..Len(now), NEW i \in 1..Len(now[k].lines)
            PROVE  mns[now[k].lines[i].line].purchase = now[k].purchase
        <5>1. k \in 1..Len(cs) /\ now[k].lines = cs[k].lines /\ now[k].purchase = cs[k].purchase
          BY <1>6, <1>7
        <5>2. PICK l : l = cs[k].lines[i].line
          OBVIOUS
        <5>3. i \in 1..Len(cs[k].lines) /\ l \in 1..Len(lns) /\ now[k].lines[i].line = l
          BY <1>7, <5>1, <5>2
        <5>4. lns[l].purchase = cs[k].purchase
          BY <3>1, <5>1, <5>2, <5>3 DEF NamesOwn
        <5> QED
          BY <1>6, <5>1, <5>3, <5>4
      <4> QED
        BY <4>1 DEF NamesOwn
    <3>3. NamesOwn(then, mns)
      <4>1. ASSUME NEW k \in 1..Len(then), NEW i \in 1..Len(then[k].lines)
            PROVE  mns[then[k].lines[i].line].purchase = then[k].purchase
        <5>1. k \in 1..Len(rs) /\ then[k].lines = rs[k].lines /\ then[k].purchase = rs[k].purchase
          BY <1>6, <1>7
        <5>2. PICK l : l = rs[k].lines[i].line
          OBVIOUS
        <5>3. i \in 1..Len(rs[k].lines) /\ l \in 1..Len(lns) /\ then[k].lines[i].line = l
          BY <1>7, <5>1, <5>2
        <5>4. lns[l].purchase = rs[k].purchase
          BY <3>1, <5>1, <5>2, <5>3 DEF NamesOwn
        <5> QED
          BY <1>6, <5>1, <5>3, <5>4
      <4> QED
        BY <4>1 DEF NamesOwn
    <3> QED
      BY <3>2, <3>3
  <2>2. GoneWith(mns, qs) /\ GoneWith(now, qs) /\ GoneWith(then, qs)
    BY <1>1, <1>6, <1>7 DEF TablesFit, GoneWith
  <2> QED
    BY <1>2, <2>1, <2>2 DEF TablesFit
<1>9. RowsFit(rows \o moves, qs, mns, now, then)
  <2>1. TablesKeep(ps, lns, cs, rs, qs, mns, now, then)
    <3>1. Len(lns) \in Nat /\ Len(cs) \in Nat /\ Len(rs) \in Nat
      BY <1>1, TableTypes
    <3> QED
      BY <1>6, <1>7, <3>1 DEF TablesKeep
  <2>2. RowsFit(rows, qs, mns, now, then)
    BY <1>1, <1>2, <2>1, RowsFitKept
  <2>3. ASSUME NEW k \in 1..Len(moves) PROVE RowFits(moves[k], qs, mns, now, then)
    <3>1. PICK row, l : row = moves[k] /\ l = row.line
      OBVIOUS
    <3>2. /\ row.stype = "PURCHASE" /\ row.sid = p /\ l \in L
          /\ (row.bucket = "PENDING" /\ row.loc = ps[p].location) \/ row.bucket = "PHYSICAL"
      BY <1>3, <3>1 DEF BacksOut
    <3>3. l \in 1..Len(mns) /\ mns[l].purchase = p
          /\ qs[p].is_deleted /\ qs[p].location = ps[p].location
      BY <1>4, <1>6, <3>2
    <3> QED
      BY <3>1, <3>2, <3>3 DEF OwnRowFits, RowFits, PurchaseSources
  <2>4. RowsFit(moves, qs, mns, now, then)
    BY <2>3 DEF RowsFit
  <2> QED
    BY <1>1, <1>5, <2>2, <2>4, RowsFitMore
<1>10. ASSUME NEW l \in 1..Len(lns) PROVE LineGood(rows \o moves, qs, mns, now, then, l)
  <2>1. LineGood(rows, ps, lns, cs, rs, l)
    BY <1>1 DEF LinesGood
  <2>2. CASE l \in L
    BY <1>3, <1>4, <2>2, LineBackedOut
  <2>3. CASE l \notin L
    <3>1. Nothing(moves, OnLine(l))
      <4>1. \A k \in 1..Len(moves) : /\ moves[k].stype = "PURCHASE" /\ moves[k].sid = p
                                     /\ moves[k].line \in L
        BY <1>3 DEF BacksOut
      <4> QED
        BY <1>5, <2>3, <4>1, OfOther
    <3>2. CASE ~lns[l].is_deleted
      <4>1. lns[l].purchase # p
        BY <1>4, <2>3, <3>2
      <4> QED
        BY <1>5, <3>1, <3>2, <4>1, OtherPurchaseLine
    <3>3. CASE lns[l].is_deleted
      <4>1. Returned(rs, l) => Returned(then, l)
        BY <1>2, ReturnedStays
      <4>2. LineGood(rows \o moves, ps, lns, now, then, l)
        BY <1>1, <1>5, <2>1, <3>1, <3>3, <4>1, DeadKept
      <4>3. /\ mns[l].is_deleted /\ mns[l].product = lns[l].product
            /\ ~qs[mns[l].purchase].is_deleted => ~ps[lns[l].purchase].is_deleted
        BY <1>6, <3>3
      <4>4. /\ Nothing(rows \o moves, OnLine(l) \ OfProduct(lns[l].product))
            /\ ~RepeatedLines => Clean(NetIn(rows \o moves, OnLine(l) \intersect Pend))
            /\ DeadLine(rows \o moves, then, l)
            /\ ~ps[lns[l].purchase].is_deleted => Nothing(rows \o moves, OnLine(l))
        BY <3>3, <4>2 DEF LineGood
      <4> QED
        BY <4>3, <4>4 DEF LineGood
    <3> QED
      BY <3>2, <3>3
  <2> QED
    BY <2>2, <2>3
<1>11. rows \o moves \in Seq(Rows)
  BY <1>1, <1>5, ConcatParts
<1> QED
  BY <1>6, <1>8, <1>9, <1>10, <1>11 DEF Good, LinesGood

\* Rows that take what is pending of the line, and what is held of it, out.
RowOut(row, lns, p, at, l) ==
    /\ row.stype = "PURCHASE" /\ row.sid = p /\ row.line = l /\ row.product = lns[l].product
    /\ (row.bucket = "PENDING" /\ row.loc = at) \/ row.bucket = "PHYSICAL"

PendingUndone(part, rows, lns, p, at, l) ==
    /\ part \in Seq(Rows)
    /\ \A k \in 1..Len(part) : RowOut(part[k], lns, p, at, l) /\ part[k].bucket = "PENDING"
    /\ NetIn(part, OnLine(l) \intersect Pend) = Undo(NetIn(rows, OnLine(l) \intersect Pend))

HeldUndone(part, rows, lns, p, at, l) ==
    /\ part \in Seq(Rows)
    /\ \A k \in 1..Len(part) : RowOut(part[k], lns, p, at, l) /\ part[k].bucket = "PHYSICAL"
    /\ \A loc \in Locations : NetIn(part, OnLine(l) \intersect PhysAt(loc))
                                 = Undo(NetIn(rows, OnLine(l) \intersect PhysAt(loc)))

LineUndone(part, rows, lns, p, at, l) ==
    /\ part \in Seq(Rows)
    /\ \A k \in 1..Len(part) : RowOut(part[k], lns, p, at, l)
    /\ NetIn(part, OnLine(l) \intersect Pend) = Undo(NetIn(rows, OnLine(l) \intersect Pend))
    /\ \A loc \in Locations : NetIn(part, OnLine(l) \intersect PhysAt(loc))
                                 = Undo(NetIn(rows, OnLine(l) \intersect PhysAt(loc)))

\* The reversal of pending stock takes all that is pending of the line.
LEMMA PendingReversalFacts ==
    ASSUME NEW book, book.ledger \in Seq(Rows), NEW lns, NEW l \in Nat,
           lns[l].product \in Products, NEW p \in Nat, lns[l].purchase = p,
           NEW at \in Locations, purchases[p].location = at
    PROVE  PendingUndone(PendingReversal(book, lns, l), book.ledger, lns, p, at, l)
<1>1. PICK rest \in [qty: Int, aed: Int] : rest = NetIn(book.ledger, OnLine(l) \intersect Pend)
  BY NetInType
<1>2. PendingRemainder(book.ledger, l) = rest
  BY <1>1, SumsAreNets
<1>3. PICK part : part = PendingReversal(book, lns, l)
  OBVIOUS
<1>4. CASE rest.qty > 0
  <2>1. PICK row : row = PendingOut("PURCHASE", p, lns, l, rest.qty, rest.aed)
    OBVIOUS
  <2>2. part = << row >>
    BY <1>2, <1>3, <1>4, <2>1 DEF PendingReversal
  <2>3. row = [stype |-> "PURCHASE", sid |-> p, line |-> l, product |-> lns[l].product,
               loc |-> at, bucket |-> "PENDING", qty |-> -rest.qty, aed |-> -rest.aed]
    BY <2>1 DEF PendingOut, LineMove
  <2>4. row \in Rows
    BY <2>3 DEF Rows, SourceTypes, Buckets
  <2>5. row \in OnLine(l) \intersect Pend
    BY <2>3, <2>4 DEF OnLine, Pend, BucketRows, PurchaseSources
  <2>6. part \in Seq(Rows) /\ Len(part) = 1 /\ part[1] = row
    BY <2>2, <2>4
  <2>7. NetIn(part, OnLine(l) \intersect Pend) = [qty |-> -rest.qty, aed |-> -rest.aed]
    BY <2>2, <2>3, <2>4, <2>5, NetInSingle
  <2>8. RowOut(row, lns, p, at, l) /\ row.bucket = "PENDING"
    BY <2>3 DEF RowOut
  <2>9. \A k \in 1..Len(part) : part[k] = row
    BY <2>6
  <2>10. NetIn(part, OnLine(l) \intersect Pend) = Undo(rest)
    BY <1>4, <2>7 DEF Undo
  <2> QED
    BY <1>1, <1>3, <2>6, <2>8, <2>9, <2>10 DEF PendingUndone
<1>5. CASE ~(rest.qty > 0)
  <2>1. part = << >>
    BY <1>2, <1>3, <1>5 DEF PendingReversal
  <2>2. NetIn(part, OnLine(l) \intersect Pend) = NoStock
    BY <2>1, NetInEmpty
  <2>3. part \in Seq(Rows) /\ \A k \in 1..Len(part) : FALSE
    BY <2>1
  <2>4. NetIn(part, OnLine(l) \intersect Pend) = Undo(rest)
    BY <1>5, <2>2 DEF Undo
  <2> QED
    BY <1>1, <1>3, <2>3, <2>4 DEF PendingUndone
<1> QED
  BY <1>4, <1>5

\* A row for every location where something is held.
HeldOut(rows, lns, p, l, places) ==
    [i \in DOMAIN places |->
       LineMove("PURCHASE", p, l, lns[l].product, places[i], "PHYSICAL",
                -PhysicalRemainder(rows, l, places[i]).qty,
                -PhysicalRemainder(rows, l, places[i]).aed)]

HeldPlaces(rows, l) == {loc \in Locations : PhysicalRemainder(rows, l, loc).qty > 0}

\* The rows that take out what is held, place by place.
LEMMA HeldOutFacts ==
    ASSUME NEW rows \in Seq(Rows), NEW lns, NEW l \in Nat, lns[l].product \in Products,
           NEW p \in Nat, NEW at
    PROVE  HeldUndone(HeldOut(rows, lns, p, l, SetToSeq(HeldPlaces(rows, l))), rows, lns, p, at, l)
<1>1. PICK P : P = HeldPlaces(rows, l)
  OBVIOUS
<1>2. PICK places : places = SetToSeq(P)
  OBVIOUS
<1>3. PICK part : part = HeldOut(rows, lns, p, l, places)
  OBVIOUS
<1>4. P \subseteq Locations /\ IsFiniteSet(P)
  BY <1>1, FiniteAssumption, FS_Subset DEF HeldPlaces
<1>5. ListOf(places, P)
  BY <1>2, <1>4, SetToSeqFacts
<1>6. /\ places \in Seq(P) /\ DOMAIN places = 1..Len(places) /\ Len(places) \in Nat
      /\ \A i \in 1..Len(places) : places[i] \in P /\ places[i] \in Locations
  BY <1>4, <1>5 DEF ListOf
<1>7. ASSUME NEW loc PROVE PhysicalRemainder(rows, l, loc) = NetIn(rows, OnLine(l) \intersect PhysAt(loc))
                           /\ PhysicalRemainder(rows, l, loc) \in [qty: Int, aed: Int]
  <2>1. PhysicalRemainder(rows, l, loc) = NetIn(rows, OnLine(l) \intersect PhysAt(loc))
    BY SumsAreNets
  <2>2. NetIn(rows, OnLine(l) \intersect PhysAt(loc)) \in [qty: Int, aed: Int]
    BY NetInType
  <2> QED
    BY <2>1, <2>2
<1>8. ASSUME NEW i \in 1..Len(places)
      PROVE  /\ part[i] \in Rows /\ RowOut(part[i], lns, p, at, l) /\ part[i].bucket = "PHYSICAL"
             /\ part[i].loc = places[i]
             /\ part[i].qty = -PhysicalRemainder(rows, l, places[i]).qty
             /\ part[i].aed = -PhysicalRemainder(rows, l, places[i]).aed
  <2>1. PICK x \in [qty: Int, aed: Int] : x = PhysicalRemainder(rows, l, places[i])
    BY <1>7
  <2>2. part[i] = LineMove("PURCHASE", p, l, lns[l].product, places[i], "PHYSICAL", -x.qty, -x.aed)
    BY <1>3, <1>6, <2>1 DEF HeldOut
  <2>3. part[i] = [stype |-> "PURCHASE", sid |-> p, line |-> l, product |-> lns[l].product,
                   loc |-> places[i], bucket |-> "PHYSICAL", qty |-> -x.qty, aed |-> -x.aed]
    BY <2>2 DEF LineMove
  <2>4. part[i] \in Rows
    BY <1>6, <2>3 DEF Rows, SourceTypes, Buckets
  <2> QED
    BY <2>1, <2>3, <2>4 DEF RowOut
<1>9. part \in Seq(Rows) /\ Len(part) = Len(places)
  <2>1. DOMAIN part = 1..Len(places)
    BY <1>3, <1>6 DEF HeldOut
  <2>2. part = [i \in 1..Len(places) |-> part[i]]
    BY <1>3, <1>6 DEF HeldOut
  <2>3. part \in [1..Len(places) -> Rows]
    BY <1>8, <2>2
  <2>4. PICK n \in Nat : n = Len(places)
    BY <1>6
  <2>5. part \in [1..n -> Rows]
    BY <2>3, <2>4
  <2>6. part \in Seq(Rows) /\ Len(part) = n
    BY <2>5
  <2> QED
    BY <2>4, <2>6
<1>10. ASSUME NEW loc \in Locations
       PROVE  NetIn(part, OnLine(l) \intersect PhysAt(loc))
                 = Undo(NetIn(rows, OnLine(l) \intersect PhysAt(loc)))
  <2>1. PICK S : S = OnLine(l) \intersect PhysAt(loc)
    OBVIOUS
  <2>2. PICK x \in [qty: Int, aed: Int] : x = NetIn(rows, S)
    BY NetInType
  <2>3. ASSUME NEW i \in 1..Len(part) PROVE part[i] \in S <=> places[i] = loc
    <3>1. PICK row : row = part[i]
      OBVIOUS
    <3>2. row \in Rows /\ row.stype = "PURCHASE" /\ row.line = l /\ row.bucket = "PHYSICAL"
          /\ row.loc = places[i]
      BY <1>8, <1>9, <3>1 DEF RowOut
    <3> QED
      BY <2>1, <3>1, <3>2 DEF OnLine, PhysAt, Phys, BucketRows, PurchaseSources
  <2>4. CASE x.qty > 0
    <3>1. loc \in P
      BY <1>1, <1>7, <2>1, <2>2, <2>4 DEF HeldPlaces
    <3>2. PICK j \in 1..Len(places) : places[j] = loc
      BY <1>5, <3>1 DEF ListOf
    <3>3. \A i \in 1..Len(part) : part[i] \in S <=> i = j
      BY <1>5, <1>9, <2>3, <3>2 DEF ListOf
    <3>4. NetIn(part, S) = [qty |-> part[j].qty, aed |-> part[j].aed]
      BY <1>9, <3>2, <3>3, NetInOne
    <3>5. part[j].qty = -x.qty /\ part[j].aed = -x.aed
      BY <1>7, <1>8, <2>1, <2>2, <3>2
    <3> QED
      BY <2>1, <2>2, <2>4, <3>4, <3>5 DEF Undo
  <2>5. CASE ~(x.qty > 0)
    <3>1. loc \notin P
      BY <1>1, <1>7, <2>1, <2>2, <2>5 DEF HeldPlaces
    <3>2. \A i \in 1..Len(part) : part[i] \notin S
      BY <1>6, <1>9, <2>3, <3>1
    <3>3. NetIn(part, S) = NoStock
      BY <1>9, <3>2, NetInNone
    <3> QED
      BY <2>1, <2>2, <2>5, <3>3 DEF Undo
  <2> QED
    BY <2>4, <2>5
<1> QED
  BY <1>1, <1>2, <1>3, <1>8, <1>9, <1>10 DEF HeldUndone

\* Together they take out all the line has (soft_delete_purchase).
LEMMA LineReversalFacts ==
    ASSUME ledger \in Seq(Rows), NEW l \in Nat, lines[l].product \in Products,
           NEW p \in Nat, lines[l].purchase = p,
           NEW at \in Locations, purchases[p].location = at
    PROVE  LineUndone(LineReversal(p, l), ledger, lines, p, at, l)
<1>1. PICK one, two : /\ one = PendingReversal(Book, lines, l)
                      /\ two = HeldOut(ledger, lines, p, l, SetToSeq(HeldPlaces(ledger, l)))
  OBVIOUS
<1>2. Book.ledger = ledger
  BY DEF Book
<1>3. PendingUndone(one, ledger, lines, p, at, l)
  BY <1>1, <1>2, PendingReversalFacts
<1>4. HeldUndone(two, ledger, lines, p, at, l)
  BY <1>1, HeldOutFacts
<1>5. LineReversal(p, l) = one \o two
  BY <1>1 DEF LineReversal, HeldOut, HeldPlaces
<1>6. one \in Seq(Rows) /\ two \in Seq(Rows)
  BY <1>3, <1>4 DEF PendingUndone, HeldUndone
<1>7. PICK part : part = one \o two
  OBVIOUS
<1>8. /\ part \in Seq(Rows) /\ Len(part) = Len(one) + Len(two)
      /\ \A k \in 1..Len(one) : part[k] = one[k]
      /\ \A k \in 1..Len(two) : part[Len(one) + k] = two[k]
  BY <1>6, <1>7, ConcatParts
<1>9. ASSUME NEW k \in 1..Len(part) PROVE RowOut(part[k], lines, p, at, l)
  <2>1. CASE k <= Len(one)
    <3>1. k \in 1..Len(one)
      BY <1>6, <2>1
    <3> QED
      BY <1>3, <1>8, <3>1 DEF PendingUndone
  <2>2. CASE ~(k <= Len(one))
    <3>1. PICK j \in 1..Len(two) : Len(one) + j = k
      <4>1. k - Len(one) \in 1..Len(two) /\ Len(one) + (k - Len(one)) = k
        BY <1>6, <1>8, <2>2
      <4> QED
        BY <4>1
    <3>2. part[k] = two[j]
      BY <1>8, <3>1
    <3> QED
      BY <1>4, <3>2 DEF HeldUndone
  <2> QED
    BY <2>1, <2>2
<1>10. ASSUME NEW S PROVE NetIn(part, S) = Plus(NetIn(one, S), NetIn(two, S))
                         /\ NetIn(one, S) \in [qty: Int, aed: Int]
                         /\ NetIn(two, S) \in [qty: Int, aed: Int]
  BY <1>6, <1>7, NetInConcat, NetInType
<1>11. NetIn(part, OnLine(l) \intersect Pend) = Undo(NetIn(ledger, OnLine(l) \intersect Pend))
  <2>1. PICK S : S = OnLine(l) \intersect Pend
    OBVIOUS
  <2>2. \A i \in 1..Len(two) : two[i] \notin S
    BY <1>4, <2>1 DEF HeldUndone, Pend, BucketRows
  <2>3. NetIn(two, S) = NoStock
    BY <1>6, <2>2, NetInNone
  <2>4. PICK x \in [qty: Int, aed: Int] : x = NetIn(one, S)
    BY <1>10
  <2>5. NetIn(part, S) = Plus(x, NoStock)
    BY <1>10, <2>3, <2>4
  <2>6. NetIn(part, S) = x
    BY <2>5 DEF Plus, NoStock
  <2> QED
    BY <1>3, <2>1, <2>4, <2>6 DEF PendingUndone
<1>12. ASSUME NEW loc \in Locations
       PROVE  NetIn(part, OnLine(l) \intersect PhysAt(loc))
                 = Undo(NetIn(ledger, OnLine(l) \intersect PhysAt(loc)))
  <2>1. PICK S : S = OnLine(l) \intersect PhysAt(loc)
    OBVIOUS
  <2>2. \A i \in 1..Len(one) : one[i] \notin S
    BY <1>3, <2>1 DEF PendingUndone, PhysAt, Phys, BucketRows
  <2>3. NetIn(one, S) = NoStock
    BY <1>6, <2>2, NetInNone
  <2>4. PICK x \in [qty: Int, aed: Int] : x = NetIn(two, S)
    BY <1>10
  <2>5. NetIn(part, S) = Plus(NoStock, x)
    BY <1>10, <2>3, <2>4
  <2>6. NetIn(part, S) = x
    BY <2>5 DEF Plus, NoStock
  <2> QED
    BY <1>4, <2>1, <2>4, <2>6 DEF HeldUndone
<1> QED
  BY <1>5, <1>7, <1>8, <1>9, <1>11, <1>12 DEF LineUndone

\* Every line undone, one after the other, each of them once.
LEMMA LinesUndone ==
    ASSUME NEW rows \in Seq(Rows), NEW lns, NEW p, NEW at, NEW L, NEW ids, ListOf(ids, L),
           NEW parts \in Seq(Seq(Rows)), Len(parts) = Len(ids),
           \A i \in 1..Len(ids) : LineUndone(parts[i], rows, lns, p, at, ids[i])
    PROVE  BacksOut(FlattenSeq(parts), rows, lns, p, at, L)
<1>1. Len(ids) \in Nat /\ \A i \in 1..Len(ids) : ids[i] \in L
  BY DEF ListOf
<1>2. \A i \in 1..Len(ids) : parts[i] \in Seq(Rows)
  BY DEF LineUndone
<1>3. parts \in Seq(Seq(Rows))
  OBVIOUS
<1>4. PICK moves : moves = FlattenSeq(parts)
  OBVIOUS
<1>5. /\ moves \in Seq(Rows)
      /\ \A k \in 1..Len(moves) : \E i \in 1..Len(ids) : \E j \in 1..Len(parts[i]) :
            moves[k] = parts[i][j]
  <2>1. FlatUpTo(parts, Len(parts), moves)
    BY <1>3, <1>4, FlattenFacts
  <2> QED
    BY <2>1 DEF FlatUpTo
<1>6. ASSUME NEW k \in 1..Len(moves)
      PROVE  /\ moves[k].stype = "PURCHASE" /\ moves[k].sid = p /\ moves[k].line \in L
             /\ moves[k].product = lns[moves[k].line].product
             /\ (moves[k].bucket = "PENDING" /\ moves[k].loc = at) \/ moves[k].bucket = "PHYSICAL"
  <2>1. PICK i \in 1..Len(ids) : \E j \in 1..Len(parts[i]) : moves[k] = parts[i][j]
    BY <1>5
  <2>2. PICK j \in 1..Len(parts[i]) : moves[k] = parts[i][j]
    BY <2>1
  <2>3. RowOut(moves[k], lns, p, at, ids[i])
    BY <2>2 DEF LineUndone
  <2> QED
    BY <1>1, <2>3 DEF RowOut
<1>7. ASSUME NEW l \in L, NEW S, S \subseteq OnLine(l),
             \A i \in 1..Len(ids) : ids[i] = l => NetIn(parts[i], S) = Undo(NetIn(rows, S))
      PROVE  NetIn(moves, S) = Undo(NetIn(rows, S))
  <2>1. PICK j \in 1..Len(ids) : ids[j] = l
    BY DEF ListOf
  <2>2. PICK x \in [qty: Int, aed: Int] : x = NetIn(rows, S)
    BY NetInType
  <2>3. PICK y \in [qty: Int, aed: Int] : y = Undo(x)
    BY UndoFacts
  <2>4. NetIn(parts[j], S) = y
    BY <1>7, <2>1, <2>2, <2>3
  <2>5. ASSUME NEW i \in 1..Len(ids), i # j PROVE NetIn(parts[i], S) = NoStock
    <3>1. ids[i] # l
      BY <2>1, <2>5 DEF ListOf
    <3>2. \A k \in 1..Len(parts[i]) : parts[i][k].line = ids[i]
      BY DEF LineUndone, RowOut
    <3>3. ASSUME NEW k \in 1..Len(parts[i]) PROVE parts[i][k] \notin S
      <4>1. PICK row : row = parts[i][k]
        OBVIOUS
      <4>2. row.line # l
        BY <3>1, <3>2, <4>1
      <4>3. row \notin OnLine(l)
        BY <4>2 DEF OnLine
      <4> QED
        BY <1>7, <4>1, <4>3
    <3> QED
      BY <1>2, <3>3, NetInNone
  <2>6. PICK f, g : f = QtyBy(parts, S) /\ g = AedBy(parts, S)
    OBVIOUS
  <2>7. /\ f \in Seq(Int) /\ Len(f) = Len(ids) /\ g \in Seq(Int) /\ Len(g) = Len(ids)
        /\ \A i \in 1..Len(ids) : f[i] = NetIn(parts[i], S).qty /\ g[i] = NetIn(parts[i], S).aed
        /\ NetIn(moves, S).qty = SumSeq(f) /\ NetIn(moves, S).aed = SumSeq(g)
    BY <1>3, <1>4, <2>6, ByParts
  <2>8. \A i \in 1..Len(ids) : i # j => f[i] = 0 /\ g[i] = 0
    BY <2>5, <2>7 DEF NoStock
  <2>9. SumSeq(f) = f[j] /\ SumSeq(g) = g[j]
    BY <2>7, <2>8, SumSeqOne
  <2>10. NetIn(moves, S).qty = y.qty /\ NetIn(moves, S).aed = y.aed
    BY <2>4, <2>7, <2>9
  <2>11. PICK z \in [qty: Int, aed: Int] : z = NetIn(moves, S)
    BY <1>5, NetInType
  <2>12. z.qty = y.qty /\ z.aed = y.aed
    BY <2>10, <2>11
  <2>13. z = y
    BY <2>12
  <2> QED
    BY <2>2, <2>3, <2>11, <2>13
<1>8. ASSUME NEW l \in L
      PROVE  /\ NetIn(moves, OnLine(l) \intersect Pend) = Undo(NetIn(rows, OnLine(l) \intersect Pend))
             /\ \A loc \in Locations :
                   NetIn(moves, OnLine(l) \intersect PhysAt(loc))
                      = Undo(NetIn(rows, OnLine(l) \intersect PhysAt(loc)))
  <2>1. PICK S : S = OnLine(l) \intersect Pend
    OBVIOUS
  <2>2. \A i \in 1..Len(ids) : ids[i] = l => NetIn(parts[i], S) = Undo(NetIn(rows, S))
    BY <2>1 DEF LineUndone
  <2>3. NetIn(moves, S) = Undo(NetIn(rows, S))
    BY <1>7, <2>1, <2>2
  <2>4. ASSUME NEW loc \in Locations
        PROVE  NetIn(moves, OnLine(l) \intersect PhysAt(loc))
                  = Undo(NetIn(rows, OnLine(l) \intersect PhysAt(loc)))
    <3>1. PICK U : U = OnLine(l) \intersect PhysAt(loc)
      OBVIOUS
    <3>2. \A i \in 1..Len(ids) : ids[i] = l => NetIn(parts[i], U) = Undo(NetIn(rows, U))
      BY <3>1 DEF LineUndone
    <3>3. NetIn(moves, U) = Undo(NetIn(rows, U))
      BY <1>7, <3>1, <3>2
    <3> QED
      BY <3>1, <3>3
  <2> QED
    BY <2>1, <2>3, <2>4
<1> QED
  BY <1>4, <1>5, <1>6, <1>8 DEF BacksOut

\* The records of a purchase marked, in one table.
WithMarks(records, p) ==
    [i \in DOMAIN records |->
       IF records[i].purchase = p THEN [records[i] EXCEPT !.is_deleted = TRUE] ELSE records[i]]

\* Deleting a purchase marks it and everything of it, and nothing else.
LEMMA MarksFacts ==
    ASSUME NEW ps, NEW lns, NEW cs, NEW rs, TablesTyped(ps, lns, cs, rs), NEW p \in 1..Len(ps)
    PROVE  AllMarked(ps, lns, cs, rs, [ps EXCEPT ![p].is_deleted = TRUE], WithMarks(lns, p),
                     WithMarks(cs, p), WithMarks(rs, p), p)
<1>1. PICK qs, mns, now, then :
         /\ qs = [ps EXCEPT ![p].is_deleted = TRUE] /\ mns = WithMarks(lns, p)
         /\ now = WithMarks(cs, p) /\ then = WithMarks(rs, p)
  OBVIOUS
<1>2. PICK n \in Nat, m \in Nat, k \in Nat, j \in Nat :
         n = Len(ps) /\ m = Len(lns) /\ k = Len(cs) /\ j = Len(rs)
  BY TableTypes
<1>3. /\ ps \in [1..n -> PurchaseRecords] /\ lns \in [1..m -> LineRecords(n)]
      /\ cs \in [1..k -> CollectionRecords(n, m)] /\ rs \in [1..j -> RefundRecords(n, m)]
  BY <1>2 DEF TablesTyped
<1>4. PICK old, rec : old = ps[p] /\ rec = [old EXCEPT !.is_deleted = TRUE]
  OBVIOUS
<1>5. rec \in PurchaseRecords /\ rec.location = old.location /\ rec.is_deleted
  BY <1>2, <1>3, <1>4 DEF PurchaseRecords
<1>6. qs = [i \in 1..n |-> IF i = p THEN rec ELSE ps[i]]
  BY <1>1, <1>2, <1>3, <1>4
<1>7. qs \in [1..n -> PurchaseRecords]
  BY <1>3, <1>5, <1>6
<1>8. PurchaseMarked(ps, qs, p) /\ Len(qs) = n
  <2>1. Len(qs) = n
    BY <1>7
  <2>2. ASSUME NEW i \in 1..n
        PROVE  /\ qs[i].location = ps[i].location
               /\ (qs[i].is_deleted <=> ps[i].is_deleted \/ i = p)
    BY <1>4, <1>5, <1>6
  <2> QED
    BY <1>2, <2>1, <2>2 DEF PurchaseMarked
<1>9. mns \in [1..m -> LineRecords(n)] /\ LinesMarked(lns, mns, p) /\ Len(mns) = m
  <2>1. ASSUME NEW i \in 1..m
        PROVE  /\ mns[i] \in LineRecords(n)
               /\ mns[i].purchase = lns[i].purchase /\ mns[i].product = lns[i].product
               /\ mns[i].quantity = lns[i].quantity
               /\ (mns[i].is_deleted <=> lns[i].is_deleted \/ lns[i].purchase = p)
    <3>1. PICK x \in LineRecords(n) : x = lns[i]
      BY <1>3
    <3>2. mns[i] = IF x.purchase = p THEN [x EXCEPT !.is_deleted = TRUE] ELSE x
      BY <1>1, <1>3, <3>1 DEF WithMarks
    <3>3. /\ [x EXCEPT !.is_deleted = TRUE] \in LineRecords(n)
          /\ [x EXCEPT !.is_deleted = TRUE].purchase = x.purchase
          /\ [x EXCEPT !.is_deleted = TRUE].product = x.product
          /\ [x EXCEPT !.is_deleted = TRUE].quantity = x.quantity
          /\ [x EXCEPT !.is_deleted = TRUE].is_deleted
      BY DEF LineRecords
    <3> QED
      BY <3>1, <3>2, <3>3
  <2>2. mns \in [1..m -> LineRecords(n)]
    <3>1. mns = [i \in 1..m |-> mns[i]]
      BY <1>1, <1>3 DEF WithMarks
    <3> QED
      BY <2>1, <3>1
  <2>3. Len(mns) = m
    BY <2>2
  <2> QED
    BY <1>2, <2>1, <2>2, <2>3 DEF LinesMarked
<1>10. now \in [1..k -> CollectionRecords(n, m)] /\ CollectionsMarked(cs, now, OfPurchase(cs, p))
  <2>1. ASSUME NEW i \in 1..k
        PROVE  /\ now[i] \in CollectionRecords(n, m)
               /\ now[i].lines = cs[i].lines /\ now[i].purchase = cs[i].purchase
               /\ now[i].location = cs[i].location
               /\ (now[i].is_deleted <=> cs[i].is_deleted \/ i \in OfPurchase(cs, p))
    <3>1. PICK x \in CollectionRecords(n, m) : x = cs[i]
      BY <1>3
    <3>2. now[i] = IF x.purchase = p THEN [x EXCEPT !.is_deleted = TRUE] ELSE x
      BY <1>1, <1>3, <3>1 DEF WithMarks
    <3>3. /\ [x EXCEPT !.is_deleted = TRUE] \in CollectionRecords(n, m)
          /\ [x EXCEPT !.is_deleted = TRUE].purchase = x.purchase
          /\ [x EXCEPT !.is_deleted = TRUE].lines = x.lines
          /\ [x EXCEPT !.is_deleted = TRUE].location = x.location
          /\ [x EXCEPT !.is_deleted = TRUE].is_deleted
      BY DEF CollectionRecords
    <3>4. i \in OfPurchase(cs, p) <=> x.purchase = p
      BY <1>2, <3>1 DEF OfPurchase
    <3> QED
      BY <3>1, <3>2, <3>3, <3>4
  <2>2. now \in [1..k -> CollectionRecords(n, m)]
    <3>1. now = [i \in 1..k |-> now[i]]
      BY <1>1, <1>3 DEF WithMarks
    <3> QED
      BY <2>1, <3>1
  <2>3. Len(now) = k
    BY <2>2
  <2> QED
    BY <1>2, <2>1, <2>2, <2>3 DEF CollectionsMarked
<1>11. then \in [1..j -> RefundRecords(n, m)] /\ RefundsMarked(rs, then, OfPurchase(rs, p))
  <2>1. ASSUME NEW i \in 1..j
        PROVE  /\ then[i] \in RefundRecords(n, m)
               /\ then[i].lines = rs[i].lines /\ then[i].purchase = rs[i].purchase
               /\ (then[i].is_deleted <=> rs[i].is_deleted \/ i \in OfPurchase(rs, p))
    <3>1. PICK x \in RefundRecords(n, m) : x = rs[i]
      BY <1>3
    <3>2. then[i] = IF x.purchase = p THEN [x EXCEPT !.is_deleted = TRUE] ELSE x
      BY <1>1, <1>3, <3>1 DEF WithMarks
    <3>3. /\ [x EXCEPT !.is_deleted = TRUE] \in RefundRecords(n, m)
          /\ [x EXCEPT !.is_deleted = TRUE].purchase = x.purchase
          /\ [x EXCEPT !.is_deleted = TRUE].lines = x.lines
          /\ [x EXCEPT !.is_deleted = TRUE].is_deleted
      BY DEF RefundRecords
    <3>4. i \in OfPurchase(rs, p) <=> x.purchase = p
      BY <1>2, <3>1 DEF OfPurchase
    <3> QED
      BY <3>1, <3>2, <3>3, <3>4
  <2>2. then \in [1..j -> RefundRecords(n, m)]
    <3>1. then = [i \in 1..j |-> then[i]]
      BY <1>1, <1>3 DEF WithMarks
    <3> QED
      BY <2>1, <3>1
  <2>3. Len(then) = j
    BY <2>2
  <2> QED
    BY <1>2, <2>1, <2>2, <2>3 DEF RefundsMarked
<1>12. TablesTyped(qs, mns, now, then)
  <2>1. qs \in Seq(PurchaseRecords)
    BY <1>7
  <2>2. mns \in Seq(LineRecords(n))
    BY <1>9
  <2>3. now \in Seq(CollectionRecords(n, m))
    BY <1>10
  <2>4. then \in Seq(RefundRecords(n, m))
    BY <1>11
  <2> QED
    BY <1>8, <1>9, <2>1, <2>2, <2>3, <2>4 DEF TablesTyped
<1> QED
  BY <1>1, <1>8, <1>9, <1>10, <1>11, <1>12 DEF AllMarked

\* Deleting a purchase keeps the invariant (soft_delete_purchase).
LEMMA DeleteStep ==
    ASSUME Inv, Delete
    PROVE  Inv'
<1>1. /\ Sound(Book) /\ drafts \subseteq Products \X Locations
      /\ Good(ledger, purchases, lines, collections, refunds)
      /\ TablesTyped(purchases, lines, collections, refunds)
      /\ ledger \in Seq(Rows)
  BY DEF Inv, Good, TablesFit
<1>2. PICK p \in DOMAIN purchases, confirm \in Confirms : SoftDeletePurchase(p, confirm)
  BY DEF Delete
<1>3. p \in 1..Len(purchases) /\ p \in Nat /\ DOMAIN lines = 1..Len(lines) /\ Len(lines) \in Nat
  BY <1>1, <1>2 DEF TablesTyped
<1>4. PICK L, at : L = LinesOf(lines, p) /\ at = purchases[p].location
  OBVIOUS
<1>5. PICK ids : ids = Ordered(L, Len(lines))
  OBVIOUS
<1>6. PICK parts : parts = [i \in DOMAIN ids |-> LineReversal(p, ids[i])]
  OBVIOUS
<1>7. PICK moves : moves = FlattenSeq(parts)
  OBVIOUS
<1>8. /\ ~purchases[p].is_deleted
      /\ IF moves = << >> THEN Install(Book) ELSE Post(moves, confirm)
      /\ purchases' = [purchases EXCEPT ![p].is_deleted = TRUE]
      /\ lines' = WithMarks(lines, p) /\ collections' = WithMarks(collections, p)
      /\ refunds' = WithMarks(refunds, p) /\ UNCHANGED drafts
  BY <1>2, <1>4, <1>5, <1>6, <1>7 DEF SoftDeletePurchase, WithMarks
<1>9. \A l \in L : l \in 1..Len(lines) /\ lines[l].purchase = p
  BY <1>3, <1>4 DEF LinesOf
<1>10. ListOf(ids, L)
  <2>1. L \in SUBSET (1..Len(lines))
    BY <1>9
  <2>2. /\ ids \in Seq(L)
        /\ \A j, k \in 1..Len(ids) : ids[j] = ids[k] => j = k
        /\ \A l \in L : \E j \in 1..Len(ids) : ids[j] = l
    BY <1>3, <1>5, <2>1, OrderedFacts
  <2>3. Len(ids) \in Nat
    BY <2>2
  <2> QED
    BY <2>2, <2>3 DEF ListOf
<1>11. DOMAIN ids = 1..Len(ids) /\ Len(ids) \in Nat /\ \A i \in 1..Len(ids) : ids[i] \in L
  BY <1>10 DEF ListOf
<1>12. ASSUME NEW i \in 1..Len(ids) PROVE LineUndone(parts[i], ledger, lines, p, at, ids[i])
  <2>1. PICK l : l = ids[i]
    OBVIOUS
  <2>2. l \in 1..Len(lines) /\ l \in Nat /\ lines[l].purchase = p
    BY <1>3, <1>9, <1>11, <2>1
  <2>3. lines[l].product \in Products /\ at \in Locations
    BY <1>1, <1>4, <2>2, TableTypes
  <2>4. LineUndone(LineReversal(p, l), ledger, lines, p, at, l)
    BY <1>1, <1>3, <1>4, <2>2, <2>3, LineReversalFacts
  <2>5. parts[i] = LineReversal(p, l)
    BY <1>6, <1>11, <2>1
  <2> QED
    BY <2>1, <2>4, <2>5
<1>13. parts \in Seq(Seq(Rows)) /\ Len(parts) = Len(ids)
  <2>1. PICK n \in Nat : n = Len(ids)
    BY <1>11
  <2>2. \A i \in 1..n : parts[i] \in Seq(Rows)
    BY <1>12, <2>1 DEF LineUndone
  <2>3. parts = [i \in 1..n |-> parts[i]]
    BY <1>6, <1>11, <2>1
  <2>4. parts \in [1..n -> Seq(Rows)]
    BY <2>2, <2>3
  <2>5. parts \in Seq(Seq(Rows)) /\ Len(parts) = n
    BY <2>4
  <2> QED
    BY <2>1, <2>5
<1>14. BacksOut(moves, ledger, lines, p, at, L)
  BY <1>1, <1>7, <1>10, <1>12, <1>13, LinesUndone
<1>15. ledger' = ledger \o moves /\ Sound(Book)'
  <2>1. CASE moves = << >>
    BY <1>1, <1>8, <2>1, InstallSame
  <2>2. CASE moves # << >>
    BY <1>8, <2>2, PostStep
  <2> QED
    BY <2>1, <2>2
<1>16. Good(ledger \o moves, [purchases EXCEPT ![p].is_deleted = TRUE], WithMarks(lines, p),
            WithMarks(collections, p), WithMarks(refunds, p))
  <2>1. PICK qs, mns, now, then :
           /\ qs = [purchases EXCEPT ![p].is_deleted = TRUE] /\ mns = WithMarks(lines, p)
           /\ now = WithMarks(collections, p) /\ then = WithMarks(refunds, p)
    OBVIOUS
  <2>2. AllMarked(purchases, lines, collections, refunds, qs, mns, now, then, p)
    BY <1>1, <1>3, <2>1, MarksFacts
  <2>3. BacksOut(moves, ledger, lines, p, purchases[p].location, LinesOf(lines, p))
    BY <1>4, <1>14
  <2>4. Good(ledger \o moves, qs, mns, now, then)
    BY <1>1, <1>3, <1>8, <2>2, <2>3, DeletedGood
  <2> QED
    BY <2>1, <2>4
<1>17. Good(ledger', purchases', lines', collections', refunds')
  BY <1>8, <1>15, <1>16
<1> QED
  BY <1>1, <1>8, <1>15, <1>17 DEF Inv
=============================================================================
