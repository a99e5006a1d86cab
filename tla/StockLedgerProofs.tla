------------------------- MODULE StockLedgerProofs -------------------------
(***************************************************************************)
(* What every stock service's proof rests on, for every sequence, amount   *)
(* and quantity: sums over sequences, rounding and sharing, rollups,       *)
(* posting and the carrying average.  At the end, the theorems about the   *)
(* posting service under arbitrary callers (LedgerService) and about what  *)
(* the reports show of it (StockReports).                                  *)
(*                                                                         *)
(* The inductive invariant of the service is that the book is sound: typed *)
(* rows, and every balance the rollup of the ledger.  It is preserved      *)
(* because the rollup of a concatenation is the sum of the rollups         *)
(* (RollupConcat).  What the reports leave out is a matter of sums over    *)
(* finite sets of products and locations.                                  *)
(*                                                                         *)
(* tlapm cannot instantiate an induction principle stated for predicates,  *)
(* so induction is done on sets of numbers (NatSetInduction), from the     *)
(* fact that < is well-founded on Nat.                                     *)
(***************************************************************************)
EXTENDS Carrying, LedgerService, StockReports,
        SequenceTheorems, FiniteSetTheorems, WellFoundedInduction, TLAPS

-----------------------------------------------------------------------------
(* Sums *)

\* A set of naturals that contains 0 and is closed under successor is Nat.
LEMMA NatSetInduction ==
    ASSUME NEW T, 0 \in T, \A n \in Nat : n \in T => n + 1 \in T
    PROVE  \A n \in Nat : n \in T
<1>1. SUFFICES ASSUME Nat \ T # {} PROVE FALSE
  OBVIOUS
<1>2. IsWellFoundedOn(OpToRel(<, Nat), Nat)
  BY NatLessThanWellFounded
<1>3. \E m \in Nat \ T : \A y \in Nat \ T : ~ (<<y, m>> \in OpToRel(<, Nat))
  BY <1>1, <1>2, WFMin, Zenon
<1>4. \E m \in Nat \ T : \A y \in Nat \ T : ~ (y < m)
  BY <1>3 DEF OpToRel
<1>5. PICK m \in Nat \ T : \A y \in Nat \ T : ~ (y < m)
  BY <1>4
<1>6. m # 0 /\ m - 1 \in Nat
  BY <1>5
<1>7. m - 1 \in T
  BY <1>5, <1>6
<1>8. (m - 1) + 1 \in T
  BY <1>6, <1>7
<1> QED
  BY <1>5, <1>8

\* Sequences of integers, and the recursion equation of their prefix sums.
IsPrefixSums(s, f, n) ==
    s = [k \in 0..n |-> IF k = 0 THEN 0 ELSE s[k - 1] + f[k]]

\* The recursion equation has a solution up to every length.
LEMMA PrefixSumsExist ==
    ASSUME NEW f
    PROVE  \A n \in Nat : \E s : IsPrefixSums(s, f, n)
<1> DEFINE T == {n \in Nat : \E s : IsPrefixSums(s, f, n)}
<1>1. 0 \in T
  <2>1. IsPrefixSums([k \in 0..0 |-> 0], f, 0)
    BY DEF IsPrefixSums
  <2> QED
    BY <2>1
<1>2. ASSUME NEW n \in Nat, n \in T PROVE n + 1 \in T
  <2>1. PICK s : IsPrefixSums(s, f, n)
    BY <1>2
  <2> DEFINE t == [k \in 0..(n + 1) |-> IF k = n + 1 THEN s[n] + f[n + 1] ELSE s[k]]
  <2>2. \A k \in 0..n : s[k] = IF k = 0 THEN 0 ELSE s[k - 1] + f[k]
    BY <2>1 DEF IsPrefixSums
  <2>3. \A k \in 0..(n + 1) : t[k] = IF k = 0 THEN 0 ELSE t[k - 1] + f[k]
    BY <2>2
  <2>4. IsPrefixSums(t, f, n + 1)
    BY <2>3 DEF IsPrefixSums
  <2> QED
    BY <2>4
<1> HIDE DEF T
<1>3. \A n \in Nat : n \in T
  BY <1>1, <1>2, NatSetInduction
<1> QED
  BY <1>3 DEF T

\* PrefixSums(f) is such a solution.
LEMMA PrefixSumsEquation ==
    ASSUME NEW f, Len(f) \in Nat
    PROVE  \A k \in 0..Len(f) :
              PrefixSums(f)[k] = IF k = 0 THEN 0 ELSE PrefixSums(f)[k - 1] + f[k]
<1> DEFINE sum[n \in 0..Len(f)] == IF n = 0 THEN 0 ELSE sum[n - 1] + f[n]
<1>1. \E s : s = [n \in 0..Len(f) |-> IF n = 0 THEN 0 ELSE s[n - 1] + f[n]]
  BY PrefixSumsExist DEF IsPrefixSums
<1>2. sum = [n \in 0..Len(f) |-> IF n = 0 THEN 0 ELSE sum[n - 1] + f[n]]
  BY <1>1
<1>3. PrefixSums(f) = sum
  BY DEF PrefixSums
<1> HIDE DEF sum
<1> QED
  BY <1>2, <1>3

\* The same equation, for sequences of integers, in the form the lemmas use.
LEMMA PrefixSumsStep ==
    \A f \in Seq(Int) :
        /\ PrefixSums(f)[0] = 0
        /\ \A k \in 0..(Len(f) - 1) :
              PrefixSums(f)[k + 1] = PrefixSums(f)[k] + f[k + 1]
<1>1. SUFFICES ASSUME NEW f \in Seq(Int)
               PROVE  /\ PrefixSums(f)[0] = 0
                      /\ \A k \in 0..(Len(f) - 1) :
                            PrefixSums(f)[k + 1] = PrefixSums(f)[k] + f[k + 1]
  OBVIOUS
<1>2. Len(f) \in Nat
  OBVIOUS
<1>3. \A k \in 0..Len(f) :
         PrefixSums(f)[k] = IF k = 0 THEN 0 ELSE PrefixSums(f)[k - 1] + f[k]
  BY <1>2, PrefixSumsEquation
<1>4. ASSUME NEW k \in 0..(Len(f) - 1)
      PROVE  PrefixSums(f)[k + 1] = PrefixSums(f)[k] + f[k + 1]
  <2>1. k + 1 \in 0..Len(f) /\ k + 1 # 0 /\ (k + 1) - 1 = k
    BY <1>2
  <2> QED
    BY <1>3, <2>1
<1> QED
  BY <1>2, <1>3, <1>4

\* Prefix sums of a sequence of integers are integers.
LEMMA PrefixSumsType ==
    ASSUME NEW f \in Seq(Int)
    PROVE  \A k \in 0..Len(f) : PrefixSums(f)[k] \in Int
<1> DEFINE T == {n \in Nat : n <= Len(f) => PrefixSums(f)[n] \in Int}
<1>0. \A k \in 0..Len(f) :
         PrefixSums(f)[k] = IF k = 0 THEN 0 ELSE PrefixSums(f)[k - 1] + f[k]
  BY PrefixSumsEquation
<1>1. 0 \in T
  BY <1>0
<1>2. ASSUME NEW n \in Nat, n \in T PROVE n + 1 \in T
  <2>1. CASE n + 1 <= Len(f)
    <3>1. PrefixSums(f)[n + 1] = PrefixSums(f)[n] + f[n + 1]
      BY <1>0, <2>1
    <3>2. f[n + 1] \in Int /\ PrefixSums(f)[n] \in Int
      BY <1>2, <2>1
    <3> QED
      BY <3>1, <3>2
  <2> QED
    BY <2>1
<1> HIDE DEF T
<1>3. \A n \in Nat : n \in T
  BY <1>1, <1>2, NatSetInduction
<1> QED
  BY <1>3 DEF T

\* The sum of a sequence of integers is an integer.
LEMMA SumSeqType ==
    ASSUME NEW f \in Seq(Int)
    PROVE  SumSeq(f) \in Int
BY PrefixSumsType DEF SumSeq

\* Prefix sums depend on the prefix alone.
LEMMA PrefixSumsAgree ==
    ASSUME NEW f \in Seq(Int), NEW g \in Seq(Int), Len(f) <= Len(g),
           \A i \in 1..Len(f) : f[i] = g[i]
    PROVE  \A k \in 0..Len(f) : PrefixSums(f)[k] = PrefixSums(g)[k]
<1> DEFINE T == {n \in Nat : n <= Len(f) => PrefixSums(f)[n] = PrefixSums(g)[n]}
<1>1. 0 \in T
  BY PrefixSumsStep
<1>2. ASSUME NEW n \in Nat, n \in T PROVE n + 1 \in T
  <2>1. SUFFICES ASSUME n + 1 <= Len(f)
                 PROVE  PrefixSums(f)[n + 1] = PrefixSums(g)[n + 1]
    OBVIOUS
  <2>2. n \in 0..(Len(f) - 1) /\ n \in 0..(Len(g) - 1) /\ f[n + 1] = g[n + 1]
    <3>1. Len(f) \in Nat /\ Len(g) \in Nat
      OBVIOUS
    <3>2. n + 1 \in 1..Len(f)
      BY <2>1, <3>1
    <3> QED
      BY <2>1, <3>1, <3>2
  <2>3. PrefixSums(f)[n + 1] = PrefixSums(f)[n] + f[n + 1]
    BY <2>2, PrefixSumsStep
  <2>4. PrefixSums(g)[n + 1] = PrefixSums(g)[n] + g[n + 1]
    BY <2>2, PrefixSumsStep
  <2> QED
    BY <1>2, <2>1, <2>2, <2>3, <2>4
<1> HIDE DEF T
<1>3. \A n \in Nat : n \in T
  BY <1>1, <1>2, NatSetInduction
<1> QED
  BY <1>3 DEF T

\* The empty sequence sums to zero.
LEMMA SumSeqEmpty == SumSeq(<< >>) = 0
BY PrefixSumsEquation DEF SumSeq

\* Extending a sequence by one element adds that element to the sum.
LEMMA SumSeqAppend ==
    ASSUME NEW f \in Seq(Int), NEW x \in Int
    PROVE  SumSeq(Append(f, x)) = SumSeq(f) + x
<1> DEFINE g == Append(f, x)
<1>1. g \in Seq(Int) /\ Len(g) = Len(f) + 1 /\ g[Len(f) + 1] = x
  OBVIOUS
<1>2. \A i \in 1..Len(f) : f[i] = g[i]
  OBVIOUS
<1> HIDE DEF g
<1>3. PrefixSums(g)[Len(f)] = PrefixSums(f)[Len(f)]
  BY <1>1, <1>2, PrefixSumsAgree
<1>4. PrefixSums(g)[Len(g)] = PrefixSums(g)[Len(f)] + x
  <2>1. Len(f) \in 0..(Len(g) - 1)
    BY <1>1
  <2> QED
    BY <1>1, <2>1, PrefixSumsStep
<1>5. SumSeq(g) = SumSeq(f) + x
  BY <1>1, <1>3, <1>4 DEF SumSeq
<1> QED
  BY <1>5 DEF g

\* The sum of a concatenation is the sum of the sums: posting a batch of rows
\* changes a SUM over the ledger by the batch's own SUM.
LEMMA SumSeqConcat ==
    ASSUME NEW f \in Seq(Int), NEW g \in Seq(Int)
    PROVE  SumSeq(f \o g) = SumSeq(f) + SumSeq(g)
<1> DEFINE h == f \o g
<1> DEFINE T == {n \in Nat : n <= Len(g) =>
                    PrefixSums(h)[Len(f) + n] = SumSeq(f) + PrefixSums(g)[n]}
<1>1. /\ h \in Seq(Int)
      /\ Len(h) = Len(f) + Len(g)
      /\ \A i \in 1..Len(f) : f[i] = h[i]
      /\ \A i \in 1..Len(g) : h[Len(f) + i] = g[i]
  OBVIOUS
<1> HIDE DEF h
<1>2. PrefixSums(g)[0] = 0
  BY PrefixSumsStep
<1>3. PrefixSums(h)[Len(f)] = SumSeq(f)
  <2>1. Len(f) <= Len(h) /\ Len(f) \in 0..Len(f)
    BY <1>1
  <2>2. PrefixSums(f)[Len(f)] = PrefixSums(h)[Len(f)]
    BY <1>1, <2>1, PrefixSumsAgree
  <2> QED
    BY <2>2 DEF SumSeq
<1>4. SumSeq(f) \in Int /\ \A k \in 0..Len(g) : PrefixSums(g)[k] \in Int
  BY SumSeqType, PrefixSumsType
<1>5. 0 \in T
  BY <1>2, <1>3, <1>4
<1>6. ASSUME NEW n \in Nat, n \in T PROVE n + 1 \in T
  <2>1. SUFFICES ASSUME n + 1 <= Len(g)
                 PROVE  PrefixSums(h)[Len(f) + (n + 1)] = SumSeq(f) + PrefixSums(g)[n + 1]
    OBVIOUS
  <2>2. PrefixSums(h)[Len(f) + n] = SumSeq(f) + PrefixSums(g)[n]
    BY <1>6, <2>1
  <2>3. PrefixSums(h)[Len(f) + (n + 1)] = PrefixSums(h)[Len(f) + n] + h[Len(f) + (n + 1)]
    <3>1. Len(f) + n \in 0..(Len(h) - 1) /\ (Len(f) + n) + 1 = Len(f) + (n + 1)
      BY <1>1, <2>1
    <3> QED
      BY <1>1, <3>1, PrefixSumsStep
  <2>4. PrefixSums(g)[n + 1] = PrefixSums(g)[n] + g[n + 1]
    <3>1. n \in 0..(Len(g) - 1)
      BY <2>1
    <3> QED
      BY <3>1, PrefixSumsStep
  <2>5. h[Len(f) + (n + 1)] = g[n + 1] /\ g[n + 1] \in Int
    BY <1>1, <2>1
  <2>6. PrefixSums(g)[n] \in Int
    BY <1>4, <2>1
  <2> QED
    BY <1>4, <2>2, <2>3, <2>4, <2>5, <2>6
<1> HIDE DEF T
<1>7. \A n \in Nat : n \in T
  BY <1>5, <1>6, NatSetInduction
<1>8. PrefixSums(h)[Len(f) + Len(g)] = SumSeq(f) + PrefixSums(g)[Len(g)]
  BY <1>7 DEF T
<1> QED
  BY <1>1, <1>8 DEF SumSeq, h

\* A number among zeros is the sum.
LEMMA SumSeqOne ==
    ASSUME NEW f \in Seq(Int), NEW j \in 1..Len(f), \A i \in 1..Len(f) : i # j => f[i] = 0
    PROVE  SumSeq(f) = f[j]
<1> DEFINE T == {n \in Nat : n <= Len(f) => PrefixSums(f)[n] = IF n < j THEN 0 ELSE f[j]}
<1>1. /\ PrefixSums(f)[0] = 0
      /\ \A k \in 0..(Len(f) - 1) : PrefixSums(f)[k + 1] = PrefixSums(f)[k] + f[k + 1]
  BY PrefixSumsStep
<1>2. 0 \in T
  BY <1>1
<1>3. ASSUME NEW n \in Nat, n \in T PROVE n + 1 \in T
  <2>1. SUFFICES ASSUME n + 1 <= Len(f)
                 PROVE  PrefixSums(f)[n + 1] = IF n + 1 < j THEN 0 ELSE f[j]
    OBVIOUS
  <2>2. PrefixSums(f)[n + 1] = (IF n < j THEN 0 ELSE f[j]) + f[n + 1]
    BY <1>1, <1>3, <2>1
  <2>3. f[j] \in Int /\ j \in Nat
    OBVIOUS
  <2>4. CASE n + 1 = j
    BY <2>2, <2>3, <2>4
  <2>5. CASE n + 1 # j
    <3>1. f[n + 1] = 0
      BY <2>1, <2>5
    <3> QED
      BY <2>2, <2>3, <2>5, <3>1
  <2> QED
    BY <2>4, <2>5
<1> HIDE DEF T
<1>4. \A n \in Nat : n \in T
  BY <1>2, <1>3, NatSetInduction
<1>5. Len(f) \in T /\ j <= Len(f) /\ j \in Nat
  BY <1>4
<1> QED
  BY <1>5 DEF T, SumSeq

\* Zeros sum to zero.
LEMMA SumSeqZero ==
    ASSUME NEW f \in Seq(Int), \A i \in 1..Len(f) : f[i] = 0
    PROVE  SumSeq(f) = 0
<1> DEFINE T == {n \in Nat : n <= Len(f) => PrefixSums(f)[n] = 0}
<1>1. 0 \in T
  BY PrefixSumsStep
<1>2. ASSUME NEW n \in Nat, n \in T PROVE n + 1 \in T
  <2>1. SUFFICES ASSUME n + 1 <= Len(f)
                 PROVE  PrefixSums(f)[n + 1] = 0
    OBVIOUS
  <2>2. n \in 0..(Len(f) - 1) /\ f[n + 1] = 0
    BY <2>1
  <2>3. PrefixSums(f)[n + 1] = PrefixSums(f)[n] + f[n + 1]
    BY <2>2, PrefixSumsStep
  <2> QED
    BY <1>2, <2>1, <2>2, <2>3
<1> HIDE DEF T
<1>3. \A n \in Nat : n \in T
  BY <1>1, <1>2, NatSetInduction
<1> QED
  BY <1>3 DEF T, SumSeq

\* Numbers below or at zero sum to one of them.
LEMMA SumSeqNotPositive ==
    ASSUME NEW f \in Seq(Int), \A i \in 1..Len(f) : f[i] <= 0
    PROVE  SumSeq(f) <= 0
<1> DEFINE T == {n \in Nat : n <= Len(f) => PrefixSums(f)[n] <= 0}
<1>1. 0 \in T
  BY PrefixSumsStep
<1>2. ASSUME NEW n \in Nat, n \in T PROVE n + 1 \in T
  <2>1. SUFFICES ASSUME n + 1 <= Len(f)
                 PROVE  PrefixSums(f)[n + 1] <= 0
    OBVIOUS
  <2>2. n \in 0..(Len(f) - 1) /\ f[n + 1] \in Int /\ f[n + 1] <= 0
    BY <2>1
  <2>3. PrefixSums(f)[n + 1] = PrefixSums(f)[n] + f[n + 1]
    BY <2>2, PrefixSumsStep
  <2>4. PrefixSums(f)[n] \in Int
    BY <2>2, PrefixSumsType
  <2> QED
    BY <1>2, <2>1, <2>2, <2>3, <2>4
<1> HIDE DEF T
<1>3. \A n \in Nat : n \in T
  BY <1>1, <1>2, NatSetInduction
<1> QED
  BY <1>3 DEF T, SumSeq

\* Sums of two sequences added element by element add up.
LEMMA SumSeqPlus ==
    ASSUME NEW f \in Seq(Int), NEW g \in Seq(Int), NEW h \in Seq(Int),
           Len(f) = Len(h), Len(g) = Len(h), \A i \in 1..Len(h) : h[i] = f[i] + g[i]
    PROVE  SumSeq(h) = SumSeq(f) + SumSeq(g)
<1> DEFINE T == {n \in Nat : n <= Len(h) =>
                               PrefixSums(h)[n] = PrefixSums(f)[n] + PrefixSums(g)[n]}
<1>1. \A e \in {f, g, h} :
         /\ PrefixSums(e)[0] = 0
         /\ \A k \in 0..(Len(e) - 1) : PrefixSums(e)[k + 1] = PrefixSums(e)[k] + e[k + 1]
         /\ \A k \in 0..Len(e) : PrefixSums(e)[k] \in Int
  BY PrefixSumsStep, PrefixSumsType
<1>2. 0 \in T
  BY <1>1
<1>3. ASSUME NEW n \in Nat, n \in T PROVE n + 1 \in T
  <2>1. SUFFICES ASSUME n + 1 <= Len(h)
                 PROVE  PrefixSums(h)[n + 1] = PrefixSums(f)[n + 1] + PrefixSums(g)[n + 1]
    OBVIOUS
  <2>2. n \in 0..(Len(h) - 1) /\ n \in 0..Len(h) /\ n + 1 \in 1..Len(h)
    BY <2>1
  <2>3. /\ PrefixSums(h)[n + 1] = PrefixSums(h)[n] + h[n + 1]
        /\ PrefixSums(f)[n + 1] = PrefixSums(f)[n] + f[n + 1]
        /\ PrefixSums(g)[n + 1] = PrefixSums(g)[n] + g[n + 1]
    BY <1>1, <2>2
  <2>4. /\ PrefixSums(f)[n] \in Int /\ PrefixSums(g)[n] \in Int
        /\ f[n + 1] \in Int /\ g[n + 1] \in Int
    BY <1>1, <2>2
  <2>5. PrefixSums(h)[n] = PrefixSums(f)[n] + PrefixSums(g)[n]
    BY <1>3, <2>1
  <2>6. h[n + 1] = f[n + 1] + g[n + 1]
    BY <2>2
  <2>7. PICK a \in Int, b \in Int, x \in Int, y \in Int :
           /\ a = PrefixSums(f)[n] /\ b = PrefixSums(g)[n]
           /\ x = f[n + 1] /\ y = g[n + 1]
    BY <2>4
  <2>8. PrefixSums(h)[n + 1] = (a + b) + (x + y)
    BY <2>3, <2>5, <2>6, <2>7
  <2>9. PrefixSums(f)[n + 1] = a + x /\ PrefixSums(g)[n + 1] = b + y
    BY <2>3, <2>7
  <2> QED
    BY <2>8, <2>9
<1> HIDE DEF T
<1>4. \A n \in Nat : n \in T
  BY <1>2, <1>3, NatSetInduction
<1>5. Len(h) \in T
  BY <1>4
<1> QED
  BY <1>5 DEF T, SumSeq

\* A sequence of two by way of a sequence of one.
LEMMA AppendSecond ==
    ASSUME NEW x, NEW y
    PROVE  Append(<< x >>, y) = << x, y >>
<1> DEFINE S == {x, y}
           s == Append(<< x >>, y)
           t == << x, y >>
<1>1. x \in S /\ y \in S
  OBVIOUS
<1> HIDE DEF S
<1>2. s \in Seq(S) /\ Len(s) = 2 /\ s[1] = x /\ s[2] = y
  BY <1>1
<1>3. t \in Seq(S) /\ Len(t) = 2 /\ t[1] = x /\ t[2] = y
  BY <1>1
<1> HIDE DEF s, t
<1>4. \A i \in 1..Len(s) : s[i] = t[i]
  BY <1>2, <1>3
<1>5. s = t
  BY <1>2, <1>3, <1>4, SeqEqual
<1> QED
  BY <1>5 DEF s, t

-----------------------------------------------------------------------------
(* Rounding and sharing *)

\* Integer division rounds down.
LEMMA DivFloor ==
    ASSUME NEW a \in Int, NEW b \in Int, b > 0
    PROVE  /\ a \div b \in Int
           /\ (a \div b) * b <= a
           /\ a < (a \div b) * b + b
  BY SMT

\* The positive factor of an inequality can be cancelled.
LEMMA CancelFactor ==
    ASSUME NEW a \in Int, NEW b \in Int, NEW c \in Int, c > 0, a * c < b * c
    PROVE  a < b
  BY SMT

\* Rounding an amount that is not negative is off by half a unit at most.
LEMMA RoundNearest ==
    ASSUME NEW n \in Nat, NEW d \in Int, d > 0
    PROVE  /\ RoundHalfUp(n, d) \in Int
           /\ 2 * n - d < RoundHalfUp(n, d) * (2 * d)
           /\ RoundHalfUp(n, d) * (2 * d) <= 2 * n + d
<1> DEFINE r == (2 * n + d) \div (2 * d)
<1>1. RoundHalfUp(n, d) = r
  BY n >= 0 DEF RoundHalfUp
<1>2. r \in Int /\ r * (2 * d) <= 2 * n + d /\ 2 * n + d < r * (2 * d) + 2 * d
  BY DivFloor, 2 * n + d \in Int, 2 * d \in Int, 2 * d > 0
<1> HIDE DEF r
<1>3. DEFINE s == r * (2 * d)
<1>4. s \in Int
  BY <1>2
<1> HIDE DEF s
<1>5. 2 * n - d < s
  BY <1>2, <1>4 DEF s
<1> QED
  BY <1>1, <1>2, <1>5 DEF s

\* Rounding a proportion of a whole stays between nothing and the whole.
LEMMA RoundWithin ==
    ASSUME NEW n \in Nat, NEW d \in Int, d > 0, NEW whole \in Nat, n <= whole * d
    PROVE  RoundHalfUp(n, d) \in 0..whole
<1> DEFINE r == RoundHalfUp(n, d)
<1>1. /\ r \in Int
      /\ 2 * n - d < r * (2 * d)
      /\ r * (2 * d) <= 2 * n + d
  BY RoundNearest
<1> HIDE DEF r
<1>2. (-1) * (2 * d) < r * (2 * d)
  BY <1>1
<1>3. -1 < r
  BY <1>1, <1>2, CancelFactor, 2 * d \in Int, 2 * d > 0
<1>4. 2 * n + d < (whole + 1) * (2 * d)
  BY SMT
<1>5. r * (2 * d) < (whole + 1) * (2 * d)
  BY <1>1, <1>4
<1>6. r < whole + 1
  BY <1>1, <1>5, CancelFactor, 2 * d \in Int, 2 * d > 0, whole + 1 \in Int
<1> QED
  BY <1>1, <1>3, <1>6 DEF r

\* The share of q of the remaining units never takes more value than remains and
\* never gives any back, and the last units take all of it (_pending_share,
\* _transit_share: "value is conserved", "no cent residue is left behind").
THEOREM ShareWithin ==
    ASSUME NEW qty \in Nat, NEW q \in 1..qty, NEW aed \in Nat
    PROVE  Share(q, qty, aed) \in 0..aed /\ Share(qty, qty, aed) = aed
<1>1. Share(qty, qty, aed) = aed
  BY DEF Share
<1>2. CASE q = qty
  BY <1>1, <1>2
<1>3. CASE q # qty
  <2>1. aed * q \in Nat
    BY SMT
  <2>2. aed * q <= aed * qty
    BY SMT
  <2>3. RoundHalfUp(aed * q, qty) \in 0..aed
    BY <2>1, <2>2, RoundWithin, qty \in Int, qty > 0
  <2> QED
    BY <1>1, <1>3, <2>3 DEF Share
<1> QED
  BY <1>2, <1>3

\* The tax contained in a price is part of the price, at any rate: dividing by
\* 100 + rate is what keeps it so (gst_component, "part of what the goods cost").
THEOREM GstWithin ==
    ASSUME NEW gross \in Nat, NEW rate \in Nat
    PROVE  GstComponent(gross, rate) \in 0..gross
<1>1. CASE rate = 0
  BY <1>1 DEF GstComponent
<1>2. CASE rate # 0
  <2>1. gross * rate \in Nat
    BY SMT
  <2>2. gross * rate <= gross * (100 + rate)
    BY SMT
  <2> QED
    BY <1>2, <2>1, <2>2, RoundWithin, 100 + rate \in Int, 100 + rate > 0 DEF GstComponent
<1> QED
  BY <1>1, <1>2

-----------------------------------------------------------------------------
(* Rollups and posting *)

\* The selected values of typed rows form a sequence of integers.
LEMMA SelectedSeqType ==
    ASSUME NEW rows \in Seq(Rows), NEW key
    PROVE  /\ [i \in 1..Len(rows) |-> IF KeyOf(rows[i]) = key THEN rows[i].qty ELSE 0] \in Seq(Int)
           /\ [i \in 1..Len(rows) |-> IF KeyOf(rows[i]) = key THEN rows[i].aed ELSE 0] \in Seq(Int)
<1>1. ASSUME NEW i \in 1..Len(rows) PROVE rows[i].qty \in Int /\ rows[i].aed \in Int
  <2>1. rows[i] \in Rows
    OBVIOUS
  <2> QED
    BY <2>1 DEF Rows
<1> QED
  BY <1>1

\* A rollup is a pair of integers.
LEMMA RollupType ==
    ASSUME NEW rows \in Seq(Rows), NEW key
    PROVE  Rollup(rows, key) \in [qty: Int, aed: Int]
BY SelectedSeqType, SumSeqType DEF Rollup, Net, SumOf

\* The rollup of the empty ledger is zero.
LEMMA RollupEmpty ==
    ASSUME NEW key
    PROVE  Rollup(<< >>, key) = [qty |-> 0, aed |-> 0]
<1>1. [i \in 1..Len(<< >>) |-> IF KeyOf(<< >>[i]) = key THEN << >>[i].qty ELSE 0] = << >>
  OBVIOUS
<1>2. [i \in 1..Len(<< >>) |-> IF KeyOf(<< >>[i]) = key THEN << >>[i].aed ELSE 0] = << >>
  OBVIOUS
<1> QED
  BY <1>1, <1>2, SumSeqEmpty DEF Rollup, Net, SumOf

\* The rollup of a concatenation is the sum of the rollups.
LEMMA RollupConcat ==
    ASSUME NEW rows \in Seq(Rows), NEW moves \in Seq(Rows), NEW key
    PROVE  Rollup(rows \o moves, key) =
             [qty |-> Rollup(rows, key).qty + Rollup(moves, key).qty,
              aed |-> Rollup(rows, key).aed + Rollup(moves, key).aed]
<1> DEFINE Qty(s) == [i \in 1..Len(s) |-> IF KeyOf(s[i]) = key THEN s[i].qty ELSE 0]
           Aed(s) == [i \in 1..Len(s) |-> IF KeyOf(s[i]) = key THEN s[i].aed ELSE 0]
<1>1. Qty(rows) \in Seq(Int) /\ Qty(moves) \in Seq(Int)
  BY SelectedSeqType
<1>2. Aed(rows) \in Seq(Int) /\ Aed(moves) \in Seq(Int)
  BY SelectedSeqType
<1>3. Qty(rows \o moves) = Qty(rows) \o Qty(moves)
  OBVIOUS
<1>4. Aed(rows \o moves) = Aed(rows) \o Aed(moves)
  OBVIOUS
<1>5. \A s : Rollup(s, key) = [qty |-> SumSeq(Qty(s)), aed |-> SumSeq(Aed(s))]
  BY DEF Rollup, Net, SumOf
<1> HIDE DEF Qty, Aed
<1>6. SumSeq(Qty(rows \o moves)) = SumSeq(Qty(rows)) + SumSeq(Qty(moves))
  BY <1>1, <1>3, SumSeqConcat
<1>7. SumSeq(Aed(rows \o moves)) = SumSeq(Aed(rows)) + SumSeq(Aed(moves))
  BY <1>2, <1>4, SumSeqConcat
<1> QED
  BY <1>5, <1>6, <1>7

\* The rollup of a single row.
LEMMA RollupSingle ==
    ASSUME NEW row \in Rows, NEW key
    PROVE  Rollup(<< row >>, key).qty = IF KeyOf(row) = key THEN row.qty ELSE 0
<1> DEFINE x == IF KeyOf(row) = key THEN row.qty ELSE 0
<1>1. x \in Int
  BY DEF Rows
<1>2. [i \in 1..Len(<< row >>) |->
          IF KeyOf(<< row >>[i]) = key THEN << row >>[i].qty ELSE 0] = Append(<< >>, x)
  OBVIOUS
<1>3. Rollup(<< row >>, key).qty = SumSeq(Append(<< >>, x))
  BY <1>2 DEF Rollup, Net, SumOf
<1> HIDE DEF x
<1>4. SumSeq(Append(<< >>, x)) = SumSeq(<< >>) + x
  <2>1. << >> \in Seq(Int)
    OBVIOUS
  <2> QED
    BY <1>1, <2>1, SumSeqAppend
<1> QED
  BY <1>1, <1>3, <1>4, SumSeqEmpty DEF x

\* A book is sound when its rows are typed and each balance is the rollup.
Sound(book) ==
    /\ book.ledger \in Seq(Rows)
    /\ book.balance = [k \in Keys |-> Rollup(book.ledger, k)]

\* Posting valid movements keeps a book sound.
LEMMA PostedSound ==
    ASSUME NEW book, Sound(book), NEW moves \in Seq(Rows)
    PROVE  Sound(Posted(book, moves))
<1> DEFINE new == Posted(book, moves)
<1>1. new.ledger = book.ledger \o moves /\ new.ledger \in Seq(Rows)
  BY DEF Posted, Sound
<1>2. new.balance = [k \in Keys |-> [qty |-> book.balance[k].qty + Rollup(moves, k).qty,
                                     aed |-> book.balance[k].aed + Rollup(moves, k).aed]]
  BY DEF Posted
<1>3. ASSUME NEW k \in Keys
      PROVE  Rollup(new.ledger, k) = [qty |-> book.balance[k].qty + Rollup(moves, k).qty,
                                      aed |-> book.balance[k].aed + Rollup(moves, k).aed]
  <2>1. Rollup(book.ledger \o moves, k) =
             [qty |-> Rollup(book.ledger, k).qty + Rollup(moves, k).qty,
              aed |-> Rollup(book.ledger, k).aed + Rollup(moves, k).aed]
    BY RollupConcat DEF Sound
  <2>2. book.balance[k] = Rollup(book.ledger, k)
    BY DEF Sound
  <2> QED
    BY <1>1, <2>1, <2>2
<1> HIDE DEF new
<1>4. new.balance = [k \in Keys |-> Rollup(new.ledger, k)]
  BY <1>2, <1>3
<1>5. Sound(new)
  BY <1>1, <1>4 DEF Sound
<1> QED
  BY <1>5 DEF new

\* The empty book is sound.
LEMMA EmptySound ==
    Sound([ledger |-> << >>, balance |-> [k \in Keys |-> [qty |-> 0, aed |-> 0]]])
BY RollupEmpty DEF Sound

\* A post appends movements and installs the book they lead to.
LEMMA PostFacts ==
    ASSUME NEW moves, NEW confirm, Post(moves, confirm)
    PROVE  /\ moves \in Seq(Rows)
           /\ Book' = Posted(Book, moves)
           /\ ledger' = ledger \o moves
BY DEF Post, CanPost, ValidMovements, Install, Posted, Book

\* A step that posts keeps the book sound.
LEMMA PostSound ==
    ASSUME Sound(Book), NEW moves, NEW confirm, Post(moves, confirm)
    PROVE  Sound(Book)'
<1>1. Book' = Posted(Book, moves) /\ moves \in Seq(Rows)
  BY PostFacts
<1>2. Sound(Posted(Book, moves))
  BY <1>1, PostedSound
<1> QED
  BY <1>1, <1>2 DEF Sound

\* If no movement out of a PHYSICAL balance ends below zero, the balance that
\* started at or above zero is so after every prefix of the movements.
LEMMA CoveredPrefixes ==
    ASSUME NEW book, NEW moves \in Seq(Rows), StaysCovered(book, moves),
           NEW key, key[3] = "PHYSICAL",
           book.balance[key].qty \in Int, book.balance[key].qty >= 0
    PROVE  \A n \in Nat : n <= Len(moves) =>
              book.balance[key].qty + Rollup(SubSeq(moves, 1, n), key).qty >= 0
<1> DEFINE T == {n \in Nat : n <= Len(moves) =>
                    book.balance[key].qty + Rollup(SubSeq(moves, 1, n), key).qty >= 0}
<1>1. 0 \in T
  <2> DEFINE none == SubSeq(moves, 1, 0)
  <2>1. none = << >>
    OBVIOUS
  <2>2. Rollup(<< >>, key) = [qty |-> 0, aed |-> 0]
    BY RollupEmpty
  <2> HIDE DEF none
  <2>3. book.balance[key].qty + Rollup(none, key).qty >= 0
    BY <2>1, <2>2
  <2> QED
    BY <2>3 DEF none
<1>2. ASSUME NEW n \in Nat, n \in T PROVE n + 1 \in T
  <2>1. SUFFICES ASSUME n + 1 <= Len(moves)
                 PROVE  book.balance[key].qty + Rollup(SubSeq(moves, 1, n + 1), key).qty >= 0
    OBVIOUS
  <2>2. n + 1 \in DOMAIN moves /\ moves[n + 1] \in Rows
    BY <2>1
  <2>3. CASE KeyOf(moves[n + 1]) = key /\ moves[n + 1].qty < 0
    <3>1. moves[n + 1].bucket = "PHYSICAL"
      BY <2>3 DEF KeyOf
    <3>2. RunningQty(book, moves, n + 1) >= 0
      BY <2>2, <2>3, <3>1 DEF StaysCovered
    <3> QED
      BY <2>3, <3>2 DEF RunningQty
  <2>4. CASE ~(KeyOf(moves[n + 1]) = key /\ moves[n + 1].qty < 0)
    <3> DEFINE one == << moves[n + 1] >>
    <3>1. /\ SubSeq(moves, 1, n + 1) = SubSeq(moves, 1, n) \o one
          /\ SubSeq(moves, 1, n) \in Seq(Rows)
          /\ one \in Seq(Rows)
      BY <2>1, <2>2
    <3> HIDE DEF one
    <3>2. Rollup(SubSeq(moves, 1, n + 1), key).qty =
             Rollup(SubSeq(moves, 1, n), key).qty + Rollup(one, key).qty
      <4> DEFINE some == SubSeq(moves, 1, n)
      <4>1. some \in Seq(Rows) /\ one \in Seq(Rows)
        BY <3>1
      <4> HIDE DEF some
      <4>2. Rollup(some \o one, key) =
              [qty |-> Rollup(some, key).qty + Rollup(one, key).qty,
               aed |-> Rollup(some, key).aed + Rollup(one, key).aed]
        BY <4>1, RollupConcat
      <4>3. Rollup(some \o one, key).qty = Rollup(some, key).qty + Rollup(one, key).qty
        BY <4>2
      <4> QED
        BY <3>1, <4>3 DEF some
    <3>3. Rollup(one, key).qty = IF KeyOf(moves[n + 1]) = key THEN moves[n + 1].qty ELSE 0
      BY <2>2, RollupSingle DEF one
    <3>4. moves[n + 1].qty \in Int
      BY <2>2 DEF Rows
    <3>5. Rollup(one, key).qty >= 0 /\ Rollup(one, key).qty \in Int
      BY <2>4, <3>3, <3>4
    <3>6. Rollup(SubSeq(moves, 1, n), key).qty \in Int
      BY <3>1, RollupType
    <3> QED
      BY <1>2, <2>1, <3>2, <3>5, <3>6
  <2> QED
    BY <2>3, <2>4
<1> HIDE DEF T
<1>3. \A n \in Nat : n \in T
  BY <1>1, <1>2, NatSetInduction
<1> QED
  BY <1>3 DEF T

\* In particular it is so after all of them.
LEMMA CoveredEndsCovered ==
    ASSUME NEW book, NEW moves \in Seq(Rows), StaysCovered(book, moves),
           NEW key, key[3] = "PHYSICAL",
           book.balance[key].qty \in Int, book.balance[key].qty >= 0
    PROVE  book.balance[key].qty + Rollup(moves, key).qty >= 0
<1>1. Len(moves) \in Nat /\ Len(moves) <= Len(moves) /\ SubSeq(moves, 1, Len(moves)) = moves
  OBVIOUS
<1>2. \A n \in Nat : n <= Len(moves) =>
         book.balance[key].qty + Rollup(SubSeq(moves, 1, n), key).qty >= 0
  BY CoveredPrefixes
<1> QED
  BY <1>1, <1>2

-----------------------------------------------------------------------------
(* Sums over a set of rows: the same facts for every query the services make *)

\* What the rows of a set add up to.
NetIn(rows, S) == Net(rows, LAMBDA row : row \in S)

NoStock == [qty |-> 0, aed |-> 0]

\* The sum of two amounts of stock.
Plus(x, y) == [qty |-> x.qty + y.qty, aed |-> x.aed + y.aed]

\* The selected values of typed rows form a sequence of integers.
LEMMA SelectedInType ==
    ASSUME NEW rows \in Seq(Rows), NEW S
    PROVE  /\ [i \in 1..Len(rows) |-> IF rows[i] \in S THEN rows[i].qty ELSE 0] \in Seq(Int)
           /\ [i \in 1..Len(rows) |-> IF rows[i] \in S THEN rows[i].aed ELSE 0] \in Seq(Int)
<1>1. ASSUME NEW i \in 1..Len(rows) PROVE rows[i].qty \in Int /\ rows[i].aed \in Int
  <2>1. rows[i] \in Rows
    OBVIOUS
  <2> QED
    BY <2>1 DEF Rows
<1> QED
  BY <1>1

\* What rows add up to is a pair of integers.
LEMMA NetInType ==
    ASSUME NEW rows \in Seq(Rows), NEW S
    PROVE  NetIn(rows, S) \in [qty: Int, aed: Int]
BY SelectedInType, SumSeqType DEF NetIn, Net, SumOf

\* No rows add up to nothing.
LEMMA NetInEmpty ==
    ASSUME NEW S
    PROVE  NetIn(<< >>, S) = NoStock
<1>1. [i \in 1..Len(<< >>) |-> IF << >>[i] \in S THEN << >>[i].qty ELSE 0] = << >>
  OBVIOUS
<1>2. [i \in 1..Len(<< >>) |-> IF << >>[i] \in S THEN << >>[i].aed ELSE 0] = << >>
  OBVIOUS
<1> QED
  BY <1>1, <1>2, SumSeqEmpty DEF NetIn, Net, SumOf, NoStock

\* What was posted before and what is posted now add up.
LEMMA NetInConcat ==
    ASSUME NEW rows \in Seq(Rows), NEW moves \in Seq(Rows), NEW S
    PROVE  NetIn(rows \o moves, S) = Plus(NetIn(rows, S), NetIn(moves, S))
<1> DEFINE Qty(s) == [i \in 1..Len(s) |-> IF s[i] \in S THEN s[i].qty ELSE 0]
           Aed(s) == [i \in 1..Len(s) |-> IF s[i] \in S THEN s[i].aed ELSE 0]
<1>1. Qty(rows) \in Seq(Int) /\ Qty(moves) \in Seq(Int)
  BY SelectedInType
<1>2. Aed(rows) \in Seq(Int) /\ Aed(moves) \in Seq(Int)
  BY SelectedInType
<1>3. Qty(rows \o moves) = Qty(rows) \o Qty(moves)
  OBVIOUS
<1>4. Aed(rows \o moves) = Aed(rows) \o Aed(moves)
  OBVIOUS
<1>5. \A s : NetIn(s, S) = [qty |-> SumSeq(Qty(s)), aed |-> SumSeq(Aed(s))]
  BY DEF NetIn, Net, SumOf
<1> HIDE DEF Qty, Aed
<1>6. SumSeq(Qty(rows \o moves)) = SumSeq(Qty(rows)) + SumSeq(Qty(moves))
  BY <1>1, <1>3, SumSeqConcat
<1>7. SumSeq(Aed(rows \o moves)) = SumSeq(Aed(rows)) + SumSeq(Aed(moves))
  BY <1>2, <1>4, SumSeqConcat
<1> QED
  BY <1>5, <1>6, <1>7 DEF Plus

\* Rows of one kind or the other, of two that have none in common.
LEMMA NetInUnion ==
    ASSUME NEW rows \in Seq(Rows), NEW S, NEW T, S \intersect T = {}
    PROVE  NetIn(rows, S \union T) = Plus(NetIn(rows, S), NetIn(rows, T))
<1> DEFINE Qty(s) == [i \in 1..Len(rows) |-> IF rows[i] \in s THEN rows[i].qty ELSE 0]
           Aed(s) == [i \in 1..Len(rows) |-> IF rows[i] \in s THEN rows[i].aed ELSE 0]
<1>1. ASSUME NEW s PROVE Qty(s) \in Seq(Int) /\ Aed(s) \in Seq(Int)
  BY SelectedInType
<1>2. \A i \in 1..Len(rows) : rows[i].qty \in Int /\ rows[i].aed \in Int
  <2>1. \A i \in 1..Len(rows) : rows[i] \in Rows
    OBVIOUS
  <2> QED
    BY <2>1 DEF Rows
<1>3. \A s : Len(Qty(s)) = Len(rows) /\ Len(Aed(s)) = Len(rows)
  OBVIOUS
<1>4. \A i \in 1..Len(rows) : /\ Qty(S \union T)[i] = Qty(S)[i] + Qty(T)[i]
                              /\ Aed(S \union T)[i] = Aed(S)[i] + Aed(T)[i]
  BY <1>2
<1>5. \A s : NetIn(rows, s) = [qty |-> SumSeq(Qty(s)), aed |-> SumSeq(Aed(s))]
  BY DEF NetIn, Net, SumOf
<1> HIDE DEF Qty, Aed
<1>6. SumSeq(Qty(S \union T)) = SumSeq(Qty(S)) + SumSeq(Qty(T))
  <2>1. PICK f \in Seq(Int), g \in Seq(Int), h \in Seq(Int) :
           f = Qty(S) /\ g = Qty(T) /\ h = Qty(S \union T)
    BY <1>1
  <2>2. Len(f) = Len(h) /\ Len(g) = Len(h) /\ \A i \in 1..Len(h) : h[i] = f[i] + g[i]
    BY <1>3, <1>4, <2>1
  <2>3. SumSeq(h) = SumSeq(f) + SumSeq(g)
    BY <2>2, SumSeqPlus
  <2> QED
    BY <2>1, <2>3
<1>7. SumSeq(Aed(S \union T)) = SumSeq(Aed(S)) + SumSeq(Aed(T))
  <2>1. PICK f \in Seq(Int), g \in Seq(Int), h \in Seq(Int) :
           f = Aed(S) /\ g = Aed(T) /\ h = Aed(S \union T)
    BY <1>1
  <2>2. Len(f) = Len(h) /\ Len(g) = Len(h) /\ \A i \in 1..Len(h) : h[i] = f[i] + g[i]
    BY <1>3, <1>4, <2>1
  <2>3. SumSeq(h) = SumSeq(f) + SumSeq(g)
    BY <2>2, SumSeqPlus
  <2> QED
    BY <2>1, <2>3
<1> QED
  BY <1>5, <1>6, <1>7 DEF Plus

\* One row adds what it carries if it is selected, and nothing otherwise.
LEMMA NetInSingle ==
    ASSUME NEW row \in Rows, NEW S
    PROVE  NetIn(<< row >>, S) = IF row \in S THEN [qty |-> row.qty, aed |-> row.aed]
                                             ELSE NoStock
<1> DEFINE x == IF row \in S THEN row.qty ELSE 0
           y == IF row \in S THEN row.aed ELSE 0
<1>1. x \in Int /\ y \in Int
  BY DEF Rows
<1>2. [i \in 1..Len(<< row >>) |->
          IF << row >>[i] \in S THEN << row >>[i].qty ELSE 0] = Append(<< >>, x)
  OBVIOUS
<1>3. [i \in 1..Len(<< row >>) |->
          IF << row >>[i] \in S THEN << row >>[i].aed ELSE 0] = Append(<< >>, y)
  OBVIOUS
<1>4. NetIn(<< row >>, S) = [qty |-> SumSeq(Append(<< >>, x)), aed |-> SumSeq(Append(<< >>, y))]
  BY <1>2, <1>3 DEF NetIn, Net, SumOf
<1> HIDE DEF x, y
<1>5. ASSUME NEW z \in Int PROVE SumSeq(Append(<< >>, z)) = z
  <2>1. << >> \in Seq(Int)
    OBVIOUS
  <2>2. SumSeq(Append(<< >>, z)) = SumSeq(<< >>) + z
    BY <2>1, SumSeqAppend
  <2> QED
    BY <2>2, SumSeqEmpty
<1>6. NetIn(<< row >>, S) = [qty |-> x, aed |-> y]
  BY <1>1, <1>4, <1>5
<1> QED
  BY <1>6 DEF x, y, NoStock

\* Rows outside the set add nothing.
LEMMA NetInNone ==
    ASSUME NEW rows \in Seq(Rows), NEW S, \A i \in 1..Len(rows) : rows[i] \notin S
    PROVE  NetIn(rows, S) = NoStock
<1> DEFINE Qty == [i \in 1..Len(rows) |-> IF rows[i] \in S THEN rows[i].qty ELSE 0]
           Aed == [i \in 1..Len(rows) |-> IF rows[i] \in S THEN rows[i].aed ELSE 0]
<1>1. Qty \in Seq(Int) /\ Aed \in Seq(Int)
  BY SelectedInType
<1>2. (\A i \in 1..Len(Qty) : Qty[i] = 0) /\ (\A i \in 1..Len(Aed) : Aed[i] = 0)
  OBVIOUS
<1>3. NetIn(rows, S) = [qty |-> SumSeq(Qty), aed |-> SumSeq(Aed)]
  BY DEF NetIn, Net, SumOf
<1> HIDE DEF Qty, Aed
<1> QED
  BY <1>1, <1>2, <1>3, SumSeqZero DEF NoStock

\* One selected row among others carries all they add up to.
LEMMA NetInOne ==
    ASSUME NEW rows \in Seq(Rows), NEW S, NEW j \in 1..Len(rows),
           \A i \in 1..Len(rows) : rows[i] \in S <=> i = j
    PROVE  NetIn(rows, S) = [qty |-> rows[j].qty, aed |-> rows[j].aed]
<1> DEFINE Qty == [i \in 1..Len(rows) |-> IF rows[i] \in S THEN rows[i].qty ELSE 0]
           Aed == [i \in 1..Len(rows) |-> IF rows[i] \in S THEN rows[i].aed ELSE 0]
<1>1. Qty \in Seq(Int) /\ Aed \in Seq(Int)
  BY SelectedInType
<1>2. Len(Qty) = Len(rows) /\ Len(Aed) = Len(rows)
  OBVIOUS
<1>3. \A i \in 1..Len(rows) : i # j => Qty[i] = 0 /\ Aed[i] = 0
  OBVIOUS
<1>4. Qty[j] = rows[j].qty /\ Aed[j] = rows[j].aed
  OBVIOUS
<1>5. NetIn(rows, S) = [qty |-> SumSeq(Qty), aed |-> SumSeq(Aed)]
  BY DEF NetIn, Net, SumOf
<1> HIDE DEF Qty, Aed
<1>6. SumSeq(Qty) = Qty[j]
  BY <1>1, <1>2, <1>3, SumSeqOne
<1>7. SumSeq(Aed) = Aed[j]
  BY <1>1, <1>2, <1>3, SumSeqOne
<1> QED
  BY <1>4, <1>5, <1>6, <1>7

-----------------------------------------------------------------------------
(* Filtered sequences *)

\* The recursion equation of KeptPrefixes, up to n.
AreKept(f, s, I, n) ==
    f = [k \in 0..n |-> IF k = 0 THEN << >>
                        ELSE IF k \in I THEN Append(f[k - 1], s[k]) ELSE f[k - 1]]

\* It has a solution up to every length.
LEMMA KeptExist ==
    ASSUME NEW s, NEW I
    PROVE  \A n \in Nat : \E f : AreKept(f, s, I, n)
<1> DEFINE T == {n \in Nat : \E f : AreKept(f, s, I, n)}
           More(kept, k) == IF k \in I THEN Append(kept, s[k]) ELSE kept
<1>1. 0 \in T
  <2>1. AreKept([k \in 0..0 |-> << >>], s, I, 0)
    BY DEF AreKept
  <2> QED
    BY <2>1
<1>2. ASSUME NEW n \in Nat, n \in T PROVE n + 1 \in T
  <2>1. PICK f : AreKept(f, s, I, n)
    BY <1>2
  <2>2. f = [k \in 0..n |-> IF k = 0 THEN << >> ELSE More(f[k - 1], k)]
    BY <2>1 DEF AreKept
  <2> HIDE DEF More
  <2> DEFINE g == [k \in 0..(n + 1) |-> IF k = n + 1 THEN More(f[n], n + 1) ELSE f[k]]
  <2>3. \A k \in 0..n : f[k] = IF k = 0 THEN << >> ELSE More(f[k - 1], k)
    BY <2>2
  <2>4. \A k \in 0..(n + 1) : g[k] = IF k = 0 THEN << >> ELSE More(g[k - 1], k)
    BY <2>3
  <2>5. g = [k \in 0..(n + 1) |-> IF k = 0 THEN << >> ELSE More(g[k - 1], k)]
    BY <2>4
  <2> HIDE DEF g
  <2>6. AreKept(g, s, I, n + 1)
    BY <2>5 DEF AreKept, More
  <2> QED
    BY <2>6
<1> HIDE DEF T
<1>3. \A n \in Nat : n \in T
  BY <1>1, <1>2, NatSetInduction
<1> QED
  BY <1>3 DEF T

\* KeptPrefixes is such a solution.
LEMMA KeptEquation ==
    ASSUME NEW s, NEW I, Len(s) \in Nat
    PROVE  \A k \in 0..Len(s) :
              KeptPrefixes(s, I)[k] =
                 IF k = 0 THEN << >>
                 ELSE IF k \in I THEN Append(KeptPrefixes(s, I)[k - 1], s[k])
                 ELSE KeptPrefixes(s, I)[k - 1]
<1> DEFINE kept[n \in 0..Len(s)] ==
               IF n = 0 THEN << >>
               ELSE IF n \in I THEN Append(kept[n - 1], s[n]) ELSE kept[n - 1]
<1>1. \E f : f = [n \in 0..Len(s) |->
                     IF n = 0 THEN << >>
                     ELSE IF n \in I THEN Append(f[n - 1], s[n]) ELSE f[n - 1]]
  <2>1. PICK f : AreKept(f, s, I, Len(s))
    BY KeptExist
  <2> QED
    BY <2>1 DEF AreKept
<1>2. kept = [n \in 0..Len(s) |->
                 IF n = 0 THEN << >>
                 ELSE IF n \in I THEN Append(kept[n - 1], s[n]) ELSE kept[n - 1]]
  BY <1>1
<1>3. KeptPrefixes(s, I) = kept
  BY DEF KeptPrefixes
<1> HIDE DEF kept
<1> QED
  BY <1>2, <1>3

\* What is kept was there, at one of the positions.
LEMMA KeptType ==
    ASSUME NEW X, NEW s \in Seq(X), NEW I
    PROVE  /\ Kept(s, I) \in Seq(X)
           /\ \A k \in 1..Len(Kept(s, I)) : \E i \in 1..Len(s) : i \in I /\ Kept(s, I)[k] = s[i]
<1> DEFINE kept == KeptPrefixes(s, I)
           Good(t) == /\ t \in Seq(X)
                      /\ \A k \in 1..Len(t) : \E i \in 1..Len(s) : i \in I /\ t[k] = s[i]
           T == {n \in Nat : n <= Len(s) => Good(kept[n])}
<1>1. \A k \in 0..Len(s) :
         kept[k] = IF k = 0 THEN << >>
                   ELSE IF k \in I THEN Append(kept[k - 1], s[k]) ELSE kept[k - 1]
  BY KeptEquation
<1> HIDE DEF kept
<1>2. 0 \in T
  <2>1. kept[0] = << >>
    BY <1>1
  <2>2. Good(<< >>)
    OBVIOUS
  <2> QED
    BY <2>1, <2>2
<1>3. ASSUME NEW n \in Nat, n \in T PROVE n + 1 \in T
  <2>1. SUFFICES ASSUME n + 1 <= Len(s) PROVE Good(kept[n + 1])
    OBVIOUS
  <2>2. kept[n + 1] = IF n + 1 \in I THEN Append(kept[n], s[n + 1]) ELSE kept[n]
    BY <1>1, <2>1
  <2>3. Good(kept[n])
    BY <1>3, <2>1
  <2>4. CASE n + 1 \in I
    <3>1. PICK t \in Seq(X), x \in X : t = kept[n] /\ x = s[n + 1]
      BY <2>1, <2>3
    <3>2. kept[n + 1] = Append(t, x)
      BY <2>2, <2>4, <3>1
    <3>3. \A k \in 1..Len(t) : \E i \in 1..Len(s) : i \in I /\ t[k] = s[i]
      BY <2>3, <3>1
    <3>4. Append(t, x) \in Seq(X) /\ Len(Append(t, x)) = Len(t) + 1
      OBVIOUS
    <3>5. ASSUME NEW k \in 1..Len(Append(t, x))
          PROVE  \E i \in 1..Len(s) : i \in I /\ Append(t, x)[k] = s[i]
      <4>1. CASE k = Len(t) + 1
        <5>1. Append(t, x)[k] = s[n + 1] /\ n + 1 \in 1..Len(s)
          BY <2>1, <3>1, <4>1
        <5> QED
          BY <2>4, <5>1
      <4>2. CASE k # Len(t) + 1
        <5>1. k \in 1..Len(t) /\ Append(t, x)[k] = t[k]
          BY <3>4, <4>2
        <5> QED
          BY <3>3, <5>1
      <4> QED
        BY <4>1, <4>2
    <3> QED
      BY <3>2, <3>4, <3>5
  <2>5. CASE n + 1 \notin I
    BY <2>2, <2>3, <2>5
  <2> QED
    BY <2>4, <2>5
<1> HIDE DEF T
<1>4. \A n \in Nat : n \in T
  BY <1>2, <1>3, NatSetInduction
<1>5. Len(s) \in T /\ Len(s) \in Nat
  BY <1>4
<1> QED
  BY <1>5 DEF T, kept, Kept

\* If no position is kept, nothing is.
LEMMA KeptNothing ==
    ASSUME NEW X, NEW s \in Seq(X), NEW I, \A i \in 1..Len(s) : i \notin I
    PROVE  Kept(s, I) = << >>
<1>1. PICK t \in Seq(X) : t = Kept(s, I)
  BY KeptType
<1>2. \A k \in 1..Len(t) : FALSE
  BY <1>1, KeptType
<1>3. Len(t) = 0
  <2>1. Len(t) \in Nat
    OBVIOUS
  <2>2. Len(t) >= 1 => Len(t) \in 1..Len(t)
    BY <2>1
  <2> QED
    BY <1>2, <2>1, <2>2
<1> QED
  BY <1>1, <1>3

\* What the rows at the positions in I add to S.
LEMMA KeptNet ==
    ASSUME NEW rows \in Seq(Rows), NEW I, NEW S
    PROVE  NetIn(Kept(rows, I), S) =
             [qty |-> SumSeq([i \in 1..Len(rows) |->
                                IF i \in I /\ rows[i] \in S THEN rows[i].qty ELSE 0]),
              aed |-> SumSeq([i \in 1..Len(rows) |->
                                IF i \in I /\ rows[i] \in S THEN rows[i].aed ELSE 0])]
<1> DEFINE kept == KeptPrefixes(rows, I)
           Qty == [i \in 1..Len(rows) |-> IF i \in I /\ rows[i] \in S THEN rows[i].qty ELSE 0]
           Aed == [i \in 1..Len(rows) |-> IF i \in I /\ rows[i] \in S THEN rows[i].aed ELSE 0]
           Sums(n) == [qty |-> PrefixSums(Qty)[n], aed |-> PrefixSums(Aed)[n]]
           T == {n \in Nat : n <= Len(rows) =>
                               kept[n] \in Seq(Rows) /\ NetIn(kept[n], S) = Sums(n)}
<1>1. \A k \in 0..Len(rows) :
         kept[k] = IF k = 0 THEN << >>
                   ELSE IF k \in I THEN Append(kept[k - 1], rows[k]) ELSE kept[k - 1]
  BY KeptEquation
<1>2. \A i \in 1..Len(rows) : rows[i] \in Rows /\ rows[i].qty \in Int /\ rows[i].aed \in Int
  <2>1. \A i \in 1..Len(rows) : rows[i] \in Rows
    OBVIOUS
  <2> QED
    BY <2>1 DEF Rows
<1>3. Qty \in Seq(Int) /\ Aed \in Seq(Int) /\ Len(Qty) = Len(rows) /\ Len(Aed) = Len(rows)
  BY <1>2
<1>4. \A i \in 1..Len(rows) :
         /\ Qty[i] = IF i \in I /\ rows[i] \in S THEN rows[i].qty ELSE 0
         /\ Aed[i] = IF i \in I /\ rows[i] \in S THEN rows[i].aed ELSE 0
  OBVIOUS
<1> HIDE DEF kept, Qty, Aed
<1>5. 0 \in T
  <2>1. kept[0] = << >> /\ << >> \in Seq(Rows)
    BY <1>1
  <2>2. PrefixSums(Qty)[0] = 0 /\ PrefixSums(Aed)[0] = 0
    BY <1>3, PrefixSumsStep
  <2> QED
    BY <2>1, <2>2, NetInEmpty DEF NoStock
<1>6. ASSUME NEW n \in Nat, n \in T PROVE n + 1 \in T
  <2>1. SUFFICES ASSUME n + 1 <= Len(rows)
                 PROVE  kept[n + 1] \in Seq(Rows) /\ NetIn(kept[n + 1], S) = Sums(n + 1)
    OBVIOUS
  <2>2. kept[n] \in Seq(Rows) /\ NetIn(kept[n], S) = Sums(n)
    BY <1>6, <2>1
  <2>3. n \in 0..(Len(rows) - 1) /\ n \in 0..Len(rows) /\ n + 1 \in 1..Len(rows)
    BY <2>1
  <2>4. /\ PrefixSums(Qty)[n + 1] = PrefixSums(Qty)[n] + Qty[n + 1]
        /\ PrefixSums(Aed)[n + 1] = PrefixSums(Aed)[n] + Aed[n + 1]
        /\ PrefixSums(Qty)[n] \in Int /\ PrefixSums(Aed)[n] \in Int
    BY <1>3, <2>3, PrefixSumsStep, PrefixSumsType
  <2>5. PICK r \in Rows : r = rows[n + 1]
    BY <1>2, <2>3
  <2>6. r.qty \in Int /\ r.aed \in Int
    BY DEF Rows
  <2>7. CASE n + 1 \in I
    <3>1. kept[n + 1] = kept[n] \o << r >> /\ << r >> \in Seq(Rows)
      <4>0. n + 1 \in 0..Len(rows) /\ n + 1 # 0 /\ (n + 1) - 1 = n
        BY <2>3
      <4>1. kept[n + 1] = Append(kept[n], r)
        BY <1>1, <2>5, <2>7, <4>0
      <4> QED
        BY <2>2, <4>1
    <3>2. kept[n + 1] \in Seq(Rows)
      BY <2>2, <3>1
    <3>3. NetIn(kept[n + 1], S) = Plus(NetIn(kept[n], S), NetIn(<< r >>, S))
      <4>1. PICK one \in Seq(Rows) : one = << r >>
        BY <3>1
      <4>2. NetIn(kept[n] \o one, S) = Plus(NetIn(kept[n], S), NetIn(one, S))
        BY <2>2, NetInConcat
      <4> QED
        BY <3>1, <4>1, <4>2
    <3>4. NetIn(<< r >>, S) = IF r \in S THEN [qty |-> r.qty, aed |-> r.aed] ELSE NoStock
      BY NetInSingle
    <3>5. /\ Qty[n + 1] = IF r \in S THEN r.qty ELSE 0
          /\ Aed[n + 1] = IF r \in S THEN r.aed ELSE 0
      BY <1>4, <2>3, <2>5, <2>7
    <3>6. NetIn(<< r >>, S) = [qty |-> Qty[n + 1], aed |-> Aed[n + 1]]
      BY <3>4, <3>5 DEF NoStock
    <3> QED
      BY <2>2, <2>4, <3>2, <3>3, <3>6 DEF Plus
  <2>8. CASE n + 1 \notin I
    <3>1. kept[n + 1] = kept[n]
      BY <1>1, <2>3, <2>8
    <3>2. Qty[n + 1] = 0 /\ Aed[n + 1] = 0
      BY <1>4, <2>3, <2>8
    <3> QED
      BY <2>2, <2>4, <3>1, <3>2
  <2> QED
    BY <2>7, <2>8
<1> HIDE DEF T
<1>7. \A n \in Nat : n \in T
  BY <1>5, <1>6, NatSetInduction
<1>8. Len(rows) \in T /\ Len(rows) \in Nat
  BY <1>7
<1>9. NetIn(kept[Len(rows)], S) = Sums(Len(rows))
  BY <1>8 DEF T
<1>10. NetIn(Kept(rows, I), S) = [qty |-> SumSeq(Qty), aed |-> SumSeq(Aed)]
  BY <1>3, <1>9 DEF SumSeq, Kept, kept
<1> QED
  BY <1>10 DEF Qty, Aed

\* If one kept row is selected, it is the sum.
LEMMA KeptNetOne ==
    ASSUME NEW rows \in Seq(Rows), NEW I, NEW S, NEW j \in 1..Len(rows),
           \A i \in 1..Len(rows) : i \in I /\ rows[i] \in S <=> i = j
    PROVE  NetIn(Kept(rows, I), S) = [qty |-> rows[j].qty, aed |-> rows[j].aed]
<1> DEFINE Qty == [i \in 1..Len(rows) |-> IF i \in I /\ rows[i] \in S THEN rows[i].qty ELSE 0]
           Aed == [i \in 1..Len(rows) |-> IF i \in I /\ rows[i] \in S THEN rows[i].aed ELSE 0]
<1>1. \A i \in 1..Len(rows) : rows[i].qty \in Int /\ rows[i].aed \in Int
  <2>1. \A i \in 1..Len(rows) : rows[i] \in Rows
    OBVIOUS
  <2> QED
    BY <2>1 DEF Rows
<1>2. Qty \in Seq(Int) /\ Aed \in Seq(Int) /\ Len(Qty) = Len(rows) /\ Len(Aed) = Len(rows)
  BY <1>1
<1>3. \A i \in 1..Len(rows) : i # j => Qty[i] = 0 /\ Aed[i] = 0
  OBVIOUS
<1>4. Qty[j] = rows[j].qty /\ Aed[j] = rows[j].aed
  OBVIOUS
<1>5. NetIn(Kept(rows, I), S) = [qty |-> SumSeq(Qty), aed |-> SumSeq(Aed)]
  BY KeptNet
<1> HIDE DEF Qty, Aed
<1>6. SumSeq(Qty) = Qty[j]
  BY <1>2, <1>3, SumSeqOne
<1>7. SumSeq(Aed) = Aed[j]
  BY <1>2, <1>3, SumSeqOne
<1> QED
  BY <1>4, <1>5, <1>6, <1>7

\* What is kept and what is not add up to the whole.
LEMMA KeptNetSplit ==
    ASSUME NEW rows \in Seq(Rows), NEW I, NEW J, NEW S,
           \A i \in 1..Len(rows) : i \in I <=> i \notin J
    PROVE  Plus(NetIn(Kept(rows, I), S), NetIn(Kept(rows, J), S)) = NetIn(rows, S)
<1> DEFINE Q(K) == [i \in 1..Len(rows) |-> IF i \in K /\ rows[i] \in S THEN rows[i].qty ELSE 0]
           A(K) == [i \in 1..Len(rows) |-> IF i \in K /\ rows[i] \in S THEN rows[i].aed ELSE 0]
           Qty == [i \in 1..Len(rows) |-> IF rows[i] \in S THEN rows[i].qty ELSE 0]
           Aed == [i \in 1..Len(rows) |-> IF rows[i] \in S THEN rows[i].aed ELSE 0]
<1>1. \A i \in 1..Len(rows) : rows[i].qty \in Int /\ rows[i].aed \in Int
  <2>1. \A i \in 1..Len(rows) : rows[i] \in Rows
    OBVIOUS
  <2> QED
    BY <2>1 DEF Rows
<1>2. /\ Q(I) \in Seq(Int) /\ A(I) \in Seq(Int) /\ Len(Q(I)) = Len(rows) /\ Len(A(I)) = Len(rows)
      /\ Q(J) \in Seq(Int) /\ A(J) \in Seq(Int) /\ Len(Q(J)) = Len(rows) /\ Len(A(J)) = Len(rows)
      /\ Qty \in Seq(Int) /\ Aed \in Seq(Int) /\ Len(Qty) = Len(rows) /\ Len(Aed) = Len(rows)
  BY <1>1
<1>3. \A i \in 1..Len(rows) : Qty[i] = Q(I)[i] + Q(J)[i] /\ Aed[i] = A(I)[i] + A(J)[i]
  BY <1>1
<1>4. /\ NetIn(Kept(rows, I), S) = [qty |-> SumSeq(Q(I)), aed |-> SumSeq(A(I))]
      /\ NetIn(Kept(rows, J), S) = [qty |-> SumSeq(Q(J)), aed |-> SumSeq(A(J))]
  <2>1. ASSUME NEW K
        PROVE  NetIn(Kept(rows, K), S) = [qty |-> SumSeq(Q(K)), aed |-> SumSeq(A(K))]
    BY KeptNet
  <2> HIDE DEF Q, A
  <2> QED
    BY <2>1
<1>5. NetIn(rows, S) = [qty |-> SumSeq(Qty), aed |-> SumSeq(Aed)]
  BY DEF NetIn, Net, SumOf
<1> HIDE DEF Q, A, Qty, Aed
<1>6. SumSeq(Qty) = SumSeq(Q(I)) + SumSeq(Q(J))
  BY <1>2, <1>3, SumSeqPlus
<1>7. SumSeq(Aed) = SumSeq(A(I)) + SumSeq(A(J))
  BY <1>2, <1>3, SumSeqPlus
<1> QED
  BY <1>4, <1>5, <1>6, <1>7 DEF Plus

-----------------------------------------------------------------------------
(* Net reversals *)

\* The rows of one group.
GroupOf(row) == {r \in Rows : SameGroup(r, row)}

\* What a group's rows add up to, as the model writes it.
LEMMA GroupNetIn ==
    ASSUME NEW rows \in Seq(Rows), NEW row
    PROVE  GroupNet(rows, row) = NetIn(rows, GroupOf(row))
<1>1. \A i \in 1..Len(rows) : rows[i] \in Rows
  OBVIOUS
<1>2. [i \in 1..Len(rows) |-> IF SameGroup(rows[i], row) THEN rows[i].qty ELSE 0] =
      [i \in 1..Len(rows) |-> IF rows[i] \in GroupOf(row) THEN rows[i].qty ELSE 0]
  BY <1>1 DEF GroupOf
<1>3. [i \in 1..Len(rows) |-> IF SameGroup(rows[i], row) THEN rows[i].aed ELSE 0] =
      [i \in 1..Len(rows) |-> IF rows[i] \in GroupOf(row) THEN rows[i].aed ELSE 0]
  BY <1>1 DEF GroupOf
<1> QED
  BY <1>2, <1>3 DEF GroupNet, NetIn, Net, SumOf

\* Groups are classes.
LEMMA GroupsAgree ==
    ASSUME NEW x, NEW y \in GroupOf(x)
    PROVE  GroupOf(y) = GroupOf(x)
BY DEF GroupOf, SameGroup

\* The reversal of a row's group is in that group and carries what undoes it.
LEMMA GroupReversalsFacts ==
    ASSUME NEW rows \in Seq(Rows)
    PROVE  /\ GroupReversals(rows) \in Seq(Rows)
           /\ Len(GroupReversals(rows)) = Len(rows)
           /\ \A i \in 1..Len(rows) :
                 /\ Len(rows) + 1 - i \in 1..Len(rows)
                 /\ GroupReversals(rows)[i] \in GroupOf(rows[Len(rows) + 1 - i])
                 /\ rows[Len(rows) + 1 - i] \in GroupOf(GroupReversals(rows)[i])
                 /\ GroupReversals(rows)[i].qty =
                       -NetIn(rows, GroupOf(GroupReversals(rows)[i])).qty
                 /\ GroupReversals(rows)[i].aed =
                       -NetIn(rows, GroupOf(GroupReversals(rows)[i])).aed
<1> DEFINE Undo(row) == [row EXCEPT !.qty = -NetIn(rows, GroupOf(row)).qty,
                                    !.aed = -NetIn(rows, GroupOf(row)).aed]
<1>1. \A i \in 1..Len(rows) : Len(rows) + 1 - i \in 1..Len(rows)
  OBVIOUS
<1>2. \A i \in 1..Len(rows) : GroupReversals(rows)[i] = Undo(rows[Len(rows) + 1 - i])
  BY <1>1, GroupNetIn DEF GroupReversals
<1>3. ASSUME NEW row \in Rows
      PROVE  /\ Undo(row) \in GroupOf(row)
             /\ row \in GroupOf(Undo(row))
             /\ Undo(row).qty = -NetIn(rows, GroupOf(row)).qty
             /\ Undo(row).aed = -NetIn(rows, GroupOf(row)).aed
             /\ Undo(row) \in Rows
  <2>1. PICK q \in Int, a \in Int : /\ q = -NetIn(rows, GroupOf(row)).qty
                                    /\ a = -NetIn(rows, GroupOf(row)).aed
    BY NetInType
  <2>2. PICK undo : undo = [row EXCEPT !.qty = q, !.aed = a]
    OBVIOUS
  <2>3. /\ undo \in Rows /\ undo.qty = q /\ undo.aed = a
        /\ undo.line = row.line /\ undo.product = row.product /\ undo.loc = row.loc
        /\ undo.bucket = row.bucket
    BY <2>2 DEF Rows
  <2>4. undo \in GroupOf(row) /\ row \in GroupOf(undo)
    BY <2>3 DEF GroupOf, SameGroup, KeyOf
  <2> QED
    BY <2>1, <2>2, <2>3, <2>4
<1>4. Len(GroupReversals(rows)) = Len(rows) /\ DOMAIN GroupReversals(rows) = 1..Len(rows)
  BY DEF GroupReversals
<1> HIDE DEF Undo
<1>5. \A i \in 1..Len(rows) : rows[Len(rows) + 1 - i] \in Rows
  BY <1>1
<1>6. \A i \in 1..Len(rows) : GroupReversals(rows)[i] \in Rows
  BY <1>2, <1>3, <1>5
<1>7. GroupReversals(rows) \in Seq(Rows)
  <2>1. \A i \in 1..Len(rows) : [j \in 1..Len(rows) |-> GroupReversals(rows)[j]][i] \in Rows
    BY <1>6
  <2>2. GroupReversals(rows) = [j \in 1..Len(rows) |-> GroupReversals(rows)[j]]
    BY DEF GroupReversals
  <2> QED
    BY <1>6, <2>2
<1>8. ASSUME NEW i \in 1..Len(rows)
      PROVE  /\ GroupReversals(rows)[i] \in GroupOf(rows[Len(rows) + 1 - i])
             /\ rows[Len(rows) + 1 - i] \in GroupOf(GroupReversals(rows)[i])
             /\ GroupReversals(rows)[i].qty =
                   -NetIn(rows, GroupOf(GroupReversals(rows)[i])).qty
             /\ GroupReversals(rows)[i].aed =
                   -NetIn(rows, GroupOf(GroupReversals(rows)[i])).aed
  <2>1. PICK row \in Rows, undo \in Rows :
           row = rows[Len(rows) + 1 - i] /\ undo = GroupReversals(rows)[i]
    BY <1>5, <1>6
  <2>2. undo = Undo(row)
    BY <1>2, <2>1
  <2>3. undo \in GroupOf(row) /\ row \in GroupOf(undo)
    BY <1>3, <2>2
  <2>4. GroupOf(undo) = GroupOf(row)
    BY <2>3, GroupsAgree
  <2> QED
    BY <1>3, <2>1, <2>2, <2>3, <2>4
<1> QED
  BY <1>1, <1>4, <1>7, <1>8

\* A set of positions that is not empty has a first one.
LEMMA EarliestPosition ==
    ASSUME NEW F \in SUBSET Nat, NEW e \in F
    PROVE  \E j \in F : \A i \in F : j <= i
<1>1. PICK j \in F : \A i \in F : ~(<<i, j>> \in OpToRel(<, Nat))
  BY NatLessThanWellFounded, WFMin
<1>2. \A i \in F : ~(i < j)
  BY <1>1 DEF OpToRel
<1> QED
  BY <1>2

\* Whatever the group, the reversals carry just what undoes it.
LEMMA NetReversalsNet ==
    ASSUME NEW rows \in Seq(Rows), NetReversible(rows), NEW x \in Rows
    PROVE  /\ NetIn(NetReversals(rows), GroupOf(x)).qty = -NetIn(rows, GroupOf(x)).qty
           /\ NetIn(NetReversals(rows), GroupOf(x)).aed = -NetIn(rows, GroupOf(x)).aed
<1> DEFINE moves == GroupReversals(rows)
           I     == {i \in FirstOfGroup(moves) : moves[i].qty # 0}
<1>0. PICK G : G = GroupOf(x)
  OBVIOUS
<1> DEFINE F == {i \in 1..Len(rows) : moves[i] \in G}
<1>1. /\ moves \in Seq(Rows) /\ Len(moves) = Len(rows) /\ Len(rows) \in Nat
      /\ DOMAIN moves = 1..Len(rows)
  BY GroupReversalsFacts
<1>2. ASSUME NEW i \in 1..Len(rows)
      PROVE  /\ Len(rows) + 1 - i \in 1..Len(rows)
             /\ moves[i] \in GroupOf(rows[Len(rows) + 1 - i])
             /\ rows[Len(rows) + 1 - i] \in GroupOf(moves[i])
             /\ moves[i].qty = -NetIn(rows, GroupOf(moves[i])).qty
             /\ moves[i].aed = -NetIn(rows, GroupOf(moves[i])).aed
  BY GroupReversalsFacts
<1>3. NetReversals(rows) = Kept(moves, I)
  BY DEF NetReversals, Effective
<1>4. PICK net \in [qty: Int, aed: Int] : net = NetIn(rows, G)
  BY NetInType
<1>5. \A i \in F : GroupOf(moves[i]) = G
  BY <1>0, GroupsAgree
<1>6. \A i \in 1..Len(rows) : i \in I <=> /\ \A j \in 1..(i - 1) : ~SameGroup(moves[i], moves[j])
                                          /\ moves[i].qty # 0
  BY <1>1 DEF FirstOfGroup
<1> HIDE DEF moves, I
<1> SUFFICES /\ NetIn(Kept(moves, I), G).qty = -net.qty
             /\ NetIn(Kept(moves, I), G).aed = -net.aed
  BY <1>0, <1>3, <1>4
<1>a. NoStock.qty = 0 /\ NoStock.aed = 0
  BY DEF NoStock
<1>b. /\ net.qty = 0 => -net.qty = 0
      /\ net.aed = 0 => -net.aed = 0
  OBVIOUS
<1>7. CASE F = {}
  <2>1. NetIn(Kept(moves, I), G) = NoStock
    <3>1. PICK t \in Seq(Rows) : t = Kept(moves, I)
      BY <1>1, KeptType
    <3>2. \A k \in 1..Len(t) : \E i \in 1..Len(moves) : i \in I /\ t[k] = moves[i]
      BY <1>1, <3>1, KeptType
    <3>3. \A i \in 1..Len(moves) : moves[i] \notin G
      BY <1>1, <1>7
    <3>4. \A k \in 1..Len(t) : t[k] \notin G
      BY <3>2, <3>3
    <3> QED
      BY <3>1, <3>4, NetInNone
  <2>2. NetIn(rows, G) = NoStock
    <3>1. ASSUME NEW i \in 1..Len(rows) PROVE rows[i] \notin G
      <4>1. PICK k \in 1..Len(rows) : i = Len(rows) + 1 - k
        <5>1. Len(rows) + 1 - i \in 1..Len(rows) /\ i = Len(rows) + 1 - (Len(rows) + 1 - i)
          BY <1>1
        <5> QED
          BY <5>1
      <4>2. moves[k] \in GroupOf(rows[i])
        BY <1>2, <4>1
      <4>3. rows[i] \in G => GroupOf(rows[i]) = G
        BY <1>0, GroupsAgree
      <4> QED
        BY <1>7, <4>2, <4>3
    <3> QED
      BY <3>1, NetInNone
  <2>3. NetIn(Kept(moves, I), G).qty = 0 /\ NetIn(Kept(moves, I), G).aed = 0
    BY <1>a, <2>1
  <2>4. net.qty = 0 /\ net.aed = 0
    BY <1>4, <1>a, <2>2
  <2> QED
    BY <1>b, <2>3, <2>4
<1>8. CASE F # {}
  <2>1. PICK j \in F : \A i \in F : j <= i
    <3>1. F \in SUBSET Nat /\ \E e \in F : TRUE
      BY <1>8
    <3> HIDE DEF F
    <3> QED
      BY <3>1, EarliestPosition
  <2>2. j \in 1..Len(rows) /\ moves[j] \in G
    OBVIOUS
  <2>3. moves[j].qty = -net.qty /\ moves[j].aed = -net.aed
    BY <1>2, <1>4, <1>5, <2>2
  <2>4. \A i \in F : moves[i].qty = -net.qty
    BY <1>2, <1>4, <1>5
  <2>5. \A i \in 1..(j - 1) : ~SameGroup(moves[j], moves[i])
    <3>1. SUFFICES ASSUME NEW i \in 1..(j - 1), SameGroup(moves[j], moves[i]) PROVE FALSE
      OBVIOUS
    <3>2. i \in 1..Len(rows) /\ i < j
      BY <1>1, <2>2
    <3>3. moves[i] \in Rows
      BY <1>1, <3>2
    <3>4. moves[i] \in G
      BY <1>0, <2>2, <3>1, <3>3 DEF GroupOf, SameGroup
    <3> QED
      BY <2>1, <3>2, <3>4
  <2>6. \A i \in F : i # j => \E k \in 1..(i - 1) : SameGroup(moves[i], moves[k])
    <3>1. SUFFICES ASSUME NEW i \in F, i # j
                   PROVE  \E k \in 1..(i - 1) : SameGroup(moves[i], moves[k])
      OBVIOUS
    <3>2. j \in 1..(i - 1)
      BY <2>1, <2>2, <3>1
    <3>3. SameGroup(moves[i], moves[j])
      BY <1>0, <2>2 DEF GroupOf, SameGroup
    <3> QED
      BY <3>2, <3>3
  <2>7. CASE net.qty = 0
    <3>1. net.aed = 0
      <4>1. PICK k \in 1..Len(rows) : k = Len(rows) + 1 - j
        BY <1>2, <2>2
      <4>2. GroupOf(rows[k]) = G
        <5>1. rows[k] \in GroupOf(moves[j])
          BY <1>2, <2>2, <4>1
        <5> QED
          BY <1>5, <2>2, <5>1, GroupsAgree
      <4>3. GroupNet(rows, rows[k]) = NetIn(rows, G)
        BY <4>2, GroupNetIn
      <4> QED
        BY <1>4, <2>7, <4>3 DEF NetReversible
    <3>2. NetIn(Kept(moves, I), G) = NoStock
      <4>1. PICK t \in Seq(Rows) : t = Kept(moves, I)
        BY <1>1, KeptType
      <4>2. \A k \in 1..Len(t) : \E i \in 1..Len(rows) : i \in I /\ t[k] = moves[i]
        BY <1>1, <4>1, KeptType
      <4>3. \A i \in 1..Len(rows) : i \in I => moves[i] \notin G
        BY <1>6, <2>4, <2>7
      <4> QED
        BY <4>1, <4>2, <4>3, NetInNone
    <3>3. NetIn(Kept(moves, I), G).qty = 0 /\ NetIn(Kept(moves, I), G).aed = 0
      BY <1>a, <3>2
    <3> QED
      BY <1>b, <2>7, <3>1, <3>3
  <2>8. CASE net.qty # 0
    <3>1. moves[j].qty # 0
      BY <1>4, <2>3, <2>8
    <3>2. \A i \in 1..Len(rows) : i \in I /\ moves[i] \in G <=> i = j
      BY <1>6, <2>2, <2>5, <2>6, <3>1
    <3>3. j \in 1..Len(moves) /\ \A i \in 1..Len(moves) : i \in I /\ moves[i] \in G <=> i = j
      BY <1>1, <2>2, <3>2
    <3>4. NetIn(Kept(moves, I), G) = [qty |-> moves[j].qty, aed |-> moves[j].aed]
      BY <1>1, <3>3, KeptNetOne
    <3> QED
      BY <2>3, <3>4
  <2> QED
    BY <2>7, <2>8
<1> QED
  BY <1>7, <1>8

\* The movements of a net reversal: first those that bring stock in, then those
\* that take it out.
LEMMA NetReversalParts ==
    ASSUME NEW rows \in Seq(Rows)
    PROVE  \E credits \in Seq(Rows), debits \in Seq(Rows) :
              /\ NetReversalMovements(rows) = credits \o debits
              /\ \A i \in 1..Len(credits) : credits[i].qty > 0
              /\ \A i \in 1..Len(debits) : debits[i].qty < 0
              /\ \A S : Plus(NetIn(credits, S), NetIn(debits, S)) = NetIn(NetReversals(rows), S)
<1> DEFINE moves == NetReversals(rows)
           In    == {i \in DOMAIN moves : moves[i].qty > 0}
           Out   == {i \in DOMAIN moves : moves[i].qty < 0}
<1>1. moves \in Seq(Rows) /\ \A i \in 1..Len(moves) : moves[i].qty # 0
  <2> DEFINE all == GroupReversals(rows)
             I   == {i \in FirstOfGroup(all) : all[i].qty # 0}
  <2>1. all \in Seq(Rows) /\ moves = Kept(all, I)
    BY GroupReversalsFacts DEF NetReversals, Effective
  <2>2. \A i \in 1..Len(all) : i \in I => all[i].qty # 0
    OBVIOUS
  <2> HIDE DEF all, I, moves
  <2>3. moves \in Seq(Rows) /\ \A k \in 1..Len(moves) :
                                  \E i \in 1..Len(all) : i \in I /\ moves[k] = all[i]
    BY <2>1, KeptType
  <2> QED
    BY <2>2, <2>3
<1>2. NetReversalMovements(rows) = Kept(moves, In) \o Kept(moves, Out)
  BY DEF NetReversalMovements, CreditsFirst
<1> HIDE DEF moves
<1>3. \A i \in 1..Len(moves) : i \in In <=> i \notin Out
  <2>1. \A i \in 1..Len(moves) : moves[i] \in Rows
    BY <1>1
  <2>2. \A i \in 1..Len(moves) : moves[i].qty \in Int /\ i \in DOMAIN moves
    BY <1>1, <2>1 DEF Rows
  <2> QED
    BY <1>1, <2>2
<1>4. \A i \in 1..Len(moves) : /\ i \in In => moves[i].qty > 0
                               /\ i \in Out => moves[i].qty < 0
  OBVIOUS
<1> HIDE DEF In, Out
<1>5. PICK credits \in Seq(Rows) :
         /\ credits = Kept(moves, In)
         /\ \A k \in 1..Len(credits) :
               \E i \in 1..Len(moves) : i \in In /\ credits[k] = moves[i]
  BY <1>1, KeptType
<1>6. PICK debits \in Seq(Rows) :
         /\ debits = Kept(moves, Out)
         /\ \A k \in 1..Len(debits) :
               \E i \in 1..Len(moves) : i \in Out /\ debits[k] = moves[i]
  BY <1>1, KeptType
<1>7. \A S : Plus(NetIn(credits, S), NetIn(debits, S)) = NetIn(moves, S)
  BY <1>1, <1>3, <1>5, <1>6, KeptNetSplit
<1>8. /\ \A i \in 1..Len(credits) : credits[i].qty > 0
      /\ \A i \in 1..Len(debits) : debits[i].qty < 0
  BY <1>4, <1>5, <1>6
<1> QED
  BY <1>2, <1>5, <1>6, <1>7, <1>8 DEF moves

\* Movements that only take out leave every balance where it is or lower.
LEMMA DebitsLower ==
    ASSUME NEW rows \in Seq(Rows), \A i \in 1..Len(rows) : rows[i].qty < 0, NEW key
    PROVE  Rollup(rows, key).qty <= 0
<1> DEFINE Qty == [i \in 1..Len(rows) |-> IF KeyOf(rows[i]) = key THEN rows[i].qty ELSE 0]
<1>1. Qty \in Seq(Int) /\ Len(Qty) = Len(rows)
  BY SelectedSeqType
<1>2. \A i \in 1..Len(rows) : Qty[i] <= 0
  <2>1. \A i \in 1..Len(rows) : rows[i] \in Rows
    OBVIOUS
  <2>2. \A i \in 1..Len(rows) : rows[i].qty \in Int
    BY <2>1 DEF Rows
  <2>3. \A i \in 1..Len(rows) : rows[i].qty <= 0
    BY <2>2
  <2> QED
    BY <2>3
<1>3. Rollup(rows, key).qty = SumSeq(Qty)
  BY DEF Rollup, Net, SumOf
<1> HIDE DEF Qty
<1> QED
  BY <1>1, <1>2, <1>3, SumSeqNotPositive

\* With the movements that bring stock in first, no balance is lower on the way
\* than at the end.
LEMMA CreditsFirstCover ==
    ASSUME NEW book, NEW credits \in Seq(Rows), NEW debits \in Seq(Rows),
           \A i \in 1..Len(credits) : credits[i].qty > 0,
           \A i \in 1..Len(debits) : debits[i].qty < 0,
           \A k \in Keys : /\ book.balance[k].qty \in Int
                           /\ book.balance[k].qty + Rollup(credits \o debits, k).qty >= 0
    PROVE  StaysCovered(book, credits \o debits)
<1>1. PICK moves \in Seq(Rows) : moves = credits \o debits
  BY ConcatProperties
<1>2. /\ Len(moves) = Len(credits) + Len(debits)
      /\ \A i \in 1..Len(credits) : moves[i] = credits[i]
      /\ \A i \in 1..Len(debits) : moves[Len(credits) + i] = debits[i]
  BY <1>1
<1>3. SUFFICES ASSUME NEW i \in 1..Len(moves), moves[i].qty < 0
               PROVE  RunningQty(book, moves, i) >= 0
  BY <1>1 DEF StaysCovered
<1>4. PICK row \in Rows : row = moves[i]
  OBVIOUS
<1>5. row.qty \in Int /\ row.qty < 0 /\ KeyOf(row) \in Keys
  BY <1>3, <1>4 DEF Rows, KeyOf, Keys
<1>6. i > Len(credits)
  <2>1. SUFFICES ASSUME i <= Len(credits) PROVE FALSE
    OBVIOUS
  <2>2. i \in 1..Len(credits)
    BY <2>1
  <2>3. row.qty > 0
    BY <1>2, <1>4, <2>2
  <2> QED
    BY <1>5, <2>3
<1>7. PICK head \in Seq(Rows), tail \in Seq(Rows) :
         /\ head = SubSeq(moves, 1, i)
         /\ moves = head \o tail
         /\ \A k \in 1..Len(tail) : tail[k] = moves[i + k]
         /\ Len(tail) = Len(moves) - i
  <2>1. /\ SubSeq(moves, 1, i) \in Seq(Rows)
        /\ SubSeq(moves, i + 1, Len(moves)) \in Seq(Rows)
        /\ moves = SubSeq(moves, 1, i) \o SubSeq(moves, i + 1, Len(moves))
        /\ Len(SubSeq(moves, i + 1, Len(moves))) = Len(moves) - i
        /\ \A k \in 1..(Len(moves) - i) : SubSeq(moves, i + 1, Len(moves))[k] = moves[i + k]
    OBVIOUS
  <2> QED
    BY <2>1
<1>8. \A k \in 1..Len(tail) : tail[k].qty < 0
  <2>1. SUFFICES ASSUME NEW k \in 1..Len(tail) PROVE tail[k].qty < 0
    OBVIOUS
  <2>2. /\ i + k - Len(credits) \in 1..Len(debits)
        /\ Len(credits) + (i + k - Len(credits)) = i + k
    BY <1>2, <1>6, <1>7
  <2> QED
    BY <1>2, <1>7, <2>2
<1>9. Rollup(moves, KeyOf(row)).qty =
        Rollup(head, KeyOf(row)).qty + Rollup(tail, KeyOf(row)).qty
  <2>1. Rollup(head \o tail, KeyOf(row)) =
          [qty |-> Rollup(head, KeyOf(row)).qty + Rollup(tail, KeyOf(row)).qty,
           aed |-> Rollup(head, KeyOf(row)).aed + Rollup(tail, KeyOf(row)).aed]
    BY RollupConcat
  <2>2. moves = head \o tail
    BY <1>7
  <2> QED
    BY <2>1, <2>2
<1>10. Rollup(tail, KeyOf(row)).qty <= 0
  BY <1>8, DebitsLower
<1>11. Rollup(head, KeyOf(row)).qty \in Int /\ Rollup(tail, KeyOf(row)).qty \in Int
  BY RollupType
<1>12. /\ book.balance[KeyOf(row)].qty \in Int
       /\ book.balance[KeyOf(row)].qty + Rollup(moves, KeyOf(row)).qty >= 0
  BY <1>1, <1>5
<1>13. RunningQty(book, moves, i) =
         book.balance[KeyOf(row)].qty + Rollup(head, KeyOf(row)).qty
  BY <1>4, <1>7 DEF RunningQty
<1> QED
  BY <1>9, <1>10, <1>11, <1>12, <1>13

\* Undoing the net contribution of some rows leaves nothing of any group.
LEMMA NetReversalClears ==
    ASSUME NEW rows \in Seq(Rows), NetReversible(rows)
    PROVE  /\ rows \o NetReversalMovements(rows) \in Seq(Rows)
           /\ \A x \in Rows :
                 NetIn(rows \o NetReversalMovements(rows), GroupOf(x)) = NoStock
<1>1. PICK credits \in Seq(Rows), debits \in Seq(Rows) :
         /\ NetReversalMovements(rows) = credits \o debits
         /\ \A S : Plus(NetIn(credits, S), NetIn(debits, S)) = NetIn(NetReversals(rows), S)
  BY NetReversalParts
<1>2. PICK moves \in Seq(Rows) : moves = credits \o debits
  BY ConcatProperties
<1>3. rows \o moves \in Seq(Rows)
  BY ConcatProperties
<1>4. ASSUME NEW x \in Rows PROVE NetIn(rows \o moves, GroupOf(x)) = NoStock
  <2>1. NetIn(rows \o moves, GroupOf(x)) =
          Plus(NetIn(rows, GroupOf(x)), NetIn(moves, GroupOf(x)))
    BY NetInConcat
  <2>2. NetIn(moves, GroupOf(x)) = NetIn(NetReversals(rows), GroupOf(x))
    <3>1. NetIn(moves, GroupOf(x)) = Plus(NetIn(credits, GroupOf(x)), NetIn(debits, GroupOf(x)))
      BY <1>2, NetInConcat
    <3> QED
      BY <1>1, <3>1
  <2>3. /\ NetIn(moves, GroupOf(x)).qty = -NetIn(rows, GroupOf(x)).qty
        /\ NetIn(moves, GroupOf(x)).aed = -NetIn(rows, GroupOf(x)).aed
    BY <2>2, NetReversalsNet
  <2>4. NetIn(rows, GroupOf(x)) \in [qty: Int, aed: Int]
    BY NetInType
  <2> QED
    BY <2>1, <2>3, <2>4 DEF Plus, NoStock
<1> QED
  BY <1>1, <1>2, <1>3, <1>4

\* Rows that leave nothing of any group need no reversal.
LEMMA NothingToReverse ==
    ASSUME NEW rows \in Seq(Rows), \A x \in Rows : NetIn(rows, GroupOf(x)) = NoStock
    PROVE  NetReversalMovements(rows) = << >>
<1> DEFINE all == GroupReversals(rows)
           I   == {i \in FirstOfGroup(all) : all[i].qty # 0}
<1>1. /\ all \in Seq(Rows) /\ Len(all) = Len(rows)
      /\ \A i \in 1..Len(rows) : all[i].qty = -NetIn(rows, GroupOf(all[i])).qty
  BY GroupReversalsFacts
<1>2. NetReversals(rows) = Kept(all, I)
  BY DEF NetReversals, Effective
<1>3. \A i \in 1..Len(all) : all[i].qty # 0 <=> FALSE
  <2> HIDE DEF all
  <2>1. \A i \in 1..Len(all) : all[i] \in Rows
    BY <1>1
  <2> QED
    BY <1>1, <2>1 DEF NoStock
<1>4. \A i \in 1..Len(all) : i \notin I
  BY <1>3
<1> HIDE DEF all, I
<1>5. NetReversals(rows) = << >>
  BY <1>1, <1>2, <1>4, KeptNothing
<1>6. PICK none \in Seq(Rows) : none = << >>
  <2>1. << >> \in Seq(Rows)
    OBVIOUS
  <2> QED
    BY <2>1
<1>7. \A J : Kept(none, J) = << >>
  <2>1. SUFFICES ASSUME NEW J PROVE Kept(none, J) = << >>
    OBVIOUS
  <2>2. \A i \in 1..Len(none) : i \notin J
    BY <1>6
  <2> QED
    BY <2>2, KeptNothing
<1>8. << >> \o << >> = << >>
  OBVIOUS
<1> QED
  BY <1>5, <1>6, <1>7, <1>8 DEF NetReversalMovements, CreditsFirst

-----------------------------------------------------------------------------
(* The carrying average *)

Amounts == [qty: Int, aed: Int]

\* The items of a request: some of a product, and more than nothing.
Items == [product: Products, quantity: Nat \ {0}]

\* Stock takes no more value with it than the pool has, and gives none back.
LEMMA CarryingShareWithin ==
    ASSUME NEW pool \in Amounts, NEW q \in Nat \ {0}
    PROVE  /\ CarryingShare(q, pool) \in Nat
           /\ pool.aed >= 0 => CarryingShare(q, pool) <= pool.aed
<1> DEFINE qty == pool.qty
           aed == pool.aed
<1>0. qty \in Int /\ aed \in Int
  BY DEF Amounts
<1>1. CASE qty <= 0 \/ aed <= 0
  <2>1. CarryingShare(q, pool) = 0
    BY <1>0, <1>1 DEF CarryingShare
  <2> QED
    BY <1>0, <2>1
<1>2. CASE qty > 0 /\ aed > 0 /\ q >= qty
  <2>1. CarryingShare(q, pool) = aed
    BY <1>0, <1>2 DEF CarryingShare
  <2> QED
    BY <1>0, <1>2, <2>1
<1>3. CASE qty > 0 /\ aed > 0 /\ ~(q >= qty)
  <2>1. CarryingShare(q, pool) = RoundHalfUp(aed * q, qty)
    BY <1>0, <1>3 DEF CarryingShare
  <2> HIDE DEF qty, aed
  <2>2. aed \in Nat /\ aed * q \in Nat /\ aed * q <= aed * qty
    BY <1>0, <1>3
  <2>3. RoundHalfUp(aed * q, qty) \in 0..aed
    BY <1>0, <1>3, <2>2, RoundWithin
  <2> QED
    BY <1>0, <2>1, <2>2, <2>3 DEF aed
<1> HIDE DEF qty, aed
<1> QED
  BY <1>0, <1>1, <1>2, <1>3

\* A pool that stock is taken from still holds amounts.
LEMMA TakenType ==
    ASSUME NEW pools \in [Products -> Amounts], NEW p \in Products, NEW q \in Nat \ {0}
    PROVE  Taken(pools, p, q) \in [Products -> Amounts]
<1> DEFINE pool == pools[p]
           left == [qty |-> pool.qty - q, aed |-> pool.aed - CarryingShare(q, pool)]
<1>1. pool \in Amounts
  OBVIOUS
<1>2. CarryingShare(q, pool) \in Nat
  BY <1>1, CarryingShareWithin
<1>3. Taken(pools, p, q) = [pools EXCEPT ![p] = left]
  BY DEF Taken
<1> HIDE DEF pool
<1>4. left \in Amounts
  BY <1>1, <1>2 DEF Amounts
<1> HIDE DEF left
<1> QED
  BY <1>3, <1>4

\* Nor does giving stock back change what a pool is.
LEMMA GivenType ==
    ASSUME NEW pools \in [Products -> Amounts], NEW p \in Products, NEW q \in Int, NEW aed \in Int
    PROVE  Given(pools, p, q, aed) \in [Products -> Amounts]
<1> DEFINE pool == pools[p]
           left == [qty |-> pool.qty + q, aed |-> pool.aed + aed]
<1>1. pool \in Amounts
  OBVIOUS
<1>2. Given(pools, p, q, aed) = [pools EXCEPT ![p] = left]
  BY DEF Given
<1> HIDE DEF pool
<1>3. left \in Amounts
  BY <1>1 DEF Amounts
<1> HIDE DEF left
<1> QED
  BY <1>2, <1>3

\* The recursion equation of PoolsInTurn, up to n.
ArePoolsInTurn(s, pools, items, n) ==
    s = [k \in 0..n |-> IF k = 0 THEN pools
                                 ELSE Taken(s[k - 1], items[k].product, items[k].quantity)]

\* It has a solution up to every length.
LEMMA PoolsInTurnExist ==
    ASSUME NEW pools, NEW items
    PROVE  \A n \in Nat : \E s : ArePoolsInTurn(s, pools, items, n)
<1> DEFINE T == {n \in Nat : \E s : ArePoolsInTurn(s, pools, items, n)}
           Next1(ps, k) == Taken(ps, items[k].product, items[k].quantity)
<1>1. 0 \in T
  <2>1. ArePoolsInTurn([k \in 0..0 |-> pools], pools, items, 0)
    BY DEF ArePoolsInTurn
  <2> QED
    BY <2>1
<1>2. ASSUME NEW n \in Nat, n \in T PROVE n + 1 \in T
  <2>1. PICK s : ArePoolsInTurn(s, pools, items, n)
    BY <1>2
  <2>2. s = [k \in 0..n |-> IF k = 0 THEN pools ELSE Next1(s[k - 1], k)]
    BY <2>1 DEF ArePoolsInTurn
  <2> HIDE DEF Next1
  <2> DEFINE t == [k \in 0..(n + 1) |-> IF k = n + 1 THEN Next1(s[n], n + 1) ELSE s[k]]
  <2>3. \A k \in 0..n : s[k] = IF k = 0 THEN pools ELSE Next1(s[k - 1], k)
    BY <2>2
  <2>4. \A k \in 0..(n + 1) : t[k] = IF k = 0 THEN pools ELSE Next1(t[k - 1], k)
    BY <2>3
  <2>5. t = [k \in 0..(n + 1) |-> IF k = 0 THEN pools ELSE Next1(t[k - 1], k)]
    BY <2>4
  <2> HIDE DEF t
  <2>6. ArePoolsInTurn(t, pools, items, n + 1)
    BY <2>5 DEF ArePoolsInTurn, Next1
  <2> QED
    BY <2>6
<1> HIDE DEF T
<1>3. \A n \in Nat : n \in T
  BY <1>1, <1>2, NatSetInduction
<1> QED
  BY <1>3 DEF T

\* PoolsInTurn is such a solution.
LEMMA PoolsInTurnEquation ==
    ASSUME NEW pools, NEW items, Len(items) \in Nat
    PROVE  \A k \in 0..Len(items) :
              PoolsInTurn(pools, items)[k] =
                 IF k = 0 THEN pools
                 ELSE Taken(PoolsInTurn(pools, items)[k - 1], items[k].product, items[k].quantity)
<1> DEFINE left[n \in 0..Len(items)] ==
               IF n = 0 THEN pools
                        ELSE Taken(left[n - 1], items[n].product, items[n].quantity)
<1>1. \E s : s = [n \in 0..Len(items) |->
                     IF n = 0 THEN pools
                     ELSE Taken(s[n - 1], items[n].product, items[n].quantity)]
  <2>1. PICK s : ArePoolsInTurn(s, pools, items, Len(items))
    BY PoolsInTurnExist
  <2> QED
    BY <2>1 DEF ArePoolsInTurn
<1>2. left = [n \in 0..Len(items) |->
                 IF n = 0 THEN pools
                 ELSE Taken(left[n - 1], items[n].product, items[n].quantity)]
  BY <1>1
<1>3. PoolsInTurn(pools, items) = left
  BY DEF PoolsInTurn
<1> HIDE DEF left
<1> QED
  BY <1>2, <1>3

\* A sequence of items, whatever else is recorded of each.
AreItems(items) ==
    /\ Len(items) \in Nat
    /\ \A i \in 1..Len(items) : items[i].product \in Products /\ items[i].quantity \in Nat \ {0}

\* Every item finds pools that hold amounts.
LEMMA PoolsInTurnType ==
    ASSUME NEW pools \in [Products -> Amounts], NEW items, AreItems(items)
    PROVE  \A n \in 0..Len(items) : PoolsInTurn(pools, items)[n] \in [Products -> Amounts]
<1> DEFINE left == PoolsInTurn(pools, items)
           T == {n \in Nat : n <= Len(items) => left[n] \in [Products -> Amounts]}
<1>0. \A k \in 0..Len(items) :
         left[k] = IF k = 0 THEN pools ELSE Taken(left[k - 1], items[k].product, items[k].quantity)
  BY PoolsInTurnEquation DEF AreItems
<1> HIDE DEF left
<1>1. 0 \in T
  BY <1>0
<1>2. ASSUME NEW n \in Nat, n \in T PROVE n + 1 \in T
  <2>1. SUFFICES ASSUME n + 1 <= Len(items)
                 PROVE  left[n + 1] \in [Products -> Amounts]
    OBVIOUS
  <2>2. n + 1 \in 1..Len(items) /\ n + 1 \in 0..Len(items) /\ Len(items) \in Nat
    BY <2>1 DEF AreItems
  <2>3. left[n + 1] = Taken(left[n], items[n + 1].product, items[n + 1].quantity)
    BY <1>0, <2>2
  <2>4. left[n] \in [Products -> Amounts]
    BY <1>2, <2>2
  <2>5. items[n + 1].product \in Products /\ items[n + 1].quantity \in Nat \ {0}
    BY <2>2 DEF AreItems
  <2> QED
    BY <2>3, <2>4, <2>5, TakenType
<1> HIDE DEF T
<1>3. \A n \in Nat : n \in T
  BY <1>1, <1>2, NatSetInduction
<1> QED
  BY <1>3 DEF T, left, AreItems

\* The value an item takes, the items before it served first, is not negative.
LEMMA ShareInTurnType ==
    ASSUME NEW pools \in [Products -> Amounts], NEW items, AreItems(items), NEW i \in 1..Len(items)
    PROVE  ShareInTurn(pools, items, i) \in Nat
<1> DEFINE before == PoolsInTurn(pools, items)[i - 1]
<1>1. before \in [Products -> Amounts]
  <2>1. i - 1 \in 0..Len(items)
    BY DEF AreItems
  <2> QED
    BY <2>1, PoolsInTurnType
<1>2. items[i].product \in Products /\ items[i].quantity \in Nat \ {0}
  BY DEF AreItems
<1> HIDE DEF before
<1>3. before[items[i].product] \in Amounts
  BY <1>1, <1>2
<1> QED
  BY <1>2, <1>3, CarryingShareWithin DEF ShareInTurn, before

-----------------------------------------------------------------------------
(* Exact pools: no value without units, and never less than nothing *)

Exact(pool) == pool.qty >= 0 /\ pool.aed >= 0 /\ (pool.qty = 0 => pool.aed = 0)

\* A balance once these movements are posted.
BalanceAfter(moves, k) == Plus(balance[k], Rollup(moves, k))

\* If no shortage stops the movements, they leave every stock exact.
StaysExact(moves) ==
    StaysCovered(Book, moves)
        => \A k \in Keys : k[3] = "PHYSICAL" => Exact(BalanceAfter(moves, k))

\* A rollup is what the rows of its key add up to.
LEMMA RollupIn ==
    ASSUME NEW rows \in Seq(Rows), NEW k
    PROVE  Rollup(rows, k) = NetIn(rows, {row \in Rows : KeyOf(row) = k})
<1>1. \A i \in 1..Len(rows) : rows[i] \in Rows
  OBVIOUS
<1>2. [i \in 1..Len(rows) |-> IF KeyOf(rows[i]) = k THEN rows[i].qty ELSE 0] =
      [i \in 1..Len(rows) |->
          IF rows[i] \in {row \in Rows : KeyOf(row) = k} THEN rows[i].qty ELSE 0]
  BY <1>1
<1>3. [i \in 1..Len(rows) |-> IF KeyOf(rows[i]) = k THEN rows[i].aed ELSE 0] =
      [i \in 1..Len(rows) |->
          IF rows[i] \in {row \in Rows : KeyOf(row) = k} THEN rows[i].aed ELSE 0]
  BY <1>1
<1> QED
  BY <1>2, <1>3 DEF Rollup, NetIn, Net, SumOf

\* One movement more, in the rollup of each key.
LEMMA RollupOneMore ==
    ASSUME NEW moves \in Seq(Rows), NEW m \in Rows, NEW k
    PROVE  Rollup(moves \o << m >>, k) =
             IF KeyOf(m) = k THEN Plus(Rollup(moves, k), [qty |-> m.qty, aed |-> m.aed])
             ELSE Rollup(moves, k)
<1> DEFINE S == {row \in Rows : KeyOf(row) = k}
<1>1. ASSUME NEW rows \in Seq(Rows) PROVE Rollup(rows, k) = NetIn(rows, S)
  BY RollupIn
<1>2. m \in S <=> KeyOf(m) = k
  OBVIOUS
<1> HIDE DEF S
<1>3. PICK one \in Seq(Rows) : one = << m >>
  <2>1. << m >> \in Seq(Rows)
    OBVIOUS
  <2> QED
    BY <2>1
<1>4. PICK all \in Seq(Rows) : all = moves \o one
  BY ConcatProperties
<1>5. NetIn(all, S) = Plus(NetIn(moves, S), NetIn(one, S))
  BY <1>4, NetInConcat
<1>6. NetIn(one, S) = IF m \in S THEN [qty |-> m.qty, aed |-> m.aed] ELSE NoStock
  BY <1>3, NetInSingle
<1>7. Rollup(all, k) = NetIn(all, S) /\ Rollup(moves, k) = NetIn(moves, S)
  BY <1>1
<1>8. NetIn(moves, S) \in [qty: Int, aed: Int]
  BY NetInType
<1>9. Plus(NetIn(moves, S), NoStock) = NetIn(moves, S)
  BY <1>8 DEF Plus, NoStock
<1> QED
  BY <1>2, <1>3, <1>4, <1>5, <1>6, <1>7, <1>9

\* Movements that no shortage stops are so without their last one; and if that
\* one takes stock out of a PHYSICAL balance, it is covered.
LEMMA CoveredOneMore ==
    ASSUME NEW book, NEW moves \in Seq(Rows), NEW m \in Rows,
           StaysCovered(book, moves \o << m >>)
    PROVE  /\ StaysCovered(book, moves)
           /\ m.bucket = "PHYSICAL" /\ m.qty < 0
                 => book.balance[KeyOf(m)].qty + Rollup(moves \o << m >>, KeyOf(m)).qty >= 0
<1> DEFINE n == Len(moves)
<1>1. PICK all \in Seq(Rows) : all = moves \o << m >>
  <2>1. moves \o << m >> \in Seq(Rows)
    OBVIOUS
  <2> QED
    BY <2>1
<1>2. /\ Len(all) = n + 1 /\ all[n + 1] = m /\ n \in Nat
      /\ \A i \in 1..n : all[i] = moves[i]
      /\ SubSeq(all, 1, n + 1) = all
  BY <1>1
<1>3. \A i \in 1..n : SubSeq(all, 1, i) = SubSeq(moves, 1, i)
  BY <1>1
<1>4. \A i \in 1..(n + 1) :
         all[i].bucket = "PHYSICAL" /\ all[i].qty < 0 => RunningQty(book, all, i) >= 0
  BY <1>1, <1>2 DEF StaysCovered
<1> HIDE DEF n
<1>5. ASSUME NEW i \in 1..n, moves[i].bucket = "PHYSICAL", moves[i].qty < 0
      PROVE  RunningQty(book, moves, i) >= 0
  <2>1. i \in 1..(n + 1) /\ all[i] = moves[i] /\ SubSeq(all, 1, i) = SubSeq(moves, 1, i)
    BY <1>2, <1>3
  <2>2. RunningQty(book, all, i) >= 0
    BY <1>4, <1>5, <2>1
  <2> QED
    BY <2>1, <2>2 DEF RunningQty
<1>6. StaysCovered(book, moves)
  BY <1>5 DEF StaysCovered, n
<1>7. ASSUME m.bucket = "PHYSICAL", m.qty < 0
      PROVE  book.balance[KeyOf(m)].qty + Rollup(all, KeyOf(m)).qty >= 0
  <2>1. n + 1 \in 1..(n + 1)
    BY <1>2
  <2>2. RunningQty(book, all, n + 1) >= 0
    BY <1>2, <1>4, <1>7, <2>1
  <2> QED
    BY <1>2, <2>2 DEF RunningQty
<1> QED
  BY <1>1, <1>6, <1>7

\* Units that come with a value keep a pool exact.
LEMMA ExactGiven ==
    ASSUME NEW pool \in Amounts, Exact(pool), NEW q \in Int, q > 0, NEW aed \in Int, aed >= 0
    PROVE  Exact(Plus(pool, [qty |-> q, aed |-> aed]))
<1>1. PICK x \in Int, y \in Int : x = pool.qty /\ y = pool.aed
  BY DEF Amounts
<1>2. x >= 0 /\ y >= 0
  BY <1>1 DEF Exact
<1>3. x + q >= 0 /\ y + aed >= 0 /\ x + q # 0
  BY <1>2
<1>4. Plus(pool, [qty |-> q, aed |-> aed]) = [qty |-> x + q, aed |-> y + aed]
  BY <1>1 DEF Plus
<1> QED
  BY <1>3, <1>4 DEF Exact

\* So do units that leave with their carrying share, if there are so many: the
\* last of them takes all the value.
LEMMA ExactTaken ==
    ASSUME NEW pool \in Amounts, Exact(pool), NEW q \in Nat \ {0}, q <= pool.qty
    PROVE  Exact(Plus(pool, [qty |-> -q, aed |-> -CarryingShare(q, pool)]))
<1>1. PICK x \in Int, y \in Int : x = pool.qty /\ y = pool.aed
  BY DEF Amounts
<1>2. x > 0 /\ y >= 0 /\ q <= x
  BY <1>1 DEF Exact
<1>3. PICK share \in Nat : share = CarryingShare(q, pool) /\ share <= y
  BY <1>1, <1>2, CarryingShareWithin
<1>4. q = x => share = y
  <2>1. CASE y = 0
    BY <1>3, <2>1
  <2>2. CASE y > 0
    <3>1. q = x => CarryingShare(q, pool) = y
      BY <1>1, <1>2, <2>2 DEF CarryingShare
    <3> QED
      BY <1>3, <3>1
  <2> QED
    BY <1>2, <2>1, <2>2
<1>5. x + (-q) >= 0 /\ y + (-share) >= 0 /\ (x + (-q) = 0 => y + (-share) = 0)
  BY <1>2, <1>3, <1>4
<1>6. Plus(pool, [qty |-> -q, aed |-> -share]) = [qty |-> x + (-q), aed |-> y + (-share)]
  BY <1>1 DEF Plus
<1> QED
  BY <1>3, <1>5, <1>6 DEF Exact

\* A balance that is typed is so after movements.
LEMMA BalanceAfterType ==
    ASSUME NEW moves \in Seq(Rows), NEW k, balance[k] \in Amounts
    PROVE  BalanceAfter(moves, k) \in Amounts
BY RollupType DEF BalanceAfter, Plus, Amounts

\* One movement more, in the balance of each key.
LEMMA BalanceOneMore ==
    ASSUME NEW moves \in Seq(Rows), NEW m \in Rows, NEW k, balance[k] \in Amounts
    PROVE  BalanceAfter(moves \o << m >>, k) =
             IF KeyOf(m) = k THEN Plus(BalanceAfter(moves, k), [qty |-> m.qty, aed |-> m.aed])
             ELSE BalanceAfter(moves, k)
<1>1. PICK x \in Int, y \in Int, a \in Int, b \in Int, q \in Int, v \in Int :
         /\ balance[k].qty = x /\ balance[k].aed = y
         /\ Rollup(moves, k).qty = a /\ Rollup(moves, k).aed = b
         /\ m.qty = q /\ m.aed = v
  <2>1. m.qty \in Int /\ m.aed \in Int
    BY DEF Rows
  <2>2. Rollup(moves, k).qty \in Int /\ Rollup(moves, k).aed \in Int
    BY RollupType
  <2>3. balance[k].qty \in Int /\ balance[k].aed \in Int
    BY DEF Amounts
  <2> QED
    BY <2>1, <2>2, <2>3
<1>2. /\ x + (a + q) = (x + a) + q
      /\ y + (b + v) = (y + b) + v
  OBVIOUS
<1>3. CASE KeyOf(m) = k
  <2>1. Rollup(moves \o << m >>, k) = [qty |-> a + q, aed |-> b + v]
    BY <1>1, <1>3, RollupOneMore DEF Plus
  <2>2. BalanceAfter(moves \o << m >>, k) = [qty |-> x + (a + q), aed |-> y + (b + v)]
    BY <1>1, <2>1 DEF BalanceAfter, Plus
  <2>3. Plus(BalanceAfter(moves, k), [qty |-> m.qty, aed |-> m.aed]) =
          [qty |-> (x + a) + q, aed |-> (y + b) + v]
    BY <1>1 DEF BalanceAfter, Plus
  <2> QED
    BY <1>2, <1>3, <2>2, <2>3
<1>4. CASE KeyOf(m) # k
  <2>1. Rollup(moves \o << m >>, k) = Rollup(moves, k)
    BY <1>4, RollupOneMore
  <2> QED
    BY <1>4, <2>1 DEF BalanceAfter
<1> QED
  BY <1>3, <1>4

\* A movement that brings stock in with a value, after movements that leave every
\* stock exact.
LEMMA PutBackExact ==
    ASSUME \A k \in Keys : balance[k] \in Amounts,
           NEW moves \in Seq(Rows), StaysExact(moves),
           NEW m \in Rows, m.qty > 0, m.aed >= 0
    PROVE  StaysExact(moves \o << m >>)
<1>1. SUFFICES ASSUME StaysCovered(Book, moves \o << m >>), NEW k \in Keys, k[3] = "PHYSICAL"
               PROVE  Exact(BalanceAfter(moves \o << m >>, k))
  BY DEF StaysExact
<1>2. Exact(BalanceAfter(moves, k)) /\ BalanceAfter(moves, k) \in Amounts
  <2>1. StaysCovered(Book, moves)
    BY <1>1, CoveredOneMore
  <2> QED
    BY <1>1, <2>1, BalanceAfterType DEF StaysExact
<1>3. m.qty \in Int /\ m.aed \in Int
  BY DEF Rows
<1>4. CASE KeyOf(m) = k
  <2>1. Exact(Plus(BalanceAfter(moves, k), [qty |-> m.qty, aed |-> m.aed]))
    BY <1>2, <1>3, ExactGiven
  <2> QED
    BY <1>1, <1>4, <2>1, BalanceOneMore
<1>5. CASE KeyOf(m) # k
  BY <1>1, <1>2, <1>5, BalanceOneMore
<1> QED
  BY <1>4, <1>5

\* A movement that takes stock out with the share of the balance it finds.
LEMMA TakeOutExact ==
    ASSUME \A k \in Keys : balance[k] \in Amounts,
           NEW moves \in Seq(Rows), StaysExact(moves),
           NEW m \in Rows, NEW q \in Nat \ {0}, m.bucket = "PHYSICAL", m.qty = -q,
           m.aed = -CarryingShare(q, BalanceAfter(moves, KeyOf(m)))
    PROVE  StaysExact(moves \o << m >>)
<1>1. SUFFICES ASSUME StaysCovered(Book, moves \o << m >>), NEW k \in Keys, k[3] = "PHYSICAL"
               PROVE  Exact(BalanceAfter(moves \o << m >>, k))
  BY DEF StaysExact
<1>2. Exact(BalanceAfter(moves, k)) /\ BalanceAfter(moves, k) \in Amounts
  <2>1. StaysCovered(Book, moves)
    BY <1>1, CoveredOneMore
  <2> QED
    BY <1>1, <2>1, BalanceAfterType DEF StaysExact
<1>3. CASE KeyOf(m) = k
  <2>1. BalanceAfter(moves \o << m >>, k) =
          Plus(BalanceAfter(moves, k), [qty |-> m.qty, aed |-> m.aed])
    BY <1>1, <1>3, BalanceOneMore
  <2>2. PICK pool \in Amounts : pool = BalanceAfter(moves, k)
    BY <1>2
  <2>3. q <= pool.qty
    <3>1. m.qty < 0
      OBVIOUS
    <3>2. Book.balance[KeyOf(m)].qty + Rollup(moves \o << m >>, KeyOf(m)).qty >= 0
      BY <1>1, <3>1, CoveredOneMore
    <3>2a. Book.balance = balance
      BY DEF Book
    <3>2b. balance[k].qty + Rollup(moves \o << m >>, k).qty >= 0
      BY <1>3, <3>2, <3>2a
    <3>3. BalanceAfter(moves \o << m >>, k).qty >= 0
      BY <3>2b DEF BalanceAfter, Plus
    <3>4. pool.qty + m.qty >= 0 /\ pool.qty \in Int
      BY <2>1, <2>2, <3>3 DEF Plus, Amounts
    <3> QED
      BY <3>4
  <2>4. Exact(Plus(pool, [qty |-> -q, aed |-> -CarryingShare(q, pool)]))
    BY <1>2, <2>2, <2>3, ExactTaken
  <2> QED
    BY <1>3, <2>1, <2>2, <2>4
<1>4. CASE KeyOf(m) # k
  BY <1>1, <1>2, <1>4, BalanceOneMore
<1> QED
  BY <1>3, <1>4

\* The pools of a location once these movements are posted.
PoolsAfter(moves, loc) == [p \in Products |-> BalanceAfter(moves, <<p, loc, "PHYSICAL">>)]

\* A movement at the location is one in the pool of its product.
LEMMA PoolsOneMore ==
    ASSUME \A k \in Keys : balance[k] \in Amounts,
           NEW moves \in Seq(Rows), NEW m \in Rows, m.bucket = "PHYSICAL"
    PROVE  PoolsAfter(moves \o << m >>, m.loc) =
             [PoolsAfter(moves, m.loc) EXCEPT
                 ![m.product] = Plus(@, [qty |-> m.qty, aed |-> m.aed])]
<1> DEFINE key(p) == <<p, m.loc, "PHYSICAL">>
           amount == [qty |-> m.qty, aed |-> m.aed]
<1>1. m.loc \in Locations /\ m.product \in Products
  BY DEF Rows
<1>2. \A p \in Products : key(p) \in Keys
  BY <1>1 DEF Keys, Buckets
<1>3. \A p \in Products : KeyOf(m) = key(p) <=> p = m.product
  BY DEF KeyOf
<1>4. ASSUME NEW p \in Products
      PROVE  BalanceAfter(moves \o << m >>, key(p)) =
               IF p = m.product THEN Plus(BalanceAfter(moves, key(p)), amount)
               ELSE BalanceAfter(moves, key(p))
  <2>1. PICK k \in Keys : k = key(p)
    BY <1>2
  <2>2. BalanceAfter(moves \o << m >>, k) =
          IF KeyOf(m) = k THEN Plus(BalanceAfter(moves, k), amount) ELSE BalanceAfter(moves, k)
    BY BalanceOneMore
  <2> QED
    BY <1>3, <2>1, <2>2
<1> HIDE DEF amount
<1> QED
  BY <1>1, <1>4 DEF PoolsAfter, amount

\* Giving back to a running pool is what the movement will do to the balance.
LEMMA GivenFollows ==
    ASSUME \A k \in Keys : balance[k] \in Amounts,
           NEW moves \in Seq(Rows), NEW m \in Rows, m.bucket = "PHYSICAL"
    PROVE  Given(PoolsAfter(moves, m.loc), m.product, m.qty, m.aed) =
             PoolsAfter(moves \o << m >>, m.loc)
<1>1. PICK pools : pools = PoolsAfter(moves, m.loc)
  OBVIOUS
<1>2. Given(pools, m.product, m.qty, m.aed) =
        [pools EXCEPT ![m.product] = Plus(@, [qty |-> m.qty, aed |-> m.aed])]
  BY DEF Given, Plus
<1> QED
  BY <1>1, <1>2, PoolsOneMore

\* So is taking from it.
LEMMA TakenFollows ==
    ASSUME \A k \in Keys : balance[k] \in Amounts,
           NEW moves \in Seq(Rows), NEW m \in Rows, m.bucket = "PHYSICAL",
           NEW q \in Nat \ {0}, m.qty = -q,
           m.aed = -CarryingShare(q, PoolsAfter(moves, m.loc)[m.product])
    PROVE  Taken(PoolsAfter(moves, m.loc), m.product, q) = PoolsAfter(moves \o << m >>, m.loc)
<1>1. PICK pools : pools = PoolsAfter(moves, m.loc)
  OBVIOUS
<1>2. m.product \in Products /\ m.loc \in Locations
  BY DEF Rows
<1>3. PICK pool \in Amounts : pool = pools[m.product]
  <2>1. <<m.product, m.loc, "PHYSICAL">> \in Keys
    BY <1>2 DEF Keys, Buckets
  <2>2. pools[m.product] = BalanceAfter(moves, <<m.product, m.loc, "PHYSICAL">>)
    BY <1>1, <1>2 DEF PoolsAfter
  <2> QED
    BY <2>1, <2>2, BalanceAfterType
<1>4. PICK share \in Nat : share = CarryingShare(q, pool)
  BY CarryingShareWithin
<1>5. [qty |-> pool.qty - q, aed |-> pool.aed - share] = Plus(pool, [qty |-> -q, aed |-> -share])
  <2>1. pool.qty - q = pool.qty + (-q) /\ pool.aed - share = pool.aed + (-share)
    BY DEF Amounts
  <2> QED
    BY <2>1 DEF Plus
<1>6. Taken(pools, m.product, q) =
        [pools EXCEPT ![m.product] = [qty |-> pool.qty - q, aed |-> pool.aed - share]]
  BY <1>3, <1>4 DEF Taken
<1>7. m.qty = -q /\ m.aed = -share
  BY <1>1, <1>3, <1>4
<1>8. PoolsAfter(moves \o << m >>, m.loc) =
        [pools EXCEPT ![m.product] = Plus(pool, [qty |-> m.qty, aed |-> m.aed])]
  BY <1>1, <1>3, PoolsOneMore
<1> QED
  BY <1>1, <1>5, <1>6, <1>7, <1>8

\* Before anything is posted, the balances are what they are.
LEMMA NothingAfter ==
    ASSUME \A k \in Keys : balance[k] \in Amounts
    PROVE  /\ \A k \in Keys : BalanceAfter(<< >>, k) = balance[k]
           /\ \A loc \in Locations : PoolsAfter(<< >>, loc) = PoolsAt(loc)
<1>1. ASSUME NEW k \in Keys PROVE BalanceAfter(<< >>, k) = balance[k]
  <2>1. balance[k] \in Amounts /\ Rollup(<< >>, k) = NoStock
    BY RollupEmpty DEF NoStock
  <2> QED
    BY <2>1 DEF BalanceAfter, Plus, NoStock, Amounts
<1>2. \A loc \in Locations, p \in Products : <<p, loc, "PHYSICAL">> \in Keys
  BY DEF Keys, Buckets
<1> QED
  BY <1>1, <1>2 DEF PoolsAfter, PoolsAt

\* Every stock is exact.
PoolsExact == \A k \in Keys : k[3] = "PHYSICAL" => Exact(balance[k])

\* A post of such movements that is not confirmed leaves every stock exact.
LEMMA PostExact ==
    ASSUME NEW moves \in Seq(Rows), StaysExact(moves), Post(moves, FALSE)
    PROVE  PoolsExact'
<1>1. StaysCovered(Book, moves)
  BY DEF Post, CanPost
<1>2. balance' = [k \in Keys |-> [qty |-> balance[k].qty + Rollup(moves, k).qty,
                                  aed |-> balance[k].aed + Rollup(moves, k).aed]]
  BY DEF Post, Install, Posted, Book
<1>3. \A k \in Keys : balance'[k] = BalanceAfter(moves, k)
  BY <1>2 DEF BalanceAfter, Plus
<1> QED
  BY <1>1, <1>3 DEF StaysExact, PoolsExact

\* More rows behind the old ones only add to those that are kept, and one that is
\* kept adds at least one.
LEMMA KeptGrows ==
    ASSUME NEW X, NEW s \in Seq(X), NEW t \in Seq(X), NEW I, NEW J,
           \A i \in 1..Len(s) : i \in I <=> i \in J
    PROVE  /\ Len(Kept(s, I)) \in Nat /\ Len(Kept(s \o t, J)) \in Nat
           /\ Len(Kept(s \o t, J)) >= Len(Kept(s, I))
           /\ (\E i \in 1..Len(t) : Len(s) + i \in J) => Len(Kept(s \o t, J)) > Len(Kept(s, I))
<1> DEFINE n   == Len(s)
           len == Len(s) + Len(t)
           old == KeptPrefixes(s, I)
           new == KeptPrefixes(s \o t, J)
           T   == {k \in Nat : k <= n => old[k] = new[k] /\ new[k] \in Seq(X)}
           U   == {k \in Nat : k <= Len(t) =>
                     /\ new[n + k] \in Seq(X)
                     /\ Len(new[n + k]) >= Len(new[n])
                     /\ (\E i \in 1..k : n + i \in J) => Len(new[n + k]) > Len(new[n])}
<1>1. PICK all \in Seq(X) : all = s \o t
  BY ConcatProperties
<1>2. /\ n \in Nat /\ Len(t) \in Nat /\ len \in Nat /\ Len(all) = len
      /\ \A i \in 1..n : all[i] = s[i]
      /\ \A i \in 1..len : all[i] \in X
  BY <1>1
<1>3. \A k \in 0..n : old[k] = IF k = 0 THEN << >>
                               ELSE IF k \in I THEN Append(old[k - 1], s[k]) ELSE old[k - 1]
  BY KeptEquation
<1>4. \A k \in 0..len : new[k] = IF k = 0 THEN << >>
                                 ELSE IF k \in J THEN Append(new[k - 1], all[k]) ELSE new[k - 1]
  <2>1. \A k \in 0..Len(all) :
           KeptPrefixes(all, J)[k] =
              IF k = 0 THEN << >>
              ELSE IF k \in J THEN Append(KeptPrefixes(all, J)[k - 1], all[k])
              ELSE KeptPrefixes(all, J)[k - 1]
    BY KeptEquation
  <2>2. new = KeptPrefixes(all, J)
    BY <1>1
  <2> HIDE DEF new
  <2> QED
    BY <1>2, <2>1, <2>2
<1>5. Kept(s, I) = old[n] /\ Kept(s \o t, J) = new[len]
  BY <1>1, <1>2 DEF Kept
<1> HIDE DEF old, new
<1>6. 0 \in T
  <2>1. 0 \in 0..n /\ 0 \in 0..len
    BY <1>2
  <2>2. old[0] = << >> /\ new[0] = << >>
    BY <1>3, <1>4, <2>1
  <2>3. << >> \in Seq(X)
    OBVIOUS
  <2> QED
    BY <2>2, <2>3
<1>7. ASSUME NEW k \in Nat, k \in T PROVE k + 1 \in T
  <2>1. SUFFICES ASSUME k + 1 <= n
                 PROVE  old[k + 1] = new[k + 1] /\ new[k + 1] \in Seq(X)
    OBVIOUS
  <2>2. old[k] = new[k] /\ new[k] \in Seq(X)
    BY <1>2, <1>7, <2>1
  <2>3. k + 1 \in 0..n /\ k + 1 \in 0..len /\ k + 1 \in 1..n /\ k + 1 \in 1..len
        /\ (k + 1) - 1 = k /\ k + 1 # 0
    BY <1>2, <2>1
  <2>4. all[k + 1] = s[k + 1] /\ all[k + 1] \in X /\ (k + 1 \in I <=> k + 1 \in J)
    BY <1>2, <2>3
  <2>5. /\ old[k + 1] = IF k + 1 \in I THEN Append(old[k], s[k + 1]) ELSE old[k]
        /\ new[k + 1] = IF k + 1 \in J THEN Append(new[k], all[k + 1]) ELSE new[k]
    BY <1>3, <1>4, <2>3
  <2>6. Append(new[k], all[k + 1]) \in Seq(X)
    BY <2>2, <2>4, AppendProperties
  <2> QED
    BY <2>2, <2>4, <2>5, <2>6
<1> HIDE DEF T
<1>8. \A k \in Nat : k \in T
  BY <1>6, <1>7, NatSetInduction
<1>9. old[n] = new[n] /\ new[n] \in Seq(X)
  BY <1>2, <1>8 DEF T
<1>10. 0 \in U
  <2>1. n + 0 = n /\ 1..0 = {}
    BY <1>2
  <2> QED
    BY <1>9, <2>1
<1>11. ASSUME NEW k \in Nat, k \in U PROVE k + 1 \in U
  <2>1. SUFFICES ASSUME k + 1 <= Len(t)
                 PROVE  /\ new[n + (k + 1)] \in Seq(X)
                        /\ Len(new[n + (k + 1)]) >= Len(new[n])
                        /\ (\E i \in 1..(k + 1) : n + i \in J)
                              => Len(new[n + (k + 1)]) > Len(new[n])
    OBVIOUS
  <2>2. /\ new[n + k] \in Seq(X)
        /\ Len(new[n + k]) >= Len(new[n])
        /\ (\E i \in 1..k : n + i \in J) => Len(new[n + k]) > Len(new[n])
    BY <1>2, <1>11, <2>1
  <2>3. PICK j \in 1..len : j = n + (k + 1) /\ j - 1 = n + k /\ j \in 0..len /\ j # 0
    BY <1>2, <2>1
  <2>4. new[j] = IF j \in J THEN Append(new[n + k], all[j]) ELSE new[n + k]
    BY <1>4, <2>3
  <2>5. all[j] \in X
    BY <1>2, <2>3
  <2>6. PICK before \in Seq(X) : before = new[n + k]
    BY <2>2
  <2>7. /\ Append(before, all[j]) \in Seq(X)
        /\ Len(Append(before, all[j])) = Len(before) + 1
    BY <2>5, AppendProperties
  <2>8. PICK b \in Nat, a \in Nat : b = Len(before) /\ a = Len(new[n])
    BY <1>9, <2>6
  <2>9. 1..(k + 1) = 1..k \union {k + 1}
    OBVIOUS
  <2>10. CASE j \in J
    BY <2>2, <2>3, <2>4, <2>6, <2>7, <2>8, <2>10
  <2>11. CASE j \notin J
    BY <2>2, <2>3, <2>4, <2>6, <2>8, <2>9, <2>11
  <2> QED
    BY <2>10, <2>11
<1> HIDE DEF U
<1>12. \A k \in Nat : k \in U
  BY <1>10, <1>11, NatSetInduction
<1>13. /\ new[len] \in Seq(X)
       /\ Len(new[len]) >= Len(new[n])
       /\ (\E i \in 1..Len(t) : n + i \in J) => Len(new[len]) > Len(new[n])
  <2>1. PICK k \in Nat : k = Len(t)
    BY <1>2
  <2>2. n + k = len /\ k <= Len(t) /\ k \in U
    BY <1>12, <2>1
  <2> HIDE DEF n, len
  <2> QED
    BY <2>1, <2>2 DEF U
<1>14. Len(new[len]) \in Nat /\ Len(new[n]) \in Nat
  BY <1>9, <1>13
<1> QED
  BY <1>5, <1>9, <1>13, <1>14

\* A record's rows only become more, and any row of its own is one more.
LEMMA SourceRowsGrow ==
    ASSUME NEW rows \in Seq(Rows), NEW more \in Seq(Rows), NEW stype, NEW sid
    PROVE  /\ Len(SourceRows(rows, stype, sid)) \in Nat
           /\ Len(SourceRows(rows \o more, stype, sid)) \in Nat
           /\ Len(SourceRows(rows \o more, stype, sid)) >= Len(SourceRows(rows, stype, sid))
           /\ (\E i \in 1..Len(more) : more[i].stype = stype /\ more[i].sid = sid)
                 => Len(SourceRows(rows \o more, stype, sid))
                       > Len(SourceRows(rows, stype, sid))
<1> DEFINE I == {i \in DOMAIN rows : rows[i].stype = stype /\ rows[i].sid = sid}
           J == {i \in DOMAIN (rows \o more) :
                    (rows \o more)[i].stype = stype /\ (rows \o more)[i].sid = sid}
<1>1. \A i \in 1..Len(rows) : i \in I <=> i \in J
  OBVIOUS
<1>2. \A i \in 1..Len(more) : more[i].stype = stype /\ more[i].sid = sid => Len(rows) + i \in J
  <2>1. SUFFICES ASSUME NEW i \in 1..Len(more), more[i].stype = stype, more[i].sid = sid
                 PROVE  Len(rows) + i \in J
    OBVIOUS
  <2>2. Len(rows) + i \in DOMAIN (rows \o more) /\ (rows \o more)[Len(rows) + i] = more[i]
    OBVIOUS
  <2> QED
    BY <2>1, <2>2
<1>3. /\ SourceRows(rows, stype, sid) = Kept(rows, I)
      /\ SourceRows(rows \o more, stype, sid) = Kept(rows \o more, J)
  BY DEF SourceRows
<1> HIDE DEF I, J
<1>4. /\ Len(Kept(rows, I)) \in Nat /\ Len(Kept(rows \o more, J)) \in Nat
      /\ Len(Kept(rows \o more, J)) >= Len(Kept(rows, I))
      /\ (\E i \in 1..Len(more) : Len(rows) + i \in J)
            => Len(Kept(rows \o more, J)) > Len(Kept(rows, I))
  BY <1>1, KeptGrows
<1> QED
  BY <1>2, <1>3, <1>4

-----------------------------------------------------------------------------
(* Sums over finite sets *)

\* A set of subsets of a finite S that has {} and is closed under adding elements
\* of S has S.
LEMMA SubsetInduction ==
    ASSUME NEW S, IsFiniteSet(S), NEW T, {} \in T,
           \A s \in SUBSET S : \A x \in S \ s : s \in T => s \union {x} \in T
    PROVE  S \in T
<1> DEFINE U == {n \in Nat : \A s \in SUBSET S : Cardinality(s) = n => s \in T}
<1>1. 0 \in U
  <2>1. ASSUME NEW s \in SUBSET S, Cardinality(s) = 0 PROVE s \in T
    <3>1. IsFiniteSet(s)
      BY FS_Subset
    <3>2. s = {}
      BY <2>1, <3>1, FS_EmptySet
    <3> QED
      BY <3>2
  <2> QED
    BY <2>1
<1>2. ASSUME NEW n \in Nat, n \in U PROVE n + 1 \in U
  <2>1. ASSUME NEW s \in SUBSET S, Cardinality(s) = n + 1 PROVE s \in T
    <3>1. IsFiniteSet(s)
      BY FS_Subset
    <3>2. PICK x : x \in s
      <4>1. Cardinality(s) # 0
        BY <2>1
      <4> QED
        BY <4>1, FS_EmptySet
    <3>3. Cardinality(s \ {x}) = n
      <4>1. Cardinality(s \ {x}) = Cardinality(s) - 1
        BY <3>1, <3>2, FS_RemoveElement
      <4> QED
        BY <2>1, <4>1
    <3>4. s \ {x} \in T
      BY <1>2, <3>3
    <3>5. s \ {x} \in SUBSET S /\ x \in S \ (s \ {x}) /\ (s \ {x}) \union {x} = s
      BY <3>2
    <3> QED
      BY <3>4, <3>5
  <2> QED
    BY <2>1
<1> HIDE DEF U
<1>3. \A n \in Nat : n \in U
  BY <1>1, <1>2, NatSetInduction
<1>4. Cardinality(S) \in Nat
  BY FS_CardinalityType
<1> QED
  BY <1>3, <1>4 DEF U

\* The element a sum takes first.
FirstOf(s) == CHOOSE x \in s : TRUE

\* The recursion equation of the sums over the subsets of S.
IsSetSums(sum, f, S) ==
    sum = [s \in SUBSET S |-> IF s = {} THEN 0 ELSE f[FirstOf(s)] + sum[s \ {FirstOf(s)}]]

\* The equation as far as the subsets of at most n elements.
SumsBelow(sum, f, S, n) ==
    /\ sum = [s \in SUBSET S |-> sum[s]]
    /\ \A s \in SUBSET S : Cardinality(s) <= n =>
          sum[s] = IF s = {} THEN 0 ELSE f[FirstOf(s)] + sum[s \ {FirstOf(s)}]

\* A subset is finite, and has one element less without its first.
LEMMA FirstTaken ==
    ASSUME NEW S, IsFiniteSet(S), NEW s \in SUBSET S
    PROVE  /\ IsFiniteSet(s) /\ Cardinality(s) \in Nat /\ Cardinality(s) <= Cardinality(S)
           /\ s # {} => /\ FirstOf(s) \in s
                        /\ s \ {FirstOf(s)} \in SUBSET S
                        /\ Cardinality(s \ {FirstOf(s)}) = Cardinality(s) - 1
           /\ Cardinality(s) = 0 <=> s = {}
<1>1. IsFiniteSet(s) /\ Cardinality(s) <= Cardinality(S)
  BY FS_Subset
<1>2. s # {} => FirstOf(s) \in s
  BY DEF FirstOf
<1>3. s # {} => Cardinality(s \ {FirstOf(s)}) = Cardinality(s) - 1
  BY <1>1, <1>2, FS_RemoveElement
<1> QED
  BY <1>1, <1>2, <1>3, FS_CardinalityType, FS_EmptySet

\* The equation has a solution.
LEMMA SetSumsExist ==
    ASSUME NEW f, NEW S, IsFiniteSet(S)
    PROVE  \E sum : IsSetSums(sum, f, S)
<1> DEFINE T == {n \in Nat : \E sum : SumsBelow(sum, f, S, n)}
<1>1. 0 \in T
  <2> DEFINE sum == [s \in SUBSET S |-> 0]
  <2>1. ASSUME NEW s \in SUBSET S, Cardinality(s) <= 0 PROVE s = {}
    <3>1. Cardinality(s) \in Nat /\ (Cardinality(s) = 0 <=> s = {})
      BY FirstTaken
    <3> QED
      BY <2>1, <3>1
  <2>2. SumsBelow(sum, f, S, 0)
    BY <2>1 DEF SumsBelow
  <2> HIDE DEF sum
  <2> QED
    BY <2>2
<1>2. ASSUME NEW n \in Nat, n \in T PROVE n + 1 \in T
  <2>1. PICK sum : SumsBelow(sum, f, S, n)
    BY <1>2
  <2> DEFINE next == [s \in SUBSET S |->
                        IF Cardinality(s) = n + 1 THEN f[FirstOf(s)] + sum[s \ {FirstOf(s)}]
                        ELSE sum[s]]
  <2>2. ASSUME NEW s \in SUBSET S, Cardinality(s) <= n + 1
        PROVE  next[s] = IF s = {} THEN 0 ELSE f[FirstOf(s)] + next[s \ {FirstOf(s)}]
    <3>0. Cardinality(s) \in Nat
      BY FirstTaken
    <3>1. CASE s = {}
      <4>1. Cardinality(s) = 0
        BY <3>1, FirstTaken
      <4>2. Cardinality(s) <= n /\ Cardinality(s) # n + 1
        BY <4>1
      <4>3. sum[s] = 0
        BY <2>1, <3>1, <4>2 DEF SumsBelow
      <4> QED
        BY <3>1, <4>2, <4>3
    <3>2. CASE s # {}
      <4>1. /\ s \ {FirstOf(s)} \in SUBSET S
            /\ Cardinality(s \ {FirstOf(s)}) = Cardinality(s) - 1
        BY <3>2, FirstTaken
      <4>2. Cardinality(s \ {FirstOf(s)}) # n + 1
        BY <2>2, <3>0, <4>1
      <4>3. next[s \ {FirstOf(s)}] = sum[s \ {FirstOf(s)}]
        BY <4>1, <4>2
      <4>4. CASE Cardinality(s) = n + 1
        BY <3>2, <4>3, <4>4
      <4>5. CASE Cardinality(s) # n + 1
        <5>1. Cardinality(s) <= n
          BY <2>2, <3>0, <4>5
        <5>2. sum[s] = f[FirstOf(s)] + sum[s \ {FirstOf(s)}]
          BY <2>1, <3>2, <5>1 DEF SumsBelow
        <5> QED
          BY <3>2, <4>3, <4>5, <5>2
      <4> QED
        BY <4>4, <4>5
    <3> QED
      BY <3>1, <3>2
  <2>3. next = [s \in SUBSET S |-> next[s]]
    OBVIOUS
  <2> HIDE DEF next
  <2>4. SumsBelow(next, f, S, n + 1)
    BY <2>2, <2>3 DEF SumsBelow
  <2> QED
    BY <2>4
<1> HIDE DEF T
<1>3. \A n \in Nat : n \in T
  BY <1>1, <1>2, NatSetInduction
<1>4. Cardinality(S) \in T
  BY <1>3, FS_CardinalityType
<1>5. PICK sum : SumsBelow(sum, f, S, Cardinality(S))
  BY <1>4 DEF T
<1>6. \A s \in SUBSET S : Cardinality(s) <= Cardinality(S)
  BY FirstTaken
<1>7. \A s \in SUBSET S :
         sum[s] = IF s = {} THEN 0 ELSE f[FirstOf(s)] + sum[s \ {FirstOf(s)}]
  BY <1>5, <1>6 DEF SumsBelow
<1>8. sum = [s \in SUBSET S |-> sum[s]]
  BY <1>5 DEF SumsBelow
<1>9. IsSetSums(sum, f, S)
  BY <1>7, <1>8 DEF IsSetSums
<1> QED
  BY <1>9

\* The solution that SumFunctionOnSet takes.
SetSums(f, S) == CHOOSE sum : IsSetSums(sum, f, S)

LEMMA SetSumsUsed ==
    ASSUME NEW f, NEW S
    PROVE  SumFunctionOnSet(f, S) = SetSums(f, S)[S]
BY DEF SumFunctionOnSet, FoldFunctionOnSet, MapThenFoldSet, SetSums, IsSetSums, FirstOf

LEMMA SetSumsEquation ==
    ASSUME NEW f, NEW S, IsFiniteSet(S)
    PROVE  \A s \in SUBSET S :
              SetSums(f, S)[s] =
                 IF s = {} THEN 0 ELSE f[FirstOf(s)] + SetSums(f, S)[s \ {FirstOf(s)}]
<1>1. IsSetSums(SetSums(f, S), f, S)
  BY SetSumsExist DEF SetSums
<1>2. PICK sum : sum = SetSums(f, S)
  OBVIOUS
<1>3. \A s \in SUBSET S :
         sum[s] = IF s = {} THEN 0 ELSE f[FirstOf(s)] + sum[s \ {FirstOf(s)}]
  BY <1>1, <1>2 DEF IsSetSums
<1> QED
  BY <1>2, <1>3

\* The sum over a set does not depend on the set it is part of.
LEMMA SetSumsAgree ==
    ASSUME NEW f, NEW S, IsFiniteSet(S), NEW R \in SUBSET S
    PROVE  SetSums(f, S)[R] = SumFunctionOnSet(f, R)
<1> DEFINE T == {n \in Nat : \A s \in SUBSET R : Cardinality(s) <= n =>
                                SetSums(f, S)[s] = SetSums(f, R)[s]}
<1>0. IsFiniteSet(R) /\ Cardinality(R) \in Nat
  BY FirstTaken
<1>1. \A s \in SUBSET R :
         /\ SetSums(f, R)[s] =
               IF s = {} THEN 0 ELSE f[FirstOf(s)] + SetSums(f, R)[s \ {FirstOf(s)}]
         /\ SetSums(f, S)[s] =
               IF s = {} THEN 0 ELSE f[FirstOf(s)] + SetSums(f, S)[s \ {FirstOf(s)}]
  <2>1. \A s \in SUBSET R :
           SetSums(f, R)[s] =
              IF s = {} THEN 0 ELSE f[FirstOf(s)] + SetSums(f, R)[s \ {FirstOf(s)}]
    BY <1>0, SetSumsEquation
  <2>2. \A s \in SUBSET S :
           SetSums(f, S)[s] =
              IF s = {} THEN 0 ELSE f[FirstOf(s)] + SetSums(f, S)[s \ {FirstOf(s)}]
    BY SetSumsEquation
  <2> QED
    BY <2>1, <2>2
<1>2. 0 \in T
  <2>1. ASSUME NEW s \in SUBSET R, Cardinality(s) <= 0 PROVE s = {}
    <3>1. Cardinality(s) \in Nat /\ (Cardinality(s) = 0 <=> s = {})
      BY <1>0, FirstTaken
    <3> QED
      BY <2>1, <3>1
  <2> QED
    BY <1>1, <2>1
<1>3. ASSUME NEW n \in Nat, n \in T PROVE n + 1 \in T
  <2>1. ASSUME NEW s \in SUBSET R, Cardinality(s) <= n + 1
        PROVE  SetSums(f, S)[s] = SetSums(f, R)[s]
    <3>1. CASE s = {}
      BY <1>1, <3>1
    <3>2. CASE s # {}
      <4>1. /\ s \ {FirstOf(s)} \in SUBSET R
            /\ Cardinality(s \ {FirstOf(s)}) = Cardinality(s) - 1
            /\ Cardinality(s) \in Nat
        BY <1>0, <3>2, FirstTaken
      <4>2. Cardinality(s \ {FirstOf(s)}) <= n
        BY <2>1, <4>1
      <4>3. SetSums(f, S)[s \ {FirstOf(s)}] = SetSums(f, R)[s \ {FirstOf(s)}]
        BY <1>3, <4>1, <4>2
      <4> QED
        BY <1>1, <3>2, <4>3
    <3> QED
      BY <3>1, <3>2
  <2> QED
    BY <2>1
<1> HIDE DEF T
<1>4. \A n \in Nat : n \in T
  BY <1>2, <1>3, NatSetInduction
<1>5. SetSums(f, S)[R] = SetSums(f, R)[R]
  BY <1>0, <1>4 DEF T
<1> QED
  BY <1>5, SetSumsUsed

\* The sum over a set, in terms of that over a set with one element less.
LEMMA SumTaken ==
    ASSUME NEW f, NEW S, IsFiniteSet(S), S # {}
    PROVE  /\ FirstOf(S) \in S
           /\ SumFunctionOnSet(f, S) = f[FirstOf(S)] + SumFunctionOnSet(f, S \ {FirstOf(S)})
<1>1. FirstOf(S) \in S /\ S \ {FirstOf(S)} \in SUBSET S
  BY FirstTaken
<1>2. SetSums(f, S)[S] = f[FirstOf(S)] + SetSums(f, S)[S \ {FirstOf(S)}]
  BY SetSumsEquation
<1>3. SetSums(f, S)[S \ {FirstOf(S)}] = SumFunctionOnSet(f, S \ {FirstOf(S)})
  BY <1>1, SetSumsAgree
<1> QED
  BY <1>1, <1>2, <1>3, SetSumsUsed

\* Nothing adds up to nothing.
LEMMA SumNothing ==
    ASSUME NEW f
    PROVE  SumFunctionOnSet(f, {}) = 0
<1>1. SetSums(f, {})[{}] = 0
  BY SetSumsEquation, FS_EmptySet
<1> QED
  BY <1>1, SetSumsUsed

\* A sum of integers is an integer, and any element may be taken first.
LEMMA SumAnyFirst ==
    ASSUME NEW S, IsFiniteSet(S), NEW f, \A x \in S : f[x] \in Int
    PROVE  /\ SumFunctionOnSet(f, S) \in Int
           /\ \A x \in S : SumFunctionOnSet(f, S) = f[x] + SumFunctionOnSet(f, S \ {x})
<1> DEFINE Sum(s) == SumFunctionOnSet(f, s)
           T == {n \in Nat : \A s \in SUBSET S : Cardinality(s) <= n =>
                               /\ Sum(s) \in Int
                               /\ \A x \in s : Sum(s) = f[x] + Sum(s \ {x})}
<1>0. Sum({}) = 0
  BY SumNothing
<1>1. \A s \in SUBSET S : /\ IsFiniteSet(s) /\ Cardinality(s) \in Nat
                          /\ Cardinality(s) <= Cardinality(S)
                          /\ Cardinality(s) = 0 <=> s = {}
  BY FirstTaken
<1>2. \A s \in SUBSET S : s # {} => /\ FirstOf(s) \in s
                                    /\ Sum(s) = f[FirstOf(s)] + Sum(s \ {FirstOf(s)})
  BY <1>1, SumTaken
<1>3. \A s \in SUBSET S : \A x \in s : Cardinality(s \ {x}) = Cardinality(s) - 1
  BY <1>1, FS_RemoveElement
<1> HIDE DEF Sum
<1>4. 0 \in T
  <2>1. ASSUME NEW s \in SUBSET S, Cardinality(s) <= 0
        PROVE  /\ Sum(s) \in Int
               /\ \A x \in s : Sum(s) = f[x] + Sum(s \ {x})
    <3>1. s = {}
      BY <1>1, <2>1
    <3> QED
      BY <1>0, <3>1
  <2> QED
    BY <2>1
<1>5. ASSUME NEW n \in Nat, n \in T PROVE n + 1 \in T
  <2>1. SUFFICES ASSUME NEW s \in SUBSET S, Cardinality(s) <= n + 1, s # {}
                 PROVE  /\ Sum(s) \in Int
                        /\ \A x \in s : Sum(s) = f[x] + Sum(s \ {x})
    BY <1>0
  <2>2. PICK y \in s : Sum(s) = f[y] + Sum(s \ {y})
    BY <1>2, <2>1
  <2>3. ASSUME NEW x \in s
        PROVE  /\ Sum(s \ {x}) \in Int
               /\ \A z \in s \ {x} : Sum(s \ {x}) = f[z] + Sum((s \ {x}) \ {z})
    <3>1. Cardinality(s \ {x}) <= n
      BY <1>1, <1>3, <2>1
    <3>2. s \ {x} \in SUBSET S
      OBVIOUS
    <3> QED
      BY <1>5, <3>1, <3>2
  <2>4. Sum(s) \in Int
    BY <2>2, <2>3
  <2>5. ASSUME NEW x \in s PROVE Sum(s) = f[x] + Sum(s \ {x})
    <3>1. CASE x = y
      BY <2>2, <3>1
    <3>2. CASE x # y
      <4>1. Sum(s \ {y}) = f[x] + Sum((s \ {y}) \ {x})
        BY <2>3, <3>2
      <4>2. Sum(s \ {x}) = f[y] + Sum((s \ {x}) \ {y})
        BY <2>3, <3>2
      <4>3. (s \ {x}) \ {y} = (s \ {y}) \ {x}
        OBVIOUS
      <4>4. Sum((s \ {y}) \ {x}) \in Int
        <5>1. (s \ {y}) \ {x} \in SUBSET S
          OBVIOUS
        <5>2. Cardinality((s \ {y}) \ {x}) <= n
          <6>1. s \ {y} \in SUBSET S /\ x \in s \ {y}
            BY <3>2
          <6>2. Cardinality((s \ {y}) \ {x}) = Cardinality(s \ {y}) - 1
            BY <1>3, <6>1
          <6>3. Cardinality(s \ {y}) = Cardinality(s) - 1
            BY <1>3
          <6> QED
            BY <1>1, <2>1, <6>2, <6>3
        <5> QED
          BY <1>5, <5>1, <5>2
      <4>5. PICK a \in Int, b \in Int, c \in Int :
               a = f[x] /\ b = f[y] /\ c = Sum((s \ {y}) \ {x})
        BY <4>4
      <4>6. Sum(s) = b + (a + c)
        BY <2>2, <4>1, <4>5
      <4>7. Sum(s \ {x}) = b + c
        BY <4>2, <4>3, <4>5
      <4> QED
        BY <4>5, <4>6, <4>7
    <3> QED
      BY <3>1, <3>2
  <2> QED
    BY <2>4, <2>5
<1> HIDE DEF T
<1>6. \A n \in Nat : n \in T
  BY <1>4, <1>5, NatSetInduction
<1>7. Cardinality(S) \in T /\ Cardinality(S) <= Cardinality(S)
  BY <1>1, <1>6
<1> QED
  BY <1>7 DEF T, Sum

\* One element more.
LEMMA SumOneMore ==
    ASSUME NEW S, IsFiniteSet(S), NEW x, x \notin S, NEW f, \A y \in S \union {x} : f[y] \in Int
    PROVE  SumFunctionOnSet(f, S \union {x}) = f[x] + SumFunctionOnSet(f, S)
<1>1. IsFiniteSet(S \union {x})
  BY FS_AddElement
<1>2. (S \union {x}) \ {x} = S
  OBVIOUS
<1> QED
  BY <1>1, <1>2, SumAnyFirst

\* Sums over sets that have nothing in common add up.
LEMMA SumUnion ==
    ASSUME NEW R, IsFiniteSet(R), NEW S, IsFiniteSet(S), R \intersect S = {},
           NEW f, \A x \in R \union S : f[x] \in Int
    PROVE  SumFunctionOnSet(f, R \union S) = SumFunctionOnSet(f, R) + SumFunctionOnSet(f, S)
<1> DEFINE Sum(s) == SumFunctionOnSet(f, s)
           T == {s \in SUBSET S : IsFiniteSet(R \union s) /\ Sum(R \union s) = Sum(R) + Sum(s)}
<1>1. \A s : IsFiniteSet(s) /\ s \subseteq R \union S => Sum(s) \in Int
  BY SumAnyFirst
<1>2. ASSUME NEW s, IsFiniteSet(s), NEW x \in (R \union S) \ s, s \subseteq R \union S
      PROVE  Sum(s \union {x}) = f[x] + Sum(s)
  <2>1. \A y \in s \union {x} : f[y] \in Int
    BY <1>2
  <2> QED
    BY <1>2, <2>1, SumOneMore
<1>3. Sum({}) = 0
  BY SumNothing
<1> HIDE DEF Sum
<1>4. {} \in T
  <2>1. R \union {} = R
    OBVIOUS
  <2>2. Sum(R) \in Int
    BY <1>1
  <2> QED
    BY <1>3, <2>1, <2>2
<1>5. ASSUME NEW s \in SUBSET S, NEW x \in S \ s, s \in T PROVE s \union {x} \in T
  <2>1. IsFiniteSet(s) /\ IsFiniteSet(R \union s) /\ Sum(R \union s) = Sum(R) + Sum(s)
    BY <1>5, FS_Subset
  <2>2. R \union (s \union {x}) = (R \union s) \union {x} /\ x \notin R \union s
    OBVIOUS
  <2>3. IsFiniteSet(R \union (s \union {x}))
    BY <2>1, <2>2, FS_AddElement
  <2>4. Sum(R \union (s \union {x})) = f[x] + Sum(R \union s)
    BY <1>2, <2>1, <2>2
  <2>5. Sum(s \union {x}) = f[x] + Sum(s)
    BY <1>2, <2>1
  <2>6. Sum(R) \in Int /\ Sum(s) \in Int /\ f[x] \in Int
    BY <1>1, <2>1
  <2>7. Sum(R \union (s \union {x})) = Sum(R) + Sum(s \union {x})
    BY <2>1, <2>4, <2>5, <2>6
  <2> QED
    BY <2>3, <2>7
<1> HIDE DEF T
<1>6. S \in T
  BY <1>4, <1>5, SubsetInduction
<1> QED
  BY <1>6 DEF T, Sum

\* Zeros add nothing.
LEMMA SumZeros ==
    ASSUME NEW S, IsFiniteSet(S), NEW f, \A x \in S : f[x] = 0
    PROVE  SumFunctionOnSet(f, S) = 0
<1> DEFINE T == {s \in SUBSET S : SumFunctionOnSet(f, s) = 0}
<1>1. {} \in T
  BY SumNothing
<1>2. ASSUME NEW s \in SUBSET S, NEW x \in S \ s, s \in T PROVE s \union {x} \in T
  <2>1. IsFiniteSet(s) /\ \A y \in s \union {x} : f[y] \in Int
    BY FS_Subset
  <2>2. SumFunctionOnSet(f, s \union {x}) = f[x] + SumFunctionOnSet(f, s)
    BY <2>1, SumOneMore
  <2> QED
    BY <1>2, <2>2
<1> HIDE DEF T
<1>3. S \in T
  BY <1>1, <1>2, SubsetInduction
<1> QED
  BY <1>3 DEF T

\* Leaving out zeros changes no sum.
LEMMA SumLessZeros ==
    ASSUME NEW S, IsFiniteSet(S), NEW R \in SUBSET S, NEW f, \A x \in S : f[x] \in Int,
           \A x \in S \ R : f[x] = 0
    PROVE  SumFunctionOnSet(f, R) = SumFunctionOnSet(f, S)
<1>1. IsFiniteSet(R) /\ IsFiniteSet(S \ R)
  BY FS_Subset
<1>2. R \union (S \ R) = S /\ R \intersect (S \ R) = {}
  OBVIOUS
<1>3. SumFunctionOnSet(f, S \ R) = 0
  BY <1>1, SumZeros
<1>4. SumFunctionOnSet(f, R \union (S \ R)) = SumFunctionOnSet(f, R) + SumFunctionOnSet(f, S \ R)
  BY <1>1, <1>2, SumUnion
<1>5. SumFunctionOnSet(f, R) \in Int
  BY <1>1, SumAnyFirst
<1>6. PICK all : all = R \union (S \ R)
  OBVIOUS
<1>7. SumFunctionOnSet(f, all) = SumFunctionOnSet(f, R) + 0
  BY <1>3, <1>4, <1>6
<1>8. all = S
  BY <1>2, <1>6
<1> QED
  BY <1>5, <1>7, <1>8

\* Sums of functions that agree, or that are the sum of two others.
LEMMA SumPlus ==
    ASSUME NEW S, IsFiniteSet(S), NEW f, NEW g, NEW h,
           \A x \in S : f[x] \in Int /\ g[x] \in Int /\ h[x] = f[x] + g[x]
    PROVE  SumFunctionOnSet(h, S) = SumFunctionOnSet(f, S) + SumFunctionOnSet(g, S)
<1> DEFINE Sum(e, s) == SumFunctionOnSet(e, s)
           T == {s \in SUBSET S : Sum(h, s) = Sum(f, s) + Sum(g, s)}
<1>1. \A e \in {f, g, h} : \A s \in SUBSET S : IsFiniteSet(s) /\ Sum(e, s) \in Int
  BY FS_Subset, SumAnyFirst
<1>2. \A e \in {f, g, h} : \A s \in SUBSET S : \A x \in S \ s :
         Sum(e, s \union {x}) = e[x] + Sum(e, s)
  <2>1. ASSUME NEW e \in {f, g, h}, NEW s \in SUBSET S, NEW x \in S \ s
        PROVE  Sum(e, s \union {x}) = e[x] + Sum(e, s)
    <3>1. \A y \in s \union {x} : e[y] \in Int
      OBVIOUS
    <3>2. IsFiniteSet(s)
      BY FS_Subset
    <3> QED
      BY <3>1, <3>2, SumOneMore
  <2> QED
    BY <2>1
<1>3. \A e \in {f, g, h} : Sum(e, {}) = 0
  BY SumNothing
<1> HIDE DEF Sum
<1>4. {} \in T
  BY <1>3
<1>5. ASSUME NEW s \in SUBSET S, NEW x \in S \ s, s \in T PROVE s \union {x} \in T
  <2>1. /\ Sum(h, s \union {x}) = h[x] + Sum(h, s)
        /\ Sum(f, s \union {x}) = f[x] + Sum(f, s)
        /\ Sum(g, s \union {x}) = g[x] + Sum(g, s)
    BY <1>2
  <2>2. Sum(f, s) \in Int /\ Sum(g, s) \in Int
    BY <1>1
  <2>3. PICK a \in Int, b \in Int, c \in Int, d \in Int :
           a = f[x] /\ b = g[x] /\ c = Sum(f, s) /\ d = Sum(g, s)
    BY <2>2
  <2>4. h[x] = a + b /\ Sum(h, s) = c + d
    BY <1>5, <2>3
  <2>5. Sum(h, s \union {x}) = Sum(f, s \union {x}) + Sum(g, s \union {x})
    BY <2>1, <2>3, <2>4
  <2> QED
    BY <2>5
<1> HIDE DEF T
<1>6. S \in T
  BY <1>4, <1>5, SubsetInduction
<1> QED
  BY <1>6 DEF T, Sum

-----------------------------------------------------------------------------
(* Posting and undoing *)

\* The initial book is sound.
LEMMA InitSound == LedgerInit => Sound(Book)
BY EmptySound DEF LedgerInit, Book

\* In a sound book there is nothing for the reconciliation to report.
LEMMA SoundMeansNoDrift == Sound(Book) => NoDrift
BY DEF Sound, Book, NoDrift, Drift

\* Every step posts with a confirmation the callers may give, or leaves the book.
LEMMA StepShape ==
    ASSUME Sound(Book), [ServiceNext]_ledgerVars
    PROVE  \/ \E moves, confirm : confirm \in CallerConfirms /\ Post(moves, confirm)
           \/ UNCHANGED ledgerVars
<1>1. CASE \E moves \in Batches, confirm \in CallerConfirms : PostEvent(moves, confirm)
  BY <1>1 DEF PostEvent
<1>2. CASE \E src \in Sources, confirm \in CallerConfirms : UndoSource(src, confirm)
  BY <1>2, Zenon DEF UndoSource
<1>3. CASE \E src \in Sources, confirm \in CallerConfirms : UndoRows(src, confirm)
  BY <1>3, Zenon DEF UndoRows
<1>4. CASE RebuildStockBalances
  <2>1. Drift = {}
    BY SoundMeansNoDrift DEF NoDrift
  <2>2. balance' = [k \in Keys |-> balance[k]]
    BY <1>4, <2>1 DEF RebuildStockBalances
  <2>3. balance = [k \in Keys |-> balance[k]]
    BY DEF Sound, Book
  <2> QED
    BY <1>4, <2>2, <2>3 DEF RebuildStockBalances, ledgerVars
<1>5. CASE UNCHANGED ledgerVars
  BY <1>5
<1> QED
  BY <1>1, <1>2, <1>3, <1>4, <1>5 DEF ServiceNext

\* Soundness of the book is inductive.
LEMMA StepSound ==
    ASSUME Sound(Book), [ServiceNext]_ledgerVars
    PROVE  Sound(Book)'
<1>1. CASE \E moves, confirm : confirm \in CallerConfirms /\ Post(moves, confirm)
  <2>1. PICK moves, confirm : confirm \in CallerConfirms /\ Post(moves, confirm)
    BY <1>1
  <2> QED
    BY <2>1, PostSound
<1>2. CASE UNCHANGED ledgerVars
  BY <1>2 DEF ledgerVars, Book, Sound
<1> QED
  BY <1>1, <1>2, StepShape

\* A sound book is typed.
LEMMA SoundMeansTypeOK == Sound(Book) => LedgerTypeOK
BY RollupType DEF Sound, Book, LedgerTypeOK

\* The rows of a record are rows.
LEMMA SourceRowsType ==
    ASSUME Sound(Book), NEW stype, NEW sid
    PROVE  SourceRows(ledger, stype, sid) \in Seq(Rows)
<1>1. ledger \in Seq(Rows)
  BY DEF Sound, Book
<1> QED
  BY <1>1, KeptType DEF SourceRows

\* Whatever the callers post and undo, rows and balances keep their types.
THEOREM TypeCorrect == ServiceSpec => []LedgerTypeOK
<1>1. ServiceSpec => []Sound(Book)
  BY InitSound, StepSound, PTL DEF ServiceSpec
<1> QED
  BY <1>1, SoundMeansTypeOK, PTL

\* Whatever the callers post and undo, the balances never drift from the ledger.
THEOREM BalancesNeverDrift == ServiceSpec => []NoDrift
<1>1. ServiceSpec => []Sound(Book)
  BY InitSound, StepSound, PTL DEF ServiceSpec
<1> QED
  BY <1>1, SoundMeansNoDrift, PTL


\* Without confirmation, no step takes a PHYSICAL balance below zero.
LEMMA StepCovered ==
    ASSUME Sound(Book), PhysicalNeverNegative, [ServiceNext]_ledgerVars
    PROVE  PhysicalNeverNegative'
<1>1. SUFFICES ASSUME TRUE \notin CallerConfirms, NEW k \in Keys, k[3] = "PHYSICAL"
               PROVE  balance'[k].qty >= 0
  BY DEF PhysicalNeverNegative
<1>2. balance[k].qty \in Int /\ balance[k].qty >= 0
  BY <1>1, RollupType DEF Sound, Book, PhysicalNeverNegative
<1>3. CASE \E moves, confirm : confirm \in CallerConfirms /\ Post(moves, confirm)
  <2>1. PICK moves, confirm : confirm \in CallerConfirms /\ Post(moves, confirm)
    BY <1>3
  <2>2. /\ moves \in Seq(Rows)
        /\ balance' = Posted(Book, moves).balance
        /\ CanPost(Book, moves, confirm)
    BY <2>1 DEF Post, CanPost, ValidMovements, Install
  <2>3. balance'[k].qty = balance[k].qty + Rollup(moves, k).qty
    BY <2>2 DEF Posted, Book
  <2>4. confirm # TRUE
    BY <1>1, <2>1
  <2>5. CASE confirm = FALSE
    <3>1. StaysCovered(Book, moves)
      BY <2>2, <2>5 DEF CanPost
    <3>2. Book.balance[k].qty \in Int /\ Book.balance[k].qty >= 0
      BY <1>2 DEF Book
    <3> QED
      BY <1>1, <2>2, <2>3, <3>1, <3>2, CoveredEndsCovered DEF Book
  <2> QED
    BY <1>1, <2>1, <2>4, <2>5, ConfirmsAssumption
<1>4. CASE UNCHANGED ledgerVars
  BY <1>2, <1>4 DEF ledgerVars
<1> QED
  BY <1>3, <1>4, StepShape

\* If no caller ever confirms negative stock, no PHYSICAL balance is ever
\* negative: the per-movement check of post_event is enough (FR-082).
THEOREM PhysicalStaysNonNegative == ServiceSpec => []PhysicalNeverNegative
<1>1. LedgerInit => PhysicalNeverNegative
  BY DEF LedgerInit, PhysicalNeverNegative
<1>2. ServiceSpec => []Sound(Book)
  BY InitSound, StepSound, PTL DEF ServiceSpec
<1> QED
  BY <1>1, <1>2, StepCovered, PTL DEF ServiceSpec

\* Undoing any record, in any reachable book, leaves nothing of any group of its
\* rows, and a second undo posts nothing.  The residue the services are afraid of
\* (quantity gone, value left) cannot arise: what is in a group is decided by the
\* line and the balance key alone, and a reversal keeps both.
THEOREM UndoClears == ServiceSpec => []UndoLeavesNothing
<1>1. Sound(Book) => UndoLeavesNothing
  <2>1. SUFFICES ASSUME Sound(Book), NEW src \in Sources,
                        NetReversible(SourceRows(ledger, src[1], src[2]))
                 PROVE  LET rows  == SourceRows(ledger, src[1], src[2])
                            after == rows \o NetReversalMovements(rows)
                        IN  /\ \A i \in DOMAIN after :
                                  GroupNet(after, after[i]) = [qty |-> 0, aed |-> 0]
                            /\ NetReversalMovements(after) = << >>
    BY DEF UndoLeavesNothing
  <2>2. PICK rows \in Seq(Rows) : rows = SourceRows(ledger, src[1], src[2])
    BY <2>1, SourceRowsType
  <2>3. PICK after \in Seq(Rows) : /\ after = rows \o NetReversalMovements(rows)
                                   /\ \A x \in Rows : NetIn(after, GroupOf(x)) = NoStock
    BY <2>1, <2>2, NetReversalClears
  <2>4. ASSUME NEW i \in DOMAIN after
        PROVE  GroupNet(after, after[i]) = [qty |-> 0, aed |-> 0]
    <3>1. after[i] \in Rows
      OBVIOUS
    <3> QED
      BY <2>3, <3>1, GroupNetIn DEF NoStock
  <2>5. NetReversalMovements(after) = << >>
    BY <2>3, NothingToReverse
  <2> QED
    BY <2>2, <2>3, <2>4, <2>5
<1>2. ServiceSpec => []Sound(Book)
  BY InitSound, StepSound, PTL DEF ServiceSpec
<1> QED
  BY <1>1, <1>2, PTL

\* Undoing any record, in any reachable book, is refused for want of stock only
\* if some balance would really end below zero: the order of the reversals never
\* makes a shortage of its own.
THEOREM UndoNeedsNoDetour == ServiceSpec => []UndoHasNoTransientShortage
<1>1. Sound(Book) => UndoHasNoTransientShortage
  <2>1. SUFFICES ASSUME Sound(Book), NEW src \in Sources
                 PROVE  LET rows  == SourceRows(ledger, src[1], src[2])
                            moves == NetReversalMovements(rows)
                        IN  (\A k \in Keys : Posted(Book, moves).balance[k].qty >= 0)
                                => StaysCovered(Book, moves)
    BY DEF UndoHasNoTransientShortage
  <2>2. PICK rows \in Seq(Rows) : rows = SourceRows(ledger, src[1], src[2])
    BY <2>1, SourceRowsType
  <2>3. SUFFICES ASSUME \A k \in Keys :
                           Posted(Book, NetReversalMovements(rows)).balance[k].qty >= 0
                 PROVE  StaysCovered(Book, NetReversalMovements(rows))
    BY <2>2
  <2>4. PICK credits \in Seq(Rows), debits \in Seq(Rows) :
           /\ NetReversalMovements(rows) = credits \o debits
           /\ \A i \in 1..Len(credits) : credits[i].qty > 0
           /\ \A i \in 1..Len(debits) : debits[i].qty < 0
    BY NetReversalParts
  <2>5. ASSUME NEW k \in Keys
        PROVE  /\ Book.balance[k].qty \in Int
               /\ Book.balance[k].qty + Rollup(credits \o debits, k).qty >= 0
    <3>1. Book.balance[k] = Rollup(Book.ledger, k) /\ Book.ledger \in Seq(Rows)
      BY <2>1 DEF Sound
    <3>2. Posted(Book, credits \o debits).balance[k].qty =
            Book.balance[k].qty + Rollup(credits \o debits, k).qty
      BY DEF Posted
    <3>3. Posted(Book, credits \o debits).balance[k].qty >= 0
      BY <2>3, <2>4
    <3> QED
      BY <3>1, <3>2, <3>3, RollupType
  <2> QED
    BY <2>4, <2>5, CreditsFirstCover
<1>2. ServiceSpec => []Sound(Book)
  BY InitSound, StepSound, PTL DEF ServiceSpec
<1> QED
  BY <1>1, <1>2, PTL
-----------------------------------------------------------------------------
(* The reports *)

\* There are finitely many balances, in three buckets.
LEMMA PairsFinite ==
    /\ IsFiniteSet(Pairs) /\ IsFiniteSet(Buckets)
    /\ \A s \in SUBSET Pairs : IsFiniteSet(s)
<1>1. IsFiniteSet(Pairs)
  BY FiniteAssumption, FS_Product DEF Pairs
<1>2. IsFiniteSet(Buckets)
  <2>1. Buckets = (({} \union {"PHYSICAL"}) \union {"PENDING"}) \union {"IN_TRANSIT"}
    BY DEF Buckets
  <2> QED
    BY <2>1, FS_EmptySet, FS_AddElement
<1> QED
  BY <1>1, <1>2, FS_Subset

\* What adds up over disjoint sets of balances.
Additive(g) ==
    /\ g \in [SUBSET Pairs -> Int]
    /\ \A r, s \in SUBSET Pairs : r \intersect s = {} => g[r \union s] = g[r] + g[s]

\* It is nothing over nothing.
LEMMA AdditiveNothing ==
    ASSUME NEW g, Additive(g)
    PROVE  g[{}] = 0
<1>1. {} \in SUBSET Pairs /\ {} \intersect {} = {} /\ {} \union {} = {}
  OBVIOUS
<1>2. PICK n \in Int : n = g[{}]
  BY <1>1 DEF Additive
<1>3. n = n + n
  BY <1>1, <1>2 DEF Additive
<1>4. n = 0
  BY <1>3
<1> QED
  BY <1>2, <1>4

\* Pairs that contribute nothing can be left out.
LEMMA AdditiveLess ==
    ASSUME NEW g, Additive(g), NEW R \in SUBSET Pairs, \A x \in Pairs \ R : g[{x}] = 0
    PROVE  g[R] = g[Pairs]
<1> DEFINE T == {s \in SUBSET (Pairs \ R) : g[R \union s] = g[R]}
<1>0. IsFiniteSet(Pairs \ R)
  BY PairsFinite
<1>1. {} \in T
  <2>1. R \union {} = R
    OBVIOUS
  <2> QED
    BY <2>1
<1>2. ASSUME NEW s \in SUBSET (Pairs \ R), NEW x \in (Pairs \ R) \ s, s \in T
      PROVE  s \union {x} \in T
  <2>1. /\ R \union s \in SUBSET Pairs /\ {x} \in SUBSET Pairs
        /\ (R \union s) \intersect {x} = {}
        /\ R \union (s \union {x}) = (R \union s) \union {x}
    OBVIOUS
  <2>2. g[(R \union s) \union {x}] = g[R \union s] + g[{x}]
    BY <2>1 DEF Additive
  <2>3. g[R] \in Int /\ g[{x}] = 0 /\ g[R \union s] = g[R]
    BY <1>2 DEF Additive
  <2>4. PICK n \in Int : n = g[R]
    BY <2>3
  <2>5. PICK both : both = R \union (s \union {x})
    OBVIOUS
  <2>6. g[both] = n + 0
    BY <2>1, <2>2, <2>3, <2>4, <2>5
  <2>7. g[R \union (s \union {x})] = g[R]
    BY <2>4, <2>5, <2>6
  <2> QED
    BY <2>7
<1> HIDE DEF T
<1>3. Pairs \ R \in T
  BY <1>0, <1>1, <1>2, SubsetInduction
<1>4. R \union (Pairs \ R) = Pairs
  OBVIOUS
<1> QED
  BY <1>3, <1>4 DEF T

\* Product by product, it is all there.
LEMMA AdditiveByProduct ==
    ASSUME NEW g, Additive(g)
    PROVE  SumFunctionOnSet([p \in Products |-> g[PairsOf(p)]], Products) = g[Pairs]
<1> DEFINE f == [p \in Products |-> g[PairsOf(p)]]
           T == {s \in SUBSET Products : SumFunctionOnSet(f, s) = g[s \X Locations]}
<1>0. \A s \in SUBSET Products : s \X Locations \in SUBSET Pairs
  BY DEF Pairs
<1>1. \A p \in Products : f[p] = g[PairsOf(p)] /\ f[p] \in Int /\ PairsOf(p) \in SUBSET Pairs
  BY DEF Additive, PairsOf, Pairs
<1> HIDE DEF f
<1>2. {} \in T
  <2>1. {} \X Locations = {}
    OBVIOUS
  <2> QED
    BY <2>1, SumNothing, AdditiveNothing
<1>3. ASSUME NEW s \in SUBSET Products, NEW p \in Products \ s, s \in T
      PROVE  s \union {p} \in T
  <2>1. SumFunctionOnSet(f, s \union {p}) = f[p] + SumFunctionOnSet(f, s)
    <3>1. IsFiniteSet(s)
      BY FiniteAssumption, FS_Subset
    <3>2. \A y \in s \union {p} : f[y] \in Int
      BY <1>1
    <3> QED
      BY <3>1, <3>2, SumOneMore
  <2>2. /\ (s \union {p}) \X Locations = (s \X Locations) \union PairsOf(p)
        /\ (s \X Locations) \intersect PairsOf(p) = {}
    BY DEF PairsOf
  <2>3. g[(s \X Locations) \union PairsOf(p)] = g[s \X Locations] + g[PairsOf(p)]
    BY <1>0, <1>1, <2>2 DEF Additive
  <2>4. g[s \X Locations] \in Int
    BY <1>0 DEF Additive
  <2>4a. PICK n \in Int, m \in Int : n = g[s \X Locations] /\ m = g[PairsOf(p)]
    BY <1>1, <2>4 
  <2>4b. SumFunctionOnSet(f, s) = n /\ f[p] = m
    BY <1>1, <1>3, <2>4a
  <2>4c. SumFunctionOnSet(f, s \union {p}) = m + n
    BY <2>1, <2>4b
  <2>4d. g[(s \union {p}) \X Locations] = n + m
    BY <2>2, <2>3, <2>4a
  <2>5. SumFunctionOnSet(f, s \union {p}) = g[(s \union {p}) \X Locations]
    BY <2>4c, <2>4d
  <2> QED
    BY <2>5
<1> HIDE DEF T
<1>4. Products \in T
  BY <1>2, <1>3, FiniteAssumption, SubsetInduction
<1> QED
  BY <1>4 DEF T, f, Pairs

\* Quantities and values are integers.
LEMMA InType ==
    ASSUME NEW map \in [Keys -> Amounts], NEW bucket \in Buckets
    PROVE  \A pair \in Pairs : QtyIn(map, bucket)[pair] \in Int /\ AedIn(map, bucket)[pair] \in Int
BY DEF QtyIn, AedIn, Pairs, Keys, Amounts

\* A sum over some of the balances is additive.
LEMMA SumAdditive ==
    ASSUME NEW f, \A pair \in Pairs : f[pair] \in Int
    PROVE  Additive([s \in SUBSET Pairs |-> SumFunctionOnSet(f, s)])
<1>1. \A s \in SUBSET Pairs : SumFunctionOnSet(f, s) \in Int
  BY PairsFinite, SumAnyFirst
<1>2. ASSUME NEW r \in SUBSET Pairs, NEW s \in SUBSET Pairs, r \intersect s = {}
      PROVE  SumFunctionOnSet(f, r \union s) = SumFunctionOnSet(f, r) + SumFunctionOnSet(f, s)
  <2>1. IsFiniteSet(r) /\ IsFiniteSet(s) /\ \A x \in r \union s : f[x] \in Int
    BY PairsFinite
  <2> QED
    BY <1>2, <2>1, SumUnion
<1>3. \A r, s \in SUBSET Pairs : r \union s \in SUBSET Pairs
  OBVIOUS
<1> QED
  BY <1>1, <1>2, <1>3 DEF Additive

\* So is their worth over the three buckets.
LEMMA WorthAdditive ==
    ASSUME NEW map \in [Keys -> Amounts]
    PROVE  Additive([s \in SUBSET Pairs |-> WorthOf(map, s)])
<1> DEFINE worth(s) == [bucket \in Buckets |-> TotalAed(map, s, bucket)]
<1>1. ASSUME NEW bucket \in Buckets
      PROVE  Additive([s \in SUBSET Pairs |-> TotalAed(map, s, bucket)])
  <2>1. \A pair \in Pairs : AedIn(map, bucket)[pair] \in Int
    BY InType
  <2> QED
    BY <2>1, SumAdditive DEF TotalAed
<1>2. \A s \in SUBSET Pairs : \A bucket \in Buckets : worth(s)[bucket] \in Int
  BY <1>1 DEF Additive
<1>3. ASSUME NEW r \in SUBSET Pairs, NEW s \in SUBSET Pairs, r \intersect s = {}
      PROVE  \A bucket \in Buckets :
                worth(r \union s)[bucket] = worth(r)[bucket] + worth(s)[bucket]
  <2>1. ASSUME NEW bucket \in Buckets
        PROVE  worth(r \union s)[bucket] = worth(r)[bucket] + worth(s)[bucket]
    <3>1. r \union s \in SUBSET Pairs
      OBVIOUS
    <3>2. TotalAed(map, r \union s, bucket) = TotalAed(map, r, bucket) + TotalAed(map, s, bucket)
      BY <1>1, <1>3, <3>1 DEF Additive
    <3> QED
      BY <3>2
  <2> QED
    BY <2>1
<1> HIDE DEF worth
<1>4. \A s \in SUBSET Pairs : SumFunctionOnSet(worth(s), Buckets) \in Int
  BY <1>2, PairsFinite, SumAnyFirst
<1>5. ASSUME NEW r \in SUBSET Pairs, NEW s \in SUBSET Pairs, r \intersect s = {}
      PROVE  SumFunctionOnSet(worth(r \union s), Buckets) =
               SumFunctionOnSet(worth(r), Buckets) + SumFunctionOnSet(worth(s), Buckets)
  <2>1. \A bucket \in Buckets : /\ worth(r)[bucket] \in Int /\ worth(s)[bucket] \in Int
                                /\ worth(r \union s)[bucket] = worth(r)[bucket] + worth(s)[bucket]
    BY <1>2, <1>3, <1>5
  <2> QED
    BY <2>1, PairsFinite, SumPlus
<1>6. \A s \in SUBSET Pairs : WorthOf(map, s) = SumFunctionOnSet(worth(s), Buckets)
  BY DEF WorthOf, worth
<1>7. \A r, s \in SUBSET Pairs : r \union s \in SUBSET Pairs
  OBVIOUS
<1> QED
  BY <1>4, <1>5, <1>6, <1>7 DEF Additive

\* The rows of a bucket, and those of them at some products and locations.
BucketRows(bucket) == {row \in Rows : row.bucket = bucket}

RowsOfPairs(s, bucket) == {row \in BucketRows(bucket) : <<row.product, row.loc>> \in s}

\* What a report shows to have moved, from the rows themselves.
LEMMA BucketNetIn ==
    ASSUME NEW rows \in Seq(Rows), NEW bucket
    PROVE  Net(rows, LAMBDA row : row.bucket = bucket).qty = NetIn(rows, BucketRows(bucket)).qty
<1>1. \A i \in 1..Len(rows) : rows[i] \in Rows
  OBVIOUS
<1>2. [i \in 1..Len(rows) |-> IF rows[i].bucket = bucket THEN rows[i].qty ELSE 0] =
      [i \in 1..Len(rows) |-> IF rows[i] \in BucketRows(bucket) THEN rows[i].qty ELSE 0]
  BY <1>1 DEF BucketRows
<1> QED
  BY <1>2 DEF NetIn, Net, SumOf

\* The balances of a bucket add up to what the rows of the bucket add up to.
LEMMA CardIsNet ==
    ASSUME NEW rows \in Seq(Rows), NEW bucket \in Buckets
    PROVE  DashboardCard([k \in Keys |-> Rollup(rows, k)], bucket) =
             NetIn(rows, BucketRows(bucket)).qty
<1> DEFINE f == QtyIn([k \in Keys |-> Rollup(rows, k)], bucket)
           net(s) == NetIn(rows, RowsOfPairs(s, bucket)).qty
           T == {s \in SUBSET Pairs : SumFunctionOnSet(f, s) = net(s)}
<1>1. ASSUME NEW pair \in Pairs PROVE f[pair] = net({pair}) /\ f[pair] \in Int
  <2>1. PICK k \in Keys : k = <<pair[1], pair[2], bucket>>
    BY DEF Pairs, Keys
  <2>2. f[pair] = Rollup(rows, k).qty
    BY <2>1 DEF QtyIn
  <2>3. {row \in Rows : KeyOf(row) = k} = RowsOfPairs({pair}, bucket)
    BY <2>1 DEF RowsOfPairs, BucketRows, KeyOf, Pairs
  <2> QED
    BY <2>2, <2>3, RollupIn, RollupType
<1>2. ASSUME NEW s \in SUBSET Pairs, NEW pair \in Pairs \ s
      PROVE  net(s \union {pair}) = net(s) + net({pair}) /\ net(s) \in Int
  <2>1. /\ RowsOfPairs(s \union {pair}, bucket) = RowsOfPairs(s, bucket) \union RowsOfPairs({pair}, bucket)
        /\ RowsOfPairs(s, bucket) \intersect RowsOfPairs({pair}, bucket) = {}
    BY DEF RowsOfPairs
  <2>2. PICK S, U : S = RowsOfPairs(s, bucket) /\ U = RowsOfPairs({pair}, bucket)
    OBVIOUS
  <2>3. NetIn(rows, S \union U) = Plus(NetIn(rows, S), NetIn(rows, U))
    BY <2>1, <2>2, NetInUnion
  <2>4. NetIn(rows, S) \in [qty: Int, aed: Int]
    BY NetInType
  <2>5. NetIn(rows, S \union U).qty = NetIn(rows, S).qty + NetIn(rows, U).qty
    BY <2>3 DEF Plus
  <2>6. net(s) = NetIn(rows, S).qty /\ net({pair}) = NetIn(rows, U).qty
    BY <2>2
  <2>7. net(s \union {pair}) = NetIn(rows, S \union U).qty
    BY <2>1, <2>2
  <2>8. net(s) \in Int
    BY <2>4, <2>6
  <2> HIDE DEF net
  <2> QED
    BY <2>5, <2>6, <2>7, <2>8
<1>3. net({}) = 0
  <2>1. \A i \in 1..Len(rows) : rows[i] \notin RowsOfPairs({}, bucket)
    BY DEF RowsOfPairs
  <2> QED
    BY <2>1, NetInNone DEF NoStock
<1>4. RowsOfPairs(Pairs, bucket) = BucketRows(bucket)
  BY DEF RowsOfPairs, BucketRows, Rows, Pairs
<1> HIDE DEF f, net
<1>5. {} \in T
  BY <1>3, SumNothing
<1>6. ASSUME NEW s \in SUBSET Pairs, NEW pair \in Pairs \ s, s \in T
      PROVE  s \union {pair} \in T
  <2>1. SumFunctionOnSet(f, s \union {pair}) = f[pair] + SumFunctionOnSet(f, s)
    <3>1. IsFiniteSet(s) /\ \A y \in s \union {pair} : f[y] \in Int
      BY <1>1, PairsFinite
    <3> QED
      BY <3>1, SumOneMore
  <2>2. PICK n \in Int, m \in Int : n = net(s) /\ m = net({pair})
    BY <1>1, <1>2
  <2>3. SumFunctionOnSet(f, s \union {pair}) = m + n
    BY <1>1, <1>6, <2>1, <2>2
  <2>4. net(s \union {pair}) = n + m
    BY <1>2, <2>2
  <2> QED
    BY <2>3, <2>4
<1> HIDE DEF T
<1>7. Pairs \in T
  BY <1>5, <1>6, PairsFinite, SubsetInduction
<1>8. SumFunctionOnSet(f, Pairs) = net(Pairs)
  BY <1>7 DEF T
<1> QED
  BY <1>4, <1>8 DEF DashboardCard, TotalQty, f, net

\* What the reports make of one map of balances.
Agreeing(map) ==
    /\ TotalWorth(map) = WorthOf(map, Pairs)
    /\ \/ CompanyValue(map) = TotalWorth(map)
       \/ \E p \in Products \ CompanyRows(map) : WorthOf(map, PairsOf(p)) # 0
    /\ \A bucket \in Buckets :
          /\ TotalQty(map, StockByLocationRows(map), bucket) = DashboardCard(map, bucket)
          /\ CompanyQty(map, bucket) = DashboardCard(map, bucket)
          /\ \/ WorthByBucket(map, bucket) = TotalAed(map, Pairs, bucket)
             \/ \E pair \in Pairs : CancelsOut(map, pair)

\* The valuation leaves out no worth.
LEMMA WorthKept ==
    ASSUME NEW map \in [Keys -> Amounts]
    PROVE  TotalWorth(map) = WorthOf(map, Pairs)
<1>1. PICK g : g = [s \in SUBSET Pairs |-> WorthOf(map, s)]
  OBVIOUS
<1>2. Additive(g)
  BY <1>1, WorthAdditive
<1>3. ValuationRows(map) \in SUBSET Pairs
  BY DEF ValuationRows
<1>4. \A pair \in Pairs \ ValuationRows(map) : g[{pair}] = 0
  <2>1. \A pair \in Pairs \ ValuationRows(map) : WorthOf(map, {pair}) = 0
    BY DEF ValuationRows
  <2> QED
    BY <1>1, <2>1
<1>5. g[ValuationRows(map)] = g[Pairs]
  BY <1>2, <1>3, <1>4, AdditiveLess
<1> QED
  BY <1>1, <1>3, <1>5 DEF TotalWorth

\* Nor does the company report, unless on a product without units.
LEMMA CompanyWorthKept ==
    ASSUME NEW map \in [Keys -> Amounts],
           \A p \in Products \ CompanyRows(map) : WorthOf(map, PairsOf(p)) = 0
    PROVE  CompanyValue(map) = WorthOf(map, Pairs)
<1>1. PICK g : g = [s \in SUBSET Pairs |-> WorthOf(map, s)]
  OBVIOUS
<1>2. Additive(g)
  BY <1>1, WorthAdditive
<1>3. PICK f : f = [p \in Products |-> WorthOf(map, PairsOf(p))]
  OBVIOUS
<1>4. \A p \in Products : PairsOf(p) \in SUBSET Pairs
  BY DEF PairsOf, Pairs
<1>5. f = [p \in Products |-> g[PairsOf(p)]]
  BY <1>1, <1>3, <1>4
<1>6. SumFunctionOnSet(f, Products) = g[Pairs]
  BY <1>2, <1>5, AdditiveByProduct
<1>7. \A p \in Products : f[p] \in Int
  BY <1>2, <1>4, <1>5 DEF Additive
<1>8. CompanyRows(map) \in SUBSET Products
  BY DEF CompanyRows
<1>9. \A p \in Products \ CompanyRows(map) : f[p] = 0
  BY <1>3
<1>10. SumFunctionOnSet(f, CompanyRows(map)) = SumFunctionOnSet(f, Products)
  BY <1>7, <1>8, <1>9, FiniteAssumption, SumLessZeros
<1> QED
  BY <1>1, <1>3, <1>6, <1>10 DEF CompanyValue

\* Neither report leaves out units.
LEMMA UnitsKept ==
    ASSUME NEW map \in [Keys -> Amounts], NEW bucket \in Buckets
    PROVE  /\ TotalQty(map, StockByLocationRows(map), bucket) = DashboardCard(map, bucket)
           /\ CompanyQty(map, bucket) = DashboardCard(map, bucket)
<1>1. PICK q : q = QtyIn(map, bucket)
  OBVIOUS
<1>2. \A pair \in Pairs : q[pair] \in Int
  BY <1>1, InType
<1>3. TotalQty(map, StockByLocationRows(map), bucket) = DashboardCard(map, bucket)
  <2>1. StockByLocationRows(map) \in SUBSET Pairs
    BY DEF StockByLocationRows
  <2>2. \A pair \in Pairs \ StockByLocationRows(map) : q[pair] = 0
    BY <1>1 DEF StockByLocationRows
  <2>3. SumFunctionOnSet(q, StockByLocationRows(map)) = SumFunctionOnSet(q, Pairs)
    BY <1>2, <2>1, <2>2, PairsFinite, SumLessZeros
  <2> QED
    BY <1>1, <2>3 DEF TotalQty, DashboardCard
<1>4. PICK g : g = [s \in SUBSET Pairs |-> SumFunctionOnSet(q, s)]
  OBVIOUS
<1>5. Additive(g)
  BY <1>2, <1>4, SumAdditive
<1>6. PICK f : f = [p \in Products |-> TotalQty(map, PairsOf(p), bucket)]
  OBVIOUS
<1>7. \A p \in Products : PairsOf(p) \in SUBSET Pairs
  BY DEF PairsOf, Pairs
<1>8. f = [p \in Products |-> g[PairsOf(p)]]
  BY <1>1, <1>4, <1>6, <1>7 DEF TotalQty
<1>9. SumFunctionOnSet(f, Products) = g[Pairs]
  BY <1>5, <1>8, AdditiveByProduct
<1>10. \A p \in Products : f[p] \in Int
  BY <1>5, <1>7, <1>8 DEF Additive
<1>11. CompanyRows(map) \in SUBSET Products
  BY DEF CompanyRows
<1>12. \A p \in Products \ CompanyRows(map) : f[p] = 0
  BY <1>6 DEF CompanyRows
<1>13. SumFunctionOnSet(f, CompanyRows(map)) = SumFunctionOnSet(f, Products)
  BY <1>10, <1>11, <1>12, FiniteAssumption, SumLessZeros
<1>14. CompanyQty(map, bucket) = SumFunctionOnSet(f, CompanyRows(map))
  BY <1>6 DEF CompanyQty
<1>15. DashboardCard(map, bucket) = g[Pairs]
  BY <1>1, <1>4 DEF DashboardCard, TotalQty
<1> QED
  BY <1>3, <1>9, <1>13, <1>14, <1>15

\* The valuation has the worth of each bucket, unless a location cancels out.
LEMMA BucketWorthKept ==
    ASSUME NEW map \in [Keys -> Amounts], NEW bucket \in Buckets,
           ~\E pair \in Pairs : CancelsOut(map, pair)
    PROVE  WorthByBucket(map, bucket) = TotalAed(map, Pairs, bucket)
<1>1. PICK v : v = AedIn(map, bucket)
  OBVIOUS
<1>2. \A pair \in Pairs : v[pair] \in Int
  BY <1>1, InType
<1>3. ValuationRows(map) \in SUBSET Pairs
  BY DEF ValuationRows
<1>4. \A pair \in Pairs \ ValuationRows(map) : v[pair] = 0
  BY <1>1 DEF CancelsOut
<1>5. SumFunctionOnSet(v, ValuationRows(map)) = SumFunctionOnSet(v, Pairs)
  BY <1>2, <1>3, <1>4, PairsFinite, SumLessZeros
<1> QED
  BY <1>1, <1>5 DEF WorthByBucket, TotalAed

\* All of it holds of any map of balances.
LEMMA MapAgrees ==
    ASSUME NEW map \in [Keys -> Amounts]
    PROVE  Agreeing(map)
<1>1. \/ CompanyValue(map) = TotalWorth(map)
      \/ \E p \in Products \ CompanyRows(map) : WorthOf(map, PairsOf(p)) # 0
  BY WorthKept, CompanyWorthKept
<1>2. ASSUME NEW bucket \in Buckets
      PROVE  \/ WorthByBucket(map, bucket) = TotalAed(map, Pairs, bucket)
             \/ \E pair \in Pairs : CancelsOut(map, pair)
  BY BucketWorthKept
<1> QED
  BY <1>1, <1>2, WorthKept, UnitsKept DEF Agreeing

\* In a sound book, what the ledger report shows since a moment is what the
\* dashboard changed by.
LEMMA NetSince ==
    ASSUME Sound(Book), NEW from \in 0..Len(ledger), NEW bucket \in Buckets
    PROVE  LedgerReportNet(from, Len(ledger), bucket)
             = DashboardCard(balance, bucket) - DashboardCard(BalancesAt(from), bucket)
<1>1. ledger \in Seq(Rows) /\ balance = [k \in Keys |-> Rollup(ledger, k)]
  BY DEF Sound, Book
<1>2. PICK rows \in Seq(Rows) : rows = ledger
  BY <1>1
<1>3. PICK old \in Seq(Rows), new \in Seq(Rows) :
         /\ old = SubSeq(ledger, 1, from)
         /\ new = SubSeq(ledger, from + 1, Len(ledger))
  <2>1. \A i \in 1..Len(rows) : rows[i] \in Rows
    OBVIOUS
  <2>2. PICK n \in Nat : n = Len(rows) /\ from \in 0..n
    BY <1>2
  <2>3. /\ \A i \in 1..from : rows[i] \in Rows
        /\ \A i \in (from + 1)..n : rows[i] \in Rows
    BY <2>1, <2>2
  <2>4. SubSeq(rows, 1, from) \in Seq(Rows)
    BY <2>2, <2>3, SubSeqProperties
  <2>5. SubSeq(rows, from + 1, n) \in Seq(Rows)
    <3>1. from + 1 \in Int /\ n \in Int
      BY <2>2
    <3> QED
      BY <2>3, <3>1, SubSeqProperties
  <2> QED
    BY <1>2, <2>2, <2>4, <2>5
<1>4. rows = old \o new
  <2>1. PICK n \in Nat : n = Len(rows) /\ from \in 0..n
    BY <1>2
  <2>2. 1 \in 1..(n + 1) /\ from \in (1 - 1)..n /\ n \in from..n
    BY <2>1
  <2>3. SubSeq(rows, 1, from) \o SubSeq(rows, from + 1, n) = SubSeq(rows, 1, n)
    BY <2>1, <2>2, ConcatAdjacentSubSeq
  <2>4. SubSeq(rows, 1, n) = rows
    BY <2>1, SubSeqFull
  <2> QED
    BY <1>2, <1>3, <2>1, <2>3, <2>4
<1>5. PICK a \in Int, b \in Int : /\ a = NetIn(old, BucketRows(bucket)).qty
                                  /\ b = NetIn(new, BucketRows(bucket)).qty
  BY NetInType
<1>6. NetIn(rows, BucketRows(bucket)).qty = a + b
  BY <1>4, <1>5, NetInConcat DEF Plus
<1>7. LedgerReportNet(from, Len(ledger), bucket) = b
  BY <1>3, <1>5, BucketNetIn DEF LedgerReportNet
<1>8. DashboardCard(balance, bucket) = a + b
  BY <1>1, <1>2, <1>6, CardIsNet
<1>9. DashboardCard(BalancesAt(from), bucket) = a
  BY <1>3, <1>5, CardIsNet DEF BalancesAt
<1>10. b = (a + b) - a
  OBVIOUS
<1> QED
  BY <1>7, <1>8, <1>9, <1>10

\* In a sound book the reports agree, live and from the ledger.
LEMMA SoundReports == Sound(Book) => ReportsAccountForStock
<1>1. SUFFICES ASSUME Sound(Book)
               PROVE  ReportsAccountForStock
  OBVIOUS
<1>2. ledger \in Seq(Rows) /\ balance = [k \in Keys |-> Rollup(ledger, k)]
  BY <1>1 DEF Sound, Book
<1>3. BalancesAt(Len(ledger)) = balance
  <2>1. SubSeq(ledger, 1, Len(ledger)) = ledger
    BY <1>2
  <2> QED
    BY <1>2, <2>1 DEF BalancesAt
<1>4. balance \in [Keys -> Amounts]
  BY <1>2, RollupType DEF Amounts
<1>5. \A map \in {balance, BalancesAt(Len(ledger))} : Agreeing(map)
  BY <1>3, <1>4, MapAgrees
<1>6. \A from \in 0..Len(ledger), bucket \in Buckets :
         LedgerReportNet(from, Len(ledger), bucket)
           = DashboardCard(balance, bucket) - DashboardCard(BalancesAt(from), bucket)
  BY <1>1, NetSince
<1> QED
  BY <1>5, <1>6 DEF ReportsAccountForStock, Agreeing

\* Whatever the callers post and undo, and for every set of products and
\* locations: no report loses units or worth by leaving out the rows it takes for
\* empty, except in the two ways the property names, and the ledger report of any
\* period is what the dashboard changed by.
THEOREM ReportsAgree == ServiceSpec => []ReportsAccountForStock
<1>1. ServiceSpec => []Sound(Book)
  BY InitSound, StepSound, PTL DEF ServiceSpec
<1> QED
  BY <1>1, SoundReports, PTL

-----------------------------------------------------------------------------
(* Sequences of sequences *)

\* The recursion equation of FlattenSeq.
AreFlattened(f, seqs, n) ==
    f = [k \in 1..n |-> IF k = 1 THEN seqs[k] ELSE f[k - 1] \o seqs[k]]

\* The function FlattenSeq takes its result from.
Flattened(seqs) ==
    LET flatten[i \in 1..Len(seqs)] ==
            IF i = 1 THEN seqs[i] ELSE flatten[i - 1] \o seqs[i]
    IN  flatten

\* It has a solution up to every length.
LEMMA FlattenedExist ==
    ASSUME NEW seqs
    PROVE  \A n \in Nat : \E f : AreFlattened(f, seqs, n)
<1> DEFINE T == {n \in Nat : \E f : AreFlattened(f, seqs, n)}
           More(prefix, k) == prefix \o seqs[k]
<1>1. 0 \in T
  <2>1. AreFlattened([k \in 1..0 |-> << >>], seqs, 0)
    BY DEF AreFlattened
  <2> QED
    BY <2>1
<1>2. ASSUME NEW n \in Nat, n \in T PROVE n + 1 \in T
  <2>1. PICK f : AreFlattened(f, seqs, n)
    BY <1>2
  <2>2. f = [k \in 1..n |-> IF k = 1 THEN seqs[k] ELSE More(f[k - 1], k)]
    BY <2>1 DEF AreFlattened
  <2> HIDE DEF More
  <2> DEFINE g == [k \in 1..(n + 1) |-> IF k = n + 1
                                        THEN IF k = 1 THEN seqs[k] ELSE More(f[n], n + 1)
                                        ELSE f[k]]
  <2>3. \A k \in 1..n : f[k] = IF k = 1 THEN seqs[k] ELSE More(f[k - 1], k)
    BY <2>2
  <2>4. \A k \in 1..(n + 1) : g[k] = IF k = 1 THEN seqs[k] ELSE More(g[k - 1], k)
    BY <2>3
  <2>5. g = [k \in 1..(n + 1) |-> IF k = 1 THEN seqs[k] ELSE More(g[k - 1], k)]
    BY <2>4
  <2> HIDE DEF g
  <2>6. AreFlattened(g, seqs, n + 1)
    BY <2>5 DEF AreFlattened, More
  <2> QED
    BY <2>6
<1> HIDE DEF T
<1>3. \A n \in Nat : n \in T
  BY <1>1, <1>2, NatSetInduction
<1> QED
  BY <1>3 DEF T

\* Flattened is such a solution.
LEMMA FlattenedEquation ==
    ASSUME NEW seqs, Len(seqs) \in Nat
    PROVE  /\ \A k \in 1..Len(seqs) :
                 Flattened(seqs)[k] =
                    IF k = 1 THEN seqs[k] ELSE Flattened(seqs)[k - 1] \o seqs[k]
           /\ FlattenSeq(seqs) = IF Len(seqs) = 0 THEN seqs ELSE Flattened(seqs)[Len(seqs)]
<1> DEFINE flatten[i \in 1..Len(seqs)] ==
               IF i = 1 THEN seqs[i] ELSE flatten[i - 1] \o seqs[i]
<1>1. \E f : f = [i \in 1..Len(seqs) |-> IF i = 1 THEN seqs[i] ELSE f[i - 1] \o seqs[i]]
  <2>1. PICK f : AreFlattened(f, seqs, Len(seqs))
    BY FlattenedExist
  <2> QED
    BY <2>1 DEF AreFlattened
<1>2. flatten = [i \in 1..Len(seqs) |-> IF i = 1 THEN seqs[i] ELSE flatten[i - 1] \o seqs[i]]
  BY <1>1
<1>3. Flattened(seqs) = flatten
  BY DEF Flattened
<1>4. FlattenSeq(seqs) = IF Len(seqs) = 0 THEN seqs ELSE flatten[Len(seqs)]
  BY DEF FlattenSeq
<1> HIDE DEF flatten
<1> QED
  BY <1>2, <1>3, <1>4

\* The net of flattened row sequences is the sum of their nets, and every row comes
\* from one of them.
FlatUpTo(parts, n, flat) ==
    /\ flat \in Seq(Rows)
    /\ \A k \in 1..Len(flat) : \E i \in 1..n : \E j \in 1..Len(parts[i]) : flat[k] = parts[i][j]

LEMMA FlattenFacts ==
    ASSUME NEW parts \in Seq(Seq(Rows))
    PROVE  /\ FlatUpTo(parts, Len(parts), FlattenSeq(parts))
           /\ \A S : /\ NetIn(FlattenSeq(parts), S).qty =
                           SumSeq([i \in 1..Len(parts) |-> NetIn(parts[i], S).qty])
                     /\ NetIn(FlattenSeq(parts), S).aed =
                           SumSeq([i \in 1..Len(parts) |-> NetIn(parts[i], S).aed])
<1> DEFINE flat == Flattened(parts)
           Qty(S) == [i \in 1..Len(parts) |-> NetIn(parts[i], S).qty]
           Aed(S) == [i \in 1..Len(parts) |-> NetIn(parts[i], S).aed]
           Good(k) == /\ FlatUpTo(parts, k, flat[k])
                      /\ \A S : /\ NetIn(flat[k], S).qty = PrefixSums(Qty(S))[k]
                                /\ NetIn(flat[k], S).aed = PrefixSums(Aed(S))[k]
           T == {n \in Nat : n + 1 <= Len(parts) => Good(n + 1)}
<1>1. /\ \A k \in 1..Len(parts) : flat[k] = IF k = 1 THEN parts[k] ELSE flat[k - 1] \o parts[k]
      /\ FlattenSeq(parts) = IF Len(parts) = 0 THEN parts ELSE flat[Len(parts)]
      /\ Len(parts) \in Nat
  BY FlattenedEquation
<1>2. \A i \in 1..Len(parts) : parts[i] \in Seq(Rows)
  OBVIOUS
<1>3. ASSUME NEW S
      PROVE  /\ Qty(S) \in Seq(Int) /\ Len(Qty(S)) = Len(parts)
             /\ Aed(S) \in Seq(Int) /\ Len(Aed(S)) = Len(parts)
             /\ \A i \in 1..Len(parts) : /\ Qty(S)[i] = NetIn(parts[i], S).qty
                                         /\ Aed(S)[i] = NetIn(parts[i], S).aed
  <2>1. \A i \in 1..Len(parts) : NetIn(parts[i], S).qty \in Int /\ NetIn(parts[i], S).aed \in Int
    BY <1>2, NetInType
  <2> QED
    BY <2>1
<1> HIDE DEF flat, Qty, Aed
<1>4. ASSUME NEW S, NEW k \in 0..(Len(parts) - 1)
      PROVE  /\ PrefixSums(Qty(S))[0] = 0 /\ PrefixSums(Aed(S))[0] = 0
             /\ PrefixSums(Qty(S))[k + 1] = PrefixSums(Qty(S))[k] + NetIn(parts[k + 1], S).qty
             /\ PrefixSums(Aed(S))[k + 1] = PrefixSums(Aed(S))[k] + NetIn(parts[k + 1], S).aed
  <2>1. k + 1 \in 1..Len(parts)
    OBVIOUS
  <2>2. \A e \in {Qty(S), Aed(S)} :
           PrefixSums(e)[0] = 0 /\ PrefixSums(e)[k + 1] = PrefixSums(e)[k] + e[k + 1]
    BY <1>3, PrefixSumsStep
  <2> QED
    BY <1>3, <2>1, <2>2
<1>5. 0 \in T
  <2>1. SUFFICES ASSUME 1 <= Len(parts) PROVE Good(1)
    OBVIOUS
  <2>2. flat[1] = parts[1] /\ parts[1] \in Seq(Rows)
    <3>1. 1 \in 1..Len(parts)
      BY <1>1, <2>1
    <3> QED
      BY <1>1, <1>2, <3>1
  <2>3. FlatUpTo(parts, 1, flat[1])
    BY <2>2 DEF FlatUpTo
  <2>4. ASSUME NEW S
        PROVE  /\ NetIn(flat[1], S).qty = PrefixSums(Qty(S))[1]
               /\ NetIn(flat[1], S).aed = PrefixSums(Aed(S))[1]
    <3>1. 0 \in 0..(Len(parts) - 1) /\ 0 + 1 = 1
      BY <1>1, <2>1
    <3>2. /\ PrefixSums(Qty(S))[1] = 0 + NetIn(parts[1], S).qty
          /\ PrefixSums(Aed(S))[1] = 0 + NetIn(parts[1], S).aed
      BY <1>4, <3>1
    <3>3. PICK x \in Int, y \in Int : x = NetIn(parts[1], S).qty /\ y = NetIn(parts[1], S).aed
      BY <2>2, NetInType
    <3> QED
      BY <2>2, <3>2, <3>3
  <2> QED
    BY <2>3, <2>4
<1>6. ASSUME NEW n \in Nat, n \in T PROVE n + 1 \in T
  <2>1. SUFFICES ASSUME (n + 1) + 1 <= Len(parts) PROVE Good((n + 1) + 1)
    OBVIOUS
  <2>2. PICK m \in 1..(Len(parts) - 1) : m = n + 1
    BY <1>1, <2>1
  <2>3. Good(m)
    BY <1>6, <2>1, <2>2
  <2>4. PICK old \in Seq(Rows), part \in Seq(Rows) : old = flat[m] /\ part = parts[m + 1]
    BY <1>2, <2>2, <2>3 DEF FlatUpTo
  <2>5. flat[m + 1] = old \o part
    <3>1. m + 1 \in 1..Len(parts) /\ m + 1 # 1 /\ (m + 1) - 1 = m
      BY <1>1, <2>2
    <3> QED
      BY <1>1, <2>4, <3>1
  <2>6. FlatUpTo(parts, m + 1, old \o part)
    <3>1. ASSUME NEW k \in 1..Len(old \o part)
          PROVE  \E i \in 1..(m + 1) : \E j \in 1..Len(parts[i]) : (old \o part)[k] = parts[i][j]
      <4>1. CASE k <= Len(old)
        <5>1. k \in 1..Len(old) /\ (old \o part)[k] = old[k]
          BY <4>1
        <5>2. PICK i \in 1..m : \E j \in 1..Len(parts[i]) : old[k] = parts[i][j]
          BY <2>3, <2>4, <5>1 DEF FlatUpTo
        <5> QED
          BY <5>1, <5>2
      <4>2. CASE k > Len(old)
        <5>1. k - Len(old) \in 1..Len(part) /\ (old \o part)[k] = part[k - Len(old)]
          BY <4>2
        <5>2. m + 1 \in 1..(m + 1)
          BY <2>2
        <5> QED
          BY <2>4, <5>1, <5>2
      <4> QED
        BY <4>1, <4>2
    <3>2. PICK all \in Seq(Rows) : all = old \o part
      BY ConcatProperties
    <3>3. FlatUpTo(parts, m + 1, all)
      BY <3>1, <3>2 DEF FlatUpTo
    <3> QED
      BY <3>2, <3>3
  <2>7. ASSUME NEW S
        PROVE  /\ NetIn(old \o part, S).qty = PrefixSums(Qty(S))[m + 1]
               /\ NetIn(old \o part, S).aed = PrefixSums(Aed(S))[m + 1]
    <3>1. NetIn(old \o part, S) = Plus(NetIn(old, S), NetIn(part, S))
      BY NetInConcat
    <3>2. m \in 0..(Len(parts) - 1)
      BY <2>2
    <3>3. /\ PrefixSums(Qty(S))[m + 1] = PrefixSums(Qty(S))[m] + NetIn(part, S).qty
          /\ PrefixSums(Aed(S))[m + 1] = PrefixSums(Aed(S))[m] + NetIn(part, S).aed
      BY <1>4, <2>4, <3>2
    <3>4. NetIn(old, S).qty = PrefixSums(Qty(S))[m] /\ NetIn(old, S).aed = PrefixSums(Aed(S))[m]
      BY <2>3, <2>4
    <3> QED
      BY <3>1, <3>3, <3>4 DEF Plus
  <2> QED
    BY <2>2, <2>5, <2>6, <2>7
<1> HIDE DEF T
<1>7. \A n \in Nat : n \in T
  BY <1>5, <1>6, NatSetInduction
<1>8. CASE Len(parts) = 0
  <2>1. parts = << >> /\ FlattenSeq(parts) = << >>
    BY <1>1, <1>8
  <2>2. FlatUpTo(parts, Len(parts), << >>)
    BY DEF FlatUpTo
  <2>3. ASSUME NEW S
        PROVE  /\ NetIn(<< >>, S).qty = SumSeq(Qty(S))
               /\ NetIn(<< >>, S).aed = SumSeq(Aed(S))
    <3>1. Qty(S) = << >> /\ Aed(S) = << >>
      BY <1>3, <1>8
    <3> QED
      BY <3>1, NetInEmpty, SumSeqEmpty DEF NoStock
  <2> QED
    BY <2>1, <2>2, <2>3 DEF Qty, Aed
<1>9. CASE Len(parts) # 0
  <2>1. PICK n \in Nat : n + 1 = Len(parts)
    <3>1. Len(parts) - 1 \in Nat /\ (Len(parts) - 1) + 1 = Len(parts)
      BY <1>1, <1>9
    <3> QED
      BY <3>1
  <2>2. n \in T
    BY <1>7
  <2>3. Good(Len(parts))
    BY <2>1, <2>2 DEF T
  <2>4. FlattenSeq(parts) = flat[Len(parts)]
    BY <1>1, <1>9
  <2>5. \A S : /\ SumSeq(Qty(S)) = PrefixSums(Qty(S))[Len(parts)]
               /\ SumSeq(Aed(S)) = PrefixSums(Aed(S))[Len(parts)]
    BY <1>3 DEF SumSeq
  <2>6. /\ FlatUpTo(parts, Len(parts), FlattenSeq(parts))
        /\ \A S : /\ NetIn(FlattenSeq(parts), S).qty = SumSeq(Qty(S))
                  /\ NetIn(FlattenSeq(parts), S).aed = SumSeq(Aed(S))
    BY <2>3, <2>4, <2>5
  <2> QED
    BY <2>6 DEF Qty, Aed
<1> QED
  BY <1>8, <1>9

-----------------------------------------------------------------------------
(* Rows selected and reversed *)

\* Two sets that select the same rows have the same net.
LEMMA NetInSame ==
    ASSUME NEW rows \in Seq(Rows), NEW S, NEW T,
           \A i \in 1..Len(rows) : rows[i] \in S <=> rows[i] \in T
    PROVE  NetIn(rows, S) = NetIn(rows, T)
<1>1. [i \in 1..Len(rows) |-> IF rows[i] \in S THEN rows[i].qty ELSE 0] =
      [i \in 1..Len(rows) |-> IF rows[i] \in T THEN rows[i].qty ELSE 0]
  OBVIOUS
<1>2. [i \in 1..Len(rows) |-> IF rows[i] \in S THEN rows[i].aed ELSE 0] =
      [i \in 1..Len(rows) |-> IF rows[i] \in T THEN rows[i].aed ELSE 0]
  OBVIOUS
<1> QED
  BY <1>1, <1>2 DEF NetIn, Net, SumOf

\* What the kept rows in S add up to, when T describes just these rows.
LEMMA KeptNetAs ==
    ASSUME NEW rows \in Seq(Rows), NEW I, NEW S, NEW T,
           \A i \in 1..Len(rows) : i \in I /\ rows[i] \in S <=> rows[i] \in T
    PROVE  NetIn(Kept(rows, I), S) = NetIn(rows, T)
<1> DEFINE Qty  == [i \in 1..Len(rows) |-> IF rows[i] \in T THEN rows[i].qty ELSE 0]
           Aed  == [i \in 1..Len(rows) |-> IF rows[i] \in T THEN rows[i].aed ELSE 0]
           QtyK == [i \in 1..Len(rows) |-> IF i \in I /\ rows[i] \in S THEN rows[i].qty ELSE 0]
           AedK == [i \in 1..Len(rows) |-> IF i \in I /\ rows[i] \in S THEN rows[i].aed ELSE 0]
<1>1. QtyK = Qty /\ AedK = Aed
  OBVIOUS
<1>2. NetIn(rows, T) = [qty |-> SumSeq(Qty), aed |-> SumSeq(Aed)]
  BY DEF NetIn, Net, SumOf
<1>3. NetIn(Kept(rows, I), S) = [qty |-> SumSeq(QtyK), aed |-> SumSeq(AedK)]
  BY KeptNet
<1> HIDE DEF Qty, Aed, QtyK, AedK
<1> QED
  BY <1>1, <1>2, <1>3

\* Every sign changed.
LEMMA SumSeqNegated ==
    ASSUME NEW f \in Seq(Int), NEW g \in Seq(Int), Len(g) = Len(f),
           \A i \in 1..Len(f) : g[i] = -f[i]
    PROVE  SumSeq(g) = -SumSeq(f)
<1> DEFINE h == [i \in 1..Len(f) |-> 0]
<1>1. Len(f) \in Nat /\ \A i \in 1..Len(f) : f[i] \in Int
  OBVIOUS
<1>2. h \in Seq(Int) /\ Len(h) = Len(f)
  BY <1>1
<1>3. \A i \in 1..Len(h) : h[i] = 0 /\ h[i] = f[i] + g[i]
  BY <1>1, <1>2
<1> HIDE DEF h
<1>4. SumSeq(h) = 0
  BY <1>2, <1>3, SumSeqZero
<1>5. SumSeq(h) = SumSeq(f) + SumSeq(g)
  BY <1>2, <1>3, SumSeqPlus
<1> QED
  BY <1>4, <1>5, SumSeqType

\* A sum of numbers that are not negative.
LEMMA SumSeqNatural ==
    ASSUME NEW f \in Seq(Nat)
    PROVE  SumSeq(f) \in Nat
<1> DEFINE g == [i \in 1..Len(f) |-> -f[i]]
<1>1. Len(f) \in Nat /\ f \in Seq(Int) /\ \A i \in 1..Len(f) : f[i] \in Nat
  OBVIOUS
<1>2. g \in Seq(Int) /\ Len(g) = Len(f)
  BY <1>1
<1>3. \A i \in 1..Len(f) : g[i] = -f[i] /\ g[i] <= 0
  BY <1>1, <1>2
<1> HIDE DEF g
<1>4. SumSeq(g) <= 0 /\ SumSeq(g) = -SumSeq(f)
  BY <1>1, <1>2, <1>3, SumSeqNotPositive, SumSeqNegated
<1> QED
  BY <1>1, <1>4, SumSeqType

\* A sequence read backwards with every sign changed sums to the opposite.
LEMMA SumSeqBackwards ==
    ASSUME NEW f \in Seq(Int), NEW g \in Seq(Int), Len(g) = Len(f),
           \A i \in 1..Len(f) : g[i] = -f[Len(f) + 1 - i]
    PROVE  SumSeq(g) = -SumSeq(f)
<1> DEFINE T == {n \in Nat : n <= Len(f) =>
                    PrefixSums(g)[n] = PrefixSums(f)[Len(f) - n] - PrefixSums(f)[Len(f)]}
<1>1. \A e \in {f, g} :
         /\ PrefixSums(e)[0] = 0
         /\ \A k \in 0..(Len(e) - 1) : PrefixSums(e)[k + 1] = PrefixSums(e)[k] + e[k + 1]
  BY PrefixSumsStep
<1>2. \A k \in 0..Len(f) : PrefixSums(f)[k] \in Int /\ PrefixSums(g)[k] \in Int
  BY PrefixSumsType
<1>3. Len(f) \in Nat
  OBVIOUS
<1>4. 0 \in T
  <2>1. PICK x \in Int : x = PrefixSums(f)[Len(f)]
    BY <1>2, <1>3
  <2>2. Len(f) - 0 = Len(f)
    BY <1>3
  <2> QED
    BY <1>1, <2>1, <2>2
<1>5. ASSUME NEW n \in Nat, n \in T PROVE n + 1 \in T
  <2>1. SUFFICES ASSUME n + 1 <= Len(f)
                 PROVE  PrefixSums(g)[n + 1] =
                          PrefixSums(f)[Len(f) - (n + 1)] - PrefixSums(f)[Len(f)]
    OBVIOUS
  <2>2. PICK m \in 0..(Len(f) - 1) : m = Len(f) - (n + 1) /\ m + 1 = Len(f) - n
    <3>1. PICK len \in Nat : len = Len(f)
      BY <1>3
    <3>2. len - (n + 1) \in 0..(len - 1) /\ (len - (n + 1)) + 1 = len - n
      BY <2>1, <3>1
    <3> QED
      BY <3>1, <3>2
  <2>3. n \in 0..(Len(g) - 1) /\ n + 1 \in 1..Len(f) /\ Len(f) + 1 - (n + 1) = m + 1
    BY <1>3, <2>1, <2>2
  <2>4. PICK a \in Int : a = f[m + 1]
    BY <1>3, <2>2
  <2>5. g[n + 1] = -a
    BY <2>3, <2>4
  <2>6. PICK x \in Int, y \in Int, z \in Int :
           x = PrefixSums(f)[m] /\ y = PrefixSums(f)[m + 1] /\ z = PrefixSums(f)[Len(f)]
    <3>1. m \in 0..Len(f) /\ m + 1 \in 0..Len(f) /\ Len(f) \in 0..Len(f)
      BY <1>3, <2>2
    <3> QED
      BY <1>2, <3>1
  <2>7. y = x + a
    BY <1>1, <2>2, <2>4, <2>6
  <2>8. PrefixSums(g)[n] = y - z
    BY <1>5, <2>1, <2>2, <2>6
  <2>9. PrefixSums(g)[n + 1] = PrefixSums(g)[n] + g[n + 1]
    BY <1>1, <2>3
  <2>10. PrefixSums(g)[n + 1] = x - z
    BY <2>5, <2>7, <2>8, <2>9
  <2> QED
    BY <2>2, <2>6, <2>10
<1> HIDE DEF T
<1>6. \A n \in Nat : n \in T
  BY <1>4, <1>5, NatSetInduction
<1>7. Len(f) \in T /\ Len(f) - Len(f) = 0
  BY <1>3, <1>6
<1>8. PrefixSums(g)[Len(f)] = PrefixSums(f)[0] - PrefixSums(f)[Len(f)]
  BY <1>3, <1>7 DEF T
<1>9. PICK x \in Int : x = PrefixSums(f)[Len(f)]
  BY <1>2, <1>3
<1> QED
  BY <1>1, <1>8, <1>9 DEF SumSeq

\* Two rows that differ in their amounts alone, and the sets that cannot tell them.
SameRecord(r, s) ==
    r.stype = s.stype /\ r.sid = s.sid /\ r.line = s.line /\ KeyOf(r) = KeyOf(s)

Blind(S) == \A r, s \in Rows : SameRecord(r, s) => (r \in S <=> s \in S)

\* Reversing rows one by one takes back what they add up to, wherever it is.
LEMMA ReversalFacts ==
    ASSUME NEW rows \in Seq(Rows)
    PROVE  /\ ReversalMovements(rows) \in Seq(Rows)
           /\ \A i \in 1..Len(ReversalMovements(rows)) :
                 \E j \in 1..Len(rows) : SameRecord(ReversalMovements(rows)[i], rows[j])
           /\ \A S : Blind(S) => /\ NetIn(ReversalMovements(rows), S).qty = -NetIn(rows, S).qty
                                 /\ NetIn(ReversalMovements(rows), S).aed = -NetIn(rows, S).aed
<1> DEFINE moves == ReversalMovements(rows)
           Back(row) == [row EXCEPT !.qty = -row.qty, !.aed = -row.aed]
<1>1. ASSUME NEW row \in Rows
      PROVE  /\ Back(row) \in Rows /\ SameRecord(Back(row), row)
             /\ Back(row).qty = -row.qty /\ Back(row).aed = -row.aed
  <2>1. PICK q \in Int, a \in Int : q = -row.qty /\ a = -row.aed
    <3>1. row.qty \in Int /\ row.aed \in Int
      BY DEF Rows
    <3>2. -row.qty \in Int /\ -row.aed \in Int
      BY <3>1
    <3> QED
      BY <3>2
  <2>2. PICK back : back = [row EXCEPT !.qty = q, !.aed = a]
    OBVIOUS
  <2>3. /\ back \in Rows /\ back.qty = q /\ back.aed = a
        /\ back.line = row.line /\ back.product = row.product /\ back.loc = row.loc
        /\ back.bucket = row.bucket /\ back.stype = row.stype /\ back.sid = row.sid
    BY <2>2 DEF Rows
  <2>4. SameRecord(back, row)
    BY <2>3 DEF SameRecord, KeyOf
  <2> QED
    BY <2>1, <2>2, <2>3, <2>4
<1>2. Len(rows) \in Nat /\ \A i \in 1..Len(rows) : Len(rows) + 1 - i \in 1..Len(rows)
  OBVIOUS
<1>3. Len(moves) = Len(rows) /\ DOMAIN moves = 1..Len(rows)
  BY <1>2 DEF ReversalMovements
<1>4. \A i \in 1..Len(rows) : moves[i] = Back(rows[Len(rows) + 1 - i])
  BY <1>2 DEF ReversalMovements
<1>5. moves = [i \in 1..Len(rows) |-> moves[i]]
  BY DEF ReversalMovements
<1> HIDE DEF moves, Back
<1>6. \A i \in 1..Len(rows) : rows[Len(rows) + 1 - i] \in Rows
  BY <1>2
<1>7. \A i \in 1..Len(rows) : moves[i] \in Rows
  BY <1>1, <1>4, <1>6
<1>8. moves \in Seq(Rows)
  BY <1>2, <1>5, <1>7
<1>9. \A i \in 1..Len(moves) : \E j \in 1..Len(rows) : SameRecord(moves[i], rows[j])
  BY <1>1, <1>2, <1>3, <1>4, <1>6
<1>10. ASSUME NEW S, Blind(S)
       PROVE  NetIn(moves, S).qty = -NetIn(rows, S).qty /\ NetIn(moves, S).aed = -NetIn(rows, S).aed
  <2> DEFINE Qty(s) == [i \in 1..Len(s) |-> IF s[i] \in S THEN s[i].qty ELSE 0]
             Aed(s) == [i \in 1..Len(s) |-> IF s[i] \in S THEN s[i].aed ELSE 0]
  <2>1. \A s \in {rows, moves} : Qty(s) \in Seq(Int) /\ Aed(s) \in Seq(Int)
    BY <1>8, SelectedInType
  <2>2. \A s \in {rows, moves} : Len(Qty(s)) = Len(s) /\ Len(Aed(s)) = Len(s)
    BY <1>8
  <2>3. ASSUME NEW i \in 1..Len(rows)
        PROVE  /\ Qty(moves)[i] = -Qty(rows)[Len(rows) + 1 - i]
               /\ Aed(moves)[i] = -Aed(rows)[Len(rows) + 1 - i]
    <3>1. PICK j \in 1..Len(rows) : j = Len(rows) + 1 - i
      BY <1>2
    <3>2. PICK row \in Rows, back \in Rows : row = rows[j] /\ back = moves[i]
      BY <1>7
    <3>3. back = Back(row)
      BY <1>4, <3>1, <3>2
    <3>4. /\ back \in S <=> row \in S
          /\ back.qty = -row.qty /\ back.aed = -row.aed
      BY <1>1, <1>10, <3>3 DEF Blind
    <3>5. i \in 1..Len(moves)
      BY <1>3
    <3>6. /\ Qty(moves)[i] = IF back \in S THEN back.qty ELSE 0
          /\ Aed(moves)[i] = IF back \in S THEN back.aed ELSE 0
          /\ Qty(rows)[j] = IF row \in S THEN row.qty ELSE 0
          /\ Aed(rows)[j] = IF row \in S THEN row.aed ELSE 0
      BY <3>2, <3>5
    <3> QED
      BY <3>1, <3>4, <3>6
  <2>4. \A s : NetIn(s, S) = [qty |-> SumSeq(Qty(s)), aed |-> SumSeq(Aed(s))]
    BY DEF NetIn, Net, SumOf
  <2> HIDE DEF Qty, Aed
  <2>5. SumSeq(Qty(moves)) = -SumSeq(Qty(rows))
    BY <1>3, <2>1, <2>2, <2>3, SumSeqBackwards
  <2>6. SumSeq(Aed(moves)) = -SumSeq(Aed(rows))
    BY <1>3, <2>1, <2>2, <2>3, SumSeqBackwards
  <2> QED
    BY <2>4, <2>5, <2>6
<1> QED
  BY <1>3, <1>8, <1>9, <1>10 DEF moves

\* A sum in which one entry changed.
LEMMA SumSeqOneChanged ==
    ASSUME NEW f \in Seq(Int), NEW g \in Seq(Int), Len(g) = Len(f), NEW j \in 1..Len(f),
           \A i \in 1..Len(f) : i # j => g[i] = f[i]
    PROVE  SumSeq(g) = SumSeq(f) + (g[j] - f[j])
<1>1. PICK d \in Int : d = g[j] - f[j]
  <2>1. g[j] \in Int /\ f[j] \in Int
    OBVIOUS
  <2> QED
    BY <2>1
<1> DEFINE h == [i \in 1..Len(f) |-> IF i = j THEN d ELSE 0]
<1>2. h \in Seq(Int) /\ Len(h) = Len(f) /\ h[j] = d /\ \A i \in 1..Len(h) : i # j => h[i] = 0
  OBVIOUS
<1>3. \A i \in 1..Len(g) : g[i] = f[i] + h[i]
  <2>1. \A i \in 1..Len(f) : f[i] \in Int /\ g[i] \in Int
    OBVIOUS
  <2>2. \A i \in 1..Len(f) : h[i] = IF i = j THEN d ELSE 0
    OBVIOUS
  <2> HIDE DEF h
  <2>3. ASSUME NEW i \in 1..Len(f) PROVE g[i] = f[i] + h[i]
    <3>1. PICK x \in Int, y \in Int : x = f[i] /\ y = g[i]
      BY <2>1
    <3>2. CASE i = j
      BY <1>1, <2>2, <3>1, <3>2
    <3>3. CASE i # j
      <4>1. y = x /\ h[i] = 0
        BY <2>2, <3>1, <3>3
      <4> QED
        BY <3>1, <4>1
    <3> QED
      BY <3>2, <3>3
  <2> QED
    BY <2>3
<1> HIDE DEF h
<1>4. SumSeq(g) = SumSeq(f) + SumSeq(h)
  <2>1. Len(f) = Len(g) /\ Len(h) = Len(g) /\ h \in Seq(Int)
    BY <1>2
  <2> QED
    BY <1>3, <2>1, SumSeqPlus
<1>5. SumSeq(h) = h[j]
  BY <1>2, SumSeqOne
<1> QED
  BY <1>1, <1>2, <1>4, <1>5

\* The ids of a table that are in a set, in order: each of them once.
LEMMA OrderedFacts ==
    ASSUME NEW n \in Nat, NEW ids \in SUBSET (1..n)
    PROVE  /\ Ordered(ids, n) \in Seq(ids)
           /\ \A j, k \in 1..Len(Ordered(ids, n)) :
                 Ordered(ids, n)[j] = Ordered(ids, n)[k] => j = k
           /\ \A l \in ids : \E j \in 1..Len(Ordered(ids, n)) : Ordered(ids, n)[j] = l
<1> DEFINE s    == [i \in 1..n |-> i]
           kept == KeptPrefixes(s, ids)
           Good(t, m) == /\ t \in Seq(ids)
                         /\ \A k \in 1..Len(t) : t[k] \in 1..m
                         /\ \A j, k \in 1..Len(t) : t[j] = t[k] => j = k
                         /\ \A l \in ids : l <= m => \E j \in 1..Len(t) : t[j] = l
           T == {m \in Nat : m <= n => Good(kept[m], m)}
<1>1. Len(s) = n /\ \A k \in 1..n : s[k] = k
  OBVIOUS
<1>2. \A k \in 0..n :
         kept[k] = IF k = 0 THEN << >>
                   ELSE IF k \in ids THEN Append(kept[k - 1], k) ELSE kept[k - 1]
  <2> HIDE DEF s
  <2>1. Len(s) \in Nat
    BY <1>1
  <2>2. \A k \in 0..Len(s) :
           kept[k] = IF k = 0 THEN << >>
                     ELSE IF k \in ids THEN Append(kept[k - 1], s[k]) ELSE kept[k - 1]
    BY <2>1, KeptEquation
  <2>3. \A k \in 0..n : k # 0 => s[k] = k
    BY <1>1
  <2> HIDE DEF kept
  <2> QED
    BY <1>1, <2>2, <2>3
<1>3. Ordered(ids, n) = kept[n]
  BY <1>1 DEF Ordered, Kept
<1> HIDE DEF kept, s
<1>4. 0 \in T
  <2>1. PICK t : t = kept[0] /\ t = << >>
    BY <1>2
  <2>2. t \in Seq(ids) /\ Len(t) = 0 /\ \A l \in ids : ~(l <= 0)
    BY <2>1
  <2>3. Good(t, 0)
    BY <2>2
  <2> QED
    BY <2>1, <2>3
<1>5. ASSUME NEW m \in Nat, m \in T PROVE m + 1 \in T
  <2>1. SUFFICES ASSUME m + 1 <= n PROVE Good(kept[m + 1], m + 1)
    OBVIOUS
  <2>2. PICK t \in Seq(ids) : t = kept[m]
    BY <1>5, <2>1
  <2>3. Good(t, m)
    BY <1>5, <2>1, <2>2
  <2>4. kept[m + 1] = IF m + 1 \in ids THEN Append(t, m + 1) ELSE t
    BY <1>2, <2>1, <2>2
  <2>5. CASE m + 1 \notin ids
    <3>1. \A l \in ids : l <= m + 1 => l <= m
      BY <2>5
    <3>2. \A k \in 1..Len(t) : t[k] \in 1..(m + 1)
      BY <2>3
    <3>3. Good(t, m + 1)
      BY <2>3, <3>1, <3>2
    <3> QED
      BY <2>4, <2>5, <3>3
  <2>6. CASE m + 1 \in ids
    <3>1. PICK u \in Seq(ids) : u = Append(t, m + 1)
      BY <2>6, AppendProperties
    <3>2. Len(u) = Len(t) + 1 /\ u[Len(t) + 1] = m + 1 /\ \A k \in 1..Len(t) : u[k] = t[k]
      BY <2>6, <3>1
    <3>3. Len(t) \in Nat /\ \A k \in 1..Len(u) : k = Len(t) + 1 \/ k \in 1..Len(t)
      BY <3>2
    <3>4. \A k \in 1..Len(t) : t[k] \in 1..m /\ t[k] # m + 1
      BY <2>3
    <3>5. \A k \in 1..Len(u) : u[k] \in 1..(m + 1)
      BY <3>2, <3>3, <3>4
    <3>6. \A j, k \in 1..Len(u) : u[j] = u[k] => j = k
      BY <2>3, <3>2, <3>3, <3>4
    <3>7. ASSUME NEW l \in ids, l <= m + 1 PROVE \E j \in 1..Len(u) : u[j] = l
      <4>1. CASE l = m + 1
        <5>1. Len(t) + 1 \in 1..Len(u)
          BY <3>2, <3>3
        <5> QED
          BY <3>2, <4>1, <5>1
      <4>2. CASE l # m + 1
        <5>1. l <= m
          BY <3>7, <4>2
        <5>2. PICK j \in 1..Len(t) : t[j] = l
          BY <2>3, <5>1
        <5>3. j \in 1..Len(u)
          BY <3>2, <3>3
        <5> QED
          BY <3>2, <5>2, <5>3
      <4> QED
        BY <4>1, <4>2
    <3>8. Good(u, m + 1)
      BY <3>5, <3>6, <3>7
    <3> QED
      BY <2>4, <2>6, <3>1, <3>8
  <2> QED
    BY <2>5, <2>6
<1> HIDE DEF T
<1>6. \A m \in Nat : m \in T
  BY <1>4, <1>5, NatSetInduction
<1>7. Good(kept[n], n)
  <2>1. n \in T
    BY <1>6
  <2> HIDE DEF Good
  <2> QED
    BY <2>1 DEF T
<1> QED
  BY <1>3, <1>7
=============================================================================
