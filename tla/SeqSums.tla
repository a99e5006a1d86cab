------------------------------ MODULE SeqSums ------------------------------
(***************************************************************************)
(* Sums over finite sequences of integers, and filtered sequences.         *)
(*                                                                         *)
(* The services never store a line's remaining quantity or value: they ask *)
(* the database for a SUM over ledger rows each time (Django's             *)
(* aggregate(Sum(...))).  SumSeq is that SUM.  It and Kept are recursive   *)
(* functions rather than RECURSIVE operators or library folds, so that the *)
(* facts in StockLedgerProofs can be proved about them.                    *)
(***************************************************************************)
EXTENDS Integers, Sequences

\* PrefixSums(f)[n] is the sum of the first n elements of f.
PrefixSums(f) ==
    LET sum[n \in 0..Len(f)] == IF n = 0 THEN 0 ELSE sum[n - 1] + f[n]
    IN  sum

SumSeq(f) == PrefixSums(f)[Len(f)]

\* The sum of Val(row) over the rows that Sel selects.
SumOf(rows, Sel(_), Val(_)) ==
    SumSeq([i \in 1..Len(rows) |-> IF Sel(rows[i]) THEN Val(rows[i]) ELSE 0])

\* KeptPrefixes(s, I)[n] has those of the first n elements of s that are at a
\* position in I, in order.
KeptPrefixes(s, I) ==
    LET kept[n \in 0..Len(s)] ==
            IF n = 0 THEN << >>
            ELSE IF n \in I THEN Append(kept[n - 1], s[n]) ELSE kept[n - 1]
    IN  kept

\* The elements of s at the positions in I, in order: filter() on rows in the
\* order of their id.
Kept(s, I) == KeptPrefixes(s, I)[Len(s)]
=============================================================================
