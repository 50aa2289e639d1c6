------------------------------ MODULE Helpers ------------------------------
(* Small numbers, orders and sums that several modules share. *)
EXTENDS Integers, SequencesExt

CONSTANT None  \* where the code has null or undefined

Infinity == 1000000
Least(a, b) == IF a < b THEN a ELSE b
Most(a, b) == IF a > b THEN a ELSE b
CeilDiv(a, b) == (a + b - 1) \div b
Take(seq, n) == SubSeq(seq, 1, Least(n, Len(seq)))

\* The numbers of S in order.
Ascending(S) == [k \in 1 .. Cardinality(S) |-> CHOOSE n \in S : Cardinality({m \in S : m <= n}) = k]

SumOver(S, value(_)) == FoldSet(LAMBDA x, total : total + value(x), 0, S)

\* rows, and then those of more that are not there yet.
AppendNew(rows, more) == rows \o SelectSeq(more, LAMBDA x : x \notin ToSet(rows))

=============================================================================
