----------------------------- MODULE PrefixSums -----------------------------
(***************************************************************************)
(* Sums of integer functions over 1..N, written as a recursive function    *)
(* over 0..N so that the same definition can be evaluated and proved about.*)
(* The finance modules read them as "money up to and including position n" *)
(* of a queue of cheques or of months.  A sum over any other finite set is *)
(* the sum along some numbering of its elements.                           *)
(***************************************************************************)
EXTENDS Integers, FiniteSets

Least(a, b) == IF a <= b THEN a ELSE b
Most(a, b)  == IF a >= b THEN a ELSE b

(* Cum(f, N)[n] is f[1] + ... + f[n].                                      *)
Cum(f, N) ==
    LET sum[n \in 0..N] == IF n = 0 THEN 0 ELSE sum[n - 1] + f[n]
    IN  sum

Total(f, N) == Cum(f, N)[N]

(* The length of the common part of the intervals (a1, a2] and (b1, b2].   *)
Overlap(a1, a2, b1, b2) == Most(0, Least(a2, b2) - Most(a1, b1))

(* The sum of f[x] over the elements x of the finite set S.                *)
Numbering(S) == CHOOSE e \in [1..Cardinality(S) -> S] :
                    \A x \in S : \E i \in 1..Cardinality(S) : e[i] = x
Along(f, S) == LET e == Numbering(S) IN [i \in 1..Cardinality(S) |-> f[e[i]]]
SumOver(f, S) == Total(Along(f, S), Cardinality(S))
=============================================================================
