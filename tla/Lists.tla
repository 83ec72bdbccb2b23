-------------------------------- MODULE Lists --------------------------------
(***************************************************************************)
(* What list comprehensions of the code keep of a list: SelectSeq, stated  *)
(* without recursion, so that ListProofs can say what it does for every    *)
(* list.                                                                   *)
(***************************************************************************)
EXTENDS Integers, Sequences, FiniteSets

\* The numbers of a finite set in ascending order.
Ascending(I) ==
    CHOOSE p \in [1 .. Cardinality(I) -> I] : \A i, j \in DOMAIN p : i < j => p[i] < p[j]

\* [x for x in q if x in S]
Keep(q, S) ==
    LET p == Ascending({i \in DOMAIN q : q[i] \in S}) IN [k \in DOMAIN p |-> q[p[k]]]
=============================================================================
