----------------------------- MODULE MCOfframp ------------------------------
(* Instances of Offramp for TLC.                                           *)
EXTENDS OfframpRefinement, OfframpInvariants, TLC

CONSTANTS t1, t2, x1, x2, s1, s2, s3

OneOrder == {[txId |-> t1, hash |-> x1]}
TwoOrders == {[txId |-> t1, hash |-> x1], [txId |-> t2, hash |-> x2]}

(* The same deposit posted under two transaction ids.                      *)
SharedHash == {[txId |-> t1, hash |-> x1], [txId |-> t2, hash |-> x1]}

Strict == {1}
Ties == {0, 1}

Symmetry == Permutations(Handlers) \cup Permutations(Sales)
=============================================================================
