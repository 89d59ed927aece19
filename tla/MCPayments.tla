----------------------------- MODULE MCPayments -------------------------------
(* Instance of Payments for TLC: two payments of one user.                 *)
EXTENDS Payments

CONSTANTS c1, c2, u1, a1, a2

UserOf == [c \in {c1, c2} |-> u1]

(* Tokens from the deposit address, a transfer of nothing to it, and       *)
(* tokens sent elsewhere.                                                  *)
Listed == <<[wallet |-> u1, dir |-> "IN", peer |-> a1, delta |-> 1, hash |-> 1, at |-> 1],
            [wallet |-> u1, dir |-> "OUT", peer |-> a1, delta |-> 0, hash |-> 2, at |-> 2],
            [wallet |-> u1, dir |-> "OUT", peer |-> a2, delta |-> 1, hash |-> 3, at |-> 3]>>

Symmetry == Permutations({c1, c2})
=============================================================================
