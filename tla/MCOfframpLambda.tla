-------------------------- MODULE MCOfframpLambda ---------------------------
(* Instances of OfframpLambda for TLC.                                     *)
EXTENDS OfframpLambda, TLC

OneUser == [m \in Messages |-> CHOOSE u \in Users : TRUE]

Symmetry == Permutations(Messages) \cup Permutations(Workers)
=============================================================================
