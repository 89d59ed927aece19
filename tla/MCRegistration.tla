--------------------------- MODULE MCRegistration ----------------------------
(* Instance of Registration for TLC.                                       *)
EXTENDS Registration, TLC

Symmetry == Permutations(Phones \ Whitelisted) \cup Permutations(Registrations)
=============================================================================
