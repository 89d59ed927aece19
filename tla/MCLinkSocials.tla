---------------------------- MODULE MCLinkSocials -----------------------------
(* Instances of LinkSocials for TLC.                                       *)
EXTENDS LinkSocials, TLC

Symmetry == Permutations(Users) \cup Permutations(Accounts) \cup Permutations(Codes)
              \cup Permutations(Callbacks)
=============================================================================
