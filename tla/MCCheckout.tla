------------------------------ MODULE MCCheckout ------------------------------
(* Instances of CommerceCheckout for TLC.                                  *)
EXTENDS CommerceCheckout, TLC

Symmetry == Permutations(Requests) \cup Permutations(Sessions) \cup Permutations(Intents)
=============================================================================
