------------------------------ MODULE MCRecovery ------------------------------
(* Instances of CommerceRecovery for TLC.                                  *)
EXTENDS CommerceRecovery, TLC

Symmetry == Permutations(Runs) \cup Permutations(Orders)
=============================================================================
