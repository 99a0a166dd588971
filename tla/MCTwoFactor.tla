---------------------------- MODULE MCTwoFactor ----------------------------
(* Two requests at the same time, and two passkeys: which is which does not *)
(* matter.                                                                 *)
EXTENDS TwoFactor, TLC

Symmetry == Permutations(FactorRequests) \union Permutations(Passkeys)
=============================================================================
