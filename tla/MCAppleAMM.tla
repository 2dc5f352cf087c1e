------------------------------ MODULE MCAppleAMM ------------------------------
(* Model values for AppleAMM: two callers, so that rounding can take from  *)
(* one and give to the other.                                              *)
EXTENDS AppleAMM, TLC

CONSTANTS alice, bob, amm

MCAccounts == {alice, bob}
OneAccount == {alice}
Symmetry == Permutations(MCAccounts)
===============================================================================
