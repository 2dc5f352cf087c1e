------------------------------ MODULE MCMarketData ------------------------------
(* Model values for MarketData.  From 100 the price 104 is a small move,   *)
(* 106 a reported one; 104 and 106 are near each other.                    *)
EXTENDS MarketData, TLC

CONSTANTS e1, r1, r2

ThreePricesAndZero == {0, 100, 104, 106}
OneEmitter == {e1}
TwoResets == {r1, r2}
Symmetry == Permutations(TwoResets)
===============================================================================
