------------------------------- MODULE MCTraders -------------------------------
(* Model values for Traders.                                               *)
EXTENDS Traders

CONSTANTS n1, m1

OneNoise == {n1}
OneRev   == {m1}
===============================================================================
