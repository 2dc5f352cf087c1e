------------------------------ MODULE MCExecutor ------------------------------
(* Model values for Executor.                                              *)
EXTENDS Executor

CONSTANTS c1, c2

TwoCalls == {c1, c2}

(* Both buy, sell or transfer, in every combination.                       *)
AnyTwo == [TwoCalls -> Kinds]
===============================================================================
