------------------------------ MODULE MCSession ------------------------------
(* Model values for Session.  A group of bots is only ever asked whether   *)
(* it is empty, so one bot stands for all; two durations let a client      *)
(* change the duration of a paused session.                                *)
EXTENDS Session

CONSTANT b1

OneBot == {b1}
OneDuration == {1}
MCDurations == {1, 2}
===============================================================================
