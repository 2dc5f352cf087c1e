--------------------------- MODULE MCSessionServer ---------------------------
(* Model values for SessionServer.                                         *)
EXTENDS SessionServer

CONSTANTS b1, h1, t1, u1

OneBot == {b1}
OneDuration == {1}
OneHandler == {h1}
OneTrade == {t1}
OneUser == {u1}
===============================================================================
