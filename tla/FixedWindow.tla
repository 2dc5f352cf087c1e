------------------------------ MODULE FixedWindow ------------------------------
(***************************************************************************)
(* What rateLimiter.allow of backend/internal/server/security.go promises: *)
(* a budget (of one address, for one kind of request) is a window of       *)
(* Window ticks, opened by the first request after the previous one, that  *)
(* admits Limit of them.  Nothing here is ever reclaimed; RateLimiter,     *)
(* which forgets idle addresses, implements this module.                   *)
(***************************************************************************)
EXTENDS Naturals

CONSTANTS
  Budgets,     (* an address and a kind of request                         *)
  Limit,       (* of each budget: the requests a window admits             *)
  Window,      (* ticks                                                    *)
  Delay        (* a request is decided at most Delay ticks after its stamp *)

VARIABLES
  now,         (* the clock                                                *)
  win          (* the window of each budget                                *)

wvars == <<now, win>>

NoWindow == [count |-> 0, resetAt |-> 0]

(* A window no request can be counted in any more is as good as none.      *)
Live(w, t) == IF t < w.resetAt + Delay THEN w ELSE NoWindow

(* The window a request stamped s falls in.                                *)
Current(w, s) ==
  IF s < w.resetAt THEN w ELSE [count |-> 0, resetAt |-> s + Window]

Init == now \in Nat /\ win = [b \in Budgets |-> NoWindow]

Tick ==
  /\ now' = now + 1
  /\ win' = [b \in Budgets |-> Live(win[b], now + 1)]

Admit(b, s) ==
  LET w == Current(win[b], s)
  IN  /\ now <= s + Delay
      /\ w.count < Limit[b]
      /\ win' = [win EXCEPT ![b] = [w EXCEPT !.count = @ + 1]]
      /\ UNCHANGED now

Next == Tick \/ \E b \in Budgets, s \in 0 .. now : Admit(b, s)

Spec == Init /\ [][Next]_wvars
===============================================================================
