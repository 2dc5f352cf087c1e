------------------------------ MODULE RateLimiter ------------------------------
(***************************************************************************)
(* The rate limiter of backend/internal/server/security.go.  Every request *)
(* but a health probe or a CORS preflight is stamped with the time, then   *)
(* counted under the limiter's mutex by its address and kind.  Handlers    *)
(* run concurrently: requests may be counted in another order than they    *)
(* were stamped.                                                           *)
(*                                                                         *)
(* The clock is discrete.  An unset Time is 0, further back than IdleTTL.  *)
(***************************************************************************)
EXTENDS Naturals, FiniteSets

CONSTANTS
  Ips,          (* the addresses clients come from                         *)
  MaxServing,   (* bound: the requests served at once                      *)
  ReadLimit, MutationLimit,
  Window,       (* rateLimitWindow: a minute                               *)
  IdleTTL,      (* rateLimitIdleTTL: five minutes                          *)
  Delay,        (* the longest a request waits between stamp and count     *)
  MaxTime,      (* bound: the clock                                        *)
  MaxRequests   (* bound: the requests stamped                             *)

ASSUME LimiterAssumption ==
  /\ ReadLimit \in Nat \ {0} /\ MutationLimit \in Nat \ {0}
  /\ Window \in Nat \ {0} /\ IdleTTL \in Nat /\ Delay \in Nat
  /\ IdleTTL >= Window + 2 * Delay
  /\ MaxTime \in Nat /\ MaxTime > IdleTTL
  /\ MaxRequests \in Nat /\ MaxServing \in Nat

VARIABLES
  now,          (* time.Now                                                *)
  sent,         (* requests stamped so far                                 *)
  pending,      (* those not yet counted                                   *)
  clients,      (* the keys of rl.clients                                  *)
  win,          (* the windows of each address, unset while it is no key   *)
  lastSeen,     (* likewise                                                *)
  lastCleanup,
  passed        (* history: those admitted, while they are recent, each
                   with the end of the window it was counted in            *)

limiter == <<clients, win, lastSeen, lastCleanup>>
vars    == <<now, sent, pending, limiter, passed>>

Paths   == {"read", "mutation", "stream"}
Kinds   == {"read", "mut"}
Budgets == Ips \X Kinds
Start   == IdleTTL + 1
Time    == Start .. MaxTime

Request  == [id : Nat, at : Time, budget : Budgets]
Admitted == [id : Nat, at : Time, budget : Budgets, until : Nat]

Limit == [b \in Budgets |-> IF b[2] = "mut" THEN MutationLimit ELSE ReadLimit]

(* The session and trade POSTs are mutations, and so is the WebSocket.     *)
isMutationPath(p) == p # "read"

NoWindow == [count |-> 0, resetAt |-> 0]

Init ==
  /\ now = Start /\ sent = 0 /\ pending = {}
  /\ clients = {}
  /\ win = [b \in Budgets |-> NoWindow]
  /\ lastSeen = [i \in Ips |-> 0]
  /\ lastCleanup = 0
  /\ passed = {}

-------------------------------------------------------------------------------
(* Time passes; no request waits longer than Delay for the mutex.  What    *)
(* was admitted a window ago leaves the history.                           *)
Tick ==
  /\ now < MaxTime
  /\ \A r \in pending : now < r.at + Delay
  /\ now' = now + 1
  /\ passed' = {r \in passed : now < r.at + Window + Delay}
  /\ UNCHANGED <<sent, pending, limiter>>

(* securityMiddleware up to the limiter.                                   *)
Arrive(i, p) ==
  /\ sent < MaxRequests /\ Cardinality(pending) < MaxServing
  /\ sent' = sent + 1
  /\ pending' = pending \cup
       {[id |-> sent, at |-> now,
         budget |-> <<i, IF isMutationPath(p) THEN "mut" ELSE "read">>]}
  /\ UNCHANGED <<now, limiter, passed>>

(* Mutant of Idle: a cleanup starts the map over.                          *)
IdleAll(s) == IF s > lastCleanup + IdleTTL THEN clients ELSE {}

(* Mutant of Idle: addresses that come no more are kept.                   *)
IdleNever(s) == {}

(* cleanupLocked: the addresses it forgets at time s.                      *)
Idle(s) ==
  IF s > lastCleanup + IdleTTL THEN {i \in clients : s > lastSeen[i] + IdleTTL}
  ELSE {}

Kept(s) == [b \in Budgets |-> IF b[1] \in Idle(s) THEN NoWindow ELSE win[b]]

(* Mutant of Current: a request of its last tick opens a new window.       *)
CurrentShort(w, s) ==
  IF s + 1 < w.resetAt THEN w ELSE [count |-> 0, resetAt |-> s + Window]

(* The window a request stamped s falls in.                                *)
Current(w, s) ==
  IF s < w.resetAt THEN w ELSE [count |-> 0, resetAt |-> s + Window]

(* rateLimiter.allow, from the mutex on.                                   *)
Allow(r) ==
  LET i  == r.budget[1]
      w  == Current(Kept(r.at)[r.budget], r.at)
      ok == w.count < Limit[r.budget]
  IN  /\ r \in pending
      /\ pending' = pending \ {r}
      /\ clients' = (clients \ Idle(r.at)) \cup {i}
      /\ lastCleanup' = IF r.at > lastCleanup + IdleTTL THEN r.at ELSE lastCleanup
      /\ lastSeen' = [j \in Ips |-> IF j = i THEN r.at
                                    ELSE IF j \in Idle(r.at) THEN 0 ELSE lastSeen[j]]
      /\ win' = [Kept(r.at) EXCEPT ![r.budget] =
                   IF ok THEN [w EXCEPT !.count = @ + 1] ELSE w]
      /\ passed' = IF ok
                    THEN passed \cup {[id |-> r.id, at |-> r.at, budget |-> r.budget,
                                       until |-> w.resetAt]}
                    ELSE passed
      /\ UNCHANGED <<now, sent>>

Next ==
  \/ Tick
  \/ \E i \in Ips, p \in Paths : Arrive(i, p)
  \/ \E r \in pending : Allow(r)

Spec == Init /\ [][Next]_vars

-------------------------------------------------------------------------------
(* Properties.                                                             *)

(* The variables hold values of their types.                               *)
TypeOK ==
  /\ now \in Time /\ sent \in Nat
  /\ pending \subseteq Request /\ passed \subseteq Admitted
  /\ clients \subseteq Ips
  /\ win \in [Budgets -> [count : Nat, resetAt : Nat]]
  /\ lastSeen \in [Ips -> Nat] /\ lastCleanup \in Nat

(* Around the edge of two windows a budget may be spent nearly twice, and  *)
(* never more, whatever the cleanup forgets: an interval of Window ticks,  *)
(* less what a request may wait, lacks the opening request of one of them. *)
AtMostTwoLimits ==
  \A r \in passed :
    LET Within == {q \in passed : /\ q.budget = r.budget
                                 /\ r.at <= q.at /\ q.at + Delay < r.at + Window}
    IN  Cardinality(Within) < 2 * Limit[r.budget]

(* Forgetting idle addresses is never seen: the limiter is fixed windows   *)
(* of which none is lost while a request can still fall in it.             *)
Fixed == INSTANCE FixedWindow WITH
           win <- [b \in Budgets |->
                     IF now < win[b].resetAt + Delay THEN win[b] ELSE NoWindow]

Implements == Fixed!Spec

(* The map is swept as it is used: a request finds no address that has     *)
(* been silent for two TTLs.                                               *)
MemoryBounded ==
  [][\A r \in pending : Allow(r) =>
       \A i \in clients' : r.at <= lastSeen'[i] + 2 * IdleTTL]_vars
===============================================================================
