--------------------------- MODULE RateLimiterProof ----------------------------
(***************************************************************************)
(* That RateLimiter implements FixedWindow and reclaims its memory, for    *)
(* any addresses, limits, window, TTL and waits its assumption allows.     *)
(***************************************************************************)
EXTENDS RateLimiter, FiniteSetTheorems, TLAPS

(* A request is counted at most Delay after its stamp.                     *)
Stamps == \A r \in pending : r.at <= now /\ now <= r.at + Delay

(* No field is ahead of the clock, and no window further than a window.    *)
Clocks ==
  /\ lastCleanup <= now
  /\ \A i \in Ips : lastSeen[i] <= now
  /\ \A b \in Budgets : win[b].resetAt <= now + Window

(* A window closes soon enough after its address was last seen: a delayed  *)
(* request may take lastSeen back, but not by more than Delay.             *)
WindowsSeen ==
  \A b \in Budgets : win[b].resetAt <= lastSeen[b[1]] + Delay + Window

(* An address that is no key has nothing.                                  *)
AbsentUnset ==
  \A b \in Budgets : b[1] \notin clients => win[b] = NoWindow

(* What the last cleanup left had been seen within a TTL of it.            *)
Swept == \A i \in clients : lastCleanup <= lastSeen[i] + IdleTTL

IInv == TypeOK /\ Stamps /\ Clocks /\ WindowsSeen /\ AbsentUnset /\ Swept

(* The window FixedWindow has where RateLimiter has win.                   *)
Abs == [b \in Budgets |->
          IF now < win[b].resetAt + Delay THEN win[b] ELSE NoWindow]

-------------------------------------------------------------------------------
(* The invariant holds before the first request.                           *)
LEMMA InitHolds == Init => IInv
  <1> SUFFICES ASSUME Init PROVE IInv
    OBVIOUS
  <1>1. now \in Time
    BY LimiterAssumption DEF Init, Start, Time
  <1>2. TypeOK
    BY <1>1 DEF Init, TypeOK, NoWindow
  <1> QED
    BY <1>1, <1>2, LimiterAssumption DEF Init, IInv, Stamps, Clocks, WindowsSeen, AbsentUnset,
       Swept, NoWindow, Start, Budgets

(* An address is forgotten only when its windows are over, whatever        *)
(* requests are still to be counted.                                       *)
LEMMA IdleIsOver ==
  ASSUME IInv, NEW r \in pending, NEW b \in Budgets, b[1] \in Idle(r.at)
  PROVE  win[b].resetAt + Delay < now
  <1>1. /\ r.at \in Nat /\ r.at <= now /\ now \in Nat
        /\ lastSeen[b[1]] \in Nat /\ win[b].resetAt \in Nat
    BY LimiterAssumption DEF IInv, TypeOK, Request, Stamps, Time, Start, Budgets
  <1>2. r.at > lastSeen[b[1]] + IdleTTL
    BY DEF Idle
  <1>3. win[b].resetAt <= lastSeen[b[1]] + Delay + Window
    BY DEF IInv, WindowsSeen
  <1> QED
    BY <1>1, <1>2, <1>3, LimiterAssumption

(* A request falls in the same window whether or not idle ones are kept.   *)
LEMMA SameWindow ==
  ASSUME IInv, NEW r \in pending
  PROVE  Current(Kept(r.at)[r.budget], r.at) = Current(Abs[r.budget], r.at)
  <1> DEFINE b == r.budget
  <1>1. b \in Budgets /\ r.at \in Nat /\ now \in Nat /\ now <= r.at + Delay /\ r.at <= now
    BY LimiterAssumption DEF IInv, TypeOK, Request, Stamps, Time, Start
  <1>2. win[b] \in [count : Nat, resetAt : Nat]
    BY <1>1 DEF IInv, TypeOK
  <1>3. CASE b[1] \in Idle(r.at)
    <2>1. Kept(r.at)[b] = NoWindow
      BY <1>1, <1>3 DEF Kept
    <2>2. Abs[b] = NoWindow
      BY <1>1, <1>2, <1>3, IdleIsOver, LimiterAssumption DEF Abs
    <2> QED
      BY <2>1, <2>2
  <1>4. CASE b[1] \notin Idle(r.at)
    <2>1. Kept(r.at)[b] = win[b]
      BY <1>1, <1>4 DEF Kept
    <2>2. CASE r.at < win[b].resetAt
      <3>1. Abs[b] = win[b]
        BY <1>1, <1>2, <2>2, LimiterAssumption DEF Abs
      <3> QED
        BY <2>1, <3>1
    <2>3. CASE ~(r.at < win[b].resetAt)
      <3>1. ~(r.at < Abs[b].resetAt)
        BY <1>1, <2>3 DEF Abs, NoWindow
      <3> QED
        BY <2>1, <2>3, <3>1 DEF Current
    <2> QED
      BY <2>2, <2>3
  <1> QED
    BY <1>3, <1>4

(* The window a request falls in: it holds the request, and it is new      *)
(* unless it was there.                                                    *)
LEMMA CurrentFacts ==
  ASSUME NEW w \in [count : Nat, resetAt : Nat], NEW s \in Nat
  PROVE  /\ Current(w, s) \in [count : Nat, resetAt : Nat]
         /\ s < Current(w, s).resetAt
         /\ Current(w, s) = w \/ (Current(w, s).count = 0 /\ Current(w, s).resetAt = s + Window)
  BY LimiterAssumption DEF Current

-------------------------------------------------------------------------------
(* The three steps keep the invariant.                                     *)
LEMMA TickKeeps == IInv /\ Tick => IInv'
  <1> SUFFICES ASSUME IInv, Tick PROVE IInv'
    OBVIOUS
  <1>1. now \in Nat /\ now' = now + 1 /\ now' \in Time
    BY LimiterAssumption DEF IInv, TypeOK, Tick, Time, Start
  <1>2. TypeOK'
    BY <1>1 DEF IInv, TypeOK, Tick, limiter
  <1>3. Stamps'
    <2> SUFFICES ASSUME NEW r \in pending PROVE r.at <= now + 1 /\ now + 1 <= r.at + Delay
      BY <1>1 DEF Stamps, Tick
    <2>1. r.at \in Nat /\ r.at <= now /\ now < r.at + Delay
      BY LimiterAssumption DEF IInv, TypeOK, Request, Stamps, Time, Start, Tick
    <2> QED
      BY <1>1, <2>1, LimiterAssumption
  <1>4. Clocks'
    <2>1. \A b \in Budgets : win[b].resetAt \in Nat
      BY DEF IInv, TypeOK
    <2> QED
      BY <1>1, <2>1, LimiterAssumption DEF IInv, TypeOK, Clocks, Tick, limiter
  <1>5. WindowsSeen' /\ AbsentUnset' /\ Swept'
    BY DEF IInv, WindowsSeen, AbsentUnset, Swept, Tick, limiter
  <1> QED
    BY <1>2, <1>3, <1>4, <1>5 DEF IInv

(* A request that is stamped now waits its turn.                           *)
LEMMA ArriveKeeps ==
  ASSUME IInv, NEW i \in Ips, NEW p \in Paths, Arrive(i, p)
  PROVE  IInv'
  <1> DEFINE k == IF isMutationPath(p) THEN "mut" ELSE "read"
             new == [id |-> sent, at |-> now, budget |-> <<i, k>>]
  <1>1. now \in Nat /\ now \in Time /\ sent \in Nat
    BY LimiterAssumption DEF IInv, TypeOK, Time, Start
  <1>2. <<i, k>> \in Budgets
    BY DEF Budgets, Kinds
  <1>3. new \in Request /\ new.at = now
    BY <1>1, <1>2 DEF Request
  <1>4. pending' = pending \cup {new} /\ sent' = sent + 1
    BY DEF Arrive
  <1>5. TypeOK'
    BY <1>1, <1>3, <1>4 DEF IInv, TypeOK, Arrive, limiter
  <1>6. Stamps'
    BY <1>1, <1>3, <1>4, LimiterAssumption DEF IInv, Stamps, Arrive
  <1>7. Clocks' /\ WindowsSeen' /\ AbsentUnset' /\ Swept'
    BY DEF IInv, Clocks, WindowsSeen, AbsentUnset, Swept, Arrive, limiter
  <1> QED
    BY <1>5, <1>6, <1>7 DEF IInv

(* A counted request, and the addresses forgotten before it.               *)
LEMMA AllowKeeps ==
  ASSUME IInv, NEW r \in pending, Allow(r)
  PROVE  IInv'
  <1> DEFINE s == r.at
             b == r.budget
             w == Current(Kept(s)[b], s)
  <1>1. /\ s \in Nat /\ now \in Nat /\ s <= now /\ now <= s + Delay
        /\ b \in Budgets /\ b[1] \in Ips /\ r \in Request
    BY LimiterAssumption DEF IInv, TypeOK, Request, Stamps, Time, Start, Budgets
  <1>2. Kept(s) \in [Budgets -> [count : Nat, resetAt : Nat]]
    BY DEF IInv, TypeOK, Kept, NoWindow
  <1>3. /\ w \in [count : Nat, resetAt : Nat]
        /\ w = Kept(s)[b] \/ w.resetAt = s + Window
    BY <1>1, <1>2, CurrentFacts
  <1>4. PICK v \in [count : Nat, resetAt : Nat] :
           v.resetAt = w.resetAt /\ win' = [Kept(s) EXCEPT ![b] = v]
    <2>1. [w EXCEPT !.count = @ + 1] \in [count : Nat, resetAt : Nat]
      BY <1>3
    <2>2. [w EXCEPT !.count = @ + 1].resetAt = w.resetAt
      BY <1>3
    <2> QED
      BY <1>3, <2>1, <2>2 DEF Allow
  <1>5. TypeOK'
    <2>1. win' \in [Budgets -> [count : Nat, resetAt : Nat]]
      BY <1>2, <1>4
    <2>2. lastSeen' \in [Ips -> Nat] /\ lastCleanup' \in Nat /\ clients' \subseteq Ips
      BY <1>1 DEF IInv, TypeOK, Allow
    <2>3. pending' \subseteq Request /\ passed' \subseteq Admitted
      <3>1. [id |-> r.id, at |-> s, budget |-> b, until |-> w.resetAt] \in Admitted
        BY <1>1, <1>3 DEF Request, Admitted
      <3> QED
        BY <1>1, <3>1 DEF IInv, TypeOK, Allow
    <2> QED
      BY <2>1, <2>2, <2>3 DEF IInv, TypeOK, Allow
  <1>6. Stamps'
    BY DEF IInv, Stamps, Allow
  <1>7. Clocks'
    <2>1. lastCleanup' <= now' /\ \A i \in Ips : lastSeen'[i] <= now'
      BY <1>1 DEF IInv, TypeOK, Clocks, Allow
    <2>2. ASSUME NEW c \in Budgets PROVE win'[c].resetAt <= now' + Window
      <3>1. win[c].resetAt \in Nat /\ win[c].resetAt <= now + Window
        BY DEF IInv, TypeOK, Clocks
      <3>2. Kept(s)[c].resetAt = IF c[1] \in Idle(s) THEN 0 ELSE win[c].resetAt
        BY DEF Kept, NoWindow
      <3>3. win'[c].resetAt = Kept(s)[c].resetAt \/ win'[c].resetAt = s + Window
        BY <1>1, <1>2, <1>3, <1>4
      <3>4. now' = now
        BY DEF Allow
      <3> QED
        BY <1>1, <3>1, <3>2, <3>3, <3>4, LimiterAssumption
    <2> QED
      BY <2>1, <2>2 DEF Clocks
  <1>8. WindowsSeen'
    <2> SUFFICES ASSUME NEW c \in Budgets
                 PROVE  win'[c].resetAt <= lastSeen'[c[1]] + Delay + Window
      BY DEF WindowsSeen
    <2>1. /\ c[1] \in Ips /\ win[c].resetAt \in Nat /\ lastSeen[c[1]] \in Nat
          /\ win[c].resetAt <= lastSeen[c[1]] + Delay + Window
          /\ lastSeen[c[1]] <= now /\ win[c].resetAt <= now + Window
      BY DEF IInv, TypeOK, WindowsSeen, Clocks, Budgets
    <2>2. /\ c[1] = b[1] => lastSeen'[c[1]] = s
          /\ c[1] # b[1] /\ c[1] \in Idle(s) => lastSeen'[c[1]] = 0
          /\ c[1] # b[1] /\ c[1] \notin Idle(s) => lastSeen'[c[1]] = lastSeen[c[1]]
      BY <1>1, <2>1 DEF Allow
    <2>3. Kept(s)[c].resetAt = IF c[1] \in Idle(s) THEN 0 ELSE win[c].resetAt
      BY DEF Kept, NoWindow
    <2>4. win'[c].resetAt = Kept(s)[c].resetAt \/ (c = b /\ win'[c].resetAt = s + Window)
      BY <1>1, <1>2, <1>3, <1>4
    <2>5. CASE c = b /\ win'[c].resetAt = s + Window
      BY <1>1, <2>2, <2>5, LimiterAssumption
    <2>6. CASE win'[c].resetAt = Kept(s)[c].resetAt /\ c[1] \in Idle(s)
      BY <1>1, <2>1, <2>2, <2>3, <2>6, LimiterAssumption
    <2>7. CASE win'[c].resetAt = Kept(s)[c].resetAt /\ c[1] \notin Idle(s) /\ c[1] # b[1]
      BY <2>1, <2>2, <2>3, <2>7
    <2>8. CASE win'[c].resetAt = Kept(s)[c].resetAt /\ c[1] \notin Idle(s) /\ c[1] = b[1]
      <3>1. lastSeen'[c[1]] = s /\ win'[c].resetAt = win[c].resetAt
        BY <2>2, <2>3, <2>8
      <3> QED
        BY <1>1, <2>1, <3>1, LimiterAssumption
    <2> QED
      BY <2>4, <2>5, <2>6, <2>7, <2>8
  <1>9. AbsentUnset'
    <2> SUFFICES ASSUME NEW c \in Budgets, c[1] \notin clients'
                 PROVE  win'[c] = NoWindow
      BY DEF AbsentUnset
    <2>1. c # b /\ (c[1] \in Idle(s) \/ c[1] \notin clients)
      BY DEF Allow
    <2>2. win'[c] = Kept(s)[c]
      BY <1>1, <1>2, <1>4, <2>1
    <2> QED
      BY <2>1, <2>2 DEF IInv, AbsentUnset, Kept
  <1>10. Swept'
    <2> SUFFICES ASSUME NEW j \in clients'
                 PROVE  lastCleanup' <= lastSeen'[j] + IdleTTL
      BY DEF Swept
    <2>1. /\ j \in Ips /\ lastSeen[j] \in Nat /\ lastCleanup \in Nat /\ lastCleanup <= now
          /\ j \in clients => lastCleanup <= lastSeen[j] + IdleTTL
          /\ lastCleanup' = IF s > lastCleanup + IdleTTL THEN s ELSE lastCleanup
      BY <1>1 DEF IInv, TypeOK, Clocks, Swept, Allow
    <2>2. CASE j = b[1]
      <3>1. lastSeen'[j] = s
        BY <2>1, <2>2 DEF Allow
      <3> QED
        BY <1>1, <2>1, <3>1, LimiterAssumption
    <2>3. CASE j # b[1]
      <3>1. j \in clients /\ j \notin Idle(s)
        BY <2>3 DEF Allow
      <3>2. lastSeen'[j] = lastSeen[j]
        BY <2>1, <2>3, <3>1 DEF Allow
      <3>3. s > lastCleanup + IdleTTL => ~(s > lastSeen[j] + IdleTTL)
        BY <3>1 DEF Idle
      <3> QED
        BY <1>1, <2>1, <3>1, <3>2, <3>3, LimiterAssumption
    <2> QED
      BY <2>2, <2>3
  <1> QED
    BY <1>5, <1>6, <1>7, <1>8, <1>9, <1>10 DEF IInv

LEMMA NextKeeps == IInv /\ [Next]_vars => IInv'
  <1> SUFFICES ASSUME IInv, [Next]_vars PROVE IInv'
    OBVIOUS
  <1>1. CASE Next
    BY <1>1, TickKeeps, ArriveKeeps, AllowKeeps DEF Next
  <1>2. CASE UNCHANGED vars
    BY <1>2 DEF IInv, TypeOK, Stamps, Clocks, WindowsSeen, AbsentUnset, Swept, vars, limiter
  <1> QED
    BY <1>1, <1>2

LEMMA Invariant == Spec => []IInv
  BY InitHolds, NextKeeps, PTL DEF Spec

(* The variables of the limiter keep their types.                          *)
THEOREM LimiterTypeOK == Spec => []TypeOK
  BY Invariant, PTL DEF IInv

(* A counted request finds no address in the map that was silent for two   *)
(* TTLs: the sweep of allow bounds what the map holds.                     *)
THEOREM LimiterMemoryBounded == Spec => MemoryBounded
  <1>1. ASSUME IInv, NEW r \in pending, Allow(r), NEW i \in clients'
        PROVE  r.at <= lastSeen'[i] + 2 * IdleTTL
    <2>1. /\ lastCleanup' <= lastSeen'[i] + IdleTTL
          /\ i \in Ips /\ lastSeen'[i] \in Nat /\ lastCleanup' \in Nat
      BY <1>1, AllowKeeps DEF IInv, TypeOK, Swept
    <2>2. r.at \in Nat /\ lastCleanup \in Nat
      BY LimiterAssumption, <1>1 DEF IInv, TypeOK, Request, Time, Start
    <2>3. r.at <= lastCleanup' + IdleTTL
      BY <1>1, <2>2, LimiterAssumption DEF Allow
    <2> QED
      BY <2>1, <2>2, <2>3, LimiterAssumption
  <1>2. IInv /\ [Next]_vars => [\A r \in pending : Allow(r) =>
                                  \A i \in clients' : r.at <= lastSeen'[i] + 2 * IdleTTL]_vars
    BY <1>1
  <1> QED
    BY <1>2, Invariant, PTL DEF Spec, MemoryBounded

-------------------------------------------------------------------------------
(* Every step is one of FixedWindow, or none that it sees.                 *)
LEMMA InitMaps == Init => Fixed!Init
  BY LimiterAssumption DEF Init, Fixed!Init, Fixed!NoWindow, NoWindow, Start

(* The clock closes the same windows in both.                              *)
LEMMA TickMaps == IInv /\ Tick => Fixed!Tick
  <1> SUFFICES ASSUME IInv, Tick PROVE Fixed!Tick
    OBVIOUS
  <1>1. now \in Nat /\ now' = now + 1 /\ win' = win
    BY LimiterAssumption DEF IInv, TypeOK, Tick, Time, Start, limiter
  <1>2. ASSUME NEW b \in Budgets
        PROVE  (IF now' < win'[b].resetAt + Delay THEN win'[b] ELSE NoWindow)
                 = Fixed!Live(Abs[b], now + 1)
    <2>1. win[b].resetAt \in Nat
      BY DEF IInv, TypeOK
    <2> QED
      BY <1>1, <2>1, LimiterAssumption DEF Fixed!Live, Fixed!NoWindow, NoWindow, Abs
  <1> QED
    BY <1>1, <1>2 DEF Fixed!Tick, Abs

(* A counted request is admitted by both or by neither.                    *)
LEMMA AllowMaps ==
  ASSUME IInv, NEW r \in pending, Allow(r)
  PROVE  Fixed!Admit(r.budget, r.at) \/ UNCHANGED Fixed!wvars
  <1> DEFINE s == r.at
             b == r.budget
             w == Current(Kept(s)[b], s)
             Then(c) == IF now < win'[c].resetAt + Delay THEN win'[c] ELSE NoWindow
  <1>1. /\ s \in Nat /\ now \in Nat /\ s <= now /\ now <= s + Delay
        /\ b \in Budgets /\ now' = now
    BY LimiterAssumption DEF IInv, TypeOK, Request, Stamps, Time, Start, Allow
  <1>2. Kept(s) \in [Budgets -> [count : Nat, resetAt : Nat]]
    BY DEF IInv, TypeOK, Kept, NoWindow
  <1>3. /\ w \in [count : Nat, resetAt : Nat] /\ s < w.resetAt
        /\ w = Kept(s)[b] \/ w.count = 0
    BY <1>1, <1>2, CurrentFacts
  <1>4. w = Fixed!Current(Abs[b], s)
    BY SameWindow DEF Fixed!Current, Current
  <1>5. Limit[b] \in Nat \ {0}
    BY <1>1, LimiterAssumption DEF Limit
  <1>6. ASSUME NEW c \in Budgets, win'[c] = Kept(s)[c]
        PROVE  Then(c) = Abs[c]
    <2>1. win[c].resetAt \in Nat
      BY DEF IInv, TypeOK
    <2>2. CASE c[1] \in Idle(s)
      <3>1. Abs[c] = NoWindow
        BY <1>1, <2>1, <2>2, IdleIsOver, LimiterAssumption DEF Abs
      <3>2. win'[c] = NoWindow
        BY <1>6, <2>2 DEF Kept
      <3> QED
        BY <3>1, <3>2
    <2>3. CASE c[1] \notin Idle(s)
      BY <1>6, <2>3 DEF Kept, Abs
    <2> QED
      BY <2>2, <2>3
  <1>7. CASE w.count < Limit[b]
    <2>1. win' = [Kept(s) EXCEPT ![b] = [w EXCEPT !.count = @ + 1]]
      BY <1>7 DEF Allow
    <2>2. win'[b] = [w EXCEPT !.count = @ + 1] /\ win'[b].resetAt = w.resetAt
      BY <1>1, <1>2, <1>3, <2>1
    <2>3. Then(b) = [w EXCEPT !.count = @ + 1]
      BY <1>1, <1>3, <2>2, LimiterAssumption
    <2>4. ASSUME NEW c \in Budgets, c # b PROVE Then(c) = Abs[c]
      <3>1. win'[c] = Kept(s)[c]
        BY <1>2, <2>1, <2>4
      <3> QED
        BY <1>6, <3>1
    <2>5. [c \in Budgets |-> Then(c)]
            = [Abs EXCEPT ![b] = [Fixed!Current(Abs[b], s) EXCEPT !.count = @ + 1]]
      BY <1>1, <1>4, <2>3, <2>4 DEF Abs
    <2>6. Fixed!Current(Abs[b], s).count < Limit[b]
      BY <1>4, <1>7
    <2> QED
      BY <1>1, <2>5, <2>6 DEF Fixed!Admit, Abs
  <1>8. CASE ~(w.count < Limit[b])
    <2>1. w = Kept(s)[b]
      BY <1>3, <1>5, <1>8
    <2>2. win' = [Kept(s) EXCEPT ![b] = w]
      BY <1>8 DEF Allow
    <2>3. ASSUME NEW c \in Budgets PROVE win'[c] = Kept(s)[c]
      BY <1>1, <1>2, <2>1, <2>2
    <2>4. ASSUME NEW c \in Budgets PROVE Then(c) = Abs[c]
      BY <1>6, <2>3
    <2> QED
      BY <1>1, <2>4 DEF Fixed!wvars, Abs
  <1> QED
    BY <1>7, <1>8

(* The limiter keeps the budgets of fixed windows, for ever: neither its   *)
(* cleanup nor a request that waited for the mutex loses a window.         *)
THEOREM LimiterImplements == Spec => Implements
  <1>1. IInv /\ [Next]_vars => [Fixed!Next]_(Fixed!wvars)
    <2> SUFFICES ASSUME IInv, [Next]_vars PROVE [Fixed!Next]_(Fixed!wvars)
      OBVIOUS
    <2>1. CASE Tick
      BY <2>1, TickMaps DEF Fixed!Next
    <2>2. ASSUME NEW i \in Ips, NEW p \in Paths, Arrive(i, p)
          PROVE  UNCHANGED Fixed!wvars
      BY <2>2 DEF Arrive, limiter, Fixed!wvars
    <2>3. ASSUME NEW r \in pending, Allow(r)
          PROVE  [Fixed!Next]_(Fixed!wvars)
      <3>1. r.budget \in Budgets /\ r.at \in 0 .. now
        BY LimiterAssumption DEF IInv, TypeOK, Request, Stamps, Time, Start
      <3> QED
        BY <2>3, <3>1, AllowMaps DEF Fixed!Next
    <2>4. CASE UNCHANGED vars
      BY <2>4 DEF vars, limiter, Fixed!wvars
    <2> QED
      BY <2>1, <2>2, <2>3, <2>4 DEF Next
  <1> QED
    BY <1>1, InitMaps, Invariant, PTL DEF Spec, Implements, Fixed!Spec

-------------------------------------------------------------------------------
(* At most two limits.  The admitted requests of a budget that fell in the *)
(* window that ends at u, and those stamped after the one that opened it.  *)
In(b, u)    == {q \in passed : q.budget = b /\ q.until = u}
Later(b, u) == {q \in In(b, u) : q.at # u - Window}

(* A request may be stamped before its window opened, by less than Delay.  *)
Stamped == \A q \in passed : q.at < q.until /\ q.until <= q.at + Window + Delay

(* Two windows of a budget are a window apart, and an earlier one than the *)
(* current too; when the current is forgotten, no request can reach it.    *)
Apart ==
  \A p, q \in passed : p.budget = q.budget =>
    p.until = q.until \/ p.until + Window <= q.until \/ q.until + Window <= p.until

Behind ==
  \A q \in passed :
    \/ q.until = win[q.budget].resetAt
    \/ q.until + Window <= win[q.budget].resetAt
    \/ win[q.budget] = NoWindow /\ q.until + Delay < now

(* The count of a window is no less than what it admitted, and greater     *)
(* than what it admitted after the request that opened it.                 *)
Counted ==
  \A b \in Budgets :
    LET w == win[b]
    IN  /\ w.count <= Limit[b]
        /\ Cardinality(In(b, w.resetAt)) <= w.count
        /\ w = NoWindow \/ Cardinality(Later(b, w.resetAt)) < w.count

Full ==
  \A b \in Budgets, u \in Nat :
    Cardinality(In(b, u)) <= Limit[b] /\ Cardinality(Later(b, u)) < Limit[b]

LInv == IsFiniteSet(passed) /\ Stamped /\ Apart /\ Behind /\ Counted /\ Full

(* A part of a finite set, and one element more.                           *)
LEMMA Fewer ==
  ASSUME NEW S, IsFiniteSet(S), NEW T, T \subseteq S
  PROVE  /\ IsFiniteSet(T) /\ Cardinality(T) \in Nat /\ Cardinality(S) \in Nat
         /\ Cardinality(T) <= Cardinality(S)
  BY FS_Subset, FS_CardinalityType

LEMMA OneMore ==
  ASSUME NEW S, IsFiniteSet(S), NEW x
  PROVE  /\ IsFiniteSet(S \cup {x}) /\ Cardinality(S \cup {x}) \in Nat
         /\ Cardinality(S \cup {x}) <= Cardinality(S) + 1
  <1>1. IsFiniteSet(S \cup {x})
    BY FS_AddElement
  <1>2. Cardinality(S) \in Nat /\ Cardinality(S \cup {x}) \in Nat
    BY <1>1, FS_CardinalityType
  <1>3. Cardinality(S \cup {x}) = IF x \in S THEN Cardinality(S) ELSE Cardinality(S) + 1
    BY FS_AddElement
  <1> QED
    BY <1>1, <1>2, <1>3

(* What leaves the history lowers the counts.                              *)
LEMMA TickKeepsLimits ==
  ASSUME IInv, LInv, Tick
  PROVE  LInv'
  <1>1. /\ passed' \subseteq passed /\ win' = win /\ now' = now + 1 /\ now \in Nat
        /\ \A q \in passed : q.until \in Nat
    BY LimiterAssumption DEF Tick, limiter, IInv, TypeOK, Admitted, Time, Start
  <1>2. \A b, u : /\ In(b, u)' \subseteq In(b, u) /\ Later(b, u)' \subseteq Later(b, u)
                  /\ In(b, u) \subseteq passed /\ Later(b, u) \subseteq passed
    BY <1>1 DEF In, Later
  <1>3. IsFiniteSet(passed)'
    BY <1>1, FS_Subset DEF LInv
  <1>4. Stamped' /\ Apart'
    BY <1>1 DEF LInv, Stamped, Apart
  <1>5. Behind'
    BY <1>1, LimiterAssumption DEF LInv, Behind
  <1>6. \A b, u : /\ Cardinality(In(b, u)) \in Nat /\ Cardinality(Later(b, u)) \in Nat
                  /\ Cardinality(In(b, u)') \in Nat /\ Cardinality(Later(b, u)') \in Nat
                  /\ Cardinality(In(b, u)') <= Cardinality(In(b, u))
                  /\ Cardinality(Later(b, u)') <= Cardinality(Later(b, u))
    BY <1>2, Fewer DEF LInv
  <1>7. Limit \in [Budgets -> Nat]
    BY LimiterAssumption DEF Limit
  <1>8. Counted'
    BY <1>1, <1>6, <1>7 DEF LInv, Counted, IInv, TypeOK
  <1>9. Full'
    BY <1>6, <1>7 DEF LInv, Full
  <1> QED
    BY <1>3, <1>4, <1>5, <1>8, <1>9 DEF LInv

(* The request, counted in the window that ends at u.                      *)
Counting(r, u) == [id |-> r.id, at |-> r.at, budget |-> r.budget, until |-> u]

(* What counting a request may do to its own window: it is refused, it     *)
(* joins the window there is, or it opens one after that.                  *)
Refuses(r) == passed' = passed /\ win'[r.budget] = win[r.budget]

Joins(r) ==
  /\ r.at < win[r.budget].resetAt /\ win[r.budget].count < Limit[r.budget]
  /\ win'[r.budget].count = win[r.budget].count + 1
  /\ win'[r.budget].resetAt = win[r.budget].resetAt
  /\ passed' = passed \cup {Counting(r, win[r.budget].resetAt)}

Opens(r) ==
  /\ win[r.budget].resetAt <= r.at
  /\ win'[r.budget].count = 1 /\ win'[r.budget].resetAt = r.at + Window
  /\ passed' = passed \cup {Counting(r, r.at + Window)}

(* What it may do to another window: forget it when it is over.            *)
Forgets(c) == win'[c] = NoWindow /\ win[c].resetAt + Delay < now

(* The cases are all.                                                      *)
LEMMA AllowCases ==
  ASSUME IInv, NEW r \in pending, Allow(r)
  PROVE  /\ Refuses(r) \/ Joins(r) \/ Opens(r)
         /\ \A c \in Budgets \ {r.budget} : win'[c] = win[c] \/ Forgets(c)
  <1> DEFINE s == r.at
             b == r.budget
             w == Current(Kept(s)[b], s)
  <1>1. /\ s \in Nat /\ now \in Nat /\ s <= now /\ now <= s + Delay
        /\ b \in Budgets /\ win[b] \in [count : Nat, resetAt : Nat]
    BY LimiterAssumption DEF IInv, TypeOK, Request, Stamps, Time, Start
  <1>2. Kept(s) \in [Budgets -> [count : Nat, resetAt : Nat]]
    BY DEF IInv, TypeOK, Kept, NoWindow
  <1>3. /\ w \in [count : Nat, resetAt : Nat] /\ Limit[b] \in Nat \ {0}
    BY <1>1, <1>2, CurrentFacts, LimiterAssumption DEF Limit
  <1>4. \A c \in Budgets : \/ c[1] \notin Idle(s) /\ Kept(s)[c] = win[c]
                           \/ Kept(s)[c] = NoWindow /\ win[c].resetAt + Delay < now
    BY IdleIsOver DEF Kept
  <1>5. \A c \in Budgets \ {b} : win'[c] = Kept(s)[c]
    BY <1>2 DEF Allow
  <1>6. Refuses(r) \/ Joins(r) \/ Opens(r)
    <2>1. CASE w.count < Limit[b]
      <3>1. win' = [Kept(s) EXCEPT ![b] = [w EXCEPT !.count = @ + 1]]
        BY <2>1 DEF Allow
      <3>2. win'[b].count = w.count + 1 /\ win'[b].resetAt = w.resetAt
        BY <1>1, <1>2, <1>3, <3>1
      <3>3. passed' = passed \cup {Counting(r, w.resetAt)}
        BY <2>1 DEF Allow, Counting
      <3>4. CASE s < Kept(s)[b].resetAt
        <4>1. w = Kept(s)[b] /\ Kept(s)[b] = win[b]
          BY <1>1, <1>4, <3>4 DEF Current, NoWindow
        <4> QED
          BY <2>1, <3>2, <3>3, <3>4, <4>1 DEF Joins
      <3>5. CASE ~(s < Kept(s)[b].resetAt)
        <4>1. w = [count |-> 0, resetAt |-> s + Window]
          BY <3>5 DEF Current
        <4>2. win[b].resetAt <= s
          BY <1>1, <1>4, <3>5, LimiterAssumption
        <4> QED
          BY <3>2, <3>3, <4>1, <4>2 DEF Opens
      <3> QED
        BY <3>4, <3>5
    <2>2. CASE ~(w.count < Limit[b])
      <3>1. w.count # 0
        BY <1>3, <2>2
      <3>2. w = Kept(s)[b]
        BY <3>1 DEF Current
      <3>3. Kept(s)[b] = win[b]
        BY <1>1, <1>4, <3>1, <3>2 DEF NoWindow
      <3>4. passed' = passed /\ win' = [Kept(s) EXCEPT ![b] = w]
        BY <2>2 DEF Allow
      <3> QED
        BY <1>1, <1>2, <3>2, <3>3, <3>4 DEF Refuses
    <2> QED
      BY <2>1, <2>2
  <1> QED
    BY <1>4, <1>5, <1>6 DEF Forgets

(* The request that opens a window is stamped after every other is over.   *)
LEMMA OpensAfter ==
  ASSUME IInv, LInv, NEW r \in pending, Opens(r),
         NEW q \in passed, q.budget = r.budget
  PROVE  q.until <= r.at
  <1>1. /\ r.at \in Nat /\ now \in Nat /\ now <= r.at + Delay /\ q.until \in Nat
        /\ r.budget \in Budgets /\ win[r.budget].resetAt \in Nat
    BY LimiterAssumption DEF IInv, TypeOK, Request, Admitted, Stamps, Time, Start
  <1>2. win[r.budget].resetAt <= r.at
    BY DEF Opens
  <1>3. \/ q.until = win[r.budget].resetAt \/ q.until + Window <= win[r.budget].resetAt
        \/ q.until + Delay < now
    BY DEF LInv, Behind
  <1> QED
    BY <1>1, <1>2, <1>3, LimiterAssumption

(* What joining or opening a window adds to what was admitted.             *)
LEMMA CountingIn ==
  ASSUME NEW r, NEW u, passed' = passed \cup {Counting(r, u)}
  PROVE  /\ In(r.budget, u)' = In(r.budget, u) \cup {Counting(r, u)}
         /\ \/ Later(r.budget, u)' = Later(r.budget, u) /\ r.at = u - Window
            \/ Later(r.budget, u)' = Later(r.budget, u) \cup {Counting(r, u)}
         /\ \A c, v : c # r.budget \/ v # u =>
              In(c, v)' = In(c, v) /\ Later(c, v)' = Later(c, v)
  <1> DEFINE new == Counting(r, u)
  <1>1. new.budget = r.budget /\ new.until = u /\ new.at = r.at
    BY DEF Counting
  <1>2. \A c, v : In(c, v)' = {q \in passed \cup {new} : q.budget = c /\ q.until = v}
    BY DEF In
  <1>3. \A c, v : Later(c, v)' = {q \in In(c, v)' : q.at # v - Window}
    BY DEF Later
  <1> HIDE DEF new
  <1>4. In(r.budget, u)' = In(r.budget, u) \cup {new}
    BY <1>1, <1>2 DEF In
  <1>5. \A c, v : c # r.budget \/ v # u => In(c, v)' = In(c, v)
    BY <1>1, <1>2 DEF In
  <1>6. CASE r.at = u - Window
    BY <1>1, <1>3, <1>4, <1>5, <1>6 DEF Later, new
  <1>7. CASE r.at # u - Window
    BY <1>1, <1>3, <1>4, <1>5, <1>7 DEF Later, new
  <1> QED
    BY <1>6, <1>7

(* A counted request falls in a window no other overlaps.                  *)
LEMMA AllowKeepsBehind ==
  ASSUME IInv, LInv, NEW r \in pending, Allow(r)
  PROVE  Stamped' /\ Apart' /\ Behind'
  <1> DEFINE s == r.at
             b == r.budget
  <1>1. /\ s \in Nat /\ now \in Nat /\ s <= now /\ now <= s + Delay
        /\ b \in Budgets /\ now' = now
    BY LimiterAssumption DEF IInv, TypeOK, Request, Stamps, Time, Start, Allow
  <1>2. \A c \in Budgets : win[c].resetAt \in Nat /\ win[c].resetAt <= now + Window
    BY DEF IInv, TypeOK, Clocks
  <1>3. \A q \in passed : q.at \in Nat /\ q.until \in Nat /\ q.budget \in Budgets
    BY LimiterAssumption DEF IInv, TypeOK, Admitted, Time, Start
  <1>4. \A q \in passed : q.budget # b =>
          \/ q.until = win'[q.budget].resetAt
          \/ q.until + Window <= win'[q.budget].resetAt
          \/ win'[q.budget] = NoWindow /\ q.until + Delay < now'
    <2> SUFFICES ASSUME NEW q \in passed, q.budget # b
                 PROVE  \/ q.until = win'[q.budget].resetAt
                        \/ q.until + Window <= win'[q.budget].resetAt
                        \/ win'[q.budget] = NoWindow /\ q.until + Delay < now
      BY <1>1
    <2>1. win'[q.budget] = win[q.budget] \/ Forgets(q.budget)
      BY <1>3, AllowCases
    <2>2. \/ q.until = win[q.budget].resetAt
          \/ q.until + Window <= win[q.budget].resetAt
          \/ win[q.budget] = NoWindow /\ q.until + Delay < now
      BY DEF LInv, Behind
    <2> QED
      BY <1>1, <1>2, <1>3, <2>1, <2>2, LimiterAssumption DEF Forgets
  <1>5. CASE Refuses(r)
    <2>1. Stamped' /\ Apart'
      BY <1>5 DEF Refuses, LInv, Stamped, Apart
    <2>2. \A q \in passed : q.budget = b =>
            \/ q.until = win'[b].resetAt
            \/ q.until + Window <= win'[b].resetAt
            \/ win'[b] = NoWindow /\ q.until + Delay < now'
      BY <1>1, <1>5 DEF Refuses, LInv, Behind
    <2> QED
      BY <1>4, <1>5, <2>1, <2>2 DEF Refuses, Behind
  <1>6. ASSUME NEW u \in Nat, passed' = passed \cup {Counting(r, u)},
               u = win'[b].resetAt, s < u, u <= s + Window + Delay,
               \A q \in passed : q.budget = b => q.until = u \/ q.until + Window <= u
        PROVE  Stamped' /\ Apart' /\ Behind'
    <2> DEFINE new == Counting(r, u)
    <2>1. new.at = s /\ new.budget = b /\ new.until = u
      BY DEF Counting
    <2> HIDE DEF new
    <2>2. passed' = passed \cup {new}
      BY <1>6 DEF new
    <2>3. Stamped'
      BY <1>6, <2>1, <2>2 DEF LInv, Stamped
    <2>4. Apart'
      BY <1>6, <2>1, <2>2 DEF LInv, Apart
    <2>5. Behind'
      BY <1>4, <1>6, <2>1, <2>2 DEF Behind
    <2> QED
      BY <2>3, <2>4, <2>5
  <1>7. CASE Joins(r)
    <2>1. \A q \in passed : q.budget = b =>
            q.until = win[b].resetAt \/ q.until + Window <= win[b].resetAt
      BY <1>1, <1>7 DEF Joins, LInv, Behind, NoWindow
    <2> QED
      BY <1>1, <1>2, <1>6, <1>7, <2>1, LimiterAssumption DEF Joins
  <1>8. CASE Opens(r)
    <2>1. \A q \in passed : q.budget = b => q.until + Window <= s + Window
      BY <1>1, <1>3, <1>8, OpensAfter, LimiterAssumption
    <2>2. s + Window \in Nat /\ s < s + Window /\ s + Window <= s + Window + Delay
      BY <1>1, LimiterAssumption
    <2> QED
      BY <1>6, <1>8, <2>1, <2>2 DEF Opens
  <1> QED
    BY <1>5, <1>7, <1>8, AllowCases

(* A forgotten window has admitted nothing that is in the history.         *)
LEMMA NoneAtZero ==
  ASSUME IInv, Stamped, NEW b
  PROVE  In(b, 0) = {} /\ Later(b, 0) = {}
  <1>1. \A q \in passed : q.at \in Nat /\ q.at < q.until
    BY LimiterAssumption DEF IInv, TypeOK, Admitted, Time, Start, Stamped
  <1> QED
    BY <1>1 DEF In, Later

(* It is counted in its window, and the one that opened it stays apart.    *)
LEMMA AllowKeepsCounts ==
  ASSUME IInv, LInv, NEW r \in pending, Allow(r)
  PROVE  IsFiniteSet(passed)' /\ Counted' /\ Full'
  <1> DEFINE s == r.at
             b == r.budget
             N(c, u) == Cardinality(In(c, u))
             M(c, u) == Cardinality(Later(c, u))
  <1>1. /\ s \in Nat /\ b \in Budgets /\ IInv' /\ Stamped'
        /\ Limit \in [Budgets -> Nat \ {0}]
    BY LimiterAssumption, AllowKeeps, AllowKeepsBehind
       DEF IInv, TypeOK, Request, Time, Start, Limit
  <1>2. /\ win \in [Budgets -> [count : Nat, resetAt : Nat]]
        /\ win' \in [Budgets -> [count : Nat, resetAt : Nat]]
    BY <1>1 DEF IInv, TypeOK
  <1>3. \A c, u : /\ IsFiniteSet(In(c, u)) /\ IsFiniteSet(Later(c, u))
                  /\ N(c, u) \in Nat /\ M(c, u) \in Nat
    <2>1. \A c, u : In(c, u) \subseteq passed /\ Later(c, u) \subseteq passed
      BY DEF In, Later
    <2> QED
      BY <2>1, Fewer DEF LInv
  <1>4. ASSUME NEW u \in Nat, passed' = passed \cup {Counting(r, u)},
               u = win'[b].resetAt, win'[b].count <= Limit[b],
               N(b, u)' <= win'[b].count, M(b, u)' < win'[b].count
        PROVE  IsFiniteSet(passed)' /\ Counted' /\ Full'
    <2>1. IsFiniteSet(passed)'
      BY <1>4, OneMore DEF LInv
    <2>2. \A c, v : c # b \/ v # u => N(c, v)' = N(c, v) /\ M(c, v)' = M(c, v)
      BY <1>4, CountingIn
    <2>3. ASSUME NEW c \in Budgets, c # b
          PROVE  /\ win'[c].count <= Limit[c]
                 /\ N(c, win[c].resetAt)' <= win'[c].count
                 /\ win'[c] = NoWindow \/ M(c, win[c].resetAt)' < win'[c].count
      <3>1. CASE win'[c] = win[c]
        BY <2>2, <2>3, <3>1 DEF LInv, Counted
      <3>2. CASE win'[c] = NoWindow
        <4>1. N(c, 0)' = 0
          BY <1>1, NoneAtZero, FS_EmptySet, <2>2, <2>3 DEF LInv
        <4> QED
          BY <1>1, <2>3, <3>2, <4>1 DEF NoWindow
      <3> QED
        BY <2>3, <3>1, <3>2, AllowCases DEF Forgets
    <2>4. Counted'
      BY <1>4, <2>3 DEF Counted
    <2>5. ASSUME NEW c \in Budgets, NEW v \in Nat
          PROVE  N(c, v)' <= Limit[c] /\ M(c, v)' < Limit[c]
      <3>1. CASE c = b /\ v = u
        <4>1. N(b, u)' \in Nat /\ M(b, u)' \in Nat
          <5>1. In(b, u)' \subseteq passed' /\ Later(b, u)' \subseteq passed'
            BY DEF In, Later
          <5> QED
            BY <2>1, <5>1, Fewer
        <4> QED
          BY <1>1, <1>2, <1>4, <3>1, <4>1
      <3>2. CASE c # b \/ v # u
        BY <2>2, <2>5, <3>2 DEF LInv, Full
      <3> QED
        BY <3>1, <3>2
    <2>6. Full'
      BY <2>5 DEF Full
    <2> QED
      BY <2>1, <2>4, <2>6
  <1>5. CASE Refuses(r)
    <2>1. passed' = passed /\ win'[b] = win[b]
      BY <1>5 DEF Refuses
    <2>2. \A c, v : N(c, v)' = N(c, v) /\ M(c, v)' = M(c, v)
      BY <2>1 DEF In, Later
    <2>3. ASSUME NEW c \in Budgets
          PROVE  /\ win'[c].count <= Limit[c]
                 /\ N(c, win[c].resetAt)' <= win'[c].count
                 /\ win'[c] = NoWindow \/ M(c, win[c].resetAt)' < win'[c].count
      <3>1. CASE win'[c] = win[c]
        BY <2>2, <2>3, <3>1 DEF LInv, Counted
      <3>2. CASE win'[c] = NoWindow
        <4>1. N(c, 0) = 0
          BY NoneAtZero, FS_EmptySet DEF LInv
        <4> QED
          BY <1>1, <2>2, <2>3, <3>2, <4>1 DEF NoWindow
      <3> QED
        BY <2>1, <2>3, <3>1, <3>2, AllowCases DEF Forgets
    <2> QED
      BY <2>1, <2>2, <2>3 DEF LInv, Counted, Full
  <1>6. CASE Joins(r)
    <2>0. PICK u \in Nat : u = win[b].resetAt
      BY <1>1, <1>2
    <2> DEFINE new == Counting(r, u)
    <2>1. /\ u \in Nat /\ s < u /\ passed' = passed \cup {new} /\ u = win'[b].resetAt
          /\ win'[b].count = win[b].count + 1 /\ win[b].count < Limit[b]
      BY <1>1, <1>2, <1>6, <2>0 DEF Joins
    <2>2. N(b, u) <= win[b].count /\ M(b, u) < win[b].count
      <3>1. win[b].resetAt # 0 /\ NoWindow.resetAt = 0
        BY <1>1, <2>0, <2>1 DEF NoWindow
      <3>2. win[b] # NoWindow
        BY <3>1
      <3> QED
        BY <1>1, <2>0, <3>2 DEF LInv, Counted
    <2>3. /\ In(b, u)' = In(b, u) \cup {new}
          /\ Later(b, u)' = Later(b, u) \/ Later(b, u)' = Later(b, u) \cup {new}
      BY <2>1, CountingIn
    <2> HIDE DEF new
    <2>4. N(b, u)' <= N(b, u) + 1 /\ N(b, u)' \in Nat
      BY <1>3, <2>3, OneMore
    <2>5. M(b, u)' <= M(b, u) + 1 /\ M(b, u)' \in Nat
      <3>1. CASE Later(b, u)' = Later(b, u)
        BY <1>3, <3>1
      <3>2. CASE Later(b, u)' = Later(b, u) \cup {new}
        BY <1>3, <3>2, OneMore
      <3> QED
        BY <2>3, <3>1, <3>2
    <2>6. /\ win'[b].count <= Limit[b] /\ N(b, u)' <= win'[b].count
          /\ M(b, u)' < win'[b].count
      BY <1>1, <1>2, <1>3, <2>1, <2>2, <2>4, <2>5
    <2> QED
      BY <1>4, <2>1, <2>6 DEF new
  <1>7. CASE Opens(r)
    <2>0. PICK u \in Nat : u = s + Window
      BY <1>1, LimiterAssumption
    <2> DEFINE new == Counting(r, u)
    <2>1. /\ s < u /\ passed' = passed \cup {new} /\ u = win'[b].resetAt
          /\ win'[b].count = 1 /\ s = u - Window
      BY <1>1, <1>7, <2>0, LimiterAssumption DEF Opens
    <2>2. In(b, u) = {} /\ Later(b, u) = {}
      <3>1. \A q \in passed : q.until \in Nat
        BY DEF IInv, TypeOK, Admitted
      <3> QED
        BY <1>1, <1>7, <2>1, <3>1, OpensAfter DEF In, Later
    <2>3. In(b, u)' = In(b, u) \cup {new}
      BY <2>1, CountingIn
    <2>4. Later(b, u)' = {}
      BY <2>1, <2>2, <2>3 DEF Later, Counting
    <2>5. In(b, u)' = {new}
      BY <2>2, <2>3
    <2>6. Cardinality({new}) = 1 /\ Cardinality({}) = 0
      BY FS_EmptySet, FS_Singleton
    <2>7. /\ win'[b].count <= Limit[b] /\ N(b, u)' <= win'[b].count
          /\ M(b, u)' < win'[b].count
      BY <1>1, <2>1, <2>4, <2>5, <2>6
    <2> QED
      BY <1>4, <2>1, <2>7
  <1> QED
    BY <1>5, <1>6, <1>7, AllowCases

LEMMA AllowKeepsLimits ==
  ASSUME IInv, LInv, NEW r \in pending, Allow(r)
  PROVE  LInv'
  BY AllowKeepsBehind, AllowKeepsCounts DEF LInv

(* Nothing is admitted before the first request.                           *)
LEMMA InitLimits == Init => LInv
  <1> SUFFICES ASSUME Init PROVE LInv
    OBVIOUS
  <1>1. passed = {} /\ \A b, u : In(b, u) = {} /\ Later(b, u) = {}
    BY DEF Init, In, Later
  <1>2. IsFiniteSet(passed) /\ \A b, u : /\ Cardinality(In(b, u)) = 0
                                        /\ Cardinality(Later(b, u)) = 0
    BY <1>1, FS_EmptySet
  <1>3. Stamped /\ Apart /\ Behind
    BY <1>1 DEF Stamped, Apart, Behind
  <1>4. Limit \in [Budgets -> Nat \ {0}] /\ \A b \in Budgets : win[b] = NoWindow
    BY LimiterAssumption DEF Limit, Init
  <1>5. Counted /\ Full
    BY <1>2, <1>4 DEF Counted, Full, NoWindow
  <1> QED
    BY <1>2, <1>3, <1>5 DEF LInv

(* Only the clock and a counted request touch the windows or the history.  *)
LEMMA NextKeepsLimits == IInv /\ LInv /\ [Next]_vars => LInv'
  <1> SUFFICES ASSUME IInv, LInv, [Next]_vars PROVE LInv'
    OBVIOUS
  <1>1. ASSUME UNCHANGED <<now, limiter, passed>> PROVE LInv'
    <2>1. \A b, u : In(b, u)' = In(b, u) /\ Later(b, u)' = Later(b, u)
      BY <1>1 DEF In, Later
    <2>2. Stamped' /\ Apart' /\ Behind'
      BY <1>1 DEF LInv, Stamped, Apart, Behind, limiter
    <2>3. Counted' /\ Full'
      BY <1>1, <2>1 DEF LInv, Counted, Full, limiter
    <2> QED
      BY <1>1, <2>2, <2>3 DEF LInv
  <1>2. ASSUME NEW i \in Ips, NEW p \in Paths, Arrive(i, p) PROVE LInv'
    BY <1>1, <1>2 DEF Arrive
  <1>3. CASE UNCHANGED vars
    BY <1>1, <1>3 DEF vars
  <1> QED
    BY <1>2, <1>3, TickKeepsLimits, AllowKeepsLimits DEF Next

LEMMA LimitsInvariant == Spec => [](IInv /\ LInv)
  BY Invariant, InitLimits, NextKeepsLimits, PTL DEF Spec

(* In less than a window, admitted requests fall in two windows at most,   *)
(* and not both were opened meanwhile.                                     *)
LEMMA TwoLimits == IInv /\ LInv => AtMostTwoLimits
  <1> SUFFICES ASSUME IInv, LInv, NEW r \in passed
               PROVE  Cardinality({q \in passed : /\ q.budget = r.budget
                                                  /\ r.at <= q.at
                                                  /\ q.at + Delay < r.at + Window})
                        < 2 * Limit[r.budget]
    BY DEF AtMostTwoLimits
  <1> DEFINE b == r.budget
             W == {q \in passed : /\ q.budget = b /\ r.at <= q.at
                                  /\ q.at + Delay < r.at + Window}
  <1>1. /\ \A q \in passed : q.at \in Nat /\ q.until \in Nat /\ q.budget \in Budgets
        /\ Window \in Nat \ {0} /\ Delay \in Nat /\ Limit[b] \in Nat \ {0}
    BY LimiterAssumption DEF IInv, TypeOK, Admitted, Time, Start, Limit
  <1>2. \A q \in W : r.at < q.until /\ q.until < r.at + 2 * Window
    BY <1>1 DEF LInv, Stamped
  <1>3. \A p, q \in W : \/ p.until = q.until
                        \/ p.until + Window <= q.until
                        \/ q.until + Window <= p.until
    BY DEF LInv, Apart
  <1>4. \A u \in Nat : /\ Cardinality(In(b, u)) <= Limit[b]
                        /\ Cardinality(Later(b, u)) < Limit[b]
                        /\ IsFiniteSet(In(b, u)) /\ IsFiniteSet(Later(b, u))
                        /\ Cardinality(In(b, u)) \in Nat
                        /\ Cardinality(Later(b, u)) \in Nat
    <2>1. \A u : In(b, u) \subseteq passed /\ Later(b, u) \subseteq passed
      BY DEF In, Later
    <2> QED
      BY <1>1, <2>1, Fewer DEF LInv, Full
  <1>5. CASE \A p, q \in W : p.until = q.until
    <2>1. PICK u \in Nat : W \subseteq In(b, u)
      <3>1. CASE W = {}
        BY <3>1
      <3>2. CASE W # {}
        <4>1. PICK p \in W : TRUE
          BY <3>2
        <4> QED
          BY <1>1, <1>5, <4>1 DEF In
      <3> QED
        BY <3>1, <3>2
    <2>2. Cardinality(W) <= Cardinality(In(b, u)) /\ Cardinality(W) \in Nat
      BY <1>4, <2>1, Fewer
    <2> QED
      BY <1>1, <1>4, <2>2
  <1>6. CASE \E p, q \in W : p.until # q.until
    <2>1. PICK p, q \in W : p.until + Window <= q.until
      BY <1>3, <1>6
    <2>2. p.until \in Nat /\ q.until \in Nat
      BY <1>1
    <2>3. ASSUME NEW x \in W PROVE x \in Later(b, p.until) \/ x \in In(b, q.until)
      <3>1. x.until = p.until \/ x.until = q.until
        BY <1>1, <1>2, <1>3, <2>1
      <3>2. x.until = p.until => x.at # p.until - Window
        BY <1>1, <1>2, <2>1
      <3> QED
        BY <3>1, <3>2 DEF In, Later
    <2> DEFINE U == Later(b, p.until) \cup In(b, q.until)
    <2>4. /\ IsFiniteSet(U)
          /\ Cardinality(U) <= Cardinality(Later(b, p.until)) + Cardinality(In(b, q.until))
      <3>1. IsFiniteSet(Later(b, p.until) \cap In(b, q.until))
        BY <1>4, <2>2, FS_Intersection
      <3>2. Cardinality(Later(b, p.until) \cap In(b, q.until)) \in Nat
        BY <3>1, FS_CardinalityType
      <3>3. /\ IsFiniteSet(U)
            /\ Cardinality(U) = Cardinality(Later(b, p.until)) + Cardinality(In(b, q.until))
                                 - Cardinality(Later(b, p.until) \cap In(b, q.until))
        <4>1. IsFiniteSet(Later(b, p.until)) /\ IsFiniteSet(In(b, q.until))
          BY <1>4, <2>2
        <4> QED
          BY <4>1, FS_Union, Zenon
      <3> HIDE DEF U
      <3>4. Cardinality(Later(b, p.until)) \in Nat /\ Cardinality(In(b, q.until)) \in Nat
        BY <1>4, <2>2
      <3> QED
        BY <3>2, <3>3, <3>4
    <2>5. Cardinality(W) <= Cardinality(U) /\ Cardinality(W) \in Nat /\ Cardinality(U) \in Nat
      <3>1. W \subseteq U
        BY <2>3
      <3> QED
        BY <2>4, <3>1, Fewer
    <2> QED
      BY <1>1, <1>4, <2>2, <2>4, <2>5
  <1> QED
    BY <1>5, <1>6

(* Around the edge of two windows a budget is never spent twice over: a    *)
(* cleanup, and requests counted out of order, included.                   *)
THEOREM AtMostTwoLimitsHolds == Spec => []AtMostTwoLimits
  BY LimitsInvariant, TwoLimits, PTL
===============================================================================
