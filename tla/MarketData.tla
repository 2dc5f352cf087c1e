------------------------------- MODULE MarketData -------------------------------
(***************************************************************************)
(* Prices and key events: the price poll of cmd/simulator/main.go, the     *)
(* others that log key events, the candles of metrics/price.go and the     *)
(* reset of store/memory.go, while sessions come and go.                   *)
(*                                                                         *)
(* Of a key event only who logged it and when it was decided on are kept;  *)
(* of the session only whether it runs; reserves, LP metrics, volumes and  *)
(* broadcasts are left out.                                                *)
(***************************************************************************)
EXTENDS Naturals, Sequences, FiniteSets

CONSTANTS
  Prices,       (* spot prices: 0 is that of a pool without apples         *)
  Emitters,     (* callback slots and start or resume requests             *)
  Resets,       (* bound: the reset requests ever made                     *)
  MaxEvents,    (* of the list of events: 5000 in the code                 *)
  MaxSlot,      (* bound: the candles' slots of five seconds               *)
  MaxTicks      (* bound: the prices recorded between two resets           *)

ASSUME MarketAssumption ==
  /\ Prices \subseteq Nat
  /\ IsFiniteSet(Resets)
  /\ MaxEvents \in Nat \ {0} /\ MaxSlot \in Nat /\ MaxTicks \in Nat

Poller == "poll"

VARIABLES
  running,      (* session.IsRunning                                       *)
  slot,         (* the time, truncated to the candles' size                *)
  candles, events,     (* the store                                        *)
  resetting,    (* where each reset request is                             *)
  looked,       (* of each who logs: the era it found the session running
                   in, 0 when it has nothing to log                        *)
  pollpc, price, base, anchored,    (* pollPrices: price, lastPrice,
                                       priceInitialized                    *)
  ticks         (* history: the prices recorded since the last reset       *)

poll == <<pollpc, price, base, anchored>>
vars == <<running, slot, candles, events, resetting, looked, poll, ticks>>

(* Resets that have gone past session.Reset, counted from one.             *)
Era == 1 + Cardinality({x \in Resets : resetting[x] # "none"})

(* Store.Reset holds the store's lock; the prices have one of their own.   *)
StoreFree == \A x \in Resets : resetting[x] # "locked"

Init ==
  /\ running = FALSE /\ slot = 0
  /\ candles = <<>> /\ events = <<>> /\ ticks = <<>>
  /\ resetting = [x \in Resets |-> "none"]
  /\ looked = [e \in Emitters \cup {Poller} |-> 0]
  /\ pollpc = "idle" /\ price = 0 /\ base = 0 /\ anchored = FALSE

-------------------------------------------------------------------------------
(* The session and the clock.                                              *)

SessionStarts ==
  /\ ~running /\ running' = TRUE
  /\ UNCHANGED <<slot, candles, events, resetting, looked, poll, ticks>>

SessionEnds ==
  /\ running /\ running' = FALSE
  /\ UNCHANGED <<slot, candles, events, resetting, looked, poll, ticks>>

Clock ==
  /\ slot < MaxSlot /\ slot' = slot + 1
  /\ UNCHANGED <<running, candles, events, resetting, looked, poll, ticks>>

-------------------------------------------------------------------------------
(* RecordPrice and RecordEvent.                                            *)

NewCandle(p) == [slot |-> slot, open |-> p, high |-> p, low |-> p, close |-> p]

(* Mutant of Widened: a new high or low does not close the candle.         *)
WidenedOrClosed(c, p) ==
  IF p > c.high THEN [c EXCEPT !.high = p]
  ELSE IF p < c.low THEN [c EXCEPT !.low = p]
  ELSE [c EXCEPT !.close = p]

Widened(c, p) ==
  [c EXCEPT !.high = IF p > @ THEN p ELSE @,
            !.low = IF p < @ THEN p ELSE @,
            !.close = p]

RecordPrice(p) ==
  /\ ticks' = Append(ticks, [slot |-> slot, price |-> p])
  /\ candles' = IF candles = <<>> \/ slot > candles[Len(candles)].slot
                THEN Append(candles, NewCandle(p))
                ELSE [candles EXCEPT ![Len(candles)] = Widened(@, p)]

RecordEvent(e) ==
  /\ StoreFree /\ looked[e] # 0
  /\ events' = LET all == Append(events, [by |-> e, era |-> looked[e]])
               IN  IF Len(all) > MaxEvents THEN Tail(all) ELSE all
  /\ looked' = [looked EXCEPT ![e] = 0]

-------------------------------------------------------------------------------
(* The price poll.  A tick whose RPC fails changes nothing.                *)

Moved(from, to) ==
  20 * (IF to > from THEN to - from ELSE from - to) >= from

PollReads(p) ==
  /\ pollpc = "idle" /\ Len(ticks) < MaxTicks
  /\ RecordPrice(p)
  /\ pollpc' = "look" /\ price' = p
  /\ UNCHANGED <<running, slot, events, resetting, looked, base, anchored>>

Anchors == base' = price /\ pollpc' = "idle"

PollLooks ==
  /\ pollpc = "look"
  /\ anchored' = TRUE
  /\ \/ /\ ~anchored \/ ~running
        /\ Anchors
     \/ /\ anchored /\ running
        /\ pollpc' = IF base > 0 /\ Moved(base, price) THEN "again" ELSE "idle"
        /\ UNCHANGED base
  /\ UNCHANGED <<running, slot, candles, events, resetting, looked, price, ticks>>

(* Mutant of PollLooksAgain: the tick is given up, its price forgotten.    *)
PollGivesUp ==
  /\ pollpc = "again"
  /\ \/ /\ ~running
        /\ pollpc' = "idle"
        /\ UNCHANGED <<looked, base>>
     \/ /\ running
        /\ looked' = [looked EXCEPT ![Poller] = Era]
        /\ pollpc' = "record"
        /\ UNCHANGED base
  /\ UNCHANGED <<running, slot, candles, events, resetting, price, anchored, ticks>>

PollLooksAgain ==
  /\ pollpc = "again"
  /\ \/ /\ ~running
        /\ Anchors
        /\ UNCHANGED looked
     \/ /\ running
        /\ looked' = [looked EXCEPT ![Poller] = Era]
        /\ pollpc' = "record"
        /\ UNCHANGED base
  /\ UNCHANGED <<running, slot, candles, events, resetting, price, anchored, ticks>>

PollRecords ==
  /\ pollpc = "record"
  /\ RecordEvent(Poller) /\ Anchors
  /\ UNCHANGED <<running, slot, candles, resetting, price, anchored, ticks>>

-------------------------------------------------------------------------------
(* A trade callback, a start or a resume: the look, then the event.        *)

EmitterLooks(e) ==
  /\ running /\ looked[e] = 0
  /\ looked' = [looked EXCEPT ![e] = Era]
  /\ UNCHANGED <<running, slot, candles, events, resetting, poll, ticks>>

EmitterRecords(e) ==
  /\ RecordEvent(e)
  /\ UNCHANGED <<running, slot, candles, resetting, poll, ticks>>

-------------------------------------------------------------------------------
(* The reset request: the session's, then the store's under its lock.      *)

Goes(x, from, to) == resetting[x] = from /\ resetting' = [resetting EXCEPT ![x] = to]

ResetSession(x) ==
  /\ Goes(x, "none", "session")
  /\ running' = FALSE
  /\ UNCHANGED <<slot, candles, events, looked, poll, ticks>>

ResetPrices(x) ==
  /\ StoreFree /\ Goes(x, "session", "locked")
  /\ candles' = <<>> /\ ticks' = <<>>
  /\ UNCHANGED <<running, slot, events, looked, poll>>

(* Mutant of ResetEvents: the events stay.                                 *)
ResetKeepsEvents(x) ==
  /\ Goes(x, "locked", "done")
  /\ UNCHANGED <<running, slot, candles, events, looked, poll, ticks>>

ResetEvents(x) ==
  /\ Goes(x, "locked", "done")
  /\ events' = <<>>
  /\ UNCHANGED <<running, slot, candles, looked, poll, ticks>>

-------------------------------------------------------------------------------
Next ==
  \/ SessionStarts \/ SessionEnds \/ Clock
  \/ \E p \in Prices : PollReads(p)
  \/ PollLooks \/ PollLooksAgain \/ PollRecords
  \/ \E e \in Emitters : EmitterLooks(e) \/ EmitterRecords(e)
  \/ \E x \in Resets : ResetSession(x) \/ ResetPrices(x) \/ ResetEvents(x)

Spec == Init /\ [][Next]_vars

-------------------------------------------------------------------------------
(* Properties.                                                             *)

(* The candles summarize the prices recorded since the last reset: one for *)
(* each slot that has a price, in order, with its first and last price and *)
(* its extremes, whatever a reset meets under way (price.go:72-109).       *)
CandlesSummarize ==
  /\ \A k, l \in DOMAIN candles : k < l => candles[k].slot < candles[l].slot
  /\ {candles[k].slot : k \in DOMAIN candles} = {ticks[i].slot : i \in DOMAIN ticks}
  /\ \A k \in DOMAIN candles :
       LET c    == candles[k]
           Mine == {i \in DOMAIN ticks : ticks[i].slot = c.slot}
       IN  /\ \E i \in Mine : c.open = ticks[i].price /\ \A j \in Mine : i <= j
           /\ \E i \in Mine : c.close = ticks[i].price /\ \A j \in Mine : j <= i
           /\ \E i \in Mine : c.high = ticks[i].price /\ \A j \in Mine : ticks[j].price <= c.high
           /\ \E i \in Mine : c.low = ticks[i].price /\ \A j \in Mine : c.low <= ticks[j].price

(* No move of five percent goes unreported by drifting, or by a session    *)
(* that ends in the middle of a tick: between ticks the last price is less *)
(* than that away from the one the next is compared with (main.go:483-517).*)
(* From a base of 0 nothing is ever reported.                              *)
NoSilentDrift ==
  pollpc = "idle" /\ anchored => base = 0 \/ ~Moved(base, price)

(* A reset leaves at most one old event of each who logs: what it had      *)
(* decided on before the reset and logged after it (main.go:188-202).      *)
FewStaleEvents ==
  (\A x \in Resets : resetting[x] \in {"none", "done"}) =>
    \A e \in Emitters \cup {Poller} :
      Cardinality({i \in DOMAIN events : events[i].by = e /\ events[i].era < Era}) <= 1
===============================================================================
