-------------------------------- MODULE Traders --------------------------------
(***************************************************************************)
(* The trading bots of backend/internal/bots over the trade flow of        *)
(* backend/internal/metrics/{trade_flow,ewma}.go: noise bots (retail and   *)
(* whale) trade at random, mean-reversion bots on the z-score of the       *)
(* trades of others.  Sessions come and go; the bots' state stays.         *)
(*                                                                         *)
(* Sides and sizes are left out.  A z-score is an integer: its sign, and   *)
(* one more than the trigger levels its magnitude reaches; its value after *)
(* an observation is any.                                                  *)
(***************************************************************************)
EXTENDS Integers, FiniteSets, Functions

CONSTANTS
  Noise,        (* the retail and whale bots                               *)
  MeanRevs,     (* the mean-reversion bots                                 *)
  Levels,       (* the number of TriggerLevels                             *)
  MinTrades,    (* minTradesRequired: 25 at least                          *)
  Slots,        (* of notifySem: 50                                        *)
  MaxTrades,    (* bound: the swaps sent                                   *)
  MaxSessions   (* bound: the sessions                                     *)

ASSUME TradersAssumption ==
  /\ Noise \cap MeanRevs = {}
  /\ IsFiniteSet(MeanRevs)
  /\ Levels \in Nat \ {0} /\ MinTrades \in Nat \ {0} /\ Slots \in Nat \ {0}
  /\ MaxTrades \in Nat /\ MaxSessions \in Nat

Bots == Noise \cup MeanRevs

VARIABLES
  fast,         (* configured: bots with a half-life of at most 30 trades  *)
  sessions,     (* sessions started                                        *)
  live,         (* the session's context is not cancelled                  *)
  pc,           (* where each bot is in Run                                *)
  count,        (* tradesSinceTrade, no further than MinTrades             *)
  z,            (* GetZScore(lastRTilde); 0 while sigma is                 *)
  lastZ,
  levels,       (* tradedLevels                                            *)
  trades,       (* swaps sent so far                                       *)
  emitted,      (* of each bot: those the flow tracker has not recorded    *)
  notifying,    (* the subscribers RecordTrade has still to notify         *)
  inFlight,     (* of each subscriber: the notifications under way         *)
  observed,     (* history: trades observed since it sent its last swap    *)
                (* that was answered                                       *)
  spent,        (* history: levels signalled since z last changed sign     *)
  late          (* history: bots that sent a swap after the cancellation   *)

flow == <<emitted, notifying, inFlight>>
mind == <<count, z, lastZ, levels>>
hist == <<observed, spent, late>>
vars == <<fast, sessions, live, pc, mind, trades, flow, hist>>

Zs == -(Levels + 1) .. Levels + 1
Abs(x) == IF x < 0 THEN -x ELSE x
Reached(x) == {l \in 1 .. Levels : l < Abs(x)}

Init ==
  /\ fast \in SUBSET MeanRevs
  /\ sessions = 0 /\ live = FALSE /\ trades = 0
  /\ pc = [b \in Bots |-> "returned"]
  /\ count = [b \in MeanRevs |-> 0]
  /\ z = [b \in MeanRevs |-> 0] /\ lastZ = [b \in MeanRevs |-> 0]
  /\ levels = [b \in MeanRevs |-> {}]
  /\ emitted = [b \in Bots |-> 0] /\ notifying = {}
  /\ inFlight = [b \in MeanRevs |-> 0]
  /\ observed = [b \in MeanRevs |-> 0]
  /\ spent = [b \in MeanRevs |-> {}]
  /\ late = [b \in Bots |-> 0]

-------------------------------------------------------------------------------
(* The orchestrator: a session launches every bot with a fresh context,    *)
(* and the next one waits for all of them.                                 *)

StartBots ==
  /\ ~live /\ sessions < MaxSessions /\ \A b \in Bots : pc[b] = "returned"
  /\ live' = TRUE /\ sessions' = sessions + 1
  /\ pc' = [b \in Bots |-> "top"]
  /\ late' = [b \in Bots |-> 0]
  /\ UNCHANGED <<fast, mind, trades, flow, observed, spent>>

Cancel ==
  /\ live /\ live' = FALSE
  /\ UNCHANGED <<fast, sessions, pc, mind, trades, flow, hist>>

-------------------------------------------------------------------------------
(* Run: the context is looked at, then waited for together with a timer;   *)
(* when both are ready either may win.                                     *)

At(b, here) == pc[b] = here

Goes(b, there) == pc' = [pc EXCEPT ![b] = there]

Quiet == UNCHANGED <<fast, sessions, live, mind, trades, flow, hist>>

(* Mutant of LoopTop: the context is only waited for.                      *)
LoopTopBlind(b) == At(b, "top") /\ Goes(b, "wait") /\ Quiet

LoopTop(b) ==
  /\ At(b, "top")
  /\ Goes(b, IF live THEN "wait" ELSE "returned")
  /\ Quiet

Wakes(b) ==
  /\ At(b, "wait")
  /\ \/ ~live /\ Goes(b, "returned")
     \/ Goes(b, IF b \in Noise THEN "swap" ELSE "signal")
  /\ Quiet

(* Of the levels reached that are not marked the highest, l, is marked and *)
(* traded on; the trade itself may fail.                                   *)
Signals(b) ==
  LET fresh == Reached(z[b]) \ levels[b]
  IN  /\ Goes(b, "swap")
      /\ \E l \in fresh :
           /\ \A k \in fresh : k <= l
           /\ levels' = [levels EXCEPT ![b] = levels[b] \cup {l}]
           /\ spent' = [spent EXCEPT ![b] = spent[b] \cup {l}]

NoSignal(b) == Goes(b, "top") /\ UNCHANGED <<levels, spent>>

Looked == UNCHANGED <<fast, sessions, live, count, z, lastZ, trades, flow, observed, late>>

(* Mutant of CheckSignal: no number of observed trades is required.        *)
CheckSignalAtOnce(b) ==
  /\ At(b, "signal")
  /\ \/ Reached(z[b]) \subseteq levels[b] /\ NoSignal(b)
     \/ Signals(b)
  /\ Looked

(* checkMeanReversionSignal: enough trades observed, and such a level.     *)
CheckSignal(b) ==
  /\ At(b, "signal")
  /\ \/ (count[b] < MinTrades \/ Reached(z[b]) \subseteq levels[b]) /\ NoSignal(b)
     \/ count[b] >= MinTrades /\ Signals(b)
  /\ Looked

(* Nothing is sent when a balance falls short or cannot be read; nor in    *)
(* executeTrade, without a price or when the executor fails before its     *)
(* send.  The level stays marked.                                          *)
AfterCall(b) == IF b \in fast THEN "forget" ELSE "top"

(* An error is logged, and the counter left alone.  That of a noise bot's  *)
(* sell is shadowed: the hash it then takes ten digits of is empty, and    *)
(* the panic ends Run.                                                     *)
AfterError(b) == Goes(b, AfterCall(b)) \/ (b \in Noise /\ Goes(b, "returned"))

BalanceShort(b) == At(b, "swap") /\ Goes(b, "top") /\ Quiet

SwapFails(b) == At(b, "swap") /\ AfterError(b) /\ Quiet

SendsSwap(b) ==
  /\ At(b, "swap") /\ trades < MaxTrades
  /\ trades' = trades + 1
  /\ late' = [late EXCEPT ![b] = IF live THEN @ ELSE @ + 1]
  /\ UNCHANGED <<fast, sessions, live, mind, notifying, inFlight, spent>>

(* The send's answer is lost: the trade is in the chain's hands, but the   *)
(* executor returns the error and announces nothing.                       *)
SwapLost(b) == SendsSwap(b) /\ AfterError(b) /\ UNCHANGED <<emitted, observed>>

SwapSent(b) ==
  /\ SendsSwap(b)
  /\ Goes(b, IF b \in Noise THEN "top" ELSE "sent")
  /\ emitted' = [emitted EXCEPT ![b] = @ + 1]
  /\ observed' = [a \in MeanRevs |-> IF a = b THEN 0 ELSE observed[a]]

(* The counter starts over once the call has returned.                     *)
ResetCount(b) ==
  /\ At(b, "sent")
  /\ Goes(b, AfterCall(b))
  /\ count' = [count EXCEPT ![b] = 0]
  /\ UNCHANGED <<fast, sessions, live, z, lastZ, levels, trades, flow, hist>>

(* A fast bot forgets its statistics, then its levels, whether or not the  *)
(* swap was sent.                                                          *)
ResetEWMA(b) ==
  /\ At(b, "forget")
  /\ Goes(b, "unmark")
  /\ z' = [z EXCEPT ![b] = 0]
  /\ UNCHANGED <<fast, sessions, live, count, lastZ, levels, trades, flow, hist>>

ResetLevels(b) ==
  /\ At(b, "unmark")
  /\ Goes(b, "top")
  /\ levels' = [levels EXCEPT ![b] = {}] /\ lastZ' = [lastZ EXCEPT ![b] = 0]
  /\ spent' = [spent EXCEPT ![b] = {}]
  /\ UNCHANGED <<fast, sessions, live, count, z, trades, flow, observed, late>>

Swaps(b) == BalanceShort(b) \/ SwapFails(b) \/ SwapLost(b) \/ SwapSent(b)

RunNoise(b) ==
  b \in Noise /\ (LoopTop(b) \/ Wakes(b) \/ Swaps(b))

RunMeanRev(b) ==
  /\ b \in MeanRevs
  /\ \/ LoopTop(b) \/ Wakes(b) \/ CheckSignal(b) \/ Swaps(b)
     \/ ResetCount(b) \/ ResetEWMA(b) \/ ResetLevels(b)

Run(b) == RunNoise(b) \/ RunMeanRev(b)

-------------------------------------------------------------------------------
(* TradeFlowTracker.RecordTrade, under its mutex: every subscriber but the *)
(* trader is notified in a goroutine of its own, while slots are free.     *)

RecordTrade(b) ==
  /\ notifying = {} /\ emitted[b] > 0
  /\ emitted' = [emitted EXCEPT ![b] = @ - 1]
  /\ notifying' = MeanRevs \ {b}
  /\ UNCHANGED <<fast, sessions, live, pc, mind, trades, inFlight, hist>>

SlotsTaken == SumFunction(inFlight)

Notify(s) ==
  /\ s \in notifying
  /\ notifying' = notifying \ {s}
  /\ inFlight' = IF SlotsTaken < Slots THEN [inFlight EXCEPT ![s] = @ + 1]
                 ELSE inFlight
  /\ UNCHANGED <<fast, sessions, live, pc, mind, trades, emitted, hist>>

(* Mutant of Crossed: the levels are cleared whenever z shrinks.           *)
CrossedEarly(from, to) == Abs(to) < Abs(from)

(* z crossed zero, or fell to it.                                          *)
Crossed(from, to) == (from > 0 /\ to <= 0) \/ (from < 0 /\ to >= 0)

(* OnTradeFlow, under the bot's mutex; notifications come in any order.    *)
Ignored(s) == UNCHANGED <<mind, observed, spent>>

Observed(s, x) ==
  /\ count' = [count EXCEPT ![s] = IF @ < MinTrades THEN @ + 1 ELSE @]
  /\ observed' = [observed EXCEPT ![s] = IF @ < MinTrades THEN @ + 1 ELSE @]
  /\ z' = [z EXCEPT ![s] = x] /\ lastZ' = [lastZ EXCEPT ![s] = x]
  /\ levels' = [levels EXCEPT ![s] = IF Crossed(lastZ[s], x) THEN {} ELSE @]
  /\ spent' = [spent EXCEPT ![s] = IF z[s] * x <= 0 THEN {} ELSE @]

OnTradeFlow(s) ==
  /\ inFlight[s] > 0
  /\ inFlight' = [inFlight EXCEPT ![s] = @ - 1]
  /\ Ignored(s) \/ \E x \in Zs : Observed(s, x)
  /\ UNCHANGED <<fast, sessions, live, pc, trades, emitted, notifying, late>>

Next ==
  \/ StartBots \/ Cancel
  \/ \E b \in Bots : Run(b) \/ RecordTrade(b)
  \/ \E s \in MeanRevs : Notify(s) \/ OnTradeFlow(s)

Safe == Init /\ [][Next]_vars

(* A bot's goroutine runs on: its timer fires and the calls it makes return*)
(* (Executor's CallsReturn).  A session need not end.                      *)
Fairness == \A b \in Bots : WF_vars(Run(b))

Spec == Safe /\ Fairness

-------------------------------------------------------------------------------
(* Properties.                                                             *)

(* The variables hold values of their types.                               *)
TypeOK ==
  /\ fast \subseteq MeanRevs
  /\ sessions \in Nat /\ live \in BOOLEAN /\ trades \in Nat
  /\ pc \in [Bots -> {"returned", "top", "wait", "signal", "swap",
                      "sent", "forget", "unmark"}]
  /\ count \in [MeanRevs -> 0 .. MinTrades]
  /\ z \in [MeanRevs -> Zs] /\ lastZ \in [MeanRevs -> Zs]
  /\ levels \in [MeanRevs -> SUBSET (1 .. Levels)]
  /\ emitted \in [Bots -> Nat] /\ notifying \subseteq MeanRevs
  /\ inFlight \in [MeanRevs -> Nat]
  /\ observed \in [MeanRevs -> 0 .. MinTrades]
  /\ spent \in [MeanRevs -> SUBSET (1 .. Levels)]
  /\ late \in [Bots -> Nat]

(* A mean-reversion bot sends a swap only after MinTrades trades of others *)
(* that it observed since its last one that was answered, whatever failed  *)
(* in between and whatever arrived while the call was under way.  A swap   *)
(* whose answer is lost counts for nothing: the next may follow at once,   *)
(* at another level (OncePerExcursion).                                    *)
PacedTrades ==
  [][\A b \in MeanRevs : SendsSwap(b) => observed[b] = MinTrades]_vars

(* A level is signalled once per excursion of z to one side of zero (and,  *)
(* by a fast bot, per attempt to trade).                                   *)
OncePerExcursion ==
  [][\A b \in MeanRevs : (levels'[b] \ levels[b]) \cap spent[b] = {}]_vars

(* Once its context is cancelled a bot sends at most one more swap, lost   *)
(* answers included.                                                       *)
OneLateTrade == \A b \in Bots : late[b] <= 1

(* A cancelled session's bots return, as the orchestrator's wait requires. *)
BotsReturn == ~live ~> (live \/ \A b \in Bots : pc[b] = "returned")
===============================================================================
