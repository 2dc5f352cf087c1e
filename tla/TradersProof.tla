------------------------------ MODULE TradersProof -----------------------------
(***************************************************************************)
(* The types of Traders, its pacing, its levels and its late trades, for   *)
(* any bots, levels, requirements, slots and bounds.                       *)
(***************************************************************************)
EXTENDS Traders, TLAPS

(* The counter a bot decides by is not ahead of what it observed since its *)
(* last answered swap, but between it and the counter's reset; and a signal*)
(* outlasts whatever is observed until the swap.                           *)
Paced ==
  \A b \in MeanRevs : /\ pc[b] # "sent" => count[b] <= observed[b]
                      /\ pc[b] = "swap" => observed[b] = MinTrades

(* A level is marked as long as z stays on its side: levels are cleared by *)
(* lastZ, which is z unless the bot has just forgotten one of the two.     *)
Marked ==
  \A b \in MeanRevs : /\ spent[b] \subseteq levels[b]
                      /\ z[b] = lastZ[b] \/ z[b] = 0 \/ lastZ[b] = 0

(* A bot that passed the loop's top before the cancellation may still send *)
(* one swap; one that did has to pass it again.                            *)
Late ==
  \A b \in Bots : /\ late[b] <= 1
                  /\ live => late[b] = 0
                  /\ pc[b] \in {"wait", "signal", "swap"} => late[b] = 0

Pcs == {"returned", "top", "wait", "signal", "swap", "sent", "forget", "unmark"}

Data ==
  /\ fast \subseteq MeanRevs
  /\ sessions \in Nat /\ trades \in Nat
  /\ pc \in [Bots -> Pcs]
  /\ count \in [MeanRevs -> 0 .. MinTrades]
  /\ z \in [MeanRevs -> Zs] /\ lastZ \in [MeanRevs -> Zs]
  /\ levels \in [MeanRevs -> SUBSET (1 .. Levels)]
  /\ emitted \in [Bots -> Nat] /\ notifying \subseteq MeanRevs
  /\ inFlight \in [MeanRevs -> Nat]
  /\ observed \in [MeanRevs -> 0 .. MinTrades]
  /\ spent \in [MeanRevs -> SUBSET (1 .. Levels)]
  /\ late \in [Bots -> Nat]

IInv == Data /\ live \in BOOLEAN /\ Paced /\ Marked /\ Late

-------------------------------------------------------------------------------
(* The constants, and what an action that only moves a bot keeps.          *)

(* The constants' types.                                                   *)
LEMMA Sorts ==
  /\ MeanRevs \subseteq Bots
  /\ 0 \in Zs /\ Zs \subseteq Int
  /\ MinTrades \in Nat /\ MinTrades > 0 /\ Levels \in Nat
  BY TradersAssumption DEF Bots, Zs

LEMMA InitHolds == Init => IInv
<1> SUFFICES ASSUME Init PROVE IInv
  OBVIOUS
<1>1. Data
  BY Sorts DEF Init, Data, Pcs
<1>2. live \in BOOLEAN
  BY Zenon DEF Init
<1>3. Paced
  BY Sorts DEF Init, Paced
<1>4. Marked
  BY DEF Init, Marked
<1>5. Late
  BY DEF Init, Late
<1> QED  BY <1>1, <1>2, <1>3, <1>4, <1>5 DEF IInv

LEMMA StartKeeps == ASSUME IInv, StartBots PROVE IInv'
<1>1. /\ sessions' = sessions + 1 /\ pc' = [b \in Bots |-> "top"]
      /\ late' = [b \in Bots |-> 0]
      /\ UNCHANGED <<fast, mind, trades, flow, observed, spent>>
  BY DEF StartBots
<1>2. Data'
  BY <1>1 DEF IInv, Data, Pcs, mind, flow
<1>3. live' \in BOOLEAN
  BY Zenon DEF StartBots
<1>4. Paced'
  <2>1. \A b \in MeanRevs : count[b] <= observed[b]
    BY Sorts DEF StartBots, IInv, Paced
  <2> QED  BY <1>1, <2>1, Sorts DEF Paced, mind
<1>5. Marked'
  BY <1>1 DEF IInv, Marked, mind
<1>6. Late'
  BY <1>1 DEF Late
<1> QED  BY <1>2, <1>3, <1>4, <1>5, <1>6 DEF IInv

LEMMA CancelKeeps == ASSUME IInv, Cancel PROVE IInv'
<1>1. UNCHANGED <<fast, sessions, pc, mind, trades, flow, hist>> /\ ~live'
  BY DEF Cancel
<1>2. Data'
  BY <1>1 DEF IInv, Data, mind, flow, hist
<1>3. live' \in BOOLEAN
  BY Zenon DEF Cancel
<1>4. Paced' /\ Marked'
  BY <1>1 DEF IInv, Paced, Marked, mind, hist
<1>5. Late'
  BY <1>1 DEF IInv, Late, hist
<1> QED  BY <1>2, <1>3, <1>4, <1>5 DEF IInv

(* A bot goes on: to a wait only while live, to a swap when it is paced.   *)
LEMMA BotMoves ==
  ASSUME IInv, NEW b \in Bots, NEW to \in Pcs, pc' = [pc EXCEPT ![b] = to],
         UNCHANGED <<fast, sessions, live, mind, trades, flow, hist>>,
         to \in {"wait", "signal", "swap"} => live \/ pc[b] \in {"wait", "signal", "swap"},
         b \in MeanRevs /\ to = "swap" => observed[b] = MinTrades,
         pc[b] # "sent"
  PROVE  IInv'
<1>1. pc' \in [Bots -> Pcs] /\ pc'[b] = to /\ \A a \in Bots \ {b} : pc'[a] = pc[a]
  BY DEF IInv, Data
<1>2. Data'
  BY <1>1 DEF IInv, Data, mind, flow, hist
<1>3. live' \in BOOLEAN
  BY Zenon DEF IInv
<1>4. Paced'
  BY <1>1, Sorts DEF IInv, Paced, mind, hist
<1>5. Marked'
  BY DEF IInv, Marked, mind, hist
<1>6. Late'
  BY <1>1 DEF IInv, Late, hist
<1> QED  BY <1>2, <1>3, <1>4, <1>5, <1>6 DEF IInv

(* The loop of a bot, up to a swap that is sent.                           *)
LEMMA LoopKeeps ==
  ASSUME IInv, NEW b \in Bots, LoopTop(b) \/ Wakes(b) \/ BalanceShort(b) \/ SwapFails(b)
  PROVE  IInv'
<1>1. CASE LoopTop(b)
  <2>1. CASE live
    <3>1. pc[b] = "top" /\ pc' = [pc EXCEPT ![b] = "wait"]
          /\ UNCHANGED <<fast, sessions, live, mind, trades, flow, hist>>
      BY <1>1, <2>1 DEF LoopTop, At, Goes, Quiet
    <3> QED  BY <3>1, <2>1, BotMoves DEF Pcs
  <2>2. CASE ~live
    <3>1. pc[b] = "top" /\ pc' = [pc EXCEPT ![b] = "returned"]
          /\ UNCHANGED <<fast, sessions, live, mind, trades, flow, hist>>
      BY <1>1, <2>2 DEF LoopTop, At, Goes, Quiet
    <3> QED  BY <3>1, BotMoves DEF Pcs
  <2> QED  BY <2>1, <2>2
<1>2. CASE Wakes(b)
  <2>1. /\ pc[b] = "wait" /\ UNCHANGED <<fast, sessions, live, mind, trades, flow, hist>>
        /\ \/ pc' = [pc EXCEPT ![b] = "returned"]
           \/ b \in Noise /\ pc' = [pc EXCEPT ![b] = "swap"]
           \/ b \notin Noise /\ pc' = [pc EXCEPT ![b] = "signal"]
    BY <1>2 DEF Wakes, At, Goes, Quiet
  <2>2. b \in Noise => b \notin MeanRevs
    BY TradersAssumption
  <2>3. CASE pc' = [pc EXCEPT ![b] = "returned"]
    BY <2>1, <2>3, BotMoves DEF Pcs
  <2>4. CASE b \in Noise /\ pc' = [pc EXCEPT ![b] = "swap"]
    BY <2>1, <2>2, <2>4, BotMoves DEF Pcs
  <2>5. CASE b \notin Noise /\ pc' = [pc EXCEPT ![b] = "signal"]
    BY <2>1, <2>5, BotMoves DEF Pcs
  <2> QED  BY <2>1, <2>3, <2>4, <2>5
<1>3. CASE BalanceShort(b) \/ SwapFails(b)
  <2>1. PICK to \in {"top", "forget", "returned"} :
          /\ pc[b] = "swap" /\ pc' = [pc EXCEPT ![b] = to]
          /\ UNCHANGED <<fast, sessions, live, mind, trades, flow, hist>>
    BY <1>3 DEF BalanceShort, SwapFails, At, Goes, AfterCall, AfterError, Quiet
  <2> QED  BY <2>1, BotMoves DEF Pcs
<1> QED  BY <1>1, <1>2, <1>3

-------------------------------------------------------------------------------
(* A mean-reversion bot.                                                   *)

(* A signal marks what it spends, and comes after enough observed trades.  *)
LEMMA SignalKeeps == ASSUME IInv, NEW b \in MeanRevs, CheckSignal(b) PROVE IInv'
<1>1. /\ pc[b] = "signal"
      /\ UNCHANGED <<fast, sessions, live, count, z, lastZ, trades, flow, observed, late>>
      /\ b \in Bots
  BY Sorts DEF CheckSignal, At, Looked
<1>2. CASE NoSignal(b)
  <2>1. pc' = [pc EXCEPT ![b] = "top"]
        /\ UNCHANGED <<fast, sessions, live, mind, trades, flow, hist>>
    BY <1>1, <1>2 DEF NoSignal, Goes, mind, hist
  <2> QED  BY <1>1, <2>1, BotMoves DEF Pcs
<1>3. CASE count[b] >= MinTrades /\ Signals(b)
  <2>1. PICK l \in Reached(z[b]) \ levels[b] :
          /\ pc' = [pc EXCEPT ![b] = "swap"]
          /\ levels' = [levels EXCEPT ![b] = levels[b] \cup {l}]
          /\ spent' = [spent EXCEPT ![b] = spent[b] \cup {l}]
    BY <1>3 DEF Signals, Goes
  <2>2. l \in 1 .. Levels
    BY DEF Reached
  <2>3. /\ pc' \in [Bots -> Pcs] /\ pc'[b] = "swap" /\ \A a \in Bots \ {b} : pc'[a] = pc[a]
        /\ levels' \in [MeanRevs -> SUBSET (1 .. Levels)]
        /\ spent' \in [MeanRevs -> SUBSET (1 .. Levels)]
    BY <1>1, <2>1, <2>2 DEF IInv, Data, Pcs
  <2>4. Data'
    BY <1>1, <2>3 DEF IInv, Data, flow
  <2>5. live' \in BOOLEAN
    BY <1>1, Zenon DEF IInv
  <2>6. Paced'
    <3>1. observed[b] = MinTrades
      BY <1>1, <1>3, Sorts DEF IInv, Data, Paced
    <3> QED  BY <1>1, <2>3, <3>1, Sorts DEF IInv, Paced
  <2>7. Marked'
    BY <1>1, <2>1 DEF IInv, Data, Marked
  <2>8. Late'
    BY <1>1, <2>3 DEF IInv, Late
  <2> QED  BY <2>4, <2>5, <2>6, <2>7, <2>8 DEF IInv
<1> QED  BY <1>2, <1>3 DEF CheckSignal

(* A swap that is answered starts the observation over, one that is not    *)
(* leaves it; late, each is the bot's last one.                            *)
LEMMA SwapKeeps ==
  ASSUME IInv, NEW b \in Bots, SwapSent(b) \/ SwapLost(b)
  PROVE  IInv'
<1>1. /\ pc[b] = "swap" /\ trades' = trades + 1
      /\ late' = [late EXCEPT ![b] = IF live THEN late[b] ELSE late[b] + 1]
      /\ UNCHANGED <<fast, sessions, live, mind, notifying, inFlight, spent>>
  BY DEF SwapSent, SwapLost, SendsSwap, At
<1>2. /\ pc' \in [Bots -> Pcs] /\ \A a \in Bots \ {b} : pc'[a] = pc[a]
      /\ pc'[b] \in {"top", "sent", "forget", "returned"}
      /\ emitted' \in [Bots -> Nat] /\ observed' \in [MeanRevs -> 0 .. MinTrades]
      /\ \A a \in MeanRevs : (a # b \/ pc'[a] # "sent") => observed'[a] = observed[a]
  <2>1. CASE SwapSent(b)
    <3>1. /\ pc' = [pc EXCEPT ![b] = IF b \in Noise THEN "top" ELSE "sent"]
          /\ emitted' = [emitted EXCEPT ![b] = emitted[b] + 1]
          /\ observed' = [a \in MeanRevs |-> IF a = b THEN 0 ELSE observed[a]]
      BY <2>1 DEF SwapSent, Goes
    <3>2. b \in MeanRevs => b \notin Noise
      BY TradersAssumption
    <3> QED  BY <3>1, <3>2, Sorts DEF IInv, Data, Pcs
  <2>2. CASE SwapLost(b)
    <3>1. PICK to \in {"top", "forget", "returned"} : pc' = [pc EXCEPT ![b] = to]
      BY <2>2 DEF SwapLost, AfterError, AfterCall, Goes
    <3>2. UNCHANGED <<emitted, observed>>
      BY <2>2 DEF SwapLost
    <3> QED  BY <3>1, <3>2 DEF IInv, Data, Pcs
  <2> QED  BY <2>1, <2>2
<1>3. late[b] = 0
  BY <1>1 DEF IInv, Late
<1>4. /\ late' \in [Bots -> Nat] /\ \A a \in Bots \ {b} : late'[a] = late[a]
      /\ late'[b] <= 1 /\ (live => late'[b] = 0)
  BY <1>1, <1>3 DEF IInv, Data
<1>5. Data'
  BY <1>1, <1>2, <1>4 DEF IInv, Data, mind
<1>6. live' \in BOOLEAN
  BY <1>1, Zenon DEF IInv
<1>7. Paced'
  <2> SUFFICES ASSUME NEW a \in MeanRevs
               PROVE  /\ pc'[a] # "sent" => count[a] <= observed'[a]
                      /\ pc'[a] = "swap" => observed'[a] = MinTrades
    BY <1>1 DEF Paced, mind
  <2>1. /\ pc[a] # "sent" => count[a] <= observed[a]
        /\ pc[a] = "swap" => observed[a] = MinTrades
    BY DEF IInv, Paced
  <2>2. a \in Bots
    BY Sorts
  <2> QED  BY <1>1, <1>2, <2>1, <2>2
<1>8. Marked'
  BY <1>1 DEF IInv, Marked, mind
<1>9. Late'
  BY <1>1, <1>2, <1>4 DEF IInv, Late
<1> QED  BY <1>5, <1>6, <1>7, <1>8, <1>9 DEF IInv

LEMMA ResetCountKeeps == ASSUME IInv, NEW b \in MeanRevs, ResetCount(b) PROVE IInv'
<1>1. /\ pc' = [pc EXCEPT ![b] = AfterCall(b)] /\ count' = [count EXCEPT ![b] = 0]
      /\ UNCHANGED <<fast, sessions, live, z, lastZ, levels, trades, flow, hist>>
      /\ AfterCall(b) \in {"forget", "top"} /\ b \in Bots
  BY Sorts DEF ResetCount, Goes, AfterCall
<1>2. /\ pc' \in [Bots -> Pcs] /\ \A a \in Bots \ {b} : pc'[a] = pc[a]
      /\ pc'[b] \in {"forget", "top"}
      /\ count' \in [MeanRevs -> 0 .. MinTrades] /\ count'[b] = 0
      /\ \A a \in MeanRevs \ {b} : count'[a] = count[a]
  BY <1>1, Sorts DEF IInv, Data, Pcs
<1>3. Data'
  BY <1>1, <1>2 DEF IInv, Data, flow, hist
<1>4. live' \in BOOLEAN
  BY <1>1, Zenon DEF IInv
<1>5. Paced'
  BY <1>1, <1>2, Sorts DEF IInv, Data, Paced, hist
<1>6. Marked' /\ Late'
  BY <1>1, <1>2 DEF IInv, Marked, Late, hist
<1> QED  BY <1>3, <1>4, <1>5, <1>6 DEF IInv

(* z falls to zero before lastZ does.                                      *)
LEMMA ForgetKeeps ==
  ASSUME IInv, NEW b \in MeanRevs, ResetEWMA(b) \/ ResetLevels(b)
  PROVE  IInv'
<1>1. b \in Bots
  BY Sorts
<1>2. CASE ResetEWMA(b)
  <2>1. /\ pc' = [pc EXCEPT ![b] = "unmark"] /\ z' = [z EXCEPT ![b] = 0]
        /\ UNCHANGED <<fast, sessions, live, count, lastZ, levels, trades, flow, hist>>
    BY <1>2 DEF ResetEWMA, Goes
  <2>2. /\ pc' \in [Bots -> Pcs] /\ \A a \in Bots \ {b} : pc'[a] = pc[a]
        /\ pc'[b] = "unmark" /\ pc[b] = "forget"
        /\ z' \in [MeanRevs -> Zs] /\ z'[b] = 0 /\ \A a \in MeanRevs \ {b} : z'[a] = z[a]
    BY <1>1, <1>2, <2>1, Sorts DEF IInv, Data, Pcs, ResetEWMA, At
  <2>3. Data'
    BY <2>1, <2>2 DEF IInv, Data, flow, hist
  <2>4. live' \in BOOLEAN
    BY <2>1, Zenon DEF IInv
  <2>5. Paced' /\ Marked' /\ Late'
    BY <2>1, <2>2, Sorts DEF IInv, Paced, Marked, Late, hist
  <2> QED  BY <2>3, <2>4, <2>5 DEF IInv
<1>3. CASE ResetLevels(b)
  <2>1. /\ pc[b] = "unmark" /\ pc' = [pc EXCEPT ![b] = "top"]
        /\ levels' = [levels EXCEPT ![b] = {}] /\ lastZ' = [lastZ EXCEPT ![b] = 0]
        /\ spent' = [spent EXCEPT ![b] = {}]
        /\ UNCHANGED <<fast, sessions, live, count, z, trades, flow, observed, late>>
    BY <1>3 DEF ResetLevels, Goes, At
  <2>2. /\ pc' \in [Bots -> Pcs] /\ \A a \in Bots \ {b} : pc'[a] = pc[a]
        /\ pc'[b] = "top"
        /\ lastZ' \in [MeanRevs -> Zs] /\ lastZ'[b] = 0
        /\ \A a \in MeanRevs \ {b} : lastZ'[a] = lastZ[a]
        /\ levels' \in [MeanRevs -> SUBSET (1 .. Levels)]
        /\ spent' \in [MeanRevs -> SUBSET (1 .. Levels)]
    BY <1>1, <2>1, Sorts DEF IInv, Data, Pcs
  <2>3. Data'
    BY <2>1, <2>2 DEF IInv, Data, flow
  <2>4. live' \in BOOLEAN
    BY <2>1, Zenon DEF IInv
  <2>5. Paced' /\ Late'
    BY <2>1, <2>2, Sorts DEF IInv, Paced, Late
  <2>6. Marked'
    BY <2>1, <2>2 DEF IInv, Data, Marked
  <2> QED  BY <2>3, <2>4, <2>5, <2>6 DEF IInv
<1> QED  BY <1>2, <1>3

-------------------------------------------------------------------------------
(* The trade flow.                                                         *)

(* A trade recorded, and the notice of it on its way.                      *)
LEMMA FlowKeeps ==
  ASSUME IInv, (\E b \in Bots : RecordTrade(b)) \/ (\E s \in MeanRevs : Notify(s))
  PROVE  IInv'
<1>1. /\ UNCHANGED <<fast, sessions, live, pc, mind, trades, hist>>
      /\ emitted' \in [Bots -> Nat] /\ notifying' \subseteq MeanRevs
      /\ inFlight' \in [MeanRevs -> Nat]
  <2>1. CASE \E b \in Bots : RecordTrade(b)
    BY <2>1 DEF RecordTrade, IInv, Data
  <2>2. CASE \E s \in MeanRevs : Notify(s)
    <3>1. PICK s \in MeanRevs : Notify(s)
      BY <2>2
    <3>2. inFlight' = [inFlight EXCEPT ![s] = inFlight[s] + 1] \/ inFlight' = inFlight
      BY <3>1 DEF Notify
    <3>3. notifying' = notifying \ {s}
          /\ UNCHANGED <<fast, sessions, live, pc, mind, trades, emitted, hist>>
      BY <3>1 DEF Notify
    <3> QED  BY <3>2, <3>3 DEF IInv, Data
  <2> QED  BY <2>1, <2>2
<1>2. Data'
  BY <1>1 DEF IInv, Data, mind, hist
<1>3. live' \in BOOLEAN
  BY <1>1, Zenon DEF IInv
<1>4. Paced' /\ Marked' /\ Late'
  BY <1>1 DEF IInv, Paced, Marked, Late, mind, hist
<1> QED  BY <1>2, <1>3, <1>4 DEF IInv

(* Levels are cleared only when z has left its side, and so has spent.     *)
LEMMA ObservedKeeps ==
  ASSUME IInv, NEW s \in MeanRevs, NEW x \in Zs, Observed(s, x), inFlight[s] > 0,
         inFlight' = [inFlight EXCEPT ![s] = inFlight[s] - 1],
         UNCHANGED <<fast, sessions, live, pc, trades, emitted, notifying, late>>
  PROVE  IInv'
<1>1. /\ count' = [count EXCEPT ![s] = IF count[s] < MinTrades THEN count[s] + 1 ELSE count[s]]
      /\ observed' = [observed EXCEPT ![s] =
                        IF observed[s] < MinTrades THEN observed[s] + 1 ELSE observed[s]]
      /\ z' = [z EXCEPT ![s] = x] /\ lastZ' = [lastZ EXCEPT ![s] = x]
      /\ levels' = [levels EXCEPT ![s] = IF Crossed(lastZ[s], x) THEN {} ELSE levels[s]]
      /\ spent' = [spent EXCEPT ![s] = IF z[s] * x <= 0 THEN {} ELSE spent[s]]
  BY DEF Observed
<1>2. count[s] \in 0 .. MinTrades /\ observed[s] \in 0 .. MinTrades /\ MinTrades \in Nat
  BY Sorts DEF IInv, Data
<1>3. /\ count' \in [MeanRevs -> 0 .. MinTrades] /\ observed' \in [MeanRevs -> 0 .. MinTrades]
      /\ z' \in [MeanRevs -> Zs] /\ lastZ' \in [MeanRevs -> Zs]
      /\ levels' \in [MeanRevs -> SUBSET (1 .. Levels)]
      /\ spent' \in [MeanRevs -> SUBSET (1 .. Levels)]
      /\ inFlight' \in [MeanRevs -> Nat]
  BY <1>1, <1>2 DEF IInv, Data
<1>4. Data'
  BY <1>3 DEF IInv, Data
<1>5. live' \in BOOLEAN
  BY Zenon DEF IInv
<1>6. Paced'
  <2> SUFFICES ASSUME NEW b \in MeanRevs
               PROVE  /\ pc[b] # "sent" => count'[b] <= observed'[b]
                      /\ pc[b] = "swap" => observed'[b] = MinTrades
    BY DEF Paced
  <2>1. /\ pc[b] # "sent" => count[b] <= observed[b]
        /\ pc[b] = "swap" => observed[b] = MinTrades
    BY DEF IInv, Paced
  <2>2. CASE b # s
    BY <2>1, <2>2, <1>1 DEF IInv, Data
  <2>3. CASE b = s
    <3>1. /\ count'[s] = (IF count[s] < MinTrades THEN count[s] + 1 ELSE count[s])
          /\ observed'[s] = (IF observed[s] < MinTrades THEN observed[s] + 1 ELSE observed[s])
      BY <1>1 DEF IInv, Data
    <3> QED  BY <2>1, <2>3, <3>1, <1>2
  <2> QED  BY <2>2, <2>3
<1>7. Marked'
  <2> SUFFICES ASSUME NEW b \in MeanRevs
               PROVE  /\ spent'[b] \subseteq levels'[b]
                      /\ z'[b] = lastZ'[b] \/ z'[b] = 0 \/ lastZ'[b] = 0
    BY DEF Marked
  <2>1. /\ spent[b] \subseteq levels[b]
        /\ z[b] = lastZ[b] \/ z[b] = 0 \/ lastZ[b] = 0
    BY DEF IInv, Marked
  <2>2. CASE b # s
    BY <2>1, <2>2, <1>1 DEF IInv, Data
  <2>3. CASE b = s
    <3>1. z[s] \in Int /\ lastZ[s] \in Int /\ x \in Int
      BY Sorts DEF IInv, Data
    <3>2. z'[s] = x /\ lastZ'[s] = x
      BY <1>1 DEF IInv, Data
    <3>3. Crossed(lastZ[s], x) => z[s] * x <= 0
      <4> SUFFICES ASSUME Crossed(lastZ[s], x) PROVE z[s] * x <= 0
        OBVIOUS
      <4>1. CASE z[s] = 0
        BY <4>1, <3>1
      <4>2. CASE z[s] = lastZ[s]
        <5>1. \A i, j \in Int : (i > 0 /\ j <= 0) \/ (i < 0 /\ j >= 0) => i * j <= 0
          OBVIOUS
        <5> QED  BY <4>2, <5>1, <3>1 DEF Crossed
      <4>3. lastZ[s] # 0
        BY <3>1 DEF Crossed
      <4> QED  BY <4>1, <4>2, <4>3, <2>1, <2>3
    <3>4. spent'[s] \subseteq levels'[s]
      BY <1>1, <2>1, <2>3, <3>3 DEF IInv, Data
    <3> QED  BY <2>3, <3>2, <3>4
  <2> QED  BY <2>2, <2>3
<1>8. Late'
  BY DEF IInv, Late
<1> QED  BY <1>4, <1>5, <1>6, <1>7, <1>8 DEF IInv

LEMMA OnTradeFlowKeeps == ASSUME IInv, NEW s \in MeanRevs, OnTradeFlow(s) PROVE IInv'
<1>1. /\ inFlight[s] > 0 /\ inFlight' = [inFlight EXCEPT ![s] = inFlight[s] - 1]
      /\ UNCHANGED <<fast, sessions, live, pc, trades, emitted, notifying, late>>
  BY DEF OnTradeFlow
<1>2. CASE Ignored(s)
  <2>1. inFlight' \in [MeanRevs -> Nat]
    BY <1>1 DEF IInv, Data
  <2>2. Data'
    BY <1>1, <1>2, <2>1 DEF Ignored, IInv, Data, mind
  <2>3. live' \in BOOLEAN
    BY <1>1, Zenon DEF IInv
  <2>4. Paced' /\ Marked' /\ Late'
    BY <1>1, <1>2 DEF Ignored, IInv, Paced, Marked, Late, mind
  <2> QED  BY <2>2, <2>3, <2>4 DEF IInv
<1>3. CASE \E x \in Zs : Observed(s, x)
  BY <1>1, <1>3, ObservedKeeps
<1> QED  BY <1>2, <1>3 DEF OnTradeFlow

LEMMA NextKeeps == IInv /\ [Next]_vars => IInv'
<1> SUFFICES ASSUME IInv, [Next]_vars PROVE IInv'
  OBVIOUS
<1>1. CASE StartBots \/ Cancel
  BY <1>1, StartKeeps, CancelKeeps
<1>2. ASSUME NEW b \in Bots, Run(b) PROVE IInv'
  BY <1>2, LoopKeeps, SwapKeeps, SignalKeeps, ResetCountKeeps, ForgetKeeps
    DEF Run, RunNoise, RunMeanRev, Swaps
<1>3. CASE (\E b \in Bots : RecordTrade(b)) \/ (\E s \in MeanRevs : Notify(s))
  BY <1>3, FlowKeeps
<1>4. CASE \E s \in MeanRevs : OnTradeFlow(s)
  BY <1>4, OnTradeFlowKeeps
<1>5. CASE UNCHANGED vars
  <2>1. Data'
    BY <1>5 DEF IInv, Data, vars, mind, flow, hist
  <2>2. live' \in BOOLEAN
    BY <1>5, Zenon DEF IInv, vars
  <2>3. Paced' /\ Marked' /\ Late'
    BY <1>5 DEF IInv, Paced, Marked, Late, vars, mind, hist
  <2> QED  BY <2>1, <2>2, <2>3 DEF IInv
<1> QED  BY <1>1, <1>2, <1>3, <1>4, <1>5 DEF Next

LEMMA AlwaysIInv == Spec => []IInv
  BY InitHolds, NextKeeps, PTL DEF Spec, Safe

-------------------------------------------------------------------------------
(* The types.                                                              *)
THEOREM TradersTypeOK == Spec => []TypeOK
<1>1. IInv => TypeOK
  BY Zenon DEF IInv, Data, Pcs, TypeOK
<1> QED  BY <1>1, AlwaysIInv, PTL

(* A cancelled bot sends one more swap at most, whichever of its timer and *)
(* its context wins.                                                       *)
THEOREM TradersOneLateTrade == Spec => []OneLateTrade
<1>1. IInv => OneLateTrade
  BY DEF IInv, Late, OneLateTrade
<1> QED  BY <1>1, AlwaysIInv, PTL

(* A mean-reversion bot trades after MinTrades trades of others, observed  *)
(* since its last swap that was answered.                                  *)
THEOREM TradersPaced == Spec => PacedTrades
<1>1. IInv /\ [Next]_vars =>
        [\A b \in MeanRevs : SendsSwap(b) => observed[b] = MinTrades]_vars
  BY DEF IInv, Paced, SendsSwap, At
<1> QED  BY <1>1, AlwaysIInv, PTL DEF PacedTrades, Spec, Safe

(* A level is signalled once per excursion: only a signal marks a level,   *)
(* and it takes one that is not marked, while what is spent is.            *)
THEOREM TradersOncePerExcursion == Spec => OncePerExcursion
<1>1. IInv /\ [Next]_vars =>
        [\A b \in MeanRevs : (levels'[b] \ levels[b]) \cap spent[b] = {}]_vars
  <2> SUFFICES ASSUME IInv, Next, NEW b \in MeanRevs
               PROVE  (levels'[b] \ levels[b]) \cap spent[b] = {}
    OBVIOUS
  <2>1. spent[b] \subseteq levels[b]
    BY DEF IInv, Marked
  <2> QED  BY <2>1
<1> QED  BY <1>1, AlwaysIInv, PTL DEF OncePerExcursion, Spec, Safe

================================================================================
