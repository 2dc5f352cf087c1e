---------------------------- MODULE MarketDataProof ----------------------------
(***************************************************************************)
(* Proofs about MarketData, for any prices, emitters, resets and bounds.   *)
(***************************************************************************)
EXTENDS MarketData, FiniteSetTheorems, SequenceTheorems, TLAPS

Who     == Emitters \cup {Poller}
Candle  == [slot : Nat, open : Nat, high : Nat, low : Nat, close : Nat]
TickRec == [slot : Nat, price : Nat]
Event   == [by : Who, era : Nat]

(* The variables hold values of their types.                               *)
TypeOK ==
  /\ running \in BOOLEAN /\ slot \in Nat
  /\ candles \in Seq(Candle) /\ ticks \in Seq(TickRec) /\ events \in Seq(Event)
  /\ resetting \in [Resets -> {"none", "session", "locked", "done"}]
  /\ looked \in [Who -> Nat]
  /\ pollpc \in {"idle", "look", "again", "record"}
  /\ price \in Nat /\ base \in Nat /\ anchored \in BOOLEAN

-------------------------------------------------------------------------------
(* Reset requests are finitely many, so the era is a number, and only a    *)
(* request that leaves "none" changes it.                                  *)
LEMMA EraIsNat == Era \in Nat
  <1>1. IsFiniteSet({x \in Resets : resetting[x] # "none"})
    BY MarketAssumption, FS_Subset DEF MarketAssumption
  <1> QED
    BY <1>1, FS_CardinalityType DEF Era

(* The era is a matter of which resets are under way.                      *)
LEMMA EraKept ==
  ASSUME \A x \in Resets : resetting'[x] = "none" <=> resetting[x] = "none"
  PROVE  Era' = Era
  BY DEF Era

-------------------------------------------------------------------------------
(* A sequence with one element more.                                       *)
LEMMA Appended ==
  ASSUME NEW S, NEW s \in Seq(S), NEW x \in S
  PROVE  /\ Append(s, x) \in Seq(S)
         /\ Len(s) \in Nat /\ DOMAIN s = 1 .. Len(s)
         /\ DOMAIN Append(s, x) = 1 .. Len(s) + 1
         /\ Len(Append(s, x)) = Len(s) + 1
         /\ \A i \in 1 .. Len(s) : Append(s, x)[i] = s[i]
         /\ Append(s, x)[Len(s) + 1] = x
  <1>1. /\ Append(s, x) \in Seq(S) /\ Len(Append(s, x)) = Len(s) + 1
        /\ \A i \in 1 .. Len(s) : Append(s, x)[i] = s[i]
        /\ Append(s, x)[Len(s) + 1] = x
    BY AppendProperties
  <1> QED
    BY <1>1, LenProperties

-------------------------------------------------------------------------------
(* A recorded price leaves typed candles and ticks.                        *)
LEMMA RecordPriceTypes ==
  ASSUME TypeOK, NEW p \in Nat, RecordPrice(p)
  PROVE  candles' \in Seq(Candle) /\ ticks' \in Seq(TickRec)
  <1>1. ticks' \in Seq(TickRec)
    BY DEF RecordPrice, TypeOK, TickRec
  <1>2. CASE candles = <<>> \/ slot > candles[Len(candles)].slot
    <2>1. NewCandle(p) \in Candle
      BY DEF NewCandle, TypeOK, Candle
    <2>2. candles' = Append(candles, NewCandle(p))
      BY <1>2 DEF RecordPrice
    <2> QED
      BY <1>1, <2>1, <2>2, Appended DEF TypeOK
  <1>3. CASE ~(candles = <<>> \/ slot > candles[Len(candles)].slot)
    <2> DEFINE n == Len(candles)
    <2>1. n \in 1 .. Len(candles) /\ candles[n] \in Candle
      BY <1>3, EmptySeq, ElementOfSeq DEF TypeOK
    <2>2. Widened(candles[n], p) \in Candle
      BY <2>1 DEF Widened, Candle
    <2>3. candles' = [candles EXCEPT ![n] = Widened(candles[n], p)]
      BY <1>3 DEF RecordPrice
    <2> QED
      BY <1>1, <2>1, <2>2, <2>3, ExceptSeq DEF TypeOK
  <1> QED
    BY <1>2, <1>3

(* A recorded event leaves typed events.                                   *)
LEMMA RecordEventTypes ==
  ASSUME TypeOK, NEW e \in Who, RecordEvent(e)
  PROVE  events' \in Seq(Event) /\ looked' \in [Who -> Nat]
  <1> DEFINE all == Append(events, [by |-> e, era |-> looked[e]])
  <1>1. all \in Seq(Event) /\ all # <<>>
    <2>1. [by |-> e, era |-> looked[e]] \in Event
      BY DEF TypeOK, Event
    <2>2. all \in Seq(Event) /\ Len(all) = Len(events) + 1 /\ Len(events) \in Nat
      BY <2>1, Appended DEF TypeOK
    <2> QED
      BY <2>2
  <1>2. Tail(all) \in Seq(Event)
    BY <1>1, HeadTailProperties
  <1> QED
    BY <1>1, <1>2 DEF RecordEvent, TypeOK

(* Every variable keeps its type.                                          *)
LEMMA TypeKept == TypeOK /\ [Next]_vars => TypeOK'
  <1> SUFFICES ASSUME TypeOK, [Next]_vars PROVE TypeOK'
    OBVIOUS
  <1> USE DEF TypeOK, poll
  <1>1. CASE SessionStarts \/ SessionEnds \/ UNCHANGED vars
    BY <1>1 DEF SessionStarts, SessionEnds, vars
  <1>8. CASE Clock
    BY <1>8 DEF Clock
  <1>2. ASSUME NEW p \in Prices, PollReads(p) PROVE TypeOK'
    <2>1. p \in Nat
      BY MarketAssumption DEF MarketAssumption
    <2> QED
      BY <1>2, <2>1, RecordPriceTypes DEF PollReads
  <1>3. CASE PollLooks
    BY <1>3 DEF PollLooks, Anchors
  <1>4. CASE PollLooksAgain
    BY <1>4, EraIsNat DEF PollLooksAgain, Anchors, Who
  <1>5. CASE PollRecords
    BY <1>5, RecordEventTypes DEF PollRecords, Anchors, Who
  <1>6. ASSUME NEW e \in Emitters, EmitterLooks(e) \/ EmitterRecords(e) PROVE TypeOK'
    BY <1>6, RecordEventTypes, EraIsNat DEF EmitterLooks, EmitterRecords, Who
  <1>7. ASSUME NEW x \in Resets, ResetSession(x) \/ ResetPrices(x) \/ ResetEvents(x) PROVE TypeOK'
    BY <1>7, EmptySeq DEF ResetSession, ResetPrices, ResetEvents, Goes
  <1> QED
    BY <1>1, <1>2, <1>3, <1>4, <1>5, <1>6, <1>7, <1>8 DEF Next

(* The store, the clock and the poll keep their types throughout.          *)
THEOREM MarketTypeCorrect == Spec => []TypeOK
  <1>1. Init => TypeOK
    <2>1. <<>> \in Seq(Candle) /\ <<>> \in Seq(TickRec) /\ <<>> \in Seq(Event)
      BY EmptySeq
    <2>2. ASSUME Init PROVE resetting \in [Resets -> {"none", "session", "locked", "done"}]
                         /\ looked \in [Who -> Nat]
      BY <2>2 DEF Init, Who
    <2>3. ASSUME Init
          PROVE  candles \in Seq(Candle) /\ ticks \in Seq(TickRec) /\ events \in Seq(Event)
      BY <2>1, <2>3, Zenon DEF Init
    <2>4. ASSUME Init
          PROVE  /\ running \in BOOLEAN /\ slot \in Nat /\ price \in Nat /\ base \in Nat
                 /\ pollpc \in {"idle", "look", "again", "record"} /\ anchored \in BOOLEAN
      BY <2>4 DEF Init
    <2> QED
      BY <2>2, <2>3, <2>4, Zenon DEF TypeOK
  <1> QED
    BY <1>1, TypeKept, PTL DEF Spec

-------------------------------------------------------------------------------
(* Prices are recorded in the order of their slots, none ahead of time.    *)
TicksInOrder ==
  /\ \A i, j \in DOMAIN ticks : i < j => ticks[i].slot <= ticks[j].slot
  /\ \A i \in DOMAIN ticks : ticks[i].slot <= slot

(* The clauses of CandlesSummarize: the slots, and what a candle says.     *)
SlotsInOrder == \A k, l \in DOMAIN candles : k < l => candles[k].slot < candles[l].slot
SlotsSame == {candles[k].slot : k \in DOMAIN candles} = {ticks[i].slot : i \in DOMAIN ticks}

Mine(s) == {i \in DOMAIN ticks : ticks[i].slot = s}

Summary(c) ==
  /\ \E i \in Mine(c.slot) : c.open = ticks[i].price /\ \A j \in Mine(c.slot) : i <= j
  /\ \E i \in Mine(c.slot) : c.close = ticks[i].price /\ \A j \in Mine(c.slot) : j <= i
  /\ \E i \in Mine(c.slot) :
       c.high = ticks[i].price /\ \A j \in Mine(c.slot) : ticks[j].price <= c.high
  /\ \E i \in Mine(c.slot) :
       c.low = ticks[i].price /\ \A j \in Mine(c.slot) : c.low <= ticks[j].price

(* The property, in the parts that are proved one by one.                  *)
LEMMA CandlesClauses ==
  CandlesSummarize <=> SlotsInOrder /\ SlotsSame /\ \A k \in DOMAIN candles : Summary(candles[k])
  BY DEF CandlesSummarize, SlotsInOrder, SlotsSame, Summary, Mine

(* The last candle is that of the last price, so none is of a later slot   *)
(* and no price of a later one than its own.                               *)
LEMMA LastCandle ==
  ASSUME TypeOK, TicksInOrder, SlotsInOrder, SlotsSame
  PROVE  /\ candles = <<>> <=> ticks = <<>>
         /\ candles # <<>> =>
              LET s == candles[Len(candles)].slot
              IN  s <= slot /\ \A i \in DOMAIN ticks : ticks[i].slot <= s
  <1>1. DOMAIN candles = 1 .. Len(candles) /\ Len(candles) \in Nat
    BY LenProperties DEF TypeOK
  <1>2. DOMAIN ticks = 1 .. Len(ticks) /\ Len(ticks) \in Nat
    BY LenProperties DEF TypeOK
  <1>3. /\ \A k \in DOMAIN candles : \E i \in DOMAIN ticks : ticks[i].slot = candles[k].slot
        /\ \A i \in DOMAIN ticks : \E k \in DOMAIN candles : ticks[i].slot = candles[k].slot
    BY DEF SlotsSame
  <1>4. /\ candles = <<>> <=> DOMAIN candles = {}
        /\ ticks = <<>> <=> DOMAIN ticks = {}
    <2>1. ASSUME NEW S, NEW q \in Seq(S) PROVE q = <<>> <=> DOMAIN q = {}
      OBVIOUS
    <2> QED
      BY <2>1 DEF TypeOK
  <1>5. ASSUME candles # <<>>
        PROVE  LET s == candles[Len(candles)].slot
               IN  s <= slot /\ \A i \in DOMAIN ticks : ticks[i].slot <= s
    <2>1. Len(candles) \in DOMAIN candles /\ \A k \in DOMAIN candles : k <= Len(candles)
      BY <1>1, <1>4, <1>5
    <2>2. \A k \in DOMAIN candles : candles[k].slot \in Nat
      <3>1. \A k \in DOMAIN candles : candles[k] \in Candle
        BY <1>1, ElementOfSeq DEF TypeOK
      <3> QED
        BY <3>1 DEF Candle
    <2>3. \A k \in DOMAIN candles : candles[k].slot <= candles[Len(candles)].slot
      BY <1>1, <2>1, <2>2 DEF SlotsInOrder
    <2> QED
      BY <1>3, <2>1, <2>3 DEF TicksInOrder
  <1> QED
    BY <1>3, <1>4, <1>5

-------------------------------------------------------------------------------
(* What a new price adds.                                                  *)
LEMMA NewTick ==
  ASSUME TypeOK, TicksInOrder, NEW p \in Nat, RecordPrice(p), slot' = slot
  PROVE  LET m == Len(ticks) + 1
         IN  /\ m \in Nat \ {0} /\ DOMAIN ticks' = 1 .. m /\ DOMAIN ticks = 1 .. m - 1
             /\ \A i \in DOMAIN ticks : ticks'[i] = ticks[i] /\ i < m
             /\ ticks'[m].slot = slot /\ ticks'[m].price = p
             /\ \A s : Mine(s)' = IF s = slot THEN Mine(s) \cup {m} ELSE Mine(s)
             /\ TicksInOrder'
  <1> DEFINE m == Len(ticks) + 1
             t == [slot |-> slot, price |-> p]
  <1>1. t \in TickRec /\ ticks' = Append(ticks, t)
    BY DEF RecordPrice, TypeOK, TickRec
  <1>2. /\ m \in Nat \ {0} /\ DOMAIN ticks' = 1 .. m /\ DOMAIN ticks = 1 .. m - 1
        /\ \A i \in DOMAIN ticks : ticks'[i] = ticks[i] /\ i < m
        /\ ticks'[m] = t
    BY <1>1, Appended DEF TypeOK
  <1>3. \A i \in DOMAIN ticks' : i = m \/ i \in DOMAIN ticks
    BY <1>2
  <1>4. ASSUME NEW s PROVE Mine(s)' = IF s = slot THEN Mine(s) \cup {m} ELSE Mine(s)
    BY <1>2, <1>3 DEF Mine
  <1>5. TicksInOrder'
    <2>1. \A i \in DOMAIN ticks' : ticks'[i].slot <= slot'
      BY <1>2, <1>3 DEF TicksInOrder, TypeOK
    <2>2. ASSUME NEW i \in DOMAIN ticks', NEW j \in DOMAIN ticks', i < j
          PROVE  ticks'[i].slot <= ticks'[j].slot
      <3>1. i \in DOMAIN ticks
        BY <1>2, <1>3, <2>2
      <3> QED
        BY <1>2, <1>3, <2>2, <3>1 DEF TicksInOrder
    <2> QED
      BY <2>1, <2>2 DEF TicksInOrder
  <1> QED
    BY <1>2, <1>4, <1>5

(* A candle of another slot is what it was; one of this slot, new or       *)
(* widened, takes the price in.                                            *)
LEMMA SummaryKept ==
  ASSUME TypeOK, TicksInOrder, NEW p \in Nat, RecordPrice(p), slot' = slot,
         NEW c \in Candle, c.slot # slot, Summary(c)
  PROVE  Summary(c)'
  <1>1. Mine(c.slot)' = Mine(c.slot) /\ \A i \in Mine(c.slot) : ticks'[i] = ticks[i]
    BY NewTick DEF Mine
  <1> QED
    BY <1>1 DEF Summary

(* A new candle summarizes the one price of its slot.                      *)
LEMMA SummaryNew ==
  ASSUME TypeOK, TicksInOrder, NEW p \in Nat, RecordPrice(p), slot' = slot, Mine(slot) = {}
  PROVE  Summary(NewCandle(p))'
  <1> DEFINE m == Len(ticks) + 1
             c == [slot |-> slot, open |-> p, high |-> p, low |-> p, close |-> p]
  <1>1. Mine(slot)' = {m} /\ ticks'[m].price = p /\ m \in Nat
    BY NewTick
  <1>2. NewCandle(p)' = c
    BY DEF NewCandle
  <1>3. Summary(c)'
    BY <1>1 DEF Summary
  <1> QED
    BY <1>2, <1>3 DEF Summary

(* The candle of the slot, widened, summarizes one price more.             *)
LEMMA SummaryWidened ==
  ASSUME TypeOK, TicksInOrder, NEW p \in Nat, RecordPrice(p), slot' = slot,
         NEW c \in Candle, c.slot = slot, Summary(c)
  PROVE  Summary(Widened(c, p))'
  <1> DEFINE m == Len(ticks) + 1
             d == Widened(c, p)
  <1>1. /\ d \in Candle /\ d.slot = slot /\ d.open = c.open /\ d.close = p
        /\ d.high = (IF p > c.high THEN p ELSE c.high)
        /\ d.low = (IF p < c.low THEN p ELSE c.low)
    BY DEF Widened, Candle
  <1>2. /\ Mine(slot)' = Mine(slot) \cup {m} /\ ticks'[m].price = p /\ m \in Nat
        /\ \A i \in Mine(slot) : ticks'[i] = ticks[i] /\ i < m /\ i \in Nat
    BY NewTick DEF Mine
  <1>3. \A i \in Mine(slot) : ticks[i].price \in Nat
    <2>1. \A i \in DOMAIN ticks : ticks[i] \in TickRec
      BY ElementOfSeq, LenProperties DEF TypeOK
    <2> QED
      BY <2>1 DEF TickRec, Mine
  <1>4. \E i \in Mine(slot)' : d.open = ticks'[i].price /\ \A j \in Mine(slot)' : i <= j
    BY <1>1, <1>2 DEF Summary
  <1>5. \E i \in Mine(slot)' : d.close = ticks'[i].price /\ \A j \in Mine(slot)' : j <= i
    BY <1>1, <1>2
  <1>6. \E i \in Mine(slot)' :
          d.high = ticks'[i].price /\ \A j \in Mine(slot)' : ticks'[j].price <= d.high
    <2>1. PICK h \in Mine(slot) :
                 c.high = ticks[h].price /\ \A j \in Mine(slot) : ticks[j].price <= c.high
      BY DEF Summary
    <2>2. CASE p > c.high
      BY <1>1, <1>2, <1>3, <2>1, <2>2
    <2>3. CASE ~(p > c.high)
      BY <1>1, <1>2, <1>3, <2>1, <2>3
    <2> QED
      BY <2>2, <2>3
  <1>7. \E i \in Mine(slot)' :
          d.low = ticks'[i].price /\ \A j \in Mine(slot)' : d.low <= ticks'[j].price
    <2>1. PICK l \in Mine(slot) :
                 c.low = ticks[l].price /\ \A j \in Mine(slot) : c.low <= ticks[j].price
      BY DEF Summary
    <2>2. CASE p < c.low
      BY <1>1, <1>2, <1>3, <2>1, <2>2
    <2>3. CASE ~(p < c.low)
      BY <1>1, <1>2, <1>3, <2>1, <2>3
    <2> QED
      BY <2>2, <2>3
  <1>8. Mine(d.slot)' = Mine(slot)'
    BY <1>1 DEF Mine
  <1> QED
    BY <1>4, <1>5, <1>6, <1>7, <1>8 DEF Summary

(* A price that opens a candle, and one that goes into the last.           *)
LEMMA CandleOpened ==
  ASSUME TypeOK, TicksInOrder, CandlesSummarize, NEW p \in Nat, RecordPrice(p), slot' = slot,
         candles = <<>> \/ slot > candles[Len(candles)].slot
  PROVE  CandlesSummarize'
  <1> DEFINE n == Len(candles)
             c == NewCandle(p)
             m == Len(ticks) + 1
  <1>0. SlotsInOrder /\ SlotsSame /\ \A k \in DOMAIN candles : Summary(candles[k])
    BY CandlesClauses
  <1>1. c \in Candle /\ c.slot = slot /\ c' = c
    BY DEF NewCandle, Candle, TypeOK
  <1>2. /\ n \in Nat /\ DOMAIN candles = 1 .. n /\ DOMAIN candles' = 1 .. n + 1
        /\ \A k \in 1 .. n : candles'[k] = candles[k] /\ candles[k] \in Candle
        /\ candles'[n + 1] = c
    <2>1. candles' = Append(candles, c)
      BY DEF RecordPrice
    <2>2. \A k \in DOMAIN candles : candles[k] \in Candle
      BY ElementOfSeq, LenProperties DEF TypeOK
    <2> QED
      BY <1>1, <2>1, <2>2, Appended DEF TypeOK
  <1>3. Mine(slot) = {}
    <2>1. \A i \in DOMAIN ticks : ticks[i] \in TickRec
      BY ElementOfSeq, LenProperties DEF TypeOK
    <2>2. CASE candles = <<>>
      BY <1>0, <2>2, LastCandle DEF Mine
    <2>3. CASE candles # <<>>
      <3>1. n \in 1 .. n
        BY <1>2, <2>3, EmptySeq DEF TypeOK
      <3>2. candles[n].slot \in Nat
        BY <1>2, <3>1 DEF Candle
      <3> QED
        BY <1>0, <2>1, <2>3, <3>2, LastCandle DEF Mine, TypeOK, TickRec
    <2> QED
      BY <2>2, <2>3
  <1>4. \A k \in 1 .. n : candles[k].slot \in Nat /\ candles[k].slot < slot
    <2> SUFFICES ASSUME NEW k \in 1 .. n PROVE candles[k].slot \in Nat /\ candles[k].slot < slot
      OBVIOUS
    <2>1. PICK i \in DOMAIN ticks : candles[k].slot = ticks[i].slot
      BY <1>0, <1>2 DEF SlotsSame
    <2>2. ticks[i].slot <= slot /\ ticks[i].slot # slot
      BY <1>3 DEF TicksInOrder, Mine
    <2> QED
      <3>1. candles[k].slot \in Nat /\ slot \in Nat
        BY <1>2 DEF Candle, TypeOK
      <3> QED
        BY <2>1, <2>2, <3>1
  <1>5. SlotsInOrder'
    <2> SUFFICES ASSUME NEW k \in 1 .. n + 1, NEW l \in 1 .. n + 1, k < l
                 PROVE  candles'[k].slot < candles'[l].slot
      BY <1>2 DEF SlotsInOrder
    <2>1. k \in 1 .. n
      BY <1>2
    <2>2. CASE l = n + 1
      BY <1>1, <1>2, <1>4, <2>1, <2>2
    <2>3. CASE l # n + 1
      BY <1>0, <1>2, <2>1, <2>3 DEF SlotsInOrder
    <2> QED
      BY <2>2, <2>3
  <1>6. SlotsSame'
    <2>1. {candles'[k].slot : k \in DOMAIN candles'}
            = {candles[k].slot : k \in DOMAIN candles} \cup {slot}
      BY <1>1, <1>2
    <2>2. {ticks'[i].slot : i \in DOMAIN ticks'} = {ticks[i].slot : i \in DOMAIN ticks} \cup {slot}
      BY NewTick
    <2> QED
      BY <1>0, <2>1, <2>2 DEF SlotsSame
  <1>7. ASSUME NEW k \in DOMAIN candles' PROVE Summary(candles[k])'
    <2>1. CASE k = n + 1
      <3>1. candles'[k] = NewCandle(p)'
        BY <1>1, <1>2, <2>1
      <3>2. Summary(NewCandle(p))'
        BY <1>3, SummaryNew
      <3> QED
        BY <3>1, <3>2 DEF Summary
    <2>2. CASE k # n + 1
      <3>1. k \in 1 .. n
        BY <1>2, <2>2
      <3>2. Summary(candles[k]) /\ candles[k] \in Candle /\ candles[k].slot # slot
        BY <1>0, <1>2, <1>4, <3>1 DEF TypeOK
      <3>3. ASSUME NEW e \in Candle, e = candles[k] PROVE Summary(e)'
        BY <3>2, <3>3, SummaryKept
      <3>4. candles'[k] = candles[k]
        BY <1>2, <3>1
      <3> QED
        BY <3>2, <3>3, <3>4 DEF Summary
    <2> QED
      BY <2>1, <2>2
  <1> QED
    BY <1>5, <1>6, <1>7 DEF CandlesSummarize, SlotsInOrder, SlotsSame, Summary, Mine

(* A price that falls in the last candle's slot.                           *)
LEMMA CandleWidened ==
  ASSUME TypeOK, TicksInOrder, CandlesSummarize, NEW p \in Nat, RecordPrice(p), slot' = slot,
         ~(candles = <<>> \/ slot > candles[Len(candles)].slot)
  PROVE  CandlesSummarize'
  <1> DEFINE n == Len(candles)
             c == candles[n]
  <1>0. SlotsInOrder /\ SlotsSame /\ \A k \in DOMAIN candles : Summary(candles[k])
    BY CandlesClauses
  <1>1. n \in Nat /\ n \in 1 .. n /\ DOMAIN candles = 1 .. n
    BY EmptySeq, LenProperties DEF TypeOK
  <1>2. \A k \in 1 .. n : candles[k] \in Candle /\ candles[k].slot \in Nat
    <2>1. \A k \in 1 .. n : candles[k] \in Candle
      BY ElementOfSeq DEF TypeOK
    <2> QED
      BY <2>1 DEF Candle
  <1>3. c.slot = slot
    BY <1>0, <1>1, <1>2, LastCandle DEF TypeOK
  <1>4. Widened(c, p) \in Candle /\ Widened(c, p).slot = slot
    BY <1>1, <1>2, <1>3 DEF Widened, Candle
  <1>5. /\ DOMAIN candles' = 1 .. n
        /\ \A k \in 1 .. n : candles'[k] = IF k = n THEN Widened(c, p) ELSE candles[k]
    <2>1. candles' = [candles EXCEPT ![n] = Widened(c, p)]
      BY DEF RecordPrice
    <2> QED
      BY <1>1, <2>1
  <1>6. \A k \in 1 .. n : candles'[k].slot = candles[k].slot
    BY <1>3, <1>4, <1>5
  <1>7. SlotsInOrder'
    BY <1>0, <1>1, <1>5, <1>6 DEF SlotsInOrder
  <1>8. SlotsSame'
    <2>1. {candles'[k].slot : k \in DOMAIN candles'} = {candles[k].slot : k \in DOMAIN candles}
      BY <1>1, <1>5, <1>6
    <2>2. {ticks'[i].slot : i \in DOMAIN ticks'} = {ticks[i].slot : i \in DOMAIN ticks} \cup {slot}
      BY NewTick
    <2>3. slot \in {candles[k].slot : k \in DOMAIN candles}
      BY <1>1, <1>3
    <2> QED
      BY <1>0, <2>1, <2>2, <2>3 DEF SlotsSame
  <1>9. ASSUME NEW k \in DOMAIN candles' PROVE Summary(candles[k])'
    <2>1. CASE k = n
      <3>1. c \in Candle /\ Summary(c)
        BY <1>0, <1>1, <1>2
      <3>2. ASSUME NEW e \in Candle, e = c PROVE Summary(Widened(e, p))'
        BY <1>3, <3>1, <3>2, SummaryWidened
      <3>3. candles'[k] = Widened(c, p)
        BY <1>5, <2>1
      <3> QED
        BY <3>1, <3>2, <3>3 DEF Summary
    <2>2. CASE k # n
      <3>1. Summary(candles[k]) /\ candles[k] \in Candle
        BY <1>0, <1>1, <1>2, <1>5
      <3>2. candles[k].slot # slot
        <4>0. k \in 1 .. n
          BY <1>5
        <4>1. k \in 1 .. n /\ k < n
          BY <1>1, <2>2, <4>0
        <4>2. candles[k].slot < candles[n].slot
          BY <1>0, <1>1, <4>1 DEF SlotsInOrder
        <4> QED
          BY <1>1, <1>2, <1>3, <4>1, <4>2
      <3>3. candles'[k] = candles[k]
        BY <1>5, <2>2
      <3> QED
        BY <3>1, <3>2, <3>3, SummaryKept DEF Summary
    <2> QED
      BY <2>1, <2>2
  <1> QED
    BY <1>7, <1>8, <1>9 DEF CandlesSummarize, SlotsInOrder, SlotsSame, Summary, Mine

(* Steps that record no price.                                             *)
LEMMA CandlesSame ==
  ASSUME CandlesSummarize, UNCHANGED <<candles, ticks>>
  PROVE  CandlesSummarize'
  <1>0. SlotsInOrder /\ SlotsSame
    BY CandlesClauses
  <1>1. SlotsInOrder' /\ SlotsSame'
    <2>1. SlotsInOrder'
      BY <1>0 DEF SlotsInOrder
    <2>2. SlotsSame'
      BY <1>0 DEF SlotsSame
    <2> QED
      BY <2>1, <2>2
  <1>2. ASSUME NEW k \in DOMAIN candles' PROVE Summary(candles[k])'
    <2>1. Summary(candles[k])
      BY CandlesClauses
    <2>2. Mine(candles[k].slot)' = Mine(candles[k].slot)
      BY DEF Mine
    <2> QED
      BY <2>1, <2>2 DEF Summary
  <1> QED
    BY <1>1, <1>2 DEF CandlesSummarize, SlotsInOrder, SlotsSame, Summary, Mine

(* Nothing but a recorded price, the clock and a reset changes either.     *)
LEMMA CandlesKept ==
  TypeOK /\ TicksInOrder /\ CandlesSummarize /\ [Next]_vars => TicksInOrder' /\ CandlesSummarize'
  <1> SUFFICES ASSUME TypeOK, TicksInOrder, CandlesSummarize, [Next]_vars
               PROVE  TicksInOrder' /\ CandlesSummarize'
    OBVIOUS
  <1>1. CASE UNCHANGED <<slot, candles, ticks>>
    BY <1>1, CandlesSame DEF TicksInOrder
  <1>2. CASE Clock
    <2>1. /\ UNCHANGED <<candles, ticks>> /\ slot' = slot + 1
          /\ \A i \in DOMAIN ticks : ticks[i] \in TickRec
      BY <1>2, ElementOfSeq, LenProperties DEF Clock, TypeOK
    <2>2. TicksInOrder'
      BY <2>1 DEF TicksInOrder, TypeOK, TickRec
    <2> QED
      BY <2>1, <2>2, CandlesSame
  <1>3. ASSUME NEW p \in Prices, PollReads(p) PROVE TicksInOrder' /\ CandlesSummarize'
    <2>1. p \in Nat /\ RecordPrice(p) /\ slot' = slot
      BY <1>3, MarketAssumption DEF PollReads, MarketAssumption
    <2> QED
      BY <2>1, NewTick, CandleOpened, CandleWidened
  <1>4. ASSUME NEW x \in Resets, ResetPrices(x) PROVE TicksInOrder' /\ CandlesSummarize'
    <2>1. candles' = <<>> /\ ticks' = <<>>
      BY <1>4 DEF ResetPrices
    <2>2. DOMAIN candles' = {} /\ DOMAIN ticks' = {}
      BY <2>1
    <2> QED
      BY <2>2 DEF TicksInOrder, CandlesSummarize
  <1> QED
    BY <1>1, <1>2, <1>3, <1>4, Zenon
    DEF Next, SessionStarts, SessionEnds, PollLooks, PollLooksAgain, PollRecords, EmitterLooks,
        EmitterRecords, ResetSession, ResetEvents, vars

(* The candles are a summary of the prices recorded since the last reset,  *)
(* for any prices, any clock and any resets.                               *)
THEOREM CandlesSummarizeHolds == Spec => []CandlesSummarize
  <1>1. Init => TicksInOrder /\ CandlesSummarize
    <2> SUFFICES ASSUME Init PROVE TicksInOrder /\ CandlesSummarize
      OBVIOUS
    <2>1. DOMAIN candles = {} /\ DOMAIN ticks = {}
      BY DEF Init
    <2> QED
      BY <2>1 DEF TicksInOrder, CandlesSummarize
  <1> QED
    BY <1>1, CandlesKept, MarketTypeCorrect, PTL DEF Spec
-------------------------------------------------------------------------------
(* Between ticks of the poll no reportable move is pending.                *)
LEMMA NoDriftKept == TypeOK /\ NoSilentDrift /\ [Next]_vars => NoSilentDrift'
  <1> SUFFICES ASSUME TypeOK, NoSilentDrift, [Next]_vars PROVE NoSilentDrift'
    OBVIOUS
  <1> USE DEF NoSilentDrift, TypeOK, poll
  <1>1. CASE UNCHANGED poll
    BY <1>1 DEF Moved
  <1>2. ASSUME NEW p \in Prices, PollReads(p) PROVE NoSilentDrift'
    BY <1>2 DEF PollReads
  <1>3. CASE PollLooks
    BY <1>3 DEF PollLooks, Anchors, Moved
  <1>4. CASE PollLooksAgain
    BY <1>4 DEF PollLooksAgain, Anchors, Moved
  <1>5. CASE PollRecords
    BY <1>5 DEF PollRecords, Anchors, Moved
  <1> QED
    BY <1>1, <1>2, <1>3, <1>4, <1>5, Zenon
    DEF Next, SessionStarts, SessionEnds, Clock, EmitterLooks, EmitterRecords, ResetSession,
        ResetPrices, ResetEvents, vars

(* No move of the reporting threshold is ever forgotten, whenever sessions *)
(* start, end or are reset.                                                *)
THEOREM NoSilentDriftHolds == Spec => []NoSilentDrift
  <1>1. Init => NoSilentDrift
    BY DEF Init, NoSilentDrift
  <1> QED
    BY <1>1, NoDriftKept, MarketTypeCorrect, PTL DEF Spec
-------------------------------------------------------------------------------
(* No reset is under way; and then whoever has an old event in the list    *)
(* has no other, and has nothing old left to log.                          *)
Settled == \A x \in Resets : resetting[x] \in {"none", "done"}

Old(e, list) == {i \in DOMAIN list : list[i].by = e /\ list[i].era < Era}

OneLook ==
  Settled => \A e \in Who :
    /\ \A i, j \in Old(e, events) : i = j
    /\ Old(e, events) # {} => looked[e] \in {0, Era}

(* Logging an event, which may push the first out of the list.             *)
LEMMA EventKeeps ==
  ASSUME TypeOK, OneLook, NEW w \in Who, RecordEvent(w), resetting' = resetting
  PROVE  OneLook'
  <1> DEFINE v == [by |-> w, era |-> looked[w]]
             all == Append(events, v)
             n == Len(events)
  <1>1. Era' = Era /\ Era \in Nat
    BY EraKept, EraIsNat
  <1>2. v \in Event
    BY DEF TypeOK, Event
  <1>3. /\ all \in Seq(Event) /\ n \in Nat /\ DOMAIN events = 1 .. n /\ DOMAIN all = 1 .. n + 1
        /\ Len(all) = n + 1 /\ \A i \in 1 .. n : all[i] = events[i]
        /\ all[n + 1] = v
    BY <1>2, Appended DEF TypeOK
  <1>4. /\ looked[w] # 0 /\ looked' = [looked EXCEPT ![w] = 0]
        /\ events' = IF n + 1 > MaxEvents THEN Tail(all) ELSE all
    BY <1>3 DEF RecordEvent
  <1> SUFFICES ASSUME Settled, NEW e \in Who
               PROVE  /\ \A i, j \in Old(e, events)' : i = j
                      /\ Old(e, events)' # {} => looked'[e] \in {0, Era}
    BY <1>1 DEF OneLook, Settled
  <1>5. \A i \in Old(e, all) : i \in Old(e, events) \/ (i = n + 1 /\ e = w /\ looked[w] < Era)
    BY <1>3 DEF Old
  <1>6. /\ \A i, j \in Old(e, all) : i = j
        /\ Old(e, all) # {} => looked'[e] \in {0, Era}
    <2>1. CASE e = w /\ looked[w] < Era
      <3>1. Old(e, events) = {}
        <4>1. looked[e] \notin {0, Era}
          BY <1>1, <1>4, <2>1 DEF TypeOK
        <4> QED
          BY <4>1 DEF OneLook
      <3> QED
        BY <1>4, <1>5, <2>1, <3>1 DEF TypeOK
    <2>2. CASE ~(e = w /\ looked[w] < Era)
      BY <1>4, <1>5, <2>2 DEF OneLook, TypeOK
    <2> QED
      BY <2>1, <2>2
  <1>7. CASE events' = all
    BY <1>1, <1>6, <1>7 DEF Old
  <1>8. CASE events' = Tail(all)
    <2>1. \A i \in DOMAIN Tail(all) : i + 1 \in DOMAIN all /\ Tail(all)[i] = all[i + 1] /\ i \in Nat
      <3>1. all # <<>>
        BY <1>3
      <3>2. /\ Len(Tail(all)) = n /\ Tail(all) \in Seq(Event)
            /\ \A i \in 1 .. Len(Tail(all)) : Tail(all)[i] = all[i + 1]
        BY <1>3, <3>1, HeadTailProperties
      <3> QED
        BY <1>3, <3>2, LenProperties
    <2>2. \A i \in Old(e, events)' : i + 1 \in Old(e, all) /\ i \in Nat
      BY <1>1, <1>8, <2>1 DEF Old
    <2> QED
      BY <1>6, <2>2
  <1> QED
    BY <1>4, <1>7, <1>8

(* Every step keeps it: an event is recorded by one who looked at most once*)
(* in an era.                                                              *)
LEMMA OneLookKept == TypeOK /\ OneLook /\ [Next]_vars => OneLook'
  <1> SUFFICES ASSUME TypeOK, OneLook, [Next]_vars PROVE OneLook'
    OBVIOUS
  <1>1. CASE UNCHANGED <<resetting, looked, events>>
    <2>1. Era' = Era
      BY <1>1, EraKept
    <2> QED
      BY <1>1, <2>1 DEF OneLook, Settled, Old
  <1>2. ASSUME NEW w \in Who, looked' = [looked EXCEPT ![w] = Era], UNCHANGED <<resetting, events>>
        PROVE  OneLook'
    <2>1. Era' = Era
      BY <1>2, EraKept
    <2> QED
      BY <1>2, <2>1 DEF OneLook, Settled, Old, TypeOK
  <1>3. ASSUME NEW w \in Who, RecordEvent(w), resetting' = resetting PROVE OneLook'
    BY <1>3, EventKeeps
  <1>4. ASSUME NEW x \in Resets, ResetSession(x) \/ ResetPrices(x) PROVE OneLook'
    BY <1>4 DEF ResetSession, ResetPrices, Goes, OneLook, Settled, TypeOK
  <1>5. ASSUME NEW x \in Resets, ResetEvents(x) PROVE OneLook'
    <2>1. DOMAIN events' = {}
      BY <1>5 DEF ResetEvents
    <2> QED
      BY <2>1 DEF OneLook, Old
  <1>6. CASE PollLooksAgain
    BY <1>1, <1>2, <1>6, Zenon DEF PollLooksAgain, Who
  <1>7. CASE PollRecords
    BY <1>3, <1>7, Zenon DEF PollRecords, Who
  <1>8. ASSUME NEW e \in Emitters, EmitterLooks(e) PROVE OneLook'
    BY <1>2, <1>8, Zenon DEF EmitterLooks, Who
  <1>9. ASSUME NEW e \in Emitters, EmitterRecords(e) PROVE OneLook'
    BY <1>3, <1>9, Zenon DEF EmitterRecords, Who
  <1> QED
    BY <1>1, <1>4, <1>5, <1>6, <1>7, <1>8, <1>9, Zenon
    DEF Next, SessionStarts, SessionEnds, Clock, PollReads, PollLooks, vars

(* A reset leaves at most one old event of each who logs, however many     *)
(* resets overlap and however long the list.                               *)
THEOREM FewStaleEventsHolds == Spec => []FewStaleEvents
  <1>1. Init => OneLook
    <2> SUFFICES ASSUME Init PROVE OneLook
      OBVIOUS
    <2>1. DOMAIN events = {}
      BY DEF Init
    <2> QED
      BY <2>1 DEF OneLook, Old
  <1>2. OneLook => FewStaleEvents
    <2> SUFFICES ASSUME OneLook, Settled, NEW e \in Who
                 PROVE  Cardinality(Old(e, events)) <= 1
      BY DEF FewStaleEvents, Settled, Old, Who
    <2>1. CASE Old(e, events) = {}
      BY <2>1, FS_EmptySet
    <2>2. ASSUME NEW i \in Old(e, events) PROVE Cardinality(Old(e, events)) <= 1
      <3>1. Old(e, events) = {i}
        BY DEF OneLook
      <3> QED
        BY <3>1, FS_Singleton
    <2> QED
      BY <2>1, <2>2
  <1> QED
    BY <1>1, <1>2, OneLookKept, MarketTypeCorrect, PTL DEF Spec
===============================================================================
