-------------------------------- MODULE Accounts -------------------------------
(***************************************************************************)
(* The performance books of backend/internal/metrics/account.go and the    *)
(* trade recorder of backend/internal/store/memory.go that fills them: one *)
(* book per account, opened when a session starts, marked to market by     *)
(* each trade and closed at the session's last price.                      *)
(*                                                                         *)
(* The manager goes through the books one by one under its mutex; a trade  *)
(* needs that mutex only to find its book, so that it can check a book and *)
(* write to it on two sides of an opening or of a closing.  Amounts and    *)
(* prices are integers: the rounding of float64 is left out.               *)
(***************************************************************************)
EXTENDS Integers, Sequences

CONSTANTS
  Accounts,         (* config.Accounts: each has its book from the start   *)
  NormalizedETH,    (* NormalizedStartingETH and ...APPL: what every book  *)
  NormalizedAPPL,   (* of a session starts with                            *)
  FirstEquities,    (* the equities read on chain when the program starts  *)
  Amounts,          (* of ETH and of APPL, in a trade: 0 when no reserves  *)
                    (* could be read for what the trade gets               *)
  Prices,           (* in ETH: 0 when the chain cannot be asked            *)
  MaxTrades,        (* bound: trades in one book                           *)
  MaxClosers        (* bound: finalizations under way                      *)

ASSUME AccountsAssumption ==
  /\ NormalizedETH \in Nat \ {0} /\ NormalizedAPPL \in Nat
  /\ FirstEquities \subseteq Nat \ {0}
  /\ Amounts \subseteq Nat /\ Prices \subseteq Nat
  /\ MaxTrades \in Nat /\ MaxClosers \in Nat

VARIABLES
  book,       (* of each account: its AccountMetrics                       *)
  trade,      (* what RecordTrade does: NoTrade, or the trade it records   *)
  loop,       (* what the manager does to the books it has still to visit  *)
  stored,     (* sessionVolatility # 0                                     *)
  closers     (* finalizations that have stored the volatility only        *)

vars == <<book, trade, loop, stored, closers>>

NoTrade == [at |-> "none"]
Idle == [op |-> "none"]
Free == loop = Idle     (* the mutex of the manager *)

-------------------------------------------------------------------------------
(* One book.  state: "none" before a session and after a hard reset (not   *)
(* sessionStarted), "open" (IsSessionActive), "closed".  Of its trades it  *)
(* has the sum of their PnL, the APPL they got and the ETH they spent; of  *)
(* those of no APPL also the drift: what the price had moved before them,  *)
(* which their PnL holds beside their cost.  skipped is the drift at the   *)
(* last closing.  A point of the equity curve has the equity and the peak  *)
(* its drawdown, (peak - equity) / peak, is from.                          *)

Point(equity, peak) == [equity |-> equity, peak |-> peak]

NewAccountMetrics(equity) ==
  [state |-> "none", eth |-> equity, apple |-> 0, initial |-> equity,
   start |-> 0, close |-> 0, peak |-> equity, curve |-> <<Point(equity, equity)>>,
   pnl |-> 0, got |-> 0, spent |-> 0, drift |-> 0, skipped |-> 0]

Equity(b, price) == b.eth + b.apple * price
LastEquity(b) == b.curve[Len(b.curve)].equity
Higher(x, y) == IF x > y THEN x ELSE y

(* A buy gets APPL for ETH; a sell is a buy of negative amounts.           *)
Record(b, eth, apple, price) ==
  LET after == [b EXCEPT !.eth = b.eth - eth, !.apple = b.apple + apple]
      equity == Equity(after, price)
      peak == Higher(b.peak, equity)
      gain == equity - LastEquity(b)
  IN  [after EXCEPT !.pnl = b.pnl + gain,
                    !.got = b.got + apple, !.spent = b.spent + eth,
                    !.drift = IF apple = 0 THEN b.drift + (gain + eth) ELSE b.drift,
                    !.peak = peak, !.curve = Append(b.curve, Point(equity, peak))]

Wipe(b) == NewAccountMetrics(b.initial)

(* Mutant of Open: the peak of the last session stays.                     *)
OpenKeepsPeak(b, price) ==
  LET equity == NormalizedETH + NormalizedAPPL * price
      peak == Higher(b.peak, equity)
  IN  [state |-> "open", eth |-> NormalizedETH, apple |-> NormalizedAPPL,
       initial |-> equity, start |-> equity, close |-> 0, peak |-> peak,
       curve |-> <<Point(equity, peak)>>,
       pnl |-> 0, got |-> 0, spent |-> 0, drift |-> 0, skipped |-> 0]

Open(b, price) ==
  LET equity == NormalizedETH + NormalizedAPPL * price
  IN  [state |-> "open", eth |-> NormalizedETH, apple |-> NormalizedAPPL,
       initial |-> equity, start |-> equity, close |-> 0, peak |-> equity,
       curve |-> <<Point(equity, equity)>>,
       pnl |-> 0, got |-> 0, spent |-> 0, drift |-> 0, skipped |-> 0]

(* A closing at this price that leaves the trades with this PnL.           *)
CloseWith(b, price, pnl) ==
  LET equity == Equity(b, price)
      peak == Higher(b.peak, equity)
      last == Len(b.curve)
  IN  [b EXCEPT !.state = "closed", !.close = price, !.peak = peak,
          !.pnl = pnl, !.skipped = b.drift,
          !.curve = [i \in 1 .. last |->
             Point(IF i = last THEN equity ELSE b.curve[i].equity, peak)]]

(* Mutant of Close: a trade of no APPL is valued anew, too.                *)
CloseValuesAll(b, price) ==
  IF b.state = "none" THEN b ELSE CloseWith(b, price, b.got * price - b.spent)

(* Mutant of Close: a book without trades is left as it is.                *)
CloseSkips(b, price) ==
  IF b.state = "none" \/ Len(b.curve) = 1 THEN b
  ELSE CloseWith(b, price, b.got * price - b.spent + b.drift)

(* Every trade of some APPL is valued anew, a buy at (price - its price) * *)
(* APPL, which sums to what the APPL got is worth less the ETH spent; one  *)
(* of no APPL keeps its PnL, its cost and its drift.  The last point takes *)
(* the final equity and every drawdown is from the final peak.             *)
Close(b, price) ==
  IF b.state = "none" THEN b
  ELSE CloseWith(b, price, b.got * price - b.spent + b.drift)

(* What a report says of a book.                                           *)
PortfolioPnL(b) ==
  LastEquity(b) - (IF b.state # "none" /\ b.start > 0 THEN b.start ELSE b.initial)
TradingPnL(b) == b.pnl
PositionPnL(b) == PortfolioPnL(b) - TradingPnL(b)

-------------------------------------------------------------------------------
(* RecordTrade of the store, one trade at a time under the store's mutex.  *)

Init ==
  /\ book \in [Accounts -> {NewAccountMetrics(e) : e \in FirstEquities}]
  /\ trade = NoTrade /\ loop = Idle /\ stored = FALSE /\ closers = 0

(* GetOrCreate waits for the mutex of the manager.                         *)
FindBook(a) ==
  /\ trade = NoTrade /\ Free /\ Len(book[a].curve) <= MaxTrades
  /\ trade' = [at |-> "check", account |-> a]
  /\ UNCHANGED <<book, loop, stored, closers>>

CheckActive ==
  /\ trade.at = "check"
  /\ trade' = IF book[trade.account].state = "open"
                THEN [trade EXCEPT !.at = "record"] ELSE NoTrade
  /\ UNCHANGED <<book, loop, stored, closers>>

(* It is marked at the close of the last candle, or at its own price.      *)
(* What the account gives is positive; what it gets may be unknown, and 0. *)
WriteTrade(sign, eth, apple, price) ==
  /\ trade.at = "record"
  /\ (IF sign = 1 THEN eth ELSE apple) > 0
  /\ book' = [book EXCEPT ![trade.account] =
                Record(book[trade.account], sign * eth, sign * apple, price)]
  /\ trade' = NoTrade
  /\ UNCHANGED <<loop, stored, closers>>

-------------------------------------------------------------------------------
(* The manager.  ResetForSession at a session's start and after a reseed,  *)
(* Reset by a hard reset, FinalizeSession by the session's hook and by     *)
(* handlers: in any order, each from a goroutine of its own.               *)

(* Mutant of ResetForSession: the volatility of the last session stays.    *)
ResetForSessionKeeps(price) ==
  /\ Free
  /\ loop' = [op |-> "open", todo |-> Accounts, price |-> price]
  /\ UNCHANGED <<book, trade, stored, closers>>

ResetForSession(price) ==
  /\ Free
  /\ loop' = [op |-> "open", todo |-> Accounts, price |-> price]
  /\ stored' = FALSE
  /\ UNCHANGED <<book, trade, closers>>

Reset ==
  /\ Free
  /\ loop' = [op |-> "wipe", todo |-> Accounts, price |-> 0]
  /\ stored' = FALSE
  /\ UNCHANGED <<book, trade, closers>>

(* FinalizeAccountsForSession takes the mutex twice; a volatility of 0, of *)
(* too few candles, is not one that is stored.                             *)
SetSessionVolatility(some) ==
  /\ Free /\ closers < MaxClosers
  /\ stored' = some /\ closers' = closers + 1
  /\ UNCHANGED <<book, trade, loop>>

FinalizeSession(price) ==
  /\ Free /\ closers > 0
  /\ loop' = [op |-> "close", todo |-> Accounts, price |-> price]
  /\ closers' = closers - 1
  /\ UNCHANGED <<book, trade, stored>>

Visited(b) ==
  CASE loop.op = "open" -> Open(b, loop.price)
    [] loop.op = "wipe" -> Wipe(b)
    [] loop.op = "close" -> Close(b, loop.price)

Visit(a) ==
  /\ ~Free /\ a \in loop.todo
  /\ book' = [book EXCEPT ![a] = Visited(book[a])]
  /\ loop' = [loop EXCEPT !.todo = loop.todo \ {a}]
  /\ UNCHANGED <<trade, stored, closers>>

Release ==
  /\ ~Free /\ loop.todo = {}
  /\ loop' = Idle
  /\ UNCHANGED <<book, trade, stored, closers>>

Next ==
  \/ \E a \in Accounts : FindBook(a) \/ Visit(a)
  \/ CheckActive
  \/ \E sign \in {-1, 1}, eth, apple \in Amounts, price \in Prices :
       WriteTrade(sign, eth, apple, price)
  \/ \E price \in Prices : ResetForSession(price) \/ FinalizeSession(price)
  \/ \E some \in BOOLEAN : SetSessionVolatility(some)
  \/ Reset \/ Release

Spec == Init /\ [][Next]_vars

-------------------------------------------------------------------------------
(* Properties.                                                             *)

Points(b) == 1 .. Len(b.curve)

BookType ==
  [state : {"none", "open", "closed"}, eth : Int, apple : Int, initial : Int,
   start : Int, close : Nat, peak : Int, curve : Seq([equity : Int, peak : Int]),
   pnl : Int, got : Int, spent : Int, drift : Int, skipped : Int]

(* The types; a curve is never empty.                                      *)
TypeOK ==
  /\ book \in [Accounts -> BookType]
  /\ \A a \in Accounts : Len(book[a].curve) > 0
  /\ trade \in {NoTrade} \cup [at : {"check", "record"}, account : Accounts]
  /\ loop \in {Idle} \cup
       [op : {"open", "wipe", "close"}, todo : SUBSET Accounts, price : Nat]
  /\ stored \in BOOLEAN /\ closers \in 0 .. MaxClosers

(* The position PnL of a report is what it is named for: nothing until the *)
(* session is closed, then the change of the price from the opening to the *)
(* closing on the APPL the book started with, less the drift in the trades *)
(* the closing does not value anew.  No other trade has a part in it: not  *)
(* one written after the closing or into the next session's book, and not  *)
(* a second closing at another price.                                      *)
PnLSplits ==
  \A a \in Accounts :
    LET b == book[a]
    IN  PositionPnL(b) =
          IF b.state = "closed"
            THEN (NormalizedETH + NormalizedAPPL * b.close) - b.start - b.skipped
            ELSE 0

(* Until the session is closed each drawdown is from the highest equity    *)
(* that the curve had reached by then.                                     *)
DrawdownFromPeak ==
  \A a \in Accounts : book[a].state # "closed" =>
    \A i \in Points(book[a]) :
      LET peak == book[a].curve[i].peak
          reached == {book[a].curve[k].equity : k \in 1 .. i}
      IN  peak \in reached /\ \A e \in reached : e <= peak

(* Whenever the manager is done every account is in the same session: the  *)
(* books started at one price, are all open or all closed, and were closed *)
(* at one price, so that the accounts' reports can be compared.            *)
OneSession ==
  Free => \A a, b \in Accounts :
            /\ book[a].state = book[b].state
            /\ book[a].start = book[b].start
            /\ book[a].close = book[b].close

(* A volatility that is stored is of a session that has ended: the reports *)
(* of an open session compute theirs from the candles.                     *)
VolatilityOfTheEnded ==
  stored /\ Free /\ closers = 0 => \A a \in Accounts : book[a].state # "open"

===============================================================================
