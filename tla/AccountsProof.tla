----------------------------- MODULE AccountsProof -----------------------------
(***************************************************************************)
(* The types of Accounts, how a report splits its PnL, the drawdowns of a  *)
(* book, that all books are in the same session and the stored volatility, *)
(* for all accounts, amounts, prices and bounds.                           *)
(*                                                                         *)
(* A book keeps its own promise (GoodBook) whatever is done to it, so that *)
(* the order of trades and manager does not matter to it.  That books are  *)
(* alike needs the loop: the visited ones are alike, so are the others,    *)
(* and a visit makes one of these like those.                              *)
(***************************************************************************)
EXTENDS Accounts, TLAPS

(* A PnL is what the equity gained since the book's start, less, once the  *)
(* book is closed, what its first APPL gained, but for the drift.          *)
Splits(b) ==
  /\ b.state = "none" => LastEquity(b) - b.pnl = b.initial
  /\ b.state # "none" => /\ b.start > 0
                         /\ b.eth = NormalizedETH - b.spent
                         /\ b.apple = NormalizedAPPL + b.got
  /\ b.state = "open" => LastEquity(b) - b.pnl = b.start
  /\ b.state = "closed" =>
       LastEquity(b) - b.pnl = (NormalizedETH + NormalizedAPPL * b.close) - b.skipped

Highest(curve, i) ==
  /\ \E k \in 1 .. i : curve[k].equity = curve[i].peak
  /\ \A k \in 1 .. i : curve[k].equity <= curve[i].peak

Drawdowns(b) ==
  b.state # "closed" => /\ b.peak = b.curve[Len(b.curve)].peak
                        /\ \A i \in Points(b) : Highest(b.curve, i)

TypedBook(b) == b \in BookType /\ Len(b.curve) > 0
GoodBook(b) == TypedBook(b) /\ Splits(b) /\ Drawdowns(b)

Alike(b, c) == b.state = c.state /\ b.start = c.start /\ b.close = c.close

(* What the manager's loop does for the books it has visited.              *)
SameSession ==
  /\ Free => \A a, c \in Accounts : Alike(book[a], book[c])
  /\ ~Free => \A a, c \in Accounts :
       /\ (a \in loop.todo <=> c \in loop.todo) => Alike(book[a], book[c])
       /\ a \notin loop.todo /\ c \in loop.todo => Alike(book[a], Visited(book[c]))

Volatility ==
  /\ stored => \/ closers > 0
               \/ ~Free /\ loop.op = "close"
               \/ \A a \in Accounts : book[a].state # "open"
  /\ ~Free /\ loop.op = "close" =>
       \A a \in Accounts \ loop.todo : book[a].state # "open"
  /\ ~Free /\ loop.op # "close" => ~stored

Books ==
  /\ book \in [Accounts -> BookType]
  /\ \A a \in Accounts : GoodBook(book[a])
Control ==
  /\ trade \in {NoTrade} \cup [at : {"check", "record"}, account : Accounts]
  /\ loop \in {Idle} \cup
       [op : {"open", "wipe", "close"}, todo : SUBSET Accounts, price : Nat]
  /\ stored \in BOOLEAN /\ closers \in 0 .. MaxClosers

IInv == Books /\ Control /\ SameSession /\ Volatility

-------------------------------------------------------------------------------
(* What is done to a book keeps it good.                                   *)

(* The equity at the end of a typed curve is a number.                     *)
LEMMA LastTyped ==
  ASSUME NEW b, TypedBook(b)
  PROVE  LastEquity(b) \in Int
<1>1. b.curve \in Seq([equity : Int, peak : Int])
  BY DEF TypedBook, BookType
<1>2. Len(b.curve) \in 1 .. Len(b.curve)
  BY <1>1 DEF TypedBook
<1>3. ASSUME NEW R, NEW s \in Seq(R), NEW i \in 1 .. Len(s)
      PROVE  s[i] \in R
  OBVIOUS
<1>4. b.curve[Len(b.curve)] \in [equity : Int, peak : Int]
  BY <1>1, <1>2, <1>3
<1> QED  BY <1>4 DEF LastEquity

(* Fresh metrics are good.                                                 *)
LEMMA NewGood ==
  ASSUME NEW e \in Int
  PROVE  GoodBook(NewAccountMetrics(e))
<1> DEFINE b == NewAccountMetrics(e)
<1>1. TypedBook(b)
  BY DEF TypedBook, BookType, NewAccountMetrics, Point
<1>2. b.state = "none" /\ b.pnl = 0 /\ b.initial = e /\ b.peak = e
      /\ b.curve = <<[equity |-> e, peak |-> e]>>
  BY DEF NewAccountMetrics, Point
<1>3. Splits(b)
  BY <1>2 DEF Splits, LastEquity
<1>4. Drawdowns(b)
  BY <1>2 DEF Drawdowns, Points, Highest
<1> QED  BY <1>1, <1>3, <1>4 DEF GoodBook

(* So is a book that is opened.                                            *)
LEMMA OpenGood ==
  ASSUME NEW b, NEW price \in Nat
  PROVE  GoodBook(Open(b, price))
<1> DEFINE e == NormalizedETH + NormalizedAPPL * price
           c == Open(b, price)
<1>0. e \in Int /\ e > 0
  <2>1. NormalizedAPPL * price \in Nat  BY AccountsAssumption
  <2> QED  BY <2>1, AccountsAssumption
<1>1. TypedBook(c)
  BY <1>0, AccountsAssumption DEF TypedBook, BookType, Open, Point
<1>2. /\ c.state = "open" /\ c.pnl = 0 /\ c.start = e /\ c.peak = e
      /\ c.curve = <<[equity |-> e, peak |-> e]>>
      /\ c.eth = NormalizedETH /\ c.apple = NormalizedAPPL
      /\ c.got = 0 /\ c.spent = 0
  BY DEF Open, Point
<1> HIDE DEF e, c
<1>3. Splits(c)
  BY <1>0, <1>2, AccountsAssumption DEF Splits, LastEquity
<1>4. Drawdowns(c)
  BY <1>0, <1>2 DEF Drawdowns, Points, Highest
<1> QED  BY <1>1, <1>3, <1>4 DEF GoodBook, c

(* So is a good book that is closed.                                       *)
LEMMA CloseGood ==
  ASSUME NEW b, GoodBook(b), NEW price \in Nat
  PROVE  GoodBook(Close(b, price))
<1>1. CASE b.state = "none"
  BY <1>1 DEF Close
<1>2. CASE b.state # "none"
  <2> DEFINE c == Close(b, price)
             e == b.eth + b.apple * price
             p == Higher(b.peak, e)
             n == Len(b.curve)
             pnl == b.got * price - b.spent + b.drift
  <2>1. b \in BookType /\ n \in Nat /\ n > 0
    BY DEF GoodBook, TypedBook, BookType
  <2>2. e \in Int /\ p \in Int
    BY <2>1 DEF BookType, Higher
  <2>3. /\ c.state = "closed" /\ c.close = price /\ c.start = b.start
        /\ c.eth = b.eth /\ c.apple = b.apple /\ c.got = b.got /\ c.spent = b.spent
        /\ c.initial = b.initial /\ c.peak = p
        /\ c.pnl = pnl /\ c.drift = b.drift /\ c.skipped = b.drift
        /\ c.curve = [i \in 1 .. n |-> [equity |-> IF i = n THEN e ELSE b.curve[i].equity,
                                         peak |-> p]]
    BY <1>2, <2>1 DEF Close, CloseWith, BookType, Equity, Point
  <2>4. c.curve \in Seq([equity : Int, peak : Int]) /\ Len(c.curve) = n
    <3> HIDE DEF c, e, p, n
    <3>1. \A i \in 1 .. n : b.curve[i].equity \in Int
      <4>1. b.curve \in Seq([equity : Int, peak : Int])
        BY <2>1 DEF BookType
      <4>2. \A i \in 1 .. n : b.curve[i] \in [equity : Int, peak : Int]
        <5>1. ASSUME NEW R, NEW s \in Seq(R), NEW i \in 1 .. Len(s)
              PROVE  s[i] \in R
          OBVIOUS
        <5> QED  BY <4>1, <5>1 DEF n
      <4> QED  BY <4>2
    <3>2. \A i \in 1 .. n : [equity |-> IF i = n THEN e ELSE b.curve[i].equity,
                              peak |-> p] \in [equity : Int, peak : Int]
      BY <3>1, <2>2
    <3>3. c.curve \in [1 .. n -> [equity : Int, peak : Int]]
      BY <3>2, <2>3
    <3>4. ASSUME NEW R, NEW m \in Nat, NEW f \in [1 .. m -> R]
          PROVE  f \in Seq(R) /\ Len(f) = m
      OBVIOUS
    <3> QED  BY <3>3, <3>4, <2>1
  <2>5. TypedBook(c)
    <3> DEFINE curve == [i \in 1 .. n |-> Point(IF i = n THEN e ELSE b.curve[i].equity, p)]
    <3>1. c = [b EXCEPT !.state = "closed", !.close = price, !.peak = p,
                        !.pnl = pnl, !.skipped = b.drift, !.curve = curve]
      BY <1>2 DEF Close, CloseWith, Equity
    <3>4. c.curve = curve /\ c.pnl = pnl
      BY <2>3 DEF Point
    <3>2. c.pnl \in Int /\ b.drift \in Int
      BY <2>1, <2>3 DEF BookType
    <3> HIDE DEF c, curve, pnl, p
    <3>3. c \in BookType
      BY <3>1, <3>2, <3>4, <2>1, <2>2, <2>4 DEF BookType
    <3> QED  BY <3>3, <2>1, <2>4 DEF TypedBook
  <2> HIDE DEF c
  <2>6. LastEquity(c) = e
    BY <2>1, <2>2, <2>3, <2>4 DEF LastEquity
  <2>7. e - pnl = (NormalizedETH + NormalizedAPPL * price) - b.drift
    <3>1. b.eth = NormalizedETH - b.spent /\ b.apple = NormalizedAPPL + b.got
      BY <1>2 DEF GoodBook, Splits
    <3>2. b.got \in Int /\ b.spent \in Int /\ b.drift \in Int
      BY <2>1 DEF BookType
    <3>3. \A x, y \in Int : (x + y) * price = x * price + y * price
      OBVIOUS
    <3>4. b.apple * price = NormalizedAPPL * price + b.got * price
      BY <3>1, <3>2, <3>3, AccountsAssumption
    <3> QED  BY <3>1, <3>2, <3>4, AccountsAssumption
  <2>8. Splits(c)
    BY <1>2, <2>3, <2>6, <2>7 DEF Splits, GoodBook
  <2>9. Drawdowns(c)
    BY <2>3 DEF Drawdowns
  <2> QED  BY <2>5, <2>8, <2>9 DEF GoodBook, c
<1> QED  BY <1>1, <1>2

(* The PnL of a trade and the equity move together, and its point is from  *)
(* the higher of the peak and itself.                                      *)
LEMMA RecordGood ==
  ASSUME NEW b, GoodBook(b), NEW eth \in Int, NEW apple \in Int, NEW price \in Nat
  PROVE  LET c == Record(b, eth, apple, price)
         IN  GoodBook(c) /\ Alike(b, c)
<1> DEFINE c == Record(b, eth, apple, price)
           e == (b.eth - eth) + (b.apple + apple) * price
           p == Higher(b.peak, e)
           n == Len(b.curve)
           pt == [equity |-> e, peak |-> p]
           gain == e - LastEquity(b)
           drift == IF apple = 0 THEN b.drift + (gain + eth) ELSE b.drift
<1>1. b \in BookType /\ n \in Nat /\ n > 0
  BY DEF GoodBook, TypedBook, BookType
<1>2. b.curve \in Seq([equity : Int, peak : Int])
  BY <1>1 DEF BookType
<1>3. \A i \in 1 .. n : b.curve[i] \in [equity : Int, peak : Int]
  <2>1. ASSUME NEW R, NEW s \in Seq(R), NEW i \in 1 .. Len(s)
        PROVE  s[i] \in R
    OBVIOUS
  <2> QED  BY <1>2, <2>1
<1>4. LastEquity(b) \in Int
  BY LastTyped DEF GoodBook
<1>5. /\ b.eth \in Int /\ b.apple \in Int /\ b.peak \in Int /\ b.pnl \in Int
      /\ b.got \in Int /\ b.spent \in Int /\ b.start \in Int /\ b.initial \in Int
      /\ b.close \in Nat /\ b.drift \in Int /\ b.skipped \in Int
  BY <1>1 DEF BookType
<1>6. e \in Int
  BY <1>5
<1>7. p \in Int /\ p >= e /\ p >= b.peak /\ (p = e \/ p = b.peak)
      /\ gain \in Int /\ drift \in Int
  BY <1>4, <1>5, <1>6 DEF Higher
<1>8. c = [b EXCEPT !.eth = b.eth - eth, !.apple = b.apple + apple,
                    !.pnl = b.pnl + gain, !.got = b.got + apple,
                    !.spent = b.spent + eth, !.drift = drift, !.peak = p,
                    !.curve = Append(b.curve, pt)]
  BY <1>1 DEF Record, Equity, Point, BookType
<1> HIDE DEF c, e, p, pt, gain, drift
<1>9. pt \in [equity : Int, peak : Int] /\ pt.equity = e /\ pt.peak = p
  BY <1>6, <1>7 DEF pt
<1>10. /\ Append(b.curve, pt) \in Seq([equity : Int, peak : Int])
       /\ Len(Append(b.curve, pt)) = n + 1
       /\ \A i \in 1 .. n : Append(b.curve, pt)[i] = b.curve[i]
       /\ Append(b.curve, pt)[n + 1] = pt
  <2>1. ASSUME NEW R, NEW s \in Seq(R), NEW x \in R
        PROVE  /\ Append(s, x) \in Seq(R) /\ Len(Append(s, x)) = Len(s) + 1
               /\ \A i \in 1 .. Len(s) : Append(s, x)[i] = s[i]
               /\ Append(s, x)[Len(s) + 1] = x
    OBVIOUS
  <2> QED  BY <1>2, <1>9, <2>1
<1>11. /\ c.state = b.state /\ c.start = b.start /\ c.close = b.close
       /\ c.initial = b.initial /\ c.eth = b.eth - eth /\ c.apple = b.apple + apple
       /\ c.pnl = b.pnl + gain /\ c.got = b.got + apple /\ c.spent = b.spent + eth
       /\ c.skipped = b.skipped /\ c.peak = p /\ c.curve = Append(b.curve, pt)
  BY <1>1, <1>8 DEF BookType
<1>12. TypedBook(c)
  <2>1. c \in BookType
    <3> DEFINE x1 == b.eth - eth
               x2 == b.apple + apple
               x3 == b.pnl + gain
               x4 == b.got + apple
               x5 == b.spent + eth
               s == Append(b.curve, pt)
    <3>1. x1 \in Int /\ x2 \in Int /\ x3 \in Int /\ x4 \in Int /\ x5 \in Int
      BY <1>5, <1>7
    <3>2. s \in Seq([equity : Int, peak : Int]) /\ p \in Int /\ drift \in Int
      BY <1>7, <1>10
    <3>3. c = [b EXCEPT !.eth = x1, !.apple = x2, !.pnl = x3, !.got = x4,
                        !.spent = x5, !.drift = drift, !.peak = p, !.curve = s]
      BY <1>8
    <3> HIDE DEF x1, x2, x3, x4, x5, s
    <3> QED  BY <3>1, <3>2, <3>3, <1>1 DEF BookType
  <2> QED  BY <2>1, <1>1, <1>10, <1>11 DEF TypedBook
<1>13. LastEquity(c) = e
  BY <1>9, <1>10, <1>11 DEF LastEquity
<1>14. LastEquity(c) - c.pnl = LastEquity(b) - b.pnl
  BY <1>4, <1>5, <1>6, <1>11, <1>13 DEF gain
<1>15. Splits(c)
  <2>1. Splits(b)
    BY DEF GoodBook
  <2>2. c.state # "none" => /\ c.start > 0
                            /\ c.eth = NormalizedETH - c.spent
                            /\ c.apple = NormalizedAPPL + c.got
    <3> SUFFICES ASSUME c.state # "none"
                 PROVE  /\ c.start > 0 /\ c.eth = NormalizedETH - c.spent
                        /\ c.apple = NormalizedAPPL + c.got
      OBVIOUS
    <3>1. /\ b.start > 0 /\ b.eth = NormalizedETH - b.spent
          /\ b.apple = NormalizedAPPL + b.got
      BY <2>1, <1>11 DEF Splits
    <3>2. NormalizedETH \in Int /\ NormalizedAPPL \in Int
      BY AccountsAssumption
    <3>3. c.eth = NormalizedETH - c.spent
      BY <3>1, <3>2, <1>5, <1>11
    <3>4. c.apple = NormalizedAPPL + c.got
      BY <3>1, <3>2, <1>5, <1>11
    <3> QED  BY <3>1, <3>3, <3>4, <1>11
  <2>3. /\ c.state = "none" => LastEquity(c) - c.pnl = c.initial
        /\ c.state = "open" => LastEquity(c) - c.pnl = c.start
        /\ c.state = "closed" =>
             LastEquity(c) - c.pnl = (NormalizedETH + NormalizedAPPL * c.close) - c.skipped
    BY <2>1, <1>11, <1>14 DEF Splits
  <2> QED  BY <2>2, <2>3 DEF Splits
<1>16. Drawdowns(c)
  <2> SUFFICES ASSUME c.state # "closed" PROVE Drawdowns(c)
    BY DEF Drawdowns
  <2>1. /\ b.peak = b.curve[n].peak
        /\ \A i \in 1 .. n : Highest(b.curve, i)
    BY <1>11 DEF GoodBook, Drawdowns, Points
  <2>2. c.peak = c.curve[n + 1].peak /\ Len(c.curve) = n + 1
    BY <1>9, <1>10, <1>11
  <2>3. \A i \in 1 .. n : Highest(c.curve, i)
    <3> SUFFICES ASSUME NEW i \in 1 .. n PROVE Highest(c.curve, i)
      OBVIOUS
    <3>1. Highest(b.curve, i)
      BY <2>1
    <3>2. \A k \in 1 .. i : c.curve[k] = b.curve[k]
      BY <1>1, <1>10, <1>11
    <3>3. c.curve[i].peak = b.curve[i].peak
      <4>1. i \in 1 .. i
        OBVIOUS
      <4> QED  BY <4>1, <3>2, Zenon
    <3>4. \E k \in 1 .. i : c.curve[k].equity = c.curve[i].peak
      <4>1. PICK k \in 1 .. i : b.curve[k].equity = b.curve[i].peak
        BY <3>1, Zenon DEF Highest
      <4> QED  BY <4>1, <3>2, <3>3, Zenon
    <3>5. \A k \in 1 .. i : c.curve[k].equity <= c.curve[i].peak
      <4> SUFFICES ASSUME NEW k \in 1 .. i
                   PROVE  c.curve[k].equity <= c.curve[i].peak
        OBVIOUS
      <4>1. b.curve[k].equity <= b.curve[i].peak
        BY <3>1, Zenon DEF Highest
      <4> QED  BY <4>1, <3>2, <3>3, Zenon
    <3> QED  BY <3>4, <3>5, Zenon DEF Highest
  <2>4. Highest(c.curve, n + 1)
    <3>1. Highest(b.curve, n)
      BY <1>1, <2>1
    <3>2. \A k \in 1 .. n : c.curve[k] = b.curve[k]
      BY <1>10, <1>11
    <3>3. c.curve[n + 1].equity = e /\ c.curve[n + 1].peak = p
      BY <1>9, <1>10, <1>11
    <3>4. \A k \in 1 .. n + 1 : c.curve[k].equity <= p
      <4> SUFFICES ASSUME NEW k \in 1 .. n + 1 PROVE c.curve[k].equity <= p
        OBVIOUS
      <4>1. CASE k = n + 1
        BY <4>1, <3>3, <1>6, <1>7
      <4>2. CASE k \in 1 .. n
        <5>1. b.curve[k].equity <= b.peak /\ b.curve[k].equity \in Int
          BY <4>2, <3>1, <2>1, <1>3 DEF Highest
        <5> QED  BY <5>1, <4>2, <3>2, <1>5, <1>7
      <4> QED  BY <4>1, <4>2, <1>1
    <3>5. \E k \in 1 .. n + 1 : c.curve[k].equity = p
      <4>1. CASE p = e
        BY <4>1, <3>3, <1>1
      <4>2. CASE p = b.peak
        <5>1. PICK k \in 1 .. n : b.curve[k].equity = b.peak
          BY <3>1, <2>1 DEF Highest
        <5> QED  BY <5>1, <4>2, <3>2, <1>1
      <4> QED  BY <4>1, <4>2, <1>7
    <3> QED  BY <3>3, <3>4, <3>5 DEF Highest
  <2>5. \A i \in 1 .. n + 1 : Highest(c.curve, i)
    BY <2>3, <2>4, <1>1
  <2> QED  BY <2>2, <2>5 DEF Drawdowns, Points
<1> QED  BY <1>11, <1>12, <1>15, <1>16 DEF GoodBook, Alike, c

(* A visit, and that visits make alike books alike.                        *)
LEMMA VisitedGood ==
  ASSUME Control, ~Free, NEW b, GoodBook(b)
  PROVE  GoodBook(Visited(b))
<1>1. loop.op \in {"open", "wipe", "close"} /\ loop.price \in Nat
  BY DEF Control, Free, Idle
<1>2. CASE loop.op = "open"
  BY <1>1, <1>2, OpenGood DEF Visited
<1>3. CASE loop.op = "wipe"
  <2>1. b.initial \in Int
    BY DEF GoodBook, TypedBook, BookType
  <2> QED  BY <1>3, <2>1, NewGood DEF Visited, Wipe
<1>4. CASE loop.op = "close"
  BY <1>1, <1>4, CloseGood DEF Visited
<1> QED  BY <1>1, <1>2, <1>3, <1>4

(* A loop does the same to books that are alike.                           *)
LEMMA VisitedAlike ==
  ASSUME Control, ~Free, NEW b, NEW c, GoodBook(b), GoodBook(c), Alike(b, c)
  PROVE  Alike(Visited(b), Visited(c))
<1>1. loop.op \in {"open", "wipe", "close"}
  BY DEF Control, Free, Idle
<1>2. CASE loop.op = "open"
  BY <1>2 DEF Visited, Open, Alike
<1>3. CASE loop.op = "wipe"
  BY <1>3 DEF Visited, Wipe, NewAccountMetrics, Alike
<1>4. CASE loop.op = "close"
  <2>1. b \in BookType /\ c \in BookType
    BY DEF GoodBook, TypedBook
  <2> QED  BY <1>4, <2>1 DEF Visited, Close, CloseWith, Alike, BookType
<1> QED  BY <1>1, <1>2, <1>3, <1>4

-------------------------------------------------------------------------------
(* The invariant, from the first state on.                                 *)

LEMMA InitHolds == Init => IInv
<1> SUFFICES ASSUME Init PROVE IInv
  OBVIOUS
<1>1. \A a \in Accounts :
        /\ GoodBook(book[a])
        /\ book[a].state = "none" /\ book[a].start = 0 /\ book[a].close = 0
  <2> SUFFICES ASSUME NEW a \in Accounts
               PROVE  /\ GoodBook(book[a]) /\ book[a].state = "none"
                      /\ book[a].start = 0 /\ book[a].close = 0
    OBVIOUS
  <2>1. PICK e \in FirstEquities : book[a] = NewAccountMetrics(e)
    BY DEF Init
  <2>2. e \in Int
    BY AccountsAssumption
  <2> QED  BY <2>1, <2>2, NewGood DEF NewAccountMetrics
<1>2. Books
  <2> DEFINE S == {NewAccountMetrics(e) : e \in FirstEquities}
  <2>1. book \in [Accounts -> S]
    BY DEF Init
  <2>2. \A a \in Accounts : book[a] \in BookType
    BY <1>1 DEF GoodBook, TypedBook
  <2> HIDE DEF S
  <2>3. book \in [Accounts -> BookType]
    BY <2>1, <2>2
  <2> QED  BY <1>1, <2>3 DEF Books
<1>3. Control
  <2>1. stored \in BOOLEAN
    BY DEF Init
  <2>2. closers \in 0 .. MaxClosers
    BY AccountsAssumption DEF Init
  <2>3. trade \in {NoTrade} /\ loop \in {Idle}
    BY DEF Init
  <2> QED  BY <2>1, <2>2, <2>3, Zenon DEF Control
<1>4. Free
  BY DEF Init, Free
<1>5. SameSession
  BY <1>1, <1>4 DEF SameSession, Alike
<1>6. Volatility
  BY <1>4 DEF Init, Volatility
<1> QED  BY <1>2, <1>3, <1>5, <1>6 DEF IInv

(* A trade changes no book but its own, and of that nothing that makes     *)
(* books alike.                                                            *)
LEMMA WriteKeeps ==
  ASSUME IInv, NEW sign \in {-1, 1}, NEW eth \in Amounts, NEW apple \in Amounts,
         NEW price \in Prices, WriteTrade(sign, eth, apple, price)
  PROVE  IInv'
<1> DEFINE t == trade.account
<1>1. trade.at = "record" /\ t \in Accounts
  BY DEF WriteTrade, IInv, Control, NoTrade
<1>2. sign * eth \in Int /\ sign * apple \in Int /\ price \in Nat
  BY AccountsAssumption
<1>3. book \in [Accounts -> BookType] /\ \A a \in Accounts : GoodBook(book[a])
  BY DEF IInv, Books
<1>4. GoodBook(Record(book[t], sign * eth, sign * apple, price))
      /\ Alike(book[t], Record(book[t], sign * eth, sign * apple, price))
  BY <1>1, <1>2, <1>3, RecordGood
<1>5. book' = [book EXCEPT ![t] = Record(book[t], sign * eth, sign * apple, price)]
      /\ trade' = NoTrade /\ UNCHANGED <<loop, stored, closers>>
  BY DEF WriteTrade
<1>6. \A a \in Accounts : GoodBook(book'[a]) /\ Alike(book[a], book'[a])
  BY <1>1, <1>3, <1>4, <1>5 DEF Alike
<1>7. Books'
  BY <1>1, <1>3, <1>4, <1>5, <1>6 DEF Books, GoodBook, TypedBook
<1>8. Control'
  BY <1>5 DEF IInv, Control
<1>9. SameSession'
  <2>1. Free' = Free /\ loop' = loop
    BY <1>5 DEF Free
  <2>2. ASSUME ~Free, NEW c \in Accounts
        PROVE  Alike(Visited(book[c]), Visited(book'[c]))
    BY <2>2, <1>3, <1>6, VisitedAlike DEF IInv
  <2>3. \A c \in Accounts : Visited(book[c])' = Visited(book'[c])
    BY <1>5 DEF Visited
  <2> QED  BY <1>6, <2>1, <2>2, <2>3 DEF IInv, SameSession, Alike
<1>10. Volatility'
  BY <1>5, <1>6 DEF IInv, Volatility, Alike, Free
<1> QED  BY <1>7, <1>8, <1>9, <1>10 DEF IInv

(* A visit of a loop leaves a good book, like those visited before.        *)
LEMMA VisitKeeps ==
  ASSUME IInv, NEW t \in Accounts, Visit(t)
  PROVE  IInv'
<1>1. /\ ~Free /\ t \in loop.todo
      /\ book' = [book EXCEPT ![t] = Visited(book[t])]
      /\ loop' = [loop EXCEPT !.todo = loop.todo \ {t}]
      /\ UNCHANGED <<trade, stored, closers>>
  BY DEF Visit
<1>2. /\ loop \in [op : {"open", "wipe", "close"}, todo : SUBSET Accounts, price : Nat]
      /\ Control
  BY <1>1 DEF IInv, Control, Free
<1>3. /\ loop' \in [op : {"open", "wipe", "close"}, todo : SUBSET Accounts, price : Nat]
      /\ loop'.op = loop.op /\ loop'.price = loop.price
      /\ loop'.todo = loop.todo \ {t}
  BY <1>1, <1>2
<1>4. ~Free'
  BY <1>3 DEF Free, Idle
<1>5. book \in [Accounts -> BookType] /\ \A a \in Accounts : GoodBook(book[a])
  BY DEF IInv, Books
<1>6. GoodBook(Visited(book[t]))
  BY <1>1, <1>2, <1>5, VisitedGood
<1>7. book'[t] = Visited(book[t]) /\ \A a \in Accounts \ {t} : book'[a] = book[a]
  BY <1>1, <1>5
<1>8. Books'
  BY <1>1, <1>5, <1>6, <1>7 DEF Books, GoodBook, TypedBook
<1>9. Control'
  BY <1>1, <1>2, <1>3 DEF Control
<1>10. SameSession'
  <2>2. \A c \in Accounts : Visited(book[c])'
            = (CASE loop'.op = "open"  -> Open(book'[c], loop'.price)
                 [] loop'.op = "wipe"  -> Wipe(book'[c])
                 [] loop'.op = "close" -> Close(book'[c], loop'.price))
    BY DEF Visited
  <2>3. \A c \in Accounts \ {t} : Visited(book[c])' = Visited(book[c])
    BY <2>2, <1>3, <1>7 DEF Visited
  <2>4. \A c \in loop.todo : Alike(book[t], book[c]) /\ c \in Accounts
    BY <1>1, <1>2 DEF IInv, SameSession
  <2>5. \A c \in loop.todo : Alike(Visited(book[t]), Visited(book[c]))
    BY <2>4, <1>1, <1>2, <1>5, VisitedAlike
  <2>6. \A a \in Accounts : a \notin loop.todo => Alike(book[a], Visited(book[t]))
    BY <1>1 DEF IInv, SameSession
  <2>7. \A a, c \in Accounts :
          (a \in loop'.todo <=> c \in loop'.todo) => Alike(book'[a], book'[c])
    <3> SUFFICES ASSUME NEW a \in Accounts, NEW c \in Accounts,
                        a \in loop'.todo <=> c \in loop'.todo
                 PROVE  Alike(book'[a], book'[c])
      OBVIOUS
    <3>1. CASE a = t \/ c = t
      BY <3>1, <1>3, <1>7, <2>6 DEF Alike
    <3>2. CASE a # t /\ c # t
      <4>1. Alike(book[a], book[c])
        BY <3>2, <1>1, <1>3 DEF IInv, SameSession
      <4> QED  BY <4>1, <3>2, <1>7
    <3> QED  BY <3>1, <3>2
  <2>8. \A a, c \in Accounts :
          a \notin loop'.todo /\ c \in loop'.todo => Alike(book'[a], Visited(book[c])')
    <3> SUFFICES ASSUME NEW a \in Accounts, NEW c \in Accounts,
                        a \notin loop'.todo, c \in loop'.todo
                 PROVE  Alike(book'[a], Visited(book[c])')
      OBVIOUS
    <3>1. c # t /\ c \in loop.todo /\ Visited(book[c])' = Visited(book[c])
      BY <1>3, <2>3
    <3>2. CASE a = t
      BY <3>1, <3>2, <1>7, <2>5
    <3>3. CASE a # t
      <4>1. Alike(book[a], Visited(book[c]))
        BY <3>1, <3>3, <1>1, <1>3 DEF IInv, SameSession
      <4> QED  BY <4>1, <3>1, <3>3, <1>7
    <3> QED  BY <3>2, <3>3
  <2> QED  BY <1>4, <2>7, <2>8 DEF SameSession, Alike
<1>11. Volatility'
  <2>1. loop.op = "close" => Visited(book[t]).state # "open"
    <3> SUFFICES ASSUME loop.op = "close" PROVE Close(book[t], loop.price).state # "open"
      BY DEF Visited
    <3>1. book[t] \in BookType
      BY <1>5
    <3> QED  BY <3>1 DEF Close, CloseWith, BookType
  <2>2. loop.op = "close" => \A a \in Accounts \ loop'.todo : book'[a].state # "open"
    BY <2>1, <1>1, <1>3, <1>7 DEF IInv, Volatility
  <2>3. stored' => closers' > 0 \/ loop'.op = "close"
    BY <1>1, <1>3 DEF IInv, Volatility
  <2> QED  BY <2>2, <2>3, <1>1, <1>3, <1>4 DEF IInv, Volatility
<1> QED  BY <1>8, <1>9, <1>10, <1>11 DEF IInv

(* The other steps change no book.                                         *)
LEMMA ManagerKeeps ==
  ASSUME IInv, UNCHANGED book,
         \/ \E a \in Accounts : FindBook(a)
         \/ CheckActive
         \/ \E price \in Prices : ResetForSession(price) \/ FinalizeSession(price)
         \/ \E some \in BOOLEAN : SetSessionVolatility(some)
         \/ Reset \/ Release
  PROVE  IInv'
<1>1. Books'
  BY DEF IInv, Books
<1>2. CASE \E a \in Accounts : FindBook(a)
  <2>1. /\ trade' \in [at : {"check", "record"}, account : Accounts]
        /\ UNCHANGED <<loop, stored, closers>>
    BY <1>2 DEF FindBook
  <2>2. Control'
    BY <2>1 DEF IInv, Control
  <2> QED  BY <1>1, <2>1, <2>2 DEF IInv, SameSession, Volatility, Visited, Free
<1>3. CASE CheckActive
  <2>1. /\ trade' \in {NoTrade} \cup [at : {"check", "record"}, account : Accounts]
        /\ UNCHANGED <<loop, stored, closers>>
    BY <1>3 DEF CheckActive, IInv, Control, NoTrade
  <2>2. Control'
    BY <2>1 DEF IInv, Control
  <2> QED  BY <1>1, <2>1, <2>2 DEF IInv, SameSession, Volatility, Visited, Free
<1>4. ASSUME NEW op \in {"open", "wipe", "close"}, NEW price \in Nat, Free,
             loop' = [op |-> op, todo |-> Accounts, price |-> price],
             closers' \in 0 .. MaxClosers, stored' \in BOOLEAN, UNCHANGED trade,
             op # "close" => ~stored'
      PROVE  IInv'
  <2>1. Control'
    BY <1>4 DEF IInv, Control
  <2>2. ~Free' /\ loop'.todo = Accounts /\ loop'.op = op
    BY <1>4 DEF Free, Idle
  <2>3. SameSession'
    BY <1>4, <2>2 DEF IInv, SameSession, Alike
  <2>4. Volatility'
    BY <1>4, <2>2 DEF IInv, Volatility
  <2> QED  BY <1>1, <2>1, <2>3, <2>4 DEF IInv
<1>5. CASE \E price \in Prices : ResetForSession(price)
  <2>1. PICK price \in Prices : ResetForSession(price)
    BY <1>5
  <2>2. price \in Nat /\ closers' \in 0 .. MaxClosers
    BY <2>1, AccountsAssumption DEF ResetForSession, IInv, Control
  <2> QED  BY <2>1, <2>2, <1>4 DEF ResetForSession
<1>6. CASE \E price \in Prices : FinalizeSession(price)
  <2>1. PICK price \in Prices : FinalizeSession(price)
    BY <1>6
  <2>2. price \in Nat /\ closers' \in 0 .. MaxClosers /\ stored' \in BOOLEAN
    BY <2>1, AccountsAssumption DEF FinalizeSession, IInv, Control
  <2> QED  BY <2>1, <2>2, <1>4 DEF FinalizeSession
<1>7. CASE Reset
  <2>1. closers' \in 0 .. MaxClosers
    BY <1>7 DEF Reset, IInv, Control
  <2> QED  BY <2>1, <1>4, <1>7 DEF Reset
<1>8. CASE \E some \in BOOLEAN : SetSessionVolatility(some)
  <2>1. /\ Free /\ closers' > 0 /\ UNCHANGED <<trade, loop>>
        /\ closers' \in 0 .. MaxClosers /\ stored' \in BOOLEAN
    BY <1>8, AccountsAssumption DEF SetSessionVolatility, IInv, Control
  <2>2. Control'
    BY <2>1 DEF IInv, Control
  <2>3. Free'
    BY <2>1 DEF Free
  <2> QED  BY <1>1, <2>1, <2>2, <2>3 DEF IInv, SameSession, Volatility, Alike
<1>9. CASE Release
  <2>1. ~Free /\ loop.todo = {} /\ loop' = Idle /\ UNCHANGED <<trade, stored, closers>>
    BY <1>9 DEF Release
  <2>2. Free'
    BY <2>1 DEF Free
  <2>3. Control'
    BY <2>1 DEF IInv, Control
  <2>4. SameSession'
    BY <2>1, <2>2 DEF IInv, SameSession, Alike
  <2>5. Volatility'
    BY <2>1, <2>2 DEF IInv, Volatility
  <2> QED  BY <1>1, <2>3, <2>4, <2>5 DEF IInv
<1> QED  BY <1>2, <1>3, <1>5, <1>6, <1>7, <1>8, <1>9

LEMMA NextKeeps == IInv /\ [Next]_vars => IInv'
<1> SUFFICES ASSUME IInv, [Next]_vars PROVE IInv'
  OBVIOUS
<1>1. CASE \E a \in Accounts : FindBook(a)
  BY <1>1, ManagerKeeps DEF FindBook
<1>2. CASE \E a \in Accounts : Visit(a)
  BY <1>2, VisitKeeps
<1>3. CASE CheckActive
  BY <1>3, ManagerKeeps DEF CheckActive
<1>4. CASE \E sign \in {-1, 1}, eth, apple \in Amounts, price \in Prices :
             WriteTrade(sign, eth, apple, price)
  BY <1>4, WriteKeeps
<1>5. CASE \E price \in Prices : ResetForSession(price) \/ FinalizeSession(price)
  BY <1>5, ManagerKeeps DEF ResetForSession, FinalizeSession
<1>6. CASE \E some \in BOOLEAN : SetSessionVolatility(some)
  BY <1>6, ManagerKeeps DEF SetSessionVolatility
<1>7. CASE Reset \/ Release
  BY <1>7, ManagerKeeps DEF Reset, Release
<1>8. CASE UNCHANGED vars
  BY <1>8 DEF vars, IInv, Books, Control, SameSession, Volatility, Visited, Free
<1> QED  BY <1>1, <1>2, <1>3, <1>4, <1>5, <1>6, <1>7, <1>8 DEF Next

LEMMA AlwaysIInv == Spec => []IInv
  BY InitHolds, NextKeeps, PTL DEF Spec

-------------------------------------------------------------------------------
(* The types hold: no trade and no visit leaves a book without its curve.  *)
THEOREM AccountsTypeOK == Spec => []TypeOK
<1>1. IInv => TypeOK
  BY DEF IInv, Books, Control, TypeOK, GoodBook, TypedBook
<1> QED  BY <1>1, AlwaysIInv, PTL

(* What a report of a good book says of the position.                      *)
LEMMA PositionOf ==
  ASSUME NEW b, GoodBook(b)
  PROVE  PositionPnL(b) =
           IF b.state = "closed"
             THEN (NormalizedETH + NormalizedAPPL * b.close) - b.start - b.skipped
             ELSE 0
<1>2. b \in BookType /\ Splits(b)
  BY DEF GoodBook, TypedBook
<1>3. LastEquity(b) \in Int
  BY LastTyped DEF GoodBook
<1>4. /\ b.pnl \in Int /\ b.start \in Int /\ b.initial \in Int /\ b.close \in Nat
      /\ b.skipped \in Int /\ b.state \in {"none", "open", "closed"}
  BY <1>2 DEF BookType
<1>5. CASE b.state = "none"
  <2>1. LastEquity(b) - b.pnl = b.initial
    BY <1>2, <1>5 DEF Splits
  <2>2. PositionPnL(b) = (LastEquity(b) - b.initial) - b.pnl
    BY <1>5 DEF PositionPnL, PortfolioPnL, TradingPnL
  <2> QED  BY <2>1, <2>2, <1>3, <1>4, <1>5
<1>6. ASSUME b.state # "none" PROVE PositionPnL(b) = (LastEquity(b) - b.start) - b.pnl
  BY <1>2, <1>6 DEF Splits, PositionPnL, PortfolioPnL, TradingPnL
<1>7. CASE b.state = "open"
  <2>1. LastEquity(b) - b.pnl = b.start
    BY <1>2, <1>7 DEF Splits
  <2> QED  BY <2>1, <1>3, <1>4, <1>6, <1>7
<1>8. CASE b.state = "closed"
  <2>1. NormalizedETH + NormalizedAPPL * b.close \in Int
    BY <1>4, AccountsAssumption
  <2>2. LastEquity(b) - b.pnl = (NormalizedETH + NormalizedAPPL * b.close) - b.skipped
    BY <1>2, <1>8 DEF Splits
  <2>3. \A l, p, s, x, d \in Int : l - p = x - d => (l - s) - p = x - s - d
    OBVIOUS
  <2> DEFINE x == NormalizedETH + NormalizedAPPL * b.close
  <2>4. x \in Int /\ LastEquity(b) - b.pnl = x - b.skipped
    BY <2>1, <2>2
  <2> HIDE DEF x
  <2>5. (LastEquity(b) - b.start) - b.pnl = x - b.start - b.skipped
    BY <2>3, <2>4, <1>3, <1>4
  <2>6. PositionPnL(b) = x - b.start - b.skipped
    BY <2>5, <1>6, <1>8
  <2>7. b.state = "closed"
    BY <1>8
  <2> QED  BY <2>6, <2>7, Zenon DEF x
<1> QED  BY <1>4, <1>5, <1>7, <1>8

(* The PnL of a report splits into the trades' and the position's at any   *)
(* moment, whatever trades the manager's openings and closings overtake.   *)
THEOREM AccountsPnLSplits == Spec => []PnLSplits
<1>1. IInv => PnLSplits
  BY PositionOf DEF IInv, Books, PnLSplits
<1> QED  BY <1>1, AlwaysIInv, PTL

(* Before the closing a drawdown is from the highest equity reached.       *)
THEOREM AccountsDrawdownFromPeak == Spec => []DrawdownFromPeak
<1>1. IInv => DrawdownFromPeak
  <2> SUFFICES ASSUME IInv, NEW a \in Accounts, book[a].state # "closed",
                      NEW i \in Points(book[a])
               PROVE  LET peak == book[a].curve[i].peak
                          reached == {book[a].curve[k].equity : k \in 1 .. i}
                      IN  peak \in reached /\ \A e \in reached : e <= peak
    BY DEF DrawdownFromPeak
  <2>1. Highest(book[a].curve, i)
    BY DEF IInv, Books, GoodBook, Drawdowns
  <2> QED  BY <2>1 DEF Highest
<1> QED  BY <1>1, AlwaysIInv, PTL

(* When no loop is under way all books are in the same session.            *)
THEOREM AccountsOneSession == Spec => []OneSession
<1>1. IInv => OneSession
  BY DEF IInv, SameSession, OneSession, Alike
<1> QED  BY <1>1, AlwaysIInv, PTL

(* A stored volatility is never the one an open session is measured by,    *)
(* once the finalizations under way are through.                           *)
THEOREM AccountsVolatility == Spec => []VolatilityOfTheEnded
<1>1. IInv => VolatilityOfTheEnded
  <2> SUFFICES ASSUME IInv, stored, Free, closers = 0
               PROVE  \A a \in Accounts : book[a].state # "open"
    BY Zenon DEF VolatilityOfTheEnded
  <2>1. ~ (closers > 0)
    OBVIOUS
  <2>2. \/ closers > 0
        \/ ~Free /\ loop.op = "close"
        \/ \A a \in Accounts : book[a].state # "open"
    BY Zenon DEF IInv, Volatility
  <2> QED  BY <2>1, <2>2, Zenon
<1> QED  BY <1>1, AlwaysIInv, PTL

================================================================================
