---------------------------- MODULE Replay_proofs ----------------------------
(***************************************************************************)
(* Proofs about Replay, for every candle list, every signal list and every *)
(* risk limit: the trades of a backtest explain its cash, its fees and the *)
(* result it reports; when no bar sells twice its cash and its position    *)
(* are never negative; the two matchings of a simulation's orders close    *)
(* the same trades; and those orders explain its cash and its position     *)
(* when nothing was scaled down, refused or stopped out.                   *)
(*                                                                         *)
(* Books are the inductive part.  Entering and leaving the position keep   *)
(* them explained (the fee of an entry moves from the position to the      *)
(* trades share by share, because fees are exact), so every fill of a      *)
(* queue does, by induction along the queue; the stop, the close and the   *)
(* result follow.  A queue covers its sale when it is made, and no fill    *)
(* before that sale lowers the position.                                   *)
(*                                                                         *)
(* The matchings are folds over the orders, each SELL a fold over the open *)
(* lots; both are walked step by step.  A router's lot, seen as what of it *)
(* remains with the fee of that, is the runner's (Bare), and stays so at   *)
(* every step because the share of a whole fee is whole.  SimBooks is the  *)
(* simulation's inductive part: between two bars the orders explain the    *)
(* account (Explains), and within a bar the account the reservation        *)
(* started from.  A BUY that fits the cash is reserved in full and still   *)
(* held when it fills, so undoing its reservation leaves nothing behind.   *)
(***************************************************************************)
EXTENDS Replay, Sums_proofs, TLAPS

-----------------------------------------------------------------------------
(* The operators of the library that the engines' instances use.  *)

\* The engine's instance of Functions adds as Functions does.
LEMMA FastSumIsSum == \A f : Fast!SumFunction(f) = SumFunction(f)
  BY DEF Fast!SumFunction, Fast!FoldFunction, Fast!SumFunctionOnSet, Fast!FoldFunctionOnSet, Fast!MapThenFoldSet,
         SumFunction, FoldFunction, SumFunctionOnSet, FoldFunctionOnSet, MapThenFoldSet

\* And the risk pipeline's.
LEMMA RiskSumIsSum == \A f : Fast!RP!SumFunction(f) = SumFunction(f)
  BY DEF Fast!RP!SumFunction, Fast!RP!FoldFunction, Fast!RP!SumFunctionOnSet, Fast!RP!FoldFunctionOnSet,
         Fast!RP!MapThenFoldSet,
         SumFunction, FoldFunction, SumFunctionOnSet, FoldFunctionOnSet, MapThenFoldSet

\* The largest element is the same in the engine's instance.
LEMMA FastMaxIsMax == \A s : Fast!Max(s) = Max(s)
  BY DEF Fast!Max, Max

\* The smallest, in the risk pipeline's.
LEMMA RiskMinIsMin == \A s : Fast!RP!Min(s) = Min(s)
  BY DEF Fast!RP!Min, Min

\* So is the part of a list at given indices.
LEMMA FastSublistIsSublist == \A list, at : Fast!Sublist(list, at) = Sublist(list, at)
  BY FastMaxIsMax DEF Fast!Sublist, Fast!MapThenFoldSet, Sublist, MapThenFoldSet

-----------------------------------------------------------------------------
(* The books of a backtest. *)

\* A position, a portfolio, a completed trade and the books.  Amounts may be
\* negative: two SELLs of one bar oversell.
BookPositions == [qty : Int, entry : Nat, stop : Int \cup {None}, price : Nat]
BookPortfolios == [cash : Int, pos : [{Symbol} -> BookPositions], peak : Int]
Reasons == {"sell_signal", "stop_loss", "end_of_data"}
Trades == [entry : Nat, exit : Int, qty : Int, reason : Reasons, entryBar : Nat \cup {None},
           exitBar : Nat, fee : Int, pnl : Int]
BookType == [pf : BookPortfolios, fees : Int, trades : Seq(Trades), entryBar : Nat \cup {None}]

\* What TradesExplainCash says, of any books.
Explained(b) ==
  LET pos == Fast!Position(b)
      fee == Fast!Fee(pos.qty, pos.entry)
  IN  /\ b.pf.cash + pos.qty * pos.entry + fee = InitBalance + Fast!Profit(b.trades)
      /\ b.fees = Fast!FeesOf(b.trades) + fee

\* The dict `positions` and the entry bars are of the same symbols.
Entered(b) ==
  IF Fast!InBook(b) THEN b.entryBar # None
  ELSE b.entryBar = None /\ Fast!Position(b) = Fast!RP!Nothing

Books == {b \in BookType : Explained(b) /\ Entered(b)}

\* What the books say of the position.
LEMMA PositionType ==
  ASSUME NEW b \in BookType
  PROVE  /\ Fast!Position(b) = b.pf.pos[Symbol] /\ Fast!Position(b) \in BookPositions
         /\ b.pf \in BookPortfolios /\ b.pf.cash \in Int /\ b.pf.peak \in Int
         /\ Fast!Position(b).qty \in Int /\ Fast!Position(b).entry \in Nat
         /\ b.fees \in Int /\ b.trades \in Seq(Trades)
  BY DEF BookType, BookPortfolios, BookPositions, Fast!Position

\* A fee is an integer.
LEMMA FeeType ==
  ASSUME NEW q \in Int, NEW p \in Int
  PROVE  p \div FeeScale \in Int /\ Fast!Fee(q, p) = q * (p \div FeeScale) /\ Fast!Fee(q, p) \in Int
<1>1. p \div FeeScale \in Int
  BY ReplayAssumption
<1>2. PICK e \in Int : e = p \div FeeScale
  BY <1>1
<1> QED
  BY <1>2 DEF Fast!Fee

\* No amount, no fee.
LEMMA NoFee == Fast!Fee(0, 0) = 0
<1>1. PICK e \in Int : e = 0 \div FeeScale
  BY ReplayAssumption
<1>2. 0 * e = 0
  OBVIOUS
<1> QED
  BY <1>1, <1>2 DEF Fast!Fee

\* The profit and the fees of a list of trades are sums, and one more trade adds to them.
LEMMA TradesAdd ==
  ASSUME NEW list \in Seq(Trades), NEW t \in Trades
  PROVE  /\ Fast!Profit(list) \in Int /\ Fast!FeesOf(list) \in Int
         /\ Fast!Profit(Append(list, t)) = Fast!Profit(list) + t.pnl
         /\ Fast!FeesOf(Append(list, t)) = Fast!FeesOf(list) + t.fee
<1>1. PICK n \in Nat : n = Len(list)
  OBVIOUS
<1>2. PICK more : more = Append(list, t)
  OBVIOUS
<1>3. /\ DOMAIN list = 1 .. n /\ DOMAIN more = 1 .. n + 1 /\ more[n + 1] = t
      /\ \A i \in 1 .. n : more[i] = list[i] /\ list[i] \in Trades
  BY <1>1, <1>2
<1>4. \A i \in 1 .. n + 1 : more[i] \in Trades
  BY <1>3
<1> DEFINE p == [i \in 1 .. n |-> list[i].pnl]
           q == [i \in 1 .. n + 1 |-> more[i].pnl]
           f == [i \in 1 .. n |-> list[i].fee]
           g == [i \in 1 .. n + 1 |-> more[i].fee]
<1>5. \A x \in Trades : x.pnl \in Int /\ x.fee \in Int
  BY DEF Trades
<1>6. p \in [1 .. n -> Int] /\ f \in [1 .. n -> Int] /\ q \in [1 .. n + 1 -> Int] /\ g \in [1 .. n + 1 -> Int]
  BY <1>3, <1>4, <1>5
<1>7. /\ \A i \in 1 .. n : q[i] = p[i] /\ g[i] = f[i]
      /\ q[n + 1] = t.pnl /\ g[n + 1] = t.fee
  BY <1>3
<1>8. /\ Fast!Profit(list) = SumFunction(p) /\ Fast!FeesOf(list) = SumFunction(f)
      /\ Fast!Profit(more) = SumFunction(q) /\ Fast!FeesOf(more) = SumFunction(g)
  BY <1>3, FastSumIsSum DEF Fast!Profit, Fast!Profits, Fast!FeesOf
<1> HIDE DEF p, q, f, g
<1>9. /\ SumFunction(p) \in Int /\ SumFunction(q) = SumFunction(p) + q[n + 1]
      /\ SumFunction(f) \in Int /\ SumFunction(g) = SumFunction(f) + g[n + 1]
  <2>1. SumFunction(p) \in Int /\ SumFunction(q) = SumFunction(p) + q[n + 1]
    BY ONLY n \in Nat, <1>6, <1>7, SumAppends
  <2>2. SumFunction(f) \in Int /\ SumFunction(g) = SumFunction(f) + g[n + 1]
    BY ONLY n \in Nat, <1>6, <1>7, SumAppends
  <2> QED
    BY <2>1, <2>2
<1> QED
  BY <1>2, <1>7, <1>8, <1>9

\* The value of the one position.
LEMMA OneValue ==
  ASSUME NEW p \in BookPortfolios
  PROVE  /\ Fast!RP!TotalBalance(p) = p.pos[Symbol].qty * p.pos[Symbol].price + p.cash
         /\ Fast!RP!TotalBalance(p) \in Int
<1> DEFINE f == [s \in {Symbol} |-> p.pos[s].qty * p.pos[s].price]
<1>1. PICK q \in Int, x \in Nat : q = p.pos[Symbol].qty /\ x = p.pos[Symbol].price
  BY DEF BookPortfolios, BookPositions
<1>2. f[Symbol] = q * x /\ q * x \in Int /\ f \in [{Symbol} -> Int]
  BY <1>1
<1>3. Fast!RP!MarketValue(p) = SumFunction(f)
  BY RiskSumIsSum DEF Fast!RP!MarketValue
<1> HIDE DEF f
<1>4. SumFunction(f) = SumFunctionOnSet(f, {Symbol})
  BY <1>2, SumOfFunction
<1>5. SumFunctionOnSet(f, {Symbol}) = f[Symbol] + SumFunctionOnSet(f, {Symbol} \ {Symbol})
  <2>1. IsFiniteSet({Symbol}) /\ \A y \in {Symbol} : f[y] \in Int
    BY <1>2, FS_Singleton
  <2>2. Symbol \in {Symbol}
    OBVIOUS
  <2> QED
    BY <2>1, <2>2, SumRemoves
<1>6. SumFunctionOnSet(f, {Symbol} \ {Symbol}) = 0
  <2>1. {Symbol} \ {Symbol} = {} /\ \A y \in {} : f[y] \in Int
    OBVIOUS
  <2> QED
    BY <2>1, SumType, FS_EmptySet
<1>7. Fast!RP!MarketValue(p) = q * x
  BY <1>2, <1>3, <1>4, <1>5, <1>6
<1>8. p.cash \in Int
  BY DEF BookPortfolios
<1> QED
  BY <1>1, <1>2, <1>7, <1>8 DEF Fast!RP!TotalBalance

\* Noting the peak changes nothing else.
LEMMA PeakNoted ==
  ASSUME NEW p \in BookPortfolios
  PROVE  /\ Fast!WithPeak(p) \in BookPortfolios
         /\ Fast!WithPeak(p).cash = p.cash /\ Fast!WithPeak(p).pos = p.pos
<1>1. PICK m \in Int : m = Max({p.peak, Fast!RP!TotalBalance(p)})
  <2>1. p.peak \in Int /\ Fast!RP!TotalBalance(p) \in Int
    BY OneValue DEF BookPortfolios
  <2>2. Max({p.peak, Fast!RP!TotalBalance(p)}) \in Int
    BY <2>1, MaxOfTwo
  <2> QED
    BY <2>2
<1>2. Fast!WithPeak(p) = [p EXCEPT !.peak = m]
  BY <1>1, FastMaxIsMax DEF Fast!WithPeak, BookPortfolios
<1> QED
  BY <1>2 DEF BookPortfolios

-----------------------------------------------------------------------------
(* Entering and leaving the position. *)

\* What is booked against the trades stays explained: qty comes in at a price.
LEMMA EnterKeeps ==
  ASSUME NEW b \in Books, ~Fast!InBook(b), NEW qty \in Nat \ {0}, NEW price \in Nat \ {0},
         NEW level \in Int \cup {None}, bar \in Nat
  PROVE  /\ Fast!Enter(b, qty, price, level) \in Books /\ Fast!InBook(Fast!Enter(b, qty, price, level))
         /\ Fast!Enter(b, qty, price, level).pf.cash = b.pf.cash - qty * price - Fast!Fee(qty, price)
         /\ Fast!Position(Fast!Enter(b, qty, price, level)) = Fast!RP!Opened(qty, price, level)
         /\ Fast!Enter(b, qty, price, level).fees = b.fees + Fast!Fee(qty, price)
<1>1. b \in BookType /\ Explained(b) /\ Entered(b)
  BY DEF Books
<1>2. PICK p \in BookPortfolios, c \in Int, f \in Int : p = b.pf /\ c = p.cash /\ f = b.fees
  BY <1>1, PositionType
<1>3. PICK v \in Nat, e \in Int : v = qty * price /\ e = Fast!Fee(qty, price)
  <2>1. qty * price \in Nat /\ qty \in Int /\ price \in Int
    OBVIOUS
  <2>2. Fast!Fee(qty, price) \in Int
    BY ONLY <2>1, FeeType
  <2> QED
    BY <2>1, <2>2
<1> DEFINE opened == Fast!RP!Opened(qty, price, level)
           o == Fast!Opening(p, qty, price, level)
           w == Fast!WithPeak(o)
           r == Fast!Enter(b, qty, price, level)
<1>4. opened = [qty |-> qty, entry |-> price, stop |-> level, price |-> price] /\ opened \in BookPositions
  BY DEF Fast!RP!Opened, BookPositions
<1>5. o = [p EXCEPT !.cash = c - v - e, !.pos[Symbol] = opened]
  BY <1>2, <1>3 DEF Fast!Opening, BookPortfolios
<1> HIDE DEF opened, o
<1>6. o \in BookPortfolios /\ o.cash = c - v - e /\ o.pos[Symbol] = opened
  <2>1. c - v - e \in Int
    OBVIOUS
  <2> QED
    BY <1>4, <1>5, <2>1 DEF BookPortfolios
<1>7. w \in BookPortfolios /\ w.cash = c - v - e /\ w.pos[Symbol] = opened
  BY <1>6, PeakNoted
<1> HIDE DEF w
<1>8. r = [b EXCEPT !.pf = w, !.fees = f + e, !.entryBar = bar + 1]
  BY <1>1, <1>2, <1>3 DEF Fast!Enter, BookType, w, o
<1> HIDE DEF r
<1>9. /\ r \in BookType /\ r.pf = w /\ r.fees = f + e /\ r.entryBar = bar + 1 /\ r.trades = b.trades
  <2>1. f + e \in Int /\ bar + 1 \in Nat /\ b \in BookType
    BY <1>1
  <2> QED
    BY ONLY <1>7, <1>8, <2>1 DEF BookType
<1>10. Fast!Position(r) = opened /\ opened.qty = qty /\ opened.entry = price
  BY <1>4, <1>7, <1>9 DEF Fast!Position
<1>11. Fast!InBook(r) /\ Entered(r)
  <2>1. bar + 1 # None
    BY OptionalAssumption
  <2>2. price > 0
    OBVIOUS
  <2> QED
    BY <1>9, <1>10, <2>1, <2>2 DEF Fast!InBook, Entered
<1>12. Explained(r)
  <2>1. PICK s \in Int, t \in Int : s = Fast!Profit(b.trades) /\ t = Fast!FeesOf(b.trades)
    <3>1. \E x : x \in Trades
      <4> DEFINE x == [entry |-> 0, exit |-> 0, qty |-> 0, reason |-> "sell_signal", entryBar |-> None,
                       exitBar |-> 0, fee |-> 0, pnl |-> 0]
      <4>1. x \in Trades
        BY DEF Trades, Reasons
      <4> QED
        BY <4>1
    <3> QED
      BY <1>1, <3>1, PositionType, TradesAdd
  <2>2. c = InitBalance + s /\ f = t
    <3>1. Fast!Position(b) = Fast!RP!Nothing
      BY <1>1 DEF Entered
    <3>2. Fast!Position(b).qty = 0 /\ Fast!Position(b).entry = 0
      BY <3>1 DEF Fast!RP!Nothing
    <3>3. Fast!Fee(0, 0) = 0
      BY NoFee
    <3>4. 0 * 0 = 0
      OBVIOUS
    <3>5. c + 0 + 0 = InitBalance + s /\ f = t + 0
      BY <1>1, <1>2, <2>1, <3>2, <3>3, <3>4 DEF Explained
    <3> QED
      BY <2>1, <3>5, ReplayAssumption
  <2>3. InitBalance \in Int
    BY ReplayAssumption
  <2>4. c - v - e + v + e = InitBalance + s /\ f + e = t + e
    BY <2>2, <2>3
  <2> QED
    BY <1>3, <1>7, <1>9, <1>10, <2>1, <2>4 DEF Explained
<1> QED
  BY <1>2, <1>3, <1>7, <1>9, <1>10, <1>11, <1>12 DEF Books, r, opened

\* The same when qty leaves it, whole or in part or more than there is.
LEMMA LeaveKeeps ==
  ASSUME NEW b \in Books, Fast!InBook(b), NEW qty \in Int, NEW price \in Int, NEW reason \in Reasons, bar \in Nat
  PROVE  /\ Fast!Leave(b, qty, price, reason) \in Books
         /\ Fast!Leave(b, qty, price, reason).pf.cash = b.pf.cash + qty * price - Fast!Fee(qty, price)
         /\ Fast!Position(Fast!Leave(b, qty, price, reason)) =
              IF Fast!Position(b).qty = qty THEN Fast!RP!Nothing
              ELSE [Fast!Position(b) EXCEPT !.qty = Fast!Position(b).qty - qty]
         /\ Fast!Leave(b, qty, price, reason).fees = b.fees + Fast!Fee(qty, price)
<1>1. b \in BookType /\ Explained(b) /\ Entered(b)
  BY DEF Books
<1>2. PICK p \in BookPortfolios, c \in Int, f \in Int, q \in Int, y \in Nat, old \in BookPositions :
        /\ p = b.pf /\ c = p.cash /\ f = b.fees /\ old = Fast!Position(b)
        /\ old = p.pos[Symbol] /\ q = old.qty /\ y = old.entry
  BY <1>1, PositionType
<1>3. PICK l \in Int : l = q - qty
  OBVIOUS
<1>4. PICK d \in Int, e \in Int : /\ d = price \div FeeScale /\ Fast!Fee(qty, price) = qty * d
                                  /\ e = y \div FeeScale /\ Fast!Fee(qty, y) = qty * e
                                  /\ Fast!Fee(q, y) = q * e /\ Fast!Fee(l, y) = l * e
  <2>1. price \div FeeScale \in Int /\ y \div FeeScale \in Int
    BY ReplayAssumption
  <2> QED
    BY <2>1 DEF Fast!Fee
<1> DEFINE left == IF l = 0 THEN Fast!RP!Nothing ELSE [old EXCEPT !.qty = l]
           o == [p EXCEPT !.cash = c + qty * price - qty * d, !.pos[Symbol] = left]
           w == Fast!WithPeak(o)
           t == Fast!TradeOf(b, qty, price, reason)
           r == Fast!Leave(b, qty, price, reason)
<1>5. left \in BookPositions
  BY <1>2 DEF BookPositions, Fast!RP!Nothing
<1>6. qty * price \in Int /\ qty * d \in Int /\ qty * e \in Int /\ q * e \in Int /\ l * e \in Int
      /\ q * y \in Int /\ l * y \in Int /\ qty * y \in Int
  OBVIOUS
<1> HIDE DEF left
<1>7. o \in BookPortfolios /\ o.cash = c + qty * price - qty * d /\ o.pos[Symbol] = left
  <2>1. c + qty * price - qty * d \in Int
    BY <1>6
  <2> QED
    BY <1>5, <2>1 DEF BookPortfolios
<1> HIDE DEF o
<1>8. w \in BookPortfolios /\ w.cash = c + qty * price - qty * d /\ w.pos[Symbol] = left
  BY <1>7, PeakNoted
<1> HIDE DEF w
<1>9. /\ t \in Trades /\ t.fee = qty * d + qty * e
      /\ t.pnl = qty * (price - y) - (qty * d + qty * e)
  <2>1. t = [entry |-> y, exit |-> price, qty |-> qty, reason |-> reason, entryBar |-> b.entryBar,
             exitBar |-> bar + 1, fee |-> qty * d + qty * e,
             pnl |-> qty * (price - y) - (qty * d + qty * e)]
    BY <1>2, <1>4 DEF Fast!TradeOf
  <2>2. b.entryBar \in Nat \cup {None} /\ bar + 1 \in Nat
    BY <1>1 DEF BookType
  <2>3. PICK u \in Int : u = qty * (price - y)
    OBVIOUS
  <2>4. qty * d + qty * e \in Int /\ u - (qty * d + qty * e) \in Int
    BY <1>6
  <2> HIDE DEF t
  <2> QED
    BY <2>1, <2>2, <2>3, <2>4 DEF Trades
<1> HIDE DEF t
<1>10. r = [pf |-> w, fees |-> f + qty * d, trades |-> Append(b.trades, t),
            entryBar |-> IF l = 0 THEN None ELSE b.entryBar]
  BY <1>2, <1>3, <1>4 DEF Fast!Leave, w, o, t, left
<1> HIDE DEF r
<1>11. r \in BookType
  <2>1. Append(b.trades, t) \in Seq(Trades)
    BY <1>1, <1>9, PositionType
  <2>2. b.entryBar \in Nat \cup {None} /\ f + qty * d \in Int
    BY <1>1, <1>6 DEF BookType
  <2> QED
    BY <1>8, <1>10, <2>1, <2>2 DEF BookType
<1>12. Fast!Position(r) = left
  BY <1>8, <1>10 DEF Fast!Position
<1>13. left.qty = l /\ (l # 0 => left.entry = y) /\ (l = 0 => left = Fast!RP!Nothing /\ left.entry = 0)
  BY <1>2 DEF left, BookPositions, Fast!RP!Nothing
<1>14. Entered(r)
  <2>1. y > 0 /\ b.entryBar # None
    BY <1>1, <1>2 DEF Entered, Fast!InBook
  <2> QED
    BY <1>10, <1>12, <1>13, <2>1 DEF Entered, Fast!InBook
<1>15. Explained(r)
  <2>1. PICK s \in Int, k \in Int : /\ s = Fast!Profit(b.trades) /\ k = Fast!FeesOf(b.trades)
                                    /\ Fast!Profit(r.trades) = s + t.pnl /\ Fast!FeesOf(r.trades) = k + t.fee
    BY <1>1, <1>9, <1>10, PositionType, TradesAdd
  <2>2. c + q * y + q * e = InitBalance + s /\ f = k + q * e
    BY <1>1, <1>2, <1>4, <2>1 DEF Explained
  <2>3. Fast!Position(r).qty * Fast!Position(r).entry = l * y /\ Fast!Fee(Fast!Position(r).qty, Fast!Position(r).entry) = l * e
    <3>1. CASE l = 0
      <4>1. Fast!Fee(0, 0) = 0
        BY NoFee
      <4>2. 0 * y = 0 /\ 0 * e = 0 /\ 0 * 0 = 0
        OBVIOUS
      <4> QED
        BY <1>12, <1>13, <3>1, <4>1, <4>2
    <3>2. CASE l # 0
      BY <1>4, <1>12, <1>13, <3>2
    <3> QED
      BY <3>1, <3>2
  <2>4. l * y = q * y - qty * y /\ l * e = q * e - qty * e /\ qty * (price - y) = qty * price - qty * y
    BY <1>3
  <2>5. PICK i \in Int : i = InitBalance
    BY ReplayAssumption
  <2>6. c + qty * price - qty * d + l * y + l * e = i + (s + (qty * (price - y) - (qty * d + qty * e)))
        /\ f + qty * d = (k + (qty * d + qty * e)) + l * e
    BY ONLY <1>6, <2>2, <2>4, <2>5, c \in Int, f \in Int, s \in Int, k \in Int, i \in Int
  <2> QED
    BY <1>8, <1>9, <1>10, <2>1, <2>3, <2>5, <2>6 DEF Explained
<1>16. q = qty <=> l = 0
  BY <1>3
<1> QED
  BY <1>2, <1>3, <1>4, <1>8, <1>10, <1>11, <1>12, <1>14, <1>15, <1>16, SMTT(30) DEF Books, r, left

-----------------------------------------------------------------------------
(* Fills. *)

\* A queued order.
OrderType == [side : {"buy", "sell"}, stop : Int, qty : Nat \ {0}]

\* Books whose cash, fees, position and stop are not negative.
Long(b) ==
  LET pos == Fast!Position(b)
  IN  /\ b.pf.cash >= 0 /\ b.fees >= 0 /\ pos.qty >= 0
      /\ Fast!InBook(b) => pos.qty > 0
      /\ pos.stop # None => pos.stop >= 0

\* The prices of a fill, with slippage.
LEMMA SlippedPrices ==
  ASSUME NEW open \in Prices
  PROVE  /\ open \in Nat \ {0} /\ open + open \div SlipScale \in Nat \ {0}
         /\ open - open \div SlipScale \in Nat
<1>1. open \in Nat \ {0} /\ SlipScale \in Nat \ {0}
  BY ReplayAssumption
<1>2. open \div SlipScale \in 0 .. open
  BY <1>1, QuotientBound
<1>3. PICK s \in 0 .. open : s = open \div SlipScale
  BY <1>2
<1> QED
  BY <1>1, <1>3

\* The fee of a price that is not negative is at most the price.
LEMMA FeeWithin ==
  ASSUME NEW p \in Nat
  PROVE  p \div FeeScale \in 0 .. p
  BY ReplayAssumption, QuotientBound

\* A BUY costs no more than the cash, whether it was reduced or not.
LEMMA AffordableType ==
  ASSUME NEW cash \in Int, NEW qty \in Nat \ {0}, NEW price \in Nat \ {0}
  PROVE  LET bought == Fast!Affordable(cash, qty, price)
         IN  bought \in Int /\ (bought > 0 => bought * price + Fast!Fee(bought, price) <= cash)
<1>1. PICK u \in Nat : u = price \div FeeScale
  BY FeeWithin
<1>2. PICK x \in Nat : x = qty * price + qty * u
  <2>1. qty * price \in Nat /\ qty * u \in Nat
    OBVIOUS
  <2> QED
    BY <2>1
<1>3. Fast!Fee(qty, price) = qty * u
  BY <1>1 DEF Fast!Fee
<1>4. PICK m \in Nat \ {0} : m = price + u
  OBVIOUS
<1>5. PICK d \in Int : d = cash \div m
  OBVIOUS
<1>6. m * d <= cash
  BY <1>5
<1>7. d * price + Fast!Fee(d, price) <= cash
  <2>1. Fast!Fee(d, price) = d * u
    BY <1>1 DEF Fast!Fee
  <2>2. m * d = d * price + d * u
    BY <1>4
  <2> QED
    BY <1>6, <2>1, <2>2
<1>8. Fast!Affordable(cash, qty, price) = IF cash >= x THEN qty ELSE d
  BY <1>1, <1>2, <1>3, <1>4, <1>5 DEF Fast!Affordable
<1> QED
  BY <1>2, <1>3, <1>7, <1>8

\* A fill leaves the books explained.
LEMMA FillKeeps ==
  ASSUME NEW b \in Books, NEW o \in OrderType, NEW open \in Prices, bar \in Nat
  PROVE  Fast!FillAtOpen(b, o, open) \in Books
<1>1. o.side \in {"buy", "sell"} /\ o.stop \in Int /\ o.qty \in Nat \ {0}
  BY DEF OrderType
<1>2. b.pf.cash \in Int
  BY PositionType DEF Books
<1>3. CASE o.side = "buy"
  <2>1. PICK price \in Nat \ {0} : price = open + open \div SlipScale
    BY SlippedPrices
  <2>2. PICK qty \in Int : qty = Fast!Affordable(b.pf.cash, o.qty, price)
    BY <1>1, <1>2, AffordableType
  <2>3. CASE Fast!InBook(b) \/ qty <= 0
    BY <1>3, <2>1, <2>2, <2>3 DEF Fast!FillAtOpen, Fast!FillBuy
  <2>4. CASE ~(Fast!InBook(b) \/ qty <= 0)
    <3>1. Fast!FillAtOpen(b, o, open) = Fast!Enter(b, qty, price, o.stop)
      BY <1>3, <2>1, <2>2, <2>4 DEF Fast!FillAtOpen, Fast!FillBuy
    <3>2. qty \in Nat \ {0} /\ o.stop \in Int \cup {None}
      BY <1>1, <2>4
    <3>3. Fast!Enter(b, qty, price, o.stop) \in Books
      BY <2>4, <3>2, EnterKeeps
    <3> QED
      BY <3>1, <3>3
  <2> QED
    BY <2>3, <2>4
<1>4. CASE o.side # "buy"
  <2>1. PICK price \in Int : price = open - open \div SlipScale
    BY SlippedPrices
  <2>2. CASE Fast!InBook(b)
    <3>1. Fast!FillAtOpen(b, o, open) = Fast!Leave(b, o.qty, price, "sell_signal")
      BY <1>4, <2>1, <2>2 DEF Fast!FillAtOpen, Fast!FillSell
    <3>2. o.qty \in Int /\ "sell_signal" \in Reasons
      BY <1>1 DEF Reasons
    <3> QED
      BY <2>2, <3>1, <3>2, LeaveKeeps
  <2>3. CASE ~Fast!InBook(b)
    BY <1>4, <2>3 DEF Fast!FillAtOpen, Fast!FillSell
  <2> QED
    BY <2>2, <2>3
<1> QED
  BY <1>3, <1>4

\* Selling no more than there is leaves long books.
LEMMA LeaveLong ==
  ASSUME NEW b \in Books, Long(b), Fast!InBook(b), NEW qty \in Nat, NEW price \in Nat, NEW reason \in Reasons,
         bar \in Nat, qty <= Fast!Position(b).qty
  PROVE  Long(Fast!Leave(b, qty, price, reason))
<1>1. PICK r \in Books : /\ r = Fast!Leave(b, qty, price, reason)
                         /\ r.pf.cash = b.pf.cash + qty * price - Fast!Fee(qty, price)
                         /\ Fast!Position(r) = IF Fast!Position(b).qty = qty THEN Fast!RP!Nothing
                                               ELSE [Fast!Position(b) EXCEPT !.qty = Fast!Position(b).qty - qty]
                         /\ r.fees = b.fees + Fast!Fee(qty, price)
  <2>1. qty \in Int /\ price \in Int
    OBVIOUS
  <2> QED
    BY <2>1, LeaveKeeps
<1>2. PICK c \in Nat, f \in Nat, old \in BookPositions :
        c = b.pf.cash /\ f = b.fees /\ old = Fast!Position(b)
  BY PositionType DEF Books, Long
<1>3. Fast!Fee(qty, price) \in Nat /\ Fast!Fee(qty, price) <= qty * price
  <2>1. PICK e \in Nat, k \in Nat : e = price \div FeeScale /\ price = e + k
    <3>1. PICK e \in 0 .. price : e = price \div FeeScale
      BY FeeWithin
    <3>2. price - e \in Nat /\ price = e + (price - e)
      OBVIOUS
    <3> QED
      BY <3>1, <3>2
  <2>2. qty * price = qty * e + qty * k /\ qty * e \in Nat /\ qty * k \in Nat
    BY <2>1
  <2> QED
    BY <2>1, <2>2 DEF Fast!Fee
<1>4. r.pf.cash >= 0 /\ r.fees >= 0
  <2>1. PICK x \in Nat, e \in Nat : x = qty * price /\ e = Fast!Fee(qty, price) /\ e <= x
    BY <1>3
  <2> QED
    BY <1>1, <1>2, <2>1
<1>5. PICK q \in Nat : q = old.qty /\ qty <= q /\ old.stop \in Int \cup {None} /\ (old.stop # None => old.stop >= 0)
  BY <1>2 DEF BookPositions, Long
<1>6. CASE q = qty
  <2>1. Fast!Position(r) = Fast!RP!Nothing
    BY <1>1, <1>2, <1>5, <1>6
  <2> QED
    BY <1>1, <1>4, <2>1 DEF Long, Fast!InBook, Fast!RP!Nothing
<1>7. CASE q # qty
  <2>1. Fast!Position(r) = [old EXCEPT !.qty = q - qty]
    BY <1>1, <1>2, <1>5, <1>7
  <2>2. Fast!Position(r).qty = q - qty /\ Fast!Position(r).stop = old.stop
    BY <2>1 DEF BookPositions
  <2>3. q - qty > 0
    BY <1>5, <1>7
  <2> QED
    BY <1>1, <1>4, <1>5, <2>2, <2>3 DEF Long
<1> QED
  BY <1>6, <1>7

\* Buying what the cash affords leaves long books, and so does selling what is held.
LEMMA FillLong ==
  ASSUME NEW b \in Books, Long(b), NEW o \in OrderType, NEW open \in Prices, bar \in Nat,
         o.side = "buy" => o.stop >= 0,
         o.side = "sell" /\ Fast!InBook(b) => o.qty <= Fast!Position(b).qty
  PROVE  /\ Long(Fast!FillAtOpen(b, o, open))
         /\ o.side = "buy" /\ Fast!InBook(b) => Fast!FillAtOpen(b, o, open) = b
<1>1. o.side \in {"buy", "sell"} /\ o.stop \in Int /\ o.qty \in Nat \ {0}
  BY DEF OrderType
<1>2. PICK c \in Nat, f \in Nat : c = b.pf.cash /\ f = b.fees
  BY PositionType DEF Books, Long
<1>3. CASE o.side = "buy"
  <2>1. PICK price \in Nat \ {0} : price = open + open \div SlipScale
    BY SlippedPrices
  <2>2. PICK qty \in Int : /\ qty = Fast!Affordable(c, o.qty, price)
                           /\ qty > 0 => qty * price + Fast!Fee(qty, price) <= c
    BY <1>1, <1>2, AffordableType, SMTT(30)
  <2>3. CASE Fast!InBook(b) \/ qty <= 0
    BY <1>2, <1>3, <2>1, <2>2, <2>3 DEF Fast!FillAtOpen, Fast!FillBuy
  <2>4. CASE ~(Fast!InBook(b) \/ qty <= 0)
    <3>1. Fast!FillAtOpen(b, o, open) = Fast!Enter(b, qty, price, o.stop)
      BY <1>2, <1>3, <2>1, <2>2, <2>4 DEF Fast!FillAtOpen, Fast!FillBuy
    <3>2. qty \in Nat \ {0} /\ o.stop \in Int \cup {None} /\ o.stop >= 0
      BY <1>1, <1>3, <2>4
    <3>3. PICK r : /\ r = Fast!Enter(b, qty, price, o.stop)
                   /\ r.pf.cash = c - qty * price - Fast!Fee(qty, price)
                   /\ Fast!Position(r) = Fast!RP!Opened(qty, price, o.stop)
                   /\ r.fees = f + Fast!Fee(qty, price)
      <4>1. PICK n \in Nat \ {0}, level \in Int \cup {None} : n = qty /\ level = o.stop
        BY <3>2
      <4>2. PICK r : r = Fast!Enter(b, n, price, level)
        OBVIOUS
      <4>3. /\ r.pf.cash = b.pf.cash - n * price - Fast!Fee(n, price)
            /\ Fast!Position(r) = Fast!RP!Opened(n, price, level)
            /\ r.fees = b.fees + Fast!Fee(n, price)
        BY <2>4, <4>2, EnterKeeps
      <4> QED
        BY <1>2, <4>1, <4>2, <4>3
    <3>4. PICK x \in Nat, e \in Nat : x = qty * price /\ e = Fast!Fee(qty, price) /\ x + e <= c
      <4>1. qty * price \in Nat
        BY <3>2
      <4>2. PICK d \in Nat : d = price \div FeeScale
        BY FeeWithin
      <4>3. qty * d \in Nat /\ Fast!Fee(qty, price) = qty * d
        BY <3>2, <4>2 DEF Fast!Fee
      <4> QED
        BY <2>2, <3>2, <4>1, <4>3
    <3>5. r.pf.cash >= 0 /\ r.fees >= 0
      BY <3>3, <3>4
    <3> QED
      BY <2>4, <3>1, <3>2, <3>3, <3>5 DEF Long, Fast!RP!Opened
  <2> QED
    BY <2>3, <2>4
<1>4. CASE o.side # "buy"
  <2>1. PICK price \in Nat : price = open - open \div SlipScale
    BY SlippedPrices
  <2>2. CASE Fast!InBook(b)
    <3>1. Fast!FillAtOpen(b, o, open) = Fast!Leave(b, o.qty, price, "sell_signal")
      BY <1>4, <2>1, <2>2 DEF Fast!FillAtOpen, Fast!FillSell
    <3>2. o.qty \in Nat /\ "sell_signal" \in Reasons /\ o.qty <= Fast!Position(b).qty
      BY <1>1, <1>4, <2>2 DEF Reasons
    <3> QED
      BY <1>4, <2>2, <3>1, <3>2, LeaveLong
  <2>3. CASE ~Fast!InBook(b)
    BY <1>4, <2>3 DEF Fast!FillAtOpen, Fast!FillSell
  <2> QED
    BY <1>4, <2>2, <2>3
<1> QED
  BY <1>3, <1>4

-----------------------------------------------------------------------------
(* One bar: the queue, the stop, the close. *)

\* Filling a queue goes from order to order: h[i] is the books after the first i.
LEMMA FilledInTurn ==
  ASSUME NEW b \in Books, NEW queue \in Seq(OrderType), NEW open \in Prices, bar \in Nat
  PROVE  \E h : /\ \A i \in 0 .. Len(queue) : h[i] \in Books
                /\ h[0] = b /\ h[Len(queue)] = Fast!Filled(b, queue, open)
                /\ \A i \in 1 .. Len(queue) : h[i] = Fast!FillAtOpen(h[i - 1], queue[i], open)
<1>1. PICK n \in Nat : n = Len(queue)
  OBVIOUS
<1>2. DOMAIN queue = 1 .. n /\ \A i \in 1 .. n : queue[i] \in OrderType
  BY <1>1
<1> DEFINE D == 1 .. n
           g == [q \in D \X Books |-> Fast!FillAtOpen(q[2], queue[q[1]], open)]
           Q(t) == t = [s \in SUBSET D |->
                          IF s = {} THEN b ELSE Fast!FillAtOpen(t[s \ {Max(s)}], queue[Max(s)], open)]
           c == CHOOSE t : Q(t)
           h == [i \in 0 .. n |-> c[1 .. i]]
<1>3. g \in [D \X Books -> Books]
  BY <1>2, FillKeeps
<1>4. PICK t : ListFolds(t, n, Books, b, g)
  <2> HIDE DEF g
  <2> QED
    BY <1>3, ListFoldExists
<1>5. Q(c)
  <2>1. \A s \in SUBSET D : s # {} =>
          g[<<Max(s), t[s \ {Max(s)}]>>] = Fast!FillAtOpen(t[s \ {Max(s)}], queue[Max(s)], open)
    <3> SUFFICES ASSUME NEW s \in SUBSET D, s # {}
                 PROVE  g[<<Max(s), t[s \ {Max(s)}]>>] = Fast!FillAtOpen(t[s \ {Max(s)}], queue[Max(s)], open)
      OBVIOUS
    <3>1. Max(s) \in D /\ t[s \ {Max(s)}] \in Books
      BY <1>4, MaxIsLargest DEF ListFolds
    <3> QED
      BY <3>1
  <2>2. \A s \in SUBSET D :
          t[s] = IF s = {} THEN b ELSE Fast!FillAtOpen(t[s \ {Max(s)}], queue[Max(s)], open)
    <3> HIDE DEF g
    <3> QED
      BY <1>4, <2>1 DEF ListFolds
  <2>3. Q(t)
    BY <1>4, <2>2 DEF ListFolds
  <2> HIDE DEF Q
  <2> QED
    BY <2>3
<1>6. Fast!Filled(b, queue, open) = c[D]
  BY <1>2, FastMaxIsMax DEF Fast!Filled, Fast!FoldLeft, Fast!MapThenFoldSet
<1> HIDE DEF c
<1>7. h[0] = b
  <2>1. 1 .. 0 = {} /\ {} \in SUBSET D
    OBVIOUS
  <2> QED
    BY <1>5, <2>1
<1>8. ASSUME NEW i \in 1 .. n PROVE h[i] = Fast!FillAtOpen(h[i - 1], queue[i], open)
  <2>1. /\ 1 .. i \in SUBSET D /\ 1 .. i # {}
        /\ Max(1 .. i) = i /\ (1 .. i) \ {Max(1 .. i)} = 1 .. i - 1
    BY LastOfPrefix
  <2>2. c[1 .. i] = Fast!FillAtOpen(c[1 .. i - 1], queue[i], open)
    BY <1>5, <2>1
  <2>3. i \in 0 .. n /\ i - 1 \in 0 .. n
    OBVIOUS
  <2> QED
    BY <2>2, <2>3
<1>9. h[n] = c[D]
  OBVIOUS
<1> HIDE DEF h, D
<1>10. \A i \in 0 .. n : h[i] \in Books
  <2> DEFINE v == [i \in 0 .. n |-> Books]
  <2>1. h[0] \in v[0]
    BY <1>7
  <2>2. ASSUME NEW i \in 1 .. n, h[i - 1] \in v[i - 1] PROVE h[i] \in v[i]
    <3>1. h[i - 1] \in Books
      BY <2>2
    <3>2. Fast!FillAtOpen(h[i - 1], queue[i], open) \in Books
      BY <1>2, <3>1, FillKeeps
    <3> QED
      BY <1>8, <3>2
  <2>3. \A i \in 0 .. n : v[i] = Books
    OBVIOUS
  <2> HIDE DEF v
  <2> QED
    BY <2>1, <2>2, <2>3, PrefixesStay
<1> QED
  BY <1>1, <1>6, <1>7, <1>8, <1>9, <1>10

\* At most one order of a queue sells, no more than is held; stops are not negative.
Covered(b, queue) ==
  /\ \A i, j \in 1 .. Len(queue) : queue[i].side = "sell" /\ queue[j].side = "sell" => i = j
  /\ \A i \in 1 .. Len(queue) : queue[i].side = "buy" => queue[i].stop >= 0
  /\ \A i \in 1 .. Len(queue) : queue[i].side = "sell" =>
       Fast!InBook(b) /\ queue[i].qty <= Fast!Position(b).qty

\* Filling a queue leaves the books explained, and long when it is covered.
LEMMA FilledKeeps ==
  ASSUME NEW b \in Books, NEW queue \in Seq(OrderType), NEW open \in Prices, bar \in Nat
  PROVE  /\ Fast!Filled(b, queue, open) \in Books
         /\ Long(b) /\ Covered(b, queue) => Long(Fast!Filled(b, queue, open))
<1>1. PICK n \in Nat : n = Len(queue)
  OBVIOUS
<1>2. \A i \in 1 .. n : queue[i] \in OrderType
  BY <1>1
<1>3. PICK h : /\ \A i \in 0 .. n : h[i] \in Books
               /\ h[0] = b /\ h[n] = Fast!Filled(b, queue, open)
               /\ \A i \in 1 .. n : h[i] = Fast!FillAtOpen(h[i - 1], queue[i], open)
  BY <1>1, FilledInTurn
<1>4. Fast!Filled(b, queue, open) \in Books
  BY <1>3
<1>5. ASSUME Long(b), Covered(b, queue) PROVE Long(Fast!Filled(b, queue, open))
  <2> DEFINE v == [i \in 0 .. n |-> {x \in Books : /\ Long(x)
                                                  /\ \A j \in i + 1 .. n : queue[j].side = "sell" =>
                                                       Fast!InBook(x) /\ queue[j].qty <= Fast!Position(x).qty}]
  <2>1. h[0] \in v[0]
    <3>1. \A j \in 0 + 1 .. n : queue[j].side = "sell" => Fast!InBook(b) /\ queue[j].qty <= Fast!Position(b).qty
      BY <1>1, <1>5 DEF Covered
    <3> QED
      BY <1>3, <1>5, <3>1
  <2>2. ASSUME NEW i \in 1 .. n, h[i - 1] \in v[i - 1] PROVE h[i] \in v[i]
    <3>1. PICK x \in Books : /\ x = h[i - 1] /\ Long(x)
                             /\ \A j \in i .. n : queue[j].side = "sell" =>
                                  Fast!InBook(x) /\ queue[j].qty <= Fast!Position(x).qty
      <4>1. (i - 1) + 1 = i /\ i - 1 \in 0 .. n
        OBVIOUS
      <4> QED
        BY <2>2, <4>1
    <3>2. PICK o \in OrderType : o = queue[i] /\ (o.side = "buy" => o.stop >= 0)
      BY <1>1, <1>2, <1>5 DEF Covered
    <3>3. PICK y \in Books : y = h[i] /\ y = Fast!FillAtOpen(x, o, open)
      <4>1. i \in 0 .. n
        OBVIOUS
      <4> QED
        BY <1>3, <3>1, <3>2, <4>1
    <3>4. o.side = "sell" /\ Fast!InBook(x) => o.qty <= Fast!Position(x).qty
      BY <3>1, <3>2
    <3>5. Long(y) /\ (o.side = "buy" /\ Fast!InBook(x) => y = x)
      BY <3>1, <3>2, <3>3, <3>4, FillLong
    <3>6. ASSUME NEW j \in i + 1 .. n, queue[j].side = "sell"
          PROVE  Fast!InBook(y) /\ queue[j].qty <= Fast!Position(y).qty
      <4>1. j \in i .. n /\ j \in 1 .. n /\ j # i
        OBVIOUS
      <4>2. Fast!InBook(x) /\ queue[j].qty <= Fast!Position(x).qty
        BY <3>1, <3>6, <4>1
      <4>3. o.side # "sell"
        BY <1>1, <1>5, <3>2, <3>6, <4>1 DEF Covered
      <4>4. o.side = "buy"
        BY <4>3 DEF OrderType
      <4> QED
        BY <3>5, <4>2, <4>4
    <3>7. i \in 0 .. n
      OBVIOUS
    <3> QED
      BY <3>3, <3>5, <3>6, <3>7
  <2>3. \A i \in 0 .. n : \A x \in v[i] : Long(x)
    OBVIOUS
  <2> HIDE DEF v
  <2>4. \A i \in 0 .. n : h[i] \in v[i]
    BY <2>1, <2>2, PrefixesStay
  <2>5. n \in 0 .. n
    OBVIOUS
  <2> QED
    BY <1>3, <2>3, <2>4, <2>5
<1> QED
  BY <1>4, <1>5

\* The stop closes the position, and leaves the books as they should be.
LEMMA StopKeeps ==
  ASSUME NEW b \in Books, NEW low \in Prices, bar \in Nat
  PROVE  /\ Fast!CheckStop(b, low) \in Books
         /\ Long(b) => Long(Fast!CheckStop(b, low))
<1>1. PICK q \in Int : q = Fast!Position(b).qty
  BY PositionType DEF Books
<1>2. CASE Fast!InBook(b) /\ Fast!Position(b).stop # None /\ low <= Fast!Position(b).stop
  <2>1. PICK level \in Int : level = Fast!Position(b).stop
    BY <1>2, PositionType DEF Books, BookPositions
  <2>2. Fast!CheckStop(b, low) = Fast!Leave(b, q, level, "stop_loss") /\ "stop_loss" \in Reasons
    BY <1>1, <1>2, <2>1 DEF Fast!CheckStop, Fast!Close, Reasons
  <2>3. Fast!Leave(b, q, level, "stop_loss") \in Books
    BY <1>2, <2>2, LeaveKeeps
  <2>4. ASSUME Long(b) PROVE Long(Fast!Leave(b, q, level, "stop_loss"))
    <3>1. q \in Nat /\ level \in Nat /\ q <= Fast!Position(b).qty
      BY <1>1, <1>2, <2>1, <2>4 DEF Long
    <3> QED
      BY <1>2, <2>2, <2>4, <3>1, LeaveLong
  <2> QED
    BY <2>2, <2>3, <2>4
<1>3. CASE ~(Fast!InBook(b) /\ Fast!Position(b).stop # None /\ low <= Fast!Position(b).stop)
  BY <1>3 DEF Fast!CheckStop
<1> QED
  BY <1>2, <1>3

\* The current price is no part of what the books explain.
LEMMA RepricedKeeps ==
  ASSUME NEW b \in Books, NEW price \in Prices
  PROVE  /\ Fast!Repriced(b, price) \in Books
         /\ Long(b) => Long(Fast!Repriced(b, price))
         /\ Fast!Position(Fast!Repriced(b, price)).qty = Fast!Position(b).qty
<1>1. b \in BookType /\ Explained(b) /\ Entered(b)
  BY DEF Books
<1>2. CASE ~Fast!InBook(b)
  BY <1>2 DEF Fast!Repriced
<1>3. CASE Fast!InBook(b)
  <2>1. PICK p \in BookPortfolios, old \in BookPositions : p = b.pf /\ old = p.pos[Symbol] /\ old = Fast!Position(b)
    BY <1>1, PositionType
  <2> DEFINE new == [old EXCEPT !.price = price]
             o == [p EXCEPT !.pos[Symbol] = new]
             r == Fast!Repriced(b, price)
  <2>2. price \in Nat
    BY ReplayAssumption
  <2>3. new \in BookPositions /\ new.qty = old.qty /\ new.entry = old.entry /\ new.stop = old.stop
    BY <2>2 DEF BookPositions
  <2> HIDE DEF new
  <2>4. o \in BookPortfolios /\ o.cash = p.cash /\ o.pos[Symbol] = new
    BY <2>3 DEF BookPortfolios
  <2> HIDE DEF o
  <2>5. r = [b EXCEPT !.pf = o]
    BY <1>1, <1>3, <2>1 DEF Fast!Repriced, BookType, o, new, BookPortfolios
  <2> HIDE DEF r
  <2>6. /\ r \in BookType /\ r.pf = o /\ r.fees = b.fees /\ r.trades = b.trades /\ r.entryBar = b.entryBar
    BY <1>1, <2>4, <2>5 DEF BookType
  <2>7. Fast!Position(r) = new
    BY <2>4, <2>6 DEF Fast!Position
  <2>8. r \in Books
    BY <1>1, <2>1, <2>3, <2>4, <2>6, <2>7, <1>3 DEF Books, Explained, Entered, Fast!InBook
  <2>9. Long(b) => Long(r)
    BY <2>1, <2>3, <2>4, <2>6, <2>7 DEF Long, Fast!InBook
  <2> QED
    BY <2>1, <2>3, <2>7, <2>8, <2>9 DEF r
<1> QED
  BY <1>2, <1>3

-----------------------------------------------------------------------------
(* Signals. *)

\* What the limits are.
LEMMA LimitsType ==
  /\ Risk.stop_loss \in 1 .. 50 /\ Risk.per_trade \in Nat /\ Risk.max_position \in Nat
<1>1. Risk \in Fast!RP!RiskParams
  BY RiskLimitsAssumption
<1>2. Risk.stop_loss \in 1 .. 50 /\ Risk.per_trade \in 1 .. 100 /\ Risk.max_position \in 1 .. 100
  BY ONLY <1>1 DEF Fast!RP!RiskParams
<1> QED
  BY ONLY <1>2

\* The default distance of a stop: not 0, and no more than half the price.
LEMMA DistanceType ==
  ASSUME NEW price \in Prices
  PROVE  (price * Risk.stop_loss) \div 100 \in 1 .. price
<1>1. PICK p \in Nat \ {0} : p = price
  BY ReplayAssumption
<1>2. PICK l \in 1 .. 50 : l = Risk.stop_loss
  BY LimitsType
<1>3. PICK k \in Nat : 50 = l + k
  <2>1. 50 - l \in Nat /\ 50 = l + (50 - l)
    OBVIOUS
  <2> QED
    BY <2>1
<1>4. p * 50 = p * l + p * k /\ p * l \in Nat /\ p * k \in Nat
  BY <1>3
<1>5. PICK x \in Nat : x = p * l /\ x >= 100 /\ x <= p * 50
  BY <1>1, <1>2, <1>4, RiskLimitsAssumption
<1>6. x \div 100 \in Nat \ {0}
  BY <1>5, HundredthIsPositive
<1>7. PICK d \in Nat \ {0} : d = x \div 100
  BY <1>6
<1>8. 100 * d <= x
  BY <1>7
<1>9. d <= p
  BY <1>5, <1>8
<1> QED
  BY <1>1, <1>2, <1>5, <1>7, <1>9

\* The position size divides by a positive risk for each unit, and is an amount.
LEMMA SizeType ==
  ASSUME NEW cash \in Int, NEW price \in Prices, NEW level \in Int
  PROVE  Fast!RP!PositionSize(cash, price, level) \in Nat
<1>1. PICK p \in Nat : p = price
  BY ReplayAssumption
<1>2. CASE cash <= 0
  BY <1>2 DEF Fast!RP!PositionSize
<1>3. CASE cash > 0
  <2>1. PICK c \in Nat : c = cash
    BY <1>3
  <2>2. PICK d \in Nat \ {0} : d = Fast!RP!StopDistance(price, level)
    <3>1. (price * Risk.stop_loss) \div 100 \in Nat \ {0}
      <4>1. PICK x \in 1 .. p : x = (price * Risk.stop_loss) \div 100
        BY <1>1, DistanceType
      <4> QED
        BY <4>1
    <3>2. level # price => Fast!RP!Magnitude(price - level) \in Nat \ {0}
      BY <1>1 DEF Fast!RP!Magnitude
    <3> QED
      BY <3>1, <3>2 DEF Fast!RP!StopDistance
  <2>3. PICK t \in Nat, m \in Nat : t = Risk.per_trade /\ m = Risk.max_position
    BY LimitsType
  <2>4. PICK x \in Nat, y \in Nat \ {0}, z \in Nat : x = c * t * p /\ y = 100 * d /\ z = c * m
    <3>1. c * t \in Nat /\ c * m \in Nat
      OBVIOUS
    <3>2. c * t * p \in Nat
      BY <3>1
    <3>3. 100 * d \in Nat \ {0}
      OBVIOUS
    <3> QED
      BY <3>1, <3>2, <3>3
  <2>5. x \div y \in Nat /\ z \div 100 \in Nat
    OBVIOUS
  <2>6. PICK u \in Nat, v \in Nat : u = x \div y /\ v = z \div 100
    BY <2>5
  <2>7. Fast!RP!PositionSize(cash, price, level) = Fast!RP!Min({u, v, c})
    BY <1>1, <1>3, <2>1, <2>2, <2>3, <2>4, <2>6 DEF Fast!RP!PositionSize, Fast!RP!RiskBasedSize
  <2>8. Min({u, v, c}) \in Nat
    BY MinOfThree
  <2> QED
    BY <2>7, <2>8, RiskMinIsMin
<1> QED
  BY <1>2, <1>3

\* A signal becomes an order: a SELL of no more than is held, a BUY with a stop
\* that is not negative.
LEMMA OrderOfType ==
  ASSUME NEW b \in Books, NEW side \in {"buy", "sell"}, NEW price \in Prices
  PROVE  LET o == Fast!OrderOf(b, side, price)
         IN  /\ o.side = side /\ o.qty \in Nat /\ o.stop \in Int
             /\ o.qty > 0 => o \in OrderType
             /\ side = "buy" => o.stop >= 0
             /\ side = "sell" /\ o.qty > 0 => Fast!InBook(b) /\ o.qty <= Fast!Position(b).qty
<1>1. PICK p \in BookPortfolios, c \in Int, h \in Int :
        /\ p = b.pf /\ c = p.cash /\ h = Fast!Position(b).qty /\ h = p.pos[Symbol].qty
  BY PositionType DEF Books
<1>2. PICK x \in Nat \ {0} : x = price
  BY ReplayAssumption
<1>3. PICK d \in 1 .. x : d = (price * Risk.stop_loss) \div 100
  BY <1>2, DistanceType
<1> DEFINE sig == [sym |-> Symbol, side |-> side, conf |-> 100, price |-> price, stop |-> None]
           o == Fast!OrderOf(b, side, price)
           level == IF side = "buy" THEN x - d ELSE x + d
           amount == IF 100 < Risk.min_confidence THEN 0
                     ELSE IF side = "sell" THEN Fast!RP!SellAmount(p, sig, None, None)
                     ELSE Fast!RP!BuyAmount(p, sig, None)
<1>4. Fast!RP!StopLoss(sig, None) = level /\ level \in Int /\ (side = "buy" => level >= 0)
  <2>1. Fast!RP!StopLoss(sig, None) = Fast!RP!StopAt(sig, (price * Risk.stop_loss) \div 100)
    BY DEF Fast!RP!StopLoss, Fast!RP!FixedStop
  <2> QED
    BY <1>2, <1>3, <2>1 DEF Fast!RP!StopAt
<1> DEFINE req == Fast!RP!RequestOf(p, sig, None, None)
<1>5. req.stop = level /\ req.qty = amount
  BY <1>4 DEF Fast!RP!RequestOf, Fast!RP!ApprovedAmount
<1>6. o = [side |-> side, stop |-> level, qty |-> IF Fast!RP!Breaches(p) THEN 0 ELSE amount]
  <2>1. o = [side |-> side, stop |-> req.stop, qty |-> IF Fast!RP!Breaches(p) THEN 0 ELSE req.qty]
    BY <1>1 DEF Fast!OrderOf
  <2> HIDE DEF o, req, level, amount
  <2> QED
    BY <1>5, <2>1
<1>7. PICK value \in Nat : value = Fast!RP!PositionSize(c, price, level)
  <2> HIDE DEF level
  <2> QED
    BY <1>4, SizeType
<1>8. value \div price \in Nat
  BY <1>2
<1>9. Fast!RP!BuyAmount(p, sig, None) \in Nat
  <2>1. Fast!RP!BuyAmount(p, sig, None) \in {0, value \div price}
    <3> HIDE DEF level
    <3> QED
      BY <1>1, <1>4, <1>7 DEF Fast!RP!BuyAmount
  <2> QED
    BY <1>8, <2>1
<1>10. /\ Fast!RP!SellAmount(p, sig, None, None) \in Nat
       /\ Fast!RP!SellAmount(p, sig, None, None) > 0 => h > 0 /\ Fast!RP!SellAmount(p, sig, None, None) <= h
  <2>1. PICK q \in Nat : q = value \div price
    BY <1>8
  <2>2. Fast!RP!SellAmount(p, sig, None, None) =
          IF ~(h > 0) \/ ~Fast!RP!SellAllowed(sig, None) THEN 0
          ELSE IF value > 0 THEN Min({q, h}) ELSE h
    <3> HIDE DEF level
    <3> QED
      BY <1>1, <1>4, <1>7, <2>1, RiskMinIsMin DEF Fast!RP!SellAmount, Fast!RP!Holds
  <2>3. Min({q, h}) = IF q <= h THEN q ELSE h
    BY MinOfTwo
  <2> QED
    BY <2>2, <2>3
<1>11. amount \in Nat /\ (side = "sell" /\ amount > 0 => h > 0 /\ amount <= h)
  <2> HIDE DEF sig
  <2> QED
    BY <1>9, <1>10
<1>12. h > 0 => Fast!InBook(b)
  <2>1. Fast!InBook(b) \/ Fast!Position(b) = Fast!RP!Nothing
    BY DEF Books, Entered
  <2>2. ASSUME Fast!Position(b) = Fast!RP!Nothing PROVE h = 0
    <3>1. PICK z : z = Fast!Position(b) /\ h = z.qty
      BY <1>1
    <3>2. z = [qty |-> 0, entry |-> 0, stop |-> None, price |-> 0]
      BY <2>2, <3>1 DEF Fast!RP!Nothing
    <3> QED
      BY ONLY <3>1, <3>2
  <2>3. ASSUME h = 0 PROVE ~(h > 0)
    BY ONLY <2>3
  <2> HIDE DEF sig, o, level, amount, req
  <2> QED
    BY <2>1, <2>2, <2>3
<1> HIDE DEF o, amount, level
<1>13. o.side = side /\ o.qty \in Nat /\ o.stop = level /\ (o.qty = 0 \/ o.qty = amount)
  BY <1>6, <1>11
<1>14. o.qty > 0 => o \in OrderType
  <2> SUFFICES ASSUME o.qty > 0 PROVE o \in OrderType
    OBVIOUS
  <2>1. o.qty \in Nat \ {0}
    BY <1>13
  <2> QED
    BY <1>4, <1>6, <1>13, <2>1 DEF OrderType
<1> QED
  BY <1>1, <1>4, <1>11, <1>12, <1>13, <1>14 DEF o

\* No list of signals sells twice.
OneSell == \A sides \in SignalLists : \A i, j \in DOMAIN sides : sides[i] = "sell" /\ sides[j] = "sell" => i = j

\* A queue is of orders, and covered when no list of signals sells twice.
LEMMA QueuedType ==
  ASSUME NEW b \in Books, NEW sides \in SignalLists, NEW price \in Prices
  PROVE  LET queue == Fast!Queued(b, sides, price)
         IN  queue \in Seq(OrderType) /\ (OneSell => Covered(b, queue))
<1>1. PICK n \in Nat : n = Len(sides) /\ DOMAIN sides = 1 .. n /\ \A i \in 1 .. n : sides[i] \in {"buy", "sell"}
  BY RiskLimitsAssumption
<1> DEFINE asked == [i \in 1 .. n |-> Fast!OrderOf(b, sides[i], price)]
           at == {i \in 1 .. n : asked[i].qty > 0}
           queue == Fast!Queued(b, sides, price)
<1>2. queue = Sublist(asked, at)
  BY <1>1, FastSublistIsSublist DEF Fast!Queued
<1>3. \A i \in at : /\ asked[i] \in OrderType /\ asked[i].side = sides[i]
                    /\ sides[i] = "buy" => asked[i].stop >= 0
                    /\ sides[i] = "sell" => Fast!InBook(b) /\ asked[i].qty <= Fast!Position(b).qty
  BY <1>1, OrderOfType
<1>4. at \in SUBSET (1 .. n)
  OBVIOUS
<1> HIDE DEF asked, at, queue
<1>5. queue \in Ordered(asked, at, OrderType)
  BY <1>2, <1>3, <1>4, SublistIsOrdered
<1>6. queue \in Seq(OrderType)
  BY <1>5 DEF Ordered
<1>7. PICK m \in Nat : m = Len(queue)
  BY <1>6
<1>8. PICK e \in [1 .. m -> at] : /\ \A i \in 1 .. m : queue[i] = asked[e[i]]
                                  /\ \A i, j \in 1 .. m : i < j => e[i] < e[j]
  BY <1>5, <1>7 DEF Ordered
<1>9. ASSUME OneSell PROVE Covered(b, queue)
  <2>1. \A i, j \in 1 .. m : queue[i].side = "sell" /\ queue[j].side = "sell" => i = j
    <3> SUFFICES ASSUME NEW i \in 1 .. m, NEW j \in 1 .. m, queue[i].side = "sell", queue[j].side = "sell"
                 PROVE  i = j
      OBVIOUS
    <3>1. PICK k \in at, l \in at : k = e[i] /\ l = e[j] /\ sides[k] = "sell" /\ sides[l] = "sell"
      BY <1>3, <1>8
    <3>2. k = l
      BY <1>1, <1>4, <1>9, <3>1 DEF OneSell
    <3>3. k \in Nat /\ l \in Nat
      BY <1>4
    <3>4. (i < j => k < l) /\ (j < i => l < k)
      BY <1>8, <3>1
    <3>5. ~(i < j) /\ ~(j < i)
      BY ONLY <3>2, <3>3, <3>4
    <3> QED
      BY <3>5
  <2>2. \A i \in 1 .. m : queue[i].side = "buy" => queue[i].stop >= 0
    BY <1>3, <1>8
  <2>3. \A i \in 1 .. m : queue[i].side = "sell" => Fast!InBook(b) /\ queue[i].qty <= Fast!Position(b).qty
    BY <1>3, <1>8
  <2> QED
    BY <1>7, <2>1, <2>2, <2>3 DEF Covered
<1> QED
  BY <1>6, <1>9 DEF queue

-----------------------------------------------------------------------------
(* The inductive invariant. *)

\* The books are explained, and what is queued are orders of after the warm-up.
BooksInv ==
  /\ books \in Books /\ pending \in Seq(OrderType)
  /\ bar \in Nat /\ bars \in Nat /\ last.close \in Nat
  /\ Len(pending) > 0 => bar >= Warmup

\* With it, the books are long, and what is queued for the next bar sells no
\* more than is held.  (After the last bar a queue is left that never fills.)
LongInv == Long(books) /\ (bar < bars => Covered(books, pending))

\* The books a backtest starts from.
LEMMA BooksStart ==
  ASSUME Init
  PROVE  BooksInv /\ LongInv
<1> DEFINE b == [pf |-> [cash |-> InitBalance, pos |-> [s \in {Symbol} |-> Fast!RP!Nothing], peak |-> InitBalance],
                 fees |-> 0, trades |-> <<>>, entryBar |-> None]
<1>1. books = b /\ pending = <<>> /\ last.close = 0 /\ bar \in Nat /\ bars \in Nat
  BY ReplayAssumption DEF Init, Fast!InitBooks
<1>2. InitBalance \in Nat
  BY ReplayAssumption
<1>3. b \in BookType
  BY <1>2 DEF BookType, BookPortfolios, BookPositions, Fast!RP!Nothing
<1>4. Fast!Position(b) = Fast!RP!Nothing /\ b.pf.cash = InitBalance /\ b.fees = 0 /\ b.trades = <<>> /\ b.entryBar = None
  BY DEF Fast!Position
<1> HIDE DEF b
<1>5. Fast!Profit(<<>>) = 0 /\ Fast!FeesOf(<<>>) = 0
  <2>1. DOMAIN <<>> = {}
    OBVIOUS
  <2>2. PICK p, f : p = Fast!Profits(<<>>) /\ f = [i \in DOMAIN <<>> |-> <<>>[i].fee]
    OBVIOUS
  <2>3. p \in [{} -> Int] /\ f \in [{} -> Int]
    BY <2>1, <2>2 DEF Fast!Profits
  <2>4. SumFunction(p) = 0 /\ SumFunction(f) = 0
    BY ONLY <2>3, SumOfNone
  <2> QED
    BY <2>2, <2>4, FastSumIsSum DEF Fast!Profit, Fast!FeesOf
<1>6. Explained(b)
  <2>1. Fast!Position(b).qty = 0 /\ Fast!Position(b).entry = 0 /\ Fast!Fee(0, 0) = 0 /\ 0 * 0 = 0
    BY <1>4, NoFee DEF Fast!RP!Nothing
  <2>2. InitBalance + 0 + 0 = InitBalance + 0 /\ 0 = 0 + 0
    BY <1>2
  <2> QED
    BY <1>4, <1>5, <2>1, <2>2 DEF Explained
<1>7. Entered(b) /\ Long(b)
  BY <1>2, <1>4 DEF Entered, Long, Fast!InBook, Fast!RP!Nothing
<1>8. Covered(b, <<>>) /\ Len(<<>>) = 0 /\ <<>> \in Seq(OrderType)
  BY DEF Covered
<1> QED
  BY <1>1, <1>3, <1>6, <1>7, <1>8 DEF BooksInv, LongInv, Books

\* A bar fills, checks the stop and queues.
LEMMA BarKeeps ==
  ASSUME BooksInv, NEW candle \in Fast!Candles, Fast!Bar(candle)
  PROVE  BooksInv' /\ (OneSell /\ LongInv => LongInv')
<1>1. candle.open \in Prices /\ candle.low \in Prices /\ candle.close \in Prices
  BY DEF Fast!Candles
<1>2. books \in Books /\ pending \in Seq(OrderType) /\ bar \in Nat
  BY DEF BooksInv
<1>3. PICK done \in Books : /\ done = Fast!Filled(books, pending, candle.open)
                            /\ LongInv => Long(done)
  <2>1. bar < bars
    BY DEF Fast!Bar
  <2> QED
    BY <1>1, <1>2, <2>1, FilledKeeps DEF LongInv
<1>4. PICK filled \in Books : /\ filled = Fast!CheckStop(done, candle.low)
                              /\ LongInv => Long(filled)
  BY <1>1, <1>2, <1>3, StopKeeps
<1>5. bar' = bar + 1 /\ last' = candle /\ bars' = bars /\ bars' \in Nat
  BY DEF Fast!Bar, BooksInv
<1>6. bar' \in Nat /\ last'.close \in Nat
  <2>1. candle.close \in Nat
    BY <1>1, ReplayAssumption
  <2>2. bar + 1 \in Nat
    BY <1>2
  <2> QED
    BY ONLY <1>5, <2>1, <2>2
<1>7. CASE books' = filled /\ pending' = <<>>
  <2>1. Covered(books', <<>>) /\ Len(<<>>) = 0 /\ <<>> \in Seq(OrderType)
    BY DEF Covered
  <2> QED
    BY <1>4, <1>5, <1>6, <1>7, <2>1 DEF BooksInv, LongInv
<1>8. CASE /\ bar + 1 >= Warmup
           /\ books' = Fast!Repriced(filled, candle.close)
           /\ \E sides \in SignalLists : pending' = Fast!Queued(books', sides, candle.close)
  <2>1. books' \in Books /\ (LongInv => Long(books'))
    BY <1>1, <1>4, <1>8, RepricedKeeps
  <2>2. PICK sides \in SignalLists : pending' = Fast!Queued(books', sides, candle.close)
    BY <1>8
  <2>3. pending' \in Seq(OrderType) /\ (OneSell => Covered(books', pending'))
    BY <1>1, <2>1, <2>2, QueuedType
  <2> QED
    BY <1>5, <1>6, <1>8, <2>1, <2>3 DEF BooksInv, LongInv
<1> QED
  BY <1>3, <1>4, <1>7, <1>8 DEF Fast!Bar

\* The last close closes what is left: the balance is the cash.
LEMMA ClosedKeeps ==
  ASSUME NEW b \in Books, NEW price \in Nat, bar \in Nat
  PROVE  LET closed == IF Fast!InBook(b) THEN Fast!Close(b, price, "end_of_data") ELSE b
         IN  /\ closed \in Books /\ (Long(b) => Long(closed))
             /\ Fast!RP!TotalBalance(closed.pf) = InitBalance + Fast!Profit(closed.trades)
             /\ closed.fees = Fast!FeesOf(closed.trades)
<1>1. PICK q \in Int : q = Fast!Position(b).qty
  BY PositionType DEF Books
<1>2. price \in Int /\ "end_of_data" \in Reasons
  BY DEF Reasons
<1>3. PICK closed : closed = IF Fast!InBook(b) THEN Fast!Close(b, price, "end_of_data") ELSE b
  OBVIOUS
<1>4. closed \in Books /\ Fast!Position(closed) = Fast!RP!Nothing /\ (Long(b) => Long(closed))
  <2>1. CASE Fast!InBook(b)
    <3>1. closed = Fast!Leave(b, q, price, "end_of_data")
      BY <1>1, <1>3, <2>1 DEF Fast!Close
    <3>2. closed \in Books /\ Fast!Position(closed) = Fast!RP!Nothing
      BY <1>1, <1>2, <2>1, <3>1, LeaveKeeps
    <3>3. ASSUME Long(b) PROVE Long(closed)
      <4>1. q \in Nat /\ q <= Fast!Position(b).qty
        BY <1>1, <2>1, <3>3 DEF Long
      <4> QED
        BY <1>2, <2>1, <3>1, <3>3, <4>1, LeaveLong
    <3> QED
      BY <3>2, <3>3
  <2>2. CASE ~Fast!InBook(b)
    BY <1>3, <2>2 DEF Books, Entered
  <2> QED
    BY <2>1, <2>2
<1>5. PICK p \in BookPortfolios, c \in Int : p = closed.pf /\ c = p.cash /\ p.pos[Symbol] = Fast!RP!Nothing
  BY <1>4, PositionType DEF Books
<1>6. Fast!RP!Nothing.qty = 0 /\ Fast!RP!Nothing.entry = 0 /\ Fast!RP!Nothing.price = 0
  BY DEF Fast!RP!Nothing
<1>7. Fast!RP!TotalBalance(p) = c
  <2>1. Fast!RP!TotalBalance(p) = 0 * 0 + c
    BY <1>5, <1>6, OneValue
  <2> QED
    BY <2>1
<1>8. c = InitBalance + Fast!Profit(closed.trades) /\ closed.fees = Fast!FeesOf(closed.trades)
  <2>1. PICK s, f : s = InitBalance + Fast!Profit(closed.trades) /\ f = Fast!FeesOf(closed.trades)
    OBVIOUS
  <2>2. Fast!FeesOf(closed.trades) \in Int
    <3> DEFINE x == [entry |-> 0, exit |-> 0, qty |-> 0, reason |-> "sell_signal", entryBar |-> None,
                     exitBar |-> 0, fee |-> 0, pnl |-> 0]
    <3>1. x \in Trades
      BY DEF Trades, Reasons
    <3> QED
      BY <1>4, <3>1, PositionType, TradesAdd DEF Books
  <2>3. c + 0 * 0 + 0 = s /\ closed.fees = f + 0
    BY <1>4, <1>5, <1>6, <2>1, NoFee DEF Books, Explained
  <2> QED
    BY <2>1, <2>2, <2>3
<1> QED
  BY <1>3, <1>4, <1>5, <1>7, <1>8

-----------------------------------------------------------------------------
(* The result. *)

\* Cardinality is the same in the engine's instance.
LEMMA FastCardinality == \A s : Fast!Cardinality(s) = Cardinality(s)
  BY DEF Fast!Cardinality, Cardinality, Fast!IsFiniteSet, IsFiniteSet

\* Every trade wins or loses, none does both.
LEMMA TradesCounted ==
  ASSUME NEW trades \in Seq(Trades), NEW points
  PROVE  LET metrics == Fast!ComputeMetrics(trades, points)
         IN  /\ metrics.winning + metrics.losing = Len(trades)
             /\ metrics.total_fees = Fast!FeesOf(trades)
<1>1. PICK n \in Nat : n = Len(trades) /\ DOMAIN trades = 1 .. n /\ \A i \in 1 .. n : trades[i] \in Trades
  OBVIOUS
<1>2. \A i \in 1 .. n : trades[i].pnl \in Int
  BY <1>1 DEF Trades
<1> DEFINE wins == {i \in 1 .. n : trades[i].pnl > 0}
           losses == {i \in 1 .. n : trades[i].pnl <= 0}
<1>3. /\ Fast!ComputeMetrics(trades, points).winning = Cardinality(wins)
      /\ Fast!ComputeMetrics(trades, points).losing = Cardinality(losses)
      /\ Fast!ComputeMetrics(trades, points).total_fees = Fast!FeesOf(trades)
  BY <1>1, FastCardinality DEF Fast!ComputeMetrics
<1>4. wins \cup losses = 1 .. n /\ wins \cap losses = {}
  BY <1>2
<1> HIDE DEF wins, losses
<1>5. IsFiniteSet(1 .. n) /\ Cardinality(1 .. n) = n
  BY FS_Interval
<1>6. IsFiniteSet(wins) /\ IsFiniteSet(losses)
  BY <1>4, <1>5, FS_Subset
<1>7. Cardinality(1 .. n) = Cardinality(wins) + Cardinality(losses) - 0
  BY <1>4, <1>6, FS_Union, FS_EmptySet
<1>8. Cardinality(wins) \in Nat /\ Cardinality(losses) \in Nat
  BY <1>6, FS_CardinalityType
<1> QED
  BY <1>1, <1>3, <1>5, <1>7, <1>8

\* The end of the run reports the closed books.
LEMMA FinishKeeps ==
  ASSUME BooksInv, Fast!Finish
  PROVE  BooksInv' /\ Fast!ResultExplained' /\ (LongInv => LongInv')
<1>1. books \in Books /\ bar \in Nat /\ bars \in Nat /\ last.close \in Nat
  BY DEF BooksInv
<1>2. PICK closed \in Books : /\ closed = IF Fast!InBook(books) THEN Fast!Close(books, last.close, "end_of_data") ELSE books
                              /\ (Long(books) => Long(closed))
                              /\ Fast!RP!TotalBalance(closed.pf) = InitBalance + Fast!Profit(closed.trades)
                              /\ closed.fees = Fast!FeesOf(closed.trades)
  <2>1. PICK price \in Nat : price = last.close
    BY <1>1
  <2> QED
    BY <1>1, <2>1, ClosedKeeps
<1>3. /\ books' = closed /\ bar' = bar /\ bar = bars /\ bars' = bars /\ last' = last /\ pending' = pending
      /\ result' = [final_balance |-> Fast!RP!TotalBalance(closed.pf),
                    metrics |-> Fast!ComputeMetrics(closed.trades, curve)]
  BY <1>2 DEF Fast!Finish
<1>4. closed.trades \in Seq(Trades)
  BY PositionType DEF Books
<1>5. PICK m : m = Fast!ComputeMetrics(closed.trades, curve)
  OBVIOUS
<1>6. m.winning + m.losing = Len(closed.trades) /\ m.total_fees = Fast!FeesOf(closed.trades)
  BY <1>4, <1>5, TradesCounted
<1>7. Fast!ResultExplained'
  BY <1>2, <1>3, <1>5, <1>6 DEF Fast!ResultExplained
<1>8. BooksInv'
  BY <1>2, <1>3 DEF BooksInv
<1>9. LongInv => LongInv'
  <2>1. ~(bar' < bars')
    BY <1>1, <1>3
  <2> QED
    BY <1>2, <1>3, <2>1 DEF LongInv
<1> QED
  BY <1>7, <1>8, <1>9

-----------------------------------------------------------------------------
(* The theorems. *)

\* A step of the simulation only moves the clock.
LEMMA SimulationKeeps ==
  ASSUME BooksInv, Sim!Next, UNCHANGED fastVars
  PROVE  BooksInv' /\ (LongInv => LongInv')
<1>1. (bar' = bar \/ bar' = bar + 1) /\ bars' = bars
  <2>1. ASSUME Sim!Decide PROVE bar' = bar + 1 /\ bars' = bars
    BY <2>1 DEF Sim!Decide
  <2>2. ASSUME Sim!Execute PROVE bar' = bar /\ bars' = bars
    BY <2>2 DEF Sim!Execute
  <2>3. ASSUME Sim!Hooks PROVE bar' = bar /\ bars' = bars
    BY <2>3 DEF Sim!Hooks
  <2>4. ASSUME Sim!Finish PROVE bar' = bar /\ bars' = bars
    BY <2>4 DEF Sim!Finish
  <2> QED
    BY <2>1, <2>2, <2>3, <2>4 DEF Sim!Next
<1>2. books' = books /\ pending' = pending /\ last' = last
  BY DEF fastVars
<1>3. bar \in Nat /\ bars \in Nat /\ Warmup \in Nat
  BY ReplayAssumption DEF BooksInv
<1>4. bar' \in Nat /\ (bar >= Warmup => bar' >= Warmup) /\ (bar' < bars' => bar < bars)
  BY ONLY <1>1, <1>3
<1> QED
  BY <1>1, <1>2, <1>4 DEF BooksInv, LongInv

\* The invariant is kept by every step of Replay.
LEMMA StepKeeps ==
  ASSUME BooksInv, ResultExplained, [Next]_vars
  PROVE  BooksInv' /\ ResultExplained' /\ (OneSell /\ LongInv => LongInv')
<1>1. ASSUME engine = "fast", Fast!Next, UNCHANGED <<engine, refused>>
      PROVE  BooksInv' /\ ResultExplained' /\ (OneSell /\ LongInv => LongInv')
  <2>1. ASSUME Fast!Finish PROVE BooksInv' /\ ResultExplained' /\ (OneSell /\ LongInv => LongInv')
    BY <2>1, FinishKeeps DEF ResultExplained
  <2>2. ASSUME NEW candle \in Fast!Candles, Fast!Bar(candle)
        PROVE  BooksInv' /\ ResultExplained' /\ (OneSell /\ LongInv => LongInv')
    <3>1. result' = None
      BY <2>2 DEF Fast!Bar
    <3> QED
      BY <2>2, <3>1, BarKeeps DEF ResultExplained, Fast!ResultExplained
  <2> QED
    BY <1>1, <2>1, <2>2 DEF Fast!Next
<1>2. ASSUME engine = "simulation", Sim!Next, UNCHANGED fastVars, UNCHANGED <<engine, refused>>
      PROVE  BooksInv' /\ ResultExplained' /\ (OneSell /\ LongInv => LongInv')
  <2>1. engine' # "fast"
    BY <1>2
  <2> QED
    BY <1>2, <2>1, SimulationKeeps DEF ResultExplained
<1>3. ASSUME UNCHANGED <<engine, bars, bar, curve, result, books, pending, last>>
      PROVE  BooksInv' /\ ResultExplained' /\ (OneSell /\ LongInv => LongInv')
  BY <1>3 DEF BooksInv, LongInv, ResultExplained, Fast!ResultExplained, Fast!Profit, Fast!Profits
<1>4. CASE Refuse
  BY <1>3, <1>4 DEF Refuse, fastVars
<1>5. CASE UNCHANGED vars
  BY <1>3, <1>5 DEF vars, fastVars
<1> QED
  BY <1>1, <1>2, <1>4, <1>5 DEF Next, Replayed

\* Whatever the candles and the signals, the completed trades of a backtest
\* explain its cash and its fees: partial sales, reduced BUYs, stops and two
\* SELLs of one position included.
THEOREM TradesAlwaysExplainCash == Spec => []TradesExplainCash
<1>1. Init => BooksInv /\ ResultExplained
  BY BooksStart DEF Init, ResultExplained, Fast!ResultExplained
<1>2. BooksInv /\ ResultExplained /\ [Next]_vars => BooksInv' /\ ResultExplained'
  BY StepKeeps
<1>3. BooksInv => TradesExplainCash
  BY DEF BooksInv, Books, Explained, TradesExplainCash, Fast!TradesExplainCash
<1> QED
  BY <1>1, <1>2, <1>3, PTL DEF Spec

\* What a backtest reports is of its completed trades: the final balance is the
\* initial one plus their profit, each is counted once as won or lost, and the
\* fees are those paid, the forced close of the last position included.
THEOREM ResultIsExplained == Spec => []ResultExplained
<1>1. Init => BooksInv /\ ResultExplained
  BY BooksStart DEF Init, ResultExplained, Fast!ResultExplained
<1>2. BooksInv /\ ResultExplained /\ [Next]_vars => BooksInv' /\ ResultExplained'
  BY StepKeeps
<1> QED
  BY <1>1, <1>2, PTL DEF Spec

\* When no bar sells twice, a backtest never spends more than its cash, and has
\* an entry bar for exactly the position it holds.
THEOREM CashCoversBuys ==
  ASSUME OneSell
  PROVE  Spec => []BacktestTypeOK
<1>1. Init => BooksInv /\ ResultExplained /\ LongInv
  BY BooksStart DEF Init, ResultExplained, Fast!ResultExplained
<1>2. BooksInv /\ ResultExplained /\ LongInv /\ [Next]_vars => BooksInv' /\ ResultExplained' /\ LongInv'
  BY StepKeeps
<1>3. ASSUME BooksInv, LongInv PROVE BacktestTypeOK
  <2>1. books \in Books /\ pending \in Seq(OrderType)
    BY <1>3 DEF BooksInv
  <2>2. books.pf.cash \in Nat /\ books.fees \in Nat
    BY <1>3, <2>1, PositionType DEF LongInv, Long, Books
  <2>3. Fast!InBook(books) <=> books.entryBar # None
    BY <2>1 DEF Books, Entered
  <2>4. \A i \in DOMAIN pending : pending[i].qty > 0
    <3>1. \A i \in DOMAIN pending : pending[i] \in OrderType
      BY <2>1
    <3>2. \A o \in OrderType : o.qty > 0
      BY DEF OrderType
    <3> QED
      BY <3>1, <3>2
  <2>5. Len(pending) > 0 => bar >= Warmup
    BY <1>3 DEF BooksInv
  <2> QED
    BY <2>2, <2>3, <2>4, <2>5 DEF BacktestTypeOK, Fast!TypeOK
<1> QED
  BY <1>1, <1>2, <1>3, PTL DEF Spec

\* Nor is its position ever short.
THEOREM OneSellNeverShort ==
  ASSUME OneSell
  PROVE  Spec => []NeverShort
<1>1. Init => BooksInv /\ ResultExplained /\ LongInv
  BY BooksStart DEF Init, ResultExplained, Fast!ResultExplained
<1>2. BooksInv /\ ResultExplained /\ LongInv /\ [Next]_vars => BooksInv' /\ ResultExplained' /\ LongInv'
  BY StepKeeps
<1>3. LongInv => NeverShort
  BY DEF LongInv, Long, NeverShort, Fast!NeverShort
<1> QED
  BY <1>1, <1>2, <1>3, PTL DEF Spec

-----------------------------------------------------------------------------
-----------------------------------------------------------------------------
(* The two matchings of Fifo, for orders whose fees are whole. *)

\* The fee of one unit at a price.
Unit(price) == price \div FeeScale

\* A filled order, and the lots it leaves in the two copies.
FilledOrders ==
  {o \in [side : {"buy", "sell"}, qty : Nat \ {0}, price : Nat \ {0}, fee : Nat] : o.fee = o.qty * Unit(o.price)}
RunnerLots ==
  {l \in [qty : Nat \ {0}, price : Nat \ {0}, fee : Nat] : l.fee = l.qty * Unit(l.price)}
RouterLots ==
  {l \in [qty : Nat \ {0}, price : Nat \ {0}, fee : Nat, remaining : Nat \ {0}] : l.fee = l.qty * Unit(l.price)}
ClosedTrades == [entry : Nat, exit : Nat, qty : Nat, fee : Nat, pnl : Int]

\* A SELL meeting lots, and the lots and trades between two orders.
Meeting(Lots) == [left : Nat, lots : Seq(Lots), trades : Seq(ClosedTrades)]
Matched(Lots) == [lots : Seq(Lots), trades : Seq(ClosedTrades)]

\* A unit's fee is a number.
LEMMA UnitType ==
  ASSUME NEW p \in Nat
  PROVE  Unit(p) \in Nat
  BY ReplayAssumption DEF Unit

\* The share of a whole fee is whole.
LEMMA ShareIsExact ==
  ASSUME NEW q \in Nat \ {0}, NEW m \in Nat, NEW u \in Nat
  PROVE  Sim!Share(q * u, m, q) = m * u
<1>1. PICK x \in Nat : x = m * u
  OBVIOUS
<1>2. (q * u) * m = x * q
  BY <1>1
<1>3. (x * q) \div q = x
  BY DivideBack
<1> QED
  BY <1>1, <1>2, <1>3 DEF Sim!Share

\* What a matched part of a lot makes of a trade.
TradeOf(order, price, matched) ==
  [entry |-> price, exit |-> order.price, qty |-> matched,
   fee |-> matched * Unit(price) + matched * Unit(order.price),
   pnl |-> (order.price - price) * matched - (matched * Unit(price) + matched * Unit(order.price))]

\* The trade of a match, when the fee of what is matched is whole.
LEMMA TradeOfType ==
  ASSUME NEW o \in FilledOrders, NEW lot, NEW m \in Nat, lot.price \in Nat
  PROVE  /\ Sim!ClosedTrade(o, lot, m, m * Unit(lot.price)) = TradeOf(o, lot.price, m)
         /\ TradeOf(o, lot.price, m) \in ClosedTrades
<1>1. PICK q \in Nat \ {0}, y \in Nat, p \in Nat, u \in Nat, v \in Nat :
        /\ q = o.qty /\ y = o.price /\ p = lot.price /\ u = Unit(p) /\ v = Unit(y) /\ o.fee = q * v
  BY UnitType DEF FilledOrders
<1>2. Sim!Share(o.fee, m, o.qty) = m * v
  BY <1>1, ShareIsExact
<1>3. m * u \in Nat /\ m * v \in Nat /\ m * u + m * v \in Nat /\ (y - p) * m \in Int
  OBVIOUS
<1>4. (y - p) * m - (m * u + m * v) \in Int
  BY <1>3
<1> QED
  BY <1>1, <1>2, <1>3, <1>4 DEF Sim!ClosedTrade, TradeOf, ClosedTrades

\* How much of a quantity meets what is left to sell.
Meets(qty, left) == IF qty <= left THEN qty ELSE left

\* A lot of qty meets a: `rest` is what stays of it when it is not used up.
MetBy(o, a, lot, qty, rest) ==
  IF a.left = 0 THEN [left |-> 0, lots |-> Append(a.lots, lot), trades |-> a.trades]
  ELSE [left   |-> a.left - Meets(qty, a.left),
        lots   |-> IF Meets(qty, a.left) = qty THEN a.lots ELSE Append(a.lots, rest),
        trades |-> Append(a.trades, TradeOf(o, lot.price, Meets(qty, a.left)))]

\* What stays of a lot in the two copies, when m of it is sold.
RunnerRest(lot, m) == [qty |-> lot.qty - m, price |-> lot.price, fee |-> (lot.qty - m) * Unit(lot.price)]
RouterRest(lot, m) == [lot EXCEPT !.remaining = lot.remaining - m]

\* Meeting keeps the types.
LEMMA MetByType ==
  ASSUME NEW Lots, NEW o \in FilledOrders, NEW a \in Meeting(Lots), NEW lot \in Lots, lot.price \in Nat,
         NEW qty \in Nat \ {0}, NEW rest, Meets(qty, a.left) # qty => rest \in Lots
  PROVE  /\ MetBy(o, a, lot, qty, rest) \in Meeting(Lots)
         /\ Meets(qty, a.left) \in Nat /\ Meets(qty, a.left) <= qty /\ Meets(qty, a.left) <= a.left
<1>1. PICK left \in Nat, lots \in Seq(Lots), trades \in Seq(ClosedTrades) :
        left = a.left /\ lots = a.lots /\ trades = a.trades /\ a = [left |-> left, lots |-> lots, trades |-> trades]
  BY DEF Meeting
<1>2. PICK m \in Nat : m = Meets(qty, left) /\ m <= qty /\ m <= left
  BY DEF Meets
<1>3. TradeOf(o, lot.price, m) \in ClosedTrades
  BY TradeOfType
<1>4. ASSUME a.left = 0 PROVE MetBy(o, a, lot, qty, rest) \in Meeting(Lots)
  <2>1. Append(lots, lot) \in Seq(Lots)
    OBVIOUS
  <2>2. MetBy(o, a, lot, qty, rest) = [left |-> left, lots |-> Append(lots, lot), trades |-> trades]
    BY <1>1, <1>4 DEF MetBy
  <2>3. left \in Nat /\ trades \in Seq(ClosedTrades)
    BY <1>1
  <2> QED
    BY ONLY <2>1, <2>2, <2>3 DEF Meeting
<1>5. ASSUME a.left # 0 PROVE MetBy(o, a, lot, qty, rest) \in Meeting(Lots)
  <2>1. PICK more : more = IF m = qty THEN lots ELSE Append(lots, rest)
    OBVIOUS
  <2>2. more \in Seq(Lots)
    BY <1>1, <1>2, <2>1
  <2>3. Append(trades, TradeOf(o, lot.price, m)) \in Seq(ClosedTrades) /\ left - m \in Nat
    BY <1>2, <1>3
  <2>4. MetBy(o, a, lot, qty, rest) = [left |-> left - m, lots |-> more, trades |-> Append(trades, TradeOf(o, lot.price, m))]
    BY <1>1, <1>2, <1>5, <2>1 DEF MetBy
  <2> QED
    BY ONLY <2>2, <2>3, <2>4 DEF Meeting
<1> QED
  BY <1>1, <1>2, <1>4, <1>5

\* A lot left alone is the same in both copies.
LEMMA UntouchedIs ==
  ASSUME NEW Lots, NEW a \in Meeting(Lots), NEW lot, a.left = 0
  PROVE  Sim!Untouched(a, lot) = [left |-> 0, lots |-> Append(a.lots, lot), trades |-> a.trades]
<1>1. PICK l, t : l = a.lots /\ t = a.trades
  OBVIOUS
<1>2. a = [left |-> 0, lots |-> l, trades |-> t]
  BY <1>1 DEF Meeting
<1> QED
  BY <1>1, <1>2, SMTT(30) DEF Sim!Untouched

\* The runner's turn, its lots' fees being whole.
LEMMA RunnerMatchIs ==
  ASSUME NEW o \in FilledOrders, NEW a \in Meeting(RunnerLots), NEW lot \in RunnerLots
  PROVE  /\ Sim!RunnerMatch(o, a, lot) = MetBy(o, a, lot, lot.qty, RunnerRest(lot, Meets(lot.qty, a.left)))
         /\ Sim!RunnerMatch(o, a, lot) \in Meeting(RunnerLots)
<1>1. PICK q \in Nat \ {0}, p \in Nat \ {0}, u \in Nat, left \in Nat :
        /\ q = lot.qty /\ p = lot.price /\ u = Unit(p) /\ left = a.left
        /\ lot = [qty |-> q, price |-> p, fee |-> q * u]
  BY UnitType DEF RunnerLots, Meeting
<1>2. PICK m \in Nat : m = Meets(q, left) /\ m <= q
  BY DEF Meets
<1>3. Sim!Share(lot.fee, m, q) = m * u
  BY <1>1, ShareIsExact
<1>4. Sim!ClosedTrade(o, lot, m, m * u) = TradeOf(o, p, m)
  BY <1>1, TradeOfType
<1>5. q * u - m * u = (q - m) * u
  OBVIOUS
<1>6. [lot EXCEPT !.qty = q - m, !.fee = q * u - m * u] = RunnerRest(lot, m)
  <2>1. lot.qty - m = q - m /\ Unit(lot.price) = u /\ lot.price = p
    BY <1>1
  <2>2. RunnerRest(lot, m) = [qty |-> q - m, price |-> p, fee |-> (q - m) * u]
    BY <2>1 DEF RunnerRest
  <2>3. [lot EXCEPT !.qty = q - m, !.fee = q * u - m * u] = [qty |-> q - m, price |-> p, fee |-> q * u - m * u]
    <3>1. PICK x \in Int, y \in Int : x = q - m /\ y = q * u - m * u
      OBVIOUS
    <3>2. lot \in [qty : Nat \ {0}, price : Nat \ {0}, fee : Nat] /\ lot.price = p
      BY <1>1 DEF RunnerLots
    <3>3. [lot EXCEPT !.qty = x, !.fee = y] = [qty |-> x, price |-> p, fee |-> y]
      <4>1. PICK r : r = [lot EXCEPT !.qty = x, !.fee = y]
        OBVIOUS
      <4>2. r \in [qty : Int, price : Nat \ {0}, fee : Int] /\ r.qty = x /\ r.price = p /\ r.fee = y
        BY <3>2, <4>1
      <4>3. r = [qty |-> x, price |-> p, fee |-> y]
        BY ONLY <4>2
      <4> QED
        BY <4>1, <4>3
    <3> QED
      BY <3>1, <3>3
  <2> QED
    BY <1>5, <2>2, <2>3
<1>7. Sim!RunnerMatch(o, a, lot) = MetBy(o, a, lot, q, RunnerRest(lot, m))
  <2>1. CASE a.left = 0
    BY <2>1, UntouchedIs DEF Sim!RunnerMatch, MetBy
  <2>2. CASE a.left # 0
    <3>1. lot.fee - m * u = q * u - m * u /\ lot.qty - m = q - m
      BY <1>1
    <3>2. [lot EXCEPT !.qty = lot.qty - m, !.fee = lot.fee - m * u] = RunnerRest(lot, m)
      BY <1>6, <3>1
    <3> QED
      BY <1>1, <1>2, <1>3, <1>4, <2>2, <3>2 DEF Sim!RunnerMatch, MetBy, Meets
  <2> QED
    BY <2>1, <2>2
<1>8. m # q => RunnerRest(lot, m) \in RunnerLots
  <2> SUFFICES ASSUME m # q PROVE RunnerRest(lot, m) \in RunnerLots
    OBVIOUS
  <2>1. PICK d \in Nat \ {0} : d = q - m
    BY <1>2
  <2>2. d * u \in Nat
    OBVIOUS
  <2> QED
    BY <1>1, <2>1, <2>2 DEF RunnerRest, RunnerLots
<1>9. MetBy(o, a, lot, q, RunnerRest(lot, m)) \in Meeting(RunnerLots)
  BY <1>1, <1>2, <1>8, MetByType
<1> QED
  BY <1>1, <1>2, <1>7, <1>9

\* The router's.
LEMMA RouterMatchIs ==
  ASSUME NEW o \in FilledOrders, NEW a \in Meeting(RouterLots), NEW lot \in RouterLots
  PROVE  /\ Sim!RouterMatch(o, a, lot) = MetBy(o, a, lot, lot.remaining, RouterRest(lot, Meets(lot.remaining, a.left)))
         /\ Sim!RouterMatch(o, a, lot) \in Meeting(RouterLots)
<1>1. PICK q \in Nat \ {0}, p \in Nat \ {0}, r \in Nat \ {0}, u \in Nat, left \in Nat :
        /\ q = lot.qty /\ p = lot.price /\ r = lot.remaining /\ u = Unit(p) /\ left = a.left
        /\ lot = [qty |-> q, price |-> p, fee |-> q * u, remaining |-> r]
  BY UnitType DEF RouterLots, Meeting
<1>2. PICK m \in Nat : m = Meets(r, left) /\ m <= r
  BY DEF Meets
<1>3. Sim!Share(lot.fee, m, q) = m * u
  BY <1>1, ShareIsExact
<1>4. Sim!ClosedTrade(o, lot, m, m * u) = TradeOf(o, p, m)
  BY <1>1, TradeOfType
<1>5. Sim!RouterMatch(o, a, lot) = MetBy(o, a, lot, r, RouterRest(lot, m))
  <2>1. CASE a.left = 0
    BY <2>1, UntouchedIs DEF Sim!RouterMatch, MetBy
  <2>2. CASE a.left # 0
    BY <1>1, <1>2, <1>3, <1>4, <2>2 DEF Sim!RouterMatch, MetBy, Meets, RouterRest
  <2> QED
    BY <2>1, <2>2
<1>6. m # r => RouterRest(lot, m) \in RouterLots
  <2> SUFFICES ASSUME m # r PROVE RouterRest(lot, m) \in RouterLots
    OBVIOUS
  <2>1. PICK d \in Nat \ {0} : d = r - m
    BY <1>2
  <2>2. RouterRest(lot, m) = [qty |-> q, price |-> p, fee |-> q * u, remaining |-> d]
    BY <1>1, <2>1 DEF RouterRest
  <2>3. q * u \in Nat
    OBVIOUS
  <2> QED
    BY <1>1, <2>2, <2>3 DEF RouterLots
<1>7. MetBy(o, a, lot, r, RouterRest(lot, m)) \in Meeting(RouterLots)
  BY <1>1, <1>2, <1>6, MetByType
<1> QED
  BY <1>1, <1>2, <1>5, <1>7

\* A lot of the router as the runner would have it.
Bare(lot) == [qty |-> lot.remaining, price |-> lot.price, fee |-> lot.remaining * Unit(lot.price)]
Bared(lots) == [i \in DOMAIN lots |-> Bare(lots[i])]
BareMeeting(a) == [left |-> a.left, lots |-> Bared(a.lots), trades |-> a.trades]
BareMatched(a) == [lots |-> Bared(a.lots), trades |-> a.trades]

\* What remains of a router's lot, with the fee of that, is a lot of the runner.
LEMMA BareType ==
  ASSUME NEW lot \in RouterLots
  PROVE  Bare(lot) \in RunnerLots
<1>1. PICK r \in Nat \ {0}, p \in Nat \ {0}, u \in Nat : r = lot.remaining /\ p = lot.price /\ u = Unit(p)
  BY UnitType DEF RouterLots
<1>2. r * u \in Nat
  OBVIOUS
<1> QED
  BY <1>1, <1>2 DEF Bare, RunnerLots

\* So a list of the one is, lot by lot, a list of the other.
LEMMA BaredType ==
  ASSUME NEW lots \in Seq(RouterLots)
  PROVE  /\ Bared(lots) \in Seq(RunnerLots) /\ Len(Bared(lots)) = Len(lots)
         /\ \A i \in 1 .. Len(lots) : Bared(lots)[i] = Bare(lots[i])
         /\ \A lot \in RouterLots : Bared(Append(lots, lot)) = Append(Bared(lots), Bare(lot))
<1>1. PICK n \in Nat : n = Len(lots) /\ DOMAIN lots = 1 .. n /\ \A i \in 1 .. n : lots[i] \in RouterLots
  OBVIOUS
<1>2. PICK b \in [1 .. n -> RunnerLots] : b = Bared(lots) /\ \A i \in 1 .. n : b[i] = Bare(lots[i])
  <2>1. PICK b : b = [i \in 1 .. n |-> Bare(lots[i])]
    OBVIOUS
  <2>2. \A i \in 1 .. n : Bare(lots[i]) \in RunnerLots
    BY <1>1, BareType
  <2>3. b \in [1 .. n -> RunnerLots] /\ \A i \in 1 .. n : b[i] = Bare(lots[i])
    BY <2>1, <2>2
  <2>4. b = Bared(lots)
    BY <1>1, <2>1 DEF Bared
  <2> QED
    BY <2>3, <2>4
<1>3. b \in Seq(RunnerLots) /\ Len(b) = n
  OBVIOUS
<1>4. ASSUME NEW lot \in RouterLots PROVE Bared(Append(lots, lot)) = Append(b, Bare(lot))
  <2>1. PICK more : /\ more = Append(lots, lot) /\ DOMAIN more = 1 .. n + 1 /\ more[n + 1] = lot
                    /\ \A i \in 1 .. n : more[i] = lots[i]
    <3>1. PICK more : more = Append(lots, lot)
      OBVIOUS
    <3> QED
      BY <1>1, <3>1
  <2>2. PICK c : c = Append(b, Bare(lot))
    OBVIOUS
  <2>3. c \in Seq(RunnerLots) /\ Len(c) = n + 1
    BY <1>3, <2>2, BareType
  <2>4. \A i \in 1 .. n + 1 : c[i] = Bare(more[i])
    BY <1>2, <1>3, <2>1, <2>2
  <2>5. c = [i \in 1 .. n + 1 |-> c[i]]
    BY <2>3
  <2> QED
    BY <2>1, <2>2, <2>4, <2>5 DEF Bared
<1> QED
  BY <1>1, <1>2, <1>3, <1>4

\* One lot: the two copies do the same.
LEMMA MatchesAgree ==
  ASSUME NEW o \in FilledOrders, NEW a \in Meeting(RouterLots), NEW lot \in RouterLots
  PROVE  /\ BareMeeting(a) \in Meeting(RunnerLots)
         /\ Sim!RunnerMatch(o, BareMeeting(a), Bare(lot)) = BareMeeting(Sim!RouterMatch(o, a, lot))
<1>1. PICK left \in Nat, lots \in Seq(RouterLots), trades \in Seq(ClosedTrades) :
        left = a.left /\ lots = a.lots /\ trades = a.trades
  BY DEF Meeting
<1>2. PICK b : b = BareMeeting(a) /\ b = [left |-> left, lots |-> Bared(lots), trades |-> trades]
  BY <1>1 DEF BareMeeting
<1>3. Bared(lots) \in Seq(RunnerLots) /\ \A x \in RouterLots : Bared(Append(lots, x)) = Append(Bared(lots), Bare(x))
  BY BaredType
<1>4. b \in Meeting(RunnerLots)
  BY <1>2, <1>3 DEF Meeting
<1>5. PICK r \in Nat \ {0}, p \in Nat \ {0}, m \in Nat :
        r = lot.remaining /\ p = lot.price /\ m = Meets(r, left) /\ m <= r
  <2>1. lot.remaining \in Nat \ {0} /\ lot.price \in Nat \ {0}
    BY DEF RouterLots
  <2>2. Meets(lot.remaining, left) \in Nat /\ Meets(lot.remaining, left) <= lot.remaining
    BY <2>1 DEF Meets
  <2> QED
    BY <2>1, <2>2
<1>6. Bare(lot) \in RunnerLots /\ Bare(lot).qty = r /\ Bare(lot).price = p
  BY <1>5, BareType DEF Bare
<1>7. Sim!RunnerMatch(o, b, Bare(lot)) = MetBy(o, b, Bare(lot), r, RunnerRest(Bare(lot), m))
  BY <1>2, <1>4, <1>5, <1>6, RunnerMatchIs
<1>8. Sim!RouterMatch(o, a, lot) = MetBy(o, a, lot, r, RouterRest(lot, m))
  BY <1>1, <1>5, RouterMatchIs
<1>9. CASE left = 0
  <2>1. MetBy(o, a, lot, r, RouterRest(lot, m)) = [left |-> 0, lots |-> Append(lots, lot), trades |-> trades]
    BY <1>1, <1>9 DEF MetBy
  <2>2. b.left = 0 /\ b.lots = Bared(lots) /\ b.trades = trades
    BY <1>2, <1>9
  <2>3. MetBy(o, b, Bare(lot), r, RunnerRest(Bare(lot), m)) =
          [left |-> 0, lots |-> Append(Bared(lots), Bare(lot)), trades |-> trades]
    BY <2>2 DEF MetBy
  <2>4. BareMeeting(MetBy(o, a, lot, r, RouterRest(lot, m))) =
          [left |-> 0, lots |-> Append(Bared(lots), Bare(lot)), trades |-> trades]
    <3>1. PICK c, d : c = MetBy(o, a, lot, r, RouterRest(lot, m)) /\ d = Append(lots, lot)
      OBVIOUS
    <3>2. c.left = 0 /\ c.lots = d /\ c.trades = trades
      BY <2>1, <3>1
    <3>3. Bared(d) = Append(Bared(lots), Bare(lot))
      BY <1>3, <3>1
    <3> QED
      BY <3>1, <3>2, <3>3 DEF BareMeeting
  <2> QED
    BY <1>2, <1>4, <1>7, <1>8, <2>3, <2>4
<1>10. CASE left # 0
  <2>1. PICK t : t = Append(trades, TradeOf(o, p, m))
    OBVIOUS
  <2>2. TradeOf(o, lot.price, m) = TradeOf(o, p, m) /\ TradeOf(o, Bare(lot).price, m) = TradeOf(o, p, m)
    BY <1>5, <1>6
  <2>3. MetBy(o, a, lot, r, RouterRest(lot, m)) =
          [left |-> left - m, lots |-> IF m = r THEN lots ELSE Append(lots, RouterRest(lot, m)), trades |-> t]
    BY <1>1, <1>5, <1>10, <2>1, <2>2 DEF MetBy
  <2>4. MetBy(o, b, Bare(lot), r, RunnerRest(Bare(lot), m)) =
          [left |-> left - m, lots |-> IF m = r THEN Bared(lots) ELSE Append(Bared(lots), RunnerRest(Bare(lot), m)), trades |-> t]
    <3>1. b.left = left /\ b.lots = Bared(lots) /\ b.trades = trades
      BY <1>2
    <3> QED
      BY <1>5, <1>10, <2>1, <2>2, <3>1 DEF MetBy
  <2>5. m # r => Bared(Append(lots, RouterRest(lot, m))) = Append(Bared(lots), RunnerRest(Bare(lot), m))
    <3> SUFFICES ASSUME m # r PROVE Bared(Append(lots, RouterRest(lot, m))) = Append(Bared(lots), RunnerRest(Bare(lot), m))
      OBVIOUS
    <3>1. PICK d \in Nat \ {0} : d = r - m
      BY <1>5
    <3>2. PICK x : x = RouterRest(lot, m)
      OBVIOUS
    <3>3. x \in RouterLots /\ x.remaining = d /\ x.price = p
      BY <1>5, <3>1, <3>2 DEF RouterRest, RouterLots
    <3>4. Bare(x) = RunnerRest(Bare(lot), m)
      BY <1>6, <3>1, <3>3 DEF Bare, RunnerRest
    <3> QED
      BY <1>3, <3>2, <3>3, <3>4
  <2>6. BareMeeting(MetBy(o, a, lot, r, RouterRest(lot, m))) = MetBy(o, b, Bare(lot), r, RunnerRest(Bare(lot), m))
    <3>1. PICK c, d : /\ c = MetBy(o, a, lot, r, RouterRest(lot, m))
                      /\ d = IF m = r THEN lots ELSE Append(lots, RouterRest(lot, m))
      OBVIOUS
    <3>2. c.left = left - m /\ c.lots = d /\ c.trades = t
      BY <2>3, <3>1
    <3>3. Bared(d) = IF m = r THEN Bared(lots) ELSE Append(Bared(lots), RunnerRest(Bare(lot), m))
      BY <2>5, <3>1
    <3> QED
      BY <2>4, <3>1, <3>2, <3>3 DEF BareMeeting
  <2> QED
    BY <1>2, <1>4, <1>7, <1>8, <2>6
<1> QED
  BY <1>9, <1>10

-----------------------------------------------------------------------------
(* A SELL meets the lots one after another. *)

\* The largest element is the same in the simulation's instance.
LEMMA SimMaxIsMax == \A s : Sim!Max(s) = Max(s)
  BY DEF Sim!Max, Max

\* What is left to sell, before the first lot.
Fresh(o, trades) == [left |-> o.qty, lots |-> <<>>, trades |-> trades]

\* What a SELL does to the lots of acc, in the two copies.
RunnerTurn(o, acc) ==
  Sim!FoldLeft(LAMBDA a, lot : Sim!RunnerMatch(o, a, lot), [left |-> o.qty, lots |-> <<>>, trades |-> acc.trades], acc.lots)
RouterTurn(o, acc) ==
  Sim!FoldLeft(LAMBDA a, lot : Sim!RouterMatch(o, a, lot), [left |-> o.qty, lots |-> <<>>, trades |-> acc.trades], acc.lots)

\* h[i] is what they have done after i lots.
RunnerTurned(h, o, lots, acc) ==
  /\ h \in [0 .. Len(lots) -> Meeting(RunnerLots)] /\ h[0] = Fresh(o, acc.trades)
  /\ \A i \in 1 .. Len(lots) : h[i] = Sim!RunnerMatch(o, h[i - 1], lots[i])
  /\ RunnerTurn(o, acc) = h[Len(lots)]
RouterTurned(h, o, lots, acc) ==
  /\ h \in [0 .. Len(lots) -> Meeting(RouterLots)] /\ h[0] = Fresh(o, acc.trades)
  /\ \A i \in 1 .. Len(lots) : h[i] = Sim!RouterMatch(o, h[i - 1], lots[i])
  /\ RouterTurn(o, acc) = h[Len(lots)]

\* A SELL starts with all of it to match.
LEMMA FreshType ==
  ASSUME NEW Lots, NEW o \in FilledOrders, NEW acc \in Matched(Lots)
  PROVE  Fresh(o, acc.trades) \in Meeting(Lots)
<1>1. <<>> \in Seq(Lots) /\ o.qty \in Nat /\ acc.trades \in Seq(ClosedTrades)
  BY DEF FilledOrders, Matched
<1> QED
  BY <1>1 DEF Fresh, Meeting

\* The runner goes from lot to lot.
LEMMA RunnerInTurn ==
  ASSUME NEW o \in FilledOrders, NEW acc \in Matched(RunnerLots), NEW lots \in Seq(RunnerLots), lots = acc.lots
  PROVE  \E h : RunnerTurned(h, o, lots, acc)
<1>1. PICK n \in Nat : n = Len(lots) /\ DOMAIN lots = 1 .. n /\ \A i \in 1 .. n : lots[i] \in RunnerLots
  OBVIOUS
<1> DEFINE D == 1 .. n
           V == Meeting(RunnerLots)
           base == Fresh(o, acc.trades)
           g == [p \in D \X V |-> Sim!RunnerMatch(o, p[2], lots[p[1]])]
           Q(t) == t = [s \in SUBSET D |->
                          IF s = {} THEN base ELSE Sim!RunnerMatch(o, t[s \ {Max(s)}], lots[Max(s)])]
           c == CHOOSE t : Q(t)
<1>2. \A v \in V : \A i \in D : Sim!RunnerMatch(o, v, lots[i]) \in V
  BY <1>1, RunnerMatchIs
<1>3. base \in V
  BY FreshType
<1> HIDE DEF V, base
<1>4. Turning(n, V, base, g)
  BY <1>2, <1>3 DEF Turning
<1>5. PICK t : ListFolds(t, n, V, base, g)
  <2> HIDE DEF g
  <2> QED
    BY <1>4, ListFoldExists DEF Turning
<1>6. Q(c)
  <2>1. ASSUME NEW s \in SUBSET D, s # {}
        PROVE  g[<<Max(s), t[s \ {Max(s)}]>>] = Sim!RunnerMatch(o, t[s \ {Max(s)}], lots[Max(s)])
    <3>1. Max(s) \in D /\ t[s \ {Max(s)}] \in V
      BY <1>5, <2>1, MaxIsLargest DEF ListFolds
    <3> QED
      BY <3>1
  <2>2. \A s \in SUBSET D : t[s] = IF s = {} THEN base ELSE Sim!RunnerMatch(o, t[s \ {Max(s)}], lots[Max(s)])
    <3> HIDE DEF g
    <3> QED
      BY <1>5, <2>1 DEF ListFolds
  <2>3. Q(t)
    BY <1>5, <2>2 DEF ListFolds
  <2> HIDE DEF Q
  <2> QED
    BY <2>3
<1>7. RunnerTurn(o, acc) = c[D]
  BY <1>1, SimMaxIsMax DEF RunnerTurn, Fresh, Sim!FoldLeft, Sim!MapThenFoldSet, base
<1>8. FoldsBy(c, n, V, base, g)
  <2>1. c[{}] = base
    BY <1>6
  <2>2. ASSUME NEW s \in SUBSET D, s # {}, c[s \ {Max(s)}] \in V
        PROVE  c[s] = g[<<Max(s), c[s \ {Max(s)}]>>]
    <3>1. PICK m \in D, x \in V : m = Max(s) /\ x = c[s \ {Max(s)}]
      BY <2>2, MaxIsLargest
    <3>2. c[s] = Sim!RunnerMatch(o, x, lots[m])
      BY <1>6, <2>2, <3>1
    <3>3. g[<<m, x>>] = Sim!RunnerMatch(o, x, lots[m])
      OBVIOUS
    <3> QED
      BY <3>1, <3>2, <3>3
  <2> HIDE DEF c, g
  <2> QED
    BY <2>1, <2>2 DEF FoldsBy
<1>9. PICK h : h = FoldPrefixes(c, n) /\ InTurn(h, n, V, base, g)
  <2> HIDE DEF c, g
  <2> QED
    BY <1>4, <1>8, FoldInTurn
<1>10. h[n] = c[D]
  BY <1>9 DEF FoldPrefixes
<1> HIDE DEF c, Q
<1>11. ASSUME NEW i \in 1 .. n PROVE h[i] = Sim!RunnerMatch(o, h[i - 1], lots[i])
  <2>1. PICK x \in V : x = h[i - 1]
    <3>1. i - 1 \in 0 .. n
      OBVIOUS
    <3> QED
      BY <1>9, <3>1 DEF InTurn
  <2>2. g[<<i, x>>] = Sim!RunnerMatch(o, x, lots[i])
    OBVIOUS
  <2> HIDE DEF g
  <2> QED
    BY <1>9, <2>1, <2>2 DEF InTurn
<1> HIDE DEF g
<1> QED
  BY <1>1, <1>7, <1>9, <1>10, <1>11 DEF InTurn, RunnerTurned, V, base

\* The router goes from lot to lot.
LEMMA RouterInTurn ==
  ASSUME NEW o \in FilledOrders, NEW acc \in Matched(RouterLots), NEW lots \in Seq(RouterLots), lots = acc.lots
  PROVE  \E h : RouterTurned(h, o, lots, acc)
<1>1. PICK n \in Nat : n = Len(lots) /\ DOMAIN lots = 1 .. n /\ \A i \in 1 .. n : lots[i] \in RouterLots
  OBVIOUS
<1> DEFINE D == 1 .. n
           V == Meeting(RouterLots)
           base == Fresh(o, acc.trades)
           g == [p \in D \X V |-> Sim!RouterMatch(o, p[2], lots[p[1]])]
           Q(t) == t = [s \in SUBSET D |->
                          IF s = {} THEN base ELSE Sim!RouterMatch(o, t[s \ {Max(s)}], lots[Max(s)])]
           c == CHOOSE t : Q(t)
<1>2. \A v \in V : \A i \in D : Sim!RouterMatch(o, v, lots[i]) \in V
  BY <1>1, RouterMatchIs
<1>3. base \in V
  BY FreshType
<1> HIDE DEF V, base
<1>4. Turning(n, V, base, g)
  BY <1>2, <1>3 DEF Turning
<1>5. PICK t : ListFolds(t, n, V, base, g)
  <2> HIDE DEF g
  <2> QED
    BY <1>4, ListFoldExists DEF Turning
<1>6. Q(c)
  <2>1. ASSUME NEW s \in SUBSET D, s # {}
        PROVE  g[<<Max(s), t[s \ {Max(s)}]>>] = Sim!RouterMatch(o, t[s \ {Max(s)}], lots[Max(s)])
    <3>1. Max(s) \in D /\ t[s \ {Max(s)}] \in V
      BY <1>5, <2>1, MaxIsLargest DEF ListFolds
    <3> QED
      BY <3>1
  <2>2. \A s \in SUBSET D : t[s] = IF s = {} THEN base ELSE Sim!RouterMatch(o, t[s \ {Max(s)}], lots[Max(s)])
    <3> HIDE DEF g
    <3> QED
      BY <1>5, <2>1 DEF ListFolds
  <2>3. Q(t)
    BY <1>5, <2>2 DEF ListFolds
  <2> HIDE DEF Q
  <2> QED
    BY <2>3
<1>7. RouterTurn(o, acc) = c[D]
  BY <1>1, SimMaxIsMax DEF RouterTurn, Fresh, Sim!FoldLeft, Sim!MapThenFoldSet, base
<1>8. FoldsBy(c, n, V, base, g)
  <2>1. c[{}] = base
    BY <1>6
  <2>2. ASSUME NEW s \in SUBSET D, s # {}, c[s \ {Max(s)}] \in V
        PROVE  c[s] = g[<<Max(s), c[s \ {Max(s)}]>>]
    <3>1. PICK m \in D, x \in V : m = Max(s) /\ x = c[s \ {Max(s)}]
      BY <2>2, MaxIsLargest
    <3>2. c[s] = Sim!RouterMatch(o, x, lots[m])
      BY <1>6, <2>2, <3>1
    <3>3. g[<<m, x>>] = Sim!RouterMatch(o, x, lots[m])
      OBVIOUS
    <3> QED
      BY <3>1, <3>2, <3>3
  <2> HIDE DEF c, g
  <2> QED
    BY <2>1, <2>2 DEF FoldsBy
<1>9. PICK h : h = FoldPrefixes(c, n) /\ InTurn(h, n, V, base, g)
  <2> HIDE DEF c, g
  <2> QED
    BY <1>4, <1>8, FoldInTurn
<1>10. h[n] = c[D]
  BY <1>9 DEF FoldPrefixes
<1> HIDE DEF c, Q
<1>11. ASSUME NEW i \in 1 .. n PROVE h[i] = Sim!RouterMatch(o, h[i - 1], lots[i])
  <2>1. PICK x \in V : x = h[i - 1]
    <3>1. i - 1 \in 0 .. n
      OBVIOUS
    <3> QED
      BY <1>9, <3>1 DEF InTurn
  <2>2. g[<<i, x>>] = Sim!RouterMatch(o, x, lots[i])
    OBVIOUS
  <2> HIDE DEF g
  <2> QED
    BY <1>9, <2>1, <2>2 DEF InTurn
<1> HIDE DEF g
<1> QED
  BY <1>1, <1>7, <1>9, <1>10, <1>11 DEF InTurn, RouterTurned, V, base

\* A SELL ends with the same trades in both copies, and with the same lots left.
LEMMA TurnsAgree ==
  ASSUME NEW o \in FilledOrders, NEW acc \in Matched(RouterLots)
  PROVE  /\ BareMatched(acc) \in Matched(RunnerLots)
         /\ RouterTurn(o, acc) \in Meeting(RouterLots)
         /\ RunnerTurn(o, BareMatched(acc)) = BareMeeting(RouterTurn(o, acc))
<1>1. PICK lots \in Seq(RouterLots), n \in Nat : lots = acc.lots /\ n = Len(lots) /\ \A i \in 1 .. n : lots[i] \in RouterLots
  BY DEF Matched
<1>2. PICK bare \in Seq(RunnerLots) : bare = Bared(lots) /\ Len(bare) = n /\ \A i \in 1 .. n : bare[i] = Bare(lots[i])
  BY <1>1, BaredType
<1>3. PICK b : b = BareMatched(acc) /\ b.lots = bare /\ b.trades = acc.trades /\ b \in Matched(RunnerLots)
  <2>1. PICK t \in Seq(ClosedTrades) : t = acc.trades
    BY DEF Matched
  <2>2. PICK b : b = [lots |-> bare, trades |-> t]
    OBVIOUS
  <2>3. BareMatched(acc) = b
    BY <1>1, <1>2, <2>1, <2>2 DEF BareMatched
  <2>4. b \in Matched(RunnerLots) /\ b.lots = bare /\ b.trades = t
    BY <2>1, <2>2 DEF Matched
  <2> QED
    BY <2>1, <2>3, <2>4
<1>4. PICK k : RouterTurned(k, o, lots, acc)
  BY <1>1, RouterInTurn
<1>5. PICK h : RunnerTurned(h, o, bare, b)
  BY <1>2, <1>3, RunnerInTurn
<1>6. /\ k \in [0 .. n -> Meeting(RouterLots)] /\ k[0] = Fresh(o, acc.trades) /\ RouterTurn(o, acc) = k[n]
      /\ \A i \in 1 .. n : k[i] = Sim!RouterMatch(o, k[i - 1], lots[i])
  BY <1>1, <1>4 DEF RouterTurned
<1>7. /\ h[0] = Fresh(o, acc.trades) /\ RunnerTurn(o, b) = h[n]
      /\ \A i \in 1 .. n : h[i] = Sim!RunnerMatch(o, h[i - 1], bare[i])
  BY <1>2, <1>3, <1>5 DEF RunnerTurned
<1> DEFINE e == [i \in 0 .. n |-> BareMeeting(k[i])]
<1>8. \A i \in 0 .. n : e[i] = BareMeeting(k[i])
  OBVIOUS
<1>9. h[0] = e[0]
  <2>1. Bared(<<>>) = <<>>
    BY DEF Bared
  <2>2. BareMeeting(Fresh(o, acc.trades)) = Fresh(o, acc.trades)
    BY <2>1 DEF BareMeeting, Fresh
  <2> QED
    BY <1>6, <1>7, <1>8, <2>2
<1> HIDE DEF e
<1>10. ASSUME NEW i \in 1 .. n, h[i - 1] = e[i - 1] PROVE h[i] = e[i]
  <2>1. i \in 0 .. n /\ i - 1 \in 0 .. n /\ lots[i] \in RouterLots
    BY <1>1
  <2>2. PICK a \in Meeting(RouterLots) : a = k[i - 1]
    BY <1>6, <2>1
  <2>3. Sim!RunnerMatch(o, BareMeeting(a), Bare(lots[i])) = BareMeeting(Sim!RouterMatch(o, a, lots[i]))
    BY <2>1, <2>2, MatchesAgree
  <2> QED
    BY <1>2, <1>6, <1>7, <1>8, <1>10, <2>1, <2>2, <2>3
<1>11. \A i \in 0 .. n : h[i] = e[i]
  BY <1>9, <1>10, StepsAgree
<1>12. n \in 0 .. n
  OBVIOUS
<1> QED
  BY <1>3, <1>6, <1>7, <1>8, <1>11, <1>12

-----------------------------------------------------------------------------
(* The orders, one after another. *)

NoLots == [lots |-> <<>>, trades |-> <<>>]

\* What an order does, in the two copies.
RunnerStep(acc, o) ==
  IF o.side = "buy" THEN [acc EXCEPT !.lots = Append(@, Sim!RunnerLot(o))]
  ELSE [lots |-> RunnerTurn(o, acc).lots, trades |-> RunnerTurn(o, acc).trades]
RouterStep(acc, o) ==
  IF o.side = "buy" THEN [acc EXCEPT !.lots = Append(@, Sim!RouterLot(o))]
  ELSE [lots |-> RouterTurn(o, acc).lots, trades |-> RouterTurn(o, acc).trades]

RouterBooks(list) == Sim!Ledgered(list, Sim!RouterLot, Sim!RouterMatch)

\* h[i] is what they have done after i orders.
RunnerWalked(h, list) ==
  /\ h \in [0 .. Len(list) -> Matched(RunnerLots)] /\ h[0] = NoLots
  /\ \A i \in 1 .. Len(list) : h[i] = RunnerStep(h[i - 1], list[i])
  /\ Sim!RunnerBooks(list) = h[Len(list)]
RouterWalked(h, list) ==
  /\ h \in [0 .. Len(list) -> Matched(RouterLots)] /\ h[0] = NoLots
  /\ \A i \in 1 .. Len(list) : h[i] = RouterStep(h[i - 1], list[i])
  /\ RouterBooks(list) = h[Len(list)]

\* Nothing bought yet.
LEMMA NoLotsType ==
  ASSUME NEW Lots
  PROVE  NoLots \in Matched(Lots)
<1>1. <<>> \in Seq(Lots) /\ <<>> \in Seq(ClosedTrades)
  OBVIOUS
<1> QED
  BY <1>1 DEF NoLots, Matched

\* A BUY leaves a lot whose fee is whole.
LEMMA LotsType ==
  ASSUME NEW o \in FilledOrders
  PROVE  /\ Sim!RunnerLot(o) \in RunnerLots /\ Sim!RouterLot(o) \in RouterLots
         /\ Bare(Sim!RouterLot(o)) = Sim!RunnerLot(o)
<1>1. PICK q \in Nat \ {0}, p \in Nat \ {0}, f \in Nat : q = o.qty /\ p = o.price /\ f = o.fee /\ f = q * Unit(p)
  BY DEF FilledOrders
<1>2. Sim!RunnerLot(o) = [qty |-> q, price |-> p, fee |-> f]
  BY <1>1 DEF Sim!RunnerLot
<1>3. Sim!RouterLot(o) = [qty |-> q, price |-> p, fee |-> f, remaining |-> q]
  BY <1>1 DEF Sim!RouterLot
<1>4. Sim!RunnerLot(o) \in RunnerLots
  BY <1>1, <1>2 DEF RunnerLots
<1>5. Sim!RouterLot(o) \in RouterLots
  BY <1>1, <1>3 DEF RouterLots
<1>6. Bare(Sim!RouterLot(o)) = [qty |-> q, price |-> p, fee |-> q * Unit(p)]
  BY <1>3 DEF Bare
<1> QED
  BY <1>1, <1>2, <1>4, <1>5, <1>6

\* The books are the steps of the orders, one after another.
LEMMA RunnerBooksAre ==
  ASSUME NEW list
  PROVE  Sim!RunnerBooks(list) = Sim!FoldLeft(LAMBDA a, o : RunnerStep(a, o), NoLots, list)
  BY DEF Sim!RunnerBooks, Sim!Ledgered, NoLots, RunnerStep, RunnerTurn, Sim!FoldLeft, Sim!MapThenFoldSet

\* A step keeps the types.
LEMMA RunnerStepType ==
  ASSUME NEW acc \in Matched(RunnerLots), NEW o \in FilledOrders
  PROVE  RunnerStep(acc, o) \in Matched(RunnerLots)
<1>1. PICK lots \in Seq(RunnerLots), trades \in Seq(ClosedTrades) : lots = acc.lots /\ trades = acc.trades
  BY DEF Matched
<1>2. CASE o.side = "buy"
  <2>1. Append(lots, Sim!RunnerLot(o)) \in Seq(RunnerLots)
    BY LotsType
  <2>2. acc = [lots |-> lots, trades |-> trades]
    BY <1>1 DEF Matched
  <2>3. RunnerStep(acc, o) = [lots |-> Append(lots, Sim!RunnerLot(o)), trades |-> trades]
    BY <1>2, <2>2 DEF RunnerStep
  <2> QED
    BY <2>1, <2>3 DEF Matched
<1>3. CASE o.side # "buy"
  <2>1. PICK h : RunnerTurned(h, o, lots, acc)
    BY <1>1, RunnerInTurn
  <2>2. Len(lots) \in 0 .. Len(lots)
    OBVIOUS
  <2>3. RunnerTurn(o, acc) \in Meeting(RunnerLots)
    BY <2>1, <2>2 DEF RunnerTurned
  <2> QED
    BY <1>3, <2>3 DEF RunnerStep, Meeting, Matched
<1> QED
  BY <1>2, <1>3

\* The runner goes from order to order.
LEMMA RunnerWalks ==
  ASSUME NEW list \in Seq(FilledOrders)
  PROVE  \E h : RunnerWalked(h, list)
<1>1. PICK n \in Nat : n = Len(list) /\ DOMAIN list = 1 .. n /\ \A i \in 1 .. n : list[i] \in FilledOrders
  OBVIOUS
<1> DEFINE D == 1 .. n
           V == Matched(RunnerLots)
           base == NoLots
           g == [p \in D \X V |-> RunnerStep(p[2], list[p[1]])]
           Q(t) == t = [s \in SUBSET D |->
                          IF s = {} THEN base ELSE RunnerStep(t[s \ {Max(s)}], list[Max(s)])]
           c == CHOOSE t : Q(t)
<1>2. \A v \in V : \A i \in D : RunnerStep(v, list[i]) \in V
  BY <1>1, RunnerStepType
<1>3. base \in V
  BY NoLotsType
<1> HIDE DEF V, base
<1>4. Turning(n, V, base, g)
  BY <1>2, <1>3 DEF Turning
<1>5. PICK t : ListFolds(t, n, V, base, g)
  <2> HIDE DEF g
  <2> QED
    BY <1>4, ListFoldExists DEF Turning
<1>6. Q(c)
  <2>1. ASSUME NEW s \in SUBSET D, s # {}
        PROVE  g[<<Max(s), t[s \ {Max(s)}]>>] = RunnerStep(t[s \ {Max(s)}], list[Max(s)])
    <3>1. Max(s) \in D /\ t[s \ {Max(s)}] \in V
      BY <1>5, <2>1, MaxIsLargest DEF ListFolds
    <3> QED
      BY <3>1
  <2>2. \A s \in SUBSET D : t[s] = IF s = {} THEN base ELSE RunnerStep(t[s \ {Max(s)}], list[Max(s)])
    <3> HIDE DEF g
    <3> QED
      BY <1>5, <2>1 DEF ListFolds
  <2>3. Q(t)
    BY <1>5, <2>2 DEF ListFolds
  <2> HIDE DEF Q
  <2> QED
    BY <2>3
<1>7. Sim!RunnerBooks(list) = c[D]
  BY <1>1, SimMaxIsMax, RunnerBooksAre DEF Sim!FoldLeft, Sim!MapThenFoldSet, base
<1>8. FoldsBy(c, n, V, base, g)
  <2>1. c[{}] = base
    BY <1>6
  <2>2. ASSUME NEW s \in SUBSET D, s # {}, c[s \ {Max(s)}] \in V
        PROVE  c[s] = g[<<Max(s), c[s \ {Max(s)}]>>]
    <3>1. PICK m \in D, x \in V : m = Max(s) /\ x = c[s \ {Max(s)}]
      BY <2>2, MaxIsLargest
    <3>2. c[s] = RunnerStep(x, list[m])
      BY <1>6, <2>2, <3>1
    <3>3. g[<<m, x>>] = RunnerStep(x, list[m])
      OBVIOUS
    <3> QED
      BY <3>1, <3>2, <3>3
  <2> HIDE DEF c, g
  <2> QED
    BY <2>1, <2>2 DEF FoldsBy
<1>9. PICK h : h = FoldPrefixes(c, n) /\ InTurn(h, n, V, base, g)
  <2> HIDE DEF c, g
  <2> QED
    BY <1>4, <1>8, FoldInTurn
<1>10. h[n] = c[D]
  BY <1>9 DEF FoldPrefixes
<1> HIDE DEF c, Q
<1>11. ASSUME NEW i \in 1 .. n PROVE h[i] = RunnerStep(h[i - 1], list[i])
  <2>1. PICK x \in V : x = h[i - 1]
    <3>1. i - 1 \in 0 .. n
      OBVIOUS
    <3> QED
      BY <1>9, <3>1 DEF InTurn
  <2>2. g[<<i, x>>] = RunnerStep(x, list[i])
    OBVIOUS
  <2> HIDE DEF g
  <2> QED
    BY <1>9, <2>1, <2>2 DEF InTurn
<1> HIDE DEF g
<1> QED
  BY <1>1, <1>7, <1>9, <1>10, <1>11 DEF InTurn, RunnerWalked, V, base

\* The books are the steps of the orders, one after another.
LEMMA RouterBooksAre ==
  ASSUME NEW list
  PROVE  RouterBooks(list) = Sim!FoldLeft(LAMBDA a, o : RouterStep(a, o), NoLots, list)
  BY DEF RouterBooks, Sim!Ledgered, NoLots, RouterStep, RouterTurn, Sim!FoldLeft, Sim!MapThenFoldSet

\* A step keeps the types.
LEMMA RouterStepType ==
  ASSUME NEW acc \in Matched(RouterLots), NEW o \in FilledOrders
  PROVE  RouterStep(acc, o) \in Matched(RouterLots)
<1>1. PICK lots \in Seq(RouterLots), trades \in Seq(ClosedTrades) : lots = acc.lots /\ trades = acc.trades
  BY DEF Matched
<1>2. CASE o.side = "buy"
  <2>1. Append(lots, Sim!RouterLot(o)) \in Seq(RouterLots)
    BY LotsType
  <2>2. acc = [lots |-> lots, trades |-> trades]
    BY <1>1 DEF Matched
  <2>3. RouterStep(acc, o) = [lots |-> Append(lots, Sim!RouterLot(o)), trades |-> trades]
    BY <1>2, <2>2 DEF RouterStep
  <2> QED
    BY <2>1, <2>3 DEF Matched
<1>3. CASE o.side # "buy"
  <2>1. PICK h : RouterTurned(h, o, lots, acc)
    BY <1>1, RouterInTurn
  <2>2. Len(lots) \in 0 .. Len(lots)
    OBVIOUS
  <2>3. RouterTurn(o, acc) \in Meeting(RouterLots)
    BY <2>1, <2>2 DEF RouterTurned
  <2> QED
    BY <1>3, <2>3 DEF RouterStep, Meeting, Matched
<1> QED
  BY <1>2, <1>3

\* The router goes from order to order.
LEMMA RouterWalks ==
  ASSUME NEW list \in Seq(FilledOrders)
  PROVE  \E h : RouterWalked(h, list)
<1>1. PICK n \in Nat : n = Len(list) /\ DOMAIN list = 1 .. n /\ \A i \in 1 .. n : list[i] \in FilledOrders
  OBVIOUS
<1> DEFINE D == 1 .. n
           V == Matched(RouterLots)
           base == NoLots
           g == [p \in D \X V |-> RouterStep(p[2], list[p[1]])]
           Q(t) == t = [s \in SUBSET D |->
                          IF s = {} THEN base ELSE RouterStep(t[s \ {Max(s)}], list[Max(s)])]
           c == CHOOSE t : Q(t)
<1>2. \A v \in V : \A i \in D : RouterStep(v, list[i]) \in V
  BY <1>1, RouterStepType
<1>3. base \in V
  BY NoLotsType
<1> HIDE DEF V, base
<1>4. Turning(n, V, base, g)
  BY <1>2, <1>3 DEF Turning
<1>5. PICK t : ListFolds(t, n, V, base, g)
  <2> HIDE DEF g
  <2> QED
    BY <1>4, ListFoldExists DEF Turning
<1>6. Q(c)
  <2>1. ASSUME NEW s \in SUBSET D, s # {}
        PROVE  g[<<Max(s), t[s \ {Max(s)}]>>] = RouterStep(t[s \ {Max(s)}], list[Max(s)])
    <3>1. Max(s) \in D /\ t[s \ {Max(s)}] \in V
      BY <1>5, <2>1, MaxIsLargest DEF ListFolds
    <3> QED
      BY <3>1
  <2>2. \A s \in SUBSET D : t[s] = IF s = {} THEN base ELSE RouterStep(t[s \ {Max(s)}], list[Max(s)])
    <3> HIDE DEF g
    <3> QED
      BY <1>5, <2>1 DEF ListFolds
  <2>3. Q(t)
    BY <1>5, <2>2 DEF ListFolds
  <2> HIDE DEF Q
  <2> QED
    BY <2>3
<1>7. RouterBooks(list) = c[D]
  BY <1>1, SimMaxIsMax, RouterBooksAre DEF Sim!FoldLeft, Sim!MapThenFoldSet, base
<1>8. FoldsBy(c, n, V, base, g)
  <2>1. c[{}] = base
    BY <1>6
  <2>2. ASSUME NEW s \in SUBSET D, s # {}, c[s \ {Max(s)}] \in V
        PROVE  c[s] = g[<<Max(s), c[s \ {Max(s)}]>>]
    <3>1. PICK m \in D, x \in V : m = Max(s) /\ x = c[s \ {Max(s)}]
      BY <2>2, MaxIsLargest
    <3>2. c[s] = RouterStep(x, list[m])
      BY <1>6, <2>2, <3>1
    <3>3. g[<<m, x>>] = RouterStep(x, list[m])
      OBVIOUS
    <3> QED
      BY <3>1, <3>2, <3>3
  <2> HIDE DEF c, g
  <2> QED
    BY <2>1, <2>2 DEF FoldsBy
<1>9. PICK h : h = FoldPrefixes(c, n) /\ InTurn(h, n, V, base, g)
  <2> HIDE DEF c, g
  <2> QED
    BY <1>4, <1>8, FoldInTurn
<1>10. h[n] = c[D]
  BY <1>9 DEF FoldPrefixes
<1> HIDE DEF c, Q
<1>11. ASSUME NEW i \in 1 .. n PROVE h[i] = RouterStep(h[i - 1], list[i])
  <2>1. PICK x \in V : x = h[i - 1]
    <3>1. i - 1 \in 0 .. n
      OBVIOUS
    <3> QED
      BY <1>9, <3>1 DEF InTurn
  <2>2. g[<<i, x>>] = RouterStep(x, list[i])
    OBVIOUS
  <2> HIDE DEF g
  <2> QED
    BY <1>9, <2>1, <2>2 DEF InTurn
<1> HIDE DEF g
<1> QED
  BY <1>1, <1>7, <1>9, <1>10, <1>11 DEF InTurn, RouterWalked, V, base

\* One order does the same in both.
LEMMA StepsOfOrdersAgree ==
  ASSUME NEW a \in Matched(RouterLots), NEW o \in FilledOrders
  PROVE  RunnerStep(BareMatched(a), o) = BareMatched(RouterStep(a, o))
<1>1. PICK lots \in Seq(RouterLots), trades \in Seq(ClosedTrades) : lots = a.lots /\ trades = a.trades
  BY DEF Matched
<1>2. a = [lots |-> lots, trades |-> trades]
  BY <1>1 DEF Matched
<1>3. BareMatched(a) = [lots |-> Bared(lots), trades |-> trades]
  BY <1>1 DEF BareMatched
<1>4. CASE o.side = "buy"
  <2>1. PICK l \in RouterLots : l = Sim!RouterLot(o) /\ Bare(l) = Sim!RunnerLot(o)
    BY LotsType
  <2>2. Bared(Append(lots, l)) = Append(Bared(lots), Bare(l))
    BY BaredType
  <2>3. RouterStep(a, o) = [lots |-> Append(lots, l), trades |-> trades]
    BY <1>2, <1>4, <2>1 DEF RouterStep
  <2>4. RunnerStep(BareMatched(a), o) = [lots |-> Append(Bared(lots), Bare(l)), trades |-> trades]
    <3>1. PICK b, m, x : b = BareMatched(a) /\ m = Bared(lots) /\ x = Bare(l)
      OBVIOUS
    <3>2. b = [lots |-> m, trades |-> trades] /\ b.lots = m
      BY <1>3, <3>1
    <3>3. RunnerStep(b, o) = [b EXCEPT !.lots = Append(m, x)]
      BY <1>4, <2>1, <3>1, <3>2 DEF RunnerStep
    <3>4. PICK y : y = Append(m, x)
      OBVIOUS
    <3>5. [b EXCEPT !.lots = y] = [lots |-> y, trades |-> trades]
      <4>1. PICK r : r = [b EXCEPT !.lots = y]
        OBVIOUS
      <4>2. b \in [lots : {m}, trades : {trades}] /\ b.trades = trades
        BY <3>2
      <4>3. r \in [lots : {y}, trades : {trades}] /\ r.lots = y /\ r.trades = trades
        BY <4>1, <4>2
      <4>4. r = [lots |-> y, trades |-> trades]
        BY ONLY <4>3
      <4> QED
        BY <4>1, <4>4
    <3> QED
      BY <3>1, <3>3, <3>4, <3>5
  <2>5. BareMatched([lots |-> Append(lots, l), trades |-> trades]) = [lots |-> Bared(Append(lots, l)), trades |-> trades]
    BY DEF BareMatched
  <2> QED
    BY <2>2, <2>3, <2>4, <2>5
<1>5. CASE o.side # "buy"
  <2>1. PICK t : t = RouterTurn(o, a) /\ RunnerTurn(o, BareMatched(a)) = BareMeeting(t)
    BY TurnsAgree
  <2>2. BareMeeting(t).lots = Bared(t.lots) /\ BareMeeting(t).trades = t.trades
    BY DEF BareMeeting
  <2>3. RouterStep(a, o) = [lots |-> t.lots, trades |-> t.trades]
    BY <1>5, <2>1 DEF RouterStep
  <2>4. RunnerStep(BareMatched(a), o) = [lots |-> Bared(t.lots), trades |-> t.trades]
    BY <1>5, <2>1, <2>2 DEF RunnerStep
  <2>5. BareMatched([lots |-> t.lots, trades |-> t.trades]) = [lots |-> Bared(t.lots), trades |-> t.trades]
    BY DEF BareMatched
  <2> QED
    BY <2>3, <2>4, <2>5
<1> QED
  BY <1>4, <1>5

\* The two copies go from order to order alike.
LEMMA WalksAgree ==
  ASSUME NEW list \in Seq(FilledOrders)
  PROVE  Sim!RunnerBooks(list).trades = RouterBooks(list).trades
<1>1. PICK n \in Nat : n = Len(list) /\ \A i \in 1 .. n : list[i] \in FilledOrders
  OBVIOUS
<1>2. PICK k : RouterWalked(k, list)
  BY RouterWalks
<1>3. PICK h : RunnerWalked(h, list)
  BY RunnerWalks
<1>4. /\ k \in [0 .. n -> Matched(RouterLots)] /\ k[0] = NoLots /\ RouterBooks(list) = k[n]
      /\ \A i \in 1 .. n : k[i] = RouterStep(k[i - 1], list[i])
  BY <1>1, <1>2 DEF RouterWalked
<1>5. /\ h[0] = NoLots /\ Sim!RunnerBooks(list) = h[n]
      /\ \A i \in 1 .. n : h[i] = RunnerStep(h[i - 1], list[i])
  BY <1>1, <1>3 DEF RunnerWalked
<1> DEFINE e == [i \in 0 .. n |-> BareMatched(k[i])]
<1>6. \A i \in 0 .. n : e[i] = BareMatched(k[i])
  OBVIOUS
<1>7. h[0] = e[0]
  <2>1. Bared(<<>>) = <<>>
    BY DEF Bared
  <2>2. BareMatched(NoLots) = NoLots
    BY <2>1 DEF BareMatched, NoLots
  <2> QED
    BY <1>4, <1>5, <1>6, <2>2
<1> HIDE DEF e
<1>8. ASSUME NEW i \in 1 .. n, h[i - 1] = e[i - 1] PROVE h[i] = e[i]
  <2>1. i \in 0 .. n /\ i - 1 \in 0 .. n /\ list[i] \in FilledOrders
    BY <1>1
  <2>2. PICK a \in Matched(RouterLots) : a = k[i - 1]
    BY <1>4, <2>1
  <2>3. RunnerStep(BareMatched(a), list[i]) = BareMatched(RouterStep(a, list[i]))
    BY <2>1, StepsOfOrdersAgree
  <2> QED
    BY <1>4, <1>5, <1>6, <1>8, <2>1, <2>2, <2>3
<1>9. \A i \in 0 .. n : h[i] = e[i]
  BY <1>7, <1>8, StepsAgree
<1>10. n \in 0 .. n
  OBVIOUS
<1>11. h[n] = BareMatched(k[n])
  BY <1>6, <1>9, <1>10
<1> QED
  BY <1>4, <1>5, <1>11 DEF BareMatched

-----------------------------------------------------------------------------
(* The list the router reads. *)

\* h[i] is what is kept of a list after i elements.
Kept(h, list, E) ==
  /\ h \in [0 .. Len(list) -> Seq(E)] /\ h[0] = <<>>
  /\ \A i \in 1 .. Len(list) : h[i] = Append(h[i - 1], list[i])
  /\ Sim!Sublist(list, DOMAIN list) = h[Len(list)]

\* Appending keeps the type.
LEMMA AppendType ==
  ASSUME NEW E, NEW s \in Seq(E), NEW x \in E
  PROVE  Append(s, x) \in Seq(E)
  OBVIOUS

\* Of an empty list nothing is kept.
LEMMA NothingKept ==
  ASSUME NEW E
  PROVE  <<>> \in Seq(E)
  OBVIOUS

\* The elements of a list are kept one by one.
LEMMA KeptInTurn ==
  ASSUME NEW E, NEW list \in Seq(E)
  PROVE  \E h : Kept(h, list, E)
<1>1. PICK n \in Nat : n = Len(list) /\ DOMAIN list = 1 .. n /\ \A i \in 1 .. n : list[i] \in E
  OBVIOUS
<1> DEFINE D == 1 .. n
           V == Seq(E)
           base == <<>>
           g == [p \in D \X V |-> Append(p[2], list[p[1]])]
           Q(t) == t = [s \in SUBSET D |->
                          IF s = {} THEN base ELSE Append(t[s \ {Max(s)}], list[Max(s)])]
           c == CHOOSE t : Q(t)
<1>2. \A v \in V : \A i \in D : Append(v, list[i]) \in V
  BY <1>1, AppendType
<1>3. base \in V
  BY NothingKept
<1> HIDE DEF V, base
<1>4. Turning(n, V, base, g)
  BY <1>2, <1>3 DEF Turning
<1>5. PICK t : ListFolds(t, n, V, base, g)
  <2> HIDE DEF g
  <2> QED
    BY <1>4, ListFoldExists DEF Turning
<1>6. Q(c)
  <2>1. ASSUME NEW s \in SUBSET D, s # {}
        PROVE  g[<<Max(s), t[s \ {Max(s)}]>>] = Append(t[s \ {Max(s)}], list[Max(s)])
    <3>1. Max(s) \in D /\ t[s \ {Max(s)}] \in V
      BY <1>5, <2>1, MaxIsLargest DEF ListFolds
    <3> QED
      BY <3>1
  <2>2. \A s \in SUBSET D : t[s] = IF s = {} THEN base ELSE Append(t[s \ {Max(s)}], list[Max(s)])
    <3> HIDE DEF g
    <3> QED
      BY <1>5, <2>1 DEF ListFolds
  <2>3. Q(t)
    BY <1>5, <2>2 DEF ListFolds
  <2> HIDE DEF Q
  <2> QED
    BY <2>3
<1>7. Sim!Sublist(list, DOMAIN list) = c[D]
  BY <1>1, SimMaxIsMax DEF Sim!Sublist, Sim!MapThenFoldSet, base
<1>8. FoldsBy(c, n, V, base, g)
  <2>1. c[{}] = base
    BY <1>6
  <2>2. ASSUME NEW s \in SUBSET D, s # {}, c[s \ {Max(s)}] \in V
        PROVE  c[s] = g[<<Max(s), c[s \ {Max(s)}]>>]
    <3>1. PICK m \in D, x \in V : m = Max(s) /\ x = c[s \ {Max(s)}]
      BY <2>2, MaxIsLargest
    <3>2. c[s] = Append(x, list[m])
      BY <1>6, <2>2, <3>1
    <3>3. g[<<m, x>>] = Append(x, list[m])
      OBVIOUS
    <3> QED
      BY <3>1, <3>2, <3>3
  <2> HIDE DEF c, g
  <2> QED
    BY <2>1, <2>2 DEF FoldsBy
<1>9. PICK h : h = FoldPrefixes(c, n) /\ InTurn(h, n, V, base, g)
  <2> HIDE DEF c, g
  <2> QED
    BY <1>4, <1>8, FoldInTurn
<1>10. h[n] = c[D]
  BY <1>9 DEF FoldPrefixes
<1> HIDE DEF c, Q
<1>11. ASSUME NEW i \in 1 .. n PROVE h[i] = Append(h[i - 1], list[i])
  <2>1. PICK x \in V : x = h[i - 1]
    <3>1. i - 1 \in 0 .. n
      OBVIOUS
    <3> QED
      BY <1>9, <3>1 DEF InTurn
  <2>2. g[<<i, x>>] = Append(x, list[i])
    OBVIOUS
  <2> HIDE DEF g
  <2> QED
    BY <1>9, <2>1, <2>2 DEF InTurn
<1> HIDE DEF g
<1> QED
  BY <1>1, <1>7, <1>9, <1>10, <1>11 DEF InTurn, Kept, V, base

\* All of a list is the list.
LEMMA AllOfIt ==
  ASSUME NEW E, NEW list \in Seq(E)
  PROVE  Sim!Sublist(list, DOMAIN list) = list
<1>1. PICK n \in Nat : n = Len(list) /\ list \in [1 .. n -> E]
  OBVIOUS
<1>2. PICK h : Kept(h, list, E)
  BY KeptInTurn
<1>3. /\ h \in [0 .. n -> Seq(E)] /\ h[0] = <<>> /\ Sim!Sublist(list, DOMAIN list) = h[n]
      /\ \A i \in 1 .. n : h[i] = Append(h[i - 1], list[i])
  BY <1>1, <1>2 DEF Kept
<1> DEFINE v == [i \in 0 .. n |-> {s \in Seq(E) : Len(s) = i /\ \A j \in 1 .. i : s[j] = list[j]}]
<1>4. h[0] \in v[0]
  <2>1. <<>> \in Seq(E) /\ Len(<<>>) = 0
    OBVIOUS
  <2> QED
    BY <1>3, <2>1
<1>5. ASSUME NEW i \in 1 .. n, h[i - 1] \in v[i - 1] PROVE h[i] \in v[i]
  <2>1. i - 1 \in 0 .. n /\ i \in 0 .. n /\ list[i] \in E
    BY <1>1
  <2>2. PICK s \in Seq(E) : s = h[i - 1] /\ Len(s) = i - 1 /\ \A j \in 1 .. i - 1 : s[j] = list[j]
    BY <1>5, <2>1
  <2>3. PICK r : r = Append(s, list[i])
    OBVIOUS
  <2>4. r \in Seq(E) /\ Len(r) = i /\ r[i] = list[i] /\ \A j \in 1 .. i - 1 : r[j] = s[j]
    BY <2>1, <2>2, <2>3
  <2>5. \A j \in 1 .. i : r[j] = list[j]
    BY <2>2, <2>4
  <2>6. h[i] = r
    BY <1>3, <2>2, <2>3
  <2> QED
    BY <2>1, <2>4, <2>5, <2>6
<1> HIDE DEF v
<1>6. \A i \in 0 .. n : h[i] \in v[i]
  BY <1>4, <1>5, PrefixesStay
<1>7. h[n] \in v[n] /\ n \in 0 .. n
  BY <1>6
<1>8. PICK s \in Seq(E) : s = h[n] /\ Len(s) = n /\ \A j \in 1 .. n : s[j] = list[j]
  BY <1>7 DEF v
<1>9. s = list
  BY <1>1, <1>8
<1> QED
  BY <1>3, <1>8, <1>9

\* The trades of a simulation's orders are those of the router.
LEMMA TradesOfOrdersAgree ==
  ASSUME NEW list \in Seq(FilledOrders)
  PROVE  Sim!RunnerTrades(list) = Sim!RouterTrades(list)
<1>1. \A i \in DOMAIN list : list[i].qty > 0 /\ list[i].price > 0
  <2>1. \A i \in DOMAIN list : list[i] \in FilledOrders
    OBVIOUS
  <2>2. \A o \in FilledOrders : o.qty > 0 /\ o.price > 0
    BY DEF FilledOrders
  <2> QED
    BY <2>1, <2>2
<1>2. {i \in DOMAIN list : list[i].qty > 0 /\ list[i].price > 0} = DOMAIN list
  BY <1>1
<1>3. Sim!Sublist(list, {i \in DOMAIN list : list[i].qty > 0 /\ list[i].price > 0}) = list
  BY <1>2, AllOfIt
<1>4. Sim!RouterTrades(list) = RouterBooks(list).trades
  BY <1>3 DEF Sim!RouterTrades, RouterBooks
<1> QED
  BY <1>4, WalksAgree DEF Sim!RunnerTrades

-----------------------------------------------------------------------------
(* Reservations and fills of the simulation. *)

Accounts == [cash : Int, pos : [Symbols -> Nat], fees : Int]
Asked    == [sym : {Symbol}, side : {"buy", "sell"}, price : Int, stop : Int \cup {None}, qty : Nat \ {0}]
Requests == {r \in Asked : r.price \in Prices /\ r.stop \in Int}

\* Every update writes the cash and the position, and a fill the fees.
Held(account) == account.pos[Symbol]
Moved(p, c, a)      == [p EXCEPT !.cash = c, !.pos[Symbol] = a]
Settled(p, c, a, f) == [p EXCEPT !.cash = c, !.pos[Symbol] = a, !.fees = f]

\* An account that moves is an account.
LEMMA MovedType ==
  ASSUME NEW p \in Accounts, NEW c \in Int, NEW a \in Nat
  PROVE  Moved(p, c, a) \in Accounts /\ Moved(p, c, a).cash = c /\ Held(Moved(p, c, a)) = a
  BY ReplayAssumption DEF Accounts, Moved, Held

\* So is one that pays a fee.
LEMMA SettledType ==
  ASSUME NEW p \in Accounts, NEW c \in Int, NEW a \in Nat, NEW f \in Int
  PROVE  Settled(p, c, a, f) \in Accounts /\ Settled(p, c, a, f).cash = c /\ Held(Settled(p, c, a, f)) = a
  BY ReplayAssumption DEF Accounts, Settled, Held

\* What the operators read.
LEMMA AccountFields ==
  ASSUME NEW p \in Accounts, NEW r \in Asked
  PROVE  /\ p.cash \in Int /\ p.fees \in Int /\ Held(p) \in Nat /\ p.pos[Symbol] = Held(p)
         /\ r.sym = Symbol /\ r.side \in {"buy", "sell"} /\ r.qty \in Nat \ {0} /\ r.price \in Int
         /\ r.qty * r.price \in Int
<1>1. /\ p.cash \in Int /\ p.fees \in Int /\ Held(p) \in Nat /\ p.pos[Symbol] = Held(p)
      /\ r.sym = Symbol /\ r.side \in {"buy", "sell"} /\ r.qty \in Nat \ {0} /\ r.price \in Int
  BY ReplayAssumption DEF Accounts, Asked, Held
<1>2. PICK q \in Nat \ {0}, x \in Int : q = r.qty /\ x = r.price
  BY <1>1
<1>3. q * x \in Int
  OBVIOUS
<1> QED
  BY <1>1, <1>2, <1>3

\* A reservation: a BUY that the cash covers, another, a SELL.
LEMMA ReservedType ==
  ASSUME NEW p \in Accounts, NEW r \in Requests
  PROVE  /\ Sim!ApplyOrder(p, r) \in Accounts
         /\ r.side = "buy" /\ r.qty * r.price <= p.cash =>
              /\ Sim!ApplyOrder(p, r).cash = p.cash - r.qty * r.price
              /\ Held(Sim!ApplyOrder(p, r)) = Held(p) + r.qty
         /\ r.side = "sell" /\ r.qty <= Held(p) =>
              /\ Sim!ApplyOrder(p, r).cash = p.cash + r.qty * r.price
              /\ Held(Sim!ApplyOrder(p, r)) = Held(p) - r.qty
<1>1. PICK q \in Nat \ {0}, x \in Nat \ {0}, v \in Nat, c \in Int, h \in Nat :
        q = r.qty /\ x = r.price /\ v = q * x /\ c = p.cash /\ h = Held(p) /\ v > 0
  <2>1. PICK q \in Nat \ {0}, x \in Nat \ {0}, c \in Int, h \in Nat : q = r.qty /\ x = r.price /\ c = p.cash /\ h = Held(p)
    BY AccountFields, ReplayAssumption DEF Requests
  <2>2. q * x \in Nat /\ q * x > 0
    OBVIOUS
  <2> QED
    BY <2>1, <2>2
<1>2. r.sym = Symbol /\ p.pos[Symbol] = h
  BY <1>1, AccountFields DEF Requests
<1>3. ASSUME r.side = "buy"
      PROVE  /\ Sim!ApplyOrder(p, r) \in Accounts
             /\ v <= c => Sim!ApplyOrder(p, r).cash = c - v /\ Held(Sim!ApplyOrder(p, r)) = h + q
  <2>1. PICK s \in Int : s = Sim!Least(v, c) /\ (v <= c => s = v)
    BY DEF Sim!Least
  <2>2. CASE s <= 0
    <3>1. Sim!ApplyOrder(p, r) = p
      BY <1>1, <1>3, <2>1, <2>2 DEF Sim!ApplyOrder, Sim!ReserveBuy, Sim!Notional
    <3> QED
      BY <1>1, <2>1, <2>2, <3>1
  <2>3. CASE s > 0
    <3>1. s \div x \in Nat
      BY <2>3
    <3>2. v \div x = q
      BY <1>1, DivideBack
    <3>3. PICK y \in Nat, d \in Int : y = h + s \div x /\ d = c - s
      BY <3>1
    <3>4. Sim!ApplyOrder(p, r) = Moved(p, d, y)
      BY <1>1, <1>2, <1>3, <2>1, <2>3, <3>3 DEF Sim!ApplyOrder, Sim!ReserveBuy, Sim!Notional, Moved
    <3>5. Moved(p, d, y) \in Accounts /\ Moved(p, d, y).cash = d /\ Held(Moved(p, d, y)) = y
      BY MovedType
    <3> QED
      BY <2>1, <3>2, <3>3, <3>4, <3>5
  <2> QED
    BY <2>2, <2>3
<1>4. ASSUME r.side = "sell"
      PROVE  /\ Sim!ApplyOrder(p, r) \in Accounts
             /\ q <= h => Sim!ApplyOrder(p, r).cash = c + v /\ Held(Sim!ApplyOrder(p, r)) = h - q
  <2>1. PICK s \in Nat : s = Sim!Least(q, h) /\ s <= h /\ (q <= h => s = q)
    BY DEF Sim!Least
  <2>2. PICK w \in Int : w = s * x
    OBVIOUS
  <2>3. PICK d \in Int, y \in Nat : d = c + w /\ y = h - s /\ y = Sim!Held(h - s)
    BY <2>1 DEF Sim!Held
  <2>4. Sim!ApplyOrder(p, r) = Moved(p, d, y)
    BY <1>1, <1>2, <1>4, <2>1, <2>2, <2>3 DEF Sim!ApplyOrder, Sim!ReserveSell, Sim!Notional, Moved
  <2>5. Moved(p, d, y) \in Accounts /\ Moved(p, d, y).cash = d /\ Held(Moved(p, d, y)) = y
    BY MovedType
  <2> QED
    BY <1>1, <2>1, <2>2, <2>3, <2>4, <2>5
<1>5. r.side \in {"buy", "sell"}
  BY DEF Requests, Asked
<1> QED
  BY <1>1, <1>3, <1>4, <1>5

\* Without a remainder a division is exact.
LEMMA NoRemainder ==
  ASSUME NEW x \in Nat, NEW g \in Nat \ {0}, x % g = 0
  PROVE  x = g * (x \div g)
  OBVIOUS

\* The price of a fill is positive, and its fee a whole one for each unit.
LEMMA FillPriceType ==
  ASSUME close \in Prices, NEW side \in {"buy", "sell"}, NEW q \in Nat
  PROVE  /\ Sim!FillPrice(side) \in Nat \ {0}
         /\ Sim!Fee(q, Sim!FillPrice(side)) = q * Unit(Sim!FillPrice(side))
<1>1. PICK x \in Nat \ {0}, k \in Nat \ {0}, g \in Nat \ {0}, s \in Nat :
        x = close /\ k = SlipScale /\ g = FeeScale /\ s = x \div k /\ k >= 20
  <2>1. PICK x \in Nat \ {0}, k \in Nat \ {0}, g \in Nat \ {0} : x = close /\ k = SlipScale /\ g = FeeScale /\ k >= 20
    BY ReplayAssumption
  <2>2. x \div k \in Nat
    OBVIOUS
  <2> QED
    BY <2>1, <2>2
<1>2. s < x
  <2>1. k * s <= x
    BY <1>1
  <2>2. PICK j \in Nat : k = 1 + j /\ j > 0
    <3>1. k - 1 \in Nat /\ k = 1 + (k - 1) /\ k - 1 > 0
      BY <1>1
    <3> QED
      BY <3>1
  <2>3. k * s = s + j * s /\ j * s \in Nat
    BY <2>2
  <2>4. s > 0 => j * s > 0
    BY <2>2
  <2> QED
    BY <2>1, <2>3, <2>4
<1>3. PICK a \in Nat, b \in Nat : x = a * g /\ s = b * g
  <2>1. x % g = 0 /\ s % g = 0
    BY <1>1, UnitAssumption
  <2>2. PICK a \in Nat, b \in Nat : a = x \div g /\ b = s \div g
    <3>1. x \div g \in Nat /\ s \div g \in Nat
      BY <1>1
    <3> QED
      BY <3>1
  <2>3. x = g * a /\ s = g * b
    BY <1>1, <2>1, <2>2, NoRemainder
  <2>4. g * a = a * g /\ g * b = b * g
    OBVIOUS
  <2> QED
    BY <2>3, <2>4
<1>4. PICK f \in Nat \ {0} : f = Sim!FillPrice(side)
  BY <1>1, <1>2 DEF Sim!FillPrice
<1>5. PICK u \in Nat : f = u * g
  <2>1. CASE side = "buy"
    <3>1. f = x + s
      BY <1>1, <1>4, <2>1 DEF Sim!FillPrice
    <3>2. PICK e \in Nat : e = a + b
      OBVIOUS
    <3>3. e * g = a * g + b * g
      BY <3>2
    <3>4. f = e * g
      BY <1>3, <3>1, <3>3
    <3> QED
      BY <3>4
  <2>2. CASE side = "sell"
    <3>1. f = x - s
      BY <1>1, <1>4, <2>2 DEF Sim!FillPrice
    <3>2. a - b \in Nat
      <4>1. CASE a < b
        <5>1. PICK e \in Nat : b = a + e
          <6>1. b - a \in Nat /\ b = a + (b - a)
            BY <4>1
          <6> QED
            BY <6>1
        <5>2. b * g = a * g + e * g /\ e * g \in Nat
          BY <5>1
        <5> QED
          BY <1>2, <1>3, <5>2
      <4>2. CASE ~(a < b)
        BY <4>2
      <4> QED
        BY <4>1, <4>2
    <3>3. PICK e \in Nat : e = a - b
      BY <3>2
    <3>4. e * g = a * g - b * g
      BY <3>3
    <3>5. f = e * g
      BY <1>3, <3>1, <3>4
    <3> QED
      BY <3>5
  <2> QED
    BY <2>1, <2>2
<1>6. Unit(f) = u
  BY <1>1, <1>5, DivideBack DEF Unit
<1>7. PICK z \in Nat : z = q * u /\ q * f = z * g
  BY <1>5
<1>8. (z * g) \div g = z
  BY DivideBack
<1> QED
  BY <1>1, <1>4, <1>6, <1>7, <1>8 DEF Sim!Fee

\* What a fill leaves of the position: the reservation is undone first.
LEMMA FilledType ==
  ASSUME close \in Prices, NEW p \in Accounts, NEW r \in Asked, NEW base \in Int
  PROVE  LET f    == Sim!FillPrice(r.side)
             fill == Sim!Filled(p, r, base)
         IN  /\ fill \in Accounts
             /\ r.side = "buy" /\ r.qty <= Held(p) =>
                  /\ fill.cash = p.cash + r.qty * base - r.qty * f - r.qty * Unit(f)
                  /\ Held(fill) = Held(p)
             /\ r.side = "sell" =>
                  /\ fill.cash = p.cash - r.qty * base + r.qty * f - r.qty * Unit(f)
                  /\ Held(fill) = Held(p)
<1>1. PICK q \in Nat \ {0}, c \in Int, h \in Nat, e \in Int :
        q = r.qty /\ c = p.cash /\ h = Held(p) /\ e = p.fees /\ p.pos[Symbol] = h
  BY AccountFields
<1>2. PICK f \in Nat \ {0}, u \in Nat : f = Sim!FillPrice(r.side) /\ u = Unit(f) /\ Sim!Fee(q, f) = q * u
  <2>1. r.side \in {"buy", "sell"}
    BY AccountFields
  <2> QED
    BY <1>1, <2>1, FillPriceType, UnitType
<1>3. PICK v \in Int, w \in Int, z \in Int : v = q * base /\ w = q * f /\ z = q * u
  OBVIOUS
<1>4. PICK a : /\ a = [r EXCEPT !.price = base]
               /\ a.sym = Symbol /\ a.side = r.side /\ a.qty = q /\ a.price = base
  <2>1. PICK a : a = [r EXCEPT !.price = base]
    OBVIOUS
  <2>2. a.sym = r.sym /\ a.side = r.side /\ a.qty = r.qty /\ a.price = base
    BY <2>1 DEF Asked
  <2>3. r.sym = Symbol
    BY AccountFields
  <2> QED
    BY <1>1, <2>1, <2>2, <2>3
<1>5. Sim!Filled(p, r, base) = Sim!ReconcileFill(p, a, q, f, z)
  BY <1>1, <1>2, <1>3, <1>4 DEF Sim!Filled
<1>6. ASSUME r.side = "buy"
      PROVE  /\ Sim!Filled(p, r, base) \in Accounts /\ Sim!Filled(p, r, base).cash = c + v - w - z
             /\ q <= h => Held(Sim!Filled(p, r, base)) = h
  <2>1. PICK y \in Nat, d \in Int, g \in Int :
          y = Sim!Held(h - q) + q /\ (q <= h => y = h) /\ d = c + v - w - z /\ g = e + z
    BY DEF Sim!Held
  <2>2. Sim!ReconcileFill(p, a, q, f, z) = Settled(p, d, y, g)
    BY <1>1, <1>3, <1>4, <1>6, <2>1 DEF Sim!ReconcileFill, Sim!ReconcileBuy, Sim!Notional, Settled
  <2>3. Settled(p, d, y, g) \in Accounts /\ Settled(p, d, y, g).cash = d /\ Held(Settled(p, d, y, g)) = y
    BY SettledType
  <2> QED
    BY <1>5, <2>1, <2>2, <2>3
<1>7. ASSUME r.side = "sell"
      PROVE  /\ Sim!Filled(p, r, base) \in Accounts /\ Sim!Filled(p, r, base).cash = c - v + w - z
             /\ Held(Sim!Filled(p, r, base)) = h
  <2>1. PICK d \in Int, g \in Int : d = c - v + w - z /\ g = e + z
    OBVIOUS
  <2>2. h + q - q = h /\ Sim!Held(h) = h /\ (IF h = 0 THEN 0 ELSE Sim!Held(h + q - q)) = h
    BY DEF Sim!Held
  <2>3. Sim!ReconcileFill(p, a, q, f, z) = Settled(p, d, h, g)
    BY <1>1, <1>3, <1>4, <1>7, <2>1, <2>2 DEF Sim!ReconcileFill, Sim!ReconcileSell, Sim!Notional, Settled
  <2>4. Settled(p, d, h, g) \in Accounts /\ Settled(p, d, h, g).cash = d /\ Held(Settled(p, d, h, g)) = h
    BY SettledType
  <2> QED
    BY <1>5, <2>1, <2>3, <2>4
<1>8. r.side \in {"buy", "sell"}
  BY AccountFields
<1> QED
  BY <1>1, <1>2, <1>3, <1>6, <1>7, <1>8

\* What is recorded of it.
LEMMA OrderRecordType ==
  ASSUME close \in Prices, NEW r \in Asked
  PROVE  /\ Sim!OrderRecord(r) \in FilledOrders
         /\ Sim!OrderRecord(r).side = r.side /\ Sim!OrderRecord(r).qty = r.qty
         /\ Sim!OrderRecord(r).price = Sim!FillPrice(r.side)
<1>1. PICK q \in Nat \ {0}, s \in {"buy", "sell"} : q = r.qty /\ s = r.side
  BY DEF Asked
<1>2. PICK f \in Nat \ {0}, u \in Nat : f = Sim!FillPrice(s) /\ u = Unit(f) /\ Sim!Fee(q, f) = q * u
  BY FillPriceType, UnitType
<1>3. PICK z \in Nat : z = q * u
  OBVIOUS
<1>4. Sim!OrderRecord(r) = [side |-> s, qty |-> q, price |-> f, fee |-> z]
  BY <1>1, <1>2, <1>3 DEF Sim!OrderRecord
<1> QED
  BY <1>1, <1>2, <1>3, <1>4 DEF FilledOrders

\* What execution passes from request to request.
Progress == [pf : Accounts, orders : Seq(FilledOrders), mark : Nat, stop : Int \cup {None}, plain : BOOLEAN]

\* One request: filled as it was asked, or no longer plain.
LEMMA ProcessedType ==
  ASSUME close \in Prices, NEW a \in Progress, NEW r \in Requests
  PROVE  /\ Sim!Processed(a, r) \in Progress
         /\ Sim!Processed(a, r).plain =>
              /\ a.plain
              /\ Sim!Processed(a, r).pf = Sim!Filled(a.pf, r, r.price)
              /\ Sim!Processed(a, r).orders = Append(a.orders, Sim!OrderRecord(r))
<1>1. PICK p \in Accounts, o \in Seq(FilledOrders), m \in Nat, s \in Int \cup {None}, b \in BOOLEAN :
        p = a.pf /\ o = a.orders /\ m = a.mark /\ s = a.stop /\ b = a.plain
  BY DEF Progress
<1>2. PICK fill \in Accounts : fill = Sim!Filled(p, r, r.price)
  <2>1. r \in Asked /\ r.price \in Int
    BY DEF Requests, Asked
  <2> QED
    BY <2>1, FilledType
<1>3. PICK o2 \in Seq(FilledOrders) : o2 = Append(o, Sim!OrderRecord(r))
  <2>1. Sim!OrderRecord(r) \in FilledOrders
    BY OrderRecordType DEF Requests
  <2>2. Append(o, Sim!OrderRecord(r)) \in Seq(FilledOrders)
    BY ONLY o \in Seq(FilledOrders), <2>1, AppendType
  <2> QED
    BY <2>2
<1>4. PICK m2 \in Nat, s2 \in Int \cup {None} :
        /\ m2 = IF r.side = "buy" THEN Sim!FillPrice("buy") ELSE m
        /\ s2 = IF r.side = "buy" THEN r.stop ELSE s
  <2>1. r.stop \in Int
    BY DEF Requests
  <2>2. Sim!FillPrice("buy") \in Nat
    <3>1. "buy" \in {"buy", "sell"} /\ 0 \in Nat
      OBVIOUS
    <3> QED
      BY <3>1, FillPriceType
  <2> QED
    BY <2>1, <2>2
<1>5. CASE Sim!Accepted(p, r)
  <2>1. Sim!Processed(a, r) = [pf |-> fill, orders |-> o2, mark |-> m2, stop |-> s2, plain |-> b]
    BY <1>1, <1>2, <1>3, <1>4, <1>5 DEF Sim!Processed
  <2> QED
    BY <1>1, <1>2, <1>3, <2>1 DEF Progress
<1>6. CASE ~Sim!Accepted(p, r)
  <2>1. Sim!Processed(a, r) = [a EXCEPT !.plain = FALSE]
    BY <1>1, <1>6 DEF Sim!Processed
  <2>2. [a EXCEPT !.plain = FALSE] \in Progress /\ ~[a EXCEPT !.plain = FALSE].plain
    BY DEF Progress
  <2> QED
    BY <2>1, <2>2
<1> QED
  BY <1>5, <1>6

\* h[i] is what execution has done after i requests of a list.
Executed(h, list, start) ==
  /\ h \in [0 .. Len(list) -> Progress] /\ h[0] = start
  /\ \A i \in 1 .. Len(list) : h[i] = Sim!Processed(h[i - 1], list[i])
  /\ Sim!FoldLeft(Sim!Processed, start, list) = h[Len(list)]

\* Execution goes from request to request.
LEMMA ExecutedInTurn ==
  ASSUME close \in Prices, NEW list \in Seq(Requests), NEW start \in Progress
  PROVE  \E h : Executed(h, list, start)
<1>1. PICK n \in Nat : n = Len(list) /\ DOMAIN list = 1 .. n /\ \A i \in 1 .. n : list[i] \in Requests
  OBVIOUS
<1> DEFINE D == 1 .. n
           V == Progress
           base == start
           g == [p \in D \X V |-> Sim!Processed(p[2], list[p[1]])]
           Q(t) == t = [s \in SUBSET D |->
                          IF s = {} THEN base ELSE Sim!Processed(t[s \ {Max(s)}], list[Max(s)])]
           c == CHOOSE t : Q(t)
<1>2. \A v \in V : \A i \in D : Sim!Processed(v, list[i]) \in V
  BY <1>1, ProcessedType
<1>3. base \in V
  OBVIOUS
<1> HIDE DEF V, base
<1>4. Turning(n, V, base, g)
  BY <1>2, <1>3 DEF Turning
<1>5. PICK t : ListFolds(t, n, V, base, g)
  <2> HIDE DEF g
  <2> QED
    BY <1>4, ListFoldExists DEF Turning
<1>6. Q(c)
  <2>1. ASSUME NEW s \in SUBSET D, s # {}
        PROVE  g[<<Max(s), t[s \ {Max(s)}]>>] = Sim!Processed(t[s \ {Max(s)}], list[Max(s)])
    <3>1. Max(s) \in D /\ t[s \ {Max(s)}] \in V
      BY <1>5, <2>1, MaxIsLargest DEF ListFolds
    <3> QED
      BY <3>1
  <2>2. \A s \in SUBSET D : t[s] = IF s = {} THEN base ELSE Sim!Processed(t[s \ {Max(s)}], list[Max(s)])
    <3> HIDE DEF g
    <3> QED
      BY <1>5, <2>1 DEF ListFolds
  <2>3. Q(t)
    BY <1>5, <2>2 DEF ListFolds
  <2> HIDE DEF Q
  <2> QED
    BY <2>3
<1>7. Sim!FoldLeft(Sim!Processed, start, list) = c[D]
  BY <1>1, SimMaxIsMax DEF Sim!FoldLeft, Sim!MapThenFoldSet, base
<1>8. FoldsBy(c, n, V, base, g)
  <2>1. c[{}] = base
    BY <1>6
  <2>2. ASSUME NEW s \in SUBSET D, s # {}, c[s \ {Max(s)}] \in V
        PROVE  c[s] = g[<<Max(s), c[s \ {Max(s)}]>>]
    <3>1. PICK m \in D, x \in V : m = Max(s) /\ x = c[s \ {Max(s)}]
      BY <2>2, MaxIsLargest
    <3>2. c[s] = Sim!Processed(x, list[m])
      BY <1>6, <2>2, <3>1
    <3>3. g[<<m, x>>] = Sim!Processed(x, list[m])
      OBVIOUS
    <3> QED
      BY <3>1, <3>2, <3>3
  <2> HIDE DEF c, g
  <2> QED
    BY <2>1, <2>2 DEF FoldsBy
<1>9. PICK h : h = FoldPrefixes(c, n) /\ InTurn(h, n, V, base, g)
  <2> HIDE DEF c, g
  <2> QED
    BY <1>4, <1>8, FoldInTurn
<1>10. h[n] = c[D]
  BY <1>9 DEF FoldPrefixes
<1> HIDE DEF c, Q
<1>11. ASSUME NEW i \in 1 .. n PROVE h[i] = Sim!Processed(h[i - 1], list[i])
  <2>1. PICK x \in V : x = h[i - 1]
    <3>1. i - 1 \in 0 .. n
      OBVIOUS
    <3> QED
      BY <1>9, <3>1 DEF InTurn
  <2>2. g[<<i, x>>] = Sim!Processed(x, list[i])
    OBVIOUS
  <2> HIDE DEF g
  <2> QED
    BY <1>9, <2>1, <2>2 DEF InTurn
<1> HIDE DEF g
<1> QED
  BY <1>1, <1>7, <1>9, <1>10, <1>11 DEF InTurn, Executed, V, base

\* h[i] is the account after i reservations of a list.
Reserved(h, list, start) ==
  /\ h \in [0 .. Len(list) -> Accounts] /\ h[0] = start
  /\ \A i \in 1 .. Len(list) : h[i] = Sim!ApplyOrder(h[i - 1], list[i])
  /\ Sim!FoldLeft(Sim!ApplyOrder, start, list) = h[Len(list)]

\* The reservation goes from request to request.
LEMMA ReservedInTurn ==
  ASSUME NEW list \in Seq(Requests), NEW start \in Accounts
  PROVE  \E h : Reserved(h, list, start)
<1>1. PICK n \in Nat : n = Len(list) /\ DOMAIN list = 1 .. n /\ \A i \in 1 .. n : list[i] \in Requests
  OBVIOUS
<1> DEFINE D == 1 .. n
           V == Accounts
           base == start
           g == [p \in D \X V |-> Sim!ApplyOrder(p[2], list[p[1]])]
           Q(t) == t = [s \in SUBSET D |->
                          IF s = {} THEN base ELSE Sim!ApplyOrder(t[s \ {Max(s)}], list[Max(s)])]
           c == CHOOSE t : Q(t)
<1>2. \A v \in V : \A i \in D : Sim!ApplyOrder(v, list[i]) \in V
  BY <1>1, ReservedType
<1>3. base \in V
  OBVIOUS
<1> HIDE DEF V, base
<1>4. Turning(n, V, base, g)
  BY <1>2, <1>3 DEF Turning
<1>5. PICK t : ListFolds(t, n, V, base, g)
  <2> HIDE DEF g
  <2> QED
    BY <1>4, ListFoldExists DEF Turning
<1>6. Q(c)
  <2>1. ASSUME NEW s \in SUBSET D, s # {}
        PROVE  g[<<Max(s), t[s \ {Max(s)}]>>] = Sim!ApplyOrder(t[s \ {Max(s)}], list[Max(s)])
    <3>1. Max(s) \in D /\ t[s \ {Max(s)}] \in V
      BY <1>5, <2>1, MaxIsLargest DEF ListFolds
    <3> QED
      BY <3>1
  <2>2. \A s \in SUBSET D : t[s] = IF s = {} THEN base ELSE Sim!ApplyOrder(t[s \ {Max(s)}], list[Max(s)])
    <3> HIDE DEF g
    <3> QED
      BY <1>5, <2>1 DEF ListFolds
  <2>3. Q(t)
    BY <1>5, <2>2 DEF ListFolds
  <2> HIDE DEF Q
  <2> QED
    BY <2>3
<1>7. Sim!FoldLeft(Sim!ApplyOrder, start, list) = c[D]
  BY <1>1, SimMaxIsMax DEF Sim!FoldLeft, Sim!MapThenFoldSet, base
<1>8. FoldsBy(c, n, V, base, g)
  <2>1. c[{}] = base
    BY <1>6
  <2>2. ASSUME NEW s \in SUBSET D, s # {}, c[s \ {Max(s)}] \in V
        PROVE  c[s] = g[<<Max(s), c[s \ {Max(s)}]>>]
    <3>1. PICK m \in D, x \in V : m = Max(s) /\ x = c[s \ {Max(s)}]
      BY <2>2, MaxIsLargest
    <3>2. c[s] = Sim!ApplyOrder(x, list[m])
      BY <1>6, <2>2, <3>1
    <3>3. g[<<m, x>>] = Sim!ApplyOrder(x, list[m])
      OBVIOUS
    <3> QED
      BY <3>1, <3>2, <3>3
  <2> HIDE DEF c, g
  <2> QED
    BY <2>1, <2>2 DEF FoldsBy
<1>9. PICK h : h = FoldPrefixes(c, n) /\ InTurn(h, n, V, base, g)
  <2> HIDE DEF c, g
  <2> QED
    BY <1>4, <1>8, FoldInTurn
<1>10. h[n] = c[D]
  BY <1>9 DEF FoldPrefixes
<1> HIDE DEF c, Q
<1>11. ASSUME NEW i \in 1 .. n PROVE h[i] = Sim!ApplyOrder(h[i - 1], list[i])
  <2>1. PICK x \in V : x = h[i - 1]
    <3>1. i - 1 \in 0 .. n
      OBVIOUS
    <3> QED
      BY <1>9, <3>1 DEF InTurn
  <2>2. g[<<i, x>>] = Sim!ApplyOrder(x, list[i])
    OBVIOUS
  <2> HIDE DEF g
  <2> QED
    BY <1>9, <2>1, <2>2 DEF InTurn
<1> HIDE DEF g
<1> QED
  BY <1>1, <1>7, <1>9, <1>10, <1>11 DEF InTurn, Reserved, V, base

-----------------------------------------------------------------------------
(* The requests of a bar. *)

\* The simulation sizes as the backtest does.
LEMMA SimSizeIsSize ==
  \A cash, price, level : Sim!RP!PositionSize(cash, price, level) = Fast!RP!PositionSize(cash, price, level)
  BY DEF Sim!RP!PositionSize, Sim!RP!RiskBasedSize, Sim!RP!StopDistance, Sim!RP!Magnitude, Sim!RP!Min,
         Fast!RP!PositionSize, Fast!RP!RiskBasedSize, Fast!RP!StopDistance, Fast!RP!Magnitude, Fast!RP!Min

\* The smallest, in the simulation's risk pipeline.
LEMMA SimRiskMinIsMin == \A s : Sim!RP!Min(s) = Min(s)
  BY DEF Sim!RP!Min, Min

\* And the part of a list.
LEMMA SimSublistIsSublist == \A list, at : Sim!Sublist(list, at) = Sublist(list, at)
  BY SimMaxIsMax DEF Sim!Sublist, Sim!MapThenFoldSet, Sublist, MapThenFoldSet

\* A signal becomes a request: a SELL of no more than is held.
LEMMA RequestType ==
  ASSUME pf \in Accounts, NEW side \in {"buy", "sell"}, NEW price \in Prices
  PROVE  LET r == Sim!RequestFor(side, price)
         IN  /\ r.side = side /\ r.qty \in Nat
             /\ r.qty > 0 => r \in Requests
             /\ side = "sell" => r.qty <= Held(pf)
<1>1. PICK c \in Int, h \in Nat : c = pf.cash /\ h = Held(pf) /\ h = pf.pos[Symbol] /\ Symbol \in Symbols
  BY ReplayAssumption DEF Accounts, Held
<1>2. PICK x \in Nat \ {0} : x = price
  BY ReplayAssumption
<1>3. PICK d \in 1 .. x : d = (price * Risk.stop_loss) \div 100
  BY <1>2, DistanceType
<1> DEFINE p == Sim!View(pf, price, stop)
           sig == [sym |-> Symbol, side |-> side, conf |-> 100, price |-> price, stop |-> None]
           r == Sim!RequestFor(side, price)
           level == IF side = "buy" THEN x - d ELSE x + d
           amount == IF 100 < Risk.min_confidence THEN 0
                     ELSE IF side = "sell" THEN Sim!RP!SellAmount(p, sig, None, None)
                     ELSE Sim!RP!BuyAmount(p, sig, None)
<1>4. Sim!RP!StopLoss(sig, None) = level /\ level \in Int
  <2>1. Sim!RP!StopLoss(sig, None) = Sim!RP!StopAt(sig, (price * Risk.stop_loss) \div 100)
    BY DEF Sim!RP!StopLoss, Sim!RP!FixedStop
  <2> QED
    BY <1>2, <1>3, <2>1 DEF Sim!RP!StopAt
<1>5. p.cash = c /\ p.pos[Symbol].qty = h
  BY <1>1 DEF Sim!View
<1> HIDE DEF p
<1>6. r = [sym |-> Symbol, side |-> side, price |-> price, stop |-> level, qty |-> amount]
  <2>1. r = Sim!RP!RequestOf(p, sig, None, None)
    BY DEF Sim!RequestFor, p
  <2> HIDE DEF level
  <2> QED
    BY <1>4, <2>1 DEF Sim!RP!RequestOf, Sim!RP!ApprovedAmount
<1>7. PICK value \in Nat : value = Sim!RP!PositionSize(c, price, level)
  <2> HIDE DEF level
  <2>1. Fast!RP!PositionSize(c, price, level) \in Nat
    BY <1>4, SizeType
  <2> QED
    BY <2>1, SimSizeIsSize
<1>8. PICK q \in Nat : q = value \div price
  <2>1. value \div price \in Nat
    BY <1>2
  <2> QED
    BY <2>1
<1>9. Sim!RP!BuyAmount(p, sig, None) \in Nat
  <2>1. Sim!RP!BuyAmount(p, sig, None) \in {0, value \div price}
    <3> HIDE DEF level
    <3> QED
      BY <1>4, <1>5, <1>7 DEF Sim!RP!BuyAmount
  <2> QED
    BY <1>8, <2>1
<1>10. Sim!RP!SellAmount(p, sig, None, None) \in Nat /\ Sim!RP!SellAmount(p, sig, None, None) <= h
  <2>1. Sim!RP!SellAmount(p, sig, None, None) =
          IF ~(h > 0) \/ ~Sim!RP!SellAllowed(sig, None) THEN 0
          ELSE IF value > 0 THEN Min({q, h}) ELSE h
    <3> HIDE DEF level
    <3> QED
      BY <1>4, <1>5, <1>7, <1>8, SimRiskMinIsMin DEF Sim!RP!SellAmount, Sim!RP!Holds
  <2>2. Min({q, h}) = IF q <= h THEN q ELSE h
    BY MinOfTwo
  <2> QED
    BY <2>1, <2>2
<1>11. amount \in Nat /\ (side = "sell" => amount <= h)
  <2> HIDE DEF sig
  <2> QED
    BY <1>9, <1>10
<1> HIDE DEF amount, level
<1>12. amount > 0 => r \in Requests
  <2> SUFFICES ASSUME amount > 0 PROVE r \in Requests
    OBVIOUS
  <2>1. amount \in Nat \ {0} /\ price \in Int
    BY <1>2, <1>11
  <2> HIDE DEF r
  <2> QED
    BY <1>4, <1>6, <2>1 DEF Requests, Asked
<1>13. r.side = side /\ r.qty = amount
  <2> HIDE DEF r
  <2> QED
    BY <1>6
<1> QED
  BY <1>1, <1>11, <1>12, <1>13 DEF r

\* Buys first, then at most one SELL of no more than is held.
Sequenced(list, held) ==
  \A i \in 1 .. Len(list) : list[i].side = "sell" => i = Len(list) /\ list[i].qty <= held

\* The BUYs of a list and its largest SELL are requests of it, the SELL last.
LEMMA BuysFirstType ==
  ASSUME NEW list \in Seq(Requests), NEW held \in Nat,
         \A i \in 1 .. Len(list) : list[i].side = "sell" => list[i].qty <= held
  PROVE  Sim!BuysFirst(list) \in Seq(Requests) /\ Sequenced(Sim!BuysFirst(list), held)
<1>1. PICK n \in Nat : /\ n = Len(list) /\ DOMAIN list = 1 .. n
                       /\ \A i \in 1 .. n : list[i] \in Requests /\ list[i].qty \in Int
  <2>1. \A r \in Requests : r.qty \in Int
    BY DEF Requests, Asked
  <2> QED
    BY <2>1
<1> DEFINE sells == {i \in DOMAIN list : list[i].side = "sell"}
           at == {i \in DOMAIN list : list[i].side = "buy"}
           E == {r \in Requests : r.side = "buy"}
<1>2. PICK buys \in Seq(E) : buys = Sublist(list, at)
  <2>1. at \in SUBSET (1 .. n) /\ \A i \in at : list[i] \in E
    BY <1>1
  <2> HIDE DEF at, E
  <2>2. Sublist(list, at) \in Ordered(list, at, E)
    BY <2>1, SublistIsOrdered
  <2> QED
    BY <2>2 DEF Ordered
<1>3. PICK m \in Nat : m = Len(buys) /\ \A i \in 1 .. m : buys[i] \in Requests /\ buys[i].side = "buy"
  OBVIOUS
<1>4. buys \in Seq(Requests)
  OBVIOUS
<1>5. Sim!BuysFirst(list) = IF sells = {} THEN buys
                            ELSE Append(buys, list[CHOOSE i \in sells : \A j \in sells : list[j].qty <= list[i].qty])
  BY <1>1, <1>2, SimSublistIsSublist DEF Sim!BuysFirst
<1>6. CASE sells = {}
  <2>1. Sim!BuysFirst(list) = buys
    BY <1>5, <1>6
  <2>2. "buy" # "sell"
    OBVIOUS
  <2>3. Sequenced(buys, held)
    BY <1>3, <2>2 DEF Sequenced
  <2> QED
    BY <1>4, <2>1, <2>3
<1>7. CASE sells # {}
  <2>1. \E i \in sells : \A j \in sells : list[j].qty <= list[i].qty
    <3> DEFINE f == [i \in sells |-> list[i].qty]
    <3>1. \A i \in sells : f[i] \in Int /\ f[i] = list[i].qty
      BY <1>1
    <3>2. sells \subseteq 1 .. n
      BY <1>1
    <3> HIDE DEF sells, f
    <3>3. PICK x \in sells : \A y \in sells : f[x] >= f[y]
      BY <1>7, <3>1, <3>2, LargestIn
    <3> QED
      BY <3>1, <3>3
  <2>2. PICK x \in sells : x = CHOOSE i \in sells : \A j \in sells : list[j].qty <= list[i].qty
    BY <2>1
  <2>3. PICK s \in Requests : s = list[x] /\ s.qty <= held
    BY <1>1, <2>2
  <2>4. PICK all : all = Append(buys, s)
    OBVIOUS
  <2>5. all \in Seq(Requests) /\ Len(all) = m + 1 /\ all[m + 1] = s /\ \A i \in 1 .. m : all[i] = buys[i]
    BY <1>3, <1>4, <2>4
  <2>6. Sim!BuysFirst(list) = all
    BY <1>5, <1>7, <2>2, <2>3, <2>4
  <2>7. Sequenced(all, held)
    <3>1. \A i \in 1 .. m + 1 : i \in 1 .. m \/ i = m + 1
      OBVIOUS
    <3>2. \A i \in 1 .. m : all[i].side = "buy"
      BY <1>3, <2>5
    <3> QED
      BY <2>3, <2>5, <3>1, <3>2 DEF Sequenced
  <2> QED
    BY <2>5, <2>6, <2>7
<1> QED
  BY <1>6, <1>7

\* What the strategies say of a bar becomes a list of requests.
LEMMA DecidedType ==
  ASSUME pf \in Accounts, NEW sides \in SignalLists, NEW price \in Prices
  PROVE  LET all  == [i \in DOMAIN sides |-> Sim!RequestFor(sides[i], price)]
             list == Sim!BuysFirst(Sim!Sublist(all, {i \in DOMAIN all : all[i].qty > 0}))
         IN  list \in Seq(Requests) /\ Sequenced(list, Held(pf))
<1>1. PICK n \in Nat : n = Len(sides) /\ DOMAIN sides = 1 .. n /\ \A i \in 1 .. n : sides[i] \in {"buy", "sell"}
  BY RiskLimitsAssumption
<1>2. PICK h \in Nat : h = Held(pf)
  BY ReplayAssumption DEF Accounts, Held
<1>3. PICK all : all = [i \in DOMAIN sides |-> Sim!RequestFor(sides[i], price)]
  OBVIOUS
<1> DEFINE at == {i \in DOMAIN all : all[i].qty > 0}
           E == {r \in Requests : r.side = "sell" => r.qty <= h}
<1>4. DOMAIN all = 1 .. n /\ at \in SUBSET (1 .. n)
  BY <1>1, <1>3
<1>5. \A i \in at : all[i] \in E
  <2> SUFFICES ASSUME NEW i \in at PROVE all[i] \in E
    OBVIOUS
  <2>1. i \in 1 .. n /\ all[i] = Sim!RequestFor(sides[i], price) /\ all[i].qty > 0
    BY <1>1, <1>3, <1>4
  <2>2. sides[i] \in {"buy", "sell"}
    BY <1>1, <2>1
  <2>3. /\ all[i].side = sides[i] /\ (all[i].qty > 0 => all[i] \in Requests)
        /\ (sides[i] = "sell" => all[i].qty <= Held(pf))
    BY <2>1, <2>2, RequestType
  <2> QED
    BY <1>2, <2>1, <2>3
<1> HIDE DEF at, E
<1>6. PICK asked : asked = Sim!Sublist(all, at) /\ asked \in Ordered(all, at, E)
  BY <1>4, <1>5, SimSublistIsSublist, SublistIsOrdered
<1>7. asked \in Seq(E)
  BY <1>6 DEF Ordered
<1>8. asked \in Seq(Requests) /\ \A i \in 1 .. Len(asked) : asked[i].side = "sell" => asked[i].qty <= h
  BY <1>7 DEF E
<1>9. Sim!BuysFirst(asked) \in Seq(Requests) /\ Sequenced(Sim!BuysFirst(asked), h)
  BY <1>8, BuysFirstType
<1> QED
  BY <1>2, <1>3, <1>6, <1>9 DEF at

-----------------------------------------------------------------------------
(* The types of the simulation. *)

SimFields == /\ pf \in Accounts /\ mark \in Nat /\ stop \in Int \cup {None} /\ plain \in BOOLEAN
             /\ orders \in Seq(FilledOrders) /\ reqs \in Seq(Requests)
SimType == SimFields /\ (engine = "simulation" /\ (curve # <<>> \/ pc # "market") => close \in Prices)

\* A bar starts with requests, and what they reserve.
LEMMA DecideType ==
  ASSUME SimType, Sim!Decide
  PROVE  SimType'
<1>1. PICK price \in Prices, sides \in SignalLists :
       LET all   == [i \in DOMAIN sides |-> Sim!RequestFor(sides[i], price)]
           asked == Sim!Sublist(all, {i \in DOMAIN all : all[i].qty > 0})
           trips == sides # <<>> /\ Sim!RP!Breaches(Sim!View(pf, price, stop))
           list  == IF trips THEN <<>> ELSE Sim!BuysFirst(asked)
           after == Sim!FoldLeft(Sim!ApplyOrder, pf, list)
       IN  /\ close' = price /\ mark' = price
           /\ reqs' = list /\ pf' = after
           /\ stop' = IF pf.pos[Symbol] = 0 /\ list # <<>> THEN list[1].stop ELSE stop
           /\ plain' = (plain /\ ~Sim!Scaled(pf, list))
  BY ZenonT(30) DEF Sim!Decide
<1>2. PICK list \in Seq(Requests) :
       /\ close' = price /\ mark' = price
       /\ reqs' = list /\ pf' = Sim!FoldLeft(Sim!ApplyOrder, pf, list)
       /\ stop' = IF pf.pos[Symbol] = 0 /\ list # <<>> THEN list[1].stop ELSE stop
       /\ plain' = (plain /\ ~Sim!Scaled(pf, list))
  <2>1. PICK l : l = Sim!BuysFirst(Sim!Sublist([i \in DOMAIN sides |-> Sim!RequestFor(sides[i], price)],
                       {i \in DOMAIN [j \in DOMAIN sides |-> Sim!RequestFor(sides[j], price)] :
                         [j \in DOMAIN sides |-> Sim!RequestFor(sides[j], price)][i].qty > 0}))
    OBVIOUS
  <2>2. l \in Seq(Requests)
    BY <2>1, DecidedType DEF SimType, SimFields
  <2>3. <<>> \in Seq(Requests)
    OBVIOUS
  <2> QED
    BY <1>1, <2>1, <2>2, <2>3
<1>3. pf' \in Accounts
  <2>1. PICK h : Reserved(h, list, pf)
    BY ReservedInTurn DEF SimType, SimFields
  <2>2. Len(list) \in 0 .. Len(list)
    OBVIOUS
  <2> QED
    BY <1>2, <2>1, <2>2 DEF Reserved
<1>4. stop' \in Int \cup {None}
  <2>1. list # <<>> => list[1] \in Requests
    OBVIOUS
  <2>2. \A r \in Requests : r.stop \in Int
    BY DEF Requests
  <2> QED
    BY <1>2, <2>1, <2>2 DEF SimType, SimFields
<1>5. plain' \in BOOLEAN
  BY <1>2
<1>6. mark' \in Nat /\ close' \in Prices
  BY <1>2, ReplayAssumption
<1>7. orders' = orders
  BY DEF Sim!Decide
<1> QED
  BY <1>2, <1>3, <1>4, <1>5, <1>6, <1>7 DEF SimType, SimFields

\* The start of execution.
Before == [pf |-> pf, orders |-> orders, mark |-> mark, stop |-> stop, plain |-> plain]

\* Execution ends where its walk along the requests does.
LEMMA ExecuteWalks ==
  ASSUME SimType, Sim!Execute, engine = "simulation"
  PROVE  \E h : /\ Executed(h, reqs, Before) /\ close \in Prices
                /\ h[Len(reqs)] \in Progress
                /\ pf' = h[Len(reqs)].pf /\ orders' = h[Len(reqs)].orders /\ mark' = h[Len(reqs)].mark
                /\ stop' = h[Len(reqs)].stop /\ plain' = h[Len(reqs)].plain
<1>1. close \in Prices
  BY DEF SimType, Sim!Execute
<1>2. reqs \in Seq(Requests) /\ Before \in Progress
  BY DEF SimType, SimFields, Before, Progress
<1>3. PICK h : Executed(h, reqs, Before)
  BY <1>1, <1>2, ExecutedInTurn
<1>4. PICK done : done = Sim!FoldLeft(Sim!Processed, Before, reqs)
  OBVIOUS
<1>5. pf' = done.pf /\ orders' = done.orders /\ mark' = done.mark /\ stop' = done.stop /\ plain' = done.plain
  BY <1>4 DEF Sim!Execute, Before
<1>6. done = h[Len(reqs)]
  BY <1>3, <1>4 DEF Executed
<1>7. h[Len(reqs)] \in Progress
  <2>1. Len(reqs) \in 0 .. Len(reqs)
    BY <1>2
  <2> QED
    BY <1>3, <2>1 DEF Executed
<1> QED
  BY <1>1, <1>3, <1>5, <1>6, <1>7

\* Execution keeps the types.
LEMMA ExecuteType ==
  ASSUME SimType, Sim!Execute, engine = "simulation"
  PROVE  SimType'
<1>1. PICK d \in Progress : pf' = d.pf /\ orders' = d.orders /\ mark' = d.mark /\ stop' = d.stop /\ plain' = d.plain
  BY ExecuteWalks
<1>2. /\ d.pf \in Accounts /\ d.orders \in Seq(FilledOrders) /\ d.mark \in Nat
      /\ d.stop \in Int \cup {None} /\ d.plain \in BOOLEAN
  BY DEF Progress
<1>3. close' = close /\ close \in Prices /\ reqs' = reqs
  BY DEF SimType, Sim!Execute
<1> QED
  BY <1>1, <1>2, <1>3 DEF SimType, SimFields

\* What is sold without a request is an order like the others.
LEMMA SellAllType ==
  ASSUME SimType, close \in Prices, pf.pos[Symbol] > 0, NEW base \in Int
  PROVE  /\ Sim!Filled(pf, Sim!SellAll, base) \in Accounts
         /\ Append(orders, Sim!OrderRecord(Sim!SellAll)) \in Seq(FilledOrders)
<1>1. pf.pos[Symbol] \in Nat \ {0} /\ close \in Int
  <2>1. pf.pos[Symbol] \in Nat
    BY ReplayAssumption DEF SimType, SimFields, Accounts
  <2> QED
    BY <2>1, ReplayAssumption
<1>2. Sim!SellAll \in Asked
  BY <1>1 DEF Sim!SellAll, Asked
<1>3. Sim!OrderRecord(Sim!SellAll) \in FilledOrders
  BY <1>2, OrderRecordType
<1>4. pf \in Accounts /\ orders \in Seq(FilledOrders)
  BY DEF SimType, SimFields
<1> QED
  BY <1>2, <1>3, <1>4, FilledType, AppendType

\* So do the hooks of a bar.
LEMMA HooksType ==
  ASSUME SimType, Sim!Hooks, engine = "simulation"
  PROVE  SimType'
<1>1. close \in Prices /\ close \in Nat
  BY ReplayAssumption DEF SimType, Sim!Hooks
<1>2. /\ pf' = (IF Sim!StopHit THEN Sim!Filled(pf, Sim!SellAll, close) ELSE pf)
      /\ orders' = (IF Sim!StopHit THEN Append(orders, Sim!OrderRecord(Sim!SellAll)) ELSE orders)
      /\ plain' = (plain /\ ~Sim!StopHit) /\ mark' = close
      /\ close' = close /\ stop' = stop /\ reqs' = reqs
  BY DEF Sim!Hooks
<1>3. pf' \in Accounts /\ orders' \in Seq(FilledOrders)
  <2>1. CASE Sim!StopHit
    BY <1>1, <1>2, <2>1, SellAllType DEF Sim!StopHit
  <2>2. CASE ~Sim!StopHit
    BY <1>2, <2>2 DEF SimType, SimFields
  <2> QED
    BY <2>1, <2>2
<1>4. plain' \in BOOLEAN
  BY <1>2
<1> QED
  BY <1>1, <1>2, <1>3, <1>4 DEF SimType, SimFields

\* And the sale at the end.
LEMMA FinishType ==
  ASSUME SimType, Sim!Finish, engine = "simulation"
  PROVE  SimType'
<1>1. close \in Prices
  BY DEF SimType, Sim!Finish
<1>2. /\ pf' = (IF pf.pos[Symbol] > 0 THEN Sim!Filled(pf, Sim!SellAll, Sim!FillPrice("sell")) ELSE pf)
      /\ orders' = (IF pf.pos[Symbol] > 0 THEN Append(orders, Sim!OrderRecord(Sim!SellAll)) ELSE orders)
      /\ plain' = plain /\ mark' = mark /\ close' = close /\ stop' = stop /\ reqs' = reqs
  BY DEF Sim!Finish
<1>3. Sim!FillPrice("sell") \in Int
  <2>1. "sell" \in {"buy", "sell"} /\ 0 \in Nat
    OBVIOUS
  <2> QED
    BY <1>1, <2>1, FillPriceType
<1>4. pf' \in Accounts /\ orders' \in Seq(FilledOrders)
  <2>1. CASE pf.pos[Symbol] > 0
    BY <1>1, <1>2, <1>3, <2>1, SellAllType
  <2>2. CASE ~(pf.pos[Symbol] > 0)
    BY <1>2, <2>2 DEF SimType, SimFields
  <2> QED
    BY <2>1, <2>2
<1> QED
  BY <1>1, <1>2, <1>4 DEF SimType, SimFields

\* Every step keeps the types.
LEMMA SimTypeKept ==
  ASSUME SimType, [Next]_vars
  PROVE  SimType'
<1>1. ASSUME engine = "simulation", Sim!Next, engine' = engine PROVE SimType'
  BY <1>1, DecideType, ExecuteType, HooksType, FinishType DEF Sim!Next
<1>2. ASSUME UNCHANGED simVars, engine' = engine, engine # "simulation" \/ curve' = curve PROVE SimType'
  BY <1>2 DEF SimType, SimFields, simVars
<1>3. CASE Refuse
  BY <1>2, <1>3 DEF Refuse
<1>4. CASE Replayed
  BY <1>1, <1>2, <1>4 DEF Replayed
<1>5. CASE UNCHANGED vars
  BY <1>2, <1>5 DEF vars
<1> QED
  BY <1>3, <1>4, <1>5 DEF Next

\* A simulation starts with its initial balance and nothing else.
LEMMA SimTypeStarts == Init => SimType
<1> SUFFICES ASSUME Init PROVE SimType
  OBVIOUS
<1>1. /\ pf = [cash |-> InitBalance, pos |-> [s \in Symbols |-> 0], fees |-> 0]
      /\ mark = 0 /\ stop = None /\ pc = "market" /\ reqs = <<>> /\ orders = <<>> /\ plain = TRUE
      /\ curve = <<>>
  BY DEF Init, Sim!InitFlow
<1>2. pf \in Accounts
  BY <1>1, ReplayAssumption DEF Accounts
<1> QED
  BY <1>1, <1>2 DEF SimType, SimFields

\* Whatever the bars, the signals and the risk limits, the trades of the
\* simulation's result are those the dashboard shows for the same orders.
THEOREM MatchingsAgree == Spec => []TradesAgree
<1>1. SimType => TradesAgree
  BY TradesOfOrdersAgree DEF SimType, SimFields, TradesAgree, Sim!TradesAgree
<1> QED
  BY <1>1, SimTypeStarts, SimTypeKept, PTL DEF Spec

-----------------------------------------------------------------------------
(* What orders do to the closed trades and the open lots. *)

\* The simulation's instance adds alike.
LEMMA SimSumIsSum == \A f : Sim!SumFunction(f) = SumFunction(f)
  BY DEF Sim!SumFunction, Sim!FoldFunction, Sim!SumFunctionOnSet, Sim!FoldFunctionOnSet, Sim!MapThenFoldSet,
         SumFunction, FoldFunction, SumFunctionOnSet, FoldFunctionOnSet, MapThenFoldSet

\* The values f gives the elements of a list.
Valued(f, list) == [i \in DOMAIN list |-> f[list[i]]]

\* Their sum, and that of one more.
LEMMA ValuesAdd ==
  ASSUME NEW E, NEW f \in [E -> Int], NEW list \in Seq(E)
  PROVE  /\ SumFunction(Valued(f, list)) \in Int
         /\ \A x \in E : SumFunction(Valued(f, Append(list, x))) = SumFunction(Valued(f, list)) + f[x]
<1>1. PICK n \in Nat : n = Len(list) /\ DOMAIN list = 1 .. n /\ \A i \in 1 .. n : list[i] \in E
  OBVIOUS
<1>2. PICK g : g = Valued(f, list) /\ g \in [1 .. n -> Int]
  <2>1. Valued(f, list) = [i \in 1 .. n |-> f[list[i]]]
    BY <1>1 DEF Valued
  <2> QED
    BY <1>1, <2>1
<1>3. ASSUME NEW x \in E
      PROVE  SumFunction(g) \in Int /\ SumFunction(Valued(f, Append(list, x))) = SumFunction(g) + f[x]
  <2>1. PICK more : /\ more = Append(list, x) /\ DOMAIN more = 1 .. n + 1 /\ more[n + 1] = x
                    /\ \A i \in 1 .. n : more[i] = list[i]
    <3>1. PICK more : more = Append(list, x)
      OBVIOUS
    <3>2. list \in Seq(E) /\ x \in E
      BY <1>3
    <3>3. DOMAIN more = 1 .. n + 1 /\ more[n + 1] = x
      BY <1>1, <3>1, <3>2
    <3>4. \A i \in 1 .. n : more[i] = list[i]
      BY <1>1, <3>1, <3>2
    <3> QED
      BY <3>1, <3>3, <3>4
  <2>2. PICK k : k = [i \in 1 .. n + 1 |-> f[more[i]]]
    OBVIOUS
  <2>3. \A i \in 1 .. n + 1 : more[i] \in E
    BY <1>1, <2>1
  <2>4. k \in [1 .. n + 1 -> Int] /\ k[n + 1] = f[x]
    BY <2>1, <2>2, <2>3
  <2>5. \A i \in 1 .. n : k[i] = g[i]
    BY <1>1, <1>2, <2>1, <2>2 DEF Valued
  <2>6. SumFunction(g) \in Int /\ SumFunction(k) = SumFunction(g) + k[n + 1]
    BY ONLY n \in Nat, <1>2, <2>4, <2>5, SumAppends
  <2>7. k = Valued(f, Append(list, x))
    BY <2>1, <2>2 DEF Valued
  <2> QED
    BY <2>4, <2>6, <2>7
<1>4. SumFunction(g) \in Int
  <2>1. SumFunctionOnSet(g, 1 .. n) \in Int
    <3>1. IsFiniteSet(1 .. n) /\ \A y \in 1 .. n : g[y] \in Int
      BY <1>2, IndicesFinite
    <3> QED
      BY <3>1, SumType
  <2> QED
    BY <1>2, <2>1, SumOfFunction
<1> QED
  BY <1>2, <1>3, <1>4

\* The sum of a list is reached element by element.
LEMMA ValuesInTurn ==
  ASSUME NEW n \in Nat, NEW f \in [1 .. n -> Int]
  PROVE  \E s : /\ s \in [0 .. n -> Int] /\ s[0] = 0 /\ s[n] = SumFunction(f)
                /\ \A i \in 1 .. n : s[i] = s[i - 1] + f[i]
<1> DEFINE p == [i \in 0 .. n |-> [j \in 1 .. i |-> f[j]]]
           s == [i \in 0 .. n |-> SumFunction(p[i])]
<1>1. \A i \in 0 .. n : p[i] \in [1 .. i -> Int] /\ \A j \in 1 .. i : p[i][j] = f[j]
  OBVIOUS
<1>2. p[n] = f
  OBVIOUS
<1>3. p[0] \in [{} -> Int]
  <2>1. 1 .. 0 = {}
    OBVIOUS
  <2> QED
    BY <1>1, <2>1
<1> HIDE DEF p
<1>4. ASSUME NEW i \in 1 .. n
      PROVE  SumFunction(p[i - 1]) \in Int /\ SumFunction(p[i]) \in Int
             /\ SumFunction(p[i]) = SumFunction(p[i - 1]) + f[i]
  <2>1. PICK m \in Nat : m = i - 1 /\ m + 1 = i /\ m \in 0 .. n /\ i \in 0 .. n
    OBVIOUS
  <2>2. p[m] \in [1 .. m -> Int] /\ p[m + 1] \in [1 .. m + 1 -> Int] /\ p[m + 1][m + 1] = f[i]
        /\ \A j \in 1 .. m : p[m + 1][j] = p[m][j]
    <3>1. p[m] \in [1 .. m -> Int] /\ \A j \in 1 .. m : p[m][j] = f[j]
      BY <1>1, <2>1
    <3>2. p[m + 1] \in [1 .. m + 1 -> Int] /\ \A j \in 1 .. m + 1 : p[m + 1][j] = f[j]
      BY <1>1, <2>1
    <3>3. m + 1 \in 1 .. m + 1 /\ \A j \in 1 .. m : j \in 1 .. m + 1
      BY ONLY m \in Nat
    <3> QED
      BY <2>1, <3>1, <3>2, <3>3
  <2>3. SumFunction(p[m]) \in Int /\ SumFunction(p[m + 1]) = SumFunction(p[m]) + p[m + 1][m + 1]
    BY ONLY m \in Nat, <2>2, SumAppends
  <2>4. f[i] \in Int
    OBVIOUS
  <2> QED
    BY <2>1, <2>2, <2>3, <2>4
<1>5. SumFunction(p[0]) = 0
  BY <1>3, SumOfNone
<1>6. \A i \in 0 .. n : s[i] \in Int /\ s[i] = SumFunction(p[i])
  <2> SUFFICES ASSUME NEW i \in 0 .. n PROVE SumFunction(p[i]) \in Int
    OBVIOUS
  <2>1. i = 0 \/ i \in 1 .. n
    OBVIOUS
  <2> QED
    BY <1>4, <1>5, <2>1
<1> HIDE DEF s
<1>7. s \in [0 .. n -> Int]
  BY <1>6 DEF s
<1>8. \A i \in 1 .. n : i \in 0 .. n /\ i - 1 \in 0 .. n
  OBVIOUS
<1>9. 0 \in 0 .. n /\ n \in 0 .. n
  OBVIOUS
<1> QED
  BY <1>2, <1>4, <1>5, <1>6, <1>7, <1>8, <1>9

\* What a lot cost.
CostOf(l) == l.qty * l.price + l.fee

\* What a lot costs is its notional and the fee of its amount.
LEMMA LotType ==
  ASSUME NEW l \in RunnerLots
  PROVE  /\ l.qty \in Nat \ {0} /\ l.price \in Nat \ {0} /\ Unit(l.price) \in Nat
         /\ CostOf(l) = l.qty * l.price + l.qty * Unit(l.price) /\ CostOf(l) \in Int
<1>1. PICK q \in Nat \ {0}, p \in Nat \ {0}, u \in Nat : q = l.qty /\ p = l.price /\ u = Unit(p) /\ l.fee = q * u
  BY UnitType DEF RunnerLots
<1>2. q * p \in Nat /\ q * u \in Nat
  OBVIOUS
<1> QED
  BY <1>1, <1>2 DEF CostOf

\* One more lot, one more trade, and nothing.
LEMMA LotsAdd ==
  ASSUME NEW lots \in Seq(RunnerLots)
  PROVE  /\ Sim!OpenQty(lots) \in Int /\ Sim!OpenCost(lots) \in Int
         /\ \A l \in RunnerLots : /\ Sim!OpenQty(Append(lots, l)) = Sim!OpenQty(lots) + l.qty
                                  /\ Sim!OpenCost(Append(lots, l)) = Sim!OpenCost(lots) + CostOf(l)
<1> DEFINE f == [l \in RunnerLots |-> l.qty]
           g == [l \in RunnerLots |-> CostOf(l)]
<1>1. f \in [RunnerLots -> Int] /\ g \in [RunnerLots -> Int]
  BY LotType
<1>2. \A l \in RunnerLots : f[l] = l.qty /\ g[l] = CostOf(l)
  OBVIOUS
<1> HIDE DEF f, g
<1>3. ASSUME NEW list \in Seq(RunnerLots)
      PROVE  /\ Sim!OpenQty(list) = SumFunction(Valued(f, list))
             /\ Sim!OpenCost(list) = SumFunction(Valued(g, list))
  <2>1. \A i \in DOMAIN list : list[i] \in RunnerLots
    OBVIOUS
  <2>2. Valued(f, list) = [i \in DOMAIN list |-> list[i].qty]
    BY <1>2, <2>1 DEF Valued
  <2>3. Valued(g, list) = [i \in DOMAIN list |-> list[i].qty * list[i].price + list[i].fee]
    BY <1>2, <2>1 DEF Valued, CostOf
  <2> QED
    BY <2>2, <2>3, SimSumIsSum DEF Sim!OpenQty, Sim!OpenCost
<1>4. SumFunction(Valued(f, lots)) \in Int /\ SumFunction(Valued(g, lots)) \in Int
  BY <1>1, ValuesAdd
<1>5. ASSUME NEW l \in RunnerLots
      PROVE  /\ Sim!OpenQty(Append(lots, l)) = Sim!OpenQty(lots) + l.qty
             /\ Sim!OpenCost(Append(lots, l)) = Sim!OpenCost(lots) + CostOf(l)
  <2>1. PICK more \in Seq(RunnerLots) : more = Append(lots, l)
    BY <1>5, AppendType
  <2>2. SumFunction(Valued(f, more)) = SumFunction(Valued(f, lots)) + f[l]
    BY <1>1, <2>1, ValuesAdd
  <2>3. SumFunction(Valued(g, more)) = SumFunction(Valued(g, lots)) + g[l]
    BY <1>1, <2>1, ValuesAdd
  <2> QED
    BY <1>2, <1>3, <2>1, <2>2, <2>3
<1> QED
  BY <1>3, <1>4, <1>5

\* The profit of one more trade is its profit more.
LEMMA ProfitAdds ==
  ASSUME NEW trades \in Seq(ClosedTrades)
  PROVE  /\ Sim!Profit(trades) \in Int
         /\ \A t \in ClosedTrades : Sim!Profit(Append(trades, t)) = Sim!Profit(trades) + t.pnl
<1> DEFINE f == [t \in ClosedTrades |-> t.pnl]
<1>1. f \in [ClosedTrades -> Int]
  BY DEF ClosedTrades
<1>2. \A t \in ClosedTrades : f[t] = t.pnl
  OBVIOUS
<1> HIDE DEF f
<1>3. ASSUME NEW list \in Seq(ClosedTrades) PROVE Sim!Profit(list) = SumFunction(Valued(f, list))
  <2>1. \A i \in DOMAIN list : list[i] \in ClosedTrades
    OBVIOUS
  <2>2. Valued(f, list) = [i \in DOMAIN list |-> list[i].pnl]
    BY <1>2, <2>1 DEF Valued
  <2> QED
    BY <2>2, SimSumIsSum DEF Sim!Profit, Sim!Profits
<1>4. SumFunction(Valued(f, trades)) \in Int
  BY <1>1, ValuesAdd
<1>5. ASSUME NEW t \in ClosedTrades PROVE Sim!Profit(Append(trades, t)) = Sim!Profit(trades) + t.pnl
  <2>1. PICK more \in Seq(ClosedTrades) : more = Append(trades, t)
    BY <1>5, AppendType
  <2>2. SumFunction(Valued(f, more)) = SumFunction(Valued(f, trades)) + f[t]
    BY <1>1, <2>1, ValuesAdd
  <2> QED
    BY <1>2, <1>3, <2>1, <2>2
<1> QED
  BY <1>3, <1>4, <1>5

\* No lots cost nothing, and no trades earn nothing.
LEMMA NothingOpen ==
  /\ Sim!OpenQty(<<>>) = 0 /\ Sim!OpenCost(<<>>) = 0 /\ Sim!Profit(<<>>) = 0
<1> DEFINE e == <<>>
<1>1. DOMAIN e = {}
  OBVIOUS
<1>2. /\ [i \in DOMAIN e |-> e[i].qty] \in [{} -> Int]
      /\ [i \in DOMAIN e |-> e[i].qty * e[i].price + e[i].fee] \in [{} -> Int]
      /\ [i \in DOMAIN e |-> e[i].pnl] \in [{} -> Int]
  BY <1>1
<1> HIDE DEF e
<1>3. Sim!OpenQty(e) = 0 /\ Sim!OpenCost(e) = 0 /\ Sim!Profit(e) = 0
  BY <1>2, SumOfNone, SimSumIsSum DEF Sim!OpenQty, Sim!OpenCost, Sim!Profit, Sim!Profits
<1> QED
  BY <1>3 DEF e

\* What closed trades have earned less what open lots cost.
Earned(a) == Sim!Profit(a.trades) - Sim!OpenCost(a.lots)

\* What of a sale has been matched, after it met a lot, is what the lot lost.
LEMMA MeetingEffect ==
  ASSUME NEW o \in FilledOrders, NEW a \in Meeting(RunnerLots), NEW lot \in RunnerLots, a.left > 0 => a.lots = <<>>
  PROVE  LET r == Sim!RunnerMatch(o, a, lot)
             m == a.left - r.left
         IN  /\ r \in Meeting(RunnerLots) /\ r.left <= a.left /\ (r.left > 0 => r.lots = <<>>)
             /\ Sim!OpenQty(r.lots) = Sim!OpenQty(a.lots) + lot.qty - m
             /\ Earned(r) = Earned(a) - CostOf(lot) + m * (o.price - Unit(o.price))
<1>1. PICK q \in Nat \ {0}, p \in Nat \ {0}, u \in Nat :
        /\ q = lot.qty /\ p = lot.price /\ u = Unit(p) /\ CostOf(lot) = q * p + q * u
        /\ Sim!OpenQty(a.lots) \in Int /\ Sim!OpenCost(a.lots) \in Int
  <2>1. a.lots \in Seq(RunnerLots)
    BY DEF Meeting
  <2> QED
    BY <2>1, LotType, LotsAdd
<1>2. PICK f \in Nat \ {0}, w \in Nat : f = o.price /\ w = Unit(f)
  BY UnitType DEF FilledOrders
<1>3. PICK left \in Nat, lots \in Seq(RunnerLots), trades \in Seq(ClosedTrades) :
        left = a.left /\ lots = a.lots /\ trades = a.trades
  BY DEF Meeting
<1>4. PICK m \in Nat : m = Meets(q, left) /\ m <= q /\ m <= left /\ (m = q \/ m = left)
  BY DEF Meets
<1>5. PICK r : r = Sim!RunnerMatch(o, a, lot) /\ r \in Meeting(RunnerLots)
               /\ r = MetBy(o, a, lot, q, RunnerRest(lot, m))
  BY <1>1, <1>3, <1>4, RunnerMatchIs
<1>6. PICK oq \in Int, oc \in Int, pr \in Int :
        oq = Sim!OpenQty(lots) /\ oc = Sim!OpenCost(lots) /\ pr = Sim!Profit(trades)
  BY LotsAdd, ProfitAdds
<1>7. Earned(a) = pr - oc
  BY <1>3, <1>6 DEF Earned
<1>8. ASSUME left = 0
      PROVE  /\ r.left = 0 /\ Sim!OpenQty(r.lots) = oq + q
             /\ Earned(r) = pr - oc - (q * p + q * u)
  <2>1. r.left = 0 /\ r.lots = Append(lots, lot) /\ r.trades = trades
    BY <1>3, <1>5, <1>8 DEF MetBy
  <2>2. Sim!OpenQty(r.lots) = oq + q /\ Sim!OpenCost(r.lots) = oc + (q * p + q * u)
    BY <1>1, <1>6, <2>1, LotsAdd
  <2>3. q * p + q * u \in Int
    OBVIOUS
  <2>4. Earned(r) = pr - (oc + (q * p + q * u))
    BY <1>6, <2>1, <2>2 DEF Earned
  <2> QED
    BY <2>1, <2>2, <2>3, <2>4
<1>9. ASSUME left > 0
      PROVE  /\ r.left = left - m /\ (r.left > 0 => r.lots = <<>>) /\ Sim!OpenQty(r.lots) = q - m
             /\ Earned(r) = pr - (q * p + q * u) + m * (f - w) /\ oq = 0 /\ oc = 0
  <2>1. PICK t \in ClosedTrades : t = TradeOf(o, p, m) /\ t.pnl = (f - p) * m - (m * u + m * w)
    <3>1. TradeOf(o, lot.price, m) \in ClosedTrades
      BY <1>1, TradeOfType
    <3>2. TradeOf(o, p, m).pnl = (f - p) * m - (m * u + m * w)
      BY <1>1, <1>2 DEF TradeOf
    <3> QED
      BY <1>1, <3>1, <3>2
  <2>2. /\ r.left = left - m /\ r.trades = Append(trades, t)
        /\ r.lots = IF m = q THEN lots ELSE Append(lots, RunnerRest(lot, m))
    <3>1. a.left # 0 /\ lot.price = p /\ Meets(q, a.left) = m /\ a.trades = trades /\ a.lots = lots
      BY <1>1, <1>3, <1>4, <1>9
    <3>2. r = [left |-> a.left - m, lots |-> IF m = q THEN a.lots ELSE Append(a.lots, RunnerRest(lot, m)),
               trades |-> Append(a.trades, TradeOf(o, p, m))]
      BY ONLY <1>5, <3>1 DEF MetBy
    <3> QED
      BY ONLY <1>3, <2>1, <3>1, <3>2
  <2>3. lots = <<>> /\ oq = 0 /\ oc = 0
    BY <1>3, <1>6, <1>9, NothingOpen
  <2>4. PICK d \in Nat : d = q - m
    BY <1>4
  <2>5. Sim!OpenQty(r.lots) = d /\ Sim!OpenCost(r.lots) = d * p + d * u
    <3>1. CASE m = q
      <4>1. d = 0 /\ d * p = 0 /\ d * u = 0
        BY <2>4, <3>1
      <4>2. Sim!OpenQty(r.lots) = 0 /\ Sim!OpenCost(r.lots) = 0
        BY <1>6, <2>2, <2>3, <3>1
      <4> QED
        BY <4>1, <4>2
    <3>2. CASE m # q
      <4>1. PICK rest \in RunnerLots : rest = RunnerRest(lot, m) /\ rest.qty = d /\ rest.price = p
        <5>1. RunnerRest(lot, m) = [qty |-> d, price |-> p, fee |-> d * u]
          BY <1>1, <2>4 DEF RunnerRest
        <5>2. d \in Nat \ {0} /\ d * u \in Nat
          BY <1>4, <2>4, <3>2
        <5>3. RunnerRest(lot, m) \in RunnerLots
          BY <1>1, <5>1, <5>2 DEF RunnerLots
        <5> QED
          BY <5>1, <5>3
      <4>2. CostOf(rest) = d * p + d * u
        BY <1>1, <4>1, LotType
      <4>3. r.lots = Append(lots, rest)
        BY <2>2, <3>2, <4>1
      <4>4. Sim!OpenQty(r.lots) = 0 + d /\ Sim!OpenCost(r.lots) = 0 + (d * p + d * u)
        <5>1. /\ Sim!OpenQty(Append(lots, rest)) = Sim!OpenQty(lots) + rest.qty
              /\ Sim!OpenCost(Append(lots, rest)) = Sim!OpenCost(lots) + CostOf(rest)
          BY <4>1, LotsAdd
        <5> QED
          BY <1>6, <2>3, <4>1, <4>2, <4>3, <5>1
      <4>5. d * p + d * u \in Int
        OBVIOUS
      <4> QED
        BY <4>4, <4>5
    <3> QED
      BY <3>1, <3>2
  <2>6. r.left > 0 => r.lots = <<>>
    <3>1. r.left > 0 => m = q
      BY <1>4, <2>2
    <3> QED
      BY <2>2, <2>3, <3>1
  <2>7. Sim!Profit(r.trades) = pr + t.pnl
    BY <1>6, <2>2, ProfitAdds
  <2>8. PICK qp \in Int, qu \in Int, mp \in Int, mu \in Int, mf \in Int, mw \in Int :
          qp = q * p /\ qu = q * u /\ mp = m * p /\ mu = m * u /\ mf = m * f /\ mw = m * w
    <3>1. q * p \in Int /\ q * u \in Int
      OBVIOUS
    <3>2. m * p \in Int /\ m * u \in Int
      OBVIOUS
    <3>3. m * f \in Int /\ m * w \in Int
      OBVIOUS
    <3> QED
      BY ONLY <3>1, <3>2, <3>3
  <2>9. d * p = qp - mp /\ d * u = qu - mu /\ (f - p) * m = mf - mp /\ m * (f - w) = mf - mw
    BY ONLY <2>4, <2>8, d \in Nat, q \in Nat \ {0}, m \in Nat, p \in Nat \ {0}, u \in Nat, f \in Nat \ {0}, w \in Nat
  <2>10. Earned(r) = pr + ((mf - mp) - (mu + mw)) - ((qp - mp) + (qu - mu))
    BY <2>1, <2>5, <2>7, <2>8, <2>9 DEF Earned
  <2>11. Earned(r) = pr - (qp + qu) + (mf - mw)
    BY ONLY <2>10, pr \in Int, <2>8
  <2> QED
    BY <2>2, <2>3, <2>4, <2>5, <2>6, <2>8, <2>9, <2>11
<1>10. CASE left = 0
  <2>1. r.left <= a.left /\ (r.left > 0 => r.lots = <<>>) /\ a.left - r.left = 0
    BY <1>3, <1>8, <1>10
  <2>2. 0 * (f - w) = 0
    OBVIOUS
  <2>3. PICK c \in Int : c = q * p + q * u
    OBVIOUS
  <2>4. Sim!OpenQty(r.lots) = Sim!OpenQty(a.lots) + lot.qty - 0
    BY <1>1, <1>3, <1>6, <1>8, <1>10
  <2>5. Earned(r) = Earned(a) - CostOf(lot) + 0 * (o.price - Unit(o.price))
    BY <1>1, <1>2, <1>6, <1>7, <1>8, <1>10, <2>2, <2>3
  <2> QED
    BY <1>5, <2>1, <2>4, <2>5
<1>11. CASE left > 0
  <2>1. a.left - r.left = m /\ r.left <= a.left /\ (r.left > 0 => r.lots = <<>>)
    <3>1. r.left = left - m /\ (r.left > 0 => r.lots = <<>>) /\ a.left = left
      BY <1>3, <1>9, <1>11
    <3>2. left - (left - m) = m /\ left - m <= left
      BY <1>4
    <3> QED
      BY <3>1, <3>2
  <2>2. PICK c \in Int, e \in Int : c = q * p + q * u /\ e = m * (f - w)
    OBVIOUS
  <2>3. Sim!OpenQty(r.lots) = Sim!OpenQty(a.lots) + lot.qty - m
    BY <1>1, <1>3, <1>6, <1>9, <1>11
  <2>4. Earned(r) = Earned(a) - CostOf(lot) + m * (o.price - Unit(o.price))
    <3>1. Earned(r) = pr - c + e /\ Earned(a) = pr - 0
      BY <1>7, <1>9, <1>11, <2>2
    <3>2. Earned(r) = Earned(a) - c + e
      BY ONLY <3>1, pr \in Int, c \in Int, e \in Int
    <3> QED
      BY <1>1, <1>2, <2>2, <3>2
  <2> QED
    BY <1>5, <2>1, <2>3, <2>4
<1> QED
  BY <1>10, <1>11

\* A SELL of no more than is open closes what it sells.
LEMMA SellEffect ==
  ASSUME NEW acc \in Matched(RunnerLots), NEW o \in FilledOrders, o.side # "buy",
         o.qty <= Sim!OpenQty(acc.lots)
  PROVE  /\ Sim!OpenQty(RunnerStep(acc, o).lots) = Sim!OpenQty(acc.lots) - o.qty
         /\ Earned(RunnerStep(acc, o)) = Earned(acc) + o.qty * o.price - o.qty * Unit(o.price)
<1>1. PICK lots \in Seq(RunnerLots), n \in Nat :
        lots = acc.lots /\ n = Len(lots) /\ DOMAIN lots = 1 .. n /\ \A i \in 1 .. n : lots[i] \in RunnerLots
  BY DEF Matched
<1>2. PICK trades \in Seq(ClosedTrades) : trades = acc.trades
  BY DEF Matched
<1>3. PICK q \in Nat \ {0}, f \in Nat \ {0}, w \in Nat, k \in Int :
        q = o.qty /\ f = o.price /\ w = Unit(f) /\ k = f - w
  <2>1. o.qty \in Nat \ {0} /\ o.price \in Nat \ {0}
    BY DEF FilledOrders
  <2>2. PICK f \in Nat \ {0}, w \in Nat : f = o.price /\ w = Unit(f)
    BY <2>1, UnitType
  <2>3. f - w \in Int
    OBVIOUS
  <2> QED
    BY <2>1, <2>2, <2>3
<1>4. PICK h : RunnerTurned(h, o, lots, acc)
  BY <1>1, RunnerInTurn
<1>5. /\ h \in [0 .. n -> Meeting(RunnerLots)] /\ h[0] = Fresh(o, trades) /\ RunnerTurn(o, acc) = h[n]
      /\ \A i \in 1 .. n : h[i] = Sim!RunnerMatch(o, h[i - 1], lots[i])
  BY <1>1, <1>2, <1>4 DEF RunnerTurned
<1> DEFINE x == [i \in 1 .. n |-> lots[i].qty]
           y == [i \in 1 .. n |-> CostOf(lots[i])]
<1>6. x \in [1 .. n -> Int] /\ y \in [1 .. n -> Int]
  BY <1>1, LotType
<1>7. \A i \in 1 .. n : x[i] = lots[i].qty /\ y[i] = CostOf(lots[i])
  OBVIOUS
<1>8. SumFunction(x) = Sim!OpenQty(lots) /\ SumFunction(y) = Sim!OpenCost(lots)
  BY <1>1, SimSumIsSum DEF Sim!OpenQty, Sim!OpenCost, CostOf
<1> HIDE DEF x, y
<1>9. PICK s : /\ s \in [0 .. n -> Int] /\ s[0] = 0 /\ s[n] = Sim!OpenQty(lots)
               /\ \A i \in 1 .. n : s[i] = s[i - 1] + lots[i].qty
  <2>1. PICK s : /\ s \in [0 .. n -> Int] /\ s[0] = 0 /\ s[n] = SumFunction(x)
                 /\ \A i \in 1 .. n : s[i] = s[i - 1] + x[i]
    BY <1>6, ValuesInTurn
  <2> QED
    BY <1>7, <1>8, <2>1
<1>10. PICK c : /\ c \in [0 .. n -> Int] /\ c[0] = 0 /\ c[n] = Sim!OpenCost(lots)
                /\ \A i \in 1 .. n : c[i] = c[i - 1] + CostOf(lots[i])
  <2>1. PICK c : /\ c \in [0 .. n -> Int] /\ c[0] = 0 /\ c[n] = SumFunction(y)
                 /\ \A i \in 1 .. n : c[i] = c[i - 1] + y[i]
    BY <1>6, ValuesInTurn
  <2> QED
    BY <1>7, <1>8, <2>1
<1>11. PICK pr \in Int : pr = Sim!Profit(trades)
  BY ProfitAdds
<1> DEFINE v == [i \in 0 .. n |-> {a \in Meeting(RunnerLots) :
                   /\ a.left <= q /\ (a.left > 0 => a.lots = <<>>)
                   /\ Sim!OpenQty(a.lots) = s[i] - (q - a.left)
                   /\ Earned(a) = pr - c[i] + (q - a.left) * k}]
<1>12. h[0] \in v[0]
  <2>1. PICK a \in Meeting(RunnerLots) : a = h[0] /\ a.left = q /\ a.lots = <<>> /\ a.trades = trades
    <3>1. 0 \in 0 .. n
      OBVIOUS
    <3> QED
      BY <1>3, <1>5, <3>1 DEF Fresh
  <2>2. Sim!OpenQty(a.lots) = 0 /\ Sim!OpenCost(a.lots) = 0 /\ Sim!Profit(a.trades) = pr
    BY <1>11, <2>1, NothingOpen
  <2>3. Earned(a) = pr - 0
    BY <2>2 DEF Earned
  <2>4. (q - q) * k = 0 /\ 0 - (q - q) = 0
    OBVIOUS
  <2>5. Sim!OpenQty(a.lots) = s[0] - (q - a.left) /\ Earned(a) = pr - c[0] + (q - a.left) * k
    <3>1. pr - 0 + 0 = pr - 0
      OBVIOUS
    <3> QED
      BY <1>9, <1>10, <2>1, <2>2, <2>3, <2>4, <3>1
  <2>6. a.left <= q /\ (a.left > 0 => a.lots = <<>>)
    BY <2>1
  <2>7. 0 \in 0 .. n
    OBVIOUS
  <2> QED
    BY <2>1, <2>5, <2>6, <2>7
<1>13. ASSUME NEW i \in 1 .. n, h[i - 1] \in v[i - 1] PROVE h[i] \in v[i]
  <2>1. i \in 0 .. n /\ i - 1 \in 0 .. n /\ lots[i] \in RunnerLots
    BY <1>1, <1>13
  <2>2. PICK a \in Meeting(RunnerLots) :
          /\ a = h[i - 1] /\ a.left <= q /\ (a.left > 0 => a.lots = <<>>)
          /\ Sim!OpenQty(a.lots) = s[i - 1] - (q - a.left)
          /\ Earned(a) = pr - c[i - 1] + (q - a.left) * k
    BY <1>13, <2>1
  <2>3. PICK r \in Meeting(RunnerLots) :
          /\ r = Sim!RunnerMatch(o, a, lots[i])
          /\ r.left <= a.left /\ (r.left > 0 => r.lots = <<>>)
          /\ Sim!OpenQty(r.lots) = Sim!OpenQty(a.lots) + lots[i].qty - (a.left - r.left)
          /\ Earned(r) = Earned(a) - CostOf(lots[i]) + (a.left - r.left) * (o.price - Unit(o.price))
    BY <2>1, <2>2, MeetingEffect
  <2>4. PICK al \in Nat, rl \in Nat, g \in Int, e \in Int, s1 \in Int, c1 \in Int :
          al = a.left /\ rl = r.left /\ g = lots[i].qty /\ e = CostOf(lots[i]) /\ s1 = s[i - 1] /\ c1 = c[i - 1]
    <3>1. a.left \in Nat /\ r.left \in Nat
      BY DEF Meeting
    <3>2. lots[i].qty \in Nat \ {0} /\ CostOf(lots[i]) \in Int
      BY <2>1, LotType
    <3>3. s[i - 1] \in Int
      BY <1>9, <2>1
    <3>4. c[i - 1] \in Int
      BY <1>10, <2>1
    <3>5. PICK g \in Int : g = lots[i].qty
      BY <3>2
    <3>6. PICK al \in Nat, rl \in Nat : al = a.left /\ rl = r.left
      BY <3>1
    <3> QED
      BY ONLY <3>2, <3>3, <3>4, <3>5, <3>6
  <2>5. s[i] = s1 + g /\ c[i] = c1 + e /\ h[i] = r
    BY <1>5, <1>9, <1>10, <1>13, <2>2, <2>3, <2>4
  <2>6. rl <= q
    BY <2>2, <2>3, <2>4, SMTT(30)
  <2>7. Sim!OpenQty(r.lots) = (s1 + g) - (q - rl)
    <3>1. Sim!OpenQty(r.lots) = s1 - (q - al) + g - (al - rl)
      BY <2>2, <2>3, <2>4
    <3> QED
      BY ONLY <3>1, s1 \in Int, g \in Int, q \in Nat \ {0}, al \in Nat, rl \in Nat
  <2>8. Earned(r) = pr - (c1 + e) + (q - rl) * k
    <3>1. PICK z1 \in Int, z2 \in Int : z1 = (q - al) * k /\ z2 = (al - rl) * k
      OBVIOUS
    <3>2. (q - rl) * k = z1 + z2
      BY ONLY <3>1, q \in Nat \ {0}, al \in Nat, rl \in Nat, k \in Int
    <3>3. Earned(r) = pr - c1 + z1 - e + z2
      BY <1>3, <2>2, <2>3, <2>4, <3>1
    <3> QED
      BY ONLY <3>2, <3>3, pr \in Int, c1 \in Int, e \in Int, z1 \in Int, z2 \in Int
  <2> QED
    BY <2>1, <2>3, <2>4, <2>5, <2>6, <2>7, <2>8
<1> HIDE DEF v
<1>14. \A i \in 0 .. n : h[i] \in v[i]
  BY <1>12, <1>13, PrefixesStay
<1>15. PICK a \in Meeting(RunnerLots) :
        /\ a = h[n] /\ a.left <= q /\ (a.left > 0 => a.lots = <<>>)
        /\ Sim!OpenQty(a.lots) = s[n] - (q - a.left)
        /\ Earned(a) = pr - c[n] + (q - a.left) * k
  <2>1. n \in 0 .. n
    OBVIOUS
  <2> QED
    BY <1>14, <2>1 DEF v
<1>16. PICK left \in Nat, oq \in Int, oc \in Int :
        left = a.left /\ oq = Sim!OpenQty(lots) /\ oc = Sim!OpenCost(lots) /\ q <= oq
  <2>1. a.left \in Nat
    BY DEF Meeting
  <2> QED
    BY <1>1, <1>3, <2>1, LotsAdd
<1>17. left = 0
  <2>1. ASSUME left > 0 PROVE FALSE
    <3>1. Sim!OpenQty(a.lots) = 0
      BY <1>15, <1>16, <2>1, NothingOpen
    <3>2. 0 = oq - (q - left)
      BY <1>9, <1>15, <1>16, <3>1
    <3> QED
      BY ONLY <2>1, <3>2, <1>16, q \in Nat \ {0}
  <2> QED
    BY <2>1
<1>18. RunnerStep(acc, o).lots = a.lots /\ RunnerStep(acc, o).trades = a.trades
  BY <1>5, <1>15 DEF RunnerStep
<1>19. Earned(RunnerStep(acc, o)) = Earned(a) /\ Earned(acc) = pr - oc
  BY <1>1, <1>2, <1>11, <1>16, <1>18 DEF Earned
<1>20. PICK qf \in Int, qw \in Int : qf = q * f /\ qw = q * w
  OBVIOUS
<1>21. (q - 0) * k = qf - qw
  <2>1. (q - 0) * k = q * (f - w)
    <3>1. q - 0 = q /\ k = f - w
      BY <1>3
    <3> QED
      BY <3>1
  <2>2. q * (f - w) = q * f - q * w
    BY ONLY q \in Nat \ {0}, f \in Nat \ {0}, w \in Nat
  <2> QED
    BY <1>20, <2>1, <2>2
<1>22. Earned(a) = pr - oc + (qf - qw) /\ Sim!OpenQty(a.lots) = oq - (q - 0)
  BY <1>9, <1>10, <1>15, <1>16, <1>17, <1>21
<1>23. oq - (q - 0) = oq - q /\ pr - oc + (qf - qw) = (pr - oc) + qf - qw
  BY ONLY oq \in Int, q \in Nat \ {0}, pr \in Int, oc \in Int, qf \in Int, qw \in Int
<1> QED
  BY <1>1, <1>3, <1>16, <1>18, <1>19, <1>20, <1>22, <1>23

\* A BUY opens what it buys.
LEMMA BuyEffect ==
  ASSUME NEW acc \in Matched(RunnerLots), NEW o \in FilledOrders, o.side = "buy"
  PROVE  /\ Sim!OpenQty(RunnerStep(acc, o).lots) = Sim!OpenQty(acc.lots) + o.qty
         /\ Earned(RunnerStep(acc, o)) = Earned(acc) - o.qty * o.price - o.qty * Unit(o.price)
<1>1. PICK lots \in Seq(RunnerLots), trades \in Seq(ClosedTrades) : lots = acc.lots /\ trades = acc.trades
  BY DEF Matched
<1>2. PICK l \in RunnerLots : l = Sim!RunnerLot(o) /\ l.qty = o.qty /\ l.price = o.price
  BY LotsType DEF Sim!RunnerLot
<1>3. PICK b : b = RunnerStep(acc, o) /\ b.lots = Append(lots, l) /\ b.trades = trades
  <2>1. RunnerStep(acc, o) = [acc EXCEPT !.lots = Append(lots, l)]
    BY <1>1, <1>2 DEF RunnerStep
  <2> QED
    BY <1>1, <2>1 DEF Matched
<1>4. PICK oc \in Int, pr \in Int, x \in Int, y \in Int :
        oc = Sim!OpenCost(lots) /\ pr = Sim!Profit(trades) /\ x = o.qty * o.price /\ y = o.qty * Unit(o.price)
  <2>1. PICK q \in Nat, p \in Nat, u \in Nat : q = o.qty /\ p = o.price /\ u = Unit(p)
    BY UnitType DEF FilledOrders
  <2>2. q * p \in Int /\ q * u \in Int
    OBVIOUS
  <2> QED
    BY <2>1, <2>2, LotsAdd, ProfitAdds
<1>5. CostOf(l) = x + y
  BY <1>2, <1>4, LotType
<1>6. Sim!OpenQty(b.lots) = Sim!OpenQty(lots) + o.qty /\ Sim!OpenCost(b.lots) = oc + (x + y)
  BY <1>2, <1>3, <1>4, <1>5, LotsAdd
<1>7. Earned(b) = pr - (oc + (x + y)) /\ Earned(acc) = pr - oc
  BY <1>1, <1>3, <1>4, <1>6 DEF Earned
<1>8. Earned(b) = Earned(acc) - x - y
  BY ONLY <1>7, pr \in Int, oc \in Int, x \in Int, y \in Int
<1> QED
  BY <1>1, <1>3, <1>4, <1>6, <1>8

\* One more order is one more step.
LEMMA BooksOfOneMore ==
  ASSUME NEW list \in Seq(FilledOrders), NEW o \in FilledOrders
  PROVE  /\ Sim!RunnerBooks(list) \in Matched(RunnerLots)
         /\ Sim!RunnerBooks(Append(list, o)) = RunnerStep(Sim!RunnerBooks(list), o)
<1>1. PICK n \in Nat : n = Len(list)
  OBVIOUS
<1>2. PICK more \in Seq(FilledOrders) : /\ more = Append(list, o) /\ Len(more) = n + 1 /\ more[n + 1] = o
                                        /\ \A i \in 1 .. n : more[i] = list[i]
  <2>1. PICK more : more = Append(list, o)
    OBVIOUS
  <2>2. more \in Seq(FilledOrders)
    BY <2>1, AppendType
  <2>3. Len(more) = n + 1 /\ more[n + 1] = o /\ \A i \in 1 .. n : more[i] = list[i]
    BY ONLY <1>1, <2>1, list \in Seq(FilledOrders), o \in FilledOrders
  <2> QED
    BY <2>1, <2>2, <2>3
<1>3. PICK h : RunnerWalked(h, list)
  BY RunnerWalks
<1>4. PICK k : RunnerWalked(k, more)
  BY RunnerWalks
<1>5. /\ h \in [0 .. n -> Matched(RunnerLots)] /\ h[0] = NoLots /\ Sim!RunnerBooks(list) = h[n]
      /\ \A i \in 1 .. n : h[i] = RunnerStep(h[i - 1], list[i])
  BY <1>1, <1>3 DEF RunnerWalked
<1>6. /\ k[0] = NoLots /\ Sim!RunnerBooks(more) = k[n + 1]
      /\ \A i \in 1 .. n + 1 : k[i] = RunnerStep(k[i - 1], more[i])
  BY <1>2, <1>4 DEF RunnerWalked
<1>7. k[0] = h[0] /\ \A i \in 1 .. n : k[i - 1] = h[i - 1] => k[i] = h[i]
  <2>1. \A i \in 1 .. n : i \in 1 .. n + 1
    OBVIOUS
  <2> QED
    BY <1>2, <1>5, <1>6, <2>1
<1>8. \A i \in 0 .. n : k[i] = h[i]
  BY <1>7, StepsAgree
<1>9. n + 1 \in 1 .. n + 1 /\ (n + 1) - 1 = n /\ n \in 0 .. n
  OBVIOUS
<1>10. k[n + 1] = RunnerStep(k[n], o)
  BY <1>2, <1>6, <1>9
<1> QED
  BY <1>2, <1>5, <1>6, <1>8, <1>9, <1>10

-----------------------------------------------------------------------------
(* Reservations in full, and what execution makes of them. *)

\* What is reserved before the i-th request is reserved for the requests
\* before it.
LEMMA PrefixReserved ==
  ASSUME NEW p \in Accounts, NEW list \in Seq(Requests), NEW h, Reserved(h, list, p), NEW i \in 1 .. Len(list)
  PROVE  Sim!FoldLeft(Sim!ApplyOrder, p, SubSeq(list, 1, i - 1)) = h[i - 1]
<1>0. PICK m \in Nat : m = i - 1 /\ m <= Len(list)
  OBVIOUS
<1>1. PICK part : part = SubSeq(list, 1, m)
  OBVIOUS
<1>2. part \in Seq(Requests) /\ Len(part) = m /\ \A j \in 1 .. m : part[j] = list[j] /\ j \in 1 .. Len(list)
  BY <1>0, <1>1
<1>3. PICK k : Reserved(k, part, p)
  BY <1>2, ReservedInTurn
<1>4. /\ k[0] = p /\ Sim!FoldLeft(Sim!ApplyOrder, p, part) = k[m]
      /\ \A j \in 1 .. m : k[j] = Sim!ApplyOrder(k[j - 1], part[j])
  BY <1>2, <1>3 DEF Reserved
<1>5. h[0] = p /\ \A j \in 1 .. m : h[j] = Sim!ApplyOrder(h[j - 1], list[j])
  BY <1>2 DEF Reserved
<1>6. k[0] = h[0] /\ \A j \in 1 .. m : k[j - 1] = h[j - 1] => k[j] = h[j]
  BY <1>2, <1>4, <1>5
<1>7. \A j \in 0 .. m : k[j] = h[j]
  BY <1>6, StepsAgree
<1>8. m \in 0 .. m
  OBVIOUS
<1> QED
  BY <1>0, <1>1, <1>4, <1>7, <1>8

\* The accounts along a reservation that is covered: a BUY moves its whole
\* notional into the position, a SELL what is held; and a BUY is still held at
\* the end.
FullyReserved(h, list) ==
  \A i \in 1 .. Len(list) :
    LET r == list[i]
    IN  /\ h[i - 1] \in Accounts /\ h[i] \in Accounts /\ r \in Requests
        /\ r.side = "buy" => /\ h[i].cash = h[i - 1].cash - r.qty * r.price
                             /\ Held(h[i]) = Held(h[i - 1]) + r.qty
                             /\ r.qty <= Held(h[Len(list)])
        /\ r.side # "buy" => /\ h[i].cash = h[i - 1].cash + r.qty * r.price
                             /\ Held(h[i]) = Held(h[i - 1]) - r.qty
                             /\ r.qty <= Held(h[i - 1])

\* BUYs first, none scaled down, and one SELL of no more than was held: the
\* reservation is covered.
LEMMA ReservedInFull ==
  ASSUME NEW p \in Accounts, NEW list \in Seq(Requests), NEW h, Reserved(h, list, p),
         ~Sim!Scaled(p, list), Sequenced(list, Held(p))
  PROVE  FullyReserved(h, list)
<1>1. PICK n \in Nat, z \in Nat :
        /\ n = Len(list) /\ DOMAIN list = 1 .. n /\ z = Held(p)
        /\ \A i \in 1 .. n : list[i] \in Requests
  <2>1. Held(p) \in Nat
    BY ReplayAssumption DEF Accounts, Held
  <2> QED
    BY <2>1
<1>2. /\ h[0] = p /\ \A i \in 0 .. n : h[i] \in Accounts
      /\ \A i \in 1 .. n : h[i] = Sim!ApplyOrder(h[i - 1], list[i])
  BY <1>1 DEF Reserved
<1>3. \A i \in 1 .. n : i \in 0 .. n /\ i - 1 \in 0 .. n
  OBVIOUS
<1>4. ASSUME NEW a \in Accounts PROVE Held(a) \in Nat
  BY ReplayAssumption DEF Accounts, Held
<1>5. ASSUME NEW r \in Requests PROVE r.qty \in Nat \ {0} /\ r.side \in {"buy", "sell"}
  BY DEF Requests, Asked
<1>6. ASSUME NEW i \in 1 .. n, list[i].side = "buy"
      PROVE  /\ h[i].cash = h[i - 1].cash - list[i].qty * list[i].price
             /\ Held(h[i]) = Held(h[i - 1]) + list[i].qty
  <2>1. ~(Sim!Notional(list[i].qty, list[i].price) >
            Sim!FoldLeft(Sim!ApplyOrder, p, SubSeq(list, 1, i - 1)).cash)
    BY <1>1, <1>6 DEF Sim!Scaled
  <2>2. Sim!FoldLeft(Sim!ApplyOrder, p, SubSeq(list, 1, i - 1)) = h[i - 1]
    BY <1>1, <1>6, PrefixReserved
  <2>3. PICK a \in Accounts, r \in Requests : a = h[i - 1] /\ r = list[i] /\ h[i] = Sim!ApplyOrder(a, r)
    BY <1>1, <1>2, <1>3, <1>6
  <2>4. r.qty * r.price \in Int /\ a.cash \in Int
    BY AccountFields DEF Requests
  <2>5. r.qty * r.price <= a.cash
    <3>1. ~(r.qty * r.price > a.cash)
      BY <2>1, <2>2, <2>3 DEF Sim!Notional
    <3> QED
      BY ONLY <2>4, <3>1
  <2> QED
    BY <1>6, <2>3, <2>5, ReservedType
<1> DEFINE v == [i \in 0 .. n |-> {a \in Accounts :
                   (\A j \in 1 .. i : list[j].side = "buy") =>
                     z <= Held(a) /\ \A j \in 1 .. i : z + list[j].qty <= Held(a)}]
<1>7. h[0] \in v[0]
  <2>1. 0 \in 0 .. n /\ z <= z
    OBVIOUS
  <2>2. \A j \in 1 .. 0 : FALSE
    OBVIOUS
  <2> QED
    BY <1>1, <1>2, <2>1, <2>2
<1>8. ASSUME NEW i \in 1 .. n, h[i - 1] \in v[i - 1] PROVE h[i] \in v[i]
  <2>1. PICK m \in 0 .. n : m = i - 1 /\ i \in 0 .. n /\ h[m] \in v[m]
    BY <1>3, <1>8
  <2>2. ASSUME \A j \in 1 .. i : list[j].side = "buy"
        PROVE  z <= Held(h[i]) /\ \A j \in 1 .. i : z + list[j].qty <= Held(h[i])
    <3>1. \A j \in 1 .. i : j \in 1 .. m \/ j = i
      BY <2>1
    <3>2. \A j \in 1 .. m : j \in 1 .. i
      BY <2>1
    <3>3. PICK b \in Nat : b = Held(h[m]) /\ z <= b /\ \A j \in 1 .. m : z + list[j].qty <= b
      BY <1>2, <1>4, <2>1, <2>2, <3>2
    <3>4. PICK q \in Nat \ {0} : q = list[i].qty /\ Held(h[i]) = b + q
      BY <1>1, <1>5, <1>6, <1>8, <2>1, <2>2, <3>3
    <3>5. \A j \in 1 .. m : list[j].qty \in Nat
      BY <1>1, <1>5, <2>1
    <3>6. \A j \in 1 .. m : z + list[j].qty <= b + q
      BY <3>3, <3>5
    <3>7. z <= b + q /\ z + q <= b + q
      BY <3>3
    <3> QED
      BY <3>1, <3>4, <3>6, <3>7
  <2>3. h[i] \in Accounts
    BY <1>2, <2>1
  <2> QED
    BY <2>1, <2>2, <2>3
<1> HIDE DEF v
<1>9. \A i \in 0 .. n : h[i] \in v[i]
  BY <1>7, <1>8, PrefixesStay
<1>10. ASSUME NEW i \in 0 .. n, \A j \in 1 .. i : list[j].side = "buy"
       PROVE  z <= Held(h[i]) /\ \A j \in 1 .. i : z + list[j].qty <= Held(h[i])
  <2>1. h[i] \in v[i]
    BY <1>9, <1>10
  <2> QED
    BY <1>10, <2>1 DEF v
<1>11. ASSUME NEW i \in 1 .. n, i < n PROVE list[i].side = "buy"
  BY <1>1, <1>5, <1>11 DEF Sequenced
<1>12. ASSUME NEW i \in 1 .. n, list[i].side # "buy"
       PROVE  /\ i = n /\ list[i].qty <= z /\ list[i].qty <= Held(h[i - 1])
              /\ h[i].cash = h[i - 1].cash + list[i].qty * list[i].price
              /\ Held(h[i]) = Held(h[i - 1]) - list[i].qty
  <2>1. PICK a \in Accounts, r \in Requests : a = h[i - 1] /\ r = list[i] /\ h[i] = Sim!ApplyOrder(a, r)
    BY <1>1, <1>2, <1>3, <1>12
  <2>2. r.side = "sell"
    BY <1>5, <1>12, <2>1
  <2>3. i = n /\ r.qty <= z
    BY <1>1, <1>12, <2>1, <2>2 DEF Sequenced
  <2>4. \A j \in 1 .. i - 1 : list[j].side = "buy"
    BY <1>11, <2>3
  <2>5. z <= Held(a)
    BY <1>3, <1>10, <1>12, <2>1, <2>4
  <2>6. r.qty <= Held(a)
    <3>1. r.qty \in Nat /\ Held(a) \in Nat
      BY <1>4, <1>5
    <3> QED
      BY ONLY <2>3, <2>5, <3>1, z \in Nat
  <2> QED
    BY <2>1, <2>2, <2>3, <2>6, ReservedType
<1>13. ASSUME NEW i \in 1 .. n, list[i].side = "buy" PROVE list[i].qty <= Held(h[n])
  <2>1. PICK q \in Nat, e \in Nat : q = list[i].qty /\ e = Held(h[n])
    <3>1. h[n] \in Accounts
      BY <1>2
    <3> QED
      BY <1>1, <1>4, <1>5, <1>13, <3>1
  <2>2. n \in 1 .. n /\ n \in 0 .. n
    BY <1>13
  <2>3. CASE list[n].side = "buy"
    <3>1. \A j \in 1 .. n : list[j].side = "buy"
      <4>1. \A j \in 1 .. n : j < n \/ j = n
        OBVIOUS
      <4> QED
        BY <1>11, <2>3, <4>1
    <3>2. z + q <= e
      BY <1>10, <1>13, <2>1, <2>2, <3>1
    <3> QED
      BY ONLY <2>1, <3>2, z \in Nat, q \in Nat, e \in Nat
  <2>4. CASE list[n].side # "buy"
    <3>1. i # n
      BY <1>13, <2>4
    <3>2. i \in 1 .. n - 1 /\ n - 1 \in 0 .. n
      BY <1>13, <3>1
    <3>3. \A j \in 1 .. n - 1 : list[j].side = "buy"
      BY <1>11
    <3>4. PICK b : b = Held(h[n - 1]) /\ z + q <= b
      BY <1>10, <2>1, <3>2, <3>3
    <3>5. PICK s \in Nat : s = list[n].qty /\ s <= z /\ e = b - s
      BY <1>1, <1>5, <1>12, <2>1, <2>2, <2>4, <3>4
    <3>6. b \in Nat
      BY <1>2, <1>4, <3>2, <3>4
    <3>7. q <= e
      BY ONLY <3>4, <3>5, <3>6, z \in Nat, q \in Nat, e \in Nat, s \in Nat
    <3> QED
      BY <2>1, <3>7
  <2> QED
    BY <2>3, <2>4
<1>14. ASSUME NEW i \in 1 .. n
       PROVE  h[i - 1] \in Accounts /\ h[i] \in Accounts /\ list[i] \in Requests
  BY <1>1, <1>2, <1>3, <1>14
<1> QED
  BY <1>1, <1>6, <1>12, <1>13, <1>14 DEF FullyReserved

\* What a list of orders makes of the initial balance, and the position it
\* leaves.
Explains(list, cash, held) ==
  /\ cash = InitBalance + Earned(Sim!RunnerBooks(list))
  /\ held = Sim!OpenQty(Sim!RunnerBooks(list).lots)

\* The books of a list are numbers.
LEMMA BooksType ==
  ASSUME NEW list \in Seq(FilledOrders)
  PROVE  /\ Sim!RunnerBooks(list) \in Matched(RunnerLots)
         /\ Earned(Sim!RunnerBooks(list)) \in Int
         /\ Sim!OpenQty(Sim!RunnerBooks(list).lots) \in Int
<1>1. PICK h : RunnerWalked(h, list)
  BY RunnerWalks
<1>2. Len(list) \in 0 .. Len(list)
  OBVIOUS
<1>3. PICK b \in Matched(RunnerLots) : b = Sim!RunnerBooks(list)
  BY <1>1, <1>2 DEF RunnerWalked
<1>4. b.lots \in Seq(RunnerLots) /\ b.trades \in Seq(ClosedTrades)
  BY DEF Matched
<1>5. Sim!OpenQty(b.lots) \in Int /\ Sim!OpenCost(b.lots) \in Int /\ Sim!Profit(b.trades) \in Int
  BY <1>4, LotsAdd, ProfitAdds
<1>6. Earned(b) \in Int
  BY <1>5 DEF Earned
<1> QED
  BY <1>3, <1>5, <1>6

\* After some requests of a bar: the account holds what is reserved for all of
\* them, and the orders explain its cash but for what the others reserved.
Booked(a, here, end) ==
  /\ Held(a.pf) = Held(end)
  /\ Sim!OpenQty(Sim!RunnerBooks(a.orders).lots) = Held(here)
  /\ a.pf.cash = InitBalance + Earned(Sim!RunnerBooks(a.orders)) + (end.cash - here.cash)

\* A request filled as asked: the reservation is undone and the fill is booked.
LEMMA ProcessedBooked ==
  ASSUME close \in Prices, NEW a \in Progress, NEW r \in Requests, Sim!Processed(a, r).plain,
         NEW g \in Accounts, NEW h \in Accounts, NEW end \in Accounts, Booked(a, g, end),
         r.side = "buy" => /\ h.cash = g.cash - r.qty * r.price
                           /\ Held(h) = Held(g) + r.qty /\ r.qty <= Held(end),
         r.side # "buy" => /\ h.cash = g.cash + r.qty * r.price
                           /\ Held(h) = Held(g) - r.qty /\ r.qty <= Held(g)
  PROVE  Booked(Sim!Processed(a, r), h, end)
<1>1. PICK b \in Progress :
        /\ b = Sim!Processed(a, r) /\ b.pf = Sim!Filled(a.pf, r, r.price)
        /\ b.orders = Append(a.orders, Sim!OrderRecord(r))
  BY ProcessedType
<1>2. PICK p \in Accounts, list \in Seq(FilledOrders) : p = a.pf /\ list = a.orders
  BY DEF Progress
<1>3. r \in Asked /\ r.price \in Int /\ r.side \in {"buy", "sell"}
  BY DEF Requests, Asked
<1>4. PICK o \in FilledOrders : /\ o = Sim!OrderRecord(r) /\ o.side = r.side /\ o.qty = r.qty
                                /\ o.price = Sim!FillPrice(r.side)
  BY <1>3, OrderRecordType
<1>5. PICK acc \in Matched(RunnerLots) :
        /\ acc = Sim!RunnerBooks(list) /\ Earned(acc) \in Int /\ Sim!OpenQty(acc.lots) \in Int
  BY BooksType
<1>6. PICK new \in Matched(RunnerLots) :
        /\ new = Sim!RunnerBooks(Append(list, o)) /\ new = RunnerStep(acc, o)
        /\ Earned(new) \in Int /\ Sim!OpenQty(new.lots) \in Int
  <2>1. Append(list, o) \in Seq(FilledOrders)
    BY ONLY list \in Seq(FilledOrders), o \in FilledOrders, AppendType
  <2> QED
    BY <1>5, <2>1, BooksType, BooksOfOneMore
<1>7. new = Sim!RunnerBooks(b.orders)
  BY <1>1, <1>2, <1>4, <1>6
<1>8. PICK q \in Nat \ {0}, f \in Nat \ {0}, u \in Nat : q = o.qty /\ f = o.price /\ u = Unit(f)
  BY UnitType DEF FilledOrders
<1>9. PICK x \in Int, qx \in Int : x = r.price /\ qx = q * x
  BY <1>3
<1>10. PICK qf \in Int, qu \in Int : qf = q * f /\ qu = q * u
  OBVIOUS
<1>11. PICK e \in Int, op \in Int : e = Earned(acc) /\ op = Sim!OpenQty(acc.lots)
  BY <1>5
<1>12. PICK gc \in Int, gh \in Nat : gc = g.cash /\ gh = Held(g)
  BY ReplayAssumption DEF Accounts, Held
<1>13. PICK ec \in Int, eh \in Nat : ec = end.cash /\ eh = Held(end)
  BY ReplayAssumption DEF Accounts, Held
<1>14. PICK pc0 \in Int : pc0 = p.cash /\ Held(p) = eh /\ op = gh /\ pc0 = InitBalance + e + (ec - gc)
  <2>1. p.cash \in Int
    BY DEF Accounts
  <2> QED
    BY <1>2, <1>5, <1>11, <1>12, <1>13, <2>1 DEF Booked
<1>15. r.qty * r.price = qx /\ r.qty * Sim!FillPrice(r.side) = qf /\ r.qty * Unit(Sim!FillPrice(r.side)) = qu
  BY <1>4, <1>8, <1>9, <1>10
<1>16. o.qty * o.price = qf /\ o.qty * Unit(o.price) = qu
  BY <1>8, <1>10
<1>17. InitBalance \in Int
  BY ReplayAssumption
<1>18. CASE r.side = "buy"
  <2>1. h.cash = gc - qx /\ Held(h) = gh + q /\ q <= eh
    BY <1>4, <1>8, <1>12, <1>13, <1>15, <1>18
  <2>2. b.pf.cash = pc0 + qx - qf - qu /\ Held(b.pf) = eh
    <3>1. /\ b.pf.cash = p.cash + r.qty * r.price - r.qty * Sim!FillPrice(r.side) - r.qty * Unit(Sim!FillPrice(r.side))
          /\ Held(b.pf) = Held(p)
      <4>1. r.qty <= Held(p)
        BY <1>4, <1>8, <1>14, <2>1
      <4> QED
        BY <1>1, <1>2, <1>3, <1>18, <4>1, FilledType, SMTT(30)
    <3> QED
      BY ONLY <1>14, <1>15, <3>1
  <2>3. Sim!OpenQty(new.lots) = op + q /\ Earned(new) = e - qf - qu
    <3>1. /\ Sim!OpenQty(new.lots) = Sim!OpenQty(acc.lots) + o.qty
          /\ Earned(new) = Earned(acc) - o.qty * o.price - o.qty * Unit(o.price)
      BY <1>4, <1>6, <1>18, BuyEffect
    <3> QED
      BY ONLY <1>8, <1>11, <1>16, <3>1
  <2>4. pc0 + qx - qf - qu = InitBalance + (e - qf - qu) + (ec - (gc - qx))
    BY ONLY <1>14, <1>17, e \in Int, ec \in Int, gc \in Int, qx \in Int, qf \in Int, qu \in Int
  <2> QED
    BY <1>1, <1>7, <1>13, <1>14, <2>1, <2>2, <2>3, <2>4 DEF Booked
<1>19. CASE r.side # "buy"
  <2>1. h.cash = gc + qx /\ Held(h) = gh - q /\ q <= gh
    BY <1>4, <1>8, <1>12, <1>13, <1>15, <1>19
  <2>2. b.pf.cash = pc0 - qx + qf - qu /\ Held(b.pf) = eh
    <3>1. /\ b.pf.cash = p.cash - r.qty * r.price + r.qty * Sim!FillPrice(r.side) - r.qty * Unit(Sim!FillPrice(r.side))
          /\ Held(b.pf) = Held(p)
      <4>1. r.side = "sell"
        BY <1>3, <1>19
      <4>2. b.pf = Sim!Filled(p, r, r.price)
        BY <1>1, <1>2
      <4>3. /\ Sim!Filled(p, r, r.price).cash =
                 p.cash - r.qty * r.price + r.qty * Sim!FillPrice(r.side) - r.qty * Unit(Sim!FillPrice(r.side))
            /\ Held(Sim!Filled(p, r, r.price)) = Held(p)
        BY <1>3, <4>1, FilledType
      <4> QED
        BY <4>2, <4>3
    <3> QED
      BY ONLY <1>14, <1>15, <3>1
  <2>3. Sim!OpenQty(new.lots) = op - q /\ Earned(new) = e + qf - qu
    <3>1. o.side # "buy" /\ o.qty <= Sim!OpenQty(acc.lots)
      BY <1>4, <1>8, <1>11, <1>14, <1>19, <2>1
    <3>2. /\ Sim!OpenQty(new.lots) = Sim!OpenQty(acc.lots) - o.qty
          /\ Earned(new) = Earned(acc) + o.qty * o.price - o.qty * Unit(o.price)
      BY <1>6, <3>1, SellEffect
    <3> QED
      BY ONLY <1>8, <1>11, <1>16, <3>2
  <2>4. pc0 - qx + qf - qu = InitBalance + (e + qf - qu) + (ec - (gc + qx))
    BY ONLY <1>14, <1>17, e \in Int, ec \in Int, gc \in Int, qx \in Int, qf \in Int, qu \in Int
  <2> QED
    BY <1>1, <1>7, <1>13, <1>14, <2>1, <2>2, <2>3, <2>4 DEF Booked
<1> QED
  BY <1>18, <1>19

\* Requests that were reserved in full and filled as they were asked leave an
\* account that the orders explain.
LEMMA ExecutionBooked ==
  ASSUME close \in Prices, NEW list \in Seq(Requests), NEW p \in Accounts, NEW start \in Progress,
         NEW h, Reserved(h, list, p), FullyReserved(h, list),
         NEW k, Executed(k, list, start), k[Len(list)].plain,
         start.pf = h[Len(list)], Explains(start.orders, p.cash, Held(p))
  PROVE  Explains(k[Len(list)].orders, k[Len(list)].pf.cash, Held(k[Len(list)].pf))
<1>1. PICK n \in Nat : n = Len(list) /\ \A i \in 1 .. n : list[i] \in Requests
  OBVIOUS
<1>2. h[0] = p /\ \A i \in 0 .. n : h[i] \in Accounts
  BY <1>1 DEF Reserved
<1>3. /\ k[0] = start /\ \A i \in 0 .. n : k[i] \in Progress
      /\ \A i \in 1 .. n : k[i] = Sim!Processed(k[i - 1], list[i])
  BY <1>1 DEF Executed
<1>4. \A i \in 1 .. n : i \in 0 .. n /\ i - 1 \in 0 .. n
  OBVIOUS
<1>5. 0 \in 0 .. n /\ n \in 0 .. n
  OBVIOUS
<1>6. PICK end \in Accounts : end = h[n]
  BY <1>2, <1>5
<1> DEFINE v == [i \in 0 .. n |-> {a \in Progress : a.plain => Booked(a, h[i], end)}]
<1>7. k[0] \in v[0]
  <2>1. Booked(start, p, end)
    <3>1. PICK c \in Int, ec \in Int : c = p.cash /\ ec = end.cash
      BY DEF Accounts
    <3>2. PICK e \in Int : e = Earned(Sim!RunnerBooks(start.orders))
      BY BooksType DEF Progress
    <3>3. c = InitBalance + e /\ InitBalance \in Int
      BY <3>1, <3>2, ReplayAssumption DEF Explains
    <3>4. ec = InitBalance + e + (ec - c)
      BY ONLY <3>3, c \in Int, e \in Int, ec \in Int
    <3> QED
      BY <1>1, <1>6, <3>1, <3>2, <3>4 DEF Booked, Explains
  <2> QED
    BY <1>2, <1>3, <1>5, <2>1
<1>8. ASSUME NEW i \in 1 .. n, k[i - 1] \in v[i - 1] PROVE k[i] \in v[i]
  <2>1. PICK a \in Progress, g \in Accounts, t \in Accounts, r \in Requests :
          a = k[i - 1] /\ g = h[i - 1] /\ t = h[i] /\ r = list[i]
    BY <1>1, <1>2, <1>3, <1>4, <1>8
  <2>2. a.plain => Booked(a, g, end)
    BY <1>4, <1>8, <2>1
  <2>3. k[i] = Sim!Processed(a, r) /\ k[i] \in Progress
    BY <1>3, <1>4, <1>8, <2>1
  <2>4. ASSUME k[i].plain PROVE Booked(k[i], t, end)
    <3>1. a.plain
      BY <2>3, <2>4, ProcessedType
    <3>2. /\ r.side = "buy" => /\ t.cash = g.cash - r.qty * r.price
                               /\ Held(t) = Held(g) + r.qty /\ r.qty <= Held(end)
          /\ r.side # "buy" => /\ t.cash = g.cash + r.qty * r.price
                               /\ Held(t) = Held(g) - r.qty /\ r.qty <= Held(g)
      BY <1>1, <1>6, <1>8, <2>1 DEF FullyReserved
    <3> QED
      BY <2>2, <2>3, <2>4, <3>1, <3>2, ProcessedBooked
  <2> QED
    BY <1>4, <1>8, <2>1, <2>3, <2>4
<1> HIDE DEF v
<1>9. \A i \in 0 .. n : k[i] \in v[i]
  BY <1>7, <1>8, PrefixesStay
<1>10. PICK a \in Progress : a = k[n] /\ Booked(a, end, end)
  <2>1. k[n] \in v[n]
    BY <1>5, <1>9
  <2> QED
    BY <1>1, <1>5, <1>6, <2>1 DEF v
<1>11. PICK c \in Int, ec \in Int : c = a.pf.cash /\ ec = end.cash
  BY DEF Accounts, Progress
<1>12. PICK e \in Int : e = Earned(Sim!RunnerBooks(a.orders))
  BY BooksType DEF Progress
<1>13. c = InitBalance + e + (ec - ec) /\ InitBalance \in Int
  BY <1>10, <1>11, <1>12, ReplayAssumption DEF Booked
<1>14. c = InitBalance + e
  BY ONLY <1>13, e \in Int, ec \in Int
<1> QED
  BY <1>1, <1>10, <1>11, <1>12, <1>14 DEF Booked, Explains

\* Execution that is plain at its end was plain at its start.
LEMMA PlainBefore ==
  ASSUME close \in Prices, NEW list \in Seq(Requests), NEW start \in Progress,
         NEW k, Executed(k, list, start), k[Len(list)].plain
  PROVE  start.plain
<1>1. PICK n \in Nat : n = Len(list) /\ \A i \in 1 .. n : list[i] \in Requests
  OBVIOUS
<1>2. /\ k[0] = start /\ \A i \in 0 .. n : k[i] \in Progress
      /\ \A i \in 1 .. n : k[i] = Sim!Processed(k[i - 1], list[i])
  BY <1>1 DEF Executed
<1> DEFINE v == [i \in 0 .. n |-> {a \in Progress : a.plain => start.plain}]
<1>3. k[0] \in v[0]
  BY <1>2
<1>4. ASSUME NEW i \in 1 .. n, k[i - 1] \in v[i - 1] PROVE k[i] \in v[i]
  <2>1. i \in 0 .. n /\ i - 1 \in 0 .. n
    OBVIOUS
  <2>2. PICK a \in Progress, r \in Requests : a = k[i - 1] /\ r = list[i] /\ (a.plain => start.plain)
    BY <1>1, <1>4, <2>1
  <2>3. Sim!Processed(a, r) \in Progress /\ (Sim!Processed(a, r).plain => a.plain)
    BY ProcessedType
  <2> QED
    BY <1>2, <1>4, <2>1, <2>2, <2>3
<1> HIDE DEF v
<1>5. \A i \in 0 .. n : k[i] \in v[i]
  BY <1>3, <1>4, PrefixesStay
<1>6. k[n] \in v[n] /\ n \in 0 .. n
  BY <1>5
<1> QED
  BY <1>1, <1>6 DEF v

-----------------------------------------------------------------------------
(* The simulation's books. *)

\* The orders explain the account between two bars, and the account the
\* reservation of a bar started from; that reservation is the account of
\* execution.
BetweenBars == pc \in {"market", "hooks"} /\ plain => Explains(orders, pf.cash, Held(pf))
WithinBar   == pc = "execution" /\ plain =>
                 /\ snap \in Accounts /\ Explains(orders, snap.cash, Held(snap))
                 /\ pf = Sim!FoldLeft(Sim!ApplyOrder, snap, reqs)
                 /\ ~Sim!Scaled(snap, reqs) /\ Sequenced(reqs, Held(snap))
SimBooks    == SimType /\ BetweenBars /\ WithinBar

\* A bar starts from an explained account.
LEMMA DecideBooks ==
  ASSUME SimBooks, Sim!Decide
  PROVE  BetweenBars' /\ WithinBar'
<1>1. PICK price \in Prices, sides \in SignalLists :
       LET all   == [i \in DOMAIN sides |-> Sim!RequestFor(sides[i], price)]
           asked == Sim!Sublist(all, {i \in DOMAIN all : all[i].qty > 0})
           trips == sides # <<>> /\ Sim!RP!Breaches(Sim!View(pf, price, stop))
           list  == IF trips THEN <<>> ELSE Sim!BuysFirst(asked)
           after == Sim!FoldLeft(Sim!ApplyOrder, pf, list)
       IN  /\ reqs' = list /\ pf' = after /\ snap' = pf
           /\ plain' = (plain /\ ~Sim!Scaled(pf, list))
  BY DEF Sim!Decide
<1>2. pf \in Accounts /\ Held(pf) \in Nat
  BY ReplayAssumption DEF SimBooks, SimType, SimFields, Accounts, Held
<1>3. PICK list :
       /\ reqs' = list /\ pf' = Sim!FoldLeft(Sim!ApplyOrder, pf, list) /\ snap' = pf
       /\ plain' = (plain /\ ~Sim!Scaled(pf, list)) /\ Sequenced(list, Held(pf))
  <2>1. PICK l : l = Sim!BuysFirst(Sim!Sublist([i \in DOMAIN sides |-> Sim!RequestFor(sides[i], price)],
                       {i \in DOMAIN [j \in DOMAIN sides |-> Sim!RequestFor(sides[j], price)] :
                         [j \in DOMAIN sides |-> Sim!RequestFor(sides[j], price)][i].qty > 0}))
    OBVIOUS
  <2>2. Sequenced(l, Held(pf))
    BY <1>2, <2>1, DecidedType
  <2>3. Sequenced(<<>>, Held(pf))
    BY DEF Sequenced
  <2> QED
    BY <1>1, <2>1, <2>2, <2>3
<1>4. pc = "market" /\ pc' = "execution" /\ orders' = orders
  BY DEF Sim!Decide
<1>5. plain' => plain
  BY <1>3
<1>6. plain => Explains(orders, pf.cash, Held(pf))
  BY <1>4 DEF SimBooks, BetweenBars
<1> QED
  BY <1>2, <1>3, <1>4, <1>5, <1>6 DEF BetweenBars, WithinBar

\* Execution ends with an explained account.
LEMMA ExecuteBooks ==
  ASSUME SimBooks, Sim!Execute, engine = "simulation"
  PROVE  BetweenBars' /\ WithinBar'
<1>1. pc = "execution" /\ pc' = "hooks"
  BY DEF Sim!Execute
<1>2. ASSUME plain' PROVE Explains(orders', pf'.cash, Held(pf'))
  <2>1. PICK k : /\ Executed(k, reqs, Before) /\ close \in Prices
                 /\ pf' = k[Len(reqs)].pf /\ orders' = k[Len(reqs)].orders /\ plain' = k[Len(reqs)].plain
    BY ExecuteWalks DEF SimBooks
  <2>2. /\ reqs \in Seq(Requests) /\ Before \in Progress /\ Before.pf = pf /\ Before.orders = orders
        /\ Before.plain = plain
    BY DEF SimBooks, SimType, SimFields, Before, Progress
  <2>3. plain
    BY <1>2, <2>1, <2>2, PlainBefore
  <2>4. /\ snap \in Accounts /\ Explains(orders, snap.cash, Held(snap))
        /\ pf = Sim!FoldLeft(Sim!ApplyOrder, snap, reqs)
        /\ ~Sim!Scaled(snap, reqs) /\ Sequenced(reqs, Held(snap))
    BY <1>1, <2>3 DEF SimBooks, WithinBar
  <2>5. PICK h : Reserved(h, reqs, snap)
    BY <2>2, <2>4, ReservedInTurn
  <2>6. FullyReserved(h, reqs) /\ pf = h[Len(reqs)]
    BY <2>2, <2>4, <2>5, ReservedInFull DEF Reserved
  <2>7. Explains(k[Len(reqs)].orders, k[Len(reqs)].pf.cash, Held(k[Len(reqs)].pf))
    BY <1>2, <2>1, <2>2, <2>4, <2>5, <2>6, ExecutionBooked
  <2> QED
    BY <2>1, <2>7
<1> QED
  BY <1>1, <1>2 DEF BetweenBars, WithinBar

\* The hooks change neither unless a stop is hit, and the end is past both.
LEMMA HooksBooks ==
  ASSUME SimBooks, Sim!Hooks
  PROVE  BetweenBars' /\ WithinBar'
<1>1. pc = "hooks" /\ pc' = "market" /\ plain' = (plain /\ ~Sim!StopHit)
  BY DEF Sim!Hooks
<1>2. ~Sim!StopHit => pf' = pf /\ orders' = orders
  BY DEF Sim!Hooks
<1>3. plain => Explains(orders, pf.cash, Held(pf))
  BY <1>1 DEF SimBooks, BetweenBars
<1> QED
  BY <1>1, <1>2, <1>3 DEF BetweenBars, WithinBar

\* The sale at the end is past both.
LEMMA FinishBooks ==
  ASSUME SimBooks, Sim!Finish
  PROVE  BetweenBars' /\ WithinBar'
<1>1. pc' = "done"
  BY DEF Sim!Finish
<1> QED
  BY <1>1 DEF BetweenBars, WithinBar

\* Every step keeps the books.
LEMMA SimBooksKept ==
  ASSUME SimBooks, [Next]_vars
  PROVE  SimBooks'
<1>1. SimType'
  BY SimTypeKept DEF SimBooks
<1>2. ASSUME engine = "simulation", Sim!Next PROVE BetweenBars' /\ WithinBar'
  BY <1>2, DecideBooks, ExecuteBooks, HooksBooks, FinishBooks DEF Sim!Next
<1>3. ASSUME UNCHANGED simVars PROVE BetweenBars' /\ WithinBar'
  BY <1>3 DEF SimBooks, BetweenBars, WithinBar, simVars
<1>4. BetweenBars' /\ WithinBar'
  BY <1>2, <1>3 DEF Next, Refuse, Replayed, vars
<1> QED
  BY <1>1, <1>4 DEF SimBooks

\* No orders explain the initial balance.
LEMMA SimBooksStart == Init => SimBooks
<1> SUFFICES ASSUME Init PROVE SimBooks
  OBVIOUS
<1>1. /\ pf = [cash |-> InitBalance, pos |-> [s \in Symbols |-> 0], fees |-> 0]
      /\ pc = "market" /\ orders = <<>>
  BY DEF Init, Sim!InitFlow
<1>2. pf.cash = InitBalance /\ Held(pf) = 0
  BY <1>1, ReplayAssumption DEF Held
<1>3. Sim!RunnerBooks(orders) = NoLots
  <2>1. PICK none : none = orders /\ none \in Seq(FilledOrders) /\ Len(none) = 0
    <3>1. <<>> \in Seq(FilledOrders) /\ Len(<<>>) = 0
      OBVIOUS
    <3> QED
      BY <1>1, <3>1
  <2>2. PICK h : RunnerWalked(h, none)
    BY <2>1, RunnerWalks
  <2> QED
    BY <2>1, <2>2 DEF RunnerWalked
<1>4. Earned(NoLots) = 0 /\ Sim!OpenQty(NoLots.lots) = 0
  BY NothingOpen DEF Earned, NoLots
<1>5. Explains(orders, pf.cash, Held(pf))
  BY <1>2, <1>3, <1>4, ReplayAssumption DEF Explains
<1> QED
  BY <1>1, <1>5, SimTypeStarts DEF SimBooks, BetweenBars, WithinBar

\* Whatever the bars, the signals and the risk limits: a simulation that scaled
\* no request down, refused none and hit no stop ends every bar with the cash and
\* the position that its order records explain.
THEOREM OrdersExplain == Spec => []OrdersExplainBooks
<1>1. SimBooks => OrdersExplainBooks
  <2> SUFFICES ASSUME SimBooks, plain, pc = "market"
               PROVE  LET fifo == Sim!RunnerBooks(orders)
                      IN  /\ pf.cash = InitBalance + Sim!Profit(fifo.trades) - Sim!OpenCost(fifo.lots)
                          /\ pf.pos[Symbol] = Sim!OpenQty(fifo.lots)
    BY DEF OrdersExplainBooks, Sim!OrdersExplainBooks
  <2>1. pf.cash = InitBalance + Earned(Sim!RunnerBooks(orders))
        /\ pf.pos[Symbol] = Sim!OpenQty(Sim!RunnerBooks(orders).lots)
    BY DEF SimBooks, BetweenBars, Explains, Held
  <2>2. PICK b \in Matched(RunnerLots) : b = Sim!RunnerBooks(orders)
    BY BooksType DEF SimBooks, SimType, SimFields
  <2>3. b.lots \in Seq(RunnerLots) /\ b.trades \in Seq(ClosedTrades)
    BY DEF Matched
  <2>4. Sim!OpenCost(b.lots) \in Int /\ Sim!Profit(b.trades) \in Int /\ InitBalance \in Int
    BY <2>3, LotsAdd, ProfitAdds, ReplayAssumption
  <2>5. InitBalance + (Sim!Profit(b.trades) - Sim!OpenCost(b.lots)) =
          InitBalance + Sim!Profit(b.trades) - Sim!OpenCost(b.lots)
    BY <2>4
  <2> QED
    BY <2>1, <2>2, <2>5 DEF Earned
<1> QED
  BY <1>1, SimBooksStart, SimBooksKept, PTL DEF Spec
=============================================================================
