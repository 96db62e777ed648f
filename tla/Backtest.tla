------------------------------- MODULE Backtest -------------------------------
(***************************************************************************)
(* BacktestService.run: the bars of one symbol in order.  A bar fills what *)
(* the previous one queued at its open, checks the stop against its low,   *)
(* and queues what the risk pipeline makes of its signals; the last close  *)
(* closes what is left.  One action per turn of the loop.                  *)
(*                                                                         *)
(* Data.  Prices are multiples of FeeScale and SlipScale, so that fees and *)
(* slippage are exact.  The candles, and the signals the strategies and    *)
(* the advisory crew leave of a bar, are chosen bar by bar.  A symbol the  *)
(* dict `positions` does not hold has entry 0.  The Sharpe ratio, time     *)
(* stamps and names are left out.                                          *)
(***************************************************************************)
EXTENDS Metrics, Lists

CONSTANTS
  Symbol,       \* the trading pair
  Risk, StopMethod, AtrMultiplier,
  FeeScale,     \* 1 / config.fee_rate
  SlipScale,    \* 1 / config.slippage_pct
  Warmup,       \* config.min_candles_for_analysis
  BarCounts,    \* lengths of the candle list
  Prices,       \* prices of a candle
  SignalLists   \* sides of the signals of one bar

\* _evaluate_signal builds its pipeline with a fresh breaker and both guards off.
RP == INSTANCE RiskPipeline WITH Symbols <- {Symbol}, AntiAveragingDown <- FALSE,
                                 BreakEvenGuard <- FALSE

VARIABLES
  bars,    \* len(candles)
  bar,     \* candles seen so far
  books,   \* the portfolio, its fees, the completed trades and the entry bar
  pending, \* pending_orders
  curve,   \* equity_curve
  last,    \* the last candle
  result   \* the BacktestResult, or None

Candles == {c \in [open : Prices, low : Prices, close : Prices] : c.low <= c.open /\ c.low <= c.close}

Fee(qty, price) == qty * (price \div FeeScale)
Position(b) == b.pf.pos[Symbol]
InBook(b) == Position(b).entry > 0

InitBooks ==
  /\ books = [pf |-> [cash |-> InitBalance, pos |-> [s \in {Symbol} |-> RP!Nothing],
                      peak |-> InitBalance],
              fees |-> 0, trades |-> <<>>, entryBar |-> None]
  /\ pending = <<>> /\ last = [open |-> 0, low |-> 0, close |-> 0]
-----------------------------------------------------------------------------
(* Fills. *)

WithPeak(pf) == [pf EXCEPT !.peak = Max({@, RP!TotalBalance(pf)})]

\* Mutant of Affordable: the fee of the reduced amount is forgotten.
AffordableWithoutFee(cash, qty, price) ==
  IF cash >= qty * price + Fee(qty, price) THEN qty ELSE cash \div price

\* A BUY the cash does not cover is reduced to what it does.
Affordable(cash, qty, price) ==
  IF cash >= qty * price + Fee(qty, price) THEN qty ELSE cash \div (price + price \div FeeScale)

Opening(pf, qty, price, stop) ==
  [pf EXCEPT !.cash = @ - qty * price - Fee(qty, price), !.pos[Symbol] = RP!Opened(qty, price, stop)]

\* qty enters the position at a price.
Enter(b, qty, price, stop) ==
  [b EXCEPT !.pf = WithPeak(Opening(b.pf, qty, price, stop)), !.fees = @ + Fee(qty, price),
            !.entryBar = bar + 1]

\* Mutant of FillBuy: a BUY into an open position replaces it.
FillBuyAnyway(b, o, open) ==
  LET price == open + open \div SlipScale
      qty   == Affordable(b.pf.cash, o.qty, price)
  IN  IF qty <= 0 THEN b ELSE Enter(b, qty, price, o.stop)

\* A BUY into an open position is skipped.
FillBuy(b, o, open) ==
  LET price == open + open \div SlipScale
      qty   == Affordable(b.pf.cash, o.qty, price)
  IN  IF InBook(b) \/ qty <= 0 THEN b ELSE Enter(b, qty, price, o.stop)

\* A completed trade of qty at price: the entry fee is charged to it again.
TradeOf(b, qty, price, reason) ==
  LET entry == Position(b).entry
      fee   == Fee(qty, price) + Fee(qty, entry)
  IN  [entry |-> entry, exit |-> price, qty |-> qty, reason |-> reason, entryBar |-> b.entryBar,
       exitBar |-> bar + 1, fee |-> fee, pnl |-> qty * (price - entry) - fee]

\* qty leaves the position at a price; only an exact match closes it.
Leave(b, qty, price, reason) ==
  LET left == Position(b).qty - qty
      pos  == IF left = 0 THEN RP!Nothing ELSE [Position(b) EXCEPT !.qty = left]
  IN  [pf |-> WithPeak([b.pf EXCEPT !.cash = @ + qty * price - Fee(qty, price), !.pos[Symbol] = pos]),
       fees |-> b.fees + Fee(qty, price),
       trades |-> Append(b.trades, TradeOf(b, qty, price, reason)),
       entryBar |-> IF left = 0 THEN None ELSE b.entryBar]

\* The amount was capped when the order was queued, not when it fills.
FillSell(b, o, open) ==
  IF InBook(b) THEN Leave(b, o.qty, open - open \div SlipScale, "sell_signal") ELSE b

\* _fill_at_open.
FillAtOpen(b, o, open) ==
  IF o.side = "buy" THEN FillBuy(b, o, open) ELSE FillSell(b, o, open)

\* The queued orders, one after the other.
Filled(b, queue, open) == FoldLeft(LAMBDA done, o : FillAtOpen(done, o, open), b, queue)

\* _close_position: all of it.
Close(b, price, reason) == Leave(b, Position(b).qty, price, reason)

\* _check_stop_losses: filled at the stop itself.
CheckStop(b, low) ==
  IF InBook(b) /\ Position(b).stop # None /\ low <= Position(b).stop
    THEN Close(b, Position(b).stop, "stop_loss") ELSE b
-----------------------------------------------------------------------------
(* Signals. *)

Repriced(b, price) == IF InBook(b) THEN [b EXCEPT !.pf.pos[Symbol].price = price] ELSE b

\* _evaluate_signal: every signal of a bar sees the portfolio of before it.
OrderOf(b, side, price) ==
  LET sig == [sym |-> Symbol, side |-> side, conf |-> 100, price |-> price, stop |-> None]
      req == RP!RequestOf(b.pf, sig, None, None)
  IN  [side |-> side, stop |-> req.stop, qty |-> IF RP!Breaches(b.pf) THEN 0 ELSE req.qty]

Queued(b, sides, price) ==
  LET asked == [i \in DOMAIN sides |-> OrderOf(b, sides[i], price)]
  IN  Sublist(asked, {i \in DOMAIN asked : asked[i].qty > 0})

\* peak_equity: the highest balance recorded before this bar.
PeakEquity == Max({InitBalance} \cup {curve[i].balance : i \in DOMAIN curve})

\* The bar number is that of the candle, counted from 1.  Before the warm-up,
\* or when the analysis raises, the bar only fills.
Bar(candle) ==
  /\ result = None /\ bar < bars
  /\ LET filled == CheckStop(Filled(books, pending, candle.open), candle.low)
     IN  \/ /\ books' = filled /\ pending' = <<>>
         \/ /\ bar + 1 >= Warmup
            /\ books' = Repriced(filled, candle.close)
            /\ \E sides \in SignalLists : pending' = Queued(books', sides, candle.close)
  /\ bar' = bar + 1 /\ last' = candle
  /\ curve' = Append(curve, EquityPoint(RP!TotalBalance(books'.pf), PeakEquity))
  /\ UNCHANGED <<bars, result>>
-----------------------------------------------------------------------------
(* The result. *)

\* Mutant of Finish: the metrics are computed before the forced close.
FinishBeforeClose ==
  /\ result = None /\ bar = bars
  /\ LET closed == IF InBook(books) THEN Close(books, last.close, "end_of_data") ELSE books
     IN  /\ books' = closed
         /\ result' = [final_balance |-> RP!TotalBalance(closed.pf), metrics |-> ComputeMetrics(books.trades, curve)]
  /\ UNCHANGED <<bars, bar, pending, curve, last>>

\* What is left is closed at the last close.
Finish ==
  /\ result = None /\ bar = bars
  /\ LET closed == IF InBook(books) THEN Close(books, last.close, "end_of_data") ELSE books
     IN  /\ books' = closed
         /\ result' = [final_balance |-> RP!TotalBalance(closed.pf), metrics |-> ComputeMetrics(closed.trades, curve)]
  /\ UNCHANGED <<bars, bar, pending, curve, last>>

Next == Finish \/ \E candle \in Candles : Bar(candle)
-----------------------------------------------------------------------------
(* Properties. *)

\* A BUY is reduced before the cash would go below 0, and a position is in the
\* dict exactly while its entry bar is.
TypeOK ==
  /\ books.pf.cash \in Nat /\ books.fees \in Nat
  /\ InBook(books) <=> books.entryBar # None
  /\ \A i \in DOMAIN pending : pending[i].qty > 0
  /\ Len(pending) > 0 => bar >= Warmup

\* The trade list explains the balance: the cash is the initial balance plus the
\* profit of the completed trades, less what the open position cost with its
\* fee; and the fees of the trades are the fees paid.  It survives partial
\* sales, reduced buys and two SELLs of one position.
TradesExplainCash ==
  LET pos == Position(books)
      fee == Fee(pos.qty, pos.entry)
  IN  /\ books.pf.cash + pos.qty * pos.entry + fee = InitBalance + Profit(books.trades)
      /\ books.fees = FeesOf(books.trades) + fee

\* The result is of what was traded, also when the last position was closed
\* after the last point of the curve.
ResultExplained ==
  result # None =>
    /\ result.final_balance = InitBalance + Profit(books.trades)
    /\ result.metrics.winning + result.metrics.losing = Len(books.trades)
    /\ result.metrics.total_fees = books.fees

\* "amount: float = Field(gt=0)": a position is long.
NeverShort == Position(books).qty >= 0
=============================================================================
