------------------------------ MODULE Simulation ------------------------------
(***************************************************************************)
(* SimulationRunner.run: the real TradingFlow, bar after bar, against      *)
(* SimulatedExchangeService, which fills every order at once at the close  *)
(* of the bar plus or minus slippage.  A bar is three actions: the         *)
(* decisions and the reservation, the execution, the hooks and the record  *)
(* of the bar.  Nothing runs concurrently and nothing raises here; what    *)
(* execution does to the portfolio is Portfolio's.                         *)
(*                                                                         *)
(* Data as in Backtest.  The signals of a bar are chosen; entry prices,    *)
(* realised profit and the advisory crew are left out.                     *)
(***************************************************************************)
EXTENDS Portfolio, Fifo, Metrics

CONSTANTS
  Symbol, Risk, StopMethod, AtrMultiplier, AntiAveragingDown,
  SlipScale,    \* 1 / config.slippage_pct
  Spread,       \* the synthetic half spread of the ticker
  Warmup, BarCounts, Prices, SignalLists

RP == INSTANCE RiskPipeline WITH BreakEvenGuard <- FALSE

VARIABLES
  bars,   \* len(candles)
  bar,    \* the bar the simulated clock is at
  close,  \* close of that bar's candle
  pf,     \* the Portfolio of module Portfolio
  mark,   \* current_price of the position
  stop,   \* its stop_loss_price
  peak,   \* peak_balance
  tripped,\* circuit_breaker.is_tripped
  pc,     \* what the flow of this bar does next
  reqs,   \* state.order_requests
  snap,   \* _portfolio_snapshot
  orders, \* filled orders of the orders table, oldest first
  plain,  \* history: no request was scaled down or refused, no stop was hit
  curve,  \* equity_curve
  result  \* the BacktestResult, or None

InitFlow ==
  /\ close = 0
  /\ pf = [cash |-> InitBalance, pos |-> [s \in Symbols |-> 0], fees |-> 0]
  /\ mark = 0 /\ stop = None /\ peak = InitBalance /\ tripped = FALSE
  /\ pc = "market" /\ reqs = <<>> /\ snap = pf /\ orders = <<>> /\ plain = TRUE
-----------------------------------------------------------------------------
(* The portfolio as the risk pipeline sees it. *)

View(p, price, level) ==
  [cash |-> p.cash, peak |-> peak,
   pos |-> [s \in Symbols |-> [qty |-> p.pos[s], entry |-> price, stop |-> level, price |-> price]]]

Total(p, price) == RP!TotalBalance(View(p, price, None))

RequestFor(side, price) ==
  RP!RequestOf(View(pf, price, stop),
               [sym |-> Symbol, side |-> side, conf |-> 100, price |-> price, stop |-> None], None, None)

\* BUYs first, then the largest SELL; the pipeline capped it already.
BuysFirst(list) ==
  LET sells == {i \in DOMAIN list : list[i].side = "sell"}
      buys  == Sublist(list, {i \in DOMAIN list : list[i].side = "buy"})
  IN  IF sells = {} THEN buys
      ELSE Append(buys, list[CHOOSE i \in sells : \A j \in sells : list[j].qty <= list[i].qty])

\* Scaled(p, list): some BUY of the list is reserved below its notional.
Scaled(p, list) ==
  \E i \in DOMAIN list : list[i].side = "buy" /\
    Notional(list[i].qty, list[i].price) > FoldLeft(ApplyOrder, p, SubSeq(list, 1, i - 1)).cash

\* advance_bar, market data, signals, the risk pipeline and the reservation.
Decide ==
  /\ pc = "market" /\ bar < bars
  /\ \E price \in Prices : \E sides \in SignalLists :
       LET all   == [i \in DOMAIN sides |-> RequestFor(sides[i], price)]
           asked == Sublist(all, {i \in DOMAIN all : all[i].qty > 0})
           trips == sides # <<>> /\ RP!Breaches(View(pf, price, stop))
           list  == IF trips THEN <<>> ELSE BuysFirst(asked)
           after == FoldLeft(ApplyOrder, pf, list)
       IN  /\ close' = price /\ mark' = price
           /\ tripped' = (tripped \/ trips)
           /\ reqs' = list /\ snap' = pf /\ pf' = after
           /\ peak' = IF list = <<>> THEN peak ELSE Max({peak, Total(after, price)})
           /\ stop' = IF pf.pos[Symbol] = 0 /\ list # <<>> THEN list[1].stop ELSE stop
           /\ plain' = (plain /\ ~Scaled(pf, list))
  /\ bar' = bar + 1 /\ pc' = "execution"
  /\ UNCHANGED <<bars, orders, curve, result>>
-----------------------------------------------------------------------------
(* SimulatedExchangeService.create_order and what execution makes of it. *)

FillPrice(side) ==
  IF side = "buy" THEN close + close \div SlipScale ELSE close - close \div SlipScale

OrderRecord(r) ==
  [side |-> r.side, qty |-> r.qty, price |-> FillPrice(r.side), fee |-> Fee(r.qty, FillPrice(r.side))]

\* A BUY is validated at the ask against the cash its reservation left.
Accepted(p, r) ==
  IF r.side = "buy" THEN Notional(r.qty, close + Spread) <= p.cash ELSE r.qty <= snap.pos[Symbol]

\* Mutant of Filled: the fee is booked but not paid.
FilledForFree(p, r, base) ==
  ReconcileFill(p, [r EXCEPT !.price = base], r.qty, FillPrice(r.side), 0)

\* base is the price the reservation is undone at.
Filled(p, r, base) ==
  ReconcileFill(p, [r EXCEPT !.price = base], r.qty, FillPrice(r.side), Fee(r.qty, FillPrice(r.side)))

\* One request: dead-lettered with its reservation, or filled at once; a filled
\* BUY sets mark and stop.
Processed(acc, r) ==
  IF ~Accepted(acc.pf, r) THEN [acc EXCEPT !.plain = FALSE]
  ELSE [pf |-> Filled(acc.pf, r, r.price), orders |-> Append(acc.orders, OrderRecord(r)),
        mark |-> IF r.side = "buy" THEN FillPrice("buy") ELSE acc.mark,
        stop |-> IF r.side = "buy" THEN r.stop ELSE acc.stop, plain |-> acc.plain]

Execute ==
  /\ pc = "execution"
  /\ LET done == FoldLeft(Processed, [pf |-> pf, orders |-> orders, mark |-> mark, stop |-> stop,
                                      plain |-> plain], reqs)
     IN  /\ pf' = done.pf /\ orders' = done.orders /\ mark' = done.mark /\ stop' = done.stop
         /\ plain' = done.plain
         /\ tripped' = (tripped \/ (done.orders # orders /\ RP!Breaches(View(done.pf, done.mark, None))))
  /\ pc' = "hooks"
  /\ UNCHANGED <<bars, bar, close, peak, reqs, snap, curve, result>>
-----------------------------------------------------------------------------
(* The end of a bar and of the run. *)

\* A SELL of everything held, at a price, or at none: nothing was reserved for
\* it, and undoing the reservation takes back what was never credited.
SellAll == [sym |-> Symbol, side |-> "sell", qty |-> pf.pos[Symbol], price |-> close, stop |-> None]

StopHit == pf.pos[Symbol] > 0 /\ stop # None /\ close <= stop

\* _check_stop_losses, then the equity point at the close.
Hooks ==
  /\ pc = "hooks"
  /\ pf' = IF StopHit THEN Filled(pf, SellAll, close) ELSE pf
  /\ orders' = IF StopHit THEN Append(orders, OrderRecord(SellAll)) ELSE orders
  /\ plain' = (plain /\ ~StopHit)
  /\ mark' = close
  /\ curve' = Append(curve, EquityPoint(Total(pf', close), Max({peak, Total(pf', close)})))
  /\ pc' = "market"
  /\ UNCHANGED <<bars, bar, close, stop, peak, tripped, reqs, snap, result>>

\* After the last bar, or one that tripped the breaker, what is held is sold
\* without a price and the result is built.
Finish ==
  /\ pc = "market" /\ curve # <<>>
  /\ bar = bars \/ tripped
  /\ pf' = IF pf.pos[Symbol] > 0 THEN Filled(pf, SellAll, FillPrice("sell")) ELSE pf
  /\ orders' = IF pf.pos[Symbol] > 0 THEN Append(orders, OrderRecord(SellAll)) ELSE orders
  /\ result' = [final_balance |-> FinalOf(curve), metrics |-> ComputeMetrics(RunnerTrades(orders'), curve)]
  /\ pc' = "done"
  /\ UNCHANGED <<bars, bar, close, mark, stop, peak, tripped, reqs, snap, plain, curve>>

Next == (~tripped /\ Decide) \/ Execute \/ Hooks \/ Finish
-----------------------------------------------------------------------------
(* Properties. *)

\* A simulation whose requests were all filled and whose stop was never hit ends
\* every bar with books that its order records explain: the cash is the initial
\* balance plus the profit of the closed trades less the cost of the lots still
\* open, and the position is those lots.  Reservations undone and replaced by
\* fills leave nothing behind.
OrdersExplainBooks ==
  plain /\ pc = "market" =>
    LET fifo == RunnerBooks(orders)
    IN  /\ pf.cash = InitBalance + Profit(fifo.trades) - OpenCost(fifo.lots)
        /\ pf.pos[Symbol] = OpenQty(fifo.lots)

\* The closed trades of the simulation's result are those the dashboard would
\* show for the same orders: the two matchings split lots and fees alike, also
\* when more is sold than was bought.
TradesAgree == RunnerTrades(orders) = RouterTrades(orders)
=============================================================================
