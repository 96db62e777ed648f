-------------------------------- MODULE Fifo --------------------------------
(***************************************************************************)
(* Closed trades from the filled orders, first bought first sold.  The     *)
(* code has the matching twice: SimulationRunner._build_trades consumes a  *)
(* lot by lowering its amount and its fee, the portfolio router's          *)
(* _build_closed_trades by lowering `remaining` and charging a share of    *)
(* the whole fee.  Pure operators on a list of filled orders               *)
(*   [side, qty, price, fee]                                               *)
(* of one symbol, oldest first.  Order times, strategy names and the exit  *)
(* reason are left out, with the bars the simulation looks up from the     *)
(* times.                                                                  *)
(***************************************************************************)
EXTENDS Integers, SequencesExt, Lists

\* fee * part / whole, the share both copies charge.
Share(fee, part, whole) == IF whole = 0 THEN 0 ELSE (fee * part) \div whole

ClosedTrade(order, lot, matched, entryFee) ==
  LET fee == entryFee + Share(order.fee, matched, order.qty)
  IN  [entry |-> lot.price, exit |-> order.price, qty |-> matched, fee |-> fee,
       pnl |-> (order.price - lot.price) * matched - fee]

\* A SELL meets the lots in order: acc holds what is left to sell, the lots
\* kept, and the trades.  Bought(order) is the lot a BUY leaves, Match(acc, lot)
\* one turn of the while loop.
Ledgered(orders, Bought(_), Match(_, _, _)) ==
  LET Sold(acc, o) ==
        LET turn == FoldLeft(LAMBDA a, lot : Match(o, a, lot),
                             [left |-> o.qty, lots |-> <<>>, trades |-> acc.trades], acc.lots)
        IN  [lots |-> turn.lots, trades |-> turn.trades]
      Step(acc, o) == IF o.side = "buy" THEN [acc EXCEPT !.lots = Append(@, Bought(o))]
                                        ELSE Sold(acc, o)
  IN  FoldLeft(Step, [lots |-> <<>>, trades |-> <<>>], orders)

Untouched(acc, lot) == [acc EXCEPT !.lots = Append(@, lot)]
-----------------------------------------------------------------------------
\* Mutant of RunnerMatch: the residual lot keeps its whole fee.
RunnerMatchFeeKept(order, acc, lot) ==
  LET matched == IF lot.qty <= acc.left THEN lot.qty ELSE acc.left
      fee     == Share(lot.fee, matched, lot.qty)
  IN  IF acc.left = 0 THEN Untouched(acc, lot)
      ELSE [left   |-> acc.left - matched,
            lots   |-> IF matched = lot.qty THEN acc.lots
                       ELSE Append(acc.lots, [lot EXCEPT !.qty = @ - matched]),
            trades |-> Append(acc.trades, ClosedTrade(order, lot, matched, fee))]

\* SimulationRunner: the residual lot carries the residual amount and fee.
RunnerMatch(order, acc, lot) ==
  LET matched == IF lot.qty <= acc.left THEN lot.qty ELSE acc.left
      fee     == Share(lot.fee, matched, lot.qty)
  IN  IF acc.left = 0 THEN Untouched(acc, lot)
      ELSE [left   |-> acc.left - matched,
            lots   |-> IF matched = lot.qty THEN acc.lots
                       ELSE Append(acc.lots, [lot EXCEPT !.qty = @ - matched, !.fee = @ - fee]),
            trades |-> Append(acc.trades, ClosedTrade(order, lot, matched, fee))]

RunnerLot(order) == [qty |-> order.qty, price |-> order.price, fee |-> order.fee]

\* Mutant of RouterMatch: the share is charged on what remains of the lot.
RouterMatchOfRemaining(order, acc, lot) ==
  LET matched == IF lot.remaining <= acc.left THEN lot.remaining ELSE acc.left
  IN  IF acc.left = 0 THEN Untouched(acc, lot)
      ELSE [left   |-> acc.left - matched,
            lots   |-> IF matched = lot.remaining THEN acc.lots
                       ELSE Append(acc.lots, [lot EXCEPT !.remaining = @ - matched]),
            trades |-> Append(acc.trades, ClosedTrade(order, lot, matched,
                                                      Share(lot.fee, matched, lot.remaining)))]

\* The router: the lot keeps its amount and its fee.
RouterMatch(order, acc, lot) ==
  LET matched == IF lot.remaining <= acc.left THEN lot.remaining ELSE acc.left
  IN  IF acc.left = 0 THEN Untouched(acc, lot)
      ELSE [left   |-> acc.left - matched,
            lots   |-> IF matched = lot.remaining THEN acc.lots
                       ELSE Append(acc.lots, [lot EXCEPT !.remaining = @ - matched]),
            trades |-> Append(acc.trades, ClosedTrade(order, lot, matched,
                                                      Share(lot.fee, matched, lot.qty)))]

RouterLot(order) ==
  [qty |-> order.qty, price |-> order.price, fee |-> order.fee, remaining |-> order.qty]
-----------------------------------------------------------------------------
RunnerBooks(orders) == Ledgered(orders, RunnerLot, RunnerMatch)

\* _build_trades.
RunnerTrades(orders) == RunnerBooks(orders).trades

\* _build_closed_trades, before it sorts them and cuts at the limit; an order
\* that filled nothing or has no price is not read.
RouterTrades(orders) ==
  Ledgered(Sublist(orders, {i \in DOMAIN orders : orders[i].qty > 0 /\ orders[i].price > 0}),
           RouterLot, RouterMatch).trades

\* What the bought and unsold lots cost, fees included.
OpenCost(lots) == SumFunction([i \in DOMAIN lots |-> lots[i].qty * lots[i].price + lots[i].fee])
OpenQty(lots)  == SumFunction([i \in DOMAIN lots |-> lots[i].qty])
=============================================================================
