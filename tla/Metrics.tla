------------------------------- MODULE Metrics -------------------------------
(***************************************************************************)
(* The figures of a backtest result, from its trades and its equity curve. *)
(* BacktestService._compute_metrics and the module function the simulation *)
(* runner calls are two copies of one text.  Percentages are whole; the    *)
(* Sharpe ratio is left out.                                               *)
(***************************************************************************)
EXTENDS Integers, FiniteSets, SequencesExt, FiniteSetsExt, Functions, Optional

CONSTANT InitBalance  \* config.initial_balance

\* One point of the equity curve, measured from a peak; never below 0.
EquityPoint(total, peak) ==
  [balance |-> total, drawdown |-> Max({0, ((peak - total) * 100) \div peak})]

Profits(trades) == [i \in DOMAIN trades |-> trades[i].pnl]
Profit(trades) == SumFunction(Profits(trades))
FeesOf(trades) == SumFunction([i \in DOMAIN trades |-> trades[i].fee])

\* What the run reports as the end of its curve.
FinalOf(points) == IF points = <<>> THEN InitBalance ELSE Last(points).balance

\* _compute_metrics: a trade without profit is a losing one; a run without
\* losses has an unbounded profit factor, written None.
ComputeMetrics(trades, points) ==
  LET wins   == {i \in DOMAIN trades : trades[i].pnl > 0}
      losses == {i \in DOMAIN trades : trades[i].pnl <= 0}
      loss   == SumFunctionOnSet(Profits(trades), losses)
  IN  [total_return |-> ((FinalOf(points) - InitBalance) * 100) \div InitBalance,
       max_drawdown |-> Max({0} \cup {points[i].drawdown : i \in DOMAIN points}),
       winning |-> Cardinality(wins), losing |-> Cardinality(losses),
       profit_factor |-> IF loss < 0 THEN (SumFunctionOnSet(Profits(trades), wins) * 100) \div (-loss) ELSE None,
       total_fees |-> FeesOf(trades)]
=============================================================================
