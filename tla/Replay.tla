-------------------------------- MODULE Replay --------------------------------
(***************************************************************************)
(* POST /api/backtest/run: the stored candles go through one of the two    *)
(* engines, BacktestService or, with simulation_mode, SimulationRunner.    *)
(* Each refuses a list of candles too short for it, and no candles at all  *)
(* are refused before either is built.  The router builds the crew never,  *)
(* so neither engine is advised.                                           *)
(***************************************************************************)
EXTENDS Integers, Sequences, Optional

CONSTANTS Symbols, Symbol, Risk, StopMethod, AtrMultiplier, AntiAveragingDown, InitBalance,
          FeeScale, SlipScale, Spread, Warmup, BarCounts, Prices, SignalLists

\* BacktestRunConfig allows a fee of up to 0.1 and slippage of up to 0.05.
ASSUME ReplayAssumption ==
  /\ InitBalance \in Nat \ {0}
  /\ FeeScale \in Nat /\ FeeScale >= 10 /\ SlipScale \in Nat /\ SlipScale >= 20
  /\ Spread \in Nat /\ Warmup \in Nat /\ BarCounts \subseteq Nat /\ Prices \subseteq Nat \ {0}
  /\ Symbol \in Symbols

\* The code's prices and fees are fractions: here a price is counted in a unit
\* of which the slippage and the fee of one amount are whole.
ASSUME UnitAssumption ==
  \A p \in Prices : p % FeeScale = 0 /\ (p \div SlipScale) % FeeScale = 0

VARIABLES
  engine, \* req.simulation_mode: "fast" or "simulation"
  refused,\* the request failed
  bars, bar, curve, result,                          \* of either engine
  books, pending, last,                              \* of BacktestService
  close, pf, mark, stop, peak, tripped, pc, reqs, snap, orders, plain  \* of SimulationRunner

Fast == INSTANCE Backtest
Sim  == INSTANCE Simulation

\* Every order is sized by a stop that is not rounded to the price itself.
ASSUME RiskLimitsAssumption ==
  /\ Risk \in Fast!RP!RiskParams
  /\ SignalLists \subseteq Seq({"buy", "sell"})
  /\ \A p \in Prices : p * Risk.stop_loss >= 100

fastVars == <<books, pending, last>>
simVars  == <<close, pf, mark, stop, peak, tripped, pc, reqs, snap, orders, plain>>
vars     == <<engine, refused, bars, bar, curve, result, fastVars, simVars>>

Init ==
  /\ engine \in {"fast", "simulation"} /\ refused = FALSE
  /\ Fast!InitBooks /\ Sim!InitFlow
  /\ bars \in BarCounts /\ bar = (IF engine = "fast" THEN 0 ELSE Warmup)
  /\ curve = <<>> /\ result = None

TooShort == bars < (IF engine = "fast" THEN Warmup ELSE Warmup + 1) \/ bars = 0

Refuse ==
  /\ TooShort /\ ~refused
  /\ refused' = TRUE
  /\ UNCHANGED <<engine, bars, bar, curve, result, fastVars, simVars>>

Replayed ==
  /\ ~TooShort
  /\ \/ engine = "fast" /\ Fast!Next /\ UNCHANGED simVars
     \/ engine = "simulation" /\ Sim!Next /\ UNCHANGED fastVars
  /\ UNCHANGED <<engine, refused>>

Next == Refuse \/ Replayed

Spec == Init /\ [][Next]_vars
-----------------------------------------------------------------------------
(* Properties: those of the engines. *)

\* BacktestService never spends more than its cash, and keeps an entry bar for
\* exactly the position it holds.
BacktestTypeOK == Fast!TypeOK

\* The trades of BacktestService explain its cash and its fees.
TradesExplainCash == Fast!TradesExplainCash

\* So do they explain the balance and the metrics it reports.
ResultExplained == engine = "fast" => Fast!ResultExplained

\* The orders of a simulation explain its cash and its position.
OrdersExplainBooks == Sim!OrdersExplainBooks

\* The simulation and the dashboard match lots alike.
TradesAgree == Sim!TradesAgree

\* "amount: float = Field(gt=0)": a backtest's position is never negative.
NeverShort == Fast!NeverShort
=============================================================================
