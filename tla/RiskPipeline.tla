----------------------------- MODULE RiskPipeline -----------------------------
(***************************************************************************)
(* RiskPipeline.evaluate and the checks it chains: the circuit breaker,    *)
(* the confidence filter, the sell guard, the stop level, the position     *)
(* size and the two portfolio limits.  Pure operators: a signal and a      *)
(* portfolio in, an order request out.                                     *)
(*                                                                         *)
(* Data.  Money, prices and amounts are integers, percentages and          *)
(* confidences whole per cents; an amount is a value divided by a price,   *)
(* rounded down.  A symbol the portfolio does not hold has quantity 0.     *)
(* Reasons and the lists of passed and failed checks are left out, as is   *)
(* take_profit_price, which no check reads.                                *)
(***************************************************************************)
EXTENDS Integers, FiniteSetsExt, Functions, Optional

CONSTANTS
  Symbols,          \* trading pairs
  Risk,             \* RiskParams
  StopMethod,       \* stop_loss_method: "fixed" or "atr"
  AtrMultiplier,    \* atr_stop_multiplier
  AntiAveragingDown,\* anti_averaging_down
  BreakEvenGuard    \* sell_guard_mode is break_even

RiskParams == [max_position : 1 .. 100, max_exposure : 1 .. 100, max_drawdown : 1 .. 100,
               stop_loss : 1 .. 50, per_trade : 1 .. 100, min_confidence : 0 .. 100,
               min_profit : 0 .. 100]

ASSUME RiskAssumption ==
  /\ Risk \in RiskParams
  /\ StopMethod \in {"fixed", "atr"} /\ AtrMultiplier \in Nat \ {0}
  /\ AntiAveragingDown \in BOOLEAN /\ BreakEvenGuard \in BOOLEAN

Nothing == [qty |-> 0, entry |-> 0, stop |-> None, price |-> 0]

Opened(qty, entry, stop) == [qty |-> qty, entry |-> entry, stop |-> stop, price |-> entry]

Holds(pf, s) == pf.pos[s].qty > 0

\* Portfolio.total_market_value, total_balance and drawdown_pct.
MarketValue(pf) == SumFunction([s \in Symbols |-> pf.pos[s].qty * pf.pos[s].price])
TotalBalance(pf) == MarketValue(pf) + pf.cash
Drawdown(pf) == IF pf.peak = 0 THEN 0 ELSE ((pf.peak - TotalBalance(pf)) * 100) \div pf.peak

\* CircuitBreaker.check, the breaker not being tripped already.
Breaches(pf) == Drawdown(pf) >= Risk.max_drawdown
-----------------------------------------------------------------------------
(* The stop level. *)

\* fixed_percentage_stop and atr_based_stop: below the entry for a BUY, above
\* it for a SELL.
StopAt(sig, distance) ==
  IF sig.side = "buy" THEN sig.price - distance ELSE sig.price + distance

FixedStop(sig) == StopAt(sig, (sig.price * Risk.stop_loss) \div 100)
AtrStop(sig, atr) == StopAt(sig, atr * AtrMultiplier)

\* A stop the advisory crew put on the signal comes first.
StopLoss(sig, atr) ==
  IF sig.stop # None THEN sig.stop
  ELSE IF StopMethod = "atr" /\ atr # None /\ atr > 0 THEN AtrStop(sig, atr)
  ELSE FixedStop(sig)
-----------------------------------------------------------------------------
(* calculate_position_size, in quote currency. *)

Magnitude(x) == IF x < 0 THEN -x ELSE x

\* A stop at the entry price counts as one at the default distance.
StopDistance(entry, stop) ==
  IF stop = entry THEN (entry * Risk.stop_loss) \div 100 ELSE Magnitude(entry - stop)

RiskBasedSize(cash, entry, stop) ==
  (cash * Risk.per_trade * entry) \div (100 * StopDistance(entry, stop))

PositionSize(cash, entry, stop) ==
  IF cash <= 0 THEN 0
  ELSE Min({RiskBasedSize(cash, entry, stop), (cash * Risk.max_position) \div 100, cash})
-----------------------------------------------------------------------------
(* The limits and guards. *)

\* Mutant of WithinExposure: the proposed value is not counted.
WithinExposureNow(pf, value) ==
  TotalBalance(pf) > 0 /\ MarketValue(pf) * 100 <= Risk.max_exposure * TotalBalance(pf)

\* check_exposure_limit.
WithinExposure(pf, value) ==
  /\ TotalBalance(pf) > 0
  /\ (MarketValue(pf) + value) * 100 <= Risk.max_exposure * TotalBalance(pf)

\* check_concentration_limit.
WithinConcentration(pf, s, value) ==
  /\ TotalBalance(pf) > 0
  /\ (pf.pos[s].qty * pf.pos[s].price + value) * 100 <= Risk.max_position * TotalBalance(pf)

\* BreakEvenSellGuard.evaluate; the guard is AllowAllSellGuard otherwise.
SellAllowed(sig, breakEven) ==
  \/ ~BreakEvenGuard \/ breakEven = None
  \/ sig.price * 100 >= breakEven * (100 + Risk.min_profit)

\* Mutant of AveragesDown: the guard is off whatever the settings say.
AveragesDownNever(pf, sig) == FALSE

\* The anti-averaging-down guard refuses a BUY at or below the held stop.
AveragesDown(pf, sig) ==
  /\ AntiAveragingDown /\ Holds(pf, sig.sym)
  /\ pf.pos[sig.sym].stop # None /\ sig.price <= pf.pos[sig.sym].stop
-----------------------------------------------------------------------------
(* The verdicts.  An approved amount of 0 is a rejected signal. *)

\* _evaluate_sell: a SELL is sized by the free cash like a BUY, capped at what
\* is held; without free cash it sells everything.
SellAmount(pf, sig, atr, breakEven) ==
  LET value == PositionSize(pf.cash, sig.price, StopLoss(sig, atr))
      held  == pf.pos[sig.sym].qty
  IN  IF ~Holds(pf, sig.sym) \/ ~SellAllowed(sig, breakEven) THEN 0
      ELSE IF value > 0 THEN Min({value \div sig.price, held}) ELSE held

\* _evaluate_buy: both limits are checked before the signal is rejected.
BuyAmount(pf, sig, atr) ==
  LET value == PositionSize(pf.cash, sig.price, StopLoss(sig, atr))
  IN  IF \/ AveragesDown(pf, sig) \/ value <= 0
         \/ ~WithinExposure(pf, value) \/ ~WithinConcentration(pf, sig.sym, value)
        THEN 0 ELSE value \div sig.price

ApprovedAmount(pf, sig, atr, breakEven) ==
  IF sig.conf < Risk.min_confidence THEN 0
  ELSE IF sig.side = "sell" THEN SellAmount(pf, sig, atr, breakEven)
  ELSE BuyAmount(pf, sig, atr)

\* evaluate and to_order_request: the request of a signal the breaker let pass;
\* quantity 0 is no request.
RequestOf(pf, sig, atr, breakEven) ==
  [sym |-> sig.sym, side |-> sig.side, price |-> sig.price, stop |-> StopLoss(sig, atr),
   qty |-> ApprovedAmount(pf, sig, atr, breakEven)]
=============================================================================
