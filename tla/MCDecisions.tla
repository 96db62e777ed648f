----------------------------- MODULE MCDecisions -----------------------------
(***************************************************************************)
(* Instances of Decisions.  Prices are around 100 and the cash buys about  *)
(* ten units.                                                              *)
(***************************************************************************)
EXTENDS Decisions

MCRisk == [max_position |-> 60, max_exposure |-> 80, max_drawdown |-> 15, stop_loss |-> 10,
           per_trade |-> 3, min_confidence |-> 50, min_profit |-> 0]

BtcEth == <<"btc", "eth">>
FourStrategies == <<"ema_crossover", "bollinger_bands", "macd_crossover", "rsi_range">>

Calm == [price |-> 100, fast |-> 100, slow |-> 100, hist |-> 0, rsi |-> None, low |-> 80,
         high |-> 120, lower |-> 90, upper |-> 110, atr |-> 2, broken |-> {}]

\* One strategy buys; two buy and two sell; three sell; a crash, in which one
\* raises, two buy and one sells.
MCAnalyses == {
  [Calm EXCEPT !.price = 91, !.fast = 90, !.slow = 86, !.lower = 70],
  [Calm EXCEPT !.price = 110, !.fast = 105, !.slow = 95, !.hist = 2, !.rsi = 80, !.low = 60,
               !.high = 115, !.atr = 8],
  [Calm EXCEPT !.fast = 104, !.slow = 108, !.hist = -1, !.upper = 101, !.lower = 81],
  [Calm EXCEPT !.price = 70, !.fast = 75, !.slow = 90, !.hist = -5, !.rsi = 20, !.low = 68,
               !.lower = 66, !.broken = {"ema_crossover"}]}

\* One strategy buys, at two prices.
MCRising == {[Calm EXCEPT !.price = p, !.fast = 90, !.slow = 86, !.lower = 70, !.upper = 140] : p \in {91, 108}}

Order(action, sym, param) == [action |-> action, sym |-> sym, param |-> param]

MCAnswers == {
  [form |-> "text", items |-> <<>>],
  [form |-> "list", items |-> <<Order("hedge", "btc", None), Order("veto_signal", "btc", None)>>],
  [form |-> "object", items |-> <<Order("sit_out", None, None)>>],
  [form |-> "object", items |-> <<Order("tighten_stop_loss", "btc", 50),
                                  Order("adjust_confidence", "eth", 150)>>],
  [form |-> "object", items |-> <<Order("adjust_confidence", "eth", 40),
                                  Order("reduce_position_size", "btc", 50)>>]}
=============================================================================
