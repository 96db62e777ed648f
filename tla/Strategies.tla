------------------------------ MODULE Strategies ------------------------------
(***************************************************************************)
(* The four strategies, the StrategyRunner that turns their opinions of a  *)
(* symbol into signals (one by one, or by an ensemble vote), the           *)
(* CompositeStrategy, and the UncertaintyScorer: pure operators on a       *)
(* MarketAnalysis.                                                         *)
(*                                                                         *)
(* Data.  Prices and indicators are integers, confidences and the          *)
(* uncertainty score whole per cents, rounded down.  An analysis is a      *)
(* record with the price and the indicators the strategies read (None when *)
(* there were too few candles); `broken` names the strategies that raise   *)
(* on it.  Strength, reason and metadata of a signal are left out.  No     *)
(* strategy of the repository emits HOLD.                                  *)
(***************************************************************************)
EXTENDS Integers, Sequences, FiniteSets, FiniteSetsExt, Functions, Lists, Optional

CONSTANTS
  Strategies,       \* names of the strategies run, a sequence
  Threshold,        \* ensemble_agreement_threshold, per cent
  MinConfidence,    \* min_confidence, per cent
  Activation,       \* advisory_activation_threshold, per cent
  Proximity,        \* proximity_pct of the Bollinger strategy, per cent
  Oversold,         \* rsi_oversold; rsi_overbought is 100 minus it
  RangeLow,         \* range_low_pct, per cent; range_high_pct is 100 minus it
  MinHistogram,     \* min_histogram of the MACD strategy
  Volatile,         \* regime_volatility_threshold, per cent
  Trend             \* regime_trend_threshold, per cent

StrategyNames == {"ema_crossover", "macd_crossover", "rsi_range", "bollinger_bands"}

\* main.py runs four; confidences are not negative.
ASSUME StrategiesAssumption ==
  /\ Strategies \in Seq(StrategyNames) /\ Strategies # <<>>
  /\ Proximity \in Nat /\ Oversold \in Nat

Positive == Nat \ {0}

AnalysisType ==
  [price : Positive, fast : Positive \cup {None}, slow : Positive \cup {None},
   hist : Int \cup {None}, rsi : Nat \cup {None}, atr : Nat \cup {None},
   low : Int, high : Int, lower : Int, upper : Int, broken : SUBSET StrategyNames]

Abs(x) == IF x < 0 THEN -x ELSE x
Capped(confidence, cap) == Min({confidence, cap})

Opinion(side, conf) == [side |-> side, conf |-> conf]
NoOpinion == Opinion("none", 0)
-----------------------------------------------------------------------------
(* generate_signal of each strategy. *)

EmaCrossover(a) ==
  IF a.fast = None \/ a.slow = None THEN NoOpinion
  ELSE IF a.fast > a.slow /\ a.price > a.fast
    THEN Opinion("buy", Capped(50 + ((a.fast - a.slow) * 1000) \div a.slow, 95))
  ELSE IF a.fast < a.slow /\ a.price < a.fast
    THEN Opinion("sell", Capped(50 + ((a.slow - a.fast) * 1000) \div a.fast, 95))
  ELSE NoOpinion

\* A histogram of exactly 0 is a SELL when no minimum is set.
MacdCrossover(a) ==
  LET conf == Capped(50 + (Abs(a.hist) * 50000) \div a.price, 85)
  IN  IF a.hist = None THEN NoOpinion
      ELSE IF Abs(a.hist) < MinHistogram THEN NoOpinion
      ELSE IF a.hist > 0 THEN Opinion("buy", conf) ELSE Opinion("sell", conf)

RsiRange(a) ==
  LET width == a.high - a.low
      place == ((a.price - a.low) * 100) \div width
  IN  IF a.rsi = None THEN NoOpinion
      ELSE IF width <= 0 THEN NoOpinion
      ELSE IF a.rsi < Oversold /\ place < RangeLow
        THEN Opinion("buy", Capped(50 + ((Oversold - a.rsi) * 3) \div 2, 95))
      ELSE IF a.rsi > 100 - Oversold /\ place > 100 - RangeLow
        THEN Opinion("sell", Capped(50 + ((a.rsi - 100 + Oversold) * 3) \div 2, 95))
      ELSE NoOpinion

BollingerBands(a) ==
  LET width == a.upper - a.lower
      near  == (width * Proximity) \div 100
      conf(distance) == Capped(55 + (distance * 500) \div width, 95)
  IN  IF width <= 0 THEN NoOpinion
      ELSE IF a.price <= a.lower + near
        THEN Opinion("buy", conf(a.lower + near - a.price))
      ELSE IF a.price >= a.upper - near
        THEN Opinion("sell", conf(a.price - a.upper + near))
      ELSE NoOpinion

\* What one strategy says of an analysis; "error" when it raises.
OpinionOf(strategy, a) ==
  IF strategy \in a.broken THEN Opinion("error", 0)
  ELSE CASE strategy = "ema_crossover"   -> EmaCrossover(a)
         [] strategy = "macd_crossover"  -> MacdCrossover(a)
         [] strategy = "rsi_range"       -> RsiRange(a)
         [] strategy = "bollinger_bands" -> BollingerBands(a)

Opinions(a) == [i \in DOMAIN Strategies |-> OpinionOf(Strategies[i], a)]

Actionable(o) == o.side \in {"buy", "sell"}
-----------------------------------------------------------------------------
(* StrategyRunner: individual signals. *)

\* The portfolio pre-flight: nothing to sell, nothing to buy with.
Preflight(o, held, cash) ==
  /\ o.side = "sell" => held
  /\ o.side = "buy"  => cash > 0

\* _evaluate_individual, the signals of one symbol.
IndividualSignals(a, held, cash) ==
  LET all == Opinions(a)
  IN  Sublist(all, {i \in DOMAIN all : /\ Actionable(all[i]) /\ Preflight(all[i], held, cash)
                                       /\ all[i].conf >= MinConfidence})
-----------------------------------------------------------------------------
(* StrategyRunner: the ensemble. *)

Voting(ballots, side) == {i \in DOMAIN ballots : ballots[i].side = side}

\* "len(side) / len(strategies) >= threshold"
Agrees(ballots, side) ==
  Cardinality(Voting(ballots, side)) * 100 >= Threshold * Len(Strategies)

\* The mean confidence of the ballots with numbers in `of`.
Mean(ballots, of) ==
  SumFunctionOnSet([i \in DOMAIN ballots |-> ballots[i].conf], of) \div Cardinality(of)

\* _build_consensus: the mean confidence of those that agree must suffice.
BuildConsensus(ballots, side) ==
  LET agreeing == Voting(ballots, side)
      mean     == Mean(ballots, agreeing)
  IN  IF agreeing = {} THEN <<>>
      ELSE IF mean < MinConfidence THEN <<>> ELSE <<Opinion(side, mean)>>

\* Mutant of Vote: a draw goes to the SELL.
VoteDrawSells(ballots) ==
  IF Agrees(ballots, "sell") /\ Cardinality(Voting(ballots, "sell")) >= Cardinality(Voting(ballots, "buy"))
    THEN BuildConsensus(ballots, "sell")
  ELSE IF Agrees(ballots, "buy") THEN BuildConsensus(ballots, "buy")
  ELSE <<>>

\* _vote, on the ballots that were not filtered: a draw goes to the BUY.
Vote(ballots) ==
  IF \A i \in DOMAIN ballots : ~Actionable(ballots[i]) THEN <<>>
  ELSE IF Agrees(ballots, "buy")
          /\ Cardinality(Voting(ballots, "buy")) >= Cardinality(Voting(ballots, "sell"))
    THEN BuildConsensus(ballots, "buy")
  ELSE IF Agrees(ballots, "sell") THEN BuildConsensus(ballots, "sell")
  ELSE <<>>

\* A ballot the pre-flight filters still counts among the strategies.
EnsembleSignals(a, held, cash) ==
  Vote([i \in DOMAIN Strategies |->
          LET o == OpinionOf(Strategies[i], a)
          IN  IF Preflight(o, held, cash) THEN o ELSE NoOpinion])

\* CompositeStrategy.generate_signal and _consensus: the vote without a
\* portfolio, written a second time in the repository.
CompositeSignal(a) ==
  LET raw    == {i \in DOMAIN Strategies : Actionable(OpinionOf(Strategies[i], a))}
      of(s)  == {i \in raw : OpinionOf(Strategies[i], a).side = s}
      share(s) == Cardinality(of(s)) * 100
      confidence == [i \in DOMAIN Strategies |-> OpinionOf(Strategies[i], a).conf]
      mean(s) == SumFunctionOnSet(confidence, of(s)) \div Cardinality(of(s))
      consensus(s) == IF of(s) = {} THEN <<>>
                      ELSE IF mean(s) < MinConfidence THEN <<>> ELSE <<Opinion(s, mean(s))>>
      needed == Threshold * Len(Strategies)
  IN  IF raw = {} THEN <<>>
      ELSE IF share("buy") >= needed /\ share("buy") >= share("sell") THEN consensus("buy")
      ELSE IF share("sell") >= needed THEN consensus("sell")
      ELSE <<>>
-----------------------------------------------------------------------------
(* The uncertainty score.  Weights are the defaults, in per cent. *)

\* TechnicalAnalyzer._classify_regime; the middle band stands for the price.
Regime(a) ==
  LET middle == (a.upper + a.lower) \div 2
  IN  IF a.atr # None /\ a.atr * 100 > Volatile * middle THEN "volatile"
      ELSE IF a.fast # None /\ a.slow # None /\ Abs(a.fast - a.slow) * 100 > Trend * middle
        THEN "trending"
      ELSE "ranging"

\* The share of `part` of `whole`, scaled to a weight.
Weighted(part, whole, weight) == IF whole = 0 THEN 0 ELSE (part * weight) \div whole

\* _volatile_regime, on the analyses of a cycle.
VolatileRegime(analyses) ==
  Weighted(Cardinality({s \in DOMAIN analyses : Regime(analyses[s]) = "volatile"}),
           Cardinality(DOMAIN analyses), 30)

\* _sentiment_extreme and _low_sentiment_confidence.
SentimentExtreme(sentiment) ==
  IF sentiment = None THEN 0
  ELSE IF sentiment.confidence # 0 /\ Abs(sentiment.score) >= 50 THEN 20 ELSE 0

LowSentimentConfidence(sentiment) ==
  IF sentiment = None THEN 0 ELSE IF 100 - sentiment.confidence >= 50 THEN 20 ELSE 0

\* One symbol's disagreement, per cent: a filtered vote counts with its side.
Disagreement(a) ==
  LET all   == Opinions(a)
      buys  == Cardinality(Voting(all, "buy"))
      sells == Cardinality(Voting(all, "sell"))
  IN  100 - (Max({buys, sells, Len(all) - buys - sells}) * 100) \div Len(all)

\* _strategy_disagreement.
StrategyDisagreement(analyses) ==
  Weighted(SumFunction([s \in DOMAIN analyses |-> Disagreement(analyses[s])]),
           100 * Cardinality(DOMAIN analyses), 30)

\* _drawdown_proximity; a balance above the peak counts against the score.
DrawdownProximity(drawdown, limit) == Weighted(Min({drawdown, limit}), limit, 20)

\* _regime_change: previous maps the symbols analysed before to their regime.
RegimeChange(analyses, previous) ==
  LET compared == DOMAIN analyses \cap DOMAIN previous
  IN  Weighted(Cardinality({s \in compared : Regime(analyses[s]) # previous[s]}),
               Cardinality(compared), 30)

\* score, clamped to [0, 100].
Score(analyses, drawdown, limit, sentiment, previous) ==
  Max({0, Min({100, VolatileRegime(analyses) + SentimentExtreme(sentiment)
                    + LowSentimentConfidence(sentiment) + StrategyDisagreement(analyses)
                    + DrawdownProximity(drawdown, limit) + RegimeChange(analyses, previous)})})

RecommendAdvisory(score) == score >= Activation
=============================================================================
