------------------------------ MODULE Decisions ------------------------------
(***************************************************************************)
(* The decision half of TradingFlow, cycle after cycle: market analysis,   *)
(* signals, the risk pipeline, the uncertainty score, the advisory crew    *)
(* and the reservation of capital.  One action per phase method; the       *)
(* services it calls are the modules RiskPipeline, Strategies and          *)
(* Advisory.                                                               *)
(*                                                                         *)
(* Execution details what happens to the requests afterwards.  Here every  *)
(* request that passes its validation fills at its reference price without *)
(* a fee.  A cycle that does not execute, the token budget and the pauses  *)
(* are TradingLoop's.                                                      *)
(***************************************************************************)
EXTENDS RiskPipeline, Strategies, Advisory

CONSTANTS
  SymbolList,   \* settings.symbols
  EnsembleModes,\* values of ensemble_enabled
  Analyses,     \* analyses the market pipeline may produce for a symbol
  Answers,      \* answers of the advisory crew
  InitCash,     \* the initial balance
  MaxCycles     \* bound: cycles with market data

\* Prices are so large that the default stop, and the ones the crew advises, are at
\* least a unit away.
ASSUME DecisionsAssumption ==
  /\ InitCash \in Nat /\ MaxCycles \in Nat
  /\ EnsembleModes \subseteq BOOLEAN
  /\ SymbolList \in Seq(Symbols) /\ Symbols = {SymbolList[i] : i \in DOMAIN SymbolList}
  /\ Analyses \subseteq AnalysisType
  /\ \A a \in Analyses : a.price * Risk.stop_loss >= 100
  /\ \A answer \in Answers : answer.items \in Seq(DirectiveType)
  /\ \A answer \in Answers, a \in Analyses : \A i \in DOMAIN answer.items :
       LET d == answer.items[i]
       IN  d.action = "tighten_stop_loss" /\ d.param # None => a.price * Clamp(d.param, 1, 500) >= 1000

VARIABLES
  pf,        \* the portfolio
  tripped,   \* CircuitBreaker.is_tripped
  ensemble,  \* ensemble_enabled of this process
  breakEven, \* break-even of the last filled BUY of a symbol
  previous,  \* previous_regimes
  pc,        \* the phase the flow is about to run
  analyses,  \* state.market_analyses
  signals,   \* state.signals
  reqs,      \* state.order_requests
  score,     \* state.uncertainty_score
  advice,    \* state.advisory_adjustments
  before,    \* _portfolio_snapshot
  cycles     \* counter for the bound

vars == <<pf, tripped, ensemble, breakEven, previous, pc, analyses, signals,
          reqs, score, advice, before, cycles>>
flowVars == <<analyses, signals, reqs, score, advice>>

NoAnalyses == [s \in {} |-> Nothing]

Init ==
  /\ pf = [cash |-> InitCash, pos |-> [s \in Symbols |-> Nothing], peak |-> InitCash]
  /\ tripped = FALSE /\ ensemble \in EnsembleModes
  /\ breakEven = [s \in Symbols |-> None] /\ previous = NoAnalyses
  /\ pc = "market" /\ analyses = NoAnalyses
  /\ signals = <<>> /\ reqs = <<>> /\ score = 0 /\ advice = <<>>
  /\ before = pf /\ cycles = 0
-----------------------------------------------------------------------------
(* Market data. *)

\* _update_position_prices: only a symbol analysed this cycle moves.
Repriced(found) ==
  [pf EXCEPT !.pos = [s \in Symbols |->
     IF s \in DOMAIN found /\ Holds(pf, s) THEN [pf.pos[s] EXCEPT !.price = found[s].price]
                                           ELSE pf.pos[s]]]

\* run_cycle, one symbol after the other: a symbol whose ticker, candles,
\* analysis or sentiment raises is left out.  A fresh flow starts here.
MarketPhase ==
  /\ pc = "market"
  /\ \E got \in SUBSET Symbols : \E found \in [got -> Analyses] :
       /\ cycles' = IF got = {} THEN cycles ELSE cycles + 1
       /\ cycles' <= MaxCycles
       /\ analyses' = found /\ pf' = Repriced(found)
       /\ pc' = IF tripped \/ got = {} THEN "end" ELSE "strategy"
  /\ signals' = <<>> /\ reqs' = <<>> /\ score' = 0 /\ advice' = <<>>
  /\ UNCHANGED <<tripped, ensemble, breakEven, previous, before>>
-----------------------------------------------------------------------------
(* Signals and risk. *)

\* What the StrategyRunner emits for one symbol.
SignalsOf(s) ==
  LET a    == analyses[s]
      says == IF ensemble THEN EnsembleSignals(a, Holds(pf, s), pf.cash)
                          ELSE IndividualSignals(a, Holds(pf, s), pf.cash)
  IN  [i \in DOMAIN says |-> [sym |-> s, side |-> says[i].side, conf |-> says[i].conf,
                              price |-> a.price, stop |-> None]]

AllSignals ==
  LET analysed == Sublist(SymbolList, {i \in DOMAIN SymbolList : SymbolList[i] \in DOMAIN analyses})
  IN  FoldLeft(LAMBDA all, s : all \o SignalsOf(s), <<>>, analysed)

\* The risk pipeline on a list of signals, none of which moves the portfolio:
\* the breaker that trips on the first rejects them all.
RequestsOf(sigs) ==
  LET asked == [i \in DOMAIN sigs |-> RequestOf(pf, sigs[i], analyses[sigs[i].sym].atr,
                                                breakEven[sigs[i].sym])]
  IN  IF tripped \/ Breaches(pf) THEN <<>>
      ELSE Sublist(asked, {i \in DOMAIN asked : asked[i].qty > 0})

Evaluate(sigs) ==
  /\ reqs' = RequestsOf(sigs)
  /\ tripped' = (tripped \/ (sigs # <<>> /\ Breaches(pf)))

StrategyPhase ==
  /\ pc = "strategy"
  /\ signals' = AllSignals
  /\ Evaluate(signals')
  /\ pc' = "uncertainty"
  /\ UNCHANGED <<pf, ensemble, breakEven, previous, analyses, score, advice, before, cycles>>
-----------------------------------------------------------------------------
(* The advisory crew. *)

\* The market service keeps no last_sentiment, so the score sees no sentiment.
ComputeUncertainty ==
  /\ pc = "uncertainty"
  /\ score' = Score(analyses, Drawdown(pf), Risk.max_drawdown, None, previous)
  /\ pc' = IF RecommendAdvisory(score') THEN "advisory" ELSE "reserve"
  /\ UNCHANGED <<pf, tripped, ensemble, breakEven, previous, analyses, signals, reqs,
                 advice, before, cycles>>

\* Mutant of Advise: the requests of the original signals stay in the list.
AdviseOnTop(directives) ==
  /\ signals' = ApplyDirectives(signals, directives)
  /\ reqs' = reqs \o RequestsOf(signals')
  /\ tripped' = (tripped \/ (signals' # <<>> /\ Breaches(pf)))

\* Directives replace the signals, and the requests are derived again.
Advise(directives) ==
  /\ signals' = ApplyDirectives(signals, directives)
  /\ Evaluate(signals')

AdvisoryPhase ==
  /\ pc = "advisory"
  /\ \E answer \in Answers :
       /\ advice' = ParsedAnswer(answer)
       /\ IF advice' = <<>> THEN UNCHANGED <<signals, reqs, tripped>> ELSE Advise(advice')
  /\ pc' = "reserve"
  /\ UNCHANGED <<pf, ensemble, breakEven, previous, analyses, score, before, cycles>>

\* The crew raises: the original requests go on.
AdvisoryFails ==
  /\ pc = "advisory"
  /\ pc' = "reserve"
  /\ UNCHANGED <<pf, tripped, ensemble, breakEven, previous, flowVars, before, cycles>>
-----------------------------------------------------------------------------
(* Reservation. *)

SellsOf(list, s) == {i \in DOMAIN list : list[i].side = "sell" /\ list[i].sym = s}

\* Mutant of Deduplicated: every SELL goes through.
DeduplicatedNot(list) == list

\* _dedup_sell_orders: BUYs first, then one SELL per symbol, where the first one
\* was: the largest, capped at the position.
Deduplicated(list) ==
  LET largest(s) == list[CHOOSE i \in SellsOf(list, s) :
                           \A j \in SellsOf(list, s) : list[j].qty <= list[i].qty]
      sell(s)    == [largest(s) EXCEPT !.qty = IF Holds(pf, s) THEN Min({@, pf.pos[s].qty}) ELSE @]
      first(i)   == /\ i \in SellsOf(list, list[i].sym)
                    /\ \A j \in SellsOf(list, list[i].sym) : i <= j
      sold       == Sublist(list, {i \in DOMAIN list : first(i)})
      bought     == Sublist(list, {i \in DOMAIN list : list[i].side = "buy"})
  IN  bought \o [i \in DOMAIN sold |-> sell(sold[i].sym)]

\* Mutant of BookedBuy: the amount asked is booked, whatever was affordable.
BookedBuyAsked(p, r) ==
  [p EXCEPT !.cash = @ - Min({r.qty * r.price, @}),
            !.pos[r.sym] = Opened(@.qty + r.qty, r.price, r.stop)]

\* A BUY beyond the cash is scaled down to it; one into a position averages the
\* entry and keeps the old stop.
BookedBuy(p, r) ==
  LET bought == Min({r.qty * r.price, p.cash}) \div r.price
      held   == p.pos[r.sym]
      total  == held.qty + bought
      mean   == (held.entry * held.qty + r.price * bought) \div total
  IN  IF bought <= 0 THEN p
      ELSE [p EXCEPT !.cash = @ - bought * r.price,
                     !.pos[r.sym] = IF held.qty = 0 THEN Opened(bought, r.price, r.stop)
                                    ELSE [held EXCEPT !.qty = total, !.entry = mean, !.price = r.price]]

\* A SELL is credited at once, capped at what is held.
BookedSell(p, r) ==
  LET held == p.pos[r.sym]
      sold == Min({r.qty, held.qty})
  IN  [p EXCEPT !.cash = @ + sold * r.price,
                !.pos[r.sym] = IF sold = held.qty THEN Nothing
                               ELSE [held EXCEPT !.qty = held.qty - sold]]

\* _apply_single_order_to_portfolio.
Booked(p, r) == IF r.side = "buy" THEN BookedBuy(p, r) ELSE BookedSell(p, r)

ReservePhase ==
  /\ pc = "reserve"
  /\ reqs' = Deduplicated(reqs)
  /\ before' = pf
  /\ LET reserved == FoldLeft(Booked, pf, reqs')
     IN  pf' = IF reqs' = <<>> THEN pf
               ELSE [reserved EXCEPT !.peak = Max({@, TotalBalance(reserved)})]
  /\ pc' = "execution"
  /\ UNCHANGED <<tripped, ensemble, breakEven, previous, analyses, signals, score, advice, cycles>>

\* _reconcile_fill of a BUY: the reserved amount is undone, the average it left
\* is not, and the fill is averaged in again; the stop becomes the request's.
FilledBuy(p, r) ==
  LET held == p.pos[r.sym]
      rest == held.qty - r.qty
  IN  [p EXCEPT !.pos[r.sym] =
         IF rest <= 0 THEN Opened(r.qty, r.price, r.stop)
         ELSE [qty |-> held.qty, entry |-> (held.entry * rest + r.price * r.qty) \div held.qty,
               stop |-> r.stop, price |-> r.price]]

\* A BUY is checked against the cash the reservations left: one that fails keeps
\* its reservation; one that fills leaves its break-even.  A SELL fills as it was
\* reserved.
Settled(acc, r) ==
  IF r.side = "sell" \/ r.qty * r.price > acc.pf.cash THEN acc
  ELSE [pf |-> FilledBuy(acc.pf, r), breakEven |-> [acc.breakEven EXCEPT ![r.sym] = r.price]]

Execute ==
  /\ pc = "execution"
  /\ LET settled == FoldLeft(Settled, [pf |-> pf, breakEven |-> breakEven], reqs)
     IN  pf' = settled.pf /\ breakEven' = settled.breakEven
  /\ pc' = "end"
  /\ UNCHANGED <<tripped, ensemble, previous, flowVars, before, cycles>>

\* main_async keeps the regimes of a cycle that had market data.
EndCycle ==
  /\ pc = "end"
  /\ previous' = IF analyses = NoAnalyses THEN previous
                 ELSE [s \in DOMAIN analyses |-> Regime(analyses[s])]
  /\ pc' = "market"
  /\ UNCHANGED <<pf, tripped, ensemble, breakEven, flowVars, before, cycles>>
-----------------------------------------------------------------------------
Next ==
  \/ MarketPhase \/ StrategyPhase \/ ComputeUncertainty
  \/ AdvisoryPhase \/ AdvisoryFails
  \/ ReservePhase \/ Execute \/ EndCycle

Spec == Init /\ [][Next]_vars
-----------------------------------------------------------------------------
(* Properties. *)

Sides == {"buy", "sell"}
PositionType == [qty : Nat, entry : Nat, stop : Int \cup {None}, price : Nat]
RequestType  == [sym : Symbols, side : Sides, price : Nat, stop : Int, qty : Nat \ {0}]

\* Cash and quantities never go below 0, and a request always has a positive
\* quantity and a stop, whatever the crew directed.
TypeOK ==
  /\ pf.cash \in Nat /\ pf.peak \in Nat /\ pf.pos \in [Symbols -> PositionType]
  /\ tripped \in BOOLEAN /\ ensemble \in EnsembleModes
  /\ \A i \in DOMAIN reqs : reqs[i] \in RequestType
  /\ \A i \in DOMAIN signals : signals[i].conf \in 0 .. 100
  /\ score \in 0 .. 100

Reserved == pc = "execution"

\* What execution is asked to sell of a symbol is held: several strategies may
\* ask for the same position in one cycle, each sized against all of it
\* (_dedup_sell_orders).
SellsCovered ==
  Reserved => \A s \in Symbols :
    SumFunction([i \in SellsOf(reqs, s) |-> reqs[i].qty]) <= before.pos[s].qty

\* Reserving capital moves value between cash and positions and creates none:
\* the drawdown the breaker measures is the same before and after, also when
\* the BUYs of a cycle together ask for more than the cash
\* (_apply_single_order_to_portfolio).
ValuePreserved == Reserved => TotalBalance(pf) = TotalBalance(before)

\* A symbol the crew vetoed, and every symbol of a cycle it sat out, is not
\* traded, although requests for it existed before the crew was asked
\* (advisory_phase).
AdvisedOut ==
  pc \in {"reserve", "execution"} =>
    \A i \in DOMAIN reqs : ~SitsOut(advice) /\ ~Vetoed(advice, reqs[i].sym)

\* The ensemble vote of StrategyRunner and the vote of CompositeStrategy, two
\* copies of one rule, agree on every analysis when nothing is filtered.
VoteIsComposite ==
  \A s \in DOMAIN analyses : Vote(Opinions(analyses[s])) = CompositeSignal(analyses[s])

\* Every BUY of a cycle is checked against the portfolio before any of them, so
\* together they may pass the exposure limit; by no more than one position
\* limit for each BUY after the first.
Buys == {i \in DOMAIN reqs : reqs[i].side = "buy"}

ExposureOvershootBounded ==
  Reserved /\ Buys # {} =>
    MarketValue(pf) * 100 <= Risk.max_exposure * TotalBalance(pf)
                             + (Cardinality(Buys) - 1) * Risk.max_position * before.cash

\* What a cycle bought is not above its stop when the stop-loss hook runs at the
\* end of that cycle, although a BUY that was not filled keeps the stop of the
\* position it was added to, and the crew may have set the stop.
FreshBuyNotStopped ==
  pc = "end" => \A i \in Buys :
    LET held == pf.pos[reqs[i].sym] IN held.qty > 0 => held.stop < reqs[i].price

\* "entry_price: Average entry price across all fills": a cycle's only BUY of a
\* held symbol leaves the mean of what was held and what was bought.
EntryIsAverage ==
  pc = "end" => \A i \in Buys :
    LET r   == reqs[i]
        old == before.pos[r.sym]
    IN  old.qty > 0 /\ pf.pos[r.sym].qty = old.qty + r.qty =>
          pf.pos[r.sym].entry = (old.entry * old.qty + r.price * r.qty) \div (old.qty + r.qty)
=============================================================================
