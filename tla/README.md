# Formal model of trading_crew

This directory holds TLA+ modules that model the trading bot in `src/src/trading_crew` and the parts around it, TLC configurations that
check them on small instances, and proofs that the TLA+ proof system (TLAPS) checks.  Paths below are relative to
`src/src/trading_crew/` unless they start with `src/`.

Run from this directory:

    tlc -workers 2 -config exec_ledger.cfg MCExecution     # one configuration
    tlapm Execution_proofs.tla                             # one module's proofs

## 1. The system

The bot is one asyncio process (`main.py`).  Each cycle re-reads two files another process (the dashboard's API) may edit
at any time, makes a run plan, and runs a `TradingFlow`.  The flow fetches market data, evaluates strategies through the
risk pipeline, may ask an LLM advisory crew, reserves capital for the approved requests in the in-memory `Portfolio`, places
them through `ExecutionService`, polls the orders still open, and finally checks stop-losses.  Orders, portfolio and cycles
are saved in a SQL database that the API and the dashboard read.

| Part | State | Operations | Hard behaviour |
|---|---|---|---|
| `services/execution_service.py` | rows of the orders table, the shared portfolio | process requests; poll; cancel | awaits between reading and booking, lost replies, partial fills, database errors |
| `models/portfolio.py` + bookkeeping in `main.py` and `execution_service.py` | cash, positions, fees | reserve, reconcile, apply increment, release, roll back | several orders in flight share one balance; undo assumes what was reserved |
| `flows/trading_flow.py` | one cycle's state, the portfolio snapshot | phases and routers | a skipped or failed execution must give reservations back |
| `main.py` loop | run plan, budget state, last poll time | begin, end, error of a cycle | settings change under it, midnight, exceptions, restarts |
| `risk/circuit_breaker.py` | tripped | check on signals and on fills | read before prices move |
| `strategies/*`, `services/strategy_runner.py`, `uncertainty_scorer.py` | regimes of the last cycle | signals of a symbol, one by one or by vote; score | a rule in two copies, strategies that raise, ties |
| `services/risk_pipeline.py`, `risk/*` | none | evaluate, size, limit | requests of one cycle evaluated independently |
| `crews/`, `models/advisory.py` | none | run, parse, apply directives | may fail, may change signals after requests were made of them |
| `services/exchange_service.py` | rate-limit count, cooldown | call with retry; page through candles; simulate in paper mode | concurrent callers share the count; retries of calls that are not idempotent; page caps |
| `services/database_service.py`, ohlcv table; `src/scripts/backtest_runner.py` | candles | upsert | two writers, a candle that is still forming |
| `config/*`, `api/routers/{controls,settings}.py` | settings.yaml, runtime.yaml, the settings cache | read, read-modify-write | two processes, threads, one temporary file name |
| `api/websocket.py` | connections, watermarks per handler | poll and broadcast | rows changed in place, a bot that restarts, browsers that go |
| `services/backtest_service.py` | a portfolio and an equity curve of its own | replay | a second bookkeeping of fills and fees |
| `services/simulation_runner.py`, `simulated_exchange.py` | the bot's portfolio, a simulated clock | replay through the bot's flow | reservations undone, forced close, closed trades rebuilt from orders |
| `api/routers/portfolio.py` | none | closed trades | a second FIFO matching |
| indicators, sentiment, LLM agents, other API routers, dashboard, notifications, agent tools, migrations | caches | compute, query, render | numerical or I/O only |

What makes each part correct:

* Execution: a record never says more than the exchange did; a terminal status is final; no live order is lost; no order
  stays open for ever.
* Portfolio: at every moment cash and positions are what the reservations of the open orders and the outcomes of the settled
  ones add up to; a fee is charged once.
* Loop: the daily budget bounds the advisory crew whatever is edited when; a notice is sent once; no cycle comes to
  its first order past the drawdown limit; open orders keep being polled.
* Decisions: requests that were each approved alone are bearable together: no position is sold twice, reserving creates no
  value, the exposure limit is passed by a bounded amount; what the crew forbade is not traded; copies of a rule agree.
* Exchange adapter and candles: the breaker opens at its threshold, lets a bounded number of failures pass, and closes again;
  a call ends; a range has no hole and is complete; a partial candle is replaced.
* Backtests: trades, orders, cash and the reported result explain one another.
* Dashboard: no row is announced twice, a cycle's row reaches every registered browser; the flags are what was asked for; a
  setting saved by a request on its own is in the file, and the answer is what file and environment make.

## 2. Modules

| Module | What it is | Uses |
|---|---|---|
| `Portfolio` | pure operators on a portfolio value: what one booking does | |
| `Execution` | the life of orders: cycle, placement, polling, stop-loss hook, exchange, crash | `Portfolio`; `OrderLifecycle` as an instance |
| `OrderLifecycle` | abstract: the life cycle of the status column, as documented (`Documented`) and as it is (`Successors`) | |
| `Ledger` | the abstract portfolio, as a sum over orders, and the properties that compare it | `Execution` |
| `TradingLoop` | `main_async` and the routing of the flow | |
| `RiskPipeline` | pure operators: the verdict on a signal and the order request | `Optional` |
| `Strategies` | pure operators: strategies, runner, composite, uncertainty score | `Lists`, `Optional` |
| `Advisory` | pure operators: the crew's answer and its directives | `Lists`, `Optional` |
| `Decisions` | the phases of the flow from market data to reservation, cycle after cycle | the three above |
| `Metrics`, `Fifo` | pure operators: figures of a result; closed trades from orders, both copies | |
| `Backtest` | `BacktestService.run` | `Metrics`, `Lists`; `RiskPipeline` as an instance |
| `Simulation` | `SimulationRunner.run` over `SimulatedExchangeService` | `Portfolio`, `Fifo`, `Metrics`; `RiskPipeline` as an instance |
| `Replay` | a backtest request: one of the two engines | `Backtest` and `Simulation` as instances |
| `ExchangeCalls` | `_call`, `_retry` and the rate-limit breaker, concurrent callers | |
| `MarketData` | the ohlcv table: the bot's fetches, and the script that pages through a range | `ExchangeCalls` |
| `EventFeed` | the WebSocket handlers over the tables the bot writes | |
| `SharedFile` | runtime.yaml or settings.yaml under the API's threads and the bot | |
| `Dashboard` | the API process: the last two | `EventFeed`, `SharedFile` |
| `Optional` | the value `None` | |
| `Lists` | pure operators: a comprehension over a list, as the sublist of the indices it keeps | |
| `MCExecution`, `MCTradingLoop`, `MCDecisions`, `MCReplay`, `MCMarketData`, `MCDashboard` | instances for TLC | the module each is named after (`MCExecution`: `Ledger`) |
| `Execution_proofs`, `Ledger_proofs`, `TradingLoop_proofs`, `Decisions_proofs`, `Replay_proofs`, `MarketData_proofs`, `Dashboard_proofs` | theorems | the module each is about, TLAPS |
| `Sums_proofs` | lemmas about sums and folds over finite sets and over lists, extremes, division, sublists | `Lists`, TLAPS |

`TradingLoop`, `Decisions` and `Execution` are views of the same program.  The loop sees the phases of a cycle as steps that
change how many requests there are and how many orders are open.  `Decisions` details the phases up to the reservation
and lets every valid request fill at once.  `Execution` details what follows and takes requests from a constant.

### Execution

A step is the code between two awaits.  That is sound because the bot is a single asyncio task that nothing preempts; the
database is called synchronously.  The awaits that matter are `create_order` (between `SavePending` and the steps at
`pc = "sent"`), `fetch_order_status` (the answer is chosen in the step that uses it, so that the exchange is free to move
before it), and `cancel_order` (between the poll that decides and the steps at `pc = "cancel"`; what was read before is
in `seen`).  A crash may fall between any two steps.

| In the model | In the code |
|---|---|
| `pf`, `snap` | `Portfolio`, `_portfolio_snapshot` (a cycle without requests has none: the rollback would ignore it) |
| `ord`, `cur`, `mode` | `state.order_requests`, the loop over them, and which handler runs |
| `polls`, `stops` | the lists the two `for` loops go through |
| `db`, `known`, `dbf` | the columns status, exchange_order_id (still `pending-…` or not), filled_amount |
| `age` | now - created_at: 0 fresh, 1 past `stale_order_cancel_minutes`, 2 past the one of partial fills |
| `xs`, `xf`, `xp` | the exchange's status, filled amount and average price |
| `paper` | `paper_mode`, fixed for a behaviour |
| `applied`, `raised` | history and bound: not in the code |

| Actions | Code |
|---|---|
| `StartCycle` `Reserve` `RunExecution` `SkipExecution` `PollOnlyCycle` `EndCycle` | `reserve_phase`, its router, `post_cycle_hooks`, `execution_only_phase` |
| `RejectInvalid` `SavePending` `Placed` `CreateRaises` `EndPlacing` | `_process_single_request` |
| `PollFilled` `PollPartial` `PollStale` `PollDead` `PollNoChange` `PollFails` `EndPolling` | `_poll_single_order`, `poll_and_reconcile` |
| `CancelStale` `CancelFails` | `_cancel_stale_order` |
| `CheckStopLosses` `StopLoss` | `_check_stop_losses`, `_on_stop_loss_triggered` |
| `PlaceDbError` `FinalizeDbError` `RefusedDbError` `OpenOrdersDbError` `PollDbError` `CancelDbError` `SavePortfolioDbError` `PlacedRaises` `PollRaises` | the exceptions that leave these methods, caught by the flow (`Raise`) |
| `Crash` | a new process: seed portfolio, same database |
| `ExchangeAccepts` `ExchangeFills` `ExchangeDrops` `OrderAges` | the exchange (external) and time |

Every failure is named in `Faults`, so that a run says which of them it allows.

### Portfolio

Amounts, prices and cash are integers; a fee is the notional divided by `FeeScale`, rounded down, the same way everywhere.
Cash and fees may go negative, as in the code, whose field constraint is not checked on assignment.  Entry prices and PnL
are left out: they feed reports and the sell guard, not the bookkeeping.  The code's additive branch of the incremental fill
(no requested price) is left out too, because every request of the risk pipeline and of the stop-loss hook carries a price.

### TradingLoop

The clock is abstracted to two facts: whether the execution poll interval has elapsed (`due`) and the UTC date (`today`).
The drawdown is a Boolean that every price update or fill may change.  The world edits the files (`EditSettings`,
`Toggle`) and passes time (`IntervalElapses`, `Midnight`) between any two steps of the loop; the loop reads the files only
in `BeginCycle`.  `PlaceRequest` is one turn of the loop that places the requests of a cycle, `PollOrders` what follows, and
`ExecutionRaises` an exception at any point of both.  `reqs` and `open` count requests and open orders.  `notices` is a history variable.

### Decisions, RiskPipeline, Strategies, Advisory

| Actions | Code |
|---|---|
| `MarketPhase` | `MarketIntelligenceService.run_cycle`, `_update_position_prices`, the halt route; any subset of symbols may fail |
| `StrategyPhase` | `strategy_phase`: signals of each symbol, each through the pipeline against the same portfolio |
| `ComputeUncertainty` | `compute_uncertainty` |
| `AdvisoryPhase` `AdvisoryFails` | `advisory_phase`: the directives, then every request derived again; or an exception, which keeps signals and requests |
| `ReservePhase` | `reserve_phase`: `_dedup_sell_orders`, `_apply_single_order_to_portfolio` |
| `Execute` | each request validated, then filled at its reference price (`_reconcile_fill`'s prices and stops) |
| `EndCycle` | `previous_regimes` |

The strategies' arithmetic is over integers: confidences and the score are whole per cents, prices and indicators small
numbers.  Indicators are inputs, since they are numerical analysis of candles; the ones the MC module lists make one strategy
buy, two buy and two sell, three sell, and one raise while two buy and one sells.  Sentiment is `None` in every cycle: the code
looks for it under a name the service does not have (section 6).

### Replay, Backtest, Simulation, Fifo, Metrics

`Backtest!Bar` is one turn of the loop over candles: fill at the open, stop, signals; `Finish` closes what is left and builds
the result.  The bar's candle and the sides of its signals are chosen in the step.  `Simulation` has three actions a bar, for the
flow runs with awaits although nothing else runs: `Decide` (market data to reservation), `Execute` (the simulated exchange fills
at once), `Hooks` (stop-loss, equity), and `Finish`.  `Filled` and the reservations are the operators of `Portfolio`, since the
simulation runs the bot's own code.  A price is counted in a unit of which its slippage, and the fee of one amount at it and at the slipped
price, are whole (`UnitAssumption`): the code's are fractions, and with whole ones equations about cash are equations.  `Fifo` has the two matchings of lots side by side; `RunnerLot` and `RouterLot` keep their
two ways of consuming a lot.

### ExchangeCalls, MarketData

A caller is `idle`, `waiting` for an answer or `asleep` before its next attempt; the steps are `Call` (with `CheckBreaker`),
`Answered`, `Refused` (an error that is not retried), `Fails`, `Retry`, `Exhausted` (with `Count`).  The cooldown instant is
`none`, `open` (it lies ahead) or `expired`, and `CooldownPasses` is time.  `accepted` counts what the exchange accepted of the
order call under way.  In `MarketData` candles are numbered by their start and `now` is forming; a stored candle is `partial` or
`final`.  `FetchPage` is one turn of `fetch_ohlcv_range`'s loop, `StoreRange` the script's save.  The page size an exchange allows
(`cap`) may be smaller than the batch asked for.

### Dashboard, EventFeed, SharedFile

| In the model | In the code |
|---|---|
| `orders`, `cycles`, `number` | rows of orders and cycle_history by id, the bot's counter |
| `conn`, `pc`, `active`, `wm`, `out` | the browser's side, the handler's place in its loop, `_active`, `_Watermarks`, the events collected |
| `Mark` `Collect` `Collected` `Broadcast` `CollectFails` | `_get_initial_watermarks`, the first and the last queries of `_collect_events`, `broadcast`, an exception |
| `file`, `tmp`, `cache` | the file, its temporary file, the cached settings |
| `Open` `Write` `Replace` `ReplaceFails` | `open("w")` (truncates), the dump, `os.replace` |
| `Load` `LoadFails` `Keep` `Clear` | `get_settings` on an empty cache, where `Settings()` may raise; `clear_settings_cache` |
| `Environment`, `Effective`, `OutOfRange` | the fields that environment variables or `.env` set; these over the file over the defaults; a number `SettingsUpdate` takes and `Settings` does not |

A temporary file of a fixed name may be opened by two writers; `at` says whether the file a writer has open is still the temporary
one, is the real one since another writer renamed it, or is gone.  The two files share their writing code in all but the lock and the
cache, so `which` selects the one a behaviour is about.

## 3. Properties and runs

| Run | Checks | Shows |
|---|---|---|
| `exec_faults` | `TypeOK` `FilledIsClosed` `CancelledIsDead` `FollowsLifecycle` | under every fault at once, live and paper, the table never claims a fill or a cancellation the exchange does not have, and the status column refines `OrderLifecycle`, the documented graph and four transitions more |
| `exec_ledger` | `LedgerExact` `FeesExact` `LiveOrdersAreTracked` | live and paper: the portfolio is exact at every step through slippage, fees, expiry, refusal to cancel, rollback; each paper fee is charged once; every live order is open under its real id |
| `exec_live` | `OrdersResolve` | no order stays open for ever |
| `loop` | `TypeOK` `OvershootBounded` `NotifiedOncePerDay` `FirstOrderWithinDrawdown` | budget and breaker, with edits, a midnight, a mishap at any step; a cycle comes to its first order, and to the next ones while none has filled, within the drawdown limit |
| `loop_live` | `OpenOrdersPolled` | polling is not starved by the market gate or by failing cycles |
| `decisions` | `TypeOK` `SellsCovered` `ValuePreserved` `AdvisedOut` `VoteIsComposite` `ExposureOvershootBounded` `FreshBuyNotStopped` | what the requests of one cycle do together, for individual and ensemble signals and every kind of directive |
| `replay` | `BacktestTypeOK` `TradesExplainCash` `ResultExplained` `OrdersExplainBooks` `TradesAgree` | both engines: trades and orders account for cash and position, the result for the books, and both FIFO matchings agree |
| `exchange` | `TypeOK` `ThresholdCools` `CountBounded` `RangeWithoutHoles` `PartialCandlesHeal` `RangeComplete` `CallsReturn` `BreakerRecovers` | the breaker under concurrent calls; pages and candles |
| `dashboard` | `TypeOK` `NeverTwice` `FlagsAsAsked` `RowsReach` `LonePutIsSeen` | events and files |

Three runs check what a comment, a docstring or a declaration of the repository promises and find that the code does otherwise:

| Run | Property | What happens |
|---|---|---|
| `exec_stop_loss` | `SettledLedgerExact` | a stop-loss SELL reserves nothing, `_reconcile_fill` undoes a reservation all the same: the proceeds are missing and the position stays |
| `decisions_entry` | `EntryIsAverage` | a BUY of a held symbol is averaged into the entry price when it is reserved and again when it is filled |
| `replay_oversell` | `NeverShort` | SELLs of one bar, each sized against the whole position, make a backtest's position negative |

### Bounds, and why they are enough

* Orders: `MaxOrders` is 3 for the ledger and 2 under all faults.  The ledger's terms are per order and interact through the
  shared cash and position, so two orders in flight of opposite sides and a third that is waiting show every interaction;
  the statuses of an order depend on no other order.  `MaxBatch` 2 or 3 lets requests of one cycle be ahead of each
  other in the reservation and in the placement loop.
* Prices of `Execution`: one request price and one or two fill prices, different from it in the ledger runs, so that slippage
  moves cash.  `FeeScale = 10` makes fees nonzero; it is 1 where amounts do not matter.
* `Lot` is 2 under all faults, where orders of 3 are cut to 2; elsewhere it is 1 and an amount is what was asked for, since what is cut off
  stays reserved (section 6) and the ledger would not be exact.
* `MaxRaised = 1` exception per behaviour where exceptions occur, at any of the places that can raise.
* `MaxApplied` bounds what increments may book; it is 1 under all faults (one partial fill).  `exec_live` has an exchange
  that words a partly filled order as open, as the client library does: there the bound never holds a poll back, which the
  liveness property would mistake for the code's doing.
* In `exec_ledger` there are no partial fills, no stop-losses, no refused or invalid requests, no lost reply, no exceptions and no crash:
  each of these breaks the ledger in the code as it is (a violation run, and section 6).  Orders may still be
  filled, expire, be rejected by the exchange after they were accepted, and be cancelled as stale; a paper ticker may be
  missing.  The seed is rich enough for every BUY to be reserved in full and for no SELL to empty the position.
* `loop`: budgets of 2 and 3 with an estimate of 2 make the budget reached exactly and passed by one; two edits reach
  "off, then on again" and "raised after the breach"; one midnight; one mishap (an exception or a restart).  Two requests of a
  cycle, so that one is placed after the other has filled.
* `loop_live`: one day and one edit, since polling does not depend on the budget; a pause and its absence.
* `decisions`: two symbols, so that requests of different symbols share the cash; four strategies, so that a vote may be drawn and
  several of them may trade one symbol; three cycles, to open a position, add to it or let it fall, and sell it.  Four analyses and
  five answers of the crew are listed in `MCDecisions` with what each is for.  `decisions_entry` needs two cycles and one rising price.
* `replay`: slippage and fee of 5 per cent on prices of 400 and 800, a balance of 7800 of which a BUY takes up to 48 per cent;
  up to seven candles after a warm-up of two, two prices, six signal lists (up to three SELLs or two BUYs of a bar);
  also no candles and too few of them.  Longer runs repeat a position being opened, sold in part, stopped or closed.
* `exchange`: two callers, two attempts and a threshold of two, so that a call under way when the breaker opens may count again;
  four candles, a limit and a batch of two, page caps of one and of two, one of them below the batch.
* `dashboard`: two connections, of which one may go; two orders that fill in either order; a cycle number that is used again after one
  restart.  Two editing threads, one that only reads and the bot; two fields and two edits, enough for one edit to be lost by
  the other; one of the fields is set by the environment; a value may be out of range.

### Fairness

* `Execution!FairSpec`: the bot's task always goes on (weak fairness on its next step: awaits return or raise, as every call
  has a timeout and a bounded number of retries).  The exchange receives an order that was sent.  Time passes (`OrderAges`).
  Strong fairness on `RunExecution` says the poll interval comes due again and again; strong fairness on the answered poll of
  each order and on `CancelStale` says that the exchange does not fail every query or every cancellation for ever.  Nothing
  is assumed about fills.
* `TradingLoop!FairSpec`: the loop starts a next cycle and ends the one it is in, every phase ends, the stop-loss loop is
  finite, the poll interval elapses.  Nothing is assumed about edits, market data or fills.  `OpenOrdersPolled` excuses a
  pause and a tripped breaker, because the code then really stops polling.

* `MarketData!Spec`: every caller's next step, the bot's answered fetch and the cooldown (requests are answered or time out, sleeps
  end, cycles go on calling).  Nothing is assumed about which errors occur, or about the script.
* `Dashboard!Spec`: the steps of each handler; its database queries run in a thread and return or raise.  Nothing is assumed
  about the bot, the browsers or the files.

Deadlock is checked in every run but three.  `replay` and `replay_oversell` end with a result or a refusal.  In `dashboard` the
bot and the edits are bounded, so a behaviour about files ends, and one about events once every handler has failed.

Every checked property has a *mutant*: a definition next to the original (named in a comment `Mutant of …`) with a plausible
bug.  Under it the property fails, so the property does depend on the code it is about.

## 4. Proofs

All proofs hold for every value of the constants that meets `PortfolioAssumption`, `ExecutionAssumption`,
`TradingLoopAssumption`, `RiskAssumption`, `StrategiesAssumption`, `DecisionsAssumption`, `OptionalAssumption`, `ExchangeCallsAssumption`,
`MarketDataAssumption`, `EventFeedAssumption`, `SharedFileAssumption`, `ReplayAssumption`, `UnitAssumption` and `RiskLimitsAssumption`: any symbols, requests, prices, limits, strategies, faults, numbers
of orders or callers, page sizes and bounds.

**Execution.**  The invariant is `IInv == TypeOK /\ BatchUntouched /\ PollsOpen /\ Rows`.

* `BatchUntouched`: nothing has happened to a request still waiting in the batch, except that the one `create_order` is
  awaited for is PENDING.  Without it `SavePending` or `ExchangeAccepts` might overwrite an order that is already settled.
* `PollsOpen`: a record still to be visited is open, no record is visited twice, and the one being cancelled is open and has
  been visited.  Without it a poll could reopen a terminal record.
* `Rows`: for each order, an open record is pending exactly when its exchange id is unknown; an order the exchange closed is
  completely filled; filled and cancelled records agree with the exchange, and a partly filled one is of an order that has filled in
  part or is over, but was not rejected.  "Pending iff unknown" is what excludes that an answer
  about a record that never reached the exchange turns it into something else.

`InitIInv` and `NextIInv` give `Inductive`; from it follow `ExecutionTypeCorrect`, `FilledOrdersAreClosed` and
`CancelledOrdersAreDead`.  `StepRefines` shows that under `IInv` each step is an `Advance` of one order or leaves `db`
alone, which gives the refinement `StatusesFollowLifecycle`, along the graph with the four undocumented transitions of section 6.  The step proofs go through a few lemmas: `QuietStep` (no row
changes), `OneRowStep` (one row changes), `RaiseStep` (an exception), so that an action only has to show what is its own.
The module begins with the lemmas that each booking maps portfolios to portfolios: amounts never become negative, whatever
is undone.

**TradingLoop.**  The invariant adds to the types that a request exists only between strategy and the end of execution, and past the
limit only once an order of the cycle has filled (`RequestsAreEvaluated`), that from the start of a cycle until the crew runs an estimate at the budget has
stopped it (`BreachStops`), that the crew runs only when allowed (`AdvisedWithin`), and that a notice of today is recorded in
today's budget state (`NoticeRecorded`).  From it follow `TypeCorrect`, `OvershootIsBounded`, `NoticesAreDaily` and
`FirstOrdersWithinDrawdown`.

**MarketData.**  The invariant is `CallsInv /\ DataInv`.  For the call path it adds to the properties that an order call is
accepted at most once per attempt (`AcceptedWithin`), without which `TypeOK`'s bound on accepted copies is not inductive.
`CountBounded` is inductive by itself: a failure is counted as its call leaves, so the sum of both does not grow while a cooldown
stands.  For the history it adds that between two pages the script has exactly the candles before its cursor (`PagesFilled`) and
that it stores only at its end (`LoadedAtEnd`).  `PageIsInterval` says that a page and what is kept of it are intervals from the
cursor; from it follow `RangesHaveNoHoles` and, with the last page's reasons to be the last, `RangesAreComplete`.  That theorem
assumes `Batch > 1`: with pages of one candle the code stops after the first one, because the newest candle does not pass the
cursor.  Nothing in the repository asks for pages of one.  The assumptions are `ExchangeCallsAssumption` and `MarketDataAssumption`.

**Ledger.**  `BooksAreExact` is about the portfolio over a whole behaviour, so its hypothesis names what the code can bear.  `Ample(Q, P)`:
an order fills at once (partial fills are booked again by every poll, section 6); requests are whole lots, at most `Q` at a price of at most
`P`; the faults are those of `CalmFaults`; and the seed affords every order there can be at any price, twice, since an order is
validated after its own reservation and fees are taken as well.  `exec_ledger` is an instance, with `Q = 10` and `P = 3`
(`Rich` in `MCExecution`).  Under it `AtEase` shows which steps are left: nothing is refused, raises or restarts.  The invariant
`BooksInv` adds to `LedgerExact`

* `SnapExact`: in the reservation phase the snapshot balances the orders before the batch, because a skipped cycle restores it;
* `RowSettled`: an order the table calls settled is so at the exchange, and one that is not closed has filled nothing, so that
  what is undone is exactly what was reserved;
* `FeesBounded`: what has been charged and what may still be charged together stay below one fee per order.  It is what keeps `Floors`
  true: after everything issued so far there is cash and amount for one more order, so no floor or cap of the portfolio
  operators is met, and `ReservesExactly`, `ReconcilesExactly` and `ReleasesExactly` say that each booking moves what it should;
* `Phases` and `OrdersAsked`: when a snapshot exists, and that every order is a request.

`LedgerRests`, `LedgerMoves` and `LedgerGrows` then say what becomes of the sums when no order, one order or one more order moves.
`PaperFeesExact` needs less: no crash, no database error and no fees at the start (`FeesKept`), because an order of paper mode is
filled before it is looked at.

The sums are the community modules' `SumFunction`, a fold over a set.  `Sums_proofs` proves what the ledger needs of it (`SumSame`,
`SumChanges`, `SumGrows`, `SumOmits`, `SumBound`) for every finite set, by induction on the set of the sizes for which the claim
holds: `SetInduction` is the least-element principle stated for a set instead of a predicate, so that it can be cited.

**Live orders.**  `LiveOrdersStayTracked` adds `TrackedInv` to the invariant of Execution: it says the same of the paper exchange, which keeps
no order open.  Its hypothesis `LosesNoReply` excludes lost replies, database errors and crashes, each of which leaves a live order
behind a terminal or a pending record (section 6).

**Dashboard.**  The invariant is `FeedInv /\ FileInv`; a step of one part leaves the other's variables alone.  `FeedInv` adds to
`NeverTwice` that a watermark is of rows that exist (`MarksExist`) and that what was sent lies at or behind it, what is collected beyond it
(`Announced`).  `FileInv` adds that nobody makes the file once it is there (`NoBoot`), that a reader of flags that are there takes no
step on the file (`ViewersRest`), and that the one thread that writes, undisturbed by others, holds the merge of the file with its edit (`Writers`): the lock
makes that so for the flags, being alone for the settings.  After the replacement it
has nothing cached, and is about to keep what the file and the environment make.  From it follow `DashboardTyped`, `RowsAreSentOnce`, `FlagsFollowPatches` and,
for the action property, `LonePutAnswersTheFile`, for any `Environment`.

**Decisions.**  The invariant `DecisionsInv` adds to the properties

* `Typed` and `Current`: while a cycle decides, what is held is priced as its analyses say, and each request is one the portfolio could
  bear alone (`Held`: a SELL of what is held; a BUY within the position limit and the exposure, not into a position whose stop it is not
  above).  The limits are of one request; the properties are of all of them together;
* `Unadvised`: there is no directive before the crew answers, so that the requests made then break no veto;
* `Asked`: what reaches execution is still asked at the analysed prices, a BUY with its stop below; and `Fresh`, `FreshBuyNotStopped` from
  the reservation on, since booking and settling both write stops.

One lemma for each operator says what it returns, in the order of a cycle: `SaysType` and `AllSignalsType` (a vote's confidence is a mean of
percentages), `RequestOfType` and `ApprovedBuy` (what the pipeline lets through), `ApplyDirectivesType` (what a veto leaves),
`DeduplicatedType` (no symbol is sold twice, no SELL of more than is held), `BookedListKeeps` (value only moves, and the cash that goes is at most
what the BUYs ask for), `SettledListType`.  A list of BUYs passes the exposure limit by one position limit for each after the first, since one
of them stays within the exposure and each within the position limit (`BuysTogether`).  The lists are folds, so these are inductions over the
sets of indices: `FoldExists` and `FoldStays` of `Sums_proofs` for the library's `FoldLeft`, `SublistIsOrdered` for a comprehension.

Two hypotheses are those of integer prices.  `DecisionsAssumption` says that the default stop and the ones the crew advises are at least a unit
away; the code's prices are fractions, for which any distance is positive.  `FreshBuysAreKept` is stated for a bot with `anti_averaging_down`:
without it a BUY below the held stop that is reserved but refused leaves the position at its old stop, and the hook of the same cycle sells it.
`VotesAreComposite` holds for any strategies and any threshold, on each analysis by itself.

**Replay.**  The invariant `BooksInv` is that the books of a backtest are `Books`: explained by their trades (`TradesExplainCash`), and without
a position just when they have no entry bar.  `EnterKeeps` and `LeaveKeeps` say so of the two ways a position changes: what a BUY costs with
its fee stands against the position, and a sale of part of it moves that part, entry fee included, into the trade, because
`Fee(q, p)` is linear in `q`.  They hold for any amount, so also for SELLs of more than is held.  `FilledInTurn` takes the library's
`FoldLeft` over the queue apart into the books after each order, and an induction along it (`PrefixesStay`) gives `FilledKeeps`; the stop, the new
price and the forced close follow.  From it come `TradesAlwaysExplainCash` and, as the closed books have no market value and each trade is
won or lost (`TradesCounted`), `ResultIsExplained`.

`CashCoversBuys` (`BacktestTypeOK`) and `OneSellNeverShort` (`NeverShort`) hold when no bar has two SELLs (`OneSell`: one strategy, or the
ensemble, which makes at most one signal of a symbol).  Their invariant `LongInv` adds that cash, fees, position and stop are not negative and that the queue is `Covered`: its one
SELL was capped at the position it was made for, and a BUY into an open position is skipped, so the position is the same when the
SELL's turn comes.  `QueuedType` shows it of what `_evaluate_signal` returns, `AffordableType` that a reduced BUY and its fee fit the
cash.  Without the hypothesis `NeverShort` fails (`replay_oversell`), and an oversold position bought back at any price may overdraw the
cash; at the prices of the run `replay` it does not.  `RiskLimitsAssumption` says the risk limits are the
settings' ranges, and that the default stop is at least a unit away, as in `DecisionsAssumption`.

`MatchingsAgree` (`TradesAgree`) holds for any list of filled orders, oversold ones included.  Both matchings are folds over the orders whose
step is, for a SELL, a fold over the open lots; `RunnerWalks` and `RouterWalks` take the outer folds apart, `RunnerInTurn` and `RouterInTurn` the inner ones
(`FoldInTurn` of `Sums_proofs` does it for any fold).  `Bare` forgets of a router's lot what is already sold, and charges the fee of what is left.
`MatchesAgree` shows that one turn of each `while` loop does the same to a lot and to its `Bare`: here the share of the whole fee (the router) is
the share of the lowered fee (the runner), since a share of a fee that is a multiple of the amount is exact (`ShareIsExact`).
`StepsAgree` carries this along both folds.  `SimType` provides that every order of a simulation has such a fee, because an order is filled at a slipped price
of `UnitAssumption`; with fees that are rounded the two copies may differ by a unit.

`OrdersExplain` (`OrdersExplainBooks`) follows from `SimBooks`.  Between two bars it says what the property says (`BetweenBars`).  While a bar
is in execution (`WithinBar`) the account already holds the reservations of all its requests, so the orders explain the account before it, `snap`;
and the requests are `Sequenced`: BUYs, then at most one SELL of no more than `snap` held (`DecidedType`, from the pipeline's cap and `BuysFirst`).
`ReservedInFull`: when no BUY is scaled down, each moves its whole notional into the position, the SELL finds what it sells, and at the end
every BUY is still held, because the SELL takes no more than was there before them.  That is what undoing the reservation of a BUY needs, which
floors the position at zero; a SELL before its BUYs, or a second SELL, would break it.  `ExecutionBooked` goes along the requests: after the i-th the cash is what the
orders explain plus what the other requests reserved (`Booked`).  A filled BUY adds a lot at its cost (`BuyEffect`); a SELL of no more than the lots hold
closes exactly what it sells, and profit and remaining cost together move by its proceeds (`SellEffect`, lot by lot `MeetingEffect`).
The hypotheses of the property are `plain`'s: a scaled or refused request leaves a reservation, and a stop sells what was not reserved, which the orders then do not
explain (section 6).

**Only model-checked:** the liveness properties (the proof system has no rules for fairness and ENABLED
here).  That `DecisionsInv` is an invariant was checked on the instance of `decisions` before it was proved.

## 5. Limits of the models

* An order fills at one price; the exchange's own fee is taken to be the default rate.
* In `Execution` an order has at most one counterpart at the exchange: that a retried `create_order` may place it again is
  in `ExchangeCalls` only.
* The balance sync (`balance_sync_interval_seconds`) may move the drawdown in `TradingLoop`, but does not overwrite cash in
  `Execution`.
* The stop-loss condition is a free choice (`stop_loss` in `Faults`), made for any held position.
* `RefreshDay` and `Degraded` read the clock once in the model, twice in the code, without an await between.
* In `TradingLoop` settings other than the budget's are fixed and stay within their ranges, the advisory crew is configured.
* In `Decisions` every request that is valid fills at once, in full, at its price and without a fee, the cycle always executes,
  and the stop-loss hook does not run; slippage, partial fills and the hook are `Execution`'s.  Take-profit prices are left out: nothing reads them.
* `Simulation` and `Backtest` have one symbol, confidence 1 for every signal and no advisory crew (the API never supplies one).
  The Sharpe ratio, times and names are left out.
* `EventFeed` takes all queries of `_collect_events` but the last as one step, and has two of the four kinds of rows.
* In `SharedFile` a crash of a process in the middle of a write is left out; the first run without runtime.yaml is modelled, but
  `FlagsAsAsked` excuses it.
* The candle script has an exchange service of its own, so that only the outcome of each of its calls counts.

## 6. Observed, without a run

The models contain the behaviours below, faithful to the code.  Some contradict a sentence of the repository, which is quoted; they
are listed here rather than as runs because the three runs above concern the same bookkeeping or are more serious.

Execution and loop:

* The statuses do not keep to the transitions in the docstring of `OrderStatus` (`models/order.py:33-36`), which has PENDING become OPEN or
  REJECTED, OPEN become PARTIALLY_FILLED, FILLED or CANCELLED, and PARTIALLY_FILLED become FILLED.  `OrderLifecycle!Undocumented` has the four
  others that occur: PENDING to FILLED (every paper order) and PENDING to CANCELLED, since the record takes the status `create_order` answered with
  (`services/execution_service.py:341`); OPEN to REJECTED, found by a poll (`:523`); PARTIALLY_FILLED to CANCELLED, when the
  rest expires or is stale (`:523`, `:565`).
* The requests of a cycle are placed one after the other (`services/execution_service.py:210`).  A fill at placement moves the cash by its
  slippage and fee (`:368`), and so the drawdown, and the breaker is not looked at before the next request; an order may be placed past the
  limit.  `risk/circuit_breaker.py:3-5` says it "pauses all trading activity when the maximum allowed drawdown is breached",
  `USER_MANUAL.md:353` that "All trading stops".
* A partial fill is booked again by every poll (`services/execution_service.py:464`): the record's filled amount is not saved;
  the docstring says "Apply only the incremental delta from a partial fill" (`:760`).
* A restart begins with the seed portfolio and saves it over the last one (`main.py:598`); `db/models.py:235` promises "so the system
  can recover to the last known state on restart".
* With execution paused the stop-loss hook still places a SELL (`flows/trading_flow.py:409`); the controls page promises that
  "no orders will be placed until execution is unpaused".
* A budget breached and then disabled keeps its stop past midnight (`main.py:254`); the notice says "until UTC day reset".
* A request that is invalid, refused or rejected at placement keeps its reservation.  A BUY above half of the cash is always
  refused, because it is validated after its own reservation.
* An exception in the execution phase rolls back fills that were already booked; a database error after a booking makes the next
  poll book it again; fees are never rolled back.
* A reply that is lost leaves a live order behind a REJECTED record; a crash before the promotion leaves a PENDING record
  that every later poll asks for in vain (in paper mode the answer raises each time).
* Cancelling a SELL of the whole position loses the amount.  A BUY that was scaled down to the cash is undone in full.
* A partly filled order that does not grow is never cancelled as stale once its record is up to date.
* A fill between the poll and the cancellation is released as if it had not happened.
* The run plan's docstring promises execution when there are new requests; a cycle whose poll is not due drops them.
* `docs/configuration.md` speaks of stopping when the projected cost *would* breach the budget; the code stops once it has.
* What rounding to the exchange's precision cuts off an amount stays reserved (`services/execution_service.py:294`): the reservation
  was for the request, the reconciliation undoes that of the rounded order.
* A tripped breaker halts polling too; tokens of a cycle that raised are not counted; a restart resets budget and breaker.

Decisions:

* Sentiment never reaches the score: `compute_uncertainty` reads `last_sentiment` of a service that has no such attribute
  (`flows/trading_flow.py:208`); `ARCHITECTURE.md:125` lists it as a factor.
* BUYs of one cycle may jointly pass the exposure limit of `USER_MANUAL.md:375`; `ExposureOvershootBounded` says by how much.
* `tighten_stop_loss` may widen a stop, and `reduce_position_size` changes the confidence and no size (`models/advisory.py:85-121`;
  `ARCHITECTURE.md:144`).
* A MACD histogram of exactly 0 is a SELL when no minimum is set.

Backtests:

* A position that was oversold is bought back with a negative fee (`services/backtest_service.py:552`).
* A stop is filled at the stop price although the candle opened below it.  The fast engine's `final_balance` is that after the forced
  close, its curve ends before it.
* The simulation's forced close sells without a reservation and is reconciled like the stop-loss order: the position stays and the
  cash is short.  Its trades are dated by the wall clock, not by the bar.
* Both FIFO matchings ignore what was filled of an order that was then cancelled.

Exchange and candles:

* An exchange whose pages are smaller than `batch_size` ends a range after the first page (`services/exchange_service.py:315`); the
  docstring speaks of all candles in the range.
* The script's save puts its older, partial reading over a final candle the bot stored meanwhile.
* An order whose reply is lost is sent again, up to `MAX_RETRIES` times, without a client order id.
* Calls under way go on retrying while the breaker is open, and may open it anew.

Dashboard:

* An order that fills after the handler's watermark has passed its row is never announced (`api/websocket.py:170`), although
  `USER_MANUAL.md:463` lists the event.
* A restarted bot counts its cycles from 1 and overwrites old rows (`services/database_service.py:570`, "so the history table
  remains consistent"): they are not announced, and the newest cycle the API shows is an old one until the count has passed it.
* The handler of a closed tab polls for ever; each handler broadcasts to all tabs, so that two tabs see each event twice.
* Before runtime.yaml exists a read that makes it may overwrite a PATCH; "The bot only ever reads this file"
  (`config/runtime_flags.py:8`).
* A PUT of a field that an environment variable or `.env` sets is written and answered with the old value, by the precedence
  `config/settings.py:82` documents.
* `SettingsUpdate` has no ranges (`api/schemas.py:343`), `Settings` has.  A PUT of a number out of its range is written and then fails
  (`api/routers/settings.py:134-144`); so does every later GET of the settings, and every cycle of the bot (`main.py:672`), until the file
  is mended.  `DEVELOPER_MANUAL.md:993` says that after a PUT "the API process picks up the new values immediately".
* `DEVELOPER_MANUAL.md:993` says that the bot uses its startup copy of the settings until it restarts; it loads them in each cycle
  (`main.py:672`).
* Two PUTs of settings at a time lose an update, may tear the file, or leave stale settings in the cache.

## 7. Plan

Done: the modules, runs and theorems above.  What is left, in this order:

1. The balance sync in `Execution` and what it does to `LedgerExact`.
2. A second exchange order per request in `Execution`, as `ExchangeCalls` allows it.
3. A ledger of increments, so that partial fills can be checked apart from their being booked twice.

## 8. Not modelled

Indicators (numerical analysis of candles), sentiment and LLM calls (external; an answer is a free choice), the order book and
balance calls of the exchange adapter and its sessions, the routers that only query, schemas and rendering, notifications, agent tools
(formatting for an LLM), database sessions and migrations, the shutdown signal, the ranges of the single settings.
