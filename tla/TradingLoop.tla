----------------------------- MODULE TradingLoop -----------------------------
(***************************************************************************)
(* main_async and the routing of TradingFlow: what a cycle is allowed to   *)
(* do, given settings and pause flags another process edits at any time,   *)
(* the execution poll interval, the daily token budget and the portfolio   *)
(* circuit breaker.  A step is the code between two awaits.                *)
(*                                                                         *)
(* What Execution details is one step here: reqs is how many order         *)
(* requests the cycle holds, open how many orders are open.  Limits of the *)
(* model: the advisory crew is configured, and advisory_enabled, the       *)
(* activation threshold, the poll interval, the stop-loss switch and the   *)
(* token estimate are not edited while the bot runs; edited settings stay  *)
(* within their ranges (SharedFile has those that do not).                 *)
(***************************************************************************)
EXTENDS Integers

CONSTANTS
  Budgets,      \* values of daily_token_budget_tokens
  Estimate,     \* advisory_estimated_tokens
  MaxRequests,  \* bound: order requests in one cycle
  MaxOpen,      \* bound: open orders
  MaxDay,       \* bound: days
  MaxUsed,      \* bound: tokens estimated in one day
  MaxEdits,     \* bound: edits of settings.yaml
  MaxToggles,   \* bound: edits of runtime.yaml
  MaxMishaps    \* bound: cycles that raise, and restarts

ASSUME TradingLoopAssumption ==
  /\ Budgets \subseteq Nat \ {0}
  /\ Estimate \in Nat \ {0}
  /\ MaxRequests \in Nat /\ MaxOpen \in Nat /\ MaxDay \in Nat /\ MaxUsed \in Nat
  /\ MaxEdits \in Nat /\ MaxToggles \in Nat /\ MaxMishaps \in Nat

VARIABLES
  file,     \* settings.yaml, the part below
  toggles,  \* runtime.yaml
  today,    \* the UTC date
  due,      \* the execution poll interval has elapsed since last_execution_poll
  cfg,      \* the settings this cycle read
  flags,    \* the runtime flags this cycle read
  plan,     \* RunPlan
  budget,   \* BudgetRuntimeState
  tripped,  \* CircuitBreaker.is_tripped
  over,     \* the portfolio's drawdown is past the limit
  pc,       \* the phase the flow is about to run
  reqs,     \* order requests the cycle holds
  ran,      \* state.advisory_ran
  filled,   \* an order of the cycle has filled; state.filled_orders in the end
  open,     \* open orders in the database
  edits, flips, mishaps, \* counters for the bounds
  notices   \* history: budget notices of this process since midnight

fileVars  == <<file, toggles, edits, flips>>
cycleVars == <<cfg, flags>>
flowVars  == <<reqs, ran, filled>>
vars == <<fileVars, today, due, cycleVars, plan, budget, tripped, over, pc,
          flowVars, open, mishaps, notices>>

Settings == [enabled : BOOLEAN, stop : BOOLEAN, tokens : Budgets]
Flags    == [execution_paused : BOOLEAN, advisory_paused : BOOLEAN]
Unread   == -1
Plans    == [strategy : BOOLEAN, execution : BOOLEAN, open : Unread .. MaxOpen]
BudgetStates == [day : 0 .. MaxDay, used : 0 .. MaxUsed, notified : BOOLEAN, stopped : BOOLEAN]
PCs == {"idle", "market", "strategy", "uncertainty", "advisory", "reserve",
        "execution", "execution_only", "hooks", "stop_losses", "end"}

FreshPlan == [strategy |-> TRUE, execution |-> TRUE, open |-> Unread]
FreshBudget(day) == [day |-> day, used |-> 0, notified |-> FALSE, stopped |-> FALSE]

Init ==
  /\ file \in Settings /\ toggles = [execution_paused |-> FALSE, advisory_paused |-> FALSE]
  /\ today = 0 /\ due = TRUE
  /\ cfg = file /\ flags = toggles
  /\ plan = FreshPlan /\ budget = FreshBudget(0)
  /\ tripped = FALSE /\ over = FALSE
  /\ pc = "idle" /\ reqs = 0 /\ ran = FALSE /\ filled = FALSE
  /\ open = 0 /\ edits = 0 /\ flips = 0 /\ mishaps = 0 /\ notices = 0
-----------------------------------------------------------------------------
(* The start of a cycle. *)

\* Mutant of RefreshDay: disabling the budget forgets the day's estimate.
RefreshOnDisable(b, s) ==
  IF ~s.enabled \/ b.day # today THEN FreshBudget(today) ELSE b

\* _refresh_budget_day: a disabled budget keeps yesterday's state.
RefreshDay(b, s) == IF s.enabled /\ b.day # today THEN FreshBudget(today) ELSE b

\* Mutant of Breached: the budget must be exceeded, not reached.
BreachedLate(b, s) == s.enabled /\ s.stop /\ ~b.stopped /\ b.used > s.tokens

\* _update_degrade_level, on a state already refreshed.
Breached(b, s) == s.enabled /\ s.stop /\ ~b.stopped /\ b.used >= s.tokens

Degraded(b, s) == IF Breached(b, s) THEN [b EXCEPT !.stopped = TRUE, !.notified = TRUE] ELSE b

\* _build_run_plan: open orders are counted only when execution is due, and a
\* pause overrides the plan after the count.
PlanFor(f) == [strategy |-> TRUE,
               execution |-> due /\ ~f.execution_paused,
               open |-> IF due THEN open ELSE Unread]

\* The balance sync that precedes the plan may move the drawdown.
BeginCycle ==
  /\ pc = "idle"
  /\ over' \in BOOLEAN
  /\ cfg' = file /\ flags' = toggles
  /\ plan' = PlanFor(toggles)
  /\ LET b == RefreshDay(budget, file)
     IN  /\ budget' = Degraded(b, file)
         /\ notices' = IF Breached(b, file) /\ ~b.notified THEN notices + 1 ELSE notices
  /\ pc' = "market"
  /\ UNCHANGED <<fileVars, today, due, tripped, flowVars, open, mishaps>>

\* count_open_orders raises: the day is refreshed, the breach not looked for.
BeginRaises ==
  /\ pc = "idle" /\ due
  /\ mishaps < MaxMishaps /\ mishaps' = mishaps + 1
  /\ cfg' = file /\ flags' = toggles
  /\ budget' = RefreshDay(budget, file)
  /\ UNCHANGED <<fileVars, today, due, plan, tripped, over, pc, flowVars, open, notices>>
-----------------------------------------------------------------------------
(* The phases of TradingFlow. *)

\* Mutant of Gated: without market data nothing runs, open orders or not.
GatedAll(p, found) ==
  IF found THEN p ELSE [p EXCEPT !.strategy = FALSE, !.execution = FALSE]

\* _apply_market_data_gate.
Gated(p, found) ==
  IF found THEN p
           ELSE [p EXCEPT !.strategy = FALSE, !.execution = @ /\ p.open > 0]

\* market_phase and route_after_market: fresh prices may move the drawdown past
\* the limit or back.  A halted flow ends here.
MarketPhase ==
  /\ pc = "market"
  /\ \E found \in BOOLEAN :
       /\ plan' = Gated(plan, found)
       /\ over' \in IF found THEN BOOLEAN ELSE {over}
  /\ pc' = CASE tripped -> "end"
             [] ~tripped /\ plan'.strategy -> "strategy"
             [] ~tripped /\ ~plan'.strategy /\ plan'.execution -> "execution_only"
             [] OTHER -> "hooks"
  /\ UNCHANGED <<fileVars, today, due, cycleVars, budget, tripped, flowVars, open, mishaps, notices>>

\* Mutant of EvaluateSignals: the breaker is left to the end of the cycle.
EvaluateUnchecked ==
  \E signals \in 0 .. MaxRequests : reqs' \in 0 .. signals /\ UNCHANGED tripped

\* The risk pipeline on the signals of a phase: the breaker is checked for each.
EvaluateSignals ==
  \E signals \in 0 .. MaxRequests :
    /\ tripped' = (tripped \/ (over /\ signals > 0))
    /\ reqs' \in IF tripped' THEN {0} ELSE 0 .. signals

StrategyPhase ==
  /\ pc = "strategy"
  /\ EvaluateSignals
  /\ pc' = "uncertainty"
  /\ UNCHANGED <<fileVars, today, due, cycleVars, plan, budget, over, ran, filled, open, mishaps, notices>>

\* route_after_uncertainty.  The score may recommend the advisory crew or not.
Advisable == ~flags.advisory_paused /\ ~budget.stopped

RouteAdvisory ==
  /\ pc = "uncertainty"
  /\ \/ Advisable /\ budget.used + Estimate <= MaxUsed /\ pc' = "advisory"
     \/ pc' = "reserve"
  /\ UNCHANGED <<fileVars, today, due, cycleVars, plan, budget, tripped, over, flowVars, open, mishaps, notices>>

\* The crew approves as is, or its directives make the pipeline run again.
AdvisoryPhase ==
  /\ pc = "advisory"
  /\ ran' = TRUE
  /\ EvaluateSignals \/ UNCHANGED <<tripped, reqs>>
  /\ pc' = "reserve"
  /\ UNCHANGED <<fileVars, today, due, cycleVars, plan, budget, over, filled, open, mishaps, notices>>

\* The crew fails: the original requests stand, no token is counted.
AdvisoryFails ==
  /\ pc = "advisory"
  /\ pc' = "reserve"
  /\ UNCHANGED <<fileVars, today, due, cycleVars, plan, budget, tripped, over, flowVars, open, mishaps, notices>>

\* reserve_phase and route_after_reserve: without execution the requests are
\* rolled back.
RouteExecution ==
  /\ pc = "reserve"
  /\ pc' = IF plan.execution THEN "execution" ELSE "hooks"
  /\ reqs' = IF plan.execution THEN reqs ELSE 0
  /\ UNCHANGED <<fileVars, today, due, cycleVars, plan, budget, tripped, over, ran, filled, open, mishaps, notices>>

\* execution_phase, one turn of process_order_requests: the order rests, fills at
\* once, which moves the drawdown by its slippage and fee, or is dead-lettered.
\* Nothing looks at the breaker between two requests.
PlaceRequest ==
  /\ pc = "execution" /\ reqs > 0 /\ reqs' = reqs - 1
  /\ \/ open < MaxOpen /\ open' = open + 1 /\ UNCHANGED <<over, filled>>
     \/ filled' = TRUE /\ over' \in BOOLEAN /\ UNCHANGED open
     \/ UNCHANGED <<open, over, filled>>
  /\ UNCHANGED <<fileVars, today, due, cycleVars, plan, budget, tripped, pc, ran, mishaps, notices>>

\* execution_phase after its requests, and execution_only_phase: open orders may
\* close.  A fill, a partial one too, and a release may move the drawdown.
PollOrders ==
  /\ pc = "execution_only" \/ (pc = "execution" /\ reqs = 0)
  /\ open' \in 0 .. open
  /\ filled' \in IF open' < open THEN {filled, TRUE} ELSE {filled}
  /\ over' \in IF open > 0 THEN BOOLEAN ELSE {over}
  /\ pc' = "hooks"
  /\ UNCHANGED <<fileVars, today, due, cycleVars, plan, budget, tripped, reqs, ran, mishaps, notices>>

\* Neither phase lets an exception out: the requests left are dropped, and what
\* has filled is not in state.filled_orders.  A write that raised may leave one
\* more open record, or orders polled.
ExecutionRaises ==
  /\ pc \in {"execution", "execution_only"}
  /\ open' \in IF reqs > 0 THEN {open, open + 1} \cap (0 .. MaxOpen) ELSE 0 .. open
  /\ over' \in IF reqs > 0 \/ open > 0 \/ filled THEN BOOLEAN ELSE {over}
  /\ reqs' = 0 /\ filled' = FALSE /\ pc' = "hooks"
  /\ UNCHANGED <<fileVars, today, due, cycleVars, plan, budget, tripped, ran, mishaps, notices>>

\* post_cycle_hooks: a fill makes the breaker look at the portfolio.
PostCycleHooks ==
  /\ pc = "hooks"
  /\ tripped' = (tripped \/ (filled /\ over))
  /\ pc' = "stop_losses"
  /\ UNCHANGED <<fileVars, today, due, cycleVars, plan, budget, over, flowVars, open, mishaps, notices>>

\* _check_stop_losses places a SELL of its own, whatever the plan says.  Its
\* fill is not shown to the breaker.
StopLossSell ==
  /\ pc = "stop_losses"
  /\ \/ open < MaxOpen /\ open' = open + 1 /\ UNCHANGED over
     \/ over' \in BOOLEAN /\ UNCHANGED open
  /\ UNCHANGED <<fileVars, today, due, cycleVars, plan, budget, tripped, pc, flowVars, mishaps, notices>>

FinishHooks ==
  /\ pc = "stop_losses"
  /\ pc' = "end"
  /\ UNCHANGED <<fileVars, today, due, cycleVars, plan, budget, tripped, over, flowVars, open, mishaps, notices>>

\* The flow object is dropped with its state.
FlowGone == plan' = FreshPlan /\ reqs' = 0 /\ ran' = FALSE /\ filled' = FALSE

\* Mutant of Accumulated: tokens are counted whether or not the crew ran.
AccumulatedAlways(b, s) == IF s.enabled THEN [b EXCEPT !.used = @ + Estimate] ELSE b

\* Back in main_async: the poll time is that of the start of the cycle, and
\* tokens are counted under the settings of the cycle.
Accumulated(b, s) == IF s.enabled /\ ran THEN [b EXCEPT !.used = @ + Estimate] ELSE b

EndCycle ==
  /\ pc = "end"
  /\ due' = (due /\ ~plan.execution)
  /\ budget' = Accumulated(budget, cfg)
  /\ pc' = "idle" /\ FlowGone
  /\ UNCHANGED <<fileVars, today, cycleVars, tripped, over, open, mishaps, notices>>

\* An exception leaves the flow: the loop goes on, and neither the poll time
\* nor the tokens are updated.
CycleRaises ==
  /\ pc \in {"strategy", "advisory"} /\ mishaps < MaxMishaps
  /\ mishaps' = mishaps + 1
  /\ pc' = "idle" /\ FlowGone
  /\ UNCHANGED <<fileVars, today, due, cycleVars, budget, tripped, over, open, notices>>

\* Nothing of the loop survives a restart, the breaker and the budget included.
Restart ==
  /\ mishaps < MaxMishaps /\ mishaps' = mishaps + 1
  /\ due' = TRUE /\ budget' = FreshBudget(today) /\ notices' = 0
  /\ tripped' = FALSE /\ over' = FALSE
  /\ pc' = "idle" /\ FlowGone
  /\ UNCHANGED <<fileVars, today, cycleVars, open>>
-----------------------------------------------------------------------------
(* The rest of the world. *)

\* PUT /api/settings, or an editor.
EditSettings ==
  /\ edits < MaxEdits /\ edits' = edits + 1
  /\ file' \in Settings \ {file}
  /\ UNCHANGED <<toggles, flips, today, due, cycleVars, plan, budget, tripped, over, pc, flowVars, open, mishaps, notices>>

\* PATCH /api/controls.
Toggle ==
  /\ flips < MaxToggles /\ flips' = flips + 1
  /\ toggles' \in Flags \ {toggles}
  /\ UNCHANGED <<file, edits, today, due, cycleVars, plan, budget, tripped, over, pc, flowVars, open, mishaps, notices>>

IntervalElapses ==
  /\ ~due /\ due' = TRUE
  /\ UNCHANGED <<fileVars, today, cycleVars, plan, budget, tripped, over, pc, flowVars, open, mishaps, notices>>

Midnight ==
  /\ today < MaxDay /\ today' = today + 1
  /\ notices' = 0
  /\ UNCHANGED <<fileVars, due, cycleVars, plan, budget, tripped, over, pc, flowVars, open, mishaps>>
-----------------------------------------------------------------------------
FlowNext ==
  \/ MarketPhase \/ StrategyPhase \/ RouteAdvisory \/ AdvisoryPhase \/ AdvisoryFails
  \/ RouteExecution \/ PlaceRequest \/ PollOrders \/ ExecutionRaises
  \/ PostCycleHooks \/ StopLossSell \/ FinishHooks

LoopNext == BeginCycle \/ BeginRaises \/ EndCycle \/ CycleRaises \/ Restart

WorldNext == EditSettings \/ Toggle \/ IntervalElapses \/ Midnight

Next == FlowNext \/ LoopNext \/ WorldNext

Spec == Init /\ [][Next]_vars

\* Every phase ends (calls have timeouts and bounded retries), the stop-loss loop
\* visits each position once, the loop wakes up again, and time passes.
Fairness ==
  /\ WF_vars(BeginCycle) /\ WF_vars(EndCycle)
  /\ WF_vars(FlowNext) /\ WF_vars(FinishHooks)
  /\ WF_vars(IntervalElapses)

FairSpec == Spec /\ Fairness
-----------------------------------------------------------------------------
(* Properties *)

TypeOK ==
  /\ file \in Settings /\ cfg \in Settings
  /\ toggles \in Flags /\ flags \in Flags
  /\ today \in 0 .. MaxDay /\ due \in BOOLEAN
  /\ plan \in Plans /\ budget \in BudgetStates
  /\ tripped \in BOOLEAN /\ over \in BOOLEAN
  /\ pc \in PCs /\ reqs \in 0 .. MaxRequests
  /\ ran \in BOOLEAN /\ filled \in BOOLEAN /\ open \in 0 .. MaxOpen
  /\ edits \in 0 .. MaxEdits /\ flips \in 0 .. MaxToggles /\ mishaps \in 0 .. MaxMishaps
  /\ notices \in Nat

\* The crew is called only while the day's estimate is below the budget of the
\* settings in force, so one activation is the most the estimate can overshoot
\* by: settings edited, a midnight or a restart at any moment notwithstanding.
OvershootBounded ==
  pc = "advisory" /\ cfg.enabled /\ cfg.stop => budget.used < cfg.tokens

\* At most one notice a day, however often the budget is switched off and on or
\* changed after the breach.
NotifiedOncePerDay == notices <= 1

\* A cycle comes to its first order within the drawdown limit, although the halt
\* route looked at the breaker before the prices moved it; and as long as none
\* of its orders has filled, to the next ones too.  Once one has, the rest are
\* placed without another look, past the limit or not.
FirstOrderWithinDrawdown ==
  reqs > 0 => ~tripped /\ (over => pc = "execution" /\ filled)

\* An open order is polled again and again, although the poll time of a cycle
\* that raised or was gated is forgotten, unless the operator pauses execution
\* or the breaker halts the bot.
OpenOrdersPolled ==
  open > 0 ~> \/ open = 0 \/ pc \in {"execution", "execution_only"}
              \/ tripped \/ toggles.execution_paused
=============================================================================
