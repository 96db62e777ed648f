-------------------------- MODULE TradingLoop_proofs --------------------------
(***************************************************************************)
(* Proofs about TradingLoop: its type invariant and its three safety       *)
(* invariants, for every set of budgets and every bound.                   *)
(***************************************************************************)
EXTENDS TradingLoop, TLAPS

\* A request exists only between the strategy phase and the execution phase, so
\* the drawdown a waiting one was checked against is moved by a fill of its own
\* cycle or not at all.
RequestsAreEvaluated ==
  reqs > 0 => /\ pc \in {"uncertainty", "advisory", "reserve", "execution"}
              /\ ~tripped /\ (over => pc = "execution" /\ filled)

\* From the start of the cycle to the advisory phase, an estimate at or past the
\* budget has stopped the crew.
BreachStops ==
  pc \in {"market", "strategy", "uncertainty", "advisory"} /\ cfg.enabled /\ cfg.stop
    => budget.stopped \/ budget.used < cfg.tokens

\* The crew is called when neither the budget nor the bound forbids it.
AdvisedWithin ==
  /\ pc = "advisory" => ~budget.stopped
  /\ pc = "advisory" \/ ran => budget.used + Estimate <= MaxUsed

\* A notice of today is recorded in the budget state of today.
NoticeRecorded ==
  notices # 0 => notices = 1 /\ budget.notified /\ budget.day = today

IInv == TypeOK /\ RequestsAreEvaluated /\ BreachStops /\ AdvisedWithin /\ NoticeRecorded

\* A budget is a number of tokens.
LEMMA TokensAreNumbers == \A s \in Settings : s.tokens \in Int
<1>1. \A s \in Settings : s.tokens \in Budgets
  BY DEF Settings
<1>2. \A t \in Budgets : t \in Int
  BY TradingLoopAssumption
<1> QED
  BY <1>1, <1>2

\* The helpers on the budget state stay in its type and touch only their fields.
LEMMA RefreshDayHelper ==
  ASSUME NEW b \in BudgetStates, NEW s \in Settings, today \in 0 .. MaxDay
  PROVE  /\ RefreshDay(b, s) \in BudgetStates
         /\ RefreshDay(b, s).used <= b.used
         /\ s.enabled => RefreshDay(b, s).day = today
         /\ RefreshDay(b, s) = b \/ b.day # today
<1>1. FreshBudget(today) \in BudgetStates
  BY TradingLoopAssumption DEF FreshBudget, BudgetStates
<1>2. b.used \in Nat
  BY TradingLoopAssumption DEF BudgetStates
<1> QED
  BY <1>1, <1>2 DEF RefreshDay, FreshBudget

\* What _update_degrade_level returns.
LEMMA DegradedHelper ==
  ASSUME NEW b \in BudgetStates, NEW s \in Settings
  PROVE  /\ Degraded(b, s) \in BudgetStates
         /\ Degraded(b, s).used = b.used /\ Degraded(b, s).day = b.day
         /\ Breached(b, s) => Degraded(b, s).stopped /\ Degraded(b, s).notified
         /\ ~Breached(b, s) => Degraded(b, s) = b
<1>1. CASE Breached(b, s)
  BY <1>1 DEF Degraded, BudgetStates
<1>2. CASE ~Breached(b, s)
  BY <1>2 DEF Degraded
<1> QED
  BY <1>1, <1>2

\* A plan stays a plan when it is made, gated or dropped.
LEMMA PlanHelpers ==
  ASSUME NEW p \in Plans, NEW f \in Flags, NEW found \in BOOLEAN,
         due \in BOOLEAN, open \in 0 .. MaxOpen
  PROVE  PlanFor(f) \in Plans /\ Gated(p, found) \in Plans /\ FreshPlan \in Plans
<1>1. FreshPlan \in Plans
  BY TradingLoopAssumption DEF FreshPlan, Plans, Unread
<1>2. PlanFor(f) \in Plans
  <2>1. (IF due THEN open ELSE Unread) \in Unread .. MaxOpen
    BY TradingLoopAssumption DEF Unread
  <2>2. (due /\ ~f.execution_paused) \in BOOLEAN
    OBVIOUS
  <2> QED
    BY <2>1, <2>2, Zenon DEF PlanFor, Plans
<1>3. Gated(p, found) \in Plans
  <2>1. (p.execution /\ p.open > 0) \in BOOLEAN
    OBVIOUS
  <2>2. [p EXCEPT !.strategy = FALSE, !.execution = p.execution /\ p.open > 0] \in Plans
    BY <2>1, Zenon DEF Plans
  <2> QED
    BY <2>2 DEF Gated
<1> QED
  BY <1>1, <1>2, <1>3

\* The initial states satisfy the invariant.
LEMMA InitIInv == Init => IInv
<1> SUFFICES ASSUME Init PROVE IInv
  OBVIOUS
<1>1. FreshPlan \in Plans
  BY TradingLoopAssumption DEF FreshPlan, Plans, Unread
<1>2. FreshBudget(0) \in BudgetStates
  BY TradingLoopAssumption DEF FreshBudget, BudgetStates
<1>3. toggles \in Flags
  BY DEF Init, Flags
<1>4. file \in Settings /\ cfg \in Settings /\ flags \in Flags
  BY <1>3 DEF Init
<1>5. today \in 0 .. MaxDay /\ due \in BOOLEAN /\ plan \in Plans /\ budget \in BudgetStates
  BY TradingLoopAssumption, <1>1, <1>2 DEF Init
<1>6. tripped \in BOOLEAN /\ over \in BOOLEAN /\ ran \in BOOLEAN /\ filled \in BOOLEAN
  BY DEF Init
<1>7. TypeOK
  BY TradingLoopAssumption, <1>3, <1>4, <1>5, <1>6 DEF Init, TypeOK, PCs
<1> QED
  BY <1>7 DEF Init, IInv, RequestsAreEvaluated, BreachStops, AdvisedWithin, NoticeRecorded

\* Every step preserves the invariant.
LEMMA NextIInv == IInv /\ [Next]_vars => IInv'
<1> SUFFICES ASSUME IInv, [Next]_vars PROVE IInv'
  OBVIOUS
<1> USE TradingLoopAssumption
<1>1. CASE BeginCycle
  <2> DEFINE b == RefreshDay(budget, file)
  <2>1. /\ b \in BudgetStates
        /\ b.used <= budget.used
        /\ file.enabled => b.day = today
        /\ b = budget \/ budget.day # today
    BY RefreshDayHelper DEF IInv, TypeOK
  <2>2. /\ budget' = Degraded(b, file)
        /\ notices' = IF Breached(b, file) /\ ~b.notified THEN notices + 1 ELSE notices
        /\ cfg' = file /\ flags' = toggles /\ plan' = PlanFor(toggles) /\ pc' = "market"
        /\ over' \in BOOLEAN
        /\ UNCHANGED <<file, toggles, edits, flips, today, due, tripped, reqs, ran, filled, open, mishaps>>
        /\ pc = "idle"
    BY <1>1 DEF BeginCycle, fileVars, flowVars
  <2>3. /\ Degraded(b, file) \in BudgetStates
        /\ Degraded(b, file).used = b.used /\ Degraded(b, file).day = b.day
        /\ Breached(b, file) => Degraded(b, file).stopped /\ Degraded(b, file).notified
        /\ ~Breached(b, file) => Degraded(b, file) = b
    BY <2>1, DegradedHelper DEF IInv, TypeOK
  <2>4. PlanFor(toggles) \in Plans
    BY PlanHelpers DEF IInv, TypeOK
  <2> HIDE DEF b
  <2>5. TypeOK'
    BY <2>2, <2>3, <2>4 DEF IInv, TypeOK, PCs
  <2>6. RequestsAreEvaluated'
    BY <2>2 DEF IInv, RequestsAreEvaluated
  <2>7. BreachStops'
    <3>1. CASE Breached(b, file)
      BY <2>2, <2>3, <3>1 DEF BreachStops
    <3>2. CASE ~Breached(b, file)
      <4>1. b.used \in Int
        BY <2>1 DEF BudgetStates
      <4>2. file \in Settings
        BY DEF IInv, TypeOK
      <4>3. file.tokens \in Int
        BY <4>2, TokensAreNumbers
      <4>4. file.enabled /\ file.stop => b.stopped \/ b.used < file.tokens
        BY <3>2, <4>1, <4>3 DEF Breached
      <4> QED
        BY <2>2, <2>3, <3>2, <4>4, Zenon DEF BreachStops
    <3> QED
      BY <3>1, <3>2
  <2>8. AdvisedWithin'
    <3>1. b.used \in Int /\ budget.used \in Int
      BY <2>1 DEF BudgetStates, IInv, TypeOK
    <3> QED
      BY <2>1, <2>2, <2>3, <3>1 DEF IInv, AdvisedWithin
  <2>9. NoticeRecorded'
    <3>1. CASE Breached(b, file)
      <4>1. b.day = today
        BY <2>1, <3>1 DEF Breached
      <4>2. ~b.notified => notices = 0
        BY <2>1, <4>1 DEF IInv, NoticeRecorded
      <4> QED
        BY <2>2, <2>3, <3>1, <4>1, <4>2 DEF IInv, NoticeRecorded
    <3>2. CASE ~Breached(b, file)
      BY <2>1, <2>2, <2>3, <3>2 DEF IInv, NoticeRecorded
    <3> QED
      BY <3>1, <3>2
  <2> QED
    BY <2>5, <2>6, <2>7, <2>8, <2>9 DEF IInv
<1>2. CASE BeginRaises
  <2> DEFINE b == RefreshDay(budget, file)
  <2>1. /\ b \in BudgetStates
        /\ b.used <= budget.used
        /\ b = budget \/ budget.day # today
    BY RefreshDayHelper DEF IInv, TypeOK
  <2>2. /\ pc = "idle" /\ pc' = "idle"
        /\ mishaps < MaxMishaps /\ mishaps' = mishaps + 1
        /\ cfg' = file /\ flags' = toggles /\ budget' = b
        /\ UNCHANGED <<file, toggles, edits, flips, today, due, plan, tripped, over, reqs, ran,
                       filled, open, notices>>
    BY <1>2 DEF BeginRaises, fileVars, flowVars
  <2>3. b.used \in Int /\ budget.used \in Int
    BY <2>1 DEF BudgetStates, IInv, TypeOK
  <2> HIDE DEF b
  <2> QED
    BY <2>1, <2>2, <2>3
       DEF IInv, TypeOK, RequestsAreEvaluated, BreachStops, AdvisedWithin, NoticeRecorded
<1>3. CASE MarketPhase
  <2>1. plan' \in Plans /\ over' \in BOOLEAN
    <3>1. PICK found \in BOOLEAN : plan' = Gated(plan, found) /\ over' \in IF found THEN BOOLEAN ELSE {over}
      BY <1>3 DEF MarketPhase
    <3> QED
      BY <3>1, PlanHelpers DEF IInv, TypeOK
  <2>2. pc = "market" /\ pc' \in {"end", "strategy", "execution_only", "hooks"}
    BY <1>3 DEF MarketPhase
  <2>3. UNCHANGED <<fileVars, today, due, cycleVars, budget, tripped, flowVars, open, mishaps, notices>>
    BY <1>3 DEF MarketPhase
  <2> QED
    BY <2>1, <2>2, <2>3 DEF PCs, fileVars, cycleVars, flowVars,
       IInv, TypeOK, RequestsAreEvaluated, BreachStops, AdvisedWithin, NoticeRecorded
<1>4. CASE StrategyPhase
  <2> QED
    BY <1>4 DEF StrategyPhase, EvaluateSignals, PCs, fileVars, cycleVars, flowVars,
       IInv, TypeOK, RequestsAreEvaluated, BreachStops, AdvisedWithin, NoticeRecorded
<1>5. CASE RouteAdvisory
  <2> QED
    BY <1>5 DEF RouteAdvisory, Advisable, PCs, fileVars, cycleVars, flowVars,
       IInv, TypeOK, RequestsAreEvaluated, BreachStops, AdvisedWithin, NoticeRecorded
<1>6. CASE AdvisoryPhase
  <2> QED
    BY <1>6 DEF AdvisoryPhase, EvaluateSignals, PCs, fileVars, cycleVars, flowVars,
       IInv, TypeOK, RequestsAreEvaluated, BreachStops, AdvisedWithin, NoticeRecorded
<1>7. CASE AdvisoryFails
  <2> QED
    BY <1>7 DEF AdvisoryFails, PCs, fileVars, cycleVars, flowVars,
       IInv, TypeOK, RequestsAreEvaluated, BreachStops, AdvisedWithin, NoticeRecorded
<1>8. CASE RouteExecution
  <2> QED
    BY <1>8 DEF RouteExecution, PCs, fileVars, cycleVars, flowVars,
       IInv, TypeOK, RequestsAreEvaluated, BreachStops, AdvisedWithin, NoticeRecorded
<1>9. CASE PlaceRequest
  <2>1. /\ pc = "execution" /\ reqs > 0 /\ reqs' = reqs - 1 /\ pc' = pc
        /\ UNCHANGED <<fileVars, today, due, cycleVars, plan, budget, tripped, ran, mishaps, notices>>
    BY <1>9 DEF PlaceRequest
  <2>2. /\ reqs \in 0 .. MaxRequests /\ open \in 0 .. MaxOpen
        /\ over \in BOOLEAN /\ filled \in BOOLEAN
    BY DEF IInv, TypeOK
  <2>3. \/ open < MaxOpen /\ open' = open + 1 /\ UNCHANGED <<over, filled>>
        \/ filled' = TRUE /\ over' \in BOOLEAN /\ UNCHANGED open
        \/ UNCHANGED <<open, over, filled>>
    BY <1>9 DEF PlaceRequest
  <2>4. over' \in BOOLEAN /\ filled' \in BOOLEAN
    BY <2>2, <2>3
  <2>5. over' /\ ~filled' => over /\ ~filled
    BY <2>2, <2>3
  <2>6. open' \in 0 .. MaxOpen /\ reqs' \in 0 .. MaxRequests
    BY <2>1, <2>2, <2>3
  <2> QED
    BY <2>1, <2>4, <2>5, <2>6 DEF PCs, fileVars, cycleVars,
       IInv, TypeOK, RequestsAreEvaluated, BreachStops, AdvisedWithin, NoticeRecorded
<1>10. CASE PollOrders \/ ExecutionRaises
  <2>1. /\ pc \in {"execution", "execution_only"} /\ pc' = "hooks"
        /\ reqs' \in {0, reqs} /\ (reqs' = 0 \/ pc = "execution_only")
        /\ UNCHANGED <<fileVars, today, due, cycleVars, plan, budget, tripped, ran, mishaps, notices>>
    BY <1>10 DEF PollOrders, ExecutionRaises
  <2>2. over' \in BOOLEAN /\ filled' \in BOOLEAN
    BY <1>10 DEF PollOrders, ExecutionRaises, IInv, TypeOK
  <2>3. open' \in 0 .. MaxOpen
    <3>1. open \in 0 .. MaxOpen /\ MaxOpen \in Nat
      BY DEF IInv, TypeOK
    <3>2. open' \in {open, open + 1} \cap (0 .. MaxOpen) \/ open' \in 0 .. open
      BY <1>10, Zenon DEF PollOrders, ExecutionRaises
    <3> QED
      BY ONLY <3>1, <3>2
  <2>4. reqs' = 0
    BY <2>1 DEF IInv, TypeOK, RequestsAreEvaluated
  <2> QED
    BY <2>1, <2>2, <2>3, <2>4 DEF PCs, fileVars, cycleVars,
       IInv, TypeOK, RequestsAreEvaluated, BreachStops, AdvisedWithin, NoticeRecorded
<1>11. CASE PostCycleHooks
  <2> QED
    BY <1>11 DEF PostCycleHooks, PCs, fileVars, cycleVars, flowVars,
       IInv, TypeOK, RequestsAreEvaluated, BreachStops, AdvisedWithin, NoticeRecorded
<1>12. CASE StopLossSell \/ FinishHooks
  <2> QED
    BY <1>12 DEF StopLossSell, FinishHooks, PCs, fileVars, cycleVars, flowVars,
       IInv, TypeOK, RequestsAreEvaluated, BreachStops, AdvisedWithin, NoticeRecorded
<1>13. CASE EndCycle
  <2>1. FreshPlan \in Plans
    BY DEF FreshPlan, Plans, Unread
  <2>2. Accumulated(budget, cfg) \in BudgetStates
    <3>1. CASE cfg.enabled /\ ran
      <4>1. budget.used + Estimate \in 0 .. MaxUsed
        BY <3>1 DEF IInv, TypeOK, AdvisedWithin, BudgetStates
      <4> QED
        BY <3>1, <4>1 DEF Accumulated, BudgetStates, IInv, TypeOK
    <3> QED
      BY <3>1 DEF Accumulated, IInv, TypeOK
  <2>3. /\ Accumulated(budget, cfg).day = budget.day
        /\ Accumulated(budget, cfg).notified = budget.notified
    BY DEF Accumulated, BudgetStates, IInv, TypeOK
  <2>4. /\ budget' = Accumulated(budget, cfg) /\ due' \in BOOLEAN
        /\ pc' = "idle" /\ plan' = FreshPlan /\ reqs' = 0 /\ ran' = FALSE /\ filled' = FALSE
        /\ UNCHANGED <<fileVars, today, cycleVars, tripped, over, open, mishaps, notices>>
    BY <1>13 DEF EndCycle, FlowGone
  <2>5. ~ran' /\ ran' \in BOOLEAN /\ filled' \in BOOLEAN
    BY <2>4
  <2> QED
    BY <2>1, <2>2, <2>3, <2>4, <2>5 DEF PCs, fileVars, cycleVars,
       IInv, TypeOK, RequestsAreEvaluated, BreachStops, AdvisedWithin, NoticeRecorded
<1>14. CASE CycleRaises
  <2>1. FreshPlan \in Plans
    BY DEF FreshPlan, Plans, Unread
  <2>3. ~ran' /\ ran' \in BOOLEAN /\ filled' \in BOOLEAN
    BY <1>14 DEF CycleRaises, FlowGone
  <2> QED
    BY <1>14, <2>1, <2>3 DEF CycleRaises, FlowGone, PCs, fileVars, cycleVars,
       IInv, TypeOK, RequestsAreEvaluated, BreachStops, AdvisedWithin, NoticeRecorded
<1>15. CASE Restart
  <2>1. FreshPlan \in Plans
    BY DEF FreshPlan, Plans, Unread
  <2>2. FreshBudget(today) \in BudgetStates
    BY DEF FreshBudget, BudgetStates, IInv, TypeOK
  <2>3. ~ran' /\ ran' \in BOOLEAN /\ filled' \in BOOLEAN
    BY <1>15 DEF Restart, FlowGone
  <2>4. mishaps' \in 0 .. MaxMishaps
    BY <1>15 DEF Restart, IInv, TypeOK
  <2>5. /\ pc' = "idle" /\ reqs' = 0 /\ notices' = 0 /\ plan' = FreshPlan /\ budget' = FreshBudget(today)
        /\ due' \in BOOLEAN /\ tripped' \in BOOLEAN /\ over' \in BOOLEAN
        /\ UNCHANGED <<fileVars, today, cycleVars, open>>
    BY <1>15 DEF Restart, FlowGone
  <2> QED
    BY <2>1, <2>2, <2>3, <2>4, <2>5 DEF PCs, fileVars, cycleVars,
       IInv, TypeOK, RequestsAreEvaluated, BreachStops, AdvisedWithin, NoticeRecorded
<1>16. CASE EditSettings \/ Toggle \/ IntervalElapses
  <2>1. file' \in Settings /\ toggles' \in Flags /\ due' \in BOOLEAN
    BY <1>16 DEF EditSettings, Toggle, IntervalElapses, fileVars, IInv, TypeOK
  <2>2. edits' \in 0 .. MaxEdits /\ flips' \in 0 .. MaxToggles
    BY <1>16 DEF EditSettings, Toggle, IntervalElapses, fileVars, IInv, TypeOK
  <2>3. UNCHANGED <<today, cycleVars, plan, budget, tripped, over, pc, flowVars, open, mishaps, notices>>
    BY <1>16 DEF EditSettings, Toggle, IntervalElapses
  <2> QED
    BY <2>1, <2>2, <2>3 DEF PCs, cycleVars, flowVars,
       IInv, TypeOK, RequestsAreEvaluated, BreachStops, AdvisedWithin, NoticeRecorded
<1>17. CASE Midnight
  <2> QED
    BY <1>17 DEF Midnight, PCs, fileVars, cycleVars, flowVars,
       IInv, TypeOK, RequestsAreEvaluated, BreachStops, AdvisedWithin, NoticeRecorded
<1>18. CASE UNCHANGED vars
  <2> QED
    BY <1>18 DEF vars, PCs, fileVars, cycleVars, flowVars,
       IInv, TypeOK, RequestsAreEvaluated, BreachStops, AdvisedWithin, NoticeRecorded
<1> QED
  BY <1>1, <1>2, <1>3, <1>4, <1>5, <1>6, <1>7, <1>8, <1>9, <1>10, <1>11, <1>12, <1>13, <1>14,
     <1>15, <1>16, <1>17, <1>18
     DEF Next, FlowNext, LoopNext, WorldNext
-----------------------------------------------------------------------------
\* So the invariant holds in every reachable state.
LEMMA Inductive == Spec => []IInv
  BY InitIInv, NextIInv, PTL DEF Spec

\* The loop's variables stay in their types: no interleaving of a cycle with
\* edits, midnights, errors and restarts drives the token estimate, the plan or
\* the open-order count out of range.
THEOREM TypeCorrect == Spec => []TypeOK
<1>1. IInv => TypeOK
  BY DEF IInv
<1> QED
  BY <1>1, Inductive, PTL

\* The advisory crew is never called once the day's estimate has reached the
\* budget in force (route_after_uncertainty, _update_degrade_level).
THEOREM OvershootIsBounded == Spec => []OvershootBounded
<1>1. IInv => OvershootBounded
  BY DEF IInv, BreachStops, AdvisedWithin, OvershootBounded
<1> QED
  BY <1>1, Inductive, PTL

\* A process sends at most one budget notice a day (_notify_budget_breach_once).
THEOREM NoticesAreDaily == Spec => []NotifiedOncePerDay
<1>1. IInv => NotifiedOncePerDay
  BY DEF IInv, NoticeRecorded, NotifiedOncePerDay
<1> QED
  BY <1>1, Inductive, PTL

\* Until an order of the cycle has filled, no request is carried past the
\* drawdown limit (RiskPipeline.evaluate, route_after_market), however many there
\* are; after a fill nothing promises it (execution_phase).
THEOREM FirstOrdersWithinDrawdown == Spec => []FirstOrderWithinDrawdown
<1>1. IInv => FirstOrderWithinDrawdown
  BY DEF IInv, RequestsAreEvaluated, FirstOrderWithinDrawdown
<1> QED
  BY <1>1, Inductive, PTL
=============================================================================
