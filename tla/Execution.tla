------------------------------ MODULE Execution ------------------------------
(***************************************************************************)
(* The life of an order request: TradingFlow reserves capital for it,      *)
(* ExecutionService validates and places it, later cycles poll it until it *)
(* is filled, cancelled or rejected, and the portfolio follows.  The bot   *)
(* is one asyncio task, so a step here is the code between two awaits; the *)
(* exchange moves in between, and the process may crash between any two    *)
(* steps.                                                                  *)
(*                                                                         *)
(* Orders are numbered in the order the bot issues them; ord[o] is the     *)
(* request, db[o] the status in the orders table, xs[o] / xf[o] / xp[o]    *)
(* status, filled amount and average price at the exchange.  Limits of     *)
(* the model: an order fills at one price, and only the failures named in  *)
(* Faults happen.                                                          *)
(***************************************************************************)
EXTENDS Portfolio, Sequences

CONSTANTS
  Requests,        \* requests the risk pipeline may approve
  MaxOrders,       \* bound: orders issued in one behaviour
  MaxBatch,        \* bound: requests in one cycle
  MaxApplied,      \* bound: amount applied incrementally to one order
  MaxRaised,       \* bound: exceptions in one behaviour
  InitPortfolio,   \* the seed portfolio of a fresh process
  FillPrices,      \* prices the exchange quotes and fills at
  FillSizes,       \* amounts of one partial fill
  Lot,             \* the exchange's amount precision
  PartialStatuses, \* how the exchange words a partly filled order
  PaperModes,      \* whether the exchange may be simulated: a set of BOOLEANs
  Faults,          \* the failures that can happen
  NoSnap           \* no snapshot that a rollback would use

FaultKinds ==
  {"price_limits", "no_ticker", "place_error", "lost_reply", "reject", "expire",
   "instant_drop", "fetch_error", "cancel_error", "no_average", "db_error", "stop_loss", "crash"}

ASSUME ExecutionAssumption ==
  /\ Requests \subseteq OrderRequests
  /\ MaxOrders \in Nat /\ MaxBatch \in Nat /\ MaxApplied \in Nat /\ MaxRaised \in Nat
  /\ InitPortfolio \in Portfolios /\ NoSnap \notin Portfolios
  /\ FillPrices \subseteq Nat /\ FillSizes \subseteq Nat
  /\ Lot \in Nat \ {0}
  /\ PartialStatuses \subseteq {"open", "partially_filled"}
  /\ PaperModes \subseteq BOOLEAN
  /\ Faults \subseteq FaultKinds

OrderIds == 1 .. MaxOrders

OpenStatuses == {"pending", "open", "partially_filled"}
TerminalStatuses == {"filled", "cancelled", "rejected"}

VARIABLES
  pf,      \* the bot's Portfolio
  snap,    \* the flow's snapshot of it, or NoSnap
  ord,     \* every request issued so far, amounts normalised once placed
  cur,     \* the batch being handled is cur .. Len(ord)
  pc,      \* where the bot's task is
  mode,    \* which handler placed or polled: "exec", "poll_only", "stop"
  polls,   \* open records poll_and_reconcile has still to look at
  stops,   \* positions _check_stop_losses has still to look at
  seen,    \* order and filled amount held across the await of cancel_order
  db,      \* orders table: status
  known,   \* orders table: exchange_order_id is the exchange's, not pending-*
  dbf,     \* orders table: filled_amount
  age,     \* 0 fresh, 1 past stale_order_cancel, 2 past stale_partial_fill
  applied, \* history: amount booked by _reconcile_incremental_fill
  raised,  \* history: exceptions that reached the flow
  xs, xf, xp, \* exchange: status, filled, price
  paper    \* the exchange is the simulated one of paper trading; never changes

botVars == <<pf, snap, ord, cur, pc, mode, polls, stops, seen>>
dbVars  == <<db, known, dbf>>
xVars   == <<xs, xf, xp, paper>>
histVars == <<applied, raised>>
vars    == <<botVars, dbVars, age, histVars, xVars>>

NothingSeen == [id |-> 0, filled |-> 0]

Fault(k) == k \in Faults
IsOpen(o) == db[o] \in OpenStatuses
OpenOrders == {o \in OrderIds : IsOpen(o)}
-----------------------------------------------------------------------------
Init ==
  /\ pf = InitPortfolio /\ snap = NoSnap
  /\ ord = <<>> /\ cur = 1
  /\ pc = "idle" /\ mode = "exec"
  /\ polls = {} /\ stops = {} /\ seen = NothingSeen
  /\ db = [o \in OrderIds |-> "none"]
  /\ known = [o \in OrderIds |-> FALSE]
  /\ dbf = [o \in OrderIds |-> 0]
  /\ age = [o \in OrderIds |-> 0]
  /\ applied = [o \in OrderIds |-> 0] /\ raised = 0
  /\ xs = [o \in OrderIds |-> "none"]
  /\ xf = [o \in OrderIds |-> 0]
  /\ xp = [o \in OrderIds |-> 0]
  /\ paper \in PaperModes
-----------------------------------------------------------------------------
(* The cycle around the execution phases (TradingFlow). *)

\* The strategy branch: reserve_phase starts with no request.
StartCycle ==
  /\ pc = "idle"
  /\ pc' = "reserve" /\ mode' = "exec" /\ cur' = Len(ord) + 1
  /\ UNCHANGED <<pf, snap, ord, polls, stops, seen, dbVars, age, histVars, xVars>>

\* _dedup_sell_orders puts BUYs first and leaves one SELL per symbol, capped at
\* the position of before the reservations.
DedupAllows(r) ==
  LET batch == cur .. Len(ord)
      base  == IF snap = NoSnap THEN pf ELSE snap
  IN  IF r.side = "buy"
        THEN \A o \in batch : ord[o].side = "buy"
        ELSE /\ r.qty <= base.pos[r.sym]
             /\ \A o \in batch : ~(ord[o].side = "sell" /\ ord[o].sym = r.sym)

\* One turn of reserve_phase's loop.  The snapshot is of before the first turn;
\* a cycle without requests has none here, as _rollback_portfolio ignores it.
Reserve(r) ==
  /\ pc = "reserve"
  /\ Len(ord) < MaxOrders /\ Len(ord) + 1 - cur < MaxBatch
  /\ DedupAllows(r)
  /\ snap' = IF snap = NoSnap THEN pf ELSE snap
  /\ pf' = ApplyOrder(pf, r)
  /\ ord' = Append(ord, r)
  /\ UNCHANGED <<cur, pc, mode, polls, stops, seen, dbVars, age, histVars, xVars>>

\* route_after_reserve: the execution poll interval is due.
RunExecution ==
  /\ pc = "reserve"
  /\ pc' = "place"
  /\ UNCHANGED <<pf, snap, ord, cur, mode, polls, stops, seen, dbVars, age, histVars, xVars>>

\* Mutant of SkipExecution: the snapshot is dropped without a rollback.
SkipWithoutRollback ==
  /\ pc = "reserve"
  /\ snap' = NoSnap /\ cur' = Len(ord) + 1
  /\ pc' = "hooks"
  /\ UNCHANGED <<pf, ord, mode, polls, stops, seen, dbVars, age, histVars, xVars>>

\* It is not: post_cycle_hooks rolls the reservations back.
SkipExecution ==
  /\ pc = "reserve"
  /\ pf' = IF snap = NoSnap THEN pf ELSE Restored(pf, snap)
  /\ snap' = NoSnap /\ cur' = Len(ord) + 1
  /\ pc' = "hooks"
  /\ UNCHANGED <<ord, mode, polls, stops, seen, dbVars, age, histVars, xVars>>

\* execution_only_phase: the market gate dropped the strategy, orders are open.
PollOnlyCycle ==
  /\ pc = "idle" /\ OpenOrders # {}
  /\ pc' = "poll" /\ mode' = "poll_only" /\ polls' = OpenOrders
  /\ UNCHANGED <<pf, snap, ord, cur, stops, seen, dbVars, age, histVars, xVars>>

\* An exception leaves the handler with the portfolio at p: execution_phase
\* rolls back to the snapshot, execution_only_phase logs it, the stop-loss hook
\* goes on with the next position.
Raise(p) ==
  /\ raised < MaxRaised /\ raised' = raised + 1
  /\ pf' = IF mode = "exec" /\ snap # NoSnap THEN Restored(p, snap) ELSE p
  /\ snap' = NoSnap /\ cur' = Len(ord) + 1 /\ polls' = {}
  /\ pc' = IF mode = "stop" THEN "stops" ELSE "hooks"
  /\ UNCHANGED <<mode, stops, seen>>
-----------------------------------------------------------------------------
(* process_order_requests / _process_single_request, on request cur. *)

Asks == FillPrices \cup (IF Fault("no_ticker") THEN {0} ELSE {})

\* A BUY is checked against the balance its own reservation has reduced, a SELL
\* against the snapshot, or the portfolio when there is none.
Valid(r, ask) ==
  IF r.side = "buy"
    THEN Notional(r.qty, ask) <= pf.cash \/ ask = 0
    ELSE LET held == IF snap = NoSnap THEN pf ELSE snap
         IN  held.pos[r.sym] > 0 /\ r.qty <= held.pos[r.sym]

\* Dead-lettered; the reservation stays.
RejectInvalid ==
  /\ pc = "place" /\ cur <= Len(ord)
  /\ Fault("price_limits") \/ \E ask \in Asks : ~Valid(ord[cur], ask)
  /\ cur' = cur + 1
  /\ UNCHANGED <<pf, snap, ord, pc, mode, polls, stops, seen, dbVars, age, histVars, xVars>>

\* amount_to_precision truncates to the lot, and raises below one.
Normalized(r) == [r EXCEPT !.qty = IF @ < Lot THEN @ ELSE (@ \div Lot) * Lot]

\* The PENDING record is committed, then create_order is awaited.
SavePending ==
  /\ pc = "place" /\ cur <= Len(ord)
  /\ \E ask \in Asks : Valid(ord[cur], ask)
  /\ ord' = [ord EXCEPT ![cur] = Normalized(@)]
  /\ db' = [db EXCEPT ![cur] = "pending"]
  /\ pc' = "sent"
  /\ UNCHANGED <<pf, snap, cur, mode, polls, stops, seen, known, dbf, age, histVars, xVars>>

\* Either write of this stage raises: nothing was placed.
PlaceDbError ==
  /\ pc = "place" /\ cur <= Len(ord) /\ Fault("db_error")
  /\ Raise(pf)
  /\ UNCHANGED <<ord, dbVars, age, applied, xVars>>

\* create_order's reply: the record takes the exchange's id and status, and an
\* order already filled is reconciled at once.  Only a paper order carries fills.
Replied(o) == CASE xs[o] = "closed" -> "filled"
                [] xs[o] = "canceled" -> "cancelled"
                [] OTHER -> xs[o]

\* Mutant of Finalize: the record keeps its temporary id.
FinalizeStatusOnly(o) ==
  /\ db' = [db EXCEPT ![o] = Replied(o)]
  /\ dbf' = [dbf EXCEPT ![o] = xf[o]]
  /\ UNCHANGED known

Finalize(o) ==
  /\ db' = [db EXCEPT ![o] = Replied(o)]
  /\ known' = [known EXCEPT ![o] = TRUE]
  /\ dbf' = [dbf EXCEPT ![o] = xf[o]]

\* Mutant of PlacementFee: a fill at placement is taken for free.
NoPlacementFee(o) == 0

PlacementFee(o) == IF paper THEN Fee(xf[o], xp[o]) ELSE 0

Placed ==
  /\ pc = "sent" /\ xs[cur] # "none"
  /\ Finalize(cur)
  /\ pf' = IF xs[cur] = "closed"
             THEN ReconcileFill(pf, ord[cur], xf[cur], xp[cur], PlacementFee(cur))
             ELSE pf
  /\ pc' = "place" /\ cur' = cur + 1
  /\ UNCHANGED <<snap, ord, mode, polls, stops, seen, age, histVars, xVars>>

\* The outcome is recorded, then something raises: formatting the notification
\* of a fill without an average price (reconciled at the requested one), saving
\* a reconciled order, or dead-lettering a refused one.
PlacedRaises ==
  /\ pc = "sent" /\ xs[cur] # "none"
  /\ Finalize(cur)
  /\ \/ /\ xs[cur] = "closed" /\ Fault("no_average") /\ ~paper
        /\ Raise(ReconcileFill(pf, ord[cur], xf[cur], ord[cur].price, 0))
     \/ /\ xs[cur] = "closed" /\ Fault("db_error")
        /\ Raise(ReconcileFill(pf, ord[cur], xf[cur], xp[cur], PlacementFee(cur)))
     \/ xs[cur] = "rejected" /\ Fault("db_error") /\ Raise(pf)
  /\ UNCHANGED <<ord, age, applied, xVars>>

\* Writing the outcome raises, the order being placed or refused.
FinalizeDbError ==
  /\ pc = "sent" /\ Fault("db_error")
  /\ xs[cur] # "none" \/ Fault("place_error")
  /\ Raise(pf)
  /\ UNCHANGED <<ord, dbVars, age, applied, xVars>>

\* create_order raises: the record becomes REJECTED, whether or not the
\* exchange had accepted the order, and the request is dead-lettered.
Refused ==
  /\ pc = "sent"
  /\ \/ xs[cur] = "none" /\ Fault("place_error")
     \/ xs[cur] # "none" /\ Fault("lost_reply") /\ ~paper
  /\ db' = [db EXCEPT ![cur] = "rejected"]
  /\ UNCHANGED <<ord, known, dbf, age, applied, xVars>>

CreateRaises ==
  /\ Refused
  /\ pc' = "place" /\ cur' = cur + 1
  /\ UNCHANGED <<pf, snap, mode, polls, stops, seen, raised>>

RefusedDbError == Refused /\ Fault("db_error") /\ Raise(pf)

\* After the last request the flow polls; a stop-loss hook does not.
EndPlacing ==
  /\ pc = "place" /\ cur > Len(ord)
  /\ IF mode = "stop"
       THEN pc' = "stops" /\ UNCHANGED polls
       ELSE pc' = "poll" /\ polls' = OpenOrders
  /\ UNCHANGED <<pf, snap, ord, cur, mode, stops, seen, dbVars, age, histVars, xVars>>

\* get_open_orders raises.
OpenOrdersDbError ==
  /\ Fault("db_error")
  /\ \/ pc = "place" /\ cur > Len(ord) /\ mode = "exec"
     \/ pc = "idle" /\ OpenOrders # {}
  /\ Raise(pf)
  /\ UNCHANGED <<ord, dbVars, age, applied, xVars>>
-----------------------------------------------------------------------------
(* poll_and_reconcile / _poll_single_order, on a record o of polls. *)

\* fetch_order_status.  Paper mode answers the same for every id; live, an id
\* the exchange never issued raises.
Report(o) ==
  IF paper THEN {[status |-> "closed", filled |-> 0, price |-> ord[o].price]}
  ELSE [status : IF xs[o] = "open" /\ xf[o] > 0 THEN PartialStatuses ELSE {xs[o]},
        filled : {xf[o]}, price : {xp[o]}]

Polling(o) == pc = "poll" /\ o \in polls /\ (known[o] \/ paper)

NewFill(o, rep) == rep.status = "partially_filled" /\ rep.filled > dbf[o]

\* The portfolio once the answer is booked.
Booked(o, rep) ==
  CASE rep.status = "closed" ->
         ReconcileFill(pf, ord[o], rep.filled, rep.price, Fee(rep.filled, rep.price))
    [] NewFill(o, rep) ->
         IncrementalFill(pf, ord[o], rep.filled - dbf[o], rep.price)
    [] rep.status \in {"canceled", "rejected"} ->
         ReleaseReservation(pf, ord[o], rep.filled)
    [] OTHER -> pf

PollFails(o) ==
  /\ pc = "poll" /\ o \in polls /\ ~paper
  /\ ~known[o] \/ Fault("fetch_error")
  /\ polls' = polls \ {o}
  /\ UNCHANGED <<pf, snap, ord, cur, pc, mode, stops, seen, dbVars, age, histVars, xVars>>

\* Mutant of PollFilled: any fill counts as the whole order.
PollAnyFill(o) ==
  /\ Polling(o)
  /\ \E rep \in Report(o) :
       /\ rep.filled > 0
       /\ ~ReconcileRaises(pf, ord[o], rep.filled)
       /\ pf' = Booked(o, rep)
       /\ db' = [db EXCEPT ![o] = "filled"]
       /\ dbf' = [dbf EXCEPT ![o] = rep.filled]
  /\ polls' = polls \ {o}
  /\ UNCHANGED <<snap, ord, cur, pc, mode, stops, seen, known, age, histVars, xVars>>

PollFilled(o) ==
  /\ Polling(o)
  /\ \E rep \in Report(o) :
       /\ rep.status = "closed"
       /\ ~ReconcileRaises(pf, ord[o], rep.filled)
       /\ pf' = Booked(o, rep)
       /\ db' = [db EXCEPT ![o] = "filled"]
       /\ dbf' = [dbf EXCEPT ![o] = rep.filled]
  /\ polls' = polls \ {o}
  /\ UNCHANGED <<snap, ord, cur, pc, mode, stops, seen, known, age, histVars, xVars>>

\* The increment is measured from the record's filled_amount, which this branch
\* does not update.
PollPartial(o) ==
  /\ Polling(o)
  /\ \E rep \in Report(o) :
       /\ NewFill(o, rep)
       /\ applied[o] + rep.filled - dbf[o] <= MaxApplied
       /\ pf' = Booked(o, rep)
       /\ applied' = [applied EXCEPT ![o] = @ + rep.filled - dbf[o]]
       /\ seen' = IF age[o] = 2 THEN [id |-> o, filled |-> rep.filled] ELSE NothingSeen
  /\ db' = [db EXCEPT ![o] = "partially_filled"]
  /\ polls' = polls \ {o}
  /\ pc' = IF age[o] = 2 THEN "cancel" ELSE "poll"
  /\ UNCHANGED <<snap, ord, cur, mode, stops, known, dbf, age, raised, xVars>>

\* Mutant of PollStale: a stale order is left to the next poll.
PollStaleLater(o) ==
  /\ Polling(o) /\ age[o] >= 1
  /\ \E rep \in Report(o) : rep.status = "open"
  /\ polls' = polls \ {o}
  /\ UNCHANGED <<pf, snap, ord, cur, pc, mode, stops, seen, dbVars, age, histVars, xVars>>

\* A stale order the exchange calls open is cancelled as wholly unfilled.
PollStale(o) ==
  /\ Polling(o) /\ age[o] >= 1
  /\ \E rep \in Report(o) : rep.status = "open"
  /\ seen' = [id |-> o, filled |-> 0]
  /\ pc' = "cancel" /\ polls' = polls \ {o}
  /\ UNCHANGED <<pf, snap, ord, cur, mode, stops, dbVars, age, histVars, xVars>>

PollDead(o) ==
  /\ Polling(o)
  /\ \E rep \in Report(o) :
       /\ rep.status \in {"canceled", "rejected"}
       /\ pf' = Booked(o, rep)
  /\ db' = [db EXCEPT ![o] = Replied(o)]
  /\ polls' = polls \ {o}
  /\ UNCHANGED <<snap, ord, cur, pc, mode, stops, seen, known, dbf, age, histVars, xVars>>

\* Mutant of PollNoChange: an unchanged order is saved as merely open.
PollSavesOpen(o) ==
  /\ Polling(o)
  /\ \E rep \in Report(o) :
       \/ rep.status = "open" /\ age[o] = 0
       \/ rep.status = "partially_filled" /\ ~NewFill(o, rep)
  /\ db' = [db EXCEPT ![o] = "open"]
  /\ polls' = polls \ {o}
  /\ UNCHANGED <<pf, snap, ord, cur, pc, mode, stops, seen, known, dbf, age, histVars, xVars>>

\* No branch applies: still fresh, or partly filled and no more than recorded.
PollNoChange(o) ==
  /\ Polling(o)
  /\ \E rep \in Report(o) :
       \/ rep.status = "open" /\ age[o] = 0
       \/ rep.status = "partially_filled" /\ ~NewFill(o, rep)
  /\ polls' = polls \ {o}
  /\ UNCHANGED <<pf, snap, ord, cur, pc, mode, stops, seen, dbVars, age, histVars, xVars>>

\* Booking raises, after the refund of a BUY that filled nothing.
PollRaises(o) ==
  /\ Polling(o)
  /\ \E rep \in Report(o) :
       /\ rep.status = "closed" /\ ReconcileRaises(pf, ord[o], rep.filled)
       /\ Raise(Booked(o, rep))
  /\ UNCHANGED <<ord, dbVars, age, applied, xVars>>

\* A write raises: a fill is booked before it, a release after it.  A filled
\* order is written twice.
PollDbError(o) ==
  /\ Polling(o) /\ Fault("db_error")
  /\ \E rep \in Report(o) :
       \/ /\ rep.status = "closed" /\ ~ReconcileRaises(pf, ord[o], rep.filled)
          /\ Raise(Booked(o, rep))
          /\ \/ UNCHANGED <<db, dbf>>
             \/ /\ db' = [db EXCEPT ![o] = "filled"]
                /\ dbf' = [dbf EXCEPT ![o] = rep.filled]
          /\ UNCHANGED applied
       \/ /\ NewFill(o, rep)
          /\ applied[o] + rep.filled - dbf[o] <= MaxApplied
          /\ applied' = [applied EXCEPT ![o] = @ + rep.filled - dbf[o]]
          /\ Raise(Booked(o, rep))
          /\ UNCHANGED <<db, dbf>>
       \/ rep.status \in {"canceled", "rejected"} /\ Raise(pf) /\ UNCHANGED <<db, dbf, applied>>
  /\ UNCHANGED <<ord, known, age, xVars>>

\* _cancel_stale_order, back from cancel_order: what has filled meanwhile is
\* not asked for again.
CancelStale ==
  /\ pc = "cancel" /\ xs[seen.id] = "open"
  /\ xs' = [xs EXCEPT ![seen.id] = "canceled"]
  /\ db' = [db EXCEPT ![seen.id] = "cancelled"]
  /\ pf' = ReleaseReservation(pf, ord[seen.id], seen.filled)
  /\ pc' = "poll" /\ seen' = NothingSeen
  /\ UNCHANGED <<snap, ord, cur, mode, polls, stops, known, dbf, age, histVars, xf, xp, paper>>

\* Mutant of CancelFails: the record is cancelled whatever the exchange says.
CancelAnyway ==
  /\ pc = "cancel"
  /\ xs[seen.id] # "open" \/ Fault("cancel_error")
  /\ db' = [db EXCEPT ![seen.id] = "cancelled"]
  /\ pc' = "poll" /\ seen' = NothingSeen
  /\ UNCHANGED <<pf, snap, ord, cur, mode, polls, stops, known, dbf, age, histVars, xVars>>

\* The order is cancelled, the record stays open.
CancelDbError ==
  /\ pc = "cancel" /\ xs[seen.id] = "open" /\ Fault("db_error")
  /\ xs' = [xs EXCEPT ![seen.id] = "canceled"]
  /\ Raise(pf)
  /\ UNCHANGED <<ord, dbVars, age, applied, xf, xp, paper>>

CancelFails ==
  /\ pc = "cancel"
  /\ xs[seen.id] # "open" \/ Fault("cancel_error")
  /\ pc' = "poll" /\ seen' = NothingSeen
  /\ UNCHANGED <<pf, snap, ord, cur, mode, polls, stops, dbVars, age, histVars, xVars>>

EndPolling ==
  /\ pc = "poll" /\ polls = {}
  /\ snap' = NoSnap /\ cur' = Len(ord) + 1
  /\ pc' = "hooks"
  /\ UNCHANGED <<pf, ord, mode, polls, stops, seen, dbVars, age, histVars, xVars>>

\* poll_and_reconcile's save_portfolio raises when all orders are reconciled.
SavePortfolioDbError ==
  /\ pc = "poll" /\ polls = {} /\ Fault("db_error")
  /\ Raise(pf)
  /\ UNCHANGED <<ord, dbVars, age, applied, xVars>>
-----------------------------------------------------------------------------
(* post_cycle_hooks: the stop-loss check, then the cycle is over. *)

CheckStopLosses ==
  /\ pc = "hooks"
  /\ stops' = {s \in Symbols : pf.pos[s] > 0}
  /\ pc' = "stops" /\ mode' = "stop"
  /\ UNCHANGED <<pf, snap, ord, cur, polls, seen, dbVars, age, histVars, xVars>>

\* _on_stop_loss_triggered sells the whole position, with no reservation.
StopLoss(s) ==
  /\ pc = "stops" /\ s \in stops /\ Fault("stop_loss") /\ Len(ord) < MaxOrders
  /\ \E p \in FillPrices :
       ord' = Append(ord, [sym |-> s, side |-> "sell", qty |-> pf.pos[s], price |-> p])
  /\ cur' = Len(ord) + 1
  /\ stops' = stops \ {s} /\ pc' = "place"
  /\ UNCHANGED <<pf, snap, mode, polls, seen, dbVars, age, histVars, xVars>>

EndCycle ==
  /\ pc = "stops"
  /\ stops' = {} /\ pc' = "idle" /\ mode' = "exec"
  /\ UNCHANGED <<pf, snap, ord, cur, polls, seen, dbVars, age, histVars, xVars>>

\* A restarted process starts from the seed portfolio; the orders table stays.
Crash ==
  /\ Fault("crash")
  /\ pf' = InitPortfolio /\ snap' = NoSnap
  /\ cur' = Len(ord) + 1 /\ pc' = "idle" /\ mode' = "exec"
  /\ polls' = {} /\ stops' = {} /\ seen' = NothingSeen
  /\ UNCHANGED <<ord, dbVars, age, histVars, xVars>>
-----------------------------------------------------------------------------
(* The exchange, and time. *)

\* The order arrives.  A paper order fills on the spot.
ExchangeAccepts ==
  /\ pc = "sent" /\ xs[cur] = "none"
  /\ \E p \in FillPrices : xp' = [xp EXCEPT ![cur] = p]
  /\ xs' = [xs EXCEPT ![cur] = IF paper THEN "closed" ELSE "open"]
  /\ xf' = [xf EXCEPT ![cur] = IF paper THEN ord[cur].qty ELSE 0]
  /\ UNCHANGED <<botVars, dbVars, age, histVars, paper>>

ExchangeFills(o) ==
  /\ xs[o] = "open"
  /\ \/ /\ xf' = [xf EXCEPT ![o] = ord[o].qty]
        /\ xs' = [xs EXCEPT ![o] = "closed"]
     \/ /\ \E q \in FillSizes : /\ xf[o] + q < ord[o].qty
                                /\ xf' = [xf EXCEPT ![o] = @ + q]
        /\ UNCHANGED xs
  /\ UNCHANGED <<botVars, dbVars, age, histVars, xp, paper>>

\* An open order expires or is refused, before the reply to create_order or after.
ExchangeDrops(o) ==
  /\ xs[o] = "open"
  /\ pc = "sent" /\ o = cur => Fault("instant_drop")
  /\ \/ Fault("expire") /\ xs' = [xs EXCEPT ![o] = "canceled"]
     \/ Fault("reject") /\ xf[o] = 0 /\ xs' = [xs EXCEPT ![o] = "rejected"]
  /\ UNCHANGED <<botVars, dbVars, age, histVars, xf, xp, paper>>

OrderAges(o) ==
  /\ IsOpen(o) /\ age[o] < 2
  /\ age' = [age EXCEPT ![o] = @ + 1]
  /\ UNCHANGED <<botVars, dbVars, histVars, xVars>>
-----------------------------------------------------------------------------
CycleNext ==
  \/ StartCycle \/ RunExecution \/ SkipExecution \/ PollOnlyCycle
  \/ \E r \in Requests : Reserve(r)
  \/ CheckStopLosses \/ EndCycle \/ \E s \in Symbols : StopLoss(s)

PlaceNext ==
  \/ RejectInvalid \/ SavePending \/ PlaceDbError \/ Placed \/ PlacedRaises
  \/ FinalizeDbError \/ CreateRaises \/ RefusedDbError \/ EndPlacing \/ OpenOrdersDbError

PollNext ==
  \/ \E o \in OrderIds :
       \/ PollFails(o) \/ PollFilled(o) \/ PollPartial(o) \/ PollStale(o)
       \/ PollDead(o) \/ PollNoChange(o) \/ PollRaises(o) \/ PollDbError(o)
  \/ CancelStale \/ CancelDbError \/ CancelFails \/ EndPolling \/ SavePortfolioDbError

ExchangeNext ==
  \/ ExchangeAccepts
  \/ \E o \in OrderIds : ExchangeFills(o) \/ ExchangeDrops(o) \/ OrderAges(o)

Next == CycleNext \/ PlaceNext \/ PollNext \/ ExchangeNext \/ Crash

Spec == Init /\ [][Next]_vars
-----------------------------------------------------------------------------
(* Properties *)

XStatuses == {"none", "open", "closed", "canceled", "rejected"}
PCs == {"idle", "reserve", "place", "sent", "poll", "cancel", "hooks", "stops"}

\* The variables stay in their types; the batch is a suffix of ord.
TypeOK ==
  /\ pf \in Portfolios /\ snap \in Portfolios \cup {NoSnap}
  /\ ord \in Seq(OrderRequests) /\ Len(ord) <= MaxOrders
  /\ cur \in 1 .. Len(ord) + 1
  /\ pc \in PCs /\ mode \in {"exec", "poll_only", "stop"}
  /\ polls \subseteq 1 .. Len(ord) /\ stops \subseteq Symbols
  /\ seen \in [id : 0 .. Len(ord), filled : Nat]
  /\ db \in [OrderIds -> {"none"} \cup OpenStatuses \cup TerminalStatuses]
  /\ known \in [OrderIds -> BOOLEAN]
  /\ dbf \in [OrderIds -> Nat] /\ age \in [OrderIds -> 0 .. 2]
  /\ applied \in [OrderIds -> Int] /\ raised \in 0 .. MaxRaised
  /\ xs \in [OrderIds -> XStatuses]
  /\ xf \in [OrderIds -> Nat] /\ xp \in [OrderIds -> Nat]
  /\ paper \in BOOLEAN

\* An order the bot has stopped tracking as filled is entirely filled at the
\* exchange, for exactly the requested amount: a poll result is never booked
\* for another order or another cycle.
FilledIsClosed ==
  ~paper => \A o \in OrderIds :
    db[o] = "filled" => xs[o] = "closed" /\ xf[o] = ord[o].qty

\* An order the bot has given up as cancelled can never fill later, although a
\* fill may arrive while cancel_order is awaited.
CancelledIsDead ==
  ~paper => \A o \in OrderIds : db[o] = "cancelled" => xs[o] = "canceled"

\* Placement, polling and cancellation each write the status without a look at
\* the one before, and yet it only moves forward, a terminal one is final, no
\* order skips the pending record and none partly filled is rejected.  This is
\* less than OrderStatus documents: the transitions OrderLifecycle calls
\* Undocumented occur.
Lifecycle == INSTANCE OrderLifecycle WITH status <- db
FollowsLifecycle == Lifecycle!Spec

\* Every order that can still fill is in the orders table under the exchange's
\* id with an open status, so that some later poll asks for it.
LiveOrdersAreTracked ==
  \A o \in OrderIds :
    xs[o] = "open" /\ ~(pc = "sent" /\ o = cur) => IsOpen(o) /\ known[o]
-----------------------------------------------------------------------------
(* Liveness: the loop keeps running, execution keeps coming due, the exchange *)
(* answers a query and accepts a cancellation again and again, time passes.   *)

PollAnswered(o) ==
  PollFilled(o) \/ PollPartial(o) \/ PollStale(o) \/ PollDead(o) \/ PollNoChange(o)

Fairness ==
  /\ WF_vars(CycleNext \/ PlaceNext \/ PollNext)
  /\ WF_vars(ExchangeAccepts)
  /\ SF_vars(RunExecution) /\ SF_vars(CancelStale)
  /\ \A o \in OrderIds : WF_vars(OrderAges(o)) /\ SF_vars(PollAnswered(o))

FairSpec == Spec /\ Fairness

\* No order stays open for ever: a stale one is cancelled, if a fill, an expiry
\* or a rejection does not end it first.
OrdersResolve == \A o \in OrderIds : IsOpen(o) ~> ~IsOpen(o)
=============================================================================
