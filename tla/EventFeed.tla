------------------------------ MODULE EventFeed ------------------------------
(***************************************************************************)
(* The dashboard's live events.  The bot writes its tables; for every      *)
(* WebSocket connection the API process runs a handler, which polls the    *)
(* tables in a thread for rows beyond its own watermarks and broadcasts    *)
(* what it finds to all connections.                                       *)
(*                                                                         *)
(* A row is known by its id.  Signals and tickers, which are inserted and  *)
(* collected like cycles but never changed in place, are left out; the     *)
(* event of a tripped breaker comes with that of its cycle.  Events are    *)
(* <<kind, id>>.                                                           *)
(***************************************************************************)
EXTENDS Integers, Sequences, Functions

CONSTANTS
  Conns,       \* connections that may be made; a browser that returns makes a new one
  MaxOrders, MaxCycles, MaxRestarts \* bounds

ASSUME EventFeedAssumption == {MaxOrders, MaxCycles, MaxRestarts} \subseteq Nat

VARIABLES
  orders,   \* statuses of the rows of orders
  cycles,   \* the cycle_number of each row of cycle_history
  number,   \* the bot's cycle counter
  restarts,
  conn,     \* a connection is "new", "open" or "closed" for the browser
  pc,       \* its handler
  active,   \* ConnectionManager._active
  wm,       \* the handler's watermarks
  out,      \* events it collected and has to broadcast
  sent      \* history: events it broadcast

botVars == <<orders, cycles, number, restarts>>
handlerVars == <<pc, active, wm, out, sent>>
feedVars == <<botVars, handlerVars, conn>>

Kinds == {"cycle_complete", "order_filled"}
NoMarks == [cycle |-> 0, order |-> 0]

FeedInit ==
  /\ orders = <<>> /\ cycles = <<>> /\ number = 0 /\ restarts = 0
  /\ conn = [c \in Conns |-> "new"] /\ pc = [c \in Conns |-> "none"] /\ active = {}
  /\ wm = [c \in Conns |-> NoMarks]
  /\ out = [c \in Conns |-> {}] /\ sent = [c \in Conns |-> {}]
-----------------------------------------------------------------------------
(* The bot. *)

\* save_order: the row of an order is made before the order is placed.
SaveOrder ==
  /\ Len(orders) < MaxOrders /\ orders' = Append(orders, "pending")
  /\ UNCHANGED <<cycles, number, restarts, handlerVars, conn>>

\* finalize_pending_order or save_order: the row of a filled order is updated.
FillOrder ==
  /\ \E i \in DOMAIN orders : orders[i] = "pending" /\ orders' = [orders EXCEPT ![i] = "filled"]
  /\ UNCHANGED <<cycles, number, restarts, handlerVars, conn>>

\* save_cycle_summary updates the row that has the cycle's number, if there is one.
SaveCycle ==
  /\ number < MaxCycles /\ number' = number + 1
  /\ cycles' = IF number' \in Range(cycles) THEN cycles ELSE Append(cycles, number')
  /\ UNCHANGED <<orders, restarts, handlerVars, conn>>

\* A cycle that raises leaves no row.
CycleRaises ==
  /\ number < MaxCycles /\ number' = number + 1
  /\ UNCHANGED <<orders, cycles, restarts, handlerVars, conn>>

\* Every process counts its cycles from one.
BotRestarts ==
  /\ restarts < MaxRestarts /\ restarts' = restarts + 1 /\ number' = 0
  /\ UNCHANGED <<orders, cycles, handlerVars, conn>>
-----------------------------------------------------------------------------
(* Connections. *)

\* manager.connect.
Connect(c) ==
  /\ conn[c] = "new" /\ conn' = [conn EXCEPT ![c] = "open"]
  /\ active' = active \cup {c} /\ pc' = [pc EXCEPT ![c] = "marking"]
  /\ UNCHANGED <<botVars, wm, out, sent>>

\* The browser goes away.  The handler never receives, so it does not notice.
Close(c) ==
  /\ conn[c] = "open" /\ conn' = [conn EXCEPT ![c] = "closed"]
  /\ UNCHANGED <<botVars, handlerVars>>

\* _get_initial_watermarks.
Mark(c) ==
  /\ pc[c] = "marking" /\ pc' = [pc EXCEPT ![c] = "asleep"]
  /\ wm' = [wm EXCEPT ![c] = [cycle |-> Len(cycles), order |-> Len(orders)]]
  /\ UNCHANGED <<botVars, conn, active, out, sent>>
-----------------------------------------------------------------------------
(* _collect_events: the queries of one session see each the rows of their  *)
(* own moment; all but the last are one step.                              *)

NewCycles(c) == wm[c].cycle + 1 .. Len(cycles)
NewFills(c) == {i \in wm[c].order + 1 .. Len(orders) : orders[i] = "filled"}

Found(c) ==
  ({"cycle_complete"} \X NewCycles(c)) \cup ({"order_filled"} \X NewFills(c))

Collect(c) ==
  /\ pc[c] = "asleep" /\ pc' = [pc EXCEPT ![c] = "collecting"]
  /\ out' = [out EXCEPT ![c] = Found(c)]
  /\ wm' = [wm EXCEPT ![c].cycle = Len(cycles)]
  /\ UNCHANGED <<botVars, conn, active, sent>>

\* Mutant of NewestOrder: stops before the first order that is not filled yet.
NewestOrderSettled ==
  LET open == {i \in DOMAIN orders : orders[i] # "filled"}
  IN IF open = {} THEN Len(orders) ELSE (CHOOSE i \in open : \A j \in open : i <= j) - 1

\* Mutant of NewestOrder: the id the next order will have.
NewestOrderNext == Len(orders) + 1

\* The order watermark passes every order, filled or not.
NewestOrder == Len(orders)

\* Mutant of Advanced: the last query serves the cycles too.
AdvancedAll(c) == [wm[c] EXCEPT !.order = NewestOrder, !.cycle = Len(cycles)]

Advanced(c) == [wm[c] EXCEPT !.order = NewestOrder]

Collected(c) ==
  /\ pc[c] = "collecting" /\ pc' = [pc EXCEPT ![c] = "sending"]
  /\ wm' = [wm EXCEPT ![c] = Advanced(c)]
  /\ UNCHANGED <<botVars, conn, active, out, sent>>

\* A database error ends the handler, and with it the connection.
CollectFails(c) ==
  /\ pc[c] \in {"marking", "asleep"} /\ pc' = [pc EXCEPT ![c] = "none"]
  /\ active' = IF pc[c] = "asleep" THEN active \ {c} ELSE active
  /\ conn' = [conn EXCEPT ![c] = "closed"]
  /\ UNCHANGED <<botVars, wm, out, sent>>

\* manager.broadcast of each event.  A send to a browser that has gone raises or
\* is ignored; the error is swallowed, also by the handler it belongs to.
Broadcast(c) ==
  /\ pc[c] = "sending" /\ pc' = [pc EXCEPT ![c] = "asleep"]
  /\ \E dead \in SUBSET {d \in active : conn[d] = "closed"} :
       active' = IF out[c] = {} THEN active ELSE active \ dead
  /\ sent' = [sent EXCEPT ![c] = @ \cup out[c]] /\ out' = [out EXCEPT ![c] = {}]
  /\ UNCHANGED <<botVars, conn, wm>>

\* update_controls broadcasts controls_updated.
BroadcastControls ==
  /\ \E dead \in SUBSET {d \in active : conn[d] = "closed"} : dead # {} /\ active' = active \ dead
  /\ UNCHANGED <<botVars, conn, pc, wm, out, sent>>

HandlerStep(c) == Mark(c) \/ Collect(c) \/ Collected(c) \/ Broadcast(c)

FeedNext ==
  \/ SaveOrder \/ FillOrder \/ SaveCycle \/ CycleRaises \/ BotRestarts
  \/ BroadcastControls
  \/ \E c \in Conns : Connect(c) \/ Close(c) \/ CollectFails(c) \/ HandlerStep(c)
-----------------------------------------------------------------------------
(* Properties. *)

Ids == 1 .. MaxOrders + MaxCycles * (MaxRestarts + 1)
Events == Kinds \X Ids

FeedTypeOK ==
  /\ conn \in [Conns -> {"new", "open", "closed"}] /\ active \subseteq Conns
  /\ pc \in [Conns -> {"none", "marking", "asleep", "collecting", "sending"}]
  /\ \A c \in Conns : wm[c].cycle <= Len(cycles) /\ wm[c].order <= Len(orders)
  /\ \A c \in Conns : (out[c] \cup sent[c]) \subseteq Events

\* A handler announces no row twice, although an order row is skipped for not
\* being filled and rows are changed behind the watermark.
NeverTwice == \A c \in Conns : out[c] \cap sent[c] = {}

\* The row of a cycle written after a handler took its watermark is broadcast
\* while the browser is registered, unless the connection ends first.
Announces(c, e) == pc[c] = "sending" /\ e \in out[c] /\ c \in active

RowsReach ==
  \A c \in Conns, i \in 1 .. MaxCycles :
    (pc[c] \notin {"none", "marking"} /\ i \in NewCycles(c))
      ~> (Announces(c, <<"cycle_complete", i>>) \/ conn[c] # "open")
=============================================================================
