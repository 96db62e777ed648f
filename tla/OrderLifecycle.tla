--------------------------- MODULE OrderLifecycle ---------------------------
(***************************************************************************)
(* The status column of the orders table, one order at a time: what the    *)
(* services do to it and the dashboard, the pnl pages and the next poll    *)
(* can rely on.  The docstring of OrderStatus gives a narrower life cycle, *)
(* Documented; the transitions the services make besides are Undocumented. *)
(***************************************************************************)
CONSTANT OrderIds

VARIABLE status

Statuses == {"none", "pending", "open", "partially_filled",
             "filled", "cancelled", "rejected"}

\* The state transitions of the docstring.
Documented(st) ==
  CASE st = "none"             -> {"pending"}
    [] st = "pending"          -> {"open", "rejected"}
    [] st = "open"             -> {"partially_filled", "filled", "cancelled"}
    [] st = "partially_filled" -> {"filled"}
    [] OTHER                   -> {}

\* Those it leaves out.  create_order may answer with an order that is already
\* filled, as every paper order is, or cancelled; a poll may find an order rejected
\* that was accepted; and what is left of a partly filled one expires, or is
\* cancelled once stale.
Undocumented(st) ==
  CASE st = "pending"          -> {"filled", "cancelled"}
    [] st = "open"             -> {"rejected"}
    [] st = "partially_filled" -> {"cancelled"}
    [] OTHER                   -> {}

Successors(st) == Documented(st) \cup Undocumented(st)

Init == status = [o \in OrderIds |-> "none"]

Advance(o) ==
  \E st \in Successors(status[o]) : status' = [status EXCEPT ![o] = st]

Next == \E o \in OrderIds : Advance(o)

Spec == Init /\ [][Next]_status
=============================================================================
