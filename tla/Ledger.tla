-------------------------------- MODULE Ledger --------------------------------
(***************************************************************************)
(* What the portfolio should be worth: the seed portfolio, plus every      *)
(* order the bot has settled at what the exchange really did, plus every   *)
(* order still open at what was reserved for it.                           *)
(***************************************************************************)
EXTENDS Execution, Functions

Issued == 1 .. Len(ord)

\* Reserved this cycle and not placed yet.
Waiting(o) ==
  mode = "exec" /\ pc \in {"reserve", "place", "sent"} /\ o >= cur

\* Its reservation still stands for it.
Unsettled(o) == Waiting(o) \/ IsOpen(o)

\* Cash and amount a request moves when q of it trades at p.
CashMove(r, q, p) == IF r.side = "buy" THEN -Notional(q, p) ELSE Notional(q, p)
AmountMove(r, q) == IF r.side = "buy" THEN q ELSE -q

OrderCash(o) == IF Unsettled(o) THEN CashMove(ord[o], ord[o].qty, ord[o].price)
                                ELSE CashMove(ord[o], xf[o], xp[o])
OrderAmount(o) == AmountMove(ord[o], IF Unsettled(o) THEN ord[o].qty ELSE xf[o])

\* Of the orders in a set, and of its orders in s.
CashOf(O) == SumFunction([o \in O |-> OrderCash(o)])
AmountOf(s, O) == SumFunction([o \in {i \in O : ord[i].sym = s} |-> OrderAmount(o)])

CashDue == InitPortfolio.cash + CashOf(Issued)
AmountDue(s) == InitPortfolio.pos[s] + AmountOf(s, Issued)

\* The undo-then-apply bookkeeping is exact: at every step, through several
\* orders in flight, skipped cycles, slippage, expiries and stale cancels, the
\* portfolio is the reservations of the open orders plus the true outcome of the
\* settled ones, less the fees the bot has booked.
LedgerExact ==
  /\ pf.cash + pf.fees = CashDue
  /\ \A s \in Symbols : pf.pos[s] = AmountDue(s)

\* The same once the cycle is over and no order is open: _reconcile_fill undoes
\* a reservation, which an order of the stop-loss hook never made.
SettledLedgerExact == pc = "idle" /\ OpenOrders = {} => LedgerExact

\* In paper mode the fee total is the fees of the filled orders, each charged
\* once.  (A live order that fills in the reply to its placement is booked
\* without a fee.)
FeesExact ==
  paper => pf.fees = SumFunction([o \in {i \in OrderIds : db[i] = "filled"} |-> Fee(xf[o], xp[o])])
=============================================================================
