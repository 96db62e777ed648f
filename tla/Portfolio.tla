------------------------------ MODULE Portfolio ------------------------------
(***************************************************************************)
(* What the bot does to its in-memory Portfolio when it reserves capital   *)
(* for an order, reconciles a fill, applies a partial fill, releases a     *)
(* cancelled order, or rolls a cycle back: pure operators on a portfolio   *)
(* value.                                                                  *)
(*                                                                         *)
(* Data.  Amounts, prices and cash are integers: an amount is counted in   *)
(* the smallest lot, and a fee is notional \div FeeScale (the code's 0.1%  *)
(* is FeeScale = 1000).  A symbol the dict `positions` does not hold has   *)
(* amount 0, so "del positions[s]" is an amount of 0.  The code's deletion *)
(* threshold of 1e-10 is the comparison with 0.  Entry prices, realised    *)
(* PnL, stop levels and the peak balance are left out.                     *)
(***************************************************************************)
EXTENDS Integers

CONSTANTS Symbols,   \* trading pairs
          FeeScale   \* 1 / the taker fee rate

ASSUME PortfolioAssumption == FeeScale \in Nat \ {0}

Sides == {"buy", "sell"}

\* An OrderRequest; `price` is the reference price every request of the risk
\* pipeline and of the stop-loss hook carries.
OrderRequests == [sym : Symbols, side : Sides, qty : Nat, price : Nat]

Portfolios == [cash : Int, pos : [Symbols -> Nat], fees : Int]

Least(a, b) == IF a <= b THEN a ELSE b

\* Mutant of Held: the emptied position is not deleted.
HeldUnfloored(amount) == amount

\* "remaining <= 1e-10: del positions[symbol]"
Held(amount) == IF amount <= 0 THEN 0 ELSE amount

Notional(q, p) == q * p
Fee(q, p) == (q * p) \div FeeScale
-----------------------------------------------------------------------------
\* A BUY locks cash, scaled down to what is left; a SELL is credited at once,
\* capped at the held amount, and ignored when nothing is held.
ReserveBuy(pf, r) ==
  LET spend == Least(Notional(r.qty, r.price), pf.cash)
  IN  IF spend <= 0 \/ r.price = 0
        THEN pf
        ELSE [pf EXCEPT !.cash = @ - spend,
                        !.pos[r.sym] = @ + spend \div r.price]

ReserveSell(pf, r) ==
  LET sold == Least(r.qty, pf.pos[r.sym])
  IN  [pf EXCEPT !.cash = @ + Notional(sold, r.price),
                 !.pos[r.sym] = Held(@ - sold)]

ApplyOrder(pf, r) ==
  IF r.side = "buy" THEN ReserveBuy(pf, r) ELSE ReserveSell(pf, r)
-----------------------------------------------------------------------------
\* Mutant of ReconcileBuy: the fill is added to the tentative amount.
ReconcileBuyOnTop(pf, r, q, p, fee) ==
  [pf EXCEPT !.cash = @ + Notional(r.qty, r.price) - Notional(q, p) - fee,
             !.pos[r.sym] = @ + q,
             !.fees = @ + fee]

\* Undo the whole reservation of r, then book a fill of q at price p.
ReconcileBuy(pf, r, q, p, fee) ==
  [pf EXCEPT !.cash = @ + Notional(r.qty, r.price) - Notional(q, p) - fee,
             !.pos[r.sym] = Held(@ - r.qty) + q,
             !.fees = @ + fee]

\* A SELL whose symbol is no longer held is taken for one that sold everything:
\* only the cash moves.
ReconcileSell(pf, r, q, p, fee) ==
  [pf EXCEPT !.cash = @ - Notional(r.qty, r.price) + Notional(q, p) - fee,
             !.pos[r.sym] = IF @ = 0 THEN 0 ELSE Held(@ + r.qty - q),
             !.fees = @ + fee]

ReconcileFill(pf, r, q, p, fee) ==
  IF r.side = "buy" THEN ReconcileBuy(pf, r, q, p, fee)
                    ELSE ReconcileSell(pf, r, q, p, fee)

\* Position(amount=0) does not validate: booking a BUY that filled nothing into
\* a symbol the undo emptied raises, after the cash was refunded.
ReconcileRaises(pf, r, q) ==
  r.side = "buy" /\ q = 0 /\ Held(pf.pos[r.sym] - r.qty) = 0
-----------------------------------------------------------------------------
\* The reservation already holds the full amount, so a partial fill only moves
\* cash by the price difference and charges the fee of the increment.
IncrementalFill(pf, r, delta, p) ==
  LET fee  == Fee(delta, p)
      gain == IF r.side = "buy" THEN r.price - p ELSE p - r.price
  IN  [pf EXCEPT !.cash = @ + delta * gain - fee,
                 !.fees = @ + fee]

\* Give back the reservation of what did not fill.  A SELL whose symbol is not
\* held any more gives the amount back to nobody, and cash is floored at 0.
ReleaseBuy(pf, r, unfilled) ==
  [pf EXCEPT !.cash = @ + Notional(unfilled, r.price),
             !.pos[r.sym] = Held(@ - unfilled)]

ReleaseSell(pf, r, unfilled) ==
  [pf EXCEPT !.cash = Held(@ - Notional(unfilled, r.price)),
             !.pos[r.sym] = IF @ = 0 THEN 0 ELSE @ + unfilled]

ReleaseReservation(pf, r, filled) ==
  IF filled >= r.qty THEN pf
  ELSE IF r.side = "buy" THEN ReleaseBuy(pf, r, r.qty - filled)
                         ELSE ReleaseSell(pf, r, r.qty - filled)

\* Cash and positions come back, the fee total does not.
Restored(pf, snapshot) == [snapshot EXCEPT !.fees = pf.fees]
=============================================================================
