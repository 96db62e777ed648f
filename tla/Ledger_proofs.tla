---------------------------- MODULE Ledger_proofs ----------------------------
(***************************************************************************)
(* Proofs about the books: in paper mode the fee total is exactly the fees *)
(* of the filled orders; and where orders fill at once and capital is      *)
(* ample, cash and positions are exactly what the seed, the reservations   *)
(* of the open orders and the outcomes of the settled ones make them.      *)
(***************************************************************************)
EXTENDS Ledger, Execution_proofs, Sums_proofs

\* The orders there can be are finitely many, and so are those of any subset.
LEMMA OrdersFinite ==
  /\ \A n \in Nat : IsFiniteSet(1 .. n) /\ Cardinality(1 .. n) = n
  /\ IsFiniteSet(OrderIds) /\ \A O \in SUBSET OrderIds : IsFiniteSet(O)
<1>1. \A n \in Nat : IsFiniteSet(1 .. n) /\ Cardinality(1 .. n) = n
  <2> SUFFICES ASSUME NEW n \in Nat PROVE IsFiniteSet(1 .. n) /\ Cardinality(1 .. n) = n
    OBVIOUS
  <2>1. 1 \in Int /\ n \in Int /\ (1 > n => n = 0) /\ n - 1 + 1 = n
    OBVIOUS
  <2> QED
    BY <2>1, FS_Interval
<1>2. IsFiniteSet(OrderIds)
  BY <1>1, ExecutionAssumption DEF OrderIds
<1> QED
  BY <1>1, <1>2, FS_Subset

\* Whether the exchange is simulated is settled at the start.
LEMMA PaperStays == [Next]_vars => UNCHANGED paper
<1> USE DEF xVars
<1>1. CycleNext => UNCHANGED paper
  BY DEF CycleNext, StartCycle, RunExecution, SkipExecution, PollOnlyCycle, Reserve,
         CheckStopLosses, EndCycle, StopLoss
<1>2. PlaceNext => UNCHANGED paper
  BY DEF PlaceNext, RejectInvalid, SavePending, PlaceDbError, Placed, PlacedRaises,
         FinalizeDbError, CreateRaises, RefusedDbError, Refused, EndPlacing, OpenOrdersDbError
<1>3. ASSUME NEW o \in OrderIds,
             \/ PollFails(o) \/ PollFilled(o) \/ PollPartial(o) \/ PollStale(o)
             \/ PollDead(o) \/ PollNoChange(o) \/ PollRaises(o) \/ PollDbError(o)
      PROVE  UNCHANGED paper
  BY <1>3 DEF PollFails, PollFilled, PollPartial, PollStale, PollDead, PollNoChange, PollRaises,
              PollDbError
<1>4. PollNext => UNCHANGED paper
  BY <1>3 DEF PollNext, CancelStale, CancelDbError, CancelFails, EndPolling, SavePortfolioDbError
<1>5. ExchangeNext => UNCHANGED paper
  BY DEF ExchangeNext, ExchangeAccepts, ExchangeFills, ExchangeDrops, OrderAges
<1>6. Crash \/ UNCHANGED vars => UNCHANGED paper
  BY DEF Crash, vars
<1> QED
  BY <1>1, <1>2, <1>4, <1>5, <1>6 DEF Next

\* A reservation leaves the fee total alone, and a fill adds its fee.
LEMMA ApplyOrderFees ==
  ASSUME NEW p \in Portfolios, NEW r \in OrderRequests
  PROVE  ApplyOrder(p, r).fees = p.fees
  BY DEF ApplyOrder, ReserveBuy, ReserveSell, Portfolios

\* A reconciled fill charges its fee.
LEMMA ReconcileFillFees ==
  ASSUME NEW p \in Portfolios, NEW r \in OrderRequests, NEW q, NEW a, NEW fee
  PROVE  ReconcileFill(p, r, q, a, fee).fees = p.fees + fee
  BY DEF ReconcileFill, ReconcileBuy, ReconcileSell, Portfolios
-----------------------------------------------------------------------------
(* Fees in paper mode. *)

FeesKept == Faults \cap {"db_error", "crash"} = {} /\ InitPortfolio.fees = 0

Filled == {o \in OrderIds : db[o] = "filled"}
FeeOf == [o \in Filled |-> Fee(xf[o], xp[o])]

\* The simulated exchange answers a placement with a complete fill, so an order
\* is open only while create_order is awaited, and no poll finds one.
PaperInv ==
  paper => /\ \A o \in OrderIds : xs[o] \in {"none", "closed"}
           /\ \A o \in OrderIds : IsOpen(o) => pc = "sent" /\ o = cur
           /\ pf.fees = SumFunction(FeeOf)

\* The fees of the filled orders are numbers, and those orders finitely many.
LEMMA FeeOfType == TypeOK => FeeOf \in [Filled -> Int] /\ IsFiniteSet(Filled)
<1> SUFFICES ASSUME TypeOK PROVE FeeOf \in [Filled -> Int] /\ IsFiniteSet(Filled)
  OBVIOUS
<1>1. \A o \in Filled : xf[o] \in Int /\ xp[o] \in Int
  BY DEF TypeOK, Filled
<1>2. Filled \in SUBSET OrderIds
  BY DEF Filled
<1> QED
  BY <1>1, <1>2, FeeType, OrdersFinite DEF FeeOf

\* Where the filled orders and what they filled at stay, their fees do.
LEMMA FeesSame ==
  ASSUME TypeOK, Filled' = Filled, \A o \in Filled : xf'[o] = xf[o] /\ xp'[o] = xp[o]
  PROVE  SumFunction(FeeOf)' = SumFunction(FeeOf)
<1>1. FeeOf' = FeeOf
  BY DEF FeeOf
<1> QED
  BY <1>1

\* Where one more is filled, its fee is added.
LEMMA FeesGrow ==
  ASSUME TypeOK, NEW o \in OrderIds, o \notin Filled, Filled' = Filled \cup {o},
         UNCHANGED <<xf, xp>>
  PROVE  SumFunction(FeeOf)' = SumFunction(FeeOf) + Fee(xf[o], xp[o])
<1>1. FeeOf \in [Filled -> Int] /\ IsFiniteSet(Filled)
  BY FeeOfType
<1>2. Fee(xf[o], xp[o]) \in Int
  BY FeeType, xf[o] \in Int, xp[o] \in Int DEF TypeOK
<1> DEFINE g == [i \in Filled \cup {o} |-> Fee(xf[i], xp[i])]
<1>3. FeeOf' = g
  BY DEF FeeOf
<1>4. g[o] = Fee(xf[o], xp[o]) /\ \A i \in Filled : FeeOf[i] = g[i] /\ FeeOf[i] \in Int
  BY <1>1 DEF FeeOf
<1>5. g \in [Filled \cup {o} -> Int]
  BY <1>1, <1>2, <1>4
<1> HIDE DEF g
<1>6. SumFunctionOnSet(g, Filled \cup {o}) = SumFunctionOnSet(FeeOf, Filled) + g[o]
  <2> DEFINE f == FeeOf
             S == Filled
  <2>1. IsFiniteSet(S) /\ o \notin S /\ g[o] \in Int /\ \A y \in S : f[y] \in Int /\ f[y] = g[y]
    BY <1>1, <1>2, <1>4
  <2> HIDE DEF f, S
  <2>2. SumFunctionOnSet(g, S \cup {o}) = SumFunctionOnSet(f, S) + g[o]
    BY <2>1, SumGrows
  <2> QED
    BY <2>2 DEF f, S
<1> QED
  BY <1>1, <1>3, <1>4, <1>5, <1>6, SumOfFunction

\* A step with the same fees, filled orders and outcomes, and no order opened.
LEMMA FeesRest ==
  ASSUME TypeOK, PaperInv, UNCHANGED <<xs, xf, xp, paper>>, pc # "sent",
         pf'.fees = pf.fees, \A o \in OrderIds : db'[o] = db[o]
  PROVE  PaperInv'
<1>1. Filled' = Filled
  BY DEF Filled
<1> QED
  BY <1>1, FeesSame DEF PaperInv, IsOpen

\* Without failures of the database a step of paper trading books nothing but
\* the placement fee of a fill.
LEMMA PaperKeeps == FeesKept /\ IInv /\ PaperInv /\ [Next]_vars => PaperInv'
<1> SUFFICES ASSUME FeesKept, IInv, PaperInv, [Next]_vars, paper' PROVE PaperInv'
  BY DEF PaperInv
<1> TypeOK /\ BatchUntouched /\ PollsOpen /\ Rows
  BY DEF IInv
<1> USE DEF botVars, dbVars, histVars, xVars
<1>0. paper /\ \A o \in OrderIds : IsOpen(o) => pc = "sent" /\ o = cur
  BY PaperStays DEF PaperInv
<1>1. CASE CycleNext
  <2>1. pc # "sent" /\ UNCHANGED <<xs, xf, xp, paper, db>>
    BY <1>1 DEF CycleNext, StartCycle, RunExecution, SkipExecution, PollOnlyCycle, Reserve,
                CheckStopLosses, EndCycle, StopLoss
  <2>2. pf'.fees = pf.fees
    <3>1. ASSUME NEW r \in Requests, Reserve(r) PROVE pf'.fees = pf.fees
      BY <3>1, ApplyOrderFees, ExecutionAssumption DEF Reserve, TypeOK
    <3>2. ASSUME NEW p \in Portfolios PROVE Restored(pf, p).fees = pf.fees
      BY DEF Restored, Portfolios
    <3>3. SkipExecution => pf'.fees = pf.fees
      BY <3>2 DEF SkipExecution, TypeOK
    <3> QED
      BY <1>1, <3>1, <3>3 DEF CycleNext, StartCycle, RunExecution, PollOnlyCycle,
                CheckStopLosses, EndCycle, StopLoss
  <2> QED
    BY <2>1, <2>2, FeesRest
<1>2. CASE RejectInvalid \/ EndPlacing
  BY <1>2, FeesRest DEF RejectInvalid, EndPlacing
<1>3. cur <= Len(ord) => cur \in OrderIds
  BY ExecutionAssumption DEF TypeOK, OrderIds
<1>4. CASE SavePending
  <2>a. cur \in OrderIds /\ pc = "place" /\ cur >= cur
    BY <1>3, <1>4 DEF SavePending, TypeOK
  <2>1. db[cur] = "none" /\ cur \in OrderIds
    BY <2>a DEF BatchUntouched, Untouched
  <2>2. Filled' = Filled
    BY <1>4, <2>1 DEF SavePending, Filled, TypeOK
  <2> QED
    BY <1>0, <1>4, <2>1, <2>2, FeesSame DEF SavePending, PaperInv, IsOpen, TypeOK
<1>5. CASE Placed
  <2>1. cur \in OrderIds /\ db[cur] = "pending"
    BY <1>3, <1>5 DEF Placed, BatchUntouched
  <2>2. xs[cur] = "closed" /\ Replied(cur) = "filled"
    BY <1>0, <1>5, <2>1 DEF Placed, PaperInv, Replied
  <2>3. db' = [db EXCEPT ![cur] = "filled"]
    BY <1>5, <2>2 DEF Placed, Finalize
  <2>4. cur \notin Filled /\ Filled' = Filled \cup {cur}
    BY <2>1, <2>3 DEF Filled, TypeOK
  <2>5. SumFunction(FeeOf)' = SumFunction(FeeOf) + Fee(xf[cur], xp[cur])
    BY <1>5, <2>1, <2>4, FeesGrow DEF Placed
  <2>6. pf'.fees = pf.fees + Fee(xf[cur], xp[cur])
    <3>1. cur \in 1 .. Len(ord) /\ ord[cur] \in OrderRequests
      BY <1>5 DEF Placed, BatchUntouched, TypeOK
    <3>2. pf' = ReconcileFill(pf, ord[cur], xf[cur], xp[cur], Fee(xf[cur], xp[cur]))
      BY <1>0, <1>5, <2>2 DEF Placed, PlacementFee
    <3> QED
      BY <3>1, <3>2, ReconcileFillFees DEF TypeOK
  <2>7. \A o \in OrderIds : ~IsOpen(o)'
    BY <1>0, <2>1, <2>3 DEF IsOpen, OpenStatuses, TypeOK
  <2> QED
    BY <1>5, <2>5, <2>6, <2>7 DEF Placed, PaperInv
<1>6. CASE CreateRaises
  <2>1. cur \in OrderIds /\ db[cur] = "pending" /\ db' = [db EXCEPT ![cur] = "rejected"]
    BY <1>3, <1>6 DEF CreateRaises, Refused, BatchUntouched
  <2>2. Filled' = Filled
    BY <2>1 DEF Filled, TypeOK
  <2>3. \A o \in OrderIds : ~IsOpen(o)'
    BY <1>0, <2>1 DEF IsOpen, OpenStatuses, TypeOK
  <2> QED
    BY <1>6, <2>2, <2>3, FeesSame DEF CreateRaises, Refused, PaperInv
<1>7. CASE EndPolling \/ CancelFails
  BY <1>7, FeesRest DEF EndPolling, CancelFails
<1>8. CASE ExchangeAccepts
  <2>1. cur \in OrderIds /\ db[cur] = "pending" /\ cur \notin Filled
    BY <1>3, <1>8 DEF ExchangeAccepts, BatchUntouched, Filled
  <2>2. \A o \in Filled : xf'[o] = xf[o] /\ xp'[o] = xp[o]
    BY <1>8, <2>1 DEF ExchangeAccepts, TypeOK, Filled
  <2>3. \A o \in OrderIds : xs'[o] \in {"none", "closed"}
    BY <1>0, <1>8, <2>1 DEF ExchangeAccepts, PaperInv, TypeOK
  <2> QED
    BY <1>0, <1>8, <2>2, <2>3, FeesSame DEF ExchangeAccepts, PaperInv, IsOpen, Filled
<1>9. ASSUME NEW o \in OrderIds, OrderAges(o) PROVE PaperInv'
  BY <1>9, FeesSame DEF OrderAges, PaperInv, IsOpen, Filled
<1>10. CASE UNCHANGED vars
  BY <1>10, FeesSame DEF vars, PaperInv, IsOpen, Filled
<1>11. \A o \in OrderIds : ~ExchangeFills(o) /\ ~ExchangeDrops(o)
  BY <1>0 DEF ExchangeFills, ExchangeDrops, PaperInv
<1>12. ~CancelStale /\ polls = {}
  <2>1. polls \subseteq OrderIds
    BY ExecutionAssumption DEF TypeOK, OrderIds
  <2> QED
    BY <1>0, <2>1 DEF CancelStale, PollsOpen, IsOpen, OpenStatuses
<1>13. \A o \in OrderIds :
         /\ ~PollFails(o) /\ ~PollFilled(o) /\ ~PollPartial(o) /\ ~PollStale(o)
         /\ ~PollDead(o) /\ ~PollNoChange(o) /\ ~PollRaises(o) /\ ~PollDbError(o)
  BY <1>12 DEF PollFails, PollFilled, PollPartial, PollStale, PollDead, PollNoChange, PollRaises,
               PollDbError, Polling
<1>14. /\ ~PlaceDbError /\ ~PlacedRaises /\ ~FinalizeDbError /\ ~RefusedDbError
       /\ ~OpenOrdersDbError /\ ~CancelDbError /\ ~SavePortfolioDbError /\ ~Crash
  BY <1>0 DEF FeesKept, Fault, PlaceDbError, PlacedRaises, FinalizeDbError, RefusedDbError,
              OpenOrdersDbError, CancelDbError, SavePortfolioDbError, Crash
<1>15. PlaceNext => PaperInv'
  BY <1>2, <1>4, <1>5, <1>6, <1>14 DEF PlaceNext
<1>16. PollNext => PaperInv'
  BY <1>7, <1>12, <1>13, <1>14 DEF PollNext
<1>17. ExchangeNext => PaperInv'
  BY <1>8, <1>9, <1>11 DEF ExchangeNext
<1> QED
  BY <1>1, <1>10, <1>14, <1>15, <1>16, <1>17 DEF Next

\* In paper mode the fee total is the fees of the filled orders, each charged
\* once, whatever is requested, refused, skipped, rolled back or sold by the
\* stop-loss hook, while the orders table can be written.
THEOREM PaperFeesExact ==
  ASSUME FeesKept
  PROVE  Spec => []FeesExact
<1>1. Init => PaperInv
  <2> SUFFICES ASSUME Init PROVE PaperInv
    OBVIOUS
  <2>1. Filled = {} /\ FeeOf \in [{} -> Int]
    BY DEF Init, Filled, FeeOf
  <2>2. SumFunction(FeeOf) = 0
    BY <2>1, SumType, SumOfFunction, FS_EmptySet
  <2> QED
    BY <2>2 DEF Init, PaperInv, FeesKept, IsOpen, OpenStatuses
<1>2. IInv /\ PaperInv /\ [Next]_vars => PaperInv'
  BY PaperKeeps
<1>3. PaperInv => FeesExact
  BY DEF PaperInv, FeesExact, FeeOf, Filled
<1> QED
  BY <1>1, <1>2, <1>3, Inductive, PTL DEF Spec
-----------------------------------------------------------------------------
(* The books. *)

\* The failures the bot survives without losing track: of a query, of a
\* cancellation, and of an order the exchange drops once it has accepted it.
CalmFaults == {"fetch_error", "cancel_error", "expire", "reject", "no_ticker"}

\* Orders fill at once; requests carry whole lots, at most Q of them at a price of
\* at most P; and the seed affords every order there can be, at any price, twice.
Ample(Q, P) ==
  /\ Faults \subseteq CalmFaults /\ FillSizes = {}
  /\ \A r \in Requests : r.qty \in 1 .. Q /\ r.price \in 1 .. P /\ Normalized(r) = r
  /\ FillPrices \subseteq 0 .. P
  /\ InitPortfolio.fees = 0
  /\ InitPortfolio.cash >= (2 * MaxOrders + 1) * (Q * P)
  /\ \A s \in Symbols : InitPortfolio.pos[s] >= (MaxOrders + 1) * Q

\* The phases: a batch is reserved, placed and polled in one cycle, with the
\* snapshot taken before its first reservation; outside there is neither.
Phases(Q) ==
  /\ pc \in {"reserve", "place", "sent"} => mode = "exec"
  /\ pc \in {"idle", "hooks", "stops"} => snap = NoSnap /\ cur = Len(ord) + 1
  /\ pc = "reserve" => (snap = NoSnap <=> cur = Len(ord) + 1)
  /\ pc \in {"place", "sent"} /\ cur <= Len(ord) => snap # NoSnap
  /\ snap # NoSnap => \A s \in Symbols : snap.pos[s] >= Q
  /\ pc = "cancel" => seen.filled = 0
  /\ pc = "sent" => xs[cur] \in {"none", "open", "closed"}

\* A row whose order is settled has the exchange's last word, and before an order
\* is closed nothing of it has filled.
RowSettled(o) ==
  /\ db[o] = "none" => xs[o] = "none"
  /\ db[o] = "filled" => xs[o] = "closed"
  /\ db[o] = "cancelled" => xs[o] = "canceled"
  /\ db[o] = "rejected" => xs[o] = "rejected"
  /\ xs[o] # "closed" => xf[o] = 0
  /\ xs[o] = "none" => (pc = "sent" /\ o = cur) \/ db[o] = "none"
  /\ db[o] = "pending" => pc = "sent" /\ o = cur
  /\ paper => xs[o] # "open" /\ (IsOpen(o) => pc = "sent" /\ o = cur)

SettledRows(P) == \A o \in OrderIds : RowSettled(o) /\ xp[o] \in 0 .. P

\* Every order issued is a request.
OrdersAsked == ord \in Seq(Requests)

\* A filled order has been charged at most its fee.
Unfilled == OrderIds \ Filled
FeesBounded(B) == pf.fees + Cardinality(Unfilled) * B <= MaxOrders * B

\* What a rollback would restore is exact for the orders before the batch.
SnapExact ==
  pc = "reserve" /\ snap # NoSnap =>
    /\ snap.cash + pf.fees = InitPortfolio.cash + CashOf(1 .. cur - 1)
    /\ \A s \in Symbols : snap.pos[s] = InitPortfolio.pos[s] + AmountOf(s, 1 .. cur - 1)

BooksInv(Q, P) ==
  /\ Phases(Q) /\ SettledRows(P) /\ OrdersAsked /\ FeesBounded(Q * P)
  /\ LedgerExact /\ SnapExact
-----------------------------------------------------------------------------
(* The floors of the portfolio operators are not met where capital is      *)
(* ample: a reservation, a fill and a release then move exactly what the   *)
(* books say.                                                              *)

\* The portfolio p after a request r has moved cash c, amount a and a fee.
MovedBy(p, r, c, a, fee, new) ==
  /\ new.cash = p.cash + c - fee /\ new.fees = p.fees + fee
  /\ new.pos = [p.pos EXCEPT ![r.sym] = @ + a]

\* A reservation that is covered moves the whole notional and the whole amount.
LEMMA ReservesExactly ==
  ASSUME NEW p \in Portfolios, NEW r \in OrderRequests, r.qty >= 1, r.price >= 1,
         Notional(r.qty, r.price) <= p.cash, r.qty <= p.pos[r.sym]
  PROVE  MovedBy(p, r, CashMove(r, r.qty, r.price), AmountMove(r, r.qty), 0, ApplyOrder(p, r))
<1> USE Fields
<1> DEFINE n == Notional(r.qty, r.price)
<1>1. n \in Nat /\ n > 0 /\ n \div r.price = r.qty
  <2>1. n >= 1 /\ n \in Nat
    BY ProductBound DEF Notional
  <2> QED
    BY <2>1, DivideBack DEF Notional
<1>2. CASE r.side = "buy"
  <2>1. Least(n, p.cash) = n
    BY DEF Least
  <2>2. ApplyOrder(p, r) = [p EXCEPT !.cash = @ - n, !.pos[r.sym] = @ + n \div r.price]
    BY <1>1, <1>2, <2>1 DEF ApplyOrder, ReserveBuy
  <2> HIDE DEF n
  <2> QED
    BY <1>1, <1>2, <2>2 DEF MovedBy, CashMove, AmountMove, Portfolios, n
<1>3. CASE r.side # "buy"
  <2>1. Least(r.qty, p.pos[r.sym]) = r.qty /\ Held(p.pos[r.sym] - r.qty) = p.pos[r.sym] - r.qty
    BY DEF Least, Held
  <2>2. ApplyOrder(p, r) = [p EXCEPT !.cash = @ + n, !.pos[r.sym] = Held(@ - r.qty)]
    BY <1>3, <2>1 DEF ApplyOrder, ReserveSell
  <2> HIDE DEF n
  <2> QED
    BY <1>1, <1>3, <2>1, <2>2 DEF MovedBy, CashMove, AmountMove, Portfolios, n
<1> QED
  BY <1>2, <1>3

\* A full fill moves the cash by the difference of the prices, and no amount.
LEMMA ReconcilesExactly ==
  ASSUME NEW p \in Portfolios, NEW r \in OrderRequests, r.qty >= 1, r.qty <= p.pos[r.sym],
         NEW a \in Nat, NEW fee \in Int
  PROVE  MovedBy(p, r, CashMove(r, r.qty, a) - CashMove(r, r.qty, r.price), 0, fee,
                 ReconcileFill(p, r, r.qty, a, fee))
<1> USE Fields
<1> DEFINE n == Notional(r.qty, r.price)
           m == Notional(r.qty, a)
<1>0. r.qty \in Int /\ p.pos[r.sym] \in Nat /\ r.sym \in Symbols /\ p.cash \in Int /\ n \in Int
  <2>1. r.qty \in Nat
    OBVIOUS
  <2> QED
    BY <2>1
<1>1. n \in Int /\ m \in Int
  BY <1>0, NotionalType, a \in Int
<1> HIDE DEF n, m
<1>2. CASE r.side = "buy"
  <2>1. Held(p.pos[r.sym] - r.qty) + r.qty = p.pos[r.sym]
    BY DEF Held
  <2>2. ReconcileFill(p, r, r.qty, a, fee) =
          [p EXCEPT !.cash = @ + n - m - fee, !.pos[r.sym] = Held(@ - r.qty) + r.qty,
                    !.fees = @ + fee]
    BY <1>2 DEF ReconcileFill, ReconcileBuy, n, m
  <2> QED
    BY <1>1, <1>2, <2>1, <2>2 DEF MovedBy, CashMove, Portfolios, n, m
<1>3. CASE r.side # "buy"
  <2>1. p.pos[r.sym] # 0 /\ Held(p.pos[r.sym] + r.qty - r.qty) = p.pos[r.sym]
    BY DEF Held
  <2>2. ReconcileFill(p, r, r.qty, a, fee) =
          [p EXCEPT !.cash = @ - n + m - fee,
                    !.pos[r.sym] = IF @ = 0 THEN 0 ELSE Held(@ + r.qty - r.qty),
                    !.fees = @ + fee]
    BY <1>3 DEF ReconcileFill, ReconcileSell, n, m
  <2> QED
    BY <1>1, <1>3, <2>1, <2>2 DEF MovedBy, CashMove, Portfolios, n, m
<1> QED
  BY <1>2, <1>3

\* A release of an order nothing of which filled undoes its reservation.
LEMMA ReleasesExactly ==
  ASSUME NEW p \in Portfolios, NEW r \in OrderRequests, r.qty >= 1,
         Notional(r.qty, r.price) <= p.cash, r.qty <= p.pos[r.sym]
  PROVE  MovedBy(p, r, -CashMove(r, r.qty, r.price), -AmountMove(r, r.qty), 0,
                 ReleaseReservation(p, r, 0))
<1> USE Fields
<1> DEFINE n == Notional(r.qty, r.price)
<1>0. /\ r.qty \in Nat /\ p.pos[r.sym] \in Nat /\ r.sym \in Symbols
      /\ p.cash \in Int /\ p.fees \in Int /\ n \in Int
  OBVIOUS
<1>1. n \in Int /\ n <= p.cash /\ r.qty - 0 = r.qty /\ ~(0 >= r.qty)
  OBVIOUS
<1>2. CASE r.side = "buy"
  <2>1. Held(p.pos[r.sym] - r.qty) = p.pos[r.sym] - r.qty
    BY DEF Held
  <2>2. ReleaseReservation(p, r, 0) = [p EXCEPT !.cash = @ + n, !.pos[r.sym] = Held(@ - r.qty)]
    BY <1>1, <1>2 DEF ReleaseReservation, ReleaseBuy
  <2>3. -CashMove(r, r.qty, r.price) = n /\ -AmountMove(r, r.qty) = -r.qty
    BY <1>0, <1>2 DEF CashMove, AmountMove
  <2>4. p.cash + (-CashMove(r, r.qty, r.price)) - 0 = p.cash + n /\ p.fees + 0 = p.fees
        /\ p.pos[r.sym] + (-AmountMove(r, r.qty)) = p.pos[r.sym] - r.qty
    BY <1>0, <2>3
  <2> HIDE DEF n
  <2> QED
    BY <1>0, <2>1, <2>2, <2>4 DEF MovedBy, Portfolios
<1>3. CASE r.side # "buy"
  <2>1. Held(p.cash - n) = p.cash - n /\ p.pos[r.sym] # 0
    BY <1>1 DEF Held
  <2>2. ReleaseReservation(p, r, 0) =
          [p EXCEPT !.cash = Held(@ - n), !.pos[r.sym] = IF @ = 0 THEN 0 ELSE @ + r.qty]
    BY <1>1, <1>3 DEF ReleaseReservation, ReleaseSell
  <2>3. -CashMove(r, r.qty, r.price) = -n /\ -AmountMove(r, r.qty) = r.qty
    BY <1>0, <1>3 DEF CashMove, AmountMove
  <2>4. p.cash + (-CashMove(r, r.qty, r.price)) - 0 = p.cash - n /\ p.fees + 0 = p.fees
        /\ p.pos[r.sym] + (-AmountMove(r, r.qty)) = p.pos[r.sym] + r.qty
    BY <1>0, <2>3
  <2> HIDE DEF n
  <2> QED
    BY <1>0, <2>1, <2>2, <2>4 DEF MovedBy, Portfolios
<1> QED
  BY <1>2, <1>3
-----------------------------------------------------------------------------
(* What the orders 1 .. n move, from one state to the next. *)

\* An order that stays as settled, or as unsettled, as it is moves the same.
Rests(o) ==
  /\ ord'[o] = ord[o] /\ (Unsettled(o)' <=> Unsettled(o))
  /\ Unsettled(o) \/ (xf'[o] = xf[o] /\ xp'[o] = xp[o])

\* An order that rests owes what it owed.
LEMMA OrderRests ==
  ASSUME NEW o, Rests(o)
  PROVE  /\ OrderCash(o)' = OrderCash(o) /\ OrderAmount(o)' = OrderAmount(o)
         /\ ord'[o].sym = ord[o].sym
  BY DEF Rests, OrderCash, OrderAmount

\* What an order owes is a number.
LEMMA OrderType ==
  ASSUME TypeOK, NEW o \in 1 .. Len(ord)
  PROVE  OrderCash(o) \in Int /\ OrderAmount(o) \in Int
<1>1. o \in OrderIds /\ ord[o] \in OrderRequests
  <2>1. ord[o] \in OrderRequests /\ Len(ord) \in Nat /\ Len(ord) <= MaxOrders
    BY DEF TypeOK
  <2> QED
    BY <2>1, ExecutionAssumption DEF OrderIds
<1>2. ord[o].qty \in Int /\ ord[o].price \in Int /\ xf[o] \in Int /\ xp[o] \in Int
  BY <1>1, SMTT(30) DEF TypeOK, OrderRequests
<1>3. Notional(ord[o].qty, ord[o].price) \in Int /\ Notional(xf[o], xp[o]) \in Int
  BY <1>2, NotionalType
<1> QED
  BY <1>2, <1>3 DEF OrderCash, OrderAmount, CashMove, AmountMove

\* Those of the orders 1 .. n that are in s.
In(s, n) == {i \in 1 .. n : ord[i].sym = s}
CashFn(n) == [o \in 1 .. n |-> OrderCash(o)]
AmountFn(s, n) == [o \in In(s, n) |-> OrderAmount(o)]

\* The sums, as sums of these functions.
LEMMA MovesAreSums ==
  ASSUME TypeOK, NEW n \in 0 .. Len(ord), NEW s
  PROVE  /\ CashFn(n) \in [1 .. n -> Int] /\ AmountFn(s, n) \in [In(s, n) -> Int]
         /\ CashOf(1 .. n) = SumFunctionOnSet(CashFn(n), 1 .. n)
         /\ AmountOf(s, 1 .. n) = SumFunctionOnSet(AmountFn(s, n), In(s, n))
         /\ IsFiniteSet(1 .. n) /\ IsFiniteSet(In(s, n)) /\ In(s, n) \subseteq 1 .. n
         /\ CashOf(1 .. n) \in Int /\ AmountOf(s, 1 .. n) \in Int
<1>1. CashFn(n) \in [1 .. n -> Int] /\ AmountFn(s, n) \in [In(s, n) -> Int]
  <2>1. Len(ord) \in Nat /\ 1 .. n \subseteq 1 .. Len(ord)
    BY DEF TypeOK
  <2> QED
    BY <2>1, OrderType DEF CashFn, AmountFn, In
<1>2. IsFiniteSet(1 .. n) /\ IsFiniteSet(In(s, n)) /\ In(s, n) \subseteq 1 .. n
  <2>1. n \in Nat /\ In(s, n) \in SUBSET (1 .. n)
    BY DEF TypeOK, In
  <2> QED
    BY <2>1, OrdersFinite, FS_Subset
<1>3. CashOf(1 .. n) = SumFunctionOnSet(CashFn(n), 1 .. n)
  BY <1>1, SumOfFunction DEF CashOf, CashFn
<1>4. AmountOf(s, 1 .. n) = SumFunctionOnSet(AmountFn(s, n), In(s, n))
  BY <1>1, SumOfFunction DEF AmountOf, AmountFn, In
<1> QED
  BY <1>1, <1>2, <1>3, <1>4, SumType

\* Where all of them rest, so do the sums.
LEMMA SumsRest ==
  ASSUME NEW n, \A o \in 1 .. n : Rests(o)
  PROVE  CashOf(1 .. n)' = CashOf(1 .. n) /\ \A s : AmountOf(s, 1 .. n)' = AmountOf(s, 1 .. n)
<1>1. [o \in 1 .. n |-> OrderCash(o)]' = [o \in 1 .. n |-> OrderCash(o)]
  BY OrderRests
<1>2. ASSUME NEW s
      PROVE  [o \in {i \in 1 .. n : ord[i].sym = s} |-> OrderAmount(o)]' =
             [o \in {i \in 1 .. n : ord[i].sym = s} |-> OrderAmount(o)]
  <2>1. {i \in 1 .. n : ord'[i].sym = s} = {i \in 1 .. n : ord[i].sym = s}
    BY OrderRests
  <2> QED
    BY <2>1, OrderRests
<1> QED
  BY <1>1, <1>2 DEF CashOf, AmountOf

\* Where all but one rest, the sums follow that one.
LEMMA SumsMove ==
  ASSUME TypeOK, NEW n \in 0 .. Len(ord), NEW x, x \in 1 .. n,
         \A o \in 1 .. n : o # x => Rests(o), ord'[x].sym = ord[x].sym,
         NEW c \in Int, NEW a \in Int, OrderCash(x)' = OrderCash(x) + c,
         OrderAmount(x)' = OrderAmount(x) + a
  PROVE  /\ CashOf(1 .. n)' = CashOf(1 .. n) + c
         /\ \A s : AmountOf(s, 1 .. n)' =
                   IF s = ord[x].sym THEN AmountOf(s, 1 .. n) + a ELSE AmountOf(s, 1 .. n)
<1>0. x \in 1 .. Len(ord) /\ OrderCash(x) \in Int /\ OrderAmount(x) \in Int
  <2>1. Len(ord) \in Nat /\ x \in 1 .. Len(ord)
    BY DEF TypeOK
  <2> QED
    BY <2>1, OrderType
<1>1. CashOf(1 .. n)' = CashOf(1 .. n) + c
  <2>0. PICK S, f, g : S = 1 .. n /\ f = CashFn(n) /\ g = [o \in 1 .. n |-> OrderCash(o)']
    OBVIOUS
  <2>1. /\ f \in [S -> Int] /\ IsFiniteSet(S) /\ CashOf(1 .. n) = SumFunctionOnSet(f, S)
        /\ CashOf(1 .. n) \in Int
    BY <2>0, MovesAreSums
  <2>2. \A o \in S : o # x => f[o] = g[o]
    BY <2>0, OrderRests DEF CashFn
  <2>3. x \in S /\ f[x] = OrderCash(x) /\ g[x] = f[x] + c /\ f[x] \in Int /\ g[x] \in Int
    BY <1>0, <2>0 DEF CashFn
  <2>4. g \in [S -> Int]
    BY <2>0, <2>1, <2>2, <2>3
  <2>5. CashOf(1 .. n)' = SumFunctionOnSet(g, S)
    BY <2>0, <2>4, SumOfFunction DEF CashOf
  <2>6. SumFunctionOnSet(g, S) = SumFunctionOnSet(f, S) + g[x] - f[x]
    BY <2>1, <2>2, <2>3, <2>4, SumChanges, ZenonT(60)
  <2> QED
    BY <2>1, <2>3, <2>5, <2>6
<1>2. ASSUME NEW s
      PROVE  AmountOf(s, 1 .. n)' =
               IF s = ord[x].sym THEN AmountOf(s, 1 .. n) + a ELSE AmountOf(s, 1 .. n)
  <2> DEFINE f == AmountFn(s, n)
             g == [o \in In(s, n) |-> OrderAmount(o)']
             S == In(s, n)
  <2>1. /\ f \in [S -> Int] /\ IsFiniteSet(S) /\ S \subseteq 1 .. n
        /\ AmountOf(s, 1 .. n) = SumFunctionOnSet(f, S) /\ AmountOf(s, 1 .. n) \in Int
    BY MovesAreSums
  <2>2. \A o \in S : o # x => f[o] = g[o]
    BY <2>1, OrderRests DEF AmountFn
  <2>3. x \in S => f[x] = OrderAmount(x) /\ g[x] = f[x] + a /\ f[x] \in Int /\ g[x] \in Int
    BY <1>0 DEF AmountFn
  <2>4. g \in [S -> Int]
    BY <2>1, <2>2, <2>3
  <2>5. {i \in 1 .. n : ord'[i].sym = s} = S
    <3>1. \A o \in 1 .. n : ord'[o].sym = ord[o].sym
      BY OrderRests
    <3> QED
      BY <3>1 DEF In
  <2>6. AmountOf(s, 1 .. n)' = SumFunctionOnSet(g, S)
    BY <2>4, <2>5, SumOfFunction DEF AmountOf
  <2>7. x \in S <=> s = ord[x].sym
    BY DEF In
  <2> HIDE DEF f, g, S
  <2>8. x \in S => SumFunctionOnSet(g, S) = SumFunctionOnSet(f, S) + g[x] - f[x]
    BY <2>1, <2>2, <2>4, SumChanges, ZenonT(60)
  <2>9. x \notin S => SumFunctionOnSet(g, S) = SumFunctionOnSet(f, S)
    BY <2>1, <2>2, SumSame
  <2> QED
    BY <2>1, <2>3, <2>6, <2>7, <2>8, <2>9
<1> QED
  BY <1>1, <1>2

\* Where they rest and one more is issued, the sums grow by that one.
LEMMA SumsGrow ==
  ASSUME TypeOK, NEW n \in 0 .. Len(ord), \A o \in 1 .. n : Rests(o), NEW x, x = n + 1,
         NEW c \in Int, NEW a \in Int, OrderCash(x)' = c, OrderAmount(x)' = a
  PROVE  /\ CashOf(1 .. x)' = CashOf(1 .. n) + c
         /\ \A s : AmountOf(s, 1 .. x)' =
                   IF s = ord'[x].sym THEN AmountOf(s, 1 .. n) + a ELSE AmountOf(s, 1 .. n)
<1>0. 1 .. x = (1 .. n) \cup {x} /\ x \notin 1 .. n
  BY n \in Nat DEF TypeOK
<1>1. CashOf(1 .. x)' = CashOf(1 .. n) + c
  <2> DEFINE f == CashFn(n)
             g == [o \in 1 .. x |-> OrderCash(o)']
             S == 1 .. n
  <2>1. /\ f \in [S -> Int] /\ IsFiniteSet(S) /\ CashOf(1 .. n) = SumFunctionOnSet(f, S)
        /\ CashOf(1 .. n) \in Int
    BY MovesAreSums
  <2>2. \A o \in S : f[o] = g[o]
    BY <1>0, OrderRests DEF CashFn
  <2>3. g[x] = c
    BY <1>0
  <2>4. g \in [1 .. x -> Int]
    BY <1>0, <2>1, <2>2, <2>3
  <2>5. CashOf(1 .. x)' = SumFunctionOnSet(g, 1 .. x)
    BY <2>4, SumOfFunction DEF CashOf
  <2>6. x \notin S /\ 1 .. x = S \cup {x}
    BY <1>0
  <2> HIDE DEF f, g, S
  <2>7. /\ IsFiniteSet(S) /\ x \notin S /\ g[x] \in Int
        /\ \A y \in S : f[y] \in Int /\ f[y] = g[y]
    BY <2>1, <2>2, <2>3, <2>6
  <2>8. SumFunctionOnSet(g, S \cup {x}) = SumFunctionOnSet(f, S) + g[x]
    BY <2>7, SumGrows
  <2> QED
    BY <2>1, <2>3, <2>5, <2>6, <2>8
<1>2. ASSUME NEW s
      PROVE  AmountOf(s, 1 .. x)' =
               IF s = ord'[x].sym THEN AmountOf(s, 1 .. n) + a ELSE AmountOf(s, 1 .. n)
  <2> DEFINE f == AmountFn(s, n)
             R == {i \in 1 .. x : ord'[i].sym = s}
             g == [o \in R |-> OrderAmount(o)']
             S == In(s, n)
  <2>1. /\ f \in [S -> Int] /\ IsFiniteSet(S) /\ S \subseteq 1 .. n
        /\ AmountOf(s, 1 .. n) = SumFunctionOnSet(f, S) /\ AmountOf(s, 1 .. n) \in Int
    BY MovesAreSums
  <2>2. R = IF s = ord'[x].sym THEN S \cup {x} ELSE S
    <3>1. \A o \in 1 .. n : ord'[o].sym = ord[o].sym
      BY OrderRests
    <3> QED
      BY <1>0, <3>1 DEF In
  <2>3. \A o \in S : f[o] = g[o]
    BY <2>1, <2>2, OrderRests DEF AmountFn
  <2>4. s = ord'[x].sym => g[x] = a
    BY <2>2
  <2>5. g \in [R -> Int]
    BY <2>1, <2>2, <2>3, <2>4
  <2>6. AmountOf(s, 1 .. x)' = SumFunctionOnSet(g, R)
    BY <2>5, SumOfFunction DEF AmountOf
  <2>7. x \notin S
    BY <1>0, <2>1
  <2> HIDE DEF f, g, S, R
  <2>8. IsFiniteSet(S) /\ x \notin S /\ \A y \in S : f[y] \in Int /\ f[y] = g[y]
    BY <2>1, <2>3, <2>7
  <2>9. ASSUME s = ord'[x].sym
        PROVE  SumFunctionOnSet(g, S \cup {x}) = SumFunctionOnSet(f, S) + g[x]
    <3>1. g[x] \in Int
      BY <2>4, <2>9
    <3> QED
      BY <2>8, <3>1, SumGrows
  <2>10. SumFunctionOnSet(g, S) = SumFunctionOnSet(f, S)
    BY <2>1, <2>8, SumSame
  <2> QED
    BY <2>1, <2>2, <2>4, <2>6, <2>9, <2>10
<1> QED
  BY <1>1, <1>2

\* Where the first k rest and the others come to nothing, so do the sums.
LEMMA SumsSkip ==
  ASSUME TypeOK, NEW n \in 0 .. Len(ord), NEW k \in 0 .. n, ord' = ord,
         \A o \in 1 .. k : Rests(o),
         \A o \in k + 1 .. n : OrderCash(o)' = 0 /\ OrderAmount(o)' = 0
  PROVE  /\ CashOf(1 .. n)' = CashOf(1 .. k)
         /\ \A s : AmountOf(s, 1 .. n)' = AmountOf(s, 1 .. k)
<1>0. /\ n \in 0 .. Len(ord) /\ k \in 0 .. Len(ord) /\ n \in Nat /\ k \in Nat
      /\ 1 .. k \subseteq 1 .. n /\ \A o \in 1 .. n : o \notin 1 .. k => o \in k + 1 .. n
  BY DEF TypeOK
<1>1. CashOf(1 .. n)' = CashOf(1 .. k)
  <2>0. PICK S, W, f, g : /\ S = 1 .. n /\ W = 1 .. k /\ f = CashFn(k)
                          /\ g = [o \in 1 .. n |-> OrderCash(o)']
    OBVIOUS
  <2>1. /\ f \in [W -> Int] /\ IsFiniteSet(W) /\ CashOf(1 .. k) = SumFunctionOnSet(f, W)
        /\ IsFiniteSet(S) /\ W \subseteq S
    BY <1>0, <2>0, MovesAreSums
  <2>2. \A o \in W : f[o] = g[o]
    BY <1>0, <2>0, OrderRests DEF CashFn
  <2>3. \A o \in S \ W : g[o] = 0
    BY <1>0, <2>0
  <2>4. g \in [S -> Int]
    <3>1. \A o \in S : g[o] \in Int
      BY <2>1, <2>2, <2>3
    <3> QED
      BY <2>0, <3>1
  <2>5. CashOf(1 .. n)' = SumFunctionOnSet(g, S)
    BY <2>0, <2>4, SumOfFunction DEF CashOf
  <2>6. SumFunctionOnSet(g, S) = SumFunctionOnSet(g, W)
    BY <2>1, <2>3, <2>4, SumOmits
  <2>7. SumFunctionOnSet(f, W) = SumFunctionOnSet(g, W)
    BY <2>1, <2>2, SumSame
  <2> QED
    BY <2>1, <2>5, <2>6, <2>7
<1>2. ASSUME NEW s PROVE AmountOf(s, 1 .. n)' = AmountOf(s, 1 .. k)
  <2>0. PICK S, W, f, g : /\ S = In(s, n) /\ W = In(s, k) /\ f = AmountFn(s, k)
                          /\ g = [o \in In(s, n) |-> OrderAmount(o)']
    OBVIOUS
  <2>1. /\ f \in [W -> Int] /\ IsFiniteSet(W) /\ AmountOf(s, 1 .. k) = SumFunctionOnSet(f, W)
        /\ IsFiniteSet(S) /\ W \subseteq 1 .. k
    BY <1>0, <2>0, MovesAreSums
  <2>a. W \subseteq S /\ \A o \in S \ W : o \in k + 1 .. n
    BY <1>0, <2>0 DEF In
  <2>2. \A o \in W : f[o] = g[o]
    BY <2>0, <2>1, <2>a, OrderRests DEF AmountFn
  <2>3. \A o \in S \ W : g[o] = 0
    BY <2>0, <2>a
  <2>4. g \in [S -> Int]
    <3>1. \A o \in S : g[o] \in Int
      BY <2>1, <2>2, <2>3, <2>a
    <3> QED
      BY <2>0, <3>1
  <2>5. AmountOf(s, 1 .. n)' = SumFunctionOnSet(g, S)
    BY <2>0, <2>4, SumOfFunction DEF AmountOf, In
  <2>6. SumFunctionOnSet(g, S) = SumFunctionOnSet(g, W)
    <3>1. IsFiniteSet(S) /\ W \in SUBSET S /\ \A o \in S : g[o] \in Int
      BY <2>1, <2>4, <2>a
    <3> QED
      BY <2>3, <3>1, SumOmits
  <2>7. SumFunctionOnSet(f, W) = SumFunctionOnSet(g, W)
    BY <2>1, <2>2, SumSame
  <2> QED
    BY <2>1, <2>5, <2>6, <2>7
<1> QED
  BY <1>1, <1>2
-----------------------------------------------------------------------------
(* The books, for the orders 1 .. n. *)

Balanced(p, n) ==
  /\ p.cash + pf.fees = InitPortfolio.cash + CashOf(1 .. n)
  /\ \A s \in Symbols : p.pos[s] = InitPortfolio.pos[s] + AmountOf(s, 1 .. n)

\* The exact ledger is a balance of all orders issued.
LEMMA LedgerIsBalanced ==
  ASSUME NEW n
  PROVE  /\ n = Len(ord) => (LedgerExact <=> Balanced(pf, n))
         /\ n = Len(ord') => (LedgerExact' <=> Balanced(pf, n)')
  BY DEF LedgerExact, CashDue, AmountDue, Issued, Balanced, CashOf, AmountOf

\* Nothing moves.
LEMMA LedgerRests ==
  ASSUME TypeOK, LedgerExact, Len(ord') = Len(ord), \A o \in 1 .. Len(ord) : Rests(o),
         pf'.cash = pf.cash, pf'.fees = pf.fees, pf'.pos = pf.pos
  PROVE  LedgerExact'
<1>1. PICK n : n = Len(ord) /\ n = Len(ord')
  OBVIOUS
<1>2. CashOf(1 .. n)' = CashOf(1 .. n) /\ \A s : AmountOf(s, 1 .. n)' = AmountOf(s, 1 .. n)
  BY <1>1, SumsRest
<1>3. Balanced(pf, n)
  BY <1>1, LedgerIsBalanced
<1>4. Balanced(pf, n)'
  BY <1>2, <1>3 DEF Balanced
<1> QED
  BY <1>1, <1>4, LedgerIsBalanced

\* Cash and fees still add up when both move.
LEMMA StillAdds ==
  \A k, f, i, s, c, fee \in Int : k + f = i + s => (k + c - fee) + (f + fee) = i + (s + c)
  OBVIOUS

\* One order moves, and the portfolio with it.
LEMMA LedgerMoves ==
  ASSUME TypeOK, TypeOK', LedgerExact, Len(ord') = Len(ord), NEW x, x \in 1 .. Len(ord),
         \A o \in 1 .. Len(ord) : o # x => Rests(o), ord'[x].sym = ord[x].sym,
         NEW c \in Int, NEW a \in Int, NEW fee \in Int,
         OrderCash(x)' = OrderCash(x) + c, OrderAmount(x)' = OrderAmount(x) + a,
         MovedBy(pf, ord[x], c, a, fee, pf')
  PROVE  LedgerExact'
<1>1. PICK n : n = Len(ord) /\ n = Len(ord') /\ n \in 0 .. Len(ord)
  BY DEF TypeOK
<1>2. /\ CashOf(1 .. n)' = CashOf(1 .. n) + c
      /\ \A s : AmountOf(s, 1 .. n)' =
                IF s = ord[x].sym THEN AmountOf(s, 1 .. n) + a ELSE AmountOf(s, 1 .. n)
  BY <1>1, SumsMove
<1>3. Balanced(pf, n)
  BY <1>1, LedgerIsBalanced
<1>4. /\ pf.cash \in Int /\ pf.fees \in Int /\ pf.pos \in [Symbols -> Nat]
      /\ InitPortfolio.cash \in Int /\ InitPortfolio.pos \in [Symbols -> Nat]
      /\ ord[x].sym \in Symbols
  <2>1. ord[x] \in OrderRequests
    BY DEF TypeOK
  <2> QED
    BY <2>1, ExecutionAssumption DEF TypeOK, Portfolios, OrderRequests
<1>5. CashOf(1 .. n) \in Int /\ \A s : AmountOf(s, 1 .. n) \in Int
  BY <1>1, MovesAreSums
<1>6. pf'.cash + pf'.fees = InitPortfolio.cash + CashOf(1 .. n)'
  <2>1. pf'.cash = pf.cash + c - fee /\ pf'.fees = pf.fees + fee
    BY DEF MovedBy
  <2>2. pf.cash + pf.fees = InitPortfolio.cash + CashOf(1 .. n)
    BY <1>3 DEF Balanced
  <2>3. PICK k, f, i, s \in Int :
          k = pf.cash /\ f = pf.fees /\ i = InitPortfolio.cash /\ s = CashOf(1 .. n)
    BY <1>4, <1>5
  <2>4. CashOf(1 .. n)' = s + c
    BY <1>2, <2>3
  <2>5. (k + c - fee) + (f + fee) = i + (s + c)
    <3>1. k + f = i + s
      BY <2>2, <2>3
    <3>2. c \in Int /\ fee \in Int /\ k \in Int /\ f \in Int /\ i \in Int /\ s \in Int
      BY <2>3
    <3> QED
      BY ONLY <3>1, <3>2, StillAdds, SMTT(30)
  <2> QED
    BY <2>1, <2>3, <2>4, <2>5
<1>7. ASSUME NEW s \in Symbols PROVE pf'.pos[s] = InitPortfolio.pos[s] + AmountOf(s, 1 .. n)'
  <2>1. pf'.pos = [pf.pos EXCEPT ![ord[x].sym] = @ + a]
    BY DEF MovedBy
  <2>2. pf.pos[s] = InitPortfolio.pos[s] + AmountOf(s, 1 .. n)
    BY <1>3 DEF Balanced
  <2>3. pf'.pos[s] = IF s = ord[x].sym THEN pf.pos[s] + a ELSE pf.pos[s]
    BY <1>4, <2>1
  <2> QED
    BY <1>2, <1>4, <1>5, <2>2, <2>3
<1>8. Balanced(pf, n)'
  BY <1>6, <1>7 DEF Balanced
<1> QED
  BY <1>1, <1>8, LedgerIsBalanced

\* One more order is issued, and the portfolio moves with it.
LEMMA LedgerGrows ==
  ASSUME TypeOK, TypeOK', LedgerExact, NEW r \in OrderRequests, ord' = Append(ord, r),
         \A o \in 1 .. Len(ord) : Rests(o), NEW c \in Int, NEW a \in Int,
         \A o : o = Len(ord) + 1 => OrderCash(o)' = c /\ OrderAmount(o)' = a,
         MovedBy(pf, r, c, a, 0, pf')
  PROVE  LedgerExact'
<1>1. PICK n, x : n = Len(ord) /\ x = n + 1 /\ x = Len(ord') /\ n \in 0 .. Len(ord)
                  /\ x = Len(ord) + 1
  <2>1. Len(ord) \in Nat /\ Len(ord') = Len(ord) + 1
    BY DEF TypeOK
  <2> QED
    BY <2>1
<1>2. ord'[x] = r
  BY <1>1 DEF TypeOK
<1>3. /\ CashOf(1 .. x)' = CashOf(1 .. n) + c
      /\ \A s : AmountOf(s, 1 .. x)' =
                IF s = r.sym THEN AmountOf(s, 1 .. n) + a ELSE AmountOf(s, 1 .. n)
  BY <1>1, <1>2, SumsGrow
<1>4. Balanced(pf, n)
  BY <1>1, LedgerIsBalanced
<1>5. /\ pf.cash \in Int /\ pf.fees \in Int /\ pf.pos \in [Symbols -> Nat]
      /\ InitPortfolio.cash \in Int /\ InitPortfolio.pos \in [Symbols -> Nat]
      /\ r.sym \in Symbols
  BY ExecutionAssumption DEF TypeOK, Portfolios, OrderRequests
<1>6. CashOf(1 .. n) \in Int /\ \A s : AmountOf(s, 1 .. n) \in Int
  BY <1>1, MovesAreSums
<1>7. pf'.cash + pf'.fees = InitPortfolio.cash + CashOf(1 .. x)'
  <2>1. pf'.cash = pf.cash + c - 0 /\ pf'.fees = pf.fees + 0
    BY DEF MovedBy
  <2>2. pf.cash + pf.fees = InitPortfolio.cash + CashOf(1 .. n)
    BY <1>4 DEF Balanced
  <2>3. PICK k, f, i, s \in Int :
          k = pf.cash /\ f = pf.fees /\ i = InitPortfolio.cash /\ s = CashOf(1 .. n)
    BY <1>5, <1>6
  <2>4. CashOf(1 .. x)' = s + c
    BY <1>3, <2>3
  <2>5. (k + c - 0) + (f + 0) = i + (s + c)
    <3>1. k + f = i + s
      BY <2>2, <2>3
    <3>2. c \in Int /\ 0 \in Int /\ k \in Int /\ f \in Int /\ i \in Int /\ s \in Int
      BY <2>3
    <3> QED
      BY ONLY <3>1, <3>2, StillAdds, SMTT(30)
  <2> QED
    BY <2>1, <2>3, <2>4, <2>5
<1>8. ASSUME NEW s \in Symbols PROVE pf'.pos[s] = InitPortfolio.pos[s] + AmountOf(s, 1 .. x)'
  <2>1. pf'.pos = [pf.pos EXCEPT ![r.sym] = @ + a]
    BY DEF MovedBy
  <2>2. pf.pos[s] = InitPortfolio.pos[s] + AmountOf(s, 1 .. n)
    BY <1>4 DEF Balanced
  <2>3. pf'.pos[s] = IF s = r.sym THEN pf.pos[s] + a ELSE pf.pos[s]
    BY <1>5, <2>1
  <2> QED
    BY <1>3, <1>5, <1>6, <2>2, <2>3
<1>9. Balanced(pf, x)'
  BY <1>7, <1>8 DEF Balanced
<1> QED
  BY <1>1, <1>9, LedgerIsBalanced
-----------------------------------------------------------------------------
(* Ample capital: what is left covers any one more request. *)

\* What an order asked for, and what it got: at most Q at a price of at most P.
LEMMA OrderBounds ==
  ASSUME NEW Q \in Nat, NEW P \in Nat, Ample(Q, P), TypeOK, Rows, SettledRows(P), OrdersAsked,
         NEW o \in 1 .. Len(ord)
  PROVE  /\ o \in OrderIds /\ ord[o] \in Requests /\ ord[o] \in OrderRequests
         /\ ord[o].qty \in 1 .. Q /\ ord[o].price \in 1 .. P /\ Normalized(ord[o]) = ord[o]
         /\ xf[o] \in 0 .. Q /\ xp[o] \in 0 .. P
         /\ xf[o] = IF xs[o] = "closed" THEN ord[o].qty ELSE 0
<1>1. o \in OrderIds
  <2>1. Len(ord) \in Nat /\ Len(ord) <= MaxOrders
    BY DEF TypeOK
  <2> QED
    BY <2>1, ExecutionAssumption DEF OrderIds
<1>2. ord[o] \in Requests /\ ord[o] \in OrderRequests
  BY ExecutionAssumption DEF OrdersAsked
<1>3. ord[o].qty \in 1 .. Q /\ ord[o].price \in 1 .. P /\ Normalized(ord[o]) = ord[o]
  BY <1>2 DEF Ample
<1>4. xf[o] = IF xs[o] = "closed" THEN ord[o].qty ELSE 0
  BY <1>1 DEF Rows, RowOK, SettledRows, RowSettled
<1>5. xp[o] \in 0 .. P
  BY <1>1 DEF SettledRows
<1> QED
  BY <1>1, <1>2, <1>3, <1>4, <1>5

\* So it moves at most Q * P of cash and Q of its symbol.
LEMMA MoveBounds ==
  ASSUME NEW Q \in Nat, NEW P \in Nat, Ample(Q, P), TypeOK, Rows, SettledRows(P), OrdersAsked,
         NEW o \in 1 .. Len(ord)
  PROVE  -(Q * P) <= OrderCash(o) /\ -Q <= OrderAmount(o)
<1>1. /\ ord[o].qty \in 0 .. Q /\ ord[o].price \in 0 .. P
      /\ xf[o] \in 0 .. Q /\ xp[o] \in 0 .. P
  <2>1. /\ ord[o].qty \in 1 .. Q /\ ord[o].price \in 1 .. P
        /\ xf[o] \in 0 .. Q /\ xp[o] \in 0 .. P
    BY OrderBounds, Zenon
  <2> QED
    BY ONLY <2>1
<1>2. /\ Notional(ord[o].qty, ord[o].price) \in 0 .. Q * P
      /\ Notional(xf[o], xp[o]) \in 0 .. Q * P
  BY <1>1, ProductBound DEF Notional
<1>3. Q * P \in Nat
  OBVIOUS
<1>4. -(Q * P) <= OrderCash(o)
  <2> DEFINE B == Q * P
  <2>1. B \in Nat /\ Notional(ord[o].qty, ord[o].price) \in 0 .. B /\ Notional(xf[o], xp[o]) \in 0 .. B
    BY <1>2, <1>3
  <2> HIDE DEF B
  <2>2. -B <= OrderCash(o)
    BY <2>1 DEF OrderCash, CashMove
  <2> QED
    BY <2>2 DEF B
<1>5. -Q <= OrderAmount(o)
  BY <1>1 DEF OrderAmount, AmountMove
<1> QED
  BY <1>4, <1>5

\* And what is left after all of them, and their fees, covers one more.
LEMMA Floors ==
  ASSUME NEW Q \in Nat, NEW P \in Nat, Ample(Q, P), TypeOK, Rows, BooksInv(Q, P)
  PROVE  Q * P <= pf.cash /\ \A s \in Symbols : Q <= pf.pos[s]
<1> SettledRows(P) /\ OrdersAsked /\ FeesBounded(Q * P) /\ LedgerExact
  BY DEF BooksInv
<1>1. PICK n : n = Len(ord) /\ n \in 0 .. Len(ord) /\ n \in Nat /\ n \in 0 .. MaxOrders
  <2>1. Len(ord) \in Nat /\ Len(ord) <= MaxOrders /\ MaxOrders \in Nat
    BY ExecutionAssumption DEF TypeOK
  <2> QED
    BY <2>1
<1>2. Balanced(pf, n)
  BY <1>1, LedgerIsBalanced
<1>3. MaxOrders \in Nat /\ IsFiniteSet(1 .. n) /\ Cardinality(1 .. n) = n
  BY <1>1, OrdersFinite, ExecutionAssumption
<1>4. PICK B : B = Q * P /\ B \in Nat
  OBVIOUS
<1>5. PICK M : M = MaxOrders * B /\ M \in Nat /\ n * B \in 0 .. M /\ n * B \in Int
  <2>1. MaxOrders * B \in Nat /\ n * B \in 0 .. MaxOrders * B
    BY <1>1, <1>3, <1>4, ProductBound
  <2> QED
    BY <2>1
<1>6. -(n * B) <= CashOf(1 .. n) /\ CashOf(1 .. n) \in Int
  <2>1. PICK f, S : f = CashFn(n) /\ S = 1 .. n
    OBVIOUS
  <2>2. /\ IsFiniteSet(S) /\ Cardinality(S) = n /\ f \in [S -> Int]
        /\ CashOf(1 .. n) = SumFunctionOnSet(f, S) /\ CashOf(1 .. n) \in Int
    BY <1>1, <1>3, <2>1, MovesAreSums
  <2>3. \A o \in S : -B <= f[o]
    BY <1>1, <1>4, <2>1, MoveBounds DEF CashFn
  <2>4. -(Cardinality(S) * B) <= SumFunctionOnSet(f, S)
    BY <1>4, <2>2, <2>3, SumBound
  <2> QED
    BY <2>2, <2>4
<1>7. pf.fees <= M /\ pf.fees \in Int /\ pf.cash \in Int /\ InitPortfolio.cash \in Int
  <2>1. Unfilled \in SUBSET OrderIds
    BY DEF Unfilled
  <2>2. Cardinality(Unfilled) \in Nat
    BY <2>1, OrdersFinite, FS_CardinalityType
  <2>3. PICK C : C = Cardinality(Unfilled) * B /\ C \in Nat
    BY <1>4, <2>2
  <2>4. pf.fees \in Int /\ pf.cash \in Int /\ InitPortfolio.cash \in Int
    BY ExecutionAssumption DEF TypeOK, Portfolios
  <2>5. pf.fees + C <= M
    BY <1>4, <1>5, <2>3 DEF FeesBounded
  <2> QED
    BY <1>5, <2>3, <2>4, <2>5
<1>8. InitPortfolio.cash >= M + M + B
  <2>1. (2 * MaxOrders + 1) * B = M + M + B
    BY <1>3, <1>4, <1>5
  <2>2. InitPortfolio.cash >= (2 * MaxOrders + 1) * B
    BY <1>4 DEF Ample
  <2> QED
    BY <2>1, <2>2
<1>9. Q * P <= pf.cash
  <2>1. pf.cash + pf.fees = InitPortfolio.cash + CashOf(1 .. n)
    BY <1>2 DEF Balanced
  <2>2. PICK k, f, i, s \in Int :
          k = pf.cash /\ f = pf.fees /\ i = InitPortfolio.cash /\ s = CashOf(1 .. n)
    BY <1>6, <1>7
  <2>3. -M <= s
    BY <1>5, <1>6, <2>2
  <2>4. k + f = i + s /\ f <= M /\ i >= M + M + B
    BY <1>7, <1>8, <2>1, <2>2
  <2>5. B <= k
    <3>1. B \in Int /\ M \in Int /\ k \in Int /\ f \in Int /\ i \in Int /\ s \in Int
      BY <1>4, <1>5, <2>2
    <3> QED
      BY <2>3, <2>4, <3>1
  <2> QED
    BY <1>4, <2>2, <2>5
<1>10. ASSUME NEW s \in Symbols PROVE Q <= pf.pos[s]
  <2>1. PICK f, S : f = AmountFn(s, n) /\ S = In(s, n)
    OBVIOUS
  <2>2. /\ IsFiniteSet(S) /\ S \subseteq 1 .. n /\ f \in [S -> Int]
        /\ AmountOf(s, 1 .. n) = SumFunctionOnSet(f, S) /\ AmountOf(s, 1 .. n) \in Int
    BY <1>1, <2>1, MovesAreSums
  <2>3. \A o \in S : -Q <= f[o]
    BY <1>1, <2>1, <2>2, MoveBounds DEF AmountFn
  <2>4. -(Cardinality(S) * Q) <= SumFunctionOnSet(f, S)
    BY <2>2, <2>3, SumBound
  <2>5. Cardinality(S) \in Nat /\ Cardinality(S) <= n
    BY <1>3, <2>2, FS_Subset, FS_CardinalityType
  <2>6. PICK R : R = MaxOrders * Q /\ R \in Nat /\ Cardinality(S) * Q \in 0 .. R
    <3>1. Cardinality(S) \in 0 .. MaxOrders /\ Q \in 0 .. Q
      <4>1. n \in Nat /\ n <= MaxOrders
        BY <1>1, <1>3
      <4> QED
        BY <1>3, <2>5, <4>1
    <3> QED
      BY <1>3, <3>1, ProductBound
  <2>7. InitPortfolio.pos[s] >= R + Q
    <3>1. (MaxOrders + 1) * Q = R + Q
      BY <1>3, <2>6
    <3> QED
      BY <3>1 DEF Ample
  <2>8. pf.pos[s] = InitPortfolio.pos[s] + AmountOf(s, 1 .. n)
    BY <1>2 DEF Balanced
  <2>9. InitPortfolio.pos[s] \in Nat
    BY ExecutionAssumption DEF Portfolios
  <2> QED
    BY <2>2, <2>4, <2>6, <2>7, <2>8, <2>9
<1> QED
  BY <1>9, <1>10
-----------------------------------------------------------------------------
(* What can happen where capital is ample. *)

Books(Q, P) == Ample(Q, P) /\ IInv /\ BooksInv(Q, P)

\* Steps that move neither the portfolio nor an order's outcome.
BareStep ==
  \/ StartCycle \/ RunExecution \/ PollOnlyCycle \/ CheckStopLosses \/ EndCycle
  \/ EndPlacing \/ CancelFails \/ EndPolling
  \/ \E o \in OrderIds : PollFails(o) \/ PollStale(o) \/ PollNoChange(o) \/ OrderAges(o)
  \/ UNCHANGED vars

PlaceStepAtEase ==
  SavePending \/ Placed \/ SkipExecution \/ \E r \in Requests : Reserve(r)

SettleStep == CancelStale \/ \E o \in OrderIds : PollFilled(o) \/ PollDead(o)

XStep ==
  ExchangeAccepts \/ \E o \in OrderIds : ExchangeFills(o) \/ ExchangeDrops(o)

\* An open record a poll has picked up: a live order, settled as its status says.
LEMMA PolledIsLive ==
  ASSUME NEW Q \in Nat, NEW P \in Nat, Books(Q, P), NEW o \in OrderIds, Polling(o)
  PROVE  /\ ~paper /\ pc = "poll" /\ IsOpen(o) /\ o \in 1 .. Len(ord) /\ db[o] # "pending"
         /\ \A rep \in Report(o) :
              /\ rep.filled = xf[o] /\ rep.price = xp[o]
              /\ rep.status = "closed" => xs[o] = "closed"
              /\ rep.status \in {"canceled", "rejected"} => xs[o] = rep.status
              /\ rep.status = "partially_filled" => xs[o] = "open" /\ xf[o] = 0
<1> TypeOK /\ PollsOpen /\ RowSettled(o)
  BY DEF Books, IInv, BooksInv, SettledRows
<1>1. IsOpen(o) /\ pc = "poll" /\ o \in 1 .. Len(ord) /\ ord[o] \in OrderRequests
  BY PolledIsIssued DEF Polling, PollsOpen
<1>2. ~paper /\ db[o] # "pending"
  BY <1>1 DEF RowSettled
<1>3. ASSUME NEW rep \in Report(o) PROVE rep.filled = xf[o] /\ rep.price = xp[o]
  BY <1>2, <1>3 DEF Report
<1>4. ASSUME NEW rep \in Report(o)
      PROVE  /\ rep.status = "closed" => xs[o] = "closed"
             /\ rep.status \in {"canceled", "rejected"} => xs[o] = rep.status
             /\ rep.status = "partially_filled" => xs[o] = "open" /\ xf[o] = 0
  BY <1>1, <1>2, ReportedStatus DEF RowSettled
<1> QED
  BY <1>1, <1>2, <1>3, <1>4

\* No request of a batch is refused by validation.
LEMMA AllValid ==
  ASSUME NEW Q \in Nat, NEW P \in Nat, Books(Q, P)
  PROVE  ~RejectInvalid
<1> SUFFICES ASSUME RejectInvalid PROVE FALSE
  OBVIOUS
<1> Ample(Q, P) /\ TypeOK /\ Rows /\ BooksInv(Q, P) /\ Phases(Q) /\ SettledRows(P) /\ OrdersAsked
  BY DEF Books, IInv, BooksInv
<1>1. cur \in 1 .. Len(ord) /\ pc = "place" /\ snap # NoSnap
  BY DEF RejectInvalid, Phases, TypeOK
<1>2. PICK ask \in Asks : ~Valid(ord[cur], ask)
  BY DEF RejectInvalid, Ample, CalmFaults, Fault
<1>3. ask \in 0 .. P
  <2>1. FillPrices \subseteq 0 .. P /\ 0 \in 0 .. P
    BY DEF Ample
  <2>2. ask \in FillPrices \/ ask = 0
    BY <1>2 DEF Asks
  <2> QED
    BY <2>1, <2>2
<1>4. ord[cur].qty \in 1 .. Q /\ ord[cur] \in OrderRequests
  BY <1>1, OrderBounds
<1>5. Notional(ord[cur].qty, ask) \in 0 .. Q * P
  <2>1. ord[cur].qty \in 0 .. Q
    BY <1>4
  <2> QED
    BY <1>3, <2>1, ProductBound DEF Notional
<1>6. Notional(ord[cur].qty, ask) <= pf.cash
  <2>1. Q * P <= pf.cash /\ pf.cash \in Int /\ Q * P \in Int
    <3>1. Q * P <= pf.cash
      BY Floors
    <3> QED
      BY <3>1 DEF TypeOK, Portfolios
  <2>2. PICK B, k, n \in Int : B = Q * P /\ k = pf.cash /\ n = Notional(ord[cur].qty, ask)
    BY <1>5, <2>1
  <2> QED
    BY <1>5, <2>1, <2>2
<1>7. snap.pos[ord[cur].sym] >= Q /\ snap.pos[ord[cur].sym] \in Nat
  BY <1>1, <1>4 DEF Phases, TypeOK, Portfolios, OrderRequests
<1> QED
  BY <1>1, <1>2, <1>4, <1>6, <1>7 DEF Valid

\* Nothing raises, is refused, fills in part or restarts.
LEMMA AtEase ==
  ASSUME NEW Q \in Nat, NEW P \in Nat, Books(Q, P), [Next]_vars
  PROVE  BareStep \/ PlaceStepAtEase \/ SettleStep \/ XStep
<1> TypeOK /\ Rows /\ Ample(Q, P) /\ SettledRows(P) /\ OrdersAsked
  BY DEF Books, IInv, BooksInv
<1>1. /\ ~Fault("db_error") /\ ~Fault("place_error") /\ ~Fault("lost_reply")
      /\ ~Fault("no_average") /\ ~Fault("stop_loss") /\ ~Fault("crash")
  BY DEF Ample, CalmFaults, Fault
<1>2. CycleNext => BareStep \/ PlaceStepAtEase
  BY <1>1 DEF CycleNext, StopLoss, BareStep, PlaceStepAtEase
<1>3. PlaceNext => BareStep \/ PlaceStepAtEase
  <2>1. /\ ~PlaceDbError /\ ~PlacedRaises /\ ~FinalizeDbError /\ ~CreateRaises /\ ~RefusedDbError
        /\ ~OpenOrdersDbError /\ ~RejectInvalid
    BY <1>1, AllValid DEF PlaceDbError, PlacedRaises, FinalizeDbError, CreateRaises, Refused,
                     RefusedDbError, OpenOrdersDbError
  <2> QED
    BY <2>1 DEF PlaceNext, BareStep, PlaceStepAtEase
<1>4. ASSUME NEW o \in OrderIds PROVE ~PollPartial(o) /\ ~PollRaises(o) /\ ~PollDbError(o)
  <2>1. ~PollDbError(o)
    BY <1>1 DEF PollDbError
  <2>2. ~PollPartial(o)
    <3>1. dbf[o] \in Nat
      BY DEF TypeOK
    <3> QED
      BY <3>1, PolledIsLive DEF PollPartial, NewFill
  <2>3. ~PollRaises(o)
    <3> SUFFICES ASSUME PollRaises(o) PROVE FALSE
      OBVIOUS
    <3>1. o \in 1 .. Len(ord) /\ xs[o] = "closed"
      BY PolledIsLive DEF PollRaises
    <3>2. xf[o] \in 1 .. Q
      BY <3>1, OrderBounds
    <3>3. PICK rep \in Report(o) : ReconcileRaises(pf, ord[o], rep.filled)
      BY DEF PollRaises
    <3>4. rep.filled = xf[o]
      BY PolledIsLive DEF PollRaises
    <3> QED
      BY <3>2, <3>3, <3>4 DEF ReconcileRaises
  <2> QED
    BY <2>1, <2>2, <2>3
<1>5. PollNext => BareStep \/ SettleStep
  BY <1>1, <1>4 DEF PollNext, CancelDbError, SavePortfolioDbError, BareStep, SettleStep
<1>6. ExchangeNext => BareStep \/ XStep
  BY DEF ExchangeNext, BareStep, XStep
<1> QED
  BY <1>1, <1>2, <1>3, <1>5, <1>6 DEF Next, Crash, BareStep
-----------------------------------------------------------------------------
(* Each of them keeps the books. *)

\* The snapshot of a batch is a balance of the orders before it.
LEMMA SnapIsBalanced ==
  ASSUME NEW k
  PROVE  /\ k = cur - 1 =>
              (SnapExact <=> (pc = "reserve" /\ snap # NoSnap => Balanced(snap, k)))
         /\ k = cur' - 1 =>
              (SnapExact' <=> (pc' = "reserve" /\ snap' # NoSnap => Balanced(snap, k)'))
  BY DEF SnapExact, Balanced, CashOf, AmountOf

\* Where the orders rest, a snapshot that stays is still exact.
LEMMA SnapRests ==
  ASSUME TypeOK, SnapExact, \A o \in 1 .. Len(ord) : Rests(o), pf'.fees = pf.fees,
         pc' = "reserve" => snap' = NoSnap \/ (pc = "reserve" /\ snap' = snap /\ cur' = cur)
  PROVE  SnapExact'
<1>1. PICK k : k = cur' - 1
  OBVIOUS
<1> SUFFICES ASSUME pc' = "reserve", snap' # NoSnap PROVE Balanced(snap, k)'
  BY <1>1, SnapIsBalanced
<1>2. pc = "reserve" /\ snap' = snap /\ k = cur - 1
  BY <1>1
<1>3. 1 .. k \subseteq 1 .. Len(ord)
  <2>1. Len(ord) \in Nat /\ cur \in Nat /\ cur <= Len(ord) + 1
    BY DEF TypeOK
  <2> QED
    BY <1>2, <2>1
<1>4. CashOf(1 .. k)' = CashOf(1 .. k) /\ \A s : AmountOf(s, 1 .. k)' = AmountOf(s, 1 .. k)
  BY <1>3, SumsRest
<1>5. Balanced(snap, k)
  BY <1>2, SnapIsBalanced
<1> QED
  BY <1>2, <1>4, <1>5 DEF Balanced

\* A settled row that nothing touches stays settled.
LEMMA RowRests ==
  ASSUME NEW o, RowSettled(o), db'[o] = db[o], xs'[o] = xs[o], xf'[o] = xf[o], paper' = paper,
         pc # "sent" \/ o # cur \/ (pc' = pc /\ cur' = cur)
  PROVE  RowSettled(o)'
  BY DEF RowSettled, IsOpen

\* The bound on the fees stays when no order fills.
LEMMA FeesStay ==
  ASSUME NEW B, FeesBounded(B), Filled' = Filled, pf'.fees = pf.fees
  PROVE  FeesBounded(B)'
  BY DEF FeesBounded, Unfilled

\* A bare step touches no order and no money.
LEMMA BareFacts ==
  ASSUME BareStep
  PROVE  /\ UNCHANGED <<pf, ord, db, xs, xf, xp, paper>>
         /\ pc # "sent" \/ (pc' = pc /\ cur' = cur)
<1> USE DEF botVars, dbVars, histVars, xVars
<1>1. CASE StartCycle \/ RunExecution \/ PollOnlyCycle \/ CheckStopLosses \/ EndCycle
  BY <1>1 DEF StartCycle, RunExecution, PollOnlyCycle, CheckStopLosses, EndCycle
<1>2. CASE EndPlacing \/ CancelFails \/ EndPolling
  BY <1>2 DEF EndPlacing, CancelFails, EndPolling
<1>3. ASSUME NEW o \in OrderIds, PollFails(o) \/ PollStale(o) \/ PollNoChange(o) \/ OrderAges(o)
      PROVE  /\ UNCHANGED <<pf, ord, db, xs, xf, xp, paper>>
             /\ pc # "sent" \/ (pc' = pc /\ cur' = cur)
  BY <1>3 DEF PollFails, PollStale, PollNoChange, OrderAges, Polling
<1>4. CASE UNCHANGED vars
  BY <1>4 DEF vars
<1> QED
  BY <1>1, <1>2, <1>3, <1>4 DEF BareStep

\* A bare step goes from phase to phase.
LEMMA BarePhases ==
  ASSUME NEW Q \in Nat, NEW P \in Nat, Books(Q, P), BareStep
  PROVE  /\ Phases(Q)'
         /\ pc' = "reserve" => snap' = NoSnap \/ (pc = "reserve" /\ snap' = snap /\ cur' = cur)
         /\ \A o \in 1 .. Len(ord) : Waiting(o)' <=> Waiting(o)
<1> Phases(Q) /\ TypeOK
  BY DEF Books, BooksInv, IInv
<1>1. Len(ord) \in Nat /\ cur \in Nat
  BY DEF TypeOK
<1> USE <1>1
<1> USE DEF botVars, dbVars, histVars, xVars
<1>2. CASE StartCycle
  BY <1>2 DEF StartCycle, Phases, Waiting
<1>3. CASE RunExecution
  BY <1>3 DEF RunExecution, Phases, Waiting
<1>4. CASE PollOnlyCycle
  BY <1>4 DEF PollOnlyCycle, Phases, Waiting
<1>5. CASE CheckStopLosses
  BY <1>5 DEF CheckStopLosses, Phases, Waiting
<1>6. CASE EndCycle
  BY <1>6 DEF EndCycle, Phases, Waiting
<1>7. CASE EndPlacing
  BY <1>7 DEF EndPlacing, Phases, Waiting
<1>8. CASE CancelFails
  BY <1>8 DEF CancelFails, Phases, Waiting
<1>9. CASE EndPolling
  BY <1>9 DEF EndPolling, Phases, Waiting
<1>10. ASSUME NEW o \in OrderIds, PollFails(o) PROVE Phases(Q)' /\ pc = "poll" /\ pc' = "poll"
  BY <1>10 DEF PollFails, Phases
<1>11. ASSUME NEW o \in OrderIds, PollStale(o) PROVE Phases(Q)' /\ pc = "poll" /\ pc' = "cancel"
  BY <1>11 DEF PollStale, Polling, Phases
<1>12. ASSUME NEW o \in OrderIds, PollNoChange(o) PROVE Phases(Q)' /\ pc = "poll" /\ pc' = "poll"
  BY <1>12 DEF PollNoChange, Polling, Phases
<1>13. ASSUME UNCHANGED <<botVars, xs>>
       PROVE  Phases(Q)' /\ UNCHANGED <<pc, snap, cur, mode>>
  BY <1>13 DEF Phases
<1>14. ASSUME NEW o \in OrderIds, OrderAges(o) PROVE UNCHANGED <<botVars, xs>>
  BY <1>14 DEF OrderAges
<1>15. UNCHANGED vars => UNCHANGED <<botVars, xs>>
  BY DEF vars
<1> QED
  BY <1>2, <1>3, <1>4, <1>5, <1>6, <1>7, <1>8, <1>9, <1>10, <1>11, <1>12, <1>13, <1>14, <1>15
  DEF BareStep, Waiting

\* A bare step keeps the books.
LEMMA BareBooks ==
  ASSUME NEW Q \in Nat, NEW P \in Nat, Books(Q, P), BareStep
  PROVE  BooksInv(Q, P)'
<1> /\ TypeOK /\ SettledRows(P) /\ OrdersAsked /\ FeesBounded(Q * P) /\ LedgerExact /\ SnapExact
  BY DEF Books, BooksInv, IInv
<1>1. /\ UNCHANGED <<pf, ord, db, xs, xf, xp, paper>>
      /\ pc # "sent" \/ (pc' = pc /\ cur' = cur)
  BY BareFacts
<1>2. \A o \in 1 .. Len(ord) : Rests(o)
  BY <1>1, BarePhases DEF Rests, Unsettled, IsOpen
<1>3. SettledRows(P)'
  BY <1>1, RowRests DEF SettledRows
<1>4. OrdersAsked'
  BY <1>1 DEF OrdersAsked
<1>5. FeesBounded(Q * P)'
  <2>1. PICK B : B = Q * P
    OBVIOUS
  <2> QED
    BY <1>1, <2>1, FeesStay DEF Filled
<1>6. LedgerExact'
  BY <1>1, <1>2, LedgerRests
<1>7. SnapExact'
  BY <1>1, <1>2, BarePhases, SnapRests
<1> QED
  BY <1>3, <1>4, <1>5, <1>6, <1>7, BarePhases DEF BooksInv

\* The exchange moves only orders whose reservation still stands, or keeps what
\* they filled.
LEMMA XFacts ==
  ASSUME NEW Q \in Nat, NEW P \in Nat, Books(Q, P), XStep
  PROVE  /\ UNCHANGED <<pf, snap, ord, cur, pc, mode, seen, db, paper>>
         /\ \A o \in OrderIds : Unsettled(o) \/ (xf'[o] = xf[o] /\ xp'[o] = xp[o])
         /\ SettledRows(P)' /\ (pc = "sent" => xs'[cur] \in {"none", "open", "closed"})
<1> /\ TypeOK /\ SettledRows(P) /\ Phases(Q) /\ BatchUntouched /\ Ample(Q, P)
  BY DEF Books, BooksInv, IInv
<1> USE DEF botVars, dbVars, histVars, xVars
<1>0. UNCHANGED <<pf, snap, ord, cur, pc, mode, seen, db, paper>>
  BY DEF XStep, ExchangeAccepts, ExchangeFills, ExchangeDrops
<1>a. ASSUME NEW o \in OrderIds, xs[o] = "open"
      PROVE  IsOpen(o) /\ ~paper /\ xf[o] = 0 /\ xp[o] \in 0 .. P
             /\ (db[o] = "pending" => pc = "sent" /\ o = cur)
  <2>1. RowSettled(o) /\ xp[o] \in 0 .. P /\ db[o] \in {"none"} \cup OpenStatuses \cup TerminalStatuses
    BY DEF SettledRows, TypeOK
  <2> QED
    BY <1>a, <2>1 DEF RowSettled, IsOpen, OpenStatuses, TerminalStatuses
<1>b. ASSUME NEW o \in OrderIds,
             \A x \in OrderIds : x # o => /\ xs'[x] = xs[x] /\ xf'[x] = xf[x] /\ xp'[x] = xp[x],
             RowSettled(o)', xp'[o] \in 0 .. P
      PROVE  SettledRows(P)'
  <2>1. ASSUME NEW x \in OrderIds, x # o PROVE RowSettled(x)' /\ xp'[x] \in 0 .. P
    BY <1>0, <1>b, <2>1, RowRests DEF SettledRows
  <2> QED
    BY <1>b, <2>1 DEF SettledRows
<1>1. CASE ExchangeAccepts
  <2>1. cur \in OrderIds /\ db[cur] = "pending" /\ pc = "sent" /\ mode = "exec"
    <3>1. cur \in Nat /\ cur >= 1 /\ Len(ord) <= MaxOrders /\ Len(ord) \in Nat
      BY DEF TypeOK
    <3> QED
      BY <1>1, <3>1, ExecutionAssumption DEF ExchangeAccepts, BatchUntouched, Phases, OrderIds
  <2>2. Unsettled(cur)
    BY <2>1 DEF Unsettled, IsOpen, OpenStatuses
  <2>3. PICK p \in 0 .. P : xp' = [xp EXCEPT ![cur] = p]
    BY <1>1 DEF ExchangeAccepts, Ample
  <2>4. /\ xs'[cur] = IF paper THEN "closed" ELSE "open"
        /\ xs'[cur] # "closed" => xf'[cur] = 0
        /\ xp'[cur] = p
    BY <1>1, <2>1, <2>3 DEF ExchangeAccepts, TypeOK
  <2>5. RowSettled(cur)'
    BY <1>0, <2>1, <2>4 DEF RowSettled
  <2>6. \A x \in OrderIds : x # cur => /\ xs'[x] = xs[x] /\ xf'[x] = xf[x] /\ xp'[x] = xp[x]
    BY <1>1, <2>3 DEF ExchangeAccepts, TypeOK
  <2> QED
    BY <1>0, <1>b, <2>1, <2>2, <2>3, <2>4, <2>5, <2>6
<1>2. ASSUME NEW o \in OrderIds, ExchangeFills(o)
      PROVE  /\ \A x \in OrderIds : Unsettled(x) \/ (xf'[x] = xf[x] /\ xp'[x] = xp[x])
             /\ SettledRows(P)' /\ (pc = "sent" => xs'[cur] \in {"none", "open", "closed"})
  <2>1. IsOpen(o) /\ ~paper /\ xp[o] \in 0 .. P /\ (db[o] = "pending" => pc = "sent" /\ o = cur)
    BY <1>2, <1>a DEF ExchangeFills
  <2>2. xs' = [xs EXCEPT ![o] = "closed"] /\ xf' = [xf EXCEPT ![o] = ord[o].qty] /\ xp' = xp
    BY <1>2 DEF ExchangeFills, Ample
  <2>3. xs'[o] = "closed" /\ db[o] \in OpenStatuses
    BY <2>1, <2>2 DEF TypeOK, IsOpen
  <2>4. RowSettled(o)'
    BY <1>0, <2>1, <2>3 DEF RowSettled, OpenStatuses
  <2>5. \A x \in OrderIds : x # o => /\ xs'[x] = xs[x] /\ xf'[x] = xf[x] /\ xp'[x] = xp[x]
    BY <2>2 DEF TypeOK
  <2>6. pc = "sent" => xs'[cur] \in {"none", "open", "closed"}
    BY <2>2 DEF Phases, TypeOK
  <2> QED
    BY <1>b, <2>1, <2>2, <2>4, <2>5, <2>6 DEF Unsettled
<1>3. ASSUME NEW o \in OrderIds, ExchangeDrops(o)
      PROVE  /\ \A x \in OrderIds : Unsettled(x) \/ (xf'[x] = xf[x] /\ xp'[x] = xp[x])
             /\ SettledRows(P)' /\ (pc = "sent" => xs'[cur] \in {"none", "open", "closed"})
  <2>1. /\ IsOpen(o) /\ ~paper /\ xf[o] = 0 /\ xp[o] \in 0 .. P
        /\ (db[o] = "pending" => pc = "sent" /\ o = cur)
    BY <1>3, <1>a DEF ExchangeDrops
  <2>2. ~(pc = "sent" /\ o = cur) /\ UNCHANGED <<xf, xp>>
    BY <1>3 DEF ExchangeDrops, Ample, CalmFaults, Fault
  <2>3. PICK st \in {"canceled", "rejected"} : xs' = [xs EXCEPT ![o] = st]
    BY <1>3 DEF ExchangeDrops
  <2>4. xs'[o] \in {"canceled", "rejected"} /\ db[o] \in OpenStatuses
    BY <2>1, <2>3 DEF TypeOK, IsOpen
  <2>5. RowSettled(o)'
    BY <1>0, <2>1, <2>2, <2>4 DEF RowSettled, OpenStatuses
  <2>6. \A x \in OrderIds : x # o => /\ xs'[x] = xs[x] /\ xf'[x] = xf[x] /\ xp'[x] = xp[x]
    BY <2>2, <2>3 DEF TypeOK
  <2>7. pc = "sent" => xs'[cur] \in {"none", "open", "closed"}
    <3>1. pc = "sent" => xs'[cur] = xs[cur]
      BY <2>2, <2>3 DEF TypeOK
    <3> QED
      BY <3>1 DEF Phases
  <2> QED
    BY <1>b, <2>1, <2>2, <2>5, <2>6, <2>7
<1> QED
  BY <1>0, <1>1, <1>2, <1>3 DEF XStep

\* A step of the exchange keeps the books.
LEMMA XBooks ==
  ASSUME NEW Q \in Nat, NEW P \in Nat, Books(Q, P), XStep
  PROVE  BooksInv(Q, P)'
<1> /\ TypeOK /\ OrdersAsked /\ FeesBounded(Q * P) /\ LedgerExact /\ SnapExact /\ Phases(Q)
  BY DEF Books, BooksInv, IInv
<1>1. /\ UNCHANGED <<pf, snap, ord, cur, pc, mode, seen, db, paper>>
      /\ SettledRows(P)' /\ (pc = "sent" => xs'[cur] \in {"none", "open", "closed"})
  BY XFacts
<1>2. \A o \in 1 .. Len(ord) : Rests(o)
  <2>1. 1 .. Len(ord) \subseteq OrderIds
    BY ExecutionAssumption DEF TypeOK, OrderIds
  <2>2. \A o \in 1 .. Len(ord) : Unsettled(o) \/ (xf'[o] = xf[o] /\ xp'[o] = xp[o])
    BY <2>1, XFacts
  <2> QED
    BY <1>1, <2>2 DEF Rests, Unsettled, Waiting, IsOpen
<1>3. Phases(Q)'
  BY <1>1 DEF Phases
<1>4. OrdersAsked'
  BY <1>1 DEF OrdersAsked
<1>5. FeesBounded(Q * P)'
  <2>1. PICK B : B = Q * P
    OBVIOUS
  <2> QED
    BY <1>1, <2>1, FeesStay DEF Filled
<1>6. LedgerExact'
  BY <1>1, <1>2, LedgerRests
<1>7. SnapExact'
  BY <1>1, <1>2, SnapRests
<1> QED
  BY <1>1, <1>3, <1>4, <1>5, <1>6, <1>7 DEF BooksInv

\* A fee is at most the notional, and a filled order is charged once.
LEMMA FeeBound ==
  ASSUME NEW Q \in Nat, NEW P \in Nat, NEW q \in 0 .. Q, NEW p \in 0 .. P
  PROVE  Fee(q, p) \in Nat /\ Fee(q, p) <= Q * P
<1>1. q * p \in 0 .. Q * P /\ Q * P \in Nat
  BY ProductBound
<1>2. PICK n, B : n = q * p /\ B = Q * P /\ n \in Nat /\ B \in Nat /\ n <= B
  BY <1>1
<1>3. n \div FeeScale \in 0 .. n
  BY <1>2, QuotientBound, PortfolioAssumption
<1> QED
  BY <1>2, <1>3 DEF Fee

\* An order that becomes filled charges at most the fee of a full order.
LEMMA FeesCharge ==
  ASSUME TypeOK, NEW B \in Nat, FeesBounded(B), NEW o \in OrderIds, db[o] # "filled",
         db' = [db EXCEPT ![o] = "filled"], NEW fee \in Nat, fee <= B, pf'.fees = pf.fees + fee
  PROVE  FeesBounded(B)'
<1>1. o \in Unfilled /\ Unfilled' = Unfilled \ {o}
  BY DEF Unfilled, Filled, TypeOK
<1>2. PICK C, D \in Nat : C = Cardinality(Unfilled) /\ D = Cardinality(Unfilled') /\ C = D + 1
  <2>1. PICK U : U = Unfilled
    OBVIOUS
  <2>2. IsFiniteSet(U)
    BY <2>1, OrdersFinite DEF Unfilled
  <2>3. Cardinality(U) \in Nat /\ Cardinality(U \ {o}) \in Nat /\ Cardinality(U) = Cardinality(U \ {o}) + 1
    BY <1>1, <2>1, <2>2, Smaller
  <2> QED
    BY <1>1, <2>1, <2>3
<1>3. C * B = D * B + B
  BY <1>2
<1>4. PICK m, d, f \in Int : m = MaxOrders * B /\ d = D * B /\ f = pf.fees
  BY ExecutionAssumption DEF TypeOK, Portfolios
<1>5. f + (d + B) <= m
  BY <1>2, <1>3, <1>4 DEF FeesBounded
<1>6. (f + fee) + d <= m
  <2>1. fee \in Int /\ B \in Int /\ m \in Int /\ d \in Int /\ f \in Int /\ fee <= B
    BY <1>4
  <2> QED
    BY <1>5, <2>1
<1> QED
  BY <1>2, <1>4, <1>6 DEF FeesBounded

\* The status the exchange's word is recorded as.
Word(st) == CASE st = "filled" -> "closed" [] st = "cancelled" -> "canceled" [] OTHER -> "rejected"

\* An open order is settled in a poll: its reservation gives way to its outcome.
LEMMA SettleOne ==
  ASSUME NEW Q \in Nat, NEW P \in Nat, Books(Q, P), IInv', NEW x, x \in 1 .. Len(ord), IsOpen(x),
         pc \in {"poll", "cancel"}, pc' = "poll", UNCHANGED <<snap, ord, cur, mode, xf, xp, paper>>,
         NEW st \in TerminalStatuses, db' = [db EXCEPT ![x] = st], xs'[x] = Word(st),
         xs'[x] # "closed" => xf[x] = 0, \A o \in OrderIds : o # x => xs'[o] = xs[o],
         NEW c \in Int, NEW a \in Int, NEW fee \in Int,
         CashMove(ord[x], xf[x], xp[x]) = CashMove(ord[x], ord[x].qty, ord[x].price) + c,
         AmountMove(ord[x], xf[x]) = AmountMove(ord[x], ord[x].qty) + a,
         MovedBy(pf, ord[x], c, a, fee, pf'), FeesBounded(Q * P)'
  PROVE  BooksInv(Q, P)'
<1> /\ TypeOK /\ TypeOK' /\ SettledRows(P) /\ OrdersAsked /\ LedgerExact /\ Phases(Q)
  BY DEF Books, BooksInv, IInv
<1>1. x \in OrderIds
  BY ExecutionAssumption DEF TypeOK, OrderIds
<1>2. ~IsOpen(x)' /\ \A o \in OrderIds : o # x => db'[o] = db[o]
  BY <1>1 DEF TypeOK, IsOpen, OpenStatuses, TerminalStatuses
<1>3. \A o : ~Waiting(o) /\ ~Waiting(o)'
  BY DEF Waiting
<1>4. ASSUME NEW o \in 1 .. Len(ord), o # x PROVE Rests(o)
  <2>1. o \in OrderIds
    BY ExecutionAssumption DEF TypeOK, OrderIds
  <2> QED
    BY <1>2, <1>3, <1>4, <2>1 DEF Rests, Unsettled, IsOpen
<1>5. OrderCash(x)' = OrderCash(x) + c /\ OrderAmount(x)' = OrderAmount(x) + a
  BY <1>2, <1>3 DEF OrderCash, OrderAmount, Unsettled
<1>6. LedgerExact'
  BY <1>4, <1>5, LedgerMoves
<1>7. SnapExact'
  BY DEF SnapExact
<1>8. SettledRows(P)'
  <2>1. RowSettled(x)'
    <3>1. db'[x] = st
      BY <1>1 DEF TypeOK
    <3> QED
      BY <1>2, <3>1 DEF RowSettled, Word, TerminalStatuses
  <2>2. ASSUME NEW o \in OrderIds, o # x PROVE RowSettled(o)'
    BY <1>2, <2>2, RowRests DEF SettledRows
  <2> QED
    BY <2>1, <2>2 DEF SettledRows
<1>9. Phases(Q)' /\ OrdersAsked'
  BY DEF Phases, OrdersAsked
<1> QED
  BY <1>6, <1>7, <1>8, <1>9 DEF BooksInv

\* An order of which nothing filled moves nothing.
LEMMA ZeroMoves ==
  ASSUME NEW r, NEW q, q = 0, NEW p \in Nat
  PROVE  CashMove(r, q, p) = 0 /\ AmountMove(r, q) = 0
<1>1. p \in Int /\ \A z \in Int : 0 * z = 0
  OBVIOUS
<1>2. Notional(q, p) = 0
  BY <1>1 DEF Notional
<1>3. 0 \in Int /\ \A z \in Int : z = 0 => -z = 0
  OBVIOUS
<1> QED
  BY <1>2, <1>3 DEF CashMove, AmountMove

\* What giving the reservation of an unfilled order back moves.
LEMMA GivesBack ==
  ASSUME NEW Q \in Nat, NEW P \in Nat, Books(Q, P), NEW x, x \in 1 .. Len(ord), xf[x] = 0
  PROVE  \E c, a \in Int :
           /\ CashMove(ord[x], xf[x], xp[x]) = CashMove(ord[x], ord[x].qty, ord[x].price) + c
           /\ AmountMove(ord[x], xf[x]) = AmountMove(ord[x], ord[x].qty) + a
           /\ MovedBy(pf, ord[x], c, a, 0, ReleaseReservation(pf, ord[x], 0))
<1> Ample(Q, P) /\ TypeOK /\ Rows /\ BooksInv(Q, P) /\ SettledRows(P) /\ OrdersAsked
  BY DEF Books, IInv, BooksInv
<1>1. /\ ord[x] \in OrderRequests /\ ord[x].qty \in 1 .. Q /\ ord[x].price \in 1 .. P
      /\ xp[x] \in 0 .. P
  BY OrderBounds
<1>2. pf \in Portfolios /\ ord[x].sym \in Symbols
  BY <1>1 DEF TypeOK, OrderRequests
<1>3. Notional(ord[x].qty, ord[x].price) \in 0 .. Q * P
  <2>1. ord[x].qty \in 0 .. Q /\ ord[x].price \in 0 .. P
    BY <1>1
  <2> QED
    BY <2>1, ProductBound DEF Notional
<1>4. Notional(ord[x].qty, ord[x].price) <= pf.cash /\ ord[x].qty <= pf.pos[ord[x].sym]
  <2>1. Q * P <= pf.cash /\ Q <= pf.pos[ord[x].sym]
    BY <1>2, Floors
  <2>2. PICK B, k, n, h \in Int : /\ B = Q * P /\ k = pf.cash
                                /\ n = Notional(ord[x].qty, ord[x].price)
                                /\ h = pf.pos[ord[x].sym]
    BY <1>2, <1>3 DEF Portfolios
  <2> QED
    BY <1>1, <1>3, <2>1, <2>2
<1>5. ord[x].qty >= 1
  BY <1>1
<1>6. MovedBy(pf, ord[x], -CashMove(ord[x], ord[x].qty, ord[x].price),
              -AmountMove(ord[x], ord[x].qty), 0, ReleaseReservation(pf, ord[x], 0))
  BY <1>1, <1>2, <1>4, <1>5, ReleasesExactly
<1>7. CashMove(ord[x], xf[x], xp[x]) = 0 /\ AmountMove(ord[x], xf[x]) = 0
  <2>1. xp[x] \in Nat
    BY <1>1
  <2> QED
    BY <2>1, ZeroMoves
<1>8. PICK m, b \in Int : /\ m = CashMove(ord[x], ord[x].qty, ord[x].price)
                          /\ b = AmountMove(ord[x], ord[x].qty)
  <2>1. Notional(ord[x].qty, ord[x].price) \in Int /\ ord[x].qty \in Int
    BY <1>1, <1>3
  <2> QED
    BY <2>1 DEF CashMove, AmountMove
<1>9. -m \in Int /\ -b \in Int /\ 0 = m + (-m) /\ 0 = b + (-b)
  BY <1>8
<1> QED
  BY <1>6, <1>7, <1>8, <1>9

\* What booking a complete fill moves.
LEMMA BooksFill ==
  ASSUME NEW Q \in Nat, NEW P \in Nat, Books(Q, P), NEW x, x \in 1 .. Len(ord), xs[x] = "closed",
         NEW fee \in Int
  PROVE  /\ CashMove(ord[x], ord[x].qty, ord[x].price) \in Int /\ CashMove(ord[x], xf[x], xp[x]) \in Int
         /\ AmountMove(ord[x], xf[x]) = AmountMove(ord[x], ord[x].qty)
         /\ AmountMove(ord[x], xf[x]) \in Int
         /\ MovedBy(pf, ord[x],
                    CashMove(ord[x], xf[x], xp[x]) - CashMove(ord[x], ord[x].qty, ord[x].price),
                    0, fee, ReconcileFill(pf, ord[x], xf[x], xp[x], fee))
<1> Ample(Q, P) /\ TypeOK /\ Rows /\ BooksInv(Q, P) /\ SettledRows(P) /\ OrdersAsked
  BY DEF Books, IInv, BooksInv
<1>1. /\ ord[x] \in OrderRequests /\ ord[x].qty \in 1 .. Q /\ ord[x].price \in 1 .. P
      /\ xp[x] \in 0 .. P /\ xf[x] = ord[x].qty
  BY OrderBounds
<1>2. pf \in Portfolios /\ ord[x].sym \in Symbols
  BY <1>1 DEF TypeOK, OrderRequests
<1>3. ord[x].qty >= 1 /\ ord[x].qty <= pf.pos[ord[x].sym] /\ xp[x] \in Nat
  <2>1. Q <= pf.pos[ord[x].sym] /\ pf.pos[ord[x].sym] \in Nat
    <3>1. Q <= pf.pos[ord[x].sym]
      BY <1>2, Floors
    <3> QED
      BY <1>2, <3>1 DEF Portfolios
  <2> QED
    BY <1>1, <2>1
<1>4. Notional(ord[x].qty, ord[x].price) \in Int /\ Notional(ord[x].qty, xp[x]) \in Int
  <2>1. ord[x].qty \in Int /\ ord[x].price \in Int /\ xp[x] \in Int
    BY <1>1
  <2> QED
    BY <2>1, NotionalType
<1>5. MovedBy(pf, ord[x],
              CashMove(ord[x], ord[x].qty, xp[x]) - CashMove(ord[x], ord[x].qty, ord[x].price),
              0, fee, ReconcileFill(pf, ord[x], ord[x].qty, xp[x], fee))
  BY <1>1, <1>2, <1>3, ReconcilesExactly
<1> QED
  BY <1>1, <1>4, <1>5 DEF CashMove, AmountMove

\* Cancelling a stale order keeps the books.
LEMMA CancelBooks ==
  ASSUME NEW Q \in Nat, NEW P \in Nat, Books(Q, P), IInv', CancelStale
  PROVE  BooksInv(Q, P)'
<1> /\ TypeOK /\ PollsOpen /\ BatchUntouched /\ SettledRows(P) /\ FeesBounded(Q * P) /\ Phases(Q)
  BY DEF Books, BooksInv, IInv
<1> USE DEF histVars
<1>1. PICK x : /\ x = seen.id /\ x \in OrderIds /\ x \in 1 .. Len(ord)
               /\ db[x] \in {"open", "partially_filled"} /\ xs[x] = "open" /\ seen.filled = 0
  BY SeenIsIssued DEF CancelStale, PollsOpen, Phases
<1>2. /\ pc = "cancel" /\ pc' = "poll" /\ UNCHANGED <<snap, ord, cur, mode, xf, xp, paper>>
      /\ db' = [db EXCEPT ![x] = "cancelled"] /\ xs' = [xs EXCEPT ![x] = "canceled"]
      /\ pf' = ReleaseReservation(pf, ord[x], 0)
  BY <1>1 DEF CancelStale
<1>3. xf[x] = 0 /\ IsOpen(x)
  BY <1>1 DEF SettledRows, RowSettled, IsOpen, OpenStatuses
<1>4. PICK c, a \in Int : /\ CashMove(ord[x], xf[x], xp[x]) =
                                CashMove(ord[x], ord[x].qty, ord[x].price) + c
                           /\ AmountMove(ord[x], xf[x]) = AmountMove(ord[x], ord[x].qty) + a
                           /\ MovedBy(pf, ord[x], c, a, 0, pf')
  BY <1>1, <1>2, <1>3, GivesBack
<1>5. FeesBounded(Q * P)'
  <2>1. Filled' = Filled /\ pf'.fees = pf.fees
    <3>1. pf'.fees = pf.fees + 0 /\ pf.fees \in Int
      BY <1>4 DEF MovedBy, TypeOK, Portfolios
    <3> QED
      BY <1>1, <1>2, <3>1 DEF Filled, TypeOK
  <2>2. PICK B : B = Q * P
    OBVIOUS
  <2> QED
    BY <2>1, <2>2, FeesStay
<1>6. /\ xs'[x] = Word("cancelled") /\ "cancelled" \in TerminalStatuses /\ 0 \in Int
      /\ \A o \in OrderIds : o # x => xs'[o] = xs[o]
  BY <1>1, <1>2 DEF Word, TerminalStatuses, TypeOK
<1> QED
  BY <1>1, <1>2, <1>3, <1>4, <1>5, <1>6, SettleOne

\* A poll that finds an order dead keeps the books.
LEMMA DeadBooks ==
  ASSUME NEW Q \in Nat, NEW P \in Nat, Books(Q, P), IInv', NEW x \in OrderIds, PollDead(x)
  PROVE  BooksInv(Q, P)'
<1> TypeOK /\ SettledRows(P) /\ FeesBounded(Q * P)
  BY DEF Books, BooksInv, IInv
<1> USE DEF histVars, xVars
<1>1. /\ pc = "poll" /\ IsOpen(x) /\ x \in 1 .. Len(ord)
      /\ \E rep \in Report(x) :
           rep.status \in {"canceled", "rejected"} /\ rep.filled = xf[x] /\ xs[x] = rep.status
           /\ pf' = ReleaseReservation(pf, ord[x], xf[x])
  <2>1. Polling(x)
    BY DEF PollDead
  <2>2. PICK rep \in Report(x) : rep.status \in {"canceled", "rejected"} /\ pf' = Booked(x, rep)
    BY DEF PollDead
  <2>3. /\ pc = "poll" /\ IsOpen(x) /\ x \in 1 .. Len(ord)
        /\ rep.filled = xf[x] /\ xs[x] = rep.status
    BY <2>1, <2>2, PolledIsLive
  <2>4. Booked(x, rep) = ReleaseReservation(pf, ord[x], rep.filled)
    BY <2>2 DEF Booked, NewFill
  <2> QED
    BY <2>2, <2>3, <2>4
<1>2. xs[x] \in {"canceled", "rejected"} /\ xf[x] = 0 /\ pf' = ReleaseReservation(pf, ord[x], 0)
  BY <1>1 DEF SettledRows, RowSettled
<1>3. PICK st : /\ st \in {"cancelled", "rejected"} /\ db' = [db EXCEPT ![x] = st] /\ xs[x] = Word(st)
  BY <1>2 DEF PollDead, Replied, Word
<1>4. pc' = "poll" /\ UNCHANGED <<snap, ord, cur, mode, xs, xf, xp, paper>>
  BY <1>1 DEF PollDead
<1>5. PICK c, a \in Int : /\ CashMove(ord[x], xf[x], xp[x]) =
                                CashMove(ord[x], ord[x].qty, ord[x].price) + c
                           /\ AmountMove(ord[x], xf[x]) = AmountMove(ord[x], ord[x].qty) + a
                           /\ MovedBy(pf, ord[x], c, a, 0, pf')
  BY <1>1, <1>2, GivesBack
<1>6. FeesBounded(Q * P)'
  <2>1. Filled' = Filled /\ pf'.fees = pf.fees
    <3>1. pf'.fees = pf.fees + 0 /\ pf.fees \in Int
      BY <1>5 DEF MovedBy, TypeOK, Portfolios
    <3> QED
      BY <1>1, <1>3, <3>1 DEF Filled, TypeOK, IsOpen, OpenStatuses
  <2>2. PICK B : B = Q * P
    OBVIOUS
  <2> QED
    BY <2>1, <2>2, FeesStay
<1>7. st \in TerminalStatuses /\ xs'[x] = Word(st) /\ 0 \in Int
      /\ \A o \in OrderIds : o # x => xs'[o] = xs[o]
  BY <1>3, <1>4 DEF TerminalStatuses
<1> QED
  BY <1>1, <1>2, <1>3, <1>4, <1>5, <1>6, <1>7, SettleOne

\* A poll that finds an order filled keeps the books.
LEMMA FilledBooks ==
  ASSUME NEW Q \in Nat, NEW P \in Nat, Books(Q, P), IInv', NEW x \in OrderIds, PollFilled(x)
  PROVE  BooksInv(Q, P)'
<1> TypeOK /\ Rows /\ Ample(Q, P) /\ SettledRows(P) /\ OrdersAsked /\ FeesBounded(Q * P)
  BY DEF Books, BooksInv, IInv
<1> USE DEF histVars, xVars
<1> DEFINE fee == Fee(xf[x], xp[x])
<1>1. /\ pc = "poll" /\ IsOpen(x) /\ x \in 1 .. Len(ord) /\ xs[x] = "closed"
      /\ pf' = ReconcileFill(pf, ord[x], xf[x], xp[x], fee)
  <2>1. Polling(x)
    BY DEF PollFilled
  <2>2. PICK rep \in Report(x) : rep.status = "closed" /\ pf' = Booked(x, rep)
    BY DEF PollFilled
  <2>3. /\ pc = "poll" /\ IsOpen(x) /\ x \in 1 .. Len(ord) /\ xs[x] = "closed"
        /\ rep.filled = xf[x] /\ rep.price = xp[x]
    BY <2>1, <2>2, PolledIsLive
  <2>4. Booked(x, rep) = ReconcileFill(pf, ord[x], rep.filled, rep.price, Fee(rep.filled, rep.price))
    BY <2>2 DEF Booked, NewFill
  <2> QED
    BY <2>2, <2>3, <2>4
<1>2. /\ pc' = "poll" /\ UNCHANGED <<snap, ord, cur, mode, xs, xf, xp, paper>>
      /\ db' = [db EXCEPT ![x] = "filled"]
  BY <1>1 DEF PollFilled
<1>3. fee \in Nat /\ fee <= Q * P
  <2>1. xf[x] \in 0 .. Q /\ xp[x] \in 0 .. P
    BY <1>1, OrderBounds
  <2> QED
    BY <2>1, FeeBound
<1> HIDE DEF fee
<1>4. PICK c \in Int : /\ CashMove(ord[x], xf[x], xp[x]) =
                             CashMove(ord[x], ord[x].qty, ord[x].price) + c
                        /\ AmountMove(ord[x], xf[x]) = AmountMove(ord[x], ord[x].qty) + 0
                        /\ MovedBy(pf, ord[x], c, 0, fee, pf')
  <2>1. fee \in Int
    BY <1>3
  <2>2. /\ CashMove(ord[x], ord[x].qty, ord[x].price) \in Int /\ CashMove(ord[x], xf[x], xp[x]) \in Int
        /\ AmountMove(ord[x], xf[x]) = AmountMove(ord[x], ord[x].qty)
        /\ AmountMove(ord[x], xf[x]) \in Int
        /\ MovedBy(pf, ord[x],
                   CashMove(ord[x], xf[x], xp[x]) - CashMove(ord[x], ord[x].qty, ord[x].price),
                   0, fee, pf')
    BY <1>1, <2>1, BooksFill
  <2>3. PICK m, n \in Int : /\ m = CashMove(ord[x], xf[x], xp[x])
                             /\ n = CashMove(ord[x], ord[x].qty, ord[x].price)
    BY <2>2
  <2>4. m = n + (m - n) /\ m - n \in Int /\ MovedBy(pf, ord[x], m - n, 0, fee, pf')
    BY <2>2, <2>3
  <2> QED
    BY <2>2, <2>3, <2>4
<1>5. FeesBounded(Q * P)'
  <2>1. PICK B : B = Q * P /\ B \in Nat
    OBVIOUS
  <2>2. pf'.fees = pf.fees + fee /\ db[x] # "filled"
    BY <1>1, <1>4 DEF MovedBy, IsOpen, OpenStatuses
  <2> QED
    BY <1>2, <1>3, <2>1, <2>2, FeesCharge
<1>6. "filled" \in TerminalStatuses /\ xs'[x] = Word("filled") /\ fee \in Int /\ 0 \in Int
      /\ xs'[x] = "closed"
  BY <1>1, <1>2, <1>3 DEF TerminalStatuses, Word
<1> QED
  BY <1>1, <1>2, <1>4, <1>5, <1>6, SettleOne

\* Saving a pending order keeps the books.
LEMMA SaveBooks ==
  ASSUME NEW Q \in Nat, NEW P \in Nat, Books(Q, P), IInv', SavePending
  PROVE  BooksInv(Q, P)'
<1> /\ TypeOK /\ BatchUntouched /\ Rows /\ SettledRows(P) /\ FeesBounded(Q * P) /\ Phases(Q)
    /\ Ample(Q, P) /\ OrdersAsked /\ LedgerExact
  BY DEF Books, BooksInv, IInv
<1> USE DEF histVars, xVars
<1>1. /\ pc = "place" /\ mode = "exec" /\ pc' = "sent"
      /\ UNCHANGED <<pf, snap, cur, mode, seen, xs, xf, xp, paper>>
      /\ db' = [db EXCEPT ![cur] = "pending"] /\ ord' = [ord EXCEPT ![cur] = Normalized(ord[cur])]
  BY DEF SavePending, Phases
<1>2. cur \in 1 .. Len(ord) /\ cur \in OrderIds /\ Len(ord) \in Nat /\ cur \in Nat /\ cur <= Len(ord)
  <2>1. Len(ord) \in Nat /\ cur \in Nat /\ cur >= 1 /\ Len(ord) <= MaxOrders
    BY DEF TypeOK
  <2> QED
    BY <2>1, ExecutionAssumption DEF SavePending, OrderIds
<1>3. ord' = ord
  <2>1. Normalized(ord[cur]) = ord[cur]
    BY <1>2, OrderBounds
  <2> QED
    BY <1>1, <1>2, <2>1 DEF TypeOK
<1>4. db[cur] = "none" /\ xs[cur] = "none"
  <2>1. cur >= cur
    BY <1>2
  <2> QED
    BY <1>1, <1>2, <2>1 DEF BatchUntouched, Untouched
<1>5. db'[cur] = "pending" /\ \A o \in OrderIds : o # cur => db'[o] = db[o]
  BY <1>1, <1>2 DEF TypeOK
<1>6. ASSUME NEW o \in 1 .. Len(ord) PROVE Rests(o)
  <2>1. o \in OrderIds
    BY ExecutionAssumption DEF TypeOK, OrderIds
  <2>2. Waiting(o)' <=> Waiting(o)
    BY <1>1 DEF Waiting
  <2>3. CASE o = cur
    <3>1. Waiting(o)
      BY <1>1, <1>2, <2>3 DEF Waiting
    <3> QED
      BY <1>3, <2>2, <3>1 DEF Rests, Unsettled
  <2>4. CASE o # cur
    BY <1>1, <1>3, <1>5, <2>1, <2>2, <2>4 DEF Rests, Unsettled, IsOpen
  <2> QED
    BY <2>3, <2>4
<1>7. LedgerExact'
  BY <1>1, <1>3, <1>6, LedgerRests
<1>8. SnapExact'
  BY <1>1 DEF SnapExact
<1>9. SettledRows(P)'
  <2>1. RowSettled(cur)'
    <3>1. RowSettled(cur)
      BY <1>2 DEF SettledRows
    <3> QED
      BY <1>1, <1>4, <1>5, <3>1 DEF RowSettled
  <2>2. ASSUME NEW o \in OrderIds, o # cur PROVE RowSettled(o)'
    BY <1>1, <1>5, <2>2, RowRests DEF SettledRows
  <2> QED
    BY <1>1, <2>1, <2>2 DEF SettledRows
<1>10. Phases(Q)'
  BY <1>1, <1>2, <1>3, <1>4 DEF Phases
<1>11. OrdersAsked'
  BY <1>3 DEF OrdersAsked
<1>12. FeesBounded(Q * P)'
  <2>1. Filled' = Filled
    BY <1>4, <1>5 DEF Filled
  <2>2. PICK B : B = Q * P
    OBVIOUS
  <2> QED
    BY <1>1, <2>1, <2>2, FeesStay
<1> QED
  BY <1>7, <1>8, <1>9, <1>10, <1>11, <1>12 DEF BooksInv

\* An order the exchange took keeps the books.
LEMMA PlacedBooks ==
  ASSUME NEW Q \in Nat, NEW P \in Nat, Books(Q, P), IInv', Placed
  PROVE  BooksInv(Q, P)'
<1> /\ TypeOK /\ TypeOK' /\ BatchUntouched /\ Rows /\ SettledRows(P) /\ FeesBounded(Q * P)
    /\ Phases(Q) /\ Ample(Q, P) /\ OrdersAsked /\ LedgerExact
  BY DEF Books, BooksInv, IInv
<1> USE DEF histVars, xVars
<1>0. PICK x : x = cur
  OBVIOUS
<1>1. /\ pc = "sent" /\ mode = "exec" /\ pc' = "place" /\ cur' = x + 1 /\ db[x] = "pending"
      /\ UNCHANGED <<snap, ord, mode, seen, xs, xf, xp, paper>> /\ snap # NoSnap
      /\ db' = [db EXCEPT ![x] = Replied(x)]
      /\ xs[x] \in {"open", "closed"}
  BY <1>0 DEF Placed, Phases, BatchUntouched, Finalize
<1>2. x \in 1 .. Len(ord) /\ x \in OrderIds /\ Len(ord) \in Nat /\ x \in Nat
  <2>1. Len(ord) \in Nat /\ cur \in Nat /\ cur >= 1 /\ Len(ord) <= MaxOrders
    BY DEF TypeOK
  <2>2. cur <= Len(ord)
    BY <1>1 DEF BatchUntouched
  <2> QED
    BY <1>0, <2>1, <2>2, ExecutionAssumption DEF OrderIds
<1>3. db'[x] = (IF xs[x] = "closed" THEN "filled" ELSE "open")
      /\ \A o \in OrderIds : o # x => db'[o] = db[o]
  BY <1>1, <1>2 DEF TypeOK, Replied
<1>4. ASSUME NEW o \in 1 .. Len(ord), o # x PROVE Rests(o)
  <2>1. o \in OrderIds /\ o \in Nat
    BY ExecutionAssumption DEF TypeOK, OrderIds
  <2>2. Waiting(o)' <=> Waiting(o)
    BY <1>0, <1>1, <1>2, <1>4, <2>1 DEF Waiting
  <2> QED
    BY <1>1, <1>3, <1>4, <2>1, <2>2 DEF Rests, Unsettled, IsOpen
<1>5. SnapExact' /\ OrdersAsked' /\ Phases(Q)'
  BY <1>1 DEF SnapExact, OrdersAsked, Phases
<1>6. SettledRows(P)'
  <2>1. RowSettled(x)'
    <3>1. RowSettled(x)
      BY <1>2 DEF SettledRows
    <3> QED
      BY <1>1, <1>3, <3>1 DEF RowSettled, IsOpen, OpenStatuses
  <2>2. ASSUME NEW o \in OrderIds, o # x PROVE RowSettled(o)'
    BY <1>0, <1>1, <1>3, <2>2, RowRests DEF SettledRows
  <2> QED
    BY <1>1, <2>1, <2>2 DEF SettledRows
<1>7. Unsettled(x) /\ ~Waiting(x)'
  BY <1>1, <1>2 DEF Unsettled, IsOpen, OpenStatuses, Waiting
<1>8. CASE xs[x] = "open"
  <2>1. pf' = pf
    BY <1>0, <1>8 DEF Placed
  <2>2. Unsettled(x)'
    BY <1>3, <1>8 DEF Unsettled, IsOpen, OpenStatuses
  <2>3. Rests(x)
    BY <1>1, <1>7, <2>2 DEF Rests
  <2>4. LedgerExact'
    BY <1>1, <1>4, <2>1, <2>3, LedgerRests
  <2>5. FeesBounded(Q * P)'
    <3>1. Filled' = Filled
      BY <1>1, <1>3, <1>8 DEF Filled
    <3>2. PICK B : B = Q * P
      OBVIOUS
    <3> QED
      BY <2>1, <3>1, <3>2, FeesStay
  <2> QED
    BY <1>5, <1>6, <2>4, <2>5 DEF BooksInv
<1>9. CASE xs[x] = "closed"
  <2>1. PICK fee : fee = PlacementFee(x)
    OBVIOUS
  <2>2. fee \in Nat /\ fee <= Q * P /\ fee \in Int
    <3>1. xf[x] \in 0 .. Q /\ xp[x] \in 0 .. P
      BY <1>2, OrderBounds
    <3>2. Fee(xf[x], xp[x]) \in Nat /\ Fee(xf[x], xp[x]) <= Q * P
      BY <3>1, FeeBound
    <3>3. Q * P \in Nat
      OBVIOUS
    <3> QED
      BY <2>1, <3>2, <3>3 DEF PlacementFee
  <2>3. pf' = ReconcileFill(pf, ord[x], xf[x], xp[x], fee)
    BY <1>0, <1>9, <2>1 DEF Placed
  <2>4. /\ CashMove(ord[x], ord[x].qty, ord[x].price) \in Int
        /\ CashMove(ord[x], xf[x], xp[x]) \in Int
        /\ AmountMove(ord[x], xf[x]) = AmountMove(ord[x], ord[x].qty)
        /\ AmountMove(ord[x], xf[x]) \in Int
        /\ MovedBy(pf, ord[x],
                   CashMove(ord[x], xf[x], xp[x]) - CashMove(ord[x], ord[x].qty, ord[x].price),
                   0, fee, pf')
    BY <1>2, <1>9, <2>2, <2>3, BooksFill
  <2>5. PICK m, n \in Int : /\ m = CashMove(ord[x], xf[x], xp[x])
                             /\ n = CashMove(ord[x], ord[x].qty, ord[x].price)
    BY <2>4
  <2>6. PICK c \in Int : m = n + c /\ MovedBy(pf, ord[x], c, 0, fee, pf')
    <3>1. m = n + (m - n) /\ m - n \in Int /\ MovedBy(pf, ord[x], m - n, 0, fee, pf')
      BY <2>4, <2>5
    <3> QED
      BY <3>1
  <2>7. ~Unsettled(x)'
    BY <1>3, <1>7, <1>9 DEF Unsettled, IsOpen, OpenStatuses
  <2>8. OrderCash(x)' = OrderCash(x) + c /\ OrderAmount(x)' = OrderAmount(x) + 0
    <3>1. OrderCash(x) = n /\ OrderAmount(x) = AmountMove(ord[x], ord[x].qty)
      BY <1>7, <2>5 DEF OrderCash, OrderAmount
    <3>2. OrderCash(x)' = m /\ OrderAmount(x)' = AmountMove(ord[x], xf[x])
      BY <1>1, <2>5, <2>7 DEF OrderCash, OrderAmount
    <3> QED
      BY <2>4, <2>6, <3>1, <3>2
  <2>9. LedgerExact'
    <3>1. 0 \in Int /\ ord'[x].sym = ord[x].sym /\ Len(ord') = Len(ord)
      BY <1>1
    <3> QED
      BY <1>2, <1>4, <2>2, <2>6, <2>8, <3>1, LedgerMoves
  <2>10. FeesBounded(Q * P)'
    <3>1. PICK B : B = Q * P /\ B \in Nat
      OBVIOUS
    <3>2. pf'.fees = pf.fees + fee /\ db[x] # "filled" /\ db' = [db EXCEPT ![x] = "filled"]
      BY <1>1, <1>9, <2>6 DEF MovedBy, Replied
    <3> QED
      BY <1>2, <2>2, <3>1, <3>2, FeesCharge
  <2> QED
    BY <1>5, <1>6, <2>9, <2>10 DEF BooksInv
<1> QED
  BY <1>1, <1>8, <1>9

\* An order the cycle skips has moved nothing at the exchange, and one of an
\* earlier cycle is as settled as before.
LEMMA SkippedOrders ==
  ASSUME NEW Q \in Nat, NEW P \in Nat, Books(Q, P), SkipExecution, NEW o \in 1 .. Len(ord)
  PROVE  /\ o < cur => Rests(o)
         /\ o >= cur => OrderCash(o)' = 0 /\ OrderAmount(o)' = 0
<1> TypeOK /\ BatchUntouched /\ SettledRows(P)
  BY DEF Books, BooksInv, IInv
<1>1. /\ pc = "reserve" /\ pc' = "hooks"
      /\ UNCHANGED <<ord, db, xs, xf, xp>>
  BY DEF SkipExecution, dbVars, xVars
<1>2. o \in OrderIds /\ o \in Nat /\ cur \in Nat
  BY ExecutionAssumption DEF TypeOK, OrderIds
<1>3. ASSUME o < cur PROVE Rests(o)
  BY <1>1, <1>2, <1>3 DEF Rests, Unsettled, Waiting, IsOpen
<1>4. ASSUME o >= cur PROVE OrderCash(o)' = 0 /\ OrderAmount(o)' = 0
  <2>1. db[o] = "none"
    BY <1>1, <1>2, <1>4 DEF BatchUntouched, Untouched
  <2>2. xs[o] = "none" /\ xf[o] = 0
    BY <1>2, <2>1 DEF SettledRows, RowSettled
  <2>3. ~Unsettled(o)'
    BY <1>1, <2>1 DEF Unsettled, Waiting, IsOpen, OpenStatuses
  <2>4. xf'[o] = 0 /\ xp'[o] \in Nat
    BY <1>1, <1>2, <2>2 DEF TypeOK
  <2>5. PICK q, p : q = xf'[o] /\ p = xp'[o] /\ q = 0 /\ p \in Nat
    BY <2>4
  <2>6. CashMove(ord'[o], q, p) = 0 /\ AmountMove(ord'[o], q) = 0
    BY <2>5, ZeroMoves
  <2> QED
    BY <2>3, <2>5, <2>6 DEF OrderCash, OrderAmount
<1> QED
  BY <1>3, <1>4

\* A batch that is skipped keeps the books.
LEMMA SkipBooks ==
  ASSUME NEW Q \in Nat, NEW P \in Nat, Books(Q, P), SkipExecution
  PROVE  BooksInv(Q, P)'
<1> /\ TypeOK /\ SettledRows(P) /\ FeesBounded(Q * P) /\ Phases(Q) /\ OrdersAsked
    /\ LedgerExact /\ SnapExact
  BY DEF Books, BooksInv, IInv
<1>1. /\ pc = "reserve" /\ pc' = "hooks" /\ snap' = NoSnap /\ cur' = Len(ord) + 1
      /\ UNCHANGED <<ord, mode, seen, db, xs, xf, xp, paper>>
      /\ pf' = IF snap = NoSnap THEN pf ELSE Restored(pf, snap)
  BY DEF SkipExecution, dbVars, xVars
<1>2. PICK n, k : /\ n = Len(ord) /\ n = Len(ord') /\ n \in 0 .. Len(ord) /\ n \in Nat
                  /\ k = cur - 1 /\ k \in 0 .. n /\ k \in Nat /\ cur = k + 1
  <2>1. Len(ord) \in Nat /\ cur \in Nat /\ cur >= 1 /\ cur <= Len(ord) + 1 /\ ord' = ord
    BY <1>1 DEF TypeOK
  <2> QED
    BY <2>1
<1>3. LedgerExact' /\ pf'.fees = pf.fees
  <2>1. CASE snap = NoSnap
    <3>1. cur = Len(ord) + 1
      BY <1>1, <2>1 DEF Phases
    <3>2. \A o \in 1 .. Len(ord) : Rests(o)
      BY <1>2, <3>1, SkippedOrders
    <3> QED
      BY <1>1, <2>1, <3>2, LedgerRests
  <2>2. CASE snap # NoSnap
    <3>1. /\ pf'.cash = snap.cash /\ pf'.pos = snap.pos /\ pf'.fees = pf.fees
      BY <1>1, <2>2 DEF Restored, TypeOK, Portfolios
    <3>2. Balanced(snap, k)
      BY <1>1, <1>2, <2>2, SnapIsBalanced
    <3>3. \A o \in 1 .. k : Rests(o)
      BY <1>2, SkippedOrders
    <3>4. \A o \in k + 1 .. n : OrderCash(o)' = 0 /\ OrderAmount(o)' = 0
      BY <1>2, SkippedOrders
    <3>5. CashOf(1 .. n)' = CashOf(1 .. k) /\ \A s : AmountOf(s, 1 .. n)' = AmountOf(s, 1 .. k)
      BY <1>1, <1>2, <3>3, <3>4, SumsSkip
    <3>6. Balanced(pf, n)'
      BY <3>1, <3>2, <3>5 DEF Balanced
    <3> QED
      BY <1>2, <3>1, <3>6, LedgerIsBalanced
  <2> QED
    BY <2>1, <2>2
<1>4. SnapExact' /\ OrdersAsked' /\ Phases(Q)'
  BY <1>1 DEF SnapExact, OrdersAsked, Phases
<1>5. SettledRows(P)'
  BY <1>1, RowRests DEF SettledRows
<1>6. FeesBounded(Q * P)'
  <2>1. Filled' = Filled
    BY <1>1 DEF Filled
  <2>2. PICK B : B = Q * P
    OBVIOUS
  <2> QED
    BY <1>3, <2>1, <2>2, FeesStay
<1> QED
  BY <1>3, <1>4, <1>5, <1>6 DEF BooksInv

\* A request finds all the capital it asks for.
LEMMA ReservesAll ==
  ASSUME NEW Q \in Nat, NEW P \in Nat, Books(Q, P), NEW r \in Requests, Reserve(r)
  PROVE  /\ r \in OrderRequests
         /\ CashMove(r, r.qty, r.price) \in Int /\ AmountMove(r, r.qty) \in Int
         /\ MovedBy(pf, r, CashMove(r, r.qty, r.price), AmountMove(r, r.qty), 0, pf')
<1> Ample(Q, P) /\ TypeOK /\ Rows /\ BooksInv(Q, P)
  BY DEF Books, IInv
<1>1. r \in OrderRequests /\ r.sym \in Symbols /\ r.qty \in 1 .. Q /\ r.price \in 1 .. P
  BY ExecutionAssumption DEF OrderRequests, Ample
<1>2. Notional(r.qty, r.price) \in 0 .. Q * P
  <2>1. r.qty \in 0 .. Q /\ r.price \in 0 .. P
    BY <1>1
  <2> QED
    BY <2>1, ProductBound DEF Notional
<1>3. Q * P <= pf.cash /\ Q <= pf.pos[r.sym] /\ pf.cash \in Int /\ pf.pos[r.sym] \in Nat
  <2>1. Q * P <= pf.cash /\ \A s \in Symbols : Q <= pf.pos[s]
    BY Floors
  <2> QED
    BY <1>1, <2>1 DEF TypeOK, Portfolios
<1>4. Notional(r.qty, r.price) <= pf.cash /\ Notional(r.qty, r.price) \in Int
  <2>1. PICK B, c, n \in Int : B = Q * P /\ c = pf.cash /\ n = Notional(r.qty, r.price)
    BY <1>2, <1>3
  <2>2. n <= B /\ B <= c
    BY <1>2, <1>3, <2>1
  <2>3. n <= c
    BY <2>1, <2>2
  <2> QED
    BY <2>1, <2>3
<1>5. r.qty <= pf.pos[r.sym] /\ r.qty >= 1 /\ r.price >= 1
  BY <1>1, <1>3
<1>6. pf' = ApplyOrder(pf, r) /\ pf \in Portfolios
  BY DEF Reserve, TypeOK
<1>7. MovedBy(pf, r, CashMove(r, r.qty, r.price), AmountMove(r, r.qty), 0, ApplyOrder(pf, r))
  BY <1>1, <1>4, <1>5, <1>6, ReservesExactly
<1>8. CashMove(r, r.qty, r.price) \in Int /\ AmountMove(r, r.qty) \in Int
  BY <1>1, <1>4 DEF CashMove, AmountMove
<1> QED
  BY <1>1, <1>6, <1>7, <1>8

\* A request that reserves keeps the books.
LEMMA ReserveBooks ==
  ASSUME NEW Q \in Nat, NEW P \in Nat, Books(Q, P), IInv', NEW r \in Requests, Reserve(r)
  PROVE  BooksInv(Q, P)'
<1> /\ TypeOK /\ TypeOK' /\ SettledRows(P) /\ FeesBounded(Q * P) /\ Phases(Q) /\ OrdersAsked
    /\ LedgerExact /\ SnapExact /\ Rows /\ Ample(Q, P) /\ BooksInv(Q, P)
  BY DEF Books, BooksInv, IInv
<1>1. /\ pc = "reserve" /\ mode = "exec" /\ ord' = Append(ord, r)
      /\ UNCHANGED <<pc, mode, cur, seen, db, xs, xf, xp, paper>>
      /\ snap' = IF snap = NoSnap THEN pf ELSE snap
  BY DEF Reserve, Phases, dbVars, xVars
<1>2. /\ r \in OrderRequests
      /\ CashMove(r, r.qty, r.price) \in Int /\ AmountMove(r, r.qty) \in Int
      /\ MovedBy(pf, r, CashMove(r, r.qty, r.price), AmountMove(r, r.qty), 0, pf')
  BY ReservesAll
<1>3. Len(ord) \in Nat /\ cur \in Nat /\ cur >= 1 /\ cur <= Len(ord) + 1 /\ Len(ord') = Len(ord) + 1
  BY <1>1 DEF TypeOK
<1>4. ASSUME NEW o \in 1 .. Len(ord) PROVE Rests(o)
  <2>1. ord'[o] = ord[o]
    BY <1>1, AppendKeeps
  <2> QED
    BY <1>1, <2>1 DEF Rests, Unsettled, Waiting, IsOpen
<1>5. LedgerExact'
  <2>1. ASSUME NEW o, o = Len(ord) + 1
        PROVE  OrderCash(o)' = CashMove(r, r.qty, r.price) /\ OrderAmount(o)' = AmountMove(r, r.qty)
    <3>1. ord'[o] = r
      BY <1>1, <2>1 DEF TypeOK
    <3>2. Unsettled(o)'
      BY <1>1, <1>3, <2>1 DEF Unsettled, Waiting
    <3> QED
      BY <3>1, <3>2 DEF OrderCash, OrderAmount
  <2> QED
    BY <1>1, <1>2, <1>4, <2>1, LedgerGrows
<1>6. pf'.fees = pf.fees
  BY <1>2 DEF MovedBy, TypeOK, Portfolios
<1>7. SnapExact'
  <2>1. CASE snap = NoSnap
    <3>1. PICK n : n = Len(ord) /\ n = cur - 1 /\ n = cur' - 1 /\ n \in 0 .. Len(ord)
      BY <1>1, <1>3, <2>1 DEF Phases
    <3>2. CashOf(1 .. n)' = CashOf(1 .. n) /\ \A s : AmountOf(s, 1 .. n)' = AmountOf(s, 1 .. n)
      BY <1>4, <3>1, SumsRest
    <3>3. Balanced(pf, n)
      BY <3>1, LedgerIsBalanced
    <3>4. Balanced(snap, n)'
      BY <1>1, <1>6, <2>1, <3>2, <3>3 DEF Balanced
    <3> QED
      BY <3>1, <3>4, SnapIsBalanced
  <2>2. CASE snap # NoSnap
    BY <1>1, <1>4, <1>6, <2>2, SnapRests
  <2> QED
    BY <2>1, <2>2
<1>8. Phases(Q)'
  <2>1. snap' # NoSnap
    BY <1>1, ExecutionAssumption DEF TypeOK
  <2>2. \A s \in Symbols : snap'.pos[s] >= Q
    <3>1. \A s \in Symbols : pf.pos[s] >= Q
      BY Floors DEF TypeOK, Portfolios
    <3> QED
      BY <1>1, <3>1 DEF Phases
  <2>3. cur' # Len(ord') + 1
    BY <1>1, <1>3
  <2> QED
    BY <1>1, <2>1, <2>2, <2>3 DEF Phases
<1>9. OrdersAsked'
  BY <1>1 DEF OrdersAsked
<1>10. SettledRows(P)'
  BY <1>1, RowRests DEF SettledRows
<1>11. FeesBounded(Q * P)'
  <2>1. Filled' = Filled
    BY <1>1 DEF Filled
  <2>2. PICK B : B = Q * P
    OBVIOUS
  <2> QED
    BY <1>6, <2>1, <2>2, FeesStay
<1> QED
  BY <1>5, <1>7, <1>8, <1>9, <1>10, <1>11 DEF BooksInv
-----------------------------------------------------------------------------
(* The theorem. *)

\* Every step keeps the books.
LEMMA BooksKept ==
  ASSUME NEW Q \in Nat, NEW P \in Nat
  PROVE  Ample(Q, P) /\ IInv /\ BooksInv(Q, P) /\ [Next]_vars => BooksInv(Q, P)'
<1> SUFFICES ASSUME Ample(Q, P), IInv, BooksInv(Q, P), [Next]_vars PROVE BooksInv(Q, P)'
  OBVIOUS
<1>1. Books(Q, P) /\ IInv'
  BY NextIInv DEF Books
<1>2. CASE BareStep
  BY <1>1, <1>2, BareBooks
<1>3. CASE PlaceStepAtEase
  BY <1>1, <1>3, SaveBooks, PlacedBooks, SkipBooks, ReserveBooks DEF PlaceStepAtEase
<1>4. CASE SettleStep
  BY <1>1, <1>4, CancelBooks, FilledBooks, DeadBooks DEF SettleStep
<1>5. CASE XStep
  BY <1>1, <1>5, XBooks
<1> QED
  BY <1>1, <1>2, <1>3, <1>4, <1>5, AtEase

\* The bot starts with balanced books.
LEMMA InitBooks ==
  ASSUME NEW Q \in Nat, NEW P \in Nat
  PROVE  Ample(Q, P) /\ Init => BooksInv(Q, P)
<1> SUFFICES ASSUME Ample(Q, P), Init PROVE BooksInv(Q, P)
  OBVIOUS
<1>1. Phases(Q) /\ SnapExact /\ OrdersAsked
  BY DEF Init, Phases, SnapExact, OrdersAsked
<1>2. SettledRows(P)
  BY DEF Init, SettledRows, RowSettled, IsOpen, OpenStatuses
<1>3. FeesBounded(Q * P)
  <2>1. Unfilled = OrderIds /\ pf.fees = 0
    BY DEF Init, Unfilled, Filled, Ample
  <2>2. Cardinality(OrderIds) = MaxOrders /\ MaxOrders \in Nat
    BY OrdersFinite, ExecutionAssumption DEF OrderIds
  <2>3. PICK B : B = MaxOrders * (Q * P) /\ B \in Nat
    BY <2>2
  <2>4. 0 + B <= B
    BY <2>3
  <2> QED
    BY <2>1, <2>2, <2>3, <2>4 DEF FeesBounded
<1>4. LedgerExact
  <2>1. CashOf(Issued) = 0 /\ \A s : AmountOf(s, Issued) = 0
    <3>1. Issued = {} /\ IsFiniteSet({})
      BY FS_EmptySet DEF Init, Issued
    <3>2. PICK f : f = [o \in {} |-> OrderCash(o)]
      OBVIOUS
    <3>3. CashOf(Issued) = SumFunctionOnSet(f, {})
      BY <3>1, <3>2, SumOfFunction DEF CashOf
    <3>4. ASSUME NEW s PROVE AmountOf(s, Issued) = 0
      <4>1. {i \in Issued : ord[i].sym = s} = {}
        BY <3>1
      <4>2. PICK g : g = [o \in {} |-> OrderAmount(o)]
        OBVIOUS
      <4>3. AmountOf(s, Issued) = SumFunctionOnSet(g, {})
        BY <4>1, <4>2, SumOfFunction DEF AmountOf
      <4> QED
        BY <3>1, <4>3, SumType
    <3> QED
      BY <3>1, <3>3, <3>4, SumType
  <2>2. /\ pf = InitPortfolio /\ InitPortfolio.fees = 0
        /\ InitPortfolio.cash \in Int /\ InitPortfolio.pos \in [Symbols -> Nat]
    BY ExecutionAssumption DEF Init, Ample, Portfolios
  <2> QED
    BY <2>1, <2>2 DEF LedgerExact, CashDue, AmountDue
<1> QED
  BY <1>1, <1>2, <1>3, <1>4 DEF BooksInv

\* Where capital is ample, orders fill at once and the bot survives its failures
\* (CalmFaults), the portfolio is at every step the seed, plus what the settled
\* orders really did, plus the reservations of the open ones, less the fees: the
\* undo-then-apply bookkeeping of PortfolioService neither loses nor makes money.
THEOREM BooksAreExact ==
  ASSUME NEW Q \in Nat, NEW P \in Nat, Ample(Q, P)
  PROVE  Spec => []LedgerExact
<1>1. Init => BooksInv(Q, P)
  BY InitBooks
<1>2. IInv /\ BooksInv(Q, P) /\ [Next]_vars => BooksInv(Q, P)'
  BY BooksKept
<1>3. BooksInv(Q, P) => LedgerExact
  BY DEF BooksInv
<1> QED
  BY <1>1, <1>2, <1>3, Inductive, PTL DEF Spec
=============================================================================
