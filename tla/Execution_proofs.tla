--------------------------- MODULE Execution_proofs ---------------------------
(***************************************************************************)
(* Proofs about Execution, for every set of requests, every bound and      *)
(* every choice of faults: its variables stay in their types, an order     *)
(* recorded as filled or cancelled is so at the exchange, and the status   *)
(* column implements OrderLifecycle.  The lemmas on the portfolio          *)
(* operators come first: whatever is reserved, reconciled, released or     *)
(* rolled back, amounts stay defined and positions at or above zero.       *)
(***************************************************************************)
EXTENDS Execution, TLAPS

-----------------------------------------------------------------------------
(* The portfolio operators. *)

\* Every update writes the cash, and one position or the fees or both.
Moved(p, s, c, a) == [p EXCEPT !.cash = c, !.pos[s] = a]
Settled(p, s, c, a, f) == [p EXCEPT !.cash = c, !.pos[s] = a, !.fees = f]

\* Moving cash and one position yields a portfolio.
LEMMA MovedType ==
  ASSUME NEW p \in Portfolios, NEW s \in Symbols, NEW c \in Int, NEW a \in Nat
  PROVE  Moved(p, s, c, a) \in Portfolios
  BY DEF Portfolios, Moved

\* So does charging a fee besides.
LEMMA SettledType ==
  ASSUME NEW p \in Portfolios, NEW s \in Symbols, NEW c \in Int, NEW a \in Nat, NEW f \in Int
  PROVE  Settled(p, s, c, a, f) \in Portfolios
  BY DEF Portfolios, Settled

\* A notional is an integer.
LEMMA NotionalType == \A q, p \in Int : Notional(q, p) \in Int
  BY DEF Notional

\* A fee is an integer: the fee scale is not 0.
LEMMA FeeType == \A q, p \in Int : Fee(q, p) \in Int
<1> TAKE q, p \in Int
<1>1. q * p \in Int
  OBVIOUS
<1> QED
  BY <1>1, PortfolioAssumption DEF Fee

\* What is left of a position is never negative.
LEMMA HeldType ==
  ASSUME NEW a \in Int
  PROVE  Held(a) \in Nat
  BY DEF Held

\* What the operators read of a portfolio and a request.
LEMMA Fields ==
  ASSUME NEW book \in Portfolios, NEW r \in OrderRequests
  PROVE  /\ r.sym \in Symbols /\ r.qty \in Nat /\ r.price \in Nat
         /\ book.cash \in Int /\ book.fees \in Int /\ book.pos[r.sym] \in Nat
         /\ Notional(r.qty, r.price) \in Int
<1>1. /\ r.sym \in Symbols /\ r.qty \in Nat /\ r.price \in Nat
      /\ book.cash \in Int /\ book.fees \in Int /\ book.pos[r.sym] \in Nat
  BY DEF Portfolios, OrderRequests
<1>2. r.qty \in Int /\ r.price \in Int
  BY <1>1
<1> QED
  BY <1>1, <1>2, NotionalType

\* A reservation leaves a portfolio a portfolio.
LEMMA ApplyOrderType ==
  ASSUME NEW book \in Portfolios, NEW r \in OrderRequests
  PROVE  ApplyOrder(book, r) \in Portfolios
<1> USE Fields
<1> r.sym \in Symbols
  OBVIOUS
<1>1. ReserveBuy(book, r) \in Portfolios
  <2> DEFINE spend == Least(Notional(r.qty, r.price), book.cash)
             c == book.cash - spend
             a == book.pos[r.sym] + spend \div r.price
  <2>1. spend \in Int
    BY DEF Least
  <2>2. CASE spend <= 0 \/ r.price = 0
    BY <2>2 DEF ReserveBuy
  <2>3. CASE ~(spend <= 0 \/ r.price = 0)
    <3>1. spend \div r.price \in Nat
      BY <2>1, <2>3
    <3>2. c \in Int /\ a \in Nat
      BY <2>1, <3>1
    <3>3. ReserveBuy(book, r) = Moved(book, r.sym, c, a)
      BY <2>3 DEF Moved, ReserveBuy
    <3> HIDE DEF c, a
    <3> QED
      BY <3>2, <3>3, MovedType
  <2> QED
    BY <2>2, <2>3
<1>2. ReserveSell(book, r) \in Portfolios
  <2> DEFINE sold == Least(r.qty, book.pos[r.sym])
             c == book.cash + Notional(sold, r.price)
             a == Held(book.pos[r.sym] - sold)
  <2>1. sold \in Int /\ r.price \in Int
    BY DEF Least
  <2>2. book.pos[r.sym] - sold \in Int
    BY <2>1
  <2>3. ReserveSell(book, r) = Moved(book, r.sym, c, a)
    BY DEF Moved, ReserveSell
  <2> HIDE DEF sold
  <2>4. Notional(sold, r.price) \in Int
    BY <2>1, NotionalType
  <2>5. c \in Int /\ a \in Nat
    BY <2>2, <2>4, HeldType
  <2> HIDE DEF c, a
  <2> QED
    BY <2>3, <2>5, MovedType
<1> QED
  BY <1>1, <1>2 DEF ApplyOrder

\* So does a reconciled fill.
LEMMA ReconcileFillType ==
  ASSUME NEW book \in Portfolios, NEW r \in OrderRequests,
         NEW q \in Nat, NEW p \in Nat, NEW fee \in Int
  PROVE  ReconcileFill(book, r, q, p, fee) \in Portfolios
<1> USE Fields
<1> r.sym \in Symbols
  OBVIOUS
<1>1. Notional(q, p) \in Int
  BY NotionalType, q \in Int, p \in Int
<1> DEFINE f == book.fees + fee
<1>2. f \in Int
  OBVIOUS
<1>3. ReconcileBuy(book, r, q, p, fee) \in Portfolios
  <2> DEFINE c == book.cash + Notional(r.qty, r.price) - Notional(q, p) - fee
             a == Held(book.pos[r.sym] - r.qty) + q
  <2>1. book.pos[r.sym] - r.qty \in Int
    OBVIOUS
  <2>2. c \in Int /\ a \in Nat
    BY <1>1, <2>1, HeldType
  <2>3. ReconcileBuy(book, r, q, p, fee) = Settled(book, r.sym, c, a, f)
    BY DEF Settled, ReconcileBuy
  <2> HIDE DEF c, a, f
  <2> QED
    BY <1>2, <2>2, <2>3, SettledType
<1>4. ReconcileSell(book, r, q, p, fee) \in Portfolios
  <2> DEFINE c == book.cash - Notional(r.qty, r.price) + Notional(q, p) - fee
             a == IF book.pos[r.sym] = 0 THEN 0 ELSE Held(book.pos[r.sym] + r.qty - q)
  <2>1. book.pos[r.sym] + r.qty - q \in Int
    OBVIOUS
  <2>2. c \in Int /\ a \in Nat
    BY <1>1, <2>1, HeldType
  <2>3. ReconcileSell(book, r, q, p, fee) = Settled(book, r.sym, c, a, f)
    BY DEF Settled, ReconcileSell
  <2> HIDE DEF c, a, f
  <2> QED
    BY <1>2, <2>2, <2>3, SettledType
<1> QED
  BY <1>3, <1>4 DEF ReconcileFill

\* So does a partial fill.
LEMMA IncrementalFillType ==
  ASSUME NEW book \in Portfolios, NEW r \in OrderRequests, NEW delta \in Int, NEW p \in Nat
  PROVE  IncrementalFill(book, r, delta, p) \in Portfolios
<1> USE Fields
<1> r.sym \in Symbols
  OBVIOUS
<1> DEFINE gain == IF r.side = "buy" THEN r.price - p ELSE p - r.price
           c == book.cash + delta * gain - Fee(delta, p)
           f == book.fees + Fee(delta, p)
<1>1. gain \in Int
  OBVIOUS
<1>2. IncrementalFill(book, r, delta, p) = [book EXCEPT !.cash = c, !.fees = f]
  BY DEF IncrementalFill
<1> HIDE DEF gain
<1>3. delta * gain \in Int
  BY <1>1
<1>4. Fee(delta, p) \in Int
  BY FeeType, p \in Int
<1>5. c \in Int /\ f \in Int
  BY <1>3, <1>4
<1> HIDE DEF c, f
<1> QED
  BY <1>2, <1>5 DEF Portfolios

\* So does a released reservation.
LEMMA ReleaseReservationType ==
  ASSUME NEW book \in Portfolios, NEW r \in OrderRequests, NEW filled \in Nat
  PROVE  ReleaseReservation(book, r, filled) \in Portfolios
<1> USE Fields
<1> r.sym \in Symbols
  OBVIOUS
<1>1. CASE filled >= r.qty
  BY <1>1 DEF ReleaseReservation
<1>2. CASE ~(filled >= r.qty)
  <2> DEFINE u == r.qty - filled
             n == Notional(u, r.price)
  <2>1. u \in Nat /\ r.price \in Int
    BY <1>2
  <2>2. u \in Int
    BY <2>1
  <2> HIDE DEF u
  <2>3. n \in Int
    BY <2>1, <2>2, NotionalType
  <2>4. ReleaseBuy(book, r, u) \in Portfolios
    <3> DEFINE c == book.cash + n
               a == Held(book.pos[r.sym] - u)
    <3>1. book.pos[r.sym] - u \in Int
      BY <2>1
    <3>2. c \in Int /\ a \in Nat
      BY <2>3, <3>1, HeldType
    <3>3. ReleaseBuy(book, r, u) = Moved(book, r.sym, c, a)
      BY DEF Moved, ReleaseBuy
    <3> HIDE DEF c, a
    <3> QED
      BY <3>2, <3>3, MovedType
  <2>5. ReleaseSell(book, r, u) \in Portfolios
    <3> DEFINE c == Held(book.cash - n)
               a == IF book.pos[r.sym] = 0 THEN 0 ELSE book.pos[r.sym] + u
    <3>1. book.cash - n \in Int
      BY <2>3
    <3>2. c \in Int /\ a \in Nat
      BY <2>1, <3>1, HeldType
    <3>3. ReleaseSell(book, r, u) = Moved(book, r.sym, c, a)
      BY DEF Moved, ReleaseSell
    <3> HIDE DEF c, a
    <3> QED
      BY <3>2, <3>3, MovedType
  <2> QED
    BY <1>2, <2>4, <2>5 DEF ReleaseReservation, u
<1> QED
  BY <1>1, <1>2

\* So does a rollback.
LEMMA RestoredType ==
  ASSUME NEW book \in Portfolios, NEW snapshot \in Portfolios
  PROVE  Restored(book, snapshot) \in Portfolios
  BY DEF Restored, Portfolios

-----------------------------------------------------------------------------
(* The inductive invariant. *)

\* Nothing has happened to an order: it waits to be placed, was skipped, or has
\* not been issued.
Untouched(o) == db[o] = "none" /\ ~known[o] /\ xs[o] = "none"

\* The only order of the current batch that anything has happened to is the one
\* create_order is awaited for.
BatchUntouched ==
  /\ \A o \in OrderIds : o >= cur /\ ~(pc = "sent" /\ o = cur) => Untouched(o)
  /\ pc = "sent" => cur <= Len(ord) /\ db[cur] = "pending"

\* The records a poll has still to visit are open, each is visited once, and the
\* one being cancelled has been visited.
PollsOpen ==
  /\ pc \notin {"poll", "cancel"} => polls = {}
  /\ \A o \in polls : IsOpen(o)
  /\ pc = "cancel" => /\ seen.id \in OrderIds /\ seen.id \notin polls
                      /\ db[seen.id] \in {"open", "partially_filled"}

\* One row of the books.  Among the open records, those still pending are
\* exactly the ones whose exchange id was never recorded; an order the exchange
\* closed is entirely filled; what the table calls filled or cancelled is, and
\* what it calls partly filled has begun to fill, so that it is not rejected.
RowOK(o) ==
  /\ IsOpen(o) => (known[o] <=> db[o] # "pending")
  /\ xs[o] = "closed" => xf[o] = ord[o].qty
  /\ ~paper /\ db[o] = "filled" => xs[o] = "closed"
  /\ ~paper /\ db[o] = "cancelled" => xs[o] = "canceled"
  /\ db[o] = "partially_filled" => xs[o] # "rejected" /\ (xs[o] = "open" => xf[o] > 0)

Rows == \A o \in OrderIds : RowOK(o)

IInv == TypeOK /\ BatchUntouched /\ PollsOpen /\ Rows
-----------------------------------------------------------------------------
\* The initial state satisfies the invariant.
LEMMA InitIInv == Init => IInv
<1> SUFFICES ASSUME Init PROVE IInv
  OBVIOUS
<1> USE ExecutionAssumption, PortfolioAssumption
<1>1. TypeOK
  BY DEF Init, TypeOK, OrderIds, NothingSeen, PCs, XStatuses, OpenStatuses, TerminalStatuses
<1>2. BatchUntouched /\ PollsOpen /\ Rows
  BY DEF Init, BatchUntouched, Untouched, PollsOpen, Rows, RowOK, IsOpen, OpenStatuses
<1> QED
  BY <1>1, <1>2 DEF IInv

\* An exception leaves the bot's variables in their types.
LEMMA RaiseType ==
  ASSUME TypeOK, NEW p \in Portfolios, Raise(p)
  PROVE  /\ pf' \in Portfolios /\ snap' = NoSnap /\ polls' = {}
         /\ cur' = Len(ord) + 1 /\ raised' \in 0 .. MaxRaised
         /\ pc' \in {"stops", "hooks"}
         /\ UNCHANGED <<mode, stops, seen>>
<1>1. pf' \in Portfolios
  BY RestoredType DEF Raise, TypeOK
<1>2. raised' \in 0 .. MaxRaised
  BY ExecutionAssumption DEF Raise, TypeOK
<1> QED
  BY <1>1, <1>2 DEF Raise

\* The orders table has its type.
TableType ==
  /\ db \in [OrderIds -> {"none"} \cup OpenStatuses \cup TerminalStatuses]
  /\ known \in [OrderIds -> BOOLEAN] /\ dbf \in [OrderIds -> Nat]

\* So an exception that leaves the tables in their types preserves the types.
LEMMA RaiseTypeOK ==
  ASSUME TypeOK, NEW p \in Portfolios, Raise(p), TableType',
         applied' \in [OrderIds -> Int], xs' \in [OrderIds -> XStatuses],
         UNCHANGED <<ord, age, xf, xp, paper>>
  PROVE  TypeOK'
<1>1. /\ pf' \in Portfolios /\ snap' = NoSnap /\ polls' = {}
      /\ cur' = Len(ord) + 1 /\ raised' \in 0 .. MaxRaised
      /\ pc' \in {"stops", "hooks"}
      /\ UNCHANGED <<mode, stops, seen>>
  BY RaiseType
<1>2. Len(ord) \in Nat
  BY DEF TypeOK
<1> QED
  BY <1>1, <1>2 DEF TypeOK, TableType, PCs

\* In particular one that leaves them alone.
LEMMA QuietRaiseType ==
  ASSUME TypeOK, NEW p \in Portfolios, Raise(p),
         applied' \in [OrderIds -> Int], UNCHANGED <<ord, dbVars, age, xVars>>
  PROVE  TypeOK'
<1>1. TableType' /\ xs' \in [OrderIds -> XStatuses] /\ UNCHANGED <<xf, xp, paper>>
  BY DEF TableType, TypeOK, dbVars, xVars
<1> QED
  BY <1>1, RaiseTypeOK

\* An order anything has happened to has been issued.
LEMMA TouchedIsIssued ==
  ASSUME TypeOK, BatchUntouched, NEW o \in OrderIds, ~Untouched(o)
  PROVE  o \in 1 .. Len(ord)
<1>1. o \in Nat /\ o >= 1 /\ cur \in Nat /\ Len(ord) \in Nat /\ cur <= Len(ord) + 1
  BY ExecutionAssumption DEF OrderIds, TypeOK
<1>2. o < cur \/ (pc = "sent" /\ o = cur)
  BY <1>1 DEF BatchUntouched
<1> QED
  BY <1>1, <1>2 DEF BatchUntouched

\* An open record is of an order that was issued.
LEMMA OpenIsIssued ==
  ASSUME TypeOK, BatchUntouched
  PROVE  OpenOrders \subseteq 1 .. Len(ord)
  BY TouchedIsIssued DEF OpenOrders, IsOpen, OpenStatuses, Untouched

\* The cycle's own steps preserve the types.
LEMMA CycleType == TypeOK /\ BatchUntouched /\ PollsOpen /\ CycleNext => TypeOK'
<1> SUFFICES ASSUME TypeOK, BatchUntouched, PollsOpen, CycleNext PROVE TypeOK'
  OBVIOUS
<1> USE ExecutionAssumption, PortfolioAssumption
<1> USE DEF botVars, dbVars, histVars, xVars
<1>1. CASE StartCycle
  BY <1>1 DEF StartCycle, TypeOK, PCs
<1>2. ASSUME NEW r \in Requests, Reserve(r) PROVE TypeOK'
  <2>1. r \in OrderRequests
    OBVIOUS
  <2>2. pf' \in Portfolios /\ snap' \in Portfolios \cup {NoSnap}
    BY <1>2, <2>1, ApplyOrderType DEF Reserve, TypeOK
  <2>3. ord' \in Seq(OrderRequests) /\ Len(ord') = Len(ord) + 1 /\ Len(ord') <= MaxOrders
    BY <1>2, <2>1 DEF Reserve, TypeOK
  <2>4. UNCHANGED <<cur, pc, mode, polls, stops, seen, dbVars, age, histVars, xVars>>
    BY <1>2 DEF Reserve
  <2> QED
    BY <2>2, <2>3, <2>4 DEF TypeOK
<1>3. CASE RunExecution
  BY <1>3 DEF RunExecution, TypeOK, PCs
<1>4. CASE SkipExecution
  <2>1. pf' \in Portfolios
    BY <1>4, RestoredType DEF SkipExecution, TypeOK
  <2> QED
    BY <1>4, <2>1 DEF SkipExecution, TypeOK, PCs
<1>5. CASE PollOnlyCycle
  <2>1. OpenOrders \subseteq 1 .. Len(ord)
    BY OpenIsIssued
  <2> QED
    BY <1>5, <2>1 DEF PollOnlyCycle, TypeOK, PCs
<1>6. CASE CheckStopLosses
  BY <1>6 DEF CheckStopLosses, TypeOK, PCs
<1>7. CASE EndCycle
  BY <1>7 DEF EndCycle, TypeOK, PCs
<1>8. ASSUME NEW s \in Symbols, StopLoss(s) PROVE TypeOK'
  <2>1. PICK p \in FillPrices :
          ord' = Append(ord, [sym |-> s, side |-> "sell", qty |-> pf.pos[s], price |-> p])
    BY <1>8 DEF StopLoss
  <2>2. pf.pos[s] \in Nat
    BY DEF TypeOK, Portfolios
  <2>3. [sym |-> s, side |-> "sell", qty |-> pf.pos[s], price |-> p] \in OrderRequests
    BY <2>2 DEF OrderRequests, Sides
  <2>4. ord' \in Seq(OrderRequests) /\ Len(ord') = Len(ord) + 1 /\ Len(ord') <= MaxOrders
    BY <1>8, <2>1, <2>3 DEF StopLoss, TypeOK
  <2>5. /\ cur' = Len(ord) + 1 /\ pc' = "place" /\ stops' \subseteq Symbols
        /\ UNCHANGED <<pf, snap, mode, polls, seen, dbVars, age, histVars, xVars>>
    BY <1>8 DEF StopLoss, TypeOK
  <2> QED
    BY <2>4, <2>5 DEF TypeOK, PCs
<1> QED
  BY <1>1, <1>2, <1>3, <1>4, <1>5, <1>6, <1>7, <1>8 DEF CycleNext

\* So do the steps that place an order.
LEMMA PlaceType == TypeOK /\ BatchUntouched /\ PollsOpen /\ PlaceNext => TypeOK'
<1> SUFFICES ASSUME TypeOK, BatchUntouched, PollsOpen, PlaceNext PROVE TypeOK'
  OBVIOUS
<1> USE ExecutionAssumption, PortfolioAssumption
<1> USE DEF botVars, dbVars, histVars, xVars
<1>a. ASSUME cur <= Len(ord)
      PROVE  cur \in OrderIds /\ cur \in 1 .. Len(ord) /\ ord[cur] \in OrderRequests
  <2>1. Len(ord) \in Nat /\ cur \in Nat /\ cur >= 1 /\ Len(ord) <= MaxOrders
    BY DEF TypeOK
  <2>2. cur \in OrderIds /\ cur \in 1 .. Len(ord)
    BY <1>a, <2>1 DEF OrderIds
  <2> QED
    BY <2>2 DEF TypeOK
<1>b. ASSUME pc = "sent", xs[cur] # "none"
      PROVE  /\ Replied(cur) \in OpenStatuses \cup TerminalStatuses
             /\ xf[cur] \in Nat /\ xp[cur] \in Nat /\ PlacementFee(cur) \in Int
  <2>1. cur \in OrderIds
    BY <1>a, <1>b DEF BatchUntouched
  <2>2. xf[cur] \in Nat /\ xp[cur] \in Nat /\ xs[cur] \in XStatuses
    BY <2>1 DEF TypeOK
  <2>3. Fee(xf[cur], xp[cur]) \in Int
    <3>1. xf[cur] \in Int /\ xp[cur] \in Int
      BY <2>2
    <3> QED
      BY <3>1, FeeType
  <2> QED
    BY <1>b, <2>2, <2>3 DEF Replied, PlacementFee, XStatuses, OpenStatuses, TerminalStatuses
<1>1. CASE RejectInvalid
  BY <1>1 DEF RejectInvalid, TypeOK
<1>2. CASE SavePending
  <2>1. Normalized(ord[cur]) \in OrderRequests
    <3>1. ord[cur].qty \in Nat
      BY <1>2, <1>a DEF SavePending, OrderRequests
    <3>2. (IF ord[cur].qty < Lot THEN ord[cur].qty ELSE (ord[cur].qty \div Lot) * Lot) \in Nat
      BY <3>1
    <3> QED
      BY <1>2, <1>a, <3>2 DEF SavePending, Normalized, OrderRequests
  <2>2. ord' \in Seq(OrderRequests) /\ Len(ord') = Len(ord)
    BY <1>2, <1>a, <2>1 DEF SavePending, TypeOK
  <2>3. db' \in [OrderIds -> {"none"} \cup OpenStatuses \cup TerminalStatuses]
    BY <1>2 DEF SavePending, TypeOK, OpenStatuses
  <2>4. pc' = "sent" /\ UNCHANGED <<pf, snap, cur, mode, polls, stops, seen, known, dbf, age, histVars, xVars>>
    BY <1>2 DEF SavePending
  <2> QED
    BY <2>2, <2>3, <2>4 DEF TypeOK, PCs
<1>3. CASE PlaceDbError
  <2>1. Raise(pf) /\ UNCHANGED <<ord, dbVars, age, applied, xVars>>
    BY <1>3 DEF PlaceDbError
  <2> QED
    BY <2>1, RaiseType, SMTT(30) DEF TypeOK, PCs
<1>4. CASE Placed
  <2>1. cur <= Len(ord) /\ pc = "sent" /\ xs[cur] # "none"
    BY <1>4 DEF Placed, BatchUntouched
  <2>2. pf' \in Portfolios
    BY <1>4, <1>a, <1>b, <2>1, ReconcileFillType DEF Placed, TypeOK
  <2>3. /\ db' \in [OrderIds -> {"none"} \cup OpenStatuses \cup TerminalStatuses]
        /\ known' \in [OrderIds -> BOOLEAN] /\ dbf' \in [OrderIds -> Nat]
    BY <1>4, <1>a, <1>b, <2>1 DEF Placed, Finalize, TypeOK
  <2>4. /\ pc' = "place" /\ cur' = cur + 1
        /\ UNCHANGED <<snap, ord, mode, polls, stops, seen, age, histVars, xVars>>
    BY <1>4 DEF Placed
  <2> QED
    BY <2>1, <2>2, <2>3, <2>4 DEF TypeOK, PCs
<1>5. CASE PlacedRaises
  <2>1. cur <= Len(ord) /\ pc = "sent" /\ xs[cur] # "none"
    BY <1>5 DEF PlacedRaises, BatchUntouched
  <2>2. TableType'
    BY <1>5, <1>a, <1>b, <2>1 DEF PlacedRaises, Finalize, TypeOK, TableType
  <2>3. /\ applied' \in [OrderIds -> Int] /\ xs' \in [OrderIds -> XStatuses]
        /\ UNCHANGED <<ord, age, xf, xp, paper>>
    BY <1>5 DEF PlacedRaises, TypeOK
  <2>4. ASSUME NEW p \in Portfolios, Raise(p) PROVE TypeOK'
    BY <2>2, <2>3, <2>4, RaiseTypeOK
  <2>5. /\ ord[cur] \in OrderRequests /\ xf[cur] \in Nat /\ xp[cur] \in Nat
        /\ 0 \in Int /\ PlacementFee(cur) \in Int /\ pf \in Portfolios
    BY <1>a, <1>b, <2>1 DEF TypeOK
  <2>6. ord[cur].price \in Nat
    BY <2>5 DEF OrderRequests
  <2>7. /\ ReconcileFill(pf, ord[cur], xf[cur], ord[cur].price, 0) \in Portfolios
        /\ ReconcileFill(pf, ord[cur], xf[cur], xp[cur], PlacementFee(cur)) \in Portfolios
    BY <2>5, <2>6, ReconcileFillType
  <2> QED
    BY <1>5, <2>4, <2>5, <2>7 DEF PlacedRaises
<1>6. CASE FinalizeDbError
  <2>1. Raise(pf) /\ UNCHANGED <<ord, dbVars, age, applied, xVars>>
    BY <1>6 DEF FinalizeDbError
  <2> QED
    BY <2>1, RaiseType, SMTT(30) DEF TypeOK, PCs
<1>7. ASSUME Refused PROVE cur <= Len(ord) /\ TableType'
  <2>1. cur <= Len(ord)
    BY <1>7 DEF Refused, BatchUntouched
  <2>2. TableType'
    BY <1>7 DEF Refused, TypeOK, TableType, TerminalStatuses
  <2> QED
    BY <2>1, <2>2
<1>8. CASE CreateRaises
  BY <1>7, <1>8 DEF CreateRaises, Refused, TableType, TypeOK, PCs
<1>9. CASE RefusedDbError
  <2>1. Raise(pf) /\ pf \in Portfolios /\ TableType'
    BY <1>7, <1>9 DEF RefusedDbError, TypeOK
  <2>2. /\ applied' \in [OrderIds -> Int] /\ xs' \in [OrderIds -> XStatuses]
        /\ UNCHANGED <<ord, age, xf, xp, paper>>
    BY <1>9 DEF RefusedDbError, Refused, TypeOK
  <2> QED
    BY <2>1, <2>2, RaiseTypeOK
<1>10. CASE OpenOrdersDbError
  <2>1. Raise(pf) /\ UNCHANGED <<ord, dbVars, age, applied, xVars>>
    BY <1>10 DEF OpenOrdersDbError
  <2> QED
    BY <2>1, RaiseType, SMTT(30) DEF TypeOK, PCs
<1>11. CASE EndPlacing
  BY <1>11, OpenIsIssued DEF EndPlacing, TypeOK, PCs
<1> QED
  BY <1>1, <1>2, <1>3, <1>4, <1>5, <1>6, <1>8, <1>9, <1>10, <1>11 DEF PlaceNext
-----------------------------------------------------------------------------
\* A record a poll visits is of an order that was issued.
LEMMA PolledIsIssued ==
  ASSUME TypeOK, NEW o \in OrderIds, Polling(o)
  PROVE  o \in 1 .. Len(ord) /\ ord[o] \in OrderRequests
<1>1. o \in 1 .. Len(ord)
  BY DEF Polling, TypeOK
<1> QED
  BY <1>1 DEF TypeOK

\* What a poll is told: a status derived from the exchange's, and numbers.
LEMMA ReportFacts ==
  ASSUME TypeOK, NEW o \in OrderIds, ord[o] \in OrderRequests, NEW rep \in Report(o)
  PROVE  /\ rep.filled \in Nat /\ rep.price \in Nat
         /\ paper => rep.status = "closed"
         /\ ~paper => /\ rep.filled = xf[o]
                      /\ rep.status \in PartialStatuses => xs[o] = "open" \/ rep.status = xs[o]
                      /\ rep.status \notin PartialStatuses => rep.status = xs[o]
<1>1. ord[o].price \in Nat /\ xf[o] \in Nat /\ xp[o] \in Nat
  BY DEF TypeOK, OrderRequests
<1>2. CASE paper
  BY <1>1, <1>2 DEF Report
<1>3. CASE ~paper
  <2> DEFINE S == IF xs[o] = "open" /\ xf[o] > 0 THEN PartialStatuses ELSE {xs[o]}
  <2>1. rep \in [status : S, filled : {xf[o]}, price : {xp[o]}]
    BY <1>3 DEF Report
  <2>2. rep.status \in S /\ rep.filled = xf[o] /\ rep.price = xp[o]
    BY <2>1
  <2> QED
    BY <1>1, <1>3, <2>2
<1> QED
  BY <1>2, <1>3

\* A report of a closed, dropped or partly filled order, of a live exchange.
LEMMA ReportedStatus ==
  ASSUME TypeOK, NEW o \in OrderIds, ord[o] \in OrderRequests, NEW rep \in Report(o)
  PROVE  /\ rep.status = "closed" => paper \/ (xs[o] = "closed" /\ rep.filled = xf[o])
         /\ rep.status \in {"canceled", "rejected"} => ~paper /\ xs[o] = rep.status
         /\ rep.status = "partially_filled" => ~paper /\ xs[o] = "open"
<1>1. PartialStatuses \subseteq {"open", "partially_filled"}
  BY ExecutionAssumption
<1>2. xs[o] # "partially_filled"
  BY DEF TypeOK, XStatuses
<1> QED
  BY <1>1, <1>2, ReportFacts

\* Booking an answer yields a portfolio.
LEMMA BookedType ==
  ASSUME TypeOK, NEW o \in OrderIds, ord[o] \in OrderRequests, NEW rep \in Report(o)
  PROVE  /\ Booked(o, rep) \in Portfolios
         /\ rep.filled - dbf[o] \in Int
<1>1. rep.filled \in Nat /\ rep.price \in Nat
  BY ReportFacts
<1>2. rep.filled - dbf[o] \in Int
  BY <1>1 DEF TypeOK
<1>3. pf \in Portfolios
  BY DEF TypeOK
<1>4. Fee(rep.filled, rep.price) \in Int
  <2>1. rep.filled \in Int /\ rep.price \in Int
    BY <1>1
  <2> QED
    BY <2>1, FeeType
<1>5. ReconcileFill(pf, ord[o], rep.filled, rep.price, Fee(rep.filled, rep.price)) \in Portfolios
  BY <1>1, <1>3, <1>4, ReconcileFillType
<1>6. IncrementalFill(pf, ord[o], rep.filled - dbf[o], rep.price) \in Portfolios
  BY <1>1, <1>2, <1>3, IncrementalFillType
<1>7. ReleaseReservation(pf, ord[o], rep.filled) \in Portfolios
  BY <1>1, <1>3, ReleaseReservationType
<1> QED
  BY <1>2, <1>3, <1>5, <1>6, <1>7 DEF Booked

\* The steps of polling one record preserve the types.
LEMMA PollOneType ==
  ASSUME TypeOK, NEW o \in OrderIds,
         \/ PollFails(o) \/ PollFilled(o) \/ PollPartial(o) \/ PollStale(o)
         \/ PollDead(o) \/ PollNoChange(o) \/ PollRaises(o) \/ PollDbError(o)
  PROVE  TypeOK'
<1> USE ExecutionAssumption
<1> USE DEF botVars, dbVars, histVars, xVars
<1>a. ASSUME Polling(o) PROVE o \in 1 .. Len(ord) /\ ord[o] \in OrderRequests
  BY <1>a, PolledIsIssued
<1>1. CASE PollFails(o)
  BY <1>1 DEF PollFails, TypeOK
<1>2. CASE PollFilled(o)
  <2>1. PICK rep \in Report(o) :
          pf' = Booked(o, rep) /\ dbf' = [dbf EXCEPT ![o] = rep.filled]
    BY <1>2 DEF PollFilled
  <2>2. pf' \in Portfolios /\ dbf' \in [OrderIds -> Nat]
    BY <1>2, <1>a, <2>1, BookedType, ReportFacts DEF PollFilled, TypeOK
  <2>3. db' \in [OrderIds -> {"none"} \cup OpenStatuses \cup TerminalStatuses]
    BY <1>2 DEF PollFilled, TypeOK, TerminalStatuses
  <2> QED
    BY <1>2, <2>2, <2>3 DEF PollFilled, TypeOK
<1>3. CASE PollPartial(o)
  <2>1. PICK rep \in Report(o) :
          /\ pf' = Booked(o, rep)
          /\ applied' = [applied EXCEPT ![o] = @ + rep.filled - dbf[o]]
          /\ seen' = IF age[o] = 2 THEN [id |-> o, filled |-> rep.filled] ELSE NothingSeen
    BY <1>3 DEF PollPartial
  <2>2. o \in 1 .. Len(ord) /\ ord[o] \in OrderRequests
    BY <1>3, <1>a DEF PollPartial
  <2>3. rep.filled \in Nat /\ pf' \in Portfolios
    BY <2>1, <2>2, BookedType, ReportFacts
  <2>4. applied' \in [OrderIds -> Int]
    <3>1. applied[o] \in Int /\ dbf[o] \in Int /\ rep.filled \in Int
      BY <2>3 DEF TypeOK
    <3>2. applied[o] + rep.filled - dbf[o] \in Int
      BY <3>1
    <3> QED
      BY <2>1, <3>2 DEF TypeOK
  <2>5. seen' \in [id : 0 .. Len(ord), filled : Nat]
    <3>1. Len(ord) \in Nat
      BY DEF TypeOK
    <3> QED
      BY <2>1, <2>2, <2>3, <3>1 DEF NothingSeen
  <2>6. db' \in [OrderIds -> {"none"} \cup OpenStatuses \cup TerminalStatuses]
    BY <1>3 DEF PollPartial, TypeOK, OpenStatuses
  <2> QED
    BY <1>3, <2>3, <2>4, <2>5, <2>6 DEF PollPartial, TypeOK, PCs
<1>4. CASE PollStale(o)
  <2>1. o \in 1 .. Len(ord) /\ Len(ord) \in Nat
    BY <1>4, <1>a DEF PollStale, TypeOK
  <2>2. seen' \in [id : 0 .. Len(ord), filled : Nat]
    BY <1>4, <2>1 DEF PollStale
  <2> QED
    BY <1>4, <2>2 DEF PollStale, TypeOK, PCs
<1>5. CASE PollDead(o)
  <2>1. PICK rep \in Report(o) :
          rep.status \in {"canceled", "rejected"} /\ pf' = Booked(o, rep)
    BY <1>5 DEF PollDead
  <2>2. ord[o] \in OrderRequests
    BY <1>5, <1>a DEF PollDead
  <2>3. pf' \in Portfolios
    BY <2>1, <2>2, BookedType
  <2>4. Replied(o) \in {"cancelled", "rejected"}
    BY <2>1, <2>2, ReportedStatus DEF Replied
  <2>5. db' \in [OrderIds -> {"none"} \cup OpenStatuses \cup TerminalStatuses]
    BY <1>5, <2>4 DEF PollDead, TypeOK, TerminalStatuses
  <2> QED
    BY <1>5, <2>3, <2>5 DEF PollDead, TypeOK
<1>6. CASE PollNoChange(o)
  BY <1>6 DEF PollNoChange, TypeOK
<1>7. CASE PollRaises(o)
  <2>1. PICK rep \in Report(o) : Raise(Booked(o, rep))
    BY <1>7 DEF PollRaises
  <2> DEFINE p == Booked(o, rep)
  <2>2. p \in Portfolios
    BY <1>7, <1>a, BookedType DEF PollRaises
  <2>3. Raise(p) /\ UNCHANGED <<ord, dbVars, age, applied, xVars>>
    BY <1>7, <2>1 DEF PollRaises
  <2>4. applied' \in [OrderIds -> Int]
    BY <2>3 DEF TypeOK
  <2> HIDE DEF p
  <2> QED
    BY <2>2, <2>3, <2>4, QuietRaiseType
<1>8. CASE PollDbError(o)
  <2>1. PICK rep \in Report(o) :
          /\ Raise(Booked(o, rep)) \/ Raise(pf)
          /\ \/ UNCHANGED applied
             \/ applied' = [applied EXCEPT ![o] = @ + rep.filled - dbf[o]]
          /\ \/ UNCHANGED <<db, dbf>>
             \/ db' = [db EXCEPT ![o] = "filled"] /\ dbf' = [dbf EXCEPT ![o] = rep.filled]
    BY <1>8 DEF PollDbError
  <2>2. ord[o] \in OrderRequests
    BY <1>8, <1>a DEF PollDbError
  <2>3. Booked(o, rep) \in Portfolios /\ pf \in Portfolios /\ rep.filled \in Nat
    BY <2>2, BookedType, ReportFacts DEF TypeOK
  <2>4. applied' \in [OrderIds -> Int]
    <3>1. applied[o] \in Int /\ dbf[o] \in Int /\ rep.filled \in Int
      BY <2>3 DEF TypeOK
    <3>2. applied[o] + rep.filled - dbf[o] \in Int
      BY <3>1
    <3> QED
      BY <2>1, <3>2 DEF TypeOK
  <2>5. UNCHANGED <<ord, known, age, xVars>>
    BY <1>8 DEF PollDbError
  <2>6. TableType'
    BY <2>1, <2>3, <2>5 DEF TableType, TypeOK, TerminalStatuses
  <2>7. ASSUME NEW p \in Portfolios, Raise(p) PROVE TypeOK'
    <3>1. xs' \in [OrderIds -> XStatuses]
      BY <2>5 DEF TypeOK
    <3> QED
      BY <2>4, <2>5, <2>6, <2>7, <3>1, RaiseTypeOK
  <2> QED
    BY <2>1, <2>3, <2>7
<1> QED
  BY <1>1, <1>2, <1>3, <1>4, <1>5, <1>6, <1>7, <1>8

\* The order whose cancellation is awaited was issued.
LEMMA SeenIsIssued ==
  ASSUME TypeOK, BatchUntouched, PollsOpen, pc = "cancel"
  PROVE  /\ seen.id \in OrderIds /\ seen.id \in 1 .. Len(ord)
         /\ ord[seen.id] \in OrderRequests /\ seen.filled \in Nat
<1>1. seen.id \in OrderIds /\ db[seen.id] # "none"
  BY DEF PollsOpen
<1>2. seen.id \in 1 .. Len(ord)
  BY <1>1, TouchedIsIssued DEF Untouched
<1> QED
  BY <1>1, <1>2 DEF TypeOK

\* The other steps of poll_and_reconcile preserve the types.
LEMMA PollType == TypeOK /\ BatchUntouched /\ PollsOpen /\ PollNext => TypeOK'
<1> SUFFICES ASSUME TypeOK, BatchUntouched, PollsOpen, PollNext PROVE TypeOK'
  OBVIOUS
<1> USE ExecutionAssumption
<1> USE DEF botVars, dbVars, histVars, xVars
<1>1. ASSUME NEW o \in OrderIds,
             \/ PollFails(o) \/ PollFilled(o) \/ PollPartial(o) \/ PollStale(o)
             \/ PollDead(o) \/ PollNoChange(o) \/ PollRaises(o) \/ PollDbError(o)
      PROVE  TypeOK'
  BY <1>1, PollOneType
<1>2. CASE CancelStale
  <2>1. pc = "cancel" /\ pf \in Portfolios
    BY <1>2 DEF CancelStale, TypeOK
  <2>2. pf' \in Portfolios
    BY <1>2, <2>1, SeenIsIssued, ReleaseReservationType DEF CancelStale
  <2>3. /\ db' \in [OrderIds -> {"none"} \cup OpenStatuses \cup TerminalStatuses]
        /\ xs' \in [OrderIds -> XStatuses]
    BY <1>2, <2>1, SeenIsIssued DEF CancelStale, TypeOK, TerminalStatuses, XStatuses
  <2>4. seen' \in [id : 0 .. Len(ord), filled : Nat]
    BY <1>2 DEF CancelStale, NothingSeen, TypeOK
  <2> QED
    BY <1>2, <2>2, <2>3, <2>4 DEF CancelStale, TypeOK, PCs
<1>3. CASE CancelFails
  <2>1. seen' \in [id : 0 .. Len(ord), filled : Nat]
    BY <1>3 DEF CancelFails, NothingSeen, TypeOK
  <2> QED
    BY <1>3, <2>1 DEF CancelFails, TypeOK, PCs
<1>4. CASE EndPolling
  BY <1>4 DEF EndPolling, TypeOK, PCs
<1>5. CASE SavePortfolioDbError
  <2>1. Raise(pf) /\ UNCHANGED <<ord, dbVars, age, applied, xVars>>
    BY <1>5 DEF SavePortfolioDbError
  <2>2. pf \in Portfolios /\ applied' \in [OrderIds -> Int]
    BY <2>1 DEF TypeOK
  <2> QED
    BY <2>1, <2>2, QuietRaiseType
<1>6. CASE CancelDbError
  <2>1. Raise(pf) /\ UNCHANGED <<ord, dbVars, age, applied, xf, xp, paper>>
    BY <1>6 DEF CancelDbError
  <2>2. TableType' /\ pf \in Portfolios /\ applied' \in [OrderIds -> Int]
    BY <2>1 DEF TableType, TypeOK
  <2>3. xs' \in [OrderIds -> XStatuses]
    BY <1>6 DEF CancelDbError, TypeOK, XStatuses
  <2> QED
    BY <2>1, <2>2, <2>3, RaiseTypeOK
<1> QED
  BY <1>1, <1>2, <1>3, <1>4, <1>5, <1>6 DEF PollNext

\* So do the exchange's, and a crash.
LEMMA ExchangeType == TypeOK /\ BatchUntouched /\ ExchangeNext => TypeOK'
<1> SUFFICES ASSUME TypeOK, BatchUntouched, ExchangeNext PROVE TypeOK'
  OBVIOUS
<1> USE ExecutionAssumption
<1> USE DEF botVars, dbVars, histVars, xVars
<1>1. CASE ExchangeAccepts
  <2>0. cur \in 1 .. Len(ord) /\ Len(ord) \in Nat /\ Len(ord) <= MaxOrders
    BY <1>1 DEF ExchangeAccepts, BatchUntouched, TypeOK
  <2>1. ord[cur] \in OrderRequests
    BY <2>0 DEF TypeOK
  <2>2. ord[cur].qty \in Nat
    BY <2>1 DEF OrderRequests
  <2>3. xs' \in [OrderIds -> XStatuses]
    BY <1>1 DEF ExchangeAccepts, TypeOK, XStatuses
  <2>4. xf' \in [OrderIds -> Nat] /\ xp' \in [OrderIds -> Nat]
    BY <1>1, <2>2 DEF ExchangeAccepts, TypeOK
  <2> QED
    BY <1>1, <2>3, <2>4 DEF ExchangeAccepts, TypeOK
<1>2. ASSUME NEW o \in OrderIds, ExchangeFills(o) PROVE TypeOK'
  <2>1. o \in 1 .. Len(ord)
    BY <1>2, TouchedIsIssued DEF ExchangeFills, Untouched
  <2>2. ord[o].qty \in Nat
    <3>1. ord[o] \in OrderRequests
      BY <2>1 DEF TypeOK
    <3> QED
      BY <3>1 DEF OrderRequests
  <2>3. xs' \in [OrderIds -> XStatuses]
    BY <1>2 DEF ExchangeFills, TypeOK, XStatuses
  <2>4. xf' \in [OrderIds -> Nat]
    <3>1. CASE xf' = [xf EXCEPT ![o] = ord[o].qty]
      BY <3>1, <2>2 DEF TypeOK
    <3>2. ASSUME NEW q \in FillSizes, xf' = [xf EXCEPT ![o] = @ + q]
          PROVE  xf' \in [OrderIds -> Nat]
      <4>1. xf[o] \in Nat /\ q \in Nat
        BY DEF TypeOK
      <4>2. xf[o] + q \in Nat
        BY <4>1
      <4> QED
        BY <3>2, <4>2 DEF TypeOK
    <3> QED
      BY <1>2, <3>1, <3>2 DEF ExchangeFills
  <2> QED
    BY <1>2, <2>3, <2>4 DEF ExchangeFills, TypeOK
<1>3. ASSUME NEW o \in OrderIds, ExchangeDrops(o) PROVE TypeOK'
  <2>1. xs' \in [OrderIds -> XStatuses]
    BY <1>3 DEF ExchangeDrops, TypeOK, XStatuses
  <2> QED
    BY <1>3, <2>1 DEF ExchangeDrops, TypeOK
<1>4. ASSUME NEW o \in OrderIds, OrderAges(o) PROVE TypeOK'
  <2>1. age[o] + 1 \in 0 .. 2
    <3>1. age[o] \in 0 .. 2 /\ age[o] < 2
      BY <1>4 DEF OrderAges, TypeOK
    <3> QED
      BY <3>1
  <2>2. age' \in [OrderIds -> 0 .. 2]
    BY <1>4, <2>1 DEF OrderAges, TypeOK
  <2> QED
    BY <1>4, <2>2 DEF OrderAges, TypeOK
<1> QED
  BY <1>1, <1>2, <1>3, <1>4 DEF ExchangeNext

\* Every step preserves the types.
LEMMA NextType == TypeOK /\ BatchUntouched /\ PollsOpen /\ [Next]_vars => TypeOK'
<1> SUFFICES ASSUME TypeOK, BatchUntouched, PollsOpen, [Next]_vars PROVE TypeOK'
  OBVIOUS
<1>1. CASE Crash
  <2>1. /\ seen' \in [id : 0 .. Len(ord), filled : Nat]
        /\ Len(ord) \in Nat /\ InitPortfolio \in Portfolios
    BY <1>1, ExecutionAssumption DEF Crash, NothingSeen, TypeOK
  <2> QED
    BY <1>1, <2>1 DEF Crash, TypeOK, PCs, dbVars, histVars, xVars
<1>2. CASE UNCHANGED vars
  BY <1>2 DEF vars, botVars, dbVars, histVars, xVars, TypeOK
<1> QED
  BY <1>1, <1>2, CycleType, PlaceType, PollType, ExchangeType DEF Next
-----------------------------------------------------------------------------
\* A row nothing happens to stays right.
LEMMA RowKept ==
  ASSUME TypeOK, BatchUntouched, NEW o \in OrderIds, RowOK(o),
         db'[o] = db[o], known'[o] = known[o], xs'[o] = xs[o], xf'[o] = xf[o],
         paper' = paper, o \in 1 .. Len(ord) => ord'[o] = ord[o]
  PROVE  RowOK(o)'
<1>1. CASE Untouched(o)
  BY <1>1 DEF RowOK, Untouched, IsOpen, OpenStatuses
<1>2. CASE ~Untouched(o)
  <2>1. ord'[o] = ord[o]
    BY <1>2, TouchedIsIssued
  <2> QED
    BY <2>1 DEF RowOK, IsOpen
<1> QED
  BY <1>1, <1>2

\* The batch moves on, and what was untouched stays so.
LEMMA BatchMoves ==
  ASSUME TypeOK, BatchUntouched, pc' # "sent",
         \/ cur' = cur /\ pc # "sent"
         \/ cur' = cur + 1
         \/ cur' = Len(ord) + 1,
         \A o \in OrderIds : Untouched(o) => Untouched(o)'
  PROVE  BatchUntouched'
<1> SUFFICES ASSUME NEW o \in OrderIds, o >= cur' PROVE Untouched(o)
  BY DEF BatchUntouched
<1>1. /\ o \in Nat /\ cur \in Nat /\ Len(ord) \in Nat
      /\ cur <= Len(ord) + 1
  BY ExecutionAssumption DEF OrderIds, TypeOK
<1>2. CASE cur' = Len(ord) + 1
  <2>1. o \notin 1 .. Len(ord)
    BY <1>1, <1>2
  <2> QED
    BY <2>1, TouchedIsIssued
<1>3. CASE cur' = cur + 1
  BY <1>1, <1>3 DEF BatchUntouched
<1>4. CASE cur' = cur /\ pc # "sent"
  BY <1>1, <1>4 DEF BatchUntouched
<1> QED
  BY <1>2, <1>3, <1>4

\* A step of the bot alone that touches no row.
LEMMA QuietStep ==
  ASSUME TypeOK, BatchUntouched, Rows, UNCHANGED <<db, known, xVars>>, pc' # "sent",
         \/ cur' = cur /\ pc # "sent"
         \/ cur' = cur + 1
         \/ cur' = Len(ord) + 1,
         \A o \in 1 .. Len(ord) : ord'[o] = ord[o]
  PROVE  BatchUntouched' /\ Rows'
<1> USE DEF dbVars, xVars
<1>1. BatchUntouched'
  BY BatchMoves DEF Untouched
<1>2. ASSUME NEW o \in OrderIds PROVE RowOK(o)'
  BY RowKept DEF Rows
<1> QED
  BY <1>1, <1>2 DEF Rows

\* An exception after which no row has changed.
LEMMA RaiseStep ==
  ASSUME TypeOK, BatchUntouched, Rows, NEW p, Raise(p),
         UNCHANGED <<ord, db, known, xVars>>
  PROVE  BatchUntouched' /\ PollsOpen' /\ Rows'
<1>1. cur' = Len(ord) + 1 /\ polls' = {} /\ pc' \in {"stops", "hooks"}
  BY DEF Raise
<1>2. PollsOpen'
  BY <1>1 DEF PollsOpen
<1> QED
  BY <1>1, <1>2, QuietStep

\* Appending a request leaves the earlier ones alone.
LEMMA AppendKeeps ==
  ASSUME TypeOK, NEW r, ord' = Append(ord, r)
  PROVE  \A o \in 1 .. Len(ord) : ord'[o] = ord[o]
  BY DEF TypeOK

\* The cycle's own steps touch no row; a poll starts with the open ones.
LEMMA CycleStep == IInv /\ CycleNext => BatchUntouched' /\ PollsOpen' /\ Rows'
<1> SUFFICES ASSUME TypeOK, BatchUntouched, PollsOpen, Rows, CycleNext
             PROVE  BatchUntouched' /\ PollsOpen' /\ Rows'
  BY DEF IInv
<1> USE DEF dbVars
<1>1. CASE StartCycle
  <2>1. PollsOpen'
    BY <1>1 DEF StartCycle, PollsOpen
  <2> QED
    BY <1>1, <2>1, QuietStep DEF StartCycle
<1>2. ASSUME NEW r \in Requests, Reserve(r)
      PROVE  BatchUntouched' /\ PollsOpen' /\ Rows'
  <2>1. PollsOpen'
    BY <1>2 DEF Reserve, PollsOpen
  <2>2. \A o \in 1 .. Len(ord) : ord'[o] = ord[o]
    BY <1>2, AppendKeeps DEF Reserve
  <2> QED
    BY <1>2, <2>1, <2>2, QuietStep DEF Reserve
<1>3. CASE RunExecution
  <2>1. PollsOpen'
    BY <1>3 DEF RunExecution, PollsOpen
  <2> QED
    BY <1>3, <2>1, QuietStep DEF RunExecution
<1>4. CASE SkipExecution
  <2>1. PollsOpen'
    BY <1>4 DEF SkipExecution, PollsOpen
  <2> QED
    BY <1>4, <2>1, QuietStep DEF SkipExecution
<1>5. CASE PollOnlyCycle
  <2>1. PollsOpen'
    BY <1>5 DEF PollOnlyCycle, PollsOpen, OpenOrders, IsOpen, dbVars
  <2> QED
    BY <1>5, <2>1, QuietStep DEF PollOnlyCycle
<1>6. CASE CheckStopLosses
  <2>1. PollsOpen'
    BY <1>6 DEF CheckStopLosses, PollsOpen
  <2> QED
    BY <1>6, <2>1, QuietStep DEF CheckStopLosses
<1>7. CASE EndCycle
  <2>1. PollsOpen'
    BY <1>7 DEF EndCycle, PollsOpen
  <2> QED
    BY <1>7, <2>1, QuietStep DEF EndCycle
<1>8. ASSUME NEW s \in Symbols, StopLoss(s)
      PROVE  BatchUntouched' /\ PollsOpen' /\ Rows'
  <2>1. PollsOpen'
    BY <1>8 DEF StopLoss, PollsOpen
  <2>2. \A o \in 1 .. Len(ord) : ord'[o] = ord[o]
    BY <1>8, AppendKeeps DEF StopLoss
  <2> QED
    BY <1>8, <2>1, <2>2, QuietStep DEF StopLoss
<1> QED
  BY <1>1, <1>2, <1>3, <1>4, <1>5, <1>6, <1>7, <1>8 DEF CycleNext

\* create_order's reply, booked in the row it is about.
LEMMA FinalizeRow ==
  ASSUME TypeOK, NEW o \in OrderIds, RowOK(o), xs[o] # "none", Finalize(o),
         UNCHANGED <<ord, xVars>>
  PROVE  RowOK(o)'
<1>1. db'[o] = Replied(o) /\ known'[o] = TRUE
  BY DEF Finalize, TypeOK
<1>2. xs[o] \in {"open", "closed", "canceled", "rejected"}
  BY DEF TypeOK, XStatuses
<1> QED
  BY <1>1, <1>2 DEF RowOK, Replied, IsOpen, xVars

\* Placing an order changes the row of that order alone.
LEMMA PlaceStep == IInv /\ PlaceNext => BatchUntouched' /\ PollsOpen' /\ Rows'
<1> SUFFICES ASSUME TypeOK, BatchUntouched, PollsOpen, Rows, PlaceNext
             PROVE  BatchUntouched' /\ PollsOpen' /\ Rows'
  BY DEF IInv
<1> USE DEF dbVars, xVars
<1>a. ASSUME cur <= Len(ord) PROVE cur \in OrderIds /\ cur \in 1 .. Len(ord)
  <2>1. Len(ord) \in Nat /\ cur \in Nat /\ cur >= 1 /\ Len(ord) <= MaxOrders
    BY DEF TypeOK
  <2> QED
    BY <1>a, <2>1, ExecutionAssumption DEF OrderIds
<1>1. CASE RejectInvalid
  <2>1. PollsOpen'
    BY <1>1 DEF RejectInvalid, PollsOpen
  <2> QED
    BY <1>1, <2>1, QuietStep DEF RejectInvalid
<1>2. CASE SavePending
  <2>1. cur \in OrderIds /\ cur <= Len(ord) /\ Untouched(cur) /\ pc = "place"
    BY <1>2, <1>a DEF SavePending, BatchUntouched, TypeOK
  <2>2. PollsOpen'
    BY <1>2 DEF SavePending, PollsOpen
  <2>3. Len(ord') = Len(ord) /\ \A o \in OrderIds \ {cur} : ord'[o] = ord[o] /\ db'[o] = db[o]
    BY <1>2 DEF SavePending, TypeOK
  <2>4. BatchUntouched'
    BY <1>2, <2>1, <2>3 DEF SavePending, BatchUntouched, Untouched, TypeOK
  <2>5. ASSUME NEW o \in OrderIds, o # cur PROVE RowOK(o)'
    BY <2>5, <1>2, <2>3, RowKept DEF SavePending, Rows
  <2>6. ASSUME NEW o \in OrderIds, o = cur PROVE RowOK(o)'
    BY <2>6, <1>2, <2>1 DEF SavePending, Untouched, RowOK, TypeOK
  <2> QED
    BY <2>2, <2>4, <2>5, <2>6 DEF Rows
<1>3. CASE PlaceDbError
  BY <1>3, RaiseStep DEF PlaceDbError
<1>4. CASE Placed
  <2>1. cur \in OrderIds /\ pc = "sent" /\ xs[cur] # "none"
    BY <1>4, <1>a DEF Placed, BatchUntouched
  <2>2. PollsOpen'
    BY <1>4 DEF Placed, PollsOpen
  <2>3. \A o \in OrderIds \ {cur} : db'[o] = db[o] /\ known'[o] = known[o]
    BY <1>4 DEF Placed, Finalize, TypeOK
  <2>4. BatchUntouched'
    <3>1. \A o \in OrderIds : Untouched(o) => Untouched(o)'
      BY <1>4, <2>1, <2>3 DEF Placed, Untouched
    <3> QED
      BY <1>4, <3>1, BatchMoves DEF Placed
  <2>5. ASSUME NEW o \in OrderIds, o # cur PROVE RowOK(o)'
    BY <2>5, <1>4, <2>3, RowKept DEF Placed, Rows
  <2>6. ASSUME NEW o \in OrderIds, o = cur PROVE RowOK(o)'
    BY <2>6, <1>4, <2>1, FinalizeRow DEF Placed, Rows
  <2> QED
    BY <2>2, <2>4, <2>5, <2>6 DEF Rows
<1>5. CASE PlacedRaises
  <2>1. cur \in OrderIds /\ pc = "sent" /\ xs[cur] # "none"
    BY <1>5, <1>a DEF PlacedRaises, BatchUntouched
  <2>2. polls' = {} /\ cur' = Len(ord) + 1 /\ pc' \in {"stops", "hooks"}
    BY <1>5 DEF PlacedRaises, Raise
  <2>3. \A o \in OrderIds \ {cur} : db'[o] = db[o] /\ known'[o] = known[o]
    BY <1>5 DEF PlacedRaises, Finalize, TypeOK
  <2>4. BatchUntouched'
    <3>1. \A o \in OrderIds : Untouched(o) => Untouched(o)'
      BY <1>5, <2>1, <2>3 DEF PlacedRaises, Untouched
    <3> QED
      BY <2>2, <3>1, BatchMoves
  <2>5. ASSUME NEW o \in OrderIds, o # cur PROVE RowOK(o)'
    BY <2>5, <1>5, <2>3, RowKept DEF PlacedRaises, Rows
  <2>6. ASSUME NEW o \in OrderIds, o = cur PROVE RowOK(o)'
    BY <2>6, <1>5, <2>1, FinalizeRow DEF PlacedRaises, Rows
  <2>7. PollsOpen'
    BY <2>2 DEF PollsOpen
  <2> QED
    BY <2>4, <2>5, <2>6, <2>7 DEF Rows
<1>6. CASE FinalizeDbError
  BY <1>6, RaiseStep DEF FinalizeDbError
<1>7. ASSUME Refused, pc' # "sent", cur' = cur + 1 \/ cur' = Len(ord) + 1
      PROVE  BatchUntouched' /\ Rows'
  <2>1. cur \in OrderIds /\ db[cur] = "pending" /\ pc = "sent"
    BY <1>7, <1>a DEF Refused, BatchUntouched
  <2>2. db'[cur] = "rejected" /\ \A o \in OrderIds \ {cur} : db'[o] = db[o]
    BY <1>7, <2>1 DEF Refused, TypeOK
  <2>3. BatchUntouched'
    <3>1. \A o \in OrderIds : Untouched(o) => Untouched(o)'
      BY <1>7, <2>1, <2>2 DEF Refused, Untouched
    <3> QED
      BY <1>7, <3>1, BatchMoves
  <2>4. ASSUME NEW o \in OrderIds, o # cur PROVE RowOK(o)'
    BY <2>4, <1>7, <2>2, RowKept DEF Refused, Rows
  <2>5. ASSUME NEW o \in OrderIds, o = cur PROVE RowOK(o)'
    BY <2>5, <1>7, <2>1, <2>2 DEF Refused, Rows, RowOK, IsOpen, OpenStatuses
  <2> QED
    BY <2>3, <2>4, <2>5 DEF Rows
<1>8. CASE CreateRaises
  <2>1. PollsOpen'
    BY <1>8 DEF CreateRaises, Refused, PollsOpen
  <2> QED
    BY <1>7, <1>8, <2>1 DEF CreateRaises
<1>9. CASE RefusedDbError
  <2>1. polls' = {} /\ cur' = Len(ord) + 1 /\ pc' \in {"stops", "hooks"}
    BY <1>9 DEF RefusedDbError, Raise
  <2>2. PollsOpen'
    BY <2>1 DEF PollsOpen
  <2> QED
    BY <1>7, <1>9, <2>1, <2>2 DEF RefusedDbError
<1>10. CASE OpenOrdersDbError
  BY <1>10, RaiseStep DEF OpenOrdersDbError
<1>11. CASE EndPlacing
  <2>1. PollsOpen'
    BY <1>11 DEF EndPlacing, PollsOpen, OpenOrders, IsOpen
  <2> QED
    BY <1>11, <2>1, QuietStep DEF EndPlacing
<1> QED
  BY <1>1, <1>2, <1>3, <1>4, <1>5, <1>6, <1>8, <1>9, <1>10, <1>11 DEF PlaceNext

\* A step, outside the placement of an order, that changes one row.
LEMMA OneRowStep ==
  ASSUME TypeOK, BatchUntouched, Rows, NEW o \in OrderIds, ~Untouched(o), RowOK(o)',
         \A x \in OrderIds : x # o => /\ db'[x] = db[x] /\ known'[x] = known[x]
                                      /\ xs'[x] = xs[x] /\ xf'[x] = xf[x],
         UNCHANGED <<ord, paper>>, pc' # "sent",
         (cur' = cur /\ pc # "sent") \/ cur' = Len(ord) + 1
  PROVE  BatchUntouched' /\ Rows'
<1>1. \A x \in OrderIds : Untouched(x) => Untouched(x)'
  BY DEF Untouched
<1>2. BatchUntouched'
  BY <1>1, BatchMoves
<1>3. ASSUME NEW x \in OrderIds, x # o PROVE RowOK(x)'
  BY <1>3, RowKept DEF Rows
<1> QED
  BY <1>2, <1>3 DEF Rows

\* A poll changes the row of the order it asks about, or none.
LEMMA PollOneStep ==
  ASSUME IInv, NEW o \in OrderIds,
         \/ PollFails(o) \/ PollFilled(o) \/ PollPartial(o) \/ PollStale(o)
         \/ PollDead(o) \/ PollNoChange(o) \/ PollRaises(o) \/ PollDbError(o)
  PROVE  BatchUntouched' /\ PollsOpen' /\ Rows'
<1> TypeOK /\ BatchUntouched /\ PollsOpen /\ Rows
  BY DEF IInv
<1> USE DEF dbVars, xVars
<1>a. ASSUME Polling(o)
      PROVE  /\ ord[o] \in OrderRequests /\ pc = "poll" /\ o \in polls
             /\ IsOpen(o) /\ ~Untouched(o) /\ RowOK(o)
             /\ ~paper => known[o] = TRUE /\ db[o] \in {"open", "partially_filled"}
  <2>1. ord[o] \in OrderRequests /\ pc = "poll" /\ o \in polls /\ (~paper => known[o])
    BY <1>a, PolledIsIssued DEF Polling
  <2>2. IsOpen(o) /\ ~Untouched(o) /\ RowOK(o)
    BY <2>1 DEF PollsOpen, Rows, Untouched, IsOpen, OpenStatuses
  <2>3. known[o] \in BOOLEAN
    BY DEF TypeOK
  <2> QED
    BY <2>1, <2>2, <2>3 DEF RowOK, IsOpen, OpenStatuses
<1>1. CASE PollFails(o)
  <2>1. PollsOpen'
    BY <1>1 DEF PollFails, PollsOpen, IsOpen
  <2> QED
    BY <1>1, <2>1, QuietStep DEF PollFails
<1>2. CASE PollFilled(o)
  <2>1. PICK rep \in Report(o) : rep.status = "closed"
    BY <1>2 DEF PollFilled
  <2>2. paper \/ xs[o] = "closed"
    BY <1>2, <1>a, <2>1, ReportedStatus DEF PollFilled
  <2>3. db'[o] = "filled" /\ \A x \in OrderIds : x # o => db'[x] = db[x]
    BY <1>2 DEF PollFilled, TypeOK
  <2>4. RowOK(o)'
    BY <1>2, <1>a, <2>2, <2>3 DEF PollFilled, RowOK, IsOpen, OpenStatuses
  <2>5. PollsOpen'
    BY <1>2, <1>a, <2>3 DEF PollFilled, PollsOpen, IsOpen, TypeOK
  <2> QED
    BY <1>2, <1>a, <2>3, <2>4, <2>5, OneRowStep DEF PollFilled
<1>3. CASE PollPartial(o)
  <2>1. PICK rep \in Report(o) : rep.status = "partially_filled" /\ rep.filled > dbf[o]
    BY <1>3 DEF PollPartial, NewFill
  <2>2. ~paper /\ xs[o] = "open"
    BY <1>3, <1>a, <2>1, ReportedStatus DEF PollPartial
  <2>7. xf[o] > 0
    <3>0. ord[o] \in OrderRequests
      BY <1>3, <1>a DEF PollPartial
    <3>1. rep.filled = xf[o] /\ rep.filled \in Nat
      BY <2>2, <3>0, ReportFacts
    <3>2. dbf[o] \in Nat
      BY DEF TypeOK
    <3> QED
      BY ONLY <2>1, <3>1, <3>2
  <2>3. db'[o] = "partially_filled" /\ \A x \in OrderIds : x # o => db'[x] = db[x]
    BY <1>3 DEF PollPartial, TypeOK
  <2>4. RowOK(o)'
    BY <1>3, <1>a, <2>2, <2>3, <2>7 DEF PollPartial, RowOK, IsOpen, OpenStatuses
  <2>5. pc' = "cancel" => seen'.id = o
    BY <1>3 DEF PollPartial
  <2>6. PollsOpen'
    BY <1>3, <1>a, <2>3, <2>5 DEF PollPartial, PollsOpen, IsOpen, TypeOK
  <2> QED
    BY <1>3, <1>a, <2>3, <2>4, <2>6, OneRowStep DEF PollPartial
<1>4. CASE PollStale(o)
  <2>1. PICK rep \in Report(o) : rep.status = "open"
    BY <1>4 DEF PollStale
  <2>2. ~paper
    BY <1>4, <1>a, <2>1, ReportFacts DEF PollStale
  <2>3. PollsOpen'
    BY <1>4, <1>a, <2>2 DEF PollStale, PollsOpen, IsOpen
  <2> QED
    BY <1>4, <1>a, <2>3, QuietStep DEF PollStale
<1>5. CASE PollDead(o)
  <2>1. PICK rep \in Report(o) : rep.status \in {"canceled", "rejected"}
    BY <1>5 DEF PollDead
  <2>2. ~paper /\ xs[o] = rep.status
    BY <1>5, <1>a, <2>1, ReportedStatus DEF PollDead
  <2>3. db'[o] = Replied(o) /\ \A x \in OrderIds : x # o => db'[x] = db[x]
    BY <1>5 DEF PollDead, TypeOK
  <2>4. RowOK(o)'
    BY <1>5, <1>a, <2>1, <2>2, <2>3 DEF PollDead, RowOK, IsOpen, OpenStatuses, Replied
  <2>5. PollsOpen'
    BY <1>5, <1>a, <2>3 DEF PollDead, PollsOpen, IsOpen, TypeOK
  <2> QED
    BY <1>5, <1>a, <2>3, <2>4, <2>5, OneRowStep DEF PollDead
<1>6. CASE PollNoChange(o)
  <2>1. PollsOpen'
    BY <1>6, <1>a DEF PollNoChange, PollsOpen, IsOpen
  <2> QED
    BY <1>6, <1>a, <2>1, QuietStep DEF PollNoChange
<1>7. CASE PollRaises(o)
  BY <1>7, RaiseStep DEF PollRaises
<1>8. CASE PollDbError(o)
  <2>1. PICK p : Raise(p)
    BY <1>8 DEF PollDbError
  <2>2. CASE UNCHANGED db
    <3>1. UNCHANGED <<ord, db, known, xVars>>
      BY <1>8, <2>2 DEF PollDbError
    <3> QED
      BY <2>1, <3>1, RaiseStep
  <2>3. CASE db' # db
    <3>1. PICK rep \in Report(o) : rep.status = "closed" /\ db' = [db EXCEPT ![o] = "filled"]
      BY <1>8, <2>3 DEF PollDbError
    <3>2. paper \/ xs[o] = "closed"
      BY <1>8, <1>a, <3>1, ReportedStatus DEF PollDbError
    <3>3. db'[o] = "filled" /\ \A x \in OrderIds : x # o => db'[x] = db[x]
      BY <3>1 DEF TypeOK
    <3>4. UNCHANGED <<ord, known, xVars>> /\ ~Untouched(o) /\ RowOK(o)
      BY <1>8, <1>a DEF PollDbError
    <3>5. RowOK(o)'
      BY <3>2, <3>3, <3>4 DEF RowOK, IsOpen, OpenStatuses
    <3>6. polls' = {} /\ cur' = Len(ord) + 1 /\ pc' \in {"stops", "hooks"}
      BY <2>1 DEF Raise
    <3>7. BatchUntouched' /\ Rows'
      BY <3>3, <3>4, <3>5, <3>6, OneRowStep
    <3> QED
      BY <3>6, <3>7 DEF PollsOpen
  <2> QED
    BY <2>2, <2>3
<1> QED
  BY <1>1, <1>2, <1>3, <1>4, <1>5, <1>6, <1>7, <1>8

\* So does a cancellation.
LEMMA PollStep == IInv /\ PollNext => BatchUntouched' /\ PollsOpen' /\ Rows'
<1> SUFFICES ASSUME IInv, PollNext PROVE BatchUntouched' /\ PollsOpen' /\ Rows'
  OBVIOUS
<1> TypeOK /\ BatchUntouched /\ PollsOpen /\ Rows
  BY DEF IInv
<1> USE DEF dbVars, xVars
<1>1. ASSUME NEW o \in OrderIds,
             \/ PollFails(o) \/ PollFilled(o) \/ PollPartial(o) \/ PollStale(o)
             \/ PollDead(o) \/ PollNoChange(o) \/ PollRaises(o) \/ PollDbError(o)
      PROVE  BatchUntouched' /\ PollsOpen' /\ Rows'
  BY <1>1, PollOneStep
<1>2. CASE CancelStale
  <2>1. PICK o \in OrderIds : o = seen.id
    BY <1>2 DEF CancelStale, PollsOpen
  <2>2. o \notin polls /\ xs[o] = "open" /\ ~Untouched(o)
    BY <1>2, <2>1 DEF CancelStale, PollsOpen, Untouched
  <2>3. /\ db'[o] = "cancelled" /\ xs'[o] = "canceled"
        /\ \A x \in OrderIds : x # o => db'[x] = db[x] /\ xs'[x] = xs[x]
    BY <1>2, <2>1 DEF CancelStale, TypeOK
  <2>4. RowOK(o)'
    BY <2>3 DEF RowOK, IsOpen, OpenStatuses
  <2>5. PollsOpen'
    BY <1>2, <2>2, <2>3 DEF CancelStale, PollsOpen, IsOpen, TypeOK
  <2> QED
    BY <1>2, <2>2, <2>3, <2>4, <2>5, OneRowStep DEF CancelStale
<1>3. CASE CancelFails
  <2>1. PollsOpen'
    BY <1>3 DEF CancelFails, PollsOpen, IsOpen
  <2> QED
    BY <1>3, <2>1, QuietStep DEF CancelFails
<1>4. CASE EndPolling
  <2>1. PollsOpen'
    BY <1>4 DEF EndPolling, PollsOpen
  <2> QED
    BY <1>4, <2>1, QuietStep DEF EndPolling
<1>5. CASE SavePortfolioDbError
  BY <1>5, RaiseStep DEF SavePortfolioDbError
<1>6. CASE CancelDbError
  <2>1. PICK o \in OrderIds : o = seen.id
    BY <1>6 DEF CancelDbError, PollsOpen
  <2>2. ~Untouched(o) /\ IsOpen(o) /\ RowOK(o)
    BY <1>6, <2>1 DEF CancelDbError, PollsOpen, Untouched, IsOpen, OpenStatuses, Rows
  <2>3. xs'[o] = "canceled" /\ \A x \in OrderIds : x # o => xs'[x] = xs[x]
    BY <1>6, <2>1 DEF CancelDbError, TypeOK
  <2>4. UNCHANGED <<ord, db, known, xf, paper>>
    BY <1>6 DEF CancelDbError
  <2>5. RowOK(o)'
    BY <2>2, <2>3, <2>4 DEF RowOK, IsOpen, OpenStatuses
  <2>6. polls' = {} /\ cur' = Len(ord) + 1 /\ pc' \in {"stops", "hooks"}
    BY <1>6 DEF CancelDbError, Raise
  <2>7. BatchUntouched' /\ Rows'
    BY <2>2, <2>3, <2>4, <2>5, <2>6, OneRowStep
  <2> QED
    BY <2>6, <2>7 DEF PollsOpen
<1> QED
  BY <1>1, <1>2, <1>3, <1>4, <1>5, <1>6 DEF PollNext

\* The exchange changes only orders that reached it.
LEMMA ExchangeStep == IInv /\ ExchangeNext => BatchUntouched' /\ PollsOpen' /\ Rows'
<1> SUFFICES ASSUME IInv, ExchangeNext PROVE BatchUntouched' /\ PollsOpen' /\ Rows'
  OBVIOUS
<1> TypeOK /\ BatchUntouched /\ PollsOpen /\ Rows
  BY DEF IInv
<1> USE DEF botVars, dbVars, xVars
<1>0. UNCHANGED <<botVars, dbVars, paper>>
  BY DEF ExchangeNext, ExchangeAccepts, ExchangeFills, ExchangeDrops, OrderAges
<1>1. PollsOpen'
  BY <1>0 DEF PollsOpen, IsOpen
<1>2. ASSUME NEW o \in OrderIds, RowOK(o)',
             o >= cur /\ ~(pc = "sent" /\ o = cur) => Untouched(o)',
             \A x \in OrderIds : x # o => xs'[x] = xs[x] /\ xf'[x] = xf[x]
      PROVE  BatchUntouched' /\ Rows'
  <2>1. BatchUntouched'
    BY <1>0, <1>2 DEF BatchUntouched, Untouched
  <2>2. ASSUME NEW x \in OrderIds, x # o PROVE RowOK(x)'
    BY <1>0, <1>2, <2>2, RowKept DEF Rows
  <2> QED
    BY <1>2, <2>1, <2>2 DEF Rows
<1>3. CASE ExchangeAccepts
  <2>1. cur \in 1 .. Len(ord) /\ Len(ord) \in Nat /\ Len(ord) <= MaxOrders
    BY <1>3 DEF ExchangeAccepts, BatchUntouched, TypeOK
  <2>2. PICK o \in OrderIds : o = cur
    BY <2>1, ExecutionAssumption DEF OrderIds
  <2>3. pc = "sent" /\ db[o] = "pending" /\ RowOK(o)
    BY <1>3, <2>2 DEF ExchangeAccepts, BatchUntouched, Rows
  <2>4. /\ xs'[o] = "closed" => xf'[o] = ord[o].qty
        /\ \A x \in OrderIds : x # o => xs'[x] = xs[x] /\ xf'[x] = xf[x]
    BY <1>3, <2>2 DEF ExchangeAccepts, TypeOK
  <2>5. RowOK(o)'
    BY <1>0, <2>3, <2>4 DEF RowOK, IsOpen
  <2> QED
    BY <1>1, <1>2, <2>2, <2>3, <2>4, <2>5
<1>4. ASSUME NEW o \in OrderIds, xs[o] = "open", RowOK(o)',
             \A x \in OrderIds : x # o => xs'[x] = xs[x] /\ xf'[x] = xf[x]
      PROVE  BatchUntouched' /\ Rows'
  <2>1. ~(o >= cur /\ ~(pc = "sent" /\ o = cur))
    BY <1>4 DEF BatchUntouched, Untouched
  <2> QED
    BY <1>2, <1>4, <2>1
<1>5. ASSUME NEW o \in OrderIds, ExchangeFills(o) PROVE BatchUntouched' /\ Rows'
  <2>1. xs[o] = "open" /\ RowOK(o)
    BY <1>5 DEF ExchangeFills, Rows
  <2>2. /\ xs'[o] = "open" \/ (xs'[o] = "closed" /\ xf'[o] = ord[o].qty)
        /\ \A x \in OrderIds : x # o => xs'[x] = xs[x] /\ xf'[x] = xf[x]
    BY <1>5 DEF ExchangeFills, TypeOK
  <2>4. xs'[o] = "open" /\ xf[o] > 0 => xf'[o] > 0
    <3>1. xs'[o] = "open" => \E q \in FillSizes : xf'[o] = xf[o] + q
      BY <1>5, <2>1 DEF ExchangeFills, TypeOK
    <3>2. FillSizes \subseteq Nat /\ xf[o] \in Nat
      BY ExecutionAssumption DEF TypeOK
    <3> QED
      BY ONLY <3>1, <3>2
  <2>3. RowOK(o)'
    BY <1>0, <2>1, <2>2, <2>4 DEF RowOK, IsOpen
  <2> QED
    BY <1>4, <2>1, <2>2, <2>3
<1>6. ASSUME NEW o \in OrderIds, ExchangeDrops(o) PROVE BatchUntouched' /\ Rows'
  <2>1. xs[o] = "open" /\ RowOK(o)
    BY <1>6 DEF ExchangeDrops, Rows
  <2>2. /\ xs'[o] = "canceled" \/ (xs'[o] = "rejected" /\ xf[o] = 0)
        /\ \A x \in OrderIds : x # o => xs'[x] = xs[x] /\ xf'[x] = xf[x]
    BY <1>6 DEF ExchangeDrops, TypeOK
  <2>3. RowOK(o)'
    BY <1>0, <2>1, <2>2 DEF RowOK, IsOpen
  <2> QED
    BY <1>4, <2>1, <2>2, <2>3
<1>7. ASSUME NEW o \in OrderIds, OrderAges(o) PROVE BatchUntouched' /\ Rows'
  <2>1. UNCHANGED xVars
    BY <1>7 DEF OrderAges
  <2> QED
    BY <1>0, <2>1 DEF BatchUntouched, Untouched, Rows, RowOK, IsOpen
<1> QED
  BY <1>1, <1>3, <1>5, <1>6, <1>7 DEF ExchangeNext
-----------------------------------------------------------------------------
\* Every step preserves the invariant.
LEMMA NextIInv == IInv /\ [Next]_vars => IInv'
<1> SUFFICES ASSUME IInv, [Next]_vars PROVE IInv'
  OBVIOUS
<1> TypeOK /\ BatchUntouched /\ PollsOpen /\ Rows
  BY DEF IInv
<1>1. TypeOK'
  BY NextType
<1>2. BatchUntouched' /\ PollsOpen' /\ Rows'
  <2>1. CASE Crash
    <3>1. PollsOpen'
      BY <2>1 DEF Crash, PollsOpen
    <3> QED
      BY <2>1, <3>1, QuietStep DEF Crash, dbVars
  <2>2. CASE UNCHANGED vars
    BY <2>2 DEF vars, botVars, dbVars, histVars, xVars, BatchUntouched, Untouched,
                PollsOpen, Rows, RowOK, IsOpen
  <2> QED
    BY <2>1, <2>2, CycleStep, PlaceStep, PollStep, ExchangeStep DEF Next
<1> QED
  BY <1>1, <1>2 DEF IInv

\* So the invariant holds in every reachable state.
LEMMA Inductive == Spec => []IInv
  BY InitIInv, NextIInv, PTL DEF Spec

\* The variables stay in their types, whatever the requests, faults and bounds.
THEOREM ExecutionTypeCorrect == Spec => []TypeOK
<1>1. IInv => TypeOK
  BY DEF IInv
<1> QED
  BY <1>1, Inductive, PTL

\* An order recorded as filled was entirely filled by the exchange.
THEOREM FilledOrdersAreClosed == Spec => []FilledIsClosed
<1>1. IInv => FilledIsClosed
  BY DEF IInv, Rows, RowOK, FilledIsClosed
<1> QED
  BY <1>1, Inductive, PTL

\* An order recorded as cancelled is dead at the exchange, although it may fill
\* in part, or be dropped, while its cancellation is awaited.
THEOREM CancelledOrdersAreDead == Spec => []CancelledIsDead
<1>1. IInv => CancelledIsDead
  BY DEF IInv, Rows, RowOK, CancelledIsDead
<1> QED
  BY <1>1, Inductive, PTL
-----------------------------------------------------------------------------
\* One entry of the status column moves along an edge of the life cycle.
LEMMA AdvanceStep ==
  ASSUME TypeOK, NEW o \in OrderIds, NEW st, db' = [db EXCEPT ![o] = st],
         st = db[o] \/ st \in Lifecycle!Successors(db[o])
  PROVE  [Lifecycle!Next]_db
<1>1. CASE st = db[o]
  BY <1>1 DEF TypeOK
<1>2. CASE st \in Lifecycle!Successors(db[o])
  BY <1>2 DEF Lifecycle!Next, Lifecycle!Advance
<1> QED
  BY <1>1, <1>2

\* Every step of the program maps to a step of the life cycle or a stutter.
LEMMA StepRefines == IInv /\ [Next]_vars => [Lifecycle!Next]_db
<1> SUFFICES ASSUME IInv, [Next]_vars PROVE [Lifecycle!Next]_db
  OBVIOUS
<1> TypeOK /\ BatchUntouched /\ PollsOpen /\ Rows
  BY DEF IInv
<1> USE DEF dbVars
<1>a. ASSUME cur <= Len(ord) PROVE cur \in OrderIds
  <2>1. Len(ord) \in Nat /\ cur \in Nat /\ cur >= 1 /\ Len(ord) <= MaxOrders
    BY DEF TypeOK
  <2> QED
    BY <1>a, <2>1, ExecutionAssumption DEF OrderIds
<1>1. CASE CycleNext
  BY <1>1 DEF CycleNext, StartCycle, Reserve, RunExecution, SkipExecution, PollOnlyCycle,
              CheckStopLosses, EndCycle, StopLoss
<1>2. CASE PlaceNext
  <2>1. CASE UNCHANGED db
    BY <2>1
  <2>2. CASE SavePending
    <3>1. cur \in OrderIds /\ db[cur] = "none"
      BY <2>2, <1>a DEF SavePending, BatchUntouched, Untouched, TypeOK
    <3> QED
      BY <2>2, <3>1, AdvanceStep
         DEF SavePending, Lifecycle!Successors, Lifecycle!Documented, Lifecycle!Undocumented
  <2>3. ASSUME pc = "sent", xs[cur] # "none", Finalize(cur) PROVE [Lifecycle!Next]_db
    <3>1. cur \in OrderIds /\ db[cur] = "pending" /\ xs[cur] \in XStatuses
      BY <2>3, <1>a DEF BatchUntouched, TypeOK
    <3>2. Replied(cur) \in {"open", "filled", "cancelled", "rejected"}
      BY <2>3, <3>1 DEF Replied, XStatuses
    <3>3. Replied(cur) \in Lifecycle!Successors(db[cur])
      BY <3>1, <3>2 DEF Lifecycle!Successors, Lifecycle!Documented, Lifecycle!Undocumented
    <3> QED
      BY <2>3, <3>1, <3>3, AdvanceStep DEF Finalize
  <2>4. CASE CreateRaises \/ RefusedDbError
    <3>1. Refused
      BY <2>4 DEF CreateRaises, RefusedDbError
    <3>2. cur \in OrderIds /\ db[cur] = "pending"
      BY <3>1, <1>a DEF Refused, BatchUntouched
    <3> QED
      BY <3>1, <3>2, AdvanceStep
         DEF Refused, Lifecycle!Successors, Lifecycle!Documented, Lifecycle!Undocumented
  <2>5. CASE Placed \/ PlacedRaises
    BY <2>3, <2>5 DEF Placed, PlacedRaises
  <2> QED
    BY <1>2, <2>1, <2>2, <2>4, <2>5
    DEF PlaceNext, RejectInvalid, PlaceDbError, FinalizeDbError, EndPlacing, OpenOrdersDbError
<1>3. ASSUME NEW o \in OrderIds,
             PollFilled(o) \/ PollPartial(o) \/ PollDead(o) \/ PollDbError(o)
      PROVE  [Lifecycle!Next]_db
  <2>1. Polling(o) /\ IsOpen(o) /\ RowOK(o) /\ known[o] \in BOOLEAN
    BY <1>3 DEF PollFilled, PollPartial, PollDead, PollDbError, Polling, PollsOpen, Rows, TypeOK
  <2>2. ord[o] \in OrderRequests
    BY <2>1, PolledIsIssued
  <2>3. ~paper => db[o] \in {"open", "partially_filled"}
    BY <2>1 DEF Polling, RowOK, IsOpen, OpenStatuses
  <2>4. CASE PollFilled(o) \/ PollDbError(o)
    <3>1. "filled" \in Lifecycle!Successors(db[o])
      BY <2>1
         DEF IsOpen, OpenStatuses, Lifecycle!Successors, Lifecycle!Documented, Lifecycle!Undocumented
    <3>2. db' = [db EXCEPT ![o] = "filled"] \/ UNCHANGED db
      BY <2>4 DEF PollFilled, PollDbError
    <3> QED
      BY <3>1, <3>2, AdvanceStep
  <2>5. CASE PollPartial(o)
    <3>1. ~paper
      BY <2>2, <2>5, ReportedStatus DEF PollPartial, NewFill
    <3>2. db[o] = "partially_filled" \/ "partially_filled" \in Lifecycle!Successors(db[o])
      BY <2>3, <3>1 DEF Lifecycle!Successors, Lifecycle!Documented, Lifecycle!Undocumented
    <3> QED
      BY <2>5, <3>2, AdvanceStep DEF PollPartial
  <2>6. CASE PollDead(o)
    <3>1. ~paper /\ (Replied(o) = "cancelled" \/ (Replied(o) = "rejected" /\ xs[o] = "rejected"))
      BY <2>2, <2>6, ReportedStatus DEF PollDead, Replied
    <3>3. db[o] = "open" \/ (db[o] = "partially_filled" /\ xs[o] # "rejected")
      BY <2>1, <2>3, <3>1 DEF RowOK
    <3>2. Replied(o) \in Lifecycle!Successors(db[o])
      BY <3>1, <3>3 DEF Lifecycle!Successors, Lifecycle!Documented, Lifecycle!Undocumented
    <3> QED
      BY <2>6, <3>2, AdvanceStep DEF PollDead
  <2> QED
    BY <1>3, <2>4, <2>5, <2>6
<1>4. CASE CancelStale
  <2>1. /\ seen.id \in OrderIds /\ db[seen.id] \in {"open", "partially_filled"}
        /\ db' = [db EXCEPT ![seen.id] = "cancelled"]
    BY <1>4 DEF CancelStale, PollsOpen
  <2> QED
    BY <2>1, AdvanceStep
       DEF Lifecycle!Successors, Lifecycle!Documented, Lifecycle!Undocumented
<1>5. CASE PollNext
  BY <1>3, <1>4, <1>5
  DEF PollNext, PollFails, PollStale, PollNoChange, PollRaises, CancelDbError,
      CancelFails, EndPolling, SavePortfolioDbError
<1>6. CASE ExchangeNext
  BY <1>6 DEF ExchangeNext, ExchangeAccepts, ExchangeFills, ExchangeDrops, OrderAges
<1>7. CASE Crash
  BY <1>7 DEF Crash
<1> QED
  BY <1>1, <1>2, <1>5, <1>6, <1>7 DEF Next, vars

\* The program implements the life cycle: with any requests, faults and bounds a
\* status only moves forward, one order at a time, and a terminal one is final.
THEOREM StatusesFollowLifecycle == Spec => FollowsLifecycle
<1>1. Init => Lifecycle!Init
  BY DEF Init, Lifecycle!Init
<1>2. Spec => [][Lifecycle!Next]_db
  BY Inductive, StepRefines, PTL DEF Spec
<1> QED
  BY <1>1, <1>2, PTL DEF Spec, FollowsLifecycle, Lifecycle!Spec
-----------------------------------------------------------------------------
(* Live orders are tracked, but for the three failures that lose one: the  *)
(* reply to create_order is lost, the write of it fails, or the process    *)
(* dies while it is awaited.                                               *)

LosesNoReply == Faults \cap {"lost_reply", "db_error", "crash"} = {}

\* The simulated exchange fills an order on the spot and keeps none open.
Tracked(o) ==
  /\ xs[o] = "open" /\ ~(pc = "sent" /\ o = cur) => IsOpen(o) /\ known[o]
  /\ paper => xs[o] # "open"

TrackedInv == \A o \in OrderIds : Tracked(o)

\* A step of the bot that is not taken while an order is placed loses none, if
\* those whose record it closes are closed at the exchange.
LEMMA BotTracks ==
  ASSUME TypeOK, TrackedInv, pc # "sent", UNCHANGED <<xs, known, paper>>,
         \A o \in OrderIds : IsOpen(o) => IsOpen(o)' \/ xs[o] # "open"
  PROVE  TrackedInv'
  BY DEF TrackedInv, Tracked

\* The steps that place an order.
LEMMA PlaceTracks == LosesNoReply /\ IInv /\ TrackedInv /\ PlaceNext => TrackedInv'
<1> SUFFICES ASSUME LosesNoReply, IInv, TrackedInv, PlaceNext PROVE TrackedInv'
  OBVIOUS
<1> TypeOK /\ BatchUntouched /\ Rows
  BY DEF IInv
<1> USE DEF dbVars, xVars
<1>1. CASE RejectInvalid \/ EndPlacing
  BY <1>1, BotTracks DEF RejectInvalid, EndPlacing, IsOpen
<1>2. CASE SavePending
  BY <1>2, BotTracks DEF SavePending, IsOpen, OpenStatuses, TypeOK
<1>3. CASE Placed \/ PlacedRaises
  <2>1. Finalize(cur) /\ pc = "sent" /\ UNCHANGED <<xs, paper>>
    BY <1>3 DEF Placed, PlacedRaises
  <2>2. pc' # "sent"
    BY <1>3 DEF Placed, PlacedRaises, Raise
  <2> QED
    BY <2>1, <2>2 DEF Finalize, Replied, TrackedInv, Tracked, IsOpen, OpenStatuses, TypeOK
<1>4. CASE CreateRaises \/ RefusedDbError
  <2>1. Refused /\ pc = "sent" /\ xs[cur] = "none" /\ UNCHANGED <<xs, known, paper>>
    BY <1>4 DEF CreateRaises, RefusedDbError, Refused, LosesNoReply, Fault
  <2> QED
    BY <2>1 DEF Refused, TrackedInv, Tracked, IsOpen, TypeOK
<1>5. ~PlaceDbError /\ ~FinalizeDbError /\ ~OpenOrdersDbError
  BY DEF PlaceDbError, FinalizeDbError, OpenOrdersDbError, LosesNoReply, Fault
<1> QED
  BY <1>1, <1>2, <1>3, <1>4, <1>5 DEF PlaceNext

\* The steps that poll, and a cancellation.
LEMMA PollTracks == LosesNoReply /\ IInv /\ TrackedInv /\ PollNext => TrackedInv'
<1> SUFFICES ASSUME LosesNoReply, IInv, TrackedInv, PollNext PROVE TrackedInv'
  OBVIOUS
<1> TypeOK /\ BatchUntouched /\ Rows /\ PollsOpen
  BY DEF IInv
<1> USE DEF dbVars, xVars
<1>1. ASSUME NEW o \in OrderIds, PollFails(o) \/ PollStale(o) \/ PollNoChange(o) \/ PollRaises(o)
      PROVE  TrackedInv'
  <2>1. pc = "poll" /\ UNCHANGED <<xs, known, paper, db>>
    BY <1>1 DEF PollFails, PollStale, PollNoChange, PollRaises, Polling
  <2> QED
    BY <2>1, BotTracks DEF IsOpen
<1>2. ASSUME NEW o \in OrderIds, PollFilled(o) \/ PollPartial(o) \/ PollDead(o)
      PROVE  TrackedInv'
  <2>1. Polling(o) /\ pc = "poll" /\ UNCHANGED <<xs, known, paper>>
    BY <1>2 DEF PollFilled, PollPartial, PollDead, Polling
  <2>a. \A x \in OrderIds : x # o => db'[x] = db[x]
    <3>1. \E st : db' = [db EXCEPT ![o] = st]
      BY <1>2 DEF PollFilled, PollPartial, PollDead
    <3> QED
      BY <3>1 DEF TypeOK
  <2>2. ord[o] \in OrderRequests
    BY <2>1, PolledIsIssued
  <2>3. xs[o] # "open" \/ db'[o] = "partially_filled"
    BY <1>2, <2>2, ReportedStatus DEF PollFilled, PollPartial, PollDead, TypeOK, TrackedInv, Tracked
  <2> QED
    BY <2>1, <2>a, <2>3, BotTracks DEF IsOpen, OpenStatuses
<1>3. CASE CancelStale
  <2>1. seen.id \in OrderIds /\ pc = "cancel" /\ pc' = "poll"
    BY <1>3 DEF CancelStale, PollsOpen
  <2> QED
    BY <1>3, <2>1 DEF CancelStale, TrackedInv, Tracked, IsOpen, TypeOK
<1>4. CASE CancelFails \/ EndPolling
  BY <1>4, BotTracks DEF CancelFails, EndPolling, IsOpen
<1>5. ~CancelDbError /\ ~SavePortfolioDbError /\ \A o \in OrderIds : ~PollDbError(o)
  BY DEF CancelDbError, SavePortfolioDbError, PollDbError, LosesNoReply, Fault
<1> QED
  BY <1>1, <1>2, <1>3, <1>4, <1>5 DEF PollNext

\* Every step.
LEMMA NextTracks == LosesNoReply /\ IInv /\ TrackedInv /\ [Next]_vars => TrackedInv'
<1> SUFFICES ASSUME LosesNoReply, IInv, TrackedInv, [Next]_vars PROVE TrackedInv'
  OBVIOUS
<1> TypeOK /\ BatchUntouched /\ Rows
  BY DEF IInv
<1> USE DEF botVars, dbVars, xVars
<1>1. CASE CycleNext
  <2>1. pc # "sent" /\ UNCHANGED <<xs, known, paper, db>>
    BY <1>1 DEF CycleNext, StartCycle, RunExecution, SkipExecution, PollOnlyCycle, Reserve,
                CheckStopLosses, EndCycle, StopLoss
  <2> QED
    BY <2>1, BotTracks DEF IsOpen
<1>2. CASE ExchangeAccepts
  <2>1. cur \in OrderIds /\ pc = "sent" /\ UNCHANGED <<botVars, dbVars, paper>>
    <3>1. cur \in 1 .. Len(ord) /\ Len(ord) \in Nat /\ Len(ord) <= MaxOrders
      BY <1>2 DEF ExchangeAccepts, BatchUntouched, TypeOK
    <3> QED
      BY <1>2, <3>1, ExecutionAssumption DEF ExchangeAccepts, OrderIds
  <2>2. xs' = [xs EXCEPT ![cur] = IF paper THEN "closed" ELSE "open"]
    BY <1>2 DEF ExchangeAccepts
  <2> QED
    BY <2>1, <2>2 DEF TrackedInv, Tracked, IsOpen, TypeOK
<1>3. ASSUME NEW o \in OrderIds, ExchangeFills(o) \/ ExchangeDrops(o) \/ OrderAges(o)
      PROVE  TrackedInv'
  <2>1. UNCHANGED <<botVars, dbVars, paper>> /\ \A x \in OrderIds : xs'[x] = "open" => xs[x] = "open"
    BY <1>3 DEF ExchangeFills, ExchangeDrops, OrderAges, TypeOK
  <2> QED
    BY <2>1 DEF TrackedInv, Tracked, IsOpen
<1>4. ~Crash
  BY DEF Crash, LosesNoReply, Fault
<1>5. CASE UNCHANGED vars
  BY <1>5 DEF vars, TrackedInv, Tracked, IsOpen
<1> QED
  BY <1>1, <1>2, <1>3, <1>4, <1>5, PlaceTracks, PollTracks DEF Next, ExchangeNext

\* An order that can still fill is in the orders table, open and under the
\* exchange's id, unless create_order's reply or its record was lost.
THEOREM LiveOrdersStayTracked ==
  ASSUME LosesNoReply
  PROVE  Spec => []LiveOrdersAreTracked
<1>1. Init => TrackedInv
  BY DEF Init, TrackedInv, Tracked
<1>2. IInv /\ TrackedInv /\ [Next]_vars => TrackedInv'
  BY NextTracks
<1>3. TrackedInv => LiveOrdersAreTracked
  BY DEF TrackedInv, Tracked, LiveOrdersAreTracked
<1> QED
  BY <1>1, <1>2, <1>3, Inductive, PTL DEF Spec
=============================================================================
