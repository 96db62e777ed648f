--------------------------- MODULE Decisions_proofs ---------------------------
(***************************************************************************)
(* Proofs about Decisions, for every list of symbols and strategies, every *)
(* set of analyses and answers, and every risk limit: what the operators   *)
(* of a cycle return, section by section in the order of the cycle, then   *)
(* one lemma for each action, which keeps DecisionsInv, and the theorems.  *)
(***************************************************************************)
EXTENDS Decisions, Sums_proofs, FiniteSetTheorems, TLAPS

-----------------------------------------------------------------------------
(* The books. *)

\* A position that is held has a stop.
Position == {x \in PositionType : x.qty > 0 => x.stop \in Int}

\* What a portfolio may be.
Portfolios == [cash : Nat, pos : [Symbols -> Position], peak : Nat]

\* Dividing an amount of money by a price does not spend more than it.
LEMMA Affordable ==
  ASSUME NEW m \in Nat, NEW p \in Positive
  PROVE  m \div p \in Nat /\ (m \div p) * p \in Nat /\ (m \div p) * p <= m
<1>1. p \in Nat \ {0}
  BY DEF Positive
<1>2. PICK d : d = m \div p
  OBVIOUS
<1>3. d \in Nat /\ p * d <= m
  BY <1>1, <1>2
<1>4. d * p = p * d /\ d * p \in Nat
  BY <1>1, <1>3
<1> QED
  BY <1>2, <1>3, <1>4

\* There are finitely many symbols.
LEMMA SymbolsFinite == IsFiniteSet(Symbols)
<1>1. PICK n : n = Len(SymbolList) /\ n \in Nat /\ DOMAIN SymbolList = 1 .. n
  BY DecisionsAssumption
<1>2. 1 \in Int /\ n \in Int
  BY <1>1
<1>3. IsFiniteSet(DOMAIN SymbolList)
  BY <1>1, <1>2, FS_Interval
<1>4. SymbolList \in Surjection(DOMAIN SymbolList, Symbols)
  BY <1>1, DecisionsAssumption DEF Surjection, Range
<1> QED
  BY <1>3, <1>4, FS_Surjection

\* The value of the positions is a sum over the symbols.
ValueOf(p) == [s \in Symbols |-> p.pos[s].qty * p.pos[s].price]

\* The market value of a portfolio is the sum over the symbols of quantity times price.
LEMMA MarketValueIsSum ==
  ASSUME NEW p \in Portfolios
  PROVE  /\ \A s \in Symbols : ValueOf(p)[s] = p.pos[s].qty * p.pos[s].price /\ ValueOf(p)[s] \in Nat
         /\ MarketValue(p) = SumFunctionOnSet(ValueOf(p), Symbols)
         /\ MarketValue(p) \in Nat
<1>1. \A s \in Symbols : p.pos[s].qty \in Nat /\ p.pos[s].price \in Nat
  BY DEF Portfolios, Position, PositionType
<1>2. \A s \in Symbols : ValueOf(p)[s] = p.pos[s].qty * p.pos[s].price /\ ValueOf(p)[s] \in Nat
  BY <1>1 DEF ValueOf
<1>3. DOMAIN ValueOf(p) = Symbols
  BY DEF ValueOf
<1>4. MarketValue(p) = SumFunctionOnSet(ValueOf(p), Symbols)
  BY <1>3 DEF MarketValue, ValueOf, SumFunction, SumFunctionOnSet, FoldFunction
<1>5. PICK f : f = ValueOf(p)
  OBVIOUS
<1>6. 0 \in Nat /\ \A x \in Symbols : f[x] \in Int /\ -0 <= f[x]
  BY <1>2, <1>5
<1>7. -(Cardinality(Symbols) * 0) <= SumFunctionOnSet(f, Symbols)
  BY <1>6, SymbolsFinite, SumBound
<1>8. SumFunctionOnSet(f, Symbols) \in Int
  BY <1>6, SymbolsFinite, SumType
<1>9. Cardinality(Symbols) \in Nat
  BY SymbolsFinite, FS_CardinalityType
<1>10. SumFunctionOnSet(f, Symbols) \in Nat
  BY <1>7, <1>8, <1>9
<1> QED
  BY <1>2, <1>4, <1>5, <1>10

\* One position changes, and the cash by what it is worth.
LEMMA ValueMoves ==
  ASSUME NEW p \in Portfolios, NEW q \in Portfolios, NEW s \in Symbols, NEW x \in Nat, NEW y \in Nat,
         \A u \in Symbols \ {s} : q.pos[u] = p.pos[u],
         x = p.pos[s].qty * p.pos[s].price, y = q.pos[s].qty * q.pos[s].price,
         q.cash + y = p.cash + x
  PROVE  TotalBalance(q) = TotalBalance(p)
<1>1. PICK f, g : f = ValueOf(p) /\ g = ValueOf(q)
  OBVIOUS
<1>2. \A u \in Symbols : f[u] \in Int /\ g[u] \in Int
  BY <1>1, MarketValueIsSum
<1>3. \A u \in Symbols : u # s => f[u] = g[u]
  <2> SUFFICES ASSUME NEW u \in Symbols, u # s PROVE f[u] = g[u]
    OBVIOUS
  <2>1. q.pos[u] = p.pos[u]
    OBVIOUS
  <2> QED
    BY <1>1, <2>1 DEF ValueOf
<1>4. SumFunctionOnSet(g, Symbols) = SumFunctionOnSet(f, Symbols) + g[s] - f[s]
  BY <1>2, <1>3, SymbolsFinite, SumChanges
<1>5. f[s] = x /\ g[s] = y
  BY <1>1 DEF ValueOf
<1>6. /\ MarketValue(p) = SumFunctionOnSet(f, Symbols) /\ MarketValue(p) \in Nat
      /\ MarketValue(q) = SumFunctionOnSet(g, Symbols) /\ MarketValue(q) \in Nat
  BY <1>1, MarketValueIsSum
<1>7. p.cash \in Nat /\ q.cash \in Nat
  BY DEF Portfolios
<1>8. PICK a, b, c, d \in Nat : a = MarketValue(p) /\ b = MarketValue(q) /\ c = p.cash /\ d = q.cash
  BY <1>6, <1>7
<1>9. b = a + y - x /\ d + y = c + x
  BY <1>4, <1>5, <1>6, <1>8
<1>10. b + d = a + c
  BY <1>9
<1> QED
  BY <1>8, <1>10 DEF TotalBalance

-----------------------------------------------------------------------------
\* What is held of s has its stop below x.
Below(p, s, x) == Holds(p, s) => p.pos[s].stop < x

\* Portfolios of value V whose positions are priced as the cycle's analyses say
\* and, for the symbols of W, have their stops below that.
Priced(a, V, W) ==
  {p \in Portfolios : /\ TotalBalance(p) = V
                      /\ \A s \in DOMAIN a : Holds(p, s) => p.pos[s].price = a[s].price
                      /\ \A s \in W : Below(p, s, a[s].price)}

\* Requests at the prices of the analyses, a BUY with its stop below.
Requests(a) ==
  {r \in RequestType : /\ r.sym \in DOMAIN a /\ r.price = a[r.sym].price /\ r.price \in Positive
                       /\ r.side = "buy" => r.stop < r.price}

\* Booking a BUY moves value from cash to a position, makes none, and takes no more cash than
\* it asks for; a stop stays below the price.
LEMMA BookedBuyKeeps ==
  ASSUME NEW a, NEW V, NEW W \in SUBSET DOMAIN a, NEW p \in Priced(a, V, W),
         NEW r \in Requests(a), r.side = "buy"
  PROVE  BookedBuy(p, r) \in Priced(a, V, W) /\ BookedBuy(p, r).cash + r.qty * r.price >= p.cash
<1>1. /\ p \in Portfolios /\ p.cash \in Nat /\ p.peak \in Nat /\ p.pos \in [Symbols -> Position]
      /\ TotalBalance(p) = V /\ \A s \in DOMAIN a : Holds(p, s) => p.pos[s].price = a[s].price
      /\ \A s \in W : Below(p, s, a[s].price)
  BY DEF Priced, Portfolios
<1>2. /\ r.sym \in Symbols /\ r.sym \in DOMAIN a /\ r.price = a[r.sym].price /\ r.price \in Positive
      /\ r.qty \in Nat /\ r.stop \in Int /\ r.stop < r.price
  BY DEF Requests, RequestType
<1>3. PICK s \in Symbols, c \in Nat, q \in Nat, e \in Positive :
        s = r.sym /\ c = p.cash /\ q = r.qty /\ e = r.price
  BY <1>1, <1>2
<1>4. e \in Nat \ {0} /\ q * e \in Nat
  BY <1>3 DEF Positive
<1>5. PICK m \in Nat : m = Min({q * e, c}) /\ m <= c /\ m <= q * e
  BY <1>3, <1>4, MinOfTwo
<1>6. PICK b \in Nat : b = m \div e /\ b * e \in Nat /\ b * e <= c /\ b * e <= q * e
  <2>1. m \div e \in Nat /\ (m \div e) * e \in Nat /\ (m \div e) * e <= m
    BY Affordable
  <2>2. PICK b, v \in Nat : b = m \div e /\ v = b * e /\ v <= m
    BY <2>1
  <2>3. v <= c /\ v <= q * e
    BY <1>4, <1>5, <2>2
  <2> QED
    BY <2>2, <2>3
<1> DEFINE held == p.pos[s]
           total == held.qty + b
           mean == (held.entry * held.qty + e * b) \div total
           new == IF held.qty = 0 THEN Opened(b, e, r.stop)
                  ELSE [held EXCEPT !.qty = total, !.entry = mean, !.price = e]
           w == [p EXCEPT !.cash = @ - b * e, !.pos[s] = new]
<1>7. BookedBuy(p, r) = IF b <= 0 THEN p ELSE w
  BY <1>3, <1>5, <1>6 DEF BookedBuy
<1>8. CASE b <= 0
  <2>1. p.cash + r.qty * r.price >= p.cash
    BY <1>1, <1>3, <1>4
  <2> QED
    BY <1>7, <1>8, <2>1
<1>9. CASE ~(b <= 0)
  <2>1. held \in Position /\ held.qty \in Nat /\ held.entry \in Nat
    BY <1>1 DEF Position, PositionType
  <2>2. total \in Nat \ {0}
    BY <1>6, <1>9, <2>1
  <2>3. mean \in Nat
    <3>1. held.entry * held.qty + e * b \in Nat
      BY <1>4, <1>6, <2>1
    <3> HIDE DEF held, total
    <3> QED
      BY <2>2, <3>1
  <2>4. new \in Position /\ new.price = e /\ new.qty = total
    <3>1. CASE held.qty = 0
      <4>1. new = [qty |-> b, entry |-> e, stop |-> r.stop, price |-> e]
        BY <3>1 DEF Opened
      <4>2. total = b
        BY <1>6, <3>1
      <4> HIDE DEF new, held, total
      <4> QED
        BY <1>2, <1>4, <1>6, <4>1, <4>2 DEF Position, PositionType
    <3>2. CASE held.qty # 0
      <4>1. new = [held EXCEPT !.qty = total, !.entry = mean, !.price = e]
        BY <3>2
      <4>2. held \in PositionType /\ held.stop \in Int
        BY <2>1, <3>2 DEF Position
      <4> HIDE DEF new, held, total, mean
      <4>3. new \in PositionType /\ new.price = e /\ new.qty = total /\ new.stop = held.stop
        BY <1>4, <2>2, <2>3, <4>1, <4>2 DEF PositionType
      <4> QED
        BY <4>2, <4>3 DEF Position
    <3> QED
      BY <3>1, <3>2
  <2>5. held.qty > 0 => held.price = e
    BY <1>1, <1>2, <1>3 DEF Holds
  <2>s. ASSUME s \in W PROVE new.stop < e
    <3>1. CASE held.qty = 0
      <4>1. new.stop = r.stop
        BY <3>1 DEF Opened
      <4> QED
        BY <1>2, <1>3, <4>1
    <3>2. CASE held.qty # 0
      <4>1. Below(p, s, a[s].price) /\ a[s].price = e
        BY <1>1, <1>2, <1>3, <2>s
      <4>2. held.stop < e
        BY <2>1, <3>2, <4>1 DEF Below, Holds
      <4>3. new = [held EXCEPT !.qty = total, !.entry = mean, !.price = e]
        BY <3>2
      <4>4. new.stop = held.stop
        <5> HIDE DEF new, total, mean, held
        <5> QED
          BY <2>1, <4>3 DEF Position, PositionType
      <4> HIDE DEF new, held
      <4> QED
        BY <4>2, <4>4
    <3> QED
      BY <3>1, <3>2
  <2> HIDE DEF new
  <2>6. /\ w.cash = c - b * e /\ w.cash \in Nat /\ w.peak = p.peak
        /\ w.pos = [p.pos EXCEPT ![s] = new]
    <3>1. w.cash = p.cash - b * e /\ w.peak = p.peak /\ w.pos = [p.pos EXCEPT ![s] = new]
      BY <1>1 DEF Portfolios
    <3>2. c - b * e \in Nat
      BY <1>6
    <3> QED
      BY <1>3, <3>1, <3>2
  <2>7. w.pos[s] = new /\ \A u \in Symbols \ {s} : w.pos[u] = p.pos[u]
    BY <1>1, <2>6
  <2>8. w \in Portfolios
    <3>1. PICK d, f : d = p.cash - b * e /\ f = [p.pos EXCEPT ![s] = new]
      OBVIOUS
    <3>2. d \in Nat /\ f \in [Symbols -> Position]
      BY <1>1, <1>3, <1>6, <2>4, <3>1
    <3>3. w = [p EXCEPT !.cash = d, !.pos = f]
      BY <1>1, <3>1
    <3> HIDE DEF w
    <3>4. [p EXCEPT !.cash = d, !.pos = f] \in Portfolios
      BY ONLY <1>1, <3>2 DEF Portfolios
    <3> QED
      BY <3>3, <3>4
  <2>9. PICK x, y \in Nat : /\ x = held.qty * held.price /\ y = new.qty * new.price
                            /\ y = x + b * e
    <3>1. held.price \in Nat
      BY <2>1 DEF Position, PositionType
    <3>2. PICK h, g \in Nat : h = held.qty /\ g = held.price /\ (h > 0 => g = e)
      BY <2>1, <2>5, <3>1
    <3>3. (h + b) * e = h * g + b * e /\ h * g \in Nat
      <4>1. CASE h = 0
        BY <1>4, <1>6, <4>1
      <4>2. CASE h > 0
        BY <1>4, <1>6, <3>2, <4>2
      <4> QED
        BY <4>1, <4>2
    <3>4. new.qty * new.price = (h + b) * e
      BY <2>4, <3>2
    <3> QED
      BY <1>6, <3>2, <3>3, <3>4
  <2>10. w.cash + y = p.cash + x
    <3>1. PICK d, v \in Nat : d = w.cash /\ v = b * e /\ d = c - v
      BY <1>6, <2>6
    <3>2. d + y = c + x
      BY <2>9, <3>1
    <3> QED
      BY <1>3, <3>1, <3>2
  <2> HIDE DEF w, held
  <2>11. TotalBalance(w) = TotalBalance(p)
    BY <1>1, <2>7, <2>8, <2>9, <2>10, ValueMoves DEF held
  <2>12. \A u \in DOMAIN a : Holds(w, u) => w.pos[u].price = a[u].price
    <3> SUFFICES ASSUME NEW u \in DOMAIN a, Holds(w, u) PROVE w.pos[u].price = a[u].price
      OBVIOUS
    <3>1. CASE u = s
      BY <1>2, <1>3, <2>4, <2>7, <3>1
    <3>2. CASE u # s
      <4>1. w.pos[u] = p.pos[u]
        BY <1>1, <2>6, <3>2
      <4> QED
        BY <1>1, <4>1 DEF Holds
    <3> QED
      BY <3>1, <3>2
  <2>13. \A u \in W : Below(w, u, a[u].price)
    <3> SUFFICES ASSUME NEW u \in W PROVE Below(w, u, a[u].price)
      OBVIOUS
    <3>1. CASE u = s
      BY <1>2, <1>3, <2>s, <2>7, <3>1 DEF Below
    <3>2. CASE u # s
      <4>1. w.pos[u] = p.pos[u]
        BY <1>1, <2>6, <3>2
      <4> QED
        BY <1>1, <4>1 DEF Below, Holds
    <3> QED
      BY <3>1, <3>2
  <2>14. w.cash + r.qty * r.price >= p.cash
    <3>1. PICK cost, asked \in Nat : cost = b * e /\ asked = q * e /\ cost <= asked
      BY <1>4, <1>6
    <3>2. w.cash = c - cost
      BY <2>6, <3>1
    <3>3. (c - cost) + asked >= c
      BY <3>1
    <3> QED
      BY <1>3, <3>1, <3>2, <3>3
  <2> QED
    BY <1>1, <1>7, <1>9, <2>8, <2>11, <2>12, <2>13, <2>14 DEF Priced
<1> QED
  BY <1>8, <1>9

\* Booking a SELL moves value from a position to cash and makes none.
LEMMA BookedSellKeeps ==
  ASSUME NEW a, NEW V, NEW W \in SUBSET DOMAIN a, NEW p \in Priced(a, V, W), NEW r \in Requests(a)
  PROVE  BookedSell(p, r) \in Priced(a, V, W) /\ BookedSell(p, r).cash >= p.cash
<1>1. /\ p \in Portfolios /\ p.cash \in Nat /\ p.peak \in Nat /\ p.pos \in [Symbols -> Position]
      /\ TotalBalance(p) = V /\ \A s \in DOMAIN a : Holds(p, s) => p.pos[s].price = a[s].price
      /\ \A s \in W : Below(p, s, a[s].price)
  BY DEF Priced, Portfolios
<1>2. /\ r.sym \in Symbols /\ r.sym \in DOMAIN a /\ r.price = a[r.sym].price /\ r.price \in Positive
      /\ r.qty \in Nat
  BY DEF Requests, RequestType
<1>3. PICK s \in Symbols, c \in Nat, q \in Nat, e \in Positive :
        s = r.sym /\ c = p.cash /\ q = r.qty /\ e = r.price
  BY <1>1, <1>2
<1>4. e \in Nat \ {0}
  BY <1>3 DEF Positive
<1>5. PICK h \in Nat, g \in Nat : h = p.pos[s].qty /\ g = p.pos[s].price /\ (h > 0 => g = e)
  <2>1. p.pos[s].qty \in Nat /\ p.pos[s].price \in Nat
    BY <1>1 DEF Position, PositionType
  <2> QED
    BY <1>1, <1>2, <1>3, <2>1 DEF Holds
<1>6. PICK b \in Nat : b = Min({q, h}) /\ b <= h
  BY <1>3, <1>5, MinOfTwo
<1> DEFINE held == p.pos[s]
           new == IF b = held.qty THEN Nothing ELSE [held EXCEPT !.qty = held.qty - b]
           w == [p EXCEPT !.cash = @ + b * e, !.pos[s] = new]
<1>7. BookedSell(p, r) = w
  <2>1. Min({r.qty, p.pos[r.sym].qty}) = b /\ r.sym = s /\ r.price = e
    BY <1>3, <1>5, <1>6
  <2> QED
    BY <2>1 DEF BookedSell
<1>8. /\ new \in Position /\ new.qty = h - b
      /\ b # h => new.price = g /\ new.stop = held.stop
  <2>1. CASE b = h
    <3>1. new = [qty |-> 0, entry |-> 0, stop |-> None, price |-> 0]
      BY <1>5, <2>1 DEF Nothing
    <3> HIDE DEF new
    <3> QED
      BY <1>5, <2>1, <3>1 DEF Position, PositionType
  <2>2. CASE b # h
    <3>1. held \in Position /\ h - b \in Nat
      BY <1>1, <1>6
    <3>2. new = [held EXCEPT !.qty = h - b]
      BY <1>5, <2>2
    <3>3. held.price = g /\ held.qty > 0
      BY <1>5, <1>6, <2>2
    <3> HIDE DEF new, held
    <3> QED
      BY <2>2, <3>1, <3>2, <3>3 DEF Position, PositionType
  <2> QED
    BY <2>1, <2>2
<1> HIDE DEF new
<1>9. b * e \in Nat
  BY <1>4
<1>10. PICK v \in Nat : v = b * e
  BY <1>9
<1>11. w.cash = c + v /\ w.peak = p.peak /\ w.pos = [p.pos EXCEPT ![s] = new]
  BY <1>1, <1>3, <1>10 DEF Portfolios
<1>12. w.pos[s] = new /\ \A u \in Symbols \ {s} : w.pos[u] = p.pos[u]
  BY <1>1, <1>11
<1>13. w \in Portfolios
  <2>1. PICK d, f : d = p.cash + b * e /\ f = [p.pos EXCEPT ![s] = new]
    OBVIOUS
  <2>2. d \in Nat /\ f \in [Symbols -> Position]
    BY <1>1, <1>3, <1>8, <1>9, <2>1
  <2>3. w = [p EXCEPT !.cash = d, !.pos = f]
    BY <1>1, <2>1
  <2> HIDE DEF w
  <2>4. [p EXCEPT !.cash = d, !.pos = f] \in Portfolios
    BY ONLY <1>1, <2>2 DEF Portfolios
  <2> QED
    BY <2>3, <2>4
<1>14. PICK x, y \in Nat : /\ x = p.pos[s].qty * p.pos[s].price /\ y = new.qty * new.price
                           /\ x = y + v
  <2>1. new.price \in Nat
    BY <1>8 DEF Position, PositionType
  <2>2. CASE b = h
    <3>1. new.qty * new.price = 0
      BY <1>8, <2>1, <2>2
    <3>2. h * g = b * e /\ h * g \in Nat
      <4>1. CASE h = 0
        BY <1>4, <2>2, <4>1
      <4>2. CASE h > 0
        BY <1>5, <2>2, <4>2
      <4> QED
        BY <4>1, <4>2
    <3> QED
      BY <1>5, <1>10, <3>1, <3>2
  <2>3. CASE b # h
    <3>1. h > 0 /\ g = e
      BY <1>5, <1>6, <2>3
    <3>2. h - b \in Nat /\ h * e = (h - b) * e + b * e /\ h * e \in Nat /\ (h - b) * e \in Nat
      BY <1>4, <1>6
    <3>3. new.qty * new.price = (h - b) * e
      BY <1>8, <2>3, <3>1
    <3> QED
      BY <1>5, <1>10, <3>1, <3>2, <3>3
  <2> QED
    BY <2>2, <2>3
<1>15. w.cash + y = p.cash + x
  <2>1. (c + v) + y = c + x
    BY <1>14
  <2> QED
    BY <1>3, <1>11, <2>1
<1> HIDE DEF w
<1>16. TotalBalance(w) = TotalBalance(p)
  <2>1. y = w.pos[s].qty * w.pos[s].price
    BY <1>12, <1>14
  <2> QED
    BY <1>1, <1>12, <1>13, <1>14, <1>15, <2>1, ValueMoves
<1>17. \A u \in DOMAIN a : Holds(w, u) => w.pos[u].price = a[u].price
  <2> SUFFICES ASSUME NEW u \in DOMAIN a, Holds(w, u) PROVE w.pos[u].price = a[u].price
    OBVIOUS
  <2>1. CASE u = s
    <3>1. b # h
      BY <1>6, <1>8, <1>12, <2>1 DEF Holds
    <3>2. h > 0
      BY <1>6, <3>1
    <3> QED
      BY <1>2, <1>3, <1>5, <1>8, <1>12, <2>1, <3>1, <3>2
  <2>2. CASE u # s
    <3>1. w.pos[u] = p.pos[u]
      BY <1>1, <1>11, <2>2
    <3> QED
      BY <1>1, <3>1 DEF Holds
  <2> QED
    BY <2>1, <2>2
<1>18. \A u \in W : Below(w, u, a[u].price)
  <2> SUFFICES ASSUME NEW u \in W, Holds(w, u) PROVE w.pos[u].stop < a[u].price
    BY DEF Below
  <2>1. CASE u = s
    <3>1. b # h
      BY <1>6, <1>8, <1>12, <2>1 DEF Holds
    <3>2. h > 0 /\ new.stop = p.pos[s].stop
      BY <1>6, <1>8, <3>1
    <3> QED
      BY <1>1, <1>5, <1>12, <2>1, <3>2 DEF Below, Holds
  <2>2. CASE u # s
    <3>1. w.pos[u] = p.pos[u]
      BY <1>1, <1>11, <2>2
    <3> QED
      BY <1>1, <3>1 DEF Below, Holds
  <2> QED
    BY <2>1, <2>2
<1>19. w.cash >= p.cash
  BY <1>3, <1>10, <1>11
<1> QED
  BY <1>1, <1>7, <1>13, <1>16, <1>17, <1>18, <1>19 DEF Priced

\* What the BUYs of a list ask for.
Cost(list) == [i \in DOMAIN list |-> IF list[i].side = "buy" THEN list[i].qty * list[i].price ELSE 0]

\* Reserving a list of requests moves value, creates none, and takes no more
\* cash than the BUYs ask for.
LEMMA BookedListKeeps ==
  ASSUME NEW a, NEW V, NEW W \in SUBSET DOMAIN a, NEW p \in Priced(a, V, W), NEW list \in Seq(Requests(a))
  PROVE  LET done == FoldLeft(Booked, p, list)
         IN  /\ done \in Priced(a, V, W)
             /\ done.cash + SumFunctionOnSet(Cost(list), DOMAIN list) >= p.cash
<1>1. \A q \in Priced(a, V, W), r \in Requests(a) :
        /\ Booked(q, r) \in Priced(a, V, W)
        /\ Booked(q, r).cash + (IF r.side = "buy" THEN r.qty * r.price ELSE 0) >= q.cash
  <2> SUFFICES ASSUME NEW q \in Priced(a, V, W), NEW r \in Requests(a)
               PROVE  /\ Booked(q, r) \in Priced(a, V, W)
                      /\ Booked(q, r).cash + (IF r.side = "buy" THEN r.qty * r.price ELSE 0) >= q.cash
    OBVIOUS
  <2>1. CASE r.side = "buy"
    BY <2>1, BookedBuyKeeps DEF Booked
  <2>2. CASE r.side # "buy"
    <3>1. BookedSell(q, r) \in Priced(a, V, W) /\ BookedSell(q, r).cash >= q.cash
      BY BookedSellKeeps
    <3>2. BookedSell(q, r).cash \in Nat
      BY <3>1 DEF Priced, Portfolios
    <3> QED
      BY <2>2, <3>1, <3>2 DEF Booked
  <2> QED
    BY <2>1, <2>2
<1>2. PICK n \in Nat : n = Len(list)
  OBVIOUS
<1>3. DOMAIN list = 1 .. n /\ \A i \in 1 .. n : list[i] \in Requests(a)
  BY <1>2
<1>c. PICK f : f = Cost(list)
  OBVIOUS
<1>f. \A i \in 1 .. n : /\ f[i] \in Nat
                        /\ f[i] = IF list[i].side = "buy" THEN list[i].qty * list[i].price ELSE 0
  <2>1. \A r \in Requests(a) : r.qty \in Nat /\ r.price \in Nat
    BY DEF Requests, RequestType
  <2> QED
    BY <1>3, <1>c, <2>1 DEF Cost
<1> DEFINE D == 1 .. n
           X == Priced(a, V, W)
           k == [s \in SUBSET D |-> Max(s)]
           g == [q \in D \X X |-> Booked(q[2], list[q[1]])]
           Q(t) == t = [s \in SUBSET D |->
                          IF s = {} THEN p ELSE Booked(t[s \ {Max(s)}], list[Max(s)])]
           c == CHOOSE t : Q(t)
           v == [s \in SUBSET D |-> {q \in X : q.cash + SumFunctionOnSet(f, s) >= p.cash}]
<1>4. \A s \in SUBSET D : s # {} => Max(s) \in s
  BY MaxIsLargest
<1> HIDE DEF X
<1>5. Folding(D, X, k, g)
  BY <1>1, <1>3, <1>4 DEF Folding, X
<1>6. PICK h : Folds(h, D, X, p, k, g)
  <2>1. IsFiniteSet(D) /\ p \in X
    BY IndicesFinite DEF X
  <2> HIDE DEF D, k, g
  <2> QED
    BY <1>5, <2>1, FoldExists
<1>7. Q(c)
  <2>1. \A s \in SUBSET D : s # {} =>
          g[<<k[s], h[s \ {k[s]}]>>] = Booked(h[s \ {Max(s)}], list[Max(s)])
    BY <1>4, <1>6 DEF Folds
  <2>2. \A s \in SUBSET D :
          h[s] = IF s = {} THEN p ELSE Booked(h[s \ {Max(s)}], list[Max(s)])
    <3> HIDE DEF g
    <3> QED
      BY <1>6, <2>1 DEF Folds
  <2>3. Q(h)
    BY <1>6, <2>2 DEF Folds
  <2> HIDE DEF Q
  <2> QED
    BY <2>3
<1>8. FoldLeft(Booked, p, list) = c[D]
  BY <1>3 DEF FoldLeft, MapThenFoldSet
<1> HIDE DEF c
<1>s. \A s \in SUBSET D : IsFiniteSet(s) /\ SumFunctionOnSet(f, s) \in Int
  <2> SUFFICES ASSUME NEW s \in SUBSET D PROVE IsFiniteSet(s) /\ SumFunctionOnSet(f, s) \in Int
    OBVIOUS
  <2>1. IsFiniteSet(s)
    BY IndicesFinite, FS_Subset
  <2>2. \A x \in s : f[x] \in Int
    BY <1>f
  <2> QED
    BY <2>1, <2>2, SumType
<1>9. c[{}] \in v[{}]
  <2>1. c[{}] = p /\ p \in X /\ p.cash \in Nat
    BY <1>7 DEF X, Priced, Portfolios
  <2>2. SumFunctionOnSet(f, {}) = 0
    <3>1. IsFiniteSet({}) /\ \A y \in {} : f[y] \in Int
      BY FS_EmptySet
    <3> QED
      BY <3>1, SumType
  <2>3. p.cash + 0 >= p.cash
    BY <2>1
  <2> QED
    BY <2>1, <2>2, <2>3
<1>10. ASSUME NEW s \in SUBSET D, s # {}
       PROVE  \E x \in s : c[s \ {x}] \in v[s \ {x}] => c[s] \in v[s]
  <2>1. PICK m \in s : m = Max(s)
    BY <1>4, <1>10
  <2>2. c[s] = Booked(c[s \ {m}], list[m]) /\ s \ {m} \in SUBSET D /\ list[m] \in Requests(a)
    BY <1>3, <1>7, <1>10, <2>1
  <2>3. ASSUME c[s \ {m}] \in v[s \ {m}] PROVE c[s] \in v[s]
    <3>1. PICK q, r : q = c[s \ {m}] /\ r = list[m]
      OBVIOUS
    <3>2. q \in X /\ q.cash + SumFunctionOnSet(f, s \ {m}) >= p.cash
      BY <2>2, <2>3, <3>1
    <3>3. Booked(q, r) \in X /\ Booked(q, r).cash + f[m] >= q.cash
      <4>1. r \in Requests(a) /\ q \in Priced(a, V, W)
        BY <2>2, <3>1, <3>2 DEF X
      <4>2. f[m] = IF r.side = "buy" THEN r.qty * r.price ELSE 0
        BY <1>f, <3>1
      <4>3. PICK w : w = Booked(q, r)
        OBVIOUS
      <4>4. w \in Priced(a, V, W) /\ w.cash + (IF r.side = "buy" THEN r.qty * r.price ELSE 0) >= q.cash
        BY ONLY <1>1, <4>1, <4>3
      <4> QED
        BY ONLY <4>2, <4>3, <4>4 DEF X
    <3>4. SumFunctionOnSet(f, s) = f[m] + SumFunctionOnSet(f, s \ {m})
      <4>1. \A x \in s : f[x] \in Int
        BY <1>f, <1>10
      <4> QED
        BY <1>s, <4>1, SumRemoves
    <3>5. PICK x \in Int, y \in Int, z \in Int : /\ x = f[m] /\ y = SumFunctionOnSet(f, s \ {m})
                                                 /\ z = SumFunctionOnSet(f, s)
      BY <1>f, <1>s, <2>2
    <3>6. PICK u \in Nat, w \in Nat, o \in Nat : u = q.cash /\ w = Booked(q, r).cash /\ o = p.cash
      BY <3>2, <3>3 DEF X, Priced, Portfolios
    <3>7. w + z >= o
      <4>1. u + y >= o /\ w + x >= u /\ z = x + y
        BY <3>2, <3>3, <3>4, <3>5, <3>6
      <4> QED
        BY ONLY <4>1, u \in Nat, w \in Nat, o \in Nat, x \in Int, y \in Int, z \in Int
    <3> QED
      BY <2>2, <3>1, <3>3, <3>5, <3>6, <3>7
  <2> QED
    BY <2>3
<1> HIDE DEF v, D
<1>11. IsFiniteSet(D) /\ D \in SUBSET D
  BY IndicesFinite DEF D
<1>12. c[D] \in v[D]
  BY <1>9, <1>10, <1>11, FoldStays
<1> QED
  BY <1>3, <1>c, <1>8, <1>11, <1>12 DEF v, X, D

-----------------------------------------------------------------------------
(* Fills. *)

\* The break-even prices, and the books execution settles on.
BreakEvens == [Symbols -> Nat \cup {None}]
Books(a, W) == {b \in [pf : Portfolios, breakEven : BreakEvens] :
                  \A s \in W : Below(b.pf, s, a[s].price)}

\* Settling the fill of a BUY leaves a portfolio, and no stop at the price or above it
\* that was not there (_reconcile_fill).
LEMMA FilledBuyType ==
  ASSUME NEW a, NEW p \in Portfolios, NEW r \in Requests(a), r.side = "buy"
  PROVE  /\ FilledBuy(p, r) \in Portfolios
         /\ \A s \in Symbols : Below(p, s, a[s].price) => Below(FilledBuy(p, r), s, a[s].price)
<1>1. /\ p.cash \in Nat /\ p.peak \in Nat /\ p.pos \in [Symbols -> Position]
      /\ r.sym \in Symbols /\ r.price \in Nat /\ r.stop \in Int /\ r.qty \in Nat \ {0}
      /\ r.stop < r.price /\ r.price = a[r.sym].price
  BY DEF Portfolios, Requests, RequestType
<1> DEFINE held == p.pos[r.sym]
           rest == held.qty - r.qty
           new == IF rest <= 0 THEN Opened(r.qty, r.price, r.stop)
                  ELSE [qty |-> held.qty, entry |-> (held.entry * rest + r.price * r.qty) \div held.qty,
                        stop |-> r.stop, price |-> r.price]
<1>2. held.qty \in Nat /\ held.entry \in Nat
  BY <1>1 DEF Position, PositionType
<1>3. new \in Position /\ new.stop = r.stop
  <2>1. CASE rest <= 0
    <3>1. new = [qty |-> r.qty, entry |-> r.price, stop |-> r.stop, price |-> r.price]
      BY <2>1 DEF Opened
    <3> HIDE DEF new
    <3> QED
      BY <1>1, <3>1 DEF Position, PositionType
  <2>2. CASE ~(rest <= 0)
    <3>1. rest \in Nat /\ held.qty \in Nat \ {0}
      BY <1>1, <1>2, <2>2
    <3>2. held.entry * rest + r.price * r.qty \in Nat
      BY <1>1, <1>2, <3>1
    <3>3. PICK x : x = (held.entry * rest + r.price * r.qty) \div held.qty
      OBVIOUS
    <3>4. x \in Nat
      <4> HIDE DEF held, rest
      <4> QED
        BY <3>1, <3>2, <3>3
    <3>5. new = [qty |-> held.qty, entry |-> x, stop |-> r.stop, price |-> r.price]
      BY <2>2, <3>3
    <3> HIDE DEF new, held
    <3> QED
      BY <1>1, <1>2, <3>4, <3>5 DEF Position, PositionType
  <2> QED
    BY <2>1, <2>2
<1>4. FilledBuy(p, r) = [p EXCEPT !.pos[r.sym] = new]
  BY DEF FilledBuy
<1> HIDE DEF new
<1>5. PICK f : f = [p.pos EXCEPT ![r.sym] = new]
  OBVIOUS
<1>6. /\ f \in [Symbols -> Position] /\ f[r.sym] = new
      /\ \A s \in Symbols \ {r.sym} : f[s] = p.pos[s]
  BY <1>1, <1>3, <1>5
<1>7. FilledBuy(p, r) = [p EXCEPT !.pos = f]
  BY <1>4, <1>5
<1>8. [p EXCEPT !.pos = f] \in Portfolios /\ [p EXCEPT !.pos = f].pos = f
  BY ONLY <1>1, <1>6, p \in Portfolios DEF Portfolios
<1>9. ASSUME NEW s \in Symbols, Below(p, s, a[s].price)
      PROVE  Below(FilledBuy(p, r), s, a[s].price)
  <2>1. FilledBuy(p, r).pos = f
    BY <1>7, <1>8
  <2>2. CASE s = r.sym
    BY <1>1, <1>3, <1>6, <2>1, <2>2 DEF Below
  <2>3. CASE s # r.sym
    <3>1. f[s] = p.pos[s]
      BY <1>6, <2>3
    <3> QED
      BY <1>9, <2>1, <3>1 DEF Below, Holds
  <2> QED
    BY <2>2, <2>3
<1> QED
  BY <1>7, <1>8, <1>9

\* Settling one request leaves books, whatever it asked.
LEMMA SettledType ==
  ASSUME NEW a, NEW W \in SUBSET Symbols, NEW acc \in Books(a, W), NEW r \in Requests(a)
  PROVE  Settled(acc, r) \in Books(a, W)
<1>1. /\ acc.pf \in Portfolios /\ acc.breakEven \in BreakEvens
      /\ \A s \in W : Below(acc.pf, s, a[s].price)
      /\ r.sym \in Symbols /\ r.price \in Nat /\ r.side \in {"buy", "sell"}
  BY DEF Books, Requests, RequestType, Sides
<1>2. CASE r.side = "buy"
  <2>1. PICK p, b : p = FilledBuy(acc.pf, r) /\ b = [acc.breakEven EXCEPT ![r.sym] = r.price]
    OBVIOUS
  <2>2. PICK o \in Portfolios : o = acc.pf
    BY <1>1
  <2>3. /\ FilledBuy(o, r) \in Portfolios
        /\ \A s \in Symbols : Below(o, s, a[s].price) => Below(FilledBuy(o, r), s, a[s].price)
    BY <1>2, FilledBuyType
  <2>4. p \in Portfolios /\ \A s \in W : Below(p, s, a[s].price)
    BY <1>1, <2>1, <2>2, <2>3
  <2>5. b \in BreakEvens
    BY <1>1, <2>1 DEF BreakEvens
  <2>6. PICK x : x = [pf |-> p, breakEven |-> b]
    OBVIOUS
  <2>7. x \in Books(a, W)
    BY <2>4, <2>5, <2>6 DEF Books
  <2>8. Settled(acc, r) = acc \/ Settled(acc, r) = x
    BY <2>1, <2>6 DEF Settled
  <2> QED
    BY <2>7, <2>8
<1>3. CASE r.side = "sell"
  BY <1>3 DEF Settled
<1> QED
  BY <1>1, <1>2, <1>3

\* So does settling a list of them.
LEMMA SettledListType ==
  ASSUME NEW a, NEW Y \in SUBSET Symbols, NEW p \in Books(a, Y), NEW list \in Seq(Requests(a))
  PROVE  FoldLeft(Settled, p, list) \in Books(a, Y)
<1>1. \A q \in Books(a, Y), r \in Requests(a) : Settled(q, r) \in Books(a, Y)
  BY SettledType
<1>2. PICK n \in Nat : n = Len(list)
  OBVIOUS
<1>3. DOMAIN list = 1 .. n /\ \A i \in 1 .. n : list[i] \in Requests(a)
  BY <1>2
<1> DEFINE D == 1 .. n
           W == Books(a, Y)
           k == [s \in SUBSET D |-> Max(s)]
           g == [q \in D \X W |-> Settled(q[2], list[q[1]])]
           Q(t) == t = [s \in SUBSET D |->
                          IF s = {} THEN p ELSE Settled(t[s \ {Max(s)}], list[Max(s)])]
           c == CHOOSE t : Q(t)
           v == [s \in SUBSET D |-> W]
<1>4. \A s \in SUBSET D : s # {} => Max(s) \in s
  BY MaxIsLargest
<1> HIDE DEF W
<1>5. Folding(D, W, k, g)
  BY <1>1, <1>3, <1>4 DEF Folding, W
<1>6. PICK h : Folds(h, D, W, p, k, g)
  <2>1. IsFiniteSet(D) /\ p \in W
    BY IndicesFinite DEF W
  <2> HIDE DEF D, k, g
  <2> QED
    BY <1>5, <2>1, FoldExists
<1>7. Q(c)
  <2>1. \A s \in SUBSET D : s # {} =>
          g[<<k[s], h[s \ {k[s]}]>>] = Settled(h[s \ {Max(s)}], list[Max(s)])
    BY <1>4, <1>6 DEF Folds
  <2>2. \A s \in SUBSET D :
          h[s] = IF s = {} THEN p ELSE Settled(h[s \ {Max(s)}], list[Max(s)])
    <3> HIDE DEF g
    <3> QED
      BY <1>6, <2>1 DEF Folds
  <2>3. Q(h)
    BY <1>6, <2>2 DEF Folds
  <2> HIDE DEF Q
  <2> QED
    BY <2>3
<1>8. FoldLeft(Settled, p, list) = c[D]
  BY <1>3 DEF FoldLeft, MapThenFoldSet
<1> HIDE DEF c
<1>9. c[{}] \in v[{}]
  BY <1>7 DEF W
<1>10. ASSUME NEW s \in SUBSET D, s # {}
       PROVE  \E x \in s : c[s \ {x}] \in v[s \ {x}] => c[s] \in v[s]
  <2>1. PICK m \in s : m = Max(s)
    BY <1>4, <1>10
  <2>2. c[s] = Settled(c[s \ {m}], list[m]) /\ s \ {m} \in SUBSET D /\ list[m] \in Requests(a)
    BY <1>3, <1>7, <1>10, <2>1
  <2>3. c[s \ {m}] \in W => c[s] \in W
    BY <1>1, <2>2 DEF W
  <2> QED
    BY <2>2, <2>3
<1> HIDE DEF v, D
<1>11. IsFiniteSet(D) /\ D \in SUBSET D
  BY IndicesFinite DEF D
<1>12. c[D] \in v[D]
  BY <1>9, <1>10, <1>11, FoldStays
<1> QED
  BY <1>8, <1>11, <1>12 DEF v, W

-----------------------------------------------------------------------------
(* Opinions and votes. *)

\* What a strategy may say of an analysis.
OpinionType == [side : {"buy", "sell", "none", "error"}, conf : 0 .. 100]

\* A capped confidence is a percentage.
LEMMA CappedType ==
  ASSUME NEW x \in Nat, NEW cap \in 0 .. 100
  PROVE  Capped(x, cap) \in 0 .. 100
<1>1. Capped(x, cap) = IF x <= cap THEN x ELSE cap
  BY MinOfTwo DEF Capped
<1> QED
  BY <1>1

\* What a strategy says has a side and a percentage.
LEMMA OpinionIsTyped ==
  ASSUME NEW c \in 0 .. 100, NEW side \in {"buy", "sell", "none", "error"}
  PROVE  Opinion(side, c) \in OpinionType
  BY DEF Opinion, OpinionType

\* So has a BUY or a SELL with a confidence capped at 95.
LEMMA CappedOpinion ==
  ASSUME NEW x \in Nat, NEW side \in {"buy", "sell"}
  PROVE  Opinion(side, Capped(x, 95)) \in OpinionType
<1>1. Capped(x, 95) \in 0 .. 100
  BY CappedType, SMTT(30)
<1> QED
  BY <1>1, OpinionIsTyped

\* The EMA crossover gives an opinion on every analysis.
LEMMA EmaIsTyped ==
  ASSUME NEW a \in AnalysisType
  PROVE  EmaCrossover(a) \in OpinionType
<1>1. NoOpinion \in OpinionType
  BY OpinionIsTyped DEF NoOpinion
<1>2. CASE a.fast = None \/ a.slow = None
  BY <1>1, <1>2 DEF EmaCrossover
<1>3. CASE ~(a.fast = None \/ a.slow = None)
  <2>1. PICK f, s \in Nat \ {0} : f = a.fast /\ s = a.slow
    BY <1>3 DEF AnalysisType, Positive
  <2>2. f > s => 50 + ((f - s) * 1000) \div s \in Nat
    <3> SUFFICES ASSUME f > s PROVE 50 + ((f - s) * 1000) \div s \in Nat
      OBVIOUS
    <3>1. (f - s) * 1000 \in Nat
      OBVIOUS
    <3> QED
      BY <3>1
  <2>3. f < s => 50 + ((s - f) * 1000) \div f \in Nat
    <3> SUFFICES ASSUME f < s PROVE 50 + ((s - f) * 1000) \div f \in Nat
      OBVIOUS
    <3>1. (s - f) * 1000 \in Nat
      OBVIOUS
    <3> QED
      BY <3>1
  <2>4. /\ f > s => Opinion("buy", Capped(50 + ((f - s) * 1000) \div s, 95)) \in OpinionType
        /\ f < s => Opinion("sell", Capped(50 + ((s - f) * 1000) \div f, 95)) \in OpinionType
    <3>1. PICK x, y : x = 50 + ((f - s) * 1000) \div s /\ y = 50 + ((s - f) * 1000) \div f
      OBVIOUS
    <3>2. /\ f > s => x \in Nat
          /\ f < s => y \in Nat
      BY <2>2, <2>3, <3>1
    <3>3. /\ f > s => Opinion("buy", Capped(x, 95)) \in OpinionType
          /\ f < s => Opinion("sell", Capped(y, 95)) \in OpinionType
      BY <3>2, CappedOpinion
    <3> QED
      BY <3>1, <3>3
  <2> QED
    BY <1>1, <1>3, <2>1, <2>4 DEF EmaCrossover
<1> QED
  BY <1>2, <1>3

\* The MACD crossover gives an opinion on every analysis.
LEMMA MacdIsTyped ==
  ASSUME NEW a \in AnalysisType
  PROVE  MacdCrossover(a) \in OpinionType
<1>1. NoOpinion \in OpinionType
  BY OpinionIsTyped DEF NoOpinion
<1> DEFINE conf == Capped(50 + (Abs(a.hist) * 50000) \div a.price, 85)
<1>2. CASE a.hist = None
  BY <1>1, <1>2 DEF MacdCrossover
<1>3. CASE a.hist # None
  <2>1. PICK h \in Int, p \in Nat \ {0} : h = a.hist /\ p = a.price
    BY <1>3 DEF AnalysisType, Positive
  <2>2. PICK m \in Nat : m = Abs(h)
    BY DEF Abs
  <2>3. m * 50000 \in Nat
    OBVIOUS
  <2>4. 50 + (m * 50000) \div p \in Nat
    BY <2>3
  <2>5. conf \in 0 .. 100
    BY <2>1, <2>2, <2>4, CappedType, SMTT(30)
  <2>6. Opinion("buy", conf) \in OpinionType /\ Opinion("sell", conf) \in OpinionType
    <3> HIDE DEF conf
    <3> QED
      BY <2>5, OpinionIsTyped
  <2> QED
    BY <1>1, <1>3, <2>6 DEF MacdCrossover
<1> QED
  BY <1>2, <1>3

\* The RSI range strategy gives an opinion on every analysis.
LEMMA RsiIsTyped ==
  ASSUME NEW a \in AnalysisType
  PROVE  RsiRange(a) \in OpinionType
<1>1. NoOpinion \in OpinionType
  BY OpinionIsTyped DEF NoOpinion
<1>2. CASE a.rsi = None
  BY <1>1, <1>2 DEF RsiRange
<1>3. CASE a.rsi # None
  <2>1. PICK r \in Nat, o \in Nat : r = a.rsi /\ o = Oversold
    BY <1>3, StrategiesAssumption DEF AnalysisType
  <2>2. r < o => 50 + ((o - r) * 3) \div 2 \in Nat
    OBVIOUS
  <2>3. r > 100 - o => 50 + ((r - 100 + o) * 3) \div 2 \in Nat
    OBVIOUS
  <2>4. /\ r < o => Opinion("buy", Capped(50 + ((o - r) * 3) \div 2, 95)) \in OpinionType
        /\ r > 100 - o => Opinion("sell", Capped(50 + ((r - 100 + o) * 3) \div 2, 95)) \in OpinionType
    <3>1. PICK x, y : x = 50 + ((o - r) * 3) \div 2 /\ y = 50 + ((r - 100 + o) * 3) \div 2
      OBVIOUS
    <3>2. /\ r < o => x \in Nat
          /\ r > 100 - o => y \in Nat
      BY <2>2, <2>3, <3>1
    <3>3. /\ r < o => Opinion("buy", Capped(x, 95)) \in OpinionType
          /\ r > 100 - o => Opinion("sell", Capped(y, 95)) \in OpinionType
      BY <3>2, CappedOpinion
    <3> QED
      BY <3>1, <3>3
  <2> QED
    BY <1>1, <1>3, <2>1, <2>4 DEF RsiRange
<1> QED
  BY <1>2, <1>3

\* The Bollinger bands strategy gives an opinion on every analysis.
LEMMA BollingerIsTyped ==
  ASSUME NEW a \in AnalysisType
  PROVE  BollingerBands(a) \in OpinionType
<1>1. NoOpinion \in OpinionType
  BY OpinionIsTyped DEF NoOpinion
<1>2. PICK p, u, l \in Int : p = a.price /\ u = a.upper /\ l = a.lower
  BY DEF AnalysisType, Positive
<1>3. PICK w \in Int : w = u - l
  OBVIOUS
<1>4. PICK n : n = (w * Proximity) \div 100
  OBVIOUS
<1>5. n \in Int
  BY <1>4, StrategiesAssumption
<1> DEFINE conf(d) == Capped(55 + (d * 500) \div w, 95)
<1>6. ASSUME NEW d \in Nat, w > 0 PROVE conf(d) \in 0 .. 100
  <2>1. d * 500 \in Nat /\ w \in Nat \ {0}
    BY <1>6
  <2>2. 55 + (d * 500) \div w \in Nat
    BY <2>1
  <2> QED
    BY <2>2, CappedType, SMTT(30)
<1>7. BollingerBands(a) = IF w <= 0 THEN NoOpinion
                          ELSE IF p <= l + n THEN Opinion("buy", conf(l + n - p))
                          ELSE IF p >= u - n THEN Opinion("sell", conf(p - u + n))
                          ELSE NoOpinion
  BY <1>2, <1>3, <1>4 DEF BollingerBands
<1> HIDE DEF conf
<1>8. w > 0 /\ p <= l + n => Opinion("buy", conf(l + n - p)) \in OpinionType
  <2>1. p <= l + n => l + n - p \in Nat
    BY <1>5
  <2> QED
    BY <1>6, <2>1, OpinionIsTyped
<1>9. w > 0 /\ p >= u - n => Opinion("sell", conf(p - u + n)) \in OpinionType
  <2>1. p >= u - n => p - u + n \in Nat
    BY <1>5
  <2> QED
    BY <1>6, <2>1, OpinionIsTyped
<1> QED
  BY <1>1, <1>7, <1>8, <1>9

\* Every strategy gives an opinion on every analysis, a broken one included.
LEMMA OpinionOfType ==
  ASSUME NEW a \in AnalysisType, NEW name \in StrategyNames
  PROVE  OpinionOf(name, a) \in OpinionType
<1>1. Opinion("error", 0) \in OpinionType
  BY OpinionIsTyped
<1> QED
  BY <1>1, EmaIsTyped, MacdIsTyped, RsiIsTyped, BollingerIsTyped DEF OpinionOf, StrategyNames

\* The ballots hold one opinion for each strategy of the list.
LEMMA OpinionsType ==
  ASSUME NEW a \in AnalysisType
  PROVE  Opinions(a) \in [1 .. Len(Strategies) -> OpinionType] /\ Len(Opinions(a)) = Len(Strategies)
<1>1. DOMAIN Strategies = 1 .. Len(Strategies) /\ Len(Strategies) \in Nat
      /\ \A i \in DOMAIN Strategies : Strategies[i] \in StrategyNames
  BY StrategiesAssumption
<1>2. \A i \in 1 .. Len(Strategies) : OpinionOf(Strategies[i], a) \in OpinionType
  BY <1>1, OpinionOfType
<1> QED
  BY <1>1, <1>2 DEF Opinions

\* What the runner may say of a symbol.
SaidType == [side : Sides, conf : 0 .. 100]

\* The mean of n percentages is a percentage.
LEMMA QuotientWithin ==
  ASSUME NEW n \in Nat \ {0}, NEW x \in 0 .. n * 100
  PROVE  x \div n \in 0 .. 100
<1>1. PICK d : d = x \div n
  OBVIOUS
<1>2. x \in Nat /\ x <= n * 100
  OBVIOUS
<1>3. d \in Nat /\ n * d <= x
  BY <1>1, <1>2
<1>4. CASE d <= 100
  BY <1>1, <1>3, <1>4
<1>5. CASE d > 100
  <2>1. PICK e \in Nat : d = 101 + e
    <3>1. d - 101 \in Nat /\ d = 101 + (d - 101)
      BY <1>3, <1>5
    <3> QED
      BY <3>1
  <2>2. n * d = n * 100 + n + n * e /\ n * e \in Nat /\ n * 100 \in Nat
    BY <2>1
  <2> QED
    BY <1>2, <1>3, <2>2
<1> QED
  BY <1>3, <1>4, <1>5

\* There are finitely many strategies.
LEMMA StrategiesFinite ==
  ASSUME NEW V, V \subseteq DOMAIN Strategies
  PROVE  IsFiniteSet(V) /\ Cardinality(V) \in Nat
<1>1. Len(Strategies) \in Nat /\ DOMAIN Strategies = 1 .. Len(Strategies)
  BY StrategiesAssumption
<1>2. PICK n : n = Len(Strategies) /\ n \in Nat /\ DOMAIN Strategies = 1 .. n
  BY <1>1
<1>3. IsFiniteSet(1 .. n)
  BY <1>2, IndicesFinite
<1> QED
  BY <1>2, <1>3, FS_Subset, FS_CardinalityType

\* A consensus speaks with a mean confidence, which is a percentage (_build_consensus).
LEMMA ConsensusType ==
  ASSUME NEW ballots \in [DOMAIN Strategies -> OpinionType], NEW side \in Sides
  PROVE  BuildConsensus(ballots, side) \in Seq(SaidType)
<1>1. PICK S : S = Voting(ballots, side)
  OBVIOUS
<1>2. PICK f : f = [i \in DOMAIN ballots |-> ballots[i].conf]
  OBVIOUS
<1>3. S \subseteq DOMAIN Strategies /\ \A x \in S : f[x] \in 0 .. 100
  BY <1>1, <1>2 DEF Voting, OpinionType
<1>4. IsFiniteSet(S) /\ Cardinality(S) \in Nat
  BY <1>3, StrategiesFinite
<1>5. CASE S = {}
  BY <1>1, <1>5 DEF BuildConsensus
<1>6. CASE S # {}
  <2>1. PICK n \in Nat : n = Cardinality(S)
    BY <1>4
  <2>2. n # 0
    BY <1>4, <1>6, <2>1, FS_EmptySet
  <2>3. 100 \in Nat
    OBVIOUS
  <2>4. SumFunctionOnSet(f, S) \in 0 .. n * 100
    BY <1>3, <1>4, <2>1, <2>3, SumWithin
  <2>5. SumFunctionOnSet(f, S) \div n \in 0 .. 100
    BY <2>2, <2>4, QuotientWithin
  <2>6. PICK m \in 0 .. 100 : m = Mean(ballots, S)
    BY <1>2, <2>1, <2>5 DEF Mean
  <2>7. BuildConsensus(ballots, side) = IF m < MinConfidence THEN <<>> ELSE <<Opinion(side, m)>>
    BY <1>1, <1>6, <2>6 DEF BuildConsensus
  <2>8. Opinion(side, m) \in SaidType
    BY DEF Opinion, SaidType
  <2> QED
    BY <2>7, <2>8
<1> QED
  BY <1>5, <1>6

\* Neither the ensemble nor the strategies one by one say more than a side and a percentage.
LEMMA SaysType ==
  ASSUME NEW a \in AnalysisType, NEW held, NEW cash
  PROVE  /\ EnsembleSignals(a, held, cash) \in Seq(SaidType)
         /\ IndividualSignals(a, held, cash) \in Seq(SaidType)
<1>1. /\ DOMAIN Strategies = 1 .. Len(Strategies) /\ Len(Strategies) \in Nat
      /\ \A i \in DOMAIN Strategies : Strategies[i] \in StrategyNames
  BY StrategiesAssumption
<1>2. \A i \in DOMAIN Strategies : OpinionOf(Strategies[i], a) \in OpinionType
  BY <1>1, OpinionOfType
<1>3. EnsembleSignals(a, held, cash) \in Seq(SaidType)
  <2> DEFINE ballots == [i \in DOMAIN Strategies |->
                           LET o == OpinionOf(Strategies[i], a)
                           IN  IF Preflight(o, held, cash) THEN o ELSE NoOpinion]
  <2>1. NoOpinion \in OpinionType
    BY OpinionIsTyped DEF NoOpinion
  <2>2. ballots \in [DOMAIN Strategies -> OpinionType]
    BY <1>2, <2>1
  <2>3. EnsembleSignals(a, held, cash) = Vote(ballots)
    BY DEF EnsembleSignals
  <2> HIDE DEF ballots
  <2>4. BuildConsensus(ballots, "buy") \in Seq(SaidType) /\ BuildConsensus(ballots, "sell") \in Seq(SaidType)
    BY <2>2, ConsensusType DEF Sides
  <2> QED
    BY <2>3, <2>4 DEF Vote
<1>4. IndividualSignals(a, held, cash) \in Seq(SaidType)
  <2>1. PICK n \in Nat : n = Len(Strategies)
    BY <1>1
  <2>2. PICK all : all = Opinions(a)
    OBVIOUS
  <2>3. DOMAIN all = 1 .. n /\ \A i \in 1 .. n : all[i] \in OpinionType
    BY <1>1, <1>2, <2>1, <2>2 DEF Opinions
  <2>4. PICK at : at = {i \in DOMAIN all : /\ Actionable(all[i]) /\ Preflight(all[i], held, cash)
                                           /\ all[i].conf >= MinConfidence}
    OBVIOUS
  <2>5. at \in SUBSET (1 .. n) /\ \A i \in at : all[i] \in SaidType
    BY <2>3, <2>4 DEF Actionable, OpinionType, SaidType, Sides
  <2>6. IndividualSignals(a, held, cash) = Sublist(all, at)
    BY <2>2, <2>4 DEF IndividualSignals
  <2>7. Sublist(all, at) \in Ordered(all, at, SaidType)
    BY <2>5, SublistIsOrdered
  <2> QED
    BY <2>6, <2>7 DEF Ordered
<1> QED
  BY <1>3, <1>4

\* Signals at the prices of the analyses; an advised stop of a BUY is below.
Signals(a) ==
  {x \in [sym : Symbols, side : Sides, conf : 0 .. 100, price : Positive, stop : Int \cup {None}] :
     /\ x.sym \in DOMAIN a /\ x.price = a[x.sym].price
     /\ x.side = "buy" /\ x.stop # None => x.stop < x.price}

\* The analyses of some of the symbols.
Found == UNION {[got -> Analyses] : got \in SUBSET Symbols}

\* What the analyses of a cycle hold of a symbol.
LEMMA FoundType ==
  ASSUME NEW a \in Found
  PROVE  DOMAIN a \subseteq Symbols /\ \A s \in DOMAIN a : a[s] \in AnalysisType /\ a[s] \in Analyses
                                                          /\ a[s].price \in Positive
<1>1. DOMAIN a \subseteq Symbols /\ \A s \in DOMAIN a : a[s] \in Analyses
  BY DEF Found
<1> QED
  BY <1>1, DecisionsAssumption DEF AnalysisType

\* The signals of one symbol carry the price of its analysis.
LEMMA SignalsOfType ==
  ASSUME analyses \in Found, NEW s \in DOMAIN analyses
  PROVE  SignalsOf(s) \in Seq(Signals(analyses))
<1>1. s \in Symbols /\ analyses[s] \in AnalysisType /\ analyses[s].price \in Positive
  BY FoundType
<1>2. PICK says : says = IF ensemble THEN EnsembleSignals(analyses[s], Holds(pf, s), pf.cash)
                                     ELSE IndividualSignals(analyses[s], Holds(pf, s), pf.cash)
  OBVIOUS
<1>3. says \in Seq(SaidType)
  BY <1>1, <1>2, SaysType
<1>4. SignalsOf(s) = [i \in DOMAIN says |-> [sym |-> s, side |-> says[i].side, conf |-> says[i].conf,
                                             price |-> analyses[s].price, stop |-> None]]
  BY <1>2 DEF SignalsOf
<1>5. \A i \in DOMAIN says : SignalsOf(s)[i] \in Signals(analyses)
  <2> SUFFICES ASSUME NEW i \in DOMAIN says PROVE SignalsOf(s)[i] \in Signals(analyses)
    OBVIOUS
  <2>1. says[i] \in SaidType
    BY <1>3
  <2>2. PICK d \in Sides, c \in 0 .. 100 : d = says[i].side /\ c = says[i].conf
    BY <2>1 DEF SaidType
  <2>3. SignalsOf(s)[i] = [sym |-> s, side |-> d, conf |-> c, price |-> analyses[s].price, stop |-> None]
    BY <1>4, <2>2
  <2> QED
    BY <1>1, <2>3 DEF Signals
<1> QED
  BY <1>3, <1>4, <1>5

\* So do the signals of all symbols (StrategyRunner.evaluate).
LEMMA AllSignalsType ==
  ASSUME analyses \in Found
  PROVE  AllSignals \in Seq(Signals(analyses))
<1>1. PICK W : W = Seq(Signals(analyses))
  OBVIOUS
<1>2. \A q \in W, s \in DOMAIN analyses : q \o SignalsOf(s) \in W
  BY <1>1, SignalsOfType
<1>3. PICK m \in Nat : DOMAIN SymbolList = 1 .. m
  BY DecisionsAssumption
<1>4. PICK at : at = {i \in DOMAIN SymbolList : SymbolList[i] \in DOMAIN analyses}
  OBVIOUS
<1>5. at \in SUBSET (1 .. m) /\ \A i \in at : SymbolList[i] \in DOMAIN analyses
  BY <1>3, <1>4
<1>6. PICK list : list = Sublist(SymbolList, at)
  OBVIOUS
<1>7. list \in Seq(DOMAIN analyses)
  BY <1>5, <1>6, SublistIsOrdered DEF Ordered
<1>8. PICK n \in Nat : n = Len(list)
  BY <1>7
<1>9. DOMAIN list = 1 .. n /\ \A i \in 1 .. n : list[i] \in DOMAIN analyses
  BY <1>7, <1>8
<1> DEFINE D == 1 .. n
           k == [s \in SUBSET D |-> Max(s)]
           g == [q \in D \X W |-> q[2] \o SignalsOf(list[q[1]])]
           Q(t) == t = [s \in SUBSET D |->
                          IF s = {} THEN <<>> ELSE t[s \ {Max(s)}] \o SignalsOf(list[Max(s)])]
           c == CHOOSE t : Q(t)
           v == [s \in SUBSET D |-> W]
<1>10. \A s \in SUBSET D : s # {} => Max(s) \in s
  BY MaxIsLargest
<1>11. Folding(D, W, k, g)
  BY <1>2, <1>9, <1>10 DEF Folding
<1>12. PICK h : Folds(h, D, W, <<>>, k, g)
  <2>1. IsFiniteSet(D) /\ <<>> \in W
    BY <1>1, IndicesFinite
  <2> HIDE DEF D, k, g
  <2> QED
    BY <1>11, <2>1, FoldExists
<1>13. Q(c)
  <2>1. \A s \in SUBSET D : s # {} =>
          g[<<k[s], h[s \ {k[s]}]>>] = h[s \ {Max(s)}] \o SignalsOf(list[Max(s)])
    BY <1>10, <1>12 DEF Folds
  <2>2. \A s \in SUBSET D :
          h[s] = IF s = {} THEN <<>> ELSE h[s \ {Max(s)}] \o SignalsOf(list[Max(s)])
    <3> HIDE DEF g
    <3> QED
      BY <1>12, <2>1 DEF Folds
  <2>3. Q(h)
    BY <1>12, <2>2 DEF Folds
  <2> HIDE DEF Q
  <2> QED
    BY <2>3
<1>14. AllSignals = c[D]
  BY <1>4, <1>6, <1>9 DEF AllSignals, FoldLeft, MapThenFoldSet
<1> HIDE DEF c
<1>15. c[{}] \in v[{}]
  BY <1>1, <1>13
<1>16. ASSUME NEW s \in SUBSET D, s # {}
       PROVE  \E x \in s : c[s \ {x}] \in v[s \ {x}] => c[s] \in v[s]
  <2>1. PICK i \in s : i = Max(s)
    BY <1>10, <1>16
  <2>2. c[s] = c[s \ {i}] \o SignalsOf(list[i]) /\ s \ {i} \in SUBSET D /\ list[i] \in DOMAIN analyses
    BY <1>9, <1>13, <1>16, <2>1
  <2>3. c[s \ {i}] \in W => c[s] \in W
    BY <1>2, <2>2
  <2> QED
    BY <2>2, <2>3
<1> HIDE DEF v, D
<1>17. IsFiniteSet(D) /\ D \in SUBSET D
  BY IndicesFinite DEF D
<1>18. c[D] \in v[D]
  BY <1>15, <1>16, <1>17, FoldStays
<1> QED
  BY <1>1, <1>14, <1>17, <1>18 DEF v

-----------------------------------------------------------------------------
(* Requests. *)

\* A signal always gets a stop, whatever the crew or the volatility says of it; the stop of
\* a BUY is below its price.
LEMMA StopLossType ==
  ASSUME NEW a \in Found, NEW sig \in Signals(a), NEW atr \in Nat \cup {None},
         sig.price * Risk.stop_loss >= 100
  PROVE  StopLoss(sig, atr) \in Int /\ (sig.side = "buy" => StopLoss(sig, atr) < sig.price)
<1>1. PICK p \in Nat : p = sig.price
  BY DEF Signals, Positive
<1>2. Risk.stop_loss \in Nat /\ AtrMultiplier \in Nat \ {0}
  BY RiskAssumption DEF RiskParams
<1>3. CASE sig.stop # None
  BY <1>1, <1>3 DEF StopLoss, Signals
<1>4. CASE sig.stop = None /\ StopMethod = "atr" /\ atr # None /\ atr > 0
  <2>1. atr * AtrMultiplier \in Nat \ {0}
    BY <1>2, <1>4
  <2>2. StopLoss(sig, atr) = StopAt(sig, atr * AtrMultiplier)
    BY <1>4 DEF StopLoss, AtrStop
  <2> QED
    BY <1>1, <2>1, <2>2 DEF StopAt
<1>5. CASE sig.stop = None /\ ~(StopMethod = "atr" /\ atr # None /\ atr > 0)
  <2>1. PICK x \in Nat : x = p * Risk.stop_loss /\ x >= 100
    BY <1>1, <1>2
  <2>2. (p * Risk.stop_loss) \div 100 \in Nat \ {0}
    BY <2>1, HundredthIsPositive
  <2>3. StopLoss(sig, atr) = StopAt(sig, (p * Risk.stop_loss) \div 100)
    BY <1>1, <1>5 DEF StopLoss, FixedStop
  <2> QED
    BY <1>1, <2>2, <2>3 DEF StopAt
<1> QED
  BY <1>3, <1>4, <1>5

\* The position size divides by a positive risk for each unit, is an amount, and stays
\* within the position limit.
LEMMA PositionSizeType ==
  ASSUME NEW cash \in Nat, NEW entry \in Nat, entry * Risk.stop_loss >= 100, NEW stop \in Int
  PROVE  /\ PositionSize(cash, entry, stop) \in Nat
         /\ PositionSize(cash, entry, stop) * 100 <= Risk.max_position * cash
<1>1. Risk.stop_loss \in Nat /\ Risk.per_trade \in Nat /\ Risk.max_position \in Nat
  BY RiskAssumption DEF RiskParams
<1>2. StopDistance(entry, stop) \in Nat \ {0}
  <2>1. (entry * Risk.stop_loss) \div 100 \in Nat \ {0}
    <3>1. PICK x \in Nat : x = entry * Risk.stop_loss /\ x >= 100
      BY <1>1
    <3> QED
      BY <3>1, HundredthIsPositive
  <2>2. stop # entry => Magnitude(entry - stop) \in Nat \ {0}
    BY DEF Magnitude
  <2> QED
    BY <2>1, <2>2 DEF StopDistance
<1>3. RiskBasedSize(cash, entry, stop) \in Nat
  <2>1. PICK d \in Nat \ {0} : d = StopDistance(entry, stop)
    BY <1>2
  <2>2. cash * Risk.per_trade * entry \in Nat /\ 100 * d \in Nat \ {0}
    <3>1. cash * Risk.per_trade \in Nat
      BY <1>1
    <3>2. cash * Risk.per_trade * entry \in Nat
      BY <3>1
    <3>3. 100 * d \in Nat \ {0}
      OBVIOUS
    <3> QED
      BY <3>2, <3>3
  <2>3. PICK x \in Nat, y \in Nat \ {0} : x = cash * Risk.per_trade * entry /\ y = 100 * d
    BY <2>2
  <2>4. x \div y \in Nat
    OBVIOUS
  <2> QED
    BY <2>1, <2>3, <2>4 DEF RiskBasedSize
<1>4. (cash * Risk.max_position) \div 100 \in Nat
  <2>1. cash * Risk.max_position \in Nat
    BY <1>1
  <2> QED
    BY <2>1
<1>5. PICK l \in Nat : l = (cash * Risk.max_position) \div 100
  BY <1>4
<1>6. l * 100 <= Risk.max_position * cash
  <2>1. PICK x \in Nat : x = cash * Risk.max_position /\ x = Risk.max_position * cash
    BY <1>1
  <2>2. 100 * l <= x
    BY <1>5, <2>1
  <2>3. l * 100 <= x
    BY <2>2
  <2> QED
    BY <2>1, <2>3
<1>7. PICK b \in Nat : b = RiskBasedSize(cash, entry, stop)
  BY <1>3
<1>8. PICK m \in Nat : m = Min({b, l, cash}) /\ m <= l
  BY MinOfThree
<1>9. PICK w \in Nat : w = Risk.max_position * cash
  BY <1>1
<1>10. m * 100 <= w /\ 0 * 100 <= w
  BY <1>6, <1>8, <1>9
<1>11. PositionSize(cash, entry, stop) = IF cash <= 0 THEN 0 ELSE m
  BY <1>5, <1>7, <1>8 DEF PositionSize
<1> QED
  BY ONLY <1>8, <1>9, <1>10, <1>11

\* What a BUY may add to a portfolio: nothing to a position whose stop it is not
\* above, no more than a position may cost, and no more than the exposure allows.
Bearable(p, r) ==
  /\ AntiAveragingDown => Below(p, r.sym, r.price)
  /\ r.qty * r.price * 100 <= Risk.max_position * p.cash
  /\ (MarketValue(p) + r.qty * r.price) * 100 <= Risk.max_exposure * TotalBalance(p)

\* Requests each of which the portfolio could bear alone.
Held(a, p) == {r \in Requests(a) : /\ r.side = "sell" => Holds(p, r.sym)
                                   /\ r.side = "buy" => Bearable(p, r)}

\* A BUY that is approved is bearable.
LEMMA ApprovedBuy ==
  ASSUME NEW a \in Found, NEW p \in Portfolios, NEW sig \in Signals(a), NEW st \in Int, NEW v \in Nat,
         v * 100 <= Risk.max_position * p.cash,
         WithinExposure(p, v), ~AveragesDown(p, sig),
         NEW r, r.sym = sig.sym, r.price = sig.price, r.qty = v \div sig.price
  PROVE  Bearable(p, r)
<1>1. /\ sig.sym \in Symbols /\ sig.price \in Positive /\ p.cash \in Nat
      /\ p.pos[sig.sym] \in Position
  BY DEF Signals, Portfolios
<1>2. Risk.max_position \in Nat /\ Risk.max_exposure \in Nat /\ AntiAveragingDown \in BOOLEAN
  BY RiskAssumption DEF RiskParams
<1>3. PICK k \in Nat, e \in Positive : k = r.qty /\ e = r.price /\ k * e \in Nat /\ k * e <= v
  BY <1>1, Affordable
<1>4. PICK c \in Nat : c = k * e /\ c <= v /\ c = r.qty * r.price
  BY <1>3
<1>5. r.qty * r.price * 100 <= Risk.max_position * p.cash
  <2>1. PICK w \in Nat : w = Risk.max_position * p.cash
    BY <1>1, <1>2
  <2>2. v * 100 <= w
    BY <2>1
  <2>3. c * 100 <= w
    BY <1>4, <2>2
  <2> QED
    BY <1>4, <2>1, <2>3
<1>6. (MarketValue(p) + r.qty * r.price) * 100 <= Risk.max_exposure * TotalBalance(p)
  <2>1. PICK x \in Nat : x = MarketValue(p)
    BY MarketValueIsSum
  <2>2. PICK w \in Nat : w = Risk.max_exposure * TotalBalance(p)
    BY <1>1, <1>2, <2>1 DEF TotalBalance
  <2>3. (x + v) * 100 <= w
    BY <2>1, <2>2 DEF WithinExposure
  <2>4. (x + c) * 100 <= w
    BY <1>4, <2>3
  <2> QED
    BY <1>4, <2>1, <2>2, <2>4
<1>7. ASSUME AntiAveragingDown PROVE Below(p, r.sym, r.price)
  <2> SUFFICES ASSUME Holds(p, sig.sym) PROVE p.pos[sig.sym].stop < sig.price
    BY DEF Below
  <2>1. p.pos[sig.sym].stop \in Int
    BY <1>1 DEF Holds, Position
  <2>2. CASE p.pos[sig.sym].stop = None
    BY <2>1, <2>2, OptionalAssumption
  <2>3. CASE p.pos[sig.sym].stop # None
    <3>1. ~(sig.price <= p.pos[sig.sym].stop)
      BY <1>7, <2>3 DEF AveragesDown
    <3>2. PICK x, y \in Int : x = p.pos[sig.sym].stop /\ y = sig.price
      BY <1>1, <2>1 DEF Positive
    <3> QED
      BY <3>1, <3>2
  <2> QED
    BY <2>2, <2>3
<1> QED
  BY <1>5, <1>6, <1>7 DEF Bearable

\* What the pipeline makes of a signal.
LEMMA RequestOfType ==
  ASSUME NEW a \in Found, NEW p \in Portfolios, NEW sig \in Signals(a), NEW atr \in Nat \cup {None}, NEW be
  PROVE  LET r == RequestOf(p, sig, atr, be)
         IN  /\ r.sym = sig.sym /\ r.side = sig.side /\ r.qty \in Nat
             /\ r.qty > 0 => r \in Held(a, p)
<1>1. /\ sig.sym \in Symbols /\ sig.sym \in DOMAIN a /\ sig.price \in Positive /\ sig.price = a[sig.sym].price
      /\ sig.side \in Sides
  BY DEF Signals
<1>2. PICK e \in Nat \ {0} : e = sig.price /\ e * Risk.stop_loss >= 100
  <2>1. a[sig.sym] \in Analyses
    BY <1>1, FoundType
  <2> QED
    BY <1>1, <2>1, DecisionsAssumption DEF Positive
<1>3. StopLoss(sig, atr) \in Int /\ (sig.side = "buy" => StopLoss(sig, atr) < sig.price)
  BY <1>2, StopLossType
<1>4. p.cash \in Nat /\ p.pos[sig.sym].qty \in Nat
  BY <1>1 DEF Portfolios, Position, PositionType
<1>5. PICK v \in Nat : /\ v = PositionSize(p.cash, sig.price, StopLoss(sig, atr))
                       /\ v * 100 <= Risk.max_position * p.cash
  BY <1>2, <1>3, <1>4, PositionSizeType
<1>6. v \div e \in Nat
  OBVIOUS
<1>7. /\ SellAmount(p, sig, atr, be) \in Nat
      /\ SellAmount(p, sig, atr, be) > 0 => Holds(p, sig.sym)
  <2>1. PICK q \in Nat : q = p.pos[sig.sym].qty
    BY <1>4
  <2>2. Min({v \div e, q}) \in Nat
    <3>1. PICK x \in Nat : x = v \div e
      BY <1>6
    <3> QED
      BY <3>1, MinOfTwo
  <2>3. SellAmount(p, sig, atr, be) =
          IF ~Holds(p, sig.sym) \/ ~SellAllowed(sig, be) THEN 0
          ELSE IF v > 0 THEN Min({v \div e, q}) ELSE q
    BY <1>2, <1>5, <2>1 DEF SellAmount
  <2> QED
    BY <2>2, <2>3
<1>8. /\ BuyAmount(p, sig, atr) \in Nat
      /\ BuyAmount(p, sig, atr) > 0 =>
           WithinExposure(p, v) /\ ~AveragesDown(p, sig) /\ BuyAmount(p, sig, atr) = v \div e
  <2>1. BuyAmount(p, sig, atr) =
          IF \/ AveragesDown(p, sig) \/ v <= 0
             \/ ~WithinExposure(p, v) \/ ~WithinConcentration(p, sig.sym, v)
            THEN 0 ELSE v \div e
    BY <1>2, <1>5 DEF BuyAmount
  <2> QED
    BY <1>6, <2>1
<1>9. PICK n \in Nat : /\ n = ApprovedAmount(p, sig, atr, be)
                       /\ n > 0 /\ sig.side = "sell" => Holds(p, sig.sym)
                       /\ n > 0 /\ sig.side = "buy" =>
                            WithinExposure(p, v) /\ ~AveragesDown(p, sig) /\ n = v \div e
  BY <1>7, <1>8 DEF ApprovedAmount
<1>10. PICK st \in Int : st = StopLoss(sig, atr) /\ (sig.side = "buy" => st < sig.price)
  BY <1>3
<1>11. PICK r : r = [sym |-> sig.sym, side |-> sig.side, price |-> sig.price, stop |-> st, qty |-> n]
  OBVIOUS
<1>12. RequestOf(p, sig, atr, be) = r
  BY <1>9, <1>10, <1>11 DEF RequestOf
<1>13. n > 0 => r \in Requests(a)
  BY <1>1, <1>2, <1>10, <1>11 DEF Requests, RequestType
<1>14. r.sym = sig.sym /\ r.price = sig.price /\ r.qty = n /\ r.side = sig.side
  BY <1>11
<1>15. n > 0 /\ sig.side = "buy" => Bearable(p, r)
  BY <1>2, <1>5, <1>9, <1>10, <1>14, ApprovedBuy
<1>16. n > 0 => r \in Held(a, p)
  BY <1>9, <1>13, <1>14, <1>15 DEF Held
<1> QED
  BY <1>9, <1>12, <1>14, <1>16

\* The pipeline's requests, and whose they are.
LEMMA RequestsOfType ==
  ASSUME analyses \in Found, pf \in Portfolios, NEW sigs \in Seq(Signals(analyses))
  PROVE  /\ RequestsOf(sigs) \in Seq(Held(analyses, pf))
         /\ \A i \in DOMAIN RequestsOf(sigs) : \E j \in DOMAIN sigs : RequestsOf(sigs)[i].sym = sigs[j].sym
<1>1. PICK n \in Nat : n = Len(sigs)
  OBVIOUS
<1>2. DOMAIN sigs = 1 .. n /\ \A i \in 1 .. n : sigs[i] \in Signals(analyses)
  BY <1>1
<1>3. PICK asked : asked = [i \in DOMAIN sigs |-> RequestOf(pf, sigs[i], analyses[sigs[i].sym].atr,
                                                            breakEven[sigs[i].sym])]
  OBVIOUS
<1>4. \A i \in 1 .. n : /\ asked[i].sym = sigs[i].sym
                        /\ asked[i].qty > 0 => asked[i] \in Held(analyses, pf)
  <2> SUFFICES ASSUME NEW i \in 1 .. n
               PROVE  /\ asked[i].sym = sigs[i].sym
                      /\ asked[i].qty > 0 => asked[i] \in Held(analyses, pf)
    OBVIOUS
  <2>1. PICK sig \in Signals(analyses) : sig = sigs[i]
    BY <1>2
  <2>2. analyses[sig.sym].atr \in Nat \cup {None}
    <3>1. sig.sym \in DOMAIN analyses
      BY DEF Signals
    <3> QED
      BY <3>1, FoundType DEF AnalysisType
  <2>3. PICK t, be : t = analyses[sig.sym].atr /\ be = breakEven[sig.sym]
    OBVIOUS
  <2>4. asked[i] = RequestOf(pf, sig, t, be)
    BY <1>2, <1>3, <2>1, <2>3
  <2>5. asked[i].sym = sig.sym /\ (asked[i].qty > 0 => asked[i] \in Held(analyses, pf))
    <3>1. PICK a \in Found, p \in Portfolios : a = analyses /\ p = pf
      OBVIOUS
    <3>2. sig \in Signals(a) /\ t \in Nat \cup {None} /\ asked[i] = RequestOf(p, sig, t, be)
      BY <2>2, <2>3, <2>4, <3>1
    <3>3. asked[i].sym = sig.sym /\ (asked[i].qty > 0 => asked[i] \in Held(a, p))
      BY <3>2, RequestOfType
    <3> QED
      BY <3>1, <3>3
  <2> QED
    BY <2>1, <2>5
<1>5. PICK at : at = {i \in DOMAIN asked : asked[i].qty > 0}
  OBVIOUS
<1>6. DOMAIN asked = 1 .. n /\ at \in SUBSET (1 .. n) /\ \A i \in at : asked[i] \in Held(analyses, pf)
  BY <1>2, <1>3, <1>4, <1>5
<1>7. PICK q : q = Sublist(asked, at)
  OBVIOUS
<1>8. q \in Ordered(asked, at, Held(analyses, pf))
  BY <1>6, <1>7, SublistIsOrdered
<1>9. q \in Seq(Held(analyses, pf)) /\ \A i \in DOMAIN q : \E j \in DOMAIN sigs : q[i].sym = sigs[j].sym
  <2>1. q \in Seq(Held(analyses, pf)) /\ DOMAIN q = 1 .. Len(q)
    BY <1>8 DEF Ordered
  <2>2. PICK e \in [1 .. Len(q) -> at] : \A i \in 1 .. Len(q) : q[i] = asked[e[i]]
    BY <1>8 DEF Ordered
  <2>3. ASSUME NEW i \in DOMAIN q PROVE e[i] \in DOMAIN sigs /\ q[i].sym = sigs[e[i]].sym
    BY <1>2, <1>4, <1>6, <2>1, <2>2
  <2> QED
    BY <2>1, <2>3
<1>10. RequestsOf(sigs) = IF tripped \/ Breaches(pf) THEN <<>> ELSE q
  BY <1>3, <1>5, <1>7 DEF RequestsOf
<1> QED
  BY <1>9, <1>10

-----------------------------------------------------------------------------
(* Directives. *)

\* Stops at this distance are at least a unit away.
Tangible(param) == \A x \in Analyses : x.price * Clamp(param, 1, 500) >= 1000

\* The directives the crew may give.
Directives == {d \in DirectiveType : d.action = "tighten_stop_loss" /\ d.param # None => Tangible(d.param)}

\* What is kept of an answer of the crew is a list of directives.
LEMMA ParsedAnswerType ==
  ASSUME NEW answer \in Answers
  PROVE  ParsedAnswer(answer) \in Seq(Directives)
<1>1. answer.items \in Seq(DirectiveType)
  BY DecisionsAssumption
<1>2. PICK n \in Nat : DOMAIN answer.items = 1 .. n /\ \A i \in 1 .. n : answer.items[i] \in Directives
  <2>1. PICK n \in Nat : DOMAIN answer.items = 1 .. n /\ \A i \in 1 .. n : answer.items[i] \in DirectiveType
    BY <1>1
  <2>2. ASSUME NEW i \in 1 .. n PROVE answer.items[i] \in Directives
    <3>1. PICK d : d = answer.items[i]
      OBVIOUS
    <3>2. ASSUME d.action = "tighten_stop_loss", d.param # None PROVE Tangible(d.param)
      BY <2>1, <3>1, <3>2, DecisionsAssumption DEF Tangible
    <3> QED
      BY <2>1, <3>1, <3>2 DEF Directives
  <2> QED
    BY <2>1, <2>2
<1>3. PICK at : at = {i \in DOMAIN answer.items : answer.items[i].action \in Actions}
  OBVIOUS
<1>4. at \in SUBSET (1 .. n) /\ \A i \in at : answer.items[i] \in Directives
  BY <1>2, <1>3
<1>5. Sublist(answer.items, at) \in Seq(Directives)
  BY <1>4, SublistIsOrdered DEF Ordered
<1> QED
  BY <1>3, <1>5 DEF ParsedAnswer

\* An override is a number the crew gave, or there is none.
LEMMA OverrideType ==
  ASSUME NEW list \in Seq(Directives), NEW action, NEW sym
  PROVE  LET o == Override(list, action, sym)
         IN  o \in Int \cup {None} /\ (action = "tighten_stop_loss" /\ o # None => Tangible(o))
<1>1. PICK n \in Nat : DOMAIN list = 1 .. n /\ \A i \in 1 .. n : list[i] \in Directives
  OBVIOUS
<1> DEFINE About == {d \in Directives : d.action = action /\ d.param # None}
           Params == {x \in Int : action = "tighten_stop_loss" => Tangible(x)}
<1>2. PICK at : at = {i \in DOMAIN list : list[i].action = action /\ list[i].sym = sym /\ list[i].param # None}
  OBVIOUS
<1>3. at \in SUBSET (1 .. n) /\ \A i \in at : list[i] \in About
  BY <1>1, <1>2
<1>4. PICK these : these = Sublist(list, at)
  OBVIOUS
<1>a. \A d \in About : d.param \in Params
  BY DEF Directives, DirectiveType
<1> HIDE DEF About, Params
<1>5. these \in Seq(About)
  BY <1>3, <1>4, SublistIsOrdered DEF Ordered
<1>6. PICK found : found = [i \in DOMAIN these |-> these[i].param]
  OBVIOUS
<1>7. found \in Seq(Params)
  <2>1. \A i \in DOMAIN these : these[i].param \in Params
    <3>1. \A i \in DOMAIN these : these[i] \in About
      BY <1>5
    <3> QED
      BY <1>a, <3>1
  <2> QED
    BY <1>5, <1>6, <2>1
<1>8. found # <<>> => Last(found) \in Params
  <2> SUFFICES ASSUME found # <<>> PROVE found[Len(found)] \in Params
    BY DEF Last
  <2>1. Len(found) \in 1 .. Len(found)
    BY <1>7
  <2> QED
    BY <1>7, <2>1
<1>9. ParamsOf(list, action, sym) = found
  BY <1>2, <1>4, <1>6 DEF ParamsOf
<1>10. PICK o : o = Override(list, action, sym) /\ (o = None \/ o \in Params)
  BY <1>8, <1>9 DEF Override
<1> QED
  BY <1>10 DEF Params

\* A signal the crew adjusts stays a signal of its symbol at the analysed price, the stop of
\* a BUY below it.
LEMMA AdvisedType ==
  ASSUME NEW a \in Found, NEW sig \in Signals(a), NEW list \in Seq(Directives)
  PROVE  Advised(sig, list) \in Signals(a) /\ Advised(sig, list).sym = sig.sym
<1>1. /\ sig.sym \in Symbols /\ sig.side \in Sides /\ sig.conf \in 0 .. 100 /\ sig.price \in Positive
      /\ sig.stop \in Int \cup {None} /\ sig.sym \in DOMAIN a /\ sig.price = a[sig.sym].price
      /\ sig.side = "buy" /\ sig.stop # None => sig.stop < sig.price
      /\ sig = [sym |-> sig.sym, side |-> sig.side, conf |-> sig.conf, price |-> sig.price, stop |-> sig.stop]
  BY DEF Signals
<1>2. PICK mille, new, factor \in Int \cup {None} :
        /\ mille = Override(list, "tighten_stop_loss", sig.sym)
        /\ new = Override(list, "adjust_confidence", sig.sym)
        /\ factor = Override(list, "reduce_position_size", sig.sym)
  BY OverrideType
<1>d. mille # None => Tangible(mille)
  BY <1>2, OverrideType
<1>3. PICK c : c = AdvisedConfidence(sig, new, factor)
  OBVIOUS
<1>4. c \in 0 .. 100
  <2>1. CASE factor # None
    <3>1. PICK f \in 0 .. 100 : f = Clamp(factor, 1, 100)
      BY <2>1 DEF Clamp
    <3>2. PICK s \in 0 .. 100 : s = sig.conf
      BY <1>1
    <3>3. 100 \in Nat
      OBVIOUS
    <3>4. s * f \in 0 .. 100 * 100
      BY <3>3, ProductBound
    <3>5. (s * f) \div 100 \in 0 .. 100
      <4>1. PICK n \in Nat \ {0}, x \in Nat : n = 100 /\ x = s * f /\ x \in 0 .. n * 100
        BY <3>4
      <4>2. x \div n \in 0 .. 100
        BY ONLY <4>1, n \in Nat \ {0}, QuotientWithin
      <4> QED
        BY <4>1, <4>2
    <3> QED
      BY <1>3, <2>1, <3>1, <3>2, <3>5 DEF AdvisedConfidence
  <2>2. CASE factor = None /\ new # None
    BY <1>3, <2>2 DEF AdvisedConfidence, Clamp
  <2>3. CASE factor = None /\ new = None
    BY <1>1, <1>3, <2>3 DEF AdvisedConfidence
  <2> QED
    BY <2>1, <2>2, <2>3
<1>5. PICK t : t = IF mille = None THEN sig.stop ELSE AdvisedStop(sig, mille)
  OBVIOUS
<1>6. t \in Int \cup {None} /\ (sig.side = "buy" /\ t # None => t < sig.price)
  <2>1. CASE mille = None
    BY <1>1, <1>5, <2>1
  <2>2. CASE mille # None
    <3>1. PICK m \in Nat, p \in Nat : m = Clamp(mille, 1, 500) /\ p = sig.price
      BY <1>1, <2>2 DEF Clamp, Positive
    <3>2. PICK x \in Nat : x = p * m /\ x >= 1000
      <4>1. a[sig.sym] \in Analyses
        BY <1>1, FoundType
      <4>2. sig.price * Clamp(mille, 1, 500) >= 1000
        BY <1>1, <1>d, <2>2, <4>1 DEF Tangible
      <4> QED
        BY <3>1, <4>2
    <3>3. PICK d : d = x \div 1000
      OBVIOUS
    <3>4. d \in Nat \ {0}
      <4>1. d \in Nat /\ x < 1000 * (d + 1)
        BY <3>2, <3>3
      <4>2. d # 0
        BY <3>2, <4>1
      <4> QED
        BY <4>1, <4>2
    <3>5. t = IF sig.side = "sell" THEN p + d ELSE p - d
      BY <1>5, <2>2, <3>1, <3>2, <3>3 DEF AdvisedStop
    <3> QED
      BY <3>1, <3>4, <3>5
  <2> QED
    BY <2>1, <2>2
<1>7. Advised(sig, list) = [sig EXCEPT !.stop = t, !.conf = c]
  BY <1>2, <1>3, <1>5 DEF Advised
<1>8. Advised(sig, list) = [sym |-> sig.sym, side |-> sig.side, conf |-> c, price |-> sig.price, stop |-> t]
  BY <1>1, <1>7
<1> QED
  BY <1>1, <1>4, <1>6, <1>8 DEF Signals

\* What the crew vetoed is gone.
LEMMA ApplyDirectivesType ==
  ASSUME NEW a \in Found, NEW sigs \in Seq(Signals(a)), NEW list \in Seq(Directives)
  PROVE  /\ ApplyDirectives(sigs, list) \in Seq(Signals(a))
         /\ \A i \in DOMAIN ApplyDirectives(sigs, list) :
              ~SitsOut(list) /\ ~Vetoed(list, ApplyDirectives(sigs, list)[i].sym)
<1>1. CASE SitsOut(list)
  BY <1>1 DEF ApplyDirectives
<1>2. CASE ~SitsOut(list)
  <2>1. PICK n \in Nat : DOMAIN sigs = 1 .. n /\ \A i \in 1 .. n : sigs[i] \in Signals(a)
    OBVIOUS
  <2>2. PICK at : at = {i \in DOMAIN sigs : ~Vetoed(list, sigs[i].sym)}
    OBVIOUS
  <2> DEFINE Kept == {x \in Signals(a) : ~Vetoed(list, x.sym)}
  <2>3. at \in SUBSET (1 .. n) /\ \A i \in at : sigs[i] \in Kept
    BY <2>1, <2>2
  <2>4. PICK kept : kept = Sublist(sigs, at)
    OBVIOUS
  <2> HIDE DEF Kept
  <2>5. kept \in Seq(Kept)
    BY <2>3, <2>4, SublistIsOrdered DEF Ordered
  <2>6. ApplyDirectives(sigs, list) = [i \in DOMAIN kept |-> Advised(kept[i], list)]
    BY <1>2, <2>2, <2>4 DEF ApplyDirectives
  <2>7. \A i \in DOMAIN kept : Advised(kept[i], list) \in Kept
    <3>1. \A x \in Kept : Advised(x, list) \in Kept
      BY AdvisedType DEF Kept
    <3> QED
      BY <2>5, <3>1
  <2>8. ApplyDirectives(sigs, list) \in Seq(Kept)
    BY <2>5, <2>6, <2>7
  <2>9. PICK q : q = ApplyDirectives(sigs, list)
    OBVIOUS
  <2>10. q \in Seq(Signals(a)) /\ \A i \in DOMAIN q : ~Vetoed(list, q[i].sym)
    BY <2>8, <2>9 DEF Kept
  <2> QED
    BY <1>2, <2>9, <2>10
<1> QED
  BY <1>1, <1>2
-----------------------------------------------------------------------------
(* One SELL for each symbol. *)

\* What the list is after it: the BUYs, then one SELL per symbol sold, not above
\* what is held.
LEMMA DeduplicatedType ==
  ASSUME pf \in Portfolios, NEW a, NEW list \in Seq(Held(a, pf))
  PROVE  LET q == Deduplicated(list)
         IN  /\ q \in Seq(Held(a, pf))
             /\ \A i \in DOMAIN q : \E j \in DOMAIN list : q[i].sym = list[j].sym
             /\ \A i \in DOMAIN q : q[i].side = "sell" => q[i].qty <= pf.pos[q[i].sym].qty
             /\ \A i, j \in DOMAIN q :
                  q[i].side = "sell" /\ q[j].side = "sell" /\ q[i].sym = q[j].sym => i = j
<1>1. PICK n \in Nat : n = Len(list) /\ DOMAIN list = 1 .. n /\ \A i \in 1 .. n : list[i] \in Held(a, pf)
  OBVIOUS
<1>2. \A r \in Held(a, pf) :
         /\ r \in RequestType /\ r.sym \in Symbols /\ r.qty \in Nat \ {0} /\ r.side \in Sides
         /\ r.side = "sell" => pf.pos[r.sym].qty > 0
  BY DEF Held, Requests, RequestType, Holds
<1> DEFINE largest(s) == list[CHOOSE i \in SellsOf(list, s) :
                                \A j \in SellsOf(list, s) : list[j].qty <= list[i].qty]
           sell(s)    == [largest(s) EXCEPT !.qty = IF Holds(pf, s) THEN Min({@, pf.pos[s].qty}) ELSE @]
           first(i)   == /\ i \in SellsOf(list, list[i].sym)
                         /\ \A j \in SellsOf(list, list[i].sym) : i <= j
<1>3. PICK at : at = {i \in DOMAIN list : first(i)}
  OBVIOUS
<1>4. PICK bs : bs = {i \in DOMAIN list : list[i].side = "buy"}
  OBVIOUS
<1>5. PICK sold, bought : sold = Sublist(list, at) /\ bought = Sublist(list, bs)
  OBVIOUS
<1>6. PICK sells : sells = [i \in DOMAIN sold |-> sell(sold[i].sym)]
  OBVIOUS
<1>7. Deduplicated(list) = bought \o sells
  BY <1>3, <1>4, <1>5, <1>6, SMTT(30) DEF Deduplicated
<1>8. /\ at \in SUBSET (1 .. n) /\ \A i \in at : list[i] \in Held(a, pf)
      /\ bs \in SUBSET (1 .. n) /\ \A i \in bs : list[i] \in Held(a, pf)
  BY <1>1, <1>3, <1>4
<1>9. sold \in Ordered(list, at, Held(a, pf)) /\ bought \in Ordered(list, bs, Held(a, pf))
  BY <1>5, <1>8, SublistIsOrdered
<1>9a. PICK m \in Nat, b \in Nat : /\ m = Len(sold) /\ DOMAIN sold = 1 .. m
                                    /\ b = Len(bought) /\ DOMAIN bought = 1 .. b
  BY <1>9 DEF Ordered
<1>10. PICK e \in [1 .. m -> at] : /\ \A i \in 1 .. m : sold[i] = list[e[i]]
                                   /\ \A i, j \in 1 .. m : i < j => e[i] < e[j]
  BY <1>9, <1>9a DEF Ordered
<1>11. PICK d \in [1 .. b -> bs] : \A i \in 1 .. b : bought[i] = list[d[i]]
  BY <1>9, <1>9a DEF Ordered
<1>12. \A i \in 1 .. b : bought[i] \in Held(a, pf) /\ bought[i].side = "buy"
                         /\ \E j \in DOMAIN list : bought[i].sym = list[j].sym
  BY <1>1, <1>4, <1>8, <1>11
<1>13. \A s \in Symbols : SellsOf(list, s) # {} =>
         /\ sell(s) \in Held(a, pf) /\ sell(s).sym = s /\ sell(s).side = "sell"
         /\ sell(s).qty <= pf.pos[s].qty
  <2> SUFFICES ASSUME NEW s \in Symbols, SellsOf(list, s) # {}
               PROVE  /\ sell(s) \in Held(a, pf) /\ sell(s).sym = s /\ sell(s).side = "sell"
                      /\ sell(s).qty <= pf.pos[s].qty
    OBVIOUS
  <2>1. PICK S : S = SellsOf(list, s) /\ S \subseteq 1 .. n /\ S # {}
    BY <1>1 DEF SellsOf
  <2>2. PICK f : f = [i \in 1 .. n |-> list[i].qty]
    OBVIOUS
  <2>3. \A i \in 1 .. n : f[i] = list[i].qty /\ f[i] \in Int
    BY <1>1, <1>2, <2>2
  <2>4. \E i \in S : \A j \in S : f[i] >= f[j]
    BY <2>1, <2>3, LargestIn
  <2>5. \E i \in S : \A j \in S : list[j].qty <= list[i].qty
    BY <2>1, <2>3, <2>4
  <2>6. PICK x \in S : x = CHOOSE i \in S : \A j \in S : list[j].qty <= list[i].qty
    BY <2>5
  <2>7. PICK r : r = list[x]
    OBVIOUS
  <2>8. largest(s) = r
    BY <2>1, <2>6, <2>7
  <2>9. r \in Held(a, pf) /\ r.sym = s /\ r.side = "sell"
    BY <1>1, <2>1, <2>7 DEF SellsOf
  <2>10. PICK k \in Nat, h \in Nat : k = r.qty /\ h = pf.pos[s].qty /\ h > 0 /\ k > 0
    <3>1. pf.pos[s].qty \in Nat
      BY DEF Portfolios, Position, PositionType
    <3> QED
      BY <1>2, <2>9, <3>1
  <2>11. PICK z \in Nat \ {0} : z = Min({k, h}) /\ z <= h
    <3>1. Min({k, h}) = IF k <= h THEN k ELSE h
      BY MinOfTwo
    <3> QED
      BY <2>10, <3>1
  <2>12. Holds(pf, s)
    BY <2>10 DEF Holds
  <2>13. sell(s) = [r EXCEPT !.qty = z]
    BY <2>8, <2>10, <2>11, <2>12
  <2>14. [r EXCEPT !.qty = z] \in Held(a, pf)
    <3>1. r \in RequestType /\ r \in Requests(a)
      BY <2>9 DEF Held, Requests
    <3>2. PICK w : w = [r EXCEPT !.qty = z]
      OBVIOUS
    <3>3. /\ w \in RequestType /\ w.sym = r.sym /\ w.price = r.price /\ w.side = r.side
      BY <3>1, <3>2 DEF RequestType
    <3>4. w \in Requests(a)
      BY <2>9, <3>1, <3>3 DEF Requests
    <3>5. Holds(pf, w.sym)
      BY <2>9, <2>12, <3>3
    <3> QED
      BY <2>9, <3>2, <3>3, <3>4, <3>5 DEF Held
  <2>15. [r EXCEPT !.qty = z].sym = s /\ [r EXCEPT !.qty = z].side = "sell" /\ [r EXCEPT !.qty = z].qty = z
    <3>1. r \in RequestType
      BY <2>9 DEF Held, Requests
    <3> QED
      BY <2>9, <3>1 DEF RequestType
  <2> QED
    BY <2>10, <2>11, <2>13, <2>14, <2>15
<1> HIDE DEF sell
<1>14. \A i \in 1 .. m : /\ sold[i].sym \in Symbols /\ SellsOf(list, sold[i].sym) # {}
                         /\ e[i] \in DOMAIN list /\ sold[i] = list[e[i]]
  BY <1>1, <1>2, <1>3, <1>8, <1>10
<1>15. \A i, j \in 1 .. m : sold[i].sym = sold[j].sym => i = j
  <2> SUFFICES ASSUME NEW i \in 1 .. m, NEW j \in 1 .. m, sold[i].sym = sold[j].sym PROVE i = j
    OBVIOUS
  <2>1. PICK x \in at, y \in at : x = e[i] /\ y = e[j]
    BY <1>10
  <2>2. first(x) /\ first(y) /\ list[x].sym = list[y].sym
    BY <1>3, <1>10, <2>1
  <2>3. x <= y /\ y <= x
    BY <2>2
  <2>4. x \in Nat /\ y \in Nat
    BY <1>8
  <2>5. e[i] = e[j] /\ e[i] \in Nat
    BY <2>1, <2>3, <2>4
  <2>6. ~(i < j) /\ ~(j < i)
    <3>1. i < j => e[i] < e[j]
      BY <1>10
    <3>2. j < i => e[j] < e[i]
      BY <1>10
    <3> QED
      BY <2>5, <3>1, <3>2
  <2> QED
    BY <2>6
<1>16. /\ sells \in Seq(Held(a, pf)) /\ DOMAIN sells = 1 .. m /\ Len(sells) = m
       /\ \A i \in 1 .. m : /\ sells[i].sym = sold[i].sym /\ sells[i].side = "sell"
                            /\ sells[i] \in Held(a, pf)
                            /\ sells[i].qty <= pf.pos[sells[i].sym].qty
  <2>1. \A i \in 1 .. m : sells[i] = sell(sold[i].sym)
    BY <1>6, <1>9a
  <2>2. \A i \in 1 .. m : /\ sells[i].sym = sold[i].sym /\ sells[i].side = "sell"
                          /\ sells[i] \in Held(a, pf)
                          /\ sells[i].qty <= pf.pos[sells[i].sym].qty
    BY <1>13, <1>14, <2>1, SMTT(30)
  <2>3. sells \in [1 .. m -> Held(a, pf)]
    BY <1>6, <1>9a, <2>2
  <2> QED
    BY <2>2, <2>3
<1>17. PICK q : q = bought \o sells
  OBVIOUS
<1>18. bought \in Seq(Held(a, pf))
  BY <1>9 DEF Ordered
<1>19. /\ q \in Seq(Held(a, pf)) /\ DOMAIN q = 1 .. b + m
       /\ \A i \in 1 .. b : q[i] = bought[i]
       /\ \A i \in b + 1 .. b + m : i - b \in 1 .. m /\ q[i] = sells[i - b]
  <2>1. bought \in Seq(Held(a, pf)) /\ sells \in Seq(Held(a, pf)) /\ Len(bought) = b /\ Len(sells) = m
    BY <1>9a, <1>16, <1>18
  <2> HIDE DEF largest, first
  <2>2. q \in Seq(Held(a, pf)) /\ Len(q) = b + m
    <3>1. PICK E : E = Held(a, pf)
      OBVIOUS
    <3>2. bought \in Seq(E) /\ sells \in Seq(E)
      BY <2>1, <3>1
    <3>3. bought \o sells \in Seq(E) /\ Len(bought \o sells) = Len(bought) + Len(sells)
      BY ONLY <3>2
    <3> QED
      BY <1>17, <2>1, <3>1, <3>3
  <2>3. \A i \in 1 .. b + m : q[i] = IF i <= b THEN bought[i] ELSE sells[i - b]
    BY <1>17, <2>1
  <2>4. \A i \in 1 .. b : q[i] = bought[i]
    BY <2>3
  <2>5. \A i \in b + 1 .. b + m : i - b \in 1 .. m /\ q[i] = sells[i - b]
    BY <2>3
  <2> QED
    BY <2>2, <2>4, <2>5
<1>20. \A i \in DOMAIN q : i \in 1 .. b \/ i \in b + 1 .. b + m
  BY <1>19
<1>21. \A i \in DOMAIN q : q[i].side = "sell" => i \in b + 1 .. b + m
  BY <1>12, <1>19, <1>20
<1>22. \A i \in DOMAIN q : \E j \in DOMAIN list : q[i].sym = list[j].sym
  <2> SUFFICES ASSUME NEW i \in DOMAIN q PROVE \E j \in DOMAIN list : q[i].sym = list[j].sym
    OBVIOUS
  <2>1. CASE i \in 1 .. b
    BY <1>12, <1>19, <2>1
  <2>2. CASE i \in b + 1 .. b + m
    <3>1. i - b \in 1 .. m /\ q[i] = sells[i - b]
      BY <1>19, <2>2
    <3> QED
      BY <1>14, <1>16, <3>1
  <2> QED
    BY <1>20, <2>1, <2>2
<1>23. \A i \in DOMAIN q : q[i].side = "sell" => q[i].qty <= pf.pos[q[i].sym].qty
  BY <1>16, <1>19, <1>21
<1>24. \A i, j \in DOMAIN q : q[i].side = "sell" /\ q[j].side = "sell" /\ q[i].sym = q[j].sym => i = j
  <2> SUFFICES ASSUME NEW i \in DOMAIN q, NEW j \in DOMAIN q, q[i].side = "sell", q[j].side = "sell",
                      q[i].sym = q[j].sym
               PROVE  i = j
    OBVIOUS
  <2>1. /\ i - b \in 1 .. m /\ q[i] = sells[i - b]
        /\ j - b \in 1 .. m /\ q[j] = sells[j - b]
    BY <1>19, <1>21
  <2>2. i - b = j - b
    BY <1>15, <1>16, <2>1
  <2> QED
    BY <1>19, <2>2
<1> QED
  BY <1>7, <1>17, <1>19, <1>22, <1>23, <1>24

-----------------------------------------------------------------------------
(* The score. *)

\* A weighted part of the score is a number, also when the whole is 0.
LEMMA WeightedType ==
  ASSUME NEW part \in Int, NEW whole \in Nat, NEW weight \in Nat
  PROVE  Weighted(part, whole, weight) \in Int
<1>1. CASE whole = 0
  BY <1>1 DEF Weighted
<1>2. CASE whole # 0
  <2>1. PICK x \in Int : x = part * weight
    OBVIOUS
  <2>2. x \div whole \in Int
    BY <1>2
  <2> QED
    BY <1>2, <2>1, <2>2 DEF Weighted
<1> QED
  BY <1>1, <1>2

\* The disagreement of the strategies on a symbol is a number.
LEMMA DisagreementType ==
  ASSUME NEW a \in AnalysisType
  PROVE  Disagreement(a) \in Int
<1>1. PICK n \in Nat \ {0} : n = Len(Strategies) /\ DOMAIN Strategies = 1 .. n
  <2>1. Len(Strategies) \in Nat /\ Len(Strategies) # 0 /\ DOMAIN Strategies = 1 .. Len(Strategies)
    BY StrategiesAssumption
  <2> QED
    BY <2>1
<1>2. PICK all : all = Opinions(a)
  OBVIOUS
<1>3. Len(all) = n /\ DOMAIN all = 1 .. n
  BY <1>1, <1>2, OpinionsType
<1>4. PICK b, s \in Nat : b = Cardinality(Voting(all, "buy")) /\ s = Cardinality(Voting(all, "sell"))
  <2>1. \A side : Voting(all, side) \subseteq DOMAIN Strategies
    BY <1>1, <1>3 DEF Voting
  <2> QED
    BY <2>1, StrategiesFinite
<1>5. PICK m \in Int : m = Max({b, s, n - b - s})
  <2>1. b \in Int /\ s \in Int /\ n - b - s \in Int
    OBVIOUS
  <2> QED
    BY <2>1, MaxOfThree
<1>6. PICK d \in Int : d = (m * 100) \div n
  <2>1. PICK x \in Int : x = m * 100
    OBVIOUS
  <2>2. x \div n \in Int
    OBVIOUS
  <2> QED
    BY <2>1, <2>2
<1>7. Disagreement(a) = 100 - d
  BY <1>2, <1>3, <1>4, <1>5, <1>6 DEF Disagreement
<1> QED
  BY <1>7

\* The drawdown of a portfolio is a number, also when its peak is 0.
LEMMA DrawdownType ==
  ASSUME NEW p \in Portfolios
  PROVE  Drawdown(p) \in Int
<1>1. PICK k \in Nat, b \in Int : k = p.peak /\ b = TotalBalance(p)
  <2>1. p.peak \in Nat /\ p.cash \in Nat /\ MarketValue(p) \in Nat
    BY MarketValueIsSum DEF Portfolios
  <2> QED
    BY <2>1 DEF TotalBalance
<1>2. PICK x \in Int : x = (k - b) * 100
  OBVIOUS
<1>3. k # 0 => x \div k \in Int
  OBVIOUS
<1> QED
  BY <1>1, <1>2, <1>3 DEF Drawdown

\* The uncertainty score is a percentage.
LEMMA ScoreType ==
  ASSUME NEW a \in Found, NEW drawdown \in Int, NEW prev
  PROVE  Score(a, drawdown, Risk.max_drawdown, None, prev) \in 0 .. 100
<1>1. PICK D : D = DOMAIN a /\ D \subseteq Symbols
  BY FoundType
<1>2. \A s \in SUBSET D : IsFiniteSet(s) /\ Cardinality(s) \in Nat
  BY <1>1, SymbolsFinite, FS_Subset, FS_CardinalityType
<1>3. VolatileRegime(a) \in Int
  <2>1. PICK S : S = {s \in D : Regime(a[s]) = "volatile"}
    OBVIOUS
  <2>2. PICK x \in Nat, y \in Nat : x = Cardinality(S) /\ y = Cardinality(D)
    BY <1>2, <2>1
  <2>3. VolatileRegime(a) = Weighted(x, y, 30)
    BY <1>1, <2>1, <2>2 DEF VolatileRegime
  <2> QED
    BY <2>3, WeightedType
<1>4. RegimeChange(a, prev) \in Int
  <2>1. PICK S : S = D \cap DOMAIN prev
    OBVIOUS
  <2>2. PICK T : T = {s \in S : Regime(a[s]) # prev[s]}
    OBVIOUS
  <2>3. PICK x \in Nat, y \in Nat : x = Cardinality(T) /\ y = Cardinality(S)
    <3>1. T \in SUBSET D /\ S \in SUBSET D
      BY <2>1, <2>2
    <3> QED
      BY <1>2, <3>1
  <2>4. RegimeChange(a, prev) = Weighted(x, y, 30)
    BY <1>1, <2>1, <2>2, <2>3 DEF RegimeChange
  <2> QED
    BY <2>4, WeightedType
<1>5. StrategyDisagreement(a) \in Int
  <2>1. PICK f : f = [s \in D |-> Disagreement(a[s])]
    OBVIOUS
  <2>2. \A s \in D : f[s] \in Int
    <3> SUFFICES ASSUME NEW s \in D PROVE f[s] \in Int
      OBVIOUS
    <3>1. a[s] \in AnalysisType
      BY <1>1, FoundType
    <3>2. Disagreement(a[s]) \in Int
      BY <3>1, DisagreementType
    <3> QED
      BY <2>1, <3>2
  <2>3. PICK x \in Int : x = SumFunctionOnSet(f, D)
    BY <1>2, <2>2, SumType
  <2>4. SumFunction(f) = x
    BY <2>1, <2>3 DEF SumFunction, SumFunctionOnSet, FoldFunction
  <2>5. PICK y \in Nat : y = 100 * Cardinality(D)
    BY <1>2
  <2>6. StrategyDisagreement(a) = Weighted(x, y, 30)
    BY <1>1, <2>1, <2>4, <2>5 DEF StrategyDisagreement
  <2> QED
    BY <2>6, WeightedType
<1>6. DrawdownProximity(drawdown, Risk.max_drawdown) \in Int
  <2>1. PICK n \in Nat : n = Risk.max_drawdown
    BY RiskAssumption DEF RiskParams
  <2>2. Min({drawdown, n}) = IF drawdown <= n THEN drawdown ELSE n
    BY MinOfTwo
  <2>3. PICK m \in Int : m = Min({drawdown, n})
    BY <2>2
  <2>4. DrawdownProximity(drawdown, n) = Weighted(m, n, 20)
    BY <2>3 DEF DrawdownProximity
  <2> QED
    BY <2>1, <2>4, WeightedType
<1>7. SentimentExtreme(None) = 0 /\ LowSentimentConfidence(None) = 0
  BY DEF SentimentExtreme, LowSentimentConfidence
<1>8. PICK x \in Int : x = VolatileRegime(a) + SentimentExtreme(None) + LowSentimentConfidence(None)
                           + StrategyDisagreement(a) + DrawdownProximity(drawdown, Risk.max_drawdown)
                           + RegimeChange(a, prev)
  BY <1>3, <1>4, <1>5, <1>6, <1>7
<1>9. Score(a, drawdown, Risk.max_drawdown, None, prev) = Max({0, Min({100, x})})
  BY <1>8 DEF Score
<1>10. Min({100, x}) = IF 100 <= x THEN 100 ELSE x
  BY MinOfTwo
<1>11. PICK m \in Int : m = Min({100, x}) /\ m <= 100
  BY <1>10
<1>12. Max({0, m}) = IF 0 >= m THEN 0 ELSE m
  BY MaxOfTwo
<1> QED
  BY <1>9, <1>11, <1>12

-----------------------------------------------------------------------------
(* The invariant. *)

\* The phases in which the requests are made.
Deciding == pc \in {"strategy", "uncertainty", "advisory", "reserve"}

\* The variables have their types; the requests are typed also before the cycle reserves.
Typed ==
  /\ pf \in Portfolios /\ before \in Portfolios /\ breakEven \in BreakEvens
  /\ tripped \in BOOLEAN /\ ensemble \in EnsembleModes
  /\ analyses \in Found /\ signals \in Seq(Signals(analyses))
  /\ reqs \in Seq(RequestType) /\ advice \in Seq(DirectiveType) /\ score \in 0 .. 100

\* While the cycle decides, the positions are priced as its analyses say, and the
\* portfolio could bear each of the requests alone.
Current ==
  Deciding => /\ \A s \in DOMAIN analyses : Holds(pf, s) => pf.pos[s].price = analyses[s].price
              /\ reqs \in Seq(Held(analyses, pf))

\* Until the crew answers there is no directive.
Unadvised == pc \in {"strategy", "uncertainty", "advisory"} => advice = <<>>

\* What is executed is asked at the prices of the analyses, a BUY with its stop below.
Asked == pc = "execution" => reqs \in Seq(Requests(analyses))

\* What was bought is above its stop from the reservation on.
Fresh ==
  pc \in {"execution", "end"} /\ AntiAveragingDown =>
    \A i \in Buys : Below(pf, reqs[i].sym, reqs[i].price)

\* The inductive invariant: the properties are not inductive without the first five parts.
DecisionsInv ==
  /\ Typed /\ Current /\ Unadvised /\ Asked /\ Fresh
  /\ SellsCovered /\ ValuePreserved /\ AdvisedOut /\ ExposureOvershootBounded

\* The invariant holds at the start.
LEMMA InitInv == Init => DecisionsInv
<1> SUFFICES ASSUME Init PROVE DecisionsInv
  OBVIOUS
<1>1. Nothing \in Position
  BY DEF Nothing, Position, PositionType
<1>2. pf \in Portfolios
  BY <1>1, DecisionsAssumption DEF Init, Portfolios
<1>3. breakEven \in BreakEvens
  BY DEF Init, BreakEvens
<1>4. NoAnalyses \in Found
  <2>1. NoAnalyses \in [{} -> Analyses] /\ {} \in SUBSET Symbols
    BY DEF NoAnalyses
  <2> QED
    BY <2>1 DEF Found
<1>5. Typed
  <2>1. signals \in Seq(Signals(analyses)) /\ reqs \in Seq(RequestType) /\ advice \in Seq(DirectiveType)
    BY DEF Init
  <2>2. before \in Portfolios
    BY <1>2 DEF Init
  <2>4. tripped \in BOOLEAN /\ ensemble \in EnsembleModes
    BY ONLY Init DEF Init
  <2>5. score \in 0 .. 100
    BY ONLY Init DEF Init
  <2>3. analyses \in Found
    BY <1>4 DEF Init
  <2> QED
    BY <1>2, <1>3, <2>1, <2>2, <2>3, <2>4, <2>5 DEF Typed
<1>6. pc = "market"
  BY DEF Init
<1> QED
  BY <1>5, <1>6 DEF DecisionsInv, Current, Deciding, Unadvised, Asked, Fresh,
                    SellsCovered, ValuePreserved, AdvisedOut, ExposureOvershootBounded, Reserved

\* Market data move the prices of what is held to those of the analyses.
LEMMA MarketKeeps == DecisionsInv /\ MarketPhase => DecisionsInv'
<1> SUFFICES ASSUME DecisionsInv, MarketPhase PROVE DecisionsInv'
  OBVIOUS
<1>0. PICK got \in SUBSET Symbols : \E found \in [got -> Analyses] :
        /\ analyses' = found /\ pf' = Repriced(found) /\ pc' \in {"end", "strategy"}
  BY DEF MarketPhase
<1>1. PICK found \in [got -> Analyses] :
        /\ analyses' = found /\ pf' = Repriced(found) /\ pc' \in {"end", "strategy"}
  BY <1>0
<1>2. /\ signals' = <<>> /\ reqs' = <<>> /\ score' = 0 /\ advice' = <<>>
      /\ UNCHANGED <<tripped, ensemble, breakEven, previous, before>>
  BY DEF MarketPhase
<1>3. found \in Found /\ DOMAIN found = got
  BY DEF Found
<1>4. \A s \in got : found[s].price \in Nat
  BY <1>3, FoundType DEF Positive
<1>5. pf \in Portfolios /\ pf.pos \in [Symbols -> Position]
  BY DEF DecisionsInv, Typed, Portfolios
<1> DEFINE moved == [s \in Symbols |->
                       IF s \in got /\ Holds(pf, s) THEN [pf.pos[s] EXCEPT !.price = found[s].price]
                       ELSE pf.pos[s]]
<1>6. pf' = [pf EXCEPT !.pos = moved]
  BY <1>1, <1>3 DEF Repriced
<1>7. \A s \in Symbols : /\ moved[s] \in Position /\ moved[s].qty = pf.pos[s].qty
                         /\ s \in got /\ Holds(pf, s) => moved[s].price = found[s].price
  <2> SUFFICES ASSUME NEW s \in Symbols
               PROVE  /\ moved[s] \in Position /\ moved[s].qty = pf.pos[s].qty
                      /\ s \in got /\ Holds(pf, s) => moved[s].price = found[s].price
    OBVIOUS
  <2>1. PICK x \in Position : x = pf.pos[s]
    BY <1>5
  <2>2. s \in got => found[s].price \in Nat
    BY <1>4
  <2>3. ASSUME NEW y \in Nat
        PROVE  /\ [x EXCEPT !.price = y] \in Position /\ [x EXCEPT !.price = y].qty = x.qty
               /\ [x EXCEPT !.price = y].price = y
    BY DEF Position, PositionType
  <2> QED
    BY <2>1, <2>2, <2>3
<1>8. moved \in [Symbols -> Position]
  BY <1>7
<1> HIDE DEF moved
<1>9. pf' \in Portfolios /\ pf'.pos = moved
  BY <1>5, <1>6, <1>8 DEF Portfolios
<1>10. \A s \in DOMAIN analyses' : Holds(pf', s) => pf'.pos[s].price = analyses'[s].price
  BY <1>1, <1>3, <1>7, <1>9 DEF Holds
<1>11. Typed'
  BY <1>1, <1>2, <1>3, <1>9 DEF DecisionsInv, Typed
<1>12. Current'
  BY <1>2, <1>10 DEF Current
<1> QED
  BY <1>1, <1>2, <1>11, <1>12 DEF DecisionsInv, Unadvised, Asked, Fresh, Buys,
                                  SellsCovered, ValuePreserved, AdvisedOut,
                                  ExposureOvershootBounded, Reserved

\* A list of requests made from signals of the cycle.
LEMMA EvaluateKeeps ==
  ASSUME analyses \in Found, pf \in Portfolios, tripped \in BOOLEAN, NEW sigs \in Seq(Signals(analyses)),
         Evaluate(sigs)
  PROVE  /\ reqs' \in Seq(Held(analyses, pf)) /\ tripped' \in BOOLEAN
         /\ \A i \in DOMAIN reqs' : \E j \in DOMAIN sigs : reqs'[i].sym = sigs[j].sym
<1>1. reqs' = RequestsOf(sigs) /\ tripped' \in BOOLEAN
  BY DEF Evaluate
<1>2. /\ RequestsOf(sigs) \in Seq(Held(analyses, pf))
      /\ \A i \in DOMAIN RequestsOf(sigs) : \E j \in DOMAIN sigs : RequestsOf(sigs)[i].sym = sigs[j].sym
  BY RequestsOfType
<1> QED
  BY <1>1, <1>2

\* A list of requests for what is held is a list of requests.
LEMMA HeldIsTyped ==
  ASSUME NEW a, NEW p, NEW list \in Seq(Held(a, p))
  PROVE  list \in Seq(RequestType) /\ list \in Seq(Requests(a))
<1>1. Held(a, p) \subseteq RequestType /\ Held(a, p) \subseteq Requests(a)
  BY DEF Held, Requests
<1> QED
  BY <1>1

\* The first requests of a cycle are made from its signals.
LEMMA StrategyKeeps == DecisionsInv /\ StrategyPhase => DecisionsInv'
<1> SUFFICES ASSUME DecisionsInv, StrategyPhase PROVE DecisionsInv'
  OBVIOUS
<1>1. /\ pc = "strategy" /\ pc' = "uncertainty" /\ signals' = AllSignals /\ Evaluate(AllSignals)
      /\ UNCHANGED <<pf, ensemble, breakEven, previous, analyses, score, advice, before, cycles>>
  BY DEF StrategyPhase
<1>2. Typed /\ Current /\ Unadvised /\ Deciding
  BY <1>1 DEF DecisionsInv, Deciding
<1>3. AllSignals \in Seq(Signals(analyses))
  BY <1>2, AllSignalsType DEF Typed
<1>4. reqs' \in Seq(Held(analyses, pf)) /\ tripped' \in BOOLEAN
  BY <1>1, <1>2, <1>3, EvaluateKeeps DEF Typed
<1>5. reqs' \in Seq(RequestType)
  BY <1>4, HeldIsTyped
<1>6. Typed'
  BY <1>1, <1>2, <1>3, <1>4, <1>5 DEF Typed
<1>7. Current'
  BY <1>1, <1>2, <1>4 DEF Current
<1> QED
  BY <1>1, <1>2, <1>6, <1>7 DEF DecisionsInv, Unadvised, Asked, Fresh,
                                SellsCovered, ValuePreserved, AdvisedOut,
                                ExposureOvershootBounded, Reserved

\* Nobody is vetoed when nothing was advised.
LEMMA NoAdvice ==
  ASSUME NEW sym
  PROVE  ~SitsOut(<<>>) /\ ~Vetoed(<<>>, sym)
  BY DEF SitsOut, Vetoed

\* The score changes nothing else.
LEMMA UncertaintyKeeps == DecisionsInv /\ ComputeUncertainty => DecisionsInv'
<1> SUFFICES ASSUME DecisionsInv, ComputeUncertainty PROVE DecisionsInv'
  OBVIOUS
<1>1. /\ pc = "uncertainty" /\ pc' \in {"advisory", "reserve"}
      /\ score' = Score(analyses, Drawdown(pf), Risk.max_drawdown, None, previous)
      /\ UNCHANGED <<pf, tripped, ensemble, breakEven, previous, analyses, signals, reqs,
                     advice, before, cycles>>
  BY DEF ComputeUncertainty
<1>2. Typed /\ Current /\ Deciding /\ advice = <<>>
  BY <1>1 DEF DecisionsInv, Deciding, Unadvised
<1>3. PICK d \in Int : d = Drawdown(pf)
  BY <1>2, DrawdownType DEF Typed
<1>4. score' \in 0 .. 100
  <2>1. PICK a, prev : a \in Found /\ a = analyses /\ prev = previous
    BY <1>2 DEF Typed
  <2>2. Score(a, d, Risk.max_drawdown, None, prev) \in 0 .. 100
    BY <2>1, ScoreType
  <2> QED
    BY <1>1, <1>3, <2>1, <2>2
<1>5. Typed'
  BY <1>1, <1>2, <1>4 DEF Typed
<1>6. Current'
  BY <1>1, <1>2 DEF Current, Holds
<1>7. AdvisedOut'
  BY <1>1, <1>2, NoAdvice DEF AdvisedOut
<1> QED
  BY <1>1, <1>2, <1>5, <1>6, <1>7 DEF DecisionsInv, Unadvised, Asked, Fresh, SellsCovered, ValuePreserved,
                                ExposureOvershootBounded, Reserved

\* Directives replace the signals and the requests are made anew.
LEMMA AdvisoryKeeps == DecisionsInv /\ AdvisoryPhase => DecisionsInv'
<1> SUFFICES ASSUME DecisionsInv, AdvisoryPhase PROVE DecisionsInv'
  OBVIOUS
<1>1. PICK answer \in Answers :
        /\ advice' = ParsedAnswer(answer)
        /\ IF advice' = <<>> THEN UNCHANGED <<signals, reqs, tripped>> ELSE Advise(advice')
  BY DEF AdvisoryPhase
<1>2. /\ pc = "advisory" /\ pc' = "reserve"
      /\ UNCHANGED <<pf, ensemble, breakEven, previous, analyses, score, before, cycles>>
  BY DEF AdvisoryPhase
<1>3. Typed /\ Current /\ Deciding
  BY <1>2 DEF DecisionsInv, Deciding
<1>4. PICK list \in Seq(Directives) : list = advice' /\ advice' \in Seq(DirectiveType)
  <2>1. advice' \in Seq(Directives)
    BY <1>1, ParsedAnswerType
  <2>2. Directives \subseteq DirectiveType
    BY DEF Directives
  <2> QED
    BY <2>1, <2>2
<1>5. CASE list = <<>>
  <2>1. UNCHANGED <<signals, reqs, tripped>>
    BY <1>1, <1>4, <1>5
  <2>2. Typed'
    BY <1>2, <1>3, <1>4, <2>1 DEF Typed
  <2>3. Current'
    BY <1>2, <1>3, <2>1 DEF Current, Holds
  <2>4. AdvisedOut'
    BY <1>4, <1>5, NoAdvice DEF AdvisedOut
  <2> QED
    BY <1>2, <2>2, <2>3, <2>4 DEF DecisionsInv, Unadvised, Asked, Fresh, SellsCovered, ValuePreserved,
                                ExposureOvershootBounded, Reserved
<1>6. CASE list # <<>>
  <2>1. PICK sigs : sigs = ApplyDirectives(signals, list)
    OBVIOUS
  <2>2. signals' = sigs /\ Evaluate(sigs)
    BY <1>1, <1>4, <1>6, <2>1 DEF Advise
  <2>3. /\ sigs \in Seq(Signals(analyses))
        /\ \A i \in DOMAIN sigs : ~SitsOut(list) /\ ~Vetoed(list, sigs[i].sym)
    BY <1>3, <2>1, ApplyDirectivesType DEF Typed
  <2>4. /\ reqs' \in Seq(Held(analyses, pf)) /\ tripped' \in BOOLEAN
        /\ \A i \in DOMAIN reqs' : \E j \in DOMAIN sigs : reqs'[i].sym = sigs[j].sym
    BY <1>3, <2>2, <2>3, EvaluateKeeps DEF Typed
  <2>5. reqs' \in Seq(RequestType)
    BY <2>4, HeldIsTyped
  <2>6. Typed'
    BY <1>2, <1>3, <1>4, <2>2, <2>3, <2>4, <2>5 DEF Typed
  <2>7. Current'
    BY <1>2, <1>3, <2>4 DEF Current
  <2>8. AdvisedOut'
    BY <1>4, <2>3, <2>4 DEF AdvisedOut
  <2> QED
    BY <1>2, <2>6, <2>7, <2>8 DEF DecisionsInv, Unadvised, Asked, Fresh, SellsCovered, ValuePreserved,
                                ExposureOvershootBounded, Reserved
<1> QED
  BY <1>5, <1>6

\* A crew that raises leaves the requests, and no directive was given.
LEMMA AdvisoryFailsKeeps == DecisionsInv /\ AdvisoryFails => DecisionsInv'
<1> SUFFICES ASSUME DecisionsInv, AdvisoryFails PROVE DecisionsInv'
  OBVIOUS
<1>1. /\ pc = "advisory" /\ pc' = "reserve"
      /\ UNCHANGED <<pf, tripped, ensemble, breakEven, previous, analyses, signals, reqs, score, advice,
                     before, cycles>>
  BY DEF AdvisoryFails, flowVars
<1>2. Typed /\ Current /\ Deciding /\ advice = <<>>
  BY <1>1 DEF DecisionsInv, Deciding, Unadvised
<1>3. Typed'
  BY <1>1, <1>2 DEF Typed
<1>4. Current'
  BY <1>1, <1>2 DEF Current, Holds
<1>5. AdvisedOut'
  BY <1>1, <1>2, NoAdvice DEF AdvisedOut
<1> QED
  BY <1>1, <1>3, <1>4, <1>5 DEF DecisionsInv, Unadvised, Asked, Fresh, SellsCovered, ValuePreserved,
                                ExposureOvershootBounded, Reserved

\* A peak that moves changes no balance.
LEMMA PeakMoves ==
  ASSUME NEW p \in Portfolios, NEW k \in Nat
  PROVE  [p EXCEPT !.peak = k] \in Portfolios /\ TotalBalance([p EXCEPT !.peak = k]) = TotalBalance(p)
<1>1. PICK q : q = [p EXCEPT !.peak = k]
  OBVIOUS
<1>2. q \in Portfolios /\ q.pos = p.pos /\ q.cash = p.cash
  BY <1>1 DEF Portfolios
<1> QED
  BY <1>1, <1>2 DEF TotalBalance, MarketValue

\* At most one request sells a symbol, and no more than is held.
LEMMA OneSell ==
  ASSUME NEW p \in Portfolios, NEW a, NEW list \in Seq(Held(a, p)), NEW s \in Symbols,
         \A i \in DOMAIN list : list[i].side = "sell" => list[i].qty <= p.pos[list[i].sym].qty,
         \A i, j \in DOMAIN list :
           list[i].side = "sell" /\ list[j].side = "sell" /\ list[i].sym = list[j].sym => i = j
  PROVE  SumFunction([i \in SellsOf(list, s) |-> list[i].qty]) <= p.pos[s].qty
<1>1. PICK S, f : S = SellsOf(list, s) /\ f = [i \in S |-> list[i].qty]
  OBVIOUS
<1>2. PICK x : x = SumFunctionOnSet(f, S)
  OBVIOUS
<1>3. SumFunction([i \in SellsOf(list, s) |-> list[i].qty]) = x
  BY <1>1, <1>2 DEF SumFunction, SumFunctionOnSet, FoldFunction
<1>4. \A i \in S : i \in DOMAIN list /\ list[i].side = "sell" /\ list[i].sym = s
  BY <1>1 DEF SellsOf
<1>5. \A i \in S : f[i] \in Nat /\ f[i] <= p.pos[s].qty
  <2>1. \A i \in DOMAIN list : list[i].qty \in Nat
    BY DEF Held, Requests, RequestType
  <2> QED
    BY <1>1, <1>4, <2>1
<1>6. p.pos[s].qty \in Nat
  BY DEF Portfolios, Position, PositionType
<1>7. CASE S = {}
  <2>1. x = 0
    <3>1. IsFiniteSet({}) /\ \A y \in {} : f[y] \in Int
      BY FS_EmptySet
    <3> QED
      BY <1>2, <1>7, <3>1, SumType
  <2> QED
    BY <1>3, <1>6, <2>1
<1>8. CASE S # {}
  <2>1. PICK i \in S : TRUE
    BY <1>8
  <2>2. S = {i}
    BY <1>4
  <2>3. IsFiniteSet(S) /\ IsFiniteSet({})
    BY <2>2, FS_Singleton, FS_EmptySet
  <2>4. SumFunctionOnSet(f, S) = f[i] + SumFunctionOnSet(f, S \ {i})
    <3>1. \A y \in S : f[y] \in Int
      BY <1>5
    <3> QED
      BY ONLY <2>1, <2>3, <3>1, i \in S, SumRemoves
  <2>5. S \ {i} = {}
    BY <2>2
  <2>6. SumFunctionOnSet(f, {}) = 0
    <3>1. \A y \in {} : f[y] \in Int
      OBVIOUS
    <3> QED
      BY <2>3, <3>1, SumType
  <2>7. PICK rest : rest = SumFunctionOnSet(f, S \ {i})
    OBVIOUS
  <2>8. x = f[i] + rest /\ rest = 0
    BY <1>2, <2>4, <2>5, <2>6, <2>7
  <2>9. x <= p.pos[s].qty
    BY <1>5, <1>6, <2>8
  <2> QED
    BY ONLY <1>3, <2>9
<1> QED
  BY <1>7, <1>8

\* The limits are numbers.
LEMMA LimitsType == Risk.max_exposure \in Nat /\ Risk.max_position \in Nat
  BY ONLY RiskAssumption DEF RiskParams

\* The BUYs of a list pass the exposure limit by no more than one position limit
\* for each after the first.
LEMMA BuysTogether ==
  ASSUME NEW a, NEW p \in Portfolios, NEW list \in Seq(Held(a, p)),
         NEW B, B = {i \in DOMAIN list : list[i].side = "buy"}, B # {}
  PROVE  /\ SumFunctionOnSet(Cost(list), DOMAIN list) \in Nat
         /\ (MarketValue(p) + SumFunctionOnSet(Cost(list), DOMAIN list)) * 100
              <= Risk.max_exposure * TotalBalance(p)
                 + (Cardinality(B) - 1) * Risk.max_position * p.cash
<1>1. PICK n \in Nat : DOMAIN list = 1 .. n /\ \A i \in 1 .. n : list[i] \in Held(a, p)
  OBVIOUS
<1>2. PICK f : f = Cost(list)
  OBVIOUS
<1>3. PICK x \in Nat, t \in Nat, c \in Nat, e \in Nat, m \in Nat :
        /\ x = MarketValue(p) /\ t = TotalBalance(p) /\ c = p.cash
        /\ e = Risk.max_exposure /\ m = Risk.max_position
  <2>1. p.cash \in Nat /\ MarketValue(p) \in Nat
    BY MarketValueIsSum DEF Portfolios
  <2>2. TotalBalance(p) \in Nat
    BY <2>1 DEF TotalBalance
  <2>3. Risk.max_exposure \in Nat /\ Risk.max_position \in Nat
    BY LimitsType
  <2> QED
    BY <2>1, <2>2, <2>3
<1>4. PICK w, l \in Nat : w = m * c /\ l = e * t
  OBVIOUS
<1>5. \A i \in 1 .. n : f[i] \in Nat /\ (i \notin B => f[i] = 0)
  <2>1. \A r \in Held(a, p) : r.qty * r.price \in Nat
    BY DEF Held, Requests, RequestType
  <2> QED
    BY <1>1, <1>2, <2>1 DEF Cost
<1>6. \A i \in B : f[i] * 100 <= w /\ (x + f[i]) * 100 <= l
  <2> SUFFICES ASSUME NEW i \in B PROVE f[i] * 100 <= w /\ (x + f[i]) * 100 <= l
    OBVIOUS
  <2>1. PICK r \in Held(a, p) : r = list[i] /\ r.side = "buy" /\ i \in 1 .. n
    BY <1>1
  <2>2. f[i] = r.qty * r.price
    BY <1>1, <1>2, <2>1 DEF Cost
  <2>3. /\ r.qty * r.price * 100 <= Risk.max_position * p.cash
        /\ (MarketValue(p) + r.qty * r.price) * 100 <= Risk.max_exposure * TotalBalance(p)
    BY <2>1 DEF Held, Bearable
  <2> QED
    BY <1>3, <1>4, <2>2, <2>3
<1>7. PICK k : k \in B
  OBVIOUS
<1>8. B \in SUBSET (1 .. n) /\ IsFiniteSet(1 .. n) /\ IsFiniteSet(B) /\ IsFiniteSet(B \ {k})
  <2>1. B \in SUBSET (1 .. n)
    BY <1>1
  <2> QED
    BY <2>1, IndicesFinite, FS_Subset
<1>9. PICK b \in Nat : b * 100 <= w /\ \A i \in B : f[i] <= b
  <2>1. PICK b : b = w \div 100
    OBVIOUS
  <2>2. b \in Nat /\ b * 100 <= w /\ w < 100 * (b + 1)
    BY <2>1
  <2>3. ASSUME NEW i \in B PROVE f[i] <= b
    <3>1. PICK y \in Nat : y = f[i] /\ y * 100 <= w
      BY <1>5, <1>6, <1>8
    <3>2. y <= b
      BY <2>2, <3>1
    <3> QED
      BY <3>1, <3>2
  <2> QED
    BY <2>2, <2>3
<1>10. PICK o \in Nat : o = Cardinality(B \ {k}) /\ Cardinality(B) = o + 1
  BY <1>7, <1>8, Smaller
<1>11. PICK y \in Nat, z \in Nat : /\ y = f[k] /\ z = SumFunctionOnSet(f, B \ {k}) /\ z <= o * b
                               /\ SumFunctionOnSet(f, 1 .. n) = y + z
  <2>1. \A i \in B \ {k} : f[i] \in 0 .. b
    BY <1>5, <1>8, <1>9
  <2>2. SumFunctionOnSet(f, B \ {k}) \in 0 .. o * b
    BY <1>8, <1>10, <2>1, SumWithin
  <2>3. \A i \in 1 .. n : f[i] \in Int
    BY <1>5
  <2>4. SumFunctionOnSet(f, 1 .. n) = SumFunctionOnSet(f, B)
    <3>1. \A i \in (1 .. n) \ B : f[i] = 0
      BY <1>5
    <3> QED
      BY <1>8, <2>3, <3>1, SumOmits
  <2>5. \A i \in B : f[i] \in Int
    BY <1>8, <2>3
  <2>6. SumFunctionOnSet(f, B) = f[k] + SumFunctionOnSet(f, B \ {k})
    BY <1>7, <1>8, <2>5, SumRemoves
  <2>7. PICK y \in Nat : y = f[k]
    BY <1>5, <1>7, <1>8
  <2>8. PICK z : z = SumFunctionOnSet(f, B \ {k})
    OBVIOUS
  <2>9. o * b \in Nat
    OBVIOUS
  <2>10. z \in Nat /\ z <= o * b
    BY <2>2, <2>8, <2>9
  <2> QED
    BY <2>4, <2>6, <2>7, <2>8, <2>10
<1>12. (x + y) * 100 <= l
  BY <1>6, <1>7, <1>11
<1>13. z * 100 <= o * w
  <2>1. PICK d \in Nat : w = b * 100 + d
    <3>1. w - b * 100 \in Nat /\ w = b * 100 + (w - b * 100)
      BY <1>9
    <3> QED
      BY <3>1
  <2>2. o * w = (o * b) * 100 + o * d /\ o * d \in Nat /\ o * b \in Nat
    BY <2>1
  <2>3. z * 100 <= (o * b) * 100
    BY <1>11, <2>2
  <2>4. PICK u, v, q \in Nat : u = o * b /\ v = o * d /\ q = o * w
    BY <2>2
  <2> QED
    BY <2>2, <2>3, <2>4
<1>14. (x + (y + z)) * 100 <= l + o * w
  <2>1. PICK q \in Nat : q = o * w
    OBVIOUS
  <2> QED
    BY <1>12, <1>13, <2>1
<1>15. o * w = (Cardinality(B) - 1) * Risk.max_position * p.cash
  <2>1. Cardinality(B) - 1 = o
    BY <1>10
  <2>2. o * m * c = o * (m * c)
    OBVIOUS
  <2> QED
    BY <1>3, <1>4, <2>1, <2>2
<1>16. SumFunctionOnSet(Cost(list), DOMAIN list) = y + z
  BY <1>1, <1>2, <1>11
<1>17. PICK s : s = SumFunctionOnSet(Cost(list), DOMAIN list)
  OBVIOUS
<1>18. s = y + z /\ s \in Nat
  BY ONLY <1>16, <1>17, y \in Nat, z \in Nat
<1>19. (x + s) * 100 <= l + o * w
  BY ONLY <1>14, <1>18
<1>20. (x + s) * 100 <= e * t + (Cardinality(B) - 1) * Risk.max_position * p.cash
  BY ONLY <1>4, <1>15, <1>19
<1> QED
  BY ONLY <1>3, <1>17, <1>18, <1>20

\* Reserving deduplicates the SELLs and moves value between cash and positions.
LEMMA ReserveKeeps == DecisionsInv /\ ReservePhase => DecisionsInv'
<1> SUFFICES ASSUME DecisionsInv, ReservePhase PROVE DecisionsInv'
  OBVIOUS
<1>1. PICK q, done : q = Deduplicated(reqs) /\ done = FoldLeft(Booked, pf, q)
  OBVIOUS
<1>2. /\ pc = "reserve" /\ pc' = "execution" /\ reqs' = q /\ before' = pf
      /\ pf' = IF q = <<>> THEN pf ELSE [done EXCEPT !.peak = Max({@, TotalBalance(done)})]
      /\ UNCHANGED <<tripped, ensemble, breakEven, previous, analyses, signals, score, advice, cycles>>
  BY <1>1 DEF ReservePhase
<1>3. Typed /\ Current /\ Deciding /\ AdvisedOut
  BY <1>2 DEF DecisionsInv, Deciding
<1>4. pf \in Portfolios /\ reqs \in Seq(Held(analyses, pf))
  BY <1>3 DEF Typed, Current
<1>5. /\ q \in Seq(Held(analyses, pf))
      /\ \A i \in DOMAIN q : \E j \in DOMAIN reqs : q[i].sym = reqs[j].sym
      /\ \A i \in DOMAIN q : q[i].side = "sell" => q[i].qty <= pf.pos[q[i].sym].qty
      /\ \A i, j \in DOMAIN q : q[i].side = "sell" /\ q[j].side = "sell" /\ q[i].sym = q[j].sym => i = j
  BY <1>1, <1>4, DeduplicatedType
<1>6. q \in Seq(RequestType) /\ q \in Seq(Requests(analyses))
  BY <1>5, HeldIsTyped
<1> DEFINE bought == {i \in DOMAIN q : q[i].side = "buy"}
           W == IF AntiAveragingDown THEN {q[i].sym : i \in bought} ELSE {}
<1>b. \A i \in bought : /\ q[i] \in Requests(analyses) /\ q[i].sym \in DOMAIN analyses
                        /\ q[i].price = analyses[q[i].sym].price /\ Bearable(pf, q[i])
  <2>1. \A r \in Held(analyses, pf) : r.side = "buy" =>
           /\ r \in Requests(analyses) /\ r.sym \in DOMAIN analyses
           /\ r.price = analyses[r.sym].price /\ Bearable(pf, r)
    BY DEF Held, Requests
  <2> QED
    BY <1>5, <2>1
<1>w. W \in SUBSET DOMAIN analyses /\ \A s \in W : Below(pf, s, analyses[s].price)
  <2>1. \A i \in bought : AntiAveragingDown => Below(pf, q[i].sym, analyses[q[i].sym].price)
    BY <1>b DEF Bearable
  <2> HIDE DEF bought
  <2> QED
    BY <1>b, <2>1
<1> HIDE DEF W
<1>7. pf \in Priced(analyses, TotalBalance(pf), W)
  BY <1>3, <1>w DEF Typed, Current, Priced
<1>8. /\ done \in Priced(analyses, TotalBalance(pf), W)
      /\ done.cash + SumFunctionOnSet(Cost(q), DOMAIN q) >= pf.cash
  BY <1>1, <1>6, <1>7, <1>w, BookedListKeeps
<1>9. done \in Portfolios /\ TotalBalance(done) = TotalBalance(pf)
  BY <1>8 DEF Priced
<1>10. /\ pf' \in Portfolios /\ TotalBalance(pf') = TotalBalance(pf)
       /\ q # <<>> => pf'.pos = done.pos
  <2>1. PICK k, b \in Nat : k = done.peak /\ b = TotalBalance(done)
    <3>1. done.peak \in Nat /\ done.cash \in Nat /\ MarketValue(done) \in Nat
      BY <1>9, MarketValueIsSum DEF Portfolios
    <3> QED
      BY <3>1 DEF TotalBalance
  <2>2. PICK m \in Nat : m = Max({k, b})
    <3>1. Max({k, b}) = IF k >= b THEN k ELSE b
      BY MaxOfTwo
    <3> QED
      BY <3>1
  <2>3. [done EXCEPT !.peak = m] \in Portfolios /\ TotalBalance([done EXCEPT !.peak = m]) = TotalBalance(done)
    BY <1>9, PeakMoves
  <2>4. pf' = IF q = <<>> THEN pf ELSE [done EXCEPT !.peak = m]
    BY <1>2, <2>1, <2>2
  <2>5. [done EXCEPT !.peak = m].pos = done.pos
    BY <1>9 DEF Portfolios
  <2> QED
    BY <1>4, <1>9, <2>3, <2>4, <2>5
<1>11. Typed'
  BY <1>2, <1>3, <1>6, <1>10 DEF Typed
<1>12. SellsCovered'
  <2> SUFFICES ASSUME NEW s \in Symbols
               PROVE  SumFunction([i \in SellsOf(reqs', s) |-> reqs'[i].qty]) <= before'.pos[s].qty
    BY DEF SellsCovered, SellsOf
  <2>1. PICK p, a : p \in Portfolios /\ p = pf /\ a = analyses
    BY <1>4
  <2>2. SumFunction([i \in SellsOf(q, s) |-> q[i].qty]) <= p.pos[s].qty
    BY <1>5, <2>1, OneSell
  <2> QED
    BY <1>2, <2>1, <2>2
<1>13. ValuePreserved'
  <2>1. TotalBalance(pf)' = TotalBalance(pf') /\ TotalBalance(before)' = TotalBalance(pf)
    BY <1>2 DEF TotalBalance, MarketValue
  <2> QED
    BY <1>10, <2>1 DEF ValuePreserved
<1>14. AdvisedOut'
  <2>1. \A j \in DOMAIN reqs : ~SitsOut(advice) /\ ~Vetoed(advice, reqs[j].sym)
    BY <1>2, <1>3 DEF AdvisedOut
  <2>2. \A i \in DOMAIN q : ~SitsOut(advice) /\ ~Vetoed(advice, q[i].sym)
    BY <1>5, <2>1
  <2> QED
    BY <1>2, <2>2 DEF AdvisedOut
<1>15. Asked'
  BY <1>2, <1>6 DEF Asked
<1>16. Buys' = bought
  BY <1>2 DEF Buys
<1>17. Fresh'
  <2> SUFFICES ASSUME AntiAveragingDown, NEW i \in bought PROVE Below(pf', q[i].sym, q[i].price)
    BY <1>2, <1>16 DEF Fresh, Below, Holds
  <2>1. q[i].sym \in W /\ q[i].price = analyses[q[i].sym].price
    BY <1>b DEF W
  <2>2. Below(done, q[i].sym, q[i].price)
    BY <1>8, <2>1 DEF Priced
  <2>3. q # <<>>
    OBVIOUS
  <2> QED
    BY <1>10, <2>2, <2>3 DEF Below, Holds
<1>18. ExposureOvershootBounded'
  <2> SUFFICES ASSUME bought # {}
               PROVE  MarketValue(pf') * 100 <= Risk.max_exposure * TotalBalance(pf')
                                                + (Cardinality(bought) - 1) * Risk.max_position * pf.cash
    <3>1. MarketValue(pf)' = MarketValue(pf') /\ TotalBalance(pf)' = TotalBalance(pf')
      BY DEF TotalBalance, MarketValue
    <3> QED
      BY <1>2, <1>16, <3>1 DEF ExposureOvershootBounded
  <2>1. PICK p, a, B : p \in Portfolios /\ p = pf /\ a = analyses /\ B = bought
    BY <1>4
  <2>2. /\ SumFunctionOnSet(Cost(q), DOMAIN q) \in Nat
        /\ (MarketValue(p) + SumFunctionOnSet(Cost(q), DOMAIN q)) * 100
             <= Risk.max_exposure * TotalBalance(p) + (Cardinality(B) - 1) * Risk.max_position * p.cash
    <3>1. q \in Seq(Held(a, p)) /\ B = {i \in DOMAIN q : q[i].side = "buy"} /\ B # {}
      BY <1>5, <2>1
    <3> QED
      BY ONLY <2>1, <3>1, BuysTogether
  <2>3. PICK g \in Nat : g = SumFunctionOnSet(Cost(q), DOMAIN q)
    BY <2>2
  <2>4. PICK bound :
          bound = Risk.max_exposure * TotalBalance(p) + (Cardinality(B) - 1) * Risk.max_position * p.cash
    OBVIOUS
  <2>5. q # <<>>
    OBVIOUS
  <2>6. MarketValue(pf') = MarketValue(done)
    BY <1>10, <2>5 DEF MarketValue
  <2>7. PICK x, y, c, d \in Nat : x = MarketValue(p) /\ y = MarketValue(done) /\ c = p.cash /\ d = done.cash
    BY <1>9, <2>1, MarketValueIsSum DEF Portfolios
  <2>8. y + d = x + c /\ d + g >= c
    BY <1>8, <1>9, <2>1, <2>3, <2>7 DEF TotalBalance
  <2>9. y <= x + g
    BY <2>8
  <2>10. (x + g) * 100 <= bound
    BY <2>2, <2>3, <2>4, <2>7
  <2>11. bound \in Int
    <3>1. Risk.max_exposure \in Nat /\ Risk.max_position \in Nat
      BY LimitsType
    <3>2. TotalBalance(p) \in Nat
      BY <2>7 DEF TotalBalance
    <3>3. Cardinality(B) \in Nat
      <4>1. PICK n \in Nat : DOMAIN q = 1 .. n
        BY <1>5
      <4>2. B \subseteq 1 .. n
        BY <2>1, <4>1
      <4> QED
        BY <4>2, IndicesFinite, FS_Subset, FS_CardinalityType
    <3>4. PICK o \in Nat, m \in Nat, e \in Nat, t \in Nat :
            o = Cardinality(B) /\ m = Risk.max_position /\ e = Risk.max_exposure /\ t = TotalBalance(p)
      BY <3>1, <3>2, <3>3
    <3>5. e * t \in Nat /\ (o - 1) * m * c \in Int
      OBVIOUS
    <3> QED
      BY <2>4, <2>7, <3>4, <3>5
  <2>12. y * 100 <= bound
    BY <2>9, <2>10, <2>11
  <2>13. TotalBalance(pf') = TotalBalance(p)
    BY <1>10, <2>1
  <2> QED
    BY <2>1, <2>4, <2>6, <2>7, <2>12, <2>13
<1> QED
  BY <1>2, <1>11, <1>12, <1>13, <1>14, <1>15, <1>17, <1>18 DEF DecisionsInv, Current, Deciding, Unadvised

\* Settling leaves amounts and stops what they must be.
LEMMA ExecuteKeeps == DecisionsInv /\ Execute => DecisionsInv'
<1> SUFFICES ASSUME DecisionsInv, Execute PROVE DecisionsInv'
  OBVIOUS
<1>1. PICK b, settled : /\ b = [pf |-> pf, breakEven |-> breakEven]
                        /\ settled = FoldLeft(Settled, b, reqs)
  OBVIOUS
<1>2. /\ pc' = "end" /\ pf' = settled.pf /\ breakEven' = settled.breakEven
      /\ UNCHANGED <<tripped, ensemble, previous, analyses, signals, reqs, score, advice, before, cycles>>
  BY <1>1 DEF Execute, flowVars
<1>3. Typed /\ reqs \in Seq(Requests(analyses))
  BY DEF DecisionsInv, Asked, Execute
<1> DEFINE W == IF AntiAveragingDown THEN {reqs[i].sym : i \in Buys} ELSE {}
<1>w. \A i \in Buys : /\ reqs[i].sym \in Symbols /\ reqs[i].price = analyses[reqs[i].sym].price
  <2>1. \A r \in Requests(analyses) : r.sym \in Symbols /\ r.price = analyses[r.sym].price
    BY DEF Requests, RequestType
  <2> QED
    BY <1>3, <2>1 DEF Buys
<1>4. settled \in Books(analyses, W) /\ W \in SUBSET Symbols
  <2>1. \A s \in W : Below(pf, s, analyses[s].price)
    <3>1. AntiAveragingDown => \A i \in Buys : Below(pf, reqs[i].sym, reqs[i].price)
      BY DEF DecisionsInv, Fresh, Execute
    <3> QED
      BY <1>w, <3>1
  <2>2. W \in SUBSET Symbols
    BY <1>w
  <2> HIDE DEF W
  <2>3. b \in Books(analyses, W)
    BY <1>1, <1>3, <2>1 DEF Typed, Books
  <2> QED
    BY <1>1, <1>3, <2>2, <2>3, SettledListType
<1>5. pf' \in Portfolios /\ breakEven' \in BreakEvens /\ \A s \in W : Below(pf', s, analyses[s].price)
  BY <1>2, <1>4 DEF Books
<1>6. Typed'
  BY <1>2, <1>3, <1>5 DEF Typed
<1>7. Fresh'
  <2> SUFFICES ASSUME AntiAveragingDown, NEW i \in Buys PROVE Below(pf', reqs[i].sym, reqs[i].price)
    BY <1>2 DEF Fresh, Buys, Below, Holds
  <2>1. reqs[i].sym \in W
    OBVIOUS
  <2> QED
    BY <1>5, <1>w, <2>1
<1> QED
  BY <1>2, <1>6, <1>7 DEF DecisionsInv, Current, Deciding, Unadvised, Asked,
                    SellsCovered, ValuePreserved, AdvisedOut, ExposureOvershootBounded, Reserved

\* The end of a cycle keeps the invariant.
LEMMA EndKeeps == DecisionsInv /\ EndCycle => DecisionsInv'
<1> SUFFICES ASSUME DecisionsInv, EndCycle PROVE DecisionsInv'
  OBVIOUS
<1>1. /\ pc' = "market"
      /\ UNCHANGED <<pf, tripped, ensemble, breakEven, analyses, signals, reqs, score, advice, before>>
  BY DEF EndCycle, flowVars
<1>2. Typed'
  BY <1>1 DEF DecisionsInv, Typed
<1> QED
  BY <1>1, <1>2 DEF DecisionsInv, Current, Deciding, Unadvised, Asked, Fresh,
                    SellsCovered, ValuePreserved, AdvisedOut, ExposureOvershootBounded, Reserved

\* So does a step that changes nothing.
LEMMA StutterKeeps == DecisionsInv /\ UNCHANGED vars => DecisionsInv'
<1> SUFFICES ASSUME DecisionsInv, UNCHANGED vars PROVE DecisionsInv'
  OBVIOUS
<1>1. UNCHANGED <<pf, tripped, ensemble, breakEven, previous, pc, analyses, signals,
                  reqs, score, advice, before, cycles>>
  BY DEF vars
<1>2. Typed' /\ Current' /\ Unadvised' /\ AdvisedOut' /\ Asked'
  BY <1>1 DEF DecisionsInv, Typed, Current, Deciding, Holds, Unadvised, AdvisedOut, Asked
<1>3. SellsCovered' /\ ValuePreserved' /\ ExposureOvershootBounded'
  BY <1>1 DEF DecisionsInv, SellsCovered, SellsOf, ValuePreserved, Reserved, TotalBalance, MarketValue,
              ExposureOvershootBounded, Buys
<1>4. Fresh'
  BY <1>1 DEF DecisionsInv, Fresh, Buys, Below, Holds
<1> QED
  BY <1>2, <1>3, <1>4 DEF DecisionsInv

\* The invariant holds in every state of every behaviour.
LEMMA SpecInv == Spec => []DecisionsInv
<1>1. DecisionsInv /\ [Next]_vars => DecisionsInv'
  BY MarketKeeps, StrategyKeeps, UncertaintyKeeps, AdvisoryKeeps, AdvisoryFailsKeeps, ReserveKeeps,
     ExecuteKeeps, EndKeeps, StutterKeeps DEF Next
<1> QED
  BY InitInv, <1>1, PTL DEF Spec

\* Cash and amounts never go below 0, and every request has an amount and a stop,
\* whatever the strategies say and the crew directs.
THEOREM DecisionsTyped == Spec => []TypeOK
<1>1. DecisionsInv => TypeOK
  <2> SUFFICES ASSUME DecisionsInv PROVE TypeOK
    OBVIOUS
  <2>1. Typed
    BY DEF DecisionsInv
  <2>2. \A i \in DOMAIN signals : signals[i].conf \in 0 .. 100
    BY <2>1 DEF Typed, Signals
  <2>3. \A i \in DOMAIN reqs : reqs[i] \in RequestType
    BY <2>1 DEF Typed
  <2>4. pf.cash \in Nat /\ pf.peak \in Nat /\ pf.pos \in [Symbols -> PositionType]
    BY <2>1 DEF Typed, Portfolios, Position
  <2> QED
    BY <2>1, <2>2, <2>3, <2>4 DEF Typed, TypeOK
<1> QED
  BY SpecInv, <1>1, PTL

\* Execution is never asked to sell more of a symbol than is held.
THEOREM SellsStayCovered == Spec => []SellsCovered
<1>1. DecisionsInv => SellsCovered
  BY DEF DecisionsInv
<1> QED
  BY SpecInv, <1>1, PTL

\* Reserving the capital of a cycle creates no value and destroys none.
THEOREM ReservingKeepsValue == Spec => []ValuePreserved
<1>1. DecisionsInv => ValuePreserved
  BY DEF DecisionsInv
<1> QED
  BY SpecInv, <1>1, PTL

\* The requests of a cycle, each checked alone, pass the exposure limit by no more
\* than one position limit for each BUY after the first.
THEOREM ExposureStaysBounded == Spec => []ExposureOvershootBounded
<1>1. DecisionsInv => ExposureOvershootBounded
  BY DEF DecisionsInv
<1> QED
  BY SpecInv, <1>1, PTL

\* With the guard against averaging down, the stop-loss hook never sells what the
\* cycle just bought.
THEOREM FreshBuysAreKept == Spec => [](AntiAveragingDown => FreshBuyNotStopped)
<1>1. DecisionsInv => (AntiAveragingDown => FreshBuyNotStopped)
  BY DEF DecisionsInv, Fresh, FreshBuyNotStopped, Below, Holds
<1> QED
  BY SpecInv, <1>1, PTL

\* What the crew vetoed or sat out does not reach execution.
THEOREM AdviceIsFollowed == Spec => []AdvisedOut
<1>1. DecisionsInv => AdvisedOut
  BY DEF DecisionsInv
<1> QED
  BY SpecInv, <1>1, PTL

-----------------------------------------------------------------------------
(* The two votes. *)

\* The two copies of the vote count the same ballots.
LEMMA VotesAgree == \A a : Vote(Opinions(a)) = CompositeSignal(a)
<1> SUFFICES ASSUME NEW a PROVE Vote(Opinions(a)) = CompositeSignal(a)
  OBVIOUS
<1> DEFINE B == Opinions(a)
           D == DOMAIN Strategies
           raw == {i \in D : Actionable(OpinionOf(Strategies[i], a))}
           of(s) == {i \in raw : OpinionOf(Strategies[i], a).side = s}
           C == [i \in D |-> OpinionOf(Strategies[i], a).conf]
           mean(s) == SumFunctionOnSet(C, of(s)) \div Cardinality(of(s))
           consensus(s) == IF of(s) = {} THEN <<>>
                           ELSE IF mean(s) < MinConfidence THEN <<>> ELSE <<Opinion(s, mean(s))>>
           needed == Threshold * Len(Strategies)
<1>1. DOMAIN B = D /\ \A i \in D : B[i] = OpinionOf(Strategies[i], a)
  BY DEF Opinions
<1>2. \A i \in D : i \in raw <=> OpinionOf(Strategies[i], a).side \in {"buy", "sell"}
  BY DEF Actionable
<1>3. \A s \in {"buy", "sell"} : Voting(B, s) = of(s) /\ of(s) \subseteq D
  BY <1>1, <1>2 DEF Voting
<1>4. (\A i \in DOMAIN B : ~Actionable(B[i])) <=> raw = {}
  BY <1>1
<1>5. [i \in DOMAIN B |-> B[i].conf] = C
  BY <1>1
<1> HIDE DEF B, D, C, raw
<1>6. \A s \in {"buy", "sell"} : BuildConsensus(B, s) = consensus(s)
  BY <1>3, <1>5 DEF BuildConsensus, Mean
<1>7. \A s \in {"buy", "sell"} : Agrees(B, s) <=> Cardinality(of(s)) * 100 >= needed
  BY <1>3 DEF Agrees
<1>8. (Cardinality(Voting(B, "buy")) >= Cardinality(Voting(B, "sell")))
        <=> Cardinality(of("buy")) * 100 >= Cardinality(of("sell")) * 100
  <2>1. PICK m \in Nat, n \in Nat : m = Cardinality(of("buy")) /\ n = Cardinality(of("sell"))
    BY <1>3, StrategiesFinite DEF D
  <2>2. Voting(B, "buy") = of("buy") /\ Voting(B, "sell") = of("sell")
    BY <1>3
  <2>3. m >= n <=> m * 100 >= n * 100
    OBVIOUS
  <2> HIDE DEF of
  <2> QED
    BY <2>1, <2>2, <2>3
<1> DEFINE composite ==
      IF raw = {} THEN <<>>
      ELSE IF /\ Cardinality(of("buy")) * 100 >= needed
              /\ Cardinality(of("buy")) * 100 >= Cardinality(of("sell")) * 100
        THEN consensus("buy")
      ELSE IF Cardinality(of("sell")) * 100 >= needed THEN consensus("sell")
      ELSE <<>>
<1>9. Vote(B) = composite
  <2> HIDE DEF consensus, needed
  <2> QED
    BY <1>4, <1>6, <1>7, <1>8 DEF Vote
<1>10. CompositeSignal(a) = composite
  BY DEF CompositeSignal, raw, C, D
<1> QED
  BY <1>9, <1>10 DEF B

\* The ensemble vote of StrategyRunner and the vote of CompositeStrategy are the
\* same rule: on no analysis do they differ, for any strategies and threshold.
THEOREM VotesAreComposite == Spec => []VoteIsComposite
<1>1. VoteIsComposite
  BY VotesAgree DEF VoteIsComposite
<1> QED
  BY <1>1, PTL
=============================================================================
