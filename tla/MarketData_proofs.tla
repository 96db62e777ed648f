-------------------------- MODULE MarketData_proofs --------------------------
(***************************************************************************)
(* Proofs about MarketData: the invariants of the call path and of the     *)
(* candle history, for any callers, limits, page sizes and bounds.         *)
(***************************************************************************)
EXTENDS MarketData, FiniteSetTheorems, TLAPS

\* An order call is accepted at most once per attempt.
AcceptedWithin ==
  /\ st[OrderCaller] = "waiting" => accepted < attempt[OrderCaller]
  /\ st[OrderCaller] = "asleep"  => accepted <= attempt[OrderCaller]

\* The call path.
CallsInv == CallsTypeOK /\ AcceptedWithin /\ ThresholdCools /\ CountBounded

\* The types TypeOK leaves out.
DataTypes ==
  /\ now \in Times /\ fetched \in -1 .. now /\ loaded \subseteq Times
  /\ cap \in Nat \ {0} /\ cursor \in Nat
  /\ store \in [Times -> {"none", "partial", "final"}]
  /\ got \in [Times -> {"none", "partial", "final"}]
  /\ lpc \in {"page", "save", "done"}

\* The script stores once, at its end.
LoadedAtEnd == lpc # "done" => loaded = {}

\* Between two pages the script has exactly the candles before its cursor.
PagesFilled == lpc = "page" => \A t \in Times : got[t] # "none" <=> t < cursor

\* The candle history.
DataInv == DataTypes /\ LoadedAtEnd /\ PagesFilled /\ RangeWithoutHoles /\ PartialCandlesHeal

IInv == CallsInv /\ DataInv
-----------------------------------------------------------------------------
(* The call path. *)

\* The calls under way are finitely many, and a caller that returns is one fewer.
LEMMA InFlightShrinks ==
  ASSUME NEW c \in Callers, CallsTypeOK, st[c] # "idle", Returns(c)
  PROVE  /\ Cardinality(InFlight) \in Nat /\ Cardinality(InFlight') = Cardinality(InFlight) - 1
         /\ Cardinality(InFlight) <= Cardinality(Callers) /\ Cardinality(Callers) \in Nat
<1>1. InFlight' = InFlight \ {c} /\ c \in InFlight
  BY DEF InFlight, Returns, CallsTypeOK
<1>2. IsFiniteSet(InFlight) /\ Cardinality(InFlight) <= Cardinality(Callers)
  <2>1. InFlight \in SUBSET Callers
    BY DEF InFlight
  <2> QED
    BY <2>1, FS_Subset, ExchangeCallsAssumption
<1>3. Cardinality(InFlight) \in Nat /\ Cardinality(Callers) \in Nat
  BY <1>2, FS_CardinalityType, ExchangeCallsAssumption
<1> QED
  BY <1>1, <1>2, <1>3, FS_RemoveElement

\* What is under way does not change while a call goes on.
LEMMA InFlightStays ==
  ASSUME NEW c \in Callers, CallsTypeOK, st[c] # "idle",
         NEW s \in {"waiting", "asleep"}, st' = [st EXCEPT ![c] = s]
  PROVE  InFlight' = InFlight
  BY DEF InFlight, CallsTypeOK

\* The service starts without failures and without calls.
LEMMA CallsStart == CallsInit => CallsInv
<1> SUFFICES ASSUME CallsInit PROVE CallsInv
  OBVIOUS
<1> USE ExchangeCallsAssumption
<1>1. CallsTypeOK
  BY DEF CallsInit, CallsTypeOK
<1>2. AcceptedWithin
  BY DEF CallsInit, AcceptedWithin
<1>3. ThresholdCools /\ CountBounded
  BY DEF CallsInit, ThresholdCools, CountBounded
<1> QED
  BY <1>1, <1>2, <1>3 DEF CallsInv

\* A step of the breaker and of one call keeps the invariant.
LEMMA CallKeeps ==
  ASSUME CallsInv, NEW c \in Callers, Call(c)
  PROVE  CallsInv'
<1> USE ExchangeCallsAssumption
<1>1. CallsTypeOK'
  BY DEF CallsInv, CallsTypeOK, Call, CheckBreaker
<1>2. AcceptedWithin'
  BY DEF CallsInv, CallsTypeOK, AcceptedWithin, Call
<1>3. ThresholdCools' /\ CountBounded'
  BY DEF CallsInv, CallsTypeOK, ThresholdCools, CountBounded, Call, CheckBreaker
<1> QED
  BY <1>1, <1>2, <1>3 DEF CallsInv

\* An answer resets the count.
LEMMA AnsweredKeeps ==
  ASSUME CallsInv, NEW c \in Callers, Answered(c)
  PROVE  CallsInv'
<1> USE ExchangeCallsAssumption
<1>1. CallsTypeOK'
  <2>1. accepted' \in 0 .. MaxRetries
    BY DEF CallsInv, CallsTypeOK, AcceptedWithin, Answered
  <2> QED
    BY <2>1 DEF CallsInv, CallsTypeOK, Answered, Returns
<1>2. AcceptedWithin'
  BY DEF CallsInv, CallsTypeOK, AcceptedWithin, Answered, Returns
<1>3. ThresholdCools'
  BY DEF ThresholdCools, Answered
<1>4. CountBounded'
  <2>1. /\ Cardinality(InFlight) \in Nat /\ Cardinality(InFlight') = Cardinality(InFlight) - 1
        /\ Cardinality(InFlight) <= Cardinality(Callers) /\ Cardinality(Callers) \in Nat
    BY InFlightShrinks DEF CallsInv, Answered
  <2> QED
    BY <2>1 DEF CountBounded, Answered
<1> QED
  BY <1>1, <1>2, <1>3, <1>4 DEF CallsInv

\* An error that is not retried ends the call.
LEMMA RefusedKeeps ==
  ASSUME CallsInv, NEW c \in Callers, Refused(c)
  PROVE  CallsInv'
<1> USE ExchangeCallsAssumption
<1>1. CallsTypeOK'
  BY DEF CallsInv, CallsTypeOK, Refused, Returns
<1>2. AcceptedWithin'
  BY DEF CallsInv, CallsTypeOK, AcceptedWithin, Refused, Returns
<1>3. ThresholdCools'
  BY DEF CallsInv, ThresholdCools, Refused
<1>4. CountBounded'
  <2>1. /\ Cardinality(InFlight) \in Nat /\ Cardinality(InFlight') = Cardinality(InFlight) - 1
        /\ Cardinality(Callers) \in Nat
    BY InFlightShrinks DEF CallsInv, Refused
  <2> QED
    BY <2>1 DEF CallsInv, CallsTypeOK, CountBounded, Refused
<1> QED
  BY <1>1, <1>2, <1>3, <1>4 DEF CallsInv

\* An error that is retried, and the retry, change no count.
LEMMA FailsKeeps ==
  ASSUME CallsInv, NEW c \in Callers, Fails(c)
  PROVE  CallsInv'
<1> USE ExchangeCallsAssumption
<1>1. accepted' \in {accepted} \/ (c = OrderCaller /\ accepted' = accepted + 1)
  BY DEF Fails
<1>2. CallsTypeOK'
  <2>1. accepted' \in 0 .. MaxRetries
    BY <1>1 DEF CallsInv, CallsTypeOK, AcceptedWithin, Fails
  <2> QED
    BY <2>1 DEF CallsInv, CallsTypeOK, Fails
<1>3. AcceptedWithin'
  BY <1>1 DEF CallsInv, CallsTypeOK, AcceptedWithin, Fails
<1>4. ThresholdCools'
  BY DEF CallsInv, ThresholdCools, Fails
<1>5. CountBounded'
  <2>1. InFlight' = InFlight
    BY InFlightStays DEF CallsInv, Fails
  <2> QED
    BY <2>1 DEF CallsInv, CountBounded, Fails
<1> QED
  BY <1>2, <1>3, <1>4, <1>5 DEF CallsInv

\* A retry keeps the invariant of the calls.
LEMMA RetryKeeps ==
  ASSUME CallsInv, NEW c \in Callers, Retry(c)
  PROVE  CallsInv'
<1> USE ExchangeCallsAssumption
<1>1. CallsTypeOK'
  BY DEF CallsInv, CallsTypeOK, Retry
<1>2. AcceptedWithin'
  BY DEF CallsInv, CallsTypeOK, AcceptedWithin, Retry
<1>3. ThresholdCools'
  BY DEF CallsInv, ThresholdCools, Retry
<1>4. CountBounded'
  <2>1. InFlight' = InFlight
    BY InFlightStays DEF CallsInv, Retry
  <2> QED
    BY <2>1 DEF CallsInv, CountBounded, Retry
<1> QED
  BY <1>1, <1>2, <1>3, <1>4 DEF CallsInv

\* The last error: the count grows by one as the calls under way become one
\* fewer, and starts a cooldown at the threshold.
LEMMA ExhaustedKeeps ==
  ASSUME CallsInv, NEW c \in Callers, Exhausted(c)
  PROVE  CallsInv'
<1> USE ExchangeCallsAssumption
<1>1. CallsTypeOK'
  BY DEF CallsInv, CallsTypeOK, Exhausted, Returns, Count
<1>2. AcceptedWithin'
  BY DEF CallsInv, CallsTypeOK, AcceptedWithin, Exhausted, Returns
<1>3. ThresholdCools'
  BY DEF CallsInv, CallsTypeOK, ThresholdCools, Exhausted, Count
<1>4. CountBounded'
  <2>1. /\ Cardinality(InFlight) \in Nat /\ Cardinality(InFlight') = Cardinality(InFlight) - 1
        /\ Cardinality(InFlight) <= Cardinality(Callers) /\ Cardinality(Callers) \in Nat
    BY InFlightShrinks DEF CallsInv, Exhausted
  <2>2. CASE cooling = "none"
    <3>1. failures < Threshold
      BY <2>2 DEF CallsInv, CallsTypeOK, ThresholdCools
    <3> QED
      BY <2>1, <2>2, <3>1 DEF CallsInv, CallsTypeOK, CountBounded, Exhausted, Count
  <2>3. CASE cooling # "none"
    BY <2>1, <2>3 DEF CallsInv, CallsTypeOK, CountBounded, Exhausted, Count
  <2> QED
    BY <2>2, <2>3
<1> QED
  BY <1>1, <1>2, <1>3, <1>4 DEF CallsInv

\* The clock passes the cooldown instant.
LEMMA CooldownKeeps == CallsInv /\ CooldownPasses => CallsInv'
  BY DEF CallsInv, CallsTypeOK, AcceptedWithin, ThresholdCools, CountBounded, CooldownPasses, InFlight

\* Every step of MarketData is one of these for the call path, or none.
LEMMA CallsInductive == CallsInv /\ [Next]_vars => CallsInv'
<1> SUFFICES ASSUME CallsInv, [Next]_vars PROVE CallsInv'
  OBVIOUS
<1>1. CASE UNCHANGED callVars
  BY <1>1 DEF CallsInv, CallsTypeOK, AcceptedWithin, ThresholdCools, CountBounded, InFlight, callVars
<1>2. CASE CandlesAnswered
  BY <1>2, AnsweredKeeps, MarketDataAssumption DEF CandlesAnswered
<1>3. CASE Cools
  BY <1>3, CooldownKeeps DEF Cools
<1>4. ASSUME NEW c \in Callers, CallStep(c) PROVE CallsInv'
  BY <1>4, CallKeeps, RefusedKeeps, FailsKeeps, RetryKeeps, ExhaustedKeeps, AnsweredKeeps DEF CallStep
<1>5. CASE Tick \/ FetchPage \/ PageFails \/ StoreRange
  BY <1>1, <1>5 DEF Tick, FetchPage, PageFails, StoreRange
<1>6. CASE UNCHANGED vars
  BY <1>1, <1>6 DEF vars
<1> QED
  BY <1>2, <1>3, <1>4, <1>5, <1>6 DEF Next
-----------------------------------------------------------------------------
(* The candle history. *)

\* What Min and Max choose.
LEMMA MinOfTwo ==
  ASSUME NEW a \in Int, NEW b \in Int
  PROVE  Min({a, b}) \in Int /\ Min({a, b}) = IF a <= b THEN a ELSE b
<1>1. \E x \in {a, b} : \A y \in {a, b} : x <= y
  OBVIOUS
<1>2. Min({a, b}) \in {a, b} /\ \A y \in {a, b} : Min({a, b}) <= y
  BY <1>1 DEF Min
<1> QED
  BY <1>2

\* The largest number of an interval is its end.
LEMMA MaxOfInterval ==
  ASSUME NEW a \in Int, NEW b \in Int, a <= b
  PROVE  Max(a .. b) = b
<1>1. \E x \in a .. b : \A y \in a .. b : x >= y
  <2>1. b \in a .. b /\ \A y \in a .. b : b >= y
    OBVIOUS
  <2> QED
    BY <2>1
<1>2. Max(a .. b) \in a .. b /\ \A y \in a .. b : Max(a .. b) >= y
  BY <1>1 DEF Max
<1> QED
  BY <1>2

\* The end of a page, and of what is kept of it.
PageEnd == Min({now, cursor + Min({Batch, cap}) - 1})
KeptEnd == IF PageEnd <= Until THEN PageEnd ELSE Until

\* A page and what is kept of it are intervals from the cursor, and the newest
\* candle kept is the end of the second.
LEMMA PageIsInterval ==
  ASSUME DataTypes
  PROVE  /\ PageEnd \in Int /\ PageEnd <= now /\ KeptEnd \in Int /\ KeptEnd <= PageEnd
         /\ Page = cursor .. PageEnd /\ Kept = cursor .. KeptEnd
         /\ Kept \subseteq Times
         /\ Newest = IF cursor <= KeptEnd THEN KeptEnd ELSE cursor
<1> USE MarketDataAssumption
<1>1. Min({Batch, cap}) \in Int /\ now \in Int /\ cursor \in Nat /\ Until \in Nat
  BY MinOfTwo DEF DataTypes, Times
<1>2. PageEnd \in Int /\ PageEnd <= now
  <2>1. \A i \in Int : Min({now, i}) \in Int /\ Min({now, i}) <= now
    BY <1>1, MinOfTwo
  <2>2. cursor + Min({Batch, cap}) - 1 \in Int
    BY <1>1
  <2> QED
    BY <2>1, <2>2 DEF PageEnd
<1>3. Page = cursor .. PageEnd
  BY DEF Page, PageEnd
<1>4. KeptEnd \in Int /\ KeptEnd <= PageEnd
  BY <1>1, <1>2 DEF KeptEnd
<1>5. Kept = cursor .. KeptEnd
  BY <1>1, <1>2, <1>3 DEF Kept, KeptEnd
<1>6. Kept \subseteq Times
  BY <1>1, <1>2, <1>4, <1>5 DEF DataTypes, Times
<1>7. Newest = IF cursor <= KeptEnd THEN KeptEnd ELSE cursor
  <2>1. CASE cursor <= KeptEnd
    BY <1>1, <1>4, <1>5, <2>1, MaxOfInterval DEF Newest
  <2>2. CASE ~(cursor <= KeptEnd)
    BY <1>1, <1>4, <1>5, <2>2 DEF Newest
  <2> QED
    BY <2>1, <2>2
<1> QED
  BY <1>2, <1>3, <1>4, <1>5, <1>6, <1>7

\* What a fetch of candles says of them.
LEMMA ValueType == \A t \in Times : Value(t) \in {"partial", "final"}
  BY DEF Value

\* Storing candles keeps the table well formed.
LEMMA UpsertedType ==
  ASSUME DataTypes, NEW fresh \in [Times -> {"none", "partial", "final"}]
  PROVE  Upserted(fresh) \in [Times -> {"none", "partial", "final"}]
  BY DEF DataTypes, Upserted

\* A history starts in the invariant of the candles.
LEMMA DataStart == Init => DataInv
<1> SUFFICES ASSUME Init PROVE DataInv
  OBVIOUS
<1> USE MarketDataAssumption
<1>1. DataTypes
  BY DEF Init, DataTypes, NoCandles, Times
<1>2. LoadedAtEnd /\ PagesFilled /\ RangeWithoutHoles /\ PartialCandlesHeal
  BY DEF Init, LoadedAtEnd, PagesFilled, RangeWithoutHoles, PartialCandlesHeal, NoCandles, Times
<1> QED
  BY <1>1, <1>2 DEF DataInv

\* A page adds the candles from the cursor on, so the candles collected stay an
\* initial part of the history.
LEMMA PageKeeps == DataInv /\ FetchPage => DataInv'
<1> SUFFICES ASSUME DataInv, FetchPage PROVE DataInv'
  OBVIOUS
<1> USE MarketDataAssumption
<1>1. DataTypes
  BY DEF DataInv
<1>2. /\ KeptEnd \in Int /\ Kept = cursor .. KeptEnd /\ Kept \subseteq Times
      /\ Newest = IF cursor <= KeptEnd THEN KeptEnd ELSE cursor
  BY <1>1, PageIsInterval
<1>3. \A t \in Times : got'[t] = IF t \in Kept THEN Value(t) ELSE got[t]
  BY DEF FetchPage
<1>4. \A t \in Times : got'[t] # "none" <=> t < cursor \/ t \in Kept
  <2> TAKE t \in Times
  <2>1. got[t] # "none" <=> t < cursor
    BY DEF DataInv, PagesFilled, FetchPage
  <2> QED
    BY <1>3, <2>1, ValueType
<1>5. DataTypes'
  <2>1. got' \in [Times -> {"none", "partial", "final"}]
    BY <1>1, ValueType DEF FetchPage, DataTypes
  <2>2. cursor' \in Nat /\ lpc' \in {"page", "save", "done"}
    BY <1>1, <1>2 DEF FetchPage, NextCursor, DataTypes
  <2> QED
    BY <1>1, <2>1, <2>2 DEF FetchPage, DataTypes, dataVars
<1>6. LoadedAtEnd'
  BY DEF DataInv, LoadedAtEnd, FetchPage, dataVars
<1>7. PagesFilled'
  <2> SUFFICES ASSUME lpc' = "page", NEW t \in Times PROVE got'[t] # "none" <=> t < cursor'
    BY DEF PagesFilled
  <2>1. ~(Cardinality(Page) < Batch \/ Newest <= cursor) /\ cursor' = Newest + 1
    BY DEF FetchPage, NextCursor
  <2>2. cursor <= KeptEnd /\ Newest = KeptEnd
    BY <1>1, <1>2, <2>1 DEF DataTypes
  <2>3. t \in Nat /\ cursor \in Nat
    BY <1>1 DEF DataTypes, Times
  <2> QED
    BY <1>2, <1>4, <2>1, <2>2, <2>3
<1>8. RangeWithoutHoles'
  <2> SUFFICES ASSUME NEW t \in Times, got'[t] # "none", NEW u \in 0 .. t
               PROVE  got'[u] # "none"
    BY DEF RangeWithoutHoles
  <2>1. u \in Times /\ u <= t /\ u \in Nat /\ t \in Nat /\ cursor \in Nat
    BY <1>1 DEF DataTypes, Times
  <2> QED
    BY <1>2, <1>4, <2>1
<1>9. PartialCandlesHeal'
  BY DEF DataInv, PartialCandlesHeal, FetchPage, dataVars
<1> QED
  BY <1>5, <1>6, <1>7, <1>8, <1>9 DEF DataInv

\* The script ends without storing.
LEMMA PageFailsKeeps == DataInv /\ PageFails => DataInv'
  BY DEF DataInv, DataTypes, LoadedAtEnd, PagesFilled, RangeWithoutHoles, PartialCandlesHeal, PageFails, dataVars

\* What the script stores over the bot's candles it is known to have stored.
LEMMA StoreKeeps == DataInv /\ StoreRange => DataInv'
<1> SUFFICES ASSUME DataInv, StoreRange PROVE DataInv'
  OBVIOUS
<1>1. DataTypes'
  BY UpsertedType DEF DataInv, DataTypes, StoreRange
<1>2. LoadedAtEnd' /\ PagesFilled' /\ RangeWithoutHoles'
  BY DEF DataInv, LoadedAtEnd, PagesFilled, RangeWithoutHoles, StoreRange
<1>3. PartialCandlesHeal'
  <2> SUFFICES ASSUME NEW t \in Times, store'[t] = "partial", t < fetched
               PROVE  t \in loaded' \/ t <= fetched - Limit
    BY DEF PartialCandlesHeal, StoreRange
  <2>1. CASE got[t] # "none"
    BY <2>1 DEF StoreRange
  <2>2. CASE got[t] = "none"
    <3>1. store[t] = "partial"
      BY <2>2 DEF StoreRange, Upserted
    <3>2. loaded = {}
      BY DEF DataInv, LoadedAtEnd, StoreRange
    <3> QED
      BY <3>1, <3>2 DEF DataInv, PartialCandlesHeal
  <2> QED
    BY <2>1, <2>2
<1> QED
  BY <1>1, <1>2, <1>3 DEF DataInv

\* The bot reads every candle within the limit again.
LEMMA CandlesKeep == DataInv /\ CandlesAnswered => DataInv'
<1> SUFFICES ASSUME DataInv, CandlesAnswered PROVE DataInv'
  OBVIOUS
<1> USE MarketDataAssumption
<1> DEFINE Recent == now - Limit + 1 .. now
           Fresh == [t \in Times |-> IF t \in Recent THEN Value(t) ELSE "none"]
<1>1. Fresh \in [Times -> {"none", "partial", "final"}]
  BY ValueType
<1>2. store' = Upserted(Fresh) /\ fetched' = now
  BY DEF CandlesAnswered
<1>3. DataTypes'
  <2>1. store' \in [Times -> {"none", "partial", "final"}]
    BY <1>1, <1>2, UpsertedType DEF DataInv
  <2>2. now \in Nat
    BY DEF DataInv, DataTypes, Times
  <2> QED
    BY <1>2, <2>1, <2>2 DEF DataInv, DataTypes, CandlesAnswered, scriptVars
<1>4. LoadedAtEnd' /\ PagesFilled' /\ RangeWithoutHoles'
  BY DEF DataInv, LoadedAtEnd, PagesFilled, RangeWithoutHoles, CandlesAnswered, scriptVars
<1>5. PartialCandlesHeal'
  <2> SUFFICES ASSUME NEW t \in Times, store'[t] = "partial", t < now
               PROVE  t <= now - Limit
    BY <1>2 DEF PartialCandlesHeal
  <2>1. now \in Int /\ t \in Int /\ Limit \in Int
    BY DEF DataInv, DataTypes, Times
  <2>2. t \notin Recent
    <3> SUFFICES ASSUME t \in Recent PROVE FALSE
      OBVIOUS
    <3>1. Fresh[t] = "final"
      BY <2>1 DEF Value
    <3> QED
      BY <1>2, <3>1 DEF Upserted
  <2> QED
    BY <2>1, <2>2
<1> QED
  BY <1>3, <1>4, <1>5 DEF DataInv

\* A new candle begins to form.
LEMMA TickKeeps == DataInv /\ Tick => DataInv'
<1> SUFFICES ASSUME DataInv, Tick PROVE DataInv'
  OBVIOUS
<1>1. DataTypes'
  BY MarketDataAssumption DEF DataInv, DataTypes, Tick, Times, scriptVars
<1>2. LoadedAtEnd' /\ PagesFilled' /\ RangeWithoutHoles' /\ PartialCandlesHeal'
  BY DEF DataInv, LoadedAtEnd, PagesFilled, RangeWithoutHoles, PartialCandlesHeal, Tick, scriptVars
<1> QED
  BY <1>1, <1>2 DEF DataInv

\* Every step keeps it.
LEMMA DataInductive == DataInv /\ [Next]_vars => DataInv'
<1> SUFFICES ASSUME DataInv, [Next]_vars PROVE DataInv'
  OBVIOUS
<1>1. CASE UNCHANGED <<dataVars, scriptVars>>
  BY <1>1 DEF DataInv, DataTypes, LoadedAtEnd, PagesFilled, RangeWithoutHoles, PartialCandlesHeal, dataVars, scriptVars
<1>2. CASE Cools \/ (\E c \in Callers : CallStep(c)) \/ UNCHANGED vars
  BY <1>1, <1>2 DEF Cools, CallStep, vars
<1>3. CASE CandlesAnswered \/ Tick \/ FetchPage \/ PageFails \/ StoreRange
  BY <1>3, CandlesKeep, TickKeeps, PageKeeps, PageFailsKeeps, StoreKeeps
<1> QED
  BY <1>2, <1>3 DEF Next
-----------------------------------------------------------------------------
(* The theorems. *)

\* Both parts start in their invariants.
LEMMA InitIInv == Init => IInv
  BY CallsStart, DataStart DEF Init, IInv

\* So the invariant of both always holds.
LEMMA Inductive == Spec => []IInv
<1>1. IInv /\ [Next]_vars => IInv'
  BY CallsInductive, DataInductive DEF IInv
<1> QED
  BY InitIInv, <1>1, PTL DEF Spec

\* MarketData keeps its types; in particular a call makes at most MaxRetries
\* attempts, so an order is accepted at most that often.
THEOREM MarketDataTypeCorrect == Spec => []TypeOK
<1>1. IInv => TypeOK
  BY DEF IInv, CallsInv, DataInv, DataTypes, TypeOK
<1> QED
  BY Inductive, <1>1, PTL

\* A count of rate limits at the threshold has always begun a cooldown
\* (_increment_cb), whichever of the concurrent calls counted last.
THEOREM ThresholdAlwaysCools == Spec => []ThresholdCools
<1>1. IInv => ThresholdCools
  BY DEF IInv, CallsInv
<1> QED
  BY Inductive, <1>1, PTL

\* The count passes the threshold by no more than the calls that were under way
\* when the breaker opened (_call, _retry).
THEOREM RateLimitsAreBounded == Spec => []CountBounded
<1>1. IInv => CountBounded
  BY DEF IInv, CallsInv
<1> QED
  BY Inductive, <1>1, PTL

\* The pages of fetch_ohlcv_range leave no hole, whatever page size the exchange
\* allows.
THEOREM RangesHaveNoHoles == Spec => []RangeWithoutHoles
<1>1. IInv => RangeWithoutHoles
  BY DEF IInv, DataInv
<1> QED
  BY Inductive, <1>1, PTL

\* A partial candle in the table is the newest the bot knows, the script's, or
\* older than the limit (save_ohlcv_batch).
THEOREM PartialCandlesAreReplaced == Spec => []PartialCandlesHeal
<1>1. IInv => PartialCandlesHeal
  BY DEF IInv, DataInv
<1> QED
  BY Inductive, <1>1, PTL

\* The last page of a range completes it, unless the exchange allows only pages
\* smaller than asked for; a page must hold more than one candle.
LEMMA LastPageCompletes ==
  ASSUME Batch > 1, IInv, [Next]_vars
  PROVE  lpc = "page" /\ lpc' = "save" /\ cap >= Batch
           => \A t \in 0 .. Min({Until, now}) : got'[t] # "none"
<1> USE MarketDataAssumption
<1> SUFFICES ASSUME lpc = "page", lpc' = "save", cap >= Batch, NEW t \in 0 .. Min({Until, now})
             PROVE  got'[t] # "none"
  OBVIOUS
<1>1. FetchPage
  BY DEF Next, CallStep, CandlesAnswered, Cools, Tick, PageFails, StoreRange, vars, scriptVars
<1>2. DataTypes /\ cursor \in Nat /\ now \in Nat /\ cap \in Nat
  BY DEF IInv, DataInv, DataTypes, Times
<1>3. t \in Times /\ t \in Nat /\ t <= Until /\ t <= now
  BY <1>2, MinOfTwo DEF DataTypes, Times
<1>4. /\ PageEnd \in Int /\ Page = cursor .. PageEnd
      /\ KeptEnd \in Int /\ Kept = cursor .. KeptEnd
      /\ Newest = IF cursor <= KeptEnd THEN KeptEnd ELSE cursor
  BY <1>2, PageIsInterval
<1>5. PageEnd = IF now <= cursor + Batch - 1 THEN now ELSE cursor + Batch - 1
  BY <1>2, MinOfTwo DEF PageEnd
<1>6. t < cursor \/ t \in Kept
  <2>1. CASE Cardinality(Page) < Batch
    <3>1. cursor > PageEnd \/ PageEnd - cursor + 1 < Batch
      BY <1>2, <1>4, <2>1, FS_Interval
    <3> QED
      BY <1>2, <1>3, <1>4, <1>5, <3>1 DEF KeptEnd
  <2>2. CASE ~(Cardinality(Page) < Batch) /\ Newest <= cursor
    <3>1. Cardinality(Page) = IF cursor > PageEnd THEN 0 ELSE PageEnd - cursor + 1
      BY <1>2, <1>4, FS_Interval
    <3>2. PageEnd >= cursor + 1
      BY <1>2, <1>4, <2>2, <3>1
    <3> QED
      BY <1>1, <1>2, <1>3, <1>4, <2>2, <3>2 DEF KeptEnd, FetchPage
  <2>3. CASE ~(Cardinality(Page) < Batch) /\ ~(Newest <= cursor)
    <3>1. Newest + 1 > Until
      BY <1>1, <2>3 DEF FetchPage, NextCursor
    <3> QED
      BY <1>2, <1>3, <1>4, <2>3, <3>1
  <2> QED
    BY <2>1, <2>2, <2>3
<1>7. t < cursor => got[t] # "none"
  BY <1>3 DEF IInv, DataInv, PagesFilled
<1>8. got'[t] = IF t \in Kept THEN Value(t) ELSE got[t]
  BY <1>1, <1>3 DEF FetchPage
<1> QED
  BY <1>3, <1>6, <1>7, <1>8, ValueType

\* fetch_ohlcv_range returns every candle of the range there was when its last
\* page came, from an exchange that allows pages as large as asked for.
THEOREM RangesAreComplete ==
  ASSUME Batch > 1
  PROVE  Spec => RangeComplete
<1>1. IInv /\ [Next]_vars
        => [lpc = "page" /\ lpc' = "save" /\ cap >= Batch
              => \A t \in 0 .. Min({Until, now}) : got'[t] # "none"]_vars
  BY LastPageCompletes
<1> QED
  BY Inductive, <1>1, PTL DEF Spec, RangeComplete
=============================================================================
