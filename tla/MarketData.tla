------------------------------ MODULE MarketData ------------------------------
(***************************************************************************)
(* The candle history.  Two processes write the ohlcv table: every cycle   *)
(* of the bot stores the newest candles it fetched, the one still forming  *)
(* included; `backtest_runner --fetch` pages through a range with          *)
(* fetch_ohlcv_range and stores all of it at the end.  The bot's fetch is  *)
(* a call of ExchangeCalls; the script has a service of its own, and one   *)
(* call at a time, of which only the outcome counts.                       *)
(*                                                                         *)
(* Candles are numbered by their start; candle `now` is forming.  A stored *)
(* candle is "partial" when it was fetched while it formed, else "final".  *)
(***************************************************************************)
EXTENDS ExchangeCalls, FiniteSetsExt

CONSTANTS
  CandleCaller, \* the bot's fetch_ohlcv
  MaxTime,      \* bound: the last candle
  Limit,        \* market_data_candle_limit
  Until,        \* --to-date; --from-date is candle 0
  Batch,        \* batch_size
  Caps          \* page sizes an exchange may allow

ASSUME MarketDataAssumption ==
  /\ CandleCaller \in Callers \ {OrderCaller} /\ MaxTime \in Nat /\ Until \in Nat
  /\ Limit \in Nat \ {0} /\ Batch \in Nat \ {0} /\ Caps \subseteq Nat \ {0}

VARIABLES
  now,     \* the forming candle
  store,   \* the ohlcv table
  fetched, \* history: when the bot last stored candles
  loaded,  \* history: the candles the script stored
  cap,     \* the page size of this exchange
  lpc,     \* the script: "page", "save" or "done"
  cursor,  \* cursor_ms
  got      \* all_candles

scriptVars == <<cap, lpc, cursor, got>>
dataVars == <<now, store, fetched, loaded>>
vars == <<callVars, dataVars, scriptVars>>

Times == 0 .. MaxTime
NoCandles == [t \in Times |-> "none"]

Init ==
  /\ CallsInit
  /\ now = 0 /\ store = NoCandles /\ fetched = -1 /\ loaded = {}
  /\ cap \in Caps /\ lpc = "page" /\ cursor = 0 /\ got = NoCandles
-----------------------------------------------------------------------------
\* What the exchange says of candle t.
Value(t) == IF t = now THEN "partial" ELSE "final"

\* Mutant of Upserted: a candle already stored is left as it is.
UpsertedIfNew(fresh) == [t \in Times |-> IF store[t] # "none" THEN store[t] ELSE fresh[t]]

\* save_ohlcv_batch.
Upserted(fresh) == [t \in Times |-> IF fresh[t] # "none" THEN fresh[t] ELSE store[t]]

\* _run_symbol, from the answer of fetch_ohlcv.
CandlesAnswered ==
  /\ Answered(CandleCaller)
  /\ store' = Upserted([t \in Times |-> IF t \in now - Limit + 1 .. now THEN Value(t) ELSE "none"])
  /\ fetched' = now
  /\ UNCHANGED <<now, loaded, scriptVars>>

CallStep(c) ==
  /\ \/ Call(c) \/ Refused(c) \/ Fails(c) \/ Retry(c) \/ Exhausted(c)
     \/ c # CandleCaller /\ Answered(c)
  /\ UNCHANGED <<dataVars, scriptVars>>

Cools == CooldownPasses /\ UNCHANGED <<dataVars, scriptVars>>

Tick ==
  /\ now < MaxTime /\ now' = now + 1
  /\ UNCHANGED <<callVars, store, fetched, loaded, scriptVars>>
-----------------------------------------------------------------------------
(* fetch_ohlcv_range, one page at a time. *)

Page == cursor .. Min({now, cursor + Min({Batch, cap}) - 1})

\* Mutant of Kept: the end of the range is left out.
KeptBeforeEnd == Page \cap 0 .. Until - 1

Kept == Page \cap 0 .. Until

\* A page shorter than asked, or one that does not move the cursor, is the last.
Newest == IF Kept = {} THEN cursor ELSE Max(Kept)

\* Mutant of NextCursor: a page starts one candle too late.
NextCursorSkips == Newest + 2

NextCursor == Newest + 1

FetchPage ==
  /\ lpc = "page" /\ cursor <= Until
  /\ got' = [t \in Times |-> IF t \in Kept THEN Value(t) ELSE got[t]]
  /\ IF Cardinality(Page) < Batch \/ Newest <= cursor
       THEN lpc' = "save" /\ UNCHANGED cursor
       ELSE cursor' = NextCursor /\ lpc' = IF cursor' > Until THEN "save" ELSE "page"
  /\ UNCHANGED <<callVars, dataVars, cap>>

\* A page raises after its retries: the script ends and stores nothing.
PageFails ==
  /\ lpc = "page" /\ lpc' = "done"
  /\ UNCHANGED <<callVars, dataVars, cap, cursor, got>>

StoreRange ==
  /\ lpc = "save" /\ lpc' = "done"
  /\ store' = Upserted(got) /\ loaded' = {t \in Times : got[t] # "none"}
  /\ UNCHANGED <<callVars, now, fetched, cap, cursor, got>>
-----------------------------------------------------------------------------
Next ==
  \/ \E c \in Callers : CallStep(c)
  \/ CandlesAnswered \/ Cools \/ Tick
  \/ FetchPage \/ PageFails \/ StoreRange

\* Requests are answered or time out, sleeps end, the clock runs, and the cycles
\* of the bot keep calling.
Fairness ==
  /\ \A c \in Callers : WF_vars(CallStep(c))
  /\ WF_vars(CandlesAnswered) /\ WF_vars(Cools)

Spec == Init /\ [][Next]_vars /\ Fairness
-----------------------------------------------------------------------------
(* Properties. *)

TypeOK ==
  /\ CallsTypeOK
  /\ store \in [Times -> {"none", "partial", "final"}] /\ got \in [Times -> {"none", "partial", "final"}]
  /\ lpc \in {"page", "save", "done"}

\* What the pages have collected has no hole, whatever the exchange's page size
\* and however many candles close between two pages.
RangeWithoutHoles ==
  \A t \in Times : got[t] # "none" => \A u \in 0 .. t : got[u] # "none"

\* When the exchange allows pages as large as asked for, the range has every
\* candle up to its end, or up to the newest there was, when the last page came.
RangeComplete ==
  [][lpc = "page" /\ lpc' = "save" /\ cap >= Batch
       => \A t \in 0 .. Min({Until, now}) : got'[t] # "none"]_vars

\* A candle the bot first stored while it formed is final once the bot has
\* fetched again within the limit; only the script's older reading, or a gap
\* longer than the limit, leaves a partial candle behind.
PartialCandlesHeal ==
  \A t \in Times : store[t] = "partial" /\ t < fetched => t \in loaded \/ t <= fetched - Limit
=============================================================================
