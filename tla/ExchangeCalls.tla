---------------------------- MODULE ExchangeCalls ----------------------------
(***************************************************************************)
(* ExchangeService._call: every request to the exchange goes through the   *)
(* rate-limit breaker and a retry loop with backoff.  The coroutines of    *)
(* the bot share one service, so their calls interleave at every await;    *)
(* what the code does between two awaits is one step.                      *)
(*                                                                         *)
(* The cooldown instant is "none", "open" while it lies ahead, "expired"   *)
(* once the clock has passed it.  A caller is idle, waiting for an answer  *)
(* or asleep before the next attempt.  RateLimitExceeded is "rate", the    *)
(* other errors that are retried are "net"; the answer of an order may be  *)
(* lost after the exchange accepted it.                                    *)
(***************************************************************************)
EXTENDS Integers, FiniteSets

CONSTANTS
  Callers,    \* coroutines that share the service
  OrderCaller,\* the one that calls create_order
  MaxRetries, \* MAX_RETRIES
  Threshold   \* rate_limit_threshold

ASSUME ExchangeCallsAssumption ==
  /\ OrderCaller \in Callers /\ IsFiniteSet(Callers)
  /\ MaxRetries \in Nat \ {0} /\ Threshold \in Nat \ {0}

VARIABLES
  st,       \* a caller is "idle", "waiting" or "asleep"
  attempt,  \* attempts of its call so far
  err,      \* kind of its last error, last_error
  failures, \* _consecutive_rate_limit_failures
  cooling,  \* _rate_limit_cooldown_until
  accepted  \* orders the exchange accepted in the order call under way

callVars == <<st, attempt, err, failures, cooling, accepted>>

CallsInit ==
  /\ st = [c \in Callers |-> "idle"] /\ attempt = [c \in Callers |-> 0]
  /\ err = [c \in Callers |-> "none"]
  /\ failures = 0 /\ cooling = "none" /\ accepted = 0
-----------------------------------------------------------------------------
\* Mutant of CheckBreaker: the expired cooldown is cleared, the count is not.
CheckBreakerKeepsCount ==
  /\ cooling # "open"
  /\ cooling' = "none" /\ UNCHANGED failures

\* Mutant of CheckBreaker: an expired cooldown still refuses.
CheckBreakerStaysOpen == cooling = "none" /\ UNCHANGED <<cooling, failures>>

\* _check_cb lets the call through, and resets an expired cooldown.  While it is
\* open the call raises and changes nothing.
CheckBreaker ==
  /\ cooling # "open"
  /\ cooling' = "none"
  /\ failures' = IF cooling = "expired" THEN 0 ELSE failures

Returns(c) ==
  /\ st' = [st EXCEPT ![c] = "idle"]
  /\ attempt' = [attempt EXCEPT ![c] = 0] /\ err' = [err EXCEPT ![c] = "none"]

Call(c) ==
  /\ st[c] = "idle" /\ CheckBreaker
  /\ st' = [st EXCEPT ![c] = "waiting"] /\ attempt' = [attempt EXCEPT ![c] = 1]
  /\ accepted' = IF c = OrderCaller THEN 0 ELSE accepted
  /\ UNCHANGED err

\* An answer resets the count, not the cooldown that another call began.
Answered(c) ==
  /\ st[c] = "waiting"
  /\ Returns(c) /\ failures' = 0
  /\ accepted' = IF c = OrderCaller THEN accepted + 1 ELSE accepted
  /\ UNCHANGED cooling

\* An error that is not retried leaves the count as it is.
Refused(c) ==
  /\ st[c] = "waiting"
  /\ Returns(c)
  /\ UNCHANGED <<failures, cooling, accepted>>

\* The loop sleeps after every such error, the last one included.  An order the
\* exchange accepted is accepted again by the next attempt.
Fails(c) ==
  /\ st[c] = "waiting"
  /\ \E kind \in {"rate", "net"} : err' = [err EXCEPT ![c] = kind]
  /\ accepted' \in {accepted} \cup (IF c = OrderCaller /\ err'[c] = "net" THEN {accepted + 1} ELSE {})
  /\ st' = [st EXCEPT ![c] = "asleep"]
  /\ UNCHANGED <<attempt, failures, cooling>>

\* Mutant of Retry: one attempt too many.
RetryOnceMore(c) ==
  /\ st[c] = "asleep" /\ attempt[c] <= MaxRetries
  /\ st' = [st EXCEPT ![c] = "waiting"] /\ attempt' = [attempt EXCEPT ![c] = @ + 1]
  /\ UNCHANGED <<err, failures, cooling, accepted>>

\* Mutant of Retry: the attempts are not counted.
RetryForever(c) ==
  /\ st[c] = "asleep"
  /\ st' = [st EXCEPT ![c] = "waiting"]
  /\ UNCHANGED <<attempt, err, failures, cooling, accepted>>

\* A retry does not look at the breaker.
Retry(c) ==
  /\ st[c] = "asleep" /\ attempt[c] < MaxRetries
  /\ st' = [st EXCEPT ![c] = "waiting"] /\ attempt' = [attempt EXCEPT ![c] = @ + 1]
  /\ UNCHANGED <<err, failures, cooling, accepted>>

\* Mutant of Count: the breaker opens one failure late.
CountLate ==
  /\ failures' = failures + 1
  /\ cooling' = IF failures' > Threshold THEN "open" ELSE cooling

\* _increment_cb.
Count ==
  /\ failures' = failures + 1
  /\ cooling' = IF failures' >= Threshold THEN "open" ELSE cooling

\* The last error is raised; only a rate limit counts.
Exhausted(c) ==
  /\ st[c] = "asleep" /\ attempt[c] >= MaxRetries
  /\ IF err[c] = "rate" THEN Count ELSE UNCHANGED <<failures, cooling>>
  /\ Returns(c)
  /\ UNCHANGED accepted

CooldownPasses ==
  /\ cooling = "open" /\ cooling' = "expired"
  /\ UNCHANGED <<st, attempt, err, failures, accepted>>
-----------------------------------------------------------------------------
(* Properties. *)

CallsTypeOK ==
  /\ st \in [Callers -> {"idle", "waiting", "asleep"}]
  /\ attempt \in [Callers -> 0 .. MaxRetries] /\ err \in [Callers -> {"none", "rate", "net"}]
  /\ failures \in Nat /\ cooling \in {"none", "open", "expired"}
  /\ accepted \in 0 .. MaxRetries

\* Enough consecutive rate limits always have a cooldown, whichever of the
\* concurrent calls counted last and whatever ran when the last cooldown expired:
\* no call is let through at the threshold without the count being reset.
ThresholdCools == failures >= Threshold => cooling # "none"

\* The count passes the threshold only by the calls already past the breaker
\* when it opened: it cannot grow from one cooldown to the next.
InFlight == {c \in Callers : st[c] # "idle"}

CountBounded == cooling # "none" => failures + Cardinality(InFlight) < Threshold + Cardinality(Callers)

\* Every call returns or raises: the retries end.
CallsReturn == \A c \in Callers : st[c] # "idle" ~> st[c] = "idle"

\* An open breaker is closed again by some later call, although calls that were
\* in flight may open it anew.
BreakerRecovers == cooling = "open" ~> cooling = "none"
=============================================================================
