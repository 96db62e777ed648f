------------------------------- MODULE Advisory -------------------------------
(***************************************************************************)
(* The advisory crew's answer, and what its directives do to the signals   *)
(* of a cycle: AdvisoryCrew's parsing of the model's output and            *)
(* apply_advisory_directives.                                              *)
(*                                                                         *)
(* An answer is a record: `form` is what json.loads made of it, `items`    *)
(* the adjustments listed in it.  An item is [action, sym, param]: `param` *)
(* stands for the one numeric parameter its action reads, None when it is  *)
(* missing; `sym` is None for a directive about the whole cycle.           *)
(* Confidences and factors are per cents, stop distances per mille.        *)
(***************************************************************************)
EXTENDS Integers, Sequences, SequencesExt, Lists, Optional

Actions == {"veto_signal", "adjust_confidence", "tighten_stop_loss",
            "reduce_position_size", "sit_out"}

DirectiveType == [action : STRING, sym : STRING \cup {None}, param : Int \cup {None}]

\* An answer that is not JSON, or neither an object nor a list, is a summary;
\* an item whose action is unknown is dropped.
ParsedAnswer(answer) ==
  IF answer.form \in {"object", "list"}
    THEN Sublist(answer.items, {i \in DOMAIN answer.items : answer.items[i].action \in Actions})
    ELSE <<>>
-----------------------------------------------------------------------------
Clamp(x, low, high) == IF x < low THEN low ELSE IF x > high THEN high ELSE x

\* The parameters of the directives of one action about one symbol, in order.
ParamsOf(directives, action, sym) ==
  LET about(d) == d.action = action /\ d.sym = sym /\ d.param # None
      these    == Sublist(directives, {i \in DOMAIN directives : about(directives[i])})
  IN  [i \in DOMAIN these |-> these[i].param]

\* The last directive wins; None when there is none.
Override(directives, action, sym) ==
  LET found == ParamsOf(directives, action, sym)
  IN  IF found = <<>> THEN None ELSE Last(found)

Vetoed(directives, sym) ==
  \E i \in DOMAIN directives : directives[i].action = "veto_signal" /\ directives[i].sym = sym

SitsOut(directives) == \E i \in DOMAIN directives : directives[i].action = "sit_out"

\* Mutant of AdvisedStop: the distance is added whatever the side.
AdvisedStopAbove(sig, mille) == sig.price + (sig.price * Clamp(mille, 1, 500)) \div 1000

\* The stop is moved to the advised distance, above the price of a SELL and
\* below that of a BUY, whether or not that is tighter.
AdvisedStop(sig, mille) ==
  LET distance == (sig.price * Clamp(mille, 1, 500)) \div 1000
  IN  IF sig.side = "sell" THEN sig.price + distance ELSE sig.price - distance

\* Mutant of AdvisedConfidence: the model's number is taken as it is.
AdvisedConfidenceRaw(sig, new, factor) ==
  IF factor # None THEN (sig.conf * factor) \div 100 ELSE IF new # None THEN new ELSE sig.conf

\* A size factor scales the confidence the signal came with, and wins over an
\* adjusted confidence; no directive changes an amount.
AdvisedConfidence(sig, new, factor) ==
  IF factor # None THEN (sig.conf * Clamp(factor, 1, 100)) \div 100
  ELSE IF new # None THEN Clamp(new, 0, 100)
  ELSE sig.conf

Advised(sig, directives) ==
  LET mille == Override(directives, "tighten_stop_loss", sig.sym)
  IN  [sig EXCEPT !.stop = IF mille = None THEN @ ELSE AdvisedStop(sig, mille),
                  !.conf = AdvisedConfidence(sig, Override(directives, "adjust_confidence", sig.sym),
                                             Override(directives, "reduce_position_size", sig.sym))]

\* apply_advisory_directives: one veto is enough, one sit_out empties the cycle.
ApplyDirectives(signals, directives) ==
  IF SitsOut(directives) THEN <<>>
  ELSE LET kept == Sublist(signals, {i \in DOMAIN signals : ~Vetoed(directives, signals[i].sym)})
       IN  [i \in DOMAIN kept |-> Advised(kept[i], directives)]
=============================================================================
