------------------------------- MODULE MCReplay -------------------------------
(***************************************************************************)
(* Instances of Replay.  Slippage and the fee are 5 per cent of prices     *)
(* that are multiples of 400; a BUY takes up to 48 per cent of the cash.   *)
(***************************************************************************)
EXTENDS Replay

MCRisk == [max_position |-> 48, max_exposure |-> 80, max_drawdown |-> 15, stop_loss |-> 10,
           per_trade |-> 5, min_confidence |-> 50, min_profit |-> 0]

\* What one, two or three strategies say of a bar.
MCSignals == {<<>>, <<"buy">>, <<"buy", "buy">>, <<"sell">>, <<"sell", "sell", "sell">>, <<"buy", "sell">>}
=============================================================================
