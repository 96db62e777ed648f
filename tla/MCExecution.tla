----------------------------- MODULE MCExecution -----------------------------
(* Instances of Execution for TLC. *)
EXTENDS Ledger, TLC

CONSTANT btc

Only(side, qty, price) == [sym : {btc}, side : {side}, qty : {qty}, price : {price}]

Start(cash, held) == [cash |-> cash, pos |-> btc :> held, fees |-> 0]

OneBuy == Only("buy", 2, 1)
OddBuy == Only("buy", 3, 1)
BuyLowSellHigh == Only("buy", 10, 1) \cup Only("sell", 10, 3)
Start6 == Start(6, 0)
Start10 == Start(10, 2)
Rich == Start(300, 100)
AllFaults == FaultKinds
ExchangeFaults == {"fetch_error", "cancel_error", "expire", "reject"}
OrdinaryFaults == ExchangeFaults \cup {"no_ticker"}
AnyWording == {"open", "partially_filled"}
=============================================================================
