--------------------------- MODULE MCTradingSystem ---------------------------
(* Small instances of TradingSystem for TLC. *)
EXTENDS TradingSystem

Form(direction, price) ==
    [symbol |-> "AAPL", direction |-> direction, order_type |-> "limit",
     quantity |-> 1, price |-> price, time_in_force |-> "DAY"]

CrossingForms == {Form("buy", 2), Form("sell", 1)}

Funds == [a \in Accounts |-> 4]
=============================================================================
