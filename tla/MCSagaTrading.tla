--------------------------- MODULE MCSagaTrading ---------------------------
(* Small instances of SagaTrading for TLC. *)
EXTENDS SagaTrading

Form(direction, price, tif) ==
    [symbol |-> "AAPL", direction |-> direction, order_type |-> "limit",
     quantity |-> 1, price |-> price, time_in_force |-> tif]

\* A buy and a sell that cross, and what the buy may be replaced by.
SagaForms == {Form("buy", 2, "DAY"), Form("sell", 1, "DAY"), Form("buy", 1, "DAY")}

Funds == [a \in Accounts |-> 3]
=============================================================================
