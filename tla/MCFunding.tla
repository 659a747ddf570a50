----------------------------- MODULE MCFunding -----------------------------
(* Small instances of Funding for TLC. *)
EXTENDS Funding, TLC

Form(direction, price) ==
    [symbol |-> "AAPL", direction |-> direction, order_type |-> "limit",
     quantity |-> 1, price |-> price, time_in_force |-> "DAY"]

CrossingForms == {Form("buy", 2), Form("sell", 1)}

Perms == Permutations(Depositors)

Funds == [a \in Accounts |-> 3]
=============================================================================
