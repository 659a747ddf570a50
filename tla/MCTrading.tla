------------------------------ MODULE MCTrading ------------------------------
(* Small instances of Trading for TLC. *)
EXTENDS Trading, TLC

Form(direction, type, quantity, price, tif) ==
    [symbol |-> "AAPL", direction |-> direction, order_type |-> type,
     quantity |-> quantity, price |-> price, time_in_force |-> tif]

Buy(price, tif)  == Form("buy", "limit", 1, price, tif)
Sell(price) == Form("sell", "limit", 1, price, "DAY")
MarketBuy   == Form("buy", "market", 1, NoPrice, "DAY")

\* A buy and a sell that cross.
CrossingForms == {Buy(2, "DAY"), Sell(1)}
\* A market buy, which reserves at the default price, and a cheap sell.
MarketForms == {MarketBuy, Sell(1)}
\* A buy and a sell that do not cross, and what the buy may be replaced by: a
\* price that meets the sell, and a time in force the orders table refuses.
ReplaceForms == {Buy(2, "DAY"), Sell(3), Buy(3, "DAY"), Buy(1, "???")}

Perms == Permutations(Requests) \cup Permutations(Engines)

Funds == [a \in Accounts |-> 4]
=============================================================================
