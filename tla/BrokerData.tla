----------------------------- MODULE BrokerData -----------------------------
(***************************************************************************)
(* The values the order path of BrokerX works on, and the pure rules over  *)
(* them: order forms, rows of the orders table, the cost of an order, the  *)
(* pre-trade and the model validations, and the rule that says which rows  *)
(* of the book an order may trade with.                                    *)
(*                                                                         *)
(* Amounts are natural numbers of one minor unit. A request that asks for  *)
(* a negative amount raises in Money before anything is written, so the    *)
(* naturals lose no behaviour.                                             *)
(***************************************************************************)
EXTENDS Naturals

CONSTANTS
    Accounts,       \* clients.id of the clients that own a portfolio
    OrderIds,       \* orders.id; the numeric order is the order of created_at
    Keys,           \* client_order_id values
    NoKey,          \* an order sent without client_order_id
    Forms,          \* what clients ask for (see FormType)
    NoPrice,        \* the NULL price of an order
    DefaultPrice,   \* the price that stands in for NULL, 100.0
    MinPrice,       \* the price band of limit orders, [1, 10000]
    MaxPrice

ValidTifs == {"DAY", "GTC", "IOC", "FOK"}

\* What a client may ask for. A time in force outside ValidTifs, a zero price
\* and a zero quantity are in the type: requests carry them, and different
\* layers of the code refuse them.
FormType ==
    [symbol        : STRING,
     direction     : {"buy", "sell"},
     order_type    : {"market", "limit"},
     quantity      : Nat,
     price         : Nat \cup {NoPrice},
     time_in_force : STRING]

OpenStatuses  == {"new", "working"}
FinalStatuses == {"filled", "cancelled"}

\* A row of the orders table.
RowType ==
    [account         : Accounts,
     form            : FormType,
     status          : OpenStatuses \cup FinalStatuses,
     reserved_amount : Nat,
     lock_version    : Nat,
     client_order_id : Keys \cup {NoKey}]

ASSUME DataAssumption ==
    /\ OrderIds \subseteq Nat
    /\ Forms \subseteq FormType
    /\ NoPrice \notin Nat
    /\ NoKey \notin Keys
    /\ DefaultPrice \in Nat /\ MinPrice \in Nat /\ MaxPrice \in Nat

\* calculate_order_cost: a missing price counts as DefaultPrice.
Cost(form) ==
    form.quantity * (IF form.price = NoPrice THEN DefaultPrice ELSE form.price)

\* What an order of this form holds back: reserved_amount of the row.
Reservation(form) == IF form.direction = "buy" THEN Cost(form) ELSE 0

\* validate_pre_trade; funds is available_balance as the portfolio was read.
PreTradeValid(form, funds) ==
    /\ form.direction = "buy" => funds >= Cost(form)
    /\ form.order_type = "limit" /\ form.price # NoPrice =>
          form.price >= MinPrice /\ form.price <= MaxPrice
    /\ form.quantity > 0

\* The validations of the ActiveRecord model, run by save! and update!.
ModelValid(form) ==
    /\ form.quantity > 0
    /\ form.price # NoPrice => form.price > 0
    /\ form.time_in_force \in ValidTifs

\* The row written for a new order.
NewRow(account, form, key) ==
    [account         |-> account,
     form            |-> form,
     status          |-> "new",
     reserved_amount |-> Reservation(form),
     lock_version    |-> 0,
     client_order_id |-> key]

\* Mutant of Opposes: the search does not ask for status "new".
OpposesAnyStatus(form, row) ==
    /\ row.form.symbol = form.symbol
    /\ row.form.direction # form.direction
    /\ row.form.quantity = form.quantity
    /\ form.order_type = "limit" /\ form.price # NoPrice /\ row.form.price # NoPrice =>
          IF form.direction = "buy" THEN row.form.price <= form.price
                                    ELSE row.form.price >= form.price

\* Mutant of Opposes: the price of a limit order is not looked at.
OpposesAnyPrice(form, row) ==
    /\ row.status = "new"
    /\ row.form.symbol = form.symbol
    /\ row.form.direction # form.direction
    /\ row.form.quantity = form.quantity

\* The scope the engine searches for an opposing order: a row that is still
\* "new", of the other side, same symbol and quantity, whose price crosses the
\* price of a limit order. Only the searching order's limit is looked at.
Opposes(form, row) ==
    /\ row.status = "new"
    /\ row.form.symbol = form.symbol
    /\ row.form.direction # form.direction
    /\ row.form.quantity = form.quantity
    /\ form.order_type = "limit" /\ form.price # NoPrice /\ row.form.price # NoPrice =>
          IF form.direction = "buy" THEN row.form.price <= form.price
                                    ELSE row.form.price >= form.price

\* The price of a trade: the counter order's, else the searching order's, else
\* the default.
TradePrice(form, counterForm) ==
    IF counterForm.price # NoPrice THEN counterForm.price
    ELSE IF form.price # NoPrice THEN form.price
    ELSE DefaultPrice
=============================================================================
