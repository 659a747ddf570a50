------------------------------ MODULE OrdersApi ------------------------------
(***************************************************************************)
(* OrdersController: the handlers of POST /orders, POST /orders/:id/cancel, *)
(* DELETE /orders/:id and POST /orders/:id/replace, run by concurrent       *)
(* request threads of one or of several processes. A handler is a record    *)
(* with a program counter and what the thread has read so far; every read   *)
(* that precedes the handler's transaction is a step of its own.            *)
(*                                                                          *)
(* A Ruby return out of a transaction block commits what the block has done *)
(* (Rails 7.1 defaults), an exception rolls it back. So a handler that      *)
(* answers an error by return keeps the statements before it.               *)
(***************************************************************************)
EXTENDS Tables

CONSTANTS
    Requests,    \* request threads
    Endpoints,   \* the operations clients use in this instance
    MaxVersion   \* bound: rows of this version are replaced no more

ASSUME ApiAssumption ==
    /\ Endpoints \subseteq {"create", "cancel", "destroy", "replace"}
    /\ MaxVersion \in Nat

VARIABLE req   \* what each request thread is doing

apiVars == <<tables, req>>

Idle == [pc |-> "idle"]

\* A validated order on its way into the database.
Placing == [pc : {"place"}, account : Accounts, form : FormType, key : Keys \cup {NoKey}]

\* A cancel before its transaction, a destroy before the release of the funds
\* and before the update of the status; seen is the row the handler loaded.
Closing == [pc : {"cancel", "release", "close"}, order : OrderIds, seen : RowType]

\* A replace before the new validation and before its transaction; form is the
\* order as it would become.
Replacing == [pc : {"validate", "replace"}, order : OrderIds, seen : RowType, form : FormType]

ApiTypeOK == req \in [Requests -> {Idle} \cup Placing \cup Closing \cup Replacing]

ApiInit == req = [r \in Requests |-> Idle]

Become(r, state) == req' = [req EXCEPT ![r] = state]
Answer(r) == Become(r, Idle)

-----------------------------------------------------------------------------
(* POST /orders *)

\* Validation against the portfolio as it is now.
SubmitOrder(r, account, form, key) ==
    /\ "create" \in Endpoints
    /\ req[r] = Idle
    /\ PreTradeValid(form, available[account])
    /\ Become(r, [pc |-> "place", account |-> account, form |-> form, key |-> key])
    /\ UNCHANGED tables

\* Mutant of KeyTaken: the replay is looked for among open orders only.
KeyTakenByOpen(account, key) ==
    /\ key # NoKey
    /\ \E o \in DOMAIN orders :
          /\ orders[o].account = account /\ orders[o].client_order_id = key
          /\ orders[o].status \in OpenStatuses

\* find_by or the unique index: some row of the account has the key already.
KeyTaken(account, key) ==
    /\ key # NoKey
    /\ \E o \in DOMAIN orders :
          orders[o].account = account /\ orders[o].client_order_id = key

\* The transaction: reserve the funds of a buy and insert the row.
InsertOrder(r, o) ==
    LET p == req[r] IN
    /\ p.pc = "place"
    /\ ~ KeyTaken(p.account, p.key)
    /\ ModelValid(p.form)
    /\ IF p.form.direction = "buy"
       THEN reserve_funds(p.account, Cost(p.form))
       ELSE UNCHANGED funds
    /\ InsertRow(o, NewRow(p.account, p.form, p.key))
    /\ Answer(r)
    /\ UNCHANGED <<executions, bought>>

\* A replay of the key, a model validation that raises, or funds that went away
\* since the validation: nothing is written.
RefuseInsert(r) ==
    LET p == req[r] IN
    /\ p.pc = "place"
    /\ \/ KeyTaken(p.account, p.key)
       \/ ~ ModelValid(p.form)
       \/ p.form.direction = "buy" /\ ~ CanReserve(p.account, Cost(p.form))
    /\ Answer(r)
    /\ UNCHANGED tables

-----------------------------------------------------------------------------
(* POST /orders/:id/cancel *)

\* Load the row; the client_version sent is the version found, else 409.
ReadForCancel(r, o) ==
    /\ "cancel" \in Endpoints
    /\ req[r] = Idle
    /\ Exists(o) /\ orders[o].status \in OpenStatuses
    /\ Become(r, [pc |-> "cancel", order |-> o, seen |-> orders[o]])
    /\ UNCHANGED tables

\* release_funds of what the loaded row had reserved, when that is not nothing.
ReleaseSeen(p) ==
    IF p.seen.reserved_amount > 0
    THEN release_funds(p.seen.account, p.seen.reserved_amount)
    ELSE UNCHANGED funds

\* The transaction when the row is still the one loaded.
CommitCancel(r) ==
    LET p == req[r] IN
    /\ p.pc = "cancel"
    /\ Current(p.order, p.seen)
    /\ ReleaseSeen(p)
    /\ WriteRow(p.order, [orders[p.order] EXCEPT !.status = "cancelled"])
    /\ Answer(r)
    /\ UNCHANGED <<executions, bought>>

\* The transaction when it is not: StaleObjectError is answered by return, and
\* the release before it is committed.
ConflictCancel(r) ==
    LET p == req[r] IN
    /\ p.pc = "cancel"
    /\ ~ Current(p.order, p.seen)
    /\ ReleaseSeen(p)
    /\ Answer(r)
    /\ UNCHANGED <<orders, executions, bought>>

-----------------------------------------------------------------------------
(* DELETE /orders/:id: two transactions, and no version *)

ReadForDestroy(r, o) ==
    /\ "destroy" \in Endpoints
    /\ req[r] = Idle
    /\ Exists(o) /\ orders[o].status \in OpenStatuses
    /\ Become(r, [pc |-> "release", order |-> o, seen |-> orders[o]])
    /\ UNCHANGED tables

DestroyRelease(r) ==
    LET p == req[r] IN
    /\ p.pc = "release"
    /\ ReleaseSeen(p)
    /\ Become(r, [p EXCEPT !.pc = "close"])
    /\ UNCHANGED <<orders, executions, bought>>

DestroyUpdate(r) ==
    LET p == req[r] IN
    /\ p.pc = "close"
    /\ orders' = [orders EXCEPT ![p.order] = WithStatus(@, "cancelled")]
    /\ Answer(r)
    /\ UNCHANGED <<funds, executions, bought>>

\* cancel and destroy answer an error, and commit nothing, when the portfolio
\* has less reserved than the order.
RefuseRelease(r) ==
    LET p == req[r] IN
    /\ p.pc \in {"cancel", "release"}
    /\ ~ CanRelease(p.seen.account, p.seen.reserved_amount)
    /\ Answer(r)
    /\ UNCHANGED tables

-----------------------------------------------------------------------------
(* POST /orders/:id/replace *)

\* Load the row and compute the new attributes: quantity, price and time in
\* force come from the request, the rest from the row.
ReadForReplace(r, o, form) ==
    /\ "replace" \in Endpoints
    /\ req[r] = Idle
    /\ Exists(o) /\ orders[o].status \in OpenStatuses
    /\ orders[o].lock_version < MaxVersion
    /\ form.symbol = orders[o].form.symbol
    /\ form.direction = orders[o].form.direction
    /\ form.order_type = orders[o].form.order_type
    /\ Become(r, [pc |-> "validate", order |-> o, seen |-> orders[o], form |-> form])
    /\ UNCHANGED tables

\* The new order is validated as if it were placed now: its whole cost must be
\* available on top of what the order has reserved.
ValidateReplace(r) ==
    LET p == req[r] IN
    /\ p.pc = "validate"
    /\ IF PreTradeValid(p.form, available[p.seen.account])
       THEN Become(r, [p EXCEPT !.pc = "replace"])
       ELSE Answer(r)
    /\ UNCHANGED tables

\* Mutant of AdjustFunds: the new cost is reserved and the old one not released.
ReserveNewCost(p) ==
    LET old == p.seen.reserved_amount
        new == Reservation(p.form)
    IN  IF new > old THEN reserve_funds(p.seen.account, new)
        ELSE IF new < old THEN release_funds(p.seen.account, old - new)
        ELSE UNCHANGED funds

\* Reserve or release the difference to the amount the loaded row had reserved.
AdjustFunds(p) ==
    LET old == p.seen.reserved_amount
        new == Reservation(p.form)
    IN  IF new > old THEN reserve_funds(p.seen.account, new - old)
        ELSE IF new < old THEN release_funds(p.seen.account, old - new)
        ELSE UNCHANGED funds

WithForm(row, form) ==
    [row EXCEPT !.form = form, !.reserved_amount = Reservation(form)]

\* Nothing to save when no attribute changes: no UPDATE, no version check.
Unchanged(p) == WithForm(p.seen, p.form) = p.seen

CommitReplace(r) ==
    LET p == req[r] IN
    /\ p.pc = "replace"
    /\ ModelValid(p.form)
    /\ Unchanged(p) \/ Current(p.order, p.seen)
    /\ AdjustFunds(p)
    /\ IF Unchanged(p)
       THEN UNCHANGED orders
       ELSE WriteRow(p.order, WithForm(orders[p.order], p.form))
    /\ Answer(r)
    /\ UNCHANGED <<executions, bought>>

\* RecordInvalid or StaleObjectError is answered by return: the adjustment of
\* the funds is committed without the row.
FailReplace(r) ==
    LET p == req[r] IN
    /\ p.pc = "replace"
    /\ \/ ~ ModelValid(p.form)
       \/ ~ Unchanged(p) /\ ~ Current(p.order, p.seen)
    /\ AdjustFunds(p)
    /\ Answer(r)
    /\ UNCHANGED <<orders, executions, bought>>

\* The difference cannot be reserved, or cannot be released: nothing is written.
RefuseReplace(r) ==
    LET p   == req[r]
        old == p.seen.reserved_amount
        new == Reservation(p.form)
    IN
    /\ p.pc = "replace"
    /\ \/ new > old /\ ~ CanReserve(p.seen.account, new - old)
       \/ new < old /\ ~ CanRelease(p.seen.account, old - new)
    /\ Answer(r)
    /\ UNCHANGED tables

-----------------------------------------------------------------------------
\* An exception nobody rescues, a deadlock PostgreSQL breaks, or the end of the
\* process: the transaction in flight, if any, is rolled back.
Abort(r) ==
    /\ req[r] # Idle
    /\ Answer(r)
    /\ UNCHANGED tables

\* Every step but the insertion of an order.
OtherStep(r) ==
    \/ \E account \in Accounts, form \in Forms, key \in Keys \cup {NoKey} :
          SubmitOrder(r, account, form, key)
    \/ RefuseInsert(r)
    \/ \E o \in OrderIds : ReadForCancel(r, o)
    \/ CommitCancel(r)
    \/ ConflictCancel(r)
    \/ \E o \in OrderIds : ReadForDestroy(r, o)
    \/ DestroyRelease(r)
    \/ DestroyUpdate(r)
    \/ RefuseRelease(r)
    \/ \E o \in OrderIds, form \in Forms : ReadForReplace(r, o, form)
    \/ ValidateReplace(r)
    \/ CommitReplace(r)
    \/ FailReplace(r)
    \/ RefuseReplace(r)
    \/ Abort(r)

ApiStep(r) == (\E o \in OrderIds : InsertOrder(r, o)) \/ OtherStep(r)
=============================================================================
