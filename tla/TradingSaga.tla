---------------------------- MODULE TradingSaga ----------------------------
(***************************************************************************)
(* TradingSaga: the placing of an order as a sequence of transactions, each *)
(* with a compensation. A step that fails is an exception or an error       *)
(* result; the compensations of the steps before it then run in reverse,    *)
(* and one that fails is logged and passed over. A saga lives in the memory *)
(* of its thread: when its process ends, nobody takes it up again.          *)
(*                                                                          *)
(* The events saga.* it emits are read by nobody and left out. What it      *)
(* submits to the engine may be handed to an engine at any time.            *)
(***************************************************************************)
EXTENDS Tables

CONSTANT Sagas   \* threads that run a saga

VARIABLE saga    \* where each saga is

NoSaga == [pc |-> "idle"]

\* About to reserve the funds, to create the order, or to release the funds.
Unordered == [pc : {"reserve", "create", "release"}, account : Accounts, form : FormType]

\* About to submit the order, or to cancel it.
Ordered == [pc : {"submit", "cancel"}, account : Accounts, form : FormType, order : OrderIds]

SagaRecordsOK == saga \in [Sagas -> {NoSaga} \cup Unordered \cup Ordered]

SagaInit == saga = [s \in Sagas |-> NoSaga]

MoveOn(s, state) == saga' = [saga EXCEPT ![s] = state]

-----------------------------------------------------------------------------
(* The steps *)

ValidateOrder(s, account, form) ==
    /\ saga[s] = NoSaga
    /\ PreTradeValid(form, available[account])
    /\ MoveOn(s, [pc |-> "reserve", account |-> account, form |-> form])
    /\ UNCHANGED tables

ReserveFunds(s) ==
    LET g == saga[s] IN
    /\ g.pc = "reserve"
    /\ IF g.form.direction = "buy"
       THEN reserve_funds(g.account, Cost(g.form))
       ELSE UNCHANGED funds
    /\ MoveOn(s, [g EXCEPT !.pc = "create"])
    /\ UNCHANGED <<orders, executions, bought>>

CreateOrder(s, o) ==
    LET g == saga[s] IN
    /\ g.pc = "create"
    /\ ModelValid(g.form)
    /\ InsertRow(o, NewRow(g.account, g.form, NoKey))
    /\ MoveOn(s, [pc |-> "submit", account |-> g.account, form |-> g.form, order |-> o])
    /\ UNCHANGED <<funds, executions, bought>>

\* The outbox event, and the order into the queue: the saga is completed.
SubmitToMatching(s) ==
    /\ saga[s].pc = "submit"
    /\ MoveOn(s, NoSaga)
    /\ UNCHANGED tables

-----------------------------------------------------------------------------
(* The compensations *)

\* Mutant of UndoFunds: the compensation of the first step is forgotten.
UndoNothing(g) == NoSaga

\* Only a buy has registered funds to release.
UndoFunds(g) ==
    IF g.form.direction = "buy"
    THEN [pc |-> "release", account |-> g.account, form |-> g.form]
    ELSE NoSaga

\* A step fails without effect; the compensations registered so far begin.
StepFails(s) ==
    LET g == saga[s] IN
    /\ \/ g.pc = "reserve" /\ MoveOn(s, NoSaga)
       \/ g.pc = "create"  /\ MoveOn(s, UndoFunds(g))
       \/ g.pc = "submit"  /\ MoveOn(s, [g EXCEPT !.pc = "cancel"])
    /\ UNCHANGED tables

\* update_status(order, 'cancelled'), whatever became of the order meanwhile.
CompensateCreateOrder(s) ==
    LET g == saga[s] IN
    /\ g.pc = "cancel"
    /\ orders' = [orders EXCEPT ![g.order] = WithStatus(@, "cancelled")]
    /\ MoveOn(s, UndoFunds(g))
    /\ UNCHANGED <<funds, executions, bought>>

CompensateReserveFunds(s) ==
    LET g == saga[s] IN
    /\ g.pc = "release"
    /\ release_funds(g.account, Cost(g.form))
    /\ MoveOn(s, NoSaga)
    /\ UNCHANGED <<orders, executions, bought>>

\* A compensation fails, is logged, and the next one has its turn.
CompensationFails(s) ==
    LET g == saga[s] IN
    /\ \/ g.pc = "cancel"  /\ MoveOn(s, UndoFunds(g))
       \/ g.pc = "release" /\ MoveOn(s, NoSaga)
    /\ UNCHANGED tables

-----------------------------------------------------------------------------
\* The process ends.
SagaEnds(s) ==
    /\ saga[s] # NoSaga
    /\ MoveOn(s, NoSaga)
    /\ UNCHANGED tables

SagaStep(s) ==
    \/ \E account \in Accounts, form \in Forms : ValidateOrder(s, account, form)
    \/ ReserveFunds(s)
    \/ \E o \in OrderIds : CreateOrder(s, o)
    \/ SubmitToMatching(s)
    \/ StepFails(s)
    \/ CompensateCreateOrder(s)
    \/ CompensateReserveFunds(s)
    \/ CompensationFails(s)
    \/ SagaEnds(s)
=============================================================================
