------------------------------- MODULE Trading -------------------------------
(***************************************************************************)
(* The order path of BrokerX: request threads (OrdersApi) and matching     *)
(* engines (MatchingEngine) on the same tables, and what should be true of *)
(* it.                                                                     *)
(***************************************************************************)
EXTENDS OrdersApi, MatchingEngine, Integers, FiniteSetsExt

vars == <<tables, req, eng>>

Init == TablesInit /\ ApiInit /\ EngineInit

Next ==
    \/ \E r \in Requests : ApiStep(r) /\ UNCHANGED eng
    \/ \E e \in Engines : EngineStep(e) /\ UNCHANGED req

Spec == Init /\ [][Next]_vars

TypeOK == TablesTypeOK /\ ApiTypeOK /\ EngineTypeOK

-----------------------------------------------------------------------------
(* Funds *)

\* No step creates or destroys money: what an account started with is
\* available, reserved, or was spent on a trade. Reservations, releases, their
\* conflicts and the engine's charges of all threads together keep the sum.
FundsConserved ==
    \A a \in Accounts : available[a] + reserved[a] + spent[a] = InitialFunds[a]

\* An account is never charged more than the trades it bought in, however the
\* engine's rescued errors and the engines' races fall out.
ChargedForTradesOnly == \A a \in Accounts : spent[a] <= bought[a]

OpenOrders(a) ==
    {o \in DOMAIN orders : orders[o].account = a /\ orders[o].status \in OpenStatuses}

\* The sum of f over S.
Total(f, S) == MapThenSumSet(LAMBDA x : f[x], S)

OpenReserved(a) ==
    Total([o \in DOMAIN orders |-> orders[o].reserved_amount], OpenOrders(a))

\* How far the reserve of an account is from what its open orders reserved.
Gap(a) == reserved[a] - OpenReserved(a)

\* The trade charges the buyer exactly what the buyer's open order reserved.
ChargesReservation(w) ==
    LET b == IF w.seen.form.direction = "buy" THEN w.order ELSE w.counter
    IN  /\ orders[b].status \in OpenStatuses
        /\ Amount(w) = orders[b].reserved_amount
        /\ CanRelease(Buyer(w), Amount(w))

\* The steps that may move the reserve away from the orders, or back.
LeakingStep ==
    \/ \E r \in Requests : \/ ConflictCancel(r)
                           \/ FailReplace(r)
                           \/ DestroyRelease(r)
                           \/ DestroyUpdate(r)
    \/ \E e \in Engines : \/ RestOrder(e) /\ orders[eng[e].order].status \in FinalStatuses
                          \/ ExecuteTrade(e) /\ ~ ChargesReservation(eng[e])

\* Every other step of every thread moves an account's reserve and the amounts
\* its open orders reserved together: placing, cancelling, replacing, resting
\* and an exactly charged trade leave the gap as it is.
ReserveFollowsOrders ==
    [][(\A a \in Accounts : Gap(a)' = Gap(a)) \/ LeakingStep]_vars

-----------------------------------------------------------------------------
(* Orders *)

\* The rows the threads hold are rows the table had, and lock_version tells
\* whether it has them still: equal versions, equal rows. This is what makes
\* UPDATE ... WHERE lock_version sound for cancel and replace, among request
\* threads that bump the version and engines that never look at it.
Holds(o, seen) ==
    /\ Exists(o)
    /\ seen.lock_version <= orders[o].lock_version
    /\ Current(o, seen) => orders[o] = seen

OptimisticLock ==
    /\ \A r \in Requests : req[r].pc \notin {"idle", "place"} =>
          Holds(req[r].order, req[r].seen)
    /\ \A e \in Engines : eng[e].pc # "wait" => Holds(eng[e].order, eng[e].seen)
    /\ \A e \in Engines : eng[e].pc = "trade" => Holds(eng[e].counter, eng[e].counterSeen)

\* Two orders of one account never share a client_order_id, however many times
\* and by however many threads at once a request is sent again.
OneOrderPerKey ==
    \A o, p \in DOMAIN orders :
       /\ orders[o].account = orders[p].account
       /\ orders[o].client_order_id = orders[p].client_order_id
       /\ orders[o].client_order_id # NoKey
       => o = p

\* An order is executed at most once.
SingleExecution == \A o \in OrderIds : executions[o] <= 1

\* "filled" is written together with the trade: a filled order has an
\* execution, and an executed order can no longer be met by another one.
FilledIffExecuted ==
    \A o \in DOMAIN orders : orders[o].status = "filled" <=> executions[o] > 0

\* The strengthening behind the two: with one engine, what the engine holds has
\* not been executed, and neither has an order that is still "new".
ExecutionInv ==
    /\ \A o \in OrderIds : executions[o] > 0 => Exists(o) /\ orders[o].status # "new"
    /\ \A e \in Engines : eng[e].pc # "wait" => executions[eng[e].order] = 0
    /\ \A e \in Engines : eng[e].pc = "trade" =>
          executions[eng[e].counter] = 0 /\ eng[e].counter # eng[e].order

\* And without DELETE: a cancel under way loaded an open row.
ClosingInv ==
    \A r \in Requests : /\ req[r].pc \notin {"release", "close"}
                        /\ req[r].pc = "cancel" => req[r].seen.status \in OpenStatuses

\* A filled order stays filled: no cancel, replace or engine step that read the
\* order earlier takes it out of its final state.
FilledIsFinal ==
    [][\A o \in DOMAIN orders :
          orders[o].status = "filled" => orders'[o].status = "filled"]_vars

\* A cancelled order stays cancelled.
CancelledIsFinal ==
    [][\A o \in DOMAIN orders :
          orders[o].status = "cancelled" => orders'[o].status = "cancelled"]_vars

\* A limit order that has a price buys for no more and sells for no less.
WithinLimit(form, price) ==
    form.order_type = "limit" /\ form.price # NoPrice =>
       IF form.direction = "buy" THEN price <= form.price ELSE price >= form.price

LimitsKept(w) ==
    LET mine == orders[w.order].form
        its  == orders[w.counter].form
    IN  /\ mine = w.seen.form => WithinLimit(mine, Price(w))
        /\ its = w.counterSeen.form => WithinLimit(its, Price(w))

\* The price of a trade is within the limit of both orders, unless a replace
\* changed the order since the engine loaded it. The engine compares only the
\* searching order's limit and then trades at the counter order's price, with
\* both rows as loaded some steps before.
TradesWithinLimits ==
    [][\A e \in Engines : ExecuteTrade(e) => LimitsKept(eng[e])]_vars

-----------------------------------------------------------------------------
(* What the API promises the pages of its clients *)

Service == INSTANCE OrderService

\* Whatever request threads and engines do to each other, orders are added one
\* at a time under keys of their own, never removed, and every change of an
\* order shows in its lock_version: what OrdersPage takes the server for.
ImplementsOrderService == Service!ServiceSpec

=============================================================================
