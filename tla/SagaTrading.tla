---------------------------- MODULE SagaTrading ----------------------------
(***************************************************************************)
(* Orders placed by sagas, next to the request threads that cancel and      *)
(* replace them and the engines that match them.                            *)
(***************************************************************************)
EXTENDS Trading, TradingSaga

sagaVars == <<vars, saga>>

SagaTradingInit == Init /\ SagaInit

SagaTradingNext ==
    \/ Next /\ UNCHANGED saga
    \/ \E s \in Sagas : SagaStep(s) /\ UNCHANGED <<req, eng>>

SagaSpec == SagaTradingInit /\ [][SagaTradingNext]_sagaVars

SagaTypeOK == TypeOK /\ SagaRecordsOK

-----------------------------------------------------------------------------
\* Funds a saga has reserved for an order that is not created yet, or that it
\* has cancelled already.
InHand(s) ==
    IF saga[s].pc \in {"create", "release"} THEN Reservation(saga[s].form) ELSE 0

SagasOf(a) == {s \in Sagas : saga[s].pc # "idle" /\ saga[s].account = a}

HeldBySagas(a) == Total([s \in Sagas |-> InHand(s)], SagasOf(a))

\* How far the reserve of an account is from what its open orders and its
\* sagas reserved.
SagaGap(a) == Gap(a) - HeldBySagas(a)

\* The order a saga made is open with the reserve it made it with.
OrderAsMade(s) ==
    LET row == orders[saga[s].order]
    IN  row.status \in OpenStatuses /\ row.reserved_amount = Reservation(saga[s].form)

\* What a saga cannot undo: it ends with funds in hand, a compensation fails or
\* finds too small a reserve, or the order it compensates is not the one it made
\* any more because an engine filled it or a client cancelled or replaced it.
SagaLeaks(s) ==
    \/ SagaEnds(s) /\ InHand(s) > 0
    \/ CompensationFails(s)
    \/ CompensateCreateOrder(s) /\ ~ OrderAsMade(s)

\* Apart from these and from the leaks of the order path itself, every step of
\* every thread, forward or compensating, moves the reserve together with the
\* orders and the sagas it is for: a saga that fails and compensates leaves
\* nothing reserved behind.
SagasUndoTheirReserve ==
    [][\/ \A a \in Accounts : SagaGap(a)' = SagaGap(a)
       \/ LeakingStep
       \/ \E s \in Sagas : SagaLeaks(s)]_sagaVars
=============================================================================
