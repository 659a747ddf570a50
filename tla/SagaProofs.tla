----------------------------- MODULE SagaProofs -----------------------------
(***************************************************************************)
(* Proofs about SagaTrading, for any number of sagas next to any number of *)
(* request threads and engines.                                            *)
(***************************************************************************)
EXTENDS SagaTrading, TradingProofs

\* What a saga holds, by its program counter.
LEMMA SagaKinds ==
    ASSUME SagaRecordsOK, NEW s \in Sagas
    PROVE  /\ saga[s] = NoSaga <=> saga[s].pc = "idle"
           /\ saga[s].pc \in {"reserve", "create", "release"} => saga[s] \in Unordered
           /\ saga[s].pc \in {"submit", "cancel"} => saga[s] \in Ordered
BY DEF SagaRecordsOK, NoSaga, Unordered, Ordered

\* Undoing the first step of a saga leaves a saga's record.
LEMMA UndoFundsTyped ==
    ASSUME NEW g \in Unordered \cup Ordered
    PROVE  UndoFunds(g) \in {NoSaga} \cup Unordered
BY DEF UndoFunds, Unordered, Ordered

-----------------------------------------------------------------------------
(* Type correctness *)

\* What a saga step writes into the tables is of their types.
LEMMA SagaTablesTyped ==
    ASSUME SagaTypeOK, NEW s \in Sagas, SagaStep(s)
    PROVE  TablesTypeOK'
<1>1. TablesTypeOK /\ SagaRecordsOK
  BY DEF SagaTypeOK, TypeOK
<1>2. CASE ReserveFunds(s)
  <2>1. saga[s].account \in Accounts /\ Cost(saga[s].form) \in Nat
    BY <1>1, <1>2, SagaKinds, CostNat DEF ReserveFunds, Unordered
  <2>2. \/ reserve_funds(saga[s].account, Cost(saga[s].form))
        \/ UNCHANGED funds
    BY <1>2 DEF ReserveFunds
  <2>3. /\ available' \in [Accounts -> Nat]
        /\ reserved' \in [Accounts -> Nat]
        /\ spent' \in [Accounts -> Nat]
    BY <1>1, <2>1, <2>2, FundsTyped
  <2> QED
    BY <1>1, <1>2, <2>3 DEF ReserveFunds, TablesTypeOK
<1>3. CASE CompensateReserveFunds(s)
  <2>1. saga[s].account \in Accounts /\ Cost(saga[s].form) \in Nat
    BY <1>1, <1>3, SagaKinds, CostNat DEF CompensateReserveFunds, Unordered
  <2>2. /\ available' \in [Accounts -> Nat]
        /\ reserved' \in [Accounts -> Nat]
        /\ spent' \in [Accounts -> Nat]
    BY <1>1, <1>3, <2>1, FundsTyped DEF CompensateReserveFunds
  <2> QED
    BY <1>1, <1>3, <2>2 DEF CompensateReserveFunds, TablesTypeOK
<1>4. ASSUME NEW o \in OrderIds, CreateOrder(s, o)
      PROVE  TablesTypeOK'
  <2>1. NewRow(saga[s].account, saga[s].form, NoKey) \in RowType
    BY <1>1, <1>4, SagaKinds, RowsOfRows DEF CreateOrder, Unordered
  <2>2. DOMAIN orders' \subseteq OrderIds /\ orders' \in [DOMAIN orders' -> RowType]
    BY <1>1, <1>4, <2>1, OrdersTyped DEF CreateOrder
  <2> QED
    BY <1>1, <1>4, <2>2 DEF CreateOrder, funds, TablesTypeOK
<1>5. CASE CompensateCreateOrder(s)
  <2> DEFINE o == saga[s].order
  <2>1. o \in OrderIds
    BY <1>1, <1>5, SagaKinds DEF CompensateCreateOrder, Ordered
  <2>2. DOMAIN orders' \subseteq OrderIds /\ orders' \in [DOMAIN orders' -> RowType]
    <3>1. orders' = [orders EXCEPT ![o] = WithStatus(orders[o], "cancelled")]
      BY <1>5 DEF CompensateCreateOrder
    <3>2. CASE o \in DOMAIN orders
      <4>1. WithStatus(orders[o], "cancelled") \in RowType
        BY <1>1, <3>2, RowsOfRows DEF TablesTypeOK, FinalStatuses
      <4> QED
        BY <1>1, <2>1, <3>1, <4>1, OrdersTyped
    <3>3. CASE o \notin DOMAIN orders
      BY <1>1, <3>1, <3>3 DEF TablesTypeOK
    <3> QED
      BY <3>2, <3>3
  <2> QED
    BY <1>1, <1>5, <2>2 DEF CompensateCreateOrder, funds, TablesTypeOK
<1>6. CASE UNCHANGED tables
  BY <1>1, <1>6 DEF tables, TablesTypeOK
<1> QED
  BY <1>2, <1>3, <1>4, <1>5, <1>6
     DEF SagaStep, ValidateOrder, SubmitToMatching, StepFails, CompensationFails, SagaEnds

\* And it leaves the saga with a saga's record.
LEMMA SagaMoves ==
    ASSUME SagaTypeOK, NEW s \in Sagas, SagaStep(s)
    PROVE  \E state \in {NoSaga} \cup Unordered \cup Ordered : MoveOn(s, state)
<1> DEFINE Goal == \E state \in {NoSaga} \cup Unordered \cup Ordered : MoveOn(s, state)
<1>1. SagaRecordsOK
  BY DEF SagaTypeOK
<1>2. ASSUME NEW account \in Accounts, NEW form \in Forms, ValidateOrder(s, account, form)
      PROVE  Goal
  <2>1. [pc |-> "reserve", account |-> account, form |-> form] \in Unordered
    BY DataAssumption DEF Unordered
  <2> QED
    BY <1>2, <2>1 DEF ValidateOrder
<1>3. CASE ReserveFunds(s)
  <2>1. saga[s] \in Unordered
    BY <1>1, <1>3, SagaKinds DEF ReserveFunds
  <2>2. [saga[s] EXCEPT !.pc = "create"] \in Unordered
    BY <2>1 DEF Unordered
  <2> QED
    BY <1>3, <2>2 DEF ReserveFunds
<1>4. ASSUME NEW o \in OrderIds, CreateOrder(s, o)
      PROVE  Goal
  <2> DEFINE state == [pc |-> "submit", account |-> saga[s].account, form |-> saga[s].form,
                       order |-> o]
  <2>1. saga[s] \in Unordered
    BY <1>1, <1>4, SagaKinds DEF CreateOrder
  <2>2. state \in Ordered
    BY <2>1 DEF Unordered, Ordered
  <2>3. MoveOn(s, state)
    BY <1>4 DEF CreateOrder
  <2> QED
    BY <2>2, <2>3
<1>5. CASE StepFails(s)
  <2>1. CASE saga[s].pc = "create"
    BY <1>1, <1>5, <2>1, SagaKinds, UndoFundsTyped DEF StepFails
  <2>2. CASE saga[s].pc = "submit"
    <3>1. [saga[s] EXCEPT !.pc = "cancel"] \in Ordered
      BY <1>1, <2>2, SagaKinds DEF Ordered
    <3> QED
      BY <1>5, <2>2, <3>1 DEF StepFails
  <2> QED
    BY <1>5, <2>1, <2>2 DEF StepFails
<1>6. CASE CompensateCreateOrder(s) \/ CompensationFails(s)
  <2>1. CASE saga[s].pc = "cancel"
    BY <1>1, <1>6, <2>1, SagaKinds, UndoFundsTyped DEF CompensateCreateOrder, CompensationFails
  <2> QED
    BY <1>6, <2>1 DEF CompensateCreateOrder, CompensationFails
<1>7. CASE SubmitToMatching(s) \/ CompensateReserveFunds(s) \/ SagaEnds(s)
  BY <1>7 DEF SubmitToMatching, CompensateReserveFunds, SagaEnds
<1> QED
  BY <1>2, <1>3, <1>4, <1>5, <1>6, <1>7 DEF SagaStep

\* Sagas, their compensations and their failures keep every balance a natural
\* number and every row a row, next to everything else that writes them.
THEOREM SagaTypes == SagaSpec => []SagaTypeOK
<1>1. SagaTradingInit => SagaTypeOK
  BY InitTyped DEF SagaTradingInit, SagaInit, SagaTypeOK, SagaRecordsOK
<1>2. SagaTypeOK /\ [SagaTradingNext]_sagaVars => SagaTypeOK'
  <2> SUFFICES ASSUME SagaTypeOK, [SagaTradingNext]_sagaVars PROVE SagaTypeOK'
    OBVIOUS
  <2>1. CASE [Next]_vars /\ UNCHANGED saga
    BY <2>1, StepsTyped DEF SagaTypeOK, SagaRecordsOK
  <2>2. ASSUME NEW s \in Sagas, SagaStep(s), UNCHANGED <<req, eng>>
        PROVE  SagaTypeOK'
    <3>1. TypeOK'
      BY <2>2, SagaTablesTyped DEF SagaTypeOK, TypeOK, ApiTypeOK, EngineTypeOK
    <3>2. SagaRecordsOK'
      BY <2>2, SagaMoves DEF SagaTypeOK, SagaRecordsOK, MoveOn
    <3> QED
      BY <3>1, <3>2 DEF SagaTypeOK
  <2> QED
    BY <2>1, <2>2 DEF SagaTradingNext, sagaVars
<1> QED
  BY <1>1, <1>2, PTL DEF SagaSpec

-----------------------------------------------------------------------------
(* Funds *)

\* A saga that fails halfway, or compensates what a client or an engine has
\* dealt with already, may leave funds reserved or free the reserve of another
\* order, but available, reserved and spent funds still add up.
THEOREM SagasConserveMoney == SagaSpec => []FundsConserved
<1>1. SagaTradingInit => FundsConserved
  <2> SUFFICES ASSUME SagaTradingInit, NEW a \in Accounts
               PROVE  available[a] + reserved[a] + spent[a] = InitialFunds[a]
    BY DEF FundsConserved
  <2>1. available[a] = InitialFunds[a] /\ reserved[a] = 0 /\ spent[a] = 0
    BY DEF SagaTradingInit, Init, TablesInit
  <2>2. InitialFunds[a] \in Nat
    BY FundsAssumption
  <2> QED
    BY <2>1, <2>2
<1>2. SagaTypeOK /\ FundsConserved /\ [SagaTradingNext]_sagaVars => FundsConserved'
  <2> SUFFICES ASSUME SagaTypeOK, FundsConserved, [SagaTradingNext]_sagaVars
               PROVE  FundsConserved'
    OBVIOUS
  <2>1. \/ UNCHANGED funds
        \/ \E a \in Accounts, n \in Nat :
              reserve_funds(a, n) \/ release_funds(a, n) \/ commit_reserved_funds(a, n)
    <3>1. CASE [Next]_vars
      BY <3>1, FundsSteps DEF SagaTypeOK, FundsStep, funds
    <3>2. ASSUME NEW s \in Sagas, SagaStep(s)
          PROVE  \/ UNCHANGED funds
                 \/ \E a \in Accounts, n \in Nat : reserve_funds(a, n) \/ release_funds(a, n)
      <4>1. CASE ReserveFunds(s) \/ CompensateReserveFunds(s)
        <5>1. saga[s] \in Unordered
          BY <4>1, SagaKinds DEF SagaTypeOK, ReserveFunds, CompensateReserveFunds
        <5>2. saga[s].account \in Accounts /\ Cost(saga[s].form) \in Nat
          BY <5>1, CostNat DEF Unordered
        <5> QED
          BY <4>1, <5>2 DEF ReserveFunds, CompensateReserveFunds
      <4>2. CASE ~ (ReserveFunds(s) \/ CompensateReserveFunds(s))
        BY <3>2, <4>2 DEF SagaStep, ValidateOrder, CreateOrder, SubmitToMatching, StepFails,
                          CompensateCreateOrder, CompensationFails, SagaEnds, tables, funds
      <4> QED
        BY <4>1, <4>2
    <3> QED
      BY <3>1, <3>2 DEF SagaTradingNext, sagaVars
  <2> QED
    BY <2>1, FundsAssumption
       DEF FundsConserved, SagaTypeOK, TypeOK, TablesTypeOK, reserve_funds, release_funds,
           commit_reserved_funds, CanReserve, CanRelease, funds
<1> QED
  BY <1>1, <1>2, SagaTypes, PTL DEF SagaSpec

-----------------------------------------------------------------------------
(* What sagas do to the rows *)

\* Finitely many sagas run; the order a saga may still have to cancel is one of
\* its account and on the side it asked for; only a buy has funds to release.
SagaInv ==
    /\ IsFiniteSet({s \in Sagas : saga[s].pc # "idle"})
    /\ \A s \in Sagas :
          /\ saga[s].pc \in {"submit", "cancel"} => SameSide(saga[s].order, saga[s])
          /\ saga[s].pc = "release" => saga[s].form.direction = "buy"

AllInv == OptimisticLock /\ BookInv /\ SagaInv

\* A saga writes rows in two ways.
LEMMA SagaRows ==
    ASSUME SagaTypeOK, SagaInv, NEW s \in Sagas, SagaStep(s)
    PROVE  \/ UNCHANGED orders
           \/ \E o \in OrderIds : CreateOrder(s, o)
           \/ /\ CompensateCreateOrder(s)
              /\ saga[s].order \in DOMAIN orders
              /\ orders[saga[s].order] \in RowType
              /\ orders' = [orders EXCEPT ![saga[s].order] =
                               WithStatus(orders[saga[s].order], "cancelled")]
<1>1. ASSUME CompensateCreateOrder(s)
      PROVE  /\ saga[s].order \in DOMAIN orders
             /\ orders[saga[s].order] \in RowType
             /\ orders' = [orders EXCEPT ![saga[s].order] =
                              WithStatus(orders[saga[s].order], "cancelled")]
  BY <1>1 DEF CompensateCreateOrder, SagaInv, SameSide, Exists, SagaTypeOK, TypeOK, TablesTypeOK
<1> QED
  BY <1>1 DEF SagaStep, ValidateOrder, ReserveFunds, SubmitToMatching, StepFails,
              CompensateReserveFunds, CompensationFails, SagaEnds, tables

\* Both keep the rows what the other threads take them for.
LEMMA SagaKeepsRows ==
    ASSUME SagaTypeOK, AllInv, NEW s \in Sagas, SagaStep(s)
    PROVE  /\ RowsSound' /\ SidesKept
           /\ RowsUpdated \/ \E p, row : InsertRow(p, row)
<1>1. TablesTypeOK /\ RowsSound /\ SagaInv
  BY DEF SagaTypeOK, TypeOK, AllInv, BookInv
<1>2. CASE UNCHANGED orders
  BY <1>1, <1>2 DEF RowsSound, SidesKept, RowsUpdated
<1>3. ASSUME NEW o \in OrderIds, CreateOrder(s, o)
      PROVE  RowsSound' /\ SidesKept /\ \E p, row : InsertRow(p, row)
  BY <1>1, <1>3, InsertKeepsRows DEF CreateOrder
<1>4. ASSUME NEW o \in DOMAIN orders, orders[o] \in RowType,
             orders' = [orders EXCEPT ![o] = WithStatus(orders[o], "cancelled")]
      PROVE  RowsSound' /\ SidesKept /\ RowsUpdated
  <2>1. RowsSound' /\ SidesKept
    BY <1>1, <1>4, StatusKeepsRows DEF FinalStatuses
  <2>2. RowsUpdated
    BY <1>4, StatusUpdates DEF RowsUpdated, FinalStatuses
  <2> QED
    BY <2>1, <2>2
<1> QED
  BY <1>1, <1>2, <1>3, <1>4, SagaRows

\* So request threads and engines hold what they held.
LEMMA SagaKeepsHeld ==
    ASSUME SagaTypeOK, AllInv, NEW s \in Sagas, SagaStep(s), UNCHANGED <<req, eng>>
    PROVE  OptimisticLock' /\ BookInv'
<1>1. /\ TypeOK /\ TablesTypeOK /\ ApiTypeOK /\ EngineTypeOK
      /\ OptimisticLock /\ HeldSides /\ CrossedInv
  BY DEF SagaTypeOK, TypeOK, AllInv, BookInv
<1>2. /\ RowsSound' /\ SidesKept
      /\ \A o, seen : seen \in RowType /\ Holds(o, seen) => Holds(o, seen)'
  BY <1>1, SagaKeepsRows, RowsKeepHolds
<1>3. ASSUME NEW r \in Requests, req[r].pc \notin {"idle", "place"}
      PROVE  Holds(req[r].order, req[r].seen)'
  <2>1. PICK o, seen : o = req[r].order /\ seen = req[r].seen
    OBVIOUS
  <2>2. seen \in RowType
    BY <1>1, <1>3, <2>1, RequestKinds DEF Closing, Replacing
  <2>3. Holds(o, seen)
    BY <1>1, <1>3, <2>1 DEF OptimisticLock
  <2>4. Holds(o, seen)'
    BY <1>2, <2>2, <2>3
  <2> QED
    BY <2>1, <2>4
<1>4. ASSUME NEW e \in Engines, eng[e].pc # "wait"
      PROVE  Holds(eng[e].order, eng[e].seen)'
  <2>1. PICK o, seen : o = eng[e].order /\ seen = eng[e].seen
    OBVIOUS
  <2>2. seen \in RowType
    BY <1>1, <1>4, <2>1, EngineKinds DEF Processing, Executing
  <2>3. Holds(o, seen)
    BY <1>1, <1>4, <2>1 DEF OptimisticLock
  <2>4. Holds(o, seen)'
    BY <1>2, <2>2, <2>3
  <2> QED
    BY <2>1, <2>4
<1>5. ASSUME NEW e \in Engines, eng[e].pc = "trade"
      PROVE  Holds(eng[e].counter, eng[e].counterSeen)'
  <2>1. PICK o, seen : o = eng[e].counter /\ seen = eng[e].counterSeen
    OBVIOUS
  <2>2. seen \in RowType
    BY <1>1, <1>5, <2>1, EngineKinds DEF Executing
  <2>3. Holds(o, seen)
    BY <1>1, <1>5, <2>1 DEF OptimisticLock
  <2>4. Holds(o, seen)'
    BY <1>2, <2>2, <2>3
  <2> QED
    BY <2>1, <2>4
<1>6. OptimisticLock'
  BY <1>3, <1>4, <1>5 DEF OptimisticLock
<1>7. HeldSides'
  BY <1>1, <1>2 DEF HeldSides, SameSide, Exists, SidesKept
<1>8. CrossedInv'
  BY <1>1 DEF CrossedInv, Opposes
<1> QED
  BY <1>2, <1>6, <1>7, <1>8 DEF BookInv

\* A saga step moves its saga only.
LEMMA SagaAlone ==
    ASSUME SagaTypeOK, NEW s \in Sagas, SagaStep(s)
    PROVE  /\ saga' \in [Sagas -> {NoSaga} \cup Unordered \cup Ordered]
           /\ \A t \in Sagas \ {s} : saga'[t] = saga[t]
BY SagaMoves DEF SagaTypeOK, SagaRecordsOK, MoveOn

\* Where the step leaves it.
LEMMA SagaGoes ==
    ASSUME SagaTypeOK, NEW s \in Sagas, SagaStep(s)
    PROVE  \/ saga'[s] = NoSaga
           \/ \E account \in Accounts, form \in Forms : ValidateOrder(s, account, form)
           \/ ReserveFunds(s) /\ saga'[s].pc = "create"
           \/ /\ StepFails(s) \/ CompensateCreateOrder(s) \/ CompensationFails(s)
              /\ saga'[s] = UndoFunds(saga[s])
           \/ /\ StepFails(s) /\ saga[s].pc = "submit"
              /\ saga'[s] = [saga[s] EXCEPT !.pc = "cancel"]
           \/ \E o \in OrderIds :
                 /\ CreateOrder(s, o)
                 /\ saga'[s] = [pc |-> "submit", account |-> saga[s].account,
                                form |-> saga[s].form, order |-> o]
<1>1. ReserveFunds(s) => saga'[s].pc = "create"
  <2>1. ASSUME ReserveFunds(s)
        PROVE  saga[s] \in Unordered /\ saga'[s] = [saga[s] EXCEPT !.pc = "create"]
    BY <2>1, SagaKinds DEF SagaTypeOK, SagaRecordsOK, ReserveFunds, MoveOn
  <2> QED
    BY <2>1 DEF Unordered
<1> QED
  BY <1>1 DEF SagaTypeOK, SagaRecordsOK, SagaStep, CreateOrder, SubmitToMatching,
              StepFails, CompensateCreateOrder, CompensateReserveFunds, CompensationFails,
              SagaEnds, MoveOn

LEMMA SagaInvStep ==
    ASSUME SagaTypeOK, AllInv, NEW s \in Sagas, SagaStep(s)
    PROVE  SagaInv'
<1>1. SagaInv /\ SidesKept
  BY SagaKeepsRows DEF AllInv
<1>2. /\ \A t \in Sagas \ {s} : saga'[t] = saga[t]
      /\ saga'[s] \in {NoSaga} \cup Unordered \cup Ordered
  BY SagaAlone
<1>3. IsFiniteSet({t \in Sagas : saga'[t].pc # "idle"})
  <2> DEFINE Running == {t \in Sagas : saga[t].pc # "idle"}
  <2>1. IsFiniteSet(Running \cup {s})
    BY <1>1, FS_AddElement DEF SagaInv
  <2>2. {t \in Sagas : saga'[t].pc # "idle"} \subseteq Running \cup {s}
    BY <1>2
  <2> QED
    BY <2>1, <2>2, FS_Subset
<1>4. ASSUME NEW t \in Sagas \ {s}
      PROVE  /\ saga'[t].pc \in {"submit", "cancel"} => SameSide(saga[t].order, saga[t])'
             /\ saga'[t].pc = "release" => saga'[t].form.direction = "buy"
  BY <1>1, <1>2 DEF SagaInv, SameSide, SidesKept, Exists
<1> DEFINE Sound == /\ saga'[s].pc \in {"submit", "cancel"} => SameSide(saga[s].order, saga[s])'
                    /\ saga'[s].pc = "release" => saga'[s].form.direction = "buy"
<1>5. ASSUME saga'[s] = NoSaga
      PROVE  Sound
  BY <1>5 DEF NoSaga
<1>6. ASSUME NEW account \in Accounts, NEW form \in Forms, ValidateOrder(s, account, form)
      PROVE  Sound
  BY <1>6 DEF ValidateOrder, MoveOn, SagaTypeOK, SagaRecordsOK
<1>7. ASSUME saga'[s].pc = "create"
      PROVE  Sound
  BY <1>7
<1>8. ASSUME saga'[s] = UndoFunds(saga[s])
      PROVE  Sound
  BY <1>8 DEF UndoFunds, NoSaga
<1>9. ASSUME saga[s].pc = "submit" /\ saga'[s] = [saga[s] EXCEPT !.pc = "cancel"]
      PROVE  Sound
  <2>1. saga[s] \in Ordered /\ SameSide(saga[s].order, saga[s])
    BY <1>1, <1>9, SagaKinds DEF SagaInv, SagaTypeOK
  <2>2. /\ saga'[s].pc = "cancel" /\ saga'[s].order = saga[s].order
        /\ saga'[s].account = saga[s].account /\ saga'[s].form = saga[s].form
    BY <1>9, <2>1 DEF Ordered
  <2> QED
    BY <1>1, <2>1, <2>2 DEF SameSide, SidesKept, Exists
<1>10. ASSUME NEW o \in OrderIds, CreateOrder(s, o),
              saga'[s] = [pc |-> "submit", account |-> saga[s].account,
                          form |-> saga[s].form, order |-> o]
       PROVE  Sound
  BY <1>10 DEF CreateOrder, InsertRow, NewRow, SameSide, Exists
<1>11. Sound
  BY <1>5, <1>6, <1>7, <1>8, <1>9, <1>10, SagaGoes
<1> QED
  BY <1>3, <1>4, <1>11 DEF SagaInv

-----------------------------------------------------------------------------
(* What sagas do to the reserve *)

\* What saga s has in hand for account a.
HandFor(s, a) == IF saga[s].pc # "idle" /\ saga[s].account = a THEN InHand(s) ELSE 0

LEMMA InHandNat ==
    ASSUME NEW g \in {NoSaga} \cup Unordered \cup Ordered
    PROVE  (IF g.pc \in {"create", "release"} THEN Reservation(g.form) ELSE 0) \in Nat
BY CostNat DEF NoSaga, Unordered, Ordered

\* When one saga moves, the sum over the sagas moves with what it has in hand.
LEMMA HeldMoves ==
    ASSUME SagaRecordsOK, SagaRecordsOK', SagaInv, NEW s \in Sagas,
           \A t \in Sagas \ {s} : saga'[t] = saga[t], NEW a \in Accounts
    PROVE  /\ HeldBySagas(a) \in Int /\ HeldBySagas(a)' \in Int
           /\ HeldBySagas(a)' - HeldBySagas(a) = HandFor(s, a)' - HandFor(s, a)
<1> DEFINE f == [t \in Sagas |-> InHand(t)]
           S == SagasOf(a)
<1>1. IsFiniteSet(S)
  <2>1. S \subseteq {t \in Sagas : saga[t].pc # "idle"}
    BY DEF SagasOf
  <2> QED
    BY <2>1, FS_Subset DEF SagaInv
<1>2. \A t \in Sagas : InHand(t) \in Nat /\ InHand(t)' \in Nat
  BY InHandNat DEF SagaRecordsOK, InHand
<1>3. (\A t \in S : f[t] \in Int) /\ (\A t \in S : f[t] \in Int)'
  BY <1>2 DEF SagasOf
<1>4. S \ {s} = S' \ {s} /\ \A t \in S \ {s} : f[t] = f'[t]
  BY DEF SagasOf, InHand
<1>5. Part(f, S, s) = HandFor(s, a) /\ Part(f', S', s) = HandFor(s, a)'
  BY DEF Part, HandFor, SagasOf
<1>6. HandFor(s, a) \in Int /\ HandFor(s, a)' \in Int
  BY <1>2 DEF HandFor
<1> HIDE DEF f, S
<1>7. /\ Total(f, S) \in Int /\ Total(f', S') \in Int
      /\ Total(f', S') - Part(f', S', s) = Total(f, S) - Part(f, S, s)
  <2>1. PICK g, R : g = f' /\ R = S'
    OBVIOUS
  <2>2. /\ IsFiniteSet(S) /\ (\A t \in S : f[t] \in Int)
        /\ \A t \in R : g[t] \in Int
        /\ S \ {s} = R \ {s} /\ \A t \in S \ {s} : f[t] = g[t]
    BY <1>1, <1>3, <1>4, <2>1
  <2>3. /\ Total(f, S) \in Int /\ Total(g, R) \in Int
        /\ Total(g, R) - Part(g, R, s) = Total(f, S) - Part(f, S, s)
    BY <2>2, TotalOneChange
  <2> QED
    BY <2>1, <2>3
<1>8. HeldBySagas(a) = Total(f, S) /\ HeldBySagas(a)' = Total(f', S')
  BY DEF HeldBySagas, f, S
<1> QED
  BY <1>5, <1>6, <1>7, <1>8

\* The gap stays when the reserve moves by the share of the one row that changed
\* and by what the saga has in hand.
LEMMA SagaGapStays ==
    ASSUME SagaTypeOK, SagaTypeOK', AllInv, NEW s \in Sagas, SagaStep(s), NEW a \in Accounts,
           NEW o, DOMAIN orders' \ {o} = DOMAIN orders \ {o},
           \A p \in DOMAIN orders \ {o} : orders'[p] = orders[p],
           reserved'[a] - reserved[a]
              = (Share(o, a)' - Share(o, a)) + (HandFor(s, a)' - HandFor(s, a))
    PROVE  SagaGap(a)' = SagaGap(a)
<1>1. /\ TablesTypeOK /\ TablesTypeOK' /\ SagaRecordsOK /\ SagaRecordsOK'
      /\ IsFiniteSet(DOMAIN orders) /\ SagaInv
  BY DEF SagaTypeOK, TypeOK, AllInv, BookInv, RowsSound
<1>2. /\ HeldBySagas(a) \in Int /\ HeldBySagas(a)' \in Int
      /\ HeldBySagas(a)' - HeldBySagas(a) = HandFor(s, a)' - HandFor(s, a)
  BY <1>1, HeldMoves, SagaAlone
<1>3. /\ Gap(a) \in Int /\ Gap(a)' \in Int
      /\ Gap(a)' - Gap(a) = (reserved'[a] - reserved[a]) - (Share(o, a)' - Share(o, a))
  BY <1>1, GapMoves
<1>4. /\ reserved[a] \in Int /\ reserved'[a] \in Int
      /\ Share(o, a) \in Int /\ Share(o, a)' \in Int
  BY <1>1 DEF TablesTypeOK, Share, OpenOrders, RowType
<1>5. HandFor(s, a) \in Int /\ HandFor(s, a)' \in Int
  BY <1>1, InHandNat DEF SagaRecordsOK, InHand, HandFor
<1>6. Gap(a)' - Gap(a) = HandFor(s, a)' - HandFor(s, a)
  BY <1>3, <1>4, <1>5
<1>7. Gap(a)' - Gap(a) = HeldBySagas(a)' - HeldBySagas(a)
  BY <1>2, <1>6
<1> QED
  BY <1>2, <1>3, <1>7 DEF SagaGap

\* So it does when no row changes and the reserve moves with the hand.
LEMMA HandKeepsGap ==
    ASSUME SagaTypeOK, SagaTypeOK', AllInv, NEW s \in Sagas, SagaStep(s), UNCHANGED orders,
           NEW a \in Accounts, reserved'[a] - reserved[a] = HandFor(s, a)' - HandFor(s, a)
    PROVE  SagaGap(a)' = SagaGap(a)
<1>1. PICK o : o = 0
  OBVIOUS
<1>2. Share(o, a)' = Share(o, a) /\ Share(o, a) \in Int
  BY DEF Share, OpenOrders, SagaTypeOK, TypeOK, TablesTypeOK, RowType
<1>3. HandFor(s, a) \in Int /\ HandFor(s, a)' \in Int
  BY InHandNat DEF SagaTypeOK, SagaRecordsOK, InHand, HandFor
<1>4. reserved'[a] - reserved[a]
         = (Share(o, a)' - Share(o, a)) + (HandFor(s, a)' - HandFor(s, a))
  BY <1>2, <1>3
<1> QED
  BY <1>4, SagaGapStays

\* A saga that compensates goes on with the funds of a buy in hand, or ends.
LEMMA UndoneHand ==
    ASSUME NEW s \in Sagas, NEW a, saga'[s] = UndoFunds(saga[s])
    PROVE  HandFor(s, a)' = IF saga[s].account = a THEN Reservation(saga[s].form) ELSE 0
BY DEF UndoFunds, HandFor, InHand, NoSaga, Reservation

\* Every step of a saga, forward or compensating, moves the reserve of an
\* account together with its orders and with what its sagas have in hand.
LEMMA SagaGapStep ==
    ASSUME SagaTypeOK, SagaTypeOK', AllInv, NEW s \in Sagas, SagaStep(s), NEW a \in Accounts
    PROVE  SagaGap(a)' = SagaGap(a) \/ SagaLeaks(s)
<1>1. /\ TablesTypeOK /\ TablesTypeOK' /\ SagaInv /\ RowsSound
      /\ saga \in [Sagas -> {NoSaga} \cup Unordered \cup Ordered]
      /\ reserved \in [Accounts -> Nat] /\ reserved[a] \in Nat
  BY DEF SagaTypeOK, SagaRecordsOK, TypeOK, AllInv, BookInv, TablesTypeOK
<1> DEFINE g == saga[s]
           Needs == IF g.account = a THEN Reservation(g.form) ELSE 0
<1>2. g \in Unordered \cup Ordered => Reservation(g.form) \in Nat /\ Cost(g.form) \in Nat /\ Needs \in Nat
  BY CostNat DEF Unordered, Ordered
<1>3. ASSUME NEW account \in Accounts, NEW form \in Forms, ValidateOrder(s, account, form)
      PROVE  SagaGap(a)' = SagaGap(a)
  <2>1. HandFor(s, a) = 0 /\ HandFor(s, a)' = 0
    BY <1>1, <1>3 DEF ValidateOrder, MoveOn, NoSaga, HandFor, InHand
  <2>2. UNCHANGED orders /\ reserved'[a] - reserved[a] = HandFor(s, a)' - HandFor(s, a)
    BY <1>1, <1>3, <2>1 DEF ValidateOrder, tables
  <2> QED
    BY <2>2, HandKeepsGap
<1>4. ASSUME ReserveFunds(s)
      PROVE  SagaGap(a)' = SagaGap(a)
  <2>1. g \in Unordered /\ g.pc = "reserve" /\ saga'[s] = [g EXCEPT !.pc = "create"]
    BY <1>1, <1>4, SagaKinds DEF ReserveFunds, MoveOn, SagaRecordsOK
  <2>2. saga'[s].pc = "create" /\ saga'[s].account = g.account /\ saga'[s].form = g.form
    BY <2>1 DEF Unordered
  <2>3. HandFor(s, a) = 0 /\ HandFor(s, a)' = Needs
    BY <2>1, <2>2 DEF HandFor, InHand
  <2>4. reserved'[a] - reserved[a] = Needs
    BY <1>1, <1>2, <1>4, <2>1 DEF ReserveFunds, reserve_funds, funds, Reservation
  <2>5. UNCHANGED orders
    BY <1>4 DEF ReserveFunds
  <2> HIDE DEF Needs
  <2> QED
    BY <1>2, <2>1, <2>3, <2>4, <2>5, HandKeepsGap
<1>5. ASSUME NEW o \in OrderIds, CreateOrder(s, o)
      PROVE  SagaGap(a)' = SagaGap(a)
  <2>1. g \in Unordered /\ g.pc = "create"
    BY <1>1, <1>5, SagaKinds DEF CreateOrder, SagaRecordsOK
  <2>2. HandFor(s, a) = Needs /\ HandFor(s, a)' = 0
    BY <1>1, <1>5, <2>1 DEF HandFor, InHand, CreateOrder, MoveOn
  <2>3. /\ DOMAIN orders' \ {o} = DOMAIN orders \ {o} /\ o \in DOMAIN orders' /\ o \notin DOMAIN orders
        /\ \A q \in DOMAIN orders \ {o} : orders'[q] = orders[q]
        /\ orders'[o] = NewRow(g.account, g.form, NoKey)
    BY <1>5 DEF CreateOrder, InsertRow, Exists
  <2>4. Share(o, a) = 0 /\ Share(o, a)' = Needs
    BY <2>3 DEF Share, OpenOrders, NewRow, OpenStatuses
  <2>5. reserved'[a] - reserved[a] = 0
    BY <1>1, <1>5 DEF CreateOrder, funds
  <2>6. reserved'[a] - reserved[a]
           = (Share(o, a)' - Share(o, a)) + (HandFor(s, a)' - HandFor(s, a))
    <3> HIDE DEF Needs
    <3> QED
      BY <1>2, <2>1, <2>2, <2>4, <2>5
  <2> QED
    BY <2>3, <2>6, SagaGapStays
<1>6. ASSUME SubmitToMatching(s)
      PROVE  SagaGap(a)' = SagaGap(a)
  <2>1. HandFor(s, a) = 0 /\ HandFor(s, a)' = 0
    BY <1>1, <1>6 DEF SubmitToMatching, MoveOn, NoSaga, HandFor, InHand
  <2>2. UNCHANGED orders /\ reserved'[a] - reserved[a] = HandFor(s, a)' - HandFor(s, a)
    BY <1>1, <1>6, <2>1 DEF SubmitToMatching, tables
  <2> QED
    BY <2>2, HandKeepsGap
<1>7. ASSUME StepFails(s)
      PROVE  SagaGap(a)' = SagaGap(a)
  <2>1. HandFor(s, a)' = HandFor(s, a) /\ HandFor(s, a) \in Nat
    <3>1. CASE g.pc = "reserve"
      BY <1>1, <1>7, <3>1 DEF StepFails, MoveOn, NoSaga, HandFor, InHand
    <3>2. CASE g.pc = "create"
      <4>1. g \in Unordered /\ saga'[s] = UndoFunds(g)
        BY <1>1, <1>7, <3>2, SagaKinds DEF StepFails, MoveOn, SagaRecordsOK
      <4>2. HandFor(s, a)' = Needs /\ HandFor(s, a) = Needs
        BY <3>2, <4>1, UndoneHand DEF HandFor, InHand
      <4> QED
        BY <1>2, <4>1, <4>2
    <3>3. CASE g.pc = "submit"
      <4>1. g \in Ordered /\ saga'[s] = [g EXCEPT !.pc = "cancel"]
        BY <1>1, <1>7, <3>3, SagaKinds DEF StepFails, MoveOn, SagaRecordsOK
      <4>2. saga'[s].pc = "cancel"
        BY <4>1 DEF Ordered
      <4> QED
        BY <3>3, <4>2 DEF HandFor, InHand
    <3> QED
      BY <1>7, <3>1, <3>2, <3>3 DEF StepFails
  <2>2. UNCHANGED orders /\ reserved'[a] - reserved[a] = HandFor(s, a)' - HandFor(s, a)
    BY <1>1, <1>7, <2>1 DEF StepFails, tables
  <2> QED
    BY <2>2, HandKeepsGap
<1>8. ASSUME CompensateCreateOrder(s), OrderAsMade(s)
      PROVE  SagaGap(a)' = SagaGap(a)
  <2>1. PICK o \in DOMAIN orders :
           /\ o = g.order /\ orders[o] \in RowType
           /\ orders' = [orders EXCEPT ![o] = WithStatus(orders[o], "cancelled")]
    BY <1>1, <1>8 DEF CompensateCreateOrder, SagaInv, SameSide, Exists, TablesTypeOK
  <2>2. g \in Ordered /\ g.pc = "cancel" /\ saga'[s] = UndoFunds(g)
    BY <1>1, <1>8, SagaKinds DEF CompensateCreateOrder, MoveOn, SagaRecordsOK
  <2>3. HandFor(s, a) = 0 /\ HandFor(s, a)' = Needs
    BY <2>2, UndoneHand DEF HandFor, InHand
  <2>4. orders[o].account = g.account
    BY <1>1, <2>1, <2>2 DEF SagaInv, SameSide
  <2>5. Share(o, a) = Needs
    BY <1>8, <2>1, <2>4 DEF OrderAsMade, Share, OpenOrders
  <2>6. WithStatus(orders[o], "cancelled").status = "cancelled"
    BY <2>1, StatusUpdates DEF FinalStatuses
  <2>7. Share(o, a)' = 0
    BY <2>1, <2>6 DEF Share, OpenOrders, OpenStatuses
  <2>8. reserved'[a] - reserved[a] = 0
    BY <1>1, <1>8 DEF CompensateCreateOrder, funds
  <2>9. reserved'[a] - reserved[a]
           = (Share(o, a)' - Share(o, a)) + (HandFor(s, a)' - HandFor(s, a))
    <3> HIDE DEF Needs
    <3> QED
      BY <1>2, <2>2, <2>3, <2>5, <2>7, <2>8
  <2> QED
    BY <2>1, <2>9, SagaGapStays
<1>9. ASSUME CompensateReserveFunds(s)
      PROVE  SagaGap(a)' = SagaGap(a)
  <2>1. g \in Unordered /\ g.pc = "release" /\ saga'[s] = NoSaga /\ g.form.direction = "buy"
    BY <1>1, <1>9, SagaKinds DEF CompensateReserveFunds, MoveOn, SagaRecordsOK, SagaInv
  <2>2. HandFor(s, a) = Needs /\ HandFor(s, a)' = 0
    BY <2>1 DEF HandFor, InHand, NoSaga
  <2>3. reserved'[a] - reserved[a] = 0 - Needs
    BY <1>1, <1>2, <1>9, <2>1 DEF CompensateReserveFunds, release_funds, Reservation
  <2>4. UNCHANGED orders
    BY <1>9 DEF CompensateReserveFunds
  <2> HIDE DEF Needs
  <2> QED
    BY <1>2, <2>1, <2>2, <2>3, <2>4, HandKeepsGap
<1>10. ASSUME SagaEnds(s), ~ (InHand(s) > 0)
       PROVE  SagaGap(a)' = SagaGap(a)
  <2>1. InHand(s) \in Nat /\ saga'[s] = NoSaga
    BY <1>1, <1>10, InHandNat DEF InHand, SagaEnds, MoveOn
  <2>2. InHand(s) = 0
    BY <1>10, <2>1
  <2>3. HandFor(s, a) = 0 /\ HandFor(s, a)' = 0
    BY <2>1, <2>2 DEF HandFor, NoSaga
  <2>4. UNCHANGED orders /\ reserved'[a] - reserved[a] = HandFor(s, a)' - HandFor(s, a)
    BY <1>1, <1>10, <2>3 DEF SagaEnds, tables
  <2> QED
    BY <2>4, HandKeepsGap
<1> QED
  BY <1>3, <1>4, <1>5, <1>6, <1>7, <1>8, <1>9, <1>10 DEF SagaStep, SagaLeaks

\* Every step of a saga, of a handler or of an engine keeps the invariant.
LEMMA AllStep ==
    ASSUME SagaTypeOK, SagaTypeOK', AllInv, [SagaTradingNext]_sagaVars
    PROVE  AllInv'
<1>1. CASE [Next]_vars /\ UNCHANGED saga
  <2>1. /\ TypeOK /\ TypeOK' /\ OptimisticLock /\ BookInv /\ SagaInv
    BY DEF SagaTypeOK, AllInv
  <2>2. OptimisticLock' /\ BookInv' /\ SidesKept
    BY <1>1, <2>1, LockStep, BookStep, RowsStep
  <2>3. SagaInv'
    BY <1>1, <2>1, <2>2 DEF SagaInv, SameSide, SidesKept, Exists
  <2> QED
    BY <2>2, <2>3 DEF AllInv
<1>2. ASSUME NEW s \in Sagas, SagaStep(s), UNCHANGED <<req, eng>>
      PROVE  AllInv'
  BY <1>2, SagaKeepsHeld, SagaInvStep DEF AllInv
<1> QED
  BY <1>1, <1>2 DEF SagaTradingNext, sagaVars

\* Sagas leave every thread the rows and versions it relies on, and keep the order
\* they may have to cancel on its account and its side.
THEOREM SagasKeepTheBook == SagaSpec => []AllInv
<1>1. SagaTradingInit => AllInv
  <2> SUFFICES ASSUME SagaTradingInit PROVE AllInv
    OBVIOUS
  <2>1. BookInv
    BY BookInit DEF SagaTradingInit
  <2>2. OptimisticLock
    BY DEF SagaTradingInit, Init, ApiInit, EngineInit, OptimisticLock, Idle, Waiting
  <2>3. {s \in Sagas : saga[s].pc # "idle"} = {}
    BY DEF SagaTradingInit, SagaInit, NoSaga
  <2>4. SagaInv
    BY <2>3, FS_EmptySet DEF SagaInv, SagaTradingInit, SagaInit, NoSaga
  <2> QED
    BY <2>1, <2>2, <2>4 DEF AllInv
<1>2. SagaTypeOK /\ SagaTypeOK' /\ AllInv /\ [SagaTradingNext]_sagaVars => AllInv'
  BY AllStep
<1> QED
  BY <1>1, <1>2, SagaTypes, PTL DEF SagaSpec

\* A saga that fails and compensates leaves nothing reserved behind: the reserve
\* of an account moves together with its open orders and with what its sagas have
\* in hand, but for the leaks of the order path and the named ways in which a
\* saga cannot undo what it did.
THEOREM SagasUndo == SagaSpec => SagasUndoTheirReserve
<1>1. ASSUME SagaTypeOK, SagaTypeOK', AllInv, [SagaTradingNext]_sagaVars,
             NEW a \in Accounts
      PROVE  SagaGap(a)' = SagaGap(a) \/ LeakingStep \/ \E s \in Sagas : SagaLeaks(s)
  <2>1. CASE [Next]_vars /\ UNCHANGED saga
    <3>1. Gap(a)' = Gap(a) \/ LeakingStep
      BY <1>1, <2>1, GapStep DEF SagaTypeOK, AllInv
    <3>2. HeldBySagas(a)' = HeldBySagas(a)
      BY <2>1 DEF HeldBySagas, InHand, SagasOf
    <3> QED
      BY <3>1, <3>2 DEF SagaGap
  <2>2. CASE \E s \in Sagas : SagaStep(s)
    BY <1>1, <2>2, SagaGapStep
  <2> QED
    BY <1>1, <2>1, <2>2 DEF SagaTradingNext, sagaVars
<1>2. SagaTypeOK /\ SagaTypeOK' /\ AllInv /\ [SagaTradingNext]_sagaVars
        => [\/ \A a \in Accounts : SagaGap(a)' = SagaGap(a)
            \/ LeakingStep
            \/ \E s \in Sagas : SagaLeaks(s)]_sagaVars
  BY <1>1
<1> QED
  BY <1>2, SagaTypes, SagasKeepTheBook, PTL DEF SagaSpec, SagasUndoTheirReserve

-----------------------------------------------------------------------------
(* Executions, when one engine runs *)

\* A saga executes nothing, and no order becomes "new" again by what it does.
LEMMA SagaKeepsExecutions ==
    ASSUME SagaTypeOK, AllInv, ExecutionInv, SingleExecution,
           NEW s \in Sagas, SagaStep(s), UNCHANGED <<req, eng>>
    PROVE  ExecutionInv' /\ SingleExecution'
<1>1. UNCHANGED executions
  BY DEF SagaStep, ValidateOrder, ReserveFunds, CreateOrder, SubmitToMatching, StepFails,
         CompensateCreateOrder, CompensateReserveFunds, CompensationFails, SagaEnds, tables
<1>2. \A o \in DOMAIN orders : /\ o \in DOMAIN orders'
                               /\ orders'[o].status = "new" => orders[o].status = "new"
  <2>1. ASSUME NEW o \in OrderIds, CreateOrder(s, o), NEW p \in DOMAIN orders
        PROVE  p \in DOMAIN orders' /\ orders'[p] = orders[p]
    BY <2>1 DEF CreateOrder, InsertRow, Exists
  <2>2. ASSUME NEW o \in DOMAIN orders, orders[o] \in RowType,
               orders' = [orders EXCEPT ![o] = WithStatus(orders[o], "cancelled")]
        PROVE  RowsUpdated
    BY <2>2, StatusUpdates DEF RowsUpdated, FinalStatuses
  <2>3. ASSUME RowsUpdated, NEW p \in DOMAIN orders
        PROVE  /\ p \in DOMAIN orders'
               /\ orders'[p].status = "new" => orders[p].status = "new"
    BY <2>3 DEF RowsUpdated
  <2> QED
    BY <2>1, <2>2, <2>3, SagaRows DEF AllInv
<1> QED
  BY <1>1, <1>2 DEF ExecutionInv, SingleExecution, Exists

\* With one engine no order is executed twice, a saga's orders included, and also
\* when its compensation cancels an order the engine is holding or has traded.
THEOREM SagasExecuteOnce ==
    ASSUME OneEngine
    PROVE  SagaSpec => []SingleExecution
<1>1. SagaTradingInit => ExecutionInv /\ SingleExecution
  BY ExecutionsStart DEF SagaTradingInit
<1>2. /\ SagaTypeOK /\ AllInv /\ ExecutionInv /\ SingleExecution
      /\ [SagaTradingNext]_sagaVars
      => ExecutionInv' /\ SingleExecution'
  <2> SUFFICES ASSUME SagaTypeOK, AllInv, ExecutionInv, SingleExecution,
                      [SagaTradingNext]_sagaVars
               PROVE  ExecutionInv' /\ SingleExecution'
    OBVIOUS
  <2>1. CASE [Next]_vars
    BY <2>1, ExecutionStep DEF SagaTypeOK, AllInv
  <2>2. ASSUME NEW s \in Sagas, SagaStep(s), UNCHANGED <<req, eng>>
        PROVE  ExecutionInv' /\ SingleExecution'
    BY <2>2, SagaKeepsExecutions
  <2> QED
    BY <2>1, <2>2 DEF SagaTradingNext, sagaVars, vars
<1> QED
  BY <1>1, <1>2, SagaTypes, SagasKeepTheBook, PTL DEF SagaSpec

-----------------------------------------------------------------------------
(* The service the pages rely on, with sagas beside the API *)

\* Sagas keep the promise of the orders table too: their orders come without a
\* key, and a compensation that cancels one shows in its lock_version.
THEOREM SagasKeepService == SagaSpec => ImplementsOrderService
<1>1. SagaTradingInit => Service!ServiceInit
  BY DEF SagaTradingInit, Init, TablesInit, Service!ServiceInit
<1>2. SagaTypeOK /\ AllInv /\ [SagaTradingNext]_sagaVars
        => [Service!ServiceNext]_orders
  <2> SUFFICES ASSUME SagaTypeOK, AllInv, [SagaTradingNext]_sagaVars
               PROVE  [Service!ServiceNext]_orders
    OBVIOUS
  <2>1. TypeOK /\ TablesTypeOK
    BY DEF SagaTypeOK, TypeOK
  <2>2. CASE [Next]_vars
    BY <2>1, <2>2, ServiceStep
  <2>3. ASSUME NEW s \in Sagas, SagaStep(s)
        PROVE  [Service!ServiceNext]_orders
    <3>1. CASE RowsUpdated
      BY <2>1, <3>1, UpdatesServe
    <3>2. ASSUME NEW o \in OrderIds, CreateOrder(s, o)
          PROVE  Service!ServiceNext
      BY <3>2, InsertServes DEF CreateOrder
    <3>3. CASE UNCHANGED orders
      BY <3>3
    <3>4. ASSUME NEW o \in DOMAIN orders, orders[o] \in RowType,
                 orders' = [orders EXCEPT ![o] = WithStatus(orders[o], "cancelled")]
          PROVE  RowsUpdated
      BY <3>4, StatusUpdates DEF RowsUpdated, FinalStatuses
    <3> QED
      BY <2>1, <2>3, <3>1, <3>2, <3>3, <3>4, SagaRows DEF AllInv
  <2> QED
    BY <2>2, <2>3 DEF SagaTradingNext, sagaVars, vars
<1> QED
  BY <1>1, <1>2, SagaTypes, SagasKeepTheBook, PTL DEF SagaSpec, ImplementsOrderService, Service!ServiceSpec
=============================================================================
