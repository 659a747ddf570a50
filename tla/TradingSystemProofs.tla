------------------------ MODULE TradingSystemProofs ------------------------
(***************************************************************************)
(* TradingSystem implements Trading, for any numbers of orders, engines,   *)
(* exceptions and crashes; and it loses no order but by a full queue, an   *)
(* exception or a crash, which lose no more than what is in hand.          *)
(***************************************************************************)
EXTENDS TradingSystem, TradingProofs

\* A step of the system is a step of Trading or leaves its variables alone.
LEMMA StepsAreTradingSteps ==
    ASSUME TypeOK, [SysNext]_sysVars
    PROVE  [Next]_vars
<1>1. ASSUME NEW r \in Requests, NEW o \in OrderIds, PlaceOrder(r, o), UNCHANGED eng
      PROVE  Next
  BY <1>1 DEF PlaceOrder, Next, ApiStep
<1>2. ASSUME NEW r \in Requests, OtherStep(r), UNCHANGED eng
      PROVE  Next
  BY <1>2 DEF Next, ApiStep
<1>3. ASSUME NEW e \in Engines, TakeOrder(e), UNCHANGED req
      PROVE  Next \/ UNCHANGED vars
  <2>1. CASE ReadCurrent(e, Head(queue[e]))
    <3>1. Head(queue[e]) \in OrderIds
      BY <2>1 DEF ReadCurrent, Exists, TypeOK, TablesTypeOK
    <3> QED
      BY <1>3, <2>1, <3>1 DEF Next, EngineStep
  <2>2. CASE UNCHANGED <<tables, eng>>
    BY <1>3, <2>2 DEF vars
  <2> QED
    BY <1>3, <2>1, <2>2 DEF TakeOrder
<1>4. ASSUME NEW e \in Engines, Match(e), UNCHANGED req
      PROVE  Next
  BY <1>4 DEF Match, Next, EngineStep
<1>5. ASSUME NEW e \in Engines, DispatcherWork(e)
      PROVE  UNCHANGED vars
  BY <1>5 DEF DispatcherWork
<1>6. ASSUME NEW e \in Engines, ThreadFault(e)
      PROVE  Next \/ UNCHANGED vars
  BY <1>6 DEF ThreadFault, Next, EngineStep
<1>7. ASSUME NEW e \in Engines, ProcessCrash(e)
      PROVE  Next \/ UNCHANGED vars
  <2>1. CASE eng[e] = Waiting
    <3>1. eng' = eng
      BY <1>7, <2>1 DEF ProcessCrash, Proceed, TypeOK, EngineTypeOK
    <3> QED
      BY <1>7, <3>1 DEF ProcessCrash, vars
  <2>2. CASE eng[e] # Waiting
    BY <1>7, <2>2 DEF ProcessCrash, EngineFault, Next, EngineStep
  <2> QED
    BY <2>1, <2>2
<1>8. CASE UNCHANGED sysVars
  BY <1>8 DEF sysVars
<1> QED
  BY <1>1, <1>2, <1>3, <1>4, <1>5, <1>6, <1>7, <1>8 DEF SysNext, EngineWork

\* Every behaviour of the system is one of Trading. What Trading's theorems say
\* of the funds, the versions and the keys is therefore true of the system.
THEOREM SystemImplementsTrading == SysSpec => ImplementsTrading
<1>1. SysInit => Init /\ TypeOK
  BY InitTyped DEF SysInit
<1>2. TypeOK /\ [SysNext]_sysVars => [Next]_vars /\ TypeOK'
  BY StepsAreTradingSteps, StepsTyped
<1> QED
  BY <1>1, <1>2, PTL DEF SysSpec, Spec, ImplementsTrading

\* In particular, whatever the outbox hands out, whenever it fails and whoever
\* crashes: money is conserved, versions tell, keys are unique, the reserve
\* follows the orders, trades keep to the limits of both orders, and the orders
\* table is the one the pages rely on.
THEOREM SystemKeepsTheBook ==
    SysSpec => /\ [](FundsConserved /\ ChargedForTradesOnly /\ OptimisticLock /\ OneOrderPerKey)
               /\ ReserveFollowsOrders
               /\ TradesWithinLimits
               /\ ImplementsOrderService
BY SystemImplementsTrading, MoneyIsConserved, ChargesAreForTrades, VersionsTell, KeysAreUnique,
   ReserveIsOfOrders, TradesKeepLimits, TradingIsOrderService, PTL DEF ImplementsTrading

\* And with one engine no order is executed twice.
THEOREM SystemExecutesOnce ==
    ASSUME OneEngine
    PROVE  SysSpec => []SingleExecution
BY SystemImplementsTrading, ExecutedOnce, PTL DEF ImplementsTrading

\* Without DELETE besides, "filled" says that an order was executed, for good.
THEOREM SystemFillsForGood ==
    ASSUME OneEngine, "destroy" \notin Endpoints
    PROVE  SysSpec => []FilledIffExecuted /\ FilledIsFinal
BY SystemImplementsTrading, FilledMeansExecuted, FilledStays, PTL DEF ImplementsTrading

-----------------------------------------------------------------------------
(* No order is lost *)

Queued(q) == {q[i] : i \in DOMAIN q}

\* What is appended is queued, with what was queued before.
LEMMA AppendQueues ==
    ASSUME NEW q \in Seq(OrderIds), NEW o \in OrderIds
    PROVE  /\ Append(q, o) \in Seq(OrderIds)
           /\ Queued(Append(q, o)) = Queued(q) \cup {o}
<1>1. /\ Append(q, o) \in Seq(OrderIds)
      /\ Len(q) \in Nat
      /\ DOMAIN q = 1 .. Len(q)
      /\ DOMAIN Append(q, o) = 1 .. Len(q) + 1
      /\ Append(q, o)[Len(q) + 1] = o
      /\ \A i \in 1 .. Len(q) : Append(q, o)[i] = q[i]
  OBVIOUS
<1>2. \A i \in 1 .. Len(q) + 1 : i \in 1 .. Len(q) \/ i = Len(q) + 1
  BY <1>1
<1>3. \A i \in 1 .. Len(q) : i \in 1 .. Len(q) + 1
  BY <1>1
<1>4. Len(q) + 1 \in 1 .. Len(q) + 1
  BY <1>1
<1>5. Queued(Append(q, o)) \subseteq Queued(q) \cup {o}
  BY <1>1, <1>2 DEF Queued
<1>6. Queued(q) \cup {o} \subseteq Queued(Append(q, o))
  BY <1>1, <1>3, <1>4 DEF Queued
<1> QED
  BY <1>1, <1>5, <1>6

\* Taking the head leaves everything else queued.
LEMMA TailQueues ==
    ASSUME NEW q \in Seq(OrderIds), q # <<>>
    PROVE  /\ Tail(q) \in Seq(OrderIds)
           /\ Queued(q) \subseteq Queued(Tail(q)) \cup {Head(q)}
<1>1. /\ Tail(q) \in Seq(OrderIds)
      /\ Len(q) \in Nat
      /\ DOMAIN q = 1 .. Len(q)
      /\ DOMAIN Tail(q) = 1 .. Len(q) - 1
      /\ Head(q) = q[1]
      /\ \A i \in 1 .. Len(q) - 1 : Tail(q)[i] = q[i + 1]
  OBVIOUS
<1>2. ASSUME NEW i \in 1 .. Len(q), i # 1
      PROVE  i - 1 \in 1 .. Len(q) - 1 /\ Tail(q)[i - 1] = q[i]
  BY <1>1, <1>2
<1>3. ASSUME NEW x \in Queued(q), x # Head(q)
      PROVE  x \in Queued(Tail(q))
  <2>1. PICK i \in 1 .. Len(q) : x = q[i]
    BY <1>1 DEF Queued
  <2>2. i - 1 \in DOMAIN Tail(q) /\ Tail(q)[i - 1] = x
    BY <1>1, <1>2, <1>3, <2>1
  <2> QED
    BY <2>2 DEF Queued
<1> QED
  BY <1>1, <1>3

PathTypes ==
    /\ outbox \in [OrderIds -> Outbox!Statuses]
    /\ disp \in [Engines -> Outbox!Between \cup Outbox!Handling]
    /\ queue \in [Engines -> Seq(OrderIds)]
    /\ delivered \in [OrderIds -> Nat]
    /\ faults \in Nat

\* Every order has its event, and what a dispatcher holds is no longer pending, so
\* nothing but the handling is left to account for it.
EventsHeld ==
    /\ \A o \in OrderIds : Exists(o) \/ delivered[o] > 0 => outbox[o] # "absent"
    /\ \A e \in Engines :
          /\ \A d \in disp[e].batch : outbox[d] # "absent"
          /\ disp[e].pc # "next" => outbox[disp[e].evt] \notin {"absent", "pending"}

\* What the engine of a process has in hand: the order waits for it or is its own.
InHand(e, o) ==
    \/ o \in Queued(queue[e])
    \/ eng[e].pc # "wait" /\ eng[e].order = o

\* An order that some engine was given and that is still new has not been looked
\* at: the engine has it in hand.
DeliveredInHand ==
    \A o \in OrderIds :
       faults = 0 /\ StillNew(o) /\ delivered[o] > 0 => \E e \in Engines : InHand(e, o)

EventInv == PathTypes /\ EventsHeld

\* The strengthening of NoOrderLost. Two dispatchers may handle one event: when
\* the queue of the second is full, it is the queue of the first that counts.
PathInv == EventInv /\ NoOrderLost /\ DeliveredInHand

RequestStep ==
    \E r \in Requests :
       /\ \/ \E o \in OrderIds : PlaceOrder(r, o)
          \/ OtherStep(r) /\ UNCHANGED outboxVars
       /\ UNCHANGED eng

ProcessStep(e) ==
    \/ EngineWork(e) /\ UNCHANGED req
    \/ DispatcherWork(e) \/ ThreadFault(e) \/ ProcessCrash(e)

LEMMA SystemSteps ==
    ASSUME [SysNext]_sysVars
    PROVE  RequestStep \/ (\E e \in Engines : ProcessStep(e)) \/ UNCHANGED sysVars
BY DEF SysNext, RequestStep, ProcessStep

\* The clients touch no dispatcher, queue or engine.
LEMMA RequestsLeavePath ==
    ASSUME RequestStep \/ UNCHANGED sysVars
    PROVE  UNCHANGED <<disp, queue, eng, delivered, faults>>
BY DEF RequestStep, PlaceOrder, Outbox!InsertEvent, outboxVars, sysVars, vars

\* A process touches no other process.
LEMMA OthersAlone ==
    ASSUME TypeOK, PathTypes, NEW e \in Engines, ProcessStep(e), NEW f \in Engines, f # e
    PROVE  disp'[f] = disp[f] /\ queue'[f] = queue[f] /\ eng'[f] = eng[f]
<1>1. /\ DOMAIN disp = Engines /\ DOMAIN queue = Engines /\ DOMAIN eng = Engines
  BY DEF PathTypes, TypeOK, EngineTypeOK
<1>2. CASE TakeOrder(e)
  BY <1>1, <1>2 DEF TakeOrder, Outbox!Take, ReadCurrent, Proceed
<1>3. CASE Match(e)
  BY <1>1, <1>3 DEF Match, FindCounter, FindNone, RestOrder, ExecuteTrade, Proceed, outboxVars
<1>4. CASE DispatcherWork(e)
  <2>1. eng' = eng
    BY <1>4 DEF DispatcherWork, vars
  <2>2. disp'[f] = disp[f] /\ queue'[f] = queue[f]
    BY <1>1, <1>4 DEF DispatcherWork, Outbox!DispatcherStep, Outbox!Load, Outbox!Mark,
                      Outbox!Handle, Outbox!Finish, Outbox!Close, Outbox!Go
  <2> QED
    BY <2>1, <2>2
<1>5. CASE ThreadFault(e)
  BY <1>1, <1>5 DEF ThreadFault, Outbox!Fail, Outbox!Throw, Outbox!Close, Outbox!Go, EngineFault,
                    Proceed, vars
<1>6. CASE ProcessCrash(e)
  BY <1>1, <1>6 DEF ProcessCrash, Outbox!Crash, Proceed
<1> QED
  BY <1>2, <1>3, <1>4, <1>5, <1>6 DEF ProcessStep, EngineWork

\* An order is "new" because it was, or because it has just been inserted.
LEMMA NewOrders ==
    ASSUME TypeOK, [Next]_vars, NEW o \in OrderIds, StillNew(o)'
    PROVE  StillNew(o) \/ \E r \in Requests : InsertOrder(r, o)
<1>1. CASE RowsUpdated
  BY <1>1 DEF RowsUpdated, StillNew, Exists
<1>2. ASSUME NEW r \in Requests, NEW p \in OrderIds, InsertOrder(r, p), p # o
      PROVE  StillNew(o)
  BY <1>2 DEF InsertOrder, InsertRow, StillNew, Exists
<1> QED
  BY <1>1, <1>2, RowSteps

\* Nothing but a client's request inserts an order.
LEMMA NewOrdersArePlaced ==
    ASSUME TypeOK, [SysNext]_sysVars, NEW o \in OrderIds, StillNew(o)'
    PROVE  StillNew(o) \/ \E r \in Requests : PlaceOrder(r, o)
<1>1. [Next]_vars
  BY StepsAreTradingSteps
<1>2. ASSUME NEW r \in Requests, InsertOrder(r, o)
      PROVE  /\ req' # req
             /\ DOMAIN orders' # DOMAIN orders
  <2>1. req' # req
    BY <1>2, RequestKinds DEF InsertOrder, Answer, Become, TypeOK, ApiTypeOK, Idle
  <2> QED
    BY <1>2, <2>1 DEF InsertOrder, InsertRow, Exists
<1>3. ASSUME NEW r \in Requests, OtherStep(r)
      PROVE  DOMAIN orders' = DOMAIN orders
  BY <1>3 DEF OtherStep, SubmitOrder, RefuseInsert, ReadForCancel, CommitCancel, ConflictCancel,
              ReadForDestroy, DestroyRelease, DestroyUpdate, RefuseRelease, ReadForReplace,
              ValidateReplace, CommitReplace, FailReplace, RefuseReplace, Abort, WriteRow, tables
<1>4. ASSUME NEW e \in Engines, ProcessStep(e)
      PROVE  req' = req
  BY <1>4 DEF ProcessStep, DispatcherWork, ThreadFault, ProcessCrash, vars
<1>5. CASE UNCHANGED sysVars
  BY <1>5 DEF sysVars, vars, tables, StillNew, Exists
<1>6. ASSUME NEW r \in Requests, NEW p \in OrderIds, PlaceOrder(r, p), p # o
      PROVE  StillNew(o)
  BY <1>6 DEF PlaceOrder, InsertOrder, InsertRow, StillNew, Exists
<1> QED
  BY <1>1, <1>2, <1>3, <1>4, <1>5, <1>6, NewOrders, SystemSteps DEF RequestStep

-----------------------------------------------------------------------------
(* The events *)

\* Whatever a dispatcher does, the event of an order stays in the table, and what
\* it handles is marked.
LEMMA DispatcherKeepsEvents ==
    ASSUME EventInv, NEW e \in Engines, Outbox!DispatcherStep(e), UNCHANGED vars
    PROVE  EventInv'
<1> USE DEF Outbox!Between, Outbox!Handling, Outbox!Statuses, Outbox!Go, Outbox!Asleep
<1>1. /\ outbox \in [OrderIds -> Outbox!Statuses]
      /\ disp \in [Engines -> Outbox!Between \cup Outbox!Handling]
      /\ queue \in [Engines -> Seq(OrderIds)]
      /\ delivered \in [OrderIds -> Nat]
      /\ faults \in Nat
  BY DEF EventInv, PathTypes
<1>2. orders' = orders
  BY DEF vars, tables
<1>3. \A f \in Engines : /\ disp[f].batch \subseteq OrderIds
                         /\ disp[f].pc # "next" => disp[f].evt \in OrderIds
  BY <1>1
<1>4. CASE Outbox!Load(e)
  <2>1. PICK batch \in SUBSET Outbox!Pending :
           disp' = [disp EXCEPT ![e] = [pc |-> "next", batch |-> batch]]
    BY <1>4 DEF Outbox!Load
  <2>2. disp[e].pc = "next" /\ UNCHANGED <<outbox, queue, delivered, faults>>
    BY <1>4 DEF Outbox!Load
  <2>3. batch \in SUBSET OrderIds /\ \A d \in batch : outbox[d] = "pending"
    BY DEF Outbox!Pending
  <2>4. PathTypes'
    BY <1>1, <2>1, <2>2, <2>3 DEF PathTypes
  <2>5. EventsHeld'
    BY <1>1, <1>2, <2>1, <2>2, <2>3 DEF EventInv, EventsHeld, Exists
  <2> QED
    BY <2>4, <2>5 DEF EventInv
<1>5. ASSUME NEW d \in OrderIds, Outbox!Mark(e, d)
      PROVE  EventInv'
  <2>1. /\ disp[e].pc = "next" /\ d \in disp[e].batch
        /\ outbox' = [outbox EXCEPT ![d] = "processing"]
        /\ disp' = [disp EXCEPT ![e] =
              [pc |-> "handle", evt |-> d, batch |-> disp[e].batch \ {d}]]
        /\ UNCHANGED <<queue, delivered, faults>>
    BY <1>5 DEF Outbox!Mark
  <2>2. [pc |-> "handle", evt |-> d, batch |-> disp[e].batch \ {d}] \in Outbox!Handling
    BY <1>1, <2>1
  <2>3. PathTypes'
    BY <1>1, <2>1, <2>2 DEF PathTypes
  <2>4. \A o \in OrderIds : outbox'[o] = IF o = d THEN "processing" ELSE outbox[o]
    BY <1>1, <2>1
  <2>5. disp'[e] = [pc |-> "handle", evt |-> d, batch |-> disp[e].batch \ {d}]
    BY <1>1, <2>1
  <2>6. \A f \in Engines : f # e => disp'[f] = disp[f]
    BY <1>1, <2>1
  <2>7. ASSUME NEW f \in Engines
        PROVE  /\ \A p \in disp'[f].batch : p \in disp[f].batch
               /\ disp'[f].pc # "next" =>
                     \/ disp'[f].evt = d
                     \/ disp[f].pc # "next" /\ disp'[f].evt = disp[f].evt
    BY <2>5, <2>6
  <2>8. ASSUME NEW f \in Engines
        PROVE  /\ \A p \in disp'[f].batch : outbox'[p] # "absent"
               /\ disp'[f].pc # "next" => outbox'[disp'[f].evt] \notin {"absent", "pending"}
    BY <1>3, <2>1, <2>4, <2>7 DEF EventInv, EventsHeld
  <2>9. EventsHeld'
    BY <1>2, <2>1, <2>4, <2>8 DEF EventInv, EventsHeld, Exists
  <2> QED
    BY <2>3, <2>9 DEF EventInv
<1>6. CASE Outbox!Handle(e)
  <2> DEFINE d == disp[e].evt
  <2>1. disp[e] \in Outbox!Handling /\ disp[e].pc = "handle" /\ d \in OrderIds
    BY <1>1, <1>6 DEF Outbox!Handle
  <2>2. /\ disp' = [disp EXCEPT ![e] = [disp[e] EXCEPT !.pc = "finish"]]
        /\ UNCHANGED <<outbox, faults>>
        /\ queue' \in {queue, [queue EXCEPT ![e] = Append(queue[e], d)]}
        /\ delivered' \in {delivered, [delivered EXCEPT ![d] = delivered[d] + 1]}
    BY <1>6 DEF Outbox!Handle
  <2>3. /\ [disp[e] EXCEPT !.pc = "finish"] \in Outbox!Handling
        /\ [disp[e] EXCEPT !.pc = "finish"].pc = "finish"
        /\ [disp[e] EXCEPT !.pc = "finish"].evt = d
        /\ [disp[e] EXCEPT !.pc = "finish"].batch = disp[e].batch
    BY <2>1
  <2>4. Append(queue[e], d) \in Seq(OrderIds)
    BY <1>1, <2>1, AppendQueues
  <2>5. /\ disp'[e].pc = "finish" /\ disp'[e].evt = d /\ disp'[e].batch = disp[e].batch
        /\ \A f \in Engines : f # e => disp'[f] = disp[f]
        /\ \A o \in OrderIds : o # d => delivered'[o] = delivered[o]
    BY <1>1, <2>2, <2>3
  <2> HIDE DEF d
  <2>6. queue' \in [Engines -> Seq(OrderIds)]
    BY <1>1, <2>2, <2>4
  <2>7. delivered' \in [OrderIds -> Nat]
    BY <1>1, <2>1, <2>2
  <2>8. disp' \in [Engines -> Outbox!Between \cup Outbox!Handling]
    BY <1>1, <2>2, <2>3
  <2>9. PathTypes'
    BY <1>1, <2>2, <2>6, <2>7, <2>8 DEF PathTypes
  <2>10. EventsHeld'
    BY <1>2, <2>1, <2>2, <2>5 DEF EventInv, EventsHeld, Exists, d
  <2> QED
    BY <2>9, <2>10 DEF EventInv
<1>7. CASE Outbox!Finish(e)
  <2> DEFINE d == disp[e].evt
  <2>1. disp[e] \in Outbox!Handling /\ disp[e].pc = "finish" /\ d \in OrderIds
    BY <1>1, <1>7 DEF Outbox!Finish
  <2>2. /\ outbox' = [outbox EXCEPT ![d] = "processed"]
        /\ disp' = [disp EXCEPT ![e] = [pc |-> "next", batch |-> disp[e].batch]]
        /\ UNCHANGED <<queue, delivered, faults>>
    BY <1>7 DEF Outbox!Finish, Outbox!Close
  <2>3. [pc |-> "next", batch |-> disp[e].batch] \in Outbox!Between
    BY <2>1
  <2>4. /\ disp'[e] = [pc |-> "next", batch |-> disp[e].batch]
        /\ \A f \in Engines : f # e => disp'[f] = disp[f]
        /\ \A o \in OrderIds : outbox'[o] = IF o = d THEN "processed" ELSE outbox[o]
    BY <1>1, <2>2
  <2>5. PathTypes'
    BY <1>1, <2>2, <2>3 DEF PathTypes
  <2> HIDE DEF d
  <2>6. ASSUME NEW f \in Engines
        PROVE  /\ \A p \in disp'[f].batch : outbox'[p] # "absent"
               /\ disp'[f].pc # "next" => outbox'[disp'[f].evt] \notin {"absent", "pending"}
    <3>1. /\ disp'[f].batch = disp[f].batch
          /\ disp'[f].pc # "next" => disp[f].pc # "next" /\ disp'[f].evt = disp[f].evt
      BY <2>4
    <3>2. /\ \A p \in disp[f].batch : p \in OrderIds /\ outbox[p] # "absent"
          /\ disp[f].pc # "next" =>
                disp[f].evt \in OrderIds /\ outbox[disp[f].evt] \notin {"absent", "pending"}
      BY <1>3 DEF EventInv, EventsHeld
    <3>3. \A p \in OrderIds : outbox'[p] \in {"processed", outbox[p]}
      BY <2>4
    <3> QED
      BY <3>1, <3>2, <3>3
  <2>7. EventsHeld'
    BY <1>2, <2>2, <2>4, <2>6 DEF EventInv, EventsHeld, Exists
  <2> QED
    BY <2>5, <2>7 DEF EventInv
<1> QED
  BY <1>4, <1>5, <1>6, <1>7 DEF Outbox!DispatcherStep

\* An order is inserted with its event, and the clients touch no other.
LEMMA RequestKeepsEvents ==
    ASSUME EventInv, RequestStep
    PROVE  EventInv'
<1>1. UNCHANGED <<disp, queue, delivered, faults>>
  BY RequestsLeavePath
<1>2. PICK r \in Requests :
         \/ \E o \in OrderIds : PlaceOrder(r, o)
         \/ OtherStep(r) /\ UNCHANGED outboxVars
  BY DEF RequestStep
<1>3. ASSUME NEW o \in OrderIds, PlaceOrder(r, o)
      PROVE  EventInv'
  <2>1. outbox' = [outbox EXCEPT ![o] = "pending"] /\ outbox[o] = "absent"
    BY <1>3 DEF PlaceOrder, Outbox!InsertEvent
  <2>2. \A p \in OrderIds : outbox'[p] = IF p = o THEN "pending" ELSE outbox[p]
    BY <2>1 DEF EventInv, PathTypes
  <2>3. DOMAIN orders' = DOMAIN orders \cup {o}
    BY <1>3 DEF PlaceOrder, InsertOrder, InsertRow
  <2>4. \A e \in Engines : /\ disp[e].batch \subseteq OrderIds
                          /\ disp[e].pc # "next" => disp[e].evt \in OrderIds
    BY DEF EventInv, PathTypes, Outbox!Between, Outbox!Handling
  <2>5. PathTypes'
    BY <1>1, <2>1 DEF EventInv, PathTypes, Outbox!Statuses
  <2>6. EventsHeld'
    BY <1>1, <2>1, <2>2, <2>3, <2>4 DEF EventInv, EventsHeld, Exists
  <2> QED
    BY <2>5, <2>6 DEF EventInv
<1>4. CASE OtherStep(r) /\ UNCHANGED outboxVars
  <2>1. DOMAIN orders' = DOMAIN orders
    BY <1>4 DEF OtherStep, SubmitOrder, RefuseInsert, ReadForCancel, CommitCancel, ConflictCancel,
                ReadForDestroy, DestroyRelease, DestroyUpdate, RefuseRelease, ReadForReplace,
                ValidateReplace, CommitReplace, FailReplace, RefuseReplace, Abort, WriteRow, tables
  <2> QED
    BY <1>1, <1>4, <2>1 DEF EventInv, PathTypes, EventsHeld, Exists, outboxVars
<1> QED
  BY <1>2, <1>3, <1>4

\* An engine takes orders, not events.
LEMMA EngineKeepsEvents ==
    ASSUME TypeOK, EventInv, NEW e \in Engines, EngineWork(e), UNCHANGED req
    PROVE  EventInv'
<1>1. UNCHANGED <<outbox, disp, delivered, faults>>
  BY DEF EngineWork, TakeOrder, Match, Outbox!Take, outboxVars
<1>2. [Next]_vars
  BY StepsAreTradingSteps DEF SysNext
<1>3. ASSUME NEW r \in Requests, NEW p \in OrderIds, InsertOrder(r, p)
      PROVE  FALSE
  BY <1>3, RequestKinds DEF InsertOrder, Answer, Become, TypeOK, ApiTypeOK, Idle
<1>4. DOMAIN orders' = DOMAIN orders
  BY <1>2, <1>3, RowSteps DEF RowsUpdated
<1>5. queue' \in [Engines -> Seq(OrderIds)]
  <2>1. CASE TakeOrder(e)
    <3>1. queue[e] # <<>> /\ queue' = [queue EXCEPT ![e] = Tail(queue[e])]
      BY <2>1 DEF TakeOrder, Outbox!Take
    <3>2. queue[e] \in Seq(OrderIds)
      BY DEF EventInv, PathTypes
    <3>3. Tail(queue[e]) \in Seq(OrderIds)
      BY <3>1, <3>2, TailQueues
    <3> QED
      BY <3>1, <3>3 DEF EventInv, PathTypes
  <2>2. CASE Match(e)
    BY <2>2 DEF Match, outboxVars, EventInv, PathTypes
  <2> QED
    BY <2>1, <2>2 DEF EngineWork
<1> QED
  BY <1>1, <1>4, <1>5 DEF EventInv, PathTypes, EventsHeld, Exists

\* After an exception or a crash the events are accounted for as before.
LEMMA FaultKeepsEvents ==
    ASSUME EventInv, NEW e \in Engines, ThreadFault(e) \/ ProcessCrash(e)
    PROVE  EventInv'
<1> USE DEF Outbox!Between, Outbox!Handling, Outbox!Statuses, Outbox!Go, Outbox!Asleep
<1>1. /\ outbox \in [OrderIds -> Outbox!Statuses]
      /\ disp \in [Engines -> Outbox!Between \cup Outbox!Handling]
      /\ queue \in [Engines -> Seq(OrderIds)]
      /\ delivered \in [OrderIds -> Nat]
      /\ faults \in Nat
  BY DEF EventInv, PathTypes
<1>2. faults' = faults + 1 /\ delivered' = delivered
  BY DEF ThreadFault, ProcessCrash, Outbox!Fail, Outbox!Throw, Outbox!Crash, Outbox!Close,
         Outbox!Fault
<1>3. orders' = orders
  BY DEF ThreadFault, ProcessCrash, EngineFault, vars, tables
<1>4. CASE Outbox!Fail(e)
  <2>1. /\ disp[e].pc \in {"handle", "finish"}
        /\ outbox' = [outbox EXCEPT ![disp[e].evt] = "failed"]
        /\ disp' = [disp EXCEPT ![e] = [pc |-> "next", batch |-> disp[e].batch]]
        /\ queue' = queue
    BY <1>4 DEF Outbox!Fail, Outbox!Close
  <2>2. disp[e] \in Outbox!Handling /\ disp[e].evt \in OrderIds
    BY <1>1, <2>1
  <2>3. [pc |-> "next", batch |-> disp[e].batch] \in Outbox!Between
    BY <2>2
  <2>4. PathTypes'
    BY <1>1, <1>2, <2>1, <2>2, <2>3 DEF PathTypes
  <2>5. \A o \in OrderIds : outbox'[o] \in {"failed", outbox[o]}
    BY <1>1, <2>1, <2>2
  <2>6. ASSUME NEW f \in Engines
        PROVE  /\ \A p \in disp'[f].batch : outbox'[p] # "absent"
               /\ disp'[f].pc # "next" => outbox'[disp'[f].evt] \notin {"absent", "pending"}
    <3>1. /\ disp'[f].batch = disp[f].batch
          /\ disp'[f].pc # "next" => disp[f].pc # "next" /\ disp'[f].evt = disp[f].evt
      BY <1>1, <2>1
    <3>2. /\ \A p \in disp[f].batch : p \in OrderIds /\ outbox[p] # "absent"
          /\ disp[f].pc # "next" =>
                disp[f].evt \in OrderIds /\ outbox[disp[f].evt] \notin {"absent", "pending"}
      BY <1>1 DEF EventInv, EventsHeld
    <3> QED
      BY <2>5, <3>1, <3>2
  <2>7. EventsHeld'
    BY <1>2, <1>3, <2>5, <2>6 DEF EventInv, EventsHeld, Exists
  <2> QED
    BY <2>4, <2>7 DEF EventInv
<1>5. ASSUME outbox' = outbox, queue' \in [Engines -> Seq(OrderIds)],
             disp' = disp \/ disp' = [disp EXCEPT ![e] = Outbox!Asleep]
      PROVE  EventInv'
  <2> HIDE DEF Outbox!Handling, Outbox!Statuses
  <2>1. Outbox!Asleep \in Outbox!Between
    OBVIOUS
  <2>2. disp' \in [Engines -> Outbox!Between \cup Outbox!Handling]
    <3>1. CASE disp' = disp
      BY <1>1, <3>1
    <3>2. CASE disp' = [disp EXCEPT ![e] = Outbox!Asleep]
      <4> HIDE DEF Outbox!Asleep, Outbox!Between
      <4> QED
        BY <1>1, <2>1, <3>2
    <3> QED
      BY <1>5, <3>1, <3>2
  <2>3. faults' \in Nat
    BY <1>1, <1>2
  <2>4. PathTypes'
    BY <1>1, <1>2, <1>5, <2>2, <2>3 DEF PathTypes
  <2>5. ASSUME NEW f \in Engines
        PROVE  \/ disp'[f] = disp[f]
               \/ disp'[f].pc = "next" /\ disp'[f].batch = {}
    BY <1>1, <1>5
  <2>6. EventsHeld'
    BY <1>2, <1>3, <1>5, <2>5 DEF EventInv, EventsHeld, Exists
  <2> QED
    BY <2>4, <2>6 DEF EventInv
<1>6. CASE ThreadFault(e)
  BY <1>1, <1>4, <1>5, <1>6 DEF ThreadFault, Outbox!Throw
<1>7. CASE ProcessCrash(e)
  <2>1. <<>> \in Seq(OrderIds)
    OBVIOUS
  <2> QED
    BY <1>1, <1>5, <1>7, <2>1 DEF ProcessCrash, Outbox!Crash
<1> QED
  BY <1>6, <1>7

LEMMA EventsAreKept ==
    ASSUME TypeOK, EventInv, [SysNext]_sysVars
    PROVE  EventInv'
<1>1. ASSUME NEW e \in Engines, ProcessStep(e)
      PROVE  EventInv'
  BY <1>1, EngineKeepsEvents, DispatcherKeepsEvents, FaultKeepsEvents DEF ProcessStep,
     DispatcherWork
<1>2. CASE UNCHANGED sysVars
  BY <1>2 DEF sysVars, vars, tables, outboxVars, EventInv, PathTypes, EventsHeld, Exists
<1> QED
  BY <1>1, <1>2, RequestKeepsEvents, SystemSteps

-----------------------------------------------------------------------------
(* No order is lost *)

\* What an engine has in hand stays there until the engine has looked at it, or
\* fails.
LEMMA InHandStays ==
    ASSUME TypeOK, PathTypes, [SysNext]_sysVars, NEW e \in Engines, NEW o \in OrderIds,
           InHand(e, o), StillNew(o), StillNew(o)', ~ Fails(e, o)
    PROVE  InHand(e, o)'
<1>1. queue \in [Engines -> Seq(OrderIds)]
  BY DEF PathTypes
<1>2. eng \in [Engines -> {Waiting} \cup Processing \cup Executing]
  BY DEF TypeOK, EngineTypeOK
<1>3. CASE queue'[e] = queue[e] /\ eng'[e] = eng[e]
  BY <1>3 DEF InHand, Queued
<1>4. CASE RequestStep \/ UNCHANGED sysVars
  BY <1>3, <1>4, RequestsLeavePath
<1>5. ASSUME NEW f \in Engines, ProcessStep(f), f # e
      PROVE  InHand(e, o)'
  BY <1>3, <1>5, OthersAlone
<1>6. CASE TakeOrder(e)
  <2> DEFINE h == Head(queue[e])
  <2>1. queue[e] # <<>> /\ queue' = [queue EXCEPT ![e] = Tail(queue[e])] /\ eng[e] = Waiting
    BY <1>6 DEF TakeOrder, Outbox!Take
  <2>2. Queued(queue[e]) \subseteq Queued(Tail(queue[e])) \cup {h}
    BY <1>1, <2>1, TailQueues
  <2>3. \/ eng'[e].pc = "match" /\ eng'[e].order = h
        \/ orders[h].status # "new"
    BY <1>2, <1>6 DEF TakeOrder, ReadCurrent, Proceed
  <2>4. queue'[e] = Tail(queue[e])
    BY <1>1, <2>1
  <2>5. o \in Queued(queue[e])
    BY <2>1 DEF InHand, Waiting
  <2> QED
    BY <2>2, <2>3, <2>4, <2>5 DEF InHand, Queued, StillNew
<1>7. CASE Match(e)
  <2>1. queue' = queue
    BY <1>7 DEF Match, outboxVars
  <2>2. ASSUME eng[e].pc # "wait", eng[e].order = o
        PROVE  eng'[e].pc # "wait" /\ eng'[e].order = o
    <3>1. ASSUME NEW c \in OrderIds, FindCounter(e, c)
          PROVE  eng'[e].pc # "wait" /\ eng'[e].order = o
      BY <1>2, <2>2, <3>1 DEF FindCounter, Proceed
    <3>2. CASE FindNone(e)
      <4>1. eng[e] \in Processing
        BY <1>2, <3>2 DEF FindNone, Waiting, Processing, Executing
      <4> QED
        BY <1>2, <2>2, <3>2, <4>1 DEF FindNone, Proceed, Processing
    <3>3. o \in DOMAIN orders /\ orders[o] \in RowType
      BY DEF StillNew, Exists, TypeOK, TablesTypeOK
    <3>4. ~ RestOrder(e)
      <4>1. WithStatus(orders[o], "working").status = "working"
        BY <3>3, StatusUpdates DEF OpenStatuses
      <4> QED
        BY <2>2, <3>3, <4>1 DEF RestOrder, StillNew
    <3>5. ~ ExecuteTrade(e)
      BY <2>2, <3>3, TradeEffect DEF StillNew
    <3> QED
      BY <1>7, <3>1, <3>2, <3>4, <3>5 DEF Match
  <2> QED
    BY <2>1, <2>2 DEF InHand, Queued
<1>8. CASE DispatcherWork(e)
  <2>1. eng' = eng
    BY <1>8 DEF DispatcherWork, vars
  <2>2. CASE queue'[e] = queue[e]
    BY <1>3, <2>1, <2>2
  <2>3. CASE queue'[e] # queue[e]
    <3>1. /\ disp[e].pc = "handle" /\ disp[e].evt \in OrderIds
          /\ queue' = [queue EXCEPT ![e] = Append(queue[e], disp[e].evt)]
      BY <1>8, <2>3 DEF DispatcherWork, Outbox!DispatcherStep, Outbox!Load, Outbox!Mark,
                        Outbox!Handle, Outbox!Finish, Outbox!Close
    <3>2. Queued(queue'[e]) = Queued(queue[e]) \cup {disp[e].evt}
      BY <1>1, <3>1, AppendQueues
    <3> QED
      BY <2>1, <3>2 DEF InHand, Queued
  <2> QED
    BY <2>2, <2>3
<1>9. CASE ThreadFault(e)
  <2>1. CASE (Outbox!Fail(e) \/ Outbox!Throw(e)) /\ UNCHANGED vars
    BY <1>3, <2>1 DEF Outbox!Fail, Outbox!Throw, Outbox!Close, vars
  <2>2. CASE Outbox!Fault /\ EngineFault(e) /\ queue' = queue
    BY <2>2 DEF Fails, InHand, Queued
  <2> QED
    BY <1>9, <2>1, <2>2 DEF ThreadFault
<1>10. ~ ProcessCrash(e)
  BY DEF Fails, HeldBy, InHand, Queued
<1> QED
  BY <1>4, <1>5, <1>6, <1>7, <1>8, <1>9, <1>10, SystemSteps DEF ProcessStep, EngineWork

\* A dispatcher hands the order it handles to the engine of its process, unless
\* its queue is full or it fails.
LEMMA HandledGoesOn ==
    ASSUME TypeOK, PathTypes, [SysNext]_sysVars, NEW e \in Engines, NEW o \in OrderIds,
           disp[e].pc = "handle", disp[e].evt = o, ~ Drops(e, o), ~ Fails(e, o)
    PROVE  disp'[e] = disp[e] \/ InHand(e, o)'
<1>1. CASE RequestStep \/ UNCHANGED sysVars
  BY <1>1, RequestsLeavePath
<1>2. ASSUME NEW f \in Engines, ProcessStep(f), f # e
      PROVE  disp'[e] = disp[e]
  BY <1>2, OthersAlone
<1>3. CASE EngineWork(e)
  BY <1>3 DEF EngineWork, TakeOrder, Match, Outbox!Take, outboxVars
<1>4. CASE DispatcherWork(e)
  <2>1. Outbox!Handle(e)
    BY <1>4 DEF DispatcherWork, Outbox!DispatcherStep, Outbox!Load, Outbox!Mark, Outbox!Finish,
                Outbox!Asleep
  <2>2. queue' = [queue EXCEPT ![e] = Append(queue[e], o)]
    BY <2>1 DEF Drops, Outbox!Handle
  <2>3. o \in Queued(queue'[e])
    BY <2>2, AppendQueues DEF PathTypes
  <2> QED
    BY <2>3 DEF InHand, Queued
<1>5. CASE ThreadFault(e)
  BY <1>5 DEF ThreadFault, Fails
<1>6. ~ ProcessCrash(e)
  BY DEF Fails, HeldBy
<1> QED
  BY <1>1, <1>2, <1>3, <1>4, <1>5, <1>6, SystemSteps DEF ProcessStep

\* An event that is not pending any more has been picked up by a dispatcher.
LEMMA PendingIsPickedUp ==
    ASSUME EventInv, [SysNext]_sysVars, NEW o \in OrderIds, outbox[o] = "pending"
    PROVE  \/ outbox'[o] = "pending"
           \/ \E e \in Engines : disp'[e].pc = "handle" /\ disp'[e].evt = o
<1>1. /\ outbox \in [OrderIds -> Outbox!Statuses]
      /\ disp \in [Engines -> Outbox!Between \cup Outbox!Handling]
  BY DEF EventInv, PathTypes
<1>2. CASE outbox' = outbox
  BY <1>2
<1>3. CASE UNCHANGED sysVars
  BY <1>2, <1>3 DEF sysVars, outboxVars
<1>4. CASE RequestStep
  BY <1>1, <1>4 DEF RequestStep, PlaceOrder, Outbox!InsertEvent, outboxVars
<1>5. ASSUME NEW e \in Engines, ProcessStep(e)
      PROVE  \/ outbox'[o] = "pending"
             \/ \E f \in Engines : disp'[f].pc = "handle" /\ disp'[f].evt = o
  <2>1. CASE EngineWork(e) \/ ProcessCrash(e)
    BY <1>2, <2>1 DEF EngineWork, TakeOrder, Match, Outbox!Take, outboxVars, ProcessCrash,
                      Outbox!Crash
  <2>2. CASE DispatcherWork(e)
    <3>1. ASSUME NEW d \in OrderIds, Outbox!Mark(e, d)
          PROVE  \/ outbox'[o] = "pending"
                 \/ disp'[e].pc = "handle" /\ disp'[e].evt = o
      BY <1>1, <3>1 DEF Outbox!Mark, Outbox!Go
    <3>2. CASE Outbox!Load(e) \/ Outbox!Handle(e)
      BY <1>2, <3>2 DEF Outbox!Load, Outbox!Handle
    <3>3. CASE Outbox!Finish(e)
      <4>1. outbox' = [outbox EXCEPT ![disp[e].evt] = "processed"] /\ disp[e].evt # o
        BY <3>3 DEF Outbox!Finish, Outbox!Close, EventInv, EventsHeld
      <4> QED
        BY <1>1, <4>1
    <3> QED
      BY <2>2, <3>1, <3>2, <3>3 DEF DispatcherWork, Outbox!DispatcherStep
  <2>3. CASE ThreadFault(e)
    <3>1. CASE Outbox!Fail(e)
      <4>1. outbox' = [outbox EXCEPT ![disp[e].evt] = "failed"] /\ disp[e].evt # o
        BY <3>1 DEF Outbox!Fail, Outbox!Close, EventInv, EventsHeld
      <4> QED
        BY <1>1, <4>1
    <3> QED
      BY <1>2, <2>3, <3>1 DEF ThreadFault, Outbox!Throw
  <2> QED
    BY <1>5, <2>1, <2>2, <2>3 DEF ProcessStep
<1> QED
  BY <1>3, <1>4, <1>5, SystemSteps

\* An order on its way stays on its way until it is not new any more, but for the
\* failure of whoever has it in hand.
LEMMA UnderwayStays ==
    ASSUME TypeOK, EventInv, [SysNext]_sysVars, NEW o \in OrderIds,
           StillNew(o), Underway(o), StillNew(o)',
           \A e \in Engines : ~ Drops(e, o) /\ ~ Fails(e, o)
    PROVE  Underway(o)'
<1>1. \A e \in Engines :
         (disp'[e].pc = "handle" /\ disp'[e].evt = o) \/ InHand(e, o)' => Underway(o)'
  BY DEF Underway, HeldBy, InHand, Queued
<1>2. CASE outbox[o] = "pending"
  BY <1>1, <1>2, PendingIsPickedUp DEF Underway
<1>3. ASSUME NEW e \in Engines, disp[e].pc = "handle", disp[e].evt = o
      PROVE  Underway(o)'
  BY <1>1, <1>3, HandledGoesOn DEF EventInv
<1>4. ASSUME NEW e \in Engines, InHand(e, o)
      PROVE  Underway(o)'
  BY <1>1, <1>4, InHandStays DEF EventInv
<1> QED
  BY <1>2, <1>3, <1>4 DEF Underway, HeldBy, InHand, Queued

\* A dropped order stays dropped, unless another dispatcher picks its event up
\* and finds room.
LEMMA DroppedStays ==
    ASSUME EventInv, [SysNext]_sysVars, faults' = faults, NEW o \in OrderIds, Dropped(o)
    PROVE  Underway(o)' \/ Dropped(o)'
<1>1. /\ outbox \in [OrderIds -> Outbox!Statuses]
      /\ disp \in [Engines -> Outbox!Between \cup Outbox!Handling]
      /\ delivered \in [OrderIds -> Nat]
      /\ faults \in Nat
  BY DEF EventInv, PathTypes
<1>2. CASE outbox' = outbox /\ disp' = disp /\ delivered' = delivered
  BY <1>2 DEF Dropped
<1>3. CASE UNCHANGED sysVars
  BY <1>2, <1>3 DEF sysVars, outboxVars
<1>4. CASE RequestStep
  <2>1. UNCHANGED <<disp, delivered>>
    BY <1>4, RequestsLeavePath
  <2>2. outbox[o] \notin {"absent", "pending"}
    BY DEF Dropped, EventInv, EventsHeld
  <2>3. outbox'[o] = outbox[o]
    BY <1>1, <1>4, <2>2 DEF RequestStep, PlaceOrder, Outbox!InsertEvent, outboxVars
  <2> QED
    BY <2>1, <2>3 DEF Dropped
<1>5. ASSUME NEW e \in Engines, ProcessStep(e)
      PROVE  Underway(o)' \/ Dropped(o)'
  <2>1. CASE EngineWork(e)
    BY <1>2, <2>1 DEF EngineWork, TakeOrder, Match, Outbox!Take, outboxVars
  <2>2. CASE DispatcherWork(e)
    <3>1. CASE Outbox!Load(e)
      <4>1. /\ UNCHANGED <<outbox, delivered>>
            /\ disp[e].pc = "next"
            /\ \A f \in Engines : f # e => disp'[f] = disp[f]
        BY <1>1, <3>1 DEF Outbox!Load, Outbox!Asleep, Outbox!Go
      <4> QED
        BY <4>1 DEF Dropped
    <3>2. ASSUME NEW d \in OrderIds, Outbox!Mark(e, d)
          PROVE  Underway(o)' \/ Dropped(o)'
      <4>1. /\ delivered' = delivered
            /\ disp[e].pc = "next"
            /\ disp'[e].pc = "handle" /\ disp'[e].evt = d
            /\ d # o => outbox'[o] = outbox[o]
            /\ \A f \in Engines : f # e => disp'[f] = disp[f]
        BY <1>1, <3>2 DEF Outbox!Mark, Outbox!Go
      <4> QED
        BY <4>1 DEF Dropped, Underway, HeldBy
    <3>3. CASE Outbox!Handle(e)
      <4>1. /\ disp[e].pc = "handle" /\ outbox' = outbox
            /\ \A f \in Engines : f # e => disp'[f] = disp[f]
        BY <1>1, <3>3 DEF Outbox!Handle, Outbox!Go
      <4>2. CASE delivered'[o] = delivered[o]
        BY <4>1, <4>2 DEF Dropped
      <4>3. CASE delivered'[o] # delivered[o]
        <5>1. disp[e].evt = o /\ queue' = [queue EXCEPT ![e] = Append(queue[e], o)]
          BY <1>1, <3>3, <4>3 DEF Outbox!Handle
        <5>2. o \in Queued(queue'[e])
          BY <5>1, AppendQueues DEF EventInv, PathTypes
        <5> QED
          BY <5>2 DEF Underway, HeldBy, Queued
      <4> QED
        BY <4>2, <4>3
    <3>4. CASE Outbox!Finish(e)
      <4>1. /\ disp[e].pc = "finish" /\ delivered' = delivered
            /\ outbox' = [outbox EXCEPT ![disp[e].evt] = "processed"]
            /\ \A f \in Engines : f # e => disp'[f] = disp[f]
        BY <1>1, <3>4 DEF Outbox!Finish, Outbox!Close, Outbox!Go
      <4>2. /\ disp[e].evt = o => outbox'[o] = "processed"
            /\ outbox[o] = "processed" => outbox'[o] = "processed"
        BY <1>1, <4>1
      <4> QED
        BY <4>1, <4>2 DEF Dropped
    <3> QED
      BY <2>2, <3>1, <3>2, <3>3, <3>4 DEF DispatcherWork, Outbox!DispatcherStep
  <2>3. ~ ThreadFault(e) /\ ~ ProcessCrash(e)
    BY <1>1 DEF ThreadFault, ProcessCrash, Outbox!Fail, Outbox!Throw, Outbox!Crash, Outbox!Fault
  <2> QED
    BY <1>5, <2>1, <2>2, <2>3 DEF ProcessStep
<1> QED
  BY <1>3, <1>4, <1>5, SystemSteps

\* What is delivered is in the hand of the engine it is delivered to.
LEMMA DeliveredIsQueued ==
    ASSUME PathTypes, [SysNext]_sysVars, NEW o \in OrderIds, delivered'[o] # delivered[o]
    PROVE  \E e \in Engines : InHand(e, o)'
<1>1. delivered \in [OrderIds -> Nat] /\ queue \in [Engines -> Seq(OrderIds)]
  BY DEF PathTypes
<1>2. ~ RequestStep /\ ~ UNCHANGED sysVars
  BY RequestsLeavePath
<1>3. PICK e \in Engines : ProcessStep(e)
  BY <1>2, SystemSteps
<1>4. Outbox!Handle(e)
  BY <1>3 DEF ProcessStep, EngineWork, TakeOrder, Match, Outbox!Take, outboxVars, DispatcherWork,
              Outbox!DispatcherStep, Outbox!Load, Outbox!Mark, Outbox!Finish, Outbox!Close,
              ThreadFault, Outbox!Fail, Outbox!Throw, ProcessCrash, Outbox!Crash
<1>5. disp[e].evt = o /\ queue' = [queue EXCEPT ![e] = Append(queue[e], o)]
  BY <1>1, <1>4 DEF Outbox!Handle
<1>6. o \in Queued(queue'[e])
  BY <1>1, <1>5, AppendQueues
<1> QED
  BY <1>6 DEF InHand, Queued

LEMMA PathIsKept ==
    ASSUME TypeOK, PathInv, [SysNext]_sysVars
    PROVE  PathInv'
<1>1. EventInv /\ EventInv'
  BY EventsAreKept DEF PathInv
<1>2. faults \in Nat /\ faults' \in {faults, faults + 1}
  <2>1. CASE RequestStep \/ UNCHANGED sysVars
    BY <1>1, <2>1, RequestsLeavePath DEF EventInv, PathTypes
  <2>2. ASSUME NEW e \in Engines, ProcessStep(e)
        PROVE  faults' \in {faults, faults + 1}
    <3>1. CASE EngineWork(e) \/ DispatcherWork(e)
      BY <3>1 DEF EngineWork, TakeOrder, Match, Outbox!Take, outboxVars, DispatcherWork,
                  Outbox!DispatcherStep, Outbox!Load, Outbox!Mark, Outbox!Handle, Outbox!Finish
    <3>2. CASE ThreadFault(e) \/ ProcessCrash(e)
      BY <3>2 DEF ThreadFault, Outbox!Fail, Outbox!Throw, ProcessCrash, Outbox!Crash, Outbox!Fault
    <3> QED
      BY <2>2, <3>1, <3>2 DEF ProcessStep
  <2> QED
    BY <1>1, <2>1, <2>2, SystemSteps DEF EventInv, PathTypes
<1> SUFFICES ASSUME NEW o \in OrderIds, faults' = 0, StillNew(o)'
             PROVE  /\ Underway(o)' \/ Dropped(o)'
                    /\ delivered'[o] > 0 => \E e \in Engines : InHand(e, o)'
  BY <1>1 DEF PathInv, NoOrderLost, DeliveredInHand
<1>3. faults = 0 /\ faults' = faults
  BY <1>2
<1>4. \A e \in Engines : ~ Fails(e, o)
  BY <1>2, <1>3 DEF Fails, ProcessCrash, Outbox!Fail, Outbox!Throw, Outbox!Crash, Outbox!Fault
<1>5. ASSUME NEW e \in Engines, InHand(e, o)'
      PROVE  Underway(o)'
  BY <1>5 DEF InHand, Queued, Underway, HeldBy
<1>6. ASSUME NEW r \in Requests, PlaceOrder(r, o)
      PROVE  /\ Underway(o)' \/ Dropped(o)'
             /\ delivered'[o] > 0 => \E e \in Engines : InHand(e, o)'
  <2>1. outbox[o] = "absent" /\ outbox'[o] = "pending" /\ delivered' = delivered
    BY <1>1, <1>6 DEF PlaceOrder, Outbox!InsertEvent, EventInv, PathTypes
  <2>2. ~ delivered[o] > 0
    BY <1>1, <2>1 DEF EventInv, EventsHeld
  <2> QED
    BY <2>1, <2>2 DEF Underway
<1>7. CASE StillNew(o)
  <2>1. \A e \in Engines : InHand(e, o) => InHand(e, o)'
    BY <1>1, <1>4, <1>7, InHandStays DEF EventInv
  <2>2. delivered'[o] > 0 => \E e \in Engines : InHand(e, o)'
    <3>1. CASE delivered'[o] # delivered[o]
      BY <1>1, <3>1, DeliveredIsQueued DEF EventInv
    <3>2. CASE delivered'[o] = delivered[o]
      BY <1>3, <1>7, <2>1, <3>2 DEF PathInv, DeliveredInHand
    <3> QED
      BY <3>1, <3>2
  <2>3. ASSUME Dropped(o)
        PROVE  Underway(o)' \/ Dropped(o)'
    BY <1>1, <1>3, <2>3, DroppedStays
  <2>4. ASSUME Underway(o), \A e \in Engines : ~ Drops(e, o)
        PROVE  Underway(o)'
    BY <1>1, <1>4, <1>7, <2>4, UnderwayStays
  <2>5. ASSUME NEW e \in Engines, Drops(e, o)
        PROVE  Underway(o)' \/ Dropped(o)'
    <3>1. disp'[e].pc = "finish" /\ disp'[e].evt = o
      BY <1>1, <2>5 DEF Drops, Outbox!Handle, Outbox!Go, EventInv, PathTypes, Outbox!Between,
                        Outbox!Handling
    <3>2. delivered'[o] \in Nat
      BY <1>1 DEF EventInv, PathTypes
    <3>3. delivered'[o] = 0 \/ delivered'[o] > 0
      BY <3>2
    <3> QED
      BY <1>5, <2>2, <3>1, <3>3 DEF Dropped
  <2> QED
    BY <1>3, <1>7, <2>2, <2>3, <2>4, <2>5 DEF PathInv, NoOrderLost
<1> QED
  BY <1>6, <1>7, NewOrdersArePlaced

LEMMA PathStarts == SysInit => TypeOK /\ PathInv
<1> SUFFICES ASSUME SysInit PROVE TypeOK /\ PathInv
  OBVIOUS
<1>1. TypeOK
  BY InitTyped DEF SysInit
<1>2. \A o \in OrderIds : ~ Exists(o)
  BY DEF SysInit, Init, TablesInit, Exists
<1>3. PathTypes
  <2>1. <<>> \in Seq(OrderIds)
    OBVIOUS
  <2> QED
    BY <2>1 DEF SysInit, Outbox!OutboxInit, PathTypes, Outbox!Statuses, Outbox!Between,
                Outbox!Asleep
<1>4. EventsHeld
  BY <1>2 DEF SysInit, Outbox!OutboxInit, EventsHeld, Outbox!Asleep
<1>5. NoOrderLost /\ DeliveredInHand
  BY <1>2 DEF NoOrderLost, DeliveredInHand, StillNew
<1> QED
  BY <1>1, <1>3, <1>4, <1>5 DEF PathInv, EventInv

\* Without an exception no new order is left behind, however many clients,
\* engines and processes there are; but a full queue drops the order it is given
\* and nobody notices (enqueue_order, handle_order_created).
THEOREM NewOrdersAreKept == SysSpec => []NoOrderLost
<1>1. TypeOK /\ PathInv /\ [SysNext]_sysVars => (TypeOK /\ PathInv)'
  BY PathIsKept, StepsAreTradingSteps, StepsTyped
<1> QED
  BY <1>1, PathStarts, PTL DEF SysSpec, PathInv

\* And whatever fails, however often: an exception, a crash or a full queue loses
\* what it had in hand and nothing else.
THEOREM OnlyWhatIsInHandIsLost == SysSpec => LostOnlyInHand
<1>1. TypeOK /\ PathInv /\ [SysNext]_sysVars => (TypeOK /\ PathInv)'
  BY PathIsKept, StepsAreTradingSteps, StepsTyped
<1>2. TypeOK /\ PathInv /\ [SysNext]_sysVars =>
         [\A o \in OrderIds :
             StillNew(o) /\ Underway(o) /\ StillNew(o)' /\ ~ Underway(o)'
                => \E e \in Engines : Drops(e, o) \/ Fails(e, o)]_sysVars
  BY UnderwayStays DEF PathInv
<1> QED
  BY <1>1, <1>2, PathStarts, PTL DEF SysSpec, LostOnlyInHand
=============================================================================
