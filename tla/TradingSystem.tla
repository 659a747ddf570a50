---------------------------- MODULE TradingSystem ----------------------------
(***************************************************************************)
(* The order path with its hand-off: an order is inserted together with its *)
(* order.created event, the dispatcher of some process queues it, and the   *)
(* engine of that process takes it from the queue. Trading hands any order  *)
(* to any engine at any time; this system is shown to implement it, so what *)
(* is checked and proved of Trading holds here.                             *)
(*                                                                          *)
(* The order.created event of an order is named by the order. The events    *)
(* execution.report that the engine writes go the same way through the      *)
(* table and change none of this state; they are left out here.             *)
(***************************************************************************)
EXTENDS Trading, Sequences

CONSTANTS MaxPerTick, MaxQueue, MaxFaults

VARIABLES outbox, disp, queue, delivered, faults

Outbox == INSTANCE OutboxDispatcher
          WITH Events <- OrderIds, OrderEvents <- OrderIds, Processes <- Engines

outboxVars == <<outbox, disp, queue, delivered, faults>>
sysVars == <<vars, outboxVars>>

SysInit == Init /\ Outbox!OutboxInit

\* Mutant of PlaceOrder: the order is inserted and no event with it.
PlaceOrderOnly(r, o) == InsertOrder(r, o) /\ UNCHANGED outboxVars

\* The row and its event in one transaction.
PlaceOrder(r, o) == InsertOrder(r, o) /\ Outbox!InsertEvent(o)

\* Mutant of TakeOrder: the status of an order taken from the queue is not
\* looked at.
TakeOrderUnchecked(e) ==
    /\ eng[e] = Waiting
    /\ Outbox!Take(e)
    /\ LET o == Head(queue[e]) IN
       Proceed(e, [pc |-> "match", order |-> o, seen |-> orders[o]])
    /\ UNCHANGED tables

\* Pop an order; one that is not "new" any more is dropped.
TakeOrder(e) ==
    /\ eng[e] = Waiting
    /\ Outbox!Take(e)
    /\ LET o == Head(queue[e]) IN
       \/ ReadCurrent(e, o)
       \/ orders[o].status # "new" /\ UNCHANGED <<tables, eng>>

\* The engine goes on with the order it took.
Match(e) ==
    /\ \/ \E c \in OrderIds : FindCounter(e, c)
       \/ FindNone(e)
       \/ RestOrder(e)
       \/ ExecuteTrade(e)
    /\ UNCHANGED outboxVars

EngineWork(e) == TakeOrder(e) \/ Match(e)

DispatcherWork(e) == Outbox!DispatcherStep(e) /\ UNCHANGED vars

\* An exception in the dispatcher or in the engine.
ThreadFault(e) ==
    \/ (Outbox!Fail(e) \/ Outbox!Throw(e)) /\ UNCHANGED vars
    \/ Outbox!Fault /\ EngineFault(e) /\ UNCHANGED <<req, outbox, disp, queue, delivered>>

\* The end of a process. Its requests may abort at any time, so a crash need
\* not name them.
ProcessCrash(e) ==
    /\ Outbox!Crash(e)
    /\ Proceed(e, Waiting)
    /\ UNCHANGED <<tables, req>>

SysNext ==
    \/ \E r \in Requests :
          /\ \/ \E o \in OrderIds : PlaceOrder(r, o)
             \/ OtherStep(r) /\ UNCHANGED outboxVars
          /\ UNCHANGED eng
    \/ \E e \in Engines :
          \/ EngineWork(e) /\ UNCHANGED req
          \/ DispatcherWork(e) \/ ThreadFault(e) \/ ProcessCrash(e)

\* The engine and the dispatcher are threads of every process that loop for
\* ever. Nothing is assumed of the clients and of the request threads.
SysFairness ==
    \A e \in Engines :
       /\ WF_sysVars(EngineWork(e) /\ UNCHANGED req)
       /\ WF_sysVars(DispatcherWork(e))

SysSpec == SysInit /\ [][SysNext]_sysVars /\ SysFairness

-----------------------------------------------------------------------------
\* The system implements Trading: the outbox, the queues, exceptions and crashes
\* hand out orders in no way that Trading does not allow.
ImplementsTrading == Spec

\* An order that somebody has in hand: a dispatcher handles its event, it is in a
\* queue, or an engine works on it.
HeldBy(e, o) ==
    \/ disp[e].pc = "handle" /\ disp[e].evt = o
    \/ o \in {queue[e][i] : i \in DOMAIN queue[e]}
    \/ eng[e].pc # "wait" /\ eng[e].order = o

\* An order that is on its way to an engine: its event is to be dispatched, or
\* somebody has it in hand.
Underway(o) == outbox[o] = "pending" \/ \E e \in Engines : HeldBy(e, o)

StillNew(o) == Exists(o) /\ orders[o].status = "new"

\* A full queue drops the order that it is given.
Drops(e, o) == Outbox!Handle(e) /\ disp[e].evt = o /\ ~ Outbox!Room(e)

\* An exception in the dispatcher or in the engine, or the end of the process,
\* while it has the order in hand.
Fails(e, o) ==
    \/ (Outbox!Fail(e) \/ Outbox!Throw(e)) /\ disp[e].pc = "handle" /\ disp[e].evt = o
    \/ Outbox!Fault /\ EngineFault(e) /\ eng[e].order = o
    \/ ProcessCrash(e) /\ HeldBy(e, o)

\* What fails loses only what it had in hand: an exception the one order it is
\* about, a full queue the order it is given, a crash what its process had taken.
\* What is pending, what is left of a batch, what is queued, and what other
\* processes work on stays on its way until somebody has looked at it.
LostOnlyInHand ==
    [][\A o \in OrderIds :
          StillNew(o) /\ Underway(o) /\ StillNew(o)' /\ ~ Underway(o)'
             => \E e \in Engines : Drops(e, o) \/ Fails(e, o)]_sysVars

\* A full queue dropped the order and its event went through all the same: it is
\* about to be, or is, "processed" though no engine was given the order.
Dropped(o) ==
    /\ delivered[o] = 0
    /\ \/ outbox[o] = "processed"
       \/ \E e \in Engines : disp[e].pc = "finish" /\ disp[e].evt = o

\* As long as nothing has failed, a new order is never left behind: while nobody
\* has looked at it, it is on its way to somebody who will, or a queue was full.
NoOrderLost ==
    \A o \in OrderIds : faults = 0 /\ StillNew(o) => Underway(o) \/ Dropped(o)

\* Every order comes out of "new" unless a thread or a process fails or the queue
\* is full, while clients go on placing orders and the engines may meet it as
\* somebody's counterparty.
OrdersLeaveNew ==
    \A o \in OrderIds : StillNew(o) ~> ~ StillNew(o) \/ faults > 0 \/ Dropped(o)
=============================================================================
