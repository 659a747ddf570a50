-------------------------- MODULE OutboxDispatcher --------------------------
(***************************************************************************)
(* The outbox_events table and the threads that empty it. Every process    *)
(* that runs the application has one dispatcher, which polls the table for *)
(* pending events, and one in-memory queue, which it fills for the         *)
(* matching engine of its process. The table is shared and survives; what  *)
(* a dispatcher has loaded and what a queue holds is lost with the process.*)
(*                                                                         *)
(* An event is marked "processing" before it is handled and "processed"    *)
(* after, each in a database transaction of its own, so other dispatchers, *)
(* the engines and the end of the process come in between.                 *)
(***************************************************************************)
EXTENDS Naturals, Sequences, FiniteSets

CONSTANTS
    Events,        \* outbox_events.id; the numeric order is that of created_at
    OrderEvents,   \* the order.created events; the others are execution.report
    Processes,     \* processes of the application
    MaxPerTick,    \* events loaded at a time, 50
    MaxQueue,      \* size at which a queue drops orders, 1000
    MaxFaults      \* bound: exceptions and crashes in a behaviour

ASSUME OutboxAssumption ==
    /\ Events \subseteq Nat
    /\ OrderEvents \subseteq Events
    /\ MaxPerTick \in Nat \ {0}
    /\ MaxQueue \in Nat \ {0}
    /\ MaxFaults \in Nat

VARIABLES
    outbox,      \* status of each event, "absent" when it is not inserted yet
    disp,        \* what each dispatcher is doing
    queue,       \* orders waiting for the engine of each process
    delivered,   \* how often each event was queued or notified
    faults       \* exceptions and crashes so far

outboxVars == <<outbox, disp, queue, delivered, faults>>

Statuses == {"absent", "pending", "processing", "processed", "failed"}

\* Between two events: the rest of the batch; an empty one is sleep.
Between == [pc : {"next"}, batch : SUBSET Events]

\* Handling evt, or about to mark it processed.
Handling == [pc : {"handle", "finish"}, evt : Events, batch : SUBSET Events]

Asleep == [pc |-> "next", batch |-> {}]

OutboxTypeOK ==
    /\ outbox \in [Events -> Statuses]
    /\ disp \in [Processes -> Between \cup Handling]
    /\ queue \in [Processes -> Seq(OrderEvents)]
    /\ \A p \in Processes : Len(queue[p]) <= MaxQueue
    /\ delivered \in [Events -> Nat]
    /\ faults \in Nat

OutboxInit ==
    /\ outbox = [e \in Events |-> "absent"]
    /\ disp = [p \in Processes |-> Asleep]
    /\ queue = [p \in Processes |-> <<>>]
    /\ delivered = [e \in Events |-> 0]
    /\ faults = 0

Go(p, state) == disp' = [disp EXCEPT ![p] = state]

-----------------------------------------------------------------------------
\* OutboxEventRecord.create!, in the transaction of what the event reports.
\* Any id may be next: created_at is the clock of the inserting process.
InsertEvent(e) ==
    /\ outbox[e] = "absent"
    /\ outbox' = [outbox EXCEPT ![e] = "pending"]
    /\ UNCHANGED <<disp, queue, delivered, faults>>

\* Mutant of Pending: what another dispatcher works on is picked up as well.
PendingOrProcessing == {e \in Events : outbox[e] \in {"pending", "processing"}}

Pending == {e \in Events : outbox[e] = "pending"}

\* pending.order(:created_at).limit(MAX_PER_TICK)
IsBatch(batch) ==
    /\ batch # {} /\ Cardinality(batch) <= MaxPerTick
    /\ batch # Pending => Cardinality(batch) = MaxPerTick
    /\ \A e \in batch, d \in Pending \ batch : e < d

Load(p) ==
    /\ disp[p] = Asleep
    /\ \E batch \in SUBSET Pending :
          IsBatch(batch) /\ Go(p, [pc |-> "next", batch |-> batch])
    /\ UNCHANGED <<outbox, queue, delivered, faults>>

\* Mutant of Mark: the event stays in the batch.
MarkAndKeep(p, e) ==
    /\ disp[p].pc = "next"
    /\ e \in disp[p].batch /\ \A d \in disp[p].batch : e <= d
    /\ outbox' = [outbox EXCEPT ![e] = "processing"]
    /\ Go(p, [pc |-> "handle", evt |-> e, batch |-> disp[p].batch])
    /\ UNCHANGED <<queue, delivered, faults>>

\* Mutant of Mark: the status is left to the UPDATE after the handling.
MarkLate(p, e) ==
    /\ disp[p].pc = "next"
    /\ e \in disp[p].batch /\ \A d \in disp[p].batch : e <= d
    /\ Go(p, [pc |-> "handle", evt |-> e, batch |-> disp[p].batch \ {e}])
    /\ UNCHANGED <<outbox, queue, delivered, faults>>

\* The oldest of the batch to "processing", whatever its status is by now: the
\* UPDATE names the id alone.
Mark(p, e) ==
    /\ disp[p].pc = "next"
    /\ e \in disp[p].batch /\ \A d \in disp[p].batch : e <= d
    /\ outbox' = [outbox EXCEPT ![e] = "processing"]
    /\ Go(p, [pc |-> "handle", evt |-> e, batch |-> disp[p].batch \ {e}])
    /\ UNCHANGED <<queue, delivered, faults>>

\* Mutant of Room: the queue takes everything.
RoomUnchecked(p) == Len(queue[p]) >= 0

\* enqueue_order takes the order, or drops it and the caller does not look.
Room(p) == Len(queue[p]) < MaxQueue

\* handle_order_created, or handle_execution_report, which rescues all it does.
Handle(p) ==
    LET e == disp[p].evt IN
    /\ disp[p].pc = "handle"
    /\ IF e \in OrderEvents /\ Room(p)
       THEN queue' = [queue EXCEPT ![p] = Append(@, e)]
       ELSE UNCHANGED queue
    /\ IF e \in OrderEvents => Room(p)
       THEN delivered' = [delivered EXCEPT ![e] = @ + 1]
       ELSE UNCHANGED delivered
    /\ Go(p, [disp[p] EXCEPT !.pc = "finish"])
    /\ UNCHANGED <<outbox, faults>>

Close(p, status) ==
    /\ outbox' = [outbox EXCEPT ![disp[p].evt] = status]
    /\ Go(p, [pc |-> "next", batch |-> disp[p].batch])
    /\ UNCHANGED <<queue, delivered>>

Finish(p) ==
    /\ disp[p].pc = "finish"
    /\ Close(p, "processed")
    /\ UNCHANGED faults

DispatcherStep(p) ==
    Load(p) \/ (\E e \in Events : Mark(p, e)) \/ Handle(p) \/ Finish(p)

-----------------------------------------------------------------------------
\* Mutant of Take: the last order stays in the queue.
TakeButLast(p) ==
    /\ Len(queue[p]) > 1
    /\ queue' = [queue EXCEPT ![p] = Tail(@)]
    /\ UNCHANGED <<outbox, disp, delivered, faults>>

\* The engine of the process pops the oldest order.
Take(p) ==
    /\ queue[p] # <<>>
    /\ queue' = [queue EXCEPT ![p] = Tail(@)]
    /\ UNCHANGED <<outbox, disp, delivered, faults>>

-----------------------------------------------------------------------------
Fault ==
    /\ faults < MaxFaults
    /\ faults' = faults + 1

\* Mutant of Fail: the rescue is around the batch, all of which is "failed".
FailBatch(p) ==
    /\ disp[p].pc \in {"handle", "finish"}
    /\ outbox' = [e \in Events |->
          IF e \in disp[p].batch \cup {disp[p].evt} THEN "failed" ELSE outbox[e]]
    /\ Go(p, Asleep)
    /\ UNCHANGED <<queue, delivered>>
    /\ Fault

\* An exception while the event is handled, before or after it took effect:
\* rescued, and the event is "failed".
Fail(p) ==
    /\ disp[p].pc \in {"handle", "finish"}
    /\ Close(p, "failed")
    /\ Fault

\* An exception from an UPDATE that nobody in the batch rescues: run starts over
\* with a new batch, and the event stays as it is.
Throw(p) ==
    /\ disp[p] # Asleep
    /\ Go(p, Asleep)
    /\ Fault
    /\ UNCHANGED <<outbox, queue, delivered>>

\* The process ends and is started again.
Crash(p) ==
    /\ disp' = [disp EXCEPT ![p] = Asleep]
    /\ queue' = [queue EXCEPT ![p] = <<>>]
    /\ Fault
    /\ UNCHANGED <<outbox, delivered>>

OutboxNext ==
    \/ \E e \in Events : InsertEvent(e)
    \/ \E p \in Processes :
          DispatcherStep(p) \/ Take(p) \/ Fail(p) \/ Throw(p) \/ Crash(p)

\* Dispatchers are threads of their own that poll for ever.
OutboxFairness == \A p \in Processes : WF_outboxVars(DispatcherStep(p))

OutboxSpec == OutboxInit /\ [][OutboxNext]_outboxVars /\ OutboxFairness

-----------------------------------------------------------------------------
\* No event is handled while it is still pending. This is why a crash or an
\* exception between the effect and the last UPDATE never repeats an event: the
\* next poll does not find it.
MarkedBeforeDelivered ==
    \A e \in Events : delivered[e] > 0 => outbox[e] \notin {"absent", "pending"}

\* With one process an event is delivered at most once, whatever fails and
\* however often the process restarts.
DeliveredOnce == \A e \in Events : delivered[e] <= 1

\* With one process an event in a final status stays there, and nothing puts an
\* event back to pending.
Progressing(old, new) ==
    \/ old = new
    \/ old = "absent" /\ new = "pending"
    \/ old = "pending" /\ new = "processing"
    \/ old = "processing" /\ new \in {"processed", "failed"}

StatusesProgress == [][\A e \in Events : Progressing(outbox[e], outbox'[e])]_outboxVars

\* Every event is picked up, however many older and newer events, dispatchers,
\* exceptions and restarts there are.
PendingIsServed == \A e \in Events : outbox[e] = "pending" ~> outbox[e] # "pending"

=============================================================================
