---------------------------- MODULE OutboxProofs ----------------------------
(***************************************************************************)
(* Theorems about OutboxDispatcher for any number of events, batch and     *)
(* queue sizes, exceptions and restarts.                                   *)
(***************************************************************************)
EXTENDS OutboxDispatcher, TLAPS

USE DEF Between, Handling, Asleep, Go, Statuses

-----------------------------------------------------------------------------
(* Types *)

\* Every step leaves the variables well typed and the queues within MaxQueue.
LEMMA OutboxTyped ==
    ASSUME OutboxTypeOK, [OutboxNext]_outboxVars
    PROVE  OutboxTypeOK'
<1> USE OutboxAssumption DEF OutboxTypeOK
<1>1. ASSUME NEW e \in Events, InsertEvent(e)
      PROVE  OutboxTypeOK'
  BY <1>1 DEF InsertEvent
<1>2. ASSUME NEW p \in Processes, Load(p)
      PROVE  OutboxTypeOK'
  <2>1. PICK batch \in SUBSET Pending : Go(p, [pc |-> "next", batch |-> batch])
    BY <1>2 DEF Load
  <2>2. batch \in SUBSET Events
    BY <2>1 DEF Pending
  <2>3. [pc |-> "next", batch |-> batch] \in Between
    BY <2>2
  <2> QED
    BY <1>2, <2>1, <2>3 DEF Load
<1>3. ASSUME NEW p \in Processes, NEW e \in Events, Mark(p, e)
      PROVE  OutboxTypeOK'
  <2>1. [pc |-> "handle", evt |-> e, batch |-> disp[p].batch \ {e}] \in Handling
    BY <1>3 DEF Mark
  <2> QED
    BY <1>3, <2>1 DEF Mark
<1>4. ASSUME NEW p \in Processes, Handle(p)
      PROVE  OutboxTypeOK'
  <2>1. disp[p] \in Handling
    BY <1>4 DEF Handle
  <2>2. [disp[p] EXCEPT !.pc = "finish"] \in Handling
    BY <2>1
  <2> DEFINE e == disp[p].evt
  <2>3. e \in Events
    BY <2>1
  <2>4. delivered' \in [Events -> Nat]
    <3>1. CASE e \in OrderEvents => Room(p)
      <4>1. delivered' = [delivered EXCEPT ![e] = delivered[e] + 1]
        BY <1>4, <3>1 DEF Handle
      <4> HIDE DEF e
      <4>2. delivered[e] + 1 \in Nat
        BY <2>3
      <4> QED
        BY <4>1, <4>2
    <3>2. CASE ~ (e \in OrderEvents => Room(p))
      BY <1>4, <3>2 DEF Handle
    <3> QED
      BY <3>1, <3>2
  <2>5. queue' \in [Processes -> Seq(OrderEvents)]
        /\ \A q \in Processes : Len(queue'[q]) <= MaxQueue
    <3>1. CASE e \in OrderEvents /\ Room(p)
      <4>1. queue' = [queue EXCEPT ![p] = Append(@, e)]
        BY <1>4, <3>1 DEF Handle
      <4>2. queue[p] \in Seq(OrderEvents) /\ Len(queue[p]) < MaxQueue
        BY <3>1 DEF Room
      <4>3. /\ Append(queue[p], e) \in Seq(OrderEvents)
            /\ Len(Append(queue[p], e)) = Len(queue[p]) + 1
        BY <3>1, <4>2
      <4>4. Len(queue[p]) \in Nat
        BY <4>2
      <4>5. Len(Append(queue[p], e)) <= MaxQueue
        BY <4>2, <4>3, <4>4
      <4> QED
        BY <4>1, <4>3, <4>5
    <3>2. CASE ~ (e \in OrderEvents /\ Room(p))
      BY <1>4, <3>2 DEF Handle
    <3> QED
      BY <3>1, <3>2
  <2> QED
    BY <1>4, <2>2, <2>4, <2>5 DEF Handle
<1>5. ASSUME NEW p \in Processes, NEW status \in Statuses, Close(p, status),
             disp[p].pc \in {"handle", "finish"}, faults' \in Nat
      PROVE  OutboxTypeOK'
  <2>1. disp[p] \in Handling
    BY <1>5
  <2>2. [pc |-> "next", batch |-> disp[p].batch] \in Between
    BY <2>1
  <2> QED
    BY <1>5, <2>1, <2>2 DEF Close
<1>6. ASSUME NEW p \in Processes, Finish(p) \/ Fail(p)
      PROVE  OutboxTypeOK'
  BY <1>5, <1>6 DEF Finish, Fail, Fault
<1>7. ASSUME NEW p \in Processes, Take(p)
      PROVE  OutboxTypeOK'
  <2>1. queue[p] \in Seq(OrderEvents) /\ queue[p] # <<>>
    BY <1>7 DEF Take
  <2>2. Tail(queue[p]) \in Seq(OrderEvents) /\ Len(Tail(queue[p])) <= Len(queue[p])
    BY <2>1
  <2> QED
    BY <1>7, <2>2 DEF Take
<1>8. ASSUME NEW p \in Processes, Throw(p) \/ Crash(p)
      PROVE  OutboxTypeOK'
  <2>1. Asleep \in Between
    OBVIOUS
  <2>2. <<>> \in Seq(OrderEvents) /\ Len(<<>>) = 0
    OBVIOUS
  <2>3. CASE Throw(p)
    BY <1>8, <2>1, <2>3 DEF Throw, Fault
  <2>4. CASE Crash(p)
    <3>1. disp' \in [Processes -> Between \cup Handling]
      BY <2>1, <2>4 DEF Crash
    <3>2. queue' = [queue EXCEPT ![p] = <<>>]
      BY <2>4 DEF Crash
    <3>3. queue' \in [Processes -> Seq(OrderEvents)]
      BY <2>2, <3>2
    <3>4. \A q \in Processes : Len(queue'[q]) <= MaxQueue
      BY <2>2, <3>2
    <3> QED
      BY <2>4, <3>1, <3>3, <3>4 DEF Crash, Fault
  <2> QED
    BY <1>8, <2>3, <2>4
<1>9. CASE UNCHANGED outboxVars
  BY <1>9 DEF outboxVars
<1> QED
  BY <1>1, <1>2, <1>3, <1>4, <1>6, <1>7, <1>8, <1>9 DEF OutboxNext, DispatcherStep

\* The variables keep their types and no queue grows beyond MaxQueue.
THEOREM OutboxTypes == OutboxSpec => []OutboxTypeOK
<1>1. OutboxInit => OutboxTypeOK
  <2>1. <<>> \in Seq(OrderEvents) /\ Len(<<>>) = 0
    OBVIOUS
  <2> QED
    BY <2>1, OutboxAssumption DEF OutboxInit, OutboxTypeOK
<1> QED
  BY <1>1, OutboxTyped, PTL DEF OutboxSpec

-----------------------------------------------------------------------------
(* Any number of processes *)

\* A dispatcher in the middle of an event has marked it, and what it has loaded
\* is in the table.
HeldInv ==
    \A p \in Processes :
       /\ disp[p].pc \in {"handle", "finish"} =>
             outbox[disp[p].evt] \notin {"absent", "pending"}
       /\ \A e \in disp[p].batch : outbox[e] # "absent"

\* No step takes an event back to absent or pending, or delivers one that is.
LEMMA MarkedSteps ==
    ASSUME OutboxTypeOK, HeldInv, MarkedBeforeDelivered, [OutboxNext]_outboxVars
    PROVE  HeldInv' /\ MarkedBeforeDelivered'
<1> USE DEF OutboxTypeOK, HeldInv, MarkedBeforeDelivered
<1>1. ASSUME NEW e \in Events, InsertEvent(e)
      PROVE  HeldInv' /\ MarkedBeforeDelivered'
  BY <1>1 DEF InsertEvent
<1>2. ASSUME NEW p \in Processes, Load(p)
      PROVE  HeldInv' /\ MarkedBeforeDelivered'
  BY <1>2 DEF Load, Pending
<1>3. ASSUME NEW p \in Processes, NEW e \in Events, Mark(p, e)
      PROVE  HeldInv' /\ MarkedBeforeDelivered'
  BY <1>3 DEF Mark
<1>4. ASSUME NEW p \in Processes, Handle(p)
      PROVE  HeldInv' /\ MarkedBeforeDelivered'
  <2>1. disp[p] \in Handling
    BY <1>4 DEF Handle
  <2> QED
    BY <1>4, <2>1 DEF Handle
<1>5. ASSUME NEW p \in Processes, NEW status \in {"processed", "failed"}, Close(p, status),
             disp[p].pc \in {"handle", "finish"}
      PROVE  HeldInv' /\ MarkedBeforeDelivered'
  <2>1. disp[p] \in Handling
    BY <1>5
  <2> QED
    BY <1>5, <2>1 DEF Close
<1>6. ASSUME NEW p \in Processes, Finish(p) \/ Fail(p)
      PROVE  HeldInv' /\ MarkedBeforeDelivered'
  BY <1>5, <1>6 DEF Finish, Fail
<1>7. ASSUME NEW p \in Processes, Take(p) \/ Throw(p) \/ Crash(p)
      PROVE  HeldInv' /\ MarkedBeforeDelivered'
  <2>1. UNCHANGED <<outbox, delivered>>
    BY <1>7 DEF Take, Throw, Crash
  <2>2. disp' = disp \/ disp' = [disp EXCEPT ![p] = Asleep]
    BY <1>7 DEF Take, Throw, Crash
  <2>3. ASSUME NEW q \in Processes
        PROVE  disp'[q] = disp[q] \/ disp'[q] = Asleep
    BY <2>2
  <2>4. MarkedBeforeDelivered'
    BY <2>1
  <2>5. ASSUME NEW q \in Processes
        PROVE  /\ disp'[q].pc \in {"handle", "finish"} =>
                     outbox'[disp'[q].evt] \notin {"absent", "pending"}
               /\ \A e \in disp'[q].batch : outbox'[e] # "absent"
    <3>1. CASE disp'[q] = disp[q]
      BY <2>1, <3>1
    <3>2. CASE disp'[q] = Asleep
      BY <3>2
    <3> QED
      BY <2>3, <3>1, <3>2
  <2> QED
    BY <2>4, <2>5
<1>8. CASE UNCHANGED outboxVars
  BY <1>8 DEF outboxVars
<1> QED
  BY <1>1, <1>2, <1>3, <1>4, <1>6, <1>7, <1>8 DEF OutboxNext, DispatcherStep

\* With any number of processes, whatever fails: an event that took effect is
\* out of the reach of every later poll.
THEOREM MarkedFirst == OutboxSpec => []MarkedBeforeDelivered
<1>1. OutboxInit => HeldInv /\ MarkedBeforeDelivered
  BY DEF OutboxInit, HeldInv, MarkedBeforeDelivered
<1> QED
  BY <1>1, OutboxTypes, MarkedSteps, PTL DEF OutboxSpec

-----------------------------------------------------------------------------
(* One process *)

\* What the only dispatcher has loaded is pending until it marks it, and what it
\* is about to handle has not been delivered.
OnceInv ==
    /\ DeliveredOnce
    /\ \A p \in Processes :
          /\ \A e \in disp[p].batch : outbox[e] = "pending"
          /\ disp[p].pc \in {"handle", "finish"} => outbox[disp[p].evt] = "processing"
          /\ disp[p].pc = "handle" => delivered[disp[p].evt] = 0

\* Every step of the only process keeps the invariant, and moves each event one
\* status on at most.
LEMMA OnceSteps ==
    ASSUME NEW s, Processes = {s}, OutboxTypeOK, MarkedBeforeDelivered, OnceInv,
           [OutboxNext]_outboxVars
    PROVE  /\ OnceInv'
           /\ \A e \in Events : Progressing(outbox[e], outbox'[e])
<1> DEFINE Good == OnceInv' /\ \A e \in Events : Progressing(outbox[e], outbox'[e])
<1> USE DEF OutboxTypeOK, MarkedBeforeDelivered, OnceInv, DeliveredOnce, Progressing
<1>1. ASSUME NEW e \in Events, InsertEvent(e)
      PROVE  Good
  BY <1>1 DEF InsertEvent
<1>2. ASSUME NEW p \in Processes, Load(p)
      PROVE  Good
  BY <1>2 DEF Load, Pending
<1>3. ASSUME NEW p \in Processes, NEW e \in Events, Mark(p, e)
      PROVE  Good
  <2>1. outbox[e] = "pending" /\ delivered[e] = 0
    BY <1>3 DEF Mark
  <2> QED
    BY <1>3, <2>1 DEF Mark
<1>4. ASSUME NEW p \in Processes, Handle(p)
      PROVE  Good
  <2>1. disp[p] \in Handling
    BY <1>4 DEF Handle
  <2> QED
    BY <1>4, <2>1 DEF Handle
<1>5. ASSUME NEW p \in Processes, NEW status \in {"processed", "failed"}, Close(p, status),
             disp[p].pc \in {"handle", "finish"}
      PROVE  Good
  <2>1. disp[p] \in Handling
    BY <1>5
  <2> QED
    BY <1>5, <2>1 DEF Close
<1>6. ASSUME NEW p \in Processes, Finish(p) \/ Fail(p)
      PROVE  Good
  BY <1>5, <1>6 DEF Finish, Fail
<1>7. ASSUME NEW p \in Processes, Take(p) \/ Throw(p) \/ Crash(p)
      PROVE  Good
  BY <1>7 DEF Take, Throw, Crash
<1>8. CASE UNCHANGED outboxVars
  BY <1>8 DEF outboxVars
<1> QED
  BY <1>1, <1>2, <1>3, <1>4, <1>6, <1>7, <1>8 DEF OutboxNext, DispatcherStep

\* With one process an event is delivered at most once, through any exceptions
\* and restarts.
THEOREM AtMostOnce ==
    ASSUME NEW s, Processes = {s}
    PROVE  OutboxSpec => []DeliveredOnce
<1>1. OutboxInit => OnceInv
  BY DEF OutboxInit, OnceInv, DeliveredOnce
<1>2. OnceInv => DeliveredOnce
  BY DEF OnceInv
<1>3. OutboxTypeOK /\ MarkedBeforeDelivered /\ OnceInv /\ [OutboxNext]_outboxVars => OnceInv'
  BY OnceSteps
<1> QED
  BY <1>1, <1>2, <1>3, OutboxTypes, MarkedFirst, PTL DEF OutboxSpec

\* With one process every event goes from pending over processing to processed
\* or failed, and never back.
THEOREM StatusesOnlyProgress ==
    ASSUME NEW s, Processes = {s}
    PROVE  OutboxSpec => StatusesProgress
<1>1. OutboxInit => OnceInv
  BY DEF OutboxInit, OnceInv, DeliveredOnce
<1>2. OutboxTypeOK /\ MarkedBeforeDelivered /\ OnceInv /\ [OutboxNext]_outboxVars => OnceInv'
  BY OnceSteps
<1>3. OutboxTypeOK /\ MarkedBeforeDelivered /\ OnceInv /\ [OutboxNext]_outboxVars
      => [\A e \in Events : Progressing(outbox[e], outbox'[e])]_outboxVars
  BY OnceSteps
<1> QED
  BY <1>1, <1>2, <1>3, OutboxTypes, MarkedFirst, PTL DEF OutboxSpec, StatusesProgress
=============================================================================
