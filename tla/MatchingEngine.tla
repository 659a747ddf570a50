--------------------------- MODULE MatchingEngine ---------------------------
(***************************************************************************)
(* The worker thread of MatchingEngine, one in every process that runs the *)
(* application. It takes one order at a time through process(): load the   *)
(* order, look for an opposing one, then either put the order to "working" *)
(* or execute a trade. Each of these is a database access of its own, so   *)
(* request threads and other engines run in between, and the engine goes   *)
(* on with the rows as it loaded them.                                     *)
(*                                                                         *)
(* Which orders reach an engine, when and how often is the outbox's part:  *)
(* here any order may be handed to any engine at any time.                 *)
(***************************************************************************)
EXTENDS Tables

CONSTANT Engines   \* matching threads, one per process

VARIABLE eng       \* what each engine is doing

engineVars == <<tables, eng>>

Waiting == [pc |-> "wait"]

\* order is the one being processed and seen its row as loaded.
Processing == [pc : {"match", "rest"}, order : OrderIds, seen : RowType]

\* A counterparty was found: counter, and its row as loaded.
Executing == [pc : {"trade"}, order : OrderIds, seen : RowType,
            counter : OrderIds, counterSeen : RowType]

EngineTypeOK == eng \in [Engines -> {Waiting} \cup Processing \cup Executing]

EngineInit == eng = [e \in Engines |-> Waiting]

Proceed(e, state) == eng' = [eng EXCEPT ![e] = state]

\* Mutant of ReadCurrent: an order is processed whatever its status.
ReadAnyStatus(e, o) ==
    /\ eng[e] = Waiting
    /\ Exists(o)
    /\ Proceed(e, [pc |-> "match", order |-> o, seen |-> orders[o]])
    /\ UNCHANGED tables

\* Load the order; one that is not "new" is dropped.
ReadCurrent(e, o) ==
    /\ eng[e] = Waiting
    /\ Exists(o) /\ orders[o].status = "new"
    /\ Proceed(e, [pc |-> "match", order |-> o, seen |-> orders[o]])
    /\ UNCHANGED tables

\* The candidates are rows as they are now; form is that of the order as loaded.
Candidates(o, form) ==
    {c \in DOMAIN orders \ {o} : Opposes(form, orders[c])}

\* The oldest candidate.
FindCounter(e, c) ==
    LET w == eng[e] IN
    /\ w.pc = "match"
    /\ c \in Candidates(w.order, w.seen.form)
    /\ \A d \in Candidates(w.order, w.seen.form) : c <= d
    /\ Proceed(e, [pc |-> "trade", order |-> w.order, seen |-> w.seen,
                   counter |-> c, counterSeen |-> orders[c]])
    /\ UNCHANGED tables

FindNone(e) ==
    LET w == eng[e] IN
    /\ w.pc = "match"
    /\ Candidates(w.order, w.seen.form) = {}
    /\ Proceed(e, [w EXCEPT !.pc = "rest"])
    /\ UNCHANGED tables

\* update_status(current, 'working'), whatever became of the order meanwhile.
RestOrder(e) ==
    LET w == eng[e] IN
    /\ w.pc = "rest"
    /\ orders' = [orders EXCEPT ![w.order] = WithStatus(@, "working")]
    /\ Proceed(e, Waiting)
    /\ UNCHANGED <<funds, executions, bought>>

Buyer(w)  == IF w.seen.form.direction = "buy" THEN w.seen.account ELSE w.counterSeen.account
Price(w)  == TradePrice(w.seen.form, w.counterSeen.form)
Amount(w) == w.seen.form.quantity * Price(w)

\* The transaction of a trade: both rows to "filled" whatever they are now, the
\* buyer's reserve charged with quantity and price of the rows as loaded, and
\* one trade row for each order.
ExecuteTrade(e) ==
    LET w == eng[e] IN
    /\ w.pc = "trade"
    /\ orders' = [orders EXCEPT ![w.order]   = WithStatus(@, "filled"),
                                ![w.counter] = WithStatus(@, "filled")]
    /\ commit_reserved_funds(Buyer(w), Amount(w))
    /\ executions' = [executions EXCEPT ![w.order] = @ + 1, ![w.counter] = @ + 1]
    /\ bought' = [bought EXCEPT ![Buyer(w)] = @ + Amount(w)]
    /\ Proceed(e, Waiting)

\* An exception, or the end of the process: the transaction in flight is rolled
\* back, the thread goes on with its next order and never returns to this one.
EngineFault(e) ==
    /\ eng[e] # Waiting
    /\ Proceed(e, Waiting)
    /\ UNCHANGED tables

EngineStep(e) ==
    \/ \E o \in OrderIds : ReadCurrent(e, o)
    \/ \E c \in OrderIds : FindCounter(e, c)
    \/ FindNone(e)
    \/ RestOrder(e)
    \/ ExecuteTrade(e)
    \/ EngineFault(e)
=============================================================================
