------------------------------- MODULE Tables -------------------------------
(***************************************************************************)
(* The PostgreSQL tables the request handlers and the matching engine      *)
(* share, and the repository operations on them. A repository operation is *)
(* a step of its own when the code runs it in a transaction of its own, and *)
(* a conjunct of its caller's step when the caller's transaction joins it. *)
(*                                                                         *)
(* A database transaction that reads under FOR UPDATE or updates under     *)
(* lock_version holds those row locks until it commits, so its effect is   *)
(* that of one step taken at the commit.                                   *)
(***************************************************************************)
EXTENDS BrokerData

CONSTANT InitialFunds   \* available_balance of each account at the start

ASSUME FundsAssumption == InitialFunds \in [Accounts -> Nat]

VARIABLES
    orders,      \* orders table: a row for each id in the domain
    available,   \* portfolios.available_balance of each account
    reserved,    \* portfolios.reserved_balance of each account
    spent,       \* total commit_reserved_funds took out of each account
    executions,  \* trades table: number of rows for each order
    bought       \* portfolio_transactions: value of each account's buy trades

tables == <<orders, available, reserved, spent, executions, bought>>
funds  == <<available, reserved, spent>>

TablesTypeOK ==
    /\ DOMAIN orders \subseteq OrderIds
    /\ orders \in [DOMAIN orders -> RowType]
    /\ available \in [Accounts -> Nat]
    /\ reserved \in [Accounts -> Nat]
    /\ spent \in [Accounts -> Nat]
    /\ executions \in [OrderIds -> Nat]
    /\ bought \in [Accounts -> Nat]

\* Funded portfolios and an empty book.
TablesInit ==
    /\ orders = [o \in {} |-> 0]
    /\ available = InitialFunds
    /\ reserved = [a \in Accounts |-> 0]
    /\ spent = [a \in Accounts |-> 0]
    /\ executions = [o \in OrderIds |-> 0]
    /\ bought = [a \in Accounts |-> 0]

Exists(o) == o \in DOMAIN orders

\* Mutant of Current: the UPDATE does not name the version it expects.
CurrentUnchecked(o, seen) == orders[o].lock_version >= seen.lock_version

\* A row was read and no commit has updated it since: the condition under which
\* UPDATE ... WHERE lock_version = <the version read> finds it.
Current(o, seen) == orders[o].lock_version = seen.lock_version

\* create: any id may be next, for created_at is the clock of whichever process
\* inserts and two processes need not agree.
InsertRow(o, row) ==
    /\ ~ Exists(o)
    /\ orders' = [p \in DOMAIN orders \cup {o} |-> IF p = o THEN row ELSE orders[p]]

\* save! or update! of row o: the fields change and lock_version grows by one.
WriteRow(o, row) ==
    orders' = [orders EXCEPT ![o] =
                 [row EXCEPT !.lock_version = orders[o].lock_version + 1]]

\* Mutant of WithStatus: the status is updated behind the back of lock_version.
WithStatusOnly(row, status) == [row EXCEPT !.status = status]

\* update_status on one row: it loads the row afresh, so whatever state the
\* row is in, the status is replaced; writing the status the row has already
\* is no UPDATE at all and leaves lock_version alone.
WithStatus(row, status) ==
    IF row.status = status
    THEN row
    ELSE [row EXCEPT !.status = status, !.lock_version = row.lock_version + 1]

\* Mutant of CanRelease: the reserve is not looked at before it is debited.
CanReleaseUnchecked(a, amount) == amount >= 0

CanReserve(a, amount) == available[a] >= amount
CanRelease(a, amount) == reserved[a] >= amount

reserve_funds(a, amount) ==
    /\ CanReserve(a, amount)
    /\ available' = [available EXCEPT ![a] = @ - amount]
    /\ reserved' = [reserved EXCEPT ![a] = @ + amount]
    /\ UNCHANGED spent

\* Mutant of release_funds: the reserve is not debited.
CreditOnly(a, amount) ==
    /\ CanRelease(a, amount)
    /\ available' = [available EXCEPT ![a] = @ + amount]
    /\ UNCHANGED <<reserved, spent>>

release_funds(a, amount) ==
    /\ CanRelease(a, amount)
    /\ reserved' = [reserved EXCEPT ![a] = @ - amount]
    /\ available' = [available EXCEPT ![a] = @ + amount]
    /\ UNCHANGED spent

\* Mutant of commit_reserved_funds: the trade takes all there is in the reserve.
CommitWholeReserve(a, amount) ==
    /\ UNCHANGED available
    /\ reserved' = [reserved EXCEPT ![a] = 0]
    /\ spent' = [spent EXCEPT ![a] = @ + reserved[a]]

\* What the engine makes of commit_reserved_funds: it rescues the error a
\* too small reserve raises and goes on with the trade.
commit_reserved_funds(a, amount) ==
    /\ UNCHANGED available
    /\ IF CanRelease(a, amount)
       THEN /\ reserved' = [reserved EXCEPT ![a] = @ - amount]
            /\ spent' = [spent EXCEPT ![a] = @ + amount]
       ELSE UNCHANGED <<reserved, spent>>
=============================================================================
