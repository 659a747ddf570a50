------------------------------ MODULE Deposits ------------------------------
(***************************************************************************)
(* POST /deposits: DepositFundsUseCase and the save of a whole portfolio.  *)
(* One database transaction, but the portfolio is read in it without a     *)
(* lock, credited in memory, read again by save, and the columns that      *)
(* differ from the second reading are written. READ COMMITTED lets other   *)
(* transactions commit between all of these, so each reading is a step.    *)
(*                                                                         *)
(* An amount out of bounds, and a replay of a settled key, are answered    *)
(* without any change and need no action.                                  *)
(***************************************************************************)
EXTENDS Tables

CONSTANTS
    Depositors,        \* request threads that deposit
    IdempotencyKeys,   \* values of the Idempotency-Key header
    Amounts,           \* amounts clients send
    MinAmount,         \* MIN_AMOUNT, 1.0
    MaxAmount,         \* MAX_AMOUNT, 100000.0
    MaxDeposited       \* bound: what the deposits of an account add up to

ASSUME DepositAssumption ==
    /\ NoKey \notin IdempotencyKeys
    /\ Amounts \subseteq Nat
    /\ MinAmount \in Nat \ {0} /\ MaxAmount \in Nat /\ MaxDeposited \in Nat

VARIABLES
    dep,        \* what each depositing thread is doing
    credits,    \* settled deposits of each account under each key
    deposited   \* sum of the settled deposits of each account

depositVars == <<dep, credits, deposited>>

NoDeposit == [pc |-> "idle"]

\* The key was not found; the transaction row is inserted but not committed.
Depositing == [pc : {"insert", "read"}, account : Accounts, amount : Nat,
               key : IdempotencyKeys \cup {NoKey}]

\* seen is the portfolio as find_by_account_id returned it.
Crediting == [pc : {"find"}, account : Accounts, amount : Nat,
              key : IdempotencyKeys \cup {NoKey},
              seen : [available : Nat, reserved : Nat]]

\* fresh is the portfolio as save found it.
Saving == [pc : {"save"}, account : Accounts, amount : Nat,
           key : IdempotencyKeys \cup {NoKey},
           seen : [available : Nat, reserved : Nat],
           fresh : [available : Nat, reserved : Nat]]

DepositsTypeOK ==
    /\ dep \in [Depositors -> {NoDeposit} \cup Depositing \cup Crediting \cup Saving]
    /\ credits \in [Accounts -> [IdempotencyKeys -> Nat]]
    /\ deposited \in [Accounts -> Nat]

DepositsInit ==
    /\ dep = [d \in Depositors |-> NoDeposit]
    /\ credits = [a \in Accounts |-> [k \in IdempotencyKeys |-> 0]]
    /\ deposited = [a \in Accounts |-> 0]

Continue(d, state) == dep' = [dep EXCEPT ![d] = state]

Balances(a) == [available |-> available[a], reserved |-> reserved[a]]

-----------------------------------------------------------------------------
ValidAmount(n) == n >= MinAmount /\ n <= MaxAmount

\* A committed transaction of the account has the key.
KeyUsed(account, key) == key # NoKey /\ credits[account][key] > 0

\* A valid deposit whose key is not found.
CheckKey(d, account, amount, key) ==
    /\ dep[d] = NoDeposit
    /\ ValidAmount(amount)
    /\ ~ KeyUsed(account, key)
    /\ deposited[account] + amount <= MaxDeposited
    /\ Continue(d, [pc |-> "insert", account |-> account, amount |-> amount, key |-> key])
    /\ UNCHANGED <<tables, credits, deposited>>

\* An inserted row with the key waits for its commit.
KeyPending(account, key) ==
    /\ key # NoKey
    /\ \E c \in Depositors :
          /\ dep[c].pc \in {"read", "find", "save"}
          /\ dep[c].account = account /\ dep[c].key = key

\* Mutant of InsertTransaction: no unique index.
InsertAnyway(d) ==
    /\ dep[d].pc = "insert"
    /\ Continue(d, [dep[d] EXCEPT !.pc = "read"])
    /\ UNCHANGED <<tables, credits, deposited>>

\* create! of the transaction row: the unique index makes it wait for whoever
\* has inserted the key.
InsertTransaction(d) ==
    /\ dep[d].pc = "insert"
    /\ ~ KeyUsed(dep[d].account, dep[d].key)
    /\ ~ KeyPending(dep[d].account, dep[d].key)
    /\ Continue(d, [dep[d] EXCEPT !.pc = "read"])
    /\ UNCHANGED <<tables, credits, deposited>>

\* RecordNotUnique once that deposit has committed.
RefuseDuplicate(d) ==
    /\ dep[d].pc = "insert"
    /\ KeyUsed(dep[d].account, dep[d].key)
    /\ Continue(d, NoDeposit)
    /\ UNCHANGED <<tables, credits, deposited>>

\* find_by_account_id, without a lock.
ReadPortfolio(d) ==
    LET p == dep[d] IN
    /\ p.pc = "read"
    /\ Continue(d, [pc |-> "find", account |-> p.account, amount |-> p.amount,
                    key |-> p.key, seen |-> Balances(p.account)])
    /\ UNCHANGED <<tables, credits, deposited>>

\* find_or_initialize_by in save, without a lock.
FindRecord(d) ==
    LET p == dep[d] IN
    /\ p.pc = "find"
    /\ Continue(d, [pc |-> "save", account |-> p.account, amount |-> p.amount,
                    key |-> p.key, seen |-> p.seen, fresh |-> Balances(p.account)])
    /\ UNCHANGED <<tables, credits, deposited>>

\* Mutant of Written: every column is written.
WrittenAlways(new, fresh, now) == new

\* The column after the UPDATE: written when the new value differs from what
\* save found, left as it is now otherwise.
Written(new, fresh, now) == IF new # fresh THEN new ELSE now

\* UPDATE and COMMIT; the transaction row becomes visible as settled.
CommitDeposit(d) ==
    LET p == dep[d]
        a == p.account
    IN
    /\ p.pc = "save"
    /\ available' = [available EXCEPT ![a] =
                       Written(p.seen.available + p.amount, p.fresh.available, @)]
    /\ reserved' = [reserved EXCEPT ![a] =
                      Written(p.seen.reserved, p.fresh.reserved, @)]
    /\ credits' = IF p.key = NoKey THEN credits
                  ELSE [credits EXCEPT ![a][p.key] = @ + 1]
    /\ deposited' = [deposited EXCEPT ![a] = @ + p.amount]
    /\ Continue(d, NoDeposit)
    /\ UNCHANGED <<orders, spent, executions, bought>>

\* An exception or the end of the process rolls the transaction back.
AbortDeposit(d) ==
    /\ dep[d] # NoDeposit
    /\ Continue(d, NoDeposit)
    /\ UNCHANGED <<tables, credits, deposited>>

DepositStep(d) ==
    \/ \E account \in Accounts, amount \in Amounts, key \in IdempotencyKeys \cup {NoKey} :
          CheckKey(d, account, amount, key)
    \/ InsertTransaction(d)
    \/ RefuseDuplicate(d)
    \/ ReadPortfolio(d)
    \/ FindRecord(d)
    \/ CommitDeposit(d)
    \/ AbortDeposit(d)
=============================================================================
