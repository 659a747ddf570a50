--------------------------- MODULE FundingProofs ---------------------------
(***************************************************************************)
(* Proofs about Funding, for any number of depositing threads next to any  *)
(* number of request threads and engines.                                  *)
(***************************************************************************)
EXTENDS Funding, TradingProofs

\* What a depositing thread holds, by its program counter.
LEMMA DepositKinds ==
    ASSUME DepositsTypeOK, NEW d \in Depositors
    PROVE  /\ dep[d] = NoDeposit <=> dep[d].pc = "idle"
           /\ dep[d].pc \in {"insert", "read"} => dep[d] \in Depositing
           /\ dep[d].pc = "find" => dep[d] \in Crediting
           /\ dep[d].pc = "save" => dep[d] \in Saving
           /\ dep[d].pc \in {"idle", "insert", "read", "find", "save"}
BY DEF DepositsTypeOK, NoDeposit, Depositing, Crediting, Saving

-----------------------------------------------------------------------------
(* Type correctness *)

\* A commit keeps the balances natural numbers: it writes sums and copies of
\* balances, never differences.
LEMMA CommitTyped ==
    ASSUME FundTypeOK, NEW d \in Depositors, CommitDeposit(d)
    PROVE  /\ TablesTypeOK'
           /\ DepositsTypeOK'
<1> DEFINE p == dep[d]
           a == p.account
<1>1. /\ a \in Accounts /\ p.amount \in Nat /\ p.key \in IdempotencyKeys \cup {NoKey}
      /\ p.seen \in [available : Nat, reserved : Nat]
      /\ p.fresh \in [available : Nat, reserved : Nat]
  BY DepositKinds DEF CommitDeposit, FundTypeOK, Saving
<1>2. \A new, fresh, now \in Nat : Written(new, fresh, now) \in Nat
  BY DEF Written
<1>3. available \in [Accounts -> Nat] /\ reserved \in [Accounts -> Nat]
  BY DEF FundTypeOK, TypeOK, TablesTypeOK
<1>4. available' \in [Accounts -> Nat]
  <2>1. Written(p.seen.available + p.amount, p.fresh.available, available[a]) \in Nat
    <3>1. /\ p.seen.available + p.amount \in Nat /\ p.fresh.available \in Nat
          /\ available[a] \in Nat
      BY <1>1, <1>3
    <3> QED
      BY <1>2, <3>1
  <2> QED
    BY <1>1, <1>3, <2>1 DEF CommitDeposit
<1>5. reserved' \in [Accounts -> Nat]
  <2>1. Written(p.seen.reserved, p.fresh.reserved, reserved[a]) \in Nat
    <3>1. p.seen.reserved \in Nat /\ p.fresh.reserved \in Nat /\ reserved[a] \in Nat
      BY <1>1, <1>3
    <3> QED
      BY <1>2, <3>1
  <2> QED
    BY <1>1, <1>3, <2>1 DEF CommitDeposit
<1>6. TablesTypeOK'
  BY <1>4, <1>5 DEF CommitDeposit, FundTypeOK, TypeOK, TablesTypeOK
<1>7. credits' \in [Accounts -> [IdempotencyKeys -> Nat]]
  <2>1. credits \in [Accounts -> [IdempotencyKeys -> Nat]]
    BY DEF FundTypeOK, DepositsTypeOK
  <2>2. CASE p.key = NoKey
    BY <2>1, <2>2 DEF CommitDeposit
  <2>3. CASE p.key \in IdempotencyKeys
    <3>1. credits' = [credits EXCEPT ![a][p.key] = @ + 1]
      BY <2>3, DepositAssumption DEF CommitDeposit
    <3> QED
      BY <1>1, <2>1, <2>3, <3>1
  <2> QED
    BY <1>1, <2>2, <2>3
<1>8. deposited' \in [Accounts -> Nat]
  BY <1>1 DEF CommitDeposit, FundTypeOK, DepositsTypeOK
<1>9. dep' \in [Depositors -> {NoDeposit} \cup Depositing \cup Crediting \cup Saving]
  BY DEF CommitDeposit, Continue, FundTypeOK, DepositsTypeOK
<1> QED
  BY <1>6, <1>7, <1>8, <1>9 DEF DepositsTypeOK

\* So does every other step of a depositing thread; it touches no table.
LEMMA DepositsTyped ==
    ASSUME FundTypeOK, NEW d \in Depositors, DepositStep(d), UNCHANGED <<req, eng>>
    PROVE  FundTypeOK'
<1> USE DEF DepositsTypeOK
<1>1. CASE CommitDeposit(d)
  BY <1>1, CommitTyped DEF FundTypeOK, TypeOK, ApiTypeOK, EngineTypeOK
<1>2. CASE ~ CommitDeposit(d)
  <2>1. UNCHANGED <<tables, credits, deposited>>
    BY <1>2 DEF DepositStep, CheckKey, InsertTransaction, RefuseDuplicate, ReadPortfolio,
                FindRecord, AbortDeposit
  <2>2. TypeOK'
    BY <2>1 DEF FundTypeOK, TypeOK, tables, TablesTypeOK, ApiTypeOK, EngineTypeOK
  <2> DEFINE Held == {NoDeposit} \cup Depositing \cup Crediting \cup Saving
  <2>3. dep \in [Depositors -> Held]
    BY DEF FundTypeOK
  <2>4. \E state \in Held : Continue(d, state)
    <3>1. ASSUME NEW account \in Accounts, NEW amount \in Amounts,
                 NEW key \in IdempotencyKeys \cup {NoKey}, CheckKey(d, account, amount, key)
          PROVE  \E state \in Held : Continue(d, state)
      <4>1. [pc |-> "insert", account |-> account, amount |-> amount, key |-> key] \in Depositing
        BY DepositAssumption DEF Depositing
      <4> QED
        BY <3>1, <4>1 DEF CheckKey
    <3>2. CASE InsertTransaction(d)
      <4>1. dep[d] \in Depositing
        BY <3>2, DepositKinds DEF InsertTransaction, FundTypeOK
      <4>2. [dep[d] EXCEPT !.pc = "read"] \in Depositing
        BY <4>1 DEF Depositing
      <4> QED
        BY <3>2, <4>2 DEF InsertTransaction
    <3>3. CASE RefuseDuplicate(d) \/ AbortDeposit(d)
      BY <3>3 DEF RefuseDuplicate, AbortDeposit
    <3>4. ASSUME NEW a \in Accounts
          PROVE  Balances(a) \in [available : Nat, reserved : Nat]
      BY DEF Balances, FundTypeOK, TypeOK, TablesTypeOK
    <3>5. CASE ReadPortfolio(d)
      <4> DEFINE p == dep[d]
                 state == [pc |-> "find", account |-> p.account, amount |-> p.amount,
                           key |-> p.key, seen |-> Balances(p.account)]
      <4>1. p \in Depositing
        BY <3>5, DepositKinds DEF ReadPortfolio, FundTypeOK
      <4>2. state \in Crediting
        BY <3>4, <4>1 DEF Depositing, Crediting
      <4>3. Continue(d, state)
        BY <3>5 DEF ReadPortfolio
      <4> QED
        BY <4>2, <4>3
    <3>6. CASE FindRecord(d)
      <4> DEFINE p == dep[d]
                 state == [pc |-> "save", account |-> p.account, amount |-> p.amount,
                           key |-> p.key, seen |-> p.seen, fresh |-> Balances(p.account)]
      <4>1. p \in Crediting
        BY <3>6, DepositKinds DEF FindRecord, FundTypeOK
      <4>2. state \in Saving
        BY <3>4, <4>1 DEF Crediting, Saving
      <4>3. Continue(d, state)
        BY <3>6 DEF FindRecord
      <4> QED
        BY <4>2, <4>3
    <3> QED
      BY <1>2, <3>1, <3>2, <3>3, <3>5, <3>6 DEF DepositStep
  <2>5. dep' \in [Depositors -> Held]
    BY <2>3, <2>4 DEF Continue
  <2> QED
    BY <2>1, <2>2, <2>5 DEF FundTypeOK
<1> QED
  BY <1>1, <1>2

\* Deposits that overlap with anything keep every balance a natural number.
THEOREM FundTypes == FundSpec => []FundTypeOK
<1>1. FundInit => FundTypeOK
  BY InitTyped DEF FundInit, DepositsInit, FundTypeOK, DepositsTypeOK
<1>2. FundTypeOK /\ [FundNext]_fundVars => FundTypeOK'
  <2> SUFFICES ASSUME FundTypeOK, [FundNext]_fundVars PROVE FundTypeOK'
    OBVIOUS
  <2>1. CASE Next /\ UNCHANGED depositVars
    BY <2>1, StepsTyped DEF FundTypeOK, depositVars, DepositsTypeOK
  <2>2. ASSUME NEW d \in Depositors, DepositStep(d), UNCHANGED <<req, eng>>
        PROVE  FundTypeOK'
    BY <2>2, DepositsTyped
  <2>3. CASE UNCHANGED fundVars
    BY <2>3, StepsTyped DEF fundVars, depositVars, FundTypeOK, DepositsTypeOK
  <2> QED
    BY <2>1, <2>2, <2>3 DEF FundNext
<1> QED
  BY <1>1, <1>2, PTL DEF FundSpec

-----------------------------------------------------------------------------
(* Idempotency *)

KeyInv == KeyCreditedOnce /\ KeyHeldOnce

\* The threads whose transaction row is inserted and not committed.
InsertedStates == {"read", "find", "save"}

LEMMA KeyStep ==
    ASSUME FundTypeOK, KeyInv, NEW d \in Depositors, DepositStep(d)
    PROVE  KeyInv'
<1> USE DEF FundTypeOK, DepositsTypeOK
<1>1. CASE InsertTransaction(d)
  <2>1. /\ dep' = [dep EXCEPT ![d] = [dep[d] EXCEPT !.pc = "read"]]
        /\ UNCHANGED credits
        /\ dep[d] \in Depositing
        /\ ~ KeyUsed(dep[d].account, dep[d].key)
        /\ ~ KeyPending(dep[d].account, dep[d].key)
    BY <1>1, DepositKinds DEF InsertTransaction, Continue
  <2>2. /\ dep'[d].pc = "read" /\ dep'[d].account = dep[d].account /\ dep'[d].key = dep[d].key
        /\ \A c \in Depositors \ {d} : dep'[c] = dep[c]
    BY <2>1 DEF Depositing
  <2>3. dep[d].key # NoKey => credits[dep[d].account][dep[d].key] = 0
    BY <2>1 DEF KeyUsed, Depositing
  <2>4. KeyHeldOnce'
    <3> SUFFICES ASSUME NEW c \in Depositors, dep'[c].pc \in InsertedStates, dep'[c].key # NoKey
                 PROVE  /\ credits[dep'[c].account][dep'[c].key] = 0
                        /\ \A e \in Depositors \ {c} :
                              dep'[e].pc \in InsertedStates =>
                                 dep'[e].account # dep'[c].account \/ dep'[e].key # dep'[c].key
      BY <2>1 DEF KeyHeldOnce, InsertedStates
    <3>1. CASE c = d
      BY <2>1, <2>2, <2>3, <3>1 DEF KeyPending, InsertedStates
    <3>2. CASE c # d
      BY <2>1, <2>2, <3>2 DEF KeyInv, KeyHeldOnce, KeyPending, InsertedStates
    <3> QED
      BY <3>1, <3>2
  <2> QED
    BY <2>1, <2>4 DEF KeyInv, KeyCreditedOnce
<1>2. CASE CommitDeposit(d)
  <2>1. /\ dep' = [dep EXCEPT ![d] = NoDeposit]
        /\ dep[d] \in Saving /\ dep[d].pc = "save"
        /\ credits' = IF dep[d].key = NoKey THEN credits
                      ELSE [credits EXCEPT ![dep[d].account][dep[d].key] = @ + 1]
    BY <1>2, DepositKinds DEF CommitDeposit, Continue
  <2>2. /\ dep'[d].pc = "idle"
        /\ \A c \in Depositors \ {d} : dep'[c] = dep[c]
    BY <2>1 DEF NoDeposit
  <2>3. CASE dep[d].key = NoKey
    BY <2>1, <2>2, <2>3 DEF KeyInv, KeyCreditedOnce, KeyHeldOnce
  <2>4. CASE dep[d].key # NoKey
    <3> DEFINE a == dep[d].account
               k == dep[d].key
    <3>1. a \in Accounts /\ k \in IdempotencyKeys /\ credits[a][k] = 0
      BY <2>1, <2>4 DEF Saving, KeyInv, KeyHeldOnce
    <3>2. /\ credits'[a][k] = 1
          /\ \A b \in Accounts, j \in IdempotencyKeys :
                b # a \/ j # k => credits'[b][j] = credits[b][j]
      BY <2>1, <2>4, <3>1
    <3>3. KeyCreditedOnce'
      BY <3>1, <3>2 DEF KeyInv, KeyCreditedOnce
    <3>4. ASSUME NEW c \in Depositors, dep'[c].pc \in InsertedStates, dep'[c].key # NoKey
          PROVE  /\ credits'[dep'[c].account][dep'[c].key] = 0
                 /\ \A e \in Depositors \ {c} :
                       dep'[e].pc \in InsertedStates =>
                          dep'[e].account # dep'[c].account \/ dep'[e].key # dep'[c].key
      <4>1. c # d /\ dep'[c] = dep[c]
        BY <2>2, <3>4 DEF InsertedStates
      <4>2. dep[c].account \in Accounts /\ dep[c].key \in IdempotencyKeys
        BY <3>4, <4>1, DepositKinds DEF InsertedStates, Depositing, Crediting, Saving
      <4>3. dep[c].account # a \/ dep[c].key # k
        BY <2>1, <2>4, <3>4, <4>1 DEF KeyInv, KeyHeldOnce, InsertedStates
      <4>4. credits[dep[c].account][dep[c].key] = 0
        BY <3>4, <4>1 DEF KeyInv, KeyHeldOnce, InsertedStates
      <4>5. \A e \in Depositors \ {c} :
               dep'[e].pc \in InsertedStates =>
                  dep'[e].account # dep'[c].account \/ dep'[e].key # dep'[c].key
        BY <2>2, <3>4, <4>1 DEF KeyInv, KeyHeldOnce, InsertedStates
      <4> QED
        BY <3>2, <4>1, <4>2, <4>3, <4>4, <4>5
    <3>5. KeyHeldOnce'
      BY <3>4 DEF KeyHeldOnce, InsertedStates
    <3> QED
      BY <3>3, <3>5 DEF KeyInv
  <2> QED
    BY <2>3, <2>4
<1>3. CASE ReadPortfolio(d) \/ FindRecord(d)
  <2>1. /\ UNCHANGED credits
        /\ \A c \in Depositors \ {d} : dep'[c] = dep[c]
        /\ dep[d].pc \in InsertedStates /\ dep'[d].pc \in InsertedStates
        /\ dep'[d].account = dep[d].account /\ dep'[d].key = dep[d].key
    BY <1>3 DEF ReadPortfolio, FindRecord, Continue, InsertedStates
  <2>2. \A c \in Depositors : /\ dep'[c].pc \in InsertedStates <=> dep[c].pc \in InsertedStates
                              /\ dep'[c].pc \in InsertedStates =>
                                    dep'[c].account = dep[c].account /\ dep'[c].key = dep[c].key
    BY <2>1
  <2> QED
    BY <2>1, <2>2 DEF KeyInv, KeyCreditedOnce, KeyHeldOnce, InsertedStates
<1>4. CASE \/ RefuseDuplicate(d) \/ AbortDeposit(d)
           \/ \E account \in Accounts, amount \in Amounts, key \in IdempotencyKeys \cup {NoKey} :
                 CheckKey(d, account, amount, key)
  <2>1. /\ UNCHANGED credits
        /\ \A c \in Depositors \ {d} : dep'[c] = dep[c]
        /\ dep'[d].pc \notin InsertedStates
    BY <1>4 DEF RefuseDuplicate, AbortDeposit, CheckKey, Continue, NoDeposit, InsertedStates
  <2> QED
    BY <2>1 DEF KeyInv, KeyCreditedOnce, KeyHeldOnce, InsertedStates
<1> QED
  BY <1>1, <1>2, <1>3, <1>4 DEF DepositStep

LEMMA KeysAreKept == FundSpec => []KeyInv
<1>1. FundInit => KeyInv
  BY DEF FundInit, DepositsInit, KeyInv, KeyCreditedOnce, KeyHeldOnce, NoDeposit
<1>2. FundTypeOK /\ KeyInv /\ [FundNext]_fundVars => KeyInv'
  <2> SUFFICES ASSUME FundTypeOK, KeyInv, [FundNext]_fundVars PROVE KeyInv'
    OBVIOUS
  <2>1. CASE UNCHANGED depositVars
    BY <2>1 DEF depositVars, KeyInv, KeyCreditedOnce, KeyHeldOnce
  <2> QED
    BY <2>1, KeyStep DEF FundNext, fundVars
<1> QED
  BY <1>1, <1>2, FundTypes, PTL DEF FundSpec

\* The unique index makes the second deposit with a key wait for the first, and
\* what it then finds keeps it from crediting: once per key, for any number of
\* copies of the request in flight or sent again later.
THEOREM CreditedOnce == FundSpec => []KeyCreditedOnce
<1>1. KeyInv => KeyCreditedOnce
  BY DEF KeyInv
<1> QED
  BY <1>1, KeysAreKept, PTL

\* Of the deposits with one key at most one is between its insertion and its
\* commit, and none once the key is credited.
THEOREM HeldOnce == FundSpec => []KeyHeldOnce
<1>1. KeyInv => KeyHeldOnce
  BY DEF KeyInv
<1> QED
  BY <1>1, KeysAreKept, PTL

-----------------------------------------------------------------------------
(* Balances *)

\* A step of the order path leaves the surplus of every account as it is.
LEMMA TradingKeepsSurplus ==
    ASSUME FundTypeOK, [Next]_vars, UNCHANGED depositVars, NEW a \in Accounts
    PROVE  Surplus(a)' = Surplus(a)
<1>1. FundsStep
  BY FundsSteps DEF FundTypeOK
<1>2. available'[a] + reserved'[a] + spent'[a] = available[a] + reserved[a] + spent[a]
  BY <1>1 DEF FundsStep, FundTypeOK, TypeOK, TablesTypeOK, reserve_funds, release_funds,
              commit_reserved_funds, CanReserve, CanRelease, funds
<1>3. /\ available'[a] \in Nat /\ reserved'[a] \in Nat /\ spent'[a] \in Nat
      /\ available[a] \in Nat /\ reserved[a] \in Nat /\ spent[a] \in Nat
      /\ InitialFunds[a] \in Nat /\ deposited[a] \in Nat
  BY StepsTyped, FundsAssumption DEF FundTypeOK, TypeOK, TablesTypeOK, DepositsTypeOK
<1>4. deposited' = deposited
  BY DEF depositVars
<1> QED
  BY <1>2, <1>3, <1>4 DEF Surplus

\* So does a commit that was not disturbed.
LEMMA UndisturbedAddsUp ==
    ASSUME FundTypeOK, NEW d \in Depositors, CommitDeposit(d), Undisturbed(dep[d]),
           NEW a \in Accounts
    PROVE  Surplus(a)' = Surplus(a)
<1> DEFINE p == dep[d]
<1>1. /\ p.account \in Accounts /\ p.amount \in Nat
      /\ p.seen \in [available : Nat, reserved : Nat]
      /\ p.fresh \in [available : Nat, reserved : Nat]
  BY DepositKinds DEF CommitDeposit, FundTypeOK, Saving
<1>2. /\ available \in [Accounts -> Nat] /\ reserved \in [Accounts -> Nat]
      /\ spent \in [Accounts -> Nat] /\ deposited \in [Accounts -> Nat]
      /\ InitialFunds \in [Accounts -> Nat]
  BY FundsAssumption DEF FundTypeOK, TypeOK, TablesTypeOK, DepositsTypeOK
<1>3. available' = [available EXCEPT ![p.account] = @ + p.amount]
  <2>1. Written(p.seen.available + p.amount, p.fresh.available, available[p.account])
           = available[p.account] + p.amount
    BY <1>1, <1>2 DEF Undisturbed, Written
  <2> QED
    BY <2>1 DEF CommitDeposit
<1>4. reserved' = reserved
  <2>1. Written(p.seen.reserved, p.fresh.reserved, reserved[p.account]) = reserved[p.account]
    BY DEF Undisturbed, Written
  <2> QED
    BY <1>2, <2>1 DEF CommitDeposit
<1>5. deposited' = [deposited EXCEPT ![p.account] = @ + p.amount] /\ spent' = spent
  BY DEF CommitDeposit
<1>6. CASE a = p.account
  BY <1>1, <1>2, <1>3, <1>4, <1>5, <1>6 DEF Surplus
<1>7. CASE a # p.account
  BY <1>1, <1>2, <1>3, <1>4, <1>5, <1>7 DEF Surplus
<1> QED
  BY <1>6, <1>7

\* Of all the steps of all the threads, only the commit of a deposit that was
\* disturbed can make an account's money differ from what it was given.
THEOREM OnlyDisturbedErr == FundSpec => OnlyDisturbedDepositsErr
<1> DEFINE Kept == \/ \A a \in Accounts : Surplus(a)' = Surplus(a)
                   \/ \E d \in Depositors : CommitDeposit(d) /\ ~ Undisturbed(dep[d])
<1>1. FundTypeOK /\ [FundNext]_fundVars => [Kept]_fundVars
  <2> SUFFICES ASSUME FundTypeOK, FundNext PROVE Kept
    OBVIOUS
  <2>1. CASE Next /\ UNCHANGED depositVars
    BY <2>1, TradingKeepsSurplus
  <2>2. ASSUME NEW d \in Depositors, DepositStep(d)
        PROVE  Kept
    <3>1. CASE CommitDeposit(d)
      BY <3>1, UndisturbedAddsUp
    <3>2. CASE ~ CommitDeposit(d)
      BY <2>2, <3>2 DEF DepositStep, CheckKey, InsertTransaction, RefuseDuplicate,
                        ReadPortfolio, FindRecord, AbortDeposit, tables, Surplus
    <3> QED
      BY <3>1, <3>2
  <2> QED
    BY <2>1, <2>2 DEF FundNext
<1> QED
  BY <1>1, FundTypes, PTL DEF FundSpec, OnlyDisturbedDepositsErr

-----------------------------------------------------------------------------
(* Deposits and the reserve *)

\* The commit of a deposit between whose two readings the reserve was moved: it
\* finds the column different from what it holds, and writes that over it.
RevertsReserve(d) == CommitDeposit(d) /\ dep[d].seen.reserved # dep[d].fresh.reserved

\* A deposit writes no row and, but for that commit, no reserve.
LEMMA DepositsLeaveGap ==
    ASSUME FundTypeOK, NEW d \in Depositors, DepositStep(d), ~ RevertsReserve(d),
           NEW a \in Accounts
    PROVE  Gap(a)' = Gap(a)
<1>1. UNCHANGED orders
  BY DEF DepositStep, CheckKey, InsertTransaction, RefuseDuplicate, ReadPortfolio, FindRecord,
         CommitDeposit, AbortDeposit, tables
<1>2. UNCHANGED reserved
  <2>1. CASE CommitDeposit(d)
    <3>1. Written(dep[d].seen.reserved, dep[d].fresh.reserved, reserved[dep[d].account])
            = reserved[dep[d].account]
      BY <2>1 DEF RevertsReserve, Written
    <3> QED
      BY <2>1, <3>1 DEF CommitDeposit, FundTypeOK, TypeOK, TablesTypeOK
  <2>2. CASE ~ CommitDeposit(d)
    BY <2>2 DEF DepositStep, CheckKey, InsertTransaction, RefuseDuplicate, ReadPortfolio,
                FindRecord, AbortDeposit, tables
  <2> QED
    BY <2>1, <2>2
<1> QED
  BY <1>1, <1>2, GapOfNoChange

\* So handlers and engines hold what they held.
LEMMA FundsKeepTheBook ==
    ASSUME FundTypeOK, FundTypeOK', OptimisticLock, BookInv, [FundNext]_fundVars
    PROVE  OptimisticLock' /\ BookInv'
<1>1. CASE [Next]_vars
  BY <1>1, LockStep, BookStep DEF FundTypeOK
<1>2. ASSUME NEW d \in Depositors, DepositStep(d), UNCHANGED <<req, eng>>
      PROVE  OptimisticLock' /\ BookInv'
  <2>1. UNCHANGED orders
    BY <1>2 DEF DepositStep, CheckKey, InsertTransaction, RefuseDuplicate, ReadPortfolio,
                FindRecord, CommitDeposit, AbortDeposit, tables
  <2>2. OptimisticLock'
    BY <1>2, <2>1 DEF OptimisticLock, Holds, Exists, Current
  <2>3. RowsSound' /\ HeldSides' /\ CrossedInv'
    BY <1>2, <2>1 DEF BookInv, RowsSound, HeldSides, SameSide, Exists, CrossedInv
  <2> QED
    BY <2>2, <2>3 DEF BookInv
<1> QED
  BY <1>1, <1>2 DEF FundNext, fundVars

\* Next to deposits too the reserve of an account and the amounts its open orders
\* have reserved move together in every step but the leaks of the order path and
\* the commit of a deposit between whose two readings the reserve was moved: what
\* happens to the reserve before the first reading or after the second is kept.
THEOREM DepositsLeaveReserve ==
    FundSpec => [][\/ \A a \in Accounts : Gap(a)' = Gap(a)
                   \/ LeakingStep
                   \/ \E d \in Depositors : RevertsReserve(d)]_fundVars
<1> DEFINE Kept == \/ \A a \in Accounts : Gap(a)' = Gap(a)
                   \/ LeakingStep
                   \/ \E d \in Depositors : RevertsReserve(d)
<1>1. FundInit => OptimisticLock /\ BookInv
  <2>1. Init => OptimisticLock
    BY DEF Init, ApiInit, EngineInit, OptimisticLock, Idle, Waiting
  <2> QED
    BY <2>1, BookInit DEF FundInit
<1>2. FundTypeOK /\ FundTypeOK' /\ OptimisticLock /\ BookInv /\ [FundNext]_fundVars
        => OptimisticLock' /\ BookInv'
  BY FundsKeepTheBook
<1>3. ASSUME FundTypeOK, FundTypeOK', OptimisticLock, BookInv, FundNext
      PROVE  Kept
  <2>1. CASE Next
    BY <1>3, <2>1, GapStep DEF FundTypeOK
  <2>2. CASE \E d \in Depositors : DepositStep(d)
    BY <1>3, <2>2, DepositsLeaveGap
  <2> QED
    BY <1>3, <2>1, <2>2 DEF FundNext
<1>4. FundTypeOK /\ FundTypeOK' /\ OptimisticLock /\ BookInv /\ [FundNext]_fundVars
        => [Kept]_fundVars
  BY <1>3
<1> QED
  BY <1>1, <1>2, <1>4, FundTypes, PTL DEF FundSpec
=============================================================================
