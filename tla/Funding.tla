------------------------------- MODULE Funding -------------------------------
(***************************************************************************)
(* Deposits next to trading: the threads of Deposits write the portfolios   *)
(* that the order path reserves, releases and charges.                      *)
(***************************************************************************)
EXTENDS Trading, Deposits

fundVars == <<vars, depositVars>>

FundInit == Init /\ DepositsInit

FundNext ==
    \/ Next /\ UNCHANGED depositVars
    \/ \E d \in Depositors : DepositStep(d) /\ UNCHANGED <<req, eng>>

FundSpec == FundInit /\ [][FundNext]_fundVars

FundTypeOK == TypeOK /\ DepositsTypeOK

-----------------------------------------------------------------------------
\* However often a deposit is sent again, before or after the first answer, its
\* key is credited at most once.
KeyCreditedOnce ==
    \A a \in Accounts, k \in IdempotencyKeys : credits[a][k] <= 1

\* Behind it: of the deposits with one key at most one is past its insertion,
\* and none when the key is settled.
KeyHeldOnce ==
    \A c \in Depositors : dep[c].pc \in {"read", "find", "save"} /\ dep[c].key # NoKey =>
       /\ credits[dep[c].account][dep[c].key] = 0
       /\ \A d \in Depositors \ {c} :
             dep[d].pc \in {"read", "find", "save"} =>
                dep[d].account # dep[c].account \/ dep[d].key # dep[c].key

\* What an account has and has spent beyond what it started with and deposited.
Surplus(a) ==
    available[a] + reserved[a] + spent[a] - InitialFunds[a] - deposited[a]

\* No transaction of anybody moved the portfolio while the deposit was under
\* way, as far as the columns it is going to write tell.
Undisturbed(p) ==
    /\ p.seen.available = p.fresh.available
    /\ p.seen.available = available[p.account]
    /\ p.seen.reserved = p.fresh.reserved

\* Money appears or disappears in one kind of step only: the commit of a
\* deposit whose portfolio was moved by somebody else since it was read. A
\* deposit that was not disturbed adds exactly its amount, and it leaves alone a
\* reserve that changes after the second reading.
OnlyDisturbedDepositsErr ==
    [][\/ \A a \in Accounts : Surplus(a)' = Surplus(a)
       \/ \E d \in Depositors : CommitDeposit(d) /\ ~ Undisturbed(dep[d])]_fundVars

\* A settled deposit is in the balance: an account has, or has spent, what it
\* started with and what it deposited.
DepositsAddUp == \A a \in Accounts : Surplus(a) = 0
=============================================================================
