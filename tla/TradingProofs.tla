---------------------------- MODULE TradingProofs ----------------------------
(***************************************************************************)
(* Proofs about Trading, for any number of accounts, orders, request       *)
(* threads and engines.                                                    *)
(***************************************************************************)
EXTENDS Trading, FiniteSetTheorems, WellFoundedInduction, TLAPS

-----------------------------------------------------------------------------
(* Lemmas about the operators *)

\* The cost of an order is a natural number.
LEMMA CostNat ==
    ASSUME NEW form \in FormType
    PROVE  Cost(form) \in Nat /\ Reservation(form) \in Nat
<1>1. \A m, n \in Nat : m * n \in Nat
  OBVIOUS
<1>2. form.quantity \in Nat /\ (form.price = NoPrice \/ form.price \in Nat)
  BY DEF FormType
<1>3. (IF form.price = NoPrice THEN DefaultPrice ELSE form.price) \in Nat
  BY <1>2, DataAssumption
<1>4. Cost(form) \in Nat
  BY <1>1, <1>2, <1>3 DEF Cost
<1> QED
  BY <1>4 DEF Reservation

\* So is the price of a trade.
LEMMA TradePriceNat ==
    ASSUME NEW form \in FormType, NEW counterForm \in FormType
    PROVE  TradePrice(form, counterForm) \in Nat
BY DataAssumption DEF TradePrice, FormType

\* The row of a new order, a row with another status and a row with another
\* form are rows.
LEMMA RowsOfRows ==
    /\ \A a \in Accounts, f \in FormType, k \in Keys \cup {NoKey} : NewRow(a, f, k) \in RowType
    /\ \A row \in RowType, s \in OpenStatuses \cup FinalStatuses : WithStatus(row, s) \in RowType
    /\ \A row \in RowType, f \in FormType : WithForm(row, f) \in RowType
<1>1. ASSUME NEW a \in Accounts, NEW f \in FormType, NEW k \in Keys \cup {NoKey}
      PROVE  NewRow(a, f, k) \in RowType
  BY CostNat DEF NewRow, RowType, OpenStatuses
<1>2. ASSUME NEW row \in RowType, NEW s \in OpenStatuses \cup FinalStatuses
      PROVE  WithStatus(row, s) \in RowType
  <2>1. CASE row.status = s
    BY <2>1 DEF WithStatus
  <2>2. CASE row.status # s
    <3>1. row.lock_version + 1 \in Nat
      BY DEF RowType
    <3>2. [row EXCEPT !.status = s, !.lock_version = row.lock_version + 1] \in RowType
      BY <3>1 DEF RowType
    <3> QED
      BY <2>2, <3>2 DEF WithStatus
  <2> QED
    BY <2>1, <2>2
<1>3. ASSUME NEW row \in RowType, NEW f \in FormType
      PROVE  WithForm(row, f) \in RowType
  BY CostNat DEF WithForm, RowType
<1> QED
  BY <1>1, <1>2, <1>3

\* What a request thread holds, by its program counter.
LEMMA RequestKinds ==
    ASSUME ApiTypeOK, NEW r \in Requests
    PROVE  /\ req[r] = Idle <=> req[r].pc = "idle"
           /\ req[r].pc = "place" => req[r] \in Placing
           /\ req[r].pc \in {"cancel", "release", "close"} => req[r] \in Closing
           /\ req[r].pc \in {"validate", "replace"} => req[r] \in Replacing
           /\ req[r].pc \in {"idle", "place", "cancel", "release", "close", "validate", "replace"}
BY DEF ApiTypeOK, Idle, Placing, Closing, Replacing

\* What an engine holds.
LEMMA EngineKinds ==
    ASSUME EngineTypeOK, NEW e \in Engines
    PROVE  /\ eng[e] = Waiting <=> eng[e].pc = "wait"
           /\ eng[e].pc \in {"match", "rest"} => eng[e] \in Processing
           /\ eng[e].pc = "trade" => eng[e] \in Executing
           /\ eng[e].pc \in {"wait", "match", "rest", "trade"}
BY DEF EngineTypeOK, Waiting, Processing, Executing

-----------------------------------------------------------------------------
(* Sums over finite sets. A sum is a fold, a fold a recursive function, and   *)
(* what is true of it is shown for the smallest set it could fail of.         *)

\* The element a sum takes first.
First(T) == CHOOSE x \in T : TRUE

\* g is the function that the definition of the sum describes on the subsets of S.
Sums(f, S, g) ==
    g = [T \in SUBSET S |-> IF T = {} THEN 0 ELSE f[First(T)] + g[T \ {First(T)}]]

SumsOf(f, S) == CHOOSE g : Sums(f, S, g)

\* The fold of the community modules is that function at S.
LEMMA TotalIsSum ==
    ASSUME NEW f, NEW S
    PROVE  Total(f, S) = SumsOf(f, S)[S]
BY DEF Total, MapThenSumSet, MapThenFoldSet, SumsOf, Sums, First

\* Of sets of subsets of a finite set one has a smallest: what is true of a set
\* when it is of its proper subsets is true of all.
LEMMA MinimalSubset ==
    ASSUME NEW S, IsFiniteSet(S), NEW U \in SUBSET (SUBSET S), U # {}
    PROVE  \E X \in U : \A Y \in U : Y \subseteq X => Y = X
<1>1. FiniteSubsetsOf(S) = SUBSET S
  BY FS_FiniteSubsetsOfFinite
<1>2. IsWellFoundedOn(StrictSubsetOrdering(S), SUBSET S)
  BY <1>1, FS_StrictSubsetOrderingWellFounded
<1>3. PICK X \in U : \A Y \in U : <<Y, X>> \notin StrictSubsetOrdering(S)
  BY <1>2, WFMin
<1> QED
  BY <1>3 DEF StrictSubsetOrdering

LEMMA FirstIn ==
    ASSUME NEW T, T # {}
    PROVE  First(T) \in T
BY DEF First

\* Two such functions agree wherever both are defined.
LEMMA SumsAgree ==
    ASSUME NEW f, NEW S, IsFiniteSet(S), NEW R, NEW g, NEW h, Sums(f, S, g), Sums(f, R, h),
           NEW T \in SUBSET S, T \in SUBSET R
    PROVE  g[T] = h[T]
<1> DEFINE Differ == {X \in SUBSET T : g[X] # h[X]}
<1>1. SUFFICES ASSUME Differ # {} PROVE FALSE
  OBVIOUS
<1>2. IsFiniteSet(T)
  BY FS_Subset
<1>3. PICK X \in Differ : \A Y \in Differ : Y \subseteq X => Y = X
  <2>1. Differ \in SUBSET (SUBSET T)
    OBVIOUS
  <2> HIDE DEF Differ
  <2> QED
    BY <1>1, <1>2, <2>1, MinimalSubset
<1>4. /\ g[X] = IF X = {} THEN 0 ELSE f[First(X)] + g[X \ {First(X)}]
      /\ h[X] = IF X = {} THEN 0 ELSE f[First(X)] + h[X \ {First(X)}]
  BY DEF Sums
<1>5. X # {} => g[X \ {First(X)}] = h[X \ {First(X)}]
  BY <1>3, FirstIn
<1> QED
  BY <1>3, <1>4, <1>5

\* On a finite set there is such a function.
LEMMA SumsExist ==
    ASSUME NEW f, NEW S, IsFiniteSet(S)
    PROVE  Sums(f, S, SumsOf(f, S))
<1> DEFINE Bad == {X \in SUBSET S : ~ \E g : Sums(f, X, g)}
<1>1. SUFFICES ASSUME Bad # {} PROVE FALSE
  BY DEF SumsOf
<1>2. PICK X \in Bad : \A Y \in Bad : Y \subseteq X => Y = X
  <2>1. Bad \in SUBSET (SUBSET S)
    OBVIOUS
  <2> HIDE DEF Bad
  <2> QED
    BY <1>1, <2>1, MinimalSubset
<1>3. IsFiniteSet(X)
  BY FS_Subset
<1>4. ASSUME NEW Y \in SUBSET X, Y # X
      PROVE  Sums(f, Y, SumsOf(f, Y)) /\ IsFiniteSet(Y)
  <2>1. \E g : Sums(f, Y, g)
    BY <1>2, <1>4
  <2> QED
    BY <1>3, <2>1, FS_Subset DEF SumsOf
<1> DEFINE Rest(T) == T \ {First(T)}
           h == [T \in SUBSET X |-> IF T = {} THEN 0
                                    ELSE f[First(T)] + SumsOf(f, Rest(T))[Rest(T)]]
<1>5. ASSUME NEW Y \in SUBSET X, Y # X
      PROVE  h[Y] = SumsOf(f, Y)[Y]
  <2>1. SumsOf(f, Y)[Y] = IF Y = {} THEN 0 ELSE f[First(Y)] + SumsOf(f, Y)[Rest(Y)]
    BY <1>4, <1>5 DEF Sums
  <2>2. CASE Y = {}
    BY <2>1, <2>2
  <2>3. CASE Y # {}
    <3>1. Rest(Y) \in SUBSET Y /\ Rest(Y) \in SUBSET X /\ Rest(Y) # X
      BY <1>5, <2>3, FirstIn
    <3>2. /\ Sums(f, Rest(Y), SumsOf(f, Rest(Y))) /\ IsFiniteSet(Rest(Y))
          /\ Sums(f, Y, SumsOf(f, Y)) /\ IsFiniteSet(Y)
      BY <1>4, <1>5, <3>1
    <3>3. SumsOf(f, Y)[Rest(Y)] = SumsOf(f, Rest(Y))[Rest(Y)]
      BY <3>1, <3>2, SumsAgree
    <3> QED
      BY <2>1, <2>3, <3>3
  <2> QED
    BY <2>2, <2>3
<1>6. ASSUME NEW T \in SUBSET X
      PROVE  h[T] = IF T = {} THEN 0 ELSE f[First(T)] + h[Rest(T)]
  <2>1. CASE T = {}
    BY <2>1
  <2>2. CASE T # {}
    <3>1. Rest(T) \in SUBSET X /\ Rest(T) # X
      BY <2>2, FirstIn
    <3>2. h[Rest(T)] = SumsOf(f, Rest(T))[Rest(T)]
      BY <1>5, <3>1
    <3> QED
      BY <2>2, <3>2
  <2> QED
    BY <2>1, <2>2
<1>7. h = [T \in SUBSET X |-> h[T]]
  OBVIOUS
<1> HIDE DEF h
<1>8. Sums(f, X, h)
  BY <1>6, <1>7 DEF Sums
<1> QED
  BY <1>2, <1>8

\* The sum over no elements, and the sum as its definition unfolds it.
LEMMA TotalOfNone ==
    ASSUME NEW f
    PROVE  Total(f, {}) = 0
<1>1. Sums(f, {}, SumsOf(f, {}))
  BY SumsExist, FS_EmptySet
<1>2. SumsOf(f, {})[{}] = 0
  BY <1>1 DEF Sums
<1> QED
  BY <1>2, TotalIsSum

LEMMA TotalFirst ==
    ASSUME NEW f, NEW S, IsFiniteSet(S), S # {}
    PROVE  Total(f, S) = f[First(S)] + Total(f, S \ {First(S)})
<1> DEFINE R == S \ {First(S)}
<1>1. IsFiniteSet(R) /\ R \in SUBSET S
  BY FS_Subset
<1>2. Sums(f, S, SumsOf(f, S)) /\ Sums(f, R, SumsOf(f, R))
  BY <1>1, SumsExist
<1>3. SumsOf(f, S)[R] = SumsOf(f, R)[R]
  BY <1>1, <1>2, SumsAgree
<1>4. SumsOf(f, S)[S] = f[First(S)] + SumsOf(f, S)[R]
  BY <1>2 DEF Sums
<1> QED
  BY <1>3, <1>4, TotalIsSum

\* A sum of integers is an integer.
LEMMA TotalInt ==
    ASSUME NEW f, NEW S, IsFiniteSet(S), \A x \in S : f[x] \in Int
    PROVE  Total(f, S) \in Int
<1> DEFINE Bad == {X \in SUBSET S : Total(f, X) \notin Int}
<1>1. SUFFICES ASSUME Bad # {} PROVE FALSE
  OBVIOUS
<1>2. PICK X \in Bad : \A Y \in Bad : Y \subseteq X => Y = X
  <2>1. Bad \in SUBSET (SUBSET S)
    OBVIOUS
  <2> HIDE DEF Bad
  <2> QED
    BY <1>1, <2>1, MinimalSubset
<1>3. X # {}
  BY TotalOfNone
<1>4. First(X) \in X /\ IsFiniteSet(X)
  BY <1>3, FirstIn, FS_Subset
<1>5. Total(f, X \ {First(X)}) \in Int
  BY <1>2, <1>4
<1>6. Total(f, X) \in Int
  BY <1>3, <1>4, <1>5, TotalFirst
<1> QED
  BY <1>6

\* Any element may be taken first.
LEMMA TotalRemove ==
    ASSUME NEW f, NEW S, IsFiniteSet(S), \A x \in S : f[x] \in Int, NEW y \in S
    PROVE  Total(f, S) = f[y] + Total(f, S \ {y})
<1> DEFINE Bad == {X \in SUBSET S : \E x \in X : Total(f, X) # f[x] + Total(f, X \ {x})}
<1>1. SUFFICES ASSUME Bad # {} PROVE FALSE
  OBVIOUS
<1>2. PICK X \in Bad : \A Y \in Bad : Y \subseteq X => Y = X
  <2>1. Bad \in SUBSET (SUBSET S)
    OBVIOUS
  <2> HIDE DEF Bad
  <2> QED
    BY <1>1, <2>1, MinimalSubset
<1>3. PICK x \in X : Total(f, X) # f[x] + Total(f, X \ {x})
  OBVIOUS
<1> DEFINE p == First(X)
           R == X \ {p, x}
<1>4. p \in X /\ IsFiniteSet(X) /\ IsFiniteSet(R) /\ X \in SUBSET S
  BY FirstIn, FS_Subset
<1>5. Total(f, X) = f[p] + Total(f, X \ {p})
  BY <1>4, TotalFirst
<1>6. x # p
  BY <1>3, <1>5
<1>7. Total(f, X \ {p}) = f[x] + Total(f, R)
  <2>1. X \ {p} \notin Bad
    BY <1>2, <1>4
  <2>2. (X \ {p}) \ {x} = R /\ x \in X \ {p}
    BY <1>6
  <2> QED
    BY <2>1, <2>2
<1>8. Total(f, X \ {x}) = f[p] + Total(f, R)
  <2>1. X \ {x} \notin Bad
    BY <1>2, <1>3
  <2>2. (X \ {x}) \ {p} = R /\ p \in X \ {x}
    BY <1>4, <1>6
  <2> QED
    BY <2>1, <2>2
<1>9. Total(f, R) \in Int /\ f[p] \in Int /\ f[x] \in Int
  BY <1>4, TotalInt
<1> HIDE DEF p, R
<1> QED
  BY <1>3, <1>5, <1>7, <1>8, <1>9

\* Equal terms have equal sums.
LEMMA TotalSame ==
    ASSUME NEW f, NEW g, NEW S, IsFiniteSet(S), \A x \in S : f[x] = g[x]
    PROVE  Total(f, S) = Total(g, S)
<1> DEFINE Bad == {X \in SUBSET S : Total(f, X) # Total(g, X)}
<1>1. SUFFICES ASSUME Bad # {} PROVE FALSE
  OBVIOUS
<1>2. PICK X \in Bad : \A Y \in Bad : Y \subseteq X => Y = X
  <2>1. Bad \in SUBSET (SUBSET S)
    OBVIOUS
  <2> HIDE DEF Bad
  <2> QED
    BY <1>1, <2>1, MinimalSubset
<1>3. X # {}
  BY TotalOfNone
<1>4. First(X) \in X /\ IsFiniteSet(X)
  BY <1>3, FirstIn, FS_Subset
<1>5. Total(f, X \ {First(X)}) = Total(g, X \ {First(X)})
  BY <1>2, <1>4
<1>6. Total(f, X) = Total(g, X)
  BY <1>3, <1>4, <1>5, TotalFirst
<1> QED
  BY <1>6

\* What x adds to a sum over S.
Part(f, S, x) == IF x \in S THEN f[x] ELSE 0

\* When one element comes, goes or changes, so does its part of the sum and nothing
\* else.
LEMMA TotalOneChange ==
    ASSUME NEW f, NEW S, IsFiniteSet(S), \A y \in S : f[y] \in Int,
           NEW g, NEW R, \A y \in R : g[y] \in Int,
           NEW x, S \ {x} = R \ {x}, \A y \in S \ {x} : f[y] = g[y]
    PROVE  /\ IsFiniteSet(R)
           /\ Total(f, S) \in Int /\ Total(g, R) \in Int
           /\ Total(g, R) - Part(g, R, x) = Total(f, S) - Part(f, S, x)
<1> DEFINE T == S \ {x}
<1>1. /\ IsFiniteSet(T) /\ T = R \ {x} /\ T \subseteq S /\ T \subseteq R
      /\ x \notin S => T = S
      /\ IF x \in R THEN R = T \cup {x} ELSE T = R
      /\ \A y \in T : f[y] = g[y]
  BY FS_Subset
<1>2. IsFiniteSet(R)
  <2>1. IsFiniteSet(T \cup {x})
    BY <1>1, FS_AddElement
  <2> QED
    BY <1>1, <2>1
<1>3. Total(f, T) = Total(g, T) /\ Total(f, T) \in Int
  BY <1>1, TotalSame, TotalInt
<1>4. Total(f, S) = Total(f, T) + Part(f, S, x) /\ Part(f, S, x) \in Int
  <2>1. CASE x \in S
    BY <1>3, <2>1, TotalRemove DEF Part
  <2>2. CASE x \notin S
    <3>1. Total(f, S) = Total(f, T) /\ Part(f, S, x) = 0
      BY <1>1, <2>2 DEF Part
    <3> QED
      BY <1>3, <3>1
  <2> QED
    BY <2>1, <2>2
<1>5. Total(g, R) = Total(g, T) + Part(g, R, x) /\ Part(g, R, x) \in Int
  <2>1. CASE x \in R
    BY <1>1, <1>2, <1>3, <2>1, TotalRemove DEF Part
  <2>2. CASE x \notin R
    <3>1. Total(g, R) = Total(g, T) /\ Part(g, R, x) = 0
      BY <1>1, <2>2 DEF Part
    <3> QED
      BY <1>3, <3>1
  <2> QED
    BY <2>1, <2>2
<1> HIDE DEF T
<1> QED
  BY <1>2, <1>3, <1>4, <1>5

-----------------------------------------------------------------------------
(* Type correctness *)

\* Every operation on the portfolios keeps the balances natural numbers.
LEMMA FundsTyped ==
    ASSUME TablesTypeOK, NEW a \in Accounts, NEW n \in Nat,
           \/ reserve_funds(a, n)
           \/ release_funds(a, n)
           \/ commit_reserved_funds(a, n)
           \/ UNCHANGED funds
    PROVE  /\ available' \in [Accounts -> Nat]
           /\ reserved' \in [Accounts -> Nat]
           /\ spent' \in [Accounts -> Nat]
BY DEF TablesTypeOK, reserve_funds, release_funds, commit_reserved_funds,
       CanReserve, CanRelease, funds

\* Two conjuncts of cancel, destroy and replace are such operations.
LEMMA ReleaseSeenIsRelease ==
    ASSUME NEW p \in Closing, ReleaseSeen(p)
    PROVE  /\ p.seen.account \in Accounts /\ p.seen.reserved_amount \in Nat
           /\ release_funds(p.seen.account, p.seen.reserved_amount) \/ UNCHANGED funds
BY DEF Closing, RowType, ReleaseSeen

LEMMA AdjustFundsMoves ==
    ASSUME NEW p \in Replacing, AdjustFunds(p)
    PROVE  \E n \in Nat : /\ p.seen.account \in Accounts
                          /\ \/ reserve_funds(p.seen.account, n)
                             \/ release_funds(p.seen.account, n)
                             \/ UNCHANGED funds
<1> DEFINE old == p.seen.reserved_amount
           new == Reservation(p.form)
<1>1. p.seen.account \in Accounts /\ old \in Nat /\ new \in Nat
  BY CostNat DEF Replacing, RowType
<1>2. CASE new > old
  <2>1. new - old \in Nat /\ reserve_funds(p.seen.account, new - old)
    BY <1>1, <1>2 DEF AdjustFunds
  <2> QED
    BY <1>1, <2>1
<1>3. CASE new < old
  <2>1. old - new \in Nat /\ release_funds(p.seen.account, old - new)
    BY <1>1, <1>3 DEF AdjustFunds
  <2> QED
    BY <1>1, <2>1
<1>4. CASE new = old
  <2>1. UNCHANGED funds
    BY <1>1, <1>4 DEF AdjustFunds
  <2> QED
    BY <1>1, <2>1
<1> QED
  BY <1>1, <1>2, <1>3, <1>4

\* Inserting a row and updating one keep the table a table of rows.
LEMMA OrdersTyped ==
    ASSUME TablesTypeOK, NEW o \in OrderIds, NEW row \in RowType,
           InsertRow(o, row) \/ WriteRow(o, row) \/ orders' = [orders EXCEPT ![o] = row]
    PROVE  DOMAIN orders' \subseteq OrderIds /\ orders' \in [DOMAIN orders' -> RowType]
<1>1. CASE InsertRow(o, row)
  BY <1>1 DEF InsertRow, TablesTypeOK
<1>2. CASE WriteRow(o, row)
  <2>1. ASSUME o \in DOMAIN orders
        PROVE  [row EXCEPT !.lock_version = orders[o].lock_version + 1] \in RowType
    <3>1. orders[o] \in RowType
      BY <2>1 DEF TablesTypeOK
    <3>2. orders[o].lock_version + 1 \in Nat
      BY <3>1 DEF RowType
    <3> QED
      BY <3>2 DEF RowType
  <2> QED
    BY <1>2, <2>1 DEF WriteRow, TablesTypeOK
<1>3. CASE orders' = [orders EXCEPT ![o] = row]
  BY <1>3 DEF TablesTypeOK
<1> QED
  BY <1>1, <1>2, <1>3

LEMMA ApiTyped ==
    ASSUME TypeOK, NEW r \in Requests, ApiStep(r), UNCHANGED eng
    PROVE  TypeOK'
<1> USE DEF TypeOK
<1>1. EngineTypeOK'
  BY DEF EngineTypeOK
<1>2. TablesTypeOK /\ ApiTypeOK
  OBVIOUS
<1>3. ASSUME NEW account \in Accounts, NEW form \in Forms, NEW key \in Keys \cup {NoKey},
             SubmitOrder(r, account, form, key)
      PROVE  TypeOK'
  BY <1>1, <1>2, <1>3, DataAssumption
     DEF SubmitOrder, Become, ApiTypeOK, Placing, TablesTypeOK, tables
<1>4. ASSUME NEW o \in OrderIds, InsertOrder(r, o)
      PROVE  TypeOK'
  <2>1. req[r] \in Placing
    BY <1>2, <1>4, RequestKinds DEF InsertOrder
  <2>2. req[r].account \in Accounts /\ Cost(req[r].form) \in Nat
    BY <2>1, CostNat DEF Placing
  <2>3. NewRow(req[r].account, req[r].form, req[r].key) \in RowType
    BY <2>1, RowsOfRows DEF Placing
  <2>4. TablesTypeOK'
    BY <1>2, <1>4, <2>2, <2>3, FundsTyped, OrdersTyped DEF InsertOrder, TablesTypeOK
  <2> QED
    BY <1>1, <1>2, <1>4, <2>4 DEF InsertOrder, Answer, Become, ApiTypeOK
<1>5. CASE RefuseInsert(r) \/ RefuseRelease(r) \/ RefuseReplace(r) \/ Abort(r)
  BY <1>1, <1>2, <1>5
     DEF RefuseInsert, RefuseRelease, RefuseReplace, Abort, Answer, Become, ApiTypeOK,
         TablesTypeOK, tables
<1>6. ASSUME NEW o \in OrderIds, ReadForCancel(r, o) \/ ReadForDestroy(r, o)
      PROVE  TypeOK'
  <2>1. orders[o] \in RowType
    BY <1>2, <1>6 DEF ReadForCancel, ReadForDestroy, Exists, TablesTypeOK
  <2> QED
    BY <1>1, <1>2, <1>6, <2>1
       DEF ReadForCancel, ReadForDestroy, Become, ApiTypeOK, Closing, TablesTypeOK, tables
<1>7. ASSUME NEW o \in OrderIds, NEW form \in Forms, ReadForReplace(r, o, form)
      PROVE  TypeOK'
  <2>1. orders[o] \in RowType
    BY <1>2, <1>7 DEF ReadForReplace, Exists, TablesTypeOK
  <2> QED
    BY <1>1, <1>2, <1>7, <2>1, DataAssumption
       DEF ReadForReplace, Become, ApiTypeOK, Replacing, TablesTypeOK, tables
<1>8. CASE CommitCancel(r)
  <2>1. req[r] \in Closing
    BY <1>2, <1>8, RequestKinds DEF CommitCancel
  <2>2. /\ available' \in [Accounts -> Nat]
        /\ reserved' \in [Accounts -> Nat]
        /\ spent' \in [Accounts -> Nat]
    BY <1>2, <1>8, <2>1, ReleaseSeenIsRelease, FundsTyped DEF CommitCancel
  <2>3. DOMAIN orders' \subseteq OrderIds /\ orders' \in [DOMAIN orders' -> RowType]
    <3>1. CASE req[r].order \in DOMAIN orders
      <4>1. req[r].order \in OrderIds /\ orders[req[r].order] \in RowType
        BY <1>2, <2>1, <3>1 DEF Closing, TablesTypeOK
      <4>2. [orders[req[r].order] EXCEPT !.status = "cancelled"] \in RowType
        BY <4>1 DEF RowType, FinalStatuses
      <4> QED
        BY <1>2, <1>8, <4>1, <4>2, OrdersTyped DEF CommitCancel
    <3>2. CASE req[r].order \notin DOMAIN orders
      BY <1>2, <1>8, <3>2 DEF CommitCancel, WriteRow, TablesTypeOK
    <3> QED
      BY <3>1, <3>2
  <2> QED
    BY <1>1, <1>2, <1>8, <2>2, <2>3 DEF CommitCancel, Answer, Become, ApiTypeOK, TablesTypeOK
<1>9. CASE ConflictCancel(r)
  <2>1. req[r] \in Closing
    BY <1>2, <1>9, RequestKinds DEF ConflictCancel
  <2>2. TablesTypeOK'
    BY <1>2, <1>9, <2>1, ReleaseSeenIsRelease, FundsTyped DEF ConflictCancel, TablesTypeOK
  <2> QED
    BY <1>1, <1>2, <1>9, <2>2 DEF ConflictCancel, Answer, Become, ApiTypeOK
<1>10. CASE DestroyRelease(r)
  <2>1. req[r] \in Closing
    BY <1>2, <1>10, RequestKinds DEF DestroyRelease
  <2>2. TablesTypeOK'
    BY <1>2, <1>10, <2>1, ReleaseSeenIsRelease, FundsTyped DEF DestroyRelease, TablesTypeOK
  <2>3. [req[r] EXCEPT !.pc = "close"] \in Closing
    BY <2>1 DEF Closing
  <2> QED
    BY <1>1, <1>2, <1>10, <2>2, <2>3 DEF DestroyRelease, Become, ApiTypeOK
<1>11. CASE DestroyUpdate(r)
  <2>1. req[r] \in Closing
    BY <1>2, <1>11, RequestKinds DEF DestroyUpdate
  <2>2. req[r].order \in DOMAIN orders => WithStatus(orders[req[r].order], "cancelled") \in RowType
    BY <1>2, RowsOfRows DEF TablesTypeOK, FinalStatuses
  <2>3. TablesTypeOK'
    BY <1>2, <1>11, <2>2 DEF DestroyUpdate, TablesTypeOK, funds
  <2> QED
    BY <1>1, <1>2, <1>11, <2>3 DEF DestroyUpdate, Answer, Become, ApiTypeOK
<1>12. CASE ValidateReplace(r)
  <2>1. req[r] \in Replacing
    BY <1>2, <1>12, RequestKinds DEF ValidateReplace
  <2>2. [req[r] EXCEPT !.pc = "replace"] \in Replacing
    BY <2>1 DEF Replacing
  <2> QED
    BY <1>1, <1>2, <1>12, <2>2
       DEF ValidateReplace, Answer, Become, ApiTypeOK, TablesTypeOK, tables
<1>13. CASE CommitReplace(r)
  <2>1. req[r] \in Replacing
    BY <1>2, <1>13, RequestKinds DEF CommitReplace
  <2>2. /\ available' \in [Accounts -> Nat]
        /\ reserved' \in [Accounts -> Nat]
        /\ spent' \in [Accounts -> Nat]
    BY <1>2, <1>13, <2>1, AdjustFundsMoves, FundsTyped DEF CommitReplace
  <2>3. DOMAIN orders' \subseteq OrderIds /\ orders' \in [DOMAIN orders' -> RowType]
    <3>1. CASE Unchanged(req[r])
      BY <1>2, <1>13, <3>1 DEF CommitReplace, TablesTypeOK
    <3>2. CASE ~ Unchanged(req[r]) /\ req[r].order \in DOMAIN orders
      <4>1. req[r].order \in OrderIds /\ orders[req[r].order] \in RowType
        BY <1>2, <2>1, <3>2 DEF Replacing, TablesTypeOK
      <4>2. WithForm(orders[req[r].order], req[r].form) \in RowType
        BY <2>1, <4>1, RowsOfRows DEF Replacing
      <4> QED
        BY <1>2, <1>13, <3>2, <4>1, <4>2, OrdersTyped DEF CommitReplace
    <3>3. CASE ~ Unchanged(req[r]) /\ req[r].order \notin DOMAIN orders
      BY <1>2, <1>13, <3>3 DEF CommitReplace, WriteRow, TablesTypeOK
    <3> QED
      BY <3>1, <3>2, <3>3
  <2> QED
    BY <1>1, <1>2, <1>13, <2>2, <2>3 DEF CommitReplace, Answer, Become, ApiTypeOK, TablesTypeOK
<1>14. CASE FailReplace(r)
  <2>1. req[r] \in Replacing
    BY <1>2, <1>14, RequestKinds DEF FailReplace
  <2>2. TablesTypeOK'
    BY <1>2, <1>14, <2>1, AdjustFundsMoves, FundsTyped DEF FailReplace, TablesTypeOK
  <2> QED
    BY <1>1, <1>2, <1>14, <2>2 DEF FailReplace, Answer, Become, ApiTypeOK
<1> QED
  BY <1>3, <1>4, <1>5, <1>6, <1>7, <1>8, <1>9, <1>10, <1>11, <1>12, <1>13, <1>14 DEF ApiStep, OtherStep

\* The buyer of a trade is an account, its amount a natural number.
LEMMA TradeTyped ==
    ASSUME NEW w \in Executing
    PROVE  Buyer(w) \in Accounts /\ Amount(w) \in Nat
<1>1. Buyer(w) \in Accounts
  BY DEF Buyer, Executing, RowType
<1>2. Price(w) \in Nat
  BY TradePriceNat DEF Price, Executing, RowType
<1>3. w.seen.form.quantity \in Nat
  BY DEF Executing, RowType, FormType
<1>4. \A m, n \in Nat : m * n \in Nat
  OBVIOUS
<1> QED
  BY <1>1, <1>2, <1>3, <1>4 DEF Amount

LEMMA EngineTyped ==
    ASSUME TypeOK, NEW e \in Engines, EngineStep(e), UNCHANGED req
    PROVE  TypeOK'
<1> USE DEF TypeOK
<1>1. ApiTypeOK'
  BY DEF ApiTypeOK
<1>2. TablesTypeOK /\ EngineTypeOK
  OBVIOUS
<1>3. ASSUME NEW o \in OrderIds, ReadCurrent(e, o)
      PROVE  TypeOK'
  <2>1. orders[o] \in RowType
    BY <1>2, <1>3 DEF ReadCurrent, Exists, TablesTypeOK
  <2> QED
    BY <1>1, <1>2, <1>3, <2>1
       DEF ReadCurrent, Proceed, EngineTypeOK, Processing, TablesTypeOK, tables
<1>4. ASSUME NEW c \in OrderIds, FindCounter(e, c)
      PROVE  TypeOK'
  <2>1. eng[e] \in Processing
    BY <1>2, <1>4, EngineKinds DEF FindCounter
  <2>2. orders[c] \in RowType
    BY <1>2, <1>4 DEF FindCounter, Candidates, TablesTypeOK
  <2> QED
    BY <1>1, <1>2, <1>4, <2>1, <2>2
       DEF FindCounter, Proceed, EngineTypeOK, Processing, Executing, TablesTypeOK, tables
<1>5. CASE FindNone(e)
  <2>1. eng[e] \in Processing
    BY <1>2, <1>5, EngineKinds DEF FindNone
  <2>2. [eng[e] EXCEPT !.pc = "rest"] \in Processing
    BY <2>1 DEF Processing
  <2> QED
    BY <1>1, <1>2, <1>5, <2>2 DEF FindNone, Proceed, EngineTypeOK, TablesTypeOK, tables
<1>6. CASE RestOrder(e)
  <2>1. eng[e].order \in DOMAIN orders => WithStatus(orders[eng[e].order], "working") \in RowType
    BY <1>2, RowsOfRows DEF TablesTypeOK, OpenStatuses
  <2>2. TablesTypeOK'
    BY <1>2, <1>6, <2>1 DEF RestOrder, TablesTypeOK, funds
  <2> QED
    BY <1>1, <1>2, <1>6, <2>2 DEF RestOrder, Proceed, EngineTypeOK
<1>7. CASE ExecuteTrade(e)
  <2>1. eng[e] \in Executing
    BY <1>2, <1>7, EngineKinds DEF ExecuteTrade
  <2>2. Buyer(eng[e]) \in Accounts
    BY <2>1, TradeTyped
  <2>3. Amount(eng[e]) \in Nat
    BY <2>1, TradeTyped
  <2>4. /\ available' \in [Accounts -> Nat]
        /\ reserved' \in [Accounts -> Nat]
        /\ spent' \in [Accounts -> Nat]
    BY <1>2, <1>7, <2>2, <2>3, FundsTyped DEF ExecuteTrade
  <2>5. \A o \in DOMAIN orders : WithStatus(orders[o], "filled") \in RowType
    BY <1>2, RowsOfRows DEF TablesTypeOK, FinalStatuses
  <2>6. \A o \in DOMAIN orders : WithStatus(WithStatus(orders[o], "filled"), "filled") \in RowType
    BY <2>5, RowsOfRows DEF FinalStatuses
  <2>7. DOMAIN orders' \subseteq OrderIds /\ orders' \in [DOMAIN orders' -> RowType]
    BY <1>2, <1>7, <2>5, <2>6 DEF ExecuteTrade, TablesTypeOK
  <2>8. executions' \in [OrderIds -> Nat] /\ bought' \in [Accounts -> Nat]
    BY <1>2, <1>7, <2>1, <2>2, <2>3 DEF ExecuteTrade, TablesTypeOK, Executing
  <2> QED
    BY <1>1, <1>2, <1>7, <2>4, <2>7, <2>8 DEF ExecuteTrade, Proceed, EngineTypeOK, TablesTypeOK
<1>8. CASE EngineFault(e)
  BY <1>1, <1>2, <1>8 DEF EngineFault, Proceed, EngineTypeOK, TablesTypeOK, tables
<1> QED
  BY <1>3, <1>4, <1>5, <1>6, <1>7, <1>8 DEF EngineStep

\* The initial state is well typed, and every step keeps it so.
LEMMA InitTyped ==
    ASSUME Init
    PROVE  TypeOK
BY FundsAssumption
   DEF Init, TypeOK, TablesInit, TablesTypeOK, ApiInit, ApiTypeOK, EngineInit, EngineTypeOK

LEMMA StepsTyped ==
    ASSUME TypeOK, [Next]_vars
    PROVE  TypeOK'
<1>1. CASE Next
  BY <1>1, ApiTyped, EngineTyped DEF Next
<1>2. CASE UNCHANGED vars
  BY <1>2 DEF vars, tables, TypeOK, TablesTypeOK, ApiTypeOK, EngineTypeOK
<1> QED
  BY <1>1, <1>2

\* Balances, versions and counters stay natural numbers and every thread holds
\* what its program counter says: no interleaving of handlers, engines and
\* failures takes a portfolio below zero.
THEOREM TypeCorrect == Spec => []TypeOK
BY InitTyped, StepsTyped, PTL DEF Spec

-----------------------------------------------------------------------------
(* Funds *)

\* What a step does to the balances: one reservation, one release, one charge
\* together with the trade it is for, or nothing.
FundsStep ==
    \/ UNCHANGED <<funds, bought>>
    \/ \E a \in Accounts, n \in Nat :
          \/ reserve_funds(a, n) /\ UNCHANGED bought
          \/ release_funds(a, n) /\ UNCHANGED bought
          \/ commit_reserved_funds(a, n) /\ bought' = [bought EXCEPT ![a] = @ + n]

LEMMA FundsSteps ==
    ASSUME TypeOK, [Next]_vars
    PROVE  FundsStep
<1>1. TablesTypeOK /\ ApiTypeOK /\ EngineTypeOK
  BY DEF TypeOK
<1>2. ASSUME NEW r \in Requests, ApiStep(r)
      PROVE  FundsStep
  <2>1. ASSUME NEW account \in Accounts, NEW form \in Forms, NEW key \in Keys \cup {NoKey},
               SubmitOrder(r, account, form, key)
        PROVE  FundsStep
    BY <2>1 DEF SubmitOrder, tables, FundsStep, funds
  <2>2. ASSUME NEW o \in OrderIds, InsertOrder(r, o)
        PROVE  FundsStep
    <3>1. req[r] \in Placing
      BY <1>1, <2>2, RequestKinds DEF InsertOrder
    <3>2. req[r].account \in Accounts /\ Cost(req[r].form) \in Nat
      BY <3>1, CostNat DEF Placing
    <3> QED
      BY <2>2, <3>2 DEF InsertOrder, FundsStep, funds
  <2>3. ASSUME NEW o \in OrderIds,
               \/ ReadForCancel(r, o)
               \/ ReadForDestroy(r, o)
               \/ \E form \in Forms : ReadForReplace(r, o, form)
        PROVE  FundsStep
    BY <2>3 DEF ReadForCancel, ReadForDestroy, ReadForReplace, tables, FundsStep, funds
  <2>4. CASE CommitCancel(r) \/ ConflictCancel(r) \/ DestroyRelease(r)
    <3>1. req[r] \in Closing
      BY <1>1, <2>4, RequestKinds DEF CommitCancel, ConflictCancel, DestroyRelease
    <3> QED
      BY <2>4, <3>1, ReleaseSeenIsRelease
         DEF CommitCancel, ConflictCancel, DestroyRelease, FundsStep, funds
  <2>5. CASE CommitReplace(r) \/ FailReplace(r)
    <3>1. req[r] \in Replacing
      BY <1>1, <2>5, RequestKinds DEF CommitReplace, FailReplace
    <3> QED
      BY <2>5, <3>1, AdjustFundsMoves DEF CommitReplace, FailReplace, FundsStep, funds
  <2>6. CASE \/ RefuseInsert(r) \/ RefuseRelease(r) \/ RefuseReplace(r)
             \/ DestroyUpdate(r) \/ ValidateReplace(r) \/ Abort(r)
    BY <2>6 DEF RefuseInsert, RefuseRelease, RefuseReplace, DestroyUpdate, ValidateReplace,
                Abort, tables, FundsStep, funds
  <2> QED
    BY <1>2, <2>1, <2>2, <2>3, <2>4, <2>5, <2>6, DataAssumption DEF ApiStep, OtherStep
<1>3. ASSUME NEW e \in Engines, EngineStep(e)
      PROVE  FundsStep
  <2>1. CASE ExecuteTrade(e)
    <3>1. eng[e] \in Executing
      BY <1>1, <2>1, EngineKinds DEF ExecuteTrade
    <3> QED
      BY <2>1, <3>1, TradeTyped DEF ExecuteTrade, FundsStep
  <2>2. CASE ~ ExecuteTrade(e)
    BY <1>3, <2>2 DEF EngineStep, ReadCurrent, FindCounter, FindNone, RestOrder, EngineFault,
                      tables, FundsStep, funds
  <2> QED
    BY <2>1, <2>2
<1>4. CASE UNCHANGED vars
  BY <1>4 DEF vars, tables, FundsStep, funds
<1> QED
  BY <1>2, <1>3, <1>4 DEF Next

\* No step of any thread creates or destroys money: available, reserved and
\* spent funds of an account always add up to what it started with.
THEOREM MoneyIsConserved == Spec => []FundsConserved
<1>1. Init => FundsConserved
  <2> SUFFICES ASSUME Init, NEW a \in Accounts
               PROVE  available[a] + reserved[a] + spent[a] = InitialFunds[a]
    BY DEF FundsConserved
  <2>1. available[a] = InitialFunds[a] /\ reserved[a] = 0 /\ spent[a] = 0
    BY DEF Init, TablesInit
  <2>2. InitialFunds[a] \in Nat
    BY FundsAssumption
  <2> QED
    BY <2>1, <2>2
<1>2. TypeOK /\ FundsConserved /\ [Next]_vars => FundsConserved'
  <2> SUFFICES ASSUME TypeOK, FundsConserved, [Next]_vars PROVE FundsConserved'
    OBVIOUS
  <2>1. FundsStep
    BY FundsSteps
  <2> QED
    BY <2>1, FundsAssumption
       DEF FundsStep, FundsConserved, TypeOK, TablesTypeOK, reserve_funds, release_funds,
           commit_reserved_funds, CanReserve, CanRelease, funds
<1> QED
  BY <1>1, <1>2, TypeCorrect, PTL DEF Spec

\* What left an account's reserve for good never exceeds the value of the trades
\* the account bought in.
THEOREM ChargesAreForTrades == Spec => []ChargedForTradesOnly
<1>1. Init => ChargedForTradesOnly
  <2> SUFFICES ASSUME Init, NEW a \in Accounts
               PROVE  spent[a] <= bought[a]
    BY DEF ChargedForTradesOnly
  <2>1. spent[a] = 0 /\ bought[a] = 0
    BY DEF Init, TablesInit
  <2> QED
    BY <2>1
<1>2. TypeOK /\ ChargedForTradesOnly /\ [Next]_vars => ChargedForTradesOnly'
  <2> SUFFICES ASSUME TypeOK, ChargedForTradesOnly, [Next]_vars PROVE ChargedForTradesOnly'
    OBVIOUS
  <2>1. FundsStep
    BY FundsSteps
  <2> QED
    BY <2>1
       DEF FundsStep, ChargedForTradesOnly, TypeOK, TablesTypeOK, reserve_funds, release_funds,
           commit_reserved_funds, CanReserve, CanRelease, funds
<1> QED
  BY <1>1, <1>2, TypeCorrect, PTL DEF Spec

-----------------------------------------------------------------------------
(* Rows and their versions *)

\* An update: the same rows exist, and each is as it was or has the next
\* version, the same owner and the same key; none turns "new" again.
RowsUpdated ==
    /\ DOMAIN orders' = DOMAIN orders
    /\ \A o \in DOMAIN orders :
          \/ orders'[o] = orders[o]
          \/ /\ orders'[o].lock_version = orders[o].lock_version + 1
             /\ orders'[o].account = orders[o].account
             /\ orders'[o].client_order_id = orders[o].client_order_id
             /\ orders'[o].status = "new" => orders[o].status = "new"

LEMMA StatusUpdates ==
    ASSUME NEW row \in RowType, NEW s \in OpenStatuses \cup FinalStatuses
    PROVE  /\ WithStatus(row, s).status = s
           /\ WithStatus(row, s).account = row.account
           /\ WithStatus(row, s).client_order_id = row.client_order_id
           /\ WithStatus(row, s).form = row.form
           /\ WithStatus(row, s).reserved_amount = row.reserved_amount
           /\ WithStatus(row, s) = row \/ WithStatus(row, s).lock_version = row.lock_version + 1
           /\ row.status = s => WithStatus(row, s) = row
<1>1. CASE row.status = s
  BY <1>1 DEF WithStatus
<1>2. CASE row.status # s
  <2>1. WithStatus(row, s) =
          [account |-> row.account, form |-> row.form, status |-> s,
           reserved_amount |-> row.reserved_amount, lock_version |-> row.lock_version + 1,
           client_order_id |-> row.client_order_id]
    BY <1>2 DEF WithStatus, RowType
  <2> QED
    BY <1>2, <2>1
<1> QED
  BY <1>1, <1>2

\* A step inserts one order or updates rows.
LEMMA RowSteps ==
    ASSUME TypeOK, [Next]_vars
    PROVE  \/ \E r \in Requests, o \in OrderIds : InsertOrder(r, o)
           \/ RowsUpdated
<1>1. TablesTypeOK /\ ApiTypeOK /\ EngineTypeOK
  BY DEF TypeOK
<1>2. ASSUME UNCHANGED orders
      PROVE  RowsUpdated
  BY <1>2 DEF RowsUpdated
<1>3. ASSUME NEW r \in Requests, ApiStep(r),
             \A o \in OrderIds : ~ InsertOrder(r, o)
      PROVE  RowsUpdated
  <2>1. CASE CommitCancel(r)
    BY <1>1, <2>1 DEF CommitCancel, WriteRow, RowsUpdated, TablesTypeOK, RowType
  <2>2. CASE CommitReplace(r)
    <3> DEFINE o == req[r].order
               row == WithForm(orders[o], req[r].form)
    <3>1. CASE Unchanged(req[r])
      BY <1>2, <2>2, <3>1 DEF CommitReplace
    <3>2. CASE ~ Unchanged(req[r]) /\ o \in DOMAIN orders
      <4>1. orders[o] \in RowType
        BY <1>1, <3>2 DEF TablesTypeOK
      <4>2. row \in RowType
        BY <1>1, <2>2, <4>1, RequestKinds, RowsOfRows DEF CommitReplace, Replacing
      <4>3. /\ row.account = orders[o].account
            /\ row.client_order_id = orders[o].client_order_id
            /\ row.status = orders[o].status
        BY <4>1 DEF WithForm, RowType
      <4> HIDE DEF row
      <4>4. [row EXCEPT !.lock_version = orders[o].lock_version + 1].account = row.account
        BY <4>2 DEF RowType
      <4>5. [row EXCEPT !.lock_version = orders[o].lock_version + 1].client_order_id
              = row.client_order_id
        BY <4>2 DEF RowType
      <4>6. [row EXCEPT !.lock_version = orders[o].lock_version + 1].lock_version
              = orders[o].lock_version + 1
        BY <4>2 DEF RowType
      <4>7. [row EXCEPT !.lock_version = orders[o].lock_version + 1].status = row.status
        BY <4>2 DEF RowType
      <4>8. orders' = [orders EXCEPT ![o] = [row EXCEPT !.lock_version = orders[o].lock_version + 1]]
        BY <2>2, <3>2 DEF CommitReplace, WriteRow, row
      <4> QED
        BY <1>1, <4>3, <4>4, <4>5, <4>6, <4>7, <4>8 DEF RowsUpdated, TablesTypeOK
    <3>3. CASE ~ Unchanged(req[r]) /\ o \notin DOMAIN orders
      BY <1>1, <2>2, <3>3 DEF CommitReplace, WriteRow, RowsUpdated, TablesTypeOK
    <3> QED
      BY <3>1, <3>2, <3>3
  <2>3. CASE DestroyUpdate(r)
    BY <1>1, <2>3, StatusUpdates DEF DestroyUpdate, RowsUpdated, TablesTypeOK, FinalStatuses
  <2>4. CASE ~ CommitCancel(r) /\ ~ CommitReplace(r) /\ ~ DestroyUpdate(r)
    <3>1. UNCHANGED orders
      BY <1>3, <2>4
         DEF ApiStep, OtherStep, SubmitOrder, RefuseInsert, ReadForCancel, ConflictCancel, ReadForDestroy,
             DestroyRelease, RefuseRelease, ReadForReplace, ValidateReplace, FailReplace,
             RefuseReplace, Abort, tables
    <3> QED
      BY <1>2, <3>1
  <2> QED
    BY <2>1, <2>2, <2>3, <2>4
<1>4. ASSUME NEW e \in Engines, EngineStep(e)
      PROVE  RowsUpdated
  <2>1. CASE RestOrder(e)
    BY <1>1, <2>1, StatusUpdates DEF RestOrder, RowsUpdated, TablesTypeOK, OpenStatuses
  <2>2. CASE ExecuteTrade(e)
    <3>1. \A o \in DOMAIN orders :
             /\ orders[o] \in RowType
             /\ WithStatus(orders[o], "filled") \in RowType
      BY <1>1, RowsOfRows DEF TablesTypeOK, FinalStatuses
    <3>2. \A o \in DOMAIN orders :
             WithStatus(WithStatus(orders[o], "filled"), "filled") = WithStatus(orders[o], "filled")
      BY <3>1, StatusUpdates DEF FinalStatuses
    <3>3. DOMAIN orders' = DOMAIN orders
      BY <2>2 DEF ExecuteTrade
    <3>4. \A o \in DOMAIN orders :
             orders'[o] = orders[o] \/ orders'[o] = WithStatus(orders[o], "filled")
      BY <2>2, <3>2 DEF ExecuteTrade
    <3> QED
      BY <3>1, <3>3, <3>4, StatusUpdates DEF RowsUpdated, FinalStatuses
  <2>3. CASE ~ RestOrder(e) /\ ~ ExecuteTrade(e)
    BY <1>2, <1>4, <2>3 DEF EngineStep, ReadCurrent, FindCounter, FindNone, EngineFault, tables
  <2> QED
    BY <2>1, <2>2, <2>3
<1>5. CASE UNCHANGED vars
  BY <1>2, <1>5 DEF vars, tables
<1> QED
  BY <1>3, <1>4, <1>5 DEF Next

\* A row once read keeps saying by its version whether the table has it still.
LEMMA RowsKeepHolds ==
    ASSUME TablesTypeOK, RowsUpdated \/ \E p, row : InsertRow(p, row),
           NEW o, NEW seen \in RowType, Holds(o, seen)
    PROVE  Holds(o, seen)'
<1>1. o \in DOMAIN orders /\ orders[o] \in RowType
  BY DEF Holds, Exists, TablesTypeOK
<1>2. orders[o].lock_version \in Nat /\ seen.lock_version \in Nat
  BY <1>1 DEF RowType
<1>3. CASE \E p, row : InsertRow(p, row)
  <2>1. o \in DOMAIN orders' /\ orders'[o] = orders[o]
    BY <1>1, <1>3 DEF InsertRow, Exists
  <2> QED
    BY <2>1 DEF Holds, Exists, Current
<1>4. CASE RowsUpdated
  <2>1. o \in DOMAIN orders'
    BY <1>1, <1>4 DEF RowsUpdated
  <2>2. CASE orders'[o] = orders[o]
    BY <2>1, <2>2 DEF Holds, Exists, Current
  <2>3. CASE orders'[o].lock_version = orders[o].lock_version + 1
    BY <1>2, <2>1, <2>3 DEF Holds, Exists, Current
  <2> QED
    BY <1>1, <1>4, <2>2, <2>3 DEF RowsUpdated
<1> QED
  BY <1>3, <1>4

LEMMA HoldsKept ==
    ASSUME TypeOK, [Next]_vars, NEW o \in OrderIds, NEW seen \in RowType, Holds(o, seen)
    PROVE  Holds(o, seen)'
<1>1. RowsUpdated \/ \E p, row : InsertRow(p, row)
  BY RowSteps DEF InsertOrder
<1> QED
  BY <1>1, RowsKeepHolds DEF TypeOK

\* A request thread keeps the row it holds or has just read it.
LEMMA RequestReads ==
    ASSUME TypeOK, [Next]_vars, NEW r \in Requests, req'[r].pc \notin {"idle", "place"}
    PROVE  \/ /\ req[r].pc \notin {"idle", "place"}
              /\ req'[r].order = req[r].order
              /\ req'[r].seen = req[r].seen
           \/ /\ UNCHANGED orders
              /\ Exists(req'[r].order)
              /\ req'[r].seen = orders[req'[r].order]
<1>1. ApiTypeOK
  BY DEF TypeOK
<1>2. CASE req'[r] = req[r]
  BY <1>2
<1>3. CASE req'[r] # req[r]
  <2>1. PICK q \in Requests : ApiStep(q)
    BY <1>3 DEF Next, vars
  <2>2. q = r
    <3>1. ASSUME q # r
          PROVE  req'[r] = req[r]
      BY <1>1, <2>1, <3>1
         DEF ApiTypeOK, ApiStep, OtherStep, SubmitOrder, InsertOrder, RefuseInsert, ReadForCancel,
             CommitCancel, ConflictCancel, ReadForDestroy, DestroyRelease, DestroyUpdate,
             RefuseRelease, ReadForReplace, ValidateReplace, CommitReplace, FailReplace,
             RefuseReplace, Abort, Answer, Become
    <3> QED
      BY <1>3, <3>1
  <2>3. req'[r] # Idle
    BY DEF Idle
  <2>4. CASE DestroyRelease(r)
    <3>1. req[r] \in Closing
      BY <1>1, <2>4, RequestKinds DEF DestroyRelease
    <3> QED
      BY <1>1, <2>4, <3>1 DEF DestroyRelease, Become, ApiTypeOK, Closing
  <2>5. CASE ValidateReplace(r)
    <3>1. req[r] \in Replacing
      BY <1>1, <2>5, RequestKinds DEF ValidateReplace
    <3> QED
      BY <1>1, <2>3, <2>5, <3>1 DEF ValidateReplace, Answer, Become, ApiTypeOK, Replacing
  <2>6. CASE \/ \E o \in OrderIds : \/ ReadForCancel(r, o)
                                    \/ ReadForDestroy(r, o)
                                    \/ \E form \in Forms : ReadForReplace(r, o, form)
    BY <1>1, <2>6
       DEF ReadForCancel, ReadForDestroy, ReadForReplace, Become, ApiTypeOK, tables
  <2>7. ASSUME NEW account \in Accounts, NEW form \in Forms, NEW key \in Keys \cup {NoKey},
               SubmitOrder(r, account, form, key)
        PROVE  req'[r].pc = "place"
    BY <1>1, <2>7 DEF SubmitOrder, Become, ApiTypeOK
  <2>8. ASSUME \/ \E o \in OrderIds : InsertOrder(r, o)
               \/ RefuseInsert(r) \/ CommitCancel(r) \/ ConflictCancel(r) \/ DestroyUpdate(r)
               \/ RefuseRelease(r) \/ CommitReplace(r) \/ FailReplace(r) \/ RefuseReplace(r)
               \/ Abort(r)
        PROVE  req'[r] = Idle
    BY <1>1, <2>8
       DEF InsertOrder, RefuseInsert, CommitCancel, ConflictCancel, DestroyUpdate, RefuseRelease,
           CommitReplace, FailReplace, RefuseReplace, Abort, Answer, Become, ApiTypeOK
  <2> QED
    BY <2>1, <2>2, <2>3, <2>4, <2>5, <2>6, <2>7, <2>8 DEF ApiStep, OtherStep
<1> QED
  BY <1>2, <1>3

\* So does an engine, for the order and for its counter order.
LEMMA EngineReads ==
    ASSUME TypeOK, [Next]_vars, NEW e \in Engines, eng'[e].pc # "wait"
    PROVE  /\ \/ /\ eng[e].pc # "wait"
                 /\ eng'[e].order = eng[e].order
                 /\ eng'[e].seen = eng[e].seen
              \/ /\ UNCHANGED orders
                 /\ eng[e].pc = "wait"
                 /\ Exists(eng'[e].order)
                 /\ orders[eng'[e].order].status = "new"
                 /\ eng'[e].seen = orders[eng'[e].order]
           /\ eng'[e].pc = "trade" =>
                 \/ eng'[e] = eng[e]
                 \/ /\ UNCHANGED orders
                    /\ eng'[e].counter \in DOMAIN orders \ {eng'[e].order}
                    /\ orders[eng'[e].counter].status = "new"
                    /\ eng'[e].counterSeen = orders[eng'[e].counter]
<1> DEFINE
      OrderKept ==
        \/ eng[e].pc # "wait" /\ eng'[e].order = eng[e].order /\ eng'[e].seen = eng[e].seen
        \/ /\ UNCHANGED orders
           /\ eng[e].pc = "wait"
           /\ Exists(eng'[e].order)
           /\ orders[eng'[e].order].status = "new"
           /\ eng'[e].seen = orders[eng'[e].order]
      CounterKept ==
        eng'[e].pc = "trade" =>
          \/ eng'[e] = eng[e]
          \/ /\ UNCHANGED orders
             /\ eng'[e].counter \in DOMAIN orders \ {eng'[e].order}
             /\ orders[eng'[e].counter].status = "new"
             /\ eng'[e].counterSeen = orders[eng'[e].counter]
<1>1. EngineTypeOK
  BY DEF TypeOK
<1>2. CASE eng'[e] = eng[e]
  BY <1>2
<1>3. CASE eng'[e] # eng[e]
  <2>1. PICK f \in Engines : EngineStep(f)
    BY <1>3 DEF Next, vars
  <2>2. f = e
    <3>1. ASSUME f # e
          PROVE  eng'[e] = eng[e]
      BY <1>1, <2>1, <3>1
         DEF EngineTypeOK, EngineStep, ReadCurrent, FindCounter, FindNone, RestOrder,
             ExecuteTrade, EngineFault, Proceed
    <3> QED
      BY <1>3, <3>1
  <2>3. eng'[e] # Waiting
    BY DEF Waiting
  <2>4. ~ (RestOrder(e) \/ ExecuteTrade(e) \/ EngineFault(e))
    BY <1>1, <2>3 DEF RestOrder, ExecuteTrade, EngineFault, Proceed, EngineTypeOK
  <2>5. ASSUME NEW o \in OrderIds, ReadCurrent(e, o)
        PROVE  OrderKept /\ CounterKept
    <3>1. /\ eng'[e] = [pc |-> "match", order |-> o, seen |-> orders[o]]
          /\ UNCHANGED orders /\ Exists(o) /\ orders[o].status = "new" /\ eng[e] = Waiting
      BY <1>1, <2>5 DEF ReadCurrent, Proceed, EngineTypeOK, tables
    <3> QED
      BY <3>1 DEF Waiting
  <2>6. ASSUME NEW c \in OrderIds, FindCounter(e, c)
        PROVE  OrderKept /\ CounterKept
    <3>1. eng'[e] = [pc |-> "trade", order |-> eng[e].order, seen |-> eng[e].seen,
                     counter |-> c, counterSeen |-> orders[c]]
      BY <1>1, <2>6 DEF FindCounter, Proceed, EngineTypeOK
    <3>2. /\ UNCHANGED orders /\ eng[e].pc = "match"
          /\ c \in DOMAIN orders \ {eng[e].order} /\ orders[c].status = "new"
      BY <2>6 DEF FindCounter, Candidates, Opposes, tables
    <3> QED
      BY <3>1, <3>2
  <2>7. ASSUME FindNone(e)
        PROVE  OrderKept /\ CounterKept
    <3>1. eng[e] \in Processing
      BY <1>1, <2>7, EngineKinds DEF FindNone
    <3>2. eng'[e] = [eng[e] EXCEPT !.pc = "rest"]
      BY <1>1, <2>7 DEF FindNone, Proceed, EngineTypeOK
    <3> QED
      BY <2>7, <3>1, <3>2 DEF FindNone, Processing
  <2> QED
    BY <2>1, <2>2, <2>4, <2>5, <2>6, <2>7 DEF EngineStep
<1> QED
  BY <1>2, <1>3

\* Every step keeps versions telling.
LEMMA LockStep ==
    ASSUME TypeOK, TypeOK', OptimisticLock, [Next]_vars
    PROVE  OptimisticLock'
<1>1. ASSUME NEW o, Exists(o), orders[o] \in RowType
      PROVE  Holds(o, orders[o])
  <2>1. orders[o].lock_version \in Nat
    BY <1>1 DEF RowType
  <2> QED
    BY <1>1, <2>1 DEF Holds
<1>2. ASSUME UNCHANGED orders, NEW o, Exists(o), o \in OrderIds
      PROVE  Holds(o, orders[o])'
  <2>1. Holds(o, orders[o])
    BY <1>1, <1>2 DEF TypeOK, TablesTypeOK, Exists
  <2> QED
    BY <1>2, <2>1 DEF Holds, Exists, Current
<1>3. ASSUME NEW r \in Requests, req'[r].pc \notin {"idle", "place"}
      PROVE  Holds(req[r].order, req[r].seen)'
  <2>1. req'[r].order \in OrderIds /\ req'[r].seen \in RowType
    BY <1>3 DEF TypeOK, ApiTypeOK, Idle, Placing, Closing, Replacing
  <2>2. CASE /\ req[r].pc \notin {"idle", "place"}
             /\ req'[r].order = req[r].order
             /\ req'[r].seen = req[r].seen
    <3>1. Holds(req'[r].order, req'[r].seen)
      BY <2>2 DEF OptimisticLock
    <3> QED
      BY <2>1, <3>1, HoldsKept DEF Holds, Exists, Current
  <2>3. CASE /\ UNCHANGED orders
             /\ Exists(req'[r].order)
             /\ req'[r].seen = orders[req'[r].order]
    BY <1>2, <2>1, <2>3 DEF Holds, Exists, Current
  <2> QED
    BY <1>3, <2>2, <2>3, RequestReads
<1>4. ASSUME NEW e \in Engines, eng'[e].pc # "wait"
      PROVE  Holds(eng[e].order, eng[e].seen)'
  <2>1. eng'[e].order \in OrderIds /\ eng'[e].seen \in RowType
    BY <1>4 DEF TypeOK, EngineTypeOK, Waiting, Processing, Executing
  <2>2. CASE eng[e].pc # "wait" /\ eng'[e].order = eng[e].order /\ eng'[e].seen = eng[e].seen
    <3>1. Holds(eng'[e].order, eng'[e].seen)
      BY <2>2 DEF OptimisticLock
    <3> QED
      BY <2>1, <3>1, HoldsKept DEF Holds, Exists, Current
  <2>3. CASE UNCHANGED orders /\ Exists(eng'[e].order) /\ eng'[e].seen = orders[eng'[e].order]
    BY <1>2, <2>1, <2>3 DEF Holds, Exists, Current
  <2> QED
    BY <1>4, <2>2, <2>3, EngineReads
<1>5. ASSUME NEW e \in Engines, eng'[e].pc = "trade"
      PROVE  Holds(eng[e].counter, eng[e].counterSeen)'
  <2>1. eng'[e].counter \in OrderIds /\ eng'[e].counterSeen \in RowType
    BY <1>5 DEF TypeOK, EngineTypeOK, Waiting, Processing, Executing
  <2>2. CASE eng'[e] = eng[e]
    <3>1. Holds(eng'[e].counter, eng'[e].counterSeen)
      BY <1>5, <2>2 DEF OptimisticLock
    <3> QED
      BY <2>1, <3>1, HoldsKept DEF Holds, Exists, Current
  <2>3. CASE /\ UNCHANGED orders
             /\ eng'[e].counter \in DOMAIN orders
             /\ eng'[e].counterSeen = orders[eng'[e].counter]
    BY <1>2, <2>1, <2>3 DEF Holds, Exists, Current
  <2> QED
    BY <1>5, <2>2, <2>3, EngineReads
<1> QED
  BY <1>3, <1>4, <1>5 DEF OptimisticLock

\* Whatever the interleaving of handlers and engines, a thread whose row has the
\* version the table has holds the row the table has.
THEOREM VersionsTell == Spec => []OptimisticLock
<1>1. Init => OptimisticLock
  BY DEF Init, ApiInit, EngineInit, OptimisticLock, Idle, Waiting
<1>2. TypeOK /\ TypeOK' /\ OptimisticLock /\ [Next]_vars => OptimisticLock'
  BY LockStep
<1> QED
  BY <1>1, <1>2, TypeCorrect, PTL DEF Spec

\* The orders of one account have different keys, however often and by however
\* many threads a client sends a request again.
THEOREM KeysAreUnique == Spec => []OneOrderPerKey
<1>1. Init => OneOrderPerKey
  BY DEF Init, TablesInit, OneOrderPerKey
<1>2. TypeOK /\ OneOrderPerKey /\ [Next]_vars => OneOrderPerKey'
  <2> SUFFICES ASSUME TypeOK, OneOrderPerKey, [Next]_vars PROVE OneOrderPerKey'
    OBVIOUS
  <2>1. ASSUME NEW r \in Requests, NEW o \in OrderIds, InsertOrder(r, o)
        PROVE  OneOrderPerKey'
    <3>1. /\ DOMAIN orders' = DOMAIN orders \cup {o}
          /\ \A p \in DOMAIN orders : orders'[p] = orders[p]
          /\ orders'[o].account = req[r].account
          /\ orders'[o].client_order_id = req[r].key
      BY <2>1 DEF InsertOrder, InsertRow, Exists, NewRow
    <3>2. ~ KeyTaken(req[r].account, req[r].key)
      BY <2>1 DEF InsertOrder
    <3> QED
      BY <3>1, <3>2 DEF OneOrderPerKey, KeyTaken
  <2>2. CASE RowsUpdated
    <3>1. \A p \in DOMAIN orders : /\ orders'[p].account = orders[p].account
                                   /\ orders'[p].client_order_id = orders[p].client_order_id
      BY <2>2 DEF RowsUpdated
    <3> QED
      BY <2>2, <3>1 DEF RowsUpdated, OneOrderPerKey
  <2> QED
    BY <2>1, <2>2, RowSteps
<1> QED
  BY <1>1, <1>2, TypeCorrect, PTL DEF Spec

-----------------------------------------------------------------------------
(* The service the pages rely on *)

\* A step that only updates rows is one the service allows.
LEMMA UpdatesServe ==
    ASSUME TablesTypeOK, RowsUpdated
    PROVE  Service!ServiceNext
<1>1. \A o \in DOMAIN orders : orders[o].lock_version \in Nat
  BY DEF TablesTypeOK, RowType
<1>2. \A o \in DOMAIN orders : orders'[o] = orders[o] \/ Service!Changed(o)
  BY <1>1 DEF RowsUpdated, Service!Changed
<1> QED
  BY <1>2 DEF RowsUpdated, Service!ServiceNext

\* So is an insert under no key, or under one the account has not used.
LEMMA InsertServes ==
    ASSUME NEW o, NEW a, NEW form, NEW key, InsertRow(o, NewRow(a, form, key)),
           key = NoKey \/ ~ KeyTaken(a, key)
    PROVE  Service!ServiceNext
<1>1. /\ DOMAIN orders' = DOMAIN orders \cup {o}
      /\ \A p \in DOMAIN orders : orders'[p] = orders[p]
      /\ orders'[o].account = a
      /\ orders'[o].client_order_id = key
      /\ orders'[o].status = "new" /\ orders'[o].lock_version = 0
  BY DEF InsertRow, Exists, NewRow
<1>2. Service!Placed(o)
  BY <1>1 DEF Service!Placed, Service!SameKey, KeyTaken
<1> QED
  BY <1>1, <1>2 DEF Service!ServiceNext

\* Every step of the order path is a step of the service.
LEMMA ServiceStep ==
    ASSUME TypeOK, [Next]_vars
    PROVE  [Service!ServiceNext]_orders
<1>1. ASSUME NEW r \in Requests, NEW o \in OrderIds, InsertOrder(r, o)
      PROVE  Service!ServiceNext
  BY <1>1, InsertServes DEF InsertOrder
<1>2. CASE RowsUpdated
  BY <1>2, UpdatesServe DEF TypeOK
<1> QED
  BY <1>1, <1>2, RowSteps

\* Whatever request threads and engines do to each other, the orders table is
\* the one the API promises: orders come one at a time under keys of their own,
\* none goes, and every change shows in lock_version.
THEOREM TradingIsOrderService == Spec => ImplementsOrderService
<1>1. Init => Service!ServiceInit
  BY DEF Init, TablesInit, Service!ServiceInit
<1>2. TypeOK /\ [Next]_vars => [Service!ServiceNext]_orders
  BY ServiceStep
<1> QED
  BY <1>1, <1>2, TypeCorrect, PTL DEF Spec, ImplementsOrderService, Service!ServiceSpec

-----------------------------------------------------------------------------
(* Executions, when one engine runs *)

\* Only a trade adds executions, to its order and its counter order.
LEMMA ExecutionSteps ==
    ASSUME TypeOK, [Next]_vars, ~ \E e \in Engines : ExecuteTrade(e)
    PROVE  executions' = executions
BY DEF Next, vars, tables, ApiStep, OtherStep, SubmitOrder, InsertOrder, RefuseInsert, ReadForCancel,
       CommitCancel, ConflictCancel, ReadForDestroy, DestroyRelease, DestroyUpdate,
       RefuseRelease, ReadForReplace, ValidateReplace, CommitReplace, FailReplace,
       RefuseReplace, Abort, EngineStep, ReadCurrent, FindCounter, FindNone, RestOrder,
       EngineFault

\* What a trade does to the rows and the executions.
LEMMA TradeEffect ==
    ASSUME TypeOK, NEW e \in Engines, ExecuteTrade(e)
    PROVE  /\ eng[e] \in Executing
           /\ eng'[e] = Waiting
           /\ DOMAIN orders' = DOMAIN orders
           /\ \A o \in DOMAIN orders :
                 IF o \in {eng[e].order, eng[e].counter}
                 THEN orders'[o].status = "filled"
                 ELSE orders'[o] = orders[o]
           /\ eng[e].order # eng[e].counter =>
                 \A o \in OrderIds :
                    executions'[o] = IF o \in {eng[e].order, eng[e].counter}
                                     THEN executions[o] + 1 ELSE executions[o]
<1>1. eng[e] \in Executing
  BY EngineKinds DEF TypeOK, ExecuteTrade
<1>2. eng'[e] = Waiting
  BY DEF ExecuteTrade, Proceed, TypeOK, EngineTypeOK
<1>3. DOMAIN orders' = DOMAIN orders
  BY DEF ExecuteTrade
<1>4. ASSUME NEW o \in DOMAIN orders
      PROVE  IF o \in {eng[e].order, eng[e].counter}
             THEN orders'[o].status = "filled"
             ELSE orders'[o] = orders[o]
  <2>1. orders[o] \in RowType
    BY DEF TypeOK, TablesTypeOK
  <2>2. WithStatus(orders[o], "filled").status = "filled"
    BY <2>1, StatusUpdates DEF FinalStatuses
  <2>3. WithStatus(WithStatus(orders[o], "filled"), "filled").status = "filled"
    BY <2>2 DEF WithStatus
  <2> QED
    BY <2>2, <2>3 DEF ExecuteTrade
<1>5. ASSUME eng[e].order # eng[e].counter, NEW o \in OrderIds
      PROVE  executions'[o] = IF o \in {eng[e].order, eng[e].counter}
                              THEN executions[o] + 1 ELSE executions[o]
  BY <1>5 DEF ExecuteTrade, TypeOK, TablesTypeOK
<1> QED
  BY <1>1, <1>2, <1>3, <1>4, <1>5

OneEngine == \A e, f \in Engines : e = f

LEMMA ExecutionStep ==
    ASSUME OneEngine, TypeOK, OptimisticLock, ExecutionInv, SingleExecution, [Next]_vars
    PROVE  ExecutionInv' /\ SingleExecution'
<1>1. executions \in [OrderIds -> Nat]
  BY DEF TypeOK, TablesTypeOK
<1>2. CASE \E e \in Engines : ExecuteTrade(e)
  <2>1. PICK e \in Engines : ExecuteTrade(e)
    BY <1>2
  <2>2. /\ eng[e].pc = "trade" /\ eng[e].order # eng[e].counter
        /\ executions[eng[e].order] = 0 /\ executions[eng[e].counter] = 0
    BY <2>1 DEF ExecuteTrade, ExecutionInv
  <2>3. eng[e].order \in DOMAIN orders /\ eng[e].counter \in DOMAIN orders
    BY <2>2 DEF OptimisticLock, Holds, Exists
  <2>4. \A f \in Engines : eng'[f] = Waiting
    BY <2>1, TradeEffect DEF OneEngine
  <2>5. SingleExecution'
    BY <1>1, <2>1, <2>2, TradeEffect DEF SingleExecution
  <2>6. \A o \in OrderIds : executions'[o] > 0 => o \in DOMAIN orders' /\ orders'[o].status # "new"
    BY <1>1, <2>1, <2>2, <2>3, TradeEffect DEF ExecutionInv, Exists
  <2> QED
    BY <2>4, <2>5, <2>6 DEF ExecutionInv, Exists, Waiting
<1>3. CASE ~ \E e \in Engines : ExecuteTrade(e)
  <2>1. executions' = executions
    BY <1>3, ExecutionSteps
  <2>2. \A o \in OrderIds : executions'[o] > 0 => o \in DOMAIN orders' /\ orders'[o].status # "new"
    <3>1. ASSUME NEW r \in Requests, NEW p \in OrderIds, InsertOrder(r, p)
          PROVE  \A o \in DOMAIN orders : o \in DOMAIN orders' /\ orders'[o] = orders[o]
      BY <3>1 DEF InsertOrder, InsertRow, Exists
    <3>2. ASSUME RowsUpdated
          PROVE  \A o \in DOMAIN orders : /\ o \in DOMAIN orders'
                                          /\ orders'[o].status = "new" => orders[o].status = "new"
      BY <3>2 DEF RowsUpdated
    <3>3. \A o \in DOMAIN orders : /\ o \in DOMAIN orders'
                                   /\ orders'[o].status = "new" => orders[o].status = "new"
      <4>1. CASE \E r \in Requests, p \in OrderIds : InsertOrder(r, p)
        <5>1. PICK r \in Requests, p \in OrderIds : InsertOrder(r, p)
          BY <4>1
        <5> QED
          BY <3>1, <5>1
      <4> QED
        BY <3>2, <4>1, RowSteps
    <3>4. \A o \in OrderIds : executions[o] > 0 => o \in DOMAIN orders /\ orders[o].status # "new"
      BY DEF ExecutionInv, Exists
    <3> QED
      BY <2>1, <3>3, <3>4
  <2>3. ASSUME NEW o \in OrderIds, Exists(o), orders[o].status = "new"
        PROVE  executions[o] = 0
    BY <1>1, <2>3 DEF ExecutionInv
  <2>4. ASSUME NEW e \in Engines, eng'[e].pc # "wait"
        PROVE  executions'[eng'[e].order] = 0
    <3>1. CASE eng[e].pc # "wait" /\ eng'[e].order = eng[e].order
      BY <2>1, <3>1 DEF ExecutionInv
    <3>2. CASE Exists(eng'[e].order) /\ orders[eng'[e].order].status = "new"
      BY <2>1, <2>3, <3>2 DEF Exists, TypeOK, TablesTypeOK
    <3> QED
      BY <2>4, <3>1, <3>2, EngineReads
  <2>5. ASSUME NEW e \in Engines, eng'[e].pc = "trade"
        PROVE  executions'[eng'[e].counter] = 0 /\ eng'[e].counter # eng'[e].order
    <3>1. CASE eng'[e] = eng[e]
      <4>1. /\ executions[eng[e].counter] = 0
            /\ eng[e].counter # eng[e].order
        BY <2>5, <3>1 DEF ExecutionInv
      <4> QED
        BY <2>1, <3>1, <4>1
    <3>2. CASE /\ eng'[e].counter \in DOMAIN orders \ {eng'[e].order}
               /\ orders[eng'[e].counter].status = "new"
      BY <2>1, <2>3, <3>2 DEF Exists, TypeOK, TablesTypeOK
    <3> QED
      BY <2>5, <3>1, <3>2, EngineReads
  <2> QED
    BY <2>1, <2>2, <2>4, <2>5 DEF ExecutionInv, SingleExecution, Exists
<1> QED
  BY <1>2, <1>3

\* At first nothing is executed and no engine holds an order.
LEMMA ExecutionsStart == Init => ExecutionInv /\ SingleExecution
<1> SUFFICES ASSUME Init PROVE ExecutionInv /\ SingleExecution
  OBVIOUS
<1>1. \A o \in OrderIds : executions[o] = 0
  BY DEF Init, TablesInit
<1>2. \A e \in Engines : eng[e].pc = "wait"
  BY DEF Init, EngineInit, Waiting
<1> QED
  BY <1>1, <1>2 DEF ExecutionInv, SingleExecution

LEMMA ExecutionsAreKept ==
    ASSUME OneEngine
    PROVE  Spec => [](ExecutionInv /\ SingleExecution)
<1>1. Init => ExecutionInv /\ SingleExecution
  BY ExecutionsStart
<1>2. TypeOK /\ OptimisticLock /\ ExecutionInv /\ SingleExecution /\ [Next]_vars
        => ExecutionInv' /\ SingleExecution'
  BY ExecutionStep
<1> QED
  BY <1>1, <1>2, TypeCorrect, VersionsTell, PTL DEF Spec

\* With one engine, what the engine holds was not executed before, and neither
\* was an order that is still "new".
THEOREM HeldIsUnexecuted ==
    ASSUME OneEngine
    PROVE  Spec => []ExecutionInv
BY ExecutionsAreKept, PTL

\* With one engine no order is executed twice, whatever the request threads do
\* and wherever the engine fails.
THEOREM ExecutedOnce ==
    ASSUME OneEngine
    PROVE  Spec => []SingleExecution
BY ExecutionsAreKept, PTL

\* Without DELETE, what a cancel holds was open when it was read.
LEMMA ClosingStep ==
    ASSUME "destroy" \notin Endpoints, TypeOK, ClosingInv, [Next]_vars
    PROVE  ClosingInv'
<1> SUFFICES ASSUME NEW r \in Requests
             PROVE  /\ req'[r].pc \notin {"release", "close"}
                    /\ req'[r].pc = "cancel" => req'[r].seen.status \in OpenStatuses
  BY DEF ClosingInv
<1>1. ApiTypeOK
  BY DEF TypeOK
<1>2. CASE req'[r] = req[r]
  BY <1>2 DEF ClosingInv
<1>3. CASE req'[r] # req[r]
  <2>1. PICK q \in Requests : ApiStep(q)
    BY <1>3 DEF Next, vars
  <2>2. CASE \E o \in OrderIds : ReadForCancel(q, o)
    BY <1>1, <1>3, <2>2 DEF ReadForCancel, Become, ApiTypeOK
  <2>3. CASE \E account \in Accounts, form \in Forms, key \in Keys \cup {NoKey} :
                SubmitOrder(q, account, form, key)
    BY <1>1, <1>3, <2>3 DEF SubmitOrder, Become, ApiTypeOK
  <2>4. CASE \E o \in OrderIds, form \in Forms : ReadForReplace(q, o, form)
    BY <1>1, <1>3, <2>4 DEF ReadForReplace, Become, ApiTypeOK
  <2>5. CASE ValidateReplace(q)
    <3>1. req[q] \in Replacing
      BY <1>1, <2>5, RequestKinds DEF ValidateReplace
    <3>2. req'[r] = [req[q] EXCEPT !.pc = "replace"] \/ req'[r] = Idle
      BY <1>1, <1>3, <2>5 DEF ValidateReplace, Answer, Become, ApiTypeOK
    <3>3. CASE req'[r] = [req[q] EXCEPT !.pc = "replace"]
      <4>1. req'[r].pc = "replace"
        BY <3>1, <3>3 DEF Replacing
      <4> QED
        BY <4>1
    <3>4. CASE req'[r] = Idle
      BY <3>4 DEF Idle
    <3> QED
      BY <3>2, <3>3, <3>4
  <2>6. ~ DestroyRelease(q) /\ ~ \E o \in OrderIds : ReadForDestroy(q, o)
    BY DEF DestroyRelease, ReadForDestroy, ClosingInv
  <2>7. ASSUME \/ \E o \in OrderIds : InsertOrder(q, o)
               \/ RefuseInsert(q) \/ CommitCancel(q) \/ ConflictCancel(q) \/ DestroyUpdate(q)
               \/ RefuseRelease(q) \/ CommitReplace(q) \/ FailReplace(q) \/ RefuseReplace(q)
               \/ Abort(q)
        PROVE  req'[r] = Idle
    BY <1>1, <1>3, <2>7
       DEF InsertOrder, RefuseInsert, CommitCancel, ConflictCancel, DestroyUpdate, RefuseRelease,
           CommitReplace, FailReplace, RefuseReplace, Abort, Answer, Become, ApiTypeOK
  <2>8. Idle.pc \notin {"release", "close", "cancel"}
    BY DEF Idle
  <2> QED
    BY <2>1, <2>2, <2>3, <2>4, <2>5, <2>6, <2>7, <2>8 DEF ApiStep, OtherStep
<1> QED
  BY <1>2, <1>3

\* The four steps that write a status over a row.
LEMMA StatusSteps ==
    ASSUME TypeOK, [Next]_vars, NEW o \in DOMAIN orders, orders'[o].status # orders[o].status
    PROVE  \/ \E r \in Requests : CommitCancel(r) /\ req[r].order = o
           \/ \E r \in Requests : DestroyUpdate(r)
           \/ \E e \in Engines : RestOrder(e) /\ eng[e].order = o /\ orders'[o].status = "working"
           \/ \E e \in Engines : ExecuteTrade(e)
<1>1. TablesTypeOK /\ ApiTypeOK /\ orders[o] \in RowType
  BY DEF TypeOK, TablesTypeOK
<1>2. orders' # orders
  OBVIOUS
<1>3. ASSUME NEW r \in Requests, ApiStep(r), ~ DestroyUpdate(r)
      PROVE  CommitCancel(r) /\ req[r].order = o
  <2>1. CASE CommitCancel(r)
    BY <1>1, <2>1 DEF CommitCancel, WriteRow, TablesTypeOK
  <2>2. ASSUME NEW p \in OrderIds, InsertOrder(r, p)
        PROVE  FALSE
    BY <2>2 DEF InsertOrder, InsertRow, Exists
  <2>3. CASE CommitReplace(r)
    <3> DEFINE p == req[r].order
               row == WithForm(orders[p], req[r].form)
    <3>1. orders' = [orders EXCEPT ![p] = [row EXCEPT !.lock_version = orders[p].lock_version + 1]]
      BY <1>2, <2>3 DEF CommitReplace, WriteRow
    <3>2. p = o
      BY <1>1, <3>1 DEF TablesTypeOK
    <3>3. row \in RowType /\ row.status = orders[o].status
      <4>1. req[r].form \in FormType
        BY <1>1, <2>3, RequestKinds DEF CommitReplace, Replacing
      <4>2. WithForm(orders[o], req[r].form).status = orders[o].status
        BY <1>1 DEF WithForm, RowType
      <4> QED
        BY <1>1, <3>2, <4>1, <4>2, RowsOfRows
    <3> HIDE DEF row
    <3>4. [row EXCEPT !.lock_version = orders[p].lock_version + 1].status = row.status
      BY <3>3 DEF RowType
    <3>5. orders'[o].status = orders[o].status
      BY <1>1, <3>1, <3>2, <3>3, <3>4 DEF TablesTypeOK
    <3> QED
      BY <3>5
  <2>4. CASE UNCHANGED orders
    BY <1>2, <2>4
  <2> QED
    BY <1>3, <2>1, <2>2, <2>3, <2>4
       DEF ApiStep, OtherStep, SubmitOrder, RefuseInsert, ReadForCancel, ConflictCancel, ReadForDestroy,
           DestroyRelease, RefuseRelease, ReadForReplace, ValidateReplace, FailReplace,
           RefuseReplace, Abort, tables
<1>4. ASSUME NEW e \in Engines, EngineStep(e), ~ ExecuteTrade(e)
      PROVE  RestOrder(e) /\ eng[e].order = o /\ orders'[o].status = "working"
  <2>1. RestOrder(e)
    BY <1>2, <1>4 DEF EngineStep, ReadCurrent, FindCounter, FindNone, EngineFault, tables
  <2>2. WithStatus(orders[o], "working").status = "working"
    BY <1>1, StatusUpdates DEF OpenStatuses
  <2> QED
    BY <2>1, <2>2 DEF RestOrder
<1> QED
  BY <1>2, <1>3, <1>4 DEF Next, vars, tables

LEMMA FilledStep ==
    ASSUME OneEngine, TypeOK, OptimisticLock, ExecutionInv, ClosingInv, FilledIffExecuted, [Next]_vars
    PROVE  FilledIffExecuted'
<1>1. executions \in [OrderIds -> Nat] /\ DOMAIN orders \subseteq OrderIds
  BY DEF TypeOK, TablesTypeOK
<1>2. ASSUME NEW e \in Engines, ExecuteTrade(e)
      PROVE  FilledIffExecuted'
  <2>1. eng[e].pc = "trade" /\ eng[e].order # eng[e].counter
    BY <1>2 DEF ExecuteTrade, ExecutionInv
  <2>2. ASSUME NEW o \in DOMAIN orders
        PROVE  orders'[o].status = "filled" <=> executions'[o] > 0
    <3>1. CASE o \in {eng[e].order, eng[e].counter}
      <4>1. orders'[o].status = "filled" /\ executions'[o] = executions[o] + 1
        BY <1>1, <1>2, <2>1, <3>1, TradeEffect
      <4>2. executions[o] \in Nat
        BY <1>1
      <4> QED
        BY <4>1, <4>2
    <3>2. CASE o \notin {eng[e].order, eng[e].counter}
      <4>1. orders'[o] = orders[o] /\ executions'[o] = executions[o]
        BY <1>1, <1>2, <2>1, <3>2, TradeEffect
      <4> QED
        BY <4>1 DEF FilledIffExecuted
    <3> QED
      BY <3>1, <3>2
  <2> QED
    BY <1>2, <2>2, TradeEffect DEF FilledIffExecuted
<1>3. ASSUME ~ \E e \in Engines : ExecuteTrade(e)
      PROVE  FilledIffExecuted'
  <2>1. executions' = executions
    BY <1>3, ExecutionSteps
  <2>2. ASSUME NEW o \in DOMAIN orders
        PROVE  orders'[o].status = "filled" <=> orders[o].status = "filled"
    <3>1. CASE orders'[o].status = orders[o].status
      BY <3>1
    <3>2. ASSUME NEW r \in Requests, CommitCancel(r), req[r].order = o
          PROVE  orders[o].status # "filled" /\ orders'[o].status = "cancelled"
      <4>1. orders[o] = req[r].seen /\ req[r].seen.status \in OpenStatuses
        BY <3>2 DEF CommitCancel, OptimisticLock, Holds, ClosingInv
      <4>2. orders[o] \in RowType
        BY DEF TypeOK, TablesTypeOK
      <4>3. orders'[o].status = "cancelled"
        BY <3>2, <4>2 DEF CommitCancel, WriteRow, RowType
      <4> QED
        BY <4>1, <4>3 DEF OpenStatuses
    <3>3. ASSUME NEW e \in Engines, RestOrder(e), eng[e].order = o
          PROVE  orders[o].status # "filled"
      <4>1. executions[o] = 0
        BY <3>3 DEF RestOrder, ExecutionInv
      <4> QED
        BY <4>1 DEF FilledIffExecuted
    <3>4. \A r \in Requests : ~ DestroyUpdate(r)
      BY DEF DestroyUpdate, ClosingInv
    <3>5. CASE \E r \in Requests : CommitCancel(r) /\ req[r].order = o
      BY <3>2, <3>5
    <3>6. CASE \E e \in Engines : RestOrder(e) /\ eng[e].order = o /\ orders'[o].status = "working"
      BY <3>3, <3>6
    <3> QED
      BY <1>3, <3>1, <3>4, <3>5, <3>6, StatusSteps
  <2>3. ASSUME NEW r \in Requests, NEW p \in OrderIds, InsertOrder(r, p)
        PROVE  FilledIffExecuted'
    <3>1. /\ DOMAIN orders' = DOMAIN orders \cup {p}
          /\ orders'[p].status = "new"
      BY <2>3 DEF InsertOrder, InsertRow, NewRow
    <3>2. ~ (executions[p] > 0)
      BY <2>3 DEF InsertOrder, InsertRow, ExecutionInv
    <3> QED
      BY <2>1, <2>2, <3>1, <3>2 DEF FilledIffExecuted
  <2>4. CASE RowsUpdated
    BY <2>1, <2>2, <2>4 DEF RowsUpdated, FilledIffExecuted
  <2> QED
    BY <2>3, <2>4, RowSteps
<1> QED
  BY <1>2, <1>3

\* With one engine and without DELETE, the filled orders are the executed ones.
THEOREM FilledMeansExecuted ==
    ASSUME OneEngine, "destroy" \notin Endpoints
    PROVE  Spec => [](ClosingInv /\ FilledIffExecuted)
<1>1. Init => ClosingInv /\ FilledIffExecuted
  BY DEF Init, ApiInit, TablesInit, ClosingInv, FilledIffExecuted, Idle
<1>2. TypeOK /\ ClosingInv /\ [Next]_vars => ClosingInv'
  BY ClosingStep
<1>3. TypeOK /\ OptimisticLock /\ ExecutionInv /\ ClosingInv /\ FilledIffExecuted /\ [Next]_vars
        => FilledIffExecuted'
  BY FilledStep
<1> QED
  BY <1>1, <1>2, <1>3, TypeCorrect, VersionsTell, ExecutionsAreKept, PTL DEF Spec

\* And a filled order stays filled: the versions keep cancel and replace from
\* touching it, and the engine never comes back to what it executed.
THEOREM FilledStays ==
    ASSUME OneEngine, "destroy" \notin Endpoints
    PROVE  Spec => FilledIsFinal
<1>1. /\ TypeOK /\ OptimisticLock /\ ExecutionInv /\ ClosingInv /\ FilledIffExecuted
      /\ FilledIffExecuted' /\ [Next]_vars
      => [\A o \in DOMAIN orders :
             orders[o].status = "filled" => orders'[o].status = "filled"]_vars
  <2> SUFFICES ASSUME TypeOK, OptimisticLock, ExecutionInv, ClosingInv, FilledIffExecuted,
                      FilledIffExecuted', [Next]_vars,
                      NEW o \in DOMAIN orders, orders[o].status = "filled"
               PROVE  orders'[o].status = "filled"
    OBVIOUS
  <2>1. executions \in [OrderIds -> Nat] /\ o \in OrderIds /\ executions[o] > 0
    BY DEF TypeOK, TablesTypeOK, FilledIffExecuted
  <2>2. executions'[o] > 0
    <3>1. CASE \E e \in Engines : ExecuteTrade(e)
      <4>1. PICK e \in Engines : ExecuteTrade(e)
        BY <3>1
      <4>2. eng[e].order # eng[e].counter
        BY <4>1 DEF ExecuteTrade, ExecutionInv
      <4>3. executions'[o] = executions[o] \/ executions'[o] = executions[o] + 1
        BY <2>1, <4>1, <4>2, TradeEffect
      <4> QED
        BY <2>1, <4>3
    <3>2. CASE ~ \E e \in Engines : ExecuteTrade(e)
      BY <2>1, <3>2, ExecutionSteps
    <3> QED
      BY <3>1, <3>2
  <2>3. o \in DOMAIN orders'
    <3>1. CASE RowsUpdated
      BY <3>1 DEF RowsUpdated
    <3>2. CASE \E r \in Requests, p \in OrderIds : InsertOrder(r, p)
      BY <3>2 DEF InsertOrder, InsertRow
    <3> QED
      BY <3>1, <3>2, RowSteps
  <2> QED
    BY <2>2, <2>3 DEF FilledIffExecuted
<1> QED
  BY <1>1, TypeCorrect, VersionsTell, ExecutionsAreKept, FilledMeansExecuted, PTL
     DEF Spec, FilledIsFinal
-----------------------------------------------------------------------------
(* What trades may cost *)

\* The counter order an engine found crosses the order it was found for, both
\* as they were loaded.
CrossedInv ==
    \A e \in Engines : eng[e].pc = "trade" => Opposes(eng[e].seen.form, eng[e].counterSeen)

LEMMA CrossedStep ==
    ASSUME TypeOK, CrossedInv, [Next]_vars
    PROVE  CrossedInv'
<1> SUFFICES ASSUME NEW e \in Engines, eng'[e].pc = "trade"
             PROVE  Opposes(eng'[e].seen.form, eng'[e].counterSeen)
  BY DEF CrossedInv, Opposes
<1>1. EngineTypeOK
  BY DEF TypeOK
<1>2. CASE eng'[e] = eng[e]
  BY <1>2 DEF CrossedInv
<1>3. CASE eng'[e] # eng[e]
  <2>1. PICK f \in Engines : EngineStep(f)
    BY <1>3 DEF Next, vars
  <2>2. f = e
    BY <1>1, <1>3, <2>1
       DEF EngineTypeOK, EngineStep, ReadCurrent, FindCounter, FindNone, RestOrder,
           ExecuteTrade, EngineFault, Proceed
  <2>3. ~ FindNone(e)
    <3>1. ASSUME FindNone(e)
          PROVE  eng'[e].pc = "rest"
      <4>1. eng[e] \in Processing
        BY <1>1, <3>1, EngineKinds DEF FindNone
      <4>2. eng'[e] = [eng[e] EXCEPT !.pc = "rest"]
        BY <1>1, <3>1 DEF FindNone, Proceed, EngineTypeOK
      <4> QED
        BY <4>1, <4>2 DEF Processing
    <3> QED
      BY <3>1
  <2>4. PICK c \in OrderIds : FindCounter(e, c)
    BY <1>1, <2>1, <2>2, <2>3
       DEF EngineStep, ReadCurrent, RestOrder, ExecuteTrade, EngineFault, Proceed, EngineTypeOK,
           Waiting
  <2>5. eng'[e] = [pc |-> "trade", order |-> eng[e].order, seen |-> eng[e].seen,
                   counter |-> c, counterSeen |-> orders[c]]
    BY <1>1, <2>4 DEF FindCounter, Proceed, EngineTypeOK
  <2>6. Opposes(eng[e].seen.form, orders[c])
    BY <2>4 DEF FindCounter, Candidates
  <2> QED
    BY <2>5, <2>6
<1> QED
  BY <1>2, <1>3

\* The price of crossing orders is within the limits of both.
LEMMA CrossingPrice ==
    ASSUME NEW form \in FormType, NEW row \in RowType, Opposes(form, row)
    PROVE  /\ WithinLimit(form, TradePrice(form, row.form))
           /\ WithinLimit(row.form, TradePrice(form, row.form))
BY DataAssumption DEF Opposes, WithinLimit, TradePrice, FormType, RowType

\* An engine trades within the limits of both orders unless a client changed
\* them after the engine had loaded them.
THEOREM TradesKeepLimits == Spec => TradesWithinLimits
<1>1. Init => CrossedInv
  BY DEF Init, EngineInit, CrossedInv, Waiting
<1>2. TypeOK /\ CrossedInv /\ [Next]_vars => CrossedInv'
  BY CrossedStep
<1>3. ASSUME TypeOK, CrossedInv, NEW e \in Engines, ExecuteTrade(e)
      PROVE  LimitsKept(eng[e])
  <2>1. eng[e] \in Executing /\ Opposes(eng[e].seen.form, eng[e].counterSeen)
    BY <1>3, EngineKinds DEF TypeOK, ExecuteTrade, CrossedInv
  <2>2. eng[e].seen.form \in FormType /\ eng[e].counterSeen \in RowType
    BY <2>1 DEF Executing, RowType
  <2> QED
    BY <2>1, <2>2, CrossingPrice DEF Price, LimitsKept
<1>4. TypeOK /\ CrossedInv =>
        [\A e \in Engines : ExecuteTrade(e) => LimitsKept(eng[e])]_vars
  BY <1>3
<1> QED
  BY <1>1, <1>2, <1>4, TypeCorrect, PTL DEF Spec, TradesWithinLimits

-----------------------------------------------------------------------------
(* The reserve follows the orders *)

\* What order o has reserved for account a.
Share(o, a) == IF o \in OpenOrders(a) THEN orders[o].reserved_amount ELSE 0

\* When one row comes or changes, so does its share of what the open orders of
\* an account have reserved.
LEMMA OneRowMoves ==
    ASSUME TablesTypeOK, TablesTypeOK', IsFiniteSet(DOMAIN orders),
           NEW o, DOMAIN orders' \ {o} = DOMAIN orders \ {o},
           \A p \in DOMAIN orders \ {o} : orders'[p] = orders[p],
           NEW a \in Accounts
    PROVE  /\ OpenReserved(a) \in Int /\ OpenReserved(a)' \in Int
           /\ OpenReserved(a)' - Share(o, a)' = OpenReserved(a) - Share(o, a)
<1> DEFINE f == [p \in DOMAIN orders |-> orders[p].reserved_amount]
           S == OpenOrders(a)
<1>1. IsFiniteSet(S)
  BY FS_Subset DEF OpenOrders
<1>2. (\A p \in S : f[p] \in Int) /\ (\A p \in S : f[p] \in Int)'
  BY DEF OpenOrders, TablesTypeOK, RowType
<1>3. S \ {o} = S' \ {o} /\ \A p \in S \ {o} : f[p] = f'[p]
  BY DEF OpenOrders
<1>4. Part(f, S, o) = Share(o, a) /\ Part(f', S', o) = Share(o, a)'
  BY DEF Part, Share, OpenOrders
<1> HIDE DEF f, S
<1>5. /\ Total(f, S) \in Int /\ Total(f', S') \in Int
      /\ Total(f', S') - Part(f', S', o) = Total(f, S) - Part(f, S, o)
  BY <1>1, <1>2, <1>3, TotalOneChange
<1> QED
  BY <1>4, <1>5 DEF OpenReserved, f, S

\* So the gap moves by what the reserve moves and the share does not.
LEMMA GapMoves ==
    ASSUME TablesTypeOK, TablesTypeOK', IsFiniteSet(DOMAIN orders),
           NEW o, DOMAIN orders' \ {o} = DOMAIN orders \ {o},
           \A p \in DOMAIN orders \ {o} : orders'[p] = orders[p],
           NEW a \in Accounts
    PROVE  /\ Gap(a) \in Int /\ Gap(a)' \in Int
           /\ Gap(a)' - Gap(a) = (reserved'[a] - reserved[a]) - (Share(o, a)' - Share(o, a))
<1>1. /\ OpenReserved(a) \in Int /\ OpenReserved(a)' \in Int
      /\ OpenReserved(a)' - Share(o, a)' = OpenReserved(a) - Share(o, a)
  BY OneRowMoves
<1>2. /\ reserved[a] \in Int /\ reserved'[a] \in Int
      /\ Share(o, a) \in Int /\ Share(o, a)' \in Int
  BY DEF TablesTypeOK, Share, OpenOrders, RowType
<1> QED
  BY <1>1, <1>2 DEF Gap

LEMMA GapStays ==
    ASSUME TablesTypeOK, TablesTypeOK', IsFiniteSet(DOMAIN orders),
           NEW o, DOMAIN orders' \ {o} = DOMAIN orders \ {o},
           \A p \in DOMAIN orders \ {o} : orders'[p] = orders[p],
           NEW a \in Accounts,
           reserved'[a] - reserved[a] = Share(o, a)' - Share(o, a)
    PROVE  Gap(a)' = Gap(a)
<1>1. /\ OpenReserved(a) \in Int /\ OpenReserved(a)' \in Int
      /\ OpenReserved(a)' - Share(o, a)' = OpenReserved(a) - Share(o, a)
  BY OneRowMoves
<1>2. /\ reserved[a] \in Int /\ reserved'[a] \in Int
      /\ Share(o, a) \in Int /\ Share(o, a)' \in Int
  BY DEF TablesTypeOK, Share, OpenOrders, RowType
<1> QED
  BY <1>1, <1>2 DEF Gap

LEMMA GapOfNoChange ==
    ASSUME UNCHANGED <<orders, reserved>>, NEW a
    PROVE  Gap(a)' = Gap(a)
BY DEF Gap, OpenReserved, OpenOrders

\* Finitely many rows, each with the amount its form costs.
RowsSound ==
    /\ IsFiniteSet(DOMAIN orders)
    /\ \A o \in DOMAIN orders : orders[o].reserved_amount = Reservation(orders[o].form)

\* The order still is on the side, and of the account, it was seen with.
SameSide(o, seen) ==
    /\ Exists(o)
    /\ orders[o].account = seen.account
    /\ orders[o].form.direction = seen.form.direction

\* What the threads hold: an order that was open, a form for the same side, and
\* two different orders still of the accounts and on the sides they were read.
HeldSides ==
    /\ \A r \in Requests :
          /\ req[r].pc \in {"cancel", "validate", "replace"} =>
                req[r].seen.status \in OpenStatuses
          /\ req[r].pc \in {"validate", "replace"} =>
                req[r].form.direction = req[r].seen.form.direction
    /\ \A e \in Engines :
          /\ eng[e].pc # "wait" => SameSide(eng[e].order, eng[e].seen)
          /\ eng[e].pc = "trade" =>
                /\ SameSide(eng[e].counter, eng[e].counterSeen)
                /\ eng[e].counter # eng[e].order

BookInv == RowsSound /\ HeldSides /\ CrossedInv

\* No row goes, and none changes its account or its side.
SidesKept ==
    \A o \in DOMAIN orders : /\ o \in DOMAIN orders'
                             /\ orders'[o].account = orders[o].account
                             /\ orders'[o].form.direction = orders[o].form.direction

\* The three ways to write rows: a new one, another status for any of them, and
\* another form for one.
LEMMA InsertKeepsRows ==
    ASSUME TablesTypeOK, RowsSound, NEW o, NEW a, NEW form, NEW key,
           InsertRow(o, NewRow(a, form, key))
    PROVE  RowsSound' /\ SidesKept
<1>1. DOMAIN orders' = DOMAIN orders \cup {o}
  BY DEF InsertRow
<1>2. IsFiniteSet(DOMAIN orders')
  BY <1>1, FS_AddElement DEF RowsSound
<1>3. orders'[o].reserved_amount = Reservation(orders'[o].form)
  BY DEF InsertRow, NewRow
<1> QED
  BY <1>1, <1>2, <1>3 DEF InsertRow, RowsSound, SidesKept, Exists

LEMMA StatusKeepsRows ==
    ASSUME TablesTypeOK, RowsSound, DOMAIN orders' = DOMAIN orders,
           \A o \in DOMAIN orders :
              \/ orders'[o] = orders[o]
              \/ \E s \in OpenStatuses \cup FinalStatuses : orders'[o] = WithStatus(orders[o], s)
    PROVE  RowsSound' /\ SidesKept
<1>1. \A o \in DOMAIN orders : /\ orders'[o].account = orders[o].account
                               /\ orders'[o].form = orders[o].form
                               /\ orders'[o].reserved_amount = orders[o].reserved_amount
  BY StatusUpdates DEF TablesTypeOK
<1> QED
  BY <1>1 DEF RowsSound, SidesKept

LEMMA CancelIsStatus ==
    ASSUME NEW row \in RowType, row.status \in OpenStatuses
    PROVE  [[row EXCEPT !.status = "cancelled"] EXCEPT !.lock_version = row.lock_version + 1]
              = WithStatus(row, "cancelled")
BY DEF WithStatus, RowType, OpenStatuses

\* A replace that has found the row it had loaded.
LEMMA ReplacedRow ==
    ASSUME TypeOK, OptimisticLock, HeldSides, NEW r \in Requests, CommitReplace(r)
    PROVE  LET p == req[r]
               o == p.order
           IN  /\ p \in Replacing /\ p.seen.status \in OpenStatuses
               /\ o \in DOMAIN orders
               /\ p.form.direction = p.seen.form.direction
               /\ \/ orders' = orders /\ Reservation(p.form) = p.seen.reserved_amount
                  \/ /\ orders[o] = p.seen
                     /\ DOMAIN orders' = DOMAIN orders
                     /\ \A q \in DOMAIN orders \ {o} : orders'[q] = orders[q]
                     /\ orders'[o].account = p.seen.account
                     /\ orders'[o].status = p.seen.status
                     /\ orders'[o].form = p.form
                     /\ orders'[o].reserved_amount = Reservation(p.form)
<1> DEFINE p == req[r]
           o == p.order
<1>1. /\ p \in Replacing /\ p.pc = "replace" /\ p.seen.status \in OpenStatuses
      /\ p.form.direction = p.seen.form.direction
  BY RequestKinds DEF TypeOK, CommitReplace, HeldSides
<1>2. Holds(o, p.seen) /\ p.seen \in RowType
  BY <1>1 DEF OptimisticLock, Replacing
<1>3. o \in DOMAIN orders
  BY <1>2 DEF Holds, Exists
<1>4. CASE Unchanged(p)
  <2>1. orders' = orders
    BY <1>4 DEF CommitReplace
  <2>2. WithForm(p.seen, p.form).reserved_amount = Reservation(p.form)
    BY <1>2 DEF WithForm, RowType
  <2> QED
    BY <1>1, <1>3, <1>4, <2>1, <2>2 DEF Unchanged
<1>5. CASE ~ Unchanged(p)
  <2> DEFINE row == WithForm(orders[o], p.form)
             new == [row EXCEPT !.lock_version = orders[o].lock_version + 1]
  <2>1. orders[o] = p.seen
    BY <1>2, <1>5 DEF CommitReplace, Holds
  <2>2. orders' = [orders EXCEPT ![o] = new]
    BY <1>5 DEF CommitReplace, WriteRow
  <2>3. /\ row.account = p.seen.account /\ row.status = p.seen.status
        /\ row.form = p.form /\ row.reserved_amount = Reservation(p.form)
    BY <1>2, <2>1 DEF WithForm, RowType
  <2>4. row \in RowType
    BY <1>1, <1>2, <2>1, RowsOfRows DEF Replacing
  <2> HIDE DEF row
  <2>5. /\ new.account = row.account /\ new.status = row.status
        /\ new.form = row.form /\ new.reserved_amount = row.reserved_amount
    BY <2>4 DEF RowType
  <2> HIDE DEF new
  <2> QED
    BY <1>1, <1>3, <2>1, <2>2, <2>3, <2>5 DEF TypeOK, TablesTypeOK
<1> QED
  BY <1>4, <1>5

\* A cancel that has found the row it had loaded.
LEMMA CancelledRow ==
    ASSUME TypeOK, OptimisticLock, HeldSides, NEW r \in Requests, CommitCancel(r)
    PROVE  LET p == req[r]
               o == p.order
           IN  /\ p \in Closing /\ o \in DOMAIN orders
               /\ orders[o] = p.seen /\ p.seen.status \in OpenStatuses
               /\ orders' = [orders EXCEPT ![o] = WithStatus(orders[o], "cancelled")]
<1> DEFINE p == req[r]
           o == p.order
<1>1. p \in Closing /\ p.pc = "cancel" /\ p.seen.status \in OpenStatuses
  BY RequestKinds DEF TypeOK, CommitCancel, HeldSides
<1>2. orders[o] = p.seen /\ o \in DOMAIN orders
  BY <1>1 DEF OptimisticLock, Holds, Exists, CommitCancel
<1>3. orders[o] \in RowType
  BY <1>2 DEF TypeOK, TablesTypeOK
<1> QED
  BY <1>1, <1>2, <1>3, CancelIsStatus DEF CommitCancel, WriteRow

\* Every step keeps rows sound and on their sides.
LEMMA RowsStep ==
    ASSUME TypeOK, OptimisticLock, BookInv, [Next]_vars
    PROVE  RowsSound' /\ SidesKept
<1>1. TablesTypeOK /\ RowsSound /\ HeldSides
  BY DEF TypeOK, BookInv
<1>2. CASE UNCHANGED orders
  BY <1>1, <1>2 DEF RowsSound, SidesKept
<1>3. ASSUME NEW r \in Requests, NEW o \in OrderIds, InsertOrder(r, o)
      PROVE  RowsSound' /\ SidesKept
  BY <1>1, <1>3, InsertKeepsRows DEF InsertOrder
<1>4. ASSUME NEW r \in Requests, CommitCancel(r)
      PROVE  RowsSound' /\ SidesKept
  BY <1>1, <1>4, CancelledRow, StatusKeepsRows DEF FinalStatuses, TablesTypeOK
<1>5. ASSUME NEW r \in Requests, CommitReplace(r)
      PROVE  RowsSound' /\ SidesKept
  <2> DEFINE p == req[r]
             o == p.order
  <2>1. CASE orders' = orders
    BY <1>2, <2>1
  <2>2. CASE orders' # orders
    <3>1. /\ DOMAIN orders' = DOMAIN orders /\ o \in DOMAIN orders
          /\ orders[o] = p.seen /\ p.form.direction = p.seen.form.direction
          /\ \A q \in DOMAIN orders \ {o} : orders'[q] = orders[q]
          /\ orders'[o].account = p.seen.account
          /\ orders'[o].form = p.form
          /\ orders'[o].reserved_amount = Reservation(p.form)
      BY <1>1, <1>5, <2>2, ReplacedRow
    <3>2. RowsSound'
      BY <1>1, <3>1 DEF RowsSound
    <3>3. SidesKept
      BY <3>1 DEF SidesKept
    <3> QED
      BY <3>2, <3>3
  <2> QED
    BY <2>1, <2>2
<1>6. ASSUME NEW r \in Requests, DestroyUpdate(r)
      PROVE  RowsSound' /\ SidesKept
  BY <1>1, <1>6, StatusKeepsRows DEF DestroyUpdate, FinalStatuses, TablesTypeOK
<1>7. ASSUME NEW e \in Engines, RestOrder(e)
      PROVE  RowsSound' /\ SidesKept
  BY <1>1, <1>7, StatusKeepsRows DEF RestOrder, OpenStatuses, TablesTypeOK
<1>8. ASSUME NEW e \in Engines, ExecuteTrade(e)
      PROVE  RowsSound' /\ SidesKept
  <2>1. \A o \in DOMAIN orders :
           WithStatus(WithStatus(orders[o], "filled"), "filled") = WithStatus(orders[o], "filled")
    <3>1. \A o \in DOMAIN orders : /\ orders[o] \in RowType
                                   /\ WithStatus(orders[o], "filled") \in RowType
      BY <1>1, RowsOfRows DEF TablesTypeOK, FinalStatuses
    <3> QED
      BY <3>1, StatusUpdates DEF FinalStatuses
  <2>2. DOMAIN orders' = DOMAIN orders
    BY <1>8 DEF ExecuteTrade
  <2>3. \A o \in DOMAIN orders :
           orders'[o] = orders[o] \/ orders'[o] = WithStatus(orders[o], "filled")
    BY <1>8, <2>1 DEF ExecuteTrade
  <2> QED
    BY <1>1, <2>2, <2>3, StatusKeepsRows DEF FinalStatuses
<1> QED
  <2>1. \/ UNCHANGED orders
        \/ \E r \in Requests, o \in OrderIds : InsertOrder(r, o)
        \/ \E r \in Requests : CommitCancel(r) \/ CommitReplace(r) \/ DestroyUpdate(r)
        \/ \E e \in Engines : RestOrder(e) \/ ExecuteTrade(e)
    BY DEF Next, vars, tables, ApiStep, OtherStep, SubmitOrder, RefuseInsert, ReadForCancel,
           ConflictCancel, ReadForDestroy, DestroyRelease, RefuseRelease, ReadForReplace,
           ValidateReplace, FailReplace, RefuseReplace, Abort, EngineStep, ReadCurrent,
           FindCounter, FindNone, EngineFault
  <2> QED
    BY <1>2, <1>3, <1>4, <1>5, <1>6, <1>7, <1>8, <2>1

\* A row keeps its side while rows do.
LEMMA SideStays ==
    ASSUME SidesKept, NEW o, NEW seen, SameSide(o, seen)
    PROVE  SameSide(o, seen)'
BY DEF SidesKept, SameSide, Exists

\* A handler that goes on with a cancel or a replace has read an open row.
LEMMA RequestSides ==
    ASSUME TypeOK, HeldSides, [Next]_vars, NEW r \in Requests,
           req'[r].pc \in {"cancel", "validate", "replace"}
    PROVE  /\ req'[r].seen.status \in OpenStatuses
           /\ req'[r].pc \in {"validate", "replace"} =>
                 req'[r].form.direction = req'[r].seen.form.direction
<1>1. ApiTypeOK
  BY DEF TypeOK
<1>2. CASE req'[r] = req[r]
  BY <1>2 DEF HeldSides
<1>3. CASE req'[r] # req[r]
  <2>1. PICK q \in Requests : ApiStep(q)
    BY <1>3 DEF Next, vars
  <2>2. q = r
    BY <1>1, <1>3, <2>1
       DEF ApiTypeOK, ApiStep, OtherStep, SubmitOrder, InsertOrder, RefuseInsert, ReadForCancel,
           CommitCancel, ConflictCancel, ReadForDestroy, DestroyRelease, DestroyUpdate,
           RefuseRelease, ReadForReplace, ValidateReplace, CommitReplace, FailReplace,
           RefuseReplace, Abort, Answer, Become
  <2>3. req'[r] # Idle
    BY DEF Idle
  <2>4. CASE DestroyRelease(r)
    <3>1. req[r] \in Closing /\ req'[r] = [req[r] EXCEPT !.pc = "close"]
      BY <1>1, <2>4, RequestKinds DEF DestroyRelease, Become, ApiTypeOK
    <3>2. req'[r].pc = "close"
      BY <3>1 DEF Closing
    <3> QED
      BY <3>2
  <2>5. CASE ValidateReplace(r)
    <3>1. req[r] \in Replacing /\ req[r].pc = "validate"
      BY <1>1, <2>5, RequestKinds DEF ValidateReplace
    <3>2. req'[r] = [req[r] EXCEPT !.pc = "replace"]
      BY <1>1, <2>3, <2>5 DEF ValidateReplace, Answer, Become, ApiTypeOK
    <3>3. req'[r].seen = req[r].seen /\ req'[r].form = req[r].form
      BY <3>1, <3>2 DEF Replacing
    <3> QED
      BY <3>1, <3>3 DEF HeldSides
  <2>6. ASSUME NEW o \in OrderIds, ReadForCancel(r, o)
        PROVE  req'[r].pc = "cancel" /\ req'[r].seen.status \in OpenStatuses
    BY <1>1, <2>6 DEF ReadForCancel, Become, ApiTypeOK
  <2>7. ASSUME NEW o \in OrderIds, ReadForDestroy(r, o)
        PROVE  FALSE
    BY <1>1, <2>7 DEF ReadForDestroy, Become, ApiTypeOK
  <2>8. ASSUME NEW o \in OrderIds, NEW form \in Forms, ReadForReplace(r, o, form)
        PROVE  /\ req'[r].seen.status \in OpenStatuses
               /\ req'[r].form.direction = req'[r].seen.form.direction
    BY <1>1, <2>8 DEF ReadForReplace, Become, ApiTypeOK
  <2>9. ASSUME NEW account \in Accounts, NEW form \in Forms, NEW key \in Keys \cup {NoKey},
               SubmitOrder(r, account, form, key)
        PROVE  FALSE
    BY <1>1, <2>9 DEF SubmitOrder, Become, ApiTypeOK
  <2>10. ASSUME \/ \E o \in OrderIds : InsertOrder(r, o)
                \/ RefuseInsert(r) \/ CommitCancel(r) \/ ConflictCancel(r) \/ DestroyUpdate(r)
                \/ RefuseRelease(r) \/ CommitReplace(r) \/ FailReplace(r) \/ RefuseReplace(r)
                \/ Abort(r)
        PROVE  req'[r] = Idle
    BY <1>1, <2>10
       DEF InsertOrder, RefuseInsert, CommitCancel, ConflictCancel, DestroyUpdate, RefuseRelease,
           CommitReplace, FailReplace, RefuseReplace, Abort, Answer, Become, ApiTypeOK
  <2> QED
    BY <2>1, <2>2, <2>3, <2>4, <2>5, <2>6, <2>7, <2>8, <2>9, <2>10 DEF ApiStep, OtherStep
<1> QED
  BY <1>2, <1>3

\* What threads hold stays on its side.
LEMMA HeldSidesStep ==
    ASSUME TypeOK, HeldSides, [Next]_vars, SidesKept
    PROVE  HeldSides'
<1>1. ASSUME NEW e \in Engines, eng'[e].pc # "wait"
      PROVE  SameSide(eng[e].order, eng[e].seen)'
  <2>1. CASE eng[e].pc # "wait" /\ eng'[e].order = eng[e].order /\ eng'[e].seen = eng[e].seen
    <3>1. SameSide(eng[e].order, eng[e].seen)
      BY <2>1 DEF HeldSides
    <3> QED
      BY <2>1, <3>1 DEF SidesKept, SameSide, Exists
  <2>2. CASE UNCHANGED orders /\ Exists(eng'[e].order) /\ eng'[e].seen = orders[eng'[e].order]
    BY <2>2 DEF SameSide, Exists
  <2> QED
    BY <1>1, <2>1, <2>2, EngineReads
<1>2. ASSUME NEW e \in Engines, eng'[e].pc = "trade"
      PROVE  SameSide(eng[e].counter, eng[e].counterSeen)' /\ eng'[e].counter # eng'[e].order
  <2>1. CASE eng'[e] = eng[e]
    <3>1. SameSide(eng[e].counter, eng[e].counterSeen) /\ eng[e].counter # eng[e].order
      BY <1>2, <2>1 DEF HeldSides
    <3> QED
      BY <2>1, <3>1 DEF SidesKept, SameSide, Exists
  <2>2. CASE /\ UNCHANGED orders
             /\ eng'[e].counter \in DOMAIN orders \ {eng'[e].order}
             /\ eng'[e].counterSeen = orders[eng'[e].counter]
    BY <2>2 DEF SameSide, Exists
  <2> QED
    BY <1>2, <2>1, <2>2, EngineReads
<1> QED
  BY <1>1, <1>2, RequestSides DEF HeldSides

LEMMA BookStep ==
    ASSUME TypeOK, OptimisticLock, BookInv, [Next]_vars
    PROVE  BookInv'
BY RowsStep, HeldSidesStep, CrossedStep DEF BookInv

LEMMA BookInit ==
    ASSUME Init
    PROVE  BookInv
<1>1. DOMAIN orders = {}
  BY DEF Init, TablesInit
<1>2. RowsSound
  BY <1>1, FS_EmptySet DEF RowsSound
<1>3. HeldSides /\ CrossedInv
  BY DEF Init, ApiInit, EngineInit, HeldSides, CrossedInv, Idle, Waiting
<1> QED
  BY <1>2, <1>3 DEF BookInv

\* The share of a row that nobody but its account has.
LEMMA ShareIs ==
    ASSUME TablesTypeOK, NEW o, NEW a \in Accounts
    PROVE  /\ o \notin DOMAIN orders => Share(o, a) = 0
           /\ o \in DOMAIN orders =>
                 Share(o, a) = IF orders[o].account = a /\ orders[o].status \in OpenStatuses
                               THEN orders[o].reserved_amount ELSE 0
BY DEF Share, OpenOrders

\* A new order reserves what it costs.
LEMMA InsertKeepsGap ==
    ASSUME TypeOK, TypeOK', RowsSound, NEW r \in Requests, NEW o \in OrderIds, InsertOrder(r, o),
           NEW a \in Accounts
    PROVE  Gap(a)' = Gap(a)
<1> DEFINE p == req[r]
<1>1. TablesTypeOK /\ TablesTypeOK' /\ p \in Placing
  BY RequestKinds DEF TypeOK, InsertOrder
<1>2. /\ DOMAIN orders' \ {o} = DOMAIN orders \ {o} /\ o \in DOMAIN orders' /\ o \notin DOMAIN orders
      /\ \A q \in DOMAIN orders \ {o} : orders'[q] = orders[q]
      /\ orders'[o] = NewRow(p.account, p.form, p.key)
  BY DEF InsertOrder, InsertRow, Exists
<1>3. Share(o, a) = 0
  BY <1>1, <1>2, ShareIs
<1>4. Share(o, a)' = IF p.account = a THEN Reservation(p.form) ELSE 0
  BY <1>1, <1>2 DEF Share, OpenOrders, NewRow, OpenStatuses
<1>5. /\ p.account \in Accounts /\ Cost(p.form) \in Nat /\ Reservation(p.form) \in Nat
      /\ reserved \in [Accounts -> Nat]
  BY <1>1, CostNat DEF Placing, TablesTypeOK
<1>6. reserved'[a] - reserved[a] = IF p.account = a THEN Reservation(p.form) ELSE 0
  <2>1. CASE p.form.direction = "buy"
    BY <1>5, <2>1 DEF InsertOrder, reserve_funds, Reservation
  <2>2. CASE p.form.direction # "buy"
    BY <1>5, <2>2 DEF InsertOrder, funds, Reservation
  <2> QED
    BY <2>1, <2>2
<1>7. (IF p.account = a THEN Reservation(p.form) ELSE 0) \in Nat
  BY <1>5
<1>8. reserved'[a] - reserved[a] = Share(o, a)' - Share(o, a)
  BY <1>3, <1>4, <1>6, <1>7
<1> QED
  BY <1>1, <1>2, <1>8, GapStays DEF RowsSound

\* A cancel that finds the row it had read releases what the row has reserved.
LEMMA CancelKeepsGap ==
    ASSUME TypeOK, TypeOK', OptimisticLock, BookInv, NEW r \in Requests, CommitCancel(r),
           NEW a \in Accounts
    PROVE  Gap(a)' = Gap(a)
<1> DEFINE p == req[r]
<1>1. TablesTypeOK /\ TablesTypeOK' /\ IsFiniteSet(DOMAIN orders)
  BY DEF TypeOK, BookInv, RowsSound
<1>2. PICK o \in DOMAIN orders :
         /\ p \in Closing /\ o = p.order
         /\ orders[o] = p.seen /\ p.seen.status \in OpenStatuses
         /\ orders' = [orders EXCEPT ![o] = WithStatus(orders[o], "cancelled")]
  BY CancelledRow DEF BookInv
<1>3. p.seen \in RowType /\ p.seen.account \in Accounts /\ p.seen.reserved_amount \in Nat
  BY <1>2 DEF Closing, RowType
<1>4. WithStatus(p.seen, "cancelled").status = "cancelled"
  BY <1>3, StatusUpdates DEF FinalStatuses
<1>5. Share(o, a) = IF p.seen.account = a THEN p.seen.reserved_amount ELSE 0
  BY <1>1, <1>2, ShareIs
<1>6. Share(o, a)' = 0
  BY <1>2, <1>4 DEF Share, OpenOrders, OpenStatuses
<1>7. reserved'[a] - reserved[a] = 0 - (IF p.seen.account = a THEN p.seen.reserved_amount ELSE 0)
  <2>1. reserved \in [Accounts -> Nat]
    BY <1>1 DEF TablesTypeOK
  <2> QED
    BY <1>3, <2>1 DEF CommitCancel, ReleaseSeen, release_funds, funds
<1>8. reserved'[a] - reserved[a] = Share(o, a)' - Share(o, a)
  BY <1>5, <1>6, <1>7
<1> QED
  BY <1>1, <1>2, <1>8, GapStays

\* A replace that finds the row it had read moves the difference of the costs.
LEMMA ReplaceKeepsGap ==
    ASSUME TypeOK, TypeOK', OptimisticLock, BookInv, NEW r \in Requests, CommitReplace(r),
           NEW a \in Accounts
    PROVE  Gap(a)' = Gap(a)
<1> DEFINE p == req[r]
           old == p.seen.reserved_amount
           new == Reservation(p.form)
<1>1. TablesTypeOK /\ TablesTypeOK' /\ IsFiniteSet(DOMAIN orders) /\ HeldSides
  BY DEF TypeOK, BookInv, RowsSound
<1>2. PICK o \in DOMAIN orders : o = p.order /\ p \in Replacing /\ p.seen.status \in OpenStatuses
  BY <1>1, ReplacedRow
<1>3. p.seen \in RowType /\ p.seen.account \in Accounts /\ old \in Nat /\ new \in Nat
  BY <1>2, CostNat DEF Replacing, RowType
<1>4. reserved'[a] - reserved[a] = IF p.seen.account = a THEN new - old ELSE 0
  <2>1. reserved \in [Accounts -> Nat]
    BY <1>1 DEF TablesTypeOK
  <2>2. AdjustFunds(p)
    BY DEF CommitReplace
  <2>3. CASE new > old
    <3>1. reserved' = [reserved EXCEPT ![p.seen.account] = @ + (new - old)]
      BY <2>2, <2>3 DEF AdjustFunds, reserve_funds
    <3> HIDE DEF new, old
    <3> QED
      BY <1>3, <2>1, <3>1
  <2>4. CASE new < old
    <3>1. reserved' = [reserved EXCEPT ![p.seen.account] = @ - (old - new)]
      BY <1>3, <2>2, <2>4 DEF AdjustFunds, release_funds
    <3> HIDE DEF new, old
    <3> QED
      BY <1>3, <2>1, <3>1
  <2>5. CASE new = old
    <3>1. reserved' = reserved
      BY <1>3, <2>2, <2>5 DEF AdjustFunds, funds
    <3> HIDE DEF new, old
    <3> QED
      BY <1>3, <2>1, <2>5, <3>1
  <2> HIDE DEF new, old
  <2> QED
    BY <1>3, <2>3, <2>4, <2>5
<1>5. CASE orders' = orders /\ new = old
  <2>1. reserved'[a] = reserved[a]
    <3> HIDE DEF new, old
    <3>1. reserved[a] \in Nat /\ reserved'[a] \in Nat
      BY <1>1 DEF TablesTypeOK
    <3> QED
      BY <1>3, <1>4, <1>5, <3>1
  <2> QED
    BY <1>5, <2>1 DEF Gap, OpenReserved, OpenOrders
<1>6. CASE /\ orders[o] = p.seen
           /\ DOMAIN orders' = DOMAIN orders
           /\ \A q \in DOMAIN orders \ {o} : orders'[q] = orders[q]
           /\ orders'[o].account = p.seen.account
           /\ orders'[o].status = p.seen.status
           /\ orders'[o].form = p.form
           /\ orders'[o].reserved_amount = new
  <2>1. Share(o, a) = IF p.seen.account = a THEN old ELSE 0
    BY <1>1, <1>2, <1>6, ShareIs
  <2>2. Share(o, a)' = IF p.seen.account = a THEN new ELSE 0
    BY <1>2, <1>6 DEF Share, OpenOrders
  <2>3. reserved'[a] - reserved[a] = Share(o, a)' - Share(o, a)
    <3> HIDE DEF new, old
    <3> QED
      BY <1>3, <1>4, <2>1, <2>2
  <2> QED
    BY <1>1, <1>2, <1>6, <2>3, GapStays
<1> QED
  BY <1>1, <1>2, <1>5, <1>6, ReplacedRow

\* Resting an open order moves nothing.
LEMMA RestKeepsGap ==
    ASSUME TypeOK, TypeOK', BookInv, NEW e \in Engines, RestOrder(e),
           orders[eng[e].order].status \notin FinalStatuses, NEW a \in Accounts
    PROVE  Gap(a)' = Gap(a)
<1>1. TablesTypeOK /\ TablesTypeOK' /\ IsFiniteSet(DOMAIN orders)
  BY DEF TypeOK, BookInv, RowsSound
<1>2. PICK o \in DOMAIN orders :
         o = eng[e].order /\ orders[o] \in RowType /\ orders[o].status \in OpenStatuses
  BY <1>1 DEF BookInv, HeldSides, SameSide, Exists, RestOrder, TablesTypeOK, RowType
<1>3. orders' = [orders EXCEPT ![o] = WithStatus(orders[o], "working")]
  BY <1>2 DEF RestOrder
<1>4. /\ WithStatus(orders[o], "working").status = "working"
      /\ WithStatus(orders[o], "working").account = orders[o].account
      /\ WithStatus(orders[o], "working").reserved_amount = orders[o].reserved_amount
  BY <1>2, StatusUpdates DEF OpenStatuses
<1>5. Share(o, a)' = Share(o, a)
  BY <1>2, <1>3, <1>4 DEF Share, OpenOrders, OpenStatuses
<1>6. reserved'[a] - reserved[a] = Share(o, a)' - Share(o, a)
  <2>1. reserved' = reserved /\ reserved[a] \in Nat /\ Share(o, a) \in Nat
    BY <1>1, <1>2, ShareIs DEF RestOrder, funds, TablesTypeOK, RowType
  <2> QED
    BY <1>5, <2>1
<1> QED
  BY <1>1, <1>2, <1>3, <1>6, GapStays

\* The two rows of a trade: one buys for the account the trade charges, and the
\* other sells and has nothing reserved.
LEMMA TradeSides ==
    ASSUME TypeOK, BookInv, NEW e \in Engines, ExecuteTrade(e)
    PROVE  \E b, c \in DOMAIN orders :
              /\ b = IF eng[e].seen.form.direction = "buy" THEN eng[e].order ELSE eng[e].counter
              /\ {b, c} = {eng[e].order, eng[e].counter}
              /\ b # c
              /\ orders[b].account = Buyer(eng[e])
              /\ orders[c].reserved_amount = 0
<1> DEFINE w == eng[e]
<1>1. /\ w \in Executing /\ w.pc = "trade"
      /\ \A o \in DOMAIN orders : orders[o] \in RowType
  BY EngineKinds DEF TypeOK, ExecuteTrade, TablesTypeOK
<1>2. /\ SameSide(w.order, w.seen) /\ SameSide(w.counter, w.counterSeen)
      /\ w.counter # w.order
      /\ Opposes(w.seen.form, w.counterSeen)
      /\ \A o \in DOMAIN orders : orders[o].reserved_amount = Reservation(orders[o].form)
  BY <1>1 DEF BookInv, HeldSides, CrossedInv, RowsSound
<1>3. w.seen.form.direction \in {"buy", "sell"} /\ w.counterSeen.form.direction \in {"buy", "sell"}
  BY <1>1 DEF Executing, RowType, FormType
<1>4. CASE w.seen.form.direction = "buy"
  <2>1. orders[w.counter].form.direction # "buy"
    BY <1>2, <1>4 DEF SameSide, Opposes
  <2>2. orders[w.counter].reserved_amount = 0
    BY <1>2, <2>1 DEF Reservation, SameSide, Exists
  <2> QED
    BY <1>2, <1>4, <2>2 DEF SameSide, Exists, Buyer
<1>5. CASE w.seen.form.direction # "buy"
  <2>1. orders[w.order].reserved_amount = 0
    BY <1>2, <1>5 DEF Reservation, SameSide, Exists
  <2> QED
    BY <1>2, <1>5, <2>1 DEF SameSide, Exists, Buyer
<1> QED
  BY <1>4, <1>5

\* A trade that charges what the buyer's open order has reserved.
LEMMA TradeKeepsGap ==
    ASSUME TypeOK, TypeOK', BookInv, NEW e \in Engines, ExecuteTrade(e),
           ChargesReservation(eng[e]), NEW a \in Accounts
    PROVE  Gap(a)' = Gap(a)
<1>1. TablesTypeOK /\ TablesTypeOK' /\ IsFiniteSet(DOMAIN orders)
  BY DEF TypeOK, BookInv, RowsSound
<1>2. PICK b, c \in DOMAIN orders :
         /\ b = IF eng[e].seen.form.direction = "buy" THEN eng[e].order ELSE eng[e].counter
         /\ {b, c} = {eng[e].order, eng[e].counter}
         /\ b # c
         /\ orders[b].account = Buyer(eng[e])
         /\ orders[c].reserved_amount = 0
  BY TradeSides
<1>3. /\ orders[b].status \in OpenStatuses
      /\ Amount(eng[e]) = orders[b].reserved_amount
      /\ CanRelease(Buyer(eng[e]), Amount(eng[e]))
  BY <1>2 DEF ChargesReservation
<1>4. /\ DOMAIN orders' = DOMAIN orders
      /\ orders'[b].status = "filled" /\ orders'[c].status = "filled"
      /\ \A o \in DOMAIN orders \ {b, c} : orders'[o] = orders[o]
  BY <1>2, TradeEffect
<1> DEFINE f == [p \in DOMAIN orders |-> orders[p].reserved_amount]
           S == OpenOrders(a)
           R == S \ {c}
<1>5. IsFiniteSet(S) /\ IsFiniteSet(R)
  BY <1>1, FS_Subset DEF OpenOrders
<1>6. /\ \A p \in S : f[p] \in Int
      /\ \A p \in R : f[p] \in Int
      /\ (\A p \in S : f[p] \in Int)'
      /\ S \ {c} = R \ {c}
  BY <1>1 DEF OpenOrders, TablesTypeOK, RowType
<1>7. R \ {b} = S' \ {b} /\ \A p \in R \ {b} : f[p] = f'[p]
  BY <1>4 DEF OpenOrders, OpenStatuses
<1>8. /\ Part(f, S, c) = 0 /\ Part(f, R, c) = 0
      /\ Part(f, R, b) = IF orders[b].account = a THEN orders[b].reserved_amount ELSE 0
      /\ Part(f', S', b) = 0
  BY <1>2, <1>3, <1>4 DEF Part, OpenOrders, OpenStatuses
<1> HIDE DEF f, S, R
<1>9. /\ Total(f, S) \in Int /\ Total(f, R) \in Int
      /\ Total(f, R) - Part(f, R, c) = Total(f, S) - Part(f, S, c)
  BY <1>5, <1>6, TotalOneChange
<1>10. /\ Total(f', S') \in Int
       /\ Total(f', S') - Part(f', S', b) = Total(f, R) - Part(f, R, b)
  BY <1>5, <1>6, <1>7, TotalOneChange
<1>11. OpenReserved(a) = Total(f, S) /\ OpenReserved(a)' = Total(f', S')
  BY DEF OpenReserved, f, S
<1>12. /\ reserved[a] \in Nat /\ reserved'[a] \in Nat /\ orders[b].reserved_amount \in Nat
       /\ reserved'[a] = IF orders[b].account = a THEN reserved[a] - orders[b].reserved_amount
                         ELSE reserved[a]
  <2>1. reserved' = [reserved EXCEPT ![Buyer(eng[e])] = @ - Amount(eng[e])]
    BY <1>3 DEF ExecuteTrade, commit_reserved_funds
  <2>2. /\ reserved \in [Accounts -> Nat] /\ reserved' \in [Accounts -> Nat]
        /\ orders[b].reserved_amount \in Nat
    BY <1>1 DEF TablesTypeOK, RowType
  <2> QED
    BY <1>2, <1>3, <2>1, <2>2
<1>13. OpenReserved(a)' - OpenReserved(a)
         = 0 - (IF orders[b].account = a THEN orders[b].reserved_amount ELSE 0)
  BY <1>8, <1>9, <1>10, <1>11, <1>12
<1>14. OpenReserved(a) \in Int /\ OpenReserved(a)' \in Int
  BY <1>9, <1>10, <1>11
<1> QED
  BY <1>12, <1>13, <1>14 DEF Gap

\* Every step that writes neither a row nor a reserve, by name.
LEMMA QuietSteps ==
    ASSUME [Next]_vars
    PROVE  \/ UNCHANGED <<orders, reserved>>
           \/ \E r \in Requests, o \in OrderIds : InsertOrder(r, o)
           \/ \E r \in Requests : CommitCancel(r) \/ CommitReplace(r)
           \/ \E e \in Engines : RestOrder(e) \/ ExecuteTrade(e)
           \/ LeakingStep
BY DEF Next, vars, tables, ApiStep, OtherStep, SubmitOrder, RefuseInsert, ReadForCancel,
       ReadForDestroy, RefuseRelease, ReadForReplace, ValidateReplace, RefuseReplace, Abort,
       EngineStep, ReadCurrent, FindCounter, FindNone, EngineFault, LeakingStep

\* Every thread moves an account's reserve and the amounts its open orders have
\* reserved together, but for the steps LeakingStep names.
LEMMA GapStep ==
    ASSUME TypeOK, TypeOK', OptimisticLock, BookInv, [Next]_vars, NEW a \in Accounts
    PROVE  Gap(a)' = Gap(a) \/ LeakingStep
<1>1. CASE UNCHANGED <<orders, reserved>>
  BY <1>1, GapOfNoChange
<1>2. CASE \E r \in Requests, o \in OrderIds : InsertOrder(r, o)
  BY <1>2, InsertKeepsGap DEF BookInv
<1>3. CASE \E r \in Requests : CommitCancel(r) \/ CommitReplace(r)
  BY <1>3, CancelKeepsGap, ReplaceKeepsGap
<1>4. ASSUME NEW e \in Engines, RestOrder(e)
      PROVE  Gap(a)' = Gap(a) \/ LeakingStep
  BY <1>4, RestKeepsGap DEF LeakingStep
<1>5. ASSUME NEW e \in Engines, ExecuteTrade(e)
      PROVE  Gap(a)' = Gap(a) \/ LeakingStep
  BY <1>5, TradeKeepsGap DEF LeakingStep
<1> QED
  BY <1>1, <1>2, <1>3, <1>4, <1>5, QuietSteps

\* What the handlers rely on between reading a row and writing it: an order has
\* reserved what its form costs, a replace keeps its side, and the two orders an
\* engine is about to execute cross and are still of the accounts and on the
\* sides they were loaded with.
THEOREM RowsAndSides == Spec => []BookInv
<1>1. TypeOK /\ OptimisticLock /\ BookInv /\ [Next]_vars => BookInv'
  BY BookStep
<1> QED
  BY <1>1, BookInit, TypeCorrect, VersionsTell, PTL DEF Spec

\* The reserve of an account and the amounts its open orders have reserved move
\* together in every step of handlers and engines but the named ones: a conflict
\* or a failure that is answered by return, DELETE, an order put to "working"
\* after it was closed, and a trade that does not charge what was reserved.
THEOREM ReserveIsOfOrders == Spec => ReserveFollowsOrders
<1>1. TypeOK /\ TypeOK' /\ OptimisticLock /\ BookInv /\ [Next]_vars
        => [(\A a \in Accounts : Gap(a)' = Gap(a)) \/ LeakingStep]_vars
  BY GapStep
<1> QED
  BY <1>1, TypeCorrect, VersionsTell, RowsAndSides, PTL DEF Spec, ReserveFollowsOrders
=============================================================================
