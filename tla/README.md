# BrokerX in TLA+

BrokerX is a Rails application for a brokerage: clients register, deposit money, place, replace and
cancel orders, and a matching engine trades them. Several processes (Puma workers, several instances
behind a gateway) share one PostgreSQL database. Each process runs request threads, one outbox
dispatcher thread and one matching thread. Clients use a page whose script (`public/js/orders.js`)
talks to the API and listens to a cable connection.

This directory holds TLA+ modules translated from that code, the TLC configurations that check them
on small instances, and TLAPS proofs for every value of the constants.

    tlc -workers 2 -config ReplaceRace.cfg MCTrading
    tlapm TradingProofs.tla

`PROJECT.json` lists, for every definition, the source lines it stands for, and for every property a
variant of the code that breaks it (the operators commented "Mutant of ..." in the modules).

## 1. The system

| Component | State | Operations | What makes it correct | Modelled in |
|---|---|---|---|---|
| Order data and rules (`order_validation_service.rb`, `order_record.rb`, DTO) | none | cost, pre-trade checks, model validations, crossing rule, trade price | no trade outside a limit | `BrokerData` |
| Orders and portfolios tables, repositories | `orders`, `portfolios`, `trades`, `portfolio_transactions` | `reserve_funds`, `release_funds`, `commit_reserved_funds`, `create`, `update_status` | balances never negative, money conserved | `Tables` |
| Orders API (`orders_controller.rb`) | what each request thread has read | create, cancel, destroy, replace | one order per key, reserve follows the open orders, final orders stay final | `OrdersApi` |
| Matching engine (`matching_engine.rb`) | the order in work, the counterparty | load, search, rest, trade | an order trades once, a buyer pays what was bought | `MatchingEngine` |
| Outbox dispatcher and queue (`outbox_dispatcher.rb`) | `outbox_events`, batch in work, in-memory queue | poll, mark, handle, finish, fail | at most once per process, nothing left behind | `OutboxDispatcher` |
| The order path as a whole | all of the above | the hand-off from insertion to matching | every order comes out of "new" | `Trading`, `TradingSystem` |
| Deposits (`deposit_funds_use_case.rb`) | deposits with their keys, the portfolio as read | insert, read, re-read, write | a key credits once, a deposit adds its amount | `Deposits`, `Funding` |
| Trading saga (`trading_saga.rb`) | step reached, compensation log | four steps, two compensations | a failed saga leaves nothing behind | `TradingSaga`, `SagaTrading` |
| Portfolio cache (`portfolios_controller.rb`, `portfolio_record.rb`) | cached balances, 60 s | miss, load, late write, invalidate, expire | a stale balance has a reason and an end | `PortfolioCache` |
| Registration and verification (`register_client_use_case.rb`, `clients_controller.rb`) | clients, mailed tokens | register in three transactions, mail, activate | an active client has a password and a portfolio | `Registration` |
| Orders API as its clients see it | the client's orders | place once per key, change under a new version | versions and keys mean what clients take them for | `OrderService` |
| Browser client: form and panel (`orders.js`) | key field, panel of orders, calls under way | submit, modify, cancel, refresh, logout, trade messages | a retry places no second order, an edit meets the order as shown | `OrdersPage` |
| Browser client: market feed (`orders.js`) | symbol, toggle, connections, boxes, timers | load library, rewire, receive, throttle, close | one subscription, and the boxes show its data | `MarketFeed` |
| Realtime channels and market data (server) | none that is read back | broadcast quotes and reports | | in part, as messages in `MarketFeed` and `OrdersPage` |
| Login and MFA | code, attempts, times | login, verify | a code is good once, attempts are limited | not modelled |
| Metrics registry, web infrastructure, gateway | output and configuration | | | not modelled |

Components interact through the database rows (no lock is held across two statements except inside a
transaction), through the outbox table (API to dispatcher), and through the in-memory queue of a
process (dispatcher to engine). There are no other shared variables between the modelled threads. The
page shares nothing with the server but requests and messages, and its handlers share the page's
variables: each `await` in one is a point where the others run.

What is hard here: every handler reads a row, decides, and writes in a later statement; the engine
and DELETE write without looking at `lock_version`; errors inside a transaction are often answered by
`return`, which commits; the queue is bounded and lives in memory; events are marked before they are
handled; several processes poll the same table. In the browser: answers that are lost or overtake each
other, requests served after the page gave them up, handlers that overlap, timers and close events of an
earlier subscription.

## 2. Modules

    BrokerData <- Tables <- OrdersApi      \
                         <- MatchingEngine  >- Trading <- TradingProofs
                                           /    |  |  \
    OutboxDispatcher --(INSTANCE)-- TradingSystem  |   Funding (with Deposits) <- FundingProofs
      |                                |           SagaTrading (with TradingSaga) <- SagaProofs
      OutboxProofs                 TradingSystemProofs

    OrderService <-(implements)- Trading
    OrderService <- OrdersPage <- PageProofs
    MarketFeed <- FeedProofs
    PortfolioCache <- Registration <- RegistrationProofs

`A <- B` is "B extends A"; the arrows marked INSTANCE and implements are instances with a substitution.
`MCTrading`, `MCTradingSystem`, `MCFunding`, `MCSagaTrading` and
`MCOrdersPage` only give constants their values.

Two refinements join the parts. `TradingSystem` implements `Trading`. `Trading` implements
`OrderService`, the abstract specification of the orders table for those who only see it through the
API. `OrdersPage` takes the server of its client from there: it is an environment that adds orders under
new keys and changes them under new versions, written with the guards the controller answers by. That the
real API behaves so, whatever its threads do, is `ImplementsOrderService`; of the environment nothing is
claimed.

How the state corresponds to the code:

* `orders[o]` is a row of `orders`; ids stand for the order of `created_at`, and any free id may be
  inserted next, because the clocks of two processes need not agree.
* `available` and `reserved` are the columns of `portfolios`. `executions[o]` counts the rows of
  `trades` for an order and `bought` sums `portfolio_transactions` of trades. `spent`, `credits`,
  `deposited`, `delivered` and `faults` are counters of what happened, kept for the properties.
* `req[r]`, `eng[e]`, `dep[d]`, `saga[s]`, `disp[p]` are threads: a record with a program counter and
  exactly what the thread has read so far (`seen` is a row as it was loaded).
* `call[c]` is an activation of an asynchronous handler of the page: which `fetch` it awaits (`at`),
  where that fetch is (`net`), the panel entry it started from (`seen`) and the answer (`reply`). A POST
  the page no longer waits for is `orphan`: it may still be served. `wish`, `settled`, `placedFor` and
  `overlapped` are the user's intent, kept for the properties: which order he means, until the form says
  it was accepted or he asks for another key.
* `panel` is the panel's map of orders, `field` the `client_order_id` input, `told` the trade messages
  received.
* `socket[i]` is a connection of the market feed and `current` the one behind the page's variables;
  `lib` tells an ActionCable subscription from a WebSocket of the page's own. `last`, `box` and `timer`
  are `lastQuote`/`lastBook`, the two boxes and `throttledTimer`.
* `portfolio[a]` in `PortfolioCache` counts the commits to a portfolio, so a cached value is stale when
  it differs; `excused[a]` records the two reasons for which an entry may stay stale.

Reductions, and why they lose nothing:

* *A transaction is one step, at its commit*, when everything it decides on is read under a row lock
  (`FOR UPDATE`) or checked by `UPDATE ... WHERE lock_version`. What it reads without a lock is a
  step of its own: the validation before `create`, the row of `cancel`, `destroy` and `replace`, the
  order and the candidate of the engine, both readings of a deposit.
* *`return` out of a transaction commits.* `config/application.rb:11` loads the defaults of Rails
  7.1. So the conflict branches of cancel and replace (`ConflictCancel`, `FailReplace`) keep the
  movement of funds made before, while branches that raise or roll back (`RefuseRelease`,
  `RefuseReplace`, `RefuseInsert`) change nothing.
* *`update_status` loads the row again* and compares with no version read earlier (`WithStatus`); when
  the status is the same already, ActiveRecord issues no UPDATE. It is a SELECT and an UPDATE with the
  `lock_version` just loaded, and one step here: a change that commits between the two makes the UPDATE
  raise, and what follows from that is the rollback of `EngineFault` or `Abort`.
* *`replace` without any change* issues no UPDATE and checks no version (`Unchanged`).
* *ActiveRecord writes only changed columns*: `Written` in `Deposits`.
* *Faults.* `Abort`, `EngineFault`, `AbortDeposit`, `SagaEnds`: an exception, a deadlock PostgreSQL
  breaks, or the end of the process. The transaction in flight is rolled back and the thread's memory
  is gone. The deadlock between the engine (orders, then portfolio) and cancel (portfolio, then
  order) is such a fault; PostgreSQL's lock queue itself is not modelled.
* *Amounts* are natural numbers of one unit. Decimal rounding is not modelled.
* *Answers that change nothing* (a 409 for an outdated `client_version`, a validation error, a replay
  of a key) are not actions, except where they end a thread that was under way.
* In `Trading` any order may be handed to any engine at any time. `TradingSystem` adds the outbox, the
  queues and crashes, and implements `Trading`, which is checked by TLC and proved.
* In `TradingSystem` the events `execution.report` are left out: they pass through the same table and
  change none of this state. They are in `OutboxDispatcher` (the events outside `OrderEvents`).
* `OrdersPage` has one client: other accounts' orders are never shown or named by the page. Engines and
  the client's other sessions appear as `ChangedElsewhere`. The server may refuse any request, since
  validations depend on balances the page does not know.
* The numbers of handler activations and of connections mean nothing to the code; the least free one is
  taken.
* A browser fires the close event of a closed WebSocket but delivers no message of it, and the ActionCable
  client calls an unsubscribed subscription no more: both are external and modelled so.
* A request of `Cache-Control: no-cache` reads the portfolio and neither reads nor writes the cache; a hit
  answers from it. Neither changes state, so neither is an action.
* *`ModelValid`* keeps the model validations that depend on amounts; the format of symbols, their upcase
  and the inclusion of `order_type` concern data no property tells apart.
* *The second transaction of DELETE* may overwrite any row. For a sell, Rails' query cache of the request can
  hand `update_status` the row of the first reading (`orders_controller.rb:182`), so that it raises where
  the model also lets it overwrite: the model allows more.
* *The metric after the last UPDATE* of an event (`outbox_dispatcher.rb:61`) is inside the `begin`; that
  counting should raise, and so make a processed event "failed", is left out.
* *The key field* of the page is filled by the page: keys typed by the user are not modelled. Leaving the page
  settles the wish: what the user submits after a logout is another order to him.
* *The status line* of the market feed has two texts for connections that never come about, a socket's error
  (`orders.js:205`) and a rejected subscription; the page sends what the server does not reject, and
  nothing depends on the texts.
* The engine's pop of the queue and its load of the order are one step; between them the engine holds
  only an id.

## 3. Runs

Every passing run is exhaustive; bounds are the sets in its `.cfg`.

| Run | Instance | Shows |
|---|---|---|
| `ReplaceRace` | 2 request threads, 1 engine, 2 orders, create, replace, cancel; a replacement to a dearer form and one the model refuses | Versions tell changed rows from unchanged ones; money is conserved; "filled" and executed are the same and final; no trade is worse than a limit; the reserve moves with the open orders except in the named leaking steps |
| `TwoEngines` | 2 request threads, 2 engines, 2 orders, create, cancel, destroy, one `client_order_id`; a market buy and a sell below the default price | Balances stay natural numbers; nobody pays more than was bought; one order per key; `Trading` implements `OrderService` |
| `Outbox` | 1 process, 4 events, batches of 2, queue of 2, 2 faults | Marked before delivered, delivered at most once, statuses only go forward, pending events are picked up |
| `System` | 1 process, 3 orders, batches of 2, queue of 2, 1 fault | The hand-off implements `Trading`; without faults a new order is under way or was dropped by the full queue; a fault and the full queue lose what they have in hand and nothing else; an order is executed at most once; every order that is not dropped leaves "new" |
| `DepositRetry` | 2 depositing threads, 1 key, 1 request thread, 1 engine, 2 orders | A key is credited once; only the commit of a deposit whose portfolio was moved meanwhile gets a balance wrong |
| `Saga` | 1 saga thread beside 1 request thread (create, cancel, replace), 1 engine, 2 orders, 3 forms (two buys, a sell) | A saga's reserve moves with its order and its compensations, except in the named leaking steps |
| `OrdersPage` | one client, 2 orders, 2 forms, 2 calls at once, `MaxEvents` 4, `MaxWishes` 2; logins and logouts, edits by engines and other sessions | The panel holds only rows the orders had; an edit takes effect only on the row as it was shown; a retry places no second order; an order said to be accepted is there |
| `MarketFeed` | 2 symbols, both kinds of box, 2 ticks, 2 connections; the library from either place or not at all; page left and loaded again | One subscription at a time; the boxes show its data; "connecté" is true; what is received is shown; the subscription follows the field |
| `Registration` | one email, 2 registering threads, 2 readers, 2 further writers, 2 passwords, 2 commits | An active client is complete; the password is that of the registration that made the client; a stale cache entry has a reason and an end |
| `EngineRevives` | violated: `CancelledIsFinal` | The engine writes "working" over "cancelled" |
| `DepositLost` | violated: `DepositsAddUp` | A deposit overwrites a reservation |
| `TradeUnseen` | violated: `TradesAreFetched` | A trade message does not make the page fetch the order |

Bounds and why they are enough to be interesting: two orders make a trade, three a batch that is not the
whole table; two threads make every race the code has (each race is of one reader against one writer);
two engines make the race of processes. `MaxVersion` stops `replace` on rows of that version, `MaxFaults`
bounds exceptions and crashes, `MaxDeposited` the sum of deposits. In the page, `MaxEvents` bounds keys
(two each, since a key makes an order possible) and changes of orders (one each) together and `MaxWishes`
the orders the user sets out to place; two calls at once are enough for answers that overtake each other,
for an orphan beside a retry and for an edit beside a fetch. Two `Sockets` are a current connection
and one still closing; a rewire waits while both are taken, a bound of the model and not of the code.
`MaxCommits` bounds the changes of a portfolio. Nothing else is bounded but by the constants' sets.

Symmetry is used for request threads, engines and depositors in runs without liveness properties,
and for `Forms` in `OrdersPage`. The deadlock check is on except in `Outbox`, whose system may stop when
every event is dispatched and every fault used, and in `Registration`, where a registration that failed
half way takes the only email for good.

### Fairness

`OutboxSpec` and `SysSpec` assume weak fairness of the dispatcher's next step and of the engine's next
step: both are threads that loop for ever (`outbox_dispatcher.rb:23`, `matching_engine.rb:38`) and
restart themselves on an exception. `FairFeedSpec` assumes that timers fire and that a closed WebSocket
has its close event, which the browser guarantees; nothing is assumed of the connection, so a lost message
is never waited for. `FairRegSpec` assumes only that a cache entry expires after its minute
(`expires_in: 60.seconds`, `portfolios_controller.rb:33`). Nothing is assumed of clients, request threads, deposits or sagas.
`OrdersLeaveNew` is for behaviours without faults and for orders that the queue had room for, because a
single exception loses an order and a full queue drops one (see below). The queue of the `System` run is
smaller than the number of orders, so that dropping happens there and an order beside a dropped one must
still come out of "new". `PendingIsServed` is without restriction.

## 4. Proofs

`tlapm` checks eight modules; there are no assumptions but those on the constants (`DataAssumption`,
`FundsAssumption`, `ApiAssumption`, `OutboxAssumption`, `DepositAssumption`, `PageAssumption`,
`FeedAssumption`, `CacheAssumption`, `RegistrationAssumption`), which TLC evaluates too.
All theorems hold for any number of accounts, orders, forms, threads, engines, processes, handlers and
connections, except where a hypothesis is named.

| Theorem | Says | Argument |
|---|---|---|
| `TypeCorrect` | `[]TypeOK`, so balances never go negative | inductive by itself |
| `MoneyIsConserved` | `[]FundsConserved` | every step is one reservation, one release, one charge or nothing (`FundsSteps`) |
| `ChargesAreForTrades` | `[]ChargedForTradesOnly` | the same step lemma |
| `VersionsTell` | `[]OptimisticLock` | every update of a row grows its version, so a row of equal version was not updated (`RowSteps`, `LockStep`) |
| `KeysAreUnique` | `[]OneOrderPerKey` | only an insertion adds a key, and it checks the table |
| `ExecutedOnce` | `[]SingleExecution` with one engine | `ExecutionInv`: what the engine holds is not executed, and neither is what is "new". `SingleExecution` alone is not inductive: it does not say why the engine will not execute again |
| `HeldIsUnexecuted` | `[]ExecutionInv` with one engine | the same invariant, as a theorem of its own |
| `TradingIsOrderService` | `Spec => ServiceSpec` | the mapping is the identity on `orders`; a step inserts one row with a key it looked for, or updates rows and versions together (`RowSteps`) |
| `FilledMeansExecuted`, `FilledStays` | `[]FilledIffExecuted`, `FilledIsFinal` with one engine and without DELETE | `ExecutionInv`, `OptimisticLock` and `ClosingInv`: a cancel under way saw an open row, so a row of the same version is open |
| `OutboxTypes`, `MarkedFirst` | for any number of processes | an event being handled has left "pending" |
| `AtMostOnce`, `StatusesOnlyProgress` | for one process | the event in hand is not in the batch, and those in the batch are still pending |
| `TradesKeepLimits` | `TradesWithinLimits` | `CrossedInv`: the two orders an engine is about to trade cross, as they were loaded; the trade's price is then within both limits (`CrossingPrice`) |
| `RowsAndSides` | `[]BookInv` | `RowsSound` (finitely many rows, each with what its form costs as `reserved_amount`), `HeldSides` (a request holds a row that was open and a form for the same side; the orders an engine holds are two, on the accounts and sides they were loaded with) and `CrossedInv`; no row goes or changes account or side (`SidesKept`) |
| `ReserveIsOfOrders` | `ReserveFollowsOrders` | `GapStep`, one lemma per step that moves funds or rows (`InsertKeepsGap`, `CancelKeepsGap`, `ReplaceKeepsGap`, `RestKeepsGap`, `TradeKeepsGap`): with `BookInv` and `OptimisticLock`, what is added to or taken from the reserve is what the sum gains or loses, except in a `LeakingStep` |
| `SystemImplementsTrading` | `SysSpec => Spec` | the mapping is the identity on Trading's variables: each step is a step of `Trading` or leaves them alone |
| `SystemKeepsTheBook`, `SystemExecutesOnce`, `SystemFillsForGood` | the safety theorems of `Trading`, for `SysSpec` | the refinement and those theorems |
| `NewOrdersAreKept` | `[]NoOrderLost` for `SysSpec`: without faults a new order is under way, or its event went through undelivered | `NoOrderLost` is not inductive. `EventsHeld` adds that an order has an event and that what a dispatcher holds is not pending any more, so `Finish` cannot close an order nobody took; `DeliveredInHand` that an order once delivered and still new is in some engine's hand, so that a second dispatcher whose queue is full does no harm. `DroppedStays` and `DeliveredIsQueued` follow the two through a step |
| `OnlyWhatIsInHandIsLost` | `LostOnlyInHand` for `SysSpec`, whatever fails | `UnderwayStays`, from one lemma for each place an order can be: `PendingIsPickedUp` (the table), `HandledGoesOn` (a dispatcher), `InHandStays` (a queue or an engine); with `EventsHeld` for the table |
| `FundTypes`, `CreditedOnce`, `OnlyDisturbedErr` | the invariants and the action property of `Funding` | `KeyHeldOnce`: at most one deposit per key is past its insertion, and none once the key is settled |
| `SagaTypes`, `SagasConserveMoney` | the same for `SagaTrading` | step lemmas of `Trading` reused |
| `DepositsLeaveReserve` | the reserve next to deposits: it follows the open orders except in a `LeakingStep` and in `RevertsReserve`, the commit of a deposit whose two readings saw different reserves | `GapStep`, and a deposit touches no order (`FundsKeepTheBook`) |
| `SagasKeepTheBook` | `[]AllInv` for `SagaSpec` | `SagaInv`: an order a saga may have to cancel is still on its account and side, a saga has funds to release only for a buy, and finitely many sagas run; with `OptimisticLock` and `BookInv`, which a saga's insert and cancel keep (`SagaKeepsRows`) |
| `SagasUndo` | `SagasUndoTheirReserve` | `SagaGapStep`: a step of a saga moves the reserve and what its order or its hand holds by the same amount; a step of anybody else is `GapStep` |
| `SagasExecuteOnce` | `[]SingleExecution` for `SagaSpec` with one engine | `ExecutionInv` again: a compensation only writes "cancelled", and no status returns to "new" |
| `SagasKeepService` | `SagaSpec => ServiceSpec` | the lemmas of `TradingIsOrderService` (`ServiceStep`, `InsertServes`, `UpdatesServe`) |
| `HeldOnce` | `[]KeyHeldOnce` | the strengthening of `CreditedOnce`, as a theorem of its own |
| `PageTypes`, `PanelIsSound`, `EditsAreOfWhatWasShown` | `PageTypeOK`, `PanelHolds`, `EditsMeetWhatWasShown` | every copy of a row (panel, entry of a call, answer under way) is one the row had (`CopyOf`); versions only grow, so a copy of the current version is the current row, and the server's version check then compares rows |
| `WishPlacedOnce`, `GreenIsTrue` | `OneOrderPerWish`, `GreenMeansPlaced` | `WishInv`, unless submissions overlap: keys and wishes pair one to one, in the table and in every request the server may still see, orphans included; the field holds the key of the wish, or once it is settled a key not sent yet; one submission at a time is waited for. The server then looks for the key |
| `FeedTypes`, `OneListens`, `BoxesAreCurrent`, `ConnectedIsConnected` | the four invariants of `MarketFeed` | they are not inductive by themselves; `Wired` adds that there is a current connection exactly while the page is on, that rewires are pending only then, and that it is never one `disconnect` has closed |
| `RegTypeCorrect` | `[]RegTypeOK` | proved with the rest of `RegInv` |
| `RegistrationIsComplete`, `PasswordStays` | `[]ActiveIsComplete`, `[]PasswordOfItsRegistration` | `RegInv` adds two parts. `RegistrationGoesOn`: a registration past its insertion is alone with the client it made, nobody has its token yet, and it has done what its program counter says. `TokenInv`: a client whose token was mailed has all of it, and only with a mailed token is one activated |
| `CacheIsStaleForAReason` | `[]StaleForAReason` | inductive with the types (`CommitStep`, `CacheWorkStep`): a commit leaves a writer that has yet to invalidate, a late write or a failed invalidation is excused |

### Sums

`ReserveFollowsOrders` and `SagasUndoTheirReserve` speak of sums over finite sets (`Total`, the community
operator `MapThenSumSet`), which is defined by recursion. The lemmas the proofs need (a sum of
integers is one; an element adds its value; functions that agree on a set have one sum) are proved at the
start of `TradingProofs`. They do not use induction, which the provers cannot instantiate with a predicate: each
takes a smallest subset on which the fact fails, which exists because strict inclusion of finite sets is
well-founded (`WFMin`), and removes an element of it.

### Only model-checked

Liveness and everything under fairness is out of the prover's reach, like ENABLED: `PendingIsServed`,
`OrdersLeaveNew`, `ReceivedIsShown`, `SubscriptionFollowsField` and `StaleEntriesGo` stay with TLC. Every
other property of a passing run is stated by a theorem. The invariants the proofs add were checked by TLC
before they were proved: `BookInv` on the instance of `ReplaceRace`, `AllInv` on that of `Saga`, whose one saga thread
is enough for every way a compensation can meet an order that is not as it was made; that several sagas do
not disturb each other is what `SagasUndo` proves.

Trying to prove `SagasUndoTheirReserve` showed that it was false as first stated: a client can replace the
order of a saga before the compensation cancels it, and what is then released is the cost of the order as
the saga made it. `OrderAsMade` names the case, and the `Saga` run replaces orders so that it happens.

## 5. What the code does not keep

Checked as violations, with the sentence of the repository each contradicts in `PROJECT.json`: the three
runs above. Met while modelling, visible in the modules and not given a run of their own:

* A cancel that loses the race keeps the funds it released (`ConflictCancel`,
  `orders_controller.rb:346`), although `docs/architecture/persistence_integrity.md:97` calls it atomic.
* Two crossing orders both rest when the engine is done with the first before it looks for a counterparty
  of the second: only a "new" order is a candidate (`matching_engine.rb:60`), against
  `docs/use_cases/UC07_appariement_evenementiel.md:102`.
* A full queue drops an order and its event is "processed" all the same (`matching_engine.rb:24`,
  `outbox_dispatcher.rb:79`): `Dropped`, which `NoOrderLost` and `OrdersLeaveNew` name.
* The page, when a submission is made while the order of an earlier one is still being fetched: the end
  of the first clears the key of the second (`orders.js:88`), so that a retry of the second, its answer
  lost, is a second order; or the second is sent under the first one's key and "accepted" is
  said of the first. Both properties therefore have "unless submissions overlap" in them, and the
  variable `overlapped` says precisely when.
* The panel cannot be reached by the script that handles trade messages (`orders.js:302`), as `TradeUnseen`
  shows; the status "rejeté" it could show is never written by the server.
* The late close event of an earlier WebSocket writes "déconnecté" over a live connection; the degraded
  banner stays after a rewire; the notification script has no second place to load its library from.
* A registration that fails half way leaves its email taken for good: the client is there, without a
  portfolio perhaps, and the token was never mailed.
* A cached portfolio may be stale for up to a minute, when a reader writes what it loaded before a commit.
* A replace the model refuses, or that loses the version race, keeps the changed reservation
  (`FailReplace`).
* DELETE releases the funds and closes the order in two transactions (`DestroyRelease`,
  `DestroyUpdate`), and closes it whatever it has become: a fill is overwritten, funds are released
  twice. `FilledIsFinal` therefore has "without DELETE" as hypothesis.
* Engines of two processes can execute one order twice; `SingleExecution` is stated for one engine.
* A market buy that meets a dearer sell than the default price is traded without being charged
  (`commit_reserved_funds`); one that meets a cheaper sell leaves the rest in the reserve.
* The seller of a trade is never credited, and the buyer's position is not recorded.
* An event whose handling raised is "failed" for good; one whose process died stays "processing"; what
  was in a queue is lost with its process. `NoOrderLost` and `OrdersLeaveNew` therefore speak of
  behaviours without faults, and `LostOnlyInHand` says how far a loss can go.
* Dispatchers of two processes both handle the event they both loaded; `DeliveredOnce` is for one.
* A saga compensates an order that was filled, cancelled or replaced meanwhile, and releases what the order
  cost when it was made; the end of its process leaves the reserve behind (`SagaLeaks`).
* `replace` asks for the whole new cost on top of what the order has reserved already.
* Candidates are taken by `created_at`, not by price and time.

The invariants of `Trading` that speak of money hold without deposits; `Funding` shows precisely which
step of a deposit breaks them.

Where the code goes wrong, a property that is checked names the steps or states it leaves out, so that
it says of everything else that it is right: `LeakingStep` (cancel after a conflict, refused replace, DELETE)
in `ReserveFollowsOrders`, `SagaLeaks` in `SagasUndoTheirReserve`, `RevertsReserve` and disturbed deposits
in `Funding`, `overlapped` in the properties of the form, rows replaced meanwhile in
`TradesWithinLimits`, the excuses of `StaleForAReason`. Such a property does not detect the fault it
leaves out; it shows that there is no other. Two processes are in none of the passing runs about events and
hand-off (they are in `TwoEngines`): `MarkedFirst`, `SystemImplementsTrading`, `NewOrdersAreKept` and
`OnlyWhatIsInHandIsLost` are proved for any number.

## 6. Plan

Done: 1. `BrokerData`, `Tables`, `OrdersApi`, `MatchingEngine`, `Trading`; 2. `OutboxDispatcher` and
`TradingSystem`; 3. `Deposits`, `Funding`; 4. `TradingSaga`, `SagaTrading`; their proofs; 5. `OrderService`,
`OrdersPage`, `MarketFeed` and their proofs; 6. `PortfolioCache`, `Registration`; 7. `NoOrderLost` proved;
8. every invariant and action property of the runs proved.

Left:

9. An abstract `OrderLifecycle` (new, working, filled, cancelled, and the money that goes with each)
   implemented by `Trading` with one engine, cancel and no leaking step.
10. The invariants of `Trading` with deposits and sagas at once.

Not modelled, and why: login and MFA decide who acts and not what happens to orders and money, and every
model takes an authenticated, active client as given; the metrics registry is counters behind one mutex
that no other part reads; the server's market data is random and the channels forward it; mails, views and
the greeting in the page's header are wording; authentication of a request is a pure check of a signed
token; Redis as a cable adapter, rate limiting, the gateway and deployment files are configuration of
other programs; the scripts under `load/` generate load and are no part of the system; the migration to
microservices exists in documents and proxies only.
