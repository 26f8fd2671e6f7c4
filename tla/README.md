# TLA+ models of the food-ordering services

This directory holds the formal model of the services in this repository: TLA+
modules, the TLC configurations that check them, and theorems checked by TLAPS.
Every definition of a module is translated from the Go code and the SQL it
runs; `PROJECT.json` names the source lines behind each one.

1. [The system](#1-the-system)
2. [What is hard](#2-what-is-hard)
3. [Modules](#3-modules)
4. [Runs, bounds and fairness](#4-runs-bounds-and-fairness)
5. [Proofs](#5-proofs)
6. [Where code and documentation disagree](#6-where-code-and-documentation-disagree)
7. [Not modelled](#7-not-modelled)
8. [Plan](#8-plan)

## 1. The system

A client orders food over HTTP. The order travels to a restaurant, the
restaurant decides, and the decision travels back:

```
client -> kitchen-api -(gRPC)-> order-service -(gRPC)-> catalog-service
                                     |  one transaction: order, items, key, outbox
                                     v
                              outbox relay -> Kafka "orders" -> consumer
                                                                   | one transaction: inbox,
                                                                   v submission
                                                              partner-service
                                                                   | dispatcher, HTTP
                                                                   v
                                                               restaurant
                                                                   | HTTP callback
                                                                   v
        order-service <- consumer <- Kafka "partner" <- outbox relay <- partner-service
        status, inbox                                   one transaction: submission,
                                                        callback, outbox
```

order-service and partner-service own a PostgreSQL schema each and share
nothing else. Between two processes only messages travel; inside a service the
goroutines of all its replicas meet in the rows of its tables.

| Component | Source | State | Operations |
|---|---|---|---|
| order creation | `internal/order/application/service.go`, `internal/order/postgres/store.go` | `orders`, `order_items`, `idempotency_keys`, `outbox_messages`, one advisory lock per key | `CreateOrder` |
| order status | `internal/order/kafkahandler/order_status_changed.go`, `internal/order/postgres/store.go`, `internal/order/domain` | status and version of the order, `inbox_messages`, an advisory lock per event, the row lock | `ApplyPartnerEvent` |
| outbox and relay | `internal/platform/outbox`, `internal/{order,partner}/postgres/outbox.go` | outbox rows (`published_at`, `locked_by`, `locked_until`, `next_attempt_at`), the relay's batch | `Claim`, `Publish`, `MarkPublished`, `MarkFailed` |
| Kafka consumer | `internal/platform/kafkaconsume` | the current record, the reader's positions, the group's committed offsets | `Run`, `handleUntilSuccess`, `commitUntilSuccess` |
| submission dispatch | `internal/partner/dispatch`, `internal/partner/restaurantclient`, `internal/partner/postgres/submissions.go` | submission rows (status, attempts, lock, due time), the dispatcher's batch | `Claim`, `Send`, `MarkSubmitted`, `MarkFailed` |
| status callback | `internal/partner/httpapi`, `internal/partner/postgres/callbacks.go` | submission status, `partner_callbacks`, outbox | `ReceiveStatusCallback` |
| sample restaurant | `internal/sample`, `cmd/sample-restaurant-service` | orders in memory, the decision and its callback in flight | receive, read, change status, send the callback |
| catalog | `internal/catalog` | tables nothing in this repository changes after the seed | list, get, validate items |
| edge and clients | `internal/kitchen`, `internal/order/grpcapi`, ... | none | translation between HTTP, gRPC and the domain |
| platform | `internal/platform/{migrations,postgresdb,runtime,config}` | schema versions, open servers | migrate, wait for the database, start and stop |

What makes each of them correct:

- **order creation**: one order per (user, idempotency key) however often the
  call is raced or repeated; order, items, key and event appear together; every
  answer is true of the database; a repetition does not depend on the catalog;
  no lock outlives its transaction.
- **order status**: each stored change is one the domain's state machine
  allows; an event is acknowledged exactly when the order shows it; every event
  that does not contradict another one is applied in the end.
- **outbox and relay**: a row is settled only if its event is in the topic;
  more than one record of an event needs a fault; a relay with a stale lease
  cannot disturb the current holder; every row the broker can take is settled.
- **Kafka consumer**: no offset passes a record without effect; effects appear
  in record order; every record is applied in the end.
- **submission dispatch**: `submitted` means the restaurant has the order,
  `failed` means delivery was given up for a reason; no submission stays
  pending.
- **status callback**: the first decision stands against dispatchers, other
  callbacks and repetitions; what order-service is told is what the submission
  shows.
- **sample restaurant**: an order is decided once; all deliveries of that
  decision carry the same callback.
- **catalog and edge**: what is stored was orderable, at the price stored, at one
  moment of the call; totals are right; the HTTP status tells whose fault it is.
- **start and stop**: migrations run once, in order, with their row; nobody
  serves an older schema than its image needs; a wait for the database ends, and
  not early; a stop ends, lets calls finish within its budget, and the exit code
  is true.
- **the whole**: the user is shown one decision, the one partner-service took,
  in the end; no order is forgotten on the way.

## 2. What is hard

The `hazards` of `PROJECT.json` list each of these at its line.

- *Two effects, one failure between them.* The broker has a record and its row
  is not marked; the restaurant has an order and its row is not marked; a
  service has the effect of a record and its offset is not committed; a commit
  happened and its answer was lost.
- *Leases that are only looked at when a row is claimed.* A relay or dispatcher
  that is slow with a batch goes on after another process has taken its rows.
- *Callbacks racing dispatchers.* The restaurant may decide before
  `MarkSubmitted`, after `MarkFailed`, or while a second request is under way.
- *READ COMMITTED.* Each statement sees what is committed when it starts, so
  the second look under an advisory lock, and `FOR UPDATE`, carry the weight.
- *Rebalances.* A member that lost a partition still handles and commits the
  record it holds.
- *Ordering.* Rows are retried one by one while the loop goes on.
- *Progress.* Rows under dead leases, abandoned batches and poison messages
  must not stop the rest.
- *Reading in several statements.* catalog-service reads whether a restaurant is
  open, whether it exists and its menu in three statements without a transaction;
  the order is stored by another service after that.
- *A restaurant that forgets.* After a restart it may be asked again and decide
  otherwise, with the first callback still on its way.
- *Replicas of different images.* They start together, and each brings its own
  migration files.
- *Stopping.* Server goroutines report to a channel that main reads a fixed
  number of times; a signal may come before the servers have begun to serve.

## 3. Modules

| Module | Models | Processes that interleave |
|---|---|---|
| `OutboxPromise` | what an outbox promises its service | none (abstract) |
| `OutboxRelay` | outbox table and relays, both services | relays, business transactions, time, faults |
| `OutboxRelayProofs` | theorems about `OutboxRelay` | |
| `SubmissionPromise` | what partner-service promises about an order it has taken over | none (abstract) |
| `PartnerDispatch` | submissions, dispatchers, callbacks | dispatchers, callbacks, consumer, time, faults |
| `CreationPromise` | what idempotent creation promises its callers | none (abstract) |
| `OrderCreation` | `CreateOrder` | requests, statement by statement |
| `StatusPromise` | what applying a partner event promises, with the domain's state machine | none (abstract) |
| `OrderStatus` | `ApplyPartnerEvent` | `Handle` calls, statement by statement |
| `ConsumerPromise` | what a consumer group promises the service behind it | none (abstract) |
| `KafkaConsumer` | the consumer loop in a group | members, rebalances, faults |
| `SampleRestaurant` | the restaurant's decision and its callback | operator requests, the wire, partner-service |
| `OrderRules` | menu query, item validation, totals, CHECKs, `validatePayload`, translation of errors | none (operators) |
| `OrderEntry` | `POST /v1/orders` across kitchen-api, order-service and catalog-service | the call, changes of the catalog |
| `OrderPromise` | what the user of an order is promised | none (abstract) |
| `OrderFlow` | an order through both services, both topics and the restaurant | services, relays, consumers, restaurant, faults |
| `ServiceStart` | `postgresdb.Open` and `migrations.Run` under `main` | replicas, the database, signals, faults |
| `ServiceLife` | `ServiceStart`, then the servers of `runtime/server.go` | server goroutines, `main`, calls |
| `PartnerDispatchProofs`, `OrderCreationProofs`, `KafkaConsumerProofs`, `SampleRestaurantProofs`, `OrderFlowProofs` | theorems about these five | |
| `OrderServiceProofs` | theorems about `OrderStatus`, and about `OrderEntry` with `OrderRules` | |
| `ServiceLifeProofs` | theorems about `ServiceStart` and `ServiceLife` | |

`MC<Module>` extends a module with what its configurations need; the `.cfg`
files give the constants their values. In every module a definition named
`Bug_...` is a broken variant of the definition it stands next to. The
specification does not use it: it documents which slip of the code which
property catches (the `mutants` of `PROJECT.json`).

How the modules fit together:

- `OutboxRelay` **implements** `OutboxPromise`: the property `PromiseSpec` is
  checked by TLC and proved (`ImplementsPromise`). The other modules rely on the
  promise and do not repeat the relay: an outbox row that a transaction commits
  is one element of `outbox` (`OrderCreation`) or stands behind one row of
  `received` (`PartnerDispatch`, `SampleRestaurant`).
- `OrderCreation` **implements** `CreationPromise` and `OrderStatus` **implements**
  `StatusPromise`: to everybody outside, the transactions of order-service are
  atomic. `CreationPromise` answers a request in one step from the idempotency rows
  stored at that moment; `StatusPromise` applies an event in one step to the order
  stored at that moment, once. Both are checked by TLC and proved
  (`CreationImplementsPromise`, `StatusImplementsPromise`), and they are why
  `OrderFlow` may take `CreateOrder` and `ApplyPartnerEvent` as single steps.
- `PartnerDispatch` **implements** `SubmissionPromise`: without dispatchers, leases,
  batches or late marks, an order is taken over, tried a counted number of times,
  shown as submitted only when the restaurant has it and as failed only with a
  reason, and decided once. `KafkaConsumer` **implements** `ConsumerPromise`: the
  effects of a partition appear one by one in the order of its records, whatever
  members and rebalances do, and no offset is committed ahead of them. Both are
  checked by TLC and proved (`DispatchImplementsPromise`, `GroupImplementsPromise`).
- The outbox promise does not exclude duplicates; `KafkaConsumer` does not either. So
  `OrderStatus` has `Deliver(h, e)` enabled for every event at every time.
- `OrderStatus` allows contradicting events and shows that they are never
  applied together; `EventsAgree` of `PartnerDispatch` shows that the service
  never sends any.
- `PartnerDispatch` lets any callback come for a delivered order;
  `SampleRestaurant` shows which ones this restaurant sends.
- `OrderFlow` **composes** them: each of its actions is one operation of a part,
  taken at the granularity the part's own properties justify, and each of its
  fairness conditions is a liveness property of a part. It **implements**
  `OrderPromise`: `ImplementsPromise` is checked by TLC with fairness, and its
  safety part is proved (`FlowImplementsPromise`). Three theorems close the
  composition from below: what the flow does with events, orders and topics is
  what `StatusPromise` and, once per service, `OutboxPromise` allow, so it relies on
  no more of these parts than they have been shown to give. (A relay may settle a
  row at any time after it published it; the flow does not see that, so `settled`
  stands empty in the two mappings.) For `PartnerDispatch` the correspondence is
  by reading only: `Send`, `Settle` and `StatusCallback` of the flow are `Reach`,
  `Submit` or `GiveUp`, and `Decide`, but the flow lets go of the count of attempts.
- `ServiceLife` extends `ServiceStart` and **implements** it
  (`LifeImplementsStart`), so the invariants of the start hold for whole lives of
  processes. For relays, dispatchers and consumers, which are not awaited at a
  stop, the exit of the process is the `Crash` of their own modules.
- `OrderEntry` uses the operators of `OrderRules`; what it leaves open about
  idempotency keys (`KeyKnown`) is `OrderCreation`, and what `OrderCreation`
  leaves open about the catalog (`Validate`) is `OrderEntry`.

### Common abstractions

- *Processes.* A relay or dispatcher is a program counter, its batch and the
  current row. A restart keeps the name and raises `epoch`; the lock owner is
  `<<name, epoch>>`, because the code draws a UUID at process start.
- *Statements.* Each SQL statement is one step, which is what READ COMMITTED
  and row locks give it. `FOR UPDATE SKIP LOCKED` only matters to a statement
  that overlaps another one and shows as `Claimable` of the rows that are left.
  `PartnerDispatch` and `SampleRestaurant` take the callback transaction as one
  step, since it holds the submission's row from its first look at it to its
  commit; `OrderCreation` and `OrderStatus` go statement by statement.
- *Time.* A lease is `none`, `live` or `expired`, and a row is `due` or not:
  that is what the statements compare. `LeaseExpires` is the normal passing of
  time over an unattended row; `LeaseOverrun` is a lease that runs out under a
  busy owner and costs one of the counted faults.
- *Data.* A body stands for all a request fingerprint covers, a key for (user,
  idempotency key); events, orders and records are model values or numbers.
  Rows are numbered in the order of the `ORDER BY` of their claim.
- *Faults.* Crashes, lost answers, failed statements, rebalances, overrun
  leases and outages draw on `budget` or `faults` (`MaxFaults`, `MaxAborts`,
  `MaxRestarts`), changes of the catalog on `MaxChanges`: bounds of the runs. The theorems hold for every value of it.

### Module by module

**`OutboxRelay`**. `row` is the outbox table, `relay[r]` the local state of
`RunOnce`, `copies` counts the records of an event in the topic. `Claim` is the
claiming statement with its `WHERE`, `ORDER BY` and `LIMIT`. `PublishAcked`,
`PublishRefused`, `PublishAckLost` and `PublishRepeated` are the outcomes of
one `Publish`; `Poison` rows are never accepted. `MarkDone`, `MarkNotOwned`,
`MarkAnswerLost` and `MarkError` are the outcomes of the mark; all but the first
end the batch, whose rows stay leased. `excess` is a history variable: how many
extra records of an event the faults so far account for.

**`PartnerDispatch`**. The same skeleton over submissions, with what differs in
the code: attempts are counted by the claim, the outcome of `Send` is success,
transient or permanent, the last attempt or a permanent error makes a row
`failed`, and the row's status can be changed by `StatusCallback` at any time
after the restaurant has the order. `attempt` is the value the claim returned,
which the dispatcher compares with the limit after the request.

**`OrderCreation`**. `Lookup` is the application's first look at the key,
`Validate` the catalog's answer, `AcquireLock`, `Recheck`, `Insert` and `Commit`
the store's transaction. `Interrupted` rolls an unfinished transaction back at
any point, `CommitAnswerLost` commits and answers with an error. The `UNIQUE`
constraint is modelled, so that leaving out the recheck shows as an error
answer, not as a second order. The value answered is part of the state,
because the client only sees that.

**`OrderStatus`**. `LockEvent` (advisory lock), `LookupInbox`, `LoadForUpdate`,
`TransitionTo`, `Commit`, and `Abort` between any two of them. `Allowed`, which
stands in `StatusPromise` with the rest of the domain, is the
domain's transition table in full, with the states no event reaches yet.

**`KafkaConsumer`**. `Fetch`, `HandleOK`, `CommitOK` are the loop, with
`HandleAnswerLost` and `CommitAnswerLost` as the failures that have an effect
(one without effect leaves the loop where it is). What broker and reader do is
modelled from how the loop uses them: a reader starts at the committed offset,
`Rebalance` moves partitions while loops are busy, and a commit is accepted from
a member that no longer owns the partition.

**`SampleRestaurant`**. `ChangeOrderStatus` is the handler up to the point
where it releases its mutex, `Finish` the part after the callback. In between
the callback is on the `wire`, where it may be delivered late, lost, or answered
to nobody (`SendFails` is the client's view of all that). `ReceiveStatusCallback`
is partner-service's transaction. `Restart` empties the memory and leaves the
wire alone.

**`OrderRules`**. `Menu` is `getMenuSQL`, `LineOK` and `UnitPrice` the loop of
`ValidateOrderItems`, `NewOrder` and `Total` the domain's sums, `StoreAccepts` the
CHECKs of the order tables, `PartnerAccepts` partner-service's `validatePayload`.
`Wrap` gives integers their width; `WrappedSum` adds as the code does, one amount
after the other, and `Sum` is the number it should come to. Both are recursive
functions over the positions, so that they can be reasoned about. A price in
`menu_items` is positive and fits a BIGINT (`RulesAssumption`), as its column and
its CHECK say. The five tables of error translation are
composed in `CatalogStatusOf` and `OrderStatusOf`.

**`OrderEntry`**. `cat` is the content of the catalog's tables, `req[r]` a call
with what it has read; `seen` is a history variable, the contents since the call
arrived. `Arrive`, `ReadOpen`, `ReadExists`, `ReadMenu`, `Price`, `Store` are the
steps of a call; `Change` may come between any two of them, `Fail` is a failure
of any hop, with or without the commit.

**`OrderFlow`**. Rows are sets of orders and events; the two topics are logs per
partition; `next` and `committed` are the consumers' positions. `ReceiveOrder` and
`ApplyPartnerEvent` are one handled record: seen before, applied, or refused for
ever, in which case the action is disabled and the partition waits. `Send` is a
request that reaches the restaurant. While the submission is pending it is the
normal case; a request of a dispatcher whose lease ran out may also come after
another dispatcher's mark or after the decision, at the cost of a fault. `PublishCreated`
and `PublishDecided` may repeat an event, `Reassign` sends a consumer back to its
committed offset, `Restart` makes the restaurant forget everything, callbacks are
lost and repeated at will, and `mapped` says which restaurants have an integration.

**`ServiceStart`**. `PingOK`, `PingFails`, `Retry` and `GiveUp` are
`waitForReady`; time is counted from `Open` in units of the first retry delay.
`LockBoot` and `CreateTable` are `ensureMigrationsTable`; `LockService`,
`CheckApplied`, `Apply` and `Commit` are `applyMigration`. `Dir[r]` is the
migration directory of a replica's image. `effects` records which scripts were
committed, in which order and by whom. The PRIMARY KEY is modelled as well as the
lock, so that leaving out the lock shows as an error.

**`ServiceLife`**. `kind` says which of the two server functions `main` calls.
`srv[r]` is the state of the two server goroutines, the channel `errs` and `main`.
`GRPCStarts` after `GracefulStop` returns `ErrServerStopped`; `BudgetSpent` is the
end of `SHUTDOWN_TIMEOUT`; `Drain` is `firstServerExit`. An exit closes
everything the process had (`Fresh`).

## 4. Runs, bounds and fairness

| Run | Checks | Instance | States |
|---|---|---|---|
| `outbox` | `PublishedIsInTopic`, `DuplicatesExplained`, `HolderKeepsRow`, `PromiseSpec`, `EventuallySettled` | 2 relays, 3 rows (one poison), batch 2, 1 fault | 19,511 |
| `outbox_order` | `OrderedPerKey` is violated | 1 relay, 3 rows of one key, batch 1, no fault | |
| `dispatch` | `EventsAgree`, `MarksAreTrue`, `ImplementsPromise`, `EventuallyHandled` | 2 dispatchers, 2 orders, 2 callbacks, batch 2, 2 attempts, 1 fault | 963,503 |
| `dispatch_tried` | `FailedWasTried` is violated | 2 orders, no fault | |
| `creation` | `OneOrderPerKey`, `AllOrNothing`, `AnswersAreTrue`, `ReplayNeedsNoCatalog`, `ImplementsPromise`, `EveryRequestAnswered` | 3 requests, 2 keys, 2 bodies | 65,505 |
| `status` | `InboxIsApplied`, `PromiseSpec`, `StatusFollowsDomain`, `EventuallyApplied` | 2 handlers, 2 orders, 4 events, 2 aborts | 35,655 |
| `consumer` | `NoLoss`, `ImplementsPromise`, `EventuallyApplied` | 2 members, 2 partitions of 2 records, 2 faults | 49,966 |
| `consumer_poison` | `OthersProgress` is violated | 1 member, 2 partitions | |
| `restaurant` | `AckedIsTold`, `RepeatIsSafe`, `OneCallbackPerDecision`, `NeverStuckInFlight` | 2 operators, 2 orders, 4 requests, 1 restart | 436,320 |
| `service_life` | `AppliedOnceInOrder`, `ServesMigrated`, `StartRaceIsNoError`, `GaveUpLate`, `StopIsClean`, `EveryStartEnds`, `EveryStopEnds` | 2 replicas of 2 images (2 and 3 migrations), deadline 6 units, 1 fault | 157,822 |
| `order_entry` | `EntryTypeOK`, `PricedFromOneMenu`, `StoredIsDeliverable`, `StatusIsTrue` | 1 call, 10 bodies, 8 catalogs, 2 changes, 8-bit money | 64,388 |
| `order_flow` | `NoDecisionBlocks`, `ImplementsPromise`, `NoOrderIsForgotten` | 2 orders in 1 partition, 1 fault | 500,854 |

The type invariants of the proved modules are theorems and are not run again;
`EntryTypeOK` of `order_entry` is, since it carries the width of the integers.
`RaceIsNoError` (`OrderCreation`) and `ChangeIsInInbox` (`OrderStatus`) are theorems
that are not run on their own: a behaviour that breaks them breaks the refinement
of the run as well, since no step of `CreationPromise` answers with a violated
constraint and no step of `StatusPromise` changes an order without its inbox row.
The same goes for `DecisionStands` (`PartnerDispatch`; `Decide` of `SubmissionPromise`
has it as its guard) and `InOrder` (`KafkaConsumer`; with a gap between the effects
of a partition, filling it would show as two effects at once).

Why these bounds are enough to be interesting:

- *Two of each process* is what the races need: a holder and a challenger of a
  row, two requests between lookup and lock, an old and a new owner of a
  partition. A third request in `creation` can meet the result of a race
  between the other two.
- *Three rows and batches of two* leave a row outside a claim and put the poison
  row first in every claim; with a batch of one it would be the known case in
  which nothing else moves (`EventuallySettled` needs fewer poison rows than a
  batch).
- *Two attempts* give a first, a last, and an exceeded attempt.
- *One or two faults*: each fault can happen at every step, so each two-effect
  gap is opened everywhere. In `consumer` two are needed for a member that
  loses a partition and then crashes or misses an answer.
- *Two records per partition*: an offset can be committed backwards and a record
  repeated before or after its successor.
- *Two images*: they share one migration, disagree on the text of another and one
  has a file the other lacks, so a replica can skip, apply and meet a
  mismatch.
- *A deadline of six units*, a first delay of one and a longest of two, pings of
  up to two: the delay reaches its ceiling with room left, and the deadline can
  fall into a ping or into a delay.
- *Two changes of the catalog* put a content of their own between each two of the
  three reads; the eight contents differ in one thing each. Two rows of the menu
  and one modifier of each are enough for a line with a foreign modifier. With 8
  bits the bodies reach totals that fit, that wrap to a negative one and that
  wrap to a positive one.
- *Two orders in one partition*: one can stand ahead of the other while its
  restaurant has no integration, and their events share the consumers. The one
  fault can be a repeated event, a redelivery or a restart, at every step.

`CHECK_DEADLOCK FALSE` stands where a run comes to its end: all rows settled,
all requests answered, all bounded inputs used. `OrderStatus` never ends, since
events may always be delivered again, and is checked for deadlock.

Fairness is weak fairness of what the code keeps doing on its own:

- `Relay.Run` and `Dispatcher.Run` loop until their context ends, and a process
  that dies is started again: `Claim`, some `Publish` or `Send`, and some mark
  happen if they stay possible. The HTTP client's timeout makes `Send` return.
- Time passes: `LeaseExpires`, `BecomesDue`.
- A broker that is asked for the same record again and again takes it in the
  end unless it is poison: strong fairness of `PublishAcked`, and in
  `KafkaConsumer` weak fairness of `HandleOK` and `CommitOK`, which
  `handleUntilSuccess` and `commitUntilSuccess` repeat for ever.
- The reader delivers every partition it owns in turn: strong fairness of
  `Fetch`. A record is delivered again until it is in the inbox: strong fairness
  of `Deliver` per event in `OrderStatus`.
- A request that is being served goes on (`Work` of `OrderCreation`,
  `OrderStatus`), and a restaurant's handler runs to its end.
- In `ServiceLife` a live process goes on (`Before(StartStep(r))`, `MainStep(r)`),
  which includes its timers. Nothing is assumed of handlers: `EveryStopEnds` holds
  although a call may never return.
- In `OrderFlow` the fairness conditions are what the parts show: a stored event
  is published (`EventuallySettled`), a record is handled (`EventuallyApplied`),
  a submission is settled (`EventuallyHandled`). The restaurant need never decide
  or deliver anything, and a missing integration need never be added.

Nothing is assumed of a restaurant (it may refuse every order or never answer),
of the catalog, of clients, of the database coming up, or of faults: none has to
happen.

## 5. Proofs

Every theorem holds for all values of the constants; each module proves an
inductive invariant and gets the properties from it. None of the safety
properties is inductive as it stands.

### `OutboxRelayProofs`

It proves five theorems for every set of relays, events,
batch size and number of faults, from `RelayAssumption` (events are numbers, the
batch is not empty, the null values are no owners or events, there are finitely
many relays):

| Theorem | Statement |
|---|---|
| `TypeCorrect` | `Spec => []TypeOK` |
| `PublishedAlwaysInTopic` | `Spec => []PublishedIsInTopic` |
| `DuplicatesAlwaysExplained` | `Spec => []DuplicatesExplained` |
| `HolderAlwaysKeepsRow` | `Spec => HolderKeepsRow` |
| `ImplementsPromise` | `Spec => PromiseSpec` |

- `PublishedIsInTopic` says nothing of the moment between `Publish` and the
  mark. The invariant `SafetyInv` adds what holds there:
  `SafetyInv == TypeOK /\ LoopShape /\ PublishedIsInTopic /\ RelayKnows`.
  `LoopShape` ties the program counter of a relay to its batch and its current
  message (idle has neither; acked and refused have a current message of the
  batch). `RelayKnows` says that a relay in `acked` has a message that is in
  the topic. The mark then settles only such a row.
- `DuplicatesExplained` bounds the copies made, and a relay that is still going
  to send will make one more. `CopiesBudget` counts those relays against the
  budget: the copies of an event plus the relays that may still send it under a
  row they own stay within `1 + excess`. Every action either moves a relay out
  of that set while it adds a copy, or adds to `excess` what it adds to the sum.
  The proof needs the cardinality facts of `FiniteSetTheorems` and finitely
  many relays.
- `HolderKeepsRow` follows action by action: a row under a live lease is not
  claimable, and a mark needs the owner's id.
- `ImplementsPromise` maps `storedRows` and `settledRows` to the variables of
  `OutboxPromise`. Every step of the relay is a `Store`, an `Append`, a `Settle`
  or a stutter; `Settle` needs `RelayKnows`.

### `PartnerDispatchProofs`

From `DispatchAssumption` (orders are numbers, batch and attempt limit are not
zero, the null values are no owners or orders, finitely many dispatchers):

| Theorem | Statement |
|---|---|
| `TypeCorrect` | `Spec => [](TypeOK /\ LoopShape)` |
| `DecisionAlwaysStands` | `Spec => DecisionStands` |
| `EventsAlwaysAgree` | `Spec => []EventsAgree` |
| `SubmittedAlwaysDelivered` | `Spec => []SubmittedWasDelivered` |
| `FailedAlwaysJustified` | `Spec => []FailedIsJustified` |
| `MarksAlwaysTrue` | `Spec => []MarksAreTrue` (the two above together) |
| `DispatchImplementsPromise` | `Spec => ImplementsPromise` |

- The proofs split `Next` into the steps of one dispatcher and the steps that
  only touch rows. `DispatchRows` says what a dispatcher can do to a row: count
  an attempt, or change the status of a *pending* one. `DecisionStands` and
  `EventsAgree` follow from it and from the callback's guard.
- `SubmittedWasDelivered` and the first half of `FailedIsJustified` say nothing
  of the moment between the request and its mark. `ResultKnown` adds it: in `ok`
  the restaurant has the order, in `terminal` it refused it or the attempt of
  the claim was the last. That attempt may be out of date by the time it is
  marked; `AttemptsKnown` says it is never ahead of the row.
- That a counted attempt pays for one request needs the requests still to come:
  `SendsBudget` adds to `sends[o]` the dispatchers that claimed `o` and have not
  sent it yet, stale ones included. A claim counts an attempt and adds at most
  one of them, a request takes one away.
- `DispatchImplementsPromise` maps the status column to `shown` (`ShownStatus`) and
  the attempts to `attempts` (`CountedAttempts`). A claim, with or without its answer,
  is `Try` of the rows it takes; a request is `Reach` or `Refuse`, or a stutter; a mark
  is `Submit`, `GiveUp` or a stutter; a callback is `Decide`. What a mark writes was
  found out before it, by a dispatcher that may have lost the row and got it back
  since: `ResultKnown` and `AttemptsKnown` say that it is still true. A request needs
  a counted attempt, however late it comes, and `AttemptsKnown` has that too.

### `OrderCreationProofs`

From `CreationAssumption` (the null values are no requests, keys or bodies):

| Theorem | Statement |
|---|---|
| `TypeCorrect` | `Spec => []TypeOK` |
| `AlwaysAllOrNothing` | `Spec => []AllOrNothing` |
| `AlwaysOneOrderPerKey` | `Spec => []OneOrderPerKey` |
| `AnswersAlwaysTrue` | `Spec => []AnswersAreTrue` |
| `RaceIsNeverAnError` | `Spec => []RaceIsNoError` |
| `ReplayNeverNeedsCatalog` | `Spec => []ReplayNeedsNoCatalog` |
| `CreationImplementsPromise` | `Spec => ImplementsPromise` |

`CreationInv` is `TypeOK`, `RequestShape`, `LockIsHeld`, `KeyIsFree`,
`OrdersAreDone` and `AllOrNothing`. Its heart is `KeyIsFree`: between its recheck
and its commit a request's key has no row. It survives the commits of others
because of `LockIsHeld`: whoever is inside the transaction holds the lock of its
key, so two requests that are both past the recheck have different keys.
`OrdersAreDone` keeps the input of a stored order fixed. `ReplayNeverNeedsCatalog`
adds `KnownIsStored`: a key that was stored when a request arrived stays stored,
so the request's first look finds it.

`CreationImplementsPromise` is the strongest of them: with the callers' view of a
request (`Told`: input and answer) for the abstract `told`, every step of
`CreateOrder` is a step of `CreationPromise` or a stutter. The moment of a creation
is its commit, whether its answer arrives or not (`WrittenIsCreate`, by
`KeyIsFree`); the moment of a repetition or a conflict is the look that found the
row, inside or outside the transaction (`ReplyStoredIsRepeat`); only an unknown key
is refused (`KnownIsStored`); everything else shows the callers nothing
(`GotoIsSilent`). `Blank` says that a request has no key before it arrives and no
order before it is done.

### `OrderServiceProofs`: `OrderStatus`

From `StatusAssumption` (every event names an order and one of the two
decisions, the null values are no handlers or events):

| Theorem | Statement |
|---|---|
| `TypeCorrect` | `Spec => []TypeOK` |
| `StatusAlwaysFollowsDomain` | `Spec => StatusFollowsDomain` |
| `InboxIsAlwaysApplied` | `Spec => []InboxIsApplied` |
| `ChangeIsAlwaysInInbox` | `Spec => []ChangeIsInInbox` |
| `StatusImplementsPromise` | `Spec => PromiseSpec` |

`StatusInv` is `TypeOK`, `EventIsHeld`, `RowIsHeld` and `CommitIsAllowed`.
`RowIsHeld` is what `FOR UPDATE` is for: while a handler holds the row, what it
read is what is stored. `CommitIsAllowed` carries the domain's answer from
`TransitionTo` to the commit. `InboxIsApplied` also needs a fact of the domain's
table, `DecisionsComeFirst`: a partner's decision is only possible for a pending
order, so a decision that was applied is never replaced by another event.

`StatusImplementsPromise` says that the only step that changes `order` or `inbox`
is a commit, and that it is an `Apply`: the event is not in the inbox
(`EventIsNew`, an invariant that survives the commits of others because of the lock
on the event), the row that was read is the stored one (`RowIsHeld`) and the domain
allows the transition (`CommitIsAllowed`).

### `OrderServiceProofs`: `OrderEntry`

From `RulesAssumption` (a modifier belongs to an item, prices are positive and
fit) and `EntryAssumption` (a body is a sequence of lines, `Nothing` is no order),
for every width of an integer, every set of catalogs and of bodies, any number of
calls and of changes:

| Theorem | Statement |
|---|---|
| `EntryInvariant` | `EntrySpec => []EntryInv` |
| `EntryTypeCorrect` | `EntrySpec => []EntryTypeOK` |
| `AlwaysPricedFromOneMenu` | `EntrySpec => []PricedFromOneMenu` |
| `StoredIsAlwaysDeliverable` | `EntrySpec => []StoredIsDeliverable` |
| `StatusIsAlwaysTrue` | `EntrySpec => []StatusIsTrue` |

`EntryInv` is `EntryTypeOK` and `Sound(req[r], cat)` for every call: the catalog
of now is among those the call has seen; the restaurant was open in one of them,
from the first read on; the menu that was read is the menu of one of them, and the
order that was made is the one made from it (`MadeFrom`); a stored order passed
the CHECKs; an answer is true. `PricedFromOneMenu` on its own is not inductive,
since it says nothing of a call that has not stored yet. A change of the catalog
only adds to what was seen, so it disturbs none of this (`ChangeSafe`).

What the steps compute is in lemmas about the operators of `OrderRules`:

- `LoopIsRule`: the loop over the requested items accepts a line of the menu just
  when the rule on the tables does.
- `PriceIsExact`, `TotalIsExact`: the code's sums are the exact ones wrapped to
  the width. Wrapping before adding makes no difference to the result
  (`WrapAdds`), so a total that fits is exact although it is made of wrapped
  amounts; and since all amounts are positive (`SumBounds`), no line of such an
  order was wrapped either, and partner-service finds the totals it expects.
- `StatusTable`: the statuses of the errors, through all tables of translation.

A sum over a body of any length needs induction. The library's induction theorems
take the predicate as an operator, which the provers cannot instantiate; `Induction`
here takes a set. It follows from `LeastNumber`, a set of naturals that is not
empty has a least member, which is the library's `WFMin` for `<` on `Nat`.
`AddsExists` builds the sequence of partial sums by it, and `SumIs` and
`WrappedSumIs` say that the recursive functions are that sequence.

### `KafkaConsumerProofs`

From `ConsumerAssumption`, for any number of members, partitions, records, faults
and any poison records:

| Theorem | Statement |
|---|---|
| `TypeCorrect` | `Spec => []TypeOK` |
| `NothingIsLost` | `Spec => []NoLoss` |
| `AlwaysInOrder` | `Spec => []InOrder` |
| `GroupImplementsPromise` | `Spec => ImplementsPromise` |

`NoLoss` looks at committed offsets only, and those come from what members hold.
`ConsumerInv` adds `Held` for each member: every record below its position in a
partition is applied, except the one in its hands; below that record, and below an
offset it is about to commit, all are. `Held` does not ask whether the member still
owns the partition, which is why a late commit after a rebalance does no harm.

`GroupImplementsPromise` counts the effects of a partition by the first record
without one (`Done`, by `FirstMissing`). The refinement needs one more invariant,
`LogInv`: the effects of a partition are those of its first records, without a gap, and
the record in a member's hands is one of the log. Then a handled record is either the first missing one, which is an `Effect`, or a repetition,
which is a stutter, and an offset that is committed is at most the first missing one.

### `SampleRestaurantProofs`

From `RestaurantAssumption` (the bounds are numbers), for any number of orders,
operators, requests and restarts:

| Theorem | Statement |
|---|---|
| `RestaurantInvariant` | `Spec => []RestaurantInv` |
| `TypeCorrect` | `Spec => []TypeOK` |
| `AckedIsAlwaysTold` | `Spec => []AckedIsTold` |
| `RepeatIsAlwaysSafe` | `Spec => []RepeatIsSafe` |
| `AlwaysOneCallbackPerDecision` | `Spec => []OneCallbackPerDecision` |

The properties speak of what partner-service received; what keeps them true is
also on the wire and in the restaurant's memory. `Made` collects the callbacks of
all three places. `IdIsOneDecision`: an id is the time of its decision, so no two
callbacks in `Made` share one. `ToldIsStored`: an operator's request that got an
answer has its callback in `received`, before the row is marked. `AllRemembered`:
without a restart every callback in `Made` is the one in its row, so a repeated one
cannot differ. `FewDecisions` counts `Made` per order: one for the decision in
memory, and one for each restart that may have forgotten another. A restart takes
the one from memory and leaves the callback on the wire, which is why the count is
of `Made` and not of `received`.

### `ServiceLifeProofs`: `ServiceStart`

From `StartAssumption` (in a directory a name names one file, timeouts and delays
are numbers, the delays not zero and in order, nobody is no replica), for any
number of replicas and any directories:

| Theorem | Statement |
|---|---|
| `TypeCorrect` | `StartSpec => []TypeOK` |
| `AlwaysAppliedOnceInOrder` | `StartSpec => []AppliedOnceInOrder` |
| `AlwaysServesMigrated` | `StartSpec => []ServesMigrated` |
| `StartRaceIsNeverAnError` | `StartSpec => []StartRaceIsNoError` |
| `AlwaysGaveUpLate` | `StartSpec => []GaveUpLate` |

`StartInv` says of each replica: it looks at a file only under the lock
(`Locked`); it has gone through its directory from the first file on and all of
that is recorded (`Followed`); what it has decided to run is not recorded
(`Unrecorded`, which the lock keeps true while others commit); it has waited as
long as it says (`Patient`). The lock is the argument for everything: only its
holder adds a row, so nobody else's decision can be out of date.

### `ServiceLifeProofs`: `ServiceLife`

`LifeImplementsStart` (`LifeSpec => StartSpec`): each step of the servers leaves
the variables of the start alone or is `Stops`. `LifeIsAlwaysSafe` draws the
consequence: `AppliedOnceInOrder`, `ServesMigrated`, `StartRaceIsNoError` and
`GaveUpLate` hold under `LifeSpec`, as the run checks them. `StopIsAlwaysClean`
(`LifeSpec => StopIsClean`) needs what the channel may hold: `LifeInv` says of
each process where a stop can be (`Path`), that an error in the channel has a
failed or refused server behind it (`Blame`), and that no result gets lost before
it is read (`Counted`: results read, in the channel and still to come make up the
number of servers).

### `OrderFlowProofs`

From `FlowAssumption` (every order has a partition), for any number of orders,
partitions, faults and restarts:

| Theorem | Statement |
|---|---|
| `TypeCorrect` | `Spec => []TypeOK` |
| `NoDecisionEverBlocks` | `Spec => []NoDecisionBlocks` |
| `FlowImplementsPromise` | `Spec => PromiseSpec` of `OrderPromise` |
| `FlowAppliesAsPromised` | `Spec => PromiseSpec` of `StatusPromise` |
| `CreatedTopicAsPromised` | `Spec => PromiseSpec` of `OutboxPromise`, for order-service |
| `DecidedTopicAsPromised` | `Spec => PromiseSpec` of `OutboxPromise`, for partner-service |

`FlowInv` has three parts. `TopicsAreStored`: nothing is in a topic that no
transaction has stored. `KnownInOrder`: the services learn of an order one after
the other, so a decision finds its order. `OneDecision`: every event tells the
decision that stands, and the user sees no other; the callback's guard (`Taken`)
keeps it, whatever the restaurant forgets. `PromiseSpec` follows by mapping
`CreateOrder` to `Place`, the first `StatusCallback` that is taken to `Take`,
the first `ApplyPartnerEvent` to `Show`, and everything else to a stutter.

The last three theorems look at the flow from its parts. For `StatusPromise` the row
of an order (`OrderRow`) is its status with the version that status implies, for an
order not yet stored the row it will be stored with. A handled event that is not in the
inbox is an `Apply`, either a transition of the domain or a repetition of the decision
that stands, and no other step of the flow moves a stored order (`OrdersStay`). For `OutboxPromise` the copies of an event are counted in the log of
its partition; `CopiesAppend` says that appending a record adds one to its own count
and leaves the others, and `TopicsAreStored` that it was stored before.

### Only model-checked

The liveness properties of all modules (`EventuallySettled`, `EventuallyHandled`,
`EveryStopEnds`, `NoOrderIsForgotten`, the fairness part of `ImplementsPromise` and
the like): liveness under fairness needs `ENABLED`, which is out of the prover's
reach. Every safety property of a passing run has a theorem. The three runs that
expect a violation have none, of course.

## 6. Where code and documentation disagree

Three runs state a sentence of the documentation and TLC shows the code break it.
`PROJECT.json` quotes the lines.

- `outbox_order`: the events of one order are said to be ordered in their
  partition. A refused event waits for its retry, the relay goes on, and a later
  event of the same order gets there first. Today each service writes one event
  per order, except for callbacks repeated under a new id, so nothing goes wrong
  in the flow as it is.
- `dispatch_tried`: a submission is said to fail when its attempts are used up.
  Attempts are counted for a whole batch when it is claimed, and the first mark
  that is refused (a callback came first) ends the batch: a row can fail with
  fewer requests than the limit.
- `consumer_poison`: a poison event is said to block its own partition. One loop
  serves all partitions of a member, so it blocks them all.

## 7. Not modelled

- *Text.* Names, descriptions, request fingerprints, JSON and protobuf: a body or
  an event is one value. The fingerprint is taken to be equal exactly for equal
  bodies. Field-by-field mapping between HTTP, gRPC and the domain is left out.
- *Reads for display.* `ListRestaurants`, and `GetMenu` for a client: they change
  nothing, and the one part of `GetMenu` that decides about an order is in
  `OrderEntry`. `GetOrder` is the variable `shown` of `OrderPromise`.
- *Generated code and configuration.* Produced from the protobuf files; parsed
  once at the start, without a state of its own.
- *Tokens and the integration row.* Nothing changes them at run time.
- *The in-memory order store and catalog adapter.* Test doubles no command uses.
- *A listener for gRPC that cannot be opened, a client or relay that cannot be
  constructed.* Exits of `main` before anything is shared; a `Crash` of
  `ServiceStart` has the same effect.
- *What a migration script does.* A script is one committed effect.
- *`publish_attempts`, `last_error`, metrics, logs.* Nobody reads them.
- *Collisions of advisory lock hashes.* They only make one transaction wait for
  another that is going to end.

## 8. Plan

The order in which the project grew, the most important behaviour first:

1. `OutboxPromise` and `OutboxRelay`, `PartnerDispatch`, `OrderCreation`,
   `OrderStatus` with their proofs; `KafkaConsumer`, `SampleRestaurant`.
2. The proofs of `KafkaConsumer`; `OrderPromise` and `OrderFlow` over the parts;
   `ServiceStart` and `ServiceLife`; `OrderRules` and `OrderEntry`.
3. The proofs of `SampleRestaurant`, and of `OrderEntry` with the lemmas about
   `OrderRules` they rest on.
4. `StatusPromise` and `CreationPromise`, with the proofs that order-service's two
   transactions implement them.
5. `SubmissionPromise` and `ConsumerPromise`, with the proofs that dispatchers with
   callbacks and a consumer group implement them; the proofs that `OrderFlow` takes
   no more of `StatusPromise` and `OutboxPromise` than they give. Stating `Reach`
   showed that `Send` of the flow was too narrow (no late request after a mark or a
   decision); it has been widened, and everything still holds.

What is left, in the order of its worth:

1. A mapping from `OrderFlow` to `SubmissionPromise`. The flow would have to count
   attempts, which only the failed mark asks for.
2. `OrderFlow` with two partitions, to see that partitions do not disturb each
   other; it is proved for safety for any number of them, and with one partition
   the liveness run takes two minutes.
