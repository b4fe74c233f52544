# Verification of the analytics service

TLA+ models of the food-delivery analytics service, the TLC runs that check
them on small instances, and TLAPS proofs of their main properties for every
instance. Paths below are those of the repository.

## 1. Inventory

The service is one Go process, run in any number of instances that share a
MongoDB, two RabbitMQ queues and a core service. It has three duties: fold the
events of the order and payment services into one row per entity and day, serve
those rows over HTTP, and refuse readers whose role lacks `analytics:read`.

| Component | Source | State | Operations |
|---|---|---|---|
| Broker client | `pkg/messaging/amqp.go` | connection, channel, buffered deliveries | connect, consume loop, ack, nack, close |
| Event consumer | `lib/coreevents/consumer.go` | handler table, fixed at start | decode, dedup, dispatch |
| Event handlers | `app/analytics/eventhandlers`, `service` | the handler's next step | four handlers, each a list of updates |
| Aggregate repositories | `app/analytics/repository/*_day_repo.go` | four `agg_*_day` collections | twelve updates, four range queries |
| Dedup markers | `repository/event_ids_repo.go`, `indexes.go` | `event_ids`, unique, TTL 7 days | `MarkSeen`, expiry |
| Process lifecycle | `lib/boot/boot.go`, `cmd/api/main.go` | context, connections, HTTP listener | boot, SIGTERM, drain, deferred closes, exit |
| RBAC middleware and cache | `lib/rbac` | one map role -> permissions, per instance | `Require`, `GetPermissions`, `Invalidate` |
| Core service client | `lib/coreclient`, `pkg/httpclient` | attempt counter of a call | `GetRolePermissions`, three tries |
| Core events consumer | `lib/boot/boot.go:97-130` | its own connection and queue | `rbac.#` -> `Invalidate` |
| Authentication | `lib/auth` | none | JWT to claims, or 401 |
| Query API | `controller`, `dto`, `service`, `lib/http`, `lib/errors` | the cursor of a query | validation, range, four `Find`s, averages, answers |
| MongoDB client | `pkg/mongo` | connection | connect with ping, disconnect |
| Configuration, logging, correlation | `lib/config`, `lib/logger`, `lib/middleware` | none that changes | |

How they interact:

```
order/payment outbox --> RabbitMQ queue --> consume loop --> Consumer --> handler
                            |   ^ close          | ack/nack     | MarkSeen  | UpdateOne*
                            v                    v              v           v
                        dead-letter queue <------+          event_ids   agg_*_day
                                                                            ^
core service --outbox--> core-events queue --> Invalidate --> cache         | Find
     ^                                                         ^  |         |
     +------------- GetRolePermissions (3 tries) --------------+  v         |
                                         HTTP request --> Require --> controller
```

What is hard, and the properties that make each part correct:

- **Counting once.** A copy may be published twice, redelivered after a closed
  connection, and handled by two instances at a time. The marker's unique index
  must let one handling through (`AtMostOnce`, `NeverOvercounts`), for as long
  as the marker lasts (`DedupWindow`).
- **Failing half-way.** Each handler is a sequence of independent updates. An
  update may fail, or be made and report an error; a process may stop between
  two. What was made must keep the order of the collections (`Cascade`,
  `BranchesWithinRestaurant`), and a failed event must leave a copy behind
  (`FailureKeepsCopy`).
- **Retrying.** A failed copy goes to the dead-letter queue and must not come
  back by itself (`RequeuedOnDisconnectOnly`), but every copy must be settled
  in the end (`Settled`).
- **Being right.** With nothing failing the rows are the events: those that the
  orders name, each on the order's day, with its orders, revenue and sales
  (`ExactWhenQuiet`).
- **Reading while writing.** A query takes no snapshot, and a handler's updates
  are separate. An answer must contain what was acked before it was asked for
  (`AckedIsVisible`), and a client that goes from the platform to a branch to its
  restaurant must not see money disappear (`ReadAgainstTheFlow`). A cancellation
  is booked on its own day: it may make a count negative, but takes one order at
  most (`CancelledOnce`).
- **Coming up and going down.** Any call of boot can fail after others have
  succeeded. A consumer must not take orders before what its dedup and its
  dead letters rest on is there (`ReadyToConsume`), a close must belong to a
  connection (`ServiceTypeOK`), a signal must not cost a request its answer
  unless ten seconds are not enough (`DrainAnswers`), and must end the process
  whatever a query does (`Stops`).
- **Staleness.** The cache is filled without a lock held across the call and is
  emptied by events that can be late, lost on a closed connection, or consumed
  by another instance. A decision must not rest on too old an answer
  (`BoundedStaleness`); an acked event must have done its work
  (`OnlyCrossedStale`); a lookup must end (`Answered`).

PROJECT.json lists the hazards one by one, each at its line.

## 2. Modules

| Module | Content |
|---|---|
| `DayAggregates` | documents, `UpdateOne`, the four handlers as sequences of updates (operators only) |
| `EventPipeline` | queue, dedup, consume loop, process, faults, clock; composes `DayAggregates` |
| `PipelineTotals` | properties that add up rows |
| `AtMostOnceLedger` | abstract specification: what counting once means |
| `DaysQuery` | a client's queries over the rows while the pipeline writes them; extends `PipelineTotals` |
| `PermissionCache` | requests, cache, core service, core-events queue, faults, clock |
| `ServiceLifecycle` | boot, HTTP server, drain, closes and end of each process; extends `PermissionCache` |
| `MCPipeline`, `MCQueries`, `MCPermissions`, `MCService` | workloads, queries, fault quotas, requests and symmetry for TLC |
| `EventPipelineProofs` | types, dedup window, redelivery rule |
| `AtMostOnceProofs` | `EventPipeline` implements `AtMostOnceLedger` |
| `FailureProofs` | a failure without a stop leaves a copy of the event behind |
| `SumTheorems` | laws of the sum over a finite set, by induction over finite sets |
| `PipelineTotalsProofs` | the totals: rows against events, collections against each other |
| `QueryProofs` | queries leave the pipeline alone; answers stay within their query, follow each other against the flow and show what was acked |
| `PermissionCacheProofs` | types, bounded staleness, only crossed lookups are stale |
| `ServiceLifecycleProofs` | `ServiceLifecycle` implements `PermissionCache`; types and deferred closes; when a consumer is attached; what a drain cuts off |

The event side (`EventPipeline`, `DaysQuery`) and the request side
(`PermissionCache`, `ServiceLifecycle`) share the process and MongoDB. They are
not composed into one specification: its states would be too many for TLC. Where
they meet, each has what the other does as far as it can see it: the pipeline
has `Start`, `Terminate`, `CloseBroker`, `Exit` and `Kill`, the lifecycle has
the attachment of the order consumer and one step for a query.

### DayAggregates and EventPipeline: state and actions

| Variable | Code |
|---|---|
| `place`, `body` | where each copy of a message is: outbox, queue, an instance (unacked), acked, dead-lettered; its body |
| `buffer[i]` | the Go deliveries channel, which outlives the connection |
| `pc[i]`, `hand[i]`, `plan[i]` | the loop goroutine: its place, the delivery it holds, the updates its handler has still to make |
| `live[i]`, `link[i]` | the context is not cancelled; the AMQP channel is open |
| `seen`, `rows` | `event_ids` and the four collections |
| `claims`, `effects` | history: when `MarkSeen` answered firstTime; handler steps made |
| `now`, `quota` | the clock; faults still to happen |

`Take` is the callback up to the dedup check with its early acks; `Duplicate`,
`FirstTime` and `MarkSeenFails` are the three answers of `MarkSeen`, the second
with the dispatch that follows; `ApplyUpdate`, `SkipItem` and `UpdateFails` are
one step of a handler; `Ack` and `Nack` end the callback; `Return` is the end of
the loop. `Start`, `Terminate`, `CloseBroker` and `Exit` are `boot.Run` as the
loop sees it, `Kill` and `DropConnection` the faults. `Publish`, `Deliver` and
`ExpireMarker` are the outbox, RabbitMQ and MongoDB's TTL monitor.

Decisions:

- Every MongoDB operation is one atomic step, as a write of one document is. A
  failed one may or may not have been made. Once the context is cancelled,
  operations can only fail. `mongo:7` retries the duplicate-key error of two
  concurrent upserts by itself, so it is no outcome.
- A delivery order is never assumed: outboxes are drained region by region and
  copies redelivered, so `Deliver` picks any ready copy.
- An ack counts only if the copy is still unacked on the instance's connection.
  Buffered deliveries of a closed connection may still be handled: Go's `select`
  takes any ready case, and the channel is drained before it reports closed.
- The shutdown does not wait for the loop (`boot.go:157-163`), so `CloseBroker`
  and `Exit` are enabled wherever the loop is. A boot that fails after the
  consumer started is a `Kill`.
- A marker may go any time after it expires. The TTL is the seven days of
  `indexes.go:88`; `EVENT_DEDUP_TTL_DAYS` (`env.go:36`) is read and not used.
- The marker insert, the dispatch and the handler's reading of the clock are
  one step: nothing another process can see lies between them.
- `UpdateOne` with the filter `{date}` picks any row of the day, whatever its
  currency; which one is the server's choice. Payments carry a currency that no
  update looks at.
- Event ids are unique per outbox row: two messages with one id are one message.
- A write of a killed process that reaches MongoDB after the process has been
  restarted is left out.

### DaysQuery: state and actions

| Variable | Code |
|---|---|
| `asked` | the query whose `Find` is under way |
| `found` | the documents its cursor has read, as they were when it read them |
| `due` | those that existed when it began: `cursor.All` does not end without them |
| `acked` | history: the orders completely acked when it was asked |
| `answer` | the client's last answer: query, code, rows |

`Ask` is the controller with `Parse...Request` and the range check of the
service (`Verdict`), which rejects the query or begins to read. `Read`,
`Finish` and `FindFails` are `Find` and `cursor.All`; `Result` with `Shown` is
the projection of the service and the DTOs, `Respond` is `Wrap` and
`SendSuccess`. Every step of `EventPipeline` goes on in between.

Decisions:

- The four `Find` functions differ in their filter only (`Selects`), so one
  action stands for all.
- MongoDB's default read concern gives no snapshot: documents are read one by
  one, in any order; one inserted meanwhile may or may not be found. No document
  leaves a collection, and no update changes a filtered field, so none is read
  twice or missed.
- An answer is a set of rows. The sort by day (and product) is left out.
- The average divides only for a positive count. Go cuts towards zero
  (`Quotient`), which matters only if an amount is negative.
- The client is one session that asks any number of queries and remembers its
  last answer; that is what two answers compared need. Another client would be
  another such session, as reading changes nothing.
- `restaurantId` on the route of a branch is checked to be a number and then not
  used: a branch is shown under any restaurant.

### PermissionCache: state and actions

| Variable | Code |
|---|---|
| `grant`, `last` | core: does the role hold `analytics:read`; history: when each answer was last true |
| `place`, `about`, `purged` | each event under `rbac.#`: where, for which role, whether its handler has called `Invalidate` |
| `listening[i]` | the core-events loop of the instance runs |
| `cache[i][r]` | `PermissionCache.cache`, with `cachedAt` |
| `pc[q]`, `local[q]` | the goroutine of a request and the locals of `GetPermissions` and `Get` |

`Arrive` is `Authenticate` and `Require` up to the lookup; `Hit`, `Miss`,
`Store` are `GetPermissions`; `Answer`, `CallFails`, `Resend`, `CallRefused` are
`httpclient.Get` and the core service; `Decide` is the end of `Require`.
`Change`, `Unrelated`, `Publish` are the core service and its outbox, `Deliver`,
`Invalidate`, `Ack` the consumer. `Subscribe` starts the consumer, `ProcessGone`
is the end of a process: its requests are lost, its cache is empty. `Miss`, `Answer` and `Store` are separate
steps, because the cache lock is held in none of the gaps. `crossed` marks the
answers that an `Invalidate` of their role passed on their way to the cache.

Decisions:

- Time is in ticks. A goroutine that can run, and an answer that has arrived,
  wait less than a tick; a call lasts at most `Timeout`. Backoff may last any
  time. This assumption is what gives `BoundedStaleness` a bound at all.
- Every route asks for the one permission `analytics:read`, so a list of
  permissions is "held" or "missing".
- All instances consume one `core-events` queue, so an event reaches one of
  them.
- `VerifyToken` panics on a valid token that lacks a claim; `net/http` closes
  the connection, and the outcome is "aborted".
- A client that goes away cancels the call: `CallFails` covers it. Processes
  end and connections are lost any number of times. An `Invalidate` by a handler whose connection was just
  lost is left out: it only deletes an entry once more.
- A 200 response with `success: false` decodes to an empty list and is cached
  as "missing". Whether core ever sends one is not visible here; it is not
  modelled.

### ServiceLifecycle: state and actions

| Variable | Code |
|---|---|
| `phase[i]`, `calls[i]` | where `boot.Run` is; how many of the calls of `Boot` have succeeded |
| `live[i]` | the context of `signal.NotifyContext` is not cancelled |
| `defers[i]` | the stack of deferred closes |
| `attached[i]` | the order consumer of the instance is attached to the queue |
| `server[i]` | the goroutine of `ListenAndServe` |
| `built` | which indexes and which topology exist; both outlive the process |
| `reply[q]` | what a request that passed `Require` was answered |
| `cut` | history: requests in flight at a kill or at the deadline of a drain |

`Boot` is the sequence of calls of `Run` that can fail, the declarations of
`assertTopology` one by one. `CallReturns` and `CallErrs` are the next call and
its two outcomes. `Listen` is the goroutine of the server, `Admit`, `ServeStep`
and `Query` a request on its way from the router to its answer. `Signal`,
`Shutdown`, `Drained`, `DrainTimesOut`, `Close` and `Exit` are the way down,
`Kill` the short cut. Each is a step of `PermissionCache` or leaves it alone.

Decisions:

- Only `mongo.Connect` and `EnsureIndexes` look at the context; after a signal
  they can only fail, and the rest of boot goes on until the server starts and
  is shut down at once. A broker connection is tried without the context.
- The second `assertTopology` and `Consume`, of the core events, are one call
  each: nothing that a property here tells apart lies between their parts.
- A query of MongoDB has no deadline (`r.Context()`), so `Query` has no
  fairness. A client that is disconnected refuses it.
- The ten seconds of the drain are not counted: `DrainTimesOut` may happen
  whenever a request is in flight. It says that a drain ends, and who is cut
  off, not how long it takes.
- A lost broker connection does not end the process (`LoseBroker`,
  `DropConnection`), nor does a listener that could not be opened.
- A second signal changes nothing, because `stop` is not called before `Run`
  returns.

## 3. Runs

Passing runs:

| Run | Instance | Shows |
|---|---|---|
| `faults` | 2 instances, 2 orders, 3 copies; 1 stop, 1 MongoDB failure, 1 lost connection | `TypeOK`, `Cascade`, `NeverOvercounts`, `FailureKeepsCopy`, `RequeuedOnDisconnectOnly`, and `AtMostOnce` by refinement |
| `retention` | 1 order, 3 copies, markers of 2 ticks in a clock of 4; one fault of each kind | `DedupWindow` |
| `reads` | 1 instance, 3 copies of a placed order, its payment, its delivery, an order of the next day and a cancellation on that day; 6 queries, two of them invalid; a MongoDB failure | `QueryTypeOK`, `BranchesWithinRestaurant`, `CancelledOnce`, `ReadAgainstTheFlow`, `AckedIsVisible` |
| `quiet` | 2 instances, 3 orders of 2 restaurants with 3 branches, 2 currencies and several days, one without a date, items among which a product named twice and two that do not count; 4 copies, no fault | `ExactWhenQuiet` |
| `settle` | 2 instances, malformed envelope, no id, unknown type, malformed payload, good order; a stop, a MongoDB failure | `Settled`, under `FairSpec` |
| `decisions` | 2 requests of a role, 2 changes, 1 instance, any number of lost connections and restarts | `TypeOK`, `OnlyCrossedStale`, `BoundedStaleness` |
| `lifecycle` | 1 instance, 4 requests: a role to look up, an administrator, no token, an incomplete token; any call of boot or to core may fail, signals and kills anywhere | `ServiceTypeOK`, `ReadyToConsume`, `DrainAnswers`, `Stops`, `Answered`, under `ServiceSpec` |

Runs that find the code and a document of the repository apart:

| Run | Document | What TLC shows |
|---|---|---|
| `kill` | system-design.md:43 "Unacked messages redeliver; dedupe prevents double-count" | the marker precedes the handler: the redelivered copy of an event whose process died in between is acked as a duplicate, and the event is lost |
| `mongo_down` | system-design.md:37 "events nack→requeue" | every handler error is nacked without requeue; the copy goes to the dead-letter queue |
| `platform` | implementation-plan.md:77 "Query returns sum across all restaurants" | a payment whose restaurant has no row is dropped there and added to some platform row of the day |
| `order` | system-design.md:74 "per-day rows merge correctly even if events replay out of order" | a payment handled before its order is dropped |
| `immediate` | implementation-plan.md:88 "Change permission in core, verify analytics serves/denies immediately" | a lookup answered before a change may be stored after the invalidation, and stays for TTL |

Two neighbours of these were seen in the same models and have no run of their
own: a graceful stop dead-letters the event being handled (its context is
cancelled, the next update fails, the loop nacks), and a lost connection ends
consumption until the process is restarted (`amqp.go:74-77`).

**Bounds.** Two instances are what it takes to handle two copies of an event at
once; a third adds no new pair. Three copies are two of one event and one of
another, or three of one: duplicate, redelivery and a bystander. One fault of
each kind can be combined with the others; `FailureKeepsCopy`, which allows any
number of MongoDB failures, is checked with one. `Horizon` bounds the clock:
twice the marker's life in `retention`, so that a marker expires and its
successor is still due; two in `quiet`, where an event without a date counts on
the day it is handled; zero where no property looks at time. `Prefetch` is 1
except in `settle`, where a copy waits in the buffer behind the one that is
handled. Three copies of five messages in `reads` are any three of them: every
two-event order matters to one query or the difference of two, and the third is
the duplicate or the bystander. In `decisions` the clock goes
one tick past TTL, so an entry expires within the run. Each theorem of section 5
removes all of these bounds for its property.

Symmetry over copies and instances (clients and events) is used in safety runs
only. `CHECK_DEADLOCK FALSE` in the runs of the pipeline and of the cache alone:
their workload is finite, and a service that has handled it idles. In `reads` a
client can always ask and in `lifecycle` a process can always be started or
killed, so deadlock is checked there.

`reads` has one instance: with two, a payment may reach the branch before
another instance's order has made its restaurant's row, and both
`BranchesWithinRestaurant` and `ReadAgainstTheFlow` fail. `lifecycle` needs one:
processes meet only in the core-events queue, which is the business of
`decisions`, and in `built`, which only grows. Its clock stands still, because
a drain is bounded by a step and not by a time.

## 4. Fairness

`EventPipeline!FairSpec`: weak fairness of the loop of each instance, of
delivery to it, of `CloseBroker` and `Exit` (both follow SIGTERM without waiting
for anything but the HTTP drain of ten seconds), and of `Start`, which
`restart: unless-stopped` (`docker-compose.yml:30`) provides. `Return` is part
of the loop: a cancelled context is noticed in the end. `Settled` is checked
without lost connections, because with one it is false; see section 3.

`PermissionCache!FairSpec`: weak fairness of the goroutine of each request. A
call ends in an answer, an error or a timeout, and the model lets it fail each
time. No fairness is assumed of clients, core, the brokers' faults or the clock.

`ServiceLifecycle!ServiceSpec`: weak fairness of the goroutine of `Run` (each of
its calls succeeds or fails in the end, and the context of the drain expires)
and of each request up to the controller, as above. None is assumed of `Query`,
which has no deadline: `Stops` holds all the same, because the drain has one. No
fairness of signals, of `Launch` or of the goroutine of `ListenAndServe`.

## 5. Proofs

All are checked by tlapm, for every value of the constants that satisfies the
named assumptions (`CurrencyAssumption`, `ProductAssumption` and the assumptions
in `EventPipeline` and `PermissionCache`).

- `TypeCorrect` (`Spec => []TypeOK`). `TypeOK` is not inductive: that a handler
  acts on a message at all depends on where its copy is. `PipelineInv` adds
  `BodyInv` (a published copy has a message) and `LoopInv` (a loop at work holds
  a published copy, one past the early acks holds an event id, and a handler at
  work has updates left).
- `DedupWindowHolds`. `WindowInv` adds that each firstTime answer either lies
  no later than a marker that is still there, or is `DedupTTL` old. The next
  claim needs the marker gone, hence the window.
- `RequeuedOnDisconnectOnlyHolds`. From `TypeOK`, action by action.
- `AtMostOnceHolds`: `DedupTTL > Horizon` (no marker expires) implies
  `Spec => AtMostOnce`, the refinement of `AtMostOnceLedger`. The mapping takes
  the marker and the handler at work for the status of an event, and `effects`
  for the updates applied. `LedgerInv` needs: an unmarked event has added
  nothing; a handled one is marked; updates made plus updates planned are what
  the event stands for; no two instances handle the same event. Initial states
  map to initial states; each action of a loop is a `Claim`, `Apply`, `Abandon`
  or a stutter.
- `FailureKeepsCopyHolds`: for any number of MongoDB failures, where the run has
  one. `KeepInv` is: faults are not given back (`QuotaInv`), and as long as no
  process has stopped and no connection is lost, `Held` (what a loop holds is
  unacked on the connection it still has, so that a nack reaches the broker),
  `PlanInv` (updates made and updates planned are no fewer than the event stands
  for) and `SavedInv` (an event with a marker, an acked copy or a loop about to
  ack is counted in full, has a dead copy, or is held by a loop in its handler
  or about to nack). Without `Held` a nack could be lost, without `PlanInv` an
  ack could come too early.
- The totals add up rows by `SumFunctionOnSet`, a fold. `SumTheorems` has its
  laws: that of a set with one element more (`SumAdd`), a changed term
  (`SumExcept`), monotony, renaming. They need an induction over finite sets,
  which is put in first-order form: of the sets for which the fact fails there
  would be a smallest one. `UpdateTotal` says what an `UpdateOne` does to a sum:
  one document changes, every sum over a set with it grows by the `$inc`, every
  other stays, and if no document matched nothing is written without an upsert.
- `NeverOvercountsHolds`, `ExactWhenQuietHolds`: for placed orders (with amounts
  that are not negative, for the first) and `DedupTTL > Horizon`. `RowLedger` is
  an equation: the sum of a field over any set of documents is what the updates
  made of each event are worth to it. `LedgerInv` of `AtMostOnceProofs` bounds
  the updates made of an event by those it stands for, hence no overcount. For
  equality when nothing has failed, `MarkedInv`, `RestInv` and `DeadInv` say that
  an event whose copies are all settled has made every one of its updates, unless
  it was one that no handler can count. The ledger of a single document then is
  what the orders naming it bring (`RowOfOrders`, and item by item `SaleWorth` and
  `RowOfSales`), so each row is `Expected`; `BegunInv`, that a row exists only
  with an order in it, makes the rows exactly those that are named.
- `CascadeHolds`: for placed orders with amounts that are not negative; markers
  may expire. `WorkInv` says that a handler's plan is a tail of its event's
  updates, in order; `CascadeInv` that what the handlers at work still owe the
  later collections is in the earlier ones: restaurant >= branch + owed, branch
  >= platform + owed. That is inductive where `Cascade` is not, because an update
  of the platform is allowed only by one of the branch made before.
- `CancelledOnceHolds`: `DedupTTL > Horizon`. `CancelInv`: orders of a collection
  plus the cancellations that made their update there are at least its rows.
- Amounts only add up: for amounts that are not negative, and any number of
  instances, `RisingInv` says that no update still to be made lowers a sum and no
  row holds a negative one, so that no step lowers a revenue (`RevenueStays`,
  `RowsGrow`). `RowFloor` is `RowLedger` as an inequality, for workloads with
  payments, deliveries and cancellations too: the revenue of any set of documents
  is at least what the placed orders have added to it. `WorthsStep` serves both.
- `BranchesWithinRestaurantHolds`: one instance, amounts that are not negative, a
  branch of one restaurant each. The invariant is about pairs of documents of a
  day (`Pairs`): a restaurant and its branches and, where there is one branch, the
  branch and the platform. `LedInv`: an update of the second still to be made
  comes next after the like one of the first or is preceded by it in the plan;
  `WithinInv`: the second's total plus what is owed is within the first's, and
  where the first has no row the second has none. With two instances the last
  part fails, and so does the property (section 3).
- The runs `faults`, `quiet` and `reads` satisfy these hypotheses; `reads` extends
  the pipeline by `QueryIsPipeline`.
- `QueryTypes`, with `QueryIsPipeline` (`QuerySpec => Spec`): what is proved of the
  pipeline holds while it is read, and an answer shows no document its query does
  not select, and none next to an error. `QueryInv` adds that what a cursor has
  read still exists, which rests on `DocsStay`: no update removes a document.
- What a cursor reads changes while it reads. `ReadInv` (`FoundInv`) says that
  what it has read of a row is there, or more. A `Floor` is a number for each
  document that was there when the query was asked, below the row until it is read
  and below what was read after: the rows at `Ask` are one (`FloorAtAsk`), every
  step keeps it (`FloorStays`), and the answer contains its sum (`FloorIsRead`).
  The two properties below say what the floor was enough for.
- `ReadAgainstTheFlowHolds`: one instance, one restaurant with one branch, amounts
  that are not negative, and queries that name that restaurant and branch.
  `AnswerInv`: an answer's revenue of a day is within the rows of its route.
  `CursorInv`: so, when the next query is asked, is it within the rows of a route
  updated before (`RowsFlow`, from `WithinInv`), hence below the floor.
- `AckedIsVisibleHolds`: `DedupTTL > Horizon` and amounts that are not negative; any
  number of instances, restaurants and queries. `AckedInv`: the orders that
  concern the query and were acked when it was asked sum to no more than the
  floor. For when it is asked, `AckedIsCounted` (from `KeepInv`, as in
  `FailureKeepsCopyHolds`): as long as nothing has failed, an order whose copies
  are all acked has made all its updates; `CountedWorth` and
  `ConcernedIsSelected`: one of these is to a row the query selects; `RowFloor`:
  so its amount is there, whatever other events did to that row. What fails after
  `Ask` makes no difference.
- `PermissionTypes`: in particular the attempt counter stays below three.
- `BoundedStalenessHolds`: `TTL > 0` implies `Spec => BoundedStaleness`. The
  invariant follows an answer: `CallInv` (it was true no earlier than its call
  was sent, and the call is at most `Timeout` old), `EntryInv` (hence true at
  most `Timeout` before the entry's `cachedAt`), `DecideInv` (hence younger than
  `TTL + Timeout` when it decides). `ClockInv` ties `last` to the clock, and
  `RoleInv` says that whoever is looked up has a role.
  The assumption is needed: with TTL zero a decision follows its call directly,
  and a call that lasted the whole timeout gives an answer as old as the bound.
- `OnlyCrossedStaleHolds`: with one instance. `StaleInv` says that an answer or
  entry that is out of date is crossed, or an event of its role still has to be
  handled; `EventInv` that none counts as handled before an instance has it.
- `ServiceIsCache`: `ServiceSpec => Spec`, action by action: a process that
  ends is `ProcessGone`, a deferred close `DropConnection` or a stutter, an
  admitted request `Arrive`. With it `ServiceBoundedStaleness` and whatever else
  is proved of the cache hold of the service.
- `ReadyToConsumeHolds`, `DrainAnswersHolds`. `ProcessInv` is their common
  invariant: `RunInv` ties `calls` and `defers` to the phase,
  `ConsumerInv` says that whoever is attached has made the calls of `Boot` before
  "consume", so that what they declare exists, and has not closed its broker (which
  is closed before MongoDB);
  `FlightInv` that a request in flight belongs to a process that is up, and after
  a drain is in `cut`.
- `ServiceTypes`: the deferred closes are a suffix of `Made[calls[i]]`, what the
  calls so far have connected. `MadeIsStack` computes `Made`, a recursive
  function, for the fifteen positions of `Boot`; `LeftInv` says that a close
  shortens what is left.

Model-checked only: the liveness properties `Settled`, `Answered` and `Stops`
(TLAPS does not prove liveness under fairness). Every invariant and every other
action property that a run checks is proved.

## 6. Not modelled

- Logging and correlation ids: no state and no effect on an answer.
- The values of the configuration: they are constants of the models. That
  loading them fails is a call of `Boot`.
- `/health`: it always answers 200, whatever the state of the connections.
- Messages and headers of responses; the models keep the code.
- The composition of event side and request side, see section 2.
- Token parsing beyond "absent, incomplete, valid", JSON beyond "decodes or not".
- `updated_at`: written, never read.
- int64: amounts are unbounded integers. Sums would need 2^63 minor units.

## 7. Plan

Done, in this order: `DayAggregates`, `EventPipeline`, `AtMostOnceLedger`,
`PipelineTotals`, `PermissionCache`, because losing and double-counting events
is what the service must not do; then `ServiceLifecycle` and `DaysQuery`; and
the proofs of section 5.

Next: an upper bound on an answer (no query shows more revenue than was published
for what it selects), which needs a ledger for payments, whose update may go to
either of several platform rows; and the hazards of `PROJECT.json` that no
property covers yet.
