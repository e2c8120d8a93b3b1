# Verification of the STA WebSub Hub

TLA+ models of the hub's concurrent core, TLC configurations that check them,
and TLAPS proofs of what matters most. Paths below are relative to the
repository (`src/` here).

## 1. Inventory

The hub is Node.js code run as up to three processes (`HUB_MODE` api, ingest,
delivery, or all in one) around PostgreSQL, Redis, BullMQ and an MQTT broker.
Within a process JavaScript interleaves only at `await`s; between processes
everything interleaves.

| Component | State it keeps | Operations | Hard behaviour |
|---|---|---|---|
| Subscribe / unsubscribe requests (`routes/`) | none of their own: one async run per request after the 202 | validate intent, persist or delete, refresh cache, invalidate, mark active, publish command | a run can stop at any await; two runs and a delivery race |
| Subscription store (`helpers/db.js`) | topics, subscriptions | lookup, insert, update, delete, delete expired | check-then-insert; rows of expired leases stay until cleaned up |
| Topic activity (`helpers/mqtt/topic_activity.js`) | Redis: lease key with TTL, set of active topics, unsubscribe claim | markActive, markInactive, tryClaimUnsubscribe, sync | several commands, no transaction |
| MQTT lifecycle, lease sweep | sweep in flight | maybeUnsubscribeTopic, handleTopicBecameInactive, sweep | reads cache, database, claims, then acts |
| MQTT commands, registry, ingest (`server-ingest.js`) | broker subscriptions | apply commands, bootstrap, enqueue messages | commands published while ingest is away are lost |
| Subscription cache (`helpers/cache/`) | per process: topic -> subscriptions | load, refresh, compact, remove, invalidation listener | database read outside the write lock; handlers not serialised |
| Queue and worker (`helpers/queue/`) | BullMQ jobs | enqueue with back-pressure, run, retry, purge | at-least-once, stalls, check-then-add |
| Fan-out (`helpers/delivery/fan_out.js`) | one run per job | POST to every cached subscriber, retry with backoff, 410 | partial success; errors thrown inside the retry loop |
| Circuit breaker (`helpers/delivery/circuit.js`) | Redis: open flag, failures in a window | isOpen, recordSuccess, recordFailure | shared by processes, two pipelines, fails open |
| Limiter (`helpers/delivery/limiter.js`) | counter and queue of waiters per callback | acquire, release | lost wake-ups, lost permits, starvation |
| Cleanup script | none | delete expired, unsubscribe, reload | a fourth process beside the others |
| Subscription events, throughput | pending map, recent list; pending counts | begin / activated / failed; record / flush | entries overwritten; flush in flight |
| Topic keys, secrets, callback policy, request validation | none | pure functions | boundary cases |

What makes each correct, in a line: the store and the caches agree in the end; a
topic is subscribed at the broker while somebody has an active subscription and
not for ever after; a completed notification reached everyone it was owed to;
every notification is disposed of; no delivery process makes more POSTs to a callback at a time
than it has permits (each process has permits of its own), and none of its deliveries waits for ever.
`PROJECT.json` lists every hazard at its line and every component with its status.

## 2. Plan

Built, in order of importance:

1. `TopicLifecycle`: one topic across requests, Redis, caches, commands, sweep.
2. `Delivery` with its abstract specification `AtLeastOnce`.
3. `Limiter` with its abstract specification `CallbackGate`.
4. `TopicLifecycleProofs`, `DeliveryProofs`, `LimiterProofs`, `NotificationQueueProofs`,
   `SubscriptionCacheProofs`, `SubscribeRequestProofs`, `IngestProofs`, and `FiniteSums` with
   the lemmas on sums over finite sets.
5. `SubscribeRequest`, which composes `SubscriptionStore` (the statements of the
   transactions, the unique index, the pool) and `SubscriptionEvents`.
6. `NotificationQueue`, which composes the queue, the worker's life and the operators'
   calls with `Throughput`.
7. `Ingest`: connect, bootstrap, reconnect, synchronisation, lost commands, failed calls.
8. `SubscriptionCache`: the caches of several delivery processes over several topics, with
   what each was told and what it was not.

To come:

9. `Circuit`: timestamps in a window, two pipelines, several processes; POSTs while open.
   How many failures a delivery records is already asked in `delivery_retries`.
10. The pure modules `TopicKey`, `SecretStorage`, `CallbackPolicy`, each against a
    reference definition.
11. Proofs of the invariants of 9.

## 3. Modules

### TopicLifecycle

One MQTT topic. A *thread* is one run of an async function of the source, and
`KindOf` says which: `subscribe` and `unsubscribe` (requests after their 202),
`sweep` (`sweepExpiredLeases`), `job` (`processNotification` finding no
subscriber), `gone` (the 410 branch), `inactive` (`handleTopicBecameInactive`),
`listener` (a handler of `cache:invalidate`), `cleanup` (the script). `ProcessOf`
places each kind in a process and so decides whose cache it uses. `pc[t]` names
the next Redis command, SQL statement or cache change; each is an action:

| Action | Source |
|---|---|
| `Lookup`, `Persist` | `subscribe`: `getSubscriptions`, insert or update |
| `RefreshRead`, `RefreshWrite` | `refreshTopic`: the read, then the write under the lock |
| `PublishInvalidation`, `ReceiveInvalidation` | `cache:invalidate` |
| `SetTtl`, `Sadd`, `DelClaim`; `DelTtl`, `Srem` | `markActive`; `markInactive` |
| `PublishSubscribe`, `PublishUnsubscribe`, `ApplyCommand` | `mqtt:commands` and ingest |
| `MaybeGetActive`, `GetSubscriptions`, `TryClaim` | `maybeUnsubscribeTopic` |
| `ValidateIntent`, `DeleteRow`, `NumSubscriptions` | `unsubscribe` |
| `RemoveCached` | the 410 branch |
| `JobGetActive`, `Compact` | `getActive` with its compaction |
| `SweepList`, `SweepIsActive` | the sweep |
| `Abort` | an await rejects or the process dies |
| `ClaimExpires`, `Tick` | Redis expiry and the clock |

The clock counts ticks of the shortest lease. A row is active through its last
tick (`duration >= now`), the Redis key dies when that tick begins. `fresh`,
`announced`, `straddled` and `intent` are history variables the code does not have.

Abstractions: a subscription is a callback and its end of lease; secrets, ids and
the status column (always ACTIVE or UPDATED, both treated alike) are left out. SQL
transactions are atomic; leases are finite, as every request's are. `load` after
`publishReload` is a refresh of the one topic. Commands and the client's packets keep
their order; what is lost while ingest is away is the subject of `Ingest`.

### Delivery, AtLeastOnce

Jobs of one topic and its subscriptions, which are rows: `CallbackOf` gives the callback of a
row, and two rows may share one (`SubscribeRequest` shows how they come about). The cache keeps an entry
for each row and the fan-out delivers to each entry, so everything about a delivery is per
entry, while circuit and limiter are per callback and `remove` filters by callback. The queue (`jobState`, `attemptsMade`, `stalled`) is external
(BullMQ), modelled from the options `enqueueNotification` passes: `attempts`, no
backoff, failed jobs kept. `stage` is where `processNotification` is, `pc[j][s]` where
`deliverToSubscriber` is for one entry. `FailuresRecorded` captures that the throw for a
permanent status, or after the last attempt, is inside the try and reaches the
catch block. Circuits are Redis state: `open` may cool at any time, and the window
may slide at any time. `RedisMayFail` lets each breaker command be rejected, as the
breaker's catch blocks expect. `Crash` kills the process; BullMQ gives a stalled job out
again `maxStalledCount` times. A stop that does not wait for the worker (`HUB_MODE=all`) is a `Crash` here. The limiter is the guard of `EnterLimiter`: the gate that
`Limiter` implements. Subscribers come and go at any time.

`AtLeastOnce` is the promise: a notification is completed only when everyone it is
still owed to acknowledged; otherwise it is pending or failed, and nothing completed or
purged is taken up again. `owed[j]` starts as the cached subscribers at the time of the
enqueueing and loses those that leave the cache. `Delivery` implements it with
`phase <- Phase`, each subscription being a subscriber of the promise.

### Limiter, CallbackGate

`withCallbackLimit`: `acquire` with and without a free permit, the continuation
after the await, and `release`, which hands a permit over or gives it back. The promise
of a granted caller is resolved before the caller runs, hence `granted` and `running`.
`CallbackGate` is the promise: at most `max` inside.

### SubscriptionStore, SubscriptionEvents, SubscribeRequest

`SubscriptionStore` has PostgreSQL at READ COMMITTED as `db.js` uses it: committed
`topics` and `rows`, one open transaction (`txn`) for each client, the pool's free
connections. `InsertTopic` waits for another transaction's insert of the same `topic_url`
and is then refused by the unique index; `WriteRows` (an UPDATE or DELETE) waits for rows
another transaction has written; `InsertRow` waits for nobody, since `subscriptions` has
no unique index. A row is named after the client that inserted it, so two rows of one
callback are two names. `LeaseEnds` hides a row from `getSubscriptions` and not from the
SELECT inside the insertion.

`SubscriptionEvents` has the pending map and the length of the list of recent events.

`SubscribeRequest` runs a request over both, one step an await:

| Action | Source |
|---|---|
| `Post` with `Checks`, `Status` | `app.js` and `routes/subscriptions.js`: the checks in their order, 202, `beginSubscribe` |
| `Ask` | callback policy, publisher's HEAD, subscriber's challenge: each may end it |
| `Lookup`, `BeginInsert`, `BeginUpdate` | insert or update |
| `SelectTopic`, `AddTopic`, `SelectRow`, `AddRow`, `UpdateRows`, `CommitIt`, `RollItBack` | the statements of `insertSubscription` and `updateSubscription` |
| `BeginDelete`, `DeleteRows` | `deleteSubscription`, for an unsubscription or a 410 |
| `Announce`, `Record`, `Fail` | cache, Redis and command in one step; the recorded outcome; an await that rejects |

`AddTopic` rolls back after a unique violation: PostgreSQL has aborted the transaction
and refuses the SELECT with which the code means to recover, so a second first subscription
to a topic fails. `overlaps`, `faulted`, `stored` and `shadowed` are history.

### Throughput, NotificationQueue

`Throughput` counts one kind of event in one process: `record` and its timer, a flush in
flight (`batch`), Redis, and a reader (`getGlobalSnapshot`). A flush that fails may have
been executed all the same; its counts are `dropped` either way, as the code gives them up.

`NotificationQueue` has each message from its arrival (`CheckActive`, `CountWaiting`,
`Add`: the three awaits of `enqueueNotification`) to the end of its job, the worker
process (`TakeJob`, `EndJob`, `Shutdown`, `Exit`, `DeliveryCrash`, `Start`) and
the operators' calls (`Fetch`, `Retry`, `Purge`; every call is at its first batch from the start, which may
come at any time). `Add` puts the job into Redis, where
the worker may take it at once; only when its answer is there `CountEnqueued` counts it, through
`Throughput!Record`. `AddFails` is a rejected addition, which Redis may have executed. `uncounted`
are the jobs in between. A run of a job is one step to its end, since `Delivery` has the inside
of it, and `EndJob` leaves open whether BullMQ runs a failed job again. `requeued` are the waiting jobs
that BullMQ (after a failed run or a stall) or an operator put back.

`mode` is the deployment. With `split`, ingest and delivery end separately (`IngestCrash`, an orderly stop of
ingest included, and `DeliveryCrash`) and `Exit` waits for the active jobs, as `server-delivery.js` awaits
`stopWorker`. With `all`, they are one process and end together (`ProcessGone`), and `Exit` waits for
nothing: every role has its own SIGTERM handler, and those of `server-api.js` and `server-ingest.js` call
`process.exit` without regard to the worker.

### Ingest

What makes ingest hold the subscriptions it should. `session`, `broker`, `wanted` and
`calls` are the MQTT client and the broker's side of its clean session (external, from the options
of `mqtt_client.js`): the client keeps calls until it is connected, repeats its
subscriptions after a reconnect and fails what was open when the session was lost.
`registry` is `registry.js`; `deaf` says that the Redis subscribers are disconnected, and a
PUBLISH then reaches nobody.

| Action | Source |
|---|---|
| `Connect`, `Listen` | the connect handler; handlers may overlap, one of each number runs |
| `Load`, `Existing`, `Del`, `Srem`, `Set`, `Sadd` | `syncActiveFromDb`, one Redis command each |
| `List`, `Exists` | `listActiveTopics` after a reconnect |
| `SubscribeAll`, `Handle` | `bootstrapMqttSubscriptions`, the command listener |
| `Callback` (`Answer` or `Refuse`), `Drop` | the client's callbacks and `registry.js`; the lost session |
| `Persist` ... `PublishSubscribe`, `Delete` ... `PublishUnsubscribe` | requests, as far as they touch what ingest reads |

`announced`, `excused`, `cutOff` and `unseen` are history. `excused` names the topics that
`EventuallyServed` does not ask for, and each way to get in is a hazard of the code which
only a new start heals: a command missed while the Redis subscriber was away, a shorter
lease over a longer one, an inactive mark or an UNSUBSCRIBE under a leased row, a
synchronisation that overwrites the key of a row it had not read, a SUBSCRIBE refused with 128.

### SubscriptionCache

The caches of the delivery processes and everything that reaches them. `row` is the store:
the end of each lease, 0 without a row. `owing` are publications that a committed request
or the cleanup script still has to make, `inbox` what is on its way to a process.
A task is one run of an async function inside a process, and several overlap.

| Action | Source |
|---|---|
| `Start`, `StartListening`, `Exit` | `main` of `server-delivery.js`, in its order; `main().catch` |
| `Receive`, `Begin` | the handler of `cache:invalidate`, which nobody awaits |
| `Read`, `ReadFails`, `Write` | `load` and `refreshTopic`: the query, then what runs under the write lock |
| `GetActive`, `Check` | `getActive` with its compaction, and `maybeUnsubscribeTopic` after it |
| `Gone`, `RemoveCached` | the 410 branch: the row, then `remove` |
| `Change`, `Cleanup`, `Publish`, `RequestDies` | requests and the script, as the caches see them |
| `Unlink`, `Relink`, `Crash` | the Redis subscriber's connection, the process |

The write lock needs no state: each function passed to it awaits nothing, so it runs in one
step, and what is ordered by the lock is only the order of those steps. `load` and
`refreshTopic` differ in their scope, the topics they read and overwrite. What happens when
the database has no rows either is the subject of `TopicLifecycle`; here `Check` ends.
`lost` and `overtaken` are history: what a process may not know of, and what an older read
has overwritten; `behind` and `outrun` of a task serve to tell.

### MC modules

Each extends its module with model values, the symmetry set where it is sound, and the
assignment of kinds, topics, callbacks and leases. No run with a liveness property uses
symmetry.

## 4. Runs

| Run | Shows | Bounds |
|---|---|---|
| `limiter` | permits balanced, at most `max`, no idle permit, FIFO, no starvation, refines the gate | five calls, two permits: three wait while permits change hands |
| `delivery` | `NotLost`, `SettledMeansQuiet`, refines `AtLeastOnce` | one job, two callbacks (the least for a partial delivery), one run, an operator's retry and a stall, so three runs in all |
| `delivery_retries` | `PostBudget`, `FailuresAreBacked`, `JobsSettle` | one job, two rows of one callback (the least duplicate), two attempts, two runs, a crash that ends the job, Redis failing, a threshold that both deliveries together pass |
| `lifecycle` | `NeverUnderSubscriber`, `AnnouncedIsSubscribed` | one callback, six threads in three processes, a lease of one tick of two |
| `lifecycle_live` | the same and `EventuallyUnsubscribed` | subscribe, unsubscribe and sweep, one abort, claims that expire |
| `subscribing` | `DuplicatesNeedRace`, `ActivatedIsStored`, `FailureNeedsRace`, `PendingTracksRequests`, `EveryRequestEnds` | three requests of two callbacks and one unsubscription on one topic: two requests share a pending entry and may both insert, the third races for the topic row only; a pool of two, so that somebody waits for a connection while two wait for each other; one failing await |
| `queue` | `QueueBounded`, `CountsConserved`, `SnapshotIsCurrent`, `CountedWasEnqueued`, `OperatorsEnd` | two messages against a limit of one: the second overshoots; a retry-all and a purge that compete for the same failed jobs, each of two, so that a job can fail, be put back and be taken again; both deployments, one crash |
| `startup` | `RegistryMissesOnlyCutOff`, `SyncCutsOnlyUnseen`, `EventuallyServed` | one topic with a subscription that starts and one that ends, three moments of leases, one fault: with it two connect handlers, which is enough for them to overlap |
| `cache` | `StaleHasCause`, `EmptyHeals` | one topic of two callbacks, one process with two tasks, leases of one tick, two requests, one fault: two reads overlap and are written in either order while another invalidation waits |

The invariants of all these runs are also proved, for every number of threads, jobs,
callbacks, requests, connections, messages, calls, topics, faults and processes, and so is the action
property `SyncCutsOnlyUnseen` of `startup` (section 6). What is left to the runs is
liveness and to exercise every step, so that no formula holds because nothing happens. In `cache` one topic makes a reload the same as a refresh; the module was also
run with two topics and with two processes, where 410 answers of one leave the other behind. The bounds of `subscribing` and `startup` are the least at which each hazard
named in `PROJECT.json` happens, and each property is violated by the mutant that is listed
for it. The runs of the lifecycle, `subscribing`,
`queue` and `startup` do not check deadlock: when all requests are done and the clock has reached
its bound, the model stops. Other bounds: `MaxAborts` (threads that die), `MaxOpsRetries` (operator retries), `MaxFaults`
(awaits that reject, or sessions and processes lost), `MaxCrashes`, `MaxNow`. None bounds
anything the code counts.

What `delivery_retries` and the runs below `lifecycle_live` say of the code that is not obvious from it:

- Two rows of one callback need two insertions open at once, and nothing but timing
  prevents them (`db.js:153`). Every notification then goes out twice to it until the process reloads: `refreshTopic` caches
  both rows, `load` one of them. Each row has a budget of POSTs of its own (`delivery_retries`).
- A first subscription fails without any fault when another one inserts the same
  topic at the same time; nothing of it is stored (`db.js:138`).
- `pendingIntentValidation` of `/ops` counts keys and not requests: with two requests of
  one callback and topic the first to end takes the entry of both (README.md:173 says it
  counts subscriptions accepted and not yet activated or failed).
- The jobs that wait for their first run overshoot `maxWaiting` by at most one less than the message handlers that were
  between count and add at once. Jobs put back come on top of that without a bound of their own: BullMQ's automatic
  retry (three runs by default), stalled jobs and the operators' retries do not look at the limit.
- The shared count of enqueued notifications never exceeds the jobs that were added, and may stay behind
  for good: a job whose process died before `recordEnqueued`, whose addition was executed and rejected, or whose
  count was in a failed flush, is not in it.
- A worker that is stopped as a process of its own (`HUB_MODE=delivery`) leaves no active job. In the default
  `HUB_MODE=all` a stop may leave any of them active, since the other roles' SIGTERM handlers
  exit first (`server-api.js:24`, `server-ingest.js:221`); after the stall timeout they run again from the start.
- The registry, and with it the sweep, can miss a topic the broker has
  after a lost session, and only such a topic.
- A cache of a delivery process can stay wrong until the topic's next change in four
  ways: two overlapping handlers write what they read in the wrong order
  (`cache/subscriptions.js:69`), the Redis subscriber reconnects and asks for nothing it
  missed (`invalidation.js:34`; the change between load and subscription, `server-delivery.js:26`,
  is of this kind), the query of a handler fails and its message is forgotten
  (`invalidation.js:50`), or another process got a 410 and removed the subscriber from its own cache
  only (`fan_out.js:44`). `StaleHasCause` says that there is no fifth, the death of
  a request before it publishes aside. docs/architecture.md:111 promises that invalidation
  makes all instances refresh the topic; a cache that lacks or still has one subscriber of several
  keeps doing so silently.
- A cache that has lost all subscribers of a topic heals with the next notification, since
  `maybeUnsubscribeTopic` looks into the database first.
- A delivery that gives up counts one failure more than it made POSTs, so a circuit opens
  earlier than `failureThreshold` says; `FailuresAreBacked` bounds it by one per run of a job and cache entry of
  the callback.

Runs that show a disagreement between the code and what is written about it, each with
a counterexample of a few steps:

| Run | The code | What is written |
|---|---|---|
| `permanent_error` | a permanent 4xx on an attempt that is not the last is swallowed by the catch and retried | README: "Permanent client errors (most 4xx) fail immediately." |
| `unsubscribe_intent` | a wrong challenge only returns from the first `then`; the next one deletes | architecture.md: "If intent validation fails, the subscription in PostgreSQL is unchanged." |
| `resubscribe` | UNSUBSCRIBE decided before the row was written, published after SUBSCRIBE | subscribe.js comment: "avoids maybeUnsubscribe undoing a re-subscribe" |

`AnnouncedIsSubscribed` is the part of `resubscribe`'s comment that does
hold: only an UNSUBSCRIBE that was decided before the row existed can undo it.

Two further observations have no run of their own. `markActive` sets the topic's key to the
lease of whoever subscribed last, so a shorter lease ends the admission of notifications
while a longer one is still running (`topic_activity.js:48`; `Ingest` has it as one of the
ways to be excused). And a claim that no `markActive` deletes, because the thread that took it lost a
race, keeps every later `maybeUnsubscribeTopic` from unsubscribing until it expires after a
day (`topic_activity.js:93`); `EventuallyUnsubscribed` is true only because `ClaimExpires` is fair.
README.md:33 calls the circuit breaker in-memory; the code keeps it in Redis.

## 5. Fairness

- `Limiter`: weak fairness of `Run` (the event loop runs resolved continuations) and of
  `Release` (a delivery ends: a bounded number of HTTP calls with timeouts).
- `Delivery`: weak fairness of what the run of a job does next, as every await ends: HTTP by its
  timeout, Redis and PostgreSQL by an answer or an error, the backoff by its timer. It is asked of
  the run and not of each delivery, which is less than the code gives and enough, since every
  delivery of a run is finite. Strong fairness of BullMQ starting a waiting job, a FIFO list. Operators,
  crashes, expiries and subscribers owe nothing. The run has a single job, so strong
  fairness is not put to use there; with several jobs on one callback the limiter's FIFO queue
  (`NoOvertaking`, `NoStarvation`) would have to be stated as well.
- `TopicLifecycle`: weak fairness of every started thread's next step, of the runs the
  hub starts itself (listener, inactive handler, sweep timer), of applying commands and
  of time. `EventuallyUnsubscribed` also needs `ClaimExpires` (section 4).
  Requests and jobs owe nothing, and an abort may always win over a step.
- `SubscribeRequest`: weak fairness of `Continue`, what a request that has been accepted
  does next: answers arrive or time out, PostgreSQL answers. Nobody has to send a request, and
  no fairness forces a fault. The requests are finite in number, so connections stop being taken
  in the end and weak fairness is enough for whoever waits for one.
- `NotificationQueue`: weak fairness of `Proceed` only, as an operator's call must end
  although nobody else has to do anything.
- `Ingest`: weak fairness of `Connect` (`reconnectPeriod`), of the reconnection of the Redis
  subscriber (ioredis retries for ever), of the broker's answers, of the handlers and
  listeners, which the event loop runs. Requests owe nothing, so what is asked is only asked
  of announced subscriptions. Time owes nothing.
- `SubscriptionCache`: weak fairness of `TaskStep`, what an async function does next:
  queries answer or fail, the lock is always given back. Strong fairness of `GetActive`:
  every topic goes on having notifications, and a slot of `Tasks` is only a bound of the model, which
  must not keep a job from running. A process that dies for ever is excused by the property itself.

## 6. Proofs

Checked by `tlapm` for all values of the constants, from the assumptions
`ThreadsAssumption` and `BoundsAssumption` of `TopicLifecycle`, `LimitsAssumption` and
`JobsAssumption` and `RowsAssumption` of `Delivery` (the limits of the settings; a topic has finitely many jobs and
subscriptions, which only the sum in `FailuresAreBacked` needs, and a subscription one callback, not
necessarily of its own), `StoreAssumption`, `EventsAssumption` and `RequestAssumption` of what
`SubscribeRequest` composes (a request has one topic, one callback and one key), `RequestsAssumption`
and `BoundsAssumption` of `Ingest` (finitely many subscriptions and requests that announce,
each with a lease), `CacheAssumption` of `SubscriptionCache`, `QueueAssumption` of `NotificationQueue` (finitely many messages, positive
limits) and `MaxAssumption` of `Limiter` (`max` positive: the code never checks the configured number, and with 0 the
first delivery would wait for ever).

- `TypeOKHolds`: `TypeOK` is not inductive alone: a thread that still has to write a lease
  must find the lease within `MaxNow`. `TypeInv` adds `LeasesFit`, which says so of every
  subscriber thread on its way to `SetTtl`.
- `NeverUnderSubscriberHolds`, `AnnouncedIsSubscribedHolds`: the inductive invariant
  `SafeInv` strengthens the two. The decisive observation is that whoever finds no active
  row owes an account of every row that appears later (`fresh`); a command in the
  channel was published by a thread whose account was checked at that moment. Each action
  has its own step; the many that touch neither rows nor commands go through one lemma.
- `DeliveryProofs!TypeOKHolds`: `TypeInv` adds to `TypeOK` that a backoff has an attempt
  left and that `recordFailure` is called only while a call is due (`StepsFit`).
- `NotLostHolds`, `SettledMeansQuietHolds`: `PromiseInv` adds that a run exists exactly
  while BullMQ has the job active, that what a job owes is among the subscribers its run
  read from the cache (a subscriber is owed only if cached without a break since ingest,
  so `getActive` finds it), and that a delivery on its way to "ok" has a 2xx or, after a
  410, owes nothing any more. `Effect` says what one step of one delivery can do to all
  this, and `RunsEndSafe` covers every way a run ends, a crash included.
- `PostBudgetHolds`: `BudgetInv` charges the POST about to be sent in advance and every
  run that is over with `maxAttempts`, whatever it sent.
- `FailuresAreBackedHolds`: the property sums over the jobs what each may have put into a
  callback's window, and is not inductive: an attempt whose answer is still to come must not have
  spent its failures already. `FailuresInv` therefore takes from each job's `Margin` a `Reserve`:
  one failure for a POST that is out, one more if it is the last of its run, which the catch
  block records twice. A step of one delivery then keeps its job's `Backing`, `RecordFailure` moves
  one unit from it to the window, and the end of a run, a crash included, adds one.
  `FiniteSums` has what is needed of the sum: it grows with its terms, and by as much as one of them.
- `ImplementsPromise`: with `Phase` for `phase`, a step is `Publish`, `Acknowledge`,
  `Complete`, `GiveUp` (after the last run, or of all jobs that stalled too often in one
  crash), `Retry`, `Purge`, `Join`, `Part` or a stutter.
- `LimiterProofs!TypeOKHolds`, `PermitsBalancedHolds`, `AtMostMaxHolds`, `NoIdlePermitHolds`,
  `NoOvertakingHolds`: from
  `LimiterInv`, which adds that the holders are a finite set and the counter is within
  `max`. One lemma per action says what it does to holders, waiters and counter.
- `LimiterImplementsGate`: with `wanting <- Waiting`, `inside <- Holders`, a step is
  `Enter`, `Ask`, a stutter, `Leave` or `HandOver`, from the same lemmas.
- `CountsConservedHolds`, `SnapshotIsCurrentHolds`: `CountsInv` adds that a snapshot which
  waits for a flush finds what Redis still lacks in that flush's batch.
- `QueueBoundedHolds`, `CountedWasEnqueuedHolds` and
  `NotificationQueueProofs!TypeOKHolds`: `QueueInv` adds `CallsOK`, a call has handled and
  chosen at most `Limit` jobs, and `CountsFit`, what was recorded and what is `uncounted` are together no more than
  the jobs ever added. With `CountsConserved` this bounds what is in Redis. Call load the waiting jobs that nobody has put back
  and the handlers about to add. Only `CountWaiting` enlarges it, after counting
  fewer than `MaxWaiting`, so what it exceeds the limit by is among the handlers between
  count and addition, which `peak` counts; every other action keeps or lowers the load, a failed run
  that is repeated because it joins those put back.
- `StaleHasCauseHolds` and `SubscriptionCacheProofs!TypeOKHolds`: `CacheInv` says of each
  subscription that the process is *told* (a publication owed or on its way), *working* (a task
  that has yet to read, or has read what the row is now) or has *lost* it. `SnapsCurrent`: a task that
  is not behind holds what the row shows. `BehindIsKnown`: what a task is behind with is known
  otherwise, unless the process has written something newer since, in which case the task's own
  write makes it `overtaken`. `LoadingAlone`: before the listener starts, the load is the only task
  and covers everything. Six lemmas carry the proof: steps that leave the caches alone, one
  task that moves on, one that writes, a row that changes, a process that ends, and a process that loads.
- `SubscribeRequestProofs`: the inductive invariant is built in parts, each shown with those
  before it. `StoreInv` (for `TypeOKHolds`): a transaction is open exactly while its client is inside
  it, the free connections are the pool less the finitely many open transactions, no row is held
  twice and what is held exists. `RaceInv` (`DuplicatesNeedRaceHolds`): inserting
  transactions that are open together are in `overlaps`, and so are a row and whoever
  is past its SELECT on that key without having seen it; at READ COMMITTED only a transaction that was open
  then can have inserted it. `StoredInv` (`ActivatedIsStoredHolds`): who found a row is going to
  write one, or a remover of its key is through. `FailureInv` (`FailureNeedsRaceHolds`): whoever is at
  the INSERT of a topic that exists by now, or rolls back without a fault, was beaten to it.
  `PendingTracksRequests` is inductive with `StoreInv`.
- `IngestProofs!TypeOKHolds` and `SyncCutsOnlyUnseenHolds`, an action property: from `SyncInv`. Times stay
  within the clock and the longest lease (`LeasesFit`). Handlers are used in their
  order and every session but the first cost a fault, so `Connect` finds one idle (`HandlersFit`). A
  handler that synchronises knows, for every topic, a lease at least as long as that of any row it
  was not too early to see (`SyncKnowsLeases`), and deletes only keys of topics it has found nothing
  for (`LoopsFit`). What `Load` writes down is a maximum over the rows; that it exists is
  `FiniteHasMax`.
- `RegistryMissesOnlyCutOffHolds`: `RegistryInv` adds that the topics the client repeats by itself
  after a reconnect (`wanted`) are in the registry, cut off or under way, and that an UNSUBSCRIBE under way
  of such a topic has a SUBSCRIBE behind it, so the callbacks leave the topic in the registry.

An induction over data is out of the prover's reach, because the theorems that state it take an
operator as a parameter. Where the proofs above need one, for the maximum and for the sum over a finite set,
they name the set of subsets that break the claim and take a minimal member of it, which exists
because inclusion is well-founded on finite sets (`FiniteHasMax`, `MinimalMember`). The modules
declare no recursive operator.

Only model-checked: liveness (`NoStarvation`, `JobsSettle`, `EventuallyUnsubscribed`,
`EveryRequestEnds`, `OperatorsEnd`, `EventuallyServed`, `EmptyHeals`), which is out of the prover's
reach. Every invariant and every action property of a passing run has its theorem. Of the limiter inside
`Delivery` the proofs use nothing: they hold for any number of permits. `PromiseInv`, `BudgetInv`, `FailuresInv`, `SyncInv`, `RegistryInv`
and the other inductive invariants were checked by TLC on the instances of section 4 before
they were proved, `FailuresInv` with two concurrent jobs as well.

## 7. Not modelled

- What the callback policy, the publisher and the subscriber answer, and why: a free choice
  of `Ask`. The DNS cache of the policy only decides which.
- The conversions of one request: clamping of leases, URL rewriting, topic keys; signatures
  and encryption. They keep no state.
- The copy of recent events in Redis; the seconds of the throughput window and the expiry
  of its keys.
- Retry-all without a limit: it ends only when the failed set is found empty, which nothing
  in the code guarantees, so no run claims it.
- The delivery process runs `syncActiveFromDb` at its start as well: the function is modelled
  in `Ingest`, a second run of it beside ingest's is not. Several `topic_url` of one topic.
- Leases without an end: no request makes one.
- `load` keeps one row of a callback and `refreshTopic` keeps all: with duplicate rows the two
  differ. `Delivery` and `SubscribeRequest` have duplicate rows, `TopicLifecycle` and `SubscriptionCache` have not.
- A worker that lives but loses its BullMQ lock on a job while it still delivers (an event loop that is blocked
  for longer than the lock lasts): the job would be run a second time beside the first, which `SettledMeansQuiet` does
  not speak of. In `Delivery` and `NotificationQueue` a job stalls only with its process.
- ioredis sending a command again that Redis had executed before the connection broke: a command is executed at most
  once, or rejected with its effect unknown where the model says so.
- Metrics, health and statistics, which only read; web pages and deployment.
- `activateSubscription`, `deactivateSubscription`, `disableSubscription` and `updateStatus`,
  which the program never calls, and the test helper `clearAll`.
