------------------------------ MODULE Delivery ------------------------------
(***************************************************************************)
(* The delivery of one topic's notifications: the BullMQ worker            *)
(* (queue/worker.js), the fan-out (delivery/fan_out.js) and the shared     *)
(* circuit breaker (delivery/circuit.js), with the failed-job operations   *)
(* (queue/failed.js).  A step is what JavaScript runs between two awaits   *)
(* that matter; everything else interleaves.  The per-callback limiter is  *)
(* taken at the gate it implements (Limiter refines CallbackGate).         *)
(***************************************************************************)
EXTENDS Integers, FiniteSets, Functions

CONSTANTS Jobs,                   \* notifications of the topic
          Subscriptions,          \* its rows in the subscriptions table
          Callbacks,              \* the subscribers' callback URLs
          CallbackOf,             \* the callback of a row, not always unique
          maxAttempts,            \* config.delivery.maxAttempts
          jobMaxAttempts,         \* config.delivery.jobMaxAttempts
          workerConcurrency,      \* config.delivery.workerConcurrency
          perCallbackConcurrency, \* config.delivery.perCallbackConcurrency
          failureThreshold,       \* config.circuit.failureThreshold
          maxStalledCount,        \* BullMQ: times a job may be reclaimed
          MaxOpsRetries,          \* bound on the operator's retries of a job
          RedisMayFail            \* a circuit breaker command may be rejected

ASSUME LimitsAssumption ==
    /\ maxAttempts \in Nat \ {0}
    /\ jobMaxAttempts \in Nat \ {0}
    /\ workerConcurrency \in Nat \ {0}
    /\ perCallbackConcurrency \in Nat \ {0}
    /\ failureThreshold \in Nat \ {0}
    /\ maxStalledCount \in Nat
    /\ MaxOpsRetries \in Nat
    /\ RedisMayFail \in BOOLEAN

\* BullMQ holds finitely many jobs of a topic, PostgreSQL finitely many rows.
\* No constraint keeps two rows of a topic from having one callback.
ASSUME JobsAssumption == IsFiniteSet(Jobs) /\ IsFiniteSet(Subscriptions)
ASSUME RowsAssumption == CallbackOf \in [Subscriptions -> Callbacks]

VARIABLES
    jobState,     \* BullMQ: where each job is
    attemptsMade, \* BullMQ: finished runs of the job
    stalled,      \* BullMQ: runs lost with their worker
    opsRetries,   \* operator retries so far (counts up to MaxOpsRetries)
    stage,        \* how far processNotification is with an active job
    targets,      \* `subs' in processNotification: the rows fanned out to
    subs,         \* the active entries of the subscription cache
    pc,           \* deliverToSubscriber, per job and entry
    attempt,      \* its loop variable
    records,      \* its calls of circuit.recordFailure still to come
    open,         \* circuit:open:<callback> exists
    failures,     \* ZCARD of circuit:failures:<callback>
    owed,         \* history: rows cached ever since the job was enqueued
    acked,        \* history: rows whose callback answered 2xx for the job
    posts,        \* history: POSTs sent, per job and row
    lastAnswer    \* history: the last answer in the job's present run

queueVars   == <<jobState, attemptsMade, stalled, opsRetries>>
fanOutVars  == <<stage, targets, pc, attempt, records>>
circuitVars == <<open, failures>>
history     == <<owed, acked, posts, lastAnswer>>
vars == <<queueVars, fanOutVars, subs, circuitVars, history>>

JobStates == {"none", "waiting", "active", "completed", "failed", "purged"}
Stages    == {"off", "getActive", "empty", "fanOut"}
\* "off": no delivery.  "ok", "rejected": its promise is settled.
Steps     == {"off", "isOpen", "limiter", "post", "posted", "recordFailure",
              "trip", "backoff", "gone", "rowDeleted", "cacheRemoved",
              "recordSuccess", "ok", "rejected"}
\* The classes of answers deliverToSubscriber tells apart; 4xx other than
\* 410 and 429 (and any 1xx, 3xx) is "permanent", no answer is "network".
Answers   == {"2xx", "410", "transient", "permanent", "network"}

TypeOK == /\ jobState \in [Jobs -> JobStates]
          /\ attemptsMade \in [Jobs -> Nat]
          /\ stalled \in [Jobs -> Nat]
          /\ opsRetries \in [Jobs -> 0..MaxOpsRetries]
          /\ stage \in [Jobs -> Stages]
          /\ targets \in [Jobs -> SUBSET Subscriptions]
          /\ subs \in SUBSET Subscriptions
          /\ pc \in [Jobs -> [Subscriptions -> Steps]]
          /\ attempt \in [Jobs -> [Subscriptions -> 0..maxAttempts]]
          /\ records \in [Jobs -> [Subscriptions -> 0..2]]
          /\ open \in [Callbacks -> BOOLEAN]
          /\ failures \in [Callbacks -> Nat]
          /\ owed \in [Jobs -> SUBSET Subscriptions]
          /\ acked \in [Jobs -> SUBSET Subscriptions]
          /\ posts \in [Jobs -> [Subscriptions -> Nat]]
          /\ lastAnswer \in [Jobs -> [Subscriptions -> Answers \cup {"none"}]]

NoDelivery == [s \in Subscriptions |-> "off"]
NoAnswer   == [s \in Subscriptions |-> "none"]
Zeros      == [s \in Subscriptions |-> 0]

Init == /\ jobState = [j \in Jobs |-> "none"]
        /\ attemptsMade = [j \in Jobs |-> 0]
        /\ stalled = [j \in Jobs |-> 0]
        /\ opsRetries = [j \in Jobs |-> 0]
        /\ stage = [j \in Jobs |-> "off"]
        /\ targets = [j \in Jobs |-> {}]
        /\ subs \in SUBSET Subscriptions
        /\ pc = [j \in Jobs |-> NoDelivery]
        /\ attempt = [j \in Jobs |-> Zeros]
        /\ records = [j \in Jobs |-> Zeros]
        /\ open = [c \in Callbacks |-> FALSE]
        /\ failures = [c \in Callbacks |-> 0]
        /\ owed = [j \in Jobs |-> {}]
        /\ acked = [j \in Jobs |-> {}]
        /\ posts = [j \in Jobs |-> Zeros]
        /\ lastAnswer = [j \in Jobs |-> NoAnswer]
-----------------------------------------------------------------------------
(* The queue and the operations on it. *)

\* Ingest adds a notification; history starts owing it to the subscribers.
Enqueue(j) == /\ jobState[j] = "none"
              /\ jobState' = [jobState EXCEPT ![j] = "waiting"]
              /\ owed' = [owed EXCEPT ![j] = subs]
              /\ UNCHANGED <<attemptsMade, stalled, opsRetries, fanOutVars,
                             subs, circuitVars, acked, posts, lastAnswer>>

\* The worker takes a job; BullMQ runs workerConcurrency at a time.
StartJob(j) ==
    /\ jobState[j] = "waiting"
    /\ Cardinality({i \in Jobs : jobState[i] = "active"}) < workerConcurrency
    /\ jobState' = [jobState EXCEPT ![j] = "active"]
    /\ stage' = [stage EXCEPT ![j] = "getActive"]
    /\ UNCHANGED <<attemptsMade, stalled, opsRetries, targets, pc, attempt,
                   records, subs, circuitVars, history>>

\* The fan-out of job j is over and leaves nothing running.
ResetRun(j) == /\ stage' = [stage EXCEPT ![j] = "off"]
               /\ targets' = [targets EXCEPT ![j] = {}]
               /\ pc' = [pc EXCEPT ![j] = NoDelivery]
               /\ attempt' = [attempt EXCEPT ![j] = Zeros]
               /\ records' = [records EXCEPT ![j] = Zeros]
               /\ lastAnswer' = [lastAnswer EXCEPT ![j] = NoAnswer]

\* The processor returned or threw.  BullMQ retries a failed job at once (no
\* backoff is configured) until `attempts' runs are used up.
FinishRun(j, success) ==
    /\ attemptsMade' = [attemptsMade EXCEPT ![j] = @ + 1]
    /\ jobState' = [jobState EXCEPT ![j] =
           IF success THEN "completed"
           ELSE IF attemptsMade[j] + 1 < jobMaxAttempts THEN "waiting"
           ELSE "failed"]
    /\ ResetRun(j)
    /\ UNCHANGED <<stalled, opsRetries, subs, circuitVars, owed, acked, posts>>

\* retryFailedJob, and each iteration of retryAllFailedJobs: attemptsMade is
\* kept, so the job gets one more run.
RetryFailed(j) == /\ jobState[j] = "failed"
                  /\ opsRetries[j] < MaxOpsRetries
                  /\ jobState' = [jobState EXCEPT ![j] = "waiting"]
                  /\ opsRetries' = [opsRetries EXCEPT ![j] = @ + 1]
                  /\ UNCHANGED <<attemptsMade, stalled, fanOutVars, subs,
                                 circuitVars, history>>

PurgeFailed(j) == /\ jobState[j] = "failed"
                  /\ jobState' = [jobState EXCEPT ![j] = "purged"]
                  /\ UNCHANGED <<attemptsMade, stalled, opsRetries, fanOutVars,
                                 subs, circuitVars, history>>

\* The delivery process dies and restarts, or is stopped with all other roles
\* in it, which does not wait for its jobs (NotificationQueue).  Redis keeps the
\* jobs and the circuits; BullMQ hands out each active job again, or fails it
\* when it has stalled too often.
Crash ==
    LET running == {j \in Jobs : jobState[j] = "active"}
        Lost(f, v) == [j \in Jobs |-> IF j \in running THEN v ELSE f[j]]
    IN /\ running # {}
       /\ jobState' = [j \in Jobs |->
              IF j \notin running THEN jobState[j]
              ELSE IF stalled[j] < maxStalledCount THEN "waiting" ELSE "failed"]
       /\ stalled' = [j \in Jobs |-> IF j \in running THEN stalled[j] + 1
                                                      ELSE stalled[j]]
       /\ stage' = Lost(stage, "off")
       /\ targets' = Lost(targets, {})
       /\ pc' = Lost(pc, NoDelivery)
       /\ attempt' = Lost(attempt, Zeros)
       /\ records' = Lost(records, Zeros)
       /\ lastAnswer' = Lost(lastAnswer, NoAnswer)
       /\ UNCHANGED <<attemptsMade, opsRetries, subs, circuitVars, owed, acked,
                      posts>>
-----------------------------------------------------------------------------
(* Faults: what a slip in the code would look like.  No action of the       *)
(* specification uses them; each breaks one of the properties below.       *)

\* processNotification without its throw: partial deliveries complete the job.
SettleIgnoresRejections(j) ==
    /\ stage[j] = "fanOut"
    /\ \A s \in targets[j] : pc[j][s] \in {"ok", "rejected"}
    /\ FinishRun(j, TRUE)

\* Promise.all for Promise.allSettled: the first rejection ends the run while
\* other deliveries go on.
SettleOnFirstRejection(j) ==
    /\ stage[j] = "fanOut"
    /\ \/ \E s \in targets[j] : pc[j][s] = "rejected"
       \/ \A s \in targets[j] : pc[j][s] = "ok"
    /\ stage' = [stage EXCEPT ![j] = "off"]
    /\ jobState' = [jobState EXCEPT ![j] =
           IF \A s \in targets[j] : pc[j][s] = "ok" THEN "completed"
           ELSE "waiting"]
    /\ UNCHANGED <<attemptsMade, stalled, opsRetries, targets, pc, attempt,
                   records, subs, circuitVars, history>>

\* A delivery to an open circuit waits for it to close, for ever perhaps.
CheckCircuitWaits(j, s) ==
    /\ pc[j][s] = "isOpen"
    /\ ~open[CallbackOf[s]]
    /\ pc' = [pc EXCEPT ![j][s] = "limiter"]
    /\ UNCHANGED <<queueVars, stage, targets, attempt, records, subs,
                   circuitVars, history>>

\* `>' for `===' in the test for the last attempt.
AfterFailureOneMore(j, s) ==
    IF attempt[j][s] > maxAttempts THEN "rejected" ELSE "backoff"

\* The catch block records every failed attempt, not only the last.
FailuresRecordedAlways(answer, last) ==
    (IF answer = "permanent" \/ (answer = "transient" /\ last) THEN 1 ELSE 0)
        + 1

\* The loop variable is not stepped.
BackoffUncounted(j, s) ==
    /\ pc[j][s] = "backoff"
    /\ pc' = [pc EXCEPT ![j][s] = "post"]
    /\ UNCHANGED <<queueVars, stage, targets, attempt, records, subs,
                   circuitVars, history>>
-----------------------------------------------------------------------------
(* processNotification. *)

\* getActive(): the cache entries are fixed here for the whole run, and each is
\* delivered to, two of one callback as well.
GetActive(j) ==
    /\ stage[j] = "getActive"
    /\ targets' = [targets EXCEPT ![j] = subs]
    /\ stage' = [stage EXCEPT ![j] = IF subs = {} THEN "empty" ELSE "fanOut"]
    /\ pc' = [pc EXCEPT ![j] =
                  [s \in Subscriptions |-> IF s \in subs THEN "isOpen" ELSE "off"]]
    /\ UNCHANGED <<queueVars, attempt, records, subs, circuitVars, history>>

\* No subscriber is cached: maybeUnsubscribeTopic, whose rejection (the
\* database is down) fails the run.
SkipEmpty(j) == /\ stage[j] = "empty"
                /\ \E success \in BOOLEAN : FinishRun(j, success)

\* Promise.allSettled: every delivery is over; one rejection fails the run.
Settle(j) ==
    /\ stage[j] = "fanOut"
    /\ \A s \in targets[j] : pc[j][s] \in {"ok", "rejected"}
    /\ FinishRun(j, \A s \in targets[j] : pc[j][s] = "ok")
-----------------------------------------------------------------------------
(* deliverToSubscriber for job j and cache entry s. *)

GoTo(j, s, step) == pc' = [pc EXCEPT ![j][s] = step]

\* What circuit.isOpen may return: a Redis error reads as closed.
IsOpen(c) == {open[c]} \cup (IF RedisMayFail THEN {FALSE} ELSE {})

\* The circuit is read once, before the call queues at the limiter.
CheckCircuit(j, s) ==
    /\ pc[j][s] = "isOpen"
    /\ \E isOpen \in IsOpen(CallbackOf[s]) :
           GoTo(j, s, IF isOpen THEN "rejected" ELSE "limiter")
    /\ UNCHANGED <<queueVars, stage, targets, attempt, records, subs,
                   circuitVars, history>>

\* The deliveries that hold a permit of callback c.
InLimiter(c) ==
    {p \in Jobs \X Subscriptions :
        /\ CallbackOf[p[2]] = c
        /\ pc[p[1]][p[2]] \notin {"off", "isOpen", "limiter", "ok", "rejected"}}

EnterLimiter(j, s) ==
    /\ pc[j][s] = "limiter"
    /\ Cardinality(InLimiter(CallbackOf[s])) < perCallbackConcurrency
    /\ GoTo(j, s, "post")
    /\ attempt' = [attempt EXCEPT ![j][s] = 1]
    /\ UNCHANGED <<queueVars, stage, targets, records, subs, circuitVars, history>>

Post(j, s) == /\ pc[j][s] = "post"
              /\ GoTo(j, s, "posted")
              /\ posts' = [posts EXCEPT ![j][s] = @ + 1]
              /\ UNCHANGED <<queueVars, stage, targets, attempt, records, subs,
                             circuitVars, owed, acked, lastAnswer>>

\* Where the loop goes once an attempt has failed and is on record.
AfterFailure(j, s) ==
    IF attempt[j][s] = maxAttempts THEN "rejected" ELSE "backoff"

\* The attempt failed; recordFailure is due n times.
Fail(j, s, n) == /\ records' = [records EXCEPT ![j][s] = n]
                 /\ GoTo(j, s, IF n > 0 THEN "recordFailure"
                               ELSE AfterFailure(j, s))

\* How often one failed attempt calls recordFailure.  The throw of lines 56
\* and 62 is inside the try, so the catch block records the last attempt's
\* failure again, and swallows a permanent error of an earlier attempt.
FailuresRecorded(answer, last) ==
    (IF answer = "permanent" \/ (answer = "transient" /\ last) THEN 1 ELSE 0)
        + (IF last THEN 1 ELSE 0)

Answer(j, s, answer) ==
    /\ pc[j][s] = "posted"
    /\ lastAnswer' = [lastAnswer EXCEPT ![j][s] = answer]
    /\ CASE answer = "2xx" ->
              /\ GoTo(j, s, "recordSuccess")
              /\ acked' = [acked EXCEPT ![j] = @ \cup {s}]
              /\ UNCHANGED records
         [] answer = "410" -> GoTo(j, s, "gone") /\ UNCHANGED <<records, acked>>
         [] OTHER -> /\ Fail(j, s, FailuresRecorded(answer,
                                                    attempt[j][s] = maxAttempts))
                     /\ UNCHANGED acked
    /\ UNCHANGED <<queueVars, stage, targets, attempt, subs, circuitVars, owed,
                   posts>>

\* 410: delete the row, then the cache entry, then maybeUnsubscribeTopic.  A
\* rejection of one of the two database calls is caught like a network error.
DatabaseFails(j, s) ==
    /\ pc[j][s] \in {"gone", "cacheRemoved"}
    /\ Fail(j, s, IF attempt[j][s] = maxAttempts THEN 1 ELSE 0)
    /\ UNCHANGED <<queueVars, stage, targets, attempt, subs, circuitVars, history>>

DeleteSubscription(j, s) ==
    /\ pc[j][s] = "gone"
    /\ GoTo(j, s, "rowDeleted")
    /\ UNCHANGED <<queueVars, stage, targets, attempt, records, subs,
                   circuitVars, history>>

SameCallback(s) == {r \in Subscriptions : CallbackOf[r] = CallbackOf[s]}

\* The cache is filtered by callback: every entry of it goes.
RemoveCached(j, s) ==
    /\ pc[j][s] = "rowDeleted"
    /\ GoTo(j, s, "cacheRemoved")
    /\ subs' = subs \ SameCallback(s)
    /\ owed' = [i \in Jobs |-> owed[i] \ SameCallback(s)]
    /\ UNCHANGED <<queueVars, stage, targets, attempt, records, circuitVars,
                   acked, posts, lastAnswer>>

MaybeUnsubscribe(j, s) ==
    /\ pc[j][s] = "cacheRemoved"
    /\ GoTo(j, s, "recordSuccess")
    /\ UNCHANGED <<queueVars, stage, targets, attempt, records, subs,
                   circuitVars, history>>

RecordSuccess(j, s) ==
    /\ pc[j][s] = "recordSuccess"
    /\ GoTo(j, s, "ok")
    /\ \/ /\ open' = [open EXCEPT ![CallbackOf[s]] = FALSE]
          /\ failures' = [failures EXCEPT ![CallbackOf[s]] = 0]
       \/ RedisMayFail /\ UNCHANGED circuitVars
    /\ UNCHANGED <<queueVars, stage, targets, attempt, records, subs, history>>

AfterRecord(j, s, left) == IF left > 0 THEN "recordFailure" ELSE AfterFailure(j, s)

\* recordFailure, first pipeline: add this failure and count the window.
RecordFailure(j, s) ==
    /\ pc[j][s] = "recordFailure"
    /\ LET left == records[j][s] - 1 IN
       /\ records' = [records EXCEPT ![j][s] = left]
       /\ \/ /\ failures' = [failures EXCEPT ![CallbackOf[s]] = @ + 1]
             /\ GoTo(j, s, IF failures[CallbackOf[s]] + 1 >= failureThreshold
                           THEN "trip" ELSE AfterRecord(j, s, left))
          \/ /\ RedisMayFail
             /\ GoTo(j, s, AfterRecord(j, s, left))
             /\ UNCHANGED failures
    /\ UNCHANGED <<queueVars, stage, targets, attempt, subs, open, history>>

\* recordFailure, second pipeline: open the circuit and forget the failures.
Trip(j, s) ==
    /\ pc[j][s] = "trip"
    /\ GoTo(j, s, AfterRecord(j, s, records[j][s]))
    /\ \/ /\ open' = [open EXCEPT ![CallbackOf[s]] = TRUE]
          /\ failures' = [failures EXCEPT ![CallbackOf[s]] = 0]
       \/ RedisMayFail /\ UNCHANGED circuitVars
    /\ UNCHANGED <<queueVars, stage, targets, attempt, records, subs, history>>

\* The backoff timer fires; the call has kept its limiter permit.
Backoff(j, s) ==
    /\ pc[j][s] = "backoff"
    /\ GoTo(j, s, "post")
    /\ attempt' = [attempt EXCEPT ![j][s] = @ + 1]
    /\ UNCHANGED <<queueVars, stage, targets, records, subs, circuitVars, history>>
-----------------------------------------------------------------------------
(* The surroundings: Redis key expiry and changes of the cache. *)

CircuitCools(c) == /\ open[c]
                   /\ open' = [open EXCEPT ![c] = FALSE]
                   /\ UNCHANGED <<queueVars, fanOutVars, subs, failures, history>>

\* The oldest failure leaves the sliding window.
WindowSlides(c) == /\ failures[c] > 0
                   /\ failures' = [failures EXCEPT ![c] = @ - 1]
                   /\ UNCHANGED <<queueVars, fanOutVars, subs, open, history>>

\* refreshTopic after a subscribe brings a row in, a second one of its callback
\* included; after an unsubscribe, or once its lease is over, it is gone.  (load
\* keeps one entry per callback: the others leave.)
CacheGains(s) == /\ s \notin subs
                 /\ subs' = subs \cup {s}
                 /\ UNCHANGED <<queueVars, fanOutVars, circuitVars, history>>

CacheLoses(s) == /\ s \in subs
                 /\ subs' = subs \ {s}
                 /\ owed' = [j \in Jobs |-> owed[j] \ {s}]
                 /\ UNCHANGED <<queueVars, fanOutVars, circuitVars, acked, posts,
                                lastAnswer>>
-----------------------------------------------------------------------------
DeliveryStep(j, s) ==
    \/ CheckCircuit(j, s)
    \/ Post(j, s)
    \/ \E answer \in Answers : Answer(j, s, answer)
    \/ DatabaseFails(j, s)
    \/ DeleteSubscription(j, s)
    \/ RemoveCached(j, s)
    \/ MaybeUnsubscribe(j, s)
    \/ RecordSuccess(j, s)
    \/ RecordFailure(j, s)
    \/ Trip(j, s)
    \/ Backoff(j, s)

JobStep(j) == GetActive(j) \/ SkipEmpty(j) \/ Settle(j)

QueueStep(j) == Enqueue(j) \/ StartJob(j) \/ RetryFailed(j) \/ PurgeFailed(j)

Surroundings == \/ \E c \in Callbacks : CircuitCools(c) \/ WindowSlides(c)
                \/ \E s \in Subscriptions : CacheGains(s) \/ CacheLoses(s)

Next == \/ \E j \in Jobs : QueueStep(j) \/ JobStep(j)
        \/ \E j \in Jobs, s \in Subscriptions : DeliveryStep(j, s) \/ EnterLimiter(j, s)
        \/ Surroundings
        \/ Crash

Spec == Init /\ [][Next]_vars

\* What the worker does for a job once it runs it.
RunStep(j) ==
    \/ JobStep(j)
    \/ \E s \in Subscriptions : DeliveryStep(j, s) \/ EnterLimiter(j, s)

\* Every await ends: HTTP calls by their timeout, Redis and PostgreSQL calls by
\* an answer or an error, the backoff by its timer; so a run goes on while there
\* is a step of it to take, which is less than that each of its deliveries does.
\* BullMQ serves its waiting list in order, hence strong fairness.  Nothing is
\* assumed of operators, crashes or expiries.
Fairness == \A j \in Jobs : SF_vars(StartJob(j)) /\ WF_vars(RunStep(j))

FairSpec == Spec /\ Fairness
-----------------------------------------------------------------------------
\* At-least-once: a completed job has a 2xx for every subscription that was in
\* the cache from the time it was enqueued until it completed, whatever
\* failed, crashed, was retried or was removed in between.
NotLost ==
    \A j \in Jobs : jobState[j] = "completed" => owed[j] \subseteq acked[j]

\* A run that is over has left no delivery behind: no POST of a job goes out
\* while BullMQ believes the job is waiting, failed or done.
SettledMeansQuiet ==
    \A j \in Jobs : stage[j] # "fanOut" => pc[j] = NoDelivery

\* Every cache entry gets at most maxAttempts POSTs per run of the job, however
\* runs are lost, stall and are retried.  A callback with two entries gets two
\* budgets: the fan-out delivers to each.
PostBudget ==
    \A j \in Jobs, s \in Subscriptions :
        posts[j][s] <= maxAttempts * (attemptsMade[j] + stalled[j])
                           + attempt[j][s]

\* What the deliveries of job j to entry s may have put into the window of its
\* callback's circuit: a failure for every POST and one more for every run, whose
\* last attempt is recorded twice, less those still to be recorded.
Margin(j, s) == posts[j][s] + attemptsMade[j] + stalled[j]
                    + (IF attempt[j][s] = maxAttempts THEN 1 ELSE 0)
                    - records[j][s]

DeliveriesTo(c) == {p \in Jobs \X Subscriptions : CallbackOf[p[2]] = c}

\* A callback's circuit is opened by answers, not by bookkeeping: the failures
\* in its window are covered by the POSTs and the runs of the deliveries to it,
\* those of all its entries together.
FailuresAreBacked ==
    \A c \in Callbacks :
        failures[c] <= SumFunction([p \in DeliveriesTo(c) |-> Margin(p[1], p[2])])

\* Every notification is disposed of: delivered, or kept as a failed job for
\* the operator.
JobsSettle == \A j \in Jobs :
    jobState[j] = "waiting" ~> jobState[j] \in {"completed", "failed", "purged"}

\* The worker implements the promise made to the publisher, to each entry of the
\* cache as a subscriber.
Phase == [j \in Jobs |-> CASE jobState[j] = "none" -> "new"
                           [] jobState[j] \in {"waiting", "active"} -> "pending"
                           [] OTHER -> jobState[j]]

Promise == INSTANCE AtLeastOnce WITH phase <- Phase, Subscribers <- Subscriptions
PromiseSpec == Promise!Spec

\* "Permanent client errors (most 4xx) fail immediately" (README): no POST
\* follows a permanent answer in the same run.
PermanentFailsImmediately ==
    [][\A j \in Jobs, s \in Subscriptions :
           posts'[j][s] > posts[j][s] => lastAnswer[j][s] # "permanent"]_vars
=============================================================================
