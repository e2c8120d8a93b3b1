-------------------------- MODULE NotificationQueue --------------------------
(***************************************************************************)
(* The queue between ingest and delivery as a whole: MQTT messages whose   *)
(* handlers in ingest overlap, the limit on waiting jobs, the worker with  *)
(* its stop and its crash, and the operators who retry and purge failed    *)
(* jobs while jobs go on failing.  Ingest counts what it enqueued          *)
(* (Throughput).  Ingest and delivery are two processes, or one.           *)
(*                                                                         *)
(* A run of a job is one step to its end, and how many more runs BullMQ    *)
(* gives a job that failed is left open: both are in Delivery.             *)
(***************************************************************************)
EXTENDS Naturals, FiniteSets, Throughput

CONSTANTS Messages,    \* MQTT messages
          Retriers,    \* calls of retryAllFailedJobs
          Purgers,     \* calls of purgeFailedJobs
          MaxWaiting,  \* config.queue.maxWaiting
          Concurrency, \* config.delivery.workerConcurrency
          Limit,       \* jobs an operator asks for at most
          BatchSize,   \* jobs an operator takes at a time
          MaxCrashes   \* bound on crashes of ingest and delivery

Operators == Retriers \cup Purgers

ASSUME QueueAssumption ==
    /\ IsFiniteSet(Messages)
    /\ Retriers \cap Purgers = {}
    /\ {MaxWaiting, Concurrency, Limit, BatchSize} \subseteq Nat \ {0}
    /\ MaxCrashes \in Nat

VARIABLES state,    \* each message, from its arrival to the end of its job
          requeued, \* waiting jobs BullMQ or an operator has put back
          peak,     \* history: most handlers ever between check and add
          uncounted, \* messages whose add is executed and not yet counted
          mode,     \* HUB_MODE: all roles in one process, or one in each
          worker,   \* the delivery process: running, closing or down
          crashes,  \* crashes so far
          step,     \* where each operator's call is: it begins with a fetch
          chosen,   \* failed jobs it has fetched and not yet retried
          handled   \* jobs it has retried or purged

queueVars    == <<state, requeued>>
ingestVars   == <<peak, uncounted>>
processVars  == <<mode, worker, crashes>>
operatorVars == <<step, chosen, handled>>
vars == <<queueVars, ingestVars, processVars, operatorVars, throughputVars>>

\* A message that never becomes a job is gone; a job that completed or was
\* purged is over.
Jobs   == {"waiting", "active", "failed", "over"}
States == {"new", "counting", "adding", "gone"} \cup Jobs

In(s) == {m \in Messages : state[m] = s}

TypeOK == /\ state \in [Messages -> States]
          /\ requeued \in SUBSET In("waiting")
          /\ peak \in Nat
          /\ uncounted \in SUBSET {m \in Messages : state[m] \in Jobs}
          /\ mode \in {"all", "split"}
          /\ worker \in {"running", "closing", "down"}
          /\ crashes \in 0..MaxCrashes
          /\ step \in [Operators -> {"fetch", "retry", "done"}]
          /\ chosen \in [Operators -> SUBSET Messages]
          /\ handled \in [Operators -> 0..Limit]
          /\ ThroughputTypeOK

Init == /\ state = [m \in Messages |-> "new"]
        /\ requeued = {} /\ peak = 0 /\ uncounted = {}
        /\ mode \in {"all", "split"}
        /\ worker = "running" /\ crashes = 0
        /\ step = [o \in Operators |-> "fetch"]
        /\ chosen = [o \in Operators |-> {}]
        /\ handled = [o \in Operators |-> 0]
        /\ ThroughputInit

Move(ms, s) == state' = [m \in Messages |-> IF m \in ms THEN s ELSE state[m]]
-----------------------------------------------------------------------------
(* helpers/queue/producer.js: enqueueNotification, one run per message. *)

\* Ingest runs by itself, or as long as the one process does.
IngestUp == mode = "split" \/ worker # "down"

\* isActive: the topic has a lease key, or the message is dropped.
CheckActive(m) ==
    /\ IngestUp
    /\ state[m] = "new"
    /\ \E s \in {"counting", "gone"} : Move({m}, s)
    /\ UNCHANGED <<requeued, ingestVars, processVars, operatorVars,
                   throughputVars>>

\* A fault: the limit itself is let through.
CountWaitingOneMore(m) ==
    /\ state[m] = "counting"
    /\ Move({m}, IF Cardinality(In("waiting")) > MaxWaiting THEN "gone"
                                                            ELSE "adding")
    /\ peak' = IF Cardinality(In("adding")') > peak
               THEN Cardinality(In("adding")') ELSE peak
    /\ UNCHANGED <<requeued, uncounted, processVars, operatorVars,
                   throughputVars>>

\* getWaitingCount, against the limit.
CountWaiting(m) ==
    /\ state[m] = "counting"
    /\ Move({m}, IF Cardinality(In("waiting")) >= MaxWaiting THEN "gone"
                                                             ELSE "adding")
    /\ peak' = IF Cardinality(In("adding")') > peak
               THEN Cardinality(In("adding")') ELSE peak
    /\ UNCHANGED <<requeued, uncounted, processVars, operatorVars,
                   throughputVars>>

\* add puts the job into the queue, where the worker may take it before ...
Add(m) == /\ state[m] = "adding"
          /\ Move({m}, "waiting")
          /\ uncounted' = uncounted \cup {m}
          /\ UNCHANGED <<requeued, peak, processVars, operatorVars,
                         throughputVars>>

\* ... its answer lets the handler count it: recordEnqueued.
CountEnqueued(m) == /\ m \in uncounted
                    /\ uncounted' = uncounted \ {m}
                    /\ Record
                    /\ UNCHANGED <<queueVars, peak, processVars, operatorVars>>

\* A fault: recordEnqueued in a finally block counts rejected additions.
AddFailsCounted(m) == /\ state[m] = "adding"
                      /\ \E s \in {"gone", "waiting"} : Move({m}, s)
                      /\ Record
                      /\ UNCHANGED <<requeued, ingestVars, processVars,
                                     operatorVars>>

\* add is rejected, though Redis may have executed it; nothing is counted.
AddFails(m) == /\ state[m] = "adding"
               /\ \E s \in {"gone", "waiting"} : Move({m}, s)
               /\ UNCHANGED <<requeued, ingestVars, processVars, operatorVars,
                              throughputVars>>

\* The handlers and the counts end with their process; messages come at QoS 0.
CutIngest == /\ Move(In("counting") \cup In("adding"), "gone")
             /\ uncounted' = {}
             /\ LoseCounts

\* Ingest dies; an orderly stop of it loses the same.
IngestCrash == /\ mode = "split"
               /\ crashes < MaxCrashes
               /\ crashes' = crashes + 1
               /\ CutIngest
               /\ UNCHANGED <<requeued, peak, mode, worker, operatorVars>>
-----------------------------------------------------------------------------
(* helpers/queue/worker.js, server.js and server-delivery.js. *)

TakeJob(m) == /\ worker = "running"
              /\ state[m] = "waiting"
              /\ Cardinality(In("active")) < Concurrency
              /\ Move({m}, "active")
              /\ requeued' = requeued \ {m}
              /\ UNCHANGED <<ingestVars, processVars, operatorVars,
                             throughputVars>>

\* The run succeeds, fails for good, or fails and is tried again at once.
EndJob(m) == /\ worker # "down"
             /\ state[m] = "active"
             /\ \/ /\ \E s \in {"over", "failed"} : Move({m}, s)
                   /\ UNCHANGED requeued
                \/ /\ Move({m}, "waiting")
                   /\ requeued' = requeued \cup {m}
             /\ UNCHANGED <<ingestVars, processVars, operatorVars,
                            throughputVars>>

\* shutdown: worker.close() takes no more jobs.
Shutdown == /\ worker = "running"
            /\ worker' = "closing"
            /\ UNCHANGED <<queueVars, ingestVars, mode, crashes, operatorVars,
                           throughputVars>>

\* The worker's process is gone: with it, in one process, ingest as well.
ProcessGone ==
    /\ worker' = "down"
    /\ IF mode = "all" THEN CutIngest
       ELSE UNCHANGED <<state, uncounted, throughputVars>>
    /\ UNCHANGED <<requeued, peak, mode, operatorVars>>

\* The delivery process exits when the jobs it has are through.  In the one
\* process of all roles nobody waits for that: the first shutdown handler that
\* is done calls process.exit, most likely one of the other two.
Exit == /\ worker = "closing"
        /\ mode = "all" \/ In("active") = {}
        /\ ProcessGone
        /\ UNCHANGED crashes

DeliveryCrash == /\ crashes < MaxCrashes
                 /\ worker # "down"
                 /\ crashes' = crashes + 1
                 /\ ProcessGone

\* The next process finds the jobs of the last one stalled.  BullMQ puts them
\* back, or fails those that have stalled too often.
Start == /\ worker = "down"
         /\ worker' = "running"
         /\ \E dead \in SUBSET In("active") :
                /\ state' = [m \in Messages |->
                       IF m \in dead THEN "failed"
                       ELSE IF state[m] = "active" THEN "waiting" ELSE state[m]]
                /\ requeued' = requeued \cup (In("active") \ dead)
         /\ UNCHANGED <<ingestVars, mode, crashes, operatorVars, throughputVars>>
-----------------------------------------------------------------------------
(* helpers/queue/failed.js. *)

SetOp(o, to, jobs, n) == /\ step' = [step EXCEPT ![o] = to]
                         /\ chosen' = [chosen EXCEPT ![o] = jobs]
                         /\ handled' = [handled EXCEPT ![o] = n]

Return(o) == SetOp(o, "done", {}, 0)

Least(a, b) == IF a < b THEN a ELSE b

\* Any n of the failed jobs, or all of them if there are fewer.
SomeFailed(n) == {js \in SUBSET In("failed") :
                      Cardinality(js) = Least(n, Cardinality(In("failed")))}

\* A fault: the last batch is as large as any.
FetchWholeBatch(o) ==
    /\ step[o] = "fetch"
    /\ IF handled[o] < Limit
       THEN \E js \in SomeFailed(BatchSize) :
                IF js = {} THEN Return(o) ELSE SetOp(o, "retry", js, handled[o])
       ELSE Return(o)
    /\ UNCHANGED <<queueVars, ingestVars, processVars, throughputVars>>

\* A fault: the loop goes on until it has retried as many as it was asked.
FetchUntilLimit(o) ==
    /\ step[o] = "fetch"
    /\ IF handled[o] < Limit
       THEN \E js \in SomeFailed(Least(BatchSize, Limit - handled[o])) :
                SetOp(o, IF js = {} THEN "fetch" ELSE "retry", js, handled[o])
       ELSE Return(o)
    /\ UNCHANGED <<queueVars, ingestVars, processVars, throughputVars>>

\* retryAllFailedJobs: the next batch, until the limit or none is left.
Fetch(o) ==
    /\ step[o] = "fetch"
    /\ IF handled[o] < Limit
       THEN \E js \in SomeFailed(Least(BatchSize, Limit - handled[o])) :
                IF js = {} THEN Return(o) ELSE SetOp(o, "retry", js, handled[o])
       ELSE Return(o)
    /\ UNCHANGED <<queueVars, ingestVars, processVars, throughputVars>>

AfterRetry(left) == IF left = {} THEN "fetch" ELSE "retry"

\* job.retry() puts a failed job back; of a job that another call has put
\* back or removed since it was fetched it throws, and that ends the call.
Retry(o) ==
    /\ step[o] = "retry"
    /\ \E m \in chosen[o] :
           IF state[m] = "failed"
           THEN /\ Move({m}, "waiting")
                /\ requeued' = requeued \cup {m}
                /\ SetOp(o, AfterRetry(chosen[o] \ {m}), chosen[o] \ {m},
                         handled[o] + 1)
           ELSE /\ UNCHANGED queueVars
                /\ Return(o)
    /\ UNCHANGED <<ingestVars, processVars, throughputVars>>

\* purgeFailedJobs: chunk by chunk, until the limit or none is left.
Purge(o) ==
    /\ step[o] = "fetch"
    /\ IF handled[o] < Limit
       THEN \E js \in SomeFailed(Least(BatchSize, Limit - handled[o])) :
                /\ Move(js, "over")
                /\ IF js = {} THEN Return(o)
                   ELSE SetOp(o, "fetch", {}, handled[o] + Cardinality(js))
       ELSE Return(o) /\ UNCHANGED state
    /\ UNCHANGED <<requeued, ingestVars, processVars, throughputVars>>
-----------------------------------------------------------------------------
ThroughputStep == /\ IngestUp
                  /\ \/ TimerFires \/ FlushEnds
                     \/ AskSnapshot \/ AwaitFlush \/ ReadSnapshot
                  /\ UNCHANGED <<queueVars, ingestVars, processVars,
                                 operatorVars>>

WorkerStep == (\E m \in Messages : TakeJob(m) \/ EndJob(m)) \/ Exit \/ Start
Proceed(o) == \/ o \in Retriers /\ (Fetch(o) \/ Retry(o))
              \/ o \in Purgers /\ Purge(o)

IngestStep(m) == \/ CheckActive(m) \/ CountWaiting(m)
                 \/ Add(m) \/ AddFails(m) \/ CountEnqueued(m)

Next == \/ \E m \in Messages : IngestStep(m)
        \/ IngestCrash
        \/ WorkerStep \/ Shutdown \/ DeliveryCrash
        \/ \E o \in Operators : Proceed(o)
        \/ ThroughputStep

\* An operator's call goes on while nobody else has to.
Spec == /\ Init /\ [][Next]_vars
        /\ \A o \in Operators : WF_vars(Proceed(o))
-----------------------------------------------------------------------------
\* Back-pressure: the count is read before the job is added, so the jobs that
\* wait for their first run overshoot the limit, by no more than the handlers
\* that were ever between the two at once.  Jobs put back, by BullMQ after a
\* failed or stalled run or by an operator, are counted against the limit but
\* do not respect it: the waiting list may exceed it by all of them.
QueueBounded == Cardinality((In("waiting") \ requeued) \cup In("adding"))
                    <= MaxWaiting - 1 + (IF peak = 0 THEN 1 ELSE peak)

\* The shared counter never shows more than was enqueued.  It may show less:
\* an addition whose answer was lost, and what a failed flush or the end of the
\* process took along, are not counted.
CountedWasEnqueued ==
    redisCount <= Cardinality({m \in Messages : state[m] \in Jobs})

\* Retry-all and purge end although retried jobs fail again and jobs fail
\* meanwhile, whenever they were called.
OperatorsEnd == <>(\A o \in Operators : step[o] = "done")
=============================================================================
