--------------------------- MODULE TopicLifecycle ---------------------------
(***************************************************************************)
(* The life of one MQTT topic across the hub's processes: subscriptions in *)
(* PostgreSQL, the lease, active set and unsubscribe claim in Redis, the   *)
(* in-memory subscription cache of each process, the cache:invalidate and  *)
(* mqtt:commands channels, and the broker subscription ingest holds.       *)
(*                                                                         *)
(* A thread is one run of an async function: a subscribe or unsubscribe    *)
(* request after its 202, the lease sweep, a delivery job that looks for   *)
(* subscribers, a 410 answer, the handler of an emptied cache entry, the   *)
(* listener of cache:invalidate, the cleanup script.  A step is one Redis  *)
(* command, one SQL statement or transaction, or one synchronous change of *)
(* a cache; everything between two awaits of different threads interleaves. *)
(***************************************************************************)
EXTENDS Integers, Sequences

CONSTANTS Callbacks, \* subscriber callbacks
          Threads,   \* runs of the async functions
          KindOf,    \* the function each thread runs
          ProcessOf, \* the process each kind of thread runs in
          Leases,    \* lease lengths, in ticks
          MaxNow,    \* bound: no lease ends later
          MaxAborts  \* bound on threads that die half-way

Kinds     == {"subscribe", "unsubscribe", "sweep", "job", "gone", "inactive",
              "listener", "cleanup"}
Processes == {"api", "ingest", "delivery", "cleanup"}

ASSUME ThreadsAssumption == /\ KindOf \in [Threads -> Kinds]
                            /\ ProcessOf \in [Kinds -> Processes]
ASSUME BoundsAssumption  == /\ MaxNow \in Nat \ {0}
                            /\ Leases \subseteq Nat \ {0}
                            /\ MaxAborts \in Nat

VARIABLES
    now,       \* the clock: one tick is the shortest lease
    row,       \* subscriptions.duration, the last tick of the lease; 0: no row
    ttl,       \* when the key hub:mqtt:lease:<topic> expires; 0: no key
    inSet,     \* the topic is in hub:mqtt:active-topics
    claim,     \* the key hub:mqtt:unsub-claim:<topic> exists
    cache,     \* byTopic.get(topic) in each process: callback -> duration
    refreshes, \* messages on cache:invalidate not yet handled
    emptied,   \* calls of onTopicBecameInactive not yet run
    cmds,      \* messages on mqtt:commands not yet applied
    broker,    \* ingest holds an MQTT subscription (and the registry says so)
    pc,        \* the next step of each thread
    who,       \* the callback the thread is about
    lease,     \* subscribe: the lease the subscriber asked for
    found,     \* subscribe: the callback had an active row
    snap,      \* the rows a refreshTopic or load has read
    aborts,    \* threads that died so far
    intent,    \* history: how the validation of an unsubscription ended
    fresh,     \* history: callbacks persisted since the thread found no row
    announced, \* history: callbacks whose SUBSCRIBE followed their row
    straddled  \* history: an UNSUBSCRIBE overtook a SUBSCRIBE it never saw

redisVars   == <<ttl, inSet, claim>>
channelVars == <<refreshes, emptied, cmds>>
requestVars == <<who, lease, found, snap>>
threadVars  == <<pc, requestVars, aborts>>
history     == <<intent, fresh, announced, straddled>>
vars == <<now, row, redisVars, cache, channelVars, broker, threadVars, history>>

\* The steps of maybeUnsubscribeTopic from the moment it saw no row, up to
\* and including its publish.
UnsubscribePath == {"tryClaim", "delTtl", "srem", "publishUnsubscribe"}
ClaimHeld       == UnsubscribePath \ {"tryClaim"}

Steps == UnsubscribePath \cup
         {"idle", "done", "lookup", "persist", "refreshRead", "refreshWrite",
          "againRead", "againWrite", "publishRefresh", "setTtl", "sadd",
          "delClaim", "publishSubscribe", "validate", "delete", "remove",
          "numSubscriptions", "getActive", "getSubscriptions", "isActive",
          "inactiveDel", "inactiveSrem", "publishReload"}

Durations == 0..MaxNow

TypeOK == /\ now \in 1..(MaxNow + 1)
          /\ row \in [Callbacks -> Durations]
          /\ ttl \in Durations
          /\ inSet \in BOOLEAN
          /\ claim \in BOOLEAN
          /\ cache \in [Processes -> [Callbacks -> Durations]]
          /\ refreshes \in Nat
          /\ emptied \in Nat
          /\ cmds \in Seq({"subscribe", "unsubscribe"})
          /\ broker \in BOOLEAN
          /\ pc \in [Threads -> Steps]
          /\ who \in [Threads -> Callbacks]
          /\ lease \in [Threads -> Leases \cup {0}]
          /\ found \in [Threads -> BOOLEAN]
          /\ snap \in [Threads -> [Callbacks -> Durations]]
          /\ aborts \in 0..MaxAborts
          /\ intent \in [Threads -> {"none", "confirmed", "mismatch"}]
          /\ fresh \in [Threads -> SUBSET Callbacks]
          /\ announced \in SUBSET Callbacks
          /\ straddled \in BOOLEAN

NoRows == [c \in Callbacks |-> 0]

Init == /\ now = 1
        /\ row = NoRows
        /\ ttl = 0 /\ inSet = FALSE /\ claim = FALSE
        /\ cache = [p \in Processes |-> NoRows]
        /\ refreshes = 0 /\ emptied = 0 /\ cmds = <<>>
        /\ broker = FALSE
        /\ pc = [t \in Threads |-> "idle"]
        /\ who \in [Threads -> Callbacks]
        /\ lease = [t \in Threads |-> 0]
        /\ found = [t \in Threads |-> FALSE]
        /\ snap = [t \in Threads |-> NoRows]
        /\ aborts = 0
        /\ intent = [t \in Threads |-> "none"]
        /\ fresh = [t \in Threads |-> {}]
        /\ announced = {}
        /\ straddled = FALSE
-----------------------------------------------------------------------------
\* A row or a cache entry is active through its last tick; the Redis key, set
\* for the length of the lease, is gone when that tick begins.
IsActive(duration) == duration # 0 /\ now <= duration
LeaseAlive  == now < ttl
ActiveRows  == {c \in Callbacks : IsActive(row[c])}
ActiveIn(p) == {c \in Callbacks : IsActive(cache[p][c])}

\* What SELECT ... WHERE duration >= now returns, as a cache entry.
RowsRead == [c \in Callbacks |-> IF IsActive(row[c]) THEN row[c] ELSE 0]

EndOfLease(t) == now + lease[t]

\* The bound MaxNow: a subscribe request starts, and the clock passes it by,
\* only while the lease it is about to set ends by then.
BeforeLease == {"lookup", "persist", "refreshRead", "refreshWrite",
                "publishRefresh", "setTtl"}
RoomForLeases == \A t \in Threads :
    (KindOf[t] = "subscribe" /\ pc[t] \in BeforeLease) => EndOfLease(t) < MaxNow

Process(t) == ProcessOf[KindOf[t]]
GoTo(t, step) == pc' = [pc EXCEPT ![t] = step]

\* Requests run once; the timer, the worker and the listeners run again.
End(t) == IF KindOf[t] \in {"subscribe", "unsubscribe", "gone", "cleanup"}
          THEN "done" ELSE "idle"
AfterMaybeUnsubscribe(t) ==
    IF KindOf[t] = "cleanup" THEN "publishReload" ELSE End(t)
-----------------------------------------------------------------------------
(* helpers/db.js, as the requests use it. *)

\* subscribe: is there an active row for this callback?
Lookup(t) ==
    /\ pc[t] = "lookup"
    /\ found' = [found EXCEPT ![t] = who[t] \in ActiveRows]
    /\ GoTo(t, "persist")
    /\ UNCHANGED <<now, row, redisVars, cache, channelVars, broker, who, lease,
                   snap, aborts, history>>

\* insertSubscription writes the row whatever is there; updateSubscription
\* changes nothing when the row has been deleted since Lookup.
Persist(t) ==
    /\ pc[t] = "persist"
    /\ IF found[t] /\ row[who[t]] = 0
       THEN UNCHANGED <<row, fresh, announced>>
       ELSE /\ row' = [row EXCEPT ![who[t]] = EndOfLease(t)]
            /\ fresh' = [u \in Threads |->
                   IF pc[u] \in UnsubscribePath THEN fresh[u] \cup {who[t]}
                                                ELSE fresh[u]]
            /\ announced' = announced \ {who[t]}
    /\ found' = [found EXCEPT ![t] = FALSE]
    /\ GoTo(t, "refreshRead")
    /\ UNCHANGED <<now, redisVars, cache, channelVars, broker, who, lease, snap,
                   aborts, intent, straddled>>

DeleteRow(t) ==
    /\ pc[t] = "delete"
    /\ row' = [row EXCEPT ![who[t]] = 0]
    /\ GoTo(t, IF KindOf[t] = "gone" THEN "remove" ELSE "refreshRead")
    /\ UNCHANGED <<now, redisVars, cache, channelVars, broker, requestVars,
                   aborts, history>>

NumSubscriptions(t) ==
    /\ pc[t] = "numSubscriptions"
    /\ GoTo(t, IF ActiveRows = {} THEN "getActive" ELSE AfterMaybeUnsubscribe(t))
    /\ UNCHANGED <<now, row, redisVars, cache, channelVars, broker, requestVars,
                   aborts, history>>
-----------------------------------------------------------------------------
(* helpers/cache: the caches and their invalidation. *)

\* refreshTopic reads the database before it takes the write lock ...
RefreshRead(t) ==
    /\ pc[t] \in {"refreshRead", "againRead"}
    /\ snap' = [snap EXCEPT ![t] = RowsRead]
    /\ GoTo(t, IF pc[t] = "refreshRead" THEN "refreshWrite" ELSE "againWrite")
    /\ UNCHANGED <<now, row, redisVars, cache, channelVars, broker, who, lease,
                   found, aborts, history>>

\* ... and writes what it read.
RefreshWrite(t) ==
    /\ pc[t] \in {"refreshWrite", "againWrite"}
    /\ cache' = [cache EXCEPT ![Process(t)] = snap[t]]
    /\ snap' = [snap EXCEPT ![t] = NoRows]
    /\ GoTo(t, IF pc[t] = "refreshWrite" THEN "publishRefresh"
               ELSE AfterMaybeUnsubscribe(t))
    /\ UNCHANGED <<now, row, redisVars, channelVars, broker, who, lease, found,
                   aborts, history>>

RemoveCached(t) ==
    /\ pc[t] = "remove"
    /\ cache' = [cache EXCEPT ![Process(t)][who[t]] = 0]
    /\ GoTo(t, "getActive")
    /\ UNCHANGED <<now, row, redisVars, channelVars, broker, requestVars,
                   aborts, history>>

\* publishRefreshTopic, or publishReload at the end of the cleanup: either
\* makes the delivery process read this topic's rows again.
PublishInvalidation(t) ==
    /\ pc[t] \in {"publishRefresh", "publishReload"}
    /\ refreshes' = refreshes + 1
    /\ GoTo(t, CASE pc[t] = "publishReload"       -> "done"
                 [] KindOf[t] = "subscribe"       -> "setTtl"
                 [] OTHER                         -> "numSubscriptions")
    /\ UNCHANGED <<now, row, redisVars, cache, emptied, cmds, broker,
                   requestVars, aborts, history>>

\* The listener's handler is not awaited: several may be between read and
\* write, one per listener thread.
ReceiveInvalidation(t) ==
    /\ KindOf[t] = "listener" /\ pc[t] = "idle"
    /\ refreshes > 0
    /\ refreshes' = refreshes - 1
    /\ snap' = [snap EXCEPT ![t] = RowsRead]
    /\ GoTo(t, "againWrite")
    /\ UNCHANGED <<now, row, redisVars, cache, emptied, cmds, broker, who, lease,
                   found, aborts, history>>

\* getActive drops expired entries.  In the process that set a handler, an
\* entry that becomes empty this way has the handler called.
Compact(p) ==
    /\ cache' = [cache EXCEPT ![p] =
                     [c \in Callbacks |-> IF c \in ActiveIn(p) THEN cache[p][c]
                                          ELSE 0]]
    /\ emptied' = IF cache[p] # NoRows /\ ActiveIn(p) = {}
                     /\ p = ProcessOf["inactive"]
                  THEN emptied + 1 ELSE emptied

\* A delivery job looks for subscribers; without any it goes to
\* maybeUnsubscribeTopic.
JobGetActive(t) ==
    /\ KindOf[t] = "job" /\ pc[t] = "idle"
    /\ Compact(Process(t))
    /\ IF ActiveIn(Process(t)) = {} THEN GoTo(t, "getActive") ELSE UNCHANGED pc
    /\ UNCHANGED <<now, row, redisVars, refreshes, cmds, broker, requestVars,
                   aborts, history>>
-----------------------------------------------------------------------------
(* helpers/mqtt/topic_activity.js: markActive. *)

SetTtl(t) == /\ pc[t] = "setTtl"
             /\ ttl' = EndOfLease(t)
             /\ GoTo(t, "sadd")
             /\ UNCHANGED <<now, row, inSet, claim, cache, channelVars, broker,
                            requestVars, aborts, history>>

Sadd(t) == /\ pc[t] = "sadd"
           /\ inSet' = TRUE
           /\ GoTo(t, "delClaim")
           /\ UNCHANGED <<now, row, ttl, claim, cache, channelVars, broker,
                          requestVars, aborts, history>>

DelClaim(t) == /\ pc[t] = "delClaim"
               /\ claim' = FALSE
               /\ GoTo(t, "publishSubscribe")
               /\ UNCHANGED <<now, row, ttl, inSet, cache, channelVars, broker,
                              requestVars, aborts, history>>

PublishSubscribe(t) ==
    /\ pc[t] = "publishSubscribe"
    /\ cmds' = Append(cmds, "subscribe")
    /\ announced' = announced \cup {who[t]}
    /\ GoTo(t, "done")
    /\ UNCHANGED <<now, row, redisVars, cache, refreshes, emptied, broker,
                   requestVars, aborts, intent, fresh, straddled>>
-----------------------------------------------------------------------------
(* Faults: what a slip in the code would look like.  No action of the       *)
(* specification uses them; each breaks one of the properties below.       *)

\* maybeUnsubscribeTopic trusts its process's cache.
MaybeGetActiveTrusted(t) ==
    /\ pc[t] = "getActive"
    /\ Compact(Process(t))
    /\ GoTo(t, IF ActiveIn(Process(t)) = {} THEN "tryClaim"
               ELSE AfterMaybeUnsubscribe(t))
    /\ UNCHANGED <<now, row, redisVars, refreshes, cmds, broker, requestVars,
                   aborts, history>>

\* It reads the database and goes on whatever it finds.
GetSubscriptionsIgnored(t) ==
    /\ pc[t] = "getSubscriptions"
    /\ GoTo(t, "tryClaim")
    /\ fresh' = [fresh EXCEPT ![t] = {}]
    /\ UNCHANGED <<now, row, redisVars, cache, channelVars, broker, requestVars,
                   aborts, intent, announced, straddled>>

\* The inactive handler runs without an entry having been emptied.
StartInactiveUnprompted(t) ==
    /\ KindOf[t] = "inactive" /\ pc[t] = "idle"
    /\ emptied' = emptied - 1
    /\ GoTo(t, "inactiveDel")
    /\ UNCHANGED <<now, row, redisVars, cache, refreshes, cmds, broker,
                   requestVars, aborts, history>>

\* The sweep looks at the active set only, not at the registry.
SweepListOfRedis(t) ==
    /\ KindOf[t] = "sweep" /\ pc[t] = "idle"
    /\ inSet /\ ~LeaseAlive
    /\ GoTo(t, "isActive")
    /\ UNCHANGED <<now, row, redisVars, cache, channelVars, broker, requestVars,
                   aborts, history>>
-----------------------------------------------------------------------------
(* helpers/mqtt/lifecycle.js: maybeUnsubscribeTopic. *)

MaybeGetActive(t) ==
    /\ pc[t] = "getActive"
    /\ Compact(Process(t))
    /\ GoTo(t, IF ActiveIn(Process(t)) = {} THEN "getSubscriptions"
               ELSE AfterMaybeUnsubscribe(t))
    /\ UNCHANGED <<now, row, redisVars, refreshes, cmds, broker, requestVars,
                   aborts, history>>

\* The cache is empty: ask the database.  If it has subscribers the cache is
\* refreshed, with a second read, and the topic is left alone.
GetSubscriptions(t) ==
    /\ pc[t] = "getSubscriptions"
    /\ GoTo(t, IF ActiveRows = {} THEN "tryClaim" ELSE "againRead")
    /\ fresh' = [fresh EXCEPT ![t] = {}]
    /\ UNCHANGED <<now, row, redisVars, cache, channelVars, broker, requestVars,
                   aborts, intent, announced, straddled>>

\* SET ... NX: whoever wins is the one to unsubscribe.
TryClaim(t) ==
    /\ pc[t] = "tryClaim"
    /\ claim' = TRUE
    /\ GoTo(t, IF claim THEN AfterMaybeUnsubscribe(t) ELSE "delTtl")
    /\ fresh' = IF claim THEN [fresh EXCEPT ![t] = {}] ELSE fresh
    /\ UNCHANGED <<now, row, ttl, inSet, cache, channelVars, broker, requestVars,
                   aborts, intent, announced, straddled>>

\* markInactive, for maybeUnsubscribeTopic and for handleTopicBecameInactive.
DelTtl(t) == /\ pc[t] \in {"delTtl", "inactiveDel"}
             /\ ttl' = 0
             /\ GoTo(t, IF pc[t] = "delTtl" THEN "srem" ELSE "inactiveSrem")
             /\ UNCHANGED <<now, row, inSet, claim, cache, channelVars, broker,
                            requestVars, aborts, history>>

Srem(t) == /\ pc[t] \in {"srem", "inactiveSrem"}
           /\ inSet' = FALSE
           /\ GoTo(t, IF pc[t] = "srem" THEN "publishUnsubscribe" ELSE "getActive")
           /\ UNCHANGED <<now, row, ttl, claim, cache, channelVars, broker,
                          requestVars, aborts, history>>

PublishUnsubscribe(t) ==
    /\ pc[t] = "publishUnsubscribe"
    /\ cmds' = Append(cmds, "unsubscribe")
    /\ straddled' = (straddled \/ fresh[t] \cap announced # {})
    /\ fresh' = [fresh EXCEPT ![t] = {}]
    /\ GoTo(t, AfterMaybeUnsubscribe(t))
    /\ UNCHANGED <<now, row, redisVars, cache, refreshes, emptied, broker,
                   requestVars, aborts, intent, announced>>
-----------------------------------------------------------------------------
(* Where threads come from. *)

\* A subscribe request whose intent was validated.
StartSubscribe(t) ==
    /\ KindOf[t] = "subscribe" /\ pc[t] = "idle"
    /\ \E c \in Callbacks, l \in Leases :
           /\ now + l <= MaxNow
           /\ who' = [who EXCEPT ![t] = c]
           /\ lease' = [lease EXCEPT ![t] = l]
    /\ GoTo(t, "lookup")
    /\ UNCHANGED <<now, row, redisVars, cache, channelVars, broker, found, snap,
                   aborts, history>>

\* An unsubscribe request asks the subscriber to confirm.
StartUnsubscribe(t) ==
    /\ KindOf[t] = "unsubscribe" /\ pc[t] = "idle"
    /\ \E c \in Callbacks : who' = [who EXCEPT ![t] = c]
    /\ GoTo(t, "validate")
    /\ UNCHANGED <<now, row, redisVars, cache, channelVars, broker, lease, found,
                   snap, aborts, history>>

\* The answer's checks only `return' from the first callback of the promise
\* chain, so a wrong answer is followed by the deletion like the right one;
\* only a request that fails altogether skips it.
ValidateIntent(t) ==
    /\ pc[t] = "validate"
    /\ \/ \E answer \in {"confirmed", "mismatch"} :
              /\ intent' = [intent EXCEPT ![t] = answer]
              /\ GoTo(t, "delete")
       \/ GoTo(t, "done") /\ UNCHANGED intent
    /\ UNCHANGED <<now, row, redisVars, cache, channelVars, broker, requestVars,
                   aborts, fresh, announced, straddled>>

\* A delivery to a cached subscriber was answered with 410.
StartGone(t) ==
    /\ KindOf[t] = "gone" /\ pc[t] = "idle"
    /\ \E c \in ActiveIn(Process(t)) : who' = [who EXCEPT ![t] = c]
    /\ GoTo(t, "delete")
    /\ UNCHANGED <<now, row, redisVars, cache, channelVars, broker, lease, found,
                   snap, aborts, history>>

StartInactive(t) ==
    /\ KindOf[t] = "inactive" /\ pc[t] = "idle"
    /\ emptied > 0
    /\ emptied' = emptied - 1
    /\ GoTo(t, "inactiveDel")
    /\ UNCHANGED <<now, row, redisVars, cache, refreshes, cmds, broker,
                   requestVars, aborts, history>>

\* The sweep: topics of the active set whose key is gone, and topics the
\* registry says are subscribed, are candidates ...
SweepList(t) ==
    /\ KindOf[t] = "sweep" /\ pc[t] = "idle"
    /\ broker \/ (inSet /\ ~LeaseAlive)
    /\ GoTo(t, "isActive")
    /\ UNCHANGED <<now, row, redisVars, cache, channelVars, broker, requestVars,
                   aborts, history>>

\* ... and those without a lease key are handed to maybeUnsubscribeTopic.
SweepIsActive(t) ==
    /\ pc[t] = "isActive"
    /\ GoTo(t, IF LeaseAlive THEN "idle" ELSE "getActive")
    /\ UNCHANGED <<now, row, redisVars, cache, channelVars, broker, requestVars,
                   aborts, history>>

\* The cleanup script's first step: DELETE ... WHERE duration < now.
StartCleanup(t) ==
    /\ KindOf[t] = "cleanup" /\ pc[t] = "idle"
    /\ \E c \in Callbacks : row[c] # 0 /\ row[c] < now
    /\ row' = RowsRead
    /\ GoTo(t, "numSubscriptions")
    /\ UNCHANGED <<now, redisVars, cache, channelVars, broker, requestVars,
                   aborts, history>>

\* An await of the thread rejects, or its process dies: what is left of the
\* thread does not happen.
Abort(t) == /\ pc[t] \notin {"idle", "done"}
            /\ aborts < MaxAborts
            /\ aborts' = aborts + 1
            /\ GoTo(t, End(t))
            /\ found' = [found EXCEPT ![t] = FALSE]
            /\ snap' = [snap EXCEPT ![t] = NoRows]
            /\ fresh' = [fresh EXCEPT ![t] = {}]
            /\ UNCHANGED <<now, row, redisVars, cache, channelVars, broker, who,
                           lease, intent, announced, straddled>>
-----------------------------------------------------------------------------
(* Ingest, Redis and the clock. *)

\* Redis delivers a channel's messages in order, and the MQTT client sends
\* its packets in order.
ApplyCommand == /\ cmds # <<>>
                /\ broker' = (Head(cmds) = "subscribe")
                /\ cmds' = Tail(cmds)
                /\ UNCHANGED <<now, row, redisVars, cache, refreshes, emptied,
                               threadVars, history>>

\* UNSUB_CLAIM_TTL_SEC is a day: no thread takes that long from its claim to
\* its publish, and no command that long to arrive.
ClaimExpires == /\ claim /\ cmds = <<>>
                /\ \A t \in Threads : pc[t] \notin ClaimHeld
                /\ claim' = FALSE
                /\ UNCHANGED <<now, row, ttl, inSet, cache, channelVars, broker,
                               threadVars, history>>

Tick == /\ now <= MaxNow
        /\ RoomForLeases
        /\ now' = now + 1
        /\ UNCHANGED <<row, redisVars, cache, channelVars, broker, threadVars,
                       history>>
-----------------------------------------------------------------------------
\* The steps that follow once a thread runs ...
Continue(t) ==
    \/ Lookup(t) \/ Persist(t) \/ DeleteRow(t) \/ NumSubscriptions(t)
    \/ RefreshRead(t) \/ RefreshWrite(t) \/ RemoveCached(t)
    \/ PublishInvalidation(t)
    \/ SetTtl(t) \/ Sadd(t) \/ DelClaim(t) \/ PublishSubscribe(t)
    \/ MaybeGetActive(t) \/ GetSubscriptions(t) \/ TryClaim(t)
    \/ DelTtl(t) \/ Srem(t) \/ PublishUnsubscribe(t)
    \/ ValidateIntent(t) \/ SweepIsActive(t)

\* ... the runs the hub starts itself, and those that come from outside.
HubStarts(t)     == ReceiveInvalidation(t) \/ StartInactive(t) \/ SweepList(t)
OutsideStarts(t) == \/ StartSubscribe(t) \/ StartUnsubscribe(t) \/ StartGone(t)
                    \/ JobGetActive(t) \/ StartCleanup(t)

Next == \/ \E t \in Threads : Continue(t) \/ HubStarts(t) \/ OutsideStarts(t)
                              \/ Abort(t)
        \/ ApplyCommand \/ ClaimExpires \/ Tick

Spec == Init /\ [][Next]_vars

\* Awaits end, messages arrive, the sweep timer fires and time passes; nobody
\* has to send requests or notifications, and nothing has to fail.
HubFairness == /\ \A t \in Threads : WF_vars(Continue(t)) /\ WF_vars(HubStarts(t))
               /\ WF_vars(ApplyCommand)
               /\ WF_vars(Tick)

\* Within the day the claim key lives, and beyond it.
FairSpecWithinADay == Spec /\ HubFairness
FairSpec           == Spec /\ HubFairness /\ WF_vars(ClaimExpires)
-----------------------------------------------------------------------------
\* maybeUnsubscribeTopic never unsubscribes from under a subscriber it could
\* have seen: while a thread is on its way to UNSUBSCRIBE, every active row
\* was written after that thread found none.
NeverUnderSubscriber ==
    \A t \in Threads : pc[t] \in UnsubscribePath => ActiveRows \subseteq fresh[t]

\* What the broker subscription is, or will be once ingest has caught up.
Heading == IF cmds = <<>> THEN broker ELSE cmds[Len(cmds)] = "subscribe"

\* An active subscription whose SUBSCRIBE was published keeps its topic
\* subscribed, in spite of every concurrent unsubscribe, expiry, 410, sweep,
\* cleanup and lost thread, except when an UNSUBSCRIBE overtook it: one
\* decided before the row was written and published after the SUBSCRIBE.
AnnouncedIsSubscribed ==
    ~straddled => (ActiveRows \cap announced # {} => Heading)

\* A topic without active subscriptions does not stay subscribed for ever.
EventuallyUnsubscribed == <>[](ActiveRows = {}) => <>[](~broker)
-----------------------------------------------------------------------------
(* What the code or its documents say and the interleavings refute. *)

\* "Persist subscription before MQTT subscribe so delivery workers see active
\* callbacks (avoids maybeUnsubscribe undoing a re-subscribe)." (subscribe.js)
ResubscribeNotUndone == ActiveRows \cap announced # {} => Heading

\* "If intent validation fails, the subscription in PostgreSQL is unchanged."
\* (docs/architecture.md)
DeleteOnlyWhenConfirmed ==
    [][\A t \in Threads :
           (KindOf[t] = "unsubscribe" /\ pc[t] = "delete" /\ row' # row)
               => intent[t] = "confirmed"]_vars
=============================================================================
