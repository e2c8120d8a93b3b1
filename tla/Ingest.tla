------------------------------- MODULE Ingest -------------------------------
(***************************************************************************)
(* How ingest comes to hold the MQTT subscriptions that the rows in        *)
(* PostgreSQL call for: the connect handler with its command listener,     *)
(* the synchronisation of Redis from the rows at start and the list of     *)
(* active topics after a reconnect, the commands of the other processes,   *)
(* the calls of the MQTT client and the registry of their answers.         *)
(* Requests change rows, keys and commands meanwhile; the session to the   *)
(* broker drops, the Redis subscriber drops, ingest dies and starts again. *)
(*                                                                         *)
(* A step is one await.  Connect handlers overlap: the client emits the    *)
(* event again while the handler of the last one awaits Redis.             *)
(***************************************************************************)
EXTENDS Naturals, SequencesExt

CONSTANTS Subs,       \* subscriptions
          TopicOf,    \* the MQTT topic of each
          Announcers, \* subscribe requests
          Leavers,    \* unsubscriptions, with maybeUnsubscribeTopic
          SubOf,      \* the subscription each of them is about
          LeaseOf,    \* the lease each subscribe request asks for
          Before,     \* when the leases of the rows there already end
          MaxNow,     \* bound of the clock
          MaxFaults   \* bound on sessions lost, Redis subscribers lost, calls
                      \* refused and crashes of ingest together

Requests == Announcers \cup Leavers
Topics   == {TopicOf[s] : s \in Subs}
Handlers == 1..(MaxFaults + 1)

ASSUME RequestsAssumption == /\ IsFiniteSet(Subs) /\ IsFiniteSet(Announcers)
                             /\ Announcers \cap Leavers = {}
                             /\ SubOf \in [Requests -> Subs]
                             /\ LeaseOf \in [Announcers -> Nat \ {0}]
                             /\ Before \in [Subs -> Nat]
ASSUME BoundsAssumption   == MaxNow \in Nat \ {0} /\ MaxFaults \in Nat

VARIABLES
    now,       \* the clock
    row,       \* when the lease of each subscription ends; 0: no row
    key,       \* when hub:mqtt:lease:<topic> expires; 0: no key
    active,    \* hub:mqtt:active-topics
    pc,        \* the next step of each request
    session,   \* the MQTT client is connected
    ready,     \* mqttSessionReady
    broker,    \* topics the broker has subscribed this session to
    wanted,    \* topics the client asks for again when it reconnects
    calls,     \* SUBSCRIBE and UNSUBSCRIBE calls whose callback has not run
    registry,  \* the topics of registry.js
    deaf,      \* the Redis subscribers are disconnected
    listening, \* handlers whose command listener runs; mqttCmdSub is null
               \* until there is one
    commands,  \* what each listener has received and not yet handled
    handler,   \* the connect handlers of this process
    faults,    \* faults so far
    announced, \* history: subscriptions whose command followed their row
    excused,   \* history: topics hit by a hazard that only a new start heals
    cutOff,    \* history: topics whose SUBSCRIBE a lost session cut off
    unseen     \* history: rows written since each handler read them

redisVars   == <<key, active>>
clientVars  == <<session, ready, broker, wanted, calls, registry, cutOff>>
commandVars == <<deaf, listening, commands>>
handlerVars == <<handler, unseen>>
requestVars == <<pc, announced>>
vars == <<now, row, redisVars, requestVars, clientVars, commandVars,
          handlerVars, faults, excused>>

Steps == {"idle", "listen", "load", "existing", "del", "srem", "set", "sadd",
          "list", "exists", "subscribe", "done"}

NoLeases == [t \in Topics |-> 0]
Idle     == [step |-> "idle", isReconnect |-> FALSE, todo |-> {}, at |-> {},
             left |-> NoLeases]

Message == [action : {"subscribe", "unsubscribe"}, topic : Topics]
Longest == Max({0} \cup {Before[s] : s \in Subs} \cup
                   {LeaseOf[r] : r \in Announcers})
Ends    == 0..(MaxNow + Longest)

TypeOK ==
    /\ now \in 1..MaxNow
    /\ row \in [Subs -> Ends] /\ key \in [Topics -> Ends]
    /\ active \subseteq Topics
    /\ pc \in [Requests -> {"idle", "set", "sadd", "decide", "del", "srem",
                            "publish", "done"}]
    /\ session \in BOOLEAN /\ ready \in BOOLEAN /\ deaf \in BOOLEAN
    /\ {broker, registry, wanted, cutOff, excused} \subseteq SUBSET Topics
    /\ calls \in Seq(Message)
    /\ listening \subseteq Handlers
    /\ commands \in [Handlers -> Seq(Message)]
    /\ handler \in [Handlers -> [step : Steps, isReconnect : BOOLEAN,
                                 todo : SUBSET Topics, at : SUBSET Topics,
                                 left : [Topics -> Ends]]]
    /\ faults \in 0..MaxFaults
    /\ announced \subseteq Subs
    /\ unseen \in [Handlers -> SUBSET Subs]

\* What earlier processes have left: rows, each announced, with keys that live
\* as long or, if Redis has been emptied, none.
Init == /\ now = 1
        /\ row = Before
        /\ \/ /\ key = [t \in Topics |->
                         Max({row[s] : s \in {x \in Subs : TopicOf[x] = t}})]
              /\ active = {t \in Topics : key[t] # 0}
           \/ key = NoLeases /\ active = {}
        /\ pc = [r \in Requests |-> "idle"]
        /\ session = FALSE /\ ready = FALSE
        /\ broker = {} /\ wanted = {} /\ calls = <<>> /\ registry = {}
        /\ deaf = FALSE /\ listening = {}
        /\ commands = [h \in Handlers |-> <<>>]
        /\ handler = [h \in Handlers |-> Idle]
        /\ faults = 0
        /\ announced = {s \in Subs : row[s] # 0}
        /\ excused = {} /\ cutOff = {}
        /\ unseen = [h \in Handlers |-> {}]

Topic(r) == TopicOf[SubOf[r]]
KeyAlive(t) == now < key[t]

\* Subscriptions of a topic whose lease has not ended.
Leased(t) == {s \in Subs : TopicOf[s] = t /\ now < row[s]}

Excuse(t) == excused' = excused \cup (IF Leased(t) = {} THEN {} ELSE {t})
-----------------------------------------------------------------------------
(* helpers/mqtt/commands.js *)

\* PUBLISH reaches the listeners that are connected, and nobody else.
Publish(action, t) ==
    commands' = [h \in Handlers |->
                     IF h \in listening /\ ~deaf
                     THEN Append(commands[h], [action |-> action, topic |-> t])
                     ELSE commands[h]]

\* Listeners that run but are disconnected miss a command.
Missed == deaf /\ listening # {}
-----------------------------------------------------------------------------
(* Requests, as far as ingest meets them; TopicLifecycle has them whole.   *)

RequestStep(r, from, to) == pc[r] = from /\ pc' = [pc EXCEPT ![r] = to]

Syncing(h) == handler[h].step \in {"existing", "del", "srem", "set", "sadd"}

\* The row of a subscribe request is committed.
Persist(r) ==
    /\ r \in Announcers /\ RequestStep(r, "idle", "set")
    /\ row' = [row EXCEPT ![SubOf[r]] = now + LeaseOf[r]]
    /\ announced' = announced \ {SubOf[r]}
    /\ unseen' = [h \in Handlers |->
                      IF Syncing(h) THEN unseen[h] \cup {SubOf[r]} ELSE {}]
    /\ UNCHANGED <<redisVars, commands, excused>>

\* markActive: SET with the lease of this request, whatever the key was ...
SetKey(r) ==
    /\ RequestStep(r, "set", "sadd")
    /\ key' = [key EXCEPT ![Topic(r)] = now + LeaseOf[r]]
    /\ excused' = excused \cup
           {t \in {Topic(r)} : \E s \in Leased(t) : row[s] > now + LeaseOf[r]}
    /\ UNCHANGED <<row, active, announced, commands, unseen>>

\* ... and SADD.
AddToSet(r) == /\ RequestStep(r, "sadd", "publish")
               /\ active' = active \cup {Topic(r)}
               /\ UNCHANGED <<row, key, announced, commands, unseen, excused>>

PublishSubscribe(r) ==
    /\ r \in Announcers /\ RequestStep(r, "publish", "done")
    /\ Publish("subscribe", Topic(r))
    /\ announced' = announced \cup {SubOf[r]}
    /\ IF Missed THEN Excuse(Topic(r)) ELSE UNCHANGED excused
    /\ UNCHANGED <<row, redisVars, unseen>>

\* An unsubscription deletes the row ...
Delete(r) == /\ r \in Leavers /\ RequestStep(r, "idle", "decide")
             /\ row' = [row EXCEPT ![SubOf[r]] = 0]
             /\ announced' = announced \ {SubOf[r]}
             /\ UNCHANGED <<redisVars, commands, unseen, excused>>

\* ... and leaves the topic alone if it has rows or the claim is taken.
Decide(r) == /\ \/ Leased(Topic(r)) = {} /\ RequestStep(r, "decide", "del")
                \/ RequestStep(r, "decide", "done")
             /\ UNCHANGED <<row, redisVars, announced, commands, unseen,
                            excused>>

\* markInactive, and the command.
DelKey(r) == /\ RequestStep(r, "del", "srem")
             /\ key' = [key EXCEPT ![Topic(r)] = 0]
             /\ Excuse(Topic(r))
             /\ UNCHANGED <<row, active, announced, commands, unseen>>

RemoveFromSet(r) ==
    /\ RequestStep(r, "srem", "publish")
    /\ active' = active \ {Topic(r)}
    /\ UNCHANGED <<row, key, announced, commands, unseen, excused>>

PublishUnsubscribe(r) ==
    /\ r \in Leavers /\ RequestStep(r, "publish", "done")
    /\ Publish("unsubscribe", Topic(r))
    /\ Excuse(Topic(r))
    /\ UNCHANGED <<row, redisVars, announced, unseen>>

RequestNext(r) ==
    /\ \/ Persist(r) \/ SetKey(r) \/ AddToSet(r) \/ PublishSubscribe(r)
       \/ Delete(r) \/ Decide(r)
       \/ DelKey(r) \/ RemoveFromSet(r) \/ PublishUnsubscribe(r)
    /\ UNCHANGED <<now, clientVars, deaf, listening, handler, faults>>
-----------------------------------------------------------------------------
(* topic_activity.js: syncActiveFromDb. *)

In(h, step)   == handler[h].step = step
GoTo(h, step) == handler' = [handler EXCEPT ![h].step = step]

Loads(h, left(_)) ==
    /\ In(h, "load")
    /\ handler' = [handler EXCEPT ![h].step = "existing",
                                  ![h].left = [t \in Topics |-> left(t)]]
    /\ unseen' = [unseen EXCEPT ![h] = {}]
    /\ UNCHANGED <<redisVars, excused>>

\* A fault: the end of a lease is taken for what is left of it.
LoadEnds(h) == LET left(t) == Max({0} \cup {row[s] : s \in Leased(t)})
               IN  Loads(h, left)

\* A fault: the shortest.
LoadShortest(h) ==
    LET left(t) == IF Leased(t) = {} THEN 0
                   ELSE Min({row[s] - now : s \in Leased(t)})
    IN  Loads(h, left)

\* The longest remaining lease of every topic.
Load(h) == LET left(t) == Max({0} \cup {row[s] - now : s \in Leased(t)})
           IN  Loads(h, left)

Found(h) == {t \in Topics : handler[h].left[t] > 0}

\* The loops: one over the topics to remove, one over those to set, and when
\* nothing is left it is time to subscribe.
Loop(h, removing, setting) ==
    handler' = [handler EXCEPT
        ![h].todo = IF removing # {} THEN removing ELSE setting,
        ![h].at = {},
        ![h].step = CASE removing # {} -> "del"
                      [] setting # {}  -> "set"
                      [] OTHER         -> "subscribe"]

Existing(h) == /\ In(h, "existing")
               /\ Loop(h, active \ Found(h), Found(h))
               /\ UNCHANGED <<redisVars, unseen, excused>>

\* One round of a loop: the key of one of the topics ...
Round(h, step, end(_)) ==
    \E t \in handler[h].todo :
        /\ handler' = [handler EXCEPT ![h].at = {t}, ![h].step = step]
        /\ key' = [key EXCEPT ![t] = end(t)]
        /\ excused' = excused \cup
               {x \in {t} : \E s \in unseen[h] \cap Leased(t) :
                                row[s] > end(t)}
        /\ UNCHANGED <<active, unseen>>

\* ... markInactive, for a topic without a row ...
Del(h) == In(h, "del") /\ LET end(t) == 0 IN Round(h, "srem", end)

Srem(h) == /\ In(h, "srem")
           /\ active' = active \ handler[h].at
           /\ Loop(h, handler[h].todo \ handler[h].at, Found(h))
           /\ UNCHANGED <<key, unseen, excused>>

\* ... SET and SADD for one with a row.
Set(h) == /\ In(h, "set")
          /\ LET end(t) == now + handler[h].left[t] IN Round(h, "sadd", end)

Sadd(h) == /\ In(h, "sadd")
           /\ active' = active \cup handler[h].at
           /\ Loop(h, {}, handler[h].todo \ handler[h].at)
           /\ UNCHANGED <<key, unseen, excused>>

Sync(h) ==
    /\ Load(h) \/ Existing(h) \/ Del(h) \/ Srem(h) \/ Set(h) \/ Sadd(h)
    /\ UNCHANGED <<now, row, requestVars, clientVars, commandVars, faults>>
-----------------------------------------------------------------------------
(* server-ingest.js: the connect handler. *)

\* bootstrapMqttSubscriptions reads the rows in a new process and the active
\* set after a reconnect.
Bootstrap(isReconnect) == IF isReconnect THEN "list" ELSE "load"

\* The client has its session back: it repeats its subscriptions and emits
\* the event.  Without a command listener the handler starts one first.
Connect ==
    /\ ~session
    /\ session' = TRUE /\ ready' = TRUE
    /\ broker' = wanted
    /\ LET h == Min({x \in Handlers : In(x, "idle")})
       IN  handler' = [handler EXCEPT ![h] =
               [Idle EXCEPT !.step = IF listening = {} THEN "listen"
                                                       ELSE Bootstrap(ready),
                            !.isReconnect = ready]]
    /\ UNCHANGED <<now, row, redisVars, requestVars, wanted, calls, registry,
                   cutOff, commandVars, unseen, faults, excused>>

\* startCommandListener.
Listen(h) == /\ In(h, "listen") /\ ~deaf
             /\ listening' = listening \cup {h}
             /\ GoTo(h, Bootstrap(handler[h].isReconnect))
             /\ UNCHANGED <<wanted, calls>>

\* listActiveTopics: the set, and topic by topic whether the key exists.
List(h) ==
    /\ In(h, "list")
    /\ handler' = [handler EXCEPT
           ![h].todo = active,
           ![h].step = IF active = {} THEN "subscribe" ELSE "exists"]
    /\ UNCHANGED <<wanted, calls, listening>>

Exists(h) ==
    /\ In(h, "exists")
    /\ \E t \in handler[h].todo :
          handler' = [handler EXCEPT
              ![h].todo = @ \ {t},
              ![h].left[t] = IF KeyAlive(t) THEN 1 ELSE 0,
              ![h].step = IF handler[h].todo = {t} THEN "subscribe" ELSE @]
    /\ UNCHANGED <<wanted, calls, listening>>

\* subscribeMqttTopic for every topic, and the handler is through.
SubscribeAll(h) ==
    /\ In(h, "subscribe")
    /\ calls' = calls \o SetToSeq([action : {"subscribe"}, topic : Found(h)])
    /\ wanted' = wanted \cup Found(h)
    /\ handler' = [handler EXCEPT ![h] = [Idle EXCEPT !.step = "done"]]
    /\ UNCHANGED listening

Handler(h) ==
    \/ Sync(h)
    \/ /\ Listen(h) \/ List(h) \/ Exists(h) \/ SubscribeAll(h)
       /\ UNCHANGED <<now, row, redisVars, requestVars, session, ready, broker,
                      registry, cutOff, deaf, commands, unseen, faults,
                      excused>>
-----------------------------------------------------------------------------
(* The calls of the MQTT client, and registry.js. *)

\* subscribeMqttTopic or unsubscribeMqttTopic.  The client keeps a call until
\* it is connected, and what to repeat after a reconnect.
PassOn(cmd) == /\ calls' = Append(calls, cmd)
               /\ wanted' = IF cmd.action = "subscribe"
                            THEN wanted \cup {cmd.topic}
                            ELSE wanted \ {cmd.topic}

Received(h) ==
    /\ commands' = [commands EXCEPT ![h] = Tail(@)]
    /\ UNCHANGED <<now, row, redisVars, requestVars, session, ready, broker,
                   registry, cutOff, deaf, listening, handlerVars, faults,
                   excused>>

\* A fault: ingest passes a command on only while it is connected.
HandleIfConnected(h) ==
    /\ commands[h] # <<>>
    /\ IF session THEN PassOn(Head(commands[h]))
                  ELSE UNCHANGED <<calls, wanted>>
    /\ Received(h)

\* The listener hands a command to the client.
Handle(h) == commands[h] # <<>> /\ PassOn(Head(commands[h])) /\ Received(h)

Fault == faults < MaxFaults /\ faults' = faults + 1

\* The broker answers a call, in order, and its callback runs:
\* recordSubscribe or recordUnsubscribe.
Answer ==
    /\ LET call == Head(calls)
       IN  IF call.action = "subscribe"
           THEN /\ broker' = broker \cup {call.topic}
                /\ registry' = registry \cup {call.topic}
           ELSE /\ broker' = broker \ {call.topic}
                /\ registry' = registry \ {call.topic}
    /\ UNCHANGED <<wanted, faults, excused>>

\* It refuses a SUBSCRIBE with 128.
Refuse ==
    /\ Fault
    /\ Head(calls).action = "subscribe"
    /\ LET t == Head(calls).topic
       IN  /\ broker' = broker \ {t} /\ registry' = registry \ {t}
           /\ wanted' = wanted \ {t} /\ excused' = excused \cup {t}

Callback == /\ session /\ calls # <<>>
            /\ Answer \/ Refuse
            /\ calls' = Tail(calls)
            /\ cutOff' = cutOff \ {Head(calls).topic}
            /\ UNCHANGED <<now, row, redisVars, requestVars, session, ready,
                           commandVars, handlerVars>>

SubscribesIn(cs) == {cs[i].topic : i \in {j \in DOMAIN cs :
                                             cs[j].action = "subscribe"}}

Disconnected ==
    /\ session /\ Fault
    /\ session' = FALSE /\ broker' = {}
    /\ calls' = <<>>
    /\ cutOff' = cutOff \cup SubscribesIn(calls)
    /\ UNCHANGED <<now, row, redisVars, requestVars, ready, wanted,
                   commandVars, handlerVars, excused>>

\* A fault: the registry is emptied with the session.
DropForgetsRegistry == Disconnected /\ registry' = {}

\* The session is lost, and with it (clean: true) the broker's side of it.
\* Every call still open fails, which the registry only logs.
Drop == Disconnected /\ UNCHANGED registry
-----------------------------------------------------------------------------
(* Faults of the surroundings, and time. *)

\* The Redis subscribers are disconnected, and connect again.
Lose    == ~deaf /\ Fault /\ deaf' = TRUE
Recover == deaf /\ deaf' = FALSE /\ UNCHANGED faults

LoseOrRecover == /\ Lose \/ Recover
                 /\ UNCHANGED <<now, row, redisVars, requestVars, clientVars,
                                listening, commands, handlerVars, excused>>

\* Ingest dies or is stopped; the next process starts from nothing and so
\* makes good what the last one missed.
Crash == /\ Fault
         /\ session' = FALSE /\ ready' = FALSE
         /\ broker' = {} /\ wanted' = {} /\ calls' = <<>> /\ registry' = {}
         /\ cutOff' = {} /\ excused' = {}
         /\ listening' = {}
         /\ commands' = [h \in Handlers |-> <<>>]
         /\ handler' = [h \in Handlers |-> Idle]
         /\ unseen' = [h \in Handlers |-> {}]
         /\ UNCHANGED <<now, row, redisVars, requestVars, deaf>>

Tick == /\ now < MaxNow
        /\ now' = now + 1
        /\ UNCHANGED <<row, redisVars, requestVars, clientVars, commandVars,
                       handlerVars, faults, excused>>
-----------------------------------------------------------------------------
Next == \/ \E r \in Requests : RequestNext(r)
        \/ Connect
        \/ \E h \in Handlers : Handler(h) \/ Handle(h)
        \/ Callback
        \/ Drop \/ LoseOrRecover \/ Crash \/ Tick

\* The client and the Redis connections reconnect, a process goes on, the
\* broker answers.
Spec == /\ Init /\ [][Next]_vars
        /\ WF_vars(Connect) /\ WF_vars(Callback)
        /\ WF_vars(deaf /\ LoseOrRecover)
        /\ \A h \in Handlers : WF_vars(Handler(h)) /\ WF_vars(Handle(h))
-----------------------------------------------------------------------------
\* The lease sweep finds topics without a lease through the registry
\* (server-ingest.js:103): it misses no topic the broker has this process
\* subscribed to, but one whose SUBSCRIBE a lost session cut off and the
\* client repeated by itself, without the callback that would have told.
RegistryMissesOnlyCutOff ==
    broker \subseteq registry \cup cutOff \cup SubscribesIn(calls)

\* A new process, or one that has its session back, ends up subscribed to
\* every announced topic with a lease, with its key alive, whatever was lost
\* in between; topics hit by one of the hazards "excused" is set at have to
\* wait for the next start.
Owed   == {t \in Topics : Leased(t) \cap announced # {}}
Served == {t \in broker : KeyAlive(t)}

EventuallyServed == []<>(Owed \ excused \subseteq Served)

\* syncActiveFromDb takes from no topic the lease of a row it has read: it
\* brings a key below a lease only if that row was written after its SELECT.
SyncCutsOnlyUnseen ==
    [][\A h \in Handlers, t \in Topics :
           /\ handler'[h] # handler[h]
           /\ key'[t] < key[t]
           => \A s \in Leased(t) : key'[t] < row[s] => s \in unseen[h]]_vars
=============================================================================
