-------------------------- MODULE SubscriptionCache --------------------------
(***************************************************************************)
(* The in-memory subscription caches of the delivery processes             *)
(* (cache/subscriptions.js): filled by load before the listener of         *)
(* cache:invalidate subscribes (server-delivery.js), kept up to date by    *)
(* refreshTopic and load as invalidations arrive (cache/invalidation.js),  *)
(* corrected by 410 answers and by maybeUnsubscribeTopic.                  *)
(*                                                                         *)
(* An entry is what some SELECT returned.  The SELECT runs before the write *)
(* lock is taken, so a process may have read several times before it       *)
(* writes once, and in another order.  What is written under the lock      *)
(* awaits nothing and is one step.                                         *)
(***************************************************************************)
EXTENDS Integers, Sequences

CONSTANTS Topics,     \* MQTT topics
          Callbacks,  \* subscriber callbacks
          Processes,  \* delivery processes
          Tasks,      \* what one process may have under way at once
          MaxNow,     \* bound: no lease ends later
          MaxChanges, \* bound on subscribe and unsubscribe requests
          MaxFaults   \* bound on lost processes, links, requests, reads

ASSUME CacheAssumption ==
    MaxNow \in Nat /\ MaxChanges \in Nat /\ MaxFaults \in Nat

VARIABLES
    now,       \* the clock
    row,       \* the last tick of each lease; 0: no row
    owing,     \* publications on cache:invalidate committed but not yet sent
    phase,     \* how far main() of each delivery process is
    linked,    \* its Redis subscriber is connected and subscribed
    inbox,     \* the invalidations on their way to it
    cache,     \* byTopic
    task,      \* runs of load, refreshTopic, remove, maybeUnsubscribeTopic
    changes,   \* requests so far
    faults,    \* faults so far
    lost,      \* history: what may have changed without the process knowing
    overtaken  \* history: what an older read has overwritten

storeVars   == <<now, row, owing, changes>>
processVars == <<phase, linked, inbox, cache, task>>
history     == <<lost, overtaken>>
vars == <<storeVars, processVars, faults, history>>

Durations == 0..MaxNow
NoEntry   == [c \in Callbacks |-> 0]
NoEntries == [t \in Topics |-> NoEntry]

\* An invalidation is the topics it makes its receiver read again: one for
\* refreshTopic, all for reload.
Invalidations == {{t} : t \in Topics} \cup {Topics}

Phases == {"down", "loading", "loaded", "listening"}

\* "check": maybeUnsubscribeTopic found no cached subscriber.  "read", then
\* "write": refreshTopic or load.  "remove": the 410 whose row is deleted.
TaskSteps == {"idle", "check", "read", "write", "remove"}

\* A task covers the subscriptions of `who' to the topics of `scope'.  History:
\* `behind' has those that changed since the task read them, `outrun' those of
\* them for which the process has since written something newer.
Subscriptions == Topics \X Callbacks
Covers(w)     == w.scope \X w.who

Idle == [step |-> "idle", scope |-> {}, who |-> {}, snap |-> NoEntries,
         behind |-> {}, outrun |-> {}]

TaskRecords == [step : TaskSteps, scope : {{}} \cup Invalidations,
                who : SUBSET Callbacks,
                snap : [Topics -> [Callbacks -> Durations]],
                behind : SUBSET Subscriptions, outrun : SUBSET Subscriptions]

TypeOK == /\ now \in 1..(MaxNow + 1)
          /\ row \in [Topics -> [Callbacks -> Durations]]
          /\ owing \in [Invalidations -> Nat]
          /\ phase \in [Processes -> Phases]
          /\ linked \in [Processes -> BOOLEAN]
          /\ inbox \in [Processes -> Seq(Invalidations)]
          /\ cache \in [Processes -> [Topics -> [Callbacks -> Durations]]]
          /\ task \in [Processes -> [Tasks -> TaskRecords]]
          /\ changes \in 0..MaxChanges
          /\ faults \in 0..MaxFaults
          /\ lost \in [Processes -> SUBSET Subscriptions]
          /\ overtaken \in [Processes -> SUBSET Subscriptions]

Init == /\ now = 1
        /\ row \in [Topics -> [Callbacks -> Durations]]
        /\ owing = [i \in Invalidations |-> 0]
        /\ phase = [p \in Processes |-> "down"]
        /\ linked = [p \in Processes |-> FALSE]
        /\ inbox = [p \in Processes |-> <<>>]
        /\ cache = [p \in Processes |-> NoEntries]
        /\ task = [p \in Processes |-> [k \in Tasks |-> Idle]]
        /\ changes = 0 /\ faults = 0
        /\ lost = [p \in Processes |-> {}]
        /\ overtaken = [p \in Processes |-> {}]
-----------------------------------------------------------------------------
\* isActiveSub, and the WHERE of the SELECTs.
IsActive(duration) == duration # 0 /\ now <= duration
ActiveOf(entry)    == [c \in Callbacks |-> IF IsActive(entry[c]) THEN entry[c]
                                           ELSE 0]

HasRows(t)       == ActiveOf(row[t]) # NoEntry
HasEntry(p, t)   == ActiveOf(cache[p][t]) # NoEntry

\* The tasks once the row of t and c has changed.
Outdated(t, c) == [p \in Processes |-> [k \in Tasks |->
    IF /\ task[p][k].step \in {"write", "remove"}
       /\ <<t, c>> \in Covers(task[p][k])
    THEN [task[p][k] EXCEPT !.behind = @ \cup {<<t, c>>}] ELSE task[p][k]]]

Fault == faults < MaxFaults /\ faults' = faults + 1
-----------------------------------------------------------------------------
(* The requests, as far as the caches see them. *)

\* A subscribe or unsubscribe request commits; its publication follows.
Change(t) ==
    /\ changes < MaxChanges
    /\ changes' = changes + 1
    /\ \E c \in Callbacks, duration \in {0} \cup now..MaxNow :
           /\ duration # row[t][c]
           /\ row' = [row EXCEPT ![t][c] = duration]
           /\ task' = Outdated(t, c)
    /\ owing' = [owing EXCEPT ![{t}] = @ + 1]
    /\ UNCHANGED <<now, phase, linked, inbox, cache, faults, history>>

\* The cleanup script deletes the rows that are over and owes a reload.
Cleanup == /\ [t \in Topics |-> ActiveOf(row[t])] # row
           /\ row' = [t \in Topics |-> ActiveOf(row[t])]
           /\ owing' = [owing EXCEPT ![Topics] = @ + 1]
           /\ UNCHANGED <<now, processVars, changes, faults, history>>

\* FAULT: a request publishes whether or not it has anything to publish.
PublishUnowed(i) ==
    /\ owing' = [owing EXCEPT ![i] = @ - 1]
    /\ inbox' = [p \in Processes |-> IF linked[p] THEN Append(inbox[p], i)
                                     ELSE inbox[p]]
    /\ UNCHANGED <<now, row, changes, phase, linked, cache, task, faults,
                   history>>

\* PUBLISH reaches the subscribers of the moment, nobody else.
Publish(i) ==
    /\ owing[i] > 0
    /\ owing' = [owing EXCEPT ![i] = @ - 1]
    /\ inbox' = [p \in Processes |-> IF linked[p] THEN Append(inbox[p], i)
                                     ELSE inbox[p]]
    /\ lost' = [p \in Processes |-> IF linked[p] THEN lost[p]
                                    ELSE lost[p] \cup (i \X Callbacks)]
    /\ UNCHANGED <<now, row, changes, phase, linked, cache, task, faults,
                   overtaken>>

\* The request's process dies, or its refreshTopic rejects, before it
\* publishes.
RequestDies(i) ==
    /\ owing[i] > 0
    /\ Fault
    /\ owing' = [owing EXCEPT ![i] = @ - 1]
    /\ lost' = [p \in Processes |-> lost[p] \cup (i \X Callbacks)]
    /\ UNCHANGED <<now, row, changes, processVars, overtaken>>

Tick == /\ now <= MaxNow
        /\ now' = now + 1
        /\ UNCHANGED <<row, owing, changes, processVars, faults, history>>
-----------------------------------------------------------------------------
(* The delivery process: load, syncActiveFromDb, listener, worker. *)

Begin(scope) ==
    [Idle EXCEPT !.step = "read", !.scope = scope, !.who = Callbacks]

Start(p) ==
    /\ phase[p] = "down"
    /\ phase' = [phase EXCEPT ![p] = "loading"]
    /\ \E k \in Tasks : task' = [task EXCEPT ![p][k] = Begin(Topics)]
    /\ UNCHANGED <<storeVars, linked, inbox, cache, faults, history>>

StartListening(p) ==
    /\ phase[p] = "loaded"
    /\ phase' = [phase EXCEPT ![p] = "listening"]
    /\ linked' = [linked EXCEPT ![p] = TRUE]
    /\ UNCHANGED <<storeVars, inbox, cache, task, faults, history>>

\* What a process loses with its life: everything.
Exit(p) == /\ phase' = [phase EXCEPT ![p] = "down"]
           /\ linked' = [linked EXCEPT ![p] = FALSE]
           /\ inbox' = [inbox EXCEPT ![p] = <<>>]
           /\ cache' = [cache EXCEPT ![p] = NoEntries]
           /\ task' = [task EXCEPT ![p] = [k \in Tasks |-> Idle]]
           /\ lost' = [lost EXCEPT ![p] = {}]
           /\ overtaken' = [overtaken EXCEPT ![p] = {}]

Crash(p) == phase[p] # "down" /\ Fault /\ Exit(p) /\ UNCHANGED storeVars

\* The Redis connection drops and ioredis reconnects and subscribes again;
\* nobody asks what was published meanwhile.
Unlink(p) ==
    /\ linked[p]
    /\ Fault
    /\ linked' = [linked EXCEPT ![p] = FALSE]
    /\ inbox' = [inbox EXCEPT ![p] = <<>>]
    /\ lost' = [lost EXCEPT ![p] =
           @ \cup UNION {inbox[p][n] \X Callbacks : n \in DOMAIN inbox[p]}]
    /\ UNCHANGED <<storeVars, phase, cache, task, overtaken>>

Relink(p) == /\ phase[p] = "listening" /\ ~linked[p]
             /\ linked' = [linked EXCEPT ![p] = TRUE]
             /\ UNCHANGED <<storeVars, phase, inbox, cache, task, faults,
                            history>>
-----------------------------------------------------------------------------
(* Faults: what a slip in the code would look like.  No action of the       *)
(* specification uses them; each breaks one of the properties below.       *)

\* A message is skipped while a refresh of the same topics is under way.
ReceiveCoalesced(p, k) ==
    /\ inbox[p] # <<>> /\ task[p][k].step = "idle"
    /\ inbox' = [inbox EXCEPT ![p] = Tail(@)]
    /\ task' = IF \E j \in Tasks : task[p][j].scope = Head(inbox[p])
               THEN task
               ELSE [task EXCEPT ![p][k] = Begin(Head(inbox[p]))]
    /\ UNCHANGED <<storeVars, phase, linked, cache, faults, history>>

\* maybeUnsubscribeTopic leaves the cache alone when the database has rows.
CheckOnly(p, k) ==
    /\ task[p][k].step = "check"
    /\ task' = [task EXCEPT ![p][k] = Idle]
    /\ UNCHANGED <<storeVars, phase, linked, inbox, cache, faults, history>>
-----------------------------------------------------------------------------
(* helpers/cache. *)

\* The listener's handler is not awaited: the next message may come before
\* this one's read.
Receive(p, k) ==
    /\ inbox[p] # <<>> /\ task[p][k].step = "idle"
    /\ inbox' = [inbox EXCEPT ![p] = Tail(@)]
    /\ task' = [task EXCEPT ![p][k] = Begin(Head(inbox[p]))]
    /\ UNCHANGED <<storeVars, phase, linked, cache, faults, history>>

\* getSubscriptions or loadAllSubscriptions, outside the lock.
Read(p, k) ==
    /\ task[p][k].step = "read"
    /\ task' = [task EXCEPT ![p][k].step = "write", ![p][k].snap =
           [t \in Topics |-> IF t \in task[p][k].scope THEN ActiveOf(row[t])
                             ELSE NoEntry]]
    /\ lost' = [lost EXCEPT ![p] = @ \ Covers(task[p][k])]
    /\ UNCHANGED <<storeVars, phase, linked, inbox, cache, faults, overtaken>>

\* The query fails, or a secret cannot be decrypted.  The listener logs it as
\* an invalid message and forgets it; main() ends the process.
ReadFails(p, k) ==
    /\ task[p][k].step = "read"
    /\ Fault
    /\ \/ phase[p] = "loading" /\ Exit(p)
       \/ /\ phase[p] # "loading"
          /\ task' = [task EXCEPT ![p][k] = Idle]
          /\ lost' = [lost EXCEPT ![p] = @ \cup Covers(task[p][k])]
          /\ UNCHANGED <<phase, linked, inbox, cache, overtaken>>
    /\ UNCHANGED storeVars

\* The process's other tasks once task k has written what it knows.
Outrun(p, k, next) == [j \in Tasks |->
    LET current == Covers(task[p][k]) \ task[p][k].behind
    IN IF j = k THEN next
       ELSE [task[p][j] EXCEPT
                 !.outrun = @ \cup (current \cap task[p][j].behind)]]

\* The entry, or with load the whole map, becomes what was read.
Write(p, k) ==
    /\ task[p][k].step = "write"
    /\ cache' = [cache EXCEPT ![p] = [t \in Topics |->
           IF t \in task[p][k].scope THEN task[p][k].snap[t] ELSE cache[p][t]]]
    /\ phase' = IF phase[p] = "loading" THEN [phase EXCEPT ![p] = "loaded"]
                ELSE phase
    /\ task' = [task EXCEPT ![p] = Outrun(p, k, Idle)]
    /\ overtaken' = [overtaken EXCEPT ![p] =
           (@ \ Covers(task[p][k])) \cup task[p][k].outrun]
    /\ UNCHANGED <<storeVars, linked, inbox, faults, lost>>

\* maybeUnsubscribeTopic has found no subscriber in the cache.
Looking(t) == [Idle EXCEPT !.step = "check", !.scope = {t}]

\* A delivery is answered with 410 and deletes the row, if it is still there.
\* Nothing is published.  The POST may be old: the entry it was sent for may
\* have left the cache by now, so any callback may be answered for.
Gone(p, k, t, c) ==
    /\ phase[p] = "listening" /\ task[p][k].step = "idle"
    /\ row' = [row EXCEPT ![t][c] = 0]
    /\ LET removing == [Idle EXCEPT !.step = "remove", !.scope = {t},
                                    !.who = {c}]
           deleted  == row[t][c] # 0
       IN /\ task' = [(IF deleted THEN Outdated(t, c) ELSE task)
                          EXCEPT ![p][k] = removing]
          /\ lost' = [q \in Processes |-> IF deleted /\ q # p
                                          THEN lost[q] \cup {<<t, c>>}
                                          ELSE lost[q]]
    /\ UNCHANGED <<now, owing, changes, phase, linked, inbox, cache, faults,
                   overtaken>>

\* remove(), then maybeUnsubscribeTopic, which looks at the database only if
\* no active subscriber is left in the cache.
RemoveCached(p, k) ==
    /\ task[p][k].step = "remove"
    /\ \E t \in task[p][k].scope :
           /\ cache' = [cache EXCEPT ![p][t] = [c \in Callbacks |->
                  IF c \in task[p][k].who THEN 0 ELSE cache[p][t][c]]]
           /\ task' = [task EXCEPT ![p] = Outrun(p, k,
                  IF ActiveOf(cache'[p][t]) = NoEntry
                  THEN Looking(t) ELSE Idle)]
    /\ overtaken' = [overtaken EXCEPT ![p] =
           (@ \ Covers(task[p][k])) \cup task[p][k].outrun]
    /\ UNCHANGED <<storeVars, phase, linked, inbox, faults, lost>>

\* A job asks for the topic's subscribers; getActive drops what is over.  If
\* nobody is left, or nobody was there, maybeUnsubscribeTopic follows.
GetActive(p, k, t) ==
    /\ phase[p] = "listening"
    /\ cache' = [cache EXCEPT ![p][t] = ActiveOf(@)]
    /\ IF HasEntry(p, t) THEN UNCHANGED task
       ELSE /\ task[p][k].step = "idle"
            /\ task' = [task EXCEPT ![p][k] = Looking(t)]
    /\ UNCHANGED <<storeVars, phase, linked, inbox, faults, history>>

\* maybeUnsubscribeTopic: rows in the database make it refresh the cache;
\* without any the topic is unsubscribed (TopicLifecycle).
Check(p, k) ==
    /\ task[p][k].step = "check"
    /\ \E t \in task[p][k].scope :
           task' = [task EXCEPT ![p][k] = IF HasRows(t) THEN Begin({t})
                                          ELSE Idle]
    /\ UNCHANGED <<storeVars, phase, linked, inbox, cache, faults, history>>
-----------------------------------------------------------------------------
TaskStep(p, k) ==
    Check(p, k) \/ Read(p, k) \/ Write(p, k) \/ RemoveCached(p, k)

Next == \/ \E t \in Topics : Change(t)
        \/ \E i \in Invalidations : Publish(i) \/ RequestDies(i)
        \/ Cleanup \/ Tick
        \/ \E p \in Processes : \/ Start(p) \/ StartListening(p)
                                \/ Crash(p) \/ Unlink(p) \/ Relink(p)
        \/ \E p \in Processes, k \in Tasks :
               \/ Receive(p, k) \/ TaskStep(p, k) \/ ReadFails(p, k)
               \/ \E t \in Topics : GetActive(p, k, t)
               \/ \E t \in Topics, c \in Callbacks : Gone(p, k, t, c)

Spec == Init /\ [][Next]_vars

\* Queries answer and queued work runs; of the outside world only that every
\* topic goes on having notifications.
Fairness == \A p \in Processes, k \in Tasks :
                /\ WF_vars(TaskStep(p, k))
                /\ \A t \in Topics : SF_vars(GetActive(p, k, t))

FairSpec == Spec /\ Fairness
-----------------------------------------------------------------------------
\* What the process is going to do about topic t: an invalidation that is yet
\* to come, or a task that will write what the database has now.
Pending(p, t, c) ==
    \/ \E i \in Invalidations : t \in i /\ owing[i] > 0
    \/ \E n \in DOMAIN inbox[p] : t \in inbox[p][n]
    \/ \E k \in Tasks :
           LET w == task[p][k] IN
           /\ <<t, c>> \in Covers(w)
           /\ \/ w.step = "read"
              \/ w.step \in {"write", "remove"} /\ <<t, c>> \notin w.behind

\* From its load on, a delivery process shows the active rows, with their
\* leases, unless it is about to; or nobody told it of a change (published
\* while it did not listen, read in vain, a request that died, a 410 of
\* another process); or an older read was written after a newer one.
StaleHasCause ==
    \A p \in Processes, t \in Topics, c \in Callbacks :
        /\ phase[p] \in {"loaded", "listening"}
        /\ ActiveOf(cache[p][t])[c] # ActiveOf(row[t])[c]
        => Pending(p, t, c) \/ <<t, c>> \in lost[p] \cup overtaken[p]

\* Whatever was lost or overtaken, a process does not go on for ever
\* believing that a topic with subscribers has none.
EmptyHeals ==
    \A p \in Processes, t \in Topics :
        <>[](phase[p] = "listening") =>
            <>[](HasRows(t) => HasEntry(p, t))
=============================================================================
