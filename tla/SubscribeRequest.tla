-------------------------- MODULE SubscribeRequest --------------------------
(***************************************************************************)
(* Subscribe requests from the POST to their outcome, as they use the      *)
(* store and the event log: the checks of the form, the 202, the callback  *)
(* policy, the publisher's answer, the subscriber's answer, the rows in    *)
(* PostgreSQL, the announcement and the recorded outcome.  Removers delete *)
(* a callback's rows meanwhile, for an unsubscription or a 410.            *)
(*                                                                         *)
(* A step is one await.  TopicLifecycle has the announcement step by step, *)
(* for one topic and with whole transactions instead of statements.        *)
(***************************************************************************)
EXTENDS SubscriptionStore, SubscriptionEvents, Sequences

CONSTANTS Forms,    \* the checks each form may fail
          MaxFaults \* bound on awaits that reject

VARIABLES pc,       \* the next step of each client
          outcome,  \* the event that ended a request: none, denied (by the
                    \* policy, the publisher or the subscriber), failed (an
                    \* await rejected) or activated
          faulted,  \* history: clients one of whose awaits rejected
          stored,   \* history: clients whose commit wrote a row
          shadowed  \* history: requests whose pending entry another deleted

requestVars == <<pc, outcome, faulted, stored, shadowed>>
vars == <<storeVars, eventVars, requestVars>>

Removers == Clients \ Requests

ASSUME RequestAssumption == Requests \subseteq Clients /\ MaxFaults \in Nat

InTransaction == {"selectTopic", "insertTopic", "selectRow", "insertRow",
                  "updateRow", "deleteRow", "commit", "rollback"}
Running       == InTransaction \cup {"policy", "publisher", "intent", "lookup",
                  "beginInsert", "beginUpdate", "announce", "denied",
                  "activated", "failed"}
Steps         == Running \cup {"idle", "done"}

TypeOK == /\ StoreTypeOK /\ EventsTypeOK
          /\ pc \in [Clients -> Steps]
          /\ outcome \in [Requests -> {"none", "denied", "failed",
                                       "activated"}]
          /\ {faulted, stored, shadowed} \subseteq SUBSET Clients

Init == /\ StoreInit /\ EventsInit
        /\ pc = [c \in Clients |-> "idle"]
        /\ outcome = [r \in Requests |-> "none"]
        /\ faulted = {} /\ stored = {} /\ shadowed = {}

GoTo(c, step) == pc' = [pc EXCEPT ![c] = step]
-----------------------------------------------------------------------------
(* app.js and routes/subscriptions.js: the POST. *)

\* The checks in their order, with the status that answers a failed one.
Checks == << [check |-> "contentType",    status |-> 415],
             [check |-> "charset",        status |-> 415],
             [check |-> "mode",           status |-> 400],
             [check |-> "modeValue",      status |-> 501],
             [check |-> "callbackLength", status |-> 413],
             [check |-> "callback",       status |-> 400],
             [check |-> "topic",          status |-> 400],
             [check |-> "topicLength",    status |-> 413],
             [check |-> "service",        status |-> 400],
             [check |-> "lease",          status |-> 400],
             [check |-> "secret",         status |-> 400] >>

\* The first check the form fails decides; 202 when there is none.
Status(form) ==
    LET failing == {i \in DOMAIN Checks : Checks[i].check \in form}
    IN  IF failing = {} THEN 202
        ELSE Checks[CHOOSE i \in failing : \A j \in failing : i <= j].status

\* A refused form leaves no trace; an accepted one is registered as pending,
\* its subscription started and its event pushed before the 202 is sent.
Post(r) ==
    /\ pc[r] = "idle"
    /\ \E form \in Forms : IF Status(form) = 202
                           THEN GoTo(r, "policy") /\ BeginSubscribe(r)
                           ELSE UNCHANGED <<pc, eventVars>>
    /\ UNCHANGED <<storeVars, outcome, faulted, stored, shadowed>>
-----------------------------------------------------------------------------
(* routes/subscribe.js: what others have to agree to. *)

\* The callback's policy, the publisher's HEAD and the subscriber's answer
\* to the challenge: each may end the request.
Ask(r) ==
    /\ pc[r] \in {"policy", "publisher", "intent"}
    /\ \/ GoTo(r, CASE pc[r] = "policy"    -> "publisher"
                    [] pc[r] = "publisher" -> "intent"
                    [] OTHER               -> "lookup")
       \/ GoTo(r, "denied")
    /\ UNCHANGED <<storeVars, eventVars, outcome, faulted, stored, shadowed>>

\* getSubscriptions: insert or update?
Lookup(r) ==
    /\ pc[r] = "lookup"
    /\ free > 0
    /\ GoTo(r, IF ActiveRowsOf(r) = {} THEN "beginInsert" ELSE "beginUpdate")
    /\ UNCHANGED <<storeVars, eventVars, outcome, faulted, stored, shadowed>>
-----------------------------------------------------------------------------
(* helpers/db.js: insertSubscription, updateSubscription and               *)
(* deleteSubscription.                                                     *)

Step(c, from, to) ==
    /\ pc[c] = from
    /\ GoTo(c, to)
    /\ UNCHANGED <<eventVars, outcome, faulted, stored, shadowed>>

BeginInsert(r) == /\ Step(r, "beginInsert", "selectTopic")
                  /\ Begin(r, TRUE)
BeginUpdate(r) == /\ Step(r, "beginUpdate", "updateRow")
                  /\ Begin(r, FALSE)
BeginDelete(d) == /\ Step(d, "idle", "deleteRow")
                  /\ d \in Removers
                  /\ Begin(d, FALSE)

SelectTopic(r) ==
    /\ Step(r, "selectTopic",
            IF TopicOf[r] \in topics THEN "selectRow" ELSE "insertTopic")
    /\ UNCHANGED storeVars

\* A fault: the violation is an error like any other, not waited for.
AddTopicAtOnce(r) ==
    \/ Step(r, "insertTopic", "selectRow") /\ InsertTopic(r)
    \/ /\ Step(r, "insertTopic", "rollback")
       /\ \E d \in Clients \ {r} : TopicOf[d] = TopicOf[r]
       /\ UNCHANGED storeVars

\* After a unique violation the transaction is aborted: PostgreSQL refuses
\* the SELECT with which the code means to recover.
AddTopic(r) ==
    \/ Step(r, "insertTopic", "selectRow") /\ InsertTopic(r)
    \/ /\ Step(r, "insertTopic", "rollback")
       /\ ~TopicInsertWaits(r) /\ UniqueViolation(r)
       /\ UNCHANGED storeVars

\* A fault: the insertion does not look for a row whose lease has ended.
SelectActiveRow(r) ==
    /\ Step(r, "selectRow",
            IF ActiveRowsOf(r) = {} THEN "insertRow" ELSE "updateRow")
    /\ UNCHANGED storeVars

SelectRow(r) ==
    /\ Step(r, "selectRow",
            IF RowsOf(r) = {} THEN "insertRow" ELSE "updateRow")
    /\ UNCHANGED storeVars

AddRow(r)     == Step(r, "insertRow", "commit") /\ InsertRow(r)
UpdateRows(r) == Step(r, "updateRow", "commit") /\ WriteRows(r, FALSE)
DeleteRows(d) == Step(d, "deleteRow", "commit") /\ WriteRows(d, TRUE)

CommitIt(c) ==
    /\ pc[c] = "commit"
    /\ Commit(c)
    /\ stored' = IF txn[c].row \/ txn[c].held # {} THEN stored \cup {c}
                                                   ELSE stored
    /\ GoTo(c, IF c \in Requests THEN "announce" ELSE "done")
    /\ UNCHANGED <<eventVars, outcome, faulted, shadowed>>

\* A fault: the catch block does not throw the error on.
RollItBackQuietly(c) ==
    /\ Step(c, "rollback", IF c \in Requests THEN "announce" ELSE "done")
    /\ Rollback(c)

RollItBack(c) ==
    /\ Step(c, "rollback", IF c \in Requests THEN "failed" ELSE "done")
    /\ Rollback(c)
-----------------------------------------------------------------------------
(* The end of a request. *)

\* refreshTopic, which queries the pool, publishRefreshTopic, markActive and
\* publishSubscribe.
Announce(r) == /\ Step(r, "announce", "activated")
               /\ free > 0
               /\ UNCHANGED storeVars

\* recordActivated or recordFailed.
Record(r) ==
    /\ pc[r] \in {"denied", "failed", "activated"}
    /\ RecordOutcome(r)
    /\ outcome' = [outcome EXCEPT ![r] = pc[r]]
    /\ shadowed' = shadowed \cup
           {s \in Requests \ {r} : KeyOf[s] = KeyOf[r] /\ pc[s] \in Running}
    /\ GoTo(r, "done")
    /\ UNCHANGED <<storeVars, faulted, stored>>

\* An await rejects.  Inside a transaction the catch block rolls back; in the
\* chain after the subscriber's answer the final catch records the failure.
Fail(c) ==
    /\ Cardinality(faulted) < MaxFaults
    /\ faulted' = faulted \cup {c}
    /\ \/ pc[c] \in InTransaction \ {"rollback"} /\ GoTo(c, "rollback")
       \/ /\ pc[c] \in {"intent", "lookup", "beginInsert", "beginUpdate",
                        "announce"}
          /\ GoTo(c, "failed")
    /\ UNCHANGED <<storeVars, eventVars, outcome, stored, shadowed>>
-----------------------------------------------------------------------------
Continue(c) ==
    \/ c \in Requests /\ \/ Ask(c) \/ Lookup(c) \/ BeginInsert(c)
                         \/ BeginUpdate(c) \/ SelectTopic(c) \/ AddTopic(c)
                         \/ SelectRow(c) \/ AddRow(c) \/ UpdateRows(c)
                         \/ Announce(c) \/ Record(c)
    \/ DeleteRows(c) \/ CommitIt(c) \/ RollItBack(c)

LeaseStep == LeaseEnds /\ UNCHANGED <<eventVars, requestVars>>

Next == \/ \E c \in Clients : Continue(c) \/ BeginDelete(c) \/ Fail(c)
        \/ \E r \in Requests : Post(r)
        \/ LeaseStep

\* Answers arrive or time out and the database goes on; nobody has to send a
\* request or an unsubscription, and nothing has to fail.
Spec == /\ Init /\ [][Next]_vars
        /\ \A c \in Clients : WF_vars(Continue(c))
-----------------------------------------------------------------------------
\* A subscription reported as activated was written, unless the callback's
\* rows were deleted meanwhile.
ActivatedIsStored ==
    \A r \in Requests : outcome[r] = "activated" =>
        r \in stored \/ \E d \in Removers : SameKey(r, d) /\ pc[d] = "done"

\* Without an await that rejects, an agreed subscription fails only when
\* another first subscription to the topic was being inserted at the same
\* time, and then nothing of it is written.
FailureNeedsRace ==
    \A r \in Requests : outcome[r] = "failed" /\ r \notin faulted =>
        /\ r \notin stored
        /\ \E s \in Requests \ {r} :
               TopicOf[s] = TopicOf[r] /\ {r, s} \in overlaps

\* The pending map holds nobody who is through, and everybody who is not but
\* for those whose entry an earlier request of the same key took with it.
PendingTracksRequests ==
    LET running == {r \in Requests : pc[r] \in Running}
    IN  /\ pending \subseteq {KeyOf[r] : r \in running}
        /\ \A r \in running \ shadowed : KeyOf[r] \in pending

\* Every accepted request ends with an outcome, whatever waits for whose
\* transaction and however few connections there are.
EveryRequestEnds ==
    []<>(\A r \in Requests : pc[r] \notin Running)
=============================================================================
