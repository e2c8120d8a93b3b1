-------------------------- MODULE SubscriptionStore --------------------------
(***************************************************************************)
(* The tables topics and subscriptions in PostgreSQL, and the statements   *)
(* of helpers/db.js one by one.  Transactions run at READ COMMITTED: a     *)
(* statement sees what is committed when it starts; an UPDATE or DELETE    *)
(* waits for the transaction that holds a row, an INSERT into topics for   *)
(* the one that is inserting the same topic_url.  Nothing of the kind      *)
(* guards subscriptions, which has no unique index.                        *)
(*                                                                         *)
(* A client is one run of insertSubscription, updateSubscription or        *)
(* deleteSubscription; a subscriptions row is named after the client that  *)
(* inserted it.                                                            *)
(***************************************************************************)
EXTENDS Naturals, FiniteSets

CONSTANTS Clients,    \* runs of the three functions
          Topics,     \* topic URLs
          Callbacks,  \* subscriber callbacks
          TopicOf,    \* the topic each client is about
          CallbackOf, \* and its callback
          PoolSize    \* connections in the pool

ASSUME StoreAssumption == /\ TopicOf \in [Clients -> Topics]
                          /\ CallbackOf \in [Clients -> Callbacks]
                          /\ PoolSize \in Nat \ {0}

VARIABLES topics,  \* committed topics rows
          rows,    \* committed subscriptions rows, by the client that inserted
          live,    \* the rows whose lease has not ended
          txn,     \* the open transaction of each client
          free,    \* idle connections of the pool
          overlaps \* history: pairs of inserting transactions open at once

storeVars == <<topics, rows, live, txn, free, overlaps>>

\* What a transaction has done so far: the topics row it inserted, its
\* subscriptions row, and the rows it updated or deleted, which it holds.
NoTxn  == [open |-> FALSE, inserting |-> FALSE, topic |-> FALSE,
           row |-> FALSE, held |-> {}, deletes |-> FALSE]
Begun(inserting) == [NoTxn EXCEPT !.open = TRUE, !.inserting = inserting]

StoreTypeOK ==
    /\ topics \in SUBSET Topics
    /\ rows \in SUBSET Clients
    /\ live \in SUBSET rows
    /\ txn \in [Clients -> [open : BOOLEAN, inserting : BOOLEAN,
                            topic : BOOLEAN, row : BOOLEAN,
                            held : SUBSET Clients, deletes : BOOLEAN]]
    /\ free = PoolSize - Cardinality({c \in Clients : txn[c].open})
    /\ overlaps \in SUBSET (SUBSET Clients)

StoreInit == /\ topics = {} /\ rows = {} /\ live = {}
             /\ txn = [c \in Clients |-> NoTxn]
             /\ free = PoolSize
             /\ overlaps = {}
-----------------------------------------------------------------------------
SameKey(c, d)  == TopicOf[c] = TopicOf[d] /\ CallbackOf[c] = CallbackOf[d]
RowsOf(c)      == {d \in rows : SameKey(c, d)}
ActiveRowsOf(c) == RowsOf(c) \cap live

\* pool.connect() and BEGIN.
Begin(c, inserting) ==
    /\ free > 0
    /\ free' = free - 1
    /\ txn' = [txn EXCEPT ![c] = Begun(inserting)]
    /\ overlaps' = overlaps \cup
           (IF inserting
            THEN {{c, d} : d \in {e \in Clients : txn[e].inserting}} ELSE {})
    /\ UNCHANGED <<topics, rows, live>>

\* INSERT INTO topics: waits for another transaction's insert of the same
\* topic_url; once that is committed the unique index refuses this one.
TopicInsertWaits(c) == \E d \in Clients \ {c} :
                           TopicOf[d] = TopicOf[c] /\ txn[d].topic
UniqueViolation(c)  == TopicOf[c] \in topics

InsertTopic(c) == /\ ~TopicInsertWaits(c) /\ ~UniqueViolation(c)
                  /\ txn' = [txn EXCEPT ![c].topic = TRUE]
                  /\ UNCHANGED <<topics, rows, live, free, overlaps>>

InsertRow(c) == /\ txn' = [txn EXCEPT ![c].row = TRUE]
                /\ UNCHANGED <<topics, rows, live, free, overlaps>>

\* UPDATE or DELETE ... WHERE topic and callback: all rows there are by then.
WriteRows(c, deletes) ==
    /\ \A d \in Clients \ {c} : txn[d].held \cap RowsOf(c) = {}
    /\ txn' = [txn EXCEPT ![c].held = RowsOf(c), ![c].deletes = deletes]
    /\ UNCHANGED <<topics, rows, live, free, overlaps>>

\* COMMIT, then client.release() in the finally block.
Commit(c) ==
    LET inserted == IF txn[c].row THEN {c} ELSE {}
        updated  == IF txn[c].deletes THEN {} ELSE txn[c].held
        deleted  == IF txn[c].deletes THEN txn[c].held ELSE {}
    IN  /\ topics' = IF txn[c].topic THEN topics \cup {TopicOf[c]} ELSE topics
        /\ rows' = (rows \ deleted) \cup inserted
        /\ live' = (live \ deleted) \cup inserted \cup updated
        /\ txn' = [txn EXCEPT ![c] = NoTxn]
        /\ free' = free + 1
        /\ UNCHANGED overlaps

\* A fault: the connection is not released when a statement fails.
RollbackKeepsConnection(c) ==
    /\ txn' = [txn EXCEPT ![c] = NoTxn]
    /\ UNCHANGED <<topics, rows, live, free, overlaps>>

\* ROLLBACK in the catch block, then client.release().
Rollback(c) == /\ txn' = [txn EXCEPT ![c] = NoTxn]
               /\ free' = free + 1
               /\ UNCHANGED <<topics, rows, live, overlaps>>

\* duration passes: getSubscriptions no longer returns the row, while the
\* SELECT of insertSubscription still finds it.
LeaseEnds == /\ \E d \in live : live' = live \ {d}
             /\ UNCHANGED <<topics, rows, txn, free, overlaps>>
-----------------------------------------------------------------------------
\* A callback has two rows for a topic, and so two entries in a refreshed
\* cache and every notification twice, only if the two transactions that
\* inserted them were open at the same time.
DuplicatesNeedRace ==
    \A c, d \in rows : (c # d /\ SameKey(c, d)) => {c, d} \in overlaps
=============================================================================
