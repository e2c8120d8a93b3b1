----------------------- MODULE SubscribeRequestProofs -----------------------
(***************************************************************************)
(* Proofs for SubscribeRequest: for any number of requests and removers,   *)
(* any pool and any faults.                                                *)
(***************************************************************************)
EXTENDS SubscribeRequest, FiniteSetTheorems, TLAPS

Opened == {c \in Clients : txn[c].open}

\* Which steps a remover has and a request does not.
PcFits ==
    /\ \A d \in Removers : pc[d] \in {"idle", "deleteRow", "commit",
                                      "rollback", "done"}
    /\ \A r \in Requests : pc[r] # "deleteRow"

\* A transaction is open while its client is inside it, and holds what the
\* statements so far have written.
TxnFits(c) ==
    /\ txn[c].open <=> pc[c] \in InTransaction
    /\ ~txn[c].open => txn[c] = NoTxn
    /\ txn[c].inserting \/ txn[c].row \/ txn[c].topic =>
           txn[c].inserting /\ c \in Requests
    /\ txn[c].deletes => c \in Removers
    /\ pc[c] \in {"selectTopic", "insertTopic", "selectRow", "insertRow"} =>
           txn[c].inserting
    /\ pc[c] \in InTransaction \ {"commit", "rollback"} =>
           ~txn[c].row /\ txn[c].held = {}
    /\ \A d \in txn[c].held : d \in rows /\ SameKey(c, d)

TxnsFit == \A c \in Clients : TxnFits(c)

\* No row is held twice.
HeldOnce == \A c, d \in Clients : c # d => txn[c].held \cap txn[d].held = {}

StoreInv == /\ TypeOK /\ IsFiniteSet(Opened)
            /\ PcFits /\ TxnsFit /\ HeldOnce

\* Inserting transactions that are open together have been noted, and so has
\* whoever put a row where another is about to put one of the same key.
OverlapsNoted ==
    \A c, d \in Clients : c # d /\ txn[c].inserting /\ txn[d].inserting =>
                              {c, d} \in overlaps

InsertsRace ==
    \A c \in rows, d \in Clients :
        c # d /\ SameKey(c, d) /\ (pc[d] = "insertRow" \/ txn[d].row) =>
            {c, d} \in overlaps

RaceInv == OverlapsNoted /\ InsertsRace /\ DuplicatesNeedRace

\* A request that found a row writes one, or a remover of its key is through.
Removed(r) == \E d \in Removers : SameKey(r, d) /\ pc[d] = "done"

FoundIsWritten ==
    \A r \in Requests :
        /\ pc[r] \in {"beginUpdate", "updateRow"} =>
               RowsOf(r) # {} \/ Removed(r)
        /\ pc[r] = "commit" =>
               txn[r].row \/ txn[r].held # {} \/ Removed(r)
        /\ pc[r] \in {"announce", "activated"} => r \in stored \/ Removed(r)

StoredInv == FoundIsWritten /\ ActivatedIsStored

\* A request whose topic another was inserting at the same time.
Beaten(r) == \E s \in Requests \ {r} :
                 TopicOf[s] = TopicOf[r] /\ {r, s} \in overlaps

FailureKnown ==
    \A r \in Requests :
        /\ pc[r] = "insertTopic" /\ TopicOf[r] \in topics => Beaten(r)
        /\ pc[r] \in {"rollback", "failed"} /\ r \notin faulted => Beaten(r)
        /\ r \in stored => \/ pc[r] \in {"announce", "activated", "done"}
                           \/ r \in faulted
        /\ outcome[r] # "none" => pc[r] = "done"

FailureInv == FailureKnown /\ FailureNeedsRace

\* The inductive invariant is StoreInv /\ RaceInv /\ StoredInv /\ FailureInv
\* /\ PendingTracksRequests.  Each part is shown with the parts before it:
\* all of them need StoreInv, and FailureInv also RaceInv.
-----------------------------------------------------------------------------
(* The store: connections, transactions and rows.                          *)

LEMMA ConnectionsOfBegin ==
    ASSUME NEW c \in Clients, NEW inserting \in BOOLEAN, StoreInv,
           ~txn[c].open, Begin(c, inserting)
    PROVE  StoreTypeOK' /\ IsFiniteSet(Opened')
  <1> USE DEF Begin
  <1>1. /\ txn'[c] = Begun(inserting)
        /\ \A d \in Clients \ {c} : txn'[d] = txn[d]
    BY DEF StoreInv, TypeOK, StoreTypeOK
  <1>2. Opened' = Opened \cup {c} /\ c \notin Opened
    BY <1>1 DEF Begun, NoTxn, Opened
  <1>3. /\ IsFiniteSet(Opened')
        /\ Cardinality(Opened') = Cardinality(Opened) + 1
        /\ Cardinality(Opened) \in Nat
    BY <1>2, FS_AddElement, FS_CardinalityType DEF StoreInv
  <1>4. free' = PoolSize - Cardinality(Opened')
    BY <1>3, StoreAssumption DEF StoreInv, TypeOK, StoreTypeOK, Opened
  <1>5. txn' \in [Clients -> [open : BOOLEAN, inserting : BOOLEAN,
                              topic : BOOLEAN, row : BOOLEAN,
                              held : SUBSET Clients, deletes : BOOLEAN]]
    BY DEF StoreInv, TypeOK, StoreTypeOK, Begun, NoTxn
  <1>6. overlaps' \in SUBSET (SUBSET Clients)
    BY DEF StoreInv, TypeOK, StoreTypeOK
  <1>7. QED
    BY <1>3, <1>4, <1>5, <1>6 DEF StoreInv, TypeOK, StoreTypeOK, Opened

LEMMA ConnectionsOfEnd ==
    ASSUME NEW c \in Clients, StoreInv, txn[c].open,
           txn' = [txn EXCEPT ![c] = NoTxn], free' = free + 1
    PROVE  /\ free' = PoolSize - Cardinality(Opened')
           /\ IsFiniteSet(Opened')
  <1>1. /\ txn'[c] = NoTxn
        /\ \A d \in Clients \ {c} : txn'[d] = txn[d]
    BY DEF StoreInv, TypeOK, StoreTypeOK
  <1>2. Opened' = Opened \ {c} /\ c \in Opened
    BY <1>1 DEF NoTxn, Opened
  <1>3. /\ IsFiniteSet(Opened')
        /\ Cardinality(Opened') = Cardinality(Opened) - 1
        /\ Cardinality(Opened) \in Nat
    BY <1>2, FS_RemoveElement, FS_CardinalityType DEF StoreInv
  <1>4. QED
    BY <1>3, StoreAssumption DEF StoreInv, TypeOK, StoreTypeOK, Opened

TxnRecords == [open : BOOLEAN, inserting : BOOLEAN, topic : BOOLEAN,
               row : BOOLEAN, held : SUBSET Clients, deletes : BOOLEAN]

LEMMA RecordsTyped ==
    ASSUME NEW t \in TxnRecords
    PROVE  /\ [t EXCEPT !.topic = TRUE] \in TxnRecords
           /\ [t EXCEPT !.row = TRUE] \in TxnRecords
           /\ \A held \in SUBSET Clients, deletes \in BOOLEAN :
                  [t EXCEPT !.held = held, !.deletes = deletes] \in TxnRecords
  <1>1. [t EXCEPT !.topic = TRUE] \in TxnRecords
    BY Zenon DEF TxnRecords
  <1>2. [t EXCEPT !.row = TRUE] \in TxnRecords
    BY Zenon DEF TxnRecords
  <1>3. ASSUME NEW held \in SUBSET Clients, NEW deletes \in BOOLEAN
        PROVE  [t EXCEPT !.held = held, !.deletes = deletes] \in TxnRecords
    BY Zenon DEF TxnRecords
  <1>4. QED BY <1>1, <1>2, <1>3

LEMMA ConnectionsOfStatement ==
    ASSUME StoreInv, free' = free,
           \A c \in Clients : txn'[c].open = txn[c].open
    PROVE  /\ free' = PoolSize - Cardinality(Opened')
           /\ IsFiniteSet(Opened')
  <1>1. Opened' = Opened
    BY DEF Opened
  <1>2. QED BY <1>1 DEF StoreInv, TypeOK, StoreTypeOK, Opened

\* A statement that makes of the record of its transaction another.
LEMMA StatementTyped ==
    ASSUME StoreInv, NEW c \in Clients, NEW t \in TxnRecords,
           t.open = txn[c].open,
           txn' = [txn EXCEPT ![c] = t],
           UNCHANGED <<topics, rows, live, free, overlaps>>
    PROVE  StoreTypeOK' /\ IsFiniteSet(Opened')
  <1>1. txn \in [Clients -> TxnRecords]
    BY DEF StoreInv, TypeOK, StoreTypeOK, TxnRecords
  <1>2. txn' \in [Clients -> TxnRecords]
    BY <1>1
  <1>3. \A d \in Clients : txn'[d].open = txn[d].open
    BY <1>1
  <1>4. free' = PoolSize - Cardinality(Opened') /\ IsFiniteSet(Opened')
    BY <1>3, ConnectionsOfStatement
  <1>5. QED
    BY <1>2, <1>4 DEF StoreInv, TypeOK, StoreTypeOK, Opened, TxnRecords

\* A step that leaves the store alone and takes no client into or out of a
\* transaction, nor to a place where it would need one.
LEMMA StoreUntouched ==
    ASSUME StoreInv, UNCHANGED storeVars, TypeOK',
           NEW c \in Clients, NEW to \in Steps, pc' = [pc EXCEPT ![c] = to],
           c \in Requests => to # "deleteRow",
           c \in Removers =>
               to \in {"idle", "deleteRow", "commit", "rollback", "done"},
           to \in InTransaction <=> pc[c] \in InTransaction,
           to \in {"selectTopic", "insertTopic", "selectRow", "insertRow"} =>
               txn[c].inserting,
           to \in InTransaction \ {"commit", "rollback"} =>
               ~txn[c].row /\ txn[c].held = {}
    PROVE  StoreInv'
  <1> USE DEF storeVars
  <1>1. pc'[c] = to /\ \A d \in Clients \ {c} : pc'[d] = pc[d]
    BY DEF StoreInv, TypeOK
  <1>2. PcFits'
    BY <1>1, RequestAssumption DEF StoreInv, PcFits, Removers
  <1>3. TxnsFit'
    <2> SUFFICES ASSUME NEW d \in Clients PROVE TxnFits(d)'
      BY DEF TxnsFit
    <2>1. TxnFits(d)
      BY DEF StoreInv, TxnsFit
    <2>2. QED BY <1>1, <2>1 DEF TxnFits, SameKey
  <1>4. HeldOnce' /\ IsFiniteSet(Opened')
    BY DEF StoreInv, HeldOnce, Opened
  <1>5. QED BY <1>2, <1>3, <1>4 DEF StoreInv

\* The steps of a request outside the database, and what they do not do.
LEMMA RequestStepsKeepStore ==
    ASSUME NEW r \in Requests, StoreInv,
           \/ Post(r) \/ Ask(r) \/ Lookup(r) \/ SelectTopic(r) \/ SelectRow(r)
           \/ Announce(r) \/ Record(r)
    PROVE  StoreInv'
  <1>0. r \in Clients /\ r \notin Removers /\ KeyOf[r] \in Keys
    BY RequestAssumption, EventsAssumption DEF Removers
  <1>1. CASE Post(r)
    <2> USE <1>1 DEF Post, GoTo
    <2>1. \/ UNCHANGED <<pc, eventVars>>
          \/ /\ pc' = [pc EXCEPT ![r] = "policy"]
             /\ BeginSubscribe(r)
      OBVIOUS
    <2>2. TypeOK'
      BY <1>0, <2>1, EventsAssumption
      DEF StoreInv, TypeOK, StoreTypeOK, EventsTypeOK, eventVars, storeVars,
          BeginSubscribe, PushEvent, Steps, Running
    <2>3. CASE UNCHANGED <<pc, eventVars>>
      <3>1. pc' = [pc EXCEPT ![r] = "idle"]
        BY <2>3 DEF StoreInv, TypeOK
      <3>2. QED
        BY <1>0, <2>2, <3>1, StoreUntouched DEF Steps, Running, InTransaction
    <2>4. CASE pc' = [pc EXCEPT ![r] = "policy"]
      BY <1>0, <2>2, <2>4, StoreUntouched DEF Steps, Running, InTransaction
    <2>5. QED BY <2>1, <2>3, <2>4
  <1>2. CASE Ask(r)
    <2> USE <1>2 DEF Ask, GoTo
    <2>1. PICK to \in {"publisher", "intent", "lookup", "denied"} :
              pc' = [pc EXCEPT ![r] = to]
      OBVIOUS
    <2>2. TypeOK'
      BY <1>0, <2>1 DEF StoreInv, TypeOK, StoreTypeOK, EventsTypeOK,
                        eventVars, storeVars, Steps, Running
    <2>3. QED
      BY <1>0, <2>1, <2>2, StoreUntouched DEF Steps, Running, InTransaction
  <1>3. CASE Lookup(r)
    <2> USE <1>3 DEF Lookup, GoTo
    <2>1. PICK to \in {"beginInsert", "beginUpdate"} :
              pc' = [pc EXCEPT ![r] = to]
      OBVIOUS
    <2>2. TypeOK'
      BY <1>0, <2>1 DEF StoreInv, TypeOK, StoreTypeOK, EventsTypeOK,
                        eventVars, storeVars, Steps, Running
    <2>3. QED
      BY <1>0, <2>1, <2>2, StoreUntouched DEF Steps, Running, InTransaction
  <1>4. CASE SelectTopic(r) \/ SelectRow(r)
    <2> USE <1>4 DEF SelectTopic, SelectRow, Step, GoTo
    <2>1. PICK to \in {"selectRow", "insertTopic", "insertRow", "updateRow"} :
              pc' = [pc EXCEPT ![r] = to]
      OBVIOUS
    <2>2. TypeOK'
      BY <1>0, <2>1 DEF StoreInv, TypeOK, StoreTypeOK, EventsTypeOK,
                        eventVars, storeVars, Steps, Running, InTransaction
    <2>3. txn[r].inserting /\ ~txn[r].row /\ txn[r].held = {}
      BY <1>0 DEF StoreInv, TxnsFit, TxnFits, InTransaction
    <2>4. QED
      BY <1>0, <2>1, <2>2, <2>3, StoreUntouched
      DEF Steps, Running, InTransaction
  <1>5. CASE Announce(r)
    <2> USE <1>5 DEF Announce, Step, GoTo
    <2>1. TypeOK'
      BY <1>0 DEF StoreInv, TypeOK, StoreTypeOK, EventsTypeOK,
                  eventVars, storeVars, Steps, Running
    <2>2. QED
      BY <1>0, <2>1, StoreUntouched DEF Steps, Running, InTransaction
  <1>6. CASE Record(r)
    <2> USE <1>6 DEF Record, GoTo
    <2>1. TypeOK'
      BY <1>0, EventsAssumption, RequestAssumption
      DEF StoreInv, TypeOK, StoreTypeOK, EventsTypeOK,
          RecordOutcome, PushEvent, storeVars, Steps, Running
    <2>2. QED
      BY <1>0, <2>1, StoreUntouched DEF Steps, Running, InTransaction
  <1>7. QED BY <1>1, <1>2, <1>3, <1>4, <1>5, <1>6

LEMMA FailKeepsStore ==
    ASSUME NEW c \in Clients, StoreInv, Fail(c) PROVE StoreInv'
  <1> USE DEF Fail, GoTo
  <1>1. \/ /\ pc[c] \in InTransaction \ {"rollback"}
           /\ pc' = [pc EXCEPT ![c] = "rollback"]
        \/ /\ pc[c] \in {"intent", "lookup", "beginInsert", "beginUpdate",
                         "announce"}
           /\ pc' = [pc EXCEPT ![c] = "failed"]
    OBVIOUS
  <1>2. TypeOK'
    BY <1>1 DEF StoreInv, TypeOK, StoreTypeOK, EventsTypeOK, eventVars,
                storeVars, Steps, Running, InTransaction
  <1>3. CASE pc' = [pc EXCEPT ![c] = "rollback"] /\ pc[c] \in InTransaction
    BY <1>2, <1>3, StoreUntouched DEF Steps, Running, InTransaction
  <1>4. CASE /\ pc' = [pc EXCEPT ![c] = "failed"]
             /\ pc[c] \in {"intent", "lookup", "beginInsert", "beginUpdate",
                           "announce"}
    <2>1. c \notin Removers
      BY <1>4 DEF StoreInv, PcFits
    <2>2. QED
      BY <1>2, <1>4, <2>1, StoreUntouched DEF Steps, Running, InTransaction
  <1>5. QED BY <1>1, <1>3, <1>4

LEMMA LeaseStepKeepsStore ==
    ASSUME StoreInv, LeaseStep PROVE StoreInv'
  <1> USE DEF LeaseStep, LeaseEnds, requestVars
  <1>1. TypeOK'
    BY DEF StoreInv, TypeOK, StoreTypeOK, EventsTypeOK, eventVars
  <1>2. PcFits' /\ HeldOnce' /\ IsFiniteSet(Opened')
    BY DEF StoreInv, PcFits, HeldOnce, Opened
  <1>3. TxnsFit'
    BY DEF StoreInv, TxnsFit, TxnFits, SameKey
  <1>4. QED BY <1>1, <1>2, <1>3 DEF StoreInv

\* What a step of client c on its own transaction leaves to be shown.
LEMMA TxnStep ==
    ASSUME StoreInv, NEW c \in Clients, NEW to \in Steps,
           pc' = [pc EXCEPT ![c] = to],
           c \in Requests => to # "deleteRow",
           c \in Removers =>
               to \in {"idle", "deleteRow", "commit", "rollback", "done"},
           UNCHANGED <<eventVars, outcome, faulted, shadowed>>,
           stored' \subseteq Clients,
           StoreTypeOK', IsFiniteSet(Opened'), TxnFits(c)',
           \A d \in Clients \ {c} : /\ txn'[d] = txn[d]
                                    /\ txn[d].held \subseteq rows'
                                    /\ txn'[c].held \cap txn[d].held = {}
    PROVE  StoreInv'
  <1>1. pc'[c] = to /\ \A d \in Clients \ {c} : pc'[d] = pc[d]
    BY DEF StoreInv, TypeOK
  <1>2. TypeOK'
    BY DEF StoreInv, TypeOK, EventsTypeOK, eventVars
  <1>3. PcFits'
    BY <1>1, RequestAssumption DEF StoreInv, PcFits, Removers
  <1>4. TxnsFit'
    <2> SUFFICES ASSUME NEW d \in Clients \ {c} PROVE TxnFits(d)'
      BY DEF TxnsFit
    <2>1. TxnFits(d)
      BY DEF StoreInv, TxnsFit
    <2>2. QED BY <1>1, <2>1 DEF TxnFits, SameKey
  <1>5. HeldOnce'
    <2> SUFFICES ASSUME NEW d \in Clients, NEW e \in Clients, d # e
                 PROVE  txn'[d].held \cap txn'[e].held = {}
      BY DEF HeldOnce
    <2>1. CASE d # c /\ e # c
      BY <2>1 DEF StoreInv, HeldOnce
    <2>2. CASE d = c \/ e = c
      BY <2>2
    <2>3. QED BY <2>1, <2>2
  <1>6. QED BY <1>2, <1>3, <1>4, <1>5 DEF StoreInv

LEMMA BeginKeepsStore ==
    ASSUME NEW c \in Clients, StoreInv,
           \/ c \in Requests /\ (BeginInsert(c) \/ BeginUpdate(c))
           \/ BeginDelete(c)
    PROVE  StoreInv'
  <1>1. PICK inserting \in BOOLEAN, to \in {"selectTopic", "updateRow",
                                            "deleteRow"} :
            /\ pc' = [pc EXCEPT ![c] = to]
            /\ pc[c] \notin InTransaction
            /\ Begin(c, inserting)
            /\ to = "selectTopic" <=> inserting
            /\ IF to = "deleteRow" THEN c \in Removers ELSE c \in Requests
            /\ UNCHANGED <<eventVars, outcome, faulted, stored, shadowed>>
    <2>1. CASE c \in Requests /\ BeginInsert(c)
      BY <2>1 DEF BeginInsert, Step, GoTo, InTransaction
    <2>2. CASE c \in Requests /\ BeginUpdate(c)
      BY <2>2 DEF BeginUpdate, Step, GoTo, InTransaction
    <2>3. CASE BeginDelete(c)
      BY <2>3 DEF BeginDelete, Step, GoTo, InTransaction
    <2>4. QED BY <2>1, <2>2, <2>3
  <1>2. /\ ~txn[c].open
        /\ \A d \in Clients : TxnFits(d)
    BY <1>1 DEF StoreInv, TxnsFit, TxnFits
  <1>3. StoreTypeOK' /\ IsFiniteSet(Opened')
    BY <1>1, <1>2, ConnectionsOfBegin
  <1>4. /\ txn'[c] = Begun(inserting) /\ pc'[c] = to
        /\ \A d \in Clients \ {c} : txn'[d] = txn[d]
        /\ rows' = rows
    BY <1>1 DEF Begin, StoreInv, TypeOK, StoreTypeOK
  <1>5. TxnFits(c)'
    BY <1>1, <1>4 DEF TxnFits, Begun, NoTxn, InTransaction
  <1>6. txn'[c].held = {}
    BY <1>4 DEF Begun, NoTxn
  <1>7. \A d \in Clients \ {c} : txn[d].held \subseteq rows'
    BY <1>2, <1>4 DEF TxnFits
  <1>8. to \in Steps /\ stored' \subseteq Clients
    BY <1>1 DEF Steps, Running, InTransaction, StoreInv, TypeOK
  <1>9. QED
    BY <1>1, <1>3, <1>4, <1>5, <1>6, <1>7, <1>8, TxnStep DEF Removers

LEMMA StatementsKeepStore ==
    ASSUME NEW c \in Clients, StoreInv,
           \/ c \in Requests /\ (AddTopic(c) \/ AddRow(c) \/ UpdateRows(c))
           \/ DeleteRows(c)
    PROVE  StoreInv'
  <1>1. \A d \in Clients : TxnFits(d)
    BY DEF StoreInv, TxnsFit
  <1>2. CASE c \in Requests /\ AddTopic(c)
    <2>1. CASE Step(c, "insertTopic", "selectRow") /\ InsertTopic(c)
      <3> USE <2>1 DEF Step, GoTo, InsertTopic
      <3>1. /\ txn'[c] = [txn[c] EXCEPT !.topic = TRUE]
            /\ pc'[c] = "selectRow"
            /\ \A d \in Clients \ {c} : txn'[d] = txn[d]
        BY DEF StoreInv, TypeOK, StoreTypeOK
      <3>2. txn[c] \in TxnRecords
        BY DEF StoreInv, TypeOK, StoreTypeOK, TxnRecords
      <3>3. /\ [txn[c] EXCEPT !.topic = TRUE] \in TxnRecords
            /\ [txn[c] EXCEPT !.topic = TRUE].open = txn[c].open
        BY <3>2, RecordsTyped DEF TxnRecords
      <3>4. StoreTypeOK' /\ IsFiniteSet(Opened')
        BY <3>3, StatementTyped
      <3>5. TxnFits(c)'
        BY <1>1, <1>2, <3>1
        DEF TxnFits, SameKey, InTransaction, StoreInv, TypeOK, StoreTypeOK
      <3>6. \A d \in Clients \ {c} : /\ txn[d].held \subseteq rows'
                                     /\ txn'[c].held \cap txn[d].held = {}
        BY <1>1, <3>1 DEF StoreInv, HeldOnce, TxnFits, TypeOK, StoreTypeOK
      <3>7. QED
        BY <1>2, <3>1, <3>3, <3>4, <3>5, <3>6, TxnStep
        DEF Removers, Steps, Running, InTransaction, StoreInv, TypeOK
    <2>2. CASE Step(c, "insertTopic", "rollback") /\ UNCHANGED storeVars
      <3> USE <2>2 DEF Step, GoTo
      <3>1. TypeOK'
        BY DEF StoreInv, TypeOK, StoreTypeOK, EventsTypeOK, eventVars,
               storeVars, Steps, Running, InTransaction
      <3>2. QED
        BY <1>2, <3>1, StoreUntouched
        DEF Steps, Running, InTransaction, Removers
    <2>3. QED BY <1>2, <2>1, <2>2 DEF AddTopic
  <1>3. CASE c \in Requests /\ AddRow(c)
    <2> USE <1>3 DEF AddRow, Step, GoTo, InsertRow
    <2>1. /\ txn'[c] = [txn[c] EXCEPT !.row = TRUE]
          /\ pc'[c] = "commit"
          /\ \A d \in Clients \ {c} : txn'[d] = txn[d]
      BY DEF StoreInv, TypeOK, StoreTypeOK
    <2>2. txn[c] \in TxnRecords
      BY DEF StoreInv, TypeOK, StoreTypeOK, TxnRecords
    <2>3. /\ [txn[c] EXCEPT !.row = TRUE] \in TxnRecords
          /\ [txn[c] EXCEPT !.row = TRUE].open = txn[c].open
      BY <2>2, RecordsTyped DEF TxnRecords
    <2>4. StoreTypeOK' /\ IsFiniteSet(Opened')
      BY <2>3, StatementTyped
    <2>5. TxnFits(c)'
      BY <1>1, <2>1
      DEF TxnFits, SameKey, InTransaction, StoreInv, TypeOK, StoreTypeOK
    <2>6. \A d \in Clients \ {c} : /\ txn[d].held \subseteq rows'
                                   /\ txn'[c].held \cap txn[d].held = {}
      BY <1>1, <2>1 DEF StoreInv, HeldOnce, TxnFits, TypeOK, StoreTypeOK
    <2>7. QED
      BY <2>1, <2>3, <2>4, <2>5, <2>6, TxnStep
      DEF Removers, Steps, Running, InTransaction, StoreInv, TypeOK
  <1>4. ASSUME NEW deletes \in BOOLEAN, WriteRows(c, deletes),
               Step(c, IF deletes THEN "deleteRow" ELSE "updateRow", "commit"),
               ~deletes => c \in Requests
        PROVE  StoreInv'
    <2> USE <1>4 DEF Step, GoTo, WriteRows
    <2>0. c \in Removers <=> deletes
      BY RequestAssumption DEF StoreInv, PcFits, Removers
    <2>1. /\ txn'[c] = [txn[c] EXCEPT !.held = RowsOf(c), !.deletes = deletes]
          /\ pc'[c] = "commit"
          /\ \A d \in Clients \ {c} : txn'[d] = txn[d]
      BY DEF StoreInv, TypeOK, StoreTypeOK
    <2>2. txn[c] \in TxnRecords /\ RowsOf(c) \subseteq Clients
      BY DEF StoreInv, TypeOK, StoreTypeOK, TxnRecords, RowsOf
    <2>3. LET t == [txn[c] EXCEPT !.held = RowsOf(c), !.deletes = deletes]
          IN  t \in TxnRecords /\ t.open = txn[c].open
      BY <2>2, RecordsTyped DEF TxnRecords
    <2>4. StoreTypeOK' /\ IsFiniteSet(Opened')
      <3>1. txn' = [txn EXCEPT ![c] =
                        [txn[c] EXCEPT !.held = RowsOf(c), !.deletes = deletes]]
        OBVIOUS
      <3>2. QED BY <2>3, <3>1, StatementTyped
    <2>5. TxnFits(c)'
      BY <1>1, <2>0, <2>1
      DEF TxnFits, SameKey, RowsOf, InTransaction, StoreInv, TypeOK,
          StoreTypeOK
    <2>6. \A d \in Clients \ {c} : /\ txn[d].held \subseteq rows'
                                   /\ txn'[c].held \cap txn[d].held = {}
      BY <1>1, <2>1 DEF TxnFits, StoreInv, TypeOK, StoreTypeOK
    <2>7. QED
      BY <2>0, <2>1, <2>3, <2>4, <2>5, <2>6, TxnStep
      DEF Removers, Steps, Running, InTransaction, StoreInv, TypeOK
  <1>5. CASE c \in Requests /\ UpdateRows(c)
    BY <1>4, <1>5 DEF UpdateRows
  <1>6. CASE DeleteRows(c)
    BY <1>4, <1>6 DEF DeleteRows
  <1>7. QED BY <1>2, <1>3, <1>5, <1>6

LEMMA EndsKeepStore ==
    ASSUME NEW c \in Clients, StoreInv, CommitIt(c) \/ RollItBack(c)
    PROVE  StoreInv'
  <1>1. \A d \in Clients : TxnFits(d)
    BY DEF StoreInv, TxnsFit
  <1>2. PICK to \in {"announce", "failed", "done"} :
            /\ pc[c] \in {"commit", "rollback"}
            /\ pc' = [pc EXCEPT ![c] = to]
            /\ IF c \in Requests THEN to # "done" ELSE to = "done"
            /\ UNCHANGED <<eventVars, outcome, faulted, shadowed>>
            /\ stored' \subseteq Clients
    BY DEF CommitIt, RollItBack, Step, GoTo, StoreInv, TypeOK
  <1>3. txn' = [txn EXCEPT ![c] = NoTxn] /\ free' = free + 1
    BY DEF CommitIt, RollItBack, Commit, Rollback
  <1>4. txn[c].open
    BY <1>1, <1>2 DEF TxnFits, InTransaction
  <1>5. free' = PoolSize - Cardinality(Opened') /\ IsFiniteSet(Opened')
    BY <1>3, <1>4, ConnectionsOfEnd
  <1>6. /\ txn'[c] = NoTxn /\ pc'[c] = to
        /\ \A d \in Clients \ {c} : txn'[d] = txn[d]
    BY <1>2, <1>3 DEF StoreInv, TypeOK, StoreTypeOK
  <1>7. TxnFits(c)'
    BY <1>2, <1>6 DEF TxnFits, NoTxn, InTransaction
  <1>8. /\ topics' \in SUBSET Topics /\ rows' \in SUBSET Clients
        /\ live' \in SUBSET rows'
        /\ overlaps' = overlaps
        /\ \A d \in Clients \ {c} : txn[d].held \subseteq rows'
    <2>1. CASE CommitIt(c)
      <3> USE <2>1 DEF CommitIt, Commit
      <3>1. \A d \in Clients \ {c} : txn[d].held \cap txn[c].held = {}
        BY DEF StoreInv, HeldOnce
      <3>2. \A d \in Clients : txn[d].held \subseteq rows
        BY <1>1 DEF TxnFits
      <3>3. topics' \in SUBSET Topics /\ rows' \in SUBSET Clients
        <4>1. topics \subseteq Topics /\ rows \subseteq Clients
          BY DEF StoreInv, TypeOK, StoreTypeOK
        <4>2. TopicOf[c] \in Topics
          BY StoreAssumption
        <4>3. QED BY <4>1, <4>2
      <3>4. live' \in SUBSET rows'
        <4>1. live \subseteq rows /\ txn[c].held \subseteq rows
          BY <3>2 DEF StoreInv, TypeOK, StoreTypeOK
        <4>2. QED BY <4>1
      <3>5. \A d \in Clients \ {c} : txn[d].held \subseteq rows'
        BY <3>1, <3>2
      <3>6. QED BY <3>3, <3>4, <3>5
    <2>2. CASE RollItBack(c)
      BY <1>1, <2>2
      DEF RollItBack, Rollback, StoreInv, TypeOK, StoreTypeOK, TxnFits
    <2>3. QED BY <2>1, <2>2
  <1>9. StoreTypeOK'
    BY <1>3, <1>5, <1>8 DEF StoreInv, TypeOK, StoreTypeOK, NoTxn, Opened
  <1>10. to \in Steps /\ txn'[c].held = {}
    BY <1>6 DEF Steps, Running, NoTxn
  <1>11. QED
    BY <1>2, <1>5, <1>6, <1>7, <1>8, <1>9, <1>10, TxnStep DEF Removers

LEMMA StoreInvHolds == Spec => []StoreInv
  <1>1. Init => StoreInv
    <2> SUFFICES ASSUME Init PROVE StoreInv
      OBVIOUS
    <2> USE DEF Init, StoreInit, EventsInit
    <2>1. Opened = {} /\ IsFiniteSet(Opened) /\ Cardinality(Opened) = 0
      <3>1. Opened = {}
        BY DEF Opened, NoTxn
      <3>2. QED BY <3>1, FS_EmptySet
    <2>2. TypeOK
      BY <2>1, StoreAssumption, EventsAssumption
      DEF TypeOK, StoreTypeOK, EventsTypeOK, Opened, NoTxn, Steps
    <2>3. PcFits /\ TxnsFit /\ HeldOnce
      BY RequestAssumption
      DEF PcFits, Removers, TxnsFit, TxnFits, HeldOnce, NoTxn, InTransaction
    <2>4. QED BY <2>1, <2>2, <2>3 DEF StoreInv
  <1>2. StoreInv /\ [Next]_vars => StoreInv'
    <2> SUFFICES ASSUME StoreInv, [Next]_vars PROVE StoreInv'
      OBVIOUS
    <2>1. ASSUME NEW c \in Clients, Continue(c) PROVE StoreInv'
      BY <2>1, RequestStepsKeepStore, BeginKeepsStore, StatementsKeepStore,
         EndsKeepStore DEF Continue
    <2>2. ASSUME NEW c \in Clients, BeginDelete(c) \/ Fail(c) PROVE StoreInv'
      BY <2>2, BeginKeepsStore, FailKeepsStore
    <2>3. ASSUME NEW r \in Requests, Post(r) PROVE StoreInv'
      BY <2>3, RequestStepsKeepStore
    <2>4. CASE UNCHANGED vars
      BY <2>4 DEF vars, storeVars, eventVars, requestVars, StoreInv, TypeOK,
                  StoreTypeOK, EventsTypeOK, PcFits, TxnsFit, TxnFits,
                  HeldOnce, Opened, SameKey
    <2>5. QED
      BY <2>1, <2>2, <2>3, <2>4, LeaseStepKeepsStore DEF Next
  <1>3. QED BY <1>1, <1>2, PTL DEF Spec
-----------------------------------------------------------------------------
(* Duplicate rows.                                                         *)

LEMMA PairsCommute == \A x, y : {x, y} = {y, x}
  OBVIOUS

\* A step that commits no row and lets nobody on to insert one.
LEMMA NoNewInsert ==
    ASSUME RaceInv, rows' \subseteq rows, overlaps \subseteq overlaps',
           \A d \in Clients :
               /\ txn'[d].inserting => txn[d].inserting
               /\ pc'[d] = "insertRow" \/ txn'[d].row =>
                      pc[d] = "insertRow" \/ txn[d].row
    PROVE  RaceInv'
  BY DEF RaceInv, OverlapsNoted, InsertsRace, DuplicatesNeedRace, SameKey

LEMMA BeginKeepsRaces ==
    ASSUME NEW c \in Clients, StoreInv, RaceInv,
           \/ c \in Requests /\ (BeginInsert(c) \/ BeginUpdate(c))
           \/ BeginDelete(c)
    PROVE  RaceInv'
  <1>1. PICK inserting \in BOOLEAN, to \in {"selectTopic", "updateRow",
                                            "deleteRow"} :
            Begin(c, inserting) /\ pc' = [pc EXCEPT ![c] = to]
    BY DEF BeginInsert, BeginUpdate, BeginDelete, Step, GoTo
  <1>2. /\ txn'[c].inserting = inserting /\ ~txn'[c].row /\ pc'[c] = to
        /\ \A d \in Clients \ {c} : txn'[d] = txn[d] /\ pc'[d] = pc[d]
        /\ rows' = rows /\ overlaps \subseteq overlaps'
        /\ inserting => \A d \in Clients \ {c} :
               txn[d].inserting => {c, d} \in overlaps'
    BY <1>1 DEF Begin, Begun, NoTxn, StoreInv, TypeOK, StoreTypeOK
  <1>3. OverlapsNoted'
    BY <1>2, PairsCommute DEF RaceInv, OverlapsNoted
  <1>4. InsertsRace' /\ DuplicatesNeedRace'
    BY <1>1, <1>2 DEF RaceInv, InsertsRace, DuplicatesNeedRace, SameKey
  <1>5. QED BY <1>3, <1>4 DEF RaceInv

LEMMA SelectRowKeepsRaces ==
    ASSUME NEW r \in Requests, StoreInv, RaceInv, SelectRow(r)
    PROVE  RaceInv'
  <1> USE DEF SelectRow, Step, GoTo, storeVars
  <1>1. OverlapsNoted' /\ DuplicatesNeedRace'
    BY DEF RaceInv, OverlapsNoted, DuplicatesNeedRace, SameKey
  <1>2. InsertsRace'
    <2> SUFFICES ASSUME NEW c \in rows, NEW d \in Clients, c # d,
                        SameKey(c, d), pc'[d] = "insertRow" \/ txn[d].row
                 PROVE  {c, d} \in overlaps
      BY DEF InsertsRace, SameKey
    <2>1. CASE pc[d] = "insertRow" \/ txn[d].row
      BY <2>1 DEF RaceInv, InsertsRace
    <2>2. CASE pc[d] # "insertRow" /\ pc'[d] = "insertRow"
      <3>1. d = r
        BY <2>2 DEF StoreInv, TypeOK
      <3>2. c \in RowsOf(r)
        BY <3>1 DEF RowsOf, SameKey
      <3>3. QED
        BY <2>2, <3>1, <3>2 DEF StoreInv, TypeOK
    <2>3. QED BY <2>1, <2>2
  <1>3. QED BY <1>1, <1>2 DEF RaceInv

LEMMA CommitKeepsRaces ==
    ASSUME NEW c \in Clients, StoreInv, RaceInv, CommitIt(c)
    PROVE  RaceInv'
  <1> USE DEF CommitIt, Commit, GoTo
  <1>1. /\ ~txn'[c].inserting /\ ~txn'[c].row /\ pc'[c] # "insertRow"
        /\ \A d \in Clients \ {c} : txn'[d] = txn[d] /\ pc'[d] = pc[d]
        /\ rows' \subseteq rows \cup (IF txn[c].row THEN {c} ELSE {})
        /\ overlaps' = overlaps
    BY DEF StoreInv, TypeOK, StoreTypeOK, NoTxn
  <1>2. \A d \in Clients : txn[d].row \/ pc[d] = "insertRow" =>
                               txn[d].inserting
    BY DEF StoreInv, TxnsFit, TxnFits
  <1>3. OverlapsNoted'
    BY <1>1 DEF RaceInv, OverlapsNoted
  <1>4. ASSUME NEW d \in Clients \ {c}, pc[d] = "insertRow" \/ txn[d].row,
               txn[c].row
        PROVE  {c, d} \in overlaps
    BY <1>2, <1>4 DEF RaceInv, OverlapsNoted
  <1>5. InsertsRace'
    BY <1>1, <1>4 DEF RaceInv, InsertsRace, SameKey
  <1>6. DuplicatesNeedRace'
    <2> SUFFICES ASSUME NEW d \in rows', NEW e \in rows', d # e, SameKey(d, e)
                 PROVE  {d, e} \in overlaps
      BY <1>1 DEF DuplicatesNeedRace, SameKey
    <2>1. CASE d \in rows /\ e \in rows
      BY <2>1 DEF RaceInv, DuplicatesNeedRace
    <2>2. CASE d \in rows /\ e = c /\ txn[c].row
      BY <2>2 DEF RaceInv, InsertsRace
    <2>3. CASE e \in rows /\ d = c /\ txn[c].row
      BY <2>3, PairsCommute DEF RaceInv, InsertsRace, SameKey
    <2>4. QED BY <1>1, <2>1, <2>2, <2>3
  <1>7. QED BY <1>3, <1>5, <1>6 DEF RaceInv

LEMMA RaceInvHolds == Spec => []RaceInv
  <1>1. Init => RaceInv
    BY DEF Init, StoreInit, NoTxn, RaceInv, OverlapsNoted, InsertsRace,
           DuplicatesNeedRace
  <1>2. StoreInv /\ RaceInv /\ [Next]_vars => RaceInv'
    <2> SUFFICES ASSUME StoreInv, RaceInv, [Next]_vars PROVE RaceInv'
      OBVIOUS
    <2>0. \A d \in Clients : pc[d] = "insertRow" \/ txn[d].row =>
                                 txn[d].inserting
      BY DEF StoreInv, TxnsFit, TxnFits
    <2>1. ASSUME NEW r \in Requests,
                 \/ Post(r) \/ Ask(r) \/ Lookup(r) \/ SelectTopic(r)
                 \/ Announce(r) \/ Record(r)
          PROVE  RaceInv'
      <3>1. \A d \in Clients : pc'[d] = "insertRow" => pc[d] = "insertRow"
        BY <2>1 DEF Post, Ask, Lookup, SelectTopic, Announce, Record, Step,
                    GoTo, StoreInv, TypeOK
      <3>2. UNCHANGED storeVars
        BY <2>1 DEF Post, Ask, Lookup, SelectTopic, Announce, Record
      <3>3. QED BY <3>1, <3>2, NoNewInsert DEF storeVars
    <2>2. ASSUME NEW c \in Clients,
                 \/ c \in Requests /\ \/ AddTopic(c) \/ AddRow(c)
                                      \/ UpdateRows(c)
                 \/ DeleteRows(c) \/ RollItBack(c) \/ Fail(c)
          PROVE  RaceInv'
      <3>1. /\ \A d \in Clients : pc'[d] = "insertRow" => pc[d] = "insertRow"
            /\ rows' = rows /\ overlaps' = overlaps
        BY <2>2 DEF AddTopic, AddRow, UpdateRows, DeleteRows, RollItBack, Fail,
                    Step, GoTo, InsertTopic, InsertRow, WriteRows, Rollback,
                    storeVars, StoreInv, TypeOK
      <3>2. \A d \in Clients : /\ txn'[d].inserting => txn[d].inserting
                               /\ txn'[d].row => \/ pc[d] = "insertRow"
                                                 \/ txn[d].row
        BY <2>2 DEF AddTopic, AddRow, UpdateRows, DeleteRows, RollItBack, Fail,
                    Step, GoTo, InsertTopic, InsertRow, WriteRows, Rollback,
                    storeVars, NoTxn, StoreInv, TypeOK, StoreTypeOK
      <3>3. QED BY <3>1, <3>2, NoNewInsert
    <2>3. CASE LeaseStep \/ UNCHANGED vars
      <3>1. UNCHANGED <<rows, overlaps, txn, pc>>
        BY <2>3 DEF LeaseStep, LeaseEnds, vars, storeVars, requestVars
      <3>2. QED BY <3>1, NoNewInsert
    <2>4. ASSUME NEW c \in Clients, Continue(c) PROVE RaceInv'
      BY <2>1, <2>2, <2>4, BeginKeepsRaces, SelectRowKeepsRaces,
         CommitKeepsRaces DEF Continue
    <2>5. QED
      BY <2>1, <2>2, <2>3, <2>4, BeginKeepsRaces DEF Next
  <1>3. QED BY <1>1, <1>2, StoreInvHolds, PTL DEF Spec
-----------------------------------------------------------------------------
(* What is reported as activated was written.                              *)

\* What a step may do to what StoredInv speaks of.
LEMMA FoundStays ==
    ASSUME StoredInv, stored \subseteq stored',
           \A d \in Removers : pc[d] = "done" => pc'[d] = "done",
           \A r \in Requests :
               /\ RowsOf(r) # {} => RowsOf(r)' # {} \/ Removed(r)'
               /\ pc'[r] \in {"beginUpdate", "updateRow"} =>
                      pc[r] \in {"beginUpdate", "updateRow"} \/ RowsOf(r) # {}
               /\ pc'[r] = "commit" =>
                      \/ pc[r] = "commit" /\ txn'[r] = txn[r]
                      \/ pc[r] = "updateRow" /\ txn'[r].held = RowsOf(r)
                      \/ txn'[r].row
               /\ pc'[r] \in {"announce", "activated"} =>
                      \/ pc[r] \in {"announce", "activated"}
                      \/ /\ pc[r] = "commit"
                         /\ txn[r].row \/ txn[r].held # {} => r \in stored'
               /\ outcome'[r] = "activated" =>
                      outcome[r] = "activated" \/ pc[r] = "activated"
    PROVE  StoredInv'
  <1>1. \A r \in Requests : Removed(r) => Removed(r)'
    BY DEF Removed, SameKey
  <1>2. ASSUME NEW r \in Requests
        PROVE  /\ pc'[r] \in {"beginUpdate", "updateRow"} =>
                      RowsOf(r)' # {} \/ Removed(r)'
               /\ pc'[r] = "commit" =>
                      txn'[r].row \/ txn'[r].held # {} \/ Removed(r)'
    BY <1>1 DEF StoredInv, FoundIsWritten
  <1>3. ASSUME NEW r \in Requests, pc'[r] \in {"announce", "activated"}
        PROVE  r \in stored' \/ Removed(r)'
    BY <1>1, <1>3 DEF StoredInv, FoundIsWritten
  <1>4. ASSUME NEW r \in Requests, outcome'[r] = "activated"
        PROVE  r \in stored' \/ Removed(r)'
    BY <1>1, <1>4 DEF StoredInv, FoundIsWritten, ActivatedIsStored, Removed
  <1>5. QED
    BY <1>2, <1>3, <1>4
    DEF StoredInv, FoundIsWritten, ActivatedIsStored, Removed

LEMMA RequestsKeepStored ==
    ASSUME NEW r \in Requests, StoreInv, StoredInv,
           \/ Post(r) \/ Ask(r) \/ Lookup(r) \/ BeginInsert(r)
           \/ BeginUpdate(r) \/ SelectTopic(r) \/ AddTopic(r) \/ SelectRow(r)
           \/ AddRow(r) \/ UpdateRows(r) \/ Announce(r) \/ Record(r)
    PROVE  StoredInv'
  <1>0. /\ r \in Clients /\ r \notin Removers /\ Removers \subseteq Clients
        /\ pc \in [Clients -> Steps]
        /\ outcome \in [Requests -> {"none", "denied", "failed", "activated"}]
        /\ txn \in [Clients -> TxnRecords]
    BY RequestAssumption
    DEF Removers, StoreInv, TypeOK, StoreTypeOK, TxnRecords
  <1>1. CASE \/ Post(r) \/ Ask(r) \/ Lookup(r) \/ SelectTopic(r)
             \/ SelectRow(r) \/ Announce(r) \/ Record(r)
    <2>1. /\ UNCHANGED storeVars /\ stored' = stored
          /\ \/ pc' = pc
             \/ \E to \in Steps \ {"updateRow", "commit", "announce"} :
                    /\ pc' = [pc EXCEPT ![r] = to]
                    /\ to = "beginUpdate" => RowsOf(r) # {}
                    /\ to = "activated" => pc[r] = "announce"
             \/ pc' = [pc EXCEPT ![r] = "updateRow"] /\ RowsOf(r) # {}
      <3>1. CASE Post(r)
        BY <3>1 DEF Post, GoTo, Steps, Running
      <3>2. CASE Ask(r)
        <4>1. PICK to \in {"publisher", "intent", "lookup", "denied"} :
                  pc' = [pc EXCEPT ![r] = to]
          BY <3>2 DEF Ask, GoTo
        <4>2. to \in Steps \ {"updateRow", "commit", "announce"}
          BY DEF Steps, Running
        <4>3. QED BY <3>2, <4>1, <4>2 DEF Ask
      <3>3. CASE Lookup(r)
        <4>1. PICK to \in {"beginInsert", "beginUpdate"} :
                  /\ pc' = [pc EXCEPT ![r] = to]
                  /\ to = "beginUpdate" => RowsOf(r) # {}
          BY <3>3 DEF Lookup, GoTo, ActiveRowsOf
        <4>2. to \in Steps \ {"updateRow", "commit", "announce"}
          BY DEF Steps, Running
        <4>3. QED BY <3>3, <4>1, <4>2 DEF Lookup
      <3>4. CASE SelectTopic(r)
        <4>1. PICK to \in {"selectRow", "insertTopic"} :
                  pc' = [pc EXCEPT ![r] = to]
          BY <3>4 DEF SelectTopic, Step, GoTo
        <4>2. to \in Steps \ {"updateRow", "commit", "announce"}
          BY DEF Steps, Running, InTransaction
        <4>3. QED BY <3>4, <4>1, <4>2 DEF SelectTopic, Step
      <3>5. CASE SelectRow(r)
        <4>1. \/ pc' = [pc EXCEPT ![r] = "insertRow"]
              \/ pc' = [pc EXCEPT ![r] = "updateRow"] /\ RowsOf(r) # {}
          BY <3>5 DEF SelectRow, Step, GoTo
        <4>2. "insertRow" \in Steps \ {"updateRow", "commit", "announce"}
          BY DEF Steps, Running, InTransaction
        <4>3. QED BY <3>5, <4>1, <4>2 DEF SelectRow, Step
      <3>6. CASE Announce(r)
        BY <3>6 DEF Announce, Step, GoTo, Steps, Running
      <3>7. CASE Record(r)
        <4>1. "done" \in Steps \ {"updateRow", "commit", "announce"}
          BY DEF Steps
        <4>2. QED BY <3>7, <4>1 DEF Record, GoTo
      <3>8. QED BY <1>1, <3>1, <3>2, <3>3, <3>4, <3>5, <3>6, <3>7
    <2>2. \A s \in Requests : RowsOf(s)' = RowsOf(s)
      BY <2>1 DEF RowsOf, SameKey, storeVars
    <2>3. \/ outcome' = outcome
          \/ outcome' = [outcome EXCEPT ![r] = pc[r]]
      BY <1>1 DEF Post, Ask, Lookup, SelectTopic, SelectRow, Announce, Record,
                  Step
    <2>4. QED
      BY <1>0, <2>1, <2>2, <2>3, RequestAssumption, FoundStays DEF storeVars
  <1>2. CASE \/ BeginInsert(r) \/ BeginUpdate(r) \/ AddTopic(r) \/ AddRow(r)
             \/ UpdateRows(r)
    <2>1. /\ rows' = rows /\ stored' = stored /\ outcome' = outcome
          /\ \A c \in Clients \ {r} : pc'[c] = pc[c] /\ txn'[c] = txn[c]
      BY <1>0, <1>2
      DEF BeginInsert, BeginUpdate, AddTopic, AddRow, UpdateRows, Step, GoTo,
          Begin, InsertTopic, InsertRow, WriteRows, storeVars
    <2>2. \A s \in Requests : RowsOf(s)' = RowsOf(s)
      BY <2>1 DEF RowsOf, SameKey
    <2>3. \/ pc'[r] \in {"selectTopic", "selectRow", "rollback"}
          \/ pc'[r] = "updateRow" /\ pc[r] = "beginUpdate"
          \/ pc'[r] = "commit" /\ txn'[r].row
          \/ /\ pc'[r] = "commit" /\ pc[r] = "updateRow"
             /\ txn'[r].held = RowsOf(r)
      <3>1. CASE AddRow(r)
        BY <1>0, <3>1 DEF AddRow, InsertRow, Step, GoTo, TxnRecords
      <3>2. CASE UpdateRows(r)
        BY <1>0, <3>2 DEF UpdateRows, WriteRows, Step, GoTo, TxnRecords
      <3>3. CASE BeginInsert(r) \/ BeginUpdate(r) \/ AddTopic(r)
        BY <1>0, <3>3 DEF BeginInsert, BeginUpdate, AddTopic, Step, GoTo
      <3>4. QED BY <1>2, <3>1, <3>2, <3>3
    <2>4. QED
      BY <1>0, <2>1, <2>2, <2>3, RequestAssumption, FoundStays
  <1>3. QED BY <1>1, <1>2

LEMMA CommitKeepsStored ==
    ASSUME NEW c \in Clients, StoreInv, StoredInv, CommitIt(c)
    PROVE  StoredInv'
  <1> USE DEF CommitIt, Commit, GoTo
  <1>0. /\ Removers \subseteq Clients /\ Removers \cap Requests = {}
        /\ c \in Requests \/ c \in Removers
        /\ pc \in [Clients -> Steps]
    BY RequestAssumption DEF Removers, StoreInv, TypeOK
  <1>1. /\ pc'[c] = IF c \in Requests THEN "announce" ELSE "done"
        /\ \A d \in Clients \ {c} : pc'[d] = pc[d] /\ txn'[d] = txn[d]
        /\ stored \subseteq stored'
        /\ txn[c].row \/ txn[c].held # {} => c \in stored'
    BY <1>0 DEF StoreInv, TypeOK, StoreTypeOK
  <1>2. ASSUME NEW r \in Requests, RowsOf(r) # {}
        PROVE  RowsOf(r)' # {} \/ Removed(r)'
    <2>1. PICK d \in rows : SameKey(r, d)
      BY <1>2 DEF RowsOf
    <2>2. CASE d \in rows'
      BY <2>1, <2>2 DEF RowsOf, SameKey
    <2>3. CASE d \notin rows'
      <3>1. d \in txn[c].held /\ txn[c].deletes
        BY <2>3
      <3>2. c \in Removers /\ SameKey(c, d)
        BY <3>1 DEF StoreInv, TxnsFit, TxnFits
      <3>3. SameKey(r, c) /\ pc'[c] = "done"
        BY <1>0, <1>1, <2>1, <3>2 DEF SameKey
      <3>4. QED BY <3>2, <3>3 DEF Removed, SameKey
    <2>4. QED BY <2>2, <2>3
  <1>3. QED
    BY <1>0, <1>1, <1>2, RequestAssumption, FoundStays

LEMMA OthersKeepStored ==
    ASSUME NEW c \in Clients, StoreInv, StoredInv,
           BeginDelete(c) \/ DeleteRows(c) \/ RollItBack(c) \/ Fail(c)
    PROVE  StoredInv'
  <1> USE DEF BeginDelete, DeleteRows, RollItBack, Fail, Step, GoTo, Begin,
              WriteRows, Rollback, storeVars
  <1>0. /\ Removers \subseteq Clients /\ Removers \cap Requests = {}
        /\ pc \in [Clients -> Steps] /\ txn \in [Clients -> TxnRecords]
        /\ \A r \in Requests : pc[r] # "deleteRow"
        /\ \A d \in Removers : pc[d] = "done" => pc[d] \notin InTransaction
    BY RequestAssumption
    DEF Removers, StoreInv, TypeOK, StoreTypeOK, PcFits, InTransaction,
        TxnRecords
  <1>1. /\ rows' = rows /\ stored' = stored /\ outcome' = outcome
        /\ \A d \in Clients \ {c} : pc'[d] = pc[d] /\ txn'[d] = txn[d]
    BY <1>0
  <1>2. \A r \in Requests : RowsOf(r)' = RowsOf(r)
    BY <1>1 DEF RowsOf, SameKey
  <1>3. /\ pc[c] # "done"
        /\ c \in Requests => pc'[c] \in {"rollback", "failed"}
    BY <1>0 DEF InTransaction, Removers
  <1>4. QED
    BY <1>0, <1>1, <1>2, <1>3, RequestAssumption, FoundStays

LEMMA StoredInvHolds == Spec => []StoredInv
  <1>1. Init => StoredInv
    BY RequestAssumption DEF Init, StoredInv, FoundIsWritten, ActivatedIsStored
  <1>2. StoreInv /\ StoredInv /\ [Next]_vars => StoredInv'
    <2> SUFFICES ASSUME StoreInv, StoredInv, [Next]_vars PROVE StoredInv'
      OBVIOUS
    <2>1. CASE LeaseStep \/ UNCHANGED vars
      <3>1. UNCHANGED <<rows, txn, pc, outcome, stored>>
        BY <2>1 DEF LeaseStep, LeaseEnds, vars, storeVars, requestVars
      <3>2. \A r \in Requests : RowsOf(r)' = RowsOf(r)
        BY <3>1 DEF RowsOf, SameKey
      <3>3. QED BY <3>1, <3>2, FoundStays
    <2>2. ASSUME NEW c \in Clients, Continue(c) PROVE StoredInv'
      BY <2>2, RequestsKeepStored, CommitKeepsStored, OthersKeepStored
      DEF Continue
    <2>3. QED
      BY <2>1, <2>2, RequestsKeepStored, OthersKeepStored DEF Next
  <1>3. QED BY <1>1, <1>2, StoreInvHolds, PTL DEF Spec
-----------------------------------------------------------------------------
(* Why a request fails.                                                    *)

\* What a step may do to what FailureInv speaks of.
LEMMA FailureExplained ==
    ASSUME FailureInv,
           overlaps \subseteq overlaps', faulted \subseteq faulted',
           \A r \in Requests :
               /\ pc'[r] = "insertTopic" /\ TopicOf[r] \in topics' =>
                      \/ pc[r] = "insertTopic" /\ TopicOf[r] \in topics
                      \/ Beaten(r)
               /\ pc'[r] \in {"rollback", "failed"} /\ r \notin faulted' =>
                      \/ pc[r] \in {"rollback", "failed"}
                      \/ pc[r] = "insertTopic" /\ TopicOf[r] \in topics
               /\ r \in stored' =>
                      \/ pc'[r] = "announce"
                      \/ r \in stored /\ pc'[r] = pc[r]
                      \/ /\ r \in stored
                         /\ pc[r] \in {"announce", "activated"} =>
                                pc'[r] \in {"activated", "done"}
                                    \/ r \in faulted'
                         /\ pc[r] # "done"
               /\ pc[r] = "done" => pc'[r] = "done"
               /\ \/ outcome'[r] = outcome[r]
                  \/ pc'[r] = "done" /\ outcome'[r] = pc[r]
               /\ outcome[r] # "none" => (r \in stored' => r \in stored)
               /\ pc[r] = "failed" => (r \in stored' => r \in stored)
    PROVE  FailureInv'
  <1>1. \A r \in Requests : Beaten(r) => Beaten(r)'
    BY DEF Beaten
  <1>2. FailureKnown'
    <2> SUFFICES ASSUME NEW r \in Requests
                 PROVE  /\ pc'[r] = "insertTopic" /\ TopicOf[r] \in topics' =>
                               Beaten(r)'
                        /\ /\ pc'[r] \in {"rollback", "failed"}
                           /\ r \notin faulted'
                           => Beaten(r)'
                        /\ r \in stored' =>
                               \/ pc'[r] \in {"announce", "activated", "done"}
                               \/ r \in faulted'
                        /\ outcome'[r] # "none" => pc'[r] = "done"
      BY DEF FailureKnown
    <2>1. /\ pc[r] = "insertTopic" /\ TopicOf[r] \in topics => Beaten(r)
          /\ pc[r] \in {"rollback", "failed"} /\ r \notin faulted => Beaten(r)
          /\ r \in stored => \/ pc[r] \in {"announce", "activated", "done"}
                             \/ r \in faulted
          /\ outcome[r] # "none" => pc[r] = "done"
      BY DEF FailureInv, FailureKnown
    <2>2. QED BY <1>1, <2>1
  <1>3. FailureNeedsRace'
    <2> SUFFICES ASSUME NEW r \in Requests, outcome'[r] = "failed",
                        r \notin faulted'
                 PROVE  r \notin stored' /\ Beaten(r)'
      BY DEF FailureNeedsRace, Beaten
    <2>1. CASE outcome[r] = "failed"
      BY <1>1, <2>1 DEF FailureInv, FailureNeedsRace, Beaten
    <2>2. CASE pc[r] = "failed"
      BY <1>1, <2>2 DEF FailureInv, FailureKnown
    <2>3. QED BY <2>1, <2>2
  <1>4. QED BY <1>2, <1>3 DEF FailureInv

LEMMA RequestsKeepFailures ==
    ASSUME NEW r \in Requests, StoreInv, FailureInv,
           \/ Post(r) \/ Ask(r) \/ Lookup(r) \/ BeginInsert(r)
           \/ BeginUpdate(r) \/ SelectTopic(r) \/ AddTopic(r) \/ SelectRow(r)
           \/ AddRow(r) \/ UpdateRows(r) \/ Announce(r) \/ Record(r)
    PROVE  FailureInv'
  <1>0. /\ r \in Clients
        /\ pc \in [Clients -> Steps]
        /\ outcome \in [Requests -> {"none", "denied", "failed", "activated"}]
        /\ r \in stored => \/ pc[r] \in {"announce", "activated", "done"}
                           \/ r \in faulted
        /\ outcome[r] # "none" => pc[r] = "done"
    BY RequestAssumption DEF StoreInv, TypeOK, FailureInv, FailureKnown
  <1>1. /\ overlaps \subseteq overlaps' /\ UNCHANGED <<topics, faulted, stored>>
        /\ pc' = [pc EXCEPT ![r] = pc'[r]]
        /\ outcome' = [outcome EXCEPT ![r] = outcome'[r]]
        /\ pc[r] # "done"
        /\ pc[r] = "announce" => pc'[r] = "activated"
        /\ pc[r] = "activated" => pc'[r] = "done"
        /\ \/ outcome'[r] = outcome[r]
           \/ pc'[r] = "done" /\ outcome'[r] = pc[r]
        /\ pc'[r] = "insertTopic" => TopicOf[r] \notin topics
        /\ pc'[r] \in {"rollback", "failed"} =>
               pc[r] = "insertTopic" /\ TopicOf[r] \in topics
    <2>1. CASE Post(r)
      BY <1>0, <2>1 DEF Post, GoTo, storeVars
    <2>2. CASE Ask(r)
      BY <1>0, <2>2 DEF Ask, GoTo, storeVars
    <2>3. CASE Lookup(r)
      BY <1>0, <2>3 DEF Lookup, GoTo, storeVars
    <2>4. CASE BeginInsert(r) \/ BeginUpdate(r)
      BY <1>0, <2>4 DEF BeginInsert, BeginUpdate, Begin, Step, GoTo
    <2>5. CASE SelectTopic(r) \/ SelectRow(r)
      BY <1>0, <2>5 DEF SelectTopic, SelectRow, Step, GoTo, storeVars
    <2>6. CASE AddTopic(r)
      BY <1>0, <2>6 DEF AddTopic, InsertTopic, UniqueViolation, Step, GoTo,
                        storeVars
    <2>7. CASE AddRow(r) \/ UpdateRows(r)
      BY <1>0, <2>7 DEF AddRow, UpdateRows, InsertRow, WriteRows, Step, GoTo
    <2>8. CASE Announce(r)
      BY <1>0, <2>8 DEF Announce, Step, GoTo, storeVars
    <2>9. CASE Record(r)
      BY <1>0, <2>9 DEF Record, GoTo, storeVars
    <2>10. QED
      BY <2>1, <2>2, <2>3, <2>4, <2>5, <2>6, <2>7, <2>8, <2>9
  <1>2. ASSUME NEW s \in Requests \ {r}
        PROVE  pc'[s] = pc[s] /\ outcome'[s] = outcome[s]
    BY <1>0, <1>1, RequestAssumption
  <1>3. QED
    BY <1>0, <1>1, <1>2, FailureExplained

LEMMA CommitKeepsFailures ==
    ASSUME NEW c \in Clients, StoreInv, RaceInv, FailureInv, CommitIt(c)
    PROVE  FailureInv'
  <1> USE DEF CommitIt, Commit, GoTo
  <1>0. pc \in [Clients -> Steps]
    BY DEF StoreInv, TypeOK
  <1>1. /\ overlaps' = overlaps /\ faulted' = faulted /\ outcome' = outcome
        /\ pc'[c] = IF c \in Requests THEN "announce" ELSE "done"
        /\ pc[c] = "commit"
        /\ \A d \in Clients \ {c} : pc'[d] = pc[d]
        /\ stored \subseteq stored' /\ stored' \subseteq stored \cup {c}
    BY <1>0
  <1>2. ASSUME NEW r \in Requests, pc'[r] = "insertTopic",
               TopicOf[r] \in topics', TopicOf[r] \notin topics
        PROVE  Beaten(r)
    <2>1. txn[c].topic /\ TopicOf[c] = TopicOf[r]
      BY <1>2
    <2>2. r # c /\ pc[r] = "insertTopic" /\ r \in Clients
      BY <1>1, <1>2, RequestAssumption
    <2>3. txn[c].inserting /\ c \in Requests /\ txn[r].inserting
      BY <2>1, <2>2 DEF StoreInv, TxnsFit, TxnFits
    <2>4. {r, c} \in overlaps
      BY <2>2, <2>3 DEF RaceInv, OverlapsNoted
    <2>5. QED BY <2>1, <2>2, <2>3, <2>4 DEF Beaten
  <1>3. c \in Requests => outcome[c] = "none"
    BY <1>1 DEF FailureInv, FailureKnown
  <1>4. QED
    BY <1>1, <1>2, <1>3, RequestAssumption, FailureExplained

LEMMA OthersKeepFailures ==
    ASSUME NEW c \in Clients, StoreInv, FailureInv,
           BeginDelete(c) \/ DeleteRows(c) \/ RollItBack(c) \/ Fail(c)
    PROVE  FailureInv'
  <1>0. /\ pc \in [Clients -> Steps]
        /\ \A r \in Requests : pc[r] # "deleteRow"
        /\ c \in Requests => c \notin Removers
        /\ c \in Requests /\ c \in stored =>
               \/ pc[c] \in {"announce", "activated", "done"}
               \/ c \in faulted
    BY DEF StoreInv, TypeOK, PcFits, Removers, FailureInv, FailureKnown
  <1>1. /\ overlaps \subseteq overlaps' /\ faulted \subseteq faulted'
        /\ UNCHANGED <<topics, outcome, stored>>
        /\ \A d \in Clients \ {c} : pc'[d] = pc[d]
    BY <1>0 DEF BeginDelete, DeleteRows, RollItBack, Fail, Begin, WriteRows,
                Rollback, Step, GoTo, storeVars
  <1>2. c \in Requests =>
            /\ pc'[c] \in {"rollback", "failed"}
            /\ pc[c] # "done"
            /\ c \in faulted' \/ pc[c] = "rollback"
    BY <1>0 DEF BeginDelete, DeleteRows, RollItBack, Fail, Step, GoTo,
                InTransaction
  <1>3. QED
    BY <1>0, <1>1, <1>2, RequestAssumption, FailureExplained

LEMMA FailureInvHolds == Spec => []FailureInv
  <1>1. Init => FailureInv
    BY RequestAssumption
    DEF Init, FailureInv, FailureKnown, FailureNeedsRace
  <1>2. StoreInv /\ RaceInv /\ FailureInv /\ [Next]_vars => FailureInv'
    <2> SUFFICES ASSUME StoreInv, RaceInv, FailureInv, [Next]_vars
                 PROVE  FailureInv'
      OBVIOUS
    <2>1. CASE LeaseStep \/ UNCHANGED vars
      <3>1. UNCHANGED <<topics, overlaps, pc, outcome, stored, faulted>>
        BY <2>1 DEF LeaseStep, LeaseEnds, vars, storeVars, requestVars
      <3>2. QED BY <3>1, FailureExplained
    <2>2. ASSUME NEW c \in Clients, Continue(c) PROVE FailureInv'
      BY <2>2, RequestsKeepFailures, CommitKeepsFailures, OthersKeepFailures
      DEF Continue
    <2>3. QED
      BY <2>1, <2>2, RequestsKeepFailures, OthersKeepFailures DEF Next
  <1>3. QED BY <1>1, <1>2, StoreInvHolds, RaceInvHolds, PTL DEF Spec
-----------------------------------------------------------------------------
(* The pending map.                                                        *)

\* A step that neither starts nor ends a request.
LEMMA PendingKept ==
    ASSUME PendingTracksRequests, UNCHANGED <<pending, shadowed>>,
           \A r \in Requests : pc'[r] \in Running <=> pc[r] \in Running
    PROVE  PendingTracksRequests'
  BY DEF PendingTracksRequests

LEMMA PendingOfPost ==
    ASSUME NEW r \in Requests, StoreInv, PendingTracksRequests, Post(r)
    PROVE  PendingTracksRequests'
  <1> USE DEF Post, GoTo
  <1>0. r \in Clients /\ pc \in [Clients -> Steps]
    BY RequestAssumption DEF StoreInv, TypeOK
  <1>1. CASE UNCHANGED <<pc, eventVars>>
    BY <1>1, PendingKept DEF eventVars
  <1>2. CASE pc' = [pc EXCEPT ![r] = "policy"] /\ BeginSubscribe(r)
    <2>1. /\ pc'[r] \in Running /\ pc[r] \notin Running
          /\ \A s \in Requests \ {r} : pc'[s] = pc[s]
      BY <1>0, <1>2, RequestAssumption DEF Running, InTransaction
    <2>2. {s \in Requests : pc'[s] \in Running} =
              {s \in Requests : pc[s] \in Running} \cup {r}
      BY <2>1
    <2>3. pending' = pending \cup {KeyOf[r]} /\ shadowed' = shadowed
      BY <1>2 DEF BeginSubscribe
    <2>4. QED BY <2>2, <2>3 DEF PendingTracksRequests
  <1>3. QED BY <1>1, <1>2

LEMMA PendingOfRecord ==
    ASSUME NEW r \in Requests, StoreInv, PendingTracksRequests, Record(r)
    PROVE  PendingTracksRequests'
  <1> USE DEF Record, GoTo, RecordOutcome
  <1>0. r \in Clients /\ pc \in [Clients -> Steps]
    BY RequestAssumption DEF StoreInv, TypeOK
  <1>1. /\ pc'[r] \notin Running
        /\ \A s \in Requests \ {r} : pc'[s] = pc[s]
    BY <1>0, RequestAssumption DEF Running, InTransaction
  <1>2. pending' \subseteq {KeyOf[s] : s \in {q \in Requests : pc'[q] \in Running}}
    BY <1>1 DEF PendingTracksRequests
  <1>3. ASSUME NEW s \in Requests, pc'[s] \in Running, s \notin shadowed'
        PROVE  KeyOf[s] \in pending'
    <2>1. s # r /\ pc[s] \in Running /\ KeyOf[s] # KeyOf[r] /\ s \notin shadowed
      BY <1>1, <1>3
    <2>2. KeyOf[s] \in pending
      BY <2>1 DEF PendingTracksRequests
    <2>3. QED BY <2>1, <2>2
  <1>4. QED BY <1>2, <1>3 DEF PendingTracksRequests

LEMMA PendingInvHolds == Spec => []PendingTracksRequests
  <1>1. Init => PendingTracksRequests
    BY RequestAssumption
    DEF Init, EventsInit, PendingTracksRequests, Running, InTransaction
  <1>2. StoreInv /\ PendingTracksRequests /\ [Next]_vars
            => PendingTracksRequests'
    <2> SUFFICES ASSUME StoreInv, PendingTracksRequests, [Next]_vars
                 PROVE  PendingTracksRequests'
      OBVIOUS
    <2>0. /\ pc \in [Clients -> Steps]
          /\ \A r \in Requests : r \notin Removers /\ r \in Clients
          /\ \A r \in Requests : pc[r] # "deleteRow"
      BY RequestAssumption DEF StoreInv, TypeOK, PcFits, Removers
    <2>1. CASE LeaseStep \/ UNCHANGED vars
      BY <2>1, PendingKept
      DEF LeaseStep, vars, eventVars, requestVars
    <2>2. ASSUME NEW r \in Requests,
                 \/ Ask(r) \/ Lookup(r) \/ BeginInsert(r) \/ BeginUpdate(r)
                 \/ SelectTopic(r) \/ AddTopic(r) \/ SelectRow(r)
                 \/ AddRow(r) \/ UpdateRows(r) \/ Announce(r)
          PROVE  PendingTracksRequests'
      <3>1. \E to \in Running : pc' = [pc EXCEPT ![r] = to]
        <4>1. CASE Ask(r) \/ Lookup(r)
          BY <4>1 DEF Ask, Lookup, GoTo, Running
        <4>2. CASE BeginInsert(r) \/ BeginUpdate(r) \/ Announce(r)
          BY <4>2 DEF BeginInsert, BeginUpdate, Announce, Step, GoTo, Running,
                      InTransaction
        <4>3. CASE SelectTopic(r) \/ AddTopic(r)
          BY <4>3 DEF SelectTopic, AddTopic, Step, GoTo, Running,
                      InTransaction
        <4>4. CASE SelectRow(r) \/ AddRow(r) \/ UpdateRows(r)
          BY <4>4 DEF SelectRow, AddRow, UpdateRows, Step, GoTo, Running,
                      InTransaction
        <4>5. QED BY <2>2, <4>1, <4>2, <4>3, <4>4
      <3>2. pc[r] \in Running
        BY <2>2 DEF Ask, Lookup, BeginInsert, BeginUpdate, SelectTopic,
                    AddTopic, SelectRow, AddRow, UpdateRows, Announce, Step,
                    Running, InTransaction
      <3>3. UNCHANGED <<pending, shadowed>>
        BY <2>2 DEF Ask, Lookup, BeginInsert, BeginUpdate, SelectTopic,
                    AddTopic, SelectRow, AddRow, UpdateRows, Announce, Step,
                    eventVars
      <3>4. QED BY <2>0, <3>1, <3>2, <3>3, PendingKept
    <2>3. ASSUME NEW c \in Clients,
                 \/ BeginDelete(c) \/ DeleteRows(c) \/ CommitIt(c)
                 \/ RollItBack(c) \/ Fail(c)
          PROVE  PendingTracksRequests'
      <3>1. /\ \A d \in Clients \ {c} : pc'[d] = pc[d]
            /\ UNCHANGED <<pending, shadowed>>
        BY <2>0, <2>3 DEF BeginDelete, DeleteRows, CommitIt, RollItBack, Fail,
                          Step, GoTo, eventVars
      <3>2. c \in Requests => pc[c] \in Running /\ pc'[c] \in Running
        BY <2>0, <2>3 DEF BeginDelete, DeleteRows, CommitIt, RollItBack, Fail,
                          Step, GoTo, Running, InTransaction
      <3>3. QED BY <2>0, <3>1, <3>2, PendingKept
    <2>4. ASSUME NEW c \in Clients, Continue(c) PROVE PendingTracksRequests'
      BY <2>2, <2>3, <2>4, PendingOfRecord DEF Continue
    <2>5. QED
      BY <2>1, <2>3, <2>4, PendingOfPost DEF Next
  <1>3. QED BY <1>1, <1>2, StoreInvHolds, PTL DEF Spec
-----------------------------------------------------------------------------
(* The invariants of the specification.                                    *)

\* What the tables, the transactions, the pool, the events and the requests
\* are at any time: rows held are rows there are, a lease that runs belongs
\* to a row, and every connection not in use is back in the pool, also after
\* a statement that fails.
THEOREM TypeOKHolds == Spec => []TypeOK
  <1>1. StoreInv => TypeOK
    BY DEF StoreInv
  <1>2. QED BY <1>1, StoreInvHolds, PTL

\* A callback has two rows for a topic only if the transactions that inserted
\* them were open at once (insertSubscription, helpers/db.js).
THEOREM DuplicatesNeedRaceHolds == Spec => []DuplicatesNeedRace
  <1>1. RaceInv => DuplicatesNeedRace
    BY DEF RaceInv
  <1>2. QED BY <1>1, RaceInvHolds, PTL

\* recordActivated is called only for a subscription that was written, unless
\* the callback's rows were deleted meanwhile.
THEOREM ActivatedIsStoredHolds == Spec => []ActivatedIsStored
  <1>1. StoredInv => ActivatedIsStored
    BY DEF StoredInv
  <1>2. QED BY <1>1, StoredInvHolds, PTL

\* recordFailed is called, no await of the request having been rejected, only
\* after a race for the row of a new topic, and then nothing was written.
THEOREM FailureNeedsRaceHolds == Spec => []FailureNeedsRace
  <1>1. FailureInv => FailureNeedsRace
    BY DEF FailureInv
  <1>2. QED BY <1>1, FailureInvHolds, PTL

\* The map of subscriptions being validated holds nobody who is through, and
\* misses only those whose entry a request of the same key took with it
\* (helpers/subscription_events.js).
THEOREM PendingTracksRequestsHolds == Spec => []PendingTracksRequests
  BY PendingInvHolds
=============================================================================
