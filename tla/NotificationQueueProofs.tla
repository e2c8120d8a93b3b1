----------------------- MODULE NotificationQueueProofs -----------------------
(* Proofs about NotificationQueue and the counters it composes, for every  *)
(* number of messages and operators and all limits.                        *)
EXTENDS NotificationQueue, FiniteSetTheorems, TLAPS

-----------------------------------------------------------------------------
(* The counters. *)

\* SnapshotIsCurrent holds of a reader because, while it still waits, the
\* flush it waits for carries whatever of its counts is not yet in Redis.
CountsInv ==
    /\ ThroughputTypeOK
    /\ CountsConserved
    /\ SnapshotIsCurrent
    /\ reader = "flushing" => redisCount + dropped + batch >= due

CountsStep == \/ Record \/ TimerFires \/ FlushEnds
              \/ AskSnapshot \/ AwaitFlush \/ ReadSnapshot \/ LoseCounts

LEMMA CountsInitially == ThroughputInit => CountsInv
  <1> SUFFICES ASSUME ThroughputInit PROVE CountsInv
    OBVIOUS
  <1> USE DEF ThroughputInit
  <1>1. ThroughputTypeOK
    BY DEF ThroughputTypeOK
  <1>2. CountsConserved
    BY DEF CountsConserved
  <1>3. SnapshotIsCurrent /\ reader # "flushing"
    BY DEF SnapshotIsCurrent
  <1>4. QED BY <1>1, <1>2, <1>3 DEF CountsInv

LEMMA CountsPreserved ==
    ASSUME CountsInv, CountsStep \/ UNCHANGED throughputVars
    PROVE  CountsInv'
  <1> DEFINE
        Numbers == /\ pendingRedis \in Nat /\ batch \in Nat
                   /\ redisCount \in Nat /\ recorded \in Nat
                   /\ dropped \in Nat /\ due \in Nat
        Flags   == /\ flushTimer \in BOOLEAN
                   /\ reader \in {"idle", "flushing", "reading"}
        Waits   == reader = "flushing" => redisCount + dropped + batch >= due
        Sums    == CountsConserved /\ SnapshotIsCurrent /\ Waits
  <1>1. Numbers /\ Flags /\ Sums
    BY DEF CountsInv, ThroughputTypeOK
  <1>2. ASSUME Numbers', Flags', Sums' PROVE CountsInv'
    BY <1>2 DEF CountsInv, ThroughputTypeOK
  <1>3. Flags'
    <2>1. flushTimer' \in {flushTimer, TRUE, FALSE}
      BY DEF CountsStep, Record, TimerFires, FlushEnds, AskSnapshot,
             AwaitFlush, ReadSnapshot, LoseCounts, throughputVars, countVars
    <2>2. reader' \in {reader, "idle", "flushing", "reading"}
      BY DEF CountsStep, Record, TimerFires, FlushEnds, AskSnapshot,
             AwaitFlush, ReadSnapshot, LoseCounts, throughputVars, readerVars
    <2>3. QED BY <1>1, <2>1, <2>2, Zenon
  <1>4. Numbers' /\ Sums'
    <2> USE DEF CountsConserved, SnapshotIsCurrent, countVars, readerVars
    <2>1. Numbers /\ Sums /\ (reader = "reading" => reader # "flushing")
      BY <1>1
    <2>2. CASE Record
      BY <2>1, <2>2 DEF Record
    <2>3. CASE TimerFires
      <3>1. /\ redisCount' = redisCount /\ recorded' = recorded
            /\ dropped' = dropped /\ reader' = reader /\ due' = due
        BY <2>3 DEF TimerFires
      <3>2. CASE batch # 0
        <4>1. batch' = batch /\ pendingRedis' = pendingRedis
          BY <2>3, <3>2 DEF TimerFires, FlushPending
        <4>2. QED BY <2>1, <3>1, <4>1
      <3>3. CASE batch = 0
        <4>1. batch' = pendingRedis /\ pendingRedis' = 0
          BY <2>3, <3>3 DEF TimerFires, FlushPending
        <4>2. QED BY <2>1, <3>1, <3>3, <4>1
      <3>4. QED BY <3>2, <3>3
    <2>4. CASE FlushEnds
      BY <2>1, <2>4 DEF FlushEnds
    <2>5. CASE AskSnapshot
      <3>1. /\ reader' = "flushing" /\ redisCount' = redisCount
            /\ recorded' = recorded /\ dropped' = dropped
        BY <2>5 DEF AskSnapshot
      <3>2. CASE batch # 0
        <4>1. /\ batch' = batch /\ pendingRedis' = pendingRedis
              /\ due' = recorded - pendingRedis
          BY <2>5, <3>2 DEF AskSnapshot, FlushPending
        <4>2. QED BY <2>1, <3>1, <4>1
      <3>3. CASE batch = 0
        <4>1. /\ batch' = pendingRedis /\ pendingRedis' = 0
              /\ due' = recorded
          BY <2>1, <2>5, <3>3 DEF AskSnapshot, FlushPending
        <4>2. QED BY <2>1, <3>1, <3>3, <4>1
      <3>4. QED BY <3>2, <3>3
    <2>6. CASE AwaitFlush
      BY <2>1, <2>6 DEF AwaitFlush
    <2>7. CASE ReadSnapshot
      BY <2>1, <2>7 DEF ReadSnapshot
    <2>8. CASE LoseCounts
      <3>1. /\ pendingRedis' = 0 /\ batch' = 0 /\ due' = 0
            /\ dropped' = dropped + pendingRedis + batch
            /\ reader' = "idle"
            /\ UNCHANGED <<redisCount, recorded>>
        BY <2>8 DEF LoseCounts
      <3>2. Numbers'
        BY <2>1, <3>1
      <3>3. CountsConserved'
        BY <2>1, <3>1
      <3>4. SnapshotIsCurrent' /\ Waits'
        BY <3>1
      <3>5. QED BY <3>2, <3>3, <3>4
    <2>9. CASE UNCHANGED throughputVars
      BY <2>1, <2>9 DEF throughputVars
    <2>10. QED
      BY <2>2, <2>3, <2>4, <2>5, <2>6, <2>7, <2>8, <2>9 DEF CountsStep
  <1>5. QED BY <1>2, <1>3, <1>4

\* What the steps of the queue do to the counters.
LEMMA NextCounts ==
    ASSUME [Next]_vars
    PROVE  CountsStep \/ UNCHANGED throughputVars
  <1> USE DEF CountsStep
  <1>1. CASE \E m \in Messages : IngestStep(m)
    BY <1>1 DEF IngestStep, CheckActive, CountWaiting, Add, AddFails,
                CountEnqueued
  <1>2. CASE IngestCrash
    BY <1>2 DEF IngestCrash, CutIngest
  <1>3. CASE WorkerStep \/ Shutdown \/ DeliveryCrash
    BY <1>3 DEF WorkerStep, TakeJob, EndJob, Exit, Start, Shutdown,
                DeliveryCrash, ProcessGone, CutIngest
  <1>4. CASE \E o \in Operators : Proceed(o)
    BY <1>4 DEF Proceed, Fetch, Retry, Purge
  <1>5. CASE ThroughputStep
    BY <1>5 DEF ThroughputStep
  <1>6. CASE UNCHANGED vars
    BY <1>6 DEF vars
  <1>7. QED BY <1>1, <1>2, <1>3, <1>4, <1>5, <1>6 DEF Next

LEMMA CountsInvHolds == Spec => []CountsInv
  <1>1. Init => CountsInv
    BY CountsInitially DEF Init
  <1>2. CountsInv /\ [Next]_vars => CountsInv'
    BY CountsPreserved, NextCounts
  <1>3. QED BY <1>1, <1>2, PTL DEF Spec

\* Counts are neither lost nor doubled by the timer, the flush, a snapshot or
\* a crash.
THEOREM CountsConservedHolds == Spec => []CountsConserved
  <1>1. CountsInv => CountsConserved
    BY DEF CountsInv
  <1>2. QED BY <1>1, CountsInvHolds, PTL

\* A snapshot that reads Redis finds what was due when it was asked for.
THEOREM SnapshotIsCurrentHolds == Spec => []SnapshotIsCurrent
  <1>1. CountsInv => SnapshotIsCurrent
    BY DEF CountsInv
  <1>2. QED BY <1>1, CountsInvHolds, PTL
-----------------------------------------------------------------------------
(* The queue. *)

\* What is waiting or about to be added on account of the limit, and the
\* messages that became a job.
Load   == (In("waiting") \ requeued) \cup In("adding")
Queued == {m \in Messages : state[m] \in Jobs}

\* The parts of TypeOK that a step of the queue, of the worker or of an
\* operator touches.  A call never has more to retry than its limit allows.
QueueOK     == /\ state \in [Messages -> States]
               /\ requeued \in SUBSET In("waiting")
               /\ uncounted \in SUBSET Queued
ProcessesOK == /\ peak \in Nat
               /\ mode \in {"all", "split"}
               /\ worker \in {"running", "closing", "down"}
               /\ crashes \in 0..MaxCrashes
CallsOK     == /\ step \in [Operators -> {"fetch", "retry", "done"}]
               /\ chosen \in [Operators -> SUBSET Messages]
               /\ handled \in [Operators -> 0..Limit]
               /\ \A o \in Operators :
                      handled[o] + Cardinality(chosen[o]) <= Limit

\* A job is counted once, and only when it is still to be counted.
CountsFit == recorded + Cardinality(uncounted) <= Cardinality(Queued)

QueueInv == QueueOK /\ ProcessesOK /\ CallsOK /\ QueueBounded /\ CountsFit

LEMMA Limits ==
    /\ IsFiniteSet(Messages)
    /\ MaxWaiting \in Nat /\ MaxWaiting > 0
    /\ Limit \in Nat /\ BatchSize \in Nat
    /\ MaxCrashes \in Nat
  BY QueueAssumption

LEMMA PartsAreFinite ==
    /\ \A s : IsFiniteSet(In(s)) /\ Cardinality(In(s)) \in Nat
    /\ IsFiniteSet(Load) /\ Cardinality(Load) \in Nat
    /\ IsFiniteSet(Queued) /\ Cardinality(Queued) \in Nat
  <1>1. \A s : In(s) \in SUBSET Messages
    BY DEF In
  <1>2. Load \in SUBSET Messages /\ Queued \in SUBSET Messages
    BY <1>1 DEF Load, Queued
  <1>3. QED
    BY <1>1, <1>2, Limits, FS_Subset, FS_CardinalityType

\* A step that adds nothing to the load leaves the limit alone.
LEMMA LoadShrinks ==
    ASSUME QueueBounded, peak' = peak, peak \in Nat, Load' \subseteq Load
    PROVE  QueueBounded'
  <1>1. /\ Cardinality(Load') <= Cardinality(Load)
        /\ Cardinality(Load) \in Nat /\ Cardinality(Load') \in Nat
    BY PartsAreFinite, FS_Subset, FS_CardinalityType
  <1>2. Cardinality(Load) <= MaxWaiting - 1 + (IF peak = 0 THEN 1 ELSE peak)
    BY DEF QueueBounded, Load
  <1>3. Cardinality(Load') <= MaxWaiting - 1 + (IF peak = 0 THEN 1 ELSE peak)
    BY <1>1, <1>2, Limits
  <1>4. QED BY <1>3 DEF QueueBounded, Load

\* A step that unmakes no job, counts nothing, and leaves nothing to be counted
\* that was not before.
LEMMA NothingCounted ==
    ASSUME CountsFit, QueueOK, recorded \in Nat, recorded' = recorded,
           uncounted' \subseteq uncounted, Queued \subseteq Queued'
    PROVE  CountsFit'
  <1>1. IsFiniteSet(Queued) /\ IsFiniteSet(Queued')
    <2>1. Queued \in SUBSET Messages /\ Queued' \in SUBSET Messages
      BY DEF Queued
    <2>2. QED BY <2>1, Limits, FS_Subset
  <1>2. IsFiniteSet(uncounted) /\ IsFiniteSet(uncounted')
    BY <1>1, FS_Subset DEF QueueOK
  <1>3. /\ Cardinality(uncounted') <= Cardinality(uncounted)
        /\ Cardinality(Queued) <= Cardinality(Queued')
    BY <1>1, <1>2, FS_Subset
  <1>4. /\ Cardinality(uncounted) \in Nat /\ Cardinality(uncounted') \in Nat
        /\ Cardinality(Queued) \in Nat /\ Cardinality(Queued') \in Nat
    BY <1>1, <1>2, FS_CardinalityType
  <1>5. QED BY <1>3, <1>4 DEF CountsFit

\* The handlers of messages.
LEMMA ProducerPreserves ==
    ASSUME QueueInv, recorded \in Nat, NEW m \in Messages, IngestStep(m)
    PROVE  QueueInv'
  <1>1. QueueOK /\ ProcessesOK /\ CallsOK /\ QueueBounded /\ CountsFit
    BY DEF QueueInv
  <1>2. /\ mode' = mode /\ worker' = worker /\ crashes' = crashes
        /\ requeued' = requeued
        /\ step' = step /\ chosen' = chosen /\ handled' = handled
    BY DEF IngestStep, CheckActive, CountWaiting, Add, AddFails,
           CountEnqueued, queueVars, processVars, operatorVars
  <1>3. CallsOK'
    BY <1>1, <1>2 DEF CallsOK
  <1>4. ASSUME CheckActive(m) \/ CountWaiting(m) \/ Add(m) \/ AddFails(m)
        PROVE  /\ In("waiting") \subseteq In("waiting")'
               /\ Queued \subseteq Queued'
    <2>1. PICK s \in {"counting", "gone", "adding", "waiting"} : Move({m}, s)
      BY <1>4 DEF CheckActive, CountWaiting, Add, AddFails
    <2>2. state[m] \in {"new", "counting", "adding"}
      BY <1>4 DEF CheckActive, CountWaiting, Add, AddFails
    <2>3. QED BY <1>1, <2>1, <2>2 DEF QueueOK, In, Move, Queued, Jobs
  <1>5. ASSUME NEW s \in {"counting", "gone", "adding", "waiting"},
               Move({m}, s)
        PROVE  state' \in [Messages -> States]
    BY <1>1, <1>5 DEF QueueOK, Move, States, Jobs
  <1>6. CASE CheckActive(m)
    <2>1. Move({m}, "counting") \/ Move({m}, "gone")
      BY <1>6 DEF CheckActive
    <2>2. /\ state[m] = "new" /\ peak' = peak /\ recorded' = recorded
          /\ uncounted' = uncounted
      BY <1>6 DEF CheckActive, ingestVars, throughputVars, countVars
    <2>3. Load' \subseteq Load
      BY <1>1, <1>2, <2>1, <2>2 DEF Load, In, Move, QueueOK
    <2>4. ProcessesOK' /\ QueueOK'
      BY <1>1, <1>2, <1>4, <1>5, <1>6, <2>1, <2>2 DEF ProcessesOK, QueueOK
    <2>5. QueueBounded'
      BY <1>1, <2>2, <2>3, LoadShrinks DEF ProcessesOK
    <2>6. CountsFit'
      BY <1>1, <1>4, <1>6, <2>2, NothingCounted
    <2>7. QED BY <1>3, <2>4, <2>5, <2>6 DEF QueueInv
  <1>7. CASE CountWaiting(m)
    <2>1. /\ recorded' = recorded /\ state[m] = "counting"
          /\ uncounted' = uncounted
      BY <1>7 DEF CountWaiting, throughputVars, countVars
    <2>2. QueueOK' /\ CountsFit'
      <3>1. PICK s \in {"gone", "adding"} : Move({m}, s)
        BY <1>7 DEF CountWaiting
      <3>2. QED BY <1>1, <1>2, <1>4, <1>5, <1>7, <2>1, <3>1, NothingCounted
                DEF QueueOK
    <2>3. peak' = IF Cardinality(In("adding")') > peak
                  THEN Cardinality(In("adding")') ELSE peak
      BY <1>7 DEF CountWaiting
    <2>4. /\ IsFiniteSet(In("adding")') /\ Cardinality(In("adding")') \in Nat
      <3>1. In("adding")' \in SUBSET Messages
        BY DEF In
      <3>2. QED BY <3>1, Limits, FS_Subset, FS_CardinalityType
    <2>5. /\ peak \in Nat /\ peak' \in Nat
          /\ Cardinality(In("adding")') <= peak'
      BY <1>1, <2>3, <2>4 DEF ProcessesOK
    <2>6. ProcessesOK'
      BY <1>1, <1>2, <2>5 DEF ProcessesOK
    <2>7. CASE Cardinality(In("waiting")) >= MaxWaiting
      <3>1. Move({m}, "gone")
        BY <1>7, <2>7 DEF CountWaiting
      <3>2. In("adding")' = In("adding") /\ In("waiting")' = In("waiting")
        BY <1>1, <2>1, <3>1 DEF Move, In, QueueOK
      <3>3. Load' = Load
        BY <1>2, <3>2 DEF Load
      <3>4. Cardinality(Load) <=
                MaxWaiting - 1 + (IF peak = 0 THEN 1 ELSE peak)
        BY <1>1 DEF QueueBounded, Load
      <3>5. peak' >= peak
        BY <2>3, <2>4, <2>5
      <3>6. Cardinality(Load) <=
                MaxWaiting - 1 + (IF peak' = 0 THEN 1 ELSE peak')
        BY <2>5, <3>4, <3>5, Limits, PartsAreFinite
      <3>7. Cardinality(Load') <=
                MaxWaiting - 1 + (IF peak' = 0 THEN 1 ELSE peak')
        BY <3>3, <3>6
      <3>8. QueueBounded'
        BY <3>7 DEF QueueBounded, Load
      <3>9. QED BY <1>3, <2>2, <2>6, <3>8 DEF QueueInv
    <2>8. CASE ~(Cardinality(In("waiting")) >= MaxWaiting)
      <3>1. Move({m}, "adding")
        BY <1>7, <2>8 DEF CountWaiting
      <3>2. In("waiting")' = In("waiting") /\ m \in In("adding")'
        BY <1>1, <2>1, <3>1 DEF Move, In, QueueOK
      <3> DEFINE W == In("waiting") \ requeued
                 A == In("adding")'
      <3>3. Load' = W \cup A
        BY <1>2, <3>2 DEF Load
      <3>4. /\ IsFiniteSet(W) /\ Cardinality(W) \in Nat
            /\ Cardinality(W) <= Cardinality(In("waiting"))
        BY PartsAreFinite, FS_Subset, FS_CardinalityType
      <3>5. Cardinality(In("waiting")) \in Nat
        BY PartsAreFinite
      <3>6. Cardinality(W) <= MaxWaiting - 1
        BY <2>8, <3>4, <3>5, Limits
      <3>7. IsFiniteSet(A) /\ Cardinality(A) \in Nat /\ Cardinality(A) <= peak'
            /\ A # {}
        BY <2>4, <2>5, <3>2
      <3> HIDE DEF W, A
      <3>8. Cardinality(W \cup A) =
                Cardinality(W) + Cardinality(A) - Cardinality(W \cap A)
        BY <3>4, <3>7, FS_Union
      <3>9. Cardinality(W \cap A) \in Nat
        BY <3>4, FS_Subset, FS_CardinalityType
      <3>10. Cardinality(A) # 0
        BY <3>7, FS_EmptySet
      <3>11. Cardinality(W \cup A) <=
                 MaxWaiting - 1 + (IF peak' = 0 THEN 1 ELSE peak')
        BY <2>5, <3>4, <3>6, <3>7, <3>8, <3>9, <3>10, Limits
      <3>12. QueueBounded'
        BY <3>3, <3>11 DEF QueueBounded, Load
      <3>13. QED BY <1>3, <2>2, <2>6, <3>12 DEF QueueInv
    <2>9. QED BY <2>7, <2>8
  <1>8. CASE Add(m)
    <2>1. /\ state[m] = "adding" /\ Move({m}, "waiting") /\ peak' = peak
          /\ uncounted' = uncounted \cup {m} /\ recorded' = recorded
      BY <1>8 DEF Add, throughputVars, countVars
    <2>2. Queued' = Queued \cup {m} /\ m \notin Queued
      BY <1>1, <2>1 DEF Queued, Jobs, Move, QueueOK
    <2>3. /\ uncounted \in SUBSET Queued /\ m \notin uncounted
          /\ IsFiniteSet(uncounted)
      BY <1>1, <2>2, PartsAreFinite, FS_Subset DEF QueueOK
    <2>4. /\ Cardinality(Queued') = Cardinality(Queued) + 1
          /\ Cardinality(uncounted') = Cardinality(uncounted) + 1
          /\ Cardinality(Queued) \in Nat /\ Cardinality(uncounted) \in Nat
      BY <2>1, <2>2, <2>3, PartsAreFinite, FS_AddElement, FS_CardinalityType
    <2>5. CountsFit'
      BY <1>1, <2>1, <2>4 DEF CountsFit
    <2>6. Load' \subseteq Load
      BY <1>1, <1>2, <2>1 DEF Load, In, Move, QueueOK
    <2>7. ProcessesOK' /\ QueueOK'
      BY <1>1, <1>2, <1>4, <1>5, <1>8, <2>1, <2>2, <2>3
         DEF ProcessesOK, QueueOK
    <2>8. QueueBounded'
      BY <1>1, <2>1, <2>6, LoadShrinks DEF ProcessesOK
    <2>9. QED BY <1>3, <2>5, <2>7, <2>8 DEF QueueInv
  <1>9. CASE AddFails(m)
    <2>1. PICK s \in {"gone", "waiting"} : Move({m}, s)
      BY <1>9 DEF AddFails
    <2>2. /\ state[m] = "adding" /\ peak' = peak
          /\ uncounted' = uncounted /\ recorded' = recorded
      BY <1>9 DEF AddFails, ingestVars, throughputVars, countVars
    <2>3. Load' \subseteq Load
      BY <1>1, <1>2, <2>1, <2>2 DEF Load, In, Move, QueueOK
    <2>4. ProcessesOK' /\ QueueOK'
      BY <1>1, <1>2, <1>4, <1>5, <1>9, <2>1, <2>2 DEF ProcessesOK, QueueOK
    <2>5. QueueBounded'
      BY <1>1, <2>2, <2>3, LoadShrinks DEF ProcessesOK
    <2>6. CountsFit'
      BY <1>1, <1>4, <1>9, <2>2, NothingCounted
    <2>7. QED BY <1>3, <2>4, <2>5, <2>6 DEF QueueInv
  <1>10. CASE CountEnqueued(m)
    <2>1. /\ m \in uncounted /\ uncounted' = uncounted \ {m}
          /\ recorded' = recorded + 1 /\ state' = state /\ peak' = peak
      BY <1>10 DEF CountEnqueued, Record, queueVars
    <2>2. Queued' = Queued /\ Load' = Load
      BY <1>2, <2>1 DEF Queued, Load, In
    <2>3. IsFiniteSet(uncounted)
      BY <1>1, PartsAreFinite, FS_Subset DEF QueueOK
    <2>4. /\ Cardinality(uncounted') = Cardinality(uncounted) - 1
          /\ Cardinality(uncounted) \in Nat /\ Cardinality(Queued) \in Nat
      BY <2>1, <2>3, PartsAreFinite, FS_RemoveElement, FS_CardinalityType
    <2>5. CountsFit'
      BY <1>1, <2>1, <2>2, <2>4 DEF CountsFit
    <2>6. ProcessesOK' /\ QueueOK'
      BY <1>1, <1>2, <2>1, <2>2 DEF ProcessesOK, QueueOK, In
    <2>7. QueueBounded'
      BY <1>1, <2>1, <2>2, LoadShrinks DEF ProcessesOK
    <2>8. QED BY <1>3, <2>5, <2>6, <2>7 DEF QueueInv
  <1>11. QED BY <1>6, <1>7, <1>8, <1>9, <1>10 DEF IngestStep

\* What ends with ingest's process: nothing that is a job.
LEMMA CutIngestPreserves ==
    ASSUME QueueOK, CutIngest, requeued' = requeued
    PROVE  /\ QueueOK' /\ Queued' = Queued /\ Load' \subseteq Load
           /\ uncounted' \subseteq uncounted /\ recorded' = recorded
  <1>1. /\ Move(In("counting") \cup In("adding"), "gone")
        /\ uncounted' = {} /\ recorded' = recorded
    BY DEF CutIngest, LoseCounts
  <1>2. QED BY <1>1 DEF QueueOK, Queued, Load, In, Move, States, Jobs

\* The worker, and the crashes and restarts of both processes.
LEMMA ProcessesPreserve ==
    ASSUME QueueInv, recorded \in Nat,
           IngestCrash \/ WorkerStep \/ Shutdown \/ DeliveryCrash
    PROVE  QueueInv'
  <1>1. QueueOK /\ ProcessesOK /\ CallsOK /\ QueueBounded /\ CountsFit
    BY DEF QueueInv
  <1>2. /\ step' = step /\ chosen' = chosen /\ handled' = handled
        /\ peak' = peak /\ mode' = mode
    BY DEF IngestCrash, WorkerStep, TakeJob, EndJob, Exit, Start, Shutdown,
           DeliveryCrash, ProcessGone, ingestVars, processVars, operatorVars
  <1>3. CallsOK'
    BY <1>1, <1>2 DEF CallsOK
  <1>4. In("active") \in SUBSET Messages
    BY DEF In
  <1>5. ASSUME QueueOK', worker' \in {"running", "closing", "down"},
               crashes' \in 0..MaxCrashes,
               Queued' = Queued, Load' \subseteq Load,
               uncounted' \subseteq uncounted, recorded' = recorded
        PROVE  QueueInv'
    <2>1. QueueBounded' /\ CountsFit'
      BY <1>1, <1>2, <1>5, LoadShrinks, NothingCounted DEF ProcessesOK
    <2>2. ProcessesOK'
      BY <1>1, <1>2, <1>5 DEF ProcessesOK
    <2>3. QED BY <1>3, <1>5, <2>1, <2>2 DEF QueueInv
  <1>6. ASSUME UNCHANGED <<ingestVars, throughputVars>>
        PROVE  uncounted' \subseteq uncounted /\ recorded' = recorded
    BY <1>6 DEF ingestVars, throughputVars, countVars
  <1>7. CASE IngestCrash
    <2>1. /\ CutIngest /\ requeued' = requeued /\ worker' = worker
          /\ crashes < MaxCrashes /\ crashes' = crashes + 1
      BY <1>7 DEF IngestCrash
    <2>2. crashes' \in 0..MaxCrashes
      BY <1>1, <2>1, Limits DEF ProcessesOK
    <2>3. QED BY <1>1, <1>5, <2>1, <2>2, CutIngestPreserves DEF ProcessesOK
  <1>8. ASSUME NEW m \in Messages, TakeJob(m) PROVE QueueInv'
    <2>1. /\ Move({m}, "active") /\ state[m] = "waiting"
          /\ requeued' = requeued \ {m}
          /\ worker' = worker /\ crashes' = crashes
      BY <1>8 DEF TakeJob, processVars
    <2>2. uncounted' \subseteq uncounted /\ recorded' = recorded
          /\ uncounted' = uncounted
      BY <1>6, <1>8 DEF TakeJob, ingestVars
    <2>3. Queued' = Queued /\ Load' \subseteq Load
      BY <1>1, <2>1 DEF QueueOK, Queued, Load, In, Move, Jobs
    <2>4. QueueOK'
      BY <1>1, <2>1, <2>2, <2>3 DEF QueueOK, In, Move, States, Jobs
    <2>5. QED BY <1>1, <1>5, <2>1, <2>2, <2>3, <2>4 DEF ProcessesOK
  <1>9. ASSUME NEW m \in Messages, EndJob(m) PROVE QueueInv'
    <2>1. /\ state[m] = "active" /\ worker' = worker /\ crashes' = crashes
      BY <1>9 DEF EndJob, processVars
    <2>2. uncounted' \subseteq uncounted /\ recorded' = recorded
          /\ uncounted' = uncounted
      BY <1>6, <1>9 DEF EndJob, ingestVars
    <2>3. /\ state' \in [Messages -> States] /\ Queued' = Queued
          /\ requeued' \in SUBSET In("waiting")' /\ Load' \subseteq Load
      <3>1. CASE \E s \in {"over", "failed"} :
                     Move({m}, s) /\ requeued' = requeued
        <4>1. PICK s \in {"over", "failed"} :
                  Move({m}, s) /\ requeued' = requeued
          BY <3>1
        <4>2. QED BY <1>1, <2>1, <4>1
                  DEF QueueOK, Queued, Load, In, Move, States, Jobs
      <3>2. CASE Move({m}, "waiting") /\ requeued' = requeued \cup {m}
        BY <1>1, <2>1, <3>2
           DEF QueueOK, Queued, Load, In, Move, States, Jobs
      <3>3. QED BY <1>9, <3>1, <3>2 DEF EndJob
    <2>4. QueueOK'
      BY <1>1, <2>2, <2>3 DEF QueueOK
    <2>5. QED BY <1>1, <1>5, <2>1, <2>2, <2>3, <2>4 DEF ProcessesOK
  <1>10. CASE Shutdown
    <2>1. /\ state' = state /\ requeued' = requeued /\ crashes' = crashes
          /\ worker' = "closing"
      BY <1>10 DEF Shutdown, queueVars
    <2>2. uncounted' = uncounted /\ recorded' = recorded
      BY <1>10 DEF Shutdown, ingestVars, throughputVars, countVars
    <2>3. QueueOK' /\ Queued' = Queued /\ Load' \subseteq Load
      BY <1>1, <2>1, <2>2 DEF QueueOK, Queued, Load, In
    <2>4. QED BY <1>1, <1>5, <2>1, <2>2, <2>3 DEF ProcessesOK
  <1>11. CASE Exit \/ DeliveryCrash
    <2>1. ProcessGone /\ crashes' \in 0..MaxCrashes
      BY <1>1, <1>11, Limits DEF Exit, DeliveryCrash, ProcessesOK
    <2>2. worker' = "down" /\ requeued' = requeued
      BY <2>1 DEF ProcessGone
    <2>3. CASE CutIngest
      BY <1>1, <1>5, <2>1, <2>2, <2>3, CutIngestPreserves
    <2>4. CASE UNCHANGED <<state, uncounted, throughputVars>>
      <3>1. state' = state /\ uncounted' = uncounted /\ recorded' = recorded
        BY <2>4 DEF throughputVars, countVars
      <3>2. QueueOK' /\ Queued' = Queued /\ Load' \subseteq Load
        BY <1>1, <2>2, <3>1 DEF QueueOK, Queued, Load, In
      <3>3. QED BY <1>5, <2>1, <2>2, <3>1, <3>2
    <2>5. QED BY <2>1, <2>3, <2>4 DEF ProcessGone
  <1>12. CASE Start
    <2>1. PICK dead \in SUBSET In("active") :
              /\ state' = [m \in Messages |->
                     IF m \in dead THEN "failed"
                     ELSE IF state[m] = "active" THEN "waiting" ELSE state[m]]
              /\ requeued' = requeued \cup (In("active") \ dead)
      BY <1>12 DEF Start
    <2>2. /\ worker' = "running" /\ crashes' = crashes
          /\ uncounted' = uncounted /\ recorded' = recorded
      BY <1>12 DEF Start, ingestVars, throughputVars, countVars
    <2>3. state' \in [Messages -> States] /\ Queued' = Queued
      BY <1>1, <2>1 DEF QueueOK, Queued, In, States, Jobs
    <2>4. requeued' \in SUBSET In("waiting")' /\ Load' \subseteq Load
      BY <1>1, <2>1 DEF QueueOK, Load, In
    <2>5. QueueOK'
      BY <1>1, <2>2, <2>3, <2>4 DEF QueueOK
    <2>6. QED BY <1>1, <1>5, <2>2, <2>3, <2>4, <2>5 DEF ProcessesOK
  <1>13. QED BY <1>7, <1>8, <1>9, <1>10, <1>11, <1>12 DEF WorkerStep

-----------------------------------------------------------------------------
(* The operators. *)

LEMMA LeastOf ==
    ASSUME NEW a \in Nat, NEW b \in Nat
    PROVE  Least(a, b) \in Nat /\ Least(a, b) <= a /\ Least(a, b) <= b
  BY DEF Least

LEMMA SomeFailedFits ==
    ASSUME NEW n \in Nat, NEW js \in SomeFailed(n)
    PROVE  /\ js \in SUBSET In("failed") /\ js \in SUBSET Messages
           /\ Cardinality(js) \in Nat /\ Cardinality(js) <= n
  <1>1. js \in SUBSET In("failed")
        /\ Cardinality(js) = Least(n, Cardinality(In("failed")))
    BY DEF SomeFailed
  <1>2. Cardinality(In("failed")) \in Nat
    BY PartsAreFinite
  <1>3. QED BY <1>1, <1>2, LeastOf DEF In

LEMMA SetOpKeepsCalls ==
    ASSUME CallsOK, NEW o \in Operators,
           NEW to \in {"fetch", "retry", "done"},
           NEW jobs \in SUBSET Messages,
           NEW n \in Nat, n + Cardinality(jobs) <= Limit,
           SetOp(o, to, jobs, n)
    PROVE  CallsOK'
  <1>1. /\ step' \in [Operators -> {"fetch", "retry", "done"}]
        /\ chosen' \in [Operators -> SUBSET Messages]
    BY DEF CallsOK, SetOp
  <1>2. Cardinality(jobs) \in Nat
    BY Limits, FS_Subset, FS_CardinalityType
  <1>3. n \in 0..Limit
    BY <1>2, Limits
  <1>4. handled' \in [Operators -> 0..Limit]
    BY <1>3 DEF CallsOK, SetOp
  <1>5. ASSUME NEW p \in Operators
        PROVE  handled'[p] + Cardinality(chosen'[p]) <= Limit
    <2>1. CASE p = o
      <3>1. handled'[p] = n /\ chosen'[p] = jobs
        BY <2>1 DEF CallsOK, SetOp
      <3>2. QED BY <3>1
    <2>2. CASE p # o
      <3>1. handled'[p] = handled[p] /\ chosen'[p] = chosen[p]
        BY <2>2 DEF CallsOK, SetOp
      <3>2. QED BY <3>1 DEF CallsOK
    <2>3. QED BY <2>1, <2>2
  <1>6. QED BY <1>1, <1>4, <1>5 DEF CallsOK

LEMMA OperatorsPreserve ==
    ASSUME QueueInv, recorded \in Nat, NEW o \in Operators,
           Proceed(o)
    PROVE  QueueInv'
  <1>1. QueueOK /\ ProcessesOK /\ CallsOK /\ QueueBounded /\ CountsFit
    BY DEF QueueInv
  <1>2. /\ peak' = peak /\ uncounted' = uncounted /\ recorded' = recorded
        /\ mode' = mode /\ worker' = worker /\ crashes' = crashes
    BY DEF Proceed, Fetch, Retry, Purge, ingestVars, processVars,
           throughputVars, countVars
  <1>3. handled[o] \in 0..Limit /\ handled[o] \in Nat /\ Limit \in Nat
        /\ BatchSize \in Nat
    BY <1>1, Limits DEF CallsOK
  <1>4. Cardinality({}) = 0
    BY FS_EmptySet
  <1>5. ProcessesOK'
    BY <1>1, <1>2 DEF ProcessesOK
  <1>6. ASSUME QueueOK', CallsOK', Queued' = Queued, Load' \subseteq Load
        PROVE  QueueInv'
    <2>1. QueueBounded' /\ CountsFit'
      BY <1>1, <1>2, <1>6, LoadShrinks, NothingCounted DEF ProcessesOK
    <2>2. QED BY <1>5, <1>6, <2>1 DEF QueueInv
  <1>7. ASSUME UNCHANGED queueVars
        PROVE  QueueOK' /\ Queued' = Queued /\ Load' \subseteq Load
    BY <1>1, <1>2, <1>7 DEF queueVars, QueueOK, In, Queued, Load
  <1>8. ASSUME Return(o) PROVE CallsOK'
    BY <1>1, <1>4, <1>8, Limits, SetOpKeepsCalls DEF Return
  <1> DEFINE batch_o == Least(BatchSize, Limit - handled[o])
  <1>9. handled[o] < Limit =>
             batch_o \in Nat /\ handled[o] + batch_o <= Limit
    <2> SUFFICES ASSUME handled[o] < Limit
                 PROVE  batch_o \in Nat /\ handled[o] + batch_o <= Limit
      OBVIOUS
    <2>1. Limit - handled[o] \in Nat
      BY <1>3
    <2>2. batch_o \in Nat /\ batch_o <= Limit - handled[o]
      BY <1>3, <2>1, LeastOf
    <2> HIDE DEF batch_o
    <2>3. QED BY <1>3, <2>2
  <1>10. CASE Fetch(o)
    <2>1. UNCHANGED queueVars
      BY <1>10 DEF Fetch
    <2>2. CallsOK'
      <3>1. CASE handled[o] < Limit
        <4>1. PICK js \in SomeFailed(batch_o) :
                  IF js = {} THEN Return(o) ELSE SetOp(o, "retry", js, handled[o])
          BY <1>10, <3>1 DEF Fetch
        <4>2. /\ js \in SUBSET Messages /\ Cardinality(js) \in Nat
              /\ Cardinality(js) <= batch_o
          BY <1>9, <3>1, <4>1, SomeFailedFits
        <4> HIDE DEF batch_o
        <4>3. handled[o] + Cardinality(js) <= Limit
          BY <1>3, <1>9, <3>1, <4>2
        <4>4. QED BY <1>1, <1>3, <1>8, <4>1, <4>2, <4>3, SetOpKeepsCalls
      <3>2. CASE ~(handled[o] < Limit)
        BY <1>8, <1>10, <3>2 DEF Fetch
      <3>3. QED BY <3>1, <3>2
    <2>3. QED BY <1>6, <1>7, <2>1, <2>2
  <1>11. CASE Purge(o)
    <2>1. requeued' = requeued
      BY <1>11 DEF Purge
    <2>2. CASE handled[o] < Limit
      <3>1. PICK js \in SomeFailed(batch_o) :
                /\ Move(js, "over")
                /\ IF js = {} THEN Return(o)
                   ELSE SetOp(o, "fetch", {}, handled[o] + Cardinality(js))
        BY <1>11, <2>2 DEF Purge
      <3>2. /\ js \in SUBSET In("failed") /\ js \in SUBSET Messages
            /\ Cardinality(js) \in Nat /\ Cardinality(js) <= batch_o
        BY <1>9, <2>2, <3>1, SomeFailedFits
      <3> HIDE DEF batch_o
      <3>3. /\ handled[o] + Cardinality(js) \in Nat
            /\ handled[o] + Cardinality(js) + 0 <= Limit
        BY <1>3, <1>9, <2>2, <3>2
      <3>4. CallsOK'
        BY <1>1, <1>4, <1>8, <3>1, <3>3, SetOpKeepsCalls
      <3>5. QueueOK' /\ Queued' = Queued /\ Load' \subseteq Load
        BY <1>1, <1>2, <2>1, <3>1, <3>2
           DEF QueueOK, Queued, Load, In, Move, States, Jobs
      <3>6. QED BY <1>6, <3>4, <3>5
    <2>3. CASE ~(handled[o] < Limit)
      <3>1. Return(o) /\ state' = state
        BY <1>11, <2>3 DEF Purge
      <3>2. QED BY <1>6, <1>7, <1>8, <2>1, <3>1 DEF queueVars
    <2>4. QED BY <2>2, <2>3
  <1>12. CASE Retry(o)
    <2>1. PICK m \in chosen[o] :
              IF state[m] = "failed"
              THEN /\ Move({m}, "waiting")
                   /\ requeued' = requeued \cup {m}
                   /\ SetOp(o, AfterRetry(chosen[o] \ {m}), chosen[o] \ {m},
                            handled[o] + 1)
              ELSE /\ UNCHANGED queueVars
                   /\ Return(o)
      BY <1>12 DEF Retry
    <2>2. /\ chosen[o] \in SUBSET Messages /\ m \in Messages
          /\ handled[o] + Cardinality(chosen[o]) <= Limit
      BY <1>1 DEF CallsOK
    <2>3. CASE state[m] = "failed"
      <3>1. /\ IsFiniteSet(chosen[o]) /\ Cardinality(chosen[o]) \in Nat
            /\ Cardinality(chosen[o] \ {m}) = Cardinality(chosen[o]) - 1
        BY <2>2, Limits, FS_Subset, FS_CardinalityType, FS_RemoveElement
      <3>2. handled[o] + 1 + Cardinality(chosen[o] \ {m}) <= Limit
            /\ handled[o] + 1 \in Nat
        BY <1>3, <2>2, <3>1
      <3>3. AfterRetry(chosen[o] \ {m}) \in {"fetch", "retry", "done"}
            /\ chosen[o] \ {m} \in SUBSET Messages
        BY <2>2 DEF AfterRetry
      <3>4. CallsOK'
        BY <1>1, <2>1, <2>3, <3>2, <3>3, SetOpKeepsCalls
      <3>5. QueueOK' /\ Queued' = Queued /\ Load' \subseteq Load
        BY <1>1, <1>2, <2>1, <2>2, <2>3
           DEF QueueOK, Queued, Load, In, Move, States, Jobs
      <3>6. QED BY <1>6, <3>4, <3>5
    <2>4. CASE state[m] # "failed"
      BY <1>6, <1>7, <1>8, <2>1, <2>4
    <2>5. QED BY <2>3, <2>4
  <1>13. QED BY <1>10, <1>11, <1>12 DEF Proceed

-----------------------------------------------------------------------------
LEMMA QueueUntouched ==
    ASSUME QueueInv, ThroughputStep \/ UNCHANGED vars
    PROVE  QueueInv'
  <1>1. /\ UNCHANGED <<queueVars, ingestVars, processVars, operatorVars>>
        /\ recorded' = recorded
    BY DEF ThroughputStep, TimerFires, FlushEnds, AskSnapshot, AwaitFlush,
           ReadSnapshot, vars, throughputVars, countVars
  <1>2. QED
    BY <1>1 DEF QueueInv, QueueOK, ProcessesOK, CallsOK, QueueBounded,
                CountsFit, Queued, queueVars, ingestVars, processVars,
                operatorVars, In

LEMMA QueueInitially == Init => QueueInv
  <1> SUFFICES ASSUME Init PROVE QueueInv
    OBVIOUS
  <1> USE DEF Init
  <1>1. \A s : s # "new" => In(s) = {}
    BY DEF In
  <1>2. Cardinality({}) = 0 /\ IsFiniteSet({})
    BY FS_EmptySet
  <1>3. Load = {} /\ Queued = {}
    BY <1>1 DEF Load, Queued, Jobs
  <1>4. QueueOK
    BY <1>1 DEF QueueOK, States
  <1>5. ProcessesOK
    BY Limits DEF ProcessesOK
  <1>6. CallsOK
    BY <1>2, Limits DEF CallsOK
  <1>7. QueueBounded
    BY <1>2, <1>3, Limits DEF QueueBounded, Load
  <1>8. CountsFit
    BY <1>2, <1>3 DEF CountsFit, ThroughputInit
  <1>9. QED BY <1>4, <1>5, <1>6, <1>7, <1>8 DEF QueueInv

LEMMA QueueInvHolds == Spec => [](QueueInv /\ CountsInv)
  <1>1. QueueInv /\ CountsInv /\ [Next]_vars => QueueInv'
    <2> SUFFICES ASSUME QueueInv, CountsInv, [Next]_vars PROVE QueueInv'
      OBVIOUS
    <2>1. recorded \in Nat
      BY DEF CountsInv, ThroughputTypeOK
    <2>2. QED
      BY <2>1, ProducerPreserves, ProcessesPreserve, OperatorsPreserve,
         QueueUntouched DEF Next
  <1>2. CountsInv /\ [Next]_vars => CountsInv'
    BY CountsPreserved, NextCounts
  <1>3. Init => QueueInv /\ CountsInv
    BY QueueInitially, CountsInitially DEF Init
  <1>4. QED BY <1>1, <1>2, <1>3, PTL DEF Spec

\* Every variable of the queue and of its counters keeps its type: no call
\* handles more jobs than it was asked to.
THEOREM TypeOKHolds == Spec => []TypeOK
  <1>1. QueueInv /\ CountsInv => TypeOK
    BY DEF QueueInv, CountsInv, QueueOK, ProcessesOK, CallsOK, Queued, TypeOK
  <1>2. QED BY <1>1, QueueInvHolds, PTL

\* Back-pressure bounds the jobs that wait for their first run by the limit and
\* the handlers that were between the count and the addition at once, whatever
\* is retried meanwhile.
THEOREM QueueBoundedHolds == Spec => []QueueBounded
  <1>1. QueueInv => QueueBounded
    BY DEF QueueInv
  <1>2. QED BY <1>1, QueueInvHolds, PTL

\* The counter in Redis never exceeds the number of jobs that were added:
\* rejected additions, crashes and flushes that fail only make it fall behind.
THEOREM CountedWasEnqueuedHolds == Spec => []CountedWasEnqueued
  <1>1. QueueInv /\ CountsInv => CountedWasEnqueued
    <2> SUFFICES ASSUME QueueInv, CountsInv PROVE CountedWasEnqueued
      OBVIOUS
    <2>1. /\ recorded = pendingRedis + batch + redisCount + dropped
          /\ recorded \in Nat /\ pendingRedis \in Nat /\ batch \in Nat
          /\ redisCount \in Nat /\ dropped \in Nat
      BY DEF CountsInv, CountsConserved, ThroughputTypeOK
    <2>2. Cardinality(uncounted) \in Nat /\ Cardinality(Queued) \in Nat
      BY PartsAreFinite, FS_Subset, FS_CardinalityType DEF QueueInv, QueueOK
    <2>3. redisCount <= Cardinality(Queued)
      BY <2>1, <2>2 DEF QueueInv, CountsFit
    <2>4. QED BY <2>3 DEF CountedWasEnqueued, Queued
  <1>2. QED BY <1>1, QueueInvHolds, PTL
=============================================================================
