---------------------------- MODULE DeliveryProofs ----------------------------
(* Proofs about Delivery, for every number of jobs, subscriptions, however *)
(* many of them share a callback, and every number of attempts,            *)
(* workers, permits and stalls: types, at-least-once delivery, the budget  *)
(* of POSTs, the failures recorded and the refinement of AtLeastOnce.      *)
EXTENDS Delivery, FiniteSums, TLAPS

\* What the loop needs to stay within its bounds: another attempt is only
\* ahead while one is left, and a failure is only recorded while one is due.
StepsFit == \A j \in Jobs, s \in Subscriptions :
                /\ pc[j][s] = "backoff" => attempt[j][s] < maxAttempts
                /\ pc[j][s] = "recordFailure" => records[j][s] > 0

TypeInv == TypeOK /\ StepsFit

-----------------------------------------------------------------------------
(* Functions of two arguments. *)

LEMMA Nested ==
    ASSUME NEW S, NEW f \in [Jobs -> [Subscriptions -> S]],
           NEW j \in Jobs, NEW s \in Subscriptions, NEW v \in S
    PROVE  LET g == [f EXCEPT ![j][s] = v] IN
           /\ g \in [Jobs -> [Subscriptions -> S]]
           /\ g[j][s] = v
           /\ \A i \in Jobs, r \in Subscriptions :
                  i # j \/ r # s => g[i][r] = f[i][r]
  OBVIOUS

LEMMA CallbackUpdate ==
    ASSUME NEW S, NEW f \in [Callbacks -> S], NEW c \in Callbacks, NEW v \in S
    PROVE  /\ [f EXCEPT ![c] = v] \in [Callbacks -> S]
           /\ [f EXCEPT ![c] = v][c] = v
           /\ \A d \in Callbacks : d # c => [f EXCEPT ![c] = v][d] = f[d]
  OBVIOUS

LEMMA CallbackType == \A s \in Subscriptions : CallbackOf[s] \in Callbacks
  BY RowsAssumption

\* The circuit of one callback is written as a whole or left alone.
LEMMA CircuitSet ==
    ASSUME TypeOK, NEW c \in Callbacks, NEW isOpen \in BOOLEAN,
           \/ /\ open' = [open EXCEPT ![c] = isOpen]
              /\ failures' = [failures EXCEPT ![c] = 0]
           \/ RedisMayFail /\ UNCHANGED circuitVars
    PROVE  open' \in [Callbacks -> BOOLEAN] /\ failures' \in [Callbacks -> Nat]
  <1>1. open \in [Callbacks -> BOOLEAN] /\ failures \in [Callbacks -> Nat]
    BY DEF TypeOK
  <1>2. CASE /\ open' = [open EXCEPT ![c] = isOpen]
             /\ failures' = [failures EXCEPT ![c] = 0]
    BY <1>1, <1>2, CallbackUpdate
  <1>3. CASE UNCHANGED circuitVars
    BY <1>1, <1>3 DEF circuitVars
  <1>4. QED BY <1>2, <1>3

LEMMA GoToType ==
    ASSUME TypeOK, NEW j \in Jobs, NEW s \in Subscriptions, NEW step \in Steps,
           GoTo(j, s, step)
    PROVE  /\ pc' \in [Jobs -> [Subscriptions -> Steps]]
           /\ pc'[j][s] = step
           /\ \A i \in Jobs, r \in Subscriptions :
                  i # j \/ r # s => pc'[i][r] = pc[i][r]
  BY Nested DEF GoTo, TypeOK

LEMMA ConstantsType ==
    /\ NoDelivery \in [Subscriptions -> Steps]
    /\ NoAnswer \in [Subscriptions -> Answers \cup {"none"}]
    /\ Zeros \in [Subscriptions -> {0}]
    /\ 0 \in 0..maxAttempts /\ 0 \in 0..2 /\ 0 \in Nat
    /\ 0 \in 0..MaxOpsRetries /\ 1 \in 0..maxAttempts
  BY LimitsAssumption DEF NoDelivery, NoAnswer, Zeros, Steps

LEMMA ZerosType ==
    /\ Zeros \in [Subscriptions -> Nat]
    /\ Zeros \in [Subscriptions -> 0..maxAttempts]
    /\ Zeros \in [Subscriptions -> 0..2]
  BY ConstantsType DEF Zeros

\* AfterFailure and AfterRecord name steps that fit.
LEMMA AfterFailureFits ==
    ASSUME TypeOK, NEW j \in Jobs, NEW s \in Subscriptions
    PROVE  /\ AfterFailure(j, s) \in {"rejected", "backoff"}
           /\ AfterFailure(j, s) = "backoff" => attempt[j][s] < maxAttempts
  <1>1. attempt[j][s] \in 0..maxAttempts
    BY DEF TypeOK
  <1>2. maxAttempts \in Nat
    BY LimitsAssumption
  <1>3. QED BY <1>1, <1>2 DEF AfterFailure

\* A step of one delivery keeps StepsFit if it fits itself.
LEMMA OneStepFits ==
    ASSUME TypeInv, NEW j \in Jobs, NEW s \in Subscriptions, NEW step \in Steps,
           GoTo(j, s, step),
           \A i \in Jobs, r \in Subscriptions : i # j \/ r # s =>
               /\ attempt'[i][r] = attempt[i][r]
               /\ records'[i][r] = records[i][r],
           step = "backoff" => attempt'[j][s] < maxAttempts,
           step = "recordFailure" => records'[j][s] > 0
    PROVE  StepsFit'
  <1> SUFFICES ASSUME NEW i \in Jobs, NEW r \in Subscriptions
               PROVE  /\ pc'[i][r] = "backoff" => attempt'[i][r] < maxAttempts
                      /\ pc'[i][r] = "recordFailure" => records'[i][r] > 0
    BY DEF StepsFit
  <1>1. pc'[j][s] = step /\ (i # j \/ r # s => pc'[i][r] = pc[i][r])
    BY GoToType DEF TypeInv
  <1>2. CASE i = j /\ r = s
    BY <1>1, <1>2
  <1>3. CASE i # j \/ r # s
    BY <1>1, <1>3 DEF TypeInv, StepsFit
  <1>4. QED BY <1>2, <1>3

\* Dropping the deliveries of a set of jobs keeps StepsFit.
LEMMA ResetFits ==
    ASSUME StepsFit,
           \A i \in Jobs : \/ pc'[i] = NoDelivery
                           \/ /\ pc'[i] = pc[i]
                              /\ attempt'[i] = attempt[i]
                              /\ records'[i] = records[i]
    PROVE  StepsFit'
  BY DEF StepsFit, NoDelivery
-----------------------------------------------------------------------------
(* Types. *)

\* The end of a run leaves the functions of the job at their first values.
LEMMA ResetType ==
    ASSUME TypeInv, NEW j \in Jobs, ResetRun(j)
    PROVE  /\ stage' \in [Jobs -> Stages]
           /\ targets' \in [Jobs -> SUBSET Subscriptions]
           /\ pc' \in [Jobs -> [Subscriptions -> Steps]]
           /\ attempt' \in [Jobs -> [Subscriptions -> 0..maxAttempts]]
           /\ records' \in [Jobs -> [Subscriptions -> 0..2]]
           /\ lastAnswer' \in [Jobs -> [Subscriptions -> Answers \cup {"none"}]]
           /\ StepsFit'
  <1>1. /\ stage \in [Jobs -> Stages]
        /\ targets \in [Jobs -> SUBSET Subscriptions]
        /\ pc \in [Jobs -> [Subscriptions -> Steps]]
        /\ attempt \in [Jobs -> [Subscriptions -> 0..maxAttempts]]
        /\ records \in [Jobs -> [Subscriptions -> 0..2]]
        /\ lastAnswer \in [Jobs -> [Subscriptions -> Answers \cup {"none"}]]
    BY DEF TypeInv, TypeOK
  <1>2. /\ stage' \in [Jobs -> Stages]
        /\ targets' \in [Jobs -> SUBSET Subscriptions]
    BY <1>1 DEF ResetRun, Stages
  <1>3. pc' \in [Jobs -> [Subscriptions -> Steps]]
    BY <1>1, ConstantsType DEF ResetRun
  <1>4. /\ attempt' \in [Jobs -> [Subscriptions -> 0..maxAttempts]]
        /\ records' \in [Jobs -> [Subscriptions -> 0..2]]
    BY <1>1, ZerosType DEF ResetRun
  <1>5. lastAnswer' \in [Jobs -> [Subscriptions -> Answers \cup {"none"}]]
    BY <1>1, ConstantsType DEF ResetRun
  <1>6. StepsFit'
    <2>1. \A i \in Jobs : \/ pc'[i] = NoDelivery
                          \/ /\ pc'[i] = pc[i]
                             /\ attempt'[i] = attempt[i]
                             /\ records'[i] = records[i]
      BY <1>1 DEF ResetRun
    <2>2. QED BY <2>1, ResetFits DEF TypeInv
  <1>7. QED BY <1>2, <1>3, <1>4, <1>5, <1>6

LEMMA FinishRunType ==
    ASSUME TypeInv, NEW j \in Jobs, NEW success \in BOOLEAN,
           FinishRun(j, success)
    PROVE  TypeInv'
  <1>1. ResetRun(j)
    BY DEF FinishRun
  <1>2. jobState' \in [Jobs -> JobStates]
    <2>1. jobState \in [Jobs -> JobStates]
      BY DEF TypeInv, TypeOK
    <2>2. QED BY <2>1 DEF FinishRun, JobStates
  <1>3. attemptsMade' \in [Jobs -> Nat]
    BY DEF FinishRun, TypeInv, TypeOK
  <1>4. /\ stalled' = stalled /\ opsRetries' = opsRetries /\ subs' = subs
        /\ open' = open /\ failures' = failures /\ owed' = owed
        /\ acked' = acked /\ posts' = posts
    BY DEF FinishRun, circuitVars
  <1>5. TypeOK'
    BY <1>1, <1>2, <1>3, <1>4, ResetType DEF TypeInv, TypeOK
  <1>6. QED BY <1>1, <1>5, ResetType DEF TypeInv

\* A delivery whose attempt failed.
LEMMA FailType ==
    ASSUME TypeInv, NEW j \in Jobs, NEW s \in Subscriptions, NEW n \in 0..2,
           Fail(j, s, n), attempt' = attempt
    PROVE  /\ pc' \in [Jobs -> [Subscriptions -> Steps]]
           /\ records' \in [Jobs -> [Subscriptions -> 0..2]]
           /\ StepsFit'
  <1> DEFINE step == IF n > 0 THEN "recordFailure" ELSE AfterFailure(j, s)
  <1>1. step \in Steps /\ GoTo(j, s, step)
    BY AfterFailureFits DEF Fail, Steps, TypeInv
  <1>2. records \in [Jobs -> [Subscriptions -> 0..2]]
        /\ records' = [records EXCEPT ![j][s] = n]
    BY DEF Fail, TypeInv, TypeOK
  <1>3. /\ records' \in [Jobs -> [Subscriptions -> 0..2]]
        /\ records'[j][s] = n
        /\ \A i \in Jobs, r \in Subscriptions :
               i # j \/ r # s => records'[i][r] = records[i][r]
    BY <1>2, Nested
  <1>4. /\ step = "backoff" => attempt'[j][s] < maxAttempts
        /\ step = "recordFailure" => records'[j][s] > 0
    BY <1>3, AfterFailureFits DEF TypeInv
  <1>5. pc' \in [Jobs -> [Subscriptions -> Steps]]
    BY <1>1, GoToType DEF TypeInv
  <1>6. StepsFit'
    <2> HIDE DEF step
    <2>1. QED BY <1>1, <1>3, <1>4, OneStepFits
  <1>7. QED BY <1>3, <1>5, <1>6

\* A step of one delivery that touches neither its attempt nor its records.
LEMMA PlainStepType ==
    ASSUME TypeInv, NEW j \in Jobs, NEW s \in Subscriptions,
           NEW step \in Steps \ {"backoff", "recordFailure"},
           GoTo(j, s, step), attempt' = attempt, records' = records
    PROVE  /\ pc' \in [Jobs -> [Subscriptions -> Steps]]
           /\ StepsFit'
  BY GoToType, OneStepFits DEF TypeInv

LEMMA AfterRecordFits ==
    ASSUME TypeInv, NEW j \in Jobs, NEW s \in Subscriptions, NEW left \in 0..2
    PROVE  /\ AfterRecord(j, s, left) \in
                  {"recordFailure", "rejected", "backoff"}
           /\ AfterRecord(j, s, left) = "backoff" =>
                  attempt[j][s] < maxAttempts
           /\ AfterRecord(j, s, left) = "recordFailure" => left > 0
  BY AfterFailureFits DEF AfterRecord, TypeInv

LEMMA DeliveryStepType ==
    ASSUME TypeInv, NEW j \in Jobs, NEW s \in Subscriptions,
           DeliveryStep(j, s) \/ EnterLimiter(j, s)
    PROVE  TypeInv'
  <1> USE DEF queueVars, circuitVars, history
  <1>0. TypeOK
    BY DEF TypeInv
  <1>1. CASE CheckCircuit(j, s)
    <2>1. PICK step \in {"rejected", "limiter"} : GoTo(j, s, step)
      BY <1>1 DEF CheckCircuit
    <2>2. pc' \in [Jobs -> [Subscriptions -> Steps]] /\ StepsFit'
      BY <1>1, <2>1, PlainStepType DEF CheckCircuit, Steps
    <2>3. QED BY <1>0, <1>1, <2>2 DEF CheckCircuit, TypeInv, TypeOK
  <1>2. CASE EnterLimiter(j, s)
    <2>1. /\ attempt \in [Jobs -> [Subscriptions -> 0..maxAttempts]]
          /\ attempt' = [attempt EXCEPT ![j][s] = 1]
      BY <1>0, <1>2 DEF EnterLimiter, TypeOK
    <2>2. /\ attempt' \in [Jobs -> [Subscriptions -> 0..maxAttempts]]
          /\ \A i \in Jobs, r \in Subscriptions :
                 i # j \/ r # s => attempt'[i][r] = attempt[i][r]
      BY <2>1, Nested, ConstantsType
    <2>3. GoTo(j, s, "post") /\ records' = records /\ "post" \in Steps
      BY <1>2 DEF EnterLimiter, Steps
    <2>4. pc' \in [Jobs -> [Subscriptions -> Steps]] /\ StepsFit'
      BY <1>0, <2>2, <2>3, GoToType, OneStepFits
    <2>5. QED BY <1>0, <1>2, <2>2, <2>4 DEF EnterLimiter, TypeInv, TypeOK
  <1>3. CASE Post(j, s)
    <2>1. pc' \in [Jobs -> [Subscriptions -> Steps]] /\ StepsFit'
      BY <1>3, PlainStepType DEF Post, Steps
    <2>2. posts \in [Jobs -> [Subscriptions -> Nat]] /\ posts[j][s] + 1 \in Nat
      BY <1>0 DEF TypeOK
    <2>3. posts' = [posts EXCEPT ![j][s] = posts[j][s] + 1]
      BY <1>3, <2>2 DEF Post
    <2>4. posts' \in [Jobs -> [Subscriptions -> Nat]]
      BY <2>2, <2>3, Nested
    <2>5. QED BY <1>0, <1>3, <2>1, <2>4 DEF Post, TypeInv, TypeOK
  <1>4. ASSUME NEW answer \in Answers, Answer(j, s, answer)
        PROVE  TypeInv'
    <2>1. lastAnswer' \in [Jobs -> [Subscriptions -> Answers \cup {"none"}]]
      <3>1. lastAnswer \in [Jobs -> [Subscriptions -> Answers \cup {"none"}]]
            /\ answer \in Answers \cup {"none"}
        BY <1>0 DEF TypeOK
      <3>2. QED BY <1>4, <3>1, Nested DEF Answer
    <2>2. attempt' = attempt
      BY <1>4 DEF Answer
    <2>3. /\ pc' \in [Jobs -> [Subscriptions -> Steps]] /\ StepsFit'
          /\ records' \in [Jobs -> [Subscriptions -> 0..2]]
          /\ acked' \in [Jobs -> SUBSET Subscriptions]
      <3>1. CASE answer = "2xx"
        <4>1. GoTo(j, s, "recordSuccess") /\ records' = records
              /\ acked' = [acked EXCEPT ![j] = @ \cup {s}]
          BY <1>4, <3>1 DEF Answer
        <4>2. pc' \in [Jobs -> [Subscriptions -> Steps]] /\ StepsFit'
          BY <2>2, <4>1, PlainStepType DEF Steps
        <4>3. QED BY <1>0, <4>1, <4>2 DEF TypeOK
      <3>2. CASE answer = "410"
        <4>1. GoTo(j, s, "gone") /\ records' = records /\ acked' = acked
          BY <1>4, <3>2 DEF Answer
        <4>2. pc' \in [Jobs -> [Subscriptions -> Steps]] /\ StepsFit'
          BY <2>2, <4>1, PlainStepType DEF Steps
        <4>3. QED BY <1>0, <4>1, <4>2 DEF TypeOK
      <3>3. CASE answer \notin {"2xx", "410"}
        <4>1. PICK n \in 0..2 : Fail(j, s, n)
          <5>1. FailuresRecorded(answer, attempt[j][s] = maxAttempts) \in 0..2
            BY DEF FailuresRecorded
          <5>2. QED BY <1>4, <3>3, <5>1 DEF Answer
        <4>2. acked' = acked
          BY <1>4, <3>3 DEF Answer
        <4>3. QED BY <1>0, <2>2, <4>1, <4>2, FailType DEF TypeOK
      <3>4. QED BY <3>1, <3>2, <3>3
    <2>4. QED BY <1>0, <1>4, <2>1, <2>3 DEF Answer, TypeInv, TypeOK
  <1>5. CASE DatabaseFails(j, s)
    <2>1. PICK n \in 0..2 : Fail(j, s, n)
      BY <1>5 DEF DatabaseFails
    <2>2. /\ pc' \in [Jobs -> [Subscriptions -> Steps]] /\ StepsFit'
          /\ records' \in [Jobs -> [Subscriptions -> 0..2]]
      BY <1>5, <2>1, FailType DEF DatabaseFails
    <2>3. QED BY <1>0, <1>5, <2>2 DEF DatabaseFails, TypeInv, TypeOK
  <1>6. CASE DeleteSubscription(j, s)
    <2>1. pc' \in [Jobs -> [Subscriptions -> Steps]] /\ StepsFit'
      BY <1>6, PlainStepType DEF DeleteSubscription, Steps
    <2>2. QED BY <1>0, <1>6, <2>1 DEF DeleteSubscription, TypeInv, TypeOK
  <1>7. CASE RemoveCached(j, s)
    <2>1. pc' \in [Jobs -> [Subscriptions -> Steps]] /\ StepsFit'
      BY <1>7, PlainStepType DEF RemoveCached, Steps
    <2>2. subs' \in SUBSET Subscriptions /\ owed' \in [Jobs -> SUBSET Subscriptions]
      BY <1>0, <1>7 DEF RemoveCached, TypeOK
    <2>3. QED BY <1>0, <1>7, <2>1, <2>2 DEF RemoveCached, TypeInv, TypeOK
  <1>8. CASE MaybeUnsubscribe(j, s)
    <2>1. pc' \in [Jobs -> [Subscriptions -> Steps]] /\ StepsFit'
      BY <1>8, PlainStepType DEF MaybeUnsubscribe, Steps
    <2>2. QED BY <1>0, <1>8, <2>1 DEF MaybeUnsubscribe, TypeInv, TypeOK
  <1>9. CASE RecordSuccess(j, s)
    <2>1. pc' \in [Jobs -> [Subscriptions -> Steps]] /\ StepsFit'
      BY <1>9, PlainStepType DEF RecordSuccess, Steps
    <2>2. open' \in [Callbacks -> BOOLEAN] /\ failures' \in [Callbacks -> Nat]
      BY <1>0, <1>9, CircuitSet, CallbackType DEF RecordSuccess
    <2>3. QED BY <1>0, <1>9, <2>1, <2>2 DEF RecordSuccess, TypeInv, TypeOK
  <1>10. CASE RecordFailure(j, s)
    <2> DEFINE left == records[j][s] - 1
    <2>1. left \in 0..2
      <3>1. records[j][s] \in 0..2 /\ records[j][s] > 0
        BY <1>0, <1>10 DEF RecordFailure, TypeInv, StepsFit, TypeOK
      <3>2. QED BY <3>1
    <2>2. /\ records \in [Jobs -> [Subscriptions -> 0..2]]
          /\ records' = [records EXCEPT ![j][s] = left]
      BY <1>0, <1>10 DEF RecordFailure, TypeOK
    <2>3. PICK step \in {"trip", AfterRecord(j, s, left)} : GoTo(j, s, step)
      BY <1>10 DEF RecordFailure
    <2>4. failures' \in [Callbacks -> Nat]
      <3> DEFINE c == CallbackOf[s]
      <3>1. /\ c \in Callbacks
            /\ failures \in [Callbacks -> Nat] /\ failures[c] + 1 \in Nat
        BY <1>0, CallbackType DEF TypeOK
      <3>2. \/ failures' = [failures EXCEPT ![c] = failures[c] + 1]
            \/ failures' = failures
        BY <1>10, <3>1 DEF RecordFailure
      <3> HIDE DEF c
      <3>3. QED BY <3>1, <3>2, CallbackUpdate
    <2> HIDE DEF left
    <2>5. /\ records' \in [Jobs -> [Subscriptions -> 0..2]]
          /\ records'[j][s] = left
          /\ \A i \in Jobs, r \in Subscriptions :
                 i # j \/ r # s => records'[i][r] = records[i][r]
      BY <2>1, <2>2, Nested
    <2>6. attempt' = attempt
      BY <1>10 DEF RecordFailure
    <2>7. /\ step \in Steps
          /\ step = "backoff" => attempt[j][s] < maxAttempts
          /\ step = "recordFailure" => left > 0
      BY <2>1, <2>3, AfterRecordFits DEF Steps
    <2>8. pc' \in [Jobs -> [Subscriptions -> Steps]] /\ StepsFit'
      BY <1>0, <2>3, <2>5, <2>6, <2>7, GoToType, OneStepFits
    <2>9. QED
      BY <1>0, <1>10, <2>4, <2>5, <2>8 DEF RecordFailure, TypeInv, TypeOK
  <1>11. CASE Trip(j, s)
    <2>1. records[j][s] \in 0..2
      BY <1>0 DEF TypeOK
    <2> DEFINE step == AfterRecord(j, s, records[j][s])
    <2>2. /\ step \in Steps
          /\ step = "backoff" => attempt[j][s] < maxAttempts
          /\ step = "recordFailure" => records[j][s] > 0
      BY <2>1, AfterRecordFits DEF Steps
    <2>3. GoTo(j, s, step) /\ attempt' = attempt /\ records' = records
      BY <1>11 DEF Trip
    <2>4. open' \in [Callbacks -> BOOLEAN] /\ failures' \in [Callbacks -> Nat]
      BY <1>0, <1>11, CircuitSet, CallbackType DEF Trip
    <2> HIDE DEF step
    <2>5. pc' \in [Jobs -> [Subscriptions -> Steps]] /\ StepsFit'
      BY <1>0, <2>2, <2>3, GoToType, OneStepFits
    <2>6. QED BY <1>0, <1>11, <2>4, <2>5 DEF Trip, TypeInv, TypeOK
  <1>12. CASE Backoff(j, s)
    <2>1. attempt \in [Jobs -> [Subscriptions -> 0..maxAttempts]]
          /\ attempt[j][s] + 1 \in 0..maxAttempts
      <3>1. attempt \in [Jobs -> [Subscriptions -> 0..maxAttempts]]
            /\ maxAttempts \in Nat
        BY <1>0, LimitsAssumption DEF TypeOK
      <3>2. attempt[j][s] \in 0..maxAttempts /\ attempt[j][s] < maxAttempts
        BY <1>12, <3>1 DEF Backoff, TypeInv, StepsFit
      <3>3. QED BY <3>1, <3>2
    <2>2. attempt' = [attempt EXCEPT ![j][s] = attempt[j][s] + 1]
      BY <1>12, <2>1 DEF Backoff
    <2>3. /\ attempt' \in [Jobs -> [Subscriptions -> 0..maxAttempts]]
          /\ \A i \in Jobs, r \in Subscriptions :
                 i # j \/ r # s => attempt'[i][r] = attempt[i][r]
      BY <2>1, <2>2, Nested
    <2>4. GoTo(j, s, "post") /\ records' = records /\ "post" \in Steps
      BY <1>12 DEF Backoff, Steps
    <2>5. pc' \in [Jobs -> [Subscriptions -> Steps]] /\ StepsFit'
      BY <1>0, <2>3, <2>4, GoToType, OneStepFits
    <2>6. QED BY <1>0, <1>12, <2>3, <2>5 DEF Backoff, TypeInv, TypeOK
  <1>13. QED
    BY <1>1, <1>2, <1>3, <1>4, <1>5, <1>6, <1>7, <1>8, <1>9, <1>10, <1>11,
       <1>12 DEF DeliveryStep

LEMMA QueueStepType ==
    ASSUME TypeInv, NEW j \in Jobs, QueueStep(j)
    PROVE  TypeInv'
  <1> USE DEF queueVars, fanOutVars, circuitVars, history
  <1>0. TypeOK /\ StepsFit
    BY DEF TypeInv
  <1>1. CASE Enqueue(j)
    <2>1. /\ jobState' \in [Jobs -> JobStates]
          /\ owed' \in [Jobs -> SUBSET Subscriptions]
      BY <1>0, <1>1 DEF Enqueue, TypeOK, JobStates
    <2>2. StepsFit'
      BY <1>0, <1>1 DEF Enqueue, StepsFit
    <2>3. QED BY <1>0, <1>1, <2>1, <2>2 DEF Enqueue, TypeInv, TypeOK
  <1>2. CASE StartJob(j)
    <2>1. /\ jobState' \in [Jobs -> JobStates]
          /\ stage' \in [Jobs -> Stages]
      BY <1>0, <1>2 DEF StartJob, TypeOK, JobStates, Stages
    <2>2. StepsFit'
      BY <1>0, <1>2 DEF StartJob, StepsFit
    <2>3. QED BY <1>0, <1>2, <2>1, <2>2 DEF StartJob, TypeInv, TypeOK
  <1>3. CASE RetryFailed(j)
    <2>1. jobState' \in [Jobs -> JobStates]
      BY <1>0, <1>3 DEF RetryFailed, TypeOK, JobStates
    <2>2. opsRetries' \in [Jobs -> 0..MaxOpsRetries]
      <3>1. /\ opsRetries \in [Jobs -> 0..MaxOpsRetries]
            /\ MaxOpsRetries \in Nat /\ opsRetries[j] < MaxOpsRetries
        BY <1>0, <1>3, LimitsAssumption DEF RetryFailed, TypeOK
      <3>2. opsRetries[j] + 1 \in 0..MaxOpsRetries
        <4>1. opsRetries[j] \in 0..MaxOpsRetries
          BY <3>1
        <4>2. QED BY <3>1, <4>1
      <3>3. opsRetries' = [opsRetries EXCEPT ![j] = opsRetries[j] + 1]
        BY <1>3 DEF RetryFailed
      <3>4. QED BY <3>1, <3>2, <3>3, Zenon
    <2>3. StepsFit'
      BY <1>0, <1>3 DEF RetryFailed, StepsFit
    <2>4. QED BY <1>0, <1>3, <2>1, <2>2, <2>3 DEF RetryFailed, TypeInv, TypeOK
  <1>4. CASE PurgeFailed(j)
    <2>1. jobState' \in [Jobs -> JobStates]
      BY <1>0, <1>4 DEF PurgeFailed, TypeOK, JobStates
    <2>2. StepsFit'
      BY <1>0, <1>4 DEF PurgeFailed, StepsFit
    <2>3. QED BY <1>0, <1>4, <2>1, <2>2 DEF PurgeFailed, TypeInv, TypeOK
  <1>5. QED BY <1>1, <1>2, <1>3, <1>4 DEF QueueStep

LEMMA JobStepType ==
    ASSUME TypeInv, NEW j \in Jobs, JobStep(j)
    PROVE  TypeInv'
  <1>1. CASE GetActive(j)
    <2> DEFINE start == [s \in Subscriptions |-> IF s \in subs THEN "isOpen"
                                                          ELSE "off"]
    <2>1. start \in [Subscriptions -> Steps]
      BY DEF Steps
    <2>2. /\ pc \in [Jobs -> [Subscriptions -> Steps]]
          /\ pc' = [pc EXCEPT ![j] = start]
      BY <1>1 DEF GetActive, TypeInv, TypeOK
    <2>3. /\ pc' \in [Jobs -> [Subscriptions -> Steps]]
          /\ pc'[j] = start
          /\ \A i \in Jobs : i # j => pc'[i] = pc[i]
      BY <2>1, <2>2, Zenon
    <2>4. StepsFit'
      <3> SUFFICES ASSUME NEW i \in Jobs, NEW r \in Subscriptions
                   PROVE  /\ pc'[i][r] = "backoff" =>
                                 attempt'[i][r] < maxAttempts
                          /\ pc'[i][r] = "recordFailure" => records'[i][r] > 0
        BY DEF StepsFit
      <3>1. attempt' = attempt /\ records' = records
        BY <1>1 DEF GetActive
      <3>2. CASE i = j
        BY <2>3, <3>2
      <3>3. CASE i # j
        BY <2>3, <3>1, <3>3 DEF TypeInv, StepsFit
      <3>4. QED BY <3>2, <3>3
    <2>5. /\ stage' \in [Jobs -> Stages]
          /\ targets' \in [Jobs -> SUBSET Subscriptions]
      BY <1>1 DEF GetActive, TypeInv, TypeOK, Stages
    <2> HIDE DEF start
    <2>6. QED
      BY <1>1, <2>3, <2>4, <2>5
         DEF GetActive, TypeInv, TypeOK, queueVars, circuitVars, history
  <1>2. CASE SkipEmpty(j)
    BY <1>2, FinishRunType DEF SkipEmpty
  <1>3. CASE Settle(j)
    BY <1>3, FinishRunType DEF Settle
  <1>4. QED BY <1>1, <1>2, <1>3 DEF JobStep

LEMMA SurroundingsType ==
    ASSUME TypeInv, Surroundings
    PROVE  TypeInv'
  <1> USE DEF queueVars, fanOutVars, circuitVars, history
  <1>0. TypeOK /\ StepsFit
    BY DEF TypeInv
  <1>1. pc' = pc /\ attempt' = attempt /\ records' = records
    BY DEF Surroundings, CircuitCools, WindowSlides, CacheGains, CacheLoses
  <1>2. StepsFit'
    BY <1>0, <1>1 DEF StepsFit
  <1>3. ASSUME NEW c \in Callbacks, CircuitCools(c)
        PROVE  TypeInv'
    <2>1. open' \in [Callbacks -> BOOLEAN]
      BY <1>0, <1>3, CallbackUpdate DEF CircuitCools, TypeOK
    <2>2. QED BY <1>0, <1>2, <1>3, <2>1 DEF CircuitCools, TypeInv, TypeOK
  <1>4. ASSUME NEW c \in Callbacks, WindowSlides(c)
        PROVE  TypeInv'
    <2>1. /\ failures \in [Callbacks -> Nat]
          /\ failures' = [failures EXCEPT ![c] = failures[c] - 1]
          /\ failures[c] > 0
      BY <1>0, <1>4 DEF WindowSlides, TypeOK
    <2>2. failures[c] - 1 \in Nat
      <3>1. failures[c] \in Nat
        BY <2>1
      <3>2. QED BY <2>1, <3>1
    <2>3. failures' \in [Callbacks -> Nat]
      BY <2>1, <2>2, CallbackUpdate
    <2>4. QED BY <1>0, <1>2, <1>4, <2>3 DEF WindowSlides, TypeInv, TypeOK
  <1>5. ASSUME NEW s \in Subscriptions, CacheGains(s)
        PROVE  TypeInv'
    <2>1. subs' \in SUBSET Subscriptions
      BY <1>0, <1>5 DEF CacheGains, TypeOK
    <2>2. QED BY <1>0, <1>2, <1>5, <2>1 DEF CacheGains, TypeInv, TypeOK
  <1>6. ASSUME NEW s \in Subscriptions, CacheLoses(s)
        PROVE  TypeInv'
    <2>1. /\ subs' \in SUBSET Subscriptions
          /\ owed' \in [Jobs -> SUBSET Subscriptions]
      BY <1>0, <1>6 DEF CacheLoses, TypeOK
    <2>2. QED BY <1>0, <1>2, <1>6, <2>1 DEF CacheLoses, TypeInv, TypeOK
  <1>7. QED BY <1>3, <1>4, <1>5, <1>6 DEF Surroundings

LEMMA CrashType ==
    ASSUME TypeInv, Crash
    PROVE  TypeInv'
  <1>0. TypeOK /\ StepsFit
    BY DEF TypeInv
  <1>1. jobState' \in [Jobs -> JobStates]
    BY <1>0 DEF Crash, TypeOK, JobStates
  <1>2. stalled' \in [Jobs -> Nat]
    BY <1>0 DEF Crash, TypeOK
  <1>3. /\ stage' \in [Jobs -> Stages]
        /\ targets' \in [Jobs -> SUBSET Subscriptions]
    BY <1>0 DEF Crash, TypeOK, Stages
  <1>4. pc' \in [Jobs -> [Subscriptions -> Steps]]
    BY <1>0, ConstantsType DEF Crash, TypeOK
  <1>5. /\ attempt' \in [Jobs -> [Subscriptions -> 0..maxAttempts]]
        /\ records' \in [Jobs -> [Subscriptions -> 0..2]]
    BY <1>0, ZerosType DEF Crash, TypeOK
  <1>6. lastAnswer' \in [Jobs -> [Subscriptions -> Answers \cup {"none"}]]
    BY <1>0, ConstantsType DEF Crash, TypeOK
  <1>7. StepsFit'
    <2>1. \A i \in Jobs : \/ pc'[i] = NoDelivery
                          \/ /\ pc'[i] = pc[i]
                             /\ attempt'[i] = attempt[i]
                             /\ records'[i] = records[i]
      BY DEF Crash
    <2>2. QED BY <1>0, <2>1, ResetFits
  <1>8. QED
    BY <1>0, <1>1, <1>2, <1>3, <1>4, <1>5, <1>6, <1>7
       DEF Crash, TypeInv, TypeOK, circuitVars

LEMMA TypeInit ==
    ASSUME Init
    PROVE  TypeInv
  <1>1. TypeOK
    <2>1. /\ jobState \in [Jobs -> JobStates] /\ stage \in [Jobs -> Stages]
          /\ targets \in [Jobs -> SUBSET Subscriptions]
          /\ subs \in SUBSET Subscriptions
          /\ owed \in [Jobs -> SUBSET Subscriptions]
          /\ acked \in [Jobs -> SUBSET Subscriptions]
          /\ open \in [Callbacks -> BOOLEAN]
      BY DEF Init, JobStates, Stages
    <2>2. /\ attemptsMade \in [Jobs -> Nat] /\ stalled \in [Jobs -> Nat]
          /\ opsRetries \in [Jobs -> 0..MaxOpsRetries]
      BY ConstantsType DEF Init
    <2>3. /\ pc \in [Jobs -> [Subscriptions -> Steps]]
          /\ lastAnswer \in [Jobs -> [Subscriptions -> Answers \cup {"none"}]]
      BY ConstantsType DEF Init
    <2>4. /\ attempt \in [Jobs -> [Subscriptions -> 0..maxAttempts]]
          /\ records \in [Jobs -> [Subscriptions -> 0..2]]
          /\ failures \in [Callbacks -> Nat]
          /\ posts \in [Jobs -> [Subscriptions -> Nat]]
      BY ZerosType DEF Init
    <2>5. QED BY <2>1, <2>2, <2>3, <2>4 DEF TypeOK
  <1>2. StepsFit
    BY DEF Init, StepsFit, NoDelivery
  <1>3. QED BY <1>1, <1>2 DEF TypeInv

LEMMA TypeStep ==
    ASSUME TypeInv, [Next]_vars
    PROVE  TypeInv'
  <1>1. CASE Next
    BY <1>1, QueueStepType, JobStepType, DeliveryStepType, SurroundingsType,
       CrashType DEF Next
  <1>2. CASE UNCHANGED vars
    BY <1>2 DEF vars, queueVars, fanOutVars, circuitVars, history, TypeInv,
                TypeOK, StepsFit
  <1>3. QED BY <1>1, <1>2

\* Every variable keeps its type: the loop of deliverToSubscriber never
\* passes maxAttempts, and never records more failures than are due.
THEOREM TypeOKHolds == Spec => []TypeOK
  <1>1. Init => TypeInv
    BY TypeInit
  <1>2. TypeInv /\ [Next]_vars => TypeInv'
    BY TypeStep
  <1>3. TypeInv => TypeOK
    BY DEF TypeInv
  <1>4. QED BY <1>1, <1>2, <1>3, PTL DEF Spec
-----------------------------------------------------------------------------
(* At-least-once delivery. *)

\* A delivery that has come this far can only end in "ok".
Served == {"cacheRemoved", "recordSuccess", "ok"}

\* A run exists exactly while BullMQ has the job active.
RunsWhileActive == \A j \in Jobs : stage[j] = "off" <=> jobState[j] # "active"

\* What a run still owes is among its targets: nobody is owed who was not
\* cached when getActive read the cache.
OwedIsTargeted ==
    \A j \in Jobs : /\ owed[j] \subseteq subs
                    /\ stage[j] = "empty" => owed[j] = {}
                    /\ stage[j] = "fanOut" => owed[j] \subseteq targets[j]

\* A delivery succeeds with a 2xx or, after a 410, because nothing is owed.
ServedIsAcked ==
    \A j \in Jobs, s \in Subscriptions :
        pc[j][s] \in Served /\ s \in owed[j] => s \in acked[j]

PromiseInv == /\ SettledMeansQuiet
              /\ RunsWhileActive
              /\ OwedIsTargeted
              /\ ServedIsAcked
              /\ NotLost

\* What a step of one delivery may do to the promise: take it to `step', and
\* acknowledge, or drop the entries of its callback, or neither.
Effect(j, s, step) ==
    /\ pc[j][s] # "off"
    /\ GoTo(j, s, step)
    /\ UNCHANGED <<queueVars, stage, targets>>
    /\ \/ UNCHANGED <<subs, owed, acked>>
       \/ /\ acked' = [acked EXCEPT ![j] = @ \cup {s}]
          /\ UNCHANGED <<subs, owed>>
       \/ /\ subs' = subs \ SameCallback(s)
          /\ owed' = [i \in Jobs |-> owed[i] \ SameCallback(s)]
          /\ UNCHANGED acked
    /\ step \in Served /\ s \in owed'[j] => s \in acked'[j]

LEMMA DeliveryEffect ==
    ASSUME TypeInv, ServedIsAcked, NEW j \in Jobs, NEW s \in Subscriptions,
           DeliveryStep(j, s) \/ EnterLimiter(j, s)
    PROVE  \E step \in Steps : Effect(j, s, step)
  <1> USE DEF history
  <1>0. TypeOK
    BY DEF TypeInv
  <1>1. CASE CheckCircuit(j, s)
    <2>1. PICK step \in {"rejected", "limiter"} : GoTo(j, s, step)
      BY <1>1 DEF CheckCircuit
    <2>2. step \in Steps /\ Effect(j, s, step)
      BY <1>1, <2>1 DEF CheckCircuit, Effect, Steps, Served
    <2>3. QED BY <2>2
  <1>2. CASE EnterLimiter(j, s)
    <2>1. "post" \in Steps /\ Effect(j, s, "post")
      BY <1>2 DEF EnterLimiter, Effect, Steps, Served
    <2>2. QED BY <2>1
  <1>3. CASE Post(j, s)
    <2>1. "posted" \in Steps /\ Effect(j, s, "posted")
      BY <1>3 DEF Post, Effect, Steps, Served
    <2>2. QED BY <2>1
  <1>4. ASSUME NEW answer \in Answers, Answer(j, s, answer)
        PROVE  \E step \in Steps : Effect(j, s, step)
    <2>1. CASE answer = "2xx"
      <3>1. /\ acked \in [Jobs -> SUBSET Subscriptions]
            /\ acked' = [acked EXCEPT ![j] = @ \cup {s}]
            /\ pc[j][s] = "posted" /\ GoTo(j, s, "recordSuccess")
            /\ UNCHANGED <<queueVars, stage, targets, subs, owed>>
        BY <1>0, <1>4, <2>1 DEF Answer, TypeOK
      <3>2. s \in acked'[j]
        BY <3>1
      <3>3. "recordSuccess" \in Steps /\ Effect(j, s, "recordSuccess")
        BY <3>1, <3>2 DEF Effect, Steps
      <3>4. QED BY <3>3
    <2>2. CASE answer = "410"
      <3>1. "gone" \in Steps /\ Effect(j, s, "gone")
        BY <1>4, <2>2 DEF Answer, Effect, Steps, Served
      <3>2. QED BY <3>1
    <2>3. CASE answer \notin {"2xx", "410"}
      <3>1. /\ pc[j][s] = "posted"
            /\ UNCHANGED <<queueVars, stage, targets, subs, owed, acked>>
            /\ \E step \in {"recordFailure", "rejected", "backoff"} :
                   GoTo(j, s, step)
        BY <1>0, <1>4, <2>3, AfterFailureFits DEF Answer, Fail
      <3>2. QED BY <3>1 DEF Effect, Steps, Served
    <2>4. QED BY <2>1, <2>2, <2>3
  <1>5. CASE DatabaseFails(j, s)
    <2>1. /\ pc[j][s] # "off"
          /\ UNCHANGED <<queueVars, stage, targets, subs, owed, acked>>
          /\ \E step \in {"recordFailure", "rejected", "backoff"} :
                 GoTo(j, s, step)
      BY <1>0, <1>5, AfterFailureFits DEF DatabaseFails, Fail
    <2>2. QED BY <2>1 DEF Effect, Steps, Served
  <1>6. CASE DeleteSubscription(j, s)
    <2>1. "rowDeleted" \in Steps /\ Effect(j, s, "rowDeleted")
      BY <1>6 DEF DeleteSubscription, Effect, Steps, Served
    <2>2. QED BY <2>1
  <1>7. CASE RemoveCached(j, s)
    <2>1. s \notin owed'[j]
      BY <1>7 DEF RemoveCached, SameCallback
    <2>2. "cacheRemoved" \in Steps /\ Effect(j, s, "cacheRemoved")
      BY <1>7, <2>1 DEF RemoveCached, Effect, Steps
    <2>3. QED BY <2>2
  <1>8. CASE MaybeUnsubscribe(j, s)
    <2>1. s \in owed[j] => s \in acked[j]
      BY <1>8 DEF MaybeUnsubscribe, ServedIsAcked, Served
    <2>2. "recordSuccess" \in Steps /\ Effect(j, s, "recordSuccess")
      BY <1>8, <2>1 DEF MaybeUnsubscribe, Effect, Steps
    <2>3. QED BY <2>2
  <1>9. CASE RecordSuccess(j, s)
    <2>1. s \in owed[j] => s \in acked[j]
      BY <1>9 DEF RecordSuccess, ServedIsAcked, Served
    <2>2. "ok" \in Steps /\ Effect(j, s, "ok")
      BY <1>9, <2>1 DEF RecordSuccess, Effect, Steps
    <2>3. QED BY <2>2
  <1>10. CASE RecordFailure(j, s)
    <2> DEFINE left == records[j][s] - 1
    <2>1. left \in 0..2
      <3>1. records[j][s] \in 0..2 /\ records[j][s] > 0
        BY <1>0, <1>10 DEF RecordFailure, TypeInv, StepsFit, TypeOK
      <3>2. QED BY <3>1
    <2>2. PICK step \in {"trip", AfterRecord(j, s, left)} : GoTo(j, s, step)
      BY <1>10 DEF RecordFailure
    <2> HIDE DEF left
    <2>3. step \in {"trip", "recordFailure", "rejected", "backoff"}
      BY <2>1, <2>2, AfterRecordFits
    <2>4. step \in Steps /\ Effect(j, s, step)
      BY <1>10, <2>2, <2>3 DEF RecordFailure, Effect, Steps, Served
    <2>5. QED BY <2>4
  <1>11. CASE Trip(j, s)
    <2> DEFINE step == AfterRecord(j, s, records[j][s])
    <2>1. step \in {"recordFailure", "rejected", "backoff"}
      <3>1. records[j][s] \in 0..2
        BY <1>0 DEF TypeOK
      <3>2. QED BY <3>1, AfterRecordFits
    <2>2. GoTo(j, s, step)
      BY <1>11 DEF Trip
    <2> HIDE DEF step
    <2>3. step \in Steps /\ Effect(j, s, step)
      BY <1>11, <2>1, <2>2 DEF Trip, Effect, Steps, Served
    <2>4. QED BY <2>3
  <1>12. CASE Backoff(j, s)
    <2>1. "post" \in Steps /\ Effect(j, s, "post")
      BY <1>12 DEF Backoff, Effect, Steps, Served
    <2>2. QED BY <2>1
  <1>13. QED
    BY <1>1, <1>2, <1>3, <1>4, <1>5, <1>6, <1>7, <1>8, <1>9, <1>10, <1>11,
       <1>12 DEF DeliveryStep

\* Acknowledgements are kept and debts only shrink in every such step.
LEMMA EffectMonotone ==
    ASSUME TypeOK, NEW j \in Jobs, NEW s \in Subscriptions, NEW step,
           Effect(j, s, step), NEW i \in Jobs
    PROVE  /\ owed'[i] \subseteq owed[i]
           /\ acked[i] \subseteq acked'[i]
           /\ owed[i] \subseteq subs => owed'[i] \subseteq subs'
  <1>1. acked \in [Jobs -> SUBSET Subscriptions]
    BY DEF TypeOK
  <1>2. QED BY <1>1 DEF Effect

LEMMA DeliveryStepSafe ==
    ASSUME TypeInv, PromiseInv, NEW j \in Jobs, NEW s \in Subscriptions,
           DeliveryStep(j, s) \/ EnterLimiter(j, s)
    PROVE  PromiseInv'
  <1>0. TypeOK /\ ServedIsAcked
    BY DEF TypeInv, PromiseInv
  <1>1. PICK step \in Steps : Effect(j, s, step)
    BY <1>0, DeliveryEffect
  <1>2. /\ jobState' = jobState /\ stage' = stage /\ targets' = targets
        /\ pc[j][s] # "off"
    BY <1>1 DEF Effect, queueVars
  <1>3. /\ pc'[j][s] = step
        /\ \A i \in Jobs, r \in Subscriptions :
               i # j \/ r # s => pc'[i][r] = pc[i][r]
    BY <1>0, <1>1, GoToType DEF Effect
  <1>4. \A i \in Jobs : /\ owed'[i] \subseteq owed[i]
                        /\ acked[i] \subseteq acked'[i]
                        /\ owed'[i] \subseteq subs'
    BY <1>0, <1>1, EffectMonotone DEF PromiseInv, OwedIsTargeted
  <1>5. SettledMeansQuiet'
    <2>1. stage[j] = "fanOut"
      BY <1>2 DEF PromiseInv, SettledMeansQuiet, NoDelivery
    <2>2. \A i \in Jobs : i # j => pc'[i] = pc[i]
      BY <1>0, <1>1 DEF Effect, GoTo, TypeOK
    <2>3. QED
      BY <1>2, <2>1, <2>2 DEF PromiseInv, SettledMeansQuiet, NoDelivery
  <1>6. RunsWhileActive'
    BY <1>2 DEF PromiseInv, RunsWhileActive
  <1>7. OwedIsTargeted'
    BY <1>2, <1>4 DEF PromiseInv, OwedIsTargeted
  <1>8. ServedIsAcked'
    <2> SUFFICES ASSUME NEW i \in Jobs, NEW r \in Subscriptions,
                        pc'[i][r] \in Served, r \in owed'[i]
                 PROVE  r \in acked'[i]
      BY DEF ServedIsAcked
    <2>1. CASE i = j /\ r = s
      BY <1>1, <1>3, <2>1 DEF Effect
    <2>2. CASE i # j \/ r # s
      BY <1>0, <1>3, <1>4, <2>2 DEF ServedIsAcked
    <2>3. QED BY <2>1, <2>2
  <1>9. NotLost'
    BY <1>2, <1>4 DEF PromiseInv, NotLost
  <1>10. QED BY <1>5, <1>6, <1>7, <1>8, <1>9 DEF PromiseInv

\* A run of an active job that ends owes nothing to those it did not serve.
LEMMA SuccessIsEarned ==
    ASSUME TypeInv, PromiseInv, NEW j \in Jobs, NEW success \in BOOLEAN,
           \/ stage[j] = "empty"
           \/ /\ stage[j] = "fanOut"
              /\ success = (\A s \in targets[j] : pc[j][s] = "ok")
    PROVE  success => owed[j] \subseteq acked[j]
  <1>1. targets[j] \subseteq Subscriptions
    BY DEF TypeInv, TypeOK
  <1>2. CASE stage[j] = "empty"
    BY <1>2 DEF PromiseInv, OwedIsTargeted
  <1>3. CASE /\ stage[j] = "fanOut"
             /\ success = (\A s \in targets[j] : pc[j][s] = "ok")
    <2> SUFFICES ASSUME success, NEW s \in owed[j]
                 PROVE  s \in acked[j]
      OBVIOUS
    <2>1. s \in targets[j] /\ s \in Subscriptions
      BY <1>1, <1>3 DEF PromiseInv, OwedIsTargeted
    <2>2. pc[j][s] = "ok"
      BY <1>3, <2>1
    <2>3. QED BY <2>1, <2>2 DEF PromiseInv, ServedIsAcked, Served
  <1>4. QED BY <1>2, <1>3

\* The runs of some jobs end: those jobs leave "active", and only a job that
\* owes nothing any more may enter "completed".
LEMMA RunsEndSafe ==
    ASSUME TypeInv, PromiseInv, NEW ended \in SUBSET Jobs,
           UNCHANGED <<subs, owed, acked>>,
           \A i \in Jobs \ ended : /\ jobState'[i] = jobState[i]
                                   /\ stage'[i] = stage[i]
                                   /\ targets'[i] = targets[i]
                                   /\ pc'[i] = pc[i],
           \A i \in ended : /\ jobState'[i] # "active"
                            /\ jobState'[i] = "completed" =>
                                   owed[i] \subseteq acked[i]
                            /\ stage'[i] = "off"
                            /\ pc'[i] = NoDelivery
    PROVE  PromiseInv'
  <1>1. SettledMeansQuiet'
    BY DEF PromiseInv, SettledMeansQuiet
  <1>2. RunsWhileActive'
    BY DEF PromiseInv, RunsWhileActive
  <1>3. OwedIsTargeted'
    BY DEF PromiseInv, OwedIsTargeted
  <1>4. ServedIsAcked'
    <2> SUFFICES ASSUME NEW i \in Jobs, NEW r \in Subscriptions,
                        pc'[i][r] \in Served, r \in owed'[i]
                 PROVE  r \in acked'[i]
      BY DEF ServedIsAcked
    <2>1. i \notin ended
      BY DEF NoDelivery, Served
    <2>2. QED BY <2>1 DEF PromiseInv, ServedIsAcked
  <1>5. NotLost'
    BY DEF PromiseInv, NotLost
  <1>6. QED BY <1>1, <1>2, <1>3, <1>4, <1>5 DEF PromiseInv

\* What FinishRun does, as a function of the job it ends.
LEMMA FinishRunEffect ==
    ASSUME TypeOK, NEW j \in Jobs, NEW success \in BOOLEAN,
           FinishRun(j, success)
    PROVE  /\ \A i \in Jobs \ {j} : /\ jobState'[i] = jobState[i]
                                    /\ stage'[i] = stage[i]
                                    /\ targets'[i] = targets[i]
                                    /\ pc'[i] = pc[i]
           /\ jobState'[j] \in IF success THEN {"completed"}
                                          ELSE {"waiting", "failed"}
           /\ jobState' = [jobState EXCEPT ![j] = jobState'[j]]
           /\ stage'[j] = "off" /\ pc'[j] = NoDelivery
           /\ UNCHANGED <<subs, owed, acked>>
  BY DEF FinishRun, ResetRun, TypeOK

\* SkipEmpty and Settle end a run, with success only when it is earned.
LEMMA RunEnds ==
    ASSUME TypeInv, PromiseInv, NEW j \in Jobs, SkipEmpty(j) \/ Settle(j)
    PROVE  \E success \in BOOLEAN :
               /\ FinishRun(j, success)
               /\ success => owed[j] \subseteq acked[j]
               /\ jobState[j] = "active"
  <1>1. CASE SkipEmpty(j)
    <2>1. PICK success \in BOOLEAN : FinishRun(j, success)
      BY <1>1 DEF SkipEmpty
    <2>2. stage[j] = "empty"
      BY <1>1 DEF SkipEmpty
    <2>3. (success => owed[j] \subseteq acked[j]) /\ jobState[j] = "active"
      BY <2>2, SuccessIsEarned DEF PromiseInv, RunsWhileActive
    <2>4. QED BY <2>1, <2>3
  <1>2. CASE Settle(j)
    <2> DEFINE success == \A s \in targets[j] : pc[j][s] = "ok"
    <2>1. success \in BOOLEAN /\ FinishRun(j, success) /\ stage[j] = "fanOut"
      BY <1>2 DEF Settle
    <2>2. PICK b \in BOOLEAN : b = success
      BY <2>1
    <2>3. (b => owed[j] \subseteq acked[j]) /\ jobState[j] = "active"
      BY <2>1, <2>2, SuccessIsEarned DEF PromiseInv, RunsWhileActive
    <2>4. FinishRun(j, b)
      BY <2>1, <2>2
    <2>5. QED BY <2>3, <2>4
  <1>3. QED BY <1>1, <1>2

LEMMA JobStepSafe ==
    ASSUME TypeInv, PromiseInv, NEW j \in Jobs, JobStep(j)
    PROVE  PromiseInv'
  <1>0. TypeOK
    BY DEF TypeInv
  <1>1. CASE GetActive(j)
    <2>1. /\ stage[j] = "getActive"
          /\ UNCHANGED <<jobState, subs, owed, acked>>
      BY <1>1 DEF GetActive, queueVars, history
    <2>2. /\ stage'[j] = IF subs = {} THEN "empty" ELSE "fanOut"
          /\ targets'[j] = subs
          /\ pc'[j] = [s \in Subscriptions |-> IF s \in subs THEN "isOpen"
                                                        ELSE "off"]
          /\ \A i \in Jobs : i # j => /\ stage'[i] = stage[i]
                                      /\ targets'[i] = targets[i]
                                      /\ pc'[i] = pc[i]
      BY <1>0, <1>1 DEF GetActive, TypeOK
    <2>3. SettledMeansQuiet'
      <3> SUFFICES ASSUME NEW i \in Jobs, stage'[i] # "fanOut"
                   PROVE  pc'[i] = NoDelivery
        BY DEF SettledMeansQuiet
      <3>1. CASE i = j
        BY <2>2, <3>1 DEF NoDelivery
      <3>2. CASE i # j
        BY <2>2, <3>2 DEF PromiseInv, SettledMeansQuiet
      <3>3. QED BY <3>1, <3>2
    <2>4. RunsWhileActive'
      BY <2>1, <2>2 DEF PromiseInv, RunsWhileActive
    <2>5. OwedIsTargeted'
      <3> SUFFICES ASSUME NEW i \in Jobs
                   PROVE  /\ owed[i] \subseteq subs
                          /\ stage'[i] = "empty" => owed[i] = {}
                          /\ stage'[i] = "fanOut" =>
                                 owed[i] \subseteq targets'[i]
        BY <2>1 DEF OwedIsTargeted
      <3>1. owed[i] \subseteq subs
        BY DEF PromiseInv, OwedIsTargeted
      <3>2. CASE i = j
        BY <2>2, <3>1, <3>2
      <3>3. CASE i # j
        BY <2>2, <3>3 DEF PromiseInv, OwedIsTargeted
      <3>4. QED BY <3>2, <3>3
    <2>6. ServedIsAcked'
      <3> SUFFICES ASSUME NEW i \in Jobs, NEW r \in Subscriptions,
                          pc'[i][r] \in Served, r \in owed'[i]
                   PROVE  r \in acked'[i]
        BY DEF ServedIsAcked
      <3>1. i # j
        BY <2>2 DEF Served
      <3>2. QED BY <2>1, <2>2, <3>1 DEF PromiseInv, ServedIsAcked
    <2>7. NotLost'
      BY <2>1 DEF PromiseInv, NotLost
    <2>8. QED BY <2>3, <2>4, <2>5, <2>6, <2>7 DEF PromiseInv
  <1>2. CASE SkipEmpty(j) \/ Settle(j)
    <2>1. PICK success \in BOOLEAN :
              FinishRun(j, success) /\ (success => owed[j] \subseteq acked[j])
      BY <1>2, RunEnds
    <2>2. {j} \in SUBSET Jobs
      OBVIOUS
    <2>3. QED BY <1>0, <2>1, <2>2, FinishRunEffect, RunsEndSafe
  <1>3. QED BY <1>1, <1>2 DEF JobStep

LEMMA CrashSafe ==
    ASSUME TypeInv, PromiseInv, Crash
    PROVE  PromiseInv'
  <1> DEFINE running == {j \in Jobs : jobState[j] = "active"}
  <1>1. /\ running \in SUBSET Jobs
        /\ UNCHANGED <<subs, owed, acked>>
    BY DEF Crash
  <1>2. \A i \in Jobs \ running : /\ jobState'[i] = jobState[i]
                                  /\ stage'[i] = stage[i]
                                  /\ targets'[i] = targets[i]
                                  /\ pc'[i] = pc[i]
    BY DEF Crash
  <1>3. \A i \in running : /\ jobState'[i] \in {"waiting", "failed"}
                           /\ stage'[i] = "off"
                           /\ pc'[i] = NoDelivery
    BY DEF Crash
  <1> HIDE DEF running
  <1>4. QED BY <1>1, <1>2, <1>3, RunsEndSafe

LEMMA QueueStepSafe ==
    ASSUME TypeInv, PromiseInv, NEW j \in Jobs, QueueStep(j)
    PROVE  PromiseInv'
  <1>0. TypeOK
    BY DEF TypeInv
  <1> USE DEF fanOutVars, history
  <1>1. CASE Enqueue(j)
    <2>1. /\ jobState[j] = "none" /\ jobState'[j] = "waiting"
          /\ owed'[j] = subs
          /\ \A i \in Jobs : i # j => /\ jobState'[i] = jobState[i]
                                      /\ owed'[i] = owed[i]
          /\ UNCHANGED <<fanOutVars, subs, acked>>
      BY <1>0, <1>1 DEF Enqueue, TypeOK
    <2>2. stage[j] = "off" /\ pc[j] = NoDelivery
      BY <2>1 DEF PromiseInv, RunsWhileActive, SettledMeansQuiet
    <2>3. SettledMeansQuiet' /\ RunsWhileActive'
      BY <2>1, <2>2 DEF PromiseInv, SettledMeansQuiet, RunsWhileActive
    <2>4. OwedIsTargeted'
      BY <2>1, <2>2 DEF PromiseInv, OwedIsTargeted
    <2>5. ServedIsAcked'
      <3> SUFFICES ASSUME NEW i \in Jobs, NEW r \in Subscriptions,
                          pc'[i][r] \in Served, r \in owed'[i]
                   PROVE  r \in acked'[i]
        BY DEF ServedIsAcked
      <3>1. i # j
        BY <2>1, <2>2 DEF Served, NoDelivery
      <3>2. QED BY <2>1, <3>1 DEF PromiseInv, ServedIsAcked
    <2>6. NotLost'
      BY <2>1 DEF PromiseInv, NotLost
    <2>7. QED BY <2>3, <2>4, <2>5, <2>6 DEF PromiseInv
  <1>2. CASE StartJob(j)
    <2>1. /\ jobState[j] = "waiting" /\ jobState'[j] = "active"
          /\ stage'[j] = "getActive"
          /\ \A i \in Jobs : i # j => /\ jobState'[i] = jobState[i]
                                      /\ stage'[i] = stage[i]
          /\ UNCHANGED <<targets, pc, subs, owed, acked>>
      BY <1>0, <1>2 DEF StartJob, TypeOK
    <2>2. pc[j] = NoDelivery
      BY <2>1 DEF PromiseInv, RunsWhileActive, SettledMeansQuiet
    <2>3. SettledMeansQuiet' /\ RunsWhileActive'
      BY <2>1, <2>2 DEF PromiseInv, SettledMeansQuiet, RunsWhileActive
    <2>4. OwedIsTargeted' /\ ServedIsAcked' /\ NotLost'
      BY <2>1 DEF PromiseInv, OwedIsTargeted, ServedIsAcked, NotLost
    <2>5. QED BY <2>3, <2>4 DEF PromiseInv
  <1>3. CASE RetryFailed(j) \/ PurgeFailed(j)
    <2>1. /\ jobState[j] = "failed" /\ jobState'[j] \in {"waiting", "purged"}
          /\ \A i \in Jobs : i # j => jobState'[i] = jobState[i]
          /\ UNCHANGED <<fanOutVars, subs, owed, acked>>
      BY <1>0, <1>3 DEF RetryFailed, PurgeFailed, TypeOK
    <2>2. SettledMeansQuiet' /\ OwedIsTargeted' /\ ServedIsAcked'
      BY <2>1 DEF PromiseInv, SettledMeansQuiet, OwedIsTargeted, ServedIsAcked
    <2>3. RunsWhileActive' /\ NotLost'
      BY <2>1 DEF PromiseInv, RunsWhileActive, NotLost
    <2>4. QED BY <2>2, <2>3 DEF PromiseInv
  <1>4. QED BY <1>1, <1>2, <1>3 DEF QueueStep

LEMMA SurroundingsSafe ==
    ASSUME TypeInv, PromiseInv, Surroundings
    PROVE  PromiseInv'
  <1>1. UNCHANGED <<jobState, stage, targets, pc, acked>>
    BY DEF Surroundings, CircuitCools, WindowSlides, CacheGains, CacheLoses,
           queueVars, fanOutVars, history
  <1>2. \A i \in Jobs : /\ owed'[i] \subseteq owed[i]
                        /\ owed'[i] \subseteq subs'
    BY DEF Surroundings, CircuitCools, WindowSlides, CacheGains, CacheLoses,
           history, PromiseInv, OwedIsTargeted
  <1>3. QED
    BY <1>1, <1>2 DEF PromiseInv, SettledMeansQuiet, RunsWhileActive,
                      OwedIsTargeted, ServedIsAcked, NotLost

LEMMA PromiseInit ==
    ASSUME Init
    PROVE  PromiseInv
  BY DEF Init, PromiseInv, SettledMeansQuiet, RunsWhileActive, OwedIsTargeted,
         ServedIsAcked, NotLost, NoDelivery, Served

LEMMA PromiseStep ==
    ASSUME TypeInv, PromiseInv, [Next]_vars
    PROVE  PromiseInv'
  <1>1. CASE Next
    BY <1>1, QueueStepSafe, JobStepSafe, DeliveryStepSafe, SurroundingsSafe,
       CrashSafe DEF Next
  <1>2. CASE UNCHANGED vars
    BY <1>2 DEF vars, queueVars, fanOutVars, history, PromiseInv,
                SettledMeansQuiet, RunsWhileActive, OwedIsTargeted,
                ServedIsAcked, NotLost
  <1>3. QED BY <1>1, <1>2

\* The invariants of every behaviour, which the theorems below draw on.
THEOREM DeliveryInvariants == Spec => [](TypeInv /\ PromiseInv)
  <1>1. Init => TypeInv /\ PromiseInv
    BY TypeInit, PromiseInit
  <1>2. TypeInv /\ PromiseInv /\ [Next]_vars => TypeInv' /\ PromiseInv'
    BY TypeStep, PromiseStep
  <1>3. QED BY <1>1, <1>2, PTL DEF Spec

\* At-least-once: a completed job was acknowledged for every entry cached from
\* its ingest on, whatever crashed, was retried or answered 410.
THEOREM NotLostHolds == Spec => []NotLost
  <1>1. PromiseInv => NotLost
    BY DEF PromiseInv
  <1>2. QED BY <1>1, DeliveryInvariants, PTL

\* No delivery outlives the run of its job: Promise.allSettled waits for all.
THEOREM SettledMeansQuietHolds == Spec => []SettledMeansQuiet
  <1>1. PromiseInv => SettledMeansQuiet
    BY DEF PromiseInv
  <1>2. QED BY <1>1, DeliveryInvariants, PTL
-----------------------------------------------------------------------------
(* The budget of POSTs. *)

\* The runs of a job that are over, and what they may have cost an entry.
Runs(j) == attemptsMade[j] + stalled[j]
Spent(j) == maxAttempts * Runs(j)

\* The POST the delivery is about to send is budgeted for already.
Due(j, s) == IF pc[j][s] = "post" THEN 1 ELSE 0

BudgetInv ==
    \A j \in Jobs, s \in Subscriptions :
        /\ pc[j][s] \in {"off", "isOpen", "limiter"} => attempt[j][s] = 0
        /\ posts[j][s] + Due(j, s) <= Spent(j) + attempt[j][s]

LEMMA Multiples ==
    ASSUME NEW n \in Nat
    PROVE  /\ maxAttempts \in Nat \ {0}
           /\ maxAttempts * n \in Nat
           /\ maxAttempts * (n + 1) = maxAttempts * n + maxAttempts
  BY LimitsAssumption

LEMMA BudgetTypes ==
    ASSUME TypeOK, NEW j \in Jobs, NEW s \in Subscriptions
    PROVE  /\ Runs(j) \in Nat /\ Spent(j) \in Nat
           /\ attempt[j][s] \in Nat /\ attempt[j][s] <= maxAttempts
           /\ posts[j][s] \in Nat /\ maxAttempts \in Nat
           /\ Due(j, s) \in {0, 1}
  <1>1. attemptsMade[j] \in Nat /\ stalled[j] \in Nat
    BY DEF TypeOK
  <1>2. Runs(j) \in Nat
    BY <1>1 DEF Runs
  <1>3. Spent(j) \in Nat /\ maxAttempts \in Nat
    BY <1>2, Multiples DEF Spent
  <1>4. attempt[j][s] \in 0..maxAttempts /\ posts[j][s] \in Nat
    BY DEF TypeOK
  <1>5. attempt[j][s] \in Nat /\ attempt[j][s] <= maxAttempts
    BY <1>3, <1>4
  <1>6. QED BY <1>2, <1>3, <1>4, <1>5 DEF Due

\* A run that is over is charged maxAttempts, whatever it sent.
LEMMA RunCharged ==
    ASSUME TypeOK, BudgetInv, NEW j \in Jobs, NEW s \in Subscriptions,
           Runs(j)' = Runs(j) + 1, posts'[j][s] = posts[j][s],
           pc'[j] = NoDelivery, attempt'[j] = Zeros
    PROVE  /\ attempt'[j][s] = 0
           /\ posts'[j][s] + Due(j, s)' <= Spent(j)' + attempt'[j][s]
  <1>1. Spent(j)' = Spent(j) + maxAttempts
    BY BudgetTypes, Multiples DEF Spent
  <1>2. attempt'[j][s] = 0 /\ Due(j, s)' = 0
    BY DEF NoDelivery, Zeros, Due
  <1>3. posts[j][s] + Due(j, s) <= Spent(j) + attempt[j][s]
    BY DEF BudgetInv
  <1>4. QED BY <1>1, <1>2, <1>3, BudgetTypes

\* A job that neither ends a run nor delivers keeps its account.
LEMMA JobKept ==
    ASSUME BudgetInv, NEW j \in Jobs, NEW s \in Subscriptions,
           pc'[j][s] = pc[j][s], attempt'[j][s] = attempt[j][s],
           posts'[j][s] = posts[j][s], Runs(j)' = Runs(j)
    PROVE  /\ pc'[j][s] \in {"off", "isOpen", "limiter"} => attempt'[j][s] = 0
           /\ posts'[j][s] + Due(j, s)' <= Spent(j)' + attempt'[j][s]
  BY DEF BudgetInv, Spent, Due

LEMMA FinishRunBudget ==
    ASSUME TypeInv, BudgetInv, NEW j \in Jobs, NEW success \in BOOLEAN,
           FinishRun(j, success)
    PROVE  BudgetInv'
  <1>0. TypeOK
    BY DEF TypeInv
  <1>1. /\ attemptsMade'[j] = attemptsMade[j] + 1
        /\ pc'[j] = NoDelivery /\ attempt'[j] = Zeros
        /\ UNCHANGED <<stalled, posts>>
        /\ \A i \in Jobs : i # j => /\ attemptsMade'[i] = attemptsMade[i]
                                    /\ pc'[i] = pc[i]
                                    /\ attempt'[i] = attempt[i]
    BY <1>0 DEF FinishRun, ResetRun, TypeOK
  <1>2. Runs(j)' = Runs(j) + 1
    <2>1. attemptsMade[j] \in Nat /\ stalled[j] \in Nat
      BY <1>0 DEF TypeOK
    <2>2. QED BY <1>1, <2>1 DEF Runs
  <1> SUFFICES ASSUME NEW i \in Jobs, NEW s \in Subscriptions
               PROVE  /\ pc'[i][s] \in {"off", "isOpen", "limiter"} =>
                             attempt'[i][s] = 0
                      /\ posts'[i][s] + Due(i, s)' <=
                             Spent(i)' + attempt'[i][s]
    BY DEF BudgetInv
  <1>3. CASE i = j
    BY <1>0, <1>1, <1>2, <1>3, RunCharged
  <1>4. CASE i # j
    <2>1. Runs(i)' = Runs(i)
      BY <1>1, <1>4 DEF Runs
    <2>2. QED BY <1>1, <1>4, <2>1, JobKept
  <1>5. QED BY <1>3, <1>4

LEMMA CrashBudget ==
    ASSUME TypeInv, PromiseInv, BudgetInv, Crash
    PROVE  BudgetInv'
  <1>0. TypeOK
    BY DEF TypeInv
  <1> SUFFICES ASSUME NEW i \in Jobs, NEW s \in Subscriptions
               PROVE  /\ pc'[i][s] \in {"off", "isOpen", "limiter"} =>
                             attempt'[i][s] = 0
                      /\ posts'[i][s] + Due(i, s)' <=
                             Spent(i)' + attempt'[i][s]
    BY DEF BudgetInv
  <1>1. UNCHANGED <<attemptsMade, posts>>
    BY DEF Crash
  <1>2. CASE jobState[i] = "active"
    <2>1. /\ stalled'[i] = stalled[i] + 1
          /\ pc'[i] = NoDelivery /\ attempt'[i] = Zeros
      BY <1>2 DEF Crash
    <2>2. Runs(i)' = Runs(i) + 1
      <3>1. attemptsMade[i] \in Nat /\ stalled[i] \in Nat
        BY <1>0 DEF TypeOK
      <3>2. QED BY <1>1, <2>1, <3>1 DEF Runs
    <2>3. QED BY <1>0, <1>1, <2>1, <2>2, RunCharged
  <1>3. CASE jobState[i] # "active"
    <2>1. /\ stalled'[i] = stalled[i]
          /\ pc'[i] = pc[i] /\ attempt'[i] = attempt[i]
      BY <1>3 DEF Crash
    <2>2. Runs(i)' = Runs(i)
      BY <1>1, <2>1 DEF Runs
    <2>3. QED BY <1>1, <2>1, <2>2, JobKept
  <1>4. QED BY <1>2, <1>3

\* What a step of one delivery does to its account.
LEMMA DeliveryAccount ==
    ASSUME TypeInv, NEW j \in Jobs, NEW s \in Subscriptions,
           DeliveryStep(j, s) \/ EnterLimiter(j, s)
    PROVE  \/ /\ pc[j][s] = "post" /\ pc'[j][s] = "posted"
              /\ posts' = [posts EXCEPT ![j][s] = posts[j][s] + 1]
              /\ attempt' = attempt
           \/ /\ pc[j][s] = "limiter" /\ pc'[j][s] = "post"
              /\ attempt' = [attempt EXCEPT ![j][s] = 1]
              /\ posts' = posts
           \/ /\ pc[j][s] = "backoff" /\ pc'[j][s] = "post"
              /\ attempt' = [attempt EXCEPT ![j][s] = attempt[j][s] + 1]
              /\ posts' = posts
           \/ /\ pc'[j][s] # "post"
              /\ pc'[j][s] \in {"off", "isOpen", "limiter"} =>
                     pc[j][s] \in {"off", "isOpen", "limiter"}
              /\ attempt' = attempt /\ posts' = posts
  <1> USE DEF history
  <1>0. TypeOK
    BY DEF TypeInv
  <1>1. CASE CheckCircuit(j, s)
    <2>1. PICK step \in {"rejected", "limiter"} : GoTo(j, s, step)
      BY <1>1 DEF CheckCircuit
    <2>2. pc'[j][s] = step
      BY <1>0, <2>1, GoToType DEF Steps
    <2>3. QED BY <1>1, <2>2 DEF CheckCircuit
  <1>2. CASE EnterLimiter(j, s)
    <2>1. pc'[j][s] = "post"
      BY <1>0, <1>2, GoToType DEF EnterLimiter, Steps
    <2>2. QED BY <1>2, <2>1 DEF EnterLimiter
  <1>3. CASE Post(j, s)
    <2>1. pc'[j][s] = "posted"
      BY <1>0, <1>3, GoToType DEF Post, Steps
    <2>2. QED BY <1>3, <2>1 DEF Post
  <1>4. ASSUME NEW answer \in Answers, Answer(j, s, answer)
        PROVE  /\ pc'[j][s] \notin {"post", "off", "isOpen", "limiter"}
               /\ attempt' = attempt /\ posts' = posts
    <2>1. \E step \in {"recordSuccess", "gone", "recordFailure", "rejected",
                       "backoff"} : GoTo(j, s, step)
      BY <1>0, <1>4, AfterFailureFits DEF Answer, Fail
    <2>2. pc'[j][s] \notin {"post", "off", "isOpen", "limiter"}
      BY <1>0, <2>1, GoToType DEF Steps
    <2>3. QED BY <1>4, <2>2 DEF Answer
  <1>5. CASE DatabaseFails(j, s)
    <2>1. \E step \in {"recordFailure", "rejected", "backoff"} :
              GoTo(j, s, step)
      BY <1>0, <1>5, AfterFailureFits DEF DatabaseFails, Fail
    <2>2. pc'[j][s] \notin {"post", "off", "isOpen", "limiter"}
      BY <1>0, <2>1, GoToType DEF Steps
    <2>3. QED BY <1>5, <2>2 DEF DatabaseFails
  <1>6. CASE \/ DeleteSubscription(j, s) \/ RemoveCached(j, s)
             \/ MaybeUnsubscribe(j, s) \/ RecordSuccess(j, s)
    <2>1. \E step \in {"rowDeleted", "cacheRemoved", "recordSuccess", "ok"} :
              GoTo(j, s, step)
      BY <1>6 DEF DeleteSubscription, RemoveCached, MaybeUnsubscribe,
                  RecordSuccess
    <2>2. pc'[j][s] \notin {"post", "off", "isOpen", "limiter"}
      BY <1>0, <2>1, GoToType DEF Steps
    <2>3. attempt' = attempt /\ posts' = posts
      BY <1>6 DEF DeleteSubscription, RemoveCached, MaybeUnsubscribe,
                  RecordSuccess
    <2>4. QED BY <2>2, <2>3
  <1>7. CASE RecordFailure(j, s)
    <2> DEFINE left == records[j][s] - 1
    <2>1. left \in 0..2
      <3>1. records[j][s] \in 0..2 /\ records[j][s] > 0
        BY <1>0, <1>7 DEF RecordFailure, TypeInv, StepsFit, TypeOK
      <3>2. QED BY <3>1
    <2>2. PICK step \in {"trip", AfterRecord(j, s, left)} : GoTo(j, s, step)
      BY <1>7 DEF RecordFailure
    <2> HIDE DEF left
    <2>3. step \in {"trip", "recordFailure", "rejected", "backoff"}
      BY <2>1, <2>2, AfterRecordFits
    <2>4. pc'[j][s] \notin {"post", "off", "isOpen", "limiter"}
      BY <1>0, <2>2, <2>3, GoToType DEF Steps
    <2>5. QED BY <1>7, <2>4 DEF RecordFailure
  <1>8. CASE Trip(j, s)
    <2> DEFINE step == AfterRecord(j, s, records[j][s])
    <2>1. step \in {"recordFailure", "rejected", "backoff"}
      <3>1. records[j][s] \in 0..2
        BY <1>0 DEF TypeOK
      <3>2. QED BY <3>1, AfterRecordFits
    <2>2. GoTo(j, s, step)
      BY <1>8 DEF Trip
    <2> HIDE DEF step
    <2>3. pc'[j][s] \notin {"post", "off", "isOpen", "limiter"}
      BY <1>0, <2>1, <2>2, GoToType DEF Steps
    <2>4. QED BY <1>8, <2>3 DEF Trip
  <1>9. CASE Backoff(j, s)
    <2>1. pc'[j][s] = "post"
      BY <1>0, <1>9, GoToType DEF Backoff, Steps
    <2>2. QED BY <1>9, <2>1 DEF Backoff
  <1>10. QED
    BY <1>1, <1>2, <1>3, <1>4, <1>5, <1>6, <1>7, <1>8, <1>9 DEF DeliveryStep

LEMMA DeliveryStepBudget ==
    ASSUME TypeInv, ServedIsAcked, BudgetInv, NEW j \in Jobs,
           NEW s \in Subscriptions, DeliveryStep(j, s) \/ EnterLimiter(j, s)
    PROVE  BudgetInv'
  <1>0. TypeOK
    BY DEF TypeInv
  <1>1. PICK step \in Steps : Effect(j, s, step)
    BY DeliveryEffect
  <1>2. \A i \in Jobs : Runs(i)' = Runs(i) /\ Spent(i)' = Spent(i)
    BY <1>1 DEF Effect, queueVars, Runs, Spent
  <1>3. \A i \in Jobs, r \in Subscriptions : i # j \/ r # s => pc'[i][r] = pc[i][r]
    BY <1>0, <1>1, GoToType DEF Effect
  <1>4. /\ attempt \in [Jobs -> [Subscriptions -> 0..maxAttempts]]
        /\ posts \in [Jobs -> [Subscriptions -> Nat]]
    BY <1>0 DEF TypeOK
  <1>5. \A i \in Jobs, r \in Subscriptions :
            i # j \/ r # s => /\ attempt'[i][r] = attempt[i][r]
                              /\ posts'[i][r] = posts[i][r]
    BY <1>4, DeliveryAccount, Nested
  <1> SUFFICES ASSUME NEW i \in Jobs, NEW r \in Subscriptions
               PROVE  /\ pc'[i][r] \in {"off", "isOpen", "limiter"} =>
                             attempt'[i][r] = 0
                      /\ posts'[i][r] + Due(i, r)' <=
                             Spent(i)' + attempt'[i][r]
    BY DEF BudgetInv
  <1>6. CASE i # j \/ r # s
    BY <1>2, <1>3, <1>5, <1>6, JobKept
  <1>7. CASE i = j /\ r = s
    <2>1. /\ Due(j, s) = IF pc[j][s] = "post" THEN 1 ELSE 0
          /\ Due(j, s)' = IF pc'[j][s] = "post" THEN 1 ELSE 0
      BY DEF Due
    <2>2. /\ pc[j][s] \in {"off", "isOpen", "limiter"} => attempt[j][s] = 0
          /\ posts[j][s] + Due(j, s) <= Spent(j) + attempt[j][s]
          /\ Spent(j) \in Nat /\ attempt[j][s] \in Nat /\ posts[j][s] \in Nat
      BY <1>0, BudgetTypes DEF BudgetInv
    <2>3. CASE /\ pc[j][s] = "post" /\ pc'[j][s] = "posted"
               /\ posts' = [posts EXCEPT ![j][s] = posts[j][s] + 1]
               /\ attempt' = attempt
      <3>1. posts'[j][s] = posts[j][s] + 1
        BY <1>4, <2>3
      <3>2. QED BY <1>2, <1>7, <2>1, <2>2, <2>3, <3>1
    <2>4. CASE /\ pc[j][s] = "limiter" /\ pc'[j][s] = "post"
               /\ attempt' = [attempt EXCEPT ![j][s] = 1]
               /\ posts' = posts
      <3>1. attempt'[j][s] = 1
        BY <1>4, <2>4
      <3>2. QED BY <1>2, <1>7, <2>1, <2>2, <2>4, <3>1
    <2>5. CASE /\ pc[j][s] = "backoff" /\ pc'[j][s] = "post"
               /\ attempt' = [attempt EXCEPT ![j][s] = attempt[j][s] + 1]
               /\ posts' = posts
      <3>1. attempt'[j][s] = attempt[j][s] + 1
        BY <1>4, <2>5
      <3>2. QED BY <1>2, <1>7, <2>1, <2>2, <2>5, <3>1
    <2>6. CASE /\ pc'[j][s] # "post"
               /\ pc'[j][s] \in {"off", "isOpen", "limiter"} =>
                      pc[j][s] \in {"off", "isOpen", "limiter"}
               /\ attempt' = attempt /\ posts' = posts
      BY <1>2, <1>7, <2>1, <2>2, <2>6
    <2>7. QED BY <2>3, <2>4, <2>5, <2>6, DeliveryAccount
  <1>8. QED BY <1>6, <1>7

LEMMA BudgetStep ==
    ASSUME TypeInv, PromiseInv, BudgetInv, [Next]_vars
    PROVE  BudgetInv'
  <1>0. TypeOK
    BY DEF TypeInv
  <1>1. ASSUME NEW j \in Jobs, QueueStep(j)
        PROVE  BudgetInv'
    BY <1>1, JobKept
       DEF QueueStep, Enqueue, StartJob, RetryFailed, PurgeFailed, fanOutVars,
           history, BudgetInv, Runs
  <1>2. ASSUME NEW j \in Jobs, GetActive(j)
        PROVE  BudgetInv'
    <2>1. UNCHANGED <<attemptsMade, stalled, attempt, posts>>
      BY <1>2 DEF GetActive, queueVars, history
    <2>2. pc[j] = NoDelivery
      BY <1>2 DEF GetActive, PromiseInv, SettledMeansQuiet
    <2>3. /\ \A s \in Subscriptions : pc'[j][s] \in {"isOpen", "off"}
          /\ \A i \in Jobs : i # j => pc'[i] = pc[i]
      BY <1>0, <1>2 DEF GetActive, TypeOK
    <2> SUFFICES ASSUME NEW i \in Jobs, NEW s \in Subscriptions
                 PROVE  /\ pc'[i][s] \in {"off", "isOpen", "limiter"} =>
                               attempt'[i][s] = 0
                        /\ posts'[i][s] + Due(i, s)' <=
                               Spent(i)' + attempt'[i][s]
      BY DEF BudgetInv
    <2>4. CASE i = j
      <3>1. Due(j, s) = 0 /\ Due(j, s)' = 0 /\ attempt[j][s] = 0
        BY <2>2, <2>3 DEF NoDelivery, Due, BudgetInv
      <3>2. QED BY <2>1, <2>4, <3>1 DEF BudgetInv, Spent, Runs
    <2>5. CASE i # j
      BY <2>1, <2>3, <2>5, JobKept DEF Runs
    <2>6. QED BY <2>4, <2>5
  <1>3. ASSUME NEW j \in Jobs, SkipEmpty(j) \/ Settle(j)
        PROVE  BudgetInv'
    BY <1>3, RunEnds, FinishRunBudget
  <1>4. ASSUME NEW j \in Jobs, NEW s \in Subscriptions,
               DeliveryStep(j, s) \/ EnterLimiter(j, s)
        PROVE  BudgetInv'
    BY <1>4, DeliveryStepBudget DEF PromiseInv
  <1>5. CASE Surroundings
    <2>1. UNCHANGED <<attemptsMade, stalled, pc, attempt, posts>>
      BY <1>5 DEF Surroundings, CircuitCools, WindowSlides, CacheGains,
                  CacheLoses, queueVars, fanOutVars, history
    <2>2. QED BY <2>1, JobKept DEF BudgetInv, Runs
  <1>6. CASE UNCHANGED vars
    BY <1>6, JobKept DEF vars, queueVars, fanOutVars, history, BudgetInv, Runs
  <1>7. QED
    BY <1>1, <1>2, <1>3, <1>4, <1>5, <1>6, CrashBudget DEF Next, JobStep

LEMMA BudgetInit == Init => BudgetInv
  <1> SUFFICES ASSUME Init PROVE BudgetInv
    OBVIOUS
  <1>1. \A j \in Jobs : Runs(j) = 0
    BY DEF Init, Runs
  <1>2. \A j \in Jobs : Spent(j) \in Nat
    BY <1>1, Multiples DEF Spent
  <1>3. QED BY <1>2 DEF Init, BudgetInv, Due, NoDelivery, Zeros

\* A cache entry gets at most maxAttempts POSTs for each run BullMQ has begun of
\* the job, across crashes, stalls and operator retries; a callback with two
\* entries gets as many for each.
THEOREM PostBudgetHolds == Spec => []PostBudget
  <1>1. Init => BudgetInv
    BY BudgetInit
  <1>2. TypeInv /\ PromiseInv /\ BudgetInv /\ [Next]_vars => BudgetInv'
    BY BudgetStep
  <1>3. TypeInv /\ BudgetInv => PostBudget
    <2> SUFFICES ASSUME TypeInv, BudgetInv, NEW j \in Jobs, NEW s \in Subscriptions
                 PROVE  posts[j][s] <= Spent(j) + attempt[j][s]
      BY DEF PostBudget, Spent, Runs
    <2>1. posts[j][s] + Due(j, s) <= Spent(j) + attempt[j][s]
      BY DEF BudgetInv
    <2>2. QED BY <2>1, BudgetTypes DEF TypeInv
  <1>4. QED BY <1>1, <1>2, <1>3, DeliveryInvariants, PTL DEF Spec
-----------------------------------------------------------------------------
(* The failures recorded. *)

\* The last attempt of a run may be recorded a second time.
Last(j, s) == IF attempt[j][s] = maxAttempts THEN 1 ELSE 0

\* The part of its margin that the attempt under way needs if it fails.
Reserve(j, s) ==
    CASE pc[j][s] = "posted" -> 1 + Last(j, s)
      [] pc[j][s] \in {"post", "gone", "rowDeleted", "cacheRemoved"} ->
             Last(j, s)
      [] OTHER -> 0

\* What is left to back the failures in the window.
Backing(j, s) == Margin(j, s) - Reserve(j, s)
Backed(c) == SumFunction([p \in DeliveriesTo(c) |-> Backing(p[1], p[2])])

\* FailuresAreBacked is not inductive: an attempt whose answer is out must
\* not have its failures in the window already.
FailuresInv == \A c \in Callbacks : failures[c] <= Backed(c)

\* The deliveries to a callback are finitely many pairs of a job and an entry.
LEMMA DeliveriesAre ==
    ASSUME NEW c \in Callbacks
    PROVE  /\ IsFiniteSet(DeliveriesTo(c))
           /\ \A p \in DeliveriesTo(c) : /\ p[1] \in Jobs
                                          /\ p[2] \in Subscriptions
                                          /\ CallbackOf[p[2]] = c
           /\ \A j \in Jobs, s \in Subscriptions :
                  CallbackOf[s] = c => <<j, s>> \in DeliveriesTo(c)
  <1>1. IsFiniteSet(Jobs \X Subscriptions)
    BY JobsAssumption, FS_Product
  <1>2. DeliveriesTo(c) \in SUBSET (Jobs \X Subscriptions)
    BY DEF DeliveriesTo
  <1>3. IsFiniteSet(DeliveriesTo(c))
    BY <1>1, <1>2, FS_Subset
  <1>4. QED BY <1>3 DEF DeliveriesTo

\* The part of one delivery in the window of its callback: integers all.
LEMMA BackingTypes ==
    ASSUME TypeOK, NEW j \in Jobs, NEW s \in Subscriptions
    PROVE  /\ posts[j][s] \in Nat
           /\ attemptsMade[j] \in Nat /\ stalled[j] \in Nat
           /\ records[j][s] \in 0..2
           /\ attempt[j][s] \in 0..maxAttempts
           /\ maxAttempts \in Nat \ {0}
           /\ pc[j][s] \in Steps
           /\ Last(j, s) \in {0, 1}
           /\ Reserve(j, s) \in 0..2
           /\ Margin(j, s) \in Int /\ Backing(j, s) \in Int
  <1>1. /\ posts[j][s] \in Nat
        /\ attemptsMade[j] \in Nat /\ stalled[j] \in Nat
        /\ records[j][s] \in 0..2
        /\ attempt[j][s] \in 0..maxAttempts
        /\ pc[j][s] \in Steps
    BY DEF TypeOK
  <1>2. Last(j, s) \in {0, 1}
    BY DEF Last
  <1>3. Reserve(j, s) \in 0..2
    BY <1>2 DEF Reserve
  <1>4. Margin(j, s) \in Int
    <2>1. records[j][s] \in Int
      BY <1>1
    <2>2. QED BY <1>1, <2>1 DEF Margin
  <1>5. QED BY <1>1, <1>2, <1>3, <1>4, LimitsAssumption DEF Backing

BackingIsInt == \A j \in Jobs, s \in Subscriptions : Backing(j, s) \in Int

LEMMA BackingIsIntNext == TypeOK' => BackingIsInt'
  <1>1. TypeOK => BackingIsInt
    BY BackingTypes DEF BackingIsInt
  <1>2. QED BY <1>1, PTL

\* A callback's window stays backed if no job's backing shrinks and one grows
\* by what the window gains.
LEMMA StaysBacked ==
    ASSUME TypeOK, TypeOK', FailuresInv, NEW c \in Callbacks, NEW n \in {0, 1},
           failures'[c] = 0 \/ failures'[c] <= failures[c] + n,
           \A j \in Jobs, s \in Subscriptions : Backing(j, s) <= Backing(j, s)',
           n = 0 \/ \E j \in Jobs, s \in Subscriptions :
                        /\ CallbackOf[s] = c
                        /\ Backing(j, s) + n <= Backing(j, s)'
    PROVE  failures'[c] <= Backed(c)'
  <1> DEFINE D == DeliveriesTo(c)
             f == [p \in D |-> Backing(p[1], p[2])]
             h == [p \in D |-> Backing(p[1], p[2])']
  <1>1. \A j \in Jobs, s \in Subscriptions : Backing(j, s) \in Int
    BY BackingTypes
  <1>2. \A j \in Jobs, s \in Subscriptions : Backing(j, s)' \in Int
    BY BackingIsIntNext DEF BackingIsInt
  <1>3. \A p \in D : p[1] \in Jobs /\ p[2] \in Subscriptions
    BY DeliveriesAre
  <1>4. f \in [D -> Int] /\ h \in [D -> Int] /\ IsFiniteSet(D)
    BY <1>1, <1>2, <1>3, DeliveriesAre
  <1>5. \A p \in D : f[p] <= h[p]
    BY <1>3
  <1>6. n = 0 \/ \E p \in D : f[p] + n <= h[p]
    <2>1. CASE n # 0
      <3>1. PICK j \in Jobs, s \in Subscriptions :
                CallbackOf[s] = c /\ Backing(j, s) + n <= Backing(j, s)'
        BY <2>1
      <3>2. <<j, s>> \in D
        BY <3>1, DeliveriesAre
      <3>3. f[<<j, s>>] + n <= h[<<j, s>>]
        BY <3>1, <3>2
      <3>4. QED BY <3>2, <3>3
    <2>2. QED BY <2>1
  <1>7. failures[c] <= SumFunction(f)
    BY DEF FailuresInv, Backed
  <1>8. Backed(c)' = SumFunction(h)
    BY DEF Backed, DeliveriesTo
  <1> HIDE DEF D, f, h
  <1>9. SumFunction(f) + n <= SumFunction(h)
    BY <1>4, <1>5, <1>6, SumGrows
  <1>10. SumFunction(f) \in Int /\ SumFunction(h) \in Int
    BY <1>4, SumIsInt
  <1>11. failures[c] \in Nat /\ failures'[c] \in Nat
    BY DEF TypeOK
  <1>12. QED BY <1>7, <1>8, <1>9, <1>10, <1>11

\* A job that takes no step keeps its backing.
LEMMA BackingKept ==
    ASSUME NEW j \in Jobs, NEW s \in Subscriptions,
           pc'[j][s] = pc[j][s], attempt'[j][s] = attempt[j][s],
           posts'[j][s] = posts[j][s], records'[j][s] = records[j][s],
           attemptsMade'[j] = attemptsMade[j], stalled'[j] = stalled[j]
    PROVE  Backing(j, s)' = Backing(j, s)
  BY DEF Backing, Margin, Reserve, Last

\* A run that is over pays for the last attempt's second record.
LEMMA RunBacked ==
    ASSUME TypeOK, NEW j \in Jobs, NEW s \in Subscriptions,
           \/ attemptsMade'[j] = attemptsMade[j] + 1 /\ stalled'[j] = stalled[j]
           \/ attemptsMade'[j] = attemptsMade[j] /\ stalled'[j] = stalled[j] + 1,
           posts'[j][s] = posts[j][s], pc'[j] = NoDelivery,
           attempt'[j] = Zeros, records'[j] = Zeros
    PROVE  Backing(j, s) <= Backing(j, s)'
  <1>1. /\ pc'[j][s] = "off" /\ attempt'[j][s] = 0 /\ records'[j][s] = 0
        /\ attempt'[j][s] # maxAttempts
    BY BackingTypes DEF NoDelivery, Zeros
  <1>2. Reserve(j, s)' = 0
    BY <1>1 DEF Reserve
  <1>3. Backing(j, s)' = posts[j][s] + attemptsMade'[j] + stalled'[j]
    <2>1. Margin(j, s)' = posts'[j][s] + attemptsMade'[j] + stalled'[j] + 0 - 0
      BY <1>1 DEF Margin
    <2>2. /\ posts'[j][s] \in Nat
          /\ attemptsMade'[j] \in Nat /\ stalled'[j] \in Nat
      BY BackingTypes
    <2>3. QED BY <1>2, <2>1, <2>2 DEF Backing
  <1>4. Backing(j, s) <= posts[j][s] + attemptsMade[j] + stalled[j] + 1
    <2>1. Margin(j, s) = posts[j][s] + attemptsMade[j] + stalled[j]
                             + Last(j, s) - records[j][s]
      BY DEF Margin, Last
    <2>2. records[j][s] >= 0 /\ Reserve(j, s) >= 0 /\ Last(j, s) <= 1
          /\ records[j][s] \in Int /\ Reserve(j, s) \in Int
      BY BackingTypes
    <2>3. QED BY <2>1, <2>2, BackingTypes DEF Backing
  <1>5. QED BY <1>3, <1>4, BackingTypes

\* What a step of a delivery does to the account of its callback: it records
\* n failures at most and backs them.
Charged(j, s, n) ==
    /\ Backing(j, s) + n <= Backing(j, s)'
    /\ \/ failures'[CallbackOf[s]] = 0
       \/ failures'[CallbackOf[s]] <= failures[CallbackOf[s]] + n
    /\ \A c \in Callbacks : c # CallbackOf[s] => failures'[c] = failures[c]

LEMMA CircuitKept ==
    ASSUME UNCHANGED circuitVars, NEW j \in Jobs, NEW s \in Subscriptions, TypeOK,
           Backing(j, s) <= Backing(j, s)'
    PROVE  Charged(j, s, 0)
  <1>1. failures' = failures
    BY DEF circuitVars
  <1>2. failures[CallbackOf[s]] \in Nat
    BY CallbackType DEF TypeOK
  <1>3. QED BY <1>1, <1>2, BackingTypes DEF Charged

\* Success and a tripped circuit forget the failures.
LEMMA CircuitForgets ==
    ASSUME TypeOK, NEW j \in Jobs, NEW s \in Subscriptions, NEW isOpen \in BOOLEAN,
           Backing(j, s) <= Backing(j, s)',
           \/ /\ open' = [open EXCEPT ![CallbackOf[s]] = isOpen]
              /\ failures' = [failures EXCEPT ![CallbackOf[s]] = 0]
           \/ RedisMayFail /\ UNCHANGED circuitVars
    PROVE  Charged(j, s, 0)
  <1>1. CASE UNCHANGED circuitVars
    BY <1>1, CircuitKept
  <1>2. CASE failures' = [failures EXCEPT ![CallbackOf[s]] = 0]
    <2>1. failures \in [Callbacks -> Nat] /\ CallbackOf[s] \in Callbacks
      BY CallbackType DEF TypeOK
    <2>2. /\ failures'[CallbackOf[s]] = 0
          /\ \A c \in Callbacks :
                 c # CallbackOf[s] => failures'[c] = failures[c]
      BY <1>2, <2>1
    <2>3. QED BY <2>2, BackingTypes DEF Charged
  <1>3. QED BY <1>1, <1>2

\* An attempt that is over has as many failures to record as it reserved.
LEMMA FailBacked ==
    ASSUME TypeOK, NEW j \in Jobs, NEW s \in Subscriptions, NEW n \in 0..2,
           n <= Reserve(j, s), Fail(j, s, n),
           UNCHANGED <<queueVars, attempt, posts>>
    PROVE  Backing(j, s) <= Backing(j, s)'
  <1>1. PICK step \in {"recordFailure", "rejected", "backoff"} :
            GoTo(j, s, step)
    BY AfterFailureFits DEF Fail
  <1>2. pc'[j][s] = step
    BY <1>1, GoToType DEF Steps
  <1>3. Reserve(j, s)' = 0
    BY <1>2 DEF Reserve
  <1>4. records'[j][s] = n
    BY Nested DEF Fail, TypeOK
  <1>5. Margin(j, s)' = posts[j][s] + attemptsMade[j] + stalled[j]
                            + Last(j, s) - n
    BY <1>4 DEF Margin, Last, queueVars
  <1>6. Margin(j, s) = posts[j][s] + attemptsMade[j] + stalled[j]
                           + Last(j, s) - records[j][s]
    BY DEF Margin, Last
  <1>7. QED BY <1>3, <1>5, <1>6, BackingTypes DEF Backing

\* A step within the database and circuit calls reserves no more than before.
LEMMA PlainBacked ==
    ASSUME TypeOK, NEW j \in Jobs, NEW s \in Subscriptions, NEW step \in Steps,
           GoTo(j, s, step), UNCHANGED <<queueVars, attempt, records, posts>>,
           \/ pc[j][s] \in {"gone", "rowDeleted", "cacheRemoved", "posted"}
           \/ step \notin {"post", "posted", "gone", "rowDeleted",
                           "cacheRemoved"},
           step \notin {"post", "posted"}
    PROVE  Backing(j, s) <= Backing(j, s)'
  <1>1. pc'[j][s] = step
    BY GoToType
  <1>2. Margin(j, s)' = Margin(j, s) /\ Last(j, s)' = Last(j, s)
    BY DEF Margin, Last, queueVars
  <1>3. Reserve(j, s)' <= Reserve(j, s)
    BY <1>1, <1>2, BackingTypes DEF Reserve
  <1>4. Reserve(j, s)' \in Int
    BY <1>1, <1>2, BackingTypes DEF Reserve
  <1>5. QED BY <1>2, <1>3, <1>4, BackingTypes DEF Backing

\* Another attempt reserves what it may need from the run's own share.
LEMMA AttemptBacked ==
    ASSUME TypeInv, NEW j \in Jobs, NEW s \in Subscriptions,
           EnterLimiter(j, s) \/ Backoff(j, s), BudgetInv
    PROVE  Backing(j, s) <= Backing(j, s)'
  <1>0. TypeOK
    BY DEF TypeInv
  <1>1. /\ pc[j][s] \in {"limiter", "backoff"}
        /\ UNCHANGED <<queueVars, records, posts>>
    BY DEF EnterLimiter, Backoff, history
  <1>2. pc'[j][s] = "post"
    BY <1>0, GoToType DEF EnterLimiter, Backoff, Steps
  <1>3. Last(j, s) = 0
    BY <1>0, BackingTypes
       DEF EnterLimiter, Backoff, Last, TypeInv, StepsFit, BudgetInv
  <1>4. Reserve(j, s) = 0 /\ Reserve(j, s)' = Last(j, s)'
    BY <1>1, <1>2 DEF Reserve
  <1>5. /\ Margin(j, s) = posts[j][s] + attemptsMade[j] + stalled[j]
                              + Last(j, s) - records[j][s]
        /\ Margin(j, s)' = posts[j][s] + attemptsMade[j] + stalled[j]
                               + Last(j, s)' - records[j][s]
    BY <1>1 DEF Margin, Last, queueVars
  <1>6. Last(j, s)' \in {0, 1}
    BY DEF Last
  <1>7. QED BY <1>0, <1>3, <1>4, <1>5, <1>6, BackingTypes DEF Backing

\* A POST backs the failure of its attempt.
LEMMA PostBacked ==
    ASSUME TypeOK, NEW j \in Jobs, NEW s \in Subscriptions, Post(j, s)
    PROVE  Backing(j, s) <= Backing(j, s)'
  <1>1. pc[j][s] = "post" /\ pc'[j][s] = "posted"
    BY GoToType DEF Post, Steps
  <1>2. posts'[j][s] = posts[j][s] + 1
    <2>1. posts \in [Jobs -> [Subscriptions -> Nat]]
      BY DEF TypeOK
    <2>2. QED BY <2>1 DEF Post
  <1>3. Last(j, s)' = Last(j, s)
    BY DEF Post, Last
  <1>4. Reserve(j, s) = Last(j, s) /\ Reserve(j, s)' = 1 + Last(j, s)
    BY <1>1, <1>3 DEF Reserve
  <1>5. /\ Margin(j, s) = posts[j][s] + attemptsMade[j] + stalled[j]
                              + Last(j, s) - records[j][s]
        /\ Margin(j, s)' = posts[j][s] + 1 + attemptsMade[j] + stalled[j]
                               + Last(j, s) - records[j][s]
    BY <1>2 DEF Margin, Last, Post, queueVars
  <1>6. QED BY <1>4, <1>5, BackingTypes DEF Backing

\* recordFailure moves one failure from those to be recorded to the window.
LEMMA RecordBacked ==
    ASSUME TypeInv, NEW j \in Jobs, NEW s \in Subscriptions, RecordFailure(j, s)
    PROVE  Charged(j, s, 1)
  <1>0. TypeOK
    BY DEF TypeInv
  <1> DEFINE left == records[j][s] - 1
  <1>1. left \in 0..2 /\ records[j][s] = left + 1
    <2>1. records[j][s] \in 0..2 /\ records[j][s] > 0
      BY <1>0 DEF RecordFailure, TypeInv, StepsFit, TypeOK
    <2>2. QED BY <2>1
  <1>2. records'[j][s] = left
    <2>1. records' = [records EXCEPT ![j][s] = left]
      BY DEF RecordFailure
    <2> HIDE DEF left
    <2>2. QED BY <1>0, <1>1, <2>1, Nested DEF TypeOK
  <1>3. PICK step \in {"trip", AfterRecord(j, s, left)} : GoTo(j, s, step)
    BY DEF RecordFailure
  <1> HIDE DEF left
  <1>4. step \in {"trip", "recordFailure", "rejected", "backoff"}
    BY <1>1, <1>3, AfterRecordFits
  <1>5. pc[j][s] = "recordFailure" /\ pc'[j][s] = step
    BY <1>0, <1>3, <1>4, GoToType DEF Steps, RecordFailure
  <1>6. Reserve(j, s) = 0 /\ Reserve(j, s)' = 0
    BY <1>4, <1>5 DEF Reserve
  <1>7. /\ Margin(j, s) = posts[j][s] + attemptsMade[j] + stalled[j]
                              + Last(j, s) - (left + 1)
        /\ Margin(j, s)' = posts[j][s] + attemptsMade[j] + stalled[j]
                               + Last(j, s) - left
    BY <1>1, <1>2 DEF Margin, Last, RecordFailure, queueVars, history
  <1>8. Backing(j, s) + 1 <= Backing(j, s)'
    BY <1>0, <1>1, <1>6, <1>7, BackingTypes DEF Backing
  <1>9. failures \in [Callbacks -> Nat] /\ CallbackOf[s] \in Callbacks
    BY <1>0, CallbackType DEF TypeOK
  <1>10. CASE failures' = [failures EXCEPT ![CallbackOf[s]] = @ + 1]
    <2>1. /\ failures'[CallbackOf[s]] = failures[CallbackOf[s]] + 1
          /\ \A c \in Callbacks :
                 c # CallbackOf[s] => failures'[c] = failures[c]
      BY <1>9, <1>10
    <2>2. QED BY <1>8, <1>9, <2>1 DEF Charged
  <1>11. CASE UNCHANGED failures
    BY <1>8, <1>9, <1>11 DEF Charged
  <1>12. QED BY <1>10, <1>11 DEF RecordFailure

\* Every step of a delivery backs what it records.
LEMMA DeliveryCharged ==
    ASSUME TypeInv, BudgetInv, NEW j \in Jobs, NEW s \in Subscriptions,
           DeliveryStep(j, s) \/ EnterLimiter(j, s)
    PROVE  \E n \in {0, 1} : Charged(j, s, n)
  <1> USE DEF history
  <1>0. TypeOK
    BY DEF TypeInv
  <1>1. CASE CheckCircuit(j, s)
    <2>1. PICK step \in {"rejected", "limiter"} : GoTo(j, s, step)
      BY <1>1 DEF CheckCircuit
    <2>2. Backing(j, s) <= Backing(j, s)'
      BY <1>0, <1>1, <2>1, PlainBacked DEF CheckCircuit, Steps
    <2>3. QED BY <1>0, <1>1, <2>2, CircuitKept DEF CheckCircuit
  <1>2. CASE EnterLimiter(j, s) \/ Backoff(j, s)
    <2>1. UNCHANGED circuitVars
      BY <1>2 DEF EnterLimiter, Backoff
    <2>2. QED BY <1>0, <1>2, <2>1, AttemptBacked, CircuitKept
  <1>3. CASE Post(j, s)
    <2>1. UNCHANGED circuitVars
      BY <1>3 DEF Post
    <2>2. QED BY <1>0, <1>3, <2>1, PostBacked, CircuitKept
  <1>4. ASSUME NEW answer \in Answers, Answer(j, s, answer)
        PROVE  Charged(j, s, 0)
    <2>1. /\ pc[j][s] = "posted"
          /\ UNCHANGED <<queueVars, attempt, posts>>
          /\ UNCHANGED circuitVars
      BY <1>4 DEF Answer
    <2>2. CASE answer \in {"2xx", "410"}
      <3>1. PICK step \in {"recordSuccess", "gone"} : GoTo(j, s, step)
        BY <1>4, <2>2 DEF Answer
      <3>2. UNCHANGED records
        BY <1>4, <2>2 DEF Answer
      <3>3. Backing(j, s) <= Backing(j, s)'
        BY <1>0, <2>1, <3>1, <3>2, PlainBacked DEF Steps
      <3>4. QED BY <1>0, <2>1, <3>3, CircuitKept
    <2>3. CASE answer \notin {"2xx", "410"}
      <3> DEFINE n == FailuresRecorded(answer, attempt[j][s] = maxAttempts)
      <3>1. n \in 0..2 /\ n <= 1 + Last(j, s)
        BY DEF FailuresRecorded, Last
      <3>2. Reserve(j, s) = 1 + Last(j, s)
        BY <2>1 DEF Reserve
      <3>3. Fail(j, s, n)
        BY <1>4, <2>3 DEF Answer
      <3> HIDE DEF n
      <3>4. Backing(j, s) <= Backing(j, s)'
        BY <1>0, <2>1, <3>1, <3>2, <3>3, FailBacked
      <3>5. QED BY <1>0, <2>1, <3>4, CircuitKept
    <2>4. QED BY <2>2, <2>3
  <1>5. CASE DatabaseFails(j, s)
    <2>1. /\ Fail(j, s, Last(j, s))
          /\ UNCHANGED <<queueVars, attempt, posts>>
          /\ UNCHANGED circuitVars
      BY <1>5 DEF DatabaseFails, Last
    <2>2. Reserve(j, s) = Last(j, s)
      BY <1>5 DEF DatabaseFails, Reserve
    <2>3. Backing(j, s) <= Backing(j, s)'
      <3>1. Last(j, s) \in 0..2 /\ Last(j, s) <= Reserve(j, s)
        BY <1>0, <2>2, BackingTypes
      <3>2. QED BY <1>0, <2>1, <3>1, FailBacked
    <2>4. QED BY <1>0, <2>1, <2>3, CircuitKept
  <1>6. CASE \/ DeleteSubscription(j, s) \/ RemoveCached(j, s)
             \/ MaybeUnsubscribe(j, s)
    <2>1. PICK step \in {"rowDeleted", "cacheRemoved", "recordSuccess"} :
              GoTo(j, s, step)
      BY <1>6 DEF DeleteSubscription, RemoveCached, MaybeUnsubscribe
    <2>2. /\ pc[j][s] \in {"gone", "rowDeleted", "cacheRemoved"}
          /\ UNCHANGED <<queueVars, attempt, records, posts>>
          /\ UNCHANGED circuitVars
      BY <1>6 DEF DeleteSubscription, RemoveCached, MaybeUnsubscribe
    <2>3. Backing(j, s) <= Backing(j, s)'
      BY <1>0, <2>1, <2>2, PlainBacked DEF Steps
    <2>4. QED BY <1>0, <2>2, <2>3, CircuitKept
  <1>7. CASE RecordSuccess(j, s)
    <2>1. Backing(j, s) <= Backing(j, s)'
      BY <1>0, <1>7, PlainBacked DEF RecordSuccess, Steps
    <2>2. QED BY <1>0, <1>7, <2>1, CircuitForgets DEF RecordSuccess
  <1>8. CASE RecordFailure(j, s)
    BY <1>8, RecordBacked
  <1>9. CASE Trip(j, s)
    <2> DEFINE step == AfterRecord(j, s, records[j][s])
    <2>1. step \in {"recordFailure", "rejected", "backoff"}
      <3>1. records[j][s] \in 0..2
        BY <1>0 DEF TypeOK
      <3>2. QED BY <3>1, AfterRecordFits
    <2>2. GoTo(j, s, step) /\ UNCHANGED <<queueVars, attempt, records, posts>>
      BY <1>9 DEF Trip
    <2> HIDE DEF step
    <2>3. Backing(j, s) <= Backing(j, s)'
      BY <1>0, <2>1, <2>2, PlainBacked DEF Steps
    <2>4. QED BY <1>0, <1>9, <2>3, CircuitForgets DEF Trip
  <1>10. QED
    BY <1>1, <1>2, <1>3, <1>4, <1>5, <1>6, <1>7, <1>8, <1>9 DEF DeliveryStep

LEMMA RecordsElsewhere ==
    ASSUME TypeOK, NEW j \in Jobs, NEW s \in Subscriptions,
           DeliveryStep(j, s) \/ EnterLimiter(j, s)
    PROVE  \A i \in Jobs, r \in Subscriptions :
               i # j \/ r # s => records'[i][r] = records[i][r]
  <1>1. records \in [Jobs -> [Subscriptions -> 0..2]]
    BY DEF TypeOK
  <1>2. \/ UNCHANGED records
        \/ \E n : records' = [records EXCEPT ![j][s] = n]
    BY DEF DeliveryStep, CheckCircuit, EnterLimiter, Post, Answer, Fail,
           DatabaseFails, DeleteSubscription, RemoveCached, MaybeUnsubscribe,
           RecordSuccess, RecordFailure, Trip, Backoff
  <1>3. QED BY <1>1, <1>2

LEMMA DeliveryStepFailures ==
    ASSUME TypeInv, TypeInv', ServedIsAcked, BudgetInv, FailuresInv,
           NEW j \in Jobs, NEW s \in Subscriptions,
           DeliveryStep(j, s) \/ EnterLimiter(j, s)
    PROVE  FailuresInv'
  <1>0. TypeOK /\ TypeOK'
    BY DEF TypeInv
  <1>1. PICK step \in Steps : Effect(j, s, step)
    BY DeliveryEffect
  <1>2. UNCHANGED <<attemptsMade, stalled>>
    BY <1>1 DEF Effect, queueVars
  <1>3. \A i \in Jobs, r \in Subscriptions : i # j \/ r # s => pc'[i][r] = pc[i][r]
    BY <1>0, <1>1, GoToType DEF Effect
  <1>4. /\ attempt \in [Jobs -> [Subscriptions -> 0..maxAttempts]]
        /\ posts \in [Jobs -> [Subscriptions -> Nat]]
    BY <1>0 DEF TypeOK
  <1>5. \A i \in Jobs, r \in Subscriptions :
            i # j \/ r # s => /\ attempt'[i][r] = attempt[i][r]
                              /\ posts'[i][r] = posts[i][r]
    BY <1>4, DeliveryAccount, Nested
  <1>6. \A i \in Jobs, r \in Subscriptions :
            i # j \/ r # s => Backing(i, r)' = Backing(i, r)
    BY <1>0, <1>2, <1>3, <1>5, RecordsElsewhere, BackingKept
  <1>7. \A i \in Jobs, r \in Subscriptions : Backing(i, r) \in Int
    BY <1>0, BackingTypes
  <1>8. PICK n \in {0, 1} : Charged(j, s, n)
    BY DeliveryCharged
  <1>9. /\ \/ failures'[CallbackOf[s]] = 0
           \/ failures'[CallbackOf[s]] <= failures[CallbackOf[s]] + n
        /\ Backing(j, s) + n <= Backing(j, s)'
    BY <1>8 DEF Charged
  <1>10. Backing(j, s)' \in Int
    BY <1>0, BackingIsIntNext DEF BackingIsInt
  <1>11. ASSUME NEW i \in Jobs, NEW r \in Subscriptions
         PROVE  Backing(i, r) <= Backing(i, r)'
    <2>1. CASE i = j /\ r = s
      BY <1>7, <1>9, <1>10, <2>1
    <2>2. CASE i # j \/ r # s
      BY <1>6, <1>7, <2>2
    <2>3. QED BY <2>1, <2>2
  <1> SUFFICES ASSUME NEW c \in Callbacks
               PROVE  failures'[c] <= Backed(c)'
    BY DEF FailuresInv
  <1>12. CASE c = CallbackOf[s]
    BY <1>0, <1>9, <1>11, <1>12, StaysBacked
  <1>13. CASE c # CallbackOf[s]
    <2>1. failures'[c] = failures[c] /\ failures[c] \in Nat
      BY <1>0, <1>8, <1>13 DEF Charged, TypeOK
    <2>2. failures'[c] <= failures[c] + 0
      BY <2>1
    <2>3. QED BY <1>0, <1>11, <2>2, StaysBacked
  <1>14. QED BY <1>12, <1>13

\* Steps that record nothing and take no job's backing away.
LEMMA NothingRecorded ==
    ASSUME TypeOK, TypeOK', FailuresInv,
           \A c \in Callbacks : failures'[c] <= failures[c],
           \A j \in Jobs, s \in Subscriptions : Backing(j, s) <= Backing(j, s)'
    PROVE  FailuresInv'
  <1> SUFFICES ASSUME NEW c \in Callbacks
               PROVE  failures'[c] <= Backed(c)'
    BY DEF FailuresInv
  <1>1. failures[c] \in Nat
    BY DEF TypeOK
  <1>2. failures'[c] <= failures[c] + 0
    BY <1>1
  <1>3. QED BY <1>2, StaysBacked

LEMMA FinishRunFailures ==
    ASSUME TypeInv, TypeOK', FailuresInv, NEW j \in Jobs,
           NEW success \in BOOLEAN, FinishRun(j, success)
    PROVE  FailuresInv'
  <1>0. TypeOK
    BY DEF TypeInv
  <1>1. /\ attemptsMade'[j] = attemptsMade[j] + 1
        /\ pc'[j] = NoDelivery /\ attempt'[j] = Zeros /\ records'[j] = Zeros
        /\ UNCHANGED <<stalled, posts, failures>>
        /\ \A i \in Jobs : i # j => /\ attemptsMade'[i] = attemptsMade[i]
                                    /\ pc'[i] = pc[i]
                                    /\ attempt'[i] = attempt[i]
                                    /\ records'[i] = records[i]
    BY <1>0 DEF FinishRun, ResetRun, TypeOK, circuitVars
  <1>2. ASSUME NEW i \in Jobs, NEW s \in Subscriptions
        PROVE  Backing(i, s) <= Backing(i, s)'
    <2>1. CASE i = j
      BY <1>0, <1>1, <2>1, RunBacked
    <2>2. CASE i # j
      BY <1>0, <1>1, <2>2, BackingKept, BackingTypes
    <2>3. QED BY <2>1, <2>2
  <1>3. \A c \in Callbacks : failures'[c] <= failures[c]
    BY <1>0, <1>1 DEF TypeOK
  <1>4. QED BY <1>0, <1>2, <1>3, NothingRecorded

LEMMA CrashFailures ==
    ASSUME TypeInv, TypeOK', FailuresInv, Crash
    PROVE  FailuresInv'
  <1>0. TypeOK
    BY DEF TypeInv
  <1>1. UNCHANGED <<attemptsMade, posts, failures>>
    BY DEF Crash, circuitVars
  <1>2. ASSUME NEW i \in Jobs, NEW s \in Subscriptions
        PROVE  Backing(i, s) <= Backing(i, s)'
    <2>1. CASE jobState[i] = "active"
      <3>1. /\ stalled'[i] = stalled[i] + 1
            /\ pc'[i] = NoDelivery /\ attempt'[i] = Zeros
            /\ records'[i] = Zeros
        BY <2>1 DEF Crash
      <3>2. QED BY <1>0, <1>1, <3>1, RunBacked
    <2>2. CASE jobState[i] # "active"
      <3>1. /\ stalled'[i] = stalled[i]
            /\ pc'[i] = pc[i] /\ attempt'[i] = attempt[i]
            /\ records'[i] = records[i]
        BY <2>2 DEF Crash
      <3>2. QED BY <1>0, <1>1, <3>1, BackingKept, BackingTypes
    <2>3. QED BY <2>1, <2>2
  <1>3. \A c \in Callbacks : failures'[c] <= failures[c]
    BY <1>0, <1>1 DEF TypeOK
  <1>4. QED BY <1>0, <1>2, <1>3, NothingRecorded

LEMMA FailuresStep ==
    ASSUME TypeInv, TypeInv', PromiseInv, BudgetInv, FailuresInv, [Next]_vars
    PROVE  FailuresInv'
  <1>0. TypeOK /\ TypeOK'
    BY DEF TypeInv
  <1>1. ASSUME UNCHANGED <<attemptsMade, stalled, pc, attempt, records, posts>>,
               \A c \in Callbacks : failures'[c] <= failures[c]
        PROVE  FailuresInv'
    <2>1. \A j \in Jobs, s \in Subscriptions : Backing(j, s) <= Backing(j, s)'
      BY <1>0, <1>1, BackingKept, BackingTypes
    <2>2. QED BY <1>0, <1>1, <2>1, NothingRecorded
  <1>2. ASSUME UNCHANGED failures
        PROVE  \A c \in Callbacks : failures'[c] <= failures[c]
    BY <1>0, <1>2 DEF TypeOK
  <1>3. ASSUME NEW j \in Jobs, QueueStep(j)
        PROVE  FailuresInv'
    <2>1. /\ UNCHANGED <<attemptsMade, stalled, pc, attempt, records, posts>>
          /\ UNCHANGED failures
      BY <1>3 DEF QueueStep, Enqueue, StartJob, RetryFailed, PurgeFailed,
                  fanOutVars, circuitVars, history
    <2>2. QED BY <1>1, <1>2, <2>1
  <1>4. ASSUME NEW j \in Jobs, GetActive(j)
        PROVE  FailuresInv'
    <2>1. UNCHANGED <<attemptsMade, stalled, attempt, records, posts, failures>>
      BY <1>4 DEF GetActive, queueVars, history, circuitVars
    <2>2. pc[j] = NoDelivery
      BY <1>4 DEF GetActive, PromiseInv, SettledMeansQuiet
    <2>3. /\ \A s \in Subscriptions : pc'[j][s] \in {"isOpen", "off"}
          /\ \A i \in Jobs : i # j => pc'[i] = pc[i]
      BY <1>0, <1>4 DEF GetActive, TypeOK
    <2>4. ASSUME NEW i \in Jobs, NEW s \in Subscriptions
          PROVE  Backing(i, s)' = Backing(i, s)
      <3>1. CASE i = j
        <4>1. Reserve(j, s) = 0 /\ Reserve(j, s)' = 0
          BY <2>2, <2>3 DEF NoDelivery, Reserve
        <4>2. QED BY <2>1, <3>1, <4>1 DEF Backing, Margin
      <3>2. CASE i # j
        BY <2>1, <2>3, <3>2, BackingKept
      <3>3. QED BY <3>1, <3>2
    <2>5. \A i \in Jobs, s \in Subscriptions : Backing(i, s) <= Backing(i, s)'
      BY <1>0, <2>4, BackingTypes
    <2>6. QED BY <1>0, <1>2, <2>1, <2>5, NothingRecorded
  <1>5. ASSUME NEW j \in Jobs, SkipEmpty(j) \/ Settle(j)
        PROVE  FailuresInv'
    BY <1>0, <1>5, RunEnds, FinishRunFailures
  <1>6. ASSUME NEW j \in Jobs, NEW s \in Subscriptions,
               DeliveryStep(j, s) \/ EnterLimiter(j, s)
        PROVE  FailuresInv'
    BY <1>6, DeliveryStepFailures DEF PromiseInv
  <1>7. CASE Surroundings
    <2>1. UNCHANGED <<attemptsMade, stalled, pc, attempt, records, posts>>
      BY <1>7 DEF Surroundings, CircuitCools, WindowSlides, CacheGains,
                  CacheLoses, queueVars, fanOutVars, history
    <2>2. \/ UNCHANGED failures
          \/ \E c \in Callbacks :
                 failures' = [failures EXCEPT ![c] = failures[c] - 1]
      BY <1>7 DEF Surroundings, CircuitCools, WindowSlides, CacheGains,
                  CacheLoses, circuitVars
    <2>3. \A d \in Callbacks : failures'[d] <= failures[d]
      <3>1. failures \in [Callbacks -> Nat]
        BY <1>0 DEF TypeOK
      <3>2. QED BY <2>2, <3>1
    <2>4. QED BY <1>1, <2>1, <2>3
  <1>8. CASE UNCHANGED vars
    BY <1>1, <1>2, <1>8 DEF vars, queueVars, fanOutVars, circuitVars, history
  <1>9. QED
    BY <1>0, <1>3, <1>4, <1>5, <1>6, <1>7, <1>8, CrashFailures DEF Next, JobStep

LEMMA FailuresInit == Init => FailuresInv
  <1> SUFFICES ASSUME Init, NEW c \in Callbacks
               PROVE  failures[c] <= Backed(c)
    BY DEF FailuresInv
  <1>1. ASSUME NEW j \in Jobs, NEW s \in Subscriptions
        PROVE  Backing(j, s) = 0
    <2>1. /\ pc[j][s] = "off" /\ attempt[j][s] = 0 /\ records[j][s] = 0
          /\ posts[j][s] = 0 /\ attemptsMade[j] = 0 /\ stalled[j] = 0
      BY DEF Init, NoDelivery, Zeros
    <2>2. Margin(j, s) = 0
      BY <2>1, LimitsAssumption DEF Margin
    <2>3. Reserve(j, s) = 0
      BY <2>1 DEF Reserve
    <2>4. QED BY <2>2, <2>3 DEF Backing
  <1> DEFINE f == [p \in DeliveriesTo(c) |-> Backing(p[1], p[2])]
  <1>2. f \in [DeliveriesTo(c) -> Nat]
    BY <1>1, DeliveriesAre
  <1>3. IsFiniteSet(DeliveriesTo(c)) /\ Backed(c) = SumFunction(f)
    BY DeliveriesAre DEF Backed
  <1> HIDE DEF f
  <1>4. Backed(c) >= 0
    BY <1>2, <1>3, SumNotNegative
  <1>5. failures[c] = 0
    BY DEF Init
  <1>6. QED BY <1>4, <1>5

\* A circuit's window holds at most one failure for every POST to the callback
\* and one more for every run and entry of it, over all jobs together: the catch
\* block records the last attempt's failure a second time, and nothing else.
THEOREM FailuresAreBackedHolds == Spec => []FailuresAreBacked
  <1>1. Init => BudgetInv /\ FailuresInv
    BY BudgetInit, FailuresInit
  <1>2. /\ TypeInv /\ TypeInv' /\ PromiseInv /\ BudgetInv /\ FailuresInv
        /\ [Next]_vars
        => BudgetInv' /\ FailuresInv'
    BY BudgetStep, FailuresStep
  <1>3. TypeInv /\ FailuresInv => FailuresAreBacked
    <2> DEFINE f(c) == [p \in DeliveriesTo(c) |-> Backing(p[1], p[2])]
               h(c) == [p \in DeliveriesTo(c) |-> Margin(p[1], p[2])]
    <2> SUFFICES ASSUME TypeInv, FailuresInv, NEW c \in Callbacks
                 PROVE  failures[c] <= SumFunction(h(c))
      BY DEF FailuresAreBacked
    <2>1. TypeOK
      BY DEF TypeInv
    <2>2. ASSUME NEW j \in Jobs, NEW s \in Subscriptions
          PROVE  /\ Backing(j, s) \in Int /\ Margin(j, s) \in Int
                 /\ Backing(j, s) <= Margin(j, s)
      <3>1. Reserve(j, s) >= 0 /\ Reserve(j, s) \in Int
            /\ Margin(j, s) \in Int
        BY <2>1, BackingTypes
      <3>2. QED BY <3>1 DEF Backing
    <2>3. /\ f(c) \in [DeliveriesTo(c) -> Int]
          /\ h(c) \in [DeliveriesTo(c) -> Int]
          /\ \A p \in DeliveriesTo(c) : f(c)[p] <= h(c)[p]
      BY <2>2, DeliveriesAre
    <2>4. failures[c] <= SumFunction(f(c)) /\ IsFiniteSet(DeliveriesTo(c))
      BY DeliveriesAre DEF FailuresInv, Backed
    <2> HIDE DEF f, h
    <2>5. SumFunction(f(c)) + 0 <= SumFunction(h(c))
      BY <2>3, <2>4, SumGrows
    <2>6. SumFunction(f(c)) \in Int /\ SumFunction(h(c)) \in Int
      BY <2>3, <2>4, SumIsInt
    <2>7. failures[c] \in Nat
      BY <2>1 DEF TypeOK
    <2>8. QED BY <2>4, <2>5, <2>6, <2>7
  <1>4. QED BY <1>1, <1>2, <1>3, DeliveryInvariants, PTL DEF Spec
-----------------------------------------------------------------------------
(* Refinement of AtLeastOnce. *)

LEMMA PhaseOf ==
    /\ \A j \in Jobs :
           /\ jobState[j] = "none" => Phase[j] = "new"
           /\ jobState[j] \in {"waiting", "active"} => Phase[j] = "pending"
           /\ jobState[j] \in {"completed", "failed", "purged"} =>
                  Phase[j] = jobState[j]
    /\ Phase = [j \in Jobs |-> Phase[j]]
  BY DEF Phase

LEMMA PhaseOfNext ==
    /\ \A j \in Jobs :
           /\ jobState'[j] = "none" => Phase'[j] = "new"
           /\ jobState'[j] \in {"waiting", "active"} => Phase'[j] = "pending"
           /\ jobState'[j] \in {"completed", "failed", "purged"} =>
                  Phase'[j] = jobState'[j]
           /\ jobState'[j] = jobState[j] => Phase'[j] = Phase[j]
    /\ Phase' = [j \in Jobs |-> Phase'[j]]
  BY DEF Phase

LEMMA PhaseKept ==
    ASSUME jobState' = jobState
    PROVE  Phase' = Phase
  BY DEF Phase

\* One job changes phase, as in the actions of AtLeastOnce.
LEMMA PhaseChange ==
    ASSUME NEW j \in Jobs, NEW v, Phase'[j] = v,
           \A i \in Jobs : i # j => jobState'[i] = jobState[i]
    PROVE  /\ Phase' = [Phase EXCEPT ![j] = v]
           /\ Phase' = [i \in Jobs |-> IF i \in {j} THEN v ELSE Phase[i]]
  BY PhaseOf, PhaseOfNext, Zenon

LEMMA PromiseStutter ==
    ASSUME UNCHANGED <<jobState, subs, owed, acked>>
    PROVE  UNCHANGED Promise!promiseVars
  BY PhaseKept DEF Promise!promiseVars

LEMMA QueueStepRefines ==
    ASSUME TypeInv, PromiseInv, NEW j \in Jobs, QueueStep(j)
    PROVE  [Promise!Next]_(Promise!promiseVars)
  <1>0. TypeOK
    BY DEF TypeInv
  <1> USE DEF fanOutVars, history
  <1>1. CASE Enqueue(j)
    <2>1. /\ jobState[j] = "none" /\ jobState'[j] = "waiting"
          /\ \A i \in Jobs : i # j => jobState'[i] = jobState[i]
          /\ owed' = [owed EXCEPT ![j] = subs]
          /\ UNCHANGED <<subs, acked>>
      BY <1>0, <1>1 DEF Enqueue, TypeOK
    <2>2. Phase[j] = "new" /\ Phase'[j] = "pending"
      BY <2>1, PhaseOf, PhaseOfNext
    <2>3. Promise!Publish(j)
      BY <2>1, <2>2, PhaseChange DEF Promise!Publish
    <2>4. QED BY <2>3 DEF Promise!Next
  <1>2. CASE StartJob(j)
    <2>1. /\ jobState[j] = "waiting" /\ jobState'[j] = "active"
          /\ \A i \in Jobs : i # j => jobState'[i] = jobState[i]
          /\ UNCHANGED <<subs, owed, acked>>
      BY <1>0, <1>2 DEF StartJob, TypeOK
    <2>2. \A i \in Jobs : Phase'[i] = Phase[i]
      BY <2>1, PhaseOf, PhaseOfNext
    <2>3. Phase' = Phase
      BY <2>2, PhaseOf, PhaseOfNext, Zenon
    <2>4. QED BY <2>1, <2>3 DEF Promise!promiseVars
  <1>3. CASE RetryFailed(j)
    <2>1. /\ jobState[j] = "failed" /\ jobState'[j] = "waiting"
          /\ \A i \in Jobs : i # j => jobState'[i] = jobState[i]
          /\ UNCHANGED <<subs, owed, acked>>
      BY <1>0, <1>3 DEF RetryFailed, TypeOK
    <2>2. Phase[j] = "failed" /\ Phase'[j] = "pending"
      BY <2>1, PhaseOf, PhaseOfNext
    <2>3. Promise!Retry(j)
      BY <2>1, <2>2, PhaseChange DEF Promise!Retry
    <2>4. QED BY <2>3 DEF Promise!Next
  <1>4. CASE PurgeFailed(j)
    <2>1. /\ jobState[j] = "failed" /\ jobState'[j] = "purged"
          /\ \A i \in Jobs : i # j => jobState'[i] = jobState[i]
          /\ UNCHANGED <<subs, owed, acked>>
      BY <1>0, <1>4 DEF PurgeFailed, TypeOK
    <2>2. Phase[j] = "failed" /\ Phase'[j] = "purged"
      BY <2>1, PhaseOf, PhaseOfNext
    <2>3. Promise!Purge(j)
      BY <2>1, <2>2, PhaseChange DEF Promise!Purge
    <2>4. QED BY <2>3 DEF Promise!Next
  <1>5. QED BY <1>1, <1>2, <1>3, <1>4 DEF QueueStep

LEMMA JobStepRefines ==
    ASSUME TypeInv, PromiseInv, NEW j \in Jobs, JobStep(j)
    PROVE  [Promise!Next]_(Promise!promiseVars)
  <1>0. TypeOK
    BY DEF TypeInv
  <1>1. CASE GetActive(j)
    BY <1>1, PromiseStutter DEF GetActive, queueVars, history
  <1>2. CASE SkipEmpty(j) \/ Settle(j)
    <2>1. PICK success \in BOOLEAN :
              /\ FinishRun(j, success)
              /\ success => owed[j] \subseteq acked[j]
              /\ jobState[j] = "active"
      BY <1>2, RunEnds
    <2>2. /\ jobState'[j] \in IF success THEN {"completed"}
                                         ELSE {"waiting", "failed"}
          /\ \A i \in Jobs : i # j => jobState'[i] = jobState[i]
          /\ UNCHANGED <<subs, owed, acked>>
      BY <1>0, <2>1, FinishRunEffect
    <2>3. Phase[j] = "pending"
      BY <2>1, PhaseOf
    <2>4. CASE jobState'[j] = "completed"
      <3>1. Phase'[j] = "completed" /\ success
        BY <2>2, <2>4, PhaseOfNext
      <3>2. Promise!Complete(j)
        BY <2>1, <2>2, <2>3, <3>1, PhaseChange DEF Promise!Complete
      <3>3. QED BY <3>2 DEF Promise!Next
    <2>5. CASE jobState'[j] = "waiting"
      <3>1. \A i \in Jobs : Phase'[i] = Phase[i]
        BY <2>2, <2>3, <2>5, PhaseOfNext
      <3>2. Phase' = Phase
        BY <3>1, PhaseOf, PhaseOfNext, Zenon
      <3>3. QED BY <2>2, <3>2 DEF Promise!promiseVars
    <2>6. CASE jobState'[j] = "failed"
      <3>1. Phase'[j] = "failed"
        BY <2>6, PhaseOfNext
      <3>2. Promise!GiveUp({j})
        BY <2>2, <2>3, <3>1, PhaseChange DEF Promise!GiveUp
      <3>3. QED BY <3>2 DEF Promise!Next
    <2>7. QED BY <2>2, <2>4, <2>5, <2>6
  <1>3. QED BY <1>1, <1>2 DEF JobStep

LEMMA DeliveryStepRefines ==
    ASSUME TypeInv, PromiseInv, NEW j \in Jobs, NEW s \in Subscriptions,
           DeliveryStep(j, s) \/ EnterLimiter(j, s)
    PROVE  [Promise!Next]_(Promise!promiseVars)
  <1>1. PICK step \in Steps : Effect(j, s, step)
    BY DeliveryEffect DEF PromiseInv
  <1>2. jobState' = jobState /\ Phase' = Phase /\ pc[j][s] # "off"
    BY <1>1, PhaseKept DEF Effect, queueVars
  <1>3. Phase[j] = "pending"
    <2>1. stage[j] = "fanOut"
      BY <1>2 DEF PromiseInv, SettledMeansQuiet, NoDelivery
    <2>2. jobState[j] = "active"
      BY <2>1 DEF PromiseInv, RunsWhileActive
    <2>3. QED BY <2>2, PhaseOf
  <1>4. CASE UNCHANGED <<subs, owed, acked>>
    BY <1>2, <1>4, PromiseStutter
  <1>5. CASE /\ acked' = [acked EXCEPT ![j] = @ \cup {s}]
             /\ UNCHANGED <<subs, owed>>
    <2>1. Promise!Acknowledge(j, s)
      BY <1>2, <1>3, <1>5 DEF Promise!Acknowledge
    <2>2. QED BY <2>1 DEF Promise!Next
  <1>6. CASE /\ subs' = subs \ SameCallback(s)
             /\ owed' = [i \in Jobs |-> owed[i] \ SameCallback(s)]
             /\ UNCHANGED acked
    <2>1. Promise!Part(SameCallback(s))
      BY <1>2, <1>6 DEF Promise!Part
    <2>2. SameCallback(s) \in SUBSET Subscriptions
      BY DEF SameCallback
    <2>3. QED BY <2>1, <2>2 DEF Promise!Next
  <1>7. QED BY <1>1, <1>4, <1>5, <1>6 DEF Effect

LEMMA SurroundingsRefines ==
    ASSUME Surroundings
    PROVE  [Promise!Next]_(Promise!promiseVars)
  <1> USE DEF queueVars, fanOutVars, history
  <1>1. CASE \E c \in Callbacks : CircuitCools(c) \/ WindowSlides(c)
    BY <1>1, PromiseStutter DEF CircuitCools, WindowSlides
  <1>2. ASSUME NEW s \in Subscriptions, CacheGains(s)
        PROVE  [Promise!Next]_(Promise!promiseVars)
    <2>1. Promise!Join(s)
      BY <1>2, PhaseKept DEF CacheGains, Promise!Join
    <2>2. QED BY <2>1 DEF Promise!Next
  <1>3. ASSUME NEW s \in Subscriptions, CacheLoses(s)
        PROVE  [Promise!Next]_(Promise!promiseVars)
    <2>1. Promise!Part({s})
      BY <1>3, PhaseKept DEF CacheLoses, Promise!Part
    <2>2. QED BY <2>1 DEF Promise!Next
  <1>4. QED BY <1>1, <1>2, <1>3 DEF Surroundings

\* A crash gives up the jobs that stalled too often; the rest stay pending.
LEMMA CrashRefines ==
    ASSUME TypeInv, Crash
    PROVE  [Promise!Next]_(Promise!promiseVars)
  <1> DEFINE dead == {j \in Jobs : jobState[j] = "active"
                                       /\ jobState'[j] = "failed"}
  <1>1. /\ UNCHANGED <<subs, owed, acked>>
        /\ \A i \in Jobs :
               \/ jobState'[i] = jobState[i]
               \/ /\ jobState[i] = "active"
                  /\ jobState'[i] \in {"waiting", "failed"}
    BY DEF Crash
  <1>2. \A i \in dead : Phase[i] = "pending" /\ Phase'[i] = "failed"
    BY PhaseOf, PhaseOfNext
  <1>3. \A i \in Jobs \ dead : Phase'[i] = Phase[i]
    BY <1>1, PhaseOf, PhaseOfNext
  <1>4. dead \in SUBSET Jobs
    OBVIOUS
  <1> HIDE DEF dead
  <1>5. Phase' = [i \in Jobs |-> IF i \in dead THEN "failed" ELSE Phase[i]]
    BY <1>2, <1>3, PhaseOfNext, Zenon
  <1>6. Promise!GiveUp(dead)
    BY <1>1, <1>2, <1>5 DEF Promise!GiveUp
  <1>7. QED BY <1>4, <1>6 DEF Promise!Next

\* The worker, the fan-out and BullMQ keep the promise of AtLeastOnce: every
\* step of theirs is one of its steps, or none it can see.
THEOREM ImplementsPromise == Spec => PromiseSpec
  <1>1. Init => Promise!Init
    BY DEF Init, Promise!Init, Phase
  <1>2. TypeInv /\ PromiseInv /\ [Next]_vars =>
            [Promise!Next]_(Promise!promiseVars)
    <2> SUFFICES ASSUME TypeInv, PromiseInv, [Next]_vars
                 PROVE  [Promise!Next]_(Promise!promiseVars)
      OBVIOUS
    <2>1. CASE Next
      BY <2>1, QueueStepRefines, JobStepRefines, DeliveryStepRefines,
         SurroundingsRefines, CrashRefines DEF Next
    <2>2. CASE UNCHANGED vars
      BY <2>2, PromiseStutter DEF vars, queueVars, history
    <2>3. QED BY <2>1, <2>2
  <1>3. QED BY <1>1, <1>2, DeliveryInvariants, PTL
            DEF Spec, PromiseSpec, Promise!Spec
=============================================================================
