---------------------------- MODULE LimiterProofs ----------------------------
(* Proofs about Limiter, for every number of calls and of permits: the     *)
(* books of the semaphore are in order, it implements the gate, and it is  *)
(* fair to its queue.                                                      *)
EXTENDS Limiter, FiniteSetTheorems, SequenceTheorems, TLAPS

Range_waiters == {waiters[i] : i \in DOMAIN waiters}

\* The strengthening: the counter is within its bounds, and the holders can be
\* counted even if the calls cannot.
LimiterInv == /\ TypeOK
              /\ IsFiniteSet(Holders)
              /\ PermitsBalanced
              /\ current <= max
              /\ NoIdlePermit

\* What a step can do to the holders, the waiting calls and the counter.
LEMMA AcquireFreeEffect ==
    ASSUME LimiterInv, NEW t \in Calls, AcquireFree(t)
    PROVE  /\ t \notin Holders /\ t \notin Waiting
           /\ Holders' = Holders \cup {t}
           /\ Waiting' = Waiting
           /\ waiters = <<>>
  <1>1. pc \in [Calls -> CallStates] /\ pc[t] = "idle"
        /\ pc' = [pc EXCEPT ![t] = "granted"]
    BY DEF LimiterInv, TypeOK, AcquireFree
  <1>2. /\ t \notin Holders /\ t \notin Waiting
        /\ Holders' = Holders \cup {t}
        /\ Waiting' = Waiting
    BY <1>1 DEF Holders, Waiting
  <1>3. waiters = <<>>
    BY MaxAssumption DEF LimiterInv, NoIdlePermit, AcquireFree, TypeOK
  <1>4. QED BY <1>2, <1>3

LEMMA AcquireQueuedEffect ==
    ASSUME LimiterInv, NEW t \in Calls, AcquireQueued(t)
    PROVE  /\ t \notin Holders /\ t \notin Waiting
           /\ Holders' = Holders
           /\ Waiting' = Waiting \cup {t}
           /\ current = max
  <1>1. pc \in [Calls -> CallStates] /\ pc[t] = "idle"
        /\ pc' = [pc EXCEPT ![t] = "waiting"]
    BY DEF LimiterInv, TypeOK, AcquireQueued
  <1>2. /\ t \notin Holders /\ t \notin Waiting
        /\ Holders' = Holders
        /\ Waiting' = Waiting \cup {t}
    BY <1>1 DEF Holders, Waiting
  <1>3. current = max
    BY MaxAssumption DEF LimiterInv, AcquireQueued, TypeOK
  <1>4. QED BY <1>2, <1>3

LEMMA RunEffect ==
    ASSUME LimiterInv, NEW t \in Calls, Run(t)
    PROVE  Holders' = Holders /\ Waiting' = Waiting
  BY DEF LimiterInv, TypeOK, Run, Holders, Waiting

LEMMA ReleaseEffect ==
    ASSUME LimiterInv, NEW t \in Calls, Release(t)
    PROVE  /\ t \in Holders
           /\ \/ /\ waiters = <<>> /\ waiters' = <<>>
                 /\ current' = current - 1
                 /\ Holders' = Holders \ {t}
                 /\ Waiting' = Waiting
              \/ /\ waiters # <<>> /\ waiters' = Tail(waiters)
                 /\ current' = current
                 /\ Head(waiters) \in Waiting /\ Head(waiters) \notin Holders
                 /\ Holders' = (Holders \ {t}) \cup {Head(waiters)}
                 /\ Waiting' = Waiting \ {Head(waiters)}
  <1>1. pc \in [Calls -> CallStates] /\ pc[t] = "running" /\ t \in Holders
    BY DEF LimiterInv, TypeOK, Release, Holders
  <1>2. CASE waiters = <<>>
    <2>1. /\ waiters' = <<>> /\ current' = current - 1
          /\ pc' = [pc EXCEPT ![t] = "idle"]
      BY <1>2 DEF Release
    <2>2. Holders' = Holders \ {t} /\ Waiting' = Waiting
      BY <1>1, <2>1 DEF Holders, Waiting
    <2>3. QED BY <1>1, <1>2, <2>1, <2>2
  <1>3. CASE waiters # <<>>
    <2> DEFINE h == Head(waiters)
    <2>1. /\ waiters' = Tail(waiters) /\ current' = current
          /\ pc' = [pc EXCEPT ![t] = "idle", ![h] = "granted"]
      BY <1>3 DEF Release
    <2>2. h \in Waiting
      <3>1. waiters \in Seq(Calls) /\ Waiting = Range_waiters
        BY DEF LimiterInv, TypeOK, PermitsBalanced, Range_waiters
      <3>2. h = waiters[1] /\ 1 \in DOMAIN waiters
        BY <3>1, <1>3, EmptySeq, LenProperties
      <3>3. QED BY <3>1, <3>2 DEF Range_waiters
    <2>3. h \in Calls /\ pc[h] = "waiting" /\ h # t /\ h \notin Holders
      BY <2>2, <1>1 DEF Waiting, Holders
    <2>4. /\ Holders' = (Holders \ {t}) \cup {h}
          /\ Waiting' = Waiting \ {h}
      BY <1>1, <2>1, <2>3 DEF Holders, Waiting
    <2>5. QED BY <1>1, <1>3, <2>1, <2>2, <2>3, <2>4
  <1>4. QED BY <1>2, <1>3

\* The queue's books: appending a call that is not queued adds it, taking the
\* first one removes it, and in both cases nobody is queued twice.
LEMMA AppendToQueue ==
    ASSUME NEW S, NEW q \in Seq(S), NEW x \in S,
           \A i \in DOMAIN q : q[i] # x,
           \A i, j \in DOMAIN q : q[i] = q[j] => i = j
    PROVE  LET r == Append(q, x) IN
           /\ r \in Seq(S)
           /\ {r[i] : i \in DOMAIN r} = {q[i] : i \in DOMAIN q} \cup {x}
           /\ \A i, j \in DOMAIN r : r[i] = r[j] => i = j
  <1> DEFINE r == Append(q, x)
  <1>1. /\ r \in Seq(S) /\ Len(r) = Len(q) + 1
        /\ \A i \in 1..Len(q) : r[i] = q[i]
        /\ r[Len(q) + 1] = x
    BY AppendProperties
  <1>2. /\ DOMAIN q = 1..Len(q) /\ DOMAIN r = 1..(Len(q) + 1)
        /\ Len(q) \in Nat
    BY <1>1, LenProperties
  <1> HIDE DEF r
  <1>3. {r[i] : i \in DOMAIN r} = {q[i] : i \in DOMAIN q} \cup {x}
    BY <1>1, <1>2
  <1>4. \A i, j \in DOMAIN r : r[i] = r[j] => i = j
    BY <1>1, <1>2
  <1>5. QED BY <1>1, <1>3, <1>4 DEF r

LEMMA TailOfQueue ==
    ASSUME NEW S, NEW q \in Seq(S), q # <<>>,
           \A i, j \in DOMAIN q : q[i] = q[j] => i = j
    PROVE  LET r == Tail(q) IN
           /\ r \in Seq(S)
           /\ {r[i] : i \in DOMAIN r} = {q[i] : i \in DOMAIN q} \ {Head(q)}
           /\ \A i, j \in DOMAIN r : r[i] = r[j] => i = j
  <1> DEFINE r == Tail(q)
  <1>1. /\ r \in Seq(S) /\ Len(r) = Len(q) - 1
        /\ \A i \in 1..Len(r) : r[i] = q[i + 1]
        /\ Head(q) = q[1]
    BY HeadTailProperties
  <1>2. /\ DOMAIN q = 1..Len(q) /\ DOMAIN r = 1..Len(r)
        /\ Len(q) \in Nat /\ Len(r) \in Nat
    BY <1>1, LenProperties
  <1> HIDE DEF r
  <1>3. {r[i] : i \in DOMAIN r} = {q[i] : i \in DOMAIN q} \ {Head(q)}
    <2>1. ASSUME NEW i \in DOMAIN r
          PROVE  r[i] \in {q[k] : k \in DOMAIN q} \ {Head(q)}
      <3>1. i + 1 \in DOMAIN q /\ 1 \in DOMAIN q /\ i + 1 # 1 /\ r[i] = q[i + 1]
        BY <1>1, <1>2, <2>1
      <3>2. q[i + 1] # q[1]
        BY <3>1
      <3>3. QED BY <1>1, <3>1, <3>2
    <2>2. ASSUME NEW i \in DOMAIN q, q[i] # Head(q)
          PROVE  q[i] \in {r[k] : k \in DOMAIN r}
      <3>1. i # 1
        BY <1>1, <2>2
      <3>2. i - 1 \in DOMAIN r /\ (i - 1) + 1 = i
        BY <1>1, <1>2, <2>2, <3>1
      <3>3. q[i] = r[i - 1]
        BY <1>1, <1>2, <3>2
      <3>4. QED BY <3>2, <3>3
    <2>3. QED BY <2>1, <2>2
  <1>4. \A i, j \in DOMAIN r : r[i] = r[j] => i = j
    BY <1>1, <1>2
  <1>5. QED BY <1>1, <1>3, <1>4 DEF r
-----------------------------------------------------------------------------
LEMMA LimiterInvInit == Init => LimiterInv
  <1> SUFFICES ASSUME Init PROVE LimiterInv
    OBVIOUS
  <1>1. Holders = {} /\ Waiting = {} /\ waiters = <<>> /\ current = 0
    BY DEF Init, Holders, Waiting
  <1>2. IsFiniteSet(Holders) /\ Cardinality(Holders) = 0
    BY <1>1, FS_EmptySet
  <1>3. waiters \in Seq(Calls) /\ DOMAIN waiters = {}
    BY <1>1, EmptySeq, LenProperties
  <1>4. PermitsBalanced
    BY <1>1, <1>2, <1>3 DEF PermitsBalanced
  <1>5. TypeOK /\ current <= max /\ NoIdlePermit
    BY <1>1, <1>3, MaxAssumption DEF Init, TypeOK, CallStates, NoIdlePermit
  <1>6. QED BY <1>2, <1>4, <1>5 DEF LimiterInv

LEMMA LimiterInvStep == LimiterInv /\ [Next]_vars => LimiterInv'
  <1> SUFFICES ASSUME LimiterInv, [Next]_vars PROVE LimiterInv'
    OBVIOUS
  <1>0. /\ TypeOK /\ PermitsBalanced /\ NoIdlePermit
        /\ current \in Nat /\ max \in Nat /\ current <= max
        /\ waiters \in Seq(Calls)
        /\ IsFiniteSet(Holders) /\ current = Cardinality(Holders)
        /\ Waiting = {waiters[i] : i \in DOMAIN waiters}
        /\ \A i, j \in DOMAIN waiters : waiters[i] = waiters[j] => i = j
    BY MaxAssumption DEF LimiterInv, TypeOK, PermitsBalanced
  <1>1. ASSUME NEW t \in Calls, AcquireFree(t) PROVE LimiterInv'
    <2>1. /\ t \notin Holders /\ Holders' = Holders \cup {t}
          /\ Waiting' = Waiting /\ waiters = <<>>
      BY <1>1, AcquireFreeEffect
    <2>2. waiters' = waiters /\ current' = current + 1 /\ current < max
          /\ pc' \in [Calls -> CallStates]
      BY <1>0, <1>1 DEF AcquireFree, TypeOK, CallStates
    <2>3. IsFiniteSet(Holders') /\ Cardinality(Holders') = current'
      BY <1>0, <2>1, <2>2, FS_AddElement
    <2>4. PermitsBalanced'
      BY <1>0, <2>1, <2>2, <2>3 DEF PermitsBalanced
    <2>5. TypeOK' /\ (current <= max)' /\ NoIdlePermit'
      BY <1>0, <2>1, <2>2 DEF TypeOK, NoIdlePermit
    <2>6. QED BY <2>3, <2>4, <2>5 DEF LimiterInv
  <1>2. ASSUME NEW t \in Calls, AcquireQueued(t) PROVE LimiterInv'
    <2>1. /\ t \notin Waiting /\ Holders' = Holders
          /\ Waiting' = Waiting \cup {t} /\ current = max
      BY <1>2, AcquireQueuedEffect
    <2>2. waiters' = Append(waiters, t) /\ current' = current
          /\ pc' \in [Calls -> CallStates]
      BY <1>0, <1>2 DEF AcquireQueued, TypeOK, CallStates
    <2>3. \A i \in DOMAIN waiters : waiters[i] # t
      BY <1>0, <2>1
    <2>4. /\ waiters' \in Seq(Calls)
          /\ {waiters'[i] : i \in DOMAIN waiters'} = Waiting \cup {t}
          /\ \A i, j \in DOMAIN waiters' : waiters'[i] = waiters'[j] => i = j
      BY <1>0, <2>2, <2>3, AppendToQueue
    <2>5. PermitsBalanced'
      BY <1>0, <2>1, <2>2, <2>4 DEF PermitsBalanced
    <2>6. TypeOK' /\ (current <= max)' /\ NoIdlePermit'
      BY <1>0, <2>1, <2>2, <2>4 DEF TypeOK, NoIdlePermit
    <2>7. QED BY <1>0, <2>1, <2>5, <2>6 DEF LimiterInv
  <1>3. ASSUME NEW t \in Calls, Run(t) PROVE LimiterInv'
    <2>1. Holders' = Holders /\ Waiting' = Waiting
      BY <1>3, RunEffect
    <2>2. waiters' = waiters /\ current' = current /\ pc' \in [Calls -> CallStates]
      BY <1>0, <1>3 DEF Run, TypeOK, CallStates
    <2>3. PermitsBalanced' /\ TypeOK' /\ NoIdlePermit'
      BY <1>0, <2>1, <2>2 DEF PermitsBalanced, TypeOK, NoIdlePermit
    <2>4. QED BY <1>0, <2>1, <2>2, <2>3 DEF LimiterInv
  <1>4. ASSUME NEW t \in Calls, Release(t) PROVE LimiterInv'
    <2>1. t \in Holders /\ pc' \in [Calls -> CallStates]
      <3>1. pc \in [Calls -> CallStates] /\ "idle" \in CallStates
            /\ "granted" \in CallStates
        BY <1>0 DEF TypeOK, CallStates
      <3>2. QED BY <1>4, <3>1, ReleaseEffect DEF Release
    <2>2. CASE waiters = <<>>
      <3>1. /\ waiters' = waiters /\ current' = current - 1
            /\ Holders' = Holders \ {t} /\ Waiting' = Waiting
        BY <1>4, <2>2, ReleaseEffect
      <3>2. IsFiniteSet(Holders') /\ Cardinality(Holders') = current'
        BY <1>0, <2>1, <3>1, FS_RemoveElement
      <3>3. current' \in Nat
        BY <3>2, FS_CardinalityType
      <3>4. PermitsBalanced'
        BY <1>0, <3>1, <3>2 DEF PermitsBalanced
      <3>5. TypeOK' /\ (current <= max)' /\ NoIdlePermit'
        BY <1>0, <2>1, <2>2, <3>1, <3>3 DEF TypeOK, NoIdlePermit
      <3>6. QED BY <3>2, <3>4, <3>5 DEF LimiterInv
    <2>3. CASE waiters # <<>>
      <3>1. /\ waiters' = Tail(waiters) /\ current' = current
            /\ Head(waiters) \notin Holders
            /\ Holders' = (Holders \ {t}) \cup {Head(waiters)}
            /\ Waiting' = Waiting \ {Head(waiters)}
        BY <1>4, <2>3, ReleaseEffect
      <3>2. IsFiniteSet(Holders') /\ Cardinality(Holders') = current'
        <4>1. /\ IsFiniteSet(Holders \ {t})
              /\ Cardinality(Holders \ {t}) = Cardinality(Holders) - 1
          BY <1>0, <2>1, FS_RemoveElement
        <4>2. Head(waiters) \notin Holders \ {t}
          BY <3>1
        <4>3. /\ IsFiniteSet(Holders')
              /\ Cardinality(Holders') = Cardinality(Holders \ {t}) + 1
          BY <3>1, <4>1, <4>2, FS_AddElement
        <4>4. QED BY <1>0, <3>1, <4>1, <4>3
      <3>3. /\ waiters' \in Seq(Calls)
            /\ {waiters'[i] : i \in DOMAIN waiters'} = Waiting'
            /\ \A i, j \in DOMAIN waiters' : waiters'[i] = waiters'[j] => i = j
        <4> DEFINE r == Tail(waiters)
        <4>1. /\ r \in Seq(Calls)
              /\ {r[i] : i \in DOMAIN r} =
                     {waiters[i] : i \in DOMAIN waiters} \ {Head(waiters)}
              /\ \A i, j \in DOMAIN r : r[i] = r[j] => i = j
          BY <1>0, <2>3, TailOfQueue
        <4>2. {waiters[i] : i \in DOMAIN waiters} = Waiting
          BY <1>0
        <4>3. r = waiters' /\ Waiting' = Waiting \ {Head(waiters)}
          BY <3>1
        <4> HIDE DEF r
        <4>4. {r[i] : i \in DOMAIN r} = Waiting'
          BY <4>1, <4>2, <4>3
        <4>5. QED BY <4>1, <4>3, <4>4
      <3>4. PermitsBalanced'
        BY <3>2, <3>3 DEF PermitsBalanced
      <3>5. TypeOK' /\ (current <= max)' /\ NoIdlePermit'
        BY <1>0, <2>1, <2>3, <3>1, <3>3 DEF TypeOK, NoIdlePermit
      <3>6. QED BY <3>2, <3>4, <3>5 DEF LimiterInv
    <2>4. QED BY <2>2, <2>3
  <1>5. CASE UNCHANGED vars
    <2>1. Holders' = Holders /\ Waiting' = Waiting
      BY <1>5 DEF vars, Holders, Waiting
    <2>2. QED BY <1>0, <1>5, <2>1
            DEF vars, LimiterInv, TypeOK, PermitsBalanced, NoIdlePermit
  <1>6. QED BY <1>1, <1>2, <1>3, <1>4, <1>5 DEF Next

\* The invariant holds in every reachable state.
THEOREM LimiterInvHolds == Spec => []LimiterInv
  <1>1. QED BY LimiterInvInit, LimiterInvStep, PTL DEF Spec

\* Every variable of the semaphore keeps its type, the counter a natural number
\* and the queue a sequence of calls, whichever way the calls interleave.
THEOREM TypeOKHolds == Spec => []TypeOK
  <1>1. LimiterInv => TypeOK
    BY DEF LimiterInv
  <1>2. QED BY <1>1, LimiterInvHolds, PTL

\* No permit is lost or made up, and a call waits exactly once, for every
\* number of concurrent deliveries.
THEOREM PermitsBalancedHolds == Spec => []PermitsBalanced
  <1>1. LimiterInv => PermitsBalanced
    BY DEF LimiterInv
  <1>2. QED BY <1>1, LimiterInvHolds, PTL

\* perCallbackConcurrency is never exceeded.
THEOREM AtMostMaxHolds == Spec => []AtMostMax
  <1>1. LimiterInv => AtMostMax
    BY DEF LimiterInv, PermitsBalanced, AtMostMax
  <1>2. QED BY <1>1, LimiterInvHolds, PTL

\* No wake-up is lost: nobody waits beside an idle permit.
THEOREM NoIdlePermitHolds == Spec => []NoIdlePermit
  <1>1. LimiterInv => NoIdlePermit
    BY DEF LimiterInv
  <1>2. QED BY <1>1, LimiterInvHolds, PTL

\* The semaphore serves its queue in order: a permit goes to a newcomer only
\* when nobody waits, and otherwise to the call that has waited longest.
THEOREM NoOvertakingHolds == Spec => NoOvertaking
  <1> DEFINE InOrder == \A u \in Calls : (u \notin Holders /\ u \in Holders') =>
                 \A i \in DOMAIN waiters : waiters[i] # u =>
                     \E k \in 1..(i - 1) : waiters[k] = u
  <1>1. LimiterInv /\ [Next]_vars => [InOrder]_vars
    <2> SUFFICES ASSUME LimiterInv, Next,
                        NEW u \in Calls, u \notin Holders, u \in Holders',
                        NEW i \in DOMAIN waiters, waiters[i] # u
                 PROVE  \E k \in 1..(i - 1) : waiters[k] = u
      OBVIOUS
    <2>0. waiters \in Seq(Calls) /\ DOMAIN waiters = 1..Len(waiters)
      BY LenProperties DEF LimiterInv, TypeOK
    <2>1. ASSUME NEW t \in Calls, AcquireFree(t) PROVE FALSE
      BY <2>0, <2>1, AcquireFreeEffect, EmptySeq
    <2>2. ASSUME NEW t \in Calls, AcquireQueued(t) PROVE FALSE
      BY <2>2, AcquireQueuedEffect
    <2>3. ASSUME NEW t \in Calls, Run(t) PROVE FALSE
      BY <2>3, RunEffect
    <2>4. ASSUME NEW t \in Calls, Release(t)
          PROVE  \E k \in 1..(i - 1) : waiters[k] = u
      <3>1. waiters # <<>> /\ u = Head(waiters)
        BY <2>4, ReleaseEffect
      <3>2. u = waiters[1]
        BY <2>0, <3>1
      <3>3. i # 1 /\ i \in Nat /\ i >= 1
        BY <2>0, <3>2, LenProperties
      <3>4. 1 \in 1..(i - 1)
        BY <3>3
      <3>5. QED BY <3>2, <3>4
    <2>5. QED BY <2>1, <2>2, <2>3, <2>4 DEF Next
  <1>2. QED BY <1>1, LimiterInvHolds, PTL DEF Spec, NoOvertaking

\* withCallbackLimit keeps the promise of the gate: whatever the queue does,
\* callers only see calls enter while there is room, leave, and hand over.
THEOREM LimiterImplementsGate == Spec => GateSpec
  <1>1. Init => Gate!Init
    BY DEF Init, Gate!Init, Holders, Waiting
  <1>2. LimiterInv /\ [Next]_vars => [Gate!Next]_(Gate!gateVars)
    <2> SUFFICES ASSUME LimiterInv, [Next]_vars
                 PROVE  Gate!Next \/ UNCHANGED Gate!gateVars
      OBVIOUS
    <2>1. ASSUME NEW t \in Calls, AcquireFree(t) PROVE Gate!Enter(t)
      <3>1. Cardinality(Holders) < max
        BY <2>1 DEF LimiterInv, PermitsBalanced, AcquireFree
      <3>2. /\ t \notin Holders /\ Holders' = Holders \cup {t}
            /\ Waiting' = Waiting \ {t}
        BY <2>1, AcquireFreeEffect
      <3>3. Gate!Cardinality(Holders) = Cardinality(Holders)
        BY DEF Gate!Cardinality, Cardinality
      <3>4. QED BY <3>1, <3>2, <3>3 DEF Gate!Enter
    <2>2. ASSUME NEW t \in Calls, AcquireQueued(t) PROVE Gate!Ask(t)
      BY <2>2, AcquireQueuedEffect DEF Gate!Ask
    <2>3. ASSUME NEW t \in Calls, Run(t) PROVE UNCHANGED Gate!gateVars
      BY <2>3, RunEffect DEF Gate!gateVars
    <2>4. ASSUME NEW t \in Calls, Release(t) PROVE Gate!Next
      <3>1. waiters # <<>> => Head(waiters) \in Calls
        BY HeadTailProperties DEF LimiterInv, TypeOK
      <3>2. CASE waiters = <<>>
        BY <2>4, <3>2, ReleaseEffect DEF Gate!Leave, Gate!Next
      <3>3. CASE waiters # <<>>
        BY <2>4, <3>1, <3>3, ReleaseEffect DEF Gate!HandOver, Gate!Next
      <3>4. QED BY <3>2, <3>3
    <2>5. CASE UNCHANGED vars
      BY <2>5 DEF vars, Gate!gateVars, Holders, Waiting
    <2>6. QED BY <2>1, <2>2, <2>3, <2>4, <2>5 DEF Next, Gate!Next
  <1>3. QED BY <1>1, <1>2, LimiterInvHolds, PTL DEF Spec, GateSpec, Gate!Spec
=============================================================================
