---------------------------- MODULE IngestProofs ----------------------------
(***************************************************************************)
(* Proofs for Ingest: for any number of subscriptions, topics, requests    *)
(* and faults.                                                             *)
(***************************************************************************)
EXTENDS Ingest, FiniteSetTheorems, SequenceTheorems, TLAPS

\* No lease ends later than the longest one begun now.
LeasesFit ==
    /\ \A s \in Subs : row[s] <= now + Longest
    /\ \A t \in Topics : key[t] <= now + Longest
    /\ \A h \in Handlers, t \in Topics : handler[h].left[t] <= Longest

\* Handlers are used in their order, one for each session, and every session
\* but the first has cost a fault: a new session finds one that is idle.
HandlersFit ==
    \E n \in 0..(faults + 1) :
        /\ session \/ n <= faults
        /\ \A h \in Handlers : In(h, "idle") <=> n < h

\* What the proof of SyncCutsOnlyUnseen needs to know of a handler.
LoopsFit ==
    \A h \in Handlers :
        handler[h].step \in {"del", "srem"} => handler[h].todo \cap Found(h) = {}

SyncKnowsLeases ==
    \A h \in Handlers : Syncing(h) =>
        \A t \in Topics : \A s \in Leased(t) :
            row[s] <= now + handler[h].left[t] \/ s \in unseen[h]

\* Only a subscribe request writes a lease.
RequestsFit == \A r \in Requests : pc[r] = "set" => r \in Announcers

SyncInv == /\ TypeOK /\ RequestsFit /\ LeasesFit
           /\ HandlersFit /\ LoopsFit /\ SyncKnowsLeases

\* What the client would subscribe to by itself is known like what the broker
\* has; an UNSUBSCRIBE under way is followed by a SUBSCRIBE of what is wanted.
Known == registry \cup cutOff \cup SubscribesIn(calls)

WantedIsKnown == wanted \subseteq Known

RevivedIn(cs, ts) ==
    \A i \in DOMAIN cs :
        cs[i].action = "unsubscribe" /\ cs[i].topic \in ts =>
            \E j \in DOMAIN cs : /\ i < j
                                 /\ cs[j].action = "subscribe"
                                 /\ cs[j].topic = cs[i].topic

Revived == RevivedIn(calls, wanted)

RegistryInv == RegistryMissesOnlyCutOff /\ WantedIsKnown /\ Revived
-----------------------------------------------------------------------------
(* Finite sets of numbers have a greatest element.  A set without one would *)
(* have a smallest subset without one, for inclusion is well-founded on     *)
(* finite sets.                                                             *)

HasMax(S) == \E m \in S : \A x \in S : x <= m

LEMMA FiniteHasMax ==
    ASSUME NEW S \in SUBSET Int, IsFiniteSet(S), S # {}
    PROVE  HasMax(S)
  <1> DEFINE R   == StrictSubsetOrdering(S)
             Bad == {T \in FiniteSubsetsOf(S) : T # {} /\ ~HasMax(T)}
  <1>1. IsWellFoundedOn(R, FiniteSubsetsOf(S))
    BY FS_StrictSubsetOrderingWellFounded
  <1>2. SUFFICES ASSUME Bad # {} PROVE FALSE
    BY DEF FiniteSubsetsOf
  <1>3. PICK T \in Bad : \A U \in Bad : <<U, T>> \notin R
    <2> HIDE DEF R
    <2>1. Bad \subseteq FiniteSubsetsOf(S)
      OBVIOUS
    <2> HIDE DEF Bad
    <2>2. QED BY <1>1, <1>2, <2>1, WFMin
  <1>4. PICK x : x \in T
    OBVIOUS
  <1>5. T \subseteq S /\ IsFiniteSet(T) /\ T \ {x} # T
    BY <1>4 DEF FiniteSubsetsOf
  <1>6. T \ {x} \in FiniteSubsetsOf(S) /\ <<T \ {x}, T>> \in R
    BY <1>5, FS_RemoveElement DEF FiniteSubsetsOf, StrictSubsetOrdering
  <1>7. T \ {x} \notin Bad
    BY <1>3, <1>6
  <1>8. CASE T \ {x} = {}
    BY <1>3, <1>4, <1>5, <1>8 DEF HasMax
  <1>9. CASE HasMax(T \ {x})
    <2>1. PICK m \in T \ {x} : \A y \in T \ {x} : y <= m
      BY <1>9 DEF HasMax
    <2>2. (IF x <= m THEN m ELSE x) \in T
      BY <1>4
    <2>3. \A y \in T : y <= (IF x <= m THEN m ELSE x)
      BY <1>4, <1>5, <2>1
    <2>4. HasMax(T)
      BY <2>2, <2>3 DEF HasMax
    <2>5. QED BY <1>3, <2>4
  <1>10. QED BY <1>6, <1>7, <1>8, <1>9

LEMMA MaxOfFinite ==
    ASSUME NEW S \in SUBSET Int, IsFiniteSet(S), S # {}
    PROVE  Max(S) \in S /\ \A x \in S : x <= Max(S)
  <1>1. PICK m \in S : \A x \in S : x <= m
    BY FiniteHasMax DEF HasMax
  <1>2. m \in S /\ \A x \in S : m >= x
    BY <1>1
  <1>3. QED BY <1>2 DEF Max

LEMMA FiniteImage ==
    ASSUME NEW S, IsFiniteSet(S), NEW f
    PROVE  IsFiniteSet({f[x] : x \in S})
  <1> DEFINE T == {f[x] : x \in S}
             g == [x \in S |-> f[x]]
  <1>1. g \in [S -> T] /\ \A t \in T : \E x \in S : g[x] = t
    OBVIOUS
  <1>2. g \in Surjection(S, T)
    <2> HIDE DEF g, T
    <2>1. QED BY <1>1 DEF Surjection
  <1>3. QED
    <2>1. IsFiniteSet(T)
      <3> HIDE DEF g, T
      <3>1. QED BY <1>2, FS_Surjection
    <2>2. QED BY <2>1

\* The greatest of the numbers f gives to the elements of S, or 0.
Greatest(S, f) == Max({0} \cup {f[x] : x \in S})

LEMMA MaxOfImage ==
    ASSUME NEW S, IsFiniteSet(S), NEW f, \A x \in S : f[x] \in Int
    PROVE  LET M == Greatest(S, f)
           IN  /\ M \in Nat
               /\ \A x \in S : f[x] <= M
               /\ M = 0 \/ \E x \in S : M = f[x]
  <1> DEFINE T == {0} \cup {f[x] : x \in S}
  <1>1. IsFiniteSet(T)
    <2> DEFINE I == {f[x] : x \in S}
    <2>1. IsFiniteSet(I)
      BY FiniteImage
    <2> HIDE DEF I
    <2>2. IsFiniteSet({0} \cup I)
      BY <2>1, FS_Singleton, FS_Union
    <2>3. QED BY <2>2 DEF I
  <1>2. T \in SUBSET Int /\ T # {} /\ 0 \in T
    OBVIOUS
  <1>3. Max(T) \in T /\ \A x \in T : x <= Max(T)
    <2> HIDE DEF T
    <2>1. QED BY <1>1, <1>2, MaxOfFinite
  <1>4. QED BY <1>2, <1>3 DEF Greatest

\* The same where no 0 is thrown in.
LEMMA MaxOfImageAlone ==
    ASSUME NEW S, IsFiniteSet(S), S # {}, NEW f, \A x \in S : f[x] \in Int
    PROVE  LET M == Max({f[x] : x \in S})
           IN  (\A x \in S : f[x] <= M) /\ \E x \in S : M = f[x]
  <1> DEFINE T == {f[x] : x \in S}
  <1>1. IsFiniteSet(T)
    BY FiniteImage
  <1>2. T \in SUBSET Int /\ T # {}
    OBVIOUS
  <1>3. Max(T) \in T /\ \A x \in T : x <= Max(T)
    <2> HIDE DEF T
    <2>1. QED BY <1>1, <1>2, MaxOfFinite
  <1>4. QED BY <1>3

LEMMA LongestIsLongest ==
    /\ Longest \in Nat
    /\ \A s \in Subs : Before[s] <= Longest
    /\ \A r \in Announcers : LeaseOf[r] <= Longest
  <1> DEFINE B == {Before[s] : s \in Subs}
             L == {LeaseOf[r] : r \in Announcers}
             T == {0} \cup B \cup L
  <1>1. IsFiniteSet(B) /\ IsFiniteSet(L)
    BY RequestsAssumption, FiniteImage
  <1>2. IsFiniteSet({0}) /\ IsFiniteSet({0} \cup B)
    BY <1>1, FS_Singleton, FS_Union
  <1>3. IsFiniteSet(T)
    <2> HIDE DEF B, L
    <2>1. QED BY <1>1, <1>2, FS_Union
  <1>4. T \in SUBSET Int /\ 0 \in T
    BY RequestsAssumption
  <1>5. Max(T) \in T /\ \A x \in T : x <= Max(T)
    <2> HIDE DEF T
    <2>1. QED BY <1>3, <1>4, MaxOfFinite
  <1>6. T \subseteq Nat
    BY RequestsAssumption
  <1>7. QED BY <1>4, <1>5, <1>6 DEF Longest

LEMMA TopicsFinite == IsFiniteSet(Topics)
  <1>1. IsFiniteSet(Subs)
    BY RequestsAssumption
  <1>2. QED BY <1>1, FiniteImage DEF Topics

\* SetToSeq lists the elements of a finite set.
LEMMA SetToSeqLists ==
    ASSUME NEW S, IsFiniteSet(S)
    PROVE  /\ SetToSeq(S) \in Seq(S)
           /\ \A x \in S : \E i \in DOMAIN SetToSeq(S) : SetToSeq(S)[i] = x
  <1> DEFINE n == Cardinality(S)
             f == SetToSeq(S)
  <1>1. n \in Nat /\ ExistsBijection(1..n, S)
    BY FS_CardinalityType
  <1>2. \E g : g \in [1..n -> S] /\ IsInjective(g)
    BY <1>1 DEF ExistsBijection, Bijection, Injection
  <1>3. f \in [1..n -> S] /\ IsInjective(f)
    BY <1>2 DEF SetToSeq
  <1>4. f \in Injection(1..n, S)
    BY <1>3 DEF Injection
  <1>5. Cardinality(1..n) = n
    BY <1>1, FS_Interval
  <1>6. f \in Surjection(1..n, S)
    <2> HIDE DEF f
    <2>1. QED BY <1>4, <1>5, FS_Injection
  <1>7. f \in Seq(S) /\ DOMAIN f = 1..n
    BY <1>1, <1>3
  <1>8. QED BY <1>6, <1>7 DEF Surjection
-----------------------------------------------------------------------------
(* The requests and the clock.                                             *)

\* Steps that leave the handlers alone.
LEMMA HandlersUntouched ==
    ASSUME SyncInv, UNCHANGED <<handler, faults, session>>,
           now' \in Nat, now <= now',
           \A s \in Subs : \/ row'[s] \in {row[s], 0}
                           \/ \A h \in Handlers : Syncing(h) => s \in unseen'[h],
           \A h \in Handlers : Syncing(h) => unseen[h] \subseteq unseen'[h]
    PROVE  HandlersFit' /\ LoopsFit' /\ SyncKnowsLeases'
  <1>1. HandlersFit' /\ LoopsFit'
    BY DEF SyncInv, HandlersFit, LoopsFit, In, Found
  <1>2. SyncKnowsLeases'
    <2> SUFFICES ASSUME NEW h \in Handlers, Syncing(h), NEW t \in Topics,
                        NEW s \in Subs, TopicOf[s] = t, now' < row'[s],
                        s \notin unseen'[h]
                 PROVE  row'[s] <= now' + handler[h].left[t]
      BY DEF SyncKnowsLeases, Syncing, Leased
    <2>1. /\ now \in Nat /\ row[s] \in Nat
          /\ handler[h].left[t] \in Nat
      BY DEF SyncInv, TypeOK, Ends
    <2>2. row'[s] = row[s]
      BY <2>1
    <2>3. s \in Leased(t)
      BY <2>1, <2>2 DEF Leased
    <2>4. row[s] <= now + handler[h].left[t]
      BY <2>3 DEF SyncInv, SyncKnowsLeases
    <2>5. QED BY <2>1, <2>2, <2>4
  <1>3. QED BY <1>1, <1>2

LEMMA RequestsKeepSync ==
    ASSUME NEW r \in Requests, SyncInv, RequestNext(r)
    PROVE  SyncInv'
  <1> USE DEF RequestNext, RequestStep, clientVars
  <1>0. /\ SubOf[r] \in Subs /\ Topic(r) \in Topics
        /\ r \in Announcers => LeaseOf[r] \in Nat /\ LeaseOf[r] <= Longest
        /\ now \in 1..MaxNow /\ now \in Nat /\ MaxNow \in Nat
        /\ Longest \in Nat
    BY RequestsAssumption, BoundsAssumption, LongestIsLongest
    DEF SyncInv, TypeOK, Topics, Topic
  <1>1. r \in Announcers => now + LeaseOf[r] \in Ends
    BY <1>0 DEF Ends
  <1>2. \A action \in {"subscribe", "unsubscribe"} :
            Publish(action, Topic(r)) =>
                commands' \in [Handlers -> Seq(Message)]
    <2> SUFFICES ASSUME NEW action \in {"subscribe", "unsubscribe"},
                        Publish(action, Topic(r))
                 PROVE  commands' \in [Handlers -> Seq(Message)]
      OBVIOUS
    <2>1. [action |-> action, topic |-> Topic(r)] \in Message
      BY <1>0 DEF Message
    <2>2. commands \in [Handlers -> Seq(Message)]
      BY DEF SyncInv, TypeOK
    <2>3. QED BY <2>1, <2>2 DEF Publish
  <1>3. pc' \in [Requests -> {"idle", "set", "sadd", "decide", "del", "srem",
                              "publish", "done"}]
    BY DEF SyncInv, TypeOK, Persist, SetKey, AddToSet, PublishSubscribe,
           Delete, Decide, DelKey, RemoveFromSet, PublishUnsubscribe
  <1>11. RequestsFit'
    BY DEF SyncInv, TypeOK, RequestsFit, Persist, SetKey, AddToSet,
           PublishSubscribe, Delete, Decide, DelKey, RemoveFromSet,
           PublishUnsubscribe
  <1>4. CASE Persist(r)
    <2> USE <1>4 DEF Persist, redisVars
    <2>1. TypeOK'
      BY <1>0, <1>1, <1>3 DEF SyncInv, TypeOK
    <2>2. LeasesFit'
      BY <1>0 DEF SyncInv, LeasesFit, TypeOK
    <2>3. \A h \in Handlers : Syncing(h) =>
              unseen'[h] = unseen[h] \cup {SubOf[r]}
      OBVIOUS
    <2>4. \A s \in Subs : \/ row'[s] \in {row[s], 0}
                          \/ \A h \in Handlers : Syncing(h) => s \in unseen'[h]
      BY <1>0, <2>3 DEF SyncInv, TypeOK
    <2>5. QED
      BY <1>0, <1>11, <2>1, <2>2, <2>3, <2>4, HandlersUntouched DEF SyncInv
  <1>5. CASE SetKey(r)
    <2> USE <1>5 DEF SetKey
    <2>0. r \in Announcers
      BY DEF SyncInv, RequestsFit
    <2>1. TypeOK'
      BY <1>0, <1>1, <1>3, <2>0 DEF SyncInv, TypeOK
    <2>2. LeasesFit'
      BY <1>0, <2>0 DEF SyncInv, LeasesFit, TypeOK
    <2>3. QED
      BY <1>0, <1>11, <2>1, <2>2, HandlersUntouched DEF SyncInv
  <1>6. CASE AddToSet(r) \/ RemoveFromSet(r)
    <2> USE <1>6 DEF AddToSet, RemoveFromSet
    <2>1. TypeOK'
      BY <1>0, <1>3 DEF SyncInv, TypeOK
    <2>2. LeasesFit'
      BY DEF SyncInv, LeasesFit
    <2>3. QED
      BY <1>0, <1>11, <2>1, <2>2, HandlersUntouched DEF SyncInv
  <1>7. CASE PublishSubscribe(r) \/ PublishUnsubscribe(r)
    <2> USE <1>7 DEF PublishSubscribe, PublishUnsubscribe, redisVars, Excuse
    <2>1. TypeOK'
      BY <1>0, <1>2, <1>3 DEF SyncInv, TypeOK
    <2>2. LeasesFit'
      BY DEF SyncInv, LeasesFit
    <2>3. QED
      BY <1>0, <1>11, <2>1, <2>2, HandlersUntouched DEF SyncInv
  <1>8. CASE Delete(r) \/ Decide(r)
    <2> USE <1>8 DEF Delete, Decide, redisVars
    <2>1. TypeOK'
      BY <1>0, <1>3 DEF SyncInv, TypeOK, Ends
    <2>3. \A s \in Subs : row'[s] \in {row[s], 0}
      BY DEF SyncInv, TypeOK
    <2>2. LeasesFit'
      <3>1. /\ \A s \in Subs : row[s] <= now + Longest
            /\ UNCHANGED <<now, key, handler>>
        BY DEF SyncInv, LeasesFit
      <3>2. QED BY <1>0, <2>3, <3>1 DEF SyncInv, LeasesFit
    <2>4. QED
      BY <1>0, <1>11, <2>1, <2>2, <2>3, HandlersUntouched DEF SyncInv
  <1>9. CASE DelKey(r)
    <2> USE <1>9 DEF DelKey, Excuse
    <2>1. TypeOK'
      BY <1>0, <1>3 DEF SyncInv, TypeOK, Ends
    <2>2. LeasesFit'
      BY <1>0 DEF SyncInv, LeasesFit, TypeOK
    <2>3. QED
      BY <1>0, <1>11, <2>1, <2>2, HandlersUntouched DEF SyncInv
  <1>10. QED BY <1>4, <1>5, <1>6, <1>7, <1>8, <1>9

LEMMA TickKeepsSync == SyncInv /\ Tick => SyncInv'
  <1> SUFFICES ASSUME SyncInv, Tick PROVE SyncInv'
    OBVIOUS
  <1> USE DEF Tick, redisVars, requestVars, clientVars, commandVars,
              handlerVars
  <1>1. now \in Nat /\ now' = now + 1 /\ now' \in 1..MaxNow
    BY BoundsAssumption DEF SyncInv, TypeOK
  <1>2. TypeOK'
    BY <1>1 DEF SyncInv, TypeOK
  <1>3. LeasesFit' /\ RequestsFit'
    BY <1>1, LongestIsLongest DEF SyncInv, LeasesFit, RequestsFit, TypeOK, Ends
  <1>4. QED
    BY <1>1, <1>2, <1>3, HandlersUntouched DEF SyncInv
-----------------------------------------------------------------------------
(* The handlers.  Each way an action rewrites a handler's record has a name *)
(* here and a lemma with the type and the fields of the result, so that no  *)
(* proof below has to expand an EXCEPT over records of Boolean fields.      *)

HandlerRecords == [step : Steps, isReconnect : BOOLEAN, todo : SUBSET Topics,
                   at : SUBSET Topics, left : [Topics -> Ends]]

Stepped(w, step) ==
    [w EXCEPT !.step = step]

LEMMA StepRecord ==
    ASSUME NEW w \in HandlerRecords, NEW step \in Steps
    PROVE  LET v == Stepped(w, step)
           IN  /\ v \in HandlerRecords
               /\ v.step = step /\ v.left = w.left /\ v.todo = w.todo
  <1>1. Stepped(w, step) \in HandlerRecords
    BY Zenon DEF Stepped, HandlerRecords
  <1>2. QED BY <1>1 DEF Stepped, HandlerRecords

Loaded(w, step, left) ==
    [w EXCEPT !.step = step, !.left = left]

LEMMA LoadRecord ==
    ASSUME NEW w \in HandlerRecords, NEW step \in Steps,
           NEW left \in [Topics -> Ends]
    PROVE  LET v == Loaded(w, step, left)
           IN  /\ v \in HandlerRecords
               /\ v.step = step /\ v.left = left /\ v.todo = w.todo
  <1>1. Loaded(w, step, left) \in HandlerRecords
    BY Zenon DEF Loaded, HandlerRecords
  <1>2. QED BY <1>1 DEF Loaded, HandlerRecords

AtWork(w, at, step) ==
    [w EXCEPT !.at = at, !.step = step]

LEMMA RoundRecord ==
    ASSUME NEW w \in HandlerRecords, NEW step \in Steps,
           NEW at \in SUBSET Topics
    PROVE  LET v == AtWork(w, at, step)
           IN  /\ v \in HandlerRecords
               /\ v.step = step /\ v.left = w.left /\ v.todo = w.todo
  <1>1. AtWork(w, at, step) \in HandlerRecords
    BY Zenon DEF AtWork, HandlerRecords
  <1>2. QED BY <1>1 DEF AtWork, HandlerRecords

Looping(w, todo, at, step) ==
    [w EXCEPT !.todo = todo, !.at = at, !.step = step]

LEMMA LoopRecord ==
    ASSUME NEW w \in HandlerRecords, NEW step \in Steps,
           NEW todo \in SUBSET Topics, NEW at \in SUBSET Topics
    PROVE  LET v == Looping(w, todo, at, step)
           IN  /\ v \in HandlerRecords
               /\ v.step = step /\ v.left = w.left /\ v.todo = todo
  <1>1. Looping(w, todo, at, step) \in HandlerRecords
    BY Zenon DEF Looping, HandlerRecords
  <1>2. QED BY <1>1 DEF Looping, HandlerRecords

Listing(w, todo, step) ==
    [w EXCEPT !.todo = todo, !.step = step]

LEMMA ListRecord ==
    ASSUME NEW w \in HandlerRecords, NEW step \in Steps,
           NEW todo \in SUBSET Topics
    PROVE  LET v == Listing(w, todo, step)
           IN  /\ v \in HandlerRecords
               /\ v.step = step /\ v.left = w.left /\ v.todo = todo
  <1>1. Listing(w, todo, step) \in HandlerRecords
    BY Zenon DEF Listing, HandlerRecords
  <1>2. QED BY <1>1 DEF Listing, HandlerRecords

Checking(w, todo, left, step) ==
    [w EXCEPT !.todo = todo, !.left = left, !.step = step]

LEMMA ExistsRecord ==
    ASSUME NEW w \in HandlerRecords, NEW step \in Steps,
           NEW todo \in SUBSET Topics, NEW left \in [Topics -> Ends]
    PROVE  LET v == Checking(w, todo, left, step)
           IN  /\ v \in HandlerRecords
               /\ v.step = step /\ v.left = left /\ v.todo = todo
  <1>1. Checking(w, todo, left, step) \in HandlerRecords
    BY Zenon DEF Checking, HandlerRecords
  <1>2. QED BY <1>1 DEF Checking, HandlerRecords

Starting(w, step, isReconnect) ==
    [w EXCEPT !.step = step, !.isReconnect = isReconnect]

LEMMA ConnectRecord ==
    ASSUME NEW w \in HandlerRecords, NEW step \in Steps,
           NEW isReconnect \in BOOLEAN
    PROVE  LET v == Starting(w, step, isReconnect)
           IN  /\ v \in HandlerRecords
               /\ v.step = step /\ v.left = w.left /\ v.todo = w.todo
  <1>1. Starting(w, step, isReconnect) \in HandlerRecords
    BY Zenon DEF Starting, HandlerRecords
  <1>2. QED BY <1>1 DEF Starting, HandlerRecords

LEMMA IdleTyped == Idle \in HandlerRecords
  BY LongestIsLongest, BoundsAssumption
  DEF Idle, HandlerRecords, Steps, NoLeases, Ends

LEMMA HandlerFieldsTyped ==
    ASSUME NEW w \in HandlerRecords
    PROVE  /\ w.step \in Steps /\ w.todo \subseteq Topics
           /\ w.at \subseteq Topics /\ w.left \in [Topics -> Ends]
           /\ \A t \in Topics : w.left[t] \in Nat
  BY DEF HandlerRecords, Ends

LEMMA HandlerIsTyped ==
    SyncInv => handler \in [Handlers -> HandlerRecords]
  BY DEF SyncInv, TypeOK, HandlerRecords

SyncSteps == {"existing", "del", "srem", "set", "sadd"}

\* A busy handler goes on, and the rest of the world is as the handler leaves
\* it.
LEMMA HandlerGoesOn ==
    ASSUME SyncInv, NEW h \in Handlers, NEW w \in HandlerRecords,
           handler' = [handler EXCEPT ![h] = w],
           ~In(h, "idle"), w.step # "idle",
           UNCHANGED <<now, row, pc, faults, session>>,
           TypeOK',
           \A t \in Topics : key'[t] <= now + Longest /\ w.left[t] <= Longest,
           w.step \in {"del", "srem"} => \A t \in w.todo : ~(w.left[t] > 0),
           w.step \in SyncSteps => \A t \in Topics : \A s \in Leased(t) :
               row[s] <= now + w.left[t] \/ s \in unseen'[h],
           \A g \in Handlers \ {h} : unseen'[g] = unseen[g]
    PROVE  SyncInv'
  <1>1. /\ handler'[h] = w
        /\ \A g \in Handlers \ {h} : handler'[g] = handler[g]
        /\ w.todo \subseteq Topics
    BY HandlerIsTyped, HandlerFieldsTyped
  <1>2. LeasesFit' /\ RequestsFit'
    BY <1>1 DEF SyncInv, LeasesFit, RequestsFit
  <1>3. HandlersFit'
    BY <1>1 DEF SyncInv, HandlersFit, In
  <1>4. LoopsFit'
    BY <1>1 DEF SyncInv, LoopsFit, Found
  <1>5. SyncKnowsLeases'
    BY <1>1 DEF SyncInv, SyncKnowsLeases, Syncing, Leased, In, SyncSteps
  <1>6. QED BY <1>2, <1>3, <1>4, <1>5 DEF SyncInv

LEMMA LoadKeepsSync ==
    ASSUME NEW h \in Handlers, SyncInv, Load(h),
           UNCHANGED <<now, row, requestVars, clientVars, commandVars, faults>>
    PROVE  SyncInv'
  <1> DEFINE left(t) == Max({0} \cup {row[s] - now : s \in Leased(t)})
             l == [t \in Topics |-> left(t)]
             w == Loaded(handler[h], "existing", l)
  <1>0. /\ row \in [Subs -> Ends] /\ now \in Nat /\ Longest \in Nat
        /\ MaxNow \in Nat /\ handler[h] \in HandlerRecords
        /\ \A s \in Subs : row[s] \in Nat /\ row[s] <= now + Longest
    BY HandlerIsTyped, LongestIsLongest, BoundsAssumption
    DEF SyncInv, TypeOK, LeasesFit, Ends
  <1>1. ASSUME NEW t \in Topics
        PROVE  /\ left(t) \in Nat /\ left(t) <= Longest
               /\ \A s \in Leased(t) : row[s] - now <= left(t)
    <2> DEFINE f == [s \in Leased(t) |-> row[s] - now]
    <2>1. IsFiniteSet(Leased(t)) /\ Leased(t) \subseteq Subs
      BY FS_Subset, RequestsAssumption DEF Leased
    <2>2. \A s \in Leased(t) : f[s] = row[s] - now /\ f[s] \in Int
      BY <1>0, <2>1
    <2>3. left(t) = Greatest(Leased(t), f)
      BY DEF Greatest
    <2>4. \A s \in Leased(t) : f[s] <= Longest
      BY <1>0, <2>1, <2>2
    <2> HIDE DEF f, left
    <2>5. /\ left(t) \in Nat
          /\ \A s \in Leased(t) : f[s] <= left(t)
          /\ left(t) = 0 \/ \E s \in Leased(t) : left(t) = f[s]
      BY <2>1, <2>2, <2>3, MaxOfImage
    <2>6. QED BY <1>0, <2>2, <2>4, <2>5
  <1>2. l \in [Topics -> Ends]
    <2> HIDE DEF left
    <2>1. QED BY <1>0, <1>1 DEF Ends
  <1>3. handler' = [handler EXCEPT ![h] = w]
    BY DEF Load, Loads, Loaded
  <1>4. w \in HandlerRecords
    <2> HIDE DEF l
    <2>1. "existing" \in Steps
      BY DEF Steps
    <2>2. QED BY <1>0, <1>2, <2>1, LoadRecord
  <1>5. w.step = "existing" /\ w.left = l
    <2> HIDE DEF l
    <2>1. "existing" \in Steps
      BY DEF Steps
    <2>2. QED BY <1>0, <1>2, <2>1, LoadRecord
  <1>6. TypeOK'
    <2>1. handler' \in [Handlers -> HandlerRecords]
      <3> HIDE DEF w
      <3>1. QED BY <1>3, <1>4, HandlerIsTyped
    <2>2. unseen' \in [Handlers -> SUBSET Subs]
      BY DEF Load, Loads, SyncInv, TypeOK
    <2>3. QED
      BY <2>1, <2>2 DEF Load, Loads, SyncInv, TypeOK, requestVars, clientVars,
                        commandVars, redisVars, HandlerRecords
  <1>7. \A t \in Topics : key'[t] <= now + Longest /\ w.left[t] <= Longest
    <2> HIDE DEF left, w
    <2>1. QED BY <1>1, <1>5 DEF Load, Loads, redisVars, SyncInv, LeasesFit
  <1>8. \A t \in Topics : \A s \in Leased(t) :
            row[s] <= now + w.left[t] \/ s \in unseen'[h]
    <2> HIDE DEF left, w
    <2>1. QED BY <1>0, <1>1, <1>5 DEF Leased
  <1>9. \A g \in Handlers \ {h} : unseen'[g] = unseen[g]
    BY DEF Load, Loads, SyncInv, TypeOK
  <1>10. In(h, "load") /\ UNCHANGED <<pc, session>>
    BY DEF Load, Loads, requestVars, clientVars
  <1>11. QED
    <2> HIDE DEF w
    <2>1. QED
      BY <1>3, <1>4, <1>5, <1>6, <1>7, <1>8, <1>9, <1>10, HandlerGoesOn
      DEF In

\* A step of the loops: what is left of the leases is not touched.
LEMMA LoopKeepsSync ==
    ASSUME NEW h \in Handlers, SyncInv,
           NEW removing \in SUBSET Topics, NEW setting \in SUBSET Topics,
           Syncing(h), Loop(h, removing, setting),
           removing \cap Found(h) = {},
           UNCHANGED <<now, row, key, requestVars, clientVars, commandVars,
                       faults, unseen, excused>>,
           active' \subseteq Topics
    PROVE  SyncInv'
  <1> DEFINE todo == IF removing # {} THEN removing ELSE setting
             step == CASE removing # {} -> "del"
                       [] setting # {}  -> "set"
                       [] OTHER         -> "subscribe"
             w == Looping(handler[h], todo, {}, step)
  <1>0. handler[h] \in HandlerRecords
    BY HandlerIsTyped
  <1>1. handler' = [handler EXCEPT ![h] = w]
    <2>1. handler' = [handler EXCEPT ![h].todo = todo, ![h].at = {},
                                     ![h].step = step]
      BY DEF Loop
    <2> HIDE DEF todo, step
    <2>2. QED BY <2>1 DEF Looping
  <1>2. /\ todo \subseteq Topics /\ step \in {"del", "set", "subscribe"}
        /\ step = "del" => todo = removing
    OBVIOUS
  <1> HIDE DEF todo, step
  <1>3. /\ w \in HandlerRecords /\ w.step = step /\ w.todo = todo
        /\ w.left = handler[h].left
    <2>1. step \in Steps /\ {} \in SUBSET Topics
      BY <1>2 DEF Steps
    <2>2. QED BY <1>0, <1>2, <2>1, LoopRecord
  <1> HIDE DEF w
  <1>4. TypeOK'
    <2>1. handler' \in [Handlers -> HandlerRecords]
      BY <1>1, <1>3, HandlerIsTyped
    <2>2. QED
      BY <2>1 DEF SyncInv, TypeOK, requestVars, clientVars, commandVars,
                  HandlerRecords
  <1>5. \A t \in Topics : key'[t] <= now + Longest /\ w.left[t] <= Longest
    BY <1>3 DEF SyncInv, LeasesFit
  <1>6. w.step \in {"del", "srem"} => \A t \in w.todo : ~(w.left[t] > 0)
    BY <1>2, <1>3 DEF Found
  <1>7. \A t \in Topics : \A s \in Leased(t) :
            row[s] <= now + w.left[t] \/ s \in unseen'[h]
    BY <1>3 DEF SyncInv, SyncKnowsLeases
  <1>8. ~In(h, "idle") /\ w.step # "idle" /\ UNCHANGED <<pc, session>>
    BY <1>2, <1>3 DEF Syncing, In, requestVars, clientVars
  <1>9. QED
    BY <1>1, <1>3, <1>4, <1>5, <1>6, <1>7, <1>8, HandlerGoesOn

LEMMA RoundKeepsSync ==
    ASSUME NEW h \in Handlers, SyncInv, Del(h) \/ Set(h),
           UNCHANGED <<now, row, requestVars, clientVars, commandVars, faults>>
    PROVE  SyncInv'
  <1>0. /\ handler[h] \in HandlerRecords /\ now \in 1..MaxNow
        /\ Longest \in Nat /\ MaxNow \in Nat /\ now \in Nat
        /\ key \in [Topics -> Ends] /\ excused \subseteq Topics
        /\ handler[h].todo \subseteq Topics
        /\ \A t \in Topics : /\ handler[h].left[t] \in Nat
                             /\ handler[h].left[t] <= Longest
                             /\ key[t] <= now + Longest
    BY HandlerIsTyped, HandlerFieldsTyped, LongestIsLongest, BoundsAssumption
    DEF SyncInv, TypeOK, LeasesFit
  <1>1. PICK t \in handler[h].todo, step \in {"srem", "sadd"}, end \in Ends :
            /\ handler' = [handler EXCEPT ![h].at = {t}, ![h].step = step]
            /\ key' = [key EXCEPT ![t] = end]
            /\ excused' = excused \cup
                   {x \in {t} : \E s \in unseen[h] \cap Leased(t) :
                                    row[s] > end}
            /\ UNCHANGED <<active, unseen>>
            /\ step = "srem" => In(h, "del")
            /\ step = "sadd" => In(h, "set")
            /\ end <= now + Longest
    <2>1. CASE Del(h)
      <3>1. PICK t \in handler[h].todo :
                /\ handler' = [handler EXCEPT ![h].at = {t}, ![h].step = "srem"]
                /\ key' = [key EXCEPT ![t] = 0]
                /\ excused' = excused \cup
                       {x \in {t} : \E s \in unseen[h] \cap Leased(t) :
                                        row[s] > 0}
                /\ UNCHANGED <<active, unseen>>
        BY <2>1 DEF Del, Round
      <3>2. 0 \in Ends /\ 0 <= now + Longest
        BY <1>0 DEF Ends
      <3>3. QED BY <2>1, <3>1, <3>2 DEF Del
    <2>2. CASE Set(h)
      <3>1. PICK t \in handler[h].todo :
                /\ handler' = [handler EXCEPT ![h].at = {t}, ![h].step = "sadd"]
                /\ key' = [key EXCEPT ![t] = now + handler[h].left[t]]
                /\ excused' = excused \cup
                       {x \in {t} : \E s \in unseen[h] \cap Leased(t) :
                                        row[s] > now + handler[h].left[t]}
                /\ UNCHANGED <<active, unseen>>
        BY <2>2 DEF Set, Round
      <3>2. /\ now + handler[h].left[t] \in Ends
            /\ now + handler[h].left[t] <= now + Longest
        BY <1>0 DEF Ends
      <3>3. QED BY <2>2, <3>1, <3>2 DEF Set
    <2>3. QED BY <2>1, <2>2
  <1> DEFINE w == AtWork(handler[h], {t}, step)
  <1>2. handler' = [handler EXCEPT ![h] = w]
    BY <1>1 DEF AtWork
  <1>3. /\ w \in HandlerRecords /\ w.step = step
        /\ w.left = handler[h].left /\ w.todo = handler[h].todo
    <2>1. step \in Steps /\ {t} \in SUBSET Topics
      BY <1>0 DEF Steps
    <2>2. QED BY <1>0, <2>1, RoundRecord
  <1> HIDE DEF w
  <1>4. TypeOK'
    <2>1. handler' \in [Handlers -> HandlerRecords]
      BY <1>2, <1>3, HandlerIsTyped
    <2>2. key' \in [Topics -> Ends] /\ excused' \subseteq Topics
      BY <1>0, <1>1
    <2>3. QED
      BY <1>1, <2>1, <2>2 DEF SyncInv, TypeOK, requestVars, clientVars,
                              commandVars, HandlerRecords
  <1>5. \A x \in Topics : key'[x] <= now + Longest /\ w.left[x] <= Longest
    BY <1>0, <1>1, <1>3
  <1>6. w.step \in {"del", "srem"} => \A x \in w.todo : ~(w.left[x] > 0)
    BY <1>0, <1>1, <1>3 DEF SyncInv, LoopsFit, Found, In
  <1>7. \A x \in Topics : \A s \in Leased(x) :
            row[s] <= now + w.left[x] \/ s \in unseen'[h]
    <2>1. Syncing(h)
      BY <1>1 DEF Syncing, In
    <2>2. QED BY <1>1, <1>3, <2>1 DEF SyncInv, SyncKnowsLeases
  <1>8. ~In(h, "idle") /\ w.step # "idle" /\ UNCHANGED <<pc, session>>
    BY <1>1, <1>3 DEF In, requestVars, clientVars
  <1>9. QED
    BY <1>1, <1>2, <1>3, <1>4, <1>5, <1>6, <1>7, <1>8, HandlerGoesOn

LEMMA SyncKeepsSync ==
    ASSUME NEW h \in Handlers, SyncInv, Sync(h)
    PROVE  SyncInv'
  <1> USE DEF Sync
  <1>0. /\ active \subseteq Topics /\ Found(h) \subseteq Topics
        /\ handler[h].todo \subseteq Topics /\ handler[h].at \subseteq Topics
    BY HandlerIsTyped, HandlerFieldsTyped DEF SyncInv, TypeOK, Found
  <1>1. CASE Load(h)
    BY <1>1, LoadKeepsSync
  <1>2. CASE Del(h) \/ Set(h)
    BY <1>2, RoundKeepsSync
  <1>3. CASE Existing(h)
    <2>1. Syncing(h) /\ (active \ Found(h)) \cap Found(h) = {}
      BY <1>3 DEF Existing, Syncing, In
    <2>2. QED
      BY <1>0, <1>3, <2>1, LoopKeepsSync DEF Existing, redisVars
  <1>4. CASE Srem(h)
    <2>1. /\ Syncing(h)
          /\ (handler[h].todo \ handler[h].at) \cap Found(h) = {}
      BY <1>4 DEF Srem, Syncing, In, SyncInv, LoopsFit
    <2>2. QED
      BY <1>0, <1>4, <2>1, LoopKeepsSync DEF Srem
  <1>5. CASE Sadd(h)
    <2>1. Syncing(h)
      BY <1>5 DEF Sadd, Syncing, In
    <2>2. QED
      BY <1>0, <1>5, <2>1, LoopKeepsSync DEF Sadd
  <1>6. QED BY <1>1, <1>2, <1>3, <1>4, <1>5

\* A step of the handler outside of the synchronisation.
LEMMA OutsideKeepsSync ==
    ASSUME SyncInv, NEW h \in Handlers, NEW w \in HandlerRecords,
           handler' = [handler EXCEPT ![h] = w],
           ~In(h, "idle"), w.step \notin SyncSteps \cup {"idle"},
           \A t \in Topics : w.left[t] <= Longest,
           UNCHANGED <<now, row, redisVars, requestVars, session, ready, broker,
                       registry, cutOff, deaf, commands, unseen, faults,
                       excused>>,
           listening' \subseteq Handlers, wanted' \subseteq Topics,
           calls' \in Seq(Message)
    PROVE  SyncInv'
  <1>1. TypeOK'
    <2>1. handler' \in [Handlers -> HandlerRecords]
      BY HandlerIsTyped
    <2>2. QED
      BY <2>1 DEF SyncInv, TypeOK, redisVars, requestVars, HandlerRecords
  <1>2. \A t \in Topics : key'[t] <= now + Longest /\ w.left[t] <= Longest
    BY DEF SyncInv, LeasesFit, redisVars
  <1>3. w.step \notin {"del", "srem"}
    BY DEF SyncSteps
  <1>4. UNCHANGED pc
    BY DEF requestVars
  <1>5. QED BY <1>1, <1>2, <1>3, <1>4, HandlerGoesOn

LEMMA ListenKeepsSync ==
    ASSUME NEW h \in Handlers, SyncInv, Listen(h),
           UNCHANGED <<now, row, redisVars, requestVars, session, ready, broker,
                       registry, cutOff, deaf, commands, unseen, faults,
                       excused>>
    PROVE  SyncInv'
  <1> DEFINE step == Bootstrap(handler[h].isReconnect)
             w == Stepped(handler[h], step)
  <1>1. handler[h] \in HandlerRecords
    BY HandlerIsTyped
  <1>2. step \in {"list", "load"}
    BY DEF Bootstrap
  <1>3. step \in Steps /\ step \notin SyncSteps \cup {"idle"}
    BY <1>2 DEF Steps, SyncSteps
  <1>4. handler' = [handler EXCEPT ![h] = w]
    BY DEF Listen, GoTo, Stepped
  <1>5. /\ listening' \subseteq Handlers /\ wanted' \subseteq Topics
        /\ calls' \in Seq(Message) /\ ~In(h, "idle")
    BY DEF Listen, SyncInv, TypeOK, In
  <1> HIDE DEF step
  <1>6. w \in HandlerRecords /\ w.step = step /\ w.left = handler[h].left
    BY <1>1, <1>3, StepRecord
  <1> HIDE DEF w
  <1>7. \A t \in Topics : w.left[t] <= Longest
    BY <1>6 DEF SyncInv, LeasesFit
  <1>8. QED BY <1>3, <1>4, <1>5, <1>6, <1>7, OutsideKeepsSync

LEMMA ListKeepsSync ==
    ASSUME NEW h \in Handlers, SyncInv, List(h),
           UNCHANGED <<now, row, redisVars, requestVars, session, ready, broker,
                       registry, cutOff, deaf, commands, unseen, faults,
                       excused>>
    PROVE  SyncInv'
  <1> DEFINE step == IF active = {} THEN "subscribe" ELSE "exists"
             w == Listing(handler[h], active, step)
  <1>1. handler[h] \in HandlerRecords /\ active \in SUBSET Topics
    BY HandlerIsTyped DEF SyncInv, TypeOK
  <1>3. step \in Steps /\ step \notin SyncSteps \cup {"idle"}
    BY DEF Steps, SyncSteps
  <1>4. handler' = [handler EXCEPT ![h] = w]
    BY DEF List, Listing
  <1>5. /\ listening' \subseteq Handlers /\ wanted' \subseteq Topics
        /\ calls' \in Seq(Message) /\ ~In(h, "idle")
    BY DEF List, SyncInv, TypeOK, In
  <1> HIDE DEF step
  <1>6. w \in HandlerRecords /\ w.step = step /\ w.left = handler[h].left
    BY <1>1, <1>3, ListRecord
  <1> HIDE DEF w
  <1>7. \A t \in Topics : w.left[t] <= Longest
    BY <1>6 DEF SyncInv, LeasesFit
  <1>8. QED BY <1>3, <1>4, <1>5, <1>6, <1>7, OutsideKeepsSync

\* A key that is alive ends after now: the 1 that stands for it is no longer
\* than the longest lease.
LEMMA ExistsKeepsSync ==
    ASSUME NEW h \in Handlers, SyncInv, Exists(h),
           UNCHANGED <<now, row, redisVars, requestVars, session, ready, broker,
                       registry, cutOff, deaf, commands, unseen, faults,
                       excused>>
    PROVE  SyncInv'
  <1>1. PICK t \in handler[h].todo :
            handler' = [handler EXCEPT
                ![h].todo = @ \ {t},
                ![h].left[t] = IF KeyAlive(t) THEN 1 ELSE 0,
                ![h].step = IF handler[h].todo = {t} THEN "subscribe" ELSE @]
    BY DEF Exists
  <1> DEFINE todo == handler[h].todo \ {t}
             alive == IF KeyAlive(t) THEN 1 ELSE 0
             left == [handler[h].left EXCEPT ![t] = alive]
             step == IF handler[h].todo = {t} THEN "subscribe"
                                              ELSE handler[h].step
             w == Checking(handler[h], todo, left, step)
  <1>2. /\ handler[h] \in HandlerRecords /\ handler[h].todo \subseteq Topics
        /\ handler[h].left \in [Topics -> Ends] /\ t \in Topics
        /\ now \in 1..MaxNow /\ MaxNow \in Nat /\ Longest \in Nat
        /\ key[t] \in Nat /\ key[t] <= now + Longest
    BY HandlerIsTyped, HandlerFieldsTyped, LongestIsLongest, BoundsAssumption
    DEF SyncInv, TypeOK, LeasesFit, Ends
  <1>3. step \in Steps /\ step \notin SyncSteps \cup {"idle"}
    BY DEF Steps, SyncSteps, Exists, In
  <1>4. alive \in Ends /\ alive <= Longest
    BY <1>2 DEF KeyAlive, Ends
  <1>5. handler' = [handler EXCEPT ![h] = w]
    BY <1>1 DEF Checking
  <1>6. /\ listening' \subseteq Handlers /\ wanted' \subseteq Topics
        /\ calls' \in Seq(Message) /\ ~In(h, "idle")
    BY DEF Exists, SyncInv, TypeOK, In
  <1> HIDE DEF step, alive
  <1>7. /\ left \in [Topics -> Ends] /\ todo \in SUBSET Topics
        /\ \A x \in Topics : left[x] <= Longest
    BY <1>2, <1>4 DEF SyncInv, LeasesFit
  <1> HIDE DEF left, todo
  <1>8. w \in HandlerRecords /\ w.step = step /\ w.left = left
    BY <1>2, <1>3, <1>7, ExistsRecord
  <1> HIDE DEF w
  <1>9. QED BY <1>3, <1>5, <1>6, <1>7, <1>8, OutsideKeepsSync

\* SubscribeAll appends calls, one for each topic found.
SubscribesOf(h) == [action : {"subscribe"}, topic : Found(h)]

LEMMA SubscribeAllCalls ==
    ASSUME NEW h \in Handlers, SyncInv
    PROVE  LET s == SetToSeq(SubscribesOf(h))
           IN  /\ s \in Seq(Message)
               /\ \A i \in DOMAIN s : s[i].action = "subscribe"
               /\ \A t \in Found(h) : \E i \in DOMAIN s : s[i].topic = t
  <1> DEFINE found == SubscribesOf(h)
             call == [t \in Found(h) |-> [action |-> "subscribe", topic |-> t]]
  <1>1. Found(h) \subseteq Topics
    BY DEF Found
  <1>2. IsFiniteSet(Found(h))
    BY <1>1, TopicsFinite, FS_Subset
  <1>3. found = {call[t] : t \in Found(h)}
    <2>1. ASSUME NEW c \in found
          PROVE  \E t \in Found(h) : c = call[t]
      BY DEF SubscribesOf
    <2>2. \A t \in Found(h) : call[t] \in found
      BY DEF SubscribesOf
    <2> HIDE DEF call, found
    <2>3. QED BY <2>1, <2>2
  <1>4. IsFiniteSet(found)
    <2> HIDE DEF call, found
    <2>1. QED BY <1>2, <1>3, FiniteImage
  <1>5. found \subseteq Message
    BY <1>1 DEF Message, SubscribesOf
  <1>6. /\ \A t \in Found(h) : [action |-> "subscribe", topic |-> t] \in found
        /\ \A c \in found : c.action = "subscribe"
    BY DEF SubscribesOf
  <1> HIDE DEF found
  <1>7. /\ SetToSeq(found) \in Seq(found)
        /\ \A x \in found : \E i \in DOMAIN SetToSeq(found) :
                                SetToSeq(found)[i] = x
    BY <1>4, SetToSeqLists
  <1>8. /\ SetToSeq(found) \in Seq(Message)
        /\ \A i \in DOMAIN SetToSeq(found) : SetToSeq(found)[i] \in found
    BY <1>5, <1>7
  <1>9. \A i \in DOMAIN SetToSeq(found) : SetToSeq(found)[i].action = "subscribe"
    BY <1>6, <1>8
  <1>10. ASSUME NEW t \in Found(h)
         PROVE  \E i \in DOMAIN SetToSeq(found) : SetToSeq(found)[i].topic = t
    <2>1. PICK i \in DOMAIN SetToSeq(found) :
              SetToSeq(found)[i] = [action |-> "subscribe", topic |-> t]
      BY <1>6, <1>7
    <2>2. QED BY <2>1
  <1>11. QED BY <1>8, <1>9, <1>10 DEF found

LEMMA SubscribeAllKeepsSync ==
    ASSUME NEW h \in Handlers, SyncInv, SubscribeAll(h),
           UNCHANGED <<now, row, redisVars, requestVars, session, ready, broker,
                       registry, cutOff, deaf, commands, unseen, faults,
                       excused>>
    PROVE  SyncInv'
  <1> DEFINE w == Stepped(Idle, "done")
  <1>1. "done" \in Steps /\ "done" \notin SyncSteps \cup {"idle"}
    BY DEF Steps, SyncSteps
  <1>2. handler' = [handler EXCEPT ![h] = w]
    BY DEF SubscribeAll, Stepped
  <1>3. w \in HandlerRecords /\ w.step = "done" /\ w.left = NoLeases
    <2>1. Idle.left = NoLeases
      BY DEF Idle
    <2>2. QED BY <1>1, <2>1, IdleTyped, StepRecord
  <1> HIDE DEF w
  <1>4. \A t \in Topics : w.left[t] <= Longest
    BY <1>3, LongestIsLongest DEF NoLeases
  <1>5. calls' \in Seq(Message)
    <2>1. SetToSeq(SubscribesOf(h)) \in Seq(Message)
      BY SubscribeAllCalls
    <2>2. calls \in Seq(Message) /\ calls' = calls \o SetToSeq(SubscribesOf(h))
      BY DEF SyncInv, TypeOK, SubscribeAll, SubscribesOf
    <2>3. QED BY <2>1, <2>2
  <1>6. /\ listening' \subseteq Handlers /\ wanted' \subseteq Topics
        /\ ~In(h, "idle")
    BY DEF SubscribeAll, SyncInv, TypeOK, In, Found
  <1>7. QED BY <1>1, <1>2, <1>3, <1>4, <1>5, <1>6, OutsideKeepsSync

LEMMA HandlerKeepsSync ==
    ASSUME NEW h \in Handlers, SyncInv, Handler(h)
    PROVE  SyncInv'
  BY SyncKeepsSync, ListenKeepsSync, ListKeepsSync, ExistsKeepsSync,
     SubscribeAllKeepsSync DEF Handler

\* The least idle handler follows the last that has been used.
LEMMA ConnectKeepsSync ==
    ASSUME SyncInv, Connect
    PROVE  SyncInv'
  <1>1. PICK n \in 0..faults : \A h \in Handlers : In(h, "idle") <=> n < h
    <2>1. ~session /\ faults \in Nat
      BY DEF Connect, SyncInv, TypeOK
    <2>2. QED BY <2>1 DEF SyncInv, HandlersFit
  <1>2. faults \in 0..MaxFaults /\ MaxFaults \in Nat
    BY BoundsAssumption DEF SyncInv, TypeOK
  <1> DEFINE I == {x \in Handlers : In(x, "idle")}
             h == Min(I)
             step == IF listening = {} THEN "listen" ELSE Bootstrap(ready)
             w == Starting(Idle, step, ready)
  <1>3. I \subseteq Int /\ n + 1 \in I /\ \A x \in I : n + 1 <= x
    BY <1>1, <1>2 DEF Handlers
  <1>4. h = n + 1
    <2> HIDE DEF I
    <2>1. \E x \in I : \A y \in I : x <= y
      BY <1>3
    <2>2. h \in I /\ \A y \in I : h <= y
      BY <2>1 DEF Min
    <2> HIDE DEF h
    <2>3. n \in Int
      BY <1>1, <1>2
    <2>4. h \in Int /\ h <= n + 1 /\ n + 1 <= h
      BY <1>3, <2>2
    <2>5. QED BY <2>3, <2>4
  <1>5. h \in Handlers
    BY <1>3, <1>4
  <1>6. handler' = [handler EXCEPT ![h] = w]
    <2>1. handler' = [handler EXCEPT
              ![h] = [Idle EXCEPT !.step = step, !.isReconnect = ready]]
      BY DEF Connect
    <2> HIDE DEF h, step
    <2>2. QED BY <2>1 DEF Starting
  <1> HIDE DEF h, I
  <1>7. /\ step \in Steps /\ step \notin SyncSteps /\ step # "idle"
        /\ ready \in BOOLEAN
    BY DEF Steps, SyncSteps, Bootstrap, SyncInv, TypeOK
  <1> HIDE DEF step
  <1>8. w \in HandlerRecords /\ w.step = step /\ w.left = NoLeases
    <2>1. Idle.left = NoLeases
      BY DEF Idle
    <2>2. QED BY <1>7, <2>1, IdleTyped, ConnectRecord
  <1> HIDE DEF w
  <1>9. /\ handler' \in [Handlers -> HandlerRecords]
        /\ handler'[h] = w
        /\ \A g \in Handlers \ {h} : handler'[g] = handler[g]
    BY <1>5, <1>6, <1>8, HandlerIsTyped
  <1>10. TypeOK'
    <2>1. /\ session' = TRUE /\ ready' = TRUE /\ broker' = wanted
          /\ UNCHANGED <<now, row, key, active, pc, announced, wanted, calls,
                         registry, cutOff, deaf, listening, commands, unseen,
                         faults, excused>>
      BY DEF Connect, redisVars, requestVars, commandVars
    <2>2. QED BY <1>9, <2>1 DEF SyncInv, TypeOK, HandlerRecords
  <1>11. RequestsFit' /\ LeasesFit'
    <2>1. \A t \in Topics : w.left[t] <= Longest
      BY <1>8, LongestIsLongest DEF NoLeases
    <2>2. QED
      BY <1>9, <2>1 DEF Connect, SyncInv, RequestsFit, LeasesFit, redisVars,
                        requestVars
  <1>12. HandlersFit'
    <2>1. \A x \in Handlers : handler'[x].step = "idle" <=> n + 1 < x
      BY <1>1, <1>2, <1>4, <1>7, <1>8, <1>9 DEF In, Handlers
    <2>2. n + 1 \in 0..(faults' + 1) /\ session' = TRUE
      BY <1>1, <1>2 DEF Connect
    <2>3. QED BY <2>1, <2>2 DEF HandlersFit, In
  <1>13. LoopsFit'
    BY <1>7, <1>8, <1>9 DEF SyncInv, LoopsFit, Found, SyncSteps
  <1>14. SyncKnowsLeases'
    BY <1>7, <1>8, <1>9
    DEF Connect, SyncInv, SyncKnowsLeases, Syncing, Leased, SyncSteps
  <1>15. QED BY <1>10, <1>11, <1>12, <1>13, <1>14 DEF SyncInv

\* Steps of the client and its surroundings.
LEMMA SurroundingsKeepSync ==
    ASSUME SyncInv, TypeOK',
           UNCHANGED <<now, row, redisVars, requestVars, handlerVars>>,
           faults <= faults', session => session' \/ faults < faults'
    PROVE  SyncInv'
  <1> USE DEF redisVars, requestVars, handlerVars
  <1>1. RequestsFit' /\ LeasesFit' /\ LoopsFit'
    BY DEF SyncInv, RequestsFit, LeasesFit, LoopsFit, Found
  <1>2. HandlersFit'
    <2>1. PICK n \in 0..(faults + 1) :
              /\ session \/ n <= faults
              /\ \A h \in Handlers : In(h, "idle") <=> n < h
      BY DEF SyncInv, HandlersFit
    <2>2. faults \in Nat /\ faults' \in Nat
      BY DEF SyncInv, TypeOK
    <2>3. n \in 0..(faults' + 1)
      <3>1. \A f, g \in Nat : f <= g => 0..(f + 1) \subseteq 0..(g + 1)
        OBVIOUS
      <3>2. QED BY <2>1, <2>2, <3>1
    <2>5. n <= faults \/ (session /\ n <= faults + 1)
      BY <2>1
    <2>6. session' \/ n <= faults'
      BY <2>1, <2>2, <2>5
    <2>4. QED BY <2>1, <2>3, <2>6 DEF HandlersFit, In
  <1>3. SyncKnowsLeases'
    BY DEF SyncInv, SyncKnowsLeases, Syncing, Leased
  <1>4. QED BY <1>1, <1>2, <1>3 DEF SyncInv

LEMMA HandleKeepsSync ==
    ASSUME NEW h \in Handlers, SyncInv, Handle(h)
    PROVE  SyncInv'
  <1> USE DEF Handle, Received, handlerVars
  <1>1. /\ commands \in [Handlers -> Seq(Message)] /\ commands[h] # <<>>
        /\ calls \in Seq(Message) /\ wanted \subseteq Topics
    BY DEF SyncInv, TypeOK
  <1> DEFINE cmd == Head(commands[h])
  <1>2. cmd \in Message /\ Tail(commands[h]) \in Seq(Message)
    BY <1>1
  <1>3. cmd.topic \in Topics
    BY <1>2 DEF Message
  <1>4. commands' \in [Handlers -> Seq(Message)]
    BY <1>1, <1>2
  <1>5. calls' \in Seq(Message) /\ wanted' \subseteq Topics
    <2>1. PassOn(cmd)
      OBVIOUS
    <2> HIDE DEF cmd
    <2>2. QED BY <1>1, <1>2, <1>3, <2>1 DEF PassOn
  <1>6. TypeOK'
    BY <1>4, <1>5 DEF SyncInv, TypeOK, redisVars, requestVars
  <1>7. faults <= faults' /\ UNCHANGED session
    BY DEF SyncInv, TypeOK
  <1>8. QED BY <1>6, <1>7, SurroundingsKeepSync

LEMMA FaultCounts ==
    ASSUME SyncInv, Fault
    PROVE  faults' \in 0..MaxFaults /\ faults < faults'
  BY BoundsAssumption DEF SyncInv, TypeOK, Fault

LEMMA CallbackKeepsSync ==
    ASSUME SyncInv, Callback
    PROVE  SyncInv'
  <1>1. calls \in Seq(Message) /\ calls # <<>>
    BY DEF SyncInv, TypeOK, Callback
  <1>2. /\ Head(calls) \in Message /\ Tail(calls) \in Seq(Message)
        /\ Head(calls).topic \in Topics
    <2>1. Head(calls) \in Message /\ Tail(calls) \in Seq(Message)
      BY <1>1
    <2>2. QED BY <2>1 DEF Message
  <1>3. /\ broker' \subseteq Topics /\ registry' \subseteq Topics
        /\ wanted' \subseteq Topics /\ excused' \subseteq Topics
        /\ cutOff' \subseteq Topics /\ calls' \in Seq(Message)
    <2>1. CASE Answer
      BY <1>2, <2>1 DEF Answer, Callback, SyncInv, TypeOK
    <2>2. CASE Refuse
      BY <1>2, <2>2 DEF Refuse, Callback, SyncInv, TypeOK
    <2>3. QED BY <2>1, <2>2 DEF Callback
  <1>4. faults' \in 0..MaxFaults /\ faults <= faults'
    <2>1. CASE Answer
      BY <2>1 DEF Answer, SyncInv, TypeOK
    <2>2. CASE Refuse
      BY <2>2, FaultCounts DEF Refuse, SyncInv, TypeOK
    <2>3. QED BY <2>1, <2>2 DEF Callback
  <1>5. UNCHANGED <<now, row, redisVars, requestVars, session, ready,
                    commandVars, handlerVars>>
    BY DEF Callback
  <1>6. TypeOK'
    BY <1>3, <1>4, <1>5
    DEF SyncInv, TypeOK, redisVars, requestVars, commandVars, handlerVars
  <1>7. QED BY <1>4, <1>5, <1>6, SurroundingsKeepSync

LEMMA SubscribesAreTopics ==
    ASSUME NEW cs \in Seq(Message)
    PROVE  SubscribesIn(cs) \subseteq Topics
  <1>1. \A i \in DOMAIN cs : cs[i] \in Message
    OBVIOUS
  <1>2. \A i \in DOMAIN cs : cs[i].topic \in Topics
    BY <1>1 DEF Message
  <1>3. QED BY <1>2 DEF SubscribesIn

LEMMA DropKeepsSync ==
    ASSUME SyncInv, Drop
    PROVE  SyncInv'
  <1> USE DEF Drop, Disconnected
  <1>1. cutOff' \subseteq Topics /\ <<>> \in Seq(Message)
    BY SubscribesAreTopics DEF SyncInv, TypeOK
  <1>2. faults' \in 0..MaxFaults /\ faults <= faults' /\ faults < faults'
    BY FaultCounts DEF SyncInv, TypeOK
  <1>3. TypeOK'
    BY <1>1, <1>2
    DEF SyncInv, TypeOK, redisVars, requestVars, commandVars, handlerVars
  <1>4. QED BY <1>2, <1>3, SurroundingsKeepSync

LEMMA LoseOrRecoverKeepsSync ==
    ASSUME SyncInv, LoseOrRecover
    PROVE  SyncInv'
  <1> USE DEF LoseOrRecover, clientVars
  <1>1. faults' \in 0..MaxFaults /\ faults <= faults'
    BY FaultCounts DEF Lose, Recover, SyncInv, TypeOK
  <1>2. deaf' \in BOOLEAN
    BY DEF Lose, Recover
  <1>3. TypeOK'
    BY <1>1, <1>2 DEF SyncInv, TypeOK, redisVars, requestVars, handlerVars
  <1>4. QED BY <1>1, <1>3, SurroundingsKeepSync

LEMMA CrashKeepsSync ==
    ASSUME SyncInv, Crash
    PROVE  SyncInv'
  <1>1. faults' \in 0..MaxFaults
    BY FaultCounts DEF Crash
  <1>2. /\ handler' \in [Handlers -> HandlerRecords]
        /\ \A h \in Handlers : handler'[h] = Idle
    BY IdleTyped DEF Crash
  <1>3. Idle.step = "idle" /\ Idle.left = NoLeases
    BY DEF Idle
  <1>4. TypeOK'
    <2>1. /\ commands' \in [Handlers -> Seq(Message)]
          /\ unseen' \in [Handlers -> SUBSET Subs]
      BY DEF Crash
    <2>2. /\ session' = FALSE /\ ready' = FALSE
          /\ broker' = {} /\ wanted' = {} /\ calls' = <<>>
          /\ registry' = {} /\ cutOff' = {} /\ excused' = {}
          /\ listening' = {}
          /\ UNCHANGED <<now, row, key, active, pc, announced, deaf>>
      BY DEF Crash, redisVars, requestVars
    <2>3. calls' \in Seq(Message)
      BY <2>2
    <2>4. QED
      BY <1>1, <1>2, <2>1, <2>2, <2>3 DEF SyncInv, TypeOK, HandlerRecords
  <1>5. RequestsFit'
    BY DEF Crash, SyncInv, RequestsFit, requestVars
  <1>6. LeasesFit'
    BY <1>2, <1>3, LongestIsLongest
    DEF Crash, SyncInv, LeasesFit, NoLeases, redisVars
  <1>7. HandlersFit'
    <2>1. \A h \in Handlers : handler'[h].step = "idle" <=> 0 < h
      BY <1>2, <1>3, BoundsAssumption DEF Handlers
    <2>2. 0 \in 0..(faults' + 1) /\ 0 <= faults'
      <3>1. \A f \in Nat : 0 \in 0..(f + 1) /\ 0 <= f
        OBVIOUS
      <3>2. faults' \in Nat
        BY <1>1
      <3>3. QED BY <3>1, <3>2
    <2>3. QED BY <2>1, <2>2 DEF HandlersFit, In
  <1>8. LoopsFit' /\ SyncKnowsLeases'
    BY <1>2, <1>3 DEF LoopsFit, SyncKnowsLeases, Syncing
  <1>9. QED BY <1>4, <1>5, <1>6, <1>7, <1>8 DEF SyncInv

\* The keys that earlier processes leave end with the longest lease of their
\* topic.
LEMMA InitSync == Init => SyncInv
  <1> SUFFICES ASSUME Init PROVE SyncInv
    OBVIOUS
  <1>1. /\ Longest \in Nat /\ MaxNow \in Nat \ {0} /\ MaxFaults \in Nat
        /\ now = 1 /\ row = Before /\ Before \in [Subs -> Nat]
        /\ \A s \in Subs : row[s] <= Longest
    BY LongestIsLongest, BoundsAssumption, RequestsAssumption DEF Init
  <1>2. row \in [Subs -> Ends]
    BY <1>1 DEF Ends
  <1>3. key \in [Topics -> Ends] /\ \A t \in Topics : key[t] <= Longest
    <2>1. CASE key = NoLeases
      BY <1>1, <2>1 DEF NoLeases, Ends
    <2>2. CASE key = [t \in Topics |->
                         Max({row[s] : s \in {x \in Subs : TopicOf[x] = t}})]
      <3>1. ASSUME NEW t \in Topics
            PROVE  key[t] \in Nat /\ key[t] <= Longest
        <4> DEFINE S == {x \in Subs : TopicOf[x] = t}
        <4>1. S # {} /\ IsFiniteSet(S) /\ S \subseteq Subs
          BY RequestsAssumption, FS_Subset DEF Topics
        <4>2. \A s \in S : row[s] \in Nat /\ row[s] \in Int /\ row[s] <= Longest
          BY <1>1, <4>1
        <4>3. key[t] = Max({row[s] : s \in S})
          BY <2>2
        <4> HIDE DEF S
        <4>4. \E x \in S : Max({row[s] : s \in S}) = row[x]
          BY <4>1, <4>2, MaxOfImageAlone
        <4>5. QED BY <4>2, <4>3, <4>4
      <3>2. DOMAIN key = Topics /\ key = [t \in Topics |-> key[t]]
        BY <2>2
      <3>3. QED BY <1>1, <3>1, <3>2 DEF Ends
    <2>3. QED BY <2>1, <2>2 DEF Init
  <1>4. /\ handler \in [Handlers -> HandlerRecords]
        /\ \A h \in Handlers : handler[h] = Idle
    BY IdleTyped DEF Init
  <1>5. Idle.step = "idle" /\ Idle.left = NoLeases
    BY DEF Idle
  <1>6. TypeOK
    <2>1. /\ commands \in [Handlers -> Seq(Message)]
          /\ unseen \in [Handlers -> SUBSET Subs]
          /\ calls \in Seq(Message)
          /\ pc \in [Requests -> {"idle", "set", "sadd", "decide", "del",
                                  "srem", "publish", "done"}]
      BY DEF Init
    <2>2. /\ active \subseteq Topics /\ announced \subseteq Subs
          /\ now \in 1..MaxNow /\ faults \in 0..MaxFaults
      BY <1>1 DEF Init
    <2>3. /\ session = FALSE /\ ready = FALSE /\ deaf = FALSE
          /\ broker = {} /\ wanted = {} /\ registry = {}
          /\ listening = {} /\ excused = {} /\ cutOff = {}
      BY DEF Init
    <2>4. QED
      BY <1>2, <1>3, <1>4, <2>1, <2>2, <2>3 DEF TypeOK, HandlerRecords
  <1>7. RequestsFit
    BY DEF Init, RequestsFit
  <1>8. LeasesFit
    <2>1. \A h \in Handlers, t \in Topics : handler[h].left[t] = 0
      BY <1>4, <1>5 DEF NoLeases
    <2>2. /\ \A s \in Subs : row[s] \in Nat
          /\ \A t \in Topics : key[t] \in Nat
      BY <1>2, <1>3 DEF Ends
    <2>3. QED BY <1>1, <1>3, <2>1, <2>2 DEF LeasesFit
  <1>9. HandlersFit
    <2>1. \A h \in Handlers : In(h, "idle") <=> 0 < h
      BY <1>1, <1>4, <1>5 DEF Handlers, In
    <2>2. faults = 0 /\ 0 \in 0..(faults + 1)
      BY DEF Init
    <2>3. QED BY <2>1, <2>2 DEF HandlersFit
  <1>10. LoopsFit /\ SyncKnowsLeases
    BY <1>4, <1>5 DEF LoopsFit, SyncKnowsLeases, Syncing
  <1>11. QED BY <1>6, <1>7, <1>8, <1>9, <1>10 DEF SyncInv

LEMMA SyncInvKept == SyncInv /\ [Next]_vars => SyncInv'
  <1> SUFFICES ASSUME SyncInv, [Next]_vars PROVE SyncInv'
    OBVIOUS
  <1>1. ASSUME NEW r \in Requests, RequestNext(r) PROVE SyncInv'
    BY <1>1, RequestsKeepSync
  <1>2. ASSUME NEW h \in Handlers, Handler(h) \/ Handle(h) PROVE SyncInv'
    BY <1>2, HandlerKeepsSync, HandleKeepsSync
  <1>3. CASE UNCHANGED vars
    <2>1. /\ UNCHANGED <<now, row, key, active, pc, announced, session, ready>>
          /\ UNCHANGED <<broker, wanted, calls, registry, cutOff>>
          /\ UNCHANGED <<deaf, listening, commands, handler, unseen>>
          /\ UNCHANGED <<faults, excused>>
      BY <1>3 DEF vars, redisVars, requestVars, clientVars, commandVars,
                  handlerVars
    <2>2. TypeOK'
      BY <2>1 DEF SyncInv, TypeOK
    <2>3. faults <= faults'
      BY <2>1 DEF SyncInv, TypeOK
    <2>4. QED
      BY <2>1, <2>2, <2>3, SurroundingsKeepSync
      DEF redisVars, requestVars, handlerVars
  <1>4. QED
    BY <1>1, <1>2, <1>3, ConnectKeepsSync, CallbackKeepsSync, DropKeepsSync,
       LoseOrRecoverKeepsSync, CrashKeepsSync, TickKeepsSync
    DEF Next

LEMMA SyncInvHolds == Spec => []SyncInv
  BY InitSync, SyncInvKept, PTL DEF Spec

\* The state of ingest keeps its types: whatever a request, a connect handler,
\* a callback of the client or a fault of the surroundings changes in
\* src/server-ingest.js, registry.js and topic_activity.js, times stay within
\* the longest lease and a new session finds a handler of its own.
THEOREM TypeOKHolds == Spec => []TypeOK
  <1>1. SyncInv => TypeOK
    BY DEF SyncInv
  <1>2. QED BY <1>1, SyncInvHolds, PTL
-----------------------------------------------------------------------------
(* What the synchronisation takes from a key.                              *)

OnlyUnseenCut ==
    \A h \in Handlers, t \in Topics :
        /\ handler'[h] # handler[h]
        /\ key'[t] < key[t]
        => \A s \in Leased(t) : key'[t] < row[s] => s \in unseen[h]

\* A round sets the key to now and what the handler took for the rest of the
\* longest lease: for a topic to remove that is nothing.
LEMMA RoundCuts ==
    ASSUME NEW g \in Handlers, SyncInv, Del(g) \/ Set(g)
    PROVE  OnlyUnseenCut
  <1> SUFFICES ASSUME NEW h \in Handlers, NEW t \in Topics,
                      handler'[h] # handler[h], key'[t] < key[t],
                      NEW s \in Leased(t), key'[t] < row[s]
               PROVE  s \in unseen[h]
    BY DEF OnlyUnseenCut
  <1>1. /\ handler \in [Handlers -> HandlerRecords]
        /\ key \in [Topics -> Ends] /\ now \in Nat
        /\ handler[g].left[t] \in Nat /\ key[t] \in Nat
        /\ s \in Subs /\ row[s] \in Nat /\ now < row[s]
    BY HandlerIsTyped, HandlerFieldsTyped DEF SyncInv, TypeOK, Ends, Leased
  <1>2. Syncing(g)
    BY DEF Del, Set, Syncing, In
  <1>3. row[s] <= now + handler[g].left[t] \/ s \in unseen[g]
    BY <1>2 DEF SyncInv, SyncKnowsLeases
  <1>4. CASE Del(g)
    <2>1. PICK x \in handler[g].todo :
              /\ handler' = [handler EXCEPT ![g].at = {x}, ![g].step = "srem"]
              /\ key' = [key EXCEPT ![x] = 0]
      BY <1>4 DEF Del, Round
    <2>2. h = g
      BY <1>1, <2>1
    <2>3. t = x
      BY <1>1, <2>1
    <2>4. In(g, "del") /\ t \notin Found(g)
      BY <1>4, <2>1, <2>3 DEF Del, SyncInv, LoopsFit, In
    <2>5. ~(handler[g].left[t] > 0)
      BY <2>4 DEF Found
    <2>6. QED BY <1>1, <1>3, <2>2, <2>5
  <1>5. CASE Set(g)
    <2>1. PICK x \in handler[g].todo :
              /\ handler' = [handler EXCEPT ![g].at = {x}, ![g].step = "sadd"]
              /\ key' = [key EXCEPT ![x] = now + handler[g].left[x]]
      BY <1>5 DEF Set, Round
    <2>2. h = g
      BY <1>1, <2>1
    <2>3. t = x
      BY <1>1, <2>1
    <2>4. key'[t] = now + handler[g].left[t]
      BY <1>1, <2>1, <2>3
    <2>5. QED BY <1>1, <1>3, <2>2, <2>4
  <1>6. QED BY <1>4, <1>5

LEMMA CutsNeedRounds ==
    ASSUME SyncInv, UNCHANGED key \/ UNCHANGED handler
    PROVE  OnlyUnseenCut
  <1>1. \A t \in Topics : key[t] \in Nat
    BY DEF SyncInv, TypeOK, Ends
  <1>2. UNCHANGED key => \A t \in Topics : ~(key'[t] < key[t])
    BY <1>1
  <1>3. QED BY <1>2 DEF OnlyUnseenCut

LEMMA NextCutsOnlyUnseen == SyncInv /\ [Next]_vars => OnlyUnseenCut
  <1> SUFFICES ASSUME SyncInv, [Next]_vars PROVE OnlyUnseenCut
    OBVIOUS
  <1>1. ASSUME NEW r \in Requests, RequestNext(r) PROVE OnlyUnseenCut
    BY <1>1, CutsNeedRounds DEF RequestNext
  <1>2. ASSUME NEW h \in Handlers, Sync(h) PROVE OnlyUnseenCut
    <2>1. CASE Del(h) \/ Set(h)
      BY <2>1, RoundCuts
    <2>2. CASE ~(Del(h) \/ Set(h))
      BY <1>2, <2>2, CutsNeedRounds
      DEF Sync, Load, Loads, Existing, Srem, Sadd, redisVars
    <2>3. QED BY <2>1, <2>2
  <1>3. ASSUME NEW h \in Handlers, Handler(h), ~Sync(h) PROVE OnlyUnseenCut
    BY <1>3, CutsNeedRounds DEF Handler, redisVars
  <1>4. ASSUME NEW h \in Handlers, Handle(h) PROVE OnlyUnseenCut
    BY <1>4, CutsNeedRounds DEF Handle, Received, redisVars
  <1>5. CASE Connect \/ Callback \/ Drop \/ LoseOrRecover \/ Crash \/ Tick
    BY <1>5, CutsNeedRounds
    DEF Connect, Callback, Drop, Disconnected, LoseOrRecover, Crash, Tick,
        redisVars
  <1>6. CASE UNCHANGED vars
    BY <1>6, CutsNeedRounds DEF vars, redisVars
  <1>7. QED BY <1>1, <1>2, <1>3, <1>4, <1>5, <1>6 DEF Next

\* syncActiveFromDb (src/helpers/mqtt/topic_activity.js) brings the key of a
\* topic below the lease of a row only if that row was written after its
\* SELECT, however its awaits interleave with requests and other handlers.
THEOREM SyncCutsOnlyUnseenHolds == Spec => SyncCutsOnlyUnseen
  <1>1. SyncInv /\ [Next]_vars =>
            [\A h \in Handlers, t \in Topics :
                 /\ handler'[h] # handler[h]
                 /\ key'[t] < key[t]
                 => \A s \in Leased(t) : key'[t] < row[s] =>
                        s \in unseen[h]]_vars
    BY NextCutsOnlyUnseen DEF OnlyUnseenCut
  <1>2. QED BY <1>1, SyncInvHolds, PTL DEF Spec, SyncCutsOnlyUnseen
-----------------------------------------------------------------------------
(* What the registry misses.                                               *)

LEMMA SubscribesInCalls ==
    ASSUME NEW cs, NEW t
    PROVE  t \in SubscribesIn(cs) <=>
               \E i \in DOMAIN cs : cs[i].action = "subscribe" /\ cs[i].topic = t
  BY DEF SubscribesIn

LEMMA CallsAppended ==
    ASSUME NEW cs \in Seq(Message), NEW ds \in Seq(Message),
           NEW ts, RevivedIn(cs, ts),
           \A i \in DOMAIN ds : ds[i].action = "subscribe"
    PROVE  /\ SubscribesIn(cs \o ds) = SubscribesIn(cs) \cup SubscribesIn(ds)
           /\ RevivedIn(cs \o ds, ts \cup SubscribesIn(ds))
  <1> DEFINE es == cs \o ds
  <1>1. /\ Len(cs) \in Nat /\ Len(ds) \in Nat /\ Len(es) = Len(cs) + Len(ds)
        /\ DOMAIN cs = 1..Len(cs) /\ DOMAIN ds = 1..Len(ds)
        /\ DOMAIN es = 1..Len(es)
    OBVIOUS
  <1>2. /\ \A i \in DOMAIN cs : i \in DOMAIN es /\ es[i] = cs[i]
        /\ \A i \in DOMAIN ds : /\ Len(cs) + i \in DOMAIN es
                                /\ es[Len(cs) + i] = ds[i]
        /\ \A k \in DOMAIN es : \/ k \in DOMAIN cs
                                \/ \E i \in DOMAIN ds : k = Len(cs) + i
    <2>1. \A i \in DOMAIN cs : i \in DOMAIN es /\ es[i] = cs[i]
      BY <1>1
    <2>2. \A i \in DOMAIN ds : /\ Len(cs) + i \in DOMAIN es
                               /\ es[Len(cs) + i] = ds[i]
      BY <1>1
    <2>3. ASSUME NEW k \in DOMAIN es, k \notin DOMAIN cs
          PROVE  \E i \in DOMAIN ds : k = Len(cs) + i
      <3>1. k - Len(cs) \in DOMAIN ds /\ k = Len(cs) + (k - Len(cs))
        BY <1>1, <2>3
      <3>2. QED BY <3>1
    <2>4. QED BY <2>1, <2>2, <2>3
  <1> HIDE DEF es
  <1>3. SubscribesIn(es) = SubscribesIn(cs) \cup SubscribesIn(ds)
    <2>1. \A t : t \in SubscribesIn(es) <=>
                     t \in SubscribesIn(cs) \/ t \in SubscribesIn(ds)
      BY <1>2, SubscribesInCalls
    <2>2. QED BY <2>1
  <1>4. RevivedIn(es, ts \cup SubscribesIn(ds))
    <2> SUFFICES ASSUME NEW i \in DOMAIN es, es[i].action = "unsubscribe",
                        es[i].topic \in ts \cup SubscribesIn(ds)
                 PROVE  \E j \in DOMAIN es : /\ i < j
                                             /\ es[j].action = "subscribe"
                                             /\ es[j].topic = es[i].topic
      BY DEF RevivedIn
    <2>1. i \in DOMAIN cs /\ es[i] = cs[i]
      BY <1>2
    <2>2. CASE es[i].topic \in ts
      BY <1>2, <2>1, <2>2 DEF RevivedIn
    <2>3. CASE es[i].topic \in SubscribesIn(ds)
      <3>1. PICK j \in DOMAIN ds : /\ ds[j].action = "subscribe"
                                   /\ ds[j].topic = es[i].topic
        BY <2>3, SubscribesInCalls
      <3>2. i < Len(cs) + j
        BY <1>1, <2>1
      <3>3. QED BY <1>2, <3>1, <3>2
    <2>4. QED BY <2>2, <2>3
  <1>5. QED BY <1>3, <1>4 DEF es

LEMMA SubscribeAppended ==
    ASSUME NEW cs \in Seq(Message), NEW cmd \in Message, NEW ts,
           RevivedIn(cs, ts), cmd.action = "subscribe"
    PROVE  /\ SubscribesIn(Append(cs, cmd)) = SubscribesIn(cs) \cup {cmd.topic}
           /\ RevivedIn(Append(cs, cmd), ts \cup {cmd.topic})
  <1> DEFINE ds == <<cmd>>
  <1>1. /\ ds \in Seq(Message) /\ DOMAIN ds = {1} /\ ds[1] = cmd
        /\ Append(cs, cmd) = cs \o ds
    OBVIOUS
  <1> HIDE DEF ds
  <1>2. \A i \in DOMAIN ds : ds[i].action = "subscribe"
    BY <1>1
  <1>3. SubscribesIn(ds) = {cmd.topic}
    <2>1. \A t : t \in SubscribesIn(ds) <=> t = cmd.topic
      BY <1>1, SubscribesInCalls
    <2>2. QED BY <2>1
  <1>4. /\ SubscribesIn(cs \o ds) = SubscribesIn(cs) \cup SubscribesIn(ds)
        /\ RevivedIn(cs \o ds, ts \cup SubscribesIn(ds))
    BY <1>1, <1>2, CallsAppended
  <1>5. QED BY <1>1, <1>3, <1>4

LEMMA UnsubscribeAppended ==
    ASSUME NEW cs \in Seq(Message), NEW cmd \in Message, NEW ts,
           RevivedIn(cs, ts), cmd.action = "unsubscribe"
    PROVE  /\ SubscribesIn(Append(cs, cmd)) = SubscribesIn(cs)
           /\ RevivedIn(Append(cs, cmd), ts \ {cmd.topic})
  <1> DEFINE es == Append(cs, cmd)
  <1>1. /\ Len(cs) \in Nat /\ DOMAIN cs = 1..Len(cs)
        /\ DOMAIN es = 1..(Len(cs) + 1)
        /\ es[Len(cs) + 1] = cmd /\ \A i \in DOMAIN cs : es[i] = cs[i]
    OBVIOUS
  <1>2. /\ DOMAIN cs \subseteq DOMAIN es
        /\ \A k \in DOMAIN es : k \in DOMAIN cs \/ es[k] = cmd
    BY <1>1
  <1> HIDE DEF es
  <1>3. SubscribesIn(es) = SubscribesIn(cs)
    <2>1. \A t : t \in SubscribesIn(es) <=> t \in SubscribesIn(cs)
      BY <1>1, <1>2, SubscribesInCalls
    <2>2. QED BY <2>1
  <1>4. RevivedIn(es, ts \ {cmd.topic})
    BY <1>1, <1>2 DEF RevivedIn
  <1>5. QED BY <1>3, <1>4 DEF es

LEMMA CallAnswered ==
    ASSUME NEW cs \in Seq(Message), cs # <<>>, NEW ts, RevivedIn(cs, ts)
    PROVE  /\ RevivedIn(Tail(cs), ts)
           /\ SubscribesIn(Tail(cs)) \subseteq SubscribesIn(cs)
           /\ SubscribesIn(cs) \subseteq
                  SubscribesIn(Tail(cs)) \cup
                      {t \in {Head(cs).topic} : Head(cs).action = "subscribe"}
           /\ Head(cs).action = "unsubscribe" /\ Head(cs).topic \in ts =>
                  Head(cs).topic \in SubscribesIn(Tail(cs))
  <1> DEFINE es == Tail(cs)
             hd == Head(cs)
  <1>1. /\ Len(cs) \in Nat \ {0} /\ DOMAIN cs = 1..Len(cs) /\ hd = cs[1]
        /\ DOMAIN es = 1..(Len(cs) - 1)
        /\ \A i \in DOMAIN es : es[i] = cs[i + 1]
    OBVIOUS
  <1>2. /\ 1 \in DOMAIN cs
        /\ \A i \in DOMAIN es : i + 1 \in DOMAIN cs /\ es[i] = cs[i + 1]
        /\ \A k \in DOMAIN cs : k = 1 \/ /\ k - 1 \in DOMAIN es
                                         /\ es[k - 1] = cs[k]
    <2>1. \A k \in DOMAIN cs : k = 1 \/ (k - 1 \in DOMAIN es /\ (k - 1) + 1 = k)
      BY <1>1
    <2>2. QED BY <1>1, <2>1
  <1> HIDE DEF es, hd
  <1>3. RevivedIn(es, ts)
    <2> SUFFICES ASSUME NEW i \in DOMAIN es, es[i].action = "unsubscribe",
                        es[i].topic \in ts
                 PROVE  \E j \in DOMAIN es : /\ i < j
                                             /\ es[j].action = "subscribe"
                                             /\ es[j].topic = es[i].topic
      BY DEF RevivedIn
    <2>1. PICK k \in DOMAIN cs : /\ i + 1 < k
                                 /\ cs[k].action = "subscribe"
                                 /\ cs[k].topic = es[i].topic
      BY <1>2 DEF RevivedIn
    <2>2. k # 1 /\ i < k - 1
      BY <1>1, <2>1
    <2>3. QED BY <1>2, <2>1, <2>2
  <1>4. SubscribesIn(es) \subseteq SubscribesIn(cs)
    <2>1. \A t : t \in SubscribesIn(es) => t \in SubscribesIn(cs)
      BY <1>2, SubscribesInCalls
    <2>2. QED BY <2>1
  <1>5. SubscribesIn(cs) \subseteq
            SubscribesIn(es) \cup {t \in {hd.topic} : hd.action = "subscribe"}
    <2>1. ASSUME NEW t, t \in SubscribesIn(cs)
          PROVE  t \in SubscribesIn(es) \/ (t = hd.topic /\ hd.action = "subscribe")
      <3>1. PICK k \in DOMAIN cs : cs[k].action = "subscribe" /\ cs[k].topic = t
        BY <2>1, SubscribesInCalls
      <3>2. CASE k = 1
        BY <1>1, <3>1, <3>2
      <3>3. CASE k # 1
        <4>1. k - 1 \in DOMAIN es /\ es[k - 1] = cs[k]
          BY <1>2, <3>3
        <4>2. QED BY <3>1, <4>1, SubscribesInCalls
      <3>4. QED BY <3>2, <3>3
    <2>2. QED BY <2>1
  <1>6. ASSUME hd.action = "unsubscribe", hd.topic \in ts
        PROVE  hd.topic \in SubscribesIn(es)
    <2>1. PICK k \in DOMAIN cs : /\ 1 < k
                                 /\ cs[k].action = "subscribe"
                                 /\ cs[k].topic = hd.topic
      BY <1>1, <1>2, <1>6 DEF RevivedIn
    <2>2. k # 1
      BY <1>1, <2>1
    <2>3. QED BY <1>2, <2>1, <2>2, SubscribesInCalls
  <1>7. QED BY <1>3, <1>4, <1>5, <1>6 DEF es, hd

LEMMA SubscribeAllKeepsRegistry ==
    ASSUME NEW h \in Handlers, SyncInv, RegistryInv, SubscribeAll(h),
           UNCHANGED <<broker, registry, cutOff>>
    PROVE  RegistryInv'
  <1> DEFINE ds == SetToSeq(SubscribesOf(h))
  <1>1. /\ calls \in Seq(Message) /\ ds \in Seq(Message)
        /\ \A i \in DOMAIN ds : ds[i].action = "subscribe"
        /\ \A t \in Found(h) : \E i \in DOMAIN ds : ds[i].topic = t
    BY SubscribeAllCalls DEF SyncInv, TypeOK
  <1>2. calls' = calls \o ds /\ wanted' = wanted \cup Found(h)
    BY DEF SubscribeAll, SubscribesOf
  <1> HIDE DEF ds
  <1>3. Found(h) \subseteq SubscribesIn(ds)
    <2>1. \A t \in Found(h) : t \in SubscribesIn(ds)
      BY <1>1, SubscribesInCalls
    <2>2. QED BY <2>1
  <1>4. /\ SubscribesIn(calls') = SubscribesIn(calls) \cup SubscribesIn(ds)
        /\ RevivedIn(calls', wanted \cup SubscribesIn(ds))
    BY <1>1, <1>2, CallsAppended DEF RegistryInv, Revived
  <1>5. Revived'
    BY <1>2, <1>3, <1>4 DEF Revived, RevivedIn
  <1>6. RegistryMissesOnlyCutOff' /\ WantedIsKnown'
    BY <1>2, <1>3, <1>4
    DEF RegistryInv, RegistryMissesOnlyCutOff, WantedIsKnown, Known
  <1>7. QED BY <1>5, <1>6 DEF RegistryInv

LEMMA HandleKeepsRegistry ==
    ASSUME NEW h \in Handlers, SyncInv, RegistryInv, Handle(h)
    PROVE  RegistryInv'
  <1> DEFINE cmd == Head(commands[h])
  <1>1. commands[h] \in Seq(Message) /\ commands[h] # <<>>
    BY DEF SyncInv, TypeOK, Handle
  <1>2. cmd \in Message /\ calls \in Seq(Message)
    BY <1>1 DEF SyncInv, TypeOK
  <1>3. PassOn(cmd) /\ UNCHANGED <<broker, registry, cutOff>>
    BY DEF Handle, Received
  <1>4. cmd.action \in {"subscribe", "unsubscribe"}
    BY <1>2 DEF Message
  <1> HIDE DEF cmd
  <1>5. CASE cmd.action = "subscribe"
    <2>1. calls' = Append(calls, cmd) /\ wanted' = wanted \cup {cmd.topic}
      BY <1>3, <1>5 DEF PassOn
    <2>2. /\ SubscribesIn(calls') = SubscribesIn(calls) \cup {cmd.topic}
          /\ Revived'
      BY <1>2, <1>5, <2>1, SubscribeAppended DEF RegistryInv, Revived
    <2>3. QED
      BY <1>3, <2>1, <2>2
      DEF RegistryInv, RegistryMissesOnlyCutOff, WantedIsKnown, Known
  <1>6. CASE cmd.action = "unsubscribe"
    <2>1. calls' = Append(calls, cmd) /\ wanted' = wanted \ {cmd.topic}
      BY <1>3, <1>6 DEF PassOn
    <2>2. SubscribesIn(calls') = SubscribesIn(calls) /\ Revived'
      BY <1>2, <1>6, <2>1, UnsubscribeAppended DEF RegistryInv, Revived
    <2>3. QED
      BY <1>3, <2>1, <2>2
      DEF RegistryInv, RegistryMissesOnlyCutOff, WantedIsKnown, Known
  <1>7. QED BY <1>4, <1>5, <1>6

LEMMA CallbackKeepsRegistry ==
    ASSUME SyncInv, RegistryInv, Callback
    PROVE  RegistryInv'
  <1> DEFINE hd == Head(calls)
  <1>1. calls \in Seq(Message) /\ calls # <<>> /\ calls' = Tail(calls)
    BY DEF SyncInv, TypeOK, Callback
  <1>2. hd \in Message
    BY <1>1
  <1>3. hd.action \in {"subscribe", "unsubscribe"}
    BY <1>2 DEF Message
  <1>4. /\ RevivedIn(calls', wanted)
        /\ SubscribesIn(calls') \subseteq SubscribesIn(calls)
        /\ SubscribesIn(calls) \subseteq
               SubscribesIn(calls') \cup
                   {t \in {hd.topic} : hd.action = "subscribe"}
        /\ hd.action = "unsubscribe" /\ hd.topic \in wanted =>
               hd.topic \in SubscribesIn(calls')
    BY <1>1, CallAnswered DEF RegistryInv, Revived
  <1>5. cutOff' = cutOff \ {hd.topic}
    BY DEF Callback
  <1>6. CASE Answer /\ hd.action = "subscribe"
    <2>1. /\ broker' = broker \cup {hd.topic}
          /\ registry' = registry \cup {hd.topic} /\ UNCHANGED wanted
      BY <1>6 DEF Answer
    <2> HIDE DEF hd
    <2>2. Revived'
      BY <1>4, <2>1 DEF Revived
    <2>3. QED
      BY <1>4, <1>5, <2>1, <2>2
      DEF RegistryInv, RegistryMissesOnlyCutOff, WantedIsKnown, Known
  <1>7. CASE Answer /\ hd.action = "unsubscribe"
    <2>1. /\ broker' = broker \ {hd.topic}
          /\ registry' = registry \ {hd.topic} /\ UNCHANGED wanted
      BY <1>7 DEF Answer
    <2> HIDE DEF hd
    <2>2. Revived'
      BY <1>4, <2>1 DEF Revived
    <2>3. QED
      BY <1>4, <1>5, <1>7, <2>1, <2>2
      DEF RegistryInv, RegistryMissesOnlyCutOff, WantedIsKnown, Known
  <1>8. CASE Refuse
    <2>1. /\ broker' = broker \ {hd.topic}
          /\ registry' = registry \ {hd.topic}
          /\ wanted' = wanted \ {hd.topic}
      BY <1>8 DEF Refuse
    <2> HIDE DEF hd
    <2>2. Revived'
      BY <1>4, <2>1 DEF Revived, RevivedIn
    <2>3. QED
      BY <1>4, <1>5, <2>1, <2>2
      DEF RegistryInv, RegistryMissesOnlyCutOff, WantedIsKnown, Known
  <1>9. QED BY <1>3, <1>6, <1>7, <1>8 DEF Callback

LEMMA SessionKeepsRegistry ==
    ASSUME SyncInv, RegistryInv, Connect \/ Drop \/ Crash
    PROVE  RegistryInv'
  <1>1. CASE Connect
    <2>1. broker' = wanted /\ UNCHANGED <<wanted, calls, registry, cutOff>>
      BY <1>1 DEF Connect
    <2>2. QED
      BY <2>1 DEF RegistryInv, RegistryMissesOnlyCutOff, WantedIsKnown, Known,
                  Revived
  <1>2. CASE Drop
    <2>1. /\ broker' = {} /\ calls' = <<>>
          /\ cutOff' = cutOff \cup SubscribesIn(calls)
          /\ UNCHANGED <<wanted, registry>>
      BY <1>2 DEF Drop, Disconnected
    <2>2. Revived'
      BY <2>1 DEF Revived, RevivedIn
    <2>3. QED
      BY <2>1, <2>2 DEF RegistryInv, RegistryMissesOnlyCutOff, WantedIsKnown,
                        Known
  <1>3. CASE Crash
    <2>1. broker' = {} /\ wanted' = {} /\ calls' = <<>>
      BY <1>3 DEF Crash
    <2>2. QED
      BY <2>1 DEF RegistryInv, RegistryMissesOnlyCutOff, WantedIsKnown, Known,
                  Revived, RevivedIn
  <1>4. QED BY <1>1, <1>2, <1>3

LEMMA RegistryInvKept ==
    SyncInv /\ RegistryInv /\ [Next]_vars => RegistryInv'
  <1> SUFFICES ASSUME SyncInv, RegistryInv, [Next]_vars PROVE RegistryInv'
    OBVIOUS
  <1>1. ASSUME UNCHANGED <<broker, wanted, calls, registry, cutOff>>
        PROVE  RegistryInv'
    BY <1>1 DEF RegistryInv, RegistryMissesOnlyCutOff, WantedIsKnown, Known,
                Revived
  <1>2. ASSUME NEW h \in Handlers, Handler(h) PROVE RegistryInv'
    <2>1. CASE SubscribeAll(h) /\ UNCHANGED <<broker, registry, cutOff>>
      BY <2>1, SubscribeAllKeepsRegistry
    <2>2. CASE ~(SubscribeAll(h) /\ UNCHANGED <<broker, registry, cutOff>>)
      BY <1>1, <1>2, <2>2 DEF Handler, Sync, Listen, List, Exists, clientVars
    <2>3. QED BY <2>1, <2>2
  <1>3. ASSUME NEW h \in Handlers, Handle(h) PROVE RegistryInv'
    BY <1>3, HandleKeepsRegistry
  <1>4. CASE Connect \/ Drop \/ Crash
    BY <1>4, SessionKeepsRegistry
  <1>5. CASE Callback
    BY <1>5, CallbackKeepsRegistry
  <1>6. CASE UNCHANGED clientVars
    BY <1>1, <1>6 DEF clientVars
  <1>7. (\E r \in Requests : RequestNext(r)) \/ LoseOrRecover \/ Tick
            \/ UNCHANGED vars => UNCHANGED clientVars
    BY DEF RequestNext, LoseOrRecover, Tick, vars
  <1>8. QED BY <1>2, <1>3, <1>4, <1>5, <1>6, <1>7 DEF Next

\* The registry that the lease sweep goes through (src/helpers/mqtt/registry.js,
\* src/server-ingest.js) misses no topic the broker has this process subscribed
\* to, but one whose SUBSCRIBE has yet to be answered or was cut off by a lost
\* session.
THEOREM RegistryMissesOnlyCutOffHolds == Spec => []RegistryMissesOnlyCutOff
  <1>1. Init => RegistryInv
    BY DEF Init, RegistryInv, RegistryMissesOnlyCutOff, WantedIsKnown, Revived,
           RevivedIn
  <1>2. RegistryInv => RegistryMissesOnlyCutOff
    BY DEF RegistryInv
  <1>3. QED BY <1>1, <1>2, RegistryInvKept, SyncInvHolds, PTL DEF Spec
=============================================================================
