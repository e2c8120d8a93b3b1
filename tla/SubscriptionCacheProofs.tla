----------------------- MODULE SubscriptionCacheProofs -----------------------
(***************************************************************************)
(* Proofs for SubscriptionCache: whatever the number of topics, processes  *)
(* and concurrent tasks, a cache that shows something else than the active *)
(* rows has a cause that StaleHasCause names.                              *)
(***************************************************************************)
EXTENDS SubscriptionCache, TLAPS

\* A lease as getActive and the SELECTs see it.
Shown(duration) == IF IsActive(duration) THEN duration ELSE 0

\* The two parts of Pending: process p will be told, or is already at work.
Told(p, t) ==
    \/ \E i \in Invalidations : t \in i /\ owing[i] > 0
    \/ \E n \in DOMAIN inbox[p] : t \in inbox[p][n]

Works(w, t, c) ==
    /\ <<t, c>> \in Covers(w)
    /\ \/ w.step = "read"
       \/ w.step \in {"write", "remove"} /\ <<t, c>> \notin w.behind

Working(p, t, c) == \E k \in Tasks : Works(task[p][k], t, c)

Known(p, t, c) == Told(p, t) \/ Working(p, t, c) \/ <<t, c>> \in lost[p]

\* StaleHasCause, lease by lease.
StaleIsKnown ==
    \A p \in Processes, t \in Topics, c \in Callbacks :
        /\ phase[p] \in {"loaded", "listening"}
        /\ Shown(cache[p][t][c]) # Shown(row[t][c])
        => Known(p, t, c) \/ <<t, c>> \in overtaken[p]

\* A task that is not behind holds what the database has.
SnapsCurrent ==
    \A p \in Processes, k \in Tasks, t \in Topics, c \in Callbacks :
        Works(task[p][k], t, c) =>
            /\ task[p][k].step = "write" =>
                   Shown(task[p][k].snap[t][c]) = Shown(row[t][c])
            /\ task[p][k].step = "remove" => row[t][c] = 0

\* What a task is behind with is known, unless something newer was written.
BehindIsKnown ==
    \A p \in Processes, k \in Tasks, t \in Topics, c \in Callbacks :
        <<t, c>> \in task[p][k].behind \ task[p][k].outrun => Known(p, t, c)

\* A "remove" task is about one topic; a read is about every callback.
ScopeOK(w) ==
    /\ w.step = "remove" => \E t \in Topics : w.scope = {t}
    /\ w.step \in {"read", "write"} => w.who = Callbacks

\* Only what was read can be behind.
TasksOK ==
    \A p \in Processes, k \in Tasks :
        /\ task[p][k].step \notin {"write", "remove"} => task[p][k].behind = {}
        /\ ScopeOK(task[p][k])

\* A process that loads does nothing else, and hears nothing.
LoadingAlone ==
    \A p \in Processes : phase[p] # "listening" =>
        /\ ~linked[p]
        /\ inbox[p] = <<>>
        /\ phase[p] = "down" => \A k \in Tasks : task[p][k] = Idle
        /\ phase[p] = "loading" => \A k \in Tasks :
               \/ task[p][k] = Idle
               \/ /\ task[p][k].step \in {"read", "write"}
                  /\ Covers(task[p][k]) = Subscriptions

\* The inductive invariant.
CacheInv == /\ TypeOK
            /\ StaleIsKnown
            /\ SnapsCurrent
            /\ BehindIsKnown
            /\ TasksOK
            /\ LoadingAlone
-----------------------------------------------------------------------------
LEMMA ShownOfActive ==
    \A entry : \A c \in Callbacks : ActiveOf(entry)[c] = Shown(entry[c])
  BY DEF ActiveOf, Shown

\* Steps that leave caches and tasks alone and forget nothing.
LEMMA TasksUntouched ==
    ASSUME CacheInv,
           UNCHANGED <<cache, task, overtaken>>,
           \A p \in Processes : phase'[p] \in {"loaded", "listening"} =>
                                    phase[p] \in {"loaded", "listening"},
           \A t \in Topics, c \in Callbacks : row[t][c] = 0 => row'[t][c] = 0,
           \A t \in Topics, c \in Callbacks, d \in Durations :
               Shown(d) = Shown(row[t][c]) => Shown(d)' = Shown(row[t][c])',
           \A p \in Processes, t \in Topics, c \in Callbacks :
               Told(p, t) \/ <<t, c>> \in lost[p] =>
                   Told(p, t)' \/ <<t, c>> \in lost'[p]
    PROVE  StaleIsKnown' /\ SnapsCurrent' /\ BehindIsKnown' /\ TasksOK'
  <1>1. \A p \in Processes, t \in Topics, c \in Callbacks :
            Known(p, t, c) => Known(p, t, c)'
    BY DEF Known, Working, Works, Covers
  <1>2. StaleIsKnown'
    <2> SUFFICES ASSUME NEW p \in Processes, NEW t \in Topics,
                        NEW c \in Callbacks,
                        phase'[p] \in {"loaded", "listening"},
                        Shown(cache[p][t][c])' # Shown(row[t][c])'
                 PROVE  Known(p, t, c)' \/ <<t, c>> \in overtaken'[p]
      BY DEF StaleIsKnown
    <2>1. cache[p][t][c] \in Durations
      BY DEF CacheInv, TypeOK
    <2>2. Shown(cache[p][t][c]) # Shown(row[t][c])
      BY <2>1
    <2>3. QED BY <1>1, <2>2 DEF CacheInv, StaleIsKnown
  <1>3. SnapsCurrent'
    <2> SUFFICES ASSUME NEW p \in Processes, NEW k \in Tasks, NEW t \in Topics,
                        NEW c \in Callbacks, Works(task[p][k], t, c)
                 PROVE  /\ task[p][k].step = "write" =>
                            Shown(task[p][k].snap[t][c])' = Shown(row[t][c])'
                        /\ task[p][k].step = "remove" => row'[t][c] = 0
      BY DEF SnapsCurrent, Works, Covers
    <2>1. task[p][k].snap[t][c] \in Durations
      BY DEF CacheInv, TypeOK, TaskRecords
    <2>2. QED BY <2>1 DEF CacheInv, SnapsCurrent
  <1>4. BehindIsKnown' /\ TasksOK'
    BY <1>1 DEF CacheInv, BehindIsKnown, TasksOK
  <1>5. QED BY <1>2, <1>3, <1>4

LEMMA OthersInScope ==
    /\ \A w : w.step \in {"idle", "check"} => ScopeOK(w)
    /\ \A i : ScopeOK(Begin(i))
  BY DEF ScopeOK, Begin, Idle

LEMMA TickPreserves == CacheInv /\ Tick => CacheInv'
  <1> SUFFICES ASSUME CacheInv, Tick PROVE CacheInv'
    OBVIOUS
  <1> USE DEF Tick, storeVars, processVars, history
  <1>1. TypeOK'
    <2>1. now' \in 1..(MaxNow + 1)
      BY CacheAssumption DEF CacheInv, TypeOK
    <2>2. QED BY <2>1 DEF CacheInv, TypeOK
  <1>4. LoadingAlone'
    BY DEF CacheInv, LoadingAlone, Covers, Idle
  <1>2. \A t \in Topics, c \in Callbacks, d \in Durations :
            Shown(d) = Shown(row[t][c]) => Shown(d)' = Shown(row[t][c])'
    BY CacheAssumption DEF Shown, IsActive, CacheInv, TypeOK, Durations
  <1>3. QED
    BY <1>1, <1>2, <1>4, TasksUntouched DEF CacheInv, Told

LEMMA PublishPreserves ==
    ASSUME NEW i \in Invalidations, CacheInv, Publish(i) PROVE CacheInv'
  <1> USE DEF Publish
  <1>1. i \X Callbacks \subseteq Subscriptions
    BY DEF Invalidations, Subscriptions
  <1>2. TypeOK'
    <2>1. owing' \in [Invalidations -> Nat]
      BY DEF CacheInv, TypeOK
    <2>2. inbox' \in [Processes -> Seq(Invalidations)]
      BY DEF CacheInv, TypeOK
    <2>3. lost' \in [Processes -> SUBSET Subscriptions]
      BY <1>1 DEF CacheInv, TypeOK
    <2>4. QED BY <2>1, <2>2, <2>3 DEF CacheInv, TypeOK
  <1>3. LoadingAlone'
    BY DEF CacheInv, LoadingAlone, Covers, Idle, TypeOK
  <1>4. ASSUME NEW p \in Processes, NEW t \in Topics, NEW c \in Callbacks,
               Told(p, t) \/ <<t, c>> \in lost[p]
        PROVE  Told(p, t)' \/ <<t, c>> \in lost'[p]
    <2>1. CASE t \in i /\ linked[p]
      <3>1. inbox'[p] = Append(inbox[p], i) /\ inbox[p] \in Seq(Invalidations)
        BY <2>1 DEF CacheInv, TypeOK
      <3>2. /\ Len(inbox[p]) + 1 \in DOMAIN inbox'[p]
            /\ inbox'[p][Len(inbox[p]) + 1] = i
        BY <3>1
      <3>3. QED BY <2>1, <3>2 DEF Told
    <2>2. CASE t \in i /\ ~linked[p]
      BY <2>2 DEF CacheInv, TypeOK
    <2>3. CASE t \notin i
      <3>1. CASE <<t, c>> \in lost[p]
        BY <3>1 DEF CacheInv, TypeOK
      <3>2. CASE \E j \in Invalidations : t \in j /\ owing[j] > 0
        BY <2>3, <3>2 DEF Told, CacheInv, TypeOK
      <3>3. CASE \E n \in DOMAIN inbox[p] : t \in inbox[p][n]
        <4>1. inbox[p] \in Seq(Invalidations)
          BY DEF CacheInv, TypeOK
        <4>2. \A n \in DOMAIN inbox[p] : /\ n \in DOMAIN inbox'[p]
                                         /\ inbox'[p][n] = inbox[p][n]
          BY <4>1
        <4>3. QED BY <3>3, <4>2 DEF Told
      <3>4. QED BY <1>4, <3>1, <3>2, <3>3 DEF Told
    <2>4. QED BY <2>1, <2>2, <2>3
  <1>5. QED
    BY <1>2, <1>3, <1>4, TasksUntouched DEF CacheInv, Shown, IsActive

LEMMA RequestDiesPreserves ==
    ASSUME NEW i \in Invalidations, CacheInv, RequestDies(i) PROVE CacheInv'
  <1> USE DEF RequestDies, Fault, processVars
  <1>1. i \X Callbacks \subseteq Subscriptions
    BY DEF Invalidations, Subscriptions
  <1>2. TypeOK'
    <2>1. owing' \in [Invalidations -> Nat] /\ faults' \in 0..MaxFaults
      BY CacheAssumption DEF CacheInv, TypeOK
    <2>3. lost' \in [Processes -> SUBSET Subscriptions]
      BY <1>1 DEF CacheInv, TypeOK
    <2>4. QED BY <2>1, <2>3 DEF CacheInv, TypeOK
  <1>3. LoadingAlone'
    BY DEF CacheInv, LoadingAlone, Covers, Idle
  <1>4. \A p \in Processes, t \in Topics, c \in Callbacks :
            Told(p, t) \/ <<t, c>> \in lost[p] =>
                Told(p, t)' \/ <<t, c>> \in lost'[p]
    BY DEF Told, CacheInv, TypeOK
  <1>5. QED
    BY <1>2, <1>3, <1>4, TasksUntouched DEF CacheInv, Shown, IsActive

LEMMA CleanupPreserves == CacheInv /\ Cleanup => CacheInv'
  <1> SUFFICES ASSUME CacheInv, Cleanup PROVE CacheInv'
    OBVIOUS
  <1> USE DEF Cleanup, processVars, history
  <1>1. \A t \in Topics, c \in Callbacks :
            row'[t][c] = Shown(row[t][c]) /\ row[t][c] \in Durations
    BY ShownOfActive DEF CacheInv, TypeOK
  <1>2. TypeOK'
    <2>1. row' \in [Topics -> [Callbacks -> Durations]]
      BY CacheAssumption DEF CacheInv, TypeOK, ActiveOf, Durations
    <2>2. owing' \in [Invalidations -> Nat]
      BY DEF CacheInv, TypeOK, Invalidations
    <2>3. QED BY <2>1, <2>2 DEF CacheInv, TypeOK
  <1>3. LoadingAlone'
    BY DEF CacheInv, LoadingAlone, Covers, Idle
  <1>4. /\ \A t \in Topics, c \in Callbacks : row[t][c] = 0 => row'[t][c] = 0
        /\ \A t \in Topics, c \in Callbacks, d \in Durations :
               Shown(d) = Shown(row[t][c]) => Shown(d)' = Shown(row[t][c])'
    BY <1>1, CacheAssumption DEF Shown, IsActive, Durations, CacheInv, TypeOK
  <1>5. \A q \in Processes, t \in Topics : Told(q, t) => Told(q, t)'
    BY DEF Told, CacheInv, TypeOK
  <1>6. QED
    BY <1>2, <1>3, <1>4, <1>5, TasksUntouched DEF CacheInv

LEMMA LinksPreserve ==
    ASSUME NEW p \in Processes, CacheInv,
           StartListening(p) \/ Unlink(p) \/ Relink(p)
    PROVE  CacheInv'
  <1> USE DEF storeVars, history
  <1>1. CASE StartListening(p)
    <2> USE <1>1 DEF StartListening
    <2>1. TypeOK' /\ LoadingAlone'
      BY DEF CacheInv, TypeOK, Phases, LoadingAlone, Covers, Idle
    <2>2. \A q \in Processes : phase'[q] \in {"loaded", "listening"} =>
                                    phase[q] \in {"loaded", "listening"}
      BY DEF CacheInv, TypeOK
    <2>3. QED
      BY <2>1, <2>2, TasksUntouched DEF CacheInv, Shown, IsActive, Told
  <1>2. CASE Relink(p)
    <2> USE <1>2 DEF Relink
    <2>1. TypeOK' /\ LoadingAlone'
      BY DEF CacheInv, TypeOK, Phases, LoadingAlone, Covers, Idle
    <2>2. QED
      BY <2>1, TasksUntouched DEF CacheInv, Shown, IsActive, Told
  <1>3. CASE Unlink(p)
    <2> USE <1>3 DEF Unlink, Fault
    <2>0. /\ inbox[p] \in Seq(Invalidations)
          /\ \A n \in DOMAIN inbox[p] : inbox[p][n] \in Invalidations
      BY DEF CacheInv, TypeOK
    <2>1. UNION {inbox[p][n] \X Callbacks : n \in DOMAIN inbox[p]}
              \subseteq Subscriptions
      BY <2>0 DEF Invalidations, Subscriptions
    <2>2. TypeOK'
      <3>1. faults' \in 0..MaxFaults
        BY CacheAssumption DEF CacheInv, TypeOK
      <3>2. lost' \in [Processes -> SUBSET Subscriptions]
        BY <2>1 DEF CacheInv, TypeOK
      <3>3. linked' \in [Processes -> BOOLEAN]
        BY DEF CacheInv, TypeOK
      <3>4. inbox' \in [Processes -> Seq(Invalidations)]
        BY DEF CacheInv, TypeOK
      <3>5. QED BY <3>1, <3>2, <3>3, <3>4 DEF CacheInv, TypeOK
    <2>3. LoadingAlone'
      BY DEF CacheInv, TypeOK, LoadingAlone, Covers, Idle
    <2>4. ASSUME NEW q \in Processes, NEW t \in Topics, NEW c \in Callbacks,
                 Told(q, t) \/ <<t, c>> \in lost[q]
          PROVE  Told(q, t)' \/ <<t, c>> \in lost'[q]
      <3>1. CASE \E n \in DOMAIN inbox[q] : t \in inbox[q][n] /\ q = p
        BY <3>1 DEF CacheInv, TypeOK
      <3>2. CASE \E n \in DOMAIN inbox[q] : t \in inbox[q][n] /\ q # p
        BY <3>2 DEF CacheInv, TypeOK, Told
      <3>3. CASE <<t, c>> \in lost[q]
        BY <3>3 DEF CacheInv, TypeOK
      <3>4. CASE \E i \in Invalidations : t \in i /\ owing[i] > 0
        BY <3>4 DEF Told
      <3>5. QED BY <2>4, <3>1, <3>2, <3>3, <3>4 DEF Told
    <2>5. QED
      BY <2>2, <2>3, <2>4, TasksUntouched DEF CacheInv, Shown, IsActive
  <1>4. QED BY <1>1, <1>2, <1>3
-----------------------------------------------------------------------------
\* One task of one process moves on, losing nothing it had to do.
LEMMA TaskMoves ==
    ASSUME CacheInv, NEW p \in Processes, NEW k \in Tasks,
           NEW next \in TaskRecords,
           task' = [task EXCEPT ![p][k] = next],
           UNCHANGED <<now, row, owing, overtaken>>,
           \A q \in Processes, t \in Topics, c \in Callbacks :
               Shown(cache'[q][t][c]) = Shown(cache[q][t][c]),
           \A q \in Processes : phase'[q] \in {"loaded", "listening"} =>
                                    phase[q] \in {"loaded", "listening"},
           \A q \in Processes, t \in Topics, c \in Callbacks :
               Told(q, t) \/ <<t, c>> \in lost[q] =>
                   \/ Told(q, t)' \/ <<t, c>> \in lost'[q]
                   \/ q = p /\ Works(next, t, c),
           \A t \in Topics, c \in Callbacks : Works(task[p][k], t, c) =>
               Works(next, t, c) \/ <<t, c>> \in lost'[p],
           \A t \in Topics, c \in Callbacks : Works(next, t, c) =>
               /\ next.step = "write" =>
                      Shown(next.snap[t][c]) = Shown(row[t][c])
               /\ next.step = "remove" => row[t][c] = 0,
           next.behind = {} \/ next = task[p][k],
           ScopeOK(next)
    PROVE  StaleIsKnown' /\ SnapsCurrent' /\ BehindIsKnown' /\ TasksOK'
  <1>1. /\ task'[p][k] = next
        /\ \A q \in Processes, j \in Tasks :
               <<q, j>> # <<p, k>> => task'[q][j] = task[q][j]
    BY DEF CacheInv, TypeOK
  <1>2. ASSUME NEW q \in Processes, NEW t \in Topics, NEW c \in Callbacks,
               Known(q, t, c)
        PROVE  Known(q, t, c)'
    <2>1. CASE Working(q, t, c)
      <3>1. PICK j \in Tasks : Works(task[q][j], t, c)
        BY <2>1 DEF Working
      <3>2. CASE <<q, j>> = <<p, k>>
        BY <1>1, <3>1, <3>2 DEF Known, Working, Works, Covers
      <3>3. CASE <<q, j>> # <<p, k>>
        BY <1>1, <3>1, <3>3 DEF Known, Working, Works, Covers
      <3>4. QED BY <3>2, <3>3
    <2>2. CASE Told(q, t) \/ <<t, c>> \in lost[q]
      <3>1. CASE q = p /\ Works(next, t, c)
        BY <1>1, <3>1 DEF Known, Working, Works, Covers
      <3>2. CASE Told(q, t)' \/ <<t, c>> \in lost'[q]
        BY <3>2 DEF Known
      <3>3. QED BY <2>2, <3>1, <3>2
    <2>3. QED BY <1>2, <2>1, <2>2 DEF Known
  <1>3. StaleIsKnown'
    BY <1>2 DEF CacheInv, StaleIsKnown, Shown, IsActive
  <1>4. SnapsCurrent'
    <2> SUFFICES ASSUME NEW q \in Processes, NEW j \in Tasks, NEW t \in Topics,
                        NEW c \in Callbacks, Works(task'[q][j], t, c)
                 PROVE  /\ task'[q][j].step = "write" =>
                            Shown(task'[q][j].snap[t][c]) = Shown(row[t][c])
                        /\ task'[q][j].step = "remove" => row[t][c] = 0
      BY DEF SnapsCurrent, Works, Covers, Shown, IsActive
    <2>1. CASE <<q, j>> = <<p, k>>
      BY <1>1, <2>1
    <2>2. CASE <<q, j>> # <<p, k>>
      BY <1>1, <2>2 DEF CacheInv, SnapsCurrent
    <2>3. QED BY <2>1, <2>2
  <1>5. BehindIsKnown'
    BY <1>1, <1>2 DEF CacheInv, BehindIsKnown
  <1>6. TasksOK'
    BY <1>1 DEF CacheInv, TasksOK
  <1>7. QED BY <1>3, <1>4, <1>5, <1>6

LEMMA Records ==
    /\ Idle \in TaskRecords
    /\ \A i \in Invalidations : Begin(i) \in TaskRecords
    /\ \A t \in Topics : Looking(t) \in TaskRecords
  <1>1. NoEntries \in [Topics -> [Callbacks -> Durations]]
    BY CacheAssumption DEF NoEntries, NoEntry, Durations
  <1>2. Idle \in TaskRecords
    BY <1>1 DEF Idle, TaskRecords, TaskSteps
  <1>3. \A i \in Invalidations : Begin(i) \in TaskRecords
    BY <1>1 DEF Begin, Idle, TaskRecords, TaskSteps
  <1>4. \A t \in Topics : Looking(t) \in TaskRecords
    BY <1>1 DEF Looking, Idle, TaskRecords, TaskSteps, Invalidations
  <1>5. QED BY <1>2, <1>3, <1>4

LEMMA RecordParts ==
    /\ Idle.step = "idle" /\ Idle.who = {} /\ Idle.behind = {}
    /\ \A i : /\ Begin(i).step = "read" /\ Begin(i).behind = {}
              /\ Covers(Begin(i)) = i \X Callbacks
    /\ \A t : /\ Looking(t).step = "check" /\ Looking(t).behind = {}
              /\ Looking(t).who = {}
  BY DEF Idle, Begin, Looking, Covers

LEMMA CoversOK == \A w \in TaskRecords : Covers(w) \subseteq Subscriptions
  <1> SUFFICES ASSUME NEW w \in TaskRecords
               PROVE  Covers(w) \subseteq Subscriptions
    OBVIOUS
  <1>1. w.scope \subseteq Topics /\ w.who \subseteq Callbacks
    BY DEF TaskRecords, Invalidations
  <1>2. QED BY <1>1 DEF Covers, Subscriptions

LEMMA TaskMovesLoading ==
    ASSUME CacheInv, NEW p \in Processes, NEW k \in Tasks, NEW next,
           task' = [task EXCEPT ![p][k] = next],
           UNCHANGED <<phase, linked, inbox>>,
           phase[p] # "down",
           phase[p] = "loading" => /\ next.step \in {"read", "write"}
                                   /\ Covers(next) = Subscriptions
    PROVE  LoadingAlone'
  <1>1. \A q \in Processes, j \in Tasks :
            task'[q][j] = IF q = p /\ j = k THEN next ELSE task[q][j]
    BY DEF CacheInv, TypeOK
  <1>2. Idle' = Idle
    BY DEF Idle, NoEntries, NoEntry
  <1> SUFFICES ASSUME NEW q \in Processes, phase[q] # "listening"
               PROVE  /\ phase[q] = "down" => \A j \in Tasks :
                             task'[q][j] = Idle
                      /\ phase[q] = "loading" => \A j \in Tasks :
                             \/ task'[q][j] = Idle
                             \/ /\ task'[q][j].step \in {"read", "write"}
                                /\ Covers(task'[q][j]) = Subscriptions
    BY <1>2 DEF CacheInv, LoadingAlone, Covers
  <1>3. CASE q = p
    BY <1>1, <1>3 DEF CacheInv, LoadingAlone
  <1>4. CASE q # p
    BY <1>1, <1>4 DEF CacheInv, LoadingAlone
  <1>5. QED BY <1>3, <1>4

LEMMA StartPreserves ==
    ASSUME NEW p \in Processes, CacheInv, Start(p) PROVE CacheInv'
  <1> USE DEF Start, storeVars, history
  <1>1. PICK k \in Tasks : task' = [task EXCEPT ![p][k] = Begin(Topics)]
    OBVIOUS
  <1>2. Begin(Topics) \in TaskRecords
    BY Records DEF Invalidations
  <1>3. \A j \in Tasks : task[p][j] = Idle
    BY DEF CacheInv, LoadingAlone
  <1>4. TypeOK'
    <2>1. phase' \in [Processes -> Phases]
      BY DEF CacheInv, TypeOK, Phases
    <2>2. task' \in [Processes -> [Tasks -> TaskRecords]]
      BY <1>1, <1>2 DEF CacheInv, TypeOK
    <2>3. QED BY <2>1, <2>2 DEF CacheInv, TypeOK
  <1>5. LoadingAlone'
    <2>1. Covers(Begin(Topics)) = Subscriptions /\ Begin(Topics).step = "read"
      BY RecordParts DEF Subscriptions
    <2>2. /\ phase'[p] = "loading" /\ ~linked[p] /\ inbox[p] = <<>>
          /\ \A j \in Tasks : task'[p][j] = IF j = k THEN Begin(Topics)
                                                     ELSE Idle
          /\ \A q \in Processes :
                 q # p => phase'[q] = phase[q] /\ task'[q] = task[q]
      BY <1>1, <1>3 DEF CacheInv, TypeOK, LoadingAlone
    <2> HIDE DEF Start
    <2>3. UNCHANGED <<linked, inbox>> /\ Idle' = Idle
      BY DEF Start, Idle, NoEntries, NoEntry
    <2>4. QED BY <2>1, <2>2, <2>3 DEF CacheInv, LoadingAlone, Covers
  <1>6. \A q \in Processes : phase'[q] \in {"loaded", "listening"} =>
                                    phase[q] \in {"loaded", "listening"}
    BY DEF CacheInv, TypeOK
  <1>7. \A t \in Topics, c \in Callbacks : ~Works(task[p][k], t, c)
    BY <1>3, RecordParts DEF Works
  <1>8. StaleIsKnown' /\ SnapsCurrent' /\ BehindIsKnown' /\ TasksOK'
    BY <1>1, <1>2, <1>6, <1>7, RecordParts, OthersInScope, TaskMoves
    DEF Told
  <1>9. QED BY <1>4, <1>5, <1>8 DEF CacheInv

LEMMA ReceivePreserves ==
    ASSUME NEW p \in Processes, NEW k \in Tasks, CacheInv, Receive(p, k)
    PROVE  CacheInv'
  <1> USE DEF Receive, storeVars, history
  <1>1. /\ inbox[p] \in Seq(Invalidations) /\ inbox[p] # <<>>
        /\ Head(inbox[p]) \in Invalidations
        /\ Tail(inbox[p]) \in Seq(Invalidations)
    BY DEF CacheInv, TypeOK
  <1>2. Begin(Head(inbox[p])) \in TaskRecords
    BY <1>1, Records
  <1>3. TypeOK'
    <2>1. inbox' \in [Processes -> Seq(Invalidations)]
      BY <1>1 DEF CacheInv, TypeOK
    <2>2. task' \in [Processes -> [Tasks -> TaskRecords]]
      BY <1>2 DEF CacheInv, TypeOK
    <2>3. QED BY <2>1, <2>2 DEF CacheInv, TypeOK
  <1>4. LoadingAlone'
    <2>1. phase[p] = "listening"
      BY <1>1 DEF CacheInv, LoadingAlone
    <2>2. QED BY <2>1 DEF CacheInv, TypeOK, LoadingAlone, Covers, Idle
  <1>5. ASSUME NEW q \in Processes, NEW t \in Topics, NEW c \in Callbacks,
               Told(q, t) \/ <<t, c>> \in lost[q]
        PROVE  \/ Told(q, t)' \/ <<t, c>> \in lost'[q]
               \/ q = p /\ Works(Begin(Head(inbox[p])), t, c)
    <2>1. CASE q = p /\ \E n \in DOMAIN inbox[p] : t \in inbox[p][n]
      <3>1. PICK n \in DOMAIN inbox[p] : t \in inbox[p][n]
        BY <2>1
      <3>2. CASE n = 1
        BY <1>1, <2>1, <3>1, <3>2, RecordParts DEF Works
      <3>3. CASE n # 1
        <4>1. /\ n - 1 \in DOMAIN Tail(inbox[p])
              /\ Tail(inbox[p])[n - 1] = inbox[p][n]
          BY <1>1, <3>3
        <4>2. inbox'[p] = Tail(inbox[p])
          BY DEF CacheInv, TypeOK
        <4>3. QED BY <2>1, <3>1, <4>1, <4>2 DEF Told
      <3>4. QED BY <3>2, <3>3
    <2>2. CASE q # p /\ \E n \in DOMAIN inbox[q] : t \in inbox[q][n]
      BY <2>2 DEF CacheInv, TypeOK, Told
    <2>3. CASE <<t, c>> \in lost[q]
      BY <2>3
    <2>4. CASE \E i \in Invalidations : t \in i /\ owing[i] > 0
      BY <2>4 DEF Told
    <2>5. QED BY <1>5, <2>1, <2>2, <2>3, <2>4 DEF Told
  <1>6. \A t \in Topics, c \in Callbacks : ~Works(task[p][k], t, c)
    BY DEF Works
  <1>7. StaleIsKnown' /\ SnapsCurrent' /\ BehindIsKnown' /\ TasksOK'
    <2>1. /\ Begin(Head(inbox[p])).step = "read"
          /\ Begin(Head(inbox[p])).behind = {}
      BY RecordParts
    <2>2. QED
      BY <1>2, <1>5, <1>6, <2>1, OthersInScope, TaskMoves
  <1>8. QED BY <1>3, <1>4, <1>7 DEF CacheInv

LEMMA CheckPreserves ==
    ASSUME NEW p \in Processes, NEW k \in Tasks, CacheInv, Check(p, k)
    PROVE  CacheInv'
  <1> USE DEF Check, storeVars, history
  <1>1. PICK t \in task[p][k].scope : task' = [task EXCEPT ![p][k] =
            IF HasRows(t) THEN Begin({t}) ELSE Idle]
    OBVIOUS
  <1> DEFINE next == IF HasRows(t) THEN Begin({t}) ELSE Idle
  <1>2. task[p][k] \in TaskRecords
    BY DEF CacheInv, TypeOK
  <1>3. t \in Topics
    BY <1>2 DEF TaskRecords, Invalidations
  <1>4. /\ next \in TaskRecords /\ next.step \in {"read", "idle"}
        /\ next.behind = {} /\ ScopeOK(next)
    BY <1>3, Records, RecordParts, OthersInScope DEF Invalidations
  <1> HIDE DEF next
  <1>5. task' = [task EXCEPT ![p][k] = next]
    BY <1>1 DEF next
  <1>6. TypeOK'
    <2>1. task' \in [Processes -> [Tasks -> TaskRecords]]
      BY <1>4, <1>5 DEF CacheInv, TypeOK
    <2>2. QED BY <2>1 DEF CacheInv, TypeOK
  <1>7. LoadingAlone'
    <2>1. task[p][k] # Idle
      BY RecordParts
    <2>2. phase[p] \notin {"down", "loading"}
      BY <2>1 DEF CacheInv, LoadingAlone
    <2>3. QED
      BY <1>5, <2>2 DEF CacheInv, TypeOK, LoadingAlone, Covers, Idle
  <1>8. \A u \in Topics, c \in Callbacks : ~Works(task[p][k], u, c)
    BY DEF Works
  <1>9. StaleIsKnown' /\ SnapsCurrent' /\ BehindIsKnown' /\ TasksOK'
    BY <1>4, <1>5, <1>8, TaskMoves DEF Told
  <1>10. QED BY <1>6, <1>7, <1>9 DEF CacheInv

LEMMA ReadPreserves ==
    ASSUME NEW p \in Processes, NEW k \in Tasks, CacheInv, Read(p, k)
    PROVE  CacheInv'
  <1> DEFINE snap == [t \in Topics |-> IF t \in task[p][k].scope
                                       THEN ActiveOf(row[t]) ELSE NoEntry]
             next == [task[p][k] EXCEPT !.step = "write", !.snap = snap]
  <1>0. /\ UNCHANGED <<now, row, owing, changes, phase, linked, inbox, cache,
                       faults, overtaken>>
        /\ lost' = [lost EXCEPT ![p] = @ \ Covers(task[p][k])]
    BY DEF Read, storeVars
  <1>1. task[p][k] \in TaskRecords
    BY DEF CacheInv, TypeOK
  <1>2. snap \in [Topics -> [Callbacks -> Durations]]
    BY CacheAssumption DEF CacheInv, TypeOK, ActiveOf, NoEntry, Durations
  <1>3. next \in TaskRecords
    BY <1>1, <1>2 DEF TaskRecords, TaskSteps
  <1>4. /\ task[p][k].step = "read"
        /\ next.step = "write" /\ next.behind = {} /\ next.snap = snap
        /\ next.scope = task[p][k].scope /\ next.who = task[p][k].who
    BY <1>1 DEF TaskRecords, CacheInv, TasksOK, Read
  <1>5. task' = [task EXCEPT ![p][k] = next]
    BY <1>1 DEF TaskRecords, CacheInv, TypeOK, Read
  <1>6. Covers(next) = Covers(task[p][k])
    BY <1>4 DEF Covers
  <1>7. \A t \in Topics, c \in Callbacks : Works(next, t, c) =>
            Shown(next.snap[t][c]) = Shown(row[t][c])
    BY <1>4, ShownOfActive DEF Works, Covers, Shown
  <1>8. \A t \in Topics, c \in Callbacks :
            <<t, c>> \in Covers(task[p][k]) => Works(next, t, c)
    BY <1>4, <1>6 DEF Works
  <1> HIDE DEF next, snap
  <1>9. TypeOK'
    <2>1. task' \in [Processes -> [Tasks -> TaskRecords]]
      BY <1>3, <1>5 DEF CacheInv, TypeOK
    <2>2. lost' \in [Processes -> SUBSET Subscriptions]
      BY <1>0 DEF CacheInv, TypeOK
    <2>3. QED BY <1>0, <2>1, <2>2 DEF CacheInv, TypeOK
  <1>10. LoadingAlone'
    <2>1. task[p][k] # Idle
      BY RecordParts DEF Read
    <2>2. phase[p] # "down"
      BY <2>1 DEF CacheInv, LoadingAlone
    <2>3. phase[p] = "loading" => Covers(next) = Subscriptions
      BY <1>6, <2>1 DEF CacheInv, LoadingAlone
    <2>4. QED BY <1>0, <1>4, <1>5, <2>2, <2>3, TaskMovesLoading
  <1>11. ASSUME NEW q \in Processes, NEW t \in Topics, NEW c \in Callbacks,
                Told(q, t) \/ <<t, c>> \in lost[q]
         PROVE  \/ Told(q, t)' \/ <<t, c>> \in lost'[q]
                \/ q = p /\ Works(next, t, c)
    BY <1>0, <1>8, <1>11 DEF Told, CacheInv, TypeOK
  <1>12. \A t \in Topics, c \in Callbacks :
             Works(task[p][k], t, c) => Works(next, t, c)
    BY <1>8 DEF Works
  <1>13. StaleIsKnown' /\ SnapsCurrent' /\ BehindIsKnown' /\ TasksOK'
    <2>1. \A q \in Processes, t \in Topics, c \in Callbacks :
              Shown(cache'[q][t][c]) = Shown(cache[q][t][c])
      BY <1>0
    <2>2. /\ next.step # "remove"
          /\ \A q \in Processes : phase'[q] \in {"loaded", "listening"} =>
                                        phase[q] \in {"loaded", "listening"}
      BY <1>0, <1>4
    <2>3. \A t \in Topics, c \in Callbacks : Works(next, t, c) =>
              /\ next.step = "write" =>
                     Shown(next.snap[t][c]) = Shown(row[t][c])
              /\ next.step = "remove" => row[t][c] = 0
      BY <1>7, <2>2
    <2>4. UNCHANGED <<now, row, owing, overtaken>> /\ next.behind = {}
      BY <1>0, <1>4
    <2>5. ScopeOK(next)
      BY <1>4 DEF ScopeOK, CacheInv, TasksOK
    <2>6. QED
      BY <1>3, <1>5, <1>11, <1>12, <2>1, <2>2, <2>3, <2>4, <2>5, TaskMoves
  <1>14. QED BY <1>9, <1>10, <1>13 DEF CacheInv

LEMMA GetActivePreserves ==
    ASSUME NEW p \in Processes, NEW k \in Tasks, NEW t \in Topics, CacheInv,
           GetActive(p, k, t)
    PROVE  CacheInv'
  <1> USE DEF GetActive, storeVars, history
  <1> DEFINE next == IF HasEntry(p, t) THEN task[p][k] ELSE Looking(t)
  <1>1. next \in TaskRecords
    BY Records DEF CacheInv, TypeOK
  <1>2. task' = [task EXCEPT ![p][k] = next]
    BY DEF CacheInv, TypeOK
  <1>3. /\ \/ next = task[p][k]
           \/ next.step = "check" /\ next.behind = {}
        /\ next # task[p][k] => task[p][k].step = "idle"
    <2>1. CASE HasEntry(p, t)
      BY <2>1
    <2>2. CASE ~HasEntry(p, t)
      BY <2>2, RecordParts
    <2>3. QED BY <2>1, <2>2
  <1> HIDE DEF next
  <1>4. TypeOK'
    <2>1. task' \in [Processes -> [Tasks -> TaskRecords]]
      BY <1>1, <1>2 DEF CacheInv, TypeOK
    <2>2. ActiveOf(cache[p][t]) \in [Callbacks -> Durations]
      BY CacheAssumption DEF CacheInv, TypeOK, ActiveOf, Durations
    <2>3. cache' \in [Processes -> [Topics -> [Callbacks -> Durations]]]
      BY <2>2 DEF CacheInv, TypeOK
    <2>4. QED BY <2>1, <2>3 DEF CacheInv, TypeOK
  <1>5. LoadingAlone'
    BY <1>2 DEF CacheInv, TypeOK, LoadingAlone, Covers, Idle
  <1>6. \A q \in Processes, u \in Topics, c \in Callbacks :
            Shown(cache'[q][u][c]) = Shown(cache[q][u][c])
    BY ShownOfActive DEF CacheInv, TypeOK, Shown
  <1>7. \A u \in Topics, c \in Callbacks :
            /\ Works(task[p][k], u, c) => Works(next, u, c)
            /\ Works(next, u, c) =>
                /\ next.step = "write" =>
                       Shown(next.snap[u][c]) = Shown(row[u][c])
                /\ next.step = "remove" => row[u][c] = 0
    <2>1. CASE next = task[p][k]
      BY <2>1 DEF CacheInv, SnapsCurrent
    <2>2. CASE next # task[p][k]
      BY <1>3, <2>2 DEF Works
    <2>3. QED BY <2>1, <2>2
  <1>8. ScopeOK(next)
    BY <1>3, OthersInScope DEF CacheInv, TasksOK
  <1>9. StaleIsKnown' /\ SnapsCurrent' /\ BehindIsKnown' /\ TasksOK'
    <2>1. UNCHANGED <<now, row, owing, overtaken, phase, inbox, lost>>
      OBVIOUS
    <2> HIDE DEF GetActive
    <2>2. /\ UNCHANGED <<now, row, owing, overtaken>>
          /\ \A q \in Processes : phase'[q] \in {"loaded", "listening"} =>
                                        phase[q] \in {"loaded", "listening"}
          /\ next.behind = {} \/ next = task[p][k]
      BY <1>3, <2>1
    <2>3. \A q \in Processes, u \in Topics, c \in Callbacks :
              Told(q, u) \/ <<u, c>> \in lost[q] =>
                  Told(q, u)' \/ <<u, c>> \in lost'[q]
      BY <2>1 DEF Told
    <2>4. /\ \A u \in Topics, c \in Callbacks :
                 Works(task[p][k], u, c) => Works(next, u, c)
          /\ \A u \in Topics, c \in Callbacks : Works(next, u, c) =>
                 /\ next.step = "write" =>
                        Shown(next.snap[u][c]) = Shown(row[u][c])
                 /\ next.step = "remove" => row[u][c] = 0
      BY <1>7
    <2>5. \A q \in Processes, u \in Topics, c \in Callbacks :
               Told(q, u) \/ <<u, c>> \in lost[q] =>
                   \/ Told(q, u)' \/ <<u, c>> \in lost'[q]
                   \/ q = p /\ Works(next, u, c)
      BY <2>3
    <2>6. \A u \in Topics, c \in Callbacks : Works(task[p][k], u, c) =>
               Works(next, u, c) \/ <<u, c>> \in lost'[p]
      BY <2>4
    <2>7. /\ StaleIsKnown' /\ SnapsCurrent'
          /\ BehindIsKnown' /\ TasksOK'
      BY <1>1, <1>2, <1>6, <1>8, <2>2, <2>5, <2>6, <2>4, TaskMoves
    <2>8. QED BY <2>7
  <1>10. QED BY <1>4, <1>5, <1>9 DEF CacheInv
-----------------------------------------------------------------------------
LEMMA ExitPreserves ==
    ASSUME NEW p \in Processes, CacheInv, Exit(p), Fault, UNCHANGED storeVars
    PROVE  CacheInv'
  <1> USE DEF Exit, Fault, storeVars
  <1>1. TypeOK'
    <2>1. task' \in [Processes -> [Tasks -> TaskRecords]]
      BY Records DEF CacheInv, TypeOK
    <2>2. NoEntries \in [Topics -> [Callbacks -> Durations]]
      BY CacheAssumption DEF NoEntries, NoEntry, Durations
    <2>3. cache' \in [Processes -> [Topics -> [Callbacks -> Durations]]]
      BY <2>2 DEF CacheInv, TypeOK
    <2>4. inbox' \in [Processes -> Seq(Invalidations)]
      BY DEF CacheInv, TypeOK
    <2>5. faults' \in 0..MaxFaults
      BY CacheAssumption DEF CacheInv, TypeOK
    <2>6. /\ lost' \in [Processes -> SUBSET Subscriptions]
          /\ overtaken' \in [Processes -> SUBSET Subscriptions]
          /\ phase' \in [Processes -> Phases]
          /\ linked' \in [Processes -> BOOLEAN]
      BY DEF CacheInv, TypeOK, Phases
    <2>7. QED BY <2>1, <2>3, <2>4, <2>5, <2>6 DEF CacheInv, TypeOK
  <1>2. /\ phase'[p] = "down" /\ ~linked'[p] /\ inbox'[p] = <<>>
        /\ \A j \in Tasks : task'[p][j] = Idle
    BY DEF CacheInv, TypeOK
  <1>3. \A q \in Processes : q # p =>
            /\ phase'[q] = phase[q] /\ linked'[q] = linked[q]
            /\ inbox'[q] = inbox[q] /\ task'[q] = task[q]
            /\ cache'[q] = cache[q] /\ lost'[q] = lost[q]
            /\ overtaken'[q] = overtaken[q]
    BY DEF CacheInv, TypeOK
  <1>4. LoadingAlone'
    <2>1. Idle' = Idle
      BY DEF Idle, NoEntries, NoEntry
    <2> HIDE DEF Exit
    <2>2. QED BY <1>2, <1>3, <2>1 DEF CacheInv, LoadingAlone, Covers
  <1>5. \A q \in Processes, t \in Topics, c \in Callbacks :
            q # p => (Known(q, t, c)' <=> Known(q, t, c))
    BY <1>3 DEF Known, Told, Working, Works, Covers
  <1>6. StaleIsKnown'
    BY <1>2, <1>3, <1>5 DEF CacheInv, StaleIsKnown, Shown, IsActive
  <1>7. SnapsCurrent'
    BY <1>2, <1>3, RecordParts
    DEF CacheInv, SnapsCurrent, Works, Covers, Shown, IsActive
  <1>8. BehindIsKnown' /\ TasksOK'
    BY <1>2, <1>3, <1>5, RecordParts, OthersInScope
    DEF CacheInv, BehindIsKnown, TasksOK
  <1>9. QED BY <1>1, <1>4, <1>6, <1>7, <1>8 DEF CacheInv

LEMMA ReadFailsPreserves ==
    ASSUME NEW p \in Processes, NEW k \in Tasks, CacheInv, ReadFails(p, k)
    PROVE  CacheInv'
  <1> USE DEF ReadFails
  <1>1. CASE phase[p] = "loading" /\ Exit(p)
    BY <1>1, ExitPreserves
  <1>2. CASE phase[p] # "loading" /\ ~ (phase[p] = "loading" /\ Exit(p))
    <2> USE <1>2 DEF storeVars, Fault
    <2>1. Covers(task[p][k]) \subseteq Subscriptions
      BY CoversOK DEF CacheInv, TypeOK
    <2>0. /\ lost' = [lost EXCEPT ![p] = @ \cup Covers(task[p][k])]
          /\ task' = [task EXCEPT ![p][k] = Idle]
      OBVIOUS
    <2>2. TypeOK'
      <3>1. faults' \in 0..MaxFaults
        BY CacheAssumption DEF CacheInv, TypeOK
      <3>2. lost' \in [Processes -> SUBSET Subscriptions]
        BY <2>0, <2>1 DEF CacheInv, TypeOK
      <3>3. task' \in [Processes -> [Tasks -> TaskRecords]]
        BY <2>0, Records DEF CacheInv, TypeOK
      <3>4. QED BY <3>1, <3>2, <3>3 DEF CacheInv, TypeOK
    <2>3. LoadingAlone'
      <3>1. task[p][k] # Idle
        BY RecordParts
      <3>2. phase[p] # "down"
        BY <3>1 DEF CacheInv, LoadingAlone
      <3>3. /\ task' = [task EXCEPT ![p][k] = Idle] /\ phase[p] # "loading"
            /\ UNCHANGED <<phase, linked, inbox>>
        OBVIOUS
      <3> HIDE <1>2 DEF ReadFails
      <3>4. QED BY <3>2, <3>3, TaskMovesLoading
    <2>4. \A q \in Processes, t \in Topics, c \in Callbacks :
              Told(q, t) \/ <<t, c>> \in lost[q] =>
                  Told(q, t)' \/ <<t, c>> \in lost'[q]
      BY DEF Told, CacheInv, TypeOK
    <2>5. \A t \in Topics, c \in Callbacks :
              Works(task[p][k], t, c) => <<t, c>> \in lost'[p]
      BY DEF Works, CacheInv, TypeOK
    <2>6. \A t \in Topics, c \in Callbacks : ~Works(Idle, t, c)
      BY RecordParts DEF Works
    <2>7. StaleIsKnown' /\ SnapsCurrent' /\ BehindIsKnown' /\ TasksOK'
      BY <2>4, <2>5, <2>6, Records, RecordParts, OthersInScope, TaskMoves
    <2>8. QED BY <2>2, <2>3, <2>7 DEF CacheInv
  <1>3. QED BY <1>1, <1>2
-----------------------------------------------------------------------------
\* A task writes what it covers and is done; the others go on.
LEMMA WorkWritten ==
    ASSUME CacheInv, NEW p \in Processes, NEW k \in Tasks,
           NEW next \in TaskRecords,
           task' = [task EXCEPT ![p] = Outrun(p, k, next)],
           overtaken' = [overtaken EXCEPT
               ![p] = (@ \ Covers(task[p][k])) \cup task[p][k].outrun],
           UNCHANGED <<now, row, owing, inbox, lost>>,
           task[p][k].step \in {"write", "remove"},
           next.step \in {"idle", "check"}, next.behind = {},
           \A q \in Processes : q # p => cache'[q] = cache[q],
           \A t \in Topics, c \in Callbacks : Works(task[p][k], t, c) =>
               Shown(cache'[p][t][c]) = Shown(row[t][c]),
           \A t \in Topics, c \in Callbacks :
               <<t, c>> \notin Covers(task[p][k]) =>
                   cache'[p][t][c] = cache[p][t][c],
           \A q \in Processes : phase'[q] \in {"loaded", "listening"} =>
               \/ phase[q] \in {"loaded", "listening"}
               \/ q = p /\ Covers(task[p][k]) = Subscriptions
    PROVE  /\ StaleIsKnown' /\ SnapsCurrent' /\ BehindIsKnown' /\ TasksOK'
           /\ task' \in [Processes -> [Tasks -> TaskRecords]]
           /\ overtaken' \in [Processes -> SUBSET Subscriptions]
  <1> DEFINE w == task[p][k]
             current == Covers(w) \ w.behind
  <1>0. task[p] \in [Tasks -> TaskRecords]
    BY DEF CacheInv, TypeOK
  <1>1. /\ task'[p][k] = next
        /\ \A j \in Tasks : j # k =>
               task'[p][j] = [task[p][j] EXCEPT
                   !.outrun = @ \cup (current \cap task[p][j].behind)]
        /\ \A q \in Processes : q # p => task'[q] = task[q]
    BY DEF Outrun, CacheInv, TypeOK
  <1>2. \A j \in Tasks : j # k =>
            /\ task'[p][j].step = task[p][j].step
            /\ task'[p][j].scope = task[p][j].scope
            /\ task'[p][j].who = task[p][j].who
            /\ task'[p][j].snap = task[p][j].snap
            /\ task'[p][j].behind = task[p][j].behind
            /\ task'[p][j].outrun =
                   task[p][j].outrun \cup (current \cap task[p][j].behind)
            /\ task'[p][j] \in TaskRecords
    <2> SUFFICES ASSUME NEW j \in Tasks, j # k
                 PROVE  /\ task'[p][j].step = task[p][j].step
                        /\ task'[p][j].scope = task[p][j].scope
                        /\ task'[p][j].who = task[p][j].who
                        /\ task'[p][j].snap = task[p][j].snap
                        /\ task'[p][j].behind = task[p][j].behind
                        /\ task'[p][j].outrun = task[p][j].outrun
                               \cup (current \cap task[p][j].behind)
                        /\ task'[p][j] \in TaskRecords
      OBVIOUS
    <2> HIDE DEF current
    <2>1. task[p][j] \in TaskRecords
      BY <1>0
    <2>2. task'[p][j] = [task[p][j] EXCEPT
                            !.outrun = @ \cup (current \cap task[p][j].behind)]
      BY <1>1
    <2>3. task[p][j].outrun \cup (current \cap task[p][j].behind)
              \in SUBSET Subscriptions
      BY <2>1 DEF TaskRecords
    <2> DEFINE S == task[p][j].outrun \cup (current \cap task[p][j].behind)
    <2>4. task'[p][j] = [task[p][j] EXCEPT !.outrun = S]
      BY <2>2
    <2>5. S \in SUBSET Subscriptions
      BY <2>3
    <2> HIDE DEF S
    <2>6. /\ task'[p][j] \in TaskRecords
          /\ task'[p][j].step = task[p][j].step
          /\ task'[p][j].scope = task[p][j].scope
          /\ task'[p][j].who = task[p][j].who
          /\ task'[p][j].snap = task[p][j].snap
          /\ task'[p][j].behind = task[p][j].behind
          /\ task'[p][j].outrun = S
      <3>1. PICK v : v = task'[p][j]
        OBVIOUS
      <3>2. PICK u : u = task[p][j]
        OBVIOUS
      <3>3. u \in TaskRecords /\ v = [u EXCEPT !.outrun = S]
        BY <2>1, <2>4, <3>1, <3>2
      <3>4. /\ v \in TaskRecords
            /\ v.step = u.step /\ v.scope = u.scope /\ v.who = u.who
            /\ v.snap = u.snap /\ v.behind = u.behind /\ v.outrun = S
        BY <2>5, <3>3 DEF TaskRecords
      <3>5. QED BY <3>1, <3>2, <3>4
    <2>7. QED BY <2>6 DEF S
  <1>3. /\ overtaken'[p] = (overtaken[p] \ Covers(w)) \cup w.outrun
        /\ \A q \in Processes : q # p => overtaken'[q] = overtaken[q]
    BY DEF CacheInv, TypeOK
  <1> HIDE DEF w, current
  <1>4. /\ \A j \in Tasks : task'[p][j] \in TaskRecords
        /\ task'[p] = Outrun(p, k, next)
    BY <1>1, <1>2 DEF CacheInv, TypeOK
  <1>5. task' \in [Processes -> [Tasks -> TaskRecords]]
    <2>1. task'[p] \in [Tasks -> TaskRecords]
      BY <1>4 DEF Outrun
    <2>2. QED BY <1>4, <2>1 DEF CacheInv, TypeOK
  <1>6. overtaken' \in [Processes -> SUBSET Subscriptions]
    <2>1. w.outrun \subseteq Subscriptions
      BY <1>0 DEF w, TaskRecords
    <2>2. QED BY <1>3, <2>1 DEF w, CacheInv, TypeOK
  <1>7. ASSUME NEW q \in Processes, NEW t \in Topics, NEW c \in Callbacks,
               Known(q, t, c), ~(q = p /\ Works(w, t, c))
        PROVE  Known(q, t, c)'
    <2>1. CASE Told(q, t) \/ <<t, c>> \in lost[q]
      BY <2>1 DEF Known, Told
    <2>2. CASE Working(q, t, c)
      <3>1. PICK j \in Tasks : Works(task[q][j], t, c)
        BY <2>2 DEF Working
      <3>2. CASE q = p
        <4>1. j # k
          BY <1>7, <3>1, <3>2 DEF w
        <4>2. Works(task'[p][j], t, c)
          BY <1>2, <3>1, <3>2, <4>1 DEF Works, Covers
        <4>3. QED BY <3>2, <4>2 DEF Known, Working, Works, Covers
      <3>3. CASE q # p
        BY <1>1, <3>1, <3>3 DEF Known, Working, Works, Covers
      <3>4. QED BY <3>2, <3>3
    <2>3. QED BY <1>7, <2>1, <2>2 DEF Known
  <1>8. StaleIsKnown'
    <2> SUFFICES ASSUME NEW q \in Processes, NEW t \in Topics,
                        NEW c \in Callbacks,
                        phase'[q] \in {"loaded", "listening"},
                        Shown(cache'[q][t][c]) # Shown(row[t][c])
                 PROVE  Known(q, t, c)' \/ <<t, c>> \in overtaken'[q]
      BY DEF StaleIsKnown, Shown, IsActive
    <2>1. CASE q # p
      <3>1. Known(q, t, c) \/ <<t, c>> \in overtaken[q]
        BY <2>1 DEF CacheInv, StaleIsKnown
      <3>2. QED BY <1>3, <1>7, <2>1, <3>1
    <2>2. CASE q = p /\ <<t, c>> \notin Covers(w)
      <3>1. phase[p] \in {"loaded", "listening"}
        BY <2>2 DEF w, Subscriptions
      <3>2. Known(p, t, c) \/ <<t, c>> \in overtaken[p]
        BY <2>2, <3>1 DEF w, CacheInv, StaleIsKnown
      <3>3. ~Works(w, t, c)
        BY <2>2 DEF Works
      <3>4. QED BY <1>3, <1>7, <2>2, <3>2, <3>3
    <2>3. CASE q = p /\ <<t, c>> \in Covers(w)
      <3>1. ~Works(w, t, c)
        BY <2>3 DEF w
      <3>2. <<t, c>> \in w.behind
        BY <2>3, <3>1 DEF Works, w
      <3>3. <<t, c>> \in w.outrun \/ Known(p, t, c)
        BY <3>2 DEF w, CacheInv, BehindIsKnown
      <3>4. QED BY <1>3, <1>7, <2>3, <3>1, <3>3
    <2>4. QED BY <2>1, <2>2, <2>3
  <1>9. SnapsCurrent'
    <2> SUFFICES ASSUME NEW q \in Processes, NEW j \in Tasks, NEW t \in Topics,
                        NEW c \in Callbacks, Works(task'[q][j], t, c)
                 PROVE  /\ task'[q][j].step = "write" =>
                            Shown(task'[q][j].snap[t][c]) = Shown(row[t][c])
                        /\ task'[q][j].step = "remove" => row[t][c] = 0
      BY DEF SnapsCurrent, Works, Covers, Shown, IsActive
    <2>1. CASE q # p
      BY <1>1, <2>1 DEF CacheInv, SnapsCurrent
    <2>2. CASE q = p /\ j = k
      BY <1>1, <2>2
    <2>3. CASE q = p /\ j # k
      <3>1. Works(task[q][j], t, c)
        BY <1>2, <2>3 DEF Works, Covers
      <3>2. QED BY <1>2, <2>3, <3>1 DEF CacheInv, SnapsCurrent
    <2>4. QED BY <2>1, <2>2, <2>3
  <1>10. BehindIsKnown'
    <2> SUFFICES ASSUME NEW q \in Processes, NEW j \in Tasks, NEW t \in Topics,
                        NEW c \in Callbacks,
                        <<t, c>> \in task'[q][j].behind \ task'[q][j].outrun
                 PROVE  Known(q, t, c)'
      BY DEF BehindIsKnown
    <2>1. CASE q # p
      BY <1>1, <1>7, <2>1 DEF CacheInv, BehindIsKnown
    <2>2. CASE q = p /\ j = k
      BY <1>1, <2>2
    <2>3. CASE q = p /\ j # k
      <3>1. /\ <<t, c>> \in task[p][j].behind \ task[p][j].outrun
            /\ <<t, c>> \notin current
        BY <1>2, <2>3
      <3>2. Known(p, t, c)
        BY <3>1 DEF CacheInv, BehindIsKnown
      <3>3. ~Works(w, t, c)
        BY <3>1 DEF current, Works, w
      <3>4. QED BY <1>7, <2>3, <3>2, <3>3
    <2>4. QED BY <2>1, <2>2, <2>3
  <1>11. TasksOK'
    <2> SUFFICES ASSUME NEW q \in Processes, NEW j \in Tasks
                 PROVE  /\ task'[q][j].step \notin {"write", "remove"} =>
                               task'[q][j].behind = {}
                        /\ ScopeOK(task'[q][j])
      BY DEF TasksOK, ScopeOK
    <2>1. CASE q # p
      BY <1>1, <2>1 DEF CacheInv, TasksOK
    <2>2. CASE q = p /\ j = k
      BY <1>1, <2>2, OthersInScope
    <2>3. CASE q = p /\ j # k
      BY <1>2, <2>3 DEF CacheInv, TasksOK, ScopeOK
    <2>4. QED BY <2>1, <2>2, <2>3
  <1>12. QED BY <1>5, <1>6, <1>8, <1>9, <1>10, <1>11

LEMMA WritePreserves ==
    ASSUME NEW p \in Processes, NEW k \in Tasks, CacheInv, Write(p, k)
    PROVE  CacheInv'
  <1> DEFINE w == task[p][k]
  <1>0. w \in TaskRecords
    BY DEF CacheInv, TypeOK
  <1>1. /\ w.step = "write"
        /\ task' = [task EXCEPT ![p] = Outrun(p, k, Idle)]
        /\ overtaken' = [overtaken EXCEPT ![p] = (@ \ Covers(w)) \cup w.outrun]
        /\ phase' = IF phase[p] = "loading"
                    THEN [phase EXCEPT ![p] = "loaded"] ELSE phase
        /\ UNCHANGED <<now, row, owing, inbox, lost, linked, changes, faults>>
    BY DEF Write, storeVars
  <1>2. /\ \A q \in Processes : q # p => cache'[q] = cache[q]
        /\ \A t \in Topics : cache'[p][t] =
               IF t \in w.scope THEN w.snap[t] ELSE cache[p][t]
        /\ cache' \in [Processes -> [Topics -> [Callbacks -> Durations]]]
    <2>1. w.snap \in [Topics -> [Callbacks -> Durations]]
      BY <1>0 DEF TaskRecords
    <2>2. cache' = [cache EXCEPT ![p] = [t \in Topics |->
              IF t \in w.scope THEN w.snap[t] ELSE cache[p][t]]]
      BY DEF Write
    <2> HIDE DEF w
    <2>3. QED BY <2>1, <2>2 DEF CacheInv, TypeOK
  <1>3. \A t \in Topics, c \in Callbacks : Works(w, t, c) =>
            Shown(cache'[p][t][c]) = Shown(row[t][c])
    <2> SUFFICES ASSUME NEW t \in Topics, NEW c \in Callbacks, Works(w, t, c)
                 PROVE  Shown(cache'[p][t][c]) = Shown(row[t][c])
      OBVIOUS
    <2>1. t \in w.scope
      BY DEF Works, Covers
    <2>2. Shown(w.snap[t][c]) = Shown(row[t][c])
      BY <1>1 DEF CacheInv, SnapsCurrent
    <2>3. QED BY <1>2, <2>1, <2>2
  <1>4. task[p][k] # Idle /\ phase[p] # "down"
    BY <1>1, RecordParts DEF CacheInv, LoadingAlone
  <1>5. phase[p] = "loading" => Covers(w) = Subscriptions
    BY <1>4 DEF CacheInv, LoadingAlone
  <1>6. \A t \in Topics, c \in Callbacks : <<t, c>> \notin Covers(w) =>
            cache'[p][t][c] = cache[p][t][c]
    <2> SUFFICES ASSUME NEW t \in Topics, NEW c \in Callbacks,
                        <<t, c>> \notin Covers(w), t \in w.scope
                 PROVE  FALSE
      BY <1>2
    <2>1. w.who = Callbacks
      BY <1>1 DEF CacheInv, TasksOK, ScopeOK
    <2>2. QED BY <2>1 DEF Covers
  <1>7. \A q \in Processes : phase'[q] \in {"loaded", "listening"} =>
            \/ phase[q] \in {"loaded", "listening"}
            \/ q = p /\ Covers(w) = Subscriptions
    BY <1>1, <1>5 DEF CacheInv, TypeOK
  <1>8. Idle \in TaskRecords /\ Idle.step = "idle" /\ Idle.behind = {}
    BY Records, RecordParts
  <1> HIDE DEF w
  <1>9. /\ StaleIsKnown' /\ SnapsCurrent' /\ BehindIsKnown' /\ TasksOK'
        /\ task' \in [Processes -> [Tasks -> TaskRecords]]
        /\ overtaken' \in [Processes -> SUBSET Subscriptions]
    BY <1>1, <1>2, <1>3, <1>6, <1>7, <1>8, WorkWritten DEF w
  <1>10. TypeOK'
    <2>1. phase' \in [Processes -> Phases]
      BY <1>1 DEF CacheInv, TypeOK, Phases
    <2>2. QED BY <1>1, <1>2, <1>9, <2>1 DEF CacheInv, TypeOK
  <1>11. LoadingAlone'
    <2>1. CASE phase[p] = "loading"
      <3>1. /\ phase'[p] = "loaded"
            /\ \A q \in Processes :
                   q # p => phase'[q] = phase[q] /\ task'[q] = task[q]
        BY <1>1, <2>1 DEF CacheInv, TypeOK
      <3>2. Idle' = Idle
        BY DEF Idle, NoEntries, NoEntry
      <3>3. QED
        BY <1>1, <2>1, <3>1, <3>2 DEF CacheInv, LoadingAlone, Covers
    <2>2. CASE phase[p] # "loading"
      <3>1. /\ phase' = phase
            /\ \A q \in Processes : q # p => task'[q] = task[q]
        BY <1>1, <2>2 DEF CacheInv, TypeOK
      <3>2. Idle' = Idle
        BY DEF Idle, NoEntries, NoEntry
      <3>3. QED
        BY <1>1, <1>4, <2>2, <3>1, <3>2 DEF CacheInv, LoadingAlone, Covers
    <2>3. QED BY <2>1, <2>2
  <1>12. QED BY <1>9, <1>10, <1>11 DEF CacheInv

LEMMA RemoveCachedPreserves ==
    ASSUME NEW p \in Processes, NEW k \in Tasks, CacheInv, RemoveCached(p, k)
    PROVE  CacheInv'
  <1> DEFINE w == task[p][k]
  <1>0. w \in TaskRecords
    BY DEF CacheInv, TypeOK
  <1>1. PICK t \in w.scope :
            /\ cache' = [cache EXCEPT ![p][t] = [c \in Callbacks |->
                   IF c \in w.who THEN 0 ELSE cache[p][t][c]]]
            /\ task' = [task EXCEPT ![p] = Outrun(p, k,
                   IF ActiveOf(cache'[p][t]) = NoEntry
                   THEN Looking(t) ELSE Idle)]
    BY DEF RemoveCached
  <1>2. /\ w.step = "remove"
        /\ overtaken' = [overtaken EXCEPT ![p] = (@ \ Covers(w)) \cup w.outrun]
        /\ UNCHANGED <<now, row, owing, changes, phase, linked, inbox, faults,
                       lost>>
    BY DEF RemoveCached, storeVars
  <1>3. t \in Topics /\ w.scope = {t}
    <2>1. t \in Topics
      BY <1>0 DEF TaskRecords, Invalidations
    <2>2. \E u \in Topics : w.scope = {u}
      BY <1>2 DEF CacheInv, TasksOK, ScopeOK
    <2>3. QED BY <2>1, <2>2
  <1> DEFINE next == IF ActiveOf(cache'[p][t]) = NoEntry
                     THEN Looking(t) ELSE Idle
  <1>4. /\ next \in TaskRecords /\ next.step \in {"idle", "check"}
        /\ next.behind = {}
    BY <1>3, Records, RecordParts
  <1>5. task' = [task EXCEPT ![p] = Outrun(p, k, next)]
    BY <1>1
  <1> HIDE DEF next, w
  <1>6. /\ \A q \in Processes : q # p => cache'[q] = cache[q]
        /\ \A u \in Topics, c \in Callbacks : cache'[p][u][c] =
               IF u = t /\ c \in w.who THEN 0 ELSE cache[p][u][c]
        /\ cache' \in [Processes -> [Topics -> [Callbacks -> Durations]]]
    BY <1>1, <1>3, CacheAssumption DEF CacheInv, TypeOK, Durations
  <1>7. \A u \in Topics, c \in Callbacks : Works(w, u, c) =>
            Shown(cache'[p][u][c]) = Shown(row[u][c])
    <2> SUFFICES ASSUME NEW u \in Topics, NEW c \in Callbacks, Works(w, u, c)
                 PROVE  Shown(cache'[p][u][c]) = Shown(row[u][c])
      OBVIOUS
    <2>1. u = t /\ c \in w.who
      BY <1>3 DEF Works, Covers
    <2>2. row[u][c] = 0
      BY <1>2 DEF w, CacheInv, SnapsCurrent
    <2>3. QED BY <1>6, <2>1, <2>2
  <1>8. \A u \in Topics, c \in Callbacks :
            <<u, c>> \notin Covers(w) => cache'[p][u][c] = cache[p][u][c]
    BY <1>3, <1>6 DEF Covers
  <1>9. /\ StaleIsKnown' /\ SnapsCurrent' /\ BehindIsKnown' /\ TasksOK'
        /\ task' \in [Processes -> [Tasks -> TaskRecords]]
        /\ overtaken' \in [Processes -> SUBSET Subscriptions]
    <2>1. \A q \in Processes : phase'[q] \in {"loaded", "listening"} =>
              \/ phase[q] \in {"loaded", "listening"}
              \/ q = p /\ Covers(w) = Subscriptions
      BY <1>2
    <2>2. /\ UNCHANGED <<now, row, owing, inbox, lost>>
          /\ w.step \in {"write", "remove"}
          /\ overtaken' = [overtaken EXCEPT
                 ![p] = (@ \ Covers(w)) \cup w.outrun]
      BY <1>2
    <2>3. \A q \in Processes : q # p => cache'[q] = cache[q]
      BY <1>6
    <2>4. QED
      BY <1>4, <1>5, <1>7, <1>8, <2>1, <2>2, <2>3, WorkWritten DEF w
  <1>10. TypeOK'
    BY <1>2, <1>6, <1>9 DEF CacheInv, TypeOK
  <1>11. LoadingAlone'
    <2>1. w # Idle
      BY <1>2, RecordParts
    <2>2. phase[p] \notin {"down", "loading"}
      BY <1>2, <2>1 DEF w, CacheInv, LoadingAlone
    <2>3. \A q \in Processes : q # p => task'[q] = task[q]
      BY <1>5 DEF CacheInv, TypeOK
    <2>4. Idle' = Idle
      BY DEF Idle, NoEntries, NoEntry
    <2>5. QED BY <1>2, <2>2, <2>3, <2>4 DEF CacheInv, LoadingAlone, Covers
  <1>12. QED BY <1>9, <1>10, <1>11 DEF CacheInv
-----------------------------------------------------------------------------
\* A row changes, and every process knows or is told.  One task may set out
\* to remove what was deleted.
LEMMA RowChanges ==
    ASSUME CacheInv, NEW t0 \in Topics, NEW c0 \in Callbacks,
           NEW duration \in Durations,
           row' = [row EXCEPT ![t0][c0] = duration],
           UNCHANGED <<now, cache, phase, overtaken, inbox>>,
           \A q \in Processes, j \in Tasks :
               \/ task'[q][j] = Outdated(t0, c0)[q][j]
               \/ /\ task[q][j].step = "idle"
                  /\ task'[q][j].step = "remove" /\ task'[q][j].behind = {}
                  /\ Covers(task'[q][j]) = {<<t0, c0>>}
                  /\ duration = 0 /\ ScopeOK(task'[q][j]),
           \A i \in Invalidations : owing[i] > 0 => owing'[i] > 0,
           \A q \in Processes : lost[q] \subseteq lost'[q],
           \A q \in Processes : Known(q, t0, c0)'
    PROVE  StaleIsKnown' /\ SnapsCurrent' /\ BehindIsKnown' /\ TasksOK'
  <1> DEFINE Removes(q, j) ==
                 /\ task[q][j].step = "idle"
                 /\ task'[q][j].step = "remove" /\ task'[q][j].behind = {}
                 /\ Covers(task'[q][j]) = {<<t0, c0>>}
                 /\ duration = 0 /\ ScopeOK(task'[q][j])
             Kept(q, j) ==
                 /\ task'[q][j].step = task[q][j].step
                 /\ task'[q][j].scope = task[q][j].scope
                 /\ task'[q][j].who = task[q][j].who
                 /\ task'[q][j].snap = task[q][j].snap
                 /\ task'[q][j].outrun = task[q][j].outrun
                 /\ task'[q][j].behind =
                        IF /\ task[q][j].step \in {"write", "remove"}
                           /\ <<t0, c0>> \in Covers(task[q][j])
                        THEN task[q][j].behind \cup {<<t0, c0>>}
                        ELSE task[q][j].behind
  <1>1. ASSUME NEW q \in Processes, NEW j \in Tasks
        PROVE  Removes(q, j) \/ Kept(q, j)
    <2> HIDE DEF Removes
    <2>1. task[q][j] \in TaskRecords
      BY DEF CacheInv, TypeOK
    <2>2. CASE task'[q][j] = Outdated(t0, c0)[q][j]
      <3>1. task'[q][j] =
                IF /\ task[q][j].step \in {"write", "remove"}
                   /\ <<t0, c0>> \in Covers(task[q][j])
                THEN [task[q][j] EXCEPT
                         !.behind = task[q][j].behind \cup {<<t0, c0>>}]
                ELSE task[q][j]
        BY <2>2 DEF Outdated
      <3>2. QED BY <2>1, <3>1 DEF TaskRecords
    <2>3. CASE task'[q][j] # Outdated(t0, c0)[q][j]
      BY <2>3 DEF Removes
    <2>4. QED BY <2>2, <2>3
  <1> HIDE DEF Removes, Kept
  <1>2. /\ row'[t0][c0] = duration
        /\ \A t \in Topics, c \in Callbacks :
               <<t, c>> # <<t0, c0>> => row'[t][c] = row[t][c]
    BY DEF CacheInv, TypeOK
  <1>3. ASSUME NEW q \in Processes, NEW t \in Topics, NEW c \in Callbacks,
               Known(q, t, c)
        PROVE  Known(q, t, c)'
    <2>1. CASE <<t, c>> = <<t0, c0>>
      BY <2>1
    <2>2. CASE <<t, c>> # <<t0, c0>>
      <3>1. CASE Told(q, t) \/ <<t, c>> \in lost[q]
        BY <3>1 DEF Known, Told
      <3>2. CASE Working(q, t, c)
        <4>1. PICK j \in Tasks : Works(task[q][j], t, c)
          BY <3>2 DEF Working
        <4>2. Kept(q, j)
          BY <1>1, <4>1 DEF Removes, Works
        <4>3. Works(task'[q][j], t, c)
          BY <2>2, <4>1, <4>2 DEF Kept, Works, Covers
        <4>4. QED BY <4>3 DEF Known, Working, Works, Covers
      <3>3. QED BY <1>3, <3>1, <3>2 DEF Known
    <2>3. QED BY <2>1, <2>2
  <1>4. StaleIsKnown'
    <2> SUFFICES ASSUME NEW q \in Processes, NEW t \in Topics,
                        NEW c \in Callbacks, <<t, c>> # <<t0, c0>>,
                        phase[q] \in {"loaded", "listening"},
                        Shown(cache[q][t][c]) # Shown(row'[t][c])
                 PROVE  Known(q, t, c)' \/ <<t, c>> \in overtaken'[q]
      BY DEF StaleIsKnown, Shown, IsActive
    <2>1. QED BY <1>2, <1>3 DEF CacheInv, StaleIsKnown
  <1>5. SnapsCurrent'
    <2> SUFFICES ASSUME NEW q \in Processes, NEW j \in Tasks, NEW t \in Topics,
                        NEW c \in Callbacks, Works(task'[q][j], t, c)
                 PROVE  /\ task'[q][j].step = "write" =>
                            Shown(task'[q][j].snap[t][c]) = Shown(row'[t][c])
                        /\ task'[q][j].step = "remove" => row'[t][c] = 0
      BY DEF SnapsCurrent, Works, Covers, Shown, IsActive
    <2>1. CASE Removes(q, j)
      BY <1>2, <2>1 DEF Removes, Works
    <2>2. CASE Kept(q, j) /\ <<t, c>> = <<t0, c0>>
      BY <2>2 DEF Kept, Works, Covers
    <2>3. CASE Kept(q, j) /\ <<t, c>> # <<t0, c0>>
      <3>1. Works(task[q][j], t, c)
        BY <2>3 DEF Kept, Works, Covers
      <3>2. QED BY <1>2, <2>3, <3>1 DEF Kept, CacheInv, SnapsCurrent
    <2>4. QED BY <1>1, <2>1, <2>2, <2>3
  <1>6. BehindIsKnown'
    <2> SUFFICES ASSUME NEW q \in Processes, NEW j \in Tasks, NEW t \in Topics,
                        NEW c \in Callbacks,
                        <<t, c>> \in task'[q][j].behind \ task'[q][j].outrun
                 PROVE  Known(q, t, c)'
      BY DEF BehindIsKnown
    <2>1. CASE <<t, c>> = <<t0, c0>>
      BY <2>1
    <2>2. CASE <<t, c>> # <<t0, c0>>
      <3>1. Kept(q, j)
        BY <1>1 DEF Removes
      <3>2. <<t, c>> \in task[q][j].behind \ task[q][j].outrun
        BY <2>2, <3>1 DEF Kept
      <3>3. QED BY <1>3, <3>2 DEF CacheInv, BehindIsKnown
    <2>3. QED BY <2>1, <2>2
  <1>7. TasksOK'
    <2> SUFFICES ASSUME NEW q \in Processes, NEW j \in Tasks
                 PROVE  /\ task'[q][j].step \notin {"write", "remove"} =>
                               task'[q][j].behind = {}
                        /\ ScopeOK(task'[q][j])
      BY DEF TasksOK, ScopeOK
    <2>1. CASE Removes(q, j)
      BY <2>1 DEF Removes
    <2>2. CASE Kept(q, j)
      BY <2>2 DEF Kept, CacheInv, TasksOK, ScopeOK
    <2>3. QED BY <1>1, <2>1, <2>2
  <1>8. QED BY <1>4, <1>5, <1>6, <1>7

LEMMA OutdatedOK ==
    ASSUME CacheInv, NEW t0 \in Topics, NEW c0 \in Callbacks
    PROVE  Outdated(t0, c0) \in [Processes -> [Tasks -> TaskRecords]]
  <1> SUFFICES ASSUME NEW q \in Processes, NEW j \in Tasks
               PROVE  Outdated(t0, c0)[q][j] \in TaskRecords
    BY DEF Outdated
  <1>1. task[q][j] \in TaskRecords /\ <<t0, c0>> \in Subscriptions
    BY DEF CacheInv, TypeOK, Subscriptions
  <1>2. [task[q][j] EXCEPT !.behind = @ \cup {<<t0, c0>>}] \in TaskRecords
    BY <1>1 DEF TaskRecords
  <1>3. QED BY <1>1, <1>2 DEF Outdated

\* What changes around it does not make a loading process busy.
LEMMA OutdatedAlone ==
    ASSUME CacheInv, NEW t0 \in Topics, NEW c0 \in Callbacks,
           UNCHANGED <<phase, linked, inbox>>,
           \A q \in Processes : phase[q] # "listening" =>
               task'[q] = task[q] \/ task'[q] = Outdated(t0, c0)[q]
    PROVE  LoadingAlone'
  <1> SUFFICES ASSUME NEW q \in Processes, NEW j \in Tasks,
                      phase[q] # "listening"
               PROVE  /\ phase[q] = "down" => task'[q][j] = Idle
                      /\ phase[q] = "loading" =>
                             \/ task'[q][j] = Idle
                             \/ /\ task'[q][j].step \in {"read", "write"}
                                /\ Covers(task'[q][j]) = Subscriptions
    BY DEF CacheInv, LoadingAlone, Covers, Idle, NoEntries, NoEntry
  <1>1. task[q][j] \in TaskRecords
    BY DEF CacheInv, TypeOK
  <1>2. \/ task'[q][j] = task[q][j]
        \/ /\ task[q][j].step \in {"write", "remove"}
           /\ task'[q][j] = [task[q][j] EXCEPT
                                !.behind = @ \cup {<<t0, c0>>}]
    BY DEF Outdated
  <1>3. CASE task'[q][j] = task[q][j]
    BY <1>3 DEF CacheInv, LoadingAlone
  <1>4. CASE task'[q][j] # task[q][j]
    <2>1. task[q][j] # Idle
      BY <1>2, <1>4, RecordParts
    <2>2. /\ phase[q] # "down"
          /\ phase[q] = "loading" =>
                 /\ task[q][j].step \in {"read", "write"}
                 /\ Covers(task[q][j]) = Subscriptions
      BY <2>1 DEF CacheInv, LoadingAlone
    <2>3. /\ task'[q][j].step = task[q][j].step
          /\ task'[q][j].scope = task[q][j].scope
          /\ task'[q][j].who = task[q][j].who
      BY <1>1, <1>2, <1>4 DEF TaskRecords
    <2>4. QED BY <2>2, <2>3 DEF Covers
  <1>5. QED BY <1>3, <1>4

LEMMA ChangePreserves ==
    ASSUME NEW t0 \in Topics, CacheInv, Change(t0) PROVE CacheInv'
  <1>1. PICK c0 \in Callbacks, duration \in {0} \cup now..MaxNow :
            /\ row' = [row EXCEPT ![t0][c0] = duration]
            /\ task' = Outdated(t0, c0)
    BY DEF Change
  <1>2. /\ changes < MaxChanges /\ changes' = changes + 1
        /\ owing' = [owing EXCEPT ![{t0}] = @ + 1]
        /\ UNCHANGED <<now, phase, linked, inbox, cache, faults, lost,
                       overtaken>>
    BY DEF Change, history
  <1>3. duration \in Durations
    BY CacheAssumption DEF CacheInv, TypeOK, Durations
  <1>4. {t0} \in Invalidations
    BY DEF Invalidations
  <1>5. TypeOK'
    <2>1. row' \in [Topics -> [Callbacks -> Durations]]
      BY <1>1, <1>3 DEF CacheInv, TypeOK
    <2>2. owing' \in [Invalidations -> Nat]
      BY <1>2, <1>4 DEF CacheInv, TypeOK
    <2>3. changes' \in 0..MaxChanges
      BY <1>2, CacheAssumption DEF CacheInv, TypeOK
    <2>4. task' \in [Processes -> [Tasks -> TaskRecords]]
      BY <1>1, OutdatedOK DEF CacheInv
    <2>5. QED BY <1>2, <2>1, <2>2, <2>3, <2>4 DEF CacheInv, TypeOK
  <1>6. LoadingAlone'
    BY <1>1, <1>2, OutdatedAlone
  <1>7. owing'[{t0}] > 0
    BY <1>2, <1>4 DEF CacheInv, TypeOK
  <1>8. \A i \in Invalidations : owing[i] > 0 => owing'[i] > 0
    BY <1>2, <1>4 DEF CacheInv, TypeOK
  <1>9. \A q \in Processes : Known(q, t0, c0)'
    BY <1>4, <1>7 DEF Known, Told
  <1>10. StaleIsKnown' /\ SnapsCurrent' /\ BehindIsKnown' /\ TasksOK'
    BY <1>1, <1>2, <1>3, <1>8, <1>9, RowChanges
  <1>11. QED BY <1>5, <1>6, <1>10 DEF CacheInv

LEMMA GonePreserves ==
    ASSUME NEW p \in Processes, NEW k \in Tasks, NEW t0 \in Topics,
           NEW c0 \in Callbacks, CacheInv, Gone(p, k, t0, c0)
    PROVE  CacheInv'
  <1> DEFINE removing == [Idle EXCEPT !.step = "remove", !.scope = {t0},
                                      !.who = {c0}]
             deleted == row[t0][c0] # 0
  <1>1. /\ phase[p] = "listening" /\ task[p][k].step = "idle"
        /\ row' = [row EXCEPT ![t0][c0] = 0]
        /\ task' = [(IF deleted THEN Outdated(t0, c0) ELSE task)
                        EXCEPT ![p][k] = removing]
        /\ lost' = [q \in Processes |-> IF deleted /\ q # p
                                        THEN lost[q] \cup {<<t0, c0>>}
                                        ELSE lost[q]]
        /\ UNCHANGED <<now, owing, changes, phase, linked, inbox, cache,
                       faults, overtaken>>
    BY DEF Gone
  <1>2. /\ removing \in TaskRecords /\ removing.behind = {}
        /\ removing.step = "remove" /\ Covers(removing) = {<<t0, c0>>}
        /\ ScopeOK(removing)
    <2>1. /\ removing.step = "remove" /\ removing.scope = {t0}
          /\ removing.who = {c0} /\ removing.behind = {}
      BY DEF Idle
    <2>2. NoEntries \in [Topics -> [Callbacks -> Durations]]
      BY CacheAssumption DEF NoEntries, NoEntry, Durations
    <2>3. removing \in TaskRecords
      BY <2>2 DEF Idle, TaskRecords, TaskSteps, Invalidations
    <2> HIDE DEF removing
    <2>4. QED BY <2>1, <2>3 DEF Covers, ScopeOK
  <1> HIDE DEF removing
  <1>3. 0 \in Durations
    BY CacheAssumption DEF Durations
  <1>4. TypeOK'
    <2>1. row' \in [Topics -> [Callbacks -> Durations]]
      BY <1>1, <1>3 DEF CacheInv, TypeOK
    <2>2. task' \in [Processes -> [Tasks -> TaskRecords]]
      BY <1>1, <1>2, OutdatedOK DEF CacheInv, TypeOK
    <2>3. lost' \in [Processes -> SUBSET Subscriptions]
      BY <1>1 DEF CacheInv, TypeOK, Subscriptions
    <2>4. QED BY <1>1, <2>1, <2>2, <2>3 DEF CacheInv, TypeOK
  <1>5. LoadingAlone'
    <2>1. \A q \in Processes : q # p =>
              task'[q] = task[q] \/ task'[q] = Outdated(t0, c0)[q]
      BY <1>1, OutdatedOK DEF CacheInv, TypeOK
    <2>2. QED BY <1>1, <2>1, OutdatedAlone
  <1>6. CASE ~deleted
    <2>1. row' = row /\ lost' = lost /\ row[t0][c0] = 0
      BY <1>1, <1>6 DEF CacheInv, TypeOK
    <2>2. task' = [task EXCEPT ![p][k] = removing]
      BY <1>1, <1>6
    <2>3. \A t \in Topics, c \in Callbacks : Works(removing, t, c) =>
              /\ removing.step = "write" =>
                     Shown(removing.snap[t][c]) = Shown(row[t][c])
              /\ removing.step = "remove" => row[t][c] = 0
      BY <1>2, <2>1 DEF Works
    <2>4. \A t \in Topics, c \in Callbacks : ~Works(task[p][k], t, c)
      BY <1>1 DEF Works
    <2>5. \A q \in Processes, t \in Topics : Told(q, t) => Told(q, t)'
      BY <1>1 DEF Told
    <2>6. /\ UNCHANGED <<now, row, owing, overtaken>>
          /\ \A q \in Processes, t \in Topics, c \in Callbacks :
                 Shown(cache'[q][t][c]) = Shown(cache[q][t][c])
          /\ \A q \in Processes : phase'[q] \in {"loaded", "listening"} =>
                                       phase[q] \in {"loaded", "listening"}
      BY <1>1, <2>1
    <2>7. StaleIsKnown' /\ SnapsCurrent' /\ BehindIsKnown' /\ TasksOK'
      BY <1>2, <2>1, <2>2, <2>3, <2>4, <2>5, <2>6, TaskMoves
    <2>8. QED BY <1>4, <1>5, <2>7 DEF CacheInv
  <1>7. CASE deleted
    <2>1. /\ task'[p][k] = removing
          /\ \A q \in Processes, j \in Tasks : <<q, j>> # <<p, k>> =>
                 task'[q][j] = Outdated(t0, c0)[q][j]
      BY <1>1, <1>7, OutdatedOK DEF CacheInv, TypeOK
    <2>2. \A q \in Processes, j \in Tasks :
              \/ task'[q][j] = Outdated(t0, c0)[q][j]
              \/ /\ task[q][j].step = "idle"
                 /\ task'[q][j].step = "remove" /\ task'[q][j].behind = {}
                 /\ Covers(task'[q][j]) = {<<t0, c0>>}
                 /\ 0 = 0 /\ ScopeOK(task'[q][j])
      BY <1>1, <1>2, <2>1
    <2>3. \A q \in Processes : lost[q] \subseteq lost'[q]
      BY <1>1
    <2>4. ASSUME NEW q \in Processes PROVE Known(q, t0, c0)'
      <3>1. CASE q # p
        BY <1>1, <1>7, <3>1 DEF Known
      <3>2. CASE q = p
        <4>1. Works(task'[p][k], t0, c0)
          BY <1>2, <2>1 DEF Works
        <4>2. QED BY <3>2, <4>1 DEF Known, Working, Works, Covers
      <3>3. QED BY <3>1, <3>2
    <2>5. StaleIsKnown' /\ SnapsCurrent' /\ BehindIsKnown' /\ TasksOK'
      <3>1. /\ row' = [row EXCEPT ![t0][c0] = 0]
            /\ UNCHANGED <<now, cache, phase, overtaken, inbox>>
            /\ \A i \in Invalidations : owing[i] > 0 => owing'[i] > 0
        BY <1>1
      <3>2. QED BY <1>3, <2>2, <2>3, <2>4, <3>1, RowChanges
    <2>6. QED BY <1>4, <1>5, <2>5 DEF CacheInv
  <1>8. QED BY <1>6, <1>7
-----------------------------------------------------------------------------
LEMMA InitCacheInv == Init => CacheInv
  <1> SUFFICES ASSUME Init PROVE CacheInv
    OBVIOUS
  <1> USE DEF Init
  <1>1. TypeOK
    <2>1. NoEntries \in [Topics -> [Callbacks -> Durations]]
      BY CacheAssumption DEF NoEntries, NoEntry, Durations
    <2>2. now \in 1..(MaxNow + 1) /\ changes \in 0..MaxChanges
          /\ faults \in 0..MaxFaults
      BY CacheAssumption
    <2>3. task \in [Processes -> [Tasks -> TaskRecords]]
      BY Records
    <2>4. inbox \in [Processes -> Seq(Invalidations)]
      OBVIOUS
    <2>5. QED BY <2>1, <2>2, <2>3, <2>4 DEF TypeOK, Phases
  <1>2. \A p \in Processes, k \in Tasks : task[p][k] = Idle
    OBVIOUS
  <1>3. StaleIsKnown
    BY DEF StaleIsKnown
  <1>4. SnapsCurrent /\ BehindIsKnown
    BY <1>2, RecordParts DEF SnapsCurrent, BehindIsKnown, Works
  <1>5. TasksOK
    BY <1>2, RecordParts, OthersInScope DEF TasksOK
  <1>6. LoadingAlone
    BY <1>2 DEF LoadingAlone
  <1>7. QED BY <1>1, <1>3, <1>4, <1>5, <1>6 DEF CacheInv

LEMMA StutterPreserves == CacheInv /\ UNCHANGED vars => CacheInv'
  <1> SUFFICES ASSUME CacheInv, UNCHANGED vars PROVE CacheInv'
    OBVIOUS
  <1> USE DEF vars, storeVars, processVars, history
  <1>1. TypeOK' /\ LoadingAlone'
    BY DEF CacheInv, TypeOK, LoadingAlone, Covers, Idle, NoEntries, NoEntry
  <1>2. QED
    BY <1>1, TasksUntouched DEF CacheInv, Shown, IsActive, Told

LEMMA NextPreserves == CacheInv /\ [Next]_vars => CacheInv'
  <1> SUFFICES ASSUME CacheInv, Next PROVE CacheInv'
    BY StutterPreserves
  <1>1. CASE \E t \in Topics : Change(t)
    BY <1>1, ChangePreserves
  <1>2. CASE \E i \in Invalidations : Publish(i) \/ RequestDies(i)
    BY <1>2, PublishPreserves, RequestDiesPreserves
  <1>3. CASE Cleanup \/ Tick
    BY <1>3, CleanupPreserves, TickPreserves
  <1>4. ASSUME NEW p \in Processes,
               \/ Start(p) \/ StartListening(p)
               \/ Crash(p) \/ Unlink(p) \/ Relink(p)
        PROVE  CacheInv'
    <2>1. CASE Start(p)
      BY <2>1, StartPreserves
    <2>2. CASE StartListening(p) \/ Unlink(p) \/ Relink(p)
      BY <2>2, LinksPreserve
    <2>3. CASE Crash(p)
      BY <2>3, ExitPreserves DEF Crash
    <2>4. QED BY <1>4, <2>1, <2>2, <2>3
  <1>5. ASSUME NEW p \in Processes, NEW k \in Tasks,
               \/ Receive(p, k) \/ TaskStep(p, k) \/ ReadFails(p, k)
               \/ \E t \in Topics : GetActive(p, k, t)
               \/ \E t \in Topics, c \in Callbacks : Gone(p, k, t, c)
        PROVE  CacheInv'
    <2>1. CASE Receive(p, k)
      BY <2>1, ReceivePreserves
    <2>2. CASE Check(p, k)
      BY <2>2, CheckPreserves
    <2>3. CASE Read(p, k)
      BY <2>3, ReadPreserves
    <2>4. CASE Write(p, k)
      BY <2>4, WritePreserves
    <2>5. CASE RemoveCached(p, k)
      BY <2>5, RemoveCachedPreserves
    <2>6. CASE ReadFails(p, k)
      BY <2>6, ReadFailsPreserves
    <2>7. CASE \E t \in Topics : GetActive(p, k, t)
      BY <2>7, GetActivePreserves
    <2>8. CASE \E t \in Topics, c \in Callbacks : Gone(p, k, t, c)
      BY <2>8, GonePreserves
    <2>9. QED
      BY <1>5, <2>1, <2>2, <2>3, <2>4, <2>5, <2>6, <2>7, <2>8 DEF TaskStep
  <1>6. QED BY <1>1, <1>2, <1>3, <1>4, <1>5 DEF Next

LEMMA StaleIsExplained == CacheInv => StaleHasCause
  <1> SUFFICES ASSUME CacheInv, NEW p \in Processes, NEW t \in Topics,
                      NEW c \in Callbacks,
                      phase[p] \in {"loaded", "listening"},
                      ActiveOf(cache[p][t])[c] # ActiveOf(row[t])[c]
               PROVE  \/ Pending(p, t, c)
                      \/ <<t, c>> \in lost[p] \cup overtaken[p]
    BY DEF StaleHasCause
  <1>1. Shown(cache[p][t][c]) # Shown(row[t][c])
    BY ShownOfActive
  <1>2. Known(p, t, c) \/ <<t, c>> \in overtaken[p]
    BY <1>1 DEF CacheInv, StaleIsKnown
  <1>3. Told(p, t) \/ Working(p, t, c) => Pending(p, t, c)
    BY DEF Pending, Told, Working, Works
  <1>4. QED BY <1>2, <1>3 DEF Known

\* The invariant of the caches holds in every reachable state, whatever the
\* number of topics, callbacks, processes and tasks.
THEOREM CacheInvHolds == Spec => []CacheInv
  <1>1. QED BY InitCacheInv, NextPreserves, PTL DEF Spec

\* The variables keep their types: no publication is owed a negative number
\* of times and caches hold leases of the store.
THEOREM TypeOKHolds == Spec => []TypeOK
  <1>1. CacheInv => TypeOK
    BY DEF CacheInv
  <1>2. QED BY CacheInvHolds, <1>1, PTL

\* A delivery process that has loaded shows the active rows, unless an
\* invalidation or a task is about to correct it, it was never told, or an
\* older read was written after a newer one.
THEOREM StaleHasCauseHolds == Spec => []StaleHasCause
  <1>1. QED BY CacheInvHolds, StaleIsExplained, PTL
=============================================================================
