------------------------ MODULE TopicLifecycleProofs ------------------------
(* Proofs about TopicLifecycle, for every set of callbacks and threads,    *)
(* every deployment and every bound.                                       *)
EXTENDS TopicLifecycle, SequenceTheorems, TLAPS

\* Subscribe threads, and no others, reach the steps that write a lease, and
\* the lease they are about to write ends by MaxNow.
SubscribeSteps == {"lookup", "persist", "setTtl", "sadd", "delClaim",
                   "publishSubscribe"}
SubscriberSteps == SubscribeSteps \cup BeforeLease \cup {"idle", "done"}

LeasesFit == \A t \in Threads :
    /\ pc[t] \in SubscribeSteps => KindOf[t] = "subscribe"
    /\ KindOf[t] = "subscribe" => pc[t] \in SubscriberSteps
    /\ (KindOf[t] = "subscribe" /\ pc[t] \in BeforeLease) =>
           EndOfLease(t) \in Durations

TypeInv == TypeOK /\ LeasesFit

LEMMA RowsReadType ==
    ASSUME TypeOK PROVE RowsRead \in [Callbacks -> Durations]
  BY BoundsAssumption DEF TypeOK, RowsRead, Durations

LEMMA ZeroType == 0 \in Durations
  BY BoundsAssumption DEF Durations

LEMMA NoRowsType == NoRows \in [Callbacks -> Durations]
  BY ZeroType DEF NoRows

LEMMA EndType ==
    ASSUME NEW t \in Threads
    PROVE  /\ End(t) \in {"idle", "done"}
           /\ AfterMaybeUnsubscribe(t) \in {"idle", "done", "publishReload"}
  BY DEF End, AfterMaybeUnsubscribe

LEMMA ProcessType ==
    ASSUME NEW t \in Threads PROVE Process(t) \in Processes
  BY ThreadsAssumption DEF Process

LEMMA CompactType ==
    ASSUME TypeOK, NEW p \in Processes, Compact(p)
    PROVE  /\ cache' \in [Processes -> [Callbacks -> Durations]]
           /\ emptied' \in Nat
  BY BoundsAssumption DEF TypeOK, Compact, Durations

\* A thread's step leads to a step, and leaves the other threads alone.
LEMMA GoToType ==
    ASSUME TypeOK, NEW t \in Threads, NEW step \in Steps, GoTo(t, step)
    PROVE  /\ pc' \in [Threads -> Steps]
           /\ pc'[t] = step
           /\ \A u \in Threads \ {t} : pc'[u] = pc[u]
  BY DEF TypeOK, GoTo

\* TypeOK, and every lease a request is about to set ends by MaxNow.
THEOREM TypeCorrect == Spec => []TypeInv
  <1> USE DEF TypeInv
  <1>1. Init => TypeInv
    <2> SUFFICES ASSUME Init PROVE TypeInv
      OBVIOUS
    <2>1. 1 \in 1..(MaxNow + 1) /\ 0 \in 0..MaxAborts
      BY BoundsAssumption
    <2>2. <<>> \in Seq({"subscribe", "unsubscribe"})
      OBVIOUS
    <2>3. pc \in [Threads -> Steps]
      BY DEF Init, Steps
    <2>4. /\ now \in 1..(MaxNow + 1) /\ row \in [Callbacks -> Durations]
          /\ ttl \in Durations /\ inSet \in BOOLEAN /\ claim \in BOOLEAN
          /\ cache \in [Processes -> [Callbacks -> Durations]]
          /\ refreshes \in Nat /\ emptied \in Nat /\ broker \in BOOLEAN
          /\ cmds \in Seq({"subscribe", "unsubscribe"})
      BY <2>1, <2>2, ZeroType, NoRowsType DEF Init
    <2>5. /\ who \in [Threads -> Callbacks] /\ lease \in [Threads -> Leases \cup {0}]
          /\ found \in [Threads -> BOOLEAN]
          /\ snap \in [Threads -> [Callbacks -> Durations]]
          /\ aborts \in 0..MaxAborts
      BY <2>1, NoRowsType DEF Init
    <2>6. /\ intent \in [Threads -> {"none", "confirmed", "mismatch"}]
          /\ fresh \in [Threads -> SUBSET Callbacks]
          /\ announced \in SUBSET Callbacks /\ straddled \in BOOLEAN
      BY DEF Init
    <2>7. TypeOK
      BY <2>3, <2>4, <2>5, <2>6 DEF TypeOK
    <2>8. LeasesFit
      BY DEF Init, LeasesFit, SubscribeSteps, SubscriberSteps, BeforeLease
    <2>9. QED BY <2>7, <2>8
  <1>2. TypeInv /\ [Next]_vars => TypeInv'
    <2> SUFFICES ASSUME TypeInv, [Next]_vars PROVE TypeInv'
      OBVIOUS
    <2>1. ASSUME NEW t \in Threads, Lookup(t) PROVE TypeInv'
      <3>1. GoTo(t, "persist") /\ "persist" \in Steps
        BY <2>1 DEF Lookup, Steps, UnsubscribePath
      <3>2. TypeOK'
        BY <2>1, <3>1, GoToType DEF Lookup, TypeOK, redisVars, channelVars,
            requestVars, history
      <3>3. LeasesFit'
        BY <2>1, <3>1, GoToType DEF Lookup, TypeOK, LeasesFit, SubscribeSteps,
           SubscriberSteps, BeforeLease, EndOfLease, redisVars, channelVars,
           requestVars, history
      <3>4. QED BY <3>2, <3>3
    <2>2. ASSUME NEW t \in Threads, Persist(t) PROVE TypeInv'
      <3>1. GoTo(t, "refreshRead") /\ "refreshRead" \in Steps
        BY <2>2 DEF Persist, Steps
      <3>2. EndOfLease(t) \in Durations
        BY <2>2 DEF LeasesFit, SubscribeSteps, SubscriberSteps, BeforeLease,
           Persist
      <3>3. row' \in [Callbacks -> Durations]
        BY <2>2, <3>2 DEF Persist, TypeOK
      <3>4. fresh' \in [Threads -> SUBSET Callbacks]
            /\ announced' \in SUBSET Callbacks
        <4>1. who[t] \in Callbacks
          BY DEF TypeOK
        <4>2. CASE found[t] /\ row[who[t]] = 0
          BY <2>2, <4>2 DEF Persist, TypeOK
        <4>3. CASE ~(found[t] /\ row[who[t]] = 0)
          <5>1. /\ fresh' = [u \in Threads |->
                       IF pc[u] \in UnsubscribePath THEN fresh[u] \cup {who[t]}
                                                    ELSE fresh[u]]
                /\ announced' = announced \ {who[t]}
            BY <2>2, <4>3 DEF Persist
          <5>2. \A u \in Threads : fresh[u] \cup {who[t]} \in SUBSET Callbacks
            BY <4>1 DEF TypeOK
          <5>3. QED BY <5>1, <5>2 DEF TypeOK
        <4>4. QED BY <4>2, <4>3
      <3>5. TypeOK'
        BY <2>2, <3>1, <3>3, <3>4, GoToType DEF Persist, TypeOK, redisVars,
           channelVars, requestVars, history
      <3>6. LeasesFit'
        BY <2>2, <3>1, GoToType DEF Persist, TypeOK, LeasesFit,
           SubscribeSteps, SubscriberSteps, BeforeLease, EndOfLease,
           redisVars, channelVars, requestVars, history
      <3>7. QED BY <3>5, <3>6
    <2>3. ASSUME NEW t \in Threads, DeleteRow(t) PROVE TypeInv'
      <3>1. PICK step \in Steps : GoTo(t, step) /\ step \in {"remove",
          "refreshRead"}
        BY <2>3 DEF DeleteRow, Steps, UnsubscribePath
      <3>2. TypeOK'
        BY <2>3, <3>1, GoToType, ZeroType DEF DeleteRow, TypeOK, redisVars,
           channelVars, requestVars, history
      <3>3. LeasesFit'
        BY <2>3, <3>1, GoToType DEF DeleteRow, TypeOK, LeasesFit,
           SubscribeSteps, SubscriberSteps, BeforeLease, EndOfLease,
           redisVars, channelVars, requestVars, history
      <3>4. QED BY <3>2, <3>3
    <2>4. ASSUME NEW t \in Threads, NumSubscriptions(t) PROVE TypeInv'
      <3>1. PICK step \in Steps : GoTo(t, step) /\ step \in {"getActive",
          "idle", "done", "publishReload"}
        BY <2>4, EndType DEF NumSubscriptions, Steps, UnsubscribePath
      <3>2. TypeOK'
        BY <2>4, <3>1, GoToType DEF NumSubscriptions, TypeOK, redisVars,
            channelVars, requestVars, history
      <3>3. LeasesFit'
        BY <2>4, <3>1, GoToType DEF NumSubscriptions, TypeOK, LeasesFit,
           SubscribeSteps, SubscriberSteps, BeforeLease, EndOfLease,
           redisVars, channelVars, requestVars, history
      <3>4. QED BY <3>2, <3>3
    <2>5. ASSUME NEW t \in Threads, RefreshRead(t) PROVE TypeInv'
      <3>1. PICK step \in Steps :
                /\ GoTo(t, step)
                /\ \/ pc[t] = "refreshRead" /\ step = "refreshWrite"
                   \/ pc[t] = "againRead" /\ step = "againWrite"
        BY <2>5 DEF RefreshRead, Steps, UnsubscribePath
      <3>2. TypeOK'
        BY <2>5, <3>1, GoToType, RowsReadType DEF RefreshRead, TypeOK,
            redisVars, channelVars, requestVars, history
      <3>3. LeasesFit'
        BY <2>5, <3>1, GoToType DEF RefreshRead, TypeOK, LeasesFit,
           SubscribeSteps, SubscriberSteps, BeforeLease, EndOfLease,
           redisVars, channelVars, requestVars, history
      <3>4. QED BY <3>2, <3>3
    <2>6. ASSUME NEW t \in Threads, RefreshWrite(t) PROVE TypeInv'
      <3>1. PICK step \in Steps :
                /\ GoTo(t, step)
                /\ \/ pc[t] = "refreshWrite" /\ step = "publishRefresh"
                   \/ /\ pc[t] = "againWrite"
                      /\ step \in {"idle", "done", "publishReload"}
        BY <2>6, EndType DEF RefreshWrite, Steps, UnsubscribePath
      <3>0. /\ cache' \in [Processes -> [Callbacks -> Durations]]
            /\ snap' \in [Threads -> [Callbacks -> Durations]]
        BY <2>6, ProcessType, NoRowsType DEF RefreshWrite, TypeOK
      <3>2. TypeOK'
        BY <2>6, <3>1, <3>0, GoToType DEF RefreshWrite, TypeOK,
            redisVars, channelVars, requestVars, history
      <3>3. LeasesFit'
        BY <2>6, <3>1, GoToType DEF RefreshWrite, TypeOK, LeasesFit,
           SubscribeSteps, SubscriberSteps, BeforeLease, EndOfLease,
           redisVars, channelVars, requestVars, history
      <3>4. QED BY <3>2, <3>3
    <2>7. ASSUME NEW t \in Threads, RemoveCached(t) PROVE TypeInv'
      <3>1. GoTo(t, "getActive") /\ "getActive" \in Steps
        BY <2>7 DEF RemoveCached, Steps, UnsubscribePath
      <3>2. TypeOK'
        BY <2>7, <3>1, GoToType, ProcessType, ZeroType DEF RemoveCached,
            TypeOK, redisVars, channelVars, requestVars, history
      <3>3. LeasesFit'
        BY <2>7, <3>1, GoToType DEF RemoveCached, TypeOK, LeasesFit,
           SubscribeSteps, SubscriberSteps, BeforeLease, EndOfLease,
           redisVars, channelVars, requestVars, history
      <3>4. QED BY <3>2, <3>3
    <2>8. ASSUME NEW t \in Threads, PublishInvalidation(t) PROVE TypeInv'
      <3>1. PICK step \in Steps :
                /\ GoTo(t, step)
                /\ \/ pc[t] = "publishReload" /\ step = "done"
                   \/ KindOf[t] = "subscribe" /\ step = "setTtl"
                   \/ KindOf[t] # "subscribe" /\ step = "numSubscriptions"
        BY <2>8 DEF PublishInvalidation, Steps, UnsubscribePath
      <3>2. TypeOK'
        BY <2>8, <3>1, GoToType DEF PublishInvalidation, TypeOK, redisVars,
            channelVars, requestVars, history
      <3>3. LeasesFit'
        BY <2>8, <3>1, GoToType DEF PublishInvalidation, TypeOK, LeasesFit,
           SubscribeSteps, SubscriberSteps, BeforeLease, EndOfLease,
           redisVars, channelVars, requestVars, history
      <3>4. QED BY <3>2, <3>3
    <2>9. ASSUME NEW t \in Threads, SetTtl(t) PROVE TypeInv'
      <3>1. GoTo(t, "sadd") /\ "sadd" \in Steps
        BY <2>9 DEF SetTtl, Steps, UnsubscribePath
      <3>0. EndOfLease(t) \in Durations
        BY <2>9 DEF SetTtl, LeasesFit, SubscribeSteps, SubscriberSteps,
           BeforeLease
      <3>2. TypeOK'
        BY <2>9, <3>1, <3>0, GoToType DEF SetTtl, TypeOK, redisVars,
            channelVars, requestVars, history
      <3>3. LeasesFit'
        BY <2>9, <3>1, GoToType DEF SetTtl, TypeOK, LeasesFit, SubscribeSteps,
           SubscriberSteps, BeforeLease, EndOfLease, redisVars, channelVars,
           requestVars, history
      <3>4. QED BY <3>2, <3>3
    <2>10. ASSUME NEW t \in Threads, Sadd(t) PROVE TypeInv'
      <3>1. GoTo(t, "delClaim") /\ "delClaim" \in Steps
        BY <2>10 DEF Sadd, Steps, UnsubscribePath
      <3>2. TypeOK'
        BY <2>10, <3>1, GoToType DEF Sadd, TypeOK, redisVars, channelVars,
            requestVars, history
      <3>3. LeasesFit'
        BY <2>10, <3>1, GoToType DEF Sadd, TypeOK, LeasesFit, SubscribeSteps,
           SubscriberSteps, BeforeLease, EndOfLease, redisVars, channelVars,
           requestVars, history
      <3>4. QED BY <3>2, <3>3
    <2>11. ASSUME NEW t \in Threads, DelClaim(t) PROVE TypeInv'
      <3>1. GoTo(t, "publishSubscribe") /\ "publishSubscribe" \in Steps
        BY <2>11 DEF DelClaim, Steps, UnsubscribePath
      <3>2. TypeOK'
        BY <2>11, <3>1, GoToType DEF DelClaim, TypeOK, redisVars, channelVars,
            requestVars, history
      <3>3. LeasesFit'
        BY <2>11, <3>1, GoToType DEF DelClaim, TypeOK, LeasesFit,
           SubscribeSteps, SubscriberSteps, BeforeLease, EndOfLease,
           redisVars, channelVars, requestVars, history
      <3>4. QED BY <3>2, <3>3
    <2>12. ASSUME NEW t \in Threads, PublishSubscribe(t) PROVE TypeInv'
      <3>1. GoTo(t, "done") /\ "done" \in Steps
        BY <2>12 DEF PublishSubscribe, Steps, UnsubscribePath
      <3>2. TypeOK'
        BY <2>12, <3>1, GoToType DEF PublishSubscribe, TypeOK, redisVars,
            channelVars, requestVars, history
      <3>3. LeasesFit'
        BY <2>12, <3>1, GoToType DEF PublishSubscribe, TypeOK, LeasesFit,
           SubscribeSteps, SubscriberSteps, BeforeLease, EndOfLease,
           redisVars, channelVars, requestVars, history
      <3>4. QED BY <3>2, <3>3
    <2>13. ASSUME NEW t \in Threads, MaybeGetActive(t) PROVE TypeInv'
      <3>1. PICK step \in Steps : GoTo(t, step) /\ step \in
          {"getSubscriptions", "idle", "done", "publishReload"}
        BY <2>13, EndType DEF MaybeGetActive, Steps, UnsubscribePath
      <3>2. TypeOK'
        BY <2>13, <3>1, GoToType, ProcessType, CompactType DEF MaybeGetActive,
            TypeOK, redisVars, channelVars, requestVars, history
      <3>3. LeasesFit'
        BY <2>13, <3>1, GoToType DEF MaybeGetActive, TypeOK, LeasesFit,
           SubscribeSteps, SubscriberSteps, BeforeLease, EndOfLease,
           redisVars, channelVars, requestVars, history
      <3>4. QED BY <3>2, <3>3
    <2>14. ASSUME NEW t \in Threads, GetSubscriptions(t) PROVE TypeInv'
      <3>1. PICK step \in Steps : GoTo(t, step) /\ step \in {"tryClaim",
          "againRead"}
        BY <2>14 DEF GetSubscriptions, Steps, UnsubscribePath
      <3>2. TypeOK'
        BY <2>14, <3>1, GoToType DEF GetSubscriptions, TypeOK, redisVars,
            channelVars, requestVars, history
      <3>3. LeasesFit'
        BY <2>14, <3>1, GoToType DEF GetSubscriptions, TypeOK, LeasesFit,
           SubscribeSteps, SubscriberSteps, BeforeLease, EndOfLease,
           redisVars, channelVars, requestVars, history
      <3>4. QED BY <3>2, <3>3
    <2>15. ASSUME NEW t \in Threads, TryClaim(t) PROVE TypeInv'
      <3>1. PICK step \in Steps : GoTo(t, step) /\ step \in {"delTtl", "idle",
          "done", "publishReload"}
        BY <2>15, EndType DEF TryClaim, Steps, UnsubscribePath
      <3>2. TypeOK'
        BY <2>15, <3>1, GoToType DEF TryClaim, TypeOK, redisVars, channelVars,
            requestVars, history
      <3>3. LeasesFit'
        BY <2>15, <3>1, GoToType DEF TryClaim, TypeOK, LeasesFit,
           SubscribeSteps, SubscriberSteps, BeforeLease, EndOfLease,
           redisVars, channelVars, requestVars, history
      <3>4. QED BY <3>2, <3>3
    <2>16. ASSUME NEW t \in Threads, DelTtl(t) PROVE TypeInv'
      <3>1. PICK step \in Steps : GoTo(t, step) /\ step \in {"srem",
          "inactiveSrem"}
        BY <2>16 DEF DelTtl, Steps, UnsubscribePath
      <3>2. TypeOK'
        BY <2>16, <3>1, GoToType, ZeroType DEF DelTtl, TypeOK, redisVars,
            channelVars, requestVars, history
      <3>3. LeasesFit'
        BY <2>16, <3>1, GoToType DEF DelTtl, TypeOK, LeasesFit,
           SubscribeSteps, SubscriberSteps, BeforeLease, EndOfLease,
           redisVars, channelVars, requestVars, history
      <3>4. QED BY <3>2, <3>3
    <2>17. ASSUME NEW t \in Threads, Srem(t) PROVE TypeInv'
      <3>1. PICK step \in Steps : GoTo(t, step) /\ step \in
          {"publishUnsubscribe", "getActive"}
        BY <2>17 DEF Srem, Steps, UnsubscribePath
      <3>2. TypeOK'
        BY <2>17, <3>1, GoToType DEF Srem, TypeOK, redisVars, channelVars,
            requestVars, history
      <3>3. LeasesFit'
        BY <2>17, <3>1, GoToType DEF Srem, TypeOK, LeasesFit, SubscribeSteps,
           SubscriberSteps, BeforeLease, EndOfLease, redisVars, channelVars,
           requestVars, history
      <3>4. QED BY <3>2, <3>3
    <2>18. ASSUME NEW t \in Threads, PublishUnsubscribe(t) PROVE TypeInv'
      <3>1. PICK step \in Steps : GoTo(t, step) /\ step \in {"idle", "done",
          "publishReload"}
        BY <2>18, EndType DEF PublishUnsubscribe, Steps, UnsubscribePath
      <3>2. TypeOK'
        BY <2>18, <3>1, GoToType DEF PublishUnsubscribe, TypeOK, redisVars,
            channelVars, requestVars, history
      <3>3. LeasesFit'
        BY <2>18, <3>1, GoToType DEF PublishUnsubscribe, TypeOK, LeasesFit,
           SubscribeSteps, SubscriberSteps, BeforeLease, EndOfLease,
           redisVars, channelVars, requestVars, history
      <3>4. QED BY <3>2, <3>3
    <2>19. ASSUME NEW t \in Threads, ValidateIntent(t) PROVE TypeInv'
      <3>1. PICK step \in Steps : GoTo(t, step) /\ step \in {"delete", "done"}
        BY <2>19 DEF ValidateIntent, Steps, UnsubscribePath
      <3>2. TypeOK'
        BY <2>19, <3>1, GoToType DEF ValidateIntent, TypeOK, redisVars,
            channelVars, requestVars, history
      <3>3. LeasesFit'
        BY <2>19, <3>1, GoToType DEF ValidateIntent, TypeOK, LeasesFit,
           SubscribeSteps, SubscriberSteps, BeforeLease, EndOfLease,
           redisVars, channelVars, requestVars, history
      <3>4. QED BY <3>2, <3>3
    <2>20. ASSUME NEW t \in Threads, SweepIsActive(t) PROVE TypeInv'
      <3>1. PICK step \in Steps : GoTo(t, step) /\ step \in {"idle",
          "getActive"}
        BY <2>20 DEF SweepIsActive, Steps, UnsubscribePath
      <3>2. TypeOK'
        BY <2>20, <3>1, GoToType DEF SweepIsActive, TypeOK, redisVars,
            channelVars, requestVars, history
      <3>3. LeasesFit'
        BY <2>20, <3>1, GoToType DEF SweepIsActive, TypeOK, LeasesFit,
           SubscribeSteps, SubscriberSteps, BeforeLease, EndOfLease,
           redisVars, channelVars, requestVars, history
      <3>4. QED BY <3>2, <3>3
    <2>21. ASSUME NEW t \in Threads, ReceiveInvalidation(t) PROVE TypeInv'
      <3>1. GoTo(t, "againWrite") /\ "againWrite" \in Steps
        BY <2>21 DEF ReceiveInvalidation, Steps, UnsubscribePath
      <3>2. TypeOK'
        BY <2>21, <3>1, GoToType, RowsReadType DEF ReceiveInvalidation, TypeOK,
            redisVars, channelVars, requestVars, history
      <3>3. LeasesFit'
        BY <2>21, <3>1, GoToType DEF ReceiveInvalidation, TypeOK, LeasesFit,
           SubscribeSteps, SubscriberSteps, BeforeLease, EndOfLease,
           redisVars, channelVars, requestVars, history
      <3>4. QED BY <3>2, <3>3
    <2>22. ASSUME NEW t \in Threads, StartInactive(t) PROVE TypeInv'
      <3>1. GoTo(t, "inactiveDel") /\ "inactiveDel" \in Steps
        BY <2>22 DEF StartInactive, Steps, UnsubscribePath
      <3>2. TypeOK'
        BY <2>22, <3>1, GoToType DEF StartInactive, TypeOK, redisVars,
            channelVars, requestVars, history
      <3>3. LeasesFit'
        BY <2>22, <3>1, GoToType DEF StartInactive, TypeOK, LeasesFit,
           SubscribeSteps, SubscriberSteps, BeforeLease, EndOfLease,
           redisVars, channelVars, requestVars, history
      <3>4. QED BY <3>2, <3>3
    <2>23. ASSUME NEW t \in Threads, SweepList(t) PROVE TypeInv'
      <3>1. GoTo(t, "isActive") /\ "isActive" \in Steps
        BY <2>23 DEF SweepList, Steps, UnsubscribePath
      <3>2. TypeOK'
        BY <2>23, <3>1, GoToType DEF SweepList, TypeOK, redisVars, channelVars,
            requestVars, history
      <3>3. LeasesFit'
        BY <2>23, <3>1, GoToType DEF SweepList, TypeOK, LeasesFit,
           SubscribeSteps, SubscriberSteps, BeforeLease, EndOfLease,
           redisVars, channelVars, requestVars, history
      <3>4. QED BY <3>2, <3>3
    <2>24. ASSUME NEW t \in Threads, StartSubscribe(t) PROVE TypeInv'
      <3>1. GoTo(t, "lookup") /\ "lookup" \in Steps
        BY <2>24 DEF StartSubscribe, Steps, UnsubscribePath
      <3>2. TypeOK'
        BY <2>24, <3>1, GoToType DEF StartSubscribe, TypeOK, redisVars,
            channelVars, requestVars, history
      <3>3. LeasesFit'
        BY <2>24, <3>1, GoToType, BoundsAssumption DEF StartSubscribe, TypeOK,
           LeasesFit, SubscribeSteps, SubscriberSteps, BeforeLease,
           EndOfLease, redisVars, channelVars, requestVars, history, Durations
      <3>4. QED BY <3>2, <3>3
    <2>25. ASSUME NEW t \in Threads, StartUnsubscribe(t) PROVE TypeInv'
      <3>1. GoTo(t, "validate") /\ "validate" \in Steps
        BY <2>25 DEF StartUnsubscribe, Steps, UnsubscribePath
      <3>2. TypeOK'
        BY <2>25, <3>1, GoToType DEF StartUnsubscribe, TypeOK, redisVars,
            channelVars, requestVars, history
      <3>3. LeasesFit'
        BY <2>25, <3>1, GoToType DEF StartUnsubscribe, TypeOK, LeasesFit,
           SubscribeSteps, SubscriberSteps, BeforeLease, EndOfLease,
           redisVars, channelVars, requestVars, history
      <3>4. QED BY <3>2, <3>3
    <2>26. ASSUME NEW t \in Threads, StartGone(t) PROVE TypeInv'
      <3>1. GoTo(t, "delete") /\ "delete" \in Steps
        BY <2>26 DEF StartGone, Steps, UnsubscribePath
      <3>2. TypeOK'
        BY <2>26, <3>1, GoToType DEF StartGone, ActiveIn, TypeOK, redisVars,
           channelVars, requestVars, history
      <3>3. LeasesFit'
        BY <2>26, <3>1, GoToType DEF StartGone, TypeOK, LeasesFit,
           SubscribeSteps, SubscriberSteps, BeforeLease, EndOfLease,
           redisVars, channelVars, requestVars, history
      <3>4. QED BY <3>2, <3>3
    <2>27. ASSUME NEW t \in Threads, JobGetActive(t) PROVE TypeInv'
      <3>1. CASE ActiveIn(Process(t)) = {}
        <4>1. GoTo(t, "getActive") /\ "getActive" \in Steps
          BY <2>27, <3>1 DEF JobGetActive, Steps
        <4>2. TypeOK'
          BY <2>27, <4>1, GoToType, ProcessType, CompactType DEF JobGetActive,
             TypeOK, redisVars, channelVars, requestVars, history
        <4>3. LeasesFit'
          BY <2>27, <4>1, GoToType DEF JobGetActive, TypeOK, LeasesFit,
             SubscribeSteps, SubscriberSteps, BeforeLease, EndOfLease,
             redisVars, channelVars, requestVars, history
        <4>4. QED BY <4>2, <4>3
      <3>2. CASE ActiveIn(Process(t)) # {}
        <4>1. TypeOK'
          BY <2>27, <3>2, ProcessType, CompactType DEF JobGetActive, TypeOK,
             redisVars, channelVars, requestVars, history
        <4>2. LeasesFit'
          BY <2>27, <3>2 DEF JobGetActive, LeasesFit, EndOfLease, redisVars,
             channelVars, requestVars, history
        <4>3. QED BY <4>1, <4>2
      <3>3. QED BY <3>1, <3>2
    <2>28. ASSUME NEW t \in Threads, StartCleanup(t) PROVE TypeInv'
      <3>1. GoTo(t, "numSubscriptions") /\ "numSubscriptions" \in Steps
        BY <2>28 DEF StartCleanup, Steps, UnsubscribePath
      <3>2. TypeOK'
        BY <2>28, <3>1, GoToType, RowsReadType DEF StartCleanup, TypeOK,
            redisVars, channelVars, requestVars, history
      <3>3. LeasesFit'
        BY <2>28, <3>1, GoToType DEF StartCleanup, TypeOK, LeasesFit,
           SubscribeSteps, SubscriberSteps, BeforeLease, EndOfLease,
           redisVars, channelVars, requestVars, history
      <3>4. QED BY <3>2, <3>3
    <2>29. ASSUME NEW t \in Threads, Abort(t) PROVE TypeInv'
      <3>1. PICK step \in Steps : GoTo(t, step) /\ step \in {"idle", "done"}
        BY <2>29, EndType DEF Abort, Steps, UnsubscribePath
      <3>2. TypeOK'
        BY <2>29, <3>1, GoToType, NoRowsType, BoundsAssumption DEF Abort,
           TypeOK, redisVars, channelVars, requestVars, history
      <3>3. LeasesFit'
        BY <2>29, <3>1, GoToType DEF Abort, TypeOK, LeasesFit, SubscribeSteps,
           SubscriberSteps, BeforeLease, EndOfLease, redisVars, channelVars,
           requestVars, history
      <3>4. QED BY <3>2, <3>3
    <2>30. CASE ApplyCommand
      BY <2>30 DEF ApplyCommand, TypeOK, LeasesFit, EndOfLease, redisVars,
         threadVars, requestVars, history
    <2>31. CASE ClaimExpires
      BY <2>31 DEF ClaimExpires, TypeOK, LeasesFit, EndOfLease, channelVars,
         threadVars, requestVars, history
    <2>32. CASE Tick
      <3>1. TypeOK'
        BY <2>32, BoundsAssumption DEF Tick, TypeOK, redisVars, channelVars,
           threadVars, requestVars, history
      <3>2. ASSUME NEW t \in Threads, KindOf[t] = "subscribe",
                   pc[t] \in BeforeLease
            PROVE  EndOfLease(t)' \in Durations
        <4>0. now \in 1..(MaxNow + 1) /\ lease[t] \in Leases \cup {0}
          BY DEF TypeOK
        <4>a. MaxNow \in Nat /\ Leases \subseteq Nat
          BY BoundsAssumption
        <4>b. lease[t] \in Nat
          <5>1. CASE lease[t] = 0
            BY <5>1
          <5>2. CASE lease[t] \in Leases
            BY <5>2, <4>a, Zenon
          <5>3. QED BY <4>0, <5>1, <5>2
        <4>c. now \in Nat
          BY <4>0, <4>a
        <4>1. now \in Nat /\ lease[t] \in Nat /\ MaxNow \in Nat
          BY <4>a, <4>b, <4>c
        <4>2. now + lease[t] < MaxNow
          BY <2>32, <3>2 DEF Tick, RoomForLeases, EndOfLease
        <4>3. EndOfLease(t)' = now + 1 + lease[t]
          BY <2>32 DEF Tick, EndOfLease, threadVars, requestVars
        <4>4. QED BY <4>1, <4>2, <4>3 DEF Durations
      <3>4. LeasesFit'
        BY <2>32, <3>2 DEF Tick, LeasesFit, threadVars
      <3>5. QED BY <3>1, <3>4
    <2>33. CASE UNCHANGED vars
      BY <2>33 DEF vars, TypeOK, LeasesFit, EndOfLease, redisVars, channelVars,
         threadVars, requestVars, history
    <2>34. QED BY <2>1, <2>2, <2>3, <2>4, <2>5, <2>6, <2>7, <2>8, <2>9, <2>10,
        <2>11, <2>12, <2>13, <2>14, <2>15, <2>16, <2>17, <2>18, <2>19, <2>20,
        <2>21, <2>22, <2>23, <2>24, <2>25, <2>26, <2>27, <2>28, <2>29, <2>30,
        <2>31, <2>32, <2>33 DEF Next, Continue, HubStarts, OutsideStarts
  <1>3. QED BY <1>1, <1>2, PTL DEF Spec

\* Every variable keeps its type: among others, no row and no cache entry
\* outlives the longest lease anybody asked for, and no step is unknown.
THEOREM TypeOKHolds == Spec => []TypeOK
  <1>1. TypeInv => TypeOK
    BY DEF TypeInv
  <1>2. QED BY <1>1, TypeCorrect, PTL
-----------------------------------------------------------------------------
SafeInv == NeverUnderSubscriber /\ AnnouncedIsSubscribed

LEMMA SameRows ==
    ASSUME row' = row, now' = now PROVE ActiveRows' = ActiveRows
  BY DEF ActiveRows, IsActive

LEMMA SameHeading ==
    ASSUME cmds' = cmds, broker' = broker PROVE Heading' = Heading
  BY DEF Heading

\* What most steps have in common: subscriptions at most end, no thread enters
\* the unsubscribe path, those on it keep what they know, and the broker
\* subscription keeps its heading.
LEMMA Steady ==
    ASSUME SafeInv,
           ActiveRows' \subseteq ActiveRows,
           \A u \in Threads : pc'[u] \in UnsubscribePath =>
               pc[u] \in UnsubscribePath /\ fresh'[u] = fresh[u],
           announced' = announced, straddled' = straddled,
           Heading' = Heading
    PROVE  SafeInv'
  <1>1. NeverUnderSubscriber'
    BY DEF SafeInv, NeverUnderSubscriber
  <1>2. AnnouncedIsSubscribed'
    BY DEF SafeInv, AnnouncedIsSubscribed
  <1>3. QED BY <1>1, <1>2 DEF SafeInv

\* Rows only leave: by their deletion, their expiry or the clock.
LEMMA RowsOnlyLeave ==
    ASSUME TypeOK,
           \/ now' = now /\ \E c \in Callbacks : row' = [row EXCEPT ![c] = 0]
           \/ now' = now /\ row' = RowsRead
           \/ now' = now + 1 /\ row' = row
    PROVE  ActiveRows' \subseteq ActiveRows
  <1>1. row \in [Callbacks -> Durations]
    BY DEF TypeOK
  <1>2. now \in Int /\ Durations \subseteq Int
    BY BoundsAssumption DEF TypeOK, Durations
  <1>3. CASE now' = now /\ \E c \in Callbacks : row' = [row EXCEPT ![c] = 0]
    BY <1>1, <1>3 DEF ActiveRows, IsActive
  <1>4. CASE now' = now /\ row' = RowsRead
    BY <1>4 DEF RowsRead, ActiveRows, IsActive
  <1>5. CASE now' = now + 1 /\ row' = row
    <2> SUFFICES ASSUME NEW c \in Callbacks, IsActive(row[c])'
                 PROVE  IsActive(row[c])
      BY DEF ActiveRows
    <2>1. row[c] \in Int
      BY <1>1, <1>2
    <2>2. row[c] # 0 /\ now + 1 <= row[c]
      BY <1>5 DEF IsActive
    <2>3. QED BY <1>2, <2>1, <2>2 DEF IsActive
  <1>6. QED BY <1>3, <1>4, <1>5

\* The last command of a queue that grows is the new one; it stays when the
\* first one is taken.
LEMMA LastCommand ==
    ASSUME NEW S, NEW q \in Seq(S)
    PROVE  /\ \A s \in S : Append(q, s) # <<>>
                           /\ Append(q, s)[Len(Append(q, s))] = s
           /\ q # <<>> /\ Tail(q) # <<>> => Tail(q)[Len(Tail(q))] = q[Len(q)]
           /\ q # <<>> /\ Tail(q) = <<>> => q[Len(q)] = Head(q)
  <1>1. \A s \in S : Append(q, s) # <<>>
                     /\ Append(q, s)[Len(Append(q, s))] = s
    BY AppendProperties
  <1>2. CASE q = <<>>
    BY <1>1, <1>2
  <1>3. CASE q # <<>>
    <2>1. /\ Head(q) = q[1]
          /\ Tail(q) \in Seq(S)
          /\ Len(Tail(q)) = Len(q) - 1
          /\ \A i \in 1..Len(Tail(q)) : Tail(q)[i] = q[i + 1]
      BY <1>3, HeadTailProperties
    <2>2. Len(q) \in Nat /\ Len(Tail(q)) \in Nat
      BY <2>1, LenProperties
    <2>3. CASE Tail(q) = <<>>
      <3>0. Len(<<>>) = 0
        BY EmptySeq
      <3>1. Len(Tail(q)) = 0
        BY <2>3, <3>0, Zenon
      <3>3. Len(Tail(q)) = Len(q) - 1
        BY <2>1
      <3>4. Len(q) = 1
        BY <2>2, <3>1, <3>3
      <3>2. QED BY <1>1, <2>1, <2>3, <3>4
    <2>4. CASE Tail(q) # <<>>
      <3>1. Len(Tail(q)) \in 1..Len(Tail(q))
        BY <2>1, <2>2, <2>4, EmptySeq
      <3>2. Tail(q)[Len(Tail(q))] = q[Len(q)]
        BY <2>1, <2>2, <3>1
      <3>3. QED BY <1>1, <2>4, <3>2
    <2>5. QED BY <2>3, <2>4
  <1>4. QED BY <1>2, <1>3

\* A step after which no thread is on the unsubscribe path that was not.
LEMMA PathOnlyShrinks ==
    ASSUME TypeOK, NEW t \in Threads, NEW step \in Steps, GoTo(t, step),
           step \in UnsubscribePath => pc[t] \in UnsubscribePath
    PROVE  \A u \in Threads : pc'[u] \in UnsubscribePath => pc[u] \in UnsubscribePath
  BY GoToType

\* A step that touches nothing the two invariants speak of.
LEMMA Unrelated ==
    ASSUME SafeInv, row' = row, now' = now, cmds' = cmds, broker' = broker,
           announced' = announced, straddled' = straddled, fresh' = fresh,
           \A u \in Threads : pc'[u] \in UnsubscribePath => pc[u] \in UnsubscribePath
    PROVE  SafeInv'
  BY Steady, SameRows, SameHeading

\* Neither invariant is broken by any interleaving: no UNSUBSCRIBE from under
\* a subscriber the thread could have seen, and an announced active
\* subscription keeps its topic subscribed.
THEOREM SafetyCorrect == Spec => []SafeInv
  <1>1. Init => SafeInv
    BY DEF Init, SafeInv, NeverUnderSubscriber, AnnouncedIsSubscribed,
       UnsubscribePath
  <1>2. TypeInv /\ SafeInv /\ [Next]_vars => SafeInv'
    <2> SUFFICES ASSUME TypeInv, SafeInv, [Next]_vars PROVE SafeInv'
      OBVIOUS
    <2>0. TypeOK
      BY DEF TypeInv
    <2>1. ASSUME NEW t \in Threads, Lookup(t) PROVE SafeInv'
      <3>1. PICK step \in Steps :
                /\ GoTo(t, step)
                /\ step \in {"persist"}
        BY <2>1 DEF Lookup, Steps, UnsubscribePath
      <3>2. step \in UnsubscribePath => pc[t] \in UnsubscribePath
        BY <3>1 DEF UnsubscribePath
      <3>3. QED BY <2>0, <2>1, <3>1, <3>2, PathOnlyShrinks, Unrelated
              DEF Lookup, Compact, channelVars, history
    <2>2. ASSUME NEW t \in Threads, NumSubscriptions(t) PROVE SafeInv'
      <3>1. PICK step \in Steps :
                /\ GoTo(t, step)
                /\ step \in {"getActive", "idle", "done", "publishReload"}
        BY <2>2, EndType DEF NumSubscriptions, Steps, UnsubscribePath
      <3>2. step \in UnsubscribePath => pc[t] \in UnsubscribePath
        BY <3>1 DEF UnsubscribePath
      <3>3. QED BY <2>0, <2>2, <3>1, <3>2, PathOnlyShrinks, Unrelated
              DEF NumSubscriptions, Compact, channelVars, history
    <2>3. ASSUME NEW t \in Threads, RefreshRead(t) PROVE SafeInv'
      <3>1. PICK step \in Steps :
                /\ GoTo(t, step)
                /\ step \in {"refreshWrite", "againWrite"}
        BY <2>3 DEF RefreshRead, Steps, UnsubscribePath
      <3>2. step \in UnsubscribePath => pc[t] \in UnsubscribePath
        BY <3>1 DEF UnsubscribePath
      <3>3. QED BY <2>0, <2>3, <3>1, <3>2, PathOnlyShrinks, Unrelated
              DEF RefreshRead, Compact, channelVars, history
    <2>4. ASSUME NEW t \in Threads, RefreshWrite(t) PROVE SafeInv'
      <3>1. PICK step \in Steps :
                /\ GoTo(t, step)
                /\ step \in {"publishRefresh", "idle", "done", "publishReload"}
        BY <2>4, EndType DEF RefreshWrite, Steps, UnsubscribePath
      <3>2. step \in UnsubscribePath => pc[t] \in UnsubscribePath
        BY <3>1 DEF UnsubscribePath
      <3>3. QED BY <2>0, <2>4, <3>1, <3>2, PathOnlyShrinks, Unrelated
              DEF RefreshWrite, Compact, channelVars, history
    <2>5. ASSUME NEW t \in Threads, RemoveCached(t) PROVE SafeInv'
      <3>1. PICK step \in Steps :
                /\ GoTo(t, step)
                /\ step \in {"getActive"}
        BY <2>5 DEF RemoveCached, Steps, UnsubscribePath
      <3>2. step \in UnsubscribePath => pc[t] \in UnsubscribePath
        BY <3>1 DEF UnsubscribePath
      <3>3. QED BY <2>0, <2>5, <3>1, <3>2, PathOnlyShrinks, Unrelated
              DEF RemoveCached, Compact, channelVars, history
    <2>6. ASSUME NEW t \in Threads, PublishInvalidation(t) PROVE SafeInv'
      <3>1. PICK step \in Steps :
                /\ GoTo(t, step)
                /\ step \in {"done", "setTtl", "numSubscriptions"}
        BY <2>6 DEF PublishInvalidation, Steps, UnsubscribePath
      <3>2. step \in UnsubscribePath => pc[t] \in UnsubscribePath
        BY <3>1 DEF UnsubscribePath
      <3>3. QED BY <2>0, <2>6, <3>1, <3>2, PathOnlyShrinks, Unrelated
              DEF PublishInvalidation, Compact, channelVars, history
    <2>7. ASSUME NEW t \in Threads, SetTtl(t) PROVE SafeInv'
      <3>1. PICK step \in Steps :
                /\ GoTo(t, step)
                /\ step \in {"sadd"}
        BY <2>7 DEF SetTtl, Steps, UnsubscribePath
      <3>2. step \in UnsubscribePath => pc[t] \in UnsubscribePath
        BY <3>1 DEF UnsubscribePath
      <3>3. QED BY <2>0, <2>7, <3>1, <3>2, PathOnlyShrinks, Unrelated
              DEF SetTtl, Compact, channelVars, history
    <2>8. ASSUME NEW t \in Threads, Sadd(t) PROVE SafeInv'
      <3>1. PICK step \in Steps :
                /\ GoTo(t, step)
                /\ step \in {"delClaim"}
        BY <2>8 DEF Sadd, Steps, UnsubscribePath
      <3>2. step \in UnsubscribePath => pc[t] \in UnsubscribePath
        BY <3>1 DEF UnsubscribePath
      <3>3. QED BY <2>0, <2>8, <3>1, <3>2, PathOnlyShrinks, Unrelated
              DEF Sadd, Compact, channelVars, history
    <2>9. ASSUME NEW t \in Threads, DelClaim(t) PROVE SafeInv'
      <3>1. PICK step \in Steps :
                /\ GoTo(t, step)
                /\ step \in {"publishSubscribe"}
        BY <2>9 DEF DelClaim, Steps, UnsubscribePath
      <3>2. step \in UnsubscribePath => pc[t] \in UnsubscribePath
        BY <3>1 DEF UnsubscribePath
      <3>3. QED BY <2>0, <2>9, <3>1, <3>2, PathOnlyShrinks, Unrelated
              DEF DelClaim, Compact, channelVars, history
    <2>10. ASSUME NEW t \in Threads, MaybeGetActive(t) PROVE SafeInv'
      <3>1. PICK step \in Steps :
                /\ GoTo(t, step)
                /\ step \in {"getSubscriptions", "idle", "done", "publishReload"}
        BY <2>10, EndType DEF MaybeGetActive, Steps, UnsubscribePath
      <3>2. step \in UnsubscribePath => pc[t] \in UnsubscribePath
        BY <3>1 DEF UnsubscribePath
      <3>3. QED BY <2>0, <2>10, <3>1, <3>2, PathOnlyShrinks, Unrelated
              DEF MaybeGetActive, Compact, channelVars, history
    <2>11. ASSUME NEW t \in Threads, DelTtl(t) PROVE SafeInv'
      <3>1. PICK step \in Steps :
                /\ GoTo(t, step)
                /\ \/ pc[t] = "delTtl" /\ step = "srem"
                   \/ pc[t] = "inactiveDel" /\ step = "inactiveSrem"
        BY <2>11 DEF DelTtl, Steps, UnsubscribePath
      <3>2. step \in UnsubscribePath => pc[t] \in UnsubscribePath
        BY <3>1 DEF UnsubscribePath
      <3>3. QED BY <2>0, <2>11, <3>1, <3>2, PathOnlyShrinks, Unrelated
              DEF DelTtl, Compact, channelVars, history
    <2>12. ASSUME NEW t \in Threads, Srem(t) PROVE SafeInv'
      <3>1. PICK step \in Steps :
                /\ GoTo(t, step)
                /\ \/ pc[t] = "srem" /\ step = "publishUnsubscribe"
                   \/ pc[t] = "inactiveSrem" /\ step = "getActive"
        BY <2>12 DEF Srem, Steps, UnsubscribePath
      <3>2. step \in UnsubscribePath => pc[t] \in UnsubscribePath
        BY <3>1 DEF UnsubscribePath
      <3>3. QED BY <2>0, <2>12, <3>1, <3>2, PathOnlyShrinks, Unrelated
              DEF Srem, Compact, channelVars, history
    <2>13. ASSUME NEW t \in Threads, ValidateIntent(t) PROVE SafeInv'
      <3>1. PICK step \in Steps :
                /\ GoTo(t, step)
                /\ step \in {"delete", "done"}
        BY <2>13 DEF ValidateIntent, Steps, UnsubscribePath
      <3>2. step \in UnsubscribePath => pc[t] \in UnsubscribePath
        BY <3>1 DEF UnsubscribePath
      <3>3. QED BY <2>0, <2>13, <3>1, <3>2, PathOnlyShrinks, Unrelated
              DEF ValidateIntent, Compact, channelVars, history
    <2>14. ASSUME NEW t \in Threads, SweepIsActive(t) PROVE SafeInv'
      <3>1. PICK step \in Steps :
                /\ GoTo(t, step)
                /\ step \in {"idle", "getActive"}
        BY <2>14 DEF SweepIsActive, Steps, UnsubscribePath
      <3>2. step \in UnsubscribePath => pc[t] \in UnsubscribePath
        BY <3>1 DEF UnsubscribePath
      <3>3. QED BY <2>0, <2>14, <3>1, <3>2, PathOnlyShrinks, Unrelated
              DEF SweepIsActive, Compact, channelVars, history
    <2>15. ASSUME NEW t \in Threads, ReceiveInvalidation(t) PROVE SafeInv'
      <3>1. PICK step \in Steps :
                /\ GoTo(t, step)
                /\ step \in {"againWrite"}
        BY <2>15 DEF ReceiveInvalidation, Steps, UnsubscribePath
      <3>2. step \in UnsubscribePath => pc[t] \in UnsubscribePath
        BY <3>1 DEF UnsubscribePath
      <3>3. QED BY <2>0, <2>15, <3>1, <3>2, PathOnlyShrinks, Unrelated
              DEF ReceiveInvalidation, Compact, channelVars, history
    <2>16. ASSUME NEW t \in Threads, StartInactive(t) PROVE SafeInv'
      <3>1. PICK step \in Steps :
                /\ GoTo(t, step)
                /\ step \in {"inactiveDel"}
        BY <2>16 DEF StartInactive, Steps, UnsubscribePath
      <3>2. step \in UnsubscribePath => pc[t] \in UnsubscribePath
        BY <3>1 DEF UnsubscribePath
      <3>3. QED BY <2>0, <2>16, <3>1, <3>2, PathOnlyShrinks, Unrelated
              DEF StartInactive, Compact, channelVars, history
    <2>17. ASSUME NEW t \in Threads, SweepList(t) PROVE SafeInv'
      <3>1. PICK step \in Steps :
                /\ GoTo(t, step)
                /\ step \in {"isActive"}
        BY <2>17 DEF SweepList, Steps, UnsubscribePath
      <3>2. step \in UnsubscribePath => pc[t] \in UnsubscribePath
        BY <3>1 DEF UnsubscribePath
      <3>3. QED BY <2>0, <2>17, <3>1, <3>2, PathOnlyShrinks, Unrelated
              DEF SweepList, Compact, channelVars, history
    <2>18. ASSUME NEW t \in Threads, StartSubscribe(t) PROVE SafeInv'
      <3>1. PICK step \in Steps :
                /\ GoTo(t, step)
                /\ step \in {"lookup"}
        BY <2>18 DEF StartSubscribe, Steps, UnsubscribePath
      <3>2. step \in UnsubscribePath => pc[t] \in UnsubscribePath
        BY <3>1 DEF UnsubscribePath
      <3>3. QED BY <2>0, <2>18, <3>1, <3>2, PathOnlyShrinks, Unrelated
              DEF StartSubscribe, Compact, channelVars, history
    <2>19. ASSUME NEW t \in Threads, StartUnsubscribe(t) PROVE SafeInv'
      <3>1. PICK step \in Steps :
                /\ GoTo(t, step)
                /\ step \in {"validate"}
        BY <2>19 DEF StartUnsubscribe, Steps, UnsubscribePath
      <3>2. step \in UnsubscribePath => pc[t] \in UnsubscribePath
        BY <3>1 DEF UnsubscribePath
      <3>3. QED BY <2>0, <2>19, <3>1, <3>2, PathOnlyShrinks, Unrelated
              DEF StartUnsubscribe, Compact, channelVars, history
    <2>20. ASSUME NEW t \in Threads, StartGone(t) PROVE SafeInv'
      <3>1. PICK step \in Steps :
                /\ GoTo(t, step)
                /\ step \in {"delete"}
        BY <2>20 DEF StartGone, Steps, UnsubscribePath
      <3>2. step \in UnsubscribePath => pc[t] \in UnsubscribePath
        BY <3>1 DEF UnsubscribePath
      <3>3. QED BY <2>0, <2>20, <3>1, <3>2, PathOnlyShrinks, Unrelated
              DEF StartGone, Compact, channelVars, history
    <2>21. ASSUME NEW t \in Threads, JobGetActive(t) PROVE SafeInv'
      <3>1. \A u \in Threads : pc'[u] \in UnsubscribePath => pc[u] \in UnsubscribePath
        <4>1. CASE GoTo(t, "getActive")
          <5>1. "getActive" \in Steps /\ "getActive" \notin UnsubscribePath
            BY DEF Steps, UnsubscribePath
          <5>2. QED BY <2>0, <4>1, <5>1, PathOnlyShrinks
        <4>2. CASE UNCHANGED pc
          BY <4>2
        <4>3. QED BY <2>21, <4>1, <4>2 DEF JobGetActive
      <3>2. QED BY <2>21, <3>1, Unrelated DEF JobGetActive, history
    <2>22. ASSUME NEW t \in Threads, DeleteRow(t) PROVE SafeInv'
      <3>1. PICK step \in Steps : GoTo(t, step) /\ step \in {"remove", "refreshRead"}
        BY <2>22 DEF DeleteRow, Steps
      <3>2. \A u \in Threads : pc'[u] \in UnsubscribePath => pc[u] \in UnsubscribePath
        <4>1. step \notin UnsubscribePath
          BY <3>1 DEF UnsubscribePath
        <4>2. QED BY <2>0, <3>1, <4>1, PathOnlyShrinks
      <3>3. ActiveRows' \subseteq ActiveRows
        <4>1. who[t] \in Callbacks
          BY <2>0 DEF TypeOK
        <4>2. QED BY <2>0, <2>22, <4>1, RowsOnlyLeave DEF DeleteRow
      <3>4. QED BY <2>22, <3>2, <3>3, Steady, SameHeading
              DEF DeleteRow, channelVars, history
    <2>23. ASSUME NEW t \in Threads, StartCleanup(t) PROVE SafeInv'
      <3>1. GoTo(t, "numSubscriptions") /\ "numSubscriptions" \in Steps
        BY <2>23 DEF StartCleanup, Steps
      <3>2. \A u \in Threads : pc'[u] \in UnsubscribePath => pc[u] \in UnsubscribePath
        <4>1. "numSubscriptions" \notin UnsubscribePath
          BY DEF UnsubscribePath
        <4>2. QED BY <2>0, <3>1, <4>1, PathOnlyShrinks
      <3>3. ActiveRows' \subseteq ActiveRows
        BY <2>0, <2>23, RowsOnlyLeave DEF StartCleanup
      <3>4. QED BY <2>23, <3>2, <3>3, Steady, SameHeading
              DEF StartCleanup, channelVars, history
    \* The claim was taken already: the thread leaves the path.
    <2>24. ASSUME NEW t \in Threads, TryClaim(t) PROVE SafeInv'
      <3>1. PICK step \in Steps :
                /\ GoTo(t, step)
                /\ \/ claim /\ step \in {"idle", "done", "publishReload"}
                   \/ ~claim /\ step = "delTtl"
        BY <2>24, EndType DEF TryClaim, Steps, UnsubscribePath
      <3>2. fresh \in [Threads -> SUBSET Callbacks] /\ pc[t] \in UnsubscribePath
        BY <2>0, <2>24 DEF TypeOK, TryClaim, UnsubscribePath
      <3>3. \A u \in Threads : pc'[u] \in UnsubscribePath =>
                pc[u] \in UnsubscribePath /\ fresh'[u] = fresh[u]
        <4>1. CASE claim
          <5>1. step \notin UnsubscribePath
            BY <3>1, <4>1 DEF UnsubscribePath
          <5>2. fresh' = [fresh EXCEPT ![t] = {}]
            BY <2>24, <4>1 DEF TryClaim
          <5>3. QED BY <2>0, <3>1, <3>2, <5>1, <5>2, GoToType
        <4>2. CASE ~claim
          <5>1. fresh' = fresh
            BY <2>24, <4>2 DEF TryClaim
          <5>2. QED BY <2>0, <3>1, <3>2, <5>1, PathOnlyShrinks
        <4>3. QED BY <4>1, <4>2
      <3>4. QED BY <2>24, <3>3, Steady, SameRows, SameHeading
              DEF TryClaim, channelVars
    <2>25. ASSUME NEW t \in Threads, Abort(t) PROVE SafeInv'
      <3>1. PICK step \in Steps : GoTo(t, step) /\ step \in {"idle", "done"}
        BY <2>25, EndType DEF Abort, Steps
      <3>2. \A u \in Threads : pc'[u] \in UnsubscribePath =>
                pc[u] \in UnsubscribePath /\ fresh'[u] = fresh[u]
        <4>1. step \notin UnsubscribePath
          BY <3>1 DEF UnsubscribePath
        <4>2. fresh \in [Threads -> SUBSET Callbacks] /\ fresh' = [fresh EXCEPT ![t] = {}]
          BY <2>0, <2>25 DEF TypeOK, Abort
        <4>3. QED BY <2>0, <3>1, <4>1, <4>2, GoToType
      <3>3. QED BY <2>25, <3>2, Steady, SameRows, SameHeading
              DEF Abort, channelVars
    \* A thread enters the path only when it finds no active row: whatever it
    \* has missed since is then empty.
    <2>26. ASSUME NEW t \in Threads, GetSubscriptions(t) PROVE SafeInv'
      <3>1. PICK step \in Steps :
                /\ GoTo(t, step)
                /\ \/ ActiveRows = {} /\ step = "tryClaim"
                   \/ ActiveRows # {} /\ step = "againRead"
        BY <2>26 DEF GetSubscriptions, Steps, UnsubscribePath
      <3>2. ActiveRows' = ActiveRows /\ Heading' = Heading
        BY <2>26, SameRows, SameHeading DEF GetSubscriptions, channelVars
      <3>3. NeverUnderSubscriber'
        <4>1. CASE ActiveRows = {}
          BY <3>2, <4>1 DEF NeverUnderSubscriber
        <4>2. CASE ActiveRows # {}
          <5>1. step \notin UnsubscribePath
            BY <3>1, <4>2 DEF UnsubscribePath
          <5>2. /\ fresh \in [Threads -> SUBSET Callbacks]
                /\ fresh' = [fresh EXCEPT ![t] = {}]
            BY <2>0, <2>26 DEF TypeOK, GetSubscriptions
          <5>3. \A u \in Threads : pc'[u] \in UnsubscribePath =>
                    pc[u] \in UnsubscribePath /\ fresh'[u] = fresh[u]
            BY <2>0, <3>1, <5>1, <5>2, GoToType
          <5>4. QED BY <3>2, <5>3 DEF SafeInv, NeverUnderSubscriber
        <4>3. QED BY <4>1, <4>2
      <3>4. AnnouncedIsSubscribed'
        BY <2>26, <3>2 DEF GetSubscriptions, SafeInv, AnnouncedIsSubscribed
      <3>5. QED BY <3>3, <3>4 DEF SafeInv
    \* A new row: every thread on the path is now behind it, and its SUBSCRIBE
    \* is still to be published.
    <2>27. ASSUME NEW t \in Threads, Persist(t) PROVE SafeInv'
      <3>1. GoTo(t, "refreshRead") /\ "refreshRead" \in Steps
        BY <2>27 DEF Persist, Steps
      <3>2. \A u \in Threads : pc'[u] \in UnsubscribePath => pc[u] \in UnsubscribePath
        <4>1. "refreshRead" \notin UnsubscribePath
          BY DEF UnsubscribePath
        <4>2. QED BY <2>0, <3>1, <4>1, PathOnlyShrinks
      <3>3. Heading' = Heading
        BY <2>27, SameHeading DEF Persist, channelVars
      <3>4. CASE found[t] /\ row[who[t]] = 0
        <4>1. row' = row /\ fresh' = fresh /\ announced' = announced
          BY <2>27, <3>4 DEF Persist
        <4>2. QED BY <2>27, <3>2, <3>3, <4>1, Steady, SameRows DEF Persist
      <3>5. CASE ~(found[t] /\ row[who[t]] = 0)
        <4>1. /\ row' = [row EXCEPT ![who[t]] = EndOfLease(t)]
              /\ fresh' = [u \in Threads |->
                     IF pc[u] \in UnsubscribePath THEN fresh[u] \cup {who[t]}
                                                  ELSE fresh[u]]
              /\ announced' = announced \ {who[t]}
              /\ now' = now /\ straddled' = straddled
          BY <2>27, <3>5 DEF Persist
        <4>2. ActiveRows' \subseteq ActiveRows \cup {who[t]}
          BY <2>0, <4>1 DEF TypeOK, ActiveRows, IsActive
        <4>3. NeverUnderSubscriber'
          <5> SUFFICES ASSUME NEW u \in Threads, pc'[u] \in UnsubscribePath
                       PROVE  ActiveRows' \subseteq fresh'[u]
            BY DEF NeverUnderSubscriber
          <5>1. pc[u] \in UnsubscribePath
            BY <3>2
          <5>2. ActiveRows \subseteq fresh[u] /\ fresh'[u] = fresh[u] \cup {who[t]}
            BY <4>1, <5>1 DEF SafeInv, NeverUnderSubscriber
          <5>3. QED BY <4>2, <5>2
        <4>4. AnnouncedIsSubscribed'
          <5>1. ActiveRows' \cap announced' \subseteq ActiveRows \cap announced
            BY <4>1, <4>2
          <5>2. QED BY <3>3, <4>1, <5>1 DEF SafeInv, AnnouncedIsSubscribed
        <4>5. QED BY <4>3, <4>4 DEF SafeInv
      <3>6. QED BY <3>4, <3>5
    \* A SUBSCRIBE makes the topic head for subscribed.
    <2>28. ASSUME NEW t \in Threads, PublishSubscribe(t) PROVE SafeInv'
      <3>1. GoTo(t, "done") /\ "done" \in Steps /\ "done" \notin UnsubscribePath
        BY <2>28 DEF PublishSubscribe, Steps, UnsubscribePath
      <3>2. \A u \in Threads : pc'[u] \in UnsubscribePath => pc[u] \in UnsubscribePath
        BY <2>0, <3>1, PathOnlyShrinks
      <3>3. Heading'
        BY <2>0, <2>28, LastCommand DEF TypeOK, PublishSubscribe, Heading
      <3>4. NeverUnderSubscriber'
        BY <2>28, <3>2, SameRows
           DEF PublishSubscribe, SafeInv, NeverUnderSubscriber
      <3>5. QED BY <3>3, <3>4 DEF SafeInv, AnnouncedIsSubscribed
    \* Every active row is one the thread has missed; either none of them is
    \* announced, or the UNSUBSCRIBE overtakes a SUBSCRIBE.
    <2>29. ASSUME NEW t \in Threads, PublishUnsubscribe(t) PROVE SafeInv'
      <3>1. PICK step \in Steps : GoTo(t, step) /\ step \in {"idle", "done", "publishReload"}
        BY <2>29, EndType DEF PublishUnsubscribe, Steps
      <3>2. ActiveRows' = ActiveRows
        BY <2>29, SameRows DEF PublishUnsubscribe
      <3>3. NeverUnderSubscriber'
        <4>1. step \notin UnsubscribePath
          BY <3>1 DEF UnsubscribePath
        <4>2. /\ fresh \in [Threads -> SUBSET Callbacks]
              /\ fresh' = [fresh EXCEPT ![t] = {}]
          BY <2>0, <2>29 DEF TypeOK, PublishUnsubscribe
        <4>3. \A u \in Threads : pc'[u] \in UnsubscribePath =>
                  pc[u] \in UnsubscribePath /\ fresh'[u] = fresh[u]
          BY <2>0, <3>1, <4>1, <4>2, GoToType
        <4>4. QED BY <3>2, <4>3 DEF SafeInv, NeverUnderSubscriber
      <3>4. AnnouncedIsSubscribed'
        <4>1. ActiveRows \subseteq fresh[t]
          BY <2>29 DEF PublishUnsubscribe, SafeInv, NeverUnderSubscriber,
             UnsubscribePath
        <4>2. announced' = announced
              /\ straddled' = (straddled \/ fresh[t] \cap announced # {})
          BY <2>29 DEF PublishUnsubscribe
        <4>3. QED BY <3>2, <4>1, <4>2 DEF AnnouncedIsSubscribed
      <3>5. QED BY <3>3, <3>4 DEF SafeInv
    \* Ingest takes the commands in order, so the last one still decides.
    <2>30. CASE ApplyCommand
      <3>1. Heading' = Heading
        <4>1. /\ cmds \in Seq({"subscribe", "unsubscribe"}) /\ cmds # <<>>
              /\ cmds' = Tail(cmds)
              /\ broker' = (Head(cmds) = "subscribe")
          BY <2>0, <2>30 DEF TypeOK, ApplyCommand
        <4>2. CASE Tail(cmds) = <<>>
          <5>1. cmds[Len(cmds)] = Head(cmds)
            BY <4>1, <4>2, LastCommand
          <5>2. QED BY <4>1, <4>2, <5>1 DEF Heading
        <4>3. CASE Tail(cmds) # <<>>
          <5>1. Tail(cmds)[Len(Tail(cmds))] = cmds[Len(cmds)]
            BY <4>1, <4>3, LastCommand
          <5>2. QED BY <4>1, <4>3, <5>1 DEF Heading
        <4>4. QED BY <4>2, <4>3
      <3>2. QED BY <2>30, <3>1, Steady, SameRows
              DEF ApplyCommand, threadVars, history
    <2>31. CASE ClaimExpires
      BY <2>31, Unrelated DEF ClaimExpires, channelVars, threadVars, history
    <2>32. CASE Tick
      <3>1. ActiveRows' \subseteq ActiveRows
        BY <2>0, <2>32, RowsOnlyLeave DEF Tick
      <3>2. QED BY <2>32, <3>1, Steady, SameHeading
              DEF Tick, channelVars, threadVars, history
    <2>33. CASE UNCHANGED vars
      BY <2>33, Unrelated DEF vars, channelVars, threadVars, history
    <2>34. QED BY <2>1, <2>2, <2>3, <2>4, <2>5, <2>6, <2>7, <2>8, <2>9, <2>10,
        <2>11, <2>12, <2>13, <2>14, <2>15, <2>16, <2>17, <2>18, <2>19, <2>20,
        <2>21, <2>22, <2>23, <2>24, <2>25, <2>26, <2>27, <2>28, <2>29, <2>30,
        <2>31, <2>32, <2>33 DEF Next, Continue, HubStarts, OutsideStarts
  <1>3. QED BY <1>1, <1>2, TypeCorrect, PTL DEF Spec

\* maybeUnsubscribeTopic never unsubscribes from under a subscriber it could
\* have seen, for every number of callbacks, threads and aborts.
THEOREM NeverUnderSubscriberHolds == Spec => []NeverUnderSubscriber
  <1>1. SafeInv => NeverUnderSubscriber
    BY DEF SafeInv
  <1>2. QED BY <1>1, SafetyCorrect, PTL

\* An announced active subscription keeps its topic subscribed, unless an
\* UNSUBSCRIBE that was decided before it was persisted overtook it.
THEOREM AnnouncedIsSubscribedHolds == Spec => []AnnouncedIsSubscribed
  <1>1. SafeInv => AnnouncedIsSubscribed
    BY DEF SafeInv
  <1>2. QED BY <1>1, SafetyCorrect, PTL
=============================================================================
