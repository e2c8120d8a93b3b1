----------------------------- MODULE Throughput -----------------------------
(***************************************************************************)
(* helpers/throughput.js in one process, for one kind of event: counts are *)
(* gathered in memory and added to a shared counter in Redis when a timer  *)
(* fires or somebody asks for a snapshot.  The window over which Redis and *)
(* the process keep counts is left out: a count in Redis stays.            *)
(***************************************************************************)
EXTENDS Naturals

VARIABLES pendingRedis, \* counts not yet taken by a flush
          flushTimer,   \* the timer is set
          batch,        \* counts of the flush in flight, 0: flushInFlight null
          redisCount,   \* counts in Redis
          recorded,     \* history: all counts
          dropped,      \* history: counts of flushes that failed
          reader,       \* getGlobalSnapshot: idle, flushing or reading
          due           \* history: counts the snapshot has to show

countVars  == <<pendingRedis, flushTimer, batch, redisCount, recorded,
                dropped>>
readerVars == <<reader, due>>
throughputVars == <<countVars, readerVars>>

ThroughputTypeOK ==
    /\ pendingRedis \in Nat /\ batch \in Nat /\ redisCount \in Nat
    /\ recorded \in Nat /\ dropped \in Nat /\ due \in Nat
    /\ flushTimer \in BOOLEAN
    /\ reader \in {"idle", "flushing", "reading"}

ThroughputInit == /\ pendingRedis = 0 /\ batch = 0 /\ redisCount = 0
                  /\ recorded = 0 /\ dropped = 0
                  /\ flushTimer = FALSE
                  /\ reader = "idle" /\ due = 0

\* record: count, and set the timer unless it is set.
Record == /\ pendingRedis' = pendingRedis + 1
          /\ recorded' = recorded + 1
          /\ flushTimer' = TRUE
          /\ UNCHANGED <<batch, redisCount, dropped, readerVars>>

\* flushPending up to its await: one flush at a time, none without counts.
FlushPending ==
    IF batch # 0 THEN UNCHANGED <<batch, pendingRedis>>
    ELSE batch' = pendingRedis /\ pendingRedis' = 0

TimerFires == /\ flushTimer
              /\ flushTimer' = FALSE
              /\ FlushPending
              /\ UNCHANGED <<redisCount, recorded, dropped, readerVars>>

\* A fault: a failed flush puts its counts back, though Redis may have
\* executed it before the connection broke.
FlushEndsRestoring ==
    /\ batch # 0
    /\ batch' = 0
    /\ \/ redisCount' = redisCount + batch /\ UNCHANGED pendingRedis
       \/ /\ pendingRedis' = pendingRedis + batch
          /\ redisCount' \in {redisCount, redisCount + batch}
    /\ UNCHANGED <<flushTimer, recorded, dropped, readerVars>>

\* multi.exec() is answered: the batch is in Redis, or the flush failed and
\* its counts are given up.
FlushEnds == /\ batch # 0
             /\ batch' = 0
             /\ \/ redisCount' = redisCount + batch /\ UNCHANGED dropped
                \/ dropped' = dropped + batch /\ UNCHANGED redisCount
             /\ UNCHANGED <<pendingRedis, flushTimer, recorded, readerVars>>

\* getGlobalSnapshot joins the flush in flight, whose counts were taken
\* before, or flushes what is pending ...
AskSnapshot == /\ reader = "idle"
               /\ reader' = "flushing"
               /\ due' = recorded - (IF batch # 0 THEN pendingRedis ELSE 0)
               /\ FlushPending
               /\ UNCHANGED <<flushTimer, redisCount, recorded, dropped>>

\* A fault: it does not wait.
AwaitNoFlush == /\ reader = "flushing"
                /\ reader' = "reading"
                /\ UNCHANGED <<countVars, due>>

\* ... waits for that flush, and reads Redis.  A later flush is not its own,
\* but waiting for it too does not change what was due.
AwaitFlush == /\ reader = "flushing" /\ batch = 0
              /\ reader' = "reading"
              /\ UNCHANGED <<countVars, due>>

ReadSnapshot == /\ reader = "reading"
                /\ reader' = "idle" /\ due' = 0
                /\ UNCHANGED countVars

\* The process dies: what it has in memory is gone, and so is the reader.
LoseCounts == /\ dropped' = dropped + pendingRedis + batch
              /\ pendingRedis' = 0 /\ batch' = 0
              /\ flushTimer' = FALSE
              /\ reader' = "idle" /\ due' = 0
              /\ UNCHANGED <<redisCount, recorded>>
-----------------------------------------------------------------------------
\* Every count is pending, in flight, in Redis or given up with a flush that
\* failed; none is lost in between and none is written twice.
CountsConserved == recorded = pendingRedis + batch + redisCount + dropped

\* When a snapshot reads Redis, everything recorded before it was asked for
\* is there or given up, but for the counts that came in during a flush it
\* found in flight.
SnapshotIsCurrent == reader = "reading" => redisCount + dropped >= due
=============================================================================
