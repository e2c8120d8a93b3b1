------------------------------ MODULE Limiter ------------------------------
(***************************************************************************)
(* The per-callback semaphore of helpers/delivery/limiter.js.  One instance *)
(* of this module is one entry of the `semaphores' map.  JavaScript runs   *)
(* acquire() and release() without interruption; what interleaves are the  *)
(* continuations: a caller whose promise is resolved ("granted") goes on   *)
(* only when the event loop gets to it, and other callers may acquire or   *)
(* release in between.                                                     *)
(***************************************************************************)
EXTENDS Integers, FiniteSets, Sequences

CONSTANTS Calls,   \* the concurrent deliveries to one callback
          max      \* config.delivery.perCallbackConcurrency

\* The code never checks the parsed environment variable.  With max = 0 the
\* first acquire() would wait for ever, so a positive value is assumed.
ASSUME MaxAssumption == max \in Nat \ {0}

VARIABLES current, \* Semaphore.current
          waiters, \* Semaphore.waiters: the calls whose resolve() is queued
          pc       \* where each call of withCallbackLimit stands

vars == <<current, waiters, pc>>

CallStates == {"idle", "waiting", "granted", "running"}

TypeOK == /\ current \in Nat
          /\ waiters \in Seq(Calls)
          /\ pc \in [Calls -> CallStates]

Init == /\ current = 0
        /\ waiters = <<>>
        /\ pc = [t \in Calls |-> "idle"]

-----------------------------------------------------------------------------
(* Faults: what a slip in acquire() or release() would look like.  No action *)
(* of the specification uses them; each breaks one of the properties below.  *)

\* `<=' for `<' in acquire().
AcquireOneTooMany(t) == /\ pc[t] = "idle"
                        /\ current <= max
                        /\ current' = current + 1
                        /\ pc' = [pc EXCEPT ![t] = "granted"]
                        /\ UNCHANGED waiters

\* release() gives the permit back and wakes nobody.
ReleaseWakesNobody(t) == /\ pc[t] = "running"
                         /\ current' = current - 1
                         /\ pc' = [pc EXCEPT ![t] = "idle"]
                         /\ UNCHANGED waiters

\* release() forgets to count the permit it hands over.
ReleaseUncounted(t) ==
    /\ pc[t] = "running"
    /\ current' = current - 1
    /\ IF waiters = <<>>
       THEN pc' = [pc EXCEPT ![t] = "idle"] /\ UNCHANGED waiters
       ELSE /\ waiters' = Tail(waiters)
            /\ pc' = [pc EXCEPT ![t] = "idle", ![Head(waiters)] = "granted"]

\* pop() for shift() in release().
ReleaseNewest(t) ==
    /\ pc[t] = "running"
    /\ IF waiters = <<>>
       THEN /\ current' = current - 1
            /\ pc' = [pc EXCEPT ![t] = "idle"]
            /\ UNCHANGED waiters
       ELSE /\ waiters' = SubSeq(waiters, 1, Len(waiters) - 1)
            /\ pc' = [pc EXCEPT ![t] = "idle",
                                ![waiters[Len(waiters)]] = "granted"]
            /\ UNCHANGED current
-----------------------------------------------------------------------------
\* acquire() with a permit left: the promise is resolved already, but the
\* await in withCallbackLimit still yields.
AcquireFree(t) == /\ pc[t] = "idle"
                  /\ current < max
                  /\ current' = current + 1
                  /\ pc' = [pc EXCEPT ![t] = "granted"]
                  /\ UNCHANGED waiters

\* acquire() with none left.
AcquireQueued(t) == /\ pc[t] = "idle"
                    /\ current >= max
                    /\ waiters' = Append(waiters, t)
                    /\ pc' = [pc EXCEPT ![t] = "waiting"]
                    /\ UNCHANGED current

\* The await returns and fn() starts.
Run(t) == /\ pc[t] = "granted"
          /\ pc' = [pc EXCEPT ![t] = "running"]
          /\ UNCHANGED <<current, waiters>>

\* fn() has returned or thrown: the finally clause calls release().  With a
\* waiter, `current' goes down and up again and the permit changes hands.
Release(t) ==
    /\ pc[t] = "running"
    /\ \/ /\ waiters = <<>>
          /\ current' = current - 1
          /\ pc' = [pc EXCEPT ![t] = "idle"]
          /\ UNCHANGED waiters
       \/ /\ waiters # <<>>
          /\ waiters' = Tail(waiters)
          /\ pc' = [pc EXCEPT ![t] = "idle", ![Head(waiters)] = "granted"]
          /\ UNCHANGED current

Next == \E t \in Calls :
            AcquireFree(t) \/ AcquireQueued(t) \/ Run(t) \/ Release(t)

Spec == Init /\ [][Next]_vars

\* The event loop runs every resolved continuation, and fn() ends: it makes
\* at most maxAttempts requests, each cut off by the HTTP timeout.
Fairness == \A t \in Calls : WF_vars(Run(t)) /\ WF_vars(Release(t))

FairSpec == Spec /\ Fairness
-----------------------------------------------------------------------------
Holders == {t \in Calls : pc[t] \in {"granted", "running"}}
Waiting == {t \in Calls : pc[t] = "waiting"}

\* The counter and the queue agree with what the callers are really doing:
\* no permit is lost or made up whichever way calls end, and a call waits
\* exactly once.
PermitsBalanced ==
    /\ current = Cardinality(Holders)
    /\ Waiting = {waiters[i] : i \in DOMAIN waiters}
    /\ \A i, j \in DOMAIN waiters : waiters[i] = waiters[j] => i = j

\* perCallbackConcurrency bounds the deliveries to one callback.
AtMostMax == Cardinality(Holders) <= max

\* No lost wake-up: a call only waits while every permit is in use.
NoIdlePermit == waiters # <<>> => current = max

\* First come, first served: a call is granted a permit only if no other
\* call has been waiting longer, a newcomer included.
NoOvertaking ==
    [][\A u \in Calls : (u \notin Holders /\ u \in Holders') =>
           \A i \in DOMAIN waiters : waiters[i] # u =>
               \E k \in 1..(i - 1) : waiters[k] = u]_vars

\* Every delivery that waits for a permit gets to run.
NoStarvation == \A t \in Calls : pc[t] = "waiting" ~> pc[t] = "running"

\* The semaphore implements the gate.
Gate == INSTANCE CallbackGate WITH wanting <- Waiting, inside <- Holders
GateSpec == Gate!Spec
=============================================================================
