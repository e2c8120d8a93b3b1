----------------------------- MODULE AtLeastOnce -----------------------------
(***************************************************************************)
(* What the delivery process promises a publisher, with no attempts, no    *)
(* circuits and no workers: a notification is completed only when every    *)
(* subscriber it is still owed to has acknowledged it; otherwise it stays  *)
(* pending or ends as a failed job an operator can retry or purge.  What   *)
(* is completed or purged is never taken up again.                         *)
(***************************************************************************)
EXTENDS FiniteSets

CONSTANTS Jobs, Subscribers

VARIABLES phase, \* of each notification
          subs,  \* the present subscribers
          owed,  \* subscribers ever since the notification was published
          acked  \* subscribers that answered 2xx

promiseVars == <<phase, subs, owed, acked>>

Init == /\ phase = [j \in Jobs |-> "new"]
        /\ subs \in SUBSET Subscribers
        /\ owed = [j \in Jobs |-> {}]
        /\ acked = [j \in Jobs |-> {}]

Publish(j) == /\ phase[j] = "new"
              /\ phase' = [phase EXCEPT ![j] = "pending"]
              /\ owed' = [owed EXCEPT ![j] = subs]
              /\ UNCHANGED <<subs, acked>>

Acknowledge(j, c) == /\ phase[j] = "pending"
                     /\ acked' = [acked EXCEPT ![j] = @ \cup {c}]
                     /\ UNCHANGED <<phase, subs, owed>>

Complete(j) == /\ phase[j] = "pending"
               /\ owed[j] \subseteq acked[j]
               /\ phase' = [phase EXCEPT ![j] = "completed"]
               /\ UNCHANGED <<subs, owed, acked>>

\* A crash may end several notifications at once.
GiveUp(dead) == /\ \A j \in dead : phase[j] = "pending"
                /\ phase' = [j \in Jobs |-> IF j \in dead THEN "failed"
                                                          ELSE phase[j]]
                /\ UNCHANGED <<subs, owed, acked>>

Retry(j) == /\ phase[j] = "failed"
            /\ phase' = [phase EXCEPT ![j] = "pending"]
            /\ UNCHANGED <<subs, owed, acked>>

Purge(j) == /\ phase[j] = "failed"
            /\ phase' = [phase EXCEPT ![j] = "purged"]
            /\ UNCHANGED <<subs, owed, acked>>

Join(c) == /\ subs' = subs \cup {c}
           /\ UNCHANGED <<phase, owed, acked>>

\* Those of one address leave together.
Part(gone) == /\ subs' = subs \ gone
              /\ owed' = [j \in Jobs |-> owed[j] \ gone]
              /\ UNCHANGED <<phase, acked>>

Next == \/ \E j \in Jobs : \/ Publish(j) \/ Complete(j) \/ Retry(j) \/ Purge(j)
                           \/ \E c \in Subscribers : Acknowledge(j, c)
        \/ \E dead \in SUBSET Jobs : GiveUp(dead)
        \/ \E c \in Subscribers : Join(c)
        \/ \E gone \in SUBSET Subscribers : Part(gone)

Spec == Init /\ [][Next]_promiseVars
=============================================================================
