---------------------------- MODULE CallbackGate ----------------------------
(***************************************************************************)
(* What withCallbackLimit promises its callers, with no queue and no       *)
(* counter: of the calls that want to run for one callback, at most `max'  *)
(* are inside at a time, and a call that wants in gets in.                 *)
(***************************************************************************)
EXTENDS Integers, FiniteSets

CONSTANTS Calls,   \* the concurrent deliveries to one callback
          max      \* config.delivery.perCallbackConcurrency

VARIABLES wanting, \* calls that asked for a permit and have none
          inside   \* calls that hold a permit

gateVars == <<wanting, inside>>

Init == wanting = {} /\ inside = {}

\* A call asks; nothing is promised yet.
Ask(t) == /\ t \notin wanting \cup inside
          /\ wanting' = wanting \cup {t}
          /\ UNCHANGED inside

\* A call is admitted, at once or after it waited.
Enter(t) == /\ t \notin inside
            /\ Cardinality(inside) < max
            /\ inside' = inside \cup {t}
            /\ wanting' = wanting \ {t}

Leave(t) == /\ t \in inside
            /\ inside' = inside \ {t}
            /\ UNCHANGED wanting

\* The permit passes from a call that leaves to one that waits.
HandOver(t, u) == /\ t \in inside /\ u \in wanting
                  /\ inside' = (inside \ {t}) \cup {u}
                  /\ wanting' = wanting \ {u}

Next == \E t \in Calls : \/ Ask(t) \/ Enter(t) \/ Leave(t)
                         \/ \E u \in Calls : HandOver(t, u)

Spec == Init /\ [][Next]_gateVars
=============================================================================
