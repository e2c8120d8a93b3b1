------------------------- MODULE SubscriptionEvents -------------------------
(***************************************************************************)
(* helpers/subscription_events.js: the map of subscriptions that are being *)
(* validated and the recent events in memory, of which only the number     *)
(* matters.  The copy of the events in Redis is left out: its commands may *)
(* fail without consequence and only the operators' page reads it.         *)
(***************************************************************************)
EXTENDS Naturals

CONSTANTS Requests,  \* subscribe requests
          Keys,      \* keys of the pending map: topic and callback
          KeyOf,     \* the key of each request
          MaxEvents  \* MAX_EVENTS

ASSUME EventsAssumption == /\ KeyOf \in [Requests -> Keys]
                           /\ MaxEvents \in Nat \ {0}

VARIABLES pending,     \* keys of the pending map
          localRecent  \* length of the list of recent events

eventVars == <<pending, localRecent>>

\* The list is trimmed before an event is added: it holds one too many.
EventsTypeOK == /\ pending \in SUBSET Keys
                /\ localRecent \in 0..(MaxEvents + 1)

EventsInit == pending = {} /\ localRecent = 0

PushEvent == localRecent' = (IF localRecent > MaxEvents THEN MaxEvents
                                                   ELSE localRecent) + 1

\* beginSubscribe and recordAccepted, up to its first await.
BeginSubscribe(r) == /\ pending' = pending \cup {KeyOf[r]}
                     /\ PushEvent

\* A fault: an outcome that leaves the entry in the map.
RecordOutcomeOnly(r) == PushEvent /\ UNCHANGED pending

\* recordActivated and recordFailed.
RecordOutcome(r) == /\ pending' = pending \ {KeyOf[r]}
                    /\ PushEvent
=============================================================================
