---------------------------- MODULE MCSubscribe ----------------------------
(* Three requests and an unsubscription on one topic. *)
EXTENDS SubscribeRequest

CONSTANTS r1, r2, r3, d1, a, b, t1

Topic    == [c \in Clients |-> t1]
Callback == [c \in Clients |-> IF c = r3 THEN b ELSE a]
KeySet   == Topics \X Callbacks
Key      == [r \in Requests |-> <<TopicOf[r], CallbackOf[r]>>]

\* An acceptable form, and one that fails two checks.
SomeForms == {{}, {"callback", "lease"}}
=============================================================================
