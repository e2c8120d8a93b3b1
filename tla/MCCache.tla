------------------------------- MODULE MCCache -------------------------------
(* Caches of delivery processes that start, listen and lose their links. *)
EXTENDS SubscriptionCache
=============================================================================
