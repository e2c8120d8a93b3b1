------------------------------ MODULE MCIngest ------------------------------
(* One topic: a subscription that starts, one that ends. *)
EXTENDS Ingest

CONSTANTS s1, s2, t1, a1, l1

TopicOfSub     == [s \in Subs |-> t1]
SubOfRequest   == [r \in Requests |-> IF r = a1 THEN s1 ELSE s2]
RowsBefore     == [s \in Subs |-> IF s = s1 THEN 0 ELSE 2]
LeaseOfRequest == [r \in Announcers |-> 2]
=============================================================================
