----------------------------- MODULE MCDelivery -----------------------------
(* Deliveries to subscriptions of the same callback, or of one each. *)
EXTENDS Delivery, TLC

\* Every row is of the same callback: its rows are interchangeable.
OneCallback == [s \in Subscriptions |-> CHOOSE c \in Callbacks : TRUE]

\* A row is its own callback.
OwnCallback == [s \in Subscriptions |-> s]

\* Renaming rows that all are of one callback changes nothing, nor does renaming
\* rows that are their own callbacks.
Symmetry == Permutations(Subscriptions)
=============================================================================
