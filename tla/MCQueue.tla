------------------------------ MODULE MCQueue ------------------------------
(* Two messages, a limit of one waiting job, a retry-all and a purge. *)
EXTENDS NotificationQueue

CONSTANTS m1, m2, all, purge
=============================================================================
