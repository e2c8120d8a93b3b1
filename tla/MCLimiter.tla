----------------------------- MODULE MCLimiter -----------------------------
(* Limiter with five concurrent deliveries and two permits, so that the    *)
(* queue grows to three and permits change hands while others arrive.      *)
EXTENDS Limiter

=============================================================================
