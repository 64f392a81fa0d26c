------------------------------ MODULE MC_Outbox ------------------------------
(* Outbox with two relays that share a lock. *)
EXTENDS Outbox, TLC

CONSTANTS r1, r2, t1, t2, t3
=============================================================================
