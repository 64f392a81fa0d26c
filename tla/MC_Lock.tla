------------------------------- MODULE MC_Lock -------------------------------
(* Lock with two clients, and as many tokens as acquisitions may leave behind. *)
EXTENDS Lock, TLC

CONSTANTS c1, c2, t1, t2, t3
=============================================================================
