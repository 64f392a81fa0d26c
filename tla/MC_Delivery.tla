----------------------------- MODULE MC_Delivery -----------------------------
(* Delivery with one relay and two consumers. *)
EXTENDS Delivery, TLC

CONSTANTS r1, t1, t2, w1, w2
=============================================================================
