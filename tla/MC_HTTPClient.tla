---------------------------- MODULE MC_HTTPClient ----------------------------
(* HTTPClient with two callers: a probe and a straggler. *)
EXTENDS HTTPClient, TLC

CONSTANTS q1, q2
=============================================================================
