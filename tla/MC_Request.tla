----------------------------- MODULE MC_Request -----------------------------
(* The bucket of RateLimit and the chain of Request.  They share no variable *)
(* and the chain takes any answer for the bucket's, so each is looked at     *)
(* while the other rests: the bucket, one whose rule has no refill, and two  *)
(* requests in the chain.                                                    *)
EXTENDS RateLimit, Request, TLC

CONSTANTS q1, q2, r1, r2

VARIABLE part    \* the one that is looked at, fixed by MCInit

Empty == INSTANCE RateLimit WITH RefillPerTick <- 0

MCInit == LimInit /\ ReqInit /\ part \in {"bucket", "empty", "chain"}

MCNext ==
    /\ \/ part = "bucket" /\ LimNext /\ UNCHANGED reqVars
       \/ part = "empty" /\ Empty!LimNext /\ UNCHANGED reqVars
       \/ part = "chain" /\ ReqNext /\ UNCHANGED limVars
    /\ UNCHANGED part

MCSpec == MCInit /\ [][MCNext]_<<limVars, reqVars, part>>

\* Nothing tells callers apart, nor requests.
Alike == Permutations(Callers) \cup Permutations(Requests)
=============================================================================
