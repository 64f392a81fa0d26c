------------------------------ MODULE MC_Cache ------------------------------
(* Cache with two local keys, one Redis key and two callers. *)
EXTENDS Cache

CONSTANTS k1, k2, r1, q1, q2

Unused(k) ==
    /\ value[k] = Absent /\ flight[k] = NoFlight /\ source[k] = 0 /\ told[k] = 0 /\ k \notin loaded
    /\ \A q \in Callers : pc[q] = Out \/ pc[q][2] # k

\* Either the Cache is used or Redis: the two stores share nothing but callers, and
\* these hold nothing between two calls.
OneStore == (\A k \in LocalKeys : Unused(k)') \/ (\A k \in RemoteKeys : Unused(k)')
=============================================================================
