-------------------------- MODULE ExactlyOnceEffect --------------------------
(***************************************************************************)
(* What outbox and inbox promise together: the effect of an event happens  *)
(* once, only for an event whose business transaction committed and, when  *)
(* the transport redelivers, for each such event.                          *)
(***************************************************************************)
EXTENDS Integers

CONSTANT Events

VARIABLES committed, effect

evars == <<committed, effect>>

Init == committed = {} /\ effect = [e \in Events |-> 0]

Produce(e) ==
    /\ e \notin committed
    /\ committed' = committed \cup {e}
    /\ UNCHANGED effect

Apply(e) ==
    /\ e \in committed
    /\ effect[e] = 0
    /\ effect' = [effect EXCEPT ![e] = 1]
    /\ UNCHANGED committed

Next == \E e \in Events : Produce(e) \/ Apply(e)

Spec == Init /\ [][Next]_evars

\* An event that was produced is applied.
Fairness == \A e \in Events : WF_evars(Apply(e))
=============================================================================
