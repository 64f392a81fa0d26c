------------------------------- MODULE MC_Hub -------------------------------
(* Hub with connections on one of the replicas. *)
EXTENDS Hub, TLC

OneHub == [c \in Conns |-> CHOOSE h \in Hubs : TRUE]

\* Rooms are joined and left before the first message is sent, and nothing is sent
\* once two such calls ran into each other: what the calls may do to each other does
\* not depend on messages.
RoomsFirst ==
    /\ crooms' # crooms \/ op' # op => asked = <<>>
    /\ asked' # asked => mixed = {} /\ \A g \in Roomers : op[g] = Idle

=============================================================================
