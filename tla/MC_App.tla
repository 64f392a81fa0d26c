------------------------------- MODULE MC_App -------------------------------
(* App with two modules whose checks share a name. *)
EXTENDS App, TLC

MCModules == <<"users", "orders">>
MCName == [c \in {Gate, "users", "orders"} |-> IF c = Gate THEN "readiness" ELSE "db"]
MCPreShutdown == <<Gate, "flush">>
MCUserCleanup == <<"tracing">>
=============================================================================
