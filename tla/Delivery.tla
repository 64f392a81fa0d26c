------------------------------ MODULE Delivery ------------------------------
(***************************************************************************)
(* Outbox and inbox end to end: relays publish to a transport, workers     *)
(* take messages from it and handle each with inbox.Once.                  *)
(*                                                                         *)
(* durable = FALSE is the transport of NewRedisPublisher and               *)
(* redis.Subscribe: each message goes to the workers that are subscribed   *)
(* just then, possibly to none, and an error of the handler is only        *)
(* logged.  durable = TRUE is a transport that redelivers until the        *)
(* handler returns nil.                                                    *)
(***************************************************************************)
EXTENDS Outbox

CONSTANTS Workers, None

ASSUME NoneAssumption == None \notin Ids

VARIABLES
    durable,                      \* the transport, which does not change
    net,                          \* net[w][i]: copies of event i on the way to w
    marker, wpc, msg, effects     \* the inbox

inboxVars == <<marker, wpc, msg, effects>>
allVars == <<vars, durable, net, inboxVars>>

I == INSTANCE Inbox WITH Messages <- Ids

DeliveryInit ==
    /\ Init
    /\ I!Init
    /\ durable \in BOOLEAN
    /\ net = [w \in Workers |-> [i \in Ids |-> 0]]

More(n) == IF n = 2 THEN 2 ELSE n + 1

\* PUBLISH: a copy for every worker subscribed at that moment.
Send(i) ==
    \E S \in SUBSET Workers :
        /\ durable => S # {}
        /\ net' = [w \in Workers |->
                     IF w \in S THEN [net[w] EXCEPT ![i] = More(@)] ELSE net[w]]

Relay(r) ==
    \/ SendStep(r) /\ Send(Current(batch[r])) /\ UNCHANGED inboxVars
    \/ QuietStep(r) /\ UNCHANGED <<net, inboxVars>>

\* The loop of Subscribe takes a message and calls the handler.
Receive(w, i) ==
    /\ net[w][i] > 0
    /\ net' = [net EXCEPT ![w][i] = @ - 1]
    /\ I!Begin(w, i)
    /\ UNCHANGED vars

\* The handler's error: a durable transport delivers the message again.
Nack(w) ==
    IF durable
      THEN \E v \in Workers : net' = [net EXCEPT ![v][msg[w]] = More(@)]
      ELSE UNCHANGED net

Handle(w) ==
    /\ \/ (I!Insert(w) \/ I!Skip(w)) /\ UNCHANGED net
       \/ I!Commit(w) /\ (UNCHANGED net \/ Nack(w))
       \/ I!Rollback(w) /\ Nack(w)
    /\ UNCHANGED vars

DeliveryNext ==
    /\ UNCHANGED durable
    /\ \/ ProducerStep /\ UNCHANGED <<net, inboxVars>>
       \/ \E r \in Relays : Relay(r)
       \/ Tick /\ UNCHANGED <<net, inboxVars>>
       \/ \E w \in Workers : Handle(w) \/ \E i \in Ids : Receive(w, i)

DeliverySpec == DeliveryInit /\ [][DeliveryNext]_allVars

Still(v) == UNCHANGED <<durable, v>>

\* As RelayFairness; the transport starves no message, transactions end, and the
\* handling of a message that is retried for ever succeeds some time.
DeliveryFairSpec ==
    /\ DeliverySpec
    /\ WF_allVars(Tick /\ Still(<<net, inboxVars>>))
    /\ \A r \in Relays :
          /\ SF_allVars(Process(r) /\ pc'[r] = "load" /\ Still(<<net, inboxVars>>))
          /\ SF_allVars(LoadOk(r) /\ Still(<<net, inboxVars>>))
          /\ SF_allVars(PublishOk(r) /\ Send(Current(batch[r])) /\ Still(inboxVars))
          /\ SF_allVars(MarkOk(r) /\ Still(<<net, inboxVars>>))
          /\ WF_allVars(Finish(r) /\ Still(<<net, inboxVars>>))
    /\ \A w \in Workers, i \in Ids :
          /\ SF_allVars(Receive(w, i) /\ Still(vars))
          /\ WF_allVars(I!Skip(w) /\ Still(<<net, vars>>))
          /\ SF_allVars(msg[w] = i /\ I!Insert(w) /\ Still(<<net, vars>>))
          /\ SF_allVars(msg[w] = i /\ I!Commit(w) /\ Still(<<net, vars>>))

-----------------------------------------------------------------------------
(* Properties. *)

Abs == INSTANCE ExactlyOnceEffect WITH
         Events <- Ids,
         committed <- {i \in Ids : row[i] \in {"pending", "published"}},
         effect <- effects

\* README, inbox: paired with outbox, Once gives "end-to-end exactly-once-effect
\* processing".  Over both transports: no effect happens twice, nor without the
\* producer's commit, whatever is published, delivered or retried twice.
ImplementsExactlyOnce == Abs!Spec

\* Over a transport that redelivers, every committed event has its effect: a
\* rolled-back marker lets the message through again, and a marker left by a
\* lost reply to COMMIT does not.
ImplementsFairExactlyOnce == durable => Abs!Fairness
=============================================================================
