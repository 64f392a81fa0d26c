------------------------------- MODULE Outbox -------------------------------
(***************************************************************************)
(* Package outbox: business transactions insert rows into the outbox       *)
(* table; the relays of several replicas read pending rows in id order,    *)
(* publish each and then mark it published.  With UseLock a relay runs     *)
(* each batch under lock.Do of module Lock.                                *)
(*                                                                         *)
(* A database statement and a Publish are atomic; everything may happen    *)
(* between them.  Each may fail without effect, or take effect and report  *)
(* an error.  A cancelled context makes the remaining calls of Process     *)
(* fail, which is one of the failures below.                               *)
(***************************************************************************)
EXTENDS Integers, FiniteSets

CONSTANTS
    Relays,       \* relay processes, one per replica
    MaxId,        \* bound: outbox rows ever inserted
    BatchSize,    \* WithBatchSize
    UseLock,      \* WithLock given
    LockTTL,      \* its ttl, in milliseconds
    Tokens, NoToken

ASSUME MaxIdAssumption     == MaxId \in Nat
ASSUME BatchSizeAssumption == BatchSize \in Nat \ {0}
ASSUME UseLockAssumption   == UseLock \in BOOLEAN
ASSUME LockTTLAssumption   == LockTTL \in Nat
ASSUME TokensAssumption    == NoToken \notin Tokens

VARIABLES
    row,      \* row[i]: the outbox row with id i
    sent,     \* sent[i]: times i was handed to the publisher (2 = twice or more)
    pc,       \* pc[r]: where relay r is in Process
    batch,    \* batch[r]: ids loaded by r and not yet dealt with
    snap,     \* ghost: the ids pending when r loaded its batch
    fault,    \* ghost: something happened after which an event may be sent twice
    tok, left, handle, lease, st, ctx, want    \* the relay lock in Redis

lockVars == <<tok, left, handle, lease, st, ctx, want>>
tableVars == <<row, sent>>
vars == <<row, sent, pc, batch, snap, fault, lockVars>>

L == INSTANCE Lock WITH Clients <- Relays, TTLs <- {LockTTL}, Ms <- 1

Ids == 1..MaxId

RowState == {"none", "open", "pending", "published", "aborted"}

TypeOK ==
    /\ row \in [Ids -> RowState]
    /\ sent \in [Ids -> 0..2]
    /\ pc \in [Relays -> {"idle", "load", "publish", "mark", "return"}]
    /\ batch \in [Relays -> SUBSET Ids]
    /\ snap \in [Relays -> SUBSET Ids]
    /\ fault \in BOOLEAN
    /\ L!TypeOK

Init ==
    /\ row = [i \in Ids |-> "none"]
    /\ sent = [i \in Ids |-> 0]
    /\ pc = [r \in Relays |-> "idle"]
    /\ batch = [r \in Relays |-> {}]
    /\ snap = [r \in Relays |-> {}]
    /\ fault = FALSE
    /\ L!Init

-----------------------------------------------------------------------------
(* The producers. *)

\* The INSERT inside the business transaction takes the next autoincrement id;
\* the row is visible to others only when that transaction commits.
Enqueue(i) ==
    /\ row[i] = "none"
    /\ \A j \in Ids : j < i => row[j] # "none"
    /\ row' = [row EXCEPT ![i] = "open"]
    /\ UNCHANGED <<sent, pc, batch, snap, fault, lockVars>>

\* The business transaction ends.
EndTx(i) ==
    /\ row[i] = "open"
    /\ \E s \in {"pending", "aborted"} : row' = [row EXCEPT ![i] = s]
    /\ UNCHANGED <<sent, pc, batch, snap, fault, lockVars>>

-----------------------------------------------------------------------------
(* Process. *)

Pending == {i \in Ids : row[i] = "pending"}

\* ORDER BY id ASC LIMIT batchSize.
PendingBatch == {i \in Pending : Cardinality({j \in Pending : j < i}) < BatchSize}

\* The event the loop over the batch is at.
Current(S) == CHOOSE i \in S : \A j \in S : i <= j

Goto(r, p) == pc' = [pc EXCEPT ![r] = p]

Return(r) ==
    /\ Goto(r, "return")
    /\ batch' = [batch EXCEPT ![r] = {}]
    /\ snap' = [snap EXCEPT ![r] = {}]

ProcessAnyway(r) ==    \* mutant: ErrNotAcquired is ignored
    /\ pc[r] = "idle"
    /\ L!Do(r, LockTTL)
    /\ Goto(r, "load")
    /\ UNCHANGED <<row, sent, batch, snap, fault>>

ProcessNoTTL(r) ==     \* mutant: the lock is taken without an expiry
    /\ pc[r] = "idle"
    /\ L!Do(r, 0) /\ Goto(r, IF st'[r] = "do" THEN "load" ELSE "idle")
    /\ UNCHANGED <<row, sent, batch, snap, fault>>

\* Run's ticker fires: Process, under the lock when there is one.  A lock held
\* elsewhere and a Redis error both end the call here.
Process(r) ==
    /\ pc[r] = "idle"
    /\ IF UseLock
         THEN L!Do(r, LockTTL) /\ Goto(r, IF st'[r] = "do" THEN "load" ELSE "idle")
         ELSE UNCHANGED lockVars /\ Goto(r, "load")
    /\ UNCHANGED <<row, sent, batch, snap, fault>>

LoadOk(r) ==
    /\ pc[r] = "load"
    /\ IF Pending = {}
         THEN Return(r)
         ELSE /\ Goto(r, "publish")
              /\ batch' = [batch EXCEPT ![r] = PendingBatch]
              /\ snap' = [snap EXCEPT ![r] = Pending]
    /\ UNCHANGED <<row, sent, fault, lockVars>>

LoadErr(r) ==
    /\ pc[r] = "load"
    /\ Return(r)
    /\ UNCHANGED <<row, sent, fault, lockVars>>

Sent(i) == sent' = [sent EXCEPT ![i] = IF @ = 2 THEN 2 ELSE @ + 1]

PublishSkip(r) ==      \* mutant: mark although Publish failed
    /\ pc[r] = "publish"
    /\ Goto(r, "mark")
    /\ UNCHANGED <<row, sent, batch, snap, fault, lockVars>>

PublishOk(r) ==
    /\ pc[r] = "publish"
    /\ Sent(Current(batch[r]))
    /\ Goto(r, "mark")
    /\ UNCHANGED <<row, batch, snap, fault, lockVars>>

PublishContinue(r) ==  \* mutant: a Publish error moves on to the next event
    /\ pc[r] = "publish"
    /\ batch' = [batch EXCEPT ![r] = @ \ {Current(@)}]
    /\ Goto(r, IF batch'[r] = {} THEN "return" ELSE "publish")
    /\ UNCHANGED <<row, sent, snap, fault, lockVars>>

\* Publish reports an error: the batch stops.
PublishErr(r) ==
    /\ pc[r] = "publish"
    /\ Return(r)
    /\ UNCHANGED <<row, sent, fault, lockVars>>

\* The same, but the event went out and only the reply was lost.
PublishLostReply(r) ==
    /\ pc[r] = "publish"
    /\ Sent(Current(batch[r]))
    /\ fault' = TRUE
    /\ Return(r)
    /\ UNCHANGED <<row, lockVars>>

\* UPDATE ... WHERE id = ?, whatever published_at is by now.
MarkOk(r) ==
    /\ pc[r] = "mark"
    /\ row' = [row EXCEPT ![Current(batch[r])] = "published"]
    /\ IF batch[r] = {Current(batch[r])}
         THEN Return(r)
         ELSE /\ Goto(r, "publish")
              /\ batch' = [batch EXCEPT ![r] = @ \ {Current(@)}]
              /\ UNCHANGED snap
    /\ UNCHANGED <<sent, fault, lockVars>>

MarkErr(r) ==
    /\ pc[r] = "mark"
    /\ \/ row' = row /\ fault' = TRUE
       \/ row' = [row EXCEPT ![Current(batch[r])] = "published"] /\ fault' = fault
    /\ Return(r)
    /\ UNCHANGED <<sent, lockVars>>

\* process returned; Do's deferred Release runs before Process returns.
Finish(r) ==
    /\ pc[r] = "return"
    /\ Goto(r, "idle")
    /\ IF UseLock THEN L!DoReturn(r) ELSE UNCHANGED lockVars
    /\ UNCHANGED <<row, sent, batch, snap, fault>>

\* The replica dies in the middle of Process, and is restarted.
Crash(r) ==
    /\ pc[r] # "idle"
    /\ Goto(r, "idle")
    /\ batch' = [batch EXCEPT ![r] = {}]
    /\ snap' = [snap EXCEPT ![r] = {}]
    /\ fault' = (fault \/ pc[r] = "mark")
    /\ IF UseLock THEN L!Crash(r) ELSE UNCHANGED lockVars
    /\ UNCHANGED <<row, sent>>

\* Redis' clock: the lock may expire under a relay that is still at work.
Tick ==
    /\ UseLock
    /\ L!Tick
    /\ fault' = (fault \/ /\ left = 1
                          /\ \E r \in Relays : /\ tok = handle[r]
                                               /\ pc[r] \in {"load", "publish", "mark"})
    /\ UNCHANGED <<row, sent, pc, batch, snap>>

\* The steps that hand an event to the publisher, and all the others.
SendStep(r) == PublishOk(r) \/ PublishLostReply(r)

QuietStep(r) ==
    \/ Process(r) \/ LoadOk(r) \/ LoadErr(r) \/ PublishErr(r)
    \/ MarkOk(r) \/ MarkErr(r) \/ Finish(r) \/ Crash(r)

ProducerStep == \E i \in Ids : Enqueue(i) \/ EndTx(i)

Next ==
    \/ ProducerStep
    \/ \E r \in Relays : SendStep(r) \/ QuietStep(r)
    \/ Tick

Spec == Init /\ [][Next]_vars

\* The ticker of Run fires for ever, statements end, and none of the calls fails
\* every time it is tried: what is retried for ever succeeds some time.
RelayFairness(r) ==
    /\ SF_vars(Process(r) /\ pc'[r] = "load")
    /\ SF_vars(LoadOk(r)) /\ SF_vars(PublishOk(r)) /\ SF_vars(MarkOk(r))
    /\ WF_vars(Finish(r))

FairSpec == Spec /\ WF_vars(Tick) /\ \A r \in Relays : RelayFairness(r)

-----------------------------------------------------------------------------
(* Properties. *)

\* A row is marked published only after a Publish of that event, and only
\* events whose business transaction committed are ever published: Process
\* neither loses an event nor leaks one of a rolled-back transaction, through
\* crashes, failed calls and relays working on stale batches.
PublishedIffSent ==
    \A i \in Ids :
        /\ row[i] = "published" => sent[i] > 0
        /\ sent[i] > 0 => row[i] \in {"pending", "published"}

\* Process publishes "oldest first": when a relay is about to publish an event,
\* each older event that was pending when it loaded the batch has been published
\* (a failed Publish stops the batch).
OldestFirst ==
    \A r \in Relays : pc[r] = "publish" =>
        \A i \in snap[r] : i < Current(batch[r]) => sent[i] > 0

\* With a lock, duplicates have a cause: a crash or an error between Publish and
\* its UPDATE, or a lock that expired under a working relay.  Without these, two
\* replicas that run relays never publish an event twice.
NoDuplicateWithoutFault ==
    UseLock /\ ~fault => \A i \in Ids : sent[i] <= 1

\* Every committed event is published in the end, also after crashes of lock
\* holders and transient failures (Run retries on every tick).
EventuallyPublished ==
    \A i \in Ids : (row[i] = "pending") ~> (row[i] = "published")
=============================================================================
