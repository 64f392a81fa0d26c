--------------------------- MODULE DeliveryProofs ---------------------------
(***************************************************************************)
(* The safety properties of modules Outbox and Delivery, for any number of *)
(* relays, rows and workers, any batch size, with and without a lock, and  *)
(* over both transports.  What the relay lock guarantees is taken from     *)
(* LockProofs, by showing that the relays use the lock as Lock allows.     *)
(***************************************************************************)
EXTENDS Delivery, FiniteSetTheorems, WellFoundedInduction, TLAPS

LP == INSTANCE LockProofs WITH Clients <- Relays, TTLs <- {LockTTL}, Ms <- 1

-----------------------------------------------------------------------------
(* The batch. *)

\* A nonempty set of ids has a smallest one, so the loop over a batch always
\* has an event to be at.
LEMMA CurrentIsLeast ==
    ASSUME NEW S \in SUBSET Ids, S # {}
    PROVE  Current(S) \in S /\ \A j \in S : Current(S) <= j
<1> DEFINE Less == {p \in Nat \X Nat : p[1] < p[2]}
<1>1. OpToRel(<, Nat) = Less
  BY Zenon DEF OpToRel
<1>2. S \subseteq Nat
  BY MaxIdAssumption DEF Ids
<1>3. \E i \in S : \A j \in S : <<j, i>> \notin Less
  <2> HIDE DEF Less
  <2> QED
    BY <1>1, <1>2, NatLessThanWellFounded, WFMin
<1>4. \E i \in S : \A j \in S : i <= j
  <2>1. PICK i \in S : \A j \in S : <<j, i>> \notin Less
    BY <1>3
  <2>2. ASSUME NEW j \in S PROVE i <= j
    <3>1. i \in Nat /\ j \in Nat
      BY <1>2
    <3>2. j < i => <<j, i>> \in Less
      BY <3>1
    <3> QED
      BY <2>1, <3>1, <3>2
  <2> QED
    BY <2>2
<1> QED
  BY <1>4 DEF Current

\* LIMIT batchSize returns the oldest pending rows, and some when there are any.
LEMMA BatchIsOldest ==
    /\ PendingBatch \subseteq Pending
    /\ Pending # {} => PendingBatch # {}
    /\ \A i \in Pending \ PendingBatch, j \in PendingBatch : j < i
<1> DEFINE Before(i) == {j \in Pending : j < i}
<1>1. Pending \subseteq Ids /\ \A i \in Pending : i \in Nat
  BY MaxIdAssumption DEF Ids, Pending
<1>2. IsFiniteSet(Pending)
  <2>1. IsFiniteSet(Ids)
    BY MaxIdAssumption, FS_Interval DEF Ids
  <2> QED
    BY <1>1, <2>1, FS_Subset
<1>3. \A i \in Pending : IsFiniteSet(Before(i)) /\ Cardinality(Before(i)) \in Nat
  BY <1>2, FS_Subset, FS_CardinalityType
<1>4. ASSUME Pending # {} PROVE PendingBatch # {}
  <2>1. /\ Current(Pending) \in Pending
        /\ \A j \in Pending : Current(Pending) <= j
    BY <1>1, <1>4, CurrentIsLeast
  <2>2. Before(Current(Pending)) = {}
    <3>1. \A j \in Pending : ~(j < Current(Pending))
      BY <1>1, <2>1
    <3> QED
      BY <3>1
  <2>3. Cardinality(Before(Current(Pending))) < BatchSize
    BY <2>2, FS_EmptySet, BatchSizeAssumption
  <2> QED
    BY <2>1, <2>3 DEF PendingBatch
<1>5. ASSUME NEW i \in Pending \ PendingBatch, NEW j \in PendingBatch, ~(j < i)
      PROVE  FALSE
  <2>1. i \in Nat /\ j \in Nat /\ i <= j /\ i \in Pending /\ j \in Pending
    <3>1. i \in Pending /\ j \in Pending
      BY DEF PendingBatch
    <3> QED
      BY <1>1, <1>5, <3>1
  <2>2. \A k \in Pending : k < i => k < j
    BY <1>1, <2>1
  <2>3. Before(i) \subseteq Before(j)
    BY <2>2
  <2>4. Cardinality(Before(i)) <= Cardinality(Before(j))
    BY <1>3, <2>1, <2>3, FS_Subset
  <2>5. Cardinality(Before(j)) < BatchSize /\ ~(Cardinality(Before(i)) < BatchSize)
    BY DEF PendingBatch
  <2> QED
    BY <1>3, <2>1, <2>4, <2>5, BatchSizeAssumption
<1>6. PendingBatch \subseteq Pending
  BY DEF PendingBatch
<1> QED
  BY <1>4, <1>5, <1>6

-----------------------------------------------------------------------------
(* Outbox. *)

RelayTypes ==
    /\ row \in [Ids -> RowState]
    /\ sent \in [Ids -> 0..2]
    /\ pc \in [Relays -> {"idle", "load", "publish", "mark", "return"}]
    /\ batch \in [Relays -> SUBSET Ids]
    /\ snap \in [Relays -> SUBSET Ids]
    /\ fault \in BOOLEAN

AtBatch(r) == pc[r] \in {"publish", "mark"}
Working(r) == pc[r] = "load" \/ AtBatch(r)

\* A relay in its loop has an event to be at, and works on committed rows; what
\* it is about to mark went out.
BatchCommitted ==
    \A r \in Relays :
        /\ AtBatch(r) => batch[r] # {}
        /\ AtBatch(r) => \A i \in batch[r] : row[i] \in {"pending", "published"}
        /\ pc[r] = "mark" => sent[Current(batch[r])] > 0

\* What was pending at the load and is not in the batch any more was sent, or
\* is younger than the whole rest of the batch.
BatchInOrder ==
    \A r \in Relays : AtBatch(r) =>
        \A i \in snap[r] \ batch[r] : sent[i] > 0 \/ \A j \in batch[r] : j < i

\* Without a fault the relay at work owns the lock, ...
WorkerOwnsLock ==
    UseLock /\ ~fault =>
        \A r \in Relays : Working(r) => handle[r] # NoToken /\ tok = handle[r]

\* ... nobody else touches its batch, ...
BatchStillPending ==
    UseLock /\ ~fault =>
        \A r \in Relays : AtBatch(r) => \A i \in batch[r] : row[i] = "pending"

\* ... and a pending event that went out is the one it is about to mark.
SentIsMarkedNext ==
    UseLock /\ ~fault =>
        \A i \in Ids : row[i] = "pending" /\ sent[i] > 0 =>
            \E r \in Relays : pc[r] = "mark" /\ i = Current(batch[r])

OutboxInv ==
    /\ RelayTypes /\ PublishedIffSent
    /\ BatchCommitted /\ BatchInOrder
    /\ WorkerOwnsLock /\ BatchStillPending /\ SentIsMarkedNext
    /\ NoDuplicateWithoutFault

-----------------------------------------------------------------------------
\* The relays use the lock as module Lock allows: Do, its return, a crash.
LEMMA RelaysUseLock == Spec => LP!Spec
<1>1. Init => LP!Init
  BY DEF Init, L!Init, LP!Init
<1>2. ASSUME [Next]_vars PROVE [LP!Next]_(LP!vars)
  <2>1. ASSUME NEW r \in Relays, L!Do(r, LockTTL) PROVE LP!Next
    <3>1. LP!Do(r, LockTTL)
      BY <2>1 DEF L!Do, L!Granted, L!Refused, L!Failed, L!Dropped, L!SetNX, L!SetNXMs,
                  L!FreshToken, L!Never, LP!Do, LP!Granted, LP!Refused, LP!Failed,
                  LP!Dropped, LP!SetNX, LP!SetNXMs, LP!FreshToken, LP!Never
    <3> QED
      BY <3>1 DEF LP!Next
  <2>2. ASSUME NEW r \in Relays, L!DoReturn(r) PROVE LP!Next
    <3>1. LP!DoReturn(r)
      BY <2>2 DEF L!DoReturn, L!Dropped, L!releaseScript,
                  LP!DoReturn, LP!Dropped, LP!releaseScript
    <3> QED
      BY <3>1 DEF LP!Next
  <2>3. ASSUME NEW r \in Relays, L!Crash(r) PROVE LP!Next
    <3>1. LP!Crash(r)
      BY <2>3 DEF L!Crash, L!Dropped, LP!Crash, LP!Dropped
    <3> QED
      BY <3>1 DEF LP!Next
  <2>4. ASSUME L!Tick PROVE LP!Next
    <3>1. LP!Tick
      BY <2>4 DEF L!Tick, L!Less, LP!Tick, LP!Less
    <3> QED
      BY <3>1 DEF LP!Next
  <2>5. UNCHANGED lockVars => UNCHANGED LP!vars
    BY DEF lockVars, LP!vars
  <2> QED
    BY <1>2, <2>1, <2>2, <2>3, <2>4, <2>5
       DEF Next, vars, ProducerStep, Enqueue, EndTx, SendStep, QuietStep, Process,
           LoadOk, LoadErr, PublishOk, PublishErr, PublishLostReply, MarkOk, MarkErr,
           Finish, Crash, Tick
<1> QED
  BY <1>1, <1>2, PTL DEF Spec, LP!Spec

\* So what is proved of Lock holds of the relay lock. The assumptions of Lock are
\* those of Outbox, and that LockTTL is counted in whole milliseconds.
LEMMA LockHolds == Spec => []LP!IInv
<1>1. NoToken \notin Tokens /\ {LockTTL} \subseteq Nat /\ 1 \in Nat \ {0}
  BY TokensAssumption, LockTTLAssumption
<1> QED
  BY <1>1, RelaysUseLock, LP!Inductive, PTL

-----------------------------------------------------------------------------
\* Taking the lock, or failing to, never takes it from the relay at work.
LEMMA DoKeepsOwner ==
    ASSUME OutboxInv, LP!IInv, UseLock, NEW r \in Relays, pc[r] = "idle",
           L!Do(r, LockTTL), Goto(r, IF st'[r] = "do" THEN "load" ELSE "idle"),
           UNCHANGED <<row, sent, batch, snap, fault>>
    PROVE  OutboxInv'
<1> USE TokensAssumption DEF OutboxInv, Goto
<1>1. RelayTypes' /\ PublishedIffSent'
  BY DEF RelayTypes, PublishedIffSent
<1>2. \A s \in Relays : AtBatch(s)' <=> AtBatch(s)
  BY DEF RelayTypes, AtBatch
<1>3. BatchCommitted' /\ BatchInOrder'
  BY <1>2 DEF RelayTypes, BatchCommitted, BatchInOrder, AtBatch
<1>4. BatchStillPending' /\ SentIsMarkedNext' /\ NoDuplicateWithoutFault'
  BY <1>2 DEF RelayTypes, BatchStillPending, SentIsMarkedNext, NoDuplicateWithoutFault
<1>5. WorkerOwnsLock'
  <2> SUFFICES ASSUME ~fault, NEW s \in Relays, Working(s)'
               PROVE  (handle[s] # NoToken /\ tok = handle[s])'
    BY DEF WorkerOwnsLock
  <2> USE DEF L!Granted, L!Refused, L!Failed, L!Dropped, L!SetNX
  <2>1. handle \in [Relays -> Tokens \cup {NoToken}] /\ st \in [Relays -> LP!Status]
    BY DEF LP!IInv, LP!TypeOK
  <2>2. CASE s = r
    <3>1. st'[r] = "do"
      BY <2>2 DEF RelayTypes, Working, AtBatch
    <3>2. L!Granted(r, LockTTL, "do")
      BY <2>1, <3>1 DEF L!Do
    <3> QED
      BY <2>1, <2>2, <3>2
  <2>3. CASE s # r
    <3>1. Working(s)
      BY <2>3 DEF RelayTypes, Working, AtBatch
    <3>2. handle[s] # NoToken /\ tok = handle[s]
      BY <3>1 DEF WorkerOwnsLock
    <3> QED
      BY <2>1, <2>3, <3>2 DEF L!Do
  <2> QED
    BY <2>2, <2>3
<1> QED
  BY <1>1, <1>3, <1>4, <1>5

\* A relay whose batch is over, for whatever reason, leaves the others alone. When
\* it was about to mark an event, that is a fault.
LEMMA LeavingKeeps ==
    ASSUME OutboxInv, NEW r \in Relays, NEW p \in {"idle", "return"},
           pc' = [pc EXCEPT ![r] = p],
           batch' = [batch EXCEPT ![r] = {}], snap' = [snap EXCEPT ![r] = {}],
           UNCHANGED <<row, sent>>,
           fault' \in BOOLEAN, fault => fault', pc[r] = "mark" => fault',
           \A s \in Relays \ {r} :
              handle[s] # NoToken /\ tok = handle[s] =>
                  handle'[s] = handle[s] /\ tok' = tok
    PROVE  OutboxInv'
<1> USE DEF OutboxInv
<1>1. RelayTypes' /\ PublishedIffSent' /\ NoDuplicateWithoutFault'
  BY DEF RelayTypes, PublishedIffSent, NoDuplicateWithoutFault
<1>2. /\ ~AtBatch(r)' /\ ~Working(r)'
      /\ \A s \in Relays \ {r} : /\ pc'[s] = pc[s]
                                 /\ batch'[s] = batch[s] /\ snap'[s] = snap[s]
                                 /\ AtBatch(s)' <=> AtBatch(s)
                                 /\ Working(s)' <=> Working(s)
  BY DEF RelayTypes, AtBatch, Working
<1>3. BatchCommitted'
  BY <1>2 DEF BatchCommitted, AtBatch
<1>4. BatchInOrder'
  BY <1>2 DEF BatchInOrder
<1>5. BatchStillPending'
  BY <1>2 DEF BatchStillPending
<1>6. WorkerOwnsLock'
  BY <1>2 DEF WorkerOwnsLock
<1>7. SentIsMarkedNext'
  BY <1>2 DEF SentIsMarkedNext
<1> QED
  BY <1>1, <1>3, <1>4, <1>5, <1>6, <1>7

\* The batch a relay loads is in order, and with the lock nothing in it went out.
LEMMA LoadKeeps ==
    ASSUME OutboxInv, NEW r \in Relays, LoadOk(r)
    PROVE  OutboxInv'
<1> USE DEF OutboxInv
<1>1. CASE Pending = {}
  BY <1>1, LeavingKeeps DEF LoadOk, Return, Goto, lockVars, RelayTypes
<1>2. CASE Pending # {}
  <2>1. /\ pc[r] = "load" /\ pc' = [pc EXCEPT ![r] = "publish"]
        /\ batch' = [batch EXCEPT ![r] = PendingBatch]
        /\ snap' = [snap EXCEPT ![r] = Pending]
        /\ UNCHANGED <<row, sent, fault, tok, handle>>
    BY <1>2 DEF LoadOk, Goto, lockVars
  <2>2. PendingBatch # {} /\ PendingBatch \subseteq Pending /\ Pending \subseteq Ids
    BY <1>2, BatchIsOldest DEF Pending
  <2>3. RelayTypes' /\ PublishedIffSent' /\ NoDuplicateWithoutFault'
    BY <2>1, <2>2 DEF RelayTypes, PublishedIffSent, NoDuplicateWithoutFault
  <2>4. /\ pc'[r] = "publish" /\ batch'[r] = PendingBatch /\ snap'[r] = Pending
        /\ \A s \in Relays \ {r} : /\ pc'[s] = pc[s]
                                   /\ batch'[s] = batch[s] /\ snap'[s] = snap[s]
    BY <2>1 DEF RelayTypes
  <2>5. \A i \in Pending : row[i] = "pending"
    BY DEF Pending
  <2>6. BatchCommitted'
    BY <2>1, <2>2, <2>4, <2>5 DEF BatchCommitted, AtBatch
  <2>7. BatchInOrder'
    BY <2>1, <2>4, BatchIsOldest DEF BatchInOrder, AtBatch
  <2>8. WorkerOwnsLock'
    BY <2>1, <2>4 DEF WorkerOwnsLock, Working, AtBatch
  <2>9. BatchStillPending'
    BY <2>1, <2>2, <2>4, <2>5 DEF BatchStillPending, AtBatch
  <2>10. SentIsMarkedNext'
    BY <2>1, <2>4 DEF SentIsMarkedNext
  <2> QED
    BY <2>3, <2>6, <2>7, <2>8, <2>9, <2>10
<1> QED
  BY <1>1, <1>2

\* Only one relay works as long as nothing went wrong.
LEMMA OneWorker ==
    ASSUME OutboxInv, LP!IInv, UseLock, ~fault,
           NEW r \in Relays, NEW s \in Relays, Working(r), Working(s)
    PROVE  r = s
BY DEF OutboxInv, WorkerOwnsLock, LP!IInv, LP!HandlesDistinct

\* Handing an event to the publisher, whether its reply arrives or is lost.
LEMMA SendKeeps ==
    ASSUME OutboxInv, LP!IInv, NEW r \in Relays, SendStep(r)
    PROVE  OutboxInv'
<1> USE DEF OutboxInv
<1> DEFINE c == Current(batch[r])
<1>1. pc[r] = "publish" /\ row' = row /\ Sent(c) /\ UNCHANGED <<tok, handle>>
  BY DEF SendStep, PublishOk, PublishLostReply, lockVars
<1>2. /\ batch[r] \in SUBSET Ids /\ batch[r] # {}
      /\ \A i \in batch[r] : row[i] \in {"pending", "published"}
  BY <1>1 DEF RelayTypes, BatchCommitted, AtBatch
<1>3. c \in batch[r] /\ c \in Ids /\ row[c] \in {"pending", "published"}
  BY <1>2, CurrentIsLeast
<1> HIDE DEF c
<1>4. /\ sent' \in [Ids -> 0..2] /\ sent'[c] > 0
      /\ \A i \in Ids : i # c => sent'[i] = sent[i]
      /\ \A i \in Ids : sent[i] > 0 => sent'[i] > 0
  BY <1>1, <1>3 DEF Sent, RelayTypes
<1>5. PublishedIffSent'
  BY <1>1, <1>3, <1>4 DEF PublishedIffSent
<1>6. ASSUME UseLock, ~fault PROVE sent[c] = 0 /\ sent'[c] = 1
  <2>1. row[c] = "pending"
    BY <1>1, <1>3, <1>6 DEF BatchStillPending, AtBatch
  <2>2. \A s \in Relays : pc[s] # "mark"
    BY <1>1, <1>6, OneWorker DEF Working, AtBatch
  <2>3. ~(sent[c] > 0)
    BY <1>3, <1>6, <2>1, <2>2 DEF SentIsMarkedNext
  <2> QED
    BY <1>1, <1>3, <2>3 DEF Sent, RelayTypes
<1>7. CASE PublishOk(r)
  <2>1. /\ pc' = [pc EXCEPT ![r] = "mark"]
        /\ UNCHANGED <<batch, snap, fault>>
    BY <1>7 DEF PublishOk, Goto
  <2>2. RelayTypes'
    BY <1>1, <1>4, <2>1 DEF RelayTypes
  <2>3. /\ pc'[r] = "mark"
        /\ \A s \in Relays : /\ AtBatch(s)' <=> AtBatch(s)
                             /\ Working(s)' <=> Working(s)
                             /\ s # r => pc'[s] = pc[s]
    BY <1>1, <2>1 DEF RelayTypes, AtBatch, Working
  <2>4. \A s \in Relays : pc[s] = "mark" => Current(batch[s]) \in Ids
    BY CurrentIsLeast DEF BatchCommitted, RelayTypes, AtBatch
  <2>5. BatchCommitted'
    <3>1. \A s \in Relays : pc'[s] = "mark" => sent'[Current(batch[s])] > 0
      BY <1>4, <2>3, <2>4 DEF BatchCommitted, c
    <3> QED
      BY <1>1, <2>1, <2>3, <3>1 DEF BatchCommitted
  <2>6. BatchInOrder'
    BY <1>4, <2>1, <2>3 DEF BatchInOrder, RelayTypes
  <2>7. WorkerOwnsLock' /\ BatchStillPending'
    BY <1>1, <2>1, <2>3 DEF WorkerOwnsLock, BatchStillPending
  <2>8. SentIsMarkedNext'
    <3> SUFFICES ASSUME UseLock, ~fault, NEW i \in Ids, row[i] = "pending", sent'[i] > 0
                 PROVE  \E s \in Relays : pc'[s] = "mark" /\ i = Current(batch[s])
      BY <1>1, <2>1 DEF SentIsMarkedNext
    <3>1. CASE i = c
      BY <2>3, <3>1 DEF c
    <3>2. CASE i # c
      BY <1>1, <1>4, <2>3, <3>2 DEF SentIsMarkedNext
    <3> QED
      BY <3>1, <3>2
  <2>9. NoDuplicateWithoutFault'
    BY <1>4, <1>6, <2>1 DEF NoDuplicateWithoutFault
  <2> QED
    BY <1>5, <2>2, <2>5, <2>6, <2>7, <2>8, <2>9
<1>8. CASE PublishLostReply(r)
  <2>1. /\ pc' = [pc EXCEPT ![r] = "return"] /\ fault' = TRUE
        /\ batch' = [batch EXCEPT ![r] = {}] /\ snap' = [snap EXCEPT ![r] = {}]
    BY <1>8 DEF PublishLostReply, Return, Goto
  <2>2. RelayTypes'
    BY <1>1, <1>4, <2>1 DEF RelayTypes
  <2>3. /\ ~AtBatch(r)'
        /\ \A s \in Relays \ {r} : /\ pc'[s] = pc[s]
                                   /\ batch'[s] = batch[s] /\ snap'[s] = snap[s]
                                   /\ AtBatch(s)' <=> AtBatch(s)
    BY <2>1 DEF RelayTypes, AtBatch
  <2>4. \A s \in Relays : pc[s] = "mark" => Current(batch[s]) \in Ids
    BY CurrentIsLeast DEF BatchCommitted, RelayTypes, AtBatch
  <2>5. BatchCommitted'
    BY <1>1, <1>4, <2>3, <2>4 DEF BatchCommitted, AtBatch
  <2>6. BatchInOrder'
    BY <1>4, <2>3 DEF BatchInOrder, RelayTypes
  <2> QED
    BY <1>5, <2>1, <2>2, <2>5, <2>6
       DEF WorkerOwnsLock, BatchStillPending, SentIsMarkedNext, NoDuplicateWithoutFault
<1> QED
  BY <1>7, <1>8 DEF SendStep

\* The UPDATE that marks the current event, seen by all relays: the event went out.
LEMMA MarkedRow ==
    ASSUME OutboxInv, NEW r \in Relays, pc[r] = "mark",
           row' = [row EXCEPT ![Current(batch[r])] = "published"]
    PROVE  /\ Current(batch[r]) \in batch[r] /\ Current(batch[r]) \in Ids
           /\ sent[Current(batch[r])] > 0
           /\ row' \in [Ids -> RowState]
           /\ row'[Current(batch[r])] = "published"
           /\ \A i \in Ids : i # Current(batch[r]) => row'[i] = row[i]
<1>1. batch[r] \in SUBSET Ids /\ batch[r] # {} /\ sent[Current(batch[r])] > 0
  BY DEF OutboxInv, RelayTypes, BatchCommitted, AtBatch
<1>2. Current(batch[r]) \in batch[r]
  BY <1>1, CurrentIsLeast
<1> QED
  BY <1>1, <1>2 DEF OutboxInv, RelayTypes, RowState

\* Marking, whether its reply arrives or is lost, and an UPDATE without effect.
LEMMA MarkKeeps ==
    ASSUME OutboxInv, LP!IInv, NEW r \in Relays, MarkOk(r) \/ MarkErr(r)
    PROVE  OutboxInv'
<1> USE DEF OutboxInv
<1> DEFINE c == Current(batch[r])
           Marked == row' = [row EXCEPT ![c] = "published"]
           Over == /\ pc' = [pc EXCEPT ![r] = "return"]
                   /\ batch' = [batch EXCEPT ![r] = {}]
                   /\ snap' = [snap EXCEPT ![r] = {}]
           Goes == /\ pc' = [pc EXCEPT ![r] = "publish"]
                   /\ batch' = [batch EXCEPT ![r] = batch[r] \ {c}]
                   /\ snap' = snap /\ batch[r] # {c}
<1>1. pc[r] = "mark" /\ UNCHANGED <<sent, tok, handle>>
  BY DEF MarkOk, MarkErr, lockVars
<1>2. CASE row' = row /\ fault' = TRUE /\ Over
  BY <1>1, <1>2, LeavingKeeps
<1>3. CASE Marked /\ fault' = fault /\ (Over \/ Goes)
  <2>1. /\ c \in batch[r] /\ c \in Ids /\ sent[c] > 0 /\ row' \in [Ids -> RowState]
        /\ row'[c] = "published" /\ \A i \in Ids : i # c => row'[i] = row[i]
    BY <1>1, <1>3, MarkedRow
  <2> HIDE DEF c
  <2>2. RelayTypes'
    BY <1>1, <1>3, <2>1 DEF RelayTypes
  <2>3. /\ pc'[r] # "mark"
        /\ AtBatch(r)' => Goes
        /\ batch'[r] \subseteq batch[r] \ {c}
        /\ \A s \in Relays \ {r} : /\ pc'[s] = pc[s]
                                   /\ batch'[s] = batch[s] /\ snap'[s] = snap[s]
        /\ \A s \in Relays : /\ AtBatch(s)' => AtBatch(s)
                             /\ Working(s)' => Working(s)
                             /\ batch'[s] \subseteq batch[s] /\ batch[s] \subseteq Ids
    BY <1>1, <1>3 DEF RelayTypes, AtBatch, Working
  <2>4. PublishedIffSent'
    <3>1. sent[c] > 0
      BY <2>1
    <3>2. \A i \in Ids : row'[i] = "published" => sent[i] > 0
      BY <2>1, <3>1 DEF PublishedIffSent
    <3>3. \A i \in Ids : sent[i] > 0 => row'[i] \in {"pending", "published"}
      BY <2>1 DEF PublishedIffSent
    <3> QED
      BY <1>1, <3>2, <3>3 DEF PublishedIffSent
  <2>5. BatchCommitted'
    <3>1. ASSUME NEW s \in Relays, AtBatch(s)' PROVE batch'[s] # {}
      <4>1. CASE s = r
        BY <2>1, <2>3, <3>1, <4>1 DEF RelayTypes
      <4>2. CASE s # r
        BY <2>3, <3>1, <4>2 DEF BatchCommitted
      <4> QED
        BY <4>1, <4>2
    <3>2. ASSUME NEW s \in Relays, AtBatch(s)', NEW i \in batch'[s]
          PROVE  row'[i] \in {"pending", "published"}
      <4>1. i \in Ids /\ row[i] \in {"pending", "published"}
        BY <2>3, <3>2 DEF BatchCommitted
      <4> QED
        BY <2>1, <4>1
    <3>3. ASSUME NEW s \in Relays, pc'[s] = "mark" PROVE sent'[Current(batch'[s])] > 0
      BY <1>1, <2>3, <3>3 DEF BatchCommitted
    <3> QED
      BY <3>1, <3>2, <3>3 DEF BatchCommitted
  <2>6. BatchInOrder'
    <3> SUFFICES ASSUME NEW s \in Relays, AtBatch(s)', NEW i \in snap'[s], i \notin batch'[s]
                 PROVE  sent[i] > 0 \/ \A j \in batch'[s] : j < i
      BY <1>1 DEF BatchInOrder
    <3>1. CASE s # r
      BY <2>3, <3>1 DEF BatchInOrder
    <3>2. CASE s = r /\ i = c
      BY <2>1, <3>2
    <3>3. CASE s = r /\ i # c
      <4>1. i \in snap[r] /\ i \notin batch[r]
        BY <2>3, <3>3 DEF RelayTypes
      <4> QED
        BY <1>1, <2>3, <3>3, <4>1 DEF BatchInOrder, AtBatch
    <3> QED
      BY <3>1, <3>2, <3>3
  <2>7. WorkerOwnsLock'
    BY <1>1, <1>3, <2>3 DEF WorkerOwnsLock
  <2>8. BatchStillPending'
    <3> SUFFICES ASSUME UseLock, ~fault, NEW s \in Relays, AtBatch(s)', NEW i \in batch'[s]
                 PROVE  row'[i] = "pending"
      BY <1>3 DEF BatchStillPending
    <3>1. s = r
      BY <1>1, <2>3, OneWorker DEF Working, AtBatch
    <3>2. i # c /\ i \in batch[r] /\ i \in Ids
      BY <2>3, <3>1
    <3> QED
      BY <1>1, <2>1, <3>2 DEF BatchStillPending, AtBatch
  <2>9. SentIsMarkedNext'
    <3> SUFFICES ASSUME UseLock, ~fault, NEW i \in Ids, row'[i] = "pending", sent[i] > 0
                 PROVE  \E s \in Relays : pc'[s] = "mark" /\ i = Current(batch'[s])
      BY <1>1, <1>3 DEF SentIsMarkedNext
    <3>1. i # c /\ row[i] = "pending"
      BY <2>1
    <3>2. PICK s \in Relays : pc[s] = "mark" /\ i = Current(batch[s])
      BY <3>1 DEF SentIsMarkedNext
    <3> QED
      BY <2>3, <3>1, <3>2 DEF c
  <2>10. NoDuplicateWithoutFault'
    BY <1>1, <1>3 DEF NoDuplicateWithoutFault
  <2> QED
    BY <2>2, <2>4, <2>5, <2>6, <2>7, <2>8, <2>9, <2>10
<1> QED
  BY <1>2, <1>3 DEF MarkOk, MarkErr, Return, Goto

\* A producer's INSERT, commit or rollback touches no committed row.
LEMMA ProducerKeeps ==
    ASSUME OutboxInv, ProducerStep
    PROVE  OutboxInv'
<1> USE DEF OutboxInv
<1>1. PICK n \in Ids : Enqueue(n) \/ EndTx(n)
  BY DEF ProducerStep
<1>2. /\ row[n] \in {"none", "open"}
      /\ \E v \in {"open", "pending", "aborted"} : row' = [row EXCEPT ![n] = v]
      /\ UNCHANGED <<sent, pc, batch, snap, fault, tok, handle>>
  BY <1>1 DEF Enqueue, EndTx, lockVars
<1>3. /\ row' \in [Ids -> RowState] /\ row'[n] # "published"
      /\ \A i \in Ids : i # n => row'[i] = row[i]
      /\ ~(sent[n] > 0)
  BY <1>2 DEF RelayTypes, RowState, PublishedIffSent
<1>4. RelayTypes' /\ PublishedIffSent' /\ NoDuplicateWithoutFault'
  BY <1>2, <1>3 DEF RelayTypes, PublishedIffSent, NoDuplicateWithoutFault
<1>5. ASSUME NEW r \in Relays, AtBatch(r) PROVE n \notin batch[r] /\ batch[r] \subseteq Ids
  BY <1>2, <1>5 DEF RelayTypes, BatchCommitted
<1>6. BatchCommitted' /\ BatchInOrder'
  BY <1>2, <1>3, <1>5 DEF BatchCommitted, BatchInOrder, AtBatch
<1>7. WorkerOwnsLock'
  BY <1>2 DEF WorkerOwnsLock, Working, AtBatch
<1>8. BatchStillPending'
  BY <1>2, <1>3, <1>5 DEF BatchStillPending, AtBatch
<1>9. SentIsMarkedNext'
  BY <1>2, <1>3 DEF SentIsMarkedNext
<1> QED
  BY <1>4, <1>6, <1>7, <1>8, <1>9

\* Do's Release, and a crash, take the lock from no other relay.
LEMMA FinishKeeps ==
    ASSUME OutboxInv, LP!IInv, NEW r \in Relays, Finish(r) \/ Crash(r)
    PROVE  OutboxInv'
<1>1. handle \in [Relays -> Tokens \cup {NoToken}]
  BY DEF LP!IInv, LP!TypeOK
<1>2. ASSUME NEW s \in Relays \ {r}, handle[s] # NoToken, tok = handle[s]
      PROVE  handle'[s] = handle[s] /\ tok' = tok
  <2>1. handle[r] # handle[s]
    BY <1>2 DEF LP!IInv, LP!HandlesDistinct
  <2> QED
    BY <1>1, <1>2, <2>1
       DEF Finish, Crash, lockVars, L!DoReturn, L!Crash, L!Dropped, L!releaseScript
<1>3. CASE Finish(r)
  <2>1. ~Working(r) /\ pc[r] = "return" /\ UNCHANGED <<row, sent, batch, snap, fault>>
    BY <1>3 DEF Finish, Working, AtBatch
  <2>2. pc' = [pc EXCEPT ![r] = "idle"]
    BY <1>3 DEF Finish, Goto
  <2> USE DEF OutboxInv
  <2>3. \A s \in Relays : /\ AtBatch(s)' <=> AtBatch(s)
                          /\ Working(s)' <=> Working(s)
                          /\ pc'[s] = "mark" <=> pc[s] = "mark"
    BY <2>1, <2>2 DEF RelayTypes, AtBatch, Working
  <2>4. RelayTypes' /\ PublishedIffSent' /\ NoDuplicateWithoutFault'
    BY <2>1, <2>2 DEF RelayTypes, PublishedIffSent, NoDuplicateWithoutFault
  <2>5. BatchCommitted' /\ BatchInOrder'
    BY <2>1, <2>3 DEF BatchCommitted, BatchInOrder
  <2>6. BatchStillPending' /\ SentIsMarkedNext'
    BY <2>1, <2>3 DEF BatchStillPending, SentIsMarkedNext
  <2>7. WorkerOwnsLock'
    BY <1>2, <2>1, <2>3 DEF WorkerOwnsLock
  <2> QED
    BY <2>4, <2>5, <2>6, <2>7
<1>4. CASE Crash(r)
  <2>1. /\ pc' = [pc EXCEPT ![r] = "idle"]
        /\ batch' = [batch EXCEPT ![r] = {}] /\ snap' = [snap EXCEPT ![r] = {}]
        /\ UNCHANGED <<row, sent>> /\ fault' = (fault \/ pc[r] = "mark")
    BY <1>4 DEF Crash, Goto
  <2>2. fault' \in BOOLEAN /\ (fault => fault') /\ (pc[r] = "mark" => fault')
    BY <2>1 DEF OutboxInv, RelayTypes
  <2> QED
    BY <1>2, <2>1, <2>2, LeavingKeeps
<1> QED
  BY <1>3, <1>4

\* A lock that expires under its relay is a fault; under anyone else it is not.
LEMMA TickKeeps ==
    ASSUME OutboxInv, LP!IInv, Tick
    PROVE  OutboxInv'
<1> USE DEF OutboxInv
<1>1. /\ UNCHANGED <<row, sent, pc, batch, snap, handle>> /\ left \in Nat
      /\ tok' = IF left = 1 THEN NoToken ELSE tok
      /\ fault' = (fault \/ /\ left = 1
                            /\ \E r \in Relays : tok = handle[r] /\ Working(r))
  BY DEF Tick, L!Tick, LP!IInv, LP!TypeOK, LP!Never, Working, AtBatch
<1>2. fault' \in BOOLEAN /\ (fault => fault')
  BY <1>1 DEF RelayTypes
<1>3. RelayTypes' /\ PublishedIffSent' /\ NoDuplicateWithoutFault'
  BY <1>1, <1>2 DEF RelayTypes, PublishedIffSent, NoDuplicateWithoutFault
<1>4. BatchCommitted' /\ BatchInOrder'
  BY <1>1 DEF BatchCommitted, BatchInOrder, AtBatch
<1>5. BatchStillPending' /\ SentIsMarkedNext'
  BY <1>1, <1>2 DEF BatchStillPending, SentIsMarkedNext, AtBatch
<1>6. WorkerOwnsLock'
  BY <1>1, <1>2 DEF WorkerOwnsLock, Working, AtBatch
<1> QED
  BY <1>3, <1>4, <1>5, <1>6

\* The inductive invariant of the relays, on top of the lock's.
THEOREM OutboxInductive == Spec => []OutboxInv
<1>1. Init => OutboxInv
  <2> SUFFICES ASSUME Init PROVE OutboxInv
    OBVIOUS
  <2>1. /\ \A r \in Relays : pc[r] = "idle"
        /\ \A i \in Ids : row[i] = "none" /\ ~(sent[i] > 0) /\ sent[i] <= 1
    BY DEF Init
  <2>2. RelayTypes
    <3>1. row \in [Ids -> RowState] /\ sent \in [Ids -> 0..2]
      BY DEF Init, RowState
    <3>2. /\ pc \in [Relays -> {"idle", "load", "publish", "mark", "return"}]
          /\ batch \in [Relays -> SUBSET Ids] /\ snap \in [Relays -> SUBSET Ids]
      BY DEF Init
    <3>3. fault \in BOOLEAN
      BY DEF Init
    <3> QED
      BY <3>1, <3>2, <3>3 DEF RelayTypes
  <2>3. \A r \in Relays : ~AtBatch(r) /\ ~Working(r) /\ pc[r] # "mark"
    BY <2>1 DEF AtBatch, Working
  <2>4. PublishedIffSent /\ NoDuplicateWithoutFault
    BY <2>1 DEF PublishedIffSent, NoDuplicateWithoutFault
  <2>5. BatchCommitted /\ BatchInOrder /\ WorkerOwnsLock /\ BatchStillPending
    BY <2>3 DEF BatchCommitted, BatchInOrder, WorkerOwnsLock, BatchStillPending
  <2>6. SentIsMarkedNext
    BY <2>1 DEF SentIsMarkedNext
  <2> QED
    BY <2>2, <2>4, <2>5, <2>6 DEF OutboxInv
<1>2. OutboxInv /\ LP!IInv /\ [Next]_vars => OutboxInv'
  <2> SUFFICES ASSUME OutboxInv, LP!IInv, [Next]_vars PROVE OutboxInv'
    OBVIOUS
  <2>1. CASE ProducerStep
    BY <2>1, ProducerKeeps
  <2>2. ASSUME NEW r \in Relays, SendStep(r) PROVE OutboxInv'
    BY <2>2, SendKeeps
  <2>3. ASSUME NEW r \in Relays, Process(r) PROVE OutboxInv'
    <3>1. CASE UseLock
      BY <2>3, <3>1, DoKeepsOwner DEF Process
    <3>2. CASE ~UseLock
      BY <2>3, <3>2
         DEF Process, Goto, lockVars, OutboxInv, RelayTypes, PublishedIffSent,
             BatchCommitted, BatchInOrder, WorkerOwnsLock, BatchStillPending,
             SentIsMarkedNext, NoDuplicateWithoutFault, AtBatch
    <3> QED
      BY <3>1, <3>2
  <2>4. ASSUME NEW r \in Relays, LoadOk(r) PROVE OutboxInv'
    BY <2>4, LoadKeeps
  <2>5. ASSUME NEW r \in Relays, LoadErr(r) \/ PublishErr(r) PROVE OutboxInv'
    BY <2>5, LeavingKeeps DEF LoadErr, PublishErr, Return, Goto, lockVars, OutboxInv, RelayTypes
  <2>6. ASSUME NEW r \in Relays, MarkOk(r) \/ MarkErr(r) PROVE OutboxInv'
    BY <2>6, MarkKeeps
  <2>7. ASSUME NEW r \in Relays, Finish(r) \/ Crash(r) PROVE OutboxInv'
    BY <2>7, FinishKeeps
  <2>8. CASE Tick
    BY <2>8, TickKeeps
  <2>9. CASE UNCHANGED vars
    BY <2>9 DEF vars, lockVars, OutboxInv, RelayTypes, PublishedIffSent, BatchCommitted,
                BatchInOrder, WorkerOwnsLock, BatchStillPending, SentIsMarkedNext,
                NoDuplicateWithoutFault, AtBatch, Working
  <2> QED
    BY <2>1, <2>2, <2>3, <2>4, <2>5, <2>6, <2>7, <2>8, <2>9 DEF Next, QuietStep
<1> QED
  BY <1>1, <1>2, LockHolds, PTL DEF Spec

\* An event is marked published only after it went out, and only committed
\* events go out.
THEOREM PublishedIffSentTheorem == Spec => []PublishedIffSent
BY OutboxInductive, PTL DEF OutboxInv

\* The relay publishes oldest first: what is older and was pending at the load
\* has gone out.
THEOREM OldestFirstTheorem == Spec => []OldestFirst
<1>1. OutboxInv => OldestFirst
  <2> SUFFICES ASSUME OutboxInv, NEW r \in Relays, pc[r] = "publish",
                      NEW i \in snap[r], i < Current(batch[r])
               PROVE  sent[i] > 0
    BY DEF OldestFirst
  <2>1. batch[r] \in SUBSET Ids /\ batch[r] # {} /\ snap[r] \in SUBSET Ids
    BY DEF OutboxInv, RelayTypes, BatchCommitted, AtBatch
  <2>2. Current(batch[r]) \in batch[r] /\ \A j \in batch[r] : Current(batch[r]) <= j
    BY <2>1, CurrentIsLeast
  <2>3. i \in Nat /\ Current(batch[r]) \in Nat
    BY <2>1, <2>2, MaxIdAssumption DEF Ids
  <2> QED
    BY <2>2, <2>3 DEF OutboxInv, BatchInOrder, AtBatch
<1> QED
  BY <1>1, OutboxInductive, PTL

\* With the lock, a duplicate has a cause: an error or a crash between a Publish
\* and its UPDATE, or a lock that expired under a working relay.
THEOREM NoDuplicateTheorem == Spec => []NoDuplicateWithoutFault
BY OutboxInductive, PTL DEF OutboxInv

\* Every variable of Outbox keeps its type, the lock's included.
THEOREM OutboxTypeCorrect == Spec => []TypeOK
<1>1. OutboxInv /\ LP!IInv => TypeOK
  <2>1. LP!TypeOK => L!TypeOK
    BY DEF LP!TypeOK, LP!Status, LP!Never, L!TypeOK, L!Status, L!Never
  <2> QED
    BY <2>1 DEF OutboxInv, RelayTypes, TypeOK, LP!IInv
<1> QED
  BY <1>1, OutboxInductive, LockHolds, PTL

-----------------------------------------------------------------------------
(* Delivery. *)

InboxTypes ==
    /\ net \in [Workers -> [Ids -> 0..2]]
    /\ I!TypeOK

\* Only events that went out travel, and only these are worked on.
OnlySentTravel ==
    /\ \A w \in Workers, i \in Ids : net[w][i] > 0 => sent[i] > 0
    /\ \A w \in Workers : wpc[w] # "idle" => msg[w] \in Ids /\ sent[msg[w]] > 0

\* Whoever runs fn holds the uncommitted marker of its message, alone.
MarkerOfRunner ==
    /\ \A w \in Workers : wpc[w] = "fn" => marker[msg[w]] = "tx"
    /\ \A w, v \in Workers :
          wpc[w] = "fn" /\ wpc[v] = "fn" /\ msg[w] = msg[v] => w = v

\* Marker and effect are committed together.
MarkerIsEffect ==
    \A i \in Ids : effects[i] = IF marker[i] = "done" THEN 1 ELSE 0

DeliveryInv == InboxTypes /\ OnlySentTravel /\ MarkerOfRunner /\ MarkerIsEffect

-----------------------------------------------------------------------------
\* A step of the composition is one of the relays, or leaves the outbox alone.
LEMMA DeliveryIsOutbox == DeliverySpec => Spec
<1>1. DeliveryInit => Init
  BY DEF DeliveryInit
<1>2. [DeliveryNext]_allVars => [Next]_vars
  BY DEF DeliveryNext, allVars, Next, Relay, Handle, Receive
<1> QED
  BY <1>1, <1>2, PTL DEF DeliverySpec, Spec

\* A send never takes a count back, and counts only events of committed rows.
LEMMA SentGrows ==
    ASSUME OutboxInv, [Next]_vars
    PROVE  /\ \A i \in Ids : sent[i] > 0 => sent'[i] > 0
           /\ \A r \in Relays : SendStep(r) =>
                 /\ Current(batch[r]) \in Ids
                 /\ sent'[Current(batch[r])] > 0
<1>1. ASSUME NEW r \in Relays, SendStep(r)
      PROVE  /\ Current(batch[r]) \in Ids /\ sent'[Current(batch[r])] > 0
             /\ \A i \in Ids : sent[i] > 0 => sent'[i] > 0
  <2>1. pc[r] = "publish" /\ Sent(Current(batch[r]))
    BY <1>1 DEF SendStep, PublishOk, PublishLostReply
  <2>2. batch[r] \in SUBSET Ids /\ batch[r] # {}
    BY <2>1 DEF OutboxInv, RelayTypes, BatchCommitted, AtBatch
  <2>3. Current(batch[r]) \in Ids
    BY <2>2, CurrentIsLeast
  <2> QED
    BY <2>1, <2>3 DEF Sent, OutboxInv, RelayTypes
<1>2. (~\E r \in Relays : SendStep(r)) => sent' = sent
  BY DEF Next, vars, ProducerStep, Enqueue, EndTx, QuietStep, Process, LoadOk, LoadErr,
         PublishErr, MarkOk, MarkErr, Finish, Crash, Tick
<1> QED
  BY <1>1, <1>2

\* The invariant of the consumers, given the relays'.
THEOREM DeliveryInductive == DeliverySpec => []DeliveryInv
<1> USE DEF DeliveryInv
<1>1. DeliveryInit => DeliveryInv
  <2> SUFFICES ASSUME DeliveryInit PROVE DeliveryInv
    OBVIOUS
  <2>1. InboxTypes
    BY DEF DeliveryInit, InboxTypes, I!Init, I!TypeOK
  <2>2. OnlySentTravel /\ MarkerOfRunner /\ MarkerIsEffect
    BY DEF DeliveryInit, I!Init, OnlySentTravel, MarkerOfRunner, MarkerIsEffect
  <2> QED
    BY <2>1, <2>2
<1>2. OutboxInv /\ DeliveryInv /\ [DeliveryNext]_allVars => DeliveryInv'
  <2> SUFFICES ASSUME OutboxInv, DeliveryInv, [DeliveryNext]_allVars PROVE DeliveryInv'
    OBVIOUS
  <2>1. [Next]_vars
    BY DEF DeliveryNext, allVars, Next, Relay, Handle, Receive
  <2>2. \A i \in Ids : sent[i] > 0 => sent'[i] > 0
    BY <2>1, SentGrows
  <2>3. ASSUME UNCHANGED <<net, inboxVars>> PROVE DeliveryInv'
    BY <2>2, <2>3 DEF inboxVars, InboxTypes, I!TypeOK, OnlySentTravel, MarkerOfRunner,
                      MarkerIsEffect
  <2>4. ASSUME NEW r \in Relays, SendStep(r), Send(Current(batch[r])), UNCHANGED inboxVars
        PROVE  DeliveryInv'
    <3>1. Current(batch[r]) \in Ids /\ sent'[Current(batch[r])] > 0
      BY <2>1, <2>4, SentGrows
    <3>2. /\ net' \in [Workers -> [Ids -> 0..2]]
          /\ \A w \in Workers, i \in Ids : i # Current(batch[r]) => net'[w][i] = net[w][i]
      BY <2>4, <3>1 DEF Send, More, InboxTypes
    <3>3. InboxTypes' /\ OnlySentTravel'
      BY <2>2, <2>4, <3>1, <3>2 DEF inboxVars, InboxTypes, I!TypeOK, OnlySentTravel
    <3>4. MarkerOfRunner' /\ MarkerIsEffect'
      BY <2>4 DEF inboxVars, MarkerOfRunner, MarkerIsEffect
    <3> QED
      BY <3>3, <3>4
  <2>5. ASSUME NEW w \in Workers, NEW i \in Ids, Receive(w, i) PROVE DeliveryInv'
    <3> USE <2>5 DEF Receive, I!Begin, vars
    <3>1. /\ net' \in [Workers -> [Ids -> 0..2]] /\ sent' = sent /\ sent[i] > 0
          /\ \A v \in Workers, j \in Ids : net'[v][j] > 0 => net[v][j] > 0
      BY DEF InboxTypes, OnlySentTravel
    <3>2. InboxTypes'
      BY <3>1 DEF InboxTypes, I!TypeOK
    <3>3. OnlySentTravel'
      BY <3>1 DEF OnlySentTravel, InboxTypes, I!TypeOK
    <3>4. MarkerOfRunner' /\ MarkerIsEffect'
      BY DEF MarkerOfRunner, MarkerIsEffect, InboxTypes, I!TypeOK
    <3> QED
      BY <3>2, <3>3, <3>4
  <2>6. ASSUME NEW w \in Workers, Handle(w) PROVE DeliveryInv'
    <3>1. sent' = sent /\ wpc[w] # "idle" /\ msg[w] \in Ids /\ sent[msg[w]] > 0
      BY <2>6 DEF Handle, vars, I!Insert, I!Skip, I!Commit, I!Rollback, OnlySentTravel,
                  InboxTypes, I!TypeOK
    <3>2. /\ net' \in [Workers -> [Ids -> 0..2]]
          /\ \A v \in Workers, j \in Ids : net'[v][j] > 0 => sent[j] > 0
      <4>1. CASE UNCHANGED net
        BY <4>1 DEF InboxTypes, OnlySentTravel
      <4>2. CASE \E v \in Workers : net' = [net EXCEPT ![v][msg[w]] = More(@)]
        BY <3>1, <4>2 DEF InboxTypes, OnlySentTravel, More
      <4> QED
        BY <2>6, <4>1, <4>2 DEF Handle, Nack
    <3>3. CASE I!Insert(w)
      <4> USE <3>1, <3>2, <3>3 DEF I!Insert
      <4>1. InboxTypes' /\ OnlySentTravel'
        BY DEF InboxTypes, I!TypeOK, OnlySentTravel
      <4>2. MarkerOfRunner' /\ MarkerIsEffect'
        BY DEF InboxTypes, I!TypeOK, MarkerOfRunner, MarkerIsEffect
      <4> QED
        BY <4>1, <4>2
    <3>4. CASE I!Skip(w)
      <4> USE <3>1, <3>2, <3>4 DEF I!Skip, I!Over
      <4>1. InboxTypes' /\ OnlySentTravel'
        BY DEF InboxTypes, I!TypeOK, OnlySentTravel
      <4>2. MarkerOfRunner' /\ MarkerIsEffect'
        BY DEF InboxTypes, I!TypeOK, MarkerOfRunner, MarkerIsEffect
      <4> QED
        BY <4>1, <4>2
    <3>5. CASE I!Commit(w)
      <4> USE <3>1, <3>2, <3>5 DEF I!Commit, I!Over
      <4>1. effects[msg[w]] = 0
        BY DEF MarkerOfRunner, MarkerIsEffect
      <4>2. InboxTypes' /\ OnlySentTravel'
        BY DEF InboxTypes, I!TypeOK, OnlySentTravel
      <4>3. MarkerOfRunner' /\ MarkerIsEffect'
        BY <4>1 DEF InboxTypes, I!TypeOK, MarkerOfRunner, MarkerIsEffect
      <4> QED
        BY <4>2, <4>3
    <3>6. CASE I!Rollback(w)
      <4> USE <3>1, <3>2, <3>6 DEF I!Rollback, I!Over
      <4>1. InboxTypes' /\ OnlySentTravel'
        BY DEF InboxTypes, I!TypeOK, OnlySentTravel
      <4>2. MarkerOfRunner' /\ MarkerIsEffect'
        BY DEF InboxTypes, I!TypeOK, MarkerOfRunner, MarkerIsEffect
      <4> QED
        BY <4>1, <4>2
    <3> QED
      BY <2>6, <3>3, <3>4, <3>5, <3>6 DEF Handle
  <2> QED
    BY <2>3, <2>4, <2>5, <2>6 DEF DeliveryNext, Relay, allVars
<1> QED
  BY <1>1, <1>2, DeliveryIsOutbox, OutboxInductive, PTL DEF DeliverySpec

-----------------------------------------------------------------------------
Committed == {i \in Ids : row[i] \in {"pending", "published"}}

\* The relays change no row's commitment; a producer's commit adds one.
LEMMA CommittedSteps ==
    ASSUME OutboxInv, [Next]_vars
    PROVE  \/ Committed' = Committed
           \/ /\ ProducerStep
              /\ \E i \in Ids : i \notin Committed /\ Committed' = Committed \cup {i}
<1>1. ASSUME NEW i \in Ids, Enqueue(i) \/ EndTx(i)
      PROVE  \/ Committed' = Committed
             \/ i \notin Committed /\ Committed' = Committed \cup {i}
  <2>1. row[i] \in {"none", "open"} /\ i \notin Committed
    BY <1>1 DEF Enqueue, EndTx, Committed
  <2>2. PICK v \in {"open", "pending", "aborted"} : row' = [row EXCEPT ![i] = v]
    BY <1>1 DEF Enqueue, EndTx
  <2>3. row'[i] = v /\ \A j \in Ids : j # i => row'[j] = row[j]
    BY <2>2 DEF OutboxInv, RelayTypes
  <2>4. CASE v = "pending"
    BY <2>1, <2>3, <2>4 DEF Committed
  <2>5. CASE v # "pending"
    BY <2>1, <2>3, <2>5 DEF Committed
  <2> QED
    BY <2>1, <2>4, <2>5
<1>2. ASSUME NEW r \in Relays, MarkOk(r) \/ MarkErr(r) PROVE Committed' = Committed
  <2>1. CASE row' = row
    BY <2>1 DEF Committed
  <2>2. CASE row' = [row EXCEPT ![Current(batch[r])] = "published"]
    <3>1. pc[r] = "mark"
      BY <1>2 DEF MarkOk, MarkErr
    <3>2. Current(batch[r]) \in Committed
      BY <2>2, <3>1, MarkedRow DEF OutboxInv, BatchCommitted, AtBatch, Committed
    <3> QED
      BY <2>2, <3>1, <3>2, MarkedRow DEF Committed
  <2> QED
    BY <1>2, <2>1, <2>2 DEF MarkOk, MarkErr
<1>3. row' = row => Committed' = Committed
  BY DEF Committed
<1> QED
  BY <1>1, <1>2, <1>3
     DEF Next, vars, ProducerStep, SendStep, QuietStep, PublishOk, PublishLostReply, Process,
         LoadOk, LoadErr, PublishErr, Finish, Crash, Tick

\* README, inbox: end-to-end exactly-once-effect processing. Whatever is published,
\* delivered or retried twice, and over both transports: an effect happens once at
\* most, and only for an event whose business transaction committed.
THEOREM ExactlyOnceTheorem == DeliverySpec => ImplementsExactlyOnce
<1>1. DeliveryInit => Abs!Init
  BY DEF DeliveryInit, Init, I!Init, Abs!Init
<1>2. OutboxInv /\ DeliveryInv /\ [DeliveryNext]_allVars => [Abs!Next]_(Abs!evars)
  <2> SUFFICES ASSUME OutboxInv, DeliveryInv, [DeliveryNext]_allVars
               PROVE  [Abs!Next]_(Abs!evars)
    OBVIOUS
  <2>1. [Next]_vars
    BY DEF DeliveryNext, allVars, Next, Relay, Handle, Receive
  <2>2. CASE effects' = effects
    <3>1. CASE Committed' = Committed
      BY <2>2, <3>1 DEF Committed, Abs!evars
    <3>2. ASSUME NEW i \in Ids, i \notin Committed, Committed' = Committed \cup {i}
          PROVE  Abs!Next
      BY <2>2, <3>2 DEF Committed, Abs!Next, Abs!Produce
    <3> QED
      BY <2>1, <3>1, <3>2, CommittedSteps
  <2>3. ASSUME NEW w \in Workers, Handle(w), I!Commit(w) PROVE Abs!Next
    <3>1. msg[w] \in Ids /\ sent[msg[w]] > 0 /\ effects[msg[w]] = 0
      BY <2>3 DEF DeliveryInv, OnlySentTravel, MarkerOfRunner, MarkerIsEffect, I!Commit
    <3>2. msg[w] \in Committed
      BY <3>1 DEF OutboxInv, PublishedIffSent, Committed
    <3>3. effects' = [effects EXCEPT ![msg[w]] = 1]
      BY <2>3, <3>1 DEF I!Commit
    <3>4. Committed' = Committed
      BY <2>3 DEF Handle, vars, Committed
    <3>5. Abs!Apply(msg[w])
      BY <3>1, <3>2, <3>3, <3>4 DEF Committed, Abs!Apply
    <3> QED
      BY <3>1, <3>5 DEF Abs!Next
  <2>4. (~\E w \in Workers : Handle(w) /\ I!Commit(w)) => effects' = effects
    BY DEF DeliveryNext, allVars, inboxVars, Relay, Handle, Receive, I!Begin, I!Insert,
           I!Skip, I!Rollback
  <2> QED
    BY <2>2, <2>3, <2>4
<1> QED
  BY <1>1, <1>2, DeliveryInductive, DeliveryIsOutbox, OutboxInductive, PTL
     DEF DeliverySpec, ImplementsExactlyOnce, Abs!Spec
=============================================================================
