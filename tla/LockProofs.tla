----------------------------- MODULE LockProofs -----------------------------
(***************************************************************************)
(* The safety properties of module Lock for any number of clients, any     *)
(* token set and any ttl arguments.                                        *)
(***************************************************************************)
EXTENDS Lock, TLAPS

\* A key exists exactly while it has life left.
KeyHasLife == tok = NoToken <=> left = 0

\* No two clients carry the same token: tokens are drawn fresh.
HandlesDistinct ==
    \A c, d \in Clients : handle[c] = handle[d] /\ handle[c] # NoToken => c = d

IInv == TypeOK /\ KeyHasLife /\ HandlesDistinct /\ LeaseHonoured

-----------------------------------------------------------------------------
\* The lifetimes SET NX and PEXPIRE are given: SET NX never sets a lifetime of
\* zero, PEXPIRE may (a ttl below one millisecond).
LEMMA Lifetimes ==
    ASSUME NEW ttl \in Nat
    PROVE  /\ SetNXMs(ttl) \in (Nat \ {0}) \cup {Never}
           /\ ExtendMs(ttl) \in Nat
<1>1. ttl \div Ms \in Nat
  BY MsAssumption
<1>2. ASSUME ttl >= Ms
      PROVE  ttl \div Ms # 0
  BY <1>2, MsAssumption
<1> QED
  BY <1>1, <1>2, MsAssumption DEF SetNXMs, ExtendMs, Never

\* A granted attempt, in whichever call it is made, keeps the invariant.
LEMMA GrantedKeeps ==
    ASSUME IInv, NEW c \in Clients, NEW ttl \in Nat, NEW s \in Status,
           Granted(c, ttl, s)
    PROVE  IInv'
<1> PICK t \in Tokens :
          /\ FreshToken(t)
          /\ SetNX(t, ttl)
          /\ handle' = [handle EXCEPT ![c] = t]
          /\ lease' = [lease EXCEPT ![c] = SetNXMs(ttl)]
          /\ st' = [st EXCEPT ![c] = s]
          /\ ctx' = ctx
          /\ want' = [want EXCEPT ![c] = 0]
  BY DEF Granted
<1> USE NoTokenAssumption
<1> SetNXMs(ttl) \in (Nat \ {0}) \cup {Never}
  BY Lifetimes
<1>1. tok' = t /\ left' = SetNXMs(ttl) /\ tok = NoToken
  BY DEF SetNX
<1>2. \A d \in Clients : lease[d] = 0
  BY <1>1 DEF IInv, TypeOK, LeaseHonoured, KeyHasLife
<1>3. TypeOK'
  BY <1>1 DEF IInv, TypeOK, Never
<1>4. KeyHasLife'
  BY <1>1 DEF KeyHasLife, Never
<1>5. HandlesDistinct'
  BY DEF IInv, TypeOK, HandlesDistinct, FreshToken
<1>6. LeaseHonoured'
  BY <1>1, <1>2 DEF IInv, TypeOK, LeaseHonoured
<1> QED
  BY <1>3, <1>4, <1>5, <1>6 DEF IInv

\* A client that drops its handle keeps the invariant, whether the key stays, is
\* left to an unknown token, or is deleted by that client's own token.
LEMMA DroppedKeeps ==
    ASSUME IInv, NEW c \in Clients, Dropped(c, "idle"),
           \/ UNCHANGED <<tok, left>>
           \/ releaseScript(handle[c])
           \/ \E ttl \in Nat, t \in Tokens : FreshToken(t) /\ SetNX(t, ttl)
    PROVE  IInv'
<1> USE NoTokenAssumption
<1>1. /\ handle' \in [Clients -> Tokens \cup {NoToken}]
      /\ lease' \in [Clients -> Nat \cup {Never}]
      /\ st' \in [Clients -> Status]
      /\ ctx' \in [Clients -> {"live", "done"}]
      /\ want' \in [Clients -> TTLs \cup {0}]
  BY DEF IInv, TypeOK, Dropped, Status
<1>2. HandlesDistinct'
  BY DEF IInv, TypeOK, HandlesDistinct, Dropped
<1>3. CASE UNCHANGED <<tok, left>>
  <2>1. TypeOK' /\ KeyHasLife'
    BY <1>1, <1>3 DEF IInv, TypeOK, KeyHasLife
  <2>2. LeaseHonoured'
    BY <1>3 DEF IInv, TypeOK, LeaseHonoured, Dropped
  <2> QED
    BY <1>2, <2>1, <2>2 DEF IInv
<1>4. CASE tok = handle[c] /\ releaseScript(handle[c])
  <2>1. TypeOK' /\ KeyHasLife'
    BY <1>1, <1>4 DEF IInv, TypeOK, KeyHasLife, releaseScript
  <2>2. \A d \in Clients \ {c} : lease[d] = 0
    BY <1>4 DEF IInv, TypeOK, LeaseHonoured, HandlesDistinct, KeyHasLife
  <2>3. LeaseHonoured'
    BY <2>2 DEF IInv, TypeOK, LeaseHonoured, Dropped
  <2> QED
    BY <1>2, <2>1, <2>3 DEF IInv
<1>5. CASE \E ttl \in Nat, t \in Tokens : FreshToken(t) /\ SetNX(t, ttl)
  <2> PICK ttl \in Nat, t \in Tokens : FreshToken(t) /\ SetNX(t, ttl)
    BY <1>5
  <2>1. SetNXMs(ttl) \in (Nat \ {0}) \cup {Never}
    BY Lifetimes
  <2>2. tok' = t /\ left' = SetNXMs(ttl) /\ tok = NoToken
    BY DEF SetNX
  <2>3. TypeOK' /\ KeyHasLife'
    BY <1>1, <2>1, <2>2 DEF TypeOK, KeyHasLife, Never
  <2>4. LeaseHonoured'
    BY <2>2 DEF IInv, TypeOK, LeaseHonoured, KeyHasLife, Dropped
  <2> QED
    BY <1>2, <2>3, <2>4 DEF IInv
<1> QED
  BY <1>3, <1>4, <1>5 DEF releaseScript

\* The failed and refused outcomes of an attempt that ends its call.
LEMMA UngrantedKeeps ==
    ASSUME IInv, NEW c \in Clients, NEW ttl \in Nat,
           Refused(c) \/ Failed(c, ttl), Dropped(c, "idle")
    PROVE  IInv'
<1>1. \/ UNCHANGED <<tok, left>>
      \/ \E u \in Nat, t \in Tokens : FreshToken(t) /\ SetNX(t, u)
  BY DEF Refused, Failed
<1> QED
  BY <1>1, DroppedKeeps

-----------------------------------------------------------------------------
\* The inductive invariant holds in every reachable state.
THEOREM Inductive == Spec => []IInv
<1> USE NoTokenAssumption, TTLsAssumption
<1>1. Init => IInv
  BY DEF Init, IInv, TypeOK, KeyHasLife, HandlesDistinct, LeaseHonoured, Status
<1>2. IInv /\ [Next]_vars => IInv'
  <2> SUFFICES ASSUME IInv, [Next]_vars PROVE IInv'
    OBVIOUS
  <2>1. ASSUME NEW c \in Clients, NEW ttl \in TTLs, TryAcquire(c, ttl) PROVE IInv'
    <3>1. CASE Granted(c, ttl, "held")
      BY <3>1, GrantedKeeps DEF Status
    <3>2. CASE (Refused(c) \/ Failed(c, ttl)) /\ Dropped(c, "idle")
      BY <3>2, UngrantedKeeps
    <3> QED
      BY <2>1, <3>1, <3>2 DEF TryAcquire
  <2>2. ASSUME NEW c \in Clients, NEW ttl \in TTLs, Acquire(c, ttl) PROVE IInv'
    <3>1. TypeOK' /\ KeyHasLife'
      BY <2>2 DEF Acquire, IInv, TypeOK, KeyHasLife, Status
    <3>2. HandlesDistinct' /\ LeaseHonoured'
      BY <2>2 DEF Acquire, IInv, TypeOK, HandlesDistinct, LeaseHonoured
    <3> QED
      BY <3>1, <3>2 DEF IInv
  <2>3. ASSUME NEW c \in Clients, NEW ttl \in TTLs, Do(c, ttl) PROVE IInv'
    <3>1. CASE Granted(c, ttl, "do")
      BY <3>1, GrantedKeeps DEF Status
    <3>2. CASE (Refused(c) \/ Failed(c, ttl)) /\ Dropped(c, "idle")
      BY <3>2, UngrantedKeeps
    <3> QED
      BY <2>3, <3>1, <3>2 DEF Do
  <2>4. ASSUME NEW c \in Clients, NEW ttl \in TTLs, Extend(c, ttl) PROVE IInv'
    <3> USE <2>4 DEF Extend, extendScript
    <3>1. ExtendMs(ttl) \in Nat
      BY Lifetimes
    <3>2. \A d \in Clients \ {c} : lease[d] = 0
      BY DEF IInv, TypeOK, HandlesDistinct, LeaseHonoured
    <3>3. TypeOK' /\ KeyHasLife'
      BY <3>1 DEF IInv, TypeOK, KeyHasLife
    <3>4. HandlesDistinct'
      BY DEF IInv, HandlesDistinct
    <3>5. LeaseHonoured'
      BY <3>1, <3>2 DEF IInv, TypeOK, LeaseHonoured
    <3> QED
      BY <3>3, <3>4, <3>5 DEF IInv
  <2>5. ASSUME NEW c \in Clients, AcquireAttempt(c) PROVE IInv'
    <3>1. want[c] \in Nat
      <4>1. want[c] \in TTLs \cup {0}
        BY DEF IInv, TypeOK
      <4>2. \A x \in TTLs \cup {0} : x \in Nat
        BY TTLsAssumption
      <4> QED
        BY <4>1, <4>2, Zenon
    <3>2. CASE Granted(c, want[c], "held")
      BY <3>1, <3>2, GrantedKeeps DEF Status
    <3>3. CASE /\ Refused(c)
               /\ st' = [st EXCEPT ![c] = "sleeping"]
               /\ UNCHANGED <<handle, lease, ctx, want>>
      BY <3>3 DEF Refused, IInv, TypeOK, Status, KeyHasLife, HandlesDistinct,
                  LeaseHonoured
    <3>4. CASE Failed(c, want[c]) /\ Dropped(c, "idle")
      BY <3>1, <3>4, UngrantedKeeps
    <3> QED
      BY <2>5, <3>2, <3>3, <3>4 DEF AcquireAttempt
  <2>6. ASSUME NEW c \in Clients, AcquireTimer(c) PROVE IInv'
    BY <2>6 DEF AcquireTimer, IInv, TypeOK, Status, KeyHasLife, HandlesDistinct,
                LeaseHonoured
  <2>7. ASSUME NEW c \in Clients, AcquireDone(c) PROVE IInv'
    BY <2>7, DroppedKeeps DEF AcquireDone
  <2>8. ASSUME NEW c \in Clients, DoReturn(c) PROVE IInv'
    BY <2>8, DroppedKeeps DEF DoReturn
  <2>9. ASSUME NEW c \in Clients, Release(c) PROVE IInv'
    <3> USE <2>9 DEF Release, releaseScript
    <3>1. TypeOK' /\ KeyHasLife'
      BY DEF IInv, TypeOK, KeyHasLife, Status
    <3>2. HandlesDistinct'
      BY DEF IInv, HandlesDistinct
    <3>3. LeaseHonoured'
      BY DEF IInv, TypeOK, HandlesDistinct, LeaseHonoured
    <3> QED
      BY <3>1, <3>2, <3>3 DEF IInv
  <2>10. ASSUME NEW c \in Clients, Cancel(c) PROVE IInv'
    BY <2>10 DEF Cancel, IInv, TypeOK, KeyHasLife, HandlesDistinct, LeaseHonoured
  <2>11. ASSUME NEW c \in Clients, Crash(c) PROVE IInv'
    BY <2>11, DroppedKeeps DEF Crash
  <2>12. CASE Tick
    <3> USE <2>12 DEF Tick, Less
    <3>1. TypeOK' /\ KeyHasLife'
      BY DEF IInv, TypeOK, KeyHasLife, Never
    <3>2. HandlesDistinct'
      BY DEF IInv, HandlesDistinct
    <3>3. LeaseHonoured'
      BY DEF IInv, TypeOK, LeaseHonoured, Never
    <3> QED
      BY <3>1, <3>2, <3>3 DEF IInv
  <2>13. CASE UNCHANGED vars
    BY <2>13 DEF vars, IInv, TypeOK, KeyHasLife, HandlesDistinct, LeaseHonoured
  <2> QED
    BY <2>1, <2>2, <2>3, <2>4, <2>5, <2>6, <2>7, <2>8, <2>9, <2>10, <2>11,
       <2>12, <2>13 DEF Next
<1> QED
  BY <1>1, <1>2, PTL DEF Spec

\* Every variable keeps its type.
THEOREM TypeCorrect == Spec => []TypeOK
BY Inductive, PTL DEF IInv

\* No other client's Release, Extend or acquisition takes the key from a handle
\* before the time its own calls bought has passed.
THEOREM LeaseTheorem == Spec => []LeaseHonoured
BY Inductive, PTL DEF IInv

\* Mutual exclusion of clients that are within their leases.
THEOREM ExclusiveLeaseTheorem == Spec => []ExclusiveLease
<1>1. IInv => ExclusiveLease
  BY DEF IInv, TypeOK, KeyHasLife, HandlesDistinct, LeaseHonoured, ExclusiveLease
<1> QED
  BY <1>1, Inductive, PTL

\* A handle that has lost the key never owns it again.
THEOREM LostStaysLostTheorem == Spec => LostStaysLost
<1> USE NoTokenAssumption
<1>1. ASSUME IInv, [Next]_vars, NEW c \in Clients, handle[c] # NoToken,
             handle'[c] = handle[c], tok # handle[c]
      PROVE  tok' # handle[c]
  <2>1. \/ tok' \in {tok, NoToken}
        \/ \E t \in Tokens : FreshToken(t) /\ tok' = t
    <3>1. ASSUME NEW d \in Clients, NEW ttl, NEW s, Granted(d, ttl, s)
          PROVE  \E t \in Tokens : FreshToken(t) /\ tok' = t
      BY <3>1 DEF Granted, SetNX
    <3>2. ASSUME NEW d \in Clients, NEW ttl, Refused(d) \/ Failed(d, ttl)
          PROVE  tok' = tok \/ \E t \in Tokens : FreshToken(t) /\ tok' = t
      BY <3>2 DEF Refused, Failed, SetNX
    <3> QED
      BY <1>1, <3>1, <3>2, SMTT(30)
         DEF Next, vars, TryAcquire, Acquire, Do, Extend, extendScript,
             AcquireAttempt, AcquireTimer, AcquireDone, DoReturn, Release,
             releaseScript, Cancel, Crash, Tick
  <2> QED
    BY <1>1, <2>1 DEF FreshToken
<1>2. IInv /\ [Next]_vars =>
        [\A c \in Clients : /\ handle[c] # NoToken
                            /\ handle'[c] = handle[c]
                            /\ tok # handle[c]
                            => tok' # handle[c]]_vars
  BY <1>1
<1> QED
  BY <1>2, Inductive, PTL DEF Spec, LostStaysLost
=============================================================================
