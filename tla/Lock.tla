-------------------------------- MODULE Lock --------------------------------
(***************************************************************************)
(* Package lock: a distributed mutex on one Redis key.                     *)
(*                                                                         *)
(* Redis holds the key's owner token and its remaining lifetime; every     *)
(* client (a goroutine of some replica) holds at most one handle (type     *)
(* Lock), which is the token it wrote.  Redis runs each command and each   *)
(* Lua script atomically; between commands the key may expire, a context   *)
(* may be cancelled, a reply may be lost and a process may crash.          *)
(***************************************************************************)
EXTENDS Integers, FiniteSets

CONSTANTS
    Clients,    \* goroutines that use the lock, over all replicas
    Tokens,     \* owner tokens; 16 random bytes in the code
    NoToken,    \* the key does not exist / the client has no handle
    TTLs,       \* values of the ttl argument, in units of 1/Ms milliseconds
    Ms          \* units of a ttl argument per millisecond of Redis time

ASSUME NoTokenAssumption == NoToken \notin Tokens
ASSUME TTLsAssumption    == TTLs \subseteq Nat
ASSUME MsAssumption      == Ms \in Nat \ {0}

VARIABLES
    tok,     \* the value of the key in Redis
    left,    \* milliseconds until Redis drops the key, or Never
    handle,  \* handle[c]: the token in c's *Lock
    lease,   \* ghost: how long c's own acquire/extend calls entitle it to the key
    st,      \* st[c]: where client c is
    ctx,     \* ctx[c]: the context c passed to the call in progress
    want     \* want[c]: the ttl argument of c's Acquire in progress

vars == <<tok, left, handle, lease, st, ctx, want>>

Never == -1

Status == {"idle", "acquiring", "sleeping", "held", "do"}

TypeOK ==
    /\ tok \in Tokens \cup {NoToken}
    /\ left \in Nat \cup {Never}
    /\ handle \in [Clients -> Tokens \cup {NoToken}]
    /\ lease \in [Clients -> Nat \cup {Never}]
    /\ st \in [Clients -> Status]
    /\ ctx \in [Clients -> {"live", "done"}]
    /\ want \in [Clients -> TTLs \cup {0}]

Init ==
    /\ tok = NoToken
    /\ left = 0
    /\ handle = [c \in Clients |-> NoToken]
    /\ lease = [c \in Clients |-> 0]
    /\ st = [c \in Clients |-> "idle"]
    /\ ctx = [c \in Clients |-> "live"]
    /\ want = [c \in Clients |-> 0]

-----------------------------------------------------------------------------
(* The commands Redis executes. *)

\* The lifetime SET NX gives the key: go-redis sends no expiry for ttl = 0 and
\* rounds a positive ttl below one millisecond up to one.
SetNXMs(ttl) ==
    IF ttl = 0 THEN Never ELSE IF ttl < Ms THEN 1 ELSE ttl \div Ms

\* Extend sends ttl.Milliseconds(), which truncates.
ExtendMs(ttl) == ttl \div Ms

\* newToken: 16 random bytes, so a token no one holds.
FreshToken(t) == t # tok /\ \A c \in Clients : handle[c] # t

SetBlind(t, ttl) ==     \* mutant: SET without NX
    /\ tok' = t
    /\ left' = SetNXMs(ttl)

SetNX(t, ttl) ==
    /\ tok = NoToken
    /\ tok' = t
    /\ left' = SetNXMs(ttl)

releaseAny(t) ==        \* mutant: DEL without comparing the token
    tok' = NoToken /\ left' = 0 /\ t = t

releaseScript(t) ==
    IF tok = t THEN tok' = NoToken /\ left' = 0
               ELSE UNCHANGED <<tok, left>>

\* PEXPIRE with a lifetime of zero deletes the key and still replies 1.
extendScript(t, ttl) ==
    IF tok = t
      THEN IF ExtendMs(ttl) > 0
             THEN tok' = tok /\ left' = ExtendMs(ttl)
             ELSE tok' = NoToken /\ left' = 0
      ELSE UNCHANGED <<tok, left>>

-----------------------------------------------------------------------------
(* Client c takes the lock in status s: the attempt at the heart of         *)
(* TryAcquire, with each of its outcomes.                                   *)

Granted(c, ttl, s) ==
    \E t \in Tokens :
        /\ FreshToken(t)
        /\ SetNX(t, ttl)
        /\ handle' = [handle EXCEPT ![c] = t]
        /\ lease' = [lease EXCEPT ![c] = SetNXMs(ttl)]
        /\ st' = [st EXCEPT ![c] = s]
        /\ ctx' = ctx
        /\ want' = [want EXCEPT ![c] = 0]

\* Client c is in status s without a handle, its call being over.
Dropped(c, s) ==
    /\ handle' = [handle EXCEPT ![c] = NoToken]
    /\ lease' = [lease EXCEPT ![c] = 0]
    /\ st' = [st EXCEPT ![c] = s]
    /\ ctx' = [ctx EXCEPT ![c] = "live"]
    /\ want' = [want EXCEPT ![c] = 0]

Refused(c) == tok # NoToken /\ UNCHANGED <<tok, left>>

\* Redis could not be reached, or the reply was lost after Redis had set the
\* key; go-redis may also resend the command and be refused by its own token.
\* In both cases the key holds a token that no handle carries.
Failed(c, ttl) ==
    \/ UNCHANGED <<tok, left>>
    \/ /\ ctx[c] = "live"
       /\ \E t \in Tokens : FreshToken(t) /\ SetNX(t, ttl)

TryAcquire(c, ttl) ==
    /\ st[c] = "idle"
    /\ \/ Granted(c, ttl, "held")
       \/ (Refused(c) \/ Failed(c, ttl)) /\ Dropped(c, "idle")

Acquire(c, ttl) ==
    /\ st[c] = "idle"
    /\ st' = [st EXCEPT ![c] = "acquiring"]
    /\ handle' = [handle EXCEPT ![c] = NoToken]
    /\ lease' = [lease EXCEPT ![c] = 0]
    /\ want' = [want EXCEPT ![c] = ttl]
    /\ UNCHANGED <<tok, left, ctx>>

AcquireAttemptNoReturn(c) ==   \* mutant: an error is taken for a held lock
    /\ st[c] = "acquiring"
    /\ \/ ctx[c] = "live" /\ Granted(c, want[c], "held")
       \/ /\ st' = [st EXCEPT ![c] = "sleeping"]
          /\ UNCHANGED <<tok, left, handle, lease, ctx, want>>

\* One turn of Acquire's loop: the attempt, then either return or the timer.
AcquireAttempt(c) ==
    /\ st[c] = "acquiring"
    /\ \/ ctx[c] = "live" /\ Granted(c, want[c], "held")
       \/ /\ ctx[c] = "live" /\ Refused(c)
          /\ st' = [st EXCEPT ![c] = "sleeping"]
          /\ UNCHANGED <<handle, lease, ctx, want>>
       \/ Failed(c, want[c]) /\ Dropped(c, "idle")

AcquireTimer(c) ==
    /\ st[c] = "sleeping"
    /\ st' = [st EXCEPT ![c] = "acquiring"]
    /\ UNCHANGED <<tok, left, handle, lease, ctx, want>>

AcquireDone(c) ==
    /\ st[c] = "sleeping"
    /\ ctx[c] = "done"
    /\ Dropped(c, "idle")
    /\ UNCHANGED <<tok, left>>

\* Do: TryAcquire, and fn starts only when it is granted.
Do(c, ttl) ==
    /\ st[c] = "idle"
    /\ \/ Granted(c, ttl, "do")
       \/ (Refused(c) \/ Failed(c, ttl)) /\ Dropped(c, "idle")

\* fn returns or panics; the deferred Release uses Do's context, and its error
\* is ignored.  lk is a local variable: the handle is gone.
DoReturn(c) ==
    /\ st[c] = "do"
    /\ \/ ctx[c] = "live" /\ releaseScript(handle[c])
       \/ UNCHANGED <<tok, left>>
    /\ Dropped(c, "idle")

\* Release on a handle the caller keeps (so it may be called again).  A lost
\* reply changes only the error the caller sees.
Release(c) ==
    /\ st[c] \in {"held", "idle"}
    /\ handle[c] # NoToken
    /\ releaseScript(handle[c])
    /\ lease' = [lease EXCEPT ![c] = 0]
    /\ st' = [st EXCEPT ![c] = "idle"]
    /\ UNCHANGED <<handle, ctx, want>>

ExtendAny(c, ttl) ==      \* mutant: PEXPIRE without comparing the token
    /\ st[c] \in {"held", "idle"}
    /\ handle[c] # NoToken
    /\ tok # NoToken
    /\ extendScript(tok, ttl)
    /\ UNCHANGED <<handle, lease, st, ctx, want>>

ExtendSet(c, ttl) ==      \* mutant: SET instead of PEXPIRE
    /\ st[c] \in {"held", "idle"}
    /\ handle[c] # NoToken
    /\ tok \in {handle[c], NoToken}
    /\ tok' = handle[c]
    /\ left' = SetNXMs(ttl)
    /\ lease' = [lease EXCEPT ![c] = SetNXMs(ttl)]
    /\ UNCHANGED <<handle, st, ctx, want>>

\* Extend returns nil exactly when the script found this handle's token.
Extend(c, ttl) ==
    /\ st[c] \in {"held", "idle"}
    /\ handle[c] # NoToken
    /\ tok = handle[c]
    /\ extendScript(handle[c], ttl)
    /\ lease' = [lease EXCEPT ![c] = ExtendMs(ttl)]
    /\ UNCHANGED <<handle, st, ctx, want>>

-----------------------------------------------------------------------------
(* The environment. *)

Cancel(c) ==
    /\ st[c] \in {"acquiring", "sleeping", "do"}
    /\ ctx[c] = "live"
    /\ ctx' = [ctx EXCEPT ![c] = "done"]
    /\ UNCHANGED <<tok, left, handle, lease, st, want>>

\* The process dies or the goroutine abandons its handle.
Crash(c) ==
    /\ st[c] # "idle" \/ handle[c] # NoToken
    /\ Dropped(c, "idle")
    /\ UNCHANGED <<tok, left>>

Less(n) == IF n > 0 THEN n - 1 ELSE n

\* A millisecond passes; Redis drops a key whose lifetime is over.
Tick ==
    /\ left > 0
    /\ left' = left - 1
    /\ tok' = IF left = 1 THEN NoToken ELSE tok
    /\ lease' = [c \in Clients |-> Less(lease[c])]
    /\ UNCHANGED <<handle, st, ctx, want>>

Next ==
    \/ \E c \in Clients :
          \/ \E ttl \in TTLs :
                TryAcquire(c, ttl) \/ Acquire(c, ttl) \/ Do(c, ttl) \/ Extend(c, ttl)
          \/ AcquireAttempt(c) \/ AcquireTimer(c) \/ AcquireDone(c)
          \/ DoReturn(c) \/ Release(c) \/ Cancel(c) \/ Crash(c)
    \/ Tick

Spec == Init /\ [][Next]_vars

\* Redis' clock advances and Acquire's loop keeps turning; nothing obliges a
\* holder to finish, to release, or anyone to cancel.
FairSpec ==
    /\ Spec
    /\ WF_vars(Tick)
    /\ \A c \in Clients : WF_vars(AcquireAttempt(c))
                          /\ WF_vars(AcquireTimer(c) \/ AcquireDone(c))

-----------------------------------------------------------------------------
(* Properties. *)

\* While the time promised to a handle by its own acquire and extend calls has
\* not run out, the key holds that handle's token, whatever stale handles other
\* clients release or extend (the token comparison in releaseScript and
\* extendScript).
LeaseHonoured ==
    \A c \in Clients : lease[c] # 0 => tok = handle[c] /\ left = lease[c]

\* Two clients are never inside their leases at once: the mutual exclusion the
\* lock gives to work that ends, or extends, before its TTL.
ExclusiveLease ==
    \A c, d \in Clients : lease[c] # 0 /\ lease[d] # 0 => c = d

\* A lock that was lost stays lost for that handle: no later Extend or Release,
\* by anyone, makes it the owner again (Extend only renews, it never re-acquires).
LostStaysLost ==
    [][\A c \in Clients :
          /\ handle[c] # NoToken
          /\ handle'[c] = handle[c]
          /\ tok # handle[c]
          => tok' # handle[c]]_vars

\* A key whose owner crashed, or whose grant was never seen by its client, goes
\* away by itself when it was set with a TTL: stale handles cannot keep it alive.
OrphanExpires ==
    \A t \in Tokens :
        (tok = t /\ left # Never /\ \A c \in Clients : handle[c] # t) ~> (tok # t)

\* Acquire returns once its context is over, even while the lock stays taken.
AcquireReturns ==
    \A c \in Clients :
        (st[c] \in {"acquiring", "sleeping"} /\ ctx[c] = "done")
            ~> (st[c] \notin {"acquiring", "sleeping"})

=============================================================================
