----------------------------- MODULE RateLimit -----------------------------
(***************************************************************************)
(* Package ratelimit: the token bucket of one key and one rule in Redis.   *)
(* Allow reads the caller's clock and then runs the script, which is       *)
(* atomic; between the two other replicas' scripts may run, with later     *)
(* clocks, and a script whose reply is lost is sent again by go-redis or   *)
(* given up.  Times are relative and in ticks, TicksPerSec of them to a    *)
(* second, tokens are in units, Unit of them to a token.  A float64 result *)
(* is the exact one give or take Err units.                                *)
(***************************************************************************)
EXTENDS Integers

CONSTANTS
    Callers,        \* goroutines of all replicas that call Allow
    Capacity,       \* Rule.Capacity
    RefillPerTick,  \* Rule.RefillPerSec, in units per tick; 0 and less are taken too
    TicksPerSec, Unit,
    Err,            \* what one float64 operation may be off by
    MaxCost,        \* bound: the costs callers ask for
    MaxLag,         \* bound: ticks a caller's clock is behind when its script runs
    MaxRuns         \* bound: roundings that add up

ASSUME RuleAssumption ==
    /\ Capacity \in Nat /\ RefillPerTick \in Int
    /\ TicksPerSec \in Nat \ {0} /\ Unit \in Nat \ {0}
    /\ Err \in Nat /\ MaxCost \in Nat /\ MaxLag \in Nat

VARIABLES
    tokens, age,  \* the hash's tokens, and now - ts
    ttl,          \* ticks until the key expires, 0 when it does not exist
    call,         \* call[q]: the cost of the call q is in, 0 for none
    lag,          \* lag[q]: how old the clock reading of q's call is
    ideal,        \* ghost: the tokens of an exact bucket that never goes back
    seen,         \* ghost: the age of the latest clock a script was given
    runs,         \* ghost: the roundings since the exact bucket was full
    behind,       \* ghost: a script ran with an earlier clock, or a late one on a new key
    promise       \* ghost: when a denied caller was told to come back, for what

bucket == <<tokens, age, ttl>>
ghosts == <<ideal, seen, runs, behind, promise>>
limVars == <<bucket, call, lag, ghosts>>

Full == Capacity * Unit
PerSec == RefillPerTick * TicksPerSec
Roundings == (-Err)..Err
NoPromise == [cost |-> 0, wait |-> 0, runs |-> 0]

LimInit ==
    /\ tokens = Full /\ age = 0 /\ ttl = 0
    /\ call = [q \in Callers |-> 0] /\ lag = [q \in Callers |-> 0]
    /\ ideal = Full /\ seen = 0 /\ runs = 0 /\ behind = FALSE /\ promise = NoPromise

CeilDiv(a, b) == (a + b - 1) \div b
AtLeast(n, m) == IF n > m THEN n ELSE m
AtMost(n, m) == IF n < m THEN n ELSE m

\* How long an idle bucket is kept; the quotient is off by what r stands for.
bucketTTLMs(r) ==
    IF PerSec <= 0 THEN TicksPerSec
    ELSE AtLeast(CeilDiv(Full + r, PerSec) * TicksPerSec, TicksPerSec)

retryAfterShort(cost, remaining, r) ==   \* mutant: the quotient is rounded down
    IF PerSec <= 0 \/ cost - remaining <= 0 THEN TicksPerSec
    ELSE AtLeast(((cost - remaining) * Unit + r) \div PerSec, 1) * TicksPerSec

\* How long a denied caller waits, from the whole tokens that are left.
retryAfter(cost, remaining, r) ==
    IF PerSec <= 0 \/ cost - remaining <= 0 THEN TicksPerSec
    ELSE AtLeast(CeilDiv((cost - remaining) * Unit + r, PerSec), 1) * TicksPerSec

\* What float64 may give for t + d: no further off than Err, and monotone.
Sum64(t, d) ==
    IF d = 0 THEN {t}
    ELSE {n \in (t + d - Err)..(t + d + Err) : IF d > 0 THEN n >= t ELSE n <= t}

Elapsed(l) == IF ttl = 0 THEN 0 ELSE AtLeast(age - l, 0)

\* The script, up to the comparison: the bucket refilled to a clock l ticks old. A
\* key that does not exist is a full bucket.
Refilled(l) ==
    IF ttl = 0 THEN {Full}
    ELSE {AtMost(Full, n) : n \in Sum64(tokens, Elapsed(l) * RefillPerTick)}

Allowed(cost, n) == n >= cost * Unit

tokenBucketKeepsTTL(q, n, r) ==    \* mutant: an existing key's expiry is not put off
    /\ tokens' = IF Allowed(call[q], n) THEN n - call[q] * Unit ELSE n
    /\ age' = lag[q]
    /\ ttl' = IF ttl = 0 THEN bucketTTLMs(r) ELSE ttl

\* The script: of the n units refilled take the cost if they cover it, store the rest
\* and the caller's clock, and put the expiry off.
tokenBucket(q, n, r) ==
    /\ tokens' = IF Allowed(call[q], n) THEN n - call[q] * Unit ELSE n
    /\ age' = lag[q]
    /\ ttl' = bucketTTLMs(r)

-----------------------------------------------------------------------------
(* What the ghosts record of a script. *)

Rounds(q) == RefillPerTick > 0 /\ Elapsed(lag[q]) > 0

\* The exact bucket, which earns what the rule says. Once a clock was behind nothing
\* is claimed of it any more.
Recorded(q, n) ==
    LET exact == AtMost(Full, ideal + AtLeast(seen - lag[q], 0) * AtLeast(RefillPerTick, 0))
        late  == RefillPerTick > 0 /\ (lag[q] > seen \/ (ttl = 0 /\ lag[q] > 0))
    IN /\ behind' = (behind \/ late)
       /\ seen' = AtMost(seen, lag[q])
       /\ IF behind \/ late THEN ideal' = Full /\ runs' = 0
          ELSE /\ ideal' = IF Allowed(call[q], n) THEN exact - call[q] * Unit ELSE exact
               /\ runs' = IF exact = Full THEN 0 ELSE IF Rounds(q) THEN runs + 1 ELSE runs

\* A promise is over when anybody takes tokens. A denied caller that is told when to
\* come back may be the one whose promise is watched from here.
Promises(q, n, r, lost) ==
    LET wait == AtLeast(retryAfter(call[q], n \div Unit, r) - lag[q], 0)
        kept == IF promise # NoPromise /\ Rounds(q)
                  THEN [promise EXCEPT !.runs = promise.runs + 1] ELSE promise
    IN IF Allowed(call[q], n) THEN {NoPromise}
       ELSE IF lost \/ RefillPerTick <= 0 \/ call[q] > Capacity THEN {kept}
       ELSE {kept, [cost |-> call[q], wait |-> wait, runs |-> 0]}

-----------------------------------------------------------------------------
(* The steps of Allow. *)

\* Allow takes a cost below 1 for 1 and reads the clock; a replica's clock may be
\* behind the others'.
AllowClock(q) ==
    /\ call[q] = 0
    /\ \E cost \in 0..MaxCost : call' = [call EXCEPT ![q] = AtLeast(cost, 1)]
    /\ \E skew \in 0..MaxLag : lag' = [lag EXCEPT ![q] = skew]
    /\ UNCHANGED <<bucket, ghosts>>

Return(q) == call' = [call EXCEPT ![q] = 0] /\ lag' = [lag EXCEPT ![q] = 0]

\* The script runs, and Allow returns the result if the reply arrives.
AllowScript(q) ==
    /\ call[q] # 0
    /\ \E n \in Refilled(lag[q]), r \in Roundings, lost \in BOOLEAN :
          /\ tokenBucket(q, n, r)
          /\ Recorded(q, n)
          /\ \E s \in Roundings : promise' \in Promises(q, n, s, lost)
          /\ IF lost THEN UNCHANGED <<call, lag>> ELSE Return(q)
    /\ runs' <= MaxRuns /\ promise'.runs <= MaxRuns

\* Redis does not answer, or no reply came before the context ended.
AllowErr(q) == call[q] # 0 /\ Return(q) /\ UNCHANGED <<bucket, ghosts>>

\* A tick passes; Redis drops the key when it is due. The exact bucket earns nothing
\* from that, unless the rule has no refill: then it starts over with the key.
LimTick ==
    LET gone == ttl = 1
        paid == ideal + seen' * RefillPerTick >= Full
    IN /\ \A q \in Callers : call[q] # 0 => lag[q] < MaxLag
       /\ lag' = [q \in Callers |-> IF call[q] # 0 THEN lag[q] + 1 ELSE lag[q]]
       /\ IF ttl > 1 THEN tokens' = tokens /\ age' = age + 1 /\ ttl' = ttl - 1
                     ELSE tokens' = Full /\ age' = 0 /\ ttl' = 0
       /\ seen' = AtMost(seen + 1, bucketTTLMs(Err) + MaxLag)
       /\ ideal' = IF gone /\ (RefillPerTick <= 0 \/ paid) THEN Full ELSE ideal
       /\ runs' = IF ~gone \/ behind THEN runs
                  ELSE IF RefillPerTick <= 0 \/ paid THEN 0 ELSE runs + 1
       /\ promise' = [promise EXCEPT !.wait = AtLeast(promise.wait - 1, 0)]
       /\ runs' <= MaxRuns
       /\ UNCHANGED <<call, behind>>

LimNext == LimTick \/ \E q \in Callers : AllowClock(q) \/ AllowScript(q) \/ AllowErr(q)

LimSpec == LimInit /\ [][LimNext]_limVars

-----------------------------------------------------------------------------
(* Properties. *)

\* The types of the state: a bucket never holds more than its capacity.
LimTypeOK ==
    /\ tokens \in Int /\ tokens <= Full
    /\ age \in 0..(bucketTTLMs(Err) + MaxLag) /\ ttl \in 0..bucketTTLMs(Err)
    /\ call \in [Callers -> Nat] /\ lag \in [Callers -> 0..MaxLag]
    /\ ideal \in Int /\ ideal <= Full
    /\ seen \in 0..(bucketTTLMs(Err) + MaxLag) /\ runs \in Nat /\ behind \in BOOLEAN
    /\ promise \in [cost : Nat, wait : Nat, runs : Nat]

\* Over every stretch of time, by the callers' clocks, no more is granted than
\* Capacity and the refill of that stretch, across the key's expiry too, but for
\* what float64 rounds at each script and one expiry; unless a script ran with a
\* clock behind, which sets ts back, and the time in between is refilled twice. A
\* rule without refill grants Capacity once in a life of the key, whatever the clocks.
OverGrantOnlyIfBehind == behind \/ ideal >= -(runs * Err)

\* A client that was denied a cost within the capacity, waits for Retry-After, and
\* whose clock is right finds the tokens, or misses them by float64 rounding only,
\* when nobody else took any meanwhile; even if a replica whose clock is behind set
\* the bucket's timestamp back in between, and others were denied.
RetryAfterSuffices ==
    promise # NoPromise /\ promise.wait = 0 =>
        \A n \in Refilled(0) : n >= promise.cost * Unit - (promise.runs + 2) * Err
=============================================================================
