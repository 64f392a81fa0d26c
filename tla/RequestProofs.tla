---------------------------- MODULE RequestProofs ----------------------------
(***************************************************************************)
(* The properties of module RateLimit, for any number of callers, any      *)
(* capacity, any refill, positive or not, any error of float64 and any     *)
(* bound on the clocks, and those of module Request for any number of      *)
(* requests.                                                               *)
(***************************************************************************)
EXTENDS RateLimit, Request, TLAPS

R == RefillPerTick
MaxTTL == bucketTTLMs(Err)

\* The types, and that a key's age and what is left of its life never exceed the
\* life it was given and the oldest clock.
LimTypes == LimTypeOK /\ age + ttl <= MaxTTL + MaxLag

\* While no clock was behind, the stored bucket holds no more than the exact one and
\* what was rounded, and a bucket that expired would be full by now. Without refill
\* the exact bucket starts over when the key does.
Aligned ==
    ~behind =>
        /\ ideal >= -(runs * Err)
        /\ ttl = 0 => IF R > 0 THEN ideal + seen * R >= Full - runs * Err ELSE ideal = Full
        /\ ttl > 0 =>
             /\ tokens <= ideal + runs * Err
             /\ R > 0 => seen = age /\ tokens >= 0 /\ (age + ttl) * R >= Full - Err
        /\ R <= 0 => runs = 0

\* When the promised time is over, the bucket holds the tokens but for what was rounded.
Promised ==
    promise # NoPromise =>
        /\ R > 0 /\ promise.cost * Unit <= Full
        /\ ttl > 0 => tokens + (age + promise.wait) * R
                        >= promise.cost * Unit - (promise.runs + 1) * Err

LimInv == LimTypes /\ Aligned /\ Promised

-----------------------------------------------------------------------------
(* The arithmetic of the bucket. *)

\* Multiplying by a natural keeps the order.
LEMMA MulMono ==
    ASSUME NEW a \in Int, NEW b \in Int, NEW c \in Nat, a <= b
    PROVE  a * c \in Int /\ b * c \in Int /\ a * c <= b * c
OBVIOUS

\* Refills of consecutive times add up.
LEMMA MulAdd ==
    ASSUME NEW a \in Int, NEW b \in Int, NEW c \in Int
    PROVE  a * c \in Int /\ b * c \in Int /\ (a + b) * c = a * c + b * c
OBVIOUS

\* Rounding up covers what is divided, and by less than one more.
LEMMA CeilCovers ==
    ASSUME NEW a \in Int, NEW b \in Nat \ {0}
    PROVE  CeilDiv(a, b) \in Int /\ CeilDiv(a, b) * b >= a /\ CeilDiv(a, b) * b <= a + b - 1
BY DEF CeilDiv

\* Rounding up keeps the order.
LEMMA CeilMono ==
    ASSUME NEW a \in Int, NEW c \in Int, NEW b \in Nat \ {0}, a <= c
    PROVE  CeilDiv(a, b) <= CeilDiv(c, b)
<1> DEFINE p == CeilDiv(a, b)
           q == CeilDiv(c, b)
<1>1. p \in Int /\ q \in Int /\ p * b <= a + b - 1 /\ q * b >= c
  BY CeilCovers
<1> HIDE DEF p, q
<1>2. SUFFICES ASSUME q + 1 <= p PROVE FALSE
  BY <1>1 DEF p, q
<1>3. (q + 1) * b <= p * b /\ (q + 1) * b = q * b + 1 * b
  BY <1>1, <1>2, MulMono, MulAdd
<1> DEFINE pb == p * b
           qb == q * b
<1>4. pb \in Int /\ qb \in Int /\ qb + b <= pb /\ pb <= a + b - 1 /\ qb >= c
  BY <1>1, <1>3
<1> HIDE DEF pb, qb
<1> QED
  BY <1>4

\* The numbers of a rule, from its assumption.
LEMMA RuleTypes ==
    /\ Full \in Nat /\ Unit \in Nat \ {0} /\ Capacity \in Nat /\ Err \in Nat
    /\ R \in Int /\ PerSec \in Int /\ MaxLag \in Nat /\ TicksPerSec \in Nat \ {0}
    /\ (R > 0 <=> PerSec > 0)
<1>1. R > 0 => 1 * TicksPerSec <= R * TicksPerSec
  BY RuleAssumption, MulMono DEF R
<1>2. R <= 0 => R * TicksPerSec <= 0 * TicksPerSec
  BY RuleAssumption, MulMono DEF R
<1>3. Full \in Nat
  BY RuleAssumption DEF Full
<1> QED
  BY <1>1, <1>2, <1>3, RuleAssumption DEF PerSec, R

\* n seconds refill n * PerSec units.
LEMMA SecondsRefill ==
    ASSUME NEW n \in Int
    PROVE  n * TicksPerSec \in Int /\ (n * TicksPerSec) * R = n * PerSec
BY RuleAssumption DEF PerSec, R

\* An idle bucket is kept until it would be full, give or take a rounding.
LEMMA TTLCovers ==
    ASSUME NEW r \in Roundings
    PROVE  /\ bucketTTLMs(r) \in Nat /\ bucketTTLMs(r) >= 1
           /\ R > 0 => bucketTTLMs(r) * R >= Full - Err
<1>0. r \in Int /\ -Err <= r /\ r <= Err
  BY RuleTypes DEF Roundings
<1>1. CASE R <= 0
  BY <1>1, RuleTypes DEF bucketTTLMs
<1>2. CASE R > 0
  <2> DEFINE n == CeilDiv(Full + r, PerSec)
             t == n * TicksPerSec
             B == bucketTTLMs(r)
  <2>1. Full + r \in Int /\ PerSec \in Nat \ {0}
    BY <1>0, <1>2, RuleTypes
  <2>2. n \in Int /\ n * PerSec >= Full + r
    BY <2>1, CeilCovers
  <2>3. B = IF t > TicksPerSec THEN t ELSE TicksPerSec
    BY <1>2, RuleTypes DEF bucketTTLMs, AtLeast
  <2> HIDE DEF n
  <2>4. t \in Int /\ t * R = n * PerSec
    BY <2>2, SecondsRefill
  <2> HIDE DEF t, B
  <2>5. B \in Nat /\ B >= 1 /\ t <= B
    BY <2>3, <2>4, RuleTypes
  <2>6. t * R <= B * R
    BY <1>2, <2>4, <2>5, RuleTypes, MulMono
  <2> DEFINE x == t * R
             y == B * R
             z == n * PerSec
  <2>7. x \in Int /\ y \in Int /\ z \in Int /\ x = z /\ x <= y /\ z >= Full + r
    BY <2>2, <2>4, <2>5, <2>6, RuleTypes
  <2> HIDE DEF x, y, z
  <2>8. y >= Full - Err
    BY <1>0, <2>7, RuleTypes
  <2> QED
    BY <2>5, <2>8 DEF y, B
<1> QED
  BY <1>1, <1>2, RuleTypes

\* No bucket is kept longer than the one whose quotient was rounded up most.
LEMMA TTLBound ==
    ASSUME NEW r \in Roundings
    PROVE  bucketTTLMs(r) <= MaxTTL /\ MaxTTL \in Nat /\ MaxTTL >= 1
<1>0. r \in Int /\ r <= Err /\ Err \in Roundings
  BY RuleTypes DEF Roundings
<1>1. MaxTTL \in Nat /\ MaxTTL >= 1 /\ bucketTTLMs(r) \in Nat
  BY <1>0, TTLCovers DEF MaxTTL
<1>2. CASE R <= 0
  BY <1>1, <1>2, RuleTypes DEF bucketTTLMs, MaxTTL
<1>3. CASE R > 0
  <2> DEFINE n == CeilDiv(Full + r, PerSec)
             m == CeilDiv(Full + Err, PerSec)
  <2>1. Full + r \in Int /\ Full + Err \in Int /\ PerSec \in Nat \ {0} /\ Full + r <= Full + Err
    BY <1>0, <1>3, RuleTypes
  <2>2. n \in Int /\ m \in Int /\ n <= m
    BY <2>1, CeilCovers, CeilMono
  <2>3. /\ bucketTTLMs(r) = AtLeast(n * TicksPerSec, TicksPerSec)
        /\ MaxTTL = AtLeast(m * TicksPerSec, TicksPerSec)
    BY <1>3, RuleTypes DEF bucketTTLMs, MaxTTL
  <2> HIDE DEF n, m
  <2>4. n * TicksPerSec \in Int /\ m * TicksPerSec \in Int /\ n * TicksPerSec <= m * TicksPerSec
    BY <2>2, RuleTypes, MulMono
  <2> DEFINE x == n * TicksPerSec
             y == m * TicksPerSec
  <2>5. x \in Int /\ y \in Int /\ x <= y /\ bucketTTLMs(r) = AtLeast(x, TicksPerSec)
        /\ MaxTTL = AtLeast(y, TicksPerSec)
    BY <2>3, <2>4
  <2> HIDE DEF x, y
  <2> QED
    BY <1>1, <2>5, RuleTypes DEF AtLeast
<1> QED
  BY <1>1, <1>2, <1>3, RuleTypes

\* Retry-After covers what is missing, give or take a rounding.
LEMMA RetryCovers ==
    ASSUME NEW cost \in Int, NEW rem \in Int, NEW r \in Roundings
    PROVE  /\ retryAfter(cost, rem, r) \in Int
           /\ R > 0 => retryAfter(cost, rem, r) * R >= (cost - rem) * Unit - Err
<1> DEFINE W == retryAfter(cost, rem, r)
           x == (cost - rem) * Unit
<1>0. r \in Int /\ -Err <= r /\ x \in Int
  BY RuleTypes DEF Roundings
<1>1. CASE R <= 0
  BY <1>1, RuleTypes DEF retryAfter
<1>2. CASE R > 0 /\ cost - rem <= 0
  <2>1. W = TicksPerSec
    BY <1>2, RuleTypes DEF retryAfter
  <2>2. x <= 0 * Unit /\ 0 * R <= TicksPerSec * R
    BY <1>2, RuleTypes, MulMono
  <2> DEFINE y == TicksPerSec * R
  <2>3. y \in Int /\ 0 <= y /\ x <= 0
    BY <1>0, <2>2, RuleTypes
  <2> HIDE DEF x, y
  <2>4. y >= x - Err
    BY <1>0, <2>3, RuleTypes
  <2> QED
    BY <2>1, <2>4, RuleTypes DEF x, y
<1>3. CASE R > 0 /\ ~(cost - rem <= 0)
  <2> DEFINE n == CeilDiv(x + r, PerSec)
             m == AtLeast(n, 1)
  <2>1. W = m * TicksPerSec
    BY <1>3, RuleTypes DEF retryAfter
  <2> HIDE DEF x
  <2>2. n \in Int /\ n * PerSec >= x + r
    BY <1>0, <1>3, RuleTypes, CeilCovers
  <2> HIDE DEF n
  <2>3. m \in Int /\ n <= m
    BY <2>2 DEF AtLeast
  <2> HIDE DEF m
  <2>4. n * PerSec <= m * PerSec
    BY <1>3, <2>2, <2>3, RuleTypes, MulMono
  <2>5. m * TicksPerSec \in Int /\ (m * TicksPerSec) * R = m * PerSec
    BY <2>3, SecondsRefill
  <2> DEFINE y == m * PerSec
             z == n * PerSec
  <2>6. y \in Int /\ z \in Int /\ z <= y /\ z >= x + r /\ W \in Int /\ W * R = y
    BY <2>1, <2>2, <2>3, <2>4, <2>5, RuleTypes
  <2> HIDE DEF y, z, W
  <2>7. y >= x - Err
    BY <1>0, <2>6, RuleTypes
  <2> QED
    BY <2>6, <2>7 DEF W, x
<1> QED
  BY <1>1, <1>2, <1>3, RuleTypes

-----------------------------------------------------------------------------
(* The bucket's steps. *)

\* What a refill may leave: never more than the capacity nor, but for a rounding,
\* than what was earned; and no less.
LEMMA RefilledBounds ==
    ASSUME LimTypes, NEW l \in 0..MaxLag, NEW n \in Refilled(l)
    PROVE  /\ n \in Int /\ n <= Full
           /\ ttl = 0 => n = Full
           /\ Elapsed(l) \in Nat /\ Elapsed(l) * R \in Int
           /\ ttl # 0 /\ R <= 0 => n <= tokens
           /\ ttl # 0 /\ R > 0 => /\ n <= tokens + Elapsed(l) * R + Err
                                  /\ n = Full \/ n >= tokens + Elapsed(l) * R - Err
                                  /\ n = Full \/ n >= tokens
                                  /\ Elapsed(l) = 0 => n = tokens
<1>1. /\ age \in Int /\ ttl \in Int /\ tokens \in Int /\ tokens <= Full /\ l \in Nat
      /\ Full \in Nat /\ Err \in Nat /\ R \in Int
  BY RuleTypes DEF LimTypes, LimTypeOK
<1> DEFINE el == Elapsed(l)
           d == el * R
<1>2. el \in Nat
  BY <1>1 DEF Elapsed, AtLeast
<1> HIDE DEF el
<1>3. d \in Int /\ (el = 0 => d = 0)
  BY <1>1, <1>2
<1>4. R > 0 => d >= 0 /\ (d = 0 => el = 0)
  <2>1. R > 0 => 0 * R <= el * R
    BY <1>1, <1>2, MulMono
  <2>2. R > 0 /\ 1 <= el => 1 * R <= el * R
    BY <1>1, <1>2, MulMono
  <2> QED
    BY <1>1, <1>2, <2>1, <2>2
<1>5. R <= 0 => d <= 0
  <2>1. R <= 0 => R * el <= 0 * el
    BY <1>1, <1>2, MulMono
  <2> QED
    BY <1>1, <1>2, <2>1
<1>6. IF ttl = 0 THEN n = Full ELSE \E m \in Sum64(tokens, d) : n = AtMost(Full, m)
  BY DEF Refilled, d, el, R
<1>7. /\ el = Elapsed(l) /\ d = Elapsed(l) * R
  BY DEF el, d
<1> HIDE DEF d
<1>8. CASE ttl = 0
  BY <1>1, <1>2, <1>3, <1>6, <1>7, <1>8
<1>9. CASE ttl # 0
  <2>1. PICK m \in Sum64(tokens, d) : n = AtMost(Full, m)
    BY <1>6, <1>9
  <2>2. /\ m \in Int
        /\ d = 0 => m = tokens
        /\ d > 0 => m >= tokens
        /\ d < 0 => m <= tokens
        /\ m >= tokens + d - Err /\ m <= tokens + d + Err
    BY <1>1, <1>3 DEF Sum64
  <2>3. n = IF Full < m THEN Full ELSE m
    BY <2>1 DEF AtMost
  <2>4. n \in Int /\ n <= Full /\ (R <= 0 => n <= tokens)
    BY <1>1, <1>3, <1>5, <2>2, <2>3
  <2>5. R > 0 => /\ n <= tokens + d + Err
                 /\ n = Full \/ n >= tokens + d - Err
                 /\ n = Full \/ n >= tokens
                 /\ el = 0 => n = tokens
    BY <1>1, <1>3, <1>4, <2>2, <2>3
  <2> QED
    BY <1>2, <1>3, <1>7, <1>9, <2>4, <2>5
<1> QED
  BY <1>8, <1>9

\* A script with what it read and rounded: the parts of AllowScript.
Ran(q, n, r, s, lost) ==
    /\ n \in Refilled(lag[q]) /\ r \in Roundings /\ s \in Roundings /\ lost \in BOOLEAN
    /\ call[q] # 0
    /\ tokenBucket(q, n, r) /\ Recorded(q, n) /\ promise' \in Promises(q, n, s, lost)
    /\ IF lost THEN UNCHANGED <<call, lag>> ELSE Return(q)

\* The exact bucket just before the script takes from it.
Exact(q) == AtMost(Full, ideal + AtLeast(seen - lag[q], 0) * AtLeast(R, 0))

\* The exact bucket never holds more than the capacity, and earns exactly the refill.
LEMMA ExactType ==
    ASSUME LimTypes, NEW q \in Callers
    PROVE  /\ Exact(q) \in Int /\ Exact(q) <= Full
           /\ R <= 0 => Exact(q) = ideal
           /\ R > 0 /\ lag[q] <= seen =>
                /\ (seen - lag[q]) * R \in Int
                /\ Exact(q) = Full \/ Exact(q) = ideal + (seen - lag[q]) * R
<1>1. /\ lag[q] \in Nat /\ seen \in Nat /\ ideal \in Int /\ ideal <= Full /\ Full \in Nat
      /\ R \in Int
  BY RuleTypes DEF LimTypes, LimTypeOK
<1> DEFINE e == AtLeast(seen - lag[q], 0)
           m == AtLeast(R, 0)
           x == e * m
<1>2. e \in Nat /\ m \in Nat
  BY <1>1 DEF AtLeast
<1>3. (R <= 0 => m = 0) /\ (R > 0 => m = R) /\ (lag[q] <= seen => e = seen - lag[q])
  BY <1>1 DEF AtLeast
<1> HIDE DEF e, m
<1>4. x \in Int /\ (R <= 0 => x = 0)
      /\ (R > 0 /\ lag[q] <= seen => x = (seen - lag[q]) * R)
  BY <1>2, <1>3
<1>5. Exact(q) = AtMost(Full, ideal + x)
  BY DEF Exact, e, m, x
<1> HIDE DEF x
<1>6. Exact(q) = IF Full < ideal + x THEN Full ELSE ideal + x
  BY <1>5 DEF AtMost
<1>7. Exact(q) \in Int /\ Exact(q) <= Full /\ (R <= 0 => Exact(q) = ideal)
      /\ (Exact(q) = Full \/ Exact(q) = ideal + x)
  BY <1>1, <1>4, <1>6
<1> QED
  BY <1>4, <1>7

\* A script keeps the types.
LEMMA ScriptTypes ==
    ASSUME LimTypes, NEW q \in Callers, NEW n, NEW r, NEW s, NEW lost, Ran(q, n, r, s, lost)
    PROVE  LimTypes'
<1> DEFINE c == call[q] * Unit
           W == retryAfter(call[q], n \div Unit, s)
           B == bucketTTLMs(r)
<1>1. /\ call \in [Callers -> Nat] /\ lag \in [Callers -> 0..MaxLag] /\ lag[q] \in 0..MaxLag
      /\ MaxLag \in Nat /\ r \in Roundings /\ s \in Roundings /\ MaxTTL \in Nat
      /\ B \in Nat /\ B <= MaxTTL /\ n \in Int /\ n <= Full /\ Full \in Nat
      /\ Unit \in Nat \ {0} /\ call[q] \in Nat /\ seen \in 0..(MaxTTL + MaxLag)
      /\ runs \in Nat /\ behind \in BOOLEAN
      /\ promise \in [cost : Nat, wait : Nat, runs : Nat]
  BY RefilledBounds, RuleTypes, TTLCovers, TTLBound DEF LimTypes, LimTypeOK, MaxTTL, Ran
<1>2. c \in Nat
  BY <1>1
<1>3. n \div Unit \in Int
  BY <1>1
<1>4. W \in Int
  BY <1>1, <1>3, RetryCovers
<1> HIDE DEF c, W, B
<1>5. tokens' \in Int /\ tokens' <= Full /\ age' = lag[q] /\ ttl' = B
  BY <1>1, <1>2 DEF Ran, tokenBucket, c, B
<1>6. call' \in [Callers -> Nat] /\ lag' \in [Callers -> 0..MaxLag]
  BY <1>1 DEF Ran, Return
<1>7. behind' \in BOOLEAN /\ seen' \in 0..(MaxTTL + MaxLag)
  BY <1>1 DEF Ran, Recorded, AtMost
<1>8. ideal' \in Int /\ ideal' <= Full /\ runs' \in Nat
  <2>1. Exact(q) \in Int /\ Exact(q) <= Full
    BY ExactType
  <2>2. /\ \/ ideal' = Full \/ ideal' = Exact(q) - c \/ ideal' = Exact(q)
        /\ \/ runs' = 0 \/ runs' = runs \/ runs' = runs + 1
    BY DEF Ran, Recorded, Exact, c, R
  <2> QED
    BY <1>1, <1>2, <2>1, <2>2
<1>9. promise' \in [cost : Nat, wait : Nat, runs : Nat]
  <2> DEFINE wait == AtLeast(W - lag[q], 0)
  <2>1. wait \in Nat
    BY <1>1, <1>4 DEF AtLeast
  <2> HIDE DEF wait
  <2>2. \/ promise' = NoPromise
        \/ promise' = promise
        \/ promise' = [promise EXCEPT !.runs = promise.runs + 1]
        \/ promise' = [cost |-> call[q], wait |-> wait, runs |-> 0]
    BY DEF Ran, Promises, wait, W
  <2> QED
    BY <1>1, <2>1, <2>2 DEF NoPromise
<1> QED
  BY <1>1, <1>5, <1>6, <1>7, <1>8, <1>9 DEF LimTypes, LimTypeOK, MaxTTL

\* A script keeps the stored bucket within the exact one and what was rounded.
LEMMA ScriptAligned ==
    ASSUME LimTypes, Aligned, NEW q \in Callers, NEW n, NEW r, NEW s, NEW lost,
           Ran(q, n, r, s, lost)
    PROVE  Aligned'
<1> SUFFICES ASSUME ~behind' PROVE Aligned'
  BY DEF Aligned
<1> DEFINE X == Exact(q)
           el == Elapsed(lag[q])
           c == call[q] * Unit
           u == runs * Err
           v == runs' * Err
           B == bucketTTLMs(r)
<1>1. /\ lag[q] \in Nat /\ seen \in Nat /\ age \in Nat /\ ttl \in Nat /\ tokens \in Int
      /\ ideal \in Int /\ ideal <= Full /\ runs \in Nat /\ behind \in BOOLEAN
      /\ call[q] \in Nat /\ lag[q] \in 0..MaxLag
      /\ Full \in Nat /\ Err \in Nat /\ Unit \in Nat /\ R \in Int
      /\ r \in Roundings /\ n \in Refilled(lag[q])
  BY RuleTypes, TTLBound DEF LimTypes, LimTypeOK, Ran
<1>2. runs' \in Nat /\ ideal' \in Int
  BY ScriptTypes DEF LimTypes, LimTypeOK
<1>3. u \in Nat /\ v \in Nat /\ c \in Nat
  BY <1>1, <1>2
<1>4. ~behind /\ (R > 0 => lag[q] <= seen /\ (ttl = 0 => lag[q] = 0))
  <2>1. ~(behind \/ (R > 0 /\ (lag[q] > seen \/ (ttl = 0 /\ lag[q] > 0))))
    BY Zenon DEF Ran, Recorded, R
  <2>2. ~behind /\ (R > 0 => ~(lag[q] > seen) /\ (ttl = 0 => ~(lag[q] > 0)))
    BY <2>1, Zenon
  <2> QED
    BY <1>1, <2>2
<1>5. /\ ideal' = IF n >= c THEN X - c ELSE X
      /\ runs' = IF X = Full THEN 0 ELSE IF R > 0 /\ el > 0 THEN runs + 1 ELSE runs
      /\ seen' = AtMost(seen, lag[q])
  BY <1>4 DEF Ran, Recorded, Exact, Allowed, Rounds, R
<1>6. tokens' = (IF n >= c THEN n - c ELSE n) /\ age' = lag[q] /\ ttl' = B
  BY DEF Ran, tokenBucket, Allowed
<1>7. /\ ideal >= -u
      /\ ttl = 0 => IF R > 0 THEN ideal + seen * R >= Full - u ELSE ideal = Full
      /\ ttl > 0 => /\ tokens <= ideal + u
                    /\ R > 0 => seen = age /\ tokens >= 0
      /\ R <= 0 => runs = 0 /\ u = 0
  BY <1>1, <1>4 DEF Aligned
<1>8. /\ n \in Int /\ n <= Full /\ (ttl = 0 => n = Full) /\ el \in Nat /\ el * R \in Int
      /\ ttl # 0 /\ R <= 0 => n <= tokens
      /\ ttl # 0 /\ R > 0 => /\ n <= tokens + el * R + Err
                             /\ n = Full \/ n >= tokens
                             /\ el = 0 => n = tokens
  BY <1>1, RefilledBounds
<1>9. /\ X \in Int /\ X <= Full /\ (R <= 0 => X = ideal)
      /\ R > 0 /\ lag[q] <= seen =>
           /\ (seen - lag[q]) * R \in Int
           /\ X = Full \/ X = ideal + (seen - lag[q]) * R
  BY ExactType
<1>10. /\ X = Full => v = 0
       /\ X # Full /\ R > 0 /\ el > 0 => v = u + Err
       /\ X # Full /\ ~(R > 0 /\ el > 0) => v = u
  <2>1. (runs + 1) * Err = u + 1 * Err /\ 0 * Err = 0 /\ 1 * Err = Err
    BY <1>1, MulAdd
  <2> QED
    BY <1>1, <1>5, <2>1
<1>11. B \in Nat /\ B >= 1 /\ (R > 0 => B * R >= Full - Err)
  BY <1>1, TTLCovers
<1> HIDE DEF X, c, u, v, B
<1>12. n <= X + v
  <2>1. CASE R <= 0
    BY <1>1, <1>3, <1>7, <1>8, <1>9, <1>10, <2>1
  <2>2. CASE R > 0 /\ ttl = 0
    <3>1. el = 0 /\ seen - lag[q] = seen
      BY <1>1, <1>4, <2>2 DEF Elapsed
    <3> DEFINE y == seen * R
    <3>2. y \in Int /\ (X = Full \/ X = ideal + y) /\ ideal + y >= Full - u
      BY <1>1, <1>4, <1>7, <1>9, <2>2, <3>1
    <3> HIDE DEF y, el
    <3> QED
      BY <1>1, <1>3, <1>8, <1>9, <1>10, <2>2, <3>1, <3>2
  <2>3. CASE R > 0 /\ ttl # 0
    <3>1. el = seen - lag[q]
      BY <1>1, <1>4, <1>7, <2>3 DEF Elapsed, AtLeast
    <3> DEFINE y == el * R
    <3>2. y \in Int /\ (X = Full \/ X = ideal + y) /\ n <= tokens + y + Err /\ (el = 0 => y = 0)
      BY <1>1, <1>4, <1>8, <1>9, <2>3, <3>1
    <3> HIDE DEF y, el
    <3> QED
      BY <1>1, <1>3, <1>7, <1>8, <1>9, <1>10, <2>3, <3>2
  <2> QED
    BY <1>1, <2>1, <2>2, <2>3
<1>13. R > 0 => n >= 0
  BY <1>1, <1>7, <1>8
<1> HIDE DEF el
<1>14. ideal' >= -v /\ tokens' <= ideal' + v
  BY <1>1, <1>3, <1>5, <1>6, <1>7, <1>8, <1>9, <1>10, <1>12, <1>13
<1>15. R > 0 => seen' = age' /\ tokens' >= 0
  BY <1>1, <1>3, <1>4, <1>5, <1>6, <1>8, <1>13 DEF AtMost
<1>16. R > 0 => (age' + ttl') * R >= Full - Err
  <2> SUFFICES ASSUME R > 0 PROVE (age' + ttl') * R >= Full - Err
    OBVIOUS
  <2>0. B \in Int /\ lag[q] + B \in Int /\ B <= lag[q] + B /\ R \in Nat
    BY <1>1, <1>11
  <2>1. B * R <= (lag[q] + B) * R /\ B * R \in Int /\ (lag[q] + B) * R \in Int
    BY <2>0, MulMono
  <2> DEFINE x == B * R
             y == (lag[q] + B) * R
  <2>2. x \in Int /\ y \in Int /\ x <= y /\ x >= Full - Err
    BY <1>11, <2>1
  <2> HIDE DEF x, y
  <2>3. y >= Full - Err
    BY <1>1, <2>2
  <2> QED
    BY <1>6, <2>3 DEF y
<1>17. R <= 0 => runs' = 0
  BY <1>1, <1>5, <1>7
<1> QED
  BY <1>6, <1>11, <1>14, <1>15, <1>16, <1>17 DEF Aligned, v

\* A script that denies keeps the promise to a caller denied before, and makes one
\* that a refill will keep otherwise.
LEMMA ScriptPromised ==
    ASSUME LimTypes, Promised, NEW q \in Callers, NEW n, NEW r, NEW s, NEW lost,
           Ran(q, n, r, s, lost)
    PROVE  Promised'
<1> SUFFICES ASSUME promise' # NoPromise
             PROVE  /\ R > 0 /\ promise'.cost * Unit <= Full
                    /\ tokens' + (age' + promise'.wait) * R
                         >= promise'.cost * Unit - (promise'.runs + 1) * Err
  BY DEF Promised
<1> DEFINE el == Elapsed(lag[q])
           W == retryAfter(call[q], n \div Unit, s)
           wait == AtLeast(W - lag[q], 0)
<1>1. /\ lag[q] \in Nat /\ lag[q] \in 0..MaxLag /\ age \in Nat /\ ttl \in Nat /\ tokens \in Int
      /\ call[q] \in Nat /\ Capacity \in Nat /\ Full = Capacity * Unit
      /\ Full \in Nat /\ Err \in Nat /\ Unit \in Nat \ {0} /\ R \in Int
      /\ s \in Roundings /\ n \in Refilled(lag[q])
      /\ promise \in [cost : Nat, wait : Nat, runs : Nat]
  BY RuleTypes, TTLBound DEF LimTypes, LimTypeOK, Ran, Full
<1>2. /\ n \in Int /\ (ttl = 0 => n = Full) /\ el \in Nat /\ el * R \in Int
      /\ ttl # 0 /\ R > 0 => /\ n = Full \/ n >= tokens + el * R - Err
                             /\ el = 0 => n = tokens
  BY <1>1, RefilledBounds
<1>3. ~Allowed(call[q], n)
  BY DEF Ran, Promises
<1>4. n < call[q] * Unit /\ tokens' = n /\ age' = lag[q]
  BY <1>1, <1>2, <1>3 DEF Allowed, Ran, tokenBucket
<1>5. \/ /\ promise # NoPromise
         /\ promise' = IF R > 0 /\ el > 0 THEN [promise EXCEPT !.runs = promise.runs + 1]
                                          ELSE promise
      \/ /\ R > 0 /\ call[q] <= Capacity
         /\ promise' = [cost |-> call[q], wait |-> wait, runs |-> 0]
  <2>1. \/ /\ promise # NoPromise
           /\ promise' = IF R > 0 /\ el > 0 THEN [promise EXCEPT !.runs = promise.runs + 1]
                                            ELSE promise
        \/ /\ ~(R <= 0) /\ ~(call[q] > Capacity)
           /\ promise' = [cost |-> call[q], wait |-> wait, runs |-> 0]
    BY <1>3 DEF Ran, Promises, Rounds, R
  <2> QED
    BY <1>1, <2>1
<1>6. CASE /\ promise # NoPromise
           /\ promise' = IF R > 0 /\ el > 0 THEN [promise EXCEPT !.runs = promise.runs + 1]
                                            ELSE promise
  <2> DEFINE k == promise.cost * Unit
             w == promise.wait
             u == (promise.runs + 1) * Err
             v == (promise'.runs + 1) * Err
             a == (age + w) * R
             b == (lag[q] + w) * R
             x == el * R
  <2>1. /\ w \in Nat /\ promise.runs \in Nat /\ promise.cost \in Nat /\ k \in Int
        /\ promise'.cost = promise.cost /\ promise'.wait = w /\ promise'.runs \in Nat
        /\ promise'.runs = IF R > 0 /\ el > 0 THEN promise.runs + 1 ELSE promise.runs
    BY <1>1, <1>6
  <2>2. R > 0 /\ k <= Full /\ (ttl > 0 => tokens + a >= k - u)
    BY <1>6 DEF Promised
  <2>3. a \in Int /\ b \in Int /\ x \in Int /\ u \in Nat /\ v \in Nat
    BY <1>1, <1>2, <2>1
  <2>4. el > 0 => v = u + Err
    <3>1. (promise.runs + 1 + 1) * Err = u + 1 * Err
      BY <1>1, <2>1, MulAdd
    <3> QED
      BY <1>1, <2>1, <2>2, <3>1
  <2>5. el = 0 => v = u /\ x = 0
    BY <1>1, <2>1
  <2>6. ttl # 0 => a <= x + b
    <3>1. ttl # 0 => age + w <= el + (lag[q] + w)
      BY <1>1, <2>1 DEF Elapsed, AtLeast
    <3>2. (el + (lag[q] + w)) * R = x + b
      BY <1>1, <1>2, <2>1, MulAdd
    <3> HIDE DEF el, w
    <3>3. ttl # 0 => a <= (el + (lag[q] + w)) * R
      BY <1>1, <1>2, <2>1, <2>2, <3>1, MulMono
    <3> QED
      BY <3>2, <3>3
  <2>7. b >= 0
    BY <1>1, <2>1, <2>2
  <2>8. tokens' + (age' + promise'.wait) * R = n + b
    BY <1>4, <2>1
  <2> HIDE DEF k, w, u, v, a, b, el
  <2>9. ttl # 0 => n = Full \/ n >= tokens + x - Err
    BY <1>2, <2>2
  <2> HIDE DEF x
  <2>10. n + b >= k - v
    BY <1>1, <1>2, <2>1, <2>2, <2>3, <2>4, <2>5, <2>6, <2>7, <2>9
  <2> QED
    BY <2>1, <2>2, <2>8, <2>10 DEF k, v
<1>7. CASE /\ R > 0 /\ call[q] <= Capacity
           /\ promise' = [cost |-> call[q], wait |-> wait, runs |-> 0]
  <2> DEFINE m == n \div Unit
             k == call[q] * Unit
             x == (call[q] - m) * Unit
             y == W * R
             b == (lag[q] + wait) * R
  <2>1. m \in Int /\ m * Unit <= n
    BY <1>1, <1>2
  <2>2. W \in Int /\ y >= x - Err
    BY <1>1, <1>7, <2>1, RetryCovers
  <2>3. (call[q] - m) * Unit = k - m * Unit /\ k \in Int /\ m * Unit \in Int
    BY <1>1, <2>1
  <2> DEFINE z == m * Unit
  <2>4. x = k - z /\ z <= n /\ z \in Int
    BY <2>1, <2>3
  <2> HIDE DEF W
  <2>5. wait \in Nat /\ W <= lag[q] + wait
    BY <1>1, <2>2 DEF AtLeast
  <2> HIDE DEF wait
  <2>6. y \in Int /\ b \in Int /\ y <= b
    BY <1>1, <1>7, <2>2, <2>5, MulMono
  <2>7. k <= Full
    <3>1. call[q] \in Int /\ Capacity \in Int /\ call[q] <= Capacity /\ Unit \in Nat
      BY <1>1, <1>7
    <3>2. call[q] * Unit <= Capacity * Unit
      BY <3>1, MulMono
    <3> QED
      BY <1>1, <3>2
  <2>8. /\ promise'.cost = call[q] /\ promise'.wait = wait /\ promise'.runs = 0
        /\ tokens' + (age' + promise'.wait) * R = n + b
        /\ (promise'.runs + 1) * Err = Err
    BY <1>1, <1>4, <1>7
  <2> HIDE DEF m, k, x, y, b, z
  <2>9. n + b >= k - Err
    BY <1>1, <1>2, <2>2, <2>3, <2>4, <2>6
  <2> QED
    BY <1>7, <2>7, <2>8, <2>9 DEF k
<1> QED
  BY <1>5, <1>6, <1>7

\* A tick keeps the bucket's invariant: a key that expires was idle for its life.
LEMMA TickKeeps ==
    ASSUME LimInv, LimTick
    PROVE  LimInv'
<1> DEFINE x == seen' * R
           u == runs * Err
           v == runs' * Err
           paid == ideal + x >= Full
<1>1. /\ lag \in [Callers -> 0..MaxLag] /\ MaxLag \in Nat /\ seen \in 0..(MaxTTL + MaxLag)
      /\ age \in 0..(MaxTTL + MaxLag) /\ ttl \in 0..MaxTTL /\ age + ttl <= MaxTTL + MaxLag
      /\ tokens \in Int /\ tokens <= Full /\ ideal \in Int /\ ideal <= Full
      /\ behind \in BOOLEAN /\ runs \in Nat /\ call \in [Callers -> Nat]
      /\ promise \in [cost : Nat, wait : Nat, runs : Nat]
      /\ Full \in Nat /\ Err \in Nat /\ Unit \in Nat /\ R \in Int
  BY RuleTypes DEF LimInv, LimTypes, LimTypeOK, MaxTTL
<1>2. MaxTTL \in Nat /\ MaxTTL >= 1
  <2>1. Err \in Roundings
    BY <1>1 DEF Roundings
  <2> QED
    BY <2>1, TTLBound
<1>3. /\ \A q \in Callers : call[q] # 0 => lag[q] < MaxLag
      /\ lag' = [q \in Callers |-> IF call[q] # 0 THEN lag[q] + 1 ELSE lag[q]]
      /\ IF ttl > 1 THEN tokens' = tokens /\ age' = age + 1 /\ ttl' = ttl - 1
                    ELSE tokens' = Full /\ age' = 0 /\ ttl' = 0
      /\ seen' = AtMost(seen + 1, MaxTTL + MaxLag)
      /\ ideal' = IF ttl = 1 /\ (R <= 0 \/ paid) THEN Full ELSE ideal
      /\ runs' = IF ~(ttl = 1) \/ behind THEN runs
                 ELSE IF R <= 0 \/ paid THEN 0 ELSE runs + 1
      /\ promise' = [promise EXCEPT !.wait = AtLeast(promise.wait - 1, 0)]
      /\ call' = call /\ behind' = behind
  BY DEF LimTick, MaxTTL, R
<1>4. lag' \in [Callers -> 0..MaxLag]
  BY <1>1, <1>3
<1>5. /\ age' \in 0..(MaxTTL + MaxLag) /\ ttl' \in 0..MaxTTL /\ age' + ttl' <= MaxTTL + MaxLag
      /\ seen' \in 0..(MaxTTL + MaxLag) /\ seen <= seen'
      /\ tokens' \in Int /\ tokens' <= Full
  BY <1>1, <1>2, <1>3 DEF AtMost
<1>6. x \in Int /\ u \in Nat /\ runs' \in Nat /\ v \in Nat
  BY <1>1, <1>3, <1>5
<1> HIDE DEF paid
<1>7. ideal' \in Int /\ ideal' <= Full
  BY <1>1, <1>3
<1>8. promise' \in [cost : Nat, wait : Nat, runs : Nat]
  BY <1>1, <1>3 DEF AtLeast
<1>9. LimTypes'
  BY <1>1, <1>3, <1>4, <1>5, <1>6, <1>7, <1>8 DEF LimTypes, LimTypeOK, MaxTTL
<1>10. Aligned'
  <2> SUFFICES ASSUME ~behind
               PROVE  /\ ideal' >= -v
                      /\ ttl' = 0 => IF R > 0 THEN ideal' + x >= Full - v ELSE ideal' = Full
                      /\ ttl' > 0 =>
                           /\ tokens' <= ideal' + v
                           /\ R > 0 => /\ seen' = age' /\ tokens' >= 0
                                       /\ (age' + ttl') * R >= Full - Err
                      /\ R <= 0 => runs' = 0
    BY <1>3 DEF Aligned
  <2>1. /\ ideal >= -u
        /\ ttl = 0 => IF R > 0 THEN ideal + seen * R >= Full - u ELSE ideal = Full
        /\ ttl > 0 =>
             /\ tokens <= ideal + u
             /\ R > 0 => seen = age /\ tokens >= 0 /\ (age + ttl) * R >= Full - Err
        /\ R <= 0 => runs = 0
    BY DEF LimInv, Aligned
  <2>0. ttl > 0 /\ R > 0 => seen = age
    BY <2>1
  <2>2. CASE ttl > 1
    <3>1. /\ runs' = runs /\ v = u /\ ideal' = ideal /\ tokens' = tokens /\ ttl' > 0
          /\ age' + ttl' = age + ttl
      BY <1>1, <1>3, <2>2
    <3>2. R > 0 => seen' = age'
      BY <1>1, <1>2, <1>3, <2>0, <2>2 DEF AtMost
    <3> QED
      BY <1>1, <2>1, <2>2, <3>1, <3>2
  <2>3. CASE ttl = 0
    <3>1. runs' = runs /\ v = u /\ ideal' = ideal /\ ttl' = 0
      BY <1>1, <1>3, <2>3
    <3> DEFINE y == seen * R
    <3>2. y \in Int /\ (R > 0 => y <= x)
      <4>1. seen \in Int /\ seen' \in Int /\ seen <= seen' /\ (R > 0 => R \in Nat)
        BY <1>1, <1>2, <1>5
      <4>2. R > 0 => seen * R <= seen' * R
        BY <4>1, MulMono
      <4>3. y \in Int
        BY <1>1, <4>1
      <4> QED
        BY <4>2, <4>3
    <3>3. IF R > 0 THEN ideal + y >= Full - u ELSE ideal = Full
      BY <2>1, <2>3
    <3> HIDE DEF x, y
    <3> QED
      BY <1>1, <1>6, <2>1, <3>1, <3>2, <3>3
  <2>4. CASE ttl = 1
    <3>1. ttl' = 0 /\ (R > 0 => seen' = age + ttl)
      BY <1>1, <1>2, <1>3, <2>0, <2>4 DEF AtMost
    <3>2. R > 0 => x >= Full - Err
      BY <1>1, <2>1, <2>4, <3>1
    <3>3. CASE R <= 0 \/ paid
      <4>1. ideal' = Full /\ runs' = 0 /\ v = 0
        BY <1>1, <1>3, <2>4, <3>3
      <4>2. R > 0 => x >= 0
        <5>1. seen' \in Int /\ 0 <= seen' /\ (R > 0 => R \in Nat)
          BY <1>1, <1>2, <1>5
        <5>2. R > 0 => 0 * R <= seen' * R
          BY <5>1, MulMono
        <5> QED
          BY <1>1, <5>2
      <4> HIDE DEF x, v
      <4> QED
        BY <1>1, <1>6, <3>1, <4>1, <4>2
    <3>4. CASE ~(R <= 0 \/ paid)
      <4>1. ideal' = ideal /\ runs' = runs + 1 /\ R > 0
        BY <1>1, <1>3, <2>4, <3>4
      <4>2. v = u + Err
        <5>1. (runs + 1) * Err = u + 1 * Err
          BY <1>1, MulAdd
        <5> QED
          BY <1>1, <4>1, <5>1
      <4> HIDE DEF x, u, v
      <4> QED
        BY <1>1, <1>6, <2>1, <3>1, <3>2, <4>1, <4>2
    <3> QED
      BY <3>3, <3>4
  <2> QED
    BY <1>1, <2>2, <2>3, <2>4
<1>11. Promised'
  <2> SUFFICES ASSUME promise' # NoPromise
               PROVE  /\ R > 0 /\ promise'.cost * Unit <= Full
                      /\ ttl' > 0 => tokens' + (age' + promise'.wait) * R
                                       >= promise'.cost * Unit - (promise'.runs + 1) * Err
    BY DEF Promised
  <2>1. /\ promise'.cost = promise.cost /\ promise'.runs = promise.runs /\ promise.wait \in Nat
        /\ promise'.wait = AtLeast(promise.wait - 1, 0) /\ promise.cost \in Nat
        /\ promise.runs \in Nat
    BY <1>1, <1>3
  <2>2. promise # NoPromise
    BY <1>3, <2>1 DEF NoPromise, AtLeast
  <2> DEFINE k == promise.cost * Unit
             w == (promise.runs + 1) * Err
             a == (age + promise.wait) * R
             b == (age' + promise'.wait) * R
  <2>3. R > 0 /\ k <= Full /\ (ttl > 0 => tokens + a >= k - w)
    BY <2>2 DEF LimInv, Promised
  <2>4. ttl' > 0 => /\ ttl > 0 /\ tokens' = tokens
                    /\ age + promise.wait <= age' + promise'.wait
                    /\ age' + promise'.wait \in Int
    BY <1>1, <1>3, <2>1 DEF AtLeast
  <2>5. k \in Int /\ w \in Int /\ a \in Int /\ (ttl' > 0 => a <= b /\ b \in Int)
    BY <1>1, <2>1, <2>3, <2>4, MulMono
  <2> HIDE DEF k, w, a, b
  <2>6. ttl' > 0 => tokens' + b >= k - w
    BY <1>1, <2>3, <2>4, <2>5
  <2> QED
    BY <2>1, <2>3, <2>6 DEF k, w, b
<1> QED
  BY <1>9, <1>10, <1>11 DEF LimInv

\* The inductive invariant of the bucket holds in every reachable state.
THEOREM LimInductive == LimSpec => []LimInv
<1>1. LimInit => LimInv
  <2> SUFFICES ASSUME LimInit PROVE LimInv
    OBVIOUS
  <2>1. MaxTTL \in Nat /\ Full \in Nat /\ MaxLag \in Nat /\ R \in Int /\ Err \in Nat
    <3>1. Err \in Roundings
      BY RuleTypes DEF Roundings
    <3> QED
      BY <3>1, TTLBound, RuleTypes
  <2>2. /\ call \in [Callers -> Nat] /\ lag \in [Callers -> 0..MaxLag]
        /\ promise \in [cost : Nat, wait : Nat, runs : Nat] /\ promise = NoPromise
    BY <2>1 DEF LimInit, NoPromise
  <2>3. /\ tokens = Full /\ age = 0 /\ ttl = 0 /\ ideal = Full /\ seen = 0 /\ runs = 0
        /\ behind = FALSE
    BY DEF LimInit
  <2>4. LimTypes
    <3>1. behind \in BOOLEAN
      BY <2>3, Zenon
    <3> QED
      BY <2>1, <2>2, <2>3, <3>1 DEF LimTypes, LimTypeOK, MaxTTL
  <2>5. Aligned
    BY <2>1, <2>3 DEF Aligned
  <2> QED
    BY <2>2, <2>4, <2>5 DEF LimInv, Promised
<1>2. LimInv /\ [LimNext]_limVars => LimInv'
  <2> SUFFICES ASSUME LimInv, [LimNext]_limVars PROVE LimInv'
    OBVIOUS
  <2>1. ASSUME UNCHANGED <<bucket, ghosts>>, call' \in [Callers -> Nat],
               lag' \in [Callers -> 0..MaxLag]
        PROVE  LimInv'
    <3>1. UNCHANGED <<tokens, age, ttl, ideal, seen, runs, behind, promise>>
      BY <2>1 DEF bucket, ghosts
    <3> QED
      BY <2>1, <3>1 DEF LimInv, LimTypes, LimTypeOK, Aligned, Promised
  <2>2. /\ call \in [Callers -> Nat] /\ lag \in [Callers -> 0..MaxLag] /\ MaxLag \in Nat
        /\ MaxCost \in Nat
    BY RuleAssumption DEF LimInv, LimTypes, LimTypeOK
  <2>3. CASE LimTick
    BY <2>3, TickKeeps
  <2>4. ASSUME NEW q \in Callers, AllowClock(q) PROVE LimInv'
    <3>1. call' \in [Callers -> Nat]
      <4>1. \A cost \in 0..MaxCost : AtLeast(cost, 1) \in Nat
        BY <2>2 DEF AtLeast
      <4> QED
        BY <2>2, <2>4, <4>1 DEF AllowClock
    <3>2. lag' \in [Callers -> 0..MaxLag]
      BY <2>2, <2>4 DEF AllowClock
    <3> QED
      BY <2>1, <2>4, <3>1, <3>2 DEF AllowClock
  <2>5. ASSUME NEW q \in Callers, AllowErr(q) PROVE LimInv'
    BY <2>1, <2>2, <2>5 DEF AllowErr, Return
  <2>6. ASSUME NEW q \in Callers, AllowScript(q) PROVE LimInv'
    <3>1. PICK n \in Refilled(lag[q]), r \in Roundings, lost \in BOOLEAN, s \in Roundings :
             Ran(q, n, r, s, lost)
      BY <2>6, Zenon DEF AllowScript, Ran
    <3> QED
      BY <3>1, ScriptTypes, ScriptAligned, ScriptPromised DEF LimInv
  <2>7. CASE UNCHANGED limVars
    BY <2>1, <2>2, <2>7 DEF limVars
  <2> QED
    BY <2>3, <2>4, <2>5, <2>6, <2>7 DEF LimNext
<1> QED
  BY <1>1, <1>2, PTL DEF LimSpec

\* No stretch of time is granted more than the rule allows, but for float64 rounding,
\* unless a script ran with a clock behind: whatever the capacity, the refill, the
\* costs and the lost replies, and across the key's expiry.
THEOREM OverGrantTheorem == LimSpec => []OverGrantOnlyIfBehind
<1>1. LimInv => OverGrantOnlyIfBehind
  BY DEF LimInv, Aligned, OverGrantOnlyIfBehind
<1> QED
  BY <1>1, LimInductive, PTL

\* A client that was denied and waits for Retry-After finds its tokens, but for float64
\* rounding, when nobody else took any meanwhile.
THEOREM RetryAfterTheorem == LimSpec => []RetryAfterSuffices
<1>1. LimInv => RetryAfterSuffices
  <2> SUFFICES ASSUME LimInv, promise # NoPromise, promise.wait = 0, NEW n \in Refilled(0)
               PROVE  n >= promise.cost * Unit - (promise.runs + 2) * Err
    BY DEF RetryAfterSuffices
  <2> DEFINE k == promise.cost * Unit
             u == (promise.runs + 1) * Err
             v == (promise.runs + 2) * Err
             x == age * R
  <2>1. /\ age \in Nat /\ ttl \in Nat /\ tokens \in Int /\ promise.runs \in Nat
        /\ promise.cost \in Nat /\ Unit \in Nat /\ Err \in Nat /\ R \in Int /\ Full \in Nat
        /\ 0 \in 0..MaxLag /\ LimTypes
    BY RuleTypes, TTLBound DEF LimInv, LimTypes, LimTypeOK
  <2>2. k \in Int /\ u \in Nat /\ v \in Nat /\ x \in Int
    BY <2>1
  <2>3. v = u + Err
    <3>1. (promise.runs + 1 + 1) * Err = u + 1 * Err
      BY <2>1, MulAdd
    <3> QED
      BY <2>1, <3>1
  <2>4. R > 0 /\ k <= Full /\ (ttl > 0 => tokens + (age + promise.wait) * R >= k - u)
    BY DEF LimInv, Promised
  <2>5. ttl > 0 => tokens + x >= k - u
    BY <2>1, <2>4
  <2>6. Elapsed(0) = IF ttl = 0 THEN 0 ELSE age
    BY <2>1 DEF Elapsed, AtLeast
  <2>7. n \in Int /\ (ttl = 0 => n = Full) /\ (ttl # 0 => n = Full \/ n >= tokens + x - Err)
    BY <2>1, <2>4, <2>6, RefilledBounds
  <2> HIDE DEF k, u, v, x
  <2>8. n >= k - v
    BY <2>1, <2>2, <2>3, <2>4, <2>5, <2>7
  <2> QED
    BY <2>8 DEF k, v
<1> QED
  BY <1>1, LimInductive, PTL

-----------------------------------------------------------------------------
(* The requests. *)

\* A request late for the revocation finds it; a guard's claims are there only for
\* what follows the guard.
LocalsInv ==
    \A q \in Requests :
        /\ late[q] => revoked
        /\ claims[q] # "none" => pc[q] \in {"require", "handler"}

ReqInv == TypeOK /\ LocalsInv /\ HandlerAuthorised

\* The responses the chain can end with.
Response(r) == r \in [status : 200..500, err : {"none", "api", "fiber", "plain", "panic"}]

\* Ending the chain leaves no claims behind.
LEMMA StopKeeps ==
    ASSUME ReqInv, NEW q \in Requests, NEW r, Response(r), NEW w \in {"unwind", "render"},
           StopAt(q, w, r), UNCHANGED <<redis, revoked, counted>>
    PROVE  ReqInv'
<1>1. /\ pc' = [pc EXCEPT ![q] = w] /\ resp' = [resp EXCEPT ![q] = r]
      /\ claims' = [claims EXCEPT ![q] = "none"] /\ admitted' = [admitted EXCEPT ![q] = Nobody]
      /\ late' = [late EXCEPT ![q] = FALSE]
  BY DEF StopAt, Goto
<1>2. TypeOK'
  BY <1>1 DEF ReqInv, TypeOK, Places, Creds, Response, Nobody
<1>3. LocalsInv' /\ HandlerAuthorised'
  BY <1>1 DEF ReqInv, TypeOK, LocalsInv, HandlerAuthorised
<1> QED
  BY <1>2, <1>3 DEF ReqInv

\* A request passes on, with claims or without.
LEMMA PassKeeps ==
    ASSUME ReqInv, NEW q \in Requests, NEW w \in {"limit", "auth", "require", "handler"},
           Pass(q, w), UNCHANGED <<redis, revoked, counted>>,
           \/ Unstored /\ (w \in {"limit", "auth"} => claims[q] = "none")
           \/ /\ w = "require"
              /\ \E key \in {"default", "custom", "apikey"}, cred \in Creds, store \in BOOLEAN :
                   /\ Stored(q, key, cred, store)
                   /\ key # "apikey" => cred \in {"access", "foreign"}
                   /\ key # "apikey" /\ cred = "access" /\ store => ~revoked
    PROVE  ReqInv'
<1>1. pc' = [pc EXCEPT ![q] = w] /\ UNCHANGED <<resp, late>>
  BY DEF Pass, Goto
<1>2. CASE Unstored /\ (w \in {"limit", "auth"} => claims[q] = "none")
  BY <1>1, <1>2 DEF ReqInv, TypeOK, LocalsInv, HandlerAuthorised, Unstored, Places
<1>3. ASSUME w = "require", NEW key \in {"default", "custom", "apikey"}, NEW cred \in Creds,
             NEW store \in BOOLEAN, Stored(q, key, cred, store),
             key # "apikey" => cred \in {"access", "foreign"},
             key # "apikey" /\ cred = "access" /\ store => ~revoked
      PROVE  ReqInv'
  <2>1. /\ claims' = [claims EXCEPT ![q] = key]
        /\ admitted' = [admitted EXCEPT ![q] = [cred |-> cred, store |-> store]]
    BY <1>3 DEF Stored
  <2>2. TypeOK'
    BY <1>1, <2>1 DEF ReqInv, TypeOK, Places
  <2>3. LocalsInv'
    BY <1>1, <1>3, <2>1 DEF ReqInv, TypeOK, LocalsInv
  <2>4. HandlerAuthorised'
    <3> SUFFICES ASSUME NEW p \in Requests, claims'[p] \in {"default", "custom"}
                 PROVE  /\ admitted'[p].cred \in {"access", "foreign"}
                        /\ admitted'[p].cred = "access" /\ admitted'[p].store => ~late'[p]
      BY DEF HandlerAuthorised
    <3>1. CASE p = q
      <4>1. admitted'[p] = [cred |-> cred, store |-> store] /\ key # "apikey"
        BY <2>1, <3>1 DEF ReqInv, TypeOK
      <4>2. ~revoked => ~late'[p]
        BY <1>1, <3>1 DEF ReqInv, LocalsInv
      <4> QED
        BY <1>3, <4>1, <4>2
    <3>2. CASE p # q
      BY <1>1, <2>1, <3>2 DEF ReqInv, TypeOK, HandlerAuthorised
    <3> QED
      BY <3>1, <3>2
  <2> QED
    BY <2>2, <2>3, <2>4 DEF ReqInv
<1> QED
  BY <1>2, <1>3

\* The guards.
LEMMA GuardKeeps ==
    ASSUME ReqInv, NEW q \in Requests, Guard(q)
    PROVE  ReqInv'
<1>1. UNCHANGED <<redis, revoked, counted>>
  BY DEF Guard
<1>2. Response(Sent(401)) /\ Response(Returned("api", 401)) /\ Response(Returned("api", 500))
  BY DEF Response, Sent, Returned
<1>3. CASE Pass(q, "require") /\ Unstored
  BY <1>1, <1>3, PassKeeps
<1>4. ASSUME NEW cred \in Creds, NEW key \in {"default", "custom"}, NEW store \in BOOLEAN,
             RequireAuth(q, cred, key, store)
      PROVE  ReqInv'
  <2>1. CASE Stop(q, Sent(401))
    BY <1>1, <1>2, <2>1, StopKeeps DEF Stop
  <2>2. CASE /\ parse(cred) /\ ~BlocklistErr(cred, store) /\ ~blocklisted(cred, store)
             /\ Stored(q, key, cred, store) /\ Pass(q, "require")
    BY <1>1, <2>2, PassKeeps DEF parse, blocklisted, LooksUp
  <2> QED
    BY <1>4, <2>1, <2>2 DEF RequireAuth
<1>5. ASSUME NEW cred \in Creds, NEW key \in {"default", "custom"}, NEW store \in BOOLEAN,
             Optional(q, cred, key, store)
      PROVE  ReqInv'
  <2>1. CASE Unstored
    BY <1>1, <1>5, <2>1, PassKeeps DEF Optional
  <2>2. CASE /\ parse(cred) /\ ~BlocklistErr(cred, store) /\ ~blocklisted(cred, store)
             /\ Stored(q, key, cred, store)
    BY <1>1, <1>5, <2>2, PassKeeps DEF Optional, parse, blocklisted, LooksUp
  <2> QED
    BY <1>5, <2>1, <2>2 DEF Optional
<1>6. ASSUME NEW cred \in Creds, ApiKey(q, cred)
      PROVE  ReqInv'
  <2>1. CASE Stop(q, Returned("api", 401)) \/ Stop(q, Returned("api", 500))
    BY <1>1, <1>2, <2>1, StopKeeps DEF Stop
  <2>2. CASE Stored(q, "apikey", cred, FALSE) /\ Pass(q, "require")
    BY <1>1, <2>2, PassKeeps
  <2> QED
    BY <1>6, <2>1, <2>2 DEF ApiKey
<1> QED
  BY <1>3, <1>4, <1>5, <1>6 DEF Guard

\* The scope, role and team checks.
LEMMA RequireKeeps ==
    ASSUME ReqInv, NEW q \in Requests, Require(q)
    PROVE  ReqInv'
<1>1. UNCHANGED <<redis, revoked, counted>>
  BY DEF Require
<1>2. /\ Response(Sent(401)) /\ Response(Sent(403))
      /\ Response(Returned("api", 401)) /\ Response(Returned("api", 403))
  BY DEF Response, Sent, Returned
<1>3. CASE Pass(q, "handler") /\ Unstored
  BY <1>1, <1>3, PassKeeps
<1>4. CASE \/ Stop(q, Sent(401)) \/ Stop(q, Sent(403))
           \/ Stop(q, Returned("api", 401)) \/ Stop(q, Returned("api", 403))
  BY <1>1, <1>2, <1>4, StopKeeps DEF Stop
<1> QED
  BY <1>3, <1>4 DEF Require, RequireScopeOrTeam, RequireRole, RequireClaim, RequireKeyScope

\* The idempotency middleware and the rate limit, before any claims are stored.
LEMMA FrontKeeps ==
    ASSUME ReqInv, NEW q \in Requests, Idempotency(q) \/ Limit(q)
    PROVE  ReqInv'
<1>1. UNCHANGED <<redis, revoked, counted>> /\ claims[q] = "none"
  BY DEF Idempotency, Limit, ReqInv, TypeOK, LocalsInv
<1>2. /\ Response(Returned("plain", 500)) /\ Response(Sent(429))
      /\ \A r \in {OK, Sent(401), Sent(422), Sent(429)} : Response(r)
  BY DEF Response, Sent, Returned, OK
<1>3. CASE (Pass(q, "limit") \/ Pass(q, "auth")) /\ Unstored
  BY <1>1, <1>3, PassKeeps
<1>4. CASE StopAt(q, "render", Returned("plain", 500)) \/ StopAt(q, "unwind", Sent(429))
  BY <1>1, <1>2, <1>4, StopKeeps
<1>5. ASSUME NEW r \in {OK, Sent(401), Sent(422), Sent(429)}, StopAt(q, "render", r)
      PROVE  ReqInv'
  BY <1>1, <1>2, <1>5, StopKeeps
<1> QED
  BY <1>3, <1>4, <1>5 DEF Idempotency, Limit, Stop

\* The ends of the chain.
LEMMA ChainKeeps ==
    ASSUME ReqInv, NEW q \in Requests,
           Arrive(q) \/ Handler(q) \/ Unwind(q) \/ Outer(q) \/ Respond(q)
    PROVE  ReqInv'
<1> USE DEF ReqInv
<1>1. CASE Arrive(q)
  BY <1>1 DEF Arrive, TypeOK, LocalsInv, HandlerAuthorised, Places
<1>2. CASE Handler(q)
  <2>1. PICK r \in bindAndValidate \cup {OK, Returned("fiber", 404), Returned("api", 409),
                                         Returned("plain", 500), Recovered} : Stop(q, r)
    BY <1>2 DEF Handler
  <2>2. Response(r)
    BY DEF Response, bindAndValidate, OK, Sent, Returned, Recovered
  <2>3. UNCHANGED <<redis, revoked, counted>>
    BY <1>2 DEF Handler
  <2> QED
    BY <2>1, <2>2, <2>3, StopKeeps DEF Stop
<1>3. CASE Unwind(q)
  <2>1. /\ pc[q] = "unwind" /\ pc' = [pc EXCEPT ![q] = "outer"]
        /\ counted' = [counted EXCEPT ![q] = IF resp[q].err = "panic" THEN 0
                                             ELSE MetricsStatus(resp[q])]
        /\ UNCHANGED <<redis, revoked, claims, resp, late, admitted>>
    BY <1>3 DEF Unwind, Goto
  <2>2. MetricsStatus(resp[q]) \in {0} \cup 200..500
    BY DEF TypeOK, MetricsStatus, Written
  <2>3. TypeOK'
    BY <2>1, <2>2 DEF TypeOK, Places
  <2> QED
    BY <2>1, <2>3 DEF TypeOK, LocalsInv, HandlerAuthorised
<1>4. CASE Outer(q)
  <2>1. Response(Traced(resp[q])) /\ Response(Returned("plain", 500))
    BY DEF TypeOK, Response, Traced, ErrorHandler, Sent, Returned
  <2>2. PICK r : Response(r) /\ resp' = [resp EXCEPT ![q] = r]
    BY <1>4, <2>1 DEF Outer
  <2>3. /\ pc[q] = "outer" /\ pc' = [pc EXCEPT ![q] = "render"]
        /\ UNCHANGED <<redis, revoked, claims, late, admitted, counted>>
    BY <1>4 DEF Outer, Goto
  <2>4. TypeOK'
    BY <2>2, <2>3 DEF TypeOK, Places, Response
  <2> QED
    BY <2>3, <2>4 DEF TypeOK, LocalsInv, HandlerAuthorised
<1>5. CASE Respond(q)
  <2>1. /\ pc[q] = "render" /\ pc' = [pc EXCEPT ![q] = "idle"]
        /\ resp' = [resp EXCEPT ![q] = OK] /\ counted' = [counted EXCEPT ![q] = 0]
        /\ UNCHANGED <<redis, revoked, claims, late, admitted>>
    BY <1>5 DEF Respond, Goto
  <2>2. TypeOK'
    BY <2>1 DEF TypeOK, Places, OK
  <2> QED
    BY <2>1, <2>2 DEF TypeOK, LocalsInv, HandlerAuthorised
<1> QED
  BY <1>1, <1>2, <1>3, <1>4, <1>5

\* The inductive invariant of the requests holds in every reachable state.
THEOREM ReqInductive == ReqSpec => []ReqInv
<1>1. ReqInit => ReqInv
  <2> SUFFICES ASSUME ReqInit PROVE ReqInv
    OBVIOUS
  <2>1. OK \in [status : 200..500, err : {"none", "api", "fiber", "plain", "panic"}]
        /\ Nobody \in [cred : Creds, store : BOOLEAN]
    BY DEF OK, Nobody, Creds
  <2>2. TypeOK
    BY <2>1 DEF ReqInit, TypeOK, Places
  <2> QED
    BY <2>2 DEF ReqInit, ReqInv, LocalsInv, HandlerAuthorised
<1>2. ReqInv /\ [ReqNext]_reqVars => ReqInv'
  <2> SUFFICES ASSUME ReqInv, [ReqNext]_reqVars PROVE ReqInv'
    OBVIOUS
  <2>1. CASE Revoke \/ RedisFlips \/ UNCHANGED reqVars
    <3>1. /\ redis' \in BOOLEAN /\ revoked' \in BOOLEAN /\ (revoked => revoked')
          /\ UNCHANGED <<pc, claims, resp, late, admitted, counted>>
      BY <2>1 DEF Revoke, RedisFlips, reqVars, request, ReqInv, TypeOK
    <3> QED
      BY <3>1 DEF ReqInv, TypeOK, LocalsInv, HandlerAuthorised
  <2>2. ASSUME NEW q \in Requests,
               Arrive(q) \/ Handler(q) \/ Unwind(q) \/ Outer(q) \/ Respond(q)
        PROVE  ReqInv'
    BY <2>2, ChainKeeps
  <2>3. ASSUME NEW q \in Requests, Idempotency(q) \/ Limit(q) PROVE ReqInv'
    BY <2>3, FrontKeeps
  <2>4. ASSUME NEW q \in Requests, Guard(q) PROVE ReqInv'
    BY <2>4, GuardKeeps
  <2>5. ASSUME NEW q \in Requests, Require(q) PROVE ReqInv'
    BY <2>5, RequireKeeps
  <2> QED
    BY <2>1, <2>2, <2>3, <2>4, <2>5 DEF ReqNext
<1> QED
  BY <1>1, <1>2, PTL DEF ReqSpec

\* Type correctness of the bucket and of the requests.
THEOREM TypeCorrect == (LimSpec => []LimTypeOK) /\ (ReqSpec => []TypeOK)
<1>1. LimInv => LimTypeOK
  BY DEF LimInv, LimTypes
<1>2. ReqInv => TypeOK
  BY DEF ReqInv
<1> QED
  BY <1>1, <1>2, LimInductive, ReqInductive, PTL

\* The handler never runs with the claims of a refresh token, nor, behind a guard with
\* a blocklist, of a token revoked before the request came.
THEOREM HandlerAuthorisedTheorem == ReqSpec => []HandlerAuthorised
<1>1. ReqInv => HandlerAuthorised
  BY DEF ReqInv
<1> QED
  BY <1>1, ReqInductive, PTL
=============================================================================
