------------------------------- MODULE Cache -------------------------------
(***************************************************************************)
(* Packages cache and redis: the in-process Cache (TTL, LRU, janitor) and  *)
(* the Redis cache-aside helpers, both read through a singleflight group.  *)
(* The keys of LocalKeys live in a Cache, those of RemoteKeys in Redis.    *)
(* A method of Cache runs under c.mu and a Redis command is atomic, so     *)
(* each is one step; a load is several, and Set, Delete, expiry and        *)
(* eviction fall between them.                                             *)
(***************************************************************************)
EXTENDS Integers, Sequences, FiniteSets, SequencesExt

CONSTANTS
    LocalKeys,     \* keys of a Cache[V]
    RemoteKeys,    \* keys of a Redis
    Callers,       \* goroutines in GetOrLoad and Remember
    MaxSize,       \* WithMaxSize; 0 is unbounded
    TTL,           \* WithDefaultTTL, and Remember's ttl, in ticks; 0 is no expiry
    MaxVersion     \* bound: updates of a key's source

ASSUME KeyAssumption == LocalKeys \cap RemoteKeys = {}
ASSUME SizeAssumption == MaxSize \in Nat /\ TTL \in Nat /\ MaxVersion \in Nat

Keys == LocalKeys \cup RemoteKeys

\* Values are the versions of the source a loader may have read.
Absent == -1
Forever == -1       \* the zero expiresAt

VARIABLES
    value,    \* value[k]: the entry's value, Absent when there is none
    left,     \* left[k]: ticks until expiresAt, 0 from then on; or Forever
    lru,      \* the list, most recently used first
    janitor,  \* the janitor goroutine runs
    source,   \* source[k]: the version the loader would read
    flight,   \* flight[k]: the call of the singleflight group
    pc,       \* pc[q]: Out, or <<where, key>> in a GetOrLoad or Remember
    told,     \* ghost: the version of the last Set or Delete by a user
    raced,    \* ghost: the entry was stored by a load that told changed under
    loaded    \* ghost: keys last written by a load, not by a Set

vars == <<value, left, lru, janitor, source, flight, pc, told, raced, loaded>>

NoFlight == [at |-> "none"]
Out == <<"out">>

-----------------------------------------------------------------------------
(* The entries. *)

expired(k) == value[k] # Absent /\ left[k] = 0

Live(k) == value[k] # Absent /\ ~expired(k)

Expiry == IF TTL > 0 THEN TTL ELSE Forever

\* list.Remove: the list without the elements of S, the others in their order.
\* The nth of those left is the one at the place with n such places up to it.
Without(s, S) ==
    LET kept == {i \in DOMAIN s : s[i] \notin S}
        rank(i) == Cardinality({j \in kept : j <= i})
    IN [n \in 1..Cardinality(kept) |-> s[CHOOSE i \in kept : rank(i) = n]]

removeLocked(S) ==
    /\ value' = [k \in Keys |-> IF k \in S THEN Absent ELSE value[k]]
    /\ left' = [k \in Keys |-> IF k \in S THEN Forever ELSE left[k]]
    /\ lru' = Without(lru, S)
    /\ raced' = raced \ S

MoveToFront(k) == IF k \in LocalKeys THEN <<k>> \o Without(lru, {k})
                                     ELSE lru

\* A Get that finds the key: the value stays, the entry is the newest.
Hit(k) ==
    /\ Live(k)
    /\ lru' = MoveToFront(k)
    /\ UNCHANGED <<value, left, raced>>

\* A Get that does not: an expired entry is removed on the way.
Miss(k) ==
    /\ ~Live(k)
    /\ removeLocked({k})

\* Redis cannot be reached or the caller's ctx is done: an error like a miss.
Unreachable(k) ==
    /\ k \in RemoteKeys
    /\ UNCHANGED <<value, left, lru, raced>>

evictOldest(s) == IF MaxSize > 0 /\ Len(s) > MaxSize THEN {Last(s)} ELSE {}

setLockedStale(k, v, ex, race) ==   \* mutant: an overwrite keeps the old value
    LET fresh == IF value[k] # Absent THEN value[k] ELSE v
    IN /\ value' = [value EXCEPT ![k] = fresh]
       /\ left' = [left EXCEPT ![k] = ex]
       /\ lru' = MoveToFront(k)
       /\ raced' = IF race THEN raced \cup {k} ELSE raced \ {k}

setLockedNoEvict(k, v, ex, race) == \* mutant: the evicted entry stays in items
    LET front == MoveToFront(k)
        out == evictOldest(front)
    IN /\ value' = [value EXCEPT ![k] = v]
       /\ left' = [left EXCEPT ![k] = ex]
       /\ lru' = Without(front, out)
       /\ raced' = IF race THEN raced \cup {k} ELSE raced \ {k}

setLocked(k, v, ex, race) ==
    LET front == MoveToFront(k)
        out == evictOldest(front)
    IN /\ value' = [x \in Keys |-> IF x \in out THEN Absent
                                   ELSE IF x = k THEN v ELSE value[x]]
       /\ left' = [x \in Keys |-> IF x \in out THEN Forever
                                  ELSE IF x = k THEN ex ELSE left[x]]
       /\ lru' = Without(front, out)
       /\ raced' = (IF race THEN raced \cup {k} ELSE raced \ {k}) \ out

-----------------------------------------------------------------------------
(* Operations of the users. *)

Init ==
    /\ value = [k \in Keys |-> Absent]
    /\ left = [k \in Keys |-> Forever]
    /\ lru = << >>
    /\ janitor = TRUE
    /\ source = [k \in Keys |-> 0]
    /\ flight = [k \in Keys |-> NoFlight]
    /\ pc = [q \in Callers |-> Out]
    /\ told = [k \in Keys |-> 0]
    /\ raced = {} /\ loaded = {}

\* What the loader reads changes; the cache does not know yet.
Update(k) ==
    /\ source[k] < MaxVersion
    /\ source' = [source EXCEPT ![k] = @ + 1]
    /\ UNCHANGED <<value, left, lru, janitor, flight, pc, told, raced, loaded>>

Get(k) ==
    /\ Hit(k) \/ Miss(k)
    /\ UNCHANGED <<janitor, source, flight, pc, told, loaded>>

\* Set, SetTTL and Redis.Set; a Set that fails stores nothing and says so.
Set(k, ttl) ==
    /\ setLocked(k, source[k], IF ttl > 0 THEN ttl ELSE Forever, FALSE)
    /\ told' = [told EXCEPT ![k] = source[k]]
    /\ loaded' = loaded \ {k}
    /\ UNCHANGED <<janitor, source, flight, pc>>

Delete(k) ==
    /\ removeLocked({k})
    /\ told' = [told EXCEPT ![k] = source[k]]
    /\ UNCHANGED <<janitor, source, flight, pc, loaded>>

\* Redis.Expire gives a present key another lifetime.
Expire(k) ==
    /\ k \in RemoteKeys /\ Live(k) /\ TTL > 0
    /\ left' = [left EXCEPT ![k] = TTL]
    /\ UNCHANGED <<value, lru, janitor, source, flight, pc, told, raced, loaded>>

sweep ==
    /\ janitor
    /\ \E k \in LocalKeys : expired(k)
    /\ removeLocked({k \in LocalKeys : expired(k)})
    /\ UNCHANGED <<janitor, source, flight, pc, told, loaded>>

Close ==
    /\ janitor' = FALSE
    /\ UNCHANGED <<value, left, lru, source, flight, pc, told, raced, loaded>>

\* One tick: entries come closer to expiresAt; Redis drops a key that reaches it.
Tick ==
    /\ \E k \in Keys : left[k] > 0
    /\ LET gone == {k \in RemoteKeys : left[k] = 1}
       IN /\ value' = [k \in Keys |-> IF k \in gone THEN Absent ELSE value[k]]
          /\ left' = [k \in Keys |-> IF k \in gone THEN Forever
                                     ELSE IF left[k] > 0 THEN left[k] - 1 ELSE left[k]]
          /\ raced' = raced \ gone
    /\ UNCHANGED <<lru, janitor, source, flight, pc, told, loaded>>

-----------------------------------------------------------------------------
(* GetOrLoad and Remember. *)

Goto(q, w, k) == pc' = [pc EXCEPT ![q] = <<w, k>>]
To(k, f) == flight' = [flight EXCEPT ![k] = f]

\* The first Get: a hit returns at once.
GetOrLoad(q, k) ==
    /\ pc[q] = Out
    /\ \/ Hit(k) /\ UNCHANGED pc
       \/ (Miss(k) \/ Unreachable(k)) /\ Goto(q, "do", k)
    /\ UNCHANGED <<janitor, source, flight, told, loaded>>

\* group.Do: the first caller starts the flight, the others wait for it.
groupDo(q) ==
    LET k == pc[q][2]
    IN /\ pc[q][1] = "do"
       /\ Goto(q, "in", k)
       /\ IF flight[k] = NoFlight THEN To(k, [at |-> "check"]) ELSE UNCHANGED flight
       /\ UNCHANGED <<value, left, lru, janitor, source, told, raced, loaded>>

\* mutant: the function given to group.Do loads without looking again
LoadAlways(k) ==
    /\ flight[k].at = "check"
    /\ To(k, [at |-> "start"])
    /\ UNCHANGED <<value, left, lru, janitor, source, pc, told, raced, loaded>>

\* The second Get, inside the flight.
CheckAgain(k) ==
    /\ flight[k].at = "check"
    /\ \/ Hit(k) /\ To(k, [at |-> "end"])
       \/ (Miss(k) \/ Unreachable(k)) /\ To(k, [at |-> "start"])
    /\ UNCHANGED <<janitor, source, pc, told, loaded>>

\* It missed: the loader is called, with c.mu free again, and reads the source.
LoadStart(k) ==
    /\ flight[k].at = "start"
    /\ To(k, [at |-> "load", read |-> source[k], told |-> told[k]])
    /\ UNCHANGED <<value, left, lru, janitor, source, pc, told, raced, loaded>>

\* The loader fails: nothing is cached, every caller of the flight gets the error.
LoadError(k) ==
    /\ flight[k].at = "load"
    /\ To(k, [at |-> "end"])
    /\ UNCHANGED <<value, left, lru, janitor, source, pc, told, raced, loaded>>

\* mutant: the loaded value is stored without the default TTL
StoreForever(k) ==
    /\ flight[k].at = "load"
    /\ LET v == flight[k].read
       IN setLocked(k, v, Forever, v < told[k] /\ told[k] # flight[k].told)
    /\ loaded' = loaded \cup {k}
    /\ To(k, [at |-> "end"])
    /\ UNCHANGED <<janitor, source, pc, told>>

\* The loader returns: its value is stored under the default TTL, and the
\* callers get it even when Redis could not store it.
Store(k) ==
    /\ flight[k].at = "load"
    /\ LET v == flight[k].read
       IN \/ /\ setLocked(k, v, Expiry, v < told[k] /\ told[k] # flight[k].told)
             /\ loaded' = loaded \cup {k}
          \/ Unreachable(k) /\ UNCHANGED loaded
    /\ To(k, [at |-> "end"])
    /\ UNCHANGED <<janitor, source, pc, told>>

\* group.Do returns to the leader and to every caller that joined.
Return(k) ==
    /\ flight[k].at = "end"
    /\ To(k, NoFlight)
    /\ pc' = [q \in Callers |-> IF pc[q] = <<"in", k>> THEN Out ELSE pc[q]]
    /\ UNCHANGED <<value, left, lru, janitor, source, told, raced, loaded>>

-----------------------------------------------------------------------------

Next ==
    \/ sweep \/ Close \/ Tick
    \/ \E k \in Keys :
          \/ Update(k) \/ Get(k) \/ Delete(k) \/ Expire(k)
          \/ \E ttl \in {0, TTL} : Set(k, ttl)
          \/ CheckAgain(k) \/ LoadStart(k) \/ LoadError(k) \/ Store(k) \/ Return(k)
    \/ \E q \in Callers : groupDo(q) \/ \E k \in Keys : GetOrLoad(q, k)

Spec == Init /\ [][Next]_vars

\* Time passes. Nothing else is needed for a stale value to go.
FairSpec == Spec /\ WF_vars(Tick)

-----------------------------------------------------------------------------
(* Properties. *)

TypeOK ==
    /\ value \in [Keys -> Absent..MaxVersion]
    /\ left \in [Keys -> Forever..TTL]
    /\ lru \in Seq(LocalKeys)
    /\ janitor \in BOOLEAN
    /\ source \in [Keys -> 0..MaxVersion]
    /\ told \in [Keys -> 0..MaxVersion]
    /\ \A k \in Keys : flight[k].at \in {"none", "check", "start", "load", "end"}
    /\ pc \in [Callers -> {Out} \cup ({"do", "in"} \X Keys)]
    /\ raced \subseteq Keys /\ loaded \subseteq Keys

\* items and lru hold the same keys, each once, and never more than MaxSize of
\* them: an entry in one and not in the other is never evicted or never found.
ListAgrees ==
    /\ TypeOK
    /\ ToSet(lru) = {k \in LocalKeys : value[k] # Absent}
    /\ \A i, j \in DOMAIN lru : lru[i] = lru[j] => i = j
    /\ MaxSize > 0 => Len(lru) <= MaxSize

\* A Get after a Set or Delete answers with nothing older, unless a load that
\* was running then stored its value afterwards (GetOrLoad takes no lock between
\* loader and Set).
StaleOnlyIfRaced ==
    \A k \in Keys : Live(k) /\ value[k] < told[k] => k \in raced

\* What one load stored is not loaded again while it lives, however the first Get
\* of one caller, the end of another's flight and the start of the next interleave:
\* one flight per key, and GetOrLoad looks again inside it.  Only a Set that falls
\* between that look and the loader has the key loaded while it is cached.  (Redis
\* that cannot be asked is excepted.)
NoNeedlessLoad ==
    [][\A k \in LocalKeys :
          flight[k].at # "load" /\ flight'[k].at = "load" => ~(Live(k) /\ k \in loaded)]_vars

\* With a TTL, the stale value a raced load stored is served only until it
\* expires: no read of it makes it live longer.
RacedEntryEnds ==
    \A k \in LocalKeys : (Live(k) /\ k \in raced) ~> ~(Live(k) /\ k \in raced)
=============================================================================
