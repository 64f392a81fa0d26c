---------------------------- MODULE CacheProofs ----------------------------
(***************************************************************************)
(* What module Cache's readers may see, and that its map and its list      *)
(* agree, for any keys, callers, size and lifetimes.  What readers see     *)
(* does not depend on which entry the list evicts.                         *)
(***************************************************************************)
EXTENDS Cache, FiniteSetTheorems, TLAPS

\* The calls a singleflight group may hold for a key. A load has read a version no
\* older than what users had said when it began.
FlightTypes ==
    /\ flight \in [Keys -> {NoFlight, [at |-> "check"], [at |-> "start"], [at |-> "end"]}
                             \cup [at : {"load"}, read : Nat, told : Nat]]
    /\ \A k \in Keys : flight[k].at = "load" => flight[k].told <= flight[k].read

\* Users say what the source holds.
VersionTypes ==
    /\ value \in [Keys -> Int] /\ raced \subseteq Keys
    /\ source \in [Keys -> Nat] /\ told \in [Keys -> Nat]
    /\ \A k \in Keys : told[k] <= source[k]

\* An entry older than the last Set or Delete, expired or not, is a raced one.
OldOnlyIfRaced == \A k \in Keys : value[k] # Absent /\ value[k] < told[k] => k \in raced

IInv == FlightTypes /\ VersionTypes /\ OldOnlyIfRaced

-----------------------------------------------------------------------------
\* Taking entries away makes no entry old.
LEMMA RemoveKeeps ==
    ASSUME VersionTypes, OldOnlyIfRaced, NEW S, removeLocked(S),
           told' \in [Keys -> Nat], source' \in [Keys -> Nat],
           \A k \in Keys : told'[k] <= source'[k],
           \A k \in Keys : k \notin S => told'[k] = told[k]
    PROVE  VersionTypes' /\ OldOnlyIfRaced'
BY DEF removeLocked, VersionTypes, OldOnlyIfRaced, Absent

\* Storing v for k keeps the invariant when v is not older than what users said, or
\* the entry is marked as raced.
LEMMA SetKeeps ==
    ASSUME VersionTypes, OldOnlyIfRaced, NEW k \in Keys, NEW v \in Nat, NEW ex,
           NEW race \in BOOLEAN, setLocked(k, v, ex, race),
           told' \in [Keys -> Nat], source' \in [Keys -> Nat],
           \A x \in Keys : told'[x] <= source'[x],
           \A x \in Keys : x # k => told'[x] = told[x],
           v < told'[k] => race
    PROVE  VersionTypes' /\ OldOnlyIfRaced'
<1> DEFINE out == evictOldest(MoveToFront(k))
<1>1. /\ value' = [x \in Keys |-> IF x \in out THEN Absent ELSE IF x = k THEN v ELSE value[x]]
      /\ raced' = (IF race THEN raced \cup {k} ELSE raced \ {k}) \ out
  BY DEF setLocked
<1> HIDE DEF out
<1>2. VersionTypes'
  BY <1>1 DEF VersionTypes, Absent
<1>3. ASSUME NEW x \in Keys, value'[x] # Absent, value'[x] < told'[x] PROVE x \in raced'
  <2>1. x \notin out
    BY <1>1, <1>3
  <2>2. CASE x = k
    BY <1>1, <1>3, <2>1, <2>2
  <2>3. CASE x # k
    BY <1>1, <1>3, <2>1, <2>3 DEF OldOnlyIfRaced
  <2> QED
    BY <2>2, <2>3
<1> QED
  BY <1>2, <1>3 DEF OldOnlyIfRaced

\* A Get, by a user, at the start of GetOrLoad or inside the flight.
LEMMA LookKeeps ==
    ASSUME VersionTypes, OldOnlyIfRaced, NEW k \in Keys,
           Hit(k) \/ Miss(k) \/ Unreachable(k), UNCHANGED <<source, told>>
    PROVE  VersionTypes' /\ OldOnlyIfRaced'
<1>1. CASE Miss(k)
  BY <1>1, RemoveKeeps DEF Miss, VersionTypes
<1>2. CASE Hit(k) \/ Unreachable(k)
  BY <1>2 DEF Hit, Unreachable, VersionTypes, OldOnlyIfRaced
<1> QED
  BY <1>1, <1>2

\* The inductive invariant holds in every reachable state.
THEOREM Inductive == Spec => []IInv
<1>1. Init => IInv
  BY DEF Init, IInv, FlightTypes, VersionTypes, OldOnlyIfRaced, NoFlight, Absent
<1>2. IInv /\ [Next]_vars => IInv'
  <2> SUFFICES ASSUME IInv, [Next]_vars PROVE IInv'
    OBVIOUS
  <2> USE DEF IInv
  <2>1. CASE sweep
    BY <2>1, RemoveKeeps DEF sweep, VersionTypes, FlightTypes
  <2>2. CASE Close
    BY <2>2 DEF Close, VersionTypes, FlightTypes, OldOnlyIfRaced
  <2>3. CASE Tick
    <3> DEFINE gone == {k \in RemoteKeys : left[k] = 1}
    <3>1. /\ value' = [k \in Keys |-> IF k \in gone THEN Absent ELSE value[k]]
          /\ raced' = raced \ gone
          /\ UNCHANGED <<source, flight, told>>
      BY <2>3 DEF Tick
    <3> HIDE DEF gone
    <3> QED
      BY <3>1 DEF VersionTypes, FlightTypes, OldOnlyIfRaced, Absent
  <2>4. ASSUME NEW k \in Keys, Update(k) PROVE IInv'
    BY <2>4 DEF Update, VersionTypes, FlightTypes, OldOnlyIfRaced
  <2>5. ASSUME NEW k \in Keys, Get(k) PROVE IInv'
    BY <2>5, LookKeeps DEF Get, FlightTypes
  <2>6. ASSUME NEW k \in Keys, Delete(k) PROVE IInv'
    <3>1. FlightTypes'
      BY <2>6 DEF Delete, FlightTypes
    <3>2. /\ told' = [told EXCEPT ![k] = source[k]] /\ source' = source
          /\ removeLocked({k})
      BY <2>6 DEF Delete
    <3>3. /\ told' \in [Keys -> Nat] /\ source' \in [Keys -> Nat]
          /\ \A x \in Keys : told'[x] <= source'[x]
          /\ \A x \in Keys : x \notin {k} => told'[x] = told[x]
      BY <3>2 DEF VersionTypes
    <3> QED
      BY <3>1, <3>2, <3>3, RemoveKeeps
  <2>7. ASSUME NEW k \in Keys, Expire(k) PROVE IInv'
    BY <2>7 DEF Expire, VersionTypes, FlightTypes, OldOnlyIfRaced
  <2>8. ASSUME NEW k \in Keys, NEW ttl, Set(k, ttl) PROVE IInv'
    <3>1. FlightTypes'
      BY <2>8 DEF Set, FlightTypes
    <3>2. PICK ex : setLocked(k, source[k], ex, FALSE)
      BY <2>8 DEF Set
    <3>3. told' = [told EXCEPT ![k] = source[k]] /\ source' = source /\ source[k] \in Nat
      BY <2>8 DEF Set, VersionTypes
    <3>4. /\ told' \in [Keys -> Nat] /\ source' \in [Keys -> Nat]
          /\ \A x \in Keys : told'[x] <= source'[x]
          /\ \A x \in Keys : x # k => told'[x] = told[x]
          /\ ~(source[k] < told'[k])
      BY <3>3 DEF VersionTypes
    <3> QED
      BY <3>1, <3>2, <3>3, <3>4, SetKeeps
  <2>9. ASSUME NEW k \in Keys, CheckAgain(k) PROVE IInv'
    <3>1. Hit(k) \/ Miss(k) \/ Unreachable(k)
      BY <2>9 DEF CheckAgain
    <3>2. /\ \/ flight' = [flight EXCEPT ![k] = [at |-> "end"]]
             \/ flight' = [flight EXCEPT ![k] = [at |-> "start"]]
          /\ UNCHANGED <<source, told>>
      BY <2>9 DEF CheckAgain, To
    <3>3. FlightTypes'
      BY <3>2 DEF FlightTypes
    <3> QED
      BY <3>1, <3>2, <3>3, LookKeeps
  <2>16. ASSUME NEW k \in Keys, LoadStart(k) PROVE IInv'
    <3>1. /\ flight' = [flight EXCEPT ![k] = [at |-> "load", read |-> source[k], told |-> told[k]]]
          /\ UNCHANGED <<value, source, told, raced>>
      BY <2>16 DEF LoadStart, To
    <3>2. [at |-> "load", read |-> source[k], told |-> told[k]]
            \in [at : {"load"}, read : Nat, told : Nat] /\ told[k] <= source[k]
      BY DEF VersionTypes
    <3>3. FlightTypes'
      BY <3>1, <3>2 DEF FlightTypes
    <3> QED
      BY <3>1, <3>3 DEF VersionTypes, OldOnlyIfRaced
  <2>10. ASSUME NEW k \in Keys, LoadError(k) PROVE IInv'
    BY <2>10 DEF LoadError, To, VersionTypes, FlightTypes, OldOnlyIfRaced
  <2>11. ASSUME NEW k \in Keys, Store(k) PROVE IInv'
    <3>1. /\ flight[k].at = "load" /\ flight' = [flight EXCEPT ![k] = [at |-> "end"]]
          /\ UNCHANGED <<source, told>>
      BY <2>11 DEF Store, To
    <3>2. FlightTypes'
      BY <3>1 DEF FlightTypes
    <3>3. flight[k].read \in Nat /\ flight[k].told \in Nat /\ flight[k].told <= flight[k].read
      BY <3>1 DEF FlightTypes, NoFlight
    <3> DEFINE v == flight[k].read
               race == v < told[k] /\ told[k] # flight[k].told
    <3>4. CASE setLocked(k, v, Expiry, race)
      <4>1. race \in BOOLEAN /\ (v < told'[k] => race)
        BY <3>1, <3>3 DEF VersionTypes
      <4>2. /\ told' \in [Keys -> Nat] /\ source' \in [Keys -> Nat] /\ v \in Nat
            /\ \A x \in Keys : told'[x] <= source'[x]
            /\ \A x \in Keys : x # k => told'[x] = told[x]
        BY <3>1, <3>3 DEF VersionTypes
      <4> HIDE DEF v, race
      <4> QED
        BY <3>2, <3>4, <4>1, <4>2, SetKeeps
    <3>5. CASE Unreachable(k)
      BY <3>1, <3>2, <3>5, LookKeeps
    <3> QED
      BY <2>11, <3>4, <3>5 DEF Store
  <2>12. ASSUME NEW k \in Keys, Return(k) PROVE IInv'
    BY <2>12 DEF Return, To, NoFlight, VersionTypes, FlightTypes, OldOnlyIfRaced
  <2>13. ASSUME NEW q \in Callers, groupDo(q) PROVE IInv'
    <3>1. /\ \/ flight' = [flight EXCEPT ![pc[q][2]] = [at |-> "check"]]
             \/ flight' = flight
          /\ UNCHANGED <<value, source, told, raced>>
      BY <2>13 DEF groupDo, To
    <3> QED
      BY <3>1 DEF VersionTypes, FlightTypes, OldOnlyIfRaced
  <2>14. ASSUME NEW q \in Callers, NEW k \in Keys, GetOrLoad(q, k) PROVE IInv'
    BY <2>14, LookKeeps DEF GetOrLoad, FlightTypes
  <2>15. CASE UNCHANGED vars
    BY <2>15 DEF vars, VersionTypes, FlightTypes, OldOnlyIfRaced
  <2> QED
    BY <2>1, <2>2, <2>3, <2>4, <2>5, <2>6, <2>7, <2>8, <2>9, <2>10, <2>11, <2>12, <2>13, <2>14,
       <2>15, <2>16 DEF Next
<1> QED
  BY <1>1, <1>2, PTL DEF Spec

\* A Get after a Set or Delete answers with nothing older, unless a load that was
\* running then stored its value afterwards.
THEOREM StaleOnlyIfRacedTheorem == Spec => []StaleOnlyIfRaced
<1>1. IInv => StaleOnlyIfRaced
  BY DEF IInv, OldOnlyIfRaced, StaleOnlyIfRaced, Live
<1> QED
  BY <1>1, Inductive, PTL

\* While a flight is about to load, what an earlier load stored for its key is gone.
GoneBeforeLoad ==
    \A k \in LocalKeys : flight[k].at = "start" /\ k \in loaded => value[k] = Absent

\* What one load stored is not loaded again while it lives: only a Set between the
\* look inside the flight and the loader has a cached key loaded.
THEOREM NoNeedlessLoadTheorem == Spec => NoNeedlessLoad
<1> DEFINE A == \A k \in LocalKeys :
                   flight[k].at # "load" /\ flight'[k].at = "load" => ~(Live(k) /\ k \in loaded)
           Flights == {NoFlight, [at |-> "check"], [at |-> "start"], [at |-> "end"]}
                        \cup [at : {"load"}, read : Nat, told : Nat]
<1>1. Init => GoneBeforeLoad
  BY DEF Init, GoneBeforeLoad
<1>2. IInv /\ GoneBeforeLoad /\ [Next]_vars => GoneBeforeLoad'
  <2> SUFFICES ASSUME IInv, GoneBeforeLoad, [Next]_vars, NEW k \in LocalKeys,
                      flight'[k].at = "start", k \in loaded'
               PROVE  value'[k] = Absent
    BY DEF GoneBeforeLoad
  <2>1. /\ flight \in [Keys -> Flights] /\ value \in [Keys -> Int]
        /\ k \in Keys /\ k \notin RemoteKeys
        /\ "start" # "check" /\ "start" # "end" /\ "start" # "none" /\ "start" # "load"
    BY KeyAssumption DEF IInv, FlightTypes, VersionTypes, Keys
  <2>2. flight[k].at = "start" /\ k \in loaded => value[k] = Absent
    BY DEF GoneBeforeLoad
  <2>3. ASSUME NEW S, removeLocked(S), UNCHANGED <<flight, loaded>> PROVE value'[k] = Absent
    BY <2>1, <2>2, <2>3 DEF removeLocked
  <2>4. ASSUME NEW j \in Keys, Hit(j) \/ Miss(j) \/ Unreachable(j), UNCHANGED <<flight, loaded>>
        PROVE  value'[k] = Absent
    BY <2>2, <2>3, <2>4 DEF Hit, Miss, Unreachable
  <2>5. ASSUME NEW j \in Keys, NEW v, NEW ex, NEW race, setLocked(j, v, ex, race), j # k,
               flight'[k] = flight[k], k \in loaded
        PROVE  value'[k] = Absent
    BY <2>1, <2>2, <2>5 DEF setLocked
  <2>6. CASE sweep \/ Close \/ (\E j \in Keys : Update(j) \/ Get(j) \/ Delete(j) \/ Expire(j))
    BY <2>2, <2>3, <2>4, <2>6 DEF sweep, Close, Update, Get, Delete, Expire
  <2>7. CASE Tick
    BY <2>1, <2>2, <2>7 DEF Tick
  <2>8. ASSUME NEW j \in Keys, NEW ttl, Set(j, ttl) PROVE value'[k] = Absent
    <3>1. /\ flight' = flight /\ loaded' = loaded \ {j}
          /\ setLocked(j, source[j], IF ttl > 0 THEN ttl ELSE Forever, FALSE)
      BY <2>8 DEF Set
    <3>2. j # k /\ k \in loaded
      BY <3>1
    <3> QED
      BY <2>5, <3>1, <3>2
  <2>9. ASSUME NEW j \in Keys, CheckAgain(j) PROVE value'[k] = Absent
    <3>1. CASE j = k
      <4>1. Miss(k)
        BY <2>1, <2>9, <3>1 DEF CheckAgain, To, Unreachable
      <4> QED
        BY <2>1, <4>1 DEF Miss, removeLocked
    <3>2. CASE j # k
      <4>1. flight[k].at = "start" /\ k \in loaded
        BY <2>1, <2>9, <3>2 DEF CheckAgain, To
      <4> QED
        BY <2>1, <2>2, <2>9, <4>1 DEF CheckAgain, Hit, Miss, Unreachable, removeLocked
    <3> QED
      BY <3>1, <3>2
  <2>10. ASSUME NEW j \in Keys, LoadStart(j) \/ LoadError(j) \/ Return(j) PROVE value'[k] = Absent
    BY <2>1, <2>2, <2>10 DEF LoadStart, LoadError, Return, To, NoFlight
  <2>11. ASSUME NEW j \in Keys, Store(j) PROVE value'[k] = Absent
    <3>1. flight[j].at = "load" /\ flight' = [flight EXCEPT ![j] = [at |-> "end"]]
      BY <2>11 DEF Store, To
    <3>2. j # k /\ flight'[k] = flight[k]
      BY <2>1, <3>1
    <3>3. k \in loaded
      BY <2>11, <3>2 DEF Store
    <3>4. CASE Unreachable(j)
      BY <2>2, <3>2, <3>3, <3>4 DEF Unreachable
    <3>5. CASE setLocked(j, flight[j].read, Expiry,
                         flight[j].read < told[j] /\ told[j] # flight[j].told)
      BY <2>5, <3>2, <3>3, <3>5
    <3> QED
      BY <2>11, <3>4, <3>5 DEF Store
  <2>12. ASSUME NEW q \in Callers, groupDo(q) PROVE value'[k] = Absent
    BY <2>1, <2>2, <2>12 DEF groupDo, To
  <2>13. ASSUME NEW q \in Callers, NEW j \in Keys, GetOrLoad(q, j) PROVE value'[k] = Absent
    BY <2>4, <2>13 DEF GetOrLoad
  <2>14. CASE UNCHANGED vars
    BY <2>2, <2>14 DEF vars
  <2> QED
    BY <2>6, <2>7, <2>8, <2>9, <2>10, <2>11, <2>12, <2>13, <2>14 DEF Next
<1>3. IInv /\ GoneBeforeLoad /\ [Next]_vars => [A]_vars
  <2> SUFFICES ASSUME IInv, GoneBeforeLoad, Next, NEW k \in LocalKeys, flight[k].at # "load",
                      flight'[k].at = "load", Live(k), k \in loaded
               PROVE  FALSE
    BY DEF A
  <2>1. /\ flight \in [Keys -> Flights] /\ k \in Keys
        /\ "load" # "check" /\ "load" # "start" /\ "load" # "end" /\ "load" # "none"
    BY DEF IInv, FlightTypes, Keys
  <2>2. ASSUME NEW j \in Keys, LoadStart(j) PROVE FALSE
    <3>1. j = k
      BY <2>1, <2>2 DEF LoadStart, To
    <3> QED
      BY <2>2, <3>1 DEF LoadStart, GoneBeforeLoad, Live
  <2>3. ASSUME NEW j \in Keys, CheckAgain(j) \/ LoadError(j) \/ Store(j) \/ Return(j) PROVE FALSE
    BY <2>1, <2>3 DEF CheckAgain, LoadError, Store, Return, To, NoFlight
  <2>4. ASSUME NEW q \in Callers, groupDo(q) PROVE FALSE
    BY <2>1, <2>4 DEF groupDo, To
  <2>5. CASE flight' = flight
    BY <2>5
  <2> QED
    BY <2>2, <2>3, <2>4, <2>5 DEF Next, sweep, Close, Tick, Update, Get, Delete, Expire, Set, GetOrLoad
<1> QED
  BY <1>1, <1>2, <1>3, Inductive, PTL DEF Spec, NoNeedlessLoad

-----------------------------------------------------------------------------
(* The list. *)

\* The places of s that hold no member of S, and how many of P are up to place i.
Kept(s, S) == {i \in DOMAIN s : s[i] \notin S}
Rank(P, i) == Cardinality({j \in P : j <= i})

Distinct(s) == \A i, j \in DOMAIN s : s[i] = s[j] => i = j

\* Ranks count a finite set of places from 1, each number once.
LEMMA RankBijective ==
    ASSUME NEW P, P \subseteq Nat, IsFiniteSet(P)
    PROVE  /\ Cardinality(P) \in Nat
           /\ \A i \in P : Rank(P, i) \in 1..Cardinality(P)
           /\ \A i, j \in P : Rank(P, i) = Rank(P, j) => i = j
           /\ \A n \in 1..Cardinality(P) : \E i \in P : Rank(P, i) = n
<1> DEFINE Upto(i) == {j \in P : j <= i}
           f == [i \in P |-> Cardinality(Upto(i))]
<1>1. Cardinality(P) \in Nat
  BY FS_CardinalityType
<1>2. ASSUME NEW i \in P
      PROVE  /\ IsFiniteSet(Upto(i)) /\ Cardinality(Upto(i)) \in 1..Cardinality(P)
  <2>1. Upto(i) \in SUBSET P /\ i \in Upto(i)
    OBVIOUS
  <2>2. IsFiniteSet(Upto(i)) /\ Cardinality(Upto(i)) <= Cardinality(P)
    BY <2>1, FS_Subset
  <2>3. Cardinality(Upto(i)) \in Nat /\ Cardinality(Upto(i)) # 0
    BY <2>1, <2>2, FS_CardinalityType, FS_EmptySet
  <2> HIDE DEF Upto
  <2> QED
    BY <1>1, <2>2, <2>3
<1>3. ASSUME NEW i \in P, NEW j \in P, i < j PROVE Cardinality(Upto(i)) < Cardinality(Upto(j))
  <2>1. Upto(i) \in SUBSET Upto(j) /\ j \in Upto(j) /\ j \notin Upto(i)
    <3>1. i \in Nat /\ j \in Nat /\ \A x \in Upto(i) : x \in Nat /\ x \in P /\ x <= i
      OBVIOUS
    <3>2. \A x \in Upto(i) : x <= j /\ x \in P
      BY <1>3, <3>1
    <3>3. Upto(i) \subseteq Upto(j)
      BY <3>2
    <3>4. j \in Upto(j)
      BY <3>1
    <3>5. j \notin Upto(i)
      BY <1>3, <3>1
    <3> QED
      BY <3>3, <3>4, <3>5
  <2>2. Upto(i) # Upto(j)
    BY <2>1
  <2> HIDE DEF Upto
  <2> QED
    BY <1>1, <1>2, <2>1, <2>2, FS_Subset
<1>4. ASSUME NEW i \in P, NEW j \in P, Cardinality(Upto(i)) = Cardinality(Upto(j)) PROVE i = j
  <2>1. Cardinality(Upto(i)) \in Nat /\ Cardinality(Upto(j)) \in Nat
    BY <1>1, <1>2
  <2>2. ~(i < j) /\ ~(j < i)
    <3> HIDE DEF Upto
    <3> QED
      BY <1>3, <1>4, <2>1
  <2> QED
    BY <2>2
<1> HIDE DEF Upto
<1>5. f \in Injection(P, 1..Cardinality(P))
  BY <1>2, <1>4 DEF Injection, IsInjective
<1>6. IsFiniteSet(1..Cardinality(P)) /\ Cardinality(1..Cardinality(P)) = Cardinality(P)
  BY <1>1, FS_Interval
<1>7. f \in Surjection(P, 1..Cardinality(P))
  <2> HIDE DEF f
  <2> QED
    BY <1>5, <1>6, FS_Injection
<1>8. \A n \in 1..Cardinality(P) : \E i \in P : f[i] = n
  <2> HIDE DEF f
  <2> QED
    BY <1>7 DEF Surjection
<1> QED
  BY <1>1, <1>2, <1>4, <1>8 DEF Rank, Upto

\* Taking S out of a list of distinct elements leaves the others, each once.
LEMMA WithoutIs ==
    ASSUME NEW A, NEW s \in Seq(A), Distinct(s), NEW S
    PROVE  /\ Without(s, S) \in Seq(A) /\ Distinct(Without(s, S))
           /\ ToSet(Without(s, S)) = ToSet(s) \ S
           /\ Len(Without(s, S)) \in Nat /\ Len(Without(s, S)) <= Len(s)
           /\ (\E i \in DOMAIN s : s[i] \in S) => Len(Without(s, S)) < Len(s)
<1> DEFINE P == Kept(s, S)
           N == Cardinality(P)
           at(n) == CHOOSE i \in P : Rank(P, i) = n
           t == [n \in 1..N |-> s[at(n)]]
<1>1. Without(s, S) = t
  BY DEF Without, Kept, Rank
<1>2. /\ DOMAIN s = 1..Len(s) /\ Len(s) \in Nat /\ \A i \in 1..Len(s) : s[i] \in A
      /\ P \subseteq 1..Len(s) /\ P = {i \in DOMAIN s : s[i] \notin S}
  BY DEF Kept
<1>3. IsFiniteSet(1..Len(s)) /\ Cardinality(1..Len(s)) = Len(s)
  <2>1. Len(s) \in Int /\ 1 \in Int /\ Len(s) = (IF 1 > Len(s) THEN 0 ELSE Len(s) - 1 + 1)
    BY <1>2
  <2> QED
    BY ONLY <2>1, FS_Interval
<1>4. IsFiniteSet(P) /\ N <= Len(s) /\ (N = Len(s) => P = 1..Len(s))
  <2>1. P \in SUBSET (1..Len(s))
    BY <1>2
  <2> HIDE DEF P
  <2> QED
    BY <1>3, <2>1, FS_Subset
<1> HIDE DEF P
<1>5. /\ N \in Nat
      /\ \A i \in P : Rank(P, i) \in 1..N
      /\ \A i, j \in P : Rank(P, i) = Rank(P, j) => i = j
      /\ \A n \in 1..N : \E i \in P : Rank(P, i) = n
  <2>1. P \subseteq Nat /\ IsFiniteSet(P)
    BY <1>2, <1>4
  <2> QED
    BY ONLY <2>1, RankBijective
<1>6. ASSUME NEW n \in 1..N PROVE at(n) \in P /\ Rank(P, at(n)) = n
  BY <1>5
<1>7. ASSUME NEW i \in P PROVE at(Rank(P, i)) = i /\ Rank(P, i) \in 1..N
  <2>1. Rank(P, i) \in 1..N
    BY <1>5
  <2>2. at(Rank(P, i)) \in P /\ Rank(P, at(Rank(P, i))) = Rank(P, i)
    BY <1>6, <2>1
  <2> HIDE DEF at
  <2> QED
    BY <1>5, <2>1, <2>2
<1> HIDE DEF at, N
<1>8. t \in Seq(A) /\ Len(t) = N /\ DOMAIN t = 1..N
  <2>1. \A n \in 1..N : s[at(n)] \in A
    BY <1>2, <1>6
  <2>2. t \in [1..N -> A]
    BY <2>1
  <2> HIDE DEF t
  <2> QED
    BY <1>5, <2>2
<1>9. Distinct(t)
  <2> SUFFICES ASSUME NEW n \in 1..N, NEW m \in 1..N, s[at(n)] = s[at(m)] PROVE n = m
    BY <1>8 DEF Distinct
  <2>1. at(n) \in DOMAIN s /\ at(m) \in DOMAIN s
    BY <1>2, <1>6
  <2>2. at(n) = at(m)
    BY <2>1 DEF Distinct
  <2> QED
    BY <1>6, <2>2
<1>10. ToSet(t) = ToSet(s) \ S
  <2>1. ASSUME NEW n \in 1..N PROVE t[n] \in ToSet(s) /\ t[n] \notin S
    BY <1>2, <1>6 DEF ToSet
  <2>2. ASSUME NEW i \in DOMAIN s, s[i] \notin S PROVE s[i] \in ToSet(t)
    <3>1. i \in P
      BY <1>2, <2>2
    <3>2. t[Rank(P, i)] = s[i] /\ Rank(P, i) \in DOMAIN t
      BY <1>7, <1>8, <3>1
    <3> QED
      BY <3>2 DEF ToSet
  <2> HIDE DEF t
  <2> QED
    BY <1>8, <2>1, <2>2 DEF ToSet
<1>11. ASSUME NEW i \in DOMAIN s, s[i] \in S PROVE N < Len(s)
  <2>1. i \in 1..Len(s) /\ i \notin P
    BY <1>2, <1>11
  <2>2. P # 1..Len(s)
    BY <2>1
  <2>3. N \in Nat /\ Len(s) \in Nat /\ N <= Len(s) /\ N # Len(s)
    BY <1>2, <1>4, <1>5, <2>2
  <2> QED
    BY ONLY <2>3
<1> HIDE DEF t
<1> QED
  BY <1>1, <1>4, <1>5, <1>8, <1>9, <1>10, <1>11 DEF N

\* Entries and list are typed and agree: ListAgrees with the part of TypeOK that the
\* methods under c.mu change.
EntriesAgree ==
    /\ value \in [Keys -> Absent..MaxVersion]
    /\ left \in [Keys -> Forever..TTL]
    /\ raced \subseteq Keys
    /\ lru \in Seq(LocalKeys)
    /\ ToSet(lru) = {k \in LocalKeys : value[k] # Absent}
    /\ Distinct(lru)
    /\ MaxSize > 0 => Len(lru) <= MaxSize

\* The rest of the state; a load has read a version the source can have.
RestTyped ==
    /\ janitor \in BOOLEAN
    /\ source \in [Keys -> 0..MaxVersion]
    /\ told \in [Keys -> 0..MaxVersion]
    /\ pc \in [Callers -> {Out} \cup ({"do", "in"} \X Keys)]
    /\ \A k \in Keys : flight[k].at = "load" => flight[k].read \in 0..MaxVersion
    /\ loaded \subseteq Keys

\* Removing entries takes them off the list.
LEMMA RemoveAgrees ==
    ASSUME EntriesAgree, NEW S, removeLocked(S)
    PROVE  EntriesAgree'
<1>1. /\ lru' \in Seq(LocalKeys) /\ Distinct(lru') /\ ToSet(lru') = ToSet(lru) \ S
      /\ Len(lru') \in Nat /\ Len(lru') <= Len(lru) /\ Len(lru) \in Nat
  BY WithoutIs DEF removeLocked, EntriesAgree
<1>2. /\ value' = [k \in Keys |-> IF k \in S THEN Absent ELSE value[k]]
      /\ left' = [k \in Keys |-> IF k \in S THEN Forever ELSE left[k]]
      /\ raced' = raced \ S
  BY DEF removeLocked
<1>3. /\ value' \in [Keys -> Absent..MaxVersion] /\ left' \in [Keys -> Forever..TTL]
      /\ raced' \subseteq Keys
  BY <1>2, SizeAssumption DEF EntriesAgree, Absent, Forever
<1>4. ToSet(lru') = {k \in LocalKeys : value'[k] # Absent}
  BY <1>1, <1>2 DEF EntriesAgree, Keys
<1>5. MaxSize > 0 => Len(lru') <= MaxSize
  BY <1>1, SizeAssumption DEF EntriesAgree
<1> QED
  BY <1>1, <1>3, <1>4, <1>5 DEF EntriesAgree

\* MoveToFront puts a local key on the list, once; the list grows only by a new key.
LEMMA FrontIs ==
    ASSUME EntriesAgree, NEW k \in Keys
    PROVE  /\ MoveToFront(k) \in Seq(LocalKeys) /\ Distinct(MoveToFront(k))
           /\ ToSet(MoveToFront(k)) = ToSet(lru) \cup (LocalKeys \cap {k})
           /\ Len(MoveToFront(k)) \in Nat /\ Len(lru) \in Nat
           /\ Len(MoveToFront(k)) <= Len(lru) + 1
           /\ k \in ToSet(lru) => Len(MoveToFront(k)) <= Len(lru)
<1>1. CASE k \notin LocalKeys
  BY <1>1 DEF MoveToFront, EntriesAgree
<1>2. CASE k \in LocalKeys
  <2> DEFINE w == Without(lru, {k})
             t == <<k>> \o w
  <2>1. /\ w \in Seq(LocalKeys) /\ Distinct(w) /\ ToSet(w) = ToSet(lru) \ {k}
        /\ Len(w) \in Nat /\ Len(w) <= Len(lru) /\ Len(lru) \in Nat
        /\ (\E i \in DOMAIN lru : lru[i] \in {k}) => Len(w) < Len(lru)
    BY WithoutIs DEF EntriesAgree
  <2>2. k \in ToSet(lru) => Len(w) < Len(lru)
    BY <2>1 DEF ToSet
  <2> HIDE DEF w
  <2>3. /\ t \in Seq(LocalKeys) /\ Len(t) = Len(w) + 1 /\ t[1] = k
        /\ \A i \in 1..Len(w) : t[i + 1] = w[i]
    BY <1>2, <2>1
  <2>4. DOMAIN t = 1..(Len(w) + 1) /\ DOMAIN w = 1..Len(w)
    BY <2>1, <2>3
  <2>5. \A i \in DOMAIN t : i = 1 \/ (i - 1 \in 1..Len(w) /\ t[i] = w[i - 1])
    <3> SUFFICES ASSUME NEW i \in DOMAIN t, i # 1
                 PROVE  i - 1 \in 1..Len(w) /\ t[i] = w[i - 1]
      OBVIOUS
    <3>1. i \in 1..(Len(w) + 1)
      BY <2>4
    <3>2. i - 1 \in 1..Len(w) /\ (i - 1) + 1 = i
      BY <2>1, <3>1
    <3> HIDE DEF t
    <3> QED
      BY <2>3, <3>2
  <2> HIDE DEF t
  <2>6. ToSet(t) = ToSet(lru) \cup {k}
    <3>1. \A i \in DOMAIN t : t[i] = k \/ t[i] \in ToSet(w)
      BY <2>3, <2>4, <2>5 DEF ToSet
    <3>2. \A i \in DOMAIN w : w[i] \in ToSet(t)
      <4> SUFFICES ASSUME NEW i \in DOMAIN w PROVE w[i] \in ToSet(t)
        OBVIOUS
      <4>1. i + 1 \in DOMAIN t /\ t[i + 1] = w[i]
        BY <2>1, <2>3, <2>4
      <4> QED
        BY <4>1 DEF ToSet
    <3>3. k \in ToSet(t)
      <4>1. 1 \in DOMAIN t
        BY <2>1, <2>4
      <4> QED
        BY <2>3, <4>1 DEF ToSet
    <3>4. \A x : x \in ToSet(t) <=> \E i \in DOMAIN t : x = t[i]
      BY DEF ToSet
    <3>5. \A x : x \in ToSet(w) <=> \E i \in DOMAIN w : x = w[i]
      BY DEF ToSet
    <3> QED
      BY <2>1, <3>1, <3>2, <3>3, <3>4, <3>5
  <2>7. Distinct(t)
    <3> SUFFICES ASSUME NEW i \in DOMAIN t, NEW j \in DOMAIN t, t[i] = t[j] PROVE i = j
      BY DEF Distinct
    <3>1. \A x \in DOMAIN w : w[x] # k
      BY <2>1 DEF ToSet
    <3>2. i \in Nat /\ j \in Nat
      BY <2>1, <2>4
    <3>3. CASE i = 1 \/ j = 1
      BY <2>3, <2>4, <2>5, <3>1, <3>3
    <3>4. CASE i # 1 /\ j # 1
      <4>1. i - 1 \in DOMAIN w /\ j - 1 \in DOMAIN w /\ w[i - 1] = w[j - 1]
        BY <2>4, <2>5, <3>4
      <4>2. i - 1 = j - 1
        BY <2>1, <4>1 DEF Distinct
      <4> QED
        BY <3>2, <4>2
    <3> QED
      BY <3>3, <3>4
  <2>8. MoveToFront(k) = t
    BY <1>2 DEF MoveToFront, t, w
  <2>9. LocalKeys \cap {k} = {k}
    BY <1>2
  <2> QED
    BY <2>1, <2>2, <2>3, <2>6, <2>7, <2>8, <2>9
<1> QED
  BY <1>1, <1>2

\* Storing an entry puts its key on the list, and what the list pushes out goes.
LEMMA SetAgrees ==
    ASSUME EntriesAgree, NEW k \in Keys, NEW v \in 0..MaxVersion, NEW ex \in Forever..TTL,
           NEW race \in BOOLEAN, setLocked(k, v, ex, race)
    PROVE  EntriesAgree'
<1> DEFINE front == MoveToFront(k)
           out == evictOldest(front)
<1>1. /\ value' = [x \in Keys |-> IF x \in out THEN Absent ELSE IF x = k THEN v ELSE value[x]]
      /\ left' = [x \in Keys |-> IF x \in out THEN Forever ELSE IF x = k THEN ex ELSE left[x]]
      /\ lru' = Without(front, out)
      /\ raced' = (IF race THEN raced \cup {k} ELSE raced \ {k}) \ out
  BY DEF setLocked
<1>2. /\ front \in Seq(LocalKeys) /\ Distinct(front)
      /\ ToSet(front) = ToSet(lru) \cup (LocalKeys \cap {k})
      /\ Len(front) \in Nat /\ Len(lru) \in Nat
      /\ Len(front) <= Len(lru) + 1
  BY FrontIs
<1>3. (MaxSize > 0 /\ Len(front) > MaxSize) => \E i \in DOMAIN front : front[i] \in out
  <2> HIDE DEF front
  <2> SUFFICES ASSUME MaxSize > 0, Len(front) > MaxSize
               PROVE  Len(front) \in DOMAIN front /\ front[Len(front)] \in out
    OBVIOUS
  <2>1. Len(front) \in DOMAIN front
    BY <1>2, SizeAssumption
  <2> QED
    BY <2>1 DEF evictOldest, Last
<1> HIDE DEF front, out
<1>4. /\ lru' \in Seq(LocalKeys) /\ Distinct(lru') /\ ToSet(lru') = ToSet(front) \ out
      /\ Len(lru') \in Nat /\ Len(lru') <= Len(front)
      /\ (\E i \in DOMAIN front : front[i] \in out) => Len(lru') < Len(front)
  BY <1>1, <1>2, WithoutIs
<1>5. /\ value' \in [Keys -> Absent..MaxVersion] /\ left' \in [Keys -> Forever..TTL]
  BY <1>1, SizeAssumption DEF EntriesAgree, Absent, Forever
<1>6. raced' \subseteq Keys
  BY <1>1 DEF EntriesAgree
<1>7. ToSet(lru') = {x \in LocalKeys : value'[x] # Absent}
  <2>1. \A x \in LocalKeys : value'[x] # Absent <=> x \notin out /\ (x = k \/ value[x] # Absent)
    BY <1>1 DEF Keys, Absent
  <2> QED
    BY <1>2, <1>4, <2>1 DEF EntriesAgree
<1>8. MaxSize > 0 => Len(lru') <= MaxSize
  BY <1>2, <1>3, <1>4, SizeAssumption DEF EntriesAgree
<1> QED
  BY <1>4, <1>5, <1>6, <1>7, <1>8 DEF EntriesAgree

\* A Get leaves the list as long as it was, or shorter.
LEMMA LookAgrees ==
    ASSUME EntriesAgree, NEW k \in Keys, Hit(k) \/ Miss(k) \/ Unreachable(k)
    PROVE  EntriesAgree'
<1>1. CASE Miss(k)
  BY <1>1, RemoveAgrees DEF Miss
<1>2. CASE Hit(k)
  <2>1. lru' = MoveToFront(k) /\ UNCHANGED <<value, left, raced>> /\ value[k] # Absent
    BY <1>2 DEF Hit, Live
  <2>2. /\ lru' \in Seq(LocalKeys) /\ Distinct(lru')
        /\ ToSet(lru') = ToSet(lru) \cup (LocalKeys \cap {k})
        /\ Len(lru') \in Nat /\ Len(lru) \in Nat
        /\ k \in ToSet(lru) => Len(lru') <= Len(lru)
    BY <2>1, FrontIs
  <2>3. ToSet(lru') = ToSet(lru)
    BY <2>1, <2>2 DEF EntriesAgree
  <2>4. Len(lru') <= Len(lru)
    <3>1. CASE k \in LocalKeys
      BY <2>1, <2>2, <3>1 DEF EntriesAgree
    <3>2. CASE k \notin LocalKeys
      BY <2>1, <2>2, <3>2 DEF MoveToFront
    <3> QED
      BY <3>1, <3>2
  <2>5. MaxSize > 0 => Len(lru') <= MaxSize
    BY <2>2, <2>4, SizeAssumption DEF EntriesAgree
  <2> QED
    BY <2>1, <2>2, <2>3, <2>5 DEF EntriesAgree
<1>3. CASE Unreachable(k)
  BY <1>3 DEF Unreachable, EntriesAgree
<1> QED
  BY <1>1, <1>2, <1>3

\* A tick takes remote keys only, which are on no list.
LEMMA TickAgrees ==
    ASSUME EntriesAgree, Tick
    PROVE  EntriesAgree'
<1> DEFINE gone == {k \in RemoteKeys : left[k] = 1}
<1>1. /\ value' = [k \in Keys |-> IF k \in gone THEN Absent ELSE value[k]]
      /\ left' = [k \in Keys |-> IF k \in gone THEN Forever
                                 ELSE IF left[k] > 0 THEN left[k] - 1 ELSE left[k]]
      /\ raced' = raced \ gone /\ lru' = lru
  BY DEF Tick
<1>2. gone \cap LocalKeys = {}
  BY KeyAssumption
<1> HIDE DEF gone
<1>3. value' \in [Keys -> Absent..MaxVersion] /\ raced' \subseteq Keys
  BY <1>1, SizeAssumption DEF EntriesAgree, Absent
<1>4. left' \in [Keys -> Forever..TTL]
  <2> SUFFICES ASSUME NEW k \in Keys PROVE left'[k] \in Forever..TTL
    BY <1>1
  <2>1. left[k] \in Forever..TTL
    BY DEF EntriesAgree
  <2>2. left'[k] = Forever \/ (left[k] > 0 /\ left'[k] = left[k] - 1) \/ left'[k] = left[k]
    BY <1>1
  <2> QED
    BY <2>1, <2>2, SizeAssumption DEF Forever
<1>5. {k \in LocalKeys : value'[k] # Absent} = {k \in LocalKeys : value[k] # Absent}
  BY <1>1, <1>2 DEF Keys
<1> QED
  BY <1>1, <1>3, <1>4, <1>5 DEF EntriesAgree

\* Entries and list agree in every reachable state, and every variable has its type.
THEOREM ListInductive == Spec => [](EntriesAgree /\ RestTyped)
<1>1. Init => EntriesAgree /\ RestTyped
  <2> SUFFICES ASSUME Init PROVE EntriesAgree /\ RestTyped
    OBVIOUS
  <2>1. /\ lru = << >> /\ lru \in Seq(LocalKeys) /\ Len(lru) = 0 /\ DOMAIN lru = {}
        /\ ToSet(lru) = {}
    BY DEF Init, ToSet
  <2>2. value \in [Keys -> Absent..MaxVersion] /\ left \in [Keys -> Forever..TTL] /\ raced = {}
    BY SizeAssumption DEF Init, Absent, Forever
  <2>3. {k \in LocalKeys : value[k] # Absent} = {}
    BY DEF Init, Keys
  <2>4. EntriesAgree
    BY <2>1, <2>2, <2>3, SizeAssumption DEF EntriesAgree, Distinct
  <2>5. RestTyped
    BY SizeAssumption DEF Init, RestTyped, NoFlight
  <2> QED
    BY <2>4, <2>5
<1>2. IInv /\ EntriesAgree /\ RestTyped /\ [Next]_vars => EntriesAgree' /\ RestTyped'
  <2> SUFFICES ASSUME IInv, EntriesAgree, RestTyped, [Next]_vars
               PROVE  EntriesAgree' /\ RestTyped'
    OBVIOUS
  <2>f. /\ flight \in [Keys -> {NoFlight, [at |-> "check"], [at |-> "start"], [at |-> "end"]}
                               \cup [at : {"load"}, read : Nat, told : Nat]]
        /\ "load" # "check" /\ "load" # "end" /\ "load" # "none"
    BY DEF IInv, FlightTypes
  <2>1. CASE sweep
    BY <2>1, RemoveAgrees DEF sweep, RestTyped
  <2>2. CASE Close
    BY <2>2 DEF Close, RestTyped, EntriesAgree
  <2>3. CASE Tick
    BY <2>3, TickAgrees DEF Tick, RestTyped
  <2>4. ASSUME NEW k \in Keys, Update(k) PROVE EntriesAgree' /\ RestTyped'
    <3>1. source[k] \in 0..MaxVersion /\ source[k] < MaxVersion
      BY <2>4 DEF Update, RestTyped
    <3>2. source[k] + 1 \in 0..MaxVersion
      BY <3>1, SizeAssumption
    <3>3. source' \in [Keys -> 0..MaxVersion]
      BY <2>4, <3>2 DEF Update, RestTyped
    <3> QED
      BY <2>4, <3>3 DEF Update, RestTyped, EntriesAgree
  <2>5. ASSUME NEW k \in Keys, Get(k) PROVE EntriesAgree' /\ RestTyped'
    BY <2>5, LookAgrees DEF Get, RestTyped
  <2>6. ASSUME NEW k \in Keys, Delete(k) PROVE EntriesAgree' /\ RestTyped'
    BY <2>6, RemoveAgrees DEF Delete, RestTyped
  <2>7. ASSUME NEW k \in Keys, Expire(k) PROVE EntriesAgree' /\ RestTyped'
    <3>1. left' \in [Keys -> Forever..TTL]
      BY <2>7, SizeAssumption DEF Expire, EntriesAgree, Forever
    <3> QED
      BY <2>7, <3>1 DEF Expire, RestTyped, EntriesAgree
  <2>8. ASSUME NEW k \in Keys, NEW ttl \in {0, TTL}, Set(k, ttl) PROVE EntriesAgree' /\ RestTyped'
    <3> DEFINE ex == IF ttl > 0 THEN ttl ELSE Forever
    <3>1. ex \in Forever..TTL
      BY SizeAssumption DEF Forever
    <3>2. setLocked(k, source[k], ex, FALSE) /\ source[k] \in 0..MaxVersion
      BY <2>8 DEF Set, RestTyped
    <3>3. EntriesAgree'
      <4> HIDE DEF ex
      <4> QED
        BY <3>1, <3>2, SetAgrees
    <3>4. told' \in [Keys -> 0..MaxVersion]
      BY <2>8, <3>2 DEF Set, RestTyped
    <3> QED
      BY <2>8, <3>3, <3>4 DEF Set, RestTyped
  <2>9. ASSUME NEW k \in Keys, CheckAgain(k) PROVE EntriesAgree' /\ RestTyped'
    <3>1. EntriesAgree'
      BY <2>9, LookAgrees DEF CheckAgain
    <3>2. /\ \/ flight' = [flight EXCEPT ![k] = [at |-> "end"]]
             \/ flight' = [flight EXCEPT ![k] = [at |-> "start"]]
          /\ UNCHANGED <<janitor, source, pc, told, loaded>>
      BY <2>9 DEF CheckAgain, To
    <3>3. \A x \in Keys : flight'[x].at = "load" => flight'[x].read \in 0..MaxVersion
      BY <2>f, <3>2 DEF RestTyped
    <3> QED
      BY <3>1, <3>2, <3>3 DEF RestTyped
  <2>16. ASSUME NEW k \in Keys, LoadStart(k) PROVE EntriesAgree' /\ RestTyped'
    <3>1. EntriesAgree'
      BY <2>16 DEF LoadStart, EntriesAgree
    <3>2. /\ flight' = [flight EXCEPT ![k] = [at |-> "load", read |-> source[k], told |-> told[k]]]
          /\ UNCHANGED <<janitor, source, pc, told, loaded>>
      BY <2>16 DEF LoadStart, To
    <3>3. ASSUME NEW x \in Keys, flight'[x].at = "load" PROVE flight'[x].read \in 0..MaxVersion
      <4>1. CASE x # k
        BY <2>f, <3>2, <3>3, <4>1 DEF RestTyped
      <4>2. CASE x = k
        <5>1. flight'[k] = [at |-> "load", read |-> source[k], told |-> told[k]]
          BY <2>f, <3>2, <3>3, <4>2
        <5> QED
          BY <4>2, <5>1 DEF RestTyped
      <4> QED
        BY <4>1, <4>2
    <3> QED
      BY <3>1, <3>2, <3>3 DEF RestTyped
  <2>10. ASSUME NEW k \in Keys, LoadError(k) PROVE EntriesAgree' /\ RestTyped'
    <3>1. EntriesAgree'
      BY <2>10 DEF LoadError, EntriesAgree
    <3> QED
      BY <2>f, <2>10, <3>1 DEF LoadError, To, RestTyped
  <2>11. ASSUME NEW k \in Keys, Store(k) PROVE EntriesAgree' /\ RestTyped'
    <3>1. /\ flight[k].at = "load" /\ flight' = [flight EXCEPT ![k] = [at |-> "end"]]
          /\ UNCHANGED <<janitor, source, pc, told>> /\ loaded' \subseteq loaded \cup {k}
      BY <2>11 DEF Store, To
    <3>2. RestTyped'
      BY <2>f, <3>1 DEF RestTyped
    <3> DEFINE v == flight[k].read
               race == v < told[k] /\ told[k] # flight[k].told
    <3>3. v \in 0..MaxVersion /\ Expiry \in Forever..TTL /\ race \in BOOLEAN
      BY <3>1, SizeAssumption DEF RestTyped, Expiry, Forever
    <3>4. setLocked(k, v, Expiry, race) \/ Unreachable(k)
      BY <2>11 DEF Store
    <3> HIDE DEF v, race
    <3> QED
      BY <3>2, <3>3, <3>4, SetAgrees, LookAgrees
  <2>12. ASSUME NEW k \in Keys, Return(k) PROVE EntriesAgree' /\ RestTyped'
    <3>1. EntriesAgree'
      BY <2>12 DEF Return, EntriesAgree
    <3>2. pc' \in [Callers -> {Out} \cup ({"do", "in"} \X Keys)]
      BY <2>12 DEF Return, RestTyped
    <3> QED
      BY <2>f, <2>12, <3>1, <3>2 DEF Return, To, NoFlight, RestTyped
  <2>13. ASSUME NEW q \in Callers, groupDo(q) PROVE EntriesAgree' /\ RestTyped'
    <3>1. EntriesAgree'
      BY <2>13 DEF groupDo, EntriesAgree
    <3>2. pc[q] \in {"do", "in"} \X Keys
      BY <2>13 DEF groupDo, RestTyped, Out
    <3>3. pc' = [pc EXCEPT ![q] = <<"in", pc[q][2]>>] /\ pc[q][2] \in Keys
      BY <2>13, <3>2 DEF groupDo, Goto
    <3>4. pc' \in [Callers -> {Out} \cup ({"do", "in"} \X Keys)]
      BY <3>3 DEF RestTyped
    <3>5. \/ flight' = [flight EXCEPT ![pc[q][2]] = [at |-> "check"]]
          \/ flight' = flight
      BY <2>13 DEF groupDo, To
    <3>6. \A x \in Keys : flight'[x].at = "load" => flight'[x].read \in 0..MaxVersion
      BY <2>f, <3>3, <3>5 DEF RestTyped
    <3> QED
      BY <2>13, <3>1, <3>4, <3>6 DEF groupDo, RestTyped
  <2>14. ASSUME NEW q \in Callers, NEW k \in Keys, GetOrLoad(q, k) PROVE EntriesAgree' /\ RestTyped'
    <3>1. EntriesAgree'
      BY <2>14, LookAgrees DEF GetOrLoad
    <3>2. pc' = pc \/ pc' = [pc EXCEPT ![q] = <<"do", k>>]
      BY <2>14 DEF GetOrLoad, Goto
    <3>3. pc' \in [Callers -> {Out} \cup ({"do", "in"} \X Keys)]
      BY <3>2 DEF RestTyped
    <3> QED
      BY <2>14, <3>1, <3>3 DEF GetOrLoad, RestTyped
  <2>15. CASE UNCHANGED vars
    BY <2>15 DEF vars, EntriesAgree, RestTyped
  <2> QED
    BY <2>1, <2>2, <2>3, <2>4, <2>5, <2>6, <2>7, <2>8, <2>9, <2>10, <2>11, <2>12, <2>13, <2>14,
       <2>15, <2>16 DEF Next
<1> QED
  BY <1>1, <1>2, Inductive, PTL DEF Spec

\* items and lru hold the same keys, each once, and never more than MaxSize of them,
\* however Get, Set, Delete, the janitor and the loads follow each other.
THEOREM ListAgreesTheorem == Spec => []ListAgrees
<1>1. IInv /\ EntriesAgree /\ RestTyped => ListAgrees
  <2> SUFFICES ASSUME IInv, EntriesAgree, RestTyped PROVE ListAgrees
    OBVIOUS
  <2>1. \A k \in Keys : flight[k].at \in {"none", "check", "start", "load", "end"}
    BY DEF IInv, FlightTypes, NoFlight
  <2>2. TypeOK
    BY <2>1 DEF TypeOK, EntriesAgree, RestTyped
  <2> QED
    BY <2>2 DEF ListAgrees, EntriesAgree, Distinct
<1> QED
  BY <1>1, Inductive, ListInductive, PTL
=============================================================================
