---------------------------- MODULE ClientProofs ----------------------------
(***************************************************************************)
(* Three clients: package http's, whose breaker is proved safe for any     *)
(* number of callers, thresholds and retries; the fibr command, for any    *)
(* options, names, clock and number of commands; and the one that walks a  *)
(* table with the cursors of package pagination, for any table, directions *)
(* and limits.  They share nothing.                                        *)
(***************************************************************************)
EXTENDS HTTPClient, Scaffold, Keyset, FiniteSetTheorems, TLAPS

\* The types the argument needs.
Types ==
    /\ state \in {"closed", "open", "half"}
    /\ failures \in Nat
    /\ probe \subseteq Callers
    /\ streak \in 0..MaxFailures
    /\ hung \in BOOLEAN

IInv == Types /\ OpensAfterConsecutive /\ HalfOpenHasProbe

-----------------------------------------------------------------------------
\* After a report the breaker is not half-open, whoever reported and whatever
\* the outcome, and the count still agrees with the streak.
LEMMA VerdictSettles ==
    ASSUME IInv, NEW o, Verdict(o)
    PROVE  /\ state' \in {"closed", "open"}
           /\ failures' \in Nat
           /\ streak' \in 0..MaxFailures
           /\ hung' \in BOOLEAN
           /\ OpensAfterConsecutive'
<1> USE BreakerAssumption DEF IInv, Types, OpensAfterConsecutive
<1>1. hung' \in BOOLEAN
  BY Zenon DEF Verdict
<1>2. CASE ~breakerFailure(o)
  BY <1>1, <1>2 DEF Verdict, onSuccess
<1>3. CASE breakerFailure(o) /\ state = "half"
  BY <1>1, <1>3 DEF Verdict, onFailure
<1>4. CASE breakerFailure(o) /\ state # "half"
  BY <1>1, <1>4 DEF Verdict, onFailure
<1> QED
  BY <1>2, <1>3, <1>4

\* The steps of a request that leave the breaker and the ghosts alone.
LEMMA QuietKeeps ==
    ASSUME IInv, UNCHANGED <<breaker, ghosts>>
    PROVE  IInv'
  BY DEF IInv, Types, OpensAfterConsecutive, HalfOpenHasProbe, breaker, ghosts

\* Request, Report and Panic are the steps that touch what the invariant speaks
\* of; the invariant is inductive.
THEOREM BreakerInductive == Spec => []IInv
<1>1. Init => IInv
  <2> SUFFICES ASSUME Init PROVE IInv
    OBVIOUS
  <2>1. hung \in BOOLEAN
    BY Zenon DEF Init
  <2>2. state = "closed" /\ failures = 0 /\ streak = 0 /\ probe = {}
    BY DEF Init
  <2> QED
    BY <2>1, <2>2, BreakerAssumption
    DEF IInv, Types, OpensAfterConsecutive, HalfOpenHasProbe
<1>2. IInv /\ [Next]_vars => IInv'
  <2> SUFFICES ASSUME IInv, [Next]_vars PROVE IInv'
    OBVIOUS
  <2>1. ASSUME NEW q \in Callers, Request(q) PROVE IInv'
    <3>1. CASE state = "closed"
      BY <2>1, <3>1 DEF Request, allow, breaker, IInv, Types, OpensAfterConsecutive,
                        HalfOpenHasProbe
    <3>2. CASE state = "open" /\ state' = "half" /\ probe' = probe \cup {q} /\ failures' = failures
      BY <2>1, <3>2 DEF Request, IInv, Types, OpensAfterConsecutive, HalfOpenHasProbe
    <3> QED
      BY <2>1, <3>1, <3>2 DEF Request, allow
  <2>2. ASSUME NEW q \in Callers, Report(q) PROVE IInv'
    <3>1. Verdict(outcome[q]) /\ probe' = probe \ {q}
      BY <2>2 DEF Report, Over
    <3>2. /\ state' \in {"closed", "open"}
          /\ failures' \in Nat /\ streak' \in 0..MaxFailures /\ hung' \in BOOLEAN
          /\ OpensAfterConsecutive'
      BY <3>1, VerdictSettles
    <3> QED
      BY <3>1, <3>2 DEF IInv, Types, HalfOpenHasProbe
  <2>3. ASSUME NEW q \in Callers, Panic(q) PROVE IInv'
    <3>1. /\ UNCHANGED <<state, failures, streak>>
          /\ probe' = probe \ {q}
          /\ hung' = (hung \/ (state = "half" /\ q \in probe))
      BY <2>3 DEF Panic, Over, breaker
    <3>2. HalfOpenHasProbe'
      BY <3>1 DEF IInv, Types, HalfOpenHasProbe
    <3>3. Types'
      BY <3>1 DEF IInv, Types
    <3>4. OpensAfterConsecutive'
      BY <3>1 DEF IInv, OpensAfterConsecutive
    <3> QED
      BY <3>2, <3>3, <3>4 DEF IInv
  <2>4. ASSUME NEW q \in Callers,
               Headers(q) \/ Attempt(q) \/ Backoff(q) \/ Cancel(q)
                 \/ \E o \in {"ok", "client", "5xx", "transport"} : Answer(q, o)
        PROVE  IInv'
    BY <2>4, QuietKeeps DEF Headers, Attempt, Backoff, Cancel, Answer
  <2>5. CASE Tick
    BY <2>5 DEF Tick, ghosts, IInv, Types, OpensAfterConsecutive, HalfOpenHasProbe
  <2>6. CASE UNCHANGED vars
    BY <2>6, QuietKeeps DEF vars
  <2> QED
    BY <2>1, <2>2, <2>3, <2>4, <2>5, <2>6 DEF Next, Step
<1> QED
  BY <1>1, <1>2, PTL DEF Spec

\* The breaker opens exactly after MaxFailures failures in a row, however the
\* reports of any number of callers interleave with its changes of state.
THEOREM OpensTheorem == Spec => []OpensAfterConsecutive
  BY BreakerInductive, PTL DEF IInv

\* A half-open breaker has a probe in flight, or its probe panicked.
THEOREM ProbeTheorem == Spec => []HalfOpenHasProbe
  BY BreakerInductive, PTL DEF IInv

\* The requests in flight, and the bound they put on failures: an open breaker counts
\* the failures of those admitted before it opened, and each of them reports once.
Busy == {q \in Callers : pc[q] # "idle"}

StragglersBound ==
    /\ state = "open" => failures + Cardinality(Busy) <= MaxFailures + Cardinality(Callers) - 1
    /\ state = "half" => failures + Cardinality(Busy) <= MaxFailures + Cardinality(Callers)

RequestTypes ==
    /\ bounded \subseteq Callers
    /\ age \in 0..OpenTimeout
    /\ pc \in [Callers -> {"idle", "headers", "loop", "sent", "backoff", "report"}]
    /\ i \in [Callers -> 0..Retries]
    /\ outcome \in [Callers -> Outcomes]
    /\ ctx \in [Callers -> {"live", "done"}]
    /\ \A q \in Callers : pc[q] = "backoff" => i[q] < Retries

\* Where a request goes changes how many are in flight by one, or not at all.
LEMMA BusyCount ==
    ASSUME IsFiniteSet(Callers), RequestTypes, NEW q \in Callers, NEW s, pc' = [pc EXCEPT ![q] = s]
    PROVE  /\ Cardinality(Busy) \in 0..Cardinality(Callers) /\ Cardinality(Callers) \in Nat
           /\ pc[q] # "idle" /\ s # "idle" => Busy' = Busy
           /\ pc[q] # "idle" /\ s = "idle" => Cardinality(Busy)' = Cardinality(Busy) - 1
           /\ pc[q] = "idle" /\ s # "idle" => Cardinality(Busy)' = Cardinality(Busy) + 1
<1>1. IsFiniteSet(Busy) /\ Cardinality(Busy) \in 0..Cardinality(Callers) /\ Cardinality(Callers) \in Nat
  <2>1. Busy \in SUBSET Callers
    BY DEF Busy
  <2> QED
    BY <2>1, FS_Subset, FS_CardinalityType
<1>2. ASSUME pc[q] # "idle", s # "idle" PROVE Busy' = Busy
  BY <1>2 DEF Busy, RequestTypes
<1>3. ASSUME pc[q] # "idle", s = "idle" PROVE Cardinality(Busy)' = Cardinality(Busy) - 1
  <2>1. Busy' = Busy \ {q} /\ q \in Busy
    BY <1>3 DEF Busy, RequestTypes
  <2> QED
    BY <1>1, <2>1, FS_RemoveElement
<1>4. ASSUME pc[q] = "idle", s # "idle" PROVE Cardinality(Busy)' = Cardinality(Busy) + 1
  <2>1. Busy' = Busy \cup {q} /\ q \notin Busy
    BY <1>4 DEF Busy, RequestTypes
  <2> QED
    BY <1>1, <2>1, FS_AddElement
<1> QED
  BY <1>1, <1>2, <1>3, <1>4

\* Every variable of the client has its type; failures stays within the threshold and
\* the number of callers.
THEOREM ClientTypeCorrect ==
    ASSUME IsFiniteSet(Callers)
    PROVE  Spec => []TypeOK
<1> USE BreakerAssumption, RetryAssumption
<1> DEFINE J == RequestTypes /\ StragglersBound
<1>1. Init => J
  BY DEF Init, RequestTypes, StragglersBound, Outcomes
<1>2. IInv /\ J /\ [Next]_vars => J'
  <2> SUFFICES ASSUME IInv, RequestTypes, StragglersBound, [Next]_vars
               PROVE  RequestTypes' /\ StragglersBound'
    OBVIOUS
  <2>t. /\ state \in {"closed", "open", "half"} /\ failures \in Nat
        /\ state = "closed" => failures < MaxFailures
    BY DEF IInv, Types, OpensAfterConsecutive
  <2>q. ASSUME NEW q \in Callers, NEW s, s # "idle", pc[q] # "idle", pc' = [pc EXCEPT ![q] = s],
               UNCHANGED breaker
        PROVE  StragglersBound'
    <3>1. Busy' = Busy
      BY <2>q, BusyCount
    <3> QED
      BY <2>q, <3>1 DEF StragglersBound, breaker
  <2>1. ASSUME NEW q \in Callers, Request(q) PROVE RequestTypes' /\ StragglersBound'
    <3>1. /\ pc[q] = "idle" /\ pc' = [pc EXCEPT ![q] = "headers"] /\ UNCHANGED <<i, outcome, ctx>>
          /\ bounded' \subseteq bounded \cup {q}
          /\ \/ state = "closed" /\ UNCHANGED <<state, failures, age>>
             \/ state = "open" /\ state' = "half" /\ age' = 0 /\ failures' = failures
      BY <2>1 DEF Request, allow, Goto, breaker
    <3>2. RequestTypes'
      BY <3>1 DEF RequestTypes
    <3>3. /\ Cardinality(Busy) \in 0..Cardinality(Callers) /\ Cardinality(Callers) \in Nat
          /\ Cardinality(Busy)' = Cardinality(Busy) + 1
      <4>1. pc[q] = "idle" /\ "headers" # "idle" /\ pc' = [pc EXCEPT ![q] = "headers"]
        BY <3>1
      <4> QED
        BY <4>1, BusyCount
    <3>4. StragglersBound'
      BY <2>t, <3>1, <3>3 DEF StragglersBound
    <3> QED
      BY <3>2, <3>4
  <2>2. ASSUME NEW q \in Callers, Report(q) PROVE RequestTypes' /\ StragglersBound'
    <3>1. /\ pc[q] = "report" /\ pc' = [pc EXCEPT ![q] = "idle"] /\ i' = [i EXCEPT ![q] = 0]
          /\ outcome' = [outcome EXCEPT ![q] = "none"] /\ ctx' = [ctx EXCEPT ![q] = "live"]
          /\ bounded' = bounded \ {q}
          /\ onSuccess \/ onFailure
      BY <2>2 DEF Report, Verdict, Over, Goto
    <3>2. age' = 0 \/ age' = age
      BY <3>1 DEF onSuccess, onFailure
    <3>3. RequestTypes'
      BY <3>1, <3>2 DEF RequestTypes, Outcomes
    <3>4. /\ Cardinality(Busy) \in 0..Cardinality(Callers) /\ Cardinality(Callers) \in Nat
          /\ Cardinality(Busy)' = Cardinality(Busy) - 1
      BY <3>1, BusyCount
    <3>5. CASE onSuccess
      BY <3>3, <3>5 DEF onSuccess, StragglersBound
    <3>6. CASE onFailure
      <4>1. StragglersBound'
        BY <2>t, <3>4, <3>6 DEF onFailure, StragglersBound
      <4> QED
        BY <3>3, <4>1
    <3> QED
      BY <3>1, <3>3, <3>5, <3>6
  <2>3. ASSUME NEW q \in Callers, Panic(q) PROVE RequestTypes' /\ StragglersBound'
    <3>1. /\ pc[q] = "headers" /\ pc' = [pc EXCEPT ![q] = "idle"] /\ i' = [i EXCEPT ![q] = 0]
          /\ outcome' = [outcome EXCEPT ![q] = "none"] /\ ctx' = [ctx EXCEPT ![q] = "live"]
          /\ bounded' = bounded \ {q}
          /\ UNCHANGED <<state, failures, age>>
      BY <2>3 DEF Panic, Over, Goto, breaker
    <3>2. RequestTypes'
      BY <3>1 DEF RequestTypes, Outcomes
    <3>3. /\ Cardinality(Busy) \in 0..Cardinality(Callers) /\ Cardinality(Callers) \in Nat
          /\ Cardinality(Busy)' = Cardinality(Busy) - 1
      BY <3>1, BusyCount
    <3>4. StragglersBound'
      BY <2>t, <3>1, <3>3 DEF StragglersBound
    <3> QED
      BY <3>2, <3>4
  <2>4. ASSUME NEW q \in Callers, Headers(q) PROVE RequestTypes' /\ StragglersBound'
    <3>1. pc[q] = "headers" /\ pc' = [pc EXCEPT ![q] = "loop"] /\ UNCHANGED <<breaker, i, outcome, ctx, bounded>>
      BY <2>4 DEF Headers, Goto
    <3>2. StragglersBound'
      BY <2>q, <3>1
    <3> QED
      BY <3>1, <3>2 DEF RequestTypes, breaker
  <2>5. ASSUME NEW q \in Callers, Attempt(q) PROVE RequestTypes' /\ StragglersBound'
    <3>1. /\ pc[q] = "loop" /\ UNCHANGED <<breaker, i, ctx, bounded>>
          /\ \/ pc' = [pc EXCEPT ![q] = "report"] /\ outcome' = [outcome EXCEPT ![q] = "cancelled"]
             \/ pc' = [pc EXCEPT ![q] = "sent"] /\ outcome' = outcome
      BY <2>5 DEF Attempt, End, Goto
    <3>2. StragglersBound'
      BY <2>q, <3>1
    <3> QED
      BY <3>1, <3>2 DEF RequestTypes, breaker, Outcomes
  <2>6. ASSUME NEW q \in Callers, Backoff(q) PROVE RequestTypes' /\ StragglersBound'
    <3>1. /\ pc[q] = "backoff" /\ UNCHANGED <<breaker, ctx, bounded>>
          /\ \/ /\ pc' = [pc EXCEPT ![q] = "report"] /\ i' = i
                /\ outcome' = [outcome EXCEPT ![q] = "cancelled"]
             \/ /\ pc' = [pc EXCEPT ![q] = "loop"] /\ i' = [i EXCEPT ![q] = i[q] + 1]
                /\ outcome' = outcome
      BY <2>6 DEF Backoff, End, Goto
    <3>2. StragglersBound'
      BY <2>q, <3>1
    <3>3. i[q] \in 0..Retries /\ i[q] < Retries
      BY <3>1 DEF RequestTypes
    <3>4. i[q] + 1 \in 0..Retries
      BY <3>3
    <3> QED
      BY <3>1, <3>2, <3>4 DEF RequestTypes, breaker, Outcomes
  <2>7. ASSUME NEW q \in Callers, NEW o \in {"ok", "client", "5xx", "transport"}, Answer(q, o)
        PROVE  RequestTypes' /\ StragglersBound'
    <3>1. /\ pc[q] = "sent" /\ UNCHANGED <<breaker, i, ctx, bounded>>
          /\ outcome' = [outcome EXCEPT ![q] = o]
          /\ \/ pc' = [pc EXCEPT ![q] = "report"]
             \/ pc' = [pc EXCEPT ![q] = "backoff"] /\ i[q] < Retries
      BY <2>7 DEF Answer, End, Goto
    <3>2. StragglersBound'
      BY <2>q, <3>1
    <3> QED
      BY <3>1, <3>2 DEF RequestTypes, breaker, Outcomes
  <2>8. ASSUME NEW q \in Callers, Cancel(q) PROVE RequestTypes' /\ StragglersBound'
    BY <2>8 DEF Cancel, RequestTypes, StragglersBound, Busy, breaker
  <2>9. CASE Tick
    BY <2>9 DEF Tick, RequestTypes, StragglersBound, Busy, request
  <2>10. CASE UNCHANGED vars
    BY <2>10 DEF vars, breaker, request, RequestTypes, StragglersBound, Busy
  <2> QED
    BY <2>1, <2>2, <2>3, <2>4, <2>5, <2>6, <2>7, <2>8, <2>9, <2>10 DEF Next, Step
<1>3. IInv /\ J => TypeOK
  <2> SUFFICES ASSUME IInv, RequestTypes, StragglersBound PROVE TypeOK
    OBVIOUS
  <2>1. Cardinality(Busy) \in Nat /\ Cardinality(Callers) \in Nat
    <3>1. Busy \in SUBSET Callers
      BY DEF Busy
    <3> QED
      BY <3>1, FS_Subset, FS_CardinalityType
  <2>2. failures \in 0..(MaxFailures + Cardinality(Callers))
    BY <2>1 DEF IInv, Types, OpensAfterConsecutive, StragglersBound
  <2> QED
    BY <2>2 DEF IInv, Types, RequestTypes, TypeOK
<1> QED
  BY <1>1, <1>2, <1>3, BreakerInductive, PTL DEF Spec

-----------------------------------------------------------------------------
(* The fibr command. *)

IsSeq(s) == \E A : s \in Seq(A)

OfMigration(spec) == spec.path[1] = "migration"

\* Plans: none of the files is a migration; the clock is read; each migration comes
\* after the clock is read.
NoMigration(s) == \A j \in DOMAIN s : ~OfMigration(s[j])
ReadsClock(s) == \E j \in DOMAIN s : s[j] = Clock
Stamped(s) == \A j \in DOMAIN s : OfMigration(s[j]) => \E h \in DOMAIN s : h < j /\ s[h] = Clock

\* What a concatenation holds, and where.
LEMMA ConcatIs ==
    ASSUME NEW s, NEW t, IsSeq(s), IsSeq(t)
    PROVE  /\ IsSeq(s \o t)
           /\ Len(s) \in Nat /\ Len(t) \in Nat
           /\ DOMAIN s = 1..Len(s) /\ DOMAIN t = 1..Len(t)
           /\ DOMAIN (s \o t) = 1..(Len(s) + Len(t))
           /\ \A j \in 1..Len(s) : (s \o t)[j] = s[j]
           /\ \A j \in 1..Len(t) : (s \o t)[Len(s) + j] = t[j]
           /\ \A j \in 1..(Len(s) + Len(t)) :
                 j \in 1..Len(s) \/ (j - Len(s) \in 1..Len(t) /\ (s \o t)[j] = t[j - Len(s)])
<1>1. PICK A : s \in Seq(A)
  BY DEF IsSeq
<1>2. PICK B : t \in Seq(B)
  BY DEF IsSeq
<1>3. s \in Seq(A \cup B) /\ t \in Seq(A \cup B)
  BY <1>1, <1>2
<1>4. (s \o t) \in Seq(A \cup B) /\ Len(s) \in Nat /\ Len(t) \in Nat /\ Len(s \o t) = Len(s) + Len(t)
  BY <1>3
<1>5. \A j \in 1..Len(s) : (s \o t)[j] = s[j]
  BY <1>3
<1>6. \A j \in 1..Len(t) : (s \o t)[Len(s) + j] = t[j]
  BY <1>3
<1>7. ASSUME NEW j \in 1..(Len(s) + Len(t)), j \notin 1..Len(s)
      PROVE  j - Len(s) \in 1..Len(t) /\ (s \o t)[j] = t[j - Len(s)]
  <2>1. j - Len(s) \in 1..Len(t) /\ Len(s) + (j - Len(s)) = j
    BY <1>4, <1>7
  <2> QED
    BY <1>6, <2>1
<1> QED
  BY <1>3, <1>4, <1>5, <1>6, <1>7 DEF IsSeq

\* Files that are no migrations may come in any order.
LEMMA NoMigrationConcat ==
    ASSUME NEW s, NEW t, IsSeq(s), IsSeq(t), NoMigration(s), NoMigration(t)
    PROVE  NoMigration(s \o t)
<1> DEFINE u == s \o t
<1>1. /\ DOMAIN s = 1..Len(s) /\ DOMAIN t = 1..Len(t) /\ DOMAIN u = 1..(Len(s) + Len(t))
      /\ \A j \in 1..Len(s) : u[j] = s[j]
      /\ \A j \in 1..(Len(s) + Len(t)) :
            j \in 1..Len(s) \/ (j - Len(s) \in 1..Len(t) /\ u[j] = t[j - Len(s)])
  BY ConcatIs
<1> HIDE DEF u
<1>2. ASSUME NEW j \in DOMAIN u PROVE ~OfMigration(u[j])
  <2>1. CASE j \in 1..Len(s)
    BY <1>1, <2>1 DEF NoMigration
  <2>2. CASE j - Len(s) \in 1..Len(t) /\ u[j] = t[j - Len(s)]
    BY <1>1, <2>2 DEF NoMigration
  <2> QED
    BY <1>1, <2>1, <2>2
<1> QED
  BY <1>2 DEF NoMigration, u

\* Once the clock is read, anything may follow.
LEMMA StampedConcat ==
    ASSUME NEW s, NEW t, IsSeq(s), IsSeq(t), Stamped(s), ReadsClock(s)
    PROVE  Stamped(s \o t) /\ ReadsClock(s \o t)
<1> DEFINE u == s \o t
<1>1. /\ Len(s) \in Nat /\ Len(t) \in Nat /\ DOMAIN s = 1..Len(s)
      /\ DOMAIN u = 1..(Len(s) + Len(t)) /\ \A j \in 1..Len(s) : u[j] = s[j]
  BY ConcatIs
<1> HIDE DEF u
<1>2. PICK c \in 1..Len(s) : s[c] = Clock
  BY <1>1 DEF ReadsClock
<1>3. c \in DOMAIN u /\ u[c] = Clock
  BY <1>1, <1>2
<1>4. ASSUME NEW j \in DOMAIN u, OfMigration(u[j])
      PROVE  \E h \in DOMAIN u : h < j /\ u[h] = Clock
  <2>1. CASE j \in 1..Len(s)
    <3>1. PICK h \in 1..Len(s) : h < j /\ s[h] = Clock
      BY <1>1, <1>4, <2>1 DEF Stamped
    <3>2. h \in DOMAIN u /\ u[h] = Clock
      BY <1>1, <3>1
    <3> QED
      BY <3>1, <3>2
  <2>2. CASE j \notin 1..Len(s)
    <3>1. c < j
      BY <1>1, <1>2, <2>2
    <3> QED
      BY <1>3, <3>1
  <2> QED
    BY <2>1, <2>2
<1> QED
  BY <1>3, <1>4 DEF Stamped, ReadsClock, u

\* Tuples are sequences.
LEMMA TuplesAreSeqs ==
    ASSUME NEW a, NEW b, NEW c, NEW d, NEW e, NEW f
    PROVE  /\ IsSeq(<< >>) /\ IsSeq(<<a>>) /\ IsSeq(<<a, b>>) /\ IsSeq(<<a, b, c>>)
           /\ IsSeq(<<a, b, c, d>>) /\ IsSeq(<<a, b, c, d, e>>) /\ IsSeq(<<a, b, c, d, e, f>>)
<1> DEFINE A == {a, b, c, d, e, f}
<1>1. /\ << >> \in Seq(A) /\ <<a>> \in Seq(A) /\ <<a, b>> \in Seq(A) /\ <<a, b, c>> \in Seq(A)
  OBVIOUS
<1>2. <<a, b, c, d>> \in Seq(A) /\ <<a, b, c, d, e>> \in Seq(A) /\ <<a, b, c, d, e, f>> \in Seq(A)
  OBVIOUS
<1> HIDE DEF A
<1> QED
  BY <1>1, <1>2 DEF IsSeq

\* A plan has one file for each path.
LEMMA SpecsAre ==
    ASSUME NEW p, IsSeq(p), NEW o
    PROVE  /\ IsSeq(Specs(p, o)) /\ DOMAIN Specs(p, o) = DOMAIN p
           /\ \A j \in DOMAIN p : Specs(p, o)[j].path = p[j]
<1>1. PICK A : p \in Seq(A)
  BY DEF IsSeq
<1> DEFINE B == {Spec1(a, o) : a \in A}
           t == Specs(p, o)
<1>2. DOMAIN p = 1..Len(p) /\ Len(p) \in Nat /\ \A j \in 1..Len(p) : p[j] \in A
  BY <1>1
<1>3. t = [j \in 1..Len(p) |-> Spec1(p[j], o)]
  BY <1>2 DEF Specs
<1>4. t \in [1..Len(p) -> B]
  BY <1>2, <1>3
<1>5. t \in Seq(B)
  <2> HIDE DEF B, t
  <2> QED
    BY <1>2, <1>4
<1>6. \A j \in DOMAIN p : t[j].path = p[j]
  BY <1>2, <1>3 DEF Spec1
<1> HIDE DEF B
<1> QED
  BY <1>2, <1>3, <1>5, <1>6 DEF IsSeq

\* The files of a module are no migrations.
LEMMA ModulePlan ==
    ASSUME NEW layout, NEW n
    PROVE  IsSeq(planModule(layout, n)) /\ NoMigration(planModule(layout, n))
<1> DEFINE ddd == <<<<"domain", n, n>>, <<"domain", n, "repository">>, <<"application", n>>,
                    <<"persistence", n>>, <<"http", n, "handler">>, <<"http", n, "module">>>>
           layered == <<<<"model", n>>, <<"repo", n>>, <<"service", n>>,
                        <<"handler", n, "handler">>, <<"handler", n, "module">>>>
           p == IF layout = "ddd" THEN ddd ELSE layered
<1>1. IsSeq(ddd) /\ IsSeq(layered)
  BY TuplesAreSeqs
<1>2. /\ DOMAIN ddd = 1..6 /\ ddd[1][1] = "domain" /\ ddd[2][1] = "domain"
      /\ ddd[3][1] = "application" /\ ddd[4][1] = "persistence" /\ ddd[5][1] = "http"
      /\ ddd[6][1] = "http"
  OBVIOUS
<1>3. /\ DOMAIN layered = 1..5 /\ layered[1][1] = "model" /\ layered[2][1] = "repo"
      /\ layered[3][1] = "service" /\ layered[4][1] = "handler" /\ layered[5][1] = "handler"
  OBVIOUS
<1> HIDE DEF ddd, layered
<1>4. \A j \in DOMAIN ddd : ddd[j][1] # "migration"
  BY <1>2
<1>5. \A j \in DOMAIN layered : layered[j][1] # "migration"
  BY <1>3
<1>6. IsSeq(p) /\ \A j \in DOMAIN p : p[j][1] # "migration"
  BY <1>1, <1>4, <1>5
<1>7. planModule(layout, n) = Specs(p, n)
  BY DEF planModule, ddd, layered
<1> HIDE DEF p
<1> QED
  BY <1>6, <1>7, SpecsAre DEF NoMigration, OfMigration

\* Nor are those that "new" writes whatever the options.
LEMMA SkeletonPlans ==
    ASSUME NEW layout \in Layouts
    PROVE  /\ IsSeq(plan(layout)) /\ NoMigration(plan(layout))
           /\ IsSeq(planQueue(layout)) /\ NoMigration(planQueue(layout))
           /\ IsSeq(planRealtime(layout)) /\ NoMigration(planRealtime(layout))
           /\ IsSeq(planI18n(layout)) /\ NoMigration(planI18n(layout))
<1> DEFINE h == IF layout = "ddd" THEN "http" ELSE "handler"
           p1 == <<<<"go.mod">>, <<"migrations.go">>, <<layout, "main.go">>>>
           p2 == <<<<layout, "jobs">>>>
           p3 == <<<<h, "realtime", "handler">>>>
           p4 == <<<<"locales">>, <<h, "i18n", "handler">>>>
<1>1. IsSeq(p1) /\ IsSeq(p2) /\ IsSeq(p3) /\ IsSeq(p4)
  <2> HIDE DEF h
  <2> QED
    BY TuplesAreSeqs
<1>2. layout # "migration" /\ h # "migration"
  BY DEF Layouts
<1> HIDE DEF h
<1>3. \A j \in DOMAIN p1 : p1[j][1] # "migration"
  <2>1. DOMAIN p1 = 1..3 /\ p1[1][1] = "go.mod" /\ p1[2][1] = "migrations.go" /\ p1[3][1] = layout
    OBVIOUS
  <2> HIDE DEF p1
  <2> QED
    BY <1>2, <2>1
<1>4. \A j \in DOMAIN p2 : p2[j][1] # "migration"
  <2>1. DOMAIN p2 = 1..1 /\ p2[1][1] = layout
    OBVIOUS
  <2> HIDE DEF p2
  <2> QED
    BY <1>2, <2>1
<1>5. \A j \in DOMAIN p3 : p3[j][1] # "migration"
  <2>1. DOMAIN p3 = 1..1 /\ p3[1][1] = h
    OBVIOUS
  <2> HIDE DEF p3
  <2> QED
    BY <1>2, <2>1
<1>6. \A j \in DOMAIN p4 : p4[j][1] # "migration"
  <2>1. DOMAIN p4 = 1..2 /\ p4[1][1] = "locales" /\ p4[2][1] = h
    OBVIOUS
  <2> HIDE DEF p4
  <2> QED
    BY <1>2, <2>1
<1>7. /\ plan(layout) = Specs(p1, "skeleton") /\ planQueue(layout) = Specs(p2, "queue")
      /\ planRealtime(layout) = Specs(p3, "realtime") /\ planI18n(layout) = Specs(p4, "i18n")
  BY DEF plan, planQueue, planRealtime, planI18n, Http, h
<1> HIDE DEF p1, p2, p3, p4
<1>8. IsSeq(plan(layout)) /\ NoMigration(plan(layout))
  BY <1>1, <1>3, <1>7, SpecsAre DEF NoMigration, OfMigration
<1>9. IsSeq(planQueue(layout)) /\ NoMigration(planQueue(layout))
  BY <1>1, <1>4, <1>7, SpecsAre DEF NoMigration, OfMigration
<1>10. IsSeq(planRealtime(layout)) /\ NoMigration(planRealtime(layout))
  BY <1>1, <1>5, <1>7, SpecsAre DEF NoMigration, OfMigration
<1>11. IsSeq(planI18n(layout)) /\ NoMigration(planI18n(layout))
  BY <1>1, <1>6, <1>7, SpecsAre DEF NoMigration, OfMigration
<1> QED
  BY <1>8, <1>9, <1>10, <1>11

\* The files of the auth option.
LEMMA AuthPlan ==
    ASSUME NEW layout, NEW team
    PROVE  IsSeq(planAuth(layout, team))
<1>1. \A n : IsSeq(Accounts(layout, n))
  BY TuplesAreSeqs DEF Accounts
<1> DEFINE x == Accounts(layout, "account")
           y == IF team THEN Accounts(layout, "team") ELSE << >>
           z == <<Http(layout, "auth", "handler"), Http(layout, "auth", "module")>>
<1>2. IsSeq(x) /\ IsSeq(y) /\ IsSeq(z)
  BY <1>1, TuplesAreSeqs
<1>3. planAuth(layout, team) = Specs(x \o y \o z, "auth")
  BY DEF planAuth
<1> HIDE DEF x, y, z
<1>4. IsSeq(x \o y)
  BY <1>2, ConcatIs
<1>5. IsSeq((x \o y) \o z)
  BY <1>2, <1>4, ConcatIs
<1> QED
  BY <1>3, <1>5, SpecsAre

\* "add module" reads the clock between the module's files and its one migration.
LEMMA AddPlan ==
    ASSUME NEW layout, NEW n
    PROVE  /\ IsSeq(PlanAdd(layout, n)) /\ Stamped(PlanAdd(layout, n))
           /\ \A j \in DOMAIN PlanAdd(layout, n) :
                 \/ j \in DOMAIN planModule(layout, n)
                       /\ PlanAdd(layout, n)[j] = planModule(layout, n)[j]
                 \/ PlanAdd(layout, n)[j] = Clock
                 \/ OfMigration(PlanAdd(layout, n)[j])
<1> DEFINE m == planModule(layout, n)
           g == Migration(n \o "s")
           t == <<Clock, g>>
           u == m \o t
<1>1. PlanAdd(layout, n) = u
  BY DEF PlanAdd
<1>2. IsSeq(m) /\ NoMigration(m)
  BY ModulePlan
<1>3. OfMigration(g) /\ ~OfMigration(Clock)
  BY DEF Migration, Clock, Spec1, OfMigration
<1> HIDE DEF m, g
<1>4. IsSeq(t) /\ Len(t) = 2 /\ t[1] = Clock /\ t[2] = g
  BY TuplesAreSeqs
<1> HIDE DEF t
<1>5. /\ IsSeq(u) /\ Len(m) \in Nat /\ DOMAIN m = 1..Len(m) /\ DOMAIN u = 1..(Len(m) + 2)
      /\ \A j \in 1..Len(m) : u[j] = m[j]
      /\ \A j \in 1..2 : u[Len(m) + j] = t[j]
  <2>1. /\ IsSeq(u) /\ Len(m) \in Nat /\ DOMAIN m = 1..Len(m) /\ DOMAIN u = 1..(Len(m) + Len(t))
        /\ \A j \in 1..Len(m) : u[j] = m[j]
        /\ \A j \in 1..Len(t) : u[Len(m) + j] = t[j]
    <3>1. IsSeq(m) /\ IsSeq(t)
      BY <1>2, <1>4
    <3> QED
      BY ONLY <3>1, ConcatIs
  <2> HIDE DEF u
  <2> QED
    BY <1>4, <2>1
<1>6. u[Len(m) + 1] = Clock /\ u[Len(m) + 2] = g
  BY <1>4, <1>5
<1> HIDE DEF u
<1>7. ASSUME NEW j \in DOMAIN u
      PROVE  \/ j \in DOMAIN m /\ u[j] = m[j]
             \/ j = Len(m) + 1 \/ j = Len(m) + 2
  BY <1>5
<1>8. Stamped(u)
  <2> SUFFICES ASSUME NEW j \in DOMAIN u, OfMigration(u[j])
               PROVE  \E h \in DOMAIN u : h < j /\ u[h] = Clock
    BY DEF Stamped
  <2>1. j = Len(m) + 2
    BY <1>2, <1>3, <1>6, <1>7 DEF NoMigration
  <2>2. Len(m) + 1 \in DOMAIN u /\ Len(m) + 1 < j
    BY <1>5, <2>1
  <2> QED
    BY <1>6, <2>2
<1> QED
  BY <1>1, <1>3, <1>5, <1>6, <1>7, <1>8 DEF m

\* "new" reads the clock before the first migration of its options.
LEMMA NewPlan ==
    ASSUME NEW layout \in Layouts, NEW o
    PROVE  IsSeq(PlanNew(layout, o)) /\ Stamped(PlanNew(layout, o))
<1> DEFINE ms == IF "team" \in o
                   THEN [j \in DOMAIN TeamMigrations |-> Migration(TeamMigrations[j])]
                   ELSE <<Migration("accounts")>>
           a == plan(layout)
           b == IF o \cap {"sample", "auth"} # {} THEN <<Clock>> ELSE << >>
           c == IF "sample" \in o THEN planModule(layout, "user") \o <<Migration("users")>>
                                  ELSE << >>
           d == IF "auth" \in o THEN planAuth(layout, "team" \in o) \o ms ELSE << >>
           e == IF "queue" \in o THEN planQueue(layout) ELSE << >>
           f == IF "realtime" \in o THEN planRealtime(layout) ELSE << >>
           g == IF "i18n" \in o THEN planI18n(layout) ELSE << >>
<1>1. PlanNew(layout, o) = a \o b \o c \o d \o e \o f \o g
  BY DEF PlanNew
<1>2. IsSeq(ms)
  <2> DEFINE tm == [j \in DOMAIN TeamMigrations |-> Migration(TeamMigrations[j])]
  <2>1. DOMAIN TeamMigrations = 1..6
    BY DEF TeamMigrations
  <2>2. tm \in Seq({Migration(TeamMigrations[j]) : j \in 1..6})
    BY <2>1
  <2>3. IsSeq(tm)
    BY <2>2 DEF IsSeq
  <2> HIDE DEF tm
  <2>4. IsSeq(<<Migration("accounts")>>)
    BY TuplesAreSeqs
  <2> QED
    BY <2>3, <2>4 DEF tm
<1> HIDE DEF ms
<1>3. NoMigration(<< >>) /\ IsSeq(<< >>)
  <2>1. NoMigration(<< >>)
    BY DEF NoMigration
  <2>2. << >> \in Seq({})
    OBVIOUS
  <2> QED
    BY <2>1, <2>2 DEF IsSeq
<1>4. IsSeq(a) /\ IsSeq(e) /\ IsSeq(f) /\ IsSeq(g)
  BY <1>3, SkeletonPlans
<1>5. NoMigration(a) /\ NoMigration(e) /\ NoMigration(f) /\ NoMigration(g)
  BY <1>3, SkeletonPlans
<1>6. IsSeq(b)
  BY TuplesAreSeqs
<1>7. IsSeq(c)
  BY <1>3, ModulePlan, TuplesAreSeqs, ConcatIs
<1>8. IsSeq(d)
  BY <1>2, <1>3, AuthPlan, ConcatIs
<1>9. IsSeq(a \o b) /\ IsSeq((a \o b) \o c) /\ IsSeq(((a \o b) \o c) \o d)
      /\ IsSeq((((a \o b) \o c) \o d) \o e) /\ IsSeq(((((a \o b) \o c) \o d) \o e) \o f)
      /\ IsSeq((((((a \o b) \o c) \o d) \o e) \o f) \o g)
  <2> HIDE DEF a, b, c, d, e, f, g
  <2>1. IsSeq(a \o b)
    BY <1>4, <1>6, ConcatIs
  <2>2. IsSeq((a \o b) \o c)
    BY <2>1, <1>7, ConcatIs
  <2>3. IsSeq(((a \o b) \o c) \o d)
    BY <2>2, <1>8, ConcatIs
  <2>4. IsSeq((((a \o b) \o c) \o d) \o e)
    BY <2>3, <1>4, ConcatIs
  <2>5. IsSeq(((((a \o b) \o c) \o d) \o e) \o f)
    BY <2>4, <1>4, ConcatIs
  <2>6. IsSeq((((((a \o b) \o c) \o d) \o e) \o f) \o g)
    BY <2>5, <1>4, ConcatIs
  <2> QED
    BY <2>1, <2>2, <2>3, <2>4, <2>5, <2>6
<1>10. CASE o \cap {"sample", "auth"} # {}
  <2>1. b = <<Clock>> /\ ~OfMigration(Clock)
    BY <1>10 DEF Clock, Spec1, OfMigration
  <2> HIDE DEF a, b, c, d, e, f, g
  <2>2. Stamped(a \o b) /\ ReadsClock(a \o b)
    <3>1. IsSeq(b) /\ Len(b) = 1 /\ b[1] = Clock
      BY <1>6, <2>1
    <3>2. /\ Len(a) \in Nat /\ DOMAIN b = 1..1 /\ DOMAIN (a \o b) = 1..(Len(a) + 1)
          /\ \A j \in 1..1 : (a \o b)[Len(a) + j] = b[j]
      <4> DEFINE u == a \o b
      <4>1. /\ Len(a) \in Nat /\ DOMAIN b = 1..Len(b) /\ DOMAIN u = 1..(Len(a) + Len(b))
            /\ \A j \in 1..Len(b) : u[Len(a) + j] = b[j]
        <5>1. IsSeq(a) /\ IsSeq(b)
          BY <1>4, <1>6
        <5> QED
          BY ONLY <5>1, ConcatIs
      <4>2. /\ Len(a) \in Nat /\ DOMAIN b = 1..1 /\ DOMAIN u = 1..(Len(a) + 1)
            /\ \A j \in 1..1 : u[Len(a) + j] = b[j]
        <5> HIDE DEF u
        <5> QED
          BY <3>1, <4>1
      <4> QED
        BY <4>2
    <3>3. Len(a) + 1 \in DOMAIN (a \o b) /\ (a \o b)[Len(a) + 1] = Clock
      BY <3>1, <3>2
    <3>4. NoMigration(b)
      BY <2>1, <3>1, <3>2 DEF NoMigration
    <3>5. NoMigration(a \o b)
      BY <1>4, <1>5, <1>6, <3>4, NoMigrationConcat
    <3> QED
      BY <3>3, <3>5 DEF Stamped, ReadsClock, NoMigration
  <2>3. Stamped((a \o b) \o c) /\ ReadsClock((a \o b) \o c)
    BY <1>7, <1>9, <2>2, StampedConcat
  <2>4. Stamped(((a \o b) \o c) \o d) /\ ReadsClock(((a \o b) \o c) \o d)
    BY <1>8, <1>9, <2>3, StampedConcat
  <2>5. Stamped((((a \o b) \o c) \o d) \o e) /\ ReadsClock((((a \o b) \o c) \o d) \o e)
    BY <1>4, <1>9, <2>4, StampedConcat
  <2>6. Stamped(((((a \o b) \o c) \o d) \o e) \o f) /\ ReadsClock(((((a \o b) \o c) \o d) \o e) \o f)
    BY <1>4, <1>9, <2>5, StampedConcat
  <2>7. Stamped((((((a \o b) \o c) \o d) \o e) \o f) \o g)
    BY <1>4, <1>9, <2>6, StampedConcat
  <2> QED
    BY <1>1, <1>9, <2>7
<1>11. CASE o \cap {"sample", "auth"} = {}
  <2>1. b = << >> /\ c = << >> /\ d = << >>
    BY <1>11
  <2>2. NoMigration(b) /\ NoMigration(c) /\ NoMigration(d)
    BY <1>3, <2>1
  <2> HIDE DEF a, b, c, d, e, f, g
  <2>3. NoMigration(a \o b)
    BY <1>4, <1>5, <1>6, <2>2, NoMigrationConcat
  <2>4. NoMigration((a \o b) \o c)
    BY <1>7, <1>9, <2>2, <2>3, NoMigrationConcat
  <2>5. NoMigration(((a \o b) \o c) \o d)
    BY <1>8, <1>9, <2>2, <2>4, NoMigrationConcat
  <2>6. NoMigration((((a \o b) \o c) \o d) \o e)
    BY <1>4, <1>5, <1>9, <2>5, NoMigrationConcat
  <2>7. NoMigration(((((a \o b) \o c) \o d) \o e) \o f)
    BY <1>4, <1>5, <1>9, <2>6, NoMigrationConcat
  <2>8. NoMigration((((((a \o b) \o c) \o d) \o e) \o f) \o g)
    BY <1>4, <1>5, <1>9, <2>7, NoMigrationConcat
  <2> QED
    BY <1>1, <1>9, <2>8 DEF Stamped, NoMigration
<1> QED
  BY <1>10, <1>11

\* What the files of a project must satisfy: versions are numbers, and no two
\* migrations have the same one.
IsVersioned(d) == \A f \in DOMAIN d : f[1] = "migration" => f[2] \in Nat
Apart(d) == \A f, g \in DOMAIN d : f[1] = "migration" /\ g[1] = "migration" /\ f[2] = g[2] => f = g

\* The files that were there when the command began.
Keeps(d) == \A f \in DOMAIN old : f \in DOMAIN d /\ d[f] = old[f]

\* The files of the plan and the files written are new ones: what AddModule's look at
\* every file of the plan establishes.
OnlyNew ==
    cmd # Idle /\ cmd.kind = "add" =>
        /\ Keeps(disk)
        /\ cmd.written \cap DOMAIN old = {}
        /\ \A j \in DOMAIN cmd.todo : \/ OfMigration(cmd.todo[j]) \/ cmd.todo[j] = Clock
                                      \/ cmd.todo[j].path \notin DOMAIN old

\* Between the reading of the clock and the last migration, the next version is beyond
\* every version on the disk.
NextIsBeyond ==
    ~hurried =>
        /\ Apart(disk)
        /\ cmd # Idle => \/ Stamped(cmd.todo)
                      \/ \A f \in DOMAIN disk : f[1] = "migration" => f[2] < cmd.base + cmd.n

CommandTypes ==
    /\ now \in Nat /\ IsVersioned(disk) /\ hurried \in BOOLEAN
    /\ cmd # Idle =>
          /\ cmd = [kind |-> cmd.kind, dot |-> cmd.dot, todo |-> cmd.todo,
                    written |-> cmd.written, base |-> cmd.base, n |-> cmd.n]
          /\ cmd.kind \in {"new", "add"} /\ IsSeq(cmd.todo)
          /\ cmd.base \in Nat /\ cmd.n \in Nat

CommandInv == CommandTypes /\ OnlyNew /\ NextIsBeyond

\* What is left of a plan after its first file.
LEMMA TailIs ==
    ASSUME NEW s, IsSeq(s), s # << >>
    PROVE  /\ IsSeq(Tail(s)) /\ 1 \in DOMAIN s /\ Head(s) = s[1]
           /\ \A j \in DOMAIN Tail(s) : j \in Nat /\ j + 1 \in DOMAIN s /\ Tail(s)[j] = s[j + 1]
           /\ \A j \in DOMAIN s : j \in Nat /\ (j = 1 \/ j - 1 \in DOMAIN Tail(s))
<1>1. PICK A : s \in Seq(A)
  BY DEF IsSeq
<1>2. Len(s) \in Nat \ {0} /\ DOMAIN s = 1..Len(s) /\ Head(s) = s[1]
  BY <1>1
<1>3. Tail(s) \in Seq(A) /\ DOMAIN Tail(s) = 1..(Len(s) - 1)
  BY <1>1, <1>2
<1>4. \A j \in 1..(Len(s) - 1) : Tail(s)[j] = s[j + 1]
  BY <1>1, <1>2
<1> QED
  BY <1>2, <1>3, <1>4 DEF IsSeq

\* A stamped plan begins with no migration, and stays stamped until it reads the clock.
LEMMA StampedTail ==
    ASSUME NEW s, IsSeq(s), s # << >>, Stamped(s)
    PROVE  ~OfMigration(Head(s)) /\ (Head(s) # Clock => Stamped(Tail(s)))
<1> DEFINE t == Tail(s)
<1>1. /\ 1 \in DOMAIN s /\ Head(s) = s[1]
      /\ \A j \in DOMAIN t : j \in Nat /\ j + 1 \in DOMAIN s /\ t[j] = s[j + 1]
      /\ \A j \in DOMAIN s : j \in Nat /\ (j = 1 \/ j - 1 \in DOMAIN t)
  BY TailIs
<1>2. \A h \in DOMAIN s : ~(h < 1)
  <2>1. \A h \in DOMAIN s : h \in 1..Len(s)
    BY DEF IsSeq
  <2> QED
    BY <2>1
<1>3. ~OfMigration(Head(s))
  BY <1>1, <1>2 DEF Stamped
<1> HIDE DEF t
<1>4. ASSUME Head(s) # Clock, NEW j \in DOMAIN t, OfMigration(t[j])
      PROVE  \E h \in DOMAIN t : h < j /\ t[h] = Clock
  <2>1. PICK h \in DOMAIN s : h < j + 1 /\ s[h] = Clock
    BY <1>1, <1>4 DEF Stamped
  <2>2. h # 1 /\ h \in Nat /\ j \in Nat /\ h - 1 \in DOMAIN t
    BY <1>1, <1>4, <2>1
  <2>3. h - 1 < j /\ t[h - 1] = s[(h - 1) + 1] /\ (h - 1) + 1 = h
    BY <1>1, <2>1, <2>2
  <2> QED
    BY <2>1, <2>2, <2>3
<1> QED
  BY <1>3, <1>4 DEF Stamped, t

\* The file a command writes next: never one that "add module" found, and a migration's
\* version is beyond those on the disk unless a clock was read too early.
LEMMA DestIsNew ==
    ASSUME CommandInv, CanWrite
    PROVE  /\ cmd.kind = "add" => Dest \notin DOMAIN old
           /\ Dest[1] = "migration" <=> IsMigration
           /\ IsMigration => Dest[2] = cmd.base + cmd.n
           /\ IsMigration /\ ~hurried => \A f \in DOMAIN disk : f[1] = "migration" => f[2] < Dest[2]
<1>1. /\ cmd # Idle /\ cmd.todo # << >> /\ Current # Clock /\ Current = Head(cmd.todo)
      /\ IsMigration => Dest \notin DOMAIN disk
      /\ IsMigration <=> OfMigration(Current)
  BY DEF CanWrite, Pending, Current, IsMigration, OfMigration
<1>2. IsSeq(cmd.todo)
  BY <1>1 DEF CommandInv, CommandTypes
<1>3. 1 \in DOMAIN cmd.todo /\ Current = cmd.todo[1]
  BY <1>1, <1>2, TailIs
<1>4. CASE IsMigration
  <2>1. Dest = <<"migration", stamp(cmd), Current.path[2]>> /\ stamp(cmd) = cmd.base + cmd.n
    BY <1>4 DEF Dest, stamp
  <2>2. Dest[1] = "migration" /\ Dest[2] = cmd.base + cmd.n
    BY <2>1
  <2>3. ASSUME cmd.kind = "add" PROVE Dest \notin DOMAIN old
    BY <1>1, <1>4, <2>3 DEF CommandInv, OnlyNew, Keeps
  <2>4. ASSUME ~hurried PROVE \A f \in DOMAIN disk : f[1] = "migration" => f[2] < cmd.base + cmd.n
    <3>1. ~Stamped(cmd.todo)
      BY <1>1, <1>2, <1>4, StampedTail
    <3> QED
      BY <1>1, <2>4, <3>1 DEF CommandInv, NextIsBeyond
  <2> QED
    BY <1>4, <2>2, <2>3, <2>4
<1>5. CASE ~IsMigration
  <2>1. Dest = Current.path /\ Dest[1] # "migration"
    BY <1>5 DEF Dest, IsMigration
  <2>2. ASSUME cmd.kind = "add" PROVE Dest \notin DOMAIN old
    BY <1>1, <1>3, <1>5, <2>1, <2>2 DEF CommandInv, OnlyNew
  <2> QED
    BY <1>5, <2>1, <2>2
<1> QED
  BY <1>4, <1>5

\* The disk after a write, whole or cut off.
LEMMA WriteKeeps ==
    ASSUME CommandInv, CanWrite, NEW c, NEW d, d = WriteFile(Dest, c)
    PROVE  /\ DOMAIN d = DOMAIN disk \cup {Dest}
           /\ IsVersioned(d)
           /\ cmd.kind = "add" => Keeps(d)
           /\ ~hurried => Apart(d)
<1>1. d = [g \in DOMAIN disk \cup {Dest} |-> IF g = Dest THEN c ELSE disk[g]]
  BY DEF WriteFile
<1>2. DOMAIN d = DOMAIN disk \cup {Dest}
  BY <1>1
<1>3. /\ cmd.kind = "add" => Dest \notin DOMAIN old
      /\ Dest[1] = "migration" <=> IsMigration
      /\ IsMigration => Dest[2] = cmd.base + cmd.n
      /\ IsMigration /\ ~hurried => \A f \in DOMAIN disk : f[1] = "migration" => f[2] < Dest[2]
  BY DestIsNew
<1>4. cmd # Idle /\ cmd.base + cmd.n \in Nat
  <2>1. cmd # Idle
    BY DEF CanWrite, Pending
  <2> QED
    BY <2>1 DEF CommandInv, CommandTypes
<1>5. IsVersioned(d)
  BY <1>2, <1>3, <1>4 DEF CommandInv, CommandTypes, IsVersioned
<1>6. ASSUME cmd.kind = "add" PROVE Keeps(d)
  BY <1>1, <1>3, <1>4, <1>6 DEF CommandInv, OnlyNew, Keeps
<1>7. ASSUME ~hurried PROVE Apart(d)
  <2> SUFFICES ASSUME NEW f \in DOMAIN d, NEW g \in DOMAIN d, f[1] = "migration",
                      g[1] = "migration", f[2] = g[2], f # g
               PROVE  FALSE
    BY DEF Apart
  <2>1. f[2] \in Nat /\ g[2] \in Nat
    BY <1>5 DEF IsVersioned
  <2>2. CASE f = Dest
    BY <1>2, <1>3, <1>7, <2>1, <2>2
  <2>3. CASE g = Dest
    BY <1>2, <1>3, <1>7, <2>1, <2>3
  <2>4. CASE f # Dest /\ g # Dest
    BY <1>2, <1>7, <2>4 DEF CommandInv, NextIsBeyond, Apart
  <2> QED
    BY <2>2, <2>3, <2>4
<1> QED
  BY <1>2, <1>5, <1>6, <1>7

\* A rollback leaves a part of the files, and of those that were there all.
LEMMA RollbackKeeps ==
    ASSUME CommandInv, cmd # Idle, NEW d, NEW ds, Rollback(d, ds), IsVersioned(d),
           cmd.kind = "add" => Keeps(d), ~hurried => Apart(d)
    PROVE  /\ IsVersioned(disk')
           /\ cmd.kind = "add" => Keeps(disk')
           /\ ~hurried => Apart(disk')
<1>1. CASE cmd.kind = "add"
  <2>1. disk' = [x \in DOMAIN d \ cmd.written |-> d[x]]
    BY <1>1 DEF Rollback, Restrict
  <2>2. DOMAIN disk' = DOMAIN d \ cmd.written /\ \A x \in DOMAIN disk' : disk'[x] = d[x]
    BY <2>1
  <2>3. cmd.written \cap DOMAIN old = {}
    BY <1>1 DEF CommandInv, OnlyNew
  <2>4. Keeps(disk')
    BY <1>1, <2>2, <2>3 DEF Keeps
  <2>5. IsVersioned(disk')
    BY <2>2 DEF IsVersioned
  <2>6. ~hurried => Apart(disk')
    BY <2>2 DEF Apart
  <2> QED
    BY <2>4, <2>5, <2>6
<1>2. CASE cmd.kind # "add"
  <2>1. disk' = d \/ DOMAIN disk' = {}
    BY <1>2 DEF Rollback, Nothing
  <2>2. CASE disk' = d
    BY <1>2, <2>2
  <2>3. CASE DOMAIN disk' = {}
    BY <1>2, <2>3 DEF IsVersioned, Apart
  <2> QED
    BY <2>1, <2>2, <2>3
<1> QED
  BY <1>1, <1>2

\* When no command runs, the files alone matter.
LEMMA EndKeeps ==
    ASSUME CommandInv, EndCommand, IsVersioned(disk'), ~hurried => Apart(disk')
    PROVE  CommandInv'
<1>1. cmd' = Idle /\ now' = now /\ hurried' = hurried
  BY DEF EndCommand
<1>2. CommandTypes'
  <2>1. (cmd # Idle)' = FALSE
    BY <1>1 DEF Idle
  <2> QED
    BY <1>1, <2>1 DEF CommandInv, CommandTypes, IsVersioned, Idle
<1>3. OnlyNew'
  BY <1>1 DEF OnlyNew, Idle
<1>4. NextIsBeyond'
  BY <1>1 DEF NextIsBeyond, Apart, Idle
<1> QED
  BY <1>2, <1>3, <1>4 DEF CommandInv

\* A command begins with a stamped plan, "add module" with new files only.
LEMMA BeginKeeps ==
    ASSUME CommandInv, NEW kind \in {"new", "add"}, NEW specs, NEW dot, Begin(kind, specs, dot),
           IsSeq(specs), Stamped(specs),
           kind = "add" => \A j \in DOMAIN specs : \/ OfMigration(specs[j]) \/ specs[j] = Clock
                                                  \/ specs[j].path \notin DOMAIN disk
    PROVE  CommandInv'
<1> DEFINE c == [kind |-> kind, dot |-> dot, todo |-> specs, written |-> {}, base |-> 0, n |-> 0]
<1>1. cmd' = c /\ old' = disk /\ UNCHANGED <<disk, now, hurried>>
  BY DEF Begin
<1>2. /\ c.kind = kind /\ c.dot = dot /\ c.todo = specs /\ c.written = {} /\ c.base = 0 /\ c.n = 0
  OBVIOUS
<1>3. /\ cmd'.kind = kind /\ cmd'.todo = specs /\ cmd'.written = {} /\ cmd'.base = 0 /\ cmd'.n = 0
      /\ cmd' = [kind |-> cmd'.kind, dot |-> cmd'.dot, todo |-> cmd'.todo,
                 written |-> cmd'.written, base |-> cmd'.base, n |-> cmd'.n]
  BY <1>1, <1>2
<1> HIDE DEF c
<1>4. CommandTypes'
  BY <1>1, <1>3 DEF CommandInv, CommandTypes, IsVersioned
<1>5. OnlyNew'
  <2>1. ASSUME kind = "add"
        PROVE  /\ \A f \in DOMAIN old' : f \in DOMAIN disk' /\ disk'[f] = old'[f]
               /\ cmd'.written \cap DOMAIN old' = {}
               /\ \A j \in DOMAIN cmd'.todo :
                     \/ OfMigration(cmd'.todo[j]) \/ cmd'.todo[j] = Clock
                     \/ cmd'.todo[j].path \notin DOMAIN old'
    BY <1>1, <1>3, <2>1
  <2> QED
    BY <1>3, <2>1 DEF OnlyNew, Keeps, OfMigration
<1>6. NextIsBeyond'
  <2>1. Stamped(cmd'.todo)
    BY <1>3
  <2> QED
    BY <1>1, <2>1 DEF CommandInv, NextIsBeyond, Apart, Stamped, OfMigration
<1> QED
  BY <1>4, <1>5, <1>6 DEF CommandInv

\* Files, plans and clock stay as the invariant says through every command, failure,
\* rollback and kill; and no step of "add module" touches a file that was there.
LEMMA CommandStep ==
    ASSUME CommandInv, [ScaffoldNext]_(scaffoldVars)
    PROVE  CommandInv' /\ (cmd # Idle /\ cmd.kind = "add" => Keeps(disk'))
<1>k. ASSUME cmd # Idle, cmd.kind = "add" PROVE Keeps(disk)
  BY <1>k DEF CommandInv, OnlyNew
<1>1. ASSUME NEW layout \in Layouts, NEW o, NEW dot, New(layout, o, dot)
      PROVE  CommandInv' /\ cmd = Idle
  <2> DEFINE opts == IF "team" \in o THEN o \cup {"auth"} ELSE o
  <2>1. cmd = Idle /\ Begin("new", PlanNew(layout, opts), dot)
    BY <1>1 DEF New
  <2> HIDE DEF opts
  <2>2. IsSeq(PlanNew(layout, opts)) /\ Stamped(PlanNew(layout, opts))
    BY NewPlan
  <2> QED
    BY <2>1, <2>2, BeginKeeps
<1>2. ASSUME NEW n, NEW flag, AddModule(n, flag)
      PROVE  CommandInv' /\ cmd = Idle
  <2>1. PICK layout : /\ OnDisk(planModule(layout, n)) = {}
                      /\ Begin("add", PlanAdd(layout, n), FALSE)
    BY <1>2 DEF AddModule
  <2> DEFINE u == PlanAdd(layout, n)
  <2>2. /\ IsSeq(u) /\ Stamped(u)
        /\ \A j \in DOMAIN u : \/ j \in DOMAIN planModule(layout, n) /\ u[j] = planModule(layout, n)[j]
                               \/ u[j] = Clock \/ OfMigration(u[j])
    BY AddPlan
  <2>3. \A j \in DOMAIN planModule(layout, n) : planModule(layout, n)[j].path \notin DOMAIN disk
    BY <2>1 DEF OnDisk
  <2>4. cmd = Idle
    BY <1>2 DEF AddModule
  <2> HIDE DEF u
  <2>5. \A j \in DOMAIN u : OfMigration(u[j]) \/ u[j] = Clock \/ u[j].path \notin DOMAIN disk
    BY <2>2, <2>3
  <2>6. Begin("add", u, FALSE)
    BY <2>1 DEF u
  <2> QED
    BY <2>2, <2>4, <2>5, <2>6, BeginKeeps
<1>3. CASE ReadClock
  <2>1. /\ cmd # Idle /\ cmd.todo # << >> /\ Head(cmd.todo) = Clock
        /\ cmd' = [cmd EXCEPT !.todo = Tail(cmd.todo), !.base = now]
        /\ hurried' = (hurried \/ \E f \in DOMAIN disk : f[1] = "migration" /\ f[2] >= now)
        /\ UNCHANGED <<disk, now, old>>
    BY <1>3 DEF ReadClock, Current
  <2>2. /\ cmd = [kind |-> cmd.kind, dot |-> cmd.dot, todo |-> cmd.todo,
                  written |-> cmd.written, base |-> cmd.base, n |-> cmd.n]
        /\ cmd.kind \in {"new", "add"} /\ IsSeq(cmd.todo)
        /\ cmd.base \in Nat /\ cmd.n \in Nat /\ now \in Nat
    BY <2>1 DEF CommandInv, CommandTypes
  <2>3. cmd' = [kind |-> cmd.kind, dot |-> cmd.dot, todo |-> Tail(cmd.todo),
                written |-> cmd.written, base |-> now, n |-> cmd.n]
    BY <2>1, <2>2
  <2>4. /\ cmd'.kind = cmd.kind /\ cmd'.todo = Tail(cmd.todo) /\ cmd'.written = cmd.written
        /\ cmd'.base = now /\ cmd'.n = cmd.n
        /\ cmd' = [kind |-> cmd'.kind, dot |-> cmd'.dot, todo |-> cmd'.todo,
                   written |-> cmd'.written, base |-> cmd'.base, n |-> cmd'.n]
    BY <2>3
  <2>5. /\ IsSeq(Tail(cmd.todo))
        /\ \A j \in DOMAIN Tail(cmd.todo) : j + 1 \in DOMAIN cmd.todo /\ Tail(cmd.todo)[j] = cmd.todo[j + 1]
    BY <2>1, <2>2, TailIs
  <2>6. hurried' \in BOOLEAN
    BY <2>1, Zenon
  <2>7. CommandTypes'
    BY <2>1, <2>2, <2>4, <2>5, <2>6 DEF CommandInv, CommandTypes, IsVersioned
  <2>8. OnlyNew'
    BY <2>1, <2>4, <2>5 DEF CommandInv, OnlyNew, Keeps, OfMigration
  <2>9. ASSUME ~hurried'
        PROVE  /\ Apart(disk')
               /\ \A f \in DOMAIN disk' : f[1] = "migration" => f[2] < cmd'.base + cmd'.n
    <3>1. ~hurried /\ \A f \in DOMAIN disk : ~(f[1] = "migration" /\ f[2] >= now)
      BY <2>1, <2>9
    <3>2. Apart(disk')
      BY <2>1, <3>1 DEF CommandInv, NextIsBeyond
    <3>3. ASSUME NEW f \in DOMAIN disk, f[1] = "migration" PROVE f[2] < now + cmd.n
      BY <2>2, <3>1, <3>3 DEF CommandInv, CommandTypes, IsVersioned
    <3> QED
      BY <2>1, <2>4, <3>2, <3>3
  <2>10. NextIsBeyond'
    BY <2>9 DEF NextIsBeyond, Apart
  <2>11. cmd.kind = "add" => Keeps(disk')
    BY <1>k, <2>1
  <2> QED
    BY <2>7, <2>8, <2>10, <2>11 DEF CommandInv
<1>4. CASE Render
  <2>1. /\ CanWrite /\ disk' = WriteFile(Dest, Current.owner)
        /\ cmd' = [cmd EXCEPT !.todo = Tail(cmd.todo),
                              !.n = IF IsMigration THEN cmd.n + 1 ELSE cmd.n,
                              !.written = IF IsMigration THEN cmd.written
                                                        ELSE cmd.written \cup {Dest}]
        /\ UNCHANGED <<now, old, hurried>>
    BY <1>4 DEF Render
  <2>2. /\ cmd # Idle /\ cmd.todo # << >> /\ Head(cmd.todo) # Clock
        /\ IsMigration <=> OfMigration(Head(cmd.todo))
    BY <2>1 DEF CanWrite, Pending, Current, IsMigration, OfMigration
  <2>3. /\ cmd = [kind |-> cmd.kind, dot |-> cmd.dot, todo |-> cmd.todo,
                  written |-> cmd.written, base |-> cmd.base, n |-> cmd.n]
        /\ cmd.kind \in {"new", "add"} /\ IsSeq(cmd.todo)
        /\ cmd.base \in Nat /\ cmd.n \in Nat
    BY <2>2 DEF CommandInv, CommandTypes
  <2> DEFINE n1 == IF IsMigration THEN cmd.n + 1 ELSE cmd.n
             w1 == IF IsMigration THEN cmd.written ELSE cmd.written \cup {Dest}
  <2>4. n1 \in Nat /\ n1 >= cmd.n /\ (IsMigration => n1 = cmd.n + 1) /\ w1 \subseteq cmd.written \cup {Dest}
    BY <2>3
  <2>5. cmd' = [cmd EXCEPT !.todo = Tail(cmd.todo), !.n = n1, !.written = w1]
    BY <2>1
  <2> HIDE DEF n1, w1
  <2>6. cmd' = [kind |-> cmd.kind, dot |-> cmd.dot, todo |-> Tail(cmd.todo),
                written |-> w1, base |-> cmd.base, n |-> n1]
    BY <2>3, <2>5
  <2>7. /\ cmd'.kind = cmd.kind /\ cmd'.todo = Tail(cmd.todo) /\ cmd'.written = w1
        /\ cmd'.base = cmd.base /\ cmd'.n = n1
        /\ cmd' = [kind |-> cmd'.kind, dot |-> cmd'.dot, todo |-> cmd'.todo,
                   written |-> cmd'.written, base |-> cmd'.base, n |-> cmd'.n]
    BY <2>6
  <2>8. /\ IsSeq(Tail(cmd.todo))
        /\ \A j \in DOMAIN Tail(cmd.todo) : j + 1 \in DOMAIN cmd.todo /\ Tail(cmd.todo)[j] = cmd.todo[j + 1]
    BY <2>2, <2>3, TailIs
  <2>9. /\ DOMAIN disk' = DOMAIN disk \cup {Dest} /\ IsVersioned(disk')
        /\ cmd.kind = "add" => Keeps(disk')
        /\ ~hurried => Apart(disk')
    BY <2>1, WriteKeeps
  <2>10. /\ cmd.kind = "add" => Dest \notin DOMAIN old
         /\ Dest[1] = "migration" <=> IsMigration
         /\ IsMigration => Dest[2] = cmd.base + cmd.n
         /\ IsMigration /\ ~hurried => \A f \in DOMAIN disk : f[1] = "migration" => f[2] < Dest[2]
    BY <2>1, DestIsNew
  <2>11. CommandTypes'
    BY <2>1, <2>3, <2>4, <2>7, <2>8, <2>9 DEF CommandInv, CommandTypes, IsVersioned
  <2>12. OnlyNew'
    <3>1. ASSUME cmd.kind = "add"
          PROVE  /\ \A f \in DOMAIN old' : f \in DOMAIN disk' /\ disk'[f] = old'[f]
                 /\ cmd'.written \cap DOMAIN old' = {}
                 /\ \A j \in DOMAIN cmd'.todo :
                       \/ OfMigration(cmd'.todo[j]) \/ cmd'.todo[j] = Clock
                       \/ cmd'.todo[j].path \notin DOMAIN old'
      <4>1. \A f \in DOMAIN old' : f \in DOMAIN disk' /\ disk'[f] = old'[f]
        BY <2>1, <2>9, <3>1 DEF Keeps
      <4>2. cmd'.written \cap DOMAIN old' = {}
        BY <2>1, <2>2, <2>4, <2>7, <2>10, <3>1 DEF CommandInv, OnlyNew
      <4>3. ASSUME NEW j \in DOMAIN cmd'.todo
            PROVE  \/ OfMigration(cmd'.todo[j]) \/ cmd'.todo[j] = Clock
                   \/ cmd'.todo[j].path \notin DOMAIN old'
        BY <2>1, <2>2, <2>7, <2>8, <3>1 DEF CommandInv, OnlyNew
      <4> QED
        BY <4>1, <4>2, <4>3
    <3> QED
      BY <2>7, <3>1 DEF OnlyNew, Keeps, OfMigration
  <2>13. ASSUME ~hurried
         PROVE  \/ Stamped(cmd'.todo)
                \/ \A f \in DOMAIN disk' : f[1] = "migration" => f[2] < cmd'.base + cmd'.n
    <3>1. CASE IsMigration
      <4>1. ASSUME NEW f \in DOMAIN disk', f[1] = "migration" PROVE f[2] < cmd.base + n1
        <5>1. f[2] \in Nat /\ n1 = cmd.n + 1
          BY <2>4, <2>9, <3>1, <4>1 DEF IsVersioned
        <5>2. CASE f = Dest
          BY <2>3, <2>10, <3>1, <5>1, <5>2
        <5>3. CASE f # Dest
          BY <2>3, <2>9, <2>10, <2>13, <3>1, <4>1, <5>1, <5>3
        <5> QED
          BY <5>2, <5>3
      <4> QED
        BY <2>7, <4>1
    <3>2. CASE ~IsMigration /\ Stamped(cmd.todo)
      BY <2>2, <2>3, <2>7, <3>2, StampedTail
    <3>3. CASE ~IsMigration /\ ~Stamped(cmd.todo)
      <4>1. \A f \in DOMAIN disk : f[1] = "migration" => f[2] < cmd.base + cmd.n
        BY <2>2, <2>13, <3>3 DEF CommandInv, NextIsBeyond
      <4>2. ASSUME NEW f \in DOMAIN disk', f[1] = "migration" PROVE f[2] < cmd.base + n1
        <5>1. f \in DOMAIN disk /\ f[2] \in Nat
          BY <2>9, <2>10, <3>3, <4>2 DEF IsVersioned
        <5> QED
          BY <2>3, <2>4, <4>1, <4>2, <5>1
      <4> QED
        BY <2>7, <4>2
    <3> QED
      BY <3>1, <3>2, <3>3
  <2>14. NextIsBeyond'
    <3>1. hurried' = hurried
      BY <2>1
    <3> QED
      BY <2>9, <2>13, <3>1 DEF NextIsBeyond, Apart, Stamped, OfMigration
  <2> QED
    BY <2>9, <2>11, <2>12, <2>14 DEF CommandInv
<1>5. CASE Fail
  <2>1. Pending /\ EndCommand /\ cmd # Idle
    BY <1>5 DEF Fail, Pending
  <2>2. CASE Rollback(disk, dirs)
    <3>1. IsVersioned(disk) /\ (cmd.kind = "add" => Keeps(disk)) /\ (~hurried => Apart(disk))
      BY <1>k, <2>1 DEF CommandInv, CommandTypes, NextIsBeyond
    <3> QED
      BY <2>1, <2>2, <3>1, RollbackKeeps, EndKeeps
  <2>3. CASE CanWrite /\ Rollback(Torn, dirs \cup DirOf(Dest))
    <3> DEFINE d == Torn
    <3>1. d = WriteFile(Dest, "torn")
      BY DEF Torn
    <3> HIDE DEF d
    <3>2. IsVersioned(d) /\ (cmd.kind = "add" => Keeps(d)) /\ (~hurried => Apart(d))
      BY <2>3, <3>1, WriteKeeps
    <3>3. PICK ds : Rollback(d, ds)
      BY <2>3 DEF d
    <3> QED
      BY <2>1, <3>2, <3>3, RollbackKeeps, EndKeeps
  <2> QED
    BY <1>5, <2>2, <2>3 DEF Fail
<1>6. CASE Finish \/ Killed
  <2>1. EndCommand /\ cmd # Idle
    BY <1>6 DEF Finish, Killed
  <2>2. disk' = disk \/ (CanWrite /\ disk' = WriteFile(Dest, "torn"))
    BY <1>6 DEF Finish, Killed, Torn
  <2>3. IsVersioned(disk') /\ (cmd.kind = "add" => Keeps(disk')) /\ (~hurried => Apart(disk'))
    <3>1. CASE disk' = disk
      BY <1>k, <2>1, <3>1 DEF CommandInv, CommandTypes, NextIsBeyond
    <3>2. CASE CanWrite /\ disk' = WriteFile(Dest, "torn")
      BY <3>2, WriteKeeps
    <3> QED
      BY <2>2, <3>1, <3>2
  <2> QED
    BY <2>1, <2>3, EndKeeps
<1>7. CASE ClockTick
  <2>1. now' = now + 1 /\ UNCHANGED <<disk, cmd, old, hurried>>
    BY <1>7 DEF ClockTick
  <2>2. CommandInv'
    BY <2>1 DEF CommandInv, CommandTypes, OnlyNew, NextIsBeyond, IsVersioned, Apart, Keeps
  <2> QED
    BY <1>k, <2>1, <2>2
<1>8. CASE UNCHANGED scaffoldVars
  <2>1. UNCHANGED <<disk, cmd, old, hurried, now>>
    BY <1>8 DEF scaffoldVars
  <2>2. CommandInv'
    BY <2>1 DEF CommandInv, CommandTypes, OnlyNew, NextIsBeyond, IsVersioned, Apart, Keeps
  <2> QED
    BY <1>k, <2>1, <2>2
<1> QED
  BY <1>1, <1>2, <1>3, <1>4, <1>5, <1>6, <1>7, <1>8 DEF ScaffoldNext

\* The invariant of the fibr command holds in every reachable state.
THEOREM CommandInductive == ScaffoldSpec => []CommandInv
<1>1. ScaffoldInit => CommandInv
  <2> SUFFICES ASSUME ScaffoldInit PROVE CommandInv
    OBVIOUS
  <2>1. DOMAIN disk = {} /\ now = 0 /\ cmd = Idle
    BY DEF ScaffoldInit, Nothing
  <2>2. hurried \in BOOLEAN
    BY Zenon DEF ScaffoldInit
  <2> QED
    BY <2>1, <2>2 DEF CommandInv, CommandTypes, OnlyNew, NextIsBeyond, IsVersioned, Apart
<1>2. CommandInv /\ [ScaffoldNext]_(scaffoldVars) => CommandInv'
  BY CommandStep
<1> QED
  BY <1>1, <1>2, PTL DEF ScaffoldSpec

\* "add module" never changes or removes a file that was in the project when it started,
\* whatever name it is given, whichever write fails and however it is rolled back.
THEOREM AddLosesNothingTheorem == ScaffoldSpec => AddLosesNothing
<1> DEFINE A == cmd # Idle /\ cmd.kind = "add" =>
                   \A f \in DOMAIN old : f \in DOMAIN disk' /\ disk'[f] = old[f]
<1>1. CommandInv /\ [ScaffoldNext]_(scaffoldVars) => [A]_(scaffoldVars)
  BY CommandStep DEF Keeps
<1> QED
  BY <1>1, CommandInductive, PTL DEF ScaffoldSpec, AddLosesNothing

\* Two migrations of a project share a version only if a command read the clock before
\* the last second an earlier one had stamped.
THEOREM SharedVersionTheorem == ScaffoldSpec => []SharedVersionOnlyIfHurried
<1>1. CommandInv => SharedVersionOnlyIfHurried
  BY DEF SharedVersionOnlyIfHurried, CommandInv, NextIsBeyond, Apart
<1> QED
  BY <1>1, CommandInductive, PTL

-----------------------------------------------------------------------------
(* A client that walks a table page by page. *)

KeysetConstants ==
    /\ Values \subseteq Nat /\ IsFiniteSet(Values) /\ Ids \subseteq Nat /\ IsFiniteSet(Ids)
    /\ Limits \subseteq Nat \ {0} /\ MaxExact \in Nat

Directions == desc \in [1..2 -> BOOLEAN]

\* The assumptions of Keyset say so.
LEMMA ConstantsHold == KeysetConstants
BY LimitAssumption, ColumnAssumption DEF KeysetConstants

\* A row is its two columns.
LEMMA RowIs ==
    ASSUME KeysetConstants, NEW r \in Row
    PROVE  r.a \in Nat /\ r.id \in Nat /\ r = [a |-> r.a, id |-> r.id]
<1>1. r.a \in Values /\ r.id \in Ids /\ r = [a |-> r.a, id |-> r.id]
  BY DEF Row
<1>2. r.a \in Nat /\ r.id \in Nat
  BY <1>1 DEF KeysetConstants
<1> QED
  BY <1>1, <1>2

\* ORDER BY is a strict total order of the rows, and a backward query turns it round.
LEMMA EarlierIsOrder ==
    ASSUME KeysetConstants, Directions, NEW b \in BOOLEAN
    PROVE  /\ \A r \in Row : ~Earlier(r, r, b)
           /\ \A r, t \in Row : r = t \/ Earlier(r, t, b) \/ Earlier(t, r, b)
           /\ \A r, t, u \in Row : Earlier(r, t, b) /\ Earlier(t, u, b) => Earlier(r, u, b)
           /\ \A r, t \in Row : Earlier(r, t, ~b) <=> Earlier(t, r, b)
<1>1. \A r \in Row : r.a \in Nat /\ r.id \in Nat /\ r = [a |-> r.a, id |-> r.id]
  BY RowIs
<1>2. desc[1] \in BOOLEAN /\ desc[2] \in BOOLEAN
  BY DEF Directions
<1> USE DEF Earlier, Beyond
<1>3. \A r \in Row : ~Earlier(r, r, b)
  BY <1>1, <1>2
<1>4. ASSUME NEW r \in Row, NEW t \in Row, ~Earlier(r, t, b), ~Earlier(t, r, b) PROVE r = t
  <2>1. r.a = t.a
    BY <1>1, <1>2, <1>4
  <2>2. r.id = t.id
    BY <1>1, <1>2, <1>4, <2>1
  <2> QED
    BY <1>1, <2>1, <2>2
<1>5. \A r, t, u \in Row : Earlier(r, t, b) /\ Earlier(t, u, b) => Earlier(r, u, b)
  BY <1>1, <1>2
<1>6. \A r, t \in Row : Earlier(r, t, ~b) <=> Earlier(t, r, b)
  BY <1>1, <1>2
<1> QED
  BY <1>3, <1>4, <1>5, <1>6

\* Values that fit a float64 come back from a cursor as they were.
LEMMA CursorComesBack ==
    ASSUME KeysetConstants, NEW r \in Row, r.a <= MaxExact, r.id <= MaxExact
    PROVE  DecodeCursor(EncodeCursor(r)) = <<r.a, r.id>>
<1>1. r.a \in Nat /\ r.id \in Nat
  BY RowIs
<1>2. Float(r.a) = r.a /\ Float(r.id) = r.id
  BY <1>1 DEF Float, KeysetConstants
<1>3. DecodeCursor(<<r.a, r.id>>) = [j \in 1..2 |-> Float(<<r.a, r.id>>[j])]
  BY DEF DecodeCursor
<1> HIDE DEF Float
<1>4. [j \in 1..2 |-> Float(<<r.a, r.id>>[j])] = <<r.a, r.id>>
  BY <1>2
<1> QED
  BY <1>3, <1>4 DEF EncodeCursor

\* The seek predicate selects the rows that ORDER BY puts after the cursor's.
LEMMA SeekIsOrder ==
    ASSUME KeysetConstants, Directions, NEW r \in Row, r.a <= MaxExact, r.id <= MaxExact,
           NEW t \in Row, NEW b \in BOOLEAN
    PROVE  buildSeek(t, DecodeCursor(EncodeCursor(r)), b) <=> Earlier(r, t, b)
<1> DEFINE v == <<r.a, r.id>>
<1>1. DecodeCursor(EncodeCursor(r)) = v
  BY CursorComesBack
<1>2. Columns[1] = "a" /\ Columns[2] = "id" /\ DOMAIN Columns = {1, 2} /\ v[1] = r.a /\ v[2] = r.id
  BY DEF Columns
<1>3. t["a"] = t.a /\ t["id"] = t.id
  OBVIOUS
<1>4. t.a \in Nat /\ t.id \in Nat /\ r.a \in Nat /\ r.id \in Nat /\ desc[1] \in BOOLEAN /\ desc[2] \in BOOLEAN
  BY RowIs DEF Directions
<1> HIDE DEF v
<1>5. buildSeek(t, v, b) <=> \/ Beyond(t.a, v[1], 1, b)
                             \/ t.a = v[1] /\ Beyond(t.id, v[2], 2, b)
  <2>1. /\ \A j \in 1..(1 - 1) : t[Columns[j]] = v[j]
        /\ (\A j \in 1..(2 - 1) : t[Columns[j]] = v[j]) <=> t.a = v[1]
    <3>1. 1..(1 - 1) = {} /\ 1..(2 - 1) = {1}
      OBVIOUS
    <3> QED
      BY <1>2, <1>3, <3>1
  <2>2. buildSeek(t, v, b) <=>
           \/ (\A j \in 1..(1 - 1) : t[Columns[j]] = v[j]) /\ Beyond(t[Columns[1]], v[1], 1, b)
           \/ (\A j \in 1..(2 - 1) : t[Columns[j]] = v[j]) /\ Beyond(t[Columns[2]], v[2], 2, b)
    BY <1>2 DEF buildSeek
  <2> QED
    BY <1>2, <1>3, <2>1, <2>2
<1> QED
  BY <1>1, <1>2, <1>4, <1>5 DEF Earlier, Beyond

\* Tables are finite.
LEMMA RowsFinite ==
    ASSUME KeysetConstants
    PROVE  IsFiniteSet(Row)
<1> DEFINE f == [r \in Row |-> <<r.a, r.id>>]
<1>1. IsFiniteSet(Values \X Ids)
  BY FS_Product DEF KeysetConstants
<1>2. \A r \in Row : r.a \in Values /\ r.id \in Ids /\ r = [a |-> r.a, id |-> r.id]
  BY DEF Row
<1>3. f \in [Row -> Values \X Ids]
  BY <1>2
<1>4. \A r, t \in Row : f[r] = f[t] => r = t
  BY <1>2
<1>5. f \in Injection(Row, Values \X Ids)
  <2> HIDE DEF f
  <2> QED
    BY <1>3, <1>4 DEF Injection, IsInjective
<1> HIDE DEF f
<1> QED
  BY <1>1, <1>5, FS_Injection

\* The rows of T up to r, and sequences in the order of a query.
Upto(T, r, b) == {t \in T : t = r \/ Earlier(t, r, b)}
Increasing(w, b) == \A m, n \in DOMAIN w : m < n => Earlier(w[m], w[n], b)

\* The places of the rows of a set number them from 1, in order.
LEMMA PlacesAre ==
    ASSUME KeysetConstants, Directions, NEW b \in BOOLEAN, NEW T, T \subseteq Row
    PROVE  /\ IsFiniteSet(T) /\ Cardinality(T) \in Nat
           /\ \A r \in T : Cardinality(Upto(T, r, b)) \in 1..Cardinality(T)
           /\ \A r, t \in T : Earlier(r, t, b) => Cardinality(Upto(T, r, b)) < Cardinality(Upto(T, t, b))
           /\ \A r, t \in T : Cardinality(Upto(T, r, b)) = Cardinality(Upto(T, t, b)) => r = t
           /\ \A n \in 1..Cardinality(T) : \E r \in T : Cardinality(Upto(T, r, b)) = n
<1> DEFINE N(r) == Cardinality(Upto(T, r, b))
           f == [r \in T |-> N(r)]
<1>o. /\ \A r \in T : ~Earlier(r, r, b)
      /\ \A r, t \in T : r = t \/ Earlier(r, t, b) \/ Earlier(t, r, b)
      /\ \A r, t, u \in T : Earlier(r, t, b) /\ Earlier(t, u, b) => Earlier(r, u, b)
  <2>1. /\ \A r \in Row : ~Earlier(r, r, b)
        /\ \A r, t \in Row : r = t \/ Earlier(r, t, b) \/ Earlier(t, r, b)
        /\ \A r, t, u \in Row : Earlier(r, t, b) /\ Earlier(t, u, b) => Earlier(r, u, b)
    BY EarlierIsOrder
  <2>2. \A r \in T : r \in Row
    OBVIOUS
  <2> QED
    BY ONLY <2>1, <2>2
<1>1. IsFiniteSet(T) /\ Cardinality(T) \in Nat
  BY RowsFinite, FS_Subset, FS_CardinalityType
<1>2. ASSUME NEW r \in T
      PROVE  IsFiniteSet(Upto(T, r, b)) /\ N(r) \in 1..Cardinality(T) /\ N(r) \in Nat
  <2>1. Upto(T, r, b) \in SUBSET T /\ r \in Upto(T, r, b)
    BY DEF Upto
  <2>2. IsFiniteSet(Upto(T, r, b)) /\ N(r) <= Cardinality(T)
    BY <1>1, <2>1, FS_Subset
  <2>3. N(r) \in Nat /\ N(r) # 0
    BY <2>1, <2>2, FS_CardinalityType, FS_EmptySet
  <2> QED
    BY <1>1, <2>2, <2>3
<1>3. ASSUME NEW r \in T, NEW t \in T, Earlier(r, t, b) PROVE N(r) < N(t)
  <2>1. Upto(T, r, b) \in SUBSET Upto(T, t, b)
    BY <1>o, <1>3 DEF Upto
  <2>2. t \in Upto(T, t, b) /\ t \notin Upto(T, r, b)
    BY <1>o, <1>3 DEF Upto
  <2>3. Upto(T, r, b) # Upto(T, t, b)
    BY <2>2
  <2>4. N(r) <= N(t) /\ N(r) # N(t)
    BY <1>2, <2>1, <2>3, FS_Subset
  <2>5. N(r) \in Nat /\ N(t) \in Nat
    BY <1>2
  <2> HIDE DEF N
  <2> QED
    BY <2>4, <2>5
<1>4. ASSUME NEW r \in T, NEW t \in T, N(r) = N(t) PROVE r = t
  <2>1. N(r) \in Nat /\ N(t) \in Nat
    BY <1>2
  <2> HIDE DEF N
  <2>2. ~(N(r) < N(t)) /\ ~(N(t) < N(r))
    BY <1>4, <2>1
  <2> QED
    BY <1>o, <1>3, <2>2
<1> HIDE DEF N
<1>5. f \in Injection(T, 1..Cardinality(T))
  BY <1>2, <1>4 DEF Injection, IsInjective
<1>6. IsFiniteSet(1..Cardinality(T)) /\ Cardinality(1..Cardinality(T)) = Cardinality(T)
  <2>1. 1 \in Int /\ Cardinality(T) \in Int /\ Cardinality(T) = (IF 1 > Cardinality(T) THEN 0 ELSE Cardinality(T) - 1 + 1)
    BY <1>1
  <2> QED
    BY ONLY <2>1, FS_Interval
<1>7. f \in Surjection(T, 1..Cardinality(T))
  <2> HIDE DEF f
  <2> QED
    BY <1>5, <1>6, FS_Injection
<1>8. \A n \in 1..Cardinality(T) : \E r \in T : f[r] = n
  <2> HIDE DEF f
  <2> QED
    BY <1>7 DEF Surjection
<1> QED
  BY <1>1, <1>2, <1>3, <1>4, <1>8 DEF N

\* ORDER BY returns the rows of the set, each once, in order.
LEMMA SortedIs ==
    ASSUME KeysetConstants, Directions, NEW b \in BOOLEAN, NEW T, T \subseteq Row
    PROVE  LET w == Sorted(T, b)
           IN  /\ w \in Seq(T) /\ Len(w) = Cardinality(T) /\ Len(w) \in Nat /\ DOMAIN w = 1..Len(w)
               /\ \A r \in T : \E n \in DOMAIN w : w[n] = r
               /\ Increasing(w, b)
<1> DEFINE N(r) == Cardinality(Upto(T, r, b))
           at(n) == CHOOSE r \in T : N(r) = n
           w == [n \in 1..Cardinality(T) |-> at(n)]
<1>1. Sorted(T, b) = [n \in 1..Cardinality(T) |-> at(n)]
  BY DEF Sorted, Upto
<1>2. /\ IsFiniteSet(T) /\ Cardinality(T) \in Nat
      /\ \A r \in T : N(r) \in 1..Cardinality(T)
      /\ \A r, t \in T : Earlier(r, t, b) => N(r) < N(t)
      /\ \A r, t \in T : N(r) = N(t) => r = t
      /\ \A n \in 1..Cardinality(T) : \E r \in T : N(r) = n
  BY PlacesAre
<1> HIDE DEF N
<1>3. \A n \in 1..Cardinality(T) : at(n) \in T /\ N(at(n)) = n
  BY <1>2
<1> HIDE DEF at
<1>4. w \in [1..Cardinality(T) -> T]
  BY <1>3
<1>5. w \in Seq(T) /\ Len(w) = Cardinality(T) /\ DOMAIN w = 1..Len(w)
  <2> HIDE DEF w
  <2> QED
    BY <1>2, <1>4
<1>6. ASSUME NEW r \in T PROVE \E n \in DOMAIN w : w[n] = r
  <2>1. N(r) \in DOMAIN w /\ at(N(r)) \in T /\ N(at(N(r))) = N(r)
    BY <1>2, <1>3
  <2>2. at(N(r)) = r
    BY <1>2, <2>1
  <2> QED
    BY <2>1, <2>2
<1>7. ASSUME NEW m \in 1..Cardinality(T), NEW n \in 1..Cardinality(T), m < n
      PROVE  Earlier(at(m), at(n), b)
  <2>1. at(m) \in T /\ at(n) \in T /\ N(at(m)) = m /\ N(at(n)) = n
    BY <1>3
  <2>2. at(m) # at(n) /\ ~Earlier(at(n), at(m), b)
    <3>1. m \in Nat /\ n \in Nat
      BY <1>2
    <3> QED
      BY <1>2, <1>7, <2>1, <3>1
  <2>3. at(m) \in Row /\ at(n) \in Row
    BY <2>1
  <2> QED
    BY <2>2, <2>3, EarlierIsOrder
<1>8. Increasing(w, b)
  BY <1>7 DEF Increasing
<1>9. Sorted(T, b) = w
  BY <1>1
<1> HIDE DEF w
<1> QED
  BY <1>2, <1>5, <1>6, <1>8, <1>9

\* Rows in order are as many as their set.
LEMMA IncreasingCount ==
    ASSUME KeysetConstants, Directions, NEW b \in BOOLEAN, NEW w \in Seq(Row), Increasing(w, b),
           NEW n \in Nat, n <= Len(w)
    PROVE  Cardinality({w[m] : m \in 1..n}) = n
<1>1. DOMAIN w = 1..Len(w) /\ Len(w) \in Nat /\ \A m \in 1..Len(w) : w[m] \in Row
  OBVIOUS
<1>2. ASSUME NEW m \in 1..Len(w), NEW k \in 1..Len(w), m # k PROVE w[m] # w[k]
  <2>1. m < k \/ k < m
    BY <1>1, <1>2
  <2>2. Earlier(w[m], w[k], b) \/ Earlier(w[k], w[m], b)
    BY <1>1, <2>1 DEF Increasing
  <2> QED
    BY <1>1, <2>2, EarlierIsOrder
<1> DEFINE f == [m \in 1..n |-> w[m]]
           R == {w[m] : m \in 1..n}
<1>3. IsFiniteSet(1..n) /\ Cardinality(1..n) = n
  <2>1. 1 \in Int /\ n \in Int /\ n = (IF 1 > n THEN 0 ELSE n - 1 + 1)
    OBVIOUS
  <2> QED
    BY ONLY <2>1, FS_Interval
<1>4. \A m \in 1..n : m \in 1..Len(w)
  BY <1>1
<1>5. f \in Surjection(1..n, R)
  BY DEF Surjection
<1>6. f \in Injection(1..n, R)
  <2>1. f \in [1..n -> R]
    OBVIOUS
  <2>2. \A x, y \in 1..n : f[x] = f[y] => x = y
    BY <1>2, <1>4
  <2> HIDE DEF f
  <2> QED
    BY <2>1, <2>2 DEF Injection, IsInjective
<1> HIDE DEF f, R
<1>7. Cardinality(R) = Cardinality(1..n)
  BY <1>3, <1>5, <1>6, FS_Surjection
<1> QED
  BY <1>3, <1>7 DEF R

\* Rows in order are what ORDER BY makes of their set.
LEMMA IncreasingIsSorted ==
    ASSUME KeysetConstants, Directions, NEW b \in BOOLEAN, NEW w \in Seq(Row), Increasing(w, b),
           NEW T, T = {w[n] : n \in DOMAIN w}
    PROVE  w = Sorted(T, b)
<1> DEFINE N(r) == Cardinality(Upto(T, r, b))
<1>1. /\ DOMAIN w = 1..Len(w) /\ Len(w) \in Nat /\ \A n \in 1..Len(w) : w[n] \in Row /\ w[n] \in T
      /\ T \subseteq Row
  OBVIOUS
<1>3. ASSUME NEW n \in 1..Len(w) PROVE Upto(T, w[n], b) = {w[m] : m \in 1..n}
  <2>1. ASSUME NEW m \in 1..n PROVE w[m] \in Upto(T, w[n], b)
    <3>1. m \in 1..Len(w) /\ (m = n \/ m < n)
      BY <1>1, <1>3
    <3> QED
      BY <1>1, <3>1 DEF Upto, Increasing
  <2>2. ASSUME NEW m \in 1..Len(w), w[m] = w[n] \/ Earlier(w[m], w[n], b) PROVE m \in 1..n
    <3>1. m = n \/ m < n \/ n < m
      BY <1>1
    <3>2. ~(n < m)
      <4> SUFFICES ASSUME n < m PROVE FALSE
        OBVIOUS
      <4>1. Earlier(w[n], w[m], b) /\ w[n] \in Row /\ w[m] \in Row
        BY <1>1 DEF Increasing
      <4> QED
        BY <2>2, <4>1, EarlierIsOrder
    <3> QED
      BY <1>1, <3>1, <3>2
  <2>3. \A r \in Upto(T, w[n], b) : \E m \in 1..Len(w) : r = w[m] /\ (w[m] = w[n] \/ Earlier(w[m], w[n], b))
    BY <1>1 DEF Upto
  <2> QED
    BY <2>1, <2>2, <2>3
<1>4. \A n \in Nat : n <= Len(w) => Cardinality({w[m] : m \in 1..n}) = n
  BY IncreasingCount
<1>5. Cardinality(T) = Len(w)
  <2>1. T = {w[m] : m \in 1..Len(w)} /\ Len(w) \in Nat /\ Len(w) <= Len(w)
    BY <1>1
  <2>2. Cardinality({w[m] : m \in 1..Len(w)}) = Len(w)
    BY <1>4, <2>1
  <2> QED
    BY <2>1, <2>2
<1>6. \A n \in 1..Len(w) : N(w[n]) = n
  <2> SUFFICES ASSUME NEW n \in 1..Len(w) PROVE N(w[n]) = n
    OBVIOUS
  <2>1. n \in Nat /\ n <= Len(w)
    BY <1>1
  <2> QED
    BY <1>3, <1>4, <2>1
<1>7. Sorted(T, b) = [n \in 1..Cardinality(T) |-> CHOOSE r \in T : N(r) = n]
  BY DEF Sorted, Upto
<1> HIDE DEF N
<1>8. ASSUME NEW n \in 1..Len(w) PROVE (CHOOSE r \in T : N(r) = n) = w[n]
  <2> DEFINE c == CHOOSE r \in T : N(r) = n
  <2>1. c \in T /\ N(c) = n
    BY <1>1, <1>6
  <2> HIDE DEF c
  <2>2. PICK m \in 1..Len(w) : c = w[m]
    BY <1>1, <2>1
  <2>3. m = n
    BY <1>6, <2>1, <2>2
  <2> QED
    BY <2>2, <2>3 DEF c
<1>9. [n \in 1..Len(w) |-> CHOOSE r \in T : N(r) = n] = [n \in 1..Len(w) |-> w[n]]
  BY <1>8
<1>10. w = [n \in 1..Len(w) |-> w[n]]
  BY <1>1
<1> QED
  BY <1>5, <1>7, <1>9, <1>10

\* A cursor is neither the empty nor the broken one.
LEMMA CursorIsSome ==
    \A r : EncodeCursor(r) # None /\ EncodeCursor(r) # Malformed
<1> SUFFICES ASSUME NEW r PROVE EncodeCursor(r) # None /\ EncodeCursor(r) # Malformed
  OBVIOUS
<1>1. EncodeCursor(r) = <<r.a, r.id>> /\ None = << >> /\ Malformed = <<"malformed">>
  BY DEF EncodeCursor, None, Malformed
<1>2. Len(<<r.a, r.id>>) = 2 /\ Len(<< >>) = 0 /\ Len(<<"malformed">>) = 1
  OBVIOUS
<1>3. <<r.a, r.id>> # << >> /\ <<r.a, r.id>> # <<"malformed">>
  BY <1>2
<1> QED
  BY <1>1, <1>3

\* The first k of a sequence.
LEMMA PrefixIs ==
    ASSUME NEW Q, NEW w \in Seq(Q), NEW k \in Nat, k <= Len(w)
    PROVE  /\ SubSeq(w, 1, k) \in Seq(Q) /\ Len(SubSeq(w, 1, k)) = k /\ DOMAIN SubSeq(w, 1, k) = 1..k
           /\ \A n \in 1..k : SubSeq(w, 1, k)[n] = w[n]
<1>1. Len(w) \in Nat /\ DOMAIN w = 1..Len(w)
  OBVIOUS
<1>2. SubSeq(w, 1, k) \in Seq(Q)
  BY <1>1
<1>3. Len(SubSeq(w, 1, k)) = k
  BY <1>1
<1>4. DOMAIN SubSeq(w, 1, k) = 1..k
  BY <1>2, <1>3
<1>5. \A n \in 1..k : SubSeq(w, 1, k)[n] = w[n]
  BY <1>1
<1> QED
  BY <1>2, <1>3, <1>4, <1>5

\* What a query with cursor c selects, and the page made of it.
Hits(c, b) == {r \in table : c # None /\ c # Malformed => buildSeek(r, DecodeCursor(c), b)}
Page(c, b) == NewCursorPage(Keyset(c, b), c, b)

\* A page d with its cursors: the first k of the rows w, turned round when it is a
\* backward one.
PageShape(c, b, w, k, d) ==
    /\ d \in Seq(Hits(c, b)) /\ Len(d) = k
    /\ \A n \in 1..k : d[n] = IF b THEN w[k - n + 1] ELSE w[n]
    /\ Page(c, b).next = IF k # 0 /\ (b \/ Len(w) > limit) THEN EncodeCursor(d[k]) ELSE None
    /\ Page(c, b).prev = IF k # 0 /\ (IF b THEN Len(w) > limit ELSE c # None)
                           THEN EncodeCursor(d[1]) ELSE None
Taken(w) == IF Len(w) <= limit THEN Len(w) ELSE limit

\* A page holds the first rows of what its cursor selects, at most limit of them.
LEMMA PageIs ==
    ASSUME KeysetConstants, Directions, limit \in Limits, table \subseteq Row, NEW c, NEW b \in BOOLEAN
    PROVE  PageShape(c, b, Sorted(Hits(c, b), b), Taken(Sorted(Hits(c, b), b)), Page(c, b).data)
<1> DEFINE w == Sorted(Hits(c, b), b)
           k == IF Len(w) <= limit THEN Len(w) ELSE limit
           d == Page(c, b).data
           H == Hits(c, b)
           rows == SubSeq(w, 1, IF Len(w) <= limit THEN Len(w) ELSE limit + 1)
           kept == IF Len(rows) > limit THEN SubSeq(rows, 1, limit) ELSE rows
           turned == IF b THEN Reverse(kept) ELSE kept
<1>1. Keyset(c, b) = rows
  BY DEF Keyset, Hits
<1>2. /\ Page(c, b).data = turned
      /\ Page(c, b).next = IF turned # << >> /\ (b \/ Len(rows) > limit) THEN EncodeCursor(Last(turned)) ELSE None
      /\ Page(c, b).prev = IF turned # << >> /\ (IF b THEN Len(rows) > limit ELSE c # None)
                             THEN EncodeCursor(Head(turned)) ELSE None
  <2> HIDE DEF rows
  <2> QED
    BY <1>1 DEF NewCursorPage, Page
<1>3. H \subseteq Row
  BY DEF Hits
<1>4. w \in Seq(H) /\ Len(w) \in Nat /\ DOMAIN w = 1..Len(w)
  BY <1>3, SortedIs
<1>5. limit \in Nat /\ limit >= 1
  BY DEF KeysetConstants
<1>6. /\ kept \in Seq(H) /\ Len(kept) = k /\ k \in Nat /\ (Len(rows) > limit <=> Len(w) > limit)
      /\ \A n \in 1..k : kept[n] = w[n]
  <2> HIDE DEF H, w
  <2>1. CASE Len(w) <= limit
    <3>1. rows = w /\ k = Len(w)
      BY <1>4, <2>1
    <3> HIDE DEF rows
    <3>2. ~(Len(rows) > limit) /\ ~(Len(w) > limit)
      BY <1>4, <1>5, <2>1, <3>1
    <3>3. kept = w
      BY <3>1, <3>2
    <3> QED
      BY <1>4, <3>1, <3>2, <3>3
  <2>2. CASE ~(Len(w) <= limit)
    <3>1. rows = SubSeq(w, 1, limit + 1) /\ limit + 1 <= Len(w) /\ k = limit /\ Len(w) > limit
      BY <1>4, <1>5, <2>2
    <3>2. rows \in Seq(H) /\ Len(rows) = limit + 1 /\ \A n \in 1..(limit + 1) : rows[n] = w[n]
      <4>1. limit + 1 \in Nat
        BY <1>5
      <4> QED
        BY <1>4, <3>1, <4>1, PrefixIs
    <3> HIDE DEF rows
    <3>3. Len(rows) > limit /\ kept = SubSeq(rows, 1, limit)
      BY <1>5, <3>2
    <3>4. kept \in Seq(H) /\ Len(kept) = limit /\ \A n \in 1..limit : kept[n] = w[n]
      <4>1. limit <= Len(rows) /\ \A n \in 1..limit : n \in 1..(limit + 1)
        BY <1>5, <3>2
      <4> QED
        BY <1>5, <3>2, <3>3, <4>1, PrefixIs
    <3> HIDE DEF kept
    <3> QED
      BY <1>5, <3>1, <3>3, <3>4
  <2> QED
    BY <2>1, <2>2
<1> HIDE DEF rows, kept, H, w, k
<1>7. turned \in Seq(H) /\ Len(turned) = k /\ \A n \in 1..k : turned[n] = IF b THEN w[k - n + 1] ELSE w[n]
  <2>1. CASE b
    <3>1. turned = [n \in 1..k |-> kept[k - n + 1]]
      BY <1>6, <2>1 DEF Reverse
    <3>2. \A n \in 1..k : k - n + 1 \in 1..k /\ kept[k - n + 1] = w[k - n + 1] /\ kept[k - n + 1] \in H
      <4>1. \A n \in 1..k : k - n + 1 \in 1..k
        BY <1>6
      <4> QED
        BY <1>6, <4>1
    <3>3. turned \in [1..k -> H]
      BY <3>1, <3>2
    <3> HIDE DEF turned
    <3>4. turned \in Seq(H) /\ Len(turned) = k
      BY <1>6, <3>3
    <3> QED
      BY <2>1, <3>1, <3>2, <3>4
  <2>2. CASE ~b
    BY <1>6, <2>2
  <2> QED
    BY <2>1, <2>2
<1> HIDE DEF turned
<1>8. turned # << >> <=> k # 0
  BY <1>6, <1>7
<1>9. k # 0 => Last(turned) = turned[k] /\ Head(turned) = turned[1]
  BY <1>7, <1>8 DEF Last
<1>10. d = turned
  BY <1>2
<1>11. Page(c, b).next = IF k # 0 /\ (b \/ Len(w) > limit) THEN EncodeCursor(d[k]) ELSE None
  BY <1>2, <1>6, <1>8, <1>9, <1>10
<1>12. Page(c, b).prev = IF k # 0 /\ (IF b THEN Len(w) > limit ELSE c # None)
                           THEN EncodeCursor(d[1]) ELSE None
  BY <1>2, <1>6, <1>8, <1>9, <1>10
<1> QED
  BY <1>7, <1>10, <1>11, <1>12 DEF H, w, k, PageShape, Taken

\* The rows d of page p are in order, and what the cursor selects beyond a full page
\* lies before its first row or after its last; the edge rows are the cursors.
InOrder(c, b, p, d) ==
    /\ d \in Seq(Hits(c, b)) /\ d \in Seq(Row) /\ d \in Seq(table) /\ Len(d) <= limit /\ Increasing(d, FALSE)
    /\ d = << >> => Hits(c, b) = {}
    /\ \A r \in Hits(c, b) :
          \/ \E n \in DOMAIN d : d[n] = r
          \/ /\ Len(d) = limit /\ d # << >> /\ (~b => p.next # None)
             /\ IF b THEN Earlier(r, d[1], FALSE) ELSE Earlier(d[Len(d)], r, FALSE)
    /\ p.next # None => d # << >> /\ p.next = EncodeCursor(d[Len(d)]) /\ (b \/ Len(d) = limit)
    /\ b /\ d # << >> => p.next # None
    /\ p.prev # None => d # << >> /\ p.prev = EncodeCursor(d[1])

\* Every page is in order.
LEMMA PageOrder ==
    ASSUME KeysetConstants, Directions, limit \in Limits, table \subseteq Row, NEW c, NEW b \in BOOLEAN,
           NEW p, p = Page(c, b)
    PROVE  InOrder(c, b, p, p.data)
<1> DEFINE d == p.data
           H == Hits(c, b)
           w == Sorted(H, b)
           k == IF Len(w) <= limit THEN Len(w) ELSE limit
           at(n) == IF b THEN k - n + 1 ELSE n
<1>1. H \subseteq table /\ H \subseteq Row
  BY DEF Hits
<1>2. /\ w \in Seq(H) /\ Len(w) \in Nat /\ DOMAIN w = 1..Len(w)
      /\ \A r \in H : \E n \in DOMAIN w : w[n] = r
      /\ Increasing(w, b)
  <2> HIDE DEF H, d
  <2>1. KeysetConstants /\ Directions /\ b \in BOOLEAN /\ H \subseteq Row
    BY <1>1
  <2> QED
    BY ONLY <2>1, SortedIs
<1>3. /\ d \in Seq(H) /\ Len(d) = k
      /\ \A n \in 1..k : d[n] = IF b THEN w[k - n + 1] ELSE w[n]
      /\ p.next = IF k # 0 /\ (b \/ Len(w) > limit) THEN EncodeCursor(d[k]) ELSE None
      /\ p.prev = IF k # 0 /\ (IF b THEN Len(w) > limit ELSE c # None) THEN EncodeCursor(d[1]) ELSE None
  <2>1. PageShape(c, b, w, Taken(w), d)
    BY PageIs
  <2>2. k = Taken(w)
    BY DEF Taken
  <2>3. PageShape(c, b, w, k, d)
    BY <2>1, <2>2
  <2> HIDE DEF w, k
  <2> QED
    BY <2>3 DEF PageShape
<1>4. limit \in Nat /\ limit >= 1
  BY DEF KeysetConstants
<1> HIDE DEF w, H, d
<1>5. k \in Nat /\ k <= limit /\ k <= Len(w) /\ (Len(w) > limit <=> k < Len(w)) /\ (Len(w) > limit => k = limit /\ k # 0)
      /\ (k = 0 => Len(w) = 0)
  <2>1. CASE Len(w) <= limit
    <3>1. k = Len(w) /\ ~(Len(w) > limit)
      BY <1>2, <1>4, <2>1
    <3> HIDE DEF k
    <3>2. k \in Nat /\ k <= limit /\ k <= Len(w) /\ ~(k < Len(w)) /\ (k = 0 => Len(w) = 0)
      BY <1>2, <1>4, <2>1, <3>1
    <3> QED
      BY <3>1, <3>2
  <2>2. CASE ~(Len(w) <= limit)
    <3>1. k = limit /\ Len(w) > limit
      BY <1>2, <1>4, <2>2
    <3> HIDE DEF k
    <3> QED
      BY <1>2, <1>4, <2>2, <3>1
  <2> QED
    BY <2>1, <2>2
<1> HIDE DEF k
<1>6. DOMAIN d = 1..k /\ (d # << >> <=> k # 0)
  BY <1>3, <1>5
<1>7. \A n \in 1..k : at(n) \in 1..k /\ at(n) \in DOMAIN w /\ d[n] = w[at(n)]
  <2> SUFFICES ASSUME NEW n \in 1..k PROVE at(n) \in 1..k /\ at(n) \in DOMAIN w /\ d[n] = w[at(n)]
    OBVIOUS
  <2>1. at(n) \in 1..k
    BY <1>5
  <2>2. at(n) \in DOMAIN w
    BY <1>2, <1>5, <2>1
  <2> QED
    BY <1>3, <2>1, <2>2
<1>8. \A r, t \in Row : Earlier(r, t, TRUE) <=> Earlier(t, r, FALSE)
  <2>1. \A r, t \in Row : Earlier(r, t, ~FALSE) <=> Earlier(t, r, FALSE)
    BY EarlierIsOrder
  <2>2. (~FALSE) = TRUE
    OBVIOUS
  <2> QED
    BY <2>1, <2>2
<1>9. \A n \in DOMAIN w : w[n] \in Row
  BY <1>1, <1>2
<1>10. Increasing(d, FALSE)
  <2> SUFFICES ASSUME NEW m \in 1..k, NEW n \in 1..k, m < n PROVE Earlier(d[m], d[n], FALSE)
    BY <1>6 DEF Increasing
  <2>1. CASE b
    <3>1. k - m + 1 \in DOMAIN w /\ k - n + 1 \in DOMAIN w /\ k - n + 1 < k - m + 1
      BY <1>2, <1>5
    <3>2. Earlier(w[k - n + 1], w[k - m + 1], TRUE)
      BY <1>2, <2>1, <3>1 DEF Increasing
    <3>3. d[m] = w[k - m + 1] /\ d[n] = w[k - n + 1]
      BY <1>3, <2>1
    <3>4. w[k - m + 1] \in Row /\ w[k - n + 1] \in Row
      BY <1>9, <3>1
    <3> QED
      BY <1>8, <3>2, <3>3, <3>4
  <2>2. CASE ~b
    <3>1. m \in DOMAIN w /\ n \in DOMAIN w /\ d[m] = w[m] /\ d[n] = w[n] /\ b = FALSE
      BY <1>2, <1>3, <1>5, <2>2
    <3> QED
      BY <1>2, <3>1 DEF Increasing
  <2> QED
    BY <2>1, <2>2
<1>11. ASSUME NEW r \in H
       PROVE  \/ \E n \in DOMAIN d : d[n] = r
              \/ /\ Len(d) = limit /\ d # << >> /\ (~b => p.next # None)
                 /\ IF b THEN Earlier(r, d[1], FALSE) ELSE Earlier(d[Len(d)], r, FALSE)
  <2>1. PICK m \in DOMAIN w : w[m] = r
    BY <1>2
  <2>2. CASE m <= k
    <3>1. at(m) \in 1..k /\ at(at(m)) = m
      BY <1>2, <1>5, <2>2
    <3>2. d[at(m)] = w[at(at(m))]
      BY <1>7, <3>1
    <3> HIDE DEF at
    <3> QED
      BY <1>6, <2>1, <3>1, <3>2
  <2>3. CASE k < m
    <3>1. Len(w) > limit /\ k = limit /\ k # 0 /\ k \in DOMAIN w /\ 1 \in 1..k /\ k \in 1..k
      BY <1>2, <1>5, <2>3
    <3>2. Earlier(w[k], r, b)
      BY <1>2, <2>1, <2>3, <3>1 DEF Increasing
    <3>3. CASE b
      <4>1. k - 1 + 1 = k
        BY <1>5
      <4>2. d[1] = w[k]
        BY <1>3, <3>1, <3>3, <4>1
      <4>3. Earlier(r, d[1], FALSE)
        BY <1>1, <1>8, <1>9, <3>1, <3>2, <3>3, <4>2
      <4> QED
        BY <1>3, <1>6, <3>1, <3>3, <4>3
    <3>4. CASE ~b
      <4>1. d[k] = w[k] /\ b = FALSE
        BY <1>3, <3>1, <3>4
      <4>2. p.next # None
        BY <1>3, <3>1, CursorIsSome
      <4> QED
        BY <1>3, <1>6, <3>1, <3>2, <3>4, <4>1, <4>2
    <3> QED
      BY <3>3, <3>4
  <2>4. m \in Nat /\ (m <= k \/ k < m)
    BY <1>2, <1>5
  <2> QED
    BY <2>2, <2>3, <2>4
<1>12. ASSUME d = << >> PROVE H = {}
  <2>1. DOMAIN w = {}
    BY <1>2, <1>5, <1>6, <1>12
  <2> QED
    BY <1>2, <2>1
<1>13. p.next # None => d # << >> /\ p.next = EncodeCursor(d[Len(d)]) /\ (b \/ Len(d) = limit)
  BY <1>3, <1>5, <1>6
<1>14. b /\ d # << >> => p.next # None
  BY <1>3, <1>6, CursorIsSome
<1>15. p.prev # None => d # << >> /\ p.prev = EncodeCursor(d[1])
  BY <1>3, <1>6
<1>16. d \in Seq(H) /\ d \in Seq(table) /\ d \in Seq(Row) /\ Len(d) <= limit
  BY <1>1, <1>3, <1>5
<1> QED
  BY <1>10, <1>11, <1>12, <1>13, <1>14, <1>15, <1>16 DEF H, d, InOrder

\* A forward page without a next cursor holds all the rows its cursor selects; with
\* one, the rest comes after its last row.
LEMMA ForwardPage ==
    ASSUME KeysetConstants, Directions, limit \in Limits, table \subseteq Row, NEW c,
           NEW p, p = Page(c, FALSE), NEW d, d = p.data
    PROVE  /\ d \in Seq(Hits(c, FALSE)) /\ Increasing(d, FALSE)
           /\ d = << >> => Hits(c, FALSE) = {}
           /\ p.next # None => d # << >> /\ p.next = EncodeCursor(d[Len(d)])
           /\ \A r \in Hits(c, FALSE) : \/ \E n \in DOMAIN d : d[n] = r
                                        \/ p.next # None /\ Earlier(d[Len(d)], r, FALSE)
<1>1. InOrder(c, FALSE, p, d)
  BY PageOrder
<1> QED
  BY <1>1 DEF InOrder

\* The walk so far is in order, and every row that stayed in the table is in it or
\* comes after its last row; the cursor to go on with is the one of that row.
WalkTypes ==
    /\ table \subseteq Row /\ stable \subseteq table
    /\ Directions /\ limit \in Limits
    /\ walked \in Seq(Row)
    /\ walked = << >> => stable = {}
    /\ walked # << >> /\ page.next # None => page.next = EncodeCursor(walked[Len(walked)])

Exact(r) == r.a <= MaxExact /\ r.id <= MaxExact

WalkOrder ==
    walked # << >> /\ (\A n \in DOMAIN walked : Exact(walked[n])) =>
        /\ Increasing(walked, FALSE)
        /\ \A r \in stable : \/ \E n \in DOMAIN walked : walked[n] = r
                             \/ page.next # None /\ Earlier(walked[Len(walked)], r, FALSE)

WalkInv == WalkTypes /\ WalkOrder

\* A query for the first page starts a walk.
LEMMA FirstStarts ==
    ASSUME KeysetConstants, WalkInv, NEW c \in {None, Malformed}, First(c)
    PROVE  WalkInv'
<1> DEFINE H == Hits(c, FALSE)
<1>1. /\ page' = Page(c, FALSE) /\ walked' = page'.data
      /\ stable' = table /\ UNCHANGED <<table, desc, limit>>
  BY DEF First, Fetch, config, Page
<1>2. H = table
  BY DEF Hits
<1>3. Directions /\ limit \in Limits /\ table \subseteq Row
  BY DEF WalkInv, WalkTypes
<1> HIDE DEF H
<1>4. /\ page'.data \in Seq(H) /\ Increasing(page'.data, FALSE)
      /\ page'.data = << >> => H = {}
      /\ page'.next # None => page'.data # << >> /\ page'.next = EncodeCursor(page'.data[Len(page'.data)])
      /\ \A r \in H : \/ \E n \in DOMAIN page'.data : page'.data[n] = r
                      \/ page'.next # None /\ Earlier(page'.data[Len(page'.data)], r, FALSE)
  BY <1>1, <1>3, ForwardPage DEF H
<1>5. Directions'
  BY <1>1, <1>3 DEF Directions
<1>6. WalkTypes'
  <2>1. walked' \in Seq(table)
    BY <1>1, <1>2, <1>4
  <2>2. walked' \in Seq(Row)
    BY <1>3, <2>1
  <2> QED
    BY <1>1, <1>2, <1>3, <1>4, <1>5, <2>2 DEF WalkTypes
<1>7. WalkOrder'
  <2>0. \A r, t : Earlier(r, t, FALSE)' <=> Earlier(r, t, FALSE)
    BY <1>1 DEF Earlier, Beyond
  <2>1. Increasing(walked, FALSE)'
    BY <1>1, <1>4, <2>0 DEF Increasing
  <2>2. ASSUME NEW r \in stable'
        PROVE  (\/ \E n \in DOMAIN walked : walked[n] = r
                \/ page.next # None /\ Earlier(walked[Len(walked)], r, FALSE))'
    BY <1>1, <1>2, <1>4, <2>0, <2>2
  <2> QED
    BY <2>1, <2>2 DEF WalkOrder
<1> QED
  BY <1>6, <1>7 DEF WalkInv

\* The next page goes on where the walk stands.
LEMMA NextContinues ==
    ASSUME KeysetConstants, WalkInv, NextPage
    PROVE  WalkInv'
<1> DEFINE c == page.next
           d == page'.data
           H == Hits(c, FALSE)
<1>1. /\ c # None /\ page' = Page(c, FALSE) /\ walked' = walked \o d
      /\ UNCHANGED <<table, desc, limit, stable>>
  BY DEF NextPage, Fetch, config, Page
<1>2. /\ Directions /\ limit \in Limits /\ table \subseteq Row /\ stable \subseteq table /\ walked \in Seq(Row)
      /\ walked = << >> => stable = {}
      /\ walked # << >> => c = EncodeCursor(walked[Len(walked)])
  BY <1>1 DEF WalkInv, WalkTypes
<1> HIDE DEF c
<1>3. /\ d \in Seq(H) /\ Increasing(d, FALSE)
      /\ d = << >> => H = {}
      /\ page'.next # None => d # << >> /\ page'.next = EncodeCursor(d[Len(d)])
      /\ \A r \in H : \/ \E n \in DOMAIN d : d[n] = r
                      \/ page'.next # None /\ Earlier(d[Len(d)], r, FALSE)
  BY <1>1, <1>2, ForwardPage
<1>4. H \subseteq Row /\ H \subseteq table
  BY <1>2 DEF Hits
<1>h. ASSUME walked # << >>, NEW r \in table, buildSeek(r, DecodeCursor(c), FALSE) PROVE r \in H
  BY <1>h DEF Hits
<1>g. ASSUME walked # << >>, NEW r \in H PROVE r \in table /\ buildSeek(r, DecodeCursor(c), FALSE)
  <2>1. c # None /\ c # Malformed
    BY <1>2, <1>g, CursorIsSome
  <2> QED
    BY <1>g, <2>1 DEF Hits
<1> HIDE DEF d, H
<1>5. d \in Seq(Row)
  BY <1>3, <1>4
<1>6. /\ walked' \in Seq(Row) /\ Len(walked') = Len(walked) + Len(d)
      /\ DOMAIN walked' = 1..(Len(walked) + Len(d)) /\ DOMAIN walked = 1..Len(walked) /\ DOMAIN d = 1..Len(d)
      /\ Len(walked) \in Nat /\ Len(d) \in Nat
      /\ \A n \in 1..Len(walked) : walked'[n] = walked[n]
      /\ \A n \in 1..Len(d) : walked'[Len(walked) + n] = d[n]
  BY <1>1, <1>2, <1>5
<1>7. d # << >> => walked'[Len(walked')] = d[Len(d)] /\ walked' # << >>
  <2> SUFFICES ASSUME d # << >> PROVE walked'[Len(walked')] = d[Len(d)] /\ walked' # << >>
    OBVIOUS
  <2>1. Len(d) \in 1..Len(d)
    BY <1>5
  <2>2. Len(walked') \in 1..Len(walked')
    BY <1>6, <2>1
  <2> QED
    BY <1>6, <2>1, <2>2
<1>9. Directions'
  BY <1>1, <1>2 DEF Directions
<1>10. WalkTypes'
  <2>1. walked' = << >> => walked = << >>
    BY <1>2, <1>6
  <2>2. page'.next # None => page'.next = EncodeCursor(walked'[Len(walked')])
    BY <1>3, <1>7
  <2> QED
    BY <1>1, <1>2, <1>6, <1>9, <2>1, <2>2 DEF WalkTypes
<1>11. \A r, t : Earlier(r, t, FALSE)' <=> Earlier(r, t, FALSE)
  BY <1>1 DEF Earlier, Beyond
<1>12. ASSUME walked # << >>, \A n \in DOMAIN walked' : Exact(walked'[n])
       PROVE  /\ Increasing(walked, FALSE)
              /\ \A n \in DOMAIN walked : Exact(walked[n])
              /\ \A r \in stable : \/ \E n \in DOMAIN walked : walked[n] = r
                                   \/ Earlier(walked[Len(walked)], r, FALSE)
              /\ walked[Len(walked)] \in Row /\ Len(walked) \in DOMAIN walked
              /\ \A r \in table : r \in H <=> Earlier(walked[Len(walked)], r, FALSE)
  <2>1. Len(walked) \in DOMAIN walked /\ walked[Len(walked)] \in Row
    BY <1>2, <1>12
  <2>2. \A n \in DOMAIN walked : n \in DOMAIN walked' /\ walked'[n] = walked[n]
    BY <1>6
  <2>3. \A n \in DOMAIN walked : Exact(walked[n])
    BY <1>12, <2>2
  <2>4. /\ Increasing(walked, FALSE)
        /\ \A r \in stable : \/ \E n \in DOMAIN walked : walked[n] = r
                             \/ Earlier(walked[Len(walked)], r, FALSE)
    BY <1>12, <2>3 DEF WalkInv, WalkOrder
  <2>5. ASSUME NEW r \in table
        PROVE  buildSeek(r, DecodeCursor(c), FALSE) <=> Earlier(walked[Len(walked)], r, FALSE)
    <3>1. c = EncodeCursor(walked[Len(walked)])
      BY <1>2, <1>12
    <3>2. walked[Len(walked)].a <= MaxExact /\ walked[Len(walked)].id <= MaxExact
      BY <2>1, <2>3 DEF Exact
    <3>3. r \in Row
      BY <1>2
    <3> QED
      BY <1>2, <2>1, <3>1, <3>2, <3>3, SeekIsOrder
  <2> QED
    BY <1>h, <1>g, <1>12, <2>1, <2>3, <2>4, <2>5
<1>13. ASSUME \A n \in DOMAIN walked' : Exact(walked'[n]),
              NEW m \in DOMAIN walked', NEW n \in DOMAIN walked', m < n
       PROVE  Earlier(walked'[m], walked'[n], FALSE)
  <2>1. CASE n \in 1..Len(walked)
    <3>1. walked # << >> /\ m \in 1..Len(walked)
      BY <1>6, <1>13, <2>1
    <3> QED
      BY <1>6, <1>12, <1>13, <2>1, <3>1 DEF Increasing
  <2>2. CASE m \notin 1..Len(walked)
    <3>1. /\ m - Len(walked) \in 1..Len(d) /\ n - Len(walked) \in 1..Len(d) /\ m - Len(walked) < n - Len(walked)
          /\ Len(walked) + (m - Len(walked)) = m /\ Len(walked) + (n - Len(walked)) = n
      BY <1>6, <1>13, <2>2
    <3>2. Earlier(d[m - Len(walked)], d[n - Len(walked)], FALSE)
      BY <1>3, <1>6, <3>1 DEF Increasing
    <3>3. walked'[m] = d[m - Len(walked)] /\ walked'[n] = d[n - Len(walked)]
      BY <1>6, <3>1
    <3> QED
      BY <3>2, <3>3
  <2>3. CASE m \in 1..Len(walked) /\ n \notin 1..Len(walked)
    <3>1. n - Len(walked) \in 1..Len(d) /\ Len(walked) + (n - Len(walked)) = n
      BY <1>6, <2>3
    <3>2. walked'[n] = d[n - Len(walked)] /\ walked'[m] = walked[m]
      BY <1>6, <2>3, <3>1
    <3>3. d[n - Len(walked)] \in H
      BY <1>3, <1>6, <3>1
    <3>4. walked # << >>
      BY <2>3
    <3>5. Earlier(walked[Len(walked)], d[n - Len(walked)], FALSE)
      BY <1>4, <1>12, <1>13, <3>3, <3>4
    <3>6. m = Len(walked) \/ Earlier(walked[m], walked[Len(walked)], FALSE)
      <4>1. m \in DOMAIN walked /\ Len(walked) \in DOMAIN walked /\ Increasing(walked, FALSE)
        BY <1>6, <1>12, <1>13, <2>3, <3>4
      <4>2. m = Len(walked) \/ m < Len(walked)
        BY <1>6, <2>3
      <4> QED
        BY <4>1, <4>2 DEF Increasing
    <3>7. walked[m] \in Row /\ walked[Len(walked)] \in Row /\ d[n - Len(walked)] \in Row
      BY <1>2, <1>4, <1>12, <1>13, <2>3, <3>3, <3>4
    <3> QED
      BY <1>2, <3>2, <3>5, <3>6, <3>7, EarlierIsOrder
  <2> QED
    BY <2>1, <2>2, <2>3
<1>14. ASSUME \A n \in DOMAIN walked' : Exact(walked'[n]), NEW r \in stable, walked # << >>
       PROVE  \/ \E n \in DOMAIN walked' : walked'[n] = r
              \/ page'.next # None /\ Earlier(walked'[Len(walked')], r, FALSE)
  <2>1. CASE \E n \in DOMAIN walked : walked[n] = r
    <3>1. \A n \in DOMAIN walked : n \in DOMAIN walked' /\ walked'[n] = walked[n]
      BY <1>6
    <3> QED
      BY <2>1, <3>1
  <2>2. CASE Earlier(walked[Len(walked)], r, FALSE)
    <3>1. r \in H
      BY <1>2, <1>12, <1>14, <2>2
    <3>2. CASE \E n \in DOMAIN d : d[n] = r
      <4>1. \A n \in DOMAIN d : Len(walked) + n \in DOMAIN walked' /\ walked'[Len(walked) + n] = d[n]
        BY <1>6
      <4> QED
        BY <3>2, <4>1
    <3>3. CASE page'.next # None /\ Earlier(d[Len(d)], r, FALSE)
      BY <1>3, <1>7, <3>3
    <3> QED
      BY <1>3, <3>1, <3>2, <3>3
  <2> QED
    BY <1>12, <1>14, <2>1, <2>2
<1>15. WalkOrder'
  <2> SUFFICES ASSUME \A n \in DOMAIN walked' : Exact(walked'[n]), walked' # << >>
               PROVE  /\ Increasing(walked, FALSE)'
                      /\ \A r \in stable' : (\/ \E n \in DOMAIN walked : walked[n] = r
                                             \/ page.next # None /\ Earlier(walked[Len(walked)], r, FALSE))'
    BY DEF WalkOrder, Exact
  <2>1. Increasing(walked, FALSE)'
    BY <1>11, <1>13 DEF Increasing
  <2>2. ASSUME NEW r \in stable
        PROVE  (\/ \E n \in DOMAIN walked : walked[n] = r
                \/ page.next # None /\ Earlier(walked[Len(walked)], r, FALSE))'
    BY <1>2, <1>11, <1>14, <2>2
  <2> QED
    BY <1>1, <2>1, <2>2
<1> QED
  BY <1>10, <1>15 DEF WalkInv

\* A step back ends the walk; rows come and go beside it.
LEMMA OthersKeep ==
    ASSUME KeysetConstants, WalkInv,
           PrevPage \/ (\E r \in Row : Insert(r) \/ Delete(r)) \/ UNCHANGED keysetVars
    PROVE  WalkInv'
<1>1. UNCHANGED <<desc, limit>>
  BY DEF PrevPage, Insert, Delete, keysetVars, config
<1>2. Directions'
  BY <1>1 DEF WalkInv, WalkTypes, Directions
<1>3. CASE PrevPage
  <2>1. walked' = << >> /\ stable' = {} /\ table' = table
    BY <1>3 DEF PrevPage
  <2>2. WalkTypes'
    BY <1>1, <1>2, <2>1 DEF WalkInv, WalkTypes
  <2> QED
    BY <2>1, <2>2 DEF WalkInv, WalkOrder
<1>4. CASE (\E r \in Row : Insert(r) \/ Delete(r)) \/ UNCHANGED keysetVars
  <2>1. /\ page' = page /\ walked' = walked /\ stable' \subseteq stable /\ stable' \subseteq table'
        /\ table' \subseteq Row
    BY <1>4 DEF Insert, Delete, keysetVars, WalkInv, WalkTypes
  <2>2. WalkTypes'
    BY <1>1, <1>2, <2>1 DEF WalkInv, WalkTypes
  <2>3. WalkOrder'
    <3>1. \A r, t : Earlier(r, t, FALSE)' <=> Earlier(r, t, FALSE)
      BY <1>1 DEF Earlier, Beyond
    <3>2. Increasing(walked, FALSE)' <=> Increasing(walked, FALSE)
      BY <2>1, <3>1 DEF Increasing
    <3>3. \A r : Exact(r)' <=> Exact(r)
      BY DEF Exact
    <3> QED
      BY <2>1, <3>1, <3>2, <3>3 DEF WalkInv, WalkOrder
  <2> QED
    BY <2>2, <2>3 DEF WalkInv
<1> QED
  BY <1>3, <1>4

\* A walk in order is what WalkComplete asks of it.
LEMMA WalkImplies ==
    ASSUME KeysetConstants, WalkInv
    PROVE  WalkComplete
<1> SUFFICES ASSUME Precise, walked # << >>
             PROVE  /\ \A m, n \in DOMAIN walked : m < n => walked[m] # walked[n]
                    /\ walked = Sorted(ToSet(walked), FALSE)
                    /\ page.next = None => stable \subseteq ToSet(walked)
  BY DEF WalkComplete
<1>1. ToSet(walked) = {walked[n] : n \in DOMAIN walked}
  BY DEF ToSet
<1>2. walked \in Seq(Row) /\ Directions
  BY DEF WalkInv, WalkTypes
<1>3. \A n \in DOMAIN walked : Exact(walked[n])
  BY <1>1 DEF Precise, Exact
<1>4. /\ Increasing(walked, FALSE)
      /\ page.next = None => \A r \in stable : \E n \in DOMAIN walked : walked[n] = r
  BY <1>3 DEF WalkInv, WalkOrder
<1>5. ASSUME NEW m \in DOMAIN walked, NEW n \in DOMAIN walked, m < n PROVE walked[m] # walked[n]
  <2>1. Earlier(walked[m], walked[n], FALSE)
    BY <1>4, <1>5 DEF Increasing
  <2>3. walked[m] \in Row
    BY <1>2
  <2>2. \A r \in Row : ~Earlier(r, r, FALSE)
    BY <1>2, EarlierIsOrder
  <2> QED
    BY <2>1, <2>2, <2>3
<1>6. walked = Sorted(ToSet(walked), FALSE)
  BY <1>1, <1>2, <1>4, IncreasingIsSorted
<1> QED
  BY <1>1, <1>4, <1>5, <1>6

\* Every step keeps the walk in order.
LEMMA WalkStep ==
    ASSUME KeysetConstants, WalkInv, [KeysetNext]_keysetVars
    PROVE  WalkInv'
BY FirstStarts, NextContinues, OthersKeep DEF KeysetNext

\* A walk forward, from the first page to one without a next cursor, returns every
\* row that stayed in the table exactly once and in order, whatever is inserted and
\* deleted between the pages (Keyset, buildSeek, NewCursorPage): for every table,
\* directions and limits, as long as the values fit a float64.
THEOREM WalkCompleteTheorem == KeysetSpec => []WalkComplete
<1> USE ConstantsHold
<1>1. KeysetInit => WalkInv
  <2> SUFFICES ASSUME KeysetInit PROVE WalkInv
    OBVIOUS
  <2>1. DOMAIN Columns = 1..2
    BY DEF Columns
  <2>2. Directions
    BY <2>1 DEF KeysetInit, Directions
  <2> QED
    BY <2>2 DEF KeysetInit, NoPage, WalkInv, WalkTypes, WalkOrder
<1>2. WalkInv /\ [KeysetNext]_keysetVars => WalkInv'
  BY WalkStep
<1>3. WalkInv => WalkComplete
  BY WalkImplies
<1> QED
  BY <1>1, <1>2, <1>3, PTL DEF KeysetSpec

\* A page of the table as it is: rows in order with none left out between the first
\* and the last, and before a page that is not full nothing when one follows it.
Good(p) ==
    /\ p.data \in Seq(table) /\ p.data \in Seq(Row) /\ Len(p.data) <= limit /\ Increasing(p.data, FALSE)
    /\ \A r \in table : p.data # << >> /\ Earlier(p.data[1], r, FALSE) /\ Earlier(r, p.data[Len(p.data)], FALSE)
                           => \E n \in DOMAIN p.data : p.data[n] = r
    /\ p.next # None =>
          /\ p.data # << >> /\ p.next = EncodeCursor(p.data[Len(p.data)])
          /\ Len(p.data) = limit \/ \A r \in table : ~Earlier(r, p.data[1], FALSE)
    /\ p.prev # None => p.data # << >> /\ p.prev = EncodeCursor(p.data[1])

\* A cursor that some row had.
RowCursor(c) == \E r \in Row : c = EncodeCursor(r)

\* Where the order of a query goes on, its seek predicate keeps holding, also with
\* values that a float64 has changed.
LEMMA SeekGoesOn ==
    ASSUME KeysetConstants, Directions, NEW c, RowCursor(c), NEW r \in Row, NEW t \in Row, NEW b \in BOOLEAN,
           buildSeek(r, DecodeCursor(c), b), Earlier(r, t, b)
    PROVE  buildSeek(t, DecodeCursor(c), b)
<1>1. PICK x \in Row : c = EncodeCursor(x)
  BY DEF RowCursor
<1> DEFINE v == DecodeCursor(c)
<1>2. x.a \in Nat /\ x.id \in Nat
  BY RowIs
<1>3. c = <<x.a, x.id>>
  BY <1>1 DEF EncodeCursor
<1>4. v[1] = Float(x.a) /\ v[2] = Float(x.id)
  <2>1. v = [j \in DOMAIN c |-> Float(c[j])]
    BY DEF DecodeCursor
  <2>2. DOMAIN c = 1..2 /\ c[1] = x.a /\ c[2] = x.id
    BY <1>3
  <2> HIDE DEF v, Float
  <2> QED
    BY <2>1, <2>2
<1>5. \A n \in Nat : Float(n) \in Int
  BY DEF Float
<1>6. v[1] \in Int /\ v[2] \in Int
  BY <1>2, <1>4, <1>5
<1> HIDE DEF v
<1>7. Columns[1] = "a" /\ Columns[2] = "id" /\ DOMAIN Columns = {1, 2}
  BY DEF Columns
<1>8. ASSUME NEW u \in Row
      PROVE  buildSeek(u, v, b) <=> \/ Beyond(u.a, v[1], 1, b)
                                    \/ u.a = v[1] /\ Beyond(u.id, v[2], 2, b)
  <2>0. u["a"] = u.a /\ u["id"] = u.id
    OBVIOUS
  <2>1. /\ \A j \in 1..(1 - 1) : u[Columns[j]] = v[j]
        /\ (\A j \in 1..(2 - 1) : u[Columns[j]] = v[j]) <=> u.a = v[1]
    <3>1. 1..(1 - 1) = {} /\ 1..(2 - 1) = {1}
      OBVIOUS
    <3> QED
      BY <1>7, <2>0, <3>1
  <2>2. buildSeek(u, v, b) <=>
           \/ (\A j \in 1..(1 - 1) : u[Columns[j]] = v[j]) /\ Beyond(u[Columns[1]], v[1], 1, b)
           \/ (\A j \in 1..(2 - 1) : u[Columns[j]] = v[j]) /\ Beyond(u[Columns[2]], v[2], 2, b)
    BY <1>7 DEF buildSeek
  <2> QED
    BY <1>7, <2>0, <2>1, <2>2
<1>9. /\ r.a \in Nat /\ r.id \in Nat /\ t.a \in Nat /\ t.id \in Nat
      /\ desc[1] \in BOOLEAN /\ desc[2] \in BOOLEAN
  BY RowIs DEF Directions
<1>10. Beyond(r.a, v[1], 1, b) \/ (r.a = v[1] /\ Beyond(r.id, v[2], 2, b))
  BY <1>8 DEF v
<1>11. Beyond(t.a, v[1], 1, b) \/ (t.a = v[1] /\ Beyond(t.id, v[2], 2, b))
  BY <1>6, <1>9, <1>10 DEF Earlier, Beyond
<1> QED
  BY <1>8, <1>11 DEF v

\* What a query selects goes on to the end of its order.
LEMMA HitsGoOn ==
    ASSUME KeysetConstants, Directions, table \subseteq Row, NEW c, c = None \/ c = Malformed \/ RowCursor(c),
           NEW b \in BOOLEAN, NEW r \in Hits(c, b), NEW t \in table, Earlier(r, t, b)
    PROVE  t \in Hits(c, b)
<1>1. CASE c = None \/ c = Malformed
  BY <1>1 DEF Hits
<1>2. CASE c # None /\ c # Malformed
  <2>1. r \in Row /\ t \in Row /\ RowCursor(c) /\ buildSeek(r, DecodeCursor(c), b)
    BY <1>2 DEF Hits
  <2>2. buildSeek(t, DecodeCursor(c), b)
    BY <2>1, SeekGoesOn
  <2> QED
    BY <2>2 DEF Hits
<1> QED
  BY <1>1, <1>2

\* Every query makes such a page, and its cursors are of rows.
LEMMA PageGood ==
    ASSUME KeysetConstants, Directions, limit \in Limits, table \subseteq Row,
           NEW c, c = None \/ c = Malformed \/ RowCursor(c), NEW b \in BOOLEAN, NEW p, p = Page(c, b)
    PROVE  /\ Good(p)
           /\ p.next # None => RowCursor(p.next)
           /\ p.prev # None => RowCursor(p.prev)
<1> DEFINE d == p.data
           H == Hits(c, b)
<1>1. InOrder(c, b, p, d)
  BY PageOrder
<1> HIDE DEF d
<1>2. /\ d \in Seq(H) /\ d \in Seq(Row) /\ d \in Seq(table) /\ Len(d) <= limit /\ Increasing(d, FALSE)
      /\ \A r \in H : \/ \E n \in DOMAIN d : d[n] = r
                      \/ /\ Len(d) = limit /\ d # << >>
                         /\ IF b THEN Earlier(r, d[1], FALSE) ELSE Earlier(d[Len(d)], r, FALSE)
      /\ p.next # None => d # << >> /\ p.next = EncodeCursor(d[Len(d)]) /\ (b \/ Len(d) = limit)
      /\ p.prev # None => d # << >> /\ p.prev = EncodeCursor(d[1])
  BY <1>1 DEF InOrder
<1>3. H \subseteq table /\ H \subseteq Row
  BY DEF Hits
<1>4. \A r \in H, t \in table : Earlier(r, t, b) => t \in H
  <2> SUFFICES ASSUME NEW r \in H, NEW t \in table, Earlier(r, t, b) PROVE t \in H
    OBVIOUS
  <2> QED
    BY HitsGoOn
<1> HIDE DEF H
<1>o. /\ \A r \in Row : ~Earlier(r, r, FALSE)
      /\ \A r, t, u \in Row : Earlier(r, t, FALSE) /\ Earlier(t, u, FALSE) => Earlier(r, u, FALSE)
  BY EarlierIsOrder
<1>r. \A r, t \in Row : Earlier(r, t, TRUE) <=> Earlier(t, r, FALSE)
  <2>1. \A r, t \in Row : Earlier(r, t, ~FALSE) <=> Earlier(t, r, FALSE)
    BY EarlierIsOrder
  <2>2. (~FALSE) = TRUE
    OBVIOUS
  <2> QED
    BY <2>1, <2>2
<1>5. d # << >> => /\ d[1] \in H /\ d[Len(d)] \in H /\ 1 \in DOMAIN d /\ Len(d) \in DOMAIN d
                   /\ d[1] \in Row /\ d[Len(d)] \in Row
  BY <1>2, <1>3
<1>6. ASSUME NEW r \in table, Earlier(d[1], r, FALSE), Earlier(r, d[Len(d)], FALSE), d # << >>
      PROVE  \E n \in DOMAIN d : d[n] = r
  <2>0. r \in Row
    OBVIOUS
  <2>1. r \in H
    <3>1. CASE b
      <4>1. Earlier(d[Len(d)], r, TRUE) /\ b = TRUE
        BY <1>r, <1>5, <1>6, <2>0, <3>1
      <4> QED
        BY <1>4, <1>5, <1>6, <4>1
    <3>2. CASE ~b
      <4>1. Earlier(d[1], r, FALSE) /\ b = FALSE
        BY <1>6, <3>2
      <4> QED
        BY <1>4, <1>5, <1>6, <4>1
    <3> QED
      BY <3>1, <3>2
  <2>2. ~Earlier(r, d[1], FALSE) /\ ~Earlier(d[Len(d)], r, FALSE)
    BY <1>o, <1>5, <1>6, <2>0
  <2> QED
    BY <1>2, <2>1, <2>2
<1>7. ASSUME NEW r \in table, b, Len(d) # limit, d # << >> PROVE ~Earlier(r, d[1], FALSE)
  <2> SUFFICES ASSUME Earlier(r, d[1], FALSE) PROVE FALSE
    OBVIOUS
  <2>0. r \in Row
    OBVIOUS
  <2>1. Earlier(d[1], r, TRUE) /\ b = TRUE
    BY <1>r, <1>5, <1>7, <2>0
  <2>2. r \in H
    BY <1>4, <1>5, <1>7, <2>1
  <2>3. PICK n \in DOMAIN d : d[n] = r
    BY <1>2, <1>7, <2>2
  <2>4. n = 1 \/ 1 < n
    BY <1>2
  <2>5. r = d[1] \/ Earlier(d[1], r, FALSE)
    BY <1>2, <1>5, <1>7, <2>3, <2>4 DEF Increasing
  <2> QED
    BY <1>o, <1>5, <1>7, <2>0, <2>5
<1>9. /\ p.next # None => RowCursor(p.next)
      /\ p.prev # None => RowCursor(p.prev)
  BY <1>2, <1>5 DEF RowCursor
<1> QED
  BY <1>2, <1>6, <1>7, <1>9 DEF Good, d

\* Two sets of rows that both reach to the end of a third one contain one another.
LEMMA EndsNested ==
    ASSUME KeysetConstants, Directions, NEW T, T \subseteq Row, NEW A, A \subseteq T, NEW B, B \subseteq T,
           \A r \in A, t \in T : Earlier(r, t, FALSE) => t \in A,
           \A r \in B, t \in T : Earlier(r, t, FALSE) => t \in B
    PROVE  A \subseteq B \/ B \subseteq A
<1> SUFFICES ASSUME NEW r \in A, r \notin B, NEW t \in B, t \notin A PROVE FALSE
  OBVIOUS
<1>1. r \in Row /\ t \in Row /\ r \in T /\ t \in T /\ r # t
  OBVIOUS
<1>2. Earlier(r, t, FALSE) \/ Earlier(t, r, FALSE)
  BY <1>1, EarlierIsOrder
<1> QED
  BY <1>1, <1>2

\* Page p begins with the first row after page q.
Follows(q, p) ==
    p.data # << >> /\ Exact(q.data[Len(q.data)]) =>
        /\ Earlier(q.data[Len(q.data)], p.data[1], FALSE)
        /\ \A r \in table : Earlier(q.data[Len(q.data)], r, FALSE) => r = p.data[1] \/ Earlier(p.data[1], r, FALSE)

\* The page that the next cursor of q fetches does.
LEMMA NextFollows ==
    ASSUME KeysetConstants, Directions, limit \in Limits, table \subseteq Row,
           NEW q, Good(q), q.next # None, NEW p, p = Page(q.next, FALSE)
    PROVE  Follows(q, p)
<1> DEFINE e == q.data
           d == p.data
           x == e[Len(e)]
           y == d[1]
<1> SUFFICES ASSUME d # << >>, Exact(x)
             PROVE  /\ Earlier(x, y, FALSE)
                    /\ \A r \in table : Earlier(x, r, FALSE) => r = y \/ Earlier(y, r, FALSE)
  BY DEF Follows
<1>o. /\ \A r \in Row : ~Earlier(r, r, FALSE)
      /\ \A r, t \in Row : r = t \/ Earlier(r, t, FALSE) \/ Earlier(t, r, FALSE)
      /\ \A r, t, u \in Row : Earlier(r, t, FALSE) /\ Earlier(t, u, FALSE) => Earlier(r, u, FALSE)
  BY EarlierIsOrder
<1>1. e \in Seq(table) /\ e # << >> /\ q.next = EncodeCursor(x)
  BY DEF Good
<1>2. InOrder(q.next, FALSE, p, d)
  BY PageOrder
<1> HIDE DEF e, d
<1>3. /\ d \in Seq(Hits(q.next, FALSE)) /\ d \in Seq(Row) /\ Increasing(d, FALSE)
      /\ \A r \in Hits(q.next, FALSE) : (\E n \in DOMAIN d : d[n] = r) \/ Earlier(d[Len(d)], r, FALSE)
  BY <1>2 DEF InOrder
<1>4. d \in Seq(table)
  BY <1>2 DEF InOrder
<1>5. x \in table /\ x \in Row /\ y \in table /\ y \in Row /\ 1 \in DOMAIN d /\ Len(d) \in DOMAIN d
  <2>1. x \in table
    BY <1>1
  <2>2. 1 \in DOMAIN d /\ Len(d) \in DOMAIN d /\ y \in table
    BY <1>4
  <2> QED
    BY <2>1, <2>2
<1> HIDE DEF x, y
<1>6. \A r \in table : r \in Hits(q.next, FALSE) <=> Earlier(x, r, FALSE)
  <2> SUFFICES ASSUME NEW r \in table PROVE r \in Hits(q.next, FALSE) <=> Earlier(x, r, FALSE)
    OBVIOUS
  <2>1. q.next # None /\ q.next # Malformed
    BY <1>1, CursorIsSome
  <2>2. r \in Hits(q.next, FALSE) <=> buildSeek(r, DecodeCursor(q.next), FALSE)
    BY <2>1 DEF Hits
  <2>3. r \in Row /\ x.a <= MaxExact /\ x.id <= MaxExact
    BY <1>5 DEF Exact
  <2>4. buildSeek(r, DecodeCursor(EncodeCursor(x)), FALSE) <=> Earlier(x, r, FALSE)
    BY <1>5, <2>3, SeekIsOrder
  <2> QED
    BY <1>1, <2>2, <2>4
<1>7. Earlier(x, y, FALSE)
  <2> DEFINE G == Hits(q.next, FALSE)
  <2>0. d \in Seq(G) /\ 1 \in DOMAIN d
    BY <1>3, <1>5
  <2> HIDE DEF G
  <2>1. d[1] \in G
    BY <2>0
  <2>2. y \in Hits(q.next, FALSE)
    BY <2>1 DEF y, G
  <2> QED
    BY <1>5, <1>6, <2>2
<1>8. ASSUME NEW r \in table, Earlier(x, r, FALSE) PROVE r = y \/ Earlier(y, r, FALSE)
  <2>0. r \in Row /\ r \in Hits(q.next, FALSE)
    BY <1>6, <1>8
  <2>1. \A n \in DOMAIN d : d[n] = y \/ Earlier(y, d[n], FALSE)
    <3> SUFFICES ASSUME NEW n \in DOMAIN d PROVE d[n] = y \/ Earlier(y, d[n], FALSE)
      OBVIOUS
    <3>1. n = 1 \/ 1 < n
      BY <1>3
    <3> QED
      BY <1>3, <1>5, <3>1 DEF y, Increasing
  <2>2. CASE \E n \in DOMAIN d : d[n] = r
    BY <2>1, <2>2
  <2>3. CASE Earlier(d[Len(d)], r, FALSE)
    <3>1. d[Len(d)] \in Row /\ (d[Len(d)] = y \/ Earlier(y, d[Len(d)], FALSE))
      <4>1. d \in Seq(Row) /\ Len(d) \in DOMAIN d
        BY <1>3, <1>5
      <4>2. d[Len(d)] \in Row
        BY ONLY <4>1
      <4> QED
        BY <2>1, <4>1, <4>2
    <3> QED
      BY <1>o, <1>5, <2>0, <2>3, <3>1
  <2> QED
    BY <1>3, <2>0, <2>2, <2>3
<1> QED
  BY <1>7, <1>8 DEF x, y

\* Going back from the page after q fetches q again.
LEMMA BackIs ==
    ASSUME KeysetConstants, Directions, limit \in Limits, table \subseteq Row,
           \A r \in table : Exact(r),
           NEW q, Good(q), q.next # None, NEW p, Good(p), Follows(q, p), p.prev # None,
           NEW o, o = Page(p.prev, TRUE)
    PROVE  o.data = q.data /\ o.next = q.next
<1> DEFINE e == q.data
           d == p.data
           g == o.data
           x == e[Len(e)]
           y == d[1]
           H == {r \in table : r = x \/ Earlier(r, x, FALSE)}
           A == {e[m] : m \in 1..Len(e)}
           B == {g[m] : m \in 1..Len(g)}
<1>o. /\ \A r \in Row : ~Earlier(r, r, FALSE)
      /\ \A r, t \in Row : r = t \/ Earlier(r, t, FALSE) \/ Earlier(t, r, FALSE)
      /\ \A r, t, u \in Row : Earlier(r, t, FALSE) /\ Earlier(t, u, FALSE) => Earlier(r, u, FALSE)
  BY EarlierIsOrder
<1>r. \A r, t \in Row : Earlier(r, t, TRUE) <=> Earlier(t, r, FALSE)
  <2>1. \A r, t \in Row : Earlier(r, t, ~FALSE) <=> Earlier(t, r, FALSE)
    BY EarlierIsOrder
  <2>2. (~FALSE) = TRUE
    OBVIOUS
  <2> QED
    BY <2>1, <2>2
<1>1. /\ e \in Seq(table) /\ e \in Seq(Row) /\ Len(e) <= limit /\ Increasing(e, FALSE) /\ e # << >>
      /\ \A r \in table : Earlier(e[1], r, FALSE) /\ Earlier(r, x, FALSE) => \E n \in DOMAIN e : e[n] = r
      /\ q.next = EncodeCursor(x)
      /\ Len(e) = limit \/ \A r \in table : ~Earlier(r, e[1], FALSE)
  BY DEF Good
<1>2. d \in Seq(table) /\ d # << >> /\ p.prev = EncodeCursor(y)
  BY DEF Good
<1>3. InOrder(p.prev, TRUE, o, g)
  BY PageOrder
<1>4. x \in table /\ y \in table /\ 1 \in DOMAIN e /\ Len(e) \in DOMAIN e
  <2> HIDE DEF e, d
  <2>1. 1 \in DOMAIN e /\ Len(e) \in DOMAIN e /\ x \in table
    BY <1>1
  <2>2. y \in table
    BY <1>2
  <2> QED
    BY <2>1, <2>2
<1>f. /\ Earlier(x, y, FALSE)
      /\ \A r \in table : Earlier(x, r, FALSE) => r = y \/ Earlier(y, r, FALSE)
  BY <1>2, <1>4 DEF Follows
<1> HIDE DEF e, d, g
<1>5. /\ g \in Seq(Hits(p.prev, TRUE)) /\ g \in Seq(Row) /\ Len(g) <= limit /\ Increasing(g, FALSE)
      /\ g = << >> => Hits(p.prev, TRUE) = {}
      /\ \A r \in Hits(p.prev, TRUE) : (\E n \in DOMAIN g : g[n] = r) \/ (Len(g) = limit /\ g # << >> /\ Earlier(r, g[1], FALSE))
      /\ o.next # None => o.next = EncodeCursor(g[Len(g)])
      /\ g # << >> => o.next # None
  BY <1>3 DEF InOrder
<1>6. x \in table /\ x \in Row /\ y \in table /\ y \in Row /\ Exact(x) /\ Exact(y)
      /\ 1 \in DOMAIN e /\ Len(e) \in DOMAIN e
  BY <1>4
<1> HIDE DEF x, y
<1>8. \A r \in table : r \in Hits(p.prev, TRUE) <=> Earlier(r, y, FALSE)
  <2> SUFFICES ASSUME NEW r \in table PROVE r \in Hits(p.prev, TRUE) <=> Earlier(r, y, FALSE)
    OBVIOUS
  <2>1. p.prev # None /\ p.prev # Malformed
    BY <1>2, CursorIsSome
  <2>2. r \in Hits(p.prev, TRUE) <=> buildSeek(r, DecodeCursor(p.prev), TRUE)
    BY <2>1 DEF Hits
  <2>3. r \in Row /\ y.a <= MaxExact /\ y.id <= MaxExact
    BY <1>6 DEF Exact
  <2>4. buildSeek(r, DecodeCursor(EncodeCursor(y)), TRUE) <=> Earlier(y, r, TRUE)
    BY <1>6, <2>3, SeekIsOrder
  <2>5. Earlier(y, r, TRUE) <=> Earlier(r, y, FALSE)
    BY <1>r, <1>6, <2>3
  <2> QED
    BY <1>2, <2>2, <2>4, <2>5
<1>11. Hits(p.prev, TRUE) = H
  <2>1. Hits(p.prev, TRUE) \subseteq table
    BY DEF Hits
  <2>2. ASSUME NEW r \in table PROVE Earlier(r, y, FALSE) <=> (r = x \/ Earlier(r, x, FALSE))
    <3>0. r \in Row
      OBVIOUS
    <3>1. ASSUME r = x \/ Earlier(r, x, FALSE) PROVE Earlier(r, y, FALSE)
      BY <1>o, <1>6, <1>f, <3>0, <3>1
    <3>2. ASSUME Earlier(x, r, FALSE) PROVE ~Earlier(r, y, FALSE)
      BY <1>o, <1>6, <1>f, <3>0, <3>2
    <3> QED
      BY <1>o, <1>6, <3>0, <3>1, <3>2
  <2> QED
    BY <1>8, <2>1, <2>2
<1>12. H \subseteq Row /\ x \in H
  BY <1>6
<1>13. DOMAIN e = 1..Len(e) /\ Len(e) \in Nat /\ DOMAIN g = 1..Len(g) /\ Len(g) \in Nat /\ limit \in Nat
  <2>1. e \in Seq(Row) /\ g \in Seq(Row)
    BY <1>1, <1>5
  <2>2. DOMAIN e = 1..Len(e) /\ Len(e) \in Nat /\ DOMAIN g = 1..Len(g) /\ Len(g) \in Nat
    BY ONLY <2>1
  <2>3. limit \in Nat
    BY DEF KeysetConstants
  <2> QED
    BY <2>2, <2>3
<1>14. \A m \in DOMAIN e : e[m] \in table /\ e[m] \in H
  <2> SUFFICES ASSUME NEW m \in DOMAIN e PROVE e[m] \in table /\ e[m] \in H
    OBVIOUS
  <2>1. e[m] \in table
    BY <1>1
  <2>2. m = Len(e) \/ m < Len(e)
    BY <1>13
  <2>3. e[m] = x \/ Earlier(e[m], x, FALSE)
    BY <1>1, <1>6, <2>2 DEF x, Increasing
  <2> QED
    BY <2>1, <2>3
<1>15. A \subseteq H /\ B \subseteq H
  <2>1. A \subseteq H
    BY <1>13, <1>14
  <2>2. g \in Seq(H)
    BY <1>5, <1>11
  <2> HIDE DEF H
  <2>3. \A m \in 1..Len(g) : g[m] \in H
    BY <2>2
  <2> QED
    BY <2>1, <2>3
<1>16. ASSUME NEW m \in DOMAIN e PROVE e[m] = e[1] \/ Earlier(e[1], e[m], FALSE)
  <2>1. m = 1 \/ 1 < m
    BY <1>13
  <2> QED
    BY <1>1, <1>6, <2>1 DEF Increasing
<1>17. ASSUME NEW t \in H, t = e[1] \/ Earlier(e[1], t, FALSE) PROVE t \in A
  <2>1. t = e[1] \/ t = x \/ \E n \in DOMAIN e : e[n] = t
    BY <1>1, <1>17
  <2> QED
    BY <1>6, <1>13, <2>1 DEF x
<1>18. \A r \in A, t \in H : Earlier(r, t, FALSE) => t \in A
  <2> SUFFICES ASSUME NEW m \in DOMAIN e, NEW t \in H, Earlier(e[m], t, FALSE) PROVE t \in A
    BY <1>13
  <2>1. e[m] \in Row /\ e[1] \in Row /\ t \in Row
    BY <1>6, <1>12, <1>14
  <2>2. Earlier(e[1], t, FALSE)
    BY <1>o, <1>16, <2>1
  <2> QED
    BY <1>17, <2>2
<1>19. \A r \in B, t \in H : Earlier(r, t, FALSE) => t \in B
  <2> SUFFICES ASSUME NEW m \in DOMAIN g, NEW t \in H, Earlier(g[m], t, FALSE), t \notin B PROVE FALSE
    BY <1>13
  <2>1. ~(\E n \in DOMAIN g : g[n] = t)
    BY <1>13
  <2>2. g # << >> /\ Earlier(t, g[1], FALSE) /\ 1 \in DOMAIN g
    <3>1. t \in Hits(p.prev, TRUE)
      BY <1>11
    <3>2. g # << >> /\ Earlier(t, g[1], FALSE)
      BY <1>5, <2>1, <3>1
    <3> QED
      <4>1. g \in Seq(Row) /\ g # << >>
        BY <1>5, <3>2
      <4>2. 1 \in DOMAIN g
        BY ONLY <4>1
      <4> QED
        BY <3>2, <4>2
  <2>3. g[m] \in Row /\ g[1] \in Row /\ t \in Row
    BY <1>5, <1>12, <2>2
  <2>4. m = 1 \/ 1 < m
    BY <1>13
  <2>5. g[m] = g[1] \/ Earlier(g[1], g[m], FALSE)
    BY <1>5, <2>2, <2>4 DEF Increasing
  <2> QED
    BY <1>o, <2>2, <2>3, <2>5
<1>20. Cardinality(A) = Len(e) /\ Cardinality(B) = Len(g)
  <2>1. Len(e) <= Len(e) /\ Len(g) <= Len(g)
    BY <1>13
  <2>2. \A n \in Nat : n <= Len(e) => Cardinality({e[m] : m \in 1..n}) = n
    BY <1>1, IncreasingCount
  <2>3. \A n \in Nat : n <= Len(g) => Cardinality({g[m] : m \in 1..n}) = n
    BY <1>5, IncreasingCount
  <2> QED
    BY <1>13, <2>1, <2>2, <2>3
<1>21. IsFiniteSet(A) /\ IsFiniteSet(B)
  <2>1. A \subseteq Row /\ B \subseteq Row
    BY <1>12, <1>15
  <2> QED
    BY <2>1, RowsFinite, FS_Subset
<1>22. A = {e[n] : n \in DOMAIN e} /\ B = {g[n] : n \in DOMAIN g}
  BY <1>13
<1>23. (\A r \in table : ~Earlier(r, e[1], FALSE)) => H \subseteq A
  <2> SUFFICES ASSUME \A r \in table : ~Earlier(r, e[1], FALSE), NEW t \in H PROVE t \in A
    OBVIOUS
  <2>1. t \in table /\ t \in Row /\ e[1] \in Row
    BY <1>6, <1>12, <1>14
  <2> QED
    BY <1>o, <1>17, <2>1
<1>24. Len(g) # limit => H \subseteq B
  BY <1>5, <1>11, <1>13
<1>25. A \subseteq B \/ B \subseteq A
  <2> HIDE DEF A, B, H
  <2> QED
    BY <1>12, <1>15, <1>18, <1>19, EndsNested
<1> HIDE DEF A, B, H
<1>26. A = B
  <2>1. CASE A \subseteq B
    <3>1. CASE Len(e) = limit
      <4>1. Cardinality(A) = Cardinality(B)
        <5>1. Cardinality(A) <= Cardinality(B)
          BY <1>21, <2>1, FS_Subset
        <5>2. Len(g) <= limit /\ Len(e) <= Len(g)
          BY <1>5, <1>20, <5>1
        <5>3. Len(e) \in Nat /\ Len(g) \in Nat /\ limit \in Nat
          BY <1>13
        <5>4. Len(e) = Len(g)
          BY <3>1, <5>2, <5>3
        <5> QED
          BY <1>20, <5>4
      <4> QED
        BY <1>21, <2>1, <4>1, FS_Subset
    <3>2. CASE Len(e) # limit
      BY <1>1, <1>15, <1>23, <2>1, <3>2
    <3> QED
      BY <3>1, <3>2
  <2>2. CASE B \subseteq A
    <3>1. CASE Len(g) = limit
      <4>1. Cardinality(A) = Cardinality(B)
        <5>1. Cardinality(B) <= Cardinality(A)
          BY <1>21, <2>2, FS_Subset
        <5>2. Len(e) <= limit /\ Len(g) <= Len(e)
          BY <1>1, <1>20, <5>1
        <5>3. Len(e) \in Nat /\ Len(g) \in Nat /\ limit \in Nat
          BY <1>13
        <5>4. Len(e) = Len(g)
          BY <3>1, <5>2, <5>3
        <5> QED
          BY <1>20, <5>4
      <4> QED
        BY <1>21, <2>2, <4>1, FS_Subset
    <3>2. CASE Len(g) # limit
      BY <1>15, <1>24, <2>2, <3>2
    <3> QED
      BY <3>1, <3>2
  <2> QED
    BY <1>25, <2>1, <2>2
<1>27. e = Sorted(A, FALSE) /\ g = Sorted(B, FALSE)
  BY <1>1, <1>5, <1>22, IncreasingIsSorted
<1>28. e = g
  BY <1>26, <1>27
<1>29. o.next = EncodeCursor(x)
  BY <1>1, <1>5, <1>28 DEF x
<1> QED
  BY <1>1, <1>28, <1>29 DEF e, g

\* While the table is as the page was fetched from it, the page is one of it; the
\* page before it, if nothing changed since, led to it.
BackInv ==
    /\ table \subseteq Row /\ Directions /\ limit \in Limits /\ Len(page.data) <= limit
    /\ page.next # None => RowCursor(page.next)
    /\ page.prev # None => RowCursor(page.prev)
    /\ fresh => Good(page)
    /\ came # NoPage =>
          /\ Good(page) /\ Good(came) /\ came.next # None
          /\ Follows(came, page)
          /\ page.data # << >> => walked # << >>

\* A query with one of the cursors a client has, for either direction, restores it.
LEMMA FetchKeeps ==
    ASSUME KeysetConstants, BackInv, NEW c, c = None \/ c = Malformed \/ RowCursor(c), NEW b \in BOOLEAN,
           page' = Page(c, b), fresh' = TRUE, UNCHANGED <<table, desc, limit>>,
           \/ came' = NoPage
           \/ /\ came' = page /\ fresh /\ page.next # None /\ c = page.next /\ b = FALSE
              /\ page'.data # << >> => walked' # << >>
    PROVE  BackInv'
<1>1. table \subseteq Row /\ Directions /\ limit \in Limits /\ (fresh => Good(page))
  BY DEF BackInv
<1>2. /\ Good(page')
      /\ page'.next # None => RowCursor(page'.next)
      /\ page'.prev # None => RowCursor(page'.prev)
  BY <1>1, PageGood
<1>3. \A r, t : Earlier(r, t, FALSE)' <=> Earlier(r, t, FALSE)
  BY DEF Earlier, Beyond
<1>4. Directions' /\ (table \subseteq Row)' /\ (limit \in Limits)'
  BY <1>1 DEF Directions
<1>5. Good(page)' /\ (Len(page.data) <= limit)'
  BY <1>2, <1>3 DEF Good, Increasing
<1>6. (page.next # None => RowCursor(page.next))' /\ (page.prev # None => RowCursor(page.prev))'
  BY <1>2 DEF RowCursor
<1>7. ASSUME came' # NoPage
      PROVE  (Good(came) /\ came.next # None /\ Follows(came, page)
                /\ (page.data # << >> => walked # << >>))'
  <2>1. came' = page /\ Good(page) /\ page.next # None /\ page' = Page(page.next, FALSE)
    BY <1>1, <1>7
  <2>2. Good(came)'
    BY <1>3, <2>1 DEF Good, Increasing
  <2>3. Follows(came, page)'
    <3>1. Follows(page, page')
      BY <1>1, <2>1, NextFollows
    <3> QED
      BY <1>3, <2>1, <3>1 DEF Follows, Exact
  <2> QED
    BY <1>7, <2>1, <2>2, <2>3
<1> QED
  BY <1>4, <1>5, <1>6, <1>7 DEF BackInv

\* A walk is empty only if its parts are.
LEMMA BothEmpty ==
    ASSUME NEW Q, NEW v \in Seq(Q), NEW w \in Seq(Q), v \o w = << >>
    PROVE  v = << >> /\ w = << >>
<1>1. Len(v \o w) = Len(v) + Len(w) /\ Len(v) \in Nat /\ Len(w) \in Nat
  OBVIOUS
<1>2. Len(<< >>) = 0
  OBVIOUS
<1>3. Len(v) = 0 /\ Len(w) = 0
  BY <1>1, <1>2
<1> QED
  BY <1>3

\* Every step keeps it.
LEMMA BackStep ==
    ASSUME KeysetConstants, WalkInv, BackInv, [KeysetNext]_keysetVars
    PROVE  BackInv'
<1>1. ASSUME NEW c \in {None, Malformed}, First(c) PROVE BackInv'
  <2>1. page' = Page(c, FALSE) /\ fresh' = TRUE /\ UNCHANGED <<table, desc, limit>> /\ came' = NoPage
    BY <1>1 DEF First, Fetch, config, Page
  <2> QED
    BY <2>1, FetchKeeps
<1>2. ASSUME NextPage PROVE BackInv'
  <2>1. /\ page' = Page(page.next, FALSE) /\ fresh' = TRUE /\ UNCHANGED <<table, desc, limit>>
        /\ came' = (IF fresh THEN page ELSE NoPage) /\ page.next # None /\ walked' = walked \o page'.data
    BY <1>2 DEF NextPage, Fetch, config, Page
  <2>2. RowCursor(page.next)
    BY <2>1 DEF BackInv
  <2>3. page'.data # << >> => walked' # << >>
    <3>1. InOrder(page.next, FALSE, page', page'.data)
      BY <2>1, PageOrder DEF BackInv
    <3>2. page'.data \in Seq(Row) /\ walked \in Seq(Row)
      BY <3>1 DEF InOrder, WalkInv, WalkTypes
    <3> QED
      BY <2>1, <3>2, BothEmpty
  <2> QED
    BY <2>1, <2>2, <2>3, FetchKeeps
<1>3. ASSUME PrevPage PROVE BackInv'
  <2>1. /\ page' = Page(page.prev, TRUE) /\ fresh' = TRUE /\ UNCHANGED <<table, desc, limit>> /\ came' = NoPage
        /\ page.prev # None
    BY <1>3 DEF PrevPage, Fetch, config, Page
  <2>2. RowCursor(page.prev)
    BY <2>1 DEF BackInv
  <2> QED
    BY <2>1, <2>2, FetchKeeps
<1>4. ASSUME \E r \in Row : Insert(r) \/ Delete(r) PROVE BackInv'
  <2>1. /\ table' \subseteq Row /\ fresh' = FALSE /\ came' = NoPage /\ UNCHANGED <<desc, limit, page>>
    BY <1>4 DEF Insert, Delete, config, BackInv
  <2> QED
    BY <2>1 DEF BackInv, Directions, RowCursor
<1>5. ASSUME UNCHANGED keysetVars PROVE BackInv'
  <2>1. UNCHANGED <<table, desc, limit, page, walked, fresh, came>>
    BY <1>5 DEF keysetVars, config
  <2>2. \A r, t : Earlier(r, t, FALSE)' <=> Earlier(r, t, FALSE)
    BY <2>1 DEF Earlier, Beyond
  <2>3. (Good(page) => Good(page)') /\ (Good(came) => Good(came)')
    BY <2>1, <2>2 DEF Good, Increasing
  <2>4. Follows(came, page) => Follows(came, page)'
    BY <2>1, <2>2 DEF Follows, Exact
  <2> QED
    BY <2>1, <2>3, <2>4 DEF BackInv, Directions, RowCursor
<1> QED
  BY <1>1, <1>2, <1>3, <1>4, <1>5 DEF KeysetNext

\* Fetching pages, inserting and deleting keep both (Keyset, NewCursorPage).
THEOREM PagesInductive == KeysetSpec => [](WalkInv /\ BackInv)
<1> USE ConstantsHold
<1>1. KeysetInit => WalkInv /\ BackInv
  <2> SUFFICES ASSUME KeysetInit PROVE WalkInv /\ BackInv
    OBVIOUS
  <2>1. DOMAIN Columns = 1..2
    BY DEF Columns
  <2>2. Directions
    BY <2>1 DEF KeysetInit, Directions
  <2> QED
    <3>1. limit \in Nat /\ Len(<< >>) = 0
      BY DEF KeysetInit, KeysetConstants
    <3> QED
      BY <2>2, <3>1 DEF KeysetInit, NoPage, WalkInv, WalkTypes, WalkOrder, BackInv
<1>2. WalkInv /\ BackInv /\ [KeysetNext]_keysetVars => WalkInv' /\ BackInv'
  BY WalkStep, BackStep
<1> QED
  BY <1>1, <1>2, PTL DEF KeysetSpec

\* TypeOK of Keyset: a page has at most limit rows, the trimmed extra row not among
\* them (NewCursorPage).
THEOREM KeysetTypeCorrect == KeysetSpec => []KeysetTypeOK
<1> USE ConstantsHold
<1>1. WalkInv /\ BackInv => KeysetTypeOK
  BY DEF WalkInv, WalkTypes, BackInv, KeysetTypeOK
<1> QED
  BY <1>1, PagesInductive, PTL

\* Back from the page a client has just gone to is the page it came from, rows and
\* next cursor, as long as the table did not change (NewCursorPage, Keyset): for
\* every table, directions and limits, as long as the values fit a float64.
THEOREM BackReturnsTheorem == KeysetSpec => BackReturns
<1> USE ConstantsHold
<1>1. ASSUME WalkInv, BackInv, [KeysetNext]_keysetVars
      PROVE  [Precise /\ came # NoPage /\ page.prev # None /\ page' # page /\ walked' = << >> =>
                 page'.data = came.data /\ page'.next = came.next]_keysetVars
  <2> SUFFICES ASSUME KeysetNext, Precise, came # NoPage, page.prev # None, page' # page, walked' = << >>
               PROVE  page'.data = came.data /\ page'.next = came.next
    BY <1>1
  <2>1. /\ table \subseteq Row /\ Directions /\ limit \in Limits
        /\ Good(page) /\ Good(came) /\ came.next # None /\ Follows(came, page)
        /\ page.data # << >> => walked # << >>
    BY <1>1 DEF BackInv
  <2>2. page.data # << >> /\ page.data \in Seq(table) /\ walked # << >>
    BY <2>1 DEF Good
  <2>3. table # {}
    BY <2>2
  <2>4. ~(\E c \in {None, Malformed} : First(c))
    <3> SUFFICES ASSUME NEW c \in {None, Malformed}, First(c) PROVE FALSE
      OBVIOUS
    <3>1. page' = Page(c, FALSE) /\ page'.data = << >>
      BY DEF First, Fetch, Page
    <3>2. InOrder(c, FALSE, page', page'.data)
      BY <2>1, <3>1, PageOrder
    <3>3. Hits(c, FALSE) = table
      BY DEF Hits
    <3> QED
      BY <2>3, <3>1, <3>2, <3>3 DEF InOrder
  <2>5. ~NextPage
    <3> SUFFICES ASSUME NextPage PROVE FALSE
      OBVIOUS
    <3>1. page' = Page(page.next, FALSE) /\ walked' = walked \o page'.data
      BY DEF NextPage, Fetch, Page
    <3>2. InOrder(page.next, FALSE, page', page'.data)
      BY <2>1, <3>1, PageOrder
    <3>3. page'.data \in Seq(Row) /\ walked \in Seq(Row)
      BY <1>1, <3>2 DEF InOrder, WalkInv, WalkTypes
    <3> QED
      BY <2>2, <3>1, <3>3, BothEmpty
  <2>6. PrevPage
    BY <2>4, <2>5 DEF KeysetNext, Insert, Delete
  <2>7. page' = Page(page.prev, TRUE)
    BY <2>6 DEF PrevPage, Fetch, Page
  <2>8. \A r \in table : Exact(r)
    BY DEF Precise, Exact
  <2> QED
    BY <2>1, <2>7, <2>8, BackIs
<1> QED
  BY <1>1, PagesInductive, PTL DEF KeysetSpec, BackReturns
=============================================================================
