----------------------------- MODULE AppProofs -----------------------------
(***************************************************************************)
(* The safety properties of module App, for any modules, checks, hooks and *)
(* times.                                                                  *)
(***************************************************************************)
EXTENDS App, TLAPS

\* What Mount may collect, and what a report may say of it.
AllChecks == {Gate} \cup Checkers
NamesOf(S) == {Name[c] : c \in S}
Details == UNION {[N -> {"ok", "error", "timeout"}] : N \in SUBSET NamesOf(AllChecks)}
Probes ==
    [at : {"run", "report"}, snapshot : SUBSET AllChecks, running : SUBSET AllChecks,
     passed : SUBSET AllChecks, ch : SUBSET (AllChecks \X BOOLEAN), detail : Details, ok : BOOLEAN, timer : 0..CheckTime]

Over == {"shutdown", "cleanup", "returned"}

Types ==
    /\ phase \in {"build", "serve", "listenErr", "pre", "drain"} \cup Over
    /\ left \in 0..Timeout /\ drain \in 0..DrainDelay /\ hook \in Nat \ {0}
    /\ inflight \in 0..MaxInflight /\ due \in 0..ProbeEvery
    /\ errs \in BOOLEAN /\ gate \in BOOLEAN /\ missed \in BOOLEAN /\ db \in BOOLEAN
    /\ listener \in {"none", "starting", "up", "failed", "closed"}
    /\ routed \in BOOLEAN /\ cut \in BOOLEAN /\ refused \in BOOLEAN
    /\ Gate \in checks /\ checks \subseteq AllChecks
    /\ probe = NoProbe \/ probe \in Probes

\* Nobody is served before the listener is up; it is closed by the shutdown only, and
\* is open after that only if the shutdown missed it.
ListenInv ==
    /\ phase = "build" => listener = "none"
    /\ listener = "none" => phase = "build"
    /\ listener \in {"none", "starting"} => ~routed /\ probe = NoProbe
    /\ listener = "closed" => phase \in Over
    /\ phase \in Over /\ listener \in {"starting", "up"} => missed

\* The database is closed in the cleanup only, and that begins when the requests
\* have ended or the context has, unless the shutdown missed the listener.
DbInv ==
    /\ ~db => phase \in {"cleanup", "returned"}
    /\ phase \in {"cleanup", "returned"} => inflight = 0 \/ left = 0 \/ missed

\* Every check of a probe's snapshot runs, waits in the channel or is in the report.
CollectInv ==
    probe # NoProbe =>
        /\ Gate \in probe.snapshot /\ probe.running \subseteq probe.snapshot
        /\ \A r \in probe.ch : r[1] \in probe.snapshot
        /\ DOMAIN probe.detail \subseteq NamesOf(probe.snapshot)
        /\ \A c \in probe.snapshot :
              \/ c \in probe.running \/ \E r \in probe.ch : r[1] = c
              \/ Name[c] \in DOMAIN probe.detail
        /\ probe.at = "report" => DOMAIN probe.detail = NamesOf(probe.snapshot)

\* A pre-shutdown hook that closes the gate has done so when it has run; the loop
\* over the hooks and the drain's timer begin at their beginning.
GateInv ==
    /\ phase \in {"build", "serve"} => hook = 1
    /\ phase \in {"build", "serve", "pre"} => drain = DrainDelay
    /\ phase = "pre" /\ gate =>
          \A i \in 1..Len(PreShutdown) : i < hook => PreShutdown[i] # Gate
    /\ phase \in {"drain"} \cup Over /\ Gate \in Range(PreShutdown) => ~gate

\* The probe under way may still find the server ready: it asked the gate before the
\* gate was closed, and nothing has failed yet.
Tainted ==
    \/ /\ probe.at = "run" /\ probe.ok
       /\ Gate \notin probe.running /\ <<Gate, FALSE>> \notin probe.ch
    \/ probe.at = "report" /\ probe.ok

\* The balancer has stopped routing and no probe makes it begin again.
Settled == ~routed /\ ~Tainted

\* How long at most until the balancer is settled, with the gate closed.
Wait ==
    CASE probe = NoProbe        -> due + CheckTime
      [] probe.at = "run"       -> probe.timer + (IF Tainted THEN ProbeEvery + CheckTime ELSE 0)
      [] probe.at = "report"    -> IF Tainted THEN ProbeEvery + CheckTime ELSE 0

\* The drain is as far on as the balancer's way to settling.
DrainInv ==
    /\ phase = "drain" /\ ~gate =>
          Settled \/ Wait + (DrainDelay - drain) <= ProbeEvery + 2 * CheckTime
    /\ Gate \in Range(PreShutdown) /\ DrainDelay > ProbeEvery + 2 * CheckTime =>
          /\ phase \in Over => cut \/ Settled
          /\ refused => (phase \in Over /\ cut) \/ listener = "failed"

IInv == Types /\ ListenInv /\ DbInv /\ CollectInv /\ GateInv /\ DrainInv

-----------------------------------------------------------------------------
(* Probes. *)

\* The results of some checks are details of a report.
LEMMA DetailType ==
    ASSUME NEW N \in SUBSET NamesOf(AllChecks), NEW f \in [N -> {"ok", "error", "timeout"}]
    PROVE  f \in Details
BY DEF Details

\* Details are results by the name of a check.
LEMMA DetailOf ==
    ASSUME NEW f \in Details
    PROVE  /\ DOMAIN f \subseteq NamesOf(AllChecks)
           /\ f \in [DOMAIN f -> {"ok", "error", "timeout"}]
BY DEF Details

\* The fields of a probe.
LEMMA ProbeFields ==
    ASSUME NEW p \in Probes
    PROVE  /\ p # NoProbe /\ p.at \in {"run", "report"}
           /\ p.snapshot \subseteq AllChecks /\ p.running \subseteq AllChecks
           /\ p.passed \subseteq AllChecks
           /\ p.ch \subseteq AllChecks \X BOOLEAN /\ p.detail \in Details
           /\ p.ok \in BOOLEAN /\ p.timer \in 0..CheckTime
<1>1. p.at \in {"run", "report"}
  BY DEF Probes
<1>2. NoProbe.at = "idle"
  BY DEF NoProbe
<1> QED
  BY <1>1, <1>2 DEF Probes

\* The report with one more result.
LEMMA NotedFacts ==
    ASSUME probe \in Probes, NEW r \in AllChecks \X BOOLEAN
    PROVE  /\ DOMAIN Noted(r) = DOMAIN probe.detail \cup {Name[r[1]]}
           /\ \A n \in DOMAIN Noted(r) :
                 Noted(r)[n] = IF n = Name[r[1]] THEN Msg(r[2]) ELSE probe.detail[n]
           /\ Noted(r) \in Details
<1> DEFINE d == probe.detail
           m == Name[r[1]]
<1>1. d \in Details /\ DOMAIN d \subseteq NamesOf(AllChecks)
      /\ d \in [DOMAIN d -> {"ok", "error", "timeout"}]
  BY ProbeFields, DetailOf
<1>2. m \in NamesOf(AllChecks) /\ Msg(r[2]) \in {"ok", "error", "timeout"}
  BY DEF NamesOf, Msg
<1>3. Noted(r) = [n \in DOMAIN d \cup {m} |-> IF n = m THEN Msg(r[2]) ELSE d[n]]
  BY DEF Noted
<1> HIDE DEF d, m
<1>4. Noted(r) \in [DOMAIN d \cup {m} -> {"ok", "error", "timeout"}]
  BY <1>1, <1>2, <1>3
<1>5. Noted(r) \in Details
  BY <1>1, <1>2, <1>4, DetailType
<1> QED
  BY <1>3, <1>5 DEF d, m

\* What a step of the probe must keep when the lifecycle stands still.
ProbeKeeps ==
    /\ due' \in 0..ProbeEvery /\ routed' \in BOOLEAN /\ (probe' = NoProbe \/ probe' \in Probes)
    /\ CollectInv'
    /\ ~gate => (Settled => Settled') /\ (Settled' \/ Wait' <= Wait)

\* /readyz begins.
LEMMA ProbeOK ==
    ASSUME Types, CollectInv, Probe
    PROVE  ProbeKeeps
<1>1. probe = NoProbe /\ due = 0 /\ probe.at = "idle"
  BY DEF Probe, NoProbe
<1>2. CASE listening
  <2> DEFINE p == [at |-> "run", snapshot |-> checks, running |-> checks, passed |-> {},
                   ch |-> {}, detail |-> << >>, ok |-> TRUE, timer |-> CheckTime]
  <2>1. probe' = p /\ UNCHANGED <<routed, due>>
    BY <1>2 DEF Probe
  <2>2. DOMAIN << >> = {} /\ << >> \in [{} -> {"ok", "error", "timeout"}]
    OBVIOUS
  <2>3. << >> \in Details
    BY <2>2, DetailType
  <2>4. CheckTime \in 0..CheckTime /\ CheckTime \in Nat /\ checks \subseteq AllChecks /\ Gate \in checks
    BY TimeAssumption DEF Types
  <2>5. p \in Probes
    BY <2>3, <2>4 DEF Probes
  <2>6. /\ probe'.at = "run" /\ probe'.snapshot = checks /\ probe'.running = checks
        /\ probe'.ch = {} /\ probe'.detail = << >> /\ probe'.ok = TRUE /\ probe'.timer = CheckTime
        /\ probe' # NoProbe
    BY <2>1, <2>5, ProbeFields
  <2> HIDE DEF p
  <2>7. CollectInv'
    BY <2>2, <2>4, <2>6 DEF CollectInv
  <2>8. ~Tainted' /\ ~Tainted
    BY <1>1, <2>4, <2>6 DEF Tainted
  <2>9. Wait' = CheckTime /\ Wait = 0 + CheckTime
    BY <1>1, <2>4, <2>6, <2>8 DEF Wait
  <2> QED
    BY <2>1, <2>4, <2>5, <2>7, <2>8, <2>9 DEF ProbeKeeps, Settled, Types
<1>3. CASE ~listening
  <2>1. routed' = FALSE /\ due' = ProbeEvery /\ probe' = NoProbe /\ probe'.at = "idle"
    BY <1>1, <1>3 DEF Probe
  <2>2. ~Tainted'
    BY <2>1 DEF Tainted
  <2>3. ProbeEvery \in 0..ProbeEvery
    BY TimeAssumption
  <2> QED
    BY <2>1, <2>2, <2>3 DEF ProbeKeeps, Settled, CollectInv
<1> QED
  BY <1>2, <1>3 DEF Types

\* A check returns.
LEMMA CheckReturnsOK ==
    ASSUME Types, CollectInv, NEW c, CheckReturns(c)
    PROVE  ProbeKeeps
<1>1. probe.at = "run" /\ c \in probe.running /\ UNCHANGED <<routed, due, gate>>
  BY DEF CheckReturns, lifecycle
<1>2. probe \in Probes
  BY <1>1 DEF Types, NoProbe
<1>3. PICK ok \in BOOLEAN :
        /\ c = Gate => ok = gate
        /\ probe' = [probe EXCEPT !.running = @ \ {c}, !.ch = @ \cup {<<c, ok>>},
                                  !.passed = IF ok THEN @ \cup {c} ELSE @]
  BY DEF CheckReturns
<1>4. c \in AllChecks /\ c \in probe.snapshot /\ probe # NoProbe
  BY <1>1, <1>2, ProbeFields DEF CollectInv
<1>5. /\ probe' \in Probes /\ probe' # NoProbe
      /\ probe'.at = "run" /\ probe'.snapshot = probe.snapshot
      /\ probe'.running = probe.running \ {c} /\ probe'.ch = probe.ch \cup {<<c, ok>>}
      /\ probe'.detail = probe.detail /\ probe'.ok = probe.ok /\ probe'.timer = probe.timer
  <2> DEFINE R == probe.running \ {c}
             B == probe.ch \cup {<<c, ok>>}
             P == IF ok THEN probe.passed \cup {c} ELSE probe.passed
  <2>1. R \in SUBSET AllChecks /\ P \in SUBSET AllChecks
    BY <1>2, <1>4, ProbeFields
  <2>2. B \in SUBSET (AllChecks \X BOOLEAN)
    BY <1>2, <1>4, ProbeFields
  <2>3. probe' = [probe EXCEPT !.running = R, !.ch = B, !.passed = P]
    BY <1>3
  <2> HIDE DEF R, B, P
  <2>4. /\ probe' \in Probes
        /\ probe'.at = "run" /\ probe'.snapshot = probe.snapshot
        /\ probe'.running = R /\ probe'.ch = B
        /\ probe'.detail = probe.detail /\ probe'.ok = probe.ok /\ probe'.timer = probe.timer
    BY <1>1, <1>2, <2>1, <2>2, <2>3 DEF Probes
  <2> QED
    BY <2>4, ProbeFields DEF R, B
<1>6. CollectInv'
  <2>1. /\ Gate \in probe.snapshot /\ probe.running \subseteq probe.snapshot
        /\ \A r \in probe.ch : r[1] \in probe.snapshot
        /\ DOMAIN probe.detail \subseteq NamesOf(probe.snapshot)
        /\ \A x \in probe.snapshot :
              \/ x \in probe.running \/ \E r \in probe.ch : r[1] = x
              \/ Name[x] \in DOMAIN probe.detail
    BY <1>4 DEF CollectInv
  <2>2. <<c, ok>> \in probe'.ch /\ <<c, ok>>[1] = c
    BY <1>5
  <2>3. \A x \in probe.snapshot :
              \/ x \in probe'.running \/ \E r \in probe'.ch : r[1] = x
              \/ Name[x] \in DOMAIN probe.detail
    BY <1>5, <2>1, <2>2
  <2>4. probe'.running \subseteq probe.snapshot /\ \A r \in probe'.ch : r[1] \in probe.snapshot
    BY <1>4, <1>5, <2>1, <2>2
  <2> QED
    BY <1>5, <2>1, <2>3, <2>4 DEF CollectInv, NamesOf
<1>7. ~gate => (Tainted' <=> Tainted)
  <2>1. CASE c = Gate
    BY <1>1, <1>3, <1>5, <2>1 DEF Tainted
  <2>2. CASE c # Gate
    BY <1>1, <1>5, <2>2 DEF Tainted
  <2> QED
    BY <2>1, <2>2
<1>8. ~gate => Wait' = Wait /\ Wait \in Int
  <2>1. probe.timer \in Nat
    BY <1>2, ProbeFields, TimeAssumption
  <2> QED
    BY <1>1, <1>4, <1>5, <1>7, <2>1, TimeAssumption DEF Wait
<1> QED
  BY <1>1, <1>5, <1>6, <1>7, <1>8 DEF ProbeKeeps, Settled, Types

\* What CollectInv says of a probe.
LEMMA Collected ==
    ASSUME probe # NoProbe, CollectInv
    PROVE  /\ Gate \in probe.snapshot /\ probe.running \subseteq probe.snapshot
           /\ \A r \in probe.ch : r[1] \in probe.snapshot
           /\ DOMAIN probe.detail \subseteq NamesOf(probe.snapshot)
           /\ \A x \in probe.snapshot :
                 \/ x \in probe.running \/ \E r \in probe.ch : r[1] = x
                 \/ Name[x] \in DOMAIN probe.detail
BY DEF CollectInv

\* The loop of runChecks receives a result.
LEMMA CollectOK ==
    ASSUME Types, CollectInv, NEW r, Collect(r)
    PROVE  ProbeKeeps
<1> DEFINE B == probe.ch \ {r}
           D == Noted(r)
           K == probe.ok /\ r[2]
           T == IF probe.ch = {r} /\ probe.running = {} THEN "report" ELSE "run"
<1>1. probe.at = "run" /\ r \in probe.ch /\ UNCHANGED <<routed, due, gate>>
  BY DEF Collect, lifecycle
<1>2. probe \in Probes /\ probe # NoProbe
  BY <1>1 DEF Types, NoProbe
<1>3. /\ r \in AllChecks \X BOOLEAN /\ r = <<r[1], r[2]>> /\ r[2] \in BOOLEAN
      /\ r[1] \in probe.snapshot
  BY <1>1, <1>2, ProbeFields DEF CollectInv
<1>4. probe' = [probe EXCEPT !.ch = B, !.detail = D, !.ok = K, !.at = T]
  BY DEF Collect
<1>5. B \in SUBSET (AllChecks \X BOOLEAN) /\ T \in {"run", "report"}
  BY <1>2, ProbeFields
<1>6. /\ D \in Details /\ DOMAIN D = DOMAIN probe.detail \cup {Name[r[1]]}
      /\ \A n \in DOMAIN D : D[n] = IF n = Name[r[1]] THEN Msg(r[2]) ELSE probe.detail[n]
  BY <1>2, <1>3, NotedFacts
<1>7. K \in BOOLEAN
  OBVIOUS
<1> HIDE DEF B, D, K, T
<1>8. /\ probe' \in Probes
      /\ probe'.at = T /\ probe'.snapshot = probe.snapshot
      /\ probe'.running = probe.running /\ probe'.ch = B
      /\ probe'.detail = D /\ probe'.ok = K /\ probe'.timer = probe.timer
  BY <1>2, <1>4, <1>5, <1>6, <1>7 DEF Probes
<1>9. probe' # NoProbe
  BY <1>8, ProbeFields
<1>10. CollectInv'
  <2>1. \A x \in probe.snapshot :
           \/ x \in probe.running \/ \E y \in B : y[1] = x
           \/ Name[x] \in DOMAIN D
    BY <1>2, <1>6, Collected DEF B
  <2>2. DOMAIN D \subseteq NamesOf(probe.snapshot)
    BY <1>2, <1>3, <1>6, Collected DEF NamesOf
  <2>4. T = "report" => probe.running = {} /\ B = {}
    BY DEF T, B
  <2>5. T = "report" => DOMAIN D = NamesOf(probe.snapshot)
    BY <2>1, <2>2, <2>4 DEF NamesOf
  <2>6. Gate \in probe.snapshot /\ probe.running \subseteq probe.snapshot
        /\ \A y \in B : y[1] \in probe.snapshot
    BY <1>2, Collected DEF B
  <2> QED
    BY <1>8, <2>1, <2>2, <2>4, <2>5, <2>6 DEF CollectInv, NamesOf
<1>11. Tainted' => Tainted
  <2>1. SUFFICES ASSUME ~Tainted PROVE ~Tainted'
    OBVIOUS
  <2>2. ~probe.ok \/ Gate \in probe.running \/ <<Gate, FALSE>> \in probe.ch
    BY <1>1, <2>1 DEF Tainted
  <2>3. CASE ~probe.ok
    BY <1>8, <2>3 DEF Tainted, K
  <2>4. CASE Gate \in probe.running
    BY <1>8, <2>4 DEF Tainted, T
  <2>5. CASE <<Gate, FALSE>> \in probe.ch
    <3>1. CASE r = <<Gate, FALSE>>
      BY <1>8, <3>1 DEF Tainted, K
    <3>2. CASE r # <<Gate, FALSE>>
      BY <1>8, <2>5, <3>2 DEF Tainted, B, T
    <3> QED
      BY <3>1, <3>2
  <2> QED
    BY <2>2, <2>3, <2>4, <2>5
<1>12. Wait' <= Wait
  <2>1. probe.timer \in Nat /\ ProbeEvery \in Nat /\ CheckTime \in Nat
    BY <1>2, ProbeFields, TimeAssumption
  <2>2. Wait = probe.timer + (IF Tainted THEN ProbeEvery + CheckTime ELSE 0)
    BY <1>1, <1>2 DEF Wait
  <2>3. Wait' = (IF T = "run" THEN probe.timer ELSE 0)
                  + (IF Tainted' THEN ProbeEvery + CheckTime ELSE 0)
    BY <1>5, <1>8, <1>9, <2>1 DEF Wait
  <2>4. CASE Tainted'
    <3>1. Tainted
      BY <1>11, <2>4
    <3> QED
      BY <2>1, <2>2, <2>3, <2>4, <3>1
  <2>5. CASE ~Tainted'
    BY <2>1, <2>2, <2>3, <2>5
  <2> QED
    BY <2>4, <2>5
<1> QED
  BY <1>1, <1>8, <1>10, <1>11, <1>12 DEF ProbeKeeps, Settled, Types

\* The overall timer of runChecks fires.
LEMMA CheckTimerOK ==
    ASSUME Types, CollectInv, CheckTimer
    PROVE  ProbeKeeps
<1> DEFINE D == TimedOut
           d == probe.detail
           N == NamesOf(probe.snapshot)
<1>1. probe.at = "run" /\ UNCHANGED <<routed, due, gate>>
  BY DEF CheckTimer, lifecycle
<1>2. probe \in Probes /\ probe # NoProbe
  BY <1>1 DEF Types, NoProbe
<1>3. probe' = [probe EXCEPT !.at = "report", !.ok = FALSE, !.detail = D]
  BY DEF CheckTimer
<1>4. D = [n \in DOMAIN d \cup N |-> IF n \in DOMAIN d THEN d[n] ELSE "timeout"]
  BY DEF TimedOut, NamesOf
<1>5. d \in [DOMAIN d -> {"ok", "error", "timeout"}] /\ DOMAIN d \subseteq N
      /\ N \subseteq NamesOf(AllChecks)
  BY <1>2, ProbeFields, DetailOf, Collected DEF NamesOf
<1> HIDE DEF d, N, D
<1>6. D \in [N -> {"ok", "error", "timeout"}]
  BY <1>4, <1>5
<1>7. D \in Details /\ DOMAIN D = N
  BY <1>5, <1>6, DetailType
<1>8. /\ probe' \in Probes
      /\ probe'.at = "report" /\ probe'.snapshot = probe.snapshot
      /\ probe'.running = probe.running /\ probe'.ch = probe.ch
      /\ probe'.detail = D /\ probe'.ok = FALSE /\ probe'.timer = probe.timer
  BY <1>2, <1>3, <1>7 DEF Probes
<1>9. CollectInv'
  <2>1. \A x \in probe.snapshot : Name[x] \in DOMAIN D
    BY <1>7 DEF N, NamesOf
  <2> QED
    BY <1>2, <1>7, <1>8, <2>1, Collected DEF CollectInv, N, NamesOf
<1>10. ~Tainted'
  BY <1>8 DEF Tainted
<1>11. Wait' = 0 /\ Wait \in Nat
  <2>1. probe.timer \in Nat /\ ProbeEvery \in Nat /\ CheckTime \in Nat /\ probe' # NoProbe
    BY <1>2, <1>8, ProbeFields, TimeAssumption
  <2> QED
    BY <1>1, <1>2, <1>8, <1>10, <2>1 DEF Wait
<1> QED
  BY <1>1, <1>8, <1>9, <1>10, <1>11 DEF ProbeKeeps, Settled, Types

\* The answer reaches the load balancer.
LEMMA ReportOK ==
    ASSUME Types, CollectInv, Report
    PROVE  ProbeKeeps
<1>1. /\ probe.at = "report" /\ routed' = probe.ok /\ due' = ProbeEvery /\ probe' = NoProbe
      /\ probe'.at = "idle"
  BY DEF Report, Answer, NoProbe
<1>2. probe \in Probes /\ probe # NoProbe /\ probe.ok \in BOOLEAN
  BY <1>1, ProbeFields DEF Types, NoProbe
<1>3. CollectInv' /\ ~Tainted' /\ ProbeEvery \in 0..ProbeEvery
  BY <1>1, TimeAssumption DEF CollectInv, Tainted
<1>4. Tainted => Wait' <= Wait
  <2>1. Wait' = ProbeEvery + CheckTime
    BY <1>1 DEF Wait
  <2>2. Tainted => Wait = ProbeEvery + CheckTime
    BY <1>1, <1>2 DEF Wait
  <2> QED
    BY <2>1, <2>2, TimeAssumption
<1>5. ~Tainted => ~routed'
  BY <1>1 DEF Tainted
<1> QED
  BY <1>1, <1>2, <1>3, <1>4, <1>5 DEF ProbeKeeps, Settled

-----------------------------------------------------------------------------
(* The invariant. *)

WaitBound == ProbeEvery + 2 * CheckTime

\* Waiting is over after a probe that asked the gate too early, an interval and one
\* more probe.
LEMMA WaitType ==
    ASSUME Types
    PROVE  Wait \in Nat /\ Wait <= WaitBound /\ WaitBound \in Nat
<1>1. due \in 0..ProbeEvery /\ ProbeEvery \in Nat /\ CheckTime \in Nat
  BY TimeAssumption DEF Types
<1>2. CASE probe = NoProbe
  <2>1. Wait = due + CheckTime
    BY <1>2 DEF Wait, NoProbe
  <2> QED
    BY <1>1, <2>1 DEF WaitBound
<1>3. CASE probe \in Probes
  <2>1. probe # NoProbe /\ probe.at \in {"run", "report"} /\ probe.timer \in 0..CheckTime
    BY <1>3, ProbeFields
  <2>2. Wait = (IF probe.at = "run" THEN probe.timer ELSE 0)
                 + (IF Tainted THEN ProbeEvery + CheckTime ELSE 0)
    BY <1>1, <2>1 DEF Wait
  <2> QED
    BY <1>1, <2>1, <2>2 DEF WaitBound
<1> QED
  BY <1>2, <1>3 DEF Types

\* What has less to wait fits into the same time.
LEMMA LessWaitFits ==
    ASSUME NEW w \in Nat, NEW v \in Nat, NEW d \in Int, NEW b \in Nat, v <= w, w + d <= b
    PROVE  v + d <= b
OBVIOUS

\* A step of the probe, the lifecycle standing still.
LEMMA ProbeStepKeeps ==
    ASSUME IInv, ProbeKeeps, listener \in {"none", "starting"} => ~routed' /\ probe' = NoProbe,
           UNCHANGED <<lifecycle, checks, inflight, refused>>
    PROVE  IInv'
<1> USE DEF IInv
<1>1. UNCHANGED <<phase, left, drain, hook, errs, gate, listener, missed, db, cut, checks, inflight, refused>>
  BY DEF lifecycle
<1>2. Types' /\ CollectInv'
  BY <1>1 DEF Types, ProbeKeeps
<1>3. ListenInv' /\ DbInv' /\ GateInv'
  BY <1>1 DEF ListenInv, DbInv, GateInv
<1>4. DrainInv'
  <2>1. Wait \in Nat /\ Wait' \in Nat /\ WaitBound \in Nat /\ drain \in Nat /\ DrainDelay \in Nat
    <3>1. Wait \in Nat /\ WaitBound \in Nat
      BY WaitType
    <3>2. (Types => Wait \in Nat)'
      BY WaitType, PTL
    <3> QED
      BY <1>2, <3>1, <3>2, TimeAssumption DEF Types
  <2>2. ASSUME phase = "drain", ~gate
        PROVE  Settled' \/ Wait' + (DrainDelay - drain) <= WaitBound
    <3>1. CASE Settled
      BY <2>2, <3>1 DEF ProbeKeeps
    <3>2. CASE ~Settled
      <4>1. Wait + (DrainDelay - drain) <= WaitBound
        BY <2>2, <3>2 DEF DrainInv, WaitBound
      <4>2. Settled' \/ Wait' <= Wait
        BY <2>2 DEF ProbeKeeps
      <4>3. ASSUME Wait' <= Wait PROVE Wait' + (DrainDelay - drain) <= WaitBound
        <5>1. DrainDelay - drain \in Int
          BY <2>1
        <5> HIDE DEF IInv
        <5> QED
          BY ONLY <2>1, <4>1, <4>3, <5>1, LessWaitFits
      <4> QED
        BY <4>2, <4>3
    <3> QED
      BY <3>1, <3>2
  <2>3. ASSUME Gate \in Range(PreShutdown), DrainDelay > WaitBound
        PROVE  /\ phase \in Over => cut \/ Settled'
               /\ refused => (phase \in Over /\ cut) \/ listener = "failed"
    <3>1. phase \in Over => ~gate
      BY <2>3 DEF GateInv
    <3> QED
      BY <2>3, <3>1 DEF DrainInv, WaitBound, ProbeKeeps
  <2> QED
    BY <1>1, <2>2, <2>3 DEF DrainInv, WaitBound
<1> QED
  BY <1>2, <1>3, <1>4

\* A step that leaves the probe and the balancer alone and is not the drain's.
LEMMA OtherKeeps ==
    ASSUME IInv, Types', ListenInv', DbInv', GateInv',
           UNCHANGED <<probe, routed, due, drain, cut>>, listener = "failed" => listener' = "failed",
           phase' \in Over => phase \in Over, phase \in Over => phase' \in Over,
           phase' = "drain" => phase = "drain" \/ drain = DrainDelay,
           gate' => gate, phase = "drain" => gate' = gate,
           refused' => refused \/ (routed /\ ~listening)
    PROVE  IInv'
<1> USE DEF IInv
<1>1. CollectInv' /\ (Settled' <=> Settled) /\ Wait' = Wait
  BY DEF CollectInv, Settled, Tainted, Wait
<1>2. Wait \in Nat /\ Wait <= WaitBound /\ WaitBound \in Nat /\ DrainDelay \in Nat
  BY WaitType, TimeAssumption
<1>3. ASSUME phase' = "drain", ~gate'
      PROVE  Settled \/ Wait + (DrainDelay - drain) <= WaitBound
  <2>1. CASE phase = "drain"
    BY <1>3, <2>1 DEF DrainInv, WaitBound
  <2>2. CASE drain = DrainDelay
    BY <1>2, <2>2
  <2> QED
    BY <1>3, <2>1, <2>2
<1>4. ASSUME Gate \in Range(PreShutdown), DrainDelay > WaitBound
      PROVE  /\ phase' \in Over => cut \/ Settled
             /\ refused' => (phase' \in Over /\ cut) \/ listener' = "failed"
  <2>1. phase' \in Over => cut \/ Settled
    BY <1>4 DEF DrainInv, WaitBound
  <2>2. routed /\ ~listening => (phase \in Over \/ listener = "failed") /\ ~Settled
    BY DEF Types, ListenInv, Settled, Over, listening
  <2> QED
    BY <1>4, <2>1, <2>2 DEF DrainInv, WaitBound
<1>5. DrainInv'
  BY <1>1, <1>3, <1>4 DEF DrainInv, WaitBound
<1> QED
  BY <1>1, <1>5

\* The end of the drain: by then the balancer is settled, or the context has cut it.
LEMMA DrainKeeps ==
    ASSUME IInv, Drain
    PROVE  IInv'
<1> USE DEF IInv
<1>1. /\ phase = "drain" /\ (drain = 0 \/ left = 0) /\ cut' = (drain > 0)
      /\ phase' = "shutdown" /\ missed' = (listener = "starting")
      /\ listener' = IF listener = "up" THEN "closed" ELSE listener
      /\ UNCHANGED <<left, drain, hook, errs, gate, db, probe, routed, due, checks, inflight, refused>>
  BY DEF Drain, health, closeListener, listening
<1>2. Types'
  <2>1. cut' \in BOOLEAN
    <3>1. (drain > 0) \in BOOLEAN
      BY SMT
    <3> QED
      BY <1>1, <3>1, Zenon
  <2>2. missed' \in BOOLEAN
    BY <1>1, Zenon
  <2> QED
    BY <1>1, <2>1, <2>2 DEF Types, Over
<1>3. CollectInv' /\ (Settled' <=> Settled)
  BY <1>1 DEF CollectInv, Settled, Tainted
<1>4. ListenInv' /\ DbInv' /\ GateInv'
  BY <1>1 DEF ListenInv, DbInv, GateInv, Over
<1>5. ASSUME Gate \in Range(PreShutdown), DrainDelay > WaitBound
      PROVE  (cut' \/ Settled) /\ (refused => listener = "failed")
  <2>1. ~gate /\ (refused => listener = "failed")
    BY <1>1, <1>5 DEF GateInv, DrainInv, WaitBound, Over
  <2>2. Settled \/ Wait + (DrainDelay - drain) <= WaitBound
    BY <1>1, <2>1 DEF DrainInv, WaitBound
  <2>3. Wait \in Nat /\ WaitBound \in Nat /\ DrainDelay \in Nat /\ drain \in Nat
    BY WaitType, TimeAssumption DEF Types
  <2>4. drain = 0 => Settled
    BY <1>5, <2>2, <2>3
  <2>5. drain > 0 => cut'
    BY <1>1
  <2> QED
    BY <2>1, <2>3, <2>4, <2>5
<1>6. DrainInv'
  BY <1>1, <1>3, <1>5 DEF DrainInv, WaitBound, Over
<1> QED
  BY <1>2, <1>3, <1>4, <1>6

\* A tick brings the balancer's answer as much nearer as the drain's end.
LEMMA TickKeeps ==
    ASSUME IInv, Tick
    PROVE  IInv'
<1> USE DEF IInv
<1>1. /\ phase \notin {"build", "listenErr", "returned"}
      /\ probe = NoProbe => due > 0
      /\ probe # NoProbe => probe.at = "run" /\ probe.timer > 0
      /\ left' = IF phase # "serve" /\ left > 0 THEN left - 1 ELSE left
      /\ drain' = IF phase = "drain" /\ drain > 0 THEN drain - 1 ELSE drain
      /\ due' = IF probe = NoProbe THEN due - 1 ELSE due
      /\ probe' = IF probe = NoProbe THEN probe ELSE [probe EXCEPT !.timer = @ - 1]
      /\ UNCHANGED <<phase, hook, errs, gate, listener, missed, db, cut, routed, checks, inflight, refused>>
  BY DEF Tick, Running
<1>2. /\ left' \in 0..Timeout /\ drain' \in 0..DrainDelay /\ due' \in 0..ProbeEvery
      /\ (left = 0 => left' = 0)
  <2>1. left \in 0..Timeout /\ drain \in 0..DrainDelay /\ due \in 0..ProbeEvery
    BY DEF Types
  <2> QED
    BY <1>1, <2>1, TimeAssumption
<1>3. /\ probe' = NoProbe \/ probe' \in Probes
      /\ CollectInv' /\ (Tainted' <=> Tainted) /\ Wait' = Wait - 1
  <2>1. CASE probe = NoProbe
    <3>1. probe' = probe /\ due' = due - 1 /\ due \in Nat
      BY <1>1, <2>1, TimeAssumption DEF Types
    <3>2. CollectInv' /\ (Tainted' <=> Tainted)
      BY <2>1, <3>1 DEF CollectInv, Tainted
    <3>3. Wait = due + CheckTime /\ Wait' = due' + CheckTime
      BY <2>1, <3>1 DEF Wait, NoProbe
    <3>4. Wait' = Wait - 1
      BY <3>1, <3>3, TimeAssumption
    <3> QED
      BY <2>1, <3>1, <3>2, <3>4
  <2>2. CASE probe \in Probes
    <3> DEFINE t == probe.timer - 1
    <3>1. /\ probe # NoProbe /\ probe.at = "run" /\ probe.timer \in 1..CheckTime
          /\ probe' = [probe EXCEPT !.timer = t]
      BY <1>1, <2>2, ProbeFields, TimeAssumption
    <3>2. t \in 0..CheckTime
      BY <3>1, TimeAssumption
    <3> HIDE DEF t
    <3>3. /\ probe' \in Probes
          /\ probe'.at = "run" /\ probe'.snapshot = probe.snapshot
          /\ probe'.running = probe.running /\ probe'.ch = probe.ch
          /\ probe'.detail = probe.detail /\ probe'.ok = probe.ok /\ probe'.timer = t
      BY <2>2, <3>1, <3>2 DEF Probes
    <3>4. probe' # NoProbe
      BY <3>3, ProbeFields
    <3>5. CollectInv'
      BY <3>1, <3>3, Collected DEF CollectInv, NamesOf
    <3>6. Tainted' <=> Tainted
      BY <3>1, <3>3 DEF Tainted
    <3>7. /\ Wait = probe.timer + (IF Tainted THEN ProbeEvery + CheckTime ELSE 0)
          /\ Wait' = t + (IF Tainted THEN ProbeEvery + CheckTime ELSE 0)
      BY <3>1, <3>3, <3>4, <3>6 DEF Wait
    <3>8. Wait' = Wait - 1
      BY <3>1, <3>7, TimeAssumption DEF t
    <3> QED
      BY <3>3, <3>5, <3>6, <3>8
  <2> QED
    BY <2>1, <2>2 DEF Types
<1>4. Types'
  BY <1>1, <1>2, <1>3 DEF Types
<1>5. ListenInv' /\ DbInv' /\ GateInv'
  <2>1. ListenInv'
    BY <1>1 DEF ListenInv, Over
  <2>2. DbInv'
    BY <1>1, <1>2 DEF DbInv
  <2>3. GateInv'
    BY <1>1 DEF GateInv
  <2> QED
    BY <2>1, <2>2, <2>3
<1>6. Settled' <=> Settled
  BY <1>1, <1>3 DEF Settled
<1>7. ASSUME phase = "drain", ~gate, ~Settled
      PROVE  Wait' + (DrainDelay - drain') <= WaitBound
  <2>1. Wait + (DrainDelay - drain) <= WaitBound
    BY <1>7 DEF DrainInv, WaitBound
  <2>2. /\ Wait \in Nat /\ WaitBound \in Nat /\ DrainDelay \in Nat /\ drain \in Nat
        /\ drain' \in Int /\ drain' >= drain - 1 /\ Wait' = Wait - 1
    BY <1>1, <1>3, WaitType, TimeAssumption DEF Types
  <2> DEFINE w == Wait
             d == drain'
  <2>3. Wait' = w - 1 /\ w \in Nat /\ d \in Int /\ d >= drain - 1 /\ w + (DrainDelay - drain) <= WaitBound
    BY <2>1, <2>2
  <2> HIDE DEF IInv, w, d
  <2>4. (w - 1) + (DrainDelay - d) <= WaitBound
    BY ONLY <2>2, <2>3
  <2> QED
    BY <2>3, <2>4 DEF d
<1>8. DrainInv'
  BY <1>1, <1>6, <1>7 DEF DrainInv, WaitBound
<1> QED
  BY <1>3, <1>4, <1>5, <1>8

\* The inductive invariant holds in every reachable state.
THEOREM Inductive == Spec => []IInv
<1>1. Init => IInv
  <2> SUFFICES ASSUME Init PROVE IInv
    OBVIOUS
  <2>1. /\ left \in 0..Timeout /\ drain \in 0..DrainDelay /\ hook \in Nat \ {0}
        /\ inflight \in 0..MaxInflight /\ due \in 0..ProbeEvery
    BY TimeAssumption, BoundAssumption DEF Init
  <2>2. /\ errs \in BOOLEAN /\ gate \in BOOLEAN /\ missed \in BOOLEAN /\ db \in BOOLEAN
        /\ routed \in BOOLEAN /\ cut \in BOOLEAN /\ refused \in BOOLEAN
    BY DEF Init
  <2>3. Types
    BY <2>1, <2>2 DEF Init, Types, AllChecks
  <2>4. ListenInv /\ DbInv /\ CollectInv /\ GateInv /\ DrainInv
    BY DEF Init, ListenInv, DbInv, CollectInv, GateInv, DrainInv, Over, NoProbe
  <2> QED
    BY <2>3, <2>4 DEF IInv
<1>2. IInv /\ [Next]_vars => IInv'
  <2> SUFFICES ASSUME IInv, [Next]_vars PROVE IInv'
    OBVIOUS
  <2> USE DEF IInv
  <2>1. CASE Migrate \/ Register \/ Checks
    <3>1. /\ phase = "build" /\ UNCHANGED <<phase, left, drain, hook, errs, gate, listener, missed, db, cut>>
          /\ UNCHANGED <<probe, routed, due, inflight, refused>>
      BY <2>1 DEF Migrate, Register, Checks, MountAt, lifecycle, health
    <3>2. checks \subseteq checks' /\ checks' \subseteq checks \cup Checkers
      BY <2>1 DEF Migrate, Register, Checks, MountTo
    <3>3. Types'
      BY <3>1, <3>2 DEF Types, AllChecks
    <3>4. ListenInv' /\ DbInv' /\ GateInv'
      BY <3>1 DEF ListenInv, DbInv, GateInv
    <3> QED
      BY <3>1, <3>3, <3>4, OtherKeeps DEF Over
  <2>2. CASE Run \/ ListenUp \/ ListenFails \/ ListenErr
    <3>1. /\ UNCHANGED <<left, drain, hook, errs, gate, missed, db, cut>>
          /\ UNCHANGED <<probe, routed, due, checks, inflight, refused>>
          /\ \/ phase = "build" /\ phase' = "serve" /\ listener' = "starting"
             \/ /\ phase' = phase /\ phase # "build"
                /\ \/ listener = "starting" /\ listener' = "up"
                   \/ listener \in {"starting", "up"} /\ listener' = "failed"
             \/ phase = "serve" /\ phase' = "listenErr" /\ listener' = listener
      BY <2>2 DEF Run, ListenUp, ListenFails, ListenTo, ListenErr, Running, health
    <3>2. Types'
      BY <3>1 DEF Types, Over
    <3>3. ListenInv'
      BY <3>1 DEF ListenInv, Over
    <3>4. DbInv' /\ GateInv'
      BY <3>1 DEF DbInv, GateInv, Over
    <3>5. (phase' \in Over <=> phase \in Over) /\ (phase' = "drain" => phase = "drain")
          /\ (listener = "failed" => listener' = "failed")
      BY <3>1 DEF Over, ListenInv
    <3> QED
      BY <3>1, <3>2, <3>3, <3>4, <3>5, OtherKeeps
  <2>3. CASE Signal
    <3>1. /\ phase = "serve" /\ phase' = "pre"
          /\ UNCHANGED <<left, drain, hook, errs, gate, listener, missed, db, cut>>
          /\ UNCHANGED <<probe, routed, due, checks, inflight, refused>>
      BY <2>3 DEF Signal, health
    <3>2. Types'
      BY <3>1 DEF Types, Over
    <3>3. ListenInv' /\ DbInv' /\ GateInv'
      BY <3>1 DEF ListenInv, DbInv, GateInv, Over
    <3> QED
      BY <3>1, <3>2, <3>3, OtherKeeps DEF Over
  <2>4. CASE Hook
    <3>1. /\ phase \in {"pre", "cleanup"} /\ hook <= Len(Hooks) /\ hook' = hook + 1
          /\ errs' \in {errs, TRUE}
          /\ gate' = (gate /\ Hooks[hook] # Gate) /\ db' = (db /\ Hooks[hook] # "db")
          /\ UNCHANGED <<phase, left, drain, listener, missed, cut>>
          /\ UNCHANGED <<probe, routed, due, checks, inflight, refused>>
      BY <2>4 DEF Hook, health
    <3>2. gate' \in BOOLEAN /\ db' \in BOOLEAN /\ (gate' => gate /\ Hooks[hook] # Gate)
          /\ (~db' => ~db \/ Hooks[hook] = "db")
      BY <3>1, Zenon
    <3>3. Types'
      <4>1. errs \in BOOLEAN /\ hook' \in Nat \ {0}
        BY <3>1 DEF Types
      <4>2. errs' \in BOOLEAN
        BY <3>1, <4>1
      <4> QED
        BY <3>1, <3>2, <4>1, <4>2 DEF Types
    <3>4. phase = "pre" => Hooks = PreShutdown /\ hook \in 1..Len(PreShutdown)
      BY <3>1, HookAssumption DEF Hooks, Types
    <3>5. phase = "pre" => Hooks[hook] # "db"
      BY <3>4, HookAssumption DEF Range
    <3>6. ListenInv' /\ DbInv'
      BY <3>1, <3>2, <3>5 DEF ListenInv, DbInv
    <3>7. GateInv'
      <4>1. ASSUME phase = "pre", gate', NEW i \in 1..Len(PreShutdown), i < hook + 1
            PROVE  PreShutdown[i] # Gate
        <5>1. i < hook \/ i = hook
          BY <3>4, <4>1
        <5> QED
          BY <3>2, <3>4, <4>1, <5>1 DEF GateInv
      <4> QED
        BY <3>1, <3>2, <4>1 DEF GateInv
    <3> QED
      BY <3>1, <3>2, <3>3, <3>6, <3>7, OtherKeeps DEF Over
  <2>5. CASE PreDone
    <3>1. /\ phase = "pre" /\ hook > Len(PreShutdown) /\ phase' = "drain" /\ hook' = 1
          /\ UNCHANGED <<left, drain, errs, gate, listener, missed, db, cut>>
          /\ UNCHANGED <<probe, routed, due, checks, inflight, refused>>
      BY <2>5 DEF PreDone, Hooks, health
    <3>2. Types'
      BY <3>1 DEF Types, Over
    <3>3. ListenInv' /\ DbInv'
      BY <3>1 DEF ListenInv, DbInv, Over
    <3>4. GateInv'
      <4>1. gate => Gate \notin Range(PreShutdown)
        <5>1. \A i \in 1..Len(PreShutdown) : i < hook
          BY <3>1, HookAssumption DEF Types
        <5> QED
          BY <3>1, <5>1, HookAssumption DEF GateInv, Range
      <4> QED
        BY <3>1, <4>1 DEF GateInv
    <3> QED
      BY <3>1, <3>2, <3>3, <3>4, OtherKeeps DEF GateInv, Over
  <2>6. CASE Drain
    BY <2>6, DrainKeeps
  <2>7. CASE Shutdown
    <3>1. /\ phase = "shutdown" /\ phase' = "cleanup" /\ (inflight = 0 \/ left = 0 \/ missed)
          /\ errs' \in {errs, TRUE}
          /\ UNCHANGED <<left, drain, hook, gate, listener, missed, db, cut>>
          /\ UNCHANGED <<probe, routed, due, checks, inflight, refused>>
      BY <2>7 DEF Shutdown, health
    <3>2. Types'
      BY <3>1 DEF Types, Over
    <3>3. ListenInv' /\ DbInv' /\ GateInv'
      BY <3>1 DEF ListenInv, DbInv, GateInv, Over
    <3> QED
      BY <3>1, <3>2, <3>3, OtherKeeps DEF Over
  <2>8. CASE RunReturns
    <3>1. /\ phase = "cleanup" /\ phase' = "returned"
          /\ UNCHANGED <<left, drain, hook, errs, gate, listener, missed, db, cut>>
          /\ UNCHANGED <<probe, routed, due, checks, inflight, refused>>
      BY <2>8 DEF RunReturns, health
    <3>2. Types'
      BY <3>1 DEF Types, Over
    <3>3. ListenInv' /\ DbInv' /\ GateInv'
      BY <3>1 DEF ListenInv, DbInv, GateInv, Over
    <3> QED
      BY <3>1, <3>2, <3>3, OtherKeeps DEF Over
  <2>9. CASE Probe
    <3>1. listener \in {"none", "starting"} => ~routed' /\ probe' = NoProbe
      BY <2>9 DEF Probe, listening
    <3> QED
      BY <2>9, <3>1, ProbeOK, ProbeStepKeeps DEF Probe
  <2>10. ASSUME \/ CheckTimer \/ Report \/ \E c \in checks : CheckReturns(c)
               \/ \E r \in probe.ch : Collect(r)
         PROVE  IInv'
    <3>1. ProbeKeeps
      BY <2>10, CheckTimerOK, ReportOK, CheckReturnsOK, CollectOK
    <3>2. probe.at # "idle" /\ UNCHANGED <<lifecycle, checks, inflight, refused>>
      BY <2>10 DEF CheckTimer, Report, CheckReturns, Collect
    <3>3. listener \notin {"none", "starting"}
      BY <3>2 DEF ListenInv, NoProbe
    <3> QED
      BY <3>1, <3>2, <3>3, ProbeStepKeeps
  <2>11. CASE Request
    <3>1. /\ routed /\ UNCHANGED <<phase, left, drain, hook, errs, gate, listener, missed, db, cut>>
          /\ UNCHANGED <<probe, routed, due, checks>>
          /\ \/ listening /\ inflight < MaxInflight /\ inflight' = inflight + 1 /\ refused' = refused
             \/ ~listening /\ refused' = TRUE /\ inflight' = inflight
      BY <2>11 DEF Request, lifecycle, health
    <3>2. Types'
      <4>1. inflight' \in 0..MaxInflight
        BY <3>1, BoundAssumption DEF Types
      <4> QED
        BY <3>1, <4>1 DEF Types
    <3>3. ListenInv' /\ DbInv' /\ GateInv'
      BY <3>1 DEF ListenInv, DbInv, GateInv, Over, listening
    <3> QED
      BY <3>1, <3>2, <3>3, OtherKeeps
  <2>12. CASE RequestEnds
    <3>1. /\ UNCHANGED <<phase, left, drain, hook, errs, gate, listener, missed, db, cut>>
          /\ UNCHANGED <<probe, routed, due, checks, refused>>
          /\ inflight > 0 /\ inflight' = inflight - 1
      BY <2>12 DEF RequestEnds, lifecycle, health
    <3>2. Types'
      <4>1. inflight' \in 0..MaxInflight
        BY <3>1, BoundAssumption DEF Types
      <4> QED
        BY <3>1, <4>1 DEF Types
    <3>3. ListenInv' /\ DbInv' /\ GateInv'
      BY <3>1 DEF ListenInv, DbInv, GateInv, Types
    <3> QED
      BY <3>1, <3>2, <3>3, OtherKeeps
  <2>13. CASE Tick
    BY <2>13, TickKeeps
  <2>14. CASE UNCHANGED vars
    <3>1. /\ UNCHANGED <<phase, left, drain, hook, errs, gate, listener, missed, db, cut>>
          /\ UNCHANGED <<probe, routed, due, checks, inflight, refused>>
      BY <2>14 DEF vars, lifecycle, health
    <3>2. Types' /\ ListenInv' /\ DbInv' /\ GateInv'
      BY <3>1 DEF Types, ListenInv, DbInv, GateInv
    <3> QED
      BY <3>1, <3>2, OtherKeeps
  <2> QED
    BY <2>1, <2>2, <2>3, <2>4, <2>5, <2>6, <2>7, <2>8, <2>9, <2>10, <2>11, <2>12, <2>13, <2>14
       DEF Next
<1> QED
  BY <1>1, <1>2, PTL DEF Spec

\* Type correctness.
THEOREM TypeCorrect == Spec => []TypeOK
<1>1. IInv => TypeOK
  BY ProbeFields DEF IInv, Types, TypeOK, NoProbe, Over
<1> QED
  BY <1>1, Inductive, PTL

\* A check has passed only after it returned, and its result in the channel says so;
\* what the verdict does not know yet runs or is in the channel, and a bad verdict has
\* a reason.
Verdict(p) ==
    /\ p.passed \cap p.running = {}
    /\ \A r \in p.ch : r[1] \notin p.running /\ (r[2] <=> r[1] \in p.passed)
    /\ p.ok => \A c \in p.snapshot :
                  c \in p.running \/ (\E r \in p.ch : r[1] = c) \/ c \in p.passed
    /\ ~p.ok => \/ p.at = "report" /\ p.timer = 0
               \/ \E c \in p.snapshot : c \notin p.running /\ c \notin p.passed
    /\ p.at = "report" /\ p.ok => p.running = {} /\ p.ch = {}

\* A finished /readyz report names every check of its snapshot, and says ready only
\* if every one returned nil, not ready only if one did not or the timer fired.
THEOREM ReportSoundTheorem == Spec => []ReportSound
<1> DEFINE J == probe # NoProbe => Verdict(probe)
<1>1. Init => J
  BY DEF Init
<1>2. IInv /\ J /\ [Next]_vars => J'
  <2> SUFFICES ASSUME IInv, J, [Next]_vars, probe' # NoProbe PROVE Verdict(probe)'
    OBVIOUS
  <2> USE DEF Verdict
  <2>1. CASE UNCHANGED probe
    BY <2>1
  <2>2. CASE Probe /\ listening
    BY <2>2 DEF Probe
  <2>3. ASSUME NEW c, CheckReturns(c) PROVE Verdict(probe)'
    <3>1. probe \in Probes /\ probe # NoProbe /\ probe.at = "run" /\ c \in probe.running
      BY <2>3 DEF CheckReturns, IInv, Types, NoProbe
    <3>2. PICK ok \in BOOLEAN :
             probe' = [probe EXCEPT !.running = @ \ {c}, !.ch = @ \cup {<<c, ok>>},
                                    !.passed = IF ok THEN @ \cup {c} ELSE @]
      BY <2>3 DEF CheckReturns
    <3>3. /\ probe'.at = "run" /\ probe'.snapshot = probe.snapshot
          /\ probe'.running = probe.running \ {c} /\ probe'.ch = probe.ch \cup {<<c, ok>>}
          /\ probe'.passed = (IF ok THEN probe.passed \cup {c} ELSE probe.passed)
          /\ probe'.ok = probe.ok
      BY <3>1, <3>2 DEF Probes
    <3>4. /\ probe'.passed \cap probe'.running = {}
          /\ \A x \in probe.snapshot : x # c => (x \in probe'.passed <=> x \in probe.passed)
          /\ c \in probe'.passed <=> ok
      BY <3>1, <3>3
    <3>5. \A r \in probe'.ch : r[1] \notin probe'.running /\ (r[2] <=> r[1] \in probe'.passed)
      <4> SUFFICES ASSUME NEW r \in probe'.ch
                   PROVE  r[1] \notin probe'.running /\ (r[2] <=> r[1] \in probe'.passed)
        OBVIOUS
      <4>1. CASE r = <<c, ok>>
        BY <3>3, <3>4, <4>1
      <4>2. CASE r \in probe.ch
        BY <3>1, <3>3, <4>2
      <4> QED
        BY <3>3, <4>1, <4>2
    <3>6. <<c, ok>> \in probe'.ch /\ <<c, ok>>[1] = c
      BY <3>3
    <3>7. probe.ok => \A x \in probe.snapshot :
             x \in probe'.running \/ (\E r \in probe'.ch : r[1] = x) \/ x \in probe'.passed
      BY <3>1, <3>3, <3>6
    <3>8. ~probe.ok => \E x \in probe.snapshot : x \notin probe'.running /\ x \notin probe'.passed
      BY <3>1, <3>3, <3>4
    <3> QED
      BY <3>3, <3>4, <3>5, <3>7, <3>8
  <2>4. ASSUME NEW r, Collect(r) PROVE Verdict(probe)'
    <3> DEFINE B == probe.ch \ {r}
               D == Noted(r)
               K == probe.ok /\ r[2]
               T == IF probe.ch = {r} /\ probe.running = {} THEN "report" ELSE "run"
    <3>1. probe \in Probes /\ probe # NoProbe /\ probe.at = "run" /\ r \in probe.ch
      BY <2>4 DEF Collect, IInv, Types, NoProbe
    <3>2. r[1] \in probe.snapshot
      BY <3>1 DEF IInv, CollectInv
    <3>3. probe' = [probe EXCEPT !.ch = B, !.detail = D, !.ok = K, !.at = T]
      BY <2>4 DEF Collect
    <3> HIDE DEF B, D, K, T
    <3>4. /\ probe'.at = T /\ probe'.snapshot = probe.snapshot
          /\ probe'.running = probe.running /\ probe'.ch = B
          /\ probe'.passed = probe.passed /\ probe'.ok = K
      BY <3>1, <3>3 DEF Probes
    <3>5. \A x \in B : x \in probe.ch
      BY DEF B
    <3>6. K => \A c \in probe.snapshot :
             c \in probe.running \/ (\E x \in B : x[1] = c) \/ c \in probe.passed
      <4> SUFFICES ASSUME K, NEW c \in probe.snapshot, c \notin probe.running, c \notin probe.passed
                   PROVE  \E x \in B : x[1] = c
        OBVIOUS
      <4>1. probe.ok /\ r[2]
        BY DEF K
      <4>2. PICK x \in probe.ch : x[1] = c
        BY <3>1, <4>1
      <4>3. x # r
        BY <3>1, <4>1, <4>2
      <4> QED
        BY <4>2, <4>3 DEF B
    <3>7. ~K => \E c \in probe.snapshot : c \notin probe.running /\ c \notin probe.passed
      <4>1. CASE ~probe.ok
        BY <3>1, <4>1
      <4>2. CASE ~r[2]
        BY <3>1, <3>2, <4>2
      <4> QED
        BY <4>1, <4>2 DEF K
    <3>8. T = "report" => probe.running = {} /\ B = {}
      BY DEF T, B
    <3> QED
      BY <3>1, <3>4, <3>5, <3>6, <3>7, <3>8
  <2>5. CASE CheckTimer
    <3>1. probe \in Probes /\ probe # NoProbe /\ probe.timer = 0
          /\ probe' = [probe EXCEPT !.at = "report", !.ok = FALSE, !.detail = TimedOut]
      BY <2>5 DEF CheckTimer, IInv, Types, NoProbe
    <3>2. /\ probe'.at = "report" /\ probe'.snapshot = probe.snapshot /\ probe'.timer = 0
          /\ probe'.running = probe.running /\ probe'.ch = probe.ch
          /\ probe'.passed = probe.passed /\ probe'.ok = FALSE
      BY <3>1 DEF Probes
    <3> QED
      BY <3>1, <3>2
  <2>6. CASE Tick /\ probe # NoProbe
    <3>1. probe \in Probes /\ probe.at = "run" /\ probe' = [probe EXCEPT !.timer = @ - 1]
      BY <2>6 DEF Tick, IInv, Types
    <3>2. /\ probe'.at = probe.at /\ probe'.snapshot = probe.snapshot
          /\ probe'.running = probe.running /\ probe'.ch = probe.ch
          /\ probe'.passed = probe.passed /\ probe'.ok = probe.ok
      BY <3>1 DEF Probes
    <3> QED
      BY <2>6, <3>1, <3>2
  <2>7. CASE Report
    BY <2>7 DEF Report, Answer
  <2> HIDE DEF Verdict, J
  <2> QED
    BY <2>1, <2>2, <2>3, <2>4, <2>5, <2>6, <2>7
    DEF Next, vars, health, Migrate, Register, Checks, MountAt, Run, ListenUp, ListenFails, ListenTo,
        ListenErr, Signal, Hook, PreDone, Drain, Shutdown, RunReturns, Probe, Request, RequestEnds, Tick
<1>3. IInv /\ J => ReportSound
  <2> SUFFICES ASSUME IInv, J, probe.at = "report"
               PROVE  /\ DOMAIN probe.detail = {Name[c] : c \in probe.snapshot}
                      /\ probe.ok => probe.snapshot \subseteq probe.passed
                      /\ probe.snapshot \subseteq probe.passed => probe.ok \/ probe.timer = 0
    BY DEF ReportSound
  <2>1. probe # NoProbe
    BY DEF NoProbe
  <2>2. DOMAIN probe.detail = {Name[c] : c \in probe.snapshot}
    BY <2>1 DEF IInv, CollectInv, NamesOf
  <2> QED
    BY <2>1, <2>2 DEF Verdict
<1> QED
  BY <1>1, <1>2, <1>3, Inductive, PTL DEF Spec

\* With the gate closed before a long enough drain, no request is sent to a closed
\* listener, unless the context cut the drain short or the listener failed.
THEOREM NoneRefusedTheorem == Spec => []NoneRefused
<1>1. IInv => NoneRefused
  BY DEF IInv, DrainInv, NoneRefused
<1> QED
  BY <1>1, Inductive, PTL

\* While a request is served its database is open, unless the context ran out or the
\* signal came before the listener.
THEOREM DBOutlivesRequestsTheorem == Spec => []DBOutlivesRequests
<1>1. IInv => DBOutlivesRequests
  BY DEF IInv, Types, DbInv, DBOutlivesRequests
<1> QED
  BY <1>1, Inductive, PTL
=============================================================================
