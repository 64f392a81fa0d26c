----------------------------- MODULE HTTPClient -----------------------------
(***************************************************************************)
(* Package http: concurrent requests of one client, each admitted by the   *)
(* circuit breaker, tried with retry and backoff, and reported back.  The  *)
(* breaker's methods run under its mutex, so each is one step; a request   *)
(* is in flight between allow and onSuccess/onFailure for as long as it    *)
(* likes, while the breaker changes state.                                 *)
(***************************************************************************)
EXTENDS Integers, FiniteSets

CONSTANTS
    Callers,       \* goroutines that issue requests
    MaxFailures,   \* WithCircuitBreaker
    OpenTimeout,
    Retries        \* WithRetry

ASSUME BreakerAssumption == MaxFailures \in Nat \ {0} /\ OpenTimeout \in Nat
ASSUME RetryAssumption   == Retries \in Nat

VARIABLES
    state,      \* breakerState
    failures,
    age,        \* b.now() - b.openedAt, up to OpenTimeout; 0 unless open
    pc,         \* pc[q]: where the request of q is
    i,          \* i[q]: the loop's attempt number
    outcome,    \* outcome[q]: of the last attempt, or of the request when it ends
    ctx,        \* ctx[q]: the caller's context
    bounded,    \* callers whose context has a deadline, or whose client a timeout
    probe,      \* ghost: the callers admitted by the half-open transition
    streak,     \* ghost: failures reported since the last success, up to MaxFailures
    hung        \* ghost: a probe of this half-open period panicked

breaker == <<state, failures, age>>
request == <<pc, i, outcome, ctx, bounded>>
ghosts == <<probe, streak, hung>>
vars == <<breaker, request, ghosts>>

Outcomes == {"none", "ok", "client", "5xx", "transport", "cancelled"}

TypeOK ==
    /\ state \in {"closed", "open", "half"}
    /\ failures \in 0..(MaxFailures + Cardinality(Callers))
    /\ age \in 0..OpenTimeout
    /\ pc \in [Callers -> {"idle", "headers", "loop", "sent", "backoff", "report"}]
    /\ i \in [Callers -> 0..Retries]
    /\ outcome \in [Callers -> Outcomes]
    /\ ctx \in [Callers -> {"live", "done"}]
    /\ bounded \subseteq Callers /\ probe \subseteq Callers
    /\ streak \in 0..MaxFailures
    /\ hung \in BOOLEAN

Init ==
    /\ state = "closed" /\ failures = 0 /\ age = 0
    /\ pc = [q \in Callers |-> "idle"]
    /\ i = [q \in Callers |-> 0]
    /\ outcome = [q \in Callers |-> "none"]
    /\ ctx = [q \in Callers |-> "live"]
    /\ bounded = {} /\ probe = {}
    /\ streak = 0
    /\ hung = FALSE

-----------------------------------------------------------------------------
(* The breaker. *)

allow(q) ==
    \/ state = "closed" /\ UNCHANGED <<breaker, probe>>
    \/ /\ state = "open" /\ age >= OpenTimeout
       /\ state' = "half" /\ age' = 0
       /\ probe' = probe \cup {q}
       /\ UNCHANGED failures

onSuccess ==
    /\ failures' = 0
    /\ state' = "closed"
    /\ age' = 0

onFailureMore ==     \* mutant: > for >=, so that one failure more is needed
    IF state = "half"
      THEN state' = "open" /\ age' = 0 /\ UNCHANGED failures
      ELSE /\ failures' = failures + 1
           /\ IF failures' > MaxFailures
                THEN state' = "open" /\ age' = 0
                ELSE UNCHANGED <<state, age>>

onFailure ==
    IF state = "half"
      THEN state' = "open" /\ age' = 0 /\ UNCHANGED failures
      ELSE /\ failures' = failures + 1
           /\ IF failures' >= MaxFailures
                THEN state' = "open" /\ age' = 0
                ELSE UNCHANGED <<state, age>>

-----------------------------------------------------------------------------
(* Requests. *)

Goto(q, s) == pc' = [pc EXCEPT ![q] = s]

\* requestRaw: ErrCircuitOpen leaves no trace, an admitted request starts.
Request(q) ==
    /\ pc[q] = "idle"
    /\ allow(q)
    /\ Goto(q, "headers")
    /\ bounded' \in {bounded, bounded \cup {q}}
    /\ UNCHANGED <<i, outcome, ctx, streak, hung>>

\* requestRawAttempts collects the headers, calling user callbacks.
Headers(q) ==
    /\ pc[q] = "headers"
    /\ Goto(q, "loop")
    /\ UNCHANGED <<breaker, i, outcome, ctx, bounded, ghosts>>

Over(q) ==
    /\ Goto(q, "idle")
    /\ i' = [i EXCEPT ![q] = 0]
    /\ outcome' = [outcome EXCEPT ![q] = "none"]
    /\ ctx' = [ctx EXCEPT ![q] = "live"]
    /\ bounded' = bounded \ {q}
    /\ probe' = probe \ {q}

\* A callback panics, and the panic unwinds through requestRaw, which reports
\* nothing to the breaker.
Panic(q) ==
    /\ pc[q] = "headers"
    /\ Over(q)
    /\ hung' = (hung \/ (state = "half" /\ q \in probe))
    /\ UNCHANGED <<breaker, streak>>

End(q, o) ==
    /\ outcome' = [outcome EXCEPT ![q] = o]
    /\ Goto(q, "report")
    /\ UNCHANGED <<i, ctx>>

\* The head of the loop: ctx.Err(), else doOnce.
Attempt(q) ==
    /\ pc[q] = "loop"
    /\ IF ctx[q] = "done" THEN End(q, "cancelled")
                          ELSE Goto(q, "sent") /\ UNCHANGED <<i, outcome, ctx>>
    /\ UNCHANGED <<breaker, bounded, ghosts>>

\* doOnce returns: of itself, or by DoDeadline or DoTimeout; Client.Do, used
\* without a deadline and a timeout, looks at no context and may never return.
\* 5xx and transport errors are retried, other answers are final.
Answer(q, o) ==
    /\ pc[q] = "sent"
    /\ IF o \in {"5xx", "transport"} /\ i[q] < Retries
         THEN /\ outcome' = [outcome EXCEPT ![q] = o]
              /\ Goto(q, "backoff")
              /\ UNCHANGED <<i, ctx>>
         ELSE End(q, o)
    /\ UNCHANGED <<breaker, bounded, ghosts>>

\* sleepWithContext ends, by the timer or by the context.
Backoff(q) ==
    /\ pc[q] = "backoff"
    /\ \/ /\ Goto(q, "loop")
          /\ i' = [i EXCEPT ![q] = @ + 1]
          /\ UNCHANGED <<outcome, ctx>>
       \/ ctx[q] = "done" /\ End(q, "cancelled")
    /\ UNCHANGED <<breaker, bounded, ghosts>>

breakerFailure(o) == o \in {"5xx", "transport", "cancelled"}

\* The verdict a request reports when it ends.
Verdict(o) ==
    /\ IF breakerFailure(o)
         THEN onFailure /\ streak' = IF streak = MaxFailures THEN streak ELSE streak + 1
         ELSE onSuccess /\ streak' = 0
    /\ hung' = (hung /\ state' = "half")

ReportQuietCancel(q) ==   \* mutant: a cancelled request returns before reporting
    /\ pc[q] = "report"
    /\ IF outcome[q] = "cancelled" THEN UNCHANGED <<breaker, streak, hung>>
                                   ELSE Verdict(outcome[q])
    /\ Over(q)

Report(q) == pc[q] = "report" /\ Verdict(outcome[q]) /\ Over(q)

Cancel(q) ==
    /\ pc[q] # "idle"
    /\ ctx[q] = "live"
    /\ ctx' = [ctx EXCEPT ![q] = "done"]
    /\ UNCHANGED <<breaker, pc, i, outcome, bounded, ghosts>>

Tick ==
    /\ state = "open" /\ age < OpenTimeout
    /\ age' = age + 1
    /\ UNCHANGED <<state, failures, request, ghosts>>

Step(q) ==
    \/ Headers(q) \/ Attempt(q) \/ Backoff(q) \/ Report(q)
    \/ \E o \in {"ok", "client", "5xx", "transport"} : Answer(q, o)

Next ==
    \/ \E q \in Callers : Request(q) \/ Step(q) \/ Panic(q) \/ Cancel(q)
    \/ Tick

Spec == Init /\ [][Next]_vars

\* Waiting for an answer that need not come.
Waits(q) == pc[q] = "sent" /\ q \notin bounded

\* Time passes and an admitted request goes on: the timer of the backoff fires,
\* and doOnce returns if it has a deadline or a timeout.  No one has to call.
FairSpec == Spec /\ WF_vars(Tick) /\ \A q \in Callers : WF_vars(Step(q) /\ ~Waits(q))

-----------------------------------------------------------------------------
(* Properties. *)

\* The breaker opens from closed only after MaxFailures failures in a row were
\* reported, stragglers of earlier periods included ("opens after maxFailures
\* consecutive failures"), and a closed breaker never sits at its threshold.
OpensAfterConsecutive ==
    /\ state = "closed" => failures = streak /\ failures < MaxFailures
    /\ state # "closed" => streak = MaxFailures

\* A half-open breaker is waiting for someone: a probe is in flight that will
\* report, unless it panicked.  Whoever cancels, retries or reports late, the
\* client does not reject requests with no one left to end that.
HalfOpenHasProbe == state = "half" /\ ~hung => probe # {}

\* The half-open state ends, or its probe panicked, or a probe without a deadline
\* and without a timeout waits for its answer and no one else is under way who
\* must report: one request with a bound, whether it was admitted as the probe or
\* earlier, is enough, and a request that ended without a word never is.
HalfOpenEnds ==
    (state = "half") ~>
        \/ state # "half" \/ hung
        \/ /\ \E q \in probe : Waits(q)
           /\ \A q \in Callers : pc[q] = "idle" \/ Waits(q)

=============================================================================
