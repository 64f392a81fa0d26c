-------------------------------- MODULE App --------------------------------
(***************************************************************************)
(* Packages bootstrap, server and health: an application mounts its        *)
(* modules, serves behind a load balancer that polls /readyz, and after a  *)
(* signal goes through pre-shutdown hooks, drain, shutdown and cleanup     *)
(* under one timeout.  Time is in ticks.                                   *)
(***************************************************************************)
EXTENDS Integers, Sequences, FiniteSets, Functions, SequencesExt

CONSTANTS
    Modules,        \* sequence of the modules given to Mount
    Migrators,      \* those with Migrate
    Checkers,       \* those with Checks, of one check each
    AutoMigrate,
    Name,           \* Name[c]: a check's name; the gate's is "readiness"
    PreShutdown,    \* sequence of hooks; "gate" closes the ReadinessGate
    UserCleanup,    \* sequence of hooks, Options.Cleanup
    Timeout,        \* Config.Timeout
    DrainDelay,     \* Config.DrainDelay
    CheckTime,      \* the overall timer of runChecks
    ProbeEvery,     \* the load balancer's polling interval
    MaxInflight     \* bound: requests in flight

ASSUME TimeAssumption ==
    /\ Timeout \in Nat /\ DrainDelay \in Nat
    /\ CheckTime \in Nat \ {0} /\ ProbeEvery \in Nat \ {0}
ASSUME BoundAssumption == MaxInflight \in Nat

\* "db" is New's own cleanup hook, given by no user.
ASSUME HookAssumption ==
    /\ PreShutdown \in Seq(Range(PreShutdown)) /\ "db" \notin Range(PreShutdown)

VARIABLES
    phase,      \* where run is
    mount,      \* <<i, step>>: the module Mount is at
    checks,     \* app.healthChecks
    left,       \* ticks until the shutdown context is done
    drain,      \* ticks until the drain timer fires
    hook,       \* index of the hook that runs
    errs,       \* a hook or the shutdown failed
    gate,       \* the ReadinessGate is open
    listener,   \* app.Listen's goroutine: "starting", "up", "failed" or "closed"
    missed,     \* ShutdownWithContext found no listener to close
    inflight,   \* requests being served
    db,         \* the database handle is open
    probe,      \* the /readyz request being served
    routed,     \* the load balancer sends requests here
    due,        \* ticks until its next probe
    ran,        \* ghost: the hooks that ran, in order
    cut,        \* ghost: the context ended the drain
    refused     \* ghost: a routed request found nobody listening

lifecycle == <<phase, left, drain, hook, errs, gate, listener, missed, db, ran, cut>>
health == <<probe, routed, due>>
vars == <<lifecycle, health, mount, checks, inflight, refused>>

Gate == "gate"

\* New: the database is closed first, then the user's hooks run.
Cleanup == <<"db">> \o UserCleanup

NoProbe == [at |-> "idle"]

Init ==
    /\ phase = "build"
    /\ mount = <<1, "migrate">>
    /\ checks = {Gate}
    /\ left = Timeout /\ drain = DrainDelay /\ hook = 1 /\ errs = FALSE
    /\ gate = TRUE /\ listener = "none" /\ missed = FALSE /\ inflight = 0 /\ db = TRUE
    /\ probe = NoProbe /\ routed = FALSE /\ due = 0
    /\ ran = << >> /\ cut = FALSE /\ refused = FALSE

-----------------------------------------------------------------------------
(* Mount: migrate, register and collect the checks of one module after the *)
(* other; the first failure stops it and leaves the earlier ones mounted.  *)

MountAt(step) ==
    /\ phase = "build"
    /\ mount[1] <= Len(Modules) /\ mount[2] = step
    /\ UNCHANGED <<lifecycle, health, inflight, refused>>

MountTo(i, step) == mount' = <<i, step>> /\ UNCHANGED checks

Migrate ==
    /\ MountAt("migrate")
    /\ \/ MountTo(mount[1], "register")
       \/ AutoMigrate /\ Modules[mount[1]] \in Migrators /\ MountTo(mount[1], "failed")

Register ==
    /\ MountAt("register")
    /\ MountTo(mount[1], "checks") \/ MountTo(mount[1], "failed")

Checks ==
    /\ MountAt("checks")
    /\ mount' = <<mount[1] + 1, "migrate">>
    /\ checks' = checks \cup ({Modules[mount[1]]} \cap Checkers)

-----------------------------------------------------------------------------
(* server.run *)

\* Run is called once Mount has returned nil: one goroutine listens, run selects.
Run ==
    /\ phase = "build" /\ mount[1] > Len(Modules)
    /\ phase' = "serve" /\ listener' = "starting"
    /\ UNCHANGED <<left, drain, hook, errs, gate, missed, db, ran, cut, health, mount, checks, inflight, refused>>

Running == phase \notin {"build", "listenErr", "returned"}

listening == listener = "up"

\* app.Listen has bound the address and Serve registered the listener, whatever run
\* is doing by then; or Listen returns an error, then or later.
ListenTo(s) ==
    /\ Running
    /\ listener' = s
    /\ UNCHANGED <<phase, left, drain, hook, errs, gate, missed, db, ran, cut, health, mount, checks, inflight, refused>>
ListenUp    == listener = "starting" /\ ListenTo("up")
ListenFails == listener \in {"starting", "up"} /\ ListenTo("failed")

\* run's select takes the error, if no signal came first, and returns it.
ListenErr ==
    /\ phase = "serve" /\ listener = "failed"
    /\ phase' = "listenErr"
    /\ UNCHANGED <<left, drain, hook, errs, gate, listener, missed, db, ran, cut, health, mount, checks, inflight, refused>>

\* SIGINT or SIGTERM: the shutdown context starts.
Signal ==
    /\ phase = "serve"
    /\ phase' = "pre"
    /\ UNCHANGED <<left, drain, hook, errs, gate, listener, missed, db, ran, cut, health, mount, checks, inflight, refused>>

Hooks == IF phase = "pre" THEN PreShutdown ELSE Cleanup

\* One hook of the running loop returns, nil or an error, in its own time.
Hook ==
    /\ phase \in {"pre", "cleanup"} /\ hook <= Len(Hooks)
    /\ hook' = hook + 1
    /\ errs' \in {errs, TRUE}
    /\ ran' = Append(ran, Hooks[hook])
    /\ gate' = (gate /\ Hooks[hook] # Gate)
    /\ db' = (db /\ Hooks[hook] # "db")
    /\ UNCHANGED <<phase, left, drain, listener, missed, cut, health, mount, checks, inflight, refused>>

PreDone ==
    /\ phase = "pre" /\ hook > Len(Hooks)
    /\ phase' = "drain" /\ hook' = 1
    /\ UNCHANGED <<left, drain, errs, gate, listener, missed, db, ran, cut, health, mount, checks, inflight, refused>>

\* fasthttp closes the listeners it knows; with none it returns nil at once, and a
\* listener that registers later is served.
closeListener ==
    /\ listener' = IF listening THEN "closed" ELSE listener
    /\ missed' = (listener = "starting")

DrainSkipped ==        \* mutant: the select has a default branch
    /\ phase = "drain"
    /\ cut' = (drain > 0 /\ left = 0)
    /\ phase' = "shutdown" /\ closeListener
    /\ UNCHANGED <<left, drain, hook, errs, gate, db, ran, health, mount, checks, inflight, refused>>

\* The drain timer or the context; then ShutdownWithContext begins.
Drain ==
    /\ phase = "drain"
    /\ drain = 0 \/ left = 0
    /\ cut' = (drain > 0)
    /\ phase' = "shutdown" /\ closeListener
    /\ UNCHANGED <<left, drain, hook, errs, gate, db, ran, health, mount, checks, inflight, refused>>

ShutdownNoWait ==      \* mutant: Shutdown does not wait for the requests
    /\ phase = "shutdown"
    /\ phase' = "cleanup"
    /\ UNCHANGED <<left, drain, hook, errs, gate, listener, missed, db, ran, cut, health, mount, checks, inflight, refused>>

ShutdownWaits ==       \* mutant: Shutdown without the context
    /\ phase = "shutdown" /\ (inflight = 0 \/ missed)
    /\ phase' = "cleanup"
    /\ UNCHANGED <<left, drain, hook, errs, gate, listener, missed, db, ran, cut, health, mount, checks, inflight, refused>>

\* Having closed one, it waits for the requests in flight or the context's end.
Shutdown ==
    /\ phase = "shutdown"
    /\ \/ (inflight = 0 \/ missed) /\ UNCHANGED errs
       \/ left = 0 /\ ~missed /\ errs' = TRUE
    /\ phase' = "cleanup"
    /\ UNCHANGED <<left, drain, hook, gate, listener, missed, db, ran, cut, health, mount, checks, inflight, refused>>

RunReturns ==
    /\ phase = "cleanup" /\ hook > Len(Hooks)
    /\ phase' = "returned"
    /\ UNCHANGED <<left, drain, hook, errs, gate, listener, missed, db, ran, cut, health, mount, checks, inflight, refused>>

-----------------------------------------------------------------------------
(* /readyz: runChecks. *)

\* The endpoint takes a snapshot of the checks and starts one goroutine each.
\* A load balancer that cannot connect stops routing.
Probe ==
    /\ due = 0 /\ probe = NoProbe /\ Running
    /\ IF listening
         THEN /\ probe' = [at |-> "run", snapshot |-> checks, running |-> checks, passed |-> {},
                           ch |-> {}, detail |-> << >>, ok |-> TRUE, timer |-> CheckTime]
              /\ UNCHANGED <<routed, due>>
         ELSE /\ routed' = FALSE /\ due' = ProbeEvery
              /\ UNCHANGED probe
    /\ UNCHANGED <<lifecycle, mount, checks, inflight, refused>>

\* chk.Fn returns or panics; its result goes to the buffered channel.
CheckReturns(c) ==
    /\ probe.at = "run" /\ c \in probe.running
    /\ \E ok \in BOOLEAN :
          /\ c = Gate => ok = gate
          /\ probe' = [probe EXCEPT !.running = @ \ {c}, !.ch = @ \cup {<<c, ok>>},
                                    !.passed = IF ok THEN @ \cup {c} ELSE @]
    /\ UNCHANGED <<lifecycle, routed, due, mount, checks, inflight, refused>>

Answer(ok) ==
    /\ routed' = ok
    /\ due' = ProbeEvery
    /\ probe' = NoProbe

Msg(ok) == IF ok THEN "ok" ELSE "error"
Noted(r) ==
    [n \in DOMAIN probe.detail \cup {Name[r[1]]} |->
        IF n = Name[r[1]] THEN Msg(r[2]) ELSE probe.detail[n]]

CollectLast(r) ==        \* mutant: the last result decides
    /\ probe.at = "run" /\ r \in probe.ch
    /\ probe' = [probe EXCEPT !.ch = @ \ {r}, !.detail = Noted(r), !.ok = r[2],
                              !.at = IF probe.ch = {r} /\ probe.running = {} THEN "report" ELSE "run"]
    /\ UNCHANGED <<lifecycle, routed, due, mount, checks, inflight, refused>>

\* The loop receives one result; after the last the report is complete.
Collect(r) ==
    /\ probe.at = "run" /\ r \in probe.ch
    /\ probe' = [probe EXCEPT !.ch = @ \ {r}, !.detail = Noted(r), !.ok = @ /\ r[2],
                              !.at = IF probe.ch = {r} /\ probe.running = {} THEN "report" ELSE "run"]
    /\ UNCHANGED <<lifecycle, routed, due, mount, checks, inflight, refused>>

TimedOut ==
    [n \in DOMAIN probe.detail \cup {Name[c] : c \in probe.snapshot} |->
        IF n \in DOMAIN probe.detail THEN probe.detail[n] ELSE "timeout"]

\* The overall timer: every check without a detail is reported as a timeout.
CheckTimer ==
    /\ probe.at = "run" /\ probe.timer = 0
    /\ probe' = [probe EXCEPT !.at = "report", !.ok = FALSE, !.detail = TimedOut]
    /\ UNCHANGED <<lifecycle, routed, due, mount, checks, inflight, refused>>

\* 200 or 503 reaches the load balancer.
Report ==
    /\ probe.at = "report"
    /\ Answer(probe.ok)
    /\ UNCHANGED <<lifecycle, mount, checks, inflight, refused>>

-----------------------------------------------------------------------------
(* Requests and time. *)

Request ==
    /\ routed
    /\ IF listening THEN inflight < MaxInflight /\ inflight' = inflight + 1 /\ UNCHANGED refused
                    ELSE refused' = TRUE /\ UNCHANGED inflight
    /\ UNCHANGED <<lifecycle, health, mount, checks>>

RequestEnds ==
    /\ inflight > 0
    /\ inflight' = inflight - 1
    /\ UNCHANGED <<lifecycle, health, mount, checks, refused>>

\* A probe that is due starts, and one whose timer fired answers, within the tick.
Tick ==
    /\ Running
    /\ probe = NoProbe => due > 0
    /\ probe # NoProbe => probe.at = "run" /\ probe.timer > 0
    /\ left' = IF phase # "serve" /\ left > 0 THEN left - 1 ELSE left
    /\ drain' = IF phase = "drain" /\ drain > 0 THEN drain - 1 ELSE drain
    /\ due' = IF probe = NoProbe THEN due - 1 ELSE due
    /\ probe' = IF probe = NoProbe THEN probe ELSE [probe EXCEPT !.timer = @ - 1]
    /\ UNCHANGED <<phase, hook, errs, gate, listener, missed, db, ran, cut, routed, mount, checks, inflight, refused>>

Next ==
    \/ Migrate \/ Register \/ Checks
    \/ Run \/ ListenUp \/ ListenFails \/ ListenErr \/ Signal \/ Hook \/ PreDone \/ Drain \/ Shutdown \/ RunReturns
    \/ Probe \/ CheckTimer \/ Report
    \/ \E c \in checks : CheckReturns(c)
    \/ probe # NoProbe /\ \E r \in probe.ch : Collect(r)
    \/ Request \/ RequestEnds \/ Tick

Spec == Init /\ [][Next]_vars

\* Hooks return, run's goroutine is scheduled, the balancer polls, time passes;
\* a request may hang.
FairSpec ==
    /\ Spec
    /\ WF_vars(Hook) /\ WF_vars(PreDone) /\ WF_vars(Drain) /\ WF_vars(Shutdown)
    /\ WF_vars(RunReturns) /\ WF_vars(Probe) /\ WF_vars(CheckTimer) /\ WF_vars(Report)
    /\ WF_vars(Tick)

-----------------------------------------------------------------------------
(* Properties. *)

TypeOK ==
    /\ phase \in {"build", "serve", "listenErr", "pre", "drain", "shutdown", "cleanup", "returned"}
    /\ listener \in {"none", "starting", "up", "failed", "closed"}
    /\ left \in 0..Timeout /\ drain \in 0..DrainDelay
    /\ inflight \in 0..MaxInflight
    /\ {errs, gate, missed, db, routed, cut, refused} \subseteq BOOLEAN
    /\ probe.at \in {"idle", "run", "report"}

\* A finished /readyz report names every check of its snapshot.  It says ready only
\* if every one of them returned nil, and not ready only if one did not or the
\* timer fired: neither a late check, nor a panic, nor the order of the results
\* hides a failure, not even of a check whose entry in the report another check of
\* the same name overwrites (runChecks).
ReportSound ==
    probe.at = "report" =>
        /\ DOMAIN probe.detail = {Name[c] : c \in probe.snapshot}
        /\ probe.ok => probe.snapshot \subseteq probe.passed
        /\ probe.snapshot \subseteq probe.passed => probe.ok \/ probe.timer = 0

\* With the gate closed by a pre-shutdown hook, before a drain longer than a probe
\* interval and two probes (one may have asked the gate just before), no request
\* is sent to a closed listener, unless pre-shutdown hooks used up the one timeout
\* and the context cut the drain short, or the listener failed by itself (run).
NoneRefused ==
    /\ Gate \in Range(PreShutdown) /\ DrainDelay > ProbeEvery + 2 * CheckTime
    /\ refused
    => cut \/ listener = "failed"

\* While a request is served its database is open, unless the shutdown context
\* ran out first, or the signal came before the listener was up and there was
\* nothing to shut down: cleanup never overtakes the wait for requests (run).
DBOutlivesRequests == inflight > 0 /\ ~db => left = 0 \/ missed

\* A signalled server stops, even with a request that never ends, and by then
\* every pre-shutdown and every cleanup hook has run once, in order, whichever
\* failed and however late it was (run).
ShutdownEnds == phase = "pre" ~> phase = "returned" /\ ran = PreShutdown \o Cleanup
=============================================================================
