------------------------------ MODULE Request ------------------------------
(***************************************************************************)
(* A request on its way through the chain bootstrap.New builds, the        *)
(* guards of packages ratelimit, auth and apikey, bind and the handler,    *)
(* and back through metrics, logger, tracing, idempotency, the error       *)
(* handler and Recover.  Requests share the token blocklist and Redis,     *)
(* which may be down; each call to one of them is a step.  What the rate   *)
(* limit answers is any answer: its bucket is module RateLimit.            *)
(***************************************************************************)
EXTENDS Integers

CONSTANTS
    Requests,
    Idempotent, Tracing   \* Options.Idempotency, Options.Tracing

ASSUME OptionsAssumption == Idempotent \in BOOLEAN /\ Tracing \in BOOLEAN

VARIABLES
    redis,     \* Redis answers
    revoked,   \* the blocklist holds the jti of the clients' access token
    pc,        \* pc[q]: where the request is
    claims,    \* claims[q]: what a guard stored in the locals, and under which key
    resp,      \* resp[q] = [status, err]: the response, and the error returned
    late,      \* ghost: late[q]: the token was revoked before the request came
    admitted,  \* ghost: admitted[q]: the credential a guard took, with a blocklist or not
    counted    \* counted[q]: the status label metrics used, 0 for none

request == <<pc, claims, resp, late, admitted, counted>>
reqVars == <<redis, revoked, request>>

OK == [status |-> 200, err |-> "none"]
Nobody == [cred |-> "none", store |-> FALSE]

ReqInit ==
    /\ redis = TRUE /\ revoked = FALSE
    /\ pc = [q \in Requests |-> "idle"]
    /\ claims = [q \in Requests |-> "none"]
    /\ resp = [q \in Requests |-> OK]
    /\ late = [q \in Requests |-> FALSE]
    /\ admitted = [q \in Requests |-> Nobody]
    /\ counted = [q \in Requests |-> 0]

\* The chain of bootstrap.New: Recover, ContextMiddleware, I18n, helmet, compress,
\* idempotency, tracing, RequestLogger and Metrics in front; a response passes them
\* in the opposite order.
Arrive(q) ==
    /\ pc[q] = "idle"
    /\ pc' = [pc EXCEPT ![q] = "idem"]
    /\ late' = [late EXCEPT ![q] = revoked]
    /\ UNCHANGED <<redis, revoked, claims, resp, admitted, counted>>

Goto(q, w) == pc' = [pc EXCEPT ![q] = w]

\* SendError and SendStatus write the response; an error is only returned.
Sent(status) == [status |-> status, err |-> "none"]
Returned(err, status) == [status |-> status, err |-> err]

\* The chain ends here: nobody reads the request's locals any more.
StopAt(q, w, r) ==
    /\ Goto(q, w)
    /\ resp' = [resp EXCEPT ![q] = r]
    /\ claims' = [claims EXCEPT ![q] = "none"]
    /\ admitted' = [admitted EXCEPT ![q] = Nobody]
    /\ late' = [late EXCEPT ![q] = FALSE]
Stop(q, r) == StopAt(q, "unwind", r)

\* c.Next()
Pass(q, w) == Goto(q, w) /\ UNCHANGED <<resp, late>>
Unstored == UNCHANGED <<claims, admitted>>

-----------------------------------------------------------------------------
(* The idempotency middleware, and ratelimit.Middleware. *)

\* A request without a key passes. With one, a bad key, the storage or the lock may
\* fail, and a response that is stored for the key is sent again: metrics and logger
\* see neither.
Idempotency(q) ==
    /\ pc[q] = "idem"
    /\ \/ Pass(q, "limit") /\ Unstored
       \/ Idempotent /\ StopAt(q, "render", Returned("plain", 500))
       \/ \E r \in {OK, Sent(401), Sent(422), Sent(429)} : Idempotent /\ StopAt(q, "render", r)
    /\ UNCHANGED <<redis, revoked, counted>>

\* A denied request gets 429; an error of Allow fails open.
Limit(q) ==
    /\ pc[q] = "limit"
    /\ \/ Pass(q, "auth") /\ Unstored
       \/ redis /\ Stop(q, Sent(429))
    /\ UNCHANGED <<redis, revoked, counted>>

-----------------------------------------------------------------------------
(* Guards. *)

\* parse: the bearer token is an access token, signed and unexpired.
parse(cred) == cred \in {"access", "foreign"}

\* blocklisted: a guard without WithBlocklist looks nothing up, and only a token
\* with a jti, an Issuer's, is looked up.
LooksUp(cred, store) == store /\ cred = "access"
blocklisted(cred, store) == LooksUp(cred, store) /\ revoked
BlocklistErr(cred, store) == LooksUp(cred, store) /\ ~redis

Stored(q, key, cred, store) ==
    /\ claims' = [claims EXCEPT ![q] = key]
    /\ admitted' = [admitted EXCEPT ![q] = [cred |-> cred, store |-> store]]

RequireAuthOpen(q, cred, key, store) ==    \* mutant: a store error lets the token pass
    \/ /\ parse(cred) /\ (BlocklistErr(cred, store) \/ ~blocklisted(cred, store))
       /\ Stored(q, key, cred, store) /\ Pass(q, "require")
    \/ /\ ~parse(cred) \/ (~BlocklistErr(cred, store) /\ blocklisted(cred, store))
       /\ Stop(q, Sent(401))

\* RequireAuth fails closed: no answer from the blocklist is 401 too.
RequireAuth(q, cred, key, store) ==
    \/ /\ parse(cred) /\ ~BlocklistErr(cred, store) /\ ~blocklisted(cred, store)
       /\ Stored(q, key, cred, store) /\ Pass(q, "require")
    \/ /\ ~parse(cred) \/ BlocklistErr(cred, store) \/ blocklisted(cred, store)
       /\ Stop(q, Sent(401))

\* Optional goes on without claims instead.
Optional(q, cred, key, store) ==
    /\ Pass(q, "require")
    /\ IF parse(cred) /\ ~BlocklistErr(cred, store) /\ ~blocklisted(cred, store)
         THEN Stored(q, key, cred, store)
         ELSE Unstored

\* apikey.Middleware returns apierrors; the store's Lookup of a key may fail.
ApiKey(q, cred) ==
    \/ /\ cred = "apikey"
       /\ Stored(q, "apikey", cred, FALSE) /\ Pass(q, "require")
    \/ cred # "apikey" /\ Stop(q, Returned("api", 401))
    \/ cred # "none" /\ Stop(q, Returned("api", 500))

Creds == {"none", "refresh", "access", "foreign", "apikey"}

Guard(q) ==
    /\ pc[q] = "auth"
    /\ \/ Pass(q, "require") /\ Unstored
       \/ \E cred \in Creds, key \in {"default", "custom"}, store \in BOOLEAN :
             RequireAuth(q, cred, key, store) \/ Optional(q, cred, key, store)
       \/ \E cred \in Creds : ApiKey(q, cred)
    /\ UNCHANGED <<redis, revoked, counted>>

\* Claims(c, opts): what is stored under the key the guard is told to use.
HasClaims(q, keys) == claims[q] \in keys

\* RequireScope, RequireTeam and RequireRole: 401 without claims, 403 without the
\* grant. RequireRole takes no key and looks under the default one only.
RequireClaim(q, keys) ==
    IF HasClaims(q, keys) THEN (Pass(q, "handler") /\ Unstored) \/ Stop(q, Sent(403))
                          ELSE Stop(q, Sent(401))
RequireScopeOrTeam(q) == RequireClaim(q, {"default", "custom"})
RequireRole(q) == RequireClaim(q, {"default"})

\* Authenticator.RequireScope, the same with apierrors.
RequireKeyScope(q) ==
    IF HasClaims(q, {"apikey"})
      THEN (Pass(q, "handler") /\ Unstored) \/ Stop(q, Returned("api", 403))
      ELSE Stop(q, Returned("api", 401))

Require(q) ==
    /\ pc[q] = "require"
    /\ \/ Pass(q, "handler") /\ Unstored
       \/ RequireScopeOrTeam(q)
       \/ RequireRole(q)
       \/ RequireKeyScope(q)
    /\ UNCHANGED <<redis, revoked, counted>>

-----------------------------------------------------------------------------
(* The handler, and the way back. *)

\* bindAndValidate writes 400 or 422 and the handler returns nil.
bindAndValidate == {Sent(400), Sent(422)}

\* A panic ends in Recover's 500.
Recovered == Returned("panic", 500)

Handler(q) ==
    /\ pc[q] = "handler"
    /\ \E r \in bindAndValidate \cup
                {OK, Returned("fiber", 404), Returned("api", 409),
                 Returned("plain", 500), Recovered} : Stop(q, r)
    /\ UNCHANGED <<redis, revoked, counted>>

\* The response's own status code, while an error waits to be rendered.
Written(r) == IF r.err = "none" THEN r.status ELSE 200

\* The label of metrics.Middleware: a fiber.Error's code, else 500.
MetricsStatus(r) ==
    CASE r.err = "none"  -> Written(r)
      [] r.err = "fiber" -> r.status
      [] OTHER           -> 500

\* What the client gets: apierror.Handler renders an error, Recover a panic.
ErrorHandler(r) == Sent(r.status)

\* The way back through metrics and logger; a panic passes both.
Unwind(q) ==
    /\ pc[q] = "unwind"
    /\ counted' = [counted EXCEPT ![q] = IF resp[q].err = "panic" THEN 0
                                         ELSE MetricsStatus(resp[q])]
    /\ Goto(q, "outer")
    /\ UNCHANGED <<redis, revoked, claims, resp, late, admitted>>

\* Tracing renders an error itself.
Traced(r) == IF Tracing /\ r.err # "panic" THEN ErrorHandler(r) ELSE r

\* The middlewares outside of metrics: idempotency stores what was answered for the
\* key, if there is one, and returns an error when it cannot.
Outer(q) ==
    /\ pc[q] = "outer"
    /\ \/ resp' = [resp EXCEPT ![q] = Traced(resp[q])]
       \/ /\ Idempotent /\ Traced(resp[q]).err = "none"
          /\ resp' = [resp EXCEPT ![q] = Returned("plain", 500)]
    /\ Goto(q, "render")
    /\ UNCHANGED <<redis, revoked, claims, late, admitted, counted>>

\* The response is sent and the request's context is given back.
Respond(q) ==
    /\ pc[q] = "render"
    /\ Goto(q, "idle")
    /\ resp' = [resp EXCEPT ![q] = OK]
    /\ counted' = [counted EXCEPT ![q] = 0]
    /\ UNCHANGED <<redis, revoked, claims, late, admitted>>

-----------------------------------------------------------------------------

\* A logout or a reuse puts the jti on the blocklist; it stays for the token's life.
Revoke ==
    /\ redis /\ ~revoked
    /\ revoked' = TRUE
    /\ UNCHANGED <<redis, request>>

RedisFlips ==
    /\ redis' = ~redis
    /\ UNCHANGED <<revoked, request>>

ReqNext ==
    \/ Revoke \/ RedisFlips
    \/ \E q \in Requests :
          \/ Arrive(q) \/ Idempotency(q) \/ Limit(q) \/ Guard(q) \/ Require(q)
          \/ Handler(q) \/ Unwind(q) \/ Outer(q) \/ Respond(q)

ReqSpec == ReqInit /\ [][ReqNext]_reqVars

-----------------------------------------------------------------------------
(* Properties. *)

Places == {"idle", "idem", "limit", "auth", "require", "handler", "unwind", "outer", "render"}

\* The types of the state: a request is at one place of the chain, and a response
\* has a status of the code's and at most one error.
TypeOK ==
    /\ redis \in BOOLEAN /\ revoked \in BOOLEAN
    /\ pc \in [Requests -> Places]
    /\ claims \in [Requests -> {"none", "default", "custom", "apikey"}]
    /\ resp \in [Requests -> [status : 200..500, err : {"none", "api", "fiber", "plain", "panic"}]]
    /\ late \in [Requests -> BOOLEAN]
    /\ admitted \in [Requests -> [cred : Creds, store : BOOLEAN]]
    /\ counted \in [Requests -> {0} \cup 200..500]

\* The handler behind RequireAuth never runs with a refresh token, nor, behind
\* RequireAuth with WithBlocklist, with a token revoked before the request came,
\* whether Redis answers or not; and the claims Optional leaves in the locals are
\* never those of such a token.
HandlerAuthorised ==
    \A q \in Requests :
        claims[q] \in {"default", "custom"} =>
            /\ admitted[q].cred \in {"access", "foreign"}
            /\ admitted[q].cred = "access" /\ admitted[q].store => ~late[q]
=============================================================================
