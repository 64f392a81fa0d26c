# A TLA+ verification of fibr

fibr is a Go toolkit of small packages on top of Fiber, Redis and Bun. Most of it
handles one request at a time; the parts below keep state that several goroutines,
replicas or processes share, and those are what this project models. Everything is
written against the source under `src/`; `PROJECT.json` maps each definition to the
lines it stands for.

Contents: 1 inventory, 2 modules, 3 runs and bounds, 4 fairness, 5 proofs,
6 where the code and its documentation differ, 7 what is not modelled, 8 plan.

## 1. Inventory

| component | state | operations | interacts with | what makes it correct |
|---|---|---|---|---|
| `lock` | one Redis key with a TTL; the token in each handle | `TryAcquire`, `Acquire`, `Do`, `Release`, `Extend` | Redis; used by `outbox` | a running lease is never broken; a lost lock stays lost; a dead owner's key goes away; `Acquire` ends with its context |
| `outbox` | the outbox table | `Enqueue` in the business transaction, `Relay.Process`, `Relay.Run` | `lock`, a publisher, the database | nothing lost, nothing leaked from a rolled-back transaction, oldest first, duplicates only with a cause, everything published in the end |
| `inbox` | the marker table | `Once` | the database, the transport | with `outbox`: the effect of each event exactly once |
| `redis` pub/sub | none (at-most-once) | `Publish`, `Subscribe` | `outbox`, `ws` | a model of the transport, not a promise |
| `auth` Issuer, stores, middleware | active refresh id per family, blocklist | `Issue`, `Refresh`, `Logout`, `RequireAuth`, `Optional` | Redis or memory store | a rotated token is not rotated again, revocation and logout stick, a good session is lost only with a reply of the store |
| `http` client | breaker state, failure count, open time | each request: admission, retries, report | the dependency, the caller's context | opens after exactly the configured failures; rejects for ever only while nothing in flight can time out |
| `ws` Hub | connections, rooms, send buffers, pumps | `Handle`, `Join`, `Leave`, `Send`, `Broadcast`, `ToRoom`, `Close` | Redis pub/sub, clients | no send on a closed channel, the two maps of rooms agree, messages reach whom they are for in one order, closed connections end |
| `cache`, `redis` values | LRU list, map with expiry, flights; Redis keys | `Get`, `Set`, `Delete`, `Expire`, `GetOrLoad`, `Remember`, janitor, `Close` | loaders, Redis | map and list agree at the limit; no older value after a write unless a load raced; what was loaded is not loaded again while it lives |
| `server`, `bootstrap`, `health` | listener, hooks, readiness gate, module list, the report of a probe | `Mount`, `Run`, the shutdown sequence, `/readyz` | every component's cleanup, the load balancer | no request is routed to a closed listener, the database outlives requests, shutdown ends with every hook run, a report hides no failed check |
| `ratelimit` | a token bucket per key in Redis | `Allow`, middleware | Redis, the replicas' clocks | never more than capacity plus refill while clocks agree, Retry-After is long enough, both but for float64 rounding |
| `auth` guards, `apikey`, `bind`, `middleware`, `apierror`, `metrics` | the locals and the response of a request; the blocklist | the chain of `bootstrap.New`, the guards of a route | Redis, the application's handlers | no revoked or refresh token gets through |
| `parser` keyset, `pagination` cursor | none; cursors held by clients | `Keyset`, `NewCursorPage`, `LinkHeader` | the table, which changes | a walk misses and repeats nothing; back returns where one came from |
| `cmd/fibr` | the files of a project | `new`, `add module` | the file system, the clock | adding loses nothing whatever fails; migration versions are unique |
| the rest | none shared | formatting, validation, I/O, wrappers | | not modelled, section 7 |

Hard to test, and the reason for the models: replies that are lost after the command took
effect (of the lock's commands, of the relay's and the inbox's statements, of `SetFamily`, of
the rate limit's script, of `PUBLISH`); locks that expire under their holder; stale
handles; a check and the write that relies on it in two store calls; requests that
report to a circuit breaker that has changed state twice meanwhile; goroutines that
hold a list of targets while those close; a peer that stops reading; a write that falls
into a load; a signal that overtakes the listener; one timeout that several stages of a
shutdown share; callbacks that panic; clocks that disagree;
rows that come and go between two pages; a command that dies after half of its files. The hazards in
`PROJECT.json` name the line where each one bites and the properties that watch it.

## 2. Modules

**Lock** (`lock/`). `tok`, `left` are the Redis key and its remaining milliseconds;
`handle[c]` the token in client c's `*Lock`; `st`, `ctx`, `want` where c is and with
which context and ttl. One action per call or per turn of `Acquire`'s loop. Each SET NX
may be granted, refused, fail, or take effect and lose its reply (also go-redis
resending the command). `ttl` arguments are counted in fractions `1/Ms` of a
millisecond because SET NX rounds a sub-millisecond ttl up and `Extend` truncates it.
`lease[c]` is a ghost: the time c's own calls entitle it to.
**LockProofs** proves its safety.

**Outbox** (`outbox/relay.go`) instances Lock for the relay lock. `row[i]` is the row
with id i: not inserted, in an open transaction, pending, published or rolled back.
`Process` is split at every statement and at `Publish`; each may fail, or take effect
and report an error; a relay may crash anywhere. Ghosts: `sent` (how often the
publisher got the event), `snap` (what was pending at the load), `fault` (something
happened after which a duplicate is legitimate).

**Inbox** (`inbox/inbox.go`): `Once` as a transaction over a marker row with a unique
index. **Delivery** composes Outbox, a transport and Inbox. The variable `durable`,
fixed by Init, chooses between Redis pub/sub (a message goes to the workers subscribed
just then, maybe to none, and a handler's error is only logged) and a transport that
redelivers. **ExactlyOnceEffect** is the abstract specification; Delivery is shown to
implement it under `committed <- rows that are pending or published`,
`effect <- effects`. **DeliveryProofs** proves that, and the safety of Outbox.

**Issuer** (`auth/issuer.go`, stores, `middleware.go`). Pair n is an access and a refresh
token minted together. Every store call of `Refresh` and `Logout` is a step and may
fail; tokens and store entries expire by a clock. `SetFamily` may take effect and lose its reply:
then the pair it names is in `lost` and nobody ever presents it. A lost reply of the other
store calls leaves what their success or their failure leaves too.
`RedisBacked` chooses which of the two stores' rules applies at the last instant of an entry. The ghosts record what had
happened to a token when a request that presents it began. **IssuerProofs** proves its
four properties.

**HTTPClient** (`http/http.go`, `breaker.go`). Each caller goes through admission,
header callbacks (which may panic), the retry loop and the report. The breaker's methods
run under a mutex and are one step each. `age` is the time since the breaker opened.
`bounded` are the callers whose context has a deadline or whose client has a timeout; neither
is the default, and without them `doOnce` may never return (`Waits`).
Ghosts: `probe` (callers admitted by the half-open transition), `streak` (failures since
the last success), `hung` (a probe of this half-open period panicked).
**ClientProofs** proves its safety, and that of Keyset and Scaffold below.

**Hub** (`ws/`). Per connection: the handler goroutine `hpc` (OnConnect, register, read,
OnDisconnect, unregister, Close, wait for the pump), the write pump `wpc`, the send
buffer, the peer. A callback may panic (`Panic`): contrib/websocket recovers and recycles the
socket, and unregister, Close and the wait are skipped. A pump that then uses the socket is
`wild`; the model stops there (`Sane`), since anything may follow. `op[g]` is the Join or Leave
that goroutine g is in the middle of, a handler or any other goroutine of the application;
the ghost `mixed` says that two of them, or one and unregister, ran into each other.
`cast[g]` is a fan-out in progress: the targets were copied under the
hub's lock and are served one at a time after it. `mode`, fixed by Init, says whether the
hub has a backplane and whether its Subscribe failed; `net[h]` are the envelopes on their
way to replica h, `last[g]` the PUBLISH whose reply g still waits for and which go-redis may
send again (`Resend`). The hubs' maps are modelled as one map each since a connection belongs
to one hub. **HubProofs** proves its safety.

**Cache** (`cache/cache.go`, `redis/redis.go`). One model for both caches, since `GetOrLoad`
and `Remember` are the same protocol: `LocalKeys` live in a `Cache`, `RemoteKeys` in Redis,
which may not answer. A value is the version of the source the loader read; `told[k]` is
the version of the user's last Set or Delete, `raced` the entries stored by a load that
such a write fell into, `loaded` the keys last written by a load (ghosts). The second lookup
of a flight and the call of the loader are two steps, since `Get` unlocks. `left[k]` is the time to `expiresAt`; an entry of the
Cache stays, expired, until a Get or the janitor removes it, a Redis key goes by itself.
**CacheProofs** proves what readers may see, and that map and list agree.

**App** (`bootstrap`, `server`, `health`). `phase` is where `run` is, `listener` where the
goroutine of `app.Listen` is, which comes up, or fails, whatever `run` does meanwhile; a
shutdown that found no listener to close is `missed`. `left` what remains of
the one shutdown timeout, `hook` the hook that runs. `probe` is a `/readyz` request: the
checks still running, those that returned nil, the channel, the details collected by name,
the overall timer. A load
balancer polls it every `ProbeEvery` ticks and routes requests accordingly. Mount is part
of the model because checks are added by modules and read by probes. **AppProofs** proves
its safety.

**RateLimit** (`ratelimit/ratelimit.go`) is the bucket of one key and one rule: `tokens`, `age`
(how long ago `ts` is), `ttl`. Tokens are counted in units of `1/Unit` so that refills are
fractions, and what float64 makes of a sum or a quotient may be off by `Err` units (`Sum64`;
`Err` stands for all the rounding of one script). The refill may be any number, as the code
takes zero and less too, and the cost any that callers ask for. A caller reads its clock in one
step, with a lag of its own, and the script runs in another; its reply may be lost, and then it
is run again or given up. The ghost `ideal` is the exact bucket of an observer who never counts
a second twice, `runs` the roundings since it was full; `behind` says that a clock was behind the
newest one the bucket had seen; `promise` is a caller that was denied and waits.

**Request** (`bootstrap`'s chain and the guards): requests go through idempotency, rate limit,
guard (`RequireAuth`, `Optional`, both with and without a blocklist, API key or none), a second
guard (scope, team, role, key scope or none), binding and handler, and back through metrics,
tracing, idempotency and error handler. `Idempotent` and `Tracing` are the options; what those
two libraries do is modelled from how they treat a response and an error. The rate limit's answer
is any answer, so that Request needs nothing of the bucket. Each call of Redis is a step and
Redis may go away between two of them. Claims are stored under a key that the guards have to
agree about. **RequestProofs** proves the properties of both modules.

**Keyset** (`parser/keyset.go`, `pagination/cursor.go`): a client holds one page and follows
its links; the table changes between queries. Init chooses the rows, the direction of each
column and the limit. Cursor values go through `Float`, what JSON does to integers above
`MaxExact` (2^53 in the code); both columns are naturals. `Earlier` is ORDER BY in the
effective directions, and `Sorted` puts at place n the row with n rows up to it. Ghosts: `walked` (rows seen since the first page), `stable`
(rows that were there all the time), `came` (the page before this one).

**Scaffold** (`cmd/fibr`): a command is a plan, a sequence of files with a place where the
migration clock is read, and writes one file per step. A path is kept as the parts that
tell files of different plans apart. Every step may fail, with the file cut off or not,
and is then rolled back as the code does; or the process is killed.

## 3. Runs and bounds

| run | checks | bounds, and why they are enough |
|---|---|---|
| MC_Lock | `LeaseHonoured`, `ExclusiveLease`, `LostStaysLost`, `OrphanExpires`, `AcquireReturns` | 2 clients; 3 tokens (each client's handle and an orphan); ttls: none, half a millisecond, one, two. 7,192 states |
| MC_Outbox | `PublishedIffSent`, `OldestFirst`, `NoDuplicateWithoutFault`, `EventuallyPublished` | 2 relays, 2 rows, batches of 2, a lock of 1 ms: a batch can be cut at every place and the lock can expire at every place. 29,640 states |
| MC_Delivery | `ImplementsExactlyOnce`, `ImplementsFairExactlyOnce` | 1 relay, 1 event, 2 workers, both transports; copies in transit are counted up to 2. Events do not influence each other in the inbox; duplicates come from lost replies, crashes and redelivery. 8,615 states |
| MC_Issuer | `SequentialSingleUse`, `RevokedUnlessRaced`, `NewestUsableUnlessLost`, `LogoutSticks` | 2 concurrent requests, 1 family, 3 pairs, access tokens of 1 and refresh tokens of 2 time units. 2.1 million states |
| MC_HTTPClient | `OpensAfterConsecutive`, `HalfOpenHasProbe`, `HalfOpenEnds` | 2 callers (a probe and a straggler), threshold 2, 1 retry, each request with and without a timeout. 38,408 states |
| MC_Hub | `RoomsAgree`, `PublishedOrder`, `NoSendOnClosed`, `Delivered`, `CloseEnds` | 1 connection, 1 room, a handler and a caller that both join and leave, 2 messages, a buffer of 1 (so that the second message can find it full), 1 resend, with and without backplane, pings on, peers may stall, callbacks may panic. One replica: another one's broadcasts would enter this one's subscription as its own do. `RoomsFirst` has rooms changed before the first message only, and no message after two calls ran into each other: room calls and messages do not wait for each other. More callers, with resends between their messages, are left to the theorem. 148,609 states |
| MC_HubFailed | `Delivered` violated | section 6 |
| MC_Cache | `ListAgrees`, `StaleOnlyIfRaced`, `NoNeedlessLoad`, `RacedEntryEnds` | 2 local keys in a cache of 1 (so that every Set of the other evicts) or, in other behaviours, 1 Redis key (`OneStore`: the stores share only the callers, who hold nothing between calls); 2 callers, 2 updates of each source. 316,546 states |
| MC_App | `ReportSound`, `NoneRefused`, `DBOutlivesRequests`, `ShutdownEnds` | 2 modules whose checks share a name, the gate and a flush as pre-shutdown hooks, a timeout of 5 ticks with a drain of 4 (slow hooks cut it), 1 request in flight (it may hang), a signal and a failure of the listener at any time. 379,695 states |
| MC_Request | `OverGrantOnlyIfBehind`, `RetryAfterSuffices`, `HandlerAuthorised` | `MC_Request` looks at one of three parts, which share no variable, in each behaviour: a bucket of 2 tokens with 5/6 of a token a second, the same without refill, and the chain with its options on. 2 callers with costs up to 3 (more than the capacity), a rounding error of 1/6 of a token, at most 3 roundings, clocks at most 1 second behind; 2 requests. 112,294 states |
| MC_Keyset | `WalkComplete`, `BackReturns` | every table over 2 values and 4 ids, one of them beyond `MaxExact`; both directions of both columns; pages of 1 and 2 rows; walks of up to 8 rows. 1.1 million states |
| MC_Scaffold | `SharedVersionOnlyIfHurried`, `AddLosesNothing` | 3 commands within 2 seconds: projects without options, with auth, and with everything; a name that meets the auth files and one that does not. 2.7 million states |

Each component's module has a type invariant `TypeOK` (RateLimit's is `LimTypeOK`; those of Scaffold and Keyset have the module's name in front). It says what the
state looks like, holds on each run's instance, and is left out of the configurations, which
keep to the deeper properties; all are proved but those of Inbox and Scaffold. The properties
above are those that some plausible slip in the code would break, and `PROJECT.json` gives one
for each.

Deadlock is checked in the runs of Lock, Outbox, Delivery and Keyset. It is off where the model
really may stop: clocks, pairs, versions, messages and commands are used up, connections
end, an application returns from Run; and a breaker left half-open by a panic has nothing
left to do.

Symmetry is used in runs that check safety only. The action constraints of MC_Hub and MC_Cache
stop no action that fairness speaks of.

## 4. Fairness

* Lock: Redis' clock advances; `Acquire`'s loop keeps turning. Nobody has to release.
* Outbox: `Run`'s ticker fires for ever, and what is retried for ever (taking the lock,
  the SELECT, Publish, the UPDATE) succeeds some time: strong fairness on the successful
  outcome, none on failures or crashes. Without this a database that is down for ever
  would refute every liveness claim.
* Delivery: as above, and the transport starves no message; the handling of a message
  that is redelivered for ever succeeds some time.
* HTTPClient: an admitted request goes on, since the backoff has a timer, and `doOnce` returns
  if the context has a deadline or the client a timeout. `http.New` sets no timeout, so a
  request with neither may wait for ever (`Waits`); nothing is assumed of it. Nobody has to
  call.
* Hub: goroutines that can run do run (weak fairness); a callback makes finitely many
  calls of Join and Leave and then returns or panics (strong fairness of its return, as each
  call disables it for a moment). Peers owe nothing.
* Cache: time passes, nothing else. Loaders may hang.
* App: hooks return (none has a deadline but the context they are given), `run` goes on
  when its select may, the balancer polls, timers fire, time passes. A request owes
  nothing: it may hang for ever, and so may a check; the listener may never come up.
* RateLimit, Request, Keyset, Issuer and Scaffold state safety only.

## 5. Proofs

`LockProofs` proves, for any set of clients, tokens and ttl arguments:

* `TypeCorrect`: `Spec => []TypeOK`;
* `LeaseTheorem`: `Spec => []LeaseHonoured`;
* `ExclusiveLeaseTheorem`: `Spec => []ExclusiveLease`;
* `LostStaysLostTheorem`: `Spec => LostStaysLost`.

`LeaseHonoured` is not inductive. A grant could break another client's lease unless the
key is absent exactly when it has no life left (`KeyHasLife`): then a granted SET NX
means that no lease is running. And a Release or Extend could touch another client's
lease unless no two handles carry the same token (`HandlesDistinct`, from tokens being
drawn fresh). The inductive invariant is `IInv == TypeOK /\ KeyHasLife /\ HandlesDistinct
/\ LeaseHonoured`. The lemmas `GrantedKeeps`, `DroppedKeeps` and `UngrantedKeeps` cover
the outcomes that TryAcquire, Acquire and Do share; `Lifetimes` is what the two ways of
rounding a ttl return. `ExclusiveLease` follows since two clients inside their leases
would carry the key's token both. `LostStaysLost` is an action property: only a grant
writes a token to the key, and it writes a fresh one.

The assumptions are the named ASSUMEs of `Lock`: `NoToken` is not a token, ttls are
naturals, a millisecond has at least one unit. Freshness of tokens is part of the model
(`FreshToken`): the code draws 16 random bytes.

`ClientProofs` extends HTTPClient, Scaffold and Keyset, whose names differ for that reason
(`ScaffoldSpec`, `KeysetSpec`), and has one part for each; they share nothing. The first proves
for the `http` client, for any number of callers, threshold, timeout and retries:

* `OpensTheorem`: `Spec => []OpensAfterConsecutive`;
* `ProbeTheorem`: `Spec => []HalfOpenHasProbe`;
* `ClientTypeCorrect`: `Spec => []TypeOK`, for finitely many callers.

Together with the few types they need the first two are inductive. Three actions matter:
Request may open a half-open period and adds its probe; Report always leaves the
half-open state, whoever reports (`VerdictSettles`), and moves count and streak
together; Panic removes a probe and is remembered in `hung`. The bound of `TypeOK` on
`failures` is about stragglers: once the breaker is open every request still under way may
add one failure, so count and requests under way are bounded together
(`StragglersBound`). The assumptions are `BreakerAssumption` (a positive threshold, a
natural timeout).

The second part proves for the `fibr` command, for any projects, names, clock and number of
commands:

* `AddLosesNothingTheorem`: `ScaffoldSpec => AddLosesNothing`, an action property;
* `SharedVersionTheorem`: `ScaffoldSpec => []SharedVersionOnlyIfHurried`.

`CommandInv` says that what a command has written, and what it still has to write, was not
on the disk when it began (`OnlyNew`), so that a rollback takes away only its own files;
and that the next version it will stamp is beyond every one on the disk unless a clock was
read too early (`NextIsBeyond`). That `new` and `add module` start that way is a fact about
every plan the generator knows: where migrations stand in it and where the clock is read
(`ModulePlan`, `SkeletonPlans`, `AuthPlan`, `AddPlan`, `NewPlan`).

The third part is about a client that walks pages, for any finite set of values and ids,
directions of the columns, and limits:

* `WalkCompleteTheorem`: `KeysetSpec => []WalkComplete`;
* `BackReturnsTheorem`: `KeysetSpec => BackReturns`, an action property;
* `KeysetTypeCorrect`: `KeysetSpec => []KeysetTypeOK`.

ORDER BY is a strict total order that a backward query turns round (`EarlierIsOrder`), and
the seek predicate of a cursor selects just the rows after the cursor's (`SeekIsOrder`, which
needs that its values fit a float64). `Sorted` returns the rows of a set once each and in
order (`SortedIs`), and rows in order are what it returns for their set
(`IncreasingIsSorted`); so `PageOrder` says of every page what it holds and what is beyond it.
`WalkInv`: the walk is in order, its last row is the next cursor, and every row that stayed
in the table has been seen or comes after that row; inserts and deletes cannot disturb it,
since the cursor is a place in the order and not a count. `BackInv`: a page of the
unchanged table leaves no row out between its first and its last (`Good`), and begins with the
first row after the page before it (`Follows`). Going back then selects the rows up to the
last one of that page; both it and the new page are the end of that set, either with `limit`
rows or with all of them, and so they are the same (`EndsNested`, `BackIs`). What the query
selects goes on to the end of its order also with a cursor that a float64 has changed
(`SeekGoesOn`), so that `Good` does not depend on the values. The
assumptions are those of Keyset: limits are positive, columns are naturals and have finitely
many values.

`DeliveryProofs` proves, for any number of relays, rows and workers, any batch size, with
and without the lock and over both transports:

* `PublishedIffSentTheorem`, `OldestFirstTheorem`, `NoDuplicateTheorem`: the three safety
  properties of Outbox; `OutboxTypeCorrect`: its `TypeOK`;
* `ExactlyOnceTheorem`: `DeliverySpec => ImplementsExactlyOnce`, the refinement.

`OutboxInv` says of a relay in its loop that it has an event to be at, works on committed
rows, and that what was pending at its load and is not in its batch any more was sent or is
younger (`BatchCommitted`, `BatchInOrder`). For duplicates it says that without a fault the
relay at work owns the lock, that nobody else touches its batch, and that a pending event
that went out is the one about to be marked (`WorkerOwnsLock`, `BatchStillPending`,
`SentIsMarkedNext`). What the lock guarantees is not proved again: `RelaysUseLock` shows that
every behaviour of the relays is one of Lock with `Clients <- Relays`, so `LockProofs`'
invariant holds of the relay lock (`LockHolds`, which discharges Lock's assumptions). In the
same way a behaviour of Delivery is one of Outbox. The refinement then needs that only events
that went out travel, that a worker in `fn` alone holds the uncommitted marker of its
message, and that marker and effect are committed together (`DeliveryInv`). Two facts about
data carry the rest: a nonempty set of ids has a least one, and the batch of a SELECT with
LIMIT holds the oldest pending rows.

`IssuerProofs` proves for any number of concurrent requests, families and pairs, any
lifetimes and either store `SequentialSingleUse`, `RevokedUnlessRaced`,
`NewestUsableUnlessLost`, `LogoutSticks` and `TypeOK`. None is inductive alone. The reuse check works because the
active id of a family is never a spent one (`ActiveIsUnspent`), which needs ids to be minted
in order; revocation holds because no request past its comparison can bring back a family
that was not raced (`RevokedStaysOut`); the newest token is usable because the family's record
names the newest pair, handed out or lost, and ends with it (`RecordOfNewest`); and Logout's block lasts exactly as long as the
token (`BlockedToTheEnd`), so that no instant lies between the two expiries.

`RequestProofs` proves `OverGrantOnlyIfBehind`, `RetryAfterSuffices` and `LimTypeOK` of
RateLimit, for any number of callers, any capacity and cost, any refill, zero and negative ones
included, any error `Err` of float64 and any bound on how late clocks are; and of Request, for
any number of requests and any options, `HandlerAuthorised` and `TypeOK`. What the first two say
depends on the refill: without one, `OverGrantOnlyIfBehind` bounds the grants of one life of the
key, and nobody is promised anything (`RetryAfterSuffices` speaks of positive refills and of costs
the capacity covers). Both are up to rounding: each script may be off by `Err`, so that a caller
may be denied at the promised instant for the last bit of a float64 and is then told to wait
another second. One rule per key is assumed, as the bucket stores none.

The invariant of the bucket has three parts: ranges (an entry's age and remaining life are bounded
together), `Aligned` (while no clock was behind, the stored bucket holds no more than the exact
one and the roundings so far, and one that expired would be full by now but for those, because
the TTL rounds up the time to fill) and `Promised` (at the end of the promised wait the bucket
holds the tokens but for the roundings since, because Retry-After rounds up). The products of
times and rates are handled by lemmas such as `MulMono`, `MulAdd` and `CeilCovers`.
`RetryAfterSuffices` does not need clocks to agree: a timestamp that is set back only adds
refill. The invariant of the requests says that a request late for a revocation finds it, and
that claims are in the locals only behind the guard that put them there.

`CacheProofs` proves `StaleOnlyIfRaced` and `NoNeedlessLoad` for any keys, callers, size and
TTL. `NoNeedlessLoad` needs that a flight past its second lookup finds nothing that a load stored:
only its own flight could store that, so that whatever is cached by then was Set. The invariant `OldOnlyIfRaced` speaks of every entry, expired or not, so that the passing
of time cannot disturb it, and needs that a load has read a version no older than what users
had said when it began.
Which entry the LRU list evicts does not matter to it. `ListAgreesTheorem` proves `ListAgrees`
(and with it `TypeOK`): the list holds the keys of the map, each once, and at most `MaxSize` of
them. Removing keys from a list is `Without`, which puts at place n the kept key with n kept
places up to its own; `RankBijective` and `WithoutIs` show that it keeps each key that stays
and repeats none. The bound then follows from counting: moving a key to the front keeps the
length, and a Set of a new key in a full cache evicts the last one (`FrontIs`, `SetAgrees`).

`AppProofs` proves `ReportSound`, `NoneRefused`, `DBOutlivesRequests` and `TypeOK` for any
modules, checks, hooks and times, whenever the signal comes and the listener comes up or fails.
`ReportSound` needs that each check of a probe's snapshot
runs, waits in the channel or is in the report, and that a check that did not return nil has
made the report not ok or still will (`CollectInv`). `NoneRefused` is a race
between two clocks: the invariant `DrainInv` bounds the time the balancer still needs until
it has stopped routing for good (`Wait`: the probe under way, an interval and one more probe
if that one asked the gate before it closed): together with the part of the drain that is
over it never exceeds an interval and two probes.

`HubProofs` proves, for any replicas, connections, rooms, callers, buffer size and number of
messages and resends, with or without a backplane, `RoomsAgree`, `PublishedOrder`,
`NoSendOnClosed` and `TypeOK`. This goes well beyond the instance TLC checks, which has one
connection on one replica and one caller. `RoomInv` says what a Join or Leave under way, in
whichever goroutine, has already changed, and that a connection with two of them is in `mixed`.
`PublishedOrder` follows a message through the pipeline: the envelopes on their way to a hub
are in order and behind the one it fans out, and callers fan out nothing that went through
the backplane (`WireInv`); what reached a connection (written, being written or buffered) is
older than what is on its way to it (`PipeInv`), and is itself in order (`ClientInv`). Losing
envelopes, closing hubs and direct Sends keep that; a PUBLISH that is sent again is to Redis, and
in the property, another message. `SentInv`, that every message anywhere was
sent before, makes a new one newer than all.

The assumptions of these proofs are the named ASSUMEs of the modules, which TLC evaluates on
each instance: bounds, times and capacities are naturals, buffers and units positive; `NoToken` and `None`
are none of the values they stand beside; a connection has a home among the hubs, and callers
are not subscribers (`HubAssumption`); the hooks are a sequence and `New`'s own hook is not
among the user's (`HookAssumption`).

Model-checked only:

* liveness (`OrphanExpires`, `AcquireReturns`, `EventuallyPublished`,
  `ImplementsFairExactlyOnce`, `HalfOpenEnds`, `Delivered`, `CloseEnds`, `RacedEntryEnds`,
  `ShutdownEnds`), which is out of the prover's reach;
* `TypeOK` of Inbox and of Scaffold: ranges of counters and of program locations, which the
  invariants above contain as far as the theorems need them.

Some definitions were written so that they can be reasoned about: the lists of Cache and
Keyset by the places of their elements and a write of Scaffold as a function, not with the
library's recursive operators, which the provers cannot unfold for every input.

## 6. Where code and documentation differ

**A failed backplane** (run `MC_HubFailed`): the comment of `BackplaneErr` says such a hub
still delivers to its local connections; `Broadcast` only publishes to Redis.

Met while modelling, without a run of their own:

* **Lock.Do and the TTL.** README.md:689 says a unit of work runs on at most one replica at
  a time; `Do` neither watches nor renews the TTL (`lock/lock.go:107`). What the lock does
  guarantee is `ExclusiveLease`. `outbox/relay.go:60` repeats the claim for relays.
* `Extend` with a positive ttl below one millisecond deletes the key and returns nil
  (`lock/handle.go:58`).
* **Refresh against revocation.** A Refresh that compared the family before a Logout or a
  detected reuse revoked it writes the family back (`auth/issuer.go:170`), although
  `RevokeFamily` is said to invalidate all its tokens. Outside that window revocation holds
  (`RevokedUnlessRaced`). An error of `RevokeFamily` after a reuse is dropped, so the family
  lives on.
* **A lost reply of SetFamily.** `Refresh` returns an error, but the family names a token nobody
  holds; the client that tries again with its good token is taken for a thief and its family is
  revoked (`NewestUsableUnlessLost` says that nothing else does that).
* `auth/auth.go:56` names `Refresh` as a reason for an access token to be blocked;
  `Refresh` blocks the id of the refresh token only.
* **A panicking probe.** The report to the breaker is not deferred (`http/http.go:229`); a
  probe whose header callback panics leaves the breaker half-open for good, where
  `http/http.go:79` promises a probe after `openTimeout`. So does a probe that waits for ever:
  `http.New` sets no timeout, and with a context without deadline `Client.Do` has none
  (`http/http.go:349`). Otherwise the state ends (`HalfOpenEnds`).
* The breaker takes any report for the probe's: a straggler's failure reopens it and lets
  a second probe through beside the first, a straggler's success closes it before
  `openTimeout`, and requests cancelled by the caller count as failures.
* **A stalled peer.** `WriteMessage` has no deadline (`ws/conn.go:114`), so a slow client is
  closed but its pump, its handler and its socket stay until the peer goes away;
  `ws/errors.go:10` says it is dropped.
* **Rooms.** Join and Leave of one connection from two goroutines may leave `Conn.rooms` and
  `Hub.rooms` disagreeing for good (two locks, one after the other), although `ws/conn.go:43`
  says that Rooms returns the rooms the connection currently belongs to; a Join that meets
  unregister leaves a dead connection in a room. `RoomsAgree` says when they do agree.
* **A panicking callback.** `ws/hub.go:103` says why the handler waits for the write pump:
  the library recycles the socket once it returns. But `unregister`, `Close` and the wait are not
  deferred; when OnMessage or OnDisconnect panics, contrib/websocket recovers and recycles the
  socket while the pump still uses it, and the connection stays registered. TLC finds this
  in a few steps (`Panic`, then `Wild`).
* A connection rejected by
  OnConnect after it joined a room stays in that room, and one that registers after
  `Hub.Close` copied its list stays open. With a backplane `ToRoom("")` is a
  broadcast; without one it is not.
* **A listen error and the cleanups.** `server/server.go:29` says that `RunGraceful` blocks
  until a signal or a listen error, "then shuts the server down within timeout and runs the
  cleanup hooks"; on a listen error `run` returns at once.
* **A signal before the listener is up.** `server/server.go:20` says that cleanup hooks run after
  the server has shut down. `run` selects on the signal while its goroutine may still be on the
  way to `Serve`; then `ShutdownWithContext` knows no listener and returns nil, the database is
  closed, and the listener that comes up afterwards serves requests until the process ends
  (`DBOutlivesRequests` exempts just this).
* `bootstrap.New` puts the closing of the database before the user's Cleanup hooks, so a
  hook that flushes to the database finds it closed. `App.Run` has no pre-shutdown hooks
  and no drain.
* **The rate limit across replicas.** `now` is the caller's clock: one that is behind moves
  `ts` back and the next caller refills for that time again (`OverGrantOnlyIfBehind` says
  when). README.md:852 calls the limiter correct across instances. With
  `RefillPerSec <= 0` the bucket never fills, but its key expires a second after the last call
  and with it the limit, although `ratelimit/ratelimit.go:88` says that an idle bucket lives for
  the time to refill it fully.
* Retry-After is exact in real numbers only: ten refills of 0.1 add up to a little less than
  one token in float64, and the caller that waited is told to wait a second more.
* **Metrics.** The comment at `metrics/metrics.go:83` promises the status the client will
  receive; an `*apierror.Error` is not a `*fiber.Error` and is counted as 500 whatever its
  status. With `Idempotency` on, a store that fails after the handler turns a counted 200 into a
  500, and responses repeated for a key are not counted. Panics pass metrics and logger uncounted
  and unlogged.
* **Cursors.** README.md:228 lists integers among the keyset values; above 2^53 a cursor
  names a neighbour's key, and a walk repeats a page or misses a row. `parser.Paginate`
  orders by one column without a tiebreaker.
* **Migration versions.** `generate.go:22` says every generated migration gets a unique
  version; two commands within the seconds the first one stamped share one
  (`SharedVersionOnlyIfHurried` says when).
* In the ddd layout a module called `repository` has two files with one path. A failed
  `new --dir .` removes nothing, as `os.RemoveAll` refuses `.`. A rolled-back `add module`
  leaves its directories, from which `detectLayout` may guess later, and the file that was
  cut off.
* `i18n.matchAcceptLanguage` lower-cases tags while the bundle's locales keep their case, so
  `pt-BR` never matches.

## 7. Not modelled

Cryptography (token signatures, password and key hashing, webhook signatures); wrappers
of one library call (`jobs` over asynq, `redis` bulk and storage, `audit`, `mailer`,
`uploader`, `migrate`); small packages without state that a later step relies on (`events`,
`retry`, `dbresolver`, `sse`, `featureflag`); logging; compression, security headers and spans,
which change neither status nor error; formatting, validation,
i18n and OpenAPI, which are functions of one request; templates and prompts of the
generator; offset paging, which is one SELECT; test helpers; DDL (`Migrate` of outbox and
inbox). In the modelled packages: JSON encoding except where it loses precision, and the
jitter and length of delays. The Redis cluster, its replication and failover are outside:
Redis is one atomic server that may be unreachable; replies are lost where section 2 says so
(Lock, Outbox, Inbox, `SetFamily`, the rate limit's script, `PUBLISH`), elsewhere a call fails
or succeeds.

## 8. Plan

Modelled: everything in section 2. Proved: every safety property that a passing run checks, with the
refinement of the exactly-once effect (section 5). Left with TLC: liveness.

What could follow: the parts of section 7 that keep a little state (`jobs`, `featureflag`,
`events`), each as a module of its own with its run and its proofs.
