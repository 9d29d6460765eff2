# RelayForge in TLA+

RelayForge accepts webhook events over HTTP, keeps them in PostgreSQL and
delivers them from a pool of workers.  This directory holds its specification:
modules translated from the Go code and its SQL, TLC configurations that check
them on small instances, and TLAPS proofs for every value of the constants.
Paths such as `internal/store/queue.go` are relative to the repository root;
`PROJECT.json` maps every definition to the lines it models.

## 1. Inventory

### Components, their state and operations

| Component | State | Operations | Correct when |
| --- | --- | --- | --- |
| store, queue (`internal/store/queue.go`) | table `deliveries` (status, attempt counter and limit, due time, lease), `delivery_attempts`, circuit columns of `endpoints` | `ClaimDelivery` (with `recoverExpiredLeases`), `FinishAttempt` | leases are exclusive and honoured, every attempt is recorded once, nothing is stranded, the circuit follows the failures |
| store, deliveries (`deliveries.go`) | the same tables | `ReplayDelivery`, `GetDelivery` | only dead deliveries come back, numbering goes on, limits fit; a read is consistent |
| store, events (`events.go`) | `events`, `deliveries` | `EnqueueEvent` | an idempotency key names one event with one delivery |
| store, endpoints (`endpoints.go`) | `endpoints` | `CreateEndpoint`, `DisableEndpoint`, reads | nothing is accepted for a disabled endpoint |
| delivery (`internal/delivery`) | none | status machine, `Evaluate`, `RetryPolicy.NextDelay` | delays follow the exponential schedule with its cap |
| worker pool (`internal/worker/pool.go`) | what each worker is doing, the process's context | `runWorker`, `process`, shutdown | one worker per delivery at a time, shutdown completes |
| dispatcher and dialer (`internal/webhook`) | idle connections | `Deliver`, resolution, address checks, dialing, signing | what it returns is what the store accepts; no request reaches a blocked address |
| endpoint service (`internal/endpoint`) | none | `Create`: normalised target, limits, sealed secret | what it accepts can be delivered to by the same configuration |
| process (`cmd/relayforge/main.go`) | channels, contexts, server, pool | start, select loops, deferred closing | ends in bounded time, waits for its workers |
| event service (`internal/eventing`) | none | validation, drawing of IDs | - |
| configuration (`internal/config`) | none | limits on settings | the lease outlasts every attempt |
| database (`internal/database`) | a bounded pool of connections | acquire, release, close | nobody starves |
| HTTP API (`internal/api`) | none | decoding, authentication, answers | answers are true of what was stored |
| load generator (`cmd/relaybench/main.go`) | two channels, a report | producer, workers, closer, collector | ends, and its report adds up |
| metrics, secret box, build information | counters; keys; constants | - | - |

### How they interact

The API calls the services, which validate and call the store.  The workers of
one or more processes poll the store: a claim first turns a batch of expired
leases into recorded attempts, then leases the delivery that is due first; the
dispatcher sends the request; `FinishAttempt`, fenced by worker, lease token and
attempt number, writes the verdict, the attempt and the circuit in one
transaction.  All shared state is in PostgreSQL.  Within a process, workers and
the HTTP server share a context, a database pool and the shutdown code of `run`.

### What is hard

* **Time.** `now()` is the time a transaction began.  Leases, due times and
  circuits are compared with clocks of different ages, and a lease counts from
  the start of the claim while the worker's timeouts count from its end.
* **Concurrency.** `SKIP LOCKED`, results that arrive after a takeover, two
  requests with one idempotency key, a disabling between read and write, row
  locks taken in opposite orders, many transactions on few connections.
* **Staleness.** An endpoint is checked when it is created and used much later, by a
  process with other settings; a name is checked and then dialed.
* **Failure.** A process dies after the claim; a commit succeeds and its
  acknowledgement is lost; the result cannot be recorded; a result is refused by
  validation and the webhook is sent again.
* **Ends.** Shutdown in the middle of a request, the server failing at the
  moment of the signal, the database closing under the workers.

`PROJECT.json` lists these hazards at their lines with the properties that cover
them.

## 2. Modules

```
Policy ─── Lifecycle (abstract)         RetryPolicy
   │           ▲ refined by                 │
   ├─────── Store ─── Inspect             Config ─── Target ─── TargetProofs
   │           │         └─ StoreProofs     │
   │         Pool ────────── PoolProofs     │
   └───────────────── Attempt ──────────────┘
                         └─ AttemptProofs
Ledger (abstract)
   ▲ refined by
Ingest ─── Locks                        Shutdown      Bench
   └─ IngestProofs ─── LocksProofs          │            └─ BenchProofs
                                            └─ ShutdownProofs
```

**Policy** and **RetryPolicy** are the pure functions: `CanTransition`, `Evaluate`,
`circuitSignal`, `NextDelay`.  Jitter and samples are fractions with a common
denominator `Unit`, so the float arithmetic is exact integer arithmetic.

**Lifecycle** is the abstract specification: per delivery a status, the attempts
used and the limit, moved along `CanTransition`.  It knows no time, leases,
workers or circuits.

**Store** is the core.  Its variables are the tables (`endpoints`, `deliveries`,
`attempts`), the database clock `now` and the number of lease tokens granted (a
token is a fresh UUID in the code, a fresh number here).  One action is one
committed transaction; a transaction that fails changes nothing and is no step.
A transaction takes effect at `now` but computes with `t`, its own start, up to
`MaxTxAge` earlier.  A claim skips an arbitrary set of rows, which is what
`SKIP LOCKED` does with rows other transactions hold.  The client is as general as
possible: any worker may present any token ever granted.  Lease, circuit threshold and
cooldown come with each call, from `Leases`, `Thresholds` and `Cooldowns`, since every
process passes its own.
Left out of the rows: text, payloads, `last_*` and audit columns.

**Pool** adds the workers of several processes: idle, dispatching, finishing,
stopped, crashed.  Claims may commit without their worker hearing of it
(`LoseJob`), results may be dropped (`DropResult`), processes are cancelled or
crash.  A restarted process draws a new instance ID, so it is another instance.  Each
process has its own settings (`SettingsOf`), of which `LeaseAssumption` asks what
`config.Load` asks and no more.  A job remembers whether its claim was quick enough for
the lease to cover request and report (`inTime`, for the properties only).
Time passes only up to the deadline of a live worker: `context.WithTimeout` bounds
the request and the report.

**Config** is what it takes for a process to start: `config.Load`'s limits, and those
of `NewRetryPolicy` and `worker.New`.  A jitter may be NaN, which passes every range
check and makes `NextDelay` a set of outcomes (Go leaves the conversion open).

**Attempt** follows one delivery, under any settings `Config` lets through, through
those who have to agree on a result: `Dispatcher.Deliver` builds it, `Pool.process`
adds retry time and circuit outcome, `validateAttemptResult` accepts or refuses it,
and PostgreSQL takes its text or does not.  A text is known by what becomes of it:
`validText` cuts and then repairs, `errorText` repairs and then cuts and keeps zero bytes.
The messages of failed requests and of bodies that could not be read are any texts.

**Target** follows an endpoint from `POST /v1/endpoints` (handler limits,
`normalizeTarget`, `isPrivateHost`, sealing of the secret) to the connection a webhook
is sent over (`Deliver`'s refusals, `SafeDialer`'s resolution, check and dialing, the
transport's idle connections), while processes restart with other settings or another
master key and the DNS changes its answers between any two steps.

**Ingest** takes `EnqueueEvent` apart into its statements, for any number of
concurrent requests: the row locks they hold, the wait of one upsert for another,
rollback at any point, a commit nobody hears of.

**Ledger** is the abstract specification of publishing: at most one entry per endpoint and
idempotency key, and every request takes effect and is answered in one step.  It knows
no transactions, locks or deliveries.  Ingest's committed tables are its book, and a commit
is the step in which a request enters or finds its entry.

**Locks** extends Ingest with the transactions it runs beside: `ClaimDelivery` (recovery
and candidate with `SKIP LOCKED`, the endpoint read without a lock), `FinishAttempt`
(delivery, then endpoint), `ReplayDelivery` (`FOR UPDATE OF d, e`), one lock at a time.
`HeldRows`, `WantedRows` and their like say who has and who needs which row at each
stage, `WaitsFor` is the conflict between them, `BreakDeadlock` PostgreSQL's detector,
and every open transaction takes one of `Connections`.  Time is left out: retries and
circuits fall due at any moment, and a lease runs out at any moment, also under a live
worker (whose report then finds it lost), and at the latest when nobody works on its
delivery any more.  Of the answers it has one for each decision and each signal; the
others take the same locks.

**Inspect** adds `GetDelivery`, a read of two statements, to the store.

**Shutdown** is `run` in `main.go` from the start of its goroutines: three selects,
the HTTP server, the workers, the shutdown timeout, and the deferred closing of
the database pool.

**Bench** is `run` of the load generator: the producer, the workers, the closer and
the collector around its two channels, with a cancellation at any moment.

Mutants (`X_Something`, defined before `X`) are plausible bugs; with `X` replaced by
one of them, the property named for it in `PROJECT.json` fails.

## 3. Runs

| Run | Configuration | Shows |
| --- | --- | --- |
| `store` | `MCStore.cfg` | seven invariants, two action properties and the refinement of `Lifecycle` (211 000 states up to symmetry) |
| `store_replay` | `MCStoreReplay.cfg` | violation: replay grants more than the fresh budget the README promises |
| `pool` | `MCPool.cfg` | `LeaseHeld`, `NoDoubleDispatch` and `ShutdownCompletes` for two processes with settings of their own and claims that are late (330 000 states) |
| `pool_lease` | `MCPoolLease.cfg` | violation: under the shortest lease that is accepted, a late claim is overtaken while its worker is at work |
| `attempt` | `MCAttempt.cfg` | the results that are refused are of six kinds, delays follow the schedule, signal and decision agree (2 200 000 states) |
| `attempt_codes` | `MCAttemptCodes.cfg` | violation: answers the store refuses |
| `target` | `MCTarget.cfg` | no blocked connection; what is discarded or blocked is explained by a change of settings or DNS, or by a written-out address only the dialer blocks; the lease outlasts every accepted timeout (519 000 states) |
| `locks` | `MCLocks.cfg` | the refinement of `Ledger`, one event and one delivery per key, honest conflicts, nothing stored after a disable, few late claims, one kind of deadlock, everything settles (400 000 states) |
| `inspect` | `MCInspect.cfg` | a delivery and its attempts always fit together (45 000 states) |
| `shutdown` | `MCShutdown.cfg` | the process ends, cleanly when it says so (5 200 states) |
| `shutdown_race` | `MCShutdownRace.cfg` | violation: a signal and a server failure together |
| `bench` | `MCBench.cfg` | the load generator ends and its report is true (49 000 states) |

### Bounds

* `store`: two deliveries, so that a recovery batch of one (`RecoverLimit`) leaves
  one behind and claims choose; limits 1 and 2, with `MaxInt32` 3, so that deliveries
  die of their limit and of a discard, replay succeeds once or twice and is then
  refused; a lease of 2, a transaction age of 1 and a clock up to 3, so that a lease
  expires, is taken over and its late result arrives; thresholds and cooldowns of 1
  and 2, so that two processes disagree about when a circuit opens and for how long.
  The theorems remove every one of these bounds.
* `pool`, `pool_lease`: both timeouts are 1 and a claim takes up to 1, so the lease of 3
  is the shortest `Load` accepts and too short for a late claim, the lease of 4 the
  shortest that covers one; a clock up to 5 lets both expire; thresholds 1 and 2;
  `MaxInt32` 2 allows one replay.
* `attempt`: bases 1 to 6 and caps that are below, equal, even, odd and beyond the
  last attempt; jitter of 0, 1/4, 3/4, 1, NaN and one that `Load` refuses, with all
  samples; codes at both ends of every range; the four kinds of text for bodies and
  for messages; a cooldown on either side of a millisecond; a clock that steps back.
* `target`: leases on both sides of `Load`'s limit, every kind of host and scheme,
  timeouts, attempt limits and names at their ends, two master keys, and DNS answers that
  are empty, public, private or mixed.  One endpoint, since endpoints share nothing
  but their origin's idle connections, which it meets again itself.
* `locks`: two requests on one key (an original with a repetition or a conflict), two
  workers, a replay, two attempts, and two connections for five actors.  It takes no
  more for a claim, a report, a replay and a publish to meet on one row; the
  invariants are proved for any number.
* `inspect`: one reader and one delivery with the bounds of `store`.
* `shutdown`: two workers, two requests; the state space is finite by itself.
* `bench`: three requests, two workers, two latencies: the channel of results fills up,
  and a quantile falls between samples.

Deadlock checking is off where the system really stops: after a delivery's last
attempt (`attempt`), after the process has exited (`shutdown`) and after the report
(`bench`).

### Fairness

* `pool`: weak fairness of a worker's `Deliver`, report and return.  `Deliver` and
  `FinishAttempt` run under `context.WithTimeout`, and `wait` and the claim look at
  the context.  Nothing is assumed of claims, clients or time.
* `locks`: a statement that is not blocked is executed; a worker goes on with what it
  does (its request and its report have timeouts, its claims are polled); PostgreSQL
  breaks a deadlock; a circuit falls due.  Reports, replays and publishers may
  fail or be aborted any number of times.  Claims must not fail for ever, which is to
  say that the database works again some day.  Nothing is assumed of clients.
* `bench`: goroutines run when they can, and `publish` has a timeout.
* `shutdown`: main takes a ready branch, the timer fires, workers' requests and
  reports end by their timeouts, and the database answers a query.  HTTP clients may
  keep a request open for ever.  The database assumption is needed: requests have
  no timeout of their own, and `db.Close` waits for their connections.

### Findings

1. Replay adds the endpoint's budget to the old limit, so a delivery discarded
   early gets its unused attempts as well (`deliveries.go:159`; README line 121).
2. `config.Load` demands that the lease exceed endpoint and finish timeout
   (`config.go:139`), but the lease counts from the start of the claim's transaction
   (`queue.go:37`) and the timeouts from its end.  Under a lease just above the limit a
   slow claim is overtaken while its worker is at work, and the webhook is sent twice at
   a time.  With the default settings (45 s, 5 s) a claim may take 10 s.
3. Status codes outside 100..599 are passed on by `net/http`, evaluated, and refused by
   the store; the attempt is recorded as an expired lease (`queue.go:399`).
4. When the HTTP server fails as the signal arrives, `run` may return before its
   workers are done, and their results meet a closed pool (`main.go:157`).  The only
   other return without that wait, after a failed `Shutdown` (`main.go:151`), comes when
   the shutdown timeout has passed.

Observed on the way, without a run of their own: with `RETRY_JITTER=1`, which is allowed,
a retry delay can be 0, and the store refuses the result (`policy.go:60`, `queue.go:417`);
`RETRY_JITTER=NaN` is accepted and makes every retry's result refused; so are failures
under a cooldown below a millisecond, bodies with a zero byte, and messages, also of a
failed read of an answer, with a zero byte or cut inside a character
(`RefusalsExplained` lists them all); a written-out address of a reserved range is accepted at creation and
blocked at every delivery (`BlocksExplained`); and an accepted request that is
repeated after its endpoint was disabled is answered with 409 (`events.go:37`).

## 4. Proofs

Eight modules, checked by TLAPS, prove every safety invariant, every action property and
both refinements that the passing runs check, for any sets of endpoints, deliveries, keys,
requests, workers, processes, settings, answers and DNS answers, and any bounds that
satisfy the named assumptions: `TimingAssumption`, `LimitAssumption`, `NullAssumption`,
`LeaseAssumption`, `InstanceAssumption`, `IngestAssumption`, `LocksAssumption`,
`DurationAssumption`, `TargetAssumption`, `AttemptAssumption`, `ShutdownAssumption` and
`BenchAssumption`.  They type the constants, with the limits the code checks, and keep NULL
apart from the values it stands for the absence of; none asks for more than the code checks.

The safety invariants of the store are not inductive one by one.  `HistoryComplete`
needs the lease columns to be consistent (a finish must know that its number is the
open one and not yet recorded), `VerdictRecorded` needs the history (a recovery must
not find the number taken), `NoStrandedDelivery` needs `attempt_count <= max_attempts`,
and all need that an absent delivery has no history.  `IInv` states them row by row
(`EndpointInv` of an endpoint, `RowInv` of a delivery with its attempts, and the references
between the two), so that the lemmas are about the operators that rewrite one row
(`Claimed`, `Recovered`, `Finished`, `Replayed`, `AfterFailure`), and the proof for an action says
which rows it rewrites.  `RowInv` also says that a success is the last attempt of its
delivery, which the readers need.  `InductiveInvariant` has one step per action.  From it follow the type invariant, the six
safety invariants, the action properties `LeaseHonoured` and `CircuitMonotone`, and
`StoreImplementsLifecycle`: each action maps to a move of the abstract specification,
the recoveries of a claim to moves of their own in the same step.

The readers of `Inspect` are in `StoreProofs` too.  `InspectImplementsStore` carries the
store's theorems over; `DetailsAreConsistent` says that a reader keeps a row and a history
that belong together (`RowInv` of its snapshot, `ReaderInv`), and that sorting a complete
history by number shows attempt i in place i (`CompleteHistoryInOrder`, by counting).

`PoolProofs` proves `PoolSpec => Spec` (`PoolImplementsStore`), so that every theorem
about the store carries over (`PoolKeepsHistory` is an example), and then `LeaseHeld`:
the lease of a working worker that got its job in time ends after the request and the
report have to (`Safe`), time cannot pass its deadline, and no transaction recovers a lease
that has not expired.  `NoDoubleDispatch` follows, since a row has one holder.  Both hold
for any settings `config.Load` accepts and any `MaxTxAge`.  What they cannot say is that
claims are in time: nothing in the code makes them so, and `LeaseOutlastsWork`, which
says that a lease covers its work however late the claim, is refuted by `pool_lease`.

`IngestProofs`: that a key names one event does not follow from the tables alone, since
between an upsert and its commit the row is in nobody's table.  `IngestInv` therefore
says what an open transaction knows: the row it has locked is the committed one of its
key, or a new one under its own ID whose key no committed row has (`TxEvent`); no two
transactions have the row of one key (`Exclusive`); and an ID is in no table before its
request ends (`Fresh`).  A commit then adds a row whose key and ID are new, or one that is
there already.  `Told` and `Refused` tie the answers to the tables, from which
`AcceptedAgree` and `ConflictsAreReal` follow.

`IngestImplementsLedger` says that publishing is linearizable.  The first statement maps to
a refusal or to nothing, the upsert of the event to a conflict or to nothing, the
commit to the entry, a failure to a loss.  It needs of `IngestInv` that an endpoint a
transaction has locked is still enabled when it commits (`LockedIsEnabled`), and that the
row it commits is new to its key or the one in the table (`CommitIsEntry`).
`LocksImplementLedger` carries it over to publishers beside workers and replays.

`LocksProofs`: `LocksImplementIngest` shows that publishers beside workers and replays do
what Ingest allows, so `IngestInv` holds there.  `LocksInv` adds that every delivery a worker
or a replay has in hand is in the tables with its event.  `OnlyKnownDeadlocks` needs no
more: whoever has an endpoint exclusively waits for nobody (`LastLock`), so a circle
leads from claims and reports to a publisher and from publishers to one that wants a
delivery (`CircleHasPublisher`); and whoever has that delivery wants the endpoint of the
same event, which this publisher shares (`PublisherInCircle`).  `LateClaimsAreFew` rests on an
invariant of its own: a worker that has begun a late request is past its claim.

`TargetProofs`: that the address in use is allowed is not inductive, since a reused
connection was dialed for an earlier call and a checked address is dialed after the DNS
may have changed.  `TargetInv` says that every address of a call past its check and of
every idle connection was checked under the settings of the running process (`CallInv`,
`IdleInv`; both end with the process), and what the accepting process made sure of an
endpoint: its scheme, host, timeout and the key its secret is sealed with
(`EndpointInv`).  The four invariants of the run follow; `LeaseCoversAttempt` also needs what
`Load` asks of the lease (`ProcessesTyped`).

`AttemptProofs`: what the doubling loop of `NextDelay` computes needs induction over the
attempts.  The library's induction theorems cannot be instantiated here, but its theorem
that < is well-founded on the naturals can, so the proofs go by least counterexample
(`LeastElement`): the table of delays exists (`ScheduleExists`), its entries lie between
base and cap, and they equal the doubled base or the cap (`BackoffFollowsReference`, with the
one unit by which an odd cap differs).  `AttemptInv` then says of every stage from
`Deliver` to the database which fields of the result are set and how decision, retry time and
circuit outcome belong together; `RefusalsAreExplained`, `DelaysFollowSchedule` and
`ChargesAreRetried` follow.

`ShutdownProofs`: `ReportedEndIsClean` is about the end of `run` and is kept by what
the three selects have waited for on the way: a closed listener lets nobody in
(`ListenerInv`), requests that were waited for stay answered (`RequestInv`), the database
closes only in the deferred calls (`PoolInv`), and the returned error tells which wait came
to its end (`ResultInv`).  `LossesExplained` complements the finding of `shutdown_race`: a
result is lost only after the timeout, or in that race.

`BenchProofs`: the report's figures are counts, so `BenchInv` is a balance.  The requests
handed out are those with a worker, in the channel and in the report; the accepted ones among
them, wherever they are, are no more than the events stored, since a request in publication
is one worker's and nothing is stored for it yet (`HandedOut`).  The quantiles need that
samples can be sorted, which is shown by ranking them (`SortedOrderExists`; counting those
that come no later is injective), and the arithmetic of the rounded rank
(`RankOfQuantile`).

Only model-checked: liveness (`ShutdownCompletes`, `EverythingSettles`, `ProcessEnds`,
`BenchEnds`), which is outside the prover's reach.  The four violations are
counterexamples and need no proof.

## 5. Not modelled

* Routing, authentication, JSON, headers and logging of the HTTP API; the validation of
  text in the event service; the delivery service, which only checks the shape of an ID.
* Cryptography: the signature, and of the secret box all but which key opens what.
* Metrics and build information, which nothing reads back.
* The wall clock of a worker against the clock of the database: a retry time is taken
  from the one and compared with the other.  `Attempt` has a clock that steps back;
  `Store` and `Pool` have one clock for all.
* Opening of the database, migrations, parsing of settings.
* The inside of a transaction that fails: one committed transaction is one action of
  `Store`, and that PostgreSQL undoes the statements of a failed one together is assumed
  (`Ingest` and `Locks` have the statements apart, with their rollbacks).
* Whether a success that closes a circuit is older than the failures it clears
  (`queue.go:271`): `Store` has the step, but the tables keep no order between answers
  and circuit, and nothing is promised of it.

## 6. Plan

1. Done: all modules above; proofs of all their safety properties and refinements.
2. The life cycle of a delivery from `Ingest` to `Store`: the two share the tables and are
   checked apart.
