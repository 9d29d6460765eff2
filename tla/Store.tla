------------------------------- MODULE Store -------------------------------
(***************************************************************************)
(* The delivery queue that internal/store keeps in PostgreSQL: endpoints   *)
(* with their circuit breakers, deliveries with their leases, and the      *)
(* attempt history.                                                        *)
(*                                                                         *)
(* One action is one committed transaction.  A transaction that fails or   *)
(* is rolled back changes nothing and is no step.  Its row locks make it   *)
(* atomic for the rows it writes; what remains visible of concurrency is   *)
(*   - its clock: now() is the time the transaction BEGAN, which may lie   *)
(*     up to MaxTxAge before the moment its effect is visible (t \in       *)
(*     TxTimes);                                                           *)
(*   - SKIP LOCKED: a claim ignores the rows that other transactions hold  *)
(*     (skip, any set of deliveries).                                      *)
(*                                                                         *)
(* The client is the most general one: any worker may present any lease    *)
(* that was ever granted, at any time.  The lease duration and the circuit *)
(* settings come with each call, from the process that makes it: processes *)
(* started with different settings share the tables.  Module Pool          *)
(* restricts the client to what the worker pool does.                      *)
(***************************************************************************)
EXTENDS Policy, FiniteSets

CONSTANTS Endpoints, Deliveries, Workers,
          NULL,            \* SQL NULL
          AttemptLimits,   \* the max_attempts an endpoint may be created with
          Leases,          \* WORKER_LEASE_DURATION of the processes
          Thresholds,      \* their CIRCUIT_FAILURE_THRESHOLD
          Cooldowns,       \* their CIRCUIT_COOLDOWN
          RetryDelays,     \* the delays NextDelay may return
          MaxTxAge,        \* bound: age of a transaction when it takes effect
          RecoverLimit,    \* LIMIT of the recovery query (32)
          MaxInt32,        \* the largest value of an integer column
          MaxTime          \* bound: the clock stops here

ASSUME TimingAssumption ==
    /\ Leases \subseteq Nat \ {0} /\ Cooldowns \subseteq Nat \ {0} /\ MaxTxAge \in Nat
    /\ MaxTime \in Nat /\ RetryDelays \subseteq Nat

ASSUME LimitAssumption ==
    /\ Thresholds \subseteq Nat \ {0} /\ RecoverLimit \in Nat \ {0}
    /\ MaxInt32 \in Nat /\ AttemptLimits \subseteq 1 .. MaxInt32

ASSUME NullAssumption ==
    NULL \notin Nat /\ NULL \notin Workers /\ NULL \notin Endpoints

VARIABLES now,         \* the database clock
          endpoints,   \* table endpoints
          deliveries,  \* table deliveries
          attempts,    \* table delivery_attempts, by delivery
          tokens       \* how many lease tokens each delivery was granted

vars == <<now, endpoints, deliveries, attempts, tokens>>

-----------------------------------------------------------------------------
EndpointRows ==
    [state : {"absent", "enabled", "disabled"}, maxAttempts : Nat,
     failures : Nat, openUntil : Nat \cup {NULL}]

DeliveryRows ==
    [status : Statuses \cup {"absent"}, endpoint : Endpoints \cup {NULL},
     attemptCount : Nat, maxAttempts : Nat, nextAttemptAt : Nat,
     lockedBy : Workers \cup {NULL}, leaseToken : Nat \cup {NULL},
     lockedUntil : Nat \cup {NULL}]

\* An attempt is recorded with its answer, of which the model keeps whether
\* it was a success, or as "expired" by whoever recovered its lease.
Outcomes == {"succeed", "failed", "expired"}

AttemptRows == [number : Nat, outcome : Outcomes]

NoEndpoint ==
    [state |-> "absent", maxAttempts |-> 0, failures |-> 0, openUntil |-> NULL]

NoDelivery ==
    [status |-> "absent", endpoint |-> NULL, attemptCount |-> 0,
     maxAttempts |-> 0, nextAttemptAt |-> 0, lockedBy |-> NULL,
     leaseToken |-> NULL, lockedUntil |-> NULL]

\* The values now() may have in a transaction that takes effect now.
TxTimes == {t \in 0 .. now : now - t <= MaxTxAge}

-----------------------------------------------------------------------------
(***************************************************************************)
(* Endpoints (endpoints.go).                                               *)
(***************************************************************************)
CreateEndpoint(e, m) ==
    /\ endpoints[e].state = "absent"
    /\ endpoints' = [endpoints EXCEPT ![e] =
                        [state |-> "enabled", maxAttempts |-> m,
                         failures |-> 0, openUntil |-> NULL]]
    /\ UNCHANGED <<now, deliveries, attempts, tokens>>

DisableEndpoint(e) ==
    /\ endpoints[e].state # "absent"
    /\ endpoints' = [endpoints EXCEPT ![e].state = "disabled"]
    /\ UNCHANGED <<now, deliveries, attempts, tokens>>

-----------------------------------------------------------------------------
(***************************************************************************)
(* Publishing (events.go).  The first publish of an event inserts its      *)
(* delivery; a repeated or conflicting one leaves every column here as it  *)
(* is.                                                                     *)
(***************************************************************************)
\* Mutant: the attempt limit of the endpoint is not copied.
EnqueueEvent_NoLimit(e, d, t) ==
    /\ endpoints[e].state = "enabled"
    /\ deliveries[d].status = "absent"
    /\ deliveries' = [deliveries EXCEPT ![d] =
                        [NoDelivery EXCEPT
                            !.status = "pending",
                            !.endpoint = e,
                            !.maxAttempts = NULL,
                            !.nextAttemptAt = t]]
    /\ UNCHANGED <<now, endpoints, attempts, tokens>>

EnqueueEvent(e, d, t) ==
    /\ endpoints[e].state = "enabled"
    /\ deliveries[d].status = "absent"
    /\ deliveries' = [deliveries EXCEPT ![d] =
                        [NoDelivery EXCEPT
                            !.status = "pending",
                            !.endpoint = e,
                            !.maxAttempts = endpoints[e].maxAttempts,
                            !.nextAttemptAt = t]]
    /\ UNCHANGED <<now, endpoints, attempts, tokens>>

-----------------------------------------------------------------------------
(***************************************************************************)
(* Replay (deliveries.go).                                                 *)
(***************************************************************************)
\* Mutant: every final delivery may be replayed.
Replayable_AnyFinal(row, budget) ==
    Final(row.status) /\ row.maxAttempts <= MaxInt32 - budget

\* Mutant: the overflow guard is one too weak.
Replayable_OffByOne(row, budget) ==
    row.status = "dead" /\ row.maxAttempts <= MaxInt32 - budget + 1

Replayable(row, budget) ==
    /\ row.status = "dead"
    /\ row.maxAttempts <= MaxInt32 - budget

\* Mutant: a replayed delivery re-enters the queue as a retry.
Replayed_AsRetry(row, budget, t) ==
    [row EXCEPT !.status = "retrying",
                !.maxAttempts = row.maxAttempts + budget, !.nextAttemptAt = t]

Replayed(row, budget, t) ==
    [row EXCEPT !.status = "pending",
                !.maxAttempts = row.maxAttempts + budget,
                !.nextAttemptAt = t]

ReplayDelivery(d, t) ==
    /\ deliveries[d].status # "absent"
    /\ LET e == deliveries[d].endpoint
           budget == endpoints[e].maxAttempts
       IN  /\ endpoints[e].state = "enabled"
           /\ Replayable(deliveries[d], budget)
           /\ deliveries' = [deliveries EXCEPT
                                ![d] = Replayed(deliveries[d], budget, t)]
    /\ UNCHANGED <<now, endpoints, attempts, tokens>>

-----------------------------------------------------------------------------
(***************************************************************************)
(* Claiming (queue.go): recover a batch of expired leases, then lease the  *)
(* delivery that is due first.                                             *)
(***************************************************************************)
HasAttemptsLeft(row) == row.attemptCount < row.maxAttempts

Released(row) ==
    [row EXCEPT !.lockedBy = NULL, !.leaseToken = NULL, !.lockedUntil = NULL]

\* Mutant: the lease is taken one instant early.
Expired_Early(row, t) == row.status = "processing" /\ row.lockedUntil <= t + 1

Expired(row, t) == row.status = "processing" /\ row.lockedUntil <= t

\* The batch the recovery query locks: the leases that expired first.
RecoveryBatch(batch, skip, t) ==
    LET expired == {d \in Deliveries \ skip : Expired(deliveries[d], t)}
    IN  /\ batch \subseteq expired
        /\ Cardinality(batch) <= RecoverLimit
        /\ batch # expired => Cardinality(batch) = RecoverLimit
        /\ \A b \in batch, d \in expired \ batch :
               deliveries[b].lockedUntil <= deliveries[d].lockedUntil

\* Mutant: a lost attempt always goes back to the queue.
Recovered_NeverDead(row, t) ==
    [Released(row) EXCEPT !.status = "retrying", !.nextAttemptAt = t]

\* Mutant: the lease columns survive the recovery of a last attempt.
Recovered_KeepsLease(row, t) ==
    IF HasAttemptsLeft(row)
    THEN [Released(row) EXCEPT !.status = "retrying", !.nextAttemptAt = t]
    ELSE [row EXCEPT !.status = "dead"]

Recovered(row, t) ==
    IF HasAttemptsLeft(row)
    THEN [Released(row) EXCEPT !.status = "retrying", !.nextAttemptAt = t]
    ELSE [Released(row) EXCEPT !.status = "dead"]

\* Mutant: a lost attempt leaves no trace.
RecordExpired_Nothing(history, n) == history

\* ON CONFLICT (delivery_id, attempt_number) DO NOTHING
RecordExpired(history, n) ==
    IF \E a \in history : a.number = n THEN history
    ELSE history \cup {[number |-> n, outcome |-> "expired"]}

AfterRecovery(batch, t) ==
    [d \in Deliveries |-> IF d \in batch THEN Recovered(deliveries[d], t)
                          ELSE deliveries[d]]

recoverExpiredLeases(batch) ==
    attempts' = [d \in Deliveries |->
                    IF d \in batch
                    THEN RecordExpired(attempts[d], deliveries[d].attemptCount)
                    ELSE attempts[d]]

Admits(endpoint, t) ==
    /\ endpoint.state = "enabled"
    /\ endpoint.openUntil # NULL => endpoint.openUntil <= t

Claimable(row, t) ==
    /\ row.status \in {"pending", "retrying"}
    /\ row.nextAttemptAt <= t
    /\ HasAttemptsLeft(row)
    /\ Admits(endpoints[row.endpoint], t)

Claimed(row, w, token, lease, t) ==
    [row EXCEPT !.status = "processing",
                !.attemptCount = row.attemptCount + 1,
                !.lockedBy = w,
                !.leaseToken = token,
                !.lockedUntil = t + lease]

\* A claim that leases d, a row not skipped, to w for the time w asks for.  Of the deliveries due at
\* the same instant the code takes the one created first; here any of them.
ClaimDelivery(w, lease, t, skip, batch, d) ==
    /\ RecoveryBatch(batch, skip, t)
    /\ LET rows == AfterRecovery(batch, t)
       IN  /\ Claimable(rows[d], t)
           /\ \A other \in Deliveries \ skip :
                  Claimable(rows[other], t) =>
                      rows[d].nextAttemptAt <= rows[other].nextAttemptAt
           /\ deliveries' = [rows EXCEPT
                                ![d] = Claimed(rows[d], w, tokens[d] + 1, lease, t)]
    /\ recoverExpiredLeases(batch)
    /\ tokens' = [tokens EXCEPT ![d] = tokens[d] + 1]
    /\ UNCHANGED <<now, endpoints>>

\* A claim that finds nothing due: it commits what it recovered.
ClaimNothing(t, skip, batch) ==
    /\ RecoveryBatch(batch, skip, t)
    /\ \A d \in Deliveries \ skip : ~Claimable(AfterRecovery(batch, t)[d], t)
    /\ deliveries' = AfterRecovery(batch, t)
    /\ recoverExpiredLeases(batch)
    /\ UNCHANGED <<now, endpoints, tokens>>

-----------------------------------------------------------------------------
(***************************************************************************)
(* Finishing an attempt (queue.go): the worker's result, fenced by its     *)
(* lease, and the endpoint's circuit breaker.                              *)
(***************************************************************************)

\* What the dispatcher answers: an HTTP status code, a request that could not
\* be sent or read (failed with a retry), or one that could not be built
\* (failed with a discard).  A worker that is being shut down withholds the
\* circuit signal.
Answers ==
    {[decision |-> Evaluate(code, FALSE), circuit |-> circuitSignal(code)] :
        code \in 100 .. 599}
    \cup {[decision |-> Evaluate(0, TRUE), circuit |-> "failure"],
          [decision |-> "discard", circuit |-> "none"]}

Results == Answers \cup {[answer EXCEPT !.circuit = "none"] : answer \in Answers}

\* CircuitThreshold and CircuitCooldown of a result: the settings of its process
\* with a failure, the zero values otherwise.
Breakers(circuit) ==
    IF circuit = "failure" THEN [threshold : Thresholds, cooldown : Cooldowns]
    ELSE {[threshold |-> 0, cooldown |-> 0]}

HoldsLease(row, w, token, n) ==
    /\ row.status = "processing"
    /\ row.lockedBy = w
    /\ row.leaseToken = token
    /\ row.attemptCount = n

Finished(row, decision, retryAt) ==
    IF decision = "succeed" THEN [Released(row) EXCEPT !.status = "succeeded"]
    ELSE IF decision = "retry" /\ HasAttemptsLeft(row)
    THEN [Released(row) EXCEPT !.status = "retrying", !.nextAttemptAt = retryAt]
    ELSE [Released(row) EXCEPT !.status = "dead"]

\* Mutant: the last failure decides, however old its transaction is.
OpenedUntil_Overwrites(openUntil, cooldown, t) == t + cooldown

\* GREATEST(COALESCE(circuit_open_until, now()), now() + cooldown)
OpenedUntil(openUntil, cooldown, t) ==
    IF openUntil # NULL /\ openUntil > t + cooldown
    THEN openUntil ELSE t + cooldown

AfterFailure(endpoint, breaker, t) ==
    [endpoint EXCEPT
        !.failures = endpoint.failures + 1,
        !.openUntil = IF endpoint.failures + 1 >= breaker.threshold
                      THEN OpenedUntil(endpoint.openUntil, breaker.cooldown, t)
                      ELSE endpoint.openUntil]

\* Mutant: a success forgets the failures but leaves the circuit open.
AfterSuccess_LeavesOpen(endpoint) == [endpoint EXCEPT !.failures = 0]

AfterSuccess(endpoint) == [endpoint EXCEPT !.failures = 0, !.openUntil = NULL]

UpdateCircuit(e, circuit, breaker, t) ==
    endpoints' = CASE circuit = "failure" ->
                        [endpoints EXCEPT ![e] = AfterFailure(endpoints[e], breaker, t)]
                   [] circuit = "success" ->
                        [endpoints EXCEPT ![e] = AfterSuccess(endpoints[e])]
                   [] circuit = "none" -> endpoints

OutcomeOf(decision) == IF decision = "succeed" THEN "succeed" ELSE "failed"

\* n is the attempt number the lease was granted with.  The insert into
\* delivery_attempts aborts the transaction when the number is taken.
FinishAttempt(d, w, token, n, result, breaker, retryAt, t) ==
    /\ HoldsLease(deliveries[d], w, token, n)
    /\ \A a \in attempts[d] : a.number # n
    /\ deliveries' = [deliveries EXCEPT
                        ![d] = Finished(deliveries[d], result.decision, retryAt)]
    /\ attempts' = [attempts EXCEPT ![d] =
                        attempts[d] \cup {[number |-> n,
                                           outcome |-> OutcomeOf(result.decision)]}]
    /\ UpdateCircuit(deliveries[d].endpoint, result.circuit, breaker, t)
    /\ UNCHANGED <<now, tokens>>

-----------------------------------------------------------------------------
Tick ==
    /\ now < MaxTime
    /\ now' = now + 1
    /\ UNCHANGED <<endpoints, deliveries, attempts, tokens>>

Init ==
    /\ now = 0
    /\ endpoints = [e \in Endpoints |-> NoEndpoint]
    /\ deliveries = [d \in Deliveries |-> NoDelivery]
    /\ attempts = [d \in Deliveries |-> {}]
    /\ tokens = [d \in Deliveries |-> 0]

Claim ==
    \E t \in TxTimes, skip \in SUBSET Deliveries :
        \E batch \in SUBSET (Deliveries \ skip) :
            \/ \E w \in Workers, lease \in Leases, d \in Deliveries \ skip :
                   ClaimDelivery(w, lease, t, skip, batch, d)
            \/ ClaimNothing(t, skip, batch)

\* A retry is scheduled from the time the worker got its answer; another
\* decision carries no time (0).
RetryTimes(decision) ==
    IF decision = "retry"
    THEN {completedAt + delay : completedAt \in 0 .. now, delay \in RetryDelays}
    ELSE {0}

Finish ==
    \E d \in Deliveries, w \in Workers :
        \E token \in 1 .. tokens[d], n \in 1 .. deliveries[d].attemptCount :
            \E result \in Results, t \in TxTimes :
                \E breaker \in Breakers(result.circuit),
                   retryAt \in RetryTimes(result.decision) :
                    FinishAttempt(d, w, token, n, result, breaker, retryAt, t)

Next ==
    \/ \E e \in Endpoints, m \in AttemptLimits : CreateEndpoint(e, m)
    \/ \E e \in Endpoints : DisableEndpoint(e)
    \/ \E e \in Endpoints, d \in Deliveries, t \in TxTimes : EnqueueEvent(e, d, t)
    \/ \E d \in Deliveries, t \in TxTimes : ReplayDelivery(d, t)
    \/ Claim
    \/ Finish
    \/ Tick

Spec == Init /\ [][Next]_vars

-----------------------------------------------------------------------------
(***************************************************************************)
(* Invariants.                                                             *)
(***************************************************************************)

\* Every column holds a value of its type.
TypeOK ==
    /\ now \in Nat
    /\ endpoints \in [Endpoints -> EndpointRows]
    /\ deliveries \in [Deliveries -> DeliveryRows]
    /\ attempts \in [Deliveries -> SUBSET AttemptRows]
    /\ tokens \in [Deliveries -> Nat]

\* The CHECK and REFERENCES constraints of table deliveries: a transaction
\* that broke one would be aborted by the database, and its operation would
\* fail for good.
SchemaHolds(row) ==
    /\ (row.lockedBy = NULL) <=> (row.leaseToken = NULL)
    /\ (row.lockedBy = NULL) <=> (row.lockedUntil = NULL)
    /\ (row.status = "processing") <=> (row.lockedBy # NULL)
    /\ row.attemptCount <= row.maxAttempts
    /\ row.status # "absent" =>
           /\ row.maxAttempts >= 1
           /\ row.endpoint \in Endpoints
           /\ endpoints[row.endpoint].state # "absent"

\* No operation of the store ever runs into a constraint of the schema.
SchemaConstraints == \A d \in Deliveries : SchemaHolds(deliveries[d])

\* max_attempts stays within the integer column, however often a delivery is
\* replayed.
AttemptLimitFits == \A d \in Deliveries : deliveries[d].maxAttempts <= MaxInt32

\* A delivery that waits has an attempt left.  Without one no claim would ever
\* take it, and it could neither die nor be replayed.
NoStrandedDelivery ==
    \A d \in Deliveries :
        deliveries[d].status \in {"pending", "retrying"} =>
            HasAttemptsLeft(deliveries[d])

RecordedNumbers(d) == {a.number : a \in attempts[d]}

ClosedAttempts(row) ==
    IF row.status = "processing" THEN row.attemptCount - 1 ELSE row.attemptCount

\* Every attempt that was started and is over is in the history exactly once,
\* under its own number, whether its worker reported it or was lost.
HistoryComplete ==
    \A d \in Deliveries :
        /\ RecordedNumbers(d) = 1 .. ClosedAttempts(deliveries[d])
        /\ \A a, b \in attempts[d] : a.number = b.number => a = b

\* A delivery is marked succeeded exactly when some attempt of it was recorded
\* with a success: no accepted webhook goes back to the queue, and none is
\* lost to a recovery or a replay.
VerdictRecorded ==
    \A d \in Deliveries :
        (deliveries[d].status = "succeeded") <=>
            (\E a \in attempts[d] : a.outcome = "succeed")

\* The circuit of an endpoint is set only when the failures counted reach the
\* threshold of some process, and always when they reach that of every process,
\* with transactions of different ages and settings updating both columns.
CircuitCoherent ==
    \A e \in Endpoints :
        /\ endpoints[e].openUntil # NULL =>
               \E threshold \in Thresholds : endpoints[e].failures >= threshold
        /\ /\ endpoints[e].failures > 0
           /\ \A threshold \in Thresholds : endpoints[e].failures >= threshold
           => endpoints[e].openUntil # NULL

-----------------------------------------------------------------------------
(***************************************************************************)
(* Action properties.                                                      *)
(***************************************************************************)

EndsWithVerdict(d) ==
    \E a \in attempts'[d] :
        a.number = deliveries[d].attemptCount /\ a.outcome # "expired"

LeaseKept(d) ==
    deliveries[d].status = "processing" /\ deliveries[d].lockedUntil > now =>
        \/ deliveries'[d] = deliveries[d]
        \/ EndsWithVerdict(d)

\* A lease that has not run out ends only with the result of its attempt: no
\* claim, replay or publish takes the delivery away from its worker.
LeaseHonoured == [][\A d \in Deliveries : LeaseKept(d)]_vars

CircuitKept(e) ==
    endpoints[e].openUntil # NULL /\ endpoints'[e].openUntil # NULL =>
        endpoints'[e].openUntil >= endpoints[e].openUntil

\* A failure never shortens an open circuit, even when its transaction began
\* before the one that opened it.
CircuitMonotone == [][\A e \in Endpoints : CircuitKept(e)]_vars

\* README.md: "Replay preserves attempt numbering and grants a fresh
\* endpoint-sized retry budget."
ReplayGrantsFreshBudget ==
    [][\A d \in Deliveries :
          deliveries[d].status = "dead" /\ deliveries'[d].status = "pending" =>
              deliveries'[d].maxAttempts - deliveries'[d].attemptCount
                  = endpoints[deliveries[d].endpoint].maxAttempts]_vars

-----------------------------------------------------------------------------
(***************************************************************************)
(* Refinement.                                                             *)
(***************************************************************************)
Abstract(row) ==
    [status |-> row.status, used |-> row.attemptCount, limit |-> row.maxAttempts]

Queue ==
    INSTANCE Lifecycle WITH table <- [d \in Deliveries |-> Abstract(deliveries[d])]

\* The queue implements the delivery life cycle: whatever the interleaving of
\* claims, recoveries, results and replays, every delivery moves along it.
ImplementsLifecycle == Queue!Spec
=============================================================================
