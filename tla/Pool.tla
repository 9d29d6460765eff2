-------------------------------- MODULE Pool --------------------------------
(***************************************************************************)
(* The worker pool of internal/worker/pool.go on top of the store: what    *)
(* the workers of one or more relayforge processes do with the deliveries  *)
(* they lease, and what they may assume of a lease while the request and   *)
(* the recording of its result take time.                                  *)
(*                                                                         *)
(* Each process has one context (cancelled when it shuts down) and its     *)
(* workers have names no other process ever uses, so a restarted process   *)
(* is simply another instance.  A worker is                                *)
(*   idle         claiming, or waiting for the poll interval to pass;      *)
(*   dispatching  in Dispatcher.Deliver, which the endpoint's timeout ends;*)
(*   finishing    in FinishAttempt, which the finish timeout ends;         *)
(*   stopped      returned from runWorker;                                 *)
(*   crashed      gone with its process.                                   *)
(* Time passes only up to those deadlines: a live worker is assumed to be  *)
(* scheduled when its timer fires.                                         *)
(***************************************************************************)
EXTENDS Store

CONSTANTS Instances,
          InstanceOf,      \* the process of each worker
          Timeout,         \* the largest endpoint timeout (30 s)
          SettingsOf       \* the configuration of each process

\* What config.Load demands of WORKER_LEASE_DURATION, and no more: nothing is
\* said of the time a claim takes.
ASSUME LeaseAssumption ==
    /\ Timeout \in Nat
    /\ SettingsOf \in [Instances -> [lease : Leases, finishTimeout : Nat,
                                     threshold : Thresholds, cooldown : Cooldowns]]
    /\ \A i \in Instances : SettingsOf[i].lease > Timeout + SettingsOf[i].finishTimeout

ASSUME InstanceAssumption == InstanceOf \in [Workers -> Instances]

VARIABLES workers,     \* what each worker is doing
          cancelled    \* the processes that are shutting down

poolVars == <<vars, workers, cancelled>>

\* since is the time the present phase began: for a finishing worker, the time
\* its answer was complete (CompletedAt).
Idle == [pc |-> "idle", job |-> NULL, since |-> 0, answer |-> NULL]

\* inTime is for the properties: whether the lease, when its worker got the job,
\* still covered the request and the report.
Jobs == [delivery : Deliveries, token : Nat, attempt : Nat, inTime : BOOLEAN]

WorkerStates ==
    [pc : {"idle", "dispatching", "finishing", "stopped", "crashed"},
     job : Jobs \cup {NULL}, since : Nat, answer : Results \cup {NULL}]

Lease(w) == SettingsOf[InstanceOf[w]].lease

FinishTimeout(w) == SettingsOf[InstanceOf[w]].finishTimeout

\* The lease counts from the start of the claim's transaction, the timeouts from
\* its end: a claim of that age leaves time enough.
InTime(w, age) == age + Timeout + FinishTimeout(w) < Lease(w)

Holds(w) ==
    LET job == workers[w].job
    IN  HoldsLease(deliveries[job.delivery], w, job.token, job.attempt)

-----------------------------------------------------------------------------
PoolInit ==
    /\ Init
    /\ workers = [w \in Workers |-> Idle]
    /\ cancelled = {}

\* A claim that begins after the cancellation fails at once, and its worker
\* returns.
MayClaim(w) == workers[w].pc = "idle" /\ InstanceOf[w] \notin cancelled

\* runWorker: the claim brings a job, and process starts on it.
ClaimJob(w, t, skip, batch, d) ==
    /\ MayClaim(w)
    /\ ClaimDelivery(w, Lease(w), t, skip, batch, d)
    /\ workers' = [workers EXCEPT ![w] =
                      [pc |-> "dispatching",
                       job |-> [delivery |-> d,
                                token |-> deliveries'[d].leaseToken,
                                attempt |-> deliveries'[d].attemptCount,
                                inTime |-> InTime(w, now - t)],
                       since |-> now, answer |-> NULL]]
    /\ UNCHANGED cancelled

\* The claim commits, but the worker gets an error instead of the job (the
\* connection breaks, or the context ends during the commit).
LoseJob(w, t, skip, batch, d) ==
    /\ MayClaim(w)
    /\ ClaimDelivery(w, Lease(w), t, skip, batch, d)
    /\ UNCHANGED <<workers, cancelled>>

\* The claim finds nothing due; the worker waits and claims again.
FindNothing(w, t, skip, batch) ==
    /\ MayClaim(w)
    /\ ClaimNothing(t, skip, batch)
    /\ UNCHANGED <<workers, cancelled>>

\* Mutant: the dispatcher returns without a result.
Deliver_NoResult(w, answer) ==
    /\ workers[w].pc = "dispatching"
    /\ workers' = [workers EXCEPT ![w].pc = "finishing", ![w].since = now]
    /\ UNCHANGED <<vars, cancelled>>

\* process: the dispatcher answers; a worker whose context has ended by then
\* withholds the circuit signal.
Deliver(w, answer) ==
    /\ workers[w].pc = "dispatching"
    /\ workers' = [workers EXCEPT
                      ![w].pc = "finishing",
                      ![w].since = now,
                      ![w].answer = IF InstanceOf[w] \in cancelled
                                    THEN [answer EXCEPT !.circuit = "none"]
                                    ELSE answer]
    /\ UNCHANGED <<vars, cancelled>>

\* CircuitThreshold and CircuitCooldown go with a failure only.
BreakerFor(w, circuit) ==
    IF circuit = "failure"
    THEN [threshold |-> SettingsOf[InstanceOf[w]].threshold,
          cooldown |-> SettingsOf[InstanceOf[w]].cooldown]
    ELSE [threshold |-> 0, cooldown |-> 0]

\* process: the result is committed, whether or not the worker hears of it.
\* The transaction began after the answer was complete.
RecordResult(w, delay, t) ==
    LET job == workers[w].job
        answer == workers[w].answer
        breaker == BreakerFor(w, answer.circuit)
        retryAt == IF answer.decision = "retry" THEN workers[w].since + delay ELSE 0
    IN  /\ workers[w].pc = "finishing"
        /\ t >= workers[w].since
        /\ FinishAttempt(job.delivery, w, job.token, job.attempt, answer, breaker,
                         retryAt, t)
        /\ workers' = [workers EXCEPT ![w] = Idle]
        /\ UNCHANGED cancelled

\* process: the result is not recorded (the database cannot be reached in time,
\* or the lease is lost); the worker logs it and goes on.
DropResult(w) ==
    /\ workers[w].pc = "finishing"
    /\ workers' = [workers EXCEPT ![w] = Idle]
    /\ UNCHANGED <<vars, cancelled>>

\* Mutant: a cancelled context is taken for a failed claim, and tried again.
Stop_ClaimsAgain(w) ==
    /\ workers[w].pc = "idle" /\ InstanceOf[w] \in cancelled
    /\ UNCHANGED poolVars

\* runWorker returns: the claim or the wait sees the cancelled context.
Stop(w) ==
    /\ workers[w].pc = "idle" /\ InstanceOf[w] \in cancelled
    /\ workers' = [workers EXCEPT ![w].pc = "stopped"]
    /\ UNCHANGED <<vars, cancelled>>

-----------------------------------------------------------------------------
\* A process is told to shut down.
Cancel(i) ==
    /\ i \notin cancelled
    /\ cancelled' = cancelled \cup {i}
    /\ UNCHANGED <<vars, workers>>

\* A process dies, and its open transactions are rolled back.
Crash(i) ==
    /\ workers' = [w \in Workers |->
                      IF InstanceOf[w] = i
                      THEN [Idle EXCEPT !.pc = "crashed"] ELSE workers[w]]
    /\ UNCHANGED <<vars, cancelled>>

\* Mutant: the request runs without the endpoint's timeout.
Deadline_NoTimeout(w) ==
    IF workers[w].pc = "finishing" THEN workers[w].since + FinishTimeout(w) ELSE now + 1

\* Mutant: the result is recorded under the process's own context, without the
\* finish timeout.
Deadline_NoFinishTimeout(w) ==
    IF workers[w].pc = "dispatching" THEN workers[w].since + Timeout ELSE now + 1

Deadline(w) ==
    CASE workers[w].pc = "dispatching" -> workers[w].since + Timeout
      [] workers[w].pc = "finishing" -> workers[w].since + FinishTimeout(w)
      [] OTHER -> now + 1

\* Time passes until the first deadline of a live worker.
PoolTick ==
    /\ \A w \in Workers : now < Deadline(w)
    /\ Tick
    /\ UNCHANGED <<workers, cancelled>>

\* The API calls, by whoever makes them.
ClientStep ==
    /\ \/ \E e \in Endpoints, m \in AttemptLimits : CreateEndpoint(e, m)
       \/ \E e \in Endpoints : DisableEndpoint(e)
       \/ \E e \in Endpoints, d \in Deliveries, t \in TxTimes : EnqueueEvent(e, d, t)
       \/ \E d \in Deliveries, t \in TxTimes : ReplayDelivery(d, t)
    /\ UNCHANGED <<workers, cancelled>>

ClaimStep(w) ==
    \E t \in TxTimes, skip \in SUBSET Deliveries :
        \E batch \in SUBSET (Deliveries \ skip) :
            \/ \E d \in Deliveries \ skip : ClaimJob(w, t, skip, batch, d)
            \/ \E d \in Deliveries \ skip : LoseJob(w, t, skip, batch, d)
            \/ FindNothing(w, t, skip, batch)

FinishStep(w) ==
    \/ \E delay \in RetryDelays, t \in TxTimes : RecordResult(w, delay, t)
    \/ DropResult(w)

DeliverStep(w) == \E answer \in Answers : Deliver(w, answer)

PoolNext ==
    \/ ClientStep
    \/ \E w \in Workers :
          ClaimStep(w) \/ DeliverStep(w) \/ FinishStep(w) \/ Stop(w)
    \/ \E i \in Instances : Cancel(i) \/ Crash(i)
    \/ PoolTick

\* Weak fairness of what a running worker does: Deliver returns because its
\* context has a timeout, FinishAttempt because its context has one, and a
\* worker that is told to stop looks at its context again.
Fairness ==
    \A w \in Workers :
        WF_poolVars(DeliverStep(w)) /\ WF_poolVars(FinishStep(w)) /\ WF_poolVars(Stop(w))

PoolSpec == PoolInit /\ [][PoolNext]_poolVars

FairPoolSpec == PoolSpec /\ Fairness

-----------------------------------------------------------------------------
Working(w) == workers[w].pc \in {"dispatching", "finishing"}

\* Every worker is in a state of runWorker and process, with the job and the
\* answer that state needs.
PoolTypeOK ==
    /\ workers \in [Workers -> WorkerStates]
    /\ \A w \in Workers :
          /\ Working(w) => workers[w].job \in Jobs
          /\ workers[w].pc = "finishing" => workers[w].answer \in Results
    /\ cancelled \subseteq Instances

\* A live worker whose claim took less than the lease exceeds its two timeouts by
\* holds the lease of its delivery until it has reported: it never meets
\* ErrLeaseLost, whatever other processes, with settings of their own, claim,
\* recover or replay.
LeaseHeld ==
    \A w \in Workers : Working(w) /\ workers[w].job.inTime => Holds(w)

\* Of the workers, of one process or of several, that are at work on a delivery
\* at the same time, at most one got it in time: a second request is on its way
\* only where a claim took longer than its lease had to spare.
NoDoubleDispatch ==
    \A v, w \in Workers :
        /\ Working(v) /\ Working(w)
        /\ workers[v].job.delivery = workers[w].job.delivery
        /\ workers[v].job.inTime /\ workers[w].job.inTime
        => v = w

\* internal/config/config.go: "WORKER_LEASE_DURATION must exceed the maximum
\* endpoint timeout and finish timeout": so that the lease of a live worker
\* outlasts its request and the recording of its result.
LeaseOutlastsWork == \A w \in Workers : Working(w) => Holds(w)

\* A process that is told to shut down comes to rest: every one of its workers
\* reports or drops what it was doing and returns (Pool.Run's WaitGroup).
ShutdownCompletes ==
    \A i \in Instances :
        (i \in cancelled) ~>
            (\A w \in Workers : InstanceOf[w] = i =>
                 workers[w].pc \in {"stopped", "crashed"})
=============================================================================
