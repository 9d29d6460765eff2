----------------------------- MODULE PoolProofs -----------------------------
(***************************************************************************)
(* Proofs about module Pool, for any number of processes, workers and      *)
(* deliveries: a pool is a client of the store, so all that StoreProofs    *)
(* shows of the store holds under it; and a live worker that got its job   *)
(* in time never loses its lease.                                          *)
(***************************************************************************)
EXTENDS Pool, StoreProofs

Row(w) == deliveries[workers[w].job.delivery]

\* How long the phase a worker is in may take, and how long its lease must
\* still last when the phase begins.
PhaseLimit(w) ==
    IF workers[w].pc = "dispatching" THEN Timeout ELSE FinishTimeout(w)

LeaseNeeded(w) ==
    IF workers[w].pc = "dispatching" THEN Timeout + FinishTimeout(w) ELSE FinishTimeout(w)

\* A worker at work whose claim took no longer than its lease had to spare.
Safe(w) == Working(w) /\ workers[w].job.inTime

\* What holds of a worker at work: it has a lease that was granted and is within
\* its deadline; and if it got its job in time, the lease is in the table and will
\* outlast what is left to do.
Covered(w) ==
    /\ Working(w) =>
          /\ workers[w].job.token \in 1 .. tokens[workers[w].job.delivery]
          /\ workers[w].since <= now
          /\ now <= workers[w].since + PhaseLimit(w)
    /\ Safe(w) =>
          /\ Holds(w)
          /\ workers[w].since + LeaseNeeded(w) < Row(w).lockedUntil

PoolInv ==
    /\ IInv
    /\ PoolTypeOK
    /\ \A w \in Workers : Covered(w)

-----------------------------------------------------------------------------
\* The settings of a worker's process.
LEMMA WorkerSettings ==
    ASSUME NEW w \in Workers
    PROVE  /\ Timeout \in Nat /\ FinishTimeout(w) \in Nat
           /\ Lease(w) \in Leases /\ Lease(w) \in Nat
           /\ BreakerFor(w, "failure") \in Breakers("failure")
<1>1. SettingsOf[InstanceOf[w]] \in [lease : Leases, finishTimeout : Nat,
                                    threshold : Thresholds, cooldown : Cooldowns]
  BY LeaseAssumption, InstanceAssumption
<1> QED  BY <1>1, LeaseAssumption, TimingAssumption
         DEF FinishTimeout, Lease, BreakerFor, Breakers

\* A worker at work has a job.
LEMMA WorkingFacts ==
    ASSUME PoolInv, NEW w \in Workers, Working(w)
    PROVE  /\ workers[w].job \in Jobs
           /\ workers[w].job.delivery \in Deliveries
           /\ workers[w].job.token \in Nat
           /\ workers[w].since \in Nat
           /\ now \in Nat
<1>1. /\ workers[w] \in WorkerStates /\ workers[w].job \in Jobs
      /\ now \in Nat
  BY DEF PoolInv, PoolTypeOK, IInv, TypeOK
<1> QED  BY <1>1 DEF Jobs, WorkerStates

\* If it got the job in time, its lease has not run out.
LEMMA SafeFacts ==
    ASSUME PoolInv, NEW w \in Workers, Safe(w)
    PROVE  /\ Working(w)
           /\ workers[w].job.delivery \in Deliveries
           /\ Row(w).status = "processing" /\ Row(w).lockedBy = w
           /\ Row(w).lockedUntil \in Nat
           /\ Row(w).lockedUntil > now
<1>1. Working(w)
  BY DEF Safe
<1>2. /\ workers[w].job.delivery \in Deliveries
      /\ workers[w].since \in Nat /\ now \in Nat
  BY <1>1, WorkingFacts
<1>3. Row(w).status = "processing" /\ Row(w).lockedBy = w
  BY DEF PoolInv, Covered, Holds, HoldsLease, Row
<1>4. Row(w).lockedUntil \in Nat
  BY <1>2, <1>3, LeaseHasEnd DEF PoolInv, Row
<1>5. PhaseLimit(w) \in Nat /\ LeaseNeeded(w) \in Nat
      /\ PhaseLimit(w) <= LeaseNeeded(w)
  BY WorkerSettings DEF PhaseLimit, LeaseNeeded
<1>6. /\ now <= workers[w].since + PhaseLimit(w)
      /\ workers[w].since + LeaseNeeded(w) < Row(w).lockedUntil
  BY <1>1 DEF PoolInv, Covered
<1>7. Row(w).lockedUntil > now
  BY <1>2, <1>4, <1>5, <1>6
<1> QED  BY <1>1, <1>2, <1>3, <1>4, <1>7

\* A worker that a step leaves alone, with its delivery if it is safe.
LEMMA StillCovered ==
    ASSUME PoolInv, NEW w \in Workers,
           workers'[w] = workers[w], now' = now,
           tokens' \in [Deliveries -> Nat],
           \A d \in Deliveries : tokens'[d] >= tokens[d],
           Safe(w) => deliveries'[workers[w].job.delivery] = Row(w)
    PROVE  Covered(w)'
<1>1. Working(w)' = Working(w) /\ Safe(w)' = Safe(w)
      /\ PhaseLimit(w)' = PhaseLimit(w) /\ LeaseNeeded(w)' = LeaseNeeded(w)
  BY DEF Safe, Working, PhaseLimit, LeaseNeeded
<1>2. ASSUME Working(w)
      PROVE  /\ workers[w].job.token \in 1 .. tokens'[workers[w].job.delivery]
             /\ workers[w].since <= now /\ now <= workers[w].since + PhaseLimit(w)
  <2>1. workers[w].job.delivery \in Deliveries /\ workers[w].job.token \in Nat
    BY <1>2, WorkingFacts
  <2>2. tokens \in [Deliveries -> Nat]
    BY DEF PoolInv, IInv, TypeOK
  <2> QED  BY <1>2, <2>1, <2>2 DEF PoolInv, Covered
<1>3. ASSUME Safe(w)
      PROVE  Holds(w)' /\ workers[w].since + LeaseNeeded(w) < Row(w)'.lockedUntil
  <2>1. Row(w)' = Row(w)
    BY <1>3 DEF Row
  <2>2. Holds(w)'
    BY <1>3, <2>1 DEF PoolInv, Covered, Holds, Row
  <2> QED  BY <1>3, <2>1, <2>2 DEF PoolInv, Covered
<1> QED  BY <1>1, <1>2, <1>3 DEF Covered

-----------------------------------------------------------------------------
(***************************************************************************)
(* The store's side.                                                       *)
(***************************************************************************)

\* No claim recovers or leases a delivery whose lease has not run out.
LEMMA ClaimKeepsLeases ==
    ASSUME IInv, NEW t \in TxTimes, NEW skip, NEW batch, NEW x \in Deliveries,
           deliveries[x].status = "processing", deliveries[x].lockedUntil > now,
           RecoveryBatch(batch, skip, t), recoverExpiredLeases(batch)
    PROVE  AfterRecovery(batch, t)[x] = deliveries[x]
<1>1. deliveries[x].lockedUntil \in Nat /\ now \in Nat
  BY LeaseHasEnd, TxTime
<1>2. x \notin batch
  BY <1>1, RecoveryStep
<1> QED  BY <1>2, RecoveryStep

\* What a claim that leases d does: to d, to other leases, to the tokens.
LEMMA ClaimEffect ==
    ASSUME IInv, NEW w \in Workers, NEW lease \in Leases, NEW t \in TxTimes, NEW skip,
           NEW batch, NEW d \in Deliveries, ClaimDelivery(w, lease, t, skip, batch, d)
    PROVE  /\ \A x \in Deliveries :
                 deliveries[x].status = "processing" /\ deliveries[x].lockedUntil > now
                     => deliveries'[x] = deliveries[x] /\ x # d
           /\ tokens' \in [Deliveries -> Nat]
           /\ \A x \in Deliveries : tokens'[x] >= tokens[x]
           /\ deliveries'[d].status = "processing" /\ deliveries'[d].lockedBy = w
           /\ deliveries'[d].leaseToken = tokens'[d] /\ tokens'[d] >= 1
           /\ deliveries'[d].attemptCount \in Nat
           /\ deliveries'[d].lockedUntil = t + lease
           /\ now' = now
<1> DEFINE rows == AfterRecovery(batch, t)
           new == Claimed(rows[d], w, tokens[d] + 1, lease, t)
<1>1. /\ RecoveryBatch(batch, skip, t) /\ recoverExpiredLeases(batch)
      /\ Claimable(rows[d], t)
      /\ deliveries' = [rows EXCEPT ![d] = new]
      /\ tokens' = [tokens EXCEPT ![d] = tokens[d] + 1]
      /\ now' = now
  BY DEF ClaimDelivery
<1>2. rows \in [Deliveries -> DeliveryRows]
  BY <1>1, RecoveryStep
<1>3. tokens \in [Deliveries -> Nat]
  BY DEF IInv, TypeOK
<1>4. deliveries'[d] = new
  BY <1>1, <1>2
<1>5. rows[d] \in DeliveryRows /\ rows[d].status # "processing"
  BY <1>1, <1>2 DEF Claimable
<1>6. /\ new.status = "processing" /\ new.lockedBy = w
      /\ new.leaseToken = tokens[d] + 1 /\ new.lockedUntil = t + lease
      /\ new.attemptCount = rows[d].attemptCount + 1 /\ rows[d].attemptCount \in Nat
  BY <1>5 DEF Claimed, DeliveryRows
<1>7. ASSUME NEW x \in Deliveries, deliveries[x].status = "processing",
             deliveries[x].lockedUntil > now
      PROVE  deliveries'[x] = deliveries[x] /\ x # d
  <2>1. rows[x] = deliveries[x]
    BY <1>1, <1>7, ClaimKeepsLeases
  <2>2. x # d
    BY <1>5, <1>7, <2>1
  <2> QED  BY <1>1, <1>2, <2>1, <2>2
<1> HIDE DEF new, rows
<1>8. /\ tokens' \in [Deliveries -> Nat]
      /\ \A x \in Deliveries : tokens'[x] >= tokens[x]
      /\ tokens'[d] = tokens[d] + 1 /\ tokens'[d] >= 1
  BY <1>1, <1>3
<1> QED  BY <1>1, <1>4, <1>6, <1>7, <1>8

-----------------------------------------------------------------------------
(***************************************************************************)
(* The pool's steps are the store's.                                       *)
(***************************************************************************)

\* Every step of a pool is a step of the store, or changes no table.
LEMMA PoolStepIsStoreStep == PoolInv /\ [PoolNext]_poolVars => [Next]_vars
<1> SUFFICES ASSUME PoolInv, [PoolNext]_poolVars PROVE [Next]_vars
  OBVIOUS
<1>1. CASE ClientStep
  BY <1>1 DEF ClientStep, Next
<1>2. ASSUME NEW w \in Workers, ClaimStep(w) PROVE Claim
  BY <1>2, WorkerSettings DEF ClaimStep, ClaimJob, LoseJob, FindNothing, Claim
<1>3. ASSUME NEW w \in Workers, DeliverStep(w) PROVE UNCHANGED vars
  BY <1>3 DEF DeliverStep, Deliver
<1>4. ASSUME NEW w \in Workers, FinishStep(w) PROVE Finish \/ UNCHANGED vars
  <2>1. CASE DropResult(w)
    BY <2>1 DEF DropResult
  <2>2. ASSUME NEW delay \in RetryDelays, NEW t \in TxTimes,
               RecordResult(w, delay, t)
        PROVE  Finish
    <3> DEFINE job == workers[w].job
               answer == workers[w].answer
               breaker == BreakerFor(w, answer.circuit)
               retryAt == IF answer.decision = "retry"
                          THEN workers[w].since + delay ELSE 0
    <3>1. /\ workers[w].pc = "finishing"
          /\ FinishAttempt(job.delivery, w, job.token, job.attempt, answer,
                           breaker, retryAt, t)
      BY <2>2 DEF RecordResult
    <3>2. Working(w)
      BY <3>1 DEF Working
    <3>3. /\ job.delivery \in Deliveries /\ answer \in Results
          /\ job.token \in 1 .. tokens[job.delivery]
          /\ workers[w].since \in 0 .. now
      BY <3>1, <3>2, WorkingFacts DEF PoolInv, PoolTypeOK, Covered
    <3>4. job.attempt \in 1 .. deliveries[job.delivery].attemptCount
      <4>1. HoldsLease(deliveries[job.delivery], w, job.token, job.attempt)
        BY <3>1 DEF FinishAttempt
      <4>2. RowInv(deliveries[job.delivery], attempts[job.delivery])
        BY <3>3 DEF PoolInv, IInv
      <4>3. /\ deliveries[job.delivery].attemptCount \in Nat
            /\ deliveries[job.delivery].attemptCount >= 1
        BY <4>1, <4>2 DEF HoldsLease, RowInv, AttemptColumns, DeliveryRows
      <4> QED  BY <4>1, <4>3 DEF HoldsLease
    <3>5. retryAt \in RetryTimes(answer.decision)
      BY <3>3 DEF RetryTimes
    <3>6. breaker \in Breakers(answer.circuit)
      BY WorkerSettings DEF BreakerFor, Breakers
    <3> HIDE DEF job, answer, breaker, retryAt
    <3> QED  BY <3>1, <3>3, <3>4, <3>5, <3>6 DEF Finish
  <2> QED  BY <1>4, <2>1, <2>2 DEF FinishStep
<1>5. ASSUME NEW w \in Workers, Stop(w) PROVE UNCHANGED vars
  BY <1>5 DEF Stop
<1>6. ASSUME NEW i \in Instances, Cancel(i) \/ Crash(i) PROVE UNCHANGED vars
  BY <1>6 DEF Cancel, Crash
<1>7. CASE PoolTick
  BY <1>7 DEF PoolTick, Next
<1>8. CASE UNCHANGED poolVars
  BY <1>8 DEF poolVars
<1> QED  BY <1>1, <1>2, <1>3, <1>4, <1>5, <1>6, <1>7, <1>8 DEF PoolNext, Next

-----------------------------------------------------------------------------
(***************************************************************************)
(* One lemma per kind of step: the workers remain covered.                 *)
(***************************************************************************)
WorkersOK == PoolTypeOK' /\ \A w \in Workers : Covered(w)'

\* A worker's record after an update of its own.
LEMMA WorkerUpdate ==
    ASSUME PoolInv, NEW w \in Workers, NEW new \in WorkerStates,
           workers' = [workers EXCEPT ![w] = new], cancelled' = cancelled,
           new.pc \in {"dispatching", "finishing"} => new.job \in Jobs,
           new.pc = "finishing" => new.answer \in Results
    PROVE  /\ PoolTypeOK'
           /\ workers'[w] = new
           /\ \A v \in Workers : v # w => workers'[v] = workers[v]
<1>1. workers'[w] = new /\ \A v \in Workers : v # w => workers'[v] = workers[v]
  BY DEF PoolInv, PoolTypeOK
<1>2. workers' \in [Workers -> WorkerStates] /\ cancelled' \subseteq Instances
  BY DEF PoolInv, PoolTypeOK
<1>3. ASSUME NEW v \in Workers
      PROVE  /\ Working(v)' => workers'[v].job \in Jobs
             /\ workers'[v].pc = "finishing" => workers'[v].answer \in Results
  <2>1. CASE v = w
    BY <2>1, <1>1 DEF Working
  <2>2. CASE v # w
    BY <2>2, <1>1 DEF PoolInv, PoolTypeOK, Working
  <2> QED  BY <2>1, <2>2
<1> QED  BY <1>1, <1>2, <1>3 DEF PoolTypeOK

\* A worker with nothing to do is a worker state.
LEMMA IdleStates ==
    /\ Idle \in WorkerStates /\ Idle.pc = "idle"
    /\ [Idle EXCEPT !.pc = "crashed"] \in WorkerStates
    /\ [Idle EXCEPT !.pc = "crashed"].pc = "crashed"
BY DEF Idle, WorkerStates

\* API calls.
LEMMA ClientStepOK ==
    ASSUME PoolInv, ClientStep PROVE WorkersOK
<1>1. PoolTypeOK' /\ workers' = workers
  BY DEF ClientStep, PoolInv, PoolTypeOK, Working
<1>2. tokens' = tokens /\ now' = now
  BY DEF ClientStep, CreateEndpoint, DisableEndpoint, EnqueueEvent, ReplayDelivery
<1>3. ASSUME NEW x \in Deliveries, deliveries[x].status = "processing"
      PROVE  deliveries'[x] = deliveries[x]
  BY <1>3 DEF ClientStep, CreateEndpoint, DisableEndpoint, EnqueueEvent,
         ReplayDelivery, Replayable, PoolInv, IInv, TypeOK
<1>4. /\ tokens' \in [Deliveries -> Nat]
      /\ \A x \in Deliveries : tokens'[x] >= tokens[x]
  BY <1>2 DEF PoolInv, IInv, TypeOK
<1>5. ASSUME NEW w \in Workers PROVE Covered(w)'
  <2>1. Safe(w) => deliveries'[workers[w].job.delivery] = Row(w)
    BY <1>3, SafeFacts DEF Row
  <2> QED  BY <1>1, <1>2, <1>4, <2>1, StillCovered
<1> QED  BY <1>1, <1>5 DEF WorkersOK

\* A claim whose worker gets the job.
LEMMA ClaimJobOK ==
    ASSUME PoolInv, NEW w \in Workers, NEW t \in TxTimes, NEW skip, NEW batch,
           NEW d \in Deliveries, ClaimJob(w, t, skip, batch, d)
    PROVE  WorkersOK
<1> DEFINE job == [delivery |-> d, token |-> deliveries'[d].leaseToken,
                   attempt |-> deliveries'[d].attemptCount,
                   inTime |-> InTime(w, now - t)]
           new == [pc |-> "dispatching", job |-> job, since |-> now, answer |-> NULL]
<1>1. /\ workers[w].pc = "idle" /\ ClaimDelivery(w, Lease(w), t, skip, batch, d)
      /\ workers' = [workers EXCEPT ![w] = new] /\ cancelled' = cancelled
  BY DEF ClaimJob, MayClaim
<1>2. /\ \A x \in Deliveries :
            deliveries[x].status = "processing" /\ deliveries[x].lockedUntil > now
                => deliveries'[x] = deliveries[x] /\ x # d
      /\ tokens' \in [Deliveries -> Nat]
      /\ \A x \in Deliveries : tokens'[x] >= tokens[x]
      /\ deliveries'[d].status = "processing" /\ deliveries'[d].lockedBy = w
      /\ deliveries'[d].leaseToken = tokens'[d] /\ tokens'[d] >= 1
      /\ deliveries'[d].attemptCount \in Nat
      /\ deliveries'[d].lockedUntil = t + Lease(w)
      /\ now' = now
  BY <1>1, ClaimEffect, WorkerSettings DEF PoolInv
<1>3. now \in Nat /\ t \in Nat /\ t <= now
  BY TxTime DEF PoolInv, TxTimes
<1>4. job \in Jobs
  BY <1>2 DEF Jobs, InTime
<1>5. new \in WorkerStates
  BY <1>3, <1>4 DEF WorkerStates
<1>6. new.pc = "dispatching" /\ new.job = job /\ new.since = now
      /\ job.delivery = d /\ job.token = tokens'[d]
      /\ job.attempt = deliveries'[d].attemptCount /\ job.inTime = InTime(w, now - t)
  BY <1>2
<1> HIDE DEF new, job
<1>7. /\ PoolTypeOK' /\ workers'[w] = new
      /\ \A v \in Workers : v # w => workers'[v] = workers[v]
  BY <1>1, <1>4, <1>5, <1>6, WorkerUpdate
<1>8. Covered(w)'
  <2>1. Holds(w)'
    BY <1>2, <1>6, <1>7 DEF Holds, HoldsLease
  <2>2. workers'[w].job.token \in 1 .. tokens'[workers'[w].job.delivery]
    BY <1>2, <1>6, <1>7
  <2>3. /\ PhaseLimit(w)' = Timeout /\ LeaseNeeded(w)' = Timeout + FinishTimeout(w)
        /\ Timeout \in Nat /\ FinishTimeout(w) \in Nat /\ Lease(w) \in Nat
    BY <1>6, <1>7, WorkerSettings DEF PhaseLimit, LeaseNeeded, FinishTimeout
  <2>4. Row(w)'.lockedUntil = t + Lease(w)
    BY <1>2, <1>6, <1>7 DEF Row
  <2>5. workers'[w].since <= now' /\ now' <= workers'[w].since + PhaseLimit(w)'
    BY <1>2, <1>3, <1>6, <1>7, <2>3
  <2>6. ASSUME Safe(w)' PROVE workers'[w].since + LeaseNeeded(w)' < Row(w)'.lockedUntil
    <3>1. InTime(w, now - t)
      BY <1>6, <1>7, <2>6 DEF Safe
    <3>2. now + (Timeout + FinishTimeout(w)) < t + Lease(w)
      BY <1>3, <2>3, <3>1 DEF InTime
    <3> QED  BY <1>6, <1>7, <2>3, <2>4, <3>2
  <2> QED  BY <2>1, <2>2, <2>5, <2>6 DEF Covered
<1>9. ASSUME NEW v \in Workers, v # w PROVE Covered(v)'
  <2>1. Safe(v) => deliveries'[workers[v].job.delivery] = Row(v)
    BY <1>2, SafeFacts DEF Row
  <2>2. workers'[v] = workers[v]
    BY <1>7, <1>9
  <2> QED  BY <1>2, <2>1, <2>2, StillCovered
<1> QED  BY <1>7, <1>8, <1>9 DEF WorkersOK

\* A claim whose worker gets no job.
LEMMA OtherClaimOK ==
    ASSUME PoolInv, NEW w \in Workers, NEW t \in TxTimes, NEW skip, NEW batch,
           \/ \E d \in Deliveries : LoseJob(w, t, skip, batch, d)
           \/ FindNothing(w, t, skip, batch)
    PROVE  WorkersOK
<1>1. PoolTypeOK' /\ workers' = workers
  BY DEF LoseJob, FindNothing, PoolInv, PoolTypeOK, Working
<1>2. /\ \A x \in Deliveries :
            deliveries[x].status = "processing" /\ deliveries[x].lockedUntil > now
                => deliveries'[x] = deliveries[x]
      /\ tokens' \in [Deliveries -> Nat]
      /\ \A x \in Deliveries : tokens'[x] >= tokens[x]
      /\ now' = now
  <2>1. ASSUME NEW d \in Deliveries, LoseJob(w, t, skip, batch, d) PROVE <1>2!:
    BY <2>1, ClaimEffect, WorkerSettings DEF LoseJob, PoolInv
  <2>2. CASE FindNothing(w, t, skip, batch)
    <3>1. /\ RecoveryBatch(batch, skip, t) /\ recoverExpiredLeases(batch)
          /\ deliveries' = AfterRecovery(batch, t)
          /\ tokens' = tokens /\ now' = now
      BY <2>2 DEF FindNothing, ClaimNothing
    <3>2. tokens \in [Deliveries -> Nat]
      BY DEF PoolInv, IInv, TypeOK
    <3> QED  BY <3>1, <3>2, ClaimKeepsLeases DEF PoolInv
  <2> QED  BY <2>1, <2>2
<1>3. ASSUME NEW v \in Workers PROVE Covered(v)'
  <2>1. Safe(v) => deliveries'[workers[v].job.delivery] = Row(v)
    BY <1>2, SafeFacts DEF Row
  <2> QED  BY <1>1, <1>2, <2>1, StillCovered
<1> QED  BY <1>1, <1>3 DEF WorkersOK

\* A step of one worker that changes no table.
LEMMA OwnStepOK ==
    ASSUME PoolInv, NEW w \in Workers, NEW new \in WorkerStates,
           workers' = [workers EXCEPT ![w] = new], cancelled' = cancelled,
           UNCHANGED vars,
           new.pc \in {"dispatching", "finishing"} => new.job \in Jobs,
           new.pc = "finishing" => new.answer \in Results,
           workers'[w] = new => Covered(w)'
    PROVE  WorkersOK
<1>1. /\ PoolTypeOK' /\ workers'[w] = new
      /\ \A v \in Workers : v # w => workers'[v] = workers[v]
  BY WorkerUpdate
<1>2. tokens' = tokens /\ now' = now /\ deliveries' = deliveries
      /\ tokens \in [Deliveries -> Nat]
  BY DEF vars, PoolInv, IInv, TypeOK
<1>3. ASSUME NEW v \in Workers, v # w PROVE Covered(v)'
  BY <1>1, <1>2, <1>3, StillCovered DEF Row
<1> QED  BY <1>1, <1>3 DEF WorkersOK

\* The dispatcher answers.
LEMMA DeliverOK ==
    ASSUME PoolInv, NEW w \in Workers, NEW answer \in Answers, Deliver(w, answer)
    PROVE  WorkersOK
<1> DEFINE result == IF InstanceOf[w] \in cancelled
                     THEN [answer EXCEPT !.circuit = "none"] ELSE answer
           new == [workers[w] EXCEPT !.pc = "finishing", !.since = now,
                                     !.answer = result]
<1>1. /\ workers[w].pc = "dispatching" /\ Working(w)
      /\ workers' = [workers EXCEPT ![w] = new] /\ cancelled' = cancelled
      /\ UNCHANGED vars
  BY DEF Deliver, Working, PoolInv, PoolTypeOK
<1>2. result \in Results
  BY DEF Results
<1> HIDE DEF result
<1>3. workers[w] \in WorkerStates /\ workers[w].job \in Jobs /\ now \in Nat
  BY <1>1, WorkingFacts DEF PoolInv, PoolTypeOK
<1>4. /\ new \in WorkerStates /\ new.pc = "finishing" /\ new.since = now
      /\ new.job = workers[w].job /\ new.answer = result
  BY <1>2, <1>3 DEF WorkerStates
<1> HIDE DEF new
<1>5. ASSUME workers'[w] = new PROVE Covered(w)'
  <2>1. /\ deliveries' = deliveries /\ tokens' = tokens /\ now' = now
    BY <1>1 DEF vars
  <2>2. Row(w)' = Row(w) /\ Safe(w)' = Safe(w) /\ Working(w)'
    BY <1>1, <1>4, <1>5, <2>1 DEF Row, Safe, Working
  <2>3. /\ PhaseLimit(w)' = FinishTimeout(w) /\ LeaseNeeded(w)' = FinishTimeout(w)
        /\ Timeout \in Nat /\ FinishTimeout(w) \in Nat
    BY <1>4, <1>5, WorkerSettings DEF PhaseLimit, LeaseNeeded, FinishTimeout
  <2>4. now <= now + FinishTimeout(w)
    BY <1>3, <2>3
  <2>5. ASSUME Safe(w) PROVE Holds(w)' /\ now + FinishTimeout(w) < Row(w).lockedUntil
    <3>1. /\ workers[w].since \in Nat
          /\ now <= workers[w].since + Timeout
          /\ workers[w].since + (Timeout + FinishTimeout(w)) < Row(w).lockedUntil
          /\ Row(w).lockedUntil \in Nat
      BY <1>1, <2>5, WorkingFacts, SafeFacts DEF PoolInv, Covered, PhaseLimit, LeaseNeeded
    <3>2. now + FinishTimeout(w) < Row(w).lockedUntil
      BY <1>3, <2>3, <3>1
    <3>3. Holds(w)'
      BY <1>4, <1>5, <2>1, <2>5 DEF PoolInv, Covered, Holds
    <3> QED  BY <3>2, <3>3
  <2>6. workers'[w].job.token \in 1 .. tokens'[workers'[w].job.delivery]
    BY <1>1, <1>4, <1>5, <2>1 DEF PoolInv, Covered
  <2> QED  BY <1>3, <1>4, <1>5, <2>1, <2>2, <2>3, <2>4, <2>5, <2>6 DEF Covered
<1> QED  BY <1>1, <1>2, <1>3, <1>4, <1>5, OwnStepOK

\* A worker reports.
LEMMA RecordResultOK ==
    ASSUME PoolInv, NEW w \in Workers, NEW delay, NEW t, RecordResult(w, delay, t)
    PROVE  WorkersOK
<1> DEFINE d == workers[w].job.delivery
<1>1. /\ workers[w].pc = "finishing" /\ Working(w)
      /\ workers' = [workers EXCEPT ![w] = Idle] /\ cancelled' = cancelled
      /\ tokens' = tokens /\ now' = now /\ deliveries[d].lockedBy = w
      /\ \A x \in Deliveries : x # d => deliveries'[x] = deliveries[x]
  <2>1. deliveries \in [Deliveries -> DeliveryRows]
    BY DEF PoolInv, IInv, TypeOK
  <2> QED  BY <2>1 DEF RecordResult, FinishAttempt, HoldsLease, Working
<1>2. /\ PoolTypeOK' /\ workers'[w] = Idle
      /\ \A v \in Workers : v # w => workers'[v] = workers[v]
  BY <1>1, IdleStates, WorkerUpdate
<1>3. Covered(w)'
  BY <1>2, IdleStates DEF Covered, Safe, Working
<1>4. tokens \in [Deliveries -> Nat]
  BY DEF PoolInv, IInv, TypeOK
<1>5. ASSUME NEW v \in Workers, v # w PROVE Covered(v)'
  <2>1. ASSUME Safe(v) PROVE deliveries'[workers[v].job.delivery] = Row(v)
    <3>1. workers[v].job.delivery \in Deliveries /\ Row(v).lockedBy = v
      BY <2>1, SafeFacts
    <3>2. workers[v].job.delivery # d
      BY <1>1, <1>5, <3>1 DEF Row
    <3> QED  BY <1>1, <3>1, <3>2 DEF Row
  <2> QED  BY <1>1, <1>2, <1>4, <1>5, <2>1, StillCovered
<1> QED  BY <1>2, <1>3, <1>5 DEF WorkersOK

\* A worker drops its result, or stops.
LEMMA DropOrStopOK ==
    ASSUME PoolInv, NEW w \in Workers, DropResult(w) \/ Stop(w)
    PROVE  WorkersOK
<1>1. CASE DropResult(w)
  <2>1. workers' = [workers EXCEPT ![w] = Idle] /\ cancelled' = cancelled
        /\ UNCHANGED vars
    BY <1>1 DEF DropResult
  <2>2. workers'[w] = Idle => Covered(w)'
    BY IdleStates DEF Covered, Safe, Working
  <2> QED  BY <2>1, <2>2, IdleStates, OwnStepOK
<1>2. CASE Stop(w)
  <2> DEFINE new == [workers[w] EXCEPT !.pc = "stopped"]
  <2>1. workers' = [workers EXCEPT ![w] = new] /\ cancelled' = cancelled
        /\ UNCHANGED vars
    BY <1>2 DEF Stop, PoolInv, PoolTypeOK
  <2>2. new \in WorkerStates /\ new.pc = "stopped"
    BY DEF PoolInv, PoolTypeOK, WorkerStates
  <2> HIDE DEF new
  <2>3. workers'[w] = new => Covered(w)'
    BY <2>2 DEF Covered, Safe, Working
  <2> QED  BY <2>1, <2>2, <2>3, OwnStepOK
<1> QED  BY <1>1, <1>2

\* A process is told to stop, or dies.
LEMMA ProcessStepOK ==
    ASSUME PoolInv, NEW i \in Instances, Cancel(i) \/ Crash(i)
    PROVE  WorkersOK
<1> DEFINE gone == [Idle EXCEPT !.pc = "crashed"]
<1>1. /\ tokens' = tokens /\ now' = now /\ deliveries' = deliveries
      /\ tokens \in [Deliveries -> Nat]
  BY DEF Cancel, Crash, vars, PoolInv, IInv, TypeOK
<1>2. gone \in WorkerStates /\ gone.pc = "crashed"
  BY IdleStates
<1> HIDE DEF gone
<1>3. /\ cancelled' \subseteq Instances
      /\ workers' \in [Workers -> WorkerStates]
      /\ \A w \in Workers : workers'[w] = workers[w] \/ workers'[w] = gone
  BY <1>2 DEF Cancel, Crash, PoolInv, PoolTypeOK, gone
<1>4. PoolTypeOK'
  BY <1>2, <1>3 DEF PoolInv, PoolTypeOK, Working
<1>5. ASSUME NEW w \in Workers PROVE Covered(w)'
  <2>1. CASE workers'[w] = workers[w]
    BY <1>1, <2>1, StillCovered DEF Row
  <2>2. CASE workers'[w] = gone
    BY <1>2, <2>2 DEF Covered, Safe, Working
  <2> QED  BY <1>3, <2>1, <2>2
<1> QED  BY <1>4, <1>5 DEF WorkersOK

\* Time passes, but not beyond a worker's deadline.
LEMMA PoolTickOK ==
    ASSUME PoolInv, PoolTick PROVE WorkersOK
<1>1. /\ workers' = workers /\ cancelled' = cancelled
      /\ deliveries' = deliveries /\ tokens' = tokens /\ now' = now + 1
      /\ now \in Nat
  BY DEF PoolTick, Tick, PoolInv, IInv, TypeOK
<1>2. PoolTypeOK'
  BY <1>1 DEF PoolInv, PoolTypeOK, Working
<1>3. ASSUME NEW w \in Workers, Working(w) PROVE Covered(w)'
  <2>1. now < workers[w].since + PhaseLimit(w)
    BY <1>3 DEF PoolTick, Deadline, PhaseLimit, Working
  <2>2. /\ workers[w].since \in Nat /\ PhaseLimit(w) \in Nat
        /\ workers[w].since <= now
    BY <1>3, WorkingFacts, WorkerSettings DEF PhaseLimit, PoolInv, Covered
  <2>3. /\ Row(w)' = Row(w) /\ Holds(w)' = Holds(w) /\ Safe(w)' = Safe(w)
        /\ PhaseLimit(w)' = PhaseLimit(w) /\ LeaseNeeded(w)' = LeaseNeeded(w)
    BY <1>1 DEF Holds, Row, Safe, Working, PhaseLimit, LeaseNeeded
  <2>4. now' <= workers'[w].since + PhaseLimit(w)' /\ workers'[w].since <= now'
    BY <1>1, <2>1, <2>2, <2>3
  <2> QED  BY <1>1, <1>3, <2>3, <2>4 DEF PoolInv, Covered
<1>4. \A w \in Workers : ~Working(w) => Covered(w)'
  BY <1>1 DEF Covered, Safe, Working
<1> QED  BY <1>2, <1>3, <1>4 DEF WorkersOK

-----------------------------------------------------------------------------
(***************************************************************************)
(* The theorems.                                                           *)
(***************************************************************************)

\* Before anything happens.
LEMMA InitPoolInv == PoolInit => PoolInv
<1> SUFFICES ASSUME PoolInit PROVE PoolInv
  OBVIOUS
<1>1. IInv
  BY InitIInv DEF PoolInit
<1>2. /\ workers \in [Workers -> WorkerStates] /\ cancelled \subseteq Instances
      /\ \A w \in Workers : workers[w] = Idle
  BY IdleStates DEF PoolInit
<1>3. \A w \in Workers : ~Working(w) /\ workers[w].pc # "finishing"
  BY <1>2, IdleStates DEF Working
<1> QED  BY <1>1, <1>2, <1>3 DEF PoolInv, PoolTypeOK, Covered, Safe

\* PoolInv is inductive.
LEMMA NextPoolInv == PoolInv /\ [PoolNext]_poolVars => PoolInv'
<1> SUFFICES ASSUME PoolInv, [PoolNext]_poolVars PROVE PoolInv'
  OBVIOUS
<1>1. IInv'
  BY PoolStepIsStoreStep, NextStep DEF PoolInv, StepOK
<1>2. WorkersOK
  <2>1. CASE ClientStep
    BY <2>1, ClientStepOK
  <2>2. ASSUME NEW w \in Workers, ClaimStep(w) PROVE WorkersOK
    BY <2>2, ClaimJobOK, OtherClaimOK DEF ClaimStep
  <2>3. ASSUME NEW w \in Workers, DeliverStep(w) PROVE WorkersOK
    BY <2>3, DeliverOK DEF DeliverStep
  <2>4. ASSUME NEW w \in Workers, FinishStep(w) PROVE WorkersOK
    BY <2>4, RecordResultOK, DropOrStopOK DEF FinishStep
  <2>5. ASSUME NEW w \in Workers, Stop(w) PROVE WorkersOK
    BY <2>5, DropOrStopOK
  <2>6. ASSUME NEW i \in Instances, Cancel(i) \/ Crash(i) PROVE WorkersOK
    BY <2>6, ProcessStepOK
  <2>7. CASE PoolTick
    BY <2>7, PoolTickOK
  <2>8. CASE UNCHANGED poolVars
    <3>1. /\ workers' = workers /\ cancelled' = cancelled
          /\ deliveries' = deliveries /\ tokens' = tokens /\ now' = now
          /\ tokens \in [Deliveries -> Nat]
      BY <2>8 DEF poolVars, vars, PoolInv, IInv, TypeOK
    <3>2. PoolTypeOK'
      BY <3>1 DEF PoolInv, PoolTypeOK, Working
    <3>3. \A w \in Workers : Covered(w)'
      BY <3>1, StillCovered DEF Row
    <3> QED  BY <3>2, <3>3 DEF WorkersOK
  <2> QED  BY <2>1, <2>2, <2>3, <2>4, <2>5, <2>6, <2>7, <2>8 DEF PoolNext
<1> QED  BY <1>1, <1>2 DEF PoolInv, WorkersOK

\* Every reachable state of a pool satisfies the invariant.
THEOREM PoolInvariant == PoolSpec => []PoolInv
BY InitPoolInv, NextPoolInv, PTL DEF PoolSpec

\* Every worker is in a state of runWorker and process.
THEOREM PoolTypeCorrect == PoolSpec => []PoolTypeOK
<1>1. PoolInv => PoolTypeOK
  BY DEF PoolInv
<1> QED  BY PoolInvariant, <1>1, PTL

\* The pool is a client of the store: whatever is proved of Store's Spec holds
\* of the tables under any pool.
THEOREM PoolImplementsStore == PoolSpec => Spec
<1>1. PoolInit => Init
  BY DEF PoolInit
<1> QED  BY PoolInvariant, PoolStepIsStoreStep, <1>1, PTL DEF PoolSpec, Spec

\* While it works, a live worker that got its job in time holds its lease,
\* however long the claims of others take.
THEOREM LeaseIsHeld == PoolSpec => []LeaseHeld
<1>1. PoolInv => LeaseHeld
  BY DEF PoolInv, Covered, Safe, LeaseHeld
<1> QED  BY PoolInvariant, <1>1, PTL

\* Of the live workers at work on a delivery at most one got it in time.
THEOREM NoDeliveryTwice == PoolSpec => []NoDoubleDispatch
<1>1. PoolInv => NoDoubleDispatch
  <2> SUFFICES ASSUME PoolInv, NEW v \in Workers, NEW w \in Workers,
                      Safe(v), Safe(w),
                      workers[v].job.delivery = workers[w].job.delivery
               PROVE  v = w
    BY DEF NoDoubleDispatch, Safe
  <2>1. Row(v).lockedBy = v /\ Row(w).lockedBy = w
    BY SafeFacts
  <2> QED  BY <2>1 DEF Row
<1> QED  BY PoolInvariant, <1>1, PTL

\* Under a pool, the attempt history is complete and the deliveries follow
\* their life cycle.
THEOREM PoolKeepsHistory ==
    PoolSpec => []HistoryComplete /\ []VerdictRecorded /\ ImplementsLifecycle
BY PoolImplementsStore, HistoryIsComplete, VerdictIsRecorded,
   StoreImplementsLifecycle, PTL
=============================================================================
