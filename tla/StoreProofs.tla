---------------------------- MODULE StoreProofs ----------------------------
(***************************************************************************)
(* Proofs about module Store, and about the readers of module Inspect      *)
(* beside it, for any set of endpoints, deliveries, workers and readers,   *)
(* any configuration and any length of run.                                *)
(*                                                                         *)
(* Every operation changes a delivery through one of five row operators    *)
(* (the insert of EnqueueEvent, Replayed, Recovered, Claimed, Finished),   *)
(* and a claim may apply two of them to the same row.  So the invariant is *)
(* stated for one row and its history (RowInv), each operator is shown to  *)
(* preserve it, and the actions follow.                                    *)
(***************************************************************************)
EXTENDS Inspect, FiniteSetTheorems, TLAPS

-----------------------------------------------------------------------------
LeaseColumns(row) ==
    /\ (row.lockedBy = NULL) <=> (row.leaseToken = NULL)
    /\ (row.lockedBy = NULL) <=> (row.lockedUntil = NULL)
    /\ (row.status = "processing") <=> (row.lockedBy # NULL)

AttemptColumns(row) ==
    /\ row.attemptCount <= row.maxAttempts
    /\ row.maxAttempts <= MaxInt32
    /\ row.status # "absent" => row.maxAttempts >= 1
    /\ row.status = "processing" => row.attemptCount >= 1
    /\ row.status \in {"pending", "retrying"} => HasAttemptsLeft(row)

HistoryOf(row, history) ==
    /\ \A a \in history : a.number \in 1 .. ClosedAttempts(row)
    /\ \A n \in 1 .. ClosedAttempts(row) : \E a \in history : a.number = n
    /\ \A a, b \in history : a.number = b.number => a = b

VerdictOf(row, history) ==
    /\ (row.status = "succeeded") <=> (\E a \in history : a.outcome = "succeed")
    /\ \A a \in history : a.outcome = "succeed" => a.number = ClosedAttempts(row)

\* What holds of a delivery and its recorded attempts between transactions.
RowInv(row, history) ==
    /\ row \in DeliveryRows
    /\ history \subseteq AttemptRows
    /\ row.status = "absent" => row = NoDelivery
    /\ row.status # "absent" => row.endpoint \in Endpoints
    /\ LeaseColumns(row)
    /\ AttemptColumns(row)
    /\ HistoryOf(row, history)
    /\ VerdictOf(row, history)

EnqueuedRow(e, limit, t) ==
    [NoDelivery EXCEPT !.status = "pending", !.endpoint = e,
                       !.maxAttempts = limit, !.nextAttemptAt = t]

\* The insert of EnqueueEvent establishes the row invariant.
LEMMA EnqueuedRowInv ==
    ASSUME NEW e \in Endpoints, NEW limit \in 1 .. MaxInt32, NEW t \in Nat,
           NEW history, RowInv(NoDelivery, history)
    PROVE  RowInv(EnqueuedRow(e, limit, t), history)
<1> DEFINE new == EnqueuedRow(e, limit, t)
<1>1. /\ new \in DeliveryRows
      /\ new.status = "pending" /\ new.endpoint = e
      /\ new.attemptCount = 0 /\ new.maxAttempts = limit
      /\ new.lockedBy = NULL /\ new.leaseToken = NULL /\ new.lockedUntil = NULL
  <2>1. limit \in Nat /\ "pending" \in Statuses
    BY LimitAssumption DEF Statuses
  <2> QED  BY <2>1 DEF EnqueuedRow, NoDelivery, DeliveryRows
<1>2. ClosedAttempts(NoDelivery) = 0 /\ NoDelivery.status # "succeeded"
  BY DEF NoDelivery, ClosedAttempts
<1> HIDE DEF new
<1>3. ClosedAttempts(new) = 0
  BY <1>1 DEF ClosedAttempts
<1>4. LeaseColumns(new) /\ AttemptColumns(new)
  BY <1>1, LimitAssumption DEF LeaseColumns, AttemptColumns, HasAttemptsLeft
<1>5. HistoryOf(new, history) /\ VerdictOf(new, history)
  BY <1>1, <1>2, <1>3 DEF RowInv, HistoryOf, VerdictOf
<1>6. history \subseteq AttemptRows
  BY DEF RowInv
<1> QED  BY <1>1, <1>4, <1>5, <1>6 DEF RowInv, new

\* ReplayDelivery's update preserves the row invariant.
LEMMA ReplayedRowInv ==
    ASSUME NEW row, NEW history, RowInv(row, history), NEW t \in Nat,
           NEW budget \in 1 .. MaxInt32, Replayable(row, budget)
    PROVE  RowInv(Replayed(row, budget, t), history)
<1> DEFINE new == Replayed(row, budget, t)
<1>1. /\ row \in DeliveryRows /\ history \subseteq AttemptRows
      /\ row.status = "dead" /\ row.endpoint \in Endpoints
      /\ row.attemptCount \in Nat /\ row.maxAttempts \in Nat
      /\ row.attemptCount <= row.maxAttempts
      /\ row.maxAttempts + budget <= MaxInt32
      /\ row.lockedBy = NULL /\ row.leaseToken = NULL /\ row.lockedUntil = NULL
  BY LimitAssumption
  DEF Replayable, RowInv, LeaseColumns, AttemptColumns, DeliveryRows
<1>2. /\ new \in DeliveryRows
      /\ new.status = "pending" /\ new.endpoint = row.endpoint
      /\ new.attemptCount = row.attemptCount
      /\ new.maxAttempts = row.maxAttempts + budget
      /\ new.lockedBy = NULL /\ new.leaseToken = NULL /\ new.lockedUntil = NULL
  <2>1. row.maxAttempts + budget \in Nat /\ "pending" \in Statuses
    BY <1>1, LimitAssumption DEF Statuses
  <2> QED  BY <1>1, <2>1 DEF Replayed, DeliveryRows
<1> HIDE DEF new
<1>3. ClosedAttempts(new) = ClosedAttempts(row)
  BY <1>1, <1>2 DEF ClosedAttempts
<1>4. LeaseColumns(new) /\ AttemptColumns(new)
  BY <1>1, <1>2, LimitAssumption DEF LeaseColumns, AttemptColumns, HasAttemptsLeft
<1>5. HistoryOf(new, history) /\ VerdictOf(new, history)
  BY <1>1, <1>2, <1>3 DEF RowInv, HistoryOf, VerdictOf
<1> QED  BY <1>1, <1>2, <1>4, <1>5 DEF RowInv, new

\* The claim's update preserves the row invariant.
LEMMA ClaimedRowInv ==
    ASSUME NEW row, NEW history, RowInv(row, history), NEW t \in Nat,
           NEW w \in Workers, NEW token \in Nat, NEW lease \in Leases,
           row.status \in {"pending", "retrying"}
    PROVE  RowInv(Claimed(row, w, token, lease, t), history)
<1> DEFINE new == Claimed(row, w, token, lease, t)
<1>1. /\ row \in DeliveryRows /\ history \subseteq AttemptRows
      /\ row.endpoint \in Endpoints
      /\ row.attemptCount \in Nat /\ row.maxAttempts \in Nat
      /\ row.attemptCount < row.maxAttempts /\ row.maxAttempts <= MaxInt32
  BY DEF RowInv, AttemptColumns, HasAttemptsLeft, DeliveryRows
<1>2. /\ new \in DeliveryRows
      /\ new.status = "processing" /\ new.endpoint = row.endpoint
      /\ new.attemptCount = row.attemptCount + 1
      /\ new.maxAttempts = row.maxAttempts
      /\ new.lockedBy = w /\ new.leaseToken = token
      /\ new.lockedUntil \in Nat
  <2>1. row.attemptCount + 1 \in Nat /\ t + lease \in Nat
        /\ "processing" \in Statuses
    BY <1>1, TimingAssumption DEF Statuses
  <2> QED  BY <1>1, <2>1 DEF Claimed, DeliveryRows
<1> HIDE DEF new
<1>3. ClosedAttempts(new) = ClosedAttempts(row)
  BY <1>1, <1>2 DEF ClosedAttempts
<1>4. LeaseColumns(new) /\ AttemptColumns(new)
  BY <1>1, <1>2, LimitAssumption, NullAssumption
  DEF LeaseColumns, AttemptColumns, HasAttemptsLeft
<1>5. HistoryOf(new, history) /\ VerdictOf(new, history)
  BY <1>1, <1>2, <1>3 DEF RowInv, HistoryOf, VerdictOf
<1> QED  BY <1>1, <1>2, <1>4, <1>5 DEF RowInv, new

\* A row that differs from another one in a released lease, its status and
\* its schedule.
ReleasedAs(row, s, new) ==
    /\ new \in DeliveryRows
    /\ new.status = s /\ new.endpoint = row.endpoint
    /\ new.attemptCount = row.attemptCount /\ new.maxAttempts = row.maxAttempts
    /\ new.lockedBy = NULL /\ new.leaseToken = NULL /\ new.lockedUntil = NULL

\* Releasing a lease touches no other column.
LEMMA ReleasedRow ==
    ASSUME NEW row \in DeliveryRows, NEW s \in Statuses, NEW t \in Nat
    PROVE  /\ ReleasedAs(row, s, [Released(row) EXCEPT !.status = s])
           /\ ReleasedAs(row, s, [Released(row) EXCEPT !.status = s,
                                                       !.nextAttemptAt = t])
<1>1. ReleasedAs(row, s, [Released(row) EXCEPT !.status = s])
  BY DEF Released, DeliveryRows, ReleasedAs
<1>2. ReleasedAs(row, s, [Released(row) EXCEPT !.status = s, !.nextAttemptAt = t])
  BY DEF Released, DeliveryRows, ReleasedAs
<1> QED  BY <1>1, <1>2

\* An attempt that ends, with any outcome that agrees with the new status,
\* preserves the row invariant.
LEMMA EndedRowInv ==
    ASSUME NEW row, NEW history, RowInv(row, history), row.status = "processing",
           NEW new \in DeliveryRows, NEW outcome \in Outcomes,
           new.status \in {"succeeded", "retrying", "dead"},
           new.endpoint = row.endpoint,
           new.attemptCount = row.attemptCount,
           new.maxAttempts = row.maxAttempts,
           new.lockedBy = NULL, new.leaseToken = NULL, new.lockedUntil = NULL,
           new.status = "retrying" => HasAttemptsLeft(row),
           (new.status = "succeeded") <=> (outcome = "succeed")
    PROVE  /\ \A a \in history : a.number # row.attemptCount
           /\ RowInv(new, history \cup {[number |-> row.attemptCount,
                                         outcome |-> outcome]})
<1> DEFINE n == row.attemptCount
           rec == [number |-> n, outcome |-> outcome]
           longer == history \cup {rec}
<1>1. /\ n \in Nat /\ n >= 1 /\ row.maxAttempts \in Nat
      /\ n <= row.maxAttempts /\ row.maxAttempts <= MaxInt32
      /\ row.endpoint \in Endpoints /\ history \subseteq AttemptRows
      /\ \A a \in history : a.outcome # "succeed"
  BY DEF RowInv, DeliveryRows, AttemptColumns, VerdictOf
<1>2. ClosedAttempts(row) = n - 1 /\ ClosedAttempts(new) = n
  BY DEF ClosedAttempts
<1>3. \A a \in history : a.number \in 1 .. (n - 1)
  BY <1>2 DEF RowInv, HistoryOf
<1>4. \A a \in history : a.number # n
  BY <1>1, <1>3
<1>5. rec \in AttemptRows /\ rec.number = n /\ rec.outcome = outcome
  BY <1>1 DEF AttemptRows
<1> HIDE DEF rec
<1>6. HistoryOf(new, longer)
  <2>1. \A a \in longer : a.number \in 1 .. ClosedAttempts(new)
    BY <1>1, <1>2, <1>3, <1>5
  <2>2. ASSUME NEW k \in 1 .. n
        PROVE  \E a \in longer : a.number = k
    <3>1. CASE k = n
      BY <3>1, <1>5
    <3>2. CASE k \in 1 .. (n - 1)
      BY <3>2, <1>2 DEF RowInv, HistoryOf
    <3> QED  BY <3>1, <3>2, <1>1
  <2>3. \A a, b \in longer : a.number = b.number => a = b
    BY <1>4, <1>5 DEF RowInv, HistoryOf
  <2> QED  BY <2>1, <2>2, <2>3, <1>2 DEF HistoryOf
<1>7. VerdictOf(new, longer)
  BY <1>1, <1>2, <1>5 DEF VerdictOf
<1>8. LeaseColumns(new) /\ AttemptColumns(new)
  BY <1>1 DEF LeaseColumns, AttemptColumns, HasAttemptsLeft
<1> QED  BY <1>1, <1>4, <1>5, <1>6, <1>7, <1>8 DEF RowInv, rec

\* Recovering an expired lease preserves the row invariant.
LEMMA RecoveredRowInv ==
    ASSUME NEW row, NEW history, RowInv(row, history), NEW t \in Nat,
           row.status = "processing"
    PROVE  /\ RowInv(Recovered(row, t), RecordExpired(history, row.attemptCount))
           /\ Recovered(row, t).status \in {"retrying", "dead"}
           /\ Recovered(row, t).endpoint = row.endpoint
           /\ Recovered(row, t).attemptCount = row.attemptCount
           /\ Recovered(row, t).maxAttempts = row.maxAttempts
           /\ Recovered(row, t).status = "retrying" => HasAttemptsLeft(row)
<1> DEFINE new == Recovered(row, t)
<1>1. row \in DeliveryRows
  BY DEF RowInv
<1>2. /\ new \in DeliveryRows
      /\ new.status \in {"retrying", "dead"} /\ new.endpoint = row.endpoint
      /\ new.attemptCount = row.attemptCount /\ new.maxAttempts = row.maxAttempts
      /\ new.lockedBy = NULL /\ new.leaseToken = NULL /\ new.lockedUntil = NULL
      /\ new.status = "retrying" => HasAttemptsLeft(row)
  <2>1. "retrying" \in Statuses /\ "dead" \in Statuses
    BY DEF Statuses
  <2>2. CASE HasAttemptsLeft(row)
    <3>1. ReleasedAs(row, "retrying", new)
      BY <1>1, <2>1, <2>2, ReleasedRow DEF Recovered
    <3> QED  BY <3>1, <2>2 DEF ReleasedAs
  <2>3. CASE ~HasAttemptsLeft(row)
    <3>1. ReleasedAs(row, "dead", new)
      BY <1>1, <2>1, <2>3, ReleasedRow DEF Recovered
    <3> QED  BY <3>1, <2>3 DEF ReleasedAs
  <2> QED  BY <2>2, <2>3
<1> HIDE DEF new
<1>3. /\ \A a \in history : a.number # row.attemptCount
      /\ RowInv(new, history \cup {[number |-> row.attemptCount,
                                    outcome |-> "expired"]})
  BY <1>2, EndedRowInv DEF Outcomes
<1>4. RecordExpired(history, row.attemptCount)
        = history \cup {[number |-> row.attemptCount, outcome |-> "expired"]}
  BY <1>3 DEF RecordExpired
<1> QED  BY <1>2, <1>3, <1>4 DEF new

\* Finishing an attempt preserves the row invariant.
LEMMA FinishedRowInv ==
    ASSUME NEW row, NEW history, RowInv(row, history), row.status = "processing",
           NEW decision \in Decisions, NEW retryAt \in Nat
    PROVE  /\ RowInv(Finished(row, decision, retryAt),
                     history \cup {[number |-> row.attemptCount,
                                    outcome |-> OutcomeOf(decision)]})
           /\ Finished(row, decision, retryAt).status
                \in {"succeeded", "retrying", "dead"}
           /\ Finished(row, decision, retryAt).endpoint = row.endpoint
           /\ Finished(row, decision, retryAt).attemptCount = row.attemptCount
           /\ Finished(row, decision, retryAt).maxAttempts = row.maxAttempts
           /\ Finished(row, decision, retryAt).status = "retrying"
                => HasAttemptsLeft(row)
<1> DEFINE new == Finished(row, decision, retryAt)
<1>1. row \in DeliveryRows
  BY DEF RowInv
<1>2. /\ new \in DeliveryRows
      /\ new.status \in {"succeeded", "retrying", "dead"}
      /\ new.endpoint = row.endpoint
      /\ new.attemptCount = row.attemptCount /\ new.maxAttempts = row.maxAttempts
      /\ new.lockedBy = NULL /\ new.leaseToken = NULL /\ new.lockedUntil = NULL
      /\ new.status = "retrying" => HasAttemptsLeft(row)
      /\ (new.status = "succeeded") <=> (decision = "succeed")
  <2>1. "retrying" \in Statuses /\ "dead" \in Statuses /\ "succeeded" \in Statuses
    BY DEF Statuses
  <2>2. CASE decision = "succeed"
    <3>1. ReleasedAs(row, "succeeded", new)
      BY <1>1, <2>1, <2>2, ReleasedRow DEF Finished
    <3> QED  BY <3>1, <2>2 DEF ReleasedAs
  <2>3. CASE decision = "retry" /\ HasAttemptsLeft(row)
    <3>1. ReleasedAs(row, "retrying", new)
      BY <1>1, <2>1, <2>3, ReleasedRow DEF Finished
    <3> QED  BY <3>1, <2>3 DEF ReleasedAs
  <2>4. CASE decision # "succeed" /\ ~(decision = "retry" /\ HasAttemptsLeft(row))
    <3>1. ReleasedAs(row, "dead", new)
      BY <1>1, <2>1, <2>4, ReleasedRow DEF Finished
    <3> QED  BY <3>1, <2>4 DEF ReleasedAs
  <2> QED  BY <2>2, <2>3, <2>4
<1> HIDE DEF new
<1>3. RowInv(new, history \cup {[number |-> row.attemptCount,
                                 outcome |-> OutcomeOf(decision)]})
  <2>1. /\ OutcomeOf(decision) \in Outcomes
        /\ (OutcomeOf(decision) = "succeed") <=> (decision = "succeed")
    BY DEF OutcomeOf, Outcomes
  <2> QED  BY <1>2, <2>1, EndedRowInv
<1> QED  BY <1>2, <1>3 DEF new

-----------------------------------------------------------------------------
(***************************************************************************)
(* Endpoints.                                                              *)
(***************************************************************************)

\* What holds of an endpoint between transactions.
EndpointInv(endpoint) ==
    /\ endpoint \in EndpointRows
    /\ endpoint.maxAttempts <= MaxInt32
    /\ endpoint.state # "absent" => endpoint.maxAttempts >= 1
    /\ endpoint.openUntil # NULL =>
           \E threshold \in Thresholds : endpoint.failures >= threshold
    /\ endpoint.failures > 0 /\ (\A threshold \in Thresholds : endpoint.failures >= threshold)
           => endpoint.openUntil # NULL

\* A counted failure keeps counter and circuit together and never brings the
\* end of an open circuit forward.
LEMMA AfterFailureInv ==
    ASSUME NEW endpoint, EndpointInv(endpoint), NEW t \in Nat,
           NEW breaker \in Breakers("failure")
    PROVE  /\ EndpointInv(AfterFailure(endpoint, breaker, t))
           /\ AfterFailure(endpoint, breaker, t).state = endpoint.state
           /\ endpoint.openUntil # NULL =>
                  AfterFailure(endpoint, breaker, t).openUntil >= endpoint.openUntil
<1> DEFINE opened == IF endpoint.failures + 1 >= breaker.threshold
                     THEN OpenedUntil(endpoint.openUntil, breaker.cooldown, t)
                     ELSE endpoint.openUntil
<1>1. /\ endpoint \in EndpointRows /\ endpoint.failures \in Nat
      /\ breaker.threshold \in Thresholds /\ breaker.cooldown \in Nat
  BY TimingAssumption DEF EndpointInv, EndpointRows, Breakers
<1>2. endpoint.openUntil \in Nat \cup {NULL}
  BY <1>1 DEF EndpointRows
<1>3. OpenedUntil(endpoint.openUntil, breaker.cooldown, t) \in Nat
  BY <1>1, <1>2 DEF OpenedUntil
<1>4. endpoint.openUntil # NULL =>
          OpenedUntil(endpoint.openUntil, breaker.cooldown, t) >= endpoint.openUntil
  BY <1>1, <1>2 DEF OpenedUntil
<1>5. opened \in Nat \cup {NULL} /\ endpoint.failures + 1 \in Nat
  BY <1>1, <1>2, <1>3
<1>6. opened # NULL =>
          \E threshold \in Thresholds : endpoint.failures + 1 >= threshold
  <2>1. CASE endpoint.failures + 1 >= breaker.threshold
    BY <1>1, <2>1
  <2>2. CASE ~(endpoint.failures + 1 >= breaker.threshold) /\ endpoint.openUntil # NULL
    <3>1. PICK threshold \in Thresholds : endpoint.failures >= threshold
      BY <2>2 DEF EndpointInv
    <3> QED  BY <1>1, <3>1, LimitAssumption
  <2> QED  BY <2>1, <2>2
<1>7. (\A threshold \in Thresholds : endpoint.failures + 1 >= threshold)
          => opened # NULL
  BY <1>1, <1>3, NullAssumption
<1>8. endpoint.openUntil # NULL => opened >= endpoint.openUntil
  BY <1>2, <1>4
<1>9. AfterFailure(endpoint, breaker, t)
        = [endpoint EXCEPT !.failures = endpoint.failures + 1, !.openUntil = opened]
  BY DEF AfterFailure
<1> HIDE DEF opened
<1> QED  BY <1>1, <1>5, <1>6, <1>7, <1>8, <1>9 DEF EndpointInv, EndpointRows

\* A success closes the circuit and clears the counter.
LEMMA AfterSuccessInv ==
    ASSUME NEW endpoint, EndpointInv(endpoint)
    PROVE  /\ EndpointInv(AfterSuccess(endpoint))
           /\ AfterSuccess(endpoint).state = endpoint.state
           /\ AfterSuccess(endpoint).openUntil = NULL
<1>1. endpoint \in EndpointRows
  BY DEF EndpointInv
<1> DEFINE new == AfterSuccess(endpoint)
<1>2. /\ new \in EndpointRows /\ new.state = endpoint.state
      /\ new.maxAttempts = endpoint.maxAttempts
      /\ new.failures = 0 /\ new.openUntil = NULL
  BY <1>1 DEF AfterSuccess, EndpointRows
<1> HIDE DEF new
<1>3. EndpointInv(new)
  BY <1>2 DEF EndpointInv
<1> QED  BY <1>2, <1>3 DEF new

\* A result's circuit update changes only counter and circuit.
LEMMA UpdateCircuitInv ==
    ASSUME NEW e \in Endpoints, NEW circuit \in CircuitOutcomes, NEW t \in Nat,
           NEW breaker \in Breakers(circuit),
           endpoints \in [Endpoints -> EndpointRows],
           \A f \in Endpoints : EndpointInv(endpoints[f]),
           UpdateCircuit(e, circuit, breaker, t)
    PROVE  /\ endpoints' \in [Endpoints -> EndpointRows]
           /\ \A f \in Endpoints :
                 /\ EndpointInv(endpoints'[f])
                 /\ endpoints'[f].state = endpoints[f].state
                 /\ CircuitKept(f)
<1>1. CASE circuit = "failure"
  <2>1. endpoints' = [endpoints EXCEPT ![e] = AfterFailure(endpoints[e], breaker, t)]
    BY <1>1 DEF UpdateCircuit
  <2>2. /\ EndpointInv(AfterFailure(endpoints[e], breaker, t))
        /\ AfterFailure(endpoints[e], breaker, t).state = endpoints[e].state
        /\ endpoints[e].openUntil # NULL =>
              AfterFailure(endpoints[e], breaker, t).openUntil >= endpoints[e].openUntil
    BY <1>1, AfterFailureInv
  <2>3. \A f \in Endpoints : endpoints[f].openUntil \in Nat \cup {NULL}
    BY DEF EndpointRows
  <2> QED  BY <2>1, <2>2, <2>3 DEF CircuitKept, EndpointInv
<1>2. CASE circuit = "success"
  <2>1. endpoints' = [endpoints EXCEPT ![e] = AfterSuccess(endpoints[e])]
    BY <1>2 DEF UpdateCircuit
  <2>2. /\ EndpointInv(AfterSuccess(endpoints[e]))
        /\ AfterSuccess(endpoints[e]).state = endpoints[e].state
        /\ AfterSuccess(endpoints[e]).openUntil = NULL
    BY AfterSuccessInv
  <2>3. \A f \in Endpoints : endpoints[f].openUntil \in Nat \cup {NULL}
    BY DEF EndpointRows
  <2> QED  BY <2>1, <2>2, <2>3 DEF CircuitKept, EndpointInv
<1>3. CASE circuit = "none"
  <2>1. endpoints' = endpoints
    BY <1>3 DEF UpdateCircuit
  <2>2. \A f \in Endpoints : endpoints[f].openUntil \in Nat \cup {NULL}
    BY DEF EndpointRows
  <2> QED  BY <2>1, <2>2 DEF CircuitKept
<1> QED  BY <1>1, <1>2, <1>3 DEF CircuitOutcomes

-----------------------------------------------------------------------------
(***************************************************************************)
(* Each row operator is a move of the life cycle.                          *)
(***************************************************************************)

\* An insert is an acceptance.
LEMMA EnqueuedMove ==
    ASSUME NEW e \in Endpoints, NEW limit \in 1 .. MaxInt32, NEW t \in Nat
    PROVE  Queue!Move(Abstract(NoDelivery), Abstract(EnqueuedRow(e, limit, t)))
<1>1. Abstract(NoDelivery) = Queue!Absent
  BY DEF Abstract, NoDelivery, Queue!Absent
<1>2. Abstract(EnqueuedRow(e, limit, t))
        = [status |-> "pending", used |-> 0, limit |-> limit]
  BY DEF Abstract, NoDelivery, EnqueuedRow
<1> QED  BY <1>1, <1>2, LimitAssumption DEF Queue!Move, Queue!Accept

\* A replay is a revival: the limit grows, the numbering goes on.
LEMMA ReplayedMove ==
    ASSUME NEW row \in DeliveryRows, NEW t \in Nat, NEW budget \in 1 .. MaxInt32,
           row.status = "dead"
    PROVE  Queue!Move(Abstract(row), Abstract(Replayed(row, budget, t)))
<1>1. row.maxAttempts \in Nat /\ budget \in Nat /\ budget >= 1
  BY LimitAssumption DEF DeliveryRows
<1>2. /\ Replayed(row, budget, t).status = "pending"
      /\ Replayed(row, budget, t).attemptCount = row.attemptCount
      /\ Replayed(row, budget, t).maxAttempts = row.maxAttempts + budget
  BY DEF Replayed, DeliveryRows
<1> HIDE DEF Replayed
<1> QED  BY <1>1, <1>2 DEF Abstract, Queue!Move, Queue!Revive,
             Queue!CanTransition

\* Leasing a waiting delivery, or one whose worker was lost, starts an
\* attempt.
LEMMA ClaimedMove ==
    ASSUME NEW row \in DeliveryRows, NEW old, NEW t, NEW w, NEW token, NEW lease,
           old.status \in {"pending", "retrying", "processing"},
           old.attemptCount = row.attemptCount,
           old.maxAttempts = row.maxAttempts,
           HasAttemptsLeft(row)
    PROVE  Queue!Move(Abstract(old), Abstract(Claimed(row, w, token, lease, t)))
<1>1. /\ Claimed(row, w, token, lease, t).status = "processing"
      /\ Claimed(row, w, token, lease, t).attemptCount = row.attemptCount + 1
      /\ Claimed(row, w, token, lease, t).maxAttempts = row.maxAttempts
  BY DEF Claimed, DeliveryRows
<1> HIDE DEF Claimed
<1>2. Abstract(Claimed(row, w, token, lease, t))
        = [status |-> "processing", used |-> row.attemptCount + 1,
           limit |-> row.maxAttempts]
  BY <1>1 DEF Abstract
<1>3. Abstract(old) = [status |-> old.status, used |-> row.attemptCount,
                       limit |-> row.maxAttempts]
  BY DEF Abstract
<1>4. Queue!Start(Abstract(old), Abstract(Claimed(row, w, token, lease, t)))
  BY <1>2, <1>3 DEF Queue!Start, Queue!CanTransition, HasAttemptsLeft
<1> QED  BY <1>4 DEF Queue!Move

\* Recovering or finishing an attempt ends it.
LEMMA EndedMove ==
    ASSUME NEW row, NEW new, row.status = "processing",
           new.status \in {"succeeded", "retrying", "dead"},
           new.attemptCount = row.attemptCount,
           new.maxAttempts = row.maxAttempts,
           new.status = "retrying" => HasAttemptsLeft(row)
    PROVE  Queue!Move(Abstract(row), Abstract(new))
BY DEF Abstract, Queue!Move, Queue!End, Queue!CanTransition, HasAttemptsLeft

-----------------------------------------------------------------------------
(***************************************************************************)
(* The inductive invariant, and what every step satisfies.                 *)
(***************************************************************************)
References ==
    \A d \in Deliveries :
        deliveries[d].status # "absent" =>
            endpoints[deliveries[d].endpoint].state # "absent"

IInv ==
    /\ TypeOK
    /\ \A e \in Endpoints : EndpointInv(endpoints[e])
    /\ \A d \in Deliveries : RowInv(deliveries[d], attempts[d])
    /\ References

Moves(d) ==
    \/ Abstract(deliveries'[d]) = Abstract(deliveries[d])
    \/ Queue!Move(Abstract(deliveries[d]), Abstract(deliveries'[d]))

\* What a step does to one delivery, and to one endpoint.
RowStep(d) ==
    /\ RowInv(deliveries'[d], attempts'[d])
    /\ deliveries[d].status # "absent" =>
           deliveries'[d].endpoint = deliveries[d].endpoint
    /\ Moves(d)
    /\ LeaseKept(d)

EndpointStep(e) ==
    /\ EndpointInv(endpoints'[e])
    /\ endpoints[e].state # "absent" => endpoints'[e].state # "absent"
    /\ CircuitKept(e)

StepOK ==
    /\ IInv'
    /\ \A d \in Deliveries : Moves(d) /\ LeaseKept(d)
    /\ \A e \in Endpoints : CircuitKept(e)

\* A delivery that a step leaves alone.
LEMMA UntouchedRow ==
    ASSUME IInv, NEW d \in Deliveries,
           deliveries'[d] = deliveries[d], attempts'[d] = attempts[d]
    PROVE  RowStep(d)
<1>1. RowInv(deliveries'[d], attempts'[d])
  BY DEF IInv
<1>2. Moves(d) /\ LeaseKept(d)
  BY DEF Moves, LeaseKept
<1> QED  BY <1>1, <1>2 DEF RowStep

\* An endpoint that a step leaves alone.
LEMMA UntouchedEndpoint ==
    ASSUME IInv, NEW e \in Endpoints, endpoints'[e] = endpoints[e]
    PROVE  EndpointStep(e)
<1>1. EndpointInv(endpoints'[e]) /\ endpoints[e].openUntil \in Nat \cup {NULL}
  BY DEF IInv, TypeOK, EndpointRows
<1> QED  BY <1>1 DEF EndpointStep, CircuitKept

\* The transaction clock.
LEMMA TxTime ==
    ASSUME IInv, NEW t \in TxTimes
    PROVE  t \in Nat /\ t <= now /\ now \in Nat
BY DEF IInv, TypeOK, TxTimes

\* A leased delivery is leased until some time.
LEMMA LeaseHasEnd ==
    ASSUME IInv, NEW d \in Deliveries, deliveries[d].status = "processing"
    PROVE  deliveries[d].lockedUntil \in Nat
<1>1. deliveries[d] \in DeliveryRows /\ LeaseColumns(deliveries[d])
  BY DEF IInv, RowInv
<1>2. deliveries[d].lockedUntil \in Nat \cup {NULL}
  BY <1>1 DEF DeliveryRows
<1> QED  BY <1>1, <1>2 DEF LeaseColumns

\* Steps of every delivery and endpoint make a step of the store.
LEMMA StepFromParts ==
    ASSUME IInv, TypeOK',
           \A d \in Deliveries : RowStep(d),
           \A e \in Endpoints : EndpointStep(e),
           \A d \in Deliveries : deliveries[d].status = "absent" =>
              \/ deliveries'[d].status = "absent"
              \/ endpoints'[deliveries'[d].endpoint].state # "absent"
    PROVE  StepOK
<1>1. References'
  <2> SUFFICES ASSUME NEW d \in Deliveries, deliveries'[d].status # "absent"
               PROVE  endpoints'[deliveries'[d].endpoint].state # "absent"
    BY DEF References
  <2>1. CASE deliveries[d].status = "absent"
    BY <2>1
  <2>2. CASE deliveries[d].status # "absent"
    <3>1. /\ deliveries[d].endpoint \in Endpoints
          /\ endpoints[deliveries[d].endpoint].state # "absent"
          /\ deliveries'[d].endpoint = deliveries[d].endpoint
      BY <2>2 DEF IInv, References, RowInv, RowStep
    <3> QED  BY <3>1 DEF EndpointStep
  <2> QED  BY <2>1, <2>2
<1>2. \A e \in Endpoints : EndpointInv(endpoints'[e]) /\ CircuitKept(e)
  BY DEF EndpointStep
<1>3. \A d \in Deliveries : RowInv(deliveries'[d], attempts'[d])
                            /\ Moves(d) /\ LeaseKept(d)
  BY DEF RowStep
<1>4. IInv'
  BY <1>1, <1>2, <1>3 DEF IInv
<1> QED  BY <1>2, <1>3, <1>4 DEF StepOK

-----------------------------------------------------------------------------
(***************************************************************************)
(* One lemma per action.                                                   *)
(***************************************************************************)

\* Creating an endpoint.
LEMMA CreateEndpointStep ==
    ASSUME IInv, NEW e \in Endpoints, NEW m \in AttemptLimits, CreateEndpoint(e, m)
    PROVE  StepOK
<1> DEFINE new == [state |-> "enabled", maxAttempts |-> m,
                   failures |-> 0, openUntil |-> NULL]
<1>1. m \in Nat /\ m >= 1 /\ m <= MaxInt32
  BY LimitAssumption
<1>2. new \in EndpointRows /\ EndpointInv(new) /\ new.openUntil = NULL
      /\ new.state # "absent"
  BY <1>1 DEF EndpointInv, EndpointRows
<1> HIDE DEF new
<1>3. /\ endpoints' = [endpoints EXCEPT ![e] = new]
      /\ deliveries' = deliveries /\ attempts' = attempts
      /\ tokens' = tokens /\ now' = now
  BY DEF CreateEndpoint, new
<1>4. TypeOK'
  BY <1>2, <1>3 DEF IInv, TypeOK
<1>5. \A d \in Deliveries : RowStep(d)
  BY <1>3, UntouchedRow
<1>6. ASSUME NEW f \in Endpoints PROVE EndpointStep(f)
  <2>1. CASE f = e
    <3>1. endpoints'[e] = new
      BY <1>3 DEF IInv, TypeOK
    <3> QED  BY <2>1, <3>1, <1>2 DEF EndpointStep, CircuitKept
  <2>2. CASE f # e
    <3>1. endpoints'[f] = endpoints[f]
      BY <1>3, <2>2 DEF IInv, TypeOK
    <3> QED  BY <3>1, UntouchedEndpoint
  <2> QED  BY <2>1, <2>2
<1> QED  BY <1>3, <1>4, <1>5, <1>6, StepFromParts

\* Disabling an endpoint.
LEMMA DisableEndpointStep ==
    ASSUME IInv, NEW e \in Endpoints, DisableEndpoint(e)
    PROVE  StepOK
<1> DEFINE new == [endpoints[e] EXCEPT !.state = "disabled"]
<1>1. endpoints[e] \in EndpointRows /\ EndpointInv(endpoints[e])
      /\ endpoints[e].state # "absent"
  BY DEF IInv, TypeOK, DisableEndpoint
<1>2. /\ new \in EndpointRows /\ EndpointInv(new) /\ new.state # "absent"
      /\ new.openUntil = endpoints[e].openUntil
      /\ endpoints[e].openUntil \in Nat \cup {NULL}
  BY <1>1 DEF EndpointInv, EndpointRows
<1>3. /\ endpoints' = [endpoints EXCEPT ![e] = new]
      /\ deliveries' = deliveries /\ attempts' = attempts
      /\ tokens' = tokens /\ now' = now
  BY DEF DisableEndpoint
<1> HIDE DEF new
<1>4. TypeOK'
  BY <1>2, <1>3 DEF IInv, TypeOK
<1>5. \A d \in Deliveries : RowStep(d)
  BY <1>3, UntouchedRow
<1>6. ASSUME NEW f \in Endpoints PROVE EndpointStep(f)
  <2>1. CASE f = e
    <3>1. endpoints'[e] = new
      BY <1>3 DEF IInv, TypeOK
    <3> QED  BY <2>1, <3>1, <1>2 DEF EndpointStep, CircuitKept
  <2>2. CASE f # e
    <3>1. endpoints'[f] = endpoints[f]
      BY <1>3, <2>2 DEF IInv, TypeOK
    <3> QED  BY <3>1, UntouchedEndpoint
  <2> QED  BY <2>1, <2>2
<1> QED  BY <1>3, <1>4, <1>5, <1>6, StepFromParts

\* Publishing an event for the first time.
LEMMA EnqueueEventStep ==
    ASSUME IInv, NEW e \in Endpoints, NEW d \in Deliveries, NEW t \in TxTimes,
           EnqueueEvent(e, d, t)
    PROVE  StepOK
<1> DEFINE limit == endpoints[e].maxAttempts
           new == EnqueuedRow(e, limit, t)
<1>1. /\ endpoints[e].state = "enabled" /\ deliveries[d].status = "absent"
      /\ deliveries' = [deliveries EXCEPT ![d] = new]
      /\ endpoints' = endpoints /\ attempts' = attempts
      /\ tokens' = tokens /\ now' = now
  BY DEF EnqueueEvent, EnqueuedRow
<1>2. limit \in 1 .. MaxInt32 /\ t \in Nat
  BY <1>1, TxTime DEF IInv, EndpointInv, EndpointRows
<1>3. deliveries[d] = NoDelivery /\ RowInv(NoDelivery, attempts[d])
  BY <1>1 DEF IInv, RowInv
<1>4. RowInv(new, attempts[d])
  BY <1>2, <1>3, EnqueuedRowInv
<1>5. Queue!Move(Abstract(deliveries[d]), Abstract(new))
  BY <1>2, <1>3, EnqueuedMove
<1>6. new \in DeliveryRows /\ new.endpoint = e
  BY <1>4 DEF RowInv, EnqueuedRow, NoDelivery
<1> HIDE DEF new
<1>7. TypeOK'
  BY <1>1, <1>6 DEF IInv, TypeOK
<1>8. deliveries'[d] = new
  BY <1>1 DEF IInv, TypeOK
<1>9. ASSUME NEW x \in Deliveries PROVE RowStep(x)
  <2>1. CASE x = d
    BY <2>1, <1>1, <1>4, <1>5, <1>8 DEF RowStep, Moves, LeaseKept
  <2>2. CASE x # d
    <3>1. deliveries'[x] = deliveries[x]
      BY <1>1, <2>2 DEF IInv, TypeOK
    <3> QED  BY <3>1, <1>1, UntouchedRow
  <2> QED  BY <2>1, <2>2
<1>10. \A f \in Endpoints : EndpointStep(f)
  BY <1>1, UntouchedEndpoint
<1>11. ASSUME NEW x \in Deliveries, deliveries[x].status = "absent"
       PROVE  \/ deliveries'[x].status = "absent"
              \/ endpoints'[deliveries'[x].endpoint].state # "absent"
  <2>1. CASE x = d
    BY <2>1, <1>1, <1>6, <1>8
  <2>2. CASE x # d
    BY <1>1, <1>11, <2>2 DEF IInv, TypeOK
  <2> QED  BY <2>1, <2>2
<1> QED  BY <1>7, <1>9, <1>10, <1>11, StepFromParts

\* Replaying a dead delivery.
LEMMA ReplayDeliveryStep ==
    ASSUME IInv, NEW d \in Deliveries, NEW t \in TxTimes, ReplayDelivery(d, t)
    PROVE  StepOK
<1> DEFINE budget == endpoints[deliveries[d].endpoint].maxAttempts
           new == Replayed(deliveries[d], budget, t)
<1>1. /\ deliveries[d].status # "absent"
      /\ endpoints[deliveries[d].endpoint].state = "enabled"
      /\ Replayable(deliveries[d], budget)
      /\ deliveries' = [deliveries EXCEPT ![d] = new]
      /\ endpoints' = endpoints /\ attempts' = attempts
      /\ tokens' = tokens /\ now' = now
  BY DEF ReplayDelivery
<1>2. /\ RowInv(deliveries[d], attempts[d]) /\ deliveries[d] \in DeliveryRows
      /\ deliveries[d].endpoint \in Endpoints /\ deliveries[d].status = "dead"
  BY <1>1 DEF IInv, RowInv, Replayable
<1>3. budget \in 1 .. MaxInt32 /\ t \in Nat
  BY <1>1, <1>2, TxTime DEF IInv, EndpointInv, EndpointRows
<1> HIDE DEF budget
<1>4. RowInv(new, attempts[d])
  BY <1>1, <1>2, <1>3, ReplayedRowInv
<1>5. Queue!Move(Abstract(deliveries[d]), Abstract(new))
  BY <1>2, <1>3, ReplayedMove
<1>6. new \in DeliveryRows /\ new.endpoint = deliveries[d].endpoint
  BY <1>2, <1>4 DEF RowInv, Replayed, DeliveryRows
<1> HIDE DEF new
<1>7. TypeOK'
  BY <1>1, <1>6 DEF IInv, TypeOK
<1>8. deliveries'[d] = new
  BY <1>1 DEF IInv, TypeOK
<1>9. ASSUME NEW x \in Deliveries PROVE RowStep(x)
  <2>1. CASE x = d
    BY <2>1, <1>1, <1>2, <1>4, <1>5, <1>6, <1>8 DEF RowStep, Moves, LeaseKept
  <2>2. CASE x # d
    <3>1. deliveries'[x] = deliveries[x]
      BY <1>1, <2>2 DEF IInv, TypeOK
    <3> QED  BY <3>1, <1>1, UntouchedRow
  <2> QED  BY <2>1, <2>2
<1>10. \A f \in Endpoints : EndpointStep(f)
  BY <1>1, UntouchedEndpoint
<1>11. \A x \in Deliveries : deliveries[x].status = "absent" =>
          deliveries'[x].status = "absent"
  BY <1>1, <1>2 DEF IInv, TypeOK
<1> QED  BY <1>7, <1>9, <1>10, <1>11, StepFromParts

\* The recovery that opens every claim.
LEMMA RecoveryStep ==
    ASSUME IInv, NEW t \in TxTimes, NEW skip, NEW batch,
           RecoveryBatch(batch, skip, t), recoverExpiredLeases(batch)
    PROVE  /\ AfterRecovery(batch, t) \in [Deliveries -> DeliveryRows]
           /\ attempts' \in [Deliveries -> SUBSET AttemptRows]
           /\ \A x \in Deliveries :
                 /\ RowInv(AfterRecovery(batch, t)[x], attempts'[x])
                 /\ AfterRecovery(batch, t)[x].endpoint = deliveries[x].endpoint
                 /\ x \notin batch =>
                       /\ AfterRecovery(batch, t)[x] = deliveries[x]
                       /\ attempts'[x] = attempts[x]
                 /\ x \in batch =>
                       /\ deliveries[x].status = "processing"
                       /\ deliveries[x].lockedUntil <= now
                       /\ AfterRecovery(batch, t)[x]
                            = Recovered(deliveries[x], t)
<1>1. t \in Nat /\ t <= now /\ now \in Nat
  BY TxTime
<1>2. ASSUME NEW x \in Deliveries, x \in batch
      PROVE  /\ deliveries[x].status = "processing"
             /\ deliveries[x].lockedUntil <= now
             /\ AfterRecovery(batch, t)[x] = Recovered(deliveries[x], t)
             /\ attempts'[x]
                  = RecordExpired(attempts[x], deliveries[x].attemptCount)
  <2>1. Expired(deliveries[x], t)
    BY <1>2 DEF RecoveryBatch
  <2>2. deliveries[x].status = "processing" /\ deliveries[x].lockedUntil \in Nat
        /\ deliveries[x].lockedUntil <= t
    BY <2>1, LeaseHasEnd DEF Expired
  <2>3. deliveries[x].lockedUntil <= now
    BY <1>1, <2>2
  <2> QED  BY <1>2, <2>2, <2>3 DEF AfterRecovery, recoverExpiredLeases
<1>3. ASSUME NEW x \in Deliveries, x \notin batch
      PROVE  /\ AfterRecovery(batch, t)[x] = deliveries[x]
             /\ attempts'[x] = attempts[x]
  BY <1>3 DEF AfterRecovery, recoverExpiredLeases
<1>4. ASSUME NEW x \in Deliveries
      PROVE  /\ RowInv(AfterRecovery(batch, t)[x], attempts'[x])
             /\ AfterRecovery(batch, t)[x].endpoint = deliveries[x].endpoint
  <2>1. RowInv(deliveries[x], attempts[x])
    BY DEF IInv
  <2>2. CASE x \in batch
    BY <1>1, <1>2, <2>1, <2>2, RecoveredRowInv
  <2>3. CASE x \notin batch
    BY <1>3, <2>1, <2>3
  <2> QED  BY <2>2, <2>3
<1>5. \A x \in Deliveries : AfterRecovery(batch, t)[x] \in DeliveryRows
                            /\ attempts'[x] \in SUBSET AttemptRows
  BY <1>4 DEF RowInv
<1>6. AfterRecovery(batch, t) \in [Deliveries -> DeliveryRows]
  BY <1>5 DEF AfterRecovery
<1>7. attempts' \in [Deliveries -> SUBSET AttemptRows]
  BY <1>5 DEF recoverExpiredLeases
<1> QED  BY <1>2, <1>3, <1>4, <1>6, <1>7

\* A delivery that a claim recovers, or passes over.
LEMMA RecoveredRowStep ==
    ASSUME IInv, NEW t \in TxTimes, NEW skip, NEW batch,
           RecoveryBatch(batch, skip, t), recoverExpiredLeases(batch),
           NEW x \in Deliveries, deliveries'[x] = AfterRecovery(batch, t)[x]
    PROVE  RowStep(x)
<1>1. CASE x \notin batch
  BY <1>1, RecoveryStep, UntouchedRow
<1>2. CASE x \in batch
  <2>1. /\ RowInv(deliveries'[x], attempts'[x])
        /\ deliveries'[x].endpoint = deliveries[x].endpoint
        /\ deliveries[x].status = "processing"
        /\ deliveries[x].lockedUntil <= now
        /\ deliveries'[x] = Recovered(deliveries[x], t)
    BY <1>2, RecoveryStep
  <2>2. RowInv(deliveries[x], attempts[x]) /\ t \in Nat
    BY TxTime DEF IInv
  <2>3. Queue!Move(Abstract(deliveries[x]), Abstract(deliveries'[x]))
    BY <2>1, <2>2, RecoveredRowInv, EndedMove
  <2>4. LeaseKept(x)
    BY <2>1, LeaseHasEnd, TxTime DEF LeaseKept
  <2> QED  BY <2>1, <2>3, <2>4 DEF RowStep, Moves
<1> QED  BY <1>1, <1>2

\* A claim that finds nothing due.
LEMMA ClaimNothingStep ==
    ASSUME IInv, NEW t \in TxTimes, NEW skip, NEW batch,
           ClaimNothing(t, skip, batch)
    PROVE  StepOK
<1>1. /\ RecoveryBatch(batch, skip, t) /\ recoverExpiredLeases(batch)
      /\ deliveries' = AfterRecovery(batch, t)
      /\ endpoints' = endpoints /\ tokens' = tokens /\ now' = now
  BY DEF ClaimNothing
<1>2. TypeOK'
  BY <1>1, RecoveryStep DEF IInv, TypeOK
<1>3. \A x \in Deliveries : RowStep(x)
  BY <1>1, RecoveredRowStep
<1>4. \A f \in Endpoints : EndpointStep(f)
  BY <1>1, UntouchedEndpoint
<1>5. \A x \in Deliveries : deliveries[x].status = "absent" =>
          deliveries'[x].status = "absent"
  BY <1>1, RecoveryStep
<1> QED  BY <1>2, <1>3, <1>4, <1>5, StepFromParts

\* A claim that leases a delivery, perhaps one it has just recovered.
LEMMA ClaimDeliveryStep ==
    ASSUME IInv, NEW w \in Workers, NEW lease \in Leases, NEW t \in TxTimes, NEW skip,
           NEW batch, NEW d \in Deliveries, ClaimDelivery(w, lease, t, skip, batch, d)
    PROVE  StepOK
<1> DEFINE rows == AfterRecovery(batch, t)
           new == Claimed(rows[d], w, tokens[d] + 1, lease, t)
<1>1. /\ RecoveryBatch(batch, skip, t) /\ recoverExpiredLeases(batch)
      /\ Claimable(rows[d], t)
      /\ deliveries' = [rows EXCEPT ![d] = new]
      /\ tokens' = [tokens EXCEPT ![d] = tokens[d] + 1]
      /\ endpoints' = endpoints /\ now' = now
  BY DEF ClaimDelivery
<1>2. /\ rows \in [Deliveries -> DeliveryRows]
      /\ attempts' \in [Deliveries -> SUBSET AttemptRows]
      /\ RowInv(rows[d], attempts'[d])
      /\ rows[d].endpoint = deliveries[d].endpoint
      /\ d \notin batch => rows[d] = deliveries[d]
      /\ d \in batch => /\ deliveries[d].status = "processing"
                        /\ deliveries[d].lockedUntil <= now
                        /\ rows[d] = Recovered(deliveries[d], t)
  BY <1>1, RecoveryStep
<1>3. /\ tokens[d] + 1 \in Nat /\ t \in Nat
      /\ RowInv(deliveries[d], attempts[d])
  BY TxTime DEF IInv, TypeOK
<1>4. rows[d].status \in {"pending", "retrying"} /\ HasAttemptsLeft(rows[d])
  BY <1>1 DEF Claimable
<1>5. \A x \in Deliveries : x # d => deliveries'[x] = rows[x]
  BY <1>1, <1>2
<1>6. deliveries'[d] = new
  BY <1>1, <1>2
<1>7. RowInv(new, attempts'[d])
  BY <1>2, <1>3, <1>4, ClaimedRowInv
<1>8. new \in DeliveryRows /\ new.endpoint = rows[d].endpoint
  BY <1>2, <1>7 DEF RowInv, Claimed, DeliveryRows
<1>9. /\ deliveries[d].status \in {"pending", "retrying", "processing"}
      /\ deliveries[d].attemptCount = rows[d].attemptCount
      /\ deliveries[d].maxAttempts = rows[d].maxAttempts
  <2>1. CASE d \in batch
    BY <1>2, <1>3, <2>1, RecoveredRowInv
  <2>2. CASE d \notin batch
    BY <1>2, <1>4, <2>2
  <2> QED  BY <2>1, <2>2
<1>10. Queue!Move(Abstract(deliveries[d]), Abstract(new))
  BY <1>2, <1>4, <1>9, ClaimedMove
<1>11. LeaseKept(d)
  <2>1. CASE d \in batch
    BY <1>2, <2>1, LeaseHasEnd, TxTime DEF LeaseKept
  <2>2. CASE d \notin batch
    BY <1>2, <1>4, <2>2 DEF LeaseKept
  <2> QED  BY <2>1, <2>2
<1> HIDE DEF new, rows
<1>12. TypeOK'
  BY <1>1, <1>2, <1>3, <1>8 DEF IInv, TypeOK
<1>13. ASSUME NEW x \in Deliveries PROVE RowStep(x)
  <2>1. CASE x = d
    BY <2>1, <1>2, <1>6, <1>7, <1>8, <1>10, <1>11 DEF RowStep, Moves
  <2>2. CASE x # d
    BY <2>2, <1>1, <1>5, RecoveredRowStep DEF rows
  <2> QED  BY <2>1, <2>2
<1>14. \A f \in Endpoints : EndpointStep(f)
  BY <1>1, UntouchedEndpoint
<1>15. ASSUME NEW x \in Deliveries, deliveries[x].status = "absent"
       PROVE  deliveries'[x].status = "absent"
  <2>1. x # d
    BY <1>9, <1>15
  <2>2. deliveries'[x] = deliveries[x]
    BY <2>1, <1>1, <1>5, <1>15, RecoveryStep DEF rows
  <2> QED  BY <2>2, <1>15
<1> QED  BY <1>12, <1>13, <1>14, <1>15, StepFromParts

\* The results a worker can report are decisions with circuit outcomes.
LEMMA ResultsType ==
    ASSUME NEW result \in Results
    PROVE  result.decision \in Decisions /\ result.circuit \in CircuitOutcomes
<1>1. \A code \in 100 .. 599 : Evaluate(code, FALSE) \in Decisions
                               /\ circuitSignal(code) \in CircuitOutcomes
  BY DEF Evaluate, circuitSignal, Decisions, CircuitOutcomes
<1>2. Evaluate(0, TRUE) \in Decisions
  BY DEF Evaluate, Decisions
<1>3. ASSUME NEW answer \in Answers
      PROVE  answer \in [decision : Decisions, circuit : CircuitOutcomes]
  <2>1. CASE \E code \in 100 .. 599 :
                answer = [decision |-> Evaluate(code, FALSE),
                          circuit |-> circuitSignal(code)]
    <3>1. PICK code \in 100 .. 599 :
              answer = [decision |-> Evaluate(code, FALSE),
                        circuit |-> circuitSignal(code)]
      BY <2>1
    <3>2. /\ Evaluate(code, FALSE) \in Decisions
          /\ circuitSignal(code) \in CircuitOutcomes
      BY <1>1
    <3> QED  BY <3>1, <3>2
  <2>2. CASE answer = [decision |-> Evaluate(0, TRUE), circuit |-> "failure"]
    BY <1>2, <2>2 DEF CircuitOutcomes
  <2>3. CASE answer = [decision |-> "discard", circuit |-> "none"]
    BY <2>3 DEF CircuitOutcomes, Decisions
  <2> QED  BY <2>1, <2>2, <2>3 DEF Answers
<1>4. CASE result \in Answers
  BY <1>3, <1>4
<1>5. CASE result \in {[answer EXCEPT !.circuit = "none"] : answer \in Answers}
  <2>1. PICK answer \in Answers : result = [answer EXCEPT !.circuit = "none"]
    BY <1>5
  <2>2. answer \in [decision : Decisions, circuit : CircuitOutcomes]
    BY <1>3
  <2> QED  BY <2>1, <2>2 DEF CircuitOutcomes
<1> QED  BY <1>4, <1>5 DEF Results

\* A worker's result is recorded.
LEMMA FinishAttemptStep ==
    ASSUME IInv, NEW d \in Deliveries, NEW w \in Workers, NEW token, NEW n,
           NEW result \in Results, NEW breaker \in Breakers(result.circuit),
           NEW retryAt \in Nat, NEW t \in TxTimes,
           FinishAttempt(d, w, token, n, result, breaker, retryAt, t)
    PROVE  StepOK
<1> DEFINE new == Finished(deliveries[d], result.decision, retryAt)
           rec == [number |-> n, outcome |-> OutcomeOf(result.decision)]
<1>1. /\ deliveries[d].status = "processing" /\ deliveries[d].attemptCount = n
      /\ deliveries' = [deliveries EXCEPT ![d] = new]
      /\ attempts' = [attempts EXCEPT ![d] = attempts[d] \cup {rec}]
      /\ UpdateCircuit(deliveries[d].endpoint, result.circuit, breaker, t)
      /\ tokens' = tokens /\ now' = now
  BY DEF FinishAttempt, HoldsLease
<1>2. /\ result.decision \in Decisions /\ result.circuit \in CircuitOutcomes
      /\ t \in Nat
  BY ResultsType, TxTime
<1>3. RowInv(deliveries[d], attempts[d]) /\ deliveries[d].endpoint \in Endpoints
  BY <1>1 DEF IInv, RowInv
<1>4. /\ RowInv(new, attempts[d] \cup {rec})
      /\ new.status \in {"succeeded", "retrying", "dead"}
      /\ new.endpoint = deliveries[d].endpoint
      /\ new.attemptCount = deliveries[d].attemptCount
      /\ new.maxAttempts = deliveries[d].maxAttempts
      /\ new.status = "retrying" => HasAttemptsLeft(deliveries[d])
  BY <1>1, <1>2, <1>3, FinishedRowInv
<1>5. Queue!Move(Abstract(deliveries[d]), Abstract(new))
  BY <1>1, <1>4, EndedMove
<1> HIDE DEF new
<1>6. deliveries'[d] = new /\ attempts'[d] = attempts[d] \cup {rec}
  BY <1>1 DEF IInv, TypeOK
<1>7. LeaseKept(d)
  <2>1. rec.number = n /\ rec.outcome # "expired"
    BY DEF OutcomeOf
  <2> QED  BY <1>1, <1>6, <2>1 DEF LeaseKept, EndsWithVerdict
<1> HIDE DEF rec
<1>8. /\ endpoints' \in [Endpoints -> EndpointRows]
      /\ \A f \in Endpoints : /\ EndpointInv(endpoints'[f])
                              /\ endpoints'[f].state = endpoints[f].state
                              /\ CircuitKept(f)
  BY <1>1, <1>2, <1>3, UpdateCircuitInv DEF IInv, TypeOK
<1>9. TypeOK'
  <2>1. new \in DeliveryRows /\ attempts[d] \cup {rec} \in SUBSET AttemptRows
    BY <1>4 DEF RowInv
  <2> QED  BY <1>1, <1>8, <2>1 DEF IInv, TypeOK
<1>10. ASSUME NEW x \in Deliveries PROVE RowStep(x)
  <2>1. CASE x = d
    BY <2>1, <1>4, <1>5, <1>6, <1>7 DEF RowStep, Moves
  <2>2. CASE x # d
    <3>1. deliveries'[x] = deliveries[x] /\ attempts'[x] = attempts[x]
      BY <1>1, <2>2 DEF IInv, TypeOK
    <3> QED  BY <3>1, UntouchedRow
  <2> QED  BY <2>1, <2>2
<1>11. \A f \in Endpoints : EndpointStep(f)
  BY <1>8 DEF EndpointStep
<1>12. \A x \in Deliveries : deliveries[x].status = "absent" =>
          deliveries'[x].status = "absent"
  BY <1>1 DEF IInv, TypeOK
<1> QED  BY <1>9, <1>10, <1>11, <1>12, StepFromParts

\* A step that changes no table.
LEMMA IdleStep ==
    ASSUME IInv, now' \in Nat, UNCHANGED <<endpoints, deliveries, attempts, tokens>>
    PROVE  StepOK
<1>1. TypeOK'
  BY DEF IInv, TypeOK
<1>2. \A x \in Deliveries : RowStep(x)
  BY UntouchedRow
<1>3. \A f \in Endpoints : EndpointStep(f)
  BY UntouchedEndpoint
<1> QED  BY <1>1, <1>2, <1>3, StepFromParts

-----------------------------------------------------------------------------
(***************************************************************************)
(* The theorems.                                                           *)
(***************************************************************************)

\* Empty tables satisfy the invariant.
LEMMA InitIInv == Init => IInv
<1> SUFFICES ASSUME Init PROVE IInv
  OBVIOUS
<1>1. NoEndpoint \in EndpointRows /\ EndpointInv(NoEndpoint)
  BY LimitAssumption DEF NoEndpoint, EndpointRows, EndpointInv
<1>2. NoDelivery \in DeliveryRows
  BY DEF NoDelivery, DeliveryRows
<1>3. ClosedAttempts(NoDelivery) = 0
  BY DEF NoDelivery, ClosedAttempts
<1>4. HistoryOf(NoDelivery, {}) /\ VerdictOf(NoDelivery, {})
  BY <1>3 DEF HistoryOf, VerdictOf, NoDelivery
<1>5. LeaseColumns(NoDelivery) /\ AttemptColumns(NoDelivery)
      /\ NoDelivery.status = "absent"
  BY LimitAssumption DEF LeaseColumns, AttemptColumns, NoDelivery
<1>6. RowInv(NoDelivery, {})
  BY <1>2, <1>4, <1>5 DEF RowInv
<1>7. TypeOK
  BY <1>1, <1>2 DEF Init, TypeOK
<1>8. References
  BY <1>5 DEF Init, References
<1> QED  BY <1>1, <1>6, <1>7, <1>8 DEF Init, IInv

\* Every step of the store, from a state of the invariant, is a good one.
LEMMA NextStep == IInv /\ [Next]_vars => StepOK
<1> SUFFICES ASSUME IInv, [Next]_vars PROVE StepOK
  OBVIOUS
<1>1. ASSUME NEW e \in Endpoints, NEW m \in AttemptLimits, CreateEndpoint(e, m)
      PROVE  StepOK
  BY <1>1, CreateEndpointStep
<1>2. ASSUME NEW e \in Endpoints, DisableEndpoint(e) PROVE StepOK
  BY <1>2, DisableEndpointStep
<1>3. ASSUME NEW e \in Endpoints, NEW d \in Deliveries, NEW t \in TxTimes,
             EnqueueEvent(e, d, t)
      PROVE  StepOK
  BY <1>3, EnqueueEventStep
<1>4. ASSUME NEW d \in Deliveries, NEW t \in TxTimes, ReplayDelivery(d, t)
      PROVE  StepOK
  BY <1>4, ReplayDeliveryStep
<1>5. CASE Claim
  BY <1>5, ClaimDeliveryStep, ClaimNothingStep DEF Claim
<1>6. CASE Finish
  <2>1. PICK d \in Deliveries, w \in Workers :
            \E token \in 1 .. tokens[d], n \in 1 .. deliveries[d].attemptCount :
                \E result \in Results, t \in TxTimes :
                    \E breaker \in Breakers(result.circuit),
                       retryAt \in RetryTimes(result.decision) :
                        FinishAttempt(d, w, token, n, result, breaker, retryAt, t)
    BY <1>6 DEF Finish
  <2>2. \A decision : RetryTimes(decision) \subseteq Nat
    BY TimingAssumption DEF IInv, TypeOK, RetryTimes
  <2> QED  BY <2>1, <2>2, FinishAttemptStep
<1>7. CASE Tick
  <2>1. now' \in Nat
    BY <1>7 DEF Tick, IInv, TypeOK
  <2> QED  BY <1>7, <2>1, IdleStep DEF Tick
<1>8. CASE UNCHANGED vars
  BY <1>8, IdleStep DEF vars, IInv, TypeOK
<1> QED  BY <1>1, <1>2, <1>3, <1>4, <1>5, <1>6, <1>7, <1>8 DEF Next

\* IInv holds in every reachable state: it is inductive, which none of the
\* invariants below is by itself.
THEOREM InductiveInvariant == Spec => []IInv
<1>1. IInv /\ [Next]_vars => IInv'
  BY NextStep DEF StepOK
<1> QED  BY InitIInv, <1>1, PTL DEF Spec

\* Every column of every table keeps its type.
THEOREM TypeCorrect == Spec => []TypeOK
<1>1. IInv => TypeOK
  BY DEF IInv
<1> QED  BY InductiveInvariant, <1>1, PTL

\* No transaction of the store is ever aborted by a CHECK or a REFERENCES
\* constraint of table deliveries.
THEOREM SchemaNeverViolated == Spec => []SchemaConstraints
<1>1. IInv => SchemaConstraints
  <2> SUFFICES ASSUME IInv, NEW d \in Deliveries PROVE SchemaHolds(deliveries[d])
    BY DEF SchemaConstraints
  <2>1. RowInv(deliveries[d], attempts[d]) /\ References
    BY DEF IInv
  <2> QED  BY <2>1 DEF RowInv, References, SchemaHolds, LeaseColumns, AttemptColumns
<1> QED  BY InductiveInvariant, <1>1, PTL

\* However often a delivery is replayed, max_attempts fits its column.
THEOREM AttemptLimitsFit == Spec => []AttemptLimitFits
<1>1. IInv => AttemptLimitFits
  BY DEF IInv, RowInv, AttemptColumns, AttemptLimitFits
<1> QED  BY InductiveInvariant, <1>1, PTL

\* No delivery waits in the queue without an attempt left.
THEOREM NothingStranded == Spec => []NoStrandedDelivery
<1>1. IInv => NoStrandedDelivery
  BY DEF IInv, RowInv, AttemptColumns, NoStrandedDelivery
<1> QED  BY InductiveInvariant, <1>1, PTL

\* The attempt history is complete and has no duplicate, whatever workers are
\* lost or late.
THEOREM HistoryIsComplete == Spec => []HistoryComplete
<1>1. IInv => HistoryComplete
  <2> SUFFICES ASSUME IInv, NEW d \in Deliveries
               PROVE  /\ RecordedNumbers(d) = 1 .. ClosedAttempts(deliveries[d])
                      /\ \A a, b \in attempts[d] : a.number = b.number => a = b
    BY DEF HistoryComplete
  <2>1. HistoryOf(deliveries[d], attempts[d])
    BY DEF IInv, RowInv
  <2> QED  BY <2>1 DEF HistoryOf, RecordedNumbers
<1> QED  BY InductiveInvariant, <1>1, PTL

\* Status succeeded and a recorded success go together.
THEOREM VerdictIsRecorded == Spec => []VerdictRecorded
<1>1. IInv => VerdictRecorded
  BY DEF IInv, RowInv, VerdictOf, VerdictRecorded
<1> QED  BY InductiveInvariant, <1>1, PTL

\* Failure counter and circuit agree, whatever the age and the settings of the
\* transactions that update them.
THEOREM CircuitIsCoherent == Spec => []CircuitCoherent
<1>1. IInv => CircuitCoherent
  BY DEF IInv, EndpointInv, CircuitCoherent
<1> QED  BY InductiveInvariant, <1>1, PTL

\* An unexpired lease is only ended by the result of its attempt.
THEOREM LeasesAreHonoured == Spec => LeaseHonoured
<1>1. IInv /\ [Next]_vars => [\A d \in Deliveries : LeaseKept(d)]_vars
  BY NextStep DEF StepOK
<1> QED  BY InductiveInvariant, <1>1, PTL DEF Spec, LeaseHonoured

\* No failure shortens an open circuit.
THEOREM CircuitIsMonotone == Spec => CircuitMonotone
<1>1. IInv /\ [Next]_vars => [\A e \in Endpoints : CircuitKept(e)]_vars
  BY NextStep DEF StepOK
<1> QED  BY InductiveInvariant, <1>1, PTL DEF Spec, CircuitMonotone

\* The store implements the delivery life cycle.
THEOREM StoreImplementsLifecycle == Spec => ImplementsLifecycle
<1> DEFINE table == [d \in Deliveries |-> Abstract(deliveries[d])]
<1>1. Init => Queue!Init
  BY DEF Init, Queue!Init, Queue!Absent, Abstract, NoDelivery
<1>2. IInv /\ [Next]_vars => [Queue!Next]_table
  <2> SUFFICES ASSUME IInv, [Next]_vars PROVE Queue!Next
    OBVIOUS
  <2>1. StepOK
    BY NextStep
  <2>2. table' \in [Deliveries -> Queue!Rows]
    <3>1. TypeOK'
      BY <2>1 DEF StepOK, IInv
    <3>2. \A d \in Deliveries : Abstract(deliveries'[d]) \in Queue!Rows
      BY <3>1 DEF TypeOK, DeliveryRows, Abstract, Queue!Rows, Queue!Statuses, Statuses
    <3> QED  BY <3>2
  <2>3. \A d \in Deliveries : Moves(d)
    BY <2>1 DEF StepOK
  <2> QED  BY <2>2, <2>3 DEF Queue!Next, Moves
<1> QED  BY InductiveInvariant, <1>1, <1>2, PTL
         DEF Spec, ImplementsLifecycle, Queue!Spec

-----------------------------------------------------------------------------
(***************************************************************************)
(* Readers.                                                                *)
(***************************************************************************)

\* Sorted by number, a complete history shows attempt i in place i: counting
\* the attempts up to one's own number gives that number.
LEMMA CompleteHistoryInOrder ==
    ASSUME NEW row, NEW history, RowInv(row, history)
    PROVE  /\ InOrder(history) \in [1 .. ClosedAttempts(row) -> history]
           /\ Len(InOrder(history)) = ClosedAttempts(row)
           /\ \A i \in 1 .. ClosedAttempts(row) :
                 InOrder(history)[i] \in history /\ InOrder(history)[i].number = i
<1> DEFINE n == ClosedAttempts(row)
           UpTo(k) == {b \in history : b.number <= k}
           numbered == [i \in 1 .. n |-> CHOOSE a \in history : a.number = i]
<1>1. n \in Nat
  BY DEF RowInv, DeliveryRows, AttemptColumns, ClosedAttempts
<1>2. HistoryOf(row, history)
  BY DEF RowInv
<1>3. \A i \in 1 .. n : numbered[i] \in history /\ numbered[i].number = i
  BY <1>2 DEF HistoryOf
<1>4. \A a \in history : a.number \in 1 .. n /\ numbered[a.number] = a
  BY <1>2, <1>3 DEF HistoryOf
<1> HIDE DEF n, numbered
<1>5. ASSUME NEW k \in 0 .. n PROVE Cardinality(UpTo(k)) = k
  <2> DEFINE f == [i \in 1 .. k |-> numbered[i]]
  <2>1. f \in [1 .. k -> UpTo(k)]
    BY <1>1, <1>3
  <2>2. \A i, j \in 1 .. k : f[i] = f[j] => i = j
    BY <1>1, <1>3
  <2>3. \A a \in UpTo(k) : \E i \in 1 .. k : f[i] = a
    BY <1>1, <1>4
  <2>4. ExistsBijection(1 .. k, UpTo(k))
    <3> HIDE DEF f, UpTo
    <3>1. QED
      BY <2>1, <2>2, <2>3
          DEF ExistsBijection, Bijection, Injection, Surjection, IsInjective
  <2>5. k \in Nat
    BY <1>1
  <2>6. QED
    BY <2>4, <2>5, FS_CountingElements
<1>6. Cardinality(history) = n
  <2>1. UpTo(n) = history
    BY <1>4
  <2>2. QED
    BY <1>1, <1>5, <2>1
<1> DEFINE shown == InOrder(history)
<1>7. shown = [i \in 1 .. n |-> CHOOSE a \in history : Cardinality(UpTo(a.number)) = i]
  BY <1>6 DEF InOrder
<1>8. ASSUME NEW i \in 1 .. n PROVE shown[i] \in history /\ shown[i].number = i
  <2>1. \A a \in history : Cardinality(UpTo(a.number)) = a.number
    BY <1>1, <1>4, <1>5
  <2>2. \E a \in history : Cardinality(UpTo(a.number)) = i
    BY <1>3, <2>1
  <2> HIDE DEF UpTo
  <2>3. shown[i] = CHOOSE a \in history : Cardinality(UpTo(a.number)) = i
    BY <1>7
  <2>4. shown[i] \in history /\ Cardinality(UpTo(shown[i].number)) = i
    BY <2>2, <2>3
  <2>5. QED
    BY <2>1, <2>4
<1>9. Len(shown) = n
  <2> HIDE DEF UpTo
  <2>1. QED
    BY <1>1, <1>7
<1>10. shown \in [1 .. n -> history]
  <2> HIDE DEF UpTo
  <2>1. shown = [i \in 1 .. n |-> shown[i]]
    BY <1>7
  <2> HIDE DEF shown
  <2>2. QED
    BY <1>8, <2>1
<1>11. QED
  BY <1>8, <1>9, <1>10 DEF n

LEMMA InOrderIsSequence ==
    ASSUME NEW row, NEW history, RowInv(row, history)
    PROVE  InOrder(history) \in Seq(AttemptRows)
<1> DEFINE n == ClosedAttempts(row)
<1>1. n \in Nat /\ history \subseteq AttemptRows
  BY DEF RowInv, DeliveryRows, AttemptColumns, ClosedAttempts
<1>2. InOrder(history) \in [1 .. n -> AttemptRows]
  BY <1>1, CompleteHistoryInOrder
<1> HIDE DEF n
<1>3. QED
  BY <1>1, <1>2

ReaderRows ==
    [pc : {"idle", "reading", "done"}, id : Deliveries \cup {NULL},
     delivery : DeliveryRows, snapshot : SUBSET AttemptRows,
     attempts : Seq(AttemptRows)]

\* A reader has the row and the history of one moment.
ReaderInv(reader) ==
    /\ reader.pc # "idle" => RowInv(reader.delivery, reader.snapshot)
    /\ reader.pc = "done" => reader.attempts = InOrder(reader.snapshot)

InspectInv ==
    /\ readers \in [Readers -> ReaderRows]
    /\ \A r \in Readers : ReaderInv(readers[r])

\* Readers take nothing from the store's guarantees: what it does beside them
\* is what it does without them.
THEOREM InspectImplementsStore == InspectSpec => Spec
<1>1. InspectInit => Init
  BY DEF InspectInit
<1>2. [InspectNext]_inspectVars => [Next]_vars
  BY DEF InspectNext, inspectVars, ReadDelivery, ReadAttempts, EndRead
<1>3. QED
  BY <1>1, <1>2, PTL DEF InspectSpec, Spec

\* A reader that moves is in one of the three states GetDelivery goes through.
LEMMA ReaderStep ==
    ASSUME IInv, InspectInv, NEW r \in Readers, NEW new,
           readers' = [readers EXCEPT ![r] = new], new \in ReaderRows, ReaderInv(new)
    PROVE  InspectInv'
BY DEF InspectInv, ReaderInv

LEMMA InspectStep ==
    ASSUME IInv, InspectInv, [InspectNext]_inspectVars
    PROVE  InspectInv'
<1>1. CASE UNCHANGED readers
  BY <1>1 DEF InspectInv
<1>2. ASSUME NEW r \in Readers, NEW d \in Deliveries, ReadDelivery(r, d) PROVE InspectInv'
  <2> DEFINE new == [pc |-> "reading", id |-> d, delivery |-> deliveries[d],
                     snapshot |-> attempts[d], attempts |-> <<>>]
  <2>1. readers' = [readers EXCEPT ![r] = new]
    BY <1>2 DEF ReadDelivery
  <2>2. RowInv(deliveries[d], attempts[d])
    BY DEF IInv
  <2>3. new \in ReaderRows /\ ReaderInv(new)
    BY <2>2 DEF ReaderRows, ReaderInv, RowInv
  <2> HIDE DEF new
  <2>4. QED
    BY <2>1, <2>3, ReaderStep
<1>3. ASSUME NEW r \in Readers, ReadAttempts(r) PROVE InspectInv'
  <2> DEFINE new == [readers[r] EXCEPT !.pc = "done",
                                       !.attempts = InOrder(readers[r].snapshot)]
  <2>1. /\ readers[r] \in ReaderRows /\ readers[r].pc = "reading"
        /\ RowInv(readers[r].delivery, readers[r].snapshot)
    BY <1>3 DEF ReadAttempts, InspectInv, ReaderInv
  <2>2. readers' = [readers EXCEPT ![r] = new]
    BY <1>3, <2>1 DEF ReadAttempts, InspectInv, ReaderRows
  <2>3. InOrder(readers[r].snapshot) \in Seq(AttemptRows)
    BY <2>1, InOrderIsSequence
  <2>4. /\ new \in ReaderRows /\ new.pc = "done"
        /\ new.delivery = readers[r].delivery /\ new.snapshot = readers[r].snapshot
        /\ new.attempts = InOrder(readers[r].snapshot)
    BY <2>1, <2>3 DEF ReaderRows
  <2> HIDE DEF new
  <2>5. ReaderInv(new)
    BY <2>1, <2>4 DEF ReaderInv
  <2>6. QED
    BY <2>2, <2>4, <2>5, ReaderStep
<1>4. ASSUME NEW r \in Readers, EndRead(r) PROVE InspectInv'
  <2>1. readers' = [readers EXCEPT ![r] = NotReading]
    BY <1>4 DEF EndRead
  <2>2. NotReading \in ReaderRows /\ ReaderInv(NotReading)
    BY DEF NotReading, ReaderRows, ReaderInv, NoDelivery, DeliveryRows
  <2>3. QED
    BY <2>1, <2>2, ReaderStep
<1>5. QED
  BY <1>1, <1>2, <1>3, <1>4 DEF InspectNext, inspectVars

\* What GetDelivery shows fits together, for any number of readers and any
\* commits between its two statements.
THEOREM DetailsAreConsistent == InspectSpec => []DetailsFitTogether
<1>1. InspectInit => InspectInv
  <2>1. NotReading \in ReaderRows /\ NotReading.pc = "idle"
    BY DEF NotReading, ReaderRows, NoDelivery, DeliveryRows
  <2>2. QED
    BY <2>1 DEF InspectInit, InspectInv, ReaderInv
<1>2. InspectInv => DetailsFitTogether
  <2> SUFFICES ASSUME InspectInv, NEW r \in Readers, readers[r].pc = "done"
               PROVE  LET row == readers[r].delivery
                          shown == readers[r].attempts
                      IN  /\ Len(shown) = ClosedAttempts(row)
                          /\ \A i \in 1 .. Len(shown) : shown[i].number = i
                          /\ (row.status = "succeeded") <=>
                                (shown # <<>> /\ shown[Len(shown)].outcome = "succeed")
    BY DEF DetailsFitTogether
  <2> DEFINE row == readers[r].delivery
             history == readers[r].snapshot
             shown == readers[r].attempts
             n == ClosedAttempts(row)
  <2>1. RowInv(row, history) /\ shown = InOrder(history)
    BY DEF InspectInv, ReaderInv
  <2>2. n \in Nat
    BY <2>1 DEF RowInv, DeliveryRows, AttemptColumns, ClosedAttempts
  <2>3. Len(shown) = n /\ \A i \in 1 .. n : shown[i] \in history /\ shown[i].number = i
    BY <2>1, CompleteHistoryInOrder
  <2>4. shown \in Seq(AttemptRows)
    BY <2>1, InOrderIsSequence
  <2> HIDE DEF row, history, shown, n
  <2>5. HistoryOf(row, history) /\ VerdictOf(row, history)
    BY <2>1 DEF RowInv
  <2>6. ASSUME row.status = "succeeded" PROVE shown # <<>> /\ shown[n].outcome = "succeed"
    <3>1. PICK a \in history : a.outcome = "succeed" /\ a.number = n
      BY <2>5, <2>6 DEF VerdictOf, n
    <3>2. n \in 1 .. n
      BY <2>5, <3>1 DEF HistoryOf, n
    <3>3. shown[n] = a
      BY <2>3, <2>5, <3>1, <3>2 DEF HistoryOf
    <3>4. QED
      BY <2>3, <2>4, <3>1, <3>2, <3>3
  <2>7. ASSUME shown # <<>>, shown[n].outcome = "succeed" PROVE row.status = "succeeded"
    <3>1. n \in 1 .. n
      BY <2>2, <2>3, <2>4, <2>7
    <3>2. QED
      BY <2>3, <2>5, <2>7, <3>1 DEF VerdictOf
  <2>8. QED
    BY <2>3, <2>6, <2>7 DEF row, shown, n
<1>3. InspectSpec => []InspectInv
  <2>1. IInv /\ InspectInv /\ [InspectNext]_inspectVars => InspectInv'
    BY InspectStep
  <2>2. InspectSpec => []IInv
    BY InspectImplementsStore, InductiveInvariant, PTL
  <2>3. QED
    BY <1>1, <2>1, <2>2, PTL DEF InspectSpec
<1>4. QED
  BY <1>2, <1>3, PTL
=============================================================================
