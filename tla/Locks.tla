-------------------------------- MODULE Locks -------------------------------
(***************************************************************************)
(* Publishers, workers and replays in one database: the row locks their    *)
(* statements take and wait for, and the connections of the pool they      *)
(* share.  Ingest has the statements of EnqueueEvent; this module runs     *)
(* them beside those of ClaimDelivery, FinishAttempt (queue.go) and        *)
(* ReplayDelivery (deliveries.go), one lock at a time.                     *)
(*                                                                         *)
(* Time is left out.  A retry or a circuit may fall due at any moment, and *)
(* a lease may run out at any moment, also while its worker is still at    *)
(* work (a late claim allows it, see LeaseOutlastsWork of Pool); once the  *)
(* worker has given up, it has run out.                                    *)
(*                                                                         *)
(* A worker is idle, recovering (the claim's first statement is done),     *)
(* claiming (the second is done), dispatching (until the report has a      *)
(* connection), or in FinishAttempt: begun (transaction open), reporting   *)
(* (delivery updated), updating (endpoint updated too).                    *)
(***************************************************************************)
EXTENDS Ingest, Naturals

CONSTANTS Workers, Replays,
          MaxAttempts,    \* max_attempts of every endpoint
          Connections     \* DATABASE_MAX_CONNECTIONS

ASSUME LocksAssumption ==
    /\ MaxAttempts \in Nat \ {0} /\ Connections \in Nat \ {0}
    /\ NULL \notin Workers \cup Replays
    /\ Requests \cap Workers = {} /\ (Requests \cup Workers) \cap Replays = {}

VARIABLES rows,       \* the state of each delivery, committed
          circuits,   \* the endpoints whose circuit is open
          workers,    \* the workers, with their open transactions
          replays,    \* the calls of ReplayDelivery, with theirs
          late        \* history: claims committed for a disabled endpoint

lockVars == <<vars, rows, circuits, workers, replays, late>>

-----------------------------------------------------------------------------
NoRow == [status |-> "none", used |-> 0, limit |-> 0, holder |-> NULL]

NewRow == [status |-> "pending", used |-> 0, limit |-> MaxAttempts, holder |-> NULL]

\* What the dispatcher and the worker report of a request, each decision and
\* each signal once; "none" leaves the endpoint alone.  A discard that closes
\* the circuit (a 4xx answer) takes the locks of a success.
Answers ==
    {[decision |-> "succeed", circuit |-> "success"],
     [decision |-> "retry", circuit |-> "failure"],
     [decision |-> "discard", circuit |-> "none"]}

Idle == [pc |-> "idle", job |-> NULL, recovered |-> {}, answer |-> NULL]

\* Mutant: FOR UPDATE OF e, d.
ReplayLocks_EndpointFirst == <<"endpoint", "delivery">>

\* FOR UPDATE OF d, e locks the two rows in this order.
ReplayLocks == <<"delivery", "endpoint">>

EndpointOf(d) ==
    LET event == CHOOSE ev \in events : [id |-> d, event |-> ev.id] \in deliveries
    IN  event.endpoint

-----------------------------------------------------------------------------
\* Who holds what.  A transaction keeps its locks until it ends.
Actors == Requests \cup Workers \cup Replays

Taken(p) == {ReplayLocks[i] : i \in 1 .. replays[p].locks}

HeldRows(a) ==
    IF a \in Requests
    THEN {row.id : row \in {requests[a].tx.delivery} \ {NULL}}
    ELSE IF a \in Workers
    THEN IF workers[a].pc \in {"recovering", "claiming", "reporting", "updating"}
         THEN workers[a].recovered \cup ({workers[a].job} \ {NULL}) ELSE {}
    ELSE IF "delivery" \in Taken(a) THEN {replays[a].target} ELSE {}

\* FOR SHARE
SharedEndpoints(a) ==
    IF a \in Requests THEN {requests[a].tx.endpoint} \ {NULL} ELSE {}

\* UPDATE and FOR UPDATE
HeldEndpoints(a) ==
    IF a \in Workers /\ workers[a].pc = "updating" THEN {EndpointOf(workers[a].job)}
    ELSE IF a \in Replays /\ "endpoint" \in Taken(a) THEN {EndpointOf(replays[a].target)}
    ELSE {}

\* The row FinishAttempt's WHERE asks for.  A worker at work takes no second
\* delivery, so its name stands for the token and the number too.
HoldsLease(w) ==
    LET row == rows[workers[w].job] IN row.status = "processing" /\ row.holder = w

\* Who needs what for its next statement.
NextLock(p) ==
    IF replays[p].stage = "begun" /\ replays[p].locks < 2
    THEN ReplayLocks[replays[p].locks + 1] ELSE "none"

WantedRows(a) ==
    IF a \in Requests
    THEN IF requests[a].stage = "upserted" THEN {DeliveryFor(a).id} ELSE {}
    ELSE IF a \in Workers
    THEN IF workers[a].pc = "begun" /\ HoldsLease(a) THEN {workers[a].job} ELSE {}
    ELSE IF NextLock(a) = "delivery" THEN {replays[a].target} ELSE {}

WantedShared(a) ==
    IF a \in Requests /\ requests[a].stage = "begun"
    THEN {requests[a].input.endpoint} ELSE {}

WantedEndpoints(a) ==
    IF /\ a \in Workers /\ workers[a].pc = "reporting"
       /\ workers[a].answer.circuit # "none"
    THEN {EndpointOf(workers[a].job)}
    ELSE IF a \in Replays /\ NextLock(a) = "endpoint"
    THEN {EndpointOf(replays[a].target)}
    ELSE {}

WaitsForKey(a, b) ==
    /\ a \in Requests /\ b \in Requests
    /\ requests[a].stage = "locked" /\ requests[b].tx.event # NULL
    /\ SameKey(requests[b].tx.event, requests[a].input)

WaitsFor(a, b) ==
    /\ a # b
    /\ \/ \E d \in WantedRows(a) : d \in HeldRows(b)
       \/ \E e \in WantedShared(a) : e \in HeldEndpoints(b)
       \/ \E e \in WantedEndpoints(a) : e \in HeldEndpoints(b) \cup SharedEndpoints(b)
       \/ WaitsForKey(a, b)

Blocked(a) == \E b \in Actors : WaitsFor(a, b)

Locked(d) == \E a \in Actors : d \in HeldRows(a)

\* Everyone in the set waits for another one of it.
Deadlock(set) ==
    set # {} /\ \A a \in set : \E b \in set : WaitsFor(a, b)

\* The connections of the pool: one for every open transaction.
InTransaction(a) ==
    IF a \in Requests THEN requests[a].stage \notin {"new", "answered"}
    ELSE IF a \in Workers THEN workers[a].pc \notin {"idle", "dispatching"}
    ELSE replays[a].stage = "begun"

FreeConnection == Cardinality({a \in Actors : InTransaction(a)}) < Connections

-----------------------------------------------------------------------------
\* Publishing, and the other calls of the API.
CreateAnEndpoint(e) ==
    /\ CreateEndpoint(e)
    /\ FreeConnection
    /\ UNCHANGED <<rows, circuits, workers, replays, late>>

DisableAnEndpoint(e) ==
    /\ DisableEndpoint(e)
    /\ FreeConnection
    /\ \A a \in Actors : e \notin HeldEndpoints(a)
    /\ UNCHANGED <<rows, circuits, workers, replays, late>>

BeginPublish(r, input) ==
    /\ Publish(r, input)
    /\ FreeConnection
    /\ UNCHANGED <<rows, circuits, workers, replays, late>>

ExecutePublish(r) ==
    /\ LockEndpoint(r) \/ UpsertEvent(r) \/ UpsertDelivery(r)
    /\ ~Blocked(r)
    /\ UNCHANGED <<rows, circuits, workers, replays, late>>

CommitPublish(r) ==
    LET d == requests[r].tx.delivery.id
    IN  /\ Acknowledge(r) \/ CommitUnheard(r)
        /\ rows' = [rows EXCEPT ![d] = IF @ = NoRow THEN NewRow ELSE @]
        /\ UNCHANGED <<circuits, workers, replays, late>>

FailPublish(r) ==
    /\ Fail(r)
    /\ UNCHANGED <<rows, circuits, workers, replays, late>>

-----------------------------------------------------------------------------
\* ClaimDelivery.
Working(w) == workers[w].pc \in {"dispatching", "begun", "reporting", "updating"}

\* The leases that may have run out, and those that have.
Leased == {d \in Requests : rows[d].status = "processing"}

Expired ==
    {d \in Leased : LET w == rows[d].holder IN ~(Working(w) /\ workers[w].job = d)}

Recovered(row) ==
    [row EXCEPT !.status = IF row.used < row.limit THEN "retrying" ELSE "dead",
                !.holder = NULL]

\* recoverExpiredLeases, FOR UPDATE SKIP LOCKED: the rows it meets locked are
\* left to another claim.
BeginClaim(w) ==
    /\ workers[w].pc = "idle" /\ FreeConnection
    /\ \E over \in SUBSET Leased :
          /\ Expired \subseteq over
          /\ workers' = [workers EXCEPT ![w].pc = "recovering",
                                        ![w].recovered = {d \in over : ~Locked(d)}]
    /\ UNCHANGED <<vars, rows, circuits, replays, late>>

\* What the claim's transaction sees of a row: its own recovery included.
Seen(w, d) ==
    IF d \in workers[w].recovered THEN Recovered(rows[d]) ELSE rows[d]

\* Mutant: the claim does not look at disabled_at.
Claimable_Disabled(w, d) ==
    /\ Seen(w, d).status \in {"pending", "retrying"} /\ Seen(w, d).used < Seen(w, d).limit
    /\ EndpointOf(d) \notin circuits
    /\ \A a \in Actors \ {w} : d \notin HeldRows(a)

\* The endpoint is read without a lock.
Claimable(w, d) ==
    /\ Seen(w, d).status \in {"pending", "retrying"} /\ Seen(w, d).used < Seen(w, d).limit
    /\ endpoints[EndpointOf(d)] = "enabled" /\ EndpointOf(d) \notin circuits
    /\ \A a \in Actors \ {w} : d \notin HeldRows(a)

\* FOR UPDATE OF d SKIP LOCKED LIMIT 1
SelectCandidate(w, d) ==
    /\ workers[w].pc = "recovering"
    /\ Claimable(w, d)
    /\ workers' = [workers EXCEPT ![w].pc = "claiming", ![w].job = d]
    /\ UNCHANGED <<vars, rows, circuits, replays, late>>

AfterRecovery(w) == [d \in Requests |-> Seen(w, d)]

\* The claim finds nothing, and commits what it has recovered.
FindNothing(w) ==
    /\ workers[w].pc = "recovering"
    /\ \A d \in Requests : ~Claimable(w, d)
    /\ rows' = AfterRecovery(w)
    /\ workers' = [workers EXCEPT ![w] = Idle]
    /\ UNCHANGED <<vars, circuits, replays, late>>

CommitClaim(w) ==
    LET d == workers[w].job
    IN  /\ workers[w].pc = "claiming"
        /\ rows' = [AfterRecovery(w) EXCEPT ![d].status = "processing",
                                            ![d].used = @ + 1, ![d].holder = w]
        /\ workers' = [workers EXCEPT ![w].pc = "dispatching", ![w].recovered = {}]
        /\ late' = IF endpoints[EndpointOf(d)] = "disabled"
                   THEN [late EXCEPT ![w][EndpointOf(d)] = @ + 1] ELSE late
        /\ UNCHANGED <<vars, circuits, replays>>

-----------------------------------------------------------------------------
\* The request, and FinishAttempt.
\* The dispatcher answers, and the report gets a connection.
BeginFinish(w, answer) ==
    /\ workers[w].pc = "dispatching" /\ FreeConnection
    /\ workers' = [workers EXCEPT ![w].pc = "begun", ![w].answer = answer]
    /\ UNCHANGED <<vars, rows, circuits, replays, late>>

\* UPDATE deliveries
UpdateDelivery(w) ==
    /\ workers[w].pc = "begun" /\ HoldsLease(w) /\ ~Blocked(w)
    /\ workers' = [workers EXCEPT ![w].pc = "reporting"]
    /\ UNCHANGED <<vars, rows, circuits, replays, late>>

\* ErrLeaseLost: another claim has recovered the delivery.
FindLeaseLost(w) ==
    /\ workers[w].pc = "begun" /\ ~HoldsLease(w)
    /\ workers' = [workers EXCEPT ![w] = Idle]
    /\ UNCHANGED <<vars, rows, circuits, replays, late>>

\* UPDATE endpoints
UpdateEndpoint(w) ==
    /\ workers[w].pc = "reporting" /\ workers[w].answer.circuit # "none"
    /\ ~Blocked(w)
    /\ workers' = [workers EXCEPT ![w].pc = "updating"]
    /\ UNCHANGED <<vars, rows, circuits, replays, late>>

Finished(row, decision) ==
    [row EXCEPT
        !.status = IF decision = "succeed" THEN "succeeded"
                   ELSE IF decision = "retry" /\ row.used < row.limit THEN "retrying"
                   ELSE "dead",
        !.holder = NULL]

\* A failure opens the circuit if it is the last of enough.
CircuitsAfter(e, circuit) ==
    CASE circuit = "none"    -> {circuits}
      [] circuit = "success" -> {circuits \ {e}}
      [] circuit = "failure" -> {circuits, circuits \cup {e}}

CommitFinish(w) ==
    LET d == workers[w].job
        answer == workers[w].answer
    IN  /\ \/ workers[w].pc = "updating"
           \/ workers[w].pc = "reporting" /\ answer.circuit = "none"
        /\ rows' = [rows EXCEPT ![d] = Finished(@, answer.decision)]
        /\ circuits' \in CircuitsAfter(EndpointOf(d), answer.circuit)
        /\ workers' = [workers EXCEPT ![w] = Idle]
        /\ UNCHANGED <<vars, replays, late>>

\* A statement fails or runs into its timeout, or the process dies and another
\* takes its place: the transaction is rolled back, a claim without a trace, a
\* result with its lease left to run out.  A claim that fails with nothing to
\* recover or to take is one that finds nothing.
FailClaim(w) ==
    /\ \/ workers[w].pc = "claiming"
       \/ /\ workers[w].pc = "recovering"
          /\ workers[w].recovered # {} \/ (\E d \in Requests : Claimable(w, d))
    /\ workers' = [workers EXCEPT ![w] = Idle]
    /\ UNCHANGED <<vars, rows, circuits, replays, late>>

LoseResult(w) ==
    /\ Working(w)
    /\ workers' = [workers EXCEPT ![w] = Idle]
    /\ UNCHANGED <<vars, rows, circuits, replays, late>>

\* circuit_open_until passes.
CloseCircuit(e) ==
    /\ e \in circuits
    /\ circuits' = circuits \ {e}
    /\ UNCHANGED <<vars, rows, workers, replays, late>>

-----------------------------------------------------------------------------
\* ReplayDelivery.
BeginReplay(p, d) ==
    /\ replays[p].stage = "new" /\ rows[d] # NoRow
    /\ FreeConnection
    /\ replays' = [replays EXCEPT ![p].stage = "begun", ![p].target = d]
    /\ UNCHANGED <<vars, rows, circuits, workers, late>>

LockForReplay(p) ==
    /\ NextLock(p) # "none" /\ ~Blocked(p)
    /\ replays' = [replays EXCEPT ![p].locks = @ + 1]
    /\ UNCHANGED <<vars, rows, circuits, workers, late>>

EndReplay(p) == replays' = [replays EXCEPT ![p].stage = "done", ![p].locks = 0]

\* Refused, or replayed and committed.
CommitReplay(p) ==
    LET d == replays[p].target
    IN  /\ replays[p].stage = "begun" /\ replays[p].locks = 2
        /\ rows' = IF endpoints[EndpointOf(d)] = "enabled" /\ rows[d].status = "dead"
                   THEN [rows EXCEPT ![d].status = "pending",
                                     ![d].limit = @ + MaxAttempts]
                   ELSE rows
        /\ EndReplay(p)
        /\ UNCHANGED <<vars, circuits, workers, late>>

FailReplay(p) ==
    /\ replays[p].stage = "begun"
    /\ EndReplay(p)
    /\ UNCHANGED <<vars, rows, circuits, workers, late>>

-----------------------------------------------------------------------------
\* PostgreSQL finds a circle of transactions and aborts one of them.
BreakDeadlock ==
    \E set \in SUBSET {a \in Actors : Blocked(a)} :
        /\ Deadlock(set)
        /\ \A smaller \in SUBSET set : Deadlock(smaller) => smaller = set
        /\ \E a \in set :
              \/ a \in Requests /\ FailPublish(a)
              \/ a \in Workers /\ LoseResult(a)
              \/ a \in Replays /\ FailReplay(a)

LocksInit ==
    /\ Init
    /\ rows = [d \in Requests |-> NoRow]
    /\ circuits = {}
    /\ workers = [w \in Workers |-> Idle]
    /\ replays = [p \in Replays |-> [stage |-> "new", target |-> NULL, locks |-> 0]]
    /\ late = [w \in Workers |-> [e \in Endpoints |-> 0]]

PublishStep(r) == ExecutePublish(r) \/ CommitPublish(r)

ClaimStep(w) ==
    \/ BeginClaim(w) \/ (\E d \in Requests : SelectCandidate(w, d))
    \/ FindNothing(w) \/ CommitClaim(w)

FinishStep(w) ==
    \/ \E answer \in Answers : BeginFinish(w, answer)
    \/ UpdateDelivery(w) \/ FindLeaseLost(w) \/ UpdateEndpoint(w) \/ CommitFinish(w)

ReplayStep(p) == LockForReplay(p) \/ CommitReplay(p)

LocksNext ==
    \/ \E e \in Endpoints : CreateAnEndpoint(e) \/ DisableAnEndpoint(e) \/ CloseCircuit(e)
    \/ \E r \in Requests :
          \/ \E input \in Inputs : BeginPublish(r, input)
          \/ PublishStep(r) \/ FailPublish(r)
    \/ \E w \in Workers : ClaimStep(w) \/ FinishStep(w) \/ FailClaim(w) \/ LoseResult(w)
    \/ \E p \in Replays :
          (\E d \in Requests : BeginReplay(p, d)) \/ ReplayStep(p) \/ FailReplay(p)
    \/ BreakDeadlock

LocksSpec == LocksInit /\ [][LocksNext]_lockVars

\* A statement that is not blocked is executed, a circle of waiting ones is
\* broken, a worker goes on with what it does, and a circuit falls due.  A
\* claim may fail any number of times, but not for ever.
LocksFairness ==
    /\ \A r \in Requests : WF_lockVars(PublishStep(r))
    /\ \A w \in Workers :
          /\ WF_lockVars(ClaimStep(w) \/ FinishStep(w))
          /\ <>[][~FailClaim(w)]_lockVars
    /\ \A p \in Replays : WF_lockVars(ReplayStep(p))
    /\ \A e \in Endpoints : WF_lockVars(CloseCircuit(e))
    /\ WF_lockVars(BreakDeadlock)

FairLocksSpec == LocksSpec /\ LocksFairness

-----------------------------------------------------------------------------
\* The only deadlock the statements can run into is that of a repeated publish,
\* which has the endpoint and wants the delivery, with a transaction of
\* FinishAttempt or ReplayDelivery, which has the delivery and wants the
\* endpoint; claims, results and replays never block each other for good.
KnownDeadlocks ==
    \A set \in SUBSET {a \in Actors : Blocked(a)} :
        Deadlock(set) =>
            \E r \in set \cap Requests, a \in set \ Requests :
                WaitsFor(r, a) /\ WaitsFor(a, r)

\* After an endpoint is disabled each worker begins at most one more request to
\* it: the claim that had read the endpoint before.
FewLateClaims == \A w \in Workers, e \in Endpoints : late[w][e] <= 1

\* Nobody waits for ever and nothing that was accepted is forgotten: there is
\* always a later moment when every request has been answered and every delivery
\* has succeeded, died, or stays with an endpoint that was disabled.  That is so
\* whatever results are lost, claims fail and transactions are aborted, and
\* however few connections the publishers, workers and replays share.
EverythingSettles ==
    []<>(/\ \A r \in Requests : requests[r].stage \in {"new", "answered"}
         /\ \A d \in Requests :
               \/ rows[d].status \in {"none", "succeeded", "dead"}
               \/ endpoints[EndpointOf(d)] = "disabled")
=============================================================================
