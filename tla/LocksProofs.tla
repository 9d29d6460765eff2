----------------------------- MODULE LocksProofs ----------------------------
(***************************************************************************)
(* Proofs about module Locks, for any number of endpoints, keys, requests, *)
(* workers, replays and connections.  The transactions of EnqueueEvent run *)
(* beside those of the workers as module Ingest allows, so that its        *)
(* theorems hold; a disabled endpoint gets few late requests; and every    *)
(* deadlock has a repeated publish in it.                                  *)
(***************************************************************************)
EXTENDS Locks, IngestProofs

RowStates ==
    [status : {"none", "pending", "processing", "retrying", "succeeded", "dead"},
     used : Nat, limit : Nat, holder : Workers \cup {NULL}]

WorkerStates ==
    [pc : {"idle", "recovering", "claiming", "dispatching", "begun", "reporting",
           "updating"},
     job : Requests \cup {NULL}, recovered : SUBSET Requests,
     answer : Answers \cup {NULL}]

ReplayStates ==
    [stage : {"new", "begun", "done"}, target : Requests \cup {NULL}, locks : 0 .. 2]

LocksTypes ==
    /\ rows \in [Requests -> RowStates]
    /\ workers \in [Workers -> WorkerStates]
    /\ replays \in [Replays -> ReplayStates]

\* The delivery is in the table, with its event.
Known(d) == \E event \in events : [id |-> d, event |-> event.id] \in deliveries

RowInv(d) == rows[d] # NoRow => Known(d)

WorkerInv(w) ==
    LET worker == workers[w]
    IN  /\ worker.pc \in {"idle", "recovering"} => worker.job = NULL
        /\ worker.pc \notin {"idle", "recovering"} =>
               worker.job \in Requests /\ Known(worker.job)
        /\ \A d \in worker.recovered : Known(d)
        /\ worker.pc \notin {"recovering", "claiming"} => worker.recovered = {}

ReplayInv(p) ==
    LET replay == replays[p]
    IN  /\ replay.stage = "begun" => replay.target \in Requests /\ Known(replay.target)
        /\ replay.stage # "begun" => replay.locks = 0

LocksInv ==
    /\ IngestInv /\ LocksTypes
    /\ \A d \in Requests : RowInv(d)
    /\ \A w \in Workers : WorkerInv(w)
    /\ \A p \in Replays : ReplayInv(p)

-----------------------------------------------------------------------------
LEMMA InitImplies == LocksInit => Init
BY DEF LocksInit

LEMMA StepImplies == [LocksNext]_lockVars => [Next]_vars
<1> SUFFICES ASSUME [LocksNext]_lockVars PROVE Next \/ UNCHANGED vars
  OBVIOUS
<1>1. ASSUME NEW e \in Endpoints,
             CreateAnEndpoint(e) \/ DisableAnEndpoint(e) \/ CloseCircuit(e)
      PROVE  Next \/ UNCHANGED vars
  BY <1>1 DEF CreateAnEndpoint, DisableAnEndpoint, CloseCircuit, Next
<1>2. ASSUME NEW r \in Requests, NEW input \in Inputs, BeginPublish(r, input)
      PROVE  Next \/ UNCHANGED vars
  BY <1>2 DEF BeginPublish, Next
<1>3. ASSUME NEW r \in Requests, PublishStep(r) \/ FailPublish(r)
      PROVE  Next \/ UNCHANGED vars
  BY <1>3 DEF PublishStep, ExecutePublish, CommitPublish, FailPublish, EnqueueEvent, Next
<1>4. ASSUME NEW w \in Workers, ClaimStep(w) \/ FinishStep(w) \/ FailClaim(w) \/ LoseResult(w)
      PROVE  Next \/ UNCHANGED vars
  BY <1>4 DEF ClaimStep, BeginClaim, SelectCandidate, FindNothing, CommitClaim, FinishStep,
              BeginFinish, UpdateDelivery, FindLeaseLost, UpdateEndpoint, CommitFinish, FailClaim,
              LoseResult
<1>5. ASSUME NEW p \in Replays,
             (\E d \in Requests : BeginReplay(p, d)) \/ ReplayStep(p) \/ FailReplay(p)
      PROVE  Next \/ UNCHANGED vars
  BY <1>5 DEF BeginReplay, ReplayStep, LockForReplay, CommitReplay, FailReplay
<1>6. CASE BreakDeadlock
  <2>1. \/ \E r \in Requests : FailPublish(r)
        \/ \E w \in Workers : LoseResult(w)
        \/ \E p \in Replays : FailReplay(p)
    BY <1>6 DEF BreakDeadlock
  <2>2. QED
    BY <1>3, <1>4, <1>5, <2>1
<1>7. CASE UNCHANGED lockVars
  BY <1>7 DEF lockVars
<1>8. QED
  BY <1>1, <1>2, <1>3, <1>4, <1>5, <1>6, <1>7 DEF LocksNext

\* Beside workers and replays, publishers do what module Ingest says: all that
\* IngestProofs shows of EnqueueEvent holds with the rest of the system running.
THEOREM LocksImplementIngest == LocksSpec => Spec
BY InitImplies, StepImplies, PTL DEF LocksSpec, Spec

\* Beside workers and replays, publishing is still linearizable.
THEOREM LocksImplementLedger == LocksSpec => ImplementsLedger
BY LocksImplementIngest, IngestImplementsLedger, PTL

-----------------------------------------------------------------------------
\* The tables only grow.
LEMMA TablesGrow ==
    ASSUME [Next]_vars
    PROVE  events \subseteq events' /\ deliveries \subseteq deliveries'
BY DEF Next, vars, EnqueueEvent, CreateEndpoint, DisableEndpoint, Publish, LockEndpoint,
       UpsertEvent, UpsertDelivery, Acknowledge, CommitUnheard, Commit, Fail

LEMMA KnownStays ==
    ASSUME [Next]_vars, NEW d, Known(d)
    PROVE  Known(d)'
BY TablesGrow DEF Known

\* The endpoint of a known delivery is that of its one event, for good.
LEMMA EndpointOfKnown ==
    ASSUME Tables, NEW d, NEW event \in events,
           [id |-> d, event |-> event.id] \in deliveries
    PROVE  EndpointOf(d) = event.endpoint
<1>1. event.id = d
  <2>1. [id |-> d, event |-> event.id].id = [id |-> d, event |-> event.id].event
    BY DEF Tables
  <2>2. QED
    BY <2>1
<1>2. ASSUME NEW other \in events, [id |-> d, event |-> other.id] \in deliveries
      PROVE  other = event
  <2>1. [id |-> d, event |-> other.id].id = [id |-> d, event |-> other.id].event
    BY <1>2 DEF Tables
  <2>2. other.id = event.id
    BY <1>1, <2>1
  <2>3. QED
    BY <2>2 DEF Tables
<1>3. (CHOOSE ev \in events : [id |-> d, event |-> ev.id] \in deliveries) = event
  BY <1>2
<1>4. QED
  BY <1>3 DEF EndpointOf

LEMMA EndpointOfStays ==
    ASSUME IngestInv, IngestInv', [Next]_vars, NEW d, Known(d)
    PROVE  EndpointOf(d)' = EndpointOf(d) /\ EndpointOf(d) \in Endpoints
<1>1. PICK event \in events : [id |-> d, event |-> event.id] \in deliveries
  BY DEF Known
<1>2. EndpointOf(d) = event.endpoint
  BY <1>1, EndpointOfKnown DEF IngestInv
<1>3. Tables' /\ event \in events' /\ [id |-> d, event |-> event.id] \in deliveries'
  BY <1>1, TablesGrow DEF IngestInv
<1>4. EndpointOf(d)' = event.endpoint
  <2>1. (CHOOSE ev \in events' : [id |-> d, event |-> ev.id] \in deliveries') = event
    <3>1. ASSUME NEW other \in events', [id |-> d, event |-> other.id] \in deliveries'
          PROVE  other = event
      <4>1. /\ [id |-> d, event |-> other.id].id = [id |-> d, event |-> other.id].event
            /\ [id |-> d, event |-> event.id].id = [id |-> d, event |-> event.id].event
        BY <1>3, <3>1 DEF Tables
      <4>2. other.id = event.id
        BY <4>1
      <4>3. QED
        BY <1>3, <4>2 DEF Tables
    <3>2. QED
      BY <1>3, <3>1
  <2>2. QED
    BY <2>1 DEF EndpointOf
<1>5. event.endpoint \in Endpoints
  BY DEF IngestInv, IngestTypeOK, EventRows
<1>6. QED
  BY <1>2, <1>4, <1>5

-----------------------------------------------------------------------------
\* What is to be shown of a step, whoever takes it.
LEMMA RowsStay ==
    ASSUME LocksInv, [Next]_vars, UNCHANGED rows
    PROVE  /\ rows' \in [Requests -> RowStates]
           /\ \A d \in Requests : RowInv(d)'
BY KnownStays DEF LocksInv, LocksTypes, RowInv

LEMMA WorkersStay ==
    ASSUME LocksInv, [Next]_vars, UNCHANGED workers
    PROVE  /\ workers' \in [Workers -> WorkerStates]
           /\ \A w \in Workers : WorkerInv(w)'
BY KnownStays DEF LocksInv, LocksTypes, WorkerInv

LEMMA ReplaysStay ==
    ASSUME LocksInv, [Next]_vars, UNCHANGED replays
    PROVE  /\ replays' \in [Replays -> ReplayStates]
           /\ \A p \in Replays : ReplayInv(p)'
BY KnownStays DEF LocksInv, LocksTypes, ReplayInv

LEMMA OneWorker ==
    ASSUME LocksInv, [Next]_vars, NEW w \in Workers,
           workers' = [workers EXCEPT ![w] = workers'[w]],
           workers'[w] \in WorkerStates, WorkerInv(w)'
    PROVE  /\ workers' \in [Workers -> WorkerStates]
           /\ \A v \in Workers : WorkerInv(v)'
<1>1. workers' \in [Workers -> WorkerStates]
  BY DEF LocksInv, LocksTypes
<1>2. ASSUME NEW v \in Workers PROVE WorkerInv(v)'
  <2>1. CASE v = w
    BY <2>1
  <2>2. CASE v # w
    <3>1. workers'[v] = workers[v]
      BY <2>2 DEF LocksInv, LocksTypes
    <3>2. QED
      BY <3>1, KnownStays DEF LocksInv, WorkerInv
  <2>3. QED
    BY <2>1, <2>2
<1>3. QED
  BY <1>1, <1>2

LEMMA OneReplay ==
    ASSUME LocksInv, [Next]_vars, NEW p \in Replays,
           replays' = [replays EXCEPT ![p] = replays'[p]],
           replays'[p] \in ReplayStates, ReplayInv(p)'
    PROVE  /\ replays' \in [Replays -> ReplayStates]
           /\ \A q \in Replays : ReplayInv(q)'
<1>1. replays' \in [Replays -> ReplayStates]
  BY DEF LocksInv, LocksTypes
<1>2. ASSUME NEW q \in Replays PROVE ReplayInv(q)'
  <2>1. CASE q = p
    BY <2>1
  <2>2. CASE q # p
    <3>1. replays'[q] = replays[q]
      BY <2>2 DEF LocksInv, LocksTypes
    <3>2. QED
      BY <3>1, KnownStays DEF LocksInv, ReplayInv
  <2>3. QED
    BY <2>1, <2>2
<1>3. QED
  BY <1>1, <1>2

\* A row that has a status other than "none" is a known delivery.
LEMMA RowKnown ==
    ASSUME LocksInv, NEW d \in Requests, rows[d].status # "none"
    PROVE  Known(d)
BY DEF LocksInv, RowInv, NoRow

LEMMA IdleTyped == Idle \in WorkerStates
BY DEF Idle, WorkerStates

LEMMA RowsTyped ==
    ASSUME NEW row \in RowStates, NEW decision
    PROVE  Recovered(row) \in RowStates /\ Finished(row, decision) \in RowStates
BY DEF Recovered, Finished, RowStates

\* What a claim's transaction sees is typed and known.
LEMMA SeenTyped ==
    ASSUME LocksInv, NEW w \in Workers, NEW d \in Requests
    PROVE  /\ Seen(w, d) \in RowStates
           /\ Seen(w, d) # NoRow => Known(d)
<1>1. rows[d] \in RowStates
  BY DEF LocksInv, LocksTypes
<1>2. Recovered(rows[d]) \in RowStates
  BY <1>1, RowsTyped
<1>3. QED
  BY <1>1, <1>2 DEF Seen, LocksInv, WorkerInv, RowInv

-----------------------------------------------------------------------------
LEMMA PublisherKeeps ==
    ASSUME LocksInv, [Next]_vars, NEW r \in Requests,
           PublishStep(r) \/ FailPublish(r) \/ (\E input \in Inputs : BeginPublish(r, input))
    PROVE  LocksTypes' /\ (\A d \in Requests : RowInv(d)')
           /\ (\A w \in Workers : WorkerInv(w)') /\ (\A p \in Replays : ReplayInv(p)')
<1>1. UNCHANGED <<workers, replays>>
  BY DEF PublishStep, ExecutePublish, CommitPublish, FailPublish, BeginPublish
<1>2. rows' \in [Requests -> RowStates] /\ \A d \in Requests : RowInv(d)'
  <2>1. CASE UNCHANGED rows
    BY <2>1, RowsStay
  <2>2. CASE CommitPublish(r)
    <3>1. PICK row, event :
              /\ row = requests[r].tx.delivery /\ event = requests[r].tx.event
              /\ requests[r].stage = "stored" /\ event \in events' /\ row \in deliveries'
              /\ rows' = [rows EXCEPT ![row.id] = IF rows[row.id] = NoRow THEN NewRow
                                                  ELSE rows[row.id]]
      BY <2>2 DEF CommitPublish, Acknowledge, CommitUnheard, Commit, LocksInv, LocksTypes
    <3>2. row \in DeliveryRows /\ row.event = event.id
      BY <3>1, TypeByRequest
         DEF LocksInv, IngestInv, RequestTyped, RequestInv, TxDelivery
    <3>3. row = [id |-> row.id, event |-> event.id] /\ row.id \in Requests
      BY <3>2 DEF DeliveryRows
    <3>4. Known(row.id)'
      BY <3>1, <3>3 DEF Known
    <3>5. NewRow \in RowStates
      BY LocksAssumption DEF NewRow, RowStates
    <3>6. rows' \in [Requests -> RowStates]
      BY <3>1, <3>3, <3>5 DEF LocksInv, LocksTypes
    <3>7. ASSUME NEW d \in Requests PROVE RowInv(d)'
      <4>1. CASE d = row.id
        BY <3>4, <4>1 DEF RowInv
      <4>2. CASE d # row.id
        <5>1. rows'[d] = rows[d]
          BY <3>1, <4>2 DEF LocksInv, LocksTypes
        <5>2. QED
          BY <5>1, KnownStays DEF RowInv, LocksInv
      <4>3. QED
        BY <4>1, <4>2
    <3>8. QED
      BY <3>6, <3>7
  <2>3. QED
    BY <2>1, <2>2 DEF PublishStep, ExecutePublish, FailPublish, BeginPublish
<1>3. QED
  BY <1>1, <1>2, WorkersStay, ReplaysStay DEF LocksTypes

\* A claim recovers deliveries that are leased, of live workers too.
LEMMA RecoversLeased ==
    ASSUME NEW w \in Workers, BeginClaim(w)
    PROVE  \E recovered \in SUBSET Leased :
              workers' = [workers EXCEPT ![w].pc = "recovering", ![w].recovered = recovered]
<1>1. PICK over \in SUBSET Leased :
         workers' = [workers EXCEPT ![w].pc = "recovering",
                                    ![w].recovered = {d \in over : ~Locked(d)}]
  BY DEF BeginClaim
<1>2. QED
  BY <1>1

LEMMA ClaimKeeps ==
    ASSUME LocksInv, [Next]_vars, NEW w \in Workers, ClaimStep(w)
    PROVE  LocksTypes' /\ (\A d \in Requests : RowInv(d)')
           /\ (\A v \in Workers : WorkerInv(v)') /\ (\A p \in Replays : ReplayInv(p)')
<1>1. workers[w] \in WorkerStates /\ WorkerInv(w) /\ workers \in [Workers -> WorkerStates]
      /\ rows \in [Requests -> RowStates]
  BY DEF LocksInv, LocksTypes
<1>2. UNCHANGED <<vars, replays>>
  BY DEF ClaimStep, BeginClaim, SelectCandidate, FindNothing, CommitClaim
<1>3. \A d : Known(d)' = Known(d)
  BY <1>2 DEF Known, vars
<1>4. CASE BeginClaim(w)
  <2>1. \A d \in Leased : d \in Requests /\ Known(d)
    BY RowKnown DEF Leased
  <2>2. /\ workers' = [workers EXCEPT ![w] = workers'[w]]
        /\ workers'[w].pc = "recovering" /\ workers'[w].job = workers[w].job
        /\ workers'[w].recovered \subseteq Leased
        /\ workers'[w] \in WorkerStates
    <3>1. PICK recovered \in SUBSET Leased :
             workers' = [workers EXCEPT ![w].pc = "recovering", ![w].recovered = recovered]
      BY <1>4, RecoversLeased
    <3>2. recovered \subseteq Requests
      BY <2>1
    <3>3. QED
      BY <1>1, <3>1, <3>2 DEF WorkerStates
  <2>3. WorkerInv(w)'
    BY <1>1, <1>3, <1>4, <2>1, <2>2 DEF WorkerInv, BeginClaim
  <2>4. UNCHANGED rows
    BY <1>4 DEF BeginClaim
  <2>5. QED
    BY <1>2, <2>2, <2>3, <2>4, OneWorker, RowsStay, ReplaysStay DEF LocksTypes
<1>5. ASSUME NEW d \in Requests, SelectCandidate(w, d)
      PROVE  LocksTypes' /\ (\A x \in Requests : RowInv(x)')
             /\ (\A v \in Workers : WorkerInv(v)') /\ (\A p \in Replays : ReplayInv(p)')
  <2>1. Known(d)
    BY <1>5, SeenTyped DEF SelectCandidate, Claimable, NoRow
  <2>2. /\ workers' = [workers EXCEPT ![w] = workers'[w]]
        /\ workers'[w].pc = "claiming" /\ workers'[w].job = d
        /\ workers'[w].recovered = workers[w].recovered
        /\ workers'[w] \in WorkerStates
    BY <1>1, <1>5 DEF SelectCandidate, WorkerStates
  <2>3. WorkerInv(w)'
    BY <1>1, <1>3, <2>1, <2>2 DEF WorkerInv
  <2>4. UNCHANGED rows
    BY <1>5 DEF SelectCandidate
  <2>5. QED
    BY <1>2, <2>2, <2>3, <2>4, OneWorker, RowsStay, ReplaysStay DEF LocksTypes
<1>6. AfterRecovery(w) \in [Requests -> RowStates]
      /\ \A d \in Requests : AfterRecovery(w)[d] # NoRow => Known(d)
  BY SeenTyped DEF AfterRecovery
<1>7. CASE FindNothing(w)
  <2>1. workers' = [workers EXCEPT ![w] = workers'[w]] /\ workers'[w] = Idle
    BY <1>1, <1>7 DEF FindNothing
  <2>2. WorkerInv(w)'
    BY <2>1 DEF WorkerInv, Idle
  <2>3. rows' \in [Requests -> RowStates] /\ \A d \in Requests : RowInv(d)'
    BY <1>3, <1>6, <1>7 DEF FindNothing, RowInv
  <2>4. QED
    BY <1>2, <2>1, <2>2, <2>3, IdleTyped, OneWorker, ReplaysStay DEF LocksTypes
<1>8. CASE CommitClaim(w)
  <2> DEFINE d == workers[w].job
             before == AfterRecovery(w)
  <2>1. d \in Requests /\ Known(d) /\ workers[w].pc = "claiming"
    BY <1>1, <1>8 DEF CommitClaim, WorkerInv
  <2>2. /\ workers' = [workers EXCEPT ![w] = workers'[w]]
        /\ workers'[w].pc = "dispatching" /\ workers'[w].job = d
        /\ workers'[w].recovered = {}
        /\ workers'[w] \in WorkerStates
    BY <1>1, <1>8 DEF CommitClaim, WorkerStates
  <2>3. WorkerInv(w)'
    BY <1>3, <2>1, <2>2 DEF WorkerInv
  <2>4. rows' = [before EXCEPT ![d] = rows'[d]] /\ rows'[d] \in RowStates
    <3>1. rows' = [before EXCEPT ![d].status = "processing", ![d].used = @ + 1,
                                 ![d].holder = w]
      BY <1>8 DEF CommitClaim
    <3> HIDE DEF before, d
    <3>2. before \in [Requests -> RowStates] /\ d \in Requests
      BY <1>6, <2>1 DEF before
    <3>3. QED
      BY <3>1, <3>2 DEF RowStates
  <2>5. rows' \in [Requests -> RowStates] /\ \A x \in Requests : RowInv(x)'
    <3> HIDE DEF before, d
    <3>1. before \in [Requests -> RowStates] /\ \A x \in Requests : before[x] # NoRow => Known(x)
      BY <1>6 DEF before
    <3>2. QED
      BY <1>3, <2>1, <2>4, <3>1 DEF RowInv
  <2>6. QED
    BY <1>2, <2>2, <2>3, <2>5, OneWorker, ReplaysStay DEF LocksTypes
<1>9. QED
  BY <1>4, <1>5, <1>7, <1>8 DEF ClaimStep

LEMMA FinishKeeps ==
    ASSUME LocksInv, [Next]_vars, NEW w \in Workers,
           FinishStep(w) \/ FailClaim(w) \/ LoseResult(w)
    PROVE  LocksTypes' /\ (\A d \in Requests : RowInv(d)')
           /\ (\A v \in Workers : WorkerInv(v)') /\ (\A p \in Replays : ReplayInv(p)')
<1>1. workers[w] \in WorkerStates /\ WorkerInv(w) /\ workers \in [Workers -> WorkerStates]
      /\ rows \in [Requests -> RowStates]
  BY DEF LocksInv, LocksTypes
<1>2. UNCHANGED <<vars, replays>>
  BY DEF FinishStep, BeginFinish, UpdateDelivery, FindLeaseLost, UpdateEndpoint,
         CommitFinish, FailClaim, LoseResult
<1>3. \A d : Known(d)' = Known(d)
  BY <1>2 DEF Known, vars
<1>4. CASE (\E answer \in Answers : BeginFinish(w, answer))
           \/ UpdateDelivery(w) \/ UpdateEndpoint(w)
  <2>1. /\ workers' = [workers EXCEPT ![w] = workers'[w]]
        /\ workers'[w].job = workers[w].job
        /\ workers'[w].recovered = workers[w].recovered
        /\ workers[w].pc \in {"dispatching", "begun", "reporting"}
        /\ workers'[w].pc \in {"begun", "reporting", "updating"}
        /\ workers'[w] \in WorkerStates
        /\ UNCHANGED rows
    BY <1>1, <1>4 DEF BeginFinish, UpdateDelivery, UpdateEndpoint, WorkerStates
  <2>2. WorkerInv(w)'
    BY <1>1, <1>3, <2>1 DEF WorkerInv
  <2>3. QED
    BY <1>2, <2>1, <2>2, OneWorker, RowsStay, ReplaysStay DEF LocksTypes
<1>5. ASSUME workers' = [workers EXCEPT ![w] = Idle]
      PROVE  workers' \in [Workers -> WorkerStates] /\ \A v \in Workers : WorkerInv(v)'
  <2>1. workers' = [workers EXCEPT ![w] = workers'[w]] /\ workers'[w] = Idle
    BY <1>1, <1>5
  <2>2. WorkerInv(w)'
    BY <2>1 DEF WorkerInv, Idle
  <2>3. QED
    BY <2>1, <2>2, IdleTyped, OneWorker
<1>6. CASE CommitFinish(w)
  <2>1. PICK d, decision : /\ d = workers[w].job
                           /\ rows' = [rows EXCEPT ![d] = Finished(rows[d], decision)]
    BY <1>6 DEF CommitFinish
  <2>2. d \in Requests /\ Known(d)
    BY <1>1, <1>6, <2>1 DEF CommitFinish, WorkerInv
  <2>3. Finished(rows[d], decision) \in RowStates
    BY <1>1, <2>2, RowsTyped
  <2>4. rows' \in [Requests -> RowStates] /\ \A x \in Requests : RowInv(x)'
    BY <1>1, <1>3, <2>1, <2>2, <2>3 DEF RowInv, LocksInv
  <2>5. workers' = [workers EXCEPT ![w] = Idle]
    BY <1>6 DEF CommitFinish
  <2>6. QED
    BY <1>2, <1>5, <2>4, <2>5, ReplaysStay DEF LocksTypes
<1>7. CASE FindLeaseLost(w) \/ FailClaim(w) \/ LoseResult(w)
  BY <1>2, <1>5, <1>7, RowsStay, ReplaysStay
     DEF FindLeaseLost, FailClaim, LoseResult, LocksTypes
<1>8. QED
  BY <1>4, <1>6, <1>7 DEF FinishStep

LEMMA ReplayKeeps ==
    ASSUME LocksInv, [Next]_vars, NEW p \in Replays,
           (\E d \in Requests : BeginReplay(p, d)) \/ ReplayStep(p) \/ FailReplay(p)
    PROVE  LocksTypes' /\ (\A d \in Requests : RowInv(d)')
           /\ (\A w \in Workers : WorkerInv(w)') /\ (\A q \in Replays : ReplayInv(q)')
<1>1. replays[p] \in ReplayStates /\ ReplayInv(p) /\ replays \in [Replays -> ReplayStates]
      /\ rows \in [Requests -> RowStates]
  BY DEF LocksInv, LocksTypes
<1>2. UNCHANGED <<vars, workers>>
  BY DEF BeginReplay, ReplayStep, LockForReplay, CommitReplay, FailReplay
<1>3. \A d : Known(d)' = Known(d)
  BY <1>2 DEF Known, vars
<1>4. ASSUME NEW d \in Requests, BeginReplay(p, d)
      PROVE  LocksTypes' /\ (\A x \in Requests : RowInv(x)')
             /\ (\A w \in Workers : WorkerInv(w)') /\ (\A q \in Replays : ReplayInv(q)')
  <2>1. Known(d) /\ replays[p].stage = "new" /\ UNCHANGED rows
    BY <1>4 DEF BeginReplay, LocksInv, RowInv
  <2>2. /\ replays' = [replays EXCEPT ![p] = replays'[p]]
        /\ replays'[p].stage = "begun" /\ replays'[p].target = d
        /\ replays'[p] \in ReplayStates
    BY <1>1, <1>4 DEF BeginReplay, ReplayStates
  <2>3. ReplayInv(p)'
    BY <1>3, <2>1, <2>2 DEF ReplayInv
  <2>4. QED
    BY <1>2, <2>1, <2>2, <2>3, OneReplay, RowsStay, WorkersStay DEF LocksTypes
<1>5. CASE LockForReplay(p)
  <2>1. replays[p].stage = "begun" /\ replays[p].locks \in 0 .. 1 /\ UNCHANGED rows
    BY <1>1, <1>5 DEF LockForReplay, NextLock, ReplayStates
  <2>2. /\ replays' = [replays EXCEPT ![p] = replays'[p]]
        /\ replays'[p].stage = "begun" /\ replays'[p].target = replays[p].target
        /\ replays'[p] \in ReplayStates
    <3>1. PICK locks \in 0 .. 2 : replays' = [replays EXCEPT ![p].locks = locks]
      <4>1. replays[p].locks + 1 \in 0 .. 2
        BY <2>1
      <4>2. replays' = [replays EXCEPT ![p].locks = replays[p].locks + 1]
        BY <1>1, <1>5 DEF LockForReplay
      <4>3. QED
        BY <4>1, <4>2
    <3>2. QED
      BY <1>1, <2>1, <3>1 DEF ReplayStates
  <2>3. ReplayInv(p)'
    BY <1>1, <1>3, <2>1, <2>2 DEF ReplayInv
  <2>4. QED
    BY <1>2, <2>1, <2>2, <2>3, OneReplay, RowsStay, WorkersStay DEF LocksTypes
<1>6. ASSUME EndReplay(p)
      PROVE  replays' \in [Replays -> ReplayStates] /\ \A q \in Replays : ReplayInv(q)'
  <2>1. /\ replays' = [replays EXCEPT ![p] = replays'[p]]
        /\ replays'[p].stage = "done" /\ replays'[p].locks = 0
        /\ replays'[p] \in ReplayStates
    <3>1. PICK none \in 0 .. 2 :
              none = 0 /\ replays' = [replays EXCEPT ![p].stage = "done", ![p].locks = none]
      BY <1>6 DEF EndReplay
    <3>2. QED
      BY <1>1, <3>1 DEF ReplayStates
  <2>2. ReplayInv(p)'
    BY <2>1 DEF ReplayInv
  <2>3. QED
    BY <2>1, <2>2, OneReplay
<1>7. CASE CommitReplay(p)
  <2>1. PICK d : /\ d = replays[p].target
                 /\ \/ UNCHANGED rows
                    \/ rows' = [rows EXCEPT ![d].status = "pending",
                                            ![d].limit = @ + MaxAttempts]
    BY <1>7 DEF CommitReplay
  <2>2. d \in Requests /\ Known(d)
    BY <1>1, <1>7, <2>1 DEF CommitReplay, ReplayInv
  <2>3. rows' \in [Requests -> RowStates] /\ \A x \in Requests : x # d => rows'[x] = rows[x]
    BY <1>1, <2>1, <2>2, LocksAssumption DEF RowStates
  <2>4. \A x \in Requests : RowInv(x)'
    BY <1>3, <2>2, <2>3 DEF RowInv, LocksInv
  <2>5. EndReplay(p)
    BY <1>7 DEF CommitReplay
  <2>6. QED
    BY <1>2, <1>6, <2>3, <2>4, <2>5, WorkersStay DEF LocksTypes
<1>8. CASE FailReplay(p)
  BY <1>2, <1>6, <1>8, RowsStay, WorkersStay DEF FailReplay, LocksTypes
<1>9. QED
  BY <1>4, <1>5, <1>7, <1>8 DEF ReplayStep

LEMMA LocksInitially == LocksInit => LocksInv
<1> SUFFICES ASSUME LocksInit PROVE LocksInv
  OBVIOUS
<1>1. IngestInv
  BY InitImplies, IngestInitially
<1>2. NoRow \in RowStates
  BY DEF NoRow, RowStates
<1>3. LocksTypes
  BY <1>2, IdleTyped DEF LocksInit, LocksTypes, ReplayStates
<1>4. QED
  BY <1>1, <1>3 DEF LocksInit, LocksInv, RowInv, WorkerInv, ReplayInv, Idle

LEMMA LocksStep == LocksInv /\ [LocksNext]_lockVars => LocksInv'
<1> SUFFICES ASSUME LocksInv, [LocksNext]_lockVars PROVE LocksInv'
  OBVIOUS
<1>1. [Next]_vars
  BY StepImplies
<1>2. IngestInv'
  BY <1>1, IngestStep DEF LocksInv
<1> DEFINE Kept ==
        LocksTypes' /\ (\A d \in Requests : RowInv(d)')
        /\ (\A w \in Workers : WorkerInv(w)') /\ (\A p \in Replays : ReplayInv(p)')
<1> SUFFICES Kept
  BY <1>2 DEF LocksInv
<1>3. ASSUME NEW r \in Requests,
             PublishStep(r) \/ FailPublish(r) \/ (\E input \in Inputs : BeginPublish(r, input))
      PROVE  Kept
  BY <1>1, <1>3, PublisherKeeps
<1>4. ASSUME NEW w \in Workers,
             ClaimStep(w) \/ FinishStep(w) \/ FailClaim(w) \/ LoseResult(w)
      PROVE  Kept
  BY <1>1, <1>4, ClaimKeeps, FinishKeeps
<1>5. ASSUME NEW p \in Replays,
             (\E d \in Requests : BeginReplay(p, d)) \/ ReplayStep(p) \/ FailReplay(p)
      PROVE  Kept
  BY <1>1, <1>5, ReplayKeeps
<1>6. CASE \/ \E e \in Endpoints :
                CreateAnEndpoint(e) \/ DisableAnEndpoint(e) \/ CloseCircuit(e)
           \/ UNCHANGED lockVars
  <2>1. UNCHANGED <<rows, workers, replays>>
    BY <1>6 DEF CreateAnEndpoint, DisableAnEndpoint, CloseCircuit, lockVars
  <2>2. QED
    BY <1>1, <2>1, RowsStay, WorkersStay, ReplaysStay DEF LocksTypes
<1>7. CASE BreakDeadlock
  <2>1. \/ \E r \in Requests : FailPublish(r)
        \/ \E w \in Workers : LoseResult(w)
        \/ \E p \in Replays : FailReplay(p)
    BY <1>7 DEF BreakDeadlock
  <2>2. QED
    BY <1>3, <1>4, <1>5, <2>1
<1>8. QED
  BY <1>3, <1>4, <1>5, <1>6, <1>7 DEF LocksNext

\* Whatever a worker or a replay works on is a delivery in the table.
THEOREM LocksInductive == LocksSpec => []LocksInv
BY LocksInitially, LocksStep, PTL DEF LocksSpec

-----------------------------------------------------------------------------
\* A worker that was late for an endpoint has no claim open that would be late
\* again: the endpoint was disabled before the worker looked again.
LateInv(w, e) ==
    /\ late[w][e] <= 1
    /\ late[w][e] # 0 =>
           /\ endpoints[e] = "disabled"
           /\ ~(workers[w].pc = "claiming" /\ EndpointOf(workers[w].job) = e)

LateClaims ==
    /\ late \in [Workers -> [Endpoints -> Nat]]
    /\ \A w \in Workers, e \in Endpoints : LateInv(w, e)

\* Disabling is for good.
LEMMA StaysDisabled ==
    ASSUME IngestInv, [Next]_vars, NEW e \in Endpoints, endpoints[e] = "disabled"
    PROVE  endpoints'[e] = "disabled"
BY DEF IngestInv, IngestTypeOK, Next, vars, EnqueueEvent, CreateEndpoint, DisableEndpoint,
       Publish, LockEndpoint, UpsertEvent, UpsertDelivery, Acknowledge, CommitUnheard,
       Commit, Fail

\* A step that commits no claim opens none, except by choosing a candidate.
Opens(w) == \E d \in Requests : SelectCandidate(w, d)

Quiet(w) == workers'[w] = workers[w] \/ workers'[w].pc # "claiming" \/ Opens(w)

LEMMA QuietSteps ==
    ASSUME LocksInv, [LocksNext]_lockVars, ~\E v \in Workers : CommitClaim(v)
    PROVE  UNCHANGED late /\ \A w \in Workers : Quiet(w)
<1>1. workers \in [Workers -> WorkerStates]
  BY DEF LocksInv, LocksTypes
<1>2. ASSUME UNCHANGED <<workers, late>> PROVE UNCHANGED late /\ \A w \in Workers : Quiet(w)
  BY <1>2 DEF Quiet
<1>3. ASSUME NEW v \in Workers, UNCHANGED late,
             workers' = [workers EXCEPT ![v] = workers'[v]],
             workers'[v].pc # "claiming" \/ Opens(v)
      PROVE  UNCHANGED late /\ \A w \in Workers : Quiet(w)
  BY <1>1, <1>3 DEF Quiet
<1>4. CASE \E e \in Endpoints : CreateAnEndpoint(e) \/ DisableAnEndpoint(e) \/ CloseCircuit(e)
  BY <1>2, <1>4 DEF CreateAnEndpoint, DisableAnEndpoint, CloseCircuit
<1>5. CASE \E r \in Requests : \/ \E input \in Inputs : BeginPublish(r, input)
                               \/ PublishStep(r) \/ FailPublish(r)
  BY <1>2, <1>5 DEF BeginPublish, PublishStep, ExecutePublish, CommitPublish, FailPublish
<1>6. CASE \E p \in Replays :
               (\E d \in Requests : BeginReplay(p, d)) \/ ReplayStep(p) \/ FailReplay(p)
  BY <1>2, <1>6 DEF BeginReplay, ReplayStep, LockForReplay, CommitReplay, FailReplay
<1>7. ASSUME NEW v \in Workers, BeginClaim(v)
      PROVE  UNCHANGED late /\ \A w \in Workers : Quiet(w)
  <2>1. workers' = [workers EXCEPT ![v] = workers'[v]] /\ workers'[v].pc = "recovering"
    <3>1. PICK recovered \in SUBSET Leased :
             workers' = [workers EXCEPT ![v].pc = "recovering", ![v].recovered = recovered]
      BY <1>7, RecoversLeased
    <3>2. QED
      BY <1>1, <3>1 DEF WorkerStates
  <2>2. QED
    BY <1>3, <1>7, <2>1 DEF BeginClaim
<1>8. ASSUME NEW v \in Workers, Opens(v)
      PROVE  UNCHANGED late /\ \A w \in Workers : Quiet(w)
  <2>1. workers' = [workers EXCEPT ![v] = workers'[v]] /\ UNCHANGED late
    BY <1>1, <1>8 DEF Opens, SelectCandidate, WorkerStates
  <2>2. QED
    BY <1>3, <1>8, <2>1
<1>9. ASSUME NEW v \in Workers,
             \/ FindNothing(v) \/ CommitFinish(v) \/ FindLeaseLost(v)
             \/ FailClaim(v) \/ LoseResult(v)
      PROVE  UNCHANGED late /\ \A w \in Workers : Quiet(w)
  <2>1. workers' = [workers EXCEPT ![v] = Idle] /\ UNCHANGED late
    BY <1>9 DEF FindNothing, CommitFinish, FindLeaseLost, FailClaim, LoseResult
  <2>2. workers' = [workers EXCEPT ![v] = workers'[v]] /\ workers'[v].pc # "claiming"
    BY <1>1, <2>1 DEF Idle
  <2>3. QED
    BY <1>3, <2>1, <2>2
<1>10. ASSUME NEW v \in Workers,
              \/ \E answer \in Answers : BeginFinish(v, answer)
              \/ UpdateDelivery(v) \/ UpdateEndpoint(v)
       PROVE  UNCHANGED late /\ \A w \in Workers : Quiet(w)
  <2>1. workers' = [workers EXCEPT ![v] = workers'[v]] /\ UNCHANGED late
        /\ workers'[v].pc \in {"begun", "reporting", "updating"}
    BY <1>1, <1>10 DEF BeginFinish, UpdateDelivery, UpdateEndpoint, WorkerStates
  <2>2. QED
    BY <1>3, <2>1
<1>11. CASE BreakDeadlock
  <2>1. \/ \E r \in Requests : FailPublish(r)
        \/ \E w \in Workers : LoseResult(w)
        \/ \E p \in Replays : FailReplay(p)
    BY <1>11 DEF BreakDeadlock
  <2>2. QED
    BY <1>5, <1>6, <1>9, <2>1
<1>12. CASE UNCHANGED lockVars
  BY <1>2, <1>12 DEF lockVars
<1>13. QED
  BY <1>4, <1>5, <1>6, <1>7, <1>8, <1>9, <1>10, <1>11, <1>12
     DEF LocksNext, ClaimStep, FinishStep, Opens

LEMMA LateStep ==
    ASSUME LocksInv, LocksInv', LateClaims, [LocksNext]_lockVars
    PROVE  LateClaims'
<1>1. [Next]_vars /\ IngestInv /\ IngestInv' /\ workers \in [Workers -> WorkerStates]
  BY StepImplies DEF LocksInv, LocksTypes
<1>2. CASE ~\E v \in Workers : CommitClaim(v)
  <2>1. UNCHANGED late /\ \A w \in Workers : Quiet(w)
    BY <1>2, QuietSteps
  <2>2. ASSUME NEW w \in Workers, NEW e \in Endpoints PROVE LateInv(w, e)'
    <3>1. LateInv(w, e) /\ late'[w][e] = late[w][e]
      BY <2>1 DEF LateClaims
    <3>2. SUFFICES ASSUME late[w][e] # 0
                   PROVE  /\ endpoints'[e] = "disabled"
                          /\ ~(workers'[w].pc = "claiming" /\ EndpointOf(workers[w].job)' = e)
      BY <3>1 DEF LateInv
    <3>3. endpoints[e] = "disabled"
          /\ ~(workers[w].pc = "claiming" /\ EndpointOf(workers[w].job) = e)
      BY <3>1, <3>2 DEF LateInv
    <3>4. endpoints'[e] = "disabled"
      BY <1>1, <3>3, StaysDisabled
    <3>5. CASE workers'[w] = workers[w] /\ workers[w].pc = "claiming"
      <4>1. PICK d : d = workers[w].job /\ d = workers'[w].job
        BY <3>5
      <4>2. Known(d)
        BY <3>5, <4>1 DEF LocksInv, WorkerInv
      <4>3. EndpointOf(d)' = EndpointOf(d)
        BY <1>1, <4>2, EndpointOfStays
      <4>4. EndpointOf(workers[w].job)' = EndpointOf(d)'
        BY <4>1 DEF EndpointOf
      <4>5. QED
        BY <3>3, <3>4, <3>5, <4>1, <4>3, <4>4
    <3>6. CASE workers'[w].pc # "claiming"
      BY <3>4, <3>6
    <3>7. CASE Opens(w)
      <4>1. PICK d \in Requests : SelectCandidate(w, d)
        BY <3>7 DEF Opens
      <4>2. endpoints[EndpointOf(d)] = "enabled" /\ workers'[w].job = d /\ UNCHANGED vars
        BY <1>1, <4>1 DEF SelectCandidate, Claimable, WorkerStates
      <4>3. EndpointOf(workers[w].job)' = EndpointOf(d)
        BY <4>2 DEF EndpointOf, vars
      <4>4. QED
        BY <3>3, <3>4, <4>2, <4>3
    <3>8. QED
      BY <2>1, <3>4, <3>5, <3>6, <3>7 DEF Quiet
  <2>3. QED
    BY <2>1, <2>2 DEF LateClaims
<1>3. ASSUME NEW v \in Workers, CommitClaim(v) PROVE LateClaims'
  <2>1. PICK d, x : /\ d = workers[v].job /\ x = EndpointOf(d)
                    /\ late' = IF endpoints[x] = "disabled"
                               THEN [late EXCEPT ![v][x] = @ + 1] ELSE late
    BY <1>3 DEF CommitClaim
  <2>2. workers[v].pc = "claiming" /\ UNCHANGED vars
        /\ workers' = [workers EXCEPT ![v] = workers'[v]]
        /\ workers'[v].pc = "dispatching"
    BY <1>1, <1>3 DEF CommitClaim, WorkerStates
  <2>3. x \in Endpoints
    BY <1>1, <2>1, <2>2, EndpointOfStays DEF LocksInv, WorkerInv
  <2>4. late \in [Workers -> [Endpoints -> Nat]]
    BY DEF LateClaims
  <2>5. late' \in [Workers -> [Endpoints -> Nat]]
    BY <2>1, <2>3, <2>4
  <2>6. ASSUME NEW w \in Workers, NEW e \in Endpoints PROVE LateInv(w, e)'
    <3>1. LateInv(w, e) /\ late[w][e] \in Nat
      BY <2>4 DEF LateClaims
    <3>2. UNCHANGED endpoints
      BY <2>2 DEF vars
    <3>3. CASE w = v /\ e = x /\ endpoints[x] = "disabled"
      <4>1. late[v][x] = 0
        BY <2>1, <2>2, <3>1, <3>3 DEF LateInv
      <4>2. late'[v][x] = 1
        BY <2>1, <2>3, <2>4, <3>3, <4>1
      <4>3. QED
        BY <2>2, <3>2, <3>3, <4>2 DEF LateInv
    <3>4. CASE w = v /\ ~(e = x /\ endpoints[x] = "disabled")
      <4>1. late'[v][e] = late[v][e]
        BY <2>1, <2>3, <2>4, <3>4
      <4>2. QED
        BY <2>2, <3>1, <3>2, <3>4, <4>1 DEF LateInv
    <3>5. CASE w # v
      <4>1. late'[w] = late[w] /\ workers'[w] = workers[w]
        BY <1>1, <2>1, <2>2, <2>4, <3>5
      <4>2. EndpointOf(workers[w].job)' = EndpointOf(workers[w].job)
        BY <2>2, <4>1 DEF EndpointOf, vars
      <4>3. QED
        BY <3>1, <3>2, <4>1, <4>2 DEF LateInv
    <3>6. QED
      BY <3>3, <3>4, <3>5
  <2>7. QED
    BY <2>5, <2>6 DEF LateClaims
<1>4. QED
  BY <1>2, <1>3

\* A worker sends at most one more request to an endpoint that was disabled.
THEOREM LateClaimsAreFew == LocksSpec => []FewLateClaims
<1>1. LocksInit => LateClaims
  BY DEF LocksInit, LateClaims, LateInv
<1>2. LateClaims => FewLateClaims
  BY DEF LateClaims, LateInv, FewLateClaims
<1>3. QED
  BY <1>1, <1>2, LateStep, LocksInductive, PTL DEF LocksSpec

-----------------------------------------------------------------------------
\* What each kind of transaction has and waits for, stage by stage.
LEMMA RequestLocks ==
    ASSUME LocksInv, NEW r \in Requests
    PROVE  /\ HeldEndpoints(r) = {} /\ WantedEndpoints(r) = {}
           /\ requests[r].stage # "stored" => HeldRows(r) = {}
           /\ requests[r].stage # "upserted" => WantedRows(r) = {}
           /\ requests[r].stage = "upserted" =>
                  /\ WantedRows(r) = {DeliveryFor(r).id}
                  /\ SharedEndpoints(r) = {requests[r].input.endpoint}
           /\ requests[r].stage # "begun" => WantedShared(r) = {}
           /\ requests[r].tx.event # NULL => requests[r].stage \in {"upserted", "stored"}
<1>1. r \notin Workers /\ r \notin Replays
  BY LocksAssumption
<1>2. requests[r] \in RequestStates /\ TxShape(r) /\ RequestTyped(r)
  BY TypeByRequest DEF LocksInv, IngestInv, RequestInv
<1>3. requests[r].stage # "stored" => requests[r].tx.delivery = NULL
  BY <1>2 DEF TxShape, RequestStates, NoTx
<1>4. requests[r].tx.event # NULL => requests[r].stage \in {"upserted", "stored"}
  BY <1>2 DEF TxShape, RequestStates, NoTx
<1>5. requests[r].stage # "stored" => HeldRows(r) = {}
  BY <1>3 DEF HeldRows
<1>6. requests[r].stage = "upserted" => SharedEndpoints(r) = {requests[r].input.endpoint}
  <2>1. SUFFICES ASSUME requests[r].stage = "upserted"
                 PROVE  SharedEndpoints(r) = {requests[r].input.endpoint}
    OBVIOUS
  <2>2. requests[r].tx.endpoint = requests[r].input.endpoint
        /\ requests[r].input \in Inputs
    BY <1>2, <2>1 DEF RequestTyped
  <2>3. requests[r].input.endpoint \in Endpoints
    BY <2>2 DEF Inputs
  <2>4. QED
    BY <2>2, <2>3, IngestAssumption DEF SharedEndpoints
<1>7. QED
  BY <1>1, <1>4, <1>5, <1>6 DEF HeldEndpoints, WantedEndpoints, WantedRows, WantedShared

LEMMA WorkerLocks ==
    ASSUME LocksInv, NEW w \in Workers
    PROVE  /\ SharedEndpoints(w) = {} /\ WantedShared(w) = {}
           /\ workers[w].pc # "begun" => WantedRows(w) = {}
           /\ workers[w].pc # "updating" => HeldEndpoints(w) = {}
           /\ workers[w].pc # "reporting" => WantedEndpoints(w) = {}
           /\ workers[w].pc = "begun" => HeldRows(w) = {}
           /\ workers[w].pc = "reporting" =>
                  /\ HeldRows(w) = {workers[w].job}
                  /\ workers[w].job \in Requests /\ Known(workers[w].job)
           /\ WantedEndpoints(w) \subseteq {EndpointOf(workers[w].job)}
<1>1. w \notin Requests /\ w \notin Replays
  BY LocksAssumption
<1>2. WorkerInv(w)
  BY DEF LocksInv
<1>3. ASSUME workers[w].pc = "reporting"
      PROVE  /\ HeldRows(w) = {workers[w].job}
             /\ workers[w].job \in Requests /\ Known(workers[w].job)
  <2>1. workers[w].recovered = {} /\ workers[w].job \in Requests /\ Known(workers[w].job)
    BY <1>2, <1>3 DEF WorkerInv
  <2>2. HeldRows(w) = workers[w].recovered \cup ({workers[w].job} \ {NULL})
    BY <1>1, <1>3 DEF HeldRows
  <2>3. QED
    BY <2>1, <2>2, IngestAssumption
<1>4. workers[w].pc = "begun" => HeldRows(w) = {}
  BY <1>1 DEF HeldRows
<1>5. QED
  BY <1>1, <1>3, <1>4
     DEF SharedEndpoints, WantedShared, WantedRows, HeldEndpoints, WantedEndpoints

LEMMA ReplayLocksHeld ==
    ASSUME LocksInv, NEW p \in Replays
    PROVE  /\ SharedEndpoints(p) = {} /\ WantedShared(p) = {}
           /\ replays[p].locks # 0 => WantedRows(p) = {}
           /\ replays[p].locks # 1 => WantedEndpoints(p) = {}
           /\ replays[p].locks = 0 => HeldRows(p) = {}
           /\ replays[p].locks # 2 => HeldEndpoints(p) = {}
           /\ replays[p].locks = 1 =>
                  /\ HeldRows(p) = {replays[p].target}
                  /\ replays[p].target \in Requests /\ Known(replays[p].target)
           /\ WantedEndpoints(p) \subseteq {EndpointOf(replays[p].target)}
           /\ replays[p].locks \in 0 .. 2
<1>1. p \notin Requests /\ p \notin Workers
  BY LocksAssumption
<1>2. ReplayInv(p) /\ replays[p].locks \in 0 .. 2
  BY DEF LocksInv, LocksTypes, ReplayStates
<1>3. replays[p].locks = 0 => Taken(p) = {}
  BY DEF Taken
<1>4. replays[p].locks = 1 => Taken(p) = {"delivery"}
  BY DEF Taken, ReplayLocks
<1>5. NextLock(p) = "delivery" => replays[p].locks = 0
  BY <1>2 DEF NextLock, ReplayLocks
<1>6. NextLock(p) = "endpoint" => replays[p].locks = 1
  BY <1>2 DEF NextLock, ReplayLocks
<1>7. replays[p].locks = 1 => replays[p].target \in Requests /\ Known(replays[p].target)
  BY <1>2 DEF ReplayInv
<1>8. replays[p].locks # 2 => "endpoint" \notin Taken(p)
  BY <1>2, <1>3, <1>4
<1>9. QED
  BY <1>1, <1>2, <1>3, <1>4, <1>5, <1>6, <1>7, <1>8
     DEF SharedEndpoints, WantedShared, WantedRows, HeldRows, HeldEndpoints, WantedEndpoints

\* Whoever has an endpoint exclusively waits for nobody, and neither does a
\* publisher that has its delivery.
LEMMA LastLock ==
    ASSUME LocksInv, NEW a \in Actors, NEW b \in Actors, WaitsFor(a, b)
    PROVE  /\ HeldEndpoints(a) = {}
           /\ a \in Requests => requests[a].stage # "stored" /\ HeldRows(a) = {}
           /\ a \notin Requests /\ HeldRows(a) # {} => WantedEndpoints(a) # {} /\ WantedRows(a) = {}
<1>1. CASE a \in Requests
  BY <1>1, RequestLocks DEF WaitsFor, WaitsForKey
<1>2. CASE a \in Workers
  <2>1. a \notin Requests
    BY <1>2, LocksAssumption
  <2>2. WantedRows(a) # {} \/ WantedEndpoints(a) # {}
    BY <1>2, <2>1, WorkerLocks DEF WaitsFor, WaitsForKey
  <2>3. QED
    BY <1>2, <2>1, <2>2, WorkerLocks
<1>3. CASE a \in Replays
  <2>1. a \notin Requests
    BY <1>3, LocksAssumption
  <2>2. WantedRows(a) # {} \/ WantedEndpoints(a) # {}
    BY <1>3, <2>1, ReplayLocksHeld DEF WaitsFor, WaitsForKey
  <2>3. QED
    BY <1>3, <2>1, <2>2, ReplayLocksHeld
<1>4. QED
  BY <1>1, <1>2, <1>3 DEF Actors

\* A publisher that wants a delivery somebody else knows of wants that of its
\* own event, and has that event's endpoint.
LEMMA WantedDelivery ==
    ASSUME LocksInv, NEW r \in Requests, requests[r].stage = "upserted",
           Known(DeliveryFor(r).id)
    PROVE  EndpointOf(DeliveryFor(r).id) = requests[r].input.endpoint
<1> DEFINE event == requests[r].tx.event
           d == DeliveryFor(r).id
<1>1. Tables /\ Fresh(r) /\ TxEvent(r) /\ RequestTyped(r) /\ deliveries \subseteq DeliveryRows
  BY TypeByRequest DEF LocksInv, IngestInv, RequestInv, IngestTypeOK
<1>2. \E row \in deliveries : row.event = event.id
  <2>1. SUFFICES ASSUME ~\E row \in deliveries : row.event = event.id PROVE FALSE
    OBVIOUS
  <2>2. d = r
    BY <2>1 DEF DeliveryFor
  <2>3. PICK other \in events : [id |-> r, event |-> other.id] \in deliveries
    BY <2>2 DEF Known
  <2>4. [id |-> r, event |-> other.id].id = [id |-> r, event |-> other.id].event
    BY <1>1, <2>3 DEF Tables
  <2>5. [id |-> r, event |-> other.id].event # r
    BY <1>1, <2>3 DEF Fresh
  <2>6. QED
    BY <2>4, <2>5
<1>3. PICK row \in deliveries : row = DeliveryFor(r) /\ row.event = event.id
  BY <1>2 DEF DeliveryFor
<1>4. row = [id |-> d, event |-> event.id]
  <2>1. row \in DeliveryRows
    BY <1>1, <1>3
  <2>2. QED
    BY <1>3, <2>1 DEF DeliveryRows
<1>5. event.id # r
  BY <1>1, <1>3 DEF Fresh
<1>6. event \in events /\ SameKey(event, requests[r].input)
  BY <1>1, <1>5 DEF TxEvent, HoldsEvent
<1>7. EndpointOf(d) = event.endpoint
  <2> HIDE DEF d, event
  <2>1. QED
    BY <1>1, <1>3, <1>4, <1>6, EndpointOfKnown
<1>8. QED
  BY <1>6, <1>7 DEF SameKey

\* A publisher in a deadlock waits for its delivery, and whoever has that waits
\* for the publisher's endpoint.
LEMMA PublisherInCircle ==
    ASSUME LocksInv, NEW set \in SUBSET Actors, Deadlock(set),
           NEW r \in set \cap Requests, requests[r].stage = "upserted"
    PROVE  \E a \in set \ Requests : WaitsFor(r, a) /\ WaitsFor(a, r)
<1>1. PICK a \in set : WaitsFor(r, a)
  BY DEF Deadlock
<1>2. PICK b \in set : WaitsFor(a, b)
  BY DEF Deadlock
<1>3. WantedRows(r) = {DeliveryFor(r).id} /\ SharedEndpoints(r) = {requests[r].input.endpoint}
      /\ WantedShared(r) = {} /\ WantedEndpoints(r) = {}
  BY RequestLocks
<1>4. DeliveryFor(r).id \in HeldRows(a) /\ a # r
  BY <1>1, <1>3 DEF WaitsFor, WaitsForKey
<1>5. a \notin Requests /\ WantedEndpoints(a) # {}
  BY <1>2, <1>4, LastLock
<1>6. EndpointOf(DeliveryFor(r).id) \in WantedEndpoints(a) /\ Known(DeliveryFor(r).id)
  <2>1. CASE a \in Workers
    BY <1>4, <1>5, <2>1, WorkerLocks
  <2>2. CASE a \in Replays
    BY <1>4, <1>5, <2>2, ReplayLocksHeld
  <2>3. QED
    BY <1>5, <2>1, <2>2 DEF Actors
<1>7. requests[r].input.endpoint \in WantedEndpoints(a)
  BY <1>6, WantedDelivery
<1>8. WaitsFor(a, r)
  BY <1>3, <1>4, <1>7 DEF WaitsFor
<1>9. QED
  BY <1>1, <1>5, <1>8

\* Every deadlock has such a publisher in it.
LEMMA CircleHasPublisher ==
    ASSUME LocksInv, NEW set \in SUBSET Actors, Deadlock(set)
    PROVE  \E r \in set \cap Requests : requests[r].stage = "upserted"
<1>1. ASSUME NEW r \in set \cap Requests
      PROVE  \E s \in set \cap Requests : requests[s].stage = "upserted"
  <2>1. PICK a \in set : WaitsFor(r, a)
    BY DEF Deadlock
  <2>2. PICK b \in set : WaitsFor(a, b)
    BY DEF Deadlock
  <2>3. HeldEndpoints(a) = {} /\ (a \in Requests => requests[a].stage # "stored")
    BY <2>2, LastLock
  <2>4. WantedRows(r) # {} \/ WaitsForKey(r, a)
    BY <2>1, <2>3, RequestLocks DEF WaitsFor
  <2>5. CASE WantedRows(r) # {}
    BY <2>5, RequestLocks
  <2>6. CASE WaitsForKey(r, a)
    BY <2>3, <2>6, RequestLocks DEF WaitsForKey
  <2>7. QED
    BY <2>4, <2>5, <2>6
<1>2. ASSUME NEW a \in set \ Requests, WantedEndpoints(a) # {}, WantedRows(a) = {}
      PROVE  set \cap Requests # {}
  <2>1. PICK b \in set : WaitsFor(a, b)
    BY DEF Deadlock
  <2>2. PICK z \in set : WaitsFor(b, z)
    BY DEF Deadlock
  <2>3. HeldEndpoints(b) = {}
    BY <2>2, LastLock
  <2>4. SharedEndpoints(b) # {}
    BY <1>2, <2>1, <2>3 DEF WaitsFor, WaitsForKey, WantedShared
  <2>5. QED
    BY <2>4 DEF SharedEndpoints
<1>3. set \cap Requests # {}
  <2>1. PICK a \in set : TRUE
    BY DEF Deadlock
  <2>2. PICK b \in set : WaitsFor(a, b)
    BY DEF Deadlock
  <2>3. PICK z \in set : WaitsFor(b, z)
    BY DEF Deadlock
  <2>4. SUFFICES ASSUME a \notin Requests, b \notin Requests PROVE set \cap Requests # {}
    OBVIOUS
  <2>5. CASE HeldRows(b) # {}
    BY <1>2, <2>3, <2>4, <2>5, LastLock
  <2>6. CASE HeldRows(b) = {}
    <3>1. WantedEndpoints(a) \cap SharedEndpoints(b) # {}
      BY <2>2, <2>3, <2>4, <2>6, LastLock DEF WaitsFor, WaitsForKey
    <3>2. QED
      BY <2>4, <3>1 DEF SharedEndpoints
  <2>7. QED
    BY <2>5, <2>6
<1>4. QED
  BY <1>1, <1>3

\* Every deadlock of the statements is that of a repeated publish with the
\* FinishAttempt or ReplayDelivery that has its delivery.
THEOREM OnlyKnownDeadlocks == LocksSpec => []KnownDeadlocks
<1>1. LocksInv => KnownDeadlocks
  BY CircleHasPublisher, PublisherInCircle DEF KnownDeadlocks
<1>2. QED
  BY <1>1, LocksInductive, PTL
=============================================================================
