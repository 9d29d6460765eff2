------------------------------- MODULE Ingest -------------------------------
(***************************************************************************)
(* Publishing an event, statement by statement: Store.EnqueueEvent         *)
(* (internal/store/events.go) run concurrently by any number of requests   *)
(* that may share an idempotency key, fail between any two statements, or  *)
(* commit without their client hearing of it.                              *)
(*                                                                         *)
(* A request r is one POST /v1/events.  eventing.Publish draws a new event *)
(* ID and a new delivery ID for it; both are called r here.  A client that *)
(* retries sends another request with the same key.  A body stands for an  *)
(* event type and a payload up to jsonb equality, and the inputs are those *)
(* that Publish has found valid.                                           *)
(*                                                                         *)
(* Of PostgreSQL (READ COMMITTED) the module has what the statements rely  *)
(* on: FOR SHARE holds off an update of the endpoint until the transaction *)
(* ends; an INSERT .. ON CONFLICT DO UPDATE waits for the transaction that *)
(* holds the conflicting row, and then sees what that one committed.       *)
(***************************************************************************)
EXTENDS FiniteSets

CONSTANTS Endpoints, Keys, Bodies, Requests, NULL

VARIABLES endpoints,    \* disabled_at of table endpoints, as a state
          events,       \* table events, committed
          deliveries,   \* table deliveries, committed
          requests      \* the requests, with their open transactions

vars == <<endpoints, events, deliveries, requests>>

-----------------------------------------------------------------------------
Inputs == [endpoint : Endpoints, key : Keys, body : Bodies]

EventRows == [id : Requests, endpoint : Endpoints, key : Keys, body : Bodies]

DeliveryRows == [id : Requests, event : Requests]

\* What a transaction holds: the endpoint it locked FOR SHARE and the rows it
\* wrote or locked.
NoTx == [endpoint |-> NULL, event |-> NULL, delivery |-> NULL]

Txs ==
    [endpoint : Endpoints \cup {NULL}, event : EventRows \cup {NULL},
     delivery : DeliveryRows \cup {NULL}]

\* The answers of the API: 202 with the IDs of Enqueued, or an error.
Accepted(event, delivery, duplicate) ==
    [kind |-> "accepted", event |-> event, delivery |-> delivery,
     duplicate |-> duplicate]

Errors == {"not_found", "endpoint_disabled", "idempotency_conflict", "internal_error"}

Responses ==
    [kind : {"accepted"}, event : Requests, delivery : Requests,
     duplicate : BOOLEAN]
    \cup [kind : Errors]

\* NULL is none of the things it stands for the absence of.
ASSUME IngestAssumption ==
    /\ NULL \notin Endpoints /\ NULL \notin Requests /\ NULL \notin Inputs
    /\ NULL \notin EventRows /\ NULL \notin DeliveryRows /\ NULL \notin Responses
    /\ NULL \notin [id : Requests, body : Bodies]

RequestStates ==
    [stage : {"new", "begun", "locked", "upserted", "stored", "answered"},
     input : Inputs \cup {NULL}, tx : Txs, response : Responses \cup {NULL}]

New == [stage |-> "new", input |-> NULL, tx |-> NoTx, response |-> NULL]

\* Mutant: a return leaves the event's row locked, as a session lock would be.
Answered_RowLocked(request, response) ==
    [request EXCEPT !.stage = "answered", !.response = response,
                    !.tx.endpoint = NULL, !.tx.delivery = NULL]

\* EnqueueEvent returns; its deferred Rollback releases what is still held.
Answered(request, response) ==
    [request EXCEPT !.stage = "answered", !.response = response, !.tx = NoTx]

Answer(r, response) ==
    requests' = [requests EXCEPT ![r] = Answered(requests[r], response)]

-----------------------------------------------------------------------------
CreateEndpoint(e) ==
    /\ endpoints[e] = "absent"
    /\ endpoints' = [endpoints EXCEPT ![e] = "enabled"]
    /\ UNCHANGED <<events, deliveries, requests>>

ShareLocked(e) == \E r \in Requests : requests[r].tx.endpoint = e

\* Mutant: the publisher reads the endpoint without FOR SHARE.
DisableEndpoint_Unlocked(e) ==
    /\ endpoints[e] # "absent"
    /\ endpoints' = [endpoints EXCEPT ![e] = "disabled"]
    /\ UNCHANGED <<events, deliveries, requests>>

DisableEndpoint(e) ==
    /\ endpoints[e] # "absent"
    /\ ~ShareLocked(e)
    /\ endpoints' = [endpoints EXCEPT ![e] = "disabled"]
    /\ UNCHANGED <<events, deliveries, requests>>

-----------------------------------------------------------------------------
\* Publish accepts the input and EnqueueEvent begins its transaction.
Publish(r, input) ==
    /\ requests[r].stage = "new"
    /\ requests' = [requests EXCEPT ![r].stage = "begun", ![r].input = input]
    /\ UNCHANGED <<endpoints, events, deliveries>>

\* Mutant: the lock is forgotten.
LockEndpoint_NotHeld(r) ==
    /\ requests[r].stage = "begun"
    /\ endpoints[requests[r].input.endpoint] = "enabled"
    /\ requests' = [requests EXCEPT ![r].stage = "locked"]
    /\ UNCHANGED <<endpoints, events, deliveries>>

\* SELECT .. FROM endpoints .. FOR SHARE
LockEndpoint(r) ==
    LET e == requests[r].input.endpoint
    IN  /\ requests[r].stage = "begun"
        /\ CASE endpoints[e] = "absent"   -> Answer(r, [kind |-> "not_found"])
             [] endpoints[e] = "disabled" -> Answer(r, [kind |-> "endpoint_disabled"])
             [] endpoints[e] = "enabled"  ->
                    requests' = [requests EXCEPT ![r].stage = "locked",
                                                 ![r].tx.endpoint = e]
        /\ UNCHANGED <<endpoints, events, deliveries>>

SameKey(row, input) == row.endpoint = input.endpoint /\ row.key = input.key

\* Another transaction holds the row of this endpoint and key, new or old.
KeyLocked(r) ==
    \E s \in Requests \ {r} :
        requests[s].tx.event # NULL /\ SameKey(requests[s].tx.event, requests[r].input)

\* Mutant: the same key twice is a conflict, whatever the body.
payloadMatches_ByID(r, row) == row.id = r

\* Mutant: what was stored under the key is not compared.
payloadMatches_Always(r, row) == TRUE

\* event_type = $3 AND payload = $4::jsonb
payloadMatches(r, row) == row.body = requests[r].input.body

\* The row an upsert returns: the committed one of the key, or a new one.
EventFor(r) ==
    LET input == requests[r].input
    IN  IF \E row \in events : SameKey(row, input)
        THEN CHOOSE row \in events : SameKey(row, input)
        ELSE [id |-> r, endpoint |-> input.endpoint, key |-> input.key,
              body |-> input.body]

\* INSERT INTO events .. ON CONFLICT (endpoint_id, idempotency_key) DO UPDATE
UpsertEvent(r) ==
    /\ requests[r].stage = "locked"
    /\ ~KeyLocked(r)
    /\ IF payloadMatches(r, EventFor(r))
       THEN requests' = [requests EXCEPT ![r].stage = "upserted",
                                         ![r].tx.event = EventFor(r)]
       ELSE Answer(r, [kind |-> "idempotency_conflict"])
    /\ UNCHANGED <<endpoints, events, deliveries>>

\* Mutant: the delivery is made for the event ID that was drawn, which a
\* duplicate does not store.
DeliveryFor_DrawnID(r) == [id |-> r, event |-> r]

DeliveryFor(r) ==
    LET event == requests[r].tx.event.id
    IN  IF \E row \in deliveries : row.event = event
        THEN CHOOSE row \in deliveries : row.event = event
        ELSE [id |-> r, event |-> event]

\* INSERT INTO deliveries .. ON CONFLICT (event_id) DO UPDATE
UpsertDelivery(r) ==
    /\ requests[r].stage = "upserted"
    /\ requests' = [requests EXCEPT ![r].stage = "stored",
                                    ![r].tx.delivery = DeliveryFor(r)]
    /\ UNCHANGED <<endpoints, events, deliveries>>

Commit(r, response) ==
    /\ requests[r].stage = "stored"
    /\ events' = events \cup {requests[r].tx.event}
    /\ deliveries' = deliveries \cup {requests[r].tx.delivery}
    /\ Answer(r, response)
    /\ UNCHANGED endpoints

Acknowledge(r) ==
    LET tx == requests[r].tx
    IN  Commit(r, Accepted(tx.event.id, tx.delivery.id, tx.event.id # r))

\* The commit takes effect, and the client does not hear of it.
CommitUnheard(r) == Commit(r, [kind |-> "internal_error"])

\* A statement or the connection fails, the request's context ends, or the
\* process dies: the transaction is rolled back.
Fail(r) ==
    /\ requests[r].stage \in {"begun", "locked", "upserted", "stored"}
    /\ Answer(r, [kind |-> "internal_error"])
    /\ UNCHANGED <<endpoints, events, deliveries>>

-----------------------------------------------------------------------------
Init ==
    /\ endpoints = [e \in Endpoints |-> "absent"]
    /\ events = {}
    /\ deliveries = {}
    /\ requests = [r \in Requests |-> New]

EnqueueEvent(r) ==
    \/ LockEndpoint(r) \/ UpsertEvent(r) \/ UpsertDelivery(r)
    \/ Acknowledge(r) \/ CommitUnheard(r) \/ Fail(r)

Next ==
    \/ \E e \in Endpoints : CreateEndpoint(e) \/ DisableEndpoint(e)
    \/ \E r \in Requests : EnqueueEvent(r) \/ (\E input \in Inputs : Publish(r, input))

Spec == Init /\ [][Next]_vars

-----------------------------------------------------------------------------
IsAccepted(r) ==
    requests[r].response # NULL /\ requests[r].response.kind = "accepted"

SameKeyRequests(r, s) ==
    /\ requests[r].input # NULL /\ requests[s].input # NULL
    /\ SameKey(requests[r].input, requests[s].input)

\* Every row and every transaction has the columns that its stage needs.
IngestTypeOK ==
    /\ endpoints \in [Endpoints -> {"absent", "enabled", "disabled"}]
    /\ events \subseteq EventRows
    /\ deliveries \subseteq DeliveryRows
    /\ requests \in [Requests -> RequestStates]
    /\ \A r \in Requests :
          LET request == requests[r]
          IN  /\ request.stage # "new" => request.input \in Inputs
              /\ request.stage \in {"locked", "upserted", "stored"} =>
                     request.tx.endpoint = request.input.endpoint
              /\ request.stage \in {"upserted", "stored"} =>
                     request.tx.event \in EventRows
              /\ request.stage = "stored" => request.tx.delivery \in DeliveryRows
              /\ request.stage = "answered" => request.response \in Responses

\* Events and deliveries are committed in pairs: no event is stored without a
\* delivery to carry it, none has two, and no delivery lacks its event,
\* however requests with one key interleave and wherever they fail.
EventsAreCarried ==
    /\ \A event \in events :
          Cardinality({row \in deliveries : row.event = event.id}) = 1
    /\ \A row \in deliveries : \E event \in events : event.id = row.event

\* An idempotency key names one event: all the requests that were accepted
\* under it had the same body and were told the same IDs, those IDs are in the
\* tables, and at most one of the requests was told that it was the first.
AcceptedAgree ==
    /\ \A r, s \in Requests :
          IsAccepted(r) /\ IsAccepted(s) /\ SameKeyRequests(r, s) =>
              /\ requests[r].input.body = requests[s].input.body
              /\ requests[r].response.event = requests[s].response.event
              /\ requests[r].response.delivery = requests[s].response.delivery
              /\ ~requests[r].response.duplicate /\ ~requests[s].response.duplicate
                    => r = s
    /\ \A r \in Requests : IsAccepted(r) =>
          /\ [id |-> requests[r].response.delivery,
              event |-> requests[r].response.event] \in deliveries
          /\ \E event \in events :
                /\ event.id = requests[r].response.event
                /\ SameKey(event, requests[r].input)
                /\ event.body = requests[r].input.body

\* A request is refused as a conflict only when a different body is stored
\* under its key for good; a rival that was rolled back is no reason.
ConflictsAreReal ==
    \A r \in Requests :
        requests[r].response = [kind |-> "idempotency_conflict"] =>
            \E event \in events :
                /\ SameKey(event, requests[r].input)
                /\ event.body # requests[r].input.body

\* Nothing new is stored for an endpoint once it is disabled, not even by a
\* request that read the endpoint before.
NothingAfterDisable ==
    [][\A event \in events' \ events : endpoints[event.endpoint] = "enabled"]_vars

-----------------------------------------------------------------------------
\* The entry of an endpoint and a key in a table of events.
EntryIn(table, slot) ==
    LET rows == {row \in table : row.endpoint = slot[1] /\ row.key = slot[2]}
        only == CHOOSE row \in rows : TRUE
    IN  IF rows = {} THEN NULL ELSE [id |-> only.id, body |-> only.body]

Book ==
    INSTANCE Ledger WITH
        book <- [slot \in Endpoints \X Keys |-> EntryIn(events, slot)],
        asked <- [r \in Requests |-> requests[r].input],
        answers <- [r \in Requests |-> requests[r].response]

\* Publishing is linearizable: whatever the interleaving of the statements, each
\* request is answered as if it had read and written the ledger in one moment
\* between its beginning and its answer.
ImplementsLedger == Book!Spec
=============================================================================
