---------------------------- MODULE IngestProofs ----------------------------
(***************************************************************************)
(* Proofs about module Ingest, for any number of endpoints, keys, bodies   *)
(* and requests.  The invariant says, beside the shape of the tables, what *)
(* an open transaction knows: the row it has locked is the committed one   *)
(* of its key or a new one under its own ID, nobody else has it locked,    *)
(* and an ID that was drawn is in no table before its request ends.        *)
(***************************************************************************)
EXTENDS Ingest, FiniteSetTheorems, TLAPS

HoldsEvent(r) == requests[r].stage \in {"upserted", "stored"}

\* Keys and IDs name one event each, and every event has its one delivery, which
\* the same request drew the ID of.
Tables ==
    /\ \A a, b \in events : SameKey(a, b) => a = b
    /\ \A a, b \in events : a.id = b.id => a = b
    /\ \A event \in events : \E row \in deliveries : row.event = event.id
    /\ \A a, b \in deliveries : a.event = b.event => a = b
    /\ \A row \in deliveries : \E event \in events : event.id = row.event
    /\ \A row \in deliveries : row.id = row.event

\* What a request has locked at each stage.
TxShape(r) ==
    LET request == requests[r]
    IN  /\ request.stage = "new" => request.input = NULL
        /\ request.stage \in {"new", "begun", "answered"} => request.tx = NoTx
        /\ request.stage = "locked" => request.tx.event = NULL
        /\ request.stage \in {"locked", "upserted"} => request.tx.delivery = NULL
        /\ request.tx.endpoint # NULL => endpoints[request.tx.endpoint] = "enabled"
        /\ request.stage # "answered" => request.response = NULL

TxEvent(r) ==
    LET request == requests[r]
        event == request.tx.event
    IN  HoldsEvent(r) =>
            /\ SameKey(event, request.input) /\ event.body = request.input.body
            /\ \/ event \in events
               \/ event.id = r /\ \A row \in events : ~SameKey(row, event)

TxDelivery(r) ==
    LET tx == requests[r].tx
    IN  requests[r].stage = "stored" =>
            /\ tx.delivery.event = tx.event.id
            /\ tx.event \in events => tx.delivery \in deliveries
            /\ tx.event \notin events => tx.delivery.id = r

Fresh(r) ==
    requests[r].stage # "answered" =>
        /\ \A event \in events : event.id # r
        /\ \A row \in deliveries : row.event # r

\* What the client was told is in the tables.
Told(r) ==
    LET request == requests[r]
        response == request.response
    IN  IsAccepted(r) =>
            /\ [id |-> response.delivery, event |-> response.event] \in deliveries
            /\ \E event \in events :
                  /\ event.id = response.event
                  /\ SameKey(event, request.input)
                  /\ event.body = request.input.body
            /\ response.duplicate = (response.event # r)

Refused(r) ==
    requests[r].response = [kind |-> "idempotency_conflict"] =>
        \E event \in events :
            /\ SameKey(event, requests[r].input)
            /\ event.body # requests[r].input.body

RequestInv(r) ==
    TxShape(r) /\ TxEvent(r) /\ TxDelivery(r) /\ Fresh(r) /\ Told(r) /\ Refused(r)

\* No two transactions hold the row of one key.
Exclusive ==
    \A r, s \in Requests :
        HoldsEvent(r) /\ HoldsEvent(s) /\ SameKey(requests[r].tx.event, requests[s].tx.event)
            => r = s

IngestInv ==
    IngestTypeOK /\ Tables /\ Exclusive /\ \A r \in Requests : RequestInv(r)
-----------------------------------------------------------------------------
\* The type invariant, request by request.
RequestTyped(r) ==
    LET request == requests[r]
    IN  /\ request.stage # "new" => request.input \in Inputs
        /\ request.stage \in {"locked", "upserted", "stored"} =>
               request.tx.endpoint = request.input.endpoint
        /\ request.stage \in {"upserted", "stored"} => request.tx.event \in EventRows
        /\ request.stage = "stored" => request.tx.delivery \in DeliveryRows
        /\ request.stage = "answered" => request.response \in Responses

LEMMA TypeByRequest ==
    ASSUME IngestTypeOK, NEW r \in Requests
    PROVE  requests[r] \in RequestStates /\ RequestTyped(r)
BY DEF IngestTypeOK, RequestTyped

\* An answer ends a request and leaves nothing locked.
LEMMA AnswerShape ==
    ASSUME IngestTypeOK, NEW r \in Requests, NEW response \in Responses,
           Answer(r, response)
    PROVE  /\ requests' = [requests EXCEPT ![r] = requests'[r]]
           /\ requests'[r].stage = "answered" /\ requests'[r].tx = NoTx
           /\ requests'[r].input = requests[r].input
           /\ requests'[r].response = response
           /\ requests'[r] \in RequestStates
<1>1. requests[r] \in RequestStates /\ requests \in [Requests -> RequestStates]
  BY DEF IngestTypeOK
<1>2. NoTx \in Txs
  BY DEF NoTx, Txs
<1>3. requests'[r] = Answered(requests[r], response)
      /\ requests' = [requests EXCEPT ![r] = requests'[r]]
  BY <1>1 DEF Answer
<1> DEFINE request == requests[r]
<1> HIDE DEF request
<1>4. request \in RequestStates
  BY <1>1 DEF request
<1>5. /\ Answered(request, response).stage = "answered"
      /\ Answered(request, response).tx = NoTx
      /\ Answered(request, response).input = request.input
      /\ Answered(request, response).response = response
      /\ Answered(request, response) \in RequestStates
  BY <1>2, <1>4 DEF Answered, RequestStates
<1>6. QED
  BY <1>3, <1>5 DEF request

\* One request changes and keeps its type: so does the state.
LEMMA TypeOneRequest ==
    ASSUME IngestTypeOK, NEW r \in Requests,
           requests' = [requests EXCEPT ![r] = requests'[r]],
           requests'[r] \in RequestStates, RequestTyped(r)',
           UNCHANGED endpoints, events' \subseteq EventRows, deliveries' \subseteq DeliveryRows
    PROVE  IngestTypeOK'
<1>1. requests' \in [Requests -> RequestStates]
  BY DEF IngestTypeOK
<1>2. ASSUME NEW s \in Requests PROVE RequestTyped(s)'
  <2>1. CASE s = r
    BY <2>1
  <2>2. CASE s # r
    <3>1. requests'[s] = requests[s]
      BY <2>2 DEF IngestTypeOK
    <3>2. QED
      BY <3>1, TypeByRequest DEF RequestTyped
  <2>3. QED
    BY <2>1, <2>2
<1>3. QED
  BY <1>1, <1>2 DEF IngestTypeOK, RequestTyped

LEMMA AnswerTyped ==
    ASSUME IngestTypeOK, NEW r \in Requests, NEW response \in Responses,
           Answer(r, response), requests[r].stage # "new",
           UNCHANGED endpoints, events' \subseteq EventRows, deliveries' \subseteq DeliveryRows
    PROVE  IngestTypeOK'
<1>1. RequestTyped(r)'
  BY AnswerShape, TypeByRequest DEF RequestTyped
<1>2. QED
  BY <1>1, AnswerShape, TypeOneRequest

LEMMA ErrorsAreResponses ==
    ASSUME NEW kind \in Errors
    PROVE  [kind |-> kind] \in Responses
BY DEF Responses
\* The row an upsert would return has the key of the request.
LEMMA EventForKey ==
    ASSUME IngestTypeOK, NEW r \in Requests, requests[r].input \in Inputs
    PROVE  /\ EventFor(r) \in EventRows
           /\ SameKey(EventFor(r), requests[r].input)
           /\ \/ EventFor(r) \in events
              \/ /\ EventFor(r).id = r /\ EventFor(r).body = requests[r].input.body
                 /\ \A row \in events : ~SameKey(row, requests[r].input)
<1> DEFINE input == requests[r].input
<1>1. CASE \E row \in events : SameKey(row, input)
  <2>1. EventFor(r) \in events /\ SameKey(EventFor(r), input)
    BY <1>1 DEF EventFor
  <2>2. QED
    BY <2>1 DEF IngestTypeOK
<1>2. CASE ~\E row \in events : SameKey(row, input)
  <2>1. EventFor(r) = [id |-> r, endpoint |-> input.endpoint, key |-> input.key,
                       body |-> input.body]
    BY <1>2 DEF EventFor
  <2>2. QED
    BY <1>2, <2>1 DEF EventRows, Inputs, SameKey
<1>3. QED
  BY <1>1, <1>2

\* The delivery an upsert would return carries the event of the request.
LEMMA DeliveryForEvent ==
    ASSUME IngestTypeOK, NEW r \in Requests, requests[r].tx.event \in EventRows
    PROVE  /\ DeliveryFor(r) \in DeliveryRows
           /\ DeliveryFor(r).event = requests[r].tx.event.id
           /\ IF \E row \in deliveries : row.event = requests[r].tx.event.id
              THEN DeliveryFor(r) \in deliveries ELSE DeliveryFor(r).id = r
<1> DEFINE id == requests[r].tx.event.id
<1>0. id \in Requests
  BY DEF EventRows
<1>1. CASE \E row \in deliveries : row.event = id
  <2>1. DeliveryFor(r) \in deliveries /\ DeliveryFor(r).event = id
    BY <1>1 DEF DeliveryFor
  <2>2. QED
    BY <2>1 DEF IngestTypeOK
<1>2. CASE ~\E row \in deliveries : row.event = id
  <2>1. DeliveryFor(r) = [id |-> r, event |-> id]
    BY <1>2 DEF DeliveryFor
  <2>2. QED
    BY <1>0, <1>2, <2>1 DEF DeliveryRows
<1>3. QED
  BY <1>1, <1>2

\* The answers a commit may give.
LEMMA CommitResponses ==
    ASSUME IngestTypeOK, NEW r \in Requests, requests[r].stage = "stored"
    PROVE  /\ Accepted(requests[r].tx.event.id, requests[r].tx.delivery.id,
                       requests[r].tx.event.id # r) \in Responses
           /\ [kind |-> "internal_error"] \in Responses
<1>1. requests[r].tx.event \in EventRows /\ requests[r].tx.delivery \in DeliveryRows
  BY TypeByRequest DEF RequestTyped
<1>2. requests[r].tx.event.id \in Requests /\ requests[r].tx.delivery.id \in Requests
  BY <1>1 DEF EventRows, DeliveryRows
<1>3. QED
  BY <1>2 DEF Accepted, Responses, Errors

LEMMA CommitTyped ==
    ASSUME IngestTypeOK, NEW r \in Requests, NEW response \in Responses,
           Commit(r, response)
    PROVE  IngestTypeOK'
<1>1. requests[r].tx.event \in EventRows /\ requests[r].tx.delivery \in DeliveryRows
  BY TypeByRequest DEF RequestTyped, Commit
<1>2. events' \subseteq EventRows /\ deliveries' \subseteq DeliveryRows
  BY <1>1 DEF Commit, IngestTypeOK
<1>3. QED
  BY <1>2, AnswerTyped DEF Commit

\* The statements up to the commit keep the types.
LEMMA StatementTyped ==
    ASSUME IngestTypeOK, NEW r \in Requests,
           LockEndpoint(r) \/ UpsertEvent(r) \/ UpsertDelivery(r) \/ Fail(r)
    PROVE  IngestTypeOK'
<1>1. requests[r] \in RequestStates /\ RequestTyped(r)
      /\ requests \in [Requests -> RequestStates]
  BY TypeByRequest DEF IngestTypeOK
<1>2. requests[r].stage # "new" /\ UNCHANGED <<endpoints, events, deliveries>>
  BY DEF LockEndpoint, UpsertEvent, UpsertDelivery, Fail
<1>3. events' \subseteq EventRows /\ deliveries' \subseteq DeliveryRows
  BY <1>2 DEF IngestTypeOK
<1>4. requests[r].input \in Inputs /\ requests[r].input.endpoint \in Endpoints
  BY <1>1, <1>2 DEF RequestTyped, Inputs
<1>5. ASSUME NEW kind \in Errors, Answer(r, [kind |-> kind]) PROVE IngestTypeOK'
  BY <1>2, <1>3, <1>5, AnswerTyped, ErrorsAreResponses
<1>6. CASE requests' = [requests EXCEPT ![r].stage = "locked",
                                        ![r].tx.endpoint = requests[r].input.endpoint]
  <2>1. requests'[r] \in RequestStates /\ RequestTyped(r)'
    BY <1>1, <1>4, <1>6 DEF RequestStates, Txs, RequestTyped
  <2>2. QED
    BY <1>1, <1>2, <1>3, <1>6, <2>1, TypeOneRequest
<1>7. CASE /\ requests[r].stage = "locked"
           /\ requests' = [requests EXCEPT ![r].stage = "upserted",
                                           ![r].tx.event = EventFor(r)]
  <2>1. EventFor(r) \in EventRows
    BY <1>4, EventForKey
  <2>2. requests'[r] \in RequestStates /\ RequestTyped(r)'
    BY <1>1, <1>4, <1>7, <2>1 DEF RequestStates, Txs, RequestTyped
  <2>3. QED
    BY <1>1, <1>2, <1>3, <1>7, <2>2, TypeOneRequest
<1>8. CASE /\ requests[r].stage = "upserted"
           /\ requests' = [requests EXCEPT ![r].stage = "stored",
                                           ![r].tx.delivery = DeliveryFor(r)]
  <2>1. DeliveryFor(r) \in DeliveryRows
    BY <1>1, <1>8, DeliveryForEvent DEF RequestTyped
  <2>2. requests'[r] \in RequestStates /\ RequestTyped(r)'
    BY <1>1, <1>4, <1>8, <2>1 DEF RequestStates, Txs, RequestTyped
  <2>3. QED
    BY <1>1, <1>2, <1>3, <1>8, <2>2, TypeOneRequest
<1>9. CASE LockEndpoint(r)
  <2>1. endpoints[requests[r].input.endpoint] \in {"absent", "enabled", "disabled"}
    BY <1>4 DEF IngestTypeOK
  <2>2. QED
    BY <1>5, <1>6, <1>9, <2>1 DEF LockEndpoint, Errors
<1>10. CASE UpsertEvent(r)
  BY <1>5, <1>7, <1>10 DEF UpsertEvent, Errors
<1>11. CASE UpsertDelivery(r)
  BY <1>8, <1>11 DEF UpsertDelivery
<1>12. CASE Fail(r)
  BY <1>5, <1>12 DEF Fail, Errors
<1>13. QED
  BY <1>9, <1>10, <1>11, <1>12
-----------------------------------------------------------------------------
\* A request that moves without touching the tables disturbs no other.
LEMMA OneRequest ==
    ASSUME IngestInv, IngestTypeOK', NEW r \in Requests,
           requests' = [requests EXCEPT ![r] = requests'[r]],
           UNCHANGED <<endpoints, events, deliveries>>,
           RequestInv(r)',
           HoldsEvent(r)' => \A s \in Requests \ {r} :
               HoldsEvent(s) => ~SameKey(requests'[r].tx.event, requests[s].tx.event)
    PROVE  IngestInv'
<1>1. ASSUME NEW s \in Requests, s # r PROVE requests'[s] = requests[s]
  BY <1>1 DEF IngestInv, IngestTypeOK
<1>2. Tables'
  BY DEF IngestInv, Tables, SameKey
<1>3. ASSUME NEW s \in Requests PROVE RequestInv(s)'
  <2>1. CASE s = r
    BY <2>1
  <2>2. CASE s # r
    <3>1. requests'[s] = requests[s] /\ RequestInv(s)
      BY <1>1, <2>2 DEF IngestInv
    <3>2. TxShape(s)' /\ TxEvent(s)' /\ TxDelivery(s)'
      BY <3>1 DEF RequestInv, TxShape, TxEvent, TxDelivery, HoldsEvent
    <3>3. Fresh(s)' /\ Told(s)' /\ Refused(s)'
      BY <3>1 DEF RequestInv, Fresh, Told, Refused, IsAccepted
    <3>4. QED
      BY <3>2, <3>3 DEF RequestInv
  <2>3. QED
    BY <2>1, <2>2
<1>4. Exclusive'
  <2> SUFFICES ASSUME NEW s \in Requests, NEW t \in Requests,
                      HoldsEvent(s)', HoldsEvent(t)',
                      SameKey(requests'[s].tx.event, requests'[t].tx.event)
               PROVE  s = t
    BY DEF Exclusive
  <2>1. CASE s = r /\ t # r
    <3>1. HoldsEvent(t) /\ requests'[t] = requests[t]
      BY <1>1, <2>1 DEF HoldsEvent
    <3>2. QED
      BY <2>1, <3>1
  <2>2. CASE s # r /\ t = r
    <3>1. HoldsEvent(s) /\ requests'[s] = requests[s]
      BY <1>1, <2>2 DEF HoldsEvent
    <3>2. SameKey(requests'[r].tx.event, requests[s].tx.event)
      BY <2>2, <3>1 DEF SameKey
    <3>3. QED
      BY <2>2, <3>1, <3>2
  <2>3. CASE s # r /\ t # r
    BY <1>1, <2>3 DEF IngestInv, Exclusive, HoldsEvent
  <2>4. QED
    BY <2>1, <2>2, <2>3
<1>5. QED
  BY <1>2, <1>3, <1>4 DEF IngestInv

\* A request that is answered with an error.
LEMMA ErrorKeeps ==
    ASSUME IngestInv, NEW r \in Requests, NEW kind \in Errors,
           Answer(r, [kind |-> kind]), requests[r].stage # "new",
           UNCHANGED <<endpoints, events, deliveries>>,
           kind = "idempotency_conflict" =>
               \E event \in events : /\ SameKey(event, requests[r].input)
                                     /\ event.body # requests[r].input.body
    PROVE  IngestInv'
<1>1. [kind |-> kind] \in Responses
  BY ErrorsAreResponses
<1>2. IngestTypeOK'
  BY <1>1, AnswerTyped DEF IngestInv, IngestTypeOK
<1>3. /\ requests' = [requests EXCEPT ![r] = requests'[r]]
      /\ requests'[r].stage = "answered" /\ requests'[r].tx = NoTx
      /\ requests'[r].input = requests[r].input
      /\ requests'[r].response = [kind |-> kind]
  BY <1>1, AnswerShape DEF IngestInv
<1>4. TxShape(r)' /\ TxEvent(r)' /\ TxDelivery(r)' /\ Fresh(r)' /\ ~HoldsEvent(r)'
  BY <1>3 DEF TxShape, TxEvent, TxDelivery, Fresh, HoldsEvent, NoTx
<1>5. Told(r)'
  <2>1. [kind |-> kind].kind # "accepted"
    BY DEF Errors
  <2>2. QED
    BY <1>3, <2>1 DEF Told, IsAccepted
<1>6. Refused(r)'
  <2>1. [kind |-> kind] = [kind |-> "idempotency_conflict"] => kind = "idempotency_conflict"
    OBVIOUS
  <2>2. QED
    BY <1>3, <2>1 DEF Refused, SameKey
<1>7. QED
  BY <1>2, <1>3, <1>4, <1>5, <1>6, OneRequest DEF RequestInv

LEMMA PublishKeeps ==
    ASSUME IngestInv, NEW r \in Requests, NEW input \in Inputs, Publish(r, input)
    PROVE  IngestInv'
<1>1. requests[r] \in RequestStates /\ requests \in [Requests -> RequestStates]
      /\ RequestInv(r)
  BY DEF IngestInv, IngestTypeOK
<1>2. /\ requests' = [requests EXCEPT ![r] = requests'[r]]
      /\ requests'[r].stage = "begun" /\ requests'[r].tx = requests[r].tx
      /\ requests'[r].input = input
      /\ requests'[r].response = requests[r].response
      /\ requests'[r] \in RequestStates
  BY <1>1 DEF Publish, RequestStates
<1>3. requests[r].stage = "new" /\ UNCHANGED <<endpoints, events, deliveries>>
  BY DEF Publish
<1>4. IngestTypeOK'
  <2>1. RequestTyped(r)'
    BY <1>2 DEF RequestTyped
  <2>2. QED
    BY <1>2, <1>3, <2>1, TypeOneRequest DEF IngestInv, IngestTypeOK
<1>5. TxShape(r)' /\ TxEvent(r)' /\ TxDelivery(r)' /\ Fresh(r)' /\ ~HoldsEvent(r)'
  BY <1>1, <1>2, <1>3
     DEF RequestInv, TxShape, TxEvent, TxDelivery, Fresh, HoldsEvent, NoTx
<1>6. Told(r)' /\ Refused(r)'
  <2>1. requests'[r].response = NULL
    BY <1>1, <1>2, <1>3 DEF RequestInv, TxShape
  <2>2. [kind |-> "idempotency_conflict"] # NULL
    BY ErrorsAreResponses, IngestAssumption DEF Errors
  <2>3. QED
    BY <2>1, <2>2 DEF Told, Refused, IsAccepted
<1>7. QED
  BY <1>2, <1>3, <1>4, <1>5, <1>6, OneRequest DEF RequestInv
LEMMA LockKeeps ==
    ASSUME IngestInv, NEW r \in Requests, LockEndpoint(r)
    PROVE  IngestInv'
<1>1. requests[r] \in RequestStates /\ requests \in [Requests -> RequestStates]
      /\ RequestInv(r) /\ RequestTyped(r)
  BY TypeByRequest DEF IngestInv, IngestTypeOK
<1>2. requests[r].stage = "begun" /\ UNCHANGED <<endpoints, events, deliveries>>
  BY DEF LockEndpoint
<1> DEFINE e == requests[r].input.endpoint
<1>3. e \in Endpoints /\ endpoints[e] \in {"absent", "enabled", "disabled"}
  BY <1>1, <1>2 DEF RequestTyped, Inputs, IngestInv, IngestTypeOK
<1>4. CASE endpoints[e] = "absent"
  BY <1>2, <1>4, ErrorKeeps DEF LockEndpoint, Errors
<1>5. CASE endpoints[e] = "disabled"
  BY <1>2, <1>5, ErrorKeeps DEF LockEndpoint, Errors
<1>6. CASE endpoints[e] = "enabled"
  <2>1. requests' = [requests EXCEPT ![r].stage = "locked", ![r].tx.endpoint = e]
    BY <1>6 DEF LockEndpoint
  <2>2. /\ requests' = [requests EXCEPT ![r] = requests'[r]]
        /\ requests'[r].stage = "locked" /\ requests'[r].tx.endpoint = e
        /\ requests'[r].tx.event = requests[r].tx.event
        /\ requests'[r].tx.delivery = requests[r].tx.delivery
        /\ requests'[r].input = requests[r].input
        /\ requests'[r].response = requests[r].response
    BY <1>1, <2>1 DEF RequestStates, Txs
  <2>3. TxShape(r)' /\ TxEvent(r)' /\ TxDelivery(r)' /\ Fresh(r)' /\ ~HoldsEvent(r)'
    BY <1>1, <1>2, <1>6, <2>2
       DEF RequestInv, TxShape, TxEvent, TxDelivery, Fresh, HoldsEvent, NoTx
  <2>4. Told(r)' /\ Refused(r)'
    BY <1>1, <1>2, <2>2 DEF RequestInv, Told, Refused, IsAccepted, SameKey
  <2>5. IngestTypeOK'
    BY StatementTyped DEF IngestInv
  <2>6. QED
    BY <1>2, <2>2, <2>3, <2>4, <2>5, OneRequest DEF RequestInv
<1>7. QED
  BY <1>3, <1>4, <1>5, <1>6

LEMMA UpsertEventKeeps ==
    ASSUME IngestInv, NEW r \in Requests, UpsertEvent(r)
    PROVE  IngestInv'
<1>1. requests[r] \in RequestStates /\ requests \in [Requests -> RequestStates]
      /\ RequestInv(r) /\ RequestTyped(r)
  BY TypeByRequest DEF IngestInv, IngestTypeOK
<1>2. requests[r].stage = "locked" /\ UNCHANGED <<endpoints, events, deliveries>>
      /\ ~KeyLocked(r)
  BY DEF UpsertEvent
<1>3. requests[r].input \in Inputs
  BY <1>1, <1>2 DEF RequestTyped
<1>4. /\ EventFor(r) \in EventRows /\ SameKey(EventFor(r), requests[r].input)
      /\ \/ EventFor(r) \in events
         \/ /\ EventFor(r).id = r /\ EventFor(r).body = requests[r].input.body
            /\ \A row \in events : ~SameKey(row, requests[r].input)
  BY <1>3, EventForKey DEF IngestInv
<1>5. CASE payloadMatches(r, EventFor(r))
  <2>1. requests' = [requests EXCEPT ![r].stage = "upserted", ![r].tx.event = EventFor(r)]
    BY <1>5 DEF UpsertEvent
  <2>2. /\ requests' = [requests EXCEPT ![r] = requests'[r]]
        /\ requests'[r].stage = "upserted"
        /\ requests'[r].tx.event = EventFor(r)
        /\ requests'[r].tx.endpoint = requests[r].tx.endpoint
        /\ requests'[r].tx.delivery = requests[r].tx.delivery
        /\ requests'[r].input = requests[r].input
        /\ requests'[r].response = requests[r].response
    BY <1>1, <2>1 DEF RequestStates, Txs
  <2>3. TxShape(r)' /\ TxDelivery(r)' /\ Fresh(r)'
    BY <1>1, <1>2, <2>2 DEF RequestInv, TxShape, TxDelivery, Fresh
  <2>4. TxEvent(r)'
    <3>1. EventFor(r).body = requests[r].input.body
      BY <1>5 DEF payloadMatches
    <3>2. \/ EventFor(r) \in events
          \/ EventFor(r).id = r /\ \A row \in events : ~SameKey(row, EventFor(r))
      BY <1>4 DEF SameKey
    <3>3. requests'[r].tx.event = EventFor(r) /\ requests'[r].input = requests[r].input
          /\ events' = events
      BY <1>2, <2>2
    <3>4. QED
      BY <1>4, <3>1, <3>2, <3>3 DEF TxEvent, SameKey
  <2>5. Told(r)' /\ Refused(r)'
    BY <1>1, <1>2, <2>2 DEF RequestInv, Told, Refused, IsAccepted, SameKey
  <2>6. ASSUME NEW s \in Requests \ {r}, HoldsEvent(s)
        PROVE  ~SameKey(requests'[r].tx.event, requests[s].tx.event)
    <3>1. requests[s].tx.event # NULL
      BY <2>6, TypeByRequest, IngestAssumption DEF IngestInv, HoldsEvent, RequestTyped
    <3>2. ~SameKey(requests[s].tx.event, requests[r].input)
      BY <1>2, <3>1 DEF KeyLocked
    <3>3. QED
      BY <1>4, <2>2, <3>2 DEF SameKey
  <2>7. IngestTypeOK'
    BY StatementTyped DEF IngestInv
  <2>8. QED
    BY <1>2, <2>2, <2>3, <2>4, <2>5, <2>6, <2>7, OneRequest DEF RequestInv
<1>6. CASE ~payloadMatches(r, EventFor(r))
  <2>1. Answer(r, [kind |-> "idempotency_conflict"])
    BY <1>6 DEF UpsertEvent
  <2>2. EventFor(r) \in events /\ EventFor(r).body # requests[r].input.body
    BY <1>4, <1>6 DEF payloadMatches
  <2>3. QED
    BY <1>2, <1>4, <2>1, <2>2, ErrorKeeps DEF Errors
<1>7. QED
  BY <1>5, <1>6

LEMMA UpsertDeliveryKeeps ==
    ASSUME IngestInv, NEW r \in Requests, UpsertDelivery(r)
    PROVE  IngestInv'
<1>1. requests[r] \in RequestStates /\ requests \in [Requests -> RequestStates]
      /\ RequestInv(r) /\ RequestTyped(r)
  BY TypeByRequest DEF IngestInv, IngestTypeOK
<1>2. requests[r].stage = "upserted" /\ UNCHANGED <<endpoints, events, deliveries>>
      /\ requests' = [requests EXCEPT ![r].stage = "stored", ![r].tx.delivery = DeliveryFor(r)]
  BY DEF UpsertDelivery
<1>3. /\ DeliveryFor(r).event = requests[r].tx.event.id
      /\ IF \E row \in deliveries : row.event = requests[r].tx.event.id
         THEN DeliveryFor(r) \in deliveries ELSE DeliveryFor(r).id = r
  BY <1>1, <1>2, DeliveryForEvent DEF IngestInv, RequestTyped
<1>4. /\ requests' = [requests EXCEPT ![r] = requests'[r]]
      /\ requests'[r].stage = "stored"
      /\ requests'[r].tx.delivery = DeliveryFor(r)
      /\ requests'[r].tx.event = requests[r].tx.event
      /\ requests'[r].tx.endpoint = requests[r].tx.endpoint
      /\ requests'[r].input = requests[r].input
      /\ requests'[r].response = requests[r].response
  BY <1>1, <1>2 DEF RequestStates, Txs
<1>5. TxShape(r)' /\ Fresh(r)' /\ TxEvent(r)'
  BY <1>1, <1>2, <1>4 DEF RequestInv, TxShape, Fresh, TxEvent, HoldsEvent, SameKey
<1>6. TxDelivery(r)'
  <2>1. requests[r].tx.event \in events => DeliveryFor(r) \in deliveries
    BY <1>3 DEF IngestInv, Tables
  <2>2. requests[r].tx.event \notin events => DeliveryFor(r).id = r
    BY <1>1, <1>2, <1>3 DEF RequestInv, TxEvent, Fresh, HoldsEvent
  <2>3. QED
    BY <1>2, <1>3, <1>4, <2>1, <2>2 DEF TxDelivery
<1>7. Told(r)' /\ Refused(r)'
  BY <1>1, <1>2, <1>4 DEF RequestInv, Told, Refused, IsAccepted, SameKey
<1>8. ASSUME NEW s \in Requests \ {r}, HoldsEvent(s)
      PROVE  ~SameKey(requests'[r].tx.event, requests[s].tx.event)
  BY <1>2, <1>4, <1>8 DEF IngestInv, Exclusive, HoldsEvent
<1>9. IngestTypeOK'
  BY StatementTyped DEF IngestInv
<1>10. QED
  BY <1>2, <1>4, <1>5, <1>6, <1>7, <1>8, <1>9, OneRequest DEF RequestInv
-----------------------------------------------------------------------------
\* A commit adds nothing, or one event under an ID that is in no table with the
\* one delivery that carries it.
LEMMA CommitTables ==
    ASSUME IngestInv, NEW r \in Requests, NEW response \in Responses,
           Commit(r, response)
    PROVE  LET event == requests[r].tx.event
               row == requests[r].tx.delivery
           IN  /\ event \in EventRows /\ row \in DeliveryRows /\ row.event = event.id
               /\ SameKey(event, requests[r].input)
               /\ event.body = requests[r].input.body
               /\ events' = events \cup {event} /\ deliveries' = deliveries \cup {row}
               /\ \/ event \in events /\ events' = events /\ deliveries' = deliveries
                  \/ /\ event \notin events /\ event.id = r /\ row.id = r
                     /\ \A other \in events : ~SameKey(other, event) /\ other.id # r
                     /\ \A other \in deliveries : other.event # r
<1>1. RequestInv(r) /\ RequestTyped(r) /\ requests[r].stage = "stored"
  BY TypeByRequest DEF IngestInv, Commit
<1> DEFINE event == requests[r].tx.event
           row == requests[r].tx.delivery
<1>2. event \in EventRows /\ row \in DeliveryRows
  BY <1>1 DEF RequestTyped
<1>3. /\ row.event = event.id /\ (event \in events => row \in deliveries)
      /\ event \notin events => row.id = r
  BY <1>1 DEF RequestInv, TxDelivery
<1>4. /\ SameKey(event, requests[r].input) /\ event.body = requests[r].input.body
      /\ \/ event \in events
         \/ event.id = r /\ \A other \in events : ~SameKey(other, event)
  BY <1>1 DEF RequestInv, TxEvent, HoldsEvent
<1>5. (\A other \in events : other.id # r) /\ (\A other \in deliveries : other.event # r)
  BY <1>1 DEF RequestInv, Fresh
<1>6. events' = events \cup {event} /\ deliveries' = deliveries \cup {row}
  BY DEF Commit
<1>7. QED
  BY <1>2, <1>3, <1>4, <1>5, <1>6

LEMMA CommitKeepsTables ==
    ASSUME IngestInv, NEW r \in Requests, NEW response \in Responses,
           Commit(r, response)
    PROVE  Tables'
<1> DEFINE event == requests[r].tx.event
           row == requests[r].tx.delivery
<1>1. Tables
  BY DEF IngestInv
<1>2. CASE event \in events /\ events' = events /\ deliveries' = deliveries
  BY <1>1, <1>2 DEF Tables, SameKey
<1>3. CASE /\ event \notin events /\ event.id = r /\ row.id = r
           /\ \A other \in events : ~SameKey(other, event) /\ other.id # r
           /\ \A other \in deliveries : other.event # r
  <2> HIDE DEF event, row
  <2>1. row.event = r /\ events' = events \cup {event} /\ deliveries' = deliveries \cup {row}
    BY <1>3, CommitTables DEF event, row
  <2>2. \A a, b \in events' : SameKey(a, b) => a = b
    BY <1>1, <1>3, <2>1 DEF Tables, SameKey
  <2>3. \A a, b \in events' : a.id = b.id => a = b
    BY <1>1, <1>3, <2>1 DEF Tables
  <2>4. \A a, b \in deliveries' : a.event = b.event => a = b
    BY <1>1, <1>3, <2>1 DEF Tables
  <2>5. \A a \in events' : \E b \in deliveries' : b.event = a.id
    BY <1>1, <1>3, <2>1 DEF Tables
  <2>6. \A b \in deliveries' : \E a \in events' : a.id = b.event
    BY <1>1, <1>3, <2>1 DEF Tables
  <2>7. \A b \in deliveries' : b.id = b.event
    BY <1>1, <1>3, <2>1 DEF Tables
  <2>8. QED
    BY <2>2, <2>3, <2>4, <2>5, <2>6, <2>7 DEF Tables, SameKey
<1>4. QED
  BY <1>2, <1>3, CommitTables

\* The commit of one request leaves what the others know true.
LEMMA CommitOthers ==
    ASSUME IngestInv, NEW r \in Requests, NEW response \in Responses,
           Commit(r, response), NEW s \in Requests, s # r
    PROVE  RequestInv(s)' /\ requests'[s] = requests[s]
<1>1. requests'[s] = requests[s] /\ RequestInv(s)
  BY AnswerShape DEF IngestInv, IngestTypeOK, Commit
<1>2. events \subseteq events' /\ deliveries \subseteq deliveries' /\ endpoints' = endpoints
  BY DEF Commit
<1>3. TxShape(s)'
  BY <1>1, <1>2 DEF RequestInv, TxShape
<1>4. Told(s)' /\ Refused(s)'
  BY <1>1, <1>2 DEF RequestInv, Told, Refused, IsAccepted, SameKey
<1> DEFINE event == requests[r].tx.event
           row == requests[r].tx.delivery
           mine == requests[s].tx.event
<1>5. CASE event \in events /\ events' = events /\ deliveries' = deliveries
  <2>1. TxEvent(s)' /\ TxDelivery(s)' /\ Fresh(s)'
    BY <1>1, <1>5 DEF RequestInv, TxEvent, TxDelivery, Fresh, HoldsEvent, SameKey
  <2>2. QED
    BY <1>1, <1>3, <1>4, <2>1 DEF RequestInv
<1>6. CASE event \notin events /\ event.id = r
  <2>1. row.event = r /\ events' = events \cup {event} /\ deliveries' = deliveries \cup {row}
    BY <1>6, CommitTables
  <2>2. HoldsEvent(s) => ~SameKey(event, mine)
    BY DEF IngestInv, Exclusive, HoldsEvent, Commit
  <2>3. TxEvent(s)'
    <3>1. HoldsEvent(s)' = HoldsEvent(s)
      BY <1>1 DEF HoldsEvent
    <3>2. QED
      BY <1>1, <2>1, <2>2, <3>1 DEF RequestInv, TxEvent, SameKey
  <2>4. TxDelivery(s)'
    <3>1. requests[s].stage = "stored" => mine # event
      BY <2>2 DEF HoldsEvent, SameKey
    <3>2. QED
      BY <1>1, <1>2, <2>1, <3>1 DEF RequestInv, TxDelivery
  <2>5. Fresh(s)'
    BY <1>1, <1>6, <2>1 DEF RequestInv, Fresh
  <2>6. QED
    BY <1>1, <1>3, <1>4, <2>3, <2>4, <2>5 DEF RequestInv
<1>7. QED
  BY <1>5, <1>6, CommitTables
\* Either answer of a commit: the IDs it stored, or an error that hides them.
LEMMA CommitKeeps ==
    ASSUME IngestInv, NEW r \in Requests, Acknowledge(r) \/ CommitUnheard(r)
    PROVE  IngestInv'
<1> DEFINE event == requests[r].tx.event
           row == requests[r].tx.delivery
<1>1. PICK response \in Responses :
          /\ Commit(r, response)
          /\ \/ response = Accepted(event.id, row.id, event.id # r)
             \/ response = [kind |-> "internal_error"]
  <2>1. requests[r].stage = "stored"
    BY DEF Acknowledge, CommitUnheard, Commit
  <2>2. QED
    BY <2>1, CommitResponses DEF Acknowledge, CommitUnheard, IngestInv
<1>2. /\ requests'[r].stage = "answered" /\ requests'[r].tx = NoTx
      /\ requests'[r].input = requests[r].input
      /\ requests'[r].response = response
  BY <1>1, AnswerShape DEF IngestInv, Commit
<1>3. IngestTypeOK' /\ Tables'
  BY <1>1, CommitTyped, CommitKeepsTables DEF IngestInv
<1>4. TxShape(r)' /\ TxEvent(r)' /\ TxDelivery(r)' /\ Fresh(r)' /\ ~HoldsEvent(r)'
  BY <1>2 DEF TxShape, TxEvent, TxDelivery, Fresh, HoldsEvent, NoTx
<1>5. Refused(r)'
  <2>1. response # [kind |-> "idempotency_conflict"]
    <3>1. Accepted(event.id, row.id, event.id # r).kind = "accepted"
          /\ [kind |-> "internal_error"].kind = "internal_error"
          /\ [kind |-> "idempotency_conflict"].kind = "idempotency_conflict"
      BY DEF Accepted
    <3>2. QED
      BY <1>1, <3>1
  <2>2. QED
    BY <1>2, <2>1 DEF Refused
<1>6. Told(r)'
  <2>1. CASE response = [kind |-> "internal_error"]
    BY <1>2, <2>1 DEF Told, IsAccepted
  <2>2. CASE response = Accepted(event.id, row.id, event.id # r)
    <3>1. /\ response.event = event.id /\ response.delivery = row.id
          /\ response.duplicate = (event.id # r)
      BY <2>2 DEF Accepted
    <3>2. /\ row \in DeliveryRows /\ row.event = event.id
          /\ row \in deliveries' /\ event \in events'
          /\ SameKey(event, requests[r].input) /\ event.body = requests[r].input.body
      BY <1>1, CommitTables
    <3>3. row = [id |-> row.id, event |-> event.id]
      BY <3>2 DEF DeliveryRows
    <3>4. [id |-> response.delivery, event |-> response.event] \in deliveries'
      BY <3>1, <3>2, <3>3
    <3>5. \E stored \in events' :
              /\ stored.id = response.event
              /\ SameKey(stored, requests[r].input)
              /\ stored.body = requests[r].input.body
      BY <3>1, <3>2
    <3>6. QED
      BY <1>2, <3>1, <3>4, <3>5 DEF Told, SameKey
  <2>3. QED
    BY <1>1, <2>1, <2>2
<1>7. ASSUME NEW s \in Requests PROVE RequestInv(s)'
  <2>1. CASE s = r
    BY <1>4, <1>5, <1>6, <2>1 DEF RequestInv
  <2>2. CASE s # r
    BY <1>1, <2>2, CommitOthers
  <2>3. QED
    BY <2>1, <2>2
<1>8. Exclusive'
  <2>1. ASSUME NEW s \in Requests, HoldsEvent(s)'
        PROVE  HoldsEvent(s) /\ requests'[s] = requests[s]
    <3>1. s # r
      BY <1>4, <2>1
    <3>2. QED
      BY <1>1, <2>1, <3>1, CommitOthers DEF HoldsEvent
  <2>2. QED
    BY <2>1 DEF IngestInv, Exclusive
<1>9. QED
  BY <1>3, <1>7, <1>8 DEF IngestInv

\* The endpoint of an open transaction is locked against being disabled.
LEMMA EndpointKeeps ==
    ASSUME IngestInv, NEW e \in Endpoints, CreateEndpoint(e) \/ DisableEndpoint(e)
    PROVE  IngestInv'
<1>1. UNCHANGED <<events, deliveries, requests>>
      /\ endpoints' \in [Endpoints -> {"absent", "enabled", "disabled"}]
  BY DEF CreateEndpoint, DisableEndpoint, IngestInv, IngestTypeOK
<1>2. IngestTypeOK'
  BY <1>1 DEF IngestInv, IngestTypeOK
<1>3. Tables' /\ Exclusive'
  BY <1>1 DEF IngestInv, Tables, Exclusive, HoldsEvent, SameKey
<1>4. ASSUME NEW r \in Requests PROVE RequestInv(r)'
  <2>1. RequestInv(r)
    BY DEF IngestInv
  <2>2. requests[r].tx.endpoint # NULL =>
            endpoints'[requests[r].tx.endpoint] = endpoints[requests[r].tx.endpoint]
    <3>1. CASE DisableEndpoint(e)
      BY <3>1 DEF DisableEndpoint, ShareLocked, IngestInv, IngestTypeOK
    <3>2. CASE CreateEndpoint(e)
      <4>1. requests[r].tx.endpoint # NULL => requests[r].tx.endpoint # e
        BY <2>1, <3>2 DEF RequestInv, TxShape, CreateEndpoint
      <4>2. QED
        BY <3>2, <4>1 DEF CreateEndpoint, IngestInv, IngestTypeOK
    <3>3. QED
      BY <3>1, <3>2
  <2>3. TxShape(r)'
    BY <1>1, <2>1, <2>2 DEF RequestInv, TxShape
  <2>4. TxEvent(r)' /\ TxDelivery(r)' /\ Fresh(r)' /\ Told(r)' /\ Refused(r)'
    BY <1>1, <2>1
       DEF RequestInv, TxEvent, TxDelivery, Fresh, Told, Refused, HoldsEvent, IsAccepted, SameKey
  <2>5. QED
    BY <2>3, <2>4 DEF RequestInv
<1>5. QED
  BY <1>2, <1>3, <1>4 DEF IngestInv

-----------------------------------------------------------------------------
LEMMA IngestInitially == Init => IngestInv
<1> SUFFICES ASSUME Init PROVE IngestInv
  OBVIOUS
<1>1. \A r \in Requests : requests[r] = New
  BY DEF Init
<1>2. New \in RequestStates
  BY DEF New, NoTx, RequestStates, Txs
<1>3. IngestTypeOK
  BY <1>1, <1>2 DEF Init, IngestTypeOK, New
<1>4. Tables /\ Exclusive
  BY <1>1 DEF Init, Tables, Exclusive, HoldsEvent, New
<1>5. ASSUME NEW r \in Requests PROVE RequestInv(r)
  <2>1. TxShape(r) /\ TxEvent(r) /\ TxDelivery(r) /\ Fresh(r)
    BY <1>1 DEF Init, New, NoTx, TxShape, TxEvent, TxDelivery, Fresh, HoldsEvent
  <2>2. [kind |-> "idempotency_conflict"] # NULL
    BY ErrorsAreResponses, IngestAssumption DEF Errors
  <2>3. Told(r) /\ Refused(r)
    BY <1>1, <2>2 DEF New, Told, Refused, IsAccepted
  <2>4. QED
    BY <2>1, <2>3 DEF RequestInv
<1>6. QED
  BY <1>3, <1>4, <1>5 DEF IngestInv

LEMMA IngestStep == IngestInv /\ [Next]_vars => IngestInv'
<1> SUFFICES ASSUME IngestInv, [Next]_vars PROVE IngestInv'
  OBVIOUS
<1>1. ASSUME NEW e \in Endpoints, CreateEndpoint(e) \/ DisableEndpoint(e)
      PROVE  IngestInv'
  BY <1>1, EndpointKeeps
<1>2. ASSUME NEW r \in Requests, NEW input \in Inputs, Publish(r, input)
      PROVE  IngestInv'
  BY <1>2, PublishKeeps
<1>3. ASSUME NEW r \in Requests, EnqueueEvent(r) PROVE IngestInv'
  <2>1. CASE LockEndpoint(r)
    BY <2>1, LockKeeps
  <2>2. CASE UpsertEvent(r)
    BY <2>2, UpsertEventKeeps
  <2>3. CASE UpsertDelivery(r)
    BY <2>3, UpsertDeliveryKeeps
  <2>4. CASE Acknowledge(r) \/ CommitUnheard(r)
    BY <2>4, CommitKeeps
  <2>5. CASE Fail(r)
    <3>1. requests[r].stage # "new"
      BY <2>5 DEF Fail
    <3>2. QED
      BY <2>5, <3>1, ErrorKeeps DEF Fail, Errors
  <2>6. QED
    BY <1>3, <2>1, <2>2, <2>3, <2>4, <2>5 DEF EnqueueEvent
<1>4. CASE UNCHANGED vars
  <2>1. UNCHANGED <<endpoints, events, deliveries, requests>>
    BY <1>4 DEF vars
  <2>2. IngestTypeOK' /\ Tables' /\ Exclusive'
    BY <2>1 DEF IngestInv, IngestTypeOK, Tables, Exclusive, HoldsEvent, SameKey
  <2>3. ASSUME NEW r \in Requests PROVE RequestInv(r)'
    BY <2>1 DEF IngestInv, RequestInv, TxShape, TxEvent, TxDelivery, Fresh, Told,
                Refused, HoldsEvent, IsAccepted, SameKey
  <2>4. QED
    BY <2>2, <2>3 DEF IngestInv
<1>5. QED
  BY <1>1, <1>2, <1>3, <1>4 DEF Next

\* The invariant of the transactions of EnqueueEvent is inductive.
THEOREM IngestInductive == Spec => []IngestInv
BY IngestInitially, IngestStep, PTL DEF Spec

\* Every row and every transaction of EnqueueEvent has what its stage needs.
THEOREM IngestTypeCorrect == Spec => []IngestTypeOK
<1>1. IngestInv => IngestTypeOK
  BY DEF IngestInv
<1>2. QED
  BY <1>1, IngestInductive, PTL

\* Events and deliveries are stored in pairs, however many requests share a key.
THEOREM EventsAlwaysCarried == Spec => []EventsAreCarried
<1>1. IngestInv => EventsAreCarried
  <2> SUFFICES ASSUME IngestInv PROVE EventsAreCarried
    OBVIOUS
  <2>1. ASSUME NEW event \in events
        PROVE  Cardinality({row \in deliveries : row.event = event.id}) = 1
    <3>1. PICK only \in deliveries : only.event = event.id
      BY DEF IngestInv, Tables
    <3>2. {row \in deliveries : row.event = event.id} = {only}
      BY <3>1 DEF IngestInv, Tables
    <3>3. QED
      BY <3>2, FS_Singleton
  <2>2. QED
    BY <2>1 DEF EventsAreCarried, IngestInv, Tables
<1>2. QED
  BY <1>1, IngestInductive, PTL

\* All requests accepted under a key were told the same, true, IDs.
THEOREM AcceptedAlwaysAgree == Spec => []AcceptedAgree
<1>1. IngestInv => AcceptedAgree
  <2> SUFFICES ASSUME IngestInv PROVE AcceptedAgree
    OBVIOUS
  <2>1. ASSUME NEW r \in Requests, IsAccepted(r) PROVE Told(r)
    BY DEF IngestInv, RequestInv
  <2>2. ASSUME NEW r \in Requests, NEW s \in Requests,
               IsAccepted(r), IsAccepted(s), SameKeyRequests(r, s)
        PROVE  /\ requests[r].input.body = requests[s].input.body
               /\ requests[r].response.event = requests[s].response.event
               /\ requests[r].response.delivery = requests[s].response.delivery
               /\ ~requests[r].response.duplicate /\ ~requests[s].response.duplicate
                     => r = s
    <3>1. PICK a \in events : /\ a.id = requests[r].response.event
                              /\ SameKey(a, requests[r].input)
                              /\ a.body = requests[r].input.body
      BY <2>1, <2>2 DEF Told
    <3>2. PICK b \in events : /\ b.id = requests[s].response.event
                              /\ SameKey(b, requests[s].input)
                              /\ b.body = requests[s].input.body
      BY <2>1, <2>2 DEF Told
    <3>3. a = b
      BY <2>2, <3>1, <3>2 DEF IngestInv, Tables, SameKey, SameKeyRequests
    <3>4. /\ [id |-> requests[r].response.delivery,
              event |-> requests[r].response.event] \in deliveries
          /\ [id |-> requests[s].response.delivery,
              event |-> requests[s].response.event] \in deliveries
      BY <2>1, <2>2 DEF Told
    <3>5. requests[r].response.delivery = requests[s].response.delivery
      <4>1. [id |-> requests[r].response.delivery, event |-> a.id]
            = [id |-> requests[s].response.delivery, event |-> a.id]
        BY <3>1, <3>2, <3>3, <3>4 DEF IngestInv, Tables
      <4>2. QED
        BY <4>1
    <3>6. ~requests[r].response.duplicate /\ ~requests[s].response.duplicate => r = s
      BY <2>1, <2>2, <3>1, <3>2, <3>3 DEF Told
    <3>7. QED
      BY <3>1, <3>2, <3>3, <3>5, <3>6
  <2>3. QED
    BY <2>1, <2>2 DEF AcceptedAgree, Told
<1>2. QED
  BY <1>1, IngestInductive, PTL

\* A conflict is reported only when another body is committed under the key.
THEOREM ConflictsAlwaysReal == Spec => []ConflictsAreReal
<1>1. IngestInv => ConflictsAreReal
  BY DEF IngestInv, RequestInv, Refused, ConflictsAreReal
<1>2. QED
  BY <1>1, IngestInductive, PTL

\* No event is stored for an endpoint that is disabled.
THEOREM NothingStoredAfterDisable == Spec => NothingAfterDisable
<1>1. IngestInv /\ [Next]_vars =>
          [\A event \in events' \ events : endpoints[event.endpoint] = "enabled"]_vars
  <2> SUFFICES ASSUME IngestInv, Next, NEW event \in events' \ events
               PROVE  endpoints[event.endpoint] = "enabled"
    OBVIOUS
  <2>1. PICK r \in Requests : Acknowledge(r) \/ CommitUnheard(r)
    BY DEF Next, EnqueueEvent, CreateEndpoint, DisableEndpoint, Publish, LockEndpoint,
           UpsertEvent, UpsertDelivery, Fail
  <2>2. requests[r].stage = "stored" /\ event = requests[r].tx.event
    BY <2>1 DEF Acknowledge, CommitUnheard, Commit
  <2>3. RequestInv(r) /\ RequestTyped(r)
    BY TypeByRequest DEF IngestInv
  <2>4. event.endpoint = requests[r].input.endpoint
    BY <2>2, <2>3 DEF RequestInv, TxEvent, HoldsEvent, SameKey
  <2>5. requests[r].tx.endpoint = requests[r].input.endpoint
        /\ requests[r].input \in Inputs
    BY <2>2, <2>3 DEF RequestTyped
  <2>6. requests[r].tx.endpoint # NULL
    BY <2>5, IngestAssumption DEF Inputs
  <2>7. QED
    BY <2>3, <2>4, <2>5, <2>6 DEF RequestInv, TxShape
<1>2. QED
  BY <1>1, IngestInductive, PTL DEF Spec, NothingAfterDisable

-----------------------------------------------------------------------------
(***************************************************************************)
(* Publishing implements the ledger.                                       *)
(***************************************************************************)

\* A table in which keys name one event each, as a book.
LEMMA EntryOfRow ==
    ASSUME NEW table, NEW row \in table, \A a, b \in table : SameKey(a, b) => a = b
    PROVE  EntryIn(table, <<row.endpoint, row.key>>) = [id |-> row.id, body |-> row.body]
<1> DEFINE rows == {a \in table : a.endpoint = row.endpoint /\ a.key = row.key}
           only == CHOOSE a \in rows : TRUE
<1>1. rows = {row}
  BY DEF SameKey
<1>2. only = row
  BY <1>1
<1>3. QED
  BY <1>1, <1>2 DEF EntryIn

LEMMA NoEntry ==
    ASSUME NEW table, NEW slot, \A row \in table : ~(row.endpoint = slot[1] /\ row.key = slot[2])
    PROVE  EntryIn(table, slot) = NULL
<1>1. {row \in table : row.endpoint = slot[1] /\ row.key = slot[2]} = {}
  OBVIOUS
<1>2. QED
  BY <1>1 DEF EntryIn

\* A new event changes the entry of its own key only.
LEMMA OtherEntries ==
    ASSUME NEW table, NEW event, NEW slot, slot # <<event.endpoint, event.key>>,
           slot \in Endpoints \X Keys
    PROVE  EntryIn(table \cup {event}, slot) = EntryIn(table, slot)
<1>1. ~(event.endpoint = slot[1] /\ event.key = slot[2])
  OBVIOUS
<1>2. {row \in table \cup {event} : row.endpoint = slot[1] /\ row.key = slot[2]}
      = {row \in table : row.endpoint = slot[1] /\ row.key = slot[2]}
  BY <1>1
<1>3. QED
  BY <1>2 DEF EntryIn

\* What the ledger sees of the tables and of the requests.
book == [slot \in Endpoints \X Keys |-> EntryIn(events, slot)]
asked == [r \in Requests |-> requests[r].input]
answers == [r \in Requests |-> requests[r].response]

\* The ledger sees nothing of a request that goes on with its transaction.
LEMMA Unseen ==
    ASSUME UNCHANGED <<endpoints, events>>,
           \A s \in Requests : /\ requests'[s].input = requests[s].input
                               /\ requests'[s].response = requests[s].response
    PROVE  UNCHANGED <<endpoints, book, asked, answers>>
BY DEF book, asked, answers

\* A request under way is pending, and what it is told when it ends is its answer.
LEMMA AnswerSeen ==
    ASSUME IngestInv, NEW r \in Requests, NEW response \in Responses,
           requests[r].stage \in {"begun", "locked", "upserted", "stored"},
           Answer(r, response)
    PROVE  /\ asked[r] = requests[r].input /\ asked[r] \in Inputs
           /\ asked[r] # NULL /\ answers[r] = NULL
           /\ asked' = asked
           /\ answers' = [answers EXCEPT ![r] = response]
<1>1. /\ requests \in [Requests -> RequestStates] /\ requests[r].input \in Inputs
      /\ requests[r].response = NULL
  BY TypeByRequest DEF IngestInv, IngestTypeOK, RequestTyped, RequestInv, TxShape
<1>2. /\ requests' = [requests EXCEPT ![r] = requests'[r]]
      /\ requests'[r].input = requests[r].input
      /\ requests'[r].response = response
  BY AnswerShape DEF IngestInv
<1>3. asked[r] \in Inputs /\ asked[r] # NULL /\ answers[r] = NULL
  BY <1>1, IngestAssumption DEF asked, answers
<1>4. \A s \in Requests \ {r} : requests'[s] = requests[s]
  BY <1>1, <1>2
<1>5. asked' = asked
  BY <1>2, <1>4 DEF asked
<1>6. answers' = [answers EXCEPT ![r] = response]
  BY <1>2, <1>4 DEF answers
<1>7. QED
  BY <1>3, <1>5, <1>6 DEF asked

Answering(r) == asked[r] # NULL /\ answers[r] = NULL
SlotFor(r) == <<asked[r].endpoint, asked[r].key>>

\* The statements before the commit: what the ledger sees of them is a refusal,
\* a conflict, a failure or nothing.
LEMMA LockIsRefusal ==
    ASSUME IngestInv, NEW r \in Requests, LockEndpoint(r)
    PROVE  Book!Refuse(r) \/ UNCHANGED <<endpoints, book, asked, answers>>
<1>1. requests[r].stage = "begun" /\ UNCHANGED <<endpoints, events, deliveries>>
  BY DEF LockEndpoint
<1>2. UNCHANGED <<endpoints, book>>
  BY <1>1 DEF book
<1>3. CASE endpoints[requests[r].input.endpoint] = "absent"
  <2>1. Answer(r, [kind |-> "not_found"]) /\ [kind |-> "not_found"] \in Responses
    BY <1>3, ErrorsAreResponses DEF LockEndpoint, Errors
  <2>2. /\ asked[r] = requests[r].input /\ Answering(r) /\ asked' = asked
        /\ answers' = [answers EXCEPT ![r] = [kind |-> "not_found"]]
    BY <1>1, <2>1, AnswerSeen DEF Answering
  <2>3. QED
    BY <1>2, <1>3, <2>2
       DEF Book!Refuse, Book!Pending, Book!Tell, Answering, book, asked, answers
<1>4. CASE endpoints[requests[r].input.endpoint] = "disabled"
  <2>1. /\ Answer(r, [kind |-> "endpoint_disabled"])
        /\ [kind |-> "endpoint_disabled"] \in Responses
    BY <1>4, ErrorsAreResponses DEF LockEndpoint, Errors
  <2>2. /\ asked[r] = requests[r].input /\ Answering(r) /\ asked' = asked
        /\ answers' = [answers EXCEPT ![r] = [kind |-> "endpoint_disabled"]]
    BY <1>1, <2>1, AnswerSeen DEF Answering
  <2>3. QED
    BY <1>2, <1>4, <2>2
       DEF Book!Refuse, Book!Pending, Book!Tell, Answering, book, asked, answers
<1>5. CASE endpoints[requests[r].input.endpoint] = "enabled"
  <2>1. requests' = [requests EXCEPT ![r].stage = "locked",
                                     ![r].tx.endpoint = requests[r].input.endpoint]
    BY <1>5 DEF LockEndpoint
  <2>2. requests \in [Requests -> RequestStates]
    BY DEF IngestInv, IngestTypeOK
  <2>3. \A s \in Requests : /\ requests'[s].input = requests[s].input
                            /\ requests'[s].response = requests[s].response
    BY <2>1, <2>2 DEF RequestStates
  <2>4. QED
    BY <1>1, <2>3, Unseen
<1>6. QED
  <2>1. requests[r].input.endpoint \in Endpoints
    BY <1>1, TypeByRequest DEF IngestInv, RequestTyped, Inputs
  <2>2. endpoints[requests[r].input.endpoint] \in {"absent", "enabled", "disabled"}
    BY <2>1 DEF IngestInv, IngestTypeOK
  <2>3. QED
    BY <1>3, <1>4, <1>5, <2>2

\* A request past its first statement has its endpoint locked, and enabled.
LEMMA LockedIsEnabled ==
    ASSUME IngestInv, NEW r \in Requests,
           requests[r].stage \in {"locked", "upserted", "stored"}
    PROVE  /\ requests[r].input \in Inputs
           /\ endpoints[requests[r].input.endpoint] = "enabled"
<1>1. /\ requests[r].tx.endpoint = requests[r].input.endpoint
      /\ requests[r].input \in Inputs
  BY TypeByRequest DEF IngestInv, RequestTyped
<1>2. requests[r].tx.endpoint # NULL
  BY <1>1, IngestAssumption DEF Inputs
<1>3. QED
  BY <1>1, <1>2 DEF IngestInv, RequestInv, TxShape

LEMMA UpsertIsConflict ==
    ASSUME IngestInv, NEW r \in Requests, UpsertEvent(r)
    PROVE  Book!Conflict(r) \/ UNCHANGED <<endpoints, book, asked, answers>>
<1>1. requests[r].stage = "locked" /\ UNCHANGED <<endpoints, events, deliveries>>
  BY DEF UpsertEvent
<1>2. CASE payloadMatches(r, EventFor(r))
  <2>1. requests' = [requests EXCEPT ![r].stage = "upserted", ![r].tx.event = EventFor(r)]
    BY <1>2 DEF UpsertEvent
  <2>2. requests \in [Requests -> RequestStates]
    BY DEF IngestInv, IngestTypeOK
  <2>3. \A s \in Requests : /\ requests'[s].input = requests[s].input
                            /\ requests'[s].response = requests[s].response
    BY <2>1, <2>2 DEF RequestStates
  <2>4. QED
    BY <1>1, <2>3, Unseen
<1>3. CASE ~payloadMatches(r, EventFor(r))
  <2> DEFINE input == requests[r].input
             refusal == [kind |-> "idempotency_conflict"]
  <2>1. Answer(r, refusal) /\ refusal \in Responses
    BY <1>3, ErrorsAreResponses DEF UpsertEvent, Errors
  <2>2. /\ asked[r] = input /\ Answering(r) /\ asked' = asked
        /\ answers' = [answers EXCEPT ![r] = refusal]
    BY <1>1, <2>1, AnswerSeen DEF Answering
  <2>3. input \in Inputs /\ endpoints[input.endpoint] = "enabled"
    BY <1>1, LockedIsEnabled
  <2>4. PICK row \in events : SameKey(row, input) /\ row.body # input.body
    BY <1>3 DEF payloadMatches, EventFor
  <2>5. EntryIn(events, <<row.endpoint, row.key>>) = [id |-> row.id, body |-> row.body]
    BY EntryOfRow DEF IngestInv, Tables
  <2>6. <<input.endpoint, input.key>> \in Endpoints \X Keys
        /\ <<row.endpoint, row.key>> = <<input.endpoint, input.key>>
    BY <2>3, <2>4 DEF Inputs, SameKey
  <2>7. book[SlotFor(r)] = [id |-> row.id, body |-> row.body]
    BY <2>2, <2>5, <2>6 DEF SlotFor, book
  <2>8. [id |-> row.id, body |-> row.body] # NULL
    <3>1. row \in EventRows
      BY DEF IngestInv, IngestTypeOK
    <3>2. QED
      BY <3>1, IngestAssumption DEF EventRows
  <2>9. QED
    BY <1>1, <2>2, <2>3, <2>4, <2>7, <2>8
       DEF Book!Conflict, Book!Pending, Book!Tell, Book!SlotOf, Answering, SlotFor,
           book, asked, answers
<1>4. QED
  BY <1>2, <1>3

\* The commit is the moment at which a request takes effect.
LEMMA CommitIsEntry ==
    ASSUME IngestInv, NEW r \in Requests, Acknowledge(r) \/ CommitUnheard(r)
    PROVE  Book!Enter(r)
<1> DEFINE input == requests[r].input
           tx == requests[r].tx
           slot == <<input.endpoint, input.key>>
           made == [id |-> tx.event.id, body |-> input.body]
           heard == Accepted(tx.event.id, tx.delivery.id, tx.event.id # r)
           unheard == [kind |-> "internal_error"]
<1>1. /\ requests[r].stage = "stored" /\ UNCHANGED endpoints
      /\ events' = events \cup {tx.event}
      /\ Answer(r, heard) \/ Answer(r, unheard)
  BY DEF Acknowledge, CommitUnheard, Commit
<1>2. RequestInv(r) /\ RequestTyped(r) /\ Tables
  BY TypeByRequest DEF IngestInv
<1>3. /\ tx.event \in EventRows /\ tx.delivery \in DeliveryRows
      /\ SameKey(tx.event, input) /\ tx.event.body = input.body
      /\ \/ tx.event \in events
         \/ tx.event.id = r /\ \A row \in events : ~SameKey(row, tx.event)
  BY <1>1, <1>2 DEF RequestTyped, RequestInv, TxEvent, HoldsEvent
<1>4. tx.delivery.id = tx.event.id
  BY <1>1, <1>2, <1>3 DEF RequestInv, TxDelivery, Tables
<1>5. input \in Inputs /\ endpoints[input.endpoint] = "enabled"
  BY <1>1, LockedIsEnabled
<1>6. slot \in Endpoints \X Keys /\ slot = <<tx.event.endpoint, tx.event.key>>
  BY <1>3, <1>5 DEF Inputs, SameKey
<1>7. made \in [id : Requests, body : Bodies] /\ made # NULL
  BY <1>3, <1>5, IngestAssumption DEF EventRows, Inputs
<1>8. heard \in Responses /\ unheard \in Responses
  BY <1>3, ErrorsAreResponses DEF EventRows, DeliveryRows, Accepted, Responses, Errors
<1>9. /\ asked[r] = input /\ Answering(r) /\ asked' = asked
      /\ answers' = [answers EXCEPT ![r] = heard] \/ answers' = [answers EXCEPT ![r] = unheard]
  BY <1>1, <1>8, AnswerSeen DEF Answering
<1>10. /\ book[slot] = NULL => tx.event.id = r
       /\ book[slot] # NULL => book[slot] = made
  <2>1. CASE tx.event \in events
    <3>1. EntryIn(events, slot) = made
      BY <1>2, <1>3, <1>6, <2>1, EntryOfRow DEF Tables
    <3>2. QED
      BY <1>6, <1>7, <3>1 DEF book
  <2>2. CASE tx.event.id = r /\ \A row \in events : ~SameKey(row, tx.event)
    <3>1. EntryIn(events, slot) = NULL
      BY <1>6, <2>2, NoEntry DEF SameKey
    <3>2. QED
      BY <1>6, <2>2, <3>1 DEF book
  <2>3. QED
    BY <1>3, <2>1, <2>2
<1>11. book' = [book EXCEPT ![slot] = made]
  <2>1. Tables'
    BY IngestStep DEF IngestInv, Next, EnqueueEvent
  <2>2. EntryIn(events', slot) = made
    <3>1. tx.event \in events'
      BY <1>1
    <3>2. \A a, b \in events' : SameKey(a, b) => a = b
      BY <2>1 DEF Tables, SameKey
    <3>3. QED
      BY <1>3, <1>6, <3>1, <3>2, EntryOfRow
  <2>3. \A other \in (Endpoints \X Keys) \ {slot} :
            EntryIn(events', other) = EntryIn(events, other)
    BY <1>1, <1>6, OtherEntries
  <2> HIDE DEF slot, made
  <2>4. QED
    BY <2>2, <2>3, <1>6 DEF book
<1>12. heard = [kind |-> "accepted", event |-> made.id, delivery |-> made.id,
                duplicate |-> made.id # r]
  BY <1>4 DEF Accepted
<1>13. SlotFor(r) = slot
  BY <1>9 DEF SlotFor
<1> DEFINE entry == IF book[SlotFor(r)] = NULL THEN [id |-> r, body |-> asked[r].body]
                    ELSE book[SlotFor(r)]
<1>14. entry = made
  BY <1>9, <1>10, <1>13
<1>15. /\ entry.body = asked[r].body
       /\ book' = [book EXCEPT ![SlotFor(r)] = entry]
       /\ endpoints[asked[r].endpoint] = "enabled"
       /\ \/ answers' = [answers EXCEPT
                ![r] = [kind |-> "accepted", event |-> entry.id, delivery |-> entry.id,
                        duplicate |-> entry.id # r]]
          \/ answers' = [answers EXCEPT ![r] = [kind |-> "internal_error"]]
  <2>1. entry.body = asked[r].body
    BY <1>9, <1>14
  <2> HIDE DEF entry, made, heard, slot
  <2>2. QED
    BY <1>5, <1>9, <1>11, <1>12, <1>13, <1>14, <2>1
<1>16. QED
  BY <1>1, <1>9, <1>15
     DEF Book!Enter, Book!Pending, Book!Tell, Book!SlotOf, Answering, SlotFor,
         book, asked, answers

LEMMA FailIsLoss ==
    ASSUME IngestInv, NEW r \in Requests, Fail(r)
    PROVE  Book!Lose(r)
<1>1. /\ Answer(r, [kind |-> "internal_error"]) /\ UNCHANGED <<endpoints, events>>
      /\ requests[r].stage \in {"begun", "locked", "upserted", "stored"}
  BY DEF Fail
<1>2. [kind |-> "internal_error"] \in Responses
  BY ErrorsAreResponses DEF Errors
<1>3. /\ Answering(r) /\ asked' = asked
      /\ answers' = [answers EXCEPT ![r] = [kind |-> "internal_error"]]
  BY <1>1, <1>2, AnswerSeen DEF Answering
<1>4. QED
  BY <1>1, <1>3 DEF Book!Lose, Book!Pending, Book!Tell, Answering, book, asked, answers

\* Publishing is linearizable: each request is answered as if it had read and
\* written the ledger in one moment of its own, its commit.
THEOREM IngestImplementsLedger == Spec => ImplementsLedger
<1>1. Init => Book!Init
  <2> SUFFICES ASSUME Init PROVE Book!Init
    OBVIOUS
  <2>1. \A slot : EntryIn(events, slot) = NULL
    BY NoEntry DEF Init
  <2>2. QED
    BY <2>1 DEF Init, New, Book!Init, Book!Slots
<1>2. IngestInv /\ [Next]_vars => [Book!Next]_(Book!ledgerVars)
  <2> SUFFICES ASSUME IngestInv, [Next]_vars
               PROVE  Book!Next \/ UNCHANGED <<endpoints, book, asked, answers>>
    BY DEF Book!ledgerVars, book, asked, answers
  <2>1. requests \in [Requests -> RequestStates]
    BY DEF IngestInv, IngestTypeOK
  <2>2. ASSUME NEW e \in Endpoints, CreateEndpoint(e) \/ DisableEndpoint(e)
        PROVE  Book!Next
    BY <2>2 DEF CreateEndpoint, DisableEndpoint, Book!Next, Book!CreateEndpoint,
                Book!DisableEndpoint
  <2>3. ASSUME NEW r \in Requests, NEW input \in Inputs, Publish(r, input)
        PROVE  Book!Next
    <3>1. /\ requests[r].stage = "new"
          /\ requests' = [requests EXCEPT ![r].stage = "begun", ![r].input = input]
          /\ UNCHANGED <<endpoints, events, deliveries>>
      BY <2>3 DEF Publish
    <3>2. asked' = [asked EXCEPT ![r] = input] /\ answers' = answers
      BY <2>1, <3>1 DEF asked, answers, RequestStates
    <3>3. asked[r] = NULL
      BY <3>1 DEF asked, IngestInv, RequestInv, TxShape
    <3>4. Book!Ask(r, input)
      BY <3>1, <3>2, <3>3 DEF Book!Ask, asked, answers
    <3>5. QED
      BY <3>4 DEF Book!Next, Inputs
  <2>4. ASSUME NEW r \in Requests, EnqueueEvent(r)
        PROVE  Book!Next \/ UNCHANGED <<endpoints, book, asked, answers>>
    <3>1. CASE LockEndpoint(r)
      BY <3>1, LockIsRefusal DEF Book!Next
    <3>2. CASE UpsertEvent(r)
      BY <3>2, UpsertIsConflict DEF Book!Next
    <3>3. CASE UpsertDelivery(r)
      <4>1. \A s \in Requests : /\ requests'[s].input = requests[s].input
                                /\ requests'[s].response = requests[s].response
        BY <2>1, <3>3 DEF UpsertDelivery, RequestStates
      <4>2. QED
        BY <3>3, <4>1, Unseen DEF UpsertDelivery
    <3>4. CASE Acknowledge(r) \/ CommitUnheard(r)
      BY <3>4, CommitIsEntry DEF Book!Next
    <3>5. CASE Fail(r)
      BY <3>5, FailIsLoss DEF Book!Next
    <3>6. QED
      BY <2>4, <3>1, <3>2, <3>3, <3>4, <3>5 DEF EnqueueEvent
  <2>5. CASE UNCHANGED vars
    BY <2>5 DEF vars, book, asked, answers
  <2>6. QED
    BY <2>2, <2>3, <2>4, <2>5 DEF Next
<1>3. QED
  BY <1>1, <1>2, IngestInductive, PTL DEF Spec, ImplementsLedger, Book!Spec
=============================================================================
