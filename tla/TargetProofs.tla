---------------------------- MODULE TargetProofs ----------------------------
(***************************************************************************)
(* Proofs about module Target, for any settings, master keys, inputs and   *)
(* answers of the DNS.  The invariant says of an endpoint what the process *)
(* that accepted it knew of it, and of an address that a request is under  *)
(* way to, or that an idle connection leads to, that the running process   *)
(* has checked it.                                                         *)
(***************************************************************************)
EXTENDS Target, TLAPS

Checked(a) == a \in Addresses /\ addressAllowed(a, process.allowPrivate)

EndpointRows ==
    [scheme : {"https", "http"}, host : Addresses \cup Names, timeout : 1 .. 30 * Second,
     sealed : MasterKeys \X Endpoints, by : Processes]

Calls ==
    [stage : {"none", "sending", "checked", "connected", "returned"},
     endpoint : Endpoints \cup {NULL}, addresses : SUBSET Addresses,
     result : {"discarded", "unresolved", "blocked", "answered", "failed", NULL}]

TargetTypes ==
    /\ process \in Processes
    /\ endpoints \in [Endpoints -> EndpointRows \cup {NULL}]
    /\ dns \in [Names -> SUBSET Addresses]
    /\ call \in Calls

\* What the process that accepted an endpoint has made sure of.
EndpointInv(e) ==
    LET endpoint == endpoints[e]
    IN  endpoint # NULL =>
            /\ endpoint \in EndpointRows
            /\ endpoint.sealed = Encrypt(endpoint.by.masterKey, e)
            /\ MayUse(endpoint.scheme, endpoint.by)
            /\ endpoint.by.allowPrivate \/ ~isPrivateHost(endpoint.host)

\* Where a request goes has been checked, and a call that is not over has no
\* result.
CallInv ==
    /\ call.stage # "none" => call.endpoint \in Endpoints /\ endpoints[call.endpoint] # NULL
    /\ call.stage \in {"checked", "connected"} => \A a \in call.addresses : Checked(a)
    /\ call.stage # "returned" => call.result = NULL

IdleInv == \A connection \in idle : Checked(connection[2])

TargetInv ==
    /\ TargetTypes
    /\ \A e \in Endpoints : EndpointInv(e)
    /\ CallInv /\ IdleInv
    /\ DiscardsExplained /\ BlocksExplained

-----------------------------------------------------------------------------
\* What Load has let start.
LEMMA ProcessesTyped ==
    ASSUME NEW p \in Processes
    PROVE  /\ p.lease \in Int /\ p.finishTimeout \in Int
           /\ p.lease > 30 * Second + p.finishTimeout
           /\ p.allowHTTP \in BOOLEAN /\ p.allowPrivate \in BOOLEAN
           /\ p.masterKey \in MasterKeys
<1>1. PICK c \in Settings, key \in MasterKeys :
          /\ Starts(c)
          /\ p = [allowHTTP |-> c.allowHTTP, allowPrivate |-> c.allowPrivate,
                  lease |-> c.lease, finishTimeout |-> c.finishTimeout, masterKey |-> key]
  BY DEF Processes
<1>2. c.lease > 30 * Second + c.finishTimeout
  BY <1>1 DEF Starts, Load
<1>3. QED
  BY <1>1, <1>2, TargetAssumption

\* A checked address is one a request may go to.
LEMMA CheckedIsAllowed ==
    ASSUME NEW a, Checked(a)
    PROVE  \/ a = "public"
           \/ process.allowPrivate /\ a \in {"private", "loopback", "linklocal", "reserved"}
BY DEF Checked, addressAllowed, Addresses, GlobalUnicast, blockedPrefixes

\* With the tables and the process as they were, endpoints stay as they are.
LEMMA EndpointsStay ==
    ASSUME TargetInv, UNCHANGED endpoints
    PROVE  \A e \in Endpoints : EndpointInv(e)'
BY DEF TargetInv, EndpointInv

LEMMA CreateKeeps ==
    ASSUME TargetInv, NEW e \in Endpoints, NEW input \in Inputs, Create(e, input)
    PROVE  TargetInv'
<1> DEFINE row == [scheme |-> input.target.scheme, host |-> input.target.host,
                   timeout |-> OrDefault(input.timeout, 5 * Second),
                   sealed |-> Encrypt(process.masterKey, e), by |-> process]
<1>1. /\ endpoints[e] = NULL /\ endpoints' = [endpoints EXCEPT ![e] = row]
      /\ UNCHANGED <<process, dns, idle, call>>
      /\ createEndpoint(input) /\ normalizeTarget(input.target, process)
      /\ OrDefault(input.timeout, 5 * Second) \in Second \div 10 .. 30 * Second
  BY DEF Create, ValidInput
<1>2. OrDefault(input.timeout, 5 * Second) \in 1 .. 30 * Second
  <2>1. input.timeout \in 0 .. 30 * Second
    BY <1>1 DEF createEndpoint
  <2>2. Second \in Nat /\ Second > 0
    BY DurationAssumption
  <2>3. QED
    BY <2>1, <2>2 DEF OrDefault
<1>3. process \in Processes /\ process.masterKey \in MasterKeys
  BY ProcessesTyped DEF TargetInv, TargetTypes
<1>4. input.target.scheme \in {"https", "http"} /\ MayUse(input.target.scheme, process)
      /\ (process.allowPrivate \/ ~isPrivateHost(input.target.host))
  BY <1>1 DEF normalizeTarget, MayUse
<1>5. row \in EndpointRows
  BY <1>2, <1>3, <1>4, TargetAssumption DEF EndpointRows, Encrypt
<1>6. endpoints' \in [Endpoints -> EndpointRows \cup {NULL}] /\ endpoints'[e] = row
      /\ \A f \in Endpoints : f # e => endpoints'[f] = endpoints[f]
  <2> HIDE DEF row
  <2>1. QED
    BY <1>1, <1>5 DEF TargetInv, TargetTypes
<1>7. EndpointInv(e)'
  <2>1. row.sealed = Encrypt(row.by.masterKey, e) /\ MayUse(row.scheme, row.by)
        /\ (row.by.allowPrivate \/ ~isPrivateHost(row.host))
    BY <1>4
  <2> HIDE DEF row
  <2>2. QED
    BY <1>5, <1>6, <2>1 DEF EndpointInv
<1>8. \A f \in Endpoints : EndpointInv(f)'
  <2>1. ASSUME NEW f \in Endpoints, f # e PROVE EndpointInv(f)'
    BY <1>6, <2>1 DEF TargetInv, EndpointInv
  <2>2. QED
    BY <1>7, <2>1
<1>9. call.stage # "none" => call.endpoint \in Endpoints /\ call.endpoint # e
  BY <1>1 DEF TargetInv, CallInv
<1>10. call.stage # "none" => endpoints'[call.endpoint] = endpoints[call.endpoint]
  BY <1>6, <1>9
<1>11. CallInv' /\ IdleInv' /\ TargetTypes'
  BY <1>1, <1>6, <1>10 DEF TargetInv, TargetTypes, CallInv, IdleInv, Checked
<1>12. DiscardsExplained' /\ BlocksExplained'
  <2>1. CASE call.stage = "none"
    <3>1. call'.result = NULL
      BY <1>1, <2>1 DEF TargetInv, CallInv
    <3>2. QED
      BY <3>1, TargetAssumption DEF DiscardsExplained, BlocksExplained
  <2>2. CASE call.stage # "none"
    BY <1>1, <1>10, <2>2 DEF TargetInv, DiscardsExplained, BlocksExplained
  <2>3. QED
    BY <2>1, <2>2
<1>13. QED
  BY <1>8, <1>11, <1>12 DEF TargetInv

\* A step of a call leaves the rest alone: it is enough to look at the call, at
\* the idle connections, and at a result it may have.
LEMMA CallStepKeeps ==
    ASSUME TargetInv, UNCHANGED <<process, endpoints, dns>>,
           call' \in Calls, CallInv', IdleInv',
           call'.result = "discarded" => DiscardsExplained',
           call'.result = "blocked" => BlocksExplained'
    PROVE  TargetInv'
<1>1. TargetTypes' /\ \A e \in Endpoints : EndpointInv(e)'
  BY EndpointsStay DEF TargetInv, TargetTypes
<1>2. DiscardsExplained' /\ BlocksExplained'
  BY DEF DiscardsExplained, BlocksExplained
<1>3. QED
  BY <1>1, <1>2 DEF TargetInv

\* A call that is over is well formed whatever its result.
LEMMA ResultForm ==
    ASSUME NEW e \in Endpoints, endpoints[e] # NULL, UNCHANGED endpoints,
           NEW result \in {"discarded", "unresolved", "blocked", "answered", "failed"},
           Result(e, result)
    PROVE  /\ call' \in Calls /\ CallInv'
           /\ call'.endpoint = e /\ call'.result = result
BY DEF Result, NoCall, Calls, CallInv

LEMMA IdleStays ==
    ASSUME TargetInv, UNCHANGED process, idle' \subseteq idle
    PROVE  IdleInv'
BY DEF TargetInv, IdleInv, Checked

LEMMA DeliverKeeps ==
    ASSUME TargetInv, NEW e \in Endpoints, Deliver(e)
    PROVE  TargetInv'
<1>1. /\ endpoints[e] # NULL /\ UNCHANGED <<process, endpoints, dns, idle>>
      /\ IdleInv'
  BY IdleStays DEF Deliver
<1>2. CASE Opens(e) /\ endpoints[e].timeout > 0 /\ MayUse(endpoints[e].scheme, process)
  <2>1. call' = [NoCall EXCEPT !.stage = "sending", !.endpoint = e]
    BY <1>2 DEF Deliver
  <2>2. call' \in Calls /\ call'.result = NULL /\ CallInv'
    BY <1>1, <2>1 DEF NoCall, Calls, CallInv
  <2>3. QED
    BY <1>1, <2>2, CallStepKeeps, TargetAssumption
<1>3. CASE ~(Opens(e) /\ endpoints[e].timeout > 0 /\ MayUse(endpoints[e].scheme, process))
  <2>1. Result(e, "discarded")
    BY <1>3 DEF Deliver
  <2>2. call' \in Calls /\ CallInv' /\ call'.endpoint = e /\ call'.result = "discarded"
    BY <1>1, <2>1, ResultForm
  <2>3. EndpointInv(e)
    BY DEF TargetInv
  <2>4. /\ endpoints[e].timeout > 0 /\ endpoints[e].scheme \in {"https", "http"}
        /\ endpoints[e].sealed = Encrypt(endpoints[e].by.masterKey, e)
        /\ MayUse(endpoints[e].scheme, endpoints[e].by)
    <3>1. endpoints[e] \in EndpointRows
      BY <1>1, <2>3 DEF EndpointInv
    <3>2. endpoints[e].timeout \in 1 .. 30 * Second /\ endpoints[e].scheme \in {"https", "http"}
      BY <3>1 DEF EndpointRows
    <3>3. endpoints[e].timeout > 0
      BY <3>2, DurationAssumption
    <3>4. QED
      BY <1>1, <2>3, <3>2, <3>3 DEF EndpointInv
  <2>5. \/ endpoints[e].by.masterKey # process.masterKey
        \/ endpoints[e].by.allowHTTP /\ ~process.allowHTTP
    <3>1. CASE ~Opens(e)
      BY <2>4, <3>1 DEF Opens, Encrypt
    <3>2. CASE ~MayUse(endpoints[e].scheme, process)
      BY <2>4, <3>2 DEF MayUse
    <3>3. QED
      BY <1>3, <2>4, <3>1, <3>2
  <2>6. DiscardsExplained'
    BY <1>1, <2>2, <2>5 DEF DiscardsExplained
  <2>7. QED
    BY <1>1, <2>2, <2>6, CallStepKeeps
<1>4. QED
  BY <1>2, <1>3

\* A call under way is for an endpoint that exists, and has no result.
LEMMA CallUnderWay ==
    ASSUME TargetInv, call.stage \in {"sending", "checked", "connected"}
    PROVE  /\ call \in Calls /\ call.result = NULL
           /\ call.endpoint \in Endpoints /\ endpoints[call.endpoint] # NULL
           /\ endpoints[call.endpoint] \in EndpointRows
           /\ EndpointInv(call.endpoint)
BY DEF TargetInv, TargetTypes, CallInv, EndpointInv

\* A request goes on to addresses that are checked.
LEMMA GoesOn ==
    ASSUME TargetInv, UNCHANGED <<process, endpoints, dns>>, IdleInv',
           call.stage \in {"sending", "checked"},
           NEW stage \in {"checked", "connected"}, NEW S, \A a \in S : Checked(a),
           call' = [call EXCEPT !.stage = stage, !.addresses = S]
    PROVE  TargetInv'
<1>1. S \subseteq Addresses /\ \A a \in S : Checked(a)'
  BY DEF Checked
<1>2. /\ call' \in Calls /\ call'.result = NULL /\ call'.endpoint = call.endpoint
      /\ call'.stage = stage /\ call'.addresses = S
  BY <1>1, CallUnderWay DEF Calls
<1>3. CallInv'
  BY <1>1, <1>2, CallUnderWay DEF CallInv
<1>4. QED
  BY <1>2, <1>3, CallStepKeeps, TargetAssumption

LEMMA ReuseKeeps ==
    ASSUME TargetInv, NEW a \in Addresses, Reuse(a)
    PROVE  TargetInv'
<1>1. Checked(a)
  <2>1. <<Origin, a>> \in idle /\ IdleInv
    BY DEF Reuse, TargetInv
  <2>2. Checked(<<Origin, a>>[2])
    BY <2>1 DEF IdleInv
  <2>3. QED
    BY <2>2
<1>2. IdleInv'
  BY IdleStays DEF Reuse
<1>3. PICK S : S = {a}
  OBVIOUS
<1>4. \A b \in S : Checked(b)
  BY <1>1, <1>3
<1>5. /\ UNCHANGED <<process, endpoints, dns>> /\ call.stage \in {"sending", "checked"}
      /\ call' = [call EXCEPT !.stage = "connected", !.addresses = S]
  BY <1>3 DEF Reuse
<1>6. QED
  BY <1>2, <1>4, <1>5, GoesOn

\* A host whose address the dialer refuses, though its own check let it pass.
LEMMA RefusedHost ==
    ASSUME NEW by, NEW here, NEW host \in Addresses,
           by \in BOOLEAN, here \in BOOLEAN,
           by \/ ~isPrivateHost(host), ~addressAllowed(host, here)
    PROVE  \/ by /\ ~here
           \/ host = "reserved"
           \/ by /\ host \in {"unspecified", "multicast"}
BY DEF isPrivateHost, addressAllowed, Addresses, GlobalUnicast, blockedPrefixes

LEMMA CheckAddressesKeeps ==
    ASSUME TargetInv, CheckAddresses
    PROVE  TargetInv'
<1>1. /\ call.stage = "sending" /\ UNCHANGED <<process, endpoints, dns, idle>>
      /\ IdleInv'
  BY IdleStays DEF CheckAddresses
<1>2. /\ call.endpoint \in Endpoints /\ endpoints[call.endpoint] # NULL
      /\ endpoints[call.endpoint] \in EndpointRows /\ EndpointInv(call.endpoint)
  BY <1>1, CallUnderWay
<1>3. Host \in Addresses \cup Names
  BY <1>2 DEF Host, EndpointRows
<1>4. resolve(Host) \subseteq Addresses
  BY <1>3 DEF resolve, TargetInv, TargetTypes
<1>5. CASE resolve(Host) = {}
  <2>1. Result(call.endpoint, "unresolved")
    BY <1>5 DEF CheckAddresses
  <2>2. call' \in Calls /\ CallInv' /\ call'.result = "unresolved"
    BY <1>1, <1>2, <2>1, ResultForm
  <2>3. QED
    BY <1>1, <2>2, CallStepKeeps
<1>6. CASE /\ resolve(Host) # {}
           /\ \A a \in resolve(Host) : addressAllowed(a, process.allowPrivate)
  <2>1. call' = [call EXCEPT !.stage = "checked", !.addresses = resolve(Host)]
    BY <1>6 DEF CheckAddresses
  <2>2. \A a \in resolve(Host) : Checked(a)
    BY <1>4, <1>6 DEF Checked
  <2>3. QED
    BY <1>1, <2>1, <2>2, GoesOn
<1>7. CASE /\ resolve(Host) # {}
           /\ ~\A a \in resolve(Host) : addressAllowed(a, process.allowPrivate)
  <2>1. Result(call.endpoint, "blocked")
    BY <1>7 DEF CheckAddresses
  <2>2. /\ call' \in Calls /\ CallInv' /\ call'.result = "blocked"
        /\ call'.endpoint = call.endpoint
    BY <1>1, <1>2, <2>1, ResultForm
  <2>3. ASSUME Host \notin Names
        PROVE  \/ endpoints[call.endpoint].by.allowPrivate /\ ~process.allowPrivate
               \/ Host = "reserved"
               \/ /\ endpoints[call.endpoint].by.allowPrivate
                  /\ Host \in {"unspecified", "multicast"}
    <3>1. Host \in Addresses /\ ~addressAllowed(Host, process.allowPrivate)
      BY <1>3, <1>7, <2>3 DEF resolve
    <3>2. endpoints[call.endpoint].by.allowPrivate \/ ~isPrivateHost(Host)
      BY <1>2 DEF EndpointInv, Host
    <3>3. endpoints[call.endpoint].by \in Processes /\ process \in Processes
      BY <1>2 DEF EndpointRows, TargetInv, TargetTypes
    <3>4. endpoints[call.endpoint].by.allowPrivate \in BOOLEAN
          /\ process.allowPrivate \in BOOLEAN
      BY <3>3, ProcessesTyped
    <3>5. QED
      BY <3>1, <3>2, <3>4, RefusedHost
  <2>4. BlocksExplained'
    BY <1>1, <2>2, <2>3 DEF BlocksExplained, Host
  <2>5. QED
    BY <1>1, <2>2, <2>4, CallStepKeeps
<1>8. QED
  BY <1>5, <1>6, <1>7

LEMMA DialKeeps ==
    ASSUME TargetInv, Dial
    PROVE  TargetInv'
<1>1. PICK a \in call.addresses :
          call' = [call EXCEPT !.stage = "connected", !.addresses = {a}]
  BY DEF Dial
<1>2. \A b \in {a} : Checked(b)
  BY <1>1 DEF Dial, TargetInv, CallInv
<1>3. IdleInv'
  BY IdleStays DEF Dial
<1>4. QED
  BY <1>1, <1>2, <1>3, GoesOn DEF Dial

LEMMA AnswerKeeps ==
    ASSUME TargetInv, Answer
    PROVE  TargetInv'
<1>1. /\ call.stage = "connected" /\ UNCHANGED <<process, endpoints, dns>>
      /\ Result(call.endpoint, "answered")
      /\ idle' \subseteq idle \cup {<<Origin, a>> : a \in call.addresses}
  BY DEF Answer
<1>2. call' \in Calls /\ CallInv' /\ call'.result = "answered"
  BY <1>1, CallUnderWay, ResultForm
<1>3. IdleInv'
  <2>1. ASSUME NEW connection \in idle' PROVE Checked(connection[2])
    <3>1. CASE connection \in idle
      BY <3>1 DEF TargetInv, IdleInv
    <3>2. CASE connection \in {<<Origin, a>> : a \in call.addresses}
      BY <1>1, <3>2 DEF TargetInv, CallInv
    <3>3. QED
      BY <1>1, <3>1, <3>2
  <2>2. QED
    BY <1>1, <2>1 DEF IdleInv, Checked
<1>4. QED
  BY <1>1, <1>2, <1>3, CallStepKeeps

LEMMA SendFailsKeeps ==
    ASSUME TargetInv, SendFails
    PROVE  TargetInv'
<1>1. UNCHANGED <<process, endpoints, dns, idle>> /\ Result(call.endpoint, "failed")
  BY DEF SendFails
<1>2. call' \in Calls /\ CallInv' /\ call'.result = "failed"
  BY <1>1, CallUnderWay, ResultForm DEF SendFails
<1>3. QED
  BY <1>1, <1>2, IdleStays, CallStepKeeps

\* No call and no idle connection outlives its process.
LEMMA FreshProcess ==
    ASSUME call = NoCall, idle = {}
    PROVE  call \in Calls /\ CallInv /\ IdleInv /\ DiscardsExplained /\ BlocksExplained
<1>1. call \in Calls /\ call.stage = "none" /\ call.result = NULL
  BY DEF NoCall, Calls
<1>2. QED
  BY <1>1, TargetAssumption DEF CallInv, IdleInv, DiscardsExplained, BlocksExplained

LEMMA RestartKeeps ==
    ASSUME TargetInv, Restart
    PROVE  TargetInv'
<1>1. (call \in Calls /\ CallInv /\ IdleInv /\ DiscardsExplained /\ BlocksExplained)'
  <2>1. call' = NoCall /\ idle' = {}
    BY DEF Restart
  <2>2. call' \in Calls /\ call'.stage = "none" /\ call'.result = NULL
    BY <2>1 DEF NoCall, Calls
  <2>3. QED
    BY <2>1, <2>2, TargetAssumption DEF CallInv, IdleInv, DiscardsExplained, BlocksExplained
<1>2. \A e \in Endpoints : EndpointInv(e)'
  BY EndpointsStay DEF Restart
<1>3. QED
  BY <1>1, <1>2 DEF TargetInv, TargetTypes, Restart

LEMMA ChangeDNSKeeps ==
    ASSUME TargetInv, NEW name \in Names, NEW answer \in Lookups, ChangeDNS(name, answer)
    PROVE  TargetInv'
<1>1. dns' \in [Names -> SUBSET Addresses] /\ UNCHANGED <<process, endpoints, idle, call>>
  BY TargetAssumption DEF ChangeDNS, TargetInv, TargetTypes
<1>2. QED
  BY <1>1, EndpointsStay DEF TargetInv, TargetTypes, CallInv, IdleInv, Checked,
      DiscardsExplained, BlocksExplained

LEMMA CloseIdleKeeps ==
    ASSUME TargetInv, CloseIdle
    PROVE  TargetInv'
<1>1. UNCHANGED <<process, endpoints, dns, call>> /\ idle' \subseteq idle
  BY DEF CloseIdle
<1>2. IdleInv'
  BY <1>1, IdleStays
<1>3. QED
  BY <1>1, <1>2, EndpointsStay DEF TargetInv, TargetTypes, CallInv, Checked,
      DiscardsExplained, BlocksExplained

-----------------------------------------------------------------------------
\* The invariant is inductive: what Create let in and what DialContext checked
\* stays true through restarts, changes of the DNS and reused connections.
THEOREM TargetInductive == Spec => []TargetInv
<1>1. Init => TargetInv
  <2> SUFFICES ASSUME Init PROVE TargetInv
    OBVIOUS
  <2>1. call \in Calls /\ CallInv /\ IdleInv /\ DiscardsExplained /\ BlocksExplained
    BY FreshProcess DEF Init
  <2>2. TargetTypes /\ \A e \in Endpoints : EndpointInv(e)
    BY <2>1, TargetAssumption DEF Init, TargetTypes, EndpointInv
  <2>3. QED
    BY <2>1, <2>2 DEF TargetInv
<1>2. TargetInv /\ [Next]_vars => TargetInv'
  <2> SUFFICES ASSUME TargetInv, [Next]_vars PROVE TargetInv'
    OBVIOUS
  <2>1. CASE \E e \in Endpoints, input \in Inputs : Create(e, input)
    BY <2>1, CreateKeeps
  <2>2. CASE \E e \in Endpoints : Deliver(e)
    BY <2>2, DeliverKeeps
  <2>3. CASE \E a \in Addresses : Reuse(a)
    BY <2>3, ReuseKeeps
  <2>4. CASE CheckAddresses
    BY <2>4, CheckAddressesKeeps
  <2>5. CASE Dial
    BY <2>5, DialKeeps
  <2>6. CASE Answer
    BY <2>6, AnswerKeeps
  <2>7. CASE SendFails
    BY <2>7, SendFailsKeeps
  <2>8. CASE Restart
    BY <2>8, RestartKeeps
  <2>9. CASE CloseIdle
    BY <2>9, CloseIdleKeeps
  <2>10. CASE \E name \in Names, answer \in Lookups : ChangeDNS(name, answer)
    BY <2>10, ChangeDNSKeeps
  <2>11. CASE UNCHANGED vars
    BY <2>11, EndpointsStay DEF vars, TargetInv, TargetTypes, CallInv, IdleInv, Checked,
        DiscardsExplained, BlocksExplained
  <2>12. QED
    BY <2>1, <2>2, <2>3, <2>4, <2>5, <2>6, <2>7, <2>8, <2>9, <2>10, <2>11 DEF Next
<1>3. QED
  BY <1>1, <1>2, PTL DEF Spec

\* However the DNS answers between check, dial and the next request, no request
\* goes over a connection to an address the dialer would block.
THEOREM ConnectionsAreAllowed == Spec => []NoBlockedConnection
<1>1. TargetInv => NoBlockedConnection
  BY CheckedIsAllowed DEF TargetInv, CallInv, NoBlockedConnection
<1>2. QED
  BY <1>1, TargetInductive, PTL

\* Deliver discards unsent only what another key or setting than that of the
\* accepting process explains.
THEOREM DiscardsAreExplained == Spec => []DiscardsExplained
<1>1. TargetInv => DiscardsExplained
  BY DEF TargetInv
<1>2. QED
  BY <1>1, TargetInductive, PTL

\* The dialer blocks only what a name's new answer, a setting that changed, or a
\* written-out address that only the dialer refuses explains.
THEOREM BlocksAreExplained == Spec => []BlocksExplained
<1>1. TargetInv => BlocksExplained
  BY DEF TargetInv
<1>2. QED
  BY <1>1, TargetInductive, PTL

\* The limit Load sets on the lease covers every timeout Create accepts, also
\* in a process started later with another lease.
THEOREM LeasesCoverAttempts == Spec => []LeaseCoversAttempt
<1>1. TargetInv => LeaseCoversAttempt
  <2> SUFFICES ASSUME TargetInv, NEW e \in Endpoints, endpoints[e] # NULL
               PROVE  endpoints[e].timeout + process.finishTimeout < process.lease
    BY DEF LeaseCoversAttempt
  <2>1. endpoints[e] \in EndpointRows
    BY DEF TargetInv, EndpointInv
  <2>2. endpoints[e].timeout \in 1 .. 30 * Second
    BY <2>1 DEF EndpointRows
  <2>3. /\ process.lease \in Int /\ process.finishTimeout \in Int
        /\ process.lease > 30 * Second + process.finishTimeout
    BY ProcessesTyped DEF TargetInv, TargetTypes
  <2>4. QED
    BY <2>2, <2>3, DurationAssumption
<1>2. QED
  BY <1>1, TargetInductive, PTL
=============================================================================
