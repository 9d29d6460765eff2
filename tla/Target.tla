------------------------------- MODULE Target -------------------------------
(***************************************************************************)
(* Where webhooks may go: endpoints as internal/api and internal/endpoint  *)
(* accept them, and how internal/webhook reaches them later, in processes  *)
(* that may run with other settings or another master key, through a DNS   *)
(* that may give another answer each time it is asked.                     *)
(*                                                                         *)
(* An address is known by its range; a host is such an address, written    *)
(* out, or a name: "localhost" stands for the names isPrivateHost knows    *)
(* (localhost, *.localhost, *.local), "example" for all others.            *)
(***************************************************************************)
EXTENDS Config, FiniteSets

CONSTANTS Endpoints, NULL,
          Settings,      \* the settings processes are started with
          MasterKeys,
          Inputs,        \* the bodies of POST /v1/endpoints
          Lookups        \* the answers of the DNS, as sets of addresses

VARIABLES process,     \* the settings and master key of the running process
          endpoints,   \* table endpoints
          dns,         \* what each name resolves to at the moment
          idle,        \* the transport's idle connections
          call         \* the Deliver call in progress, or its result

vars == <<process, endpoints, dns, idle, call>>

-----------------------------------------------------------------------------
(***************************************************************************)
(* Addresses.                                                              *)
(***************************************************************************)
\* "reserved": the ranges of blockedPrefixes that netip counts as global.
Addresses ==
    {"public", "private", "loopback", "linklocal", "reserved", "unspecified",
     "multicast"}

Names == {"localhost", "example"}

GlobalUnicast(a) == a \notin {"unspecified", "loopback", "linklocal", "multicast"}

blockedPrefixes == {"reserved", "linklocal", "multicast", "unspecified"}

\* Mutant: written-out addresses are left to the dialer.
isPrivateHost_NamesOnly(host) == host = "localhost"

isPrivateHost(host) ==
    \/ host = "localhost"
    \/ host \in Addresses /\ (~GlobalUnicast(host) \/ host = "private")

ASSUME TargetAssumption ==
    /\ Lookups \subseteq SUBSET Addresses
    /\ \A input \in Inputs : input.target.host \in Addresses \cup Names
    /\ \A c \in Settings :
          /\ c.lease \in Int /\ c.finishTimeout \in Int
          /\ c.allowHTTP \in BOOLEAN /\ c.allowPrivate \in BOOLEAN
    /\ NULL \notin {"discarded", "blocked"}

addressAllowed(a, allowPrivate) ==
    /\ a \notin {"unspecified", "multicast"}
    /\ \/ allowPrivate
       \/ GlobalUnicast(a) /\ a # "private" /\ a \notin blockedPrefixes

-----------------------------------------------------------------------------
(***************************************************************************)
(* Creating an endpoint.                                                   *)
(***************************************************************************)
\* Mutant: HTTP is accepted whatever the options say.
normalizeTarget_AnyHTTP(target, c) ==
    /\ target.scheme \in {"https", "http"}
    /\ target.plain
    /\ c.allowPrivate \/ ~isPrivateHost(target.host)

\* The scheme and the host survive in lower case, without a final dot.
\* target.plain: absolute, without userinfo, fragment or zone.
normalizeTarget(target, c) ==
    /\ target.scheme = "https" \/ (c.allowHTTP /\ target.scheme = "http")
    /\ target.plain
    /\ c.allowPrivate \/ ~isPrivateHost(target.host)

\* The handler's own limits.
createEndpoint(input) ==
    /\ input.timeout \in 0 .. 30 * Second
    /\ input.maxAttempts \in 0 .. 100

OrDefault(value, default) == IF value = 0 THEN default ELSE value

ValidInput(input, c) ==
    /\ input.nameLength \in 1 .. 100
    /\ normalizeTarget(input.target, c)
    /\ OrDefault(input.timeout, 5 * Second) \in Second \div 10 .. 30 * Second
    /\ OrDefault(input.maxAttempts, 8) \in 1 .. 100

\* Box.Encrypt with SecretContext(e): what is sealed for one endpoint under one
\* key opens for that endpoint under that key only.
Encrypt(key, e) == <<key, e>>

\* POST /v1/endpoints with an input both layers accept.  by is not a column: it
\* remembers the process that accepted the endpoint.
Create(e, input) ==
    /\ endpoints[e] = NULL
    /\ createEndpoint(input) /\ ValidInput(input, process)
    /\ endpoints' = [endpoints EXCEPT ![e] =
                        [scheme |-> input.target.scheme, host |-> input.target.host,
                         timeout |-> OrDefault(input.timeout, 5 * Second),
                         sealed |-> Encrypt(process.masterKey, e), by |-> process]]
    /\ UNCHANGED <<process, dns, idle, call>>

-----------------------------------------------------------------------------
(***************************************************************************)
(* Delivering to it.                                                       *)
(***************************************************************************)
NoCall == [stage |-> "none", endpoint |-> NULL, addresses |-> {}, result |-> NULL]

Result(e, result) ==
    call' = [NoCall EXCEPT !.stage = "returned", !.endpoint = e, !.result = result]

\* Box.Decrypt with SecretContext(e) succeeds.
Opens(e) == endpoints[e].sealed = Encrypt(process.masterKey, e)

MayUse(scheme, c) == scheme = "https" \/ (c.allowHTTP /\ scheme = "http")

\* Deliver, up to client.Do.
Deliver(e) ==
    /\ call.stage \in {"none", "returned"} /\ endpoints[e] # NULL
    /\ IF Opens(e) /\ endpoints[e].timeout > 0 /\ MayUse(endpoints[e].scheme, process)
       THEN call' = [NoCall EXCEPT !.stage = "sending", !.endpoint = e]
       ELSE Result(e, "discarded")
    /\ UNCHANGED <<process, endpoints, dns, idle>>

Host == endpoints[call.endpoint].host

Origin == <<endpoints[call.endpoint].scheme, Host>>

\* The transport takes an idle connection to the same scheme and host.
Reuse(a) ==
    /\ call.stage = "sending"
    /\ <<Origin, a>> \in idle
    /\ idle' = idle \ {<<Origin, a>>}
    /\ call' = [call EXCEPT !.stage = "connected", !.addresses = {a}]
    /\ UNCHANGED <<process, endpoints, dns>>

resolve(host) == IF host \in Addresses THEN {host} ELSE dns[host]

\* DialContext up to its dialing loop: every address has to be allowed.
CheckAddresses ==
    /\ call.stage = "sending"
    /\ IF resolve(Host) = {} THEN Result(call.endpoint, "unresolved")
       ELSE IF \A a \in resolve(Host) : addressAllowed(a, process.allowPrivate)
       THEN call' = [call EXCEPT !.stage = "checked", !.addresses = resolve(Host)]
       ELSE Result(call.endpoint, "blocked")
    /\ UNCHANGED <<process, endpoints, dns, idle>>

\* Mutant: the name is dialed, and resolved once more on the way.
Dial_ByName ==
    /\ call.stage = "checked"
    /\ \E a \in resolve(Host) :
          call' = [call EXCEPT !.stage = "connected", !.addresses = {a}]
    /\ UNCHANGED <<process, endpoints, dns, idle>>

\* The loop dials the addresses that were checked until one answers.
Dial ==
    /\ call.stage = "checked"
    /\ \E a \in call.addresses :
          call' = [call EXCEPT !.stage = "connected", !.addresses = {a}]
    /\ UNCHANGED <<process, endpoints, dns, idle>>

\* The response was read; the connection may be kept for the next request.
Answer ==
    /\ call.stage = "connected"
    /\ \E kept \in BOOLEAN :
          idle' = IF kept THEN idle \cup {<<Origin, a>> : a \in call.addresses}
                  ELSE idle
    /\ Result(call.endpoint, "answered")
    /\ UNCHANGED <<process, endpoints, dns>>

\* Nothing answers, the name server fails, or the timeout ends the request.
SendFails ==
    /\ call.stage \in {"sending", "checked", "connected"}
    /\ Result(call.endpoint, "failed")
    /\ UNCHANGED <<process, endpoints, dns, idle>>

-----------------------------------------------------------------------------
(***************************************************************************)
(* What changes around it.                                                 *)
(***************************************************************************)
Processes ==
    {[allowHTTP |-> c.allowHTTP, allowPrivate |-> c.allowPrivate, lease |-> c.lease,
      finishTimeout |-> c.finishTimeout, masterKey |-> key] :
         c \in {s \in Settings : Starts(s)}, key \in MasterKeys}

\* The process ends and is started again, perhaps with other settings.
Restart ==
    /\ process' \in Processes
    /\ idle' = {} /\ call' = NoCall
    /\ UNCHANGED <<endpoints, dns>>

ChangeDNS(name, answer) ==
    /\ dns' = [dns EXCEPT ![name] = answer]
    /\ UNCHANGED <<process, endpoints, idle, call>>

\* Idle connections end by their timeout, or the receiver closes them.
CloseIdle ==
    /\ idle # {}
    /\ \E connection \in idle : idle' = idle \ {connection}
    /\ UNCHANGED <<process, endpoints, dns, call>>

Init ==
    /\ process \in Processes
    /\ endpoints = [e \in Endpoints |-> NULL]
    /\ dns \in [Names -> Lookups]
    /\ idle = {}
    /\ call = NoCall

Next ==
    \/ \E e \in Endpoints, input \in Inputs : Create(e, input)
    \/ \E e \in Endpoints : Deliver(e)
    \/ \E a \in Addresses : Reuse(a)
    \/ CheckAddresses \/ Dial \/ Answer \/ SendFails
    \/ Restart \/ CloseIdle
    \/ \E name \in Names, answer \in Lookups : ChangeDNS(name, answer)

Spec == Init /\ [][Next]_vars

-----------------------------------------------------------------------------
\* CHANGELOG.md: "DNS pinning, SSRF protection".  A request goes over a
\* connection to a public address, or to a local one when the process allows
\* private targets, however the answers of the DNS change between check, dial
\* and the next request on the same connection.
NoBlockedConnection ==
    call.stage = "connected" =>
        \A a \in call.addresses :
            \/ a = "public"
            \/ process.allowPrivate /\ a \in {"private", "loopback", "linklocal", "reserved"}

\* Deliver discards a webhook unsent only when the process has another key, or
\* no longer allows HTTP, than the one that accepted the endpoint: what Create
\* accepts, Deliver of the same configuration sends.
DiscardsExplained ==
    call.result = "discarded" =>
        LET by == endpoints[call.endpoint].by
        IN  \/ by.masterKey # process.masterKey
            \/ by.allowHTTP /\ ~process.allowHTTP

\* The dialer blocks an endpoint only when its name resolves to something else,
\* the process no longer allows private targets, or the host was written out as
\* an address that no process delivers to (unspecified, multicast) or that only
\* the dialer knows to be reserved.
BlocksExplained ==
    call.result = "blocked" =>
        LET endpoint == endpoints[call.endpoint]
        IN  \/ endpoint.host \in Names
            \/ endpoint.by.allowPrivate /\ ~process.allowPrivate
            \/ endpoint.host = "reserved"
            \/ endpoint.by.allowPrivate /\ endpoint.host \in {"unspecified", "multicast"}

\* Whatever endpoints were accepted by whichever process, an attempt that uses
\* its whole timeout and its whole time to record the result ends within the
\* lease of the process that makes it.
LeaseCoversAttempt ==
    \A e \in Endpoints :
        endpoints[e] # NULL =>
            endpoints[e].timeout + process.finishTimeout < process.lease
=============================================================================
