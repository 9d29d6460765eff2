------------------------------- MODULE Policy -------------------------------
(***************************************************************************)
(* The pure decisions of the delivery engine: the status machine of        *)
(* internal/delivery/model.go, the evaluation of a response of             *)
(* internal/delivery/policy.go and the circuit signal of                   *)
(* internal/webhook/dispatcher.go.                                         *)
(***************************************************************************)
EXTENDS Integers

Statuses == {"pending", "processing", "retrying", "succeeded", "dead"}

Final(s) == s \in {"succeeded", "dead"}

CanTransition(s, next) ==
    \/ s \in {"pending", "retrying"} /\ next = "processing"
    \/ s = "processing" /\ next \in {"succeeded", "retrying", "dead"}
    \/ s = "dead" /\ next = "pending"

-----------------------------------------------------------------------------
Decisions == {"succeed", "retry", "discard"}

CircuitOutcomes == {"none", "failure", "success"}

\* The status codes that ask the sender to come back later.
RetryableClientErrors == {408, 425, 429}

Evaluate(statusCode, requestFailed) ==
    IF requestFailed THEN "retry"
    ELSE IF statusCode \in 200 .. 299 THEN "succeed"
    ELSE IF statusCode \in RetryableClientErrors \/ statusCode >= 500 THEN "retry"
    ELSE "discard"

\* Mutant: every client error counts against the endpoint.
circuitSignal_ClientErrors(statusCode) ==
    IF statusCode >= 400 THEN "failure"
    ELSE IF statusCode >= 100 THEN "success"
    ELSE "none"

circuitSignal(statusCode) ==
    IF statusCode >= 500 \/ statusCode = 408 THEN "failure"
    ELSE IF statusCode >= 100 THEN "success"
    ELSE "none"
=============================================================================
