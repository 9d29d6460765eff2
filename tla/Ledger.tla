------------------------------- MODULE Ledger -------------------------------
(***************************************************************************)
(* What publishing promises: a ledger with at most one entry per endpoint  *)
(* and idempotency key, in which every request takes effect, and is        *)
(* answered, in one step.  It knows no transactions, locks or deliveries.  *)
(* An entry carries the ID that the request which made it has drawn, and   *)
(* is never changed or removed.                                            *)
(***************************************************************************)
CONSTANTS Endpoints, Keys, Bodies, Requests, NULL

VARIABLES endpoints,   \* absent, enabled or disabled
          book,        \* the entry of each endpoint and key
          asked,       \* what each request asked for
          answers      \* what it was told

ledgerVars == <<endpoints, book, asked, answers>>

-----------------------------------------------------------------------------
Slots == Endpoints \X Keys

Pending(r) == asked[r] # NULL /\ answers[r] = NULL

SlotOf(r) == <<asked[r].endpoint, asked[r].key>>

Tell(r, answer) == answers' = [answers EXCEPT ![r] = answer]

CreateEndpoint(e) ==
    /\ endpoints[e] = "absent"
    /\ endpoints' = [endpoints EXCEPT ![e] = "enabled"]
    /\ UNCHANGED <<book, asked, answers>>

DisableEndpoint(e) ==
    /\ endpoints[e] # "absent"
    /\ endpoints' = [endpoints EXCEPT ![e] = "disabled"]
    /\ UNCHANGED <<book, asked, answers>>

Ask(r, input) ==
    /\ asked[r] = NULL
    /\ asked' = [asked EXCEPT ![r] = input]
    /\ UNCHANGED <<endpoints, book, answers>>

\* The endpoint takes no events.
Refuse(r) ==
    /\ Pending(r)
    /\ \/ endpoints[asked[r].endpoint] = "absent" /\ Tell(r, [kind |-> "not_found"])
       \/ endpoints[asked[r].endpoint] = "disabled" /\ Tell(r, [kind |-> "endpoint_disabled"])
    /\ UNCHANGED <<endpoints, book, asked>>

\* The key is taken by another body.
Conflict(r) ==
    /\ Pending(r)
    /\ endpoints[asked[r].endpoint] = "enabled"
    /\ book[SlotOf(r)] # NULL /\ book[SlotOf(r)].body # asked[r].body
    /\ Tell(r, [kind |-> "idempotency_conflict"])
    /\ UNCHANGED <<endpoints, book, asked>>

\* The request makes the entry, or finds it made by an equal one; the client is
\* told which entry it is, or nothing for certain.
Enter(r) ==
    LET entry == IF book[SlotOf(r)] = NULL THEN [id |-> r, body |-> asked[r].body]
                 ELSE book[SlotOf(r)]
    IN  /\ Pending(r)
        /\ endpoints[asked[r].endpoint] = "enabled"
        /\ entry.body = asked[r].body
        /\ book' = [book EXCEPT ![SlotOf(r)] = entry]
        /\ \/ Tell(r, [kind |-> "accepted", event |-> entry.id, delivery |-> entry.id,
                       duplicate |-> entry.id # r])
           \/ Tell(r, [kind |-> "internal_error"])
        /\ UNCHANGED <<endpoints, asked>>

\* The request fails without a trace.
Lose(r) ==
    /\ Pending(r)
    /\ Tell(r, [kind |-> "internal_error"])
    /\ UNCHANGED <<endpoints, book, asked>>

-----------------------------------------------------------------------------
Init ==
    /\ endpoints = [e \in Endpoints |-> "absent"]
    /\ book = [slot \in Slots |-> NULL]
    /\ asked = [r \in Requests |-> NULL]
    /\ answers = [r \in Requests |-> NULL]

Next ==
    \/ \E e \in Endpoints : CreateEndpoint(e) \/ DisableEndpoint(e)
    \/ \E r \in Requests :
          \/ \E input \in [endpoint : Endpoints, key : Keys, body : Bodies] : Ask(r, input)
          \/ Refuse(r) \/ Conflict(r) \/ Enter(r) \/ Lose(r)

Spec == Init /\ [][Next]_ledgerVars
=============================================================================
