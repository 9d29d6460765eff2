----------------------------- MODULE Lifecycle -----------------------------
(***************************************************************************)
(* What the delivery queue promises about each delivery, without time,     *)
(* leases, workers or circuits: the status machine that                    *)
(* internal/delivery/model.go states (CanTransition), the attempt counter  *)
(* and the attempt limit.  One step of the queue may move several          *)
(* deliveries (a claim first recovers a batch of expired leases), so a     *)
(* step is a move, or nothing, of every row.                               *)
(***************************************************************************)
EXTENDS Policy

CONSTANT Deliveries

VARIABLE table

Rows == [status : Statuses \cup {"absent"}, used : Nat, limit : Nat]

Absent == [status |-> "absent", used |-> 0, limit |-> 0]

\* An accepted event makes a delivery with no attempt used and a limit.
Accept(r, next) ==
    /\ r = Absent
    /\ next.status = "pending" /\ next.used = 0 /\ next.limit >= 1

\* Every attempt uses one unit of the limit.  The attempt of a worker that
\* was lost may be followed at once by another one, in the same step.
Start(r, next) ==
    /\ CanTransition(r.status, "processing") \/ r.status = "processing"
    /\ r.used < r.limit
    /\ next.status = "processing" /\ next.used = r.used + 1
    /\ next.limit = r.limit

\* An attempt ends; only a delivery with attempts left goes back to the queue.
End(r, next) ==
    /\ r.status = "processing"
    /\ CanTransition(r.status, next.status)
    /\ next.used = r.used /\ next.limit = r.limit
    /\ next.status = "retrying" => r.used < r.limit

\* A dead delivery is replayed: its numbering goes on under a larger limit.
Revive(r, next) ==
    /\ r.status = "dead" /\ CanTransition(r.status, next.status)
    /\ next.used = r.used
    /\ next.limit > r.limit

Move(r, next) ==
    Accept(r, next) \/ Start(r, next) \/ End(r, next) \/ Revive(r, next)

Init == table = [d \in Deliveries |-> Absent]

Next ==
    /\ table' \in [Deliveries -> Rows]
    /\ \A d \in Deliveries : table'[d] = table[d] \/ Move(table[d], table'[d])

Spec == Init /\ [][Next]_table
=============================================================================
