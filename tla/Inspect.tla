------------------------------ MODULE Inspect ------------------------------
(***************************************************************************)
(* Store.GetDelivery (internal/store/deliveries.go) beside the store: a    *)
(* read of two statements, the delivery and then its attempts, with        *)
(* claims, results and replays committing in between.  The transaction is  *)
(* repeatable read, so both statements see the snapshot of the first.      *)
(***************************************************************************)
EXTENDS Store, Sequences

CONSTANT Readers

VARIABLE readers    \* what each reader has read so far

inspectVars == <<vars, readers>>

NotReading ==
    [pc |-> "idle", id |-> NULL, delivery |-> NoDelivery, snapshot |-> {},
     attempts |-> <<>>]

\* The first statement takes the snapshot; of an absent delivery it finds no
\* row, and the reader gets ErrNotFound.
ReadDelivery(r, d) ==
    /\ readers[r].pc = "idle"
    /\ deliveries[d].status # "absent"
    /\ readers' = [readers EXCEPT ![r] =
                      [pc |-> "reading", id |-> d, delivery |-> deliveries[d],
                       snapshot |-> attempts[d], attempts |-> <<>>]]
    /\ UNCHANGED vars

\* ORDER BY attempt_number: an attempt comes after those with smaller numbers.
InOrder(history) ==
    [i \in 1 .. Cardinality(history) |->
        CHOOSE a \in history : Cardinality({b \in history : b.number <= a.number}) = i]

\* Mutant: the transaction is read committed; the second statement sees what
\* was committed since.
ReadAttempts_ReadCommitted(r) ==
    /\ readers[r].pc = "reading"
    /\ readers' = [readers EXCEPT ![r].pc = "done",
                                  ![r].attempts = InOrder(attempts[readers[r].id])]
    /\ UNCHANGED vars

\* The second statement reads the attempts, of the snapshot.
ReadAttempts(r) ==
    /\ readers[r].pc = "reading"
    /\ readers' = [readers EXCEPT ![r].pc = "done",
                                  ![r].attempts = InOrder(readers[r].snapshot)]
    /\ UNCHANGED vars

\* The caller has its answer, or the read fails on the way.
EndRead(r) ==
    /\ readers[r].pc # "idle"
    /\ readers' = [readers EXCEPT ![r] = NotReading]
    /\ UNCHANGED vars

InspectInit == Init /\ readers = [r \in Readers |-> NotReading]

InspectNext ==
    \/ Next /\ UNCHANGED readers
    \/ \E r \in Readers :
          (\E d \in Deliveries : ReadDelivery(r, d)) \/ ReadAttempts(r) \/ EndRead(r)

InspectSpec == InspectInit /\ [][InspectNext]_inspectVars

-----------------------------------------------------------------------------
\* What a client is shown fits together, whatever committed during the read:
\* the attempts are numbered from 1 without a gap up to the last one that the
\* shown delivery has behind it, and it is shown as succeeded exactly when the
\* last of them is a success.
DetailsFitTogether ==
    \A r \in Readers :
        readers[r].pc = "done" =>
            LET row == readers[r].delivery
                shown == readers[r].attempts
            IN  /\ Len(shown) = ClosedAttempts(row)
                /\ \A i \in 1 .. Len(shown) : shown[i].number = i
                /\ (row.status = "succeeded") <=>
                      (shown # <<>> /\ shown[Len(shown)].outcome = "succeed")
=============================================================================
