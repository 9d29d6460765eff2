------------------------------- MODULE MCPool -------------------------------
(***************************************************************************)
(* Instances of Pool for TLC: two processes with one worker each.          *)
(***************************************************************************)
EXTENDS Pool, TLC

CONSTANTS w1, w2, i1, i2

TwoProcesses == w1 :> i1 @@ w2 :> i2

\* The first process has the shortest lease that Load accepts and loses it when
\* its claim takes a unit of time; the second has a unit to spare.
TwoSettings ==
    i1 :> [lease |-> 3, finishTimeout |-> 1, threshold |-> 1, cooldown |-> 1]
    @@ i2 :> [lease |-> 4, finishTimeout |-> 1, threshold |-> 2, cooldown |-> 1]
=============================================================================
