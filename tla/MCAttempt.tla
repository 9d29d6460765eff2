----------------------------- MODULE MCAttempt -----------------------------
(***************************************************************************)
(* Instances of Attempt for TLC.  Durations are small integers; a jitter   *)
(* or a sample of k stands for k/4.                                        *)
(***************************************************************************)
EXTENDS Attempt

SomeSettings(bases, caps, jitters, cooldowns) ==
    [concurrency : {1}, pollInterval : {1}, lease : {62}, finishTimeout : {1},
     threshold : {1}, base : bases, max : caps, jitter : jitters,
     cooldown : cooldowns]

\* Even, odd and equal caps, every kind of jitter, a cooldown of a millisecond
\* and one below; also what Load refuses (a cap below the base, a jitter of 5/4).
AllSettings ==
    SomeSettings({1, 4, 5, 6}, {4, 5, 6, 9, 21, 31}, {0, 1, 3, 4, 5, NaN}, {1, 2})

\* Nothing but the status codes is out of the ordinary.
PartialJitter == SomeSettings({4, 5}, {5, 9, 16}, {1}, {2})

AllSamples == 0 .. Unit

\* Codes outside the registry, which net/http passes on.
UnknownCodes == {0, 99, 200, 600, 999}

\* The ends of every range the code distinguishes (net/http returns no 1xx but
\* 101), and codes outside the registry.
AllCodes == {99, 101, 200, 299, 300, 407, 408, 409, 425, 499, 500, 599, 600}

\* The wall clock goes back during an attempt, or does not move.
SteppingClock == {-1, 0}
=============================================================================
