------------------------------ MODULE MCTarget ------------------------------
(***************************************************************************)
(* Instances of Target for TLC.  A unit of time is a tenth of a second.    *)
(***************************************************************************)
EXTENDS Target

\* Leases around the limit, also those that Load refuses.
SomeSettings ==
    [concurrency : {8}, pollInterval : {1}, lease : {300, 305, 306, 320},
     finishTimeout : {5}, threshold : {5}, base : {10}, max : {300}, jitter : {1},
     cooldown : {300}, allowHTTP : BOOLEAN, allowPrivate : BOOLEAN]

AnyTarget == [scheme : {"https", "http", "ftp"}, plain : BOOLEAN,
              host : Addresses \cup Names]

\* One input at a time leaves the ordinary: the target, the timeout, the
\* attempts or the name.
SomeInputs ==
    LET Ordinary == [scheme |-> "https", plain |-> TRUE, host |-> "example"]
    IN  [nameLength : {10}, target : AnyTarget, timeout : {0}, maxAttempts : {0}]
        \cup [nameLength : {0, 100, 101}, target : {Ordinary},
              timeout : {0, 1, 300, 301, 600}, maxAttempts : {0, 1, 100, 101}]

\* No answer, a public one, and answers that mix.
SomeLookups == {{}, {"public"}, {"public", "private"}, {"loopback"}}
=============================================================================
