----------------------------- MODULE RetryPolicy -----------------------------
(***************************************************************************)
(* The retry schedule of internal/delivery/policy.go.                      *)
(*                                                                         *)
(* A retry policy is a record [base, max, jitter]: base and max are        *)
(* durations, and jitter is in Unit-ths (jitter = Unit is the float 1.0)   *)
(* or NaN.  A sample is in Unit-ths too, so NextDelay is exact integer     *)
(* arithmetic where the code multiplies floats and truncates.              *)
(***************************************************************************)
EXTENDS Integers

CONSTANTS Unit,
          NaN    \* a jitter that is not a number

ASSUME UnitAssumption == Unit \in Nat \ {0} /\ NaN \notin Int

\* jitter < 0 || jitter > 1, which is false of NaN.
OutsideUnit(jitter) == jitter # NaN /\ (jitter < 0 \/ jitter > Unit)

ValidRetryPolicy(p) ==
    /\ p.base > 0
    /\ p.max >= p.base
    /\ ~OutsideUnit(p.jitter)

\* Mutant: the delay doubles before the first retry already.
Backoff_OneTooFar(p, attempt) ==
    LET delay[n \in 0 .. attempt] ==
            IF n = 0 THEN p.base
            ELSE IF delay[n - 1] >= p.max \div 2 THEN p.max
            ELSE 2 * delay[n - 1]
    IN  delay[attempt]

\* The doubling loop: once the delay has reached half the cap it jumps to it.
Backoff(p, attempt) ==
    LET delay[n \in 1 .. attempt] ==
            IF n = 1 THEN p.base
            ELSE IF delay[n - 1] >= p.max \div 2 THEN p.max
            ELSE 2 * delay[n - 1]
    IN  delay[attempt]

AtMost(x, high) == IF x > high THEN high ELSE x

Clamp(x, low, high) == IF x < low THEN low ELSE IF x > high THEN high ELSE x

\* What converting the float NaN to an integer may give: zero, or a number far
\* below it.
ConvertedNaN == {0, -1}

\* delay * (1 + (2 * sample - 1) * jitter), truncated, and capped again.
NextDelay(p, attempt, sample) ==
    LET delay  == AtMost(Backoff(p, IF attempt < 1 THEN 1 ELSE attempt), p.max)
        factor == Unit * Unit + (2 * Clamp(sample, 0, Unit) - Unit) * p.jitter
    IN  IF p.jitter = NaN THEN ConvertedNaN
        ELSE {AtMost((delay * factor) \div (Unit * Unit), p.max)}
=============================================================================
