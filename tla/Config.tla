------------------------------- MODULE Config -------------------------------
(***************************************************************************)
(* The settings of a relayforge process: what config.Load                  *)
(* (internal/config/config.go) accepts, and what the constructors that run *)
(* in cmd/relayforge/main.go calls with them accept.  Parsing is left out: *)
(* a setting is a value of its type.  Durations are whole units, of which  *)
(* a millisecond has Millisecond; a jitter is in Unit-ths or NaN, which    *)
(* strconv.ParseFloat returns for RETRY_JITTER=NaN.                        *)
(***************************************************************************)
EXTENDS RetryPolicy

CONSTANTS Second, Millisecond

ASSUME DurationAssumption ==
    Millisecond \in Nat \ {0} /\ Second \in Nat /\ Second >= Millisecond

\* duration(): a duration has to be positive, and no more.
PositiveDurations(c) ==
    /\ c.pollInterval > 0 /\ c.lease > 0 /\ c.finishTimeout > 0
    /\ c.base > 0 /\ c.max > 0 /\ c.cooldown > 0

\* Mutant: the lease need not outlast the recording of the result.
Load_ShortLease(c) ==
    /\ PositiveDurations(c)
    /\ c.concurrency \in 1 .. 128
    /\ c.lease > 30 * Second
    /\ c.max >= c.base
    /\ ~OutsideUnit(c.jitter)
    /\ c.threshold \in 1 .. 100

Load(c) ==
    /\ PositiveDurations(c)
    /\ c.concurrency \in 1 .. 128
    /\ c.lease > 30 * Second + c.finishTimeout
    /\ c.max >= c.base
    /\ ~OutsideUnit(c.jitter)
    /\ c.threshold \in 1 .. 100

\* worker.New
NewPool(c) ==
    /\ c.concurrency >= 1
    /\ c.pollInterval > 0 /\ c.lease > 0 /\ c.finishTimeout > 0
    /\ c.threshold >= 1 /\ c.cooldown > 0

\* run gets as far as starting its workers.
Starts(c) == Load(c) /\ ValidRetryPolicy(c) /\ NewPool(c)
=============================================================================
