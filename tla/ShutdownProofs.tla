--------------------------- MODULE ShutdownProofs ---------------------------
(***************************************************************************)
(* Proofs about module Shutdown, for any numbers of workers and requests.  *)
(* The invariant follows main through its selects: what each of them has   *)
(* waited for stays so until the process exits, since nobody can start     *)
(* what main has seen ended.                                               *)
(***************************************************************************)
EXTENDS Shutdown, TLAPS

Types ==
    /\ main \in {"serving", "stopping", "closing", "reaping", "draining",
                 "returning", "exited"}
    /\ requests \in [Requests -> {"none", "open", "querying"}]
    /\ workers \in [Workers -> {"idle", "dispatching", "finishing", "stopped"}]

\* After server.Shutdown was called nobody is let in any more.
ListenerInv ==
    main \in {"closing", "reaping", "draining", "returning", "exited"} =>
        server # "listening"

\* After it returned, the requests are answered or the time is up.
RequestInv ==
    main \in {"reaping", "draining", "returning", "exited"} => noRequests \/ expired

\* The database is closed in the deferred calls only, and only then a result
\* can be lost.
PoolInv ==
    /\ pool # "open" => main \in {"returning", "exited"}
    /\ lost # {} => pool # "open"

\* What run returns tells what it has waited for.
ResultInv ==
    /\ main \notin {"returning", "exited"} => result = NULL
    /\ main \in {"returning", "exited"} =>
          \/ result \in {"ok", "serve http"} /\ workersDone
          \/ result \in {"shutdown http server", "workers did not stop"} /\ expired
          \/ result = "stop http server"

\* run returns before its workers are done, and before its time is up, in one
\* case: the server failed by itself after the signal, which the second select
\* takes for a failure to stop.
OnlyRaceLosesResults == lost # {} => expired \/ result = "stop http server"

ShutdownInv ==
    /\ Types /\ ListenerInv /\ RequestInv /\ PoolInv /\ ResultInv
    /\ ReportedEndIsClean /\ OnlyRaceLosesResults

-----------------------------------------------------------------------------
\* Requests: nobody is let in after the listener is closed, and a request that
\* is not there does nothing.
LEMMA RequestStepKeeps ==
    ASSUME ShutdownInv, NEW q \in Requests, Serve(q) \/ Query(q) \/ Respond(q)
    PROVE  ShutdownInv'
<1>1. UNCHANGED <<main, server, expired, workers, pool, lost, result>>
  BY DEF Serve, Query, Respond
<1>2. requests' \in [Requests -> {"none", "open", "querying"}]
  BY DEF Serve, Query, Respond, ShutdownInv, Types
<1>3. RequestInv'
  BY <1>1 DEF Serve, Query, Respond, ShutdownInv, ListenerInv, RequestInv, noRequests
<1>4. QED
  BY <1>1, <1>2, <1>3 DEF ShutdownInv, Types, ListenerInv, PoolInv, ResultInv,
      ReportedEndIsClean, OnlyRaceLosesResults, workersDone

\* Workers: one that has stopped does not move, so those that run has waited
\* for stay stopped and lose nothing.
LEMMA WorkerStepKeeps ==
    ASSUME ShutdownInv, NEW w \in Workers, Worker(w)
    PROVE  ShutdownInv'
<1>1. /\ UNCHANGED <<main, server, expired, requests, pool, result>>
      /\ workers[w] # "stopped" /\ Running
  BY DEF Worker, Claim, Deliver, Finish, Stop
<1>2. workers' \in [Workers -> {"idle", "dispatching", "finishing", "stopped"}]
  BY DEF Worker, Claim, Deliver, Finish, Stop, ShutdownInv, Types
<1>3. lost' # lost => pool # "open"
  BY DEF Worker, Claim, Deliver, Finish, Stop
<1>4. ~workersDone
  BY <1>1 DEF workersDone
<1>5. PoolInv' /\ ResultInv'
  BY <1>1, <1>3, <1>4 DEF ShutdownInv, PoolInv, ResultInv
<1>6. ReportedEndIsClean'
  BY <1>1, <1>4 DEF ShutdownInv, ReportedEndIsClean
<1>7. OnlyRaceLosesResults'
  BY <1>1, <1>3, <1>4 DEF ShutdownInv, PoolInv, ResultInv, OnlyRaceLosesResults
<1>8. QED
  BY <1>1, <1>2, <1>5, <1>6, <1>7 DEF ShutdownInv, Types, ListenerInv, RequestInv, noRequests

\* The signal, the server's return and the timer take nothing back.
LEMMA EnvironmentKeeps ==
    ASSUME ShutdownInv, Signal \/ ListenAndServe \/ Expire
    PROVE  ShutdownInv'
<1>1. /\ UNCHANGED <<main, requests, workers, pool, lost, result>>
      /\ server' = server \/ server' = "returned"
      /\ expired => expired'
  BY DEF Signal, ListenAndServe, Expire
<1>2. QED
  BY <1>1 DEF ShutdownInv, Types, ListenerInv, RequestInv, PoolInv, ResultInv,
      ReportedEndIsClean, OnlyRaceLosesResults, noRequests, workersDone

\* Main up to its third select: nothing is closed, nothing is lost.
LEMMA SelectsKeep ==
    ASSUME ShutdownInv, AwaitEnd \/ CloseListener \/ AwaitRequests \/ ReapServer \/ DrainWorkers
    PROVE  ShutdownInv'
<1>1. /\ UNCHANGED <<requests, workers, pool, lost, expired>>
      /\ main \in {"serving", "stopping", "closing", "reaping", "draining"}
  BY DEF AwaitEnd, CloseListener, AwaitRequests, ReapServer, DrainWorkers
<1>2. Types' /\ PoolInv'
  BY <1>1 DEF ShutdownInv, Types, PoolInv, AwaitEnd, CloseListener, AwaitRequests,
      ReapServer, DrainWorkers, Return
<1>3. lost = {} /\ result = NULL
  BY <1>1 DEF ShutdownInv, PoolInv, ResultInv
<1>4. ListenerInv'
  BY DEF ShutdownInv, ListenerInv, AwaitEnd, CloseListener, AwaitRequests,
      ReapServer, DrainWorkers, Return
<1>5. RequestInv'
  BY DEF ShutdownInv, RequestInv, AwaitEnd, CloseListener, AwaitRequests,
      ReapServer, DrainWorkers, Return, noRequests
<1>6. ResultInv'
  BY <1>1, <1>3 DEF ResultInv, AwaitEnd, CloseListener, AwaitRequests,
      ReapServer, DrainWorkers, Return, workersDone
<1>7. ReportedEndIsClean' /\ OnlyRaceLosesResults'
  BY <1>1, <1>2, <1>3, <1>6, ShutdownAssumption
      DEF Types, ResultInv, ReportedEndIsClean, OnlyRaceLosesResults
<1>8. QED
  BY <1>2, <1>4, <1>5, <1>6, <1>7 DEF ShutdownInv

\* The deferred calls.
LEMMA DeferredCallsKeep ==
    ASSUME ShutdownInv, ClosePool \/ Exit
    PROVE  ShutdownInv'
<1>1. /\ UNCHANGED <<server, requests, workers, lost, expired, result>>
      /\ main = "returning" /\ main' \in {"returning", "exited"} /\ pool' # "open"
  BY DEF ClosePool, Exit
<1>2. QED
  BY <1>1 DEF ShutdownInv, Types, ListenerInv, RequestInv, PoolInv, ResultInv,
      ReportedEndIsClean, OnlyRaceLosesResults, noRequests, workersDone

-----------------------------------------------------------------------------
\* The invariant holds of every run of a process.
THEOREM ShutdownInductive == Spec => []ShutdownInv
<1>1. Init => ShutdownInv
  BY ShutdownAssumption DEF Init, ShutdownInv, Types, ListenerInv, RequestInv, PoolInv,
      ResultInv, ReportedEndIsClean, OnlyRaceLosesResults
<1>2. ShutdownInv /\ [Next]_vars => ShutdownInv'
  <2> SUFFICES ASSUME ShutdownInv, [Next]_vars PROVE ShutdownInv'
    OBVIOUS
  <2>1. CASE Signal \/ ListenAndServe \/ Expire
    BY <2>1, EnvironmentKeeps
  <2>2. CASE \E q \in Requests : Serve(q) \/ Query(q) \/ Respond(q)
    BY <2>2, RequestStepKeeps
  <2>3. CASE \E w \in Workers : Worker(w)
    BY <2>3, WorkerStepKeeps
  <2>4. CASE AwaitEnd \/ CloseListener \/ AwaitRequests \/ ReapServer \/ DrainWorkers
    BY <2>4, SelectsKeep
  <2>5. CASE ClosePool \/ Exit
    BY <2>5, DeferredCallsKeep
  <2>6. CASE UNCHANGED vars
    BY <2>6 DEF vars, ShutdownInv, Types, ListenerInv, RequestInv, PoolInv, ResultInv,
        ReportedEndIsClean, OnlyRaceLosesResults, noRequests, workersDone
  <2>7. QED
    BY <2>1, <2>2, <2>3, <2>4, <2>5, <2>6 DEF Next, Main
<1>3. QED
  BY <1>1, <1>2, PTL DEF Spec

\* A process that reports a clean end has waited for all its workers, and no
\* result of theirs met a closed database.
THEOREM CleanEnds == Spec => []ReportedEndIsClean
<1>1. ShutdownInv => ReportedEndIsClean
  BY DEF ShutdownInv
<1>2. QED
  BY <1>1, ShutdownInductive, PTL

\* run does not return over open requests before its time is up.
THEOREM RequestsServed == Spec => []RequestsAreServed
<1>1. ShutdownInv => RequestsAreServed
  BY DEF ShutdownInv, RequestInv, RequestsAreServed
<1>2. QED
  BY <1>1, ShutdownInductive, PTL

\* The shutdown is graceful but for one race: a result is lost to the closing of
\* the database after SHUTDOWN_TIMEOUT, or when run has returned "stop http
\* server", and in no other case.
THEOREM LossesExplained == Spec => []OnlyRaceLosesResults
<1>1. ShutdownInv => OnlyRaceLosesResults
  BY DEF ShutdownInv
<1>2. QED
  BY <1>1, ShutdownInductive, PTL
=============================================================================
