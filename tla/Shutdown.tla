------------------------------ MODULE Shutdown ------------------------------
(***************************************************************************)
(* How a relayforge process comes to its end: run (cmd/relayforge/main.go) *)
(* with the goroutines it started (the HTTP server, the workers) and the   *)
(* resources its deferred calls close.                                     *)
(*                                                                         *)
(* Main is at                                                              *)
(*   serving    the first select;                                          *)
(*   stopping   after stop(), about to call server.Shutdown;               *)
(*   closing    in server.Shutdown, waiting for open requests;             *)
(*   reaping    the second select, on the server's error and 100 ms;       *)
(*   draining   the third select, on the workers and the timeout;          *)
(*   returning  in the deferred calls;                                     *)
(*   exited.                                                               *)
(* The HTTP server and the connection pool are libraries, modelled by what *)
(* run relies on: Shutdown closes the listener, which makes ListenAndServe *)
(* return ErrServerClosed, and waits for the open requests; Close of the   *)
(* pool refuses new connections and waits for those in use.                *)
(***************************************************************************)
CONSTANTS Workers, Requests, NULL

ASSUME ShutdownAssumption ==
    NULL \notin {"ok", "serve http", "shutdown http server", "stop http server",
                 "workers did not stop"}

VARIABLES main,       \* where run is
          ctxDone,    \* a signal arrived, or stop() was called
          server,     \* listening, closed, or returned from ListenAndServe
          errCh,      \* the server's error, while nobody has received it
          serveErr,   \* run's serveErr is set
          expired,    \* shutdownCtx is done
          requests,   \* the HTTP requests
          workers,    \* what each worker is doing
          pool,       \* the database pool
          lost,       \* workers whose result found the pool closed
          result      \* what run returns

vars == <<main, ctxDone, server, errCh, serveErr, expired, requests, workers,
          pool, lost, result>>

Running == main # "exited"

-----------------------------------------------------------------------------
(***************************************************************************)
(* The environment and the goroutines.                                     *)
(***************************************************************************)
Signal ==
    /\ Running /\ ~ctxDone
    /\ ctxDone' = TRUE
    /\ UNCHANGED <<main, server, errCh, serveErr, expired, requests, workers,
                   pool, lost, result>>

\* ListenAndServe returns: with an error of its own, or, once the listener is
\* closed, with ErrServerClosed.
ListenAndServe ==
    /\ Running
    /\ \/ server = "listening" /\ errCh' = "failed"
       \/ server = "closed" /\ errCh' = "ErrServerClosed"
    /\ server' = "returned"
    /\ UNCHANGED <<main, ctxDone, serveErr, expired, requests, workers, pool,
                   lost, result>>

\* A request arrives, calls the store on a connection of the pool, and is
\* answered; without a connection it is answered with an error.
Serve(q) ==
    /\ Running /\ server = "listening" /\ requests[q] = "none"
    /\ requests' = [requests EXCEPT ![q] = "open"]
    /\ UNCHANGED <<main, ctxDone, server, errCh, serveErr, expired, workers,
                   pool, lost, result>>

Query(q) ==
    /\ Running /\ requests[q] = "open"
    /\ requests' = [requests EXCEPT ![q] = IF pool = "open" THEN "querying" ELSE "none"]
    /\ UNCHANGED <<main, ctxDone, server, errCh, serveErr, expired, workers,
                   pool, lost, result>>

Respond(q) ==
    /\ Running /\ requests[q] = "querying"
    /\ requests' = [requests EXCEPT ![q] = "none"]
    /\ UNCHANGED <<main, ctxDone, server, errCh, serveErr, expired, workers,
                   pool, lost, result>>

noRequests == \A q \in Requests : requests[q] = "none"

\* runWorker: a claim succeeds only under a live context and an open pool.
Claim(w) ==
    /\ Running /\ workers[w] = "idle" /\ ~ctxDone /\ pool = "open"
    /\ workers' = [workers EXCEPT ![w] = "dispatching"]
    /\ UNCHANGED <<main, ctxDone, server, errCh, serveErr, expired, requests,
                   pool, lost, result>>

\* process: the answer is in; FinishAttempt takes a connection, or finds the
\* pool closed, and then the result is lost.
Deliver(w) ==
    /\ Running /\ workers[w] = "dispatching"
    /\ IF pool = "open"
       THEN workers' = [workers EXCEPT ![w] = "finishing"] /\ lost' = lost
       ELSE workers' = [workers EXCEPT ![w] = "idle"] /\ lost' = lost \cup {w}
    /\ UNCHANGED <<main, ctxDone, server, errCh, serveErr, expired, requests,
                   pool, result>>

Finish(w) ==
    /\ Running /\ workers[w] = "finishing"
    /\ workers' = [workers EXCEPT ![w] = "idle"]
    /\ UNCHANGED <<main, ctxDone, server, errCh, serveErr, expired, requests,
                   pool, lost, result>>

Stop(w) ==
    /\ Running /\ workers[w] = "idle" /\ ctxDone
    /\ workers' = [workers EXCEPT ![w] = "stopped"]
    /\ UNCHANGED <<main, ctxDone, server, errCh, serveErr, expired, requests,
                   pool, lost, result>>

workersDone == \A w \in Workers : workers[w] = "stopped"

\* SHUTDOWN_TIMEOUT passes.
Expire ==
    /\ main \in {"closing", "reaping", "draining"} /\ ~expired
    /\ expired' = TRUE
    /\ UNCHANGED <<main, ctxDone, server, errCh, serveErr, requests, workers,
                   pool, lost, result>>

-----------------------------------------------------------------------------
(***************************************************************************)
(* Main.                                                                   *)
(***************************************************************************)
Return(error) ==
    /\ main' = "returning"
    /\ result' = error

\* The first select, and the stop() after it: the workers are cancelled on
\* either branch.
AwaitEnd ==
    /\ main = "serving"
    /\ \/ ctxDone /\ UNCHANGED <<errCh, serveErr>>
       \/ errCh # NULL /\ serveErr' = (errCh # "ErrServerClosed") /\ errCh' = NULL
    /\ ctxDone' = TRUE
    /\ main' = "stopping"
    /\ UNCHANGED <<server, expired, requests, workers, pool, lost, result>>

CloseListener ==
    /\ main = "stopping"
    /\ main' = "closing"
    /\ server' = IF server = "listening" THEN "closed" ELSE server
    /\ UNCHANGED <<ctxDone, errCh, serveErr, expired, requests, workers, pool,
                   lost, result>>

\* Mutant: the server is closed without waiting for its requests.
AwaitRequests_Close ==
    /\ main = "closing"
    /\ main' = "reaping" /\ UNCHANGED result
    /\ UNCHANGED <<ctxDone, server, errCh, serveErr, expired, requests, workers,
                   pool, lost>>

\* server.Shutdown returns.
AwaitRequests ==
    /\ main = "closing"
    /\ \/ noRequests /\ main' = "reaping" /\ UNCHANGED result
       \/ ~noRequests /\ expired /\ Return("shutdown http server")
    /\ UNCHANGED <<ctxDone, server, errCh, serveErr, expired, requests, workers,
                   pool, lost>>

\* Mutant: the second select has no timeout.
ReapServer_NoTimeout ==
    /\ main = "reaping" /\ errCh # NULL
    /\ IF errCh = "ErrServerClosed"
       THEN main' = "draining" /\ UNCHANGED result
       ELSE Return("stop http server")
    /\ errCh' = NULL
    /\ UNCHANGED <<ctxDone, server, serveErr, expired, requests, workers, pool, lost>>

\* The second select.
ReapServer ==
    /\ main = "reaping"
    /\ \/ /\ errCh # NULL
          /\ IF errCh = "ErrServerClosed"
             THEN main' = "draining" /\ UNCHANGED result
             ELSE Return("stop http server")
          /\ errCh' = NULL
       \/ main' = "draining" /\ UNCHANGED <<result, errCh>>
    /\ UNCHANGED <<ctxDone, server, serveErr, expired, requests, workers, pool, lost>>

\* Mutant: run does not wait for its workers.
DrainWorkers_NoWait ==
    /\ main = "draining"
    /\ Return(IF serveErr THEN "serve http" ELSE "ok")
    /\ UNCHANGED <<ctxDone, server, errCh, serveErr, expired, requests, workers,
                   pool, lost>>

\* The third select.
DrainWorkers ==
    /\ main = "draining"
    /\ \/ workersDone /\ Return(IF serveErr THEN "serve http" ELSE "ok")
       \/ expired /\ Return("workers did not stop")
    /\ UNCHANGED <<ctxDone, server, errCh, serveErr, expired, requests, workers,
                   pool, lost>>

\* The deferred db.Close: no new connection, then none left in use.
ClosePool ==
    /\ main = "returning" /\ pool = "open"
    /\ pool' = "closing"
    /\ UNCHANGED <<main, ctxDone, server, errCh, serveErr, expired, requests,
                   workers, lost, result>>

Exit ==
    /\ main = "returning" /\ pool = "closing"
    /\ \A w \in Workers : workers[w] # "finishing"
    /\ \A q \in Requests : requests[q] # "querying"
    /\ pool' = "closed"
    /\ main' = "exited"
    /\ UNCHANGED <<ctxDone, server, errCh, serveErr, expired, requests, workers,
                   lost, result>>

-----------------------------------------------------------------------------
Init ==
    /\ main = "serving" /\ ctxDone = FALSE
    /\ server = "listening" /\ errCh = NULL
    /\ serveErr = FALSE /\ expired = FALSE
    /\ requests = [q \in Requests |-> "none"]
    /\ workers = [w \in Workers |-> "idle"]
    /\ pool = "open" /\ lost = {} /\ result = NULL

Main ==
    AwaitEnd \/ CloseListener \/ AwaitRequests \/ ReapServer \/ DrainWorkers
        \/ ClosePool \/ Exit

Worker(w) == Claim(w) \/ Deliver(w) \/ Finish(w) \/ Stop(w)

Next ==
    \/ Signal \/ ListenAndServe \/ Expire \/ Main
    \/ \E q \in Requests : Serve(q) \/ Query(q) \/ Respond(q)
    \/ \E w \in Workers : Worker(w)

\* Main runs when it can, the timer fires, a worker's request and result end by
\* their timeouts, and the database answers a query.  Nothing is assumed of the
\* clients: a request may stay open.
Fairness ==
    /\ WF_vars(Main) /\ WF_vars(Expire)
    /\ \A w \in Workers : WF_vars(Deliver(w)) /\ WF_vars(Finish(w)) /\ WF_vars(Stop(w))
    /\ \A q \in Requests : WF_vars(Respond(q))

Spec == Init /\ [][Next]_vars /\ Fairness

-----------------------------------------------------------------------------
\* A process that ends without an error, or because it could not listen, has
\* waited for every worker, and no result met a closed database.
ReportedEndIsClean ==
    result \in {"ok", "serve http"} => workersDone /\ lost = {}

\* No request is cut off before SHUTDOWN_TIMEOUT has passed.
RequestsAreServed == main \in {"returning", "exited"} /\ ~noRequests => expired

\* A process that is told to end, or whose server fails, ends: whichever of
\* the signal and the server's error comes first, and however long its clients keep
\* their requests open.
ProcessEnds == (ctxDone \/ errCh # NULL) ~> (main = "exited")

\* README.md: the service "supports graceful shutdown": before the timeout no
\* delivery result is lost to the closing of the database.
GracefulShutdown == lost # {} => expired
=============================================================================
