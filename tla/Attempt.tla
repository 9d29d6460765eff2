------------------------------ MODULE Attempt ------------------------------
(***************************************************************************)
(* One worker's attempts at one delivery, as values: what                  *)
(* Dispatcher.Deliver (internal/webhook/dispatcher.go) answers, what       *)
(* Pool.process (internal/worker/pool.go) makes of the answer with the     *)
(* process's settings, what validateAttemptResult (internal/store/queue.go)*)
(* accepts, and what PostgreSQL takes.  They have to agree for a result to *)
(* be recorded; a result that is refused is lost, and its attempt ends as  *)
(* an expired lease.                                                       *)
(*                                                                         *)
(* A text is known by what becomes of it: "plain"; "nul", with a zero byte;*)
(* "malformed", not valid UTF-8; "wide", longer than its limit with a      *)
(* character of several bytes across the limit.                            *)
(***************************************************************************)
EXTENDS Policy, Config

CONSTANTS NULL,
          Settings,      \* the settings to try
          Samples,       \* what rand.Float64 may return, in Unit-ths
          StatusCodes,   \* what receivers may answer
          ResponseBodies,
          ErrorMessages, \* what err.Error() may return
          Elapsed,       \* completedAt - startedAt, by the wall clock
          MaxAttempts    \* bound: the attempt limit of the delivery

Texts == {"plain", "nul", "malformed", "wide"}

ASSUME AttemptAssumption ==
    /\ Samples \subseteq 0 .. Unit
    /\ StatusCodes \subseteq 0 .. 999     \* three digits, net/http checks no more
    /\ NULL \notin StatusCodes
    /\ ResponseBodies \subseteq Texts /\ ErrorMessages \subseteq Texts
    /\ Elapsed \subseteq Int              \* .UTC() drops the monotonic reading
    /\ MaxAttempts \in Nat \ {0}
    /\ \A c \in Settings :
          c.base \in Int /\ c.max \in Int /\ c.cooldown \in Int /\ c.jitter \in Int \cup {NaN}
    /\ NULL \notin Texts

VARIABLES settings,   \* the process's configuration
          attempt,    \* job.Delivery.AttemptCount
          stage,      \* dispatching, answered, finishing, accepted, refused
          answer,     \* webhook.Result
          finish,     \* store.AttemptResult
          cancelled   \* ctx.Err() # nil

vars == <<settings, attempt, stage, answer, finish, cancelled>>

-----------------------------------------------------------------------------
(***************************************************************************)
(* The dispatcher.                                                         *)
(***************************************************************************)

\* Cutting at a byte offset splits a character that lies across it.
Cut(text) == IF text = "wide" THEN "malformed" ELSE text

\* strings.ToValidUTF8
ToValidUTF8(text) == IF text = "malformed" THEN "plain" ELSE text

\* A body is cut to the response limit first and made valid then.
validText(body) == ToValidUTF8(Cut(body))

\* An error message is made valid first and cut then; a zero byte is valid UTF-8
\* and stays.
errorText(message) == Cut(ToValidUTF8(message))

\* failed: no status code, and always an error message.
failed(decision, signal, message, elapsed) ==
    [decision |-> decision, statusCode |-> NULL, body |-> "plain",
     error |-> errorText(message), circuit |-> signal, duration |-> elapsed]

\* The message of a body that could not be read, NULL for none.
readError(error) == IF error = NULL THEN NULL ELSE errorText(error)

\* Mutant: a body that cannot be read makes a retry of any answer.
answered_ReadErrorRetries(code, body, error, elapsed) ==
    [decision |-> Evaluate(code, error # NULL), statusCode |-> code,
     body |-> validText(body), error |-> readError(error),
     circuit |-> circuitSignal(code), duration |-> elapsed]

\* An answer with a status code; reading its body may have failed, which is
\* noted and changes nothing else.
answered(code, body, error, elapsed) ==
    [decision |-> Evaluate(code, FALSE), statusCode |-> code,
     body |-> validText(body), error |-> readError(error),
     circuit |-> circuitSignal(code), duration |-> elapsed]

\* Deliver's returns: a secret that cannot be decrypted, a timeout that is not
\* positive, a target that makes no request or is not HTTPS; a request that
\* cannot be sent or times out; a response, read to its end or not.  The messages
\* quote URLs, host names and what peers sent, and may be any text.
Deliver(elapsed) ==
    {failed("discard", "none", message, elapsed) : message \in ErrorMessages}
    \cup {failed("retry", "failure", message, elapsed) : message \in ErrorMessages}
    \cup {answered(code, body, error, elapsed) :
             code \in StatusCodes, body \in ResponseBodies,
             error \in {NULL} \cup ErrorMessages}

\* process: the worker's result.  delay is NextAttemptAt - CompletedAt.
process(result, delay) ==
    [decision |-> result.decision, statusCode |-> result.statusCode,
     body |-> result.body, error |-> result.error, duration |-> result.duration,
     delay |-> IF result.decision = "retry" THEN delay ELSE NULL,
     circuit |-> IF cancelled THEN "none" ELSE result.circuit]

\* The store's checks.
validateAttemptResult(f) ==
    /\ f.decision \in Decisions
    /\ f.statusCode # NULL => f.statusCode \in 100 .. 599
    /\ f.statusCode = NULL => f.error # NULL /\ f.decision # "succeed"
    /\ f.statusCode # NULL => Evaluate(f.statusCode, FALSE) = f.decision
    /\ f.duration >= 0
    /\ f.decision = "retry" => f.delay > 0
    /\ f.circuit \in CircuitOutcomes
    /\ f.circuit = "failure" => settings.cooldown >= Millisecond

\* PostgreSQL stores valid UTF-8 without zero bytes in a text column.
Storable(f) == f.body = "plain" /\ f.error \in {NULL, "plain"}

-----------------------------------------------------------------------------
NoResult == [decision |-> NULL]

Init ==
    /\ settings \in {c \in Settings : Starts(c)}
    /\ attempt = 1
    /\ stage = "dispatching"
    /\ answer = NoResult /\ finish = NoResult
    /\ cancelled = FALSE

Dispatch ==
    /\ stage = "dispatching"
    /\ stage' = "answered"
    /\ \E elapsed \in Elapsed : answer' \in Deliver(elapsed)
    /\ UNCHANGED <<settings, attempt, finish, cancelled>>

Process ==
    /\ stage = "answered"
    /\ stage' = "finishing"
    /\ \E sample \in Samples :
          \E delay \in NextDelay(settings, attempt, sample) :
              finish' = process(answer, delay)
    /\ UNCHANGED <<settings, attempt, answer, cancelled>>

FinishAttempt ==
    /\ stage = "finishing"
    /\ stage' = IF validateAttemptResult(finish) /\ Storable(finish)
                THEN "accepted" ELSE "refused"
    /\ UNCHANGED <<settings, attempt, answer, finish, cancelled>>

\* The next attempt: after an accepted retry, or after the lease has run out on
\* a refused result.
NextAttempt ==
    /\ \/ stage = "accepted" /\ finish.decision = "retry"
       \/ stage = "refused"
    /\ attempt < MaxAttempts
    /\ attempt' = attempt + 1
    /\ stage' = "dispatching"
    /\ answer' = NoResult /\ finish' = NoResult
    /\ UNCHANGED <<settings, cancelled>>

Cancel ==
    /\ ~cancelled
    /\ cancelled' = TRUE
    /\ UNCHANGED <<settings, attempt, stage, answer, finish>>

Next == Dispatch \/ Process \/ FinishAttempt \/ NextAttempt \/ Cancel

Spec == Init /\ [][Next]_vars

-----------------------------------------------------------------------------
\* The jitter can make a delay of nothing: it is all of the delay, or not a
\* number, or all but less than a unit of it.
JitterCanEatDelay(c) ==
    c.jitter = NaN \/ (c.base * (Unit - c.jitter)) \div Unit = 0

\* Of what dispatcher and worker build, the store and the database refuse no
\* more than this: answers outside the registry's status codes, attempts
\* during which the wall clock went back, retries under a jitter that can eat
\* the delay, failures under a cooldown below a millisecond, a body with a zero
\* byte, and an error message, of a request that failed or of a body that could
\* not be read, that has a zero byte or was cut inside a character.  Every other
\* result of a configuration that Load accepts is recorded.
RefusalsExplained ==
    stage = "refused" =>
        \/ answer.statusCode # NULL /\ answer.statusCode \notin 100 .. 599
        \/ answer.duration < 0
        \/ answer.decision = "retry" /\ JitterCanEatDelay(settings)
        \/ answer.circuit = "failure" /\ settings.cooldown < Millisecond
        \/ answer.body = "nul"
        \/ answer.error \in {"nul", "malformed"}

Doubled(x, times) ==
    LET y[n \in 0 .. times] == IF n = 0 THEN x ELSE 2 * y[n - 1] IN y[times]

\* The exponential schedule with its cap, written as it is meant.
ReferenceDelay(p, n) == AtMost(Doubled(p.base, n - 1), p.max)

\* A retry waits for the reference delay, give or take the jitter, and never
\* longer than the cap.  (The doubling loop jumps to an odd cap one unit
\* early.)
DelayFollowsSchedule ==
    stage \in {"finishing", "accepted"} /\ finish.decision = "retry"
        /\ settings.jitter # NaN =>
        \E b \in {ReferenceDelay(settings, attempt), settings.max} :
            /\ b - ReferenceDelay(settings, attempt) <= 1
            /\ finish.delay >= (b * (Unit - settings.jitter)) \div Unit
            /\ finish.delay <= AtMost((b * (Unit + settings.jitter)) \div Unit,
                                      settings.max)

\* What is counted against an endpoint is tried again, and an accepted webhook
\* never is: the dispatcher's circuit signal and the delivery package's
\* decision read the status code alike.
ChargedIsRetried ==
    stage \in {"finishing", "accepted"} =>
        /\ finish.circuit = "failure" => finish.decision = "retry"
        /\ finish.decision = "succeed" => finish.circuit # "failure"

\* README.md: workers "persist immutable attempts": an HTTP answer is recorded.
EveryAnswerRecorded == ~(stage = "refused" /\ finish.statusCode # NULL)
=============================================================================
