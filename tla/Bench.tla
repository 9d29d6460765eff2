------------------------------- MODULE Bench -------------------------------
(***************************************************************************)
(* The load generator cmd/relaybench/main.go: run hands sequence numbers   *)
(* over an unbuffered channel to its workers, the workers publish one      *)
(* event each and send samples over a buffered channel, and the collector  *)
(* turns them into the report.  Two more goroutines close the channels: the*)
(* producer closes jobs when it is through or cancelled, and a closer      *)
(* closes results when all workers have returned.                          *)
(***************************************************************************)
EXTENDS Integers, Sequences, FiniteSets

CONSTANTS Requests,      \* -requests
          Concurrency,   \* -concurrency, as given
          Durations,     \* how long a request may take
          NULL

\* parseConfig's lower limits; nothing here rests on its upper ones (1000000
\* requests, 1000 workers).
ASSUME BenchAssumption ==
    /\ Requests \in Nat \ {0} /\ Concurrency \in Nat \ {0}
    /\ Durations \subseteq Nat
    /\ NULL \notin Int

VARIABLES next,        \* the sequence number the producer offers
          jobs,        \* the channel jobs: open or closed
          workers,     \* the publishing goroutines
          results,     \* the buffer of the channel results
          resultsOpen,
          report,
          latencies,
          cancelled,   \* ctx.Done()
          stored       \* the sequence numbers whose event the service stored

vars == <<next, jobs, workers, results, resultsOpen, report, latencies,
          cancelled, stored>>

-----------------------------------------------------------------------------
\* parseConfig: more workers than requests would only wait.
Workers == 1 .. (IF Concurrency > Requests THEN Requests ELSE Concurrency)

Samples == [ok : BOOLEAN, duration : Durations]

\* What publish returns, and whether the service has stored the event: accepted
\* with a 202; answered otherwise, or with a body that breaks off (both after
\* the service may have stored it); or never answered, by timeout, cancellation
\* or a broken connection.
Outcomes ==
    [sample : {s \in Samples : s.ok}, stored : {TRUE}]
    \cup [sample : {s \in Samples : ~s.ok}, stored : BOOLEAN]

Receiving == [pc |-> "receiving", sequence |-> NULL, sample |-> NULL]

NoReport ==
    [completed |-> 0, accepted |-> 0, failed |-> 0, notStarted |-> NULL,
     latency |-> NULL]

-----------------------------------------------------------------------------
Init ==
    /\ next = 1
    /\ jobs = "open"
    /\ workers = [w \in Workers |-> Receiving]
    /\ results = <<>> /\ resultsOpen = TRUE
    /\ report = NoReport /\ latencies = <<>>
    /\ cancelled = FALSE
    /\ stored = {}

\* jobs <- sequence, received by w.  A select with both cases ready takes
\* either, so the producer may hand out jobs after the cancellation.
Produce(w) ==
    /\ jobs = "open" /\ next <= Requests
    /\ workers[w].pc = "receiving"
    /\ workers' = [workers EXCEPT ![w] = [pc |-> "publishing", sequence |-> next,
                                          sample |-> NULL]]
    /\ next' = next + 1
    /\ UNCHANGED <<jobs, results, resultsOpen, report, latencies, cancelled, stored>>

\* Mutant: a cancelled producer returns without closing the channel.
CloseJobs_NotOnCancel ==
    /\ jobs = "open"
    /\ next > Requests \/ cancelled
    /\ jobs' = IF next > Requests THEN "closed" ELSE "abandoned"
    /\ UNCHANGED <<next, workers, results, resultsOpen, report, latencies,
                   cancelled, stored>>

\* The producer is through, or takes the case <-ctx.Done().
CloseJobs ==
    /\ jobs = "open"
    /\ next > Requests \/ cancelled
    /\ jobs' = "closed"
    /\ UNCHANGED <<next, workers, results, resultsOpen, report, latencies,
                   cancelled, stored>>

publish(w) ==
    /\ workers[w].pc = "publishing"
    /\ \E outcome \in Outcomes :
          /\ workers' = [workers EXCEPT ![w].pc = "sending",
                                        ![w].sample = outcome.sample]
          /\ stored' = IF outcome.stored THEN stored \cup {workers[w].sequence}
                       ELSE stored
    /\ UNCHANGED <<next, jobs, results, resultsOpen, report, latencies, cancelled>>

\* results <- sample
SendResult(w) ==
    /\ workers[w].pc = "sending"
    /\ Len(results) < Cardinality(Workers)
    /\ results' = Append(results, workers[w].sample)
    /\ workers' = [workers EXCEPT ![w] = Receiving]
    /\ UNCHANGED <<next, jobs, resultsOpen, report, latencies, cancelled, stored>>

\* range jobs ends.
Return(w) ==
    /\ workers[w].pc = "receiving" /\ jobs = "closed"
    /\ workers' = [workers EXCEPT ![w].pc = "done"]
    /\ UNCHANGED <<next, jobs, results, resultsOpen, report, latencies,
                   cancelled, stored>>

\* Mutant: results is closed together with jobs.
CloseResults_NoWait ==
    /\ resultsOpen /\ jobs = "closed"
    /\ resultsOpen' = FALSE
    /\ UNCHANGED <<next, jobs, workers, results, report, latencies, cancelled,
                   stored>>

\* workers.Wait(), close(results)
CloseResults ==
    /\ resultsOpen
    /\ \A w \in Workers : workers[w].pc = "done"
    /\ resultsOpen' = FALSE
    /\ UNCHANGED <<next, jobs, workers, results, report, latencies, cancelled,
                   stored>>

\* range results: one sample is counted.
Collect ==
    /\ results # <<>> /\ report.notStarted = NULL
    /\ LET sample == Head(results)
       IN  /\ report' = [report EXCEPT
                            !.completed = report.completed + 1,
                            !.accepted = report.accepted + (IF sample.ok THEN 1 ELSE 0),
                            !.failed = report.failed + (IF sample.ok THEN 0 ELSE 1)]
           /\ latencies' = Append(latencies, sample.duration)
    /\ results' = Tail(results)
    /\ UNCHANGED <<next, jobs, workers, resultsOpen, cancelled, stored>>

\* Mutant: the rank is rounded down.
percentile_Floor(values, quantile) ==
    values[(Len(values) * quantile) \div 100 + 1]

\* values[ceil(n * quantile) - 1], counted from 0 there and from 1 here; the
\* quantile is in hundredths.
percentile(values, quantile) == values[(Len(values) * quantile + 99) \div 100]

Quantiles == {50, 95, 99}

Rearrangements(n) ==
    {order \in [1 .. n -> 1 .. n] : \A i, j \in 1 .. n : order[i] = order[j] => i = j}

InOrder(samples, order) ==
    \A i, j \in 1 .. Len(samples) : i < j => samples[order[i]] <= samples[order[j]]

\* sort.Slice
Sorted(samples) ==
    LET order == CHOOSE o \in Rearrangements(Len(samples)) : InOrder(samples, o)
    IN  [i \in 1 .. Len(samples) |-> samples[order[i]]]

summarizeLatency(samples) ==
    LET values == Sorted(samples)
    IN  IF samples = <<>> THEN NULL
        ELSE [min |-> Head(values), max |-> values[Len(values)],
              at |-> [q \in Quantiles |-> percentile(values, q)]]

\* range results ends: what is missing was not started.
Report ==
    /\ ~resultsOpen /\ results = <<>> /\ report.notStarted = NULL
    /\ LET missing == Requests - report.completed
       IN  report' = [report EXCEPT !.failed = report.failed + missing,
                                    !.notStarted = missing,
                                    !.latency = summarizeLatency(latencies)]
    /\ UNCHANGED <<next, jobs, workers, results, resultsOpen, latencies,
                   cancelled, stored>>

\* The interrupt signal.
Cancel ==
    /\ ~cancelled
    /\ cancelled' = TRUE
    /\ UNCHANGED <<next, jobs, workers, results, resultsOpen, report, latencies,
                   stored>>

-----------------------------------------------------------------------------
Work(w) == Produce(w) \/ publish(w) \/ SendResult(w) \/ Return(w)

Next ==
    \/ \E w \in Workers : Work(w)
    \/ CloseJobs \/ CloseResults \/ Collect \/ Report \/ Cancel

\* Goroutines run when they can; publish returns because its context has a
\* timeout.  Nobody has to cancel.
Fairness ==
    /\ \A w \in Workers :
          /\ WF_vars(Produce(w)) /\ WF_vars(publish(w))
          /\ WF_vars(SendResult(w)) /\ WF_vars(Return(w))
    /\ WF_vars(CloseJobs) /\ WF_vars(CloseResults)
    /\ WF_vars(Collect) /\ WF_vars(Report)

Spec == Init /\ [][Next]_vars /\ Fairness

-----------------------------------------------------------------------------
Reported == report.notStarted # NULL

\* The report accounts for every request: each is accepted or failed, the ones
\* called "not started" were never handed to a worker, and an event that the
\* service stored belongs to a request that was counted, wherever the
\* cancellation met the pipeline.
ReportIsTrue ==
    Reported =>
        /\ report.accepted + report.failed = Requests
        /\ report.notStarted = Requests - (next - 1)
        /\ report.accepted <= Cardinality(stored)
        /\ Cardinality(stored) <= report.completed

\* A reported quantile is the smallest latency that at least so many of the
\* completed requests did not exceed.
QuantilesAreRanks ==
    Reported /\ latencies # <<>> =>
        \A q \in Quantiles :
            LET p == report.latency.at[q]
                n == Len(latencies)
                AtMostCount(v) == Cardinality({i \in 1 .. n : latencies[i] <= v})
            IN  /\ 100 * AtMostCount(p) >= q * n
                /\ \A i \in 1 .. n :
                      latencies[i] < p => 100 * AtMostCount(latencies[i]) < q * n

\* run returns its report: no goroutine waits for ever on a channel, whether or
\* not it is cancelled.
BenchEnds == <>Reported
=============================================================================
