----------------------------- MODULE BenchProofs -----------------------------
(***************************************************************************)
(* Proofs about module Bench, for any number of requests and workers and   *)
(* any latencies.  A request that was handed out is with a worker, in the  *)
(* channel of results or in the report, and counting the three is what     *)
(* the report's figures rest on.  The quantiles rest on the samples having *)
(* a sorted rearrangement, which every sequence of numbers has: order them *)
(* by value and, where values tie, by place, and put each at its rank.     *)
(***************************************************************************)
EXTENDS Bench, FiniteSetTheorems, TLAPS

LEMMA LimitsAreNumbers ==
    /\ Requests \in Nat /\ Concurrency \in Nat /\ Durations \subseteq Nat
    /\ NULL \notin Int
BY BenchAssumption

LEMMA IntervalIsFinite ==
    ASSUME NEW n \in Nat
    PROVE  IsFiniteSet(1 .. n) /\ Cardinality(1 .. n) = n
BY FS_Interval

-----------------------------------------------------------------------------
(***************************************************************************)
(* Sorting and ranks.                                                      *)
(***************************************************************************)

\* A rearrangement reaches every place.
LEMMA RearrangementIsOnto ==
    ASSUME NEW n \in Nat, NEW order \in Rearrangements(n)
    PROVE  \A k \in 1 .. n : \E i \in 1 .. n : order[i] = k
<1>1. order \in Injection(1 .. n, 1 .. n)
  BY DEF Rearrangements, Injection, IsInjective
<1>2. order \in Surjection(1 .. n, 1 .. n)
  BY <1>1, IntervalIsFinite, FS_Injection
<1>3. QED
  BY <1>2 DEF Surjection

\* i comes no later than j when the samples are sorted, ties by place.
NoLater(samples, i, j) ==
    samples[i] < samples[j] \/ (samples[i] = samples[j] /\ i <= j)

UpTo(samples, j) == {i \in 1 .. Len(samples) : NoLater(samples, i, j)}

LEMMA RanksAreInjective ==
    ASSUME NEW samples \in Seq(Int)
    PROVE  LET n == Len(samples)
           IN  /\ \A j \in 1 .. n : Cardinality(UpTo(samples, j)) \in 1 .. n
               /\ \A i, j \in 1 .. n :
                     NoLater(samples, i, j) /\ i # j =>
                         Cardinality(UpTo(samples, i)) < Cardinality(UpTo(samples, j))
<1> DEFINE n == Len(samples)
           Before(j) == UpTo(samples, j)
<1>1. n \in Nat /\ \A i \in 1 .. n : samples[i] \in Int
  OBVIOUS
<1>2. IsFiniteSet(1 .. n) /\ Cardinality(1 .. n) = n
  BY <1>1, IntervalIsFinite
<1>3. ASSUME NEW j \in 1 .. n
      PROVE  /\ IsFiniteSet(Before(j)) /\ Cardinality(Before(j)) \in Nat
             /\ Cardinality(Before(j)) <= n
             /\ j \in Before(j)
  <2>1. Before(j) \in SUBSET (1 .. n) /\ j \in Before(j)
    BY <1>1 DEF UpTo, NoLater
  <2>2. QED
    BY <1>2, <2>1, FS_Subset, FS_CardinalityType
<1>4. ASSUME NEW j \in 1 .. n PROVE Cardinality(Before(j)) \in 1 .. n
  <2>1. Before(j) # {}
    BY <1>3
  <2>2. Cardinality(Before(j)) # 0
    BY <1>3, <2>1, FS_EmptySet
  <2> HIDE DEF Before, n
  <2>3. QED
    BY <1>1, <1>3, <2>2
<1>5. ASSUME NEW i \in 1 .. n, NEW j \in 1 .. n, NoLater(samples, i, j), i # j
      PROVE  Cardinality(Before(i)) < Cardinality(Before(j))
  <2>1. samples[i] \in Int /\ samples[j] \in Int /\ i \in Int /\ j \in Int
    BY <1>1
  <2>2. ~NoLater(samples, j, i)
    BY <1>5, <2>1 DEF NoLater
  <2>3. ASSUME NEW k \in 1 .. n, NoLater(samples, k, i) PROVE NoLater(samples, k, j)
    <3>1. samples[k] \in Int /\ k \in Int
      BY <1>1
    <3>2. QED
      BY <1>5, <2>1, <2>3, <3>1 DEF NoLater
  <2>4. Before(i) \in SUBSET Before(j) /\ j \notin Before(i)
    BY <2>2, <2>3 DEF UpTo
  <2>5. Before(i) # Before(j)
    BY <1>3, <2>4
  <2> HIDE DEF Before, n
  <2>6. /\ Cardinality(Before(i)) <= Cardinality(Before(j))
        /\ Cardinality(Before(i)) # Cardinality(Before(j))
    BY <1>3, <2>4, <2>5, FS_Subset
  <2>7. QED
    BY <1>3, <2>6
<1>6. QED
  BY <1>4, <1>5

\* Every sequence of numbers can be sorted.
LEMMA SortedOrderExists ==
    ASSUME NEW samples \in Seq(Int)
    PROVE  \E order \in Rearrangements(Len(samples)) : InOrder(samples, order)
<1> DEFINE n == Len(samples)
           rank == [j \in 1 .. n |-> Cardinality(UpTo(samples, j))]
<1>1. n \in Nat /\ \A i \in 1 .. n : samples[i] \in Int
  OBVIOUS
<1>2. rank \in [1 .. n -> 1 .. n]
  BY RanksAreInjective
<1>3. \A i, j \in 1 .. n : NoLater(samples, i, j) /\ i # j => rank[i] < rank[j]
  BY RanksAreInjective
<1> HIDE DEF rank, n
<1>4. \A i, j \in 1 .. n : NoLater(samples, i, j) \/ NoLater(samples, j, i)
  BY <1>1 DEF NoLater
<1>5. ASSUME NEW i \in 1 .. n, NEW j \in 1 .. n, rank[i] = rank[j] PROVE i = j
  <2>1. rank[i] \in Int /\ ~(rank[i] < rank[j]) /\ ~(rank[j] < rank[i])
    BY <1>1, <1>2, <1>5
  <2>2. QED
    BY <1>3, <1>4, <2>1, Zenon
<1>6. rank \in Rearrangements(n)
  BY <1>2, <1>5 DEF Rearrangements
<1>7. \A k \in 1 .. n : \E i \in 1 .. n : rank[i] = k
  BY <1>1, <1>6, RearrangementIsOnto
<1> DEFINE order == [k \in 1 .. n |-> CHOOSE i \in 1 .. n : rank[i] = k]
<1>8. \A k \in 1 .. n : order[k] \in 1 .. n /\ rank[order[k]] = k
  BY <1>7
<1>9. order \in Rearrangements(n)
  <2>1. order \in [1 .. n -> 1 .. n]
    BY <1>8
  <2>2. \A k, l \in 1 .. n : order[k] = order[l] => k = l
    BY <1>8
  <2> HIDE DEF order
  <2>3. QED
    BY <2>1, <2>2 DEF Rearrangements
<1>10. ASSUME NEW k \in 1 .. n, NEW l \in 1 .. n, k < l
       PROVE  samples[order[k]] <= samples[order[l]]
  <2> HIDE DEF order
  <2> DEFINE i == order[k]
             j == order[l]
  <2>1. i \in 1 .. n /\ j \in 1 .. n /\ rank[i] = k /\ rank[j] = l
    BY <1>8
  <2>2. samples[i] \in Int /\ samples[j] \in Int
    BY <1>1, <2>1
  <2> HIDE DEF i, j
  <2>3. i # j /\ ~(rank[j] < rank[i])
    BY <1>1, <1>10, <2>1
  <2>4. NoLater(samples, i, j)
    BY <1>3, <1>4, <2>1, <2>3
  <2>5. samples[i] <= samples[j]
    BY <2>2, <2>4 DEF NoLater
  <2>6. QED
    BY <2>5 DEF i, j
<1>11. InOrder(samples, order)
  <2> HIDE DEF order
  <2>1. QED
    BY <1>10 DEF InOrder, n
<1>12. QED
  BY <1>9, <1>11 DEF n

\* What sort.Slice leaves: the same samples, in order.
LEMMA SortedIsSorted ==
    ASSUME NEW samples \in Seq(Int)
    PROVE  \E order \in Rearrangements(Len(samples)) :
              /\ Sorted(samples) = [i \in 1 .. Len(samples) |-> samples[order[i]]]
              /\ InOrder(samples, order)
<1> DEFINE order == CHOOSE o \in Rearrangements(Len(samples)) : InOrder(samples, o)
<1>1. order \in Rearrangements(Len(samples)) /\ InOrder(samples, order)
  BY SortedOrderExists
<1>2. Sorted(samples) = [i \in 1 .. Len(samples) |-> samples[order[i]]]
  BY DEF Sorted
<1>3. QED
  BY <1>1, <1>2

\* Of the samples, those at the first k places of a rearrangement are k.
LEMMA FirstPlaces ==
    ASSUME NEW n \in Nat, NEW order \in Rearrangements(n), NEW k \in 0 .. n
    PROVE  LET first == {order[i] : i \in 1 .. k}
           IN  IsFiniteSet(first) /\ Cardinality(first) = k
<1> DEFINE first == {order[i] : i \in 1 .. k}
           place == [i \in 1 .. k |-> order[i]]
<1>1. \A i \in 1 .. k : i \in 1 .. n
  OBVIOUS
<1>2. place \in [1 .. k -> first]
  OBVIOUS
<1>3. \A i, j \in 1 .. k : place[i] = place[j] => i = j
  BY <1>1 DEF Rearrangements
<1>4. \A x \in first : \E i \in 1 .. k : place[i] = x
  OBVIOUS
<1>5. ExistsBijection(1 .. k, first)
  <2> HIDE DEF place, first
  <2>1. QED
    BY <1>2, <1>3, <1>4
       DEF ExistsBijection, Bijection, Injection, Surjection, IsInjective
<1>6. IsFiniteSet(1 .. k) /\ Cardinality(1 .. k) = k
  BY IntervalIsFinite
<1>7. QED
  BY <1>5, <1>6, FS_Bijection

\* The rank of a quantile: the least number of samples that is not less than
\* the share asked for.
LEMMA RankOfQuantile ==
    ASSUME NEW n \in Nat \ {0}, NEW q \in Quantiles
    PROVE  LET rank == (n * q + 99) \div 100
           IN  rank \in 1 .. n /\ 100 * rank >= q * n /\ 100 * (rank - 1) < q * n
<1>1. \A x \in Int : /\ x \div 100 \in Int
                     /\ 100 * (x \div 100) <= x /\ x < 100 * (x \div 100) + 100
  OBVIOUS
<1>2. PICK x : x = n * q + 99
  OBVIOUS
<1>3. q \in {50, 95, 99}
  BY DEF Quantiles
<1>4. CASE q = 50
  BY <1>1, <1>2, <1>4
<1>5. CASE q = 95
  BY <1>1, <1>2, <1>5
<1>6. CASE q = 99
  BY <1>1, <1>2, <1>6
<1>7. QED
  BY <1>3, <1>4, <1>5, <1>6

\* p is the smallest sample that a share of q hundredths does not exceed.
IsQuantile(samples, q, p) ==
    LET n == Len(samples)
        AtMostCount(v) == Cardinality({i \in 1 .. n : samples[i] <= v})
    IN  /\ 100 * AtMostCount(p) >= q * n
        /\ \A i \in 1 .. n :
              samples[i] < p => 100 * AtMostCount(samples[i]) < q * n

\* What summarizeLatency computes by index is what a quantile means by count.
THEOREM PercentileIsQuantile ==
    ASSUME NEW samples \in Seq(Int), samples # <<>>, NEW q \in Quantiles
    PROVE  IsQuantile(samples, q, summarizeLatency(samples).at[q])
<1> DEFINE n == Len(samples)
           rank == (n * q + 99) \div 100
           p == summarizeLatency(samples).at[q]
           AtMost(v) == {i \in 1 .. n : samples[i] <= v}
           share == q * n
<1>1. n \in Nat \ {0} /\ \A i \in 1 .. n : samples[i] \in Int
  OBVIOUS
<1>2. PICK order \in Rearrangements(n) :
          /\ Sorted(samples) = [i \in 1 .. n |-> samples[order[i]]]
          /\ InOrder(samples, order)
  BY SortedIsSorted
<1>3. /\ share \in Int /\ rank \in 1 .. n /\ rank \in Int
      /\ 100 * rank >= share /\ 100 * (rank - 1) < share
  BY <1>1, RankOfQuantile DEF Quantiles
<1>4. p = samples[order[rank]]
  <2>1. Len(Sorted(samples)) = n
    BY <1>1, <1>2
  <2>2. p = Sorted(samples)[rank]
    BY <2>1 DEF summarizeLatency, percentile
  <2> HIDE DEF rank, p, n
  <2>3. QED
    BY <1>2, <1>3, <2>2
<1> HIDE DEF n, rank, p, share
<1>5. order \in [1 .. n -> 1 .. n]
  BY DEF Rearrangements
<1>6. \A i, j \in 1 .. n : i < j => samples[order[i]] <= samples[order[j]]
  BY <1>2 DEF InOrder, n
<1>7. \A i \in 1 .. n : samples[order[i]] \in Int
  BY <1>1, <1>5
<1>8. p \in Int
  BY <1>3, <1>4, <1>7
<1>9. ASSUME NEW v \in Int
      PROVE  IsFiniteSet(AtMost(v)) /\ Cardinality(AtMost(v)) \in Nat
  <2>1. AtMost(v) \in SUBSET (1 .. n)
    OBVIOUS
  <2>2. QED
    BY <1>1, <2>1, IntervalIsFinite, FS_Subset, FS_CardinalityType
<1>10. 100 * Cardinality(AtMost(p)) >= share
  <2> DEFINE first == {order[i] : i \in 1 .. rank}
  <2>1. IsFiniteSet(first) /\ Cardinality(first) = rank
    <3>1. n \in Nat /\ rank \in 0 .. n
      BY <1>1, <1>3
    <3>2. QED
      BY <3>1, FirstPlaces
  <2>2. ASSUME NEW i \in 1 .. rank PROVE order[i] \in AtMost(p)
    <3>1. i \in 1 .. n /\ (i = rank \/ i < rank)
      BY <1>1, <1>3
    <3>2. samples[order[i]] <= p
      BY <1>3, <1>4, <1>6, <1>8, <3>1
    <3>3. QED
      BY <1>5, <3>1, <3>2
  <2>3. first \in SUBSET AtMost(p)
    BY <2>2
  <2> HIDE DEF first, AtMost
  <2>4. rank <= Cardinality(AtMost(p))
    BY <1>8, <1>9, <2>1, <2>3, FS_Subset
  <2>5. QED
    BY <1>1, <1>3, <1>8, <1>9, <2>4
<1>11. ASSUME NEW i \in 1 .. n, samples[i] < p
       PROVE  100 * Cardinality(AtMost(samples[i])) < share
  <2> DEFINE first == {order[k] : k \in 1 .. rank - 1}
  <2>1. rank - 1 \in 0 .. n
    BY <1>1, <1>3
  <2>2. IsFiniteSet(first) /\ Cardinality(first) = rank - 1
    BY <1>1, <2>1, FirstPlaces
  <2>3. ASSUME NEW j \in AtMost(samples[i]) PROVE j \in first
    <3>1. PICK k \in 1 .. n : order[k] = j
      BY <1>1, RearrangementIsOnto
    <3>2. samples[j] < p
      BY <1>1, <1>8, <1>11
    <3>3. k < rank
      <4>1. SUFFICES ASSUME rank <= k PROVE FALSE
        BY <1>1, <1>3
      <4>2. k = rank \/ rank < k
        BY <1>1, <1>3, <4>1
      <4>3. p <= samples[j]
        BY <1>3, <1>4, <1>6, <1>8, <3>1, <4>2
      <4>4. QED
        BY <1>1, <1>7, <1>8, <3>1, <3>2, <4>3
    <3>4. QED
      BY <1>1, <1>3, <3>1, <3>3
  <2>4. AtMost(samples[i]) \in SUBSET first /\ samples[i] \in Int
    BY <1>1, <2>3
  <2> HIDE DEF first, AtMost
  <2>5. Cardinality(AtMost(samples[i])) <= rank - 1
    BY <2>2, <2>4, FS_Subset
  <2>6. Cardinality(AtMost(samples[i])) \in Nat
    BY <1>9, <2>4, Zenon
  <2>7. QED
    BY <1>3, <2>5, <2>6
<1>12. QED
  BY <1>10, <1>11 DEF IsQuantile, n, p, share

-----------------------------------------------------------------------------
(***************************************************************************)
(* The pipeline.                                                           *)
(***************************************************************************)

WorkerRows ==
    [pc : {"receiving", "publishing", "sending", "done"},
     sequence : Int \cup {NULL}, sample : Samples \cup {NULL}]

Summaries == {summarizeLatency(samples) : samples \in Seq(Durations)} \cup {NULL}

Reports ==
    [completed : Nat, accepted : Nat, failed : Int, notStarted : Int \cup {NULL},
     latency : Summaries]

BenchTypes ==
    /\ next \in Nat /\ next >= 1
    /\ workers \in [Workers -> WorkerRows]
    /\ results \in Seq(Samples) /\ latencies \in Seq(Durations)
    /\ resultsOpen \in BOOLEAN
    /\ report \in Reports
    /\ stored \subseteq 1 .. next - 1

\* The workers with a request in hand, and those whose request was accepted.
Busy == {w \in Workers : workers[w].pc \in {"publishing", "sending"}}

Accepting == {w \in Workers : workers[w].pc = "sending" /\ workers[w].sample.ok}

\* The places of the samples that will be counted as accepted.
AcceptedIn(samples) == {i \in 1 .. Len(samples) : samples[i].ok}

\* A request that is being published is one worker's, and nothing is stored
\* for it yet.
HandedOut ==
    /\ \A w \in Workers : workers[w].pc = "publishing" =>
          workers[w].sequence \in (1 .. next - 1) \ stored
    /\ \A v, w \in Workers :
          /\ workers[v].pc = "publishing" /\ workers[w].pc = "publishing"
          /\ workers[v].sequence = workers[w].sequence
          => v = w
    /\ \A w \in Workers : workers[w].pc = "sending" => workers[w].sample \in Samples

\* Every request handed out is in one place, and of those that were accepted,
\* wherever they are, the event is stored.
Balance ==
    /\ next - 1 = Cardinality(Busy) + Len(results) + report.completed
    /\ report.accepted + Cardinality(AcceptedIn(results)) + Cardinality(Accepting)
           <= Cardinality(stored)

\* The report is written when the pipeline is empty, from what was collected.
Closing ==
    /\ ~resultsOpen => \A w \in Workers : workers[w].pc = "done"
    /\ ~Reported => report.accepted + report.failed = report.completed
    /\ Reported =>
          /\ ~resultsOpen /\ results = <<>>
          /\ report.accepted + report.failed = Requests
          /\ report.notStarted = Requests - report.completed
          /\ report.latency = summarizeLatency(latencies)

BenchInv == BenchTypes /\ HandedOut /\ Balance /\ Closing

-----------------------------------------------------------------------------
(***************************************************************************)
(* Counting.                                                               *)
(***************************************************************************)

LEMMA SomeWorkers ==
    ASSUME NEW S, S \subseteq Workers
    PROVE  IsFiniteSet(S) /\ Cardinality(S) \in Nat
<1>1. IsFiniteSet(Workers)
  <2> DEFINE k == IF Concurrency > Requests THEN Requests ELSE Concurrency
  <2>1. k \in Nat
    BY LimitsAreNumbers
  <2> HIDE DEF k
  <2>2. IsFiniteSet(1 .. k)
    BY <2>1, IntervalIsFinite
  <2>3. QED
    BY <2>2 DEF Workers, k
<1>2. QED
  BY <1>1, FS_Subset, FS_CardinalityType

LEMMA AcceptedIsFinite ==
    ASSUME NEW samples \in Seq(Samples)
    PROVE  /\ IsFiniteSet(AcceptedIn(samples))
           /\ Cardinality(AcceptedIn(samples)) \in Nat
<1>1. AcceptedIn(samples) \in SUBSET (1 .. Len(samples)) /\ Len(samples) \in Nat
  BY DEF AcceptedIn
<1>2. QED
  BY <1>1, IntervalIsFinite, FS_Subset, FS_CardinalityType

LEMMA AcceptedAppend ==
    ASSUME NEW samples \in Seq(Samples), NEW sample \in Samples
    PROVE  Cardinality(AcceptedIn(Append(samples, sample))) =
               Cardinality(AcceptedIn(samples)) + (IF sample.ok THEN 1 ELSE 0)
<1> DEFINE longer == Append(samples, sample)
           last == Len(samples) + 1
<1>1. /\ Len(samples) \in Nat /\ Len(longer) = last
      /\ \A i \in 1 .. Len(samples) : longer[i] = samples[i]
      /\ longer[last] = sample
  OBVIOUS
<1> HIDE DEF longer
<1>2. last \notin AcceptedIn(samples)
  BY <1>1 DEF AcceptedIn
<1>3. CASE sample.ok
  <2>1. AcceptedIn(longer) = AcceptedIn(samples) \cup {last}
    BY <1>1, <1>3 DEF AcceptedIn
  <2> HIDE DEF last
  <2>2. QED
    BY <1>2, <1>3, <2>1, AcceptedIsFinite, FS_AddElement DEF longer
<1>4. CASE ~sample.ok
  <2>1. AcceptedIn(longer) = AcceptedIn(samples)
    BY <1>1, <1>4 DEF AcceptedIn
  <2>2. QED
    BY <1>4, <2>1, AcceptedIsFinite DEF longer
<1>5. QED
  BY <1>3, <1>4

LEMMA AcceptedTail ==
    ASSUME NEW samples \in Seq(Samples), samples # <<>>
    PROVE  Cardinality(AcceptedIn(samples)) =
               Cardinality(AcceptedIn(Tail(samples)))
                   + (IF Head(samples).ok THEN 1 ELSE 0)
<1> DEFINE rest == Tail(samples)
           others == AcceptedIn(samples) \ {1}
           shift == [i \in AcceptedIn(rest) |-> i + 1]
<1>1. /\ Len(samples) \in Nat /\ Len(samples) >= 1
      /\ rest \in Seq(Samples) /\ Len(rest) = Len(samples) - 1
      /\ \A i \in 1 .. Len(rest) : rest[i] = samples[i + 1]
      /\ Head(samples) = samples[1]
  OBVIOUS
<1> HIDE DEF rest
<1>2. shift \in [AcceptedIn(rest) -> others]
  BY <1>1 DEF AcceptedIn
<1>3. \A i, j \in AcceptedIn(rest) : shift[i] = shift[j] => i = j
  BY <1>1 DEF AcceptedIn
<1>4. ASSUME NEW k \in others PROVE \E i \in AcceptedIn(rest) : shift[i] = k
  <2>1. k - 1 \in AcceptedIn(rest)
    BY <1>1 DEF AcceptedIn
  <2>2. k \in Int
    BY DEF AcceptedIn
  <2>3. QED
    BY <2>1, <2>2
<1>5. ExistsBijection(AcceptedIn(rest), others)
  <2> HIDE DEF shift, others
  <2>1. QED
    BY <1>2, <1>3, <1>4
       DEF ExistsBijection, Bijection, Injection, Surjection, IsInjective
<1>6. Cardinality(others) = Cardinality(AcceptedIn(rest))
  BY <1>1, <1>5, AcceptedIsFinite, FS_Bijection
<1>7. 1 \in AcceptedIn(samples) <=> Head(samples).ok
  BY <1>1 DEF AcceptedIn
<1>8. /\ IsFiniteSet(AcceptedIn(samples)) /\ Cardinality(AcceptedIn(samples)) \in Nat
      /\ Cardinality(AcceptedIn(rest)) \in Nat
  BY <1>1, AcceptedIsFinite
<1>9. Cardinality(others) = IF Head(samples).ok THEN Cardinality(AcceptedIn(samples)) - 1
                            ELSE Cardinality(AcceptedIn(samples))
  BY <1>7, <1>8, FS_RemoveElement
<1>10. QED
  BY <1>6, <1>8, <1>9 DEF rest

\* What is stored so far has been handed out.
LEMMA StoredIsFinite ==
    ASSUME BenchTypes
    PROVE  /\ IsFiniteSet(stored) /\ Cardinality(stored) \in Nat
           /\ Cardinality(stored) <= next - 1
<1>1. next - 1 \in Nat /\ stored \in SUBSET (1 .. next - 1)
  BY DEF BenchTypes
<1>2. IsFiniteSet(1 .. next - 1) /\ Cardinality(1 .. next - 1) = next - 1
  BY <1>1, IntervalIsFinite
<1>3. QED
  BY <1>1, <1>2, FS_Subset, FS_CardinalityType

-----------------------------------------------------------------------------
(***************************************************************************)
(* Every step keeps the account.                                           *)
(***************************************************************************)

\* While a worker is not done the results are open, and the report is unwritten.
LEMMA PipelineIsOpen ==
    ASSUME BenchInv, NEW w \in Workers, workers[w].pc # "done"
    PROVE  resultsOpen /\ ~Reported
BY DEF BenchInv, BenchTypes, Closing

LEMMA ProduceStep ==
    ASSUME BenchInv, NEW w \in Workers, Produce(w)
    PROVE  BenchInv'
<1> USE DEF Produce
<1>1. /\ BenchTypes /\ HandedOut /\ Balance /\ Closing
      /\ resultsOpen /\ ~Reported
  BY PipelineIsOpen DEF BenchInv
<1>2. BenchTypes'
  BY <1>1 DEF BenchTypes, WorkerRows
<1>3. HandedOut'
  BY <1>1 DEF HandedOut, BenchTypes, WorkerRows
<1>4. Busy' = Busy \cup {w} /\ w \notin Busy /\ Accepting' = Accepting
  BY <1>1 DEF Busy, Accepting, BenchTypes
<1>5. Balance'
  <2>1. IsFiniteSet(Busy) /\ Cardinality(Busy) \in Nat
    BY SomeWorkers DEF Busy
  <2>2. Cardinality(Busy') = Cardinality(Busy) + 1
    BY <1>4, <2>1, FS_AddElement
  <2>3. next \in Nat /\ Len(results) \in Nat /\ report.completed \in Nat
    BY <1>1 DEF BenchTypes, Reports
  <2>4. QED
    BY <1>1, <1>4, <2>1, <2>2, <2>3 DEF Balance
<1>6. Closing'
  BY <1>1 DEF Closing, Reported
<1>7. QED
  BY <1>2, <1>3, <1>5, <1>6 DEF BenchInv

LEMMA PublishStep ==
    ASSUME BenchInv, NEW w \in Workers, publish(w)
    PROVE  BenchInv'
<1>1. /\ BenchTypes /\ HandedOut /\ Balance /\ Closing
      /\ workers[w].pc = "publishing" /\ resultsOpen /\ ~Reported
      /\ UNCHANGED <<next, jobs, results, resultsOpen, report, latencies, cancelled>>
  BY PipelineIsOpen DEF BenchInv, publish
<1>2. PICK outcome \in Outcomes :
          /\ workers' = [workers EXCEPT ![w].pc = "sending", ![w].sample = outcome.sample]
          /\ stored' = IF outcome.stored THEN stored \cup {workers[w].sequence} ELSE stored
  BY DEF publish
<1>3. /\ outcome.sample \in Samples /\ outcome.stored \in BOOLEAN
      /\ outcome.sample.ok => outcome.stored
  BY DEF Outcomes
<1>4. workers[w].sequence \in (1 .. next - 1) \ stored
  BY <1>1 DEF HandedOut
<1>5. /\ workers' \in [Workers -> WorkerRows]
      /\ workers'[w].pc = "sending" /\ workers'[w].sample = outcome.sample
      /\ \A v \in Workers \ {w} : workers'[v] = workers[v]
  BY <1>1, <1>2, <1>3 DEF BenchTypes, WorkerRows
<1>6. BenchTypes'
  BY <1>1, <1>2, <1>4, <1>5 DEF BenchTypes
<1>7. HandedOut'
  BY <1>1, <1>2, <1>3, <1>5 DEF HandedOut
<1>8. Busy' = Busy
  BY <1>1, <1>5 DEF Busy
<1>9. /\ Accepting' = IF outcome.sample.ok THEN Accepting \cup {w} ELSE Accepting
      /\ w \notin Accepting
  BY <1>1, <1>5 DEF Accepting
<1>10. Balance'
  <2>1. IsFiniteSet(Accepting) /\ Cardinality(Accepting) \in Nat
    BY SomeWorkers DEF Accepting
  <2>2. IsFiniteSet(stored) /\ Cardinality(stored) \in Nat
    BY <1>1, StoredIsFinite
  <2>3. Cardinality(Accepting') =
            Cardinality(Accepting) + (IF outcome.sample.ok THEN 1 ELSE 0)
    <3>1. CASE outcome.sample.ok
      BY <1>9, <2>1, <3>1, FS_AddElement
    <3>2. CASE ~outcome.sample.ok
      BY <1>9, <2>1, <3>2
    <3>3. QED
      BY <3>1, <3>2
  <2>4. Cardinality(stored') = Cardinality(stored) + (IF outcome.stored THEN 1 ELSE 0)
    <3>1. CASE outcome.stored
      BY <1>2, <1>4, <2>2, <3>1, FS_AddElement
    <3>2. CASE ~outcome.stored
      BY <1>2, <2>2, <3>2
    <3>3. QED
      BY <3>1, <3>2
  <2>5. report.accepted \in Nat /\ Cardinality(AcceptedIn(results)) \in Nat
    BY <1>1, AcceptedIsFinite DEF BenchTypes, Reports
  <2>6. (report.accepted + Cardinality(AcceptedIn(results)) + Cardinality(Accepting)
            <= Cardinality(stored))'
    BY <1>1, <1>3, <2>1, <2>2, <2>3, <2>4, <2>5 DEF Balance
  <2>7. QED
    BY <1>1, <1>8, <2>6 DEF Balance
<1>11. Closing'
  BY <1>1 DEF Closing, Reported
<1>12. QED
  BY <1>6, <1>7, <1>10, <1>11 DEF BenchInv

LEMMA SendStep ==
    ASSUME BenchInv, NEW w \in Workers, SendResult(w)
    PROVE  BenchInv'
<1> DEFINE sample == workers[w].sample
<1>1. /\ BenchTypes /\ HandedOut /\ Balance /\ Closing
      /\ workers[w].pc = "sending" /\ resultsOpen /\ ~Reported
      /\ results' = Append(results, sample)
      /\ workers' = [workers EXCEPT ![w] = Receiving]
      /\ UNCHANGED <<next, jobs, resultsOpen, report, latencies, cancelled, stored>>
  BY PipelineIsOpen DEF BenchInv, SendResult
<1>2. sample \in Samples
  BY <1>1 DEF HandedOut
<1>3. BenchTypes'
  BY <1>1, <1>2 DEF BenchTypes, WorkerRows, Receiving
<1>4. HandedOut'
  BY <1>1 DEF HandedOut, BenchTypes, Receiving
<1>5. /\ Busy' = Busy \ {w} /\ w \in Busy
      /\ Accepting' = Accepting \ {w} /\ (w \in Accepting <=> sample.ok)
  BY <1>1 DEF Busy, Accepting, BenchTypes, Receiving
<1>6. Balance'
  <2> HIDE DEF sample
  <2>1. /\ IsFiniteSet(Busy) /\ Cardinality(Busy) \in Nat
        /\ IsFiniteSet(Accepting) /\ Cardinality(Accepting) \in Nat
    BY SomeWorkers DEF Busy, Accepting
  <2>2. /\ Cardinality(Busy') = Cardinality(Busy) - 1
        /\ Cardinality(Accepting') =
               Cardinality(Accepting) - (IF sample.ok THEN 1 ELSE 0)
    <3>1. Cardinality(Busy') = Cardinality(Busy) - 1
      BY <1>5, <2>1, FS_RemoveElement
    <3>2. CASE sample.ok
      BY <1>5, <2>1, <3>1, <3>2, FS_RemoveElement
    <3>3. CASE ~sample.ok
      <4>1. Accepting' = Accepting
        BY <1>5, <3>3
      <4>2. QED
        BY <2>1, <3>1, <3>3, <4>1
    <3>4. QED
      BY <3>2, <3>3
  <2>3. results \in Seq(Samples) /\ Cardinality(AcceptedIn(results)) \in Nat
    BY <1>1, AcceptedIsFinite DEF BenchTypes
  <2>4. Len(results') = Len(results) + 1 /\ Len(results) \in Nat
    BY <1>1, <1>2, <2>3
  <2>5. Cardinality(AcceptedIn(results')) =
            Cardinality(AcceptedIn(results)) + (IF sample.ok THEN 1 ELSE 0)
    BY <1>1, <1>2, <2>3, AcceptedAppend
  <2>6. /\ report.accepted \in Nat /\ report.completed \in Nat /\ next \in Nat
        /\ Cardinality(stored) \in Nat
    BY <1>1, StoredIsFinite DEF BenchTypes, Reports
  <2>7. (next - 1 = Cardinality(Busy) + Len(results) + report.completed)'
    BY <1>1, <2>1, <2>2, <2>4, <2>6 DEF Balance
  <2>8. (report.accepted + Cardinality(AcceptedIn(results)) + Cardinality(Accepting)
            <= Cardinality(stored))'
    BY <1>1, <2>1, <2>2, <2>3, <2>5, <2>6 DEF Balance
  <2>9. QED
    BY <2>7, <2>8 DEF Balance
<1>7. Closing'
  BY <1>1 DEF Closing, Reported
<1>8. QED
  BY <1>3, <1>4, <1>6, <1>7 DEF BenchInv

LEMMA ReturnStep ==
    ASSUME BenchInv, NEW w \in Workers, Return(w)
    PROVE  BenchInv'
<1>1. /\ BenchTypes /\ HandedOut /\ Balance /\ Closing
      /\ workers[w].pc = "receiving" /\ resultsOpen /\ ~Reported
      /\ workers' = [workers EXCEPT ![w].pc = "done"]
      /\ UNCHANGED <<next, jobs, results, resultsOpen, report, latencies,
                     cancelled, stored>>
  BY PipelineIsOpen DEF BenchInv, Return
<1>2. BenchTypes'
  BY <1>1 DEF BenchTypes, WorkerRows
<1>3. HandedOut'
  BY <1>1 DEF HandedOut, BenchTypes, WorkerRows
<1>4. Busy' = Busy /\ Accepting' = Accepting
  BY <1>1 DEF Busy, Accepting, BenchTypes, WorkerRows
<1>5. Balance'
  BY <1>1, <1>4 DEF Balance
<1>6. Closing'
  BY <1>1 DEF Closing, Reported
<1>7. QED
  BY <1>2, <1>3, <1>5, <1>6 DEF BenchInv

\* The steps that only close, or cancel, leave the account as it is.
LEMMA ClosingStep ==
    ASSUME BenchInv,
           UNCHANGED <<next, workers, results, report, latencies, stored>>,
           resultsOpen' \in BOOLEAN,
           ~resultsOpen' => ~resultsOpen \/ \A w \in Workers : workers[w].pc = "done",
           ~resultsOpen => ~resultsOpen'
    PROVE  BenchInv'
BY DEF BenchInv, BenchTypes, HandedOut, Balance, Closing, Reported, Busy, Accepting

LEMMA CollectStep ==
    ASSUME BenchInv, Collect
    PROVE  BenchInv'
<1> DEFINE sample == Head(results)
           one == IF sample.ok THEN 1 ELSE 0
<1>1. /\ BenchTypes /\ HandedOut /\ Balance /\ Closing
      /\ results # <<>> /\ ~Reported
      /\ results' = Tail(results) /\ latencies' = Append(latencies, sample.duration)
      /\ UNCHANGED <<next, jobs, workers, resultsOpen, cancelled, stored>>
  BY DEF BenchInv, Collect, Reported
<1>2. /\ results \in Seq(Samples) /\ results' \in Seq(Samples)
      /\ sample \in Samples
      /\ Len(results) \in Nat /\ Len(results') = Len(results) - 1
  BY <1>1 DEF BenchTypes
<1>3. report' = [report EXCEPT !.completed = report.completed + 1,
                               !.accepted = report.accepted + one,
                               !.failed = report.failed + (1 - one)]
  BY DEF Collect
<1>4. one \in Nat /\ 1 - one \in Nat
  OBVIOUS
<1>5. Cardinality(AcceptedIn(results)) = Cardinality(AcceptedIn(results')) + one
  BY <1>1, <1>2, AcceptedTail
<1>6. sample.duration \in Durations
  BY <1>2 DEF Samples
<1> HIDE DEF sample, one
<1>7. /\ report' \in Reports
      /\ report'.completed = report.completed + 1
      /\ report'.accepted = report.accepted + one
      /\ report'.failed = report.failed + (1 - one)
      /\ report'.notStarted = report.notStarted
  <2>1. report \in Reports
    BY <1>1 DEF BenchTypes
  <2>2. /\ report.completed + 1 \in Nat /\ report.accepted + one \in Nat
        /\ report.failed + (1 - one) \in Int
    BY <1>4, <2>1 DEF Reports
  <2>3. QED
    BY <1>3, <2>1, <2>2 DEF Reports
<1>8. BenchTypes'
  BY <1>1, <1>2, <1>6, <1>7 DEF BenchTypes
<1>9. HandedOut'
  BY <1>1 DEF HandedOut
<1>10. Busy' = Busy /\ Accepting' = Accepting
  BY <1>1 DEF Busy, Accepting
<1>11. Balance'
  <2>1. Cardinality(Busy) \in Nat /\ Cardinality(Accepting) \in Nat
    BY SomeWorkers DEF Busy, Accepting
  <2>2. /\ report.accepted \in Nat /\ report.completed \in Nat /\ next \in Nat
        /\ Cardinality(stored) \in Nat
        /\ Cardinality(AcceptedIn(results)) \in Nat
        /\ Cardinality(AcceptedIn(results')) \in Nat
    BY <1>1, <1>2, StoredIsFinite, AcceptedIsFinite DEF BenchTypes, Reports
  <2>3. (next - 1 = Cardinality(Busy) + Len(results) + report.completed)'
    BY <1>1, <1>2, <1>7, <1>10, <2>1, <2>2 DEF Balance
  <2>4. (report.accepted + Cardinality(AcceptedIn(results)) + Cardinality(Accepting)
            <= Cardinality(stored))'
    BY <1>1, <1>4, <1>5, <1>7, <1>10, <2>1, <2>2 DEF Balance
  <2>5. QED
    BY <2>3, <2>4 DEF Balance
<1>12. Closing'
  <2>1. report.accepted \in Int /\ report.failed \in Int /\ report.completed \in Int
    BY <1>1 DEF BenchTypes, Reports
  <2>2. ~Reported' /\ report.accepted + report.failed = report.completed
    BY <1>1, <1>7 DEF Reported, Closing
  <2>3. (report.accepted + report.failed = report.completed)'
    <3>1. (report.accepted + one) + (report.failed + (1 - one)) = report.completed + 1
      BY <1>4, <2>1, <2>2
    <3>2. QED
      BY <1>7, <3>1
  <2>4. QED
    BY <1>1, <2>2, <2>3 DEF Closing
<1>13. QED
  BY <1>8, <1>9, <1>11, <1>12 DEF BenchInv

LEMMA ReportStep ==
    ASSUME BenchInv, Report
    PROVE  BenchInv'
<1> DEFINE missing == Requests - report.completed
           summary == summarizeLatency(latencies)
<1>1. /\ BenchTypes /\ HandedOut /\ Balance /\ Closing
      /\ ~resultsOpen /\ results = <<>> /\ ~Reported
      /\ report' = [report EXCEPT !.failed = report.failed + missing,
                                  !.notStarted = missing, !.latency = summary]
      /\ UNCHANGED <<next, jobs, workers, results, resultsOpen, latencies,
                     cancelled, stored>>
  BY DEF BenchInv, Report, Reported
<1>2. missing \in Int
  BY <1>1, LimitsAreNumbers DEF BenchTypes, Reports
<1>3. summary \in Summaries
  BY <1>1 DEF BenchTypes, Summaries
<1> HIDE DEF summary
<1>4. /\ report' \in Reports
      /\ report'.completed = report.completed /\ report'.accepted = report.accepted
      /\ report'.failed = report.failed + missing
      /\ report'.notStarted = missing /\ report'.latency = summary
  <2> HIDE DEF missing
  <2>1. report \in Reports /\ report.failed + missing \in Int
    BY <1>1, <1>2 DEF BenchTypes, Reports
  <2>2. QED
    BY <1>1, <1>2, <1>3, <2>1 DEF Reports
<1>5. BenchTypes'
  BY <1>1, <1>4 DEF BenchTypes
<1>6. HandedOut'
  BY <1>1 DEF HandedOut
<1>7. Busy' = Busy /\ Accepting' = Accepting
  BY <1>1 DEF Busy, Accepting
<1>8. Balance'
  BY <1>1, <1>4, <1>7 DEF Balance
<1>9. Closing'
  <2>1. /\ report.accepted \in Int /\ report.failed \in Int /\ report.completed \in Int
        /\ report.accepted + report.failed = report.completed /\ Requests \in Int
    BY <1>1, LimitsAreNumbers DEF BenchTypes, Reports, Closing
  <2>2. (report.accepted + report.failed = Requests)'
    BY <1>4, <2>1
  <2>3. Reported'
    BY <1>2, <1>4, LimitsAreNumbers DEF Reported
  <2>4. QED
    BY <1>1, <1>4, <2>2, <2>3 DEF Closing, summary
<1>10. QED
  BY <1>5, <1>6, <1>8, <1>9 DEF BenchInv

\* The pipeline's account balances in every reachable state.
THEOREM BenchInductive == Spec => []BenchInv
<1>1. Init => BenchInv
  <2> SUFFICES ASSUME Init PROVE BenchInv
    OBVIOUS
  <2>1. BenchTypes
    BY DEF Init, BenchTypes, WorkerRows, Receiving, Reports, NoReport, Summaries
  <2>2. HandedOut /\ Closing
    BY DEF Init, HandedOut, Closing, Receiving, NoReport, Reported
  <2>3. Busy = {} /\ Accepting = {} /\ AcceptedIn(results) = {}
    BY DEF Init, Busy, Accepting, AcceptedIn, Receiving
  <2>4. Balance
    <3>1. /\ Cardinality(Busy) = 0 /\ Cardinality(Accepting) = 0
          /\ Cardinality(AcceptedIn(results)) = 0 /\ Cardinality(stored) = 0
      BY <2>3, FS_EmptySet DEF Init
    <3>2. /\ next = 1 /\ Len(results) = 0
          /\ report.completed = 0 /\ report.accepted = 0
      BY DEF Init, NoReport
    <3>3. QED
      BY <3>1, <3>2 DEF Balance
  <2>5. QED
    BY <2>1, <2>2, <2>4 DEF BenchInv
<1>2. BenchInv /\ [Next]_vars => BenchInv'
  <2> SUFFICES ASSUME BenchInv, [Next]_vars PROVE BenchInv'
    OBVIOUS
  <2>0. resultsOpen \in BOOLEAN
    BY DEF BenchInv, BenchTypes
  <2>1. ASSUME NEW w \in Workers, Work(w) PROVE BenchInv'
    BY <2>1, ProduceStep, PublishStep, SendStep, ReturnStep DEF Work
  <2>2. CASE CloseJobs
    BY <2>0, <2>2, ClosingStep DEF CloseJobs
  <2>3. CASE CloseResults
    BY <2>0, <2>3, ClosingStep DEF CloseResults
  <2>4. CASE Collect
    BY <2>4, CollectStep
  <2>5. CASE Report
    BY <2>5, ReportStep
  <2>6. CASE Cancel
    BY <2>0, <2>6, ClosingStep DEF Cancel
  <2>7. CASE UNCHANGED vars
    BY <2>0, <2>7, ClosingStep DEF vars
  <2>8. QED
    BY <2>1, <2>2, <2>3, <2>4, <2>5, <2>6, <2>7 DEF Next
<1>3. QED
  BY <1>1, <1>2, PTL DEF Spec

\* The report accounts for every request, wherever a cancellation met the
\* pipeline.
THEOREM ReportsAreTrue == Spec => []ReportIsTrue
<1>1. BenchInv => ReportIsTrue
  <2> SUFFICES ASSUME BenchInv, Reported PROVE ReportIsTrue
    BY DEF ReportIsTrue
  <2>1. BenchTypes /\ Balance /\ Closing
    BY DEF BenchInv
  <2>2. /\ \A w \in Workers : workers[w].pc = "done"
        /\ results = <<>>
        /\ report.accepted + report.failed = Requests
        /\ report.notStarted = Requests - report.completed
    BY <2>1 DEF Closing
  <2>3. Busy = {} /\ Accepting = {} /\ AcceptedIn(results) = {} /\ Len(results) = 0
    BY <2>2 DEF Busy, Accepting, AcceptedIn
  <2>4. /\ next \in Nat /\ report.completed \in Nat /\ report.accepted \in Nat
        /\ Cardinality(stored) \in Nat /\ Cardinality(stored) <= next - 1
    BY <2>1, StoredIsFinite DEF BenchTypes, Reports
  <2>5. next - 1 = report.completed /\ report.accepted <= Cardinality(stored)
    BY <2>1, <2>3, <2>4, FS_EmptySet DEF Balance
  <2>6. QED
    BY <2>2, <2>4, <2>5 DEF ReportIsTrue
<1>2. QED
  BY <1>1, BenchInductive, PTL

\* The reported quantiles are quantiles of the latencies collected.
THEOREM QuantilesAreTrue == Spec => []QuantilesAreRanks
<1>1. BenchInv => QuantilesAreRanks
  <2> SUFFICES ASSUME BenchInv, Reported, latencies # <<>>, NEW q \in Quantiles
               PROVE  IsQuantile(latencies, q, report.latency.at[q])
    BY DEF QuantilesAreRanks, IsQuantile
  <2>1. latencies \in Seq(Int)
    <3>1. latencies \in Seq(Durations)
      BY DEF BenchInv, BenchTypes
    <3>2. QED
      <4>1. Len(latencies) \in Nat /\ latencies \in [1 .. Len(latencies) -> Durations]
        BY <3>1
      <4>2. latencies \in [1 .. Len(latencies) -> Int]
        <5>1. \A d \in Durations : d \in Int
          BY LimitsAreNumbers
        <5>2. \A i \in 1 .. Len(latencies) : latencies[i] \in Durations
          BY <4>1
        <5>3. QED
          BY <4>1, <5>1, <5>2, Zenon
      <4>3. QED
        BY <4>1, <4>2
  <2>2. report.latency = summarizeLatency(latencies)
    BY DEF BenchInv, Closing
  <2>3. QED
    BY <2>1, <2>2, PercentileIsQuantile
<1>2. QED
  BY <1>1, BenchInductive, PTL
=============================================================================
