---------------------------- MODULE AttemptProofs ----------------------------
(***************************************************************************)
(* Proofs about modules Attempt and RetryPolicy: for any settings that     *)
(* Load accepts, any answers and any number of attempts.                   *)
(*                                                                         *)
(* What the doubling loop computes needs induction over the attempts.  It  *)
(* is done by least counterexample: if a claim failed for some number, it  *)
(* would fail for a least one, and there the step of the induction shows   *)
(* that it does not.                                                       *)
(***************************************************************************)
EXTENDS Attempt, WellFoundedInduction, TLAPS

LEMMA LessThanRelation ==
    \E R : /\ IsWellFoundedOn(R, Nat)
           /\ \A x \in Nat : \A y \in Nat : x < y => <<x, y>> \in R
<1>1. \A x, y \in Nat : x < y => <<x, y>> \in OpToRel(<, Nat)
  BY DEF OpToRel
<1>2. QED
  BY <1>1, NatLessThanWellFounded, Zenon

LEMMA LeastElement ==
    ASSUME NEW S, S \subseteq Nat, S # {}
    PROVE  \E m \in S : \A k \in S : m <= k
<1>1. PICK R : /\ IsWellFoundedOn(R, Nat)
               /\ \A x \in Nat : \A y \in Nat : x < y => <<x, y>> \in R
  BY LessThanRelation
<1>2. IsWellFoundedOn(R, Nat)
  BY <1>1
<1>3. \E m \in S : \A k \in S : ~(<<k, m>> \in R)
  BY <1>2, WFMin, Zenon
<1>4. PICK m \in S : \A k \in S : ~(<<k, m>> \in R)
  BY <1>3
<1>5. ASSUME NEW k \in S PROVE m <= k
  <2>1. k \in Nat /\ m \in Nat
    OBVIOUS
  <2>2. ~(k < m)
    BY <1>1, <1>4, <2>1, Zenon
  <2>3. QED
    BY <2>1, <2>2
<1>6. QED
  BY <1>5

-----------------------------------------------------------------------------
(***************************************************************************)
(* The retry schedule.                                                     *)
(***************************************************************************)

\* d is the table of delays that the loop of Backoff goes through.
IsSchedule(p, n, d) ==
    d = [k \in 1 .. n |->
            IF k = 1 THEN p.base
            ELSE IF d[k - 1] >= p.max \div 2 THEN p.max
            ELSE 2 * d[k - 1]]

\* y is the table of what x becomes when it is doubled again and again.
IsDoubling(x, n, y) == y = [k \in 0 .. n |-> IF k = 0 THEN x ELSE 2 * y[k - 1]]

LEMMA ScheduleExists ==
    ASSUME NEW p, NEW n \in Nat \ {0}
    PROVE  \E d : IsSchedule(p, n, d)
<1> DEFINE Bad == {k \in Nat : k > 0 /\ ~\E d : IsSchedule(p, k, d)}
<1>1. SUFFICES ASSUME Bad # {} PROVE FALSE
  OBVIOUS
<1>2. PICK k \in Bad : \A m \in Bad : k <= m
  BY <1>1, LeastElement
<1>3. k # 1
  <2> DEFINE d == [i \in 1 .. 1 |-> p.base]
  <2>1. IsSchedule(p, 1, d)
    BY DEF IsSchedule
  <2>2. QED
    BY <2>1
<1>4. PICK d : IsSchedule(p, k - 1, d)
  BY <1>2, <1>3
<1> DEFINE next == IF d[k - 1] >= p.max \div 2 THEN p.max ELSE 2 * d[k - 1]
           e == [i \in 1 .. k |-> IF i = k THEN next ELSE d[i]]
<1>5. IsSchedule(p, k, e)
  BY <1>3, <1>4 DEF IsSchedule
<1>6. QED
  BY <1>5

LEMMA DoublingExists ==
    ASSUME NEW x, NEW n \in Nat
    PROVE  \E y : IsDoubling(x, n, y)
<1> DEFINE Bad == {k \in Nat : ~\E y : IsDoubling(x, k, y)}
<1>1. SUFFICES ASSUME Bad # {} PROVE FALSE
  OBVIOUS
<1>2. PICK k \in Bad : \A m \in Bad : k <= m
  BY <1>1, LeastElement
<1>3. k # 0
  <2> DEFINE y == [i \in 0 .. 0 |-> x]
  <2>1. IsDoubling(x, 0, y)
    BY DEF IsDoubling
  <2>2. QED
    BY <2>1
<1>4. PICK y : IsDoubling(x, k - 1, y)
  BY <1>2, <1>3
<1> DEFINE e == [i \in 0 .. k |-> IF i = k THEN 2 * y[k - 1] ELSE y[i]]
<1>5. IsDoubling(x, k, e)
  BY <1>3, <1>4 DEF IsDoubling
<1>6. QED
  BY <1>5

LEMMA BackoffIsSchedule ==
    ASSUME NEW p, NEW n \in Nat \ {0}
    PROVE  \E d : IsSchedule(p, n, d) /\ Backoff(p, n) = d[n]
<1> DEFINE c == CHOOSE d : IsSchedule(p, n, d)
<1>1. IsSchedule(p, n, c)
  BY ScheduleExists, Zenon
<1>2. Backoff(p, n) = c[n]
  BY Zenon DEF IsSchedule, Backoff
<1> HIDE DEF c
<1>3. QED
  BY <1>1, <1>2

LEMMA DoubledIsDoubling ==
    ASSUME NEW x, NEW n \in Nat
    PROVE  \E y : IsDoubling(x, n, y) /\ Doubled(x, n) = y[n]
<1> DEFINE c == CHOOSE y : IsDoubling(x, n, y)
<1>1. IsDoubling(x, n, c)
  BY DoublingExists, Zenon
<1>2. Doubled(x, n) = c[n]
  BY Zenon DEF IsDoubling, Doubled
<1> HIDE DEF c
<1>3. QED
  BY <1>1, <1>2

\* The two tables side by side: the loop is at the capped power, or has jumped
\* to the cap from one below it.
SideBySide(p, delay, power) ==
    /\ delay \in Int /\ power \in Int
    /\ p.base <= delay /\ delay <= p.max /\ p.base <= power
    /\ delay = AtMost(power, p.max) \/ (delay = p.max /\ power = p.max - 1)

\* What the doubling loop computes for the n-th attempt: between the base and
\* the cap, the base doubled n - 1 times and capped, or the cap where that is one
\* unit less.
THEOREM BackoffFollowsReference ==
    ASSUME NEW p, p.base \in Int, p.max \in Int, ValidRetryPolicy(p), NEW n \in Nat \ {0}
    PROVE  /\ Backoff(p, n) \in p.base .. p.max
           /\ ReferenceDelay(p, n) \in Int
           /\ Backoff(p, n) \in {ReferenceDelay(p, n), p.max}
           /\ Backoff(p, n) - ReferenceDelay(p, n) <= 1
<1>1. PICK d : IsSchedule(p, n, d) /\ Backoff(p, n) = d[n]
  BY BackoffIsSchedule
<1>2. PICK y : IsDoubling(p.base, n - 1, y) /\ Doubled(p.base, n - 1) = y[n - 1]
  BY DoubledIsDoubling
<1> DEFINE Bad == {k \in 1 .. n : ~SideBySide(p, d[k], y[k - 1])}
<1>3. Bad = {}
  <2>1. SUFFICES ASSUME Bad # {} PROVE FALSE
    OBVIOUS
  <2>2. PICK k \in Bad : \A m \in Bad : k <= m
    <3>1. Bad \subseteq Nat
      OBVIOUS
    <3> HIDE DEF Bad
    <3>2. QED
      BY <2>1, <3>1, LeastElement
  <2>3. k # 1
    <3>1. n >= 1 /\ d[1] = p.base /\ y[0] = p.base
      BY <1>1, <1>2 DEF IsSchedule, IsDoubling
    <3>2. SideBySide(p, d[1], y[0])
      BY <3>1 DEF SideBySide, AtMost, ValidRetryPolicy
    <3>3. QED
      BY <3>2
  <2>4. k \in 2 .. n /\ k - 1 \in 1 .. n /\ k - 1 \notin Bad
    BY <2>2, <2>3
  <2>5. SideBySide(p, d[k - 1], y[k - 2])
    <3>1. (k - 1) - 1 = k - 2
      BY <2>4
    <3>2. QED
      BY <2>4, <3>1
  <2>6. d[k] = IF d[k - 1] >= p.max \div 2 THEN p.max ELSE 2 * d[k - 1]
    BY <1>1, <2>4 DEF IsSchedule
  <2>7. y[k - 1] = 2 * y[k - 2]
    <3>1. k - 1 \in 0 .. n - 1 /\ k - 1 # 0 /\ (k - 1) - 1 = k - 2
      BY <2>4
    <3>2. y[k - 1] = 2 * y[(k - 1) - 1]
      BY <1>2, <3>1 DEF IsDoubling
    <3>3. QED
      BY <3>1, <3>2
  <2>8. SideBySide(p, d[k], y[k - 1])
    BY <2>5, <2>6, <2>7 DEF SideBySide, AtMost, ValidRetryPolicy
  <2>9. QED
    BY <2>8
<1>4. SideBySide(p, d[n], y[n - 1])
  BY <1>3
<1>5. QED
  BY <1>1, <1>2, <1>4 DEF SideBySide, ReferenceDelay, AtMost

\* Division, by what it means.
LEMMA DivMeans ==
    ASSUME NEW x \in Int, NEW d \in Nat \ {0}
    PROVE  /\ x \div d \in Int
           /\ d * (x \div d) <= x
           /\ \A q \in Int : d * q <= x => q <= x \div d
<1>1. x \div d \in Int /\ d * (x \div d) <= x /\ x < d * (x \div d) + d
  OBVIOUS
<1>2. ASSUME NEW q \in Int, d * q <= x PROVE q <= x \div d
  <2>1. PICK z \in Int : z = x \div d
    BY <1>1
  <2>2. d * q < d * (z + 1)
    BY <1>1, <1>2, <2>1
  <2>3. q < z + 1
    BY <2>1, <2>2
  <2>4. QED
    BY <2>1, <2>3
<1>3. QED
  BY <1>1, <1>2

LEMMA DivMonotone ==
    ASSUME NEW x \in Int, NEW y \in Int, x <= y, NEW d \in Nat \ {0}
    PROVE  x \div d <= y \div d
<1>1. x \div d \in Int /\ d * (x \div d) <= x
  BY DivMeans
<1>2. d * (x \div d) <= y
  BY <1>1
<1>3. QED
  BY <1>1, <1>2, DivMeans

LEMMA TimesMonotone ==
    ASSUME NEW x \in Int, NEW y \in Int, x <= y, NEW k \in Nat
    PROVE  k * x <= k * y
OBVIOUS

\* The jitter moves a delay by its share at the most.
LEMMA JitterBounds ==
    ASSUME NEW b \in Nat, NEW j \in 0 .. Unit, NEW s \in 0 .. Unit
    PROVE  LET factor == Unit * Unit + (2 * s - Unit) * j
           IN  /\ (b * factor) \div (Unit * Unit) \in Int
               /\ (b * (Unit - j)) \div Unit <= (b * factor) \div (Unit * Unit)
               /\ (b * factor) \div (Unit * Unit) <= (b * (Unit + j)) \div Unit
<1> DEFINE factor == Unit * Unit + (2 * s - Unit) * j
<1>1. Unit \in Nat /\ Unit > 0 /\ Unit * Unit \in Nat \ {0}
  BY UnitAssumption
<1>2. 2 * s - Unit \in Int /\ 0 - Unit <= 2 * s - Unit /\ 2 * s - Unit <= Unit
  BY <1>1
<1>3. /\ (2 * s - Unit) * j \in Int
      /\ (0 - Unit) * j <= (2 * s - Unit) * j /\ (2 * s - Unit) * j <= Unit * j
  <2>1. PICK t \in Int : t = 2 * s - Unit /\ 0 - Unit <= t /\ t <= Unit
    BY <1>2
  <2>2. /\ t * j \in Int /\ (0 - Unit) * j <= t * j /\ t * j <= Unit * j
    BY <1>1, <2>1
  <2>3. QED
    BY <2>1, <2>2
<1>4. factor \in Int /\ Unit * (Unit - j) <= factor /\ factor <= Unit * (Unit + j)
  BY <1>1, <1>2, <1>3
<1> HIDE DEF factor
<1>5. b * factor \in Int /\ b * (Unit - j) \in Int /\ b * (Unit + j) \in Int
  BY <1>1, <1>4
<1>6. b * (Unit * (Unit - j)) <= b * factor /\ b * factor <= b * (Unit * (Unit + j))
  BY <1>1, <1>4, TimesMonotone
<1>7. (b * (Unit - j)) \div Unit <= (b * factor) \div (Unit * Unit)
  <2>1. PICK lo \in Int : lo = (b * (Unit - j)) \div Unit /\ Unit * lo <= b * (Unit - j)
    BY <1>1, <1>5, DivMeans
  <2>2. Unit * (Unit * lo) <= Unit * (b * (Unit - j))
    BY <1>1, <1>5, <2>1, TimesMonotone
  <2>3. (Unit * Unit) * lo <= b * factor
    <3>1. Unit * (b * (Unit - j)) = b * (Unit * (Unit - j))
      BY <1>1
    <3>2. (Unit * Unit) * lo = Unit * (Unit * lo)
      BY <1>1, <2>1
    <3>3. (Unit * Unit) * lo \in Int /\ b * (Unit * (Unit - j)) \in Int
      BY <1>1, <2>1
    <3>4. QED
      BY <1>5, <1>6, <2>2, <3>1, <3>2, <3>3
  <2>4. QED
    BY <1>1, <1>5, <2>1, <2>3, DivMeans
<1>8. (b * factor) \div (Unit * Unit) \in Int
      /\ (b * factor) \div (Unit * Unit) <= (b * (Unit + j)) \div Unit
  <2>1. PICK x \in Int : x = (b * factor) \div (Unit * Unit) /\ (Unit * Unit) * x <= b * factor
    BY <1>1, <1>5, DivMeans
  <2>2. Unit * (Unit * x) <= Unit * (b * (Unit + j))
    BY <1>1, <1>5, <1>6, <2>1
  <2>3. Unit * x <= b * (Unit + j)
    <3>1. PICK l \in Int, r \in Int : l = Unit * x /\ r = b * (Unit + j)
      BY <1>1, <1>5, <2>1
    <3>2. QED
      BY <1>1, <2>2, <3>1
  <2>4. QED
    BY <1>1, <1>5, <2>1, <2>3, DivMeans
<1>9. QED
  BY <1>7, <1>8 DEF factor

\* The delay before the next attempt: the reference with its jitter, capped, and
\* what the jitter leaves of the base at the least.
LEMMA DelayBounds ==
    ASSUME NEW p, p.base \in Int, p.max \in Int, p.jitter \in Int, ValidRetryPolicy(p),
           NEW n \in Nat \ {0}, NEW s \in 0 .. Unit, NEW delay \in NextDelay(p, n, s)
    PROVE  /\ delay \in Int
           /\ (p.base * (Unit - p.jitter)) \div Unit <= delay
           /\ \E b \in {ReferenceDelay(p, n), p.max} :
                 /\ b - ReferenceDelay(p, n) <= 1
                 /\ delay >= (b * (Unit - p.jitter)) \div Unit
                 /\ delay <= AtMost((b * (Unit + p.jitter)) \div Unit, p.max)
<1>1. /\ p.jitter \in 0 .. Unit /\ p.jitter # NaN /\ p.base > 0 /\ p.base <= p.max
      /\ Unit \in Nat \ {0}
  BY UnitAssumption DEF ValidRetryPolicy, OutsideUnit
<1>2. PICK b \in Nat : /\ b = Backoff(p, n) /\ p.base <= b /\ b <= p.max
                       /\ b \in {ReferenceDelay(p, n), p.max}
                       /\ b - ReferenceDelay(p, n) <= 1
  BY <1>1, BackoffFollowsReference
<1> DEFINE x == (b * (Unit * Unit + (2 * s - Unit) * p.jitter)) \div (Unit * Unit)
           lo == (b * (Unit - p.jitter)) \div Unit
           hi == (b * (Unit + p.jitter)) \div Unit
<1>3. delay = AtMost(x, p.max)
  <2>1. AtMost(Backoff(p, n), p.max) = b /\ Clamp(s, 0, Unit) = s
    BY <1>1, <1>2 DEF AtMost, Clamp
  <2>2. ~(n < 1)
    OBVIOUS
  <2>3. QED
    BY <1>1, <2>1, <2>2 DEF NextDelay
<1>4. x \in Int /\ lo <= x /\ x <= hi
  BY <1>1, <1>2, JitterBounds
<1>5. lo \in Int /\ hi \in Int /\ lo <= p.max
  <2>1. b * (Unit - p.jitter) \in Int /\ b * (Unit + p.jitter) \in Int
        /\ b * (Unit - p.jitter) <= b * Unit
    BY <1>1, <1>2, TimesMonotone
  <2>2. lo \in Int /\ hi \in Int /\ Unit * lo <= b * Unit
    <3>1. lo \in Int /\ hi \in Int /\ Unit * lo <= b * (Unit - p.jitter)
      BY <1>1, <2>1, DivMeans
    <3> HIDE DEF lo, hi
    <3>2. Unit * lo \in Int /\ b * Unit \in Int
      BY <1>1, <3>1
    <3>3. QED
      BY <2>1, <3>1, <3>2
  <2>3. lo <= b
    <3> HIDE DEF lo
    <3>1. QED
      BY <1>1, <1>2, <2>2
  <2>4. QED
    BY <1>2, <2>2, <2>3
<1>6. (p.base * (Unit - p.jitter)) \div Unit <= lo
      /\ (p.base * (Unit - p.jitter)) \div Unit \in Int
  <2>1. /\ p.base * (Unit - p.jitter) \in Int /\ b * (Unit - p.jitter) \in Int
        /\ (Unit - p.jitter) * p.base <= (Unit - p.jitter) * b
    BY <1>1, <1>2, TimesMonotone
  <2>2. p.base * (Unit - p.jitter) <= b * (Unit - p.jitter)
    BY <1>1, <1>2, <2>1
  <2>3. QED
    BY <1>1, <2>1, <2>2, DivMonotone, DivMeans
<1> HIDE DEF x, lo, hi
<1>7. delay \in Int /\ lo <= delay /\ delay <= AtMost(hi, p.max)
  BY <1>3, <1>4, <1>5 DEF AtMost
<1>8. (p.base * (Unit - p.jitter)) \div Unit <= delay
  BY <1>5, <1>6, <1>7
<1>9. QED
  BY <1>2, <1>7, <1>8 DEF lo, hi

-----------------------------------------------------------------------------
(***************************************************************************)
(* What becomes of an answer.                                              *)
(***************************************************************************)

\* The answers of Deliver: without a status code and with a message, or with a
\* code from which decision and signal follow.
AnswerForm(a) ==
    /\ a.duration \in Elapsed
    /\ \/ /\ a.statusCode = NULL
          /\ a.body = "plain" /\ a.error \in {"plain", "nul", "malformed"}
          /\ \/ a.decision = "discard" /\ a.circuit = "none"
             \/ a.decision = "retry" /\ a.circuit = "failure"
       \/ /\ a.statusCode \in StatusCodes
          /\ a.body \in {"plain", "nul"}
          /\ a.error \in {NULL, "plain", "nul", "malformed"}
          /\ a.decision = Evaluate(a.statusCode, FALSE)
          /\ a.circuit = circuitSignal(a.statusCode)

\* What process makes of an answer.
FinishForm(a, f) ==
    /\ f.decision = a.decision /\ f.statusCode = a.statusCode
    /\ f.body = a.body /\ f.error = a.error /\ f.duration = a.duration
    /\ f.circuit \in {"none", a.circuit}
    /\ f.decision = "retry" =>
          \E sample \in Samples : f.delay \in NextDelay(settings, attempt, sample)

AttemptInv ==
    /\ settings \in Settings /\ Starts(settings)
    /\ attempt \in Nat \ {0}
    /\ stage \in {"dispatching", "answered", "finishing", "accepted", "refused"}
    /\ stage # "dispatching" => AnswerForm(answer)
    /\ stage \in {"finishing", "accepted", "refused"} => FinishForm(answer, finish)
    /\ stage = "refused" => ~(validateAttemptResult(finish) /\ Storable(finish))

LEMMA DeliverForm ==
    ASSUME NEW elapsed \in Elapsed, NEW a \in Deliver(elapsed)
    PROVE  AnswerForm(a)
<1>1. \A message \in ErrorMessages : errorText(message) \in {"plain", "nul", "malformed"}
  BY AttemptAssumption DEF Texts, errorText, ToValidUTF8, Cut
<1>2. CASE \E message \in ErrorMessages :
               \/ a = failed("discard", "none", message, elapsed)
               \/ a = failed("retry", "failure", message, elapsed)
  <2>1. PICK message \in ErrorMessages :
             \/ a = failed("discard", "none", message, elapsed)
             \/ a = failed("retry", "failure", message, elapsed)
    BY <1>2
  <2>2. errorText(message) \in {"plain", "nul", "malformed"}
    BY <1>1
  <2>3. /\ a.duration = elapsed /\ a.statusCode = NULL /\ a.body = "plain"
        /\ a.error = errorText(message)
        /\ \/ a.decision = "discard" /\ a.circuit = "none"
           \/ a.decision = "retry" /\ a.circuit = "failure"
    BY <2>1 DEF failed
  <2>4. QED
    BY <2>2, <2>3 DEF AnswerForm
<1>3. CASE \E code \in StatusCodes, body \in ResponseBodies, error \in {NULL} \cup ErrorMessages :
               a = answered(code, body, error, elapsed)
  <2>1. PICK code \in StatusCodes, body \in ResponseBodies, error \in {NULL} \cup ErrorMessages :
             a = answered(code, body, error, elapsed)
    BY <1>3
  <2>2. validText(body) \in {"plain", "nul"}
    BY AttemptAssumption DEF Texts, validText, ToValidUTF8, Cut
  <2>3. readError(error) \in {NULL, "plain", "nul", "malformed"}
    BY <1>1 DEF readError
  <2>4. QED
    BY <2>1, <2>2, <2>3 DEF answered, AnswerForm
<1>4. QED
  BY <1>2, <1>3 DEF Deliver

\* What an answer says follows from whether it has a status code.
LEMMA AnswerFacts ==
    ASSUME NEW a, AnswerForm(a)
    PROVE  /\ a.duration \in Int
           /\ a.decision \in Decisions /\ a.circuit \in CircuitOutcomes
           /\ a.statusCode = NULL =>
                 /\ a.body = "plain" /\ a.error \in {"plain", "nul", "malformed"}
                 /\ a.decision # "succeed" /\ a.error # NULL
           /\ a.statusCode # NULL =>
                 /\ a.body \in {"plain", "nul"}
                 /\ a.error \in {NULL, "plain", "nul", "malformed"}
                 /\ a.decision = Evaluate(a.statusCode, FALSE)
           /\ a.circuit = "failure" => a.decision = "retry"
<1>1. a.duration \in Int /\ NULL \notin StatusCodes /\ NULL \notin {"plain", "nul", "malformed"}
      /\ StatusCodes \subseteq 0 .. 999
  BY AttemptAssumption DEF AnswerForm, Texts
<1>2. CASE a.statusCode = NULL
  <2>1. /\ a.body = "plain" /\ a.error \in {"plain", "nul", "malformed"}
        /\ \/ a.decision = "discard" /\ a.circuit = "none"
           \/ a.decision = "retry" /\ a.circuit = "failure"
    BY <1>1, <1>2 DEF AnswerForm
  <2>2. QED
    BY <1>1, <1>2, <2>1 DEF Decisions, CircuitOutcomes
<1>3. CASE a.statusCode # NULL
  <2>1. /\ a.statusCode \in 0 .. 999
        /\ a.body \in {"plain", "nul"}
        /\ a.error \in {NULL, "plain", "nul", "malformed"}
        /\ a.decision = Evaluate(a.statusCode, FALSE)
        /\ a.circuit = circuitSignal(a.statusCode)
    BY <1>1, <1>3 DEF AnswerForm
  <2>2. a.decision \in Decisions /\ a.circuit \in CircuitOutcomes
    BY <2>1 DEF Evaluate, circuitSignal, Decisions, CircuitOutcomes
  <2>3. a.circuit = "failure" => a.decision = "retry"
    BY <2>1 DEF Evaluate, circuitSignal, RetryableClientErrors
  <2>4. QED
    BY <1>1, <1>3, <2>1, <2>2, <2>3
<1>4. QED
  BY <1>2, <1>3

LEMMA ProcessForm ==
    ASSUME NEW a, NEW sample \in Samples, NEW delay \in NextDelay(settings, attempt, sample)
    PROVE  FinishForm(a, process(a, delay))
BY DEF FinishForm, process

\* What is said of a finished result stays true while nothing it is about moves.
LEMMA FormStays ==
    ASSUME UNCHANGED <<settings, attempt, answer, finish>>
    PROVE  /\ FinishForm(answer, finish) => FinishForm(answer, finish)'
           /\ validateAttemptResult(finish)' => validateAttemptResult(finish)
           /\ Storable(finish)' => Storable(finish)
<1>1. FinishForm(answer, finish) => FinishForm(answer, finish)'
  BY DEF FinishForm
<1>2. validateAttemptResult(finish)' => validateAttemptResult(finish)
  BY DEF validateAttemptResult
<1>3. Storable(finish)' => Storable(finish)
  BY DEF Storable
<1>4. QED
  BY <1>1, <1>2, <1>3

\* The invariant holds of every sequence of attempts.
THEOREM AttemptInductive == Spec => []AttemptInv
<1>1. Init => AttemptInv
  BY DEF Init, AttemptInv
<1>2. AttemptInv /\ [Next]_vars => AttemptInv'
  <2> SUFFICES ASSUME AttemptInv, [Next]_vars PROVE AttemptInv'
    OBVIOUS
  <2>1. CASE Dispatch
    <3>1. AnswerForm(answer')
      BY <2>1, DeliverForm DEF Dispatch
    <3>2. QED
      BY <2>1, <3>1 DEF Dispatch, AttemptInv
  <2>2. CASE Process
    <3>1. FinishForm(answer, finish')
      BY <2>2, ProcessForm DEF Process
    <3>2. QED
      BY <2>2, <3>1 DEF Process, AttemptInv, FinishForm
  <2>3. CASE FinishAttempt
    <3>1. /\ UNCHANGED <<settings, attempt, answer, finish>> /\ stage = "finishing"
          /\ stage' \in {"accepted", "refused"}
          /\ stage' = "refused" => ~(validateAttemptResult(finish) /\ Storable(finish))
      BY <2>3 DEF FinishAttempt
    <3>2. QED
      BY <3>1, FormStays DEF AttemptInv
  <2>4. CASE NextAttempt
    BY <2>4 DEF NextAttempt, AttemptInv
  <2>5. CASE Cancel
    BY <2>5, FormStays DEF Cancel, AttemptInv
  <2>6. CASE UNCHANGED vars
    BY <2>6, FormStays DEF vars, AttemptInv
  <2>7. QED
    BY <2>1, <2>2, <2>3, <2>4, <2>5, <2>6 DEF Next
<1>3. QED
  BY <1>1, <1>2, PTL DEF Spec

\* The settings as the schedule needs them.
LEMMA SettingsFit ==
    ASSUME AttemptInv
    PROVE  /\ settings.base \in Int /\ settings.max \in Int /\ settings.cooldown \in Int
           /\ settings.jitter \in Int \cup {NaN} /\ ValidRetryPolicy(settings)
BY AttemptAssumption DEF AttemptInv, Starts

\* Unless the jitter can eat it, there is a delay before every retry.
LEMMA RetriesWait ==
    ASSUME AttemptInv, FinishForm(answer, finish), finish.decision = "retry",
           ~JitterCanEatDelay(settings)
    PROVE  finish.delay > 0
<1>1. PICK sample \in Samples : finish.delay \in NextDelay(settings, attempt, sample)
  BY DEF FinishForm
<1>2. /\ settings.jitter \in Int /\ sample \in 0 .. Unit /\ attempt \in Nat \ {0}
      /\ (settings.base * (Unit - settings.jitter)) \div Unit # 0
  BY SettingsFit, AttemptAssumption DEF JitterCanEatDelay, AttemptInv
<1>3. /\ finish.delay \in Int
      /\ (settings.base * (Unit - settings.jitter)) \div Unit <= finish.delay
  BY <1>1, <1>2, SettingsFit, DelayBounds
<1>4. /\ (settings.base * (Unit - settings.jitter)) \div Unit \in Int
      /\ (settings.base * (Unit - settings.jitter)) \div Unit >= 0
  <2>1. /\ settings.base \in Nat /\ Unit - settings.jitter \in Nat /\ Unit \in Nat \ {0}
    BY <1>2, SettingsFit, UnitAssumption DEF ValidRetryPolicy, OutsideUnit
  <2>2. settings.base * (Unit - settings.jitter) \in Nat
    BY <2>1
  <2>3. /\ (settings.base * (Unit - settings.jitter)) \div Unit \in Int
        /\ Unit * 0 <= settings.base * (Unit - settings.jitter)
    BY <2>1, <2>2, DivMeans
  <2>4. QED
    BY <2>1, <2>2, <2>3, DivMeans
<1>5. QED
  BY <1>2, <1>3, <1>4

\* The store and the database refuse no result of an accepted configuration
\* but for the six reasons the property names.
THEOREM RefusalsAreExplained == Spec => []RefusalsExplained
<1>1. AttemptInv => RefusalsExplained
  <2> SUFFICES ASSUME AttemptInv, stage = "refused", ~RefusalsExplained PROVE FALSE
    BY DEF RefusalsExplained
  <2>1. /\ AnswerForm(answer) /\ FinishForm(answer, finish)
        /\ ~(validateAttemptResult(finish) /\ Storable(finish))
    BY DEF AttemptInv
  <2>2. /\ answer.statusCode # NULL => answer.statusCode \in 100 .. 599
        /\ ~(answer.duration < 0)
        /\ answer.decision = "retry" => ~JitterCanEatDelay(settings)
        /\ answer.circuit = "failure" => ~(settings.cooldown < Millisecond)
        /\ answer.body # "nul"
        /\ answer.error \notin {"nul", "malformed"}
    BY DEF RefusalsExplained
  <2>3. Storable(finish)
    BY <2>1, <2>2, AnswerFacts DEF FinishForm, Storable
  <2>4. /\ finish.decision \in Decisions
        /\ finish.statusCode # NULL => finish.statusCode \in 100 .. 599
        /\ finish.statusCode = NULL => finish.error # NULL /\ finish.decision # "succeed"
        /\ finish.statusCode # NULL => Evaluate(finish.statusCode, FALSE) = finish.decision
    BY <2>1, <2>2, AnswerFacts DEF FinishForm
  <2>5. finish.duration >= 0
    <3>1. answer.duration \in Int /\ ~(answer.duration < 0)
      BY <2>1, <2>2, AnswerFacts
    <3>2. finish.duration = answer.duration
      BY <2>1 DEF FinishForm
    <3>3. QED
      BY <3>1, <3>2
  <2>6. finish.decision = "retry" => finish.delay > 0
    BY <2>1, <2>2, RetriesWait DEF FinishForm
  <2>7. finish.circuit \in CircuitOutcomes
    BY <2>1, AnswerFacts DEF FinishForm, CircuitOutcomes
  <2>8. finish.circuit = "failure" => settings.cooldown >= Millisecond
    <3>1. settings.cooldown \in Int /\ Millisecond \in Int
      BY SettingsFit, DurationAssumption
    <3>2. QED
      BY <2>1, <2>2, <3>1 DEF FinishForm
  <2>9. QED
    BY <2>1, <2>3, <2>4, <2>5, <2>6, <2>7, <2>8 DEF validateAttemptResult
<1>2. QED
  BY <1>1, AttemptInductive, PTL

\* Every retry waits as the exponential schedule says, give or take its jitter.
THEOREM DelaysFollowSchedule == Spec => []DelayFollowsSchedule
<1>1. AttemptInv => DelayFollowsSchedule
  <2> SUFFICES ASSUME AttemptInv, stage \in {"finishing", "accepted"},
                      finish.decision = "retry", settings.jitter # NaN
               PROVE  \E b \in {ReferenceDelay(settings, attempt), settings.max} :
                          /\ b - ReferenceDelay(settings, attempt) <= 1
                          /\ finish.delay >= (b * (Unit - settings.jitter)) \div Unit
                          /\ finish.delay <= AtMost((b * (Unit + settings.jitter)) \div Unit,
                                                    settings.max)
    BY DEF DelayFollowsSchedule
  <2>1. PICK sample \in Samples : finish.delay \in NextDelay(settings, attempt, sample)
    BY DEF AttemptInv, FinishForm
  <2>2. settings.jitter \in Int /\ sample \in 0 .. Unit /\ attempt \in Nat \ {0}
    BY SettingsFit, AttemptAssumption DEF AttemptInv
  <2>3. QED
    BY <2>1, <2>2, SettingsFit, DelayBounds
<1>2. QED
  BY <1>1, AttemptInductive, PTL

\* For every status code, what counts against the endpoint is tried again, and
\* what is accepted does not count against it.
THEOREM ChargesAreRetried == Spec => []ChargedIsRetried
<1>1. AttemptInv => ChargedIsRetried
  <2> SUFFICES ASSUME AttemptInv, stage \in {"finishing", "accepted"}
               PROVE  /\ finish.circuit = "failure" => finish.decision = "retry"
                      /\ finish.decision = "succeed" => finish.circuit # "failure"
    BY DEF ChargedIsRetried
  <2>1. AnswerForm(answer) /\ FinishForm(answer, finish)
    BY DEF AttemptInv
  <2>2. answer.circuit = "failure" => answer.decision = "retry"
    BY <2>1, AnswerFacts
  <2>3. QED
    BY <2>1, <2>2 DEF FinishForm
<1>2. QED
  BY <1>1, AttemptInductive, PTL
=============================================================================
