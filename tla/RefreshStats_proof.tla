-------------------------- MODULE RefreshStats_proof --------------------------
(***************************************************************************)
(* RefreshStats keeps its widths, its ring holds the latest calls, no mean *)
(* it reports exceeds the maximum, and the percentile is that of the       *)
(* latest calls: for every size of the ring, every width of the integers   *)
(* and every behaviour of the counter.                                     *)
(***************************************************************************)
EXTENDS RefreshStats, FiniteSetTheorems, TLAPS

-----------------------------------------------------------------------------
(* Arithmetic *)

LEMMA DivFacts ==
    ASSUME NEW a \in Nat, NEW d \in Nat, d > 0
    PROVE  /\ a \div d \in Nat /\ a % d \in 0..(d - 1)
           /\ a = d * (a \div d) + (a % d)
           /\ a \div d <= a
<1>1. a \div d \in Nat /\ a % d \in 0..(d - 1) /\ a = d * (a \div d) + (a % d)
  BY Z3
<1> DEFINE q == a \div d
<1>2. q \in Nat /\ d * q <= a
  BY <1>1
<1> HIDE DEF q
<1>3. d * q >= q
  BY <1>2
<1> QED
  BY <1>1, <1>2, <1>3 DEF q

LEMMA ProductMonotone ==
    ASSUME NEW a \in Nat, NEW b \in Nat, NEW c \in Nat, a <= b
    PROVE  a * c \in Nat /\ b * c \in Nat /\ a * c <= b * c
OBVIOUS

\* Two numbers less than n apart leave different remainders.
LEMMA RemaindersApart ==
    ASSUME NEW n \in Nat, n > 0, NEW a \in Nat, NEW b \in Nat, a < b, b < a + n
    PROVE  a % n # b % n
<1> DEFINE p == a \div n
           q == b \div n
<1>1. p \in Nat /\ q \in Nat /\ a = n * p + (a % n) /\ b = n * q + (b % n)
  BY DivFacts
<1>2. a % n \in Nat /\ b % n \in Nat
  BY DivFacts
<1> HIDE DEF p, q
<1>3. SUFFICES ASSUME a % n = b % n
               PROVE  FALSE
  OBVIOUS
<1>4. n * q > n * p /\ n * q < n * p + n
  BY <1>1, <1>2, <1>3
<1>5. q > p
  <2> SUFFICES ASSUME q <= p
               PROVE  FALSE
    BY <1>1
  <2>1. n * q <= n * p
    BY <1>1
  <2> QED
    BY <1>1, <1>4, <2>1
<1>6. n * q >= n * (p + 1)
  BY <1>1, <1>5
<1> QED
  BY <1>1, <1>4, <1>6

LEMMA SmallRemainder ==
    ASSUME NEW n \in Nat, NEW k \in 0..(n - 1)
    PROVE  k % n = k
OBVIOUS

-----------------------------------------------------------------------------
(* The types *)

LEMMA MonusType ==
    ASSUME NEW a \in Ticks, NEW b \in Ticks
    PROVE  Monus(a, b) \in Ticks
BY StatsAssumption DEF Ticks, Monus

LEMMA CalibrateFacts ==
    ASSUME TypeOK, NEW a \in Reading, NEW b \in Reading, Calibrate(a, b)
    PROVE  /\ step = "start" /\ step' = "scene" /\ ticks_per_ms' \in Ticks
           /\ UNCHANGED <<stats, line, log>>
<1>1. Monus(b, a) \in Ticks
  BY StatsAssumption, MonusType DEF Ticks
<1>2. Monus(b, a) \div StallMs \in Ticks
  BY <1>1, DivFacts, StatsAssumption DEF Ticks
<1> QED
  BY <1>2 DEF Calibrate

\* One call of record(), with ticks of the counter's width.
LEMMA RefreshFacts ==
    ASSUME TypeOK, NEW a \in Reading, NEW b \in Reading, Refresh(a, b)
    PROVE  \E ticks \in Ticks :
               /\ record(ticks) /\ log' = Append(log, ticks)
               /\ step = "scene" /\ UNCHANGED <<step, ticks_per_ms, line>>
<1>1. Monus(b, a) \in Ticks
  BY StatsAssumption, MonusType DEF Ticks
<1> QED
  BY <1>1 DEF Refresh

LEMMA SaturatingType ==
    ASSUME NEW a \in Ticks, NEW b \in Ticks
    PROVE  SaturatingAdd(a, b) \in Ticks
<1>1. U64 \in Nat \ {0} /\ a \in Nat /\ b \in Nat
  BY StatsAssumption DEF Ticks
<1> QED
  BY <1>1 DEF Ticks, SaturatingAdd

LEMMA RecordType ==
    ASSUME TypeOK, NEW ticks \in Ticks, record(ticks), log' = Append(log, ticks),
           UNCHANGED <<step, ticks_per_ms, line>>
    PROVE  TypeOK'
<1>1. total_ticks' \in Ticks
  <2>1. total_ticks' = SaturatingAdd(total_ticks, ticks) /\ total_ticks \in Ticks
    BY DEF TypeOK, record, Sum
  <2> QED
    BY <2>1, SaturatingType
<1> USE StatsAssumption DEF TypeOK
<1>2. max_ticks' \in Ticks
  BY DEF record, Longest
<1>3. count' = count + 1 /\ sample_head' = sample_head + 1
  BY DEF record, Write
<1>4. log' \in Seq(Ticks) /\ Len(log') = Len(log) + 1
  OBVIOUS
<1>5. count' \in Nat /\ sample_head' = count' /\ Len(log') = count'
  BY <1>3, <1>4
<1>6. sample_ring' \in [0..(Cap - 1) -> Ticks]
  BY DEF record, Write
<1> QED
  BY <1>1, <1>2, <1>4, <1>5, <1>6

LEMMA InitType == Init => TypeOK
BY StatsAssumption DEF Init, TypeOK, Ticks

LEMMA NextType ==
    ASSUME TypeOK, [Next]_vars
    PROVE  TypeOK'
<1>1. CASE UNCHANGED vars
  BY <1>1 DEF TypeOK, vars, stats
<1>2. ASSUME NEW a \in Reading, NEW b \in Reading, Calibrate(a, b)
      PROVE  TypeOK'
  BY <1>2, CalibrateFacts DEF TypeOK, stats
<1>3. ASSUME NEW a \in Reading, NEW b \in Reading, Refresh(a, b)
      PROVE  TypeOK'
  BY <1>3, RefreshFacts, RecordType
<1>4. CASE Drain
  BY <1>4 DEF Drain, TypeOK, stats
<1> QED
  BY <1>1, <1>2, <1>3, <1>4 DEF Next

\* No call of record(), however the counter jumps, takes a field past its
\* width or parts the two counts.
THEOREM StatsTypeCorrect == Spec => []TypeOK
BY InitType, NextType, PTL DEF Spec

-----------------------------------------------------------------------------
(* The ring *)

LEMMA RecordWindow ==
    ASSUME TypeOK, WindowIsRecent,
           NEW ticks \in Ticks, record(ticks), log' = Append(log, ticks)
    PROVE  WindowIsRecent'
<1>1. SUFFICES ASSUME NEW i \in 1..Len(log'), Len(log') < i + Cap
               PROVE  sample_ring'[(i - 1) % Cap] = log'[i]
  BY DEF WindowIsRecent
<1> DEFINE n == Len(log)
<1>2. /\ n \in Nat /\ Cap \in Nat /\ Cap > 0 /\ log \in Seq(Ticks)
      /\ sample_head = n /\ Len(log') = n + 1 /\ i \in 1..(n + 1)
  BY <1>1, StatsAssumption DEF TypeOK
<1>3. sample_ring' = [sample_ring EXCEPT ![n % Cap] = ticks]
  BY <1>2 DEF record, Write
<1>4. n % Cap \in 0..(Cap - 1) /\ (i - 1) % Cap \in 0..(Cap - 1)
  BY <1>2, DivFacts
<1>5. sample_ring \in [0..(Cap - 1) -> Ticks]
  BY DEF TypeOK
<1>6. CASE i = n + 1
  BY <1>2, <1>3, <1>4, <1>5, <1>6
<1>7. CASE i \in 1..n
  <2>1. (i - 1) % Cap # n % Cap
    BY <1>1, <1>2, <1>7, RemaindersApart
  <2>2. sample_ring[(i - 1) % Cap] = log[i]
    BY <1>1, <1>2, <1>7 DEF WindowIsRecent
  <2>3. log'[i] = log[i]
    BY <1>2, <1>7
  <2> QED
    BY <1>3, <1>4, <1>5, <2>1, <2>2, <2>3
<1> QED
  BY <1>2, <1>6, <1>7

\* The slots drain() reads hold the latest calls, whatever the size of the
\* ring and however often it has wrapped.
THEOREM RingKeepsLatest == Spec => []WindowIsRecent
<1>1. Init => WindowIsRecent
  BY DEF Init, WindowIsRecent
<1>2. ASSUME TypeOK, WindowIsRecent, [Next]_vars
      PROVE  WindowIsRecent'
  <2>1. CASE UNCHANGED <<sample_ring, log>>
    BY <1>2, <2>1 DEF WindowIsRecent
  <2>2. ASSUME NEW a \in Reading, NEW b \in Reading, Refresh(a, b)
        PROVE  WindowIsRecent'
    BY <1>2, <2>2, RefreshFacts, RecordWindow
  <2> QED
    BY <1>2, <2>1, <2>2 DEF Next, Calibrate, Drain, vars, stats
<1> QED
  BY <1>1, <1>2, StatsTypeCorrect, PTL DEF Spec

-----------------------------------------------------------------------------
(* The mean and the maximum *)

\* The sum is at least its greatest term and at most count times that; both
\* survive a sum that saturates.  Once the line is written nothing changes any
\* more.
SumInv ==
    /\ max_ticks <= total_ticks
    /\ total_ticks <= max_ticks * count

LineInv == line # <<>> => step = "shutdown" /\ MeanBelowMax

LEMMA RecordSum ==
    ASSUME TypeOK, SumInv, NEW ticks \in Ticks, record(ticks)
    PROVE  SumInv'
<1> DEFINE total == total_ticks
           max == max_ticks
           n == count
<1>1. /\ total \in Ticks /\ max \in Ticks /\ n \in Nat /\ ticks \in Ticks
      /\ max <= total /\ total <= max * n
  BY DEF TypeOK, SumInv
<1>2. /\ n' = n + 1 /\ total' <= total + ticks
      /\ total' = total + ticks \/ total' = U64 - 1
      /\ max' = (IF ticks > max THEN ticks ELSE max)
  BY <1>1, StatsAssumption DEF record, Sum, SaturatingAdd, Longest, Ticks
<1>3. /\ U64 \in Nat /\ Ticks = 0..(U64 - 1)
  BY StatsAssumption DEF Ticks
<1>4. total \in Nat /\ max \in Nat /\ ticks \in Nat /\ max' \in Nat /\ total' \in Nat
  BY <1>1, <1>2, <1>3
<1>5. max' >= max /\ max' >= ticks /\ max' <= total'
  BY <1>1, <1>2, <1>3, <1>4
<1>6. max' * n' = max' * n + max'
  BY <1>1, <1>2, <1>4
<1> HIDE DEF total, max, n
<1>7. max' * n >= max * n
  BY <1>1, <1>4, <1>5, ProductMonotone
<1>8. max * n \in Nat /\ max' * n \in Nat
  BY <1>1, <1>4, <1>5, ProductMonotone
<1>9. total' <= max' * n'
  BY <1>1, <1>2, <1>4, <1>5, <1>6, <1>7, <1>8
<1> QED
  BY <1>5, <1>9 DEF SumInv, total, max, n

\* A sum of at most n times m, divided by n, is at most m: with the units
\* and the roundings of drain().
LEMMA MeanBound ==
    ASSUME NEW total \in Nat, NEW m \in Nat, NEW n \in Nat, n > 0,
           NEW u \in Nat, NEW d \in Nat, d > 0, total <= m * n
    PROVE  (total * u) \div (d * n) <= (m * u) \div d
<1> DEFINE q == (total * u) \div (d * n)
           r == (m * u) \div d
<1>1. d * n \in Nat /\ d * n > 0 /\ total * u \in Nat /\ m * u \in Nat
  <2>1. d * n >= n
    OBVIOUS
  <2> QED
    BY <2>1
<1>2. q \in Nat /\ (d * n) * q <= total * u
  BY <1>1, DivFacts
<1>3. r \in Nat /\ m * u < d * r + d
  BY <1>1, DivFacts
<1> HIDE DEF q, r
<1>4. total * u <= (m * n) * u
  BY <1>1
<1>5. (m * n) * u = (m * u) * n
  OBVIOUS
<1>6. (m * u) * n < (d * r + d) * n
  BY <1>1, <1>3
<1>7. SUFFICES ASSUME q >= r + 1
               PROVE  FALSE
  BY <1>2, <1>3 DEF q, r
<1>8. (d * n) * q >= (d * n) * (r + 1)
  BY <1>1, <1>2, <1>3, <1>7
<1>9. (d * n) * (r + 1) = (d * r + d) * n
  BY <1>3
<1> QED
  BY <1>2, <1>3, <1>4, <1>5, <1>6, <1>8, <1>9

LEMMA TimesFits ==
    ASSUME NEW a, NEW b, a * b \in 0..(U64 - 1)
    PROVE  Times(a, b) = a * b
<1> DEFINE k == a * b
<1>1. k \in 0..(U64 - 1)
  OBVIOUS
<1> HIDE DEF k
<1>2. k % U64 = k
  BY <1>1, SmallRemainder, StatsAssumption
<1> QED
  BY <1>2 DEF Times, k

LEMMA SummaryMean ==
    ASSUME TypeOK, SumInv, ProductsFit
    PROVE  Summary.mean_us <= Summary.max_us
<1> USE StatsAssumption DEF TypeOK, Ticks
<1>1. CASE count = 0 \/ ticks_per_ms = 0
  BY <1>1 DEF Summary
<1>2. CASE count > 0 /\ ticks_per_ms > 0
  <2>0. /\ total_ticks \in Nat /\ max_ticks \in Nat /\ max_ticks <= total_ticks
        /\ Micros \in Nat /\ U64 \in Nat /\ ticks_per_ms \in Nat /\ count \in Nat
        /\ total_ticks <= max_ticks * count
    BY DEF SumInv
  <2>2. /\ max_ticks * Micros \in Nat /\ total_ticks * Micros \in Nat
        /\ max_ticks * Micros <= total_ticks * Micros
    BY <2>0, ProductMonotone
  <2>5. ticks_per_ms * count \in Nat
    BY <2>0, ProductMonotone
  <2>1. total_ticks * Micros \in 0..(U64 - 1) /\ ticks_per_ms * count \in 0..(U64 - 1)
    BY <2>0, <2>2, <2>5 DEF ProductsFit
  <2>3. /\ Times(total_ticks, Micros) = total_ticks * Micros
        /\ Times(ticks_per_ms, count) = ticks_per_ms * count
        /\ Times(max_ticks, Micros) = max_ticks * Micros
    <3>1. max_ticks * Micros \in 0..(U64 - 1)
      BY <2>0, <2>1, <2>2
    <3> QED
      BY <2>1, <3>1, TimesFits
  <2>4. (total_ticks * Micros) \div (ticks_per_ms * count)
          <= (max_ticks * Micros) \div ticks_per_ms
    BY <1>2, <2>0, MeanBound
  <2> QED
    BY <1>2, <2>3, <2>4 DEF Summary, InMicros
<1> QED
  BY <1>1, <1>2 DEF TypeOK

\* The mean of the refresh_stats line never exceeds its maximum, on every
\* machine whose counter does not make a product of drain() wrap.
THEOREM MeanNeverAboveMax == Spec => []MeanBelowMax
<1> DEFINE Inv == SumInv /\ LineInv
<1>1. Init => Inv
  BY DEF Init, SumInv, LineInv
<1>2. ASSUME TypeOK, Inv, [Next]_vars
      PROVE  Inv'
  <2>1. CASE UNCHANGED vars
    BY <1>2, <2>1 DEF SumInv, LineInv, MeanBelowMax, ProductsFit, vars, stats
  <2>2. ASSUME NEW a \in Reading, NEW b \in Reading, Calibrate(a, b)
        PROVE  Inv'
    BY <1>2, <2>2 DEF Calibrate, SumInv, LineInv, stats
  <2>3. ASSUME NEW a \in Reading, NEW b \in Reading, Refresh(a, b)
        PROVE  Inv'
    <3>1. SumInv'
      BY <1>2, <2>3, RefreshFacts, RecordSum
    <3> QED
      BY <1>2, <2>3, <3>1 DEF Refresh, LineInv
  <2>4. CASE Drain
    <3>1. UNCHANGED <<ticks_per_ms, stats>> /\ step = "scene" /\ step' = "shutdown"
      BY <2>4 DEF Drain
    <3>2. SumInv' /\ (ProductsFit' <=> ProductsFit)
      BY <1>2, <3>1 DEF SumInv, ProductsFit, stats
    <3>3. CASE line' = <<Summary>>
      BY <1>2, <3>1, <3>2, <3>3, SummaryMean DEF LineInv, MeanBelowMax
    <3>4. CASE line' = line
      BY <1>2, <3>1, <3>2, <3>4 DEF LineInv
    <3> QED
      BY <2>4, <3>2, <3>3, <3>4 DEF Drain
  <2> QED
    BY <1>2, <2>1, <2>2, <2>3, <2>4 DEF Next
<1>3. TypeOK /\ Inv => MeanBelowMax
  BY DEF MeanBelowMax, LineInv
<1> QED
  BY <1>1, <1>2, <1>3, StatsTypeCorrect, PTL DEF Spec

-----------------------------------------------------------------------------
(* Sorting *)

LEMMA UpToN ==
    ASSUME NEW n \in Nat
    PROVE  IsFiniteSet(1..n) /\ Cardinality(1..n) = n
BY FS_Interval

\* A slice can be put in order: give each place the number of those that do
\* not come after it.
LEMMA OrderExists ==
    ASSUME NEW n \in Nat, NEW s \in [1..n -> Nat]
    PROVE  \E p : p \in Orders(s)
<1> DEFINE Before(j, i) == s[j] < s[i] \/ (s[j] = s[i] /\ j <= i)
           Below(i) == {j \in 1..n : Before(j, i)}
           place == [i \in 1..n |-> Cardinality(Below(i))]
<1>1. IsFiniteSet(1..n) /\ Cardinality(1..n) = n
  BY UpToN
<1>2. ASSUME NEW i \in 1..n
      PROVE  /\ IsFiniteSet(Below(i)) /\ Cardinality(Below(i)) \in 1..n
             /\ i \in Below(i)
  <2>1. i \in Below(i) /\ Below(i) \in SUBSET (1..n)
    OBVIOUS
  <2> HIDE DEF Below
  <2>2. IsFiniteSet(Below(i)) /\ Cardinality(Below(i)) <= n
    BY <1>1, <2>1, FS_Subset
  <2>3. Cardinality(Below(i)) \in Nat /\ Cardinality(Below(i)) # 0
    BY <2>1, <2>2, FS_EmptySet, FS_CardinalityType
  <2> QED
    BY <2>1, <2>2, <2>3
<1>3. ASSUME NEW i \in 1..n, NEW j \in 1..n, i # j, Before(j, i)
      PROVE  place[j] < place[i]
  <2>1. Below(j) \subseteq Below(i) \ {i}
    BY <1>3
  <2>2. i \in Below(i) /\ IsFiniteSet(Below(i)) /\ Cardinality(Below(i)) \in 1..n
    BY <1>2
  <2>3. Cardinality(Below(j)) \in 1..n
    BY <1>2
  <2> HIDE DEF Below
  <2>4. /\ IsFiniteSet(Below(i) \ {i})
        /\ Cardinality(Below(i) \ {i}) = Cardinality(Below(i)) - 1
    BY <2>2, FS_RemoveElement
  <2>5. Cardinality(Below(j)) <= Cardinality(Below(i) \ {i})
    BY <2>1, <2>4, FS_Subset
  <2> QED
    BY <2>2, <2>3, <2>4, <2>5
<1>4. \A i, j \in 1..n : Before(j, i) \/ Before(i, j)
  OBVIOUS
<1>5. \A i \in 1..n : place[i] \in 1..n
  BY <1>2
<1>6. place \in Surjection(1..n, 1..n)
  <2>1. place \in [1..n -> 1..n]
    BY <1>5
  <2>2. \A i, j \in 1..n : place[i] = place[j] => i = j
    <3> SUFFICES ASSUME NEW i \in 1..n, NEW j \in 1..n, i # j
                 PROVE  place[i] # place[j]
      OBVIOUS
    <3>1. place[i] < place[j] \/ place[j] < place[i]
      BY <1>3, <1>4
    <3>2. place[i] \in 1..n /\ place[j] \in 1..n
      BY <1>5
    <3> HIDE DEF place
    <3> QED
      BY <3>1, <3>2
  <2> HIDE DEF place
  <2>3. place \in Injection(1..n, 1..n)
    BY <2>1, <2>2 DEF Injection, IsInjective
  <2> QED
    BY <1>1, <2>3, FS_Injection
<1> HIDE DEF place
<1> DEFINE p == [q \in 1..n |-> CHOOSE i \in 1..n : place[i] = q]
<1>7. \A q \in 1..n : p[q] \in 1..n /\ place[p[q]] = q
  BY <1>6 DEF Surjection
<1>8. ASSUME NEW q \in 1..n, NEW r \in 1..n, q < r
      PROVE  p[q] # p[r] /\ s[p[q]] <= s[p[r]]
  <2>1. /\ p[q] \in 1..n /\ p[r] \in 1..n
        /\ place[p[q]] = q /\ place[p[r]] = r
    BY <1>7
  <2> HIDE DEF p
  <2>2. p[q] # p[r]
    BY <1>8, <2>1
  <2>3. ~Before(p[r], p[q])
    BY <1>3, <1>8, <2>1, <2>2
  <2>4. s[p[q]] \in Nat /\ s[p[r]] \in Nat
    BY <2>1
  <2> QED
    BY <2>2, <2>3, <2>4
<1>9. p \in [1..n -> 1..n]
  BY <1>7
<1> HIDE DEF p
<1> QED
  BY <1>8, <1>9 DEF Orders

\* What stands in place k of a slice in order: k of its elements are not
\* above it, and of a smaller number fewer are not.
LEMMA PlaceK ==
    ASSUME NEW n \in Nat, NEW s \in [1..n -> Nat], NEW p \in Orders(s),
           NEW k \in 1..n
    PROVE  /\ p[k] \in 1..n
           /\ Cardinality({i \in 1..n : s[i] <= s[p[k]]}) >= k
           /\ \A u \in Nat : u < s[p[k]] =>
                Cardinality({i \in 1..n : s[i] <= u}) < k
<1>1. /\ p \in [1..n -> 1..n]
      /\ \A i, j \in 1..n : i < j => p[i] # p[j] /\ s[p[i]] <= s[p[j]]
  BY DEF Orders
<1>2. \A i, j \in 1..n : p[i] = p[j] => i = j
  BY <1>1
<1>3. IsFiniteSet(1..n) /\ Cardinality(1..n) = n
  BY UpToN
<1>4. \A i \in 1..n : \E q \in 1..n : p[q] = i
  <2>1. p \in Injection(1..n, 1..n)
    BY <1>1, <1>2 DEF Injection, IsInjective
  <2>2. p \in Surjection(1..n, 1..n)
    BY <1>3, <2>1, FS_Injection
  <2> QED
    BY <2>2 DEF Surjection
<1>5. Cardinality({i \in 1..n : s[i] <= s[p[k]]}) >= k
  <2> DEFINE A == {i \in 1..n : s[i] <= s[p[k]]}
             f == [q \in 1..k |-> p[q]]
  <2>1. A \in SUBSET (1..n)
    OBVIOUS
  <2>2. \A q \in 1..k : p[q] \in A
    <3> SUFFICES ASSUME NEW q \in 1..k
                 PROVE  p[q] \in A
      OBVIOUS
    <3>1. q \in 1..n /\ (q < k \/ q = k)
      OBVIOUS
    <3>2. p[q] \in 1..n /\ p[k] \in 1..n
      BY <1>1, <3>1
    <3>3. s[p[q]] \in Nat /\ s[p[k]] \in Nat
      BY <3>2
    <3>4. q < k => s[p[q]] <= s[p[k]]
      BY <1>1, <3>1
    <3> HIDE DEF A
    <3>5. s[p[q]] <= s[p[k]]
      BY <3>1, <3>3, <3>4
    <3> QED
      BY <3>2, <3>5 DEF A
  <2> HIDE DEF A
  <2>3. f \in Injection(1..k, A)
    <3>1. \A q \in 1..k : q \in 1..n
      OBVIOUS
    <3> QED
      BY <1>2, <2>2, <3>1 DEF Injection, IsInjective
  <2>4. IsFiniteSet(A)
    BY <1>3, <2>1, FS_Subset
  <2>5. Cardinality(1..k) <= Cardinality(A)
    BY <2>3, <2>4, FS_Injection
  <2>6. Cardinality(1..k) = k
    BY FS_Interval
  <2> QED
    BY <2>5, <2>6 DEF A
<1>6. ASSUME NEW u \in Nat, u < s[p[k]]
      PROVE  Cardinality({i \in 1..n : s[i] <= u}) < k
  <2> DEFINE A == {i \in 1..n : s[i] <= u}
             g == [i \in A |-> CHOOSE q \in 1..n : p[q] = i]
  <2>1. \A i \in A : g[i] \in 1..n /\ p[g[i]] = i
    BY <1>4
  <2>2. ASSUME NEW i \in A
        PROVE  g[i] \in 1..(k - 1)
    <3>1. g[i] \in 1..n /\ p[g[i]] = i /\ s[i] <= u /\ i \in 1..n
      BY <2>1
    <3> HIDE DEF g
    <3>2. p[k] \in 1..n
      BY <1>1
    <3>3. s[i] \in Nat /\ s[p[k]] \in Nat
      BY <3>1, <3>2
    <3>4. ~(s[p[k]] <= s[i])
      BY <1>6, <3>1, <3>3
    <3>5. g[i] # k /\ ~(k < g[i])
      <4>1. g[i] = k => s[p[k]] <= s[i]
        BY <3>1, <3>3
      <4>2. k < g[i] => s[p[k]] <= s[i]
        BY <1>1, <3>1
      <4> QED
        BY <3>4, <4>1, <4>2
    <3> QED
      BY <3>1, <3>5
  <2>3. g \in Injection(A, 1..(k - 1))
    <3>1. g \in [A -> 1..(k - 1)]
      BY <2>2
    <3>2. \A i, j \in A : g[i] = g[j] => i = j
      BY <2>1
    <3> HIDE DEF A, g
    <3> QED
      BY <3>1, <3>2 DEF Injection, IsInjective
  <2> HIDE DEF g, A
  <2>4. IsFiniteSet(1..(k - 1)) /\ Cardinality(1..(k - 1)) = k - 1
    BY FS_Interval
  <2>5. IsFiniteSet(A) /\ Cardinality(A) <= k - 1
    BY <2>3, <2>4, FS_Injection
  <2>6. Cardinality(A) \in Nat
    BY <2>5, FS_CardinalityType
  <2>7. Cardinality(A) < k
    BY <2>5, <2>6
  <2> QED
    BY <2>7 DEF A
<1> QED
  BY <1>1, <1>5, <1>6

-----------------------------------------------------------------------------
(* The slots in use and the latest calls *)

\* Where call i is in the copy that drain() sorts.
Slot(i) == ((i - 1) % Cap) + 1

LEMMA SlotsInUse ==
    ASSUME TypeOK, WindowIsRecent
    PROVE  /\ valid \in Nat /\ (count > 0 => valid > 0)
           /\ taken \in [1..valid -> Ticks]
           /\ IsFiniteSet(Latest) /\ Cardinality(Latest) = valid
           /\ \A i \in Latest : Slot(i) \in 1..valid /\ taken[Slot(i)] = log[i]
           /\ \A i, j \in Latest : Slot(i) = Slot(j) => i = j
           /\ \A q \in 1..valid : \E i \in Latest : Slot(i) = q
<1> DEFINE n == Len(log)
<1>1. /\ n \in Nat /\ count = n /\ Cap \in Nat /\ Cap > 0
      /\ sample_ring \in [0..(Cap - 1) -> Ticks]
  BY StatsAssumption DEF TypeOK
<1>2. valid \in Nat /\ valid = (IF n < Cap THEN n ELSE Cap)
  BY <1>1 DEF valid, AtMost
<1>3. taken \in [1..valid -> Ticks]
  BY <1>1, <1>2 DEF taken
<1>4. Latest = (n - valid + 1)..n
  BY <1>1, <1>2 DEF Latest
<1>5. IsFiniteSet(Latest) /\ Cardinality(Latest) = valid
  <2> DEFINE a == n - valid + 1
  <2>1. n \in Int /\ a \in Int /\ n - a + 1 = valid /\ (a > n => valid = 0)
    BY <1>1, <1>2
  <2>2. Latest = a..n
    BY <1>4
  <2> HIDE DEF n, a
  <2>3. IsFiniteSet(a..n) /\ Cardinality(a..n) = IF a > n THEN 0 ELSE n - a + 1
    BY <2>1, FS_Interval
  <2> QED
    BY <2>1, <2>2, <2>3
<1>6. ASSUME NEW i \in Latest
      PROVE  Slot(i) \in 1..valid /\ taken[Slot(i)] = log[i]
  <2>1. i \in 1..n /\ n < i + Cap
    BY <1>6 DEF Latest
  <2>2. (i - 1) % Cap \in 0..(Cap - 1)
    BY <1>1, <2>1, DivFacts
  <2>3. n < Cap => (i - 1) % Cap = i - 1
    <3>1. n < Cap => i - 1 \in 0..(Cap - 1)
      BY <1>1, <2>1
    <3> QED
      BY <1>1, <3>1, SmallRemainder
  <2>4. Slot(i) \in 1..valid
    BY <1>1, <1>2, <2>1, <2>2, <2>3 DEF Slot
  <2>5. sample_ring[(i - 1) % Cap] = log[i]
    BY <2>1 DEF WindowIsRecent
  <2>6. Slot(i) - 1 = (i - 1) % Cap
    BY <2>2 DEF Slot
  <2>7. taken[Slot(i)] = sample_ring[Slot(i) - 1]
    BY <2>4 DEF taken
  <2> QED
    BY <2>4, <2>5, <2>6, <2>7
<1>7. ASSUME NEW i \in Latest, NEW j \in Latest, i < j
      PROVE  Slot(i) # Slot(j)
  <2>1. i - 1 \in Nat /\ j - 1 \in Nat /\ i - 1 < j - 1 /\ j - 1 < (i - 1) + Cap
    BY <1>1, <1>7 DEF Latest
  <2>2. (i - 1) % Cap # (j - 1) % Cap
    BY <1>1, <2>1, RemaindersApart
  <2>3. (i - 1) % Cap \in Nat /\ (j - 1) % Cap \in Nat
    BY <1>1, <2>1, DivFacts
  <2> QED
    BY <2>2, <2>3 DEF Slot
<1>8. \A i, j \in Latest : Slot(i) = Slot(j) => i = j
  <2>1. \A i, j \in Latest : i < j \/ j < i \/ i = j
    BY <1>1 DEF Latest
  <2> QED
    BY <1>7, <2>1
<1>9. \A q \in 1..valid : \E i \in Latest : Slot(i) = q
  <2> DEFINE f == [i \in Latest |-> Slot(i)]
  <2>1. f \in Injection(Latest, 1..valid)
    BY <1>6, <1>8 DEF Injection, IsInjective
  <2>2. \A i \in Latest : f[i] = Slot(i)
    OBVIOUS
  <2> HIDE DEF f
  <2>3. IsFiniteSet(1..valid) /\ Cardinality(1..valid) = valid
    BY <1>2, UpToN
  <2>4. f \in Surjection(Latest, 1..valid)
    BY <1>5, <2>1, <2>3, FS_Injection
  <2> QED
    BY <2>2, <2>4 DEF Surjection
<1> QED
  BY <1>1, <1>2, <1>3, <1>5, <1>6, <1>8, <1>9

\* Counting the calls and counting the slots is the same.
LEMMA NotAboveSlots ==
    ASSUME TypeOK, WindowIsRecent, NEW t
    PROVE  NotAbove(t) = Cardinality({q \in 1..valid : taken[q] <= t})
<1> DEFINE A == {i \in Latest : log[i] <= t}
           B == {q \in 1..valid : taken[q] <= t}
           f == [i \in A |-> Slot(i)]
<1>1. f \in Injection(A, B)
  BY SlotsInUse DEF Injection, IsInjective
<1>2. \A q \in B : \E i \in A : f[i] = q
  <2> SUFFICES ASSUME NEW q \in B
               PROVE  \E i \in A : f[i] = q
    OBVIOUS
  <2>1. PICK i \in Latest : Slot(i) = q
    BY SlotsInUse
  <2>2. log[i] = taken[q]
    BY <2>1, SlotsInUse
  <2>3. i \in A
    BY <2>2
  <2> QED
    BY <2>1, <2>3
<1>3. IsFiniteSet(A)
  <2>1. A \in SUBSET Latest
    OBVIOUS
  <2> HIDE DEF A
  <2> QED
    BY <2>1, SlotsInUse, FS_Subset
<1> HIDE DEF A, B, f
<1>4. f \in Surjection(A, B)
  BY <1>1, <1>2 DEF Surjection, Injection
<1>5. Cardinality(A) = Cardinality(B)
  BY <1>1, <1>3, <1>4, FS_Surjection
<1> QED
  BY <1>5 DEF NotAbove, A, B

-----------------------------------------------------------------------------
(* The percentile *)

LEMMA ShareOf ==
    ASSUME NEW n \in Nat, n > 0
    PROVE  /\ (n * RankNum) \div RankDen \in 0..n
           /\ p99_idx(n) + 1 \in 1..n
           /\ p99_idx(n) + 1 = IF (n * RankNum) \div RankDen = 0 THEN 1
                               ELSE (n * RankNum) \div RankDen
<1> DEFINE r == (n * RankNum) \div RankDen
<1>1. /\ RankNum \in Nat /\ RankDen \in Nat /\ RankDen > 0
      /\ RankNum <= RankDen
  BY StatsAssumption
<1>2. n * RankNum \in Nat /\ n * RankNum <= RankDen * n
  BY <1>1
<1>3. r \in Nat /\ RankDen * r <= n * RankNum
  BY <1>1, <1>2, DivFacts
<1>4. p99_idx(n) = IF r > 1 THEN r - 1 ELSE 0
  BY DEF p99_idx, Monus
<1> HIDE DEF r
<1>5. r <= n
  <2> SUFFICES ASSUME r >= n + 1
               PROVE  FALSE
    BY <1>3
  <2>1. RankDen * r >= RankDen * (n + 1)
    BY <1>1, <1>3
  <2>2. RankDen * (n + 1) = RankDen * n + RankDen
    BY <1>1
  <2>3. RankDen * r \in Nat /\ RankDen * n \in Nat
    BY <1>1, <1>3
  <2> QED
    BY <1>1, <1>2, <1>3, <2>1, <2>2, <2>3
<1>6. /\ r \in 0..n /\ p99_idx(n) + 1 \in 1..n
      /\ p99_idx(n) + 1 = IF r = 0 THEN 1 ELSE r
  BY <1>3, <1>4, <1>5
<1> QED
  BY <1>6 DEF r

\* What is picked from the sorted slots is the percentile of the calls.
LEMMA PickedIsPercentile ==
    ASSUME TypeOK, WindowIsRecent, count > 0
    PROVE  \E q \in 1..valid : /\ valid_slice[p99_idx(valid) + 1] = taken[q]
                               /\ Percentile = taken[q]
<1> DEFINE n == valid
           k == p99_idx(n) + 1
           p == CHOOSE o \in Orders(taken) : TRUE
           t == taken[p[k]]
           enough == {log[i] : i \in {j \in Latest : NotAbove(log[j]) >= Rank}}
<1>1. n \in Nat /\ n > 0 /\ taken \in [1..n -> Nat]
  <2>1. n \in Nat /\ n > 0 /\ taken \in [1..n -> Ticks]
    BY SlotsInUse
  <2>2. Ticks \subseteq Nat
    BY StatsAssumption DEF Ticks
  <2> HIDE DEF n
  <2> QED
    BY <2>1, <2>2
<1>2. k \in 1..n /\ k = Rank
  <2>1. Cardinality(Latest) = n
    BY SlotsInUse
  <2> QED
    BY <1>1, <2>1, ShareOf DEF Rank
<1>3. p \in Orders(taken)
  BY <1>1, OrderExists
<1>4. valid_slice[k] = t
  BY <1>2 DEF valid_slice
<1> HIDE DEF n, k, p
<1>5. /\ p[k] \in 1..n
      /\ Cardinality({i \in 1..n : taken[i] <= t}) >= k
      /\ \A u \in Nat : u < t => Cardinality({i \in 1..n : taken[i] <= u}) < k
  BY <1>1, <1>2, <1>3, PlaceK
<1>6. t \in Nat
  BY <1>1, <1>5
<1> HIDE DEF t
<1>7. /\ NotAbove(t) >= Rank
      /\ \A u \in Nat : u < t => NotAbove(u) < Rank
  BY <1>2, <1>5, NotAboveSlots DEF n
<1>8. t \in enough
  <2>1. PICK i \in Latest : Slot(i) = p[k]
    BY <1>5, SlotsInUse DEF n
  <2>2. log[i] = t
    BY <2>1, SlotsInUse DEF t
  <2> QED
    BY <1>7, <2>2
<1>9. \A u \in enough : u \in Nat /\ t <= u
  <2> SUFFICES ASSUME NEW i \in Latest, NotAbove(log[i]) >= Rank
               PROVE  log[i] \in Nat /\ t <= log[i]
    OBVIOUS
  <2>1. log[i] \in Nat
    <3>1. Slot(i) \in 1..n /\ taken[Slot(i)] = log[i]
      BY SlotsInUse DEF n
    <3> QED
      BY <1>1, <3>1
  <2>2. ~(log[i] < t)
    <3>1. log[i] < t => NotAbove(log[i]) < Rank
      BY <1>7, <2>1
    <3>2. Rank \in Nat
      BY <1>1, <1>2
    <3>3. NotAbove(log[i]) \in Nat
      <4>1. {j \in Latest : log[j] <= log[i]} \in SUBSET Latest
        OBVIOUS
      <4>2. IsFiniteSet({j \in Latest : log[j] <= log[i]})
        BY <4>1, SlotsInUse, FS_Subset
      <4> QED
        BY <4>2, FS_CardinalityType DEF NotAbove
    <3> QED
      BY <3>1, <3>2, <3>3
  <2> QED
    BY <1>6, <2>1, <2>2
<1>10. Percentile = CHOOSE u \in enough : \A v \in enough : u <= v
  BY DEF Percentile
<1> HIDE DEF enough
<1>11. \A u \in enough : (\A v \in enough : u <= v) => u = t
  <2> SUFFICES ASSUME NEW u \in enough, \A v \in enough : u <= v
               PROVE  u = t
    OBVIOUS
  <2>1. u <= t /\ t <= u /\ u \in Nat
    BY <1>8, <1>9
  <2> QED
    BY <1>6, <2>1
<1>12. Percentile = t
  BY <1>8, <1>9, <1>10, <1>11
<1> QED
  BY <1>4, <1>5, <1>12 DEF t, n, k

\* No sample is above the maximum.
SampleInv == \A i \in 0..(Cap - 1) : sample_ring[i] <= max_ticks

LEMMA RecordSample ==
    ASSUME TypeOK, SampleInv, NEW ticks \in Ticks, record(ticks)
    PROVE  SampleInv'
<1>1. /\ Ticks \subseteq Nat /\ max_ticks \in Ticks
      /\ sample_ring \in [0..(Cap - 1) -> Ticks]
  BY StatsAssumption DEF TypeOK, Ticks
<1>2. /\ max_ticks' = IF ticks > max_ticks THEN ticks ELSE max_ticks
      /\ sample_ring' = [sample_ring EXCEPT ![sample_head % Cap] = ticks]
  BY DEF record, Write, Longest
<1>3. max_ticks' \in Nat /\ max_ticks' >= ticks /\ max_ticks' >= max_ticks
  BY <1>1, <1>2
<1> SUFFICES ASSUME NEW i \in 0..(Cap - 1)
             PROVE  sample_ring'[i] <= max_ticks'
  BY DEF SampleInv
<1>4. sample_ring'[i] = ticks \/ sample_ring'[i] = sample_ring[i]
  BY <1>1, <1>2
<1>5. sample_ring[i] \in Nat /\ sample_ring[i] <= max_ticks
  BY <1>1 DEF SampleInv
<1> QED
  BY <1>1, <1>3, <1>4, <1>5

\* Conversion to microseconds keeps the order, as long as nothing wraps.
LEMMA MicrosMonotone ==
    ASSUME NEW a \in Nat, NEW b \in Nat, a <= b, b * Micros < U64,
           ticks_per_ms \in Nat, ticks_per_ms > 0
    PROVE  InMicros(a) <= InMicros(b)
<1>1. Micros \in Nat /\ U64 \in Nat
  BY StatsAssumption
<1>2. a * Micros \in Nat /\ b * Micros \in Nat /\ a * Micros <= b * Micros
  BY <1>1, ProductMonotone
<1>3. a * Micros \in 0..(U64 - 1) /\ b * Micros \in 0..(U64 - 1)
  BY <1>1, <1>2
<1>4. Times(a, Micros) = a * Micros /\ Times(b, Micros) = b * Micros
  BY <1>3, TimesFits
<1>5. (a * Micros) \div (ticks_per_ms * 1) <= (b * Micros) \div ticks_per_ms
  <2>1. a <= b * 1
    OBVIOUS
  <2> QED
    BY <1>1, <2>1, MeanBound
<1>6. ticks_per_ms * 1 = ticks_per_ms
  OBVIOUS
<1> QED
  BY <1>4, <1>5, <1>6 DEF InMicros

LEMMA SummaryRank ==
    ASSUME TypeOK, WindowIsRecent, SumInv, SampleInv, ProductsFit,
           count > 0, ticks_per_ms > 0
    PROVE  /\ Summary.p99_us = InMicros(Percentile)
           /\ Summary.p99_us <= Summary.max_us
<1>1. PICK q \in 1..valid : /\ valid_slice[p99_idx(valid) + 1] = taken[q]
                            /\ Percentile = taken[q]
  BY PickedIsPercentile
<1>2. count # 0 /\ ticks_per_ms # 0
  BY DEF TypeOK
<1>3. /\ Summary.p99_us = InMicros(taken[q])
      /\ Summary.max_us = InMicros(max_ticks)
  BY <1>1, <1>2 DEF Summary
<1>4. /\ Cap \in Nat /\ Cap > 0 /\ Micros \in Nat /\ U64 \in Nat
      /\ count \in Nat /\ max_ticks \in Nat /\ total_ticks \in Nat
      /\ ticks_per_ms \in Nat
      /\ sample_ring \in [0..(Cap - 1) -> Nat]
  BY StatsAssumption DEF TypeOK, Ticks
<1>5. taken[q] \in Nat /\ taken[q] <= max_ticks
  <2>1. q - 1 \in 0..(Cap - 1)
    BY <1>4 DEF valid, AtMost
  <2>2. taken[q] = sample_ring[q - 1]
    BY DEF taken
  <2> QED
    BY <1>4, <2>1, <2>2 DEF SampleInv
<1>6. max_ticks * Micros < U64
  <2>1. /\ max_ticks * Micros \in Nat /\ total_ticks * Micros \in Nat
        /\ max_ticks * Micros <= total_ticks * Micros
    BY <1>4, ProductMonotone DEF SumInv
  <2> QED
    BY <1>4, <2>1 DEF ProductsFit
<1>7. InMicros(taken[q]) <= InMicros(max_ticks)
  BY <1>4, <1>5, <1>6, MicrosMonotone
<1> QED
  BY <1>1, <1>3, <1>7

RankInv == line # <<>> => step = "shutdown" /\ PercentileRank

\* The percentile on the refresh_stats line is that of the latest calls and
\* at most the maximum, for every percentile, size of the ring and number of
\* calls: the index computed before the sort picks the right place after it.
THEOREM PercentileAlwaysTrue == Spec => []PercentileRank
<1> DEFINE Inv == SumInv /\ SampleInv /\ RankInv
<1>1. Init => Inv
  BY StatsAssumption DEF Init, SumInv, SampleInv, RankInv
<1>2. ASSUME TypeOK, WindowIsRecent, Inv, [Next]_vars
      PROVE  Inv'
  <2>1. CASE UNCHANGED vars
    <3>1. SumInv' /\ SampleInv' /\ (RankInv' <=> RankInv)
      BY <1>2, <2>1
         DEF SumInv, SampleInv, RankInv, PercentileRank, ProductsFit, InMicros,
             Percentile, NotAbove, Latest, Rank, vars, stats
    <3> QED
      BY <1>2, <3>1
  <2>2. ASSUME NEW a \in Reading, NEW b \in Reading, Calibrate(a, b)
        PROVE  Inv'
    BY <1>2, <2>2 DEF Calibrate, SumInv, SampleInv, RankInv, stats
  <2>3. ASSUME NEW a \in Reading, NEW b \in Reading, Refresh(a, b)
        PROVE  Inv'
    <3>1. SumInv' /\ SampleInv'
      BY <1>2, <2>3, RefreshFacts, RecordSum, RecordSample
    <3> QED
      BY <1>2, <2>3, <3>1 DEF Refresh, RankInv
  <2>4. CASE Drain
    <3>1. /\ UNCHANGED <<ticks_per_ms, stats, log>>
          /\ step = "scene" /\ step' = "shutdown"
      BY <2>4 DEF Drain
    <3>2. /\ SumInv' /\ SampleInv' /\ (ProductsFit' <=> ProductsFit)
          /\ Percentile' = Percentile /\ count' = count
          /\ ticks_per_ms' = ticks_per_ms
          /\ InMicros(Percentile)' = InMicros(Percentile)
      BY <1>2, <3>1
         DEF SumInv, SampleInv, ProductsFit, InMicros, Percentile, NotAbove,
             Latest, Rank, stats
    <3>3. CASE line' = <<Summary>>
      <4>1. line'[1] = Summary
        BY <3>3
      <4> QED
        BY <1>2, <3>1, <3>2, <4>1, SummaryRank DEF RankInv, PercentileRank
    <3>4. CASE line' = line
      BY <1>2, <3>1, <3>2, <3>4 DEF RankInv
    <3> QED
      BY <2>4, <3>3, <3>4 DEF Drain
  <2> QED
    BY <1>2, <2>1, <2>2, <2>3, <2>4 DEF Next
<1>3. RankInv => PercentileRank
  BY DEF PercentileRank, RankInv
<1> QED
  BY <1>1, <1>2, <1>3, StatsTypeCorrect, RingKeepsLatest, PTL DEF Spec
=============================================================================
