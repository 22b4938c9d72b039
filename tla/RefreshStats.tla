----------------------------- MODULE RefreshStats -----------------------------
(***************************************************************************)
(* What a refresh of the digest costs: the RefreshStats that               *)
(* DigestRefresher::refresh fills on every call (src/scene.rs), the        *)
(* calibration of the time stamp counter at the head of Scene::run, and    *)
(* the refresh_stats line drain() computes from both just before shutdown  *)
(* (src/serial.rs).  Times are counter ticks; products keep the width of   *)
(* the program's integers.                                                 *)
(***************************************************************************)
EXTENDS Naturals, Sequences, FiniteSets

CONSTANTS Cap,         \* slots of sample_ring, 256
          RankNum,     \* 99 and
          RankDen,     \* 100: the percentile
          StallMs,     \* the calibration stall, 100
          Micros,      \* microseconds in a millisecond, 1000
          U64,         \* 2^64
          Reading,     \* values read_tsc returns
          MaxCalls     \* bound on the number of refreshes

ASSUME StatsAssumption ==
    /\ {Cap, RankNum, RankDen, StallMs, Micros, U64} \subseteq Nat \ {0}
    /\ RankNum <= RankDen
    /\ Reading \subseteq 0..(U64 - 1)

VARIABLES step,          \* where Scene::run is
          ticks_per_ms,  \* DigestRefresher::ticks_per_ms
          count, total_ticks, max_ticks, sample_ring, sample_head,
          line,          \* the refresh_stats line, once written
          log            \* history variable: every call's ticks

stats == <<count, total_ticks, max_ticks, sample_ring, sample_head>>
vars == <<step, ticks_per_ms, stats, line, log>>

Ticks == 0..(U64 - 1)

-----------------------------------------------------------------------------
(* Arithmetic of u64 *)

Monus(a, b) == IF a > b THEN a - b ELSE 0

SaturatingAdd(a, b) == IF a + b < U64 THEN a + b ELSE U64 - 1

Times(a, b) == (a * b) % U64

AtMost(a, b) == IF a < b THEN a ELSE b

-----------------------------------------------------------------------------
(* RefreshStats *)

\* A slip: the index moves before the write.
WriteAhead(ticks) ==
    /\ sample_head' = sample_head + 1
    /\ sample_ring' = [sample_ring EXCEPT ![sample_head' % Cap] = ticks]

Write(ticks) ==
    /\ sample_ring' = [sample_ring EXCEPT ![sample_head % Cap] = ticks]
    /\ sample_head' = sample_head + 1

\* A slip: the last call's ticks for the most a call took.
LastOf(ticks) == ticks

Longest(ticks) == IF ticks > max_ticks THEN ticks ELSE max_ticks

\* A slip: a sum that runs past its width.
SumUnchecked(ticks) == total_ticks + ticks

Sum(ticks) == SaturatingAdd(total_ticks, ticks)

record(ticks) ==
    /\ count' = count + 1
    /\ total_ticks' = Sum(ticks)
    /\ max_ticks' = Longest(ticks)
    /\ Write(ticks)

-----------------------------------------------------------------------------
(* The summary *)

valid == AtMost(count, Cap)

\* The copy of the slots in use.
taken == [i \in 1..valid |-> sample_ring[i - 1]]

\* The ways to put s in ascending order.
Orders(s) ==
    {p \in [DOMAIN s -> DOMAIN s] :
        \A i, j \in DOMAIN s : i < j => p[i] # p[j] /\ s[p[i]] <= s[p[j]]}

\* sort_unstable on that copy.
valid_slice ==
    LET order == CHOOSE p \in Orders(taken) : TRUE
    IN  [i \in 1..valid |-> taken[order[i]]]

\* A slip: the rank used as an index from zero.
RankAsIndex(n) == AtMost((n * RankNum) \div RankDen, n - 1)

p99_idx(n) == Monus((n * RankNum) \div RankDen, 1)

InMicros(ticks) == Times(ticks, Micros) \div ticks_per_ms

Summary ==
    IF count = 0 \/ ticks_per_ms = 0
    THEN [count |-> count, total_ms |-> 0, mean_us |-> 0, max_us |-> 0, p99_us |-> 0]
    ELSE [count    |-> count,
          total_ms |-> total_ticks \div ticks_per_ms,
          mean_us  |-> Times(total_ticks, Micros) \div Times(ticks_per_ms, count),
          max_us   |-> InMicros(max_ticks),
          p99_us   |-> InMicros(valid_slice[p99_idx(valid) + 1])]

-----------------------------------------------------------------------------
Init ==
    /\ step = "start" /\ ticks_per_ms = 0
    /\ count = 0 /\ total_ticks = 0 /\ max_ticks = 0
    /\ sample_ring = [i \in 0..(Cap - 1) |-> 0] /\ sample_head = 0
    /\ line = <<>> /\ log = <<>>

\* Nothing keeps the counter from jumping, back included, while the firmware
\* stalls: two readings are any two.
Calibrate(before, after) ==
    /\ step = "start" /\ step' = "scene"
    /\ ticks_per_ms' = Monus(after, before) \div StallMs
    /\ UNCHANGED <<stats, line, log>>

Refresh(start, end) ==
    /\ step = "scene" /\ count < MaxCalls
    /\ record(Monus(end, start))
    /\ log' = Append(log, Monus(end, start))
    /\ UNCHANGED <<step, ticks_per_ms, line>>

\* with_serial gives up without a word when there is no serial port.
Drain ==
    /\ step = "scene" /\ step' = "shutdown"
    /\ \/ line' = <<Summary>>
       \/ UNCHANGED line
    /\ UNCHANGED <<ticks_per_ms, stats, log>>

Next ==
    \/ \E a, b \in Reading : Calibrate(a, b) \/ Refresh(a, b)
    \/ Drain

Spec == Init /\ [][Next]_vars

-----------------------------------------------------------------------------
(* Properties *)

\* Every field keeps its width, whatever the counter does, and the two
\* counts of record() never part.
TypeOK ==
    /\ step \in {"start", "scene", "shutdown"}
    /\ ticks_per_ms \in Ticks /\ total_ticks \in Ticks /\ max_ticks \in Ticks
    /\ count \in Nat /\ sample_head = count /\ Len(log) = count
    /\ log \in Seq(Ticks)
    /\ sample_ring \in [0..(Cap - 1) -> Ticks]

\* Call i is still in the ring as long as fewer than Cap came after it, so
\* the slots drain() sorts hold the latest calls and nothing else.
WindowIsRecent ==
    \A i \in 1..Len(log) :
        Len(log) < i + Cap => sample_ring[(i - 1) % Cap] = log[i]

\* No 64-bit product of drain() wraps.
ProductsFit ==
    total_ticks * Micros < U64 /\ ticks_per_ms * count < U64

\* Wherever the products fit, no mean exceeds the maximum.
MeanBelowMax ==
    ProductsFit /\ line # <<>> => line[1].mean_us <= line[1].max_us

\* What the percentile promises, said without sorting: the least of the
\* latest calls that RankNum in RankDen of them (rounded down, but at least
\* one) do not exceed.
Latest == {i \in 1..Len(log) : Len(log) < i + Cap}
NotAbove(t) == Cardinality({i \in Latest : log[i] <= t})
Rank == LET r == (Cardinality(Latest) * RankNum) \div RankDen
        IN  IF r = 0 THEN 1 ELSE r
Percentile ==
    LET enough == {log[i] : i \in {j \in Latest : NotAbove(log[j]) >= Rank}}
    IN  CHOOSE t \in enough : \A u \in enough : t <= u

\* The percentile on the line is that one, for one sample, for a ring that
\* is not full and for one that has wrapped, and no more than the maximum.
PercentileRank ==
    ProductsFit /\ line # <<>> /\ count > 0 /\ ticks_per_ms > 0 =>
        /\ line[1].p99_us = InMicros(Percentile)
        /\ line[1].p99_us <= line[1].max_us
=============================================================================
