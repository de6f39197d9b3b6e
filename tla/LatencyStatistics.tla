-------------------------- MODULE LatencyStatistics -------------------------
(***************************************************************************)
(* The latencies of a session that loses no sample, counted twice: by the  *)
(* device, one at a time, in a histogram of saturating counters            *)
(* (telemetry/histogram.c), and by the tooling, from the series of clock   *)
(* readings (analysis/stats.py and analysis/histogram.py).  An absent      *)
(* value is the model value None.                                          *)
(***************************************************************************)
EXTENDS TelemetryRecords, SequencesExt

CONSTANTS
  TickMod,     \* 2^width, the modulus of the clock's readings
  Layouts,     \* sequences of edges a profile may declare
  MaxBins,     \* BENCH_HISTOGRAM_MAX_BINS
  Durations,   \* ticks a transaction may take
  MaxSamples,  \* bound: transactions
  None         \* no value

ASSUME LatencyAssumption ==
  /\ TickMod \in Nat \ {0}
  /\ MaxBins \in Nat \ {0}
  /\ Layouts \subseteq Seq(Nat)
  /\ Durations \subseteq 0 .. TickMod - 1
  /\ MaxSamples \in Nat

VARIABLES
  time,       \* ticks since power-up; a clock reads it modulo TickMod
  device,     \* bench_histogram_t
  series,     \* the clock readings of the samples, in order
  durations   \* history: how long each transaction really took

vars == <<time, device, series, durations>>

-----------------------------------------------------------------------------
(* Durations: bench_elapsed, and elapsed_wrap_safe which mirrors it.       *)

ElapsedUnsigned(start, end) ==     \* mutant
  IF end >= start THEN end - start ELSE 0

Elapsed(start, end) == (end - start) % TickMod

\* valid_latencies: the transactions that ended well, and no timeout.
Latencies ==
  FoldLeft(LAMBDA valid, s : IF s.status = "ok"
                               THEN Append(valid, Elapsed(s.start, s.end))
                               ELSE valid,
           <<>>, series)

-----------------------------------------------------------------------------
(* Histogram classes: the lower edge is in, the upper one is not.          *)

StrictlyIncreasing(edges) ==
  \A i \in 1 .. Len(edges) - 1 : edges[i] < edges[i + 1]

\* bench_histogram_init accepts the layout.
Usable(edges) ==
  /\ Len(edges) - 1 \in 1 .. MaxBins
  /\ StrictlyIncreasing(edges)

InBin(edges, i, v) == edges[i] <= v /\ v < edges[i + 1]

\* Mutant: the order of the edges is not checked.
HistogramInitUnordered(edges) ==
  IF Len(edges) - 1 \in 1 .. MaxBins
    THEN [edges |-> edges, bins |-> [i \in 1 .. Len(edges) - 1 |-> 0],
          underflow |-> 0, overflow |-> 0, count |-> 0, saturated |-> FALSE]
    ELSE None

HistogramInit(edges) ==
  IF Usable(edges)
    THEN [edges |-> edges, bins |-> [i \in 1 .. Len(edges) - 1 |-> 0],
          underflow |-> 0, overflow |-> 0, count |-> 0, saturated |-> FALSE]
    ELSE None

Saturates(c) == c = U32Max

\* Where the device puts a value: the counter it increments besides the total.
AddTo(h, field) ==
  [h EXCEPT ![field] = SatInc(@),
            !.count = SatInc(@),
            !.saturated = @ \/ Saturates(h.count) \/ Saturates(h[field])]

AddToBin(h, i) ==
  [h EXCEPT !.bins[i] = SatInc(@),
            !.count = SatInc(@),
            !.saturated = @ \/ Saturates(h.count) \/ Saturates(h.bins[i])]

BinOf(edges, v) ==
  CHOOSE i \in 1 .. Len(edges) - 1 : InBin(edges, i, v)

\* bench_histogram_add; a histogram that was refused counts nothing.
HistogramAdd(h, v) ==
  IF h = None                       THEN h
  ELSE IF v < h.edges[1]            THEN AddTo(h, "underflow")
  ELSE IF v >= h.edges[Len(h.edges)] THEN AddTo(h, "overflow")
  ELSE AddToBin(h, BinOf(h.edges, v))

\* histogram.derive: the tooling's histogram of a population.
Derive(values, edges) ==
  LET number(Test(_)) == Cardinality({k \in DOMAIN values : Test(values[k])})
      last == edges[Len(edges)]
  IN  [bins |-> [i \in 1 .. Len(edges) - 1 |->
                   number(LAMBDA v : InBin(edges, i, v))],
       underflow |-> number(LAMBDA v : v < edges[1]),
       overflow |-> number(LAMBDA v : v >= last),
       count |-> Len(values)]

\* histogram.compare: nothing to compare, or the fields that differ.
Compared(h) == h # None /\ ~h.saturated

Matches(h, tooling) ==
  /\ h.bins = tooling.bins
  /\ h.underflow = tooling.underflow
  /\ h.overflow = tooling.overflow
  /\ h.count = tooling.count

-----------------------------------------------------------------------------
(* stats.latency_stats: what it says is authoritative.                     *)

Below(values, v) == Cardinality({k \in DOMAIN values : values[k] < v})

AtMost(values, v) == Cardinality({k \in DOMAIN values : values[k] <= v})

\* sorted(values): fewer than r values are below the one at place r, and no
\* fewer than r are at most that one.
Ordered(values) ==
  [r \in DOMAIN values |->
     CHOOSE v \in ToSet(values) : Below(values, v) < r /\ r <= AtMost(values, v)]

RankDown(num, den, n) == IF (num * n) \div den < 1 THEN 1 ELSE (num * n) \div den

\* ceil(num * n / den), written with a floor division of a negative number.
Rank(num, den, n) ==
  LET rank == -((-(num * n)) \div den)
  IN  IF rank < 1 THEN 1 ELSE IF rank > n THEN n ELSE rank

Quantile(ordered, num, den) ==
  IF ordered = <<>> THEN None ELSE ordered[Rank(num, den, Len(ordered))]

Quantiles == {"min", "max", "p50", "p95", "p99"}

LatencyStats(values) ==
  LET ordered == Ordered(values)
  IN  IF values = <<>> THEN [f \in Quantiles |-> None]
      ELSE [min |-> ordered[1], max |-> ordered[Len(ordered)],
            p50 |-> Quantile(ordered, 50, 100),
            p95 |-> Quantile(ordered, 95, 100),
            p99 |-> Quantile(ordered, 99, 100)]

-----------------------------------------------------------------------------
Init ==
  /\ time = 0
  /\ \E edges \in Layouts : device = HistogramInit(edges)
  /\ series = <<>>
  /\ durations = <<>>

\* Mutant: timeouts are in the histogram too.
FeedsAny(status) == TRUE

\* record_sample feeds the histogram with valid latencies only.
Feeds(status) == status = "ok"

Measure(d, status) ==
  /\ Len(series) < MaxSamples
  /\ LET start == time % TickMod
         end   == (time + d) % TickMod
     IN  /\ device' = IF Feeds(status)
                        THEN HistogramAdd(device, Elapsed(start, end))
                        ELSE device
         /\ series' = Append(series,
                             [start |-> start, end |-> end, status |-> status])
  /\ durations' = Append(durations, d)
  /\ time' = time + d

Next == \E d \in Durations, status \in {"ok", "timeout"} : Measure(d, status)

Spec == Init /\ [][Next]_vars

-----------------------------------------------------------------------------
Readings == [start : 0 .. TickMod - 1, end : 0 .. TickMod - 1,
             status : {"ok", "timeout"}]

Counters == 0 .. U32Max

\* The variables have the types of the code; a refused histogram is None.
TypeOK ==
  /\ time \in Nat
  /\ series \in Seq(Readings)
  /\ durations \in Seq(Durations)
  /\ device # None =>
       /\ Usable(device.edges)
       /\ device.bins \in [1 .. Len(device.edges) - 1 -> Counters]
       /\ {device.underflow, device.overflow, device.count} \subseteq Counters
       /\ device.saturated \in BOOLEAN

\* stats.py:42-47: the duration read from a series is the real one, as long as
\* a transaction is shorter than the clock's period, wherever the clock wraps.
DurationsAreReal ==
  /\ Len(durations) = Len(series)
  /\ \A k \in DOMAIN series :
       Elapsed(series[k].start, series[k].end) = durations[k]

Total(counts) == FoldLeft(+, 0, counts)

\* histogram.py:6-9 and histogram.h: a histogram that does not say it is
\* saturated is exactly the one derived from the series, and its classes,
\* underflow and overflow add up to its total.
UnsaturatedHistogramMatches ==
  Compared(device) =>
    /\ Matches(device, Derive(Latencies, device.edges))
    /\ device.count
         = device.underflow + device.overflow + Total(device.bins)

\* stats.py:6-18: each published quantile is a latency of the population, the
\* least one that at least p per cent of the population do not exceed; none is
\* invented for an empty population, and they are in order between the extremes.
QuantilesAreNearestRank ==
  LET values == Latencies
      stats  == LatencyStats(values)
      nearest(q, p) ==
        /\ q \in ToSet(values)
        /\ 100 * AtMost(values, q) >= p * Len(values)
        /\ \A v \in ToSet(values) :
             v < q => 100 * AtMost(values, v) < p * Len(values)
  IN  IF values = <<>> THEN stats.p50 = None
      ELSE /\ nearest(stats.p50, 50)
           /\ nearest(stats.p95, 95)
           /\ nearest(stats.p99, 99)
           /\ stats.min <= stats.p50 /\ stats.p99 <= stats.max

=============================================================================
