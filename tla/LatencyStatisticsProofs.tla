----------------------- MODULE LatencyStatisticsProofs ----------------------
(***************************************************************************)
(* What LatencyStatistics computes, for every clock width, every length of *)
(* series and every percentile.                                            *)
(***************************************************************************)
EXTENDS LatencyStatistics, SharedLemmas, TLAPS

\* Euclidean division, as the provers need it.
LEMMA DivisionBounds ==
  ASSUME NEW a \in Int, NEW b \in Nat \ {0}
  PROVE  /\ a \div b \in Int
         /\ b * (a \div b) <= a
         /\ a < b * ((a \div b) + 1)
  OBVIOUS

\* stats.py:54-67: the rank of a quantile num/den is one of the ranks of the
\* population, and the least one that covers at least num/den of it: neither
\* the clamp at 1 nor the clamp at n ever changes it.
THEOREM RankIsNearest ==
  ASSUME NEW num \in Nat \ {0}, NEW den \in Nat \ {0}, num <= den,
         NEW n \in Nat \ {0}
  PROVE  /\ Rank(num, den, n) \in 1 .. n
         /\ num * n <= den * Rank(num, den, n)
         /\ den * (Rank(num, den, n) - 1) < num * n
PROOF
  <1> DEFINE q == (-(num * n)) \div den
  <1>1. num * n \in Nat \ {0} /\ num * n <= den * n
    OBVIOUS
  <1>2. /\ q \in Int
        /\ den * q <= -(num * n)
        /\ -(num * n) < den * (q + 1)
    BY <1>1, DivisionBounds
  <1> HIDE DEF q
  <1>3. -q >= 1
    BY <1>1, <1>2
  <1>4. -q <= n
    <2>1. den * (-q - 1) < den * n
      BY <1>1, <1>2
    <2> QED BY <2>1, <1>2
  <1>5. Rank(num, den, n) = -q
    BY <1>2, <1>3, <1>4 DEF Rank, q
  <1> QED BY <1>2, <1>3, <1>4, <1>5

\* stats.py:42-51: a duration below the clock's period is read exactly from the
\* two readings of the clock, wherever the clock wraps in between.
LEMMA ElapsedIsReal ==
  ASSUME NEW s \in Nat, NEW d \in 0 .. TickMod - 1
  PROVE  Elapsed(s % TickMod, (s + d) % TickMod) = d
  BY LatencyAssumption, DifferenceOfRemainders DEF Elapsed

-----------------------------------------------------------------------------
(* The specification.  Readings are typed and as many as the durations they *)
(* are about; that is all the inductive invariant adds to the property.     *)

LEMMA SatIncType ==
  ASSUME NEW c \in Counters
  PROVE  SatInc(c) \in Counters
  BY U32MaxAssumption DEF Counters, SatInc

HistogramOf(h) ==
  /\ Usable(h.edges) /\ h.edges \in Seq(Nat)
  /\ h = [edges |-> h.edges, bins |-> h.bins,
          underflow |-> h.underflow, overflow |-> h.overflow,
          count |-> h.count, saturated |-> h.saturated]
  /\ h.bins \in [1 .. Len(h.edges) - 1 -> Counters]
  /\ h.underflow \in Counters
  /\ h.overflow \in Counters
  /\ h.count \in Counters
  /\ h.saturated \in BOOLEAN

HistogramType == device # None => HistogramOf(device)

SeriesInv ==
  /\ time \in Nat
  /\ series \in Seq(Readings)
  /\ durations \in Seq(Durations)
  /\ DurationsAreReal

LEMMA SeriesInvInit == Init => SeriesInv
  BY DEF Init, SeriesInv, DurationsAreReal

LEMMA SeriesInvNext == SeriesInv /\ [Next]_vars => SeriesInv'
PROOF
  <1> SUFFICES ASSUME SeriesInv, [Next]_vars
               PROVE  SeriesInv'
    OBVIOUS
  <1>1. CASE UNCHANGED vars
    BY <1>1 DEF vars, SeriesInv, DurationsAreReal
  <1>2. ASSUME NEW d \in Durations, NEW status \in {"ok", "timeout"},
               Measure(d, status)
        PROVE  SeriesInv'
    <2> DEFINE sample == [start |-> time % TickMod,
                          end |-> (time + d) % TickMod, status |-> status]
    <2>1. time \in Nat /\ d \in 0 .. TickMod - 1 /\ TickMod \in Nat \ {0}
      BY LatencyAssumption DEF SeriesInv
    <2>2. time + d \in Nat
      BY <2>1
    <2>3. sample \in Readings
      <3>1. time % TickMod \in 0 .. TickMod - 1
        BY <2>1, RemainderOf
      <3>2. (time + d) % TickMod \in 0 .. TickMod - 1
        BY <2>1, <2>2, RemainderOf
      <3> QED BY <3>1, <3>2 DEF Readings
    <2>4. Elapsed(sample.start, sample.end) = d
      BY <2>1, ElapsedIsReal
    <2>5. /\ series' = Append(series, sample)
          /\ durations' = Append(durations, d)
          /\ time' = time + d
      BY <1>2 DEF Measure
    <2> HIDE DEF sample
    <2>6. DurationsAreReal'
      BY <2>3, <2>4, <2>5 DEF SeriesInv, DurationsAreReal
    <2> QED BY <2>2, <2>3, <2>5, <2>6 DEF SeriesInv
  <1> QED BY <1>1, <1>2 DEF Next

\* stats.py:42-47: whatever the width of the clock, the durations allowed and
\* the length of the session, each duration read from the series is real.
THEOREM DurationsSafe == Spec => []DurationsAreReal
PROOF
  <1>1. SeriesInv => DurationsAreReal
    BY DEF SeriesInv
  <1> QED BY <1>1, SeriesInvInit, SeriesInvNext, PTL DEF Spec

-----------------------------------------------------------------------------
LEMMA HistogramTypeInit == Init => HistogramType
PROOF
  <1> SUFFICES ASSUME Init, device # None
               PROVE  HistogramType
    BY DEF HistogramType
  <1>1. PICK edges \in Layouts : device = HistogramInit(edges)
    BY DEF Init
  <1>2. Usable(edges) /\ edges \in Seq(Nat)
    BY <1>1, LatencyAssumption DEF HistogramInit
  <1>3. 0 \in Counters
    BY U32MaxAssumption DEF Counters
  <1> QED BY <1>1, <1>2, <1>3 DEF HistogramInit, HistogramType, HistogramOf

LEMMA AddToType ==
  ASSUME HistogramType, device # None, NEW field \in {"underflow", "overflow"},
         device' = AddTo(device, field)
  PROVE  HistogramType'
  BY SatIncType DEF HistogramType, HistogramOf, AddTo, Saturates

LEMMA AddToBinType ==
  ASSUME HistogramType, device # None, NEW i, device' = AddToBin(device, i)
  PROVE  HistogramType'
  BY SatIncType DEF HistogramType, HistogramOf, AddToBin, Saturates

LEMMA HistogramTypeNext == HistogramType /\ [Next]_vars => HistogramType'
PROOF
  <1> SUFFICES ASSUME HistogramType, [Next]_vars
               PROVE  HistogramType'
    OBVIOUS
  <1>1. CASE device' = device
    BY <1>1 DEF HistogramType, HistogramOf
  <1>2. CASE UNCHANGED vars
    BY <1>2, <1>1 DEF vars
  <1>3. ASSUME NEW v, device # None, device' = HistogramAdd(device, v)
        PROVE  HistogramType'
    BY <1>3, AddToType, AddToBinType DEF HistogramAdd
  <1>4. ASSUME NEW d \in Durations, NEW status \in {"ok", "timeout"},
               Measure(d, status)
        PROVE  HistogramType'
    <2>1. \/ device' = device
          \/ device # None /\ \E v : device' = HistogramAdd(device, v)
      BY <1>4 DEF Measure, HistogramAdd
    <2> QED BY <2>1, <1>1, <1>3
  <1> QED BY <1>2, <1>4 DEF Next

\* The state of the device, of the series and of the clock keep their types; a
\* histogram in use has a usable layout.
THEOREM LatencyTyped == Spec => []TypeOK
PROOF
  <1>1. SeriesInv /\ HistogramType => TypeOK
    BY DEF SeriesInv, HistogramType, HistogramOf, TypeOK
  <1> QED BY <1>1, SeriesInvInit, SeriesInvNext, HistogramTypeInit,
             HistogramTypeNext, PTL DEF Spec
-----------------------------------------------------------------------------
(* The population: what the folds over the series and over the classes     *)
(* compute, one element at a time.                                         *)

Latency == 0 .. TickMod - 1

WithReading(valid, s) ==
  IF s.status = "ok" THEN Append(valid, Elapsed(s.start, s.end)) ELSE valid

LatenciesOf(s) ==
  FoldLeft(LAMBDA valid, x : IF x.status = "ok"
                               THEN Append(valid, Elapsed(x.start, x.end))
                               ELSE valid,
           <<>>, s)

LEMMA ReadingType ==
  ASSUME NEW valid \in Seq(Latency), NEW s \in Readings
  PROVE  WithReading(valid, s) \in Seq(Latency)
PROOF
  <1>1. s.start \in Int /\ s.end \in Int /\ s.end - s.start \in Int
    BY LatencyAssumption DEF Readings
  <1>2. Elapsed(s.start, s.end) \in Latency
    BY <1>1, LatencyAssumption, RemainderOf DEF Elapsed, Latency
  <1> QED BY <1>2 DEF WithReading

\* The latencies of a series, reading by reading.
Selecting(s, got) ==
  /\ got \in [0 .. Len(s) -> Seq(Latency)]
  /\ got[0] = <<>>
  /\ \A k \in 1 .. Len(s) : got[k] = WithReading(got[k - 1], s[k])

LEMMA SelectionSteps ==
  ASSUME NEW s \in Seq(Readings)
  PROVE  \E got : Selecting(s, got) /\ LatenciesOf(s) = got[Len(s)]
PROOF
  <1> DEFINE n == Len(s)
             A == Seq(Latency)
             F == [p \in A \X (1 .. n) |-> WithReading(p[1], s[p[2]])]
             P(g) == g = [t \in SUBSET (1 .. n) |->
                            IF t = {} THEN <<>>
                            ELSE WithReading(g[t \ {Max(t)}], s[Max(t)])]
             iter == CHOOSE g : P(g)
  <1>1. /\ n \in Nat /\ DOMAIN s = 1 .. n /\ <<>> \in A
        /\ \A k \in 1 .. n : s[k] \in Readings
    OBVIOUS
  <1>2. LatenciesOf(s) = iter[1 .. n]
    BY <1>1 DEF LatenciesOf, FoldLeft, MapThenFoldSet, WithReading
  <1>3. F \in [A \X (1 .. n) -> A]
    BY <1>1, ReadingType
  <1>4. PICK g \in Foldings(n, A) : Folding(g, n, <<>>, F)
    <2> HIDE DEF F, n, A
    <2> QED BY <1>1, <1>3, FoldExists
  <1>5. ASSUME NEW t \in SUBSET (1 .. n), t # {}
        PROVE  /\ Max(t) \in t /\ t \ {Max(t)} \in SUBSET (1 .. n)
               /\ g[t \ {Max(t)}] \in A
    BY <1>1, <1>4, <1>5, MaxExists DEF Foldings
  <1>6. ASSUME NEW t \in SUBSET (1 .. n)
        PROVE  g[t] = IF t = {} THEN <<>>
                      ELSE WithReading(g[t \ {Max(t)}], s[Max(t)])
    <2>1. g[t] = IF t = {} THEN <<>> ELSE F[<<g[t \ {Max(t)}], Max(t)>>]
      BY <1>4 DEF Folding
    <2>2. ASSUME t # {}
          PROVE  F[<<g[t \ {Max(t)}], Max(t)>>]
                   = WithReading(g[t \ {Max(t)}], s[Max(t)])
      <3>1. <<g[t \ {Max(t)}], Max(t)>> \in A \X (1 .. n)
        BY <1>5, <2>2
      <3> QED BY <3>1
    <2> QED BY <2>1, <2>2
  <1>7. P(g)
    BY <1>4, <1>6 DEF Foldings
  <1>8. P(iter)
    BY <1>7, Zenon
  <1> DEFINE got == [k \in 0 .. n |-> iter[1 .. k]]
  <1>9. got[0] = <<>>
    <2>1. 1 .. 0 = {} /\ {} \in SUBSET (1 .. n)
      OBVIOUS
    <2>2. iter[{}] = <<>>
      BY <1>8, <2>1
    <2> HIDE DEF iter
    <2> QED BY <1>1, <2>1, <2>2
  <1>10. ASSUME NEW k \in 1 .. n PROVE got[k] = WithReading(got[k - 1], s[k])
    <2>1. /\ Max(1 .. k) = k /\ (1 .. k) \ {k} = 1 .. k - 1
          /\ 1 .. k \in SUBSET (1 .. n) /\ 1 .. k # {}
      BY <1>1, FirstPositions
    <2>2. iter[1 .. k] = WithReading(iter[1 .. k - 1], s[k])
      BY <1>8, <2>1
    <2>3. k \in 0 .. n /\ k - 1 \in 0 .. n
      BY <1>1
    <2> HIDE DEF iter
    <2>4. got[k] = iter[1 .. k] /\ got[k - 1] = iter[1 .. k - 1]
      BY <2>3
    <2> QED BY <2>2, <2>4
  <1>11. LatenciesOf(s) = got[n]
    BY <1>1, <1>2
  <1>12. DOMAIN got = 0 .. n /\ got = [k \in 0 .. n |-> got[k]]
    OBVIOUS
  <1> DEFINE S == {k \in Nat : k <= n => got[k] \in A}
  <1> HIDE DEF got, A
  <1>13. 0 \in S
    BY <1>1, <1>9
  <1>14. ASSUME NEW k \in Nat, k \in S PROVE k + 1 \in S
    <2> SUFFICES ASSUME k + 1 <= n PROVE got[k + 1] \in A
      OBVIOUS
    <2>1. k + 1 \in 1 .. n /\ (k + 1) - 1 = k /\ got[k] \in A
      BY <1>14
    <2>2. got[k + 1] = WithReading(got[k], s[k + 1]) /\ s[k + 1] \in Readings
      BY <1>1, <1>10, <2>1
    <2> QED BY <2>1, <2>2, ReadingType DEF A
  <1> HIDE DEF S
  <1>15. Nat \subseteq S
    BY <1>13, <1>14, Induction
  <1>16. \A k \in 0 .. n : got[k] \in A
    BY <1>15 DEF S
  <1> QED BY <1>9, <1>10, <1>11, <1>12, <1>16 DEF Selecting, A

\* A reading more: its latency is the last one, if the transaction ended well.
LEMMA ReadingAppended ==
  ASSUME NEW s \in Seq(Readings), NEW x \in Readings
  PROVE  /\ LatenciesOf(s) \in Seq(Latency)
         /\ LatenciesOf(Append(s, x)) = WithReading(LatenciesOf(s), x)
PROOF
  <1> DEFINE n == Len(s)
             r == Append(s, x)
  <1>1. /\ n \in Nat /\ r \in Seq(Readings) /\ Len(r) = n + 1 /\ r[n + 1] = x
        /\ \A k \in 1 .. n : r[k] = s[k]
    OBVIOUS
  <1> HIDE DEF r
  <1>2. PICK g : Selecting(s, g) /\ LatenciesOf(s) = g[n]
    BY SelectionSteps
  <1>3. PICK h : Selecting(r, h) /\ LatenciesOf(r) = h[n + 1]
    BY <1>1, SelectionSteps
  <1> DEFINE S == {k \in Nat : k <= n => g[k] = h[k]}
  <1>4. 0 \in S
    BY <1>2, <1>3 DEF Selecting
  <1>5. ASSUME NEW k \in Nat, k \in S PROVE k + 1 \in S
    <2> SUFFICES ASSUME k + 1 <= n PROVE g[k + 1] = h[k + 1]
      OBVIOUS
    <2>1. k + 1 \in 1 .. n /\ k + 1 \in 1 .. n + 1 /\ (k + 1) - 1 = k /\ g[k] = h[k]
      BY <1>1, <1>5
    <2>2. /\ g[k + 1] = WithReading(g[k], s[k + 1])
          /\ h[k + 1] = WithReading(h[k], r[k + 1])
      BY <1>1, <1>2, <1>3, <2>1 DEF Selecting
    <2> QED BY <1>1, <2>1, <2>2
  <1> HIDE DEF S
  <1>6. n \in S
    BY <1>1, <1>4, <1>5, Induction
  <1>7. g[n] = h[n]
    BY <1>1, <1>6 DEF S
  <1>8. h[n + 1] = WithReading(h[n], x)
    <2>1. n + 1 \in 1 .. n + 1 /\ (n + 1) - 1 = n
      BY <1>1
    <2>2. h[n + 1] = WithReading(h[n], r[n + 1])
      BY <1>1, <1>3, <2>1 DEF Selecting
    <2> QED BY <1>1, <2>2
  <1>9. g[n] \in Seq(Latency)
    BY <1>1, <1>2 DEF Selecting
  <1> QED BY <1>2, <1>3, <1>7, <1>8, <1>9 DEF r

\* The sum of the counts of the classes, class by class.
Adding(n, c, sum) ==
  /\ sum \in [0 .. n -> Nat]
  /\ sum[0] = 0
  /\ \A k \in 1 .. n : sum[k] = sum[k - 1] + c[k]

LEMMA TotalSteps ==
  ASSUME NEW n \in Nat, NEW c \in [1 .. n -> Nat]
  PROVE  \E sum : Adding(n, c, sum) /\ Total(c) = sum[n]
PROOF
  <1> DEFINE F == [p \in Nat \X (1 .. n) |-> p[1] + c[p[2]]]
             P(g) == g = [t \in SUBSET (1 .. n) |->
                            IF t = {} THEN 0 ELSE g[t \ {Max(t)}] + c[Max(t)]]
             iter == CHOOSE g : P(g)
  <1>1. DOMAIN c = 1 .. n /\ \A k \in 1 .. n : c[k] \in Nat
    OBVIOUS
  <1>2. Total(c) = iter[1 .. n]
    BY <1>1 DEF Total, FoldLeft, MapThenFoldSet
  <1>3. F \in [Nat \X (1 .. n) -> Nat]
    BY <1>1
  <1>4. PICK g \in Foldings(n, Nat) : Folding(g, n, 0, F)
    <2> HIDE DEF F
    <2> QED BY <1>1, <1>3, FoldExists
  <1>5. ASSUME NEW t \in SUBSET (1 .. n), t # {}
        PROVE  /\ Max(t) \in t /\ t \ {Max(t)} \in SUBSET (1 .. n)
               /\ g[t \ {Max(t)}] \in Nat
    BY <1>4, <1>5, MaxExists DEF Foldings
  <1>6. ASSUME NEW t \in SUBSET (1 .. n)
        PROVE  g[t] = IF t = {} THEN 0 ELSE g[t \ {Max(t)}] + c[Max(t)]
    <2>1. g[t] = IF t = {} THEN 0 ELSE F[<<g[t \ {Max(t)}], Max(t)>>]
      BY <1>4 DEF Folding
    <2>2. ASSUME t # {}
          PROVE  F[<<g[t \ {Max(t)}], Max(t)>>] = g[t \ {Max(t)}] + c[Max(t)]
      <3>1. <<g[t \ {Max(t)}], Max(t)>> \in Nat \X (1 .. n)
        BY <1>5, <2>2
      <3> QED BY <3>1
    <2> QED BY <2>1, <2>2
  <1>7. P(g)
    BY <1>4, <1>6 DEF Foldings
  <1>8. P(iter)
    BY <1>7, Zenon
  <1> DEFINE sum == [k \in 0 .. n |-> iter[1 .. k]]
  <1>9. sum[0] = 0
    <2>1. 1 .. 0 = {} /\ {} \in SUBSET (1 .. n)
      OBVIOUS
    <2>2. iter[{}] = 0
      BY <1>8, <2>1
    <2> HIDE DEF iter
    <2> QED BY <2>1, <2>2
  <1>10. ASSUME NEW k \in 1 .. n PROVE sum[k] = sum[k - 1] + c[k]
    <2>1. /\ Max(1 .. k) = k /\ (1 .. k) \ {k} = 1 .. k - 1
          /\ 1 .. k \in SUBSET (1 .. n) /\ 1 .. k # {}
      BY FirstPositions
    <2>2. iter[1 .. k] = iter[1 .. k - 1] + c[k]
      BY <1>8, <2>1
    <2>3. k \in 0 .. n /\ k - 1 \in 0 .. n
      OBVIOUS
    <2> HIDE DEF iter
    <2>4. sum[k] = iter[1 .. k] /\ sum[k - 1] = iter[1 .. k - 1]
      BY <2>3
    <2> QED BY <2>2, <2>4
  <1>11. Total(c) = sum[n]
    BY <1>2
  <1>12. DOMAIN sum = 0 .. n /\ sum = [k \in 0 .. n |-> sum[k]]
    OBVIOUS
  <1> DEFINE S == {k \in Nat : k <= n => sum[k] \in Nat}
  <1> HIDE DEF sum
  <1>13. 0 \in S
    BY <1>9
  <1>14. ASSUME NEW k \in Nat, k \in S PROVE k + 1 \in S
    <2> SUFFICES ASSUME k + 1 <= n PROVE sum[k + 1] \in Nat
      OBVIOUS
    <2>1. k + 1 \in 1 .. n /\ (k + 1) - 1 = k /\ sum[k] \in Nat
      BY <1>14
    <2>2. sum[k + 1] = sum[k] + c[k + 1] /\ c[k + 1] \in Nat
      BY <1>1, <1>10, <2>1
    <2> QED BY <2>1, <2>2
  <1> HIDE DEF S
  <1>15. Nat \subseteq S
    BY <1>13, <1>14, Induction
  <1>16. \A k \in 0 .. n : sum[k] \in Nat
    BY <1>15 DEF S
  <1> QED BY <1>9, <1>10, <1>11, <1>12, <1>16 DEF Adding

\* Empty classes add up to nothing.
LEMMA TotalOfNothing ==
  ASSUME NEW n \in Nat
  PROVE  Total([i \in 1 .. n |-> 0]) = 0
PROOF
  <1> DEFINE c == [i \in 1 .. n |-> 0]
  <1>1. c \in [1 .. n -> Nat] /\ \A k \in 1 .. n : c[k] = 0
    OBVIOUS
  <1> HIDE DEF c
  <1>2. PICK sum : Adding(n, c, sum) /\ Total(c) = sum[n]
    BY <1>1, TotalSteps
  <1> DEFINE S == {k \in Nat : k <= n => sum[k] = 0}
  <1>3. 0 \in S
    BY <1>2 DEF Adding
  <1>4. ASSUME NEW k \in Nat, k \in S PROVE k + 1 \in S
    <2> SUFFICES ASSUME k + 1 <= n PROVE sum[k + 1] = 0
      OBVIOUS
    <2>1. k + 1 \in 1 .. n /\ (k + 1) - 1 = k /\ sum[k] = 0
      BY <1>4
    <2> QED BY <1>1, <1>2, <2>1 DEF Adding
  <1> HIDE DEF S
  <1>5. n \in S
    BY <1>3, <1>4, Induction
  <1>6. sum[n] = 0
    BY <1>5 DEF S
  <1> QED BY <1>2, <1>6 DEF c

\* One more in one class is one more in all.
LEMMA TotalOneMore ==
  ASSUME NEW n \in Nat, NEW c \in [1 .. n -> Nat], NEW i \in 1 .. n
  PROVE  Total([c EXCEPT ![i] = @ + 1]) = Total(c) + 1
PROOF
  <1> DEFINE d == [c EXCEPT ![i] = @ + 1]
  <1>1. /\ d \in [1 .. n -> Nat] /\ d[i] = c[i] + 1
        /\ \A k \in 1 .. n : c[k] \in Nat /\ (k # i => d[k] = c[k])
    OBVIOUS
  <1> HIDE DEF d
  <1>2. PICK s : Adding(n, c, s) /\ Total(c) = s[n]
    BY TotalSteps
  <1>3. PICK r : Adding(n, d, r) /\ Total(d) = r[n]
    BY <1>1, TotalSteps
  <1> DEFINE S == {k \in Nat : k <= n => r[k] = IF k < i THEN s[k] ELSE s[k] + 1}
  <1>4. 0 \in S
    BY <1>2, <1>3 DEF Adding
  <1>5. ASSUME NEW k \in Nat, k \in S PROVE k + 1 \in S
    <2> SUFFICES ASSUME k + 1 <= n
                 PROVE  r[k + 1] = IF k + 1 < i THEN s[k + 1] ELSE s[k + 1] + 1
      OBVIOUS
    <2>1. /\ k + 1 \in 1 .. n /\ (k + 1) - 1 = k /\ k \in 0 .. n
          /\ r[k] = IF k < i THEN s[k] ELSE s[k] + 1
      BY <1>5
    <2>2. /\ s[k + 1] = s[k] + c[k + 1] /\ r[k + 1] = r[k] + d[k + 1]
          /\ s[k] \in Nat
      BY <1>2, <1>3, <2>1 DEF Adding
    <2>3. CASE k + 1 = i
      <3>1. d[i] = c[i] + 1 /\ c[i] \in Nat
        BY <1>1
      <3> QED BY <2>1, <2>2, <2>3, <3>1
    <2>4. CASE k + 1 # i
      <3>1. d[k + 1] = c[k + 1] /\ c[k + 1] \in Nat
        BY <1>1, <2>1, <2>4
      <3> QED BY <2>1, <2>2, <2>4, <3>1
    <2> QED BY <2>3, <2>4
  <1> HIDE DEF S
  <1>6. n \in S
    BY <1>4, <1>5, Induction
  <1>7. r[n] = s[n] + 1
    BY <1>6 DEF S
  <1> QED BY <1>2, <1>3, <1>7 DEF d

-----------------------------------------------------------------------------
(* The classes of a layout: each value has one place.                      *)

LEMMA EdgesIncrease ==
  ASSUME NEW edges \in Seq(Nat), StrictlyIncreasing(edges),
         NEW i \in 1 .. Len(edges), NEW j \in 1 .. Len(edges), i < j
  PROVE  edges[i] < edges[j]
PROOF
  <1> DEFINE n == Len(edges)
             S == {k \in Nat : i + k + 1 <= n => edges[i] < edges[i + k + 1]}
  <1>1. n \in Nat /\ \A k \in 1 .. n : edges[k] \in Nat
    OBVIOUS
  <1>2. 0 \in S
    BY DEF StrictlyIncreasing
  <1>3. ASSUME NEW k \in Nat, k \in S PROVE k + 1 \in S
    <2> SUFFICES ASSUME i + (k + 1) + 1 <= n
                 PROVE  edges[i] < edges[i + (k + 1) + 1]
      OBVIOUS
    <2>1. /\ edges[i] < edges[i + k + 1]
          /\ i + k + 1 \in 1 .. n - 1 /\ i + k + 1 \in 1 .. n
          /\ i + (k + 1) + 1 = (i + k + 1) + 1 /\ i + (k + 1) + 1 \in 1 .. n
      BY <1>1, <1>3
    <2>2. edges[i + k + 1] < edges[(i + k + 1) + 1]
      BY <2>1 DEF StrictlyIncreasing
    <2> QED BY <1>1, <2>1, <2>2
  <1> HIDE DEF S
  <1>4. j - i - 1 \in Nat /\ i + (j - i - 1) + 1 = j
    OBVIOUS
  <1>5. j - i - 1 \in S
    BY <1>2, <1>3, <1>4, Induction
  <1> QED BY <1>1, <1>4, <1>5 DEF S

\* A value between the extreme edges is in one class, the one chosen, and a
\* value that is not between them is in none.
LEMMA OneClass ==
  ASSUME NEW edges \in Seq(Nat), Usable(edges), NEW v \in Nat
  PROVE  /\ v >= edges[1] /\ v < edges[Len(edges)]
              => /\ BinOf(edges, v) \in 1 .. Len(edges) - 1
                 /\ \A i \in 1 .. Len(edges) - 1 :
                      InBin(edges, i, v) <=> i = BinOf(edges, v)
         /\ v < edges[1] \/ v >= edges[Len(edges)]
              => \A i \in 1 .. Len(edges) - 1 : ~InBin(edges, i, v)
         /\ edges[1] < edges[Len(edges)]
         /\ edges[1] \in Nat /\ edges[Len(edges)] \in Nat
PROOF
  <1> DEFINE n == Len(edges)
  <1>1. /\ n \in Nat /\ n >= 2 /\ StrictlyIncreasing(edges)
        /\ \A k \in 1 .. n : edges[k] \in Nat
    BY DEF Usable
  <1>2. \A i, j \in 1 .. n : i < j => edges[i] < edges[j]
    BY <1>1, EdgesIncrease
  <1>3. ASSUME v >= edges[1], v < edges[n]
        PROVE  \E i \in 1 .. n - 1 : InBin(edges, i, v)
    <2> DEFINE t == {i \in 1 .. n : edges[i] <= v}
    <2>1. t \in SUBSET (1 .. n) /\ 1 \in t /\ t # {}
      BY <1>1, <1>3
    <2>2. Max(t) \in t /\ \A y \in t : Max(t) >= y
      BY <1>1, <2>1, MaxExists
    <2>3. PICK m : m = Max(t)
      OBVIOUS
    <2>4. m \in 1 .. n /\ edges[m] <= v /\ m # n
      BY <1>1, <1>3, <2>2, <2>3
    <2>5. m \in 1 .. n - 1 /\ m + 1 \in 1 .. n
      BY <1>1, <2>4
    <2>6. m + 1 \notin t
      BY <2>2, <2>3, <2>4
    <2>7. v < edges[m + 1]
      BY <1>1, <2>5, <2>6
    <2> QED BY <2>4, <2>5, <2>7 DEF InBin
  <1>4. ASSUME NEW i \in 1 .. n - 1, NEW j \in 1 .. n - 1,
               InBin(edges, i, v), InBin(edges, j, v)
        PROVE  ~(i < j)
    <2>1. i + 1 \in 1 .. n /\ j \in 1 .. n /\ (i < j => i + 1 = j \/ i + 1 < j)
      BY <1>1
    <2>2. edges[j] <= v /\ v < edges[i + 1]
      BY <1>4 DEF InBin
    <2>3. i < j => edges[i + 1] <= edges[j]
      BY <1>1, <1>2, <2>1
    <2> QED BY <1>1, <2>1, <2>2, <2>3
  <1>5. ASSUME NEW i \in 1 .. n - 1, InBin(edges, i, v)
        PROVE  v >= edges[1] /\ v < edges[n]
    <2>1. /\ i \in 1 .. n /\ i + 1 \in 1 .. n /\ 1 \in 1 .. n /\ n \in 1 .. n
          /\ edges[i] <= v /\ v < edges[i + 1]
      BY <1>1, <1>5 DEF InBin
    <2>2. edges[1] <= edges[i] /\ edges[i + 1] <= edges[n]
      <3>1. i = 1 \/ 1 < i
        OBVIOUS
      <3>2. i + 1 = n \/ i + 1 < n
        BY <1>1
      <3> QED BY <1>1, <1>2, <2>1, <3>1, <3>2
    <2> QED BY <1>1, <2>1, <2>2
  <1>6. /\ 1 \in 1 .. n /\ n \in 1 .. n /\ 1 < n
        /\ edges[1] \in Nat /\ edges[n] \in Nat /\ edges[1] < edges[n]
    BY <1>1, <1>2
  <1>7. ASSUME v >= edges[1], v < edges[n]
        PROVE  /\ BinOf(edges, v) \in 1 .. n - 1
               /\ \A i \in 1 .. n - 1 : InBin(edges, i, v) <=> i = BinOf(edges, v)
    <2>1. BinOf(edges, v) \in 1 .. n - 1 /\ InBin(edges, BinOf(edges, v), v)
      BY <1>3, <1>7 DEF BinOf
    <2>2. ASSUME NEW i \in 1 .. n - 1, InBin(edges, i, v)
          PROVE  i = BinOf(edges, v)
      <3>1. ~(i < BinOf(edges, v)) /\ ~(BinOf(edges, v) < i)
        BY <1>4, <2>1, <2>2
      <3> QED BY <1>1, <2>1, <3>1
    <2> QED BY <2>1, <2>2
  <1> QED BY <1>5, <1>6, <1>7

-----------------------------------------------------------------------------
(* The device and the tooling count the same.                              *)

\* The places of a population whose value is in a class.
Places(values, class) == {k \in DOMAIN values : values[k] \in class}

LEMMA PlacesAppended ==
  ASSUME NEW values \in Seq(Latency), NEW v \in Latency, NEW class
  PROVE  /\ Cardinality(Places(values, class)) \in Nat
         /\ Cardinality(Places(Append(values, v), class))
              = Cardinality(Places(values, class)) + (IF v \in class THEN 1 ELSE 0)
PROOF
  <1> DEFINE n == Len(values)
             s == Places(values, class)
             r == Places(Append(values, v), class)
  <1>1. n \in Nat /\ s \subseteq 1 .. n
    BY DEF Places
  <1>2. IsFiniteSet(s)
    <2>1. IsFiniteSet(1 .. n)
      BY <1>1, FS_Interval
    <2> HIDE DEF s
    <2> QED BY <1>1, <2>1, FS_Subset
  <1>3. Cardinality(s) \in Nat
    BY <1>2, FS_CardinalityType
  <1>4. /\ DOMAIN Append(values, v) = 1 .. n + 1
        /\ Append(values, v)[n + 1] = v
        /\ \A k \in 1 .. n : Append(values, v)[k] = values[k]
    OBVIOUS
  <1>5. r = IF v \in class THEN s \cup {n + 1} ELSE s
    <2>1. \A k : k \in r <=> /\ k \in 1 .. n + 1
                            /\ Append(values, v)[k] \in class
      BY <1>4 DEF Places
    <2>2. \A k : k \in s <=> k \in 1 .. n /\ values[k] \in class
      BY DEF Places
    <2>3. \A k : k \in 1 .. n + 1 <=> k \in 1 .. n \/ k = n + 1
      BY <1>1
    <2>4. \A k : k \in r <=> k \in s \/ (k = n + 1 /\ v \in class)
      BY <1>4, <2>1, <2>2, <2>3
    <2> HIDE DEF r, s
    <2> QED BY <2>4
  <1>6. n + 1 \notin s
    BY <1>1
  <1> HIDE DEF s, r, n
  <1>7. Cardinality(s \cup {n + 1}) = Cardinality(s) + 1
    BY <1>2, <1>6, FS_AddElement
  <1>8. Cardinality(r) = Cardinality(s) + (IF v \in class THEN 1 ELSE 0)
    BY <1>3, <1>5, <1>7
  <1> QED BY <1>3, <1>8 DEF s, r

\* The classes of a layout, as sets of latencies.
Class(edges, i) == {v \in Latency : InBin(edges, i, v)}

Under(edges) == {v \in Latency : v < edges[1]}

Over(edges) == {v \in Latency : v >= edges[Len(edges)]}

\* A histogram is exactly that of a population, and its classes add up.
Counts(h, values) ==
  /\ Matches(h, Derive(values, h.edges))
  /\ h.count = h.underflow + h.overflow + Total(h.bins)

LEMMA CountsByClass ==
  ASSUME NEW h, HistogramOf(h), NEW values \in Seq(Latency)
  PROVE  Counts(h, values) <=>
           /\ \A i \in 1 .. Len(h.edges) - 1 :
                h.bins[i] = Cardinality(Places(values, Class(h.edges, i)))
           /\ h.underflow = Cardinality(Places(values, Under(h.edges)))
           /\ h.overflow = Cardinality(Places(values, Over(h.edges)))
           /\ h.count = Len(values)
           /\ h.count = h.underflow + h.overflow + Total(h.bins)
PROOF
  <1> DEFINE e == h.edges
             m == Len(h.edges) - 1
  <1>1. \A k \in DOMAIN values : values[k] \in Latency
    OBVIOUS
  <1>2. /\ \A i : {k \in DOMAIN values : InBin(e, i, values[k])}
                    = Places(values, Class(e, i))
        /\ {k \in DOMAIN values : values[k] < e[1]} = Places(values, Under(e))
        /\ {k \in DOMAIN values : values[k] >= e[Len(e)]} = Places(values, Over(e))
    BY <1>1 DEF Places, Class, Under, Over
  <1>3. h.bins = [i \in 1 .. m |-> h.bins[i]]
    BY DEF HistogramOf
  <1>4. Derive(values, e) =
          [bins |-> [i \in 1 .. m |->
                       Cardinality(Places(values, Class(e, i)))],
           underflow |-> Cardinality(Places(values, Under(e))),
           overflow |-> Cardinality(Places(values, Over(e))),
           count |-> Len(values)]
    BY <1>2 DEF Derive
  <1> DEFINE b == [i \in 1 .. m |-> Cardinality(Places(values, Class(e, i)))]
  <1>5. /\ Derive(values, e).bins = b
        /\ Derive(values, e).underflow = Cardinality(Places(values, Under(e)))
        /\ Derive(values, e).overflow = Cardinality(Places(values, Over(e)))
        /\ Derive(values, e).count = Len(values)
    BY <1>4
  <1>6. h.bins = b <=> \A i \in 1 .. m :
                        h.bins[i] = Cardinality(Places(values, Class(e, i)))
    BY <1>3
  <1> QED BY <1>5, <1>6 DEF Counts, Matches

\* A histogram that starts empty is that of the empty population.
LEMMA CountsFromNothing ==
  ASSUME NEW h, HistogramOf(h), NEW edges, h = HistogramInit(edges), Usable(edges)
  PROVE  Counts(h, <<>>)
PROOF
  <1>1. /\ h.edges = edges /\ h.bins = [i \in 1 .. Len(edges) - 1 |-> 0]
        /\ h.underflow = 0 /\ h.overflow = 0 /\ h.count = 0
    BY DEF HistogramInit
  <1>2. Len(edges) - 1 \in Nat
    BY LatencyAssumption DEF Usable
  <1>3. Total(h.bins) = 0
    BY <1>1, <1>2, TotalOfNothing
  <1>4. \A class : Cardinality(Places(<<>>, class)) = 0
    <2>1. \A class : Places(<<>>, class) = {}
      BY DEF Places
    <2> QED BY <2>1, FS_EmptySet
  <1>5. PICK none \in Seq(Latency) : none = <<>> /\ Len(none) = 0
    <2>1. <<>> \in Seq(Latency)
      OBVIOUS
    <2>2. Len(<<>>) = 0
      OBVIOUS
    <2> QED BY <2>1, <2>2, Zenon
  <1>6. \A i \in 1 .. Len(h.edges) - 1 :
          h.bins[i] = Cardinality(Places(none, Class(h.edges, i)))
    BY <1>1, <1>4, <1>5
  <1>7. /\ h.underflow = Cardinality(Places(none, Under(h.edges)))
        /\ h.overflow = Cardinality(Places(none, Over(h.edges)))
        /\ h.count = Len(none)
        /\ h.count = h.underflow + h.overflow + Total(h.bins)
    BY <1>1, <1>3, <1>4, <1>5
  <1>8. Counts(h, none)
    BY <1>6, <1>7, CountsByClass
  <1> QED BY <1>5, <1>8

\* What one addition changes, where no counter saturates.
LEMMA AddedTo ==
  ASSUME NEW h, HistogramOf(h), NEW field \in {"underflow", "overflow"},
         NEW g, g = AddTo(h, field), ~g.saturated
  PROVE  /\ ~h.saturated /\ g.edges = h.edges /\ g.bins = h.bins
         /\ g.underflow = h.underflow + (IF field = "underflow" THEN 1 ELSE 0)
         /\ g.overflow = h.overflow + (IF field = "overflow" THEN 1 ELSE 0)
         /\ g.count = h.count + 1
PROOF
  <1>1. ~h.saturated /\ ~Saturates(h.count) /\ ~Saturates(h[field])
    BY DEF AddTo, HistogramOf
  <1>2. \A c \in Counters : ~Saturates(c) => SatInc(c) = c + 1
    BY U32MaxAssumption DEF Counters, Saturates, SatInc
  <1>3. /\ h.underflow \in Counters /\ h.overflow \in Counters /\ h.count \in Counters
        /\ \A c \in Counters : c + 0 = c
    BY U32MaxAssumption DEF HistogramOf, Counters
  <1>4. /\ g.edges = h.edges /\ g.bins = h.bins /\ g.count = SatInc(h.count)
        /\ g.underflow = IF field = "underflow" THEN SatInc(h.underflow)
                                                ELSE h.underflow
        /\ g.overflow = IF field = "overflow" THEN SatInc(h.overflow)
                                              ELSE h.overflow
    BY DEF AddTo, HistogramOf
  <1> QED BY <1>1, <1>2, <1>3, <1>4

\* A latency more: where no counter saturates, the device counts it in the one
\* class that has it, and in the total.
LEMMA CountsOneMore ==
  ASSUME NEW h, HistogramOf(h), NEW g, HistogramOf(g),
         NEW values \in Seq(Latency), NEW v \in Latency,
         h # None, g = HistogramAdd(h, v), ~g.saturated,
         ~h.saturated => Counts(h, values)
  PROVE  Counts(g, Append(values, v))
PROOF
  <1> DEFINE e == h.edges
             m == Len(h.edges) - 1
             new == Append(values, v)
  <1>1. /\ Usable(e) /\ e \in Seq(Nat) /\ v \in Nat /\ m \in Nat
        /\ h.bins \in [1 .. m -> Nat]
        /\ h.underflow \in Nat /\ h.overflow \in Nat /\ h.count \in Nat
    <2>1. Counters \subseteq Nat /\ Latency \subseteq Nat
      BY LatencyAssumption, U32MaxAssumption DEF Counters, Latency
    <2>2. m \in Nat
      BY LatencyAssumption DEF HistogramOf, Usable
    <2>3. h.bins \in [1 .. m -> Nat]
      BY <2>1 DEF HistogramOf
    <2> QED BY <2>1, <2>2, <2>3 DEF HistogramOf
  <1>2. /\ v >= e[1] /\ v < e[Len(e)]
             => /\ BinOf(e, v) \in 1 .. m
                /\ \A i \in 1 .. m : InBin(e, i, v) <=> i = BinOf(e, v)
        /\ v < e[1] \/ v >= e[Len(e)] => \A i \in 1 .. m : ~InBin(e, i, v)
        /\ e[1] < e[Len(e)] /\ e[1] \in Nat /\ e[Len(e)] \in Nat
    BY <1>1, OneClass
  <1>3. new \in Seq(Latency) /\ Len(new) = Len(values) + 1
    OBVIOUS
  <1>4. \A class :
          /\ Cardinality(Places(values, class)) \in Nat
          /\ Cardinality(Places(new, class))
               = Cardinality(Places(values, class)) + (IF v \in class THEN 1 ELSE 0)
    BY PlacesAppended
  <1>5. /\ \A i : v \in Class(e, i) <=> InBin(e, i, v)
        /\ v \in Under(e) <=> v < e[1]
        /\ v \in Over(e) <=> v >= e[Len(e)]
    BY DEF Class, Under, Over
  <1>6. Counts(h, values) =>
          /\ \A i \in 1 .. m :
               h.bins[i] = Cardinality(Places(values, Class(e, i)))
          /\ h.underflow = Cardinality(Places(values, Under(e)))
          /\ h.overflow = Cardinality(Places(values, Over(e)))
          /\ h.count = Len(values)
          /\ h.count = h.underflow + h.overflow + Total(h.bins)
    BY CountsByClass
  <1>7. ASSUME g.edges = e,
               \A i \in 1 .. m : g.bins[i] = Cardinality(Places(new, Class(e, i))),
               g.underflow = Cardinality(Places(new, Under(e))),
               g.overflow = Cardinality(Places(new, Over(e))),
               g.count = Len(new),
               g.count = g.underflow + g.overflow + Total(g.bins)
        PROVE  Counts(g, new)
    BY <1>3, <1>7, CountsByClass
  <1>8. Total(h.bins) \in Nat
    <2> HIDE DEF m
    <2>1. PICK sum : Adding(m, h.bins, sum) /\ Total(h.bins) = sum[m]
      BY <1>1, TotalSteps
    <2>2. m \in 0 .. m
      BY <1>1
    <2> QED BY <2>1, <2>2 DEF Adding
  <1>9. ASSUME NEW field \in {"underflow", "overflow"},
               (field = "underflow") <=> v < e[1],
               (field = "overflow") <=> v >= e[Len(e)],
               g = AddTo(h, field)
        PROVE  Counts(g, new)
    <2>1. /\ ~h.saturated /\ g.edges = e /\ g.bins = h.bins
          /\ g.underflow = h.underflow + (IF field = "underflow" THEN 1 ELSE 0)
          /\ g.overflow = h.overflow + (IF field = "overflow" THEN 1 ELSE 0)
          /\ g.count = h.count + 1
      BY <1>9, AddedTo
    <2>2. Counts(h, values)
      BY <2>1
    <2>3. g.underflow = Cardinality(Places(new, Under(e)))
      BY <1>4, <1>5, <1>6, <1>9, <2>1, <2>2
    <2>4. g.overflow = Cardinality(Places(new, Over(e)))
      BY <1>4, <1>5, <1>6, <1>9, <2>1, <2>2
    <2>5. ASSUME NEW i \in 1 .. m
          PROVE  g.bins[i] = Cardinality(Places(new, Class(e, i)))
      <3>1. v \notin Class(e, i)
        BY <1>2, <1>5, <1>9
      <3>2. /\ Cardinality(Places(new, Class(e, i)))
                 = Cardinality(Places(values, Class(e, i)))
        BY <1>4, <3>1
      <3> QED BY <1>6, <2>1, <2>2, <3>2
    <2>6. g.count = Len(new)
      BY <1>3, <1>6, <2>1, <2>2
    <2>7. g.count = g.underflow + g.overflow + Total(g.bins)
      <3>1. h.count = h.underflow + h.overflow + Total(h.bins)
        BY <1>6, <2>2
      <3>2. CASE field = "underflow"
        BY <1>1, <1>8, <2>1, <3>1, <3>2
      <3>3. CASE field = "overflow"
        BY <1>1, <1>8, <2>1, <3>1, <3>3
      <3> QED BY <3>2, <3>3
    <2> QED BY <1>7, <2>1, <2>3, <2>4, <2>5, <2>6, <2>7
  <1>10. ASSUME ~(v < e[1]), ~(v >= e[Len(e)]), g = AddToBin(h, BinOf(e, v))
         PROVE  Counts(g, new)
    <2> DEFINE b == BinOf(e, v)
    <2>1. b \in 1 .. m /\ \A i \in 1 .. m : v \in Class(e, i) <=> i = b
      BY <1>1, <1>2, <1>5, <1>10
    <2> HIDE DEF b
    <2>2. /\ ~h.saturated /\ g.edges = e /\ g.bins = [h.bins EXCEPT ![b] = @ + 1]
          /\ g.underflow = h.underflow /\ g.overflow = h.overflow
          /\ g.count = h.count + 1
      <3>1. g = AddToBin(h, b)
        BY <1>10 DEF b
      <3>2. ~h.saturated /\ ~Saturates(h.count) /\ ~Saturates(h.bins[b])
        BY <3>1 DEF AddToBin, HistogramOf
      <3>3. \A c \in Counters : ~Saturates(c) => SatInc(c) = c + 1
        BY U32MaxAssumption DEF Counters, Saturates, SatInc
      <3>4. h.count \in Counters /\ h.bins[b] \in Counters
        BY <2>1 DEF HistogramOf
      <3>5. /\ g.edges = e /\ g.count = SatInc(h.count)
            /\ g.bins = [h.bins EXCEPT ![b] = SatInc(@)]
            /\ g.underflow = h.underflow /\ g.overflow = h.overflow
        BY <3>1 DEF AddToBin, HistogramOf
      <3> QED BY <3>2, <3>3, <3>4, <3>5
    <2>3. Counts(h, values)
      BY <2>2
    <2>4. /\ g.underflow = Cardinality(Places(new, Under(e)))
          /\ g.overflow = Cardinality(Places(new, Over(e)))
      BY <1>4, <1>5, <1>6, <1>10, <2>2, <2>3
    <2>5. ASSUME NEW i \in 1 .. m
          PROVE  g.bins[i] = Cardinality(Places(new, Class(e, i)))
      <3>1. h.bins[i] = Cardinality(Places(values, Class(e, i))) /\ h.bins[i] \in Nat
        BY <1>1, <1>6, <2>3
      <3>2. CASE i = b
        <4>1. g.bins[i] = h.bins[i] + 1
          BY <1>1, <2>1, <2>2, <3>2
        <4> QED BY <1>4, <2>1, <3>1, <3>2, <4>1
      <3>3. CASE i # b
        <4>1. g.bins[i] = h.bins[i]
          BY <1>1, <2>1, <2>2, <3>3
        <4> QED BY <1>4, <2>1, <3>1, <3>3, <4>1
      <3> QED BY <3>2, <3>3
    <2>6. g.count = Len(new)
      BY <1>3, <1>6, <2>2, <2>3
    <2>7. g.count = g.underflow + g.overflow + Total(g.bins)
      <3>1. Total(g.bins) = Total(h.bins) + 1
        <4>1. Total([h.bins EXCEPT ![b] = @ + 1]) = Total(h.bins) + 1
          <5> HIDE DEF m
          <5> QED BY <1>1, <2>1, TotalOneMore, Zenon
        <4> QED BY <2>2, <4>1
      <3>2. h.count = h.underflow + h.overflow + Total(h.bins)
        BY <1>6, <2>3
      <3> QED BY <1>1, <1>8, <2>2, <3>1, <3>2
    <2> QED BY <1>7, <2>2, <2>4, <2>5, <2>6, <2>7
  <1>11. CASE v < e[1]
    <2>1. g = AddTo(h, "underflow")
      BY <1>11 DEF HistogramAdd
    <2>2. ~(v >= e[Len(e)])
      BY <1>1, <1>2, <1>11
    <2> QED BY <1>9, <1>11, <2>1, <2>2
  <1>12. CASE ~(v < e[1]) /\ v >= e[Len(e)]
    <2>1. g = AddTo(h, "overflow")
      BY <1>12 DEF HistogramAdd
    <2> QED BY <1>9, <1>12, <2>1
  <1>13. CASE ~(v < e[1]) /\ ~(v >= e[Len(e)])
    <2>1. g = AddToBin(h, BinOf(e, v))
      BY <1>13 DEF HistogramAdd
    <2> QED BY <1>10, <1>13, <2>1
  <1> QED BY <1>11, <1>12, <1>13

-----------------------------------------------------------------------------
(* The invariant: a histogram that does not say it is saturated counts the *)
(* latencies of the series so far.                                         *)

HistogramInv == Compared(device) => Counts(device, LatenciesOf(series))

LEMMA HistogramInvInit == Init => HistogramInv
PROOF
  <1> SUFFICES ASSUME Init, device # None
               PROVE  Counts(device, LatenciesOf(series))
    BY DEF HistogramInv, Compared
  <1>1. HistogramOf(device)
    BY HistogramTypeInit DEF HistogramType
  <1>2. PICK edges \in Layouts : device = HistogramInit(edges)
    BY DEF Init
  <1>3. Usable(edges)
    BY <1>2 DEF HistogramInit
  <1>4. Counts(device, <<>>)
    BY <1>1, <1>2, <1>3, CountsFromNothing
  <1>5. LatenciesOf(<<>>) = <<>>
    <2>1. <<>> \in Seq(Readings) /\ Len(<<>>) = 0
      OBVIOUS
    <2> QED BY <2>1, SelectionSteps DEF Selecting
  <1> QED BY <1>4, <1>5 DEF Init

LEMMA HistogramInvNext ==
  SeriesInv /\ HistogramType /\ HistogramInv /\ [Next]_vars => HistogramInv'
PROOF
  <1> SUFFICES ASSUME SeriesInv, HistogramType, HistogramInv, [Next]_vars
               PROVE  HistogramInv'
    OBVIOUS
  <1>1. CASE UNCHANGED vars
    BY <1>1 DEF vars, HistogramInv, LatenciesOf, FoldLeft, MapThenFoldSet
  <1>2. ASSUME NEW d \in Durations, NEW status \in {"ok", "timeout"},
               Measure(d, status)
        PROVE  HistogramInv'
    <2> DEFINE sample == [start |-> time % TickMod,
                          end |-> (time + d) % TickMod, status |-> status]
               v == Elapsed(sample.start, sample.end)
               values == LatenciesOf(series)
    <2>1. /\ series' = Append(series, sample)
          /\ device' = IF status = "ok" THEN HistogramAdd(device, v) ELSE device
      BY <1>2 DEF Measure, Feeds
    <2>2. series \in Seq(Readings) /\ sample \in Readings
      <3>1. time \in Nat /\ d \in Nat /\ TickMod \in Nat \ {0}
        BY LatencyAssumption DEF SeriesInv
      <3>2. time \in Int /\ time + d \in Int
        BY <3>1
      <3>3. time % TickMod \in 0 .. TickMod - 1 /\ (time + d) % TickMod \in 0 .. TickMod - 1
        BY <3>1, <3>2, RemainderOf
      <3> QED BY <3>3 DEF SeriesInv, Readings
    <2>3. v \in Latency
      <3> HIDE DEF sample
      <3>1. sample.end - sample.start \in Int
        BY <2>2, LatencyAssumption DEF Readings
      <3> QED BY <3>1, LatencyAssumption, RemainderOf DEF Elapsed, Latency
    <2>4. /\ sample.status = status /\ values \in Seq(Latency)
          /\ LatenciesOf(Append(series, sample)) = WithReading(values, sample)
      BY <2>2, ReadingAppended
    <2> HIDE DEF sample, v, values
    <2>5. LatenciesOf(series)' = IF status = "ok" THEN Append(values, v) ELSE values
      <3>1. LatenciesOf(series)' = LatenciesOf(Append(series, sample))
        BY <2>1 DEF LatenciesOf, FoldLeft, MapThenFoldSet
      <3> QED BY <2>4, <3>1 DEF WithReading, v
    <2>6. ASSUME Compared(device')
          PROVE  Counts(device', LatenciesOf(series)')
      <3>1. CASE status # "ok"
        BY <2>1, <2>5, <2>6, <3>1 DEF HistogramInv, values
      <3>2. CASE status = "ok"
        <4>1. device # None /\ device' = HistogramAdd(device, v) /\ device' # None
              /\ ~device'.saturated
          BY <2>1, <2>6, <3>2 DEF HistogramAdd, Compared
        <4>2. HistogramOf(device)
          BY <4>1 DEF HistogramType
        <4>3. HistogramOf(device')
          <5>1. HistogramType'
            BY HistogramTypeNext
          <5> QED BY <4>1, <5>1 DEF HistogramType, HistogramOf
        <4>4. ~device.saturated => Counts(device, values)
          BY <4>1 DEF HistogramInv, Compared, values
        <4>5. PICK g : g = device'
          OBVIOUS
        <4>6. Counts(g, Append(values, v))
          BY <2>3, <2>4, <4>1, <4>2, <4>3, <4>4, <4>5, CountsOneMore
        <4> QED BY <2>5, <3>2, <4>5, <4>6
      <3> QED BY <3>1, <3>2
    <2> QED BY <2>6 DEF HistogramInv, Counts, Compared
  <1> QED BY <1>1, <1>2 DEF Next

\* histogram.py:6-9: for every layout, every limit of the counters and every
\* series, a histogram that does not say it is saturated is the one derived
\* from the series, and its classes, underflow and overflow add up to its total.
THEOREM HistogramExact == Spec => []UnsaturatedHistogramMatches
PROOF
  <1>1. HistogramInv => UnsaturatedHistogramMatches
    BY DEF HistogramInv, Counts, UnsaturatedHistogramMatches, Latencies, LatenciesOf
  <1> QED BY <1>1, SeriesInvInit, SeriesInvNext, HistogramTypeInit,
             HistogramTypeNext, HistogramInvInit, HistogramInvNext, PTL DEF Spec

-----------------------------------------------------------------------------
(* The quantiles: a place of the ordered population holds one value, whose *)
(* rank says how many values are below it and how many are not above it.   *)

LEMMA BelowAndAtMost ==
  ASSUME NEW values \in Seq(Latency), NEW v \in Nat
  PROVE  /\ Below(values, v) \in Nat /\ AtMost(values, v) \in Nat
         /\ Below(values, v + 1) = AtMost(values, v)
         /\ AtMost(values, v) <= Len(values)
         /\ \A w \in Nat : v < w => AtMost(values, v) <= Below(values, w)
PROOF
  <1> DEFINE n == Len(values)
             below(w) == {k \in DOMAIN values : values[k] < w}
             atMost == {k \in DOMAIN values : values[k] <= v}
  <1>1. n \in Nat /\ DOMAIN values = 1 .. n
    OBVIOUS
  <1>2. \A k \in 1 .. n : values[k] \in Nat
    BY LatencyAssumption DEF Latency
  <1>3. IsFiniteSet(1 .. n) /\ Cardinality(1 .. n) = n
    BY <1>1, FS_Interval
  <1>4. atMost \subseteq 1 .. n /\ \A w : below(w) \subseteq 1 .. n
    BY <1>1
  <1>5. below(v + 1) = atMost
    BY <1>1, <1>2
  <1>6. \A w \in Nat : v < w => atMost \subseteq below(w)
    BY <1>1, <1>2
  <1>7. \A w : Below(values, w) = Cardinality(below(w))
    BY DEF Below
  <1>8. AtMost(values, v) = Cardinality(atMost)
    BY DEF AtMost
  <1> HIDE DEF atMost, below, n
  <1>9. /\ IsFiniteSet(atMost) /\ Cardinality(atMost) <= n
        /\ \A w : IsFiniteSet(below(w)) /\ Cardinality(below(w)) \in Nat
    BY <1>3, <1>4, FS_Subset, FS_CardinalityType
  <1>10. \A w \in Nat : v < w => Cardinality(atMost) <= Cardinality(below(w))
    BY <1>6, <1>9, FS_Subset
  <1>11. Cardinality(atMost) \in Nat
    BY <1>9, FS_CardinalityType
  <1> QED BY <1>5, <1>7, <1>8, <1>9, <1>10, <1>11 DEF n

\* The place r of the ordered population: there is a value that fewer than r
\* are below and no fewer than r are at most.
LEMMA OrderedPlace ==
  ASSUME NEW values \in Seq(Latency), NEW r \in 1 .. Len(values)
  PROVE  LET v == Ordered(values)[r]
         IN  /\ v \in ToSet(values) /\ v \in Nat
             /\ Below(values, v) < r /\ r <= AtMost(values, v)
PROOF
  <1> DEFINE n == Len(values)
             top == TickMod + 1
             t == {w \in 1 .. top : Below(values, w - 1) < r}
  <1>1. /\ n \in Nat /\ DOMAIN values = 1 .. n /\ r \in Nat /\ 1 <= r /\ r <= n
        /\ top \in Nat /\ top >= 2 /\ TickMod \in Nat
    BY LatencyAssumption
  <1>2. \A k \in 1 .. n : values[k] \in Nat /\ values[k] < TickMod
    BY LatencyAssumption DEF Latency
  <1>3. Below(values, 0) = 0
    <2>1. {k \in DOMAIN values : values[k] < 0} = {}
      BY <1>1, <1>2
    <2> QED BY <2>1, FS_EmptySet DEF Below
  <1>4. Below(values, TickMod) = n
    <2>1. {k \in DOMAIN values : values[k] < TickMod} = 1 .. n
      BY <1>1, <1>2
    <2>2. Cardinality(1 .. n) = n
      BY <1>1, FS_Interval
    <2> QED BY <2>1, <2>2 DEF Below
  <1>5. t \in SUBSET (1 .. top) /\ 1 \in t
    BY <1>1, <1>3
  <1>6. Max(t) \in t /\ \A y \in t : Max(t) >= y
    <2> HIDE DEF t, top
    <2> QED BY <1>1, <1>5, MaxExists
  <1>7. PICK m : m = Max(t)
    OBVIOUS
  <1>8. m \in 1 .. top /\ Below(values, m - 1) < r /\ m + 1 \notin t
    BY <1>1, <1>6, <1>7
  <1>9. m # top
    <2>1. top - 1 = TickMod
      BY <1>1
    <2> QED BY <1>1, <1>4, <1>8, <2>1
  <1>10. m - 1 \in Nat /\ m \in Nat /\ m + 1 \in 1 .. top /\ (m + 1) - 1 = m
         /\ (m - 1) + 1 = m
    BY <1>1, <1>8, <1>9
  <1> HIDE DEF top
  <1>11. ~(Below(values, m) < r)
    BY <1>8, <1>10
  <1>12. Below(values, m) = AtMost(values, m - 1) /\ AtMost(values, m - 1) \in Nat
    BY <1>10, BelowAndAtMost
  <1>13. m - 1 \in ToSet(values)
    <2>1. ASSUME \A k \in 1 .. n : values[k] # m - 1
          PROVE  FALSE
      <3>1. {k \in DOMAIN values : values[k] < m}
              = {k \in DOMAIN values : values[k] < m - 1}
        BY <1>1, <1>2, <1>10, <2>1
      <3>2. Below(values, m) = Below(values, m - 1)
        BY <3>1 DEF Below
      <3> QED BY <1>8, <1>11, <3>2
    <2> QED BY <1>1, <2>1 DEF ToSet
  <1>14. \E v \in ToSet(values) : Below(values, v) < r /\ r <= AtMost(values, v)
    BY <1>1, <1>8, <1>11, <1>12, <1>13
  <1>15. Ordered(values)[r]
           = CHOOSE v \in ToSet(values) :
               Below(values, v) < r /\ r <= AtMost(values, v)
    BY <1>1 DEF Ordered
  <1>16. \A v \in ToSet(values) : v \in Nat
    BY <1>1, <1>2 DEF ToSet
  <1> QED BY <1>14, <1>15, <1>16

\* The ordered population is ordered.
LEMMA OrderedIsOrdered ==
  ASSUME NEW values \in Seq(Latency),
         NEW r \in 1 .. Len(values), NEW s \in 1 .. Len(values), r <= s
  PROVE  Ordered(values)[r] <= Ordered(values)[s]
PROOF
  <1> DEFINE v == Ordered(values)[r]
             w == Ordered(values)[s]
  <1>1. v \in Nat /\ w \in Nat /\ Below(values, v) < r /\ s <= AtMost(values, w)
    BY OrderedPlace
  <1> HIDE DEF v, w
  <1>2. /\ w < v => AtMost(values, w) <= Below(values, v)
        /\ AtMost(values, w) \in Nat /\ Below(values, v) \in Nat
    BY <1>1, BelowAndAtMost
  <1>3. ~(w < v)
    BY <1>1, <1>2
  <1>4. v <= w
    BY <1>1, <1>3
  <1> QED BY <1>4 DEF v, w

\* A published quantile is the least value of the population that at least p
\* per cent of it do not exceed.
LEMMA QuantileIsNearest ==
  ASSUME NEW values \in Seq(Latency), values # <<>>, NEW p \in 1 .. 100
  PROVE  LET q == Quantile(Ordered(values), p, 100)
         IN  /\ q = Ordered(values)[Rank(p, 100, Len(values))]
             /\ q \in ToSet(values)
             /\ 100 * AtMost(values, q) >= p * Len(values)
             /\ \A v \in ToSet(values) :
                  v < q => 100 * AtMost(values, v) < p * Len(values)
PROOF
  <1> DEFINE n == Len(values)
             r == Rank(p, 100, n)
             q == Ordered(values)[r]
  <1>1. n \in Nat \ {0} /\ DOMAIN values = 1 .. n
    OBVIOUS
  <1>2. p \in Nat \ {0} /\ 100 \in Nat \ {0} /\ p <= 100 /\ p * n \in Nat
    BY <1>1
  <1>3. r \in 1 .. n /\ p * n <= 100 * r /\ 100 * (r - 1) < p * n
    <2> HIDE DEF n
    <2> QED BY <1>1, <1>2, RankIsNearest
  <1>4. Len(Ordered(values)) = n /\ Ordered(values) # <<>>
    <2>1. DOMAIN Ordered(values) = 1 .. n /\ 1 \in 1 .. n
      BY <1>1 DEF Ordered
    <2>2. DOMAIN <<>> = {}
      OBVIOUS
    <2>3. Len(Ordered(values)) = n
      BY <1>1 DEF Ordered
    <2> QED BY <2>1, <2>2, <2>3
  <1>5. Quantile(Ordered(values), p, 100) = q
    BY <1>4 DEF Quantile
  <1> HIDE DEF r
  <1>6. /\ q \in ToSet(values) /\ q \in Nat
        /\ Below(values, q) < r /\ r <= AtMost(values, q)
    BY <1>3, OrderedPlace
  <1> HIDE DEF q
  <1>7. AtMost(values, q) \in Nat /\ Below(values, q) \in Nat
    BY <1>6, BelowAndAtMost
  <1>8. 100 * AtMost(values, q) >= p * n
    <2> HIDE DEF n
    <2>1. 100 * AtMost(values, q) >= 100 * r
      BY <1>3, <1>6, <1>7
    <2> QED BY <1>2, <1>3, <1>7, <2>1
  <1>9. ASSUME NEW v \in ToSet(values), v < q
        PROVE  100 * AtMost(values, v) < p * n
    <2>1. v \in Nat
      BY LatencyAssumption DEF ToSet, Latency
    <2>2. AtMost(values, v) <= Below(values, q) /\ AtMost(values, v) \in Nat
      BY <1>6, <1>9, <2>1, BelowAndAtMost
    <2>3. 100 * AtMost(values, v) <= 100 * (r - 1)
      BY <1>3, <1>6, <1>7, <2>2
    <2> HIDE DEF n
    <2> QED BY <1>2, <1>3, <2>2, <2>3
  <1> QED BY <1>5, <1>6, <1>8, <1>9 DEF r, q

\* stats.py:6-18: for every series and every population, each published
\* quantile is a latency, the least one that at least p per cent of them do
\* not exceed; an empty population has none; and they are in order.
THEOREM QuantilesExact == Spec => []QuantilesAreNearestRank
PROOF
  <1>1. ASSUME NEW values \in Seq(Latency), values # <<>>
        PROVE  LET stats == LatencyStats(values)
                   o == Ordered(values)
                   n == Len(values)
               IN  /\ stats.min = o[1] /\ stats.max = o[n]
                   /\ stats.p50 = Quantile(o, 50, 100)
                   /\ stats.p95 = Quantile(o, 95, 100)
                   /\ stats.p99 = Quantile(o, 99, 100)
                   /\ o[1] <= Quantile(o, 50, 100)
                   /\ Quantile(o, 99, 100) <= o[n]
    <2> DEFINE n == Len(values)
               o == Ordered(values)
    <2>1. n \in Nat \ {0} /\ DOMAIN values = 1 .. n
      BY <1>1
    <2>2. Len(o) = n
      BY <2>1 DEF Ordered
    <2>3. Rank(50, 100, n) \in 1 .. n /\ Rank(99, 100, n) \in 1 .. n
      <3> HIDE DEF n
      <3>1. /\ 50 \in Nat \ {0} /\ 99 \in Nat \ {0} /\ 100 \in Nat \ {0}
            /\ 50 <= 100 /\ 99 <= 100
        OBVIOUS
      <3>2. Rank(50, 100, n) \in 1 .. n
        BY <2>1, <3>1, RankIsNearest
      <3>3. Rank(99, 100, n) \in 1 .. n
        BY <2>1, <3>1, RankIsNearest
      <3> QED BY <3>2, <3>3
    <2>4. /\ Quantile(o, 50, 100) = o[Rank(50, 100, n)]
          /\ Quantile(o, 99, 100) = o[Rank(99, 100, n)]
      BY <1>1, QuantileIsNearest
    <2>5. /\ o[1] <= o[Rank(50, 100, n)] /\ o[Rank(99, 100, n)] <= o[n]
      BY <2>1, <2>3, OrderedIsOrdered
    <2> QED BY <1>1, <2>2, <2>4, <2>5 DEF LatencyStats
  <1>2. SeriesInv => QuantilesAreNearestRank
    <2> SUFFICES ASSUME SeriesInv PROVE QuantilesAreNearestRank
      OBVIOUS
    <2> DEFINE values == Latencies
               stats == LatencyStats(values)
    <2>1. values \in Seq(Latency)
      <3>1. values = LatenciesOf(series)
        BY DEF Latencies, LatenciesOf
      <3>2. series \in Seq(Readings) /\ Len(series) \in 0 .. Len(series)
        BY DEF SeriesInv
      <3>3. PICK got : Selecting(series, got) /\ LatenciesOf(series) = got[Len(series)]
        BY <3>2, SelectionSteps
      <3> QED BY <3>1, <3>2, <3>3 DEF Selecting
    <2> HIDE DEF values
    <2>2. CASE values = <<>>
      BY <2>2 DEF QuantilesAreNearestRank, LatencyStats, Quantiles, values
    <2>3. CASE values # <<>>
      <3>1. /\ stats.min = Ordered(values)[1] /\ stats.max = Ordered(values)[Len(values)]
            /\ stats.p50 = Quantile(Ordered(values), 50, 100)
            /\ stats.p95 = Quantile(Ordered(values), 95, 100)
            /\ stats.p99 = Quantile(Ordered(values), 99, 100)
            /\ stats.min <= stats.p50 /\ stats.p99 <= stats.max
        BY <1>1, <2>1, <2>3
      <3> HIDE DEF stats
      <3>2. \A p \in {50, 95, 99} :
              LET q == Quantile(Ordered(values), p, 100)
              IN  /\ q \in ToSet(values)
                  /\ 100 * AtMost(values, q) >= p * Len(values)
                  /\ \A v \in ToSet(values) :
                       v < q => 100 * AtMost(values, v) < p * Len(values)
        <4> TAKE p \in {50, 95, 99}
        <4>1. p \in 1 .. 100
          OBVIOUS
        <4> QED BY <2>1, <2>3, <4>1, QuantileIsNearest
      <3> QED BY <2>3, <3>1, <3>2 DEF QuantilesAreNearestRank, values, stats
    <2> QED BY <2>2, <2>3
  <1> QED BY <1>2, SeriesInvInit, SeriesInvNext, PTL DEF Spec
=============================================================================
