--------------------------- MODULE TelemetrySession -------------------------
(***************************************************************************)
(* A measurement session from the first frame to the capture: header, the  *)
(* samples and gaps of the ring, summary, histogram, footer                *)
(* (portable/telemetry/telemetry.c), in the order its callers use          *)
(* (engine.c for the transactions, tests/test_telemetry.c for the rest),   *)
(* into a sink that may refuse any frame and through a capture that may    *)
(* lose, duplicate or reorder what the sink accepted.  StreamAnalysis says *)
(* what the tooling concludes from the capture.                            *)
(***************************************************************************)
EXTENDS TelemetryRing, StreamAnalysis

CONSTANTS
  Setups,         \* the sessions to run: pairs of
                  \*   engine: engine.c drains after each transaction, and
                  \*     nobody else; or the caller drains, at last before
                  \*     the summary
                  \*   histogram: the profile's histogram_enabled
  EngineBudget,   \* the 4 of engine.c
  FinalBudget,    \* the 64 of test_telemetry.c: more than its ring can hold
  MaxLost,        \* bound: accepted frames the capture may miss
  MaxIssued       \* bound: transactions of the session

ASSUME SessionAssumption ==
  /\ Setups \subseteq [engine : BOOLEAN, histogram : BOOLEAN]
  /\ EngineBudget \in Nat \ {0}
  /\ FinalBudget \in Nat /\ FinalBudget > Capacity + GapCapacity
  /\ MaxLost \in Nat /\ MaxIssued \in 0 .. MaxOffered

VARIABLES
  setup,      \* the member of Setups that runs
  phase,      \* what the session emits next
  owed,       \* the engine's drain of the last transaction is still to come
  stream,     \* frames the sink accepted
  okIds,      \* transactions whose terminal status is ok
  histogram,  \* bench_histogram_t: its total and its saturation flag
  captured    \* frames decoded from the capture

sessionVars == <<setup, phase, owed, okIds, histogram, captured>>
ringVars == <<sampleVars, gapVars, producerDrop, room, offered, kept, wire>>
allVars == <<vars, sessionVars, stream>>

EngineDrains == setup.engine
HistogramOn  == setup.histogram

SessionInit ==
  /\ Init
  /\ setup \in Setups
  /\ phase = "header"
  /\ owed = FALSE
  /\ stream = <<>> /\ captured = <<>>
  /\ okIds = {}
  /\ histogram = [count |-> 0, saturated |-> FALSE]

\* Outside a drain, the sink takes the frame or refuses it.
Emit(body) ==
  \E accepted \in BOOLEAN :
    /\ EmitFrame(accepted)
    /\ stream' = IF accepted THEN Append(stream, Frame(streamSeq, body))
                             ELSE stream
    /\ UNCHANGED ringVars

-----------------------------------------------------------------------------
EmitHeader ==
  /\ phase = "header"
  /\ Emit([kind |-> "header", histogram |-> HistogramOn])
  /\ phase' = "body"
  /\ UNCHANGED <<setup, owed, okIds, histogram, captured>>

\* bench_histogram_add, for one class.
HistogramAdd(h) ==
  [count |-> SatInc(h.count), saturated |-> h.saturated \/ h.count = U32Max]

\* Mutant: a transaction the ring dropped is in the histogram.
FeedsHistogramAlways(ok, wasKept) == HistogramOn /\ ok

\* engine.c feeds the histogram with every valid latency; the caller of
\* test_telemetry.c only with those the ring kept.
FeedsHistogram(ok, wasKept) ==
  HistogramOn /\ ok /\ (EngineDrains \/ wasKept)

\* Mutant: the engine forgets its drain.
OwesNothing == FALSE

Owes == EngineDrains

\* record_sample of one executed transaction.
Transaction(ok) ==
  /\ phase = "body" /\ ~owed
  /\ offered < MaxIssued
  /\ Push \/ Drop
  /\ okIds' = IF ok THEN okIds \cup {offered} ELSE okIds
  /\ histogram' = IF FeedsHistogram(ok, ~RingFull)
                    THEN HistogramAdd(histogram) ELSE histogram
  /\ owed' = Owes
  /\ UNCHANGED <<setup, phase, stream, captured>>

EngineDrain ==
  /\ owed
  /\ StartDrain(EngineBudget)
  /\ owed' = FALSE
  /\ UNCHANGED <<setup, phase, stream, okIds, histogram, captured>>

CallerDrain ==
  /\ phase = "body" /\ ~EngineDrains
  /\ \E max \in Budgets : StartDrain(max)
  /\ UNCHANGED <<sessionVars, stream>>

\* The caller's drain before the summary.  The engine has none.
FinalDrain ==
  /\ phase = "body" /\ ~EngineDrains
  /\ StartDrain(FinalBudget)
  /\ phase' = "summary"
  /\ UNCHANGED <<setup, owed, stream, okIds, histogram, captured>>

EndOfRun ==
  /\ phase = "body" /\ EngineDrains
  /\ room = 0 /\ ~owed
  /\ phase' = "summary"
  /\ UNCHANGED <<vars, setup, owed, stream, okIds, histogram, captured>>

\* An iteration of a drain, whose frame carries the record the ring gave up.
Drains ==
  /\ DrainStep
  /\ stream' = IF wire' = wire THEN stream
               ELSE Append(stream, Frame(streamSeq, Last(wire')))
  /\ UNCHANGED sessionVars

-----------------------------------------------------------------------------
\* Terminal statuses are counted for the transactions the ring kept; the ring
\* itself gives the merges and its gap capacity.
SummaryBody ==
  [kind |-> "summary", issued |-> offered,
   ok |-> Cardinality(kept \cap okIds), other |-> Cardinality(kept \ okIds),
   drop |-> producerDrop, merged |-> gapMerged, gapCapacity |-> GapCapacity]

EmitSummary ==
  /\ phase = "summary" /\ room = 0
  /\ Emit(SummaryBody)
  /\ phase' = "histogram"
  /\ UNCHANGED <<setup, owed, okIds, histogram, captured>>

\* A histogram that is not enabled emits no frame at all.
EmitHistogram ==
  /\ phase = "histogram"
  /\ \/ HistogramOn /\ Emit([kind |-> "histogram", count |-> histogram.count,
                             saturated |-> histogram.saturated])
     \/ ~HistogramOn /\ UNCHANGED <<vars, stream>>
  /\ phase' = "footer"
  /\ UNCHANGED <<setup, owed, okIds, histogram, captured>>

\* Mutant: the counters are read after the footer is accepted.
FooterBodyAfterwards ==
  [kind |-> "footer", last |-> streamSeq, attempted |-> WrapInc(streamSeq),
   accepted |-> SatInc(framesAccepted), refused |-> framesRefused,
   samples |-> offered]

\* The footer's counters are read before it is emitted.
FooterBody ==
  [kind |-> "footer", last |-> streamSeq, attempted |-> WrapInc(streamSeq),
   accepted |-> framesAccepted, refused |-> framesRefused,
   samples |-> offered]

EmitFooter ==
  /\ phase = "footer"
  /\ Emit(FooterBody)
  /\ phase' = "capture"
  /\ UNCHANGED <<setup, owed, okIds, histogram, captured>>

-----------------------------------------------------------------------------
(* The capture: frames lost or damaged, one frame repeated, two swapped.   *)

Without(lost) ==
  FoldLeft(LAMBDA got, f : IF f.n \in lost THEN got ELSE Append(got, f),
           <<>>, stream)

Repeated(s, k) == SubSeq(s, 1, k) \o SubSeq(s, k, Len(s))

Swapped(s, k) == [s EXCEPT ![k] = s[k + 1], ![k + 1] = s[k]]

LostFrames == {l \in SUBSET ToSet(Numbers(stream)) : Cardinality(l) <= MaxLost}

Capture ==
  /\ phase = "capture"
  /\ \E lost \in LostFrames :
       LET got == Without(lost)
       IN  \/ captured' = got
           \/ \E k \in 1 .. Len(got) : captured' = Repeated(got, k)
           \/ \E k \in 1 .. Len(got) - 1 : captured' = Swapped(got, k)
  /\ phase' = "done"
  /\ UNCHANGED <<vars, setup, owed, stream, okIds, histogram>>

SessionNext ==
  \/ EmitHeader
  \/ \E ok \in BOOLEAN : Transaction(ok)
  \/ EngineDrain
  \/ CallerDrain
  \/ FinalDrain
  \/ EndOfRun
  \/ Drains
  \/ EmitSummary
  \/ EmitHistogram
  \/ EmitFooter
  \/ Capture

SessionSpec == SessionInit /\ [][SessionNext]_allVars

-----------------------------------------------------------------------------
(* What the session promises to the reader of the capture.                 *)

Issued == 0 .. offered - 1
ReadIds == {b.seq : b \in Of(captured, "sample")}

\* latency-telemetry.md:202-206, 231-232: a capture whose quantiles may found a
\* verdict holds every transaction the session issued.  Nothing was dropped by
\* the ring, refused by the sink, left behind in the ring or lost on the way,
\* although the parser never compares the samples it read with the summary.
EligibleSeriesIsWhole ==
  phase = "done" /\ Parses(captured) /\ Eligible(captured)
    => ReadIds = Issued

\* latency-telemetry.md:86-94: a stream is declared complete only if the
\* capture has every frame that was attempted, in the order of emission but for
\* repetitions, up to the footer.
CompleteHasEveryFrame ==
  phase = "done" /\ Parses(captured) /\ StreamComplete(captured)
    => /\ ToSet(captured) = ToSet(stream)
       /\ framesRefused = 0
       /\ \A j, k \in DOMAIN captured : j < k => captured[j].n <= captured[k].n

\* latency-telemetry.md:70-76: the transport gap counts at least the frames that
\* were attempted and are not in the capture, when the footer says how many
\* there were; and exactly those when the capture keeps the order.
TransportGapCounts ==
  phase = "done" /\ Parses(captured) /\ Has(captured, "footer") =>
    LET absent == streamSeq - UniqueFrames(captured)
    IN  /\ TransportGap(captured) >= absent
        /\ SeqAnalysis(captured).outOfOrder = 0
             => TransportGap(captured) = absent

\* latency-telemetry.md:222-226: when the stream is complete and the losses are
\* said to be located, the gap markers name exactly the transactions dropped.
GapsLocateEveryLoss ==
  phase = "done" /\ Parses(captured) /\ StreamComplete(captured)
    /\ GapLocalizationComplete(captured) /\ Capacity > 0
    => UNION {LostIds(g) : g \in Of(captured, "gap")} = Issued \ kept

\* The engine drains what it deposits: with a slot in the ring it loses no
\* transaction before serialisation, whatever the sink does, and leaves none
\* behind when the run ends.
EngineNeverDrops ==
  EngineDrains /\ Capacity > 0 =>
    /\ producerDrop = 0
    /\ room = 0 /\ ~owed => count = 0

\* histogram.py:6-9 compares the device's histogram with the one derived from
\* the samples, "toute divergence est un defaut d'instrumentation ou
\* d'implementation": in a stream with no frame missing the two agree, unless
\* the engine counts what its ring, without a slot, cannot keep.
HistogramMatchesSeries ==
  phase = "done" /\ Parses(captured) /\ StreamComplete(captured)
    /\ Has(captured, "histogram")
    /\ ~The(captured, "histogram").saturated
    /\ SeqAnalysis(captured).duplicate = 0
    /\ (EngineDrains => Capacity > 0)
    => The(captured, "histogram").count = Cardinality(ReadIds \cap okIds)

=============================================================================
