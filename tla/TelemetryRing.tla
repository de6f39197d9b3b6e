---------------------------- MODULE TelemetryRing ---------------------------
(***************************************************************************)
(* The bounded sample ring of the bench core (portable/telemetry/ring.c)   *)
(* and the drain that empties it into a sink which may refuse any frame    *)
(* (portable/telemetry/telemetry.c).                                       *)
(*                                                                         *)
(* The ring keeps two circular buffers over memory given by the caller:    *)
(* the samples, and the gap records that remember the samples dropped      *)
(* because the first buffer was full.  A gap record holds the number of    *)
(* samples accepted when the loss happened; it is due once that many have  *)
(* been popped.  Everything runs in one thread: a drain, once called, runs *)
(* its iterations before the engine deposits another sample, so an         *)
(* iteration is a step and "room" is the loop's remaining budget.          *)
(***************************************************************************)
EXTENDS TelemetryRecords, FiniteSets

CONSTANTS
  Capacity,      \* slots of the sample buffer
  GapCapacity,   \* places for gap records, 0 when the caller gives none
  Budgets,       \* the max_messages values drain is called with
  MaxOffered,    \* bound: transactions the engine reports in a run
  MaxFrames      \* bound: no drain starts once this many frames were tried

ASSUME RingAssumption ==
  /\ Capacity \in Nat
  /\ GapCapacity \in Nat
  /\ Budgets \subseteq Nat
  /\ MaxOffered \in Nat
  /\ MaxFrames \in Nat
  \* A run has at most UINT32_MAX transactions (scenario.h: a uint32_t), so
  \* no sequence_id is BENCH_RING_NO_SEQ.
  /\ MaxOffered <= U32Max

VARIABLES
  slots, head, count,          \* bench_ring_t: circular buffer of samples
  pushedTotal, poppedTotal,    \* samples accepted and popped since init
  producerDrop,                \* samples lost, saturating
  gaps, gapHead, gapCount,     \* circular buffer of gap records
  gapMerged,                   \* gap_records_merged, saturating
  lastSeq,                     \* last_seq, NoSeq while has_last_seq = 0
  streamSeq,                   \* bench_telemetry_t: next frame number
  framesAccepted, framesRefused,
  room,        \* max_messages - emitted of the running drain, 0 when none runs
  offered,     \* sequence_id of the next transaction the engine reports
  kept,        \* history: ids the ring accepted
  wire         \* history: records whose frame the sink accepted, in order

sampleVars == <<slots, head, count, pushedTotal, poppedTotal, lastSeq>>
gapVars    == <<gaps, gapHead, gapCount, gapMerged>>
frameVars  == <<streamSeq, framesAccepted, framesRefused>>
vars == <<sampleVars, gapVars, frameVars, producerDrop, room, offered, kept,
          wire>>

-----------------------------------------------------------------------------
(* Index arithmetic of the two circular buffers. *)

SlotIndex(i) == (head + i) % Capacity
GapIndex(i)  == (gapHead + i) % GapCapacity

SampleAt(i) == slots[SlotIndex(i)]      \* i-th oldest sample, from 0
GapAt(i)    == gaps[GapIndex(i)]        \* i-th oldest gap record, from 0

GapRecord == [lost : Nat, after : Nat, afterPushed : Nat]

-----------------------------------------------------------------------------
(* bench_ring_init followed by bench_telemetry_init.  The caller's memory  *)
(* is not cleared by the code, but no slot is read before it is written.   *)
Init ==
  /\ slots = [i \in 0 .. Capacity - 1 |-> 0]
  /\ head = 0 /\ count = 0
  /\ pushedTotal = 0 /\ poppedTotal = 0
  /\ producerDrop = 0
  /\ gaps = [i \in 0 .. GapCapacity - 1 |->
               [lost |-> 0, after |-> 0, afterPushed |-> 0]]
  /\ gapHead = 0 /\ gapCount = 0 /\ gapMerged = 0
  /\ lastSeq = NoSeq
  /\ streamSeq = 0 /\ framesAccepted = 0 /\ framesRefused = 0
  /\ room = 0
  /\ offered = 0
  /\ kept = {}
  /\ wire = <<>>

-----------------------------------------------------------------------------
(* record_drop: the loss is counted, then located.                         *)

\* Mutants: any record is taken for the run's; no run is ever extended.
SameRunAnywhere == gapCount > 0
SameRunNever == FALSE

\* The newest gap record is already about this very position.
SameRun == gapCount > 0 /\ GapAt(gapCount - 1).afterPushed = pushedTotal

ExtendNewestGap ==
  LET g == GapAt(gapCount - 1)
  IN  gaps' = [gaps EXCEPT ![GapIndex(gapCount - 1)] =
                 [g EXCEPT !.lost = SatInc(g.lost)]]

LocateNowhere ==
  /\ GapCapacity = 0
  /\ UNCHANGED gapVars

LocateInNewest ==
  /\ GapCapacity > 0
  /\ SameRun
  /\ ExtendNewestGap
  /\ UNCHANGED <<gapHead, gapCount, gapMerged>>

\* Mutant: the merge is signalled, its loss is not counted.
MergeWithoutCounting ==
  /\ GapCapacity > 0
  /\ ~SameRun
  /\ gapCount = GapCapacity
  /\ gapMerged' = SatInc(gapMerged)
  /\ UNCHANGED <<gaps, gapHead, gapCount>>

LocateByMerging ==
  /\ GapCapacity > 0
  /\ ~SameRun
  /\ gapCount = GapCapacity
  /\ ExtendNewestGap
  /\ gapMerged' = SatInc(gapMerged)
  /\ UNCHANGED <<gapHead, gapCount>>

LocateInNewRecord ==
  /\ GapCapacity > 0
  /\ ~SameRun
  /\ gapCount < GapCapacity
  /\ gaps' = [gaps EXCEPT ![GapIndex(gapCount)] =
                [lost |-> 1, after |-> lastSeq, afterPushed |-> pushedTotal]]
  /\ gapCount' = gapCount + 1
  /\ UNCHANGED <<gapHead, gapMerged>>

RecordDrop ==
  /\ producerDrop' = SatInc(producerDrop)
  /\ \/ LocateNowhere
     \/ LocateInNewest
     \/ LocateByMerging
     \/ LocateInNewRecord

-----------------------------------------------------------------------------
(* bench_ring_push, called by the engine once per executed transaction     *)
(* with the transaction's index.                                           *)

RingFullOffByOne == count > Capacity    \* mutant

RingFull == count >= Capacity

Push ==
  /\ room = 0
  /\ offered < MaxOffered
  /\ ~RingFull
  /\ slots' = [slots EXCEPT ![SlotIndex(count)] = offered]
  /\ count' = count + 1
  /\ pushedTotal' = pushedTotal + 1
  /\ lastSeq' = offered
  /\ offered' = offered + 1
  /\ kept' = kept \cup {offered}
  /\ UNCHANGED <<head, poppedTotal, producerDrop, gapVars, frameVars, room,
                 wire>>

Drop ==
  /\ room = 0
  /\ offered < MaxOffered
  /\ RingFull
  /\ RecordDrop
  /\ offered' = offered + 1
  /\ UNCHANGED <<sampleVars, frameVars, room, kept, wire>>

-----------------------------------------------------------------------------
(* bench_telemetry_drain.                                                  *)

\* Mutants: a gap goes out ahead of the samples before it; a gap waits for one
\* sample too many.
GapDueAtOnce == gapCount > 0
GapDueLate == gapCount > 0 /\ poppedTotal > GapAt(0).afterPushed

\* bench_ring_peek_gap: the oldest gap is due when all the samples accepted
\* before it have been popped.
GapDue == gapCount > 0 /\ poppedTotal >= GapAt(0).afterPushed

\* emit_frame: the frame number advances even when the sink refuses.
EmitFrame(accepted) ==
  /\ streamSeq' = WrapInc(streamSeq)
  /\ IF accepted
       THEN /\ framesAccepted' = SatInc(framesAccepted)
            /\ UNCHANGED framesRefused
       ELSE /\ framesRefused' = SatInc(framesRefused)
            /\ UNCHANGED framesAccepted

StartDrain(max) ==
  /\ room = 0
  /\ framesAccepted + framesRefused < MaxFrames
  /\ room' = max
  /\ UNCHANGED <<sampleVars, gapVars, frameVars, producerDrop, offered, kept,
                 wire>>

\* The gap record is consumed after the sink took its frame.
DrainGap ==
  /\ room > 0
  /\ GapDue
  /\ EmitFrame(TRUE)
  /\ wire' = Append(wire, Gap(GapAt(0).lost, GapAt(0).after))
  /\ gapHead' = (gapHead + 1) % GapCapacity       \* bench_ring_commit_gap
  /\ gapCount' = gapCount - 1
  /\ room' = room - 1
  /\ UNCHANGED <<sampleVars, gaps, gapMerged, producerDrop, offered, kept>>

\* Mutants: the gap marker is consumed before the sink's answer is known; a
\* refused marker is offered again at once.
RefuseGapConsuming ==
  /\ room > 0
  /\ GapDue
  /\ EmitFrame(FALSE)
  /\ room' = 0
  /\ gapHead' = (gapHead + 1) % GapCapacity
  /\ gapCount' = gapCount - 1
  /\ UNCHANGED <<sampleVars, gaps, gapMerged, producerDrop, offered, kept, wire>>

RefuseGapRetrying ==
  /\ room > 0
  /\ GapDue
  /\ EmitFrame(FALSE)
  /\ UNCHANGED <<sampleVars, gapVars, producerDrop, room, offered, kept, wire>>

\* A refused gap marker stays in the ring and ends the drain.
RefuseGap ==
  /\ room > 0
  /\ GapDue
  /\ EmitFrame(FALSE)
  /\ room' = 0
  /\ UNCHANGED <<sampleVars, gapVars, producerDrop, offered, kept, wire>>

\* bench_ring_pop
Pop ==
  /\ count > 0
  /\ head' = (head + 1) % Capacity
  /\ count' = count - 1
  /\ poppedTotal' = poppedTotal + 1
  /\ UNCHANGED <<slots, pushedTotal, lastSeq>>

DrainSample ==
  /\ room > 0
  /\ ~GapDue
  /\ Pop
  /\ EmitFrame(TRUE)
  /\ wire' = Append(wire, Sample(SampleAt(0)))
  /\ room' = room - 1
  /\ UNCHANGED <<gapVars, producerDrop, offered, kept>>

\* A refused sample is gone, and does not use up the drain's budget.
RefuseSample ==
  /\ room > 0
  /\ ~GapDue
  /\ Pop
  /\ EmitFrame(FALSE)
  /\ UNCHANGED <<gapVars, producerDrop, room, offered, kept, wire>>

DrainEmpty ==
  /\ room > 0
  /\ ~GapDue
  /\ count = 0
  /\ room' = 0
  /\ UNCHANGED <<sampleVars, gapVars, frameVars, producerDrop, offered, kept,
                 wire>>

DrainStep ==
  \/ DrainGap
  \/ RefuseGap
  \/ DrainSample
  \/ RefuseSample
  \/ DrainEmpty

-----------------------------------------------------------------------------
Next ==
  \/ Push
  \/ Drop
  \/ \E max \in Budgets : StartDrain(max)
  \/ DrainStep

Spec == Init /\ [][Next]_vars

\* A drain is a loop in one thread and its sink returns: it keeps running.
FairSpec == Spec /\ WF_vars(DrainStep)

-----------------------------------------------------------------------------
(* Properties.                                                             *)

TypeOK ==
  /\ slots \in [0 .. Capacity - 1 -> Nat]
  /\ head \in Nat /\ (Capacity > 0 => head < Capacity)
  /\ count \in 0 .. Capacity
  /\ pushedTotal \in Nat /\ poppedTotal \in Nat
  /\ producerDrop \in 0 .. U32Max
  /\ gaps \in [0 .. GapCapacity - 1 -> GapRecord]
  /\ gapHead \in Nat /\ (GapCapacity > 0 => gapHead < GapCapacity)
  /\ gapCount \in 0 .. GapCapacity
  /\ gapMerged \in 0 .. U32Max
  /\ lastSeq \in 0 .. U32Max
  /\ streamSeq \in 0 .. U32Max
  /\ framesAccepted \in 0 .. U32Max /\ framesRefused \in 0 .. U32Max
  /\ room \in Nat
  /\ offered \in 0 .. MaxOffered
  /\ kept \subseteq 0 .. offered - 1
  /\ wire \in Seq(Record)

RingIds     == {SampleAt(i) : i \in 0 .. count - 1}
PendingGaps == {GapAt(i) : i \in 0 .. gapCount - 1}
WireGaps    == {wire[k] : k \in {j \in 1 .. Len(wire) : wire[j].kind = "gap"}}
ReportedGaps == PendingGaps \cup WireGaps

\* ring.h:65-66: a gap buffer of capacity + 1 places is enough for no two
\* distinct gaps ever to be merged, whatever the engine offers and the sink
\* refuses.  It takes the drain never to pop past a due gap.
NoMerge == GapCapacity > Capacity => gapMerged = 0

\* ring.h:13-24, telemetry.h:125-129: as long as no merge was signalled, every
\* transaction dropped is named by a gap record that is pending or was
\* accepted by the sink, and a gap record names only dropped transactions: a
\* refusing sink neither destroys nor displaces a loss.
LossLocated ==
  (Capacity > 0 /\ GapCapacity > 0 /\ gapMerged = 0) =>
    /\ \A id \in (0 .. offered - 1) \ kept :
         \E g \in ReportedGaps : id \in LostIds(g)
    /\ \A g \in ReportedGaps : LostIds(g) \subseteq (0 .. offered - 1) \ kept

\* The losses that gap records report: each as often as its record counts.
PendingLosses  == UNION {{i} \X (1 .. GapAt(i).lost) : i \in 0 .. gapCount - 1}
ReportedLosses ==
  UNION {{k} \X (1 .. wire[k].lost) :
           k \in {j \in 1 .. Len(wire) : wire[j].kind = "gap"}}

\* ring.h:23-24 and ring.h:65-67 ("jamais perdues silencieusement"): every
\* transaction the ring did not keep is counted, with or without gap memory;
\* with gap memory the drops counted are the losses waiting in gap records plus
\* those the sink accepted, merged or not, each counted once.
LossConserved ==
  /\ producerDrop = offered - Cardinality(kept)
  /\ GapCapacity > 0 =>
       producerDrop = Cardinality(PendingLosses) + Cardinality(ReportedLosses)

\* ring.h:13-20: the records the sink accepted follow the order in which the
\* transactions ran, a gap marker after the samples that precede the loss and
\* before those that follow it, even when gaps were merged.
WireChronological ==
  Capacity > 0 =>
    \A k \in 1 .. Len(wire) : \A j \in 1 .. k - 1 :
       FirstId(wire[j]) < FirstId(wire[k])

\* telemetry.h:129, "Travail BORNE : jamais de blocage": a drain returns, even
\* when the sink refuses every frame.
DrainTerminates == (room > 0) ~> (room = 0)
=============================================================================
