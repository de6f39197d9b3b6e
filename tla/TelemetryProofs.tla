--------------------------- MODULE TelemetryProofs --------------------------
(***************************************************************************)
(* Theorems about the telemetry: the ring and its drain (TelemetryRing,    *)
(* from the invariant of TelemetryRingInv), then the session and what its  *)
(* capture proves (TelemetrySession, from TelemetrySessionInv).            *)
(***************************************************************************)
EXTENDS TelemetrySessionInv, SharedLemmas, FiniteSetTheorems

-----------------------------------------------------------------------------
(* Arithmetic modulo a buffer's length.                                    *)

\* Below twice the modulus, the remainder is at most one subtraction away.
LEMMA ModOnce ==
  ASSUME NEW c \in Nat \ {0}, NEW x \in Nat, x < 2 * c
  PROVE  x % c = IF x < c THEN x ELSE x - c
OBVIOUS

\* A remainder is an index of the buffer.
LEMMA ModRange ==
  ASSUME NEW c \in Nat \ {0}, NEW x \in Nat
  PROVE  x % c \in 0 .. c - 1
OBVIOUS

\* Advancing the head by one shifts every index by one.
LEMMA ModShift ==
  ASSUME NEW c \in Nat \ {0}, NEW h \in 0 .. c - 1, NEW i \in 0 .. c - 1
  PROVE  (((h + 1) % c) + i) % c = (h + (i + 1)) % c
<1>1. CASE h + 1 < c
  <2>1. h + 1 \in Nat /\ h + 1 < 2 * c
    BY <1>1
  <2>2. (h + 1) % c = h + 1
    BY <1>1, <2>1, ModOnce
  <2>3. QED
    BY <2>2
<1>2. CASE h + 1 = c
  <2>1. (h + 1) % c = 0
    BY <1>2, ModOnce
  <2>2. i \in Nat /\ i < 2 * c /\ i < c
    OBVIOUS
  <2>3. i % c = i
    BY <2>2, ModOnce
  <2>4. h + (i + 1) = i + c /\ i + c \in Nat /\ i + c < 2 * c /\ ~(i + c < c)
    BY <1>2
  <2>5. (i + c) % c = (i + c) - c
    BY <2>4, ModOnce
  <2>6. QED
    BY <2>1, <2>3, <2>4, <2>5
<1>3. QED
  BY <1>1, <1>2

\* Two offsets within the buffer's length are two different cells.
LEMMA ModDistinct ==
  ASSUME NEW c \in Nat \ {0}, NEW h \in 0 .. c - 1,
         NEW i \in 0 .. c - 1, NEW j \in 0 .. c - 1, i # j
  PROVE  (h + i) % c # (h + j) % c
<1>1. /\ h + i \in Nat /\ h + i < 2 * c
      /\ h + j \in Nat /\ h + j < 2 * c
  OBVIOUS
<1>2. /\ (h + i) % c = IF h + i < c THEN h + i ELSE (h + i) - c
      /\ (h + j) % c = IF h + j < c THEN h + j ELSE (h + j) - c
  BY <1>1, ModOnce
<1>3. QED
  BY <1>2

-----------------------------------------------------------------------------
(* What each operation does to the buffers, seen from their oldest entry.  *)

\* Storing at the tail leaves the stored samples in place.
LEMMA PushView ==
  ASSUME RingAssumption, TypeOK, Push
  PROVE  \A i \in 0 .. count :
           SampleAt(i)' = IF i < count THEN SampleAt(i) ELSE offered
<1>1. /\ Capacity \in Nat \ {0}
      /\ head \in 0 .. Capacity - 1
      /\ count \in 0 .. Capacity - 1
      /\ slots \in [0 .. Capacity - 1 -> Nat]
  BY DEF RingAssumption, TypeOK, Push, RingFull
<1>2. head' = head /\ slots' = [slots EXCEPT ![(head + count) % Capacity] = offered]
  BY DEF Push, SlotIndex
<1>3. TAKE i \in 0 .. count
<1>4. (head + i) % Capacity \in 0 .. Capacity - 1
  BY <1>1, ModRange
<1>5. CASE i < count
  <2>1. i \in 0 .. Capacity - 1 /\ i # count
    BY <1>1, <1>5
  <2>2. (head + i) % Capacity # (head + count) % Capacity
    BY <1>1, <2>1, ModDistinct
  <2>3. QED
    BY <1>1, <1>2, <1>4, <1>5, <2>2 DEF SampleAt, SlotIndex
<1>6. CASE i = count
  BY <1>1, <1>2, <1>4, <1>6 DEF SampleAt, SlotIndex
<1>7. QED
  BY <1>1, <1>5, <1>6

\* Popping makes the second oldest sample the oldest.
LEMMA PopView ==
  ASSUME RingAssumption, TypeOK, Pop
  PROVE  \A i \in 0 .. count - 2 : SampleAt(i)' = SampleAt(i + 1)
<1>1. /\ Capacity \in Nat \ {0}
      /\ head \in 0 .. Capacity - 1
      /\ count \in 1 .. Capacity
  BY DEF RingAssumption, TypeOK, Pop
<1>2. head' = (head + 1) % Capacity /\ slots' = slots
  BY DEF Pop
<1>3. TAKE i \in 0 .. count - 2
<1>4. (((head + 1) % Capacity) + i) % Capacity = (head + (i + 1)) % Capacity
  BY <1>1, ModShift
<1>5. QED
  BY <1>2, <1>4 DEF SampleAt, SlotIndex

\* Committing the oldest gap makes the second oldest the oldest.
LEMMA CommitView ==
  ASSUME RingAssumption, TypeOK, gapCount > 0,
         gapHead' = (gapHead + 1) % GapCapacity, gaps' = gaps
  PROVE  \A i \in 0 .. gapCount - 2 : GapAt(i)' = GapAt(i + 1)
<1>1. /\ GapCapacity \in Nat \ {0}
      /\ gapHead \in 0 .. GapCapacity - 1
      /\ gapCount \in 1 .. GapCapacity
  BY DEF RingAssumption, TypeOK
<1>2. TAKE i \in 0 .. gapCount - 2
<1>3. (((gapHead + 1) % GapCapacity) + i) % GapCapacity
         = (gapHead + (i + 1)) % GapCapacity
  BY <1>1, ModShift
<1>4. QED
  BY <1>3 DEF GapAt, GapIndex

\* Extending the newest gap adds one loss to it and touches no other.
LEMMA ExtendView ==
  ASSUME RingAssumption, TypeOK, gapCount > 0, ExtendNewestGap,
         gapHead' = gapHead
  PROVE  \A i \in Gaps0 :
           /\ GapAt(i)'.after = GapAt(i).after
           /\ GapAt(i)'.afterPushed = GapAt(i).afterPushed
           /\ GapAt(i)'.lost = IF i = gapCount - 1 THEN SatInc(GapAt(i).lost)
                                                   ELSE GapAt(i).lost
<1>1. /\ GapCapacity \in Nat \ {0}
      /\ gapHead \in 0 .. GapCapacity - 1
      /\ gapCount \in 1 .. GapCapacity
      /\ gaps \in [0 .. GapCapacity - 1 -> GapRecord]
  BY DEF RingAssumption, TypeOK
<1> DEFINE newest == (gapHead + (gapCount - 1)) % GapCapacity
           longer == [gaps[newest] EXCEPT !.lost = SatInc(gaps[newest].lost)]
<1>2. gaps' = [gaps EXCEPT ![newest] = longer]
  BY DEF ExtendNewestGap, GapIndex, GapAt
<1> HIDE DEF longer
<1>3. SUFFICES ASSUME NEW i \in Gaps0
               PROVE  /\ GapAt(i)'.after = GapAt(i).after
                      /\ GapAt(i)'.afterPushed = GapAt(i).afterPushed
                      /\ GapAt(i)'.lost = IF i = gapCount - 1
                                            THEN SatInc(GapAt(i).lost)
                                            ELSE GapAt(i).lost
  OBVIOUS
<1> DEFINE cell == (gapHead + i) % GapCapacity
<1>4. cell \in 0 .. GapCapacity - 1
  BY <1>1, ModRange DEF Gaps0
<1>5. GapAt(i) = gaps[cell] /\ GapAt(i)' = gaps'[cell]
  BY DEF GapAt, GapIndex
<1>6. CASE i = gapCount - 1
  <2>1. cell = newest
    BY <1>6
  <2>2. gaps'[cell] = longer
    BY <1>1, <1>2, <1>4, <2>1
  <2>3. gaps[cell] \in GapRecord
    BY <1>1, <1>4
  <2>4. /\ longer.after = gaps[cell].after
        /\ longer.afterPushed = gaps[cell].afterPushed
        /\ longer.lost = SatInc(gaps[cell].lost)
    BY <2>1, <2>3 DEF longer, GapRecord
  <2>5. QED
    BY <1>5, <1>6, <2>2, <2>4
<1>7. CASE i # gapCount - 1
  <2>1. /\ i \in 0 .. GapCapacity - 1
        /\ gapCount - 1 \in 0 .. GapCapacity - 1
    BY <1>1 DEF Gaps0
  <2>2. cell # newest
    BY <1>1, <1>7, <2>1, ModDistinct
  <2>3. gaps'[cell] = gaps[cell]
    BY <1>1, <1>2, <1>4, <2>2
  <2>4. QED
    BY <1>5, <1>7, <2>3
<1>8. QED
  BY <1>6, <1>7

\* Appending a gap record leaves the pending ones in place.
LEMMA AppendView ==
  ASSUME RingAssumption, TypeOK, LocateInNewRecord
  PROVE  \A i \in 0 .. gapCount :
           GapAt(i)' = IF i < gapCount THEN GapAt(i)
                       ELSE [lost |-> 1, after |-> lastSeq,
                             afterPushed |-> pushedTotal]
<1>1. /\ GapCapacity \in Nat \ {0}
      /\ gapHead \in 0 .. GapCapacity - 1
      /\ gapCount \in 0 .. GapCapacity - 1
      /\ gaps \in [0 .. GapCapacity - 1 -> GapRecord]
  BY DEF RingAssumption, TypeOK, LocateInNewRecord
<1> DEFINE new == [lost |-> 1, after |-> lastSeq, afterPushed |-> pushedTotal]
<1>2. gapHead' = gapHead
      /\ gaps' = [gaps EXCEPT ![(gapHead + gapCount) % GapCapacity] = new]
  BY DEF LocateInNewRecord, GapIndex
<1>3. TAKE i \in 0 .. gapCount
<1>4. (gapHead + i) % GapCapacity \in 0 .. GapCapacity - 1
  BY <1>1, ModRange
<1> HIDE DEF new
<1>5. CASE i < gapCount
  <2>1. /\ i \in 0 .. GapCapacity - 1
        /\ gapCount \in 0 .. GapCapacity - 1
        /\ i # gapCount
    BY <1>1, <1>5
  <2>2. (gapHead + i) % GapCapacity # (gapHead + gapCount) % GapCapacity
    BY <1>1, <2>1, ModDistinct
  <2>3. QED
    BY <1>1, <1>2, <1>4, <1>5, <2>2 DEF GapAt, GapIndex
<1>6. CASE i = gapCount
  BY <1>1, <1>2, <1>4, <1>6 DEF GapAt, GapIndex, new
<1>7. QED
  BY <1>1, <1>5, <1>6 DEF new

-----------------------------------------------------------------------------
(* Types.                                                                  *)

\* A saturating or wrapping counter stays a uint32_t.
LEMMA CounterTypes ==
  ASSUME NEW n \in 0 .. U32Max
  PROVE  SatInc(n) \in 0 .. U32Max /\ WrapInc(n) \in 0 .. U32Max
<1>1. SatInc(n) \in 0 .. U32Max
  BY U32MaxAssumption DEF SatInc
<1>2. U32Max + 1 \in Nat \ {0} /\ n + 1 \in Nat
  BY U32MaxAssumption
<1>3. (n + 1) % (U32Max + 1) \in 0 .. (U32Max + 1) - 1
  BY <1>2, ModRange
<1>4. QED
  BY <1>1, <1>3, U32MaxAssumption DEF WrapInc

\* Any offset falls on a cell of the buffer.
LEMMA CellTypes ==
  ASSUME RingAssumption, TypeOK, NEW i \in Nat
  PROVE  /\ Capacity > 0 => /\ SlotIndex(i) \in 0 .. Capacity - 1
                            /\ SampleAt(i) \in Nat
         /\ GapCapacity > 0 => /\ GapIndex(i) \in 0 .. GapCapacity - 1
                               /\ GapAt(i) \in GapRecord
<1>1. ASSUME Capacity > 0
      PROVE  SlotIndex(i) \in 0 .. Capacity - 1 /\ SampleAt(i) \in Nat
  <2>1. Capacity \in Nat \ {0} /\ head + i \in Nat
    BY <1>1 DEF RingAssumption, TypeOK
  <2>2. (head + i) % Capacity \in 0 .. Capacity - 1
    BY <2>1, ModRange
  <2>3. QED
    BY <2>2 DEF SlotIndex, SampleAt, TypeOK
<1>2. ASSUME GapCapacity > 0
      PROVE  GapIndex(i) \in 0 .. GapCapacity - 1 /\ GapAt(i) \in GapRecord
  <2>1. GapCapacity \in Nat \ {0} /\ gapHead + i \in Nat
    BY <1>2 DEF RingAssumption, TypeOK
  <2>2. (gapHead + i) % GapCapacity \in 0 .. GapCapacity - 1
    BY <2>1, ModRange
  <2>3. QED
    BY <2>2 DEF GapIndex, GapAt, TypeOK
<1>3. QED
  BY <1>1, <1>2

\* The frame counters keep their types through emit_frame.
LEMMA EmitFrameTypes ==
  ASSUME TypeOK, NEW accepted \in BOOLEAN, EmitFrame(accepted)
  PROVE  /\ streamSeq' \in 0 .. U32Max
         /\ framesAccepted' \in 0 .. U32Max
         /\ framesRefused' \in 0 .. U32Max
BY CounterTypes DEF TypeOK, EmitFrame

\* The heads keep their types when an entry is consumed.
LEMMA PopTypes ==
  ASSUME RingAssumption, TypeOK, Pop
  PROVE  /\ slots' \in [0 .. Capacity - 1 -> Nat]
         /\ head' \in Nat /\ (Capacity > 0 => head' < Capacity)
         /\ count' \in 0 .. Capacity
         /\ pushedTotal' \in Nat /\ poppedTotal' \in Nat
         /\ lastSeq' \in 0 .. U32Max
<1>1. Capacity \in Nat \ {0} /\ head + 1 \in Nat
  BY DEF RingAssumption, TypeOK, Pop
<1>2. (head + 1) % Capacity \in 0 .. Capacity - 1
  BY <1>1, ModRange
<1>3. QED
  BY <1>1, <1>2 DEF Pop, TypeOK

\* Every step preserves the types.
LEMMA TypeStep ==
  ASSUME RingAssumption, TypeOK, [Next]_vars
  PROVE  TypeOK'
<1>1. CASE Push
  <2>1. Capacity > 0 /\ count + 1 \in 0 .. Capacity
    BY <1>1 DEF Push, RingFull, TypeOK, RingAssumption
  <2>2. slots' \in [0 .. Capacity - 1 -> Nat]
    <3>1. offered \in Nat /\ slots \in [0 .. Capacity - 1 -> Nat]
      BY DEF TypeOK, RingAssumption
    <3>2. slots' = [slots EXCEPT ![SlotIndex(count)] = offered]
      BY <1>1 DEF Push
    <3>3. QED
      BY <3>1, <3>2
  <2>3. offered' \in 0 .. MaxOffered /\ lastSeq' \in 0 .. U32Max
    BY <1>1, U32MaxAssumption DEF Push, TypeOK, RingAssumption
  <2>4. kept' \subseteq 0 .. offered' - 1
    BY <1>1 DEF Push, TypeOK, RingAssumption
  <2>5. QED
    BY <1>1, <2>1, <2>2, <2>3, <2>4 DEF Push, TypeOK, gapVars, frameVars
<1>2. CASE Drop
  <2>1. offered' \in 0 .. MaxOffered /\ kept' \subseteq 0 .. offered' - 1
    BY <1>2 DEF Drop, TypeOK, RingAssumption
  <2>2. producerDrop' \in 0 .. U32Max
    BY <1>2, CounterTypes DEF Drop, RecordDrop, TypeOK
  <2> DEFINE GapTypes == /\ gaps' \in [0 .. GapCapacity - 1 -> GapRecord]
                         /\ gapHead' \in Nat
                         /\ GapCapacity > 0 => gapHead' < GapCapacity
                         /\ gapCount' \in 0 .. GapCapacity
                         /\ gapMerged' \in 0 .. U32Max
  <2>3. ASSUME gapCount > 0, ExtendNewestGap
        PROVE  gaps' \in [0 .. GapCapacity - 1 -> GapRecord]
    <3>1. gapCount - 1 \in Nat /\ GapCapacity > 0
      BY <2>3 DEF TypeOK, RingAssumption
    <3> DEFINE g == GapAt(gapCount - 1)
    <3>2. g \in GapRecord
      BY <3>1, CellTypes
    <3>3. [g EXCEPT !.lost = SatInc(g.lost)] \in GapRecord
      BY <3>2, U32MaxAssumption DEF GapRecord, SatInc
    <3> HIDE DEF g
    <3>4. QED
      BY <2>3, <3>3 DEF ExtendNewestGap, TypeOK, g
  <2>4. ASSUME LocateNowhere PROVE GapTypes
    BY <2>4 DEF LocateNowhere, gapVars, TypeOK
  <2>5. ASSUME LocateInNewest PROVE GapTypes
    BY <2>3, <2>5 DEF LocateInNewest, SameRun, TypeOK
  <2>6. ASSUME LocateByMerging PROVE GapTypes
    BY <2>3, <2>6, CounterTypes DEF LocateByMerging, TypeOK, RingAssumption
  <2>7. ASSUME LocateInNewRecord PROVE GapTypes
    <3> DEFINE new == [lost |-> 1, after |-> lastSeq, afterPushed |-> pushedTotal]
    <3>1. new \in GapRecord
      BY U32MaxAssumption DEF TypeOK, GapRecord
    <3> HIDE DEF new
    <3>2. gaps' = [gaps EXCEPT ![GapIndex(gapCount)] = new]
      BY <2>7 DEF LocateInNewRecord, new
    <3>3. gaps' \in [0 .. GapCapacity - 1 -> GapRecord]
      BY <3>1, <3>2 DEF TypeOK
    <3>4. /\ gapCount' \in 0 .. GapCapacity
          /\ UNCHANGED <<gapHead, gapMerged>>
      BY <2>7 DEF LocateInNewRecord, TypeOK, RingAssumption
    <3>5. QED
      BY <3>3, <3>4 DEF TypeOK
  <2>8. GapTypes
    BY <1>2, <2>4, <2>5, <2>6, <2>7 DEF Drop, RecordDrop
  <2>9. QED
    BY <1>2, <2>1, <2>2, <2>8 DEF Drop, TypeOK, sampleVars, frameVars
<1>3. ASSUME NEW max \in Budgets, StartDrain(max)
      PROVE  TypeOK'
  BY <1>3 DEF StartDrain, TypeOK, RingAssumption, sampleVars, gapVars,
              frameVars
<1>4. CASE DrainGap
  <2>1. GapCapacity \in Nat \ {0} /\ gapHead + 1 \in Nat
    BY <1>4 DEF DrainGap, GapDue, TypeOK, RingAssumption
  <2>2. (gapHead + 1) % GapCapacity \in 0 .. GapCapacity - 1
    BY <2>1, ModRange
  <2>3. gapCount' \in 0 .. GapCapacity /\ room' \in Nat
    BY <1>4 DEF DrainGap, GapDue, TypeOK, RingAssumption
  <2>4. GapAt(0) \in GapRecord
    BY <2>1, CellTypes
  <2>5. Gap(GapAt(0).lost, GapAt(0).after) \in Record
    BY <2>4 DEF GapRecord, Gap, Record
  <2>6. wire' \in Seq(Record)
    BY <1>4, <2>5 DEF DrainGap, TypeOK
  <2>7. /\ streamSeq' \in 0 .. U32Max
        /\ framesAccepted' \in 0 .. U32Max
        /\ framesRefused' \in 0 .. U32Max
    BY <1>4, EmitFrameTypes DEF DrainGap
  <2>8. gapHead' \in Nat /\ gapHead' < GapCapacity
    BY <1>4, <2>1, <2>2 DEF DrainGap
  <2>9. QED
    BY <1>4, <2>3, <2>6, <2>7, <2>8 DEF DrainGap, TypeOK, sampleVars
<1>5. CASE RefuseGap
  BY <1>5, EmitFrameTypes DEF RefuseGap, TypeOK, sampleVars, gapVars
<1>6. CASE DrainSample
  <2>1. Capacity > 0
    BY <1>6 DEF DrainSample, Pop, TypeOK, RingAssumption
  <2>2. Sample(SampleAt(0)) \in Record
    BY <2>1, CellTypes DEF Sample, Record
  <2>3. wire' \in Seq(Record)
    BY <1>6, <2>2 DEF DrainSample, TypeOK
  <2>4. room' \in Nat
    BY <1>6 DEF DrainSample, TypeOK
  <2>5. QED
    BY <1>6, <2>3, <2>4, EmitFrameTypes, PopTypes
       DEF DrainSample, TypeOK, gapVars
<1>7. CASE RefuseSample
  BY <1>7, EmitFrameTypes, PopTypes DEF RefuseSample, TypeOK, gapVars
<1>8. CASE DrainEmpty
  BY <1>8 DEF DrainEmpty, TypeOK, sampleVars, gapVars, frameVars
<1>9. CASE UNCHANGED vars
  BY <1>9 DEF vars, TypeOK, sampleVars, gapVars, frameVars
<1>10. QED
  BY <1>1, <1>2, <1>3, <1>4, <1>5, <1>6, <1>7, <1>8, <1>9 DEF Next, DrainStep

\* The initial state is well typed.
LEMMA TypeInit == ASSUME RingAssumption, Init PROVE TypeOK
BY U32MaxAssumption DEF Init, TypeOK, RingAssumption, GapRecord, NoSeq

\* Type correctness: indexes stay inside the buffers, counters inside their
\* width, and no more is stored than there is room for.
THEOREM TypeCorrect == Spec => []TypeOK
<1>1. Init => TypeOK
  BY TypeInit, RingAssumption
<1>2. TypeOK /\ [Next]_vars => TypeOK'
  BY TypeStep, RingAssumption
<1>3. QED
  BY <1>1, <1>2, PTL DEF Spec

-----------------------------------------------------------------------------
(* The inductive invariant, one lemma per kind of step.                    *)

\* Facts about the current state used by every step.
LEMMA InvTypes ==
  ASSUME RingAssumption, RingInvariant
  PROVE  /\ offered \in Nat /\ count \in Nat /\ gapCount \in Nat
         /\ pushedTotal \in Nat /\ poppedTotal \in Nat
         /\ kept \subseteq 0 .. offered - 1
         /\ wire \in Seq(Record)
         /\ \A s \in Slots0 : SampleAt(s) \in 0 .. offered - 1
         /\ \A i \in Gaps0 : GapAt(i) \in GapRecord /\ First(i) \in Nat
<1>1. TypeOK
  BY DEF RingInvariant
<1>2. /\ offered \in Nat /\ count \in Nat /\ gapCount \in Nat
      /\ pushedTotal \in Nat /\ poppedTotal \in Nat
      /\ kept \subseteq 0 .. offered - 1
      /\ wire \in Seq(Record)
  BY <1>1 DEF TypeOK, RingAssumption
<1>3. \A s \in Slots0 : SampleAt(s) \in 0 .. offered - 1
  BY <1>2 DEF RingInvariant, SamplesInv
<1>4. \A i \in Gaps0 : GapAt(i) \in GapRecord
  <2>1. TAKE i \in Gaps0
  <2>2. i \in Nat /\ GapCapacity > 0
    BY <1>1 DEF Gaps0, TypeOK, RingAssumption
  <2>3. QED
    BY <1>1, <2>2, CellTypes
<1>5. \A i \in Gaps0 : First(i) \in Nat
  BY DEF RingInvariant, GapsInv
<1>6. QED
  BY <1>2, <1>3, <1>4, <1>5

\* A step that touches neither the buffers nor the history.
LEMMA QuietStep ==
  ASSUME RingInvariant,
         UNCHANGED <<sampleVars, gapVars, offered, kept, wire>>
  PROVE  /\ SamplesInv' /\ PositionsInv' /\ GapsInv'
         /\ Capacity > 0 => WireInv'
         /\ Exact' => RunsInv'
<1>1. /\ UNCHANGED <<slots, head, count, pushedTotal, poppedTotal, lastSeq>>
      /\ UNCHANGED <<gaps, gapHead, gapCount, gapMerged, offered, kept, wire>>
  BY DEF sampleVars, gapVars
<1>2. SamplesInv' /\ PositionsInv' /\ GapsInv'
  BY <1>1 DEF RingInvariant, SamplesInv, PositionsInv, GapsInv, Slots0, Gaps0,
              NextId, First, Position, SampleAt, SlotIndex, GapAt, GapIndex
<1>3. ASSUME Capacity > 0 PROVE WireInv'
  BY <1>1, <1>3 DEF RingInvariant, WireInv, Slots0, Gaps0, NextId, First,
              SampleAt, SlotIndex, GapAt, GapIndex
<1>4. ASSUME Exact' PROVE RunsInv'
  BY <1>1, <1>4 DEF RingInvariant, Exact, RunsInv, Gaps0, NextId, First,
              Position, Lost, SentGaps, SameRun, GapAt, GapIndex
<1>5. QED
  BY <1>2, <1>3, <1>4

\* A deposit that is kept: the new sample comes after everything pending.
LEMMA PushStep ==
  ASSUME RingAssumption, RingInvariant, Push
  PROVE  /\ SamplesInv' /\ PositionsInv' /\ GapsInv'
         /\ Capacity > 0 => WireInv'
         /\ Exact' => RunsInv'
<1>1. /\ offered \in Nat /\ count \in Nat /\ gapCount \in Nat
      /\ pushedTotal \in Nat /\ poppedTotal \in Nat
      /\ kept \subseteq 0 .. offered - 1
      /\ \A s \in Slots0 : SampleAt(s) \in 0 .. offered - 1
  BY InvTypes
<1>2. /\ count' = count + 1 /\ pushedTotal' = pushedTotal + 1
      /\ poppedTotal' = poppedTotal /\ lastSeq' = offered
      /\ offered' = offered + 1 /\ kept' = kept \cup {offered}
      /\ UNCHANGED <<gaps, gapHead, gapCount, gapMerged, wire>>
  BY DEF Push, gapVars
<1>3. NextId' = offered + 1
  BY <1>1, <1>2, U32MaxAssumption
     DEF NextId, FollowingId, NoSeq, Push, RingAssumption
<1>4. Slots0' = 0 .. count /\ Gaps0' = Gaps0
  BY <1>1, <1>2 DEF Slots0, Gaps0
<1>5. \A s \in 0 .. count :
         SampleAt(s)' = IF s < count THEN SampleAt(s) ELSE offered
  BY PushView DEF RingInvariant
<1>6. \A i \in Gaps0 : /\ GapAt(i)' = GapAt(i)
                       /\ First(i)' = First(i)
                       /\ Position(i)' = Position(i)
  BY <1>2 DEF GapAt, GapIndex, First, Position
<1>7. SamplesInv'
  BY <1>1, <1>2, <1>3, <1>4, <1>5 DEF RingInvariant, SamplesInv, Slots0
<1>8. PositionsInv'
  BY <1>1, <1>2, <1>4, <1>6 DEF RingInvariant, PositionsInv
<1>9. GapsInv'
  <2>1. \A i \in Gaps0 : First(i) \in Nat /\ First(i) < offered
    BY DEF RingInvariant, GapsInv
  <2>2. \A i \in Gaps0 : Position(i) \in poppedTotal .. pushedTotal
    BY DEF RingInvariant, PositionsInv
  <2>3. \A i \in Gaps0 : \A s \in 0 .. count :
          IF Position(i) <= poppedTotal + s
            THEN First(i) < SampleAt(s)'
            ELSE SampleAt(s)' < First(i)
    <3>1. SUFFICES ASSUME NEW i \in Gaps0, NEW s \in 0 .. count
                   PROVE  IF Position(i) <= poppedTotal + s
                            THEN First(i) < SampleAt(s)'
                            ELSE SampleAt(s)' < First(i)
      OBVIOUS
    <3>2. CASE s < count
      <4>1. s \in Slots0 /\ SampleAt(s)' = SampleAt(s)
        BY <1>1, <1>5, <3>2 DEF Slots0
      <4>2. QED
        BY <4>1 DEF RingInvariant, GapsInv
    <3>3. CASE s = count
      <4>1. SampleAt(s)' = offered
        BY <1>1, <1>5, <3>3
      <4>2. Position(i) <= poppedTotal + s
        BY <1>1, <2>2, <3>3 DEF RingInvariant, SamplesInv
      <4>3. QED
        BY <2>1, <4>1, <4>2
    <3>4. QED
      BY <1>1, <3>2, <3>3
  <2>4. \A i \in Gaps0 : First(i) < offered + 1
    BY <1>1, <2>1
  <2>5. \A i, j \in Gaps0 : i < j => First(i) < First(j)
    BY DEF RingInvariant, GapsInv
  <2>6. QED
    BY <1>2, <1>3, <1>4, <1>6, <2>1, <2>3, <2>4, <2>5 DEF GapsInv
<1>10. ASSUME Capacity > 0 PROVE WireInv'
  <2>1. WireInv
    BY <1>10 DEF RingInvariant
  <2>2. \A k \in 1 .. Len(wire) :
          /\ FirstId(wire[k]) \in Nat /\ FirstId(wire[k]) < offered
          /\ \A s \in 0 .. count : FirstId(wire[k]) < SampleAt(s)'
    BY <1>1, <1>5, <2>1 DEF WireInv, Slots0
  <2>3. \A k \in 1 .. Len(wire) : FirstId(wire[k]) < offered + 1
    BY <1>1, <2>2
  <2>4. QED
    BY <1>2, <1>3, <1>4, <1>6, <2>1, <2>2, <2>3 DEF WireInv
<1>11. ASSUME Exact' PROVE RunsInv'
  <2>1. RunsInv
    BY <1>2, <1>11 DEF RingInvariant, Exact
  <2>2. \A i \in Gaps0 : Position(i)' # pushedTotal'
    BY <1>1, <1>2, <1>6 DEF RingInvariant, PositionsInv
  <2>3. (0 .. offered' - 1) \ kept' = (0 .. offered - 1) \ kept
    BY <1>1, <1>2
  <2>4. SentGaps' = SentGaps /\ wire' = wire
    BY <1>2 DEF SentGaps
  <2>5. \A i \in Gaps0 : Lost(i)' = Lost(i)
    BY <1>6 DEF Lost
  <2>6. NextId' = offered'
    BY <1>2, <1>3
  <2>7. QED
    BY <1>4, <2>1, <2>2, <2>3, <2>4, <2>5, <2>6 DEF RunsInv
<1>12. QED
  BY <1>7, <1>8, <1>9, <1>10, <1>11

\* A deposit that is lost, whatever becomes of the gap records.
LEMMA DropViews ==
  ASSUME RingAssumption, RingInvariant, Drop
  PROVE  /\ offered' = offered + 1
         /\ UNCHANGED <<count, pushedTotal, poppedTotal, lastSeq, kept, wire>>
         /\ Slots0' = Slots0 /\ NextId' = NextId
         /\ \A s \in Slots0 : SampleAt(s)' = SampleAt(s)
         /\ SamplesInv'
<1>1. /\ offered \in Nat /\ count \in Nat
      /\ kept \subseteq 0 .. offered - 1
      /\ SamplesInv
  BY InvTypes DEF RingInvariant
<1>2. /\ UNCHANGED <<slots, head, count, pushedTotal, poppedTotal, lastSeq>>
      /\ UNCHANGED <<kept, wire>>
      /\ offered' = offered + 1
  BY DEF Drop, sampleVars
<1>3. /\ Slots0' = Slots0 /\ NextId' = NextId
      /\ \A s \in Slots0 : SampleAt(s)' = SampleAt(s)
  BY <1>2 DEF Slots0, NextId, SampleAt, SlotIndex
<1>4. SamplesInv'
  BY <1>1, <1>2, <1>3 DEF SamplesInv
<1>5. QED
  BY <1>2, <1>3, <1>4

\* A loss counted in the newest gap record, by merging or not: the records
\* keep their places.
LEMMA DropInPlace ==
  ASSUME RingAssumption, RingInvariant, Drop,
         Gaps0' = Gaps0,
         \A i \in Gaps0 : /\ GapAt(i)'.after = GapAt(i).after
                         /\ GapAt(i)'.afterPushed = GapAt(i).afterPushed
  PROVE  /\ PositionsInv' /\ GapsInv' /\ (Capacity > 0 => WireInv')
         /\ \A i \in Gaps0 : First(i)' = First(i) /\ Position(i)' = Position(i)
<1>1. /\ offered \in Nat /\ offered' = offered + 1
      /\ UNCHANGED <<count, pushedTotal, poppedTotal, wire>>
      /\ Slots0' = Slots0 /\ NextId' = NextId
      /\ \A s \in Slots0 : SampleAt(s)' = SampleAt(s)
  BY DropViews, InvTypes
<1>2. \A i \in Gaps0 : First(i)' = First(i) /\ Position(i)' = Position(i)
  BY DEF First, Position
<1>3. PositionsInv'
  BY <1>1, <1>2 DEF RingInvariant, PositionsInv
<1>4. GapsInv'
  <2>1. \A i \in Gaps0 : First(i) \in Nat /\ First(i) < offered + 1
    BY <1>1 DEF RingInvariant, GapsInv
  <2>2. QED
    BY <1>1, <1>2, <2>1 DEF RingInvariant, GapsInv
<1>5. ASSUME Capacity > 0 PROVE WireInv'
  <2>1. WireInv
    BY <1>5 DEF RingInvariant
  <2>2. \A k \in 1 .. Len(wire) :
          FirstId(wire[k]) \in Nat /\ FirstId(wire[k]) < offered + 1
    BY <1>1, <2>1 DEF WireInv
  <2>3. QED
    BY <1>1, <1>2, <2>1, <2>2 DEF WireInv
<1>6. QED
  BY <1>2, <1>3, <1>4, <1>5

\* A loss that extends the run of the newest gap record.
LEMMA DropInNewest ==
  ASSUME RingAssumption, RingInvariant, Drop, LocateInNewest
  PROVE  /\ PositionsInv' /\ GapsInv' /\ (Capacity > 0 => WireInv')
         /\ Exact' => RunsInv'
<1>0. PICK n \in Nat : n = gapCount - 1
  BY InvTypes DEF LocateInNewest, SameRun
<1>1. /\ offered \in Nat /\ offered' = offered + 1
      /\ gapCount \in Nat /\ gapCount > 0 /\ n \in Gaps0
      /\ UNCHANGED <<count, pushedTotal, kept, wire, gapCount, gapMerged>>
      /\ Gaps0' = Gaps0 /\ NextId' = NextId
      /\ kept \subseteq 0 .. offered - 1
      /\ \A i \in Gaps0 : GapAt(i) \in GapRecord /\ First(i) \in Nat
  BY <1>0, DropViews, InvTypes DEF LocateInNewest, SameRun, Gaps0
<1>2. \A i \in Gaps0 :
        /\ GapAt(i)'.after = GapAt(i).after
        /\ GapAt(i)'.afterPushed = GapAt(i).afterPushed
        /\ GapAt(i)'.lost = IF i = n THEN SatInc(GapAt(i).lost)
                                     ELSE GapAt(i).lost
  BY <1>0, ExtendView DEF RingInvariant, LocateInNewest, SameRun
<1>3. /\ PositionsInv' /\ GapsInv' /\ (Capacity > 0 => WireInv')
      /\ \A i \in Gaps0 : First(i)' = First(i) /\ Position(i)' = Position(i)
  BY <1>1, <1>2, DropInPlace
<1>4. ASSUME Exact' PROVE RunsInv'
  <2>1. RunsInv
    BY <1>1, <1>4 DEF RingInvariant, Exact
  <2>2. Position(n) = pushedTotal
    BY <1>0 DEF LocateInNewest, SameRun, Position
  <2>3. GapAt(n).lost \in Nat /\ First(n) + GapAt(n).lost = offered
    BY <1>1, <2>1, <2>2 DEF RunsInv, GapRecord
  <2>4. GapAt(n)'.lost = GapAt(n).lost + 1
    <3>1. offered < U32Max
      BY U32MaxAssumption DEF Drop, RingAssumption, RingInvariant, TypeOK
    <3>2. GapAt(n).lost < U32Max
      BY <1>1, <2>3, <3>1, U32MaxAssumption
    <3>3. QED
      BY <1>1, <1>2, <3>2 DEF SatInc
  <2>5. \A i \in Gaps0 : i # n => Position(i) # pushedTotal
    BY <1>0, <1>1, <2>2 DEF RingInvariant, PositionsInv, Gaps0
  <2>6. \A i \in Gaps0 : Lost(i)' = IF i = n THEN Lost(i) \cup {offered}
                                            ELSE Lost(i)
    <3>1. SUFFICES ASSUME NEW i \in Gaps0
                   PROVE  Lost(i)' = IF i = n THEN Lost(i) \cup {offered}
                                              ELSE Lost(i)
      OBVIOUS
    <3>2. /\ Lost(i) = First(i) .. First(i) + GapAt(i).lost - 1
          /\ Lost(i)' = First(i) .. First(i) + GapAt(i)'.lost - 1
      BY <1>3 DEF Lost, LostIds, First
    <3>3. CASE i = n
      <4>1. /\ First(n) \in Nat
            /\ First(n) + GapAt(n).lost - 1 = offered - 1
            /\ First(n) + GapAt(n)'.lost - 1 = offered
            /\ First(n) <= offered
        BY <1>1, <2>3, <2>4
      <4>2. First(n) .. offered = (First(n) .. offered - 1) \cup {offered}
        BY <1>1, <4>1
      <4>3. QED
        BY <3>2, <3>3, <4>1, <4>2
    <3>4. CASE i # n
      BY <1>2, <3>2, <3>4
    <3>5. QED
      BY <3>3, <3>4
  <2>7. (0 .. offered' - 1) \ kept' = ((0 .. offered - 1) \ kept) \cup {offered}
    BY <1>1
  <2>8. /\ SentGaps' = SentGaps /\ wire' = wire
    BY <1>1 DEF SentGaps
  <2>9. \A i \in Gaps0 : Position(i)' = pushedTotal' =>
          First(i)' + GapAt(i)'.lost = offered'
    BY <1>1, <1>3, <2>3, <2>4, <2>5
  <2>10. SameRun'
    BY <1>0, <1>1, <1>3, <2>2 DEF SameRun, Position
  <2>11. \A i \in Gaps0 : Lost(i)' \subseteq (0 .. offered' - 1) \ kept'
    BY <2>1, <2>6, <2>7 DEF RunsInv
  <2>12. \A k \in SentGaps : LostIds(wire[k]) \subseteq (0 .. offered' - 1) \ kept'
    BY <2>1, <2>7 DEF RunsInv
  <2>13. \A id \in (0 .. offered' - 1) \ kept' :
           \/ \E i \in Gaps0 : id \in Lost(i)'
           \/ \E k \in SentGaps : id \in LostIds(wire[k])
    BY <1>1, <2>1, <2>6, <2>7 DEF RunsInv
  <2>14. QED
    BY <1>1, <2>8, <2>9, <2>10, <2>11, <2>12, <2>13 DEF RunsInv
<1>5. QED
  BY <1>3, <1>4

\* A loss that opens a gap record: it stands after everything pending.
LEMMA DropInNewRecord ==
  ASSUME RingAssumption, RingInvariant, Drop, LocateInNewRecord
  PROVE  /\ PositionsInv' /\ GapsInv' /\ (Capacity > 0 => WireInv')
         /\ Exact' => RunsInv'
<1>1. /\ offered \in Nat /\ offered' = offered + 1
      /\ count \in Nat /\ gapCount \in Nat
      /\ pushedTotal \in Nat /\ poppedTotal \in Nat
      /\ UNCHANGED <<count, pushedTotal, poppedTotal, kept, wire, gapMerged>>
      /\ gapCount' = gapCount + 1
      /\ Slots0' = Slots0 /\ NextId' = NextId
      /\ kept \subseteq 0 .. offered - 1
      /\ \A s \in Slots0 : SampleAt(s)' = SampleAt(s)
      /\ \A i \in Gaps0 : GapAt(i) \in GapRecord /\ First(i) \in Nat
  BY DropViews, InvTypes DEF LocateInNewRecord
<1>2. Gaps0 = 0 .. gapCount - 1 /\ Gaps0' = 0 .. gapCount
  BY <1>1 DEF Gaps0
<1>3. SamplesInv /\ PositionsInv /\ GapsInv
  BY DEF RingInvariant
<1>4. \A i \in 0 .. gapCount :
        GapAt(i)' = IF i < gapCount THEN GapAt(i)
                    ELSE [lost |-> 1, after |-> lastSeq,
                          afterPushed |-> pushedTotal]
  BY AppendView DEF RingInvariant
<1>5. \A i \in Gaps0 : /\ First(i)' = First(i) /\ Position(i)' = Position(i)
                       /\ GapAt(i)' = GapAt(i) /\ Lost(i)' = Lost(i)
  BY <1>1, <1>2, <1>4 DEF First, Position, Lost
<1>6. PICK n \in Nat : n = gapCount
  BY <1>1
<1>7. /\ Gaps0' = 0 .. n /\ Gaps0 = 0 .. n - 1
      /\ First(n)' = NextId /\ Position(n)' = pushedTotal
      /\ GapAt(n)'.lost = 1
      /\ NextId \in Nat /\ NextId <= offered
  BY <1>2, <1>3, <1>4, <1>6 DEF First, Position, NextId, SamplesInv
<1>8. /\ \A i \in Gaps0 : Position(i) \in poppedTotal .. pushedTotal
      /\ \A i, j \in Gaps0 : i <= j => Position(j) - Position(i) >= j - i
  BY <1>3 DEF PositionsInv
<1>9. \A i \in Gaps0 : pushedTotal - Position(i) >= n - i
  <2>1. SUFFICES ASSUME NEW i \in Gaps0
                 PROVE  pushedTotal - Position(i) >= n - i
    OBVIOUS
  <2>2. n - 1 \in Gaps0 /\ i <= n - 1
    BY <1>6, <1>7
  <2>3. Position(n - 1) # pushedTotal
    BY <1>6, <1>7, <2>2 DEF LocateInNewRecord, SameRun, Position
  <2>4. Position(n - 1) - Position(i) >= (n - 1) - i
    BY <1>8, <2>2
  <2>5. /\ Position(i) \in Int
        /\ Position(n - 1) \in Int /\ Position(n - 1) <= pushedTotal
    BY <1>1, <1>8, <2>2
  <2>6. Position(n - 1) + 1 <= pushedTotal
    BY <1>1, <2>3, <2>5
  <2>7. i \in Int
    BY <1>7
  <2>8. QED
    BY <1>1, <2>4, <2>5, <2>6, <2>7
<1>10. PositionsInv'
  <2>1. \A i \in 0 .. n : Position(i)' \in poppedTotal' .. pushedTotal'
    BY <1>1, <1>3, <1>5, <1>7, <1>8 DEF SamplesInv
  <2>2. \A i, j \in 0 .. n : i <= j => Position(j)' - Position(i)' >= j - i
    <3>1. SUFFICES ASSUME NEW i \in 0 .. n, NEW j \in 0 .. n, i <= j
                   PROVE  Position(j)' - Position(i)' >= j - i
      OBVIOUS
    <3>2. CASE j < n
      <4>1. i \in Gaps0 /\ j \in Gaps0
        BY <1>7, <3>1, <3>2
      <4>2. QED
        BY <1>5, <1>8, <3>1, <4>1
    <3>3. CASE j = n /\ i < n
      BY <1>5, <1>7, <1>9, <3>3
    <3>4. CASE i = n
      BY <1>1, <1>7, <3>1, <3>4
    <3>5. QED
      BY <3>1, <3>2, <3>3, <3>4
  <2>3. QED
    BY <1>7, <2>1, <2>2 DEF PositionsInv
<1>11. \A i \in Gaps0 : Position(i) < pushedTotal /\ First(i) < NextId
  <2>1. \A i \in Gaps0 : Position(i) < pushedTotal
    BY <1>1, <1>7, <1>8, <1>9
  <2>2. QED
    BY <1>3, <2>1 DEF GapsInv
<1>12. GapsInv'
  <2>1. \A i \in 0 .. n : First(i)' \in Nat /\ First(i)' < offered'
    <3>1. \A i \in Gaps0 : First(i) \in Nat /\ First(i) < offered
      BY <1>3 DEF GapsInv
    <3>2. \A i \in Gaps0 : First(i)' \in Nat /\ First(i)' < offered + 1
      BY <1>1, <1>5, <3>1
    <3>3. First(n)' \in Nat /\ First(n)' < offered + 1
      BY <1>1, <1>7
    <3>4. QED
      BY <1>1, <1>7, <3>2, <3>3
  <2>2. \A i \in 0 .. n : Position(i)' < pushedTotal' => First(i)' < NextId'
    BY <1>1, <1>5, <1>7, <1>11
  <2>3. \A i, j \in 0 .. n : i < j => First(i)' < First(j)'
    BY <1>3, <1>5, <1>7, <1>11 DEF GapsInv
  <2>4. \A i \in 0 .. n : \A s \in Slots0 :
          IF Position(i)' <= poppedTotal + s
            THEN First(i)' < SampleAt(s)
            ELSE SampleAt(s) < First(i)'
    <3>1. SUFFICES ASSUME NEW i \in 0 .. n, NEW s \in Slots0
                   PROVE  IF Position(i)' <= poppedTotal + s
                            THEN First(i)' < SampleAt(s)
                            ELSE SampleAt(s) < First(i)'
      OBVIOUS
    <3>2. CASE i < n
      BY <1>3, <1>5, <1>7, <3>2 DEF GapsInv
    <3>3. CASE i = n
      <4>1. ~(pushedTotal <= poppedTotal + s)
        BY <1>1, <1>3 DEF SamplesInv, Slots0
      <4>2. SampleAt(s) < NextId
        BY <1>3 DEF SamplesInv
      <4>3. QED
        BY <1>7, <3>3, <4>1, <4>2
    <3>4. QED
      BY <3>2, <3>3
  <2>5. QED
    BY <1>1, <1>7, <2>1, <2>2, <2>3, <2>4 DEF GapsInv
<1>13. Capacity > 0 => count > 0
  BY <1>1 DEF Drop, RingFull, RingAssumption
<1>14. ASSUME Capacity > 0 PROVE WireInv'
  <2>1. WireInv
    BY <1>14 DEF RingInvariant
  <2>2. \A k \in 1 .. Len(wire) :
          /\ FirstId(wire[k]) \in Nat /\ FirstId(wire[k]) < offered + 1
          /\ FirstId(wire[k]) < NextId
    BY <1>1, <1>13, <1>14, <2>1 DEF WireInv
  <2>3. \A k \in 1 .. Len(wire) : \A i \in 0 .. n : FirstId(wire[k]) < First(i)'
    BY <1>5, <1>7, <2>1, <2>2 DEF WireInv
  <2>4. QED
    BY <1>1, <1>7, <2>1, <2>2, <2>3 DEF WireInv
<1>15. ASSUME Exact' PROVE RunsInv'
  <2>1. RunsInv /\ Capacity > 0
    BY <1>1, <1>15 DEF RingInvariant, Exact
  <2>2. NextId = offered
    BY <1>1, <1>13, <2>1 DEF RunsInv, LocateInNewRecord
  <2>3. Lost(n)' = {offered}
    BY <1>1, <1>7, <2>2 DEF Lost, LostIds, First
  <2>4. (0 .. offered' - 1) \ kept' = ((0 .. offered - 1) \ kept) \cup {offered}
    BY <1>1
  <2>5. SentGaps' = SentGaps /\ wire' = wire
    BY <1>1 DEF SentGaps
  <2>6. \A i \in 0 .. n : Position(i)' = pushedTotal' =>
          First(i)' + GapAt(i)'.lost = offered'
    BY <1>1, <1>5, <1>7, <1>11, <2>2
  <2>7. SameRun'
    BY <1>1, <1>4, <1>6 DEF SameRun
  <2>8. \A i \in 0 .. n : Lost(i)' \subseteq (0 .. offered' - 1) \ kept'
    BY <1>5, <1>7, <2>1, <2>3, <2>4 DEF RunsInv
  <2>9. \A k \in SentGaps : LostIds(wire[k]) \subseteq (0 .. offered' - 1) \ kept'
    BY <2>1, <2>4 DEF RunsInv
  <2>10. \A id \in (0 .. offered' - 1) \ kept' :
           \/ \E i \in 0 .. n : id \in Lost(i)'
           \/ \E k \in SentGaps : id \in LostIds(wire[k])
    BY <1>5, <1>7, <2>1, <2>3, <2>4 DEF RunsInv
  <2>11. QED
    BY <1>7, <2>5, <2>6, <2>7, <2>8, <2>9, <2>10 DEF RunsInv
<1>16. QED
  BY <1>10, <1>12, <1>14, <1>15

\* A deposit that is lost.
LEMMA DropStep ==
  ASSUME RingAssumption, RingInvariant, Drop
  PROVE  /\ SamplesInv' /\ PositionsInv' /\ GapsInv'
         /\ Capacity > 0 => WireInv'
         /\ Exact' => RunsInv'
<1> DEFINE Goal == /\ PositionsInv' /\ GapsInv' /\ (Capacity > 0 => WireInv')
                   /\ Exact' => RunsInv'
<1>1. ASSUME LocateNowhere PROVE Goal
  <2>1. GapCapacity = 0 /\ UNCHANGED <<gaps, gapHead, gapCount>>
    BY <1>1 DEF LocateNowhere, gapVars
  <2>2. Gaps0' = Gaps0 /\ \A i \in Gaps0 : GapAt(i)' = GapAt(i)
    BY <2>1 DEF Gaps0, GapAt, GapIndex
  <2>3. PositionsInv' /\ GapsInv' /\ (Capacity > 0 => WireInv')
    BY <2>2, DropInPlace
  <2>4. ~Exact'
    BY <2>1 DEF Exact
  <2>5. QED
    BY <2>3, <2>4
<1>2. ASSUME LocateInNewest PROVE Goal
  BY <1>2, DropInNewest
<1>3. ASSUME LocateByMerging PROVE Goal
  <2>1. /\ gapCount > 0 /\ Gaps0' = Gaps0 /\ gapHead' = gapHead
        /\ ExtendNewestGap /\ gapMerged' = SatInc(gapMerged)
    BY <1>3, InvTypes DEF LocateByMerging, RingAssumption, Gaps0
  <2>2. \A i \in Gaps0 : /\ GapAt(i)'.after = GapAt(i).after
                         /\ GapAt(i)'.afterPushed = GapAt(i).afterPushed
    BY <2>1, ExtendView DEF RingInvariant
  <2>3. PositionsInv' /\ GapsInv' /\ (Capacity > 0 => WireInv')
    BY <2>1, <2>2, DropInPlace
  <2>4. gapMerged' # 0
    BY <2>1, U32MaxAssumption DEF SatInc, RingInvariant, TypeOK
  <2>5. QED
    BY <2>3, <2>4 DEF Exact
<1>4. ASSUME LocateInNewRecord PROVE Goal
  BY <1>4, DropInNewRecord
<1>5. Goal
  BY <1>1, <1>2, <1>3, <1>4 DEF Drop, RecordDrop
<1>6. QED
  BY <1>5, DropViews

\* Popping the oldest sample, its frame accepted or refused, while no gap is
\* due: everything pending comes after it.
LEMMA PopStep ==
  ASSUME RingAssumption, RingInvariant, ~GapDue, Pop,
         UNCHANGED <<gapVars, offered, kept>>,
         \/ UNCHANGED wire
         \/ wire' = Append(wire, Sample(SampleAt(0)))
  PROVE  /\ SamplesInv' /\ PositionsInv' /\ GapsInv'
         /\ Capacity > 0 => WireInv'
         /\ Exact' => RunsInv'
<1>1. /\ offered \in Nat /\ count \in Nat /\ gapCount \in Nat
      /\ pushedTotal \in Nat /\ poppedTotal \in Nat
      /\ wire \in Seq(Record)
      /\ \A s \in Slots0 : SampleAt(s) \in 0 .. offered - 1
      /\ \A i \in Gaps0 : First(i) \in Nat
  BY InvTypes
<1>2. /\ count > 0 /\ count' = count - 1 /\ poppedTotal' = poppedTotal + 1
      /\ UNCHANGED <<pushedTotal, lastSeq, gaps, gapHead, gapCount, gapMerged>>
      /\ UNCHANGED <<offered, kept>>
  BY DEF Pop, gapVars
<1>3. /\ Slots0 = 0 .. count - 1 /\ Slots0' = 0 .. count - 2
      /\ Gaps0' = Gaps0 /\ NextId' = NextId
  BY <1>1, <1>2 DEF Slots0, Gaps0, NextId
<1>4. \A s \in 0 .. count - 2 : SampleAt(s)' = SampleAt(s + 1)
  BY PopView DEF RingInvariant
<1>5. \A i \in Gaps0 : /\ GapAt(i)' = GapAt(i) /\ First(i)' = First(i)
                       /\ Position(i)' = Position(i) /\ Lost(i)' = Lost(i)
  BY <1>2 DEF GapAt, GapIndex, First, Position, Lost
<1>6. SamplesInv /\ PositionsInv /\ GapsInv
  BY DEF RingInvariant
<1>7. \A i \in Gaps0 : Position(i) \in (poppedTotal + 1) .. pushedTotal
  <2>1. SUFFICES ASSUME NEW i \in Gaps0
                 PROVE  Position(i) \in (poppedTotal + 1) .. pushedTotal
    OBVIOUS
  <2>2. 0 \in Gaps0 /\ 0 <= i /\ gapCount > 0
    BY <1>1 DEF Gaps0
  <2>3. Position(0) \in poppedTotal .. pushedTotal /\ Position(0) > poppedTotal
    BY <1>1, <1>6, <2>2 DEF GapDue, Position, PositionsInv
  <2>4. Position(i) - Position(0) >= i - 0
    BY <1>6, <2>2 DEF PositionsInv
  <2>5. Position(i) \in poppedTotal .. pushedTotal
    BY <1>6 DEF PositionsInv
  <2>6. i \in Nat
    BY DEF Gaps0
  <2>7. QED
    BY <1>1, <2>3, <2>4, <2>5, <2>6
<1>8. SamplesInv'
  <2>1. \A s \in 0 .. count - 2 : SampleAt(s)' \in kept
    BY <1>1, <1>3, <1>4, <1>6 DEF SamplesInv
  <2>2. \A s, t \in 0 .. count - 2 : s < t => SampleAt(s)' < SampleAt(t)'
    BY <1>1, <1>3, <1>4, <1>6 DEF SamplesInv
  <2>3. QED
    BY <1>1, <1>2, <1>3, <1>6, <2>1, <2>2 DEF SamplesInv
<1>9. PositionsInv'
  BY <1>2, <1>3, <1>5, <1>6, <1>7 DEF PositionsInv
<1>10. GapsInv'
  <2>1. \A i \in Gaps0 : \A s \in 0 .. count - 2 :
          IF Position(i) <= (poppedTotal + 1) + s
            THEN First(i) < SampleAt(s)'
            ELSE SampleAt(s)' < First(i)
    <3>1. SUFFICES ASSUME NEW i \in Gaps0, NEW s \in 0 .. count - 2
                   PROVE  IF Position(i) <= (poppedTotal + 1) + s
                            THEN First(i) < SampleAt(s)'
                            ELSE SampleAt(s)' < First(i)
      OBVIOUS
    <3>2. s + 1 \in Slots0 /\ poppedTotal + (s + 1) = (poppedTotal + 1) + s
      BY <1>1, <1>3
    <3>3. QED
      BY <1>4, <1>6, <3>2 DEF GapsInv
  <2>2. QED
    BY <1>2, <1>3, <1>5, <1>6, <2>1 DEF GapsInv
<1>11. /\ 0 \in Slots0 /\ SampleAt(0) \in Nat
       /\ SampleAt(0) < offered /\ SampleAt(0) < NextId
       /\ \A s \in 0 .. count - 2 : SampleAt(0) < SampleAt(s)'
       /\ \A i \in Gaps0 : SampleAt(0) < First(i)
  <2>1. 0 \in Slots0
    BY <1>1, <1>2, <1>3
  <2>2. SampleAt(0) \in Nat /\ SampleAt(0) < offered /\ SampleAt(0) < NextId
    BY <1>1, <1>6, <2>1 DEF SamplesInv
  <2>3. \A s \in 0 .. count - 2 : SampleAt(0) < SampleAt(s)'
    <3>1. \A s \in 0 .. count - 2 : s + 1 \in Slots0 /\ 0 < s + 1
      BY <1>1, <1>3
    <3>2. QED
      BY <1>4, <1>6, <2>1, <3>1 DEF SamplesInv
  <2>4. \A i \in Gaps0 : ~(Position(i) <= poppedTotal + 0)
    BY <1>1, <1>7
  <2>5. \A i \in Gaps0 : SampleAt(0) < First(i)
    BY <1>6, <2>1, <2>4 DEF GapsInv
  <2>6. QED
    BY <2>1, <2>2, <2>3, <2>5
<1>12. PICK x \in Nat : x = SampleAt(0)
  BY <1>11
<1>13. Sample(x) \in Record /\ FirstId(Sample(x)) = x /\ Sample(x).kind # "gap"
  BY DEF Sample, Record, FirstId
<1>14. \/ wire' = wire
       \/ /\ Len(wire') = Len(wire) + 1
          /\ \A k \in 1 .. Len(wire) : wire'[k] = wire[k]
          /\ wire'[Len(wire) + 1] = Sample(x)
  BY <1>1, <1>12, <1>13
<1>15. ASSUME Capacity > 0 PROVE WireInv'
  <2>1. WireInv
    BY <1>15 DEF RingInvariant
  <2>2. \A k \in 1 .. Len(wire) :
          /\ FirstId(wire[k]) \in Nat /\ FirstId(wire[k]) < offered
          /\ FirstId(wire[k]) < NextId
          /\ \A s \in 0 .. count - 2 : FirstId(wire[k]) < SampleAt(s)'
          /\ \A i \in Gaps0 : FirstId(wire[k]) < First(i)
          /\ FirstId(wire[k]) < x
    BY <1>1, <1>2, <1>3, <1>4, <1>11, <1>12, <2>1 DEF WireInv
  <2>3. CASE wire' = wire
    BY <1>2, <1>3, <1>5, <2>1, <2>2, <2>3 DEF WireInv
  <2>4. CASE /\ Len(wire') = Len(wire) + 1
             /\ \A k \in 1 .. Len(wire) : wire'[k] = wire[k]
             /\ wire'[Len(wire) + 1] = Sample(x)
    <3>1. Len(wire) \in Nat
      BY <1>1
    <3>2. \A k \in 1 .. Len(wire') :
            \/ k \in 1 .. Len(wire) /\ FirstId(wire'[k]) = FirstId(wire[k])
            \/ k = Len(wire) + 1 /\ FirstId(wire'[k]) = x
      BY <1>13, <2>4, <3>1
    <3>3. \A k \in 1 .. Len(wire') :
            /\ FirstId(wire'[k]) \in Nat /\ FirstId(wire'[k]) < offered
            /\ FirstId(wire'[k]) < NextId
            /\ \A s \in 0 .. count - 2 : FirstId(wire'[k]) < SampleAt(s)'
            /\ \A i \in Gaps0 : FirstId(wire'[k]) < First(i)
      BY <1>11, <1>12, <2>2, <3>2
    <3>4. \A k \in 1 .. Len(wire') : \A j \in 1 .. k - 1 :
            FirstId(wire'[j]) < FirstId(wire'[k])
      <4>1. SUFFICES ASSUME NEW k \in 1 .. Len(wire'), NEW j \in 1 .. k - 1
                     PROVE  FirstId(wire'[j]) < FirstId(wire'[k])
        OBVIOUS
      <4>2. j \in 1 .. Len(wire) /\ FirstId(wire'[j]) = FirstId(wire[j])
        BY <2>4, <3>1, <3>2
      <4>3. QED
        BY <2>1, <2>2, <3>2, <4>2 DEF WireInv
    <3>5. QED
      BY <1>2, <1>3, <1>5, <3>3, <3>4 DEF WireInv
  <2>5. QED
    BY <1>14, <2>3, <2>4
<1>16. ASSUME Exact' PROVE RunsInv'
  <2>1. RunsInv
    BY <1>2, <1>16 DEF RingInvariant, Exact
  <2>2. SentGaps' = SentGaps /\ \A k \in SentGaps : wire'[k] = wire[k]
    BY <1>1, <1>13, <1>14 DEF SentGaps
  <2>3. SameRun' = SameRun
    BY <1>2 DEF SameRun, GapAt, GapIndex
  <2>4. /\ offered' = offered /\ kept' = kept /\ pushedTotal' = pushedTotal
        /\ count > 0 /\ count' = count - 1
    BY <1>2
  <2>5. \A i \in Gaps0' : Position(i)' = pushedTotal' =>
          First(i)' + GapAt(i)'.lost = offered'
    BY <1>3, <1>5, <2>1, <2>4 DEF RunsInv
  <2>6. NextId' = offered' \/ SameRun' \/ count' = 0
    BY <1>3, <2>1, <2>3, <2>4 DEF RunsInv
  <2>7. \A i \in Gaps0' : Lost(i)' \subseteq (0 .. offered' - 1) \ kept'
    BY <1>3, <1>5, <2>1, <2>4 DEF RunsInv
  <2>8. \A k \in SentGaps' :
          LostIds(wire[k])' \subseteq (0 .. offered' - 1) \ kept'
    BY <2>1, <2>2, <2>4 DEF RunsInv, LostIds
  <2>9. \A id \in (0 .. offered' - 1) \ kept' :
          \/ \E i \in Gaps0' : id \in Lost(i)'
          \/ \E k \in SentGaps' : id \in LostIds(wire[k])'
    <3>1. SUFFICES ASSUME NEW id \in (0 .. offered - 1) \ kept
                   PROVE  \/ \E i \in Gaps0' : id \in Lost(i)'
                          \/ \E k \in SentGaps' : id \in LostIds(wire[k])'
      BY <2>4
    <3>2. CASE \E i \in Gaps0 : id \in Lost(i)
      BY <1>3, <1>5, <3>2
    <3>3. CASE \E k \in SentGaps : id \in LostIds(wire[k])
      BY <2>2, <3>3 DEF LostIds
    <3>4. QED
      BY <2>1, <3>2, <3>3 DEF RunsInv
  <2>10. QED
    BY <2>5, <2>6, <2>7, <2>8, <2>9 DEF RunsInv
<1>17. QED
  BY <1>8, <1>9, <1>10, <1>15, <1>16

\* The oldest gap, due, is accepted by the sink: it leaves the ring for the
\* wire, before everything that stays pending.
LEMMA DrainGapStep ==
  ASSUME RingAssumption, RingInvariant, DrainGap
  PROVE  /\ SamplesInv' /\ PositionsInv' /\ GapsInv'
         /\ Capacity > 0 => WireInv'
         /\ Exact' => RunsInv'
<1>1. /\ offered \in Nat /\ count \in Nat /\ gapCount \in Nat
      /\ pushedTotal \in Nat /\ poppedTotal \in Nat
      /\ wire \in Seq(Record)
      /\ \A i \in Gaps0 : GapAt(i) \in GapRecord /\ First(i) \in Nat
  BY InvTypes
<1>2. /\ gapCount > 0 /\ gapCount' = gapCount - 1
      /\ poppedTotal >= Position(0)
      /\ UNCHANGED <<slots, head, count, pushedTotal, poppedTotal, lastSeq>>
      /\ UNCHANGED <<gaps, gapMerged, offered, kept>>
      /\ gapHead' = (gapHead + 1) % GapCapacity
      /\ wire' = Append(wire, Gap(GapAt(0).lost, GapAt(0).after))
  BY DEF DrainGap, GapDue, Position, sampleVars
<1>3. /\ Gaps0 = 0 .. gapCount - 1 /\ Gaps0' = 0 .. gapCount - 2
      /\ 0 \in Gaps0
      /\ Slots0' = Slots0 /\ NextId' = NextId
      /\ \A s \in Slots0 : SampleAt(s)' = SampleAt(s)
  BY <1>1, <1>2 DEF Slots0, Gaps0, NextId, SampleAt, SlotIndex
<1>4. \A i \in 0 .. gapCount - 2 : i + 1 \in Gaps0 /\ GapAt(i)' = GapAt(i + 1)
  BY <1>1, <1>2, <1>3, CommitView DEF RingInvariant
<1>5. \A i \in 0 .. gapCount - 2 :
        /\ First(i)' = First(i + 1) /\ Position(i)' = Position(i + 1)
        /\ Lost(i)' = Lost(i + 1)
  BY <1>4 DEF First, Position, Lost
<1>6. SamplesInv /\ PositionsInv /\ GapsInv
  BY DEF RingInvariant
<1>7. SamplesInv'
  BY <1>2, <1>3, <1>6 DEF SamplesInv
<1>8. PositionsInv'
  <2>1. \A i \in 0 .. gapCount - 2 : Position(i)' \in poppedTotal .. pushedTotal
    BY <1>4, <1>5, <1>6 DEF PositionsInv
  <2>2. \A i, j \in 0 .. gapCount - 2 : i <= j =>
          Position(j)' - Position(i)' >= j - i
    <3>1. SUFFICES ASSUME NEW i \in 0 .. gapCount - 2,
                          NEW j \in 0 .. gapCount - 2, i <= j
                   PROVE  Position(j)' - Position(i)' >= j - i
      OBVIOUS
    <3>2. /\ i \in Nat /\ j \in Nat /\ i + 1 <= j + 1
          /\ i + 1 \in Gaps0 /\ j + 1 \in Gaps0
      <4>1. i \in Nat /\ j \in Nat /\ i + 1 <= j + 1
        BY <1>1, <3>1
      <4>2. i + 1 \in Gaps0 /\ j + 1 \in Gaps0
        BY <1>4
      <4>3. QED
        BY <4>1, <4>2
    <3>3. Position(j + 1) - Position(i + 1) >= (j + 1) - (i + 1)
      BY <1>6, <3>2 DEF PositionsInv
    <3>4. Position(j + 1) - Position(i + 1) >= j - i
      BY <3>2, <3>3
    <3>5. QED
      BY <1>5, <3>4
  <2>3. QED
    BY <1>2, <1>3, <2>1, <2>2 DEF PositionsInv
<1>9. GapsInv'
  <2>1. \A i, j \in 0 .. gapCount - 2 : i < j => First(i)' < First(j)'
    BY <1>1, <1>4, <1>5, <1>6 DEF GapsInv
  <2>2. \A i \in 0 .. gapCount - 2 :
          /\ First(i)' \in Nat /\ First(i)' < offered
          /\ Position(i)' < pushedTotal => First(i)' < NextId
          /\ \A s \in Slots0 :
               IF Position(i)' <= poppedTotal + s
                 THEN First(i)' < SampleAt(s)
                 ELSE SampleAt(s) < First(i)'
    BY <1>4, <1>5, <1>6 DEF GapsInv
  <2>3. QED
    BY <1>2, <1>3, <2>1, <2>2 DEF GapsInv
<1>10. /\ First(0) \in Nat /\ First(0) < offered
       /\ First(0) < NextId \/ count = 0
       /\ \A s \in Slots0 : First(0) < SampleAt(s)
       /\ \A i \in 0 .. gapCount - 2 : First(0) < First(i)'
  <2>1. Position(0) \in poppedTotal .. pushedTotal
    BY <1>3, <1>6 DEF PositionsInv
  <2>2. First(0) < NextId \/ count = 0
    BY <1>1, <1>2, <1>3, <1>6, <2>1 DEF GapsInv, SamplesInv
  <2>3. \A s \in Slots0 : Position(0) <= poppedTotal + s
    BY <1>1, <1>2, <2>1 DEF Slots0
  <2>4. \A s \in Slots0 : First(0) < SampleAt(s)
    BY <1>3, <1>6, <2>3 DEF GapsInv
  <2>5. \A i \in 0 .. gapCount - 2 : First(0) < First(i + 1)
    BY <1>1, <1>3, <1>4, <1>6 DEF GapsInv
  <2>6. QED
    BY <1>3, <1>5, <1>6, <2>2, <2>4, <2>5 DEF GapsInv
<1>11. PICK g \in Record : /\ g = Gap(GapAt(0).lost, GapAt(0).after)
                          /\ g.kind = "gap" /\ FirstId(g) = First(0)
                          /\ LostIds(g) = Lost(0)
  <2>1. GapAt(0).lost \in Nat /\ GapAt(0).after \in Nat
    BY <1>1, <1>3 DEF GapRecord
  <2>2. /\ Gap(GapAt(0).lost, GapAt(0).after) \in Record
        /\ Gap(GapAt(0).lost, GapAt(0).after).kind = "gap"
        /\ Gap(GapAt(0).lost, GapAt(0).after).lost = GapAt(0).lost
        /\ Gap(GapAt(0).lost, GapAt(0).after).after = GapAt(0).after
    BY <2>1 DEF Gap, Record
  <2>3. QED
    BY <2>2 DEF FirstId, First, LostIds, Lost
<1>12. /\ Len(wire) \in Nat /\ Len(wire') = Len(wire) + 1
       /\ \A k \in 1 .. Len(wire) : wire'[k] = wire[k]
       /\ wire'[Len(wire) + 1] = g
  BY <1>1, <1>2, <1>11
<1>13. ASSUME Capacity > 0 PROVE WireInv'
  <2>1. WireInv
    BY <1>13 DEF RingInvariant
  <2>2. \A k \in 1 .. Len(wire') :
          \/ k \in 1 .. Len(wire) /\ FirstId(wire'[k]) = FirstId(wire[k])
          \/ k = Len(wire) + 1 /\ FirstId(wire'[k]) = First(0)
    BY <1>11, <1>12
  <2>3. \A k \in 1 .. Len(wire) :
          /\ FirstId(wire[k]) < First(0)
          /\ \A i \in 0 .. gapCount - 2 : FirstId(wire[k]) < First(i)'
    BY <1>3, <1>4, <1>5, <2>1 DEF WireInv
  <2>4. \A k \in 1 .. Len(wire') :
          /\ FirstId(wire'[k]) \in Nat /\ FirstId(wire'[k]) < offered
          /\ FirstId(wire'[k]) < NextId \/ count = 0
          /\ \A s \in Slots0 : FirstId(wire'[k]) < SampleAt(s)
          /\ \A i \in 0 .. gapCount - 2 : FirstId(wire'[k]) < First(i)'
    BY <1>10, <2>1, <2>2, <2>3 DEF WireInv
  <2>5. \A k \in 1 .. Len(wire') : \A j \in 1 .. k - 1 :
          FirstId(wire'[j]) < FirstId(wire'[k])
    <3>1. SUFFICES ASSUME NEW k \in 1 .. Len(wire'), NEW j \in 1 .. k - 1
                   PROVE  FirstId(wire'[j]) < FirstId(wire'[k])
      OBVIOUS
    <3>2. j \in 1 .. Len(wire) /\ FirstId(wire'[j]) = FirstId(wire[j])
      BY <1>12
    <3>3. QED
      BY <2>1, <2>2, <2>3, <3>2 DEF WireInv
  <2>6. QED
    BY <1>2, <1>3, <2>4, <2>5 DEF WireInv
<1>14. ASSUME Exact' PROVE RunsInv'
  <2>1. RunsInv
    BY <1>2, <1>14 DEF RingInvariant, Exact
  <2>2. SentGaps' = SentGaps \cup {Len(wire) + 1}
    BY <1>11, <1>12 DEF SentGaps
  <2>3. /\ \A k \in SentGaps : wire'[k] = wire[k]
        /\ LostIds(wire'[Len(wire) + 1]) = Lost(0)
    BY <1>11, <1>12 DEF SentGaps
  <2>4. \A i \in 0 .. gapCount - 2 : Position(i)' = pushedTotal' =>
          First(i)' + GapAt(i)'.lost = offered'
    BY <1>2, <1>4, <1>5, <2>1 DEF RunsInv
  <2>5. SameRun => SameRun' \/ count = 0
    <3>1. CASE gapCount = 1
      BY <1>1, <1>2, <1>6, <3>1 DEF SameRun, SamplesInv, Position
    <3>2. CASE gapCount > 1
      <4>1. /\ gapCount' > 0 /\ gapCount' - 1 = gapCount - 2
            /\ gapCount - 2 \in 0 .. gapCount - 2
            /\ (gapCount - 2) + 1 = gapCount - 1
        BY <1>1, <1>2, <3>2
      <4>2. PICK m \in Nat : m = gapCount - 2
        BY <1>1, <3>2
      <4>3. GapAt(m)' = GapAt(m + 1)
        BY <1>4, <4>1, <4>2
      <4>4. QED
        BY <1>2, <4>1, <4>2, <4>3 DEF SameRun
    <3>3. QED
      BY <1>1, <1>2, <3>1, <3>2
  <2>6. \A i \in 0 .. gapCount - 2 : Lost(i)' \subseteq (0 .. offered - 1) \ kept
    BY <1>4, <1>5, <2>1 DEF RunsInv
  <2>7. \A k \in SentGaps' : LostIds(wire'[k]) \subseteq (0 .. offered - 1) \ kept
    BY <1>3, <2>1, <2>2, <2>3 DEF RunsInv
  <2>8. \A id \in (0 .. offered - 1) \ kept :
          \/ \E i \in 0 .. gapCount - 2 : id \in Lost(i)'
          \/ \E k \in SentGaps' : id \in LostIds(wire'[k])
    <3>1. SUFFICES ASSUME NEW id \in (0 .. offered - 1) \ kept
                   PROVE  \/ \E i \in 0 .. gapCount - 2 : id \in Lost(i)'
                          \/ \E k \in SentGaps' : id \in LostIds(wire'[k])
      OBVIOUS
    <3>2. CASE \E k \in SentGaps : id \in LostIds(wire[k])
      BY <2>2, <2>3, <3>2
    <3>3. CASE id \in Lost(0)
      BY <2>2, <2>3, <3>3
    <3>4. ASSUME NEW i \in Gaps0, i # 0, id \in Lost(i)
          PROVE  \E j \in 0 .. gapCount - 2 : id \in Lost(j)'
      <4>1. i - 1 \in 0 .. gapCount - 2 /\ (i - 1) + 1 = i
        BY <1>1, <1>3, <3>4
      <4>2. Lost(i - 1)' = Lost(i)
        BY <1>5, <4>1
      <4>3. QED
        BY <3>4, <4>1, <4>2
    <3>5. QED
      BY <2>1, <3>2, <3>3, <3>4 DEF RunsInv
  <2>9. NextId' = offered' \/ SameRun' \/ count' = 0
    BY <1>2, <1>3, <2>1, <2>5 DEF RunsInv
  <2>10. QED
    BY <1>2, <1>3, <2>4, <2>6, <2>7, <2>8, <2>9 DEF RunsInv
<1>15. QED
  BY <1>7, <1>8, <1>9, <1>13, <1>14

LEMMA InvInit == ASSUME RingAssumption, Init PROVE RingInvariant
<1>1. TypeOK
  BY TypeInit
<1>2. /\ Slots0 = {} /\ Gaps0 = {} /\ kept = {} /\ offered = 0
      /\ NextId = 0 /\ gapCount = 0 /\ count = 0
      /\ pushedTotal = 0 /\ poppedTotal = 0
      /\ wire = <<>> /\ Len(wire) = 0 /\ SentGaps = {}
  BY DEF Init, Slots0, Gaps0, NextId, FollowingId, SentGaps
<1>3. SamplesInv
  BY <1>2 DEF SamplesInv
<1>4. PositionsInv /\ GapsInv
  BY <1>2 DEF PositionsInv, GapsInv
<1>5. WireInv
  BY <1>2 DEF WireInv
<1>6. RunsInv
  BY <1>2 DEF RunsInv
<1>7. QED
  BY <1>1, <1>3, <1>4, <1>5, <1>6 DEF RingInvariant

LEMMA InvStep ==
  ASSUME RingAssumption, U32MaxAssumption, RingInvariant, [Next]_vars
  PROVE  RingInvariant'
<1>1. TypeOK /\ TypeOK'
  BY TypeStep DEF RingInvariant
<1>2. /\ SamplesInv' /\ PositionsInv' /\ GapsInv'
      /\ Capacity > 0 => WireInv'
      /\ Exact' => RunsInv'
  <2>1. CASE Push
    BY <2>1, PushStep
  <2>2. CASE Drop
    BY <2>2, DropStep
  <2>3. CASE \E max \in Budgets : StartDrain(max)
    BY <2>3, QuietStep DEF StartDrain
  <2>4. CASE DrainGap
    BY <2>4, DrainGapStep
  <2>5. CASE RefuseGap
    BY <2>5, QuietStep DEF RefuseGap
  <2>6. CASE DrainSample
    BY <2>6, PopStep DEF DrainSample
  <2>7. CASE RefuseSample
    BY <2>7, PopStep DEF RefuseSample
  <2>8. CASE DrainEmpty
    BY <2>8, QuietStep DEF DrainEmpty
  <2>9. CASE UNCHANGED vars
    BY <2>9, QuietStep DEF vars
  <2>10. QED
    BY <2>1, <2>2, <2>3, <2>4, <2>5, <2>6, <2>7, <2>8, <2>9
       DEF Next, DrainStep
<1>3. QED
  BY <1>1, <1>2 DEF RingInvariant

\* The invariant of the ring and its drain: the two buffers are views of one
\* chronological list of samples and losses, ring.c and telemetry.c:107-142.
THEOREM RingInvariantHolds == Spec => []RingInvariant
<1>1. Init => RingInvariant
  BY InvInit, RingAssumption
<1>2. RingInvariant /\ [Next]_vars => RingInvariant'
  BY InvStep, RingAssumption, U32MaxAssumption
<1>3. QED
  BY <1>1, <1>2, PTL DEF Spec

-----------------------------------------------------------------------------
(* What the invariant gives.                                               *)

\* Gap records stand at distinct positions of the window of buffered samples,
\* so a full gap buffer with none at the newest position is at most Capacity
\* long.
LEMMA MergeNeedsAShortBuffer ==
  ASSUME RingAssumption, RingInvariant, LocateByMerging
  PROVE  GapCapacity <= Capacity
<1>1. /\ gapCount \in Nat /\ count \in Nat
      /\ pushedTotal \in Nat /\ poppedTotal \in Nat
      /\ GapCapacity \in Nat /\ Capacity \in Nat
  BY InvTypes, RingAssumption DEF RingAssumption
<1>2. gapCount = GapCapacity /\ GapCapacity > 0 /\ ~SameRun
  BY DEF LocateByMerging
<1>3. PICK last \in Nat : last = gapCount - 1
  BY <1>1, <1>2
<1>4. 0 \in Gaps0 /\ last \in Gaps0 /\ 0 <= last
  BY <1>1, <1>2, <1>3 DEF Gaps0
<1>5. /\ Position(0) \in poppedTotal .. pushedTotal
      /\ Position(last) \in poppedTotal .. pushedTotal
      /\ Position(last) - Position(0) >= last - 0
  BY <1>4 DEF RingInvariant, PositionsInv
<1>6. Position(last) # pushedTotal
  BY <1>1, <1>2, <1>3 DEF SameRun, Position
<1>7. pushedTotal = poppedTotal + count /\ count <= Capacity
  BY <1>1 DEF RingInvariant, SamplesInv, TypeOK
<1>8. QED
  BY <1>1, <1>2, <1>3, <1>5, <1>6, <1>7

\* A gap buffer larger than the sample buffer never merges two losses, as
\* ring.h promises its callers (ring.c:43-51 is then never reached).
THEOREM NeverMerges == Spec => []NoMerge
<1>1. Init => NoMerge
  BY DEF Init, NoMerge
<1>2. RingInvariant /\ NoMerge /\ [Next]_vars => NoMerge'
  <2>1. SUFFICES ASSUME RingInvariant, NoMerge, [Next]_vars,
                        GapCapacity > Capacity
                 PROVE  gapMerged' = 0
    BY DEF NoMerge
  <2>2. gapMerged = 0
    BY <2>1 DEF NoMerge
  <2>3. gapMerged' = gapMerged \/ (Drop /\ LocateByMerging)
    BY <2>1 DEF Next, DrainStep, Push, Drop, RecordDrop, StartDrain, DrainGap,
                RefuseGap, DrainSample, RefuseSample, DrainEmpty, vars,
                gapVars, LocateNowhere, LocateInNewest, LocateInNewRecord
  <2>4. ~LocateByMerging
    BY <2>1, MergeNeedsAShortBuffer, RingAssumption DEF RingAssumption
  <2>5. QED
    BY <2>2, <2>3, <2>4
<1>3. QED
  BY <1>1, <1>2, RingInvariantHolds, PTL DEF Spec

\* No loss is destroyed or displaced by a sink that refuses, for every
\* capacity and every schedule of drains.
THEOREM LossesAreLocated == Spec => []LossLocated
<1>1. RingInvariant => LossLocated
  <2>1. SUFFICES ASSUME RingInvariant, Exact
                 PROVE  /\ \A id \in (0 .. offered - 1) \ kept :
                             \E g \in ReportedGaps : id \in LostIds(g)
                        /\ \A g \in ReportedGaps :
                             LostIds(g) \subseteq (0 .. offered - 1) \ kept
    BY DEF LossLocated, Exact
  <2>2. RunsInv
    BY <2>1 DEF RingInvariant
  <2>3. /\ \A i \in Gaps0 : GapAt(i) \in ReportedGaps
        /\ \A k \in SentGaps : wire[k] \in ReportedGaps
        /\ \A g \in ReportedGaps : \/ \E i \in Gaps0 : g = GapAt(i)
                                   \/ \E k \in SentGaps : g = wire[k]
    BY DEF ReportedGaps, PendingGaps, WireGaps, Gaps0, SentGaps
  <2>4. QED
    BY <2>2, <2>3 DEF RunsInv, Lost
<1>2. QED
  BY <1>1, RingInvariantHolds, PTL

\* The sink sees samples and losses in the order the transactions ran, merged
\* or not.
THEOREM WireInOrder == Spec => []WireChronological
<1>1. RingInvariant => WireChronological
  BY DEF RingInvariant, WireInv, WireChronological
<1>2. QED
  BY <1>1, RingInvariantHolds, PTL

-----------------------------------------------------------------------------
(* Losses are conserved: a set has a pair for every loss that a record     *)
(* counts, so that sums are cardinalities.                                 *)

\* One to one, as many.
LEMMA OneToOne ==
  ASSUME NEW S, NEW T, IsFiniteSet(S), NEW f \in [S -> T],
         \A x, y \in S : f[x] = f[y] => x = y, \A z \in T : \E x \in S : f[x] = z
  PROVE  IsFiniteSet(T) /\ Cardinality(T) = Cardinality(S)
PROOF
  <1>1. f \in Bijection(S, T)
    BY DEF Bijection, Injection, Surjection, IsInjective
  <1> QED BY <1>1, FS_Bijection DEF ExistsBijection

\* The gap records and their counts are naturals.
LEMMA GapCounts ==
  ASSUME RingAssumption, TypeOK
  PROVE  /\ gapCount \in Nat /\ GapCapacity \in Nat
         /\ \A i \in Gaps0 : i \in Nat /\ GapAt(i).lost \in Nat
         /\ \A i, n : <<i, n>> \in PendingLosses <=>
                        i \in Gaps0 /\ n \in 1 .. GapAt(i).lost
PROOF
  <1>1. gapCount \in 0 .. GapCapacity /\ GapCapacity \in Nat
    BY DEF TypeOK, RingAssumption
  <1>2. ASSUME NEW i \in Gaps0 PROVE i \in Nat /\ GapAt(i).lost \in Nat
    <2>1. i \in Nat /\ GapCapacity > 0
      BY <1>1 DEF Gaps0
    <2> QED BY <2>1, CellTypes DEF GapRecord
  <1> QED BY <1>1, <1>2 DEF PendingLosses, Gaps0

LEMMA KeptIsFinite ==
  ASSUME TypeOK, RingAssumption
  PROVE  IsFiniteSet(kept) /\ Cardinality(kept) \in Nat /\ offered \in Nat
PROOF
  <1>1. offered \in Nat
    BY DEF TypeOK, RingAssumption
  <1>2. kept \in SUBSET (0 .. offered - 1)
    BY DEF TypeOK
  <1>3. IsFiniteSet(0 .. offered - 1)
    <2>1. 0 \in Int /\ offered - 1 \in Int
      BY <1>1
    <2> QED BY <2>1, FS_Interval
  <1> QED BY <1>1, <1>2, <1>3, FS_Subset, FS_CardinalityType

\* A pending record counts no more than the losses there were.
LEMMA LossesAreFew ==
  ASSUME RingAssumption, TypeOK, LossInv, NEW i \in Gaps0
  PROVE  GapAt(i).lost <= producerDrop /\ producerDrop <= offered
PROOF
  <1>1. /\ GapAt(i).lost \in Nat /\ GapCapacity > 0 /\ offered \in Nat
        /\ {i} \X (1 .. GapAt(i).lost) \subseteq PendingLosses
    BY GapCounts DEF PendingLosses, Gaps0, TypeOK, RingAssumption
  <1>2. Cardinality({i} \X (1 .. GapAt(i).lost)) = GapAt(i).lost
    BY <1>1, PairsOf
  <1>3. /\ Cardinality(PendingLosses) \in Nat /\ Cardinality(ReportedLosses) \in Nat
        /\ GapAt(i).lost <= Cardinality(PendingLosses)
    BY <1>1, <1>2, FS_Subset, FS_CardinalityType DEF LossInv
  <1>4. Cardinality(kept) \in Nat
    BY KeptIsFinite
  <1> QED BY <1>1, <1>3, <1>4 DEF LossInv, LossConserved

\* What does not touch the gaps, the wire, the counter or the transactions.
LEMMA LossesUntouched ==
  ASSUME LossInv, UNCHANGED <<gapVars, producerDrop, offered, kept, wire>>
  PROVE  LossInv'
PROOF
  <1>1. PendingLosses' = PendingLosses
    BY DEF PendingLosses, GapAt, GapIndex, gapVars
  <1>2. ReportedLosses' = ReportedLosses
    BY DEF ReportedLosses
  <1> QED BY <1>1, <1>2 DEF LossInv, LossConserved

\* A sample sent is not a loss.
LEMMA SampleSentIsNoLoss ==
  ASSUME TypeOK, NEW r, wire' = Append(wire, r), r.kind = "sample", r \in Record
  PROVE  ReportedLosses' = ReportedLosses
PROOF
  <1> DEFINE n == Len(wire)
  <1>1. /\ n \in Nat /\ Len(wire') = n + 1
        /\ \A k \in 1 .. n : wire'[k] = wire[k]
        /\ wire'[n + 1] = r
    BY DEF TypeOK
  <1>2. {j \in 1 .. Len(wire') : wire'[j].kind = "gap"} = {j \in 1 .. n : wire[j].kind = "gap"}
    BY <1>1
  <1> HIDE DEF n
  <1> QED BY <1>1, <1>2 DEF ReportedLosses, n

LEMMA GapSentIsReported ==
  ASSUME TypeOK, NEW r, wire' = Append(wire, r), r.kind = "gap", r \in Record
  PROVE  /\ ReportedLosses' = ReportedLosses \cup ({Len(wire) + 1} \X (1 .. r.lost))
         /\ ReportedLosses \cap ({Len(wire) + 1} \X (1 .. r.lost)) = {}
PROOF
  <1> DEFINE n == Len(wire)
             S == {j \in 1 .. n : wire[j].kind = "gap"}
  <1>1. /\ n \in Nat /\ Len(wire') = n + 1
        /\ \A k \in 1 .. n : wire'[k] = wire[k]
        /\ wire'[n + 1] = r
    BY DEF TypeOK
  <1>2. /\ {j \in 1 .. Len(wire') : wire'[j].kind = "gap"} = S \cup {n + 1}
        /\ \A j \in S : wire'[j] = wire[j] /\ j # n + 1
    BY <1>1
  <1>3. ReportedLosses = UNION {{k} \X (1 .. wire[k].lost) : k \in S}
    BY DEF ReportedLosses
  <1>4. ReportedLosses' = UNION {{k} \X (1 .. wire'[k].lost) : k \in S \cup {n + 1}}
    BY <1>2 DEF ReportedLosses
  <1> HIDE DEF n, S
  <1>5. ReportedLosses' = ReportedLosses \cup ({n + 1} \X (1 .. r.lost))
    BY <1>1, <1>2, <1>3, <1>4
  <1>6. ReportedLosses \cap ({n + 1} \X (1 .. r.lost)) = {}
    BY <1>2, <1>3
  <1> QED BY <1>5, <1>6 DEF n

\* One more loss is pending in the newest record, or in a new one.
LEMMA LossIsPending ==
  ASSUME RingAssumption, U32MaxAssumption, TypeOK, LossInv, Drop, GapCapacity > 0
  PROVE  /\ IsFiniteSet(PendingLosses')
         /\ Cardinality(PendingLosses') = Cardinality(PendingLosses) + 1
PROOF
  <1>1. offered < MaxOffered /\ MaxOffered <= U32Max /\ producerDrop \in Nat
        /\ offered \in Nat /\ U32Max \in Nat /\ MaxOffered \in Nat
    BY U32MaxAssumption DEF Drop, RingAssumption, TypeOK
  <1>2. \A i, n : <<i, n>> \in PendingLosses' <=>
                    i \in 0 .. gapCount' - 1 /\ n \in 1 .. GapAt(i)'.lost
    BY DEF PendingLosses
  <1>3. SUFFICES \E e : e \notin PendingLosses /\ PendingLosses' = PendingLosses \cup {e}
    BY <1>3, FS_AddElement DEF LossInv
  <1>4. ASSUME gapCount > 0, ExtendNewestGap, gapHead' = gapHead, gapCount' = gapCount
        PROVE  \E e : e \notin PendingLosses /\ PendingLosses' = PendingLosses \cup {e}
    <2> DEFINE last == gapCount - 1
    <2>1. last \in Gaps0 /\ last \in Nat
      BY <1>4, GapCounts DEF Gaps0
    <2>2. PICK m \in Nat : m = GapAt(last).lost /\ m < U32Max
      BY <1>1, <2>1, GapCounts, LossesAreFew
    <2>3. \A i \in Gaps0 : GapAt(i)'.lost = IF i = last THEN m + 1 ELSE GapAt(i).lost
      BY <1>4, <2>2, ExtendView DEF SatInc
    <2> HIDE DEF last
    <2>4. <<last, m + 1>> \notin PendingLosses
      BY <2>1, <2>2, GapCounts
    <2>5. ASSUME NEW i, NEW n
          PROVE  <<i, n>> \in PendingLosses' <=>
                   <<i, n>> \in PendingLosses \/ <<i, n>> = <<last, m + 1>>
      <3>1. CASE i \in Gaps0 /\ i # last
        BY <1>2, <1>4, <2>3, <3>1, GapCounts DEF Gaps0
      <3>2. CASE i = last
        <4>1. GapAt(i)'.lost = m + 1 /\ GapAt(i).lost = m /\ i \in Gaps0
          BY <2>1, <2>2, <2>3, <3>2
        <4>2. <<i, n>> \in PendingLosses' <=> n \in 1 .. m + 1
          BY <1>2, <1>4, <4>1 DEF Gaps0
        <4>3. <<i, n>> \in PendingLosses <=> n \in 1 .. m
          BY <4>1, GapCounts
        <4> QED BY <2>2, <3>2, <4>2, <4>3
      <3>3. CASE i \notin Gaps0
        BY <1>2, <1>4, <2>1, <3>3, GapCounts DEF Gaps0
      <3> QED BY <3>1, <3>2, <3>3
    <2>6. PendingLosses' = PendingLosses \cup {<<last, m + 1>>}
      <3>1. \A x \in PendingLosses' : x = <<x[1], x[2]>>
        BY DEF PendingLosses
      <3>2. \A x \in PendingLosses : x = <<x[1], x[2]>>
        BY DEF PendingLosses
      <3>3. \A x \in PendingLosses' : x \in PendingLosses \/ x = <<last, m + 1>>
        BY <2>5, <3>1
      <3>4. \A x \in PendingLosses : x \in PendingLosses'
        BY <2>5, <3>2
      <3> QED BY <2>5, <3>3, <3>4
    <2> QED BY <2>4, <2>6
  <1>5. ASSUME LocateInNewRecord
        PROVE  \E e : e \notin PendingLosses /\ PendingLosses' = PendingLosses \cup {e}
    <2>1. PICK g \in Nat : g = gapCount
      BY GapCounts
    <2>2. /\ gapCount' = g + 1
          /\ \A i \in 0 .. g : GapAt(i)'.lost = IF i < g THEN GapAt(i).lost ELSE 1
      BY <1>5, <2>1, AppendView DEF LocateInNewRecord
    <2>3. 0 .. gapCount' - 1 = (0 .. g - 1) \cup {g} /\ g \notin 0 .. g - 1
      BY <2>1, <2>2
    <2>4. PendingLosses' = UNION {{i} \X (1 .. GapAt(i)'.lost) : i \in (0 .. g - 1) \cup {g}}
      BY <2>3 DEF PendingLosses
    <2>5. PendingLosses = UNION {{i} \X (1 .. GapAt(i).lost) : i \in 0 .. g - 1}
      BY <2>1 DEF PendingLosses
    <2>6. GapAt(g)'.lost = 1 /\ \A i \in 0 .. g - 1 : GapAt(i)'.lost = GapAt(i).lost
      BY <2>2
    <2>7. PendingLosses' = PendingLosses \cup {<<g, 1>>}
      <3>1. PendingLosses' = PendingLosses \cup ({g} \X (1 .. 1))
        BY <2>4, <2>5, <2>6
      <3>2. {g} \X (1 .. 1) = {<<g, 1>>}
        OBVIOUS
      <3> QED BY <3>1, <3>2
    <2>8. <<g, 1>> \notin PendingLosses
      BY <2>3, <2>5
    <2> QED BY <2>7, <2>8
  <1> QED BY <1>4, <1>5, GapCounts
       DEF Drop, RecordDrop, LocateNowhere, LocateInNewest, LocateByMerging, SameRun

LEMMA DropConserves ==
  ASSUME RingAssumption, U32MaxAssumption, TypeOK, LossInv, Drop
  PROVE  LossInv'
PROOF
  <1>1. /\ offered < MaxOffered /\ MaxOffered <= U32Max /\ producerDrop \in Nat
        /\ U32Max \in Nat /\ MaxOffered \in Nat
        /\ offered' = offered + 1 /\ kept' = kept /\ wire' = wire
        /\ producerDrop' = SatInc(producerDrop)
    BY U32MaxAssumption DEF Drop, RecordDrop, RingAssumption, TypeOK
  <1>2. /\ producerDrop = offered - Cardinality(kept)
        /\ Cardinality(kept) \in Nat /\ offered \in Nat
    BY KeptIsFinite DEF LossInv, LossConserved
  <1>3. producerDrop' = producerDrop + 1
    BY <1>1, <1>2 DEF SatInc
  <1>4. ReportedLosses' = ReportedLosses
    BY <1>1 DEF ReportedLosses
  <1>5. CASE GapCapacity > 0
    <2>1. /\ IsFiniteSet(PendingLosses')
          /\ Cardinality(PendingLosses') = Cardinality(PendingLosses) + 1
      BY <1>5, LossIsPending
    <2>2. /\ Cardinality(PendingLosses) \in Nat /\ Cardinality(ReportedLosses) \in Nat
          /\ producerDrop = Cardinality(PendingLosses) + Cardinality(ReportedLosses)
      BY <1>5, FS_CardinalityType DEF LossInv, LossConserved
    <2> QED BY <1>1, <1>2, <1>3, <1>4, <2>1, <2>2 DEF LossInv, LossConserved
  <1>6. CASE ~(GapCapacity > 0)
    <2>1. LocateNowhere
      BY <1>6 DEF Drop, RecordDrop, LocateInNewest, LocateByMerging, LocateInNewRecord
    <2>2. PendingLosses' = PendingLosses
      BY <2>1 DEF LocateNowhere, PendingLosses, GapAt, GapIndex, gapVars
    <2> QED BY <1>1, <1>2, <1>3, <1>4, <1>6, <2>2 DEF LossInv, LossConserved
  <1> QED BY <1>5, <1>6

LEMMA PushConserves ==
  ASSUME RingAssumption, TypeOK, LossInv, Push
  PROVE  LossInv'
PROOF
  <1>1. /\ offered' = offered + 1 /\ kept' = kept \cup {offered}
        /\ UNCHANGED <<gapVars, producerDrop, wire>>
    BY DEF Push
  <1>2. /\ producerDrop = offered - Cardinality(kept)
        /\ IsFiniteSet(kept) /\ Cardinality(kept) \in Nat /\ offered \in Nat
    BY KeptIsFinite DEF LossInv, LossConserved
  <1>3. offered \notin kept
    BY <1>2 DEF TypeOK
  <1>4. Cardinality(kept') = Cardinality(kept) + 1
    BY <1>1, <1>2, <1>3, FS_AddElement
  <1>5. PendingLosses' = PendingLosses
    BY <1>1 DEF PendingLosses, GapAt, GapIndex, gapVars
  <1>6. ReportedLosses' = ReportedLosses
    BY <1>1 DEF ReportedLosses
  <1> QED BY <1>1, <1>2, <1>4, <1>5, <1>6 DEF LossInv, LossConserved

\* A record that is sent takes its losses along.
LEMMA GapConserves ==
  ASSUME RingAssumption, TypeOK, LossInv, DrainGap
  PROVE  LossInv'
PROOF
  <1>1. /\ gapCount > 0 /\ gapCount \in Nat /\ GapCapacity > 0 /\ 0 \in Gaps0
        /\ gapCount' = gapCount - 1 /\ UNCHANGED <<producerDrop, offered, kept>>
        /\ \A i \in 0 .. gapCount - 2 : GapAt(i)' = GapAt(i + 1)
    BY CommitView DEF DrainGap, GapDue, TypeOK, RingAssumption, Gaps0
  <1>2. PICK n \in Nat : n = GapAt(0).lost
    BY <1>1, GapCounts
  <1>3. PICK r : r = Gap(GapAt(0).lost, GapAt(0).after)
    OBVIOUS
  <1>4. r \in Record /\ r.kind = "gap" /\ r.lost = n /\ wire' = Append(wire, r)
    <2>1. GapAt(0) \in GapRecord
      BY <1>1, CellTypes
    <2> QED BY <1>2, <1>3, <2>1 DEF DrainGap, Gap, Record, GapRecord
  <1> DEFINE k == Len(wire) + 1
             P == PendingLosses
             sent == {0} \X (1 .. n)
             f == [x \in P \ sent |-> <<x[1] - 1, x[2]>>]
  <1>5. /\ ReportedLosses' = ReportedLosses \cup ({k} \X (1 .. n))
        /\ ReportedLosses \cap ({k} \X (1 .. n)) = {}
    BY <1>4, GapSentIsReported
  <1>6. sent \subseteq P
    BY <1>1, <1>2 DEF PendingLosses, Gaps0
  <1>7. /\ IsFiniteSet(P \ sent)
        /\ Cardinality(P \ sent) = Cardinality(P) - n
        /\ Cardinality(P) \in Nat
    <2>1. P \cap sent = sent
      BY <1>6
    <2>2. Cardinality(P \cap sent) = n
      BY <2>1, PairsOf
    <2> HIDE DEF sent, P
    <2> QED BY <2>2, FS_Difference, FS_CardinalityType DEF LossInv, P
  <1>8. ASSUME NEW x \in P \ sent
        PROVE  /\ x = <<x[1], x[2]>> /\ x[1] \in 1 .. gapCount - 1
               /\ x[2] \in 1 .. GapAt(x[1]).lost
    <2>1. /\ x = <<x[1], x[2]>> /\ x[1] \in Gaps0 /\ x[2] \in 1 .. GapAt(x[1]).lost
      BY DEF PendingLosses, Gaps0
    <2>2. x[1] # 0
      BY <1>2, <2>1
    <2> QED BY <1>1, <2>1, <2>2 DEF Gaps0
  <1>9. /\ IsFiniteSet(PendingLosses')
        /\ Cardinality(PendingLosses') = Cardinality(P \ sent)
    <2>1. \A x \in P \ sent : f[x] \in PendingLosses'
      <3> TAKE x \in P \ sent
      <3>1. PICK i, l : x = <<i, l>> /\ i = x[1] /\ l = x[2]
                        /\ i \in 1 .. gapCount - 1 /\ l \in 1 .. GapAt(i).lost
        BY <1>8
      <3>2. i - 1 \in 0 .. gapCount - 2 /\ (i - 1) + 1 = i
        BY <1>1, <3>1
      <3>3. GapAt(i - 1)' = GapAt(i) /\ i - 1 \in 0 .. gapCount' - 1
        BY <1>1, <3>2
      <3>4. <<i - 1, l>> \in PendingLosses'
        BY <3>1, <3>3 DEF PendingLosses
      <3> QED BY <3>1, <3>4
    <2>2. \A x, y \in P \ sent : f[x] = f[y] => x = y
      <3> SUFFICES ASSUME NEW x \in P \ sent, NEW y \in P \ sent, f[x] = f[y]
                   PROVE  x = y
        OBVIOUS
      <3>1. x[1] - 1 = y[1] - 1 /\ x[2] = y[2]
        OBVIOUS
      <3>2. x[1] = y[1]
        BY <1>8, <3>1
      <3> HIDE DEF f
      <3> QED BY <1>8, <3>1, <3>2
    <2>3. ASSUME NEW z \in PendingLosses'
          PROVE  \E x \in P \ sent : f[x] = z
      <3>1. PICK i, l : z = <<i, l>> /\ i \in 0 .. gapCount' - 1 /\ l \in 1 .. GapAt(i)'.lost
        BY DEF PendingLosses
      <3>2. i \in 0 .. gapCount - 2 /\ i + 1 \in Gaps0 /\ i + 1 # 0 /\ (i + 1) - 1 = i
        BY <1>1, <3>1 DEF Gaps0
      <3>3. <<i + 1, l>> \in P \ sent
        BY <1>1, <3>1, <3>2 DEF PendingLosses, Gaps0
      <3>4. f[<<i + 1, l>>] = <<i, l>>
        BY <3>2, <3>3
      <3> QED BY <3>1, <3>3, <3>4
    <2>4. f \in [P \ sent -> PendingLosses']
      BY <2>1
    <2> HIDE DEF f
    <2> QED BY <1>7, <2>2, <2>3, <2>4, OneToOne
  <1> HIDE DEF f, sent
  <1>10. IsFiniteSet(PendingLosses') /\ Cardinality(PendingLosses') = Cardinality(P) - n
    BY <1>7, <1>9
  <1>11. /\ IsFiniteSet(ReportedLosses')
         /\ Cardinality(ReportedLosses') = Cardinality(ReportedLosses) + n
         /\ Cardinality(ReportedLosses) \in Nat
    <2>1. /\ IsFiniteSet({k} \X (1 .. n)) /\ Cardinality({k} \X (1 .. n)) = n
          /\ Cardinality({}) = 0
      BY PairsOf, FS_EmptySet
    <2> HIDE DEF k
    <2>2. PICK S, T : S = ReportedLosses /\ T = {k} \X (1 .. n)
      OBVIOUS
    <2>3. /\ IsFiniteSet(S) /\ IsFiniteSet(T) /\ Cardinality(T) = n
          /\ Cardinality(S) \in Nat /\ S \cap T = {} /\ ReportedLosses' = S \cup T
      BY <1>5, <2>1, <2>2, FS_CardinalityType DEF LossInv
    <2>4. /\ IsFiniteSet(S \cup T)
          /\ Cardinality(S \cup T) = Cardinality(S) + Cardinality(T) - Cardinality(S \cap T)
      BY <2>3, FS_Union
    <2>5. Cardinality(S \cap T) = 0
      BY <2>1, <2>3
    <2>6. IsFiniteSet(ReportedLosses') /\ Cardinality(ReportedLosses') = Cardinality(S) + n
      BY <2>3, <2>4, <2>5
    <2> QED BY <2>2, <2>3, <2>6
  <1>12. producerDrop = Cardinality(P) + Cardinality(ReportedLosses)
    BY <1>1 DEF LossInv, LossConserved
  <1> QED BY <1>1, <1>7, <1>10, <1>11, <1>12 DEF LossInv, LossConserved

LEMMA LossesStart == ASSUME RingAssumption, Init PROVE LossInv
PROOF
  <1>1. PendingLosses = {}
    BY DEF Init, PendingLosses
  <1>2. ReportedLosses = {}
    BY DEF Init, ReportedLosses
  <1> QED BY <1>1, <1>2, FS_EmptySet DEF Init, LossInv, LossConserved

LEMMA LossesStay ==
  ASSUME RingAssumption, U32MaxAssumption, TypeOK, LossInv, [Next]_vars
  PROVE  LossInv'
PROOF
  <1>1. CASE Push
    BY <1>1, PushConserves
  <1>2. CASE Drop
    BY <1>2, DropConserves
  <1>3. CASE DrainGap
    BY <1>3, GapConserves
  <1>4. CASE DrainSample
    <2>1. Capacity > 0
      BY <1>4 DEF DrainSample, Pop, TypeOK, RingAssumption
    <2>2. Sample(SampleAt(0)) \in Record /\ Sample(SampleAt(0)).kind = "sample"
      BY <2>1, CellTypes DEF Sample, Record
    <2>3. ReportedLosses' = ReportedLosses
      BY <1>4, <2>2, SampleSentIsNoLoss DEF DrainSample
    <2>4. PendingLosses' = PendingLosses /\ UNCHANGED <<producerDrop, offered, kept>>
      BY <1>4 DEF DrainSample, PendingLosses, GapAt, GapIndex, gapVars
    <2> QED BY <2>3, <2>4 DEF LossInv, LossConserved
  <1>5. ASSUME UNCHANGED <<gapVars, producerDrop, offered, kept, wire>> PROVE LossInv'
    BY <1>5, LossesUntouched
  <1> QED BY <1>1, <1>2, <1>3, <1>4, <1>5
       DEF Next, DrainStep, StartDrain, RefuseGap, RefuseSample, DrainEmpty, vars

\* The ring loses nothing silently (ring.h:23-24, 65-67): what it did not keep
\* it counts, and with gap memory each loss counted is in one gap record, waiting
\* or sent, merged or not.
THEOREM LossesAreCounted == Spec => []LossConserved
PROOF
  <1>1. Init => LossInv
    BY LossesStart, RingAssumption
  <1>2. TypeOK /\ LossInv /\ [Next]_vars => LossInv'
    BY LossesStay, RingAssumption, U32MaxAssumption
  <1>3. LossInv => LossConserved
    BY DEF LossInv
  <1> QED BY TypeCorrect, <1>1, <1>2, <1>3, PTL DEF Spec

-----------------------------------------------------------------------------
(* Records in chronological order.                                         *)

LEMMA RecordIds ==
  ASSUME U32MaxAssumption, NEW r \in Record
  PROVE  FirstId(r) \in Nat /\ r.kind \in {"sample", "gap"}
  BY U32MaxAssumption DEF Record, FirstId, FollowingId, NoSeq

LEMMA OrderedList ==
  ASSUME U32MaxAssumption, NEW S, NEW s, Ordered(s, S)
  PROVE  /\ Len(s) \in Nat /\ s \in [1 .. Len(s) -> S]
         /\ \A k \in 1 .. Len(s) : s[k] \in S /\ FirstId(s[k]) \in Nat
         /\ \A j, k \in 1 .. Len(s) : s[j] = s[k] => j = k
PROOF
  <1>1. Len(s) \in Nat /\ s \in [1 .. Len(s) -> S]
    BY DEF Ordered
  <1>2. \A k \in 1 .. Len(s) : s[k] \in S
    BY <1>1
  <1>3. \A k \in 1 .. Len(s) : s[k] \in Record
    BY <1>2 DEF Ordered
  <1>4. \A k \in 1 .. Len(s) : FirstId(s[k]) \in Nat
    BY <1>3, RecordIds
  <1>5. ASSUME NEW j \in 1 .. Len(s), NEW k \in 1 .. Len(s), s[j] = s[k], j # k
        PROVE  FALSE
    <2>1. j < k \/ k < j
      BY <1>1, <1>5
    <2>2. FirstId(s[j]) < FirstId(s[k]) \/ FirstId(s[k]) < FirstId(s[j])
      BY <2>1 DEF Ordered
    <2>3. PICK a \in Nat : a = FirstId(s[k])
      BY <1>4
    <2> QED BY <1>5, <2>2, <2>3
  <1> QED BY <1>1, <1>2, <1>4, <1>5

\* There is one such list.
LEMMA OneOrder ==
  ASSUME U32MaxAssumption, NEW S, NEW s, Ordered(s, S)
  PROVE  Chronological(S) = s
PROOF
  <1> DEFINE n == Len(s)
             Before(r) == {q \in S : FirstId(q) < FirstId(r)}
  <1>1. /\ n \in Nat /\ \A k \in 1 .. n : s[k] \in S /\ FirstId(s[k]) \in Nat
        /\ s = [k \in 1 .. n |-> s[k]]
    BY OrderedList
  <1>2. \A j, k \in 1 .. n : s[j] = s[k] => j = k
    BY OrderedList
  <1>3. ASSUME NEW m \in 0 .. n
        PROVE  Cardinality({s[j] : j \in 1 .. m}) = m
    <2> DEFINE T == {s[j] : j \in 1 .. m}
               f == [j \in 1 .. m |-> s[j]]
    <2>1. \A j, k \in 1 .. m : f[j] = f[k] => j = k
      BY <1>1, <1>2
    <2>2. f \in [1 .. m -> T] /\ \A z \in T : \E j \in 1 .. m : f[j] = z
      OBVIOUS
    <2>3. IsFiniteSet(1 .. m) /\ Cardinality(1 .. m) = m
      <3>1. m \in Nat /\ 1 \in Int /\ m \in Int
        BY <1>1
      <3>2. /\ IsFiniteSet(1 .. m)
            /\ Cardinality(1 .. m) = IF 1 > m THEN 0 ELSE m - 1 + 1
        BY <3>1, FS_Interval
      <3> QED BY <3>1, <3>2
    <2> HIDE DEF f, T
    <2>4. Cardinality(T) = m
      BY <2>1, <2>2, <2>3, OneToOne
    <2> QED BY <2>4 DEF T
  <1>4. Cardinality(S) = n
    <2>1. S = {s[j] : j \in 1 .. n}
      BY <1>1 DEF Ordered
    <2>2. n \in 0 .. n
      BY <1>1
    <2> HIDE DEF n
    <2> QED BY <1>3, <2>1, <2>2
  <1>5. ASSUME NEW k \in 1 .. n PROVE Cardinality(Before(s[k])) = k - 1
    <2>1. Before(s[k]) = {s[j] : j \in 1 .. k - 1}
      <3>1. \A j \in 1 .. n : FirstId(s[j]) < FirstId(s[k]) <=> j < k
        BY <1>1 DEF Ordered
      <3>2. \A q \in S : \E j \in 1 .. n : q = s[j]
        BY DEF Ordered
      <3>3. \A j \in 1 .. k - 1 : j \in 1 .. n /\ j < k
        BY <1>1
      <3>4. \A j \in 1 .. n : j < k => j \in 1 .. k - 1
        BY <1>1
      <3> HIDE DEF n
      <3> QED BY <1>1, <3>1, <3>2, <3>3, <3>4
    <2>2. k - 1 \in 0 .. n
      BY <1>1
    <2> HIDE DEF n, Before
    <2> QED BY <1>3, <2>1, <2>2
  <1>6. ASSUME NEW k \in 1 .. n
        PROVE  (CHOOSE r \in S : Cardinality(Before(r)) = k - 1) = s[k]
    <2>1. s[k] \in S /\ Cardinality(Before(s[k])) = k - 1
      BY <1>1, <1>5
    <2>2. ASSUME NEW r \in S, Cardinality(Before(r)) = k - 1 PROVE r = s[k]
      <3>1. PICK j \in 1 .. n : r = s[j]
        BY DEF Ordered
      <3>2. j - 1 = k - 1
        <4> HIDE DEF n, Before
        <4> QED BY <1>5, <2>2, <3>1
      <3> QED BY <1>1, <3>1, <3>2
    <2> HIDE DEF Before
    <2> QED BY <2>1, <2>2
  <1>7. Chronological(S) = [k \in 1 .. n |-> s[k]]
    <2>1. Chronological(S) =
            [k \in 1 .. n |-> CHOOSE r \in S : Cardinality(Before(r)) = k - 1]
      BY <1>4 DEF Chronological
    <2> HIDE DEF n, Before
    <2> QED BY <1>6, <2>1
  <1> QED BY <1>1, <1>7

\* A record later than all ends the list.
LEMMA LaterRecord ==
  ASSUME U32MaxAssumption, NEW S, NEW s, Ordered(s, S), NEW r \in Record,
         \A q \in S : FirstId(q) < FirstId(r)
  PROVE  Ordered(Append(s, r), S \cup {r})
PROOF
  <1> DEFINE n == Len(s)
             t == Append(s, r)
  <1>1. /\ n \in Nat /\ Len(t) = n + 1 /\ t \in Seq(S \cup {r})
        /\ \A k \in 1 .. n : t[k] = s[k] /\ s[k] \in S
        /\ t[n + 1] = r
    BY DEF Ordered
  <1>2. S \cup {r} \subseteq Record
    BY DEF Ordered
  <1>3. \A q \in S \cup {r} : \E k \in 1 .. Len(t) : t[k] = q
    <2>1. \A k \in 1 .. n : k \in 1 .. Len(t)
      BY <1>1
    <2>2. n + 1 \in 1 .. Len(t)
      BY <1>1
    <2> HIDE DEF t
    <2> QED BY <1>1, <2>1, <2>2 DEF Ordered
  <1>4. ASSUME NEW j \in 1 .. Len(t), NEW k \in 1 .. Len(t), j < k
        PROVE  FirstId(t[j]) < FirstId(t[k])
    <2>1. j \in 1 .. n
      BY <1>1, <1>4
    <2>2. k \in 1 .. n \/ k = n + 1
      BY <1>1
    <2> HIDE DEF t
    <2> QED BY <1>1, <1>4, <2>1, <2>2 DEF Ordered
  <1> QED BY <1>1, <1>2, <1>3, <1>4 DEF Ordered

\* The earliest record is the head of the list.
LEMMA EarliestRecord ==
  ASSUME U32MaxAssumption, NEW S, NEW s, Ordered(s, S), NEW r \in S,
         \A q \in S \ {r} : FirstId(r) < FirstId(q)
  PROVE  s # <<>> /\ Head(s) = r /\ Ordered(Tail(s), S \ {r})
PROOF
  <1> DEFINE n == Len(s)
             t == Tail(s)
  <1>1. /\ n \in Nat
        /\ \A k \in 1 .. n : s[k] \in S /\ FirstId(s[k]) \in Nat
    BY OrderedList
  <1>2. PICK i \in 1 .. n : s[i] = r
    BY DEF Ordered
  <1>3. i = 1
    <2>1. 1 \in 1 .. n /\ (i # 1 => 1 < i)
      BY <1>1
    <2>2. i # 1 => FirstId(s[1]) < FirstId(r)
      BY <1>2, <2>1 DEF Ordered
    <2>3. s[1] # r => FirstId(r) < FirstId(s[1])
      BY <1>1, <2>1
    <2>4. FirstId(s[1]) \in Nat /\ FirstId(r) \in Nat
      BY <1>1, <1>2, <2>1
    <2> QED BY <2>2, <2>3, <2>4
  <1>4. s # <<>> /\ Head(s) = r /\ n > 0
    BY <1>1, <1>2, <1>3 DEF Ordered
  <1>5. /\ Len(t) = n - 1 /\ t \in Seq(S)
        /\ \A k \in 1 .. n - 1 : t[k] = s[k + 1] /\ k + 1 \in 1 .. n /\ k + 1 # 1
    BY <1>1, <1>4 DEF Ordered
  <1> HIDE DEF t, n
  <1>6. \A k \in 2 .. n : s[k] # r
    <2>1. \A k \in 2 .. n : k \in 1 .. n /\ 1 < k /\ 1 \in 1 .. n
      BY <1>1
    <2>2. \A k \in 2 .. n : FirstId(s[1]) < FirstId(s[k])
      BY <2>1 DEF Ordered, n
    <2> QED BY <1>1, <1>2, <1>3, <2>1, <2>2
  <1>7. t \in Seq(S \ {r})
    <2>1. \A k \in 1 .. Len(t) : t[k] \in S \ {r}
      <3>1. \A k \in 1 .. n - 1 : k + 1 \in 2 .. n
        BY <1>1
      <3> QED BY <1>1, <1>5, <1>6, <3>1
    <2>2. t = [k \in 1 .. Len(t) |-> t[k]] /\ Len(t) \in Nat
      BY <1>5
    <2>3. \A f \in [1 .. Len(t) -> S \ {r}] : f \in Seq(S \ {r})
      BY <2>2
    <2> QED BY <2>1, <2>2, <2>3
  <1>8. ASSUME NEW q \in S \ {r} PROVE \E k \in 1 .. Len(t) : t[k] = q
    <2>1. PICK k \in 1 .. n : s[k] = q
      BY DEF Ordered, n
    <2>2. k # 1
      BY <1>2, <1>3, <2>1
    <2>3. k - 1 \in 1 .. n - 1 /\ (k - 1) + 1 = k
      BY <1>1, <2>2
    <2> QED BY <1>5, <2>1, <2>3
  <1>9. ASSUME NEW j \in 1 .. Len(t), NEW k \in 1 .. Len(t), j < k
        PROVE  FirstId(t[j]) < FirstId(t[k])
    <2>1. t[j] = s[j + 1] /\ t[k] = s[k + 1] /\ j + 1 \in 1 .. n /\ k + 1 \in 1 .. n
      BY <1>5
    <2>2. j + 1 < k + 1
      BY <1>9, <1>1
    <2> QED BY <2>1, <2>2 DEF Ordered, n
  <1>10. Ordered(t, S \ {r})
    BY <1>7, <1>8, <1>9 DEF Ordered
  <1> QED BY <1>4, <1>10 DEF t

\* The latest record ends the list, and may change but for its first transaction.
LEMMA LatestRecord ==
  ASSUME U32MaxAssumption, NEW S, NEW s, Ordered(s, S), NEW r \in S,
         \A q \in S \ {r} : FirstId(q) < FirstId(r)
  PROVE  /\ s # <<>> /\ Len(s) \in 1 .. Len(s) /\ s[Len(s)] = r
         /\ \A x \in Record : FirstId(x) = FirstId(r) =>
              Ordered([s EXCEPT ![Len(s)] = x], (S \ {r}) \cup {x})
PROOF
  <1> DEFINE n == Len(s)
  <1>1. /\ n \in Nat
        /\ \A k \in 1 .. n : s[k] \in S /\ FirstId(s[k]) \in Nat
    BY OrderedList
  <1>2. PICK i \in 1 .. n : s[i] = r
    BY DEF Ordered
  <1>3. i = n
    <2>1. n \in 1 .. n /\ (i # n => i < n)
      BY <1>1
    <2>2. i # n => FirstId(r) < FirstId(s[n])
      BY <1>2, <2>1 DEF Ordered
    <2>3. s[n] # r => FirstId(s[n]) < FirstId(r)
      BY <1>1, <2>1
    <2>4. FirstId(s[n]) \in Nat /\ FirstId(r) \in Nat
      BY <1>1, <1>2, <2>1
    <2> QED BY <2>2, <2>3, <2>4
  <1>4. s # <<>> /\ n \in 1 .. n /\ s[n] = r /\ s \in Seq(S)
    BY <1>1, <1>2, <1>3 DEF Ordered
  <1>5. ASSUME NEW x \in Record, FirstId(x) = FirstId(r)
        PROVE  Ordered([s EXCEPT ![n] = x], (S \ {r}) \cup {x})
    <2> DEFINE t == [s EXCEPT ![n] = x]
               T == (S \ {r}) \cup {x}
    <2>1. /\ Len(t) = n /\ t[n] = x /\ t = [k \in 1 .. n |-> t[k]]
          /\ \A k \in 1 .. n : k # n => t[k] = s[k]
      <3>1. s \in [1 .. n -> S]
        BY OrderedList
      <3>2. DOMAIN t = 1 .. n /\ t = [k \in 1 .. n |-> t[k]]
        BY <3>1
      <3>3. Len(t) = n
        BY <1>1, <3>2
      <3> QED BY <1>4, <3>1, <3>2, <3>3
    <2> HIDE DEF t, n
    <2>2. \A k \in 1 .. n : k # n => s[k] # r
      <3>1. \A k \in 1 .. n : k # n => k < n
        BY <1>1
      <3>2. \A k \in 1 .. n : k # n => FirstId(s[k]) < FirstId(s[n])
        BY <1>4, <3>1 DEF Ordered, n
      <3> QED BY <1>1, <1>4, <3>2
    <2>3. t \in Seq(T)
      <3>1. \A k \in 1 .. n : t[k] \in T
        BY <1>1, <2>1, <2>2
      <3>2. \A f \in [1 .. n -> T] : f \in Seq(T)
        BY <1>1
      <3> HIDE DEF T
      <3> QED BY <2>1, <3>1, <3>2
    <2>4. ASSUME NEW q \in T PROVE \E k \in 1 .. n : t[k] = q
      <3>1. CASE q = x
        BY <1>4, <2>1, <3>1
      <3>2. CASE q # x
        <4>1. PICK k \in 1 .. n : s[k] = q
          BY <3>2 DEF Ordered, n
        <4>2. k # n
          BY <1>4, <3>2, <4>1
        <4> QED BY <2>1, <4>1, <4>2
      <3> QED BY <3>1, <3>2
    <2>5. ASSUME NEW j \in 1 .. n, NEW k \in 1 .. n, j < k
          PROVE  FirstId(t[j]) < FirstId(t[k])
      <3>1. FirstId(s[j]) < FirstId(s[k])
        BY <2>5 DEF Ordered, n
      <3>2. \A m \in 1 .. n : FirstId(t[m]) = FirstId(s[m])
        BY <1>4, <1>5, <2>1
      <3> QED BY <3>1, <3>2
    <2>6. T \subseteq Record
      BY DEF Ordered
    <2>7. Ordered(t, T)
      BY <2>1, <2>3, <2>4, <2>5, <2>6 DEF Ordered
    <2> QED BY <2>7 DEF t
  <1> QED BY <1>4, <1>5

-----------------------------------------------------------------------------
(* The pending records, as each step leaves them.                          *)

LEMMA PendingIs ==
  ASSUME RingAssumption, U32MaxAssumption, RingInvariant
  PROVE  /\ PendingRecords \subseteq Record
         /\ \A r : r \in PendingRecords <=>
              \/ \E i \in Slots0 : r = Sample(SampleAt(i))
              \/ \E i \in Gaps0 : r = Gap(GapAt(i).lost, GapAt(i).after)
         /\ \A i \in Slots0 : /\ Sample(SampleAt(i)) \in Record
                              /\ FirstId(Sample(SampleAt(i))) = SampleAt(i)
                              /\ SampleAt(i) \in Nat /\ i \in Nat
         /\ \A i \in Gaps0 : /\ Gap(GapAt(i).lost, GapAt(i).after) \in Record
                             /\ FirstId(Gap(GapAt(i).lost, GapAt(i).after)) = First(i)
                             /\ First(i) \in Nat /\ i \in Nat
PROOF
  <1>1. TypeOK /\ GapsInv /\ count \in 0 .. Capacity /\ gapCount \in 0 .. GapCapacity
        /\ Capacity \in Nat /\ GapCapacity \in Nat
    BY DEF RingInvariant, TypeOK, RingAssumption
  <1>2. ASSUME NEW i \in Slots0
        PROVE  /\ Sample(SampleAt(i)) \in Record
               /\ FirstId(Sample(SampleAt(i))) = SampleAt(i)
               /\ SampleAt(i) \in Nat /\ i \in Nat
    <2>1. i \in Nat /\ Capacity > 0
      BY <1>1 DEF Slots0
    <2>2. SampleAt(i) \in Nat
      BY <1>1, <2>1, CellTypes
    <2> QED BY <2>1, <2>2 DEF Sample, Record, FirstId
  <1>3. ASSUME NEW i \in Gaps0
        PROVE  /\ Gap(GapAt(i).lost, GapAt(i).after) \in Record
               /\ FirstId(Gap(GapAt(i).lost, GapAt(i).after)) = First(i)
               /\ First(i) \in Nat /\ i \in Nat
    <2>1. i \in Nat /\ GapCapacity > 0
      BY <1>1 DEF Gaps0
    <2>2. GapAt(i) \in GapRecord
      BY <1>1, <2>1, CellTypes
    <2>3. First(i) \in Nat
      BY <1>1 DEF GapsInv
    <2> QED BY <2>1, <2>2, <2>3 DEF GapRecord, Gap, Record, FirstId, First
  <1>4. \A r : r \in PendingRecords <=>
              \/ \E i \in Slots0 : r = Sample(SampleAt(i))
              \/ \E i \in Gaps0 : r = Gap(GapAt(i).lost, GapAt(i).after)
    BY DEF PendingRecords
  <1> QED BY <1>2, <1>3, <1>4

\* A sample that is kept is later than all that is pending.
LEMMA PushRecords ==
  ASSUME RingAssumption, U32MaxAssumption, RingInvariant, Push
  PROVE  /\ PendingRecords' = PendingRecords \cup {Sample(offered)}
         /\ Sample(offered) \in Record
         /\ \A q \in PendingRecords : FirstId(q) < FirstId(Sample(offered))
PROOF
  <1>1. /\ TypeOK /\ SamplesInv /\ GapsInv /\ offered \in Nat
        /\ count \in Nat /\ count' = count + 1 /\ UNCHANGED gapVars
    BY DEF RingInvariant, TypeOK, RingAssumption, Push
  <1>2. Sample(offered) \in Record /\ FirstId(Sample(offered)) = offered
    BY <1>1 DEF Sample, Record, FirstId
  <1>3. PICK c \in Nat : c = count
    BY <1>1
  <1>4. \A i \in 0 .. c : SampleAt(i)' = IF i < c THEN SampleAt(i) ELSE offered
    BY <1>1, <1>3, PushView
  <1>5. Slots0' = Slots0 \cup {c} /\ Slots0 = 0 .. c - 1 /\ c \notin Slots0
    BY <1>1, <1>3 DEF Slots0
  <1>6. {Sample(SampleAt(i)) : i \in Slots0}'
          = {Sample(SampleAt(i)) : i \in Slots0} \cup {Sample(offered)}
    <2>1. \A i \in Slots0 : SampleAt(i)' = SampleAt(i)
      BY <1>3, <1>4, <1>5
    <2>2. SampleAt(c)' = offered
      BY <1>3, <1>4
    <2> QED BY <1>5, <2>1, <2>2 DEF Sample
  <1>7. {Gap(GapAt(i).lost, GapAt(i).after) : i \in Gaps0}'
          = {Gap(GapAt(i).lost, GapAt(i).after) : i \in Gaps0}
    BY <1>1 DEF gapVars, GapAt, GapIndex, Gaps0, Gap
  <1>8. \A q \in PendingRecords : FirstId(q) < offered
    <2>1. \A i \in Slots0 : SampleAt(i) < offered
      BY <1>1, InvTypes
    <2>2. \A i \in Gaps0 : First(i) < offered
      BY <1>1 DEF GapsInv
    <2> QED BY <2>1, <2>2, PendingIs
  <1> QED BY <1>2, <1>6, <1>7, <1>8 DEF PendingRecords

\* What a drain gives up is the earliest of all that is pending.
LEMMA PopRecords ==
  ASSUME RingAssumption, U32MaxAssumption, RingInvariant, ~GapDue, Pop,
         UNCHANGED gapVars
  PROVE  /\ PendingRecords' = PendingRecords \ {Sample(SampleAt(0))}
         /\ Sample(SampleAt(0)) \in PendingRecords
         /\ \A q \in PendingRecords \ {Sample(SampleAt(0))} :
              FirstId(Sample(SampleAt(0))) < FirstId(q)
PROOF
  <1>1. /\ TypeOK /\ SamplesInv /\ GapsInv /\ PositionsInv
        /\ count \in Nat /\ count > 0 /\ count' = count - 1 /\ gapCount \in Nat
    BY DEF RingInvariant, TypeOK, RingAssumption, Pop
  <1>2. 0 \in Slots0 /\ \A i \in Slots0 : i = 0 \/ 0 < i
    BY <1>1 DEF Slots0
  <1>3. \A i \in Slots0 : i # 0 => SampleAt(0) < SampleAt(i)
    BY <1>1, <1>2 DEF SamplesInv
  <1>4. \A i \in Gaps0 : SampleAt(0) < First(i)
    <2> TAKE i \in Gaps0
    <2>1. 0 \in Gaps0 /\ 0 <= i /\ gapCount > 0 /\ i \in Nat
      BY <1>1 DEF Gaps0
    <2>2. /\ Position(0) \in Int /\ Position(i) \in Int /\ Position(i) - Position(0) >= i - 0
          /\ poppedTotal \in Nat
      BY <1>1, <2>1 DEF PositionsInv, TypeOK
    <2>3. ~(poppedTotal >= Position(0))
      BY <2>1 DEF GapDue, Position
    <2>4. ~(Position(i) <= poppedTotal + 0)
      BY <2>1, <2>2, <2>3
    <2> QED BY <1>1, <1>2, <2>4 DEF GapsInv
  <1>5. {Sample(SampleAt(i)) : i \in Slots0}'
          = {Sample(SampleAt(i)) : i \in Slots0 \ {0}}
    <2>1. PICK c \in Nat : c = count
      BY <1>1
    <2>2. /\ Slots0' = 0 .. c - 2 /\ Slots0 \ {0} = 1 .. c - 1
          /\ \A i \in 0 .. c - 2 : SampleAt(i)' = SampleAt(i + 1)
      BY <1>1, <2>1, PopView DEF Slots0
    <2>3. \A i \in 0 .. c - 2 : i + 1 \in 1 .. c - 1
      BY <2>1
    <2>4. \A i \in 1 .. c - 1 : i - 1 \in 0 .. c - 2 /\ (i - 1) + 1 = i
      BY <2>1
    <2>5. \A i \in 1 .. c - 1 : \E j \in 0 .. c - 2 : SampleAt(j)' = SampleAt(i)
      BY <2>2, <2>4
    <2> QED BY <2>2, <2>3, <2>5 DEF Sample
  <1>6. {Gap(GapAt(i).lost, GapAt(i).after) : i \in Gaps0}'
          = {Gap(GapAt(i).lost, GapAt(i).after) : i \in Gaps0}
    BY DEF gapVars, GapAt, GapIndex, Gaps0, Gap
  <1> DEFINE r == Sample(SampleAt(0))
  <1>7. r \in PendingRecords /\ FirstId(r) = SampleAt(0) /\ SampleAt(0) \in Nat
    BY <1>2, PendingIs
  <1>8. \A i \in Slots0 \ {0} : FirstId(r) < FirstId(Sample(SampleAt(i)))
    BY <1>3, <1>7, PendingIs
  <1>9. \A i \in Gaps0 : FirstId(r) < FirstId(Gap(GapAt(i).lost, GapAt(i).after))
    BY <1>4, <1>7, PendingIs
  <1>10. PendingRecords' = {Sample(SampleAt(i)) : i \in Slots0 \ {0}}
             \cup {Gap(GapAt(i).lost, GapAt(i).after) : i \in Gaps0}
    BY <1>5, <1>6 DEF PendingRecords
  <1>11. FirstId(r) \in Nat
    BY <1>7
  <1> HIDE DEF r
  <1>12. \A q \in PendingRecords' : FirstId(r) < FirstId(q)
    BY <1>8, <1>9, <1>10
  <1>13. r \notin PendingRecords'
    BY <1>11, <1>12
  <1>14. PendingRecords = PendingRecords' \cup {r}
    BY <1>2, <1>10 DEF PendingRecords, r
  <1> QED BY <1>7, <1>12, <1>13, <1>14 DEF r

LEMMA CommitRecords ==
  ASSUME RingAssumption, U32MaxAssumption, RingInvariant, DrainGap
  PROVE  LET r == Gap(GapAt(0).lost, GapAt(0).after)
         IN  /\ PendingRecords' = PendingRecords \ {r}
             /\ r \in PendingRecords
             /\ \A q \in PendingRecords \ {r} : FirstId(r) < FirstId(q)
PROOF
  <1>1. /\ TypeOK /\ SamplesInv /\ GapsInv /\ PositionsInv
        /\ gapCount \in Nat /\ gapCount > 0 /\ gapCount' = gapCount - 1
        /\ poppedTotal \in Nat /\ count \in Nat
        /\ poppedTotal >= Position(0) /\ UNCHANGED sampleVars
    BY DEF RingInvariant, TypeOK, RingAssumption, DrainGap, GapDue, Position
  <1>2. 0 \in Gaps0 /\ \A i \in Gaps0 : i = 0 \/ 0 < i
    BY <1>1 DEF Gaps0
  <1>3. \A i \in Gaps0 : i # 0 => First(0) < First(i)
    BY <1>1, <1>2 DEF GapsInv
  <1>4. \A i \in Slots0 : First(0) < SampleAt(i)
    <2> TAKE i \in Slots0
    <2>1. Position(0) \in Int /\ i \in Nat
      BY <1>1, <1>2 DEF PositionsInv, TypeOK, Slots0
    <2>2. Position(0) <= poppedTotal + i
      BY <1>1, <2>1
    <2> QED BY <1>1, <1>2, <2>2 DEF GapsInv
  <1> DEFINE R(i) == Gap(GapAt(i).lost, GapAt(i).after)
             r == R(0)
  <1>5. {R(i) : i \in Gaps0}' = {R(i) : i \in Gaps0 \ {0}}
    <2>1. PICK c \in Nat : c = gapCount
      BY <1>1
    <2>2. /\ Gaps0' = 0 .. c - 2 /\ Gaps0 \ {0} = 1 .. c - 1
          /\ \A i \in 0 .. c - 2 : GapAt(i)' = GapAt(i + 1)
      BY <1>1, <2>1, CommitView DEF Gaps0, DrainGap
    <2>3. \A i \in 0 .. c - 2 : i + 1 \in 1 .. c - 1
      BY <2>1
    <2>4. \A i \in 1 .. c - 1 : i - 1 \in 0 .. c - 2 /\ (i - 1) + 1 = i
      BY <2>1
    <2>5. \A i \in 1 .. c - 1 : \E j \in 0 .. c - 2 : GapAt(j)' = GapAt(i)
      BY <2>2, <2>4
    <2> QED BY <2>2, <2>3, <2>5 DEF Gap
  <1>6. {Sample(SampleAt(i)) : i \in Slots0}' = {Sample(SampleAt(i)) : i \in Slots0}
    BY <1>1 DEF sampleVars, SampleAt, SlotIndex, Slots0, Sample
  <1>7. r \in PendingRecords /\ FirstId(r) = First(0) /\ First(0) \in Nat
    BY <1>2, PendingIs
  <1>8. \A i \in Gaps0 \ {0} : FirstId(r) < FirstId(R(i))
    BY <1>3, <1>7, PendingIs
  <1>9. \A i \in Slots0 : FirstId(r) < FirstId(Sample(SampleAt(i)))
    BY <1>4, <1>7, PendingIs
  <1>10. PendingRecords' = {Sample(SampleAt(i)) : i \in Slots0} \cup {R(i) : i \in Gaps0 \ {0}}
    BY <1>5, <1>6 DEF PendingRecords
  <1>11. PendingRecords = {Sample(SampleAt(i)) : i \in Slots0} \cup {R(i) : i \in Gaps0}
    BY DEF PendingRecords
  <1>12. PendingRecords = PendingRecords' \cup {r}
    BY <1>2, <1>10, <1>11
  <1> HIDE DEF R, r
  <1>13. \A q \in PendingRecords' : FirstId(r) < FirstId(q)
    BY <1>8, <1>9, <1>10
  <1>14. r \notin PendingRecords'
    BY <1>7, <1>13
  <1> QED BY <1>7, <1>12, <1>13, <1>14 DEF r, R

\* A loss that starts a run is later than all that is pending, the last of which
\* is a sample.
LEMMA NewRunRecords ==
  ASSUME RingAssumption, U32MaxAssumption, RingInvariant, Drop, LocateInNewRecord
  PROVE  /\ PendingRecords' = PendingRecords \cup {Gap(1, lastSeq)}
         /\ Gap(1, lastSeq) \in Record
         /\ \A q \in PendingRecords : FirstId(q) < FirstId(Gap(1, lastSeq))
         /\ PendingRecords # {} =>
              \E s \in PendingRecords :
                /\ s.kind = "sample"
                /\ \A q \in PendingRecords \ {s} : FirstId(q) < FirstId(s)
PROOF
  <1>1. /\ TypeOK /\ SamplesInv /\ GapsInv /\ PositionsInv
        /\ gapCount \in Nat /\ gapCount' = gapCount + 1
        /\ pushedTotal \in Nat /\ poppedTotal \in Nat /\ count \in Nat
        /\ pushedTotal = poppedTotal + count
        /\ UNCHANGED sampleVars /\ lastSeq \in Nat /\ Capacity \in Nat /\ count >= Capacity
    BY U32MaxAssumption
       DEF RingInvariant, TypeOK, RingAssumption, Drop, LocateInNewRecord, SamplesInv, RingFull
  <1>2. Gap(1, lastSeq) \in Record /\ FirstId(Gap(1, lastSeq)) = NextId
    BY <1>1 DEF Gap, Record, FirstId, NextId
  <1>3. ASSUME NEW i \in Gaps0 PROVE Position(i) < pushedTotal /\ Position(i) \in Nat
    <2>1. PICK l \in Nat : l = gapCount - 1
      BY <1>1 DEF Gaps0
    <2>2. l \in Gaps0 /\ i <= l /\ i \in Nat
      BY <1>1, <2>1 DEF Gaps0
    <2>3. /\ Position(l) \in poppedTotal .. pushedTotal /\ Position(i) \in poppedTotal .. pushedTotal
          /\ Position(l) - Position(i) >= l - i
      BY <1>1, <2>2 DEF PositionsInv
    <2>4. Position(l) # pushedTotal
      BY <1>1, <2>1 DEF LocateInNewRecord, SameRun, Position
    <2> QED BY <1>1, <2>2, <2>3, <2>4
  <1>4. \A q \in PendingRecords : FirstId(q) < NextId
    <2>1. \A i \in Slots0 : SampleAt(i) < NextId
      BY <1>1 DEF SamplesInv
    <2>2. \A i \in Gaps0 : First(i) < NextId
      BY <1>1, <1>3 DEF GapsInv
    <2> QED BY <2>1, <2>2, PendingIs
  <1>5. PendingRecords' = PendingRecords \cup {Gap(1, lastSeq)}
    <2>1. PICK g \in Nat : g = gapCount
      BY <1>1
    <2>2. \A i \in 0 .. g : GapAt(i)' = IF i < g THEN GapAt(i)
              ELSE [lost |-> 1, after |-> lastSeq, afterPushed |-> pushedTotal]
      BY <1>1, <2>1, AppendView
    <2>3. Gaps0' = (0 .. g - 1) \cup {g} /\ Gaps0 = 0 .. g - 1
      BY <1>1, <2>1 DEF Gaps0
    <2>4. /\ \A i \in 0 .. g - 1 : GapAt(i)' = GapAt(i)
          /\ GapAt(g)'.lost = 1 /\ GapAt(g)'.after = lastSeq
      BY <2>1, <2>2
    <2>5. {Gap(GapAt(i).lost, GapAt(i).after) : i \in Gaps0}'
            = {Gap(GapAt(i).lost, GapAt(i).after) : i \in Gaps0} \cup {Gap(1, lastSeq)}
      BY <2>3, <2>4 DEF Gap
    <2>6. {Sample(SampleAt(i)) : i \in Slots0}' = {Sample(SampleAt(i)) : i \in Slots0}
      BY <1>1 DEF sampleVars, SampleAt, SlotIndex, Slots0, Sample
    <2> QED BY <2>5, <2>6 DEF PendingRecords
  <1>6. ASSUME PendingRecords # {}
        PROVE  \E s \in PendingRecords :
                /\ s.kind = "sample"
                /\ \A q \in PendingRecords \ {s} : FirstId(q) < FirstId(s)
    <2>1. count > 0
      <3>1. ASSUME count = 0 PROVE FALSE
        <4>1. Slots0 = {} /\ pushedTotal = poppedTotal
          BY <1>1, <3>1 DEF Slots0
        <4>2. Gaps0 = {}
          BY <1>1, <1>3, <4>1 DEF PositionsInv
        <4> QED BY <1>6, <4>1, <4>2 DEF PendingRecords
      <3> QED BY <1>1, <3>1
    <2>2. PICK l \in Nat : l = count - 1
      BY <1>1, <2>1
    <2>3. l \in Slots0 /\ \A i \in Slots0 : i = l \/ i < l
      BY <1>1, <2>2 DEF Slots0
    <2>4. \A i \in Slots0 : i # l => SampleAt(i) < SampleAt(l)
      BY <1>1, <2>3 DEF SamplesInv
    <2>5. \A i \in Gaps0 : First(i) < SampleAt(l)
      <3> TAKE i \in Gaps0
      <3>1. Position(i) <= poppedTotal + l
        BY <1>1, <1>3, <2>2
      <3> QED BY <1>1, <2>3, <3>1 DEF GapsInv
    <2>6. /\ Sample(SampleAt(l)) \in PendingRecords
          /\ FirstId(Sample(SampleAt(l))) = SampleAt(l)
          /\ Sample(SampleAt(l)).kind = "sample"
      BY <2>3, PendingIs DEF Sample
    <2>7. ASSUME NEW q \in PendingRecords, q # Sample(SampleAt(l))
          PROVE  FirstId(q) < FirstId(Sample(SampleAt(l)))
      <3>1. \A i \in Slots0 : q = Sample(SampleAt(i)) =>
                FirstId(q) = SampleAt(i) /\ i # l
        BY <2>7, PendingIs
      <3>2. \A i \in Gaps0 : q = Gap(GapAt(i).lost, GapAt(i).after) => FirstId(q) = First(i)
        BY PendingIs
      <3> QED BY <2>4, <2>5, <2>6, <2>7, <3>1, <3>2, PendingIs
    <2> QED BY <2>6, <2>7
  <1> QED BY <1>2, <1>4, <1>5, <1>6

\* A loss of the run that the newest record is about, which is the latest.
LEMMA SameRunRecords ==
  ASSUME RingAssumption, U32MaxAssumption, RingInvariant, LossInv, Drop, LocateInNewest
  PROVE  \E n, a \in Nat :
           /\ Gap(n, a) \in PendingRecords
           /\ \A q \in PendingRecords \ {Gap(n, a)} : FirstId(q) < FirstId(Gap(n, a))
           /\ PendingRecords' = (PendingRecords \ {Gap(n, a)}) \cup {Gap(n + 1, a)}
           /\ Gap(n + 1, a) \in Record /\ FirstId(Gap(n + 1, a)) = FirstId(Gap(n, a))
PROOF
  <1>1. /\ TypeOK /\ SamplesInv /\ GapsInv
        /\ gapCount \in Nat /\ gapCount > 0 /\ gapCount' = gapCount
        /\ pushedTotal \in Nat /\ poppedTotal \in Nat /\ count \in Nat
        /\ pushedTotal = poppedTotal + count
        /\ UNCHANGED sampleVars /\ gapHead' = gapHead /\ ExtendNewestGap
        /\ offered < U32Max /\ producerDrop \in Nat /\ offered \in Nat /\ U32Max \in Nat
    BY U32MaxAssumption
       DEF RingInvariant, TypeOK, RingAssumption, Drop, LocateInNewest, SameRun, SamplesInv
  <1>2. PICK l \in Nat : l = gapCount - 1
    BY <1>1
  <1>3. l \in Gaps0 /\ \A i \in Gaps0 : i = l \/ i < l
    BY <1>1, <1>2 DEF Gaps0
  <1>4. PICK n, a \in Nat : n = GapAt(l).lost /\ a = GapAt(l).after
    <2>1. GapAt(l) \in GapRecord
      BY <1>3, InvTypes
    <2> QED BY <2>1 DEF GapRecord
  <1>5. Position(l) = pushedTotal
    BY <1>2 DEF LocateInNewest, SameRun, Position
  <1>6. n < U32Max
    BY <1>1, <1>3, <1>4, LossesAreFew
  <1>7. \A i \in Gaps0 : /\ GapAt(i)'.after = GapAt(i).after
                        /\ GapAt(i)'.lost = IF i = l THEN n + 1 ELSE GapAt(i).lost
    BY <1>1, <1>2, <1>4, <1>6, ExtendView DEF SatInc
  <1>8. \A i \in Slots0 : SampleAt(i) < First(l)
    <2> TAKE i \in Slots0
    <2>1. i \in Nat /\ i < count
      BY <1>1 DEF Slots0
    <2>2. ~(Position(l) <= poppedTotal + i)
      BY <1>1, <1>5, <2>1
    <2> QED BY <1>1, <1>3, <2>2 DEF GapsInv
  <1>9. \A i \in Gaps0 : i # l => First(i) < First(l)
    BY <1>1, <1>3 DEF GapsInv
  <1> DEFINE R(i) == Gap(GapAt(i).lost, GapAt(i).after)
             S == {Sample(SampleAt(i)) : i \in Slots0}
             G == {R(i) : i \in Gaps0 \ {l}}
  <1>10. R(l) = Gap(n, a) /\ FirstId(Gap(n, a)) = First(l) /\ First(l) \in Nat
         /\ Gap(n, a) \in Record
    BY <1>3, <1>4, PendingIs
  <1>11. Gap(n + 1, a) \in Record /\ FirstId(Gap(n + 1, a)) = FirstId(Gap(n, a))
    BY <1>4 DEF Gap, Record, FirstId
  <1>12. PendingRecords = S \cup G \cup {Gap(n, a)}
    BY <1>3, <1>10 DEF PendingRecords
  <1>13. PendingRecords' = S \cup G \cup {Gap(n + 1, a)}
    <2>1. S' = S
      BY <1>1 DEF sampleVars, SampleAt, SlotIndex, Slots0, Sample
    <2>2. {R(i) : i \in Gaps0}' = G \cup {Gap(n + 1, a)}
      <3>1. Gaps0' = (Gaps0 \ {l}) \cup {l}
        BY <1>1, <1>3 DEF Gaps0
      <3>2. \A i \in Gaps0 \ {l} : GapAt(i)'.lost = GapAt(i).lost /\ GapAt(i)'.after = GapAt(i).after
        BY <1>7
      <3>3. GapAt(l)'.lost = n + 1 /\ GapAt(l)'.after = a
        BY <1>3, <1>4, <1>7
      <3> QED BY <3>1, <3>2, <3>3 DEF Gap
    <2> QED BY <2>1, <2>2 DEF PendingRecords
  <1>14. \A i \in Slots0 : FirstId(Sample(SampleAt(i))) < FirstId(Gap(n, a))
    BY <1>8, <1>10, PendingIs
  <1>15. \A i \in Gaps0 \ {l} : FirstId(R(i)) < FirstId(Gap(n, a))
    BY <1>9, <1>10, PendingIs
  <1> HIDE DEF R
  <1>16. \A q \in S \cup G : FirstId(q) < FirstId(Gap(n, a))
    BY <1>14, <1>15
  <1> HIDE DEF S, G
  <1>17. Gap(n, a) \notin S \cup G
    <2>1. FirstId(Gap(n, a)) \in Nat
      BY <1>10
    <2> QED BY <1>16, <2>1
  <1> QED BY <1>11, <1>12, <1>13, <1>16, <1>17

-----------------------------------------------------------------------------
(* The log the ring implements, step by step.                              *)

\* The list is the only one, so that a step is known by the list it leaves.
LEMMA LogIs ==
  ASSUME U32MaxAssumption, NEW t, Ordered(t, PendingRecords')
  PROVE  Timeline' = t /\ Ordered(Timeline', PendingRecords')
PROOF
  <1>1. Chronological(PendingRecords') = t
    BY OneOrder
  <1>2. Timeline' = Chronological(PendingRecords')
    BY DEF Timeline
  <1> QED BY <1>1, <1>2

LEMMA LogSamples ==
  ASSUME RingAssumption, U32MaxAssumption, RingInvariant,
         Ordered(Timeline, PendingRecords)
  PROVE  Log!Samples = count
PROOF
  <1> DEFINE n == Len(Timeline)
             K == {k \in 1 .. n : Timeline[k].kind = "sample"}
             f == [i \in Slots0 |->
                     CHOOSE k \in 1 .. n : Timeline[k] = Sample(SampleAt(i))]
  <1>1. count \in Nat /\ SamplesInv
    BY DEF RingInvariant, TypeOK, RingAssumption
  <1>2. IsFiniteSet(Slots0) /\ Cardinality(Slots0) = count
    <2>1. 0 \in Int /\ count - 1 \in Int
      BY <1>1
    <2>2. Cardinality(0 .. count - 1) = IF 0 > count - 1 THEN 0 ELSE count - 1 - 0 + 1
      BY <2>1, FS_Interval
    <2>3. IsFiniteSet(0 .. count - 1)
      BY <2>1, FS_Interval
    <2> QED BY <1>1, <2>2, <2>3 DEF Slots0
  <1>3. /\ \A k \in 1 .. n : Timeline[k] \in PendingRecords
        /\ \A j, k \in 1 .. n : Timeline[j] = Timeline[k] => j = k
    BY OrderedList
  <1>4. ASSUME NEW i \in Slots0
        PROVE  f[i] \in 1 .. n /\ Timeline[f[i]] = Sample(SampleAt(i))
    <2>1. Sample(SampleAt(i)) \in PendingRecords
      BY PendingIs
    <2>2. \E k \in 1 .. n : Timeline[k] = Sample(SampleAt(i))
      BY <2>1 DEF Ordered
    <2> HIDE DEF n
    <2> QED BY <2>2
  <1> HIDE DEF f, n
  <1>5. f \in [Slots0 -> K]
    <2>1. \A i \in Slots0 : Sample(SampleAt(i)).kind = "sample"
      BY DEF Sample
    <2>3. \A i \in Slots0 : f[i] \in K
      BY <1>4, <2>1
    <2>2. f = [i \in Slots0 |-> f[i]]
      BY DEF f
    <2> HIDE DEF K
    <2> QED BY <2>2, <2>3
  <1>6. ASSUME NEW i \in Slots0, NEW j \in Slots0, f[i] = f[j] PROVE i = j
    <2>1. SampleAt(i) = SampleAt(j)
      <3>1. Sample(SampleAt(i)) = Sample(SampleAt(j))
        BY <1>4, <1>6
      <3> QED BY <3>1 DEF Sample
    <2>2. i \in Int /\ j \in Int /\ SampleAt(i) \in Nat
      BY PendingIs
    <2> QED BY <1>1, <2>1, <2>2 DEF SamplesInv
  <1>7. ASSUME NEW k \in K PROVE \E i \in Slots0 : f[i] = k
    <2>1. Timeline[k] \in PendingRecords /\ Timeline[k].kind = "sample" /\ k \in 1 .. n
      BY <1>3
    <2>2. PICK i \in Slots0 : Timeline[k] = Sample(SampleAt(i))
      BY <2>1, PendingIs DEF Gap
    <2>3. Timeline[f[i]] = Timeline[k] /\ f[i] \in 1 .. n
      BY <1>4, <2>2
    <2> QED BY <1>3, <2>1, <2>3
  <1> HIDE DEF K
  <1>8. Cardinality(K) = count
    <2>1. \A i, j \in Slots0 : f[i] = f[j] => i = j
      BY <1>6
    <2>2. \A k \in K : \E i \in Slots0 : f[i] = k
      BY <1>7
    <2> QED BY <1>2, <1>5, <2>1, <2>2, OneToOne
  <1>9. Log!Cardinality(K) = Cardinality(K)
    BY DEF Log!Cardinality, Cardinality
  <1> QED BY <1>8, <1>9 DEF K, n, Log!Samples

LEMMA LogUntouched ==
  ASSUME Ordered(Timeline, PendingRecords),
         UNCHANGED <<sampleVars, gapVars, wire, offered>>
  PROVE  Ordered(Timeline', PendingRecords') /\ [Log!Next]_(Log!vars)
PROOF
  <1>1. PendingRecords' = PendingRecords
    BY DEF PendingRecords, Slots0, Gaps0, SampleAt, SlotIndex, GapAt, GapIndex,
           sampleVars, gapVars
  <1>2. Timeline' = Timeline
    BY <1>1 DEF Timeline
  <1>3. UNCHANGED <<wire, offered, lastSeq>>
    BY DEF sampleVars
  <1> QED BY <1>1, <1>2, <1>3 DEF Log!vars

\* A sample deposited is kept or lost at the end of the log, a frame is its head.
LEMMA LogStays ==
  ASSUME RingAssumption, U32MaxAssumption, GapCapacity > Capacity,
         RingInvariant, LossInv, Ordered(Timeline, PendingRecords), [Next]_vars
  PROVE  Ordered(Timeline', PendingRecords') /\ [Log!Next]_(Log!vars)
PROOF
  <1>1. ASSUME UNCHANGED <<sampleVars, gapVars, wire, offered>>
        PROVE  Ordered(Timeline', PendingRecords') /\ [Log!Next]_(Log!vars)
    BY <1>1, LogUntouched
  <1>2. CASE Push
    <2>1. Ordered(Append(Timeline, Sample(offered)), PendingRecords')
      BY <1>2, PushRecords, LaterRecord
    <2>2. Timeline' = Append(Timeline, Sample(offered)) /\ Ordered(Timeline', PendingRecords')
      BY <2>1, LogIs
    <2>3. Log!Samples < Capacity
      BY <1>2, LogSamples DEF Push, RingFull, RingInvariant, TypeOK, RingAssumption
    <2>4. Log!Keep
      BY <1>2, <2>2, <2>3 DEF Push, Log!Keep, Log!Sample, Sample
    <2> QED BY <2>2, <2>4 DEF Log!Next
  <1>3. CASE Drop
    <2>1. /\ Log!Samples = Capacity /\ offered < MaxOffered /\ offered' = offered + 1
          /\ UNCHANGED <<wire, lastSeq>>
      BY <1>3, LogSamples
         DEF Drop, RingFull, RingInvariant, TypeOK, RingAssumption, sampleVars
    <2>2. CASE LocateInNewRecord
      <3>1. Ordered(Append(Timeline, Gap(1, lastSeq)), PendingRecords')
        BY <1>3, <2>2, NewRunRecords, LaterRecord
      <3>2. /\ Timeline' = Append(Timeline, Gap(1, lastSeq))
            /\ Ordered(Timeline', PendingRecords')
        BY <3>1, LogIs
      <3>3. ~(Timeline # <<>> /\ Timeline[Len(Timeline)].kind = "gap")
        <4>1. ASSUME Timeline # <<>> PROVE Timeline[Len(Timeline)].kind = "sample"
          <5>1. PendingRecords # {}
            BY <4>1 DEF Ordered
          <5>2. PICK s \in PendingRecords :
                  /\ s.kind = "sample"
                  /\ \A q \in PendingRecords \ {s} : FirstId(q) < FirstId(s)
            BY <1>3, <2>2, <5>1, NewRunRecords
          <5>3. Timeline[Len(Timeline)] = s
            BY <5>2, LatestRecord
          <5> QED BY <5>2, <5>3
        <4> QED BY <4>1
      <3>4. Log!Lose
        BY <2>1, <3>2, <3>3 DEF Log!Lose, Log!Gap, Gap
      <3> QED BY <3>2, <3>4 DEF Log!Next
    <2>3. CASE LocateInNewest
      <3>1. PICK n \in Nat, a \in Nat :
              /\ Gap(n, a) \in PendingRecords
              /\ \A q \in PendingRecords \ {Gap(n, a)} : FirstId(q) < FirstId(Gap(n, a))
              /\ PendingRecords' = (PendingRecords \ {Gap(n, a)}) \cup {Gap(n + 1, a)}
              /\ Gap(n + 1, a) \in Record /\ FirstId(Gap(n + 1, a)) = FirstId(Gap(n, a))
        BY <1>3, <2>3, SameRunRecords
      <3> DEFINE t == [Timeline EXCEPT ![Len(Timeline)] = Gap(n + 1, a)]
      <3>2. /\ Timeline # <<>> /\ Len(Timeline) \in 1 .. Len(Timeline)
            /\ Timeline[Len(Timeline)] = Gap(n, a)
            /\ Ordered(t, PendingRecords')
        BY <3>1, LatestRecord
      <3>3. Timeline' = t /\ Ordered(Timeline', PendingRecords')
        BY <3>2, LogIs
      <3>4. t = [Timeline EXCEPT ![Len(Timeline)].lost = @ + 1]
        <4>1. [Gap(n, a) EXCEPT !.lost = @ + 1] = Gap(n + 1, a)
          BY DEF Gap
        <4> QED BY <3>2, <4>1
      <3>5. Timeline[Len(Timeline)].kind = "gap"
        BY <3>2 DEF Gap
      <3> HIDE DEF t
      <3>6. Log!Lose
        BY <2>1, <3>2, <3>3, <3>4, <3>5 DEF Log!Lose
      <3> QED BY <3>3, <3>6 DEF Log!Next
    <2>4. CASE LocateByMerging
      BY <2>4, MergeNeedsAShortBuffer
         DEF LocateByMerging, RingInvariant, TypeOK, RingAssumption
    <2>5. CASE LocateNowhere
      BY <2>5 DEF LocateNowhere, RingAssumption
    <2> QED BY <1>3, <2>2, <2>3, <2>4, <2>5 DEF Drop, RecordDrop
  <1>4. CASE DrainGap
    <2> DEFINE r == Gap(GapAt(0).lost, GapAt(0).after)
    <2>1. /\ PendingRecords' = PendingRecords \ {r} /\ r \in PendingRecords
          /\ \A q \in PendingRecords \ {r} : FirstId(r) < FirstId(q)
      BY <1>4, CommitRecords
    <2>2. wire' = Append(wire, r) /\ UNCHANGED <<offered, lastSeq>>
      BY <1>4 DEF DrainGap, sampleVars
    <2> HIDE DEF r
    <2>3. Timeline # <<>> /\ Head(Timeline) = r /\ Ordered(Tail(Timeline), PendingRecords')
      BY <2>1, EarliestRecord
    <2>4. Timeline' = Tail(Timeline) /\ Ordered(Timeline', PendingRecords')
      BY <2>3, LogIs
    <2>5. Log!Accept
      BY <2>2, <2>3, <2>4 DEF Log!Accept
    <2> QED BY <2>4, <2>5 DEF Log!Next
  <1>5. CASE DrainSample \/ RefuseSample
    <2> DEFINE r == Sample(SampleAt(0))
    <2>1. ~GapDue /\ Pop /\ UNCHANGED gapVars /\ UNCHANGED <<offered, lastSeq>>
      BY <1>5 DEF DrainSample, RefuseSample, Pop
    <2>2. /\ PendingRecords' = PendingRecords \ {r} /\ r \in PendingRecords
          /\ \A q \in PendingRecords \ {r} : FirstId(r) < FirstId(q)
      BY <2>1, PopRecords
    <2>3. wire' = Append(wire, r) \/ wire' = wire
      BY <1>5 DEF DrainSample, RefuseSample
    <2>4. r.kind = "sample"
      BY DEF Sample
    <2> HIDE DEF r
    <2>5. Timeline # <<>> /\ Head(Timeline) = r /\ Ordered(Tail(Timeline), PendingRecords')
      BY <2>2, EarliestRecord
    <2>6. Timeline' = Tail(Timeline) /\ Ordered(Timeline', PendingRecords')
      BY <2>5, LogIs
    <2>7. Log!Accept \/ Log!RefuseSample
      BY <2>1, <2>3, <2>4, <2>5, <2>6 DEF Log!Accept, Log!RefuseSample
    <2> QED BY <2>6, <2>7 DEF Log!Next
  <1>6. CASE (\E max \in Budgets : StartDrain(max)) \/ RefuseGap \/ DrainEmpty \/ UNCHANGED vars
    <2>1. UNCHANGED <<sampleVars, gapVars, wire, offered>>
      BY <1>6 DEF StartDrain, RefuseGap, DrainEmpty, vars
    <2> QED BY <1>1, <2>1
  <1> QED BY <1>2, <1>3, <1>4, <1>5, <1>6 DEF Next, DrainStep

LEMMA LogStarts ==
  ASSUME RingAssumption, U32MaxAssumption, Init
  PROVE  Ordered(Timeline, PendingRecords) /\ Log!Init
PROOF
  <1>1. PendingRecords = {}
    BY DEF Init, PendingRecords, Slots0, Gaps0
  <1>2. Ordered(<<>>, {})
    BY DEF Ordered
  <1>3. Timeline = <<>>
    BY <1>1, <1>2, OneOrder DEF Timeline
  <1> QED BY <1>1, <1>2, <1>3 DEF Init, Log!Init, NoSeq, Log!NoSeq

\* With room for one more gap than samples, as ring.h:65-66 recommends, the two
\* buffers and the drain are one log in the order the transactions ran
\* (ring.h:13-24): every step of the ring is a step of LossLog or leaves it.
THEOREM RingIsALog ==
  ASSUME GapCapacity > Capacity
  PROVE  Spec => ImplementsLossLog
PROOF
  <1> DEFINE I == RingInvariant /\ LossInv /\ Ordered(Timeline, PendingRecords)
  <1>1. Init => I /\ Log!Init
    BY InvInit, LossesStart, LogStarts, RingAssumption, U32MaxAssumption
  <1>2. I /\ [Next]_vars => I' /\ [Log!Next]_(Log!vars)
    <2> SUFFICES ASSUME I, [Next]_vars PROVE I' /\ [Log!Next]_(Log!vars)
      OBVIOUS
    <2>1. RingInvariant'
      BY InvStep, RingAssumption, U32MaxAssumption
    <2>2. LossInv'
      BY LossesStay, RingAssumption, U32MaxAssumption DEF RingInvariant
    <2>3. Ordered(Timeline', PendingRecords') /\ [Log!Next]_(Log!vars)
      BY LogStays, RingAssumption, U32MaxAssumption
    <2> QED BY <2>1, <2>2, <2>3
  <1> QED BY <1>1, <1>2, PTL DEF Spec, ImplementsLossLog, Log!Spec

-----------------------------------------------------------------------------
(* The steps of a session, seen from the ring.                             *)

\* A drain may be started with any budget.
LEMMA BudgetsAreNaturals ==
  ASSUME SessionAssumption, RingAssumption
  PROVE  EngineBudget \in Nat /\ FinalBudget \in Nat /\ Budgets \subseteq Nat
  BY DEF SessionAssumption, RingAssumption

\* A drain that starts, whatever its budget.
LEMMA StartKeepsRing ==
  ASSUME RingAssumption, RingInvariant, NEW max \in Nat, StartDrain(max)
  PROVE  RingInvariant'
PROOF
  <1>1. TypeOK'
    BY DEF RingInvariant, TypeOK, StartDrain, sampleVars, gapVars, frameVars
  <1>2. /\ SamplesInv' /\ PositionsInv' /\ GapsInv'
        /\ Capacity > 0 => WireInv'
        /\ Exact' => RunsInv'
    BY QuietStep DEF StartDrain
  <1> QED BY <1>1, <1>2 DEF RingInvariant

\* A frame emitted outside a drain.
LEMMA EmitKeepsRing ==
  ASSUME RingAssumption, RingInvariant, NEW body, Emit(body)
  PROVE  RingInvariant'
PROOF
  <1>1. PICK accepted \in BOOLEAN : EmitFrame(accepted) /\ UNCHANGED ringVars
    BY DEF Emit
  <1>2. TypeOK
    BY DEF RingInvariant
  <1>3. /\ streamSeq' \in 0 .. U32Max
        /\ framesAccepted' \in 0 .. U32Max /\ framesRefused' \in 0 .. U32Max
    BY <1>1, <1>2, EmitFrameTypes
  <1>4. TypeOK'
    BY <1>1, <1>2, <1>3 DEF TypeOK, ringVars, sampleVars, gapVars
  <1>5. /\ SamplesInv' /\ PositionsInv' /\ GapsInv'
        /\ Capacity > 0 => WireInv'
        /\ Exact' => RunsInv'
    BY <1>1, QuietStep DEF ringVars
  <1> QED BY <1>4, <1>5 DEF RingInvariant

\* What the ring promises, it promises in a session.
LEMMA SessionKeepsRing ==
  ASSUME RingAssumption, U32MaxAssumption, SessionAssumption, RingInvariant,
         [SessionNext]_allVars
  PROVE  RingInvariant'
PROOF
  <1>1. ASSUME [Next]_vars PROVE RingInvariant'
    BY <1>1, InvStep
  <1>2. CASE EmitHeader
    BY <1>2, EmitKeepsRing DEF EmitHeader
  <1>3. ASSUME NEW ok \in BOOLEAN, Transaction(ok) PROVE RingInvariant'
    BY <1>1, <1>3 DEF Transaction, Next
  <1>4. CASE EngineDrain
    BY <1>4, StartKeepsRing, BudgetsAreNaturals DEF EngineDrain
  <1>5. CASE CallerDrain
    BY <1>5, StartKeepsRing, BudgetsAreNaturals DEF CallerDrain
  <1>6. CASE FinalDrain
    BY <1>6, StartKeepsRing, BudgetsAreNaturals DEF FinalDrain
  <1>7. CASE EndOfRun
    BY <1>1, <1>7 DEF EndOfRun
  <1>8. CASE Drains
    BY <1>1, <1>8 DEF Drains, Next
  <1>9. CASE EmitSummary
    BY <1>9, EmitKeepsRing DEF EmitSummary
  <1>10. CASE EmitHistogram
    BY <1>1, <1>10, EmitKeepsRing DEF EmitHistogram
  <1>11. CASE EmitFooter
    BY <1>11, EmitKeepsRing DEF EmitFooter
  <1>12. CASE Capture
    BY <1>1, <1>12 DEF Capture
  <1>13. CASE UNCHANGED allVars
    BY <1>1, <1>13 DEF allVars
  <1> QED BY <1>2, <1>3, <1>4, <1>5, <1>6, <1>7, <1>8, <1>9, <1>10, <1>11, <1>12,
             <1>13 DEF SessionNext

\* A session's step is a step of the ring or leaves its buffers as they were.
LEMMA SessionStepsRing ==
  ASSUME [SessionNext]_allVars
  PROVE  \/ [Next]_vars
         \/ UNCHANGED <<sampleVars, gapVars, producerDrop, offered, kept, wire>>
PROOF
  <1>1. ASSUME NEW body, Emit(body)
        PROVE  UNCHANGED <<sampleVars, gapVars, producerDrop, offered, kept, wire>>
    BY <1>1 DEF Emit, ringVars
  <1>2. ASSUME NEW max, StartDrain(max)
        PROVE  UNCHANGED <<sampleVars, gapVars, producerDrop, offered, kept, wire>>
    BY <1>2 DEF StartDrain
  <1>3. CASE EmitHeader \/ EmitSummary \/ EmitHistogram \/ EmitFooter
    BY <1>1, <1>3 DEF EmitHeader, EmitSummary, EmitHistogram, EmitFooter
  <1>4. CASE EngineDrain \/ CallerDrain \/ FinalDrain
    BY <1>2, <1>4 DEF EngineDrain, CallerDrain, FinalDrain
  <1>5. CASE (\E ok \in BOOLEAN : Transaction(ok)) \/ Drains
    BY <1>5 DEF Transaction, Drains, Next
  <1>6. CASE EndOfRun \/ Capture \/ UNCHANGED allVars
    BY <1>6 DEF EndOfRun, Capture, allVars
  <1> QED BY <1>3, <1>4, <1>5, <1>6 DEF SessionNext

-----------------------------------------------------------------------------
(* Types, and what the engine's drains leave.                              *)

LEMMA Grown ==
  ASSUME NEW s, s \in Seq(ToSet(s)), NEW f
  PROVE  /\ Append(s, f) \in Seq(ToSet(Append(s, f)))
         /\ Len(s) \in Nat /\ DOMAIN s = 1 .. Len(s)
         /\ Len(Append(s, f)) = Len(s) + 1
         /\ DOMAIN Append(s, f) = 1 .. Len(s) + 1
         /\ \A k \in DOMAIN s : Append(s, f)[k] = s[k]
         /\ Append(s, f)[Len(s) + 1] = f
PROOF
  <1> DEFINE S == ToSet(s) \cup {f}
             t == Append(s, f)
  <1>1. s \in Seq(S)
    BY DEF ToSet
  <1>2. f \in S
    OBVIOUS
  <1>3. /\ t \in Seq(S) /\ Len(s) \in Nat /\ DOMAIN s = 1 .. Len(s)
        /\ Len(t) = Len(s) + 1 /\ DOMAIN t = 1 .. Len(s) + 1
        /\ \A k \in DOMAIN s : t[k] = s[k]
        /\ t[Len(s) + 1] = f
    <2> HIDE DEF S
    <2> QED BY <1>1, <1>2
  <1>4. t \in Seq({t[k] : k \in DOMAIN t})
    <2> HIDE DEF t, S
    <2> QED BY <1>3
  <1> QED BY <1>3, <1>4 DEF ToSet

\* Every step leaves the stream, or appends a frame with the number due.
LEMMA StreamStep ==
  ASSUME [SessionNext]_allVars
  PROVE  \/ stream' = stream
         \/ \E body : stream' = Append(stream, Frame(streamSeq, body))
PROOF
  <1>1. ASSUME NEW body, Emit(body)
        PROVE  stream' = stream \/ stream' = Append(stream, Frame(streamSeq, body))
    BY <1>1 DEF Emit
  <1> QED BY <1>1 DEF SessionNext, EmitHeader, Transaction, EngineDrain, CallerDrain,
             FinalDrain, EndOfRun, Drains, EmitSummary, EmitHistogram, EmitFooter,
             Capture, allVars

LEMMA StreamTypes ==
  ASSUME TypeOK, SessionTypes, [SessionNext]_allVars
  PROVE  /\ stream' \in Seq(ToSet(stream'))
         /\ \A k \in DOMAIN stream' : stream'[k].n \in 0 .. U32Max
PROOF
  <1>1. /\ stream \in Seq(ToSet(stream))
        /\ \A k \in DOMAIN stream : stream[k].n \in 0 .. U32Max
        /\ streamSeq \in 0 .. U32Max
    BY DEF SessionTypes, TypeOK
  <1>2. CASE stream' = stream
    BY <1>1, <1>2
  <1>3. ASSUME NEW body, stream' = Append(stream, Frame(streamSeq, body))
        PROVE  /\ stream' \in Seq(ToSet(stream'))
               /\ \A k \in DOMAIN stream' : stream'[k].n \in 0 .. U32Max
    <2>1. Frame(streamSeq, body).n = streamSeq
      BY DEF Frame
    <2> QED BY <1>1, <1>3, <2>1, Grown
  <1> QED BY <1>2, <1>3, StreamStep

\* The histogram's total is a 32-bit counter.
LEMMA HistogramAddType ==
  ASSUME U32MaxAssumption, NEW h \in [count : 0 .. U32Max, saturated : BOOLEAN]
  PROVE  HistogramAdd(h) \in [count : 0 .. U32Max, saturated : BOOLEAN]
  BY CounterTypes DEF HistogramAdd

LEMMA PhaseTypes ==
  ASSUME U32MaxAssumption, TypeOK, SessionTypes, [SessionNext]_allVars
  PROVE  /\ setup' = setup /\ phase' \in Phases /\ owed' \in BOOLEAN
         /\ okIds' \subseteq 0 .. offered' - 1
         /\ histogram' \in [count : 0 .. U32Max, saturated : BOOLEAN]
         /\ ~EngineDrains' => ~owed'
         /\ owed' => phase' = "body"
         /\ Summarised' => room' = 0
PROOF
  <1> USE DEF SessionTypes, Phases, Summarised, EngineDrains
  <1>1. ASSUME NEW body, Emit(body)
        PROVE  UNCHANGED <<room, offered>>
    BY <1>1 DEF Emit, ringVars
  <1>2. CASE EmitHeader
    BY <1>1, <1>2 DEF EmitHeader
  <1>3. ASSUME NEW ok \in BOOLEAN, Transaction(ok)
        PROVE  /\ setup' = setup /\ phase' \in Phases /\ owed' \in BOOLEAN
               /\ okIds' \subseteq 0 .. offered' - 1
               /\ histogram' \in [count : 0 .. U32Max, saturated : BOOLEAN]
               /\ ~EngineDrains' => ~owed'
               /\ owed' => phase' = "body"
               /\ Summarised' => room' = 0
    <2>1. offered' = offered + 1 /\ offered \in Nat
      BY <1>3 DEF Transaction, Push, Drop, TypeOK
    <2>2. okIds' \subseteq 0 .. offered' - 1
      BY <1>3, <2>1 DEF Transaction
    <2>3. histogram' \in [count : 0 .. U32Max, saturated : BOOLEAN]
      BY <1>3, HistogramAddType DEF Transaction
    <2> QED BY <1>3, <2>2, <2>3 DEF Transaction, Owes
  <1>4. CASE EngineDrain
    BY <1>4 DEF EngineDrain, StartDrain
  <1>5. CASE CallerDrain
    BY <1>5 DEF CallerDrain, StartDrain, sessionVars
  <1>6. CASE FinalDrain
    BY <1>6 DEF FinalDrain, StartDrain
  <1>7. CASE EndOfRun
    BY <1>7 DEF EndOfRun, vars
  <1>8. CASE Drains
    <2>1. room > 0 /\ offered' = offered
      BY <1>8 DEF Drains, DrainStep, DrainGap, RefuseGap, DrainSample, RefuseSample,
                  DrainEmpty
    <2> QED BY <1>8, <2>1 DEF Drains, sessionVars
  <1>9. CASE EmitSummary
    BY <1>1, <1>9 DEF EmitSummary
  <1>10. CASE EmitHistogram
    BY <1>1, <1>10 DEF EmitHistogram, vars
  <1>11. CASE EmitFooter
    BY <1>1, <1>11 DEF EmitFooter
  <1>12. CASE Capture
    BY <1>12 DEF Capture, vars
  <1>13. CASE UNCHANGED allVars
    BY <1>13 DEF allVars, vars, sessionVars
  <1> QED BY <1>2, <1>3, <1>4, <1>5, <1>6, <1>7, <1>8, <1>9, <1>10, <1>11, <1>12,
             <1>13 DEF SessionNext

LEMMA SessionKeepsTypes ==
  ASSUME U32MaxAssumption, TypeOK, SessionTypes, [SessionNext]_allVars
  PROVE  SessionTypes'
  BY StreamTypes, PhaseTypes DEF SessionTypes

\* A drain of the engine pops what its transaction deposited, whatever the sink
\* answers: with a slot in the ring, nothing is ever dropped.
LEMMA EngineKeepsUp ==
  ASSUME RingAssumption, SessionAssumption, RingInvariant, SessionTypes, EngineInv,
         [SessionNext]_allVars
  PROVE  EngineInv'
PROOF
  <1>1. SUFFICES ASSUME EngineDrains', Capacity > 0
                 PROVE  /\ producerDrop' = 0 /\ gapCount' = 0
                        /\ count' <= 1
                        /\ owed' => room' = 0
                        /\ room' = 0 /\ ~owed' => count' = 0
    BY DEF EngineInv
  <1>2. setup' = setup
    BY DEF SessionNext, EmitHeader, Transaction, EngineDrain, CallerDrain,
           FinalDrain, EndOfRun, Drains, EmitSummary, EmitHistogram, EmitFooter,
           Capture, allVars, sessionVars
  <1>3. /\ EngineDrains
        /\ producerDrop = 0 /\ gapCount = 0 /\ count <= 1
        /\ owed => room = 0
        /\ room = 0 /\ ~owed => count = 0
    BY <1>1, <1>2 DEF EngineInv, EngineDrains
  <1>4. count \in Nat /\ room \in Nat /\ Capacity \in Nat
    BY DEF RingInvariant, TypeOK, RingAssumption
  <1>5. ASSUME UNCHANGED <<producerDrop, gapCount, count, owed, room>>
        PROVE  /\ producerDrop' = 0 /\ gapCount' = 0
               /\ count' <= 1
               /\ owed' => room' = 0
               /\ room' = 0 /\ ~owed' => count' = 0
    BY <1>3, <1>5
  <1>6. ASSUME NEW body, Emit(body)
        PROVE  UNCHANGED <<producerDrop, gapCount, count, room>>
    BY <1>6 DEF Emit, ringVars, gapVars, sampleVars
  <1>7. ASSUME NEW ok \in BOOLEAN, Transaction(ok)
        PROVE  /\ producerDrop' = 0 /\ gapCount' = 0 /\ count' = 1
               /\ owed' /\ room' = 0
    <2>1. room = 0 /\ ~owed
      BY <1>7 DEF Transaction, Push, Drop
    <2>2. ~RingFull
      BY <1>1, <1>3, <1>4, <2>1 DEF RingFull
    <2>3. Push
      BY <1>7, <2>2 DEF Transaction, Drop
    <2> QED BY <1>3, <1>7, <2>1, <2>3 DEF Transaction, Push, Owes, gapVars
  <1>8. CASE EngineDrain
    BY <1>3, <1>8, BudgetsAreNaturals
       DEF EngineDrain, StartDrain, SessionAssumption, sampleVars, gapVars
  <1>9. CASE CallerDrain \/ FinalDrain
    BY <1>3, <1>9 DEF CallerDrain, FinalDrain
  <1>10. CASE Drains
    <2>1. room > 0
      BY <1>10 DEF Drains, DrainStep, DrainGap, RefuseGap, DrainSample, RefuseSample,
                   DrainEmpty
    <2>2. ~owed /\ ~GapDue
      BY <1>3, <1>4, <2>1 DEF GapDue
    <2>3. DrainSample \/ RefuseSample \/ DrainEmpty
      BY <1>10, <2>2 DEF Drains, DrainStep, DrainGap, RefuseGap
    <2>5. UNCHANGED <<producerDrop, gapCount>>
      BY <2>3 DEF DrainSample, RefuseSample, DrainEmpty, gapVars
    <2>6. (count > 0 /\ count' = count - 1) \/ (count = 0 /\ count' = count)
      BY <2>3 DEF DrainSample, RefuseSample, DrainEmpty, Pop, sampleVars
    <2>7. producerDrop' = 0 /\ gapCount' = 0 /\ count' = 0
      BY <1>3, <1>4, <2>5, <2>6
    <2>4. owed' = owed
      BY <1>10 DEF Drains, sessionVars
    <2> QED BY <2>2, <2>4, <2>7
  <1>11. CASE EmitHeader \/ EmitSummary \/ EmitFooter
    BY <1>5, <1>6, <1>11 DEF EmitHeader, EmitSummary, EmitFooter
  <1>12. CASE EmitHistogram \/ EndOfRun \/ Capture \/ UNCHANGED allVars
    BY <1>5, <1>6, <1>12 DEF EmitHistogram, EndOfRun, Capture, allVars, vars, sampleVars,
                             gapVars, sessionVars
  <1>13. ASSUME NEW ok \in BOOLEAN, Transaction(ok)
         PROVE  /\ producerDrop' = 0 /\ gapCount' = 0
                /\ count' <= 1
                /\ owed' => room' = 0
                /\ room' = 0 /\ ~owed' => count' = 0
    BY <1>7, <1>13
  <1> QED BY <1>8, <1>9, <1>10, <1>11, <1>12, <1>13 DEF SessionNext

-----------------------------------------------------------------------------
(* What the ring keeps, and what was sent of it.                           *)

\* The ring's contents change in a transaction or in a drain.
LEMMA OnlyRingSteps ==
  ASSUME [SessionNext]_allVars
  PROVE  \/ \E ok \in BOOLEAN : Transaction(ok)
         \/ Drains
         \/ UNCHANGED <<sampleVars, gapVars, producerDrop, offered, kept, wire>>
PROOF
  <1>1. ASSUME NEW body, Emit(body)
        PROVE  UNCHANGED <<sampleVars, gapVars, producerDrop, offered, kept, wire>>
    BY <1>1 DEF Emit, ringVars
  <1> QED BY <1>1 DEF SessionNext, EmitHeader, EngineDrain, CallerDrain, FinalDrain,
             EndOfRun, EmitSummary, EmitHistogram, EmitFooter, Capture, allVars, vars,
             StartDrain

\* A counter that was incremented is not zero.
LEMMA CountedIsSeen ==
  ASSUME U32MaxAssumption, NEW n \in 0 .. U32Max
  PROVE  SatInc(n) # 0
  BY U32MaxAssumption DEF SatInc

LEMMA NoDropNoLoss ==
  ASSUME U32MaxAssumption, RingInvariant, DropFree, [SessionNext]_allVars
  PROVE  DropFree'
PROOF
  <1> SUFFICES ASSUME producerDrop' = 0 PROVE kept' = Issued' /\ gapCount' = 0
    BY DEF DropFree
  <1>1. /\ producerDrop \in 0 .. U32Max /\ offered \in Nat
        /\ gapCount \in Nat
    BY DEF RingInvariant, TypeOK
  <1>2. ASSUME NEW ok \in BOOLEAN, Transaction(ok)
        PROVE  kept' = Issued' /\ gapCount' = 0
    <2>1. ~Drop
      BY <1>1, CountedIsSeen DEF Drop, RecordDrop
    <2>2. Push
      BY <1>2, <2>1 DEF Transaction
    <2>3. kept = 0 .. offered - 1 /\ gapCount = 0
      BY <2>2 DEF Push, DropFree, Issued
    <2>4. kept' = kept \cup {offered} /\ offered' = offered + 1 /\ gapCount' = gapCount
      BY <2>2 DEF Push, gapVars
    <2> QED BY <1>1, <2>3, <2>4 DEF Issued
  <1>3. CASE Drains
    <2>1. UNCHANGED <<producerDrop, kept, offered>>
      BY <1>3 DEF Drains, DrainStep, DrainGap, RefuseGap, DrainSample, RefuseSample,
                  DrainEmpty
    <2>2. kept = Issued /\ gapCount = 0
      BY <2>1 DEF DropFree
    <2>3. ~DrainGap
      BY <2>2 DEF DrainGap, GapDue
    <2>4. gapCount' = gapCount
      BY <1>3, <2>3 DEF Drains, DrainStep, RefuseGap, DrainSample, RefuseSample,
                        DrainEmpty, gapVars
    <2> QED BY <2>1, <2>2, <2>4 DEF Issued
  <1>4. CASE UNCHANGED <<sampleVars, gapVars, producerDrop, offered, kept, wire>>
    BY <1>4 DEF DropFree, Issued, gapVars
  <1> QED BY <1>2, <1>3, <1>4, OnlyRingSteps

\* What a record appended to the wire adds to what was sent.
LEMMA SentRecord ==
  ASSUME NEW r \in Record, wire \in Seq(Record), wire' = Append(wire, r)
  PROVE  /\ r.kind = "gap" => Delivered' = Delivered
         /\ r.kind = "sample" => Delivered' = Delivered \cup {r.seq} /\ SentGaps' = SentGaps
PROOF
  <1>1. /\ Len(wire) \in Nat /\ DOMAIN wire = 1 .. Len(wire)
        /\ DOMAIN wire' = 1 .. Len(wire) + 1 /\ Len(wire') = Len(wire) + 1
        /\ \A k \in DOMAIN wire : wire'[k] = wire[k]
        /\ wire'[Len(wire) + 1] = r
    OBVIOUS
  <1> QED BY <1>1 DEF Delivered, SentGaps

LEMMA NothingWithoutASlot ==
  ASSUME RingAssumption, RingInvariant, NoSlot, [SessionNext]_allVars
  PROVE  NoSlot'
PROOF
  <1> SUFFICES ASSUME Capacity = 0 PROVE kept' = {}
    BY DEF NoSlot
  <1>1. kept = {} /\ count = 0
    BY DEF NoSlot, RingInvariant, TypeOK
  <1>2. ~Push
    BY <1>1 DEF Push, RingFull
  <1>3. ASSUME NEW ok \in BOOLEAN, Transaction(ok) PROVE kept' = kept
    BY <1>2, <1>3 DEF Transaction, Drop
  <1>4. CASE Drains
    BY <1>1, <1>4 DEF Drains, DrainStep, DrainGap, RefuseGap, DrainSample,
                      RefuseSample, DrainEmpty
  <1>5. CASE UNCHANGED <<sampleVars, gapVars, producerDrop, offered, kept, wire>>
    BY <1>1, <1>5
  <1> QED BY <1>1, <1>3, <1>4, <1>5, OnlyRingSteps

LEMMA NoMemoryNoGaps ==
  ASSUME RingAssumption, RingInvariant, NoGapMemory, [SessionNext]_allVars
  PROVE  NoGapMemory'
PROOF
  <1> SUFFICES ASSUME GapCapacity = 0 PROVE gapCount' = 0 /\ SentGaps' = {}
    BY DEF NoGapMemory
  <1>1. gapCount = 0 /\ SentGaps = {}
    BY DEF NoGapMemory
  <1>2. ASSUME NEW ok \in BOOLEAN, Transaction(ok)
        PROVE  UNCHANGED <<gapCount, wire>>
    BY <1>2 DEF Transaction, Push, Drop, RecordDrop, LocateNowhere, LocateInNewest,
                LocateByMerging, LocateInNewRecord, gapVars
  <1>3. CASE Drains
    <2>1. ~DrainGap
      BY <1>1 DEF DrainGap, GapDue
    <2>2. gapCount' = gapCount
      BY <1>3, <2>1 DEF Drains, DrainStep, RefuseGap, DrainSample, RefuseSample,
                        DrainEmpty, gapVars
    <2>3. CASE DrainSample
      <3>1. wire' = Append(wire, Sample(SampleAt(0))) /\ count > 0
        BY <2>3 DEF DrainSample, Pop
      <3>2. wire \in Seq(Record) /\ SampleAt(0) \in Nat
        BY <3>1, InvTypes DEF Slots0
      <3>3. Sample(SampleAt(0)) \in Record /\ Sample(SampleAt(0)).kind = "sample"
        BY <3>2 DEF Sample, Record
      <3> QED BY <1>1, <2>2, <3>1, <3>2, <3>3, SentRecord
    <2>4. CASE RefuseGap \/ RefuseSample \/ DrainEmpty
      BY <1>1, <2>2, <2>4 DEF RefuseGap, RefuseSample, DrainEmpty, SentGaps
    <2> QED BY <1>3, <2>1, <2>3, <2>4 DEF Drains, DrainStep
  <1>4. CASE UNCHANGED <<sampleVars, gapVars, producerDrop, offered, kept, wire>>
    BY <1>1, <1>4 DEF SentGaps, gapVars
  <1> QED BY <1>1, <1>2, <1>3, <1>4, OnlyRingSteps DEF SentGaps

\* A refusal leaves its mark.
LEMMA RefusalsAreSeen ==
  ASSUME U32MaxAssumption, TypeOK, [SessionNext]_allVars, framesRefused' = 0
  PROVE  /\ framesRefused = 0
         /\ ~RefuseGap /\ ~RefuseSample
PROOF
  <1>1. framesRefused \in 0 .. U32Max
    BY DEF TypeOK
  <1>2. ~EmitFrame(FALSE)
    BY <1>1, CountedIsSeen DEF EmitFrame
  <1>3. ASSUME NEW body, Emit(body)
        PROVE  framesRefused = 0
    <2>1. PICK accepted \in BOOLEAN : EmitFrame(accepted)
      BY <1>3 DEF Emit
    <2> QED BY <1>1, <2>1, CountedIsSeen DEF EmitFrame
  <1>4. ~RefuseGap /\ ~RefuseSample
    BY <1>2 DEF RefuseGap, RefuseSample
  <1>5. CASE Drains
    <2>1. DrainGap \/ DrainSample \/ DrainEmpty
      BY <1>4, <1>5 DEF Drains, DrainStep
    <2>2. framesRefused' = framesRefused
      BY <2>1 DEF DrainGap, DrainSample, DrainEmpty, EmitFrame, frameVars
    <2> QED BY <1>4, <2>2
  <1>6. ASSUME NEW ok \in BOOLEAN, Transaction(ok)
        PROVE  framesRefused = 0
    BY <1>6 DEF Transaction, Push, Drop, frameVars
  <1>7. ASSUME UNCHANGED frameVars PROVE framesRefused = 0
    BY <1>7 DEF frameVars
  <1>8. CASE EngineDrain \/ CallerDrain \/ FinalDrain
    BY <1>4, <1>7, <1>8 DEF EngineDrain, CallerDrain, FinalDrain, StartDrain
  <1>9. CASE EndOfRun \/ Capture \/ UNCHANGED allVars
    BY <1>4, <1>7, <1>9 DEF EndOfRun, Capture, allVars, vars
  <1>10. CASE EmitHeader \/ EmitSummary \/ EmitFooter
    BY <1>4, <1>3, <1>10 DEF EmitHeader, EmitSummary, EmitFooter
  <1>11. CASE EmitHistogram
    BY <1>4, <1>3, <1>7, <1>11 DEF EmitHistogram, vars
  <1> QED BY <1>4, <1>5, <1>6, <1>8, <1>9, <1>10, <1>11 DEF SessionNext

\* The ring's contents after a deposit and after a pop.
LEMMA PushedId ==
  ASSUME RingAssumption, RingInvariant, Push
  PROVE  RingIds' = RingIds \cup {offered}
PROOF
  <1>1. count \in Nat /\ count' = count + 1
    BY InvTypes DEF Push
  <1>2. \A i \in 0 .. count :
          SampleAt(i)' = IF i < count THEN SampleAt(i) ELSE offered
    BY PushView DEF RingInvariant
  <1> HIDE DEF Push
  <1>3. RingIds' = {SampleAt(i)' : i \in 0 .. count}
    BY <1>1 DEF RingIds
  <1> QED BY <1>1, <1>2, <1>3 DEF RingIds

LEMMA PoppedId ==
  ASSUME RingAssumption, RingInvariant, Pop
  PROVE  /\ RingIds = RingIds' \cup {SampleAt(0)}
         /\ SampleAt(0) \in kept /\ SampleAt(0) \in Nat
PROOF
  <1>1. count \in Nat /\ count > 0 /\ count' = count - 1
    BY InvTypes DEF Pop
  <1>2. \A i \in 0 .. count - 2 : SampleAt(i)' = SampleAt(i + 1)
    BY PopView DEF RingInvariant
  <1>3. SampleAt(0) \in kept /\ SampleAt(0) \in Nat
    BY <1>1, InvTypes DEF RingInvariant, SamplesInv, Slots0
  <1>4. RingIds' = {SampleAt(i)' : i \in 0 .. count - 2}
    BY <1>1 DEF RingIds
  <1>5. RingIds' = {SampleAt(i + 1) : i \in 0 .. count - 2}
    BY <1>2, <1>4
  <1>6. \A i \in 0 .. count - 1 : i = 0 \/ (i - 1 \in 0 .. count - 2 /\ (i - 1) + 1 = i)
    BY <1>1
  <1>7. RingIds \subseteq RingIds' \cup {SampleAt(0)}
    BY <1>1, <1>5, <1>6 DEF RingIds
  <1>8. RingIds' \cup {SampleAt(0)} \subseteq RingIds
    BY <1>1, <1>5 DEF RingIds
  <1> QED BY <1>3, <1>7, <1>8

LEMMA NothingAstray ==
  ASSUME U32MaxAssumption, RingAssumption, RingInvariant, DeliveryInv,
         [SessionNext]_allVars
  PROVE  DeliveryInv'
PROOF
  <1>1. TypeOK /\ wire \in Seq(Record)
    BY DEF RingInvariant, TypeOK
  <1>2. framesRefused' = 0 => framesRefused = 0 /\ ~RefuseGap /\ ~RefuseSample
    BY <1>1, RefusalsAreSeen
  <1>3. ASSUME UNCHANGED <<sampleVars, kept>>, Delivered' = Delivered
        PROVE  DeliveryInv'
    <2>1. RingIds' = RingIds
      BY <1>3 DEF RingIds, sampleVars, SampleAt, SlotIndex
    <2> QED BY <1>2, <1>3, <2>1 DEF DeliveryInv
  <1>4. ASSUME NEW ok \in BOOLEAN, Transaction(ok)
        PROVE  DeliveryInv'
    <2>1. CASE Push
      <3>1. RingIds' = RingIds \cup {offered}
        BY <2>1, PushedId
      <3>2. kept' = kept \cup {offered} /\ Delivered' = Delivered
        BY <2>1 DEF Push, Delivered
      <3> QED BY <1>2, <3>1, <3>2 DEF DeliveryInv
    <2>2. CASE Drop
      BY <1>3, <2>2 DEF Drop, Delivered
    <2> QED BY <1>4, <2>1, <2>2 DEF Transaction
  <1>5. CASE Drains
    <2>1. CASE DrainGap
      <3>1. /\ wire' = Append(wire, Gap(GapAt(0).lost, GapAt(0).after))
            /\ UNCHANGED <<sampleVars, kept>> /\ gapCount > 0
        BY <2>1 DEF DrainGap, GapDue
      <3>2. GapAt(0) \in GapRecord
        BY <3>1, InvTypes DEF Gaps0
      <3>3. /\ Gap(GapAt(0).lost, GapAt(0).after) \in Record
            /\ Gap(GapAt(0).lost, GapAt(0).after).kind = "gap"
        BY <3>2 DEF Gap, GapRecord, Record
      <3>4. Delivered' = Delivered
        BY <1>1, <3>1, <3>3, SentRecord
      <3> QED BY <1>3, <3>1, <3>4
    <2>2. CASE DrainSample
      <3>1. /\ wire' = Append(wire, Sample(SampleAt(0))) /\ kept' = kept
            /\ Pop
        BY <2>2 DEF DrainSample
      <3>2. /\ RingIds = RingIds' \cup {SampleAt(0)}
            /\ SampleAt(0) \in kept /\ SampleAt(0) \in Nat
        BY <3>1, PoppedId
      <3>3. /\ Sample(SampleAt(0)) \in Record /\ Sample(SampleAt(0)).kind = "sample"
            /\ Sample(SampleAt(0)).seq = SampleAt(0)
        BY <3>2 DEF Sample, Record
      <3>4. Delivered' = Delivered \cup {SampleAt(0)}
        BY <1>1, <3>1, <3>3, SentRecord
      <3> QED BY <1>2, <3>1, <3>2, <3>4 DEF DeliveryInv
    <2>3. CASE RefuseSample
      <3>1. kept' = kept /\ Delivered' = Delivered
        BY <2>3 DEF RefuseSample, Delivered
      <3> QED BY <1>2, <2>3, <3>1 DEF DeliveryInv
    <2>4. CASE RefuseGap \/ DrainEmpty
      BY <1>3, <2>4 DEF RefuseGap, DrainEmpty, Delivered
    <2> QED BY <1>5, <2>1, <2>2, <2>3, <2>4 DEF Drains, DrainStep
  <1>6. CASE UNCHANGED <<sampleVars, gapVars, producerDrop, offered, kept, wire>>
    BY <1>3, <1>6 DEF Delivered
  <1> QED BY <1>4, <1>5, <1>6, OnlyRingSteps

-----------------------------------------------------------------------------
(* The end of the session.                                                 *)

\* A pending gap of an empty ring is due.
LEMMA NoGapWaits ==
  ASSUME RingAssumption, RingInvariant, count = 0, ~GapDue
  PROVE  gapCount = 0
PROOF
  <1>1. /\ gapCount \in Nat /\ pushedTotal \in Nat /\ poppedTotal \in Nat
        /\ pushedTotal = poppedTotal + count
    BY InvTypes DEF RingInvariant, SamplesInv
  <1>2. ASSUME gapCount > 0 PROVE FALSE
    <2>1. 0 \in Gaps0
      BY <1>1, <1>2 DEF Gaps0
    <2>2. Position(0) \in poppedTotal .. pushedTotal
      BY <2>1 DEF RingInvariant, PositionsInv
    <2> QED BY <1>1, <1>2, <2>2 DEF GapDue, Position
  <1> QED BY <1>1, <1>2

\* Once the summary is due, the counters it reports do not change and no frame
\* is emitted but the session's own.
LEMMA AfterTheBody ==
  ASSUME SessionTypes, [SessionNext]_allVars, Summarised
  PROVE  /\ \/ EmitHistogram \/ EmitFooter \/ Capture \/ UNCHANGED allVars
         /\ Summarised'
         /\ UNCHANGED <<setup, okIds, histogram, ringVars>>
PROOF
  <1>1. room = 0 /\ ~owed /\ phase \notin {"header", "body", "summary"}
    BY DEF SessionTypes, Summarised
  <1>2. ~Drains
    BY <1>1 DEF Drains, DrainStep, DrainGap, RefuseGap, DrainSample, RefuseSample,
                DrainEmpty
  <1>3. EmitHistogram \/ EmitFooter \/ Capture \/ UNCHANGED allVars
    BY <1>1, <1>2 DEF SessionNext, EmitHeader, Transaction, EngineDrain, CallerDrain,
                      FinalDrain, EndOfRun, EmitSummary
  <1>4. Summarised'
    BY <1>3 DEF Summarised, EmitHistogram, EmitFooter, Capture, allVars, sessionVars
  <1>5. ASSUME NEW body, Emit(body) PROVE UNCHANGED ringVars
    BY <1>5 DEF Emit
  <1>6. ASSUME UNCHANGED vars PROVE UNCHANGED ringVars
    BY <1>6 DEF vars, ringVars
  <1>7. UNCHANGED <<setup, okIds, histogram>>
    BY <1>3 DEF EmitHistogram, EmitFooter, Capture, allVars, sessionVars
  <1>8. UNCHANGED ringVars
    BY <1>3, <1>5, <1>6 DEF EmitHistogram, EmitFooter, Capture, allVars
  <1> QED BY <1>3, <1>4, <1>7, <1>8

LEMMA EmptiedAtTheEnd ==
  ASSUME U32MaxAssumption, RingAssumption, SessionAssumption, RingInvariant,
         SessionTypes, EngineInv, EmptiedInv, [SessionNext]_allVars
  PROVE  EmptiedInv'
PROOF
  <1>1. SUFFICES ASSUME framesRefused' = 0, phase' \notin {"header", "body"},
                        EngineDrains' => Capacity > 0
                 PROVE  \/ room' > count' + gapCount'
                        \/ room' = 0 /\ count' = 0 /\ gapCount' = 0
    BY DEF EmptiedInv
  <1>2. /\ count \in 0 .. Capacity /\ gapCount \in 0 .. GapCapacity /\ room \in Nat
        /\ Capacity \in Nat /\ GapCapacity \in Nat
    BY DEF RingInvariant, TypeOK, RingAssumption
  <1>3. framesRefused = 0 /\ ~RefuseGap /\ ~RefuseSample
    BY <1>1, RefusalsAreSeen DEF RingInvariant
  <1>4. setup' = setup
    BY DEF SessionNext, EmitHeader, Transaction, EngineDrain, CallerDrain,
           FinalDrain, EndOfRun, Drains, EmitSummary, EmitHistogram, EmitFooter,
           Capture, allVars, sessionVars
  <1>5. EngineDrains => Capacity > 0
    BY <1>1, <1>4 DEF EngineDrains
  <1>6. CASE FinalDrain
    <2>1. room' = FinalBudget /\ count' = count /\ gapCount' = gapCount
      BY <1>6 DEF FinalDrain, StartDrain, sampleVars, gapVars
    <2>2. FinalBudget \in Nat /\ FinalBudget > Capacity + GapCapacity
      BY DEF SessionAssumption
    <2> QED BY <1>2, <2>1, <2>2
  <1>7. CASE EndOfRun
    <2>1. EngineDrains /\ room = 0 /\ ~owed
      BY <1>7 DEF EndOfRun
    <2>2. count = 0 /\ gapCount = 0
      BY <1>5, <2>1 DEF EngineInv
    <2>3. room' = room /\ count' = count /\ gapCount' = gapCount
      BY <1>7 DEF EndOfRun, vars, sampleVars, gapVars
    <2> QED BY <2>1, <2>2, <2>3
  <1>8. CASE Drains
    <2>1. phase' = phase
      BY <1>8 DEF Drains, sessionVars
    <2>2. room > count + gapCount \/ (room = 0 /\ count = 0 /\ gapCount = 0)
      BY <1>1, <1>3, <1>5, <2>1 DEF EmptiedInv
    <2>3. DrainGap \/ DrainSample \/ DrainEmpty
      BY <1>3, <1>8 DEF Drains, DrainStep
    <2>4. room > 0
      BY <2>3 DEF DrainGap, DrainSample, DrainEmpty
    <2>5. CASE DrainGap
      <3>1. room' = room - 1 /\ gapCount' = gapCount - 1 /\ count' = count
        BY <2>5 DEF DrainGap, sampleVars
      <3> QED BY <1>2, <2>2, <2>4, <3>1
    <2>6. CASE DrainSample
      <3>1. room' = room - 1 /\ gapCount' = gapCount /\ count' = count - 1
        BY <2>6 DEF DrainSample, Pop, gapVars
      <3> QED BY <1>2, <2>2, <2>4, <3>1
    <2>7. CASE DrainEmpty
      <3>1. /\ room' = 0 /\ gapCount' = gapCount /\ count' = count
            /\ count = 0 /\ ~GapDue
        BY <2>7 DEF DrainEmpty, gapVars, sampleVars
      <3>2. gapCount = 0
        BY <3>1, NoGapWaits
      <3> QED BY <3>1, <3>2
    <2> QED BY <2>3, <2>5, <2>6, <2>7
  <1>9. CASE EmitSummary \/ EmitHistogram \/ EmitFooter \/ Capture \/ UNCHANGED allVars
    <2>1. phase \notin {"header", "body"}
      BY <1>1, <1>9 DEF EmitSummary, EmitHistogram, EmitFooter, Capture, allVars,
                        sessionVars
    <2>2. ASSUME UNCHANGED ringVars
          PROVE  UNCHANGED <<room, count, gapCount>>
      BY <2>2 DEF ringVars, sampleVars, gapVars
    <2>3. ASSUME NEW body, Emit(body) PROVE UNCHANGED ringVars
      BY <2>3 DEF Emit
    <2>4. ASSUME UNCHANGED vars PROVE UNCHANGED ringVars
      BY <2>4 DEF vars, ringVars
    <2>5. UNCHANGED ringVars
      BY <1>9, <2>3, <2>4 DEF EmitSummary, EmitHistogram, EmitFooter, Capture, allVars
    <2> QED BY <1>3, <1>5, <2>1, <2>2, <2>5 DEF EmptiedInv
  <1>10. ~EmitHeader /\ ~(\E ok \in BOOLEAN : Transaction(ok)) /\ ~EngineDrain
         /\ ~CallerDrain
    BY <1>1 DEF EmitHeader, Transaction, EngineDrain, CallerDrain, SessionTypes,
                sessionVars
  <1> QED BY <1>6, <1>7, <1>8, <1>9, <1>10 DEF SessionNext

LEMMA HistogramFollows ==
  ASSUME U32MaxAssumption, RingAssumption, SessionAssumption, RingInvariant,
         SessionTypes, EngineInv, HistogramInv, [SessionNext]_allVars
  PROVE  HistogramInv'
PROOF
  <1>1. ASSUME UNCHANGED <<setup, histogram, kept, okIds>> PROVE HistogramInv'
    BY <1>1 DEF HistogramInv, HistogramOn, EngineDrains
  <1>2. ASSUME NEW ok \in BOOLEAN, Transaction(ok) PROVE HistogramInv'
    <2>1. SUFFICES ASSUME HistogramOn', ~histogram'.saturated,
                          EngineDrains' => Capacity > 0
                   PROVE  histogram'.count = Cardinality(kept' \cap okIds')
      BY DEF HistogramInv
    <2>2. /\ HistogramOn /\ (EngineDrains => Capacity > 0)
          /\ histogram \in [count : 0 .. U32Max, saturated : BOOLEAN]
          /\ kept \subseteq 0 .. offered - 1 /\ okIds \subseteq 0 .. offered - 1
          /\ offered \in Nat
      BY <1>2, <2>1, InvTypes DEF Transaction, HistogramOn, EngineDrains, SessionTypes
    <2>3. ~histogram.saturated
      BY <1>2, <2>1, <2>2 DEF Transaction, HistogramAdd
    <2>4. histogram.count = Cardinality(kept \cap okIds)
      BY <2>2, <2>3 DEF HistogramInv
    <2>5. EngineDrains => Push
      <3>1. SUFFICES ASSUME EngineDrains PROVE Push
        OBVIOUS
      <3>2. room = 0 /\ ~owed
        BY <1>2 DEF Transaction, Push, Drop
      <3>3. count = 0 /\ Capacity \in Nat
        BY <2>2, <3>1, <3>2 DEF EngineInv, RingAssumption
      <3> QED BY <1>2, <2>2, <3>1, <3>3 DEF Transaction, Drop, RingFull
    <2>6. CASE Push /\ ok
      <3>1. kept' \cap okIds' = (kept \cap okIds) \cup {offered}
        BY <1>2, <2>2, <2>6 DEF Transaction, Push
      <3>2. histogram' = HistogramAdd(histogram)
        BY <1>2, <2>2, <2>6 DEF Transaction, FeedsHistogram, Push
      <3>3. histogram'.count = histogram.count + 1
        <4>1. /\ histogram'.count = SatInc(histogram.count)
              /\ histogram'.saturated = (histogram.saturated \/ histogram.count = U32Max)
          BY <3>2 DEF HistogramAdd
        <4>2. histogram.count \in 0 .. U32Max /\ histogram.count # U32Max
          BY <2>1, <2>2, <4>1
        <4> QED BY <4>1, <4>2, U32MaxAssumption DEF SatInc
      <3>4. IsFiniteSet(kept \cap okIds) /\ offered \notin kept \cap okIds
        <4>1. IsFiniteSet(0 .. offered - 1)
          BY <2>2, FS_Interval
        <4>2. kept \cap okIds \in SUBSET (0 .. offered - 1)
          BY <2>2
        <4>3. IsFiniteSet(kept \cap okIds)
          BY <4>1, <4>2, FS_Subset
        <4>4. offered \notin 0 .. offered - 1
          BY <2>2
        <4> QED BY <4>2, <4>3, <4>4
      <3>5. Cardinality((kept \cap okIds) \cup {offered}) = Cardinality(kept \cap okIds) + 1
        BY <3>4, FS_AddElement
      <3> QED BY <2>4, <3>1, <3>3, <3>5
    <2>7. CASE Push /\ ~ok
      <3>1. kept' \cap okIds' = kept \cap okIds
        BY <1>2, <2>2, <2>7 DEF Transaction, Push
      <3>2. histogram' = histogram
        BY <1>2, <2>7 DEF Transaction, FeedsHistogram
      <3> QED BY <2>4, <3>1, <3>2
    <2>8. CASE Drop /\ ~Push
      <3>1. kept' \cap okIds' = kept \cap okIds
        BY <1>2, <2>2, <2>8 DEF Transaction, Drop
      <3>2. histogram' = histogram
        BY <1>2, <2>5, <2>8 DEF Transaction, FeedsHistogram, Drop
      <3> QED BY <2>4, <3>1, <3>2
    <2> QED BY <1>2, <2>6, <2>7, <2>8 DEF Transaction
  <1>3. ASSUME NEW body, Emit(body) PROVE UNCHANGED kept
    BY <1>3 DEF Emit, ringVars
  <1>4. CASE EmitHeader \/ EmitSummary \/ EmitFooter
    BY <1>1, <1>3, <1>4 DEF EmitHeader, EmitSummary, EmitFooter
  <1>5. CASE EmitHistogram
    BY <1>1, <1>3, <1>5 DEF EmitHistogram, vars
  <1>6. CASE EngineDrain \/ CallerDrain \/ FinalDrain
    BY <1>1, <1>6 DEF EngineDrain, CallerDrain, FinalDrain, StartDrain, sessionVars
  <1>7. CASE EndOfRun \/ Capture \/ UNCHANGED allVars
    BY <1>1, <1>7 DEF EndOfRun, Capture, allVars, vars, sessionVars
  <1>8. CASE Drains
    <2>1. kept' = kept
      BY <1>8 DEF Drains, DrainStep, DrainGap, RefuseGap, DrainSample, RefuseSample,
                  DrainEmpty
    <2> QED BY <1>1, <1>8, <2>1 DEF Drains, sessionVars
  <1> QED BY <1>2, <1>4, <1>5, <1>6, <1>7, <1>8 DEF SessionNext

-----------------------------------------------------------------------------
(* The frames and their numbers.                                           *)

\* A frame of a drain carries the record that was sent.
LEMMA DrainFrames ==
  ASSUME RingAssumption, RingInvariant, Drains
  PROVE  \/ /\ UNCHANGED <<frameVars, stream, wire>>
         \/ /\ EmitFrame(FALSE) /\ UNCHANGED <<stream, wire>>
         \/ \E r \in Record : /\ EmitFrame(TRUE)
                              /\ wire' = Append(wire, r)
                              /\ stream' = Append(stream, Frame(streamSeq, r))
PROOF
  <1>1. wire \in Seq(Record)
    BY DEF RingInvariant, TypeOK
  <1>2. ASSUME wire' = wire PROVE stream' = stream
    BY <1>2 DEF Drains
  <1>3. ASSUME NEW r \in Record, wire' = Append(wire, r)
        PROVE  stream' = Append(stream, Frame(streamSeq, r))
    <2>1. wire' # wire /\ Last(wire') = r
      <3>1. Len(wire') = Len(wire) + 1 /\ wire'[Len(wire')] = r /\ Len(wire) \in Nat
        BY <1>1, <1>3
      <3> QED BY <3>1 DEF Last
    <2> QED BY <2>1 DEF Drains
  <1>4. CASE DrainGap
    <2>1. /\ wire' = Append(wire, Gap(GapAt(0).lost, GapAt(0).after))
          /\ EmitFrame(TRUE) /\ gapCount > 0
      BY <1>4 DEF DrainGap, GapDue
    <2>2. GapAt(0) \in GapRecord
      BY <2>1, InvTypes DEF Gaps0
    <2>3. Gap(GapAt(0).lost, GapAt(0).after) \in Record
      BY <2>2 DEF Gap, GapRecord, Record
    <2> QED BY <1>3, <2>1, <2>3
  <1>5. CASE DrainSample
    <2>1. wire' = Append(wire, Sample(SampleAt(0))) /\ EmitFrame(TRUE) /\ Pop
      BY <1>5 DEF DrainSample
    <2>2. Sample(SampleAt(0)) \in Record
      BY <2>1, PoppedId DEF Sample, Record
    <2> QED BY <1>3, <2>1, <2>2
  <1>6. CASE RefuseGap \/ RefuseSample
    BY <1>2, <1>6 DEF RefuseGap, RefuseSample
  <1>7. CASE DrainEmpty
    BY <1>2, <1>7 DEF DrainEmpty
  <1> QED BY <1>4, <1>5, <1>6, <1>7 DEF Drains, DrainStep

\* A step emits one frame, which the sink takes or refuses, or none.
LEMMA StepFrames ==
  ASSUME RingAssumption, RingInvariant, [SessionNext]_allVars
  PROVE  \/ UNCHANGED <<frameVars, stream>>
         \/ EmitFrame(FALSE) /\ stream' = stream
         \/ \E body : EmitFrame(TRUE) /\ stream' = Append(stream, Frame(streamSeq, body))
PROOF
  <1> DEFINE Goal == \/ UNCHANGED <<frameVars, stream>>
                     \/ EmitFrame(FALSE) /\ stream' = stream
                     \/ \E body : /\ EmitFrame(TRUE)
                                  /\ stream' = Append(stream, Frame(streamSeq, body))
  <1> SUFFICES Goal
    OBVIOUS
  <1>1. ASSUME NEW body, Emit(body) PROVE Goal
    <2>1. PICK accepted \in BOOLEAN :
            /\ EmitFrame(accepted)
            /\ stream' = IF accepted THEN Append(stream, Frame(streamSeq, body))
                                     ELSE stream
      BY <1>1 DEF Emit
    <2> QED BY <2>1
  <1>2. ASSUME UNCHANGED <<frameVars, stream>> PROVE Goal
    BY <1>2
  <1>3. CASE Drains
    BY <1>3, DrainFrames
  <1> HIDE DEF Goal
  <1>4. ASSUME NEW ok \in BOOLEAN, Transaction(ok) PROVE Goal
    BY <1>2, <1>4 DEF Transaction, Push, Drop
  <1>5. CASE EmitHeader \/ EmitSummary \/ EmitFooter
    BY <1>1, <1>5 DEF EmitHeader, EmitSummary, EmitFooter
  <1>6. CASE EmitHistogram
    BY <1>1, <1>2, <1>6 DEF EmitHistogram, vars
  <1>7. CASE EngineDrain \/ CallerDrain \/ FinalDrain
    BY <1>2, <1>7 DEF EngineDrain, CallerDrain, FinalDrain, StartDrain
  <1>8. CASE EndOfRun \/ Capture \/ UNCHANGED allVars
    BY <1>2, <1>8 DEF EndOfRun, Capture, allVars, vars
  <1> QED BY <1>3, <1>4, <1>5, <1>6, <1>7, <1>8 DEF SessionNext

\* Before the counters could saturate, the next frame has the next number.
LEMMA NextNumber ==
  ASSUME U32MaxAssumption, TypeOK, NEW accepted \in BOOLEAN, EmitFrame(accepted),
         NumbersInv, framesAccepted' + framesRefused' < U32Max
  PROVE  /\ Counted
         /\ streamSeq' = streamSeq + 1
         /\ framesAccepted' + framesRefused' = framesAccepted + framesRefused + 1
         /\ framesAccepted' = IF accepted THEN framesAccepted + 1 ELSE framesAccepted
PROOF
  <1>1. /\ U32Max \in Nat /\ framesAccepted \in 0 .. U32Max /\ framesRefused \in 0 .. U32Max
    BY U32MaxAssumption DEF TypeOK
  <1>2. /\ framesAccepted' = IF accepted THEN SatInc(framesAccepted) ELSE framesAccepted
        /\ framesRefused' = IF accepted THEN framesRefused ELSE SatInc(framesRefused)
        /\ streamSeq' = (streamSeq + 1) % (U32Max + 1)
    BY DEF EmitFrame, WrapInc
  <1>3. /\ framesAccepted' = IF accepted THEN framesAccepted + 1 ELSE framesAccepted
        /\ framesRefused' = IF accepted THEN framesRefused ELSE framesRefused + 1
    BY <1>1, <1>2 DEF SatInc
  <1>4. framesAccepted' + framesRefused' = framesAccepted + framesRefused + 1
    BY <1>1, <1>3
  <1>5. framesAccepted + framesRefused < U32Max
    BY <1>1, <1>4
  <1>6. streamSeq = framesAccepted + framesRefused
    BY <1>5 DEF NumbersInv, Counted
  <1>7. streamSeq + 1 \in Nat /\ streamSeq + 1 < U32Max + 1
    BY <1>1, <1>5, <1>6
  <1>8. (streamSeq + 1) % (U32Max + 1) = streamSeq + 1
    BY <1>1, <1>7
  <1> QED BY <1>2, <1>3, <1>4, <1>5, <1>8 DEF Counted

LEMMA NumbersGrow ==
  ASSUME NEW s, s \in Seq(ToSet(s)), NEW f, Increasing(s),
         NEW n, \A k \in DOMAIN s : s[k].n < n, f.n = n
  PROVE  Increasing(Append(s, f))
PROOF
  <1>1. /\ Len(s) \in Nat /\ DOMAIN s = 1 .. Len(s)
        /\ DOMAIN Append(s, f) = 1 .. Len(s) + 1
        /\ \A k \in DOMAIN s : Append(s, f)[k] = s[k]
        /\ Append(s, f)[Len(s) + 1] = f
    BY Grown
  <1> DEFINE t == Append(s, f)
  <1> HIDE DEF t
  <1>2. ASSUME NEW j \in DOMAIN t, NEW k \in DOMAIN t, j < k
        PROVE  t[j].n < t[k].n
    <2>1. j \in DOMAIN s
      BY <1>1, <1>2 DEF t
    <2>2. CASE k \in DOMAIN s
      BY <1>1, <1>2, <2>1, <2>2 DEF t, Increasing
    <2>3. CASE k = Len(s) + 1
      BY <1>1, <2>1, <2>3 DEF t
    <2> QED BY <1>1, <1>2, <2>2, <2>3 DEF t
  <1> QED BY <1>2 DEF Increasing, t

LEMMA NumbersFollow ==
  ASSUME U32MaxAssumption, RingAssumption, RingInvariant, SessionTypes, NumbersInv,
         [SessionNext]_allVars
  PROVE  NumbersInv'
PROOF
  <1>1. SUFFICES ASSUME framesAccepted' + framesRefused' < U32Max
                 PROVE  /\ streamSeq' = framesAccepted' + framesRefused'
                        /\ Len(stream') = framesAccepted'
                        /\ \A k \in DOMAIN stream' : stream'[k].n < streamSeq'
                        /\ Increasing(stream')
    BY DEF NumbersInv, Counted, Increasing
  <1>2. /\ TypeOK /\ stream \in Seq(ToSet(stream))
        /\ \A k \in DOMAIN stream : stream[k].n \in Nat
        /\ streamSeq \in Nat
    BY DEF RingInvariant, TypeOK, SessionTypes
  <1>3. CASE UNCHANGED <<frameVars, stream>>
    BY <1>1, <1>3 DEF NumbersInv, Counted, frameVars
  <1>4. CASE EmitFrame(FALSE) /\ stream' = stream
    <2>1. /\ Counted /\ streamSeq' = streamSeq + 1
          /\ framesAccepted' + framesRefused' = framesAccepted + framesRefused + 1
          /\ framesAccepted' = framesAccepted
      BY <1>1, <1>2, <1>4, NextNumber
    <2>2. \A k \in DOMAIN stream : stream[k].n < streamSeq + 1
      BY <1>2, <2>1 DEF NumbersInv
    <2> QED BY <1>4, <2>1, <2>2 DEF NumbersInv
  <1>5. ASSUME NEW body, EmitFrame(TRUE),
               stream' = Append(stream, Frame(streamSeq, body))
        PROVE  /\ streamSeq' = framesAccepted' + framesRefused'
               /\ Len(stream') = framesAccepted'
               /\ \A k \in DOMAIN stream' : stream'[k].n < streamSeq'
               /\ Increasing(stream')
    <2>1. /\ Counted /\ streamSeq' = streamSeq + 1
          /\ framesAccepted' + framesRefused' = framesAccepted + framesRefused + 1
          /\ framesAccepted' = framesAccepted + 1
      BY <1>1, <1>2, <1>5, NextNumber
    <2> DEFINE f == Frame(streamSeq, body)
    <2>2. f.n = streamSeq
      BY DEF Frame
    <2> HIDE DEF f
    <2>3. stream' = Append(stream, f)
      BY <1>5 DEF f
    <2>4. /\ Len(stream) \in Nat /\ DOMAIN stream = 1 .. Len(stream)
          /\ Len(stream') = Len(stream) + 1
          /\ DOMAIN stream' = 1 .. Len(stream) + 1
          /\ \A k \in DOMAIN stream : stream'[k] = stream[k]
          /\ stream'[Len(stream) + 1] = f
      BY <1>2, <2>3, Grown
    <2>5. /\ streamSeq = framesAccepted + framesRefused
          /\ Len(stream) = framesAccepted
          /\ \A k \in DOMAIN stream : stream[k].n < streamSeq
          /\ Increasing(stream)
      BY <2>1 DEF NumbersInv
    <2>6. Increasing(stream')
      BY <1>2, <2>2, <2>3, <2>5, NumbersGrow
    <2>7. \A k \in DOMAIN stream' : stream'[k].n < streamSeq'
      BY <1>2, <2>1, <2>2, <2>4, <2>5
    <2> QED BY <2>1, <2>4, <2>5, <2>6, <2>7
  <1> QED BY <1>3, <1>4, <1>5, StepFrames

-----------------------------------------------------------------------------
(* What the frames say.                                                    *)

LEMMA SaidMore ==
  ASSUME SessionTypes, NEW n, NEW body, stream' = Append(stream, Frame(n, body))
  PROVE  Said' = Said \cup {body}
PROOF
  <1> DEFINE f == Frame(n, body)
  <1>1. f.body = body
    BY DEF Frame
  <1>2. stream \in Seq(ToSet(stream)) /\ stream' = Append(stream, f)
    BY DEF SessionTypes
  <1> HIDE DEF f
  <1>3. /\ Len(stream) \in Nat /\ DOMAIN stream = 1 .. Len(stream)
        /\ DOMAIN stream' = 1 .. Len(stream) + 1
        /\ \A k \in DOMAIN stream : stream'[k] = stream[k]
        /\ stream'[Len(stream) + 1] = f
    BY <1>2, Grown
  <1>4. Said' \subseteq Said \cup {body}
    BY <1>1, <1>3 DEF Said
  <1>5. Said \subseteq Said'
    BY <1>3 DEF Said
  <1>6. body \in Said'
    BY <1>1, <1>3 DEF Said
  <1> QED BY <1>4, <1>5, <1>6

\* What a message says stays true.
LEMMA TruthStays ==
  ASSUME SessionTypes, [SessionNext]_allVars, ToSet(wire) \subseteq ToSet(wire'),
         NEW b, SaysTheTruth(b)
  PROVE  SaysTheTruth(b)'
PROOF
  <1>1. b.kind \in {"sample", "gap"} => b \in ToSet(wire')
    BY DEF SaysTheTruth
  <1>2. b.kind = "summary" => Summarised' /\ b = SummaryBody'
    <2>1. SUFFICES ASSUME Summarised, b = SummaryBody
                   PROVE  Summarised' /\ b = SummaryBody'
      BY DEF SaysTheTruth
    <2>2. Summarised' /\ UNCHANGED <<okIds, offered, kept, producerDrop, gapMerged>>
      BY <2>1, AfterTheBody DEF ringVars, gapVars
    <2> QED BY <2>1, <2>2 DEF SummaryBody
  <1>3. b.kind = "histogram" => /\ phase' \in {"footer", "capture", "done"}
                                /\ HistogramOn' /\ b = HistogramBody'
    <2>1. SUFFICES ASSUME phase \in {"footer", "capture", "done"}, HistogramOn,
                          b = HistogramBody
                   PROVE  /\ phase' \in {"footer", "capture", "done"}
                          /\ HistogramOn' /\ b = HistogramBody'
      BY DEF SaysTheTruth
    <2>2. /\ EmitHistogram \/ EmitFooter \/ Capture \/ UNCHANGED allVars
          /\ UNCHANGED <<setup, histogram>>
      BY <2>1, AfterTheBody DEF Summarised
    <2>3. phase' \in {"footer", "capture", "done"}
      BY <2>1, <2>2 DEF EmitHistogram, EmitFooter, Capture, allVars, sessionVars
    <2> QED BY <2>1, <2>2, <2>3 DEF HistogramOn, HistogramBody
  <1>4. b.kind = "footer" => Footed'
    <2>1. SUFFICES ASSUME Footed PROVE Footed'
      BY DEF SaysTheTruth
    <2>2. EmitHistogram \/ EmitFooter \/ Capture \/ UNCHANGED allVars
      BY <2>1, AfterTheBody DEF Footed, Summarised
    <2> QED BY <2>1, <2>2 DEF Footed, EmitHistogram, EmitFooter, Capture, allVars,
                              sessionVars
  <1> QED BY <1>1, <1>2, <1>3, <1>4 DEF SaysTheTruth

\* A frame that the session emits itself.
LEMMA EmittedBody ==
  ASSUME SessionTypes, NEW body, Emit(body)
  PROVE  wire' = wire /\ (Said' = Said \/ Said' = Said \cup {body})
PROOF
  <1>1. stream' = stream \/ stream' = Append(stream, Frame(streamSeq, body))
    BY DEF Emit
  <1>2. wire' = wire
    BY DEF Emit, ringVars
  <1>3. CASE stream' = stream
    BY <1>2, <1>3 DEF Said
  <1>4. CASE stream' = Append(stream, Frame(streamSeq, body))
    BY <1>2, <1>4, SaidMore
  <1> QED BY <1>1, <1>3, <1>4

LEMMA FramesTellTheTruth ==
  ASSUME RingAssumption, RingInvariant, SessionTypes, BodiesInv, [SessionNext]_allVars
  PROVE  BodiesInv'
PROOF
  <1>1. wire \in Seq(Record)
    BY DEF RingInvariant, TypeOK
  <1>2. ASSUME NEW body, Said' = Said \/ Said' = Said \cup {body},
               SaysTheTruth(body)', wire' = wire
        PROVE  BodiesInv'
    BY <1>2, TruthStays DEF BodiesInv
  <1>3. ASSUME wire' = wire, stream' = stream PROVE BodiesInv'
    BY <1>3, TruthStays DEF BodiesInv, Said
  <1>4. CASE EmitHeader
    <2> DEFINE body == [kind |-> "header", histogram |-> HistogramOn]
    <2>1. Emit(body)
      BY <1>4 DEF EmitHeader
    <2>2. \A b : b = body => SaysTheTruth(b)'
      BY DEF SaysTheTruth
    <2> HIDE DEF body
    <2>3. PICK b : b = body
      OBVIOUS
    <2> QED BY <1>2, <2>1, <2>2, <2>3, EmittedBody
  <1>5. CASE EmitSummary
    <2>1. PICK b : b = SummaryBody
      OBVIOUS
    <2>2. Emit(b)
      BY <1>5, <2>1 DEF EmitSummary
    <2>3. Summarised'
      BY <1>5 DEF EmitSummary, Summarised
    <2>4. UNCHANGED <<okIds, offered, kept, producerDrop, gapMerged>>
      BY <1>5 DEF EmitSummary, Emit, ringVars, gapVars
    <2>5. b = SummaryBody' /\ b.kind = "summary"
      BY <2>1, <2>4 DEF SummaryBody
    <2>6. SaysTheTruth(b)'
      BY <2>3, <2>5 DEF SaysTheTruth
    <2> QED BY <1>2, <2>2, <2>6, EmittedBody
  <1>6. CASE EmitHistogram
    <2>1. CASE HistogramOn /\ Emit(HistogramBody)
      <3>1. PICK b : b = HistogramBody
        OBVIOUS
      <3>2. phase' = "footer" /\ UNCHANGED <<setup, histogram>>
        BY <1>6 DEF EmitHistogram
      <3>3. b = HistogramBody' /\ b.kind = "histogram" /\ HistogramOn'
        BY <2>1, <3>1, <3>2 DEF HistogramBody, HistogramOn
      <3>4. SaysTheTruth(b)'
        BY <3>2, <3>3 DEF SaysTheTruth
      <3>5. Emit(b)
        BY <2>1, <3>1
      <3> QED BY <1>2, <3>4, <3>5, EmittedBody
    <2>2. CASE UNCHANGED <<vars, stream>>
      BY <1>3, <2>2 DEF vars
    <2> QED BY <1>6, <2>1, <2>2 DEF EmitHistogram, HistogramBody
  <1>7. CASE EmitFooter
    <2>1. PICK b : b = FooterBody
      OBVIOUS
    <2>2. Emit(b) /\ Footed'
      BY <1>7, <2>1 DEF EmitFooter, Footed
    <2>3. b.kind = "footer"
      BY <2>1 DEF FooterBody
    <2>4. SaysTheTruth(b)'
      BY <2>2, <2>3 DEF SaysTheTruth
    <2> QED BY <1>2, <2>2, <2>4, EmittedBody
  <1>8. CASE Drains
    <2>1. CASE UNCHANGED <<stream, wire>>
      BY <1>3, <2>1
    <2>2. ASSUME NEW r \in Record, wire' = Append(wire, r),
                 stream' = Append(stream, Frame(streamSeq, r))
          PROVE  BodiesInv'
      <3>1. ToSet(wire') = ToSet(wire) \cup {r}
        <4>1. /\ Len(wire) \in Nat /\ DOMAIN wire = 1 .. Len(wire)
              /\ DOMAIN wire' = 1 .. Len(wire) + 1
              /\ \A k \in DOMAIN wire : wire'[k] = wire[k]
              /\ wire'[Len(wire) + 1] = r
          BY <1>1, <2>2
        <4>2. ToSet(wire') \subseteq ToSet(wire) \cup {r}
          BY <4>1 DEF ToSet
        <4>3. ToSet(wire) \subseteq ToSet(wire')
          BY <4>1 DEF ToSet
        <4>4. r \in ToSet(wire')
          BY <4>1 DEF ToSet
        <4> QED BY <4>2, <4>3, <4>4
      <3>2. Said' = Said \cup {r}
        BY <2>2, SaidMore
      <3>3. r.kind \in {"sample", "gap"}
        BY DEF Record
      <3>4. SaysTheTruth(r)'
        BY <3>1, <3>3 DEF SaysTheTruth
      <3>5. \A b \in Said : SaysTheTruth(b)'
        BY <3>1, TruthStays DEF BodiesInv
      <3> QED BY <3>1, <3>2, <3>4, <3>5 DEF BodiesInv
    <2> QED BY <1>8, <2>1, <2>2, DrainFrames
  <1>9. ASSUME NEW ok \in BOOLEAN, Transaction(ok) PROVE BodiesInv'
    BY <1>3, <1>9 DEF Transaction, Push, Drop
  <1>10. CASE EngineDrain \/ CallerDrain \/ FinalDrain
    BY <1>3, <1>10 DEF EngineDrain, CallerDrain, FinalDrain, StartDrain
  <1>11. CASE EndOfRun \/ Capture \/ UNCHANGED allVars
    BY <1>3, <1>11 DEF EndOfRun, Capture, allVars, vars
  <1> QED BY <1>4, <1>5, <1>6, <1>7, <1>8, <1>9, <1>10, <1>11 DEF SessionNext

LEMMA HeaderIsFirst ==
  ASSUME RingAssumption, RingInvariant, SessionTypes, HeaderInv, [SessionNext]_allVars
  PROVE  HeaderInv'
PROOF
  <1> DEFINE First0 == \A k \in DOMAIN stream' :
                         stream'[k].body.kind = "header" => stream'[k].n = 0
  <1>1. phase' = "header" => streamSeq' = 0 /\ room' = 0
    <2>1. phase = "header" => room = 0 /\ ~Drains
      BY DEF HeaderInv, Drains, DrainStep, DrainGap, RefuseGap, DrainSample, RefuseSample,
             DrainEmpty
    <2>2. phase' = "header" => UNCHANGED allVars
      BY <2>1 DEF SessionTypes, SessionNext, EmitHeader, Transaction, EngineDrain,
           CallerDrain, FinalDrain, EndOfRun, Drains, EmitSummary, EmitHistogram,
           EmitFooter, Capture, sessionVars
    <2> QED BY <2>2 DEF HeaderInv, allVars, vars, sessionVars, frameVars
  <1> SUFFICES First0
    BY <1>1 DEF HeaderInv
  <1>2. ASSUME stream' = stream PROVE First0
    BY <1>2 DEF HeaderInv
  <1>3. ASSUME NEW body, stream' = Append(stream, Frame(streamSeq, body)),
               body.kind = "header" => streamSeq = 0
        PROVE  First0
    <2>1. PICK f : f = Frame(streamSeq, body)
      OBVIOUS
    <2>2. f.n = streamSeq /\ f.body = body
      BY <2>1 DEF Frame
    <2>3. /\ DOMAIN stream' = DOMAIN stream \cup {Len(stream) + 1}
          /\ \A k \in DOMAIN stream : stream'[k] = stream[k]
          /\ stream'[Len(stream) + 1] = f
      <3>1. stream \in Seq(ToSet(stream)) /\ stream' = Append(stream, f)
        BY <1>3, <2>1 DEF SessionTypes
      <3>2. /\ Len(stream) \in Nat /\ DOMAIN stream = 1 .. Len(stream)
            /\ DOMAIN stream' = 1 .. Len(stream) + 1
            /\ \A k \in DOMAIN stream : stream'[k] = stream[k]
            /\ stream'[Len(stream) + 1] = f
        BY <3>1, Grown
      <3> QED BY <3>2
    <2> QED BY <1>3, <2>2, <2>3 DEF HeaderInv
  <1> HIDE DEF First0
  <1>4. ASSUME NEW body, Emit(body), body.kind = "header" => streamSeq = 0
        PROVE  First0
    BY <1>2, <1>3, <1>4 DEF Emit
  <1>5. CASE EmitHeader
    <2>1. phase = "header" /\ Emit([kind |-> "header", histogram |-> HistogramOn])
      BY <1>5 DEF EmitHeader
    <2> QED BY <1>4, <2>1 DEF HeaderInv
  <1>6. CASE EmitSummary \/ EmitHistogram \/ EmitFooter
    <2>1. \/ Emit(SummaryBody) \/ Emit(HistogramBody) \/ Emit(FooterBody)
          \/ stream' = stream
      BY <1>6 DEF EmitSummary, EmitHistogram, EmitFooter, HistogramBody
    <2>2. /\ SummaryBody.kind # "header" /\ HistogramBody.kind # "header"
          /\ FooterBody.kind # "header"
      BY DEF SummaryBody, HistogramBody, FooterBody
    <2> QED BY <1>2, <1>4, <2>1, <2>2
  <1>7. CASE Drains
    <2>1. \A r \in Record : r.kind # "header"
      BY DEF Record
    <2>2. \/ stream' = stream
          \/ \E r \in Record : stream' = Append(stream, Frame(streamSeq, r))
      BY <1>7, DrainFrames
    <2> QED BY <1>2, <1>3, <2>1, <2>2
  <1>8. CASE ~(EmitHeader \/ EmitSummary \/ EmitHistogram \/ EmitFooter \/ Drains)
    <2>1. stream' = stream
      BY <1>8 DEF SessionNext, Transaction, EngineDrain, CallerDrain, FinalDrain,
           EndOfRun, Capture, allVars
    <2> QED BY <1>2, <2>1
  <1> QED BY <1>5, <1>6, <1>7, <1>8

\* The footer is emitted once, after every other frame.
LEMMA FooterIsLast ==
  ASSUME U32MaxAssumption, RingAssumption, RingInvariant, SessionTypes, NumbersInv,
         BodiesInv, FooterInv, BodiesInv', [SessionNext]_allVars
  PROVE  FooterInv'
PROOF
  <1>1. CASE ~Footed'
    <2>1. \A k \in DOMAIN stream' : stream'[k].body \in Said'
      BY DEF Said
    <2>2. \A b \in Said' : b.kind # "footer"
      BY <1>1 DEF BodiesInv, SaysTheTruth
    <2> QED BY <2>1, <2>2 DEF FooterInv
  <1>2. CASE Footed
    <2>1. /\ Capture \/ UNCHANGED allVars
          /\ UNCHANGED ringVars
      BY <1>2, AfterTheBody DEF Footed, Summarised, EmitHistogram, EmitFooter
    <2>2. UNCHANGED <<stream, framesAccepted, framesRefused, offered>>
      BY <2>1 DEF Capture, allVars, vars, frameVars
    <2> QED BY <2>2 DEF FooterInv, Increasing
  <1>3. CASE EmitFooter
    <2>1. phase = "footer"
      BY <1>3 DEF EmitFooter
    <2>2. \A k \in DOMAIN stream : stream[k].body.kind # "footer"
      <3>1. \A k \in DOMAIN stream : stream[k].body \in Said
        BY DEF Said
      <3> QED BY <2>1, <3>1 DEF BodiesInv, SaysTheTruth, Footed
    <2>3. PICK accepted \in BOOLEAN :
            /\ EmitFrame(accepted)
            /\ stream' = IF accepted THEN Append(stream, Frame(streamSeq, FooterBody))
                                     ELSE stream
      BY <1>3 DEF EmitFooter, Emit
    <2>4. CASE ~accepted
      BY <2>2, <2>3, <2>4 DEF FooterInv
    <2>5. CASE accepted
      <3>1. PICK f : f = FooterBody
        OBVIOUS
      <3>2. PICK g : g = Frame(streamSeq, f)
        OBVIOUS
      <3>3. /\ stream' = Append(stream, g) /\ g.n = streamSeq /\ g.body = f
        BY <2>3, <2>5, <3>1, <3>2 DEF Frame
      <3>4. /\ f.last = streamSeq /\ f.attempted = WrapInc(streamSeq)
            /\ f.accepted = framesAccepted /\ f.refused = framesRefused
            /\ f.samples = offered
        BY <3>1 DEF FooterBody
      <3>5. /\ framesRefused' = framesRefused /\ offered' = offered
            /\ framesAccepted \in 0 .. framesAccepted'
        <4>1. /\ framesRefused' = framesRefused /\ offered' = offered
              /\ framesAccepted' = SatInc(framesAccepted)
          BY <1>3, <2>3, <2>5 DEF EmitFrame, EmitFooter, Emit, ringVars
        <4>2. framesAccepted \in 0 .. SatInc(framesAccepted)
          BY DEF RingInvariant, TypeOK, SatInc
        <4> QED BY <4>1, <4>2
      <3>6. /\ streamSeq \in 0 .. U32Max /\ framesAccepted \in Nat
            /\ framesRefused \in Nat /\ stream \in Seq(ToSet(stream))
            /\ \A k \in DOMAIN stream : stream[k].n \in Nat
        BY DEF RingInvariant, TypeOK, SessionTypes
      <3>7. /\ Len(stream) \in Nat /\ DOMAIN stream = 1 .. Len(stream)
            /\ Len(stream') = Len(stream) + 1
            /\ DOMAIN stream' = 1 .. Len(stream) + 1
            /\ \A k \in DOMAIN stream : stream'[k] = stream[k]
            /\ stream'[Len(stream) + 1] = g
        BY <3>3, <3>6, Grown
      <3>8. ASSUME f.accepted + f.refused < U32Max
            PROVE  /\ f.last = f.accepted + f.refused
                   /\ Len(stream') = f.accepted + 1
                   /\ \A j \in DOMAIN stream' : stream'[j].n <= f.last
                   /\ Increasing(stream')
        <4>1. /\ streamSeq = framesAccepted + framesRefused
              /\ Len(stream) = framesAccepted
              /\ \A k \in DOMAIN stream : stream[k].n < streamSeq
              /\ Increasing(stream)
          BY <3>4, <3>8 DEF NumbersInv, Counted
        <4>2. Increasing(stream')
          BY <3>3, <3>6, <4>1, NumbersGrow
        <4>3. \A j \in DOMAIN stream' : stream'[j].n <= f.last
          BY <3>3, <3>4, <3>6, <3>7, <4>1
        <4> QED BY <3>4, <3>7, <4>1, <4>2, <4>3
      <3>9. \A k \in DOMAIN stream' : stream'[k].body.kind = "footer" => k = Len(stream) + 1
        BY <2>2, <3>7
      <3>10. \A k \in DOMAIN stream' : stream'[k].body.kind = "footer" =>
               stream'[k].body = f
        BY <3>3, <3>7, <3>9
      <3> QED BY <3>4, <3>5, <3>6, <3>8, <3>10 DEF FooterInv, Increasing
    <2> QED BY <2>4, <2>5
  <1>4. Footed' => Footed \/ EmitFooter
    BY DEF Footed, SessionNext, EmitHeader, Transaction, EngineDrain, CallerDrain,
           FinalDrain, EndOfRun, Drains, EmitSummary, EmitHistogram, EmitFooter,
           Capture, allVars, sessionVars
  <1> QED BY <1>1, <1>2, <1>3, <1>4

\* The capture is taken once, of a stream that is over.
LEMMA CaptureIsTaken ==
  ASSUME SessionTypes, CaptureInv, [SessionNext]_allVars
  PROVE  CaptureInv'
PROOF
  <1>1. CASE Capture
    <2>1. PICK lost \in LostFrames :
            LET got == Without(lost)
            IN  \/ captured' = got
                \/ \E k \in 1 .. Len(got) : captured' = Repeated(got, k)
                \/ \E k \in 1 .. Len(got) - 1 : captured' = Swapped(got, k)
      BY <1>1 DEF Capture
    <2>2. stream' = stream
      BY <1>1 DEF Capture
    <2>3. LostFrames' = LostFrames
      BY <2>2 DEF LostFrames
    <2>4. Without(lost)' = Without(lost)
      BY <2>2 DEF Without, FoldLeft, MapThenFoldSet
    <2> QED BY <2>1, <2>3, <2>4 DEF CaptureInv, CapturedFrom, Repeated, Swapped
  <1>2. CASE phase = "done" /\ ~Capture
    <2>1. UNCHANGED allVars
      BY <1>2, AfterTheBody DEF Summarised, EmitHistogram, EmitFooter, Capture
    <2>2. UNCHANGED <<phase, stream, captured>>
      BY <2>1 DEF allVars, sessionVars
    <2>3. LostFrames' = LostFrames
      BY <2>2 DEF LostFrames
    <2>4. \A lost : Without(lost)' = Without(lost)
      BY <2>2 DEF Without, FoldLeft, MapThenFoldSet
    <2> QED BY <2>2, <2>3, <2>4 DEF CaptureInv, CapturedFrom
  <1>3. CASE phase # "done" /\ ~Capture
    <2>1. phase' # "done"
      BY <1>3 DEF SessionNext, EmitHeader, Transaction, EngineDrain, CallerDrain,
           FinalDrain, EndOfRun, Drains, EmitSummary, EmitHistogram, EmitFooter,
           allVars, sessionVars
    <2> QED BY <2>1 DEF CaptureInv
  <1> QED BY <1>1, <1>2, <1>3

LEMMA SessionStarts ==
  ASSUME U32MaxAssumption, RingAssumption, SessionAssumption, SessionInit
  PROVE  SessionInvariant
PROOF
  <1>1. RingInvariant
    BY InvInit DEF SessionInit
  <1>2. SessionTypes
    <2>1. stream = <<>> /\ stream \in Seq(ToSet(stream))
      BY DEF SessionInit
    <2>2. setup \in [engine : BOOLEAN, histogram : BOOLEAN]
      BY DEF SessionInit, SessionAssumption
    <2>3. phase = "header" /\ owed = FALSE /\ okIds = {}
          /\ histogram \in [count : 0 .. U32Max, saturated : BOOLEAN]
      BY U32MaxAssumption DEF SessionInit
    <2>4. DOMAIN stream = {}
      BY <2>1
    <2>5. phase \in Phases /\ ~Summarised
      BY <2>3 DEF Phases, Summarised
    <2> QED BY <2>1, <2>2, <2>3, <2>4, <2>5 DEF SessionTypes
  <1>3. /\ count = 0 /\ gapCount = 0 /\ producerDrop = 0 /\ offered = 0 /\ kept = {}
        /\ wire = <<>> /\ stream = <<>> /\ okIds = {} /\ phase = "header" /\ ~owed
        /\ histogram.count = 0 /\ room = 0
        /\ streamSeq = 0 /\ framesAccepted = 0 /\ framesRefused = 0
    BY DEF SessionInit, Init
  <1>4. EngineInv /\ DropFree /\ EmptiedInv
    BY <1>3 DEF EngineInv, DropFree, EmptiedInv, Issued
  <1>5. DeliveryInv /\ NoSlot /\ NoGapMemory
    BY <1>3 DEF DeliveryInv, NoSlot, NoGapMemory, Delivered, RingIds, SentGaps
  <1>6. HistogramInv
    BY <1>3, FS_EmptySet DEF HistogramInv
  <1>7. NumbersInv /\ BodiesInv /\ HeaderInv /\ FooterInv /\ CaptureInv
    BY <1>3 DEF NumbersInv, BodiesInv, HeaderInv, FooterInv, CaptureInv, Said, ToSet,
                Increasing
  <1> QED BY <1>1, <1>2, <1>4, <1>5, <1>6, <1>7 DEF SessionInvariant

LEMMA SessionContinues ==
  ASSUME U32MaxAssumption, RingAssumption, SessionAssumption, SessionInvariant,
         [SessionNext]_allVars
  PROVE  SessionInvariant'
PROOF
  <1>1. /\ RingInvariant /\ SessionTypes /\ EngineInv /\ DropFree /\ DeliveryInv
        /\ EmptiedInv /\ NoSlot /\ NoGapMemory /\ HistogramInv /\ NumbersInv
        /\ BodiesInv /\ HeaderInv /\ FooterInv /\ CaptureInv
    BY DEF SessionInvariant
  <1>2. RingInvariant'
    BY <1>1, SessionKeepsRing
  <1>3. SessionTypes'
    BY <1>1, SessionKeepsTypes DEF RingInvariant
  <1>4. EngineInv'
    BY <1>1, EngineKeepsUp
  <1>5. DropFree' /\ NoSlot' /\ NoGapMemory'
    BY <1>1, NoDropNoLoss, NothingWithoutASlot, NoMemoryNoGaps
  <1>6. DeliveryInv'
    BY <1>1, NothingAstray
  <1>7. EmptiedInv'
    BY <1>1, EmptiedAtTheEnd
  <1>8. HistogramInv'
    BY <1>1, HistogramFollows
  <1>9. NumbersInv'
    BY <1>1, NumbersFollow
  <1>10. BodiesInv'
    BY <1>1, FramesTellTheTruth
  <1>11. FooterInv'
    BY <1>1, <1>10, FooterIsLast
  <1>12. CaptureInv'
    BY <1>1, CaptureIsTaken
  <1>13. HeaderInv'
    BY <1>1, HeaderIsFirst
  <1> QED BY <1>2, <1>3, <1>4, <1>5, <1>6, <1>7, <1>8, <1>9, <1>10, <1>11, <1>12,
             <1>13 DEF SessionInvariant

\* The invariant of a session: the ring's, and what the frames say of it.
THEOREM SessionInvariantHolds == SessionSpec => []SessionInvariant
PROOF
  <1>1. SessionInit => SessionInvariant
    BY SessionStarts, U32MaxAssumption, RingAssumption, SessionAssumption
  <1>2. SessionInvariant /\ [SessionNext]_allVars => SessionInvariant'
    BY SessionContinues, U32MaxAssumption, RingAssumption, SessionAssumption
  <1> QED BY <1>1, <1>2, PTL DEF SessionSpec

\* In a session as well, whatever the caller's drains: every transaction that is
\* not in the ring's samples is counted, and with gap memory reported once.
THEOREM SessionsCountTheLosses == SessionSpec => []LossConserved
PROOF
  <1>1. SessionInit => LossInv
    BY LossesStart, RingAssumption DEF SessionInit
  <1>2. SessionInvariant /\ LossInv /\ [SessionNext]_allVars => LossInv'
    BY SessionStepsRing, LossesStay, LossesUntouched, RingAssumption, U32MaxAssumption
       DEF SessionInvariant, RingInvariant
  <1>3. LossInv => LossConserved
    BY DEF LossInv
  <1> QED BY SessionInvariantHolds, <1>1, <1>2, <1>3, PTL DEF SessionSpec

\* The ring of a session is the same log.
THEOREM SessionsKeepALog ==
  ASSUME GapCapacity > Capacity
  PROVE  SessionSpec => ImplementsLossLog
PROOF
  <1> DEFINE I == LossInv /\ Ordered(Timeline, PendingRecords)
  <1>1. SessionInit => I /\ Log!Init
    BY LossesStart, LogStarts, RingAssumption, U32MaxAssumption DEF SessionInit
  <1>2. SessionInvariant /\ I /\ [SessionNext]_allVars
          => I' /\ [Log!Next]_(Log!vars)
    <2> SUFFICES ASSUME SessionInvariant, I, [SessionNext]_allVars
                 PROVE  I' /\ [Log!Next]_(Log!vars)
      OBVIOUS
    <2>1. RingInvariant /\ TypeOK
      BY DEF SessionInvariant, RingInvariant
    <2>2. LossInv'
      BY <2>1, SessionStepsRing, LossesStay, LossesUntouched, RingAssumption,
         U32MaxAssumption
    <2>3. Ordered(Timeline', PendingRecords') /\ [Log!Next]_(Log!vars)
      BY <2>1, SessionStepsRing, LogStays, LogUntouched, RingAssumption,
         U32MaxAssumption
    <2> QED BY <2>2, <2>3
  <1> QED BY SessionInvariantHolds, <1>1, <1>2, PTL
       DEF SessionSpec, ImplementsLossLog, Log!Spec

\* The engine drains after each transaction what the transaction deposited
\* (engine.c:156-176): with a slot in the ring nothing is dropped, whatever the
\* sink does, and the run ends with an empty ring.
THEOREM EngineDropsNothing == SessionSpec => []EngineNeverDrops
PROOF
  <1>1. SessionInvariant => EngineNeverDrops
    BY DEF SessionInvariant, EngineInv, EngineNeverDrops
  <1> QED BY <1>1, SessionInvariantHolds, PTL

-----------------------------------------------------------------------------
(* What the folds of the capture compute.                                  *)

\* The capture less some frames, frame by frame.
LEMMA WithoutSteps ==
  ASSUME NEW A, stream \in Seq(A), NEW lost
  PROVE  \E got :
           /\ got[0] = <<>> /\ Without(lost) = got[Len(stream)]
           /\ \A k \in 1 .. Len(stream) :
                got[k] = IF stream[k].n \in lost THEN got[k - 1]
                         ELSE Append(got[k - 1], stream[k])
PROOF
  <1> DEFINE n == Len(stream)
             F == [p \in Seq(A) \X (1 .. n) |->
                     IF stream[p[2]].n \in lost THEN p[1]
                     ELSE Append(p[1], stream[p[2]])]
             Next1(x, i) == IF stream[i].n \in lost THEN x ELSE Append(x, stream[i])
             P(g) == g = [t \in SUBSET (1 .. n) |->
                            IF t = {} THEN <<>>
                            ELSE Next1(g[t \ {Max(t)}], Max(t))]
             iter == CHOOSE g : P(g)
  <1>1. n \in Nat /\ DOMAIN stream = 1 .. n /\ <<>> \in Seq(A)
    OBVIOUS
  <1>2. Without(lost) = iter[1 .. n]
    BY <1>1 DEF Without, FoldLeft, MapThenFoldSet
  <1>3. F \in [Seq(A) \X (1 .. n) -> Seq(A)]
    BY <1>1
  <1>4. PICK g \in Foldings(n, Seq(A)) : Folding(g, n, <<>>, F)
    <2> HIDE DEF F, n
    <2> QED BY <1>1, <1>3, FoldExists
  <1>5. ASSUME NEW t \in SUBSET (1 .. n), t # {}
        PROVE  /\ Max(t) \in t /\ t \ {Max(t)} \in SUBSET (1 .. n)
               /\ g[t \ {Max(t)}] \in Seq(A)
    BY <1>1, <1>4, <1>5, MaxExists DEF Foldings
  <1>6. ASSUME NEW t \in SUBSET (1 .. n)
        PROVE  g[t] = IF t = {} THEN <<>> ELSE Next1(g[t \ {Max(t)}], Max(t))
    <2>1. g[t] = IF t = {} THEN <<>> ELSE F[<<g[t \ {Max(t)}], Max(t)>>]
      BY <1>4 DEF Folding
    <2>2. ASSUME t # {}
          PROVE  F[<<g[t \ {Max(t)}], Max(t)>>] = Next1(g[t \ {Max(t)}], Max(t))
      <3>1. <<g[t \ {Max(t)}], Max(t)>> \in Seq(A) \X (1 .. n)
        BY <1>5, <2>2
      <3> QED BY <3>1
    <2> QED BY <2>1, <2>2
  <1>7. P(g)
    BY <1>4, <1>6 DEF Foldings
  <1>8. P(iter)
    BY <1>7, Zenon
  <1> DEFINE got == [k \in 0 .. n |-> iter[1 .. k]]
  <1>9. got[0] = <<>>
    <2>1. 1 .. 0 = {} /\ {} \in SUBSET (1 .. n)
      OBVIOUS
    <2>2. iter[{}] = <<>>
      BY <1>8, <2>1
    <2> HIDE DEF iter
    <2> QED BY <1>1, <2>1, <2>2
  <1>10. ASSUME NEW k \in 1 .. n PROVE got[k] = Next1(got[k - 1], k)
    <2>1. /\ Max(1 .. k) = k /\ (1 .. k) \ {k} = 1 .. k - 1
          /\ 1 .. k \in SUBSET (1 .. n) /\ 1 .. k # {}
      BY <1>1, FirstPositions
    <2>2. iter[1 .. k] = Next1(iter[1 .. k - 1], k)
      BY <1>8, <2>1
    <2>3. k \in 0 .. n /\ k - 1 \in 0 .. n
      BY <1>1
    <2> HIDE DEF iter, Next1
    <2>4. got[k] = iter[1 .. k] /\ got[k - 1] = iter[1 .. k - 1]
      BY <2>3
    <2> QED BY <2>2, <2>4
  <1>11. Without(lost) = got[n]
    BY <1>1, <1>2
  <1> QED BY <1>9, <1>10, <1>11

-----------------------------------------------------------------------------
(* What a capture holds.                                                   *)

LEMMA WithoutSome ==
  ASSUME stream \in Seq(ToSet(stream)), NEW lost
  PROVE  /\ Without(lost) \in Seq(ToSet(stream))
         /\ Increasing(stream) => Increasing(Without(lost))
PROOF
  <1> DEFINE A == ToSet(stream)
             n == Len(stream)
  <1>1. PICK got :
          /\ got[0] = <<>> /\ Without(lost) = got[n]
          /\ \A k \in 1 .. n :
               got[k] = IF stream[k].n \in lost THEN got[k - 1]
                        ELSE Append(got[k - 1], stream[k])
    BY WithoutSteps
  <1>2. n \in Nat /\ \A k \in 1 .. n : stream[k] \in A
    OBVIOUS
  <1> DEFINE Before(k) == \A j \in DOMAIN got[k] : \E i \in 1 .. k : got[k][j] = stream[i]
             S == {k \in Nat : k <= n =>
                     /\ got[k] \in Seq(A)
                     /\ Before(k)
                     /\ Increasing(stream) => Increasing(got[k])}
  <1>3. 0 \in S
    <2>1. got[0] \in Seq(A) /\ DOMAIN got[0] = {}
      BY <1>1
    <2> QED BY <2>1 DEF Increasing
  <1>4. ASSUME NEW k \in Nat, k \in S PROVE k + 1 \in S
    <2> DEFINE m == k + 1
    <2> SUFFICES ASSUME m <= n
                 PROVE  /\ got[m] \in Seq(A)
                        /\ Before(m)
                        /\ Increasing(stream) => Increasing(got[m])
      OBVIOUS
    <2>1. m \in 1 .. n /\ k <= n /\ m - 1 = k /\ stream[m] \in A /\ k \in 1 .. n \cup {0}
      BY <1>2
    <2>2. /\ got[k] \in Seq(A) /\ Before(k)
          /\ Increasing(stream) => Increasing(got[k])
      BY <1>4, <2>1
    <2>3. got[m] = IF stream[m].n \in lost THEN got[k] ELSE Append(got[k], stream[m])
      BY <1>1, <2>1
    <2>4. \A i \in 1 .. k : i \in 1 .. m
      OBVIOUS
    <2>5. CASE stream[m].n \in lost
      <3>1. got[m] = got[k]
        BY <2>3, <2>5
      <3> QED BY <2>2, <2>4, <3>1
    <2>6. CASE stream[m].n \notin lost
      <3> DEFINE f == stream[m]
                 s == got[k]
      <3>1. got[m] = Append(s, f)
        BY <2>3, <2>6
      <3>2. s \in Seq(A) /\ f \in A
        BY <2>1, <2>2
      <3> HIDE DEF s, f
      <3>3. /\ Append(s, f) \in Seq(A) /\ Len(s) \in Nat /\ DOMAIN s = 1 .. Len(s)
            /\ DOMAIN Append(s, f) = 1 .. Len(s) + 1
            /\ \A j \in DOMAIN s : Append(s, f)[j] = s[j]
            /\ Append(s, f)[Len(s) + 1] = f
            /\ s \in Seq(ToSet(s))
        BY <3>2 DEF ToSet
      <3>4. \A j \in DOMAIN s : \E i \in 1 .. k : s[j] = stream[i]
        BY <2>2 DEF s
      <3>5. Before(m)
        <4>1. ASSUME NEW j \in DOMAIN Append(s, f)
              PROVE  \E i \in 1 .. m : Append(s, f)[j] = stream[i]
          <5>1. CASE j \in DOMAIN s
            BY <2>4, <3>3, <3>4, <5>1
          <5>2. CASE j = Len(s) + 1
            BY <2>1, <3>3, <5>2 DEF f
          <5> QED BY <3>3, <4>1, <5>1, <5>2
        <4> QED BY <3>1, <4>1
      <3>6. ASSUME Increasing(stream) PROVE Increasing(got[m])
        <4>1. \A i \in 1 .. k : stream[i].n < f.n
          BY <1>2, <2>1, <3>6 DEF Increasing, f
        <4>2. \A j \in DOMAIN s : s[j].n < f.n
          BY <3>4, <4>1
        <4>3. Increasing(s)
          BY <2>2, <3>6 DEF s
        <4> QED BY <3>1, <3>3, <4>2, <4>3, NumbersGrow
      <3> QED BY <3>1, <3>3, <3>5, <3>6
    <2> QED BY <2>5, <2>6
  <1> HIDE DEF S
  <1>5. n \in S
    BY <1>2, <1>3, <1>4, Induction
  <1>6. n <= n
    BY <1>2
  <1> QED BY <1>1, <1>5, <1>6 DEF S

LEMMA RepeatedFrames ==
  ASSUME NEW A, NEW s \in Seq(A), NEW k \in 1 .. Len(s)
  PROVE  /\ Repeated(s, k) \in Seq(A)
         /\ Len(Repeated(s, k)) = Len(s) + 1
         /\ \A j \in 1 .. Len(s) + 1 :
              Repeated(s, k)[j] = IF j <= k THEN s[j] ELSE s[j - 1]
PROOF
  <1>1. /\ SubSeq(s, 1, k) \in Seq(A) /\ Len(SubSeq(s, 1, k)) = k
        /\ \A j \in 1 .. k : SubSeq(s, 1, k)[j] = s[j]
    OBVIOUS
  <1>2. /\ SubSeq(s, k, Len(s)) \in Seq(A)
        /\ Len(SubSeq(s, k, Len(s))) = Len(s) + 1 - k
        /\ \A j \in 1 .. Len(s) + 1 - k : SubSeq(s, k, Len(s))[j] = s[k + j - 1]
    OBVIOUS
  <1> DEFINE a == SubSeq(s, 1, k)
             b == SubSeq(s, k, Len(s))
  <1> HIDE DEF a, b
  <1>3. /\ a \o b \in Seq(A) /\ Len(a \o b) = Len(s) + 1
        /\ \A j \in 1 .. Len(s) + 1 : (a \o b)[j] = IF j <= k THEN a[j] ELSE b[j - k]
    BY <1>1, <1>2 DEF a, b
  <1>4. \A j \in 1 .. Len(s) + 1 : j <= k => a[j] = s[j]
    BY <1>1 DEF a
  <1>5. \A j \in 1 .. Len(s) + 1 : ~(j <= k) => b[j - k] = s[j - 1]
    <2> SUFFICES ASSUME NEW j \in 1 .. Len(s) + 1, ~(j <= k)
                 PROVE  b[j - k] = s[j - 1]
      OBVIOUS
    <2>1. j - k \in 1 .. Len(s) + 1 - k /\ k + (j - k) - 1 = j - 1
      OBVIOUS
    <2> QED BY <1>2, <2>1 DEF b
  <1> QED BY <1>3, <1>4, <1>5 DEF Repeated, a, b

LEMMA SwappedFrames ==
  ASSUME NEW A, NEW s \in Seq(A), NEW k \in 1 .. Len(s) - 1
  PROVE  /\ Swapped(s, k) \in Seq(A)
         /\ Len(Swapped(s, k)) = Len(s)
         /\ \A j \in 1 .. Len(s) :
              Swapped(s, k)[j] = IF j = k THEN s[k + 1]
                                 ELSE IF j = k + 1 THEN s[k] ELSE s[j]
PROOF
  <1>1. k \in 1 .. Len(s) /\ k + 1 \in 1 .. Len(s) /\ k + 1 # k
    OBVIOUS
  <1>2. s[k] \in A /\ s[k + 1] \in A
    BY <1>1
  <1> QED BY <1>1, <1>2 DEF Swapped

\* A capture holds frames of the stream, and no other.
LEMMA CapturedFrames ==
  ASSUME SessionTypes, CaptureInv, phase = "done"
  PROVE  /\ captured \in Seq(ToSet(captured)) /\ captured \in Seq(ToSet(stream))
         /\ ToSet(captured) \subseteq ToSet(stream)
PROOF
  <1>1. PICK lost \in LostFrames : CapturedFrom(Without(lost))
    BY DEF CaptureInv
  <1>2. PICK got : got = Without(lost)
    OBVIOUS
  <1>3. got \in Seq(ToSet(stream)) /\ CapturedFrom(got)
    BY <1>1, <1>2, WithoutSome DEF SessionTypes
  <1>4. captured \in Seq(ToSet(stream))
    BY <1>3, RepeatedFrames, SwappedFrames DEF CapturedFrom
  <1>5. \A j \in DOMAIN captured : captured[j] \in ToSet(stream)
    BY <1>4
  <1>6. captured \in Seq({captured[j] : j \in DOMAIN captured})
    BY <1>4
  <1> QED BY <1>4, <1>5, <1>6 DEF ToSet

-----------------------------------------------------------------------------
(* What a complete stream proves.                                          *)

LEMMA NumberSet ==
  ASSUME NEW A, NEW s \in Seq(A)
  PROVE  /\ ToSet(Numbers(s)) = {f.n : f \in ToSet(s)}
         /\ IsFiniteSet(ToSet(Numbers(s)))
         /\ Cardinality(ToSet(Numbers(s))) <= Len(s)
         /\ Cardinality(ToSet(Numbers(s))) \in Nat
PROOF
  <1>1. DOMAIN s = 1 .. Len(s) /\ Len(s) \in Nat
    OBVIOUS
  <1>2. /\ DOMAIN Numbers(s) = 1 .. Len(s)
        /\ \A k \in 1 .. Len(s) : Numbers(s)[k] = s[k].n
    BY <1>1 DEF Numbers
  <1>3. ToSet(Numbers(s)) = {f.n : f \in ToSet(s)}
    BY <1>1, <1>2 DEF ToSet
  <1> DEFINE N == ToSet(Numbers(s))
  <1>4. N = {Numbers(s)[k] : k \in 1 .. Len(s)}
    BY <1>2 DEF ToSet
  <1>5. ExistsSurjection(1 .. Len(s), N)
    <2> DEFINE h == [k \in 1 .. Len(s) |-> Numbers(s)[k]]
    <2>1. h \in Surjection(1 .. Len(s), N)
      BY <1>4 DEF Surjection
    <2> QED BY <2>1 DEF ExistsSurjection
  <1>6. IsFiniteSet(1 .. Len(s)) /\ Cardinality(1 .. Len(s)) = Len(s)
    BY <1>1, FS_Interval
  <1>7. IsFiniteSet(N) /\ Cardinality(N) <= Len(s)
    BY <1>1, <1>5, <1>6, FS_Surjection, FS_SurjCardinalityBound DEF ExistsSurjection
  <1>8. Cardinality(N) \in Nat
    BY <1>7, FS_CardinalityType
  <1> QED BY <1>3, <1>7, <1>8

\* The message a capture has of a kind was in the stream.
LEMMA CapturedMessage ==
  ASSUME SessionTypes, CaptureInv, phase = "done", NEW kind, Has(captured, kind)
  PROVE  \E j \in DOMAIN captured, k \in DOMAIN stream :
           /\ captured[j].body = The(captured, kind) /\ captured[j] = stream[k]
           /\ The(captured, kind).kind = kind
PROOF
  <1>1. captured \in Seq(ToSet(stream)) /\ ToSet(captured) \subseteq ToSet(stream)
    BY CapturedFrames
  <1>2. The(captured, kind) \in Of(captured, kind)
    BY DEF Has, The
  <1>3. /\ The(captured, kind).kind = kind
        /\ \E j \in DOMAIN captured : captured[j].body = The(captured, kind)
    BY <1>2 DEF Of, Bodies, ToSet
  <1>4. \A j \in DOMAIN captured : \E k \in DOMAIN stream : captured[j] = stream[k]
    BY <1>1 DEF ToSet
  <1> QED BY <1>3, <1>4

\* When the numbers of the frames captured are as many as the footer says were
\* attempted, every attempted frame was accepted and captured.
LEMMA CompleteStream ==
  ASSUME U32MaxAssumption, SessionInvariant, phase = "done", StreamComplete(captured)
  PROVE  /\ ToSet(captured) = ToSet(stream) /\ framesRefused = 0
         /\ Increasing(stream)
         /\ ToSet(Numbers(stream)) = 0 .. Len(stream) - 1
PROOF
  <1>1. /\ SessionTypes /\ CaptureInv /\ FooterInv
        /\ framesRefused \in Nat /\ U32Max \in Nat
        /\ stream \in Seq(ToSet(stream)) /\ captured \in Seq(ToSet(captured))
        /\ ToSet(captured) \subseteq ToSet(stream)
    BY CapturedFrames, U32MaxAssumption
       DEF SessionInvariant, RingInvariant, TypeOK, SessionTypes
  <1>2. PICK f : f = The(captured, "footer")
    OBVIOUS
  <1>3. /\ f.attempted = f.last + 1
        /\ f.accepted + f.refused + 1 = f.attempted
        /\ UniqueFrames(captured) + TransportGap(captured) = f.attempted
        /\ TransportGap(captured) = 0
        /\ Has(captured, "footer")
    BY <1>2 DEF StreamComplete, FooterConsistent
  <1>4. PICK k \in DOMAIN stream : stream[k].body = f /\ f.kind = "footer"
    BY <1>1, <1>2, <1>3, CapturedMessage
  <1>5. /\ f.last \in 0 .. U32Max /\ f.attempted = WrapInc(f.last)
        /\ f.accepted \in Nat /\ f.refused = framesRefused
        /\ f.accepted + f.refused < U32Max =>
             /\ f.last = f.accepted + f.refused
             /\ Len(stream) = f.accepted + 1
             /\ \A j \in DOMAIN stream : stream[j].n <= f.last
             /\ Increasing(stream)
    BY <1>1, <1>4 DEF FooterInv
  <1>6. f.attempted \in 0 .. U32Max
    BY <1>5, CounterTypes
  <1>7. f.accepted + f.refused < U32Max
    BY <1>1, <1>3, <1>5, <1>6
  <1>8. Len(stream) = f.accepted + 1 /\ Increasing(stream)
    BY <1>5, <1>7
  <1> DEFINE C == ToSet(Numbers(captured))
             N == ToSet(Numbers(stream))
  <1>9. /\ C = {g.n : g \in ToSet(captured)} /\ N = {g.n : g \in ToSet(stream)}
        /\ Cardinality(C) \in Nat /\ Cardinality(N) \in Nat
        /\ IsFiniteSet(N) /\ Cardinality(N) <= Len(stream)
    BY <1>1, NumberSet
  <1>10. C \in SUBSET N
    BY <1>1, <1>9
  <1>11. Cardinality(C) <= Cardinality(N)
    BY <1>9, <1>10, FS_Subset
  <1>12. Cardinality(C) = f.accepted + framesRefused + 1
    BY <1>3, <1>5, <1>9 DEF UniqueFrames
  <1> HIDE DEF C, N
  <1>13. framesRefused = 0 /\ Cardinality(C) = Cardinality(N)
    BY <1>1, <1>5, <1>8, <1>9, <1>11, <1>12
  <1>14. C = N
    BY <1>9, <1>10, <1>13, FS_Subset
  <1>15. ASSUME NEW i \in DOMAIN stream PROVE stream[i] \in ToSet(captured)
    <2>1. stream[i].n \in N
      BY <1>9 DEF ToSet
    <2>2. PICK g \in ToSet(captured) : g.n = stream[i].n
      BY <1>9, <1>14, <2>1
    <2>3. PICK j \in DOMAIN stream : g = stream[j]
      BY <1>1 DEF ToSet
    <2>4. i \in 1 .. Len(stream) /\ j \in 1 .. Len(stream) /\ Len(stream) \in Nat
      BY <1>1
    <2>5. stream[i].n \in Nat /\ stream[j].n \in Nat
      BY <1>1 DEF SessionTypes
    <2>6. i = j
      BY <1>8, <2>2, <2>3, <2>4, <2>5 DEF Increasing
    <2> QED BY <2>2, <2>3, <2>6
  <1>16. ToSet(stream) \subseteq ToSet(captured)
    BY <1>15 DEF ToSet
  <1>17. N = 0 .. Len(stream) - 1
    <2>1. \A j \in DOMAIN stream : stream[j].n \in Nat /\ stream[j].n <= f.accepted
      BY <1>1, <1>5, <1>7, <1>13 DEF SessionTypes
    <2>2. \A j \in DOMAIN stream : stream[j].n \in 0 .. f.accepted
      BY <1>5, <2>1
    <2>3. N \in SUBSET (0 .. f.accepted)
      BY <1>9, <2>2 DEF ToSet
    <2>4. IsFiniteSet(0 .. f.accepted) /\ Cardinality(0 .. f.accepted) = f.accepted + 1
      <3>1. PICK m \in Nat : m = f.accepted
        BY <1>5
      <3>2. IsFiniteSet(0 .. m) /\ Cardinality(0 .. m) = m + 1
        BY FS_Interval
      <3> QED BY <3>1, <3>2
    <2>5. Cardinality(N) = f.accepted + 1
      BY <1>5, <1>12, <1>13
    <2>6. N = 0 .. f.accepted
      BY <2>3, <2>4, <2>5, FS_Subset
    <2> QED BY <1>5, <1>8, <2>6
  <1> QED BY <1>1, <1>8, <1>13, <1>16, <1>17 DEF N

\* The messages of a complete capture are those of the stream.
LEMMA CompleteMessages ==
  ASSUME SessionTypes, CaptureInv, phase = "done", ToSet(captured) = ToSet(stream), NEW kind
  PROVE  Of(captured, kind) = {b \in Said : b.kind = kind}
PROOF
  <1>1. ToSet(Bodies(captured)) = {g.body : g \in ToSet(captured)}
    BY CapturedFrames DEF Bodies, ToSet
  <1>2. Said = {g.body : g \in ToSet(stream)}
    BY DEF Said, ToSet
  <1> QED BY <1>1, <1>2 DEF Of

\* With every frame captured, the transactions read are those the ring kept.
LEMMA CompleteSamples ==
  ASSUME U32MaxAssumption, RingAssumption, SessionInvariant, phase = "done",
         StreamComplete(captured)
  PROVE  /\ ReadIds = kept
         /\ Capacity > 0 => gapCount = 0
PROOF
  <1>1. /\ SessionTypes /\ CaptureInv /\ BodiesInv /\ DeliveryInv /\ EmptiedInv
        /\ wire \in Seq(Record) /\ count \in 0 .. Capacity /\ Capacity \in Nat
        /\ gapCount \in Nat
    BY DEF SessionInvariant, RingInvariant, TypeOK, RingAssumption
  <1>2. ToSet(captured) = ToSet(stream) /\ framesRefused = 0
    BY CompleteStream
  <1>3. /\ Of(captured, "sample") = {b \in Said : b.kind = "sample"}
    BY <1>1, <1>2, CompleteMessages
  <1>4. Of(captured, "sample") = {b \in ToSet(wire) : b.kind = "sample"}
    BY <1>1, <1>3 DEF BodiesInv, SaysTheTruth
  <1>5. ReadIds = Delivered
    BY <1>4 DEF ReadIds, Delivered, ToSet
  <1>6. room = 0
    BY <1>1 DEF SessionTypes, Summarised
  <1>7. (EngineDrains => Capacity > 0) => count = 0 /\ gapCount = 0
    BY <1>1, <1>2, <1>6 DEF EmptiedInv
  <1>8. CASE EngineDrains => Capacity > 0
    <2>1. RingIds = {}
      BY <1>7, <1>8 DEF RingIds
    <2> QED BY <1>1, <1>2, <1>5, <1>7, <1>8, <2>1 DEF DeliveryInv
  <1>9. CASE EngineDrains /\ ~(Capacity > 0)
    <2>1. kept = {}
      BY <1>1, <1>9 DEF SessionInvariant, NoSlot
    <2> QED BY <1>1, <1>5, <1>9, <2>1 DEF DeliveryInv
  <1> QED BY <1>8, <1>9

\* What the summary says of the counters is what they are.
LEMMA CapturedSummary ==
  ASSUME SessionInvariant, phase = "done", Has(captured, "summary")
  PROVE  The(captured, "summary") = SummaryBody
PROOF
  <1>1. SessionTypes /\ CaptureInv /\ BodiesInv
    BY DEF SessionInvariant
  <1>2. PICK k \in DOMAIN stream : /\ stream[k].body = The(captured, "summary")
                                   /\ The(captured, "summary").kind = "summary"
    BY <1>1, CapturedMessage
  <1>3. SaysTheTruth(stream[k].body)
    BY <1>1 DEF BodiesInv, Said
  <1> QED BY <1>2, <1>3 DEF SaysTheTruth

\* A series whose quantiles may found a verdict has every transaction of the
\* session (latency-telemetry.md:202-206).
THEOREM EligibleSeriesAreWhole == SessionSpec => []EligibleSeriesIsWhole
PROOF
  <1>1. SessionInvariant => EligibleSeriesIsWhole
    <2> SUFFICES ASSUME SessionInvariant, phase = "done", Eligible(captured)
                 PROVE  ReadIds = Issued
      BY DEF EligibleSeriesIsWhole
    <2>1. /\ Has(captured, "summary") /\ StreamComplete(captured)
          /\ The(captured, "summary").drop = 0
      BY DEF Eligible, SeriesComplete
    <2>2. producerDrop = 0
      BY <2>1, CapturedSummary DEF SummaryBody
    <2>3. kept = Issued
      BY <2>2 DEF SessionInvariant, DropFree
    <2> QED BY <2>1, <2>3, CompleteSamples, U32MaxAssumption, RingAssumption
  <1> QED BY <1>1, SessionInvariantHolds, PTL

\* The gap markers of a complete stream name the transactions dropped, when the
\* summary says that the losses are located (latency-telemetry.md:222-226).
THEOREM GapsNameTheLosses == SessionSpec => []GapsLocateEveryLoss
PROOF
  <1>1. SessionInvariant => GapsLocateEveryLoss
    <2> SUFFICES ASSUME SessionInvariant, phase = "done", StreamComplete(captured),
                        GapLocalizationComplete(captured), Capacity > 0
                 PROVE  UNION {LostIds(g) : g \in Of(captured, "gap")} = Issued \ kept
      BY DEF GapsLocateEveryLoss
    <2>1. /\ gapMerged = 0 /\ ~(GapCapacity = 0 /\ producerDrop > 0)
      BY CapturedSummary DEF GapLocalizationComplete, SummaryBody
    <2>2. gapCount = 0
      BY CompleteSamples, U32MaxAssumption, RingAssumption
    <2>3. /\ SessionTypes /\ CaptureInv /\ BodiesInv /\ DropFree /\ NoGapMemory
          /\ RingInvariant /\ wire \in Seq(Record) /\ producerDrop \in Nat
      BY U32MaxAssumption DEF SessionInvariant, RingInvariant, TypeOK
    <2>4. Of(captured, "gap") = {b \in Said : b.kind = "gap"}
      BY <2>3, CompleteStream, CompleteMessages, U32MaxAssumption
    <2>5. Of(captured, "gap") = {wire[k] : k \in SentGaps}
      <3>1. Of(captured, "gap") = {b \in ToSet(wire) : b.kind = "gap"}
        BY <2>3, <2>4 DEF BodiesInv, SaysTheTruth
      <3>2. DOMAIN wire = 1 .. Len(wire)
        BY <2>3
      <3> QED BY <3>1, <3>2 DEF SentGaps, ToSet
    <2>6. CASE GapCapacity > 0
      <3>1. RunsInv
        BY <2>1, <2>3, <2>6 DEF RingInvariant, Exact
      <3>2. Gaps0 = {}
        BY <2>2 DEF Gaps0
      <3>3. /\ \A k \in SentGaps : LostIds(wire[k]) \subseteq Issued \ kept
            /\ \A id \in Issued \ kept : \E k \in SentGaps : id \in LostIds(wire[k])
        BY <3>1, <3>2 DEF RunsInv, Issued
      <3>4. ASSUME NEW id PROVE id \in UNION {LostIds(g) : g \in Of(captured, "gap")}
                                  <=> id \in Issued \ kept
        <4>1. id \in UNION {LostIds(g) : g \in Of(captured, "gap")}
                <=> \E k \in SentGaps : id \in LostIds(wire[k])
          BY <2>5
        <4> QED BY <3>3, <4>1
      <3> QED BY <3>4
    <2>7. CASE GapCapacity = 0
      <3>1. kept = Issued
        BY <2>1, <2>3, <2>7 DEF DropFree
      <3>2. Of(captured, "gap") = {}
        BY <2>3, <2>5, <2>7 DEF NoGapMemory
      <3> QED BY <3>1, <3>2
    <2>8. GapCapacity \in Nat
      BY RingAssumption DEF RingAssumption
    <2> QED BY <2>6, <2>7, <2>8
  <1> QED BY <1>1, SessionInvariantHolds, PTL

\* In a complete stream the histogram of the device counts the samples that the
\* series has (histogram.py:6-9).
THEOREM HistogramsAgree == SessionSpec => []HistogramMatchesSeries
PROOF
  <1>1. SessionInvariant => HistogramMatchesSeries
    <2> SUFFICES ASSUME SessionInvariant, phase = "done", StreamComplete(captured),
                        Has(captured, "histogram"),
                        ~The(captured, "histogram").saturated,
                        EngineDrains => Capacity > 0
                 PROVE  The(captured, "histogram").count = Cardinality(ReadIds \cap okIds)
      BY DEF HistogramMatchesSeries
    <2>1. SessionTypes /\ CaptureInv /\ BodiesInv /\ HistogramInv
      BY DEF SessionInvariant
    <2>2. PICK k \in DOMAIN stream : /\ stream[k].body = The(captured, "histogram")
                                     /\ The(captured, "histogram").kind = "histogram"
      BY <2>1, CapturedMessage
    <2>3. SaysTheTruth(stream[k].body)
      BY <2>1 DEF BodiesInv, Said
    <2>4. HistogramOn /\ The(captured, "histogram") = HistogramBody
      BY <2>2, <2>3 DEF SaysTheTruth
    <2>5. histogram.count = Cardinality(kept \cap okIds)
      BY <2>1, <2>4 DEF HistogramInv, HistogramBody
    <2>6. ReadIds = kept
      BY CompleteSamples, U32MaxAssumption, RingAssumption
    <2> QED BY <2>4, <2>5, <2>6 DEF HistogramBody
  <1> QED BY <1>1, SessionInvariantHolds, PTL

-----------------------------------------------------------------------------
(* The analysis of the frame numbers, frame by frame.                      *)

SeqStates == [seen : SUBSET (0 .. U32Max), previous : 0 .. U32Max, missing : Int,
              duplicate : Int, outOfOrder : Int]

LEMMA SeqStepType ==
  ASSUME U32MaxAssumption, NEW a \in SeqStates, NEW n \in 0 .. U32Max
  PROVE  SeqStep(a, n) \in SeqStates
PROOF
  <1>1. a.seen \cup {n} \in SUBSET (0 .. U32Max) /\ a.previous \in Int /\ n \in Int
    BY DEF SeqStates
  <1> DEFINE delta == (n - a.previous) % NumberMod
             new == [a EXCEPT !.seen = @ \cup {n}, !.previous = n]
  <1>2. delta \in Int
    BY <1>1, U32MaxAssumption, ModRange DEF NumberMod
  <1>3. new \in SeqStates
    BY <1>1 DEF SeqStates
  <1>4. [a EXCEPT !.duplicate = @ + 1] \in SeqStates
    BY DEF SeqStates
  <1> HIDE DEF new, delta
  <1>5. [new EXCEPT !.outOfOrder = @ + 1] \in SeqStates
    BY <1>3 DEF SeqStates
  <1>6. [new EXCEPT !.missing = @ + delta - 1] \in SeqStates
    BY <1>2, <1>3 DEF SeqStates
  <1> QED BY <1>3, <1>4, <1>5, <1>6 DEF SeqStep, new, delta

\* The states of the analysis of the numbers s.
Analysing(s, st) ==
  /\ st \in [0 .. Len(s) -> SeqStates]
  /\ st[0] = NothingSeen
  /\ \A k \in 1 .. Len(s) : st[k] = SeqStep(st[k - 1], s[k])

LEMMA AnalysisSteps ==
  ASSUME U32MaxAssumption, NEW frames, Numbers(frames) \in Seq(0 .. U32Max)
  PROVE  \E st : Analysing(Numbers(frames), st)
                /\ SeqAnalysis(frames) = st[Len(Numbers(frames))]
PROOF
  <1>0. PICK s \in Seq(0 .. U32Max) : s = Numbers(frames)
    OBVIOUS
  <1> DEFINE n == Len(s)
             A == SeqStates
             F == [p \in A \X (1 .. n) |-> SeqStep(p[1], s[p[2]])]
             P(g) == g = [t \in SUBSET (1 .. n) |->
                            IF t = {} THEN NothingSeen
                            ELSE SeqStep(g[t \ {Max(t)}], s[Max(t)])]
             iter == CHOOSE g : P(g)
  <1>1. n \in Nat /\ DOMAIN s = 1 .. n /\ \A k \in 1 .. n : s[k] \in 0 .. U32Max
    OBVIOUS
  <1>2. NothingSeen \in A
    BY U32MaxAssumption DEF NothingSeen, SeqStates
  <1>3. SeqAnalysis(frames) = iter[1 .. n]
    BY <1>0, <1>1 DEF SeqAnalysis, FoldLeft, MapThenFoldSet
  <1>4. F \in [A \X (1 .. n) -> A]
    BY <1>1, SeqStepType
  <1>5. PICK g \in Foldings(n, A) : Folding(g, n, NothingSeen, F)
    <2> HIDE DEF F, n, A
    <2> QED BY <1>1, <1>2, <1>4, FoldExists
  <1>6. ASSUME NEW t \in SUBSET (1 .. n), t # {}
        PROVE  /\ Max(t) \in t /\ t \ {Max(t)} \in SUBSET (1 .. n)
               /\ g[t \ {Max(t)}] \in A
    BY <1>1, <1>5, <1>6, MaxExists DEF Foldings
  <1>7. ASSUME NEW t \in SUBSET (1 .. n)
        PROVE  g[t] = IF t = {} THEN NothingSeen
                      ELSE SeqStep(g[t \ {Max(t)}], s[Max(t)])
    <2>1. g[t] = IF t = {} THEN NothingSeen ELSE F[<<g[t \ {Max(t)}], Max(t)>>]
      BY <1>5 DEF Folding
    <2>2. ASSUME t # {}
          PROVE  F[<<g[t \ {Max(t)}], Max(t)>>] = SeqStep(g[t \ {Max(t)}], s[Max(t)])
      <3>1. <<g[t \ {Max(t)}], Max(t)>> \in A \X (1 .. n)
        BY <1>6, <2>2
      <3> QED BY <3>1
    <2> QED BY <2>1, <2>2
  <1>8. P(g)
    BY <1>5, <1>7 DEF Foldings
  <1>9. P(iter)
    BY <1>8, Zenon
  <1> DEFINE st == [k \in 0 .. n |-> iter[1 .. k]]
  <1>10. st[0] = NothingSeen
    <2>1. 1 .. 0 = {} /\ {} \in SUBSET (1 .. n)
      OBVIOUS
    <2>2. iter[{}] = NothingSeen
      BY <1>9, <2>1
    <2> HIDE DEF iter
    <2> QED BY <1>1, <2>1, <2>2
  <1>11. ASSUME NEW k \in 1 .. n PROVE st[k] = SeqStep(st[k - 1], s[k])
    <2>1. /\ Max(1 .. k) = k /\ (1 .. k) \ {k} = 1 .. k - 1
          /\ 1 .. k \in SUBSET (1 .. n) /\ 1 .. k # {}
      BY <1>1, FirstPositions
    <2>2. iter[1 .. k] = SeqStep(iter[1 .. k - 1], s[k])
      BY <1>9, <2>1
    <2> QED BY <1>1, <2>2
  <1>12. SeqAnalysis(frames) = st[n]
    BY <1>1, <1>3
  <1> DEFINE S == {k \in Nat : k <= n => st[k] \in A}
  <1> HIDE DEF st, A
  <1>13. 0 \in S
    BY <1>2, <1>10
  <1>14. ASSUME NEW k \in Nat, k \in S PROVE k + 1 \in S
    <2>1. CASE k + 1 <= n
      <3>1. k + 1 \in 1 .. n /\ (k + 1) - 1 = k /\ st[k] \in A
        BY <1>14, <2>1
      <3> QED BY <1>1, <1>11, <3>1, SeqStepType DEF A
    <2>2. CASE ~(k + 1 <= n)
      BY <2>2
    <2> QED BY <2>1, <2>2
  <1> HIDE DEF S
  <1>15. Nat \subseteq S
    BY <1>13, <1>14, Induction
  <1>16. \A k \in 0 .. n : st[k] \in A
    BY <1>15 DEF S
  <1>17. st \in [0 .. n -> A]
    BY <1>16 DEF st
  <1>18. Analysing(s, st)
    BY <1>10, <1>11, <1>17 DEF A, Analysing
  <1> QED BY <1>0, <1>12, <1>18

\* One number: a frame that was not seen before is seen, and counts as missing
\* those that a jump passed over.
Jump(a, n) == (n - a.previous) % NumberMod

LEMMA OneNumber ==
  ASSUME U32MaxAssumption, NEW a \in SeqStates, NEW n \in 0 .. U32Max,
         a.seen = {} \/ a.previous \in a.seen, NEW r, r = SeqStep(a, n)
  PROVE  /\ r.seen = a.seen \cup {n} /\ r.previous \in r.seen
         /\ n \notin a.seen => r.previous = n
         /\ n \in a.seen => r.previous = a.previous /\ r.missing = a.missing
                            /\ r.outOfOrder = a.outOfOrder
         /\ n \notin a.seen /\ a.seen = {} =>
              r.missing = a.missing /\ r.outOfOrder = a.outOfOrder
         /\ n \notin a.seen /\ a.seen # {} /\ (Jump(a, n) < NumberHalf \/ Jump(a, n) = 1)
              => r.missing = a.missing + Jump(a, n) - 1 /\ r.outOfOrder = a.outOfOrder
         /\ n \notin a.seen /\ a.seen # {} /\ Jump(a, n) >= NumberHalf /\ Jump(a, n) # 1
              => r.missing = a.missing /\ r.outOfOrder = a.outOfOrder + 1
         /\ r.missing >= a.missing
PROOF
  <1> DEFINE delta == Jump(a, n)
             new == [a EXCEPT !.seen = @ \cup {n}, !.previous = n]
  <1>1. /\ a.previous \in 0 .. U32Max /\ a.missing \in Int /\ a.outOfOrder \in Int
        /\ a.duplicate \in Int
    BY DEF SeqStates
  <1>2. /\ new.seen = a.seen \cup {n} /\ new.previous = n /\ new.missing = a.missing
        /\ new.duplicate = a.duplicate /\ new.outOfOrder = a.outOfOrder
        /\ new \in SeqStates
    BY DEF SeqStates
  <1>3. delta \in 0 .. U32Max /\ NumberHalf \in Int
    BY <1>1, U32MaxAssumption DEF NumberMod, NumberHalf, Jump
  <1>4. delta = 0 => n = a.previous
    <2>1. a.previous < NumberMod /\ n < NumberMod /\ NumberMod \in Nat /\ NumberMod > 0
      BY <1>1, U32MaxAssumption DEF NumberMod
    <2>2. CASE n >= a.previous
      <3>1. n - a.previous \in 0 .. NumberMod - 1
        BY <1>1, <2>1, <2>2
      <3>2. delta = n - a.previous
        BY <2>1, <3>1, ModOnce DEF Jump
      <3> QED BY <1>1, <3>2
    <2>3. CASE ~(n >= a.previous)
      <3>1. n - a.previous + NumberMod \in 1 .. NumberMod - 1
        BY <1>1, <2>1, <2>3
      <3>2. delta = n - a.previous + NumberMod
        BY <1>1, <2>1, <2>3, <3>1 DEF Jump
      <3> QED BY <3>1, <3>2
    <2> QED BY <2>2, <2>3
  <1> HIDE DEF new, delta
  <1>5. CASE n \in a.seen
    <2>1. r = [a EXCEPT !.duplicate = @ + 1]
      BY <1>5 DEF SeqStep
    <2>2. /\ r.seen = a.seen /\ r.previous = a.previous /\ r.missing = a.missing
          /\ r.outOfOrder = a.outOfOrder
      BY <2>1 DEF SeqStates
    <2> QED BY <1>1, <1>5, <2>2 DEF delta
  <1>6. CASE n \notin a.seen /\ (a.seen = {} \/ delta = 1)
    <2>1. r = new
      BY <1>6 DEF SeqStep, new, delta, Jump
    <2> QED BY <1>1, <1>2, <1>3, <1>6, <2>1 DEF delta
  <1>7. CASE n \notin a.seen /\ a.seen # {} /\ delta # 1 /\ delta >= NumberHalf
    <2>1. r = [new EXCEPT !.outOfOrder = @ + 1]
      BY <1>7 DEF SeqStep, new, delta, Jump
    <2>2. /\ r.seen = new.seen /\ r.previous = new.previous /\ r.missing = new.missing
          /\ r.outOfOrder = new.outOfOrder + 1
      BY <1>2, <2>1 DEF SeqStates
    <2> QED BY <1>1, <1>2, <1>3, <1>7, <2>2 DEF delta
  <1>8. CASE n \notin a.seen /\ a.seen # {} /\ delta # 1 /\ ~(delta >= NumberHalf)
    <2>1. r = [new EXCEPT !.missing = @ + delta - 1]
      BY <1>8 DEF SeqStep, new, delta, Jump
    <2>2. /\ r.seen = new.seen /\ r.previous = new.previous
          /\ r.missing = new.missing + delta - 1 /\ r.outOfOrder = new.outOfOrder
      BY <1>2, <2>1 DEF SeqStates
    <2>3. delta >= 1
      BY <1>3, <1>4, <1>8
    <2> QED BY <1>1, <1>2, <1>3, <1>8, <2>2, <2>3 DEF delta
  <1> QED BY <1>5, <1>6, <1>7, <1>8

\* All the numbers: each is seen, and what is missing only grows.
LEMMA AllNumbers ==
  ASSUME U32MaxAssumption, NEW s \in Seq(0 .. U32Max), NEW st, Analysing(s, st)
  PROVE  \A k \in 0 .. Len(s) :
           /\ st[k] \in SeqStates
           /\ st[k].seen = {s[i] : i \in 1 .. k}
           /\ st[k].seen = {} \/ st[k].previous \in st[k].seen
           /\ \A j \in 0 .. k : st[k].missing >= st[j].missing
PROOF
  <1> DEFINE S == {k \in Nat : k <= Len(s) =>
                     /\ st[k].seen = {s[i] : i \in 1 .. k}
                     /\ st[k].seen = {} \/ st[k].previous \in st[k].seen
                     /\ \A j \in 0 .. k : st[k].missing >= st[j].missing}
  <1>0. /\ st \in [0 .. Len(s) -> SeqStates] /\ st[0] = NothingSeen
        /\ \A k \in 1 .. Len(s) : st[k] = SeqStep(st[k - 1], s[k])
    BY DEF Analysing
  <1>1. 0 \in S
    BY <1>0 DEF NothingSeen, SeqStates
  <1>2. ASSUME NEW k \in Nat, k \in S PROVE k + 1 \in S
    <2>0. k + 1 \in Nat
      OBVIOUS
    <2> SUFFICES ASSUME k + 1 <= Len(s)
                 PROVE  /\ st[k + 1].seen = {s[i] : i \in 1 .. k + 1}
                        /\ st[k + 1].seen = {} \/ st[k + 1].previous \in st[k + 1].seen
                        /\ \A j \in 0 .. k + 1 : st[k + 1].missing >= st[j].missing
      BY <2>0, Zenon
    <2>1. /\ k \in 0 .. Len(s) /\ k + 1 \in 1 .. Len(s) /\ (k + 1) - 1 = k
          /\ k + 1 \in 0 .. Len(s) /\ s[k + 1] \in 0 .. U32Max /\ k <= Len(s)
      OBVIOUS
    <2>2. /\ st[k].seen = {s[i] : i \in 1 .. k}
          /\ st[k].seen = {} \/ st[k].previous \in st[k].seen
          /\ \A j \in 0 .. k : st[k].missing >= st[j].missing
      BY <1>2, <2>1
    <2>3. st[k] \in SeqStates /\ st[k + 1] = SeqStep(st[k], s[k + 1])
          /\ st[k + 1] \in SeqStates
      BY <1>0, <2>1
    <2>4. /\ st[k + 1].seen = st[k].seen \cup {s[k + 1]}
          /\ st[k + 1].previous \in st[k + 1].seen
          /\ st[k + 1].missing >= st[k].missing
      <3>1. PICK a \in SeqStates : a = st[k]
        BY <2>3
      <3>2. PICK n \in 0 .. U32Max : n = s[k + 1]
        BY <2>1
      <3>3. st[k + 1] = SeqStep(a, n) /\ (a.seen = {} \/ a.previous \in a.seen)
        BY <2>2, <2>3, <3>1, <3>2
      <3> QED BY <3>1, <3>2, <3>3, OneNumber
    <2>5. \A j \in 0 .. k + 1 : j \in 0 .. k \/ j = k + 1
      OBVIOUS
    <2>6. \A j \in 0 .. Len(s) : st[j].missing \in Int
      BY <1>0 DEF SeqStates
    <2>7. ASSUME NEW j \in 0 .. k + 1 PROVE st[k + 1].missing >= st[j].missing
      <3>1. st[k].missing \in Int /\ st[k + 1].missing \in Int /\ st[j].missing \in Int
        BY <2>1, <2>6
      <3>2. CASE j \in 0 .. k
        BY <2>2, <2>4, <3>1, <3>2
      <3>3. CASE j = k + 1
        BY <3>1, <3>3
      <3> QED BY <2>5, <3>2, <3>3
    <2>8. {s[i] : i \in 1 .. k + 1} = {s[i] : i \in 1 .. k} \cup {s[k + 1]}
      <3>1. \A i \in 1 .. k + 1 : i \in 1 .. k \/ i = k + 1
        OBVIOUS
      <3>2. k + 1 \in 1 .. k + 1 /\ \A i \in 1 .. k : i \in 1 .. k + 1
        OBVIOUS
      <3> QED BY <3>1, <3>2
    <2> QED BY <2>2, <2>4, <2>7, <2>8
  <1> HIDE DEF S
  <1>3. Nat \subseteq S
    BY <1>1, <1>2, Induction
  <1>4. \A k \in 0 .. Len(s) : k \in S /\ k <= Len(s) /\ st[k] \in SeqStates
    BY <1>0, <1>3
  <1> QED BY <1>4 DEF S

\* A number that jumps over one, the first time that either is received.
JumpsAt(s, k) ==
  /\ s[k] = s[k - 1] + 2
  /\ \A i \in 1 .. k - 1 : s[i] # s[k]
  /\ \A i \in 1 .. k - 2 : s[i] # s[k - 1]

\* Such a jump leaves a gap.
LEMMA JumpIsMissing ==
  ASSUME U32MaxAssumption, U32Max > 4, NEW frames, NEW s \in Seq(0 .. U32Max),
         s = Numbers(frames), NEW k \in 2 .. Len(s), JumpsAt(s, k),
         Has(frames, "footer") => The(frames, "footer").last \in 0 .. U32Max
  PROVE  TransportGap(frames) # 0
PROOF
  <1>0. PICK st : Analysing(s, st) /\ SeqAnalysis(frames) = st[Len(s)]
    BY AnalysisSteps
  <1>1. /\ st[0] = NothingSeen
        /\ \A j \in 1 .. Len(s) : st[j] = SeqStep(st[j - 1], s[j])
    BY <1>0 DEF Analysing
  <1>2. \A j \in 0 .. Len(s) :
          /\ st[j].seen = {s[i] : i \in 1 .. j}
          /\ st[j].seen = {} \/ st[j].previous \in st[j].seen
          /\ \A i \in 0 .. j : st[j].missing >= st[i].missing
    BY <1>0, AllNumbers
  <1>3. /\ Len(s) \in Nat /\ k - 2 \in 0 .. Len(s) /\ k - 1 \in 1 .. Len(s)
        /\ k \in 1 .. Len(s) /\ (k - 1) - 1 = k - 2 /\ k - 1 \in 0 .. Len(s)
        /\ k \in 0 .. Len(s) /\ Len(s) \in 0 .. Len(s) /\ 0 \in 0 .. k - 1
    OBVIOUS
  <1>4. /\ s[k] \in 0 .. U32Max /\ s[k - 1] \in 0 .. U32Max
        /\ \A j \in 0 .. Len(s) : st[j] \in SeqStates
    <2>1. \A j \in 0 .. Len(s) : st[j] \in SeqStates
      BY <1>0, AllNumbers
    <2> QED BY <1>3, <2>1
  <1>5. st[k - 1].previous = s[k - 1]
    <2>1. PICK a \in SeqStates : a = st[k - 2]
      BY <1>3, <1>4
    <2>2. PICK r : r = st[k - 1]
      OBVIOUS
    <2>3. r = SeqStep(a, s[k - 1]) /\ (a.seen = {} \/ a.previous \in a.seen)
      BY <1>1, <1>2, <1>3, <2>1, <2>2
    <2>4. s[k - 1] \notin a.seen
      <3>1. a.seen = {s[i] : i \in 1 .. k - 2}
        BY <1>2, <1>3, <2>1
      <3> QED BY <3>1 DEF JumpsAt
    <2>5. PICK n \in 0 .. U32Max : n = s[k - 1]
      BY <1>4
    <2> QED BY <2>1, <2>2, <2>3, <2>4, <2>5, OneNumber
  <1>6. st[k].missing = st[k - 1].missing + 1
    <2>1. PICK a \in SeqStates : a = st[k - 1]
      BY <1>3, <1>4
    <2>2. PICK r : r = st[k]
      OBVIOUS
    <2>3. r = SeqStep(a, s[k]) /\ (a.seen = {} \/ a.previous \in a.seen)
      BY <1>1, <1>2, <1>3, <2>1, <2>2
    <2>4. a.seen = {s[i] : i \in 1 .. k - 1}
      BY <1>2, <1>3, <2>1
    <2>5. s[k] \notin a.seen /\ a.seen # {}
      <3>1. k - 1 \in 1 .. k - 1
        OBVIOUS
      <3> QED BY <2>4, <3>1 DEF JumpsAt
    <2>6. Jump(a, s[k]) = 2
      <3>1. s[k] - a.previous = 2
        BY <1>4, <1>5, <2>1 DEF JumpsAt
      <3>2. 2 % NumberMod = 2
        <4>1. NumberMod \in Nat \ {0} /\ 2 < NumberMod
          BY U32MaxAssumption DEF NumberMod
        <4>2. PICK m \in Nat \ {0} : m = NumberMod
          BY <4>1
        <4>3. 2 \in Nat /\ 2 < m /\ 2 < 2 * m
          BY <4>1, <4>2
        <4>4. 2 % m = 2
          BY <4>3, ModOnce
        <4> QED BY <4>2, <4>4
      <3> QED BY <3>1, <3>2 DEF Jump
    <2>7. NumberHalf > 2 /\ NumberHalf \in Int
      BY U32MaxAssumption DEF NumberHalf, NumberMod
    <2>8. r.missing = a.missing + Jump(a, s[k]) - 1
      <3>1. PICK n \in 0 .. U32Max : n = s[k]
        BY <1>4, Zenon
      <3> QED BY <2>3, <2>5, <2>6, <2>7, <3>1, OneNumber
    <2>9. a.missing \in Int
      BY DEF SeqStates
    <2> QED BY <2>1, <2>2, <2>6, <2>8, <2>9
  <1> DEFINE a == SeqAnalysis(frames)
  <1>7. a \in SeqStates /\ a.missing >= 1
    <2>1. st[0].missing = 0
      BY <1>1 DEF NothingSeen
    <2>2. /\ st[k - 1].missing >= st[0].missing
          /\ a.missing >= st[k].missing
      BY <1>0, <1>2, <1>3
    <2>3. \A j \in 0 .. Len(s) : st[j].missing \in Int
      BY <1>4 DEF SeqStates
    <2>4. /\ st[k - 1].missing \in Int /\ st[k].missing \in Int /\ a.missing \in Int
      BY <1>0, <1>3, <2>3
    <2>5. a \in SeqStates
      BY <1>0, <1>3, <1>4
    <2> HIDE DEF a
    <2> QED BY <1>6, <2>1, <2>2, <2>4, <2>5
  <1> DEFINE trailing == IF Has(frames, "footer")
                           THEN (The(frames, "footer").last - a.previous) % NumberMod
                           ELSE 0
  <1>8. trailing \in Nat
    <2>1. NumberMod \in Nat \ {0} /\ a.previous \in Int
      BY <1>7, U32MaxAssumption DEF NumberMod, SeqStates
    <2>2. CASE Has(frames, "footer")
      <3>1. PICK x \in Int : x = The(frames, "footer").last - a.previous
        BY <2>1, <2>2
      <3>2. x % NumberMod \in 0 .. NumberMod - 1
        BY <2>1, <3>1
      <3> QED BY <2>1, <2>2, <3>1, <3>2
    <2> QED BY <2>2
  <1>9. TransportGap(frames) = a.missing + IF trailing >= NumberHalf THEN 0 ELSE trailing
    BY DEF TransportGap
  <1>10. a.missing \in Int
    BY <1>7 DEF SeqStates
  <1> HIDE DEF a, trailing
  <1> QED BY <1>7, <1>8, <1>9, <1>10

\* A complete stream has every frame, in the order of emission but for
\* repetitions (latency-telemetry.md:86-94), as soon as frame numbers have room
\* for two more (UINT32_MAX does).
THEOREM CompleteStreamsAreWhole ==
  ASSUME U32Max > 4
  PROVE  SessionSpec => []CompleteHasEveryFrame
PROOF
  <1>1. SessionInvariant => CompleteHasEveryFrame
    <2> SUFFICES ASSUME SessionInvariant, phase = "done", StreamComplete(captured)
                 PROVE  /\ ToSet(captured) = ToSet(stream)
                        /\ framesRefused = 0
                        /\ \A i, j \in DOMAIN captured :
                             i < j => captured[i].n <= captured[j].n
      BY DEF CompleteHasEveryFrame
    <2>1. /\ SessionTypes /\ CaptureInv
          /\ ToSet(captured) = ToSet(stream) /\ framesRefused = 0
          /\ Increasing(stream)
          /\ ToSet(Numbers(stream)) = 0 .. Len(stream) - 1
      BY CompleteStream, U32MaxAssumption DEF SessionInvariant
    <2>2. PICK got \in Seq(ToSet(stream)) : Increasing(got) /\ CapturedFrom(got)
      <3>1. PICK lost \in LostFrames : CapturedFrom(Without(lost))
        BY <2>1 DEF CaptureInv
      <3> QED BY <2>1, <3>1, WithoutSome DEF SessionTypes
    <2>3. /\ DOMAIN got = 1 .. Len(got) /\ Len(got) \in Nat
          /\ \A j \in 1 .. Len(got) : got[j].n \in 0 .. U32Max
      <3>1. \A g \in ToSet(stream) : g.n \in 0 .. U32Max
        BY <2>1 DEF SessionTypes, ToSet
      <3> QED BY <2>2, <3>1
    <2>4. CASE captured = got
      BY <2>1, <2>2, <2>3, <2>4 DEF Increasing
    <2>5. ASSUME NEW k \in 1 .. Len(got), captured = Repeated(got, k)
          PROVE  \A i, j \in DOMAIN captured : i < j => captured[i].n <= captured[j].n
      <3>1. /\ DOMAIN captured = 1 .. Len(got) + 1
            /\ \A j \in 1 .. Len(got) + 1 :
                 captured[j] = IF j <= k THEN got[j] ELSE got[j - 1]
        BY <2>3, <2>5, RepeatedFrames
      <3> SUFFICES ASSUME NEW i \in 1 .. Len(got) + 1, NEW j \in 1 .. Len(got) + 1, i < j
                   PROVE  captured[i].n <= captured[j].n
        BY <3>1
      <3> DEFINE from(x) == IF x <= k THEN x ELSE x - 1
      <3>2. /\ from(i) \in 1 .. Len(got) /\ from(j) \in 1 .. Len(got) /\ from(i) <= from(j)
        BY <2>3
      <3>3. captured[i] = got[from(i)] /\ captured[j] = got[from(j)]
        BY <3>1
      <3> HIDE DEF from
      <3>4. got[from(i)].n <= got[from(j)].n
        BY <2>2, <2>3, <3>2 DEF Increasing
      <3> QED BY <3>3, <3>4
    <2>6. ASSUME NEW k \in 1 .. Len(got) - 1, captured = Swapped(got, k)
          PROVE  FALSE
      <3>1. /\ Len(captured) = Len(got) /\ DOMAIN captured = 1 .. Len(got)
            /\ captured \in Seq(ToSet(stream))
            /\ \A j \in 1 .. Len(got) :
                 captured[j] = IF j = k THEN got[k + 1]
                               ELSE IF j = k + 1 THEN got[k] ELSE got[j]
        BY <2>3, <2>6, SwappedFrames
      <3> DEFINE s == Numbers(captured)
      <3>2. /\ s \in Seq(0 .. U32Max) /\ Len(s) = Len(got)
            /\ \A j \in 1 .. Len(got) :
                 s[j] = IF j = k THEN got[k + 1].n
                        ELSE IF j = k + 1 THEN got[k].n ELSE got[j].n
        <4>1. \A j \in 1 .. Len(got) : captured[j].n \in 0 .. U32Max
          BY <2>3, <3>1
        <4>2. s = [j \in 1 .. Len(got) |-> captured[j].n]
          BY <3>1 DEF Numbers
        <4> QED BY <2>3, <3>1, <4>1, <4>2
      <3>3. \A i, j \in 1 .. Len(got) : i < j => got[i].n < got[j].n
        BY <2>2, <2>3 DEF Increasing
      <3>4. k # 1
        <4>1. captured[1].n = 0
          BY DEF StreamComplete, FooterConsistent
        <4>2. 1 \in 1 .. Len(got) /\ 2 \in 1 .. Len(got) /\ k \in 1 .. Len(got)
          BY <2>3
        <4> QED BY <2>3, <3>1, <3>3, <4>1, <4>2
      <3>5. /\ k \in 2 .. Len(got) /\ k - 1 \in 1 .. Len(got) /\ k + 1 \in 1 .. Len(got)
            /\ k \in 1 .. Len(got)
        BY <2>3, <3>4
      <3>6. got[k + 1].n = got[k - 1].n + 2
        <4>1. /\ got[k - 1].n < got[k].n /\ got[k].n < got[k + 1].n
              /\ got[k - 1].n \in Nat /\ got[k].n \in Nat /\ got[k + 1].n \in Nat
          BY <2>3, <3>3, <3>5
        <4>2. ASSUME NEW v \in Nat, got[k - 1].n < v, v < got[k + 1].n
              PROVE  v = got[k].n
          <5>1. got[k + 1].n \in 0 .. Len(stream) - 1
            <6>1. got[k + 1] \in ToSet(stream)
              BY <3>5
            <6>2. ToSet(Numbers(stream)) = {g.n : g \in ToSet(stream)}
              BY <2>1, NumberSet DEF SessionTypes
            <6> QED BY <2>1, <6>1, <6>2
          <5>2. Len(stream) \in Nat
            BY <2>1 DEF SessionTypes
          <5>3. v \in 0 .. Len(stream) - 1
            BY <4>2, <5>1, <5>2
          <5>4. PICK g \in ToSet(captured) : g.n = v
            <6>1. ToSet(Numbers(stream)) = {g.n : g \in ToSet(stream)}
              BY <2>1, NumberSet DEF SessionTypes
            <6> QED BY <2>1, <5>3, <6>1
          <5>5. PICK j \in 1 .. Len(got) : captured[j] = g
            BY <3>1, <5>4 DEF ToSet
          <5>6. PICK i \in 1 .. Len(got) : got[i].n = v
            BY <3>1, <3>5, <5>4, <5>5
          <5>7. i < k - 1 => got[i].n < got[k - 1].n
            BY <3>3, <3>5
          <5>8. i > k + 1 => got[k + 1].n < got[i].n
            BY <3>3, <3>5
          <5>9. ~(i < k - 1) /\ ~(i > k + 1) /\ i # k - 1 /\ i # k + 1
            BY <4>1, <4>2, <5>6, <5>7, <5>8
          <5>10. i = k
            BY <3>5, <5>9
          <5> QED BY <5>6, <5>10
        <4>3. got[k - 1].n + 1 = got[k].n
          <5>1. /\ got[k - 1].n + 1 \in Nat /\ got[k - 1].n < got[k - 1].n + 1
                /\ got[k - 1].n + 1 < got[k + 1].n
            BY <4>1
          <5> QED BY <4>2, <5>1
        <4>4. got[k].n + 1 = got[k + 1].n
          <5>1. CASE got[k].n + 1 < got[k + 1].n
            <6>1. got[k].n + 1 \in Nat /\ got[k - 1].n < got[k].n + 1
              BY <4>1
            <6>2. got[k].n + 1 = got[k].n
              BY <4>2, <5>1, <6>1
            <6> QED BY <4>1, <6>2
          <5> QED BY <4>1, <5>1
        <4> DEFINE x == got[k - 1].n
                   y == got[k].n
                   z == got[k + 1].n
        <4>5. x \in Nat /\ x + 1 = y /\ y + 1 = z
          BY <4>1, <4>3, <4>4
        <4> HIDE DEF x, y, z
        <4>6. z = x + 2
          BY <4>5
        <4> QED BY <4>6 DEF x, z
      <3>7. /\ s[k] = got[k + 1].n /\ s[k - 1] = got[k - 1].n
            /\ \A i \in 1 .. k - 1 : s[i] = got[i].n /\ i \in 1 .. Len(got)
        BY <2>3, <3>2, <3>5
      <3>8. JumpsAt(s, k)
        <4>1. \A i \in 1 .. k - 1 : got[i].n < got[k + 1].n
          BY <2>3, <3>3, <3>5
        <4>2. \A i \in 1 .. k - 2 : got[i].n < got[k - 1].n /\ i \in 1 .. k - 1
          BY <2>3, <3>3, <3>5
        <4>3. \A i \in 1 .. Len(got) : got[i].n \in Nat
          BY <2>3
        <4> HIDE DEF s
        <4>4. s[k] = s[k - 1] + 2
          BY <3>6, <3>7
        <4>5. ASSUME NEW i \in 1 .. k - 1 PROVE s[i] # s[k]
          BY <3>5, <3>7, <4>1, <4>3
        <4>6. ASSUME NEW i \in 1 .. k - 2 PROVE s[i] # s[k - 1]
          <5>1. i \in 1 .. k - 1 /\ k - 1 \in 1 .. Len(got) /\ i \in 1 .. Len(got)
            BY <3>5
          <5>2. /\ s[i] = got[i].n /\ s[k - 1] = got[k - 1].n
                /\ got[i].n < got[k - 1].n
            BY <3>7, <4>2, <5>1
          <5> QED BY <4>3, <5>1, <5>2
        <4> QED BY <4>4, <4>5, <4>6 DEF JumpsAt
      <3>9. Has(captured, "footer") => The(captured, "footer").last \in 0 .. U32Max
        <4> SUFFICES ASSUME Has(captured, "footer")
                     PROVE  The(captured, "footer").last \in 0 .. U32Max
          OBVIOUS
        <4>1. PICK j \in DOMAIN stream : /\ stream[j].body = The(captured, "footer")
                                         /\ The(captured, "footer").kind = "footer"
          BY <2>1, CapturedMessage
        <4>2. FooterInv
          BY DEF SessionInvariant
        <4> QED BY <4>1, <4>2 DEF FooterInv
      <3> HIDE DEF s
      <3>10. TransportGap(captured) # 0
        BY <3>2, <3>5, <3>8, <3>9, JumpIsMissing, U32MaxAssumption DEF s
      <3> QED BY <3>10 DEF StreamComplete
    <2> QED BY <2>1, <2>2, <2>4, <2>5, <2>6 DEF CapturedFrom
  <1> QED BY <1>1, SessionInvariantHolds, PTL

-----------------------------------------------------------------------------
(* The transport gap.                                                      *)

StreamStates == {"init", "body", "summary", "histogram", "end", "error"}

\* One message of the stream's state machine.
AfterMessage(state, b) ==
  IF b.kind \in Allowed(state) THEN StateAfter(b.kind) ELSE "error"

LEMMA AfterMessageType ==
  ASSUME NEW state \in StreamStates, NEW b
  PROVE  AfterMessage(state, b) \in StreamStates
PROOF
  <1>1. CASE b.kind \in Allowed(state)
    <2>1. b.kind \in {"header", "sample", "gap", "summary", "histogram", "footer"}
      BY <1>1 DEF Allowed, StreamStates
    <2>2. StateAfter(b.kind) \in StreamStates
      BY <2>1 DEF StateAfter, StreamStates
    <2> QED BY <1>1, <2>2 DEF AfterMessage
  <1>2. CASE b.kind \notin Allowed(state)
    BY <1>2 DEF AfterMessage, StreamStates
  <1> QED BY <1>1, <1>2

LEMMA StructureSteps ==
  ASSUME NEW A, NEW frames \in Seq(A)
  PROVE  \E st : /\ st[0] = "init" /\ Structure(frames) = st[Len(frames)]
                 /\ \A k \in 1 .. Len(frames) :
                      st[k] = AfterMessage(st[k - 1], Bodies(frames)[k])
PROOF
  <1>0. PICK s : s = Bodies(frames)
    OBVIOUS
  <1> DEFINE n == Len(frames)
             F == [p \in StreamStates \X (1 .. n) |-> AfterMessage(p[1], s[p[2]])]
             P(g) == g = [t \in SUBSET (1 .. n) |->
                            IF t = {} THEN "init"
                            ELSE AfterMessage(g[t \ {Max(t)}], s[Max(t)])]
             iter == CHOOSE g : P(g)
  <1>1. n \in Nat /\ DOMAIN s = 1 .. n
    BY <1>0 DEF Bodies
  <1>2. "init" \in StreamStates
    BY DEF StreamStates
  <1>3. Structure(frames) = iter[1 .. n]
    BY <1>0, <1>1 DEF Structure, FoldLeft, MapThenFoldSet, AfterMessage
  <1>4. F \in [StreamStates \X (1 .. n) -> StreamStates]
    BY <1>1, AfterMessageType
  <1>5. PICK g \in Foldings(n, StreamStates) : Folding(g, n, "init", F)
    <2> HIDE DEF F, n
    <2> QED BY <1>1, <1>2, <1>4, FoldExists
  <1>6. ASSUME NEW t \in SUBSET (1 .. n), t # {}
        PROVE  /\ Max(t) \in t /\ t \ {Max(t)} \in SUBSET (1 .. n)
               /\ g[t \ {Max(t)}] \in StreamStates
    BY <1>1, <1>5, <1>6, MaxExists DEF Foldings
  <1>7. ASSUME NEW t \in SUBSET (1 .. n)
        PROVE  g[t] = IF t = {} THEN "init"
                      ELSE AfterMessage(g[t \ {Max(t)}], s[Max(t)])
    <2>1. g[t] = IF t = {} THEN "init" ELSE F[<<g[t \ {Max(t)}], Max(t)>>]
      BY <1>5 DEF Folding
    <2>2. ASSUME t # {}
          PROVE  F[<<g[t \ {Max(t)}], Max(t)>>] = AfterMessage(g[t \ {Max(t)}], s[Max(t)])
      <3>1. <<g[t \ {Max(t)}], Max(t)>> \in StreamStates \X (1 .. n)
        BY <1>6, <2>2
      <3> QED BY <3>1
    <2> QED BY <2>1, <2>2
  <1>8. P(g)
    BY <1>5, <1>7 DEF Foldings
  <1>9. P(iter)
    BY <1>8, Zenon
  <1> DEFINE st == [k \in 0 .. n |-> iter[1 .. k]]
  <1>10. st[0] = "init"
    <2>1. 1 .. 0 = {} /\ {} \in SUBSET (1 .. n)
      OBVIOUS
    <2>2. iter[{}] = "init"
      BY <1>9, <2>1
    <2> HIDE DEF iter
    <2> QED BY <1>1, <2>1, <2>2
  <1>11. ASSUME NEW k \in 1 .. n PROVE st[k] = AfterMessage(st[k - 1], s[k])
    <2>1. /\ Max(1 .. k) = k /\ (1 .. k) \ {k} = 1 .. k - 1
          /\ 1 .. k \in SUBSET (1 .. n) /\ 1 .. k # {}
      BY <1>1, FirstPositions
    <2>2. iter[1 .. k] = AfterMessage(iter[1 .. k - 1], s[k])
      BY <1>9, <2>1
    <2> QED BY <1>1, <2>2
  <1>12. Structure(frames) = st[n]
    BY <1>1, <1>3
  <1> HIDE DEF st
  <1> QED BY <1>0, <1>10, <1>11, <1>12

\* What parses begins with its header.
LEMMA StreamsBegin ==
  ASSUME NEW A, NEW frames \in Seq(A), Parses(frames)
  PROVE  Len(frames) >= 1 /\ frames[1].body.kind = "header"
PROOF
  <1>1. PICK st : /\ st[0] = "init" /\ Structure(frames) = st[Len(frames)]
                  /\ \A k \in 1 .. Len(frames) :
                       st[k] = AfterMessage(st[k - 1], Bodies(frames)[k])
    BY StructureSteps
  <1>2. Len(frames) \in Nat /\ st[Len(frames)] # "init" /\ st[Len(frames)] # "error"
    BY <1>1 DEF Parses
  <1>3. Len(frames) >= 1
    BY <1>1, <1>2
  <1>4. 1 \in 1 .. Len(frames) /\ Bodies(frames)[1] = frames[1].body
    BY <1>2, <1>3 DEF Bodies
  <1> SUFFICES ASSUME frames[1].body.kind # "header"
               PROVE  FALSE
    BY <1>3
  <1>5. st[1] = "error"
    BY <1>1, <1>4 DEF AfterMessage, Allowed
  <1> DEFINE S == {k \in Nat : k + 1 <= Len(frames) => st[k + 1] = "error"}
  <1>6. 0 \in S
    BY <1>5
  <1>7. ASSUME NEW k \in Nat, k \in S PROVE k + 1 \in S
    <2> DEFINE m == k + 1
    <2>1. m \in Nat
      OBVIOUS
    <2>2. ASSUME m + 1 <= Len(frames) PROVE st[m + 1] = "error"
      <3>1. m + 1 \in 1 .. Len(frames) /\ (m + 1) - 1 = m /\ m <= Len(frames)
        BY <1>2, <2>1, <2>2
      <3>2. st[m] = "error"
        BY <1>7, <3>1
      <3>3. st[m + 1] = AfterMessage(st[m], Bodies(frames)[m + 1])
        BY <1>1, <3>1
      <3> HIDE DEF m
      <3> QED BY <3>2, <3>3 DEF AfterMessage, Allowed
    <2> HIDE DEF m
    <2>3. m \in S
      BY <2>1, <2>2
    <2> QED BY <2>3 DEF m
  <1> HIDE DEF S
  <1>8. Len(frames) - 1 \in S
    <2>1. Len(frames) - 1 \in Nat
      BY <1>2, <1>3
    <2> QED BY <1>6, <1>7, <2>1, Induction
  <1>9. st[Len(frames)] = "error"
    <2>1. (Len(frames) - 1) + 1 = Len(frames)
      BY <1>2
    <2> QED BY <1>2, <1>8, <2>1 DEF S
  <1> QED BY <1>2, <1>9

\* While the numbers stay below the half of their range, what is missing makes
\* up for the numbers seen, but for those that came late.
Accounted(a) ==
  /\ IsFiniteSet(a.seen) /\ a.seen # {} /\ a.previous \in a.seen
  /\ a.outOfOrder >= 0
  /\ a.missing + Cardinality(a.seen) >= a.previous + 1
  /\ a.outOfOrder = 0 => a.missing + Cardinality(a.seen) = a.previous + 1

LEMMA OneIsAccounted ==
  ASSUME U32MaxAssumption, NEW a \in SeqStates, Accounted(a),
         NEW n \in 0 .. U32Max, n < NumberHalf, a.previous < NumberHalf,
         NEW r, r = SeqStep(a, n)
  PROVE  Accounted(r)
PROOF
  <1>1. /\ a.previous \in Nat /\ n \in Nat /\ a.missing \in Int /\ a.outOfOrder \in Int
        /\ NumberMod \in Nat \ {0} /\ NumberHalf \in Nat /\ NumberMod >= 2 * NumberHalf
        /\ Cardinality(a.seen) \in Nat
    BY U32MaxAssumption, FS_CardinalityType DEF SeqStates, NumberMod, NumberHalf, Accounted
  <1>2. /\ r.seen = a.seen \cup {n} /\ r.previous \in r.seen
        /\ n \notin a.seen => r.previous = n
        /\ n \in a.seen => r.previous = a.previous /\ r.missing = a.missing
                           /\ r.outOfOrder = a.outOfOrder
        /\ n \notin a.seen /\ (Jump(a, n) < NumberHalf \/ Jump(a, n) = 1)
             => r.missing = a.missing + Jump(a, n) - 1 /\ r.outOfOrder = a.outOfOrder
        /\ n \notin a.seen /\ Jump(a, n) >= NumberHalf /\ Jump(a, n) # 1
             => r.missing = a.missing /\ r.outOfOrder = a.outOfOrder + 1
    BY OneNumber DEF Accounted
  <1>3. IsFiniteSet(r.seen) /\ r.seen # {}
    BY <1>2, FS_AddElement DEF Accounted
  <1>4. CASE n \in a.seen
    <2>1. r.seen = a.seen
      BY <1>2, <1>4
    <2> QED BY <1>2, <1>4, <2>1 DEF Accounted
  <1>5. CASE n \notin a.seen
    <2>1. Cardinality(r.seen) = Cardinality(a.seen) + 1
      <3>1. r.seen = a.seen \cup {n} /\ IsFiniteSet(a.seen)
        BY <1>2 DEF Accounted
      <3>2. Cardinality(a.seen \cup {n}) = Cardinality(a.seen) + 1
        BY <1>5, <3>1, FS_AddElement
      <3> QED BY <3>1, <3>2
    <2>2. n # a.previous
      BY <1>5 DEF Accounted
    <2>3. CASE n > a.previous
      <3>1. n - a.previous \in Nat /\ n - a.previous < NumberHalf
        BY <1>1, <2>3
      <3>2. Jump(a, n) = n - a.previous
        <4>1. n - a.previous < NumberMod
          BY <1>1, <3>1
        <4>2. PICK d \in Nat : d = n - a.previous
          BY <3>1
        <4>3. d < NumberMod /\ d < 2 * NumberMod
          BY <1>1, <4>1, <4>2
        <4>4. d % NumberMod = d
          BY <1>1, <4>2, <4>3, ModOnce
        <4> QED BY <4>2, <4>4 DEF Jump
      <3>3. r.missing = a.missing + (n - a.previous) - 1 /\ r.outOfOrder = a.outOfOrder
        BY <1>2, <1>5, <3>1, <3>2
      <3>4. /\ r.missing + Cardinality(r.seen) >= n + 1
            /\ r.outOfOrder = 0 => r.missing + Cardinality(r.seen) = n + 1
        BY <1>1, <2>1, <3>3 DEF Accounted
      <3> QED BY <1>2, <1>3, <1>5, <3>3, <3>4 DEF Accounted
    <2>4. CASE n < a.previous
      <3>1. Jump(a, n) = n - a.previous + NumberMod
        BY <1>1, <2>4 DEF Jump
      <3>2. Jump(a, n) >= NumberHalf /\ Jump(a, n) # 1
        BY <1>1, <2>4, <3>1
      <3>3. r.missing = a.missing /\ r.outOfOrder = a.outOfOrder + 1
        BY <1>2, <1>5, <3>2
      <3>4. /\ r.missing + Cardinality(r.seen) >= n + 1
            /\ r.outOfOrder > 0
        <4>1. a.missing + Cardinality(a.seen) >= a.previous + 1 /\ a.outOfOrder >= 0
          BY DEF Accounted
        <4>2. r.missing + Cardinality(r.seen) = a.missing + Cardinality(a.seen) + 1
          BY <1>1, <2>1, <3>3
        <4>3. r.outOfOrder > 0
          BY <1>1, <3>3, <4>1
        <4> QED BY <1>1, <2>4, <4>1, <4>2, <4>3
      <3>5. r.previous = n /\ r.previous \in r.seen
        BY <1>2, <1>5
      <3>6. r.outOfOrder >= 0 /\ r.outOfOrder # 0
        BY <1>1, <3>3, <3>4
      <3> QED BY <1>3, <3>4, <3>5, <3>6 DEF Accounted
    <2> QED BY <1>1, <2>2, <2>3, <2>4
  <1> QED BY <1>4, <1>5

LEMMA AllAccounted ==
  ASSUME U32MaxAssumption, NEW s \in Seq(0 .. U32Max), NEW st, Analysing(s, st),
         Len(s) >= 1, s[1] = 0, \A k \in 1 .. Len(s) : s[k] < NumberHalf
  PROVE  Accounted(st[Len(s)])
PROOF
  <1>1. \A k \in 0 .. Len(s) :
          /\ st[k] \in SeqStates
          /\ st[k].seen = {s[i] : i \in 1 .. k}
          /\ st[k].seen = {} \/ st[k].previous \in st[k].seen
    BY AllNumbers
  <1>2. /\ st[0] = NothingSeen
        /\ \A k \in 1 .. Len(s) : st[k] = SeqStep(st[k - 1], s[k])
    BY DEF Analysing
  <1>3. Len(s) \in Nat /\ \A k \in 1 .. Len(s) : s[k] \in 0 .. U32Max
    OBVIOUS
  <1> DEFINE S == {k \in Nat : k + 1 <= Len(s) => Accounted(st[k + 1])}
  <1>4. 0 \in S
    <2>1. PICK r : r = st[1]
      OBVIOUS
    <2>2. NothingSeen \in SeqStates /\ NothingSeen.seen = {} /\ NothingSeen.missing = 0
          /\ NothingSeen.outOfOrder = 0
      BY U32MaxAssumption DEF NothingSeen, SeqStates
    <2>3. r = SeqStep(NothingSeen, 0) /\ 0 \in 0 .. U32Max
      BY <1>2, <1>3, <2>1
    <2>4. /\ r.seen = {} \cup {0} /\ r.previous = 0 /\ r.missing = 0
          /\ r.outOfOrder = 0
      BY <2>2, <2>3, OneNumber
    <2>5. r.seen = {0}
      BY <2>4
    <2>6. IsFiniteSet({0}) /\ Cardinality({0}) = 1
      BY FS_Singleton
    <2>7. Accounted(r)
      BY <2>4, <2>5, <2>6 DEF Accounted
    <2> QED BY <2>1, <2>7
  <1>5. ASSUME NEW k \in Nat, k \in S PROVE k + 1 \in S
    <2> DEFINE m == k + 1
    <2>1. m \in Nat
      OBVIOUS
    <2>2. ASSUME m + 1 <= Len(s) PROVE Accounted(st[m + 1])
      <3>1. /\ m + 1 \in 1 .. Len(s) /\ (m + 1) - 1 = m /\ m <= Len(s)
            /\ m \in 0 .. Len(s)
        BY <1>3, <2>1, <2>2
      <3>2. Accounted(st[m])
        BY <1>5, <3>1
      <3>3. PICK a \in SeqStates : a = st[m]
        BY <1>1, <3>1
      <3>4. PICK n \in 0 .. U32Max : n = s[m + 1]
        BY <1>3, <3>1
      <3>5. PICK r : r = st[m + 1]
        OBVIOUS
      <3>6. r = SeqStep(a, n) /\ n < NumberHalf
        BY <1>2, <3>1, <3>3, <3>4, <3>5
      <3>7. a.previous < NumberHalf
        <4>1. a.previous \in {s[i] : i \in 1 .. m}
          BY <1>1, <3>1, <3>2, <3>3 DEF Accounted
        <4>2. \A i \in 1 .. m : i \in 1 .. Len(s)
          BY <1>3, <2>1, <3>1
        <4> QED BY <4>1, <4>2
      <3> QED BY <3>2, <3>3, <3>5, <3>6, <3>7, OneIsAccounted
    <2> HIDE DEF m
    <2>3. m \in S
      BY <2>1, <2>2
    <2> QED BY <2>3 DEF m
  <1> HIDE DEF S
  <1>6. Len(s) - 1 \in S /\ (Len(s) - 1) + 1 = Len(s)
    <2>1. Len(s) - 1 \in Nat /\ (Len(s) - 1) + 1 = Len(s)
      BY <1>3
    <2>2. Nat \subseteq S
      BY <1>4, <1>5, Induction
    <2> QED BY <2>1, <2>2
  <1> QED BY <1>3, <1>6 DEF S

\* What the transport gap counts, up to the last number of the footer.
LEMMA GapAccounted ==
  ASSUME U32MaxAssumption, NEW frames, NEW s \in Seq(0 .. U32Max), s = Numbers(frames),
         Len(s) >= 1, s[1] = 0,
         NEW last \in Nat, last < NumberHalf, \A k \in 1 .. Len(s) : s[k] <= last,
         Has(frames, "footer"), The(frames, "footer").last = last
  PROVE  /\ TransportGap(frames) >= (last + 1) - UniqueFrames(frames)
         /\ SeqAnalysis(frames).outOfOrder = 0 =>
              TransportGap(frames) = (last + 1) - UniqueFrames(frames)
PROOF
  <1>1. PICK st : Analysing(s, st) /\ SeqAnalysis(frames) = st[Len(s)]
    BY AnalysisSteps
  <1>2. PICK a : a = SeqAnalysis(frames)
    OBVIOUS
  <1>3. NumberHalf \in Nat /\ NumberMod \in Nat \ {0} /\ NumberMod >= 2 * NumberHalf
    BY U32MaxAssumption DEF NumberHalf, NumberMod
  <1>4. \A k \in 1 .. Len(s) : s[k] \in Nat /\ s[k] <= last /\ s[k] < NumberHalf
    BY <1>3
  <1>5. Accounted(a)
    BY <1>1, <1>2, <1>4, AllAccounted
  <1>6. a \in SeqStates /\ a.seen = {s[i] : i \in 1 .. Len(s)}
    <2>1. PICK n \in Nat : n = Len(s)
      OBVIOUS
    <2>2. n \in 0 .. n
      OBVIOUS
    <2>3. \A j \in 0 .. Len(s) : st[j] \in SeqStates /\ st[j].seen = {s[i] : i \in 1 .. j}
      BY <1>1, AllNumbers
    <2>4. st[n] \in SeqStates /\ st[n].seen = {s[i] : i \in 1 .. n}
      BY <2>1, <2>2, <2>3
    <2> QED BY <1>1, <1>2, <2>1, <2>4
  <1>7. UniqueFrames(frames) = Cardinality(a.seen) /\ Cardinality(a.seen) \in Nat
    <2>1. ToSet(s) = a.seen
      BY <1>6 DEF ToSet
    <2> QED BY <1>5, <2>1, FS_CardinalityType DEF UniqueFrames, Accounted
  <1>8. a.previous \in Nat /\ a.previous <= last /\ a.missing \in Int
    <2>1. a.previous \in a.seen
      BY <1>5 DEF Accounted
    <2> QED BY <1>4, <1>6, <2>1 DEF SeqStates
  <1> DEFINE trailing == (last - a.previous) % NumberMod
  <1>9. trailing = last - a.previous
    <2>1. PICK d \in Nat : d = last - a.previous
      BY <1>8
    <2>2. d < NumberMod /\ d < 2 * NumberMod
      BY <1>3, <1>8, <2>1
    <2>3. d % NumberMod = d
      BY <1>3, <2>1, <2>2, ModOnce
    <2> QED BY <2>1, <2>3
  <1>10. TransportGap(frames) =
           a.missing + IF trailing >= NumberHalf THEN 0 ELSE trailing
    BY <1>2 DEF TransportGap
  <1>11. TransportGap(frames) = a.missing + last - a.previous
    <2>1. ~(trailing >= NumberHalf)
      BY <1>3, <1>8, <1>9
    <2> HIDE DEF trailing
    <2> QED BY <1>8, <1>9, <1>10, <2>1
  <1>12. /\ a.missing + Cardinality(a.seen) >= a.previous + 1
         /\ a.outOfOrder = 0 => a.missing + Cardinality(a.seen) = a.previous + 1
    BY <1>5 DEF Accounted
  <1>13. PICK seen \in Nat : seen = Cardinality(a.seen)
    BY <1>7
  <1>14. /\ TransportGap(frames) >= last + 1 - seen
         /\ a.outOfOrder = 0 => TransportGap(frames) = last + 1 - seen
    <2>1. PICK m \in Int : m = a.missing
      BY <1>8
    <2>2. PICK p \in Nat : p = a.previous
      BY <1>8
    <2>3. TransportGap(frames) = m + last - p
      BY <1>11, <2>1, <2>2
    <2>4. m + seen >= p + 1
      BY <1>12, <1>13, <2>1, <2>2
    <2>5. a.outOfOrder = 0 => m + seen = p + 1
      BY <1>12, <1>13, <2>1, <2>2
    <2>6. last \in Nat
      OBVIOUS
    <2> QED BY <2>3, <2>4, <2>5, <2>6
  <1> QED BY <1>2, <1>7, <1>13, <1>14

\* As long as fewer frames were attempted than half the numbers there are, the
\* transport gap counts at least the frames that the capture misses, and no
\* other when none came late (latency-telemetry.md:70-76).
THEOREM TransportGapsAreCounted ==
  SessionSpec =>
    [](framesAccepted + framesRefused < NumberHalf => TransportGapCounts)
PROOF
  <1>1. SessionInvariant /\ framesAccepted + framesRefused < NumberHalf
          => TransportGapCounts
    <2> SUFFICES ASSUME SessionInvariant, framesAccepted + framesRefused < NumberHalf,
                        phase = "done", Parses(captured), Has(captured, "footer")
                 PROVE  /\ TransportGap(captured) >= streamSeq - UniqueFrames(captured)
                        /\ SeqAnalysis(captured).outOfOrder = 0 =>
                             TransportGap(captured) = streamSeq - UniqueFrames(captured)
      BY DEF TransportGapCounts
    <2>1. /\ SessionTypes /\ CaptureInv /\ NumbersInv /\ HeaderInv /\ FooterInv
          /\ framesAccepted \in Nat /\ framesRefused \in Nat /\ streamSeq \in Nat
          /\ U32Max \in Nat \ {0}
      BY U32MaxAssumption DEF SessionInvariant, RingInvariant, TypeOK
    <2>2. /\ captured \in Seq(ToSet(stream)) /\ captured \in Seq(ToSet(captured))
          /\ ToSet(captured) \subseteq ToSet(stream)
      BY <2>1, CapturedFrames
    <2>3. NumberHalf \in Nat /\ NumberHalf <= U32Max
      BY <2>1 DEF NumberHalf, NumberMod
    <2>4. Counted
      BY <2>1, <2>3 DEF Counted
    <2>5. PICK f : f = The(captured, "footer")
      OBVIOUS
    <2>6. PICK j \in DOMAIN stream : stream[j].body = f /\ f.kind = "footer"
      BY <2>1, <2>5, CapturedMessage
    <2>7. /\ f.accepted \in 0 .. framesAccepted /\ f.refused = framesRefused
          /\ f.accepted + f.refused < U32Max =>
               /\ f.last = f.accepted + f.refused
               /\ Len(stream) = f.accepted + 1
               /\ \A k \in DOMAIN stream : stream[k].n <= f.last
      BY <2>1, <2>6 DEF FooterInv
    <2>8. /\ f.last = f.accepted + framesRefused /\ Len(stream) = f.accepted + 1
          /\ \A k \in DOMAIN stream : stream[k].n <= f.last
      BY <2>1, <2>3, <2>7
    <2>9. /\ streamSeq = framesAccepted + framesRefused
          /\ Len(stream) = framesAccepted
      BY <2>1, <2>4 DEF NumbersInv
    <2>10. PICK last \in Nat : last = f.last
      BY <2>1, <2>7, <2>8
    <2>11. last + 1 = streamSeq /\ last < NumberHalf
      <3>1. PICK x \in Nat : x = f.accepted
        BY <2>1, <2>7
      <3>2. last = x + framesRefused /\ x + 1 = framesAccepted
        BY <2>8, <2>9, <2>10, <3>1
      <3> QED BY <2>1, <2>3, <2>9, <3>2
    <2>12. \A k \in 1 .. Len(captured) :
             captured[k].n \in 0 .. U32Max /\ captured[k].n <= last
      <3>1. \A k \in DOMAIN stream : stream[k].n \in 0 .. U32Max /\ stream[k].n <= last
        BY <2>1, <2>8, <2>10 DEF SessionTypes
      <3>2. \A g \in ToSet(stream) : g.n \in 0 .. U32Max /\ g.n <= last
        BY <3>1 DEF ToSet
      <3> QED BY <2>2, <3>2
    <2>13. PICK s : s = Numbers(captured)
      OBVIOUS
    <2>14. /\ s \in Seq(0 .. U32Max) /\ Len(s) = Len(captured)
           /\ \A k \in 1 .. Len(s) : s[k] = captured[k].n
      <3>1. s = [k \in 1 .. Len(captured) |-> captured[k].n]
        BY <2>2, <2>13 DEF Numbers
      <3> QED BY <2>2, <2>12, <3>1
    <2>15. Len(captured) >= 1 /\ captured[1].body.kind = "header"
      BY <2>2, StreamsBegin
    <2>16. captured[1].n = 0
      <3>1. captured[1] \in ToSet(stream)
        BY <2>2, <2>15
      <3> QED BY <2>1, <2>15, <3>1 DEF HeaderInv, ToSet
    <2>17. Len(s) >= 1 /\ s[1] = 0 /\ \A k \in 1 .. Len(s) : s[k] <= last
      BY <2>12, <2>14, <2>15, <2>16
    <2>18. The(captured, "footer").last = last
      BY <2>5, <2>10
    <2>19. /\ TransportGap(captured) >= (last + 1) - UniqueFrames(captured)
           /\ SeqAnalysis(captured).outOfOrder = 0 =>
                TransportGap(captured) = (last + 1) - UniqueFrames(captured)
      <3> HIDE DEF NumberHalf
      <3> QED BY <2>11, <2>13, <2>14, <2>17, <2>18, GapAccounted, U32MaxAssumption
    <2> QED BY <2>11, <2>19
  <1> QED BY <1>1, SessionInvariantHolds, PTL
=============================================================================
