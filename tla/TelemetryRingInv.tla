-------------------------- MODULE TelemetryRingInv --------------------------
(***************************************************************************)
(* The inductive invariant behind the properties of TelemetryRing, and the *)
(* log that the ring implements.  They speak of the two circular buffers   *)
(* through SampleAt and GapAt only, so the index arithmetic is settled     *)
(* once, by the view lemmas of TelemetryProofs.                            *)
(***************************************************************************)
EXTENDS TelemetryRing

Slots0 == 0 .. count - 1
Gaps0  == 0 .. gapCount - 1

First(i)    == FollowingId(GapAt(i).after)    \* first id gap i is about
Position(i) == GapAt(i).afterPushed           \* where gap i stands

\* The id that follows the last one accepted: a loss starts here.
NextId == FollowingId(lastSeq)

\* The buffered samples are kept transactions in the order they ran.
SamplesInv ==
  /\ pushedTotal = poppedTotal + count
  /\ NextId \in Nat /\ NextId <= offered
  /\ \A id \in kept : id < NextId
  /\ \A s \in Slots0 : SampleAt(s) \in kept
  /\ \A s, t \in Slots0 : s < t => SampleAt(s) < SampleAt(t)

\* The gap records stand at distinct positions, in order, none before the
\* samples already popped: the drain never pops past a due gap.
PositionsInv ==
  /\ \A i \in Gaps0 : Position(i) \in poppedTotal .. pushedTotal
  /\ \A i, j \in Gaps0 : i <= j => Position(j) - Position(i) >= j - i

\* A gap record is about transactions between the samples around it.
GapsInv ==
  /\ \A i \in Gaps0 : First(i) \in Nat /\ First(i) < offered
  /\ \A i \in Gaps0 : Position(i) < pushedTotal => First(i) < NextId
  /\ \A i, j \in Gaps0 : i < j => First(i) < First(j)
  /\ \A i \in Gaps0 : \A s \in Slots0 :
       IF Position(i) <= poppedTotal + s
         THEN First(i) < SampleAt(s)
         ELSE SampleAt(s) < First(i)

\* What was sent comes before what is pending.
WireInv ==
  /\ \A k \in 1 .. Len(wire) :
       /\ FirstId(wire[k]) \in Nat
       /\ FirstId(wire[k]) < offered
       /\ FirstId(wire[k]) < NextId \/ count = 0
       /\ \A s \in Slots0 : FirstId(wire[k]) < SampleAt(s)
       /\ \A i \in Gaps0 : FirstId(wire[k]) < First(i)
  /\ \A k \in 1 .. Len(wire) : \A j \in 1 .. k - 1 :
       FirstId(wire[j]) < FirstId(wire[k])

Lost(i) == LostIds(GapAt(i))    \* the transactions pending gap i is about

SentGaps == {k \in 1 .. Len(wire) : wire[k].kind = "gap"}

\* Until a merge, a gap record covers exactly one run of losses, and the run
\* that the next loss would extend ends at the last transaction offered.
RunsInv ==
  /\ \A i \in Gaps0 : Position(i) = pushedTotal =>
       First(i) + GapAt(i).lost = offered
  /\ NextId = offered \/ SameRun \/ count = 0
  /\ \A i \in Gaps0 : Lost(i) \subseteq (0 .. offered - 1) \ kept
  /\ \A k \in SentGaps : LostIds(wire[k]) \subseteq (0 .. offered - 1) \ kept
  /\ \A id \in (0 .. offered - 1) \ kept :
       \/ \E i \in Gaps0 : id \in Lost(i)
       \/ \E k \in SentGaps : id \in LostIds(wire[k])

Exact == Capacity > 0 /\ GapCapacity > 0 /\ gapMerged = 0

RingInvariant ==
  /\ TypeOK
  /\ SamplesInv
  /\ PositionsInv
  /\ GapsInv
  /\ Capacity > 0 => WireInv
  /\ Exact => RunsInv

\* Each loss is in one record; the sets of losses have a cardinality.
LossInv ==
  /\ LossConserved
  /\ IsFiniteSet(PendingLosses) /\ IsFiniteSet(ReportedLosses)

-----------------------------------------------------------------------------
(* The log the ring stands for: the pending records, in the order of the   *)
(* first transaction each is about.                                        *)

PendingRecords ==
  {Sample(SampleAt(i)) : i \in Slots0}
    \cup {Gap(GapAt(i).lost, GapAt(i).after) : i \in Gaps0}

Chronological(S) ==
  [k \in 1 .. Cardinality(S) |->
     CHOOSE r \in S : Cardinality({q \in S : FirstId(q) < FirstId(r)}) = k - 1]

Timeline == Chronological(PendingRecords)

\* The list s has the records of S, by their first transaction.
Ordered(s, S) ==
  /\ S \subseteq Record /\ s \in Seq(S)
  /\ \A r \in S : \E k \in 1 .. Len(s) : s[k] = r
  /\ \A j, k \in 1 .. Len(s) : j < k => FirstId(s[j]) < FirstId(s[k])

Log == INSTANCE LossLog
         WITH log <- Timeline, sent <- wire, next <- offered,
              lastKept <- lastSeq

\* With room for every gap, the ring and its drain implement the log: each
\* deposit keeps or loses one transaction at the end of it, each frame is its
\* head (ring.h:13-24).
ImplementsLossLog == Log!Spec
=============================================================================
