------------------------- MODULE TelemetrySessionInv ------------------------
(***************************************************************************)
(* The inductive invariant behind the properties of TelemetrySession: how  *)
(* the frames in the stream correspond to what the ring gave up and to the *)
(* counters that the summary and the footer carry.                         *)
(***************************************************************************)
EXTENDS TelemetrySession, TelemetryRingInv

Phases == {"header", "body", "summary", "histogram", "footer", "capture", "done"}

\* The counters as the summary reports them are final from there on.
Summarised == phase \in {"histogram", "footer", "capture", "done"}
Footed     == phase \in {"capture", "done"}

HistogramBody == [kind |-> "histogram", count |-> histogram.count,
                  saturated |-> histogram.saturated]

SessionTypes ==
  /\ setup \in [engine : BOOLEAN, histogram : BOOLEAN]
  /\ phase \in Phases /\ owed \in BOOLEAN
  /\ okIds \subseteq 0 .. offered - 1
  /\ histogram \in [count : 0 .. U32Max, saturated : BOOLEAN]
  /\ ~EngineDrains => ~owed
  /\ owed => phase = "body"
  /\ Summarised => room = 0
  /\ stream \in Seq(ToSet(stream))
  /\ \A k \in DOMAIN stream : stream[k].n \in 0 .. U32Max

\* The engine's ring never holds more than the sample of the transaction that
\* was just executed.
EngineInv ==
  EngineDrains /\ Capacity > 0 =>
    /\ producerDrop = 0 /\ gapCount = 0
    /\ count <= 1
    /\ owed => room = 0
    /\ room = 0 /\ ~owed => count = 0

\* No drop counted, none happened.
DropFree == producerDrop = 0 => kept = Issued /\ gapCount = 0

Delivered == {wire[k].seq : k \in {j \in DOMAIN wire : wire[j].kind = "sample"}}

\* While the sink takes every frame, a transaction the ring kept is in the ring
\* or was sent.
DeliveryInv ==
  /\ Delivered \subseteq kept
  /\ framesRefused = 0 => kept = RingIds \cup Delivered

\* The caller's last drain is long enough, and the engine owes none, unless the
\* sink refused a frame.
EmptiedInv ==
  framesRefused = 0 /\ phase \notin {"header", "body"}
  /\ (EngineDrains => Capacity > 0) =>
    \/ room > count + gapCount
    \/ room = 0 /\ count = 0 /\ gapCount = 0

\* A ring without a slot keeps nothing; without gap memory, it locates nothing.
NoSlot == Capacity = 0 => kept = {}

NoGapMemory == GapCapacity = 0 => gapCount = 0 /\ SentGaps = {}

HistogramInv ==
  HistogramOn /\ ~histogram.saturated /\ (EngineDrains => Capacity > 0) =>
    histogram.count = Cardinality(kept \cap okIds)

-----------------------------------------------------------------------------
(* The stream. *)

\* Until the 32-bit counters could have saturated, frame numbers are counted
\* without a wrap and increase.
Counted == framesAccepted + framesRefused < U32Max

Increasing(s) == \A j, k \in DOMAIN s : j < k => s[j].n < s[k].n

NumbersInv ==
  Counted =>
    /\ streamSeq = framesAccepted + framesRefused
    /\ Len(stream) = framesAccepted
    /\ \A k \in DOMAIN stream : stream[k].n < streamSeq
    /\ Increasing(stream)

\* What each message says, and what it says it about.
SaysTheTruth(b) ==
  /\ b.kind \in {"sample", "gap"} => b \in ToSet(wire)
  /\ b.kind = "summary" => Summarised /\ b = SummaryBody
  /\ b.kind = "histogram" => phase \in {"footer", "capture", "done"}
                             /\ HistogramOn /\ b = HistogramBody
  /\ b.kind = "footer" => Footed

Said == {stream[k].body : k \in DOMAIN stream}

BodiesInv ==
  /\ \A b \in Said : SaysTheTruth(b)
  /\ ToSet(wire) \subseteq Said

\* The header is the first frame that is attempted.
HeaderInv ==
  /\ phase = "header" => streamSeq = 0 /\ room = 0
  /\ \A k \in DOMAIN stream : stream[k].body.kind = "header" => stream[k].n = 0

\* The footer counts the frames before it.
FooterInv ==
  \A k \in DOMAIN stream : stream[k].body.kind = "footer" =>
    LET f == stream[k].body
    IN  /\ f.last \in 0 .. U32Max /\ f.attempted = WrapInc(f.last)
        /\ f.accepted \in 0 .. framesAccepted /\ f.refused = framesRefused
        /\ f.samples = offered
        /\ f.accepted + f.refused < U32Max =>
             /\ f.last = f.accepted + f.refused
             /\ Len(stream) = f.accepted + 1
             /\ \A j \in DOMAIN stream : stream[j].n <= f.last
             /\ Increasing(stream)

\* A capture is what the sink took, less some frames, with one repeated or two
\* swapped.
CapturedFrom(got) ==
  \/ captured = got
  \/ \E k \in 1 .. Len(got) : captured = Repeated(got, k)
  \/ \E k \in 1 .. Len(got) - 1 : captured = Swapped(got, k)

CaptureInv ==
  phase = "done" => \E lost \in LostFrames : CapturedFrom(Without(lost))

SessionInvariant ==
  /\ RingInvariant
  /\ SessionTypes
  /\ EngineInv
  /\ DropFree
  /\ DeliveryInv
  /\ EmptiedInv
  /\ NoSlot
  /\ NoGapMemory
  /\ HistogramInv
  /\ NumbersInv
  /\ BodiesInv
  /\ HeaderInv
  /\ FooterInv
  /\ CaptureInv
=============================================================================
