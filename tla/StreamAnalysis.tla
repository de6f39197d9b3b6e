---------------------------- MODULE StreamAnalysis --------------------------
(***************************************************************************)
(* What the capture side makes of the frames it decoded (parse_stream and  *)
(* build_analysis of measurement/analysis/telemetry.py), as operators on   *)
(* the sequence of those frames in order of reception.  A frame is its     *)
(* number and a message; a frame that does not decode is not in the        *)
(* sequence, and the parser looks for the next one.                        *)
(***************************************************************************)
EXTENDS TelemetryRecords, FiniteSets, SequencesExt

NumberMod  == U32Max + 1
NumberHalf == NumberMod \div 2

Frame(n, body) == [n |-> n, body |-> body]

Numbers(frames)    == [k \in DOMAIN frames |-> frames[k].n]
Bodies(frames)     == [k \in DOMAIN frames |-> frames[k].body]
Of(frames, kind)   == {b \in ToSet(Bodies(frames)) : b.kind = kind}
Has(frames, kind)  == Of(frames, kind) # {}

\* The message of a kind that a stream has once: a second one does not parse.
The(frames, kind)  == CHOOSE b \in Of(frames, kind) : TRUE

-----------------------------------------------------------------------------
(* The state machine of the stream.                                        *)

Allowed(state) ==
  CASE state = "init"      -> {"header"}
    [] state = "body"      -> {"sample", "gap", "summary"}
    [] state = "summary"   -> {"histogram", "footer"}
    [] state = "histogram" -> {"footer"}
    [] state = "end"       -> {}
    [] state = "error"     -> {}

StateAfter(kind) ==
  CASE kind \in {"header", "sample", "gap"} -> "body"
    [] kind = "footer"                      -> "end"
    [] OTHER                                -> kind

Structure(frames) ==
  FoldLeft(LAMBDA state, b : IF b.kind \in Allowed(state)
                               THEN StateAfter(b.kind) ELSE "error",
           "init", Bodies(frames))

\* parse_stream returns a stream, and does not raise TelemetryError.
Parses(frames) ==
  /\ Structure(frames) \notin {"init", "error"}
  /\ Has(frames, "histogram") => The(frames, "header").histogram

-----------------------------------------------------------------------------
(* analyse_sequence: frame numbers in order of reception, modulo 2^32.     *)

NothingSeen == [seen |-> {}, previous |-> 0, missing |-> 0,
                duplicate |-> 0, outOfOrder |-> 0]

\* Mutant: the frame after the hole is counted as missing.
SeqStepCountingDelta(a, n) ==
  LET delta == (n - a.previous) % NumberMod
      new   == [a EXCEPT !.seen = @ \cup {n}, !.previous = n]
  IN  IF n \in a.seen THEN [a EXCEPT !.duplicate = @ + 1]
      ELSE IF a.seen = {} \/ delta = 1 THEN new
      ELSE IF delta >= NumberHalf THEN [new EXCEPT !.outOfOrder = @ + 1]
      ELSE [new EXCEPT !.missing = @ + delta]

SeqStep(a, n) ==
  LET delta == (n - a.previous) % NumberMod
      new   == [a EXCEPT !.seen = @ \cup {n}, !.previous = n]
  IN  IF n \in a.seen THEN [a EXCEPT !.duplicate = @ + 1]
      ELSE IF a.seen = {} \/ delta = 1 THEN new
      ELSE IF delta >= NumberHalf THEN [new EXCEPT !.outOfOrder = @ + 1]
      ELSE [new EXCEPT !.missing = @ + delta - 1]

SeqAnalysis(frames) == FoldLeft(SeqStep, NothingSeen, Numbers(frames))

\* The frames missing inside the stream, and at its end when the footer tells
\* how far it went.
TransportGap(frames) ==
  LET a == SeqAnalysis(frames)
      trailing == IF Has(frames, "footer")
                    THEN (The(frames, "footer").last - a.previous) % NumberMod
                    ELSE 0
  IN  a.missing + IF trailing >= NumberHalf THEN 0 ELSE trailing

-----------------------------------------------------------------------------
(* The reconciliation of the footer.                                       *)

UniqueFrames(frames) == Cardinality(ToSet(Numbers(frames)))

\* The number of the last frame, as received.
FooterNumber(frames) ==
  frames[CHOOSE k \in DOMAIN frames : frames[k].body.kind = "footer"].n

FooterConsistent(frames) ==
  /\ Has(frames, "footer")
  /\ LET f == The(frames, "footer")
     IN  /\ frames[1].n = 0
         /\ FooterNumber(frames) = f.last
         /\ f.attempted = f.last + 1     \* 2^32 when last is UINT32_MAX
         /\ f.accepted + f.refused + 1 = f.attempted
         /\ UniqueFrames(frames) + TransportGap(frames) = f.attempted
         /\ Has(frames, "summary") =>
              f.samples = The(frames, "summary").issued

\* Mutant: a stream without its footer is complete when no number is missing.
StreamCompleteByDefault(frames) ==
  /\ Has(frames, "footer") => FooterConsistent(frames)
  /\ TransportGap(frames) = 0

StreamComplete(frames) ==
  FooterConsistent(frames) /\ TransportGap(frames) = 0

-----------------------------------------------------------------------------
(* The summary: reconcile, localisation of the losses.                     *)

Balanced(s) == s.issued = s.ok + s.other + s.drop

GapLocalizationComplete(frames) ==
  /\ Has(frames, "summary")
  /\ LET s == The(frames, "summary")
     IN  s.merged = 0 /\ ~(s.gapCapacity = 0 /\ s.drop > 0)

HistogramUsable(frames) ==
  /\ Has(frames, "histogram") => ~The(frames, "histogram").saturated
  /\ The(frames, "header").histogram => Has(frames, "histogram")

\* Mutant: a stream is complete whatever the producer dropped before it.
SeriesCompleteInTransport(frames) == TransportGap(frames) = 0

\* An absent summary counts as one whose numbers are all 0.
SeriesComplete(frames) ==
  /\ Has(frames, "summary") => The(frames, "summary").drop = 0
  /\ TransportGap(frames) = 0

\* quantiles_verdict_eligible
Eligible(frames) ==
  /\ Has(frames, "summary")
  /\ Balanced(The(frames, "summary"))
  /\ FooterConsistent(frames)
  /\ SeriesComplete(frames)
  /\ StreamComplete(frames)
  /\ GapLocalizationComplete(frames)
  /\ HistogramUsable(frames)

=============================================================================
