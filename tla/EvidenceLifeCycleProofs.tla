----------------------- MODULE EvidenceLifeCycleProofs ----------------------
(***************************************************************************)
(* What the life cycle of an archive guarantees, whatever the analyses,    *)
(* the verdicts and the events are.                                        *)
(***************************************************************************)
EXTENDS EvidenceLifeCycle, TLAPS

\* measurement-data-model.md:72-74: a run at M is final; nothing is recorded and
\* no analysis is added.
Final == [][Status # "M"]_vars

\* architecture.md:80-82: what was recorded stays, where it is.
Grows ==
  [][/\ Len(trail) <= Len(trail')
     /\ \A k \in 1 .. Len(trail) : trail'[k] = trail[k]]_vars

\* campaign-workflow.md:38-42: a promotion ends the trail, and the last verdict
\* before it is decisive and about the analysis the archive holds.
Qualified(n) ==
  /\ n = Len(trail) /\ trail[n].to = "M"
  /\ analysis # "none"
  /\ \E k \in 1 .. n - 1 : Decides(trail, k, n - 1, analysis)

PromotionsQualified ==
  \A n \in 1 .. Len(trail) : trail[n].type = "promotion" => Qualified(n)

IInv == trail \in Seq(Events) /\ PromotionsQualified

-----------------------------------------------------------------------------
\* Every step but a stuttering one starts from a status that is not M.
THEOREM MeasuredIsFinal == Spec => Final
PROOF
  <1>1. [Next]_vars => [Status # "M"]_vars
    BY DEF Next, Analyse, Acquire, Decide, Review, Promote, Open
  <1>2. QED
    BY <1>1, PTL DEF Spec, Final

\* The trail is the one before, with the recorded event behind it.
LEMMA RecordExtends ==
  ASSUME trail \in Seq(Events), Record
  PROVE  /\ trail' \in Seq(Events)
         /\ Len(trail') = Len(trail) + 1 /\ Len(trail) \in Nat
         /\ \A k \in 1 .. Len(trail) : trail'[k] = trail[k]
         /\ analysis' = analysis
PROOF
  <1>1. PICK e \in Events : trail' = Append(trail, e)
    BY DEF Record
  <1>2. QED
    BY <1>1 DEF Record

LEMMA InitIInv == Init => IInv
  BY DEF Init, IInv, PromotionsQualified

LEMMA AnalyseKeepsIInv ==
  ASSUME IInv, Analyse PROVE IInv'
PROOF
  <1>1. trail' = trail /\ analysis = "none"
    BY DEF Analyse
  <1>2. \A n \in 1 .. Len(trail) : trail[n].type # "promotion"
    BY <1>1 DEF IInv, PromotionsQualified, Qualified
  <1>3. QED
    BY <1>1, <1>2 DEF IInv, PromotionsQualified

\* A promotion recorded before would have ended the trail at M.
LEMMA OpenTrailUnpromoted ==
  ASSUME IInv, Status # "M"
  PROVE  \A n \in 1 .. Len(trail) : trail[n].type # "promotion"
PROOF
  <1>1. SUFFICES ASSUME NEW n \in 1 .. Len(trail), trail[n].type = "promotion"
                 PROVE  FALSE
    OBVIOUS
  <1>2. n = Len(trail) /\ trail[n].to = "M"
    BY <1>1 DEF IInv, PromotionsQualified, Qualified
  <1>3. trail # <<>>
    BY <1>1 DEF IInv
  <1>4. QED
    BY <1>2, <1>3 DEF Status

LEMMA RecordKeepsIInv ==
  ASSUME IInv, Record, Acquire \/ Decide \/ Review
  PROVE  IInv'
PROOF
  <1>1. /\ trail' \in Seq(Events)
        /\ Len(trail') = Len(trail) + 1 /\ Len(trail) \in Nat
        /\ \A k \in 1 .. Len(trail) : trail'[k] = trail[k]
    BY RecordExtends DEF IInv
  <1>2. \A n \in 1 .. Len(trail) : trail[n].type # "promotion"
    BY OpenTrailUnpromoted DEF Acquire, Decide, Review, Open
  <1>3. Recorded.type # "promotion"
    BY DEF Acquire, Decide, Review
  <1>4. \A n \in 1 .. Len(trail') : trail'[n].type # "promotion"
    BY <1>1, <1>2, <1>3 DEF Recorded
  <1>5. QED
    BY <1>1, <1>4 DEF IInv, PromotionsQualified

LEMMA PromoteKeepsIInv ==
  ASSUME IInv, Record, Promote
  PROVE  IInv'
PROOF
  <1>1. /\ trail' \in Seq(Events)
        /\ Len(trail') = Len(trail) + 1 /\ Len(trail) \in Nat
        /\ \A k \in 1 .. Len(trail) : trail'[k] = trail[k]
        /\ analysis' = analysis
    BY RecordExtends DEF IInv
  <1>2. \A n \in 1 .. Len(trail) : trail[n].type # "promotion"
    BY OpenTrailUnpromoted DEF Promote
  <1>3. PICK k \in 1 .. Len(trail) : Decides(trail, k, Len(trail), analysis)
    BY DEF Promote
  <1>4. Decides(trail', k, Len(trail') - 1, analysis')
    BY <1>1, <1>3 DEF Decides
  <1>5. analysis' # "none" /\ trail'[Len(trail')].to = "M"
    BY <1>1 DEF Promote, Recorded
  <1>6. ASSUME NEW n \in 1 .. Len(trail'), trail'[n].type = "promotion"
        PROVE  Qualified(n)'
    <2>1. n = Len(trail')
      BY <1>1, <1>2, <1>6
    <2>2. QED
      BY <1>1, <1>4, <1>5, <2>1 DEF Qualified
  <1>7. QED
    BY <1>1, <1>6 DEF IInv, PromotionsQualified

LEMMA IInvInductive == IInv /\ [Next]_vars => IInv'
PROOF
  <1>1. CASE IInv /\ Analyse
    BY <1>1, AnalyseKeepsIInv
  <1>2. CASE IInv /\ Record /\ (Acquire \/ Decide \/ Review)
    BY <1>2, RecordKeepsIInv
  <1>3. CASE IInv /\ Record /\ Promote
    BY <1>3, PromoteKeepsIInv
  <1>4. CASE IInv /\ UNCHANGED vars
    BY <1>4 DEF vars, IInv, PromotionsQualified, Qualified, Decides
  <1>5. QED
    BY <1>1, <1>2, <1>3, <1>4 DEF Next

\* A run reaches M by a decisive last verdict on the analysis it holds, and is
\* never left with another.
THEOREM PromotionIsQualified == Spec => []PromotionsQualified
PROOF
  <1>1. IInv => PromotionsQualified
    BY DEF IInv
  <1>2. QED
    BY <1>1, InitIInv, IInvInductive, PTL DEF Spec

\* The history is append-only.
THEOREM TrailGrows == Spec => Grows
PROOF
  <1> DEFINE Kept == /\ Len(trail) <= Len(trail')
                     /\ \A k \in 1 .. Len(trail) : trail'[k] = trail[k]
  <1>1. IInv /\ [Next]_vars => [Kept]_vars
    <2>1. SUFFICES ASSUME IInv, Next PROVE Kept
      OBVIOUS
    <2>2. CASE Analyse
      BY <2>1, <2>2 DEF Analyse, IInv
    <2>3. CASE Record
      BY <2>1, <2>3, RecordExtends DEF IInv
    <2>4. QED
      BY <2>1, <2>2, <2>3 DEF Next
  <1>2. QED
    BY <1>1, InitIInv, IInvInductive, PTL DEF Spec, Grows

=============================================================================
