-------------------------- MODULE EvidenceLifeCycle -------------------------
(***************************************************************************)
(* What the archive of a run promises, without its files: a trail of       *)
(* events that only grows, a status that moves along it, one analysis, and *)
(* an end at M, which a decisive last verdict on that analysis opens       *)
(* (architecture.md:80-86, campaign-workflow.md:38-42,                     *)
(* measurement-data-model.md:72-74).                                       *)
(***************************************************************************)
EXTENDS Integers, Sequences

CONSTANTS Analyses, Verdicts, Decisive,
          Events     \* what an event may be: records with type, to, verdict, link

VARIABLES
  trail,      \* the events of the run, oldest first
  analysis    \* the analysis of the run

vars == <<trail, analysis>>

Status == IF trail = <<>> THEN "NONE" ELSE trail[Len(trail)].to
Open   == Status \in {"RAW", "REVIEWED", "S"}

\* The verdict at place k is decisive, about analysis a, and the last one
\* before place n.
Decides(t, k, n, a) ==
  /\ t[k].type = "verdict" /\ t[k].verdict \in Decisive /\ t[k].link = a
  /\ \A i \in k + 1 .. n : t[i].type # "verdict"

-----------------------------------------------------------------------------
Init == trail = <<>> /\ analysis = "none"

Recorded == trail'[Len(trail')]

\* One event follows what was recorded, all of it kept.
Record ==
  /\ Len(trail') > Len(trail)
  /\ trail' = Append(trail, Recorded)
  /\ Recorded \in Events
  /\ UNCHANGED analysis

Acquire ==
  /\ Status = "NONE"
  /\ Recorded.type = "acquisition" /\ Recorded.to \in {"RAW", "S"}

Decide ==
  /\ Open
  /\ Recorded.type = "verdict" /\ Recorded.to = Status
  /\ Recorded.verdict \in Verdicts /\ Recorded.link \in Analyses

Review ==
  /\ Status = "RAW"
  /\ Recorded.type = "review" /\ Recorded.to = "REVIEWED"

Promote ==
  /\ Status = "REVIEWED"
  /\ analysis # "none"
  /\ \E k \in 1 .. Len(trail) : Decides(trail, k, Len(trail), analysis)
  /\ Recorded.type = "promotion" /\ Recorded.to = "M"

Analyse ==
  /\ analysis = "none"
  /\ analysis' \in Analyses
  /\ Open
  /\ UNCHANGED trail

Next ==
  \/ Analyse
  \/ Record /\ (Acquire \/ Decide \/ Review \/ Promote)

Spec == Init /\ [][Next]_vars

=============================================================================
