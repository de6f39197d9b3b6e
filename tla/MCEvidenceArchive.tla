-------------------------- MODULE MCEvidenceArchive -------------------------
(***************************************************************************)
(* Instances of EvidenceArchive for TLC.  Bounds: an acquisition, a        *)
(* verdict, a review and a promotion are four events, and the fifth is one *)
(* more than a promotion needs; two analyses tell the one a verdict is     *)
(* tied to from another; two mishaps let the attempt that meets what a     *)
(* crash left fail too, and the recovery of a crash crash too.             *)
(***************************************************************************)
EXTENDS EvidenceArchive

CONSTANTS a, b

\* Nothing tells one analysis from another.  Sound: the properties of these
\* runs are invariants and a refinement without fairness, which speak of
\* states and steps and are symmetric in the analyses.
Symmetry == Permutations(Analyses)

=============================================================================
