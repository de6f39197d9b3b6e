----------------------------- MODULE MCFrameScan -----------------------------
(***************************************************************************)
(* Instances of FrameScan for TLC: a short payload, and a longest one that *)
(* looks like the header of a frame and is read as one when the frame      *)
(* around it is damaged.                                                   *)
(***************************************************************************)
EXTENDS FrameScan

MCPayloads == {<<1>>, <<9, 0, 2, 1, 1, 1, 1>>}

\* That header is not the one of a frame that was sent.
ASSUME MCPayloadAssumption == NoFrameInside
=============================================================================
