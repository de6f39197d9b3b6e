------------------------ MODULE MCLatencyStatistics -------------------------
(***************************************************************************)
(* Instances of LatencyStatistics for TLC: durations on, below and between *)
(* edges; a layout with one class, one with two, three that are refused    *)
(* (no class, edges out of order, too many classes).  A counter saturates  *)
(* at 3 and five samples pass it; a clock modulo 16 wraps several times.   *)
(***************************************************************************)
EXTENDS LatencyStatistics

MCLayouts == {<<2, 5>>, <<1, 2, 7>>, <<3>>, <<5, 5>>, <<1, 2, 3, 4>>}
=============================================================================
