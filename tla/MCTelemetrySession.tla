-------------------------- MODULE MCTelemetrySession ------------------------
(***************************************************************************)
(* Instances of TelemetrySession for TLC: the engine's own drains with a   *)
(* histogram, the caller's with and without.  One slot in the ring is      *)
(* enough for a drop, four transactions for two runs of losses around a    *)
(* sample, which the single place for gaps has to merge.                   *)
(***************************************************************************)
EXTENDS TelemetrySessionInv

MCEngine == [engine |-> TRUE, histogram |-> TRUE]
MCCaller == [engine |-> FALSE, histogram |-> FALSE]
MCCallerHistogram == [engine |-> FALSE, histogram |-> TRUE]

MCBoth == {MCEngine, MCCaller}
MCHistograms == {MCEngine, MCCallerHistogram}
=============================================================================
