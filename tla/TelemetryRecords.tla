-------------------------- MODULE TelemetryRecords --------------------------
(***************************************************************************)
(* Vocabulary of the telemetry stream, shared by the ring, the session and *)
(* the capture modules: the two records a ring hands to the sink (an       *)
(* executed transaction, a run of transactions lost before serialisation)  *)
(* and the 32-bit arithmetic of their counters.  A transaction is its      *)
(* sequence_id; its ticks and status do not matter to the ring.            *)
(***************************************************************************)
EXTENDS Integers, Sequences

CONSTANT U32Max   \* UINT32_MAX; a small value makes wraps and saturation happen

ASSUME U32MaxAssumption == U32Max \in Nat \ {0}

(* bench_sat_inc_u32: a saturating increment. *)
SatInc(n) == IF n < U32Max THEN n + 1 ELSE n

(* A uint32_t increment: it wraps. *)
WrapInc(n) == (n + 1) % (U32Max + 1)

(* BENCH_RING_NO_SEQ: no sample was accepted before the loss. *)
NoSeq == U32Max

Sample(id) == [kind |-> "sample", seq |-> id]
Gap(lost, after) == [kind |-> "gap", lost |-> lost, after |-> after]

Record == [kind : {"sample"}, seq : Nat] \cup
          [kind : {"gap"}, lost : Nat, after : Nat]

(***************************************************************************)
(* What a reader of the stream learns from a record: the transactions it   *)
(* is about.  A gap "lost n, after k" is read as: the transactions k+1 to  *)
(* k+n were executed and lost.                                             *)
(***************************************************************************)
FollowingId(after) == IF after = NoSeq THEN 0 ELSE after + 1

LostIds(g) == FollowingId(g.after) .. FollowingId(g.after) + g.lost - 1

FirstId(r) == IF r.kind = "sample" THEN r.seq ELSE FollowingId(r.after)

=============================================================================
