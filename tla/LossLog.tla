------------------------------- MODULE LossLog ------------------------------
(***************************************************************************)
(* What the ring and its drain promise, without the buffers: a log of      *)
(* records in the order the transactions ran.  A transaction is either     *)
(* kept as a sample or counted in the loss that ends the log; the sink is  *)
(* offered the head of the log and nothing else.  A refused loss stays at  *)
(* the head, a refused sample is gone.                                     *)
(***************************************************************************)
EXTENDS TelemetryRecords, FiniteSets

CONSTANTS Capacity, MaxOffered

VARIABLES
  log,       \* records not yet handed to the sink, oldest first
  sent,      \* records the sink accepted, in order
  next,      \* sequence_id of the next transaction
  lastKept   \* last transaction kept, NoSeq when there is none

vars == <<log, sent, next, lastKept>>

Samples == Cardinality({k \in 1 .. Len(log) : log[k].kind = "sample"})

Init ==
  /\ log = <<>>
  /\ sent = <<>>
  /\ next = 0
  /\ lastKept = NoSeq

Keep ==
  /\ next < MaxOffered
  /\ Samples < Capacity
  /\ log' = Append(log, Sample(next))
  /\ lastKept' = next
  /\ next' = next + 1
  /\ UNCHANGED sent

\* Only a full log loses, and consecutive losses are one record.
Lose ==
  /\ next < MaxOffered
  /\ Samples = Capacity
  /\ IF log # <<>> /\ log[Len(log)].kind = "gap"
       THEN log' = [log EXCEPT ![Len(log)].lost = @ + 1]
       ELSE log' = Append(log, Gap(1, lastKept))
  /\ next' = next + 1
  /\ UNCHANGED <<sent, lastKept>>

Accept ==
  /\ log # <<>>
  /\ sent' = Append(sent, Head(log))
  /\ log' = Tail(log)
  /\ UNCHANGED <<next, lastKept>>

RefuseSample ==
  /\ log # <<>>
  /\ Head(log).kind = "sample"
  /\ log' = Tail(log)
  /\ UNCHANGED <<sent, next, lastKept>>

Next == Keep \/ Lose \/ Accept \/ RefuseSample

Spec == Init /\ [][Next]_vars
=============================================================================
