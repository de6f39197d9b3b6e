---------------------------- MODULE MCDrainBudget ---------------------------
(* The ring and its drain, with what each call of the drain was asked for  *)
(* and how many messages it has taken out of the ring so far.              *)
EXTENDS TelemetryRing

VARIABLES asked, taken

Messages == count + gapCount     \* messages waiting in the ring

BudgetInit == Init /\ asked = 0 /\ taken = 0

BudgetNext ==
  \/ \E max \in Budgets : StartDrain(max) /\ asked' = max /\ taken' = 0
  \/ DrainStep /\ taken' = taken + (Messages - Messages') /\ UNCHANGED asked
  \/ (Push \/ Drop) /\ UNCHANGED <<asked, taken>>

BudgetSpec == BudgetInit /\ [][BudgetNext]_<<vars, asked, taken>>

\* telemetry.h:125, "Draine au plus max_messages messages du ring vers le
\* puits": a call takes at most max_messages messages out of the ring.
DrainTakesAtMost == taken <= asked
=============================================================================
