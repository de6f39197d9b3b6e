---------------------------- MODULE MCBenchBoards ---------------------------
(***************************************************************************)
(* Instances of BenchBoards for TLC: the declared profiles with at most    *)
(* three transactions, of which none declares timeouts, and one that does; *)
(* exchanges that take no time or the longest declared budget, a clock     *)
(* that wraps after two of them, octets modulo 8 and identifiers of two    *)
(* octets.                                                                 *)
(***************************************************************************)
EXTENDS BenchBoards

MCLatencies == {0, 2000}
AllWirings  == SUBSET Boards
BothWired   == {Boards}
MCProfiles  == DeclaredProfiles \cup {[DemoProfile EXCEPT !.timeoutEvery = 2]}

\* What CommandsAreExact proves (BenchBoardsProofs), on the octets of these
\* instances.
ASSUME MessagesAssumption == CommandsExact

=============================================================================
