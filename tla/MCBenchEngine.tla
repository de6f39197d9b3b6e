--------------------------- MODULE MCBenchEngine ----------------------------
(***************************************************************************)
(* Instances of BenchEngine for TLC.  Bounds: three transactions at most,  *)
(* which lets a fault declared "every 2" or "every 3" fall between, after  *)
(* or on the same transaction as another; a clock modulo 8 with a budget   *)
(* of 4 ticks, which wraps inside a transaction, between two, and right at *)
(* the deadline; saturation of the 32-bit counters is out of reach here.   *)
(***************************************************************************)
EXTENDS BenchEngine

MCLatencies == {0, 3, 4}

Base == [count |-> 3, packetSize |-> 1, timeout |-> 4, interDelay |-> 1,
         irqPolicy |-> "on_error", crcEvery |-> 2, crcByte |-> 7,
         timeoutEvery |-> 3, export |-> TRUE]

\* Corrupted frames and declared timeouts, an IRQ only on errors; an IRQ at
\* each transaction, with no declared fault; empty packets; packets longer than
\* a frame; no export.  The octet to corrupt lies inside the payload or beyond.
MCProfiles ==
  { Base,
    [Base EXCEPT !.count = 2, !.irqPolicy = "per_transaction",
                 !.crcEvery = 0, !.timeoutEvery = 0],
    [Base EXCEPT !.count = 2, !.packetSize = 0, !.timeoutEvery = 0],
    [Base EXCEPT !.count = 2, !.packetSize = MaxPayload + 1, !.crcEvery = 1,
                 !.crcByte = 3, !.timeoutEvery = 0],
    [Base EXCEPT !.count = 2, !.irqPolicy = "never", !.timeoutEvery = 2,
                 !.export = FALSE] }

=============================================================================
