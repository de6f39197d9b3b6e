----------------------------- MODULE BenchBoards ----------------------------
(***************************************************************************)
(* The two engines on their boards: the main of the ESP32-S3 (host), the   *)
(* service loop of the RP2040 (slave), and the HAL between them and the    *)
(* wires.                                                                  *)
(*                                                                         *)
(* Each HAL of the repository is a skeleton whose bodies do nothing.  A    *)
(* board in "wired" has the HAL that hal.h and the TODOs of the skeleton   *)
(* describe instead: that part of the model is external.  The boards run   *)
(* concurrently: the host transfers whether or not the slave is back in    *)
(* recv, and a full-duplex exchange returns what was loaded before it.     *)
(***************************************************************************)
EXTENDS BenchEngine, ControlProtocol, Scenarios

CONSTANTS
  Wirings,       \* which boards have their HAL wired, of SUBSET Boards
  MaxServices    \* bound: transactions the slave's loop serves

Boards == {"host", "slave"}

\* The function pointers of the two HALs that may be NULL.
bench_hal_esp32  == [delay |-> FALSE, serialWrite |-> TRUE, eventSink |-> FALSE]
bench_hal_rp2040 == [delay |-> FALSE, serialWrite |-> TRUE, eventSink |-> FALSE]

ASSUME BoardsAssumption ==
  /\ Wirings \subseteq SUBSET Boards
  /\ MaxServices \in Nat
  /\ HasDelay = bench_hal_esp32.delay
  /\ U32Max = U32Mod - 1

VARIABLES
  wired,        \* the boards whose HAL is wired
  slavePc,      \* where the slave's loop is
  slaveStatus,  \* bench_slave_txn_status_t
  rx,           \* the frame the slave's loop received
  mosi,         \* the frame waiting in the slave's receiver, if any
  miso,         \* the response loaded for the next exchange
  serial,       \* the texts the host handed to serial_write
  believed      \* history: the transactions the host concluded as ok

boardVars == <<wired, slavePc, slaveStatus, rx, mosi, miso, serial, believed>>
loopVars  == <<slavePc, slaveStatus, rx>>

\* No octet at all: what a skeleton's recv returns.
NoFrame == [seq |-> 0, intact |-> FALSE]

-----------------------------------------------------------------------------
(* The host: main, and the HAL of the ESP32-S3.                            *)

\* esp32_transfer of the skeleton: the failure is explicit, rx stays zeroed.
SkeletonTransfer ==
  /\ "host" \notin wired
  /\ reply' = [status |-> "error", frame |-> NoResponse]
  /\ UNCHANGED <<mosi, miso, time>>

\* A wired exchange takes what the slave loaded before it.  The slave gets the
\* frame if it waits for one; the line may damage either direction.
WiredTransfer ==
  /\ "host" \in wired
  /\ \E damaged, lost \in BOOLEAN, ticks \in Latencies :
       /\ mosi' = IF "slave" \in wired /\ slavePc = "recv" /\ mosi = {}
                    THEN {[FrameSent EXCEPT !.intact = @ /\ ~damaged]}
                    ELSE mosi
       /\ reply' = [status |-> "ok",
                    frame |-> IF lost THEN NoResponse ELSE miso]
       /\ miso' = NoResponse
       /\ time' = time + ticks

HostTransfer ==
  /\ BeginTransfer
  /\ SkeletonTransfer \/ WiredTransfer
  /\ UNCHANGED <<slaveVars, irqLine, wired, loopVars, serial, believed>>

\* The IRQ line is a level: reading it does not lower it.
HostConclude ==
  /\ ConcludeTransfer
  /\ believed' = IF Outcome = "ok" THEN believed \cup {index} ELSE believed
  /\ UNCHANGED <<slaveVars, irqLine, wired, loopVars, mosi, miso, serial>>

\* A timeout declared by the profile: nothing is exchanged.
HostTimeout ==
  /\ DeclaredTimeout
  /\ UNCHANGED <<wired, loopVars, mosi, miso, serial, believed>>

\* The end of main: the raw counters are encoded into a local buffer, and of
\* that only the length is used.  What leaves is a text: to transmit the octets
\* is still to be done (main.c:34).
HostReport ==
  /\ ~inTransfer /\ index = TransactionBudget
  /\ bench_hal_esp32.serialWrite /\ serial = <<>>
  /\ Len(EncodeCounters(host)) > 0
  /\ serial' = <<"counters ready">>
  /\ UNCHANGED <<vars, wired, loopVars, mosi, miso, believed>>

-----------------------------------------------------------------------------
(* The slave: the service loop, and the HAL of the RP2040.                 *)

\* Mutant: what was received stays in the receiver.
RecvAgain ==
  /\ mosi # {}
  /\ rx' = CHOOSE f \in mosi : TRUE
  /\ UNCHANGED mosi

\* A wired recv waits for a transaction.
WiredRecv ==
  /\ mosi # {}
  /\ rx' = CHOOSE f \in mosi : TRUE
  /\ mosi' = {}

\* rp2040_recv of the skeleton returns at once, with nothing.
SkeletonRecv == rx' = NoFrame /\ UNCHANGED mosi

SlaveRecv ==
  /\ slavePc = "recv"
  /\ slave.txOk + slave.txFailed < MaxServices
  /\ IF "slave" \in wired THEN WiredRecv ELSE SkeletonRecv
  /\ slavePc' = "select"
  /\ UNCHANGED <<vars, wired, slaveStatus, miso, serial, believed>>

SlaveOnSelect ==
  /\ slavePc = "select"
  /\ slaveStatus' = "selected"
  /\ slavePc' = "transaction"
  /\ UNCHANGED <<vars, wired, rx, mosi, miso, serial, believed>>

\* rp2040_irq_raise: the line reaches the host when both ends are wired.
\* Nobody calls rp2040_irq_clear.
RaiseLine(raised) == SimIrqRaise(raised /\ wired = Boards)

\* on_transaction, which ends in status COMPLETE whatever the verdict.
SlaveServe ==
  /\ slavePc = "transaction"
  /\ SlaveOnTransaction(rx.intact, rx.seq)
  /\ RaiseLine(RaisesIrq(~rx.intact))
  /\ slaveStatus' = "complete"
  /\ slavePc' = "send"
  /\ UNCHANGED <<hostVars, reply, time, wired, rx, mosi, miso, serial,
                 believed>>

\* peek_response, then send; the skeleton's send loads nothing.
SlaveSend ==
  /\ slavePc = "send"
  /\ miso' = IF "slave" \in wired THEN response ELSE miso
  /\ slavePc' = "recv"
  /\ UNCHANGED <<vars, wired, slaveStatus, rx, mosi, serial, believed>>

-----------------------------------------------------------------------------
HostReady == serial = <<>> /\ believed = {}

SlaveReady ==
  /\ slavePc = "recv" /\ slaveStatus = "idle"
  /\ rx = NoFrame /\ mosi = {} /\ miso = NoResponse

BoardsInit == Init /\ wired \in Wirings /\ HostReady /\ SlaveReady

HostSteps  == HostTransfer \/ HostConclude \/ HostTimeout \/ HostReport
SlaveSteps == SlaveRecv \/ SlaveOnSelect \/ SlaveServe \/ SlaveSend

BoardsNext == HostSteps \/ SlaveSteps

BoardsSpec == BoardsInit /\ [][BoardsNext]_<<vars, boardVars>>

\* Each board has one processor that runs nothing else.
BoardsFairSpec ==
  BoardsSpec /\ WF_<<vars, boardVars>>(HostSteps)
             /\ WF_<<vars, boardVars>>(SlaveSteps)

-----------------------------------------------------------------------------
(* Properties.                                                             *)

\* engine.c:276 asks of an answer that it is an acknowledgement, not whose.  On
\* boards, where the answer to an exchange is loaded after it (main.c:41), the
\* success recorded for a transaction is the acknowledgement of an earlier one:
\* each success up to a transaction has a frame of its own that the slave
\* accepted strictly before it.  So the totals never flatter the link, but no
\* verdict belongs to its transaction.
VerdictsAreLate ==
  \A i \in believed :
    Cardinality({j \in believed : j <= i})
      <= Cardinality({j \in accepted : j < i})

\* Although the boards run at their own pace and the slave may miss exchanges,
\* it serves none that the host did not make, and the successes of the host's
\* counters are at most the frames it accepted.
BoardsAgree ==
  /\ "slave" \in wired => slave.txOk + slave.txFailed + Cardinality(mosi)
                            <= index + (IF inTransfer THEN 1 ELSE 0)
  /\ host.txOk = Cardinality(believed)
  /\ host.txOk <= slave.txOk

\* protocol.c:76-112: each counter has a width of its own on the wire, and the
\* engine's are bounded by saturation, by the length of a frame or by nothing but
\* the length of the run.  Whatever an engine has counted so far, the octets the
\* encoder makes of it are read back by the decoder as those counters.  It is a
\* property of the two functions: no code sends these octets (HostReport).
CountersReadBack ==
  DecodeCounters(EncodeCounters(host)) = [status |-> "ok", counters |-> host]

\* irq.h:9-10: the module asserts the line "puis on RELACHE la ligne vers
\* l'hote".
LineReleased == irqLine ~> ~irqLine

=============================================================================
