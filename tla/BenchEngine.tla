----------------------------- MODULE BenchEngine ----------------------------
(***************************************************************************)
(* The host engine and the slave engine of the bench (portable/engine),    *)
(* on the simulated link that injects faults (portable/sim), with the      *)
(* transaction state machine and the wrap-safe deadlines they use.         *)
(*                                                                         *)
(* The host runs one transaction after the other.  A transaction is two    *)
(* steps: the transfer, inside which the link calls the slave, and the     *)
(* host's conclusion from what the link left behind: the reply, the clock  *)
(* and the IRQ line.  A timeout declared by the profile is one step: it    *)
(* never reaches the link.                                                 *)
(***************************************************************************)
EXTENDS TelemetryRecords, FiniteSets, FiniteSetsExt

CONSTANTS
  TickMod,     \* 2^64, the modulus of bench_ticks_t
  Profiles,    \* the profiles a run may be started with
  Latencies,   \* ticks the link may add to a transfer
  HasDelay     \* FALSE where the clock port has delay = NULL

IrqPolicies  == {"per_transaction", "on_error", "never"}
SpiStatuses  == {"ok", "busy", "timeout", "error"}
TxnStates    == {"active", "done", "timeout"}

\* bench_profile_t.
ProfileType ==
  [count : 0 .. U32Max, packetSize : Nat, timeout : Nat, interDelay : Nat,
   irqPolicy : IrqPolicies, crcEvery : Nat, crcByte : Nat, timeoutEvery : Nat,
   export : BOOLEAN]

ASSUME EngineAssumption ==
  /\ TickMod \in Nat \ {0}
  /\ HasDelay \in BOOLEAN
  /\ Latencies \subseteq Nat
  /\ Profiles \subseteq ProfileType

VARIABLES
  profile,     \* bench_profile_t, fixed for the run
  index,       \* the host's transaction
  inTransfer,  \* the transfer of this transaction was made, not concluded
  txn,         \* bench_txn_t: state and clock reading at its start, with the
               \* true instant it began as a history field
  host, slave, \* bench_counters_t of the two engines
  response,    \* the slave's prepared response
  reply,       \* what the last transfer returned to the host
  time,        \* ticks since power-up; a clock reads it modulo TickMod
  irqLine,     \* the link's IRQ line
  events,      \* the host's event types, in order of their numbers
  samples,     \* what record_sample is given, in order
  accepted     \* history: the sequence numbers the slave accepted

hostVars  == <<profile, index, inTransfer, txn, host, events, samples>>
slaveVars == <<slave, response, accepted>>
vars == <<hostVars, slaveVars, reply, time, irqLine>>

-----------------------------------------------------------------------------
(* scheduler.c and transport.c.                                            *)

\* sim_now; the hardware clocks of the boards read the same way.
Now == time % TickMod

\* bench_host_engine_step cuts a packet to what a frame can carry.
MaxPayload == 256

PacketSize == Min({profile.packetSize, MaxPayload})

Elapsed(start, at) == (at - start) % TickMod

\* Mutant: two instants are compared, not a duration and a budget.
ExpiredByInstant(start, budget, at) == at >= (start + budget) % TickMod

Expired(start, budget, at) == Elapsed(start, at) >= budget

TxnBegin == [state |-> IF PacketSize = 0 THEN "done" ELSE "active",
             start |-> Now, begun |-> time]

\* bench_txn_advance: a terminal state is kept; the deadline comes first; a
\* transaction is done once all its bytes are.
TxnAdvance(t, bytes, at) ==
  IF t.state # "active" THEN t
  ELSE IF Expired(t.start, profile.timeout, at)
         THEN [t EXCEPT !.state = "timeout"]
  ELSE IF bytes >= PacketSize
         THEN [t EXCEPT !.state = "done"]
  ELSE t

\* Mutant: a transaction that timed out has no latency.
TxnLatencyIfDone(t, at) ==
  IF t.state = "done" THEN Elapsed(t.start, at) ELSE 0

TxnLatency(t, at) ==
  IF t.state \in {"done", "timeout"} THEN Elapsed(t.start, at) ELSE 0

-----------------------------------------------------------------------------
(* counters.c.                                                             *)

NoCounts == [txOk |-> 0, txFailed |-> 0, crcErrors |-> 0, timeouts |-> 0,
             irqs |-> 0, resets |-> 0, bytes |-> 0, latencySum |-> 0,
             latencyMax |-> 0, latencySamples |-> 0]

WithTx(c, ok, bytes, latency) ==
  [c EXCEPT !.txOk = IF ok THEN SatInc(@) ELSE @,
            !.txFailed = IF ok THEN @ ELSE SatInc(@),
            !.bytes = @ + bytes,
            !.latencySum = @ + latency,
            !.latencyMax = Max({@, latency}),
            !.latencySamples = SatInc(@)]

WithCrcError(c) == [c EXCEPT !.crcErrors = SatInc(@)]
WithTimeout(c)  == [c EXCEPT !.timeouts = SatInc(@)]
WithIrq(c)      == [c EXCEPT !.irqs = SatInc(@)]

-----------------------------------------------------------------------------
(* profile.c: the faults a profile declares.                               *)

EveryNth(n, i) == n # 0 /\ (i + 1) % n = 0

FaultCrc(i)     == EveryNth(profile.crcEvery, i)
FaultTimeout(i) == EveryNth(profile.timeoutEvery, i)

\* Mutant: the declared octet is taken as it is.
FaultByteUnclamped == profile.crcByte

\* The octet to corrupt, brought back into the payload.
FaultByte ==
  IF profile.crcByte >= PacketSize THEN PacketSize - 1 ELSE profile.crcByte

\* bench_frame_corrupt_payload refuses an octet outside the payload, and the
\* engine ignores its answer; without a payload the CRC itself is corrupted.
FaultLands == PacketSize = 0 \/ FaultByte < PacketSize

-----------------------------------------------------------------------------
(* The slave engine.  A response is the acknowledgement of a frame: its    *)
(* sequence number, 0 when the frame was rejected, and the verdict.        *)

NoResponse == [seq |-> 0, ack |-> "none"]
AckOf(seq, ack) == [seq |-> seq, ack |-> ack]

RaisesIrq(isError) ==
  \/ profile.irqPolicy = "per_transaction"
  \/ profile.irqPolicy = "on_error" /\ isError

\* Mutant: a rejected frame is counted as an error, not as a transaction.
SlaveRejectWithoutTx ==
  /\ slave' = LET c == WithCrcError(slave)
              IN  IF RaisesIrq(TRUE) THEN WithIrq(c) ELSE c
  /\ response' = AckOf(0, "crc_error")
  /\ UNCHANGED accepted

\* Mutant: the response of the transaction before is left in place.
SlaveRejectKeepingResponse ==
  /\ slave' = LET c == WithTx(WithCrcError(slave), FALSE, 0, 0)
              IN  IF RaisesIrq(TRUE) THEN WithIrq(c) ELSE c
  /\ UNCHANGED <<response, accepted>>

SlaveAccept(seq) ==
  /\ slave' = LET c == WithTx(slave, TRUE, PacketSize, 0)
              IN  IF RaisesIrq(FALSE) THEN WithIrq(c) ELSE c
  /\ response' = AckOf(seq, "ok")
  /\ accepted' = accepted \cup {seq}

SlaveReject ==
  /\ slave' = LET c == WithTx(WithCrcError(slave), FALSE, 0, 0)
              IN  IF RaisesIrq(TRUE) THEN WithIrq(c) ELSE c
  /\ response' = AckOf(0, "crc_error")
  /\ UNCHANGED accepted

\* slave_on_transaction: the frame decodes, or it is rejected.
SlaveOnTransaction(intact, seq) ==
  \/ intact /\ SlaveAccept(seq)
  \/ ~intact /\ SlaveReject

-----------------------------------------------------------------------------
(* The simulated link: what it may do to one transfer.                     *)

\* A perfect bus, when no behaviour is set or when it changes nothing.
StepDefault == [latency |-> 0, whole |-> TRUE, lost |-> FALSE,
                preassert |-> FALSE, status |-> "ok"]

LinkSteps == {StepDefault} \cup
  [latency : Latencies,        \* added before the host reads the clock
   whole : BOOLEAN,            \* FALSE: CS released before the frame's end
   lost : BOOLEAN,             \* the response is dropped or truncated
   preassert : BOOLEAN,        \* another source raised the IRQ line first
   status : SpiStatuses]

\* The full-duplex exchange is as long as the host's frame, one byte too short
\* for an acknowledgement when the packet is empty.
AckFits == PacketSize >= 1

LinkInit == irqLine = FALSE /\ time = 0

\* sim_irq_raise, by whoever raises it.
SimIrqRaise(raised) == irqLine' = (irqLine \/ raised)

\* sim_delay: waiting is letting the simulated clock advance.
SimDelay(t, ticks) == t + ticks

SimTransfer(step, sent) ==
  /\ SlaveOnTransaction(sent.intact /\ step.whole, sent.seq)
  /\ SimIrqRaise(step.preassert \/ RaisesIrq(~(sent.intact /\ step.whole)))
  /\ time' = time + step.latency
  /\ reply' = [status |-> step.status,
               frame |-> IF step.lost \/ ~AckFits THEN NoResponse
                                                  ELSE response']

-----------------------------------------------------------------------------
(* The host engine.                                                        *)

Delayed(t, ticks) == IF HasDelay THEN SimDelay(t, ticks) ELSE t

\* bench_sample_t with, as history fields, the ticks the transaction really
\* took and what the link reported ("none": the link was not used).
SampleOf(t, at, took, link, status, flags) ==
  [id |-> index, start |-> t.start, end |-> at, took |-> took, link |-> link,
   status |-> status, flags |-> flags]

RecordSample(s) ==
  samples' = IF profile.export THEN Append(samples, s) ELSE samples

\* bench_scenario_transaction_budget
TransactionBudget == profile.count

BeginOnceMore == ~inTransfer /\ index <= TransactionBudget    \* mutant

Begin ==
  /\ ~inTransfer
  /\ index < TransactionBudget

\* A timeout declared by the profile: the host waits for the budget to run out
\* and never touches the link.
DeclaredTimeout ==
  /\ Begin
  /\ FaultTimeout(index)
  /\ LET end == Delayed(time, profile.timeout)
         at  == end % TickMod
         t   == TxnAdvance(TxnBegin, 0, at)
     IN  /\ txn' = t
         /\ host' = WithTx(WithTimeout(host), FALSE, 0, TxnLatency(t, at))
         /\ events' = events \o <<"tx_begin", "timeout", "tx_end">>
         /\ RecordSample(SampleOf(t, at, end - time, "none", "timeout",
                                  {"fault_timeout"}))
         /\ time' = Delayed(end, profile.interDelay)
  /\ index' = index + 1
  /\ UNCHANGED <<profile, inTransfer, slaveVars, reply, irqLine>>

\* The encoded frame, really corrupted when the profile says so.
FrameSent == [seq |-> index, intact |-> ~(FaultCrc(index) /\ FaultLands)]

\* The host's side, up to the call of the port's transfer.
BeginTransfer ==
  /\ Begin
  /\ ~FaultTimeout(index)
  /\ txn' = TxnBegin
  /\ events' = Append(events, "tx_begin")
  /\ inTransfer' = TRUE
  /\ UNCHANGED <<profile, index, host, samples>>

Transfer == BeginTransfer /\ \E step \in LinkSteps : SimTransfer(step, FrameSent)

\* Mutant: the IRQ line is looked at only when the link reports success.
ReadIrqIfOk(c) == IF irqLine /\ reply.status = "ok" THEN WithIrq(c) ELSE c

\* The host reads the IRQ line, which clears it, whatever the transfer's fate.
ReadIrq(c) == IF irqLine THEN WithIrq(c) ELSE c

\* The line is an edge: reading it lowers it.
SimIrqGet == irqLine' = FALSE

IrqEvents == IF irqLine THEN <<"irq">> ELSE <<>>

Acknowledged(r) == r.frame.ack = "ok"

Late == TxnAdvance(txn, PacketSize, Now).state = "timeout"

LinkOutcome ==
  CASE reply.status = "timeout" -> "timeout"
    [] reply.status \in {"busy", "error"} -> "failed"
    [] OTHER -> IF Acknowledged(reply) THEN "ok" ELSE "rejected"

\* What the transfer amounts to: the deadline is looked at before the link.
Outcome == IF Late THEN "timeout" ELSE LinkOutcome

\* Mutant: a timeout the link reports is not counted as one.
CountOutcomeIfLate(c, latency) ==
  CASE Late -> WithTx(WithTimeout(c), FALSE, 0, latency)
    [] ~Late /\ Outcome \in {"timeout", "failed"} -> WithTx(c, FALSE, 0, latency)
    [] Outcome = "ok" -> WithTx(c, TRUE, PacketSize, latency)
    [] OTHER -> WithTx(WithCrcError(c), FALSE, PacketSize, latency)

CountOutcome(c, latency) ==
  CASE Outcome = "timeout" -> WithTx(WithTimeout(c), FALSE, 0, latency)
    [] Outcome = "failed" -> WithTx(c, FALSE, 0, latency)
    [] Outcome = "ok" -> WithTx(c, TRUE, PacketSize, latency)
    [] OTHER -> WithTx(WithCrcError(c), FALSE, PacketSize, latency)

\* The profile's CRC fault is flagged where a reply was decoded.
SampleFlags ==
  IF Outcome \in {"ok", "rejected"} /\ FaultCrc(index) THEN {"fault_crc"}
                                                        ELSE {}

\* The host's side, once the transfer returned.
ConcludeTransfer ==
  /\ inTransfer
  /\ LET t   == TxnAdvance(txn, PacketSize, Now)
         lat == TxnLatency(t, Now)
     IN  /\ txn' = t
         /\ host' = CountOutcome(ReadIrq(host), lat)
  /\ events' = events \o IrqEvents
                 \o (IF Late THEN <<"timeout">> ELSE <<>>) \o <<"tx_end">>
  /\ RecordSample(SampleOf(txn, Now, time - txn.begun, reply.status,
                    IF Outcome = "failed" THEN "rejected" ELSE Outcome,
                    SampleFlags))
  /\ time' = Delayed(time, profile.interDelay)
  /\ inTransfer' = FALSE
  /\ index' = index + 1
  /\ UNCHANGED <<profile, reply>>

Conclude == ConcludeTransfer /\ SimIrqGet /\ UNCHANGED slaveVars

-----------------------------------------------------------------------------
Init ==
  /\ profile \in Profiles
  /\ index = 0 /\ inTransfer = FALSE
  /\ LinkInit
  /\ txn = [state |-> "done", start |-> 0, begun |-> 0]
  /\ host = NoCounts /\ slave = NoCounts
  /\ response = NoResponse
  /\ reply = [status |-> "ok", frame |-> NoResponse]
  /\ events = <<>> /\ samples = <<>> /\ accepted = {}

Next == DeclaredTimeout \/ Transfer \/ Conclude

Spec == Init /\ [][Next]_vars

-----------------------------------------------------------------------------
(* What the two engines promise together.                                  *)

Counts == [txOk : Nat, txFailed : Nat, crcErrors : Nat, timeouts : Nat,
           irqs : Nat, resets : {0}, bytes : Nat, latencySum : Nat,
           latencyMax : Nat, latencySamples : Nat]

Responses == [seq : Nat, ack : {"none", "ok", "crc_error"}]

SampleStatuses == {"ok", "timeout", "rejected"}
SampleFaults   == {"fault_crc", "fault_timeout"}
EventTypes     == {"tx_begin", "tx_end", "irq", "timeout"}

TxnType == [state : TxnStates, start : 0 .. TickMod - 1, begun : Nat]

SampleType == [id : Nat, start : 0 .. TickMod - 1, end : 0 .. TickMod - 1,
               took : Nat, link : SpiStatuses \cup {"none"},
               status : SampleStatuses, flags : SUBSET SampleFaults]

\* The variables have the types the engines, the link and the run declare.
TypeOK ==
  /\ profile \in Profiles
  /\ index \in 0 .. profile.count
  /\ inTransfer \in BOOLEAN
  /\ txn \in TxnType
  /\ host \in Counts /\ slave \in Counts
  /\ response \in Responses
  /\ reply \in [status : SpiStatuses, frame : Responses]
  /\ time \in Nat
  /\ irqLine \in BOOLEAN
  /\ events \in Seq(EventTypes)
  /\ samples \in Seq(SampleType)
  /\ accepted \subseteq Nat

SamplesWith(status) == {i \in 1 .. Len(samples) : samples[i].status = status}
LinkSaid(status)    == {i \in 1 .. Len(samples) : samples[i].link = status}

\* Every transaction the run issued has exactly one sample, in order, with one
\* terminal status, and the host's counters are the counts of those statuses:
\* the two ways a capture is summed up (samples, counters) never disagree.
SeriesMatchesCounters ==
  profile.export =>
    /\ Len(samples) = index
    /\ \A i \in 1 .. Len(samples) : samples[i].id = i - 1
    /\ host.txOk = Cardinality(SamplesWith("ok"))
    /\ host.timeouts = Cardinality(SamplesWith("timeout"))
    /\ host.txFailed = Cardinality(SamplesWith("timeout"))
                        + Cardinality(SamplesWith("rejected"))
    /\ host.crcErrors = Cardinality(SamplesWith("rejected")
                                     \cap LinkSaid("ok"))

\* The host believes a transaction only if the slave accepted that very frame:
\* no corruption, early CS release, lost response or answer left over from
\* another transaction is ever recorded as a success.
OkMeansAccepted ==
  \A i \in SamplesWith("ok") : samples[i].id \in accepted

Rejections == (slave.txOk + slave.txFailed) - Cardinality(accepted)

\* A fault the profile declares really happens: a transaction whose sample is
\* flagged as carrying an injected corruption, wherever the profile put it, is
\* never a success.
DeclaredFaultsHappen ==
  \A i \in 1 .. Len(samples) :
    "fault_crc" \in samples[i].flags => samples[i].status # "ok"

\* The two ends agree on what crossed the link: the slave counted every
\* transfer once, as accepted or as a CRC error, and every frame it rejected is
\* in one of the host's failures.
EnginesAgree ==
  /\ slave.txOk = Cardinality(accepted)
  /\ slave.bytes = PacketSize * Cardinality(accepted)
  /\ slave.crcErrors = Rejections
  /\ slave.txOk + slave.txFailed
       = (IF inTransfer THEN 1 ELSE 0)
         + Cardinality({i \in 0 .. index - 1 : ~FaultTimeout(i)})
  /\ ~inTransfer => slave.crcErrors <= host.txFailed

\* An interrupt is neither lost nor carried over to another transaction: once
\* a transaction is concluded the line is low and the host has counted each
\* interrupt the slave raised.
IrqConserved ==
  ~inTransfer => ~irqLine /\ slave.irqs <= host.irqs

\* With a delay, a sample says timeout exactly when the budget really ran out
\* or the link said so, across the wrap of the clock.  (An empty transaction is
\* done at once and is never late.)
TimeoutsAreReal ==
  PacketSize > 0 =>
    \A i \in 1 .. Len(samples) :
      samples[i].status = "timeout"
        <=> samples[i].took >= profile.timeout \/ samples[i].link = "timeout"

\* The two clock readings of a sample give the ticks that passed between them.
ReadingsAreReal ==
  \A i \in 1 .. Len(samples) :
    Elapsed(samples[i].start, samples[i].end) = samples[i].took

\* The ticks that passed in the transactions of the series.
TicksOfSeries ==
  UNION {{i} \X (1 .. samples[i].took) : i \in 1 .. Len(samples)}

\* The durations that samples and counters carry are the real ones: the two
\* clock readings of every sample, and the host's sum of latencies, give the
\* ticks that passed although the clock wrapped.
LatenciesAreReal ==
  /\ ReadingsAreReal
  /\ profile.export => host.latencySum = Cardinality(TicksOfSeries)

=============================================================================
