-------------------------- MODULE BenchEngineProofs -------------------------
(***************************************************************************)
(* Proofs about BenchEngine: for every profile, every clock width and      *)
(* every behaviour of the simulated link.                                  *)
(*                                                                         *)
(* A transaction is concluded from what the link left behind, one step     *)
(* after the slave answered.  The inductive invariant says what that       *)
(* leaves the host with: a reply that acknowledges the transaction only if *)
(* the slave accepted it, never one the profile corrupted, and one IRQ at  *)
(* most that the slave counted and the host did not.                       *)
(*                                                                         *)
(* The second half is about the counters: the host's are the counts of the *)
(* series it exports, the slave's are those of the transfers made.  Both   *)
(* rest on an invariant that bounds every counter by the number of         *)
(* transactions issued.  A profile declares that number on 32 bits, so no  *)
(* counter saturates before the last transaction.                          *)
(***************************************************************************)
EXTENDS BenchEngine, SharedLemmas, FiniteSetTheorems, TLAPS

-----------------------------------------------------------------------------
(* The operators of the model.                                             *)

LEMMA MinOfTwo ==
  ASSUME NEW a \in Nat, NEW b \in Nat
  PROVE  Min({a, b}) \in {a, b} /\ Min({a, b}) <= a /\ Min({a, b}) <= b
PROOF
  <1>1. \E x \in {a, b} : \A y \in {a, b} : x <= y
    OBVIOUS
  <1> QED BY <1>1 DEF Min

LEMMA MaxOfTwo ==
  ASSUME NEW a \in Nat, NEW b \in Nat
  PROVE  Max({a, b}) \in Nat
PROOF
  <1>1. \E x \in {a, b} : \A y \in {a, b} : x >= y
    OBVIOUS
  <1> QED BY <1>1 DEF Max

\* engine.c:181-184: what a frame carries.
LEMMA PacketSizeType ==
  ASSUME profile \in ProfileType
  PROVE  PacketSize \in Nat
  BY MinOfTwo DEF ProfileType, PacketSize, MaxPayload

\* engine.c:217-222: the clamp leaves the declared octet inside the payload, so
\* the corruption is never refused.
LEMMA FaultAlwaysLands ==
  ASSUME profile \in ProfileType
  PROVE  FaultLands
  BY PacketSizeType DEF ProfileType, FaultByte, FaultLands

LEMMA SatIncType ==
  ASSUME NEW n \in Nat
  PROVE  SatInc(n) \in Nat /\ n <= SatInc(n)
  BY U32MaxAssumption DEF SatInc

LEMMA WithTxType ==
  ASSUME NEW c \in Counts, NEW ok \in BOOLEAN, NEW bytes \in Nat,
         NEW latency \in Nat
  PROVE  /\ WithTx(c, ok, bytes, latency) \in Counts
         /\ WithTx(c, ok, bytes, latency).irqs = c.irqs
PROOF
  <1> DEFINE longest == Max({c.latencyMax, latency})
             more    == SatInc(c.latencySamples)
             oks     == IF ok THEN SatInc(c.txOk) ELSE c.txOk
             fails   == IF ok THEN c.txFailed ELSE SatInc(c.txFailed)
  <1>1. longest \in Nat /\ more \in Nat
    BY SatIncType, MaxOfTwo DEF Counts
  <1>2. oks \in Nat /\ fails \in Nat
    BY SatIncType DEF Counts
  <1>3. c.bytes + bytes \in Nat /\ c.latencySum + latency \in Nat
    BY DEF Counts
  <1>4. WithTx(c, ok, bytes, latency) =
          [c EXCEPT !.txOk = oks, !.txFailed = fails,
                    !.bytes = c.bytes + bytes,
                    !.latencySum = c.latencySum + latency,
                    !.latencyMax = longest, !.latencySamples = more]
    BY DEF WithTx
  <1> HIDE DEF longest, more, oks, fails
  <1> QED BY <1>1, <1>2, <1>3, <1>4 DEF Counts

\* The same, for a failed and for a successful transaction.
LEMMA EitherTxType ==
  ASSUME NEW c \in Counts, NEW bytes \in Nat, NEW latency \in Nat
  PROVE  /\ WithTx(c, FALSE, bytes, latency) \in Counts
         /\ WithTx(c, FALSE, bytes, latency).irqs = c.irqs
         /\ WithTx(c, TRUE, bytes, latency) \in Counts
         /\ WithTx(c, TRUE, bytes, latency).irqs = c.irqs
  BY WithTxType

LEMMA WithEventType ==
  ASSUME NEW c \in Counts
  PROVE  /\ WithCrcError(c) \in Counts /\ WithCrcError(c).irqs = c.irqs
         /\ WithTimeout(c) \in Counts /\ WithTimeout(c).irqs = c.irqs
         /\ WithIrq(c) \in Counts /\ WithIrq(c).irqs = SatInc(c.irqs)
  BY SatIncType DEF WithCrcError, WithTimeout, WithIrq, Counts

LEMMA ReadingType ==
  ASSUME NEW t \in Nat
  PROVE  t % TickMod \in 0 .. TickMod - 1
  BY EngineAssumption, RemainderOf

LEMMA ElapsedType ==
  ASSUME NEW s \in 0 .. TickMod - 1, NEW e \in 0 .. TickMod - 1
  PROVE  Elapsed(s, e) \in 0 .. TickMod - 1
PROOF
  <1>1. e - s \in Int /\ TickMod \in Nat \ {0}
    BY EngineAssumption
  <1> QED BY <1>1, RemainderOf DEF Elapsed

LEMMA TxnAdvanceType ==
  ASSUME NEW t \in TxnType, NEW bytes, NEW at
  PROVE  TxnAdvance(t, bytes, at) \in TxnType
  BY DEF TxnAdvance, TxnType, TxnStates

LEMMA LatencyType ==
  ASSUME NEW t \in TxnType, NEW at \in 0 .. TickMod - 1
  PROVE  TxnLatency(t, at) \in Nat
PROOF
  <1>1. Elapsed(t.start, at) \in 0 .. TickMod - 1
    BY ElapsedType DEF TxnType
  <1> QED BY <1>1, EngineAssumption DEF TxnLatency

-----------------------------------------------------------------------------
(* The inductive invariant.                                                *)

\* What the host holds while it concludes a transaction.
InFlight ==
  inTransfer =>
    /\ index < profile.count
    /\ txn.state = IF PacketSize = 0 THEN "done" ELSE "active"
    /\ txn.start = txn.begun % TickMod
    /\ time - txn.begun \in Latencies \cup {0}

ReplyIsAcceptance ==
  inTransfer /\ Acknowledged(reply) => index \in accepted

CorruptedIsRefused ==
  inTransfer /\ FaultCrc(index) => ~Acknowledged(reply)

\* The saturation of the slave's counter is part of it: at the limit the host's
\* counter may stand still while the slave's cannot move either.
IrqBalance ==
  /\ irqLine => inTransfer
  /\ slave.irqs <= U32Max
  /\ slave.irqs <= host.irqs + (IF irqLine THEN 1 ELSE 0)

EngineInv ==
  /\ TypeOK /\ InFlight /\ ReplyIsAcceptance /\ CorruptedIsRefused
  /\ IrqBalance /\ OkMeansAccepted /\ DeclaredFaultsHappen

LEMMA Recorded ==
  ASSUME samples \in Seq(SampleType), NEW s \in SampleType, RecordSample(s)
  PROVE  /\ samples' \in Seq(SampleType)
         /\ \A i \in 1 .. Len(samples') :
              \/ i \in 1 .. Len(samples) /\ samples'[i] = samples[i]
              \/ samples'[i] = s
  BY DEF RecordSample

\* A sample keeps the two properties of the series.
LEMMA SampleKeepsSeries ==
  ASSUME samples \in Seq(SampleType), OkMeansAccepted, DeclaredFaultsHappen,
         NEW s \in SampleType, RecordSample(s),
         s.status = "ok" => s.id \in accepted',
         "fault_crc" \in s.flags => s.status # "ok",
         accepted \subseteq accepted'
  PROVE  OkMeansAccepted' /\ DeclaredFaultsHappen'
  BY Recorded DEF OkMeansAccepted, DeclaredFaultsHappen, SamplesWith

LEMMA InitInv == Init => EngineInv
PROOF
  <1> SUFFICES ASSUME Init PROVE EngineInv
    OBVIOUS
  <1>1. profile \in ProfileType /\ profile.count \in Nat
    BY EngineAssumption, U32MaxAssumption DEF Init, ProfileType
  <1>2. NoCounts \in Counts /\ NoResponse \in Responses
    BY DEF NoCounts, Counts, NoResponse, Responses
  <1>3. txn \in TxnType
    BY EngineAssumption DEF Init, TxnType, TxnStates
  <1>4. reply \in [status : SpiStatuses, frame : Responses]
    BY <1>2 DEF Init, SpiStatuses
  <1>5. TypeOK
    <2>1. index \in 0 .. profile.count
      BY <1>1 DEF Init
    <2>3. time \in Nat /\ irqLine \in BOOLEAN /\ inTransfer \in BOOLEAN
      BY DEF Init, LinkInit
    <2>2. events \in Seq(EventTypes) /\ samples \in Seq(SampleType)
          /\ accepted \subseteq Nat
      BY DEF Init
    <2> QED BY <1>2, <1>3, <1>4, <2>1, <2>2, <2>3 DEF Init, TypeOK
  <1>6. InFlight /\ ReplyIsAcceptance /\ CorruptedIsRefused
    BY DEF Init, InFlight, ReplyIsAcceptance, CorruptedIsRefused
  <1>7. IrqBalance
    BY U32MaxAssumption DEF Init, LinkInit, IrqBalance, NoCounts
  <1>8. OkMeansAccepted /\ DeclaredFaultsHappen
    BY DEF Init, OkMeansAccepted, DeclaredFaultsHappen, SamplesWith
  <1> QED BY <1>5, <1>6, <1>7, <1>8 DEF EngineInv

\* A wait never takes the clock back.
LEMMA DelayedType ==
  ASSUME NEW t \in Nat, NEW ticks \in Nat
  PROVE  Delayed(t, ticks) \in Nat /\ Delayed(t, ticks) - t \in Nat
  BY EngineAssumption DEF Delayed, SimDelay

LEMMA TxnBeginType ==
  ASSUME TypeOK
  PROVE  TxnBegin \in TxnType
  BY ReadingType DEF TypeOK, TxnBegin, Now, TxnType, TxnStates

\* The types of what the actions combine.
LEMMA Facts ==
  ASSUME TypeOK
  PROVE  /\ profile \in ProfileType
         /\ profile.count \in Nat /\ profile.timeout \in Nat
         /\ profile.interDelay \in Nat
         /\ index \in Nat /\ time \in Nat
         /\ PacketSize \in Nat /\ FaultLands
         /\ Now \in 0 .. TickMod - 1
PROOF
  <1>1. profile \in ProfileType
    BY EngineAssumption DEF TypeOK
  <1>2. /\ profile.count \in Nat /\ profile.timeout \in Nat
        /\ profile.interDelay \in Nat
    BY <1>1, U32MaxAssumption DEF ProfileType
  <1>3. index \in Nat /\ time \in Nat
    BY <1>2 DEF TypeOK
  <1> QED
    BY <1>1, <1>2, <1>3, PacketSizeType, FaultAlwaysLands, ReadingType DEF Now

-----------------------------------------------------------------------------
(* One lemma for each action.                                              *)

LEMMA DeclaredTimeoutTypes ==
  ASSUME TypeOK, DeclaredTimeout
  PROVE  /\ TypeOK' /\ host'.irqs = host.irqs
         /\ \E s \in SampleType :
              /\ RecordSample(s) /\ s.id = index
              /\ s.status = "timeout" /\ s.flags = {"fault_timeout"}
PROOF
  <1> DEFINE end == Delayed(time, profile.timeout)
             at  == end % TickMod
             t   == TxnAdvance(TxnBegin, 0, at)
             s   == SampleOf(t, at, end - time, "none", "timeout",
                             {"fault_timeout"})
  <1>1. /\ end \in Nat /\ end - time \in Nat /\ at \in 0 .. TickMod - 1
        /\ Delayed(end, profile.interDelay) \in Nat
    BY Facts, DelayedType, ReadingType
  <1>2. t \in TxnType /\ TxnLatency(t, at) \in Nat
    BY <1>1, TxnBeginType, TxnAdvanceType, LatencyType
  <1>3. /\ s \in SampleType /\ s.id = index
        /\ s.status = "timeout" /\ s.flags = {"fault_timeout"}
    <2> HIDE DEF t, at, end
    <2>1. t.start \in 0 .. TickMod - 1
      BY <1>2 DEF TxnType
    <2> QED BY <2>1, <1>1, <1>2, Facts
      DEF SampleOf, SampleType, SampleStatuses, SampleFaults, SpiStatuses
  <1>4. /\ txn' = t /\ time' = Delayed(end, profile.interDelay)
        /\ host' = WithTx(WithTimeout(host), FALSE, 0, TxnLatency(t, at))
        /\ events' = events \o <<"tx_begin", "timeout", "tx_end">>
        /\ RecordSample(s)
        /\ index' = index + 1 /\ index < profile.count
        /\ UNCHANGED <<profile, inTransfer, slave, response, accepted, reply,
                       irqLine>>
    BY DEF DeclaredTimeout, Begin, TransactionBudget, slaveVars
  <1> HIDE DEF end, at, t, s
  <1>5. host' \in Counts /\ host'.irqs = host.irqs
    <2>1. WithTimeout(host) \in Counts /\ WithTimeout(host).irqs = host.irqs
      BY WithEventType DEF TypeOK
    <2> QED BY <1>2, <1>4, <2>1, EitherTxType
  <1>6. samples' \in Seq(SampleType)
    BY <1>3, <1>4, Recorded DEF TypeOK
  <1>7. events' \in Seq(EventTypes)
    BY <1>4 DEF TypeOK, EventTypes
  <1>8. TypeOK'
    <2>1. index' \in 0 .. profile'.count
      BY <1>4, Facts DEF TypeOK
    <2> QED BY <1>1, <1>2, <1>4, <1>5, <1>6, <1>7, <2>1 DEF TypeOK
  <1> QED BY <1>3, <1>4, <1>5, <1>8

LEMMA DeclaredTimeoutKeeps ==
  ASSUME EngineInv, DeclaredTimeout
  PROVE  EngineInv'
PROOF
  <1>1. TypeOK
    BY DEF EngineInv
  <1>2. TypeOK' /\ host'.irqs = host.irqs
    BY <1>1, DeclaredTimeoutTypes
  <1>3. PICK s \in SampleType :
          RecordSample(s) /\ s.status = "timeout" /\ s.flags = {"fault_timeout"}
    BY <1>1, DeclaredTimeoutTypes
  <1>4. /\ ~inTransfer
        /\ UNCHANGED <<profile, inTransfer, slave, response, accepted, reply,
                       irqLine>>
    BY DEF DeclaredTimeout, Begin, slaveVars
  <1>5. InFlight' /\ ReplyIsAcceptance' /\ CorruptedIsRefused'
    BY <1>4 DEF InFlight, ReplyIsAcceptance, CorruptedIsRefused
  <1>6. IrqBalance'
    BY <1>2, <1>4 DEF EngineInv, IrqBalance
  <1>7. OkMeansAccepted' /\ DeclaredFaultsHappen'
    BY <1>1, <1>3, <1>4, SampleKeepsSeries DEF EngineInv, TypeOK
  <1> QED BY <1>2, <1>5, <1>6, <1>7 DEF EngineInv

\* What the slave leaves behind: it accepts an intact frame and no other, and
\* raises the interrupt it counts.
LEMMA SlaveAnswers ==
  ASSUME TypeOK, NEW intact \in BOOLEAN, NEW seq \in Nat,
         SlaveOnTransaction(intact, seq)
  PROVE  /\ slave' \in Counts /\ response' \in Responses
         /\ accepted' \subseteq Nat /\ accepted \subseteq accepted'
         /\ response'.ack = "ok" => intact /\ seq \in accepted'
         /\ slave'.irqs = IF RaisesIrq(~intact) THEN SatInc(slave.irqs)
                                                ELSE slave.irqs
PROOF
  <1>1. CASE intact /\ SlaveAccept(seq)
    <2>1. WithTx(slave, TRUE, PacketSize, 0) \in Counts
          /\ WithTx(slave, TRUE, PacketSize, 0).irqs = slave.irqs
      BY EitherTxType, Facts DEF TypeOK
    <2>2. slave' \in Counts
          /\ slave'.irqs = IF RaisesIrq(~intact) THEN SatInc(slave.irqs)
                                                 ELSE slave.irqs
      BY <1>1, <2>1, WithEventType DEF SlaveAccept
    <2>3. /\ response' \in Responses /\ accepted' = accepted \cup {seq}
          /\ accepted' \subseteq Nat
      BY <1>1 DEF SlaveAccept, AckOf, Responses, TypeOK
    <2> QED BY <1>1, <2>2, <2>3
  <1>2. CASE ~intact /\ SlaveReject
    <2>1. WithCrcError(slave) \in Counts /\ WithCrcError(slave).irqs = slave.irqs
      BY WithEventType DEF TypeOK
    <2> DEFINE e == WithCrcError(slave)
               c == WithTx(e, FALSE, 0, 0)
    <2> HIDE DEF e
    <2>2. c \in Counts /\ c.irqs = slave.irqs
      <3>1. e \in Counts /\ e.irqs = slave.irqs
        BY <2>1 DEF e
      <3>2. 0 \in Nat
        OBVIOUS
      <3> QED BY <3>1, <3>2, EitherTxType
    <2>3. slave' = IF RaisesIrq(TRUE) THEN WithIrq(c) ELSE c
      BY <1>2 DEF SlaveReject, e
    <2> HIDE DEF c
    <2>4. slave' \in Counts
          /\ slave'.irqs = IF RaisesIrq(~intact) THEN SatInc(slave.irqs)
                                                 ELSE slave.irqs
      BY <1>2, <2>2, <2>3, WithEventType
    <2>5. /\ response' \in Responses /\ response'.ack = "crc_error"
          /\ accepted' = accepted
      BY <1>2 DEF SlaveReject, AckOf, Responses
    <2> QED BY <2>4, <2>5 DEF TypeOK
  <1> QED BY <1>1, <1>2 DEF SlaveOnTransaction

LEMMA LinkStepType ==
  ASSUME NEW step \in LinkSteps
  PROVE  /\ step.latency \in Latencies \cup {0} /\ step.latency \in Nat
         /\ step.whole \in BOOLEAN /\ step.preassert \in BOOLEAN
         /\ step.status \in SpiStatuses
PROOF
  <1>1. CASE step = StepDefault
    BY <1>1 DEF StepDefault, SpiStatuses
  <1>2. CASE step \in [latency : Latencies, whole : BOOLEAN, lost : BOOLEAN,
                       preassert : BOOLEAN, status : SpiStatuses]
    BY <1>2, EngineAssumption
  <1> QED BY <1>1, <1>2 DEF LinkSteps

LEMMA TransferKeeps ==
  ASSUME EngineInv, Transfer
  PROVE  EngineInv'
PROOF
  <1>1. TypeOK
    BY DEF EngineInv
  <1>2. PICK step \in LinkSteps : SimTransfer(step, FrameSent)
    BY DEF Transfer
  <1>3. /\ ~inTransfer /\ inTransfer' /\ index < profile.count
        /\ txn' = TxnBegin /\ events' = Append(events, "tx_begin")
        /\ UNCHANGED <<profile, index, host, samples>>
    BY DEF Transfer, BeginTransfer, Begin, TransactionBudget
  <1> DEFINE sent   == FrameSent
             intact == sent.intact /\ step.whole
             raised == step.preassert \/ RaisesIrq(~intact)
  <1>4. /\ SlaveOnTransaction(intact, index)
        /\ irqLine' = (irqLine \/ raised)
        /\ time' = time + step.latency
        /\ reply'.status = step.status
        /\ reply' \in [status : SpiStatuses,
                       frame : {NoResponse, response'}]
    BY <1>2, LinkStepType DEF SimTransfer, FrameSent, SimIrqRaise
  <1>5. intact \in BOOLEAN /\ index \in Nat /\ (FaultCrc(index) => ~intact)
    BY <1>1, Facts, LinkStepType DEF FrameSent
  <1>6. raised \in BOOLEAN /\ (RaisesIrq(~intact) => raised)
    BY LinkStepType DEF RaisesIrq
  <1> HIDE DEF sent, intact, raised
  <1>7. /\ slave' \in Counts /\ response' \in Responses
        /\ accepted' \subseteq Nat /\ accepted \subseteq accepted'
        /\ response'.ack = "ok" => intact /\ index \in accepted'
        /\ slave'.irqs = IF RaisesIrq(~intact) THEN SatInc(slave.irqs)
                                               ELSE slave.irqs
    BY <1>1, <1>4, <1>5, SlaveAnswers
  <1>8. /\ reply' \in [status : SpiStatuses, frame : Responses]
        /\ reply'.frame.ack = "ok" => response'.ack = "ok"
    BY <1>4, <1>7 DEF NoResponse, Responses
  <1>9. TypeOK'
    <2>1. txn' \in TxnType
      BY <1>1, <1>3, TxnBeginType
    <2>2. time' \in Nat /\ irqLine' \in BOOLEAN
      BY <1>1, <1>4, <1>6, Facts, LinkStepType DEF TypeOK
    <2>3. events' \in Seq(EventTypes)
      BY <1>1, <1>3 DEF TypeOK, EventTypes
    <2> QED BY <1>1, <1>3, <1>7, <1>8, <2>1, <2>2, <2>3 DEF TypeOK
  <1>10. InFlight'
    <2>1. /\ txn'.state = IF PacketSize = 0 THEN "done" ELSE "active"
          /\ txn'.start = time % TickMod /\ txn'.begun = time
      BY <1>3 DEF TxnBegin, Now
    <2>2. PacketSize' = PacketSize
      BY <1>3 DEF PacketSize
    <2>3. time' - time \in Latencies \cup {0}
      BY <1>1, <1>4, Facts, LinkStepType
    <2> QED BY <1>3, <2>1, <2>2, <2>3 DEF InFlight
  <1>11. ReplyIsAcceptance'
    BY <1>3, <1>7, <1>8 DEF ReplyIsAcceptance, Acknowledged
  <1>12. CorruptedIsRefused'
    BY <1>3, <1>5, <1>7, <1>8
    DEF CorruptedIsRefused, Acknowledged, FaultCrc, EveryNth
  <1>13. IrqBalance'
    <2>1. /\ ~irqLine /\ slave.irqs <= U32Max /\ slave.irqs <= host.irqs
          /\ slave.irqs \in Nat /\ host.irqs \in Nat
      BY <1>1, <1>3 DEF EngineInv, IrqBalance, TypeOK, Counts
    <2>2. SatInc(slave.irqs) <= U32Max /\ SatInc(slave.irqs) <= slave.irqs + 1
          /\ SatInc(slave.irqs) \in Nat
      BY <2>1, U32MaxAssumption DEF SatInc
    <2>3. irqLine' = raised /\ host'.irqs = host.irqs
      BY <1>3, <1>4, <1>6, <2>1
    <2>4. slave'.irqs <= U32Max
          /\ slave'.irqs <= host'.irqs + (IF irqLine' THEN 1 ELSE 0)
      <3>1. CASE RaisesIrq(~intact)
        BY <1>6, <1>7, <2>1, <2>2, <2>3, <3>1
      <3>2. CASE ~RaisesIrq(~intact)
        BY <1>6, <1>7, <2>1, <2>2, <2>3, <3>2
      <3> QED BY <3>1, <3>2
    <2> QED BY <1>3, <2>4 DEF IrqBalance
  <1>14. OkMeansAccepted' /\ DeclaredFaultsHappen'
    BY <1>3, <1>7
    DEF EngineInv, OkMeansAccepted, DeclaredFaultsHappen, SamplesWith
  <1> QED BY <1>9, <1>10, <1>11, <1>12, <1>13, <1>14 DEF EngineInv

\* What the transaction amounts to, and what is counted for it.
LEMMA OutcomeType ==
  ASSUME TypeOK
  PROVE  /\ Outcome \in {"ok", "timeout", "failed", "rejected"}
         /\ Outcome = "ok" => Acknowledged(reply)
         /\ Outcome \in {"ok", "rejected"} => ~Late
PROOF
  <1>1. reply.status \in SpiStatuses
    BY DEF TypeOK
  <1> QED BY <1>1 DEF Outcome, LinkOutcome, SpiStatuses

LEMMA CountOutcomeType ==
  ASSUME TypeOK, NEW c \in Counts, NEW latency \in Nat
  PROVE  CountOutcome(c, latency) \in Counts
         /\ CountOutcome(c, latency).irqs = c.irqs
PROOF
  <1> DEFINE crc == WithCrcError(c)
             tmo == WithTimeout(c)
  <1>1. /\ crc \in Counts /\ crc.irqs = c.irqs
        /\ tmo \in Counts /\ tmo.irqs = c.irqs
    BY WithEventType
  <1>2. PacketSize \in Nat
    BY Facts
  <1>3. \/ CountOutcome(c, latency) = WithTx(tmo, FALSE, 0, latency)
        \/ CountOutcome(c, latency) = WithTx(c, FALSE, 0, latency)
        \/ CountOutcome(c, latency) = WithTx(c, TRUE, PacketSize, latency)
        \/ CountOutcome(c, latency) = WithTx(crc, FALSE, PacketSize, latency)
    BY OutcomeType DEF CountOutcome
  <1> HIDE DEF crc, tmo
  <1>4. 0 \in Nat
    OBVIOUS
  <1>5. WithTx(tmo, FALSE, 0, latency) \in Counts
        /\ WithTx(tmo, FALSE, 0, latency).irqs = c.irqs
    BY <1>1, <1>4, EitherTxType
  <1>6. /\ WithTx(c, FALSE, 0, latency) \in Counts
        /\ WithTx(c, FALSE, 0, latency).irqs = c.irqs
        /\ WithTx(c, TRUE, PacketSize, latency) \in Counts
        /\ WithTx(c, TRUE, PacketSize, latency).irqs = c.irqs
    BY <1>2, <1>4, EitherTxType
  <1>7. WithTx(crc, FALSE, PacketSize, latency) \in Counts
        /\ WithTx(crc, FALSE, PacketSize, latency).irqs = c.irqs
    BY <1>1, <1>2, EitherTxType
  <1> QED BY <1>3, <1>5, <1>6, <1>7

LEMMA ReadIrqType ==
  ASSUME TypeOK
  PROVE  /\ ReadIrq(host) \in Counts
         /\ ReadIrq(host).irqs = IF irqLine THEN SatInc(host.irqs)
                                            ELSE host.irqs
  BY WithEventType DEF TypeOK, ReadIrq

\* What the host's conclusion computes, on whatever link the transfer was made.
LEMMA ConcludeTypes ==
  ASSUME TypeOK, InFlight, ConcludeTransfer
  PROVE  /\ profile' = profile /\ reply' = reply
         /\ index < profile.count /\ index' = index + 1 /\ inTransfer' = FALSE
         /\ txn' \in TxnType /\ host' \in Counts /\ time' \in Nat
         /\ events' \in Seq(EventTypes) /\ samples' \in Seq(SampleType)
         /\ host'.irqs = IF irqLine THEN SatInc(host.irqs) ELSE host.irqs
         /\ \E s \in SampleType :
              /\ RecordSample(s) /\ s.id = index /\ s.flags = SampleFlags
              /\ s.status = IF Outcome = "failed" THEN "rejected" ELSE Outcome
PROOF
  <1> DEFINE t   == TxnAdvance(txn, PacketSize, Now)
             lat == TxnLatency(t, Now)
             verdict == IF Outcome = "failed" THEN "rejected" ELSE Outcome
             s   == SampleOf(txn, Now, time - txn.begun, reply.status, verdict,
                             SampleFlags)
  <1>2. t \in TxnType /\ lat \in Nat
    BY Facts, TxnAdvanceType, LatencyType DEF TypeOK
  <1>3. /\ inTransfer /\ inTransfer' = FALSE
        /\ txn' = t /\ host' = CountOutcome(ReadIrq(host), lat)
        /\ time' = Delayed(time, profile.interDelay)
        /\ RecordSample(s) /\ index' = index + 1
        /\ events' = events \o IrqEvents
             \o (IF Late THEN <<"timeout">> ELSE <<>>) \o <<"tx_end">>
        /\ UNCHANGED <<profile, reply>>
    BY DEF ConcludeTransfer
  <1>4. index < profile.count /\ time - txn.begun \in Nat
    <2>1. time - txn.begun \in Latencies \cup {0}
      BY <1>3 DEF InFlight
    <2>2. Latencies \cup {0} \subseteq Nat
      BY EngineAssumption
    <2> QED BY <1>3, <2>1, <2>2 DEF InFlight
  <1>5. verdict \in SampleStatuses /\ SampleFlags \subseteq SampleFaults
    BY OutcomeType DEF SampleStatuses, SampleFlags, SampleFaults
  <1>6. /\ s \in SampleType /\ s.id = index /\ s.status = verdict
        /\ s.flags = SampleFlags
    <2> HIDE DEF verdict
    <2>1. txn.start \in 0 .. TickMod - 1 /\ reply.status \in SpiStatuses
      BY DEF TypeOK, TxnType
    <2> QED BY <1>4, <1>5, <2>1, Facts DEF SampleOf, SampleType
  <1> HIDE DEF t, lat, s
  <1>7. /\ host' \in Counts
        /\ host'.irqs = IF irqLine THEN SatInc(host.irqs) ELSE host.irqs
    BY <1>2, <1>3, ReadIrqType, CountOutcomeType
  <1>8. time' \in Nat
    BY <1>3, Facts, DelayedType
  <1>9. events' \in Seq(EventTypes)
    <2> DEFINE late == IF Late THEN <<"timeout">> ELSE <<>>
    <2>1. \A e \in EventTypes : <<e>> \in Seq(EventTypes)
      OBVIOUS
    <2>2. /\ IrqEvents \in Seq(EventTypes) /\ late \in Seq(EventTypes)
          /\ <<"tx_end">> \in Seq(EventTypes)
      <3>1. "irq" \in EventTypes /\ "timeout" \in EventTypes
            /\ "tx_end" \in EventTypes
        BY DEF EventTypes
      <3>2. <<>> \in Seq(EventTypes)
        OBVIOUS
      <3>3. CASE irqLine
        BY <2>1, <3>1, <3>2, <3>3 DEF IrqEvents
      <3>4. CASE ~irqLine
        BY <2>1, <3>1, <3>2, <3>4 DEF IrqEvents
      <3> QED BY <3>3, <3>4
    <2>3. events \in Seq(EventTypes)
      BY DEF TypeOK
    <2>4. events' = events \o IrqEvents \o late \o <<"tx_end">>
      BY <1>3
    <2> HIDE DEF late
    <2> QED BY <2>2, <2>3, <2>4
  <1>10. samples' \in Seq(SampleType)
    BY <1>3, <1>6, Recorded DEF TypeOK
  <1>11. \E r \in SampleType :
           /\ RecordSample(r) /\ r.id = index /\ r.flags = SampleFlags
           /\ r.status = verdict
    BY <1>3, <1>6
  <1> QED BY <1>2, <1>3, <1>4, <1>7, <1>8, <1>9, <1>10, <1>11

LEMMA ConcludeKeeps ==
  ASSUME EngineInv, Conclude
  PROVE  EngineInv'
PROOF
  <1>1. TypeOK /\ InFlight
    BY DEF EngineInv
  <1>2. ConcludeTransfer
    BY DEF Conclude
  <1>3. /\ index < profile.count /\ index' = index + 1 /\ inTransfer' = FALSE
        /\ profile' = profile /\ reply' = reply
        /\ txn' \in TxnType /\ host' \in Counts /\ time' \in Nat
        /\ events' \in Seq(EventTypes) /\ samples' \in Seq(SampleType)
        /\ host'.irqs = IF irqLine THEN SatInc(host.irqs) ELSE host.irqs
    BY <1>1, <1>2, ConcludeTypes
  <1>4. /\ inTransfer /\ irqLine' = FALSE
        /\ UNCHANGED <<slave, response, accepted>>
    BY DEF Conclude, ConcludeTransfer, SimIrqGet, slaveVars
  <1>5. PICK s \in SampleType :
          /\ RecordSample(s) /\ s.id = index /\ s.flags = SampleFlags
          /\ s.status = IF Outcome = "failed" THEN "rejected" ELSE Outcome
    BY <1>1, <1>2, ConcludeTypes
  <1>6. s.status = "ok" => s.id \in accepted'
    BY <1>1, <1>4, <1>5, OutcomeType DEF EngineInv, ReplyIsAcceptance
  <1>7. "fault_crc" \in s.flags => s.status # "ok"
    BY <1>1, <1>4, <1>5, OutcomeType
    DEF EngineInv, CorruptedIsRefused, SampleFlags
  <1>8. TypeOK'
    <2>1. index' \in 0 .. profile'.count
      BY <1>1, <1>3, Facts
    <2> QED BY <1>1, <1>3, <1>4, <2>1 DEF TypeOK
  <1>9. InFlight' /\ ReplyIsAcceptance' /\ CorruptedIsRefused'
    BY <1>3 DEF InFlight, ReplyIsAcceptance, CorruptedIsRefused
  <1>10. IrqBalance'
    <2>1. /\ slave.irqs \in Nat /\ host.irqs \in Nat
          /\ slave.irqs <= U32Max
          /\ slave.irqs <= host.irqs + (IF irqLine THEN 1 ELSE 0)
      BY <1>1 DEF EngineInv, IrqBalance, TypeOK, Counts
    <2>2. slave.irqs <= host'.irqs
      BY <1>3, <2>1, U32MaxAssumption DEF SatInc
    <2>3. host'.irqs \in Nat
      BY <1>3 DEF Counts
    <2> QED BY <1>4, <2>1, <2>2, <2>3 DEF IrqBalance
  <1>11. OkMeansAccepted' /\ DeclaredFaultsHappen'
    BY <1>1, <1>4, <1>5, <1>6, <1>7, SampleKeepsSeries DEF EngineInv, TypeOK
  <1> QED BY <1>8, <1>9, <1>10, <1>11 DEF EngineInv

LEMMA StepKeeps == EngineInv /\ [Next]_vars => EngineInv'
PROOF
  <1> SUFFICES ASSUME EngineInv, [Next]_vars
               PROVE  EngineInv'
    OBVIOUS
  <1>1. CASE UNCHANGED vars
    BY <1>1
    DEF EngineInv, vars, hostVars, slaveVars, TypeOK, InFlight, PacketSize,
        ReplyIsAcceptance, CorruptedIsRefused, Acknowledged, FaultCrc,
        EveryNth, IrqBalance, OkMeansAccepted, DeclaredFaultsHappen,
        SamplesWith
  <1> QED
    BY <1>1, DeclaredTimeoutKeeps, TransferKeeps, ConcludeKeeps DEF Next

-----------------------------------------------------------------------------
(* Durations.  They are read from a clock that wraps, so they are real as  *)
(* long as no transaction lasts a whole turn of it.                        *)

WideClock ==
  /\ \A l \in Latencies : l < TickMod
  /\ \A p \in Profiles : p.timeout < TickMod

\* The host's sum is that of the series.
SumInv ==
  profile.export =>
    IsFiniteSet(TicksOfSeries) /\ host.latencySum = Cardinality(TicksOfSeries)

\* A sample more, and its duration counted.
LEMMA SampleKeepsSum ==
  ASSUME TypeOK, SumInv, UNCHANGED profile, NEW s \in SampleType,
         RecordSample(s), host'.latencySum = host.latencySum + s.took
  PROVE  SumInv'
PROOF
  <1> SUFFICES ASSUME profile.export
               PROVE  /\ IsFiniteSet(TicksOfSeries')
                      /\ host'.latencySum = Cardinality(TicksOfSeries')
    BY DEF SumInv
  <1>1. PICK n \in Nat : n = Len(samples)
    BY DEF TypeOK
  <1>2. /\ Len(samples') = n + 1 /\ samples'[n + 1] = s
        /\ \A i \in 1 .. n : samples'[i] = samples[i]
    BY <1>1 DEF RecordSample, TypeOK
  <1>3. PICK S, T : S = TicksOfSeries /\ T = {n + 1} \X (1 .. s.took)
    OBVIOUS
  <1>4. TicksOfSeries' = S \cup T
    <2>1. TicksOfSeries' = UNION {{i} \X (1 .. samples'[i].took) : i \in 1 .. n + 1}
      BY <1>2 DEF TicksOfSeries
    <2>2. S = UNION {{i} \X (1 .. samples'[i].took) : i \in 1 .. n}
      BY <1>1, <1>2, <1>3 DEF TicksOfSeries
    <2>3. 1 .. n + 1 = (1 .. n) \cup {n + 1}
      BY <1>1
    <2> QED BY <1>2, <1>3, <2>1, <2>2, <2>3
  <1>5. S \cap T = {}
    <2>1. \A x \in S : x[1] \in 1 .. n
      BY <1>1, <1>3 DEF TicksOfSeries
    <2>2. \A x \in T : x[1] = n + 1
      BY <1>3
    <2> QED BY <1>1, <2>1, <2>2
  <1>6. IsFiniteSet(T) /\ Cardinality(T) = s.took /\ s.took \in Nat
    BY <1>3, PairsOf DEF SampleType
  <1>7. IsFiniteSet(S) /\ host.latencySum = Cardinality(S) /\ Cardinality(S) \in Nat
    BY <1>3, FS_CardinalityType DEF SumInv
  <1>8. /\ IsFiniteSet(S \cup T)
        /\ Cardinality(S \cup T) = Cardinality(S) + Cardinality(T) - Cardinality(S \cap T)
    BY <1>6, <1>7, FS_Union
  <1>9. Cardinality(S \cap T) = 0
    BY <1>5, FS_EmptySet
  <1> QED BY <1>4, <1>6, <1>7, <1>8, <1>9

\* Whatever a transaction's outcome, its latency is added.
LEMMA LatencyIsCounted ==
  ASSUME NEW c \in Counts, NEW latency \in Nat
  PROVE  CountOutcome(c, latency).latencySum = c.latencySum + latency
PROOF
  <1>1. ASSUME NEW d \in Counts, NEW ok, NEW bytes
        PROVE  WithTx(d, ok, bytes, latency).latencySum = d.latencySum + latency
    BY DEF WithTx, Counts
  <1>2. /\ WithTimeout(c) \in Counts /\ WithTimeout(c).latencySum = c.latencySum
        /\ WithCrcError(c) \in Counts /\ WithCrcError(c).latencySum = c.latencySum
    BY SatIncType DEF WithTimeout, WithCrcError, Counts
  <1>3. \/ CountOutcome(c, latency) = WithTx(WithTimeout(c), FALSE, 0, latency)
        \/ CountOutcome(c, latency) = WithTx(c, FALSE, 0, latency)
        \/ CountOutcome(c, latency) = WithTx(c, TRUE, PacketSize, latency)
        \/ CountOutcome(c, latency)
              = WithTx(WithCrcError(c), FALSE, PacketSize, latency)
    BY DEF CountOutcome
  <1> QED BY <1>1, <1>2, <1>3

\* A wait declared by the profile really takes its time where the port waits.
TimingInv ==
  WideClock => /\ ReadingsAreReal
               /\ SumInv
               /\ HasDelay => TimeoutsAreReal

LEMMA SampleKeepsTiming ==
  ASSUME TypeOK, UNCHANGED profile, TimingInv, WideClock,
         NEW s \in SampleType, RecordSample(s),
         host'.latencySum = host.latencySum + s.took,
         Elapsed(s.start, s.end) = s.took,
         HasDelay /\ PacketSize > 0 =>
           (s.status = "timeout"
              <=> s.took >= profile.timeout \/ s.link = "timeout")
  PROVE  TimingInv'
PROOF
  <1>1. PacketSize' = PacketSize
    BY DEF PacketSize
  <1>2. \A i \in 1 .. Len(samples') :
          \/ i \in 1 .. Len(samples) /\ samples'[i] = samples[i]
          \/ samples'[i] = s
    BY Recorded DEF TypeOK
  <1>3. ReadingsAreReal'
    BY <1>2 DEF TimingInv, ReadingsAreReal
  <1>4. HasDelay => TimeoutsAreReal'
    BY <1>1, <1>2 DEF TimingInv, TimeoutsAreReal
  <1>5. SumInv'
    BY SampleKeepsSum DEF TimingInv
  <1> QED BY <1>3, <1>4, <1>5 DEF TimingInv

\* Two readings less than a turn of the clock apart.
LEMMA ElapsedIsReal ==
  ASSUME NEW b \in Nat, NEW e \in Nat, e - b \in Nat, e - b < TickMod
  PROVE  Elapsed(b % TickMod, e % TickMod) = e - b
PROOF
  <1>1. e - b \in 0 .. TickMod - 1 /\ TickMod \in Nat \ {0}
    BY EngineAssumption
  <1>2. b + (e - b) = e
    OBVIOUS
  <1>3. (((b + (e - b)) % TickMod) - (b % TickMod)) % TickMod = e - b
    BY <1>1, DifferenceOfRemainders
  <1> QED BY <1>2, <1>3 DEF Elapsed

LEMMA DeclaredTimeoutTiming ==
  ASSUME EngineInv, TimingInv, WideClock, DeclaredTimeout
  PROVE  TimingInv'
PROOF
  <1> DEFINE end == Delayed(time, profile.timeout)
             at  == end % TickMod
             t   == TxnAdvance(TxnBegin, 0, at)
             s   == SampleOf(t, at, end - time, "none", "timeout",
                             {"fault_timeout"})
  <1>1. TypeOK
    BY DEF EngineInv
  <1>2. /\ end \in Nat /\ end - time \in Nat /\ end - time < TickMod
        /\ HasDelay => end - time >= profile.timeout
    <2>1. profile.timeout \in Nat /\ time \in Nat
      BY <1>1, Facts
    <2>2. profile.timeout < TickMod /\ 0 < TickMod
      BY <1>1, EngineAssumption DEF WideClock, TypeOK
    <2> QED BY <2>1, <2>2 DEF Delayed, SimDelay
  <1>3. t.start = time % TickMod /\ t \in TxnType
    <2>1. TxnBegin \in TxnType /\ TxnBegin.start = time % TickMod
      BY <1>1, TxnBeginType DEF TxnBegin, Now
    <2>2. t.start = TxnBegin.start
      BY <2>1 DEF TxnAdvance, TxnType
    <2> QED BY <2>1, <2>2, TxnAdvanceType
  <1>4. RecordSample(s) /\ UNCHANGED profile
    BY DEF DeclaredTimeout
  <1> HIDE DEF end, t
  <1>5. /\ s \in SampleType /\ s.start = time % TickMod /\ s.end = at
        /\ s.took = end - time /\ s.status = "timeout"
    <2>1. t.start \in 0 .. TickMod - 1 /\ at \in 0 .. TickMod - 1
      BY <1>2, <1>3, ReadingType DEF TxnType
    <2> HIDE DEF at
    <2> QED BY <2>1, <1>1, <1>2, <1>3, Facts
      DEF SampleOf, SampleType, SampleStatuses, SampleFaults, SpiStatuses
  <1>6. Elapsed(time % TickMod, at) = end - time
    BY <1>1, <1>2, ElapsedIsReal, Facts
  <1>7. host'.latencySum = host.latencySum + s.took
    <2>1. host' = WithTx(WithTimeout(host), FALSE, 0, TxnLatency(t, at))
      BY DEF DeclaredTimeout, end, t
    <2>2. host'.latencySum = host.latencySum + TxnLatency(t, at)
      BY <1>1, <2>1 DEF WithTx, WithTimeout, TypeOK, Counts
    <2>3. TxnLatency(t, at) = end - time
      <3>1. CASE t.state \in {"done", "timeout"}
        BY <1>3, <1>6, <3>1 DEF TxnLatency
      <3>2. CASE t.state \notin {"done", "timeout"}
        <4>1. TxnLatency(t, at) = 0
          BY <3>2 DEF TxnLatency
        <4>2. ~HasDelay
          <5>1. ASSUME HasDelay PROVE FALSE
            <6>1. TxnBegin.start = time % TickMod /\ TxnBegin.state # "idle"
              BY DEF TxnBegin, Now
            <6>2. ~Expired(TxnBegin.start, profile.timeout, at)
              BY <3>2 DEF t, TxnAdvance, TxnBegin
            <6> QED BY <1>2, <1>6, <5>1, <6>1, <6>2, Facts, <1>1 DEF Expired
          <5> QED BY <5>1
        <4>3. end = time
          BY <4>2 DEF end, Delayed
        <4> QED BY <1>1, <4>1, <4>3 DEF TypeOK
      <3> QED BY <3>1, <3>2
    <2> QED BY <1>5, <2>2, <2>3
  <1> HIDE DEF at, s
  <1> QED BY <1>1, <1>2, <1>4, <1>5, <1>6, <1>7, SampleKeepsTiming

LEMMA ConcludeTiming ==
  ASSUME EngineInv, TimingInv, WideClock, Conclude
  PROVE  TimingInv'
PROOF
  <1> DEFINE verdict == IF Outcome = "failed" THEN "rejected" ELSE Outcome
             took == time - txn.begun
             s == SampleOf(txn, Now, took, reply.status, verdict, SampleFlags)
  <1>1. TypeOK /\ inTransfer /\ InFlight
    BY DEF EngineInv, Conclude, ConcludeTransfer
  <1>2. took \in Nat /\ took < TickMod /\ txn.begun \in Nat /\ time \in Nat
    <2>1. took \in Latencies \cup {0}
      BY <1>1 DEF InFlight
    <2>2. \A l \in Latencies \cup {0} : l \in Nat /\ l < TickMod
      BY EngineAssumption DEF WideClock
    <2> QED BY <1>1, <2>1, <2>2 DEF TypeOK, TxnType
  <1>3. Elapsed(txn.start, Now) = took
    BY <1>1, <1>2, ElapsedIsReal DEF InFlight, Now
  <1>4. /\ RecordSample(s) /\ UNCHANGED profile
    BY DEF Conclude, ConcludeTransfer
  <1>5. verdict \in SampleStatuses /\ SampleFlags \subseteq SampleFaults
    BY <1>1, OutcomeType DEF SampleStatuses, SampleFlags, SampleFaults
  <1>6. PacketSize > 0 => (Late <=> took >= profile.timeout)
    <2>1. SUFFICES ASSUME PacketSize > 0
                   PROVE  Late <=> took >= profile.timeout
      OBVIOUS
    <2>2. txn.state = "active" /\ txn \in TxnType
      BY <1>1, <2>1, Facts DEF InFlight, TypeOK
    <2>3. Late <=> Expired(txn.start, profile.timeout, Now)
      BY <2>2, Facts DEF Late, TxnAdvance, TxnType
    <2> QED BY <1>3, <2>3 DEF Expired
  <1>7. verdict = "timeout" <=> Late \/ reply.status = "timeout"
    BY <1>1 DEF Outcome, LinkOutcome, TypeOK, SpiStatuses
  <1>8. /\ s \in SampleType /\ s.start = txn.start /\ s.end = Now
        /\ s.took = took /\ s.status = verdict /\ s.link = reply.status
    <2> HIDE DEF verdict, took
    <2>1. txn.start \in 0 .. TickMod - 1 /\ reply.status \in SpiStatuses
      BY <1>1 DEF TypeOK, TxnType
    <2> QED BY <1>1, <1>2, <1>5, <2>1, Facts DEF SampleOf, SampleType
  <1>9. host'.latencySum = host.latencySum + took
    <2> DEFINE t   == TxnAdvance(txn, PacketSize, Now)
               lat == TxnLatency(t, Now)
    <2>1. host' = CountOutcome(ReadIrq(host), lat)
      BY DEF Conclude, ConcludeTransfer
    <2>2. t.state \in {"done", "timeout"} /\ t.start = txn.start
      BY <1>1, Facts DEF TxnAdvance, InFlight, TypeOK, TxnType
    <2>3. lat = took
      BY <1>3, <2>2 DEF TxnLatency
    <2>4. ReadIrq(host) \in Counts /\ ReadIrq(host).latencySum = host.latencySum
      BY <1>1, SatIncType DEF ReadIrq, WithIrq, Counts, TypeOK
    <2> HIDE DEF t, lat, took
    <2> QED BY <1>2, <2>1, <2>3, <2>4, LatencyIsCounted
  <1> HIDE DEF verdict, took, s
  <1> QED BY <1>1, <1>3, <1>4, <1>6, <1>7, <1>8, <1>9, SampleKeepsTiming

LEMMA StepKeepsTiming ==
  EngineInv /\ TimingInv /\ [Next]_vars => TimingInv'
PROOF
  <1> SUFFICES ASSUME EngineInv, TimingInv, [Next]_vars
               PROVE  TimingInv'
    OBVIOUS
  <1>1. CASE ~WideClock
    BY <1>1 DEF TimingInv, WideClock
  <1>2. CASE samples' = samples /\ profile' = profile /\ host' = host
    BY <1>2 DEF TimingInv, ReadingsAreReal, SumInv, TicksOfSeries,
                TimeoutsAreReal, PacketSize
  <1>3. CASE UNCHANGED vars
    BY <1>2, <1>3 DEF vars, hostVars
  <1>4. CASE Transfer
    BY <1>2, <1>4 DEF Transfer, BeginTransfer
  <1> QED BY <1>1, <1>3, <1>4, DeclaredTimeoutTiming, ConcludeTiming DEF Next

-----------------------------------------------------------------------------
(* The theorems.                                                           *)

LEMMA InvariantHolds == Spec => []EngineInv
  BY InitInv, StepKeeps, PTL DEF Spec

\* engine.h: the two engines, the link and the run keep their types.
THEOREM TypeCorrect == Spec => []TypeOK
PROOF
  <1>1. EngineInv => TypeOK
    BY DEF EngineInv
  <1> QED BY <1>1, InvariantHolds, PTL

\* engine.c:47-86 and 255-282: a success is a transaction the slave accepted.
THEOREM SuccessIsAccepted == Spec => []OkMeansAccepted
PROOF
  <1>1. EngineInv => OkMeansAccepted
    BY DEF EngineInv
  <1> QED BY <1>1, InvariantHolds, PTL

\* engine.c:209-227: a corruption the profile declares is never a success.
THEOREM FaultsHappen == Spec => []DeclaredFaultsHappen
PROOF
  <1>1. EngineInv => DeclaredFaultsHappen
    BY DEF EngineInv
  <1> QED BY <1>1, InvariantHolds, PTL

\* engine.c:234-239: between two transactions no interrupt is pending, and the
\* host has counted each one the slave has, saturated counters included.
THEOREM NoInterruptLost == Spec => []IrqConserved
PROOF
  <1>1. EngineInv => IrqConserved
    BY DEF EngineInv, IrqBalance, IrqConserved, TypeOK, Counts
  <1> QED BY <1>1, InvariantHolds, PTL

\* The timing invariant holds of every run.
LEMMA TimingHolds == Spec => []TimingInv
PROOF
  <1>1. Init => TimingInv
    <2>1. ASSUME Init PROVE TicksOfSeries = {} /\ host.latencySum = 0
      <3>1. 1 .. Len(samples) = {}
        BY <2>1 DEF Init
      <3>2. TicksOfSeries = {}
        BY <3>1 DEF TicksOfSeries
      <3>3. host.latencySum = 0
        BY <2>1 DEF Init, NoCounts
      <3> QED BY <3>2, <3>3
    <2>2. Init => SumInv
      BY <2>1, FS_EmptySet DEF SumInv
    <2> QED BY <2>2 DEF Init, TimingInv, ReadingsAreReal, TimeoutsAreReal
  <1> QED BY <1>1, StepKeepsTiming, InvariantHolds, PTL DEF Spec

\* engine.c:156-167 and scheduler.c:7-12: wherever the clock wraps, the two
\* readings of a sample give the ticks that passed between them, and the host's
\* sum of latencies is the sum of those.
THEOREM DurationsReal ==
  WideClock => (Spec => []LatenciesAreReal)
PROOF
  <1>1. TimingInv /\ WideClock => LatenciesAreReal
    BY DEF TimingInv, SumInv, LatenciesAreReal
  <1>2. WideClock => WideClock'
    BY DEF WideClock
  <1>3. WideClock /\ Spec => [](WideClock /\ TimingInv)
    BY <1>2, TimingHolds, PTL DEF Spec
  <1> QED BY <1>1, <1>3, PTL

\* engine.c:241-254 and scheduler.c:14-25: a sample says timeout exactly when
\* the budget ran out or the link said so, across the wrap of the clock.
THEOREM TimeoutsReal ==
  WideClock /\ HasDelay => (Spec => []TimeoutsAreReal)
PROOF
  <1> DEFINE Wide == WideClock /\ HasDelay
  <1>1. TimingInv /\ Wide => TimeoutsAreReal
    BY DEF TimingInv
  <1>2. Wide => Wide'
    BY DEF WideClock
  <1> HIDE DEF Wide
  <1>3. Wide /\ Spec => []TimeoutsAreReal
    BY <1>1, <1>2, TimingHolds, PTL DEF Spec
  <1> QED BY <1>3 DEF Wide

-----------------------------------------------------------------------------
(* What is counted for one transaction.                                    *)

\* The counters that sort transactions, and how many each of them gains.
Gains(c, d, ok, failed, crc, timeout) ==
  /\ d.txOk = c.txOk + ok /\ d.txFailed = c.txFailed + failed
  /\ d.crcErrors = c.crcErrors + crc /\ d.timeouts = c.timeouts + timeout

Unsaturated(c) ==
  /\ c.txOk < U32Max /\ c.txFailed < U32Max
  /\ c.crcErrors < U32Max /\ c.timeouts < U32Max

LEMMA SatIncExact ==
  ASSUME NEW n \in Nat, n < U32Max
  PROVE  SatInc(n) = n + 1
  BY DEF SatInc

LEMMA TxGains ==
  ASSUME NEW c \in Counts, Unsaturated(c), NEW bytes \in Nat,
         NEW latency \in Nat
  PROVE  /\ Gains(c, WithTx(c, TRUE, bytes, latency), 1, 0, 0, 0)
         /\ WithTx(c, TRUE, bytes, latency).bytes = c.bytes + bytes
         /\ Gains(c, WithTx(c, FALSE, bytes, latency), 0, 1, 0, 0)
         /\ WithTx(c, FALSE, bytes, latency).bytes = c.bytes + bytes
PROOF
  <1> DEFINE y == WithTx(c, TRUE, bytes, latency)
             n == WithTx(c, FALSE, bytes, latency)
  <1>1. SatInc(c.txOk) = c.txOk + 1 /\ SatInc(c.txFailed) = c.txFailed + 1
    BY SatIncExact DEF Counts, Unsaturated
  <1>2. /\ y.txOk = SatInc(c.txOk) /\ y.txFailed = c.txFailed
        /\ y.crcErrors = c.crcErrors /\ y.timeouts = c.timeouts
        /\ y.bytes = c.bytes + bytes
    BY DEF WithTx, Counts
  <1>3. /\ n.txOk = c.txOk /\ n.txFailed = SatInc(c.txFailed)
        /\ n.crcErrors = c.crcErrors /\ n.timeouts = c.timeouts
        /\ n.bytes = c.bytes + bytes
    BY DEF WithTx, Counts
  <1> HIDE DEF y, n
  <1>4. Gains(c, y, 1, 0, 0, 0) /\ Gains(c, n, 0, 1, 0, 0)
    BY <1>1, <1>2, <1>3 DEF Gains, Counts
  <1> QED BY <1>2, <1>3, <1>4 DEF y, n

LEMMA EventGains ==
  ASSUME NEW c \in Counts, Unsaturated(c)
  PROVE  /\ Gains(c, WithCrcError(c), 0, 0, 1, 0)
         /\ Gains(c, WithTimeout(c), 0, 0, 0, 1)
         /\ Gains(c, WithIrq(c), 0, 0, 0, 0)
         /\ WithCrcError(c).bytes = c.bytes /\ WithIrq(c).bytes = c.bytes
  BY SatIncExact DEF Gains, Counts, Unsaturated, WithCrcError, WithTimeout,
                     WithIrq

\* An error and the transaction that failed of it.
LEMMA FailureGains ==
  ASSUME NEW c \in Counts, Unsaturated(c), NEW bytes \in Nat,
         NEW latency \in Nat
  PROVE  /\ Gains(c, WithTx(WithCrcError(c), FALSE, bytes, latency), 0, 1, 1, 0)
         /\ WithTx(WithCrcError(c), FALSE, bytes, latency).bytes
              = c.bytes + bytes
         /\ Gains(c, WithTx(WithTimeout(c), FALSE, bytes, latency), 0, 1, 0, 1)
PROOF
  <1> DEFINE e == WithCrcError(c)
             m == WithTimeout(c)
             de == WithTx(e, FALSE, bytes, latency)
             dm == WithTx(m, FALSE, bytes, latency)
  <1>1. e \in Counts /\ m \in Counts
    BY WithEventType
  <1>2. Gains(c, e, 0, 0, 1, 0) /\ Gains(c, m, 0, 0, 0, 1) /\ e.bytes = c.bytes
    BY EventGains
  <1>3. SatInc(e.txFailed) = c.txFailed + 1 /\ SatInc(m.txFailed) = c.txFailed + 1
    BY <1>2, SatIncExact DEF Gains, Unsaturated, Counts
  <1> HIDE DEF e, m
  <1>4. /\ de.txOk = e.txOk /\ de.txFailed = SatInc(e.txFailed)
        /\ de.crcErrors = e.crcErrors /\ de.timeouts = e.timeouts
        /\ de.bytes = e.bytes + bytes
    BY <1>1 DEF WithTx, Counts
  <1>5. /\ dm.txOk = m.txOk /\ dm.txFailed = SatInc(m.txFailed)
        /\ dm.crcErrors = m.crcErrors /\ dm.timeouts = m.timeouts
    BY <1>1 DEF WithTx, Counts
  <1> HIDE DEF de, dm
  <1>6. Gains(c, de, 0, 1, 1, 0) /\ de.bytes = c.bytes + bytes
    BY <1>2, <1>3, <1>4 DEF Gains, Counts
  <1>7. Gains(c, dm, 0, 1, 0, 1)
    BY <1>2, <1>3, <1>5 DEF Gains, Counts
  <1> QED BY <1>6, <1>7 DEF de, dm, e, m

\* engine.c:244-282: each outcome is counted once, in its own counters.
LEMMA OutcomeGains ==
  ASSUME TypeOK, NEW c \in Counts, Unsaturated(c), NEW latency \in Nat
  PROVE  LET d == CountOutcome(c, latency)
         IN  /\ Outcome = "timeout" => Gains(c, d, 0, 1, 0, 1)
             /\ Outcome = "failed" => Gains(c, d, 0, 1, 0, 0)
             /\ Outcome = "ok" => Gains(c, d, 1, 0, 0, 0)
             /\ Outcome = "rejected" => Gains(c, d, 0, 1, 1, 0)
PROOF
  <1>1. PacketSize \in Nat /\ 0 \in Nat
    BY Facts
  <1>2. CASE Outcome = "timeout"
    <2>1. CountOutcome(c, latency) = WithTx(WithTimeout(c), FALSE, 0, latency)
      BY <1>2 DEF CountOutcome
    <2> QED BY <1>1, <1>2, <2>1, FailureGains
  <1>3. CASE Outcome = "failed"
    <2>1. CountOutcome(c, latency) = WithTx(c, FALSE, 0, latency)
      BY <1>3 DEF CountOutcome
    <2> QED BY <1>1, <1>3, <2>1, TxGains
  <1>4. CASE Outcome = "ok"
    <2>1. CountOutcome(c, latency) = WithTx(c, TRUE, PacketSize, latency)
      BY <1>4 DEF CountOutcome
    <2> QED BY <1>1, <1>4, <2>1, TxGains
  <1>5. CASE Outcome = "rejected"
    <2>1. CountOutcome(c, latency)
            = WithTx(WithCrcError(c), FALSE, PacketSize, latency)
      BY <1>5 DEF CountOutcome
    <2> QED BY <1>1, <1>5, <2>1, FailureGains
  <1> QED BY <1>2, <1>3, <1>4, <1>5, OutcomeType

-----------------------------------------------------------------------------
(* The host.                                                               *)

CountersInv ==
  /\ host.txOk + host.txFailed = index
  /\ host.timeouts <= host.txFailed
  /\ host.crcErrors <= host.txFailed

\* Before the last transaction no counter is at its limit.
LEMMA HostUnsaturated ==
  ASSUME TypeOK, CountersInv, index < profile.count
  PROVE  Unsaturated(host)
PROOF
  <1>1. profile.count \in 0 .. U32Max
    BY Facts DEF ProfileType
  <1>2. /\ host.txOk \in Nat /\ host.txFailed \in Nat
        /\ host.crcErrors \in Nat /\ host.timeouts \in Nat
    BY DEF TypeOK, Counts
  <1>3. index \in Nat /\ U32Max \in Nat
    BY Facts, U32MaxAssumption
  <1>4. index < U32Max
    BY <1>1, <1>3
  <1> QED BY <1>2, <1>3, <1>4 DEF CountersInv, Unsaturated

\* The sample of a transaction and what the host counts for it.
Counted(s) ==
  /\ s.status = "ok" => Gains(host, host', 1, 0, 0, 0)
  /\ s.status = "timeout" => Gains(host, host', 0, 1, 0, 1)
  /\ s.status = "rejected" =>
       IF s.link = "ok" THEN Gains(host, host', 0, 1, 1, 0)
                        ELSE Gains(host, host', 0, 1, 0, 0)

\* Every transaction concluded leaves one sample, of its own sequence number.
Concluded(s) ==
  /\ s \in SampleType /\ s.id = index /\ index' = index + 1
  /\ RecordSample(s) /\ Counted(s) /\ profile' = profile

LEMMA DeclaredTimeoutConcludes ==
  ASSUME TypeOK, CountersInv, DeclaredTimeout
  PROVE  \E s \in SampleType : Concluded(s) /\ s.status = "timeout"
PROOF
  <1> DEFINE at == Delayed(time, profile.timeout) % TickMod
             t  == TxnAdvance(TxnBegin, 0, at)
  <1>1. PICK s \in SampleType : RecordSample(s) /\ s.id = index /\ s.status = "timeout"
    BY DeclaredTimeoutTypes
  <1>2. TxnLatency(t, at) \in Nat
    <2>1. at \in 0 .. TickMod - 1
      BY Facts, DelayedType, ReadingType
    <2>2. t \in TxnType
      BY <2>1, TxnBeginType, TxnAdvanceType
    <2> QED BY <2>1, <2>2, LatencyType
  <1>3. /\ host' = WithTx(WithTimeout(host), FALSE, 0, TxnLatency(t, at))
        /\ index' = index + 1 /\ index < profile.count
        /\ profile' = profile
    BY DEF DeclaredTimeout, Begin, TransactionBudget
  <1> HIDE DEF at, t
  <1>4. Gains(host, host', 0, 1, 0, 1)
    <2>1. Unsaturated(host) /\ host \in Counts /\ 0 \in Nat
      BY <1>3, HostUnsaturated DEF TypeOK
    <2> QED BY <1>2, <1>3, <2>1, FailureGains
  <1> QED BY <1>1, <1>3, <1>4 DEF Concluded, Counted

LEMMA ReadIrqGains ==
  ASSUME TypeOK, Unsaturated(host)
  PROVE  /\ ReadIrq(host) \in Counts /\ Gains(host, ReadIrq(host), 0, 0, 0, 0)
         /\ Unsaturated(ReadIrq(host))
PROOF
  <1>1. host \in Counts
    BY DEF TypeOK
  <1>2. Gains(host, ReadIrq(host), 0, 0, 0, 0)
    BY <1>1, EventGains DEF ReadIrq, Gains, Counts
  <1>3. ReadIrq(host) \in Counts
    BY ReadIrqType
  <1> QED BY <1>1, <1>2, <1>3 DEF Gains, Unsaturated, Counts

LEMMA NoGain ==
  ASSUME NEW c \in Counts, NEW d, Gains(c, d, 0, 0, 0, 0)
  PROVE  /\ d.txOk = c.txOk /\ d.txFailed = c.txFailed
         /\ d.crcErrors = c.crcErrors /\ d.timeouts = c.timeouts
  BY DEF Gains, Counts

LEMMA TransferConcludes ==
  ASSUME TypeOK, InFlight, CountersInv, ConcludeTransfer
  PROVE  \E s \in SampleType :
           Concluded(s) /\ (s.status = "ok" <=> Outcome = "ok")
PROOF
  <1>1. TypeOK
    OBVIOUS
  <1> DEFINE lat == TxnLatency(TxnAdvance(txn, PacketSize, Now), Now)
             verdict == IF Outcome = "failed" THEN "rejected" ELSE Outcome
             s   == SampleOf(txn, Now, time - txn.begun, reply.status, verdict,
                             SampleFlags)
             c   == ReadIrq(host)
  <1>2. lat \in Nat
    BY <1>1, Facts, TxnAdvanceType, LatencyType DEF TypeOK
  <1>3. /\ inTransfer /\ host' = CountOutcome(c, lat)
        /\ RecordSample(s) /\ index' = index + 1 /\ profile' = profile
    BY DEF ConcludeTransfer
  <1>4. index < profile.count /\ time - txn.begun \in Nat
    <2>1. time - txn.begun \in Latencies \cup {0}
      BY <1>3 DEF InFlight
    <2>2. Latencies \cup {0} \subseteq Nat
      BY EngineAssumption
    <2> QED BY <1>3, <2>1, <2>2 DEF InFlight
  <1>5. verdict \in SampleStatuses /\ SampleFlags \subseteq SampleFaults
    BY <1>1, OutcomeType DEF SampleStatuses, SampleFlags, SampleFaults
  <1>6. /\ s \in SampleType /\ s.id = index /\ s.status = verdict
        /\ s.link = reply.status
    <2> HIDE DEF verdict
    <2>1. txn.start \in 0 .. TickMod - 1 /\ reply.status \in SpiStatuses
      BY <1>1 DEF TypeOK, TxnType
    <2> QED BY <1>1, <1>4, <1>5, <2>1, Facts DEF SampleOf, SampleType
  <1>7. c \in Counts /\ Unsaturated(c) /\ Gains(host, c, 0, 0, 0, 0)
    BY <1>1, <1>4, HostUnsaturated, ReadIrqGains
  <1> HIDE DEF lat, c, s
  <1>8. /\ Outcome = "timeout" => Gains(c, host', 0, 1, 0, 1)
        /\ Outcome = "failed" => Gains(c, host', 0, 1, 0, 0)
        /\ Outcome = "ok" => Gains(c, host', 1, 0, 0, 0)
        /\ Outcome = "rejected" => Gains(c, host', 0, 1, 1, 0)
    BY <1>1, <1>2, <1>3, <1>7, OutcomeGains
  <1>9. /\ Outcome = "timeout" => Gains(host, host', 0, 1, 0, 1)
        /\ Outcome = "failed" => Gains(host, host', 0, 1, 0, 0)
        /\ Outcome = "ok" => Gains(host, host', 1, 0, 0, 0)
        /\ Outcome = "rejected" => Gains(host, host', 0, 1, 1, 0)
    <2>1. /\ c.txOk = host.txOk /\ c.txFailed = host.txFailed
          /\ c.crcErrors = host.crcErrors /\ c.timeouts = host.timeouts
      <3>1. host \in Counts
        BY <1>1 DEF TypeOK
      <3> QED BY <1>7, <3>1, NoGain
    <2> QED BY <1>8, <2>1 DEF Gains
  <1>10. /\ Outcome = "rejected" => reply.status = "ok"
         /\ Outcome = "failed" => reply.status # "ok"
    BY <1>1 DEF Outcome, LinkOutcome, TypeOK, SpiStatuses
  <1>11. Counted(s)
    BY <1>1, <1>6, <1>9, <1>10, OutcomeType DEF Counted
  <1>12. s.status = "ok" <=> Outcome = "ok"
    BY <1>6
  <1> QED BY <1>3, <1>6, <1>11, <1>12 DEF Concluded

LEMMA ConcludeConcludes ==
  ASSUME EngineInv, CountersInv, Conclude
  PROVE  \E s \in SampleType :
           Concluded(s) /\ (s.status = "ok" => Acknowledged(reply))
  BY TransferConcludes, OutcomeType DEF EngineInv, Conclude

LEMMA ConcludedKeepsCounters ==
  ASSUME TypeOK, CountersInv, NEW s \in SampleType, Concluded(s)
  PROVE  CountersInv'
PROOF
  <1>1. /\ host.txOk \in Nat /\ host.txFailed \in Nat
        /\ host.crcErrors \in Nat /\ host.timeouts \in Nat /\ index \in Nat
    BY Facts DEF TypeOK, Counts
  <1>2. s.status \in {"ok", "timeout", "rejected"} /\ index' = index + 1
    BY DEF Concluded, SampleType, SampleStatuses
  <1>3. \/ Gains(host, host', 1, 0, 0, 0)
        \/ Gains(host, host', 0, 1, 0, 1)
        \/ Gains(host, host', 0, 1, 1, 0)
        \/ Gains(host, host', 0, 1, 0, 0)
    BY <1>2 DEF Concluded, Counted
  <1> QED BY <1>1, <1>2, <1>3 DEF CountersInv, Gains

-----------------------------------------------------------------------------
(* The series.                                                             *)

LEMMA OneMore ==
  ASSUME NEW n \in Nat, NEW A \in SUBSET (1 .. n)
  PROVE  /\ IsFiniteSet(A) /\ Cardinality(A) \in Nat
         /\ Cardinality(A \cup {n + 1}) = Cardinality(A) + 1
PROOF
  <1>1. IsFiniteSet(1 .. n)
    BY FS_Interval
  <1>2. IsFiniteSet(A)
    BY <1>1, FS_Subset
  <1>3. n + 1 \notin A
    OBVIOUS
  <1> QED BY <1>2, <1>3, FS_AddElement, FS_CardinalityType

\* The sets of samples the counters are compared with, after one more sample.
LEMMA SeriesSets ==
  ASSUME samples \in Seq(SampleType), NEW s \in SampleType,
         samples' = Append(samples, s), NEW status
  PROVE  /\ SamplesWith(status) \in SUBSET (1 .. Len(samples))
         /\ SamplesWith(status)' = IF s.status = status
                                     THEN SamplesWith(status)
                                            \cup {Len(samples) + 1}
                                     ELSE SamplesWith(status)
         /\ (SamplesWith(status) \cap LinkSaid("ok"))'
              = IF s.status = status /\ s.link = "ok"
                  THEN (SamplesWith(status) \cap LinkSaid("ok"))
                         \cup {Len(samples) + 1}
                  ELSE SamplesWith(status) \cap LinkSaid("ok")
PROOF
  <1> DEFINE n == Len(samples)
  <1>1. /\ n \in Nat /\ Len(samples') = n + 1
        /\ \A i \in 1 .. n : samples'[i] = samples[i]
        /\ samples'[n + 1] = s
    OBVIOUS
  <1>2. \A i : i \in 1 .. Len(samples') <=> i \in 1 .. n \/ i = n + 1
    BY <1>1
  <1>3. n + 1 \notin 1 .. n
    BY <1>1
  <1> HIDE DEF n
  <1>4. SamplesWith(status) = {i \in 1 .. n : samples[i].status = status}
        /\ LinkSaid("ok") = {i \in 1 .. n : samples[i].link = "ok"}
    BY DEF SamplesWith, LinkSaid, n
  <1>5. SamplesWith(status)'
          = {i \in 1 .. Len(samples') : samples'[i].status = status}
        /\ LinkSaid("ok")'
          = {i \in 1 .. Len(samples') : samples'[i].link = "ok"}
    BY DEF SamplesWith, LinkSaid
  <1>6. SamplesWith(status)' = IF s.status = status
                                 THEN SamplesWith(status) \cup {n + 1}
                                 ELSE SamplesWith(status)
    BY <1>1, <1>2, <1>3, <1>4, <1>5
  <1>7. LinkSaid("ok")' = IF s.link = "ok" THEN LinkSaid("ok") \cup {n + 1}
                                           ELSE LinkSaid("ok")
    <2>1. CASE s.link = "ok"
      BY <1>1, <1>2, <1>3, <1>4, <1>5, <2>1
    <2>2. CASE s.link # "ok"
      BY <1>1, <1>2, <1>3, <1>4, <1>5, <2>2
    <2> QED BY <2>1, <2>2
  <1>8. /\ n + 1 \notin SamplesWith(status) /\ n + 1 \notin LinkSaid("ok")
        /\ SamplesWith(status) \subseteq 1 .. n
    BY <1>3, <1>4
  <1> QED BY <1>6, <1>7, <1>8 DEF n

LEMMA ConcludedKeepsSeries ==
  ASSUME TypeOK, CountersInv, SeriesMatchesCounters,
         NEW s \in SampleType, Concluded(s)
  PROVE  SeriesMatchesCounters'
PROOF
  <1>1. SUFFICES ASSUME profile'.export
                 PROVE  /\ Len(samples') = index'
                        /\ \A i \in 1 .. Len(samples') : samples'[i].id = i - 1
                        /\ host'.txOk = Cardinality(SamplesWith("ok")')
                        /\ host'.timeouts = Cardinality(SamplesWith("timeout")')
                        /\ host'.txFailed
                             = Cardinality(SamplesWith("timeout")')
                               + Cardinality(SamplesWith("rejected")')
                        /\ host'.crcErrors
                             = Cardinality((SamplesWith("rejected")
                                             \cap LinkSaid("ok"))')
    BY DEF SeriesMatchesCounters
  <1>2. profile.export /\ samples' = Append(samples, s)
        /\ samples \in Seq(SampleType)
    BY <1>1 DEF Concluded, RecordSample, TypeOK
  <1> DEFINE n    == Len(samples)
             oks  == SamplesWith("ok")
             tmos == SamplesWith("timeout")
             rejs == SamplesWith("rejected")
             crcs == SamplesWith("rejected") \cap LinkSaid("ok")
  <1>3. /\ n = index /\ n \in Nat
        /\ \A i \in 1 .. n : samples[i].id = i - 1
        /\ host.txOk = Cardinality(oks) /\ host.timeouts = Cardinality(tmos)
        /\ host.txFailed = Cardinality(tmos) + Cardinality(rejs)
        /\ host.crcErrors = Cardinality(crcs)
    BY <1>2, Facts DEF SeriesMatchesCounters
  <1>4. /\ Len(samples') = index'
        /\ \A i \in 1 .. Len(samples') : samples'[i].id = i - 1
    <2>1. /\ Len(samples') = n + 1 /\ samples'[n + 1] = s
          /\ \A i \in 1 .. n : samples'[i] = samples[i]
      BY <1>2
    <2>2. s.id = index /\ index' = index + 1
      BY DEF Concluded
    <2> HIDE DEF n
    <2> QED BY <1>3, <2>1, <2>2
  <1>5. /\ oks \in SUBSET (1 .. n) /\ tmos \in SUBSET (1 .. n)
        /\ rejs \in SUBSET (1 .. n) /\ crcs \in SUBSET (1 .. n)
    BY <1>2, SeriesSets
  <1>6. /\ oks' = IF s.status = "ok" THEN oks \cup {n + 1} ELSE oks
        /\ tmos' = IF s.status = "timeout" THEN tmos \cup {n + 1} ELSE tmos
        /\ rejs' = IF s.status = "rejected" THEN rejs \cup {n + 1} ELSE rejs
        /\ crcs' = IF s.status = "rejected" /\ s.link = "ok"
                     THEN crcs \cup {n + 1} ELSE crcs
    BY <1>2, SeriesSets
  <1>7. /\ s.status \in {"ok", "timeout", "rejected"} /\ Counted(s)
    BY DEF Concluded, SampleType, SampleStatuses
  <1> HIDE DEF oks, tmos, rejs, crcs, n
  <1>8. /\ Cardinality(oks) \in Nat /\ Cardinality(tmos) \in Nat
        /\ Cardinality(rejs) \in Nat /\ Cardinality(crcs) \in Nat
        /\ Cardinality(oks \cup {n + 1}) = Cardinality(oks) + 1
        /\ Cardinality(tmos \cup {n + 1}) = Cardinality(tmos) + 1
        /\ Cardinality(rejs \cup {n + 1}) = Cardinality(rejs) + 1
        /\ Cardinality(crcs \cup {n + 1}) = Cardinality(crcs) + 1
    BY <1>3, <1>5, OneMore
  <1>9. /\ host'.txOk = Cardinality(oks') /\ host'.timeouts = Cardinality(tmos')
        /\ host'.txFailed = Cardinality(tmos') + Cardinality(rejs')
        /\ host'.crcErrors = Cardinality(crcs')
    <2>1. CASE s.status = "ok"
      BY <1>3, <1>6, <1>7, <1>8, <2>1 DEF Counted, Gains
    <2>2. CASE s.status = "timeout"
      BY <1>3, <1>6, <1>7, <1>8, <2>2 DEF Counted, Gains
    <2>3. CASE s.status = "rejected" /\ s.link = "ok"
      BY <1>3, <1>6, <1>7, <1>8, <2>3 DEF Counted, Gains
    <2>4. CASE s.status = "rejected" /\ s.link # "ok"
      BY <1>3, <1>6, <1>7, <1>8, <2>4 DEF Counted, Gains
    <2> QED BY <1>7, <2>1, <2>2, <2>3, <2>4
  <1> QED BY <1>4, <1>9 DEF oks, tmos, rejs, crcs

LEMMA SeriesInit == Init => CountersInv /\ SeriesMatchesCounters
PROOF
  <1> SUFFICES ASSUME Init
               PROVE  CountersInv /\ SeriesMatchesCounters
    OBVIOUS
  <1>1. CountersInv
    BY DEF Init, CountersInv, NoCounts
  <1>2. samples = <<>> /\ Len(samples) = 0 /\ index = 0
    BY DEF Init
  <1>3. /\ SamplesWith("ok") = {} /\ SamplesWith("timeout") = {}
        /\ SamplesWith("rejected") = {}
    BY <1>2 DEF SamplesWith
  <1>4. /\ host.txOk = 0 /\ host.txFailed = 0 /\ host.crcErrors = 0
        /\ host.timeouts = 0
    BY DEF Init, NoCounts
  <1>5. SamplesWith("rejected") \cap LinkSaid("ok") = {}
    BY <1>3
  <1>6. Cardinality({}) = 0
    BY FS_EmptySet
  <1>7. SeriesMatchesCounters
    <2>1. \A i \in 1 .. Len(samples) : samples[i].id = i - 1
      BY <1>2
    <2>2. /\ host.txFailed = Cardinality(SamplesWith("timeout"))
                             + Cardinality(SamplesWith("rejected"))
          /\ host.crcErrors
               = Cardinality(SamplesWith("rejected") \cap LinkSaid("ok"))
      BY <1>3, <1>4, <1>5, <1>6
    <2>3. /\ host.txOk = Cardinality(SamplesWith("ok"))
          /\ host.timeouts = Cardinality(SamplesWith("timeout"))
      BY <1>3, <1>4, <1>6
    <2> QED BY <1>2, <2>1, <2>2, <2>3 DEF SeriesMatchesCounters
  <1> QED BY <1>1, <1>7

LEMMA SeriesNext ==
  EngineInv /\ CountersInv /\ SeriesMatchesCounters /\ [Next]_vars
    => CountersInv' /\ SeriesMatchesCounters'
PROOF
  <1> SUFFICES ASSUME EngineInv, CountersInv, SeriesMatchesCounters, [Next]_vars
               PROVE  CountersInv' /\ SeriesMatchesCounters'
    OBVIOUS
  <1>1. TypeOK
    BY DEF EngineInv
  <1>2. CASE UNCHANGED <<profile, index, host, samples>>
    BY <1>2
    DEF CountersInv, SeriesMatchesCounters, SamplesWith, LinkSaid
  <1>3. CASE \E s \in SampleType : Concluded(s)
    BY <1>1, <1>3, ConcludedKeepsCounters, ConcludedKeepsSeries
  <1>4. CASE UNCHANGED vars
    BY <1>2, <1>4 DEF vars, hostVars
  <1>5. CASE Transfer
    BY <1>2, <1>5 DEF Transfer, BeginTransfer
  <1> QED
    BY <1>1, <1>3, <1>4, <1>5, DeclaredTimeoutConcludes, ConcludeConcludes
    DEF Next

LEMMA CountersHold == Spec => [](CountersInv /\ SeriesMatchesCounters)
  BY SeriesInit, SeriesNext, InvariantHolds, PTL DEF Spec

\* engine.c:156-176 and 244-290: the series and the counters of a capture
\* never disagree, whatever the link did.
THEOREM SeriesIsCounted == Spec => []SeriesMatchesCounters
  BY CountersHold, PTL

-----------------------------------------------------------------------------
(* The slave.                                                              *)

\* The transactions before i that reach the link.
Transferred(i) == {k \in 0 .. i - 1 : ~FaultTimeout(k)}

AgreeInv ==
  /\ EnginesAgree /\ slave.timeouts = 0
  /\ inTransfer => ~FaultTimeout(index)
  /\ accepted \subseteq 0 .. (IF inTransfer THEN index ELSE index - 1)
  /\ slave.crcErrors <= host.txFailed
       + (IF inTransfer /\ ~Acknowledged(reply) THEN 1 ELSE 0)

LEMMA TransferredCount ==
  ASSUME NEW i \in Nat
  PROVE  /\ Cardinality(Transferred(i)) \in Nat
         /\ Cardinality(Transferred(i)) <= i
         /\ Cardinality(Transferred(i + 1))
              = Cardinality(Transferred(i))
                + (IF FaultTimeout(i) THEN 0 ELSE 1)
PROOF
  <1> DEFINE A == Transferred(i)
  <1>1. IsFiniteSet(0 .. i - 1) /\ Cardinality(0 .. i - 1) = i
    <2>1. 0 \in Int /\ i - 1 \in Int
      OBVIOUS
    <2>2. IsFiniteSet(0 .. i - 1)
          /\ Cardinality(0 .. i - 1) = IF 0 > i - 1 THEN 0 ELSE (i - 1) - 0 + 1
      BY <2>1, FS_Interval
    <2> QED BY <2>2
  <1>2. IsFiniteSet(A) /\ Cardinality(A) <= i
    BY <1>1, FS_Subset DEF Transferred
  <1>3. i \notin A
    BY DEF Transferred
  <1>4. \A k : k \in 0 .. (i + 1) - 1 <=> k \in 0 .. i - 1 \/ k = i
    OBVIOUS
  <1>5. Transferred(i + 1) = IF FaultTimeout(i) THEN A ELSE A \cup {i}
    BY <1>4 DEF Transferred
  <1> HIDE DEF A
  <1>6. Cardinality(A) \in Nat /\ Cardinality(A \cup {i}) = Cardinality(A) + 1
    BY <1>2, <1>3, FS_CardinalityType, FS_AddElement
  <1> QED BY <1>2, <1>5, <1>6 DEF A

\* engine.c:47-86: what the slave counts for a frame.
LEMMA SlaveGains ==
  ASSUME TypeOK, Unsaturated(slave), NEW intact \in BOOLEAN, NEW seq \in Nat,
         SlaveOnTransaction(intact, seq)
  PROVE  /\ intact => /\ Gains(slave, slave', 1, 0, 0, 0)
                      /\ slave'.bytes = slave.bytes + PacketSize
                      /\ accepted' = accepted \cup {seq}
         /\ ~intact => /\ Gains(slave, slave', 0, 1, 1, 0)
                       /\ slave'.bytes = slave.bytes
                       /\ accepted' = accepted /\ response'.ack = "crc_error"
PROOF
  <1>1. slave \in Counts /\ PacketSize \in Nat /\ 0 \in Nat
    BY Facts DEF TypeOK
  <1>2. ASSUME NEW c \in Counts, NEW d, d = WithIrq(c) \/ d = c
        PROVE  /\ d.txOk = c.txOk /\ d.txFailed = c.txFailed
               /\ d.crcErrors = c.crcErrors /\ d.timeouts = c.timeouts
               /\ d.bytes = c.bytes
    BY <1>2 DEF WithIrq, Counts
  <1>3. CASE intact /\ SlaveAccept(seq)
    <2> DEFINE c == WithTx(slave, TRUE, PacketSize, 0)
    <2>1. c \in Counts /\ Gains(slave, c, 1, 0, 0, 0)
          /\ c.bytes = slave.bytes + PacketSize
      BY <1>1, EitherTxType, TxGains
    <2>2. (slave' = WithIrq(c) \/ slave' = c) /\ accepted' = accepted \cup {seq}
      BY <1>3 DEF SlaveAccept
    <2> HIDE DEF c
    <2>3. /\ slave'.txOk = c.txOk /\ slave'.txFailed = c.txFailed
          /\ slave'.crcErrors = c.crcErrors /\ slave'.timeouts = c.timeouts
          /\ slave'.bytes = c.bytes
      BY <1>2, <2>1, <2>2
    <2> QED BY <1>3, <2>1, <2>2, <2>3 DEF Gains
  <1>4. CASE ~intact /\ SlaveReject
    <2> DEFINE c == WithTx(WithCrcError(slave), FALSE, 0, 0)
    <2>1. Gains(slave, c, 0, 1, 1, 0) /\ c.bytes = slave.bytes
      <3>1. slave.bytes + 0 = slave.bytes
        BY <1>1 DEF Counts
      <3> QED BY <1>1, <3>1, FailureGains
    <2>2. c \in Counts
      <3>1. WithCrcError(slave) \in Counts
        BY <1>1, WithEventType
      <3> QED BY <1>1, <3>1, EitherTxType
    <2>3. (slave' = WithIrq(c) \/ slave' = c) /\ accepted' = accepted
          /\ response'.ack = "crc_error"
      BY <1>4 DEF SlaveReject, AckOf
    <2> HIDE DEF c
    <2>4. /\ slave'.txOk = c.txOk /\ slave'.txFailed = c.txFailed
          /\ slave'.crcErrors = c.crcErrors /\ slave'.timeouts = c.timeouts
          /\ slave'.bytes = c.bytes
      BY <1>2, <2>2, <2>3
    <2> QED BY <1>4, <2>1, <2>3, <2>4 DEF Gains
  <1> QED BY <1>3, <1>4 DEF SlaveOnTransaction

\* The numbers the slave's counters are compared with.
LEMMA SlaveNumbers ==
  ASSUME TypeOK, AgreeInv
  PROVE  /\ slave.txOk \in Nat /\ slave.txFailed \in Nat
         /\ slave.crcErrors \in Nat /\ slave.bytes \in Nat
         /\ IsFiniteSet(accepted) /\ Cardinality(accepted) \in Nat
         /\ slave.txOk = Cardinality(accepted)
         /\ slave.bytes = PacketSize * Cardinality(accepted)
         /\ slave.crcErrors = slave.txFailed
         /\ slave.txOk + slave.txFailed
              = (IF inTransfer THEN 1 ELSE 0) + Cardinality(Transferred(index))
PROOF
  <1>1. /\ slave.txOk \in Nat /\ slave.txFailed \in Nat
        /\ slave.crcErrors \in Nat /\ slave.bytes \in Nat
    BY DEF TypeOK, Counts
  <1>2. IsFiniteSet(accepted) /\ Cardinality(accepted) \in Nat
    <2> DEFINE last == IF inTransfer THEN index ELSE index - 1
    <2>1. last \in Int /\ 0 \in Int
      BY Facts
    <2>2. accepted \subseteq 0 .. last
      BY DEF AgreeInv
    <2> HIDE DEF last
    <2>3. IsFiniteSet(0 .. last)
      BY <2>1, FS_Interval
    <2> QED BY <2>2, <2>3, FS_Subset, FS_CardinalityType
  <1>3. EnginesAgree
    BY DEF AgreeInv
  <1>4. /\ slave.txOk = Cardinality(accepted)
        /\ slave.bytes = PacketSize * Cardinality(accepted)
        /\ slave.crcErrors = (slave.txOk + slave.txFailed) - Cardinality(accepted)
    BY <1>3 DEF EnginesAgree, Rejections
  <1>5. slave.txOk + slave.txFailed
          = (IF inTransfer THEN 1 ELSE 0) + Cardinality(Transferred(index))
    BY <1>3 DEF EnginesAgree, Transferred
  <1>6. slave.crcErrors = slave.txFailed
    BY <1>1, <1>2, <1>4
  <1> QED BY <1>1, <1>2, <1>4, <1>5, <1>6

LEMMA SlaveUnsaturated ==
  ASSUME TypeOK, AgreeInv, ~inTransfer, index < profile.count
  PROVE  Unsaturated(slave)
PROOF
  <1>1. profile.count \in 0 .. U32Max /\ index \in Nat /\ U32Max \in Nat \ {0}
    BY Facts, U32MaxAssumption DEF ProfileType
  <1>2. slave.txOk + slave.txFailed = Cardinality(Transferred(index))
        /\ Cardinality(Transferred(index)) <= index
        /\ Cardinality(Transferred(index)) \in Nat
    BY <1>1, SlaveNumbers, TransferredCount
  <1> QED BY <1>1, <1>2, SlaveNumbers DEF AgreeInv, Unsaturated

\* The invariant, from the numbers it relates.
LEMMA AgreeFrom ==
  ASSUME NEW k \in Nat, k = Cardinality(accepted),
         slave.txOk = k, slave.bytes = PacketSize * k,
         slave.txFailed \in Nat, slave.crcErrors = slave.txFailed,
         slave.txOk + slave.txFailed
           = (IF inTransfer THEN 1 ELSE 0) + Cardinality(Transferred(index)),
         slave.timeouts = 0, host.txFailed \in Nat,
         inTransfer => ~FaultTimeout(index),
         accepted \subseteq 0 .. (IF inTransfer THEN index ELSE index - 1),
         slave.crcErrors <= host.txFailed
           + (IF inTransfer /\ ~Acknowledged(reply) THEN 1 ELSE 0)
  PROVE  AgreeInv
PROOF
  <1>1. slave.crcErrors = Rejections
    BY DEF Rejections
  <1>2. slave.txOk + slave.txFailed
          = (IF inTransfer THEN 1 ELSE 0)
            + Cardinality({i \in 0 .. index - 1 : ~FaultTimeout(i)})
    BY DEF Transferred
  <1>3. ~inTransfer => slave.crcErrors <= host.txFailed
    OBVIOUS
  <1> QED BY <1>1, <1>2, <1>3 DEF AgreeInv, EnginesAgree

LEMMA AgreeInit == Init => AgreeInv
PROOF
  <1> SUFFICES ASSUME Init PROVE AgreeInv
    OBVIOUS
  <1>1. /\ accepted = {} /\ index = 0 /\ inTransfer = FALSE
        /\ slave.txOk = 0 /\ slave.txFailed = 0 /\ slave.crcErrors = 0
        /\ slave.bytes = 0 /\ slave.timeouts = 0 /\ host.txFailed = 0
    BY DEF Init, NoCounts
  <1>2. Transferred(index) = {}
    BY <1>1 DEF Transferred
  <1>3. Cardinality({}) = 0 /\ 0 \in Nat
    BY FS_EmptySet
  <1>4. PacketSize * 0 = 0
    <2>1. PacketSize \in Nat
      BY EngineAssumption, PacketSizeType DEF Init
    <2> QED BY <2>1
  <1>5. slave.txOk + slave.txFailed
          = (IF inTransfer THEN 1 ELSE 0) + Cardinality(Transferred(index))
    BY <1>1, <1>2, <1>3
  <1>6. slave.crcErrors <= host.txFailed
          + (IF inTransfer /\ ~Acknowledged(reply) THEN 1 ELSE 0)
    BY <1>1
  <1> QED BY <1>1, <1>3, <1>4, <1>5, <1>6, AgreeFrom

\* A step that leaves the slave alone and concludes a transaction.
LEMMA ConcludedKeepsAgreement ==
  ASSUME EngineInv, CountersInv, AgreeInv, NEW s \in SampleType, Concluded(s),
         inTransfer' = FALSE, UNCHANGED <<slave, accepted>>,
         inTransfer <=> ~FaultTimeout(index),
         inTransfer /\ ~Acknowledged(reply) => s.status # "ok",
         TypeOK'
  PROVE  AgreeInv'
PROOF
  <1>1. TypeOK
    BY DEF EngineInv
  <1>2. index' = index + 1 /\ index \in Nat /\ profile' = profile
    BY <1>1, Facts DEF Concluded
  <1>3. host.txFailed \in Nat /\ host'.txFailed \in Nat
    BY <1>1 DEF TypeOK, Counts
  <1>4. /\ host'.txFailed >= host.txFailed
        /\ s.status # "ok" => host'.txFailed = host.txFailed + 1
    <2>1. s.status \in {"ok", "timeout", "rejected"} /\ Counted(s)
      BY DEF Concluded, SampleType, SampleStatuses
    <2> QED BY <1>3, <2>1 DEF Counted, Gains
  <1> DEFINE k == Cardinality(accepted)
  <1>5. /\ k \in Nat /\ slave.txOk = k /\ slave.bytes = PacketSize * k
        /\ slave.txFailed \in Nat /\ slave.crcErrors = slave.txFailed
        /\ slave.txOk + slave.txFailed
             = (IF inTransfer THEN 1 ELSE 0) + Cardinality(Transferred(index))
    BY <1>1, SlaveNumbers
  <1>6. /\ Transferred(index)' = Transferred(index + 1)
        /\ PacketSize' = PacketSize
    <2>1. \A i : FaultTimeout(i)' <=> FaultTimeout(i)
      BY <1>2 DEF FaultTimeout, EveryNth
    <2>2. Transferred(index)' = {i \in 0 .. index' - 1 : ~FaultTimeout(i)'}
      BY DEF Transferred
    <2>3. Transferred(index)' = Transferred(index + 1)
      BY <1>2, <2>1, <2>2 DEF Transferred
    <2> QED BY <1>2, <2>3 DEF PacketSize
  <1>7. (IF inTransfer THEN 1 ELSE 0) + Cardinality(Transferred(index))
          = Cardinality(Transferred(index + 1))
    BY <1>2, TransferredCount
  <1>8. accepted' \subseteq 0 .. index' - 1
    BY <1>2 DEF AgreeInv
  <1>9. slave'.crcErrors <= host'.txFailed
    BY <1>3, <1>4, <1>5 DEF AgreeInv
  <1> HIDE DEF k
  <1>10. slave.timeouts = 0 /\ k = Cardinality(accepted)
    BY DEF AgreeInv, k
  <1>11. slave'.txOk + slave'.txFailed = 0 + Cardinality(Transferred(index)')
    <2>1. Cardinality(Transferred(index + 1)) \in Nat
      BY <1>2, TransferredCount
    <2> QED BY <1>5, <1>6, <1>7, <2>1
  <1> QED BY <1>3, <1>5, <1>6, <1>8, <1>9, <1>10, <1>11
    DEF AgreeInv, EnginesAgree, Rejections, Transferred

\* A transfer is counted by the slave, as accepted or as an error that the host
\* has not failed yet.
LEMMA TransferKeepsAgreement ==
  ASSUME EngineInv, AgreeInv, Transfer
  PROVE  AgreeInv'
PROOF
  <1>1. TypeOK
    BY DEF EngineInv
  <1>2. TypeOK'
    BY TransferKeeps DEF EngineInv
  <1>3. PICK step \in LinkSteps : SimTransfer(step, FrameSent)
    BY DEF Transfer
  <1>4. /\ inTransfer = FALSE /\ inTransfer' = TRUE /\ index < profile.count
        /\ ~FaultTimeout(index) /\ UNCHANGED <<profile, index, host>>
    BY <1>1 DEF Transfer, BeginTransfer, Begin, TransactionBudget, TypeOK
  <1> DEFINE intact == FrameSent.intact /\ step.whole
  <1>5. /\ SlaveOnTransaction(intact, index)
        /\ reply'.frame = NoResponse \/ reply'.frame = response'
    BY <1>3 DEF SimTransfer, FrameSent
  <1>6. intact \in BOOLEAN /\ index \in Nat
    BY <1>1, Facts, LinkStepType DEF FrameSent
  <1> HIDE DEF intact
  <1>7. Unsaturated(slave)
    BY <1>1, <1>4, SlaveUnsaturated
  <1>8. /\ intact => /\ Gains(slave, slave', 1, 0, 0, 0)
                     /\ slave'.bytes = slave.bytes + PacketSize
                     /\ accepted' = accepted \cup {index}
        /\ ~intact => /\ Gains(slave, slave', 0, 1, 1, 0)
                      /\ slave'.bytes = slave.bytes
                      /\ accepted' = accepted /\ response'.ack = "crc_error"
    BY <1>1, <1>5, <1>6, <1>7, SlaveGains
  <1> DEFINE k == Cardinality(accepted)
             x == Cardinality(Transferred(index))
  <1>9. /\ k \in Nat /\ IsFiniteSet(accepted) /\ slave.txOk = k
        /\ slave.bytes = PacketSize * k /\ slave.txFailed \in Nat
        /\ slave.crcErrors = slave.txFailed /\ slave.txOk + slave.txFailed = x
    <2>1. x \in Nat
      BY <1>6, TransferredCount
    <2> QED BY <1>1, <1>4, <2>1, SlaveNumbers
  <1>10. index \notin accepted /\ accepted \subseteq 0 .. index - 1
    BY <1>4, <1>6 DEF AgreeInv
  <1>11. /\ accepted' \subseteq 0 .. index
         /\ Cardinality(accepted') = IF intact THEN k + 1 ELSE k
    <2>1. Cardinality(accepted \cup {index}) = k + 1
      BY <1>9, <1>10, FS_AddElement
    <2>2. accepted' \subseteq 0 .. index
      <3>1. accepted' = accepted \cup {index} \/ accepted' = accepted
        BY <1>6, <1>8
      <3>2. index \in 0 .. index /\ 0 .. index - 1 \subseteq 0 .. index
        BY <1>6
      <3> QED BY <1>10, <3>1, <3>2
    <2> QED BY <1>6, <1>8, <2>1, <2>2
  <1>12. /\ Transferred(index)' = Transferred(index) /\ PacketSize' = PacketSize
         /\ FaultTimeout(index)' <=> FaultTimeout(index)
    <2>1. \A i : FaultTimeout(i)' <=> FaultTimeout(i)
      BY <1>4 DEF FaultTimeout, EveryNth
    <2>2. Transferred(index)' = {i \in 0 .. index' - 1 : ~FaultTimeout(i)'}
      BY DEF Transferred
    <2>3. Transferred(index)' = Transferred(index)
      BY <1>4, <2>1, <2>2 DEF Transferred
    <2>4. FaultTimeout(index)' <=> FaultTimeout(index)
      BY <1>4 DEF FaultTimeout, EveryNth
    <2> QED BY <1>4, <2>3, <2>4 DEF PacketSize
  <1>13. slave.crcErrors <= host.txFailed /\ host.txFailed \in Nat
         /\ slave.timeouts = 0 /\ PacketSize \in Nat /\ x \in Nat
    BY <1>1, <1>4, <1>6, Facts, TransferredCount
    DEF AgreeInv, EnginesAgree, TypeOK, Counts
  <1>14. ~intact => ~Acknowledged(reply)'
    BY <1>5, <1>8 DEF Acknowledged, NoResponse
  <1>15. PacketSize * (k + 1) = PacketSize * k + PacketSize
    BY <1>9, <1>13
  <1> HIDE DEF k, x
  <1>16. host'.txFailed = host.txFailed
    BY <1>4
  <1>17. CASE intact
    <2>1. /\ slave'.txOk = k + 1 /\ slave'.bytes = PacketSize' * (k + 1)
          /\ slave'.txFailed = slave.txFailed
          /\ slave'.crcErrors = slave'.txFailed /\ slave'.timeouts = 0
          /\ Cardinality(accepted') = k + 1
      BY <1>8, <1>9, <1>11, <1>12, <1>13, <1>15, <1>17 DEF Gains
    <2>2. slave'.txOk + slave'.txFailed = 1 + Cardinality(Transferred(index)')
      BY <1>9, <1>12, <2>1 DEF x
    <2>3. slave'.crcErrors <= host'.txFailed
      BY <1>9, <1>13, <1>16, <2>1
    <2> QED BY <1>4, <1>9, <1>11, <1>12, <1>13, <1>16, <2>1, <2>2, <2>3
      DEF AgreeInv, EnginesAgree, Rejections, Transferred
  <1>18. CASE ~intact
    <2>1. /\ slave'.txOk = k /\ slave'.bytes = PacketSize' * k
          /\ slave'.txFailed = slave.txFailed + 1
          /\ slave'.crcErrors = slave'.txFailed /\ slave'.timeouts = 0
          /\ Cardinality(accepted') = k
      BY <1>8, <1>9, <1>11, <1>12, <1>13, <1>18 DEF Gains
    <2>2. slave'.txOk + slave'.txFailed = 1 + Cardinality(Transferred(index)')
      BY <1>9, <1>12, <2>1 DEF x
    <2>3. slave'.crcErrors <= host'.txFailed + 1
      BY <1>9, <1>13, <1>16, <2>1
    <2> QED BY <1>4, <1>9, <1>11, <1>12, <1>13, <1>14, <1>16, <2>1, <2>2, <2>3
      DEF AgreeInv, EnginesAgree, Rejections, Transferred
  <1> QED BY <1>6, <1>17, <1>18

LEMMA AgreeNext ==
  EngineInv /\ CountersInv /\ AgreeInv /\ [Next]_vars => AgreeInv'
PROOF
  <1> SUFFICES ASSUME EngineInv, CountersInv, AgreeInv, [Next]_vars
               PROVE  AgreeInv'
    OBVIOUS
  <1>1. TypeOK /\ TypeOK'
    BY StepKeeps DEF EngineInv
  <1>2. CASE UNCHANGED vars
    BY <1>2
    DEF AgreeInv, EnginesAgree, Rejections, PacketSize, FaultTimeout, EveryNth,
        Acknowledged, vars, hostVars, slaveVars
  <1>3. CASE DeclaredTimeout
    <2>1. PICK s \in SampleType : Concluded(s)
      BY <1>1, <1>3, DeclaredTimeoutConcludes
    <2>2. /\ inTransfer = FALSE /\ inTransfer' = FALSE /\ FaultTimeout(index)
          /\ UNCHANGED <<slave, accepted>>
      BY <1>1, <1>3 DEF DeclaredTimeout, Begin, slaveVars, TypeOK
    <2> QED BY <1>1, <2>1, <2>2, ConcludedKeepsAgreement
  <1>4. CASE Conclude
    <2>1. PICK s \in SampleType :
            Concluded(s) /\ (s.status = "ok" => Acknowledged(reply))
      BY <1>4, ConcludeConcludes
    <2>2. /\ inTransfer /\ inTransfer' = FALSE /\ ~FaultTimeout(index)
          /\ UNCHANGED <<slave, accepted>>
      BY <1>4 DEF Conclude, ConcludeTransfer, slaveVars, AgreeInv
    <2> QED BY <1>1, <2>1, <2>2, ConcludedKeepsAgreement
  <1> QED BY <1>2, <1>3, <1>4, TransferKeepsAgreement DEF Next

\* engine.c:47-86 and 178-290: the two ends agree on what crossed the link, and
\* every frame the slave rejected is one of the host's failures.
THEOREM EnginesAlwaysAgree == Spec => []EnginesAgree
PROOF
  <1>1. Spec => []AgreeInv
    BY AgreeInit, AgreeNext, InvariantHolds, CountersHold, PTL DEF Spec
  <1>2. AgreeInv => EnginesAgree
    BY DEF AgreeInv
  <1> QED BY <1>1, <1>2, PTL

=============================================================================
