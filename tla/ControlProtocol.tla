--------------------------- MODULE ControlProtocol --------------------------
(***************************************************************************)
(* The payloads of the control protocol (portable/protocol): the commands  *)
(* a console sends and the report of the raw counters, octet by octet.     *)
(* There is no state: a message is encoded or decoded in one call.         *)
(***************************************************************************)
EXTENDS Integers, Sequences

CONSTANTS
  OctetMod,      \* 256; a small value keeps the messages few
  ProfileIdMax   \* BENCH_PROFILE_ID_MAX, 32

\* An argument's length fits one octet, and so does a command's type.
ASSUME ProtocolAssumption ==
  /\ OctetMod \in Nat /\ OctetMod > 6
  /\ ProfileIdMax \in Nat \ {0} /\ ProfileIdMax < OctetMod

Octets == 0 .. OctetMod - 1

-----------------------------------------------------------------------------
(* Commands.                                                               *)

Unknown       == 0
SelectProfile == 1
CommandTypes  == 1 .. 6      \* SELECT_PROFILE to GET_CAPABILITIES

\* bench_cmd_t: the profile's identifier is empty but for SELECT_PROFILE.
Command(type, id) == [type |-> type, profileId |-> id]

NoCommand == Command(Unknown, <<>>)

Commands ==
  {Command(type, <<>>) : type \in CommandTypes \ {SelectProfile}}
  \cup {Command(SelectProfile, id) :
          id \in UNION {[1 .. n -> Octets] : n \in 1 .. ProfileIdMax}}

\* cmd_type_known
CmdTypeKnown(type) == type \in CommandTypes

ProfileIdFits(length) == length \in 1 .. ProfileIdMax

\* What a refused encoding returns: the -1 of the code.
Refused == <<>>

\* bench_protocol_encode_cmd, into a buffer of "cap" octets: an identifier
\* that is absent or too long is refused, never cut.
EncodeCmd(cmd, cap) ==
  LET id == IF cmd.type = SelectProfile THEN cmd.profileId ELSE <<>>
  IN  IF \/ cmd.type = SelectProfile /\ ~ProfileIdFits(Len(id))
         \/ cap < 2 + Len(id)
        THEN Refused
        ELSE <<cmd.type, Len(id)>> \o id

Rejected(status) == [status |-> status, cmd |-> NoCommand]

\* bench_protocol_decode_cmd: the checks in their order.
DecodeCmd(m) ==
  IF Len(m) < 2 THEN Rejected("truncated")
  ELSE IF 2 + m[2] # Len(m) THEN Rejected("bad_length")
  ELSE IF ~CmdTypeKnown(m[1]) THEN Rejected("unknown_cmd")
  ELSE IF m[1] # SelectProfile
         THEN IF m[2] = 0 THEN [status |-> "ok", cmd |-> Command(m[1], <<>>)]
                          ELSE Rejected("bad_length")
  ELSE IF ~ProfileIdFits(m[2]) THEN Rejected("bad_arg")
  ELSE [status |-> "ok", cmd |-> Command(m[1], SubSeq(m, 3, Len(m)))]

-----------------------------------------------------------------------------
(* wire.h: unsigned integers, the most significant octet first.  A value   *)
(* that does not fit loses its most significant octets.                    *)

PutU16(v) == <<(v \div OctetMod) % OctetMod, v % OctetMod>>
GetU16(o) == o[1] * OctetMod + o[2]

U16Mod == OctetMod * OctetMod

PutU32(v) == PutU16(v \div U16Mod) \o PutU16(v % U16Mod)
GetU32(o) == GetU16(SubSeq(o, 1, 2)) * U16Mod + GetU16(SubSeq(o, 3, 4))

U32Mod == U16Mod * U16Mod

PutU64(v) == PutU32(v \div U32Mod) \o PutU32(v % U32Mod)
GetU64(o) == GetU32(SubSeq(o, 1, 4)) * U32Mod + GetU32(SubSeq(o, 5, 8))

-----------------------------------------------------------------------------
(* The report of the raw counters: seven u32 and three u64.                *)

CountersWireSize == 7 * 4 + 3 * 8

\* Mutant: latency_samples stands where bench_counters_t has it, last.
EncodeCountersByField(c) ==
  PutU32(c.txOk) \o PutU32(c.txFailed) \o PutU32(c.crcErrors)
    \o PutU32(c.timeouts) \o PutU32(c.irqs) \o PutU32(c.resets)
    \o PutU64(c.bytes) \o PutU64(c.latencySum) \o PutU64(c.latencyMax)
    \o PutU32(c.latencySamples)

\* bench_protocol_encode_counters, into a buffer that is large enough.
EncodeCounters(c) ==
  PutU32(c.txOk) \o PutU32(c.txFailed) \o PutU32(c.crcErrors)
    \o PutU32(c.timeouts) \o PutU32(c.irqs) \o PutU32(c.resets)
    \o PutU32(c.latencySamples)
    \o PutU64(c.bytes) \o PutU64(c.latencySum) \o PutU64(c.latencyMax)

\* bench_protocol_decode_counters
DecodeCounters(o) ==
  LET U32At(k) == GetU32(SubSeq(o, k, k + 3))
      U64At(k) == GetU64(SubSeq(o, k, k + 7))
  IN  IF Len(o) # CountersWireSize THEN [status |-> "bad_length"]
      ELSE [status |-> "ok",
            counters |->
              [txOk |-> U32At(1), txFailed |-> U32At(5), crcErrors |-> U32At(9),
               timeouts |-> U32At(13), irqs |-> U32At(17),
               resets |-> U32At(21), latencySamples |-> U32At(25),
               bytes |-> U64At(29), latencySum |-> U64At(37),
               latencyMax |-> U64At(45)]]

-----------------------------------------------------------------------------
(* Properties.                                                             *)

\* protocol.h:53-57: a message is a command in one way only.  Whatever octets
\* arrive, a message that is accepted is, to the last octet, the encoding of the
\* command it is taken for: nothing is cut, ignored or read twice; and every
\* command arrives as it was sent.
CommandIsItsMessage(m) ==
  LET d == DecodeCmd(m)
  IN  IF d.status = "ok"
        THEN d.cmd \in Commands /\ EncodeCmd(d.cmd, Len(m)) = m
        ELSE d.cmd = NoCommand

CommandArrives(c) ==
  \A cap \in 0 .. 3 + ProfileIdMax :
    LET m == EncodeCmd(c, cap)
    IN  m # Refused => DecodeCmd(m) = [status |-> "ok", cmd |-> c]

Messages == UNION {[1 .. n -> Octets] : n \in 0 .. ProfileIdMax + 3}

\* Both, for every short message and every command.  No variable is involved:
\* TLC evaluates it once, as an assumption of the boards' instances.
CommandsExact ==
  /\ \A m \in Messages : CommandIsItsMessage(m)
  /\ \A c \in Commands : CommandArrives(c)

=============================================================================
