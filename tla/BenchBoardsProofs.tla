-------------------------- MODULE BenchBoardsProofs -------------------------
(***************************************************************************)
(* Proofs about BenchBoards: for every profile, every wiring, every bound  *)
(* and every interleaving of the two boards.                               *)
(*                                                                         *)
(* An acknowledgement moves: the slave prepares it, loads it, an exchange  *)
(* takes it, and the host counts it for the transaction of that exchange.  *)
(* The inductive invariant says that it exists once, wherever it is, and   *)
(* that it was earned before the exchange that takes it.                   *)
(*                                                                         *)
(* First, what the messages of the control protocol guarantee, for octets  *)
(* of any width, identifiers of any length and messages of any length.     *)
(***************************************************************************)
EXTENDS BenchBoards, BenchEngineProofs

-----------------------------------------------------------------------------
(* Commands.                                                               *)

\* The two messages the decoder accepts.
Bare(m) ==
  /\ Len(m) = 2 /\ m[2] = 0
  /\ m[1] \in CommandTypes \ {SelectProfile}

Selects(m) ==
  /\ m[1] = SelectProfile
  /\ m[2] \in 1 .. ProfileIdMax /\ Len(m) = 2 + m[2]

LEMMA DecodeBare ==
  ASSUME NEW m, Bare(m)
  PROVE  DecodeCmd(m) = [status |-> "ok", cmd |-> Command(m[1], <<>>)]
  BY DEF Bare, DecodeCmd, CmdTypeKnown

LEMMA DecodeSelects ==
  ASSUME NEW m, Selects(m)
  PROVE  DecodeCmd(m) = [status |-> "ok",
                         cmd |-> Command(SelectProfile, SubSeq(m, 3, Len(m)))]
PROOF
  <1>1. m[2] >= 1 /\ m[2] \in Int
    BY ProtocolAssumption DEF Selects
  <1> QED BY <1>1 DEF Selects, DecodeCmd, CmdTypeKnown, ProfileIdFits,
                      SelectProfile, CommandTypes

LEMMA DecodeRejects ==
  ASSUME NEW m \in Seq(Octets), ~Bare(m), ~Selects(m)
  PROVE  DecodeCmd(m).status # "ok" /\ DecodeCmd(m).cmd = NoCommand
PROOF
  <1>1. Len(m) \in Nat /\ (Len(m) >= 2 => m[1] \in Int /\ m[2] \in Int)
    BY ProtocolAssumption DEF Octets
  <1>2. \/ DecodeCmd(m) = Rejected("truncated")
        \/ DecodeCmd(m) = Rejected("bad_length")
        \/ DecodeCmd(m) = Rejected("unknown_cmd")
        \/ DecodeCmd(m) = Rejected("bad_arg")
    <2>1. CASE Len(m) < 2 \/ 2 + m[2] # Len(m) \/ m[1] \notin CommandTypes
      BY <2>1 DEF DecodeCmd, CmdTypeKnown
    <2>2. CASE /\ Len(m) >= 2 /\ 2 + m[2] = Len(m) /\ m[1] \in CommandTypes
               /\ m[1] # SelectProfile
      <3>1. m[2] # 0
        <4>1. SUFFICES ASSUME m[2] = 0 PROVE Bare(m)
          OBVIOUS
        <4>2. Len(m) = 2
          BY <2>2, <4>1
        <4> QED BY <2>2, <4>1, <4>2 DEF Bare
      <3> QED BY <1>1, <2>2, <3>1 DEF DecodeCmd, CmdTypeKnown
    <2>3. CASE /\ Len(m) >= 2 /\ 2 + m[2] = Len(m) /\ m[1] \in CommandTypes
               /\ m[1] = SelectProfile
      <3>1. ~ProfileIdFits(m[2])
        BY <1>1, <2>3 DEF Selects, ProfileIdFits
      <3> QED BY <1>1, <2>3, <3>1 DEF DecodeCmd, CmdTypeKnown
    <2> QED BY <1>1, <2>1, <2>2, <2>3
  <1> QED BY <1>2 DEF Rejected

\* protocol.h:53-57: a message that is refused leaves no command behind; one
\* that is accepted is the encoding of the command it is taken for.
THEOREM MessageIsItsCommand ==
  ASSUME NEW m \in Seq(Octets)
  PROVE  CommandIsItsMessage(m)
PROOF
  <1>1. CASE ~Bare(m) /\ ~Selects(m)
    BY <1>1, DecodeRejects DEF CommandIsItsMessage
  <1>2. CASE Bare(m)
    <2>1. EncodeCmd(Command(m[1], <<>>), Len(m)) = <<m[1], 0>> \o <<>>
      BY <1>2 DEF Bare, EncodeCmd, Command
    <2>2. <<m[1], 0>> \o <<>> = m
      BY <1>2 DEF Bare
    <2>3. Command(m[1], <<>>) \in Commands
      BY <1>2 DEF Bare, Commands
    <2> QED BY <1>2, <2>1, <2>2, <2>3, DecodeBare DEF CommandIsItsMessage
  <1>3. CASE Selects(m)
    <2> DEFINE id == SubSeq(m, 3, Len(m))
    <2>1. ProfileIdMax \in Nat /\ m[2] \in 1 .. ProfileIdMax
          /\ Len(m) = 2 + m[2] /\ m[1] = SelectProfile
      BY <1>3, ProtocolAssumption DEF Selects
    <2>2. /\ id \in Seq(Octets) /\ Len(id) = m[2]
          /\ \A k \in 1 .. m[2] : id[k] = m[k + 2]
      BY <2>1
    <2> HIDE DEF id
    <2>3. id \in [1 .. m[2] -> Octets]
      BY <2>2
    <2>4. Command(SelectProfile, id) \in Commands
      BY <2>1, <2>3 DEF Commands
    <2>5. EncodeCmd(Command(SelectProfile, id), Len(m))
            = <<SelectProfile, m[2]>> \o id
      BY <2>1, <2>2 DEF EncodeCmd, Command, ProfileIdFits
    <2>6. <<SelectProfile, m[2]>> \o id = m
      BY <2>1, <2>2
    <2>7. DecodeCmd(m) = [status |-> "ok", cmd |-> Command(SelectProfile, id)]
      BY <1>3, DecodeSelects DEF id
    <2> QED BY <2>4, <2>5, <2>6, <2>7 DEF CommandIsItsMessage
  <1> QED BY <1>1, <1>2, <1>3

\* What is encoded without a refusal.
LEMMA EncodeBare ==
  ASSUME NEW type \in CommandTypes \ {SelectProfile}, NEW cap,
         EncodeCmd(Command(type, <<>>), cap) # Refused
  PROVE  EncodeCmd(Command(type, <<>>), cap) = <<type, 0>>
PROOF
  <1>1. EncodeCmd(Command(type, <<>>), cap) = <<type, 0>> \o <<>>
    BY DEF EncodeCmd, Command
  <1> QED BY <1>1

LEMMA EncodeSelects ==
  ASSUME NEW id, NEW cap, EncodeCmd(Command(SelectProfile, id), cap) # Refused
  PROVE  EncodeCmd(Command(SelectProfile, id), cap)
           = <<SelectProfile, Len(id)>> \o id
  BY DEF EncodeCmd, Command

\* A command that fits the buffer arrives as it was sent.
THEOREM EveryCommandArrives ==
  ASSUME NEW c \in Commands
  PROVE  CommandArrives(c)
PROOF
  <1>1. SUFFICES ASSUME NEW cap \in 0 .. 3 + ProfileIdMax,
                        EncodeCmd(c, cap) # Refused
                 PROVE  DecodeCmd(EncodeCmd(c, cap))
                          = [status |-> "ok", cmd |-> c]
    BY DEF CommandArrives
  <1>2. CASE \E type \in CommandTypes \ {SelectProfile} : c = Command(type, <<>>)
    <2>1. PICK type \in CommandTypes \ {SelectProfile} : c = Command(type, <<>>)
      BY <1>2
    <2>2. EncodeCmd(c, cap) = <<type, 0>>
      BY <1>1, <2>1, EncodeBare
    <2>3. Bare(<<type, 0>>)
      BY DEF Bare
    <2> QED BY <2>1, <2>2, <2>3, DecodeBare
  <1>3. CASE \E n \in 1 .. ProfileIdMax : \E id \in [1 .. n -> Octets] :
               c = Command(SelectProfile, id)
    <2>1. PICK n \in 1 .. ProfileIdMax : \E i \in [1 .. n -> Octets] :
            c = Command(SelectProfile, i)
      BY <1>3
    <2>2. PICK id \in [1 .. n -> Octets] : c = Command(SelectProfile, id)
      BY <2>1
    <2>3. n \in 1 .. ProfileIdMax /\ n \in Nat
          /\ id \in Seq(Octets) /\ id \in Seq(Int) /\ Len(id) = n
      BY <2>2, ProtocolAssumption DEF Octets
    <2> DEFINE m == <<SelectProfile, n>> \o id
    <2>4. EncodeCmd(c, cap) = m
      BY <1>1, <2>2, <2>3, EncodeSelects
    <2>5. /\ Len(m) = 2 + n /\ m[1] = SelectProfile /\ m[2] = n
          /\ \A k \in 1 .. n : m[k + 2] = id[k]
          /\ m \in Seq(Int)
      BY <2>3 DEF SelectProfile
    <2> HIDE DEF m
    <2>6. SubSeq(m, 3, Len(m)) = id
      <3>1. /\ SubSeq(m, 3, Len(m)) \in Seq(Int)
            /\ Len(SubSeq(m, 3, Len(m))) = n
            /\ \A k \in 1 .. n : SubSeq(m, 3, Len(m))[k] = id[k]
        BY <2>3, <2>5
      <3> QED BY <2>3, <3>1
    <2>7. Selects(m)
      BY <2>3, <2>5 DEF Selects
    <2> QED BY <2>2, <2>4, <2>6, <2>7, DecodeSelects
  <1> QED BY <1>2, <1>3 DEF Commands

\* Both, over the messages and commands the runs enumerate.
THEOREM CommandsAreExact == CommandsExact
PROOF
  <1>1. \A m \in Messages : m \in Seq(Octets)
    BY ProtocolAssumption DEF Messages
  <1> QED BY <1>1, MessageIsItsCommand, EveryCommandArrives DEF CommandsExact

-----------------------------------------------------------------------------
(* Integers on the wire.                                                   *)

\* Euclidean division, as the provers need it.
LEMMA NaturalDivision ==
  ASSUME NEW a \in Nat, NEW b \in Nat \ {0}
  PROVE  /\ a % b \in 0 .. b - 1
         /\ a = b * (a \div b) + (a % b)
         /\ a \div b \in Nat
  OBVIOUS

LEMMA QuotientBound ==
  ASSUME NEW b \in Nat \ {0}, NEW c \in Nat \ {0}, NEW a \in 0 .. b * c - 1
  PROVE  a \div b \in 0 .. c - 1
PROOF
  <1> DEFINE q == a \div b
             r == a % b
  <1>1. b * c \in Nat /\ a \in Nat
    OBVIOUS
  <1>2. q \in Nat /\ r \in 0 .. b - 1 /\ a = b * q + r
    BY <1>1, NaturalDivision
  <1> HIDE DEF q, r
  <1>3. ASSUME q >= c PROVE FALSE
    <2>1. b * q >= b * c
      BY <1>2, <1>3
    <2> QED BY <1>1, <1>2, <2>1
  <1>4. q \in 0 .. c - 1
    BY <1>2, <1>3
  <1> QED BY <1>4 DEF q

LEMMA SmallRemainder ==
  ASSUME NEW b \in Nat \ {0}, NEW a \in 0 .. b - 1
  PROVE  a % b = a
  OBVIOUS

LEMMA Moduli ==
  /\ OctetMod \in Nat \ {0} /\ U16Mod \in Nat \ {0} /\ U32Mod \in Nat \ {0}
  /\ U16Mod = OctetMod * OctetMod /\ U32Mod = U16Mod * U16Mod
  BY ProtocolAssumption DEF U16Mod, U32Mod

\* wire.h:14-17 and 31-33.
THEOREM U16RoundTrip ==
  ASSUME NEW v \in 0 .. U16Mod - 1
  PROVE  /\ PutU16(v) \in Seq(Octets) /\ Len(PutU16(v)) = 2
         /\ GetU16(PutU16(v)) = v
PROOF
  <1>1. v \in Nat /\ v \div OctetMod \in 0 .. OctetMod - 1
    BY Moduli, QuotientBound
  <1>2. (v \div OctetMod) % OctetMod = v \div OctetMod
    BY <1>1, Moduli, SmallRemainder
  <1>3. /\ v % OctetMod \in 0 .. OctetMod - 1
        /\ v = OctetMod * (v \div OctetMod) + (v % OctetMod)
    BY <1>1, Moduli, NaturalDivision
  <1> DEFINE h == v \div OctetMod
             l == v % OctetMod
  <1>4. PutU16(v) = <<h, l>>
    BY <1>2 DEF PutU16
  <1>5. h \in Octets /\ l \in Octets /\ v = h * OctetMod + l
    BY <1>1, <1>3, Moduli DEF Octets
  <1> HIDE DEF h, l
  <1> QED BY <1>4, <1>5 DEF GetU16

\* A sequence begins with its first part and ends with its second.
LEMMA FirstPart ==
  ASSUME NEW s \in Seq(Octets), NEW t \in Seq(Octets)
  PROVE  /\ s \o t \in Seq(Octets) /\ Len(s \o t) = Len(s) + Len(t)
         /\ \A k \in 1 .. Len(s) : (s \o t)[k] = s[k]
         /\ \A k \in 1 .. Len(t) : (s \o t)[Len(s) + k] = t[k]
  OBVIOUS

LEMMA SameSequence ==
  ASSUME NEW s \in Seq(Octets), NEW t \in Seq(Octets), Len(s) = Len(t),
         \A k \in 1 .. Len(s) : s[k] = t[k]
  PROVE  s = t
  OBVIOUS

LEMMA ReadsPart ==
  ASSUME NEW m \in Seq(Octets), NEW t \in Seq(Octets), NEW o \in Nat,
         o + Len(t) <= Len(m), Len(t) > 0,
         \A k \in 1 .. Len(t) : m[o + k] = t[k]
  PROVE  SubSeq(m, o + 1, o + Len(t)) = t
PROOF
  <1> DEFINE u == SubSeq(m, o + 1, o + Len(t))
  <1>1. /\ u \in Seq(Octets) /\ Len(u) = Len(t)
        /\ \A k \in 1 .. Len(t) : u[k] = m[o + k]
    OBVIOUS
  <1> HIDE DEF u
  <1>2. u = t
    BY <1>1, SameSequence
  <1> QED BY <1>2 DEF u

\* Two halves, each read where it was put.
LEMMA Halves ==
  ASSUME NEW n \in Nat \ {0},
         NEW s \in Seq(Octets), NEW t \in Seq(Octets), Len(s) = n, Len(t) = n
  PROVE  /\ s \o t \in Seq(Octets) /\ Len(s \o t) = n + n
         /\ SubSeq(s \o t, 1, n) = s /\ SubSeq(s \o t, n + 1, n + n) = t
PROOF
  <1>1. /\ s \o t \in Seq(Octets) /\ Len(s \o t) = n + n
        /\ \A k \in 1 .. n : (s \o t)[0 + k] = s[k]
        /\ \A k \in 1 .. n : (s \o t)[n + k] = t[k]
    BY FirstPart
  <1>2. SubSeq(s \o t, 0 + 1, 0 + n) = s
    BY <1>1, ReadsPart
  <1>3. SubSeq(s \o t, n + 1, n + n) = t
    BY <1>1, ReadsPart
  <1> QED BY <1>1, <1>2, <1>3

LEMMA HalvesOfTwo ==
  ASSUME NEW s \in Seq(Octets), NEW t \in Seq(Octets), Len(s) = 2, Len(t) = 2
  PROVE  /\ s \o t \in Seq(Octets) /\ Len(s \o t) = 4
         /\ SubSeq(s \o t, 1, 2) = s /\ SubSeq(s \o t, 3, 4) = t
PROOF
  <1> DEFINE n == 2
  <1>1. n \in Nat \ {0} /\ Len(s) = n /\ Len(t) = n
        /\ n + 1 = 3 /\ n + n = 4
    OBVIOUS
  <1> HIDE DEF n
  <1>2. /\ s \o t \in Seq(Octets) /\ Len(s \o t) = n + n
        /\ SubSeq(s \o t, 1, n) = s /\ SubSeq(s \o t, n + 1, n + n) = t
    BY <1>1, Halves
  <1>3. /\ s \o t \in Seq(Octets) /\ Len(s \o t) = 4
        /\ SubSeq(s \o t, 1, n) = s /\ SubSeq(s \o t, 3, 4) = t
    BY <1>1, <1>2
  <1> QED BY <1>3 DEF n

LEMMA HalvesOfFour ==
  ASSUME NEW s \in Seq(Octets), NEW t \in Seq(Octets), Len(s) = 4, Len(t) = 4
  PROVE  /\ s \o t \in Seq(Octets) /\ Len(s \o t) = 8
         /\ SubSeq(s \o t, 1, 4) = s /\ SubSeq(s \o t, 5, 8) = t
PROOF
  <1> DEFINE n == 4
  <1>1. n \in Nat \ {0} /\ Len(s) = n /\ Len(t) = n
        /\ n + 1 = 5 /\ n + n = 8
    OBVIOUS
  <1> HIDE DEF n
  <1>2. /\ s \o t \in Seq(Octets) /\ Len(s \o t) = n + n
        /\ SubSeq(s \o t, 1, n) = s /\ SubSeq(s \o t, n + 1, n + n) = t
    BY <1>1, Halves
  <1>3. /\ s \o t \in Seq(Octets) /\ Len(s \o t) = 8
        /\ SubSeq(s \o t, 1, n) = s /\ SubSeq(s \o t, 5, 8) = t
    BY <1>1, <1>2
  <1> QED BY <1>3 DEF n

\* The two digits of a number below the square of the base.
LEMMA Digits ==
  ASSUME NEW b \in Nat \ {0}, NEW v \in 0 .. b * b - 1
  PROVE  /\ v \div b \in 0 .. b - 1 /\ v % b \in 0 .. b - 1
         /\ v = (v \div b) * b + (v % b)
PROOF
  <1>1. v \in Nat /\ v \div b \in 0 .. b - 1
    <2>1. b * b \in Nat
      OBVIOUS
    <2>2. v \in Nat
      BY <2>1
    <2>3. \A c \in Nat \ {0}, a \in Nat :
            a \in 0 .. b * c - 1 => a \div b \in 0 .. c - 1
      BY QuotientBound
    <2> QED BY <2>2, <2>3
  <1>2. v % b \in 0 .. b - 1 /\ v = b * (v \div b) + (v % b)
    BY <1>1, NaturalDivision
  <1> QED BY <1>1, <1>2

\* wire.h:19-24 and 35-38.
THEOREM U32RoundTrip ==
  ASSUME NEW v \in 0 .. U32Mod - 1
  PROVE  /\ PutU32(v) \in Seq(Octets) /\ Len(PutU32(v)) = 4
         /\ GetU32(PutU32(v)) = v
PROOF
  <1>1. v \in 0 .. U16Mod * U16Mod - 1 /\ U16Mod \in Nat \ {0}
    BY Moduli
  <1> DEFINE h == v \div U16Mod
             l == v % U16Mod
  <1>2. /\ h \in 0 .. U16Mod - 1 /\ l \in 0 .. U16Mod - 1
        /\ v = h * U16Mod + l
    BY <1>1, Digits
  <1>3. PutU32(v) = PutU16(h) \o PutU16(l)
    BY DEF PutU32
  <1> HIDE DEF h, l
  <1>4. /\ PutU16(h) \in Seq(Octets) /\ Len(PutU16(h)) = 2
        /\ PutU16(l) \in Seq(Octets) /\ Len(PutU16(l)) = 2
        /\ GetU16(PutU16(h)) = h /\ GetU16(PutU16(l)) = l
    BY <1>2, U16RoundTrip
  <1>5. /\ PutU32(v) \in Seq(Octets) /\ Len(PutU32(v)) = 4
        /\ SubSeq(PutU32(v), 1, 2) = PutU16(h)
        /\ SubSeq(PutU32(v), 3, 4) = PutU16(l)
    <2>1. LET m == PutU16(h) \o PutU16(l)
          IN  /\ m \in Seq(Octets) /\ Len(m) = 4
              /\ SubSeq(m, 1, 2) = PutU16(h) /\ SubSeq(m, 3, 4) = PutU16(l)
      BY <1>4, HalvesOfTwo
    <2> QED BY <1>3, <2>1
  <1>6. GetU32(PutU32(v)) = h * U16Mod + l
    BY <1>4, <1>5 DEF GetU32
  <1> QED BY <1>2, <1>5, <1>6

\* wire.h:26-29 and 40-42.
THEOREM U64RoundTrip ==
  ASSUME NEW v \in 0 .. U32Mod * U32Mod - 1
  PROVE  /\ PutU64(v) \in Seq(Octets) /\ Len(PutU64(v)) = 8
         /\ GetU64(PutU64(v)) = v
PROOF
  <1>1. v \in 0 .. U32Mod * U32Mod - 1 /\ U32Mod \in Nat \ {0}
    BY Moduli
  <1> DEFINE h == v \div U32Mod
             l == v % U32Mod
  <1>2. /\ h \in 0 .. U32Mod - 1 /\ l \in 0 .. U32Mod - 1
        /\ v = h * U32Mod + l
    BY <1>1, Digits
  <1>3. PutU64(v) = PutU32(h) \o PutU32(l)
    BY DEF PutU64
  <1> HIDE DEF h, l
  <1>4. /\ PutU32(h) \in Seq(Octets) /\ Len(PutU32(h)) = 4
        /\ PutU32(l) \in Seq(Octets) /\ Len(PutU32(l)) = 4
        /\ GetU32(PutU32(h)) = h /\ GetU32(PutU32(l)) = l
    BY <1>2, U32RoundTrip
  <1>5. /\ PutU64(v) \in Seq(Octets) /\ Len(PutU64(v)) = 8
        /\ SubSeq(PutU64(v), 1, 4) = PutU32(h)
        /\ SubSeq(PutU64(v), 5, 8) = PutU32(l)
    <2>1. LET m == PutU32(h) \o PutU32(l)
          IN  /\ m \in Seq(Octets) /\ Len(m) = 8
              /\ SubSeq(m, 1, 4) = PutU32(h) /\ SubSeq(m, 5, 8) = PutU32(l)
      BY <1>4, HalvesOfFour
    <2> QED BY <1>3, <2>1
  <1>6. GetU64(PutU64(v)) = h * U32Mod + l
    BY <1>4, <1>5 DEF GetU64
  <1> QED BY <1>2, <1>5, <1>6

-----------------------------------------------------------------------------
(* The boards.                                                             *)

Bit(b) == IF b THEN 1 ELSE 0

Frames == [seq : Nat, intact : BOOLEAN]

BoardsTypeOK ==
  /\ TypeOK
  /\ slavePc \in {"recv", "select", "transaction", "send"}
  /\ rx \in Frames
  /\ \A f \in mosi : f \in Frames /\ mosi = {f}
  /\ miso \in Responses

\* The last transaction whose frame left the host.
LastSent == IF inTransfer THEN index ELSE index - 1

\* The slave holds a frame it will accept.
Holding == slavePc \in {"select", "transaction"} /\ rx.intact

\* Frames keep their order: accepted, held, waiting in the receiver.
FramesInOrder ==
  /\ accepted \subseteq 0 .. LastSent
  /\ believed \subseteq 0 .. index - 1
  /\ Holding => rx.seq <= LastSent /\ \A a \in accepted : a < rx.seq
  /\ \A f \in mosi :
       /\ f.seq <= LastSent
       /\ \A a \in accepted : a < f.seq
       /\ Holding => rx.seq < f.seq

\* Each acknowledgement is in one place: believed by the host, in its hands,
\* loaded for the next exchange, or about to be loaded.
AnswersAreEarned ==
  Cardinality(believed) + Bit(inTransfer /\ Acknowledged(reply))
    + Bit(miso.ack = "ok") + Bit(slavePc = "send" /\ response.ack = "ok")
    <= Cardinality(accepted)

\* The one in the host's hands was earned before this exchange.
AnswerIsEarlier ==
  inTransfer /\ Acknowledged(reply) =>
    Cardinality(believed) + 1 <= Cardinality({j \in accepted : j < index})

CountersAreSets ==
  host.txOk = Cardinality(believed) /\ slave.txOk = Cardinality(accepted)

\* What the slave served, serves, and will serve was sent.
NothingInvented ==
  "slave" \in wired =>
    slave.txOk + slave.txFailed + Cardinality(mosi)
      + Bit(slavePc \in {"select", "transaction"}) <= index + Bit(inTransfer)

BoardsInv ==
  /\ BoardsTypeOK /\ InFlight /\ CountersInv
  /\ FramesInOrder /\ AnswersAreEarned /\ AnswerIsEarlier
  /\ CountersAreSets /\ NothingInvented /\ VerdictsAreLate

-----------------------------------------------------------------------------
(* Sets of transactions.                                                   *)

LEMMA SomeOf ==
  ASSUME NEW n \in Nat, NEW A, A \subseteq 0 .. n - 1
  PROVE  IsFiniteSet(A) /\ Cardinality(A) \in Nat /\ Cardinality(A) <= n
PROOF
  <1>1. 0 \in Int /\ n - 1 \in Int
    OBVIOUS
  <1>2. /\ IsFiniteSet(0 .. n - 1)
        /\ Cardinality(0 .. n - 1) = IF 0 > n - 1 THEN 0 ELSE (n - 1) - 0 + 1
    BY <1>1, FS_Interval
  <1>3. Cardinality(0 .. n - 1) = n
    BY <1>2
  <1> QED BY <1>2, <1>3, FS_Subset, FS_CardinalityType

LEMMA OneElementMore ==
  ASSUME NEW A, IsFiniteSet(A), NEW e, e \notin A
  PROVE  IsFiniteSet(A \cup {e}) /\ Cardinality(A \cup {e}) = Cardinality(A) + 1
  BY FS_AddElement

LEMMA PartOf ==
  ASSUME NEW B, IsFiniteSet(B), NEW A, A \subseteq B
  PROVE  IsFiniteSet(A) /\ Cardinality(A) <= Cardinality(B)
         /\ Cardinality(A) \in Nat /\ Cardinality(B) \in Nat
  BY FS_Subset, FS_CardinalityType

\* The receiver holds one frame or none.
LEMMA BoxSize ==
  ASSUME NEW box, \A f \in box : box = {f}
  PROVE  \/ box = {} /\ Cardinality(box) = 0
         \/ \E f \in box : box = {f} /\ Cardinality(box) = 1
PROOF
  <1>1. CASE box = {}
    BY <1>1, FS_EmptySet
  <1>2. CASE box # {}
    <2>1. PICK f \in box : box = {f}
      BY <1>2
    <2>2. Cardinality({f}) = 1
      BY FS_Singleton
    <2> QED BY <2>1, <2>2
  <1> QED BY <1>1, <1>2

LEMMA BitType ==
  ASSUME NEW b
  PROVE  Bit(b) \in {0, 1} /\ Bit(TRUE) = 1 /\ Bit(FALSE) = 0
  BY DEF Bit

\* What the invariant bounds is finite.
LEMMA Numbers ==
  ASSUME BoardsInv
  PROVE  /\ index \in Nat /\ profile.count \in Nat /\ index <= profile.count
         /\ profile.count <= U32Max
         /\ inTransfer => index < profile.count
         /\ IsFiniteSet(believed) /\ Cardinality(believed) \in Nat
         /\ IsFiniteSet(accepted) /\ Cardinality(accepted) \in Nat
         /\ slave.txOk \in Nat /\ slave.txFailed \in Nat
         /\ host.txOk \in Nat /\ LastSent \in Int
PROOF
  <1>1. TypeOK
    BY DEF BoardsInv, BoardsTypeOK
  <1>2. /\ index \in Nat /\ profile.count \in Nat /\ index <= profile.count
        /\ profile.count <= U32Max
    <2>1. profile \in ProfileType /\ profile.count \in Nat
      BY <1>1, Facts
    <2> QED BY <1>1, <2>1, U32MaxAssumption DEF TypeOK, ProfileType
  <1>3. inTransfer => index < profile.count
    BY DEF BoardsInv, InFlight
  <1>4. IsFiniteSet(believed) /\ Cardinality(believed) \in Nat
    BY <1>2, SomeOf DEF BoardsInv, FramesInOrder
  <1>5. IsFiniteSet(accepted) /\ Cardinality(accepted) \in Nat
    <2>1. accepted \subseteq 0 .. (index + 1) - 1
      BY <1>2 DEF BoardsInv, FramesInOrder, LastSent
    <2>2. index + 1 \in Nat
      BY <1>2
    <2> QED BY <2>1, <2>2, SomeOf
  <1>6. /\ slave.txOk \in Nat /\ slave.txFailed \in Nat /\ host.txOk \in Nat
    BY <1>1 DEF TypeOK, Counts
  <1> QED BY <1>2, <1>3, <1>4, <1>5, <1>6 DEF LastSent

\* A success already earned stays earned.
LEMMA LateStays ==
  ASSUME VerdictsAreLate, believed' = believed, IsFiniteSet(accepted'),
         accepted \subseteq accepted', IsFiniteSet(believed)
  PROVE  VerdictsAreLate'
PROOF
  <1> SUFFICES ASSUME NEW i \in believed
               PROVE  Cardinality({j \in believed : j <= i})
                        <= Cardinality({j \in accepted' : j < i})
    BY DEF VerdictsAreLate
  <1> DEFINE X == {j \in believed : j <= i}
             A == {j \in accepted : j < i}
             B == {j \in accepted' : j < i}
  <1>1. Cardinality(X) <= Cardinality(A)
    BY DEF VerdictsAreLate
  <1>2. A \subseteq B /\ B \subseteq accepted'
    OBVIOUS
  <1> HIDE DEF X, A, B
  <1>3. IsFiniteSet(B)
    BY <1>2, PartOf
  <1>4. Cardinality(A) <= Cardinality(B) /\ Cardinality(A) \in Nat
        /\ Cardinality(B) \in Nat
    BY <1>2, <1>3, PartOf
  <1>5. Cardinality(X) \in Nat
    BY PartOf DEF X
  <1> QED BY <1>1, <1>4, <1>5 DEF X, A, B

-----------------------------------------------------------------------------
(* The steps.                                                              *)

LEMMA BoardsInitInv == BoardsInit => BoardsInv
PROOF
  <1> SUFFICES ASSUME BoardsInit PROVE BoardsInv
    OBVIOUS
  <1>1. Init /\ HostReady /\ SlaveReady
    BY DEF BoardsInit
  <1>2. TypeOK /\ InFlight /\ CountersInv
    BY <1>1, InitInv, SeriesInit DEF EngineInv
  <1>3. /\ index = 0 /\ inTransfer = FALSE /\ accepted = {} /\ believed = {}
        /\ mosi = {} /\ slavePc = "recv" /\ miso = NoResponse /\ rx = NoFrame
        /\ host.txOk = 0 /\ slave.txOk = 0 /\ slave.txFailed = 0
    BY <1>1 DEF Init, HostReady, SlaveReady, NoCounts
  <1>4. BoardsTypeOK
    BY <1>2, <1>3 DEF BoardsTypeOK, NoFrame, Frames, NoResponse, Responses
  <1>5. FramesInOrder
    BY <1>3 DEF FramesInOrder, Holding
  <1>6. Cardinality({}) = 0
    BY FS_EmptySet
  <1>7. AnswersAreEarned /\ AnswerIsEarlier /\ CountersAreSets
    BY <1>3, <1>6
    DEF AnswersAreEarned, AnswerIsEarlier, CountersAreSets, Bit, NoResponse
  <1>8. NothingInvented /\ VerdictsAreLate
    BY <1>3, <1>6 DEF NothingInvented, VerdictsAreLate, Bit
  <1> QED BY <1>2, <1>4, <1>5, <1>7, <1>8 DEF BoardsInv

\* An exchange: what it returns was loaded before the frame it carries.
LEMMA HostTransferKeeps ==
  ASSUME BoardsInv, HostTransfer
  PROVE  BoardsInv'
PROOF
  <1>1. /\ BoardsTypeOK /\ TypeOK /\ InFlight /\ CountersInv /\ FramesInOrder
        /\ AnswersAreEarned /\ CountersAreSets /\ NothingInvented
        /\ VerdictsAreLate
    BY DEF BoardsInv, BoardsTypeOK
  <1>2. /\ ~inTransfer /\ inTransfer' = TRUE /\ index < profile.count
        /\ txn' = TxnBegin /\ events' = Append(events, "tx_begin")
        /\ UNCHANGED <<profile, index, host, samples, slave, response, accepted,
                       irqLine, wired, slavePc, rx, believed>>
    BY DEF HostTransfer, BeginTransfer, Begin, TransactionBudget, slaveVars,
           loopVars
  <1>3. /\ index \in Nat /\ Cardinality(believed) \in Nat
        /\ Cardinality(accepted) \in Nat /\ IsFiniteSet(accepted)
        /\ IsFiniteSet(believed)
        /\ slave.txOk \in Nat /\ slave.txFailed \in Nat
    BY Numbers
  <1>4. LastSent = index - 1 /\ LastSent' = index
    BY <1>2 DEF LastSent
  \* The exchange.
  <1>5. /\ reply' \in [status : SpiStatuses, frame : {NoResponse, miso}]
        /\ time' - time \in Latencies \cup {0} /\ time' \in Nat
        /\ \/ miso' = NoResponse
           \/ miso' = miso /\ reply'.frame = NoResponse
        /\ \/ mosi' = mosi
           \/ /\ mosi = {} /\ slavePc = "recv"
              /\ \E f \in Frames : mosi' = {f} /\ f.seq = index
    <2>1. time \in Nat /\ Latencies \subseteq Nat
      BY <1>1, Facts, EngineAssumption
    <2>2. CASE SkeletonTransfer
      <3>1. reply' = [status |-> "error", frame |-> NoResponse]
            /\ mosi' = mosi /\ miso' = miso /\ time' = time
        BY <2>2 DEF SkeletonTransfer
      <3> QED BY <2>1, <3>1 DEF SpiStatuses
    <2>3. CASE WiredTransfer
      <3>1. PICK damaged \in BOOLEAN, lost \in BOOLEAN, ticks \in Latencies :
              /\ mosi' = IF "slave" \in wired /\ slavePc = "recv" /\ mosi = {}
                           THEN {[FrameSent EXCEPT !.intact = @ /\ ~damaged]}
                           ELSE mosi
              /\ reply' = [status |-> "ok",
                           frame |-> IF lost THEN NoResponse ELSE miso]
              /\ miso' = NoResponse
              /\ time' = time + ticks
        BY <2>3 DEF WiredTransfer
      <3> DEFINE f == [FrameSent EXCEPT !.intact = @ /\ ~damaged]
      <3>2. f \in Frames /\ f.seq = index
        BY <1>3 DEF FrameSent, Frames
      <3> HIDE DEF f
      <3>3. \/ mosi' = mosi
            \/ mosi = {} /\ slavePc = "recv" /\ mosi' = {f}
        BY <3>1 DEF f
      <3>4. reply' \in [status : SpiStatuses, frame : {NoResponse, miso}]
        BY <3>1 DEF SpiStatuses
      <3>5. time' - time \in Latencies /\ time' \in Nat
        BY <2>1, <3>1
      <3> QED BY <3>1, <3>2, <3>3, <3>4, <3>5
    <2> QED BY <2>2, <2>3 DEF HostTransfer
  <1>6. NoResponse \in Responses /\ NoResponse.ack = "none"
    BY DEF NoResponse, Responses
  <1>7. BoardsTypeOK'
    <2>1. txn' \in TxnType
      BY <1>1, <1>2, TxnBeginType
    <2>2. events' \in Seq(EventTypes)
      BY <1>1, <1>2 DEF TypeOK, EventTypes
    <2>3. reply' \in [status : SpiStatuses, frame : Responses]
          /\ miso' \in Responses
      BY <1>1, <1>5, <1>6 DEF BoardsTypeOK
    <2>4. TypeOK'
      BY <1>1, <1>2, <1>5, <2>1, <2>2, <2>3 DEF TypeOK
    <2>5. \A f \in mosi' : f \in Frames /\ mosi' = {f}
      BY <1>1, <1>5 DEF BoardsTypeOK
    <2> QED BY <1>1, <1>2, <2>3, <2>4, <2>5 DEF BoardsTypeOK
  <1>8. InFlight'
    <2>1. /\ txn'.state = IF PacketSize = 0 THEN "done" ELSE "active"
          /\ txn'.start = time % TickMod /\ txn'.begun = time
      BY <1>2 DEF TxnBegin, Now
    <2>2. PacketSize' = PacketSize
      BY <1>2 DEF PacketSize
    <2> QED BY <1>2, <1>5, <2>1, <2>2 DEF InFlight
  <1>9. CountersInv'
    BY <1>1, <1>2 DEF CountersInv
  <1>10. FramesInOrder'
    <2>1. (Holding' <=> Holding) /\ (Holding => slavePc # "recv")
      BY <1>2 DEF Holding
    <2>2. /\ accepted \subseteq 0 .. index - 1 /\ believed \subseteq 0 .. index - 1
          /\ Holding => rx.seq <= index - 1 /\ \A a \in accepted : a < rx.seq
          /\ \A f \in mosi :
               /\ f.seq <= index - 1
               /\ \A a \in accepted : a < f.seq
               /\ Holding => rx.seq < f.seq
      BY <1>1, <1>4 DEF FramesInOrder
    <2>3. rx.seq \in Nat /\ \A f \in mosi : f.seq \in Nat
      BY <1>1 DEF BoardsTypeOK, Frames
    <2>4. accepted \subseteq 0 .. index
      BY <1>3, <2>2
    <2>5. Holding => rx.seq <= index
      BY <1>3, <2>2, <2>3
    <2>6. \A f \in mosi' :
            /\ f.seq <= index
            /\ \A a \in accepted : a < f.seq
            /\ Holding => rx.seq < f.seq
      <3>1. CASE mosi' = mosi
        BY <1>3, <2>2, <2>3, <3>1
      <3>2. CASE /\ slavePc = "recv"
                 /\ \E f \in Frames : mosi' = {f} /\ f.seq = index
        <4>1. PICK f \in Frames : mosi' = {f} /\ f.seq = index
          BY <3>2
        <4>2. ~Holding
          BY <2>1, <1>2, <3>2
        <4>3. \A a \in accepted : a < index
          BY <1>3, <2>2
        <4> QED BY <1>3, <4>1, <4>2, <4>3
      <3> QED BY <1>5, <3>1, <3>2
    <2>7. /\ accepted' \subseteq 0 .. LastSent' /\ believed' \subseteq 0 .. index' - 1
          /\ Holding' => rx'.seq <= LastSent' /\ \A a \in accepted' : a < rx'.seq
      BY <1>2, <1>4, <2>1, <2>2, <2>4, <2>5
    <2>8. \A f \in mosi' :
            /\ f.seq <= LastSent'
            /\ \A a \in accepted' : a < f.seq
            /\ Holding' => rx'.seq < f.seq
      BY <1>2, <1>4, <2>1, <2>6
    <2> QED BY <2>7, <2>8 DEF FramesInOrder
  \* The answer the host gets leaves the slave's buffer.
  <1>11. Cardinality(believed) + Bit(Acknowledged(reply')) + Bit(miso'.ack = "ok")
           <= Cardinality(believed) + Bit(miso.ack = "ok")
    BY <1>3, <1>5, <1>6 DEF Acknowledged, Bit
  <1>12. AnswersAreEarned'
    <2>1. Cardinality(believed) + Bit(miso.ack = "ok")
            + Bit(slavePc = "send" /\ response.ack = "ok")
            <= Cardinality(accepted)
      BY <1>1, <1>2, <1>3 DEF AnswersAreEarned, Bit
    <2>2. (inTransfer /\ Acknowledged(reply))' = Acknowledged(reply')
      BY <1>2 DEF Acknowledged
    <2>3. /\ Bit(Acknowledged(reply')) \in {0, 1} /\ Bit(miso'.ack = "ok") \in {0, 1}
          /\ Bit(miso.ack = "ok") \in {0, 1}
          /\ Bit(slavePc = "send" /\ response.ack = "ok") \in {0, 1}
      BY BitType
    <2>4. Cardinality(believed) + Bit(Acknowledged(reply')) + Bit(miso'.ack = "ok")
            + Bit(slavePc = "send" /\ response.ack = "ok")
            <= Cardinality(accepted)
      BY <1>3, <1>11, <2>1, <2>3
    <2> QED BY <1>2, <2>2, <2>4 DEF AnswersAreEarned
  <1>13. AnswerIsEarlier'
    <2>1. {j \in accepted : j < index} = accepted
      <3>1. accepted \subseteq 0 .. index - 1
        BY <1>1, <1>4 DEF FramesInOrder
      <3>2. \A j \in accepted : j < index
        BY <1>3, <3>1
      <3> QED BY <3>2
    <2>2. Acknowledged(reply') =>
            Cardinality(believed) + 1 <= Cardinality(accepted)
      <3>1. Acknowledged(reply') => miso.ack = "ok"
        BY <1>5, <1>6 DEF Acknowledged
      <3>2. SUFFICES ASSUME miso.ack = "ok"
                     PROVE  Cardinality(believed) + 1 <= Cardinality(accepted)
        BY <3>1
      <3> QED BY <1>1, <1>2, <1>3, <3>2 DEF AnswersAreEarned, Bit
    <2> QED BY <1>2, <2>1, <2>2 DEF AnswerIsEarlier, Acknowledged
  <1>14. CountersAreSets'
    BY <1>1, <1>2 DEF CountersAreSets
  <1>15. NothingInvented'
    <2>1. (\A f \in mosi : mosi = {f}) /\ (\A f \in mosi' : mosi' = {f})
      BY <1>1, <1>7 DEF BoardsTypeOK
    <2>5. Cardinality(mosi) \in {0, 1} /\ Cardinality(mosi') \in {0, 1}
      BY <2>1, BoxSize
    <2>2. Cardinality(mosi) \in {0, 1} /\ Cardinality(mosi') \in {0, 1}
          /\ Cardinality(mosi') <= Cardinality(mosi) + 1
      BY <2>5
    <2>3. Bit(slavePc \in {"select", "transaction"}) \in {0, 1}
      BY BitType
    <2>4. Bit(inTransfer) = 0 /\ Bit(inTransfer') = 1
      BY <1>2 DEF Bit
    <2> QED BY <1>1, <1>2, <1>3, <2>2, <2>3, <2>4 DEF NothingInvented
  <1>16. VerdictsAreLate'
    BY <1>1, <1>2, <1>3 DEF VerdictsAreLate
  <1> QED BY <1>7, <1>8, <1>9, <1>10, <1>12, <1>13, <1>14, <1>15, <1>16
          DEF BoardsInv

\* The acknowledgement in the host's hands becomes the success it records.
LEMMA HostConcludeKeeps ==
  ASSUME BoardsInv, HostConclude
  PROVE  BoardsInv'
PROOF
  <1>1. /\ BoardsTypeOK /\ TypeOK /\ InFlight /\ CountersInv /\ FramesInOrder
        /\ AnswersAreEarned /\ AnswerIsEarlier /\ CountersAreSets
        /\ NothingInvented /\ VerdictsAreLate
    BY DEF BoardsInv, BoardsTypeOK
  <1>2. /\ ConcludeTransfer /\ inTransfer
        /\ believed' = IF Outcome = "ok" THEN believed \cup {index} ELSE believed
        /\ UNCHANGED <<slave, response, accepted, irqLine, wired, slavePc, rx,
                       mosi, miso>>
    BY DEF HostConclude, ConcludeTransfer, slaveVars, loopVars
  <1>3. /\ profile' = profile /\ reply' = reply
        /\ index < profile.count /\ index' = index + 1 /\ inTransfer' = FALSE
        /\ txn' \in TxnType /\ host' \in Counts /\ time' \in Nat
        /\ events' \in Seq(EventTypes) /\ samples' \in Seq(SampleType)
    BY <1>1, <1>2, ConcludeTypes
  <1>4. PICK s \in SampleType : Concluded(s) /\ (s.status = "ok" <=> Outcome = "ok")
    BY <1>1, <1>2, TransferConcludes
  <1>5. /\ index \in Nat /\ profile.count \in Nat
        /\ IsFiniteSet(believed) /\ Cardinality(believed) \in Nat
        /\ IsFiniteSet(accepted) /\ Cardinality(accepted) \in Nat
        /\ host.txOk \in Nat /\ slave.txOk \in Nat /\ slave.txFailed \in Nat
    BY Numbers
  <1>6. believed \subseteq 0 .. index - 1 /\ index \notin believed
    BY <1>1, <1>5 DEF FramesInOrder
  <1>7. \/ /\ Acknowledged(reply) /\ believed' = believed \cup {index}
           /\ IsFiniteSet(believed')
           /\ Cardinality(believed') = Cardinality(believed) + 1
           /\ host'.txOk = host.txOk + 1
        \/ believed' = believed /\ host'.txOk = host.txOk
    <2>1. CASE Outcome = "ok"
      <3>1. Acknowledged(reply)
        BY <1>1, <2>1, OutcomeType
      <3>2. host'.txOk = host.txOk + 1
        BY <1>4, <2>1 DEF Concluded, Counted, Gains
      <3> QED BY <1>2, <1>5, <1>6, <2>1, <3>1, <3>2, OneElementMore
    <2>2. CASE Outcome # "ok"
      <3>1. s.status \in {"timeout", "rejected"}
        BY <1>4, <2>2 DEF SampleType, SampleStatuses
      <3>2. host'.txOk = host.txOk + 0
        BY <1>4, <3>1 DEF Concluded, Counted, Gains
      <3> QED BY <1>2, <1>5, <2>2, <3>2
    <2> QED BY <2>1, <2>2
  <1>8. BoardsTypeOK'
    <2>1. index' \in 0 .. profile'.count
      BY <1>3, <1>5
    <2>2. TypeOK'
      BY <1>1, <1>2, <1>3, <2>1 DEF TypeOK
    <2> QED BY <1>1, <1>2, <2>2 DEF BoardsTypeOK
  <1>9. InFlight' /\ AnswerIsEarlier'
    BY <1>3 DEF InFlight, AnswerIsEarlier
  <1>10. CountersInv'
    BY <1>1, <1>4, ConcludedKeepsCounters
  <1>11. FramesInOrder'
    <2>1. LastSent = index /\ LastSent' = index /\ (Holding' <=> Holding)
      BY <1>2, <1>3, <1>5 DEF LastSent, Holding
    <2>2. believed' \subseteq 0 .. index' - 1
      <3>1. index' - 1 = index
        BY <1>3, <1>5
      <3>2. believed \subseteq 0 .. index
        BY <1>5, <1>6
      <3>3. index \in 0 .. index
        BY <1>5
      <3> QED BY <1>7, <3>1, <3>2, <3>3
    <2> QED BY <1>1, <1>2, <2>1, <2>2 DEF FramesInOrder
  <1> DEFINE held   == Bit(inTransfer /\ Acknowledged(reply))
             loaded == Bit(miso.ack = "ok")
             served == Bit(slavePc = "send" /\ response.ack = "ok")
  <1>12. AnswersAreEarned'
    <2>1. Cardinality(believed) + held + loaded + served <= Cardinality(accepted)
      BY <1>1 DEF AnswersAreEarned
    <2>2. held \in {0, 1} /\ loaded \in {0, 1} /\ served \in {0, 1}
      BY BitType
    <2>3. Acknowledged(reply) => held = 1
      BY <1>2 DEF Bit
    <2>4. Bit((inTransfer /\ Acknowledged(reply))') = 0
      BY <1>3 DEF Bit
    <2>5. /\ Bit((miso.ack = "ok")') = loaded
          /\ Bit((slavePc = "send" /\ response.ack = "ok")') = served
      BY <1>2
    <2> HIDE DEF held, loaded, served
    <2>6. Cardinality(believed') + 0 + loaded + served <= Cardinality(accepted)
      BY <1>5, <1>7, <2>1, <2>2, <2>3
    <2> QED BY <1>2, <2>4, <2>5, <2>6 DEF AnswersAreEarned
  <1>13. CountersAreSets'
    BY <1>1, <1>2, <1>7 DEF CountersAreSets
  <1>14. NothingInvented'
    <2>1. Bit(inTransfer) = 1 /\ Bit(inTransfer') = 0
      BY <1>2, <1>3 DEF Bit
    <2>2. index + Bit(inTransfer) = index' + Bit(inTransfer')
      BY <1>3, <1>5, <2>1
    <2>3. Bit((slavePc \in {"select", "transaction"})')
            = Bit(slavePc \in {"select", "transaction"})
      BY <1>2
    <2> QED BY <1>1, <1>2, <2>2, <2>3 DEF NothingInvented
  <1>15. VerdictsAreLate'
    <2>1. CASE believed' = believed
      BY <1>1, <1>2, <2>1 DEF VerdictsAreLate
    <2>2. CASE /\ Acknowledged(reply) /\ believed' = believed \cup {index}
               /\ Cardinality(believed') = Cardinality(believed) + 1
      <3> SUFFICES ASSUME NEW i \in believed'
                   PROVE  Cardinality({j \in believed' : j <= i})
                            <= Cardinality({j \in accepted : j < i})
        BY <1>2 DEF VerdictsAreLate
      <3>1. CASE i = index
        <4>1. {j \in believed' : j <= i} = believed'
          <5>1. \A j \in believed' : j <= index
            BY <1>5, <1>6, <2>2
          <5> QED BY <3>1, <5>1
        <4>2. Cardinality(believed) + 1
                <= Cardinality({j \in accepted : j < index})
          BY <1>1, <1>2, <2>2 DEF AnswerIsEarlier
        <4> QED BY <2>2, <3>1, <4>1, <4>2
      <3>2. CASE i # index
        <4>1. i \in believed /\ ~(index <= i)
          BY <1>5, <1>6, <2>2, <3>2
        <4>2. {j \in believed' : j <= i} = {j \in believed : j <= i}
          BY <2>2, <4>1
        <4> QED BY <1>1, <4>1, <4>2 DEF VerdictsAreLate
      <3> QED BY <3>1, <3>2
    <2> QED BY <1>7, <2>1, <2>2
  <1> QED BY <1>8, <1>9, <1>10, <1>11, <1>12, <1>13, <1>14, <1>15 DEF BoardsInv

\* A declared timeout exchanges nothing and is counted as a failure: what the
\* slave has, has sent or will send stays where it is.
LEMMA HostTimeoutKeeps ==
  ASSUME BoardsInv, HostTimeout
  PROVE  BoardsInv'
PROOF
  <1>1. /\ BoardsTypeOK /\ TypeOK /\ CountersInv /\ FramesInOrder
        /\ AnswersAreEarned /\ CountersAreSets /\ NothingInvented
        /\ VerdictsAreLate
    BY DEF BoardsInv, BoardsTypeOK
  <1>2. /\ DeclaredTimeout /\ ~inTransfer /\ inTransfer' = inTransfer
        /\ index' = index + 1
        /\ UNCHANGED <<profile, slave, response, accepted, reply, irqLine, wired,
                       slavePc, rx, mosi, miso, believed>>
    BY DEF HostTimeout, DeclaredTimeout, Begin, slaveVars, loopVars
  <1>3. PICK s \in SampleType : Concluded(s) /\ s.status = "timeout"
    BY <1>1, <1>2, DeclaredTimeoutConcludes
  <1>4. /\ index \in Nat /\ Cardinality(believed) \in Nat
        /\ Cardinality(accepted) \in Nat /\ host.txOk \in Nat
        /\ slave.txOk \in Nat /\ slave.txFailed \in Nat
    BY Numbers
  <1>5. host'.txOk = host.txOk
    <2>1. host'.txOk = host.txOk + 0
      BY <1>3 DEF Concluded, Counted, Gains
    <2> QED BY <1>4, <2>1
  <1>6. BoardsTypeOK'
    <2>1. TypeOK'
      BY <1>1, <1>2, DeclaredTimeoutTypes
    <2> QED BY <1>1, <1>2, <2>1 DEF BoardsTypeOK
  <1>7. InFlight' /\ AnswerIsEarlier'
    BY <1>2 DEF InFlight, AnswerIsEarlier
  <1>8. CountersInv'
    BY <1>1, <1>3, ConcludedKeepsCounters
  <1>9. FramesInOrder'
    <2>1. LastSent = index - 1 /\ LastSent' = index /\ (Holding' <=> Holding)
      BY <1>2, <1>4 DEF LastSent, Holding
    <2>2. /\ accepted \subseteq 0 .. index - 1 /\ believed \subseteq 0 .. index - 1
          /\ Holding => rx.seq <= index - 1 /\ \A a \in accepted : a < rx.seq
          /\ \A f \in mosi :
               /\ f.seq <= index - 1
               /\ \A a \in accepted : a < f.seq
               /\ Holding => rx.seq < f.seq
      BY <1>1, <2>1 DEF FramesInOrder
    <2>3. rx.seq \in Nat /\ \A f \in mosi : f.seq \in Nat
      BY <1>1 DEF BoardsTypeOK, Frames
    <2>4. accepted \subseteq 0 .. index /\ believed \subseteq 0 .. index
      BY <1>4, <2>2
    <2>5. (Holding => rx.seq <= index) /\ \A f \in mosi : f.seq <= index
      BY <1>4, <2>2, <2>3
    <2>6. believed \subseteq 0 .. index' - 1
      BY <1>2, <1>4, <2>4
    <2> QED BY <1>2, <2>1, <2>2, <2>4, <2>5, <2>6 DEF FramesInOrder
  <1>10. AnswersAreEarned'
    BY <1>1, <1>2 DEF AnswersAreEarned, Bit
  <1>11. CountersAreSets'
    BY <1>1, <1>2, <1>5 DEF CountersAreSets
  <1>12. NothingInvented'
    <2>1. Bit(inTransfer') = Bit(inTransfer) /\ Bit(inTransfer) \in {0, 1}
      BY <1>2, BitType
    <2>2. Bit((slavePc \in {"select", "transaction"})')
            = Bit(slavePc \in {"select", "transaction"})
          /\ Bit(slavePc \in {"select", "transaction"}) \in {0, 1}
      BY <1>2, BitType
    <2>3. Cardinality(mosi) \in {0, 1}
      BY <1>1, BoxSize DEF BoardsTypeOK
    <2>4. index + Bit(inTransfer) <= index' + Bit(inTransfer')
          /\ index' + Bit(inTransfer') \in Nat /\ index + Bit(inTransfer) \in Nat
      BY <1>2, <1>4, <2>1
    <2> QED BY <1>1, <1>2, <1>4, <2>1, <2>2, <2>3, <2>4 DEF NothingInvented
  <1>13. VerdictsAreLate'
    BY <1>1, <1>2 DEF VerdictsAreLate
  <1> QED BY <1>6, <1>7, <1>8, <1>9, <1>10, <1>11, <1>12, <1>13 DEF BoardsInv

\* What changes neither the frames, the answers nor the counters.
LEMMA QuietKeeps ==
  ASSUME BoardsInv, HostReport \/ SlaveOnSelect \/ UNCHANGED <<vars, boardVars>>
  PROVE  BoardsInv'
PROOF
  <1>1. /\ UNCHANGED <<vars, wired, rx, mosi, miso, believed>>
        /\ \/ slavePc' = slavePc
           \/ slavePc = "select" /\ slavePc' = "transaction"
    BY DEF HostReport, SlaveOnSelect, loopVars, boardVars
  <1>2. UNCHANGED <<profile, index, inTransfer, txn, host, events, samples, slave,
                    response, accepted, reply, time, irqLine>>
    BY <1>1 DEF vars, hostVars, slaveVars
  <1>3. (Holding' <=> Holding) /\ LastSent' = LastSent
    BY <1>1, <1>2 DEF Holding, LastSent
  <1>4. /\ (slavePc' = "send" <=> slavePc = "send")
        /\ (slavePc' \in {"select", "transaction"}
              <=> slavePc \in {"select", "transaction"})
    BY <1>1
  <1>5. TypeOK' <=> TypeOK
    BY <1>2 DEF TypeOK
  <1>6. BoardsTypeOK'
    BY <1>1, <1>5 DEF BoardsInv, BoardsTypeOK
  <1>7. InFlight' /\ CountersInv'
    <2>1. PacketSize' = PacketSize
      BY <1>2 DEF PacketSize
    <2> QED BY <1>2, <2>1 DEF BoardsInv, InFlight, CountersInv
  <1>8. FramesInOrder' /\ AnswerIsEarlier' /\ CountersAreSets' /\ VerdictsAreLate'
    BY <1>1, <1>2, <1>3 DEF BoardsInv, FramesInOrder, AnswerIsEarlier,
       CountersAreSets, VerdictsAreLate, Acknowledged
  <1>9. AnswersAreEarned' /\ NothingInvented'
    BY <1>1, <1>2, <1>4
    DEF BoardsInv, AnswersAreEarned, NothingInvented, Acknowledged, Bit
  <1> QED BY <1>6, <1>7, <1>8, <1>9 DEF BoardsInv

\* The slave takes the frame that waits, which is later than all it accepted.
LEMMA SlaveRecvKeeps ==
  ASSUME BoardsInv, SlaveRecv
  PROVE  BoardsInv'
PROOF
  <1>1. /\ BoardsTypeOK /\ TypeOK /\ InFlight /\ CountersInv /\ FramesInOrder
        /\ AnswersAreEarned /\ AnswerIsEarlier /\ CountersAreSets
        /\ NothingInvented /\ VerdictsAreLate
    BY DEF BoardsInv, BoardsTypeOK
  <1>2. /\ slavePc = "recv" /\ slavePc' = "select"
        /\ UNCHANGED <<profile, index, inTransfer, txn, host, events, samples,
                       slave, response, accepted, reply, time, irqLine, wired,
                       miso, believed>>
    BY DEF SlaveRecv, vars, hostVars, slaveVars
  <1>3. LastSent' = LastSent
    BY <1>2 DEF LastSent
  \* What is received.
  <1>4. \/ /\ rx' \in mosi /\ mosi' = {} /\ Cardinality(mosi) = 1
           /\ Cardinality(mosi') = 0
        \/ "slave" \notin wired /\ rx' = NoFrame /\ mosi' = mosi
    <2>1. CASE "slave" \in wired /\ WiredRecv
      <3>1. rx' \in mosi /\ mosi' = {} /\ mosi # {}
        BY <2>1 DEF WiredRecv
      <3>2. Cardinality(mosi) = 1
        BY <1>1, <3>1, BoxSize DEF BoardsTypeOK
      <3> QED BY <3>1, <3>2, FS_EmptySet
    <2>2. CASE "slave" \notin wired /\ SkeletonRecv
      BY <2>2 DEF SkeletonRecv
    <2> QED BY <2>1, <2>2 DEF SlaveRecv
  <1>5. NoFrame \in Frames /\ ~NoFrame.intact
    BY DEF NoFrame, Frames
  <1>6. BoardsTypeOK'
    <2>1. TypeOK'
      BY <1>1, <1>2 DEF TypeOK
    <2>2. rx' \in Frames /\ \A f \in mosi' : f \in Frames /\ mosi' = {f}
      BY <1>1, <1>4, <1>5 DEF BoardsTypeOK
    <2> QED BY <1>1, <1>2, <2>1, <2>2 DEF BoardsTypeOK
  <1>7. InFlight' /\ CountersInv'
    <2>1. PacketSize' = PacketSize
      BY <1>2 DEF PacketSize
    <2> QED BY <1>1, <1>2, <2>1 DEF InFlight, CountersInv
  <1>8. FramesInOrder'
    <2>1. Holding' => rx' \in mosi /\ mosi' = {}
      BY <1>4, <1>5 DEF Holding
    <2>2. Holding' => rx'.seq <= LastSent /\ \A a \in accepted : a < rx'.seq
      BY <1>1, <2>1 DEF FramesInOrder
    <2>3. \A f \in mosi' :
            /\ f.seq <= LastSent
            /\ \A a \in accepted : a < f.seq
            /\ Holding' => rx'.seq < f.seq
      BY <1>1, <1>4, <2>1 DEF FramesInOrder
    <2> QED BY <1>1, <1>2, <1>3, <2>2, <2>3 DEF FramesInOrder
  <1>9. AnswersAreEarned'
    <2>1. slavePc' # "send" /\ slavePc # "send"
      BY <1>2
    <2> QED BY <1>1, <1>2, <2>1 DEF AnswersAreEarned, Acknowledged, Bit
  <1>10. AnswerIsEarlier' /\ CountersAreSets' /\ VerdictsAreLate'
    BY <1>1, <1>2
    DEF AnswerIsEarlier, CountersAreSets, VerdictsAreLate, Acknowledged
  <1>11. NothingInvented'
    <2>1. Bit(slavePc \in {"select", "transaction"}) = 0
          /\ Bit((slavePc \in {"select", "transaction"})') = 1
      BY <1>2 DEF Bit
    <2>2. slave.txOk \in Nat /\ slave.txFailed \in Nat
      BY Numbers
    <2>3. CASE Cardinality(mosi) = 1 /\ Cardinality(mosi') = 0
      <3>1. "slave" \in wired =>
              slave.txOk + slave.txFailed + 1 + 0 <= index + Bit(inTransfer)
        BY <1>1, <2>1, <2>3 DEF NothingInvented
      <3>2. "slave" \in wired =>
              slave.txOk + slave.txFailed + 0 + 1 <= index + Bit(inTransfer)
        BY <2>2, <3>1
      <3> QED BY <1>2, <2>1, <2>3, <3>2 DEF NothingInvented
    <2>4. CASE "slave" \notin wired
      BY <1>2, <2>4 DEF NothingInvented
    <2> QED BY <1>4, <2>3, <2>4
  <1> QED BY <1>6, <1>7, <1>8, <1>9, <1>10, <1>11 DEF BoardsInv

\* What the slave prepared is loaded for the next exchange.
LEMMA SlaveSendKeeps ==
  ASSUME BoardsInv, SlaveSend
  PROVE  BoardsInv'
PROOF
  <1>1. /\ BoardsTypeOK /\ TypeOK /\ InFlight /\ CountersInv /\ FramesInOrder
        /\ AnswersAreEarned /\ AnswerIsEarlier /\ CountersAreSets
        /\ NothingInvented /\ VerdictsAreLate
    BY DEF BoardsInv, BoardsTypeOK
  <1>2. /\ slavePc = "send" /\ slavePc' = "recv"
        /\ miso' \in {response, miso}
        /\ UNCHANGED <<profile, index, inTransfer, txn, host, events, samples,
                       slave, response, accepted, reply, time, irqLine, wired,
                       rx, mosi, believed>>
    BY DEF SlaveSend, vars, hostVars, slaveVars
  <1>3. LastSent' = LastSent /\ ~Holding /\ ~Holding'
    BY <1>2 DEF LastSent, Holding
  <1>4. BoardsTypeOK'
    <2>1. TypeOK'
      BY <1>1, <1>2 DEF TypeOK
    <2>2. miso' \in Responses
      BY <1>1, <1>2 DEF BoardsTypeOK, TypeOK
    <2> QED BY <1>1, <1>2, <2>1, <2>2 DEF BoardsTypeOK
  <1>5. InFlight' /\ CountersInv'
    <2>1. PacketSize' = PacketSize
      BY <1>2 DEF PacketSize
    <2> QED BY <1>1, <1>2, <2>1 DEF InFlight, CountersInv
  <1>6. FramesInOrder'
    BY <1>1, <1>2, <1>3 DEF FramesInOrder
  <1> DEFINE held == Bit(inTransfer /\ Acknowledged(reply))
  <1>7. AnswersAreEarned'
    <2>1. Cardinality(believed) + held + Bit(miso.ack = "ok")
            + Bit(response.ack = "ok") <= Cardinality(accepted)
      BY <1>1, <1>2 DEF AnswersAreEarned, Bit
    <2>2. /\ Bit(miso.ack = "ok") \in {0, 1} /\ Bit(response.ack = "ok") \in {0, 1}
          /\ held \in {0, 1}
      BY BitType
    <2>3. /\ Bit((inTransfer /\ Acknowledged(reply))') = held
          /\ Bit((slavePc = "send" /\ response.ack = "ok")') = 0
      BY <1>2 DEF Acknowledged, Bit
    <2>4. Bit((miso.ack = "ok")') \in {Bit(miso.ack = "ok"), Bit(response.ack = "ok")}
      BY <1>2
    <2>5. Cardinality(believed) \in Nat /\ Cardinality(accepted) \in Nat
      BY Numbers
    <2> HIDE DEF held
    <2>6. Cardinality(believed) + held + Bit((miso.ack = "ok")') + 0
            <= Cardinality(accepted)
      BY <2>1, <2>2, <2>4, <2>5
    <2> QED BY <1>2, <2>3, <2>6 DEF AnswersAreEarned
  <1>8. AnswerIsEarlier' /\ CountersAreSets' /\ VerdictsAreLate'
    BY <1>1, <1>2
    DEF AnswerIsEarlier, CountersAreSets, VerdictsAreLate, Acknowledged
  <1>9. NothingInvented'
    BY <1>1, <1>2 DEF NothingInvented, Bit
  <1> QED BY <1>4, <1>5, <1>6, <1>7, <1>8, <1>9 DEF BoardsInv

\* What the slave counts for a frame, of the two totals that say what it served.
LEMMA SlaveCounts ==
  ASSUME NEW c \in Counts, NEW bytes \in Nat
  PROVE  /\ WithTx(c, TRUE, bytes, 0).txOk = SatInc(c.txOk)
         /\ WithTx(c, TRUE, bytes, 0).txFailed = c.txFailed
         /\ WithTx(c, FALSE, bytes, 0).txOk = c.txOk
         /\ WithTx(c, FALSE, bytes, 0).txFailed = SatInc(c.txFailed)
         /\ WithIrq(c).txOk = c.txOk /\ WithIrq(c).txFailed = c.txFailed
         /\ WithCrcError(c).txOk = c.txOk
         /\ WithCrcError(c).txFailed = c.txFailed
  BY DEF WithTx, WithIrq, WithCrcError, Counts

LEMMA SlaveTotals ==
  ASSUME TypeOK, NEW intact \in BOOLEAN, NEW seq,
         SlaveOnTransaction(intact, seq)
  PROVE  \/ /\ intact /\ accepted' = accepted \cup {seq}
            /\ slave'.txOk = SatInc(slave.txOk)
            /\ slave'.txFailed = slave.txFailed
         \/ /\ ~intact /\ accepted' = accepted /\ response'.ack = "crc_error"
            /\ slave'.txOk = slave.txOk
            /\ slave'.txFailed = SatInc(slave.txFailed)
PROOF
  <1>1. slave \in Counts /\ PacketSize \in Nat /\ 0 \in Nat
    BY Facts DEF TypeOK
  <1>2. CASE intact /\ SlaveAccept(seq)
    <2> DEFINE c == WithTx(slave, TRUE, PacketSize, 0)
    <2>1. /\ c \in Counts /\ c.txOk = SatInc(slave.txOk)
          /\ c.txFailed = slave.txFailed
      BY <1>1, EitherTxType, SlaveCounts
    <2>2. slave' \in {c, WithIrq(c)} /\ accepted' = accepted \cup {seq}
      BY <1>2 DEF SlaveAccept
    <2> HIDE DEF c
    <2>3. WithIrq(c).txOk = c.txOk /\ WithIrq(c).txFailed = c.txFailed
      BY <1>1, <2>1, SlaveCounts
    <2> QED BY <1>2, <2>1, <2>2, <2>3
  <1>3. CASE ~intact /\ SlaveReject
    <2> DEFINE e == WithCrcError(slave)
               c == WithTx(e, FALSE, 0, 0)
    <2>1. /\ e \in Counts /\ e.txOk = slave.txOk
          /\ e.txFailed = slave.txFailed
      BY <1>1, WithEventType, SlaveCounts
    <2>2. slave' \in {c, WithIrq(c)} /\ accepted' = accepted
          /\ response'.ack = "crc_error"
      BY <1>3 DEF SlaveReject, AckOf
    <2> HIDE DEF e
    <2>3. /\ c \in Counts /\ c.txOk = e.txOk /\ c.txFailed = SatInc(e.txFailed)
      BY <1>1, <2>1, EitherTxType, SlaveCounts
    <2> HIDE DEF c
    <2>4. WithIrq(c).txOk = c.txOk /\ WithIrq(c).txFailed = c.txFailed
      BY <1>1, <2>3, SlaveCounts
    <2> QED BY <1>3, <2>1, <2>2, <2>3, <2>4
  <1> QED BY <1>2, <1>3 DEF SlaveOnTransaction

\* The slave earns at most one acknowledgement, for a frame it never accepted.
LEMMA ServedOnce ==
  ASSUME BoardsInv, SlaveServe
  PROVE  /\ IsFiniteSet(accepted') /\ accepted \subseteq accepted'
         /\ accepted' \subseteq 0 .. LastSent
         /\ Cardinality(accepted') \in Nat
         /\ slave'.txOk \in Nat /\ slave'.txFailed \in Nat
         /\ \/ /\ accepted' = accepted \cup {rx.seq} /\ Holding
               /\ Cardinality(accepted') = Cardinality(accepted) + 1
               /\ slave'.txOk = slave.txOk + 1
               /\ slave'.txFailed = slave.txFailed
            \/ /\ accepted' = accepted /\ response'.ack = "crc_error"
               /\ slave'.txOk = slave.txOk
               /\ slave'.txFailed <= slave.txFailed + 1
PROOF
  <1>1. /\ TypeOK /\ rx.intact \in BOOLEAN /\ rx.seq \in Nat
        /\ FramesInOrder /\ CountersAreSets
    BY DEF BoardsInv, BoardsTypeOK, Frames
  <1>2. slavePc = "transaction" /\ SlaveOnTransaction(rx.intact, rx.seq)
    BY DEF SlaveServe
  <1>3. /\ index \in Nat /\ profile.count \in Nat /\ index <= profile.count
        /\ profile.count <= U32Max /\ (inTransfer => index < profile.count)
        /\ IsFiniteSet(accepted) /\ Cardinality(accepted) \in Nat
        /\ slave.txOk \in Nat /\ slave.txFailed \in Nat /\ LastSent \in Int
    BY Numbers
  <1>4. U32Max \in Nat /\ LastSent + 1 \in Nat /\ LastSent + 1 <= U32Max
    BY <1>3, U32MaxAssumption DEF LastSent
  <1>5. CASE rx.intact /\ accepted' = accepted \cup {rx.seq}
             /\ slave'.txOk = SatInc(slave.txOk)
             /\ slave'.txFailed = slave.txFailed
    <2>1. Holding
      BY <1>2, <1>5 DEF Holding
    <2>2. rx.seq <= LastSent /\ \A a \in accepted : a < rx.seq
      BY <1>1, <2>1 DEF FramesInOrder
    <2>3. rx.seq \notin accepted
      BY <1>1, <2>2
    <2>4. IsFiniteSet(accepted')
          /\ Cardinality(accepted') = Cardinality(accepted) + 1
      BY <1>3, <1>5, <2>3, OneElementMore
    <2>5. accepted' \subseteq 0 .. LastSent
      <3>1. rx.seq \in 0 .. LastSent
        BY <1>1, <1>3, <2>2
      <3> QED BY <1>1, <1>5, <3>1 DEF FramesInOrder
    <2>6. Cardinality(accepted') <= LastSent + 1
      <3>1. accepted' \subseteq 0 .. (LastSent + 1) - 1
        BY <1>3, <2>5
      <3> QED BY <1>4, <3>1, SomeOf
    <2>7. slave.txOk < U32Max
      BY <1>1, <1>3, <1>4, <2>4, <2>6 DEF CountersAreSets
    <2>8. slave'.txOk = slave.txOk + 1
      BY <1>3, <1>5, <2>7, SatIncExact
    <2> QED BY <1>3, <1>5, <2>1, <2>4, <2>5, <2>8
  <1>6. CASE ~rx.intact /\ accepted' = accepted
             /\ response'.ack = "crc_error" /\ slave'.txOk = slave.txOk
             /\ slave'.txFailed = SatInc(slave.txFailed)
    <2>1. SatInc(slave.txFailed) \in Nat
          /\ SatInc(slave.txFailed) <= slave.txFailed + 1
      BY <1>3, U32MaxAssumption DEF SatInc
    <2> QED BY <1>1, <1>3, <1>6, <2>1 DEF FramesInOrder
  <1> QED BY <1>1, <1>2, <1>5, <1>6, SlaveTotals

LEMMA SlaveServeKeeps ==
  ASSUME BoardsInv, SlaveServe
  PROVE  BoardsInv'
PROOF
  <1>1. /\ BoardsTypeOK /\ TypeOK /\ InFlight /\ CountersInv /\ FramesInOrder
        /\ AnswersAreEarned /\ AnswerIsEarlier /\ CountersAreSets
        /\ NothingInvented /\ VerdictsAreLate
    BY DEF BoardsInv, BoardsTypeOK
  <1>2. /\ slavePc = "transaction" /\ slavePc' = "send"
        /\ irqLine' \in BOOLEAN /\ SlaveOnTransaction(rx.intact, rx.seq)
        /\ UNCHANGED <<profile, index, inTransfer, txn, host, events, samples,
                       reply, time, wired, rx, mosi, miso, believed>>
    BY <1>1 DEF SlaveServe, RaiseLine, SimIrqRaise, hostVars, TypeOK
  <1>3. LastSent' = LastSent /\ ~Holding'
    BY <1>2 DEF LastSent, Holding
  <1>4. /\ IsFiniteSet(accepted') /\ accepted \subseteq accepted'
        /\ accepted' \subseteq 0 .. LastSent /\ Cardinality(accepted') \in Nat
        /\ slave'.txOk \in Nat /\ slave'.txFailed \in Nat
    BY ServedOnce
  <1>5. \/ /\ accepted' = accepted \cup {rx.seq} /\ Holding
           /\ Cardinality(accepted') = Cardinality(accepted) + 1
           /\ slave'.txOk = slave.txOk + 1
           /\ slave'.txFailed = slave.txFailed
        \/ /\ accepted' = accepted /\ response'.ack = "crc_error"
           /\ slave'.txOk = slave.txOk
           /\ slave'.txFailed <= slave.txFailed + 1
    BY ServedOnce
  <1>6. /\ index \in Nat /\ Cardinality(believed) \in Nat /\ IsFiniteSet(believed)
        /\ IsFiniteSet(accepted) /\ Cardinality(accepted) \in Nat
        /\ slave.txOk \in Nat /\ slave.txFailed \in Nat
    BY Numbers
  <1>7. BoardsTypeOK'
    <2>1. rx.intact \in BOOLEAN /\ rx.seq \in Nat
      BY <1>1 DEF BoardsTypeOK, Frames
    <2>2. slave' \in Counts /\ response' \in Responses /\ accepted' \subseteq Nat
      BY <1>1, <1>2, <2>1, SlaveAnswers
    <2>3. TypeOK'
      BY <1>1, <1>2, <2>2 DEF TypeOK
    <2> QED BY <1>1, <1>2, <2>3 DEF BoardsTypeOK
  <1>8. InFlight' /\ CountersInv'
    <2>1. PacketSize' = PacketSize
      BY <1>2 DEF PacketSize
    <2> QED BY <1>1, <1>2, <2>1 DEF InFlight, CountersInv
  <1>9. FramesInOrder'
    <2>1. \A f \in mosi : f.seq <= LastSent /\ \A a \in accepted' : a < f.seq
      BY <1>1, <1>5 DEF FramesInOrder
    <2> QED BY <1>1, <1>2, <1>3, <1>4, <2>1 DEF FramesInOrder
  <1> DEFINE held   == Bit(inTransfer /\ Acknowledged(reply))
             loaded == Bit(miso.ack = "ok")
             served == Bit((slavePc = "send" /\ response.ack = "ok")')
  <1>10. AnswersAreEarned'
    <2>1. Cardinality(believed) + held + loaded <= Cardinality(accepted)
      <3>1. Bit(slavePc = "send" /\ response.ack = "ok") = 0
        BY <1>2 DEF Bit
      <3>2. held \in {0, 1} /\ loaded \in {0, 1}
        BY BitType
      <3>3. Cardinality(believed) + held + loaded + 0 <= Cardinality(accepted)
        BY <1>1, <3>1 DEF AnswersAreEarned
      <3> HIDE DEF held, loaded
      <3> QED BY <1>6, <3>2, <3>3
    <2>2. held \in {0, 1} /\ loaded \in {0, 1} /\ served \in {0, 1}
      BY BitType
    <2>3. response'.ack = "crc_error" => served = 0
      BY DEF Bit
    <2>4. /\ Bit((inTransfer /\ Acknowledged(reply))') = held
          /\ Bit((miso.ack = "ok")') = loaded
      BY <1>2 DEF Acknowledged
    <2> HIDE DEF held, loaded, served
    <2>5. Cardinality(believed) + held + loaded + served <= Cardinality(accepted')
      BY <1>4, <1>5, <1>6, <2>1, <2>2, <2>3
    <2> QED BY <1>2, <2>4, <2>5 DEF AnswersAreEarned, served
  <1>11. AnswerIsEarlier'
    <2> SUFFICES ASSUME inTransfer, Acknowledged(reply)
                 PROVE  Cardinality(believed) + 1
                          <= Cardinality({j \in accepted' : j < index})
      BY <1>2 DEF AnswerIsEarlier, Acknowledged
    <2> DEFINE A == {j \in accepted : j < index}
               B == {j \in accepted' : j < index}
    <2>1. Cardinality(believed) + 1 <= Cardinality(A)
      BY <1>1 DEF AnswerIsEarlier
    <2>2. A \subseteq B /\ B \subseteq accepted'
      BY <1>4
    <2> HIDE DEF A, B
    <2>3. IsFiniteSet(B)
      BY <1>4, <2>2, PartOf
    <2>4. Cardinality(A) <= Cardinality(B) /\ Cardinality(A) \in Nat
          /\ Cardinality(B) \in Nat
      BY <2>2, <2>3, PartOf
    <2> QED BY <1>6, <2>1, <2>4 DEF B
  <1>12. CountersAreSets'
    BY <1>1, <1>2, <1>5 DEF CountersAreSets
  <1>13. NothingInvented'
    <2>1. /\ Bit(slavePc \in {"select", "transaction"}) = 1
          /\ Bit((slavePc \in {"select", "transaction"})') = 0
      BY <1>2 DEF Bit
    <2>2. Cardinality(mosi) \in {0, 1} /\ Bit(inTransfer) \in {0, 1}
      BY <1>1, BoxSize, BitType DEF BoardsTypeOK
    <2>3. slave'.txOk + slave'.txFailed <= slave.txOk + slave.txFailed + 1
      BY <1>4, <1>5, <1>6
    <2>4. "slave" \in wired =>
            slave.txOk + slave.txFailed + Cardinality(mosi) + 1
              <= index + Bit(inTransfer)
      BY <1>1, <2>1 DEF NothingInvented
    <2>5. "slave" \in wired =>
            slave'.txOk + slave'.txFailed + Cardinality(mosi) + 0
              <= index + Bit(inTransfer)
      BY <1>4, <1>6, <2>2, <2>3, <2>4
    <2> QED BY <1>2, <2>1, <2>5 DEF NothingInvented
  <1>14. VerdictsAreLate'
    BY <1>1, <1>2, <1>4, <1>6, LateStays
  <1> QED BY <1>7, <1>8, <1>9, <1>10, <1>11, <1>12, <1>13, <1>14 DEF BoardsInv

-----------------------------------------------------------------------------
(* The theorems.                                                           *)

LEMMA BoardsStepKeeps ==
  BoardsInv /\ [BoardsNext]_<<vars, boardVars>> => BoardsInv'
PROOF
  <1> SUFFICES ASSUME BoardsInv, [BoardsNext]_<<vars, boardVars>>
               PROVE  BoardsInv'
    OBVIOUS
  <1>1. CASE HostTransfer
    BY <1>1, HostTransferKeeps
  <1>2. CASE HostConclude
    BY <1>2, HostConcludeKeeps
  <1>3. CASE SlaveRecv
    BY <1>3, SlaveRecvKeeps
  <1>4. CASE SlaveServe
    BY <1>4, SlaveServeKeeps
  <1>5. CASE SlaveSend
    BY <1>5, SlaveSendKeeps
  <1>6. CASE HostReport \/ SlaveOnSelect \/ UNCHANGED <<vars, boardVars>>
    BY <1>6, QuietKeeps
  <1>7. CASE HostTimeout
    BY <1>7, HostTimeoutKeeps
  <1> QED BY <1>1, <1>2, <1>3, <1>4, <1>5, <1>6, <1>7
          DEF BoardsNext, HostSteps, SlaveSteps

LEMMA BoardsInvariantHolds == BoardsSpec => []BoardsInv
  BY BoardsInitInv, BoardsStepKeeps, PTL DEF BoardsSpec

\* main.c:41 loads the answer to an exchange after it and engine.c:276 does not
\* look at whose answer it is: whatever the pace of the two boards and whatever
\* the line damages, a success the host records is an acknowledgement earned
\* strictly before its transaction, and no acknowledgement is counted twice.
THEOREM VerdictsLate == BoardsSpec => []VerdictsAreLate
PROOF
  <1>1. BoardsInv => VerdictsAreLate
    BY DEF BoardsInv
  <1> QED BY <1>1, BoardsInvariantHolds, PTL

LEMMA InvAgrees == BoardsInv => BoardsAgree
PROOF
  <1> SUFFICES ASSUME BoardsInv PROVE BoardsAgree
    OBVIOUS
  <1>1. /\ index \in Nat /\ Cardinality(believed) \in Nat
        /\ Cardinality(accepted) \in Nat
        /\ slave.txOk \in Nat /\ slave.txFailed \in Nat
    BY Numbers
  <1>2. host.txOk = Cardinality(believed) /\ slave.txOk = Cardinality(accepted)
    BY DEF BoardsInv, CountersAreSets
  <1>3. Cardinality(believed) <= Cardinality(accepted)
    <2> DEFINE held   == Bit(inTransfer /\ Acknowledged(reply))
               loaded == Bit(miso.ack = "ok")
               served == Bit(slavePc = "send" /\ response.ack = "ok")
    <2>1. Cardinality(believed) + held + loaded + served <= Cardinality(accepted)
      BY DEF BoardsInv, AnswersAreEarned
    <2>2. held \in {0, 1} /\ loaded \in {0, 1} /\ served \in {0, 1}
      BY BitType
    <2> HIDE DEF held, loaded, served
    <2> QED BY <1>1, <2>1, <2>2
  <1>4. "slave" \in wired =>
          slave.txOk + slave.txFailed + Cardinality(mosi)
            <= index + (IF inTransfer THEN 1 ELSE 0)
    <2> DEFINE busy == Bit(slavePc \in {"select", "transaction"})
    <2>1. "slave" \in wired =>
            slave.txOk + slave.txFailed + Cardinality(mosi) + busy
              <= index + (IF inTransfer THEN 1 ELSE 0)
      BY DEF BoardsInv, NothingInvented, Bit
    <2>2. busy \in {0, 1}
      BY BitType
    <2>3. Cardinality(mosi) \in {0, 1}
      BY BoxSize DEF BoardsInv, BoardsTypeOK
    <2> HIDE DEF busy
    <2> QED BY <1>1, <2>1, <2>2, <2>3
  <1> QED BY <1>2, <1>3, <1>4 DEF BoardsAgree

\* The two boards agree at any pace: the slave serves no exchange the host did
\* not make (main.c:33-42), and the successes of the host's counters are the
\* transactions it concluded as ok, at most as many as the slave accepted.
THEOREM BoardsAlwaysAgree == BoardsSpec => []BoardsAgree
  BY InvAgrees, BoardsInvariantHolds, PTL

-----------------------------------------------------------------------------
(* The counters on the wire.                                               *)

\* These octets stand in the message, after its first "off".
Holds(m, off, f) ==
  /\ off + Len(f) <= Len(m)
  /\ \A j \in 1 .. Len(f) : m[off + j] = f[j]

\* A message of n octets goes on with these, and loses none.
Extends(longer, m, n, f) ==
  /\ longer \in Seq(Octets) /\ Len(longer) = n + Len(f)
  /\ Holds(longer, n, f)
  /\ \A off \in Nat, g \in Seq(Octets) : Holds(m, off, g) => Holds(longer, off, g)

LEMMA FieldAppended ==
  ASSUME NEW m \in Seq(Octets), NEW f \in Seq(Octets)
  PROVE  Extends(m \o f, m, Len(m), f)
  BY DEF Holds, Extends

LEMMA FieldRead ==
  ASSUME NEW m \in Seq(Octets), NEW f \in Seq(Octets), NEW off \in Nat,
         Holds(m, off, f)
  PROVE  SubSeq(m, off + 1, off + Len(f)) = f
PROOF
  <1>1. Len(f) \in Nat /\ Len(m) \in Nat /\ off + Len(f) <= Len(m)
    BY DEF Holds
  <1>2. /\ SubSeq(m, off + 1, off + Len(f)) \in Seq(Octets)
        /\ Len(SubSeq(m, off + 1, off + Len(f))) = Len(f)
        /\ \A j \in 1 .. Len(f) :
             SubSeq(m, off + 1, off + Len(f))[j] = m[off + j]
    BY <1>1
  <1>3. \A j \in 1 .. Len(f) : m[off + j] = f[j]
    BY DEF Holds
  <1> DEFINE read == SubSeq(m, off + 1, off + Len(f))
  <1>4. read \in Seq(Octets) /\ Len(read) = Len(f) /\ \A j \in 1 .. Len(f) : read[j] = f[j]
    BY <1>2, <1>3
  <1> HIDE DEF read
  <1>5. read = f
    BY <1>4
  <1> QED BY <1>5 DEF read

LEMMA U32Read ==
  ASSUME NEW m \in Seq(Octets), NEW v \in 0 .. U32Mod - 1, NEW off \in Nat,
         Holds(m, off, PutU32(v))
  PROVE  GetU32(SubSeq(m, off + 1, off + 4)) = v
PROOF
  <1>1. PutU32(v) \in Seq(Octets) /\ Len(PutU32(v)) = 4 /\ GetU32(PutU32(v)) = v
    BY U32RoundTrip
  <1>2. SubSeq(m, off + 1, off + Len(PutU32(v))) = PutU32(v)
    BY <1>1, FieldRead
  <1> QED BY <1>1, <1>2

LEMMA U64Read ==
  ASSUME NEW m \in Seq(Octets), NEW v \in 0 .. U32Mod * U32Mod - 1,
         NEW off \in Nat, Holds(m, off, PutU64(v))
  PROVE  GetU64(SubSeq(m, off + 1, off + 8)) = v
PROOF
  <1>1. PutU64(v) \in Seq(Octets) /\ Len(PutU64(v)) = 8 /\ GetU64(PutU64(v)) = v
    BY U64RoundTrip
  <1>2. SubSeq(m, off + 1, off + Len(PutU64(v))) = PutU64(v)
    BY <1>1, FieldRead
  <1> QED BY <1>1, <1>2

\* The counters fit the fields of the message.
Reportable(c) ==
  /\ c \in Counts
  /\ \A v \in {c.txOk, c.txFailed, c.crcErrors, c.timeouts, c.irqs, c.resets,
               c.latencySamples} : v \in 0 .. U32Mod - 1
  /\ \A v \in {c.bytes, c.latencySum, c.latencyMax} : v \in 0 .. U32Mod * U32Mod - 1

LEMMA ReportDecodes ==
  ASSUME NEW c, Reportable(c)
  PROVE  DecodeCounters(EncodeCounters(c)) = [status |-> "ok", counters |-> c]
PROOF
  <1> DEFINE u == 0 .. U32Mod - 1
             w == 0 .. U32Mod * U32Mod - 1
             m1 == PutU32(c.txOk)
             m2 == m1 \o PutU32(c.txFailed)
             m3 == m2 \o PutU32(c.crcErrors)
             m4 == m3 \o PutU32(c.timeouts)
             m5 == m4 \o PutU32(c.irqs)
             m6 == m5 \o PutU32(c.resets)
             m7 == m6 \o PutU32(c.latencySamples)
             m8 == m7 \o PutU64(c.bytes)
             m9 == m8 \o PutU64(c.latencySum)
             m == m9 \o PutU64(c.latencyMax)
  <1>1. /\ c.txOk \in u /\ c.txFailed \in u /\ c.crcErrors \in u /\ c.timeouts \in u
        /\ c.irqs \in u /\ c.resets \in u /\ c.latencySamples \in u
        /\ c.bytes \in w /\ c.latencySum \in w /\ c.latencyMax \in w
    BY DEF Reportable
  <1>2. EncodeCounters(c) = m
    BY DEF EncodeCounters
  <1>3. \A v \in u : PutU32(v) \in Seq(Octets) /\ Len(PutU32(v)) = 4
    BY U32RoundTrip
  <1>4. \A v \in w : PutU64(v) \in Seq(Octets) /\ Len(PutU64(v)) = 8
    BY U64RoundTrip
  <1>5. \A k, f \in Seq(Octets) : Extends(k \o f, k, Len(k), f)
    BY FieldAppended
  <1>7. m1 \in Seq(Octets) /\ Len(m1) = 4 /\ Holds(m1, 0, PutU32(c.txOk))
    BY <1>1, <1>3 DEF Holds
  <1> HIDE DEF m1, u, w
  <1>8. /\ m2 \in Seq(Octets) /\ Len(m2) = 8
        /\ Extends(m2, m1, 4, PutU32(c.txFailed))
    <2>1. Extends(m2, m1, Len(m1), PutU32(c.txFailed))
      BY <1>1, <1>3, <1>5, <1>7
    <2> QED BY <1>1, <1>3, <1>7, <2>1 DEF Extends
  <1> HIDE DEF m2
  <1>9. /\ m3 \in Seq(Octets) /\ Len(m3) = 12
        /\ Extends(m3, m2, 8, PutU32(c.crcErrors))
    <2>1. Extends(m3, m2, Len(m2), PutU32(c.crcErrors))
      BY <1>1, <1>3, <1>5, <1>8
    <2> QED BY <1>1, <1>3, <1>8, <2>1 DEF Extends
  <1> HIDE DEF m3
  <1>10. /\ m4 \in Seq(Octets) /\ Len(m4) = 16
        /\ Extends(m4, m3, 12, PutU32(c.timeouts))
    <2>1. Extends(m4, m3, Len(m3), PutU32(c.timeouts))
      BY <1>1, <1>3, <1>5, <1>9
    <2> QED BY <1>1, <1>3, <1>9, <2>1 DEF Extends
  <1> HIDE DEF m4
  <1>11. /\ m5 \in Seq(Octets) /\ Len(m5) = 20
        /\ Extends(m5, m4, 16, PutU32(c.irqs))
    <2>1. Extends(m5, m4, Len(m4), PutU32(c.irqs))
      BY <1>1, <1>3, <1>5, <1>10
    <2> QED BY <1>1, <1>3, <1>10, <2>1 DEF Extends
  <1> HIDE DEF m5
  <1>12. /\ m6 \in Seq(Octets) /\ Len(m6) = 24
        /\ Extends(m6, m5, 20, PutU32(c.resets))
    <2>1. Extends(m6, m5, Len(m5), PutU32(c.resets))
      BY <1>1, <1>3, <1>5, <1>11
    <2> QED BY <1>1, <1>3, <1>11, <2>1 DEF Extends
  <1> HIDE DEF m6
  <1>13. /\ m7 \in Seq(Octets) /\ Len(m7) = 28
        /\ Extends(m7, m6, 24, PutU32(c.latencySamples))
    <2>1. Extends(m7, m6, Len(m6), PutU32(c.latencySamples))
      BY <1>1, <1>3, <1>5, <1>12
    <2> QED BY <1>1, <1>3, <1>12, <2>1 DEF Extends
  <1> HIDE DEF m7
  <1>14. /\ m8 \in Seq(Octets) /\ Len(m8) = 36
        /\ Extends(m8, m7, 28, PutU64(c.bytes))
    <2>1. Extends(m8, m7, Len(m7), PutU64(c.bytes))
      BY <1>1, <1>4, <1>5, <1>13
    <2>2. Len(PutU64(c.bytes)) = 8 /\ Len(m7) = 28
      BY <1>1, <1>4, <1>13
    <2> QED BY <2>1, <2>2 DEF Extends
  <1> HIDE DEF m8
  <1>15. /\ m9 \in Seq(Octets) /\ Len(m9) = 44
        /\ Extends(m9, m8, 36, PutU64(c.latencySum))
    <2>1. Extends(m9, m8, Len(m8), PutU64(c.latencySum))
      BY <1>1, <1>4, <1>5, <1>14
    <2> QED BY <1>1, <1>4, <1>14, <2>1 DEF Extends
  <1> HIDE DEF m9
  <1>16. /\ m \in Seq(Octets) /\ Len(m) = 52
        /\ Extends(m, m9, 44, PutU64(c.latencyMax))
    <2>1. Extends(m, m9, Len(m9), PutU64(c.latencyMax))
      BY <1>1, <1>4, <1>5, <1>15
    <2> QED BY <1>1, <1>4, <1>15, <2>1 DEF Extends
  <1> HIDE DEF m
  <1>17. /\ Holds(m, 0, PutU32(c.txOk)) /\ Holds(m, 4, PutU32(c.txFailed))
         /\ Holds(m, 8, PutU32(c.crcErrors)) /\ Holds(m, 12, PutU32(c.timeouts))
         /\ Holds(m, 16, PutU32(c.irqs))
    <2>1. /\ PutU32(c.txOk) \in Seq(Octets) /\ PutU32(c.txFailed) \in Seq(Octets)
          /\ PutU32(c.crcErrors) \in Seq(Octets) /\ PutU32(c.timeouts) \in Seq(Octets)
          /\ PutU32(c.irqs) \in Seq(Octets)
      BY <1>1, <1>3
    <2> QED BY <1>7, <1>8, <1>9, <1>10, <1>11, <1>12, <1>13, <1>14, <1>15, <1>16, <2>1
         DEF Extends
  <1>18. /\ Holds(m, 20, PutU32(c.resets)) /\ Holds(m, 24, PutU32(c.latencySamples))
         /\ Holds(m, 28, PutU64(c.bytes)) /\ Holds(m, 36, PutU64(c.latencySum))
         /\ Holds(m, 44, PutU64(c.latencyMax))
    <2>1. /\ PutU32(c.resets) \in Seq(Octets) /\ PutU32(c.latencySamples) \in Seq(Octets)
          /\ PutU64(c.bytes) \in Seq(Octets) /\ PutU64(c.latencySum) \in Seq(Octets)
      BY <1>1, <1>3, <1>4
    <2> QED BY <1>12, <1>13, <1>14, <1>15, <1>16, <2>1
         DEF Extends
  <1>19. \A v \in u, off \in Nat :
           Holds(m, off, PutU32(v)) => GetU32(SubSeq(m, off + 1, off + 4)) = v
    BY <1>16, U32Read DEF u
  <1>20. \A v \in w, off \in Nat :
           Holds(m, off, PutU64(v)) => GetU64(SubSeq(m, off + 1, off + 8)) = v
    BY <1>16, U64Read DEF w
  <1>21. /\ GetU32(SubSeq(m, 0 + 1, 0 + 4)) = c.txOk
         /\ GetU32(SubSeq(m, 4 + 1, 4 + 4)) = c.txFailed
         /\ GetU32(SubSeq(m, 8 + 1, 8 + 4)) = c.crcErrors
         /\ GetU32(SubSeq(m, 12 + 1, 12 + 4)) = c.timeouts
         /\ GetU32(SubSeq(m, 16 + 1, 16 + 4)) = c.irqs
         /\ GetU32(SubSeq(m, 20 + 1, 20 + 4)) = c.resets
         /\ GetU32(SubSeq(m, 24 + 1, 24 + 4)) = c.latencySamples
         /\ GetU64(SubSeq(m, 28 + 1, 28 + 8)) = c.bytes
         /\ GetU64(SubSeq(m, 36 + 1, 36 + 8)) = c.latencySum
         /\ GetU64(SubSeq(m, 44 + 1, 44 + 8)) = c.latencyMax
    BY <1>1, <1>17, <1>18, <1>19, <1>20
  <1>22. DecodeCounters(m) =
           [status |-> "ok",
            counters |->
              [txOk |-> c.txOk, txFailed |-> c.txFailed, crcErrors |-> c.crcErrors,
               timeouts |-> c.timeouts, irqs |-> c.irqs, resets |-> c.resets,
               latencySamples |-> c.latencySamples, bytes |-> c.bytes,
               latencySum |-> c.latencySum, latencyMax |-> c.latencyMax]]
    BY <1>16, <1>21 DEF DecodeCounters, CountersWireSize
  <1>23. c = [txOk |-> c.txOk, txFailed |-> c.txFailed, crcErrors |-> c.crcErrors,
              timeouts |-> c.timeouts, irqs |-> c.irqs, resets |-> c.resets,
              latencySamples |-> c.latencySamples, bytes |-> c.bytes,
              latencySum |-> c.latencySum, latencyMax |-> c.latencyMax]
    BY DEF Reportable, Counts
  <1> QED BY <1>2, <1>22, <1>23

-----------------------------------------------------------------------------
(* The counters it is made of.                                             *)

\* Whatever the clock's period, what two readings tell is not more than what
\* passed between them.
LEMMA ReadingsNeverFlatter ==
  ASSUME NEW m \in Nat \ {0}, NEW b \in Nat, NEW t \in Nat, b <= t
  PROVE  ((t % m) - (b % m)) % m \in 0 .. t - b
PROOF
  <1> DEFINE p == t \div m
             q == b \div m
             e == t % m
             s == b % m
  <1>1. /\ e \in 0 .. m - 1 /\ s \in 0 .. m - 1 /\ p \in Nat /\ q \in Nat
        /\ t = m * p + e /\ b = m * q + s
    BY NaturalDivision
  <1> HIDE DEF p, q, e, s
  <1>2. t - b = m * (p - q) + (e - s) /\ p - q \in Int
    BY <1>1
  <1>3. p - q >= 0
    <2>1. ASSUME p - q <= -1 PROVE FALSE
      <3>1. m * (p - q) <= -m
        BY <1>2, <2>1
      <3> QED BY <1>1, <1>2, <3>1
    <2> QED BY <1>2, <2>1
  <1>4. CASE e >= s
    <2>1. (e - s) % m = e - s
      <3>1. e - s \in 0 .. m - 1
        BY <1>1, <1>4
      <3> QED BY <3>1, SmallRemainder
    <2>2. m * (p - q) >= 0
      BY <1>2, <1>3
    <2> QED BY <1>1, <1>2, <1>4, <2>1, <2>2 DEF e, s
  <1>5. CASE e < s
    <2>1. (e - s) % m = e - s + m
      <3>1. e - s + m \in 0 .. m - 1 /\ m * (-1) + (e - s + m) = e - s
        BY <1>1, <1>5
      <3>2. (m * (-1) + (e - s + m)) % m = e - s + m
        BY <3>1, RemainderUnique
      <3> QED BY <3>1, <3>2
    <2>2. p - q >= 1
      BY <1>1, <1>2, <1>3, <1>5
    <2>3. m * (p - q) >= m
      BY <1>2, <2>2
    <2> QED BY <1>1, <1>2, <1>5, <2>1, <2>3 DEF e, s
  <1> QED BY <1>1, <1>4, <1>5

\* The counters after n transactions, in a run that took so many ticks.
Bounded(c, n, ticks) ==
  /\ c \in Counts
  /\ c.txOk <= U32Max /\ c.txFailed <= U32Max /\ c.crcErrors <= U32Max
  /\ c.timeouts <= U32Max /\ c.irqs <= U32Max /\ c.latencySamples <= U32Max
  /\ c.bytes <= MaxPayload * n
  /\ c.latencySum <= ticks /\ c.latencyMax <= c.latencySum

LEMMA SatIncBounded ==
  ASSUME NEW n \in Nat, n <= U32Max
  PROVE  SatInc(n) \in Nat /\ SatInc(n) <= U32Max
  BY U32MaxAssumption DEF SatInc

LEMMA EventBounded ==
  ASSUME NEW c, NEW n \in Nat, NEW t \in Nat, Bounded(c, n, t)
  PROVE  /\ Bounded(WithCrcError(c), n, t) /\ Bounded(WithTimeout(c), n, t)
         /\ Bounded(WithIrq(c), n, t)
PROOF
  <1>1. c \in Counts
    BY DEF Bounded
  <1>2. WithCrcError(c) \in Counts /\ WithTimeout(c) \in Counts /\ WithIrq(c) \in Counts
    BY <1>1, WithEventType
  <1>3. /\ SatInc(c.crcErrors) <= U32Max /\ SatInc(c.timeouts) <= U32Max
        /\ SatInc(c.irqs) <= U32Max
    BY <1>1, SatIncBounded DEF Bounded, Counts
  <1>4. Bounded(WithCrcError(c), n, t)
    BY <1>2, <1>3 DEF Bounded, WithCrcError, Counts
  <1>5. Bounded(WithTimeout(c), n, t)
    BY <1>2, <1>3 DEF Bounded, WithTimeout, Counts
  <1>6. Bounded(WithIrq(c), n, t)
    BY <1>2, <1>3 DEF Bounded, WithIrq, Counts
  <1> QED BY <1>4, <1>5, <1>6

LEMMA MaxIsOne ==
  ASSUME NEW a \in Nat, NEW b \in Nat
  PROVE  Max({a, b}) \in {a, b}
PROOF
  <1>1. \E x \in {a, b} : \A y \in {a, b} : x >= y
    OBVIOUS
  <1> QED BY <1>1 DEF Max

LEMMA TxBounded ==
  ASSUME NEW c, NEW n \in Nat, NEW t \in Nat, Bounded(c, n, t),
         NEW ok \in BOOLEAN, NEW bytes \in 0 .. MaxPayload, NEW latency \in Nat
  PROVE  Bounded(WithTx(c, ok, bytes, latency), n + 1, t + latency)
PROOF
  <1> DEFINE d == WithTx(c, ok, bytes, latency)
  <1>1. c \in Counts /\ bytes \in Nat /\ bytes <= MaxPayload /\ MaxPayload = 256
    BY DEF Bounded, MaxPayload
  <1>2. d \in Counts
    BY <1>1, WithTxType
  <1>3. /\ SatInc(c.txOk) <= U32Max /\ SatInc(c.txFailed) <= U32Max
        /\ SatInc(c.latencySamples) <= U32Max
    BY <1>1, SatIncBounded DEF Bounded, Counts
  <1>4. Max({c.latencyMax, latency}) \in {c.latencyMax, latency}
    BY <1>1, MaxIsOne DEF Counts
  <1>5. /\ d.txOk = (IF ok THEN SatInc(c.txOk) ELSE c.txOk)
        /\ d.txFailed = (IF ok THEN c.txFailed ELSE SatInc(c.txFailed))
        /\ d.crcErrors = c.crcErrors /\ d.timeouts = c.timeouts /\ d.irqs = c.irqs
        /\ d.bytes = c.bytes + bytes /\ d.latencySum = c.latencySum + latency
        /\ d.latencyMax = Max({c.latencyMax, latency})
        /\ d.latencySamples = SatInc(c.latencySamples)
    BY <1>1 DEF WithTx, Counts
  <1>6. /\ c.txOk <= U32Max /\ c.txFailed <= U32Max /\ c.crcErrors <= U32Max
        /\ c.timeouts <= U32Max /\ c.irqs <= U32Max
        /\ c.bytes <= MaxPayload * n /\ c.latencySum <= t
        /\ c.latencyMax <= c.latencySum
        /\ c.bytes \in Nat /\ c.latencySum \in Nat /\ c.latencyMax \in Nat
    BY <1>1 DEF Bounded, Counts
  <1> HIDE DEF d
  <1>7. d.bytes <= MaxPayload * (n + 1)
    BY <1>1, <1>5, <1>6
  <1>8. d.latencySum <= t + latency /\ d.latencyMax <= d.latencySum
    BY <1>4, <1>5, <1>6
  <1> QED BY <1>2, <1>3, <1>5, <1>6, <1>7, <1>8 DEF Bounded, d

LEMMA OutcomeBounded ==
  ASSUME TypeOK, NEW c, NEW n \in Nat, NEW t \in Nat, Bounded(c, n, t),
         NEW latency \in Nat
  PROVE  Bounded(CountOutcome(c, latency), n + 1, t + latency)
PROOF
  <1> DEFINE crc == WithCrcError(c)
             tmo == WithTimeout(c)
  <1>1. Bounded(crc, n, t) /\ Bounded(tmo, n, t)
    BY EventBounded
  <1>2. PacketSize \in 0 .. MaxPayload /\ 0 \in 0 .. MaxPayload
    <2>1. PacketSize \in Nat /\ profile.packetSize \in Nat /\ MaxPayload = 256
      BY Facts DEF ProfileType, MaxPayload
    <2>2. PacketSize <= MaxPayload
      <3>1. \E x \in {profile.packetSize, MaxPayload} :
              \A y \in {profile.packetSize, MaxPayload} : x <= y
        BY <2>1
      <3> QED BY <2>1, <3>1 DEF PacketSize, Min
    <2> QED BY <2>1, <2>2
  <1>3. \/ CountOutcome(c, latency) = WithTx(tmo, FALSE, 0, latency)
        \/ CountOutcome(c, latency) = WithTx(c, FALSE, 0, latency)
        \/ CountOutcome(c, latency) = WithTx(c, TRUE, PacketSize, latency)
        \/ CountOutcome(c, latency) = WithTx(crc, FALSE, PacketSize, latency)
    BY OutcomeType DEF CountOutcome
  <1> HIDE DEF crc, tmo
  <1>4. \A d : \A ok \in BOOLEAN, bytes \in 0 .. MaxPayload :
          Bounded(d, n, t) => Bounded(WithTx(d, ok, bytes, latency), n + 1, t + latency)
    BY TxBounded
  <1> QED BY <1>1, <1>2, <1>3, <1>4

\* The counters know of the time up to the transaction in progress.
CountersBounded == Bounded(host, index, IF inTransfer THEN txn.begun ELSE time)

LEMMA BoundedInit == BoardsInit => CountersBounded
PROOF
  <1> SUFFICES ASSUME BoardsInit PROVE CountersBounded
    OBVIOUS
  <1>1. host = NoCounts /\ index = 0 /\ inTransfer = FALSE /\ time = 0
    BY DEF BoardsInit, Init, LinkInit
  <1>2. NoCounts \in Counts /\ U32Max \in Nat /\ MaxPayload = 256
    BY U32MaxAssumption DEF NoCounts, Counts, MaxPayload
  <1>3. Bounded(NoCounts, 0, 0)
    BY <1>2 DEF Bounded, NoCounts
  <1> QED BY <1>1, <1>3 DEF CountersBounded

\* An exchange leaves the counters alone; the time it begins at is the one the
\* counters know of.
LEMMA TransferKeepsBounds ==
  ASSUME CountersBounded, HostTransfer
  PROVE  CountersBounded'
PROOF
  <1>1. /\ ~inTransfer /\ inTransfer' = TRUE
        /\ txn' = TxnBegin
        /\ UNCHANGED <<index, host>>
    BY DEF HostTransfer, BeginTransfer, Begin
  <1>2. txn'.begun = time
    BY <1>1 DEF TxnBegin
  <1> QED BY <1>1, <1>2 DEF CountersBounded

\* A transaction in progress began before now.
LEMMA BegunBefore ==
  ASSUME BoardsInv, inTransfer
  PROVE  /\ txn \in TxnType /\ txn.begun \in Nat /\ txn.start = txn.begun % TickMod
         /\ time \in Nat /\ txn.begun <= time
PROOF
  <1>1. TypeOK /\ InFlight
    BY DEF BoardsInv, BoardsTypeOK
  <1>2. txn \in TxnType /\ time \in Nat
    BY <1>1, Facts DEF TypeOK
  <1>3. txn.begun \in Nat
    BY <1>2 DEF TxnType
  <1>4. time - txn.begun \in Latencies \cup {0} /\ txn.start = txn.begun % TickMod
    BY <1>1 DEF InFlight
  <1>5. Latencies \cup {0} \subseteq Nat
    BY EngineAssumption
  <1> QED BY <1>2, <1>3, <1>4, <1>5

\* A transaction adds to the counters at most what it carried and the time that
\* it took.
LEMMA ConcludeKeepsBounds ==
  ASSUME BoardsInv, CountersBounded, HostConclude
  PROVE  CountersBounded'
PROOF
  <1> DEFINE t   == TxnAdvance(txn, PacketSize, Now)
             lat == TxnLatency(t, Now)
  <1>1. TypeOK /\ ConcludeTransfer
    BY DEF BoardsInv, BoardsTypeOK, HostConclude
  <1>2. /\ inTransfer /\ inTransfer' = FALSE /\ index' = index + 1
        /\ host' = CountOutcome(ReadIrq(host), lat)
        /\ time' = Delayed(time, profile.interDelay)
    BY <1>1 DEF ConcludeTransfer
  <1>3. /\ txn \in TxnType /\ txn.begun \in Nat /\ txn.start = txn.begun % TickMod
        /\ index \in Nat /\ time \in Nat /\ txn.begun <= time
    BY <1>2, BegunBefore, Numbers
  <1>4. lat \in 0 .. time - txn.begun
    <2>1. Elapsed(txn.start, Now) \in 0 .. time - txn.begun
      BY <1>3, EngineAssumption, ReadingsNeverFlatter DEF Elapsed, Now
    <2>2. t.start = txn.start
      BY <1>3 DEF TxnAdvance, TxnType
    <2>3. lat = Elapsed(txn.start, Now) \/ lat = 0
      BY <2>2 DEF TxnLatency
    <2> QED BY <1>3, <2>1, <2>3
  <1> HIDE DEF lat
  <1>5. Bounded(ReadIrq(host), index, txn.begun)
    <2>1. Bounded(host, index, txn.begun)
      BY <1>2 DEF CountersBounded
    <2> QED BY <1>3, <2>1, EventBounded DEF ReadIrq
  <1>6. Bounded(host', index + 1, txn.begun + lat)
    BY <1>1, <1>2, <1>3, <1>4, <1>5, OutcomeBounded
  <1>7. time' \in Nat /\ time <= time'
    <2>1. profile.interDelay \in Nat
      BY <1>1, Facts
    <2> QED BY <1>2, <1>3, <2>1 DEF Delayed, SimDelay
  <1>8. Bounded(host', index + 1, time')
    <2>1. host'.latencySum \in Nat
      BY <1>6 DEF Bounded, Counts
    <2> QED BY <1>3, <1>4, <1>6, <1>7, <2>1 DEF Bounded
  <1> QED BY <1>2, <1>8 DEF CountersBounded

LEMMA WaitGoesOn ==
  ASSUME NEW t \in Nat, NEW ticks \in Nat
  PROVE  Delayed(t, ticks) \in Nat /\ t <= Delayed(t, ticks)
  BY EngineAssumption DEF Delayed, SimDelay

\* A declared timeout adds to the latencies at most the time it was waited for.
LEMMA TimeoutKeepsBounds ==
  ASSUME BoardsInv, CountersBounded, HostTimeout
  PROVE  CountersBounded'
PROOF
  <1> DEFINE end == Delayed(time, profile.timeout)
             at  == end % TickMod
             t   == TxnAdvance(TxnBegin, 0, at)
             lat == TxnLatency(t, at)
  <1>1. TypeOK /\ DeclaredTimeout
    BY DEF BoardsInv, BoardsTypeOK, HostTimeout
  <1>2. /\ ~inTransfer /\ inTransfer' = inTransfer /\ index' = index + 1
        /\ host' = WithTx(WithTimeout(host), FALSE, 0, lat)
        /\ time' = Delayed(end, profile.interDelay)
    BY <1>1 DEF DeclaredTimeout, Begin
  <1>3. /\ index \in Nat /\ time \in Nat /\ end \in Nat /\ time <= end
        /\ time' \in Nat /\ end <= time'
    <2>1. /\ index \in Nat /\ time \in Nat
          /\ profile.timeout \in Nat /\ profile.interDelay \in Nat
      BY <1>1, Facts
    <2>2. end \in Nat /\ time <= end
      BY <2>1, WaitGoesOn
    <2>3. time' \in Nat /\ end <= time'
      BY <1>2, <2>1, <2>2, WaitGoesOn
    <2> QED BY <2>1, <2>2, <2>3
  <1>4. lat \in 0 .. end - time
    <2>1. (at - (time % TickMod)) % TickMod \in 0 .. end - time
      <3> HIDE DEF end
      <3> QED BY <1>3, EngineAssumption, ReadingsNeverFlatter
    <2>2. t.start = time % TickMod
      BY <1>1 DEF TxnAdvance, TxnBegin, Now
    <2>3. lat = Elapsed(t.start, at) \/ lat = 0
      BY DEF TxnLatency
    <2> HIDE DEF lat, t, at, end
    <2> QED BY <1>3, <2>1, <2>2, <2>3 DEF Elapsed
  <1> HIDE DEF lat, end
  <1>5. Bounded(WithTimeout(host), index, time)
    <2>1. Bounded(host, index, time)
      BY <1>2 DEF CountersBounded
    <2> QED BY <1>3, <2>1, EventBounded
  <1>6. Bounded(host', index + 1, time + lat)
    <2>1. 0 \in 0 .. MaxPayload /\ FALSE \in BOOLEAN /\ lat \in Nat
      BY <1>4 DEF MaxPayload
    <2> QED BY <1>2, <1>3, <1>5, <2>1, TxBounded
  <1>7. Bounded(host', index + 1, time')
    <2>1. host'.latencySum \in Nat
      BY <1>6 DEF Bounded, Counts
    <2> QED BY <1>3, <1>4, <1>6, <2>1 DEF Bounded
  <1> QED BY <1>2, <1>7 DEF CountersBounded

LEMMA BoundsStep ==
  BoardsInv /\ CountersBounded /\ [BoardsNext]_<<vars, boardVars>>
    => CountersBounded'
PROOF
  <1> SUFFICES ASSUME BoardsInv, CountersBounded, [BoardsNext]_<<vars, boardVars>>
               PROVE  CountersBounded'
    OBVIOUS
  <1>1. CASE HostTransfer
    BY <1>1, TransferKeepsBounds
  <1>2. CASE HostConclude
    BY <1>2, ConcludeKeepsBounds
  <1>3. CASE HostTimeout
    BY <1>3, TimeoutKeepsBounds
  <1>4. CASE HostReport \/ SlaveSteps \/ UNCHANGED <<vars, boardVars>>
    <2>1. UNCHANGED <<host, index, inTransfer, txn, time>>
      BY <1>4 DEF HostReport, SlaveSteps, SlaveRecv, SlaveOnSelect, SlaveServe,
                  SlaveSend, vars, hostVars
    <2> QED BY <2>1 DEF CountersBounded
  <1> QED BY <1>1, <1>2, <1>3, <1>4 DEF BoardsNext, HostSteps

\* A run that ends before a clock of eight octets would wrap.
ShortRun == time < U32Mod * U32Mod

\* Counters so bounded, saturated or not, fit their fields.  The sum of latencies
\* is only bounded by the length of the run; nothing else has to be.
LEMMA BoundedReadBack ==
  ASSUME BoardsInv, CountersBounded, ShortRun
  PROVE  CountersReadBack
PROOF
  <1> SUFFICES Reportable(host)
    BY ReportDecodes DEF CountersReadBack
  <1>1. Bounded(host, index, time)
    <2>1. CASE inTransfer
      <3>1. txn.begun \in Nat /\ time \in Nat /\ txn.begun <= time
        BY <2>1, BegunBefore
      <3>2. Bounded(host, index, txn.begun) /\ host.latencySum \in Nat
        BY <2>1 DEF CountersBounded, Bounded, Counts
      <3> QED BY <3>1, <3>2 DEF Bounded
    <2>2. CASE ~inTransfer
      BY <2>2 DEF CountersBounded
    <2> QED BY <2>1, <2>2
  <1>2. /\ index \in Nat /\ index <= U32Max /\ time \in Nat
    <2>1. TypeOK
      BY DEF BoardsInv, BoardsTypeOK
    <2>2. /\ index \in Nat /\ profile.count \in Nat /\ index <= profile.count
          /\ profile.count <= U32Max
      BY Numbers
    <2>3. time \in Nat
      BY <2>1, Facts
    <2> QED BY <2>2, <2>3, U32MaxAssumption
  <1>3. U32Max = U32Mod - 1 /\ U32Mod \in Nat /\ U32Mod >= 256
    <2>1. OctetMod \in Nat /\ OctetMod >= 7
      BY ProtocolAssumption
    <2>2. U16Mod \in Nat /\ U16Mod >= 49
      <3>1. OctetMod * OctetMod >= OctetMod * 7 /\ OctetMod * OctetMod \in Nat
        BY <2>1
      <3> QED BY <2>1, <3>1 DEF U16Mod
    <2>3. U32Mod \in Nat /\ U32Mod >= 256
      <3>1. U16Mod * U16Mod >= U16Mod * 49 /\ U16Mod * U16Mod \in Nat
        BY <2>2
      <3> QED BY <2>2, <3>1 DEF U32Mod
    <2> QED BY <2>3, BoardsAssumption
  <1>4. /\ host.txOk \in Nat /\ host.txFailed \in Nat /\ host.crcErrors \in Nat
        /\ host.timeouts \in Nat /\ host.irqs \in Nat /\ host.resets = 0
        /\ host.latencySamples \in Nat /\ host.bytes \in Nat
        /\ host.latencySum \in Nat /\ host.latencyMax \in Nat /\ host \in Counts
    BY <1>1 DEF Bounded, Counts
  <1>5. /\ host.txOk <= U32Max /\ host.txFailed <= U32Max /\ host.crcErrors <= U32Max
        /\ host.timeouts <= U32Max /\ host.irqs <= U32Max
        /\ host.latencySamples <= U32Max
        /\ host.bytes <= 256 * index
        /\ host.latencySum <= time /\ host.latencyMax <= host.latencySum
    BY <1>1 DEF Bounded, MaxPayload
  <1> DEFINE w == U32Mod * U32Mod
  <1>6. w \in Nat /\ 256 * U32Mod <= w
    BY <1>3
  <1>7. host.bytes < w
    <2>1. 256 * index <= 256 * U32Mod - 256 /\ 256 * index \in Nat
      BY <1>2, <1>3
    <2>2. host.bytes < 256 * U32Mod /\ 256 * U32Mod \in Nat
      BY <1>3, <1>4, <1>5, <2>1
    <2> HIDE DEF w
    <2> QED BY <1>4, <1>6, <2>2
  <1>8. host.latencySum < w /\ host.latencyMax < w
    BY <1>2, <1>4, <1>5, <1>6 DEF ShortRun
  <1>9. /\ host.bytes \in 0 .. w - 1 /\ host.latencySum \in 0 .. w - 1
        /\ host.latencyMax \in 0 .. w - 1
    BY <1>4, <1>6, <1>7, <1>8
  <1> HIDE DEF w
  <1>10. \A v \in {host.txOk, host.txFailed, host.crcErrors, host.timeouts, host.irqs,
                   host.resets, host.latencySamples} : v \in 0 .. U32Mod - 1
    BY <1>3, <1>4, <1>5
  <1> QED BY <1>4, <1>9, <1>10 DEF Reportable, w

\* protocol.c:76-112: what the encoder makes of the counters that an engine on
\* its board has at any time, each of which fits its field, the decoder reads back
\* as those counters, in a run shorter than the period of a 64-bit clock.
THEOREM CountersAreReadBack == BoardsSpec /\ []ShortRun => []CountersReadBack
PROOF
  <1>1. BoardsSpec => []CountersBounded
    BY BoundedInit, BoundsStep, BoardsInvariantHolds, PTL DEF BoardsSpec
  <1>2. BoardsInv /\ CountersBounded /\ ShortRun => CountersReadBack
    BY BoundedReadBack
  <1> QED BY <1>1, <1>2, BoardsInvariantHolds, PTL

=============================================================================
