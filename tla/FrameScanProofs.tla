--------------------------- MODULE FrameScanProofs --------------------------
(***************************************************************************)
(* Proofs about FrameScan: for every set of payloads, every marker and any *)
(* number of frames and accidents, what the parser reads is what was sent, *)
(* it reads every intact frame away from the end of the file, and the two  *)
(* decoders accept the same octets.                                        *)
(*                                                                         *)
(* All of it rests on where the octets of a capture come from: an accident *)
(* alters or removes octets but never moves one before another, and no     *)
(* plain octet is a CRC.                                                   *)
(***************************************************************************)
EXTENDS FrameScan, TLAPS

FrameType == [n : Nat, payload : Seq(Nat)]
OctetType == [v : Seq(Nat), of : Nat, at : Nat]

ScanTypeOK ==
  /\ sent \in Seq(FrameType)
  /\ capture \in Seq(OctetType)
  /\ frames \in Seq(FrameType)
  /\ off \in 0 .. Len(capture)
  /\ scanning \in BOOLEAN
  /\ ~scanning => off = 0 /\ frames = <<>>

\* The place of a frame's CRC, after its fields.
CrcPlace(frame) == Overhead + Len(frame.payload)

SentInv ==
  /\ Len(sent) <= MaxSent
  /\ \A k \in 1 .. Len(sent) :
       sent[k].n = k - 1 /\ sent[k].payload \in Payloads

\* An octet of the capture was altered, or is an octet of a frame sent.
CaptureInv ==
  \A i \in 1 .. Len(capture) :
    \/ capture[i].of = 0 /\ \E v \in Damaged : capture[i].v = <<v>>
    \/ /\ capture[i].of \in 1 .. Len(sent)
       /\ capture[i].at \in 1 .. CrcPlace(sent[capture[i].of])
       /\ capture[i].v = Encode(sent[capture[i].of])[capture[i].at]

Earlier(x, y) == x.of < y.of \/ (x.of = y.of /\ x.at < y.at)

\* The octets that were not altered are in the order of emission.
OrderInv ==
  \A i, j \in 1 .. Len(capture) :
    i < j /\ capture[i].of # 0 /\ capture[j].of # 0
      => Earlier(capture[i], capture[j])

\* A frame decoded is the one whose CRC octet, behind the parser, told it.
ReadFrom(f, k, i) ==
  f = sent[k] /\ capture[i].of = k /\ capture[i].at = CrcPlace(f)

FramesInv ==
  /\ \A j \in 1 .. Len(frames) : 
       \E k \in 1 .. Len(sent), i \in 1 .. off : ReadFrom(frames[j], k, i)
  /\ \A j, l \in 1 .. Len(frames) : j < l => frames[j].n < frames[l].n

\* No intact frame is behind the parser without having been read.
IntactInv ==
  scanning =>
    \A k \in 1 .. Len(sent), o \in 0 .. End - MaxFrame :
      Intact(o, k) => off <= o \/ \E j \in 1 .. Len(frames) : frames[j] = sent[k]

ScanInv == ScanTypeOK /\ SentInv /\ CaptureInv /\ OrderInv /\ FramesInv

-----------------------------------------------------------------------------
(* Encoding.                                                               *)

LEMMA LastIs == ASSUME NEW x PROVE Last(<<x>>) = x
  BY DEF Last

LEMMA PlainIs ==
  ASSUME NEW x \in Nat
  PROVE  /\ <<x>> \in Seq(Nat) /\ Last(<<x>>) = x
         /\ Len(<<x>>) >= 1 /\ Len(<<x>>) <= 1
  BY DEF Last

\* A frame on the line: its fields, one octet each, and their CRC, which is not
\* one value long.
LEMMA EncodeIs ==
  ASSUME NEW f \in FrameType
  PROVE  /\ Fields(f) \in Seq(Nat) /\ Encode(f) \in Seq(Seq(Nat))
         /\ Len(Fields(f)) = HeaderSize + Len(f.payload)
         /\ Fields(f)[1] = Marker /\ Fields(f)[2] = f.n
         /\ Fields(f)[3] = Len(f.payload)
         /\ \A i \in 1 .. Len(f.payload) : Fields(f)[HeaderSize + i] = f.payload[i]
         /\ Len(Encode(f)) = CrcPlace(f)
         /\ \A i \in 1 .. HeaderSize + Len(f.payload) :
              Encode(f)[i] = <<Fields(f)[i]>>
         /\ Encode(f)[CrcPlace(f)] = Fields(f)
PROOF
  <1> DEFINE s    == Fields(f)
             n    == HeaderSize + Len(f.payload)
             body == [i \in DOMAIN s |-> <<s[i]>>]
  <1>1. f.payload \in Seq(Nat) /\ f.n \in Nat /\ Len(f.payload) \in Nat
    BY DEF FrameType
  <1>2. Marker \in Nat
    BY ScanAssumption
  <1>3. /\ s \in Seq(Nat) /\ Len(s) = n /\ n \in Nat
        /\ s[1] = Marker /\ s[2] = f.n /\ s[3] = Len(f.payload)
        /\ \A i \in 1 .. Len(f.payload) : s[HeaderSize + i] = f.payload[i]
    BY <1>1, <1>2 DEF Fields, HeaderSize
  <1>4. DOMAIN s = 1 .. n
    BY <1>3
  <1> HIDE DEF s
  <1>5. body \in Seq(Seq(Nat)) /\ Len(body) = n
    <2>1. \A i \in 1 .. n : <<s[i]>> \in Seq(Nat)
      BY <1>3
    <2>2. body \in [1 .. n -> Seq(Nat)]
      BY <1>4, <2>1
    <2> HIDE DEF n, body
    <2> QED BY <1>3, <2>2
  <1>6. \A i \in 1 .. n : body[i] = <<s[i]>>
    BY <1>4
  <1>7. Crc(body) = s
    <2>1. DOMAIN body = 1 .. n
      BY <1>4
    <2>2. Crc(body) = [i \in 1 .. n |-> s[i]]
      BY <1>6, <2>1, LastIs DEF Crc
    <2>3. \A i \in 1 .. n : s[i] \in Nat
      BY <1>3
    <2> HIDE DEF n, body
    <2>4. /\ Crc(body) \in Seq(Nat) /\ Len(Crc(body)) = n
          /\ \A i \in 1 .. n : Crc(body)[i] = s[i]
      BY <1>3, <2>2, <2>3
    <2> QED BY <1>3, <2>4
  <1>8. Encode(f) = Append(body, Crc(body))
    BY DEF Encode, s
  <1> HIDE DEF body
  <1>9. /\ Encode(f) \in Seq(Seq(Nat)) /\ Len(Encode(f)) = n + 1
        /\ \A i \in 1 .. n : Encode(f)[i] = body[i]
        /\ Encode(f)[n + 1] = s
    BY <1>3, <1>5, <1>7, <1>8
  <1>10. CrcPlace(f) = n + 1
    BY <1>1 DEF CrcPlace, Overhead, HeaderSize
  <1> QED BY <1>3, <1>6, <1>9, <1>10 DEF s

\* An octet of a frame: a plain one shows its field, only the CRC is longer.
LEMMA OctetOfFrame ==
  ASSUME NEW f \in FrameType, NEW a \in 1 .. CrcPlace(f)
  PROVE  /\ Encode(f)[a] \in Seq(Nat) /\ Len(Encode(f)[a]) >= 1
         /\ a < CrcPlace(f) =>
              Len(Encode(f)[a]) <= 1 /\ Last(Encode(f)[a]) = Fields(f)[a]
         /\ a = CrcPlace(f) => Encode(f)[a] = Fields(f)
PROOF
  <1>1. Len(f.payload) \in Nat
    BY DEF FrameType
  <1>2. CASE a < CrcPlace(f)
    <2>1. a \in 1 .. HeaderSize + Len(f.payload)
      BY <1>1, <1>2 DEF CrcPlace, Overhead, HeaderSize
    <2>2. Encode(f)[a] = <<Fields(f)[a]>> /\ Fields(f)[a] \in Nat
      BY <2>1, EncodeIs
    <2> QED BY <1>2, <2>2, PlainIs
  <1>3. CASE a = CrcPlace(f)
    <2>1. Encode(f)[a] = Fields(f) /\ Fields(f) \in Seq(Nat)
          /\ Len(Fields(f)) = HeaderSize + Len(f.payload)
      BY <1>3, EncodeIs
    <2> QED BY <1>1, <1>3, <2>1 DEF HeaderSize
  <1>4. CrcPlace(f) \in Nat
    BY <1>1 DEF CrcPlace, Overhead, HeaderSize
  <1> QED BY <1>2, <1>3, <1>4

-----------------------------------------------------------------------------
(* Decoding.                                                               *)

LEMMA LastType ==
  ASSUME NEW s \in Seq(Nat), Len(s) >= 1
  PROVE  Last(s) \in Nat
  BY DEF Last

LEMMA OctetSane ==
  ASSUME ScanTypeOK, CaptureInv, NEW p \in 1 .. Len(capture)
  PROVE  /\ capture[p] \in OctetType
         /\ Len(capture[p].v) >= 1 /\ Last(capture[p].v) \in Nat
PROOF
  <1>1. capture[p] \in OctetType /\ capture[p].v \in Seq(Nat)
    <2>1. capture[p] \in OctetType
      BY DEF ScanTypeOK
    <2> QED BY <2>1 DEF OctetType
  <1>2. Len(capture[p].v) >= 1
    <2>1. CASE \E v \in Damaged : capture[p].v = <<v>>
      BY <2>1, PlainIs, ScanAssumption
    <2>2. CASE /\ capture[p].of \in 1 .. Len(sent)
               /\ capture[p].at \in 1 .. CrcPlace(sent[capture[p].of])
               /\ capture[p].v = Encode(sent[capture[p].of])[capture[p].at]
      <3>1. sent[capture[p].of] \in FrameType
        BY <2>2 DEF ScanTypeOK
      <3> QED BY <2>2, <3>1, OctetOfFrame
    <2> QED BY <2>1, <2>2 DEF CaptureInv
  <1> QED BY <1>1, <1>2, LastType

\* What stands at an offset, as far as the file goes.
LEMMA HeaderSane ==
  ASSUME ScanTypeOK, CaptureInv, NEW o \in Nat, o + Overhead <= End
  PROVE  /\ Value(o, 1) \in Nat /\ Value(o, 2) \in Nat /\ Value(o, 3) \in Nat
         /\ Total(o) \in Nat /\ Total(o) >= Overhead
         /\ \A i \in 1 .. End - o : /\ o + i \in 1 .. Len(capture)
                                    /\ Value(o, i) \in Nat
PROOF
  <1>1. End = Len(capture) /\ End \in Nat
    BY DEF End, ScanTypeOK
  <1>2. ASSUME NEW i \in 1 .. End - o
        PROVE  o + i \in 1 .. Len(capture) /\ Value(o, i) \in Nat
    <2>1. o + i \in 1 .. Len(capture)
      BY <1>1
    <2> QED BY <2>1, OctetSane DEF Value, Octet
  <1>3. 1 \in 1 .. End - o /\ 2 \in 1 .. End - o /\ 3 \in 1 .. End - o
    BY <1>1 DEF Overhead, HeaderSize
  <1>4. Value(o, 1) \in Nat /\ Value(o, 2) \in Nat /\ Value(o, 3) \in Nat
    BY <1>2, <1>3
  <1> QED BY <1>2, <1>4 DEF Total, Overhead, HeaderSize

\* What is read as a frame has its type, so it is not the absence of a frame.
LEMMA FrameAtType ==
  ASSUME ScanTypeOK, CaptureInv, NEW o \in Nat, o + Overhead <= End,
         o + Total(o) <= End
  PROVE  /\ FrameAt(o) \in FrameType /\ FrameAt(o) # None
         /\ Len(FrameAt(o).payload) = Value(o, 3)
         /\ FrameAt(o).n = Value(o, 2)
         /\ \A i \in 1 .. Value(o, 3) :
              FrameAt(o).payload[i] = Value(o, HeaderSize + i)
PROOF
  <1> DEFINE q == [i \in 1 .. Value(o, 3) |-> Value(o, HeaderSize + i)]
  <1>1. Value(o, 2) \in Nat /\ Value(o, 3) \in Nat /\ End \in Nat
    BY HeaderSane DEF ScanTypeOK, End
  <1>2. \A i \in 1 .. Value(o, 3) : Value(o, HeaderSize + i) \in Nat
    <2> SUFFICES ASSUME NEW i \in 1 .. Value(o, 3)
                 PROVE  Value(o, HeaderSize + i) \in Nat
      OBVIOUS
    <2>1. HeaderSize + i \in 1 .. End - o
      BY <1>1 DEF Total, Overhead, HeaderSize
    <2> QED BY <2>1, HeaderSane
  <1>3. q \in [1 .. Value(o, 3) -> Nat]
    BY <1>2
  <1>4. FrameAt(o) = [n |-> Value(o, 2), payload |-> q]
    BY DEF FrameAt
  <1>5. \A i \in 1 .. Value(o, 3) : q[i] = Value(o, HeaderSize + i)
    OBVIOUS
  <1> HIDE DEF q
  <1>6. q \in Seq(Nat) /\ Len(q) = Value(o, 3)
    BY <1>1, <1>3
  <1>7. FrameAt(o) \in FrameType
    BY <1>1, <1>4, <1>6 DEF FrameType
  <1>8. FrameAt(o) # None
    BY <1>7, ScanAssumption DEF FrameType
  <1> QED BY <1>4, <1>5, <1>6, <1>7, <1>8

\* The parser finds a frame exactly where one is announced, whole and intact.
LEMMA DecodeFinds ==
  ASSUME ScanTypeOK, CaptureInv, NEW o \in Nat
  PROVE  \/ /\ DecodeFrame(o).frame # None /\ DecodeFrame(o) = Found(o)
            /\ o + Overhead <= End /\ Value(o, 1) = Marker
            /\ Value(o, 3) <= MaxPayload /\ o + Total(o) <= End /\ CrcHolds(o)
         \/ /\ DecodeFrame(o) \in {Skip(End), Skip(o + 1)}
            /\ DecodeFrame(o).frame = None
            /\ \/ o + Overhead > End \/ Value(o, 1) # Marker
               \/ Value(o, 3) > MaxPayload \/ o + Total(o) > End \/ ~CrcHolds(o)
            /\ DecodeFrame(o) = Skip(End) =>
                 \/ o + Overhead > End
                 \/ o + Total(o) > End /\ Value(o, 3) <= MaxPayload
                 \/ o + 1 = End
PROOF
  <1>1. Skip(End).frame = None /\ Skip(o + 1).frame = None
        /\ Skip(End).next = End /\ Skip(o + 1).next = o + 1
    BY DEF Skip
  <1>2. End \in Nat
    BY DEF End, ScanTypeOK
  <1>3. CASE o + Overhead > End
    BY <1>1, <1>3 DEF DecodeFrame
  <1>4. CASE o + Overhead <= End
    <2>1. Value(o, 3) \in Nat /\ Total(o) \in Nat
      BY <1>4, HeaderSane
    <2>2. ~(o + Overhead > End)
      BY <1>2, <1>4 DEF Overhead, HeaderSize
    <2>3. CASE Value(o, 1) # Marker
      BY <1>1, <2>2, <2>3 DEF DecodeFrame
    <2>4. CASE Value(o, 1) = Marker /\ Value(o, 3) > MaxPayload
      BY <1>1, <2>2, <2>4 DEF DecodeFrame, TooLong
    <2>5. CASE /\ Value(o, 1) = Marker /\ ~(Value(o, 3) > MaxPayload)
               /\ o + Total(o) > End
      <3>1. DecodeFrame(o) = Skip(End)
        BY <2>2, <2>5 DEF DecodeFrame, TooLong, AfterTruncated
      <3>2. Value(o, 3) <= MaxPayload
        BY <2>1, <2>5, ScanAssumption
      <3> QED BY <1>1, <2>5, <3>1, <3>2
    <2>6. CASE /\ Value(o, 1) = Marker /\ ~(Value(o, 3) > MaxPayload)
               /\ ~(o + Total(o) > End) /\ ~CrcHolds(o)
      BY <1>1, <2>2, <2>6 DEF DecodeFrame, TooLong, AfterBadCrc
    <2>7. CASE /\ Value(o, 1) = Marker /\ ~(Value(o, 3) > MaxPayload)
               /\ ~(o + Total(o) > End) /\ CrcHolds(o)
      <3>1. DecodeFrame(o) = Found(o)
        BY <2>2, <2>7 DEF DecodeFrame, TooLong
      <3>2. Value(o, 3) <= MaxPayload /\ o + Total(o) <= End
        BY <1>2, <2>1, <2>7, ScanAssumption
      <3>3. Found(o).frame # None
        BY <1>4, <3>2, FrameAtType DEF Found
      <3> QED BY <1>4, <2>7, <3>1, <3>2, <3>3
    <2> QED BY <2>3, <2>4, <2>5, <2>6, <2>7
  <1>5. o + Overhead \in Nat
    BY DEF Overhead, HeaderSize
  <1> QED BY <1>2, <1>3, <1>4, <1>5

LEMMA DecodersMeet ==
  ASSUME ScanTypeOK, CaptureInv, NEW o \in Nat
  PROVE  DecodePrefix(o) = "ok" <=> DecodeFrame(o).frame # None
PROOF
  <1>1. End \in Nat /\ Overhead \in Nat
    BY DEF End, ScanTypeOK, Overhead, HeaderSize
  <1>2. CASE o + Overhead > End
    <2>1. End - o < Overhead
      BY <1>1, <1>2
    <2>2. DecodeFrame(o).frame = None
      BY <1>2 DEF DecodeFrame, Skip
    <2> QED BY <2>1, <2>2 DEF DecodePrefix
  <1>3. CASE o + Overhead <= End
    <2>1. Value(o, 3) \in Nat /\ Total(o) \in Nat
      BY <1>3, HeaderSane
    <2>2. ~(End - o < Overhead) /\ (End - o < Total(o) <=> o + Total(o) > End)
      BY <1>1, <1>3, <2>1
    <2>3. DecodePrefix(o) = "ok" <=>
            /\ Value(o, 1) = Marker /\ ~(Value(o, 3) > MaxPayload)
            /\ ~(o + Total(o) > End) /\ CrcHolds(o)
      BY <2>2 DEF DecodePrefix, CrcHolds
    <2>4. (Value(o, 3) > MaxPayload <=> ~(Value(o, 3) <= MaxPayload))
          /\ (o + Total(o) > End <=> ~(o + Total(o) <= End))
          /\ ~(o + Overhead > End)
      BY <1>1, <1>3, <2>1, ScanAssumption
    <2> QED BY <2>3, <2>4, DecodeFinds
  <1>4. o + Overhead \in Nat
    BY <1>1
  <1> QED BY <1>1, <1>2, <1>3, <1>4

\* What the decoder reads at an offset, and the CRC it compares.
LEMMA BodyIs ==
  ASSUME ScanTypeOK, CaptureInv, NEW o \in Nat, o + Overhead <= End,
         o + Total(o) <= End
  PROVE  LET s == Crc(Body(o))
         IN  /\ s \in Seq(Nat) /\ Len(s) = HeaderSize + Value(o, 3)
             /\ \A i \in 1 .. HeaderSize + Value(o, 3) : s[i] = Value(o, i)
PROOF
  <1> DEFINE s == Crc(Body(o))
             n == HeaderSize + Value(o, 3)
  <1>1. n \in Nat /\ n <= End - o /\ End \in Nat
    <2>1. Value(o, 3) \in Nat /\ End \in Nat
      BY HeaderSane DEF End, ScanTypeOK
    <2> QED BY <2>1 DEF Total, Overhead, HeaderSize
  <1>2. s = [i \in 1 .. n |-> Value(o, i)]
    BY DEF Crc, Body, Value
  <1>3. \A i \in 1 .. n : Value(o, i) \in Nat
    BY <1>1, HeaderSane
  <1> HIDE DEF s, n
  <1>4. s \in [1 .. n -> Nat]
    BY <1>2, <1>3
  <1>5. s \in Seq(Nat) /\ Len(s) = n
    BY <1>1, <1>4
  <1>6. \A i \in 1 .. n : s[i] = Value(o, i)
    BY <1>2
  <1> QED BY <1>5, <1>6 DEF n, s

LEMMA SameSequences ==
  ASSUME NEW s \in Seq(Nat), NEW t \in Seq(Nat), Len(s) = Len(t),
         \A i \in 1 .. Len(s) : s[i] = t[i]
  PROVE  s = t
  OBVIOUS

\* Two frames that show the same fields are one.
LEMMA SameFields ==
  ASSUME NEW f \in FrameType, NEW g \in FrameType, f.n = g.n,
         Len(f.payload) = Len(g.payload),
         \A i \in 1 .. Len(f.payload) : f.payload[i] = g.payload[i]
  PROVE  f = g
PROOF
  <1>1. f.payload \in Seq(Nat) /\ g.payload \in Seq(Nat)
    BY DEF FrameType
  <1>2. f.payload = g.payload
    BY <1>1, SameSequences
  <1> QED BY <1>2 DEF FrameType

\* The octet a CRC is compared with, when it holds, is the CRC of a frame sent.
LEMMA CrcIsSent ==
  ASSUME ScanTypeOK, CaptureInv, NEW p \in 1 .. Len(capture),
         Len(capture[p].v) >= HeaderSize
  PROVE  /\ capture[p].of \in 1 .. Len(sent)
         /\ sent[capture[p].of] \in FrameType
         /\ capture[p].at = CrcPlace(sent[capture[p].of])
         /\ capture[p].v = Fields(sent[capture[p].of])
PROOF
  <1>1. /\ capture[p].of \in 1 .. Len(sent)
        /\ capture[p].at \in 1 .. CrcPlace(sent[capture[p].of])
        /\ capture[p].v = Encode(sent[capture[p].of])[capture[p].at]
    <2>1. Len(capture[p].v) \in Nat
      BY OctetSane DEF OctetType
    <2>2. ~(Len(capture[p].v) <= 1)
      BY <2>1 DEF HeaderSize
    <2> QED BY <2>2, PlainIs, ScanAssumption DEF CaptureInv
  <1>2. sent[capture[p].of] \in FrameType
    BY <1>1 DEF ScanTypeOK
  <1>3. ASSUME NEW f \in FrameType, NEW a \in 1 .. CrcPlace(f),
               Len(Encode(f)[a]) >= HeaderSize
        PROVE  a = CrcPlace(f) /\ Encode(f)[a] = Fields(f)
    <2>1. Len(f.payload) \in Nat
      BY DEF FrameType
    <2>2. CrcPlace(f) \in Nat
      BY <2>1 DEF CrcPlace, Overhead, HeaderSize
    <2>3. ~(a < CrcPlace(f))
      <3>1. Len(Encode(f)[a]) \in Nat
        BY OctetOfFrame
      <3>2. ~(Len(Encode(f)[a]) <= 1)
        BY <1>3, <3>1 DEF HeaderSize
      <3> QED BY <3>2, OctetOfFrame
    <2>4. a = CrcPlace(f)
      BY <2>2, <2>3
    <2> QED BY <2>4, OctetOfFrame
  <1> QED BY <1>1, <1>2, <1>3

\* A CRC that holds is an octet of the frame it covers: the frame found was sent.
LEMMA FoundWasSent ==
  ASSUME ScanTypeOK, CaptureInv, NEW o \in Nat,
         o + Overhead <= End, o + Total(o) <= End, CrcHolds(o)
  PROVE  /\ o + Total(o) \in 1 .. Len(capture)
         /\ capture[o + Total(o)].of \in 1 .. Len(sent)
         /\ FrameAt(o) = sent[capture[o + Total(o)].of]
         /\ capture[o + Total(o)].at = CrcPlace(FrameAt(o))
         /\ Total(o) = CrcPlace(FrameAt(o))
         /\ \A i \in 1 .. Total(o) - 1 : Value(o, i) = Fields(FrameAt(o))[i]
PROOF
  <1> DEFINE p == o + Total(o)
             L == Value(o, 3)
             f == sent[capture[p].of]
             s == Crc(Body(o))
  <1>1. /\ L \in Nat /\ Total(o) \in Nat /\ Total(o) = L + 4
        /\ p \in 1 .. Len(capture)
    <2>1. /\ L \in Nat /\ Total(o) \in Nat
          /\ \A i \in 1 .. End - o : o + i \in 1 .. Len(capture)
      BY HeaderSane
    <2>2. Total(o) = L + 4
      BY <2>1 DEF Total, Overhead, HeaderSize
    <2>3. End \in Nat
      BY DEF End, ScanTypeOK
    <2>4. Total(o) \in 1 .. End - o
      BY <2>1, <2>2, <2>3
    <2> QED BY <2>1, <2>2, <2>4
  <1>2. /\ s \in Seq(Nat) /\ Len(s) = L + 3
        /\ \A i \in 1 .. L + 3 : s[i] = Value(o, i)
    BY <1>1, BodyIs DEF HeaderSize
  <1>3. capture[p].v = s
    BY DEF CrcHolds, Octet
  <1> HIDE DEF s
  <1>4. Len(capture[p].v) >= HeaderSize
    BY <1>1, <1>2, <1>3 DEF HeaderSize
  <1> HIDE DEF p, L
  <1>5. /\ capture[p].of \in 1 .. Len(sent) /\ f \in FrameType
        /\ capture[p].at = CrcPlace(f) /\ s = Fields(f)
    BY <1>1, <1>3, <1>4, CrcIsSent
  <1> HIDE DEF f
  <1>6. Len(f.payload) \in Nat
    BY <1>5 DEF FrameType
  <1>7. /\ Len(s) = 3 + Len(f.payload) /\ s[2] = f.n
        /\ \A i \in 1 .. Len(f.payload) : s[3 + i] = f.payload[i]
    BY <1>5, EncodeIs DEF HeaderSize
  <1>8. L = Len(f.payload)
    BY <1>1, <1>2, <1>6, <1>7
  <1>9. /\ FrameAt(o) \in FrameType /\ Len(FrameAt(o).payload) = L
        /\ FrameAt(o).n = Value(o, 2)
        /\ \A i \in 1 .. L : FrameAt(o).payload[i] = Value(o, 3 + i)
    BY FrameAtType DEF L, HeaderSize
  <1>10. FrameAt(o).n = f.n
    BY <1>1, <1>2, <1>7, <1>9
  <1>11. \A i \in 1 .. L : FrameAt(o).payload[i] = f.payload[i]
    <2> SUFFICES ASSUME NEW i \in 1 .. L
                 PROVE  FrameAt(o).payload[i] = f.payload[i]
      OBVIOUS
    <2>1. 3 + i \in 1 .. L + 3 /\ i \in 1 .. Len(f.payload)
      BY <1>1, <1>8
    <2> QED BY <1>2, <1>7, <1>9, <2>1
  <1>12. FrameAt(o) = f
    BY <1>5, <1>8, <1>9, <1>10, <1>11, SameFields
  <1>13. Total(o) = CrcPlace(f)
    BY <1>1, <1>6, <1>8 DEF CrcPlace, Overhead, HeaderSize
  <1>14. \A i \in 1 .. Total(o) - 1 : Value(o, i) = Fields(f)[i]
    BY <1>1, <1>2, <1>5
  <1> QED BY <1>1, <1>5, <1>12, <1>13, <1>14 DEF p, f

\* An intact frame is found where it starts.
LEMMA IntactIsFound ==
  ASSUME ScanTypeOK, SentInv, CaptureInv,
         NEW k \in 1 .. Len(sent), NEW o \in 0 .. End - MaxFrame, Intact(o, k)
  PROVE  /\ DecodeFrame(o) = Found(o) /\ DecodeFrame(o).frame # None
         /\ FrameAt(o) = sent[k]
         /\ \A i \in 1 .. HeaderSize + Len(sent[k].payload) :
              Value(o, i) = Fields(sent[k])[i]
PROOF
  <1> DEFINE f == sent[k]
             L == Len(f.payload)
  <1>1. /\ f \in FrameType /\ L \in Nat /\ L <= MaxPayload /\ k # 0
        /\ o \in Nat /\ CrcPlace(f) = L + 4
    <2>1. f \in FrameType
      BY DEF ScanTypeOK
    <2>2. L \in 1 .. MaxPayload
      BY ScanAssumption DEF SentInv
    <2>3. L \in Nat
      BY <2>1 DEF FrameType
    <2> QED BY <2>1, <2>2, <2>3, ScanAssumption DEF CrcPlace, Overhead, HeaderSize
  <1>2. End \in Nat /\ End = Len(capture)
    BY DEF ScanTypeOK, End
  <1>3. \A i \in 1 .. L + 4 : /\ o + i <= End
                              /\ capture[o + i].of = k /\ capture[o + i].at = i
    BY <1>1 DEF Intact, Overhead, HeaderSize
  <1>4. \A i \in 1 .. L + 4 :
          /\ o + i \in 1 .. Len(capture) /\ Octet(o, i) = Encode(f)[i]
    <2> SUFFICES ASSUME NEW i \in 1 .. L + 4
                 PROVE  o + i \in 1 .. Len(capture) /\ Octet(o, i) = Encode(f)[i]
      OBVIOUS
    <2>1. o + i \in 1 .. Len(capture)
      BY <1>1, <1>2, <1>3
    <2> QED BY <1>1, <1>3, <2>1 DEF CaptureInv, Octet
  <1> HIDE DEF f, L
  <1>5. \A i \in 1 .. L + 3 : Value(o, i) = Fields(f)[i]
    <2> SUFFICES ASSUME NEW i \in 1 .. L + 3 PROVE Value(o, i) = Fields(f)[i]
      OBVIOUS
    <2>1. i \in 1 .. CrcPlace(f) /\ i < CrcPlace(f) /\ i \in 1 .. L + 4
      BY <1>1
    <2> QED BY <1>1, <1>4, <2>1, OctetOfFrame DEF Value
  <1>6. /\ Fields(f) \in Seq(Nat) /\ Len(Fields(f)) = L + 3
        /\ Fields(f)[1] = Marker /\ Fields(f)[3] = L
        /\ Encode(f)[L + 4] = Fields(f)
    <2>1. HeaderSize + L = L + 3
      BY <1>1 DEF HeaderSize
    <2> QED BY <1>1, <2>1, EncodeIs DEF L
  <1>7. Value(o, 1) = Marker /\ Value(o, 3) = L
    BY <1>1, <1>5, <1>6
  <1>8. L + 4 \in 1 .. L + 4
    BY <1>1
  <1>9. Total(o) = L + 4 /\ o + Total(o) <= End /\ o + Overhead <= End
    BY <1>1, <1>2, <1>3, <1>7, <1>8 DEF Total, Overhead, HeaderSize
  <1>10. CrcHolds(o)
    <2>1. Octet(o, Total(o)) = Fields(f)
      BY <1>4, <1>6, <1>8, <1>9
    <2>2. /\ Crc(Body(o)) \in Seq(Nat) /\ Len(Crc(Body(o))) = L + 3
          /\ \A i \in 1 .. L + 3 : Crc(Body(o))[i] = Value(o, i)
      <3>1. HeaderSize + Value(o, 3) = L + 3
        BY <1>1, <1>7 DEF HeaderSize
      <3> QED BY <1>1, <1>9, <3>1, BodyIs
    <2>3. Crc(Body(o)) = Fields(f)
      BY <1>5, <1>6, <2>2, SameSequences
    <2> QED BY <2>1, <2>3 DEF CrcHolds
  <1>11. DecodeFrame(o) = Found(o) /\ DecodeFrame(o).frame # None
    <2>1. ~(o + Overhead > End) /\ ~(Value(o, 3) > MaxPayload)
          /\ ~(o + Total(o) > End)
      BY <1>1, <1>2, <1>7, <1>9, ScanAssumption DEF Overhead, HeaderSize
    <2> QED BY <1>1, <1>7, <1>10, <2>1, DecodeFinds
  <1>12. FrameAt(o) = sent[k]
    <2>1. capture[o + Total(o)].of = k
      BY <1>3, <1>8, <1>9
    <2> QED BY <1>1, <1>9, <1>10, <2>1, FoundWasSent
  <1>13. HeaderSize + L = L + 3
    BY <1>1 DEF HeaderSize
  <1> QED BY <1>5, <1>11, <1>12, <1>13 DEF f, L

-----------------------------------------------------------------------------
(* The capture as it is written and damaged.                               *)

LEMMA ScanInitInv == ASSUME Init PROVE ScanInv /\ IntactInv
PROOF
  <1>1. /\ sent = <<>> /\ capture = <<>> /\ frames = <<>> /\ off = 0
        /\ scanning = FALSE
    BY DEF Init
  <1>2. Len(sent) = 0 /\ Len(capture) = 0 /\ Len(frames) = 0
    BY <1>1
  <1>3. ScanTypeOK
    <2>1. <<>> \in Seq(FrameType) /\ <<>> \in Seq(OctetType)
      OBVIOUS
    <2>2. 0 \in 0 .. Len(capture)
      BY <1>2
    <2> QED BY <1>1, <2>1, <2>2 DEF ScanTypeOK
  <1>4. SentInv /\ CaptureInv /\ OrderInv /\ FramesInv /\ IntactInv
    BY <1>1, <1>2, ScanAssumption
    DEF SentInv, CaptureInv, OrderInv, FramesInv, IntactInv
  <1> QED BY <1>3, <1>4 DEF ScanInv

LEMMA Concatenation ==
  ASSUME NEW s \in Seq(OctetType), NEW t \in Seq(OctetType)
  PROVE  /\ s \o t \in Seq(OctetType) /\ Len(s \o t) = Len(s) + Len(t)
         /\ \A i \in 1 .. Len(s) : (s \o t)[i] = s[i]
         /\ \A i \in 1 .. Len(t) : (s \o t)[Len(s) + i] = t[i]
  OBVIOUS

\* The octets a frame adds to the file.
LEMMA EmittedIs ==
  ASSUME NEW f \in FrameType, NEW k \in Nat \ {0}
  PROVE  LET octets == Encode(f)
             e == [i \in DOMAIN octets |-> [v |-> octets[i], of |-> k, at |-> i]]
         IN  /\ e \in Seq(OctetType) /\ Len(e) = CrcPlace(f) /\ CrcPlace(f) \in Nat
             /\ \A i \in 1 .. CrcPlace(f) :
                  e[i].v = Encode(f)[i] /\ e[i].of = k /\ e[i].at = i
PROOF
  <1> DEFINE s == Encode(f)
             n == CrcPlace(f)
             e == [i \in DOMAIN s |-> [v |-> s[i], of |-> k, at |-> i]]
  <1>1. n \in Nat
    BY DEF FrameType, CrcPlace, Overhead, HeaderSize
  <1>2. s \in Seq(Seq(Nat)) /\ Len(s) = n
    BY EncodeIs
  <1>3. DOMAIN s = 1 .. n /\ \A i \in 1 .. n : s[i] \in Seq(Nat)
    <2> HIDE DEF s, n
    <2> QED BY <1>1, <1>2
  <1> HIDE DEF s, n
  <1>4. \A i \in 1 .. n : e[i] = [v |-> s[i], of |-> k, at |-> i]
    BY <1>3
  <1>5. e \in [1 .. n -> OctetType]
    BY <1>1, <1>3 DEF OctetType
  <1> HIDE DEF e
  <1>6. e \in Seq(OctetType) /\ Len(e) = n
    BY <1>1, <1>5
  <1>7. \A i \in 1 .. n : e[i].v = s[i] /\ e[i].of = k /\ e[i].at = i
    <2> SUFFICES ASSUME NEW i \in 1 .. n
                 PROVE  e[i].v = s[i] /\ e[i].of = k /\ e[i].at = i
      OBVIOUS
    <2>1. e[i] = [v |-> s[i], of |-> k, at |-> i]
      BY <1>4
    <2> QED BY <2>1
  <1> QED BY <1>1, <1>6, <1>7 DEF s, n, e

LEMMA SendKeeps ==
  ASSUME ScanInv, NEW payload \in Payloads, Send(payload)
  PROVE  ScanInv' /\ IntactInv'
PROOF
  <1> DEFINE f == [n |-> Len(sent), payload |-> payload]
             k == Len(sent) + 1
             e == [i \in DOMAIN Encode(f) |->
                     [v |-> Encode(f)[i], of |-> k, at |-> i]]
             n == CrcPlace(f)
  <1>1. /\ ScanTypeOK /\ SentInv /\ CaptureInv /\ OrderInv
        /\ ~scanning /\ Len(sent) < MaxSent /\ scanning' = scanning
        /\ off' = off /\ frames' = frames /\ off = 0 /\ frames = <<>>
    BY DEF ScanInv, ScanTypeOK, Send
  <1>2. sent' = Append(sent, f) /\ capture' = capture \o e
    BY DEF Send
  <1>3. f \in FrameType /\ f.n = k - 1 /\ f.payload = payload
    BY <1>1, ScanAssumption DEF FrameType, ScanTypeOK
  <1>4. k \in Nat \ {0}
    BY <1>1 DEF ScanTypeOK
  <1>5. /\ e \in Seq(OctetType) /\ Len(e) = n /\ n \in Nat
        /\ \A i \in 1 .. n : e[i].v = Encode(f)[i] /\ e[i].of = k /\ e[i].at = i
    BY <1>3, <1>4, EmittedIs
  <1> HIDE DEF e, f
  <1>6. /\ sent' \in Seq(FrameType) /\ Len(sent') = k /\ sent'[k] = f
        /\ \A l \in 1 .. Len(sent) : sent'[l] = sent[l]
    BY <1>1, <1>2, <1>3 DEF ScanTypeOK
  <1>7. /\ capture' \in Seq(OctetType) /\ Len(capture') = Len(capture) + n
        /\ \A i \in 1 .. Len(capture) : capture'[i] = capture[i]
        /\ \A i \in 1 .. n : capture'[Len(capture) + i] = e[i]
    <2>1. capture \in Seq(OctetType)
      BY <1>1 DEF ScanTypeOK
    <2>2. /\ capture \o e \in Seq(OctetType)
          /\ Len(capture \o e) = Len(capture) + Len(e)
          /\ \A i \in 1 .. Len(capture) : (capture \o e)[i] = capture[i]
          /\ \A i \in 1 .. Len(e) : (capture \o e)[Len(capture) + i] = e[i]
      BY <1>5, <2>1, Concatenation
    <2> QED BY <1>2, <1>5, <2>2, Zenon
  <1>8. Len(capture) \in Nat /\ Len(sent) \in Nat
    BY <1>1 DEF ScanTypeOK
  <1>9. \A i \in 1 .. Len(capture') :
          \/ i \in 1 .. Len(capture) /\ capture'[i] = capture[i]
          \/ \E j \in 1 .. n : i = Len(capture) + j /\ capture'[i] = e[j]
    <2> SUFFICES ASSUME NEW i \in 1 .. Len(capture'), i \notin 1 .. Len(capture)
                 PROVE  \E j \in 1 .. n : i = Len(capture) + j /\ capture'[i] = e[j]
      BY <1>7
    <2>1. i - Len(capture) \in 1 .. n /\ i = Len(capture) + (i - Len(capture))
      BY <1>5, <1>7, <1>8
    <2> QED BY <1>7, <2>1
  <1>10. ScanTypeOK'
    BY <1>1, <1>6, <1>7, <1>8 DEF ScanTypeOK
  <1>11. SentInv'
    <2>1. \A l \in 1 .. k : l \in 1 .. Len(sent) \/ l = k
      BY <1>8
    <2>2. Len(sent') <= MaxSent
      BY <1>1, <1>6, <1>8, ScanAssumption
    <2> QED BY <1>1, <1>3, <1>6, <2>1, <2>2 DEF SentInv
  <1>12. CaptureInv'
    <2> SUFFICES ASSUME NEW i \in 1 .. Len(capture')
                 PROVE  \/ /\ capture'[i].of = 0
                           /\ \E v \in Damaged : capture'[i].v = <<v>>
                        \/ /\ capture'[i].of \in 1 .. Len(sent')
                           /\ capture'[i].at \in 1 .. CrcPlace(sent'[capture'[i].of])
                           /\ capture'[i].v =
                                Encode(sent'[capture'[i].of])[capture'[i].at]
      BY DEF CaptureInv
    <2>1. CASE i \in 1 .. Len(capture) /\ capture'[i] = capture[i]
      <3>1. \A l \in 1 .. Len(sent) : l \in 1 .. Len(sent')
        BY <1>6, <1>8
      <3> QED BY <1>1, <1>6, <2>1, <3>1 DEF CaptureInv
    <2>2. CASE \E j \in 1 .. n : i = Len(capture) + j /\ capture'[i] = e[j]
      <3>1. k \in 1 .. Len(sent')
        BY <1>4, <1>6
      <3> QED BY <1>5, <1>6, <2>2, <3>1
    <2> QED BY <1>9, <2>1, <2>2
  <1>13. OrderInv'
    <2> SUFFICES ASSUME NEW i \in 1 .. Len(capture'), NEW j \in 1 .. Len(capture'),
                        i < j, capture'[i].of # 0, capture'[j].of # 0
                 PROVE  Earlier(capture'[i], capture'[j])
      BY DEF OrderInv
    <2>1. CASE j \in 1 .. Len(capture) /\ capture'[j] = capture[j]
      <3>1. i \in 1 .. Len(capture) /\ capture'[i] = capture[i]
        BY <1>7, <1>8, <2>1
      <3> QED BY <1>1, <2>1, <3>1 DEF OrderInv
    <2>2. CASE /\ i \in 1 .. Len(capture) /\ capture'[i] = capture[i]
               /\ \E l \in 1 .. n : j = Len(capture) + l /\ capture'[j] = e[l]
      <3>1. capture[i].of \in 1 .. Len(sent)
        BY <1>1, <2>2 DEF CaptureInv
      <3>2. capture'[j].of = k
        BY <1>5, <2>2
      <3> QED BY <1>8, <2>2, <3>1, <3>2 DEF Earlier
    <2>3. ASSUME NEW l \in 1 .. n, i = Len(capture) + l, capture'[i] = e[l],
                 NEW m \in 1 .. n, j = Len(capture) + m, capture'[j] = e[m]
          PROVE  Earlier(capture'[i], capture'[j])
      <3>1. l < m
        BY <1>5, <1>8, <2>3
      <3> QED BY <1>5, <2>3, <3>1 DEF Earlier
    <2> QED BY <1>9, <2>1, <2>2, <2>3
  <1>14. FramesInv'
    BY <1>1 DEF FramesInv
  <1>15. IntactInv'
    BY <1>1 DEF IntactInv
  <1> QED BY <1>10, <1>11, <1>12, <1>13, <1>14, <1>15 DEF ScanInv

\* What an accident does: the octets that are left keep their order, and one may
\* have been altered.
LEMMA DamageKeeps ==
  ASSUME ScanInv, ~scanning, scanning' = scanning, off' = off,
         frames' = frames, sent' = sent, capture' \in Seq(OctetType), NEW m,
         \A i \in 1 .. Len(capture') :
           /\ m[i] \in 1 .. Len(capture)
           /\ \/ capture'[i] = capture[m[i]]
              \/ capture'[i].of = 0 /\ \E v \in Damaged : capture'[i].v = <<v>>,
         \A i, j \in 1 .. Len(capture') : i < j => m[i] < m[j]
  PROVE  ScanInv' /\ IntactInv'
PROOF
  <1>1. ScanTypeOK /\ SentInv /\ CaptureInv /\ OrderInv /\ FramesInv
        /\ off = 0 /\ frames = <<>>
    BY DEF ScanInv, ScanTypeOK
  <1>2. ScanTypeOK'
    <2>1. 0 \in 0 .. Len(capture')
      OBVIOUS
    <2> QED BY <1>1, <2>1 DEF ScanTypeOK
  <1>3. SentInv'
    BY <1>1 DEF SentInv
  <1>4. CaptureInv'
    BY <1>1 DEF CaptureInv
  <1>5. OrderInv'
    <2> SUFFICES ASSUME NEW i \in 1 .. Len(capture'), NEW j \in 1 .. Len(capture'),
                        i < j, capture'[i].of # 0, capture'[j].of # 0
                 PROVE  Earlier(capture'[i], capture'[j])
      BY DEF OrderInv
    <2>1. capture'[i] = capture[m[i]] /\ capture'[j] = capture[m[j]]
          /\ m[i] \in 1 .. Len(capture) /\ m[j] \in 1 .. Len(capture) /\ m[i] < m[j]
      OBVIOUS
    <2> QED BY <1>1, <2>1 DEF OrderInv
  <1>6. FramesInv'
    BY <1>1 DEF FramesInv
  <1>7. IntactInv'
    BY DEF IntactInv
  <1> QED BY <1>2, <1>3, <1>4, <1>5, <1>6, <1>7 DEF ScanInv

LEMMA AlterKeeps == ASSUME ScanInv, Alter PROVE ScanInv' /\ IntactInv'
PROOF
  <1>1. /\ ~scanning /\ scanning' = scanning /\ off' = off
        /\ frames' = frames /\ sent' = sent /\ capture \in Seq(OctetType)
    BY DEF Alter, Hit, ScanInv, ScanTypeOK
  <1>2. PICK i \in DOMAIN capture, v \in Damaged :
          capture' = [capture EXCEPT ![i] = [v |-> <<v>>, of |-> 0, at |-> 0]]
    BY DEF Alter
  <1> DEFINE x == [v |-> <<v>>, of |-> 0, at |-> 0]
             m == [j \in 1 .. Len(capture) |-> j]
  <1>3. v \in Nat
    BY ScanAssumption
  <1>4. x \in OctetType /\ x.of = 0 /\ x.v = <<v>>
    BY <1>3, PlainIs DEF OctetType
  <1>5. capture' = [capture EXCEPT ![i] = x]
    BY <1>2
  <1> HIDE DEF x
  <1>6. /\ capture' \in Seq(OctetType) /\ Len(capture') = Len(capture)
        /\ \A j \in 1 .. Len(capture) :
             capture'[j] = capture[j] \/ capture'[j] = x
    BY <1>1, <1>4, <1>5
  <1>7. \A j \in 1 .. Len(capture') :
          /\ m[j] \in 1 .. Len(capture)
          /\ \/ capture'[j] = capture[m[j]]
             \/ capture'[j].of = 0 /\ \E w \in Damaged : capture'[j].v = <<w>>
    BY <1>4, <1>6
  <1>8. \A j, k \in 1 .. Len(capture') : j < k => m[j] < m[k]
    BY <1>6
  <1> HIDE DEF m
  <1> QED BY <1>1, <1>6, <1>7, <1>8, DamageKeeps

LEMMA LoseOctetKeeps == ASSUME ScanInv, LoseOctet PROVE ScanInv' /\ IntactInv'
PROOF
  <1>1. /\ ~scanning /\ scanning' = scanning /\ off' = off
        /\ frames' = frames /\ sent' = sent /\ capture \in Seq(OctetType)
    BY DEF LoseOctet, Hit, ScanInv, ScanTypeOK
  <1>2. PICK i \in DOMAIN capture : capture' = RemoveAt(capture, i)
    BY DEF LoseOctet
  <1> DEFINE n == Len(capture) - 1
             m == [j \in 1 .. n |-> IF j < i THEN j ELSE j + 1]
             a == SubSeq(capture, 1, i - 1)
             b == SubSeq(capture, i + 1, Len(capture))
  <1>3. i \in 1 .. Len(capture) /\ Len(capture) \in Nat /\ n \in Nat
    BY <1>1
  <1>4. /\ \A j \in 1 .. n : m[j] \in 1 .. Len(capture)
        /\ \A j, k \in 1 .. n : j < k => m[j] < m[k]
    BY <1>3
  <1>5. /\ a \in Seq(OctetType) /\ Len(a) = i - 1
        /\ \A j \in 1 .. i - 1 : a[j] = capture[j]
    BY <1>1, <1>3
  <1>6. /\ b \in Seq(OctetType) /\ Len(b) = Len(capture) - i
        /\ \A j \in 1 .. Len(capture) - i : b[j] = capture[i + j]
    BY <1>1, <1>3
  <1>7. capture' = a \o b
    BY <1>2 DEF RemoveAt
  <1>8. \A j \in 1 .. n : m[j] = IF j < i THEN j ELSE j + 1
    OBVIOUS
  <1> HIDE DEF m, a, b
  <1>9. /\ capture' \in Seq(OctetType) /\ Len(capture') = Len(a) + Len(b)
        /\ \A j \in 1 .. Len(a) : capture'[j] = a[j]
        /\ \A j \in 1 .. Len(b) : capture'[Len(a) + j] = b[j]
    BY <1>5, <1>6, <1>7, Concatenation
  <1>10. Len(capture') = n
    BY <1>3, <1>5, <1>6, <1>9
  <1>11. \A j \in 1 .. Len(capture) - i : capture'[i - 1 + j] = capture[i + j]
    BY <1>5, <1>6, <1>9
  <1>12. \A j \in 1 .. n : capture'[j] = capture[m[j]]
    <2> SUFFICES ASSUME NEW j \in 1 .. n PROVE capture'[j] = capture[m[j]]
      OBVIOUS
    <2>1. CASE j < i
      <3>1. j \in 1 .. i - 1 /\ j \in 1 .. Len(a)
        BY <1>3, <1>5, <2>1
      <3>2. capture'[j] = a[j] /\ a[j] = capture[j]
        BY <3>1, <1>5, <1>9
      <3> QED BY <1>8, <2>1, <3>2
    <2>2. CASE ~(j < i)
      <3> DEFINE l == j - i + 1
      <3>1. l \in 1 .. Len(capture) - i /\ i - 1 + l = j /\ i + l = j + 1
        BY <1>3, <2>2
      <3> HIDE DEF l
      <3>2. capture'[i - 1 + l] = capture[i + l]
        BY <3>1, <1>11
      <3> QED BY <1>8, <2>2, <3>1, <3>2
    <2> QED BY <2>1, <2>2
  <1> HIDE DEF n
  <1> QED BY <1>1, <1>4, <1>9, <1>10, <1>12, DamageKeeps

LEMMA TruncateKeeps == ASSUME ScanInv, Truncate PROVE ScanInv' /\ IntactInv'
PROOF
  <1>1. /\ ~scanning /\ scanning' = scanning /\ off' = off
        /\ frames' = frames /\ sent' = sent /\ capture \in Seq(OctetType)
    BY DEF Truncate, Hit, ScanInv, ScanTypeOK
  <1>2. PICK n \in 0 .. Len(capture) - 1 : capture' = SubSeq(capture, 1, n)
    BY DEF Truncate
  <1>3. n \in Nat /\ n <= Len(capture) /\ Len(capture) \in Nat
    BY <1>1
  <1> DEFINE m == [j \in 1 .. n |-> j]
  <1>4. /\ \A j \in 1 .. n : m[j] \in 1 .. Len(capture)
        /\ \A j, k \in 1 .. n : j < k => m[j] < m[k]
    BY <1>3
  <1>5. /\ capture' \in Seq(OctetType) /\ Len(capture') = n
        /\ \A j \in 1 .. n : capture'[j] = capture[j]
    BY <1>1, <1>2, <1>3
  <1>6. \A j \in 1 .. n : capture'[j] = capture[m[j]]
    BY <1>5
  <1> HIDE DEF m
  <1> QED BY <1>1, <1>4, <1>5, <1>6, DamageKeeps

LEMMA CloseKeeps == ASSUME ScanInv, Close PROVE ScanInv' /\ IntactInv'
PROOF
  <1>1. /\ ScanTypeOK /\ SentInv /\ CaptureInv /\ OrderInv /\ FramesInv
        /\ off = 0 /\ frames = <<>> /\ Len(capture) \in Nat
    BY DEF ScanInv, ScanTypeOK, Close
  <1>2. /\ sent' = sent /\ capture' = capture /\ off' = off /\ frames' = frames
        /\ scanning' = TRUE
    BY DEF Close
  <1>3. ScanTypeOK'
    BY <1>1, <1>2 DEF ScanTypeOK
  <1>4. SentInv' /\ CaptureInv' /\ OrderInv' /\ FramesInv'
    <2>1. SentInv'
      BY <1>1, <1>2 DEF SentInv
    <2>2. CaptureInv'
      BY <1>1, <1>2 DEF CaptureInv
    <2>3. OrderInv'
      BY <1>1, <1>2 DEF OrderInv
    <2>4. FramesInv'
      BY <1>1, <1>2 DEF FramesInv
    <2> QED BY <2>1, <2>2, <2>3, <2>4
  <1>5. IntactInv'
    BY <1>1, <1>2 DEF IntactInv
  <1> QED BY <1>3, <1>4, <1>5 DEF ScanInv

-----------------------------------------------------------------------------
(* The parser's step.                                                      *)

\* A step either finds a frame at the offset or moves on without one.
LEMMA ScanStep ==
  ASSUME ScanInv, Scan
  PROVE  /\ scanning /\ off \in Nat /\ off < End /\ End \in Nat
         /\ scanning' = TRUE /\ sent' = sent /\ capture' = capture
         /\ \/ /\ DecodeFrame(off).frame # None /\ DecodeFrame(off) = Found(off)
               /\ off + Overhead <= End /\ off + Total(off) <= End /\ CrcHolds(off)
               /\ Total(off) \in Nat /\ Total(off) >= Overhead
               /\ off' = off + Total(off)
               /\ frames' = Append(frames, FrameAt(off))
            \/ /\ DecodeFrame(off).frame = None /\ frames' = frames
               /\ \/ off' = off + 1
                  \/ /\ off' = End
                     /\ \/ off + Overhead > End
                        \/ off + Total(off) > End /\ Value(off, 3) <= MaxPayload
                        \/ off + 1 = End
PROOF
  <1>1. ScanTypeOK /\ CaptureInv
    BY DEF ScanInv
  <1>2. /\ scanning /\ off \in Nat /\ off < End /\ End \in Nat
        /\ scanning' = TRUE /\ sent' = sent /\ capture' = capture
    BY <1>1 DEF Scan, ScanTypeOK, End
  <1>3. /\ off' = DecodeFrame(off).next
        /\ frames' = IF DecodeFrame(off).frame = None THEN frames
                     ELSE Append(frames, DecodeFrame(off).frame)
    BY DEF Scan
  <1>4. CASE /\ DecodeFrame(off).frame # None /\ DecodeFrame(off) = Found(off)
             /\ off + Overhead <= End /\ off + Total(off) <= End /\ CrcHolds(off)
    <2>1. Found(off).frame = FrameAt(off) /\ Found(off).next = off + Total(off)
      BY DEF Found
    <2>2. Total(off) \in Nat /\ Total(off) >= Overhead
      BY <1>1, <1>2, <1>4, HeaderSane
    <2> QED BY <1>2, <1>3, <1>4, <2>1, <2>2
  <1>5. CASE /\ DecodeFrame(off) \in {Skip(End), Skip(off + 1)}
             /\ DecodeFrame(off).frame = None
             /\ DecodeFrame(off) = Skip(End) =>
                  \/ off + Overhead > End
                  \/ off + Total(off) > End /\ Value(off, 3) <= MaxPayload
                  \/ off + 1 = End
    <2>1. Skip(End).next = End /\ Skip(off + 1).next = off + 1
      BY DEF Skip
    <2> QED BY <1>2, <1>3, <1>5, <2>1
  <1> QED BY <1>1, <1>2, <1>4, <1>5, DecodeFinds

\* The CRC octet of a frame found now is behind all those of the frames before,
\* so it is a later frame's.
LEMMA FoundIsLater ==
  ASSUME ScanInv, NEW k \in 1 .. Len(sent), NEW i \in 1 .. off,
         NEW l \in 1 .. Len(sent), NEW p \in 1 .. Len(capture), off < p,
         capture[i].of = k, capture[i].at = CrcPlace(sent[k]),
         capture[p].of = l, capture[p].at = CrcPlace(sent[l])
  PROVE  k < l /\ sent[k].n < sent[l].n
PROOF
  <1>1. off \in Nat /\ off <= Len(capture) /\ Len(capture) \in Nat
    BY DEF ScanInv, ScanTypeOK
  <1>2. i \in 1 .. Len(capture) /\ i < p /\ k # 0 /\ l # 0
    BY <1>1
  <1>3. Earlier(capture[i], capture[p])
    BY <1>2 DEF ScanInv, OrderInv
  <1>4. CrcPlace(sent[k]) \in Nat
    <2>1. sent[k] \in FrameType
      BY DEF ScanInv, ScanTypeOK
    <2>2. Len(sent[k].payload) \in Nat
      BY <2>1 DEF FrameType
    <2> QED BY <2>2 DEF CrcPlace, Overhead, HeaderSize
  <1>5. k < l
    BY <1>3, <1>4 DEF Earlier
  <1>6. sent[k].n = k - 1 /\ sent[l].n = l - 1
    BY DEF ScanInv, SentInv
  <1> QED BY <1>5, <1>6

LEMMA ScanKeepsFrames == ASSUME ScanInv, Scan PROVE ScanTypeOK' /\ FramesInv'
PROOF
  <1>1. ScanTypeOK /\ SentInv /\ CaptureInv /\ FramesInv
    BY DEF ScanInv
  <1>2. /\ scanning /\ off \in Nat /\ off < End /\ End \in Nat /\ End = Len(capture)
        /\ scanning' = TRUE /\ sent' = sent /\ capture' = capture
    BY ScanStep DEF End
  <1>3. frames \in Seq(FrameType) /\ Len(frames) \in Nat
    BY <1>1 DEF ScanTypeOK
  <1>4. CASE /\ frames' = frames
             /\ off' = off + 1 \/ off' = End
    <2>1. off' \in 0 .. Len(capture) /\ \A i \in 1 .. off : i \in 1 .. off'
      BY <1>2, <1>4
    <2>2. ScanTypeOK'
      BY <1>1, <1>2, <1>4, <2>1 DEF ScanTypeOK
    <2>3. FramesInv'
      BY <1>1, <1>2, <1>4, <2>1 DEF FramesInv, ReadFrom
    <2> QED BY <2>2, <2>3
  <1>5. CASE /\ off + Overhead <= End /\ off + Total(off) <= End /\ CrcHolds(off)
             /\ Total(off) \in Nat /\ Total(off) >= Overhead
             /\ off' = off + Total(off)
             /\ frames' = Append(frames, FrameAt(off))
    <2> DEFINE p == off'
               l == capture[off'].of
               n == Len(frames)
    <2>1. /\ p \in 1 .. Len(capture) /\ l \in 1 .. Len(sent)
          /\ FrameAt(off) = sent[l] /\ capture[p].at = CrcPlace(sent[l])
      BY <1>1, <1>2, <1>5, FoundWasSent
    <2>2. off < p /\ p \in 0 .. Len(capture) /\ \A i \in 1 .. off : i \in 1 .. p
          /\ p \in 1 .. p
      BY <1>2, <1>5, <2>1 DEF Overhead, HeaderSize
    <2>3. sent[l] \in FrameType
      BY <1>1, <2>1 DEF ScanTypeOK
    <2>4. /\ frames' \in Seq(FrameType) /\ Len(frames') = n + 1
          /\ frames'[n + 1] = sent[l]
          /\ \A j \in 1 .. n : frames'[j] = frames[j]
      BY <1>3, <1>5, <2>1, <2>3
    <2>5. ScanTypeOK'
      BY <1>1, <1>2, <2>2, <2>4 DEF ScanTypeOK
    <2>6. \A j \in 1 .. n + 1 : j \in 1 .. n \/ j = n + 1
      BY <1>3
    <2> HIDE DEF p, l, n
    <2>7. ASSUME NEW j \in 1 .. n
          PROVE  /\ \E k \in 1 .. Len(sent), i \in 1 .. off : ReadFrom(frames[j], k, i)
                 /\ frames[j].n < sent[l].n
      <3>1. PICK k \in 1 .. Len(sent), i \in 1 .. off : ReadFrom(frames[j], k, i)
        BY <1>1 DEF FramesInv, n
      <3>2. /\ frames[j] = sent[k] /\ capture[i].of = k
            /\ capture[i].at = CrcPlace(sent[k])
        BY <3>1 DEF ReadFrom
      <3>3. capture[p].of = l
        BY DEF p, l
      <3> QED BY <2>1, <2>2, <3>1, <3>2, <3>3, FoundIsLater
    <2>8. (\A j \in 1 .. Len(frames) :
             \E k \in 1 .. Len(sent), i \in 1 .. off : ReadFrom(frames[j], k, i))'
      <3> SUFFICES ASSUME NEW j \in 1 .. n + 1
                   PROVE  \E k \in 1 .. Len(sent), i \in 1 .. p :
                            /\ frames'[j] = sent[k] /\ capture[i].of = k
                            /\ capture[i].at = CrcPlace(frames'[j])
        BY <1>2, <2>4 DEF ReadFrom, p
      <3>1. CASE j = n + 1
        BY <2>1, <2>2, <2>4, <3>1 DEF p, l
      <3>2. CASE j \in 1 .. n
        BY <2>2, <2>4, <2>7, <3>2 DEF ReadFrom
      <3> QED BY <2>6, <3>1, <3>2
    <2>9. \A j, m \in 1 .. Len(frames') : j < m => frames'[j].n < frames'[m].n
      <3> SUFFICES ASSUME NEW j \in 1 .. n + 1, NEW m \in 1 .. n + 1, j < m
                   PROVE  frames'[j].n < frames'[m].n
        BY <2>4
      <3>1. j \in 1 .. n
        BY <1>3 DEF n
      <3>2. CASE m = n + 1
        BY <2>4, <2>7, <3>1, <3>2
      <3>3. CASE m \in 1 .. n
        BY <1>1, <2>4, <3>1, <3>3 DEF FramesInv, n
      <3> QED BY <2>6, <3>2, <3>3
    <2>10. FramesInv'
      BY <2>8, <2>9 DEF FramesInv
    <2> QED BY <2>5, <2>10
  <1> QED BY <1>2, <1>4, <1>5, ScanStep

\* A frame found ahead of an intact one does not reach into it: its CRC octet
\* is not one of the intact frame's, and behind it, the frame found would carry
\* the intact one.
LEMMA NoReach ==
  ASSUME ScanInv, NoFrameInside,
         NEW k \in 1 .. Len(sent), NEW o \in 0 .. End - MaxFrame, Intact(o, k),
         off \in Nat, off < o, off + Overhead <= End, off + Total(off) <= End,
         CrcHolds(off), Total(off) \in Nat
  PROVE  off + Total(off) <= o
PROOF
  <1> DEFINE p == off + Total(off)
             l == capture[p].of
             f == sent[k]
             g == sent[l]
             t == o - off
             n == Len(f.payload)
             m == Len(g.payload)
  <1>1. ScanTypeOK /\ SentInv /\ CaptureInv /\ o \in Nat
    BY DEF ScanInv
  <1>2. /\ p \in 1 .. Len(capture) /\ l \in 1 .. Len(sent)
        /\ FrameAt(off) = g /\ capture[p].at = CrcPlace(g)
        /\ Total(off) = CrcPlace(g)
        /\ \A i \in 1 .. Total(off) - 1 : Value(off, i) = Fields(g)[i]
    BY <1>1, FoundWasSent
  <1>3. /\ f \in FrameType /\ g \in FrameType /\ n \in Nat
        /\ m \in Nat
        /\ f \in [n : 0 .. MaxSent, payload : Payloads]
        /\ g \in [n : 0 .. MaxSent, payload : Payloads]
    <2>1. ASSUME NEW j \in 1 .. Len(sent)
          PROVE  /\ sent[j] \in FrameType /\ Len(sent[j].payload) \in Nat
                 /\ sent[j] \in [n : 0 .. MaxSent, payload : Payloads]
      <3>1. sent[j] \in FrameType
        BY <1>1 DEF ScanTypeOK
      <3>2. sent[j].n \in 0 .. MaxSent /\ sent[j].payload \in Payloads
        <4>1. Len(sent) \in Nat /\ MaxSent \in Nat /\ j \in Nat /\ j >= 1
          BY <1>1, ScanAssumption DEF ScanTypeOK
        <4>2. /\ sent[j].n = j - 1 /\ sent[j].payload \in Payloads
              /\ Len(sent) <= MaxSent
          BY <1>1 DEF SentInv
        <4> QED BY <4>1, <4>2
      <3> QED BY <3>1, <3>2 DEF FrameType
    <2> QED BY <1>2, <2>1
  <1>4. /\ CrcPlace(f) = n + 4 /\ CrcPlace(g) = m + 4
        /\ Overhead + n = n + 4 /\ HeaderSize + n = n + 3
    BY <1>3 DEF CrcPlace, Overhead, HeaderSize
  <1>5. \A i \in 1 .. n + 4 : capture[o + i].of = k /\ capture[o + i].at = i
    BY <1>4 DEF Intact
  <1>6. \A i \in 1 .. n + 3 : Value(o, i) = Fields(f)[i]
    BY <1>1, <1>4, IntactIsFound
  <1> SUFFICES ASSUME p > o PROVE FALSE
    BY <1>1
  <1> HIDE DEF n, m
  <1>7. CASE p <= o + n + 4
    <2> DEFINE i == p - o
    <2>1. i \in 1 .. n + 4 /\ o + i = p
      BY <1>1, <1>3, <1>7
    <2> HIDE DEF i
    <2>2. l = k /\ capture[p].at = i
      BY <1>5, <2>1
    <2>3. i = n + 4 /\ Total(off) = n + 4
      BY <1>2, <1>4, <2>2
    <2>4. off = o
      BY <1>1, <1>3, <2>1, <2>3
    <2> QED BY <2>4
  <1>8. CASE ~(p <= o + n + 4)
    <2>1. t \in 1 .. m - n - 1
      BY <1>1, <1>2, <1>3, <1>4, <1>8
    <2>2. ASSUME NEW i \in 1 .. HeaderSize + n
          PROVE  Fields(g)[t + i] = Fields(f)[i]
      <3>1. i \in 1 .. n + 3 /\ off + (t + i) = o + i
            /\ t + i \in 1 .. Total(off) - 1
        BY <1>1, <1>2, <1>3, <1>4, <2>1
      <3>2. Value(off, t + i) = Value(o, i)
        BY <3>1 DEF Value, Octet
      <3> QED BY <1>2, <1>6, <3>1, <3>2
    <2> HIDE DEF t
    <2>3. Carries(g, f)
      BY <2>1, <2>2 DEF Carries, n, m
    <2> QED BY <1>3, <2>3 DEF NoFrameInside
  <1> QED BY <1>7, <1>8

LEMMA ScanKeepsIntact ==
  ASSUME ScanInv, IntactInv, NoFrameInside, Scan PROVE IntactInv'
PROOF
  <1>1. /\ scanning /\ off \in Nat /\ off < End /\ End \in Nat
        /\ scanning' = TRUE /\ sent' = sent /\ capture' = capture /\ End' = End
    BY ScanStep DEF End
  <1>2. frames \in Seq(FrameType) /\ Len(frames) \in Nat
        /\ ScanTypeOK /\ SentInv /\ CaptureInv
    BY DEF ScanInv, ScanTypeOK
  <1>3. MaxFrame = MaxPayload + 4 /\ MaxPayload \in Nat
    BY ScanAssumption DEF MaxFrame, Overhead, HeaderSize
  <1>4. \A j \in 1 .. Len(frames) :
          j \in 1 .. Len(frames') /\ frames'[j] = frames[j]
    <2>1. frames' = frames \/ \E f \in FrameType : frames' = Append(frames, f)
      BY <1>1, <1>2, ScanStep, FrameAtType
    <2> QED BY <1>2, <2>1
  <1>5. ASSUME NEW k, NEW o PROVE Intact(o, k)' <=> Intact(o, k)
    BY <1>1 DEF Intact, End
  <1> SUFFICES ASSUME NEW k \in 1 .. Len(sent), NEW o \in 0 .. End - MaxFrame,
                      Intact(o, k)
               PROVE  \/ off' <= o
                      \/ \E j \in 1 .. Len(frames') : frames'[j] = sent[k]
    BY <1>1, <1>5 DEF IntactInv
  <1>6. off <= o \/ \E j \in 1 .. Len(frames) : frames[j] = sent[k]
    BY <1>1 DEF IntactInv
  <1>7. o \in Nat /\ o + MaxPayload + 4 <= End
    BY <1>1, <1>3
  <1>8. CASE off = o
    <2>1. DecodeFrame(off).frame # None /\ FrameAt(off) = sent[k]
      BY <1>2, <1>8, IntactIsFound
    <2>2. frames' = Append(frames, sent[k]) /\ sent[k] \in FrameType
      BY <1>2, <2>1, ScanStep DEF ScanTypeOK
    <2>3. Len(frames) + 1 \in 1 .. Len(frames')
          /\ frames'[Len(frames) + 1] = sent[k]
      BY <1>2, <2>2
    <2> QED BY <2>3
  <1>9. CASE off < o
    <2>1. CASE /\ off + Overhead <= End /\ off + Total(off) <= End
               /\ CrcHolds(off) /\ Total(off) \in Nat
               /\ off' = off + Total(off)
      BY <1>1, <1>9, <2>1, NoReach
    <2>2. CASE off' = off + 1
      BY <1>1, <1>7, <1>9, <2>2
    <2>3. CASE \/ off + Overhead > End
               \/ off + Total(off) > End /\ Value(off, 3) <= MaxPayload
               \/ off + 1 = End
      <3>1. off + Overhead <= End /\ off + 1 # End
        BY <1>1, <1>3, <1>7, <1>9 DEF Overhead, HeaderSize
      <3>2. Value(off, 3) \in Nat
        BY <1>1, <1>2, <3>1, HeaderSane
      <3>3. ~(off + Overhead > End)
        BY <1>1, <3>1 DEF Overhead, HeaderSize
      <3>4. off + Total(off) > End /\ Value(off, 3) <= MaxPayload
        BY <2>3, <3>1, <3>3
      <3> QED BY <1>1, <1>3, <1>7, <1>9, <3>2, <3>4 DEF Total, Overhead, HeaderSize
    <2> QED BY <2>1, <2>2, <2>3, ScanStep
  <1>10. CASE \E j \in 1 .. Len(frames) : frames[j] = sent[k]
    BY <1>4, <1>10
  <1> QED BY <1>1, <1>7, <1>8, <1>9, <1>6, <1>10

LEMMA ScanNextKeeps == ASSUME ScanInv, [Next]_vars PROVE ScanInv'
PROOF
  <1>1. ASSUME NEW p \in Payloads, Send(p) PROVE ScanInv'
    BY <1>1, SendKeeps
  <1>2. ASSUME Scan PROVE ScanInv'
    <2>1. ScanTypeOK' /\ FramesInv'
      BY <1>2, ScanKeepsFrames
    <2>2. sent' = sent /\ capture' = capture
      BY <1>2 DEF Scan
    <2> QED BY <2>1, <2>2 DEF ScanInv, SentInv, CaptureInv, OrderInv
  <1>3. CASE UNCHANGED vars
    BY <1>3 DEF vars, ScanInv, ScanTypeOK, SentInv, CaptureInv, OrderInv,
                FramesInv, ReadFrom
  <1> QED BY <1>1, <1>2, <1>3, AlterKeeps, LoseOctetKeeps, TruncateKeeps,
             CloseKeeps DEF Next

LEMMA ScanInvariant == Spec => []ScanInv
PROOF
  <1>1. Init => ScanInv
    BY ScanInitInv
  <1>2. ScanInv /\ [Next]_vars => ScanInv'
    BY ScanNextKeeps
  <1> QED BY <1>1, <1>2, PTL DEF Spec

-----------------------------------------------------------------------------
\* bench-firmware.md:46-49: for any marker, payloads, number of frames and
\* accidents, a frame decoded was sent, as it was sent, in order and once.
THEOREM NothingIsForged == Spec => []NothingForged
PROOF
  <1>1. ScanInv => NothingForged
    <2> SUFFICES ASSUME ScanInv PROVE NothingForged
      OBVIOUS
    <2>1. frames \in Seq(FrameType) /\ sent \in Seq(FrameType) /\ FramesInv
      BY DEF ScanInv, ScanTypeOK
    <2>2. DOMAIN frames = 1 .. Len(frames) /\ DOMAIN sent = 1 .. Len(sent)
      BY <2>1
    <2>3. ToSet(frames) \subseteq ToSet(sent)
      BY <2>1, <2>2 DEF FramesInv, ReadFrom, ToSet
    <2> QED BY <2>1, <2>2, <2>3 DEF NothingForged, FramesInv
  <1> QED BY <1>1, ScanInvariant, PTL

\* frame.c:35-70 and telemetry.py:98-118: at every offset the parser stops at,
\* whatever the file holds, both decoders accept or both refuse.
THEOREM DecodersAlwaysAgree == Spec => []DecodersAgree
PROOF
  <1>1. ScanInv => DecodersAgree
    BY DecodersMeet DEF ScanInv, ScanTypeOK, DecodersAgree, End
  <1> QED BY <1>1, ScanInvariant, PTL

\* telemetry.py:98-118: as long as no frame carries the octets of another, every
\* intact frame that starts a longest frame or more before the end of the file
\* is read.  (Without that, what is left of a damaged file can be a frame that
\* was sent and whose octets hold the intact one, which is then passed over.)
THEOREM IntactFramesAreRead ==
  ASSUME NoFrameInside
  PROVE  Spec => []IntactFramesRead
PROOF
  <1>1. Init => ScanInv /\ IntactInv
    BY ScanInitInv
  <1>2. ScanInv /\ IntactInv /\ [Next]_vars => IntactInv'
    <2> SUFFICES ASSUME ScanInv, IntactInv, [Next]_vars PROVE IntactInv'
      OBVIOUS
    <2>1. ASSUME NEW p \in Payloads, Send(p) PROVE IntactInv'
      BY <2>1, SendKeeps
    <2>2. CASE UNCHANGED vars
      <3>1. /\ scanning' = scanning /\ sent' = sent /\ capture' = capture
            /\ off' = off /\ frames' = frames /\ End' = End
        BY <2>2 DEF vars, End
      <3>2. ASSUME NEW k, NEW o PROVE Intact(o, k)' <=> Intact(o, k)
        BY <3>1 DEF Intact, End
      <3> QED BY <3>1, <3>2 DEF IntactInv
    <2> QED BY <2>1, <2>2, AlterKeeps, LoseOctetKeeps, TruncateKeeps,
               CloseKeeps, ScanKeepsIntact DEF Next
  <1>3. ScanInv /\ IntactInv => IntactFramesRead
    <2> SUFFICES ASSUME ScanInv, IntactInv, scanning, off = End,
                        NEW k \in DOMAIN sent, NEW o \in 0 .. End - MaxFrame,
                        Intact(o, k)
                 PROVE  sent[k] \in ToSet(frames)
      BY DEF IntactFramesRead
    <2>1. frames \in Seq(FrameType) /\ sent \in Seq(FrameType) /\ End \in Nat
      BY DEF ScanInv, ScanTypeOK, End
    <2>2. DOMAIN frames = 1 .. Len(frames) /\ k \in 1 .. Len(sent)
      BY <2>1
    <2>3. ~(off <= o)
      BY <2>1, ScanAssumption DEF MaxFrame, Overhead, HeaderSize
    <2> QED BY <2>2, <2>3 DEF IntactInv, ToSet
  <1> QED BY <1>1, <1>2, <1>3, ScanInvariant, PTL DEF Spec

=============================================================================
