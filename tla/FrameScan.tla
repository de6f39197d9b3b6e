------------------------------- MODULE FrameScan -----------------------------
(***************************************************************************)
(* The frames of a capture, octet by octet: how the firmware encodes them  *)
(* (frame.c), what the line may do to them, and how parse_stream finds     *)
(* them again (_decode_frame of measurement/analysis/telemetry.py).        *)
(*                                                                         *)
(* A field is one octet here: marker (magic and version), frame number,    *)
(* payload length, the payload's octets, CRC.  An octet is a sequence of   *)
(* values, one value long but for a CRC, which is all the values it covers *)
(* (so that two bodies of different values never have one CRC).  Read as   *)
(* another field, a CRC shows the last of them.                            *)
(***************************************************************************)
EXTENDS Integers, FiniteSets, SequencesExt

CONSTANTS
  Marker,      \* _MAGIC0, _MAGIC1 and _FRAME_VERSION
  MaxPayload,  \* _MAX_PAYLOAD, BENCH_FRAME_MAX_PAYLOAD
  Payloads,    \* the messages the frames carry
  Damaged,     \* values an octet may take on the line
  MaxSent,     \* bound: frames
  MaxHits,     \* bound: accidents on the line
  None         \* no frame

HeaderSize == 3
Overhead   == HeaderSize + 1

ASSUME ScanAssumption ==
  /\ Marker \in Nat /\ MaxPayload \in Nat
  /\ \A p \in Payloads : p \in Seq(Nat) /\ Len(p) \in 1 .. MaxPayload
  /\ Damaged \subseteq Nat
  /\ MaxSent \in Nat /\ MaxHits \in Nat
  /\ None \notin [n : Nat, payload : Seq(Nat)]

VARIABLES
  sent,      \* frames the sink accepted, in order
  capture,   \* octets of the file, each with the frame and the place it comes
             \* from as history (0 once it was altered)
  hits,      \* history: accidents on the line
  scanning,  \* the file is closed, parse_stream reads it
  off,       \* octets behind the parser
  frames,    \* frames decoded
  resyncs    \* frames_resync

vars == <<sent, capture, hits, scanning, off, frames, resyncs>>

-----------------------------------------------------------------------------
(* Encoding: bench_frame_encode.                                           *)

Crc(body) == [i \in DOMAIN body |-> Last(body[i])]

Fields(frame) == <<Marker, frame.n, Len(frame.payload)>> \o frame.payload

Encode(frame) ==
  LET body == [i \in DOMAIN Fields(frame) |-> <<Fields(frame)[i]>>]
  IN  Append(body, Crc(body))

Send(payload) ==
  /\ ~scanning
  /\ Len(sent) < MaxSent
  /\ LET frame  == [n |-> Len(sent), payload |-> payload]
         octets == Encode(frame)
     IN  /\ sent' = Append(sent, frame)
         /\ capture' = capture \o [i \in DOMAIN octets |->
                         [v |-> octets[i], of |-> Len(sent) + 1, at |-> i]]
  /\ UNCHANGED <<hits, scanning, off, frames, resyncs>>

-----------------------------------------------------------------------------
(* The line: an octet changed, an octet lost, the end of the file missing. *)

Hit ==
  /\ ~scanning
  /\ hits < MaxHits
  /\ hits' = hits + 1
  /\ UNCHANGED <<sent, scanning, off, frames, resyncs>>

Alter ==
  /\ Hit
  /\ \E i \in DOMAIN capture, v \in Damaged :
       /\ capture[i].v # <<v>>
       /\ capture' = [capture EXCEPT ![i] = [v |-> <<v>>, of |-> 0, at |-> 0]]

LoseOctet ==
  /\ Hit
  /\ \E i \in DOMAIN capture : capture' = RemoveAt(capture, i)

Truncate ==
  /\ Hit
  /\ \E k \in 0 .. Len(capture) - 1 : capture' = SubSeq(capture, 1, k)

Close ==
  /\ ~scanning
  /\ scanning' = TRUE
  /\ UNCHANGED <<sent, capture, hits, off, frames, resyncs>>

-----------------------------------------------------------------------------
(* Decoding.  Octet i of what stands at offset o is capture[o + i].        *)

End == Len(capture)

Octet(o, i)  == capture[o + i].v
Value(o, i)  == Last(Octet(o, i))
Total(o)     == Overhead + Value(o, 3)
Body(o)      == [i \in 1 .. HeaderSize + Value(o, 3) |-> Octet(o, i)]
FrameAt(o) ==
  [n |-> Value(o, 2),
   payload |-> [i \in 1 .. Value(o, 3) |-> Value(o, HeaderSize + i)]]

\* bench_frame_decode_prefix on the octets from offset o on.
DecodePrefix(o) ==
  IF End - o < Overhead                        THEN "truncated"
  ELSE IF Value(o, 1) # Marker                 THEN "bad_magic"
  ELSE IF Value(o, 3) > MaxPayload             THEN "bad_length"
  ELSE IF End - o < Total(o)                   THEN "truncated"
  ELSE IF Crc(Body(o)) # Octet(o, Total(o))    THEN "bad_crc"
  ELSE "ok"

TooLongOrLongest(o) == Value(o, 3) >= MaxPayload     \* mutant

TooLong(o) == Value(o, 3) > MaxPayload

CrcTrusted(o) == TRUE     \* mutant

CrcHolds(o) == Crc(Body(o)) = Octet(o, Total(o))

\* Mutant: a frame whose CRC is wrong is skipped whole.
AfterFrame(o) == o + Total(o)

AfterBadCrc(o) == o + 1

\* Mutant: more octets are waited for.
Stay(o) == o

\* A frame that announces more octets than there are: the file is over.
AfterTruncated(o) == End

Skip(next)  == [frame |-> None, next |-> next]
Found(o)    == [frame |-> FrameAt(o), next |-> o + Total(o)]

DecodeFrame(o) ==
  IF o + Overhead > End        THEN Skip(End)
  ELSE IF Value(o, 1) # Marker THEN Skip(o + 1)
  ELSE IF TooLong(o)           THEN Skip(o + 1)
  ELSE IF o + Total(o) > End   THEN Skip(AfterTruncated(o))
  ELSE IF ~CrcHolds(o)         THEN Skip(AfterBadCrc(o))
  ELSE Found(o)

\* An iteration of the loop of parse_stream.
Scan ==
  /\ scanning
  /\ off < End
  /\ LET got == DecodeFrame(off)
     IN  /\ off' = got.next
         /\ frames' = IF got.frame = None THEN frames
                                          ELSE Append(frames, got.frame)
         /\ resyncs' = IF got.frame = None /\ got.next = off + 1
                         THEN resyncs + 1 ELSE resyncs
  /\ UNCHANGED <<sent, capture, hits, scanning>>

Init ==
  /\ sent = <<>> /\ capture = <<>> /\ frames = <<>>
  /\ hits = 0 /\ off = 0 /\ resyncs = 0
  /\ scanning = FALSE

Next ==
  \/ \E p \in Payloads : Send(p)
  \/ Alter
  \/ LoseOctet
  \/ Truncate
  \/ Close
  \/ Scan

Spec == Init /\ [][Next]_vars /\ WF_vars(Scan)

-----------------------------------------------------------------------------
\* bench-firmware.md:46-49: a frame that comes out of the parser is one that
\* was sent, as it was sent, in the order of emission and once, whatever became
\* of the octets.
NothingForged ==
  /\ ToSet(frames) \subseteq ToSet(sent)
  /\ \A j, k \in DOMAIN frames : j < k => frames[j].n < frames[k].n

MaxFrame == Overhead + MaxPayload

Intact(o, k) ==
  \A i \in 1 .. Overhead + Len(sent[k].payload) :
    /\ o + i <= End
    /\ capture[o + i].of = k /\ capture[o + i].at = i

\* f carries g, from its field t + 1 on.
Carries(f, g) ==
  \E t \in 1 .. Len(f.payload) - Len(g.payload) - 1 :
    \A i \in 1 .. HeaderSize + Len(g.payload) : Fields(f)[t + i] = Fields(g)[i]

NoFrameInside ==
  \A f, g \in [n : 0 .. MaxSent, payload : Payloads] : ~Carries(f, g)

\* telemetry.py:98-118: damage hides no intact frame, except at the end of the
\* file: a false or damaged header may announce more octets than remain, and
\* then everything from there on is given up.  A frame that starts at least one
\* longest frame before the end is safe from that.  (So it is as long as no frame
\* carries another one among its fields: else what many accidents leave of a file
\* can be the outer frame, and the parser steps over the inner one with it.)
IntactFramesRead ==
  scanning /\ off = End =>
    \A k \in DOMAIN sent, o \in 0 .. End - MaxFrame :
      Intact(o, k) => sent[k] \in ToSet(frames)

\* frame.c:35-70 and telemetry.py:98-118 are two decoders of one format: they
\* accept the same octets.
DecodersAgree ==
  scanning /\ off < End =>
    ((DecodePrefix(off) = "ok") <=> (DecodeFrame(off).frame # None))

\* parse_stream ends: each iteration moves forward, whatever the file holds.
ScanEnds == scanning ~> off = End
=============================================================================
