------------------------------- MODULE Frames -------------------------------
(***************************************************************************)
(* The frames of the protocol (common/src/protocol.cpp) and the two loops   *)
(* that cut them out of a byte stream: cut_frames in the gateway and        *)
(* consume_frames in the client.  A sender encodes frames, answers are      *)
(* stamped with the sequence number of their request, a byte may be damaged *)
(* on its way, and the stream arrives in pieces of any length.              *)
(*                                                                         *)
(* A byte is a digit below Base.  The magic is one byte and every integer   *)
(* of the header two, least significant first; the length is signed.        *)
(***************************************************************************)
EXTENDS Integers, Sequences, SequencesExt

CONSTANTS
  Base,             \* values of a byte
  kMaxMessageLen,
  Frame,            \* frames that are sent: event_id, seq, payload
  MaxFrames, MaxDamage

kFrameMagic == 3
kHeaderLen == 7

ASSUME FramesAssumption ==
  /\ Base \in Nat /\ Base > kFrameMagic /\ MaxFrames \in Nat /\ MaxDamage \in Nat
  /\ kMaxMessageLen \in Nat /\ 2 * kMaxMessageLen < Base * Base

VARIABLES
  framesSent, stream, \* frames encoded so far, and their bytes
  delivered,          \* bytes of the stream that have arrived
  rxServer, rxApp,    \* either receiver: its buffer, the frames cut from it, and
                      \* whether it met a bad frame
  damage              \* bytes damaged

fvars == <<framesSent, stream, delivered, rxServer, rxApp, damage>>

put_le(v) == <<v % Base, (v \div Base) % Base>>
get_le(b, at) == b[at] + Base * b[at + 1]

\* The same bytes as a signed integer.
get_i32_le(b, at) ==
  LET u == get_le(b, at) IN IF 2 * u < Base * Base THEN u ELSE u - Base * Base

Encodable(f) == Len(f.payload) <= kMaxMessageLen

encode(f) ==
  <<kFrameMagic>> \o put_le(f.event_id) \o put_le(f.seq) \o put_le(Len(f.payload)) \o f.payload

\* Writes the sequence number over the one encode left (bytes 4 and 5 here).
stamp_seq(e, seq) ==
  IF Len(e) < kHeaderLen \/ e[1] # kFrameMagic THEN e
  ELSE [i \in DOMAIN e |-> IF i \in {4, 5} THEN put_le(seq)[i - 3] ELSE e[i]]

NeedMore == [status |-> "NeedMore", frame |-> <<>>, consumed |-> 0]
BadFrame == [status |-> "BadFrame", frame |-> <<>>, consumed |-> 0]

WholeShort(b, len) ==
  [status |-> "Ok", consumed |-> kHeaderLen + len,
   frame |-> [event_id |-> get_le(b, 2), seq |-> get_le(b, 4),
              payload |-> SubSeq(b, kHeaderLen + 1, kHeaderLen + len - 1)]]

Whole(b, len) ==
  [status |-> "Ok", consumed |-> kHeaderLen + len,
   frame |-> [event_id |-> get_le(b, 2), seq |-> get_le(b, 4),
              payload |-> SubSeq(b, kHeaderLen + 1, kHeaderLen + len)]]

decode_frame(b) ==
  IF Len(b) < kHeaderLen THEN NeedMore
  ELSE IF b[1] # kFrameMagic THEN BadFrame
  ELSE LET len == get_i32_le(b, 6) IN
       IF len < 0 \/ len > kMaxMessageLen THEN BadFrame
       ELSE IF Len(b) < kHeaderLen + len THEN NeedMore ELSE Whole(b, len)

Suffix(b, off) == SubSeq(b, off + 1, Len(b))

\* The gateway's loop: by offset, while bytes are left.
cut_frames(b) ==
  LET cut[off \in 0..Len(b)] ==
        LET r == decode_frame(Suffix(b, off)) IN
        IF off < Len(b) /\ r.status = "Ok"
        THEN [cut[off + r.consumed] EXCEPT !.frames = <<r.frame>> \o @]
        ELSE [frames |-> <<>>, leftover |-> Suffix(b, off),
              bad |-> off < Len(b) /\ r.status = "BadFrame"]
  IN  cut[0]

\* The client's loop: the frame is removed from the buffer before it is handled.
consume_frames(b) ==
  LET consume[n \in 0..Len(b)] == \* n bytes are left
        LET buf == Suffix(b, Len(b) - n)  r == decode_frame(buf) IN
        IF r.status # "Ok" THEN [frames |-> <<>>, leftover |-> buf, bad |-> r.status = "BadFrame"]
        ELSE [consume[n - r.consumed] EXCEPT !.frames = <<r.frame>> \o @]
  IN  consume[Len(b)]

Empty == [buf |-> <<>>, frames |-> <<>>, bad |-> FALSE]

FramesInit ==
  /\ framesSent = <<>> /\ stream = <<>> /\ delivered = 0
  /\ rxServer = Empty /\ rxApp = Empty /\ damage = 0

\* A request is encoded with its sequence number; an answer is encoded without
\* one and stamped with that of its request.
Encode == \E f \in Frame :
  /\ Len(framesSent) < MaxFrames /\ Encodable(f) /\ framesSent' = Append(framesSent, f)
  /\ \E e \in {encode(f), stamp_seq(encode([f EXCEPT !.seq = 0]), f.seq)} : stream' = stream \o e
  /\ UNCHANGED <<delivered, rxServer, rxApp, damage>>

DamageByte == \E i \in (delivered + 1)..Len(stream), d \in 0..(Base - 1) :
  /\ damage < MaxDamage /\ d # stream[i] /\ damage' = damage + 1
  /\ stream' = [stream EXCEPT ![i] = d] /\ UNCHANGED <<framesSent, delivered, rxServer, rxApp>>

Received(r, cut) ==
  [buf |-> cut.leftover, frames |-> r.frames \o cut.frames, bad |-> cut.bad]

\* A piece arrives; a receiver that met a bad frame has closed the connection.
Deliver == \E n \in 1..(Len(stream) - delivered) :
  LET piece == SubSeq(stream, delivered + 1, delivered + n) IN
  /\ ~rxServer.bad /\ ~rxApp.bad /\ delivered' = delivered + n
  /\ rxServer' = Received(rxServer, cut_frames(rxServer.buf \o piece))
  /\ rxApp' = Received(rxApp, consume_frames(rxApp.buf \o piece))
  /\ UNCHANGED <<framesSent, stream, damage>>

FramesNext == Encode \/ DamageByte \/ Deliver

FramesTypeOK ==
  /\ Len(framesSent) <= MaxFrames /\ delivered \in 0..Len(stream) /\ damage \in 0..MaxDamage
  /\ rxServer.bad \in BOOLEAN /\ rxApp.bad \in BOOLEAN

-----------------------------------------------------------------------------

\* No byte is lost, doubled or reordered by cutting: the frames cut so far,
\* encoded again, followed by what is kept in the buffer, are the bytes that
\* arrived, damaged or not and in whatever pieces.
BytesAccounted ==
  FlattenSeq([k \in DOMAIN rxServer.frames |-> encode(rxServer.frames[k])]) \o rxServer.buf
    = SubSeq(stream, 1, delivered)

\* An undamaged stream is never refused, its frames come out as they went in,
\* and none stays behind once all its bytes are there.
FramesArriveWhole ==
  damage = 0 =>
    /\ ~rxServer.bad /\ IsPrefix(rxServer.frames, framesSent)
    /\ delivered = Len(stream) => rxServer.frames = framesSent

\* What stays in the buffer is less than the longest frame: a damaged length
\* cannot make a receiver wait for more.
BufferBounded == ~rxServer.bad => Len(rxServer.buf) < kHeaderLen + kMaxMessageLen

\* The two loops, written apart, cut the same frames and refuse the same streams.
BothEndsAgree == rxServer = rxApp

\* Either end cuts the stream into the frames that were sent, however it arrives,
\* and into nothing else when it was damaged.
FramesCutRight == BytesAccounted /\ FramesArriveWhole /\ BufferBounded /\ BothEndsAgree
=============================================================================
