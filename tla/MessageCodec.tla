---------------------------- MODULE MessageCodec ----------------------------
(***************************************************************************)
(* MessageCodec (message_codec.go): Encode puts a two-byte big-endian      *)
(* length in front of a message; Decode is given the bytes of a TCP        *)
(* stream, cut into chunks wherever Read happens to cut them, keeps what   *)
(* it has of the current message between calls, and calls back once per    *)
(* complete message.                                                       *)
(*                                                                         *)
(* Radix is the number of values of a byte, 256 in the code.  A step is    *)
(* one turn of the loops in Decode, so the sender may run between any two. *)
(***************************************************************************)
EXTENDS Naturals, Sequences

CONSTANTS
    Radix,          \* values of a byte
    Message,        \* the messages that are sent
    MaxMessages     \* bound on how many are sent

Byte == 0..(Radix - 1)

\* The callers' messages are a UDP datagram of at most UDPReadBufferSize = 4096
\* bytes and six bytes of address, well below what two length bytes can say.
ASSUME CodecAssumption ==
    /\ Radix \in Nat \ {0, 1}
    /\ MaxMessages \in Nat
    /\ Message \subseteq Seq(Byte)
    /\ \A m \in Message : Len(m) < Radix * Radix

VARIABLES
    stream,                 \* every byte written to the connection so far
    read,                   \* bytes of it that Reads have returned
    pos,                    \* bytes of it that Decode has consumed
    decoding,               \* inside Decode: data[i:] is stream[pos+1..read]
    lengthBytesRemaining,
    msgBytesRemaining,
    msgBuffer,
    sent,                   \* messages encoded, in order
    bounds,                 \* where in stream each of them ends, after a 0
    delivered               \* messages passed to the callback, in order

decoderVars == <<lengthBytesRemaining, msgBytesRemaining, msgBuffer>>
senderVars == <<stream, sent, bounds>>
vars == <<stream, read, pos, decoding, decoderVars, sent, bounds, delivered>>

Init ==
    /\ stream = <<>> /\ read = 0 /\ pos = 0
    /\ decoding = FALSE
    /\ lengthBytesRemaining = 2 /\ msgBytesRemaining = 0 /\ msgBuffer = <<>>
    /\ sent = <<>> /\ bounds = <<0>> /\ delivered = <<>>

-----------------------------------------------------------------------------
\* Mutant of LengthPrefix: least significant byte first.
LittleEndian(n) == <<n % Radix, (n \div Radix) % Radix>>

\* uint16(len(data)), most significant byte first.
LengthPrefix(n) == <<(n \div Radix) % Radix, n % Radix>>

Encode(m) == LengthPrefix(Len(m)) \o m

Send(m) ==
    /\ Len(sent) < MaxMessages
    /\ stream' = stream \o Encode(m)
    /\ sent' = Append(sent, m)
    /\ bounds' = Append(bounds, Len(stream) + Len(Encode(m)))
    /\ UNCHANGED <<read, pos, decoding, decoderVars, delivered>>

\* Read returns n bytes, and Decode is called with them.
Read(n) ==
    /\ ~decoding
    /\ n \in 1..(Len(stream) - read)
    /\ read' = read + n
    /\ decoding' = TRUE
    /\ UNCHANGED <<senderVars, pos, decoderVars, delivered>>

-----------------------------------------------------------------------------
(* The loop of Decode. *)

\* Mutant of Shift: the same for both bytes.
ShiftEight(r) == Radix

\* The weight of the length byte that is read when r are still to come after.
Shift(r) == IF r = 1 THEN Radix ELSE 1

LengthByte ==
    /\ decoding /\ lengthBytesRemaining > 0 /\ pos < read
    /\ lengthBytesRemaining' = lengthBytesRemaining - 1
    /\ msgBytesRemaining' =
          msgBytesRemaining + stream[pos + 1] * Shift(lengthBytesRemaining - 1)
    /\ pos' = pos + 1
    /\ UNCHANGED <<senderVars, read, decoding, msgBuffer, delivered>>

\* Mutant of BodyBytes: takes everything there is, the next message included.
BodyBytesUnclipped ==
    /\ decoding /\ lengthBytesRemaining = 0 /\ msgBytesRemaining > 0
    /\ pos < read
    /\ msgBuffer' = msgBuffer \o SubSeq(stream, pos + 1, read)
    /\ msgBytesRemaining' = IF read - pos > msgBytesRemaining THEN 0
                            ELSE msgBytesRemaining - (read - pos)
    /\ pos' = read
    /\ decoding' = (msgBytesRemaining' = 0)
    /\ UNCHANGED <<senderVars, read, lengthBytesRemaining, delivered>>

\* Takes what there is of the message; returns if that is not the rest of it.
BodyBytes ==
    /\ decoding /\ lengthBytesRemaining = 0 /\ msgBytesRemaining > 0
    /\ pos < read
    /\ LET readLen == IF read - pos > msgBytesRemaining
                      THEN msgBytesRemaining ELSE read - pos
       IN  /\ msgBuffer' = msgBuffer \o SubSeq(stream, pos + 1, pos + readLen)
           /\ msgBytesRemaining' = msgBytesRemaining - readLen
           /\ pos' = pos + readLen
           /\ decoding' = (msgBytesRemaining = readLen)
    /\ UNCHANGED <<senderVars, read, lengthBytesRemaining, delivered>>

\* Mutant of NoMoreData: an exhausted chunk ends the call, whatever is due.
NoMoreDataAnyhow ==
    /\ decoding /\ pos = read
    /\ decoding' = FALSE
    /\ UNCHANGED <<senderVars, read, pos, decoderVars, delivered>>

\* The chunk is used up and a byte is needed: return to the caller.
NoMoreData ==
    /\ decoding /\ pos = read
    /\ lengthBytesRemaining > 0 \/ msgBytesRemaining > 0
    /\ decoding' = FALSE
    /\ UNCHANGED <<senderVars, read, pos, decoderVars, delivered>>

\* Mutant of Complete: returns after the first message of a chunk.
CompleteReturns ==
    /\ decoding /\ lengthBytesRemaining = 0 /\ msgBytesRemaining = 0
    /\ delivered' = Append(delivered, msgBuffer)
    /\ msgBuffer' = <<>>
    /\ lengthBytesRemaining' = 2
    /\ decoding' = FALSE
    /\ UNCHANGED <<senderVars, read, pos, msgBytesRemaining>>

\* A message is complete, perhaps an empty one: reset, and call back.
Complete ==
    /\ decoding /\ lengthBytesRemaining = 0 /\ msgBytesRemaining = 0
    /\ delivered' = Append(delivered, msgBuffer)
    /\ msgBuffer' = <<>>
    /\ lengthBytesRemaining' = 2
    /\ UNCHANGED <<senderVars, read, pos, decoding, msgBytesRemaining>>

Decode == LengthByte \/ BodyBytes \/ NoMoreData \/ Complete

Next ==
    \/ \E m \in Message : Send(m)
    \/ \E n \in 1..Len(stream) : Read(n)
    \/ Decode

Spec == Init /\ [][Next]_vars

\* What was written is read, and Decode does not stop half way.
FairSpec ==
    /\ Spec
    /\ WF_vars(\E n \in 1..Len(stream) : Read(n))
    /\ WF_vars(Decode)

-----------------------------------------------------------------------------
TypeOK ==
    /\ stream \in Seq(Byte)
    /\ read \in 0..Len(stream)
    /\ pos \in 0..read
    /\ decoding \in BOOLEAN
    /\ lengthBytesRemaining \in 0..2
    /\ msgBytesRemaining \in 0..(Radix * Radix - 1)
    /\ msgBuffer \in Seq(Byte)
    /\ sent \in Seq(Message)
    /\ bounds \in Seq(Nat)
    /\ delivered \in Seq(Seq(Byte))

Pipe == INSTANCE MessagePipe

(***************************************************************************)
(* However the stream is cut, the callback sees the messages that were     *)
(* encoded, whole, in order, none twice (message_codec.go:40-89).          *)
(***************************************************************************)
ImplementsPipe == Pipe!Spec

(***************************************************************************)
(* Decode never returns with a message it could have delivered: when all   *)
(* bytes have been read, all messages are out, an empty last one included  *)
(* (message_codec.go:56, 77).                                              *)
(***************************************************************************)
NothingHeldBack ==
    ~decoding /\ read = Len(stream) => delivered = sent

(***************************************************************************)
(* Between calls, all bytes of the chunk have been consumed, and the bytes *)
(* read since the last message that was delivered are held, each in its    *)
(* place: of the length, in the number of bytes still due, and of the      *)
(* body, in the buffer; so whatever chunk comes next, nothing of the       *)
(* message is lost or counted twice (message_codec.go:46, 59, 72).         *)
(***************************************************************************)
Start == bounds[Len(delivered) + 1]

LengthSoFar ==
    CASE lengthBytesRemaining = 2 -> 0
      [] lengthBytesRemaining = 1 -> Radix * stream[Start + 1]
      [] OTHER -> Radix * stream[Start + 1] + stream[Start + 2]

NoByteLost ==
    ~decoding =>
        /\ pos = read
        /\ read = Start + (2 - lengthBytesRemaining) + Len(msgBuffer)
        /\ lengthBytesRemaining > 0 => msgBuffer = <<>>
        /\ msgBytesRemaining + Len(msgBuffer) = LengthSoFar
        /\ \A i \in 1..Len(msgBuffer) : msgBuffer[i] = stream[Start + 2 + i]

(***************************************************************************)
(* Every message that is sent is delivered in the end.                     *)
(***************************************************************************)
AllDelivered ==
    \A k \in 1..MaxMessages : (Len(sent) >= k) ~> (Len(delivered) >= k)
=============================================================================
