------------------------- MODULE MessageCodecProofs -------------------------
(***************************************************************************)
(* Proofs about MessageCodec, for every radix and every set of messages    *)
(* whose length two bytes can say.                                         *)
(*                                                                         *)
(* The stream is the concatenation of the encodings; instead of defining   *)
(* that by recursion, the invariant says of each message sent, by its      *)
(* index, that its encoding lies in the stream from bounds[k] on.  The     *)
(* decoder works on message number Len(delivered) + 1, and Offset bytes    *)
(* into its encoding its three variables are functions of the message and  *)
(* the offset.                                                             *)
(***************************************************************************)
EXTENDS MessageCodec, SequenceTheorems, TLAPS

Laid ==
    /\ Len(bounds) = Len(sent) + 1
    /\ bounds[1] = 0 /\ bounds[Len(sent) + 1] = Len(stream)
    /\ \A k \in 1..(Len(sent) + 1) : bounds[k] <= Len(stream)
    /\ \A k \in 1..Len(sent) :
          /\ bounds[k + 1] = bounds[k] + 2 + Len(sent[k])
          /\ \A j \in 1..(2 + Len(sent[k])) :
                stream[bounds[k] + j] = Encode(sent[k])[j]

Offset == pos - bounds[Len(delivered) + 1]

Current == sent[Len(delivered) + 1]

\* Before the first byte, after it, and from the second on.
AtStart ==
    /\ Offset = 0
    /\ lengthBytesRemaining = 2 /\ msgBytesRemaining = 0
    /\ msgBuffer = <<>>
InLength ==
    /\ Len(delivered) < Len(sent) /\ Offset = 1
    /\ lengthBytesRemaining = 1
    /\ msgBytesRemaining = Radix * (Len(Current) \div Radix)
    /\ msgBuffer = <<>>
InBody ==
    /\ Len(delivered) < Len(sent) /\ Offset \in 2..(2 + Len(Current))
    /\ lengthBytesRemaining = 0
    /\ msgBytesRemaining = Len(Current) - (Offset - 2)
    /\ Len(msgBuffer) = Offset - 2
    /\ \A j \in 1..(Offset - 2) : msgBuffer[j] = Current[j]

DecoderAt == AtStart \/ InLength \/ InBody

DeliveredIsPrefix ==
    /\ Len(delivered) <= Len(sent)
    /\ \A k \in 1..Len(delivered) : delivered[k] = sent[k]

\* Between calls, Decode is waiting for a byte.
AtRest ==
    ~decoding => /\ pos = read
                 /\ lengthBytesRemaining > 0 \/ msgBytesRemaining > 0

IInv == TypeOK /\ Laid /\ DecoderAt /\ DeliveredIsPrefix /\ AtRest

-----------------------------------------------------------------------------
(* Arithmetic of two digits. *)

LEMMA Digits ==
    ASSUME NEW n \in Nat
    PROVE  /\ Radix \in Nat
           /\ n \div Radix \in Nat /\ n % Radix \in Nat
           /\ n % Radix \in 0..(Radix - 1)
           /\ n = Radix * (n \div Radix) + (n % Radix)
<1>1. n \div Radix \in Nat /\ n % Radix \in 0..(Radix - 1)
  BY CodecAssumption, Z3
<1>2. n = Radix * (n \div Radix) + (n % Radix)
  BY CodecAssumption, Z3
<1>3. Radix \in Nat /\ n % Radix \in Nat
  BY <1>1, CodecAssumption
<1> QED BY <1>1, <1>2, <1>3

LEMMA TopDigit ==
    ASSUME NEW n \in Nat, n < Radix * Radix
    PROVE  /\ n \div Radix < Radix
           /\ (n \div Radix) % Radix = n \div Radix
<1>1. n \div Radix < Radix
  BY CodecAssumption, Digits, Z3
<1>2. ASSUME NEW m \in 0..(Radix - 1) PROVE m % Radix = m
  BY CodecAssumption, Digits, Z3
<1>3. Radix \in Nat /\ n \div Radix \in 0..(Radix - 1)
  <2>1. Radix \in Nat /\ n \div Radix \in Nat
    BY Digits
  <2> QED BY <2>1, <1>1
<1> QED BY <1>1, <1>2, <1>3

\* The bytes of an encoded message.
LEMMA EncodeFacts ==
    ASSUME NEW m \in Message
    PROVE  /\ m \in Seq(Byte) /\ Len(m) \in Nat
           /\ Encode(m) \in Seq(Byte)
           /\ Len(Encode(m)) = 2 + Len(m)
           /\ Encode(m)[1] = Len(m) \div Radix
           /\ Encode(m)[2] = Len(m) % Radix
           /\ \A j \in 1..Len(m) : Encode(m)[2 + j] = m[j]
<1>1. m \in Seq(Byte) /\ Len(m) \in Nat /\ Len(m) < Radix * Radix
  BY CodecAssumption
<1>2. LengthPrefix(Len(m)) = <<Len(m) \div Radix, Len(m) % Radix>>
  BY <1>1, TopDigit DEF LengthPrefix
<1>3. <<Len(m) \div Radix, Len(m) % Radix>> \in Seq(Byte)
  <2>1. Len(m) \div Radix \in Byte /\ Len(m) % Radix \in Byte
    BY <1>1, Digits, TopDigit, CodecAssumption DEF Byte
  <2> QED BY <2>1
<1>4. Encode(m) = <<Len(m) \div Radix, Len(m) % Radix>> \o m
  BY <1>2 DEF Encode
<1> QED BY <1>1, <1>3, <1>4

-----------------------------------------------------------------------------
\* The numbers a length prefix can say.
LEMMA Square == Radix * Radix \in Nat /\ Radix * Radix >= 4
BY CodecAssumption, Z3

\* A place in an encoding that ends within s bytes is one of these.
LEMMA PlaceWithin ==
    ASSUME NEW b \in Nat, NEW n \in Nat, NEW s \in Nat, b + 2 + n <= s,
           NEW j \in 1..(2 + n)
    PROVE  b + j \in 1..s
OBVIOUS

\* What is at most a length is a number two digits can say.
LEMMA Below ==
    ASSUME NEW z \in Nat, NEW x \in Nat, NEW y \in Nat, x <= z, z < y
    PROVE  x \in 0..(y - 1)
OBVIOUS

\* The same byte, counted from the chunk and from the message.
LEMMA SamePlace ==
    ASSUME NEW b \in Nat, NEW o \in Nat, NEW j \in Nat
    PROVE  (b + o) + (j - (o - 2)) = b + 2 + j
OBVIOUS

LEMMA InitInv == Init => IInv
<1> SUFFICES ASSUME Init PROVE IInv
  OBVIOUS
<1> USE DEF Init
<1>1. TypeOK
  <2>1. <<>> \in Seq(Byte) /\ <<>> \in Seq(Message)
        /\ <<>> \in Seq(Seq(Byte)) /\ <<0>> \in Seq(Nat)
    OBVIOUS
  <2>2. 0 \in 0..(Radix * Radix - 1)
    BY Square
  <2>3. 0 \in 0..Len(<<>>) /\ 0 \in 0..0 /\ 2 \in 0..2 /\ FALSE \in BOOLEAN
    OBVIOUS
  <2> QED BY <2>1, <2>2, <2>3, Zenon DEF TypeOK
<1>2. Laid
  BY DEF Laid
<1>3. DecoderAt
  BY DEF DecoderAt, AtStart, Offset
<1>4. DeliveredIsPrefix /\ AtRest
  BY DEF DeliveredIsPrefix, AtRest
<1> QED BY <1>1, <1>2, <1>3, <1>4 DEF IInv

\* A message more is written behind all that is there.
LEMMA SendInv ==
    ASSUME IInv, NEW m \in Message, Send(m) PROVE IInv'
<1> DEFINE N == Len(sent)
           E == Encode(m)
           S == Len(stream)
<1>s. E \in Seq(Byte) /\ stream \in Seq(Byte)
  BY EncodeFacts DEF IInv, TypeOK
<1>t. sent \in Seq(Message) /\ bounds \in Seq(Nat)
  BY DEF IInv, TypeOK
<1>1. /\ Len(E) = 2 + Len(m) /\ Len(m) \in Nat /\ N \in Nat /\ S \in Nat
      /\ Len(bounds) = N + 1
  BY <1>s, <1>t, EncodeFacts, LenProperties DEF IInv, Laid
<1>2. /\ stream' = stream \o E /\ sent' = Append(sent, m)
      /\ bounds' = Append(bounds, S + Len(E))
      /\ UNCHANGED <<read, pos, decoding, lengthBytesRemaining,
                     msgBytesRemaining, msgBuffer, delivered>>
  BY DEF Send, decoderVars
<1>3. /\ stream' \in Seq(Byte) /\ Len(stream') = S + Len(E)
      /\ \A j \in 1..S : stream'[j] = stream[j]
      /\ \A j \in 1..Len(E) : stream'[S + j] = E[j]
  <2>1. /\ stream' \in Seq(Byte) /\ Len(stream') = S + Len(E)
        /\ \A i \in 1..(S + Len(E)) :
              stream'[i] = IF i <= S THEN stream[i] ELSE E[i - S]
    BY <1>s, <1>2, ConcatProperties
  <2>2. \A j \in 1..S : stream'[j] = stream[j]
    BY <2>1, <1>1
  <2>3. ASSUME NEW j \in 1..Len(E) PROVE stream'[S + j] = E[j]
    <3>1. S + j \in 1..(S + Len(E)) /\ ~(S + j <= S) /\ (S + j) - S = j
      BY <1>1
    <3> QED BY <2>1, <3>1
  <2> QED BY <2>1, <2>2, <2>3
<1>4. /\ sent' \in Seq(Message) /\ Len(sent') = N + 1
      /\ \A k \in 1..N : sent'[k] = sent[k]
      /\ sent'[N + 1] = m
  BY <1>t, <1>2, AppendProperties
<1>5. /\ bounds' \in Seq(Nat) /\ Len(bounds') = N + 2
      /\ \A k \in 1..(N + 1) : bounds'[k] = bounds[k]
      /\ bounds'[N + 2] = S + Len(E)
  <2>1. S + Len(E) \in Nat
    BY <1>1
  <2>2. /\ bounds' \in Seq(Nat) /\ Len(bounds') = N + 1 + 1
        /\ \A k \in 1..(N + 1) : bounds'[k] = bounds[k]
        /\ bounds'[N + 1 + 1] = S + Len(E)
    BY <1>t, <1>1, <1>2, <2>1, AppendProperties
  <2>3. N + 1 + 1 = N + 2
    BY <1>1
  <2> QED BY <2>2, <2>3
<1>6. TypeOK'
  <2>1. read \in 0..S /\ pos \in 0..read
    BY DEF IInv, TypeOK
  <2>2. read' \in 0..Len(stream') /\ pos' \in 0..read'
    BY <2>1, <1>1, <1>2, <1>3
  <2> QED BY <2>2, <1>2, <1>3, <1>4, <1>5 DEF IInv, TypeOK
<1>7. \A k \in 1..(N + 1) : bounds[k] \in Nat /\ bounds[k] <= S
  BY <1>t, <1>1, ElementOfSeq DEF IInv, Laid
<1>8. Laid'
  <2>1. ASSUME NEW k \in 1..N
        PROVE  /\ bounds'[k + 1] = bounds'[k] + 2 + Len(sent'[k])
               /\ \A j \in 1..(2 + Len(sent'[k])) :
                     stream'[bounds'[k] + j] = Encode(sent'[k])[j]
    <3>1. k \in 1..(N + 1) /\ k + 1 \in 1..(N + 1)
      BY <1>1
    <3>2. /\ sent'[k] = sent[k] /\ bounds'[k] = bounds[k]
          /\ bounds'[k + 1] = bounds[k + 1]
      BY <3>1, <1>4, <1>5
    <3>3. /\ bounds[k + 1] = bounds[k] + 2 + Len(sent[k])
          /\ \A j \in 1..(2 + Len(sent[k])) :
                stream[bounds[k] + j] = Encode(sent[k])[j]
      BY DEF IInv, Laid
    <3>4. Len(sent[k]) \in Nat
      BY <1>t, ElementOfSeq, EncodeFacts
    <3>5. \A j \in 1..(2 + Len(sent[k])) : bounds[k] + j \in 1..S
      <4>1. bounds[k] \in Nat /\ bounds[k + 1] <= S
        BY <3>1, <1>7
      <4>2. bounds[k] + 2 + Len(sent[k]) <= S
        BY <3>3, <4>1
      <4>3. ASSUME NEW j \in 1..(2 + Len(sent[k])) PROVE bounds[k] + j \in 1..S
        BY <3>4, <4>1, <4>2, <1>1, PlaceWithin
      <4> QED BY <4>3
    <3> QED BY <3>2, <3>3, <3>5, <1>3
  <2>2. /\ bounds'[N + 2] = bounds'[N + 1] + 2 + Len(sent'[N + 1])
        /\ \A j \in 1..(2 + Len(sent'[N + 1])) :
              stream'[bounds'[N + 1] + j] = Encode(sent'[N + 1])[j]
    <3>1. bounds'[N + 1] = S
      <4>1. N + 1 \in 1..(N + 1) /\ bounds[N + 1] = S
        BY <1>1 DEF IInv, Laid
      <4> QED BY <4>1, <1>5
    <3>2. S + Len(E) = S + 2 + Len(m)
      BY <1>1
    <3> QED BY <3>1, <3>2, <1>1, <1>3, <1>4, <1>5
  <2>3. ASSUME NEW k \in 1..(N + 2) PROVE bounds'[k] <= Len(stream')
    <3>1. CASE k \in 1..(N + 1)
      BY <3>1, <1>1, <1>3, <1>5, <1>7
    <3>2. CASE k = N + 2
      BY <3>2, <1>1, <1>3, <1>5
    <3> QED BY <3>1, <3>2, <1>1
  <2>4. bounds'[1] = 0
    <3>1. 1 \in 1..(N + 1) /\ bounds[1] = 0
      BY <1>1 DEF IInv, Laid
    <3> QED BY <3>1, <1>5
  <2>5. ASSUME NEW k \in 1..(N + 1)
        PROVE  /\ bounds'[k + 1] = bounds'[k] + 2 + Len(sent'[k])
               /\ \A j \in 1..(2 + Len(sent'[k])) :
                     stream'[bounds'[k] + j] = Encode(sent'[k])[j]
    <3>1. k \in 1..N \/ (k = N + 1 /\ k + 1 = N + 2)
      BY <1>1
    <3> QED BY <3>1, <2>1, <2>2
  <2>6. Len(sent') = N + 1 /\ N + 1 + 1 = N + 2
    BY <1>1, <1>4
  <2> QED BY <1>3, <1>5, <2>3, <2>4, <2>5, <2>6 DEF Laid
<1>9. Len(delivered) \in 0..N
  <2>1. delivered \in Seq(Seq(Byte)) /\ Len(delivered) <= N
    BY DEF IInv, DeliveredIsPrefix, TypeOK
  <2> QED BY <2>1, <1>1, LenProperties
<1>10. DeliveredIsPrefix'
  <2>1. Len(delivered') <= Len(sent')
    BY <1>1, <1>2, <1>4, <1>9
  <2>2. \A k \in 1..Len(delivered) : k \in 1..N /\ delivered[k] = sent[k]
    BY <1>1, <1>9 DEF IInv, DeliveredIsPrefix
  <2> QED BY <2>1, <2>2, <1>2, <1>4 DEF DeliveredIsPrefix
<1>11. DecoderAt'
  <2>1. Len(delivered) + 1 \in 1..(N + 1)
    BY <1>9, <1>1
  <2>2. Offset' = Offset
    BY <2>1, <1>2, <1>5 DEF Offset
  <2>3. Len(delivered) < N =>
           Current' = Current /\ Len(delivered') < Len(sent')
    BY <1>9, <1>1, <1>2, <1>4 DEF Current
  <2>4. CASE AtStart
    BY <2>4, <2>2, <1>2 DEF DecoderAt, AtStart
  <2>5. CASE InLength
    BY <2>5, <2>2, <2>3, <1>2 DEF DecoderAt, InLength
  <2>6. CASE InBody
    BY <2>6, <2>2, <2>3, <1>2 DEF DecoderAt, InBody
  <2> QED BY <2>4, <2>5, <2>6 DEF IInv, DecoderAt
<1>12. AtRest'
  BY <1>2 DEF IInv, AtRest
<1> QED BY <1>6, <1>8, <1>10, <1>11, <1>12 DEF IInv

-----------------------------------------------------------------------------
(* The receiver.  None of its steps touches what the sender keeps. *)

LEMMA LaidKept ==
    ASSUME Laid, UNCHANGED senderVars PROVE Laid'
BY DEF Laid, senderVars

\* The message the decoder works on, if any is left, and where it lies.
LEMMA CurrentFacts ==
    ASSUME IInv
    PROVE  /\ Len(delivered) \in 0..Len(sent) /\ Len(sent) \in Nat
           /\ Len(stream) \in Nat /\ read \in 0..Len(stream) /\ pos \in 0..read
           /\ bounds[Len(delivered) + 1] \in Nat
           /\ Len(delivered) = Len(sent) =>
                 bounds[Len(delivered) + 1] = Len(stream)
           /\ Len(delivered) < Len(sent) =>
                 /\ Current \in Message /\ Len(Current) \in Nat
                 /\ bounds[Len(delivered) + 2] =
                       bounds[Len(delivered) + 1] + 2 + Len(Current)
                 /\ bounds[Len(delivered) + 2] <= Len(stream)
                 /\ \A j \in 1..(2 + Len(Current)) :
                       stream[bounds[Len(delivered) + 1] + j] =
                       Encode(Current)[j]
<1> DEFINE d == Len(delivered)
           N == Len(sent)
<1>1. /\ stream \in Seq(Byte) /\ sent \in Seq(Message) /\ bounds \in Seq(Nat)
      /\ delivered \in Seq(Seq(Byte))
  BY DEF IInv, TypeOK
<1>2. N \in Nat /\ d \in 0..N /\ Len(bounds) = N + 1 /\ Len(stream) \in Nat
  <2>1. N \in Nat /\ d \in Nat /\ Len(stream) \in Nat
    BY <1>1, LenProperties
  <2>2. d <= N /\ Len(bounds) = N + 1
    BY DEF IInv, DeliveredIsPrefix, Laid
  <2> QED BY <2>1, <2>2
<1>3. read \in 0..Len(stream) /\ pos \in 0..read
  BY DEF IInv, TypeOK
<1>4. bounds[d + 1] \in Nat
  <2>1. d + 1 \in 1..Len(bounds)
    BY <1>2
  <2> QED BY <2>1, <1>1, ElementOfSeq
<1>5. d = N => bounds[d + 1] = Len(stream)
  BY DEF IInv, Laid
<1>6. ASSUME d < N
      PROVE  /\ Current \in Message /\ Len(Current) \in Nat
             /\ bounds[d + 2] = bounds[d + 1] + 2 + Len(Current)
             /\ bounds[d + 2] <= Len(stream)
             /\ \A j \in 1..(2 + Len(Current)) :
                   stream[bounds[d + 1] + j] = Encode(Current)[j]
  <2>1. d + 1 \in 1..N /\ d + 2 \in 1..(N + 1) /\ (d + 1) + 1 = d + 2
    BY <1>2, <1>6
  <2>2. Current \in Message /\ Len(Current) \in Nat
    BY <2>1, <1>1, ElementOfSeq, EncodeFacts DEF Current
  <2>3. bounds[d + 2] <= Len(stream)
    BY <2>1 DEF IInv, Laid
  <2>4. /\ bounds[(d + 1) + 1] = bounds[d + 1] + 2 + Len(Current)
        /\ \A j \in 1..(2 + Len(Current)) :
              stream[bounds[d + 1] + j] = Encode(Current)[j]
    BY <2>1 DEF IInv, Laid, Current
  <2> QED BY <2>1, <2>2, <2>3, <2>4
<1> QED BY <1>2, <1>3, <1>4, <1>5, <1>6

LEMMA ReadInv ==
    ASSUME IInv, NEW n \in Nat, Read(n) PROVE IInv'
<1>1. /\ n \in 1..(Len(stream) - read) /\ read' = read + n
      /\ decoding' = TRUE
      /\ UNCHANGED <<stream, sent, bounds, pos, lengthBytesRemaining,
                     msgBytesRemaining, msgBuffer, delivered>>
  BY DEF Read, senderVars, decoderVars
<1>2. read' \in 0..Len(stream') /\ pos' \in 0..read'
  BY <1>1, CurrentFacts
<1>3. TypeOK'
  BY <1>1, <1>2 DEF IInv, TypeOK
<1>4. Laid'
  BY <1>1, LaidKept DEF IInv, senderVars
<1>5. DecoderAt' /\ DeliveredIsPrefix'
  BY <1>1 DEF IInv, DecoderAt, AtStart, InLength, InBody, Offset, Current,
     DeliveredIsPrefix
<1>6. AtRest'
  BY <1>1 DEF AtRest
<1> QED BY <1>3, <1>4, <1>5, <1>6 DEF IInv

LEMMA NoMoreDataInv ==
    ASSUME IInv, NoMoreData PROVE IInv'
<1>1. /\ pos = read /\ decoding' = FALSE
      /\ lengthBytesRemaining > 0 \/ msgBytesRemaining > 0
      /\ UNCHANGED <<stream, sent, bounds, read, pos, lengthBytesRemaining,
                     msgBytesRemaining, msgBuffer, delivered>>
  BY DEF NoMoreData, senderVars, decoderVars
<1>2. TypeOK'
  BY <1>1 DEF IInv, TypeOK
<1>3. Laid'
  BY <1>1, LaidKept DEF IInv, senderVars
<1>4. DecoderAt' /\ DeliveredIsPrefix'
  BY <1>1 DEF IInv, DecoderAt, AtStart, InLength, InBody, Offset, Current,
     DeliveredIsPrefix
<1>5. AtRest'
  BY <1>1 DEF AtRest
<1> QED BY <1>2, <1>3, <1>4, <1>5 DEF IInv

LEMMA LengthByteInv ==
    ASSUME IInv, LengthByte PROVE IInv'
<1> DEFINE d == Len(delivered)
           b == bounds[d + 1]
           n == Len(Current)
<1>1. /\ decoding /\ lengthBytesRemaining > 0 /\ pos < read
      /\ lengthBytesRemaining' = lengthBytesRemaining - 1
      /\ msgBytesRemaining' = msgBytesRemaining
                + stream[pos + 1] * Shift(lengthBytesRemaining - 1)
      /\ pos' = pos + 1
      /\ UNCHANGED <<stream, sent, bounds, read, decoding, msgBuffer,
                     delivered>>
  BY DEF LengthByte, senderVars
<1>2. ~InBody /\ (AtStart \/ InLength)
  BY <1>1 DEF IInv, DecoderAt, InBody
<1>3. d < Len(sent) /\ pos - b \in {0, 1}
  BY <1>1, <1>2, CurrentFacts DEF AtStart, InLength, Offset
<1>4. /\ Current \in Message /\ n \in Nat /\ n < Radix * Radix
      /\ stream[b + 1] = n \div Radix /\ stream[b + 2] = n % Radix
  <2>1. Current \in Message /\ n \in Nat
    BY <1>3, CurrentFacts
  <2>2. \A j \in 1..(2 + n) : stream[b + j] = Encode(Current)[j]
    BY <1>3, CurrentFacts
  <2>3. 1 \in 1..(2 + n) /\ 2 \in 1..(2 + n)
    BY <2>1
  <2> QED BY <2>1, <2>2, <2>3, EncodeFacts, CodecAssumption
<1>5. UNCHANGED <<Current, b>> /\ Offset' = Offset + 1
  <2>1. UNCHANGED <<Current, b>>
    BY <1>1 DEF Current
  <2>2. pos \in Nat /\ b \in Nat
    BY CurrentFacts
  <2> QED BY <2>1, <2>2, <1>1 DEF Offset
<1> DEFINE After == /\ DecoderAt' /\ lengthBytesRemaining' \in 0..2
                    /\ msgBytesRemaining' \in 0..(Radix * Radix - 1)
<1>6. ASSUME AtStart PROVE After
  <2>1. lengthBytesRemaining' = 1 /\ Offset' = 1 /\ msgBuffer' = <<>>
    BY <1>1, <1>5, <1>6 DEF AtStart
  <2>2. msgBytesRemaining' = Radix * (n \div Radix)
    <3>1. pos + 1 = b + 1 /\ Shift(2 - 1) = Radix
      BY <1>6, CurrentFacts DEF AtStart, Offset, Shift
    <3>2. n \div Radix \in Nat /\ Radix \in Nat
      BY <1>4, Digits
    <3>3. stream[pos + 1] = n \div Radix /\ lengthBytesRemaining = 2
          /\ msgBytesRemaining = 0
      BY <1>4, <1>6, <3>1 DEF AtStart
    <3>4. msgBytesRemaining' = 0 + (n \div Radix) * Radix
      BY <1>1, <3>1, <3>3
    <3>5. ASSUME NEW x \in Nat, NEW r \in Nat PROVE 0 + x * r = r * x
      OBVIOUS
    <3> QED BY <3>2, <3>4, <3>5
  <2>3. InLength'
    BY <2>1, <2>2, <1>1, <1>3, <1>5 DEF InLength
  <2>4. msgBytesRemaining' \in 0..(Radix * Radix - 1)
    <3>1. n \div Radix \in Nat /\ n = Radix * (n \div Radix) + (n % Radix)
          /\ n % Radix \in Nat
      BY <1>4, Digits
    <3>2. Radix * (n \div Radix) \in Nat
      BY <3>1, CodecAssumption
    <3>3. Radix * (n \div Radix) <= n
      BY <3>1, <3>2, <1>4
    <3>5. msgBytesRemaining' \in Nat /\ msgBytesRemaining' <= n
      BY <3>2, <3>3, <2>2, Zenon
    <3> QED BY <3>5, <1>4, Square, Below, Zenon
  <2>5. 1 \in 0..2
    OBVIOUS
  <2> QED BY <2>1, <2>3, <2>4, <2>5, Zenon DEF DecoderAt
<1>7. ASSUME InLength PROVE After
  <2>1. lengthBytesRemaining' = 0 /\ Offset' = 2 /\ msgBuffer' = <<>>
    BY <1>1, <1>5, <1>7 DEF InLength
  <2>2. msgBytesRemaining' = n
    <3>0. b \in Nat /\ pos \in Nat /\ pos - b = 1
      BY <1>7, CurrentFacts DEF InLength, Offset
    <3>1. pos + 1 = b + 2 /\ Shift(1 - 1) = 1
      BY <3>0 DEF Shift
    <3>2. n % Radix \in Nat /\ n = Radix * (n \div Radix) + (n % Radix)
      BY <1>4, Digits
    <3>3. /\ stream[pos + 1] = n % Radix /\ lengthBytesRemaining = 1
          /\ msgBytesRemaining = Radix * (n \div Radix)
      BY <1>4, <1>7, <3>1 DEF InLength
    <3>4. msgBytesRemaining' = Radix * (n \div Radix) + (n % Radix) * 1
      BY <1>1, <3>1, <3>3
    <3>5. (n % Radix) * 1 = n % Radix
      BY <3>2
    <3> QED BY <3>2, <3>4, <3>5
  <2>3. InBody'
    <3>1. 2 \in 2..(2 + n) /\ n = n - (2 - 2) /\ Len(<<>>) = 2 - 2
          /\ \A j \in 1..(2 - 2) : FALSE
      BY <1>4
    <3> QED BY <3>1, <2>1, <2>2, <1>1, <1>3, <1>5 DEF InBody
  <2>4. msgBytesRemaining' \in 0..(Radix * Radix - 1)
    BY <2>2, <1>4, Square
  <2>5. 0 \in 0..2
    OBVIOUS
  <2> QED BY <2>1, <2>3, <2>4, <2>5, Zenon DEF DecoderAt
<1>8. After
  BY <1>2, <1>6, <1>7
<1>9. pos' \in 0..read'
  <2>1. read \in Nat /\ pos \in Nat
    BY CurrentFacts
  <2> QED BY <2>1, <1>1
<1>10. TypeOK'
  BY <1>1, <1>8, <1>9 DEF IInv, TypeOK
<1>11. Laid'
  BY <1>1, LaidKept DEF IInv, senderVars
<1>12. DeliveredIsPrefix' /\ AtRest'
  BY <1>1 DEF IInv, DeliveredIsPrefix, AtRest
<1> QED BY <1>8, <1>10, <1>11, <1>12 DEF IInv

LEMMA BodyBytesInv ==
    ASSUME IInv, BodyBytes PROVE IInv'
<1> DEFINE d == Len(delivered)
           b == bounds[d + 1]
           n == Len(Current)
           r == IF read - pos > msgBytesRemaining
                THEN msgBytesRemaining ELSE read - pos
           piece == SubSeq(stream, pos + 1, pos + r)
<1>1. /\ decoding /\ lengthBytesRemaining = 0 /\ msgBytesRemaining > 0
      /\ pos < read
      /\ msgBuffer' = msgBuffer \o piece
      /\ msgBytesRemaining' = msgBytesRemaining - r
      /\ pos' = pos + r
      /\ decoding' = (msgBytesRemaining = r)
      /\ UNCHANGED <<stream, sent, bounds, read, lengthBytesRemaining,
                     delivered>>
  BY DEF BodyBytes, senderVars
<1>2. InBody
  BY <1>1 DEF IInv, DecoderAt, AtStart, InLength
<1>3. /\ d < Len(sent) /\ Offset \in 2..(2 + n)
      /\ msgBytesRemaining = n - (Offset - 2)
      /\ Len(msgBuffer) = Offset - 2
      /\ \A j \in 1..(Offset - 2) : msgBuffer[j] = Current[j]
  BY <1>2 DEF InBody
<1>0. /\ Current \in Message
      /\ \A j \in 1..(2 + n) : stream[b + j] = Encode(Current)[j]
  BY <1>3, CurrentFacts
<1>4. /\ n \in Nat /\ b \in Nat /\ pos \in Nat /\ read \in Nat
      /\ Len(stream) \in Nat /\ read <= Len(stream)
  <2>1. n \in Nat /\ b \in Nat
    BY <1>3, CurrentFacts
  <2>2. pos \in Nat /\ read \in Nat /\ Len(stream) \in Nat
        /\ read <= Len(stream)
    BY CurrentFacts
  <2> QED BY <2>1, <2>2
<1>5. /\ msgBytesRemaining \in Nat
      /\ r \in Nat /\ 1 <= r /\ r <= msgBytesRemaining /\ r <= read - pos
      /\ r = msgBytesRemaining \/ r = read - pos
  <2>1. msgBytesRemaining \in Nat
    BY <1>3, <1>4
  <2> QED BY <2>1, <1>1, <1>4
<1> HIDE DEF r
<1>6. pos = b + Offset /\ Offset \in Nat
  <2>1. Offset \in Nat
    BY <1>3, <1>4
  <2> QED BY <2>1, <1>4 DEF Offset
<1>7. \A j \in 1..n : stream[b + 2 + j] = Current[j]
  <2>1. ASSUME NEW j \in 1..n PROVE stream[b + 2 + j] = Current[j]
    <3>1. 2 + j \in 1..(2 + n) /\ b + (2 + j) = b + 2 + j
      BY <1>4
    <3>2. stream[b + (2 + j)] = Encode(Current)[2 + j]
      BY <3>1, <1>0
    <3>3. Encode(Current)[2 + j] = Current[j]
      BY <1>0, EncodeFacts
    <3> QED BY <3>1, <3>2, <3>3
  <2> QED BY <2>1
<1>8. /\ piece \in Seq(Byte) /\ Len(piece) = r
      /\ \A i \in 1..r : piece[i] = stream[pos + i]
  <2>1. stream \in Seq(Byte)
    BY DEF IInv, TypeOK
  <2>2. \A i \in (pos + 1)..(pos + r) : stream[i] \in Byte
    <3>1. \A i \in (pos + 1)..(pos + r) : i \in 1..Len(stream)
      BY <1>4, <1>5
    <3> QED BY <2>1, <3>1, ElementOfSeq
  <2>3. pos + 1 \in Int /\ pos + r \in Int
    BY <1>4, <1>5
  <2>4. /\ piece \in Seq(Byte)
        /\ Len(piece) = IF pos + 1 <= pos + r THEN (pos + r) - (pos + 1) + 1
                        ELSE 0
        /\ \A i \in 1..((pos + r) - (pos + 1) + 1) :
              piece[i] = stream[(pos + 1) + i - 1]
    BY <2>2, <2>3, SubSeqProperties
  <2>5. /\ pos + 1 <= pos + r /\ (pos + r) - (pos + 1) + 1 = r
        /\ \A i \in 1..r : (pos + 1) + i - 1 = pos + i
    BY <1>4, <1>5
  <2> QED BY <2>4, <2>5
<1>9. /\ msgBuffer' \in Seq(Byte) /\ Len(msgBuffer') = (Offset - 2) + r
      /\ \A i \in 1..((Offset - 2) + r) :
            msgBuffer'[i] = IF i <= Offset - 2 THEN msgBuffer[i]
                            ELSE piece[i - (Offset - 2)]
  <2>1. msgBuffer \in Seq(Byte) /\ piece \in Seq(Byte)
    BY <1>8 DEF IInv, TypeOK
  <2>2. /\ msgBuffer \o piece \in Seq(Byte)
        /\ Len(msgBuffer \o piece) = Len(msgBuffer) + Len(piece)
        /\ \A i \in 1..(Len(msgBuffer) + Len(piece)) :
              (msgBuffer \o piece)[i] =
                 IF i <= Len(msgBuffer) THEN msgBuffer[i]
                 ELSE piece[i - Len(msgBuffer)]
    BY <2>1, ConcatProperties
  <2>3. Len(msgBuffer) = Offset - 2 /\ Len(piece) = r
    BY <1>3, <1>8
  <2> QED BY <2>2, <2>3, <1>1
<1>10. ASSUME NEW j \in 1..((Offset - 2) + r) PROVE msgBuffer'[j] = Current[j]
  <2>1. CASE j <= Offset - 2
    <3>1. j \in 1..(Offset - 2)
      BY <2>1, <1>6
    <3> QED BY <3>1, <2>1, <1>3, <1>9
  <2>2. CASE ~(j <= Offset - 2)
    <3> DEFINE i == j - (Offset - 2)
    <3>1. i \in 1..r /\ pos + i = b + 2 + j /\ j \in 1..n
      <4>1. Offset - 2 \in Nat /\ (Offset - 2) + r <= n
        BY <1>3, <1>4, <1>5
      <4>2. j \in Nat /\ j <= (Offset - 2) + r /\ j > Offset - 2
        BY <2>2, <4>1, <1>5
      <4>3. i \in 1..r /\ j \in 1..n
        BY <4>1, <4>2, <1>4, <1>5
      <4>4. pos + i = b + 2 + j
        <5>1. (b + Offset) + (j - (Offset - 2)) = b + 2 + j
          <6>1. b \in Nat /\ Offset \in Nat /\ j \in Nat
            BY <4>2, <1>4, <1>6
          <6> QED BY <6>1, SamePlace, Zenon
        <5> QED BY <5>1, <1>6, Zenon
      <4> QED BY <4>3, <4>4
    <3>2. msgBuffer'[j] = piece[i]
      BY <2>2, <1>9
    <3>3. piece[i] = stream[b + 2 + j]
      BY <3>1, <1>8
    <3> QED BY <3>1, <3>2, <3>3, <1>7
  <2> QED BY <2>1, <2>2
<1>11. UNCHANGED <<Current, b>> /\ Offset' = Offset + r
  <2>1. UNCHANGED <<Current, b>>
    BY <1>1 DEF Current
  <2>2. Offset' = (pos + r) - b
    BY <2>1, <1>1 DEF Offset
  <2>3. (pos + r) - b = (pos - b) + r
    BY <1>4, <1>5
  <2> QED BY <2>1, <2>2, <2>3 DEF Offset
<1>12. InBody'
  <2>1. /\ Offset' \in 2..(2 + n)
        /\ msgBytesRemaining' = n - (Offset' - 2)
        /\ (Offset - 2) + r = Offset' - 2
    BY <1>1, <1>3, <1>4, <1>5, <1>11
  <2>2. /\ Len(msgBuffer') = Offset' - 2
        /\ \A j \in 1..(Offset' - 2) : msgBuffer'[j] = Current'[j]
    BY <2>1, <1>9, <1>10, <1>11
  <2> QED BY <2>1, <2>2, <1>1, <1>3, <1>11 DEF InBody
<1>13. TypeOK'
  <2>1. pos' \in 0..read'
    BY <1>1, <1>4, <1>5
  <2>2. msgBytesRemaining' \in 0..(Radix * Radix - 1)
    <3>1. msgBytesRemaining \in 0..(Radix * Radix - 1)
      BY DEF IInv, TypeOK
    <3> QED BY <3>1, <1>1, <1>5, Square
  <2>3. decoding' \in BOOLEAN
    BY <1>1
  <2> QED BY <2>1, <2>2, <2>3, <1>1, <1>9 DEF IInv, TypeOK
<1>14. Laid'
  BY <1>1, LaidKept DEF IInv, senderVars
<1>15. DeliveredIsPrefix'
  BY <1>1 DEF IInv, DeliveredIsPrefix
<1>16. AtRest'
  <2>1. ASSUME ~decoding' PROVE pos' = read' /\ msgBytesRemaining' > 0
    <3>1. msgBytesRemaining # r
      BY <1>1, <2>1
    <3> QED BY <3>1, <1>1, <1>4, <1>5
  <2> QED BY <2>1 DEF AtRest
<1> QED BY <1>12, <1>13, <1>14, <1>15, <1>16 DEF IInv, DecoderAt

\* The buffer of a complete message is that message.
LEMMA CompleteFacts ==
    ASSUME IInv, Complete
    PROVE  /\ Len(delivered) < Len(sent)
           /\ Offset = 2 + Len(Current)
           /\ msgBuffer = Current
<1>1. lengthBytesRemaining = 0 /\ msgBytesRemaining = 0
  BY DEF Complete
<1>2. InBody
  BY <1>1 DEF IInv, DecoderAt, AtStart, InLength
<1>3. /\ Len(delivered) < Len(sent) /\ Current \in Message
      /\ Len(Current) \in Nat
  BY <1>2, CurrentFacts DEF InBody
<1>4. Offset = 2 + Len(Current)
  BY <1>1, <1>2, <1>3 DEF InBody
<1>5. msgBuffer = Current
  <2>1. msgBuffer \in Seq(Byte) /\ Current \in Seq(Byte)
    BY <1>3, EncodeFacts DEF IInv, TypeOK
  <2>2. Len(msgBuffer) = Len(Current)
    BY <1>2, <1>3, <1>4 DEF InBody
  <2>3. \A i \in 1..Len(msgBuffer) : msgBuffer[i] = Current[i]
    BY <1>2 DEF InBody
  <2> QED BY <2>1, <2>2, <2>3, SeqEqual
<1> QED BY <1>3, <1>4, <1>5

LEMMA CompleteInv ==
    ASSUME IInv, Complete PROVE IInv'
<1> DEFINE d == Len(delivered)
<1>1. /\ decoding /\ lengthBytesRemaining = 0 /\ msgBytesRemaining = 0
      /\ delivered' = Append(delivered, msgBuffer)
      /\ msgBuffer' = <<>> /\ lengthBytesRemaining' = 2
      /\ UNCHANGED <<stream, sent, bounds, read, pos, decoding,
                     msgBytesRemaining>>
  BY DEF Complete, senderVars
<1>2. /\ Len(delivered') = d + 1
      /\ \A k \in 1..d : delivered'[k] = delivered[k]
      /\ delivered'[d + 1] = msgBuffer
      /\ delivered' \in Seq(Seq(Byte))
  <2>1. delivered \in Seq(Seq(Byte)) /\ msgBuffer \in Seq(Byte)
    BY DEF IInv, TypeOK
  <2> QED BY <2>1, <1>1, AppendProperties
<1>3. d \in Nat /\ Len(sent) \in Nat /\ d < Len(sent)
  BY CurrentFacts, CompleteFacts
<1>4. TypeOK'
  <2>1. <<>> \in Seq(Byte) /\ 2 \in 0..2
    OBVIOUS
  <2> QED BY <2>1, <1>1, <1>2 DEF IInv, TypeOK
<1>5. Laid'
  BY <1>1, LaidKept DEF IInv, senderVars
<1>6. AtStart'
  <2>1. /\ bounds[d + 2] = bounds[d + 1] + 2 + Len(Current)
        /\ bounds[d + 1] \in Nat /\ Len(Current) \in Nat /\ pos \in Nat
    BY <1>3, CurrentFacts
  <2>2. pos = bounds[d + 2]
    BY <2>1, CompleteFacts DEF Offset
  <2>3. Len(delivered') + 1 = d + 2
    BY <1>2, <1>3
  <2>4. Offset' = 0
    BY <2>1, <2>2, <2>3, <1>1 DEF Offset
  <2> QED BY <2>4, <1>1 DEF AtStart
<1>7. DeliveredIsPrefix'
  <2>1. Len(delivered') <= Len(sent')
    BY <1>1, <1>2, <1>3
  <2>2. \A k \in 1..d : delivered'[k] = sent'[k]
    BY <1>1, <1>2 DEF IInv, DeliveredIsPrefix
  <2>3. delivered'[d + 1] = sent'[d + 1]
    BY <1>1, <1>2, CompleteFacts DEF Current
  <2>4. \A k \in 1..Len(delivered') : k \in 1..d \/ k = d + 1
    BY <1>2, <1>3
  <2> QED BY <2>1, <2>2, <2>3, <2>4 DEF DeliveredIsPrefix
<1>8. AtRest'
  BY <1>1 DEF AtRest
<1> QED BY <1>4, <1>5, <1>6, <1>7, <1>8 DEF IInv, DecoderAt

-----------------------------------------------------------------------------
LEMMA NextInv == IInv /\ [Next]_vars => IInv'
<1> SUFFICES ASSUME IInv, [Next]_vars PROVE IInv'
  OBVIOUS
<1>1. ASSUME NEW m \in Message, Send(m) PROVE IInv'
  BY <1>1, SendInv
<1>2. ASSUME NEW n \in 1..Len(stream), Read(n) PROVE IInv'
  <2>1. n \in Nat
    BY CurrentFacts
  <2> QED BY <2>1, <1>2, ReadInv
<1>3. CASE Decode
  BY <1>3, LengthByteInv, BodyBytesInv, NoMoreDataInv, CompleteInv DEF Decode
<1>4. CASE UNCHANGED vars
  BY <1>4 DEF vars, decoderVars, IInv, TypeOK, Laid, DecoderAt, AtStart,
     InLength, InBody, Offset, Current, DeliveredIsPrefix, AtRest
<1> QED BY <1>1, <1>2, <1>3, <1>4 DEF Next

\* The inductive invariant, from which the rest follows.
THEOREM CodecInvariant == Spec => []IInv
BY InitInv, NextInv, PTL DEF Spec

(***************************************************************************)
(* Type correctness: in particular the count of bytes still due never goes *)
(* below zero and never exceeds what two length bytes can say.             *)
(***************************************************************************)
THEOREM TypeCorrect == Spec => []TypeOK
<1>1. IInv => TypeOK
  BY DEF IInv
<1> QED BY <1>1, CodecInvariant, PTL

(***************************************************************************)
(* When Decode returns, no byte of the chunk is left behind, and what was  *)
(* read of the message that is not complete is held byte for byte: its     *)
(* length in the count of what is due, its body in the buffer.             *)
(***************************************************************************)
THEOREM ChunksConsumed == Spec => []NoByteLost
<1> DEFINE n == Len(Current)
<1>1. ASSUME IInv, ~decoding PROVE NoByteLost
  <2>1. /\ pos = read /\ Offset = pos - Start
        /\ read \in Nat /\ Start \in Nat
    BY <1>1, CurrentFacts DEF IInv, AtRest, Offset, Start
  <2>2. CASE AtStart
    BY <2>1, <2>2 DEF AtStart, NoByteLost, LengthSoFar
  <2>3. ASSUME InLength \/ InBody
        PROVE  /\ n \in Nat /\ Radix \in Nat
               /\ n \div Radix \in Nat /\ n % Radix \in Nat
               /\ n = Radix * (n \div Radix) + (n % Radix)
               /\ stream[Start + 1] = n \div Radix
               /\ stream[Start + 2] = n % Radix
               /\ \A i \in 1..n : stream[Start + 2 + i] = Current[i]
    <3>1. /\ Current \in Message /\ n \in Nat
          /\ \A j \in 1..(2 + n) :
                stream[Start + j] = Encode(Current)[j]
      BY <1>1, <2>3, CurrentFacts DEF InLength, InBody, Start
    <3>2. 1 \in 1..(2 + n) /\ 2 \in 1..(2 + n)
      BY <3>1
    <3>3. ASSUME NEW i \in 1..n PROVE stream[Start + 2 + i] = Current[i]
      <4>1. 2 + i \in 1..(2 + n) /\ Start + (2 + i) = Start + 2 + i
        BY <2>1, <3>1
      <4> QED BY <3>1, <4>1, EncodeFacts
    <3> QED BY <3>1, <3>2, <3>3, EncodeFacts, Digits
  <2>4. CASE InLength
    <3>1. lengthBytesRemaining = 1 /\ msgBuffer = <<>> /\ Offset = 1
          /\ msgBytesRemaining = Radix * (n \div Radix)
      BY <2>4 DEF InLength
    <3>2. LengthSoFar = Radix * (n \div Radix)
      BY <2>3, <2>4, <3>1 DEF LengthSoFar
    <3>3. Radix * (n \div Radix) + 0 = Radix * (n \div Radix)
      BY <2>3, <2>4
    <3>4. read = Start + (2 - 1) + 0
      BY <2>1, <3>1
    <3> QED BY <2>1, <3>1, <3>2, <3>3, <3>4 DEF NoByteLost
  <2>5. CASE InBody
    <3>1. /\ lengthBytesRemaining = 0 /\ Offset \in 2..(2 + n)
          /\ msgBytesRemaining = n - (Offset - 2)
          /\ Len(msgBuffer) = Offset - 2
          /\ \A j \in 1..(Offset - 2) : msgBuffer[j] = Current[j]
      BY <2>5 DEF InBody
    <3>2. LengthSoFar = n
      BY <2>3, <2>5, <3>1 DEF LengthSoFar
    <3>3. /\ msgBytesRemaining + Len(msgBuffer) = n
          /\ read = Start + (2 - 0) + Len(msgBuffer)
          /\ \A i \in 1..(Offset - 2) : i \in 1..n
      BY <2>1, <2>3, <2>5, <3>1
    <3>4. \A i \in 1..Len(msgBuffer) :
              msgBuffer[i] = stream[Start + 2 + i]
      BY <2>3, <2>5, <3>1, <3>3
    <3> QED BY <2>1, <3>1, <3>2, <3>3, <3>4 DEF NoByteLost
  <2> QED BY <1>1, <2>2, <2>4, <2>5 DEF IInv, DecoderAt
<1>2. IInv => NoByteLost
  BY <1>1 DEF NoByteLost
<1> QED BY <1>2, CodecInvariant, PTL

(***************************************************************************)
(* When everything written has been read and Decode has returned, every    *)
(* message that was sent has been delivered.                               *)
(***************************************************************************)
THEOREM DeliveredOnceRead == Spec => []NothingHeldBack
<1>1. ASSUME IInv, ~decoding, read = Len(stream) PROVE delivered = sent
  <2>1. /\ pos = Len(stream)
        /\ ~(lengthBytesRemaining = 0 /\ msgBytesRemaining = 0)
    BY <1>1 DEF IInv, AtRest
  <2>2. Len(delivered) = Len(sent)
    <3> SUFFICES ASSUME Len(delivered) < Len(sent) PROVE FALSE
      BY <1>1, CurrentFacts
    <3>1. /\ bounds[Len(delivered) + 1] + 2 + Len(Current) <= Len(stream)
          /\ bounds[Len(delivered) + 1] \in Nat /\ Len(Current) \in Nat
          /\ Len(stream) \in Nat
      BY <1>1, CurrentFacts
    <3>2. Offset >= 2 + Len(Current)
      BY <3>1, <2>1 DEF Offset
    <3>3. ~AtStart /\ ~InLength
      BY <3>1, <3>2 DEF AtStart, InLength
    <3>3a. InBody
      BY <1>1, <3>3 DEF IInv, DecoderAt
    <3>4. InBody /\ Offset = 2 + Len(Current)
      BY <3>1, <3>2, <3>3a DEF InBody
    <3>5. lengthBytesRemaining = 0 /\ msgBytesRemaining = 0
      BY <3>1, <3>4 DEF InBody
    <3> QED BY <3>5, <2>1
  <2>3. delivered \in Seq(Seq(Byte)) /\ sent \in Seq(Seq(Byte))
    <3>1. Message \subseteq Seq(Byte)
      BY CodecAssumption
    <3> QED BY <3>1, <1>1, SeqMonotonic DEF IInv, TypeOK
  <2>4. \A k \in 1..Len(delivered) : delivered[k] = sent[k]
    BY <1>1 DEF IInv, DeliveredIsPrefix
  <2> QED BY <2>2, <2>3, <2>4, SeqEqual
<1>2. IInv => NothingHeldBack
  BY <1>1 DEF NothingHeldBack
<1> QED BY <1>2, CodecInvariant, PTL

(***************************************************************************)
(* The codec implements a first-in first-out pipe of messages, however the *)
(* stream is cut into chunks.                                              *)
(***************************************************************************)
THEOREM PipeRefinement == Spec => ImplementsPipe
<1>1. Init => Pipe!Init
  BY DEF Init, Pipe!Init
<1>2. ASSUME IInv, [Next]_vars PROVE [Pipe!Next]_(Pipe!vars)
  <2>1. ASSUME NEW m \in Message, Send(m) PROVE Pipe!Next
    BY <2>1 DEF Send, Pipe!Next, Pipe!Send
  <2>2. ASSUME NEW n \in 1..Len(stream), Read(n) PROVE UNCHANGED Pipe!vars
    BY <2>2 DEF Read, senderVars, Pipe!vars
  <2>3. CASE LengthByte \/ BodyBytes \/ NoMoreData
    BY <2>3 DEF LengthByte, BodyBytes, NoMoreData, senderVars, Pipe!vars
  <2>4. CASE Complete
    <3>1. Len(delivered) < Len(sent) /\ msgBuffer = sent[Len(delivered) + 1]
      BY <1>2, <2>4, CompleteFacts DEF Current
    <3>2. delivered' = Append(delivered, msgBuffer) /\ UNCHANGED sent
      BY <2>4 DEF Complete, senderVars
    <3> QED BY <3>1, <3>2 DEF Pipe!Next, Pipe!Deliver
  <2>5. CASE UNCHANGED vars
    BY <2>5 DEF vars, Pipe!vars
  <2> QED BY <1>2, <2>1, <2>2, <2>3, <2>4, <2>5 DEF Next, Decode
<1> QED BY <1>1, <1>2, CodecInvariant, PTL DEF Spec, ImplementsPipe, Pipe!Spec
=============================================================================
