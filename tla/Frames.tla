------------------------------- MODULE Frames -------------------------------
(***************************************************************************)
(* MQTT-SN frames (internal/protocol/iot/mqttsn, with the TLV values that  *)
(* telemetry carries) and the stream of them a pile sends over QUIC        *)
(* (handleQUICStream, readMQTTFrame).  A frame starts with its length, in  *)
(* one byte or, above 255, in a byte 1 and two more.  Nothing else marks   *)
(* where a frame ends, so a reader that takes one byte too many or too few *)
(* reads nonsense from there on.  The stream stands for either direction:  *)
(* a pile is taken to read commands as the gateway reads what it sends.    *)
(*                                                                         *)
(* Bytes are numbers below Radix.  Radix is 256 in the code and small in   *)
(* the instances TLC checks, so that lengths beyond a byte come up.        *)
(***************************************************************************)
EXTENDS Naturals, Sequences

CONSTANTS
  Radix,      \* values of a byte (256)
  FrameMsg,   \* messages sent
  MaxFrames   \* bound: messages on one stream

VARIABLES
  wire,       \* bytes written to the stream and not read yet
  written,    \* history: messages written
  readOut,    \* messages handed to the workers
  ended       \* has the read loop given up?

frameVars == <<wire, written, readOut, ended>>

CONNECT == 4
PUBLISH == 12
SUBSCRIBE == 18
STATUS == 30
FETCH == 31
CMD == 32
CMDACK == 33

Bad == [type |-> 0]

-----------------------------------------------------------------------------
(* Messages *)

Byte == 0 .. Radix - 1
Bytes == Seq(Byte)
Numbers16 == 0 .. Radix * Radix - 1

\* What the senders hand to the encoders.  A pile has a name, and a topic too.
Packet ==
  [type : {CONNECT}, id : Bytes]
  \cup [type : {PUBLISH}, topic : Numbers16, msgID : Numbers16, values : Seq(Bytes)]
  \cup [type : {SUBSCRIBE}, msgID : Numbers16, topicName : Bytes \ {<<>>}, qos : Byte]
  \cup [type : {STATUS}, id : Bytes \ {<<>>}, state : Byte]
  \cup [type : {FETCH}, id : Bytes \ {<<>>}]
  \cup [type : {CMD}, id : Bytes, cmdID : Bytes, cmdType : Byte, payload : Bytes]
  \cup [type : {CMDACK}, id : Bytes \ {<<>>}, cmdID : Bytes, code : Byte, state : Byte]

ASSUME FramesAssumption ==
  Radix \in Nat \ {0} /\ FrameMsg \subseteq Packet

-----------------------------------------------------------------------------
(* Encoding *)

Uint16(n) == <<n \div Radix, n % Radix>>

\* writeLength.  The two more bytes of the long form are not counted.
WriteLength(n) == IF n < Radix THEN <<n>> ELSE <<1>> \o Uint16(n)

\* Add of the TLV encoder, for values that are bytes, and what it makes of
\* several.
TLV(value) == <<4>> \o Uint16(Len(value)) \o value

EncodeAll[values \in Seq(Seq(Nat))] ==
  IF values = <<>> THEN <<>> ELSE TLV(Head(values)) \o EncodeAll[Tail(values)]

EncodeConnect(m) == WriteLength(6 + Len(m.id)) \o <<CONNECT, 0, 1>> \o Uint16(60) \o m.id

EncodePublish(m) ==
  LET data == EncodeAll[m.values]
  IN WriteLength(7 + Len(data)) \o <<PUBLISH, 0>> \o Uint16(m.topic) \o Uint16(m.msgID) \o data

EncodeSubscribe(m) ==
  WriteLength(5 + Len(m.topicName)) \o <<SUBSCRIBE>> \o Uint16(m.msgID) \o m.topicName \o <<m.qos>>

\* byte(1 + bodyLen): the extensions have the short form only.
EncodeStatus(m) == <<(3 + Len(m.id)) % Radix, STATUS>> \o m.id \o <<m.state>>

EncodeFetch(m) == <<(2 + Len(m.id)) % Radix, FETCH>> \o m.id

\* Both identifiers have a length byte of their own.
Identifiers(m) == <<Len(m.id) % Radix>> \o m.id \o <<Len(m.cmdID) % Radix>> \o m.cmdID

EncodeCmd(m) ==
  <<(5 + Len(m.id) + Len(m.cmdID) + Len(m.payload)) % Radix, CMD>> \o Identifiers(m)
    \o <<m.cmdType>> \o m.payload

EncodeCmdAck(m) ==
  <<(6 + Len(m.id) + Len(m.cmdID)) % Radix, CMDACK>> \o Identifiers(m) \o <<m.code, m.state>>

Encode(m) ==
  CASE m.type = CONNECT   -> EncodeConnect(m)
    [] m.type = PUBLISH   -> EncodePublish(m)
    [] m.type = SUBSCRIBE -> EncodeSubscribe(m)
    [] m.type = STATUS    -> EncodeStatus(m)
    [] m.type = FETCH     -> EncodeFetch(m)
    [] m.type = CMD       -> EncodeCmd(m)
    [] m.type = CMDACK    -> EncodeCmdAck(m)

-----------------------------------------------------------------------------
(* Decoding *)

Number(s) == s[1] * Radix + s[2]

DecodeConnect(b) == IF Len(b) < 4 THEN Bad ELSE [type |-> CONNECT, id |-> SubSeq(b, 5, Len(b))]

\* DecodeAll and DecodeOne: the values, or <<>> and FALSE.
DecodeAll[data \in Seq(Nat)] ==
  IF data = <<>> THEN [ok |-> TRUE, values |-> <<>>]
  ELSE IF Len(data) < 3 \/ Len(data) < 3 + Number(Tail(data)) THEN [ok |-> FALSE, values |-> <<>>]
  ELSE LET n == Number(Tail(data))
           rest == DecodeAll[SubSeq(data, 4 + n, Len(data))]
       IN IF rest.ok THEN [rest EXCEPT !.values = <<SubSeq(data, 4, 3 + n)>> \o @] ELSE rest

DecodePublish(b) ==
  IF Len(b) < 5 THEN Bad
  ELSE LET data == DecodeAll[SubSeq(b, 6, Len(b))]
       IN IF ~data.ok THEN Bad
          ELSE [type |-> PUBLISH, topic |-> Number(Tail(b)), msgID |-> Number(SubSeq(b, 4, 5)),
                values |-> data.values]

DecodeSubscribe(b) ==
  IF Len(b) < 4 THEN Bad
  ELSE [type |-> SUBSCRIBE, msgID |-> Number(b), topicName |-> SubSeq(b, 3, Len(b) - 1),
        qos |-> b[Len(b)]]

DecodeStatus(b) ==
  IF Len(b) < 2 THEN Bad
  ELSE [type |-> STATUS, id |-> SubSeq(b, 1, Len(b) - 1), state |-> b[Len(b)]]

DecodeFetch(b) == IF Len(b) < 1 THEN Bad ELSE [type |-> FETCH, id |-> b]

\* Where the second identifier starts, and where it ends, given that the
\* checks of the decoder let it get there.
Second(b) == 3 + b[1]
EndOf(b) == Second(b) + b[2 + b[1]] - 1

DecodeCmd(b) ==
  IF Len(b) < 3 \/ Len(b) < 3 + b[1] \/ Len(b) < EndOf(b) + 1 THEN Bad
  ELSE [type |-> CMD, id |-> SubSeq(b, 2, 1 + b[1]), cmdID |-> SubSeq(b, Second(b), EndOf(b)),
        cmdType |-> b[EndOf(b) + 1], payload |-> SubSeq(b, EndOf(b) + 2, Len(b))]

DecodeCmdAck(b) ==
  IF Len(b) < 5 \/ Len(b) < 4 + b[1] \/ Len(b) < EndOf(b) + 2 THEN Bad
  ELSE [type |-> CMDACK, id |-> SubSeq(b, 2, 1 + b[1]), cmdID |-> SubSeq(b, Second(b), EndOf(b)),
        code |-> b[EndOf(b) + 1], state |-> b[EndOf(b) + 2]]

DecodeBody(type, b) ==
  CASE type = CONNECT   -> DecodeConnect(b)
    [] type = PUBLISH   -> DecodePublish(b)
    [] type = SUBSCRIBE -> DecodeSubscribe(b)
    [] type = STATUS    -> DecodeStatus(b)
    [] type = FETCH     -> DecodeFetch(b)
    [] type = CMD       -> DecodeCmd(b)
    [] type = CMDACK    -> DecodeCmdAck(b)
    [] OTHER            -> Bad

\* ParseMessage and the decoder HandlePacket picks.
ParseMessage(data) ==
  IF Len(data) < 2 \/ (data[1] = 1 /\ Len(data) < 4) THEN Bad
  ELSE LET at == IF data[1] = 1 THEN 4 ELSE 2
           length == IF at = 4 THEN Number(SubSeq(data, 2, 3)) ELSE data[1]
       IN IF length < at \/ length > Len(data) THEN Bad
          ELSE DecodeBody(data[at], SubSeq(data, at + 1, length))

-----------------------------------------------------------------------------
(* The stream *)

\* Mutant: the length is taken not to count its own byte.
FrameLengthBeyondPrefix == IF wire = <<>> THEN 0 ELSE wire[1] + 1

\* The length readMQTTFrame finds, prefix included; 0 as long as the prefix
\* is not there yet.
FrameLength ==
  IF wire = <<>> THEN 0
  ELSE IF wire[1] # 1 THEN wire[1]
  ELSE IF Len(wire) < 3 THEN 0 ELSE Number(SubSeq(wire, 2, 3))

LeastLength == IF wire[1] = 1 THEN 4 ELSE 2

PrefixIsThere == wire # <<>> /\ (wire[1] = 1 => Len(wire) >= 3)

FrameInit == wire = <<>> /\ written = <<>> /\ readOut = <<>> /\ ended = FALSE

WriteFrame(m) ==
  /\ Len(written) < MaxFrames
  /\ wire' = wire \o Encode(m)
  /\ written' = Append(written, m)
  /\ UNCHANGED <<readOut, ended>>

\* readMQTTFrame, which waits for all bytes of the frame, and HandlePacket.
ReadFrame ==
  /\ ~ended /\ PrefixIsThere /\ FrameLength >= LeastLength
  /\ Len(wire) >= FrameLength
  /\ readOut' = Append(readOut, ParseMessage(SubSeq(wire, 1, FrameLength)))
  /\ wire' = SubSeq(wire, FrameLength + 1, Len(wire))
  /\ UNCHANGED <<written, ended>>

\* A length that cannot be ends the stream.
RefuseFrame ==
  /\ ~ended /\ PrefixIsThere /\ FrameLength < LeastLength
  /\ ended' = TRUE
  /\ UNCHANGED <<wire, written, readOut>>

FrameNext == (\E m \in FrameMsg : WriteFrame(m)) \/ ReadFrame \/ RefuseFrame

FrameSpec == FrameInit /\ [][FrameNext]_frameVars

-----------------------------------------------------------------------------
(* Properties *)

Fits(m) == Len(Encode(m)) < Radix

\* As long as no message needs more than 255 bytes, the read loop stays in step
\* with the writer whatever messages follow each other: it never gives the
\* stream up, hands on the very messages that were written, in their order, and
\* has handed on all of them when it waits for more.  (A longer one puts it out
\* of step: writeLength does not count the two more bytes of the long form,
\* readMQTTFrame and ParseMessage do, and EncodeCmd has no long form at all.)
ReadAsWritten ==
  (\A i \in DOMAIN written : Fits(written[i])) =>
    /\ ~ended
    /\ \E n \in 0..Len(written) : readOut = SubSeq(written, 1, n)
    /\ wire = <<>> => readOut = written
=============================================================================
