------------------------------- MODULE C3Codec -------------------------------
(***************************************************************************)
(* The frames of the C3/InBio panel (features/c3protocol/c3_codec.cpp) on  *)
(* sequences of bytes, with offsets from 0 as in the code: the checksum,   *)
(* the frame, and the binary replies.  The replies that are text (table    *)
(* configuration, parameters, key/value log) are frames whose payload is   *)
(* not looked into here; their session block is stripped all the same.     *)
(*                                                                         *)
(* "block" says whether the connection has a session, whose id and request *)
(* number then precede every payload.                                      *)
(***************************************************************************)
EXTENDS Integers, Sequences, SequencesExt

kFrameStart         == 170
kFrameEnd           == 85
kProtocolVersion    == 1
kReplyOk            == 200
kReplyError         == 201
kCommandPrepareData == 13

byteAt(data, i) == data[i + 1]

mid(data, i, n) == SubSeq(data, i + 1, i + n)

\* Numbers are sent with the lowest byte first: of 16 and of 32 bits at offset i,
\* and of as many bits as there are bytes.
littleEndian16(data, i) == byteAt(data, i) + 256 * byteAt(data, i + 1)

littleEndian32(data, i) == littleEndian16(data, i) + 65536 * littleEndian16(data, i + 2)

littleEndian(bytes) ==
  LET last[n \in 0 .. Len(bytes)] ==
        IF n = 0 THEN 0 ELSE bytes[Len(bytes) + 1 - n] + 256 * last[n - 1]
  IN  last[Len(bytes)]

LittleEndian16(v) == <<v % 256, (v \div 256) % 256>>

\* v with the bit of this weight (1, 2, 4, ...) turned over.
Flip(v, weight) == IF (v \div weight) % 2 = 0 THEN v + weight ELSE v - weight

\* The exclusive or of v with a byte turns over the bits that are set in the byte.
Xor(v, byte) ==
  LET turned(weight) == IF (byte \div weight) % 2 = 0 THEN 0 ELSE Flip(v, weight) - v
  IN  v + turned(1) + turned(2) + turned(4) + turned(8)
        + turned(16) + turned(32) + turned(64) + turned(128)

\* One bit of the reflected CRC-16: the polynomial 0xA001 has bits 0, 13 and 15.
CrcBit(crc) ==
  IF crc % 2 = 1 THEN Flip(Flip(Flip(crc \div 2, 32768), 8192), 1) ELSE crc \div 2

CrcByte(crc, byte) ==
  LET two(c) == CrcBit(CrcBit(c))
      four(c) == two(two(c))
  IN  four(four(Xor(crc, byte)))

crc16(data) ==
  LET crc[i \in 0 .. Len(data)] == IF i = 0 THEN 0 ELSE CrcByte(crc[i - 1], data[i])
  IN  crc[Len(data)]

\* Mutant: the length leaves out the session block.
BadEncodeFrame(command, sessionId, requestNr, payload, block) ==
  LET session   == IF block THEN LittleEndian16(sessionId) \o LittleEndian16(requestNr) ELSE <<>>
      frameBody == <<kProtocolVersion, command>>
                   \o LittleEndian16(Len(payload)) \o session \o payload
  IN  <<kFrameStart>> \o frameBody \o LittleEndian16(crc16(frameBody)) \o <<kFrameEnd>>

encodeFrame(command, sessionId, requestNr, payload, block) ==
  LET session   == IF block THEN LittleEndian16(sessionId) \o LittleEndian16(requestNr) ELSE <<>>
      frameBody == <<kProtocolVersion, command>>
                   \o LittleEndian16(Len(session) + Len(payload)) \o session \o payload
  IN  <<kFrameStart>> \o frameBody \o LittleEndian16(crc16(frameBody)) \o <<kFrameEnd>>

encodeGetDataRequest(table, fields, sessionId, requestNr, block) ==
  encodeFrame(8, sessionId, requestNr, <<table, Len(fields) % 256>> \o fields \o <<0, 0>>, block)

encodeTransmitDataRequest(offset, sessionId, requestNr, block) ==
  encodeFrame(14, sessionId, requestNr,
              LittleEndian16(offset) \o LittleEndian16(offset \div 65536), block)

encodeControlRequest(operation, params, sessionId, requestNr, block) ==
  encodeFrame(5, sessionId, requestNr, <<operation>> \o params \o <<0>>, block)

-----------------------------------------------------------------------------
(* Replies. *)

\* A result that carries no value.
Only(status) == [status |-> status, value |-> <<>>]

\* Mutant: the end marker is not counted.
BadFrameSize(data) == 7 + littleEndian16(data, 3)

\* Start, version, command and length; the payload; checksum and end.
frameSize(data) == 8 + littleEndian16(data, 3)

\* Mutant: the markers are trusted and the checksum is not compared.
BadIntact(data) ==
  byteAt(data, 0) = kFrameStart /\ byteAt(data, frameSize(data) - 1) = kFrameEnd

\* Both markers are there and the checksum is that of what lies between.
Intact(data) ==
  LET n == frameSize(data) IN
  /\ byteAt(data, 0) = kFrameStart /\ byteAt(data, n - 1) = kFrameEnd
  /\ crc16(mid(data, 1, n - 4)) = littleEndian16(data, n - 3)

\* decodeFrameGeneric(): Ok with the payload and the command, or why not.
decodeFrameGeneric(data, block) ==
  IF Len(data) < 5 \/ Len(data) < frameSize(data) THEN Only("Incomplete")
  ELSE IF ~Intact(data) THEN Only("Malformed")
  ELSE IF byteAt(data, 2) = kReplyError THEN Only("Rejected")
  ELSE LET payload == mid(data, 5, frameSize(data) - 8) IN
    [status |-> "Ok", command |-> byteAt(data, 2),
     value  |-> IF block /\ Len(payload) >= 4 THEN mid(payload, 4, Len(payload) - 4) ELSE payload]

\* decodeGenericReply() and decodeConnectSessionResponse() take only the two
\* reply codes; the session id is read at its place in the frame.
decodeGenericReply(data) ==
  LET frame == decodeFrameGeneric(data, FALSE) IN
  IF frame.status # "Ok" THEN frame
  ELSE IF frame.command = kReplyOk THEN [status |-> "Ok", value |-> <<>>] ELSE Only("Malformed")

decodeConnectSessionResponse(data) ==
  LET frame == decodeFrameGeneric(data, FALSE) IN
  IF frame.status # "Ok" THEN frame
  ELSE IF frame.command = kReplyOk THEN [status |-> "Ok", value |-> <<littleEndian16(data, 5)>>]
  ELSE Only("Malformed")

decodeGetDataCountResponse(data, block) ==
  LET frame == decodeFrameGeneric(data, block) IN
  IF frame.status # "Ok" THEN frame
  ELSE IF Len(frame.value) # 4 THEN Only("Malformed")
  ELSE [status |-> "Ok", value |-> <<littleEndian32(frame.value, 0)>>]

decodeTransmitDataResponse(data, block) ==
  LET frame == decodeFrameGeneric(data, block) IN
  IF frame.status # "Ok" THEN frame
  ELSE IF Len(frame.value) < 4 THEN Only("Malformed")
  ELSE [status |-> "Ok",
        value  |-> <<littleEndian32(frame.value, 0), mid(frame.value, 4, Len(frame.value) - 4)>>]

\* One record of the binary log: card, pin, verified, door, direction, time of
\* an event, or the alarm and sensor bytes of a door status.
LogRecord(rec) ==
  IF byteAt(rec, 10) = 255
  THEN [kind |-> "DoorAlarmStatus", door |-> mid(rec, 0, 8), verified |-> byteAt(rec, 9),
        time |-> littleEndian32(rec, 12)]
  ELSE [kind |-> "Event", card |-> littleEndian32(rec, 0), pin |-> littleEndian32(rec, 4),
        verified |-> byteAt(rec, 8), doorId |-> byteAt(rec, 9), inOut |-> byteAt(rec, 11),
        event |-> byteAt(rec, 10), time |-> littleEndian32(rec, 12)]

decodeRtlogBinaryResponse(data, block) ==
  LET frame == decodeFrameGeneric(data, block) IN
  IF frame.status # "Ok" THEN frame
  ELSE IF Len(frame.value) % 16 # 0 THEN Only("NotBinaryMode")
  ELSE [status |-> "Ok",
        value  |-> [k \in 1 .. Len(frame.value) \div 16 |->
                      LogRecord(mid(frame.value, 16 * (k - 1), 16))]]

-----------------------------------------------------------------------------
(* Table rows.  A record is the sequence of its values, in the order of the *)
(* fields that the reply names; kinds maps a field's index to its type.     *)

Value(kind, bytes) ==
  IF kind = "s" THEN bytes ELSE <<littleEndian(bytes)>>

Unreadable == <<-1>>

\* What there is from an offset on, after k values of the current record: the value there
\* and what follows it, or Unreadable when it cannot be read.
ValuesFrom(payload, fields, kinds, values, offset, k) ==
  IF offset = Len(payload) THEN IF k = 0 THEN <<>> ELSE <<Unreadable>>
  ELSE LET size == byteAt(payload, offset)
           kind == kinds[fields[k + 1]]
       IN  IF \/ size > Len(payload) - offset - 1
              \/ kind # "s" /\ (kind \notin {"i", "L"} \/ size > 8)
           THEN <<Unreadable>>
           ELSE <<Value(kind, mid(payload, offset + 1, size))>>
                \o values[offset + 1 + size][(k + 1) % Len(fields)]

\* All values of all records in a row.
Values(payload, fields, kinds) ==
  LET values[offset \in 0 .. Len(payload)] ==
        [k \in 0 .. Len(fields) |-> ValuesFrom(payload, fields, kinds, values, offset, k)]
  IN  values[2 + Len(fields)][0]

parseGetDataPayload(payload, table, kinds) ==
  IF Len(payload) < 2 THEN Only("Malformed")
  ELSE IF byteAt(payload, 0) # table THEN Only("TableMismatch")
  ELSE LET count  == byteAt(payload, 1)
           fields == mid(payload, 2, count)
           values == Values(payload, fields, kinds)
       IN  IF \/ Len(payload) < 2 + count
              \/ \E f \in Range(fields) : f \notin DOMAIN kinds
              \/ count = 0 /\ Len(payload) # 2
           THEN Only("Malformed")
           ELSE IF values # <<>> /\ Last(values) = Unreadable THEN Only("Malformed")
           ELSE [status |-> "Ok", value |-> values]

\* A panel with too many rows for one frame announces them instead: whether
\* they are compressed, two lengths, a checksum and the package length.
decodeGetDataResponse(data, table, kinds, block) ==
  LET frame == decodeFrameGeneric(data, block) IN
  IF frame.status # "Ok" THEN frame
  ELSE IF frame.command # kCommandPrepareData THEN parseGetDataPayload(frame.value, table, kinds)
  ELSE IF Len(frame.value) # 17 THEN Only("Malformed")
  ELSE [status |-> "BigDataPending",
        value  |-> <<byteAt(frame.value, 0) # 0>>
                   \o [k \in 1 .. 4 |-> littleEndian32(frame.value, 4 * k - 3)]]

-----------------------------------------------------------------------------
\* Seconds counted in months of 31 days: year, month, day, hour, minute, second.
decodeC3DateTime(raw) ==
  LET days == raw \div 86400 IN
  <<2000 + (days \div 372), 1 + ((days \div 31) % 12), 1 + (days % 31),
    (raw \div 3600) % 24, (raw \div 60) % 60, raw % 60>>

=============================================================================
