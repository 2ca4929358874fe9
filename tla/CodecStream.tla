----------------------------- MODULE CodecStream -----------------------------
(***************************************************************************)
(* The Modbus and C3 codecs against the peers they talk to.  A request of  *)
(* the application is read by a device or a panel; a reply arrives one     *)
(* byte at a time, since TCP keeps no frame together, and the decoder is   *)
(* asked again after every byte, as onSocketReadyRead() does; a panel's    *)
(* frame may have been garbled behind its serial adapter.                  *)
(*                                                                         *)
(* The peers are written from the protocols, not from the codecs: they are *)
(* the reference that the codecs are compared with (external).             *)
(***************************************************************************)
EXTENDS Integers, Sequences, FiniteSetsExt

M == INSTANCE ModbusCodec
C == INSTANCE C3Codec

Byte == {n \in Nat : n < 256}
Word == {n \in Nat : n < 65536}

CONSTANTS
  Ids,        \* transaction ids and session ids, 16 bits wide
  Words,      \* register values and addresses, 16 bits wide
  MaxBlock,   \* registers of the longest block (123: what the application allows)
  MaxCoils,   \* coils of the longest block (1968)
  Changes     \* by how much a garbled byte may differ, modulo 256

\* The bytes of a block are counted in one byte.
ASSUME CodecAssumption ==
  /\ Ids \subseteq Word /\ Words \subseteq Word
  /\ MaxBlock \in Nat \ {0} /\ 2 * MaxBlock \in Byte
  /\ MaxCoils \in Nat \ {0} /\ (MaxCoils + 7) \div 8 \in Byte
  /\ Changes \subseteq Byte \ {0}

VARIABLES
  line,  \* what is being sent, and what its sender meant
  got    \* how many of its bytes have arrived

vars == <<line, got>>

Idle == [kind |-> "idle", bytes |-> <<>>]

Init == line = Idle /\ got = 0

\* Only replies are taken byte by byte.
Put(l, n) == line = Idle /\ line' = l /\ got' = n

High(w) == w \div 256
Low(w)  == w % 256

\* A count and that many bytes.
Counted(bytes) == <<Len(bytes)>> \o bytes

\* Lists of every length that matters: one, the ends of a byte, the longest.
RegisterLists ==
  {<<w>> : w \in Words} \cup {<<v, w>> : v, w \in Words}
    \cup {[i \in 1 .. MaxBlock |-> (i * 521) % 65536]}

CoilLists ==
  UNION {{[i \in 1 .. n |-> i = n], [i \in 1 .. n |-> i % 3 # 0]} :
           n \in {1, 7, 8, 9, MaxCoils}}

-----------------------------------------------------------------------------
(* A Modbus device. *)

\* Bit n of a byte, from the lowest.
IsSet(byte, n) == (byte \div <<1, 2, 4, 8, 16, 32, 64, 128>>[n + 1]) % 2 = 1

\* The registers and the coils that a device finds in a request to write a block.
RegistersIn(b) == [i \in 1 .. b[13] \div 2 |-> 256 * b[12 + 2 * i] + b[13 + 2 * i]]

CoilsIn(b, n) == [i \in 1 .. n |-> IsSet(b[14 + ((i - 1) \div 8)], (i - 1) % 8)]

\* What a device makes of a request: id, function, address, what it reads or
\* writes, and whether the header describes the frame.
DeviceReads(b) ==
  LET word == 256 * b[11] + b[12]
  IN  <<256 * b[1] + b[2], b[8], 256 * b[9] + b[10],
        CASE b[8] = 16 -> RegistersIn(b) [] b[8] = 15 -> CoilsIn(b, word) [] OTHER -> word,
        b[3] = 0 /\ b[4] = 0 /\ Len(b) = 6 + 256 * b[5] + b[6]>>

Request(bytes, id, fn, address, what) ==
  Put([kind |-> "request", bytes |-> bytes, reads |-> <<id, fn, address, what, TRUE>>],
      Len(bytes))

RequestWord ==
  \E id \in Ids, fn \in {1, 2, 3, 4, 6}, a \in Words, w \in Words :
    Request(M!WordRequest(id, 1, fn, a, w), id, fn, a, w)

RequestBlock ==
  \E id \in Ids, a \in Words :
    \/ \E on \in BOOLEAN :
         Request(M!encodeWriteSingleCoilRequest(id, 1, a, on), id, 5, a,
                 IF on THEN 65280 ELSE 0)
    \/ \E r \in RegisterLists :
         Request(M!encodeWriteMultipleRegistersRequest(id, 1, a, r), id, 16, a, r)
    \/ \E c \in CoilLists :
         Request(M!encodeWriteMultipleCoilsRequest(id, 1, a, c), id, 15, a, c)

DeviceFrame(id, code, body) ==
  <<High(id), Low(id), 0, 0, High(2 + Len(body)), Low(2 + Len(body)), 1, code>> \o body

DeviceReply(id, fn, code, body, status, value) ==
  Put([kind |-> "modbus", fn |-> fn, means |-> [status |-> status, value |-> value],
       bytes |-> DeviceFrame(id, code, body)], 0)

\* Registers with the high byte first.
RegisterBytes(r) ==
  [i \in 1 .. 2 * Len(r) |->
     IF i % 2 = 1 THEN High(r[(i + 1) \div 2]) ELSE Low(r[i \div 2])]

\* Coil n is bit n % 8 of byte n \div 8; the last byte is padded with zeros.
Bits(coils) ==
  [k \in 1 .. (Len(coils) + 7) \div 8 |->
     CHOOSE byte \in 0 .. 255 : \A n \in 0 .. 7 :
       LET coil == 8 * (k - 1) + n IN
       IsSet(byte, n) <=> coil < Len(coils) /\ coils[coil + 1]]

AnswerRegisters ==
  \E id \in Ids, fn \in M!RegisterReads, r \in RegisterLists :
    DeviceReply(id, fn, fn, Counted(RegisterBytes(r)), "Ok", r)

AnswerBits ==
  \E id \in Ids, fn \in M!BitReads, c \in CoilLists :
    DeviceReply(id, fn, fn, Counted(Bits(c)), "Ok",
                [i \in 1 .. 8 * Len(Bits(c)) |-> i <= Len(c) /\ c[i]])

AnswerWrite ==
  \E id \in Ids, fn \in M!SingleWrites \cup M!BlockWrites, a \in Words, w \in Words :
    DeviceReply(id, fn, fn, <<High(a), Low(a), High(w), Low(w)>>, "Ok",
                <<a, IF fn = 5 THEN w = 65280 ELSE w>>)

AnswerException ==
  \E id \in Ids, fn \in 1 .. 6, code \in 1 .. 4 :
    DeviceReply(id, fn, 128 + fn, <<code>>, "Exception", <<code>>)

-----------------------------------------------------------------------------
(* A panel. *)

\* Polynomials over GF(2) are sets of exponents.  The remainder r modulo
\* x^16 + x^15 + x^2 + 1 after one more bit of the message, which counts x^16.
Fed(r, bit) ==
  LET shifted == {e + 1 : e \in r \ {15}}
  IN  IF (15 \in r) # bit THEN SymDiff(shifted, {15, 2, 0}) ELSE shifted

\* Bit k of a message: its bytes in turn, each from the lowest bit.
MessageBit(bytes, k) == IsSet(bytes[1 + (k \div 8)], k % 8)

\* The remainder of the whole message.
Remainder(bytes) ==
  LET remainder[k \in 0 .. 8 * Len(bytes)] ==
        IF k = 0 THEN {} ELSE Fed(remainder[k - 1], MessageBit(bytes, k - 1))
  IN  remainder[8 * Len(bytes)]

\* Eight terms as a byte: the highest power, x^e, is its lowest bit.
TermsByte(r, e) == CHOOSE byte \in 0 .. 255 : \A n \in 0 .. 7 : IsSet(byte, n) <=> e - n \in r

\* The checksum: the higher powers are sent first.
PanelChecksum(bytes) ==
  LET r == Remainder(bytes) IN <<TermsByte(r, 15), TermsByte(r, 7)>>

PanelReads(b, block) ==
  LET n    == Len(b)
      skip == IF block THEN 4 ELSE 0
  IN  <<b[3], IF block THEN b[6] + 256 * b[7] ELSE 0, SubSeq(b, 6 + skip, n - 3),
        /\ b[1] = 170 /\ b[2] = 1 /\ b[n] = 85
        /\ b[4] + 256 * b[5] = n - 8
        /\ <<b[n - 2], b[n - 1]>> = PanelChecksum(SubSeq(b, 2, n - 3))>>

PanelRequest(bytes, block, command, session, payload) ==
  Put([kind |-> "panelRequest", bytes |-> bytes, block |-> block,
       reads |-> <<command, IF block THEN session ELSE 0, payload, TRUE>>], Len(bytes))

RequestOfPanel ==
  \E id \in Ids, block \in BOOLEAN :
    \/ \E fields \in {<<>>, <<1>>, <<1, 2>>} :
         PanelRequest(C!encodeGetDataRequest(3, fields, id, 1, block), block, 8, id,
                      <<3, Len(fields)>> \o fields \o <<0, 0>>)
    \/ \E offset \in {0, 255, 256, 65536, 131071} :
         PanelRequest(C!encodeTransmitDataRequest(offset, id, 1, block), block, 14, id,
                      <<offset % 256, (offset \div 256) % 256, offset \div 65536, 0>>)
    \/ PanelRequest(C!encodeControlRequest(1, <<1, 1, 5>>, id, 1, block), block, 5, id,
                    <<1, 1, 1, 5, 0>>)

PanelFrame(command, id, payload, block) ==
  LET session == IF block THEN <<Low(id), High(id), 1, 0>> ELSE <<>>
      n    == Len(session) + Len(payload)
      body == <<1, command, Low(n), High(n)>> \o session \o payload
  IN  <<170>> \o body \o PanelChecksum(body) \o <<85>>

PanelReply(name, command, id, payload, block, status, value) ==
  Put([kind |-> "panel", name |-> name, block |-> block,
       means |-> [status |-> status, value |-> value],
       bytes |-> PanelFrame(command, id, payload, block)], 0)

Long(w) == <<Low(w), High(w), 0, 0>>

\* A clock counts seconds in months of 31 days from 2000.
Clock(t) == ((((((t[1] - 2000) * 12 + t[2] - 1) * 31 + t[3] - 1) * 24 + t[4]) * 60 + t[5]) * 60 + t[6])

Times == {<<2000, 1, 1, 0, 0, 0>>, <<2024, 12, 31, 23, 59, 59>>, <<2026, 2, 28, 12, 0, 1>>}

LogBytes(card, event, time) ==
  LET t == Clock(time)
  IN  Long(card) \o Long(7) \o <<1, 2, event, 3>> \o
      <<t % 256, (t \div 256) % 256, (t \div 65536) % 256, (t \div 16777216) % 256>>

\* What those bytes are about: event 255 is a report of the doors' state.
LogEntry(card, event, time) ==
  IF event = 255
  THEN [kind |-> "DoorAlarmStatus", door |-> Long(card) \o Long(7), verified |-> 2,
        time |-> time]
  ELSE [kind |-> "Event", card |-> card, pin |-> 7, verified |-> 1, doorId |-> 2,
        inOut |-> 3, event |-> event, time |-> time]

\* The two columns of the table that is read: a number and a text.
ColumnKinds == [f \in {1, 2} |-> IF f = 1 THEN "i" ELSE "s"]

Rows == {<<0, <<>> >>, <<5, <<65>> >>, <<300, <<65, 66>> >>}

NoRow == <<>>

RowBytes(row) ==
  IF row = NoRow THEN <<>>
  ELSE Counted(IF row[1] = 0 THEN <<>> ELSE <<Low(row[1]), High(row[1])>>) \o Counted(row[2])

RowValues(row) == IF row = NoRow THEN <<>> ELSE << <<row[1]>>, row[2]>>

PanelConfirms(id, block) ==
  \/ PanelReply("session", 200, id, <<>>, TRUE, "Ok", <<id>>)
  \/ PanelReply("generic", 200, id, <<>>, block, "Ok", <<>>)

PanelRejects(id, block) ==
  \E name \in {"session", "generic", "count", "rows", "log", "chunk"} :
    PanelReply(name, 201, id, <<255>>, block, "Rejected", <<>>)

PanelCounts(id, block) ==
  \E w \in Words : PanelReply("count", 200, id, Long(w), block, "Ok", <<w>>)

PanelSendsChunk(id, block) ==
  \E w \in Words, data \in {<<>>, <<85>>, <<170, 85>>} :
    PanelReply("chunk", 200, id, Long(w) \o data, block, "Ok", <<w, data>>)

PanelSendsRows(id, block) ==
  \E r, s \in Rows \cup {NoRow} :
    PanelReply("rows", 200, id, <<3, 2, 1, 2>> \o RowBytes(r) \o RowBytes(s), block,
               "Ok", RowValues(r) \o RowValues(s))

PanelAnnounces(id, block) ==
  \E w \in Words, packed \in {0, 1} :
    PanelReply("rows", 13, id, <<packed>> \o Long(w) \o Long(2) \o Long(3) \o Long(4), block,
               "BigDataPending", <<packed = 1, w, 2, 3, 4>>)

PanelSendsLog(id, block) ==
  \E w \in Words, event \in {0, 255}, time \in Times :
    PanelReply("log", 200, id, LogBytes(w, event, time), block, "Ok",
               <<LogEntry(w, event, time)>>)

PanelAnswers ==
  \E id \in Ids, block \in BOOLEAN :
    \/ PanelConfirms(id, block) \/ PanelRejects(id, block) \/ PanelCounts(id, block)
    \/ PanelSendsChunk(id, block) \/ PanelSendsRows(id, block)
    \/ PanelAnnounces(id, block) \/ PanelSendsLog(id, block)

\* One byte of the reply to a count, of any session and any word, becomes another on
\* its way: a marker, the version, the status, the length, the checksum or the payload.
PanelGarbled ==
  \E id \in Ids, block \in BOOLEAN, w \in Words :
    LET bytes == PanelFrame(200, id, Long(w), block) IN
    \E i \in DOMAIN bytes, change \in Changes :
      Put([kind |-> "garbled", name |-> "count", block |-> block,
           bytes |-> [bytes EXCEPT ![i] = (@ + change) % 256]], 0)

-----------------------------------------------------------------------------
Arrive == line # Idle /\ got < Len(line.bytes) /\ got' = got + 1 /\ UNCHANGED line

\* The whole of it was taken and the buffer is cleared.
Done == line # Idle /\ got = Len(line.bytes) /\ line' = Idle /\ got' = 0

Next ==
  \/ RequestWord \/ RequestBlock \/ RequestOfPanel
  \/ AnswerRegisters \/ AnswerBits \/ AnswerWrite \/ AnswerException
  \/ PanelAnswers \/ PanelGarbled
  \/ Arrive \/ Done

Spec == Init /\ [][Next]_vars

-----------------------------------------------------------------------------
\* The decoder that onSocketReadyRead() calls for the panel command that is waited for.
Heard(name, data, block) ==
  CASE name = "session" -> C!decodeConnectSessionResponse(data)
    [] name = "generic" -> C!decodeGenericReply(data)
    [] name = "count"   -> C!decodeGetDataCountResponse(data, block)
    [] name = "chunk"   -> C!decodeTransmitDataResponse(data, block)
    [] name = "rows"    -> C!decodeGetDataResponse(data, 3, ColumnKinds, block)
    [] name = "log"     ->
         LET r == C!decodeRtlogBinaryResponse(data, block) IN
         [status |-> r.status,
          value  |-> [k \in DOMAIN r.value |->
                        [r.value[k] EXCEPT !.time = C!decodeC3DateTime(@)]]]

\* What is made of the bytes that have arrived.
Decoded ==
  LET data == SubSeq(line.bytes, 1, got) IN
  IF line.kind = "modbus" THEN M!decodeResponse(line.fn, data)
  ELSE Heard(line.name, data, line.block)

\* However a reply is cut, its decoder waits for the last byte: an answer or a
\* failure is never announced from a part of a frame.
WaitsForWholeFrame ==
  line.kind \in {"modbus", "panel"} /\ got < Len(line.bytes) => Decoded.status = "Incomplete"

\* The reply to a count with one of its bytes changed is never taken for an answer by
\* the decoder that waits for it, however much of it has arrived.
GarbledIsRefused == line.kind = "garbled" => Decoded.status # "Ok"

\* A device reads from a request what the application asked, with the lengths and
\* byte counts it verifies, and its whole reply is decoded to what it meant, up to
\* the longest block, padded coils, echoes and exceptions.
ModbusIsUnderstood ==
  /\ line.kind = "request" => DeviceReads(line.bytes) = line.reads
  /\ line.kind = "modbus" /\ got = Len(line.bytes) => Decoded = line.means

\* So does a panel, with the checksum, and its reply is decoded to what it meant: values
\* with zero bytes, empty tables, announcements of more data and rejected commands.
PanelIsUnderstood ==
  /\ line.kind = "panelRequest" => PanelReads(line.bytes, line.block) = line.reads
  /\ line.kind = "panel" /\ got = Len(line.bytes) => Decoded = line.means

=============================================================================
