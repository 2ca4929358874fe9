----------------------------- MODULE ModbusCodec -----------------------------
(***************************************************************************)
(* The Modbus TCP encoders and decoders                                    *)
(* (features/modbus/modbus_codec.cpp) on sequences of bytes.  Offsets are  *)
(* the code's, from 0.                                                     *)
(*                                                                         *)
(* The code repeats one frame check in eight decoders; here it is Frame,   *)
(* and the decoders are the three shapes a reply has: registers, bits, or  *)
(* an echo of the write.  A function is its Modbus code.                   *)
(***************************************************************************)
EXTENDS Integers, Sequences

RegisterReads == {3, 4}    \* holding and input registers
BitReads      == {1, 2}    \* coils and discrete inputs
SingleWrites  == {5, 6}    \* a coil, a register
BlockWrites   == {15, 16}  \* coils, registers

BigEndian16(v) == <<(v \div 256) % 256, v % 256>>

byteAt(data, i) == data[i + 1]

readBigEndian16(data, i) == 256 * byteAt(data, i) + byteAt(data, i + 1)

\* 1 << n, for a bit of a byte.
Weight(n) == <<1, 2, 4, 8, 16, 32, 64, 128>>[n + 1]

\* Mutant: the first coil is the highest bit.
BadUnpackBits(data, offset, byteCount) ==
  [k \in 1 .. 8 * byteCount |->
     (byteAt(data, offset + (k - 1) \div 8) \div Weight(7 - ((k - 1) % 8))) % 2 = 1]

unpackBits(data, offset, byteCount) ==
  [k \in 1 .. 8 * byteCount |->
     (byteAt(data, offset + (k - 1) \div 8) \div Weight((k - 1) % 8)) % 2 = 1]

packBits(values) ==
  LET bit(b, n) ==
        IF 8 * b + n < Len(values) /\ values[8 * b + n + 1] THEN Weight(n) ELSE 0
  IN  [k \in 1 .. (Len(values) + 7) \div 8 |->
         bit(k - 1, 0) + bit(k - 1, 1) + bit(k - 1, 2) + bit(k - 1, 3)
           + bit(k - 1, 4) + bit(k - 1, 5) + bit(k - 1, 6) + bit(k - 1, 7)]

WordBytes(values) ==
  [i \in 1 .. 2 * Len(values) |-> BigEndian16(values[(i + 1) \div 2])[2 - (i % 2)]]

-----------------------------------------------------------------------------
(* Requests. *)

\* The MBAP header: id, protocol 0, and the length of what follows it.
Mbap(id, unit, fn, body) ==
  BigEndian16(id) \o <<0, 0>> \o BigEndian16(2 + Len(body)) \o <<unit, fn>> \o body

\* The four reads, with quantity as "word", and the write of one register.
WordRequest(id, unit, fn, address, word) ==
  Mbap(id, unit, fn, BigEndian16(address) \o BigEndian16(word))

encodeWriteSingleCoilRequest(id, unit, address, value) ==
  WordRequest(id, unit, 5, address, IF value THEN 65280 ELSE 0)

\* byteCount is stored in one byte.
BlockRequest(id, unit, fn, address, quantity, bytes) ==
  Mbap(id, unit, fn, BigEndian16(address) \o BigEndian16(quantity)
                     \o <<Len(bytes) % 256>> \o bytes)

encodeWriteMultipleRegistersRequest(id, unit, address, values) ==
  BlockRequest(id, unit, 16, address, Len(values), WordBytes(values))

encodeWriteMultipleCoilsRequest(id, unit, address, values) ==
  BlockRequest(id, unit, 15, address, Len(values), packBits(values))

-----------------------------------------------------------------------------
(* Responses. *)

\* A result that carries no value.
Only(status) == [status |-> status, value |-> <<>>]

\* What every decoder does before it looks at its own function's reply: Ok
\* when there is a whole frame of function fn.
Frame(fn, data) ==
  IF Len(data) < 8 THEN Only("Incomplete")
  ELSE LET mbapLength   == readBigEndian16(data, 4)
           functionCode == byteAt(data, 7)
       IN  IF Len(data) < 6 + mbapLength THEN Only("Incomplete")
           ELSE IF readBigEndian16(data, 2) # 0 \/ mbapLength < 2 THEN Only("Malformed")
           ELSE IF functionCode < 128
                THEN Only(IF functionCode = fn THEN "Ok" ELSE "Malformed")
           ELSE IF mbapLength < 3 THEN Only("Malformed")
           ELSE [status |-> "Exception", value |-> <<byteAt(data, 8)>>]

\* The length of the header covers a byte count and that many bytes.
Counted(data) ==
  LET mbapLength == readBigEndian16(data, 4)
  IN  mbapLength >= 3 /\ mbapLength = 3 + byteAt(data, 8)

decodeRegisters(fn, data) ==
  IF Frame(fn, data).status # "Ok" THEN Frame(fn, data)
  ELSE IF ~Counted(data) \/ byteAt(data, 8) % 2 # 0 THEN Only("Malformed")
  ELSE [status |-> "Ok",
        value  |-> [i \in 1 .. byteAt(data, 8) \div 2 |-> readBigEndian16(data, 7 + 2 * i)]]

decodeBits(fn, data) ==
  IF Frame(fn, data).status # "Ok" THEN Frame(fn, data)
  ELSE IF ~Counted(data) THEN Only("Malformed")
  ELSE [status |-> "Ok", value |-> unpackBits(data, 9, byteAt(data, 8))]

\* Address and value of a single write, address and quantity of a block.
decodeEcho(fn, data) ==
  IF Frame(fn, data).status # "Ok" THEN Frame(fn, data)
  ELSE IF readBigEndian16(data, 4) # 6 THEN Only("Malformed")
  ELSE LET word == readBigEndian16(data, 10) IN
    [status |-> "Ok",
     value  |-> <<readBigEndian16(data, 8), IF fn = 5 THEN word = 65280 ELSE word>>]

\* The decoder the driver calls for its pending function.
decodeResponse(fn, data) ==
  IF fn \in RegisterReads THEN decodeRegisters(fn, data)
  ELSE IF fn \in BitReads THEN decodeBits(fn, data)
  ELSE decodeEcho(fn, data)

=============================================================================
