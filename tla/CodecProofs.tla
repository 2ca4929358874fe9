----------------------------- MODULE CodecProofs -----------------------------
(***************************************************************************)
(* The Modbus and C3 codecs understand their peers, for all words, ids and *)
(* blocks: what is encoded is read as it was meant, a whole reply is       *)
(* decoded to what it means and a part of one is waited for, and a frame   *)
(* with a changed byte is refused.                                         *)
(*                                                                         *)
(* The invariant LineInv says of what is on the line that its sender put   *)
(* it together.  The rest is about operators: what lies where in a frame,  *)
(* bytes and their bits, the checksum as a remainder and why one changed   *)
(* byte changes it, and the rows of a table.                               *)
(***************************************************************************)
EXTENDS CodecStream, SharedFacts

-----------------------------------------------------------------------------
(* Modbus frames. *)

\* Division with remainder, and what it makes of a sum.
LEMMA Divided ==
  ASSUME NEW q \in Nat, NEW r \in Byte
  PROVE  (256 * q + r) \div 256 = q /\ (256 * q + r) % 256 = r
  BY DEF Byte

\* Two bytes hold a word.
LEMMA BigEndianFacts ==
  ASSUME NEW v \in Word
  PROVE  /\ M!BigEndian16(v) = <<High(v), Low(v)>>
         /\ High(v) \in Byte /\ Low(v) \in Byte /\ 256 * High(v) + Low(v) = v
<1>. DEFINE q == v \div 256
            r == v % 256
<1>1. q \in Int /\ r \in Int /\ 0 <= r /\ r < 256 /\ v = 256 * q + r /\ 0 <= v /\ v < 65536
  BY DEF Word
<1>2. M!BigEndian16(v) = <<q % 256, r>> /\ High(v) = q /\ Low(v) = r
  BY Zenon DEF M!BigEndian16, High, Low
<1>. HIDE DEF q, r
<1>3. q \in Nat /\ q < 256
  BY <1>1
<1>4. q % 256 = q
  BY <1>3
<1>. QED
  BY <1>1, <1>2, <1>3, <1>4 DEF Byte

\* One sequence behind another.
LEMMA JoinedBytes ==
  ASSUME NEW s \in Seq(Byte), NEW u \in Seq(Byte)
  PROVE  /\ s \o u \in Seq(Byte) /\ Len(s \o u) = Len(s) + Len(u)
         /\ Len(s) \in Nat /\ Len(u) \in Nat
         /\ \A i \in 1 .. Len(s) : (s \o u)[i] = s[i]
         /\ \A i \in 1 .. Len(u) : (s \o u)[Len(s) + i] = u[i]
<1>1. /\ s \o u \in Seq(Byte) /\ Len(s \o u) = Len(s) + Len(u)
      /\ \A i \in 1 .. Len(s) + Len(u) :
           (s \o u)[i] = IF i <= Len(s) THEN s[i] ELSE u[i - Len(s)]
  BY ConcatProperties
<1>2. Len(s) \in Nat /\ Len(u) \in Nat
  OBVIOUS
<1>3. \A i \in 1 .. Len(s) : (s \o u)[i] = s[i]
  BY <1>1, <1>2
<1>4. \A i \in 1 .. Len(u) :
        /\ Len(s) + i \in 1 .. Len(s) + Len(u) /\ ~(Len(s) + i <= Len(s))
        /\ (Len(s) + i) - Len(s) = i
  BY <1>2
<1>. QED
  BY <1>1, <1>2, <1>3, <1>4

\* A pair of bytes is a sequence.
LEMMA PairFacts ==
  ASSUME NEW a \in Byte, NEW b \in Byte
  PROVE  <<a, b>> \in Seq(Byte) /\ Len(<<a, b>>) = 2 /\ <<a, b>>[1] = a /\ <<a, b>>[2] = b
  OBVIOUS

\* A pair of bytes behind a sequence.
LEMMA PairJoined ==
  ASSUME NEW s \in Seq(Byte), NEW u \in Seq(Byte), Len(u) = 2
  PROVE  /\ s \o u \in Seq(Byte) /\ Len(s \o u) = Len(s) + 2
         /\ \A i \in 1 .. Len(s) : (s \o u)[i] = s[i]
         /\ (s \o u)[Len(s) + 1] = u[1] /\ (s \o u)[Len(s) + 2] = u[2]
<1>. DEFINE t == s \o u
<1>1. /\ t \in Seq(Byte) /\ Len(t) = Len(s) + Len(u)
      /\ \A i \in 1 .. Len(s) : t[i] = s[i]
      /\ \A i \in 1 .. Len(u) : t[Len(s) + i] = u[i]
  BY JoinedBytes
<1>. HIDE DEF t
<1>2. t[Len(s) + 1] = u[1] /\ t[Len(s) + 2] = u[2]
  BY <1>1
<1>3. Len(t) = Len(s) + 2
  BY <1>1
<1>. QED
  BY <1>1, <1>2, <1>3 DEF t

\* Four pairs of bytes and what follows them.
Joined(p1, p2, p3, p4, body) == p1 \o p2 \o p3 \o p4 \o body

\* b is made of them.
IsHeaded(b, p1, p2, p3, p4, body) ==
  /\ b \in Seq(Byte) /\ Len(b) = 8 + Len(body)
  /\ b[1] = p1[1] /\ b[2] = p1[2] /\ b[3] = p2[1] /\ b[4] = p2[2]
  /\ b[5] = p3[1] /\ b[6] = p3[2] /\ b[7] = p4[1] /\ b[8] = p4[2]
  /\ \A i \in 1 .. Len(body) : b[8 + i] = body[i]

\* The header of a request, as the bytes it is made of, and what follows it.
LEMMA HeaderFacts ==
  ASSUME NEW p1 \in Seq(Byte), Len(p1) = 2, NEW p2 \in Seq(Byte), Len(p2) = 2,
         NEW p3 \in Seq(Byte), Len(p3) = 2, NEW p4 \in Seq(Byte), Len(p4) = 2,
         NEW body \in Seq(Byte)
  PROVE  IsHeaded(Joined(p1, p2, p3, p4, body), p1, p2, p3, p4, body)
<1>. DEFINE s2 == p1 \o p2
            s3 == s2 \o p3
            s4 == s3 \o p4
            b == s4 \o body
<1>1. /\ s2 \in Seq(Byte) /\ Len(s2) = 4
      /\ s2[1] = p1[1] /\ s2[2] = p1[2] /\ s2[3] = p2[1] /\ s2[4] = p2[2]
  <2>1. /\ s2 \in Seq(Byte) /\ Len(s2) = Len(p1) + 2
        /\ \A i \in 1 .. Len(p1) : s2[i] = p1[i]
        /\ s2[Len(p1) + 1] = p2[1] /\ s2[Len(p1) + 2] = p2[2]
    BY PairJoined
  <2>. HIDE DEF s2
  <2>. QED
    BY <2>1
<1>. HIDE DEF s2
<1>2. /\ s3 \in Seq(Byte) /\ Len(s3) = 6
      /\ s3[1] = p1[1] /\ s3[2] = p1[2] /\ s3[3] = p2[1] /\ s3[4] = p2[2]
      /\ s3[5] = p3[1] /\ s3[6] = p3[2]
  <2>1. /\ s3 \in Seq(Byte) /\ Len(s3) = Len(s2) + 2
        /\ \A i \in 1 .. Len(s2) : s3[i] = s2[i]
        /\ s3[Len(s2) + 1] = p3[1] /\ s3[Len(s2) + 2] = p3[2]
    BY <1>1, PairJoined
  <2>. HIDE DEF s3
  <2>. QED
    BY <1>1, <2>1
<1>. HIDE DEF s3
<1>3. /\ s4 \in Seq(Byte) /\ Len(s4) = 8
      /\ s4[1] = p1[1] /\ s4[2] = p1[2] /\ s4[3] = p2[1] /\ s4[4] = p2[2]
      /\ s4[5] = p3[1] /\ s4[6] = p3[2] /\ s4[7] = p4[1] /\ s4[8] = p4[2]
  <2>1. /\ s4 \in Seq(Byte) /\ Len(s4) = Len(s3) + 2
        /\ \A i \in 1 .. Len(s3) : s4[i] = s3[i]
        /\ s4[Len(s3) + 1] = p4[1] /\ s4[Len(s3) + 2] = p4[2]
    BY <1>2, PairJoined
  <2>. HIDE DEF s4
  <2>. QED
    BY <1>2, <2>1
<1>. HIDE DEF s4
<1>4. /\ b \in Seq(Byte) /\ Len(b) = Len(s4) + Len(body)
      /\ \A i \in 1 .. Len(s4) : b[i] = s4[i]
      /\ \A i \in 1 .. Len(body) : b[Len(s4) + i] = body[i]
  BY <1>3, JoinedBytes
<1>. HIDE DEF b
<1>5. /\ b \in Seq(Byte) /\ Len(b) = 8 + Len(body)
      /\ b[1] = s4[1] /\ b[2] = s4[2] /\ b[3] = s4[3] /\ b[4] = s4[4]
      /\ b[5] = s4[5] /\ b[6] = s4[6] /\ b[7] = s4[7] /\ b[8] = s4[8]
      /\ \A i \in 1 .. Len(body) : b[8 + i] = body[i]
  BY <1>3, <1>4
<1>. QED
  <2>1. IsHeaded(b, p1, p2, p3, p4, body)
    BY <1>3, <1>5 DEF IsHeaded
  <2>2. b = Joined(p1, p2, p3, p4, body)
    BY DEF b, s4, s3, s2, Joined
  <2>. QED
    BY <2>1, <2>2

\* The eight bytes of a device's header are a sequence.
LEMMA HeadFacts ==
  ASSUME NEW h1 \in Byte, NEW h2 \in Byte, NEW h3 \in Byte, NEW h4 \in Byte,
         NEW h5 \in Byte, NEW h6 \in Byte, NEW h7 \in Byte, NEW h8 \in Byte
  PROVE  LET h == <<h1, h2, h3, h4, h5, h6, h7, h8>> IN
         /\ h \in Seq(Byte) /\ Len(h) = 8
         /\ h[1] = h1 /\ h[2] = h2 /\ h[3] = h3 /\ h[4] = h4
         /\ h[5] = h5 /\ h[6] = h6 /\ h[7] = h7 /\ h[8] = h8
  OBVIOUS

\* b is a Modbus frame with this id, function and body.
IsFrame(b, id, fn, body) ==
  /\ b \in Seq(Byte) /\ Len(b) = 8 + Len(body)
  /\ 256 * b[1] + b[2] = id /\ b[3] = 0 /\ b[4] = 0
  /\ 256 * b[5] + b[6] = 2 + Len(body) /\ b[8] = fn
  /\ \A i \in 1 .. Len(body) : b[8 + i] = body[i]

\* What a device sends is a frame.
LEMMA DeviceFrameFacts ==
  ASSUME NEW id \in Word, NEW fn \in Byte, NEW body \in Seq(Byte), 2 + Len(body) \in Word
  PROVE  IsFrame(DeviceFrame(id, fn, body), id, fn, body)
<1>. DEFINE n == 2 + Len(body)
            h == <<High(id), Low(id), 0, 0, High(n), Low(n), 1, fn>>
            b == h \o body
<1>1. DeviceFrame(id, fn, body) = b
  BY DEF DeviceFrame
<1>2. n \in Word /\ 0 \in Byte /\ 1 \in Byte /\ n = 2 + Len(body)
  BY DEF Word, Byte
<1>. HIDE DEF n
<1>3. /\ High(id) \in Byte /\ Low(id) \in Byte /\ 256 * High(id) + Low(id) = id
      /\ High(n) \in Byte /\ Low(n) \in Byte /\ 256 * High(n) + Low(n) = n
  BY <1>2, BigEndianFacts
<1>4. /\ h \in Seq(Byte) /\ Len(h) = 8
      /\ h[1] = High(id) /\ h[2] = Low(id) /\ h[3] = 0 /\ h[4] = 0
      /\ h[5] = High(n) /\ h[6] = Low(n) /\ h[8] = fn
  BY <1>2, <1>3, HeadFacts
<1>. HIDE DEF h
<1>5. /\ b \in Seq(Byte) /\ Len(b) = Len(h) + Len(body) /\ Len(body) \in Nat
      /\ \A i \in 1 .. Len(h) : b[i] = h[i]
      /\ \A i \in 1 .. Len(body) : b[Len(h) + i] = body[i]
  <2>1. h \in Seq(Byte)
    BY <1>4
  <2>. QED
    BY <2>1, JoinedBytes, Zenon
<1>. HIDE DEF b
<1>6. /\ b[1] = h[1] /\ b[2] = h[2] /\ b[3] = h[3] /\ b[4] = h[4]
      /\ b[5] = h[5] /\ b[6] = h[6] /\ b[8] = h[8]
      /\ \A i \in 1 .. Len(body) : b[8 + i] = body[i]
  BY <1>4, <1>5
<1>7. IsFrame(b, id, fn, body)
  BY <1>2, <1>3, <1>4, <1>5, <1>6 DEF IsFrame
<1>. QED
  BY <1>1, <1>7

\* So is what the codec puts together.
LEMMA MbapFacts ==
  ASSUME NEW id \in Word, NEW unit \in Byte, NEW fn \in Byte, NEW body \in Seq(Byte),
         2 + Len(body) \in Word
  PROVE  IsFrame(M!Mbap(id, unit, fn, body), id, fn, body)
<1>. DEFINE n == 2 + Len(body)
            p1 == M!BigEndian16(id)
            p2 == <<0, 0>>
            p3 == M!BigEndian16(n)
            p4 == <<unit, fn>>
            b == Joined(p1, p2, p3, p4, body)
<1>1. M!Mbap(id, unit, fn, body) = b
  BY DEF M!Mbap, Joined
<1>2. n \in Word /\ 0 \in Byte /\ n = 2 + Len(body)
  BY DEF Word, Byte
<1>. HIDE DEF n
<1>3. /\ High(id) \in Byte /\ Low(id) \in Byte /\ 256 * High(id) + Low(id) = id
      /\ High(n) \in Byte /\ Low(n) \in Byte /\ 256 * High(n) + Low(n) = n
      /\ p1 = <<High(id), Low(id)>> /\ p3 = <<High(n), Low(n)>>
      /\ p2 = <<0, 0>> /\ p4 = <<unit, fn>>
  BY <1>2, BigEndianFacts
<1>. HIDE DEF p1, p2, p3, p4
<1>4. p1 \in Seq(Byte) /\ Len(p1) = 2 /\ p1[1] = High(id) /\ p1[2] = Low(id)
  BY <1>3, PairFacts
<1>5. p2 \in Seq(Byte) /\ Len(p2) = 2 /\ p2[1] = 0 /\ p2[2] = 0
  BY <1>2, <1>3, PairFacts
<1>6. p3 \in Seq(Byte) /\ Len(p3) = 2 /\ p3[1] = High(n) /\ p3[2] = Low(n)
  BY <1>3, PairFacts
<1>7. p4 \in Seq(Byte) /\ Len(p4) = 2 /\ p4[1] = unit /\ p4[2] = fn
  BY <1>3, PairFacts
<1>8. IsHeaded(b, p1, p2, p3, p4, body)
  <2>1. /\ p1 \in Seq(Byte) /\ Len(p1) = 2 /\ p2 \in Seq(Byte) /\ Len(p2) = 2
        /\ p3 \in Seq(Byte) /\ Len(p3) = 2 /\ p4 \in Seq(Byte) /\ Len(p4) = 2
    BY <1>4, <1>5, <1>6, <1>7
  <2>. QED
    BY <2>1, HeaderFacts
<1>. HIDE DEF b
<1>9. IsFrame(b, id, fn, body)
  BY <1>2, <1>3, <1>4, <1>5, <1>6, <1>7, <1>8 DEF IsFrame, IsHeaded
<1>. QED
  BY <1>1, <1>9

\* Two words, one behind the other.
LEMMA TwoWords ==
  ASSUME NEW v \in Word, NEW w \in Word
  PROVE  LET body == M!BigEndian16(v) \o M!BigEndian16(w) IN
         /\ body \in Seq(Byte) /\ Len(body) = 4
         /\ body[1] = High(v) /\ body[2] = Low(v) /\ body[3] = High(w) /\ body[4] = Low(w)
<1>. DEFINE s == M!BigEndian16(v)
            u == M!BigEndian16(w)
            t == s \o u
<1>1. /\ s = <<High(v), Low(v)>> /\ u = <<High(w), Low(w)>>
      /\ High(v) \in Byte /\ Low(v) \in Byte /\ High(w) \in Byte /\ Low(w) \in Byte
  BY BigEndianFacts
<1>. HIDE DEF s, u
<1>2. /\ s \in Seq(Byte) /\ Len(s) = 2 /\ s[1] = High(v) /\ s[2] = Low(v)
      /\ u \in Seq(Byte) /\ Len(u) = 2 /\ u[1] = High(w) /\ u[2] = Low(w)
  BY <1>1, PairFacts
<1>3. /\ t \in Seq(Byte) /\ Len(t) = Len(s) + 2
      /\ \A i \in 1 .. Len(s) : t[i] = s[i]
      /\ t[Len(s) + 1] = u[1] /\ t[Len(s) + 2] = u[2]
  BY <1>2, PairJoined
<1>. HIDE DEF t
<1>4. t \in Seq(Byte) /\ Len(t) = 4 /\ t[1] = s[1] /\ t[2] = s[2] /\ t[3] = u[1] /\ t[4] = u[2]
  BY <1>2, <1>3
<1>. QED
  BY <1>2, <1>4 DEF t, s, u

\* A device reads what was asked in a request of one word.
LEMMA WordIsRead ==
  ASSUME NEW id \in Word, NEW unit \in Byte, NEW fn \in Byte, fn # 15, fn # 16,
         NEW a \in Word, NEW w \in Word
  PROVE  DeviceReads(M!WordRequest(id, unit, fn, a, w)) = <<id, fn, a, w, TRUE>>
<1>. DEFINE body == M!BigEndian16(a) \o M!BigEndian16(w)
            b == M!WordRequest(id, unit, fn, a, w)
<1>1. /\ body \in Seq(Byte) /\ Len(body) = 4
      /\ body[1] = High(a) /\ body[2] = Low(a) /\ body[3] = High(w) /\ body[4] = Low(w)
  BY TwoWords
<1>2. /\ 256 * High(a) + Low(a) = a /\ 256 * High(w) + Low(w) = w
  BY BigEndianFacts
<1>3. b = M!Mbap(id, unit, fn, body)
  BY Zenon DEF M!WordRequest
<1>. HIDE DEF b, body
<1>4. IsFrame(b, id, fn, body)
  <2>1. 2 + Len(body) \in Word /\ body \in Seq(Byte)
    BY <1>1 DEF Word
  <2>. QED
    BY <1>3, <2>1, MbapFacts
<1>5. /\ b[9] = High(a) /\ b[10] = Low(a) /\ b[11] = High(w) /\ b[12] = Low(w)
  <2>1. \A i \in 1 .. 4 : b[8 + i] = body[i]
    BY <1>1, <1>4 DEF IsFrame
  <2>. QED
    BY <1>1, <2>1
<1>6. /\ 256 * b[1] + b[2] = id /\ b[8] = fn /\ 256 * b[9] + b[10] = a /\ 256 * b[11] + b[12] = w
      /\ b[3] = 0 /\ b[4] = 0 /\ Len(b) = 6 + 256 * b[5] + b[6]
  <2>1. b \in Seq(Byte) /\ Len(b) = 12
    BY <1>1, <1>4 DEF IsFrame
  <2>2. b[5] \in Byte /\ b[6] \in Byte
    <3>1. 5 \in 1 .. Len(b) /\ 6 \in 1 .. Len(b)
      BY <2>1
    <3>. QED
      BY <2>1, <3>1, ElementOfSeq, Zenon
  <2>3. b[5] \in Nat /\ b[6] \in Nat
    BY <2>2 DEF Byte
  <2>4. /\ 256 * b[1] + b[2] = id /\ b[3] = 0 /\ b[4] = 0
        /\ 256 * b[5] + b[6] = 2 + Len(body) /\ b[8] = fn
    BY <1>4, Zenon DEF IsFrame
  <2>5. Len(b) = 6 + 256 * b[5] + b[6]
    BY <1>1, <2>1, <2>3, <2>4, SMTT(30)
  <2>6. 256 * b[9] + b[10] = a /\ 256 * b[11] + b[12] = w
    BY <1>2, <1>5
  <2>. QED
    BY <2>4, <2>5, <2>6
<1>7. DeviceReads(b) = <<id, fn, a, w, TRUE>>
  BY <1>6 DEF DeviceReads
<1>. QED
  BY <1>7 DEF b

\* body is address, quantity, byte count and bytes.
IsBlock(body, a, q, bytes) ==
  /\ body \in Seq(Byte) /\ Len(body) = 5 + Len(bytes)
  /\ body[1] = High(a) /\ body[2] = Low(a) /\ body[3] = High(q) /\ body[4] = Low(q)
  /\ body[5] = Len(bytes)
  /\ \A i \in 1 .. Len(bytes) : body[5 + i] = bytes[i]

\* So is the body of a request to write a block.
LEMMA BlockFacts ==
  ASSUME NEW a \in Word, NEW q \in Word, NEW bytes \in Seq(Byte), Len(bytes) \in Byte
  PROVE  IsBlock(M!BigEndian16(a) \o M!BigEndian16(q) \o <<Len(bytes) % 256>> \o bytes,
                 a, q, bytes)
<1>. DEFINE words == M!BigEndian16(a) \o M!BigEndian16(q)
            count == <<Len(bytes) % 256>>
            s == words \o count
            body == s \o bytes
<1>1. /\ words \in Seq(Byte) /\ Len(words) = 4 /\ words[1] = High(a) /\ words[2] = Low(a)
      /\ words[3] = High(q) /\ words[4] = Low(q)
  BY TwoWords
<1>2. count \in Seq(Byte) /\ Len(count) = 1 /\ count[1] = Len(bytes)
  <2>1. Len(bytes) % 256 = Len(bytes)
    BY DEF Byte
  <2>. QED
    BY <2>1
<1>. HIDE DEF words, count
<1>3. /\ s \in Seq(Byte) /\ Len(s) = Len(words) + Len(count)
      /\ \A i \in 1 .. Len(words) : s[i] = words[i]
      /\ \A i \in 1 .. Len(count) : s[Len(words) + i] = count[i]
  <2>1. words \in Seq(Byte) /\ count \in Seq(Byte)
    BY <1>1, <1>2
  <2>. QED
    BY <2>1, JoinedBytes, Zenon
<1>. HIDE DEF s
<1>4. /\ Len(s) = 5 /\ s[1] = High(a) /\ s[2] = Low(a) /\ s[3] = High(q) /\ s[4] = Low(q)
      /\ s[5] = Len(bytes)
  BY <1>1, <1>2, <1>3
<1>5. /\ body \in Seq(Byte) /\ Len(body) = Len(s) + Len(bytes) /\ Len(bytes) \in Nat
      /\ \A i \in 1 .. Len(s) : body[i] = s[i]
      /\ \A i \in 1 .. Len(bytes) : body[Len(s) + i] = bytes[i]
  <2>1. s \in Seq(Byte)
    BY <1>3
  <2>. QED
    BY <2>1, JoinedBytes, Zenon
<1>6. body = M!BigEndian16(a) \o M!BigEndian16(q) \o <<Len(bytes) % 256>> \o bytes
  BY DEF s, words, count
<1>. HIDE DEF body
<1>7. IsBlock(body, a, q, bytes)
  BY <1>4, <1>5 DEF IsBlock
<1>. QED
  BY <1>6, <1>7

\* Where a device finds them in the frame.
IsBlockFrame(b, id, fn, a, q, bytes) ==
  /\ 256 * b[1] + b[2] = id /\ b[8] = fn /\ 256 * b[9] + b[10] = a
  /\ 256 * b[11] + b[12] = q /\ b[13] = Len(bytes)
  /\ b[3] = 0 /\ b[4] = 0 /\ Len(b) = 6 + 256 * b[5] + b[6]
  /\ \A i \in 1 .. Len(bytes) : b[13 + i] = bytes[i]

\* A request to write a block has them there.
LEMMA BlockFrameFacts ==
  ASSUME NEW id \in Word, NEW unit \in Byte, NEW fn \in Byte, NEW a \in Word, NEW q \in Word,
         NEW bytes \in Seq(Byte), Len(bytes) \in Byte
  PROVE  IsBlockFrame(M!BlockRequest(id, unit, fn, a, q, bytes), id, fn, a, q, bytes)
<1>. DEFINE body == M!BigEndian16(a) \o M!BigEndian16(q) \o <<Len(bytes) % 256>> \o bytes
            b == M!BlockRequest(id, unit, fn, a, q, bytes)
<1>1. IsBlock(body, a, q, bytes)
  BY BlockFacts
<1>2. b = M!Mbap(id, unit, fn, body)
  BY DEF M!BlockRequest
<1>. HIDE DEF b, body
<1>3. /\ body \in Seq(Byte) /\ Len(body) = 5 + Len(bytes) /\ 2 + Len(body) \in Word
      /\ Len(bytes) \in Nat
  BY <1>1 DEF IsBlock, Word, Byte
<1>4. IsFrame(b, id, fn, body)
  <2>1. 2 + Len(body) \in Word /\ body \in Seq(Byte)
    BY <1>3
  <2>. QED
    BY <1>2, <2>1, MbapFacts
<1>5. /\ 256 * High(a) + Low(a) = a /\ 256 * High(q) + Low(q) = q
  BY BigEndianFacts
<1>6. /\ b[9] = body[1] /\ b[10] = body[2] /\ b[11] = body[3] /\ b[12] = body[4]
      /\ b[13] = body[5] /\ \A i \in 1 .. Len(bytes) : b[13 + i] = body[5 + i]
  <2>1. \A i \in 1 .. 5 + Len(bytes) : b[8 + i] = body[i]
    BY <1>3, <1>4 DEF IsFrame
  <2>2. \A i \in 1 .. Len(bytes) : b[8 + (5 + i)] = body[5 + i]
    BY <1>3, <2>1
  <2>. QED
    BY <1>3, <2>1, <2>2
<1>7. b[5] \in Nat /\ b[6] \in Nat
  <2>1. b \in Seq(Byte) /\ 5 \in 1 .. Len(b) /\ 6 \in 1 .. Len(b)
    BY <1>3, <1>4 DEF IsFrame
  <2>2. b[5] \in Byte /\ b[6] \in Byte
    BY <2>1, ElementOfSeq, Zenon
  <2>. QED
    BY <2>2 DEF Byte
<1>8. IsBlockFrame(b, id, fn, a, q, bytes)
  BY <1>1, <1>3, <1>4, <1>5, <1>6, <1>7, SMTT(30) DEF IsFrame, IsBlock, IsBlockFrame
<1>. QED
  BY <1>8 DEF b

\* Registers as bytes: the high byte of each, then the low one.
AreWordBytes(bytes, r) ==
  /\ bytes \in Seq(Byte) /\ Len(bytes) = 2 * Len(r)
  /\ \A i \in 1 .. Len(r) : bytes[2 * i - 1] = High(r[i]) /\ bytes[2 * i] = Low(r[i])

\* A sequence that has those bytes in those places.
LEMMA WordBytesFacts ==
  ASSUME NEW r \in Seq(Word), NEW bytes, bytes = [i \in 1 .. 2 * Len(r) |-> bytes[i]],
         \A i \in 1 .. 2 * Len(r) :
           bytes[i] = IF i % 2 = 1 THEN High(r[(i + 1) \div 2]) ELSE Low(r[i \div 2])
  PROVE  AreWordBytes(bytes, r)
<1>1. Len(r) \in Nat /\ 2 * Len(r) \in Nat
  OBVIOUS
<1>2. \A i \in 1 .. Len(r) : High(r[i]) \in Byte /\ Low(r[i]) \in Byte
  <2>1. \A i \in 1 .. Len(r) : r[i] \in Word
    OBVIOUS
  <2>. QED
    BY <2>1, BigEndianFacts
<1>3. \A i \in 1 .. 2 * Len(r) : bytes[i] \in Byte
  <2>. TAKE i \in 1 .. 2 * Len(r)
  <2>1. CASE i % 2 = 1
    <3>1. (i + 1) \div 2 \in 1 .. Len(r)
      BY <1>1, <2>1
    <3>. QED
      BY <1>2, <2>1, <3>1
  <2>2. CASE i % 2 # 1
    <3>1. i \div 2 \in 1 .. Len(r)
      BY <1>1, <2>2
    <3>. QED
      BY <1>2, <2>2, <3>1
  <2>. QED
    BY <2>1, <2>2
<1>4. bytes \in Seq(Byte) /\ Len(bytes) = 2 * Len(r)
  <2>1. bytes \in [1 .. 2 * Len(r) -> Byte]
    BY <1>3
  <2>2. bytes \in Seq(Byte)
    BY <1>1, <2>1, SeqDef
  <2>3. DOMAIN bytes = 1 .. 2 * Len(r) /\ DOMAIN bytes = 1 .. Len(bytes) /\ Len(bytes) \in Nat
    BY <2>1, <2>2
  <2>. QED
    BY <1>1, <2>2, <2>3
<1>5. \A i \in 1 .. Len(r) : bytes[2 * i - 1] = High(r[i]) /\ bytes[2 * i] = Low(r[i])
  <2>. TAKE i \in 1 .. Len(r)
  <2>1. /\ 2 * i - 1 \in 1 .. 2 * Len(r) /\ (2 * i - 1) % 2 = 1
        /\ ((2 * i - 1) + 1) \div 2 = i
    BY <1>1
  <2>2. 2 * i \in 1 .. 2 * Len(r) /\ ~((2 * i) % 2 = 1) /\ (2 * i) \div 2 = i
    BY <1>1
  <2>3. bytes[2 * i - 1] = High(r[((2 * i - 1) + 1) \div 2])
    BY <2>1, Zenon
  <2>4. bytes[2 * i] = Low(r[(2 * i) \div 2])
    BY <2>2, Zenon
  <2>. QED
    BY <2>1, <2>2, <2>3, <2>4, Zenon
<1>. QED
  BY <1>4, <1>5 DEF AreWordBytes

\* The codec makes those bytes of registers.
LEMMA EncodedRegisters ==
  ASSUME NEW r \in Seq(Word)
  PROVE  AreWordBytes(M!WordBytes(r), r)
<1>. DEFINE bytes == M!WordBytes(r)
<1>1. Len(r) \in Nat
  OBVIOUS
<1>2. /\ bytes = [i \in 1 .. 2 * Len(r) |-> bytes[i]]
      /\ \A i \in 1 .. 2 * Len(r) : bytes[i] = M!BigEndian16(r[(i + 1) \div 2])[2 - (i % 2)]
  BY DEF M!WordBytes
<1>. HIDE DEF bytes
<1>3. \A i \in 1 .. 2 * Len(r) :
        bytes[i] = IF i % 2 = 1 THEN High(r[(i + 1) \div 2]) ELSE Low(r[i \div 2])
  <2>. TAKE i \in 1 .. 2 * Len(r)
  <2>. DEFINE k == (i + 1) \div 2
  <2>1. k \in 1 .. Len(r) /\ (i % 2 = 1 => 2 - (i % 2) = 1)
        /\ (i % 2 # 1 => 2 - (i % 2) = 2 /\ i \div 2 = k)
    BY <1>1
  <2>2. bytes[i] = M!BigEndian16(r[k])[2 - (i % 2)]
    BY <1>2
  <2>. HIDE DEF k
  <2>3. r[k] \in Word
    BY <2>1
  <2>4. M!BigEndian16(r[k]) = <<High(r[k]), Low(r[k])>>
    BY <2>3, BigEndianFacts
  <2>5. bytes[i] = IF i % 2 = 1 THEN High(r[k]) ELSE Low(r[k])
    BY <2>1, <2>2, <2>4
  <2>. QED
    BY <2>1, <2>5 DEF k
<1>4. AreWordBytes(bytes, r)
  BY <1>2, <1>3, WordBytesFacts
<1>. QED
  BY <1>4 DEF bytes

\* A device reads the registers it was sent.
LEMMA RegistersAreRead ==
  ASSUME NEW id \in Word, NEW a \in Word, NEW r \in Seq(Word), 2 * Len(r) \in Byte
  PROVE  DeviceReads(M!encodeWriteMultipleRegistersRequest(id, 1, a, r))
           = <<id, 16, a, r, TRUE>>
<1>. DEFINE bytes == M!WordBytes(r)
            b == M!BlockRequest(id, 1, 16, a, Len(r), bytes)
<1>1. AreWordBytes(bytes, r)
  BY EncodedRegisters
<1>2. b = M!encodeWriteMultipleRegistersRequest(id, 1, a, r)
  BY DEF M!encodeWriteMultipleRegistersRequest
<1>. HIDE DEF bytes
<1>3. bytes \in Seq(Byte) /\ Len(bytes) = 2 * Len(r) /\ Len(bytes) \in Byte /\ Len(r) \in Nat
  BY <1>1 DEF AreWordBytes
<1>4. Len(r) \in Word /\ 1 \in Byte /\ 16 \in Byte
  BY <1>3 DEF Word, Byte
<1>5. IsBlockFrame(b, id, 16, a, Len(r), bytes)
  <2>1. bytes \in Seq(Byte) /\ Len(bytes) \in Byte
    BY <1>3
  <2>. QED
    BY <1>4, <2>1, BlockFrameFacts
<1>. HIDE DEF b
<1>6. RegistersIn(b) = r
  <2>1. b[13] \div 2 = Len(r)
    BY <1>3, <1>5 DEF IsBlockFrame
  <2>2. \A i \in 1 .. Len(r) : 256 * b[12 + 2 * i] + b[13 + 2 * i] = r[i]
    <3>. TAKE i \in 1 .. Len(r)
    <3>1. /\ 2 * i - 1 \in 1 .. Len(bytes) /\ 2 * i \in 1 .. Len(bytes)
          /\ 13 + (2 * i - 1) = 12 + 2 * i
      BY <1>3
    <3>2. b[12 + 2 * i] = High(r[i]) /\ b[13 + 2 * i] = Low(r[i])
      BY <1>1, <1>5, <3>1 DEF AreWordBytes, IsBlockFrame
    <3>3. r[i] \in Word
      OBVIOUS
    <3>. QED
      BY <3>2, <3>3, BigEndianFacts
  <2>3. RegistersIn(b) = [i \in 1 .. Len(r) |-> r[i]]
    BY <2>1, <2>2 DEF RegistersIn
  <2>. QED
    BY <2>3
<1>7. DeviceReads(b) = <<id, 16, a, r, TRUE>>
  <2>1. (CASE b[8] = 16 -> RegistersIn(b) [] b[8] = 15 -> CoilsIn(b, 256 * b[11] + b[12])
         [] OTHER -> 256 * b[11] + b[12]) = r
    <3>1. b[8] = 16 /\ b[8] # 15
      BY <1>5 DEF IsBlockFrame
    <3>. QED
      BY <1>6, <3>1, Zenon
  <2>. QED
    BY <1>5, <2>1 DEF DeviceReads, IsBlockFrame
<1>. QED
  BY <1>2, <1>7

\* Eight binary digits make a byte, and each can be read from it.
LEMMA Digits ==
  ASSUME NEW d0 \in {0, 1}, NEW d1 \in {0, 1}, NEW d2 \in {0, 1}, NEW d3 \in {0, 1},
         NEW d4 \in {0, 1}, NEW d5 \in {0, 1}, NEW d6 \in {0, 1}, NEW d7 \in {0, 1}
  PROVE  LET byte == d0 + 2 * d1 + 4 * d2 + 8 * d3 + 16 * d4 + 32 * d5 + 64 * d6 + 128 * d7
         IN  /\ byte \in Byte
             /\ (byte \div 1) % 2 = d0 /\ (byte \div 2) % 2 = d1
             /\ (byte \div 4) % 2 = d2 /\ (byte \div 8) % 2 = d3
             /\ (byte \div 16) % 2 = d4 /\ (byte \div 32) % 2 = d5
             /\ (byte \div 64) % 2 = d6 /\ (byte \div 128) % 2 = d7
<1>. DEFINE byte == d0 + 2 * d1 + 4 * d2 + 8 * d3 + 16 * d4 + 32 * d5 + 64 * d6 + 128 * d7
<1>1. byte \in Byte
  BY DEF Byte
<1>2. (byte \div 1) % 2 = d0 /\ (byte \div 2) % 2 = d1
  OBVIOUS
<1>3. (byte \div 4) % 2 = d2 /\ (byte \div 8) % 2 = d3
  OBVIOUS
<1>4. (byte \div 16) % 2 = d4 /\ (byte \div 32) % 2 = d5
  OBVIOUS
<1>5. (byte \div 64) % 2 = d6 /\ (byte \div 128) % 2 = d7
  OBVIOUS
<1>. QED
  BY <1>1, <1>2, <1>3, <1>4, <1>5

\* The weights of the bits, for the codec and for a device.
LEMMA Weights ==
  /\ M!Weight(0) = 1 /\ M!Weight(1) = 2 /\ M!Weight(2) = 4 /\ M!Weight(3) = 8
  /\ M!Weight(4) = 16 /\ M!Weight(5) = 32 /\ M!Weight(6) = 64 /\ M!Weight(7) = 128
  BY DEF M!Weight

\* What a device finds set.
LEMMA SetBits ==
  ASSUME NEW byte
  PROVE  /\ IsSet(byte, 0) <=> (byte \div 1) % 2 = 1
         /\ IsSet(byte, 1) <=> (byte \div 2) % 2 = 1
         /\ IsSet(byte, 2) <=> (byte \div 4) % 2 = 1
         /\ IsSet(byte, 3) <=> (byte \div 8) % 2 = 1
         /\ IsSet(byte, 4) <=> (byte \div 16) % 2 = 1
         /\ IsSet(byte, 5) <=> (byte \div 32) % 2 = 1
         /\ IsSet(byte, 6) <=> (byte \div 64) % 2 = 1
         /\ IsSet(byte, 7) <=> (byte \div 128) % 2 = 1
  BY DEF IsSet

\* The numbers of the bits of a byte.
BitNumbers == 0 .. 7

\* The bits of a byte that is put together from eight conditions.
LEMMA Packed ==
  ASSUME NEW x \in [BitNumbers -> BOOLEAN]
  PROVE  LET digit(n) == IF x[n] THEN M!Weight(n) ELSE 0
             byte == digit(0) + digit(1) + digit(2) + digit(3)
                       + digit(4) + digit(5) + digit(6) + digit(7)
         IN  byte \in Byte /\ \A n \in BitNumbers : IsSet(byte, n) <=> x[n]
<1>. DEFINE digit(n) == IF x[n] THEN M!Weight(n) ELSE 0
            byte == digit(0) + digit(1) + digit(2) + digit(3)
                      + digit(4) + digit(5) + digit(6) + digit(7)
            one(n) == IF x[n] THEN 1 ELSE 0
            sum == one(0) + 2 * one(1) + 4 * one(2) + 8 * one(3)
                     + 16 * one(4) + 32 * one(5) + 64 * one(6) + 128 * one(7)
<1>1. /\ digit(0) = one(0) /\ digit(1) = 2 * one(1) /\ digit(2) = 4 * one(2)
      /\ digit(3) = 8 * one(3) /\ digit(4) = 16 * one(4) /\ digit(5) = 32 * one(5)
      /\ digit(6) = 64 * one(6) /\ digit(7) = 128 * one(7)
  BY Weights
<1>2. \A n \in BitNumbers : one(n) \in {0, 1} /\ (one(n) = 1 <=> x[n])
  OBVIOUS
<1>3. 0 \in BitNumbers /\ 1 \in BitNumbers /\ 2 \in BitNumbers /\ 3 \in BitNumbers
      /\ 4 \in BitNumbers /\ 5 \in BitNumbers /\ 6 \in BitNumbers /\ 7 \in BitNumbers
      /\ \A n \in BitNumbers :
           n = 0 \/ n = 1 \/ n = 2 \/ n = 3 \/ n = 4 \/ n = 5 \/ n = 6 \/ n = 7
  BY DEF BitNumbers
<1>4. byte = sum
  <2>. HIDE DEF digit, one
  <2>. QED
    BY <1>1
<1>. HIDE DEF digit, one, byte
<1>5. /\ sum \in Byte
      /\ (sum \div 1) % 2 = one(0) /\ (sum \div 2) % 2 = one(1)
      /\ (sum \div 4) % 2 = one(2) /\ (sum \div 8) % 2 = one(3)
      /\ (sum \div 16) % 2 = one(4) /\ (sum \div 32) % 2 = one(5)
      /\ (sum \div 64) % 2 = one(6) /\ (sum \div 128) % 2 = one(7)
  BY <1>2, <1>3, Digits
<1>. HIDE DEF sum
<1>6. /\ IsSet(sum, 0) <=> x[0]
      /\ IsSet(sum, 1) <=> x[1]
      /\ IsSet(sum, 2) <=> x[2]
      /\ IsSet(sum, 3) <=> x[3]
      /\ IsSet(sum, 4) <=> x[4]
      /\ IsSet(sum, 5) <=> x[5]
      /\ IsSet(sum, 6) <=> x[6]
      /\ IsSet(sum, 7) <=> x[7]
  BY <1>2, <1>3, <1>5, SetBits
<1>7. byte \in Byte /\ \A n \in BitNumbers : IsSet(byte, n) <=> x[n]
  BY <1>3, <1>4, <1>5, <1>6
<1>. QED
  BY <1>7 DEF byte, digit

\* Coil number m, from 0, is there and on.
IsOn(c, m) == m < Len(c) /\ c[m + 1]

\* Coils as bytes: coil n is bit n % 8 of byte n \div 8, and the last byte is padded.
HoldCoils(bytes, c) ==
  /\ bytes \in Seq(Byte) /\ Len(bytes) = (Len(c) + 7) \div 8
  /\ \A k \in 1 .. Len(bytes) : \A n \in BitNumbers :
       IsSet(bytes[k], n) <=> IsOn(c, 8 * (k - 1) + n)

\* A function on 1 .. n is a sequence of that length.
LEMMA FunctionIsSequence ==
  ASSUME NEW S, NEW n \in Nat, NEW f \in [1 .. n -> S]
  PROVE  f \in Seq(S) /\ Len(f) = n
<1>1. f \in Seq(S)
  BY SeqDef
<1>2. DOMAIN f = 1 .. n /\ DOMAIN f = 1 .. Len(f) /\ Len(f) \in Nat
  BY <1>1
<1>. QED
  BY <1>1, <1>2

\* The codec packs the coils of a byte.
PackedByte(c, k) ==
  LET digit(n) == IF IsOn(c, 8 * k + n) THEN M!Weight(n) ELSE 0
  IN  digit(0) + digit(1) + digit(2) + digit(3) + digit(4) + digit(5) + digit(6) + digit(7)

\* Its bits are those coils.
LEMMA PackedByteFacts ==
  ASSUME NEW c \in Seq(BOOLEAN), NEW k \in Nat
  PROVE  /\ PackedByte(c, k) \in Byte
         /\ \A n \in BitNumbers : IsSet(PackedByte(c, k), n) <=> IsOn(c, 8 * k + n)
<1>. DEFINE x == [n \in BitNumbers |-> IsOn(c, 8 * k + n)]
            digit(n) == IF x[n] THEN M!Weight(n) ELSE 0
            byte == digit(0) + digit(1) + digit(2) + digit(3)
                      + digit(4) + digit(5) + digit(6) + digit(7)
<1>1. \A n \in BitNumbers : IsOn(c, 8 * k + n) \in BOOLEAN
  <2>. TAKE n \in BitNumbers
  <2>1. 8 * k + n \in Nat /\ Len(c) \in Nat
    BY DEF BitNumbers
  <2>2. CASE 8 * k + n < Len(c)
    <3>1. (8 * k + n) + 1 \in 1 .. Len(c)
      BY <2>1, <2>2
    <3>. QED
      BY <3>1 DEF IsOn
  <2>. QED
    BY <2>2 DEF IsOn
<1>2. x \in [BitNumbers -> BOOLEAN] /\ \A n \in BitNumbers : x[n] = IsOn(c, 8 * k + n)
  BY <1>1
<1>3. 0 \in BitNumbers /\ 1 \in BitNumbers /\ 2 \in BitNumbers /\ 3 \in BitNumbers
      /\ 4 \in BitNumbers /\ 5 \in BitNumbers /\ 6 \in BitNumbers /\ 7 \in BitNumbers
  BY DEF BitNumbers
<1>. HIDE DEF x
<1>4. byte \in Byte /\ \A n \in BitNumbers : IsSet(byte, n) <=> x[n]
  BY <1>2, Packed
<1>5. byte = PackedByte(c, k)
  BY <1>2, <1>3 DEF PackedByte
<1>. HIDE DEF byte
<1>. QED
  BY <1>2, <1>4, <1>5

\* The codec makes such bytes of coils.
LEMMA EncodedCoils ==
  ASSUME NEW c \in Seq(BOOLEAN)
  PROVE  HoldCoils(M!packBits(c), c)
<1>. DEFINE bytes == M!packBits(c)
            n == (Len(c) + 7) \div 8
<1>1. n \in Nat
  OBVIOUS
<1>2. bytes = [k \in 1 .. n |-> PackedByte(c, k - 1)]
  BY DEF M!packBits, PackedByte, IsOn
<1>. HIDE DEF bytes, n
<1>3. \A k \in 1 .. n : /\ PackedByte(c, k - 1) \in Byte
                        /\ \A m \in BitNumbers :
                             IsSet(PackedByte(c, k - 1), m) <=> IsOn(c, 8 * (k - 1) + m)
  <2>. TAKE k \in 1 .. n
  <2>1. k - 1 \in Nat
    BY <1>1
  <2>. QED
    BY <2>1, PackedByteFacts
<1>4. bytes \in [1 .. n -> Byte]
  BY <1>2, <1>3
<1>5. bytes \in Seq(Byte) /\ Len(bytes) = n
  BY <1>1, <1>4, FunctionIsSequence
<1>6. \A k \in 1 .. n : bytes[k] = PackedByte(c, k - 1)
  BY <1>2
<1>7. n = (Len(c) + 7) \div 8
  BY DEF n
<1>8. HoldCoils(bytes, c)
  BY <1>3, <1>5, <1>6, <1>7 DEF HoldCoils
<1>. QED
  BY <1>8 DEF bytes

\* A coil is found in its byte.
LEMMA CoilIsHeld ==
  ASSUME NEW c \in Seq(BOOLEAN), NEW bytes, HoldCoils(bytes, c), NEW i \in 1 .. 8 * Len(bytes)
  PROVE  /\ (i - 1) \div 8 \in Nat /\ 1 + ((i - 1) \div 8) \in 1 .. Len(bytes)
         /\ (i - 1) % 8 \in BitNumbers
         /\ IsSet(bytes[1 + ((i - 1) \div 8)], (i - 1) % 8) <=> i <= Len(c) /\ c[i]
<1>. DEFINE q == (i - 1) \div 8
            r == (i - 1) % 8
<1>1. Len(bytes) \in Nat
  BY DEF HoldCoils
<1>2. q \in Nat /\ 1 + q \in 1 .. Len(bytes) /\ r \in 0 .. 7 /\ i - 1 = 8 * q + r
  BY <1>1
<1>. HIDE DEF q, r
<1>3. r \in BitNumbers
  BY <1>2 DEF BitNumbers
<1>4. IsSet(bytes[1 + q], r) <=> IsOn(c, 8 * ((1 + q) - 1) + r)
  BY <1>2, <1>3 DEF HoldCoils
<1>5. 8 * ((1 + q) - 1) + r = i - 1
  BY <1>2
<1>6. IsOn(c, i - 1) <=> i <= Len(c) /\ c[i]
  <2>1. (i - 1) + 1 = i /\ (i - 1 < Len(c) <=> i <= Len(c))
    OBVIOUS
  <2>. QED
    BY <2>1 DEF IsOn
<1>. QED
  BY <1>2, <1>3, <1>4, <1>5, <1>6 DEF q, r

\* A device reads the coils it was sent.
LEMMA CoilsAreRead ==
  ASSUME NEW id \in Word, NEW a \in Word, NEW c \in Seq(BOOLEAN), (Len(c) + 7) \div 8 \in Byte
  PROVE  DeviceReads(M!encodeWriteMultipleCoilsRequest(id, 1, a, c)) = <<id, 15, a, c, TRUE>>
<1>. DEFINE bytes == M!packBits(c)
            b == M!BlockRequest(id, 1, 15, a, Len(c), bytes)
<1>1. HoldCoils(bytes, c)
  BY EncodedCoils
<1>2. b = M!encodeWriteMultipleCoilsRequest(id, 1, a, c)
  BY DEF M!encodeWriteMultipleCoilsRequest
<1>. HIDE DEF bytes
<1>3. /\ bytes \in Seq(Byte) /\ Len(bytes) \in Byte /\ Len(c) \in Nat
      /\ Len(bytes) \in Nat /\ Len(c) <= 8 * Len(bytes)
  BY <1>1 DEF HoldCoils
<1>4. Len(c) \in Word /\ 1 \in Byte /\ 15 \in Byte
  BY <1>3 DEF Word, Byte
<1>5. IsBlockFrame(b, id, 15, a, Len(c), bytes)
  <2>1. bytes \in Seq(Byte) /\ Len(bytes) \in Byte
    BY <1>3
  <2>. QED
    BY <1>4, <2>1, BlockFrameFacts
<1>. HIDE DEF b
<1>6. CoilsIn(b, 256 * b[11] + b[12]) = c
  <2>1. \A i \in 1 .. Len(c) : IsSet(b[14 + ((i - 1) \div 8)], (i - 1) % 8) = c[i]
    <3>. TAKE i \in 1 .. Len(c)
    <3>1. i \in 1 .. 8 * Len(bytes) /\ i <= Len(c)
      BY <1>3
    <3>2. /\ (i - 1) \div 8 \in Nat /\ 1 + ((i - 1) \div 8) \in 1 .. Len(bytes)
          /\ IsSet(bytes[1 + ((i - 1) \div 8)], (i - 1) % 8) <=> i <= Len(c) /\ c[i]
      BY <1>1, <3>1, CoilIsHeld
    <3>3. b[13 + (1 + ((i - 1) \div 8))] = bytes[1 + ((i - 1) \div 8)]
      BY <1>5, <3>2 DEF IsBlockFrame
    <3>4. 13 + (1 + ((i - 1) \div 8)) = 14 + ((i - 1) \div 8)
      BY <3>2
    <3>5. c[i] \in BOOLEAN
      OBVIOUS
    <3>6. IsSet(b[14 + ((i - 1) \div 8)], (i - 1) % 8) <=> c[i]
      BY <3>1, <3>2, <3>3, <3>4
    <3>. QED
      BY <3>5, <3>6, Zenon DEF IsSet
  <2>2. 256 * b[11] + b[12] = Len(c)
    BY <1>5 DEF IsBlockFrame
  <2>3. CoilsIn(b, Len(c)) = [i \in 1 .. Len(c) |-> c[i]]
    BY <2>1 DEF CoilsIn
  <2>. QED
    BY <2>2, <2>3
<1>7. DeviceReads(b) = <<id, 15, a, c, TRUE>>
  <2>1. (CASE b[8] = 16 -> RegistersIn(b) [] b[8] = 15 -> CoilsIn(b, 256 * b[11] + b[12])
         [] OTHER -> 256 * b[11] + b[12]) = c
    <3>1. b[8] = 15 /\ b[8] # 16
      BY <1>5 DEF IsBlockFrame
    <3>. QED
      BY <1>6, <3>1, Zenon
  <2>. QED
    BY <1>5, <2>1 DEF DeviceReads, IsBlockFrame
<1>. QED
  BY <1>2, <1>7

-----------------------------------------------------------------------------
(* Modbus replies. *)

\* A piece of a sequence from its start.
LEMMA Piece ==
  ASSUME NEW S, NEW b \in Seq(S), NEW k \in Nat, k <= Len(b)
  PROVE  /\ SubSeq(b, 1, k) \in Seq(S) /\ Len(SubSeq(b, 1, k)) = k
         /\ \A i \in 1 .. k : SubSeq(b, 1, k)[i] = b[i]
<1>1. \A i \in 1 .. k : b[i] \in S
  OBVIOUS
<1>. QED
  BY <1>1, SubSeqProperties

\* What every decoder of a reply looks at first.
LEMMA FrameRead ==
  ASSUME NEW b, NEW id, NEW code \in Byte, NEW body \in Seq(Byte), IsFrame(b, id, code, body)
  PROVE  /\ Len(b) = 8 + Len(body) /\ Len(body) \in Nat
         /\ M!readBigEndian16(b, 4) = 2 + Len(body) /\ M!readBigEndian16(b, 2) = 0
         /\ M!byteAt(b, 7) = code
         /\ \A i \in 1 .. Len(body) : M!byteAt(b, 7 + i) = body[i]
<1>1. \A i \in 1 .. Len(body) : (7 + i) + 1 = 8 + i
  OBVIOUS
<1>. QED
  BY <1>1 DEF IsFrame, M!readBigEndian16, M!byteAt

\* A whole frame of the function that was asked for passes.
LEMMA WholeFrame ==
  ASSUME NEW b, NEW id, NEW fn \in Byte, fn < 128, NEW body \in Seq(Byte),
         IsFrame(b, id, fn, body)
  PROVE  M!Frame(fn, b) = M!Only("Ok")
<1>1. /\ Len(b) = 8 + Len(body) /\ Len(body) \in Nat
      /\ M!readBigEndian16(b, 4) = 2 + Len(body) /\ M!readBigEndian16(b, 2) = 0
      /\ M!byteAt(b, 7) = fn
  BY FrameRead
<1>. QED
  BY <1>1 DEF M!Frame

\* A whole frame with the exception bit is an exception.
LEMMA ExceptionFrame ==
  ASSUME NEW b, NEW id, NEW fn \in Byte, NEW code \in Byte, code >= 128,
         NEW body \in Seq(Byte), Len(body) = 1, IsFrame(b, id, code, body)
  PROVE  M!Frame(fn, b) = [status |-> "Exception", value |-> <<body[1]>>]
<1>1. /\ Len(b) = 8 + Len(body) /\ Len(body) \in Nat
      /\ M!readBigEndian16(b, 4) = 2 + Len(body) /\ M!readBigEndian16(b, 2) = 0
      /\ M!byteAt(b, 7) = code
      /\ \A i \in 1 .. Len(body) : M!byteAt(b, 7 + i) = body[i]
  BY FrameRead
<1>2. M!byteAt(b, 8) = body[1]
  BY <1>1
<1>3. code \in Nat
  BY DEF Byte
<1>. QED
  BY <1>1, <1>2, <1>3 DEF M!Frame

\* A piece of a frame is never more than incomplete.
LEMMA PartOfFrame ==
  ASSUME NEW b, NEW id, NEW code, NEW body \in Seq(Byte), IsFrame(b, id, code, body),
         NEW fn, NEW k \in Nat, k < Len(b)
  PROVE  M!decodeResponse(fn, SubSeq(b, 1, k)).status = "Incomplete"
<1>. DEFINE data == SubSeq(b, 1, k)
<1>1. /\ b \in Seq(Byte) /\ Len(b) = 8 + Len(body) /\ Len(body) \in Nat
      /\ 256 * b[5] + b[6] = 2 + Len(body)
  BY DEF IsFrame
<1>2. Len(data) = k /\ \A i \in 1 .. k : data[i] = b[i]
  <2>1. b \in Seq(Byte) /\ k <= Len(b)
    BY <1>1
  <2>. QED
    BY <2>1, Piece, Zenon
<1>. HIDE DEF data
<1>3. M!Frame(fn, data) = M!Only("Incomplete")
  <2>1. CASE k < 8
    BY <1>2, <2>1 DEF M!Frame
  <2>2. CASE k >= 8
    <3>1. M!readBigEndian16(data, 4) = 2 + Len(body)
      <4>1. data[5] = b[5] /\ data[6] = b[6]
        BY <1>2, <2>2
      <4>. QED
        BY <1>1, <4>1 DEF M!readBigEndian16, M!byteAt
    <3>. QED
      BY <1>1, <1>2, <2>2, <3>1 DEF M!Frame
  <2>. QED
    BY <2>1, <2>2
<1>4. M!Only("Incomplete").status = "Incomplete"
  BY DEF M!Only
<1>5. M!decodeResponse(fn, data) = M!Frame(fn, data)
  BY <1>3, <1>4 DEF M!decodeResponse, M!decodeRegisters, M!decodeBits, M!decodeEcho
<1>6. M!decodeResponse(fn, data).status = "Incomplete"
  BY <1>3, <1>4, <1>5
<1>. QED
  BY <1>6 DEF data

\* A count and that many bytes are bytes.
LEMMA CountedFacts ==
  ASSUME NEW bytes \in Seq(Byte), Len(bytes) \in Byte
  PROVE  /\ Counted(bytes) \in Seq(Byte) /\ Len(Counted(bytes)) = 1 + Len(bytes)
         /\ Counted(bytes)[1] = Len(bytes)
         /\ \A i \in 1 .. Len(bytes) : Counted(bytes)[1 + i] = bytes[i]
<1>. DEFINE s == <<Len(bytes)>>
            t == s \o bytes
<1>1. s \in Seq(Byte) /\ Len(s) = 1 /\ s[1] = Len(bytes)
  OBVIOUS
<1>2. t = Counted(bytes)
  BY DEF Counted
<1>. HIDE DEF s
<1>3. /\ t \in Seq(Byte) /\ Len(t) = Len(s) + Len(bytes)
      /\ \A i \in 1 .. Len(s) : t[i] = s[i]
      /\ \A i \in 1 .. Len(bytes) : t[Len(s) + i] = bytes[i]
  BY <1>1, JoinedBytes, Zenon
<1>. HIDE DEF t
<1>4. t[1] = Len(bytes)
  BY <1>1, <1>3
<1>5. /\ t \in Seq(Byte) /\ Len(t) = 1 + Len(bytes) /\ t[1] = Len(bytes)
      /\ \A i \in 1 .. Len(bytes) : t[1 + i] = bytes[i]
  BY <1>1, <1>3, <1>4
<1>. QED
  BY <1>2, <1>5

\* They fit into a frame.
LEMMA CountedInFrame ==
  ASSUME NEW bytes \in Seq(Byte), Len(bytes) \in Byte
  PROVE  Counted(bytes) \in Seq(Byte) /\ 2 + Len(Counted(bytes)) \in Word
<1>1. Counted(bytes) \in Seq(Byte) /\ Len(Counted(bytes)) = 1 + Len(bytes)
  BY CountedFacts
<1>2. 2 + (1 + Len(bytes)) \in Word
  BY DEF Word, Byte
<1>. QED
  BY <1>1, <1>2

\* The decoders of the reads find the bytes that were counted.
LEMMA CountedFrame ==
  ASSUME NEW b, NEW id, NEW fn \in Byte, fn < 128, NEW bytes \in Seq(Byte), Len(bytes) \in Byte,
         IsFrame(b, id, fn, Counted(bytes))
  PROVE  /\ M!Frame(fn, b) = M!Only("Ok") /\ M!Frame(fn, b).status = "Ok"
         /\ M!Counted(b) /\ M!byteAt(b, 8) = Len(bytes)
         /\ \A i \in 1 .. Len(bytes) : M!byteAt(b, 8 + i) = bytes[i]
<1>. DEFINE body == Counted(bytes)
<1>1. /\ body \in Seq(Byte) /\ Len(body) = 1 + Len(bytes) /\ body[1] = Len(bytes)
      /\ \A i \in 1 .. Len(bytes) : body[1 + i] = bytes[i]
  BY CountedFacts
<1>. HIDE DEF body
<1>2. IsFrame(b, id, fn, body) /\ body \in Seq(Byte)
  BY <1>1 DEF body
<1>3. M!Frame(fn, b) = M!Only("Ok")
  BY <1>2, WholeFrame
<1>4. /\ Len(body) \in Nat /\ M!readBigEndian16(b, 4) = 2 + Len(body)
      /\ \A i \in 1 .. Len(body) : M!byteAt(b, 7 + i) = body[i]
  BY <1>2, FrameRead
<1>5. Len(bytes) \in Nat
  OBVIOUS
<1>6. M!byteAt(b, 8) = Len(bytes)
  BY <1>1, <1>4, <1>5
<1>7. M!Counted(b)
  BY <1>1, <1>4, <1>5, <1>6 DEF M!Counted
<1>8. ASSUME NEW i \in 1 .. Len(bytes)
      PROVE  M!byteAt(b, 8 + i) = bytes[i]
  <2>1. 1 + i \in 1 .. Len(body) /\ 7 + (1 + i) = 8 + i
    BY <1>1, <1>5
  <2>. QED
    BY <1>1, <1>4, <2>1
<1>9. M!Only("Ok").status = "Ok"
  BY DEF M!Only
<1>. QED
  BY <1>3, <1>6, <1>7, <1>8, <1>9

\* A device's bytes are those of its registers.
LEMMA SentRegisters ==
  ASSUME NEW r \in Seq(Word)
  PROVE  AreWordBytes(RegisterBytes(r), r)
<1>. DEFINE bytes == RegisterBytes(r)
<1>1. /\ bytes = [i \in 1 .. 2 * Len(r) |-> bytes[i]]
      /\ \A i \in 1 .. 2 * Len(r) :
           bytes[i] = IF i % 2 = 1 THEN High(r[(i + 1) \div 2]) ELSE Low(r[i \div 2])
  BY DEF RegisterBytes
<1>. HIDE DEF bytes
<1>2. AreWordBytes(bytes, r)
  BY <1>1, WordBytesFacts
<1>. QED
  BY <1>2 DEF bytes

\* Registers are decoded to what they were.
LEMMA RegistersDecoded ==
  ASSUME NEW b, NEW id, NEW fn \in M!RegisterReads, NEW r \in Seq(Word), 2 * Len(r) \in Byte,
         IsFrame(b, id, fn, Counted(RegisterBytes(r)))
  PROVE  M!decodeResponse(fn, b) = [status |-> "Ok", value |-> r]
<1>. DEFINE bytes == RegisterBytes(r)
<1>1. AreWordBytes(bytes, r)
  BY SentRegisters
<1>2. /\ bytes \in Seq(Byte) /\ Len(bytes) = 2 * Len(r) /\ Len(bytes) \in Byte /\ Len(r) \in Nat
      /\ IsFrame(b, id, fn, Counted(bytes))
  BY <1>1 DEF AreWordBytes
<1>3. fn \in Byte /\ fn < 128
  BY DEF M!RegisterReads, Byte
<1>. HIDE DEF bytes
<1>4. /\ M!Frame(fn, b).status = "Ok" /\ M!Counted(b) /\ M!byteAt(b, 8) = Len(bytes)
      /\ \A i \in 1 .. Len(bytes) : M!byteAt(b, 8 + i) = bytes[i]
  BY <1>2, <1>3, CountedFrame
<1>5. M!byteAt(b, 8) % 2 = 0 /\ M!byteAt(b, 8) \div 2 = Len(r)
  BY <1>2, <1>4
<1>6. \A i \in 1 .. Len(r) : M!readBigEndian16(b, 7 + 2 * i) = r[i]
  <2>. TAKE i \in 1 .. Len(r)
  <2>1. /\ 2 * i - 1 \in 1 .. Len(bytes) /\ 2 * i \in 1 .. Len(bytes)
        /\ 8 + (2 * i - 1) = 7 + 2 * i /\ 8 + 2 * i = (7 + 2 * i) + 1
    BY <1>2
  <2>2. M!byteAt(b, 7 + 2 * i) = High(r[i]) /\ M!byteAt(b, (7 + 2 * i) + 1) = Low(r[i])
    BY <1>1, <1>4, <2>1 DEF AreWordBytes
  <2>3. r[i] \in Word
    OBVIOUS
  <2>. QED
    BY <2>2, <2>3, BigEndianFacts DEF M!readBigEndian16
<1>7. M!decodeRegisters(fn, b) = [status |-> "Ok", value |-> [i \in 1 .. Len(r) |-> r[i]]]
  BY <1>4, <1>5, <1>6 DEF M!decodeRegisters
<1>8. r = [i \in 1 .. Len(r) |-> r[i]]
  OBVIOUS
<1>. QED
  BY <1>7, <1>8 DEF M!decodeResponse

\* A device's bytes hold its coils: such bytes exist, since the codec makes them.
LEMMA BitsHoldCoils ==
  ASSUME NEW c \in Seq(BOOLEAN)
  PROVE  HoldCoils(Bits(c), c)
<1>. DEFINE bytes == Bits(c)
            size == (Len(c) + 7) \div 8
            fits(byte, k) == \A n \in 0 .. 7 :
                               LET coil == 8 * (k - 1) + n IN
                               IsSet(byte, n) <=> coil < Len(c) /\ c[coil + 1]
<1>1. size \in Nat
  OBVIOUS
<1>2. bytes = [k \in 1 .. size |-> CHOOSE byte \in 0 .. 255 : fits(byte, k)]
  BY DEF Bits
<1>3. ASSUME NEW k \in 1 .. size
      PROVE  \E byte \in 0 .. 255 : fits(byte, k)
  <2>. DEFINE byte == PackedByte(c, k - 1)
  <2>1. k - 1 \in Nat
    BY <1>1
  <2>2. byte \in Byte /\ \A n \in BitNumbers : IsSet(byte, n) <=> IsOn(c, 8 * (k - 1) + n)
    BY <2>1, PackedByteFacts
  <2>. HIDE DEF byte
  <2>3. byte \in 0 .. 255
    BY <2>2 DEF Byte
  <2>4. fits(byte, k)
    BY <2>2 DEF BitNumbers, IsOn
  <2>. HIDE DEF fits
  <2>. QED
    BY <2>3, <2>4, Zenon
<1>4. \A k \in 1 .. size : \A byte : fits(byte, k) =>
        \A n \in BitNumbers : IsSet(byte, n) <=> IsOn(c, 8 * (k - 1) + n)
  BY DEF BitNumbers, IsOn
<1>. HIDE DEF fits, size, bytes
<1>5. \A k \in 1 .. size : bytes[k] \in 0 .. 255 /\ fits(bytes[k], k)
  BY <1>2, <1>3, Zenon
<1>6. \A n \in 0 .. 255 : n \in Byte
  BY DEF Byte
<1>7. bytes \in [1 .. size -> Byte]
  BY <1>2, <1>5, <1>6, Zenon
<1>8. bytes \in Seq(Byte) /\ Len(bytes) = size
  BY <1>1, <1>7, FunctionIsSequence
<1>9. size = (Len(c) + 7) \div 8
  BY DEF size
<1>10. HoldCoils(bytes, c)
  BY <1>4, <1>5, <1>8, <1>9, Zenon DEF HoldCoils
<1>. QED
  BY <1>10 DEF bytes

\* Coils are decoded to what they were, and the padding to coils that are off.
LEMMA BitsDecoded ==
  ASSUME NEW b, NEW id, NEW fn \in M!BitReads, NEW c \in Seq(BOOLEAN),
         (Len(c) + 7) \div 8 \in Byte, IsFrame(b, id, fn, Counted(Bits(c)))
  PROVE  M!decodeResponse(fn, b)
           = [status |-> "Ok", value |-> [i \in 1 .. 8 * Len(Bits(c)) |-> i <= Len(c) /\ c[i]]]
<1>. DEFINE bytes == Bits(c)
<1>1. HoldCoils(bytes, c) /\ IsFrame(b, id, fn, Counted(bytes))
  BY BitsHoldCoils
<1>. HIDE DEF bytes
<1>2. /\ bytes \in Seq(Byte) /\ Len(bytes) \in Byte
  BY <1>1 DEF HoldCoils
<1>3. fn \in Byte /\ fn < 128 /\ fn \notin M!RegisterReads
  BY DEF M!BitReads, M!RegisterReads, Byte
<1>4. /\ M!Frame(fn, b).status = "Ok" /\ M!Counted(b) /\ M!byteAt(b, 8) = Len(bytes)
      /\ \A i \in 1 .. Len(bytes) : M!byteAt(b, 8 + i) = bytes[i]
  BY <1>1, <1>2, <1>3, CountedFrame
<1>5. \A i \in 1 .. 8 * Len(bytes) :
        ((M!byteAt(b, 9 + ((i - 1) \div 8)) \div M!Weight((i - 1) % 8)) % 2 = 1)
          = (i <= Len(c) /\ c[i])
  <2>. TAKE i \in 1 .. 8 * Len(bytes)
  <2>1. /\ (i - 1) \div 8 \in Nat /\ 1 + ((i - 1) \div 8) \in 1 .. Len(bytes)
        /\ IsSet(bytes[1 + ((i - 1) \div 8)], (i - 1) % 8) <=> i <= Len(c) /\ c[i]
    BY <1>1, CoilIsHeld
  <2>2. 8 + (1 + ((i - 1) \div 8)) = 9 + ((i - 1) \div 8)
    BY <2>1
  <2>3. M!byteAt(b, 9 + ((i - 1) \div 8)) = bytes[1 + ((i - 1) \div 8)]
    BY <1>4, <2>1, <2>2
  <2>. QED
    BY <2>1, <2>3, Zenon DEF IsSet, M!Weight
<1>6. M!unpackBits(b, 9, Len(bytes)) = [i \in 1 .. 8 * Len(bytes) |-> i <= Len(c) /\ c[i]]
  BY <1>5, Zenon DEF M!unpackBits
<1>7. M!decodeResponse(fn, b)
        = [status |-> "Ok", value |-> [i \in 1 .. 8 * Len(bytes) |-> i <= Len(c) /\ c[i]]]
  BY <1>3, <1>4, <1>6 DEF M!decodeResponse, M!decodeBits, M!BitReads
<1>. QED
  BY <1>7 DEF bytes

\* An echo is decoded to the address and the word.
LEMMA EchoDecoded ==
  ASSUME NEW b, NEW id, NEW fn \in M!SingleWrites \cup M!BlockWrites,
         NEW a \in Word, NEW w \in Word,
         IsFrame(b, id, fn, <<High(a), Low(a), High(w), Low(w)>>)
  PROVE  M!decodeResponse(fn, b)
           = [status |-> "Ok", value |-> <<a, IF fn = 5 THEN w = 65280 ELSE w>>]
<1>. DEFINE body == <<High(a), Low(a), High(w), Low(w)>>
<1>1. /\ High(a) \in Byte /\ Low(a) \in Byte /\ 256 * High(a) + Low(a) = a
      /\ High(w) \in Byte /\ Low(w) \in Byte /\ 256 * High(w) + Low(w) = w
  BY BigEndianFacts
<1>2. /\ body \in Seq(Byte) /\ Len(body) = 4 /\ body[1] = High(a) /\ body[2] = Low(a)
      /\ body[3] = High(w) /\ body[4] = Low(w)
  BY <1>1
<1>. HIDE DEF body
<1>3. IsFrame(b, id, fn, body) /\ body \in Seq(Byte)
  BY <1>2 DEF body
<1>4. fn \in Byte /\ fn < 128 /\ fn \notin M!RegisterReads /\ fn \notin M!BitReads
  BY DEF M!SingleWrites, M!BlockWrites, M!BitReads, M!RegisterReads, Byte
<1>5. M!Frame(fn, b) = M!Only("Ok")
  BY <1>3, <1>4, WholeFrame
<1>6. /\ M!readBigEndian16(b, 4) = 2 + Len(body)
      /\ \A i \in 1 .. Len(body) : M!byteAt(b, 7 + i) = body[i]
  BY <1>3, <1>4, FrameRead
<1>7. /\ M!byteAt(b, 8) = High(a) /\ M!byteAt(b, 9) = Low(a)
      /\ M!byteAt(b, 10) = High(w) /\ M!byteAt(b, 11) = Low(w)
  BY <1>2, <1>6
<1>8. M!readBigEndian16(b, 8) = a /\ M!readBigEndian16(b, 10) = w
  BY <1>1, <1>7 DEF M!readBigEndian16
<1>9. M!readBigEndian16(b, 4) = 6 /\ M!Frame(fn, b).status = "Ok"
  BY <1>2, <1>5, <1>6 DEF M!Only
<1>. QED
  BY <1>4, <1>8, <1>9 DEF M!decodeResponse, M!decodeEcho

\* An exception is decoded to its code, whatever was asked for.
LEMMA ExceptionDecoded ==
  ASSUME NEW b, NEW id, NEW fn \in 1 .. 6, NEW code \in 1 .. 4,
         IsFrame(b, id, 128 + fn, <<code>>)
  PROVE  M!decodeResponse(fn, b) = [status |-> "Exception", value |-> <<code>>]
<1>. DEFINE body == <<code>>
<1>1. body \in Seq(Byte) /\ Len(body) = 1 /\ body[1] = code /\ fn \in Byte
      /\ 128 + fn \in Byte /\ 128 + fn >= 128
  BY DEF Byte
<1>2. IsFrame(b, id, 128 + fn, body)
  OBVIOUS
<1>. HIDE DEF body
<1>3. M!Frame(fn, b) = [status |-> "Exception", value |-> <<body[1]>>]
  BY <1>1, <1>2, ExceptionFrame
<1>4. M!Frame(fn, b) = [status |-> "Exception", value |-> <<code>>]
  BY <1>1, <1>3
<1>5. M!Frame(fn, b).status # "Ok"
  BY <1>4
<1>6. M!decodeResponse(fn, b) = M!Frame(fn, b)
  BY <1>5 DEF M!decodeResponse, M!decodeRegisters, M!decodeBits, M!decodeEcho
<1>. QED
  BY <1>4, <1>6

-----------------------------------------------------------------------------
(* What is put on the line. *)

\* The lists of registers fit a block.
LEMMA RegisterListFacts ==
  ASSUME NEW r \in RegisterLists
  PROVE  r \in Seq(Word) /\ 2 * Len(r) \in Byte
<1>1. Words \subseteq Word /\ MaxBlock \in Nat /\ 2 * MaxBlock \in Byte
  BY CodecAssumption
<1>2. ASSUME NEW w \in Words, r = <<w>>
      PROVE  r \in Seq(Word) /\ 2 * Len(r) \in Byte
  <2>1. w \in Word
    BY <1>1
  <2>2. <<w>> \in Seq(Word) /\ Len(<<w>>) = 1
    BY <2>1
  <2>3. 2 * 1 \in Byte
    BY DEF Byte
  <2>. QED
    BY <1>2, <2>2, <2>3
<1>3. ASSUME NEW v \in Words, NEW w \in Words, r = <<v, w>>
      PROVE  r \in Seq(Word) /\ 2 * Len(r) \in Byte
  <2>1. v \in Word /\ w \in Word
    BY <1>1
  <2>2. <<v, w>> \in Seq(Word) /\ Len(<<v, w>>) = 2
    BY <2>1
  <2>3. 2 * 2 \in Byte
    BY DEF Byte
  <2>. QED
    BY <1>3, <2>2, <2>3
<1>4. ASSUME r = [i \in 1 .. MaxBlock |-> (i * 521) % 65536]
      PROVE  r \in Seq(Word) /\ 2 * Len(r) \in Byte
  <2>1. \A i \in 1 .. MaxBlock : (i * 521) % 65536 \in Word
    BY <1>1 DEF Word
  <2>2. r \in [1 .. MaxBlock -> Word]
    BY <1>4, <2>1
  <2>3. r \in Seq(Word) /\ Len(r) = MaxBlock
    BY <1>1, <2>2, FunctionIsSequence
  <2>. QED
    BY <1>1, <2>3
<1>. QED
  BY <1>2, <1>3, <1>4 DEF RegisterLists

\* So do the lists of coils.
LEMMA CoilListFacts ==
  ASSUME NEW c \in CoilLists
  PROVE  c \in Seq(BOOLEAN) /\ (Len(c) + 7) \div 8 \in Byte
<1>1. PICK n \in {1, 7, 8, 9, MaxCoils} :
        c = [i \in 1 .. n |-> i = n] \/ c = [i \in 1 .. n |-> i % 3 # 0]
  BY DEF CoilLists
<1>2. n \in Nat /\ (n + 7) \div 8 \in Byte
  BY CodecAssumption DEF Byte
<1>3. c \in [1 .. n -> BOOLEAN]
  BY <1>1
<1>4. c \in Seq(BOOLEAN) /\ Len(c) = n
  BY <1>2, <1>3, FunctionIsSequence
<1>. QED
  BY <1>2, <1>4

-----------------------------------------------------------------------------
(* The checksum of the C3 codec. *)

\* A bit that is turned over twice is as it was, and the bits of a word stay in it.
LEMMA Flips ==
  ASSUME NEW v \in Word
  PROVE  /\ C!Flip(v, 1) \in Word /\ C!Flip(C!Flip(v, 1), 1) = v
         /\ C!Flip(v, 8192) \in Word /\ C!Flip(C!Flip(v, 8192), 8192) = v
         /\ C!Flip(v, 1) >= 32768 <=> v >= 32768
         /\ C!Flip(v, 8192) >= 32768 <=> v >= 32768
<1>1. /\ C!Flip(v, 1) \in Word /\ C!Flip(C!Flip(v, 1), 1) = v
      /\ C!Flip(v, 1) >= 32768 <=> v >= 32768
  BY DEF C!Flip, Word
<1>2. C!Flip(v, 8192) \in Word /\ (C!Flip(v, 8192) >= 32768 <=> v >= 32768)
  BY DEF C!Flip, Word
<1>3. C!Flip(C!Flip(v, 8192), 8192) = v
  BY DEF C!Flip, Word
<1>. QED
  BY <1>1, <1>2, <1>3

\* One step of the checksum loses nothing.
LEMMA CrcBitFacts ==
  /\ \A c \in Word : C!CrcBit(c) \in Word
  /\ \A c, d \in Word : C!CrcBit(c) = C!CrcBit(d) => c = d
<1>. DEFINE top(c) == c \div 2 + 32768
            odd(c) == C!Flip(C!Flip(top(c), 8192), 1)
<1>1. \A c \in Word : top(c) \in Word /\ top(c) >= 32768 /\ C!Flip(c \div 2, 32768) = top(c)
  BY DEF Word, C!Flip
<1>2. \A c \in Word : C!CrcBit(c) = IF c % 2 = 1 THEN odd(c) ELSE c \div 2
  BY <1>1 DEF C!CrcBit
<1>3. \A c \in Word : c \div 2 \in Word /\ c \div 2 < 32768
  BY DEF Word
<1>. HIDE DEF top
<1>4. \A c \in Word : odd(c) \in Word /\ odd(c) >= 32768
  <2>. TAKE c \in Word
  <2>1. C!Flip(top(c), 8192) \in Word /\ C!Flip(top(c), 8192) >= 32768
    BY <1>1, Flips
  <2>. QED
    BY <2>1, Flips
<1>5. \A c, d \in Word : odd(c) = odd(d) => top(c) = top(d)
  <2>. TAKE c, d \in Word
  <2>. DEFINE u == C!Flip(top(c), 8192)
              v == C!Flip(top(d), 8192)
  <2>1. /\ u \in Word /\ v \in Word
        /\ C!Flip(u, 8192) = top(c) /\ C!Flip(v, 8192) = top(d)
    BY <1>1, Flips
  <2>2. odd(c) = C!Flip(u, 1) /\ odd(d) = C!Flip(v, 1)
    OBVIOUS
  <2>. HIDE DEF u, v
  <2>3. C!Flip(C!Flip(u, 1), 1) = u /\ C!Flip(C!Flip(v, 1), 1) = v
    BY <2>1, Flips
  <2>. HIDE DEF odd
  <2>. QED
    BY <2>1, <2>2, <2>3
<1>. HIDE DEF odd
<1>6. \A c, d \in Word : top(c) = top(d) /\ c % 2 = 1 /\ d % 2 = 1 => c = d
  BY DEF top, Word
<1>7. \A c, d \in Word : c \div 2 = d \div 2 /\ c % 2 # 1 /\ d % 2 # 1 => c = d
  BY DEF Word
<1>8. ASSUME NEW c \in Word, NEW d \in Word, C!CrcBit(c) = C!CrcBit(d)
      PROVE  c = d
  <2>1. CASE c % 2 = 1 /\ d % 2 = 1
    BY <1>2, <1>5, <1>6, <1>8, <2>1
  <2>2. CASE c % 2 # 1 /\ d % 2 # 1
    BY <1>2, <1>7, <1>8, <2>2
  <2>3. CASE (c % 2 = 1 /\ d % 2 # 1) \/ (c % 2 # 1 /\ d % 2 = 1)
    BY <1>2, <1>3, <1>4, <1>8, <2>3 DEF Word
  <2>. QED
    BY <2>1, <2>2, <2>3
<1>9. \A c \in Word : C!CrcBit(c) \in Word
  BY <1>2, <1>3, <1>4
<1>. QED
  BY <1>8, <1>9

\* The digits of the low byte of a word.
LEMMA LowDigits ==
  ASSUME NEW v \in Word
  PROVE  LET d(w) == (v \div w) % 2 IN
         /\ d(1) \in {0, 1} /\ d(2) \in {0, 1} /\ d(4) \in {0, 1} /\ d(8) \in {0, 1}
         /\ d(16) \in {0, 1} /\ d(32) \in {0, 1} /\ d(64) \in {0, 1} /\ d(128) \in {0, 1}
         /\ v = 256 * (v \div 256) + (d(1) + 2 * d(2) + 4 * d(4) + 8 * d(8)
                  + 16 * d(16) + 32 * d(32) + 64 * d(64) + 128 * d(128))
<1>. DEFINE q(w) == v \div w
            d(w) == q(w) % 2
<1>1. v \in Nat
  BY DEF Word
<1>2. /\ q(1) = v /\ q(1) = 2 * q(2) + d(1) /\ d(1) \in {0, 1} /\ q(2) \in Int
      /\ q(2) = 2 * q(4) + d(2) /\ d(2) \in {0, 1} /\ q(4) \in Int
  BY <1>1
<1>3. /\ q(4) = 2 * q(8) + d(4) /\ d(4) \in {0, 1} /\ q(8) \in Int
      /\ q(8) = 2 * q(16) + d(8) /\ d(8) \in {0, 1} /\ q(16) \in Int
  BY <1>1
<1>4. /\ q(16) = 2 * q(32) + d(16) /\ d(16) \in {0, 1} /\ q(32) \in Int
      /\ q(32) = 2 * q(64) + d(32) /\ d(32) \in {0, 1} /\ q(64) \in Int
  BY <1>1
<1>5. /\ q(64) = 2 * q(128) + d(64) /\ d(64) \in {0, 1} /\ q(128) \in Int
      /\ q(128) = 2 * q(256) + d(128) /\ d(128) \in {0, 1} /\ q(256) \in Int
  BY <1>1
<1>. HIDE DEF q, d
<1>6. v = 256 * q(256) + (d(1) + 2 * d(2) + 4 * d(4) + 8 * d(8)
            + 16 * d(16) + 32 * d(32) + 64 * d(64) + 128 * d(128))
  BY <1>2, <1>3, <1>4, <1>5, SMTT(30)
<1>. QED
  BY <1>2, <1>3, <1>4, <1>5, <1>6 DEF q, d

\* The digit of this weight.
Digit(v, w) == (v \div w) % 2

\* The exclusive or of two digits.
Apart(a, b) == IF a = b THEN 0 ELSE 1

\* The digit of this weight in the exclusive or of two numbers.
XorDigit(v, byte, w) == Apart(Digit(v, w), Digit(byte, w))

\* The digits of an exclusive or, as a byte.
XorByte(v, byte) ==
  XorDigit(v, byte, 1) + 2 * XorDigit(v, byte, 2) + 4 * XorDigit(v, byte, 4)
    + 8 * XorDigit(v, byte, 8) + 16 * XorDigit(v, byte, 16) + 32 * XorDigit(v, byte, 32)
    + 64 * XorDigit(v, byte, 64) + 128 * XorDigit(v, byte, 128)

\* Turning over the bits that are set in the byte makes the exclusive or of the digits.
LEMMA XorIsDigits ==
  ASSUME NEW v \in Word, NEW byte \in Byte
  PROVE  C!Xor(v, byte) = 256 * (v \div 256) + XorByte(v, byte)
<1>. DEFINE turned(w) == IF (byte \div w) % 2 = 0 THEN 0 ELSE C!Flip(v, w) - v
            x(w) == XorDigit(v, byte, w)
            d(w) == Digit(v, w)
<1>1. v \in Nat /\ byte \in Nat
  BY DEF Word, Byte
<1>2. /\ d(1) \in {0, 1} /\ d(2) \in {0, 1} /\ d(4) \in {0, 1} /\ d(8) \in {0, 1}
      /\ d(16) \in {0, 1} /\ d(32) \in {0, 1} /\ d(64) \in {0, 1} /\ d(128) \in {0, 1}
      /\ v = 256 * (v \div 256) + (d(1) + 2 * d(2) + 4 * d(4) + 8 * d(8)
               + 16 * d(16) + 32 * d(32) + 64 * d(64) + 128 * d(128))
  BY LowDigits DEF Digit
<1>3. ASSUME NEW w \in {1, 2, 4, 8, 16, 32, 64, 128}
      PROVE  turned(w) = w * x(w) - w * d(w) /\ x(w) \in {0, 1}
  <2>1. d(w) \in {0, 1} /\ Digit(byte, w) \in {0, 1} /\ w \in Nat
    BY <1>1 DEF Digit
  <2>2. C!Flip(v, w) = IF d(w) = 0 THEN v + w ELSE v - w
    BY DEF C!Flip, Digit
  <2>3. turned(w) = IF Digit(byte, w) = 0 THEN 0 ELSE C!Flip(v, w) - v
    BY DEF Digit
  <2>4. x(w) = IF d(w) = Digit(byte, w) THEN 0 ELSE 1
    BY DEF XorDigit, Apart
  <2>. HIDE DEF turned, x, d
  <2>5. CASE Digit(byte, w) = 0
    <3>1. x(w) = d(w) /\ turned(w) = 0
      BY <2>1, <2>3, <2>4, <2>5
    <3>. QED
      BY <2>1, <3>1
  <2>6. CASE Digit(byte, w) = 1 /\ d(w) = 0
    <3>1. x(w) = 1 /\ turned(w) = w
      BY <1>1, <2>1, <2>2, <2>3, <2>4, <2>6
    <3>. QED
      BY <2>1, <2>6, <3>1
  <2>7. CASE Digit(byte, w) = 1 /\ d(w) = 1
    <3>1. x(w) = 0 /\ turned(w) = -w
      BY <1>1, <2>1, <2>2, <2>3, <2>4, <2>7
    <3>. QED
      BY <2>1, <2>7, <3>1
  <2>. QED
    BY <2>1, <2>5, <2>6, <2>7
<1>4. C!Xor(v, byte) = v + turned(1) + turned(2) + turned(4) + turned(8)
                         + turned(16) + turned(32) + turned(64) + turned(128)
  BY DEF C!Xor
<1>5. XorByte(v, byte) = x(1) + 2 * x(2) + 4 * x(4) + 8 * x(8)
                           + 16 * x(16) + 32 * x(32) + 64 * x(64) + 128 * x(128)
  BY DEF XorByte
<1>. HIDE DEF turned, x, d
<1>6. /\ turned(1) = x(1) - d(1) /\ turned(2) = 2 * x(2) - 2 * d(2)
      /\ turned(4) = 4 * x(4) - 4 * d(4) /\ turned(8) = 8 * x(8) - 8 * d(8)
      /\ turned(16) = 16 * x(16) - 16 * d(16) /\ turned(32) = 32 * x(32) - 32 * d(32)
      /\ turned(64) = 64 * x(64) - 64 * d(64) /\ turned(128) = 128 * x(128) - 128 * d(128)
  BY <1>2, <1>3
<1>. DEFINE q == v \div 256
<1>7. /\ q \in Int
      /\ d(1) \in Int /\ d(2) \in Int /\ d(4) \in Int /\ d(8) \in Int
      /\ d(16) \in Int /\ d(32) \in Int /\ d(64) \in Int /\ d(128) \in Int
      /\ x(1) \in Int /\ x(2) \in Int /\ x(4) \in Int /\ x(8) \in Int
      /\ x(16) \in Int /\ x(32) \in Int /\ x(64) \in Int /\ x(128) \in Int
  BY <1>1, <1>2, <1>3
<1>8. v = 256 * q + (d(1) + 2 * d(2) + 4 * d(4) + 8 * d(8)
            + 16 * d(16) + 32 * d(32) + 64 * d(64) + 128 * d(128))
  BY <1>2
<1>. HIDE DEF q
<1>9. v + turned(1) + turned(2) + turned(4) + turned(8)
        + turned(16) + turned(32) + turned(64) + turned(128)
      = 256 * q + (x(1) + 2 * x(2) + 4 * x(4) + 8 * x(8)
                     + 16 * x(16) + 32 * x(32) + 64 * x(64) + 128 * x(128))
  <2>1. PICK q0 \in Int, d0, d1, d2, d3, d4, d5, d6, d7 \in Int :
          /\ q0 = q /\ d0 = d(1) /\ d1 = d(2) /\ d2 = d(4) /\ d3 = d(8)
          /\ d4 = d(16) /\ d5 = d(32) /\ d6 = d(64) /\ d7 = d(128)
    BY <1>7, Zenon
  <2>2. PICK x0, x1, x2, x3, x4, x5, x6, x7 \in Int :
          /\ x0 = x(1) /\ x1 = x(2) /\ x2 = x(4) /\ x3 = x(8)
          /\ x4 = x(16) /\ x5 = x(32) /\ x6 = x(64) /\ x7 = x(128)
    BY <1>7, Zenon
  <2>3. (256 * q0 + (d0 + 2 * d1 + 4 * d2 + 8 * d3 + 16 * d4 + 32 * d5 + 64 * d6 + 128 * d7))
          + (x0 - d0) + (2 * x1 - 2 * d1) + (4 * x2 - 4 * d2) + (8 * x3 - 8 * d3)
          + (16 * x4 - 16 * d4) + (32 * x5 - 32 * d5) + (64 * x6 - 64 * d6) + (128 * x7 - 128 * d7)
        = 256 * q0 + (x0 + 2 * x1 + 4 * x2 + 8 * x3 + 16 * x4 + 32 * x5 + 64 * x6 + 128 * x7)
    OBVIOUS
  <2>. QED
    BY <1>6, <1>8, <2>1, <2>2, <2>3
<1>. QED
  BY <1>4, <1>5, <1>9 DEF q

\* The digits of the exclusive or can be read from it.
LEMMA XorByteDigits ==
  ASSUME NEW v \in Word, NEW byte \in Byte
  PROVE  /\ XorByte(v, byte) \in Byte
         /\ Digit(XorByte(v, byte), 1) = XorDigit(v, byte, 1)
         /\ Digit(XorByte(v, byte), 2) = XorDigit(v, byte, 2)
         /\ Digit(XorByte(v, byte), 4) = XorDigit(v, byte, 4)
         /\ Digit(XorByte(v, byte), 8) = XorDigit(v, byte, 8)
         /\ Digit(XorByte(v, byte), 16) = XorDigit(v, byte, 16)
         /\ Digit(XorByte(v, byte), 32) = XorDigit(v, byte, 32)
         /\ Digit(XorByte(v, byte), 64) = XorDigit(v, byte, 64)
         /\ Digit(XorByte(v, byte), 128) = XorDigit(v, byte, 128)
<1>1. \A w : XorDigit(v, byte, w) \in {0, 1}
  BY DEF XorDigit, Apart
<1>. QED
  BY <1>1, Digits DEF XorByte, Digit

\* The exclusive or with a byte is a word, and loses neither the word nor the byte.
LEMMA XorFacts ==
  /\ \A v \in Word, byte \in Byte : C!Xor(v, byte) \in Word
  /\ \A u, v \in Word, a, b \in Byte :
       C!Xor(u, a) = C!Xor(v, b) /\ (u = v \/ a = b) => u = v /\ a = b
<1>1. ASSUME NEW v \in Word, NEW byte \in Byte
      PROVE  /\ C!Xor(v, byte) \in Word /\ C!Xor(v, byte) \div 256 = v \div 256
             /\ C!Xor(v, byte) % 256 = XorByte(v, byte)
  <2>. DEFINE q == v \div 256
              r == XorByte(v, byte)
  <2>1. q \in Nat /\ q < 256
    BY DEF Word
  <2>2. C!Xor(v, byte) = 256 * q + r /\ r \in Byte
    BY XorIsDigits, XorByteDigits
  <2>. HIDE DEF q, r
  <2>3. (256 * q + r) \div 256 = q /\ (256 * q + r) % 256 = r
    BY <2>1, <2>2, Divided
  <2>4. 256 * q + r \in Word
    BY <2>1, <2>2 DEF Word, Byte
  <2>. QED
    BY <2>2, <2>3, <2>4 DEF q, r
<1>2. \A w \in {1, 2, 4, 8, 16, 32, 64, 128} : \A v \in Nat : Digit(v, w) \in {0, 1}
  BY DEF Digit
<1>3. ASSUME NEW u \in Word, NEW v \in Word, u \div 256 = v \div 256,
             \A w \in {1, 2, 4, 8, 16, 32, 64, 128} : Digit(u, w) = Digit(v, w)
      PROVE  u = v
  <2>1. ASSUME NEW x \in Word
        PROVE  x = 256 * (x \div 256) + (Digit(x, 1) + 2 * Digit(x, 2) + 4 * Digit(x, 4)
                     + 8 * Digit(x, 8) + 16 * Digit(x, 16) + 32 * Digit(x, 32)
                     + 64 * Digit(x, 64) + 128 * Digit(x, 128))
    BY LowDigits DEF Digit
  <2>2. /\ Digit(u, 1) = Digit(v, 1) /\ Digit(u, 2) = Digit(v, 2)
        /\ Digit(u, 4) = Digit(v, 4) /\ Digit(u, 8) = Digit(v, 8)
        /\ Digit(u, 16) = Digit(v, 16) /\ Digit(u, 32) = Digit(v, 32)
        /\ Digit(u, 64) = Digit(v, 64) /\ Digit(u, 128) = Digit(v, 128)
    BY <1>3
  <2>. QED
    BY <1>3, <2>1, <2>2
<1>4. ASSUME NEW u \in Word, NEW v \in Word, NEW a \in Byte, NEW b \in Byte,
             C!Xor(u, a) = C!Xor(v, b), u = v \/ a = b
      PROVE  u = v /\ a = b
  <2>1. u \div 256 = v \div 256 /\ XorByte(u, a) = XorByte(v, b)
    BY <1>1, <1>4
  <2>2. \A w \in {1, 2, 4, 8, 16, 32, 64, 128} : XorDigit(u, a, w) = XorDigit(v, b, w)
    BY <2>1, XorByteDigits
  <2>3. u \in Nat /\ v \in Nat /\ a \in Nat /\ b \in Nat /\ a \in Word /\ b \in Word
        /\ a \div 256 = 0 /\ b \div 256 = 0
    BY DEF Word, Byte
  <2>4. CASE u = v
    <3>1. \A w \in {1, 2, 4, 8, 16, 32, 64, 128} : Digit(a, w) = Digit(b, w)
      BY <1>2, <2>2, <2>3, <2>4 DEF XorDigit, Apart
    <3>. QED
      BY <1>3, <2>3, <2>4, <3>1
  <2>5. CASE a = b
    <3>1. \A w \in {1, 2, 4, 8, 16, 32, 64, 128} : Digit(u, w) = Digit(v, w)
      BY <1>2, <2>2, <2>3, <2>5 DEF XorDigit, Apart
    <3>. QED
      BY <1>3, <2>1, <2>5, <3>1
  <2>. QED
    BY <1>4, <2>4, <2>5
<1>. QED
  BY <1>1, <1>4

\* A byte of the data changes the checksum without losing it, or the byte.
LEMMA CrcByteFacts ==
  /\ \A c \in Word, byte \in Byte : C!CrcByte(c, byte) \in Word
  /\ \A c, d \in Word, a, b \in Byte :
       C!CrcByte(c, a) = C!CrcByte(d, b) /\ (c = d \/ a = b) => c = d /\ a = b
<1>. DEFINE two(c) == C!CrcBit(C!CrcBit(c))
            four(c) == two(two(c))
            eight(c) == four(four(c))
<1>1. \A c, byte : C!CrcByte(c, byte) = eight(C!Xor(c, byte))
  BY DEF C!CrcByte
<1>2. /\ \A c \in Word : two(c) \in Word
      /\ \A c, d \in Word : two(c) = two(d) => c = d
  BY CrcBitFacts
<1>. HIDE DEF two
<1>3. /\ \A c \in Word : four(c) \in Word
      /\ \A c, d \in Word : four(c) = four(d) => c = d
  BY <1>2
<1>. HIDE DEF four
<1>4. /\ \A c \in Word : eight(c) \in Word
      /\ \A c, d \in Word : eight(c) = eight(d) => c = d
  BY <1>3
<1>. HIDE DEF eight
<1>5. \A c \in Word, byte \in Byte : C!CrcByte(c, byte) \in Word
  BY <1>1, <1>4, XorFacts
<1>6. ASSUME NEW c \in Word, NEW d \in Word, NEW a \in Byte, NEW b \in Byte,
             C!CrcByte(c, a) = C!CrcByte(d, b), c = d \/ a = b
      PROVE  c = d /\ a = b
  <2>1. C!Xor(c, a) \in Word /\ C!Xor(d, b) \in Word
    BY XorFacts
  <2>2. C!Xor(c, a) = C!Xor(d, b)
    BY <1>1, <1>4, <1>6, <2>1
  <2>. QED
    BY <1>6, <2>2, XorFacts
<1>. QED
  BY <1>5, <1>6

\* f is the checksum after each byte of the data.
IsCrcRun(f, data, n) ==
  /\ f \in [0 .. n -> Word] /\ f[0] = 0
  /\ \A i \in 1 .. n : f[i] = C!CrcByte(f[i - 1], data[i])

\* There is such a run over any data.
LEMMA CrcRunExists ==
  ASSUME NEW data \in Seq(Byte)
  PROVE  \E f : IsCrcRun(f, data, Len(data))
<1>. DEFINE S == {n \in Nat : n <= Len(data) => \E f : IsCrcRun(f, data, n)}
<1>1. 0 \in S
  <2>. DEFINE f == [i \in 0 .. 0 |-> 0]
  <2>1. 0 \in Word
    BY DEF Word
  <2>2. f \in [0 .. 0 -> Word] /\ f[0] = 0
    BY <2>1
  <2>. HIDE DEF f
  <2>3. IsCrcRun(f, data, 0)
    BY <2>2 DEF IsCrcRun
  <2>. QED
    BY <2>3
<1>2. ASSUME NEW n \in Nat, n \in S
      PROVE  n + 1 \in S
  <2>1. SUFFICES ASSUME n + 1 <= Len(data)
                 PROVE  \E f : IsCrcRun(f, data, n + 1)
    OBVIOUS
  <2>2. PICK f : IsCrcRun(f, data, n)
    BY <1>2, <2>1
  <2>. DEFINE g == [i \in 0 .. n + 1 |->
                      IF i = n + 1 THEN C!CrcByte(f[n], data[n + 1]) ELSE f[i]]
  <2>3. f \in [0 .. n -> Word] /\ f[0] = 0 /\ data[n + 1] \in Byte /\ f[n] \in Word
    BY <2>1, <2>2 DEF IsCrcRun
  <2>4. C!CrcByte(f[n], data[n + 1]) \in Word
    BY <2>3, CrcByteFacts
  <2>5. /\ g \in [0 .. n + 1 -> Word] /\ g[n + 1] = C!CrcByte(f[n], data[n + 1])
        /\ \A i \in 0 .. n : g[i] = f[i]
    BY <2>3, <2>4
  <2>. HIDE DEF g
  <2>6. ASSUME NEW i \in 1 .. n + 1
        PROVE  g[i] = C!CrcByte(g[i - 1], data[i])
    <3>1. CASE i = n + 1
      <4>1. g[i - 1] = f[n]
        BY <2>5, <3>1
      <4>. QED
        BY <2>5, <3>1, <4>1
    <3>2. CASE i # n + 1
      <4>1. i \in 1 .. n /\ i \in 0 .. n /\ i - 1 \in 0 .. n
        BY <3>2
      <4>. QED
        BY <2>2, <2>5, <4>1 DEF IsCrcRun
    <3>. QED
      BY <3>1, <3>2
  <2>7. IsCrcRun(g, data, n + 1)
    BY <2>3, <2>5, <2>6 DEF IsCrcRun
  <2>. QED
    BY <2>7
<1>3. \A n \in Nat : n \in S => n + 1 \in S
  BY <1>2, Zenon
<1>. HIDE DEF S
<1>4. Nat \subseteq S
  BY <1>1, <1>3, Induction
<1>5. Len(data) \in S
  BY <1>4
<1>6. Len(data) <= Len(data)
  OBVIOUS
<1>. QED
  BY <1>5, <1>6 DEF S

\* crc16() is where a run ends.
LEMMA CrcIsRun ==
  ASSUME NEW data \in Seq(Byte)
  PROVE  \E f : IsCrcRun(f, data, Len(data)) /\ C!crc16(data) = f[Len(data)]
<1>. DEFINE n == Len(data)
            step(g) == [i \in 0 .. n |-> IF i = 0 THEN 0 ELSE C!CrcByte(g[i - 1], data[i])]
            f == CHOOSE g : g = step(g)
<1>1. C!crc16(data) = f[n]
  BY DEF C!crc16
<1>2. \E g : g = step(g)
  <2>1. PICK g : IsCrcRun(g, data, n)
    BY CrcRunExists
  <2>2. g = [i \in 0 .. n |-> g[i]]
    BY <2>1 DEF IsCrcRun
  <2>3. \A i \in 0 .. n : g[i] = IF i = 0 THEN 0 ELSE C!CrcByte(g[i - 1], data[i])
    BY <2>1 DEF IsCrcRun
  <2>4. g = step(g)
    BY <2>2, <2>3, Zenon
  <2>. QED
    BY <2>4
<1>3. f = step(f)
  <2>. HIDE DEF step
  <2>. QED
    BY <1>2, Zenon
<1>. HIDE DEF f
<1>4. n \in Nat
  OBVIOUS
<1>. HIDE DEF n
<1>5. f[0] = 0 /\ (\A i \in 1 .. n : f[i] = C!CrcByte(f[i - 1], data[i]))
  BY <1>3, <1>4
<1>. DEFINE S == {i \in Nat : i <= n => f[i] \in Word}
<1>6. 0 \in S
  BY <1>5 DEF Word
<1>7. ASSUME NEW i \in Nat, i \in S
      PROVE  i + 1 \in S
  <2>1. ASSUME i + 1 <= n
        PROVE  f[i + 1] \in Word
    <3>1. f[i] \in Word /\ i + 1 \in 1 .. n /\ (i + 1) - 1 = i
      BY <1>4, <1>7, <2>1
    <3>2. data[i + 1] \in Byte
      BY <3>1 DEF n
    <3>3. f[i + 1] = C!CrcByte(f[i], data[i + 1])
      BY <1>5, <3>1
    <3>. QED
      BY <3>1, <3>2, <3>3, CrcByteFacts
  <2>. QED
    BY <2>1
<1>8. \A i \in Nat : i \in S => i + 1 \in S
  BY <1>7, Zenon
<1>. HIDE DEF S
<1>9. Nat \subseteq S
  BY <1>6, <1>8, Induction
<1>10. \A i \in 0 .. n : f[i] \in Word
  BY <1>4, <1>9 DEF S
<1>11. f = [i \in 0 .. n |-> f[i]]
  BY <1>3
<1>12. f \in [0 .. n -> Word]
  BY <1>10, <1>11
<1>13. IsCrcRun(f, data, n)
  BY <1>5, <1>12 DEF IsCrcRun
<1>. QED
  BY <1>1, <1>13 DEF n

\* One step of the checksum keeps apart what differs in one operand only.
LEMMA CrcByteDiffers ==
  /\ \A c, d \in Word, a \in Byte : c # d => C!CrcByte(c, a) # C!CrcByte(d, a)
  /\ \A c \in Word, a, b \in Byte : a # b => C!CrcByte(c, a) # C!CrcByte(c, b)
<1>1. ASSUME NEW c \in Word, NEW d \in Word, NEW a \in Byte, c # d
      PROVE  C!CrcByte(c, a) # C!CrcByte(d, a)
  BY <1>1, CrcByteFacts
<1>2. ASSUME NEW c \in Word, NEW a \in Byte, NEW b \in Byte, a # b
      PROVE  C!CrcByte(c, a) # C!CrcByte(c, b)
  BY <1>2, CrcByteFacts
<1>. QED
  BY <1>1, <1>2

\* The checksum is a word, and one changed byte always changes it.
LEMMA CrcFacts ==
  ASSUME NEW data \in Seq(Byte)
  PROVE  /\ C!crc16(data) \in Word
         /\ \A e \in Seq(Byte), k \in 1 .. Len(data) :
              /\ Len(e) = Len(data) /\ e[k] # data[k]
              /\ \A i \in 1 .. Len(data) : i # k => e[i] = data[i]
              => C!crc16(e) # C!crc16(data)
<1>. DEFINE n == Len(data)
<1>0. n \in Nat
  OBVIOUS
<1>1. PICK f : IsCrcRun(f, data, n) /\ C!crc16(data) = f[n]
  BY CrcIsRun
<1>2. C!crc16(data) \in Word
  BY <1>0, <1>1 DEF IsCrcRun
<1>3. ASSUME NEW e \in Seq(Byte), NEW k \in 1 .. n, Len(e) = n, e[k] # data[k],
             \A i \in 1 .. n : i # k => e[i] = data[i]
      PROVE  C!crc16(e) # C!crc16(data)
  <2>1. PICK g : IsCrcRun(g, e, n) /\ C!crc16(e) = g[n]
    BY <1>3, CrcIsRun
  <2>. DEFINE S == {i \in Nat : i <= n => IF i < k THEN g[i] = f[i] ELSE g[i] # f[i]}
  <2>2. 0 \in S
    BY <1>1, <2>1 DEF IsCrcRun
  <2>3. ASSUME NEW i \in Nat, i \in S
        PROVE  i + 1 \in S
    <3>1. SUFFICES ASSUME i + 1 <= n
                   PROVE  IF i + 1 < k THEN g[i + 1] = f[i + 1] ELSE g[i + 1] # f[i + 1]
      OBVIOUS
    <3>2. i + 1 \in 1 .. n /\ (i + 1) - 1 = i /\ i \in 0 .. n /\ i <= n
      BY <1>0, <3>1
    <3>3. /\ f[i + 1] = C!CrcByte(f[i], data[i + 1]) /\ f[i] \in Word /\ data[i + 1] \in Byte
      BY <1>1, <3>2 DEF IsCrcRun
    <3>4. /\ g[i + 1] = C!CrcByte(g[i], e[i + 1]) /\ g[i] \in Word /\ e[i + 1] \in Byte
      BY <1>3, <2>1, <3>2 DEF IsCrcRun
    <3>5. CASE i + 1 < k
      <4>1. g[i] = f[i] /\ e[i + 1] = data[i + 1]
        BY <1>3, <2>3, <3>2, <3>5
      <4>. QED
        BY <3>3, <3>4, <3>5, <4>1
    <3>6. CASE i + 1 = k
      <4>1. g[i] = f[i] /\ e[i + 1] # data[i + 1]
        BY <1>3, <2>3, <3>2, <3>6
      <4>2. C!CrcByte(f[i], e[i + 1]) # C!CrcByte(f[i], data[i + 1])
        BY <3>3, <3>4, <4>1, CrcByteDiffers, Zenon
      <4>3. g[i + 1] # f[i + 1]
        BY <3>3, <3>4, <4>1, <4>2, Zenon
      <4>. QED
        BY <3>6, <4>3
    <3>7. CASE i + 1 > k
      <4>1. g[i] # f[i] /\ e[i + 1] = data[i + 1]
        BY <1>3, <2>3, <3>2, <3>7
      <4>2. C!CrcByte(g[i], data[i + 1]) # C!CrcByte(f[i], data[i + 1])
        BY <3>3, <3>4, <4>1, CrcByteDiffers, Zenon
      <4>3. g[i + 1] # f[i + 1]
        BY <3>3, <3>4, <4>1, <4>2, Zenon
      <4>. QED
        BY <3>7, <4>3
    <3>. QED
      BY <3>5, <3>6, <3>7
  <2>4. \A i \in Nat : i \in S => i + 1 \in S
    BY <2>3, Zenon
  <2>. HIDE DEF S
  <2>5. Nat \subseteq S
    BY <2>2, <2>4, Induction
  <2>6. n \in S
    BY <1>0, <2>5
  <2>. QED
    BY <1>0, <1>1, <2>1, <2>6 DEF S
<1>. QED
  BY <1>2, <1>3

-----------------------------------------------------------------------------
(* The checksum as a remainder. *)

\* The bits of the register that the checksum is computed in, the lowest first.
Places == 0 .. 15

\* A bit as a number.
Unit(bit) == IF bit THEN 1 ELSE 0

\* The two values it can have.
Binary == {0, 1}

\* The number in the lower half of the register d.
LowHalf(d) ==
  Unit(d[0]) + 2 * Unit(d[1]) + 4 * Unit(d[2]) + 8 * Unit(d[3])
    + 16 * Unit(d[4]) + 32 * Unit(d[5]) + 64 * Unit(d[6]) + 128 * Unit(d[7])

\* The number in its upper half.
HighHalf(d) ==
  Unit(d[8]) + 2 * Unit(d[9]) + 4 * Unit(d[10]) + 8 * Unit(d[11])
    + 16 * Unit(d[12]) + 32 * Unit(d[13]) + 64 * Unit(d[14]) + 128 * Unit(d[15])

\* The number in the whole of it.
Number(d) == LowHalf(d) + 256 * HighHalf(d)

\* A bit is zero or one.
LEMMA UnitFacts ==
  ASSUME NEW bit \in BOOLEAN
  PROVE  Unit(bit) \in Binary
  BY DEF Unit, Binary

\* A word of which only the bits that a step looks at are told apart.
Parts(u0, u1, a, u14, u15) == u0 + 2 * u1 + 4 * a + 16384 * u14 + 32768 * u15

\* The word after that step.
PartsStepped(u0, u1, a, u14, u15) ==
  IF u0 = 1 THEN (1 - u1) + 2 * a + 8192 * (1 - u14) + 16384 * u15 + 32768
  ELSE u1 + 2 * a + 8192 * u14 + 16384 * u15

\* What twelve bits can hold.
TwelveBits == 0 .. 4095

\* One step of the code on such a word.
LEMMA CrcBitOfParts ==
  ASSUME NEW u0 \in Binary, NEW u1 \in Binary, NEW a \in TwelveBits, NEW u14 \in Binary,
         NEW u15 \in Binary
  PROVE  C!CrcBit(Parts(u0, u1, a, u14, u15)) = PartsStepped(u0, u1, a, u14, u15)
<1>. DEFINE n == u0 + 2 * u1 + 4 * a + 16384 * u14 + 32768 * u15
            h == u1 + 2 * a + 8192 * u14 + 16384 * u15
<1>0. /\ a \in 0 .. 4095 /\ u0 \in {0, 1} /\ u1 \in {0, 1} /\ u14 \in {0, 1} /\ u15 \in {0, 1}
  BY DEF TwelveBits, Binary
<1>1. n % 2 = u0 /\ n \div 2 = h /\ h \in Nat /\ h < 32768
  BY <1>0
<1>2. CASE u0 = 0
  BY <1>0, <1>1, <1>2 DEF C!CrcBit, Parts, PartsStepped
<1>3. CASE u0 = 1
  <2>1. C!Flip(h, 32768) = h + 32768
    BY <1>0, <1>1 DEF C!Flip
  <2>. DEFINE k == u1 + 2 * a + 8192 * (1 - u14) + 16384 * u15 + 32768
  <2>2. C!Flip(h + 32768, 8192) = k
    <3>1. (h + 32768) \div 8192 = u14 + 2 * u15 + 4
      BY <1>0
    <3>2. (u14 + 2 * u15 + 4) % 2 = u14
      BY <1>0
    <3>3. C!Flip(h + 32768, 8192) = IF u14 = 0 THEN h + 32768 + 8192 ELSE h + 32768 - 8192
      BY <1>0, <3>1, <3>2 DEF C!Flip
    <3>. QED
      BY <1>0, <3>3
  <2>3. C!Flip(k, 1) = (1 - u1) + 2 * a + 8192 * (1 - u14) + 16384 * u15 + 32768
    <3>1. (k \div 1) % 2 = u1
      BY <1>0
    <3>2. C!Flip(k, 1) = IF u1 = 0 THEN k + 1 ELSE k - 1
      BY <1>0, <3>1 DEF C!Flip
    <3>. QED
      BY <1>0, <3>2
  <2>4. C!CrcBit(n) = C!Flip(C!Flip(C!Flip(h, 32768), 8192), 1)
    BY <1>1, <1>3 DEF C!CrcBit
  <2>. HIDE DEF n, h, k
  <2>5. C!CrcBit(n) = (1 - u1) + 2 * a + 8192 * (1 - u14) + 16384 * u15 + 32768
    BY <2>1, <2>2, <2>3, <2>4
  <2>. QED
    BY <1>3, <2>5 DEF n, Parts, PartsStepped
<1>. QED
  BY <1>0, <1>2, <1>3

\* The register after one step: everything moves down, and a one that falls out is fed
\* back to three places.
Stepped(d) ==
  [i \in Places |-> IF i = 15 THEN d[0]
                    ELSE IF i \in {0, 13} THEN d[i + 1] # d[0] ELSE d[i + 1]]

\* Two bits that differ.
LEMMA UnitApart ==
  ASSUME NEW a \in BOOLEAN, NEW b \in BOOLEAN
  PROVE  /\ Unit(b) = 1 => Unit(a # b) = 1 - Unit(a)
         /\ Unit(b) = 0 => Unit(a # b) = Unit(a)
<1>1. CASE a /\ b
  <2>1. Unit(a # b) = 0 /\ Unit(a) = 1 /\ Unit(b) = 1
    BY <1>1, Zenon DEF Unit
  <2>. QED
    BY <2>1
<1>2. CASE ~a /\ b
  <2>1. Unit(a # b) = 1 /\ Unit(a) = 0 /\ Unit(b) = 1
    BY <1>2, Zenon DEF Unit
  <2>. QED
    BY <2>1
<1>3. CASE ~b
  <2>1. Unit(a # b) = Unit(a) /\ Unit(b) = 0
    BY <1>3, Zenon DEF Unit
  <2>. QED
    BY <2>1
<1>. QED
  BY <1>1, <1>2, <1>3

\* A place of a register is a bit.
LEMMA PlaceFacts ==
  ASSUME NEW d \in [Places -> BOOLEAN], NEW i \in Places
  PROVE  \E u \in Binary : u = Unit(d[i])
  BY UnitFacts

\* A step on the word is a step on its bits.
LEMMA CrcBitOfRegister ==
  ASSUME NEW d \in [Places -> BOOLEAN]
  PROVE  /\ Stepped(d) \in [Places -> BOOLEAN]
         /\ C!CrcBit(Number(d)) = Number(Stepped(d))
<1>. DEFINE e == Stepped(d)
<1>1. e \in [Places -> BOOLEAN]
  BY DEF Stepped, Places
<1>2. /\ e[0] = (d[1] # d[0]) /\ e[1] = d[2] /\ e[2] = d[3] /\ e[3] = d[4]
      /\ e[4] = d[5] /\ e[5] = d[6] /\ e[6] = d[7] /\ e[7] = d[8]
      /\ e[8] = d[9] /\ e[9] = d[10] /\ e[10] = d[11] /\ e[11] = d[12]
      /\ e[12] = d[13] /\ e[13] = (d[14] # d[0]) /\ e[14] = d[15] /\ e[15] = d[0]
  BY DEF Stepped, Places
<1>. HIDE DEF e
<1>3. /\ 0 \in Places /\ 1 \in Places /\ 2 \in Places /\ 3 \in Places
      /\ 4 \in Places /\ 5 \in Places /\ 6 \in Places /\ 7 \in Places
      /\ 8 \in Places /\ 9 \in Places /\ 10 \in Places /\ 11 \in Places
      /\ 12 \in Places /\ 13 \in Places /\ 14 \in Places /\ 15 \in Places
  BY DEF Places
<1>p0. PICK u0 \in Binary : u0 = Unit(d[0])
  BY <1>3, PlaceFacts
<1>p1. PICK u1 \in Binary : u1 = Unit(d[1])
  BY <1>3, PlaceFacts
<1>p14. PICK v6 \in Binary : v6 = Unit(d[14])
  BY <1>3, PlaceFacts
<1>p15. PICK v7 \in Binary : v7 = Unit(d[15])
  BY <1>3, PlaceFacts
<1>q. \A a \in TwelveBits : C!CrcBit(Parts(u0, u1, a, v6, v7)) = PartsStepped(u0, u1, a, v6, v7)
  BY CrcBitOfParts
<1>p2. PICK u2 \in Binary : u2 = Unit(d[2])
  BY <1>3, PlaceFacts
<1>p3. PICK u3 \in Binary : u3 = Unit(d[3])
  BY <1>3, PlaceFacts
<1>p4. PICK u4 \in Binary : u4 = Unit(d[4])
  BY <1>3, PlaceFacts
<1>p5. PICK u5 \in Binary : u5 = Unit(d[5])
  BY <1>3, PlaceFacts
<1>p6. PICK u6 \in Binary : u6 = Unit(d[6])
  BY <1>3, PlaceFacts
<1>p7. PICK u7 \in Binary : u7 = Unit(d[7])
  BY <1>3, PlaceFacts
<1>p8. PICK v0 \in Binary : v0 = Unit(d[8])
  BY <1>3, PlaceFacts
<1>p9. PICK v1 \in Binary : v1 = Unit(d[9])
  BY <1>3, PlaceFacts
<1>p10. PICK v2 \in Binary : v2 = Unit(d[10])
  BY <1>3, PlaceFacts
<1>p11. PICK v3 \in Binary : v3 = Unit(d[11])
  BY <1>3, PlaceFacts
<1>p12. PICK v4 \in Binary : v4 = Unit(d[12])
  BY <1>3, PlaceFacts
<1>p13. PICK v5 \in Binary : v5 = Unit(d[13])
  BY <1>3, PlaceFacts
<1>. DEFINE a == u2 + 2 * u3 + 4 * u4 + 8 * u5 + 16 * u6 + 32 * u7
                   + 64 * v0 + 128 * v1 + 256 * v2 + 512 * v3 + 1024 * v4 + 2048 * v5
<1>4. Number(d) = u0 + 2 * u1 + 4 * a + 16384 * v6 + 32768 * v7
  <2>1. Number(d) = (u0 + 2 * u1 + 4 * u2 + 8 * u3 + 16 * u4 + 32 * u5 + 64 * u6 + 128 * u7)
                      + 256 * (v0 + 2 * v1 + 4 * v2 + 8 * v3 + 16 * v4 + 32 * v5
                                 + 64 * v6 + 128 * v7)
    BY <1>p0, <1>p1, <1>p2, <1>p3, <1>p4, <1>p5, <1>p6, <1>p7, <1>p8,
       <1>p9, <1>p10, <1>p11, <1>p12, <1>p13, <1>p14, <1>p15, ZenonT(60)
       DEF Number, LowHalf, HighHalf
  <2>2. Binary \subseteq Int
    BY DEF Binary
  <2>. QED
    BY <2>1, <2>2, SMTT(30)
<1>5. a \in TwelveBits
  <2>1. \A u \in Binary : u \in Nat /\ u <= 1
    BY DEF Binary
  <2>2. /\ u2 \in Nat /\ u2 <= 1 /\ u3 \in Nat /\ u3 <= 1 /\ u4 \in Nat /\ u4 <= 1
        /\ u5 \in Nat /\ u5 <= 1 /\ u6 \in Nat /\ u6 <= 1 /\ u7 \in Nat /\ u7 <= 1
        /\ v0 \in Nat /\ v0 <= 1 /\ v1 \in Nat /\ v1 <= 1 /\ v2 \in Nat /\ v2 <= 1
        /\ v3 \in Nat /\ v3 <= 1 /\ v4 \in Nat /\ v4 <= 1 /\ v5 \in Nat /\ v5 <= 1
    BY <2>1
  <2>. QED
    BY <2>2, SMTT(30) DEF TwelveBits
<1>6. d[0] \in BOOLEAN /\ d[1] \in BOOLEAN /\ d[14] \in BOOLEAN
  BY DEF Places
<1>7. C!CrcBit(Number(d)) = PartsStepped(u0, u1, a, v6, v7)
  <2>1. Number(d) = Parts(u0, u1, a, v6, v7)
    BY <1>4 DEF Parts
  <2>. HIDE DEF a
  <2>2. C!CrcBit(Parts(u0, u1, a, v6, v7)) = PartsStepped(u0, u1, a, v6, v7)
    BY <1>5, <1>q, Zenon
  <2>. QED
    BY <2>1, <2>2
<1>8. /\ u0 = 1 => Unit(e[0]) = 1 - u1 /\ Unit(e[13]) = 1 - v6
      /\ u0 = 0 => Unit(e[0]) = u1 /\ Unit(e[13]) = v6
  <2>1. /\ u0 = 1 => Unit(d[1] # d[0]) = 1 - u1
        /\ u0 = 0 => Unit(d[1] # d[0]) = u1
    BY <1>6, <1>p0, <1>p1, UnitApart
  <2>2. /\ u0 = 1 => Unit(d[14] # d[0]) = 1 - v6
        /\ u0 = 0 => Unit(d[14] # d[0]) = v6
    BY <1>6, <1>p0, <1>p14, UnitApart
  <2>. QED
    BY <1>2, <2>1, <2>2, Zenon
<1>9. Number(e) = (Unit(e[0]) + 2 * u2 + 4 * u3 + 8 * u4 + 16 * u5 + 32 * u6 + 64 * u7 + 128 * v0)
                    + 256 * (v1 + 2 * v2 + 4 * v3 + 8 * v4 + 16 * v5 + 32 * Unit(e[13])
                               + 64 * v7 + 128 * u0)
  BY <1>2, <1>p0, <1>p1, <1>p2, <1>p3, <1>p4, <1>p5, <1>p6, <1>p7, <1>p8,
     <1>p9, <1>p10, <1>p11, <1>p12, <1>p13, <1>p14, <1>p15, ZenonT(60)
     DEF Number, LowHalf, HighHalf
<1>10. CASE u0 = 1
  <2>1. PICK x \in Binary, y \in Binary :
          x = Unit(e[0]) /\ y = Unit(e[13]) /\ x = 1 - u1 /\ y = 1 - v6
    BY <1>8, <1>10 DEF Binary
  <2>2. Number(e) = (x + 2 * u2 + 4 * u3 + 8 * u4 + 16 * u5 + 32 * u6 + 64 * u7 + 128 * v0)
                    + 256 * (v1 + 2 * v2 + 4 * v3 + 8 * v4 + 16 * v5 + 32 * y + 64 * v7 + 128 * u0)
    BY <1>9, <2>1, Zenon
  <2>. QED
    BY <1>1, <1>7, <1>10, <2>1, <2>2 DEF e, PartsStepped, Binary
<1>11. CASE u0 = 0
  <2>2. Number(e) = (u1 + 2 * u2 + 4 * u3 + 8 * u4 + 16 * u5 + 32 * u6 + 64 * u7 + 128 * v0)
                    + 256 * (v1 + 2 * v2 + 4 * v3 + 8 * v4 + 16 * v5 + 32 * v6 + 64 * v7 + 128 * u0)
    BY <1>8, <1>9, <1>11
  <2>. QED
    BY <1>1, <1>7, <1>11, <2>2 DEF e, PartsStepped, Binary
<1>. QED
  BY <1>10, <1>11 DEF Binary

\* The register with a byte added to its lowest bits.
Added(d, byte) == [i \in Places |-> d[i] # (i < 8 /\ IsSet(byte, i))]

\* The digits of a word whose low byte is given.
LEMMA LowDigit ==
  ASSUME NEW low \in Byte, NEW high \in Byte, NEW w \in {1, 2, 4, 8, 16, 32, 64, 128}
  PROVE  Digit(low + 256 * high, w) = Digit(low, w)
<1>1. low \in Int /\ high \in Int
  BY DEF Byte
<1>2. CASE w = 1
  BY <1>1, <1>2 DEF Digit
<1>3. CASE w = 2
  BY <1>1, <1>3 DEF Digit
<1>4. CASE w = 4
  BY <1>1, <1>4 DEF Digit
<1>5. CASE w = 8
  BY <1>1, <1>5 DEF Digit
<1>6. CASE w = 16
  BY <1>1, <1>6 DEF Digit
<1>7. CASE w = 32
  BY <1>1, <1>7 DEF Digit
<1>8. CASE w = 64
  BY <1>1, <1>8 DEF Digit
<1>9. CASE w = 128
  BY <1>1, <1>9 DEF Digit
<1>. QED
  BY <1>2, <1>3, <1>4, <1>5, <1>6, <1>7, <1>8, <1>9

\* The halves of a register are bytes, and the bits are the digits of the number.
LEMMA HalfFacts ==
  ASSUME NEW d \in [Places -> BOOLEAN]
  PROVE  /\ LowHalf(d) \in Byte /\ HighHalf(d) \in Byte
         /\ Digit(LowHalf(d), 1) = Unit(d[0]) /\ Digit(LowHalf(d), 2) = Unit(d[1])
         /\ Digit(LowHalf(d), 4) = Unit(d[2]) /\ Digit(LowHalf(d), 8) = Unit(d[3])
         /\ Digit(LowHalf(d), 16) = Unit(d[4]) /\ Digit(LowHalf(d), 32) = Unit(d[5])
         /\ Digit(LowHalf(d), 64) = Unit(d[6]) /\ Digit(LowHalf(d), 128) = Unit(d[7])
<1>1. /\ Unit(d[0]) \in {0, 1} /\ Unit(d[1]) \in {0, 1} /\ Unit(d[2]) \in {0, 1}
      /\ Unit(d[3]) \in {0, 1} /\ Unit(d[4]) \in {0, 1} /\ Unit(d[5]) \in {0, 1}
      /\ Unit(d[6]) \in {0, 1} /\ Unit(d[7]) \in {0, 1}
  BY UnitFacts DEF Places, Binary
<1>2. /\ Unit(d[8]) \in {0, 1} /\ Unit(d[9]) \in {0, 1} /\ Unit(d[10]) \in {0, 1}
      /\ Unit(d[11]) \in {0, 1} /\ Unit(d[12]) \in {0, 1} /\ Unit(d[13]) \in {0, 1}
      /\ Unit(d[14]) \in {0, 1} /\ Unit(d[15]) \in {0, 1}
  BY UnitFacts DEF Places, Binary
<1>3. HighHalf(d) \in Byte
  BY <1>2, Digits DEF HighHalf
<1>. QED
  BY <1>1, <1>3, Digits DEF LowHalf, Digit

\* The bits of a byte are its digits.
LEMMA ByteDigits ==
  ASSUME NEW byte \in Byte
  PROVE  /\ Digit(byte, 1) = Unit(IsSet(byte, 0)) /\ Digit(byte, 2) = Unit(IsSet(byte, 1))
         /\ Digit(byte, 4) = Unit(IsSet(byte, 2)) /\ Digit(byte, 8) = Unit(IsSet(byte, 3))
         /\ Digit(byte, 16) = Unit(IsSet(byte, 4)) /\ Digit(byte, 32) = Unit(IsSet(byte, 5))
         /\ Digit(byte, 64) = Unit(IsSet(byte, 6)) /\ Digit(byte, 128) = Unit(IsSet(byte, 7))
<1>1. /\ Digit(byte, 1) \in Binary /\ Digit(byte, 2) \in Binary /\ Digit(byte, 4) \in Binary
      /\ Digit(byte, 8) \in Binary /\ Digit(byte, 16) \in Binary /\ Digit(byte, 32) \in Binary
      /\ Digit(byte, 64) \in Binary /\ Digit(byte, 128) \in Binary
  BY DEF Digit, Binary, Byte
<1>2. /\ (IsSet(byte, 0) <=> Digit(byte, 1) = 1) /\ (IsSet(byte, 1) <=> Digit(byte, 2) = 1)
      /\ (IsSet(byte, 2) <=> Digit(byte, 4) = 1) /\ (IsSet(byte, 3) <=> Digit(byte, 8) = 1)
      /\ (IsSet(byte, 4) <=> Digit(byte, 16) = 1) /\ (IsSet(byte, 5) <=> Digit(byte, 32) = 1)
      /\ (IsSet(byte, 6) <=> Digit(byte, 64) = 1) /\ (IsSet(byte, 7) <=> Digit(byte, 128) = 1)
  BY SetBits DEF Digit
<1>3. \A v \in Binary : \A bit : (bit <=> v = 1) => v = Unit(bit)
  BY DEF Unit, Binary
<1>. QED
  BY <1>1, <1>2, <1>3

\* The exclusive or of the code adds the byte.
LEMMA XorOfRegister ==
  ASSUME NEW d \in [Places -> BOOLEAN], NEW byte \in Byte
  PROVE  /\ Added(d, byte) \in [Places -> BOOLEAN] /\ Number(d) \in Word
         /\ C!Xor(Number(d), byte) = Number(Added(d, byte))
<1>. DEFINE e == Added(d, byte)
            x(w) == XorDigit(Number(d), byte, w)
<1>1. e \in [Places -> BOOLEAN]
  BY DEF Added, Places
<1>2. /\ e[0] = (d[0] # IsSet(byte, 0)) /\ e[1] = (d[1] # IsSet(byte, 1))
      /\ e[2] = (d[2] # IsSet(byte, 2)) /\ e[3] = (d[3] # IsSet(byte, 3))
      /\ e[4] = (d[4] # IsSet(byte, 4)) /\ e[5] = (d[5] # IsSet(byte, 5))
      /\ e[6] = (d[6] # IsSet(byte, 6)) /\ e[7] = (d[7] # IsSet(byte, 7))
  <2>1. \A i \in 0 .. 7 : e[i] = (d[i] # IsSet(byte, i))
    BY DEF Added, Places, IsSet
  <2>. HIDE DEF e
  <2>. QED
    BY <2>1
<1>3. /\ e[8] = d[8] /\ e[9] = d[9] /\ e[10] = d[10] /\ e[11] = d[11]
      /\ e[12] = d[12] /\ e[13] = d[13] /\ e[14] = d[14] /\ e[15] = d[15]
  <2>1. \A i \in 8 .. 15 : d[i] \in BOOLEAN /\ e[i] = d[i]
    BY DEF Added, Places
  <2>. HIDE DEF e
  <2>. QED
    BY <2>1
<1>. HIDE DEF e
<1>4. LowHalf(d) \in Byte /\ HighHalf(d) \in Byte /\ Number(d) = LowHalf(d) + 256 * HighHalf(d)
  BY HalfFacts DEF Number
<1>5. Number(d) \in Word /\ Number(d) \div 256 = HighHalf(d)
  <2>1. PICK p \in Byte, q \in Byte : p = LowHalf(d) /\ q = HighHalf(d)
    BY <1>4
  <2>2. p + 256 * q \in Word /\ (p + 256 * q) \div 256 = q
    BY DEF Word, Byte
  <2>. QED
    BY <1>4, <2>1, <2>2
<1>6. HighHalf(e) = HighHalf(d)
  BY <1>3, Zenon DEF HighHalf
<1>7. /\ Digit(Number(d), 1) = Unit(d[0]) /\ Digit(Number(d), 2) = Unit(d[1])
      /\ Digit(Number(d), 4) = Unit(d[2]) /\ Digit(Number(d), 8) = Unit(d[3])
      /\ Digit(Number(d), 16) = Unit(d[4]) /\ Digit(Number(d), 32) = Unit(d[5])
      /\ Digit(Number(d), 64) = Unit(d[6]) /\ Digit(Number(d), 128) = Unit(d[7])
  BY <1>4, HalfFacts, LowDigit
<1>8. /\ Digit(byte, 1) = Unit(IsSet(byte, 0)) /\ Digit(byte, 2) = Unit(IsSet(byte, 1))
      /\ Digit(byte, 4) = Unit(IsSet(byte, 2)) /\ Digit(byte, 8) = Unit(IsSet(byte, 3))
      /\ Digit(byte, 16) = Unit(IsSet(byte, 4)) /\ Digit(byte, 32) = Unit(IsSet(byte, 5))
      /\ Digit(byte, 64) = Unit(IsSet(byte, 6)) /\ Digit(byte, 128) = Unit(IsSet(byte, 7))
  BY ByteDigits
<1>9. ASSUME NEW a \in BOOLEAN, NEW b \in BOOLEAN
      PROVE  Apart(Unit(a), Unit(b)) = Unit(a # b)
  <2>1. CASE a = b
    BY <2>1 DEF Apart, Unit
  <2>2. CASE a # b
    BY <2>2 DEF Apart, Unit
  <2>. QED
    BY <2>1, <2>2
<1>10. /\ d[0] \in BOOLEAN /\ d[1] \in BOOLEAN /\ d[2] \in BOOLEAN /\ d[3] \in BOOLEAN
       /\ d[4] \in BOOLEAN /\ d[5] \in BOOLEAN /\ d[6] \in BOOLEAN /\ d[7] \in BOOLEAN
       /\ \A i : IsSet(byte, i) \in BOOLEAN
  BY DEF Places, IsSet
<1>11. /\ x(1) = Unit(e[0]) /\ x(2) = Unit(e[1]) /\ x(4) = Unit(e[2]) /\ x(8) = Unit(e[3])
       /\ x(16) = Unit(e[4]) /\ x(32) = Unit(e[5]) /\ x(64) = Unit(e[6]) /\ x(128) = Unit(e[7])
  <2>. DEFINE at(w, i) == /\ e[i] = (d[i] # IsSet(byte, i)) /\ d[i] \in BOOLEAN
                          /\ IsSet(byte, i) \in BOOLEAN
                          /\ Digit(Number(d), w) = Unit(d[i])
                          /\ Digit(byte, w) = Unit(IsSet(byte, i))
  <2>1. at(1, 0) /\ at(2, 1) /\ at(4, 2) /\ at(8, 3)
    BY <1>2, <1>7, <1>8, <1>10, Zenon
  <2>2. at(16, 4) /\ at(32, 5) /\ at(64, 6) /\ at(128, 7)
    BY <1>2, <1>7, <1>8, <1>10, Zenon
  <2>3. ASSUME NEW w, NEW i, at(w, i)
        PROVE  x(w) = Unit(e[i])
    <3>1. PICK a \in BOOLEAN, b \in BOOLEAN : a = d[i] /\ b = IsSet(byte, i)
      BY <2>3
    <3>2. x(w) = Apart(Unit(a), Unit(b)) /\ e[i] = (a # b)
      BY <2>3, <3>1 DEF XorDigit
    <3>. QED
      BY <1>9, <3>2
  <2>. HIDE DEF at, x
  <2>. QED
    BY <2>1, <2>2, <2>3, Zenon
<1>12. XorByte(Number(d), byte) = LowHalf(e)
  BY <1>11, Zenon DEF XorByte, LowHalf
<1>13. C!Xor(Number(d), byte) = 256 * HighHalf(d) + LowHalf(e)
  BY <1>5, <1>12, XorIsDigits
<1>14. LowHalf(e) \in Byte
  BY <1>1, HalfFacts
<1>15. 256 * HighHalf(d) + LowHalf(e) = LowHalf(e) + 256 * HighHalf(d)
  <2>1. PICK p \in Byte, q \in Byte : p = LowHalf(e) /\ q = HighHalf(d)
    BY <1>4, <1>14
  <2>2. 256 * q + p = p + 256 * q
    BY DEF Byte
  <2>. QED
    BY <2>1, <2>2
<1>. QED
  BY <1>1, <1>5, <1>6, <1>13, <1>15 DEF Number, e

\* What a bit of the message does to the remainder, term by term.
LEMMA FedFacts ==
  ASSUME NEW r \in SUBSET Places, NEW bit \in BOOLEAN
  PROVE  /\ Fed(r, bit) \in SUBSET Places
         /\ \A x \in Places : x \in Fed(r, bit)
              <=> ((x # 0 /\ x - 1 \in r) # (((15 \in r) # bit) /\ x \in {15, 2, 0}))
<1>. DEFINE shifted == {e + 1 : e \in r \ {15}}
<1>1. shifted \in SUBSET Places
  BY DEF Places
<1>2. \A x \in Places : x \in shifted <=> x # 0 /\ x - 1 \in r
  <2>. TAKE x \in Places
  <2>1. ASSUME x \in shifted
        PROVE  x # 0 /\ x - 1 \in r
    BY <2>1 DEF Places
  <2>2. ASSUME x # 0, x - 1 \in r
        PROVE  x \in shifted
    <3>1. x - 1 \in r \ {15} /\ x = (x - 1) + 1
      BY <2>2 DEF Places
    <3>. QED
      BY <3>1
  <2>. QED
    BY <2>1, <2>2
<1>3. Fed(r, bit) = IF (15 \in r) # bit THEN SymDiff(shifted, {15, 2, 0}) ELSE shifted
  BY DEF Fed
<1>. HIDE DEF shifted
<1>4. \A x : x \in SymDiff(shifted, {15, 2, 0}) <=> ((x \in shifted) # (x \in {15, 2, 0}))
  BY DEF SymDiff
<1>5. SymDiff(shifted, {15, 2, 0}) \in SUBSET Places
  BY <1>1 DEF SymDiff, Places
<1>6. CASE (15 \in r) # bit
  BY <1>2, <1>3, <1>4, <1>5, <1>6
<1>7. CASE ~((15 \in r) # bit)
  BY <1>1, <1>2, <1>3, <1>7
<1>. QED
  BY <1>6, <1>7

\* The register while a byte is being taken: the remainder so far, with the bits of
\* the byte that are still to come added to its lowest places.
Mixed(r, byte, j) == [i \in Places |-> (15 - i \in r) # (i + j < 8 /\ IsSet(byte, i + j))]

\* The code takes a byte at once and then moves it out; the remainder takes its bits one
\* by one.  Both stay in step.
LEMMA MixedStep ==
  ASSUME NEW r \in SUBSET Places, NEW byte, NEW j \in 0 .. 7
  PROVE  /\ Mixed(r, byte, j) \in [Places -> BOOLEAN]
         /\ Stepped(Mixed(r, byte, j)) = Mixed(Fed(r, IsSet(byte, j)), byte, j + 1)
<1>. DEFINE d == Mixed(r, byte, j)
            s == Fed(r, IsSet(byte, j))
            e == Mixed(s, byte, j + 1)
            pend(k) == k < 8 /\ IsSet(byte, k)
            fed == (15 \in r) # IsSet(byte, j)
<1>1. d \in [Places -> BOOLEAN] /\ \A i \in Places : d[i] = ((15 - i \in r) # pend(i + j))
  BY DEF Mixed
<1>2. e = [i \in Places |-> (15 - i \in s) # pend(i + (j + 1))]
  BY DEF Mixed
<1>3. \A k : IsSet(byte, k) \in BOOLEAN
  BY DEF IsSet
<1>4. /\ s \in SUBSET Places
      /\ \A x \in Places : x \in s <=> ((x # 0 /\ x - 1 \in r) # (fed /\ x \in {15, 2, 0}))
  BY <1>3, FedFacts
<1>5. pend(0 + j) = IsSet(byte, j) /\ 0 \in Places
  BY <1>3 DEF Places
<1>6. d[0] = fed
  BY <1>1, <1>5
<1>. HIDE DEF d, e, s, fed
<1>7. fed \in BOOLEAN /\ \A k : pend(k) \in BOOLEAN
  BY <1>3 DEF fed
<1>8. ASSUME NEW i \in Places
      PROVE  Stepped(d)[i] = ((15 - i \in s) # pend(i + (j + 1)))
  <2>1. 15 - i \in Places /\ (i + 1) + j = i + (j + 1)
    BY DEF Places
  <2>2. CASE i = 15
    <3>1. Stepped(d)[i] = fed
      BY <1>6, <2>2 DEF Stepped
    <3>2. 15 - i = 0 /\ ~pend(i + (j + 1))
      BY <2>2
    <3>3. 0 \in s <=> fed
      BY <1>4, <1>5, <1>7
    <3>. QED
      BY <1>7, <3>1, <3>2, <3>3
  <2>3. CASE i # 15
    <3>1. i + 1 \in Places /\ (15 - i) - 1 = 15 - (i + 1) /\ 15 - i # 0
      BY <2>3 DEF Places
    <3>2. d[i + 1] = (((15 - i) - 1 \in r) # pend(i + (j + 1)))
      BY <1>1, <2>1, <3>1
    <3>3. 15 - i \in s <=> (((15 - i) - 1 \in r) # (fed /\ 15 - i \in {15, 2, 0}))
      BY <1>4, <2>1, <3>1
    <3>4. CASE i \in {0, 13}
      <4>1. Stepped(d)[i] = (d[i + 1] # fed)
        BY <1>6, <2>3, <3>4 DEF Stepped
      <4>2. 15 - i \in {15, 2, 0}
        BY <3>4
      <4>. QED
        BY <1>7, <3>2, <3>3, <4>1, <4>2
    <3>5. CASE i \notin {0, 13}
      <4>1. Stepped(d)[i] = d[i + 1]
        BY <2>3, <3>5 DEF Stepped
      <4>2. 15 - i \notin {15, 2, 0}
        BY <2>3, <3>5 DEF Places
      <4>. QED
        BY <1>7, <3>2, <3>3, <4>1, <4>2
    <3>. QED
      BY <3>4, <3>5
  <2>. QED
    BY <2>2, <2>3
<1>9. Stepped(d) = [i \in Places |-> Stepped(d)[i]]
  BY DEF Stepped
<1>10. Stepped(d) = e
  BY <1>2, <1>8, <1>9
<1>. QED
  BY <1>1, <1>10 DEF d, e, s

\* The register that holds a remainder: its highest power is the lowest bit.
Terms(r) == [i \in Places |-> 15 - i \in r]

\* Before a byte is taken, and after it.
LEMMA MixedEnds ==
  ASSUME NEW r \in SUBSET Places, NEW byte
  PROVE  /\ Terms(r) \in [Places -> BOOLEAN]
         /\ Mixed(r, byte, 0) = Added(Terms(r), byte) /\ Mixed(r, byte, 8) = Terms(r)
<1>1. Terms(r) \in [Places -> BOOLEAN] /\ \A i \in Places : Terms(r)[i] = (15 - i \in r)
  BY DEF Terms
<1>2. Mixed(r, byte, 0) = Added(Terms(r), byte)
  <2>1. \A i \in Places : ((15 - i \in r) # (i + 0 < 8 /\ IsSet(byte, i + 0)))
                          = (Terms(r)[i] # (i < 8 /\ IsSet(byte, i)))
    BY <1>1 DEF Places
  <2>. QED
    BY <2>1, Zenon DEF Mixed, Added
<1>3. Mixed(r, byte, 8) = Terms(r)
  <2>1. \A i \in Places : ((15 - i \in r) # (i + 8 < 8 /\ IsSet(byte, i + 8))) = (15 - i \in r)
    BY DEF Places
  <2>. QED
    BY <2>1, Zenon DEF Mixed, Terms
<1>. QED
  BY <1>1, <1>2, <1>3

\* One step of the code and one bit of the remainder.
LEMMA MixedBit ==
  ASSUME NEW r \in SUBSET Places, NEW byte, NEW j \in 0 .. 7, NEW s,
         s = Fed(r, IsSet(byte, j))
  PROVE  /\ s \in SUBSET Places
         /\ C!CrcBit(Number(Mixed(r, byte, j))) = Number(Mixed(s, byte, j + 1))
<1>1. IsSet(byte, j) \in BOOLEAN
  BY DEF IsSet
<1>2. s \in SUBSET Places
  BY <1>1, FedFacts
<1>3. /\ Mixed(r, byte, j) \in [Places -> BOOLEAN]
      /\ Stepped(Mixed(r, byte, j)) = Mixed(s, byte, j + 1)
  BY MixedStep
<1>4. C!CrcBit(Number(Mixed(r, byte, j))) = Number(Stepped(Mixed(r, byte, j)))
  BY <1>3, CrcBitOfRegister
<1>. QED
  BY <1>2, <1>3, <1>4

\* One byte in the code, and its eight bits in the remainder.
LEMMA ByteOfRemainder ==
  ASSUME NEW byte \in Byte, NEW g, g[0] \in SUBSET Places,
         \A j \in 0 .. 7 : g[j + 1] = Fed(g[j], IsSet(byte, j))
  PROVE  /\ \A j \in 0 .. 8 : g[j] \in SUBSET Places
         /\ C!CrcByte(Number(Terms(g[0])), byte) = Number(Terms(g[8]))
<1>. DEFINE c(j) == Number(Mixed(g[j], byte, j))
<1>1. ASSUME NEW j \in 0 .. 7, g[j] \in SUBSET Places
      PROVE  g[j + 1] \in SUBSET Places /\ C!CrcBit(c(j)) = c(j + 1)
  <2>1. PICK r, s : r = g[j] /\ s = g[j + 1] /\ s = Fed(r, IsSet(byte, j)) /\ r \in SUBSET Places
    BY <1>1
  <2>2. /\ s \in SUBSET Places
        /\ C!CrcBit(Number(Mixed(r, byte, j))) = Number(Mixed(s, byte, j + 1))
    BY <2>1, MixedBit, ZenonT(60)
  <2>. QED
    BY <2>1, <2>2
<1>. HIDE DEF c
<1>2. g[1] \in SUBSET Places /\ C!CrcBit(c(0)) = c(1)
  BY <1>1
<1>3. g[2] \in SUBSET Places /\ C!CrcBit(c(1)) = c(2)
  BY <1>1, <1>2
<1>4. g[3] \in SUBSET Places /\ C!CrcBit(c(2)) = c(3)
  BY <1>1, <1>3
<1>5. g[4] \in SUBSET Places /\ C!CrcBit(c(3)) = c(4)
  BY <1>1, <1>4
<1>6. g[5] \in SUBSET Places /\ C!CrcBit(c(4)) = c(5)
  BY <1>1, <1>5
<1>7. g[6] \in SUBSET Places /\ C!CrcBit(c(5)) = c(6)
  BY <1>1, <1>6
<1>8. g[7] \in SUBSET Places /\ C!CrcBit(c(6)) = c(7)
  BY <1>1, <1>7
<1>9. g[8] \in SUBSET Places /\ C!CrcBit(c(7)) = c(8)
  BY <1>1, <1>8
<1>10. C!Xor(Number(Terms(g[0])), byte) = c(0)
  <2>1. Terms(g[0]) \in [Places -> BOOLEAN] /\ Mixed(g[0], byte, 0) = Added(Terms(g[0]), byte)
    BY MixedEnds
  <2>2. C!Xor(Number(Terms(g[0])), byte) = Number(Added(Terms(g[0]), byte))
    BY <2>1, XorOfRegister
  <2>. QED
    BY <2>1, <2>2 DEF c
<1>11. c(8) = Number(Terms(g[8]))
  BY <1>9, MixedEnds DEF c
<1>12. C!CrcByte(Number(Terms(g[0])), byte) = c(8)
  BY <1>2, <1>3, <1>4, <1>5, <1>6, <1>7, <1>8, <1>9, <1>10, Zenon DEF C!CrcByte
<1>13. \A j \in 0 .. 8 : g[j] \in SUBSET Places
  BY <1>2, <1>3, <1>4, <1>5, <1>6, <1>7, <1>8, <1>9
<1>. QED
  BY <1>11, <1>12, <1>13

\* g is the remainder after each bit of the message.
IsRemainderRun(g, bytes, n) ==
  /\ g \in [0 .. n -> SUBSET Places] /\ g[0] = {}
  /\ \A k \in 1 .. n : g[k] = Fed(g[k - 1], MessageBit(bytes, k - 1))

\* There is such a run over any message, and Remainder is where it ends.
LEMMA RemainderRunExists ==
  ASSUME NEW bytes, NEW m \in Nat
  PROVE  \E g : IsRemainderRun(g, bytes, m)
<1>. DEFINE S == {n \in Nat : \E g : IsRemainderRun(g, bytes, n)}
<1>1. 0 \in S
  <2>. DEFINE g == [i \in 0 .. 0 |-> {}]
  <2>1. g \in [0 .. 0 -> SUBSET Places] /\ g[0] = {}
    OBVIOUS
  <2>. HIDE DEF g
  <2>2. IsRemainderRun(g, bytes, 0)
    BY <2>1 DEF IsRemainderRun
  <2>. QED
    BY <2>2
<1>2. ASSUME NEW n \in Nat, n \in S
      PROVE  n + 1 \in S
  <2>1. PICK f : IsRemainderRun(f, bytes, n)
    BY <1>2
  <2>. DEFINE last == Fed(f[n], MessageBit(bytes, n))
              g == [i \in 0 .. n + 1 |-> IF i = n + 1 THEN last ELSE f[i]]
  <2>2. f \in [0 .. n -> SUBSET Places] /\ f[0] = {} /\ f[n] \in SUBSET Places
    BY <2>1 DEF IsRemainderRun
  <2>3. last \in SUBSET Places
    <3>1. MessageBit(bytes, n) \in BOOLEAN
      BY DEF MessageBit, IsSet
    <3>. QED
      BY <2>2, <3>1, FedFacts
  <2>4. /\ g \in [0 .. n + 1 -> SUBSET Places] /\ g[n + 1] = last
        /\ \A i \in 0 .. n : g[i] = f[i]
    <3>. HIDE DEF last
    <3>. QED
      BY <2>2, <2>3
  <2>. HIDE DEF g
  <2>5. ASSUME NEW i \in 1 .. n + 1
        PROVE  g[i] = Fed(g[i - 1], MessageBit(bytes, i - 1))
    <3>1. CASE i = n + 1
      <4>1. g[i - 1] = f[n] /\ i - 1 = n
        BY <2>4, <3>1
      <4>. QED
        BY <2>4, <3>1, <4>1
    <3>2. CASE i # n + 1
      <4>1. i \in 1 .. n /\ i \in 0 .. n /\ i - 1 \in 0 .. n
        BY <3>2
      <4>. QED
        BY <2>1, <2>4, <4>1 DEF IsRemainderRun
    <3>. QED
      BY <3>1, <3>2
  <2>6. IsRemainderRun(g, bytes, n + 1)
    BY <2>2, <2>4, <2>5 DEF IsRemainderRun
  <2>. QED
    BY <2>6
<1>3. \A n \in Nat : n \in S => n + 1 \in S
  BY <1>2, Zenon
<1>. HIDE DEF S
<1>4. Nat \subseteq S
  BY <1>1, <1>3, Induction
<1>5. m \in S
  BY <1>4
<1>. QED
  BY <1>5 DEF S

\* Remainder() is where a run ends.
LEMMA RemainderIsRun ==
  ASSUME NEW bytes \in Seq(Byte)
  PROVE  \E g : /\ IsRemainderRun(g, bytes, 8 * Len(bytes))
                /\ Remainder(bytes) = g[8 * Len(bytes)]
<1>. DEFINE n == 8 * Len(bytes)
            step(h) == [k \in 0 .. n |->
                          IF k = 0 THEN {} ELSE Fed(h[k - 1], MessageBit(bytes, k - 1))]
            g == CHOOSE h : h = step(h)
<1>1. Remainder(bytes) = g[n]
  BY DEF Remainder
<1>2. n \in Nat
  OBVIOUS
<1>. HIDE DEF n
<1>3. \E h : h = step(h)
  <2>1. PICK h : IsRemainderRun(h, bytes, n)
    BY <1>2, RemainderRunExists
  <2>2. h = [k \in 0 .. n |-> h[k]]
    BY <2>1 DEF IsRemainderRun
  <2>3. \A k \in 0 .. n : h[k] = IF k = 0 THEN {} ELSE Fed(h[k - 1], MessageBit(bytes, k - 1))
    BY <1>2, <2>1 DEF IsRemainderRun
  <2>4. h = step(h)
    BY <2>2, <2>3, Zenon
  <2>. QED
    BY <2>4
<1>4. g = step(g)
  <2>. HIDE DEF step
  <2>. QED
    BY <1>3, Zenon
<1>. HIDE DEF g
<1>5. g[0] = {} /\ (\A k \in 1 .. n : g[k] = Fed(g[k - 1], MessageBit(bytes, k - 1)))
  BY <1>2, <1>4
<1>. DEFINE S == {k \in Nat : k <= n => g[k] \in SUBSET Places}
<1>6. 0 \in S
  BY <1>5
<1>7. ASSUME NEW k \in Nat, k \in S
      PROVE  k + 1 \in S
  <2>1. ASSUME k + 1 <= n
        PROVE  g[k + 1] \in SUBSET Places
    <3>1. g[k] \in SUBSET Places /\ k + 1 \in 1 .. n /\ (k + 1) - 1 = k
      BY <1>2, <1>7, <2>1
    <3>2. MessageBit(bytes, k) \in BOOLEAN
      BY DEF MessageBit, IsSet
    <3>3. g[k + 1] = Fed(g[k], MessageBit(bytes, k))
      BY <1>5, <3>1
    <3>. QED
      BY <3>1, <3>2, <3>3, FedFacts
  <2>. QED
    BY <2>1
<1>8. \A k \in Nat : k \in S => k + 1 \in S
  BY <1>7, Zenon
<1>. HIDE DEF S
<1>9. Nat \subseteq S
  BY <1>6, <1>8, Induction
<1>10. \A k \in 0 .. n : g[k] \in SUBSET Places
  BY <1>2, <1>9 DEF S
<1>11. g = [k \in 0 .. n |-> g[k]]
  BY <1>4
<1>12. g \in [0 .. n -> SUBSET Places]
  BY <1>10, <1>11
<1>13. IsRemainderRun(g, bytes, n)
  BY <1>5, <1>12 DEF IsRemainderRun
<1>. QED
  BY <1>1, <1>13 DEF n

\* The code's checksum is the register of the remainder, for every message.
LEMMA CrcIsRemainder ==
  ASSUME NEW data \in Seq(Byte)
  PROVE  /\ Remainder(data) \in SUBSET Places
         /\ C!crc16(data) = Number(Terms(Remainder(data)))
<1>. DEFINE n == Len(data)
<1>1. n \in Nat
  OBVIOUS
<1>2. PICK f : IsCrcRun(f, data, n) /\ C!crc16(data) = f[n]
  BY CrcIsRun
<1>3. PICK g : IsRemainderRun(g, data, 8 * n) /\ Remainder(data) = g[8 * n]
  BY RemainderIsRun
<1>. DEFINE S == {m \in Nat : m <= n => f[m] = Number(Terms(g[8 * m]))}
<1>4. 0 \in S
  <2>1. f[0] = 0 /\ g[8 * 0] = {}
    BY <1>2, <1>3 DEF IsCrcRun, IsRemainderRun
  <2>. DEFINE d == Terms({})
  <2>2. \A i \in Places : Unit(d[i]) = 0
    BY DEF Terms, Unit
  <2>. HIDE DEF d
  <2>3. /\ Unit(d[0]) = 0 /\ Unit(d[1]) = 0 /\ Unit(d[2]) = 0 /\ Unit(d[3]) = 0
        /\ Unit(d[4]) = 0 /\ Unit(d[5]) = 0 /\ Unit(d[6]) = 0 /\ Unit(d[7]) = 0
        /\ Unit(d[8]) = 0 /\ Unit(d[9]) = 0 /\ Unit(d[10]) = 0 /\ Unit(d[11]) = 0
        /\ Unit(d[12]) = 0 /\ Unit(d[13]) = 0 /\ Unit(d[14]) = 0 /\ Unit(d[15]) = 0
    BY <2>2 DEF Places
  <2>4. Number(d) = 0
    BY <2>3 DEF Number, LowHalf, HighHalf
  <2>. QED
    BY <2>1, <2>4 DEF d
<1>5. ASSUME NEW m \in Nat, m \in S
      PROVE  m + 1 \in S
  <2>1. SUFFICES ASSUME m + 1 <= n
                 PROVE  f[m + 1] = Number(Terms(g[8 * (m + 1)]))
    OBVIOUS
  <2>2. m + 1 \in 1 .. n /\ (m + 1) - 1 = m /\ m <= n /\ data[m + 1] \in Byte
    BY <1>1, <2>1
  <2>3. f[m] = Number(Terms(g[8 * m])) /\ f[m + 1] = C!CrcByte(f[m], data[m + 1])
    BY <1>2, <1>5, <2>2 DEF IsCrcRun
  <2>. DEFINE byte == data[m + 1]
              h == [j \in 0 .. 8 |-> g[8 * m + j]]
  <2>4. /\ h[0] = g[8 * m] /\ h[8] = g[8 * (m + 1)]
        /\ \A j \in 0 .. 7 : h[j] = g[8 * m + j] /\ h[j + 1] = g[(8 * m + j) + 1]
    BY <2>2
  <2>. HIDE DEF h
  <2>5. h[0] \in SUBSET Places
    <3>1. 8 * m \in 0 .. 8 * n
      BY <1>1, <2>2
    <3>. QED
      BY <1>3, <2>4, <3>1 DEF IsRemainderRun
  <2>6. ASSUME NEW j \in 0 .. 7
        PROVE  h[j + 1] = Fed(h[j], IsSet(byte, j))
    <3>. DEFINE k == 8 * m + j
    <3>1. /\ k \in Nat /\ k + 1 \in 1 .. 8 * n /\ (k + 1) - 1 = k
          /\ k \div 8 = m /\ k % 8 = j /\ 1 + m = m + 1
      BY <1>1, <2>1
    <3>2. h[j] = g[k] /\ h[j + 1] = g[k + 1]
      BY <2>4
    <3>. HIDE DEF k
    <3>3. g[k + 1] = Fed(g[k], MessageBit(data, k))
      BY <1>3, <3>1 DEF IsRemainderRun
    <3>4. MessageBit(data, k) = IsSet(byte, j)
      BY <3>1 DEF MessageBit
    <3>. QED
      BY <3>2, <3>3, <3>4
  <2>7. byte \in Byte
    BY <2>2
  <2>. HIDE DEF byte
  <2>8. C!CrcByte(Number(Terms(h[0])), byte) = Number(Terms(h[8]))
    BY <2>5, <2>6, <2>7, ByteOfRemainder
  <2>. QED
    BY <2>3, <2>4, <2>8 DEF byte
<1>6. \A m \in Nat : m \in S => m + 1 \in S
  BY <1>5, Zenon
<1>. HIDE DEF S
<1>7. Nat \subseteq S
  BY <1>4, <1>6, Induction
<1>8. n \in S
  BY <1>1, <1>7
<1>9. 8 * n \in 0 .. 8 * n
  BY <1>1
<1>10. g[8 * n] \in SUBSET Places
  BY <1>3, <1>9 DEF IsRemainderRun
<1>11. f[n] = Number(Terms(g[8 * n]))
  BY <1>1, <1>8 DEF S
<1>. QED
  BY <1>2, <1>3, <1>10, <1>11

\* A byte is given by its bits.
LEMMA ByteOfBits ==
  ASSUME NEW byte \in Byte
  PROVE  byte = Unit(IsSet(byte, 0)) + 2 * Unit(IsSet(byte, 1)) + 4 * Unit(IsSet(byte, 2))
                  + 8 * Unit(IsSet(byte, 3)) + 16 * Unit(IsSet(byte, 4))
                  + 32 * Unit(IsSet(byte, 5)) + 64 * Unit(IsSet(byte, 6))
                  + 128 * Unit(IsSet(byte, 7))
<1>1. /\ Unit(IsSet(byte, 0)) = Digit(byte, 1) /\ Unit(IsSet(byte, 1)) = Digit(byte, 2)
      /\ Unit(IsSet(byte, 2)) = Digit(byte, 4) /\ Unit(IsSet(byte, 3)) = Digit(byte, 8)
      /\ Unit(IsSet(byte, 4)) = Digit(byte, 16) /\ Unit(IsSet(byte, 5)) = Digit(byte, 32)
      /\ Unit(IsSet(byte, 6)) = Digit(byte, 64) /\ Unit(IsSet(byte, 7)) = Digit(byte, 128)
  BY ByteDigits
<1>2. byte \in Word /\ byte \div 256 = 0
  BY DEF Byte, Word
<1>. DEFINE d(w) == Digit(byte, w)
<1>3. /\ d(1) \in {0, 1} /\ d(2) \in {0, 1} /\ d(4) \in {0, 1} /\ d(8) \in {0, 1}
      /\ d(16) \in {0, 1} /\ d(32) \in {0, 1} /\ d(64) \in {0, 1} /\ d(128) \in {0, 1}
      /\ byte = 256 * (byte \div 256) + (d(1) + 2 * d(2) + 4 * d(4) + 8 * d(8)
                 + 16 * d(16) + 32 * d(32) + 64 * d(64) + 128 * d(128))
  BY <1>2, LowDigits DEF Digit
<1>. HIDE DEF d
<1>4. byte = d(1) + 2 * d(2) + 4 * d(4) + 8 * d(8)
               + 16 * d(16) + 32 * d(32) + 64 * d(64) + 128 * d(128)
  BY <1>2, <1>3
<1>. QED
  BY <1>1, <1>4 DEF d

\* The byte of eight terms has them as its bits.
LEMMA TermsByteFacts ==
  ASSUME NEW r, NEW e \in Nat
  PROVE  /\ TermsByte(r, e) \in Byte
         /\ \A n \in BitNumbers : IsSet(TermsByte(r, e), n) = (e - n \in r)
<1>. DEFINE x == [n \in BitNumbers |-> e - n \in r]
            digit(n) == IF x[n] THEN M!Weight(n) ELSE 0
            sum == digit(0) + digit(1) + digit(2) + digit(3)
                     + digit(4) + digit(5) + digit(6) + digit(7)
            fits(byte) == \A n \in 0 .. 7 : IsSet(byte, n) <=> e - n \in r
<1>1. x \in [BitNumbers -> BOOLEAN] /\ \A n \in BitNumbers : x[n] = (e - n \in r)
  OBVIOUS
<1>2. sum \in Byte /\ \A n \in BitNumbers : IsSet(sum, n) <=> x[n]
  <2>. HIDE DEF x
  <2>. QED
    BY <1>1, Packed
<1>3. sum \in 0 .. 255 /\ fits(sum)
  <2>. HIDE DEF x, sum
  <2>. QED
    BY <1>1, <1>2 DEF Byte, BitNumbers
<1>4. TermsByte(r, e) = CHOOSE byte \in 0 .. 255 : fits(byte)
  BY SMTT(30) DEF TermsByte
<1>. HIDE DEF sum, fits
<1>5. TermsByte(r, e) \in 0 .. 255 /\ fits(TermsByte(r, e))
  BY <1>3, <1>4
<1>6. \A n \in BitNumbers : IsSet(TermsByte(r, e), n) \in BOOLEAN
  BY DEF IsSet
<1>. QED
  BY <1>5, <1>6 DEF fits, Byte, BitNumbers

\* So the two bytes of the checksum are the halves of the register.
LEMMA TermsBytes ==
  ASSUME NEW r \in SUBSET Places
  PROVE  TermsByte(r, 15) = LowHalf(Terms(r)) /\ TermsByte(r, 7) = HighHalf(Terms(r))
<1>. DEFINE d == Terms(r)
            low == TermsByte(r, 15)
            high == TermsByte(r, 7)
<1>1. \A i \in Places : d[i] = (15 - i \in r)
  BY DEF Terms
<1>2. /\ low \in Byte /\ high \in Byte
      /\ \A n \in BitNumbers : IsSet(low, n) = (15 - n \in r) /\ IsSet(high, n) = (7 - n \in r)
  BY TermsByteFacts
<1>. HIDE DEF d, low, high
<1>3. \A n \in BitNumbers : IsSet(low, n) = d[n] /\ IsSet(high, n) = d[8 + n]
  BY <1>1, <1>2 DEF BitNumbers, Places
<1>4. /\ IsSet(low, 0) = d[0] /\ IsSet(low, 1) = d[1] /\ IsSet(low, 2) = d[2]
      /\ IsSet(low, 3) = d[3] /\ IsSet(low, 4) = d[4] /\ IsSet(low, 5) = d[5]
      /\ IsSet(low, 6) = d[6] /\ IsSet(low, 7) = d[7]
  BY <1>3 DEF BitNumbers
<1>5. /\ IsSet(high, 0) = d[8] /\ IsSet(high, 1) = d[9] /\ IsSet(high, 2) = d[10]
      /\ IsSet(high, 3) = d[11] /\ IsSet(high, 4) = d[12] /\ IsSet(high, 5) = d[13]
      /\ IsSet(high, 6) = d[14] /\ IsSet(high, 7) = d[15]
  BY <1>3 DEF BitNumbers
<1>6. low = LowHalf(d)
  <2>1. low = Unit(IsSet(low, 0)) + 2 * Unit(IsSet(low, 1)) + 4 * Unit(IsSet(low, 2))
                + 8 * Unit(IsSet(low, 3)) + 16 * Unit(IsSet(low, 4)) + 32 * Unit(IsSet(low, 5))
                + 64 * Unit(IsSet(low, 6)) + 128 * Unit(IsSet(low, 7))
    BY <1>2, ByteOfBits
  <2>. QED
    BY <1>4, <2>1 DEF LowHalf
<1>7. high = HighHalf(d)
  <2>1. high = Unit(IsSet(high, 0)) + 2 * Unit(IsSet(high, 1)) + 4 * Unit(IsSet(high, 2))
                 + 8 * Unit(IsSet(high, 3)) + 16 * Unit(IsSet(high, 4))
                 + 32 * Unit(IsSet(high, 5)) + 64 * Unit(IsSet(high, 6))
                 + 128 * Unit(IsSet(high, 7))
    BY <1>2, ByteOfBits
  <2>. QED
    BY <1>5, <2>1 DEF HighHalf
<1>. QED
  BY <1>6, <1>7 DEF d, low, high

\* The code's CRC-16 is the one of the protocol: for every message its two bytes, low
\* byte first, are the remainder of the message divided by x^16 + x^15 + x^2 + 1.
THEOREM ChecksumIsRemainder ==
  ASSUME NEW data \in Seq(Byte)
  PROVE  PanelChecksum(data) = C!LittleEndian16(C!crc16(data))
<1>. DEFINE r == Remainder(data)
            low == LowHalf(Terms(r))
            high == HighHalf(Terms(r))
<1>1. r \in SUBSET Places /\ C!crc16(data) = low + 256 * high
  BY CrcIsRemainder DEF Number
<1>2. PanelChecksum(data) = <<low, high>>
  BY <1>1, TermsBytes DEF PanelChecksum
<1>3. low \in Byte /\ high \in Byte
  BY <1>1, MixedEnds, HalfFacts
<1>. HIDE DEF low, high
<1>4. (low + 256 * high) % 256 = low /\ ((low + 256 * high) \div 256) % 256 = high
  BY <1>3 DEF Byte
<1>. QED
  BY <1>1, <1>2, <1>4 DEF C!LittleEndian16

-----------------------------------------------------------------------------
(* The frames of the C3 codec. *)

\* b is a whole frame of the codec around what it carries.
IsC3Frame(b, command, inner) ==
  LET n == Len(b) IN
  /\ b \in Seq(Byte) /\ n = 8 + Len(inner)
  /\ b[1] = 170 /\ b[2] = 1 /\ b[3] = command /\ b[4] + 256 * b[5] = Len(inner)
  /\ \A i \in 1 .. Len(inner) : b[5 + i] = inner[i]
  /\ b[n - 2] + 256 * b[n - 1] = C!crc16(SubSeq(b, 2, n - 3))
  /\ b[n] = 85

\* Two bytes hold a word, the low one first.
LEMMA LittleEndianFacts ==
  ASSUME NEW v \in Word
  PROVE  LET s == C!LittleEndian16(v) IN
         /\ s \in Seq(Byte) /\ Len(s) = 2 /\ s[1] \in Byte /\ s[2] \in Byte
         /\ s[1] + 256 * s[2] = v
<1>. DEFINE q == v \div 256
            r == v % 256
<1>1. q \in Int /\ r \in Int /\ 0 <= r /\ r < 256 /\ v = 256 * q + r /\ 0 <= v /\ v < 65536
  BY DEF Word
<1>2. C!LittleEndian16(v) = <<r, q % 256>>
  BY DEF C!LittleEndian16
<1>. HIDE DEF q, r
<1>3. q \in Nat /\ q < 256
  BY <1>1
<1>4. q % 256 = q
  BY <1>3
<1>5. r \in Byte /\ q \in Byte /\ r + 256 * q = v
  BY <1>1, <1>3 DEF Byte
<1>6. /\ <<r, q>> \in Seq(Byte) /\ Len(<<r, q>>) = 2 /\ <<r, q>>[1] = r /\ <<r, q>>[2] = q
  BY <1>5, PairFacts
<1>. QED
  BY <1>2, <1>4, <1>5, <1>6

\* The part of a frame between its first byte and the checksum.
LEMMA MiddlePiece ==
  ASSUME NEW b \in Seq(Byte), NEW m \in Nat, NEW n \in Nat, 1 <= m, m <= n, n <= Len(b)
  PROVE  /\ SubSeq(b, m, n) \in Seq(Byte) /\ Len(SubSeq(b, m, n)) = (n - m) + 1
         /\ \A i \in 1 .. (n - m) + 1 : SubSeq(b, m, n)[i] = b[(m + i) - 1]
<1>1. \A i \in m .. n : b[i] \in Byte
  OBVIOUS
<1>. QED
  BY <1>1, SubSeqProperties

\* What lies between the first byte and the checksum.
C3Body(command, inner) == <<1, command>> \o C!LittleEndian16(Len(inner)) \o inner

\* The frame around it.
C3Frame(command, inner) ==
  <<170>> \o C3Body(command, inner)
    \o C!LittleEndian16(C!crc16(C3Body(command, inner))) \o <<85>>

\* The body: version, command, the length of what follows, and that.
LEMMA C3BodyFacts ==
  ASSUME NEW command \in Byte, NEW inner \in Seq(Byte), Len(inner) \in Word
  PROVE  LET body == C3Body(command, inner) IN
         /\ body \in Seq(Byte) /\ Len(body) = 4 + Len(inner)
         /\ body[1] = 1 /\ body[2] = command /\ body[3] + 256 * body[4] = Len(inner)
         /\ \A i \in 1 .. Len(inner) : body[4 + i] = inner[i]
<1>. DEFINE p == <<1, command>>
            q == C!LittleEndian16(Len(inner))
            head == p \o q
            body == head \o inner
<1>1. p \in Seq(Byte) /\ Len(p) = 2 /\ p[1] = 1 /\ p[2] = command
  <2>1. 1 \in Byte
    BY DEF Byte
  <2>. QED
    BY <2>1, PairFacts
<1>2. q \in Seq(Byte) /\ Len(q) = 2 /\ q[1] + 256 * q[2] = Len(inner)
  BY LittleEndianFacts
<1>. HIDE DEF p, q
<1>3. /\ head \in Seq(Byte) /\ Len(head) = 2 + 2
      /\ head[1] = p[1] /\ head[2] = p[2] /\ head[3] = q[1] /\ head[4] = q[2]
  <2>1. /\ head \in Seq(Byte) /\ Len(head) = Len(p) + 2
        /\ \A i \in 1 .. Len(p) : head[i] = p[i]
        /\ head[Len(p) + 1] = q[1] /\ head[Len(p) + 2] = q[2]
    BY <1>1, <1>2, PairJoined
  <2>. HIDE DEF head
  <2>. QED
    BY <1>1, <2>1
<1>. HIDE DEF head
<1>4. /\ body \in Seq(Byte) /\ Len(body) = Len(head) + Len(inner)
      /\ \A i \in 1 .. Len(head) : body[i] = head[i]
      /\ \A i \in 1 .. Len(inner) : body[Len(head) + i] = inner[i]
  BY <1>3, JoinedBytes
<1>5. body = C3Body(command, inner)
  BY DEF C3Body, head, p, q
<1>. HIDE DEF body
<1>6. /\ Len(body) = 4 + Len(inner) /\ body[1] = head[1] /\ body[2] = head[2]
      /\ body[3] = head[3] /\ body[4] = head[4]
      /\ \A i \in 1 .. Len(inner) : body[4 + i] = inner[i]
  BY <1>3, <1>4
<1>7. /\ body \in Seq(Byte) /\ Len(body) = 4 + Len(inner)
      /\ body[1] = 1 /\ body[2] = command /\ body[3] + 256 * body[4] = Len(inner)
      /\ \A i \in 1 .. Len(inner) : body[4 + i] = inner[i]
  BY <1>1, <1>2, <1>3, <1>4, <1>6
<1>. QED
  BY <1>5, <1>7

\* Start, body, checksum and end: where each of them is.
LEMMA WrappedFacts ==
  ASSUME NEW body \in Seq(Byte), NEW sum \in Seq(Byte), Len(sum) = 2
  PROVE  LET b == <<170>> \o body \o sum \o <<85>>
             n == Len(body)
         IN  /\ b \in Seq(Byte) /\ Len(b) = n + 4 /\ b[1] = 170
             /\ \A i \in 1 .. n : b[1 + i] = body[i]
             /\ b[n + 2] = sum[1] /\ b[n + 3] = sum[2] /\ b[n + 4] = 85
<1>. DEFINE n == Len(body)
            first == <<170>>
            last == <<85>>
            front == first \o body
            most == front \o sum
            b == most \o last
<1>1. n \in Nat
  OBVIOUS
<1>2. /\ first \in Seq(Byte) /\ Len(first) = 1 /\ first[1] = 170
      /\ last \in Seq(Byte) /\ Len(last) = 1 /\ last[1] = 85
  <2>1. 170 \in Byte /\ 85 \in Byte
    BY DEF Byte
  <2>. QED
    BY <2>1
<1>. HIDE DEF first, last
<1>3. /\ front \in Seq(Byte) /\ Len(front) = n + 1 /\ front[1] = 170
      /\ \A i \in 1 .. n : front[1 + i] = body[i]
  <2>1. /\ front \in Seq(Byte) /\ Len(front) = Len(first) + Len(body)
        /\ \A i \in 1 .. Len(first) : front[i] = first[i]
        /\ \A i \in 1 .. Len(body) : front[Len(first) + i] = body[i]
    <3>1. first \in Seq(Byte) /\ body \in Seq(Byte)
      BY <1>2
    <3>. QED
      BY <3>1, JoinedBytes, Zenon
  <2>. HIDE DEF front
  <2>. QED
    BY <1>1, <1>2, <2>1
<1>. HIDE DEF front
<1>4. /\ most \in Seq(Byte) /\ Len(most) = n + 3
      /\ \A i \in 1 .. n + 1 : most[i] = front[i]
      /\ most[n + 2] = sum[1] /\ most[n + 3] = sum[2]
  <2>1. /\ most \in Seq(Byte) /\ Len(most) = Len(front) + 2
        /\ \A i \in 1 .. Len(front) : most[i] = front[i]
        /\ most[Len(front) + 1] = sum[1] /\ most[Len(front) + 2] = sum[2]
    BY <1>3, PairJoined
  <2>. HIDE DEF most
  <2>2. (n + 1) + 1 = n + 2 /\ (n + 1) + 2 = n + 3
    BY <1>1
  <2>. QED
    BY <1>1, <1>3, <2>1, <2>2
<1>. HIDE DEF most
<1>5. /\ b \in Seq(Byte) /\ Len(b) = n + 4
      /\ \A i \in 1 .. n + 3 : b[i] = most[i]
      /\ b[n + 4] = 85
  <2>1. /\ b \in Seq(Byte) /\ Len(b) = Len(most) + Len(last)
        /\ \A i \in 1 .. Len(most) : b[i] = most[i]
        /\ \A i \in 1 .. Len(last) : b[Len(most) + i] = last[i]
    <3>1. most \in Seq(Byte) /\ last \in Seq(Byte)
      BY <1>2, <1>4
    <3>. QED
      BY <3>1, JoinedBytes, Zenon
  <2>. HIDE DEF b
  <2>2. b[Len(most) + 1] = last[1] /\ (n + 3) + 1 = n + 4
    BY <1>1, <1>2, <2>1
  <2>. QED
    BY <1>1, <1>2, <1>4, <2>1, <2>2
<1>6. b = <<170>> \o body \o sum \o <<85>>
  BY DEF b, most, front, first, last
<1>. HIDE DEF b
<1>7. \A i \in 1 .. n : b[1 + i] = body[i]
  <2>. TAKE i \in 1 .. n
  <2>1. 1 + i \in 1 .. n + 1 /\ 1 + i \in 1 .. n + 3
    BY <1>1
  <2>. QED
    BY <1>3, <1>4, <1>5, <2>1
<1>8. b[1] = 170 /\ b[n + 2] = sum[1] /\ b[n + 3] = sum[2]
  <2>1. 1 \in 1 .. n + 1 /\ 1 \in 1 .. n + 3 /\ n + 2 \in 1 .. n + 3 /\ n + 3 \in 1 .. n + 3
    BY <1>1
  <2>2. b[1] = front[1]
    BY <1>4, <1>5, <2>1
  <2>3. b[n + 2] = sum[1] /\ b[n + 3] = sum[2]
    BY <1>4, <1>5, <2>1
  <2>. QED
    BY <1>3, <2>2, <2>3
<1>. QED
  BY <1>5, <1>6, <1>7, <1>8

\* The frame is one.
LEMMA C3FrameFacts ==
  ASSUME NEW command \in Byte, NEW inner \in Seq(Byte), Len(inner) \in Word
  PROVE  IsC3Frame(C3Frame(command, inner), command, inner)
<1>. DEFINE body == C3Body(command, inner)
            sum == C!LittleEndian16(C!crc16(body))
            b == <<170>> \o body \o sum \o <<85>>
            m == Len(inner)
<1>1. /\ body \in Seq(Byte) /\ Len(body) = 4 + m
      /\ body[1] = 1 /\ body[2] = command /\ body[3] + 256 * body[4] = m
      /\ \A i \in 1 .. m : body[4 + i] = inner[i]
  BY C3BodyFacts
<1>2. b = C3Frame(command, inner)
  BY DEF C3Frame
<1>. HIDE DEF body
<1>3. C!crc16(body) \in Word
  BY <1>1, CrcFacts
<1>4. sum \in Seq(Byte) /\ Len(sum) = 2 /\ sum[1] + 256 * sum[2] = C!crc16(body)
  BY <1>3, LittleEndianFacts
<1>. HIDE DEF sum
<1>5. m \in Nat
  OBVIOUS
<1>6. /\ b \in Seq(Byte) /\ Len(b) = Len(body) + 4 /\ b[1] = 170
      /\ \A i \in 1 .. Len(body) : b[1 + i] = body[i]
      /\ b[Len(body) + 2] = sum[1] /\ b[Len(body) + 3] = sum[2] /\ b[Len(body) + 4] = 85
  <2>1. body \in Seq(Byte) /\ sum \in Seq(Byte) /\ Len(sum) = 2
    BY <1>1, <1>4
  <2>. QED
    BY <2>1, WrappedFacts, SMTT(60)
<1>. HIDE DEF b, m
<1>7. /\ Len(b) = 8 + m /\ b[6 + m] = sum[1] /\ b[7 + m] = sum[2] /\ b[8 + m] = 85
  <2>1. (4 + m) + 4 = 8 + m /\ (4 + m) + 2 = 6 + m /\ (4 + m) + 3 = 7 + m
    BY <1>5
  <2>. QED
    BY <1>1, <1>6, <2>1
<1>8. /\ b[1 + 1] = body[1] /\ b[1 + 2] = body[2] /\ b[1 + 3] = body[3] /\ b[1 + 4] = body[4]
  BY <1>1, <1>5, <1>6
<1>9. \A i \in 1 .. m : b[5 + i] = inner[i]
  <2>. TAKE i \in 1 .. m
  <2>1. 4 + i \in 1 .. Len(body) /\ 1 + (4 + i) = 5 + i
    BY <1>1, <1>5
  <2>. QED
    BY <1>1, <1>6, <2>1
<1>10. SubSeq(b, 2, 5 + m) = body
  <2>1. /\ SubSeq(b, 2, 5 + m) \in Seq(Byte) /\ Len(SubSeq(b, 2, 5 + m)) = ((5 + m) - 2) + 1
        /\ \A i \in 1 .. ((5 + m) - 2) + 1 : SubSeq(b, 2, 5 + m)[i] = b[(2 + i) - 1]
    BY <1>5, <1>6, <1>7, MiddlePiece
  <2>2. ((5 + m) - 2) + 1 = 4 + m /\ \A i \in 1 .. 4 + m : (2 + i) - 1 = 1 + i
    BY <1>5
  <2>3. \A i \in 1 .. Len(body) : SubSeq(b, 2, 5 + m)[i] = body[i]
    BY <1>1, <1>6, <2>1, <2>2
  <2>. QED
    BY <1>1, <2>1, <2>2, <2>3, SeqEqual
<1>11. /\ Len(b) - 2 = 6 + m /\ Len(b) - 1 = 7 + m /\ Len(b) - 3 = 5 + m
  BY <1>5, <1>7
<1>12. /\ b[Len(b) - 2] + 256 * b[Len(b) - 1] = C!crc16(SubSeq(b, 2, Len(b) - 3))
       /\ b[Len(b)] = 85
  BY <1>4, <1>7, <1>10, <1>11
<1>13. b[2] = 1 /\ b[3] = command /\ b[4] + 256 * b[5] = m
  BY <1>1, <1>8
<1>14. IsC3Frame(b, command, inner)
  BY <1>6, <1>7, <1>9, <1>12, <1>13 DEF IsC3Frame, m
<1>. QED
  BY <1>2, <1>14

\* The session block in front of a payload: the session's id and the request's number.
Session(id, nr, block) ==
  IF block THEN C!LittleEndian16(id) \o C!LittleEndian16(nr) ELSE <<>>

\* It has four bytes or none.
LEMMA SessionFacts ==
  ASSUME NEW id \in Word, NEW nr \in Word, NEW block \in BOOLEAN
  PROVE  /\ Session(id, nr, block) \in Seq(Byte)
         /\ Len(Session(id, nr, block)) = IF block THEN 4 ELSE 0
<1>. DEFINE p == C!LittleEndian16(id)
            q == C!LittleEndian16(nr)
<1>1. p \in Seq(Byte) /\ Len(p) = 2 /\ q \in Seq(Byte) /\ Len(q) = 2
  BY LittleEndianFacts
<1>2. Session(id, nr, block) = IF block THEN p \o q ELSE <<>>
  BY DEF Session
<1>. HIDE DEF p, q
<1>3. p \o q \in Seq(Byte) /\ Len(p \o q) = 2 + 2
  BY <1>1, PairJoined
<1>4. <<>> \in Seq(Byte) /\ Len(<<>>) = 0
  OBVIOUS
<1>. QED
  BY <1>2, <1>3, <1>4

\* What the decoder leaves of it.
Carried(inner, block) ==
  IF block /\ Len(inner) >= 4 THEN SubSeq(inner, 5, Len(inner)) ELSE inner

\* What a frame carries: the session block and the payload.
LEMMA InnerFacts ==
  ASSUME NEW id \in Word, NEW nr \in Word, NEW block \in BOOLEAN, NEW payload \in Seq(Byte),
         4 + Len(payload) \in Word
  PROVE  LET inner == Session(id, nr, block) \o payload IN
         /\ inner \in Seq(Byte) /\ Len(inner) \in Word
         /\ Len(inner) = Len(Session(id, nr, block)) + Len(payload)
         /\ Carried(inner, block) = payload
<1>. DEFINE s == Session(id, nr, block)
            inner == s \o payload
<1>1. s \in Seq(Byte) /\ Len(s) = IF block THEN 4 ELSE 0
  BY SessionFacts
<1>. HIDE DEF s
<1>2. /\ inner \in Seq(Byte) /\ Len(inner) = Len(s) + Len(payload) /\ Len(payload) \in Nat
      /\ \A i \in 1 .. Len(payload) : inner[Len(s) + i] = payload[i]
  BY <1>1, JoinedBytes
<1>3. Len(inner) \in Word
  BY <1>1, <1>2 DEF Word
<1>4. CASE block
  <2>1. Len(s) = 4
    BY <1>1, <1>4
  <2>. HIDE DEF inner
  <2>2. Len(inner) = 4 + Len(payload) /\ Len(inner) >= 4
    BY <1>2, <2>1
  <2>3. SubSeq(inner, 5, Len(inner)) = payload
    <3>. DEFINE t == SubSeq(inner, 5, Len(inner))
    <3>1. \A i \in 5 .. Len(inner) : inner[i] \in Byte
      BY <1>2, <2>2
    <3>2. /\ t \in Seq(Byte) /\ Len(t) = (IF 5 <= Len(inner) THEN (Len(inner) - 5) + 1 ELSE 0)
          /\ \A i \in 1 .. (Len(inner) - 5) + 1 : t[i] = inner[(5 + i) - 1]
      BY <1>2, <2>2, <3>1, SubSeqProperties
    <3>. HIDE DEF t
    <3>3. Len(t) = Len(payload) /\ \A i \in 1 .. Len(payload) : t[i] = payload[i]
      <4>1. Len(t) = Len(payload)
        BY <1>2, <2>2, <3>2
      <4>2. ASSUME NEW i \in 1 .. Len(payload)
            PROVE  t[i] = payload[i]
        <5>1. i \in 1 .. (Len(inner) - 5) + 1 /\ (5 + i) - 1 = 4 + i
          BY <1>2, <2>2
        <5>. QED
          BY <1>2, <2>1, <3>2, <5>1
      <4>. QED
        BY <4>1, <4>2
    <3>4. t = payload
      BY <3>2, <3>3, SeqEqual
    <3>. QED
      BY <3>4 DEF t
  <2>. QED
    BY <1>2, <1>3, <1>4, <2>2, <2>3 DEF inner, s, Carried
<1>5. CASE ~block
  <2>1. s = <<>>
    BY <1>5 DEF s, Session
  <2>2. inner = payload
    BY <2>1, ConcatEmptySeq
  <2>. HIDE DEF inner
  <2>. QED
    BY <1>2, <1>3, <1>5, <2>2 DEF inner, s, Carried
<1>. QED
  BY <1>4, <1>5

\* The frame that the application sends.
LEMMA EncodedFrame ==
  ASSUME NEW command \in Byte, NEW id \in Word, NEW nr \in Word, NEW block \in BOOLEAN,
         NEW payload \in Seq(Byte), 4 + Len(payload) \in Word
  PROVE  C!encodeFrame(command, id, nr, payload, block)
         = C3Frame(command, Session(id, nr, block) \o payload)
<1>. DEFINE s == Session(id, nr, block)
            inner == s \o payload
            n == Len(s) + Len(payload)
            head == <<1, command>> \o C!LittleEndian16(n)
<1>1. s \in Seq(Byte) /\ Len(inner) = n /\ n \in Word
  BY SessionFacts, InnerFacts
<1>2. head \in Seq(Byte)
  <2>1. 1 \in Byte
    BY DEF Byte
  <2>2. <<1, command>> \in Seq(Byte) /\ C!LittleEndian16(n) \in Seq(Byte)
    BY <1>1, <2>1, PairFacts, LittleEndianFacts
  <2>. QED
    BY <2>2, JoinedBytes
<1>3. (head \o s) \o payload = head \o inner
  <2>. HIDE DEF head, s
  <2>. QED
    BY <1>1, <1>2, ConcatAssociative
<1>4. C3Body(command, inner) = (head \o s) \o payload
  BY <1>1, <1>3 DEF C3Body
<1>5. C!encodeFrame(command, id, nr, payload, block)
      = <<170>> \o ((head \o s) \o payload)
          \o C!LittleEndian16(C!crc16((head \o s) \o payload)) \o <<85>>
  BY DEF C!encodeFrame, C!kProtocolVersion, C!kFrameStart, C!kFrameEnd, Session
<1>. QED
  BY <1>4, <1>5 DEF C3Frame

\* Two pairs of bytes.
LEMMA TwoPairs ==
  ASSUME NEW a \in Byte, NEW b \in Byte, NEW c \in Byte, NEW d \in Byte
  PROVE  <<a, b>> \o <<c, d>> = <<a, b, c, d>>
<1>. DEFINE p == <<a, b>>
            q == <<c, d>>
            s == p \o q
            t == <<a, b, c, d>>
<1>1. /\ p \in Seq(Byte) /\ Len(p) = 2 /\ p[1] = a /\ p[2] = b
      /\ q \in Seq(Byte) /\ Len(q) = 2 /\ q[1] = c /\ q[2] = d
  BY PairFacts
<1>2. t \in Seq(Byte) /\ Len(t) = 4 /\ t[1] = a /\ t[2] = b /\ t[3] = c /\ t[4] = d
  OBVIOUS
<1>. HIDE DEF p, q, t
<1>3. /\ s \in Seq(Byte) /\ Len(s) = 2 + 2 /\ \A i \in 1 .. 2 : s[i] = p[i]
      /\ s[2 + 1] = q[1] /\ s[2 + 2] = q[2]
  BY <1>1, PairJoined
<1>. HIDE DEF s
<1>4. s[1] = a /\ s[2] = b /\ s[3] = c /\ s[4] = d /\ Len(s) = 4
  BY <1>1, <1>3
<1>5. \A i \in 1 .. 4 : s[i] = t[i]
  BY <1>2, <1>4
<1>6. s = t
  BY <1>2, <1>3, <1>4, <1>5, SeqEqual
<1>. QED
  BY <1>6 DEF s, t, p, q

\* A panel and the application put a frame together in the same way: the code's encoder
\* makes, byte for byte, the frame that the protocol prescribes.
THEOREM SameFrames ==
  ASSUME NEW command \in Byte, NEW id \in Word, NEW block \in BOOLEAN,
         NEW payload \in Seq(Byte), 4 + Len(payload) \in Word
  PROVE  PanelFrame(command, id, payload, block) = C!encodeFrame(command, id, 1, payload, block)
<1>. DEFINE s == Session(id, 1, block)
            inner == s \o payload
            n == Len(s) + Len(payload)
            head == <<1, command>> \o C!LittleEndian16(n)
            body == (head \o s) \o payload
<1>1. 1 \in Word /\ 1 \in Byte /\ 0 \in Byte
  BY DEF Word, Byte
<1>2. s \in Seq(Byte) /\ Len(inner) = n /\ n \in Word
  BY <1>1, SessionFacts, InnerFacts
<1>3. ASSUME NEW v \in Word
      PROVE  C!LittleEndian16(v) = <<Low(v), High(v)>> /\ Low(v) \in Byte /\ High(v) \in Byte
  <2>1. High(v) \in Byte /\ Low(v) \in Byte
    BY BigEndianFacts
  <2>2. (v \div 256) % 256 = v \div 256
    BY <2>1 DEF High, Byte
  <2>. QED
    BY <2>1, <2>2 DEF C!LittleEndian16, High, Low
<1>4. Low(n) \in Byte /\ High(n) \in Byte /\ C!LittleEndian16(n) = <<Low(n), High(n)>>
  BY <1>2, <1>3
<1>5. head = <<1, command, Low(n), High(n)>>
  <2>1. <<1, command>> \o <<Low(n), High(n)>> = <<1, command, Low(n), High(n)>>
    BY <1>1, <1>4, TwoPairs
  <2>. QED
    BY <1>4, <2>1
<1>6. s = IF block THEN <<Low(id), High(id), 1, 0>> ELSE <<>>
  <2>1. C!LittleEndian16(1) = <<1, 0>>
    BY DEF C!LittleEndian16
  <2>2. C!LittleEndian16(id) = <<Low(id), High(id)>> /\ Low(id) \in Byte /\ High(id) \in Byte
    BY <1>3
  <2>3. <<Low(id), High(id)>> \o <<1, 0>> = <<Low(id), High(id), 1, 0>>
    BY <1>1, <2>2, TwoPairs
  <2>. QED
    BY <2>1, <2>2, <2>3 DEF Session
<1>7. PanelFrame(command, id, payload, block) = <<170>> \o body \o PanelChecksum(body) \o <<85>>
  BY <1>5, <1>6, ZenonT(60) DEF PanelFrame
<1>8. head \in Seq(Byte)
  <2>1. <<1, command>> \in Seq(Byte) /\ C!LittleEndian16(n) \in Seq(Byte)
    BY <1>1, <1>2, PairFacts, LittleEndianFacts
  <2>. QED
    BY <2>1, JoinedBytes
<1>9. C3Body(command, inner) = body /\ body \in Seq(Byte)
  <2>1. C3Body(command, inner) = head \o inner
    BY <1>2 DEF C3Body
  <2>2. inner \in Seq(Byte)
    BY <1>1, InnerFacts
  <2>. HIDE DEF head, s
  <2>3. body = head \o inner
    BY <1>2, <1>8, ConcatAssociative
  <2>4. head \o inner \in Seq(Byte)
    BY <1>8, <2>2, JoinedBytes
  <2>. QED
    BY <2>1, <2>3, <2>4
<1>10. PanelChecksum(body) = C!LittleEndian16(C!crc16(body))
  <2>. HIDE DEF body
  <2>. QED
    BY <1>9, ChecksumIsRemainder
<1>11. C!encodeFrame(command, id, 1, payload, block) = C3Frame(command, inner)
  BY <1>1, EncodedFrame
<1>. HIDE DEF body, inner
<1>. QED
  BY <1>7, <1>9, <1>10, <1>11 DEF C3Frame

\* What the decoder compares in a frame of the announced length.
LEMMA IntactIs ==
  ASSUME NEW b, NEW n \in Nat, n >= 8, C!frameSize(b) = n
  PROVE  C!Intact(b) <=> /\ b[1] = 170 /\ b[n] = 85
                         /\ C!crc16(SubSeq(b, 2, n - 3)) = b[n - 2] + 256 * b[n - 1]
<1>1. /\ 0 + 1 = 1 /\ (n - 1) + 1 = n /\ 1 + 1 = 2 /\ 1 + (n - 4) = n - 3
      /\ (n - 3) + 1 = n - 2 /\ ((n - 3) + 1) + 1 = n - 1
  OBVIOUS
<1>2. C!byteAt(b, 0) = b[1] /\ C!byteAt(b, n - 1) = b[n]
  BY <1>1 DEF C!byteAt
<1>3. C!mid(b, 1, n - 4) = SubSeq(b, 2, n - 3)
  BY <1>1 DEF C!mid
<1>4. C!littleEndian16(b, n - 3) = b[n - 2] + 256 * b[n - 1]
  BY <1>1 DEF C!littleEndian16, C!byteAt
<1>. QED
  BY <1>2, <1>3, <1>4 DEF C!Intact, C!kFrameStart, C!kFrameEnd

\* The length that a frame announces.
LEMMA AnnouncedLength ==
  ASSUME NEW b
  PROVE  C!frameSize(b) = 8 + (b[4] + 256 * b[5])
  BY DEF C!frameSize, C!littleEndian16, C!byteAt

\* What is made of a frame with this command and payload.
Taken(command, payload) ==
  IF command = 201 THEN C!Only("Rejected")
  ELSE [status |-> "Ok", command |-> command, value |-> payload]

\* A whole frame is decoded to what it carries, without the session block.
LEMMA C3Decoded ==
  ASSUME NEW b, NEW command \in Byte, NEW inner \in Seq(Byte), IsC3Frame(b, command, inner),
         NEW block \in BOOLEAN
  PROVE  C!decodeFrameGeneric(b, block) = Taken(command, Carried(inner, block))
<1>. DEFINE m == Len(inner)
            n == Len(b)
<1>1. m \in Nat
  OBVIOUS
<1>2. /\ b \in Seq(Byte) /\ n = 8 + m
      /\ b[1] = 170 /\ b[2] = 1 /\ b[3] = command /\ b[4] + 256 * b[5] = m
      /\ \A i \in 1 .. m : b[5 + i] = inner[i]
      /\ b[n - 2] + 256 * b[n - 1] = C!crc16(SubSeq(b, 2, n - 3))
      /\ b[n] = 85
  BY DEF IsC3Frame
<1>. HIDE DEF m, n
<1>3. C!frameSize(b) = n /\ n \in Nat /\ n >= 8 /\ n - 8 = m
  BY <1>1, <1>2, AnnouncedLength
<1>4. C!Intact(b)
  BY <1>2, <1>3, IntactIs
<1>5. ~(n < 5 \/ n < C!frameSize(b))
  BY <1>3
<1>6. C!byteAt(b, 2) = command
  BY <1>2 DEF C!byteAt
<1>7. C!mid(b, 5, m) = inner
  <2>1. C!mid(b, 5, m) = SubSeq(b, 6, 5 + m)
    BY DEF C!mid
  <2>. DEFINE t == SubSeq(b, 6, 5 + m)
  <2>2. \A i \in 6 .. 5 + m : b[i] \in Byte
    BY <1>1, <1>2 DEF n
  <2>3. /\ t \in Seq(Byte) /\ Len(t) = (IF 6 <= 5 + m THEN ((5 + m) - 6) + 1 ELSE 0)
        /\ \A i \in 1 .. ((5 + m) - 6) + 1 : t[i] = b[(6 + i) - 1]
    BY <1>1, <2>2, SubSeqProperties
  <2>. HIDE DEF t
  <2>4. Len(t) = m
    BY <1>1, <2>3
  <2>5. ASSUME NEW i \in 1 .. m
        PROVE  t[i] = inner[i]
    <3>1. i \in 1 .. ((5 + m) - 6) + 1 /\ (6 + i) - 1 = 5 + i
      BY <1>1
    <3>. QED
      BY <1>2, <2>3, <3>1
  <2>6. t = inner
    BY <2>3, <2>4, <2>5, SeqEqual DEF m
  <2>. QED
    BY <2>1, <2>6 DEF t
<1>8. C!mid(inner, 4, m - 4) = SubSeq(inner, 5, m)
  <2>1. 4 + 1 = 5 /\ 4 + (m - 4) = m
    BY <1>1
  <2>. QED
    BY <2>1 DEF C!mid
<1>9. C!decodeFrameGeneric(b, block)
      = IF command = 201 THEN C!Only("Rejected")
        ELSE LET payload == C!mid(b, 5, n - 8) IN
             [status |-> "Ok", command |-> command,
              value |-> IF block /\ Len(payload) >= 4
                        THEN C!mid(payload, 4, Len(payload) - 4) ELSE payload]
  BY <1>3, <1>4, <1>5, <1>6, Zenon DEF C!decodeFrameGeneric, C!kReplyError, n
<1>10. C!decodeFrameGeneric(b, block)
       = IF command = 201 THEN C!Only("Rejected")
         ELSE [status |-> "Ok", command |-> command,
               value |-> IF block /\ m >= 4 THEN C!mid(inner, 4, m - 4) ELSE inner]
  BY <1>3, <1>7, <1>9, Zenon DEF m
<1>. QED
  BY <1>8, <1>10, Zenon DEF m, Taken, Carried

\* Every frame that is sent is decoded to its command and its payload, whatever they are,
\* with and without a session; the code for a rejected command is reported as that.
THEOREM FrameRoundTrip ==
  ASSUME NEW command \in Byte, NEW id \in Word, NEW nr \in Word, NEW block \in BOOLEAN,
         NEW payload \in Seq(Byte), 4 + Len(payload) \in Word
  PROVE  C!decodeFrameGeneric(C!encodeFrame(command, id, nr, payload, block), block)
         = IF command = 201 THEN C!Only("Rejected")
           ELSE [status |-> "Ok", command |-> command, value |-> payload]
<1>. DEFINE inner == Session(id, nr, block) \o payload
            b == C3Frame(command, inner)
<1>1. inner \in Seq(Byte) /\ Len(inner) \in Word /\ Carried(inner, block) = payload
  BY InnerFacts
<1>2. C!encodeFrame(command, id, nr, payload, block) = b
  BY EncodedFrame
<1>. HIDE DEF inner
<1>3. IsC3Frame(b, command, inner)
  BY <1>1, C3FrameFacts
<1>. HIDE DEF b
<1>4. C!decodeFrameGeneric(b, block) = Taken(command, Carried(inner, block))
  BY <1>1, <1>3, C3Decoded
<1>. QED
  BY <1>1, <1>2, <1>4 DEF Taken

\* One byte of a frame other than those of the length is changed: the checks fail.
LEMMA ChangedByte ==
  ASSUME NEW b, NEW command \in Byte, NEW inner \in Seq(Byte), IsC3Frame(b, command, inner),
         NEW i \in 1 .. Len(b), i \notin {4, 5}, NEW v \in Byte, v # b[i]
  PROVE  LET e == [b EXCEPT ![i] = v] IN
         /\ e \in Seq(Byte) /\ Len(e) = Len(b) /\ C!frameSize(e) = Len(b) /\ ~C!Intact(e)
<1>. DEFINE e == [b EXCEPT ![i] = v]
            m == Len(inner)
            n == Len(b)
<1>1. m \in Nat
  OBVIOUS
<1>2. /\ b \in Seq(Byte) /\ n = 8 + m
      /\ b[1] = 170 /\ b[4] + 256 * b[5] = m
      /\ b[n - 2] + 256 * b[n - 1] = C!crc16(SubSeq(b, 2, n - 3))
      /\ b[n] = 85
  BY DEF IsC3Frame
<1>3. /\ e \in Seq(Byte) /\ Len(e) = n
      /\ \A k \in 1 .. n : e[k] = IF k = i THEN v ELSE b[k]
  BY <1>2, ExceptSeq
<1>4. e[i] = v /\ \A k \in 1 .. n : k # i => e[k] = b[k]
  BY <1>3
<1>. HIDE DEF e, m
<1>5. n \in Nat /\ n >= 8 /\ i \in 1 .. n
  BY <1>1, <1>2
<1>6. /\ 4 \in 1 .. n /\ 5 \in 1 .. n /\ 1 \in 1 .. n /\ n \in 1 .. n
      /\ n - 2 \in 1 .. n /\ n - 1 \in 1 .. n
  BY <1>5
<1>7. e[4] = b[4] /\ e[5] = b[5]
  BY <1>4, <1>6
<1>8. C!frameSize(e) = n
  BY <1>2, <1>7, AnnouncedLength
<1>17. /\ Len(b) = n /\ \A k \in 1 .. n : b[k] \in Byte
  BY <1>2
<1>. HIDE DEF n
<1>9. C!Intact(e) <=> /\ e[1] = 170 /\ e[n] = 85
                      /\ C!crc16(SubSeq(e, 2, n - 3)) = e[n - 2] + 256 * e[n - 1]
  BY <1>5, <1>8, IntactIs
<1>. DEFINE p == SubSeq(b, 2, n - 3)
            q == SubSeq(e, 2, n - 3)
<1>10. /\ p \in Seq(Byte) /\ Len(p) = n - 4 /\ \A k \in 1 .. n - 4 : p[k] = b[k + 1]
       /\ q \in Seq(Byte) /\ Len(q) = n - 4 /\ \A k \in 1 .. n - 4 : q[k] = e[k + 1]
  <2>1. /\ 2 \in Nat /\ n - 3 \in Nat /\ 1 <= 2 /\ 2 <= n - 3 /\ n - 3 <= n
        /\ ((n - 3) - 2) + 1 = n - 4
    BY <1>5
  <2>2. /\ p \in Seq(Byte) /\ Len(p) = ((n - 3) - 2) + 1
        /\ \A k \in 1 .. ((n - 3) - 2) + 1 : p[k] = b[(2 + k) - 1]
    <3>1. b \in Seq(Byte) /\ n - 3 <= Len(b)
      BY <1>2, <1>17, <2>1
    <3>. QED
      BY <2>1, <3>1, MiddlePiece
  <2>3. /\ q \in Seq(Byte) /\ Len(q) = ((n - 3) - 2) + 1
        /\ \A k \in 1 .. ((n - 3) - 2) + 1 : q[k] = e[(2 + k) - 1]
    BY <1>3, <2>1, MiddlePiece
  <2>4. \A k \in 1 .. n - 4 : (2 + k) - 1 = k + 1
    BY <1>5
  <2>. QED
    BY <2>1, <2>2, <2>3, <2>4
<1>11. \A k \in 1 .. n - 4 : k + 1 \in 1 .. n
  BY <1>5
<1>18. /\ C!crc16(p) = b[n - 2] + 256 * b[n - 1]
       /\ C!Intact(e) => C!crc16(q) = e[n - 2] + 256 * e[n - 1]
  BY <1>2, <1>9
<1>. HIDE DEF p, q
<1>12. ASSUME i = 1 \/ i = n
       PROVE  ~C!Intact(e)
  <2>1. CASE i = 1
    BY <1>2, <1>4, <1>9, <2>1, SMTT(30)
  <2>2. CASE i = n
    BY <1>2, <1>4, <1>9, <2>2, SMTT(30)
  <2>. QED
    BY <1>12, <2>1, <2>2
<1>13. ASSUME i # 1 /\ i # n /\ (i = n - 2 \/ i = n - 1)
       PROVE  ~C!Intact(e)
  <2>1. \A k \in 1 .. n - 4 : k + 1 # i
    BY <1>5, <1>13
  <2>2. \A k \in 1 .. n - 4 : q[k] = p[k]
    BY <1>4, <1>10, <1>11, <2>1
  <2>3. q = p
    BY <1>10, <2>2, SeqEqual
  <2>4. b[n - 2] \in Byte /\ b[n - 1] \in Byte
    BY <1>6, <1>17
  <2>5. CASE i = n - 2
    <3>1. e[n - 2] = v /\ e[n - 1] = b[n - 1] /\ v # b[n - 2]
      BY <1>4, <1>5, <1>6, <2>5
    <3>2. PICK x \in Byte, y \in Byte : x = b[n - 2] /\ y = b[n - 1]
      BY <2>4
    <3>3. v # x
      BY <3>1, <3>2
    <3>4. v + 256 * y # x + 256 * y
      BY <3>3 DEF Byte
    <3>. QED
      BY <1>18, <2>3, <3>1, <3>2, <3>4
  <2>6. CASE i = n - 1
    <3>1. e[n - 2] = b[n - 2] /\ e[n - 1] = v /\ v # b[n - 1]
      BY <1>4, <1>5, <1>6, <2>6
    <3>2. PICK x \in Byte, y \in Byte : x = b[n - 2] /\ y = b[n - 1]
      BY <2>4
    <3>3. v # y
      BY <3>1, <3>2
    <3>4. x + 256 * v # x + 256 * y
      BY <3>3 DEF Byte
    <3>. QED
      BY <1>18, <2>3, <3>1, <3>2, <3>4
  <2>. QED
    BY <1>13, <2>5, <2>6
<1>14. ASSUME i # 1 /\ i # n /\ i # n - 2 /\ i # n - 1
       PROVE  ~C!Intact(e)
  <2>. DEFINE j == i - 1
  <2>1. j \in 1 .. n - 4 /\ j + 1 = i
    BY <1>5, <1>14
  <2>. HIDE DEF j
  <2>2. q[j] = v /\ p[j] = b[i]
    BY <1>4, <1>10, <2>1
  <2>3. ASSUME NEW k \in 1 .. n - 4, k # j
        PROVE  q[k] = p[k]
    <3>1. k + 1 # i /\ k + 1 \in 1 .. n
      BY <1>5, <2>1, <2>3
    <3>. QED
      BY <1>4, <1>10, <3>1
  <2>4. C!crc16(q) # C!crc16(p)
    <3>1. /\ Len(q) = Len(p) /\ j \in 1 .. Len(p) /\ q[j] # p[j]
          /\ \A k \in 1 .. Len(p) : k # j => q[k] = p[k]
      BY <1>10, <2>1, <2>2, <2>3
    <3>. QED
      BY <1>10, <3>1, CrcFacts
  <2>5. e[n - 2] = b[n - 2] /\ e[n - 1] = b[n - 1]
    BY <1>4, <1>6, <1>14
  <2>. QED
    BY <1>18, <2>4, <2>5
<1>15. ~C!Intact(e)
  <2>1. \/ i = 1 \/ i = n
        \/ i # 1 /\ i # n /\ (i = n - 2 \/ i = n - 1)
        \/ i # 1 /\ i # n /\ i # n - 2 /\ i # n - 1
    OBVIOUS
  <2>. QED
    BY <1>12, <1>13, <1>14, <2>1
<1>16. C!frameSize(e) = Len(b) /\ Len(e) = Len(b)
  BY <1>3, <1>8 DEF n
<1>. QED
  BY <1>3, <1>15, <1>16 DEF e

\* The payload of an answer that counts: four bytes, after the session block if there is one.
CountedIn(block) == IF block THEN 8 ELSE 4

\* A count is taken only from an intact frame that announces just this payload.
LEMMA CountTaken ==
  ASSUME NEW data \in Seq(Byte), NEW block \in BOOLEAN,
         C!decodeGetDataCountResponse(data, block).status = "Ok"
  PROVE  /\ Len(data) >= 5 /\ ~(Len(data) < C!frameSize(data))
         /\ C!Intact(data) /\ C!frameSize(data) = 8 + CountedIn(block)
<1>. DEFINE frame == C!decodeFrameGeneric(data, block)
            m == data[4] + 256 * data[5]
            payload == C!mid(data, 5, C!frameSize(data) - 8)
            value == IF block /\ Len(payload) >= 4
                     THEN C!mid(payload, 4, Len(payload) - 4) ELSE payload
<1>1. frame.status = "Ok" /\ Len(frame.value) = 4
  <2>1. C!decodeGetDataCountResponse(data, block)
        = IF frame.status # "Ok" THEN frame
          ELSE IF Len(frame.value) # 4 THEN C!Only("Malformed")
          ELSE [status |-> "Ok", value |-> <<C!littleEndian32(frame.value, 0)>>]
    BY DEF C!decodeGetDataCountResponse
  <2>2. C!Only("Malformed").status # "Ok"
    BY DEF C!Only
  <2>. HIDE DEF frame
  <2>. QED
    BY <2>1, <2>2
<1>2. /\ ~(Len(data) < 5 \/ Len(data) < C!frameSize(data)) /\ C!Intact(data)
      /\ frame.value = value
  <2>1. frame = IF Len(data) < 5 \/ Len(data) < C!frameSize(data) THEN C!Only("Incomplete")
                ELSE IF ~C!Intact(data) THEN C!Only("Malformed")
                ELSE IF C!byteAt(data, 2) = C!kReplyError THEN C!Only("Rejected")
                ELSE [status |-> "Ok", command |-> C!byteAt(data, 2), value |-> value]
    BY Zenon DEF C!decodeFrameGeneric
  <2>2. /\ C!Only("Malformed").status # "Ok" /\ C!Only("Incomplete").status # "Ok"
        /\ C!Only("Rejected").status # "Ok"
    BY DEF C!Only
  <2>. HIDE DEF frame, value
  <2>. QED
    BY <1>1, <2>1, <2>2
<1>3. Len(data) \in Nat /\ data[4] \in Byte /\ data[5] \in Byte /\ Len(data) >= 5
  BY <1>2
<1>4. C!frameSize(data) = 8 + m
  BY AnnouncedLength
<1>5. m \in Nat
  <2>1. PICK x \in Byte, y \in Byte : x = data[4] /\ y = data[5]
    BY <1>3
  <2>. QED
    BY <2>1 DEF Byte
<1>. HIDE DEF m, frame
<1>6. C!frameSize(data) - 8 = m /\ 8 + m <= Len(data)
  BY <1>2, <1>3, <1>4, <1>5
<1>7. payload = SubSeq(data, 6, 5 + m)
  <2>1. 5 + 1 = 6
    OBVIOUS
  <2>. QED
    BY <1>6, <2>1 DEF C!mid
<1>8. payload \in Seq(Byte) /\ Len(payload) = m
  <2>1. \A i \in 6 .. 5 + m : data[i] \in Byte
    BY <1>3, <1>5, <1>6
  <2>2. /\ SubSeq(data, 6, 5 + m) \in Seq(Byte)
        /\ Len(SubSeq(data, 6, 5 + m)) = (IF 6 <= 5 + m THEN ((5 + m) - 6) + 1 ELSE 0)
    BY <1>5, <2>1, SubSeqProperties
  <2>3. (IF 6 <= 5 + m THEN ((5 + m) - 6) + 1 ELSE 0) = m
    BY <1>5
  <2>. QED
    BY <1>7, <2>2, <2>3
<1>. HIDE DEF payload
<1>9. m >= 4 => Len(C!mid(payload, 4, m - 4)) = m - 4
  <2>. HAVE m >= 4
  <2>1. C!mid(payload, 4, m - 4) = SubSeq(payload, 5, m)
    <3>1. 4 + 1 = 5 /\ 4 + (m - 4) = m
      BY <1>5
    <3>. QED
      BY <3>1 DEF C!mid
  <2>2. \A i \in 5 .. m : payload[i] \in Byte
    BY <1>5, <1>8
  <2>3. Len(SubSeq(payload, 5, m)) = (IF 5 <= m THEN (m - 5) + 1 ELSE 0)
    BY <1>5, <2>2, SubSeqProperties
  <2>. QED
    BY <1>5, <2>1, <2>3
<1>10. value = IF block /\ m >= 4 THEN C!mid(payload, 4, m - 4) ELSE payload
  BY <1>8
<1>11. Len(value) = 4
  BY <1>1, <1>2
<1>. HIDE DEF value
<1>12. m = CountedIn(block)
  <2>1. CASE block /\ m >= 4
    <3>1. CountedIn(block) = 8
      BY <2>1 DEF CountedIn
    <3>2. value = C!mid(payload, 4, m - 4)
      BY <1>10, <2>1
    <3>3. m - 4 = 4
      BY <1>9, <1>11, <2>1, <3>2
    <3>. QED
      BY <1>5, <3>1, <3>3
  <2>2. CASE ~block
    <3>1. CountedIn(block) = 4
      BY <2>2 DEF CountedIn
    <3>2. value = payload
      BY <1>10, <2>2
    <3>. QED
      BY <1>8, <1>11, <3>1, <3>2
  <2>3. CASE ~(m >= 4)
    <3>1. value = payload
      BY <1>10, <2>3
    <3>2. m = 4
      BY <1>8, <1>11, <3>1
    <3>. QED
      BY <2>3, <3>2
  <2>. QED
    BY <2>1, <2>2, <2>3
<1>. QED
  BY <1>2, <1>3, <1>4, <1>12

\* The answer to a count with one byte changed on its way.
IsGarbled(bytes, block) ==
  \E b, inner \in Seq(Byte) :
    /\ IsC3Frame(b, 200, inner) /\ Len(inner) = CountedIn(block)
    /\ \E i \in 1 .. Len(b), v \in Byte : v # b[i] /\ bytes = [b EXCEPT ![i] = v]

\* It is refused, whatever of it has arrived: the checksum tells where the length is
\* as it was, and no other length is that of a count.
LEMMA GarbledFacts ==
  ASSUME NEW bytes, NEW block \in BOOLEAN, IsGarbled(bytes, block), NEW g \in Nat, g <= Len(bytes)
  PROVE  C!decodeGetDataCountResponse(SubSeq(bytes, 1, g), block).status # "Ok"
<1>1. PICK b \in Seq(Byte), inner \in Seq(Byte) :
        /\ IsC3Frame(b, 200, inner) /\ Len(inner) = CountedIn(block)
        /\ \E i \in 1 .. Len(b), v \in Byte : v # b[i] /\ bytes = [b EXCEPT ![i] = v]
  BY DEF IsGarbled
<1>2. PICK i \in 1 .. Len(b), v \in Byte : v # b[i] /\ bytes = [b EXCEPT ![i] = v]
  BY <1>1
<1>3. 200 \in Byte
  BY DEF Byte
<1>4. /\ bytes \in Seq(Byte) /\ Len(bytes) = Len(b)
      /\ \A k \in 1 .. Len(b) : bytes[k] = IF k = i THEN v ELSE b[k]
  BY <1>2, ExceptSeq
<1>5. /\ Len(b) = 8 + CountedIn(block) /\ b[4] + 256 * b[5] = CountedIn(block)
  BY <1>1 DEF IsC3Frame
<1>. DEFINE data == SubSeq(bytes, 1, g)
<1>6. /\ data \in Seq(Byte) /\ Len(data) = g /\ \A k \in 1 .. g : data[k] = bytes[k]
  <2>1. \A k \in 1 .. g : bytes[k] \in Byte
    BY <1>4
  <2>2. /\ data \in Seq(Byte) /\ Len(data) = (IF 1 <= g THEN (g - 1) + 1 ELSE 0)
        /\ \A k \in 1 .. (g - 1) + 1 : data[k] = bytes[(1 + k) - 1]
    BY <2>1, SubSeqProperties
  <2>. HIDE DEF data
  <2>. QED
    BY <2>2
<1>. HIDE DEF data
<1>7. SUFFICES ASSUME C!decodeGetDataCountResponse(data, block).status = "Ok"
               PROVE  FALSE
  BY DEF data
<1>8. /\ Len(data) >= 5 /\ ~(Len(data) < C!frameSize(data))
      /\ C!Intact(data) /\ C!frameSize(data) = 8 + CountedIn(block)
  BY <1>6, <1>7, CountTaken
<1>9. CountedIn(block) \in Nat
  BY DEF CountedIn
<1>10. g = Len(b)
  BY <1>4, <1>5, <1>6, <1>8, <1>9
<1>11. data = bytes
  BY <1>4, <1>6, <1>10, SeqEqual
<1>12. CASE i \notin {4, 5}
  <2>1. ~C!Intact([b EXCEPT ![i] = v])
    BY <1>1, <1>2, <1>3, <1>12, ChangedByte
  <2>. QED
    BY <1>2, <1>8, <1>11, <2>1
<1>13. CASE i \in {4, 5}
  <2>1. 4 \in 1 .. Len(b) /\ 5 \in 1 .. Len(b)
    BY <1>5, <1>9
  <2>2. C!frameSize(data) = 8 + (bytes[4] + 256 * bytes[5])
    BY <1>11, AnnouncedLength
  <2>3. PICK x \in Byte, y \in Byte : x = b[4] /\ y = b[5]
    BY <2>1
  <2>4. CASE i = 4
    <3>1. bytes[4] = v /\ bytes[5] = y /\ v # x
      BY <1>2, <1>4, <2>1, <2>3, <2>4
    <3>2. v + 256 * y # x + 256 * y /\ v + 256 * y \in Int /\ x + 256 * y \in Int
      BY <3>1 DEF Byte
    <3>3. 8 + (v + 256 * y) = 8 + (x + 256 * y)
      BY <1>5, <1>8, <2>2, <2>3, <3>1
    <3>. QED
      BY <3>2, <3>3
  <2>5. CASE i = 5
    <3>1. bytes[4] = x /\ bytes[5] = v /\ v # y
      BY <1>2, <1>4, <2>1, <2>3, <2>5
    <3>2. x + 256 * v # x + 256 * y /\ x + 256 * v \in Int /\ x + 256 * y \in Int
      BY <3>1 DEF Byte
    <3>3. 8 + (x + 256 * v) = 8 + (x + 256 * y)
      BY <1>5, <1>8, <2>2, <2>3, <3>1
    <3>. QED
      BY <3>2, <3>3
  <2>. QED
    BY <1>13, <2>4, <2>5
<1>. QED
  BY <1>12, <1>13

-----------------------------------------------------------------------------
(* A panel's frames: how long they say they are. *)

\* One sequence behind another, of whatever elements.
LEMMA JoinedFacts ==
  ASSUME NEW S, NEW s \in Seq(S), NEW u \in Seq(S)
  PROVE  /\ s \o u \in Seq(S) /\ Len(s \o u) = Len(s) + Len(u)
         /\ Len(s) \in Nat /\ Len(u) \in Nat
         /\ \A i \in 1 .. Len(s) : (s \o u)[i] = s[i]
<1>1. /\ s \o u \in Seq(S) /\ Len(s \o u) = Len(s) + Len(u)
      /\ \A i \in 1 .. Len(s) + Len(u) :
           (s \o u)[i] = IF i <= Len(s) THEN s[i] ELSE u[i - Len(s)]
  BY ConcatProperties
<1>2. Len(s) \in Nat /\ Len(u) \in Nat
  OBVIOUS
<1>. QED
  BY <1>1, <1>2

\* b is a sequence whose length field counts what lies between header and checksum.
IsPanelFrame(b) ==
  /\ b \in Seq({b[i] : i \in 1 .. Len(b)})
  /\ Len(b) >= 8 /\ b[4] + 256 * b[5] = Len(b) - 8

\* A sequence is one of its own elements.
LEMMA OwnElements ==
  ASSUME NEW S, NEW b \in Seq(S)
  PROVE  b \in Seq({b[i] : i \in 1 .. Len(b)})
<1>1. Len(b) \in Nat /\ b = [i \in 1 .. Len(b) |-> b[i]]
  OBVIOUS
<1>2. b \in [1 .. Len(b) -> {b[i] : i \in 1 .. Len(b)}]
  BY <1>1, Zenon
<1>. QED
  BY <1>1, <1>2, FunctionIsSequence

\* A frame of the codec is such a frame.
LEMMA FrameLength ==
  ASSUME NEW b, NEW command, NEW inner \in Seq(Byte), IsC3Frame(b, command, inner)
  PROVE  IsPanelFrame(b)
<1>1. b \in Seq(Byte) /\ Len(b) = 8 + Len(inner) /\ b[4] + 256 * b[5] = Len(inner)
  BY DEF IsC3Frame
<1>2. Len(inner) \in Nat
  OBVIOUS
<1>3. b \in Seq({b[i] : i \in 1 .. Len(b)})
  BY <1>1, OwnElements
<1>. QED
  BY <1>1, <1>2, <1>3 DEF IsPanelFrame

\* What a panel sends is a frame around the session block and the payload.
LEMMA PanelFrameFacts ==
  ASSUME NEW command \in Byte, NEW id \in Word, NEW payload \in Seq(Byte),
         4 + Len(payload) \in Word, NEW block \in BOOLEAN
  PROVE  LET inner == Session(id, 1, block) \o payload IN
         /\ inner \in Seq(Byte) /\ Len(inner) = (IF block THEN 4 ELSE 0) + Len(payload)
         /\ Carried(inner, block) = payload
         /\ IsC3Frame(PanelFrame(command, id, payload, block), command, inner)
<1>. DEFINE inner == Session(id, 1, block) \o payload
<1>1. 1 \in Word
  BY DEF Word
<1>2. /\ inner \in Seq(Byte) /\ Len(inner) \in Word /\ Carried(inner, block) = payload
      /\ Len(inner) = Len(Session(id, 1, block)) + Len(payload)
  BY <1>1, InnerFacts
<1>3. Len(Session(id, 1, block)) = IF block THEN 4 ELSE 0
  BY <1>1, SessionFacts
<1>4. PanelFrame(command, id, payload, block) = C3Frame(command, inner)
  BY <1>1, SameFrames, EncodedFrame
<1>. HIDE DEF inner
<1>5. IsC3Frame(C3Frame(command, inner), command, inner)
  BY <1>2, C3FrameFacts
<1>6. Len(inner) = (IF block THEN 4 ELSE 0) + Len(payload)
  BY <1>2, <1>3
<1>. QED
  BY <1>2, <1>4, <1>5, <1>6 DEF inner

\* While a part of a panel's frame is there, every decoder waits.
LEMMA PartOfPanelFrame ==
  ASSUME NEW b, IsPanelFrame(b), NEW k \in Nat, k < Len(b), NEW block
  PROVE  C!decodeFrameGeneric(SubSeq(b, 1, k), block) = C!Only("Incomplete")
<1>. DEFINE data == SubSeq(b, 1, k)
            S == {b[i] : i \in 1 .. Len(b)}
<1>1. b \in Seq(S) /\ Len(b) >= 8 /\ b[4] + 256 * b[5] = Len(b) - 8 /\ Len(b) \in Nat
  BY DEF IsPanelFrame
<1>. HIDE DEF S
<1>2. Len(data) = k /\ \A i \in 1 .. k : data[i] = b[i]
  <2>1. b \in Seq(S) /\ k <= Len(b)
    BY <1>1
  <2>. QED
    BY <2>1, Piece, Zenon
<1>. HIDE DEF data
<1>3. CASE k < 5
  <2>1. Len(data) < 5
    BY <1>2, <1>3
  <2>. QED
    BY <2>1 DEF C!decodeFrameGeneric, data
<1>4. CASE k >= 5
  <2>1. data[4] = b[4] /\ data[5] = b[5]
    BY <1>2, <1>4
  <2>2. C!frameSize(data) = Len(b)
    BY <1>1, <2>1 DEF C!frameSize, C!littleEndian16, C!byteAt
  <2>3. Len(data) < C!frameSize(data)
    BY <1>2, <2>2
  <2>. QED
    BY <2>3 DEF C!decodeFrameGeneric, data
<1>. QED
  BY <1>3, <1>4

\* The decoders that onSocketReadyRead() may call.
PanelDecoders == {"session", "generic", "count", "chunk", "rows", "log"}

\* So what is announced of it is that it is incomplete.
LEMMA PanelWaits ==
  ASSUME line.kind = "panel", line.name \in PanelDecoders, IsPanelFrame(line.bytes),
         got \in Nat, got < Len(line.bytes)
  PROVE  Decoded.status = "Incomplete"
<1>. DEFINE data == SubSeq(line.bytes, 1, got)
<1>1. \A block : C!decodeFrameGeneric(data, block) = C!Only("Incomplete")
  BY PartOfPanelFrame
<1>2. C!Only("Incomplete").status = "Incomplete"
  BY DEF C!Only
<1>3. line.kind # "modbus"
  OBVIOUS
<1>. HIDE DEF data
<1>4. CASE line.name = "session"
  <2>1. Decoded = C!decodeConnectSessionResponse(data)
    BY <1>3, <1>4 DEF Decoded, Heard, data
  <2>2. C!decodeConnectSessionResponse(data).status = "Incomplete"
    BY <1>1, <1>2 DEF C!decodeConnectSessionResponse
  <2>. QED
    BY <2>1, <2>2
<1>5. CASE line.name = "generic"
  <2>1. Decoded = C!decodeGenericReply(data)
    BY <1>3, <1>5 DEF Decoded, Heard, data
  <2>2. C!decodeGenericReply(data).status = "Incomplete"
    BY <1>1, <1>2 DEF C!decodeGenericReply
  <2>. QED
    BY <2>1, <2>2
<1>6. CASE line.name = "count"
  <2>1. Decoded = C!decodeGetDataCountResponse(data, line.block)
    BY <1>3, <1>6 DEF Decoded, Heard, data
  <2>2. C!decodeGetDataCountResponse(data, line.block).status = "Incomplete"
    BY <1>1, <1>2 DEF C!decodeGetDataCountResponse
  <2>. QED
    BY <2>1, <2>2
<1>7. CASE line.name = "chunk"
  <2>1. Decoded = C!decodeTransmitDataResponse(data, line.block)
    BY <1>3, <1>7 DEF Decoded, Heard, data
  <2>2. C!decodeTransmitDataResponse(data, line.block).status = "Incomplete"
    BY <1>1, <1>2 DEF C!decodeTransmitDataResponse
  <2>. QED
    BY <2>1, <2>2
<1>8. CASE line.name = "rows"
  <2>1. Decoded = C!decodeGetDataResponse(data, 3, ColumnKinds, line.block)
    BY <1>3, <1>8 DEF Decoded, Heard, data
  <2>2. C!decodeGetDataResponse(data, 3, ColumnKinds, line.block).status = "Incomplete"
    BY <1>1, <1>2 DEF C!decodeGetDataResponse
  <2>. QED
    BY <2>1, <2>2
<1>9. CASE line.name = "log"
  <2>1. Decoded.status = C!decodeRtlogBinaryResponse(data, line.block).status
    BY <1>3, <1>9 DEF Decoded, Heard, data
  <2>2. C!decodeRtlogBinaryResponse(data, line.block).status = "Incomplete"
    BY <1>1, <1>2 DEF C!decodeRtlogBinaryResponse
  <2>. QED
    BY <2>1, <2>2
<1>. QED
  BY <1>4, <1>5, <1>6, <1>7, <1>8, <1>9 DEF PanelDecoders

\* At most n bytes.
AtMost(s, n) == s \in Seq(Byte) /\ Len(s) <= n

\* The bounds of two pieces add up.
LEMMA AtMostJoined ==
  ASSUME NEW s, NEW m \in Nat, AtMost(s, m), NEW u, NEW n \in Nat, AtMost(u, n)
  PROVE  AtMost(s \o u, m + n)
<1>1. s \in Seq(Byte) /\ Len(s) <= m /\ u \in Seq(Byte) /\ Len(u) <= n
  BY DEF AtMost
<1>2. s \o u \in Seq(Byte) /\ Len(s \o u) = Len(s) + Len(u) /\ Len(s) \in Nat /\ Len(u) \in Nat
  BY <1>1, JoinedFacts
<1>. QED
  BY <1>1, <1>2 DEF AtMost

\* A number of 32 bits.
LEMMA LongFacts ==
  ASSUME NEW w \in Word
  PROVE  AtMost(Long(w), 4)
<1>1. Low(w) \in Byte /\ High(w) \in Byte /\ 0 \in Byte
  BY BigEndianFacts DEF Byte
<1>. QED
  BY <1>1 DEF Long, AtMost

\* A cell of a table.
LEMMA CountedAtMost ==
  ASSUME NEW bytes, AtMost(bytes, 2)
  PROVE  AtMost(Counted(bytes), 3)
<1>. DEFINE t == Counted(bytes)
<1>1. bytes \in Seq(Byte) /\ Len(bytes) <= 2 /\ Len(bytes) \in Nat
  BY DEF AtMost
<1>2. Len(bytes) \in Byte
  BY <1>1 DEF Byte
<1>3. t \in Seq(Byte) /\ Len(t) = 1 + Len(bytes)
  BY <1>1, <1>2, CountedFacts
<1>. HIDE DEF t
<1>4. AtMost(t, 3)
  BY <1>1, <1>3 DEF AtMost
<1>. QED
  BY <1>4 DEF t

\* A row of the table.
LEMMA RowFacts ==
  ASSUME NEW row \in Rows \cup {NoRow}
  PROVE  AtMost(RowBytes(row), 6)
<1>1. 0 \in Byte /\ 1 \in Byte /\ 2 \in Byte /\ 65 \in Byte /\ 66 \in Byte
  BY DEF Byte
<1>2. CASE row = NoRow
  <2>1. RowBytes(row) = <<>>
    BY <1>2 DEF RowBytes
  <2>. QED
    BY <2>1 DEF AtMost
<1>3. CASE row # NoRow
  <2>. DEFINE first == IF row[1] = 0 THEN <<>> ELSE <<Low(row[1]), High(row[1])>>
              second == row[2]
  <2>1. row[1] \in Word /\ second \in Seq(Byte) /\ Len(second) <= 2
    <3>1. CASE row = <<0, <<>> >>
      BY <3>1 DEF Word
    <3>2. CASE row = <<5, <<65>> >>
      BY <1>1, <3>2 DEF Word
    <3>3. CASE row = <<300, <<65, 66>> >>
      BY <1>1, <3>3 DEF Word
    <3>. QED
      BY <1>3, <3>1, <3>2, <3>3 DEF Rows
  <2>2. first \in Seq(Byte) /\ Len(first) <= 2
    <3>1. Low(row[1]) \in Byte /\ High(row[1]) \in Byte
      BY <2>1, BigEndianFacts
    <3>. QED
      BY <3>1
  <2>3. RowBytes(row) = Counted(first) \o Counted(second)
    BY <1>3 DEF RowBytes
  <2>. HIDE DEF first, second
  <2>4. AtMost(first, 2) /\ AtMost(second, 2)
    BY <2>1, <2>2 DEF AtMost
  <2>5. AtMost(Counted(first), 3) /\ AtMost(Counted(second), 3)
    BY <2>4, CountedAtMost
  <2>6. AtMost(Counted(first) \o Counted(second), 3 + 3)
    BY <2>5, AtMostJoined
  <2>. QED
    BY <2>3, <2>6
<1>. QED
  BY <1>2, <1>3

\* An entry of the log.
LEMMA LogFacts ==
  ASSUME NEW card \in Word, NEW event \in Byte, NEW time \in Times
  PROVE  AtMost(LogBytes(card, event, time), 16)
<1>. DEFINE t == Clock(time)
            p1 == Long(card)
            p2 == Long(7)
            p3 == <<1, 2, event, 3>>
            p4 == <<t % 256, (t \div 256) % 256, (t \div 65536) % 256, (t \div 16777216) % 256>>
<1>1. t \in Int
  BY DEF Clock, Times
<1>2. LogBytes(card, event, time) = p1 \o p2 \o p3 \o p4
  BY DEF LogBytes
<1>. HIDE DEF t
<1>3. AtMost(p1, 4) /\ AtMost(p2, 4)
  <2>1. 7 \in Word
    BY DEF Word
  <2>. QED
    BY <2>1, LongFacts
<1>4. AtMost(p3, 4)
  <2>1. 1 \in Byte /\ 2 \in Byte /\ 3 \in Byte
    BY DEF Byte
  <2>. QED
    BY <2>1 DEF AtMost
<1>5. AtMost(p4, 4)
  <2>1. /\ t % 256 \in Byte /\ (t \div 256) % 256 \in Byte
        /\ (t \div 65536) % 256 \in Byte /\ (t \div 16777216) % 256 \in Byte
    BY <1>1 DEF Byte
  <2>. QED
    BY <2>1 DEF AtMost
<1>. HIDE DEF p1, p2, p3, p4
<1>6. AtMost(p1 \o p2, 4 + 4)
  BY <1>3, AtMostJoined
<1>7. AtMost((p1 \o p2) \o p3, (4 + 4) + 4)
  BY <1>4, <1>6, AtMostJoined
<1>8. AtMost(((p1 \o p2) \o p3) \o p4, ((4 + 4) + 4) + 4)
  BY <1>5, <1>7, AtMostJoined
<1>. QED
  BY <1>2, <1>8

\* An announcement of more data.
LEMMA AnnouncementFacts ==
  ASSUME NEW packed \in {0, 1}, NEW w \in Word
  PROVE  AtMost(<<packed>> \o Long(w) \o Long(2) \o Long(3) \o Long(4), 17)
<1>. DEFINE p0 == <<packed>>
            p1 == Long(w)
            p2 == Long(2)
            p3 == Long(3)
            p4 == Long(4)
<1>1. AtMost(p0, 1)
  <2>1. packed \in Byte
    BY DEF Byte
  <2>. QED
    BY <2>1 DEF AtMost
<1>2. AtMost(p1, 4) /\ AtMost(p2, 4) /\ AtMost(p3, 4) /\ AtMost(p4, 4)
  <2>1. 2 \in Word /\ 3 \in Word /\ 4 \in Word
    BY DEF Word
  <2>. QED
    BY <2>1, LongFacts
<1>. HIDE DEF p0, p1, p2, p3, p4
<1>3. AtMost(p0 \o p1, 1 + 4)
  BY <1>1, <1>2, AtMostJoined
<1>4. AtMost((p0 \o p1) \o p2, (1 + 4) + 4)
  BY <1>2, <1>3, AtMostJoined
<1>5. AtMost(((p0 \o p1) \o p2) \o p3, ((1 + 4) + 4) + 4)
  BY <1>2, <1>4, AtMostJoined
<1>6. AtMost((((p0 \o p1) \o p2) \o p3) \o p4, (((1 + 4) + 4) + 4) + 4)
  BY <1>2, <1>5, AtMostJoined
<1>. QED
  BY <1>6 DEF p0, p1, p2, p3, p4

\* A part of a table, and the rows of another.
LEMMA DataFacts ==
  /\ \A w \in Word : \A data \in {<<>>, <<85>>, <<170, 85>>} : AtMost(Long(w) \o data, 6)
  /\ \A r, s \in Rows \cup {NoRow} : AtMost(<<3, 2, 1, 2>> \o RowBytes(r) \o RowBytes(s), 16)
<1>1. ASSUME NEW w \in Word, NEW data \in {<<>>, << 85 >>, <<170, 85>>}
      PROVE  AtMost(Long(w) \o data, 6)
  <2>1. 85 \in Byte /\ 170 \in Byte
    BY DEF Byte
  <2>2. AtMost(data, 2)
    <3>1. CASE data = <<>>
      BY <3>1 DEF AtMost
    <3>2. CASE data = <<85>>
      BY <2>1, <3>2 DEF AtMost
    <3>3. CASE data = <<170, 85>>
      BY <2>1, <3>3 DEF AtMost
    <3>. QED
      BY <3>1, <3>2, <3>3
  <2>3. AtMost(Long(w), 4)
    BY LongFacts
  <2>4. AtMost(Long(w) \o data, 4 + 2)
    BY <2>2, <2>3, AtMostJoined
  <2>. QED
    BY <2>4
<1>2. ASSUME NEW r \in Rows \cup {NoRow}, NEW s \in Rows \cup {NoRow}
      PROVE  AtMost(<<3, 2, 1, 2>> \o RowBytes(r) \o RowBytes(s), 16)
  <2>. DEFINE p == <<3, 2, 1, 2>>
  <2>1. 1 \in Byte /\ 2 \in Byte /\ 3 \in Byte
    BY DEF Byte
  <2>2. AtMost(p, 4)
    BY <2>1 DEF AtMost
  <2>. HIDE DEF p
  <2>3. AtMost(RowBytes(r), 6) /\ AtMost(RowBytes(s), 6)
    BY RowFacts
  <2>4. AtMost(p \o RowBytes(r), 4 + 6)
    BY <2>2, <2>3, AtMostJoined
  <2>5. AtMost((p \o RowBytes(r)) \o RowBytes(s), (4 + 6) + 6)
    BY <2>3, <2>4, AtMostJoined
  <2>. QED
    BY <2>5 DEF p
<1>. QED
  BY <1>1, <1>2

-----------------------------------------------------------------------------
(* What a panel and the codec make of a frame. *)

\* b is a whole frame with this command and payload, in this session if there is one.
Carries(b, command, id, payload, block) ==
  \E inner \in Seq(Byte) :
    LET skip == IF block THEN 4 ELSE 0 IN
    /\ IsC3Frame(b, command, inner) /\ Carried(inner, block) = payload
    /\ Len(inner) = skip + Len(payload)
    /\ \A i \in 1 .. Len(payload) : inner[skip + i] = payload[i]
    /\ block => inner[1] + 256 * inner[2] = id

\* Such a frame is what the encoder makes.
LEMMA EncodedCarries ==
  ASSUME NEW command \in Byte, NEW id \in Word, NEW nr \in Word, NEW block \in BOOLEAN,
         NEW payload \in Seq(Byte), 4 + Len(payload) \in Word
  PROVE  Carries(C!encodeFrame(command, id, nr, payload, block), command, id, payload, block)
<1>. DEFINE s == Session(id, nr, block)
            inner == s \o payload
            skip == IF block THEN 4 ELSE 0
            b == C!encodeFrame(command, id, nr, payload, block)
<1>1. s \in Seq(Byte) /\ Len(s) = skip
  BY SessionFacts
<1>2. inner \in Seq(Byte) /\ Len(inner) \in Word /\ Carried(inner, block) = payload
  BY InnerFacts
<1>3. IsC3Frame(b, command, inner)
  <2>1. b = C3Frame(command, inner)
    BY EncodedFrame
  <2>. HIDE DEF b, inner
  <2>. QED
    BY <1>2, <2>1, C3FrameFacts
<1>4. block => s[1] + 256 * s[2] = id
  <2>. HAVE block
  <2>. DEFINE p == C!LittleEndian16(id)
              q == C!LittleEndian16(nr)
  <2>1. s = p \o q
    BY DEF Session
  <2>2. p \in Seq(Byte) /\ Len(p) = 2 /\ p[1] + 256 * p[2] = id /\ q \in Seq(Byte) /\ Len(q) = 2
    BY LittleEndianFacts
  <2>. HIDE DEF p, q, s
  <2>3. \A i \in 1 .. 2 : s[i] = p[i]
    BY <2>1, <2>2, PairJoined
  <2>. QED
    BY <2>2, <2>3
<1>. HIDE DEF s
<1>5. /\ Len(inner) = Len(s) + Len(payload)
      /\ \A i \in 1 .. Len(s) : inner[i] = s[i]
      /\ \A i \in 1 .. Len(payload) : inner[Len(s) + i] = payload[i]
  BY <1>1, JoinedBytes
<1>. HIDE DEF inner, b
<1>6. block => inner[1] + 256 * inner[2] = id
  <2>. HAVE block
  <2>1. Len(s) = 4
    BY <1>1
  <2>2. inner[1] = s[1] /\ inner[2] = s[2]
    BY <1>5, <2>1
  <2>. QED
    BY <1>4, <2>2
<1>7. /\ Len(inner) = skip + Len(payload)
      /\ \A i \in 1 .. Len(payload) : inner[skip + i] = payload[i]
  BY <1>1, <1>5
<1>8. Carries(b, command, id, payload, block)
  BY <1>2, <1>3, <1>6, <1>7, Zenon DEF Carries
<1>. QED
  BY <1>8 DEF b

\* What the decoder makes of it, and where the session is.
LEMMA CarriedFacts ==
  ASSUME NEW b, NEW command \in Byte, NEW id, NEW block \in BOOLEAN, NEW payload \in Seq(Byte),
         Carries(b, command, id, payload, block)
  PROVE  /\ b \in Seq(Byte) /\ IsPanelFrame(b)
         /\ C!decodeFrameGeneric(b, block) = Taken(command, payload)
         /\ \E whole : C!decodeFrameGeneric(b, FALSE) = Taken(command, whole)
         /\ block => C!littleEndian16(b, 5) = id
<1>. DEFINE skip == IF block THEN 4 ELSE 0
<1>1. PICK inner \in Seq(Byte) :
        /\ IsC3Frame(b, command, inner) /\ Carried(inner, block) = payload
        /\ Len(inner) = skip + Len(payload)
        /\ \A i \in 1 .. Len(payload) : inner[skip + i] = payload[i]
        /\ block => inner[1] + 256 * inner[2] = id
  BY Zenon DEF Carries
<1>2. b \in Seq(Byte) /\ \A i \in 1 .. Len(inner) : b[5 + i] = inner[i]
  BY <1>1 DEF IsC3Frame
<1>3. IsPanelFrame(b)
  BY <1>1, FrameLength
<1>4. /\ C!decodeFrameGeneric(b, block) = Taken(command, payload)
      /\ C!decodeFrameGeneric(b, FALSE) = Taken(command, Carried(inner, FALSE))
  <2>1. FALSE \in BOOLEAN
    OBVIOUS
  <2>. QED
    BY <1>1, <2>1, C3Decoded
<1>5. block => C!littleEndian16(b, 5) = id
  <2>. HAVE block
  <2>1. Len(inner) >= 4 /\ Len(inner) \in Nat
    BY <1>1
  <2>2. b[5 + 1] = inner[1] /\ b[5 + 2] = inner[2]
    BY <1>2, <2>1
  <2>3. C!littleEndian16(b, 5) = b[5 + 1] + 256 * b[5 + 2]
    BY DEF C!littleEndian16, C!byteAt
  <2>. QED
    BY <1>1, <2>2, <2>3
<1>. QED
  BY <1>2, <1>3, <1>4, <1>5

\* A reply code other than that of a refusal.
LEMMA TakenFacts ==
  ASSUME NEW command, NEW payload, command # 201
  PROVE  /\ Taken(command, payload).status = "Ok" /\ Taken(command, payload).command = command
         /\ Taken(command, payload).value = payload
  BY DEF Taken

\* The bytes of a word that was put together from two.
LEMMA TwoBytes ==
  ASSUME NEW x \in Byte, NEW y \in Byte
  PROVE  C!LittleEndian16(x + 256 * y) = <<x, y>>
<1>1. (x + 256 * y) % 256 = x /\ (x + 256 * y) \div 256 = y /\ y % 256 = y
  BY DEF Byte
<1>. QED
  BY <1>1 DEF C!LittleEndian16

\* A panel reads it as it was meant, the checksum included.
LEMMA PanelReadsFrame ==
  ASSUME NEW b, NEW command \in Byte, NEW id, NEW block \in BOOLEAN, NEW payload \in Seq(Byte),
         Carries(b, command, id, payload, block)
  PROVE  PanelReads(b, block) = <<command, IF block THEN id ELSE 0, payload, TRUE>>
<1>. DEFINE skip == IF block THEN 4 ELSE 0
            n == Len(b)
<1>1. PICK inner \in Seq(Byte) :
        /\ IsC3Frame(b, command, inner) /\ Carried(inner, block) = payload
        /\ Len(inner) = skip + Len(payload)
        /\ \A i \in 1 .. Len(payload) : inner[skip + i] = payload[i]
        /\ block => inner[1] + 256 * inner[2] = id
  BY Zenon DEF Carries
<1>. DEFINE m == Len(inner)
            k == Len(payload)
<1>2. /\ b \in Seq(Byte) /\ n = 8 + m
      /\ b[1] = 170 /\ b[2] = 1 /\ b[3] = command /\ b[4] + 256 * b[5] = m
      /\ \A i \in 1 .. m : b[5 + i] = inner[i]
      /\ b[n - 2] + 256 * b[n - 1] = C!crc16(SubSeq(b, 2, n - 3))
      /\ b[n] = 85
  BY <1>1 DEF IsC3Frame
<1>3. m \in Nat /\ k \in Nat /\ m = skip + k /\ skip \in {0, 4}
  BY <1>1
<1>4. \A i \in 1 .. n : b[i] \in Byte
  BY <1>2
<1>5. \A i \in 1 .. k : inner[skip + i] = payload[i]
  BY <1>1
<1>6. block => b[6] + 256 * b[7] = id
  <2>. HAVE block
  <2>1. m >= 4
    BY <1>3
  <2>2. b[5 + 1] = inner[1] /\ b[5 + 2] = inner[2]
    BY <1>2, <1>3, <2>1
  <2>. QED
    BY <1>1, <2>2
<1>7. Len(payload) = k
  OBVIOUS
<1>. HIDE DEF n, m, k
<1>. DEFINE t == SubSeq(b, 6 + skip, n - 3)
<1>8. t = payload
  <2>1. n - 3 = 5 + m /\ n - 3 \in Int /\ 6 + skip \in Int /\ 6 + skip >= 1
    BY <1>2, <1>3
  <2>2. \A i \in 6 + skip .. n - 3 : b[i] \in Byte
    BY <1>2, <1>3, <1>4, <2>1
  <2>3. /\ t \in Seq(Byte)
        /\ Len(t) = (IF 6 + skip <= n - 3 THEN ((n - 3) - (6 + skip)) + 1 ELSE 0)
        /\ \A i \in 1 .. ((n - 3) - (6 + skip)) + 1 : t[i] = b[((6 + skip) + i) - 1]
    BY <2>1, <2>2, SubSeqProperties
  <2>. HIDE DEF t
  <2>4. Len(t) = k
    BY <1>3, <2>1, <2>3
  <2>5. ASSUME NEW i \in 1 .. k
        PROVE  t[i] = payload[i]
    <3>1. /\ i \in 1 .. ((n - 3) - (6 + skip)) + 1 /\ ((6 + skip) + i) - 1 = 5 + (skip + i)
          /\ skip + i \in 1 .. m
      BY <1>3, <2>1
    <3>2. t[i] = b[5 + (skip + i)]
      BY <2>3, <3>1
    <3>3. b[5 + (skip + i)] = inner[skip + i]
      BY <1>2, <3>1, ZenonT(60)
    <3>. QED
      BY <1>5, <3>2, <3>3
  <2>. QED
    BY <1>7, <2>3, <2>4, <2>5, SeqEqual
<1>. HIDE DEF t
<1>9. <<b[n - 2], b[n - 1]>> = PanelChecksum(SubSeq(b, 2, n - 3))
  <2>. DEFINE p == SubSeq(b, 2, n - 3)
  <2>1. n - 3 \in Nat /\ 2 <= n - 3 /\ n - 3 <= Len(b) /\ 2 \in Nat /\ 1 <= 2
    BY <1>2, <1>3 DEF n
  <2>2. p \in Seq(Byte)
    BY <1>2, <2>1, MiddlePiece, ZenonT(60)
  <2>. HIDE DEF p
  <2>3. PanelChecksum(p) = C!LittleEndian16(C!crc16(p)) /\ C!crc16(p) \in Word
    BY <2>2, ChecksumIsRemainder, CrcFacts
  <2>4. PICK x \in Byte, y \in Byte : x = b[n - 2] /\ y = b[n - 1]
    <3>1. n - 2 \in 1 .. n /\ n - 1 \in 1 .. n
      BY <1>2, <1>3
    <3>. QED
      BY <1>4, <3>1
  <2>5. C!crc16(p) = x + 256 * y
    BY <1>2, <2>4 DEF p
  <2>6. C!LittleEndian16(x + 256 * y) = <<x, y>>
    BY TwoBytes
  <2>. QED
    BY <2>3, <2>4, <2>5, <2>6 DEF p
<1>10. n - 8 = m
  BY <1>2, <1>3
<1>11. PanelReads(b, block)
       = <<b[3], IF block THEN b[6] + 256 * b[7] ELSE 0, t,
           /\ b[1] = 170 /\ b[2] = 1 /\ b[n] = 85
           /\ b[4] + 256 * b[5] = n - 8
           /\ <<b[n - 2], b[n - 1]>> = PanelChecksum(SubSeq(b, 2, n - 3))>>
  BY DEF PanelReads, n, t
<1>12. /\ b[1] = 170 /\ b[2] = 1 /\ b[n] = 85
       /\ b[4] + 256 * b[5] = n - 8
       /\ <<b[n - 2], b[n - 1]>> = PanelChecksum(SubSeq(b, 2, n - 3))
  BY <1>2, <1>9, <1>10
<1>13. (IF block THEN b[6] + 256 * b[7] ELSE 0) = IF block THEN id ELSE 0
  BY <1>6
<1>. QED
  BY <1>2, <1>8, <1>11, <1>12, <1>13

\* The bytes s are in p, behind offset o.
HoldsAt(p, o, s) ==
  /\ p \in Seq(Byte) /\ s \in Seq(Byte) /\ o + Len(s) <= Len(p)
  /\ \A i \in 1 .. Len(s) : p[o + i] = s[i]

\* All of a sequence is in it, and of two pieces the second is behind the first.
LEMMA HoldsFacts ==
  /\ \A p \in Seq(Byte) : HoldsAt(p, 0, p)
  /\ \A p, s, u : \A o \in Nat : s \in Seq(Byte) /\ u \in Seq(Byte) /\ HoldsAt(p, o, s \o u)
       => HoldsAt(p, o, s) /\ HoldsAt(p, o + Len(s), u)
<1>1. ASSUME NEW p \in Seq(Byte)
      PROVE  HoldsAt(p, 0, p)
  <2>1. Len(p) \in Nat
    OBVIOUS
  <2>. QED
    BY <2>1 DEF HoldsAt
<1>2. ASSUME NEW p, NEW s, NEW u, NEW o \in Nat, s \in Seq(Byte), u \in Seq(Byte),
             HoldsAt(p, o, s \o u)
      PROVE  HoldsAt(p, o, s) /\ HoldsAt(p, o + Len(s), u)
  <2>. DEFINE t == s \o u
  <2>1. /\ Len(t) = Len(s) + Len(u) /\ Len(s) \in Nat /\ Len(u) \in Nat
        /\ \A i \in 1 .. Len(s) : t[i] = s[i]
        /\ \A i \in 1 .. Len(u) : t[Len(s) + i] = u[i]
    BY <1>2, JoinedBytes
  <2>2. /\ p \in Seq(Byte) /\ o + Len(t) <= Len(p)
        /\ \A i \in 1 .. Len(t) : p[o + i] = t[i]
    BY <1>2 DEF HoldsAt
  <2>. HIDE DEF t
  <2>3. Len(p) \in Nat
    BY <2>2
  <2>4. ASSUME NEW i \in 1 .. Len(s)
        PROVE  p[o + i] = s[i]
    <3>1. i \in 1 .. Len(t)
      BY <2>1
    <3>. QED
      BY <2>1, <2>2, <3>1
  <2>5. ASSUME NEW i \in 1 .. Len(u)
        PROVE  p[(o + Len(s)) + i] = u[i]
    <3>1. Len(s) + i \in 1 .. Len(t) /\ (o + Len(s)) + i = o + (Len(s) + i)
      BY <2>1
    <3>. QED
      BY <2>1, <2>2, <3>1
  <2>6. o + Len(s) <= Len(p) /\ (o + Len(s)) + Len(u) <= Len(p)
    BY <2>1, <2>2, <2>3
  <2>. QED
    BY <1>2, <2>2, <2>4, <2>5, <2>6 DEF HoldsAt
<1>. QED
  BY <1>1, <1>2

\* What mid() returns.
LEMMA HeldPiece ==
  ASSUME NEW p, NEW o \in Nat, NEW s, HoldsAt(p, o, s)
  PROVE  C!mid(p, o, Len(s)) = s
<1>. DEFINE n == Len(s)
            t == SubSeq(p, o + 1, o + n)
<1>1. /\ p \in Seq(Byte) /\ s \in Seq(Byte) /\ o + n <= Len(p)
      /\ (\A i \in 1 .. n : p[o + i] = s[i]) /\ n \in Nat /\ Len(p) \in Nat
  BY DEF HoldsAt
<1>2. C!mid(p, o, n) = t
  BY DEF C!mid
<1>3. Len(s) = n
  OBVIOUS
<1>. HIDE DEF n
<1>4. \A i \in o + 1 .. o + n : p[i] \in Byte
  BY <1>1
<1>5. /\ t \in Seq(Byte)
      /\ Len(t) = (IF o + 1 <= o + n THEN ((o + n) - (o + 1)) + 1 ELSE 0)
      /\ \A i \in 1 .. ((o + n) - (o + 1)) + 1 : t[i] = p[((o + 1) + i) - 1]
  BY <1>1, <1>4, SubSeqProperties
<1>. HIDE DEF t
<1>6. Len(t) = n
  BY <1>1, <1>5
<1>7. ASSUME NEW i \in 1 .. n
      PROVE  t[i] = s[i]
  <2>1. i \in 1 .. ((o + n) - (o + 1)) + 1 /\ ((o + 1) + i) - 1 = o + i
    BY <1>1
  <2>. QED
    BY <1>1, <1>5, <2>1
<1>8. t = s
  BY <1>1, <1>3, <1>5, <1>6, <1>7, SeqEqual
<1>. QED
  BY <1>2, <1>3, <1>8

\* Four bytes with a word.
LEMMA LongBytes ==
  ASSUME NEW w \in Word
  PROVE  /\ Long(w) \in Seq(Byte) /\ Len(Long(w)) = 4
         /\ Long(w)[1] = Low(w) /\ Long(w)[2] = High(w) /\ Long(w)[3] = 0 /\ Long(w)[4] = 0
<1>1. Low(w) \in Byte /\ High(w) \in Byte /\ 0 \in Byte
  BY BigEndianFacts DEF Byte
<1>. QED
  BY <1>1 DEF Long

\* The number that is read there.
LEMMA LongAt ==
  ASSUME NEW p, NEW o \in Nat, NEW w \in Word, HoldsAt(p, o, Long(w))
  PROVE  C!littleEndian32(p, o) = w
<1>. DEFINE s == Long(w)
<1>1. Len(s) = 4 /\ s[1] = Low(w) /\ s[2] = High(w) /\ s[3] = 0 /\ s[4] = 0
  BY LongBytes
<1>2. \A i \in 1 .. Len(s) : p[o + i] = s[i]
  BY DEF HoldsAt
<1>. HIDE DEF s
<1>3. p[o + 1] = Low(w) /\ p[o + 2] = High(w) /\ p[o + 3] = 0 /\ p[o + 4] = 0
  BY <1>1, <1>2
<1>4. (o + 1) + 1 = o + 2 /\ (o + 2) + 1 = o + 3 /\ ((o + 2) + 1) + 1 = o + 4
  OBVIOUS
<1>5. C!littleEndian32(p, o) = (Low(w) + 256 * High(w)) + 65536 * (0 + 256 * 0)
  BY <1>3, <1>4 DEF C!littleEndian32, C!littleEndian16, C!byteAt
<1>6. Low(w) \in Byte /\ High(w) \in Byte /\ 256 * High(w) + Low(w) = w
  BY BigEndianFacts
<1>7. Low(w) \in Int /\ High(w) \in Int
  BY <1>6 DEF Byte
<1>. QED
  BY <1>5, <1>6, <1>7

-----------------------------------------------------------------------------
(* What each decoder makes of an answer. *)

\* The frame of an answer.
LEMMA AnswerTaken ==
  ASSUME NEW b, NEW id, NEW block \in BOOLEAN, NEW payload \in Seq(Byte),
         Carries(b, C!kReplyOk, id, payload, block)
  PROVE  /\ C!decodeFrameGeneric(b, block).status = "Ok"
         /\ C!decodeFrameGeneric(b, block).command = C!kReplyOk
         /\ C!decodeFrameGeneric(b, block).value = payload
         /\ C!decodeFrameGeneric(b, FALSE).status = "Ok"
         /\ C!decodeFrameGeneric(b, FALSE).command = C!kReplyOk
         /\ block => C!littleEndian16(b, 5) = id
<1>1. C!kReplyOk \in Byte
  BY DEF Byte, C!kReplyOk
<1>2. /\ C!decodeFrameGeneric(b, block) = Taken(C!kReplyOk, payload)
      /\ \E whole : C!decodeFrameGeneric(b, FALSE) = Taken(C!kReplyOk, whole)
      /\ block => C!littleEndian16(b, 5) = id
  BY <1>1, CarriedFacts
<1>3. \A p : /\ Taken(C!kReplyOk, p).status = "Ok" /\ Taken(C!kReplyOk, p).value = p
             /\ Taken(C!kReplyOk, p).command = C!kReplyOk
  <2>1. C!kReplyOk # 201
    BY DEF C!kReplyOk
  <2>. QED
    BY <2>1, TakenFacts
<1>4. PICK whole : C!decodeFrameGeneric(b, FALSE) = Taken(C!kReplyOk, whole)
  BY <1>2
<1>. QED
  BY <1>2, <1>3, <1>4

\* And of a refusal.
LEMMA RefusalTaken ==
  ASSUME NEW b, NEW id, NEW block \in BOOLEAN, NEW payload \in Seq(Byte),
         Carries(b, C!kReplyError, id, payload, block)
  PROVE  /\ C!decodeFrameGeneric(b, block) = C!Only("Rejected")
         /\ C!decodeFrameGeneric(b, FALSE) = C!Only("Rejected")
<1>1. C!kReplyError \in Byte
  BY DEF Byte, C!kReplyError
<1>2. /\ C!decodeFrameGeneric(b, block) = Taken(C!kReplyError, payload)
      /\ \E whole : C!decodeFrameGeneric(b, FALSE) = Taken(C!kReplyError, whole)
  BY <1>1, CarriedFacts
<1>3. \A p : Taken(C!kReplyError, p) = C!Only("Rejected")
  BY DEF Taken, C!kReplyError
<1>. QED
  BY <1>2, <1>3

\* The code of a refusal is reported as that by every decoder.
LEMMA HeardRejected ==
  ASSUME NEW name \in PanelDecoders, NEW b, NEW id, NEW block \in BOOLEAN,
         NEW payload \in Seq(Byte), Carries(b, C!kReplyError, id, payload, block)
  PROVE  Heard(name, b, block) = [status |-> "Rejected", value |-> <<>>]
<1>2. /\ C!decodeFrameGeneric(b, block) = C!Only("Rejected")
      /\ C!decodeFrameGeneric(b, FALSE) = C!Only("Rejected")
  BY RefusalTaken
<1>3. /\ C!Only("Rejected") = [status |-> "Rejected", value |-> <<>>]
      /\ C!Only("Rejected").status # "Ok"
  BY DEF C!Only
<1>4. CASE name = "session"
  <2>1. Heard(name, b, block) = C!decodeConnectSessionResponse(b)
    BY <1>4 DEF Heard
  <2>. QED
    BY <1>2, <1>3, <2>1 DEF C!decodeConnectSessionResponse
<1>5. CASE name = "generic"
  <2>1. Heard(name, b, block) = C!decodeGenericReply(b)
    BY <1>5 DEF Heard
  <2>. QED
    BY <1>2, <1>3, <2>1 DEF C!decodeGenericReply
<1>6. CASE name = "count"
  <2>1. Heard(name, b, block) = C!decodeGetDataCountResponse(b, block)
    BY <1>6 DEF Heard
  <2>. QED
    BY <1>2, <1>3, <2>1 DEF C!decodeGetDataCountResponse
<1>7. CASE name = "chunk"
  <2>1. Heard(name, b, block) = C!decodeTransmitDataResponse(b, block)
    BY <1>7 DEF Heard
  <2>. QED
    BY <1>2, <1>3, <2>1 DEF C!decodeTransmitDataResponse
<1>8. CASE name = "rows"
  <2>1. Heard(name, b, block) = C!decodeGetDataResponse(b, 3, ColumnKinds, block)
    BY <1>8 DEF Heard
  <2>. QED
    BY <1>2, <1>3, <2>1 DEF C!decodeGetDataResponse
<1>9. CASE name = "log"
  <2>. DEFINE r == C!decodeRtlogBinaryResponse(b, block)
              value == [k \in DOMAIN r.value |-> [r.value[k] EXCEPT !.time = C!decodeC3DateTime(@)]]
  <2>1. Heard(name, b, block) = [status |-> r.status, value |-> value]
    BY <1>9 DEF Heard
  <2>2. r = [status |-> "Rejected", value |-> <<>>]
    BY <1>2, <1>3 DEF C!decodeRtlogBinaryResponse
  <2>3. r.status = "Rejected" /\ DOMAIN r.value = {}
    BY <2>2
  <2>. HIDE DEF r
  <2>4. value = <<>>
    BY <2>3
  <2>. HIDE DEF value
  <2>. QED
    BY <2>1, <2>3, <2>4
<1>. QED
  BY <1>4, <1>5, <1>6, <1>7, <1>8, <1>9 DEF PanelDecoders

\* A session that is granted, and a command that is confirmed.
LEMMA HeardConfirmed ==
  ASSUME NEW b, NEW id, NEW block \in BOOLEAN, Carries(b, C!kReplyOk, id, <<>>, block)
  PROVE  /\ block => Heard("session", b, block) = [status |-> "Ok", value |-> <<id>>]
         /\ Heard("generic", b, block) = [status |-> "Ok", value |-> <<>>]
<1>1. <<>> \in Seq(Byte)
  OBVIOUS
<1>2. /\ C!decodeFrameGeneric(b, FALSE).status = "Ok"
      /\ C!decodeFrameGeneric(b, FALSE).command = C!kReplyOk
      /\ block => C!littleEndian16(b, 5) = id
  BY <1>1, AnswerTaken
<1>5. block => C!decodeConnectSessionResponse(b) = [status |-> "Ok", value |-> <<id>>]
  BY <1>2 DEF C!decodeConnectSessionResponse
<1>6. C!decodeGenericReply(b) = [status |-> "Ok", value |-> <<>>]
  BY <1>2 DEF C!decodeGenericReply
<1>7. Heard("session", b, block) = C!decodeConnectSessionResponse(b)
  BY DEF Heard
<1>8. Heard("generic", b, block) = C!decodeGenericReply(b)
  BY DEF Heard
<1>. QED
  BY <1>5, <1>6, <1>7, <1>8

\* A count.
LEMMA HeardCount ==
  ASSUME NEW b, NEW id, NEW block \in BOOLEAN, NEW w \in Word,
         Carries(b, C!kReplyOk, id, Long(w), block)
  PROVE  Heard("count", b, block) = [status |-> "Ok", value |-> <<w>>]
<1>. DEFINE p == Long(w)
<1>1. p \in Seq(Byte) /\ Len(p) = 4 /\ HoldsAt(p, 0, p)
  BY LongBytes, HoldsFacts
<1>2. C!littleEndian32(p, 0) = w
  BY <1>1, LongAt
<1>5. C!decodeFrameGeneric(b, block).status = "Ok" /\ C!decodeFrameGeneric(b, block).value = p
  <2>1. p \in Seq(Byte) /\ Carries(b, C!kReplyOk, id, p, block)
    BY <1>1
  <2>. HIDE DEF p
  <2>. QED
    BY <2>1, AnswerTaken, Zenon
<1>. HIDE DEF p
<1>6. C!decodeGetDataCountResponse(b, block) = [status |-> "Ok", value |-> <<w>>]
  BY <1>1, <1>2, <1>5 DEF C!decodeGetDataCountResponse
<1>7. Heard("count", b, block) = C!decodeGetDataCountResponse(b, block)
  BY DEF Heard
<1>. QED
  BY <1>6, <1>7

\* A part of a table that is too long for one frame.
LEMMA HeardChunk ==
  ASSUME NEW b, NEW id, NEW block \in BOOLEAN, NEW w \in Word, NEW data \in Seq(Byte),
         Carries(b, C!kReplyOk, id, Long(w) \o data, block)
  PROVE  Heard("chunk", b, block) = [status |-> "Ok", value |-> <<w, data>>]
<1>. DEFINE p == Long(w) \o data
<1>1. Long(w) \in Seq(Byte) /\ Len(Long(w)) = 4
  BY LongBytes
<1>2. p \in Seq(Byte) /\ Len(p) = 4 + Len(data) /\ Len(data) \in Nat
  <2>. DEFINE l == Long(w)
  <2>1. l \in Seq(Byte) /\ Len(l) = 4
    BY <1>1
  <2>. HIDE DEF l
  <2>2. l \o data \in Seq(Byte) /\ Len(l \o data) = Len(l) + Len(data) /\ Len(data) \in Nat
    BY <2>1, JoinedBytes
  <2>. QED
    BY <2>1, <2>2 DEF l
<1>3. HoldsAt(p, 0, Long(w)) /\ HoldsAt(p, 4, data)
  <2>1. HoldsAt(p, 0, Long(w) \o data)
    BY <1>2, HoldsFacts
  <2>2. HoldsAt(p, 0, Long(w)) /\ HoldsAt(p, 0 + Len(Long(w)), data)
    BY <1>1, <2>1, HoldsFacts
  <2>. HIDE DEF p
  <2>. QED
    BY <1>1, <2>2
<1>8. C!decodeFrameGeneric(b, block).status = "Ok" /\ C!decodeFrameGeneric(b, block).value = p
  BY <1>2, AnswerTaken
<1>. HIDE DEF p
<1>6. C!littleEndian32(p, 0) = w
  BY <1>3, LongAt
<1>7. C!mid(p, 4, Len(p) - 4) = data
  <2>1. C!mid(p, 4, Len(data)) = data
    BY <1>3, HeldPiece
  <2>2. Len(p) - 4 = Len(data)
    BY <1>2
  <2>. QED
    BY <2>1, <2>2
<1>9. ~(Len(p) < 4)
  BY <1>2
<1>10. C!decodeTransmitDataResponse(b, block) = [status |-> "Ok", value |-> <<w, data>>]
  BY <1>6, <1>7, <1>8, <1>9 DEF C!decodeTransmitDataResponse
<1>11. Heard("chunk", b, block) = C!decodeTransmitDataResponse(b, block)
  BY DEF Heard
<1>. QED
  BY <1>10, <1>11

\* Four numbers of 32 bits behind a byte: where each of them is.
LEMMA AnnouncementParts ==
  ASSUME NEW packed \in {0, 1}, NEW w \in Word
  PROVE  LET p == <<packed>> \o Long(w) \o Long(2) \o Long(3) \o Long(4) IN
         /\ p \in Seq(Byte) /\ Len(p) = 17 /\ p[1] = packed
         /\ C!littleEndian32(p, 1) = w /\ C!littleEndian32(p, 5) = 2
         /\ C!littleEndian32(p, 9) = 3 /\ C!littleEndian32(p, 13) = 4
<1>. DEFINE p0 == <<packed>>
            p1 == Long(w)
            p2 == Long(2)
            p3 == Long(3)
            p4 == Long(4)
            s1 == p0 \o p1
            s2 == s1 \o p2
            s3 == s2 \o p3
            p == s3 \o p4
<1>1. 2 \in Word /\ 3 \in Word /\ 4 \in Word
  BY DEF Word
<1>2. p0 \in Seq(Byte) /\ Len(p0) = 1 /\ p0[1] = packed
  <2>1. packed \in Byte
    BY DEF Byte
  <2>. QED
    BY <2>1
<1>3. /\ p1 \in Seq(Byte) /\ Len(p1) = 4 /\ p2 \in Seq(Byte) /\ Len(p2) = 4
      /\ p3 \in Seq(Byte) /\ Len(p3) = 4 /\ p4 \in Seq(Byte) /\ Len(p4) = 4
  BY <1>1, LongBytes
<1>. HIDE DEF p0, p1, p2, p3, p4
<1>4. s1 \in Seq(Byte) /\ Len(s1) = 5
  <2>1. s1 \in Seq(Byte) /\ Len(s1) = Len(p0) + Len(p1)
    BY <1>2, <1>3, JoinedBytes
  <2>. HIDE DEF s1
  <2>. QED
    BY <1>2, <1>3, <2>1
<1>5. s2 \in Seq(Byte) /\ Len(s2) = 9
  <2>. HIDE DEF s1
  <2>1. s2 \in Seq(Byte) /\ Len(s2) = Len(s1) + Len(p2)
    BY <1>3, <1>4, JoinedBytes
  <2>. HIDE DEF s2
  <2>. QED
    BY <1>3, <1>4, <2>1
<1>6. s3 \in Seq(Byte) /\ Len(s3) = 13
  <2>. HIDE DEF s2
  <2>1. s3 \in Seq(Byte) /\ Len(s3) = Len(s2) + Len(p3)
    BY <1>3, <1>5, JoinedBytes
  <2>. HIDE DEF s3
  <2>. QED
    BY <1>3, <1>5, <2>1
<1>7. p \in Seq(Byte) /\ Len(p) = 17
  <2>. HIDE DEF s3
  <2>1. p \in Seq(Byte) /\ Len(p) = Len(s3) + Len(p4)
    BY <1>3, <1>6, JoinedBytes
  <2>. HIDE DEF p
  <2>. QED
    BY <1>3, <1>6, <2>1
<1>8. HoldsAt(p, 0, s3) /\ HoldsAt(p, 13, p4)
  <2>. HIDE DEF s3
  <2>1. HoldsAt(p, 0, s3 \o p4)
    BY <1>7, HoldsFacts
  <2>2. HoldsAt(p, 0, s3) /\ HoldsAt(p, 0 + Len(s3), p4)
    BY <1>3, <1>6, <2>1, HoldsFacts
  <2>. HIDE DEF p
  <2>. QED
    BY <1>6, <2>2
<1>9. HoldsAt(p, 0, s2) /\ HoldsAt(p, 9, p3)
  <2>. HIDE DEF s2, p
  <2>1. HoldsAt(p, 0, s2 \o p3)
    BY <1>8
  <2>2. HoldsAt(p, 0, s2) /\ HoldsAt(p, 0 + Len(s2), p3)
    BY <1>3, <1>5, <2>1, HoldsFacts
  <2>. QED
    BY <1>5, <2>2
<1>10. HoldsAt(p, 0, s1) /\ HoldsAt(p, 5, p2)
  <2>. HIDE DEF s1, p
  <2>1. HoldsAt(p, 0, s1 \o p2)
    BY <1>9
  <2>2. HoldsAt(p, 0, s1) /\ HoldsAt(p, 0 + Len(s1), p2)
    BY <1>3, <1>4, <2>1, HoldsFacts
  <2>. QED
    BY <1>4, <2>2
<1>11. HoldsAt(p, 0, p0) /\ HoldsAt(p, 1, p1)
  <2>. HIDE DEF p
  <2>1. HoldsAt(p, 0, p0 \o p1)
    BY <1>10
  <2>2. HoldsAt(p, 0, p0) /\ HoldsAt(p, 0 + Len(p0), p1)
    BY <1>2, <1>3, <2>1, HoldsFacts
  <2>. QED
    BY <1>2, <2>2
<1>12. p = <<packed>> \o Long(w) \o Long(2) \o Long(3) \o Long(4)
  BY DEF p, s3, s2, s1, p0, p1, p2, p3, p4
<1>. HIDE DEF p
<1>13. p[1] = packed
  BY <1>2, <1>11 DEF HoldsAt
<1>14. /\ C!littleEndian32(p, 1) = w /\ C!littleEndian32(p, 5) = 2
       /\ C!littleEndian32(p, 9) = 3 /\ C!littleEndian32(p, 13) = 4
  BY <1>1, <1>8, <1>9, <1>10, <1>11, LongAt DEF p1, p2, p3, p4
<1>. QED
  BY <1>7, <1>12, <1>13, <1>14

\* One element in front of four.
LEMMA OneAndFour ==
  ASSUME NEW x, NEW a, NEW b, NEW c, NEW d
  PROVE  <<x>> \o <<a, b, c, d>> = <<x, a, b, c, d>>
<1>. DEFINE S == {x, a, b, c, d}
            s == <<x>>
            u == <<a, b, c, d>>
            t == <<x, a, b, c, d>>
<1>1. x \in S /\ a \in S /\ b \in S /\ c \in S /\ d \in S
  OBVIOUS
<1>. HIDE DEF S
<1>2. s \in Seq(S) /\ Len(s) = 1 /\ s[1] = x
  BY <1>1
<1>3. u \in Seq(S) /\ Len(u) = 4 /\ u[1] = a /\ u[2] = b /\ u[3] = c /\ u[4] = d
  BY <1>1
<1>4. t \in Seq(S) /\ Len(t) = 5 /\ t[1] = x /\ t[2] = a /\ t[3] = b /\ t[4] = c /\ t[5] = d
  BY <1>1
<1>. HIDE DEF s, u, t
<1>5. /\ s \o u \in Seq(S) /\ Len(s \o u) = Len(s) + Len(u)
      /\ \A i \in 1 .. Len(s) + Len(u) : (s \o u)[i] = IF i <= Len(s) THEN s[i] ELSE u[i - Len(s)]
  BY <1>2, <1>3, ConcatProperties
<1>6. /\ (s \o u)[1] = x /\ (s \o u)[2] = a /\ (s \o u)[3] = b /\ (s \o u)[4] = c
      /\ (s \o u)[5] = d /\ Len(s \o u) = 5
  BY <1>2, <1>3, <1>5
<1>7. \A i \in 1 .. 5 : (s \o u)[i] = t[i]
  BY <1>4, <1>6
<1>8. s \o u = t
  BY <1>4, <1>5, <1>6, <1>7, SeqEqual
<1>. QED
  BY <1>8 DEF s, u, t

\* More data is announced.
LEMMA HeardAnnounced ==
  ASSUME NEW b, NEW id, NEW block \in BOOLEAN, NEW packed \in {0, 1}, NEW w \in Word,
         Carries(b, C!kCommandPrepareData, id,
                 <<packed>> \o Long(w) \o Long(2) \o Long(3) \o Long(4), block)
  PROVE  Heard("rows", b, block)
         = [status |-> "BigDataPending", value |-> <<packed = 1, w, 2, 3, 4>>]
<1>. DEFINE p == <<packed>> \o Long(w) \o Long(2) \o Long(3) \o Long(4)
            v == [k \in 1 .. 4 |-> C!littleEndian32(p, 4 * k - 3)]
            frame == C!decodeFrameGeneric(b, block)
<1>1. /\ p \in Seq(Byte) /\ Len(p) = 17 /\ p[1] = packed
      /\ C!littleEndian32(p, 1) = w /\ C!littleEndian32(p, 5) = 2
      /\ C!littleEndian32(p, 9) = 3 /\ C!littleEndian32(p, 13) = 4
      /\ Carries(b, C!kCommandPrepareData, id, p, block)
  BY AnnouncementParts
<1>. HIDE DEF p
<1>2. C!kCommandPrepareData \in Byte /\ C!kCommandPrepareData # 201
  BY DEF Byte, C!kCommandPrepareData
<1>3. frame.status = "Ok" /\ frame.command = C!kCommandPrepareData /\ frame.value = p
  <2>1. p \in Seq(Byte) /\ Carries(b, C!kCommandPrepareData, id, p, block)
    BY <1>1
  <2>2. C!kCommandPrepareData \in Byte
    BY <1>2
  <2>3. frame = Taken(C!kCommandPrepareData, p)
    BY <2>1, <2>2, CarriedFacts, Zenon
  <2>. HIDE DEF frame
  <2>. QED
    BY <1>2, <2>3, TakenFacts
<1>4. v = <<w, 2, 3, 4>>
  <2>1. v[1] = w /\ v[2] = 2 /\ v[3] = 3 /\ v[4] = 4
    BY <1>1
  <2>. DEFINE u == <<w, 2, 3, 4>>
  <2>2. u \in Seq(Nat) /\ Len(u) = 4 /\ u[1] = w /\ u[2] = 2 /\ u[3] = 3 /\ u[4] = 4
    BY DEF Word
  <2>3. v = [k \in 1 .. 4 |-> v[k]]
    OBVIOUS
  <2>4. u = [k \in 1 .. 4 |-> u[k]]
    BY <2>2
  <2>. HIDE DEF u, v
  <2>5. \A k \in 1 .. 4 : v[k] = u[k]
    BY <2>1, <2>2
  <2>6. v = u
    BY <2>3, <2>4, <2>5
  <2>. QED
    BY <2>6 DEF u
<1>. HIDE DEF v
<1>5. (C!byteAt(p, 0) # 0) = (packed = 1)
  BY <1>1 DEF C!byteAt
<1>6. <<packed = 1>> \o <<w, 2, 3, 4>> = <<packed = 1, w, 2, 3, 4>>
  BY OneAndFour
<1>7. C!decodeGetDataResponse(b, 3, ColumnKinds, block)
      = [status |-> "BigDataPending", value |-> <<C!byteAt(p, 0) # 0>> \o v]
  <2>. HIDE DEF frame
  <2>. QED
    BY <1>1, <1>3 DEF C!decodeGetDataResponse, frame, v
<1>8. Heard("rows", b, block) = C!decodeGetDataResponse(b, 3, ColumnKinds, block)
  BY DEF Heard
<1>. QED
  BY <1>4, <1>5, <1>6, <1>7, <1>8

\* The times of the log as the panel's clock counts them: they are read as they were.
LEMMA ClockFacts ==
  ASSUME NEW time \in Times
  PROVE  /\ Clock(time) \in Nat /\ Clock(time) < 1000000000
         /\ C!decodeC3DateTime(Clock(time)) = time
<1>1. CASE time = <<2000, 1, 1, 0, 0, 0>>
  <2>1. Clock(time) = 0
    BY <1>1 DEF Clock
  <2>2. C!decodeC3DateTime(0) = <<2000, 1, 1, 0, 0, 0>>
    BY DEF C!decodeC3DateTime
  <2>. QED
    BY <1>1, <2>1, <2>2
<1>2. CASE time = <<2024, 12, 31, 23, 59, 59>>
  <2>1. Clock(time) = 803519999
    BY <1>2 DEF Clock
  <2>2. C!decodeC3DateTime(803519999) = <<2024, 12, 31, 23, 59, 59>>
    BY DEF C!decodeC3DateTime
  <2>. QED
    BY <1>2, <2>1, <2>2
<1>3. CASE time = <<2026, 2, 28, 12, 0, 1>>
  <2>1. Clock(time) = 840715201
    BY <1>3 DEF Clock
  <2>2. C!decodeC3DateTime(840715201) = <<2026, 2, 28, 12, 0, 1>>
    BY DEF C!decodeC3DateTime
  <2>. QED
    BY <1>3, <2>1, <2>2
<1>. QED
  BY <1>1, <1>2, <1>3 DEF Times

\* A number in four bytes.
Four(t) == <<t % 256, (t \div 256) % 256, (t \div 65536) % 256, (t \div 16777216) % 256>>

\* It is read as it was.
LEMMA FourAt ==
  ASSUME NEW t \in Nat, t < 1000000000
  PROVE  /\ Four(t) \in Seq(Byte) /\ Len(Four(t)) = 4
         /\ \A p : \A o \in Nat : HoldsAt(p, o, Four(t)) => C!littleEndian32(p, o) = t
<1>. DEFINE a == t % 256
            b == (t \div 256) % 256
            c == (t \div 65536) % 256
            d == (t \div 16777216) % 256
            s == Four(t)
<1>1. a \in Byte /\ b \in Byte /\ c \in Byte /\ d \in Byte
  BY DEF Byte
<1>2. (a + 256 * b) + 65536 * (c + 256 * d) = t
  OBVIOUS
<1>3. s = <<a, b, c, d>>
  BY DEF Four
<1>. HIDE DEF a, b, c, d
<1>4. s \in Seq(Byte) /\ Len(s) = 4 /\ s[1] = a /\ s[2] = b /\ s[3] = c /\ s[4] = d
  <2>. HIDE DEF s
  <2>. QED
    BY <1>1, <1>3
<1>. HIDE DEF s
<1>5. ASSUME NEW p, NEW o \in Nat, HoldsAt(p, o, s)
      PROVE  C!littleEndian32(p, o) = t
  <2>1. \A i \in 1 .. Len(s) : p[o + i] = s[i]
    BY <1>5 DEF HoldsAt
  <2>2. p[o + 1] = a /\ p[o + 2] = b /\ p[o + 3] = c /\ p[o + 4] = d
    BY <1>4, <2>1
  <2>3. (o + 1) + 1 = o + 2 /\ (o + 2) + 1 = o + 3 /\ ((o + 2) + 1) + 1 = o + 4
    OBVIOUS
  <2>4. C!littleEndian32(p, o) = (a + 256 * b) + 65536 * (c + 256 * d)
    BY <2>2, <2>3 DEF C!littleEndian32, C!littleEndian16, C!byteAt
  <2>. QED
    BY <1>2, <2>4
<1>6. \A p : \A o \in Nat : HoldsAt(p, o, s) => C!littleEndian32(p, o) = t
  BY <1>5
<1>. QED
  BY <1>4, <1>6 DEF s

\* The parts of a record of the log.
LEMMA LogParts ==
  ASSUME NEW card \in Word, NEW event \in Byte, NEW time \in Times
  PROVE  LET p == LogBytes(card, event, time) IN
         /\ p \in Seq(Byte) /\ Len(p) = 16
         /\ C!littleEndian32(p, 0) = card /\ C!littleEndian32(p, 4) = 7
         /\ C!mid(p, 0, 8) = Long(card) \o Long(7)
         /\ p[9] = 1 /\ p[10] = 2 /\ p[11] = event /\ p[12] = 3
         /\ C!littleEndian32(p, 12) = Clock(time)
<1>. DEFINE p1 == Long(card)
            p2 == Long(7)
            p3 == <<1, 2, event, 3>>
            p4 == Four(Clock(time))
            s2 == p1 \o p2
            s3 == s2 \o p3
            p == s3 \o p4
<1>1. p = LogBytes(card, event, time)
  BY DEF LogBytes, Four
<1>2. p1 \in Seq(Byte) /\ Len(p1) = 4 /\ p2 \in Seq(Byte) /\ Len(p2) = 4 /\ 7 \in Word
  <2>1. 7 \in Word
    BY DEF Word
  <2>. QED
    BY <2>1, LongBytes
<1>3. /\ p3 \in Seq(Byte) /\ Len(p3) = 4
      /\ p3[1] = 1 /\ p3[2] = 2 /\ p3[3] = event /\ p3[4] = 3
  <2>1. 1 \in Byte /\ 2 \in Byte /\ 3 \in Byte
    BY DEF Byte
  <2>. QED
    BY <2>1
<1>4. /\ p4 \in Seq(Byte) /\ Len(p4) = 4
      /\ \A q : \A o \in Nat : HoldsAt(q, o, p4) => C!littleEndian32(q, o) = Clock(time)
  <2>. DEFINE t == Clock(time)
  <2>1. t \in Nat /\ t < 1000000000
    BY ClockFacts
  <2>. HIDE DEF t
  <2>2. /\ Four(t) \in Seq(Byte) /\ Len(Four(t)) = 4
        /\ \A q : \A o \in Nat : HoldsAt(q, o, Four(t)) => C!littleEndian32(q, o) = t
    BY <2>1, FourAt
  <2>. QED
    BY <2>2 DEF t
<1>. HIDE DEF p1, p2, p3, p4
<1>5. s2 \in Seq(Byte) /\ Len(s2) = 8
  <2>1. s2 \in Seq(Byte) /\ Len(s2) = Len(p1) + Len(p2)
    BY <1>2, JoinedBytes
  <2>. HIDE DEF s2
  <2>. QED
    BY <1>2, <2>1
<1>6. s3 \in Seq(Byte) /\ Len(s3) = 12
  <2>. HIDE DEF s2
  <2>1. s3 \in Seq(Byte) /\ Len(s3) = Len(s2) + Len(p3)
    BY <1>3, <1>5, JoinedBytes
  <2>. HIDE DEF s3
  <2>. QED
    BY <1>3, <1>5, <2>1
<1>7. p \in Seq(Byte) /\ Len(p) = 16
  <2>. HIDE DEF s3
  <2>1. p \in Seq(Byte) /\ Len(p) = Len(s3) + Len(p4)
    BY <1>4, <1>6, JoinedBytes
  <2>. HIDE DEF p
  <2>. QED
    BY <1>4, <1>6, <2>1
<1>8. HoldsAt(p, 0, s3) /\ HoldsAt(p, 12, p4)
  <2>. HIDE DEF s3
  <2>1. HoldsAt(p, 0, s3 \o p4)
    BY <1>7, HoldsFacts
  <2>2. HoldsAt(p, 0, s3) /\ HoldsAt(p, 0 + Len(s3), p4)
    BY <1>4, <1>6, <2>1, HoldsFacts
  <2>. HIDE DEF p
  <2>. QED
    BY <1>6, <2>2
<1>. HIDE DEF p
<1>9. HoldsAt(p, 0, s2) /\ HoldsAt(p, 8, p3)
  <2>. HIDE DEF s2
  <2>1. HoldsAt(p, 0, s2 \o p3)
    BY <1>8
  <2>2. HoldsAt(p, 0, s2) /\ HoldsAt(p, 0 + Len(s2), p3)
    BY <1>3, <1>5, <2>1, HoldsFacts
  <2>. QED
    BY <1>5, <2>2
<1>10. HoldsAt(p, 0, p1) /\ HoldsAt(p, 4, p2)
  <2>1. HoldsAt(p, 0, p1 \o p2)
    BY <1>9
  <2>2. HoldsAt(p, 0, p1) /\ HoldsAt(p, 0 + Len(p1), p2)
    BY <1>2, <2>1, HoldsFacts
  <2>. QED
    BY <1>2, <2>2
<1>11. p[9] = 1 /\ p[10] = 2 /\ p[11] = event /\ p[12] = 3
  <2>1. \A i \in 1 .. Len(p3) : p[8 + i] = p3[i]
    BY <1>9 DEF HoldsAt
  <2>2. p[8 + 1] = p3[1] /\ p[8 + 2] = p3[2] /\ p[8 + 3] = p3[3] /\ p[8 + 4] = p3[4]
    BY <1>3, <2>1
  <2>. QED
    BY <1>3, <2>2
<1>12. C!mid(p, 0, 8) = s2
  <2>1. C!mid(p, 0, Len(s2)) = s2
    <3>. HIDE DEF s2
    <3>. QED
      BY <1>9, HeldPiece
  <2>. QED
    BY <1>5, <2>1
<1>13. C!littleEndian32(p, 0) = card /\ C!littleEndian32(p, 4) = 7
  BY <1>2, <1>10, LongAt DEF p1, p2
<1>14. C!littleEndian32(p, 12) = Clock(time)
  BY <1>4, <1>8
<1>15. C!mid(p, 0, 8) = Long(card) \o Long(7)
  BY <1>12 DEF p1, p2
<1>. QED
  BY <1>1, <1>7, <1>11, <1>13, <1>14, <1>15

\* The log.
LEMMA HeardLog ==
  ASSUME NEW b, NEW id, NEW block \in BOOLEAN, NEW card \in Word, NEW event \in Byte,
         NEW time \in Times, Carries(b, C!kReplyOk, id, LogBytes(card, event, time), block)
  PROVE  Heard("log", b, block) = [status |-> "Ok", value |-> <<LogEntry(card, event, time)>>]
<1>. DEFINE p == LogBytes(card, event, time)
            t == Clock(time)
            door == Long(card) \o Long(7)
            record == C!LogRecord(p)
            entry == LogEntry(card, event, time)
            r == C!decodeRtlogBinaryResponse(b, block)
            read(x) == [x EXCEPT !.time = C!decodeC3DateTime(@)]
            value == [k \in DOMAIN r.value |-> read(r.value[k])]
<1>1. /\ p \in Seq(Byte) /\ Len(p) = 16
      /\ C!littleEndian32(p, 0) = card /\ C!littleEndian32(p, 4) = 7 /\ C!mid(p, 0, 8) = door
      /\ p[9] = 1 /\ p[10] = 2 /\ p[11] = event /\ p[12] = 3
      /\ C!littleEndian32(p, 12) = t
  BY LogParts, SMTT(30)
<1>2. C!decodeC3DateTime(t) = time
  BY ClockFacts
<1>3. C!decodeFrameGeneric(b, block).status = "Ok" /\ C!decodeFrameGeneric(b, block).value = p
  <2>1. p \in Seq(Byte) /\ Carries(b, C!kReplyOk, id, p, block)
    BY <1>1
  <2>. HIDE DEF p
  <2>. QED
    BY <2>1, AnswerTaken, Zenon
<1>. HIDE DEF p, t, door
<1>4. /\ C!byteAt(p, 8) = 1 /\ C!byteAt(p, 9) = 2 /\ C!byteAt(p, 10) = event
      /\ C!byteAt(p, 11) = 3
  BY <1>1 DEF C!byteAt
<1>5. read(record) = entry
  <2>1. CASE event = 255
    <3>1. record = [kind |-> "DoorAlarmStatus", door |-> door, verified |-> 2, time |-> t]
      BY <1>1, <1>4, <2>1 DEF C!LogRecord
    <3>2. entry = [kind |-> "DoorAlarmStatus", door |-> door, verified |-> 2, time |-> time]
      BY <2>1 DEF LogEntry, door
    <3>. QED
      BY <1>2, <3>1, <3>2
  <2>2. CASE event # 255
    <3>1. record = [kind |-> "Event", card |-> card, pin |-> 7, verified |-> 1, doorId |-> 2,
                    inOut |-> 3, event |-> event, time |-> t]
      BY <1>1, <1>4, <2>2 DEF C!LogRecord
    <3>2. entry = [kind |-> "Event", card |-> card, pin |-> 7, verified |-> 1, doorId |-> 2,
                   inOut |-> 3, event |-> event, time |-> time]
      BY <2>2 DEF LogEntry
    <3>. QED
      BY <1>2, <3>1, <3>2
  <2>. QED
    BY <2>1, <2>2
<1>. HIDE DEF record, entry, read
<1>6. r = [status |-> "Ok",
           value |-> [k \in 1 .. 1 |-> C!LogRecord(C!mid(p, 16 * (k - 1), 16))]]
  <2>1. Len(p) % 16 = 0 /\ Len(p) \div 16 = 1
    BY <1>1
  <2>. QED
    BY <1>3, <2>1 DEF C!decodeRtlogBinaryResponse
<1>7. C!mid(p, 0, 16) = p
  <2>1. HoldsAt(p, 0, p)
    BY <1>1, HoldsFacts
  <2>2. C!mid(p, 0, Len(p)) = p
    BY <2>1, HeldPiece
  <2>. QED
    BY <1>1, <2>2
<1>8. r.status = "Ok" /\ DOMAIN r.value = 1 .. 1 /\ r.value[1] = record
  <2>1. 16 * (1 - 1) = 0 /\ 1 \in 1 .. 1
    OBVIOUS
  <2>. HIDE DEF r
  <2>. QED
    BY <1>6, <1>7, <2>1 DEF record
<1>. HIDE DEF r
<1>9. value = <<entry>>
  <2>1. value = [k \in 1 .. 1 |-> read(r.value[k])]
    BY <1>8
  <2>2. \A k \in 1 .. 1 : read(r.value[k]) = entry
    <3>1. \A k \in 1 .. 1 : k = 1
      OBVIOUS
    <3>. QED
      BY <1>5, <1>8, <3>1
  <2>3. value = [k \in 1 .. 1 |-> entry]
    BY <2>1, <2>2
  <2>4. <<entry>> = [k \in 1 .. 1 |-> entry]
    OBVIOUS
  <2>. QED
    BY <2>3, <2>4
<1>10. Heard("log", b, block) = [status |-> r.status, value |-> value]
  BY DEF Heard, r, read
<1>. HIDE DEF value
<1>. QED
  BY <1>8, <1>9, <1>10 DEF entry

\* A number that is sent in no bytes at all, and in two.
LEMMA NumberFacts ==
  /\ C!littleEndian(<<>>) = 0
  /\ \A a, b \in Byte : C!littleEndian(<<a, b>>) = a + 256 * b
<1>1. C!littleEndian(<<>>) = 0
  <2>. DEFINE s == <<>>
              step(h) == [n \in 0 .. Len(s) |->
                            IF n = 0 THEN 0 ELSE s[Len(s) + 1 - n] + 256 * h[n - 1]]
              g == CHOOSE h : h = step(h)
  <2>1. C!littleEndian(s) = g[Len(s)]
    BY DEF C!littleEndian
  <2>2. Len(s) = 0
    OBVIOUS
  <2>. HIDE DEF s
  <2>3. \E h : h = step(h)
    <3>. DEFINE h == [n \in 0 .. 0 |-> 0]
    <3>1. h = step(h)
      BY <2>2
    <3>. QED
      BY <3>1
  <2>4. g = step(g)
    <3>. HIDE DEF step
    <3>. QED
      BY <2>3, Zenon
  <2>. HIDE DEF g
  <2>5. g[0] = 0
    BY <2>2, <2>4
  <2>. QED
    BY <2>1, <2>2, <2>5 DEF s
<1>2. ASSUME NEW a \in Byte, NEW b \in Byte
      PROVE  C!littleEndian(<<a, b>>) = a + 256 * b
  <2>. DEFINE s == <<a, b>>
              step(h) == [n \in 0 .. Len(s) |->
                            IF n = 0 THEN 0 ELSE s[Len(s) + 1 - n] + 256 * h[n - 1]]
              g == CHOOSE h : h = step(h)
  <2>1. C!littleEndian(s) = g[Len(s)]
    BY DEF C!littleEndian
  <2>2. Len(s) = 2 /\ s[1] = a /\ s[2] = b /\ a \in Nat /\ b \in Nat
    BY DEF Byte
  <2>. HIDE DEF s
  <2>3. \E h : h = step(h)
    <3>. DEFINE h == [n \in 0 .. 2 |-> IF n = 0 THEN 0 ELSE IF n = 1 THEN b ELSE a + 256 * b]
    <3>1. h[0] = 0 /\ h[1] = b /\ h[2] = a + 256 * b /\ h = [n \in 0 .. 2 |-> h[n]]
      OBVIOUS
    <3>. HIDE DEF h
    <3>2. \A n \in 0 .. 2 : h[n] = IF n = 0 THEN 0 ELSE s[Len(s) + 1 - n] + 256 * h[n - 1]
      BY <2>2, <3>1
    <3>3. h = step(h)
      BY <2>2, <3>1, <3>2
    <3>. QED
      BY <3>3
  <2>4. g = step(g)
    <3>. HIDE DEF step
    <3>. QED
      BY <2>3, Zenon
  <2>. HIDE DEF g
  <2>5. \A n \in 0 .. 2 : g[n] = IF n = 0 THEN 0 ELSE s[Len(s) + 1 - n] + 256 * g[n - 1]
    BY <2>2, <2>4
  <2>6. g[0] = 0
    BY <2>5
  <2>7. g[1] = b
    BY <2>2, <2>5, <2>6
  <2>8. g[2] = a + 256 * b
    BY <2>2, <2>5, <2>7
  <2>. QED
    BY <2>1, <2>2, <2>8 DEF s
<1>. QED
  BY <1>1, <1>2

-----------------------------------------------------------------------------
(* The rows of a table: Values() is read from its end. *)

\* What there is from an offset on, for every place in a record.
From(p, fields, kinds, f, offset) ==
  [k \in 0 .. Len(fields) |-> C!ValuesFrom(p, fields, kinds, f, offset, k)]

\* f holds what there is from each offset on, down to the offset "first".
IsValuesRun(f, p, fields, kinds, first) ==
  f = [offset \in first .. Len(p) |-> From(p, fields, kinds, f, offset)]

\* It depends only on what comes later.
LEMMA FromLater ==
  ASSUME NEW p \in Seq(Byte), NEW fields, NEW kinds, NEW f, NEW g, NEW offset \in 0 .. Len(p),
         \A j \in offset + 1 .. Len(p) : f[j] = g[j]
  PROVE  From(p, fields, kinds, f, offset) = From(p, fields, kinds, g, offset)
<1>. DEFINE L == Len(p)
<1>1. L \in Nat
  OBVIOUS
<1>2. ASSUME NEW k
      PROVE  C!ValuesFrom(p, fields, kinds, f, offset, k)
             = C!ValuesFrom(p, fields, kinds, g, offset, k)
  <2>. DEFINE size == C!byteAt(p, offset)
              kind == kinds[fields[k + 1]]
              bad == \/ size > L - offset - 1
                     \/ kind # "s" /\ (kind \notin {"i", "L"} \/ size > 8)
              value == C!Value(kind, C!mid(p, offset + 1, size))
              next == (k + 1) % Len(fields)
  <2>1. \A h : C!ValuesFrom(p, fields, kinds, h, offset, k)
              = IF offset = L THEN IF k = 0 THEN <<>> ELSE <<C!Unreadable>>
                ELSE IF bad THEN <<C!Unreadable>>
                ELSE <<value>> \o h[offset + 1 + size][next]
    BY Zenon DEF C!ValuesFrom
  <2>2. CASE offset = L
    BY <2>1, <2>2, Zenon
  <2>3. CASE offset # L /\ bad
    BY <2>1, <2>3, Zenon
  <2>4. CASE offset # L /\ ~bad
    <3>1. offset + 1 \in 1 .. L
      BY <1>1, <2>4
    <3>2. size \in Byte
      BY <3>1 DEF C!byteAt
    <3>3. ~(size > L - offset - 1)
      BY <2>4
    <3>. HIDE DEF size, L
    <3>4. offset + 1 + size \in offset + 1 .. L
      BY <1>1, <3>1, <3>2, <3>3 DEF Byte
    <3>5. f[offset + 1 + size] = g[offset + 1 + size]
      BY <3>4 DEF L
    <3>. HIDE DEF bad, value, next
    <3>. QED
      BY <2>1, <2>4, <3>5, Zenon
  <2>. QED
    BY <2>2, <2>3, <2>4
<1>. QED
  BY <1>2, Zenon DEF From

\* So it can be found from the last offset down to the first.
LEMMA ValuesRunExists ==
  ASSUME NEW p \in Seq(Byte), NEW fields, NEW kinds
  PROVE  \E f : IsValuesRun(f, p, fields, kinds, 0)
<1>. DEFINE L == Len(p)
            S == {n \in Nat : n <= L => \E f : IsValuesRun(f, p, fields, kinds, L - n)}
<1>1. L \in Nat
  OBVIOUS
<1>2. ASSUME NEW n \in Nat, NEW f, NEW first \in 0 .. L,
             \/ first = L
             \/ first < L /\ IsValuesRun(f, p, fields, kinds, first + 1)
      PROVE  \E g : IsValuesRun(g, p, fields, kinds, first)
  <2>. DEFINE top == From(p, fields, kinds, f, first)
              g == [j \in first .. L |-> IF j = first THEN top ELSE f[j]]
  <2>1. /\ g[first] = top /\ \A j \in first + 1 .. L : g[j] = f[j]
    BY <1>1
  <2>2. g = [j \in first .. L |-> g[j]]
    OBVIOUS
  <2>3. \A j \in first + 1 .. L : f[j] = From(p, fields, kinds, f, j)
    <3>1. CASE first = L
      BY <1>1, <3>1
    <3>2. CASE first < L /\ IsValuesRun(f, p, fields, kinds, first + 1)
      BY <3>2, Zenon DEF IsValuesRun, L
    <3>. QED
      BY <1>2, <3>1, <3>2
  <2>. HIDE DEF g
  <2>4. ASSUME NEW j \in first .. L
        PROVE  g[j] = From(p, fields, kinds, g, j)
    <3>1. j \in 0 .. L
      BY <1>1
    <3>2. \A i \in j + 1 .. L : f[i] = g[i]
      BY <1>1, <2>1
    <3>3. From(p, fields, kinds, f, j) = From(p, fields, kinds, g, j)
      BY <3>1, <3>2, FromLater
    <3>4. CASE j = first
      BY <2>1, <3>3, <3>4
    <3>5. CASE j # first
      <4>1. j \in first + 1 .. L
        BY <1>1, <3>5
      <4>. QED
        BY <2>1, <2>3, <3>3, <4>1
    <3>. QED
      BY <3>4, <3>5
  <2>5. IsValuesRun(g, p, fields, kinds, first)
    BY <2>2, <2>4, Zenon DEF IsValuesRun, L
  <2>. QED
    BY <2>5
<1>3. 0 \in S
  <2>1. L \in 0 .. L /\ L - 0 = L
    BY <1>1
  <2>2. \E g : IsValuesRun(g, p, fields, kinds, L)
    BY <1>2, <2>1, Zenon
  <2>. HIDE DEF L
  <2>. QED
    BY <2>1, <2>2
<1>4. ASSUME NEW n \in Nat, n \in S
      PROVE  n + 1 \in S
  <2>1. ASSUME n + 1 <= L
        PROVE  \E f : IsValuesRun(f, p, fields, kinds, L - (n + 1))
    <3>. DEFINE first == L - (n + 1)
    <3>1. first \in 0 .. L /\ first < L /\ first + 1 = L - n /\ n <= L
      BY <1>1, <2>1
    <3>2. PICK f : IsValuesRun(f, p, fields, kinds, L - n)
      BY <1>4, <3>1
    <3>. HIDE DEF first, L
    <3>3. IsValuesRun(f, p, fields, kinds, first + 1)
      BY <3>1, <3>2
    <3>4. \E g : IsValuesRun(g, p, fields, kinds, first)
      BY <1>2, <3>1, <3>3, Zenon
    <3>. QED
      BY <3>4 DEF first
  <2>. QED
    BY <2>1
<1>5. \A n \in Nat : n \in S => n + 1 \in S
  BY <1>4, Zenon
<1>. HIDE DEF S
<1>6. Nat \subseteq S
  BY <1>3, <1>5, Induction
<1>7. L \in S
  BY <1>1, <1>6
<1>8. \E f : IsValuesRun(f, p, fields, kinds, L - L)
  BY <1>1, <1>7 DEF S
<1>9. L - L = 0
  BY <1>1
<1>. QED
  BY <1>8, <1>9

\* Values() starts where the names of the fields end.
LEMMA ValuesIsRun ==
  ASSUME NEW p \in Seq(Byte), NEW fields, NEW kinds
  PROVE  \E f : /\ C!Values(p, fields, kinds) = f[2 + Len(fields)][0]
                /\ \A offset \in 0 .. Len(p), k \in 0 .. Len(fields) :
                     f[offset][k] = C!ValuesFrom(p, fields, kinds, f, offset, k)
<1>. DEFINE step(h) == [offset \in 0 .. Len(p) |->
                          [k \in 0 .. Len(fields) |-> C!ValuesFrom(p, fields, kinds, h, offset, k)]]
            g == CHOOSE h : h = step(h)
<1>1. C!Values(p, fields, kinds) = g[2 + Len(fields)][0]
  BY Zenon DEF C!Values
<1>2. \E h : h = step(h)
  <2>1. PICK h : IsValuesRun(h, p, fields, kinds, 0)
    BY ValuesRunExists
  <2>2. h = step(h)
    BY <2>1, Zenon DEF IsValuesRun, From
  <2>. HIDE DEF step
  <2>. QED
    BY <2>2, Zenon
<1>3. g = step(g)
  <2>. HIDE DEF step
  <2>. QED
    BY <1>2, Zenon
<1>. HIDE DEF g
<1>4. ASSUME NEW offset \in 0 .. Len(p), NEW k \in 0 .. Len(fields)
      PROVE  g[offset][k] = C!ValuesFrom(p, fields, kinds, g, offset, k)
  <2>1. g[offset] = [j \in 0 .. Len(fields) |-> C!ValuesFrom(p, fields, kinds, g, offset, j)]
    BY <1>3, Zenon
  <2>. QED
    BY <2>1, Zenon
<1>. QED
  BY <1>1, <1>4, Zenon

\* f holds what there is in p from each offset on, when the two columns are read.
IsRowRun(f, p) ==
  \A offset \in 0 .. Len(p), k \in 0 .. 2 :
    f[offset][k] = C!ValuesFrom(p, <<1, 2>>, ColumnKinds, f, offset, k)

\* One value is read where it was put.
LEMMA OneValue ==
  ASSUME NEW p \in Seq(Byte), NEW f, IsRowRun(f, p), NEW o \in Nat,
         NEW x \in Seq(Byte), Len(x) <= 8, HoldsAt(p, o, Counted(x))
  PROVE  /\ o + (1 + Len(x)) \in 0 .. Len(p)
         /\ f[o][0] = <<<<C!littleEndian(x)>>>> \o f[o + (1 + Len(x))][1]
         /\ f[o][1] = <<x>> \o f[o + (1 + Len(x))][0]
<1>. DEFINE n == Len(x)
            s == Counted(x)
            L == Len(p)
<1>1. n \in Nat /\ n <= 8 /\ L \in Nat
  OBVIOUS
<1>2. s \in Seq(Byte) /\ Len(s) = 1 + n /\ s[1] = n /\ \A i \in 1 .. n : s[1 + i] = x[i]
  <2>1. n \in Byte
    BY <1>1 DEF Byte
  <2>. QED
    BY <2>1, CountedFacts
<1>3. HoldsAt(p, o, s)
  OBVIOUS
<1>. HIDE DEF s
<1>4. /\ o + (1 + n) <= L /\ \A i \in 1 .. 1 + n : p[o + i] = s[i]
  BY <1>2, <1>3 DEF HoldsAt
<1>5. C!byteAt(p, o) = n
  <2>1. p[o + 1] = s[1]
    BY <1>1, <1>4
  <2>. QED
    BY <1>2, <2>1 DEF C!byteAt
<1>6. C!mid(p, o + 1, n) = x
  <2>1. HoldsAt(p, o + 1, x)
    <3>1. (o + 1) + n <= L
      BY <1>1, <1>4
    <3>2. ASSUME NEW i \in 1 .. n
          PROVE  p[(o + 1) + i] = x[i]
      <4>1. 1 + i \in 1 .. 1 + n /\ (o + 1) + i = o + (1 + i)
        BY <1>1
      <4>. QED
        BY <1>2, <1>4, <4>1
    <3>. QED
      BY <3>1, <3>2 DEF HoldsAt
  <2>. QED
    BY <2>1, HeldPiece
<1>. HIDE DEF n, L
<1>7. o \in 0 .. L /\ o # L /\ ~(n > L - o - 1) /\ o + (1 + n) \in 0 .. L /\ o + 1 + n = o + (1 + n)
  BY <1>1, <1>4
<1>8. ASSUME NEW k \in {0, 1}
      PROVE  f[o][k] = <<IF k = 0 THEN <<C!littleEndian(x)>> ELSE x>> \o f[o + (1 + n)][1 - k]
  <2>. DEFINE kind == ColumnKinds[<<1, 2>>[k + 1]]
  <2>1. kind = IF k = 0 THEN "i" ELSE "s"
    BY DEF ColumnKinds
  <2>2. ~(kind # "s" /\ (kind \notin {"i", "L"} \/ n > 8))
    BY <1>1, <2>1
  <2>3. (k + 1) % Len(<<1, 2>>) = 1 - k /\ k \in 0 .. 2
    OBVIOUS
  <2>4. C!Value(kind, x) = IF k = 0 THEN <<C!littleEndian(x)>> ELSE x
    BY <2>1 DEF C!Value
  <2>5. f[o][k] = C!ValuesFrom(p, <<1, 2>>, ColumnKinds, f, o, k)
    BY <1>7, <2>3 DEF IsRowRun, L
  <2>6. C!ValuesFrom(p, <<1, 2>>, ColumnKinds, f, o, k)
        = <<C!Value(kind, C!mid(p, o + 1, n))>> \o f[o + 1 + n][(k + 1) % Len(<<1, 2>>)]
    <3>. HIDE DEF kind
    <3>. QED
      BY <1>5, <1>7, <2>2, Zenon DEF C!ValuesFrom, L, kind
  <2>. HIDE DEF kind
  <2>. QED
    BY <1>6, <1>7, <2>3, <2>4, <2>5, <2>6
<1>9. f[o][0] = <<<<C!littleEndian(x)>>>> \o f[o + (1 + n)][1]
  <2>1. f[o][0] = <<IF 0 = 0 THEN <<C!littleEndian(x)>> ELSE x>> \o f[o + (1 + n)][1 - 0]
    BY <1>8
  <2>. QED
    BY <2>1
<1>10. f[o][1] = <<x>> \o f[o + (1 + n)][0]
  <2>1. f[o][1] = <<IF 1 = 0 THEN <<C!littleEndian(x)>> ELSE x>> \o f[o + (1 + n)][1 - 1]
    BY <1>8
  <2>. QED
    BY <2>1
<1>. QED
  BY <1>7, <1>9, <1>10 DEF n, L

\* The parts of a row: what is sent of the number, and the text.
LEMMA RowParts ==
  ASSUME NEW row \in Rows
  PROVE  LET x == IF row[1] = 0 THEN <<>> ELSE <<Low(row[1]), High(row[1])>> IN
         /\ row # NoRow /\ row[1] \in Nat /\ row[2] \in Seq(Byte) /\ Len(row[2]) <= 2
         /\ x \in Seq(Byte) /\ Len(x) <= 2 /\ C!littleEndian(x) = row[1]
<1>. DEFINE x == IF row[1] = 0 THEN <<>> ELSE <<Low(row[1]), High(row[1])>>
<1>1. 65 \in Byte /\ 66 \in Byte /\ 0 \in Word /\ 5 \in Word /\ 300 \in Word
  BY DEF Byte, Word
<1>2. row[1] \in Word /\ row[2] \in Seq(Byte) /\ Len(row[2]) <= 2 /\ Len(row) = 2
  <2>1. CASE row = <<0, <<>> >>
    BY <1>1, <2>1
  <2>2. CASE row = <<5, <<65>> >>
    BY <1>1, <2>2
  <2>3. CASE row = <<300, <<65, 66>> >>
    BY <1>1, <2>3
  <2>. QED
    BY <2>1, <2>2, <2>3 DEF Rows
<1>3. row # NoRow
  BY <1>2 DEF NoRow
<1>4. Low(row[1]) \in Byte /\ High(row[1]) \in Byte /\ 256 * High(row[1]) + Low(row[1]) = row[1]
  BY <1>2, BigEndianFacts
<1>5. x \in Seq(Byte) /\ Len(x) <= 2
  BY <1>4
<1>6. C!littleEndian(x) = row[1]
  <2>1. CASE row[1] = 0
    BY <2>1, NumberFacts
  <2>2. CASE row[1] # 0
    <3>1. x = <<Low(row[1]), High(row[1])>>
      BY <2>2
    <3>2. C!littleEndian(<<Low(row[1]), High(row[1])>>) = Low(row[1]) + 256 * High(row[1])
      BY <1>4, NumberFacts
    <3>3. Low(row[1]) \in Nat /\ High(row[1]) \in Nat
      BY <1>4 DEF Byte
    <3>. QED
      BY <1>4, <3>1, <3>2, <3>3
  <2>. QED
    BY <2>1, <2>2
<1>7. row[1] \in Nat
  BY <1>2 DEF Word
<1>. QED
  BY <1>2, <1>3, <1>5, <1>6, <1>7

\* Values are sequences of numbers: a single number, or the codes of a text.
ValueList == Seq(Seq(Int))

\* Two elements in front of others.
LEMMA TwoInFront ==
  ASSUME NEW S, NEW a \in S, NEW b \in S, NEW rest \in Seq(S)
  PROVE  /\ <<a>> \o (<<b>> \o rest) = <<a, b>> \o rest
         /\ <<a, b>> \o rest \in Seq(S)
<1>. DEFINE s == <<a>>
            u == <<b>>
            t == <<a, b>>
<1>1. s \in Seq(S) /\ Len(s) = 1 /\ s[1] = a /\ u \in Seq(S) /\ Len(u) = 1 /\ u[1] = b
  OBVIOUS
<1>2. t \in Seq(S) /\ Len(t) = 2 /\ t[1] = a /\ t[2] = b
  OBVIOUS
<1>. HIDE DEF s, u, t
<1>3. s \o u = t
  <2>1. /\ s \o u \in Seq(S) /\ Len(s \o u) = Len(s) + Len(u)
        /\ \A i \in 1 .. Len(s) + Len(u) : (s \o u)[i] = IF i <= Len(s) THEN s[i] ELSE u[i - Len(s)]
    BY <1>1, ConcatProperties
  <2>2. (s \o u)[1] = a /\ (s \o u)[2] = b /\ Len(s \o u) = 2
    BY <1>1, <2>1
  <2>3. \A i \in 1 .. 2 : (s \o u)[i] = t[i]
    BY <1>2, <2>2
  <2>. QED
    BY <1>2, <2>1, <2>2, <2>3, SeqEqual
<1>4. s \o (u \o rest) = (s \o u) \o rest
  BY <1>1, ConcatAssociative
<1>5. t \o rest \in Seq(S)
  BY <1>2, ConcatProperties
<1>. QED
  BY <1>3, <1>4, <1>5 DEF s, u, t

\* A row is read where it was put.
LEMMA OneRow ==
  ASSUME NEW p \in Seq(Byte), NEW f, IsRowRun(f, p), NEW o \in 0 .. Len(p),
         NEW row \in Rows \cup {NoRow}, HoldsAt(p, o, RowBytes(row)),
         f[o + Len(RowBytes(row))][0] \in ValueList
  PROVE  /\ f[o][0] = RowValues(row) \o f[o + Len(RowBytes(row))][0]
         /\ f[o][0] \in ValueList
<1>1. CASE row = NoRow
  <2>1. RowBytes(row) = <<>> /\ RowValues(row) = <<>>
    BY <1>1 DEF RowBytes, RowValues
  <2>2. o + Len(RowBytes(row)) = o
    BY <2>1
  <2>3. f[o][0] \in ValueList
    BY <2>2
  <2>4. <<>> \o f[o][0] = f[o][0]
    BY <2>3, ConcatEmptySeq DEF ValueList
  <2>. QED
    BY <2>1, <2>2, <2>3, <2>4
<1>2. CASE row \in Rows
  <2>. DEFINE x == IF row[1] = 0 THEN <<>> ELSE <<Low(row[1]), High(row[1])>>
              y == row[2]
              cx == Counted(x)
              cy == Counted(y)
  <2>1. /\ row # NoRow /\ row[1] \in Nat /\ y \in Seq(Byte) /\ Len(y) <= 2
        /\ x \in Seq(Byte) /\ Len(x) <= 2 /\ C!littleEndian(x) = row[1]
    BY <1>2, RowParts
  <2>2. RowBytes(row) = cx \o cy
    BY <2>1 DEF RowBytes
  <2>3. RowValues(row) = <<<<row[1]>>, y>>
    BY <2>1 DEF RowValues
  <2>. HIDE DEF x, y
  <2>4. Len(x) \in Nat /\ Len(y) \in Nat /\ Len(x) \in Byte /\ Len(y) \in Byte
    BY <2>1 DEF Byte
  <2>5. /\ cx \in Seq(Byte) /\ Len(cx) = 1 + Len(x) /\ cy \in Seq(Byte) /\ Len(cy) = 1 + Len(y)
    BY <2>1, <2>4, CountedFacts
  <2>6. HoldsAt(p, o, cx) /\ HoldsAt(p, o + Len(cx), cy)
    <3>. HIDE DEF cx, cy
    <3>1. HoldsAt(p, o, cx \o cy) /\ o \in Nat
      BY <2>2
    <3>. QED
      BY <2>5, <3>1, HoldsFacts
  <2>7. Len(RowBytes(row)) = Len(cx) + Len(cy)
    <3>. HIDE DEF cx, cy
    <3>. QED
      BY <2>2, <2>5, JoinedBytes
  <2>. DEFINE o1 == o + (1 + Len(x))
              o2 == o1 + (1 + Len(y))
  <2>8. /\ o1 \in 0 .. Len(p)
        /\ f[o][0] = <<<<C!littleEndian(x)>>>> \o f[o1][1]
    <3>1. o \in Nat /\ x \in Seq(Byte) /\ Len(x) <= 8 /\ HoldsAt(p, o, Counted(x))
      BY <2>1, <2>4, <2>6
    <3>. QED
      BY <3>1, OneValue, Zenon
  <2>9. f[o1][1] = <<y>> \o f[o2][0]
    <3>. HIDE DEF o1
    <3>1. o1 = o + Len(cx)
      BY <2>5 DEF o1
    <3>2. o1 \in Nat /\ y \in Seq(Byte) /\ Len(y) <= 8 /\ HoldsAt(p, o1, Counted(y))
      BY <2>1, <2>4, <2>6, <2>8, <3>1
    <3>. QED
      BY <3>2, OneValue, Zenon
  <2>10. o2 = o + Len(RowBytes(row))
    <3>. HIDE DEF cx, cy
    <3>. QED
      BY <2>4, <2>5, <2>7
  <2>. HIDE DEF o1, o2, cx, cy
  <2>11. f[o][0] = <<<<row[1]>>>> \o (<<y>> \o f[o2][0])
    BY <2>1, <2>8, <2>9
  <2>12. <<row[1]>> \in Seq(Int) /\ y \in Seq(Int)
    <3>1. \A i \in 1 .. Len(y) : y[i] \in Int
      BY <2>1 DEF Byte
    <3>2. y = [i \in 1 .. Len(y) |-> y[i]]
      BY <2>1
    <3>3. y \in [1 .. Len(y) -> Int]
      BY <3>1, <3>2
    <3>4. y \in Seq(Int)
      BY <2>4, <3>3, FunctionIsSequence
    <3>. QED
      BY <2>1, <3>4
  <2>13. f[o2][0] \in Seq(Seq(Int))
    BY <2>10 DEF ValueList
  <2>14. /\ <<<<row[1]>>>> \o (<<y>> \o f[o2][0]) = <<<<row[1]>>, y>> \o f[o2][0]
         /\ <<<<row[1]>>, y>> \o f[o2][0] \in Seq(Seq(Int))
    BY <2>12, <2>13, TwoInFront, Zenon
  <2>. QED
    BY <2>3, <2>10, <2>11, <2>14 DEF ValueList
<1>. QED
  BY <1>1, <1>2

\* The values of a row end in a text, which is never taken for the mark of a bad value.
LEMMA RowValuesFacts ==
  ASSUME NEW row \in Rows \cup {NoRow}
  PROVE  LET v == RowValues(row) IN
         /\ v \in ValueList
         /\ v = <<>> \/ (Len(v) = 2 /\ v[2] # C!Unreadable)
<1>. DEFINE v == RowValues(row)
<1>1. CASE row = NoRow
  <2>1. v = <<>>
    BY <1>1 DEF RowValues
  <2>2. <<>> \in ValueList
    BY DEF ValueList
  <2>. HIDE DEF v
  <2>3. v \in ValueList /\ v = <<>>
    BY <2>1, <2>2
  <2>. QED
    BY <2>3 DEF v
<1>2. CASE row \in Rows
  <2>. DEFINE y == row[2]
  <2>1. row # NoRow /\ row[1] \in Nat /\ y \in Seq(Byte)
    BY <1>2, RowParts
  <2>2. v = <<<<row[1]>>, y>>
    BY <2>1 DEF RowValues
  <2>. HIDE DEF y, v
  <2>3. y # C!Unreadable
    <3>1. SUFFICES ASSUME y = <<-1>> PROVE FALSE
      BY DEF C!Unreadable
    <3>2. y[1] = -1 /\ Len(y) = 1
      BY <3>1
    <3>3. y[1] \in Byte
      <4>1. \A i \in 1 .. Len(y) : y[i] \in Byte
        BY <2>1
      <4>2. 1 \in 1 .. Len(y)
        BY <3>2
      <4>. HIDE DEF y
      <4>. QED
        BY <4>1, <4>2
    <3>. QED
      BY <3>2, <3>3 DEF Byte
  <2>4. y \in Seq(Int)
    <3>1. \A i \in 1 .. Len(y) : y[i] \in Int
      BY <2>1 DEF Byte
    <3>2. y = [i \in 1 .. Len(y) |-> y[i]] /\ Len(y) \in Nat
      BY <2>1
    <3>3. y \in [1 .. Len(y) -> Int]
      BY <3>1, <3>2
    <3>. QED
      BY <3>2, <3>3, FunctionIsSequence
  <2>. DEFINE n == <<row[1]>>
  <2>5. n \in Seq(Int) /\ v = <<n, y>>
    BY <2>1, <2>2
  <2>. HIDE DEF n
  <2>6. v \in Seq(Seq(Int)) /\ Len(v) = 2 /\ v[2] = y
    BY <2>4, <2>5
  <2>. QED
    BY <2>3, <2>6 DEF ValueList, v
<1>. QED
  BY <1>1, <1>2

\* So do the values of two rows.
LEMMA RowsReadable ==
  ASSUME NEW r \in Rows \cup {NoRow}, NEW s \in Rows \cup {NoRow}
  PROVE  LET v == RowValues(r) \o RowValues(s) IN
         v \in ValueList /\ ~(v # <<>> /\ C!Last(v) = C!Unreadable)
<1>. DEFINE a == RowValues(r)
            b == RowValues(s)
            v == a \o b
<1>1. /\ a \in ValueList /\ (a = <<>> \/ (Len(a) = 2 /\ a[2] # C!Unreadable))
      /\ b \in ValueList /\ (b = <<>> \/ (Len(b) = 2 /\ b[2] # C!Unreadable))
  BY RowValuesFacts
<1>. HIDE DEF a, b
<1>2. /\ v \in ValueList /\ Len(v) = Len(a) + Len(b) /\ Len(a) \in Nat /\ Len(b) \in Nat
      /\ \A i \in 1 .. Len(a) + Len(b) : v[i] = IF i <= Len(a) THEN a[i] ELSE b[i - Len(a)]
  BY <1>1, ConcatProperties DEF ValueList
<1>3. C!Last(v) = v[Len(v)]
  BY DEF C!Last
<1>4. CASE b = <<>>
  <2>1. v = a
    BY <1>1, <1>4, ConcatEmptySeq DEF ValueList
  <2>2. ~(v # <<>> /\ C!Last(v) = C!Unreadable)
    BY <1>1, <1>3, <2>1
  <2>. QED
    BY <1>2, <2>2 DEF a, b
<1>5. CASE Len(b) = 2 /\ b[2] # C!Unreadable
  <2>. HIDE DEF v
  <2>1. Len(v) = Len(a) + 2 /\ Len(v) \in 1 .. Len(a) + Len(b) /\ ~(Len(v) <= Len(a))
        /\ Len(v) - Len(a) = 2
    BY <1>2, <1>5
  <2>2. v[Len(v)] = b[2]
    BY <1>2, <2>1
  <2>3. ~(v # <<>> /\ C!Last(v) = C!Unreadable)
    BY <1>3, <1>5, <2>2
  <2>. QED
    BY <1>2, <2>3 DEF v, a, b
<1>. QED
  BY <1>1, <1>4, <1>5

\* The parts of a table: its number, the fields, the rows.
LEMMA TableParts ==
  ASSUME NEW r \in Rows \cup {NoRow}, NEW s \in Rows \cup {NoRow}
  PROVE  LET p == <<3, 2, 1, 2>> \o RowBytes(r) \o RowBytes(s)
             n == Len(RowBytes(r))
         IN  /\ p \in Seq(Byte) /\ n \in Nat
             /\ Len(p) = (4 + n) + Len(RowBytes(s)) /\ Len(RowBytes(s)) \in Nat
             /\ C!byteAt(p, 0) = 3 /\ C!byteAt(p, 1) = 2 /\ C!mid(p, 2, 2) = <<1, 2>>
             /\ HoldsAt(p, 4, RowBytes(r)) /\ HoldsAt(p, 4 + n, RowBytes(s))
<1>. DEFINE h == <<3, 2, 1, 2>>
            a == RowBytes(r)
            b == RowBytes(s)
            t == h \o a
            p == t \o b
<1>1. 1 \in Byte /\ 2 \in Byte /\ 3 \in Byte
  BY DEF Byte
<1>2. h \in Seq(Byte) /\ Len(h) = 4 /\ h[1] = 3 /\ h[2] = 2 /\ h[3] = 1 /\ h[4] = 2
  BY <1>1
<1>3. a \in Seq(Byte) /\ b \in Seq(Byte) /\ Len(a) \in Nat /\ Len(b) \in Nat
  BY RowFacts DEF AtMost
<1>. HIDE DEF h, a, b
<1>4. t \in Seq(Byte) /\ Len(t) = 4 + Len(a)
  <2>1. t \in Seq(Byte) /\ Len(t) = Len(h) + Len(a)
    BY <1>2, <1>3, JoinedBytes
  <2>. HIDE DEF t
  <2>. QED
    BY <1>2, <2>1
<1>5. p \in Seq(Byte) /\ Len(p) = (4 + Len(a)) + Len(b)
  <2>. HIDE DEF t
  <2>1. p \in Seq(Byte) /\ Len(p) = Len(t) + Len(b)
    BY <1>3, <1>4, JoinedBytes
  <2>. HIDE DEF p
  <2>. QED
    BY <1>4, <2>1
<1>6. HoldsAt(p, 0, t) /\ HoldsAt(p, 4 + Len(a), b)
  <2>. HIDE DEF t
  <2>1. HoldsAt(p, 0, t \o b)
    BY <1>5, HoldsFacts
  <2>2. HoldsAt(p, 0, t) /\ HoldsAt(p, 0 + Len(t), b)
    BY <1>3, <1>4, <2>1, HoldsFacts
  <2>3. 0 + Len(t) = 4 + Len(a)
    BY <1>3, <1>4
  <2>. HIDE DEF p
  <2>. QED
    BY <2>2, <2>3
<1>7. p = <<3, 2, 1, 2>> \o RowBytes(r) \o RowBytes(s)
  BY DEF p, t, h, a, b
<1>. HIDE DEF p
<1>8. HoldsAt(p, 0, h) /\ HoldsAt(p, 4, a)
  <2>1. HoldsAt(p, 0, h \o a)
    BY <1>6
  <2>2. HoldsAt(p, 0, h) /\ HoldsAt(p, 0 + Len(h), a)
    BY <1>2, <1>3, <2>1, HoldsFacts
  <2>. QED
    BY <1>2, <2>2
<1>9. p[1] = 3 /\ p[2] = 2 /\ p[3] = 1 /\ p[4] = 2
  <2>1. \A i \in 1 .. Len(h) : p[0 + i] = h[i]
    BY <1>8 DEF HoldsAt
  <2>2. p[0 + 1] = h[1] /\ p[0 + 2] = h[2] /\ p[0 + 3] = h[3] /\ p[0 + 4] = h[4]
    BY <1>2, <2>1
  <2>. QED
    BY <1>2, <2>2
<1>10. C!byteAt(p, 0) = 3 /\ C!byteAt(p, 1) = 2
  BY <1>9 DEF C!byteAt
<1>11. C!mid(p, 2, 2) = <<1, 2>>
  <2>. DEFINE u == <<1, 2>>
  <2>1. u \in Seq(Byte) /\ Len(u) = 2 /\ u[1] = 1 /\ u[2] = 2
    BY <1>1, PairFacts
  <2>. HIDE DEF u
  <2>2. p[2 + 1] = u[1] /\ p[2 + 2] = u[2]
    BY <1>9, <2>1
  <2>3. HoldsAt(p, 2, u)
    BY <1>3, <1>5, <2>1, <2>2 DEF HoldsAt
  <2>4. C!mid(p, 2, Len(u)) = u
    BY <2>3, HeldPiece
  <2>. QED
    BY <2>1, <2>4 DEF u
<1>. QED
  BY <1>3, <1>5, <1>6, <1>7, <1>8, <1>10, <1>11 DEF a, b

\* The rows are read as they were, in their order.
LEMMA RowsRead ==
  ASSUME NEW r \in Rows \cup {NoRow}, NEW s \in Rows \cup {NoRow}
  PROVE  C!Values(<<3, 2, 1, 2>> \o RowBytes(r) \o RowBytes(s), <<1, 2>>, ColumnKinds)
         = RowValues(r) \o RowValues(s)
<1>. DEFINE p == <<3, 2, 1, 2>> \o RowBytes(r) \o RowBytes(s)
            n == Len(RowBytes(r))
            m == Len(RowBytes(s))
            fields == <<1, 2>>
<1>1. /\ p \in Seq(Byte) /\ n \in Nat /\ m \in Nat /\ Len(p) = (4 + n) + m
      /\ HoldsAt(p, 4, RowBytes(r)) /\ HoldsAt(p, 4 + n, RowBytes(s))
  BY TableParts
<1>. HIDE DEF p
<1>2. PICK f : /\ C!Values(p, fields, ColumnKinds) = f[2 + Len(fields)][0]
               /\ \A offset \in 0 .. Len(p), k \in 0 .. Len(fields) :
                    f[offset][k] = C!ValuesFrom(p, fields, ColumnKinds, f, offset, k)
  <2>. HIDE DEF fields
  <2>1. p \in Seq(Byte)
    BY <1>1
  <2>. QED
    BY <2>1, ValuesIsRun
<1>3. Len(fields) = 2 /\ 2 + 2 = 4
  OBVIOUS
<1>4. IsRowRun(f, p)
  <2>. HIDE DEF fields
  <2>1. \A offset \in 0 .. Len(p), k \in 0 .. 2 :
          f[offset][k] = C!ValuesFrom(p, fields, ColumnKinds, f, offset, k)
    BY <1>2, <1>3
  <2>. QED
    BY <2>1, Zenon DEF IsRowRun, fields
<1>5. C!Values(p, fields, ColumnKinds) = f[4][0]
  <2>. HIDE DEF fields
  <2>. QED
    BY <1>2, <1>3
<1>. HIDE DEF n, m
<1>. DEFINE last == (4 + n) + m
<1>6. f[last][0] = <<>> /\ <<>> \in ValueList
  <2>1. last \in 0 .. Len(p) /\ 0 \in 0 .. 2 /\ last = Len(p)
    BY <1>1
  <2>2. f[last][0] = C!ValuesFrom(p, <<1, 2>>, ColumnKinds, f, last, 0)
    BY <1>4, <2>1 DEF IsRowRun
  <2>. HIDE DEF last
  <2>3. C!ValuesFrom(p, <<1, 2>>, ColumnKinds, f, last, 0) = <<>>
    BY <2>1, Zenon DEF C!ValuesFrom
  <2>. QED
    BY <2>2, <2>3 DEF ValueList
<1>7. f[4 + n][0] = RowValues(s) \o f[last][0] /\ f[4 + n][0] \in ValueList
  <2>1. 4 + n \in 0 .. Len(p) /\ f[(4 + n) + Len(RowBytes(s))][0] \in ValueList
    BY <1>1, <1>6 DEF m
  <2>. QED
    BY <1>1, <1>4, <2>1, OneRow DEF m
<1>8. f[4][0] = RowValues(r) \o f[4 + n][0]
  <2>1. 4 \in 0 .. Len(p) /\ f[4 + Len(RowBytes(r))][0] \in ValueList
    BY <1>1, <1>7 DEF n
  <2>. QED
    BY <1>1, <1>4, <2>1, OneRow DEF n
<1>9. RowValues(s) \o <<>> = RowValues(s)
  <2>1. RowValues(s) \in ValueList
    BY RowValuesFacts
  <2>. QED
    BY <2>1, ConcatEmptySeq DEF ValueList
<1>10. C!Values(p, fields, ColumnKinds) = RowValues(r) \o RowValues(s)
  BY <1>5, <1>6, <1>7, <1>8, <1>9
<1>. QED
  BY <1>10 DEF p

\* A table of rows.
LEMMA HeardRows ==
  ASSUME NEW b, NEW id, NEW block \in BOOLEAN, NEW r \in Rows \cup {NoRow},
         NEW s \in Rows \cup {NoRow},
         Carries(b, C!kReplyOk, id, <<3, 2, 1, 2>> \o RowBytes(r) \o RowBytes(s), block)
  PROVE  Heard("rows", b, block)
         = [status |-> "Ok", value |-> RowValues(r) \o RowValues(s)]
<1>. DEFINE p == <<3, 2, 1, 2>> \o RowBytes(r) \o RowBytes(s)
            v == RowValues(r) \o RowValues(s)
            frame == C!decodeFrameGeneric(b, block)
            fields == <<1, 2>>
<1>1. /\ p \in Seq(Byte) /\ Len(p) \in Nat /\ Len(p) >= 4
      /\ C!byteAt(p, 0) = 3 /\ C!byteAt(p, 1) = 2 /\ C!mid(p, 2, 2) = fields
  BY TableParts
<1>2. C!Values(p, fields, ColumnKinds) = v
  BY RowsRead
<1>3. ~(v # <<>> /\ C!Last(v) = C!Unreadable)
  BY RowsReadable
<1>4. frame.status = "Ok" /\ frame.command = C!kReplyOk /\ frame.value = p
  <2>1. p \in Seq(Byte) /\ Carries(b, C!kReplyOk, id, p, block)
    BY <1>1
  <2>. HIDE DEF p
  <2>. QED
    BY <2>1, AnswerTaken, Zenon
<1>. HIDE DEF p, v
<1>5. ~(\E f \in C!Range(fields) : f \notin DOMAIN ColumnKinds)
  <2>1. DOMAIN ColumnKinds = {1, 2}
    BY DEF ColumnKinds
  <2>2. \A i \in DOMAIN fields : fields[i] \in {1, 2}
    <3>1. DOMAIN fields = 1 .. 2 /\ fields[1] = 1 /\ fields[2] = 2
      OBVIOUS
    <3>. HIDE DEF fields
    <3>. QED
      BY <3>1
  <2>. HIDE DEF fields
  <2>. QED
    BY <2>1, <2>2, Zenon DEF C!Range
<1>. HIDE DEF fields
<1>6. C!parseGetDataPayload(p, 3, ColumnKinds) = [status |-> "Ok", value |-> v]
  <2>1. ~(Len(p) < 2) /\ ~(Len(p) < 2 + 2) /\ 2 # 0
    BY <1>1
  <2>. QED
    BY <1>1, <1>2, <1>3, <1>5, <2>1 DEF C!parseGetDataPayload
<1>7. frame.command # C!kCommandPrepareData
  <2>1. C!kReplyOk # C!kCommandPrepareData
    BY DEF C!kReplyOk, C!kCommandPrepareData
  <2>. QED
    BY <1>4, <2>1
<1>8. C!decodeGetDataResponse(b, 3, ColumnKinds, block) = C!parseGetDataPayload(p, 3, ColumnKinds)
  BY <1>4, <1>7, Zenon DEF C!decodeGetDataResponse
<1>9. Heard("rows", b, block) = C!decodeGetDataResponse(b, 3, ColumnKinds, block)
  BY DEF Heard
<1>. QED
  BY <1>6, <1>8, <1>9 DEF v

\* What the encoder makes of a payload is read by a panel as that payload.
LEMMA EncodedIsRead ==
  ASSUME NEW command \in Byte, NEW id \in Word, NEW block \in BOOLEAN,
         NEW payload \in Seq(Byte), 4 + Len(payload) \in Word
  PROVE  PanelReads(C!encodeFrame(command, id, 1, payload, block), block)
         = <<command, IF block THEN id ELSE 0, payload, TRUE>>
<1>. DEFINE b == C!encodeFrame(command, id, 1, payload, block)
<1>1. 1 \in Word
  BY DEF Word
<1>2. Carries(b, command, id, payload, block)
  BY <1>1, EncodedCarries
<1>. HIDE DEF b
<1>3. PanelReads(b, block) = <<command, IF block THEN id ELSE 0, payload, TRUE>>
  BY <1>2, PanelReadsFrame
<1>. QED
  BY <1>3 DEF b

\* A panel's own frame carries its payload too: it is the frame of the codec.
LEMMA PanelCarries ==
  ASSUME NEW command \in Byte, NEW id \in Word, NEW block \in BOOLEAN,
         NEW payload \in Seq(Byte), 4 + Len(payload) \in Word
  PROVE  Carries(PanelFrame(command, id, payload, block), command, id, payload, block)
<1>1. 1 \in Word
  BY DEF Word
<1>2. PanelFrame(command, id, payload, block) = C!encodeFrame(command, id, 1, payload, block)
  BY SameFrames
<1>. QED
  BY <1>1, <1>2, EncodedCarries

\* The fields that are asked for are named one by one, behind their number.
LEMMA FieldsAreRead ==
  ASSUME NEW id \in Word, NEW block \in BOOLEAN, NEW fields \in Seq(Byte), Len(fields) \in Byte
  PROVE  PanelReads(C!encodeGetDataRequest(3, fields, id, 1, block), block)
         = <<8, IF block THEN id ELSE 0, <<3, Len(fields)>> \o fields \o <<0, 0>>, TRUE>>
<1>. DEFINE n == Len(fields)
            head == <<3, n>>
            tail == <<0, 0>>
            payload == (head \o fields) \o tail
<1>1. 8 \in Byte /\ 0 \in Byte /\ 3 \in Byte
  BY DEF Byte
<1>2. n % 256 = n /\ n \in Byte /\ n \in Nat
  BY DEF Byte
<1>3. head \in Seq(Byte) /\ Len(head) = 2 /\ tail \in Seq(Byte) /\ Len(tail) = 2
  BY <1>1, <1>2, PairFacts
<1>4. C!encodeGetDataRequest(3, fields, id, 1, block) = C!encodeFrame(8, id, 1, payload, block)
  BY <1>2 DEF C!encodeGetDataRequest
<1>5. payload \in Seq(Byte) /\ Len(payload) = (2 + n) + 2
  <2>. HIDE DEF head, tail
  <2>1. head \o fields \in Seq(Byte) /\ Len(head \o fields) = Len(head) + Len(fields)
    BY <1>3, JoinedBytes
  <2>. DEFINE h == head \o fields
  <2>2. payload = h \o tail /\ h \in Seq(Byte) /\ Len(h) = 2 + n
    BY <1>3, <2>1
  <2>. HIDE DEF h, payload, n
  <2>3. h \o tail \in Seq(Byte) /\ Len(h \o tail) = Len(h) + 2
    BY <1>3, <2>2, PairJoined
  <2>. QED
    BY <2>2, <2>3
<1>6. 4 + Len(payload) \in Word
  <2>. HIDE DEF payload, n
  <2>. QED
    BY <1>2, <1>5 DEF Word, Byte
<1>. HIDE DEF payload
<1>7. PanelReads(C!encodeFrame(8, id, 1, payload, block), block)
      = <<8, IF block THEN id ELSE 0, payload, TRUE>>
  BY <1>1, <1>5, <1>6, EncodedIsRead
<1>. QED
  BY <1>4, <1>7 DEF payload

\* An offset is sent in four bytes, if it has at most 24 bits.
IsOffset(offset) == offset \in Nat /\ offset \div 65536 \in Byte

\* Those bytes, the lowest first.
OffsetBytes(offset) == <<offset % 256, (offset \div 256) % 256, offset \div 65536, 0>>

\* The two pairs that the encoder puts together.
OffsetHalves(offset) == C!LittleEndian16(offset) \o C!LittleEndian16(offset \div 65536)

\* They are those bytes.
LEMMA OffsetPairs ==
  ASSUME NEW offset, IsOffset(offset)
  PROVE  \E w, x, y, z \in Byte :
           OffsetBytes(offset) = <<w, x, y, z>> /\ OffsetHalves(offset) = <<w, x>> \o <<y, z>>
<1>. DEFINE w == offset % 256
            x == (offset \div 256) % 256
            y == offset \div 65536
<1>1. w \in Byte /\ x \in Byte /\ y \in Byte /\ 0 \in Byte /\ y % 256 = y /\ (y \div 256) % 256 = 0
  BY DEF Byte, IsOffset
<1>2. C!LittleEndian16(y) = <<y, 0>>
  BY <1>1 DEF C!LittleEndian16
<1>3. C!LittleEndian16(offset) = <<w, x>>
  BY DEF C!LittleEndian16
<1>4. /\ OffsetBytes(offset) = <<w, x, y, 0>>
      /\ OffsetHalves(offset) = C!LittleEndian16(offset) \o C!LittleEndian16(y)
  BY DEF OffsetBytes, OffsetHalves
<1>5. OffsetBytes(offset) = <<w, x, y, 0>> /\ OffsetHalves(offset) = <<w, x>> \o <<y, 0>>
  <2>. HIDE DEF w, x, y
  <2>. QED
    BY <1>2, <1>3, <1>4
<1>. HIDE DEF w, x, y
<1>. QED
  BY <1>1, <1>5, ZenonT(60)

\* A panel that is asked for the bytes from an offset reads that offset.
LEMMA OffsetIsRead ==
  ASSUME NEW id \in Word, NEW block \in BOOLEAN, NEW offset, IsOffset(offset)
  PROVE  PanelReads(C!encodeTransmitDataRequest(offset, id, 1, block), block)
         = <<14, IF block THEN id ELSE 0, OffsetBytes(offset), TRUE>>
<1>1. PICK w, x, y, z \in Byte :
        OffsetBytes(offset) = <<w, x, y, z>> /\ OffsetHalves(offset) = <<w, x>> \o <<y, z>>
  BY OffsetPairs, Zenon
<1>2. C!encodeTransmitDataRequest(offset, id, 1, block)
      = C!encodeFrame(14, id, 1, OffsetHalves(offset), block)
  BY DEF C!encodeTransmitDataRequest, OffsetHalves
<1>. DEFINE payload == <<w, x, y, z>>
<1>3. 14 \in Byte
  BY DEF Byte
<1>4. payload \in Seq(Byte) /\ Len(payload) = 4
  BY <1>1
<1>5. 4 + Len(payload) \in Word
  BY <1>4 DEF Word
<1>6. <<w, x>> \o <<y, z>> = payload
  BY TwoPairs
<1>7. OffsetBytes(offset) = payload /\ OffsetHalves(offset) = payload
  BY <1>1, <1>6
<1>. HIDE DEF payload
<1>8. PanelReads(C!encodeFrame(14, id, 1, payload, block), block)
      = <<14, IF block THEN id ELSE 0, payload, TRUE>>
  BY <1>3, <1>4, <1>5, EncodedIsRead
<1>. QED
  BY <1>2, <1>7, <1>8

\* The command to open a door carries its four parameters.
LEMMA ControlIsRead ==
  ASSUME NEW id \in Word, NEW block \in BOOLEAN
  PROVE  PanelReads(C!encodeControlRequest(1, <<1, 1, 5>>, id, 1, block), block)
         = <<5, IF block THEN id ELSE 0, <<1, 1, 1, 5, 0>>, TRUE>>
<1>. DEFINE payload == <<1, 1, 1, 5, 0>>
<1>1. 0 \in Byte /\ 1 \in Byte /\ 5 \in Byte
  BY DEF Byte
<1>2. payload \in Seq(Byte) /\ Len(payload) = 5
  BY <1>1
<1>3. 4 + Len(payload) \in Word
  BY <1>2 DEF Word
<1>4. <<1>> \o <<1, 1, 5>> \o <<0>> = payload
  <2>. DEFINE p == <<1>>
              q == <<1, 1, 5>>
              z == <<0>>
              h == p \o q
              t == h \o z
  <2>1. /\ p \in Seq(Byte) /\ Len(p) = 1 /\ p[1] = 1
        /\ q \in Seq(Byte) /\ Len(q) = 3 /\ q[1] = 1 /\ q[2] = 1 /\ q[3] = 5
        /\ z \in Seq(Byte) /\ Len(z) = 1 /\ z[1] = 0
    BY <1>1
  <2>2. /\ payload[1] = 1 /\ payload[2] = 1 /\ payload[3] = 1 /\ payload[4] = 5
        /\ payload[5] = 0 /\ 1 + 1 = 2 /\ 1 + 2 = 3 /\ 1 + 3 = 4 /\ 4 + 1 = 5
    OBVIOUS
  <2>. HIDE DEF p, q, z
  <2>3. /\ h \in Seq(Byte) /\ Len(h) = Len(p) + Len(q)
        /\ \A i \in 1 .. Len(p) : h[i] = p[i]
        /\ \A i \in 1 .. Len(q) : h[Len(p) + i] = q[i]
    BY <2>1, JoinedBytes
  <2>. HIDE DEF h
  <2>4. /\ t \in Seq(Byte) /\ Len(t) = Len(h) + Len(z)
        /\ \A i \in 1 .. Len(h) : t[i] = h[i]
        /\ \A i \in 1 .. Len(z) : t[Len(h) + i] = z[i]
    BY <2>1, <2>3, JoinedBytes
  <2>. HIDE DEF t, payload
  <2>5. h[1] = 1 /\ h[2] = 1 /\ h[3] = 1 /\ h[4] = 5 /\ Len(h) = 4
    <3>1. h[1 + 1] = q[1] /\ h[1 + 2] = q[2] /\ h[1 + 3] = q[3] /\ h[1] = p[1]
      BY <2>1, <2>3
    <3>. QED
      BY <2>1, <2>2, <2>3, <3>1
  <2>6. Len(t) = 5 /\ t[1] = 1 /\ t[2] = 1 /\ t[3] = 1 /\ t[4] = 5 /\ t[5] = 0
    <3>1. t[4 + 1] = z[1]
      BY <2>1, <2>4, <2>5
    <3>2. t[1] = h[1] /\ t[2] = h[2] /\ t[3] = h[3] /\ t[4] = h[4]
      BY <2>4, <2>5
    <3>. QED
      BY <2>1, <2>2, <2>4, <2>5, <3>1, <3>2
  <2>7. \A i \in 1 .. 5 : t[i] = payload[i]
    BY <2>2, <2>6
  <2>8. t = payload
    BY <1>2, <2>4, <2>6, <2>7, SeqEqual
  <2>. QED
    BY <2>8 DEF t, h, p, q, z
<1>. HIDE DEF payload
<1>5. C!encodeControlRequest(1, <<1, 1, 5>>, id, 1, block) = C!encodeFrame(5, id, 1, payload, block)
  BY <1>4 DEF C!encodeControlRequest
<1>6. PanelReads(C!encodeFrame(5, id, 1, payload, block), block)
      = <<5, IF block THEN id ELSE 0, payload, TRUE>>
  BY <1>1, <1>2, <1>3, EncodedIsRead
<1>. QED
  BY <1>5, <1>6 DEF payload

\* The data of the parts of a table.
LEMMA ShortData ==
  ASSUME NEW data \in {<<>>, << 85 >>, <<170, 85>>}
  PROVE  data \in Seq(Byte)
<1>1. 85 \in Byte /\ 170 \in Byte
  BY DEF Byte
<1>2. CASE data = <<>>
  BY <1>2
<1>3. CASE data = <<85>>
  BY <1>1, <1>3
<1>4. CASE data = <<170, 85>>
  BY <1>1, <1>4
<1>. QED
  BY <1>2, <1>3, <1>4

-----------------------------------------------------------------------------
(* The line. *)

\* A device's reply is a frame that is decoded to what the device meant.
IsDeviceReply(l) ==
  /\ \E id \in Word, code \in Byte, body \in Seq(Byte) : IsFrame(l.bytes, id, code, body)
  /\ M!decodeResponse(l.fn, l.bytes) = l.means

\* The inductive invariant: what is on the line was put together by its sender, and no
\* more of it has arrived than was sent.
LineInv ==
  /\ line.kind = "request" => DeviceReads(line.bytes) = line.reads
  /\ line.kind = "modbus" => IsDeviceReply(line) /\ got \in Nat /\ got <= Len(line.bytes)
  /\ line.kind = "panelRequest" => PanelReads(line.bytes, line.block) = line.reads
  /\ line.kind = "panel" =>
       /\ line.name \in PanelDecoders /\ IsPanelFrame(line.bytes)
       /\ Heard(line.name, line.bytes, line.block) = line.means
       /\ got \in Nat /\ got <= Len(line.bytes)
  /\ line.kind = "garbled" =>
       /\ line.name = "count" /\ line.block \in BOOLEAN /\ IsGarbled(line.bytes, line.block)
       /\ got \in Nat /\ got <= Len(line.bytes)

\* A request that is read as it was meant keeps the invariant.
LEMMA RequestPut ==
  ASSUME NEW bytes, NEW id, NEW fn, NEW address, NEW what,
         Request(bytes, id, fn, address, what),
         DeviceReads(bytes) = <<id, fn, address, what, TRUE>>
  PROVE  LineInv'
<1>1. line' = [kind |-> "request", bytes |-> bytes, reads |-> <<id, fn, address, what, TRUE>>]
  BY DEF Request, Put
<1>2. line'.kind = "request" /\ line'.bytes = bytes /\ line'.reads = <<id, fn, address, what, TRUE>>
  BY <1>1
<1>3. DeviceReads(line'.bytes) = line'.reads
  BY <1>2
<1>. QED
  BY <1>2, <1>3 DEF LineInv

\* So does a reply that is decoded to what it means.
LEMMA ReplyPut ==
  ASSUME NEW id \in Word, NEW fn, NEW code \in Byte, NEW body \in Seq(Byte), 2 + Len(body) \in Word,
         NEW status, NEW value, DeviceReply(id, fn, code, body, status, value),
         \A b : IsFrame(b, id, code, body)
                  => M!decodeResponse(fn, b) = [status |-> status, value |-> value]
  PROVE  LineInv'
<1>. DEFINE b == DeviceFrame(id, code, body)
<1>1. IsFrame(b, id, code, body)
  BY DeviceFrameFacts
<1>2. /\ line' = [kind |-> "modbus", fn |-> fn, means |-> [status |-> status, value |-> value],
                  bytes |-> b]
      /\ got' = 0
  BY DEF DeviceReply, Put
<1>. HIDE DEF b
<1>3. /\ line'.kind = "modbus" /\ line'.fn = fn /\ line'.bytes = b
      /\ line'.means = [status |-> status, value |-> value]
  BY <1>2
<1>4. IsDeviceReply(line')
  BY <1>1, <1>3 DEF IsDeviceReply
<1>5. 0 <= Len(line'.bytes)
  <2>1. Len(b) = 8 + Len(body) /\ Len(body) \in Nat
    BY <1>1 DEF IsFrame
  <2>. QED
    BY <1>3, <2>1
<1>. QED
  BY <1>2, <1>3, <1>4, <1>5 DEF LineInv

\* A request that a panel reads as it was meant keeps it too.
LEMMA PanelRequestPut ==
  ASSUME NEW bytes, NEW block, NEW command, NEW session, NEW payload,
         PanelRequest(bytes, block, command, session, payload),
         PanelReads(bytes, block) = <<command, IF block THEN session ELSE 0, payload, TRUE>>
  PROVE  LineInv'
<1>. DEFINE reads == <<command, IF block THEN session ELSE 0, payload, TRUE>>
<1>1. line' = [kind |-> "panelRequest", bytes |-> bytes, block |-> block, reads |-> reads]
  BY DEF PanelRequest, Put
<1>2. PanelReads(bytes, block) = reads
  OBVIOUS
<1>. HIDE DEF reads
<1>3. /\ line'.kind = "panelRequest" /\ line'.bytes = bytes /\ line'.block = block
      /\ line'.reads = reads
  BY <1>1
<1>4. PanelReads(line'.bytes, line'.block) = line'.reads
  BY <1>2, <1>3
<1>. QED
  BY <1>3, <1>4 DEF LineInv

\* And a panel's reply, if a frame that carries its payload is decoded to what it means.
LEMMA PanelPut ==
  ASSUME NEW name \in PanelDecoders, NEW command \in Byte, NEW id \in Word, NEW payload,
         NEW n \in Byte, AtMost(payload, n), NEW block \in BOOLEAN, NEW status, NEW value,
         PanelReply(name, command, id, payload, block, status, value),
         \A b : Carries(b, command, id, payload, block)
                  => Heard(name, b, block) = [status |-> status, value |-> value]
  PROVE  LineInv'
<1>. DEFINE b == PanelFrame(command, id, payload, block)
<1>1. payload \in Seq(Byte) /\ Len(payload) <= n
  BY DEF AtMost
<1>2. 4 + Len(payload) \in Word
  BY <1>1 DEF Word, Byte
<1>3. Carries(b, command, id, payload, block)
  BY <1>1, <1>2, PanelCarries
<1>4. /\ line' = [kind |-> "panel", name |-> name, block |-> block,
                  means |-> [status |-> status, value |-> value], bytes |-> b]
      /\ got' = 0
  BY DEF PanelReply, Put
<1>. HIDE DEF b
<1>5. IsPanelFrame(b)
  BY <1>1, <1>3, CarriedFacts
<1>6. Heard(name, b, block) = [status |-> status, value |-> value]
  BY <1>3
<1>7. /\ line'.kind = "panel" /\ line'.name = name /\ line'.bytes = b /\ line'.block = block
      /\ line'.means = [status |-> status, value |-> value]
  BY <1>4
<1>8. Heard(line'.name, line'.bytes, line'.block) = line'.means
  BY <1>6, <1>7
<1>9. Len(b) >= 8 /\ Len(b) \in Nat
  BY <1>5 DEF IsPanelFrame
<1>. QED
  BY <1>4, <1>5, <1>7, <1>8, <1>9 DEF LineInv

\* And the reply to a count that is garbled on its way.
LEMMA GarbledPut ==
  ASSUME PanelGarbled
  PROVE  LineInv'
<1>1. PICK id \in Ids, block \in BOOLEAN, w \in Words :
        LET bytes == PanelFrame(200, id, Long(w), block) IN
        \E i \in DOMAIN bytes, change \in Changes :
          Put([kind |-> "garbled", name |-> "count", block |-> block,
               bytes |-> [bytes EXCEPT ![i] = (@ + change) % 256]], 0)
  BY DEF PanelGarbled
<1>. DEFINE b == PanelFrame(200, id, Long(w), block)
            inner == Session(id, 1, block) \o Long(w)
<1>2. /\ inner \in Seq(Byte) /\ Len(inner) = CountedIn(block) /\ IsC3Frame(b, 200, inner)
  <2>1. w \in Word /\ 200 \in Byte /\ id \in Word
    BY CodecAssumption DEF Byte, Word
  <2>2. Long(w) \in Seq(Byte) /\ Len(Long(w)) = 4
    <3>1. Low(w) \in Byte /\ High(w) \in Byte /\ 0 \in Byte
      BY <2>1, BigEndianFacts DEF Byte
    <3>. QED
      BY <3>1 DEF Long
  <2>3. 4 + Len(Long(w)) \in Word
    BY <2>2 DEF Word
  <2>4. /\ inner \in Seq(Byte) /\ Len(inner) = (IF block THEN 4 ELSE 0) + Len(Long(w))
        /\ IsC3Frame(b, 200, inner)
    <3>. DEFINE payload == Long(w)
    <3>1. payload \in Seq(Byte) /\ 4 + Len(payload) \in Word
      BY <2>2, <2>3
    <3>. HIDE DEF payload
    <3>2. /\ Session(id, 1, block) \o payload \in Seq(Byte)
          /\ Len(Session(id, 1, block) \o payload) = (IF block THEN 4 ELSE 0) + Len(payload)
          /\ IsC3Frame(PanelFrame(200, id, payload, block), 200, Session(id, 1, block) \o payload)
      BY <2>1, <3>1, PanelFrameFacts
    <3>. QED
      BY <3>2 DEF payload
  <2>. HIDE DEF b, inner
  <2>. QED
    BY <2>2, <2>4 DEF CountedIn
<1>11. PICK i \in DOMAIN b, change \in Changes :
         Put([kind |-> "garbled", name |-> "count", block |-> block,
              bytes |-> [b EXCEPT ![i] = (@ + change) % 256]], 0)
  BY <1>1
<1>3. /\ line' = [kind |-> "garbled", name |-> "count", block |-> block,
                 bytes |-> [b EXCEPT ![i] = (@ + change) % 256]]
      /\ got' = 0
  BY <1>11, Zenon DEF Put
<1>. HIDE DEF b, inner
<1>4. b \in Seq(Byte) /\ DOMAIN b = 1 .. Len(b) /\ Len(b) \in Nat
  BY <1>2 DEF IsC3Frame
<1>. DEFINE v == (b[i] + change) % 256
<1>5. v \in Byte /\ v # b[i]
  <2>1. PICK x \in Byte : x = b[i]
    BY <1>3, <1>4
  <2>2. change \in Int /\ 0 < change /\ change < 256
    BY <1>11, CodecAssumption DEF Byte
  <2>3. (x + change) % 256 \in Byte /\ (x + change) % 256 # x
    BY <2>2 DEF Byte
  <2>. QED
    BY <2>1, <2>3
<1>6. /\ line'.kind = "garbled" /\ line'.name = "count" /\ line'.block = block
      /\ line'.bytes = [b EXCEPT ![i] = v]
  BY <1>3
<1>. HIDE DEF v
<1>7. i \in 1 .. Len(b) /\ v \in Byte /\ v # b[i] /\ line'.bytes = [b EXCEPT ![i] = v]
  BY <1>3, <1>4, <1>5, <1>6
<1>8. IsGarbled(line'.bytes, block)
  <2>1. \E j \in 1 .. Len(b), u \in Byte : u # b[j] /\ line'.bytes = [b EXCEPT ![j] = u]
    BY <1>7
  <2>. QED
    <3>1. SUFFICES \E c, carried \in Seq(Byte) :
                     /\ IsC3Frame(c, 200, carried) /\ Len(carried) = CountedIn(block)
                     /\ \E j \in 1 .. Len(c), u \in Byte :
                          u # c[j] /\ line'.bytes = [c EXCEPT ![j] = u]
      BY DEF IsGarbled
    <3>. b \in Seq(Byte) /\ inner \in Seq(Byte)
      BY <1>2, <1>4
    <3>. WITNESS b \in Seq(Byte), inner \in Seq(Byte)
    <3>. QED
      BY <1>2, <2>1
<1>9. Len(line'.bytes) = Len(b)
  BY <1>4, <1>7, ExceptSeq
<1>10. got' \in Nat /\ got' <= Len(line'.bytes)
  BY <1>3, <1>4, <1>9
<1>. QED
  BY <1>6, <1>8, <1>10 DEF LineInv

\* Whatever else is put on the line.
LEMMA OtherPut ==
  ASSUME line'.kind \notin {"request", "modbus", "panelRequest", "panel", "garbled"}
  PROVE  LineInv'
  BY DEF LineInv

\* The requests of the application.
LEMMA RequestsKeepLine ==
  ASSUME RequestWord \/ RequestBlock
  PROVE  LineInv'
<1>1. Ids \subseteq Word /\ Words \subseteq Word
  BY CodecAssumption
<1>2. CASE RequestWord
  <2>1. PICK id \in Ids, fn \in {1, 2, 3, 4, 6}, a \in Words, w \in Words :
          Request(M!WordRequest(id, 1, fn, a, w), id, fn, a, w)
    BY <1>2, Zenon DEF RequestWord
  <2>2. id \in Word /\ a \in Word /\ w \in Word /\ 1 \in Byte /\ fn \in Byte /\ fn # 15 /\ fn # 16
    BY <1>1 DEF Byte
  <2>3. DeviceReads(M!WordRequest(id, 1, fn, a, w)) = <<id, fn, a, w, TRUE>>
    BY <2>2, WordIsRead, ZenonT(60)
  <2>. QED
    BY <2>1, <2>3, RequestPut
<1>3. CASE RequestBlock
  <2>1. PICK id \in Ids, a \in Words :
          \/ \E on \in BOOLEAN :
               Request(M!encodeWriteSingleCoilRequest(id, 1, a, on), id, 5, a,
                       IF on THEN 65280 ELSE 0)
          \/ \E r \in RegisterLists :
               Request(M!encodeWriteMultipleRegistersRequest(id, 1, a, r), id, 16, a, r)
          \/ \E c \in CoilLists :
               Request(M!encodeWriteMultipleCoilsRequest(id, 1, a, c), id, 15, a, c)
    BY <1>3 DEF RequestBlock
  <2>2. id \in Word /\ a \in Word
    BY <1>1
  <2>3. ASSUME NEW on \in BOOLEAN,
               Request(M!encodeWriteSingleCoilRequest(id, 1, a, on), id, 5, a,
                       IF on THEN 65280 ELSE 0)
        PROVE  LineInv'
    <3>. DEFINE w == IF on THEN 65280 ELSE 0
    <3>1. w \in Word /\ 1 \in Byte /\ 5 \in Byte
      BY DEF Word, Byte
    <3>2. M!encodeWriteSingleCoilRequest(id, 1, a, on) = M!WordRequest(id, 1, 5, a, w)
      BY DEF M!encodeWriteSingleCoilRequest
    <3>3. Request(M!WordRequest(id, 1, 5, a, w), id, 5, a, w)
      BY <2>3, <3>2
    <3>. HIDE DEF w
    <3>4. DeviceReads(M!WordRequest(id, 1, 5, a, w)) = <<id, 5, a, w, TRUE>>
      <4>1. 5 # 15 /\ 5 # 16
        OBVIOUS
      <4>. QED
        BY <2>2, <3>1, <4>1, WordIsRead, ZenonT(60)
    <3>. QED
      BY <3>3, <3>4, RequestPut
  <2>4. ASSUME NEW r \in RegisterLists,
               Request(M!encodeWriteMultipleRegistersRequest(id, 1, a, r), id, 16, a, r)
        PROVE  LineInv'
    <3>1. r \in Seq(Word) /\ 2 * Len(r) \in Byte
      BY RegisterListFacts
    <3>2. DeviceReads(M!encodeWriteMultipleRegistersRequest(id, 1, a, r)) = <<id, 16, a, r, TRUE>>
      BY <2>2, <3>1, RegistersAreRead
    <3>. QED
      BY <2>4, <3>2, RequestPut
  <2>5. ASSUME NEW c \in CoilLists,
               Request(M!encodeWriteMultipleCoilsRequest(id, 1, a, c), id, 15, a, c)
        PROVE  LineInv'
    <3>1. c \in Seq(BOOLEAN) /\ (Len(c) + 7) \div 8 \in Byte
      BY CoilListFacts
    <3>2. DeviceReads(M!encodeWriteMultipleCoilsRequest(id, 1, a, c)) = <<id, 15, a, c, TRUE>>
      BY <2>2, <3>1, CoilsAreRead
    <3>. QED
      BY <2>5, <3>2, RequestPut
  <2>. QED
    BY <2>1, <2>3, <2>4, <2>5
<1>. QED
  BY <1>2, <1>3

\* The answers of a device.
LEMMA DeviceKeepsLine ==
  ASSUME AnswerRegisters \/ AnswerBits \/ AnswerWrite \/ AnswerException
  PROVE  LineInv'
<1>1. Ids \subseteq Word /\ Words \subseteq Word
  BY CodecAssumption
<1>2. ASSUME NEW id \in Ids, NEW fn \in M!RegisterReads, NEW r \in RegisterLists,
             DeviceReply(id, fn, fn, Counted(RegisterBytes(r)), "Ok", r)
      PROVE  LineInv'
  <2>. DEFINE body == Counted(RegisterBytes(r))
  <2>1. r \in Seq(Word) /\ 2 * Len(r) \in Byte
    BY RegisterListFacts
  <2>2. RegisterBytes(r) \in Seq(Byte) /\ Len(RegisterBytes(r)) \in Byte
    BY <2>1, SentRegisters DEF AreWordBytes
  <2>3. body \in Seq(Byte) /\ 2 + Len(body) \in Word
    BY <2>2, CountedInFrame
  <2>4. \A b : IsFrame(b, id, fn, body) => M!decodeResponse(fn, b) = [status |-> "Ok", value |-> r]
    BY <2>1, RegistersDecoded
  <2>5. id \in Word /\ fn \in Byte
    BY <1>1 DEF M!RegisterReads, Byte
  <2>. HIDE DEF body
  <2>6. DeviceReply(id, fn, fn, body, "Ok", r)
    BY <1>2 DEF body
  <2>. QED
    BY <2>3, <2>4, <2>5, <2>6, ReplyPut
<1>3. ASSUME NEW id \in Ids, NEW fn \in M!BitReads, NEW c \in CoilLists,
             DeviceReply(id, fn, fn, Counted(Bits(c)), "Ok",
                         [i \in 1 .. 8 * Len(Bits(c)) |-> i <= Len(c) /\ c[i]])
      PROVE  LineInv'
  <2>. DEFINE body == Counted(Bits(c))
              value == [i \in 1 .. 8 * Len(Bits(c)) |-> i <= Len(c) /\ c[i]]
  <2>1. c \in Seq(BOOLEAN) /\ (Len(c) + 7) \div 8 \in Byte
    BY CoilListFacts
  <2>2. Bits(c) \in Seq(Byte) /\ Len(Bits(c)) \in Byte
    BY <2>1, BitsHoldCoils DEF HoldCoils
  <2>3. body \in Seq(Byte) /\ 2 + Len(body) \in Word
    BY <2>2, CountedInFrame
  <2>4. \A b : IsFrame(b, id, fn, body)
                 => M!decodeResponse(fn, b) = [status |-> "Ok", value |-> value]
    BY <2>1, BitsDecoded
  <2>5. id \in Word /\ fn \in Byte
    BY <1>1 DEF M!BitReads, Byte
  <2>6. DeviceReply(id, fn, fn, body, "Ok", value)
    BY <1>3
  <2>. HIDE DEF body, value
  <2>. QED
    BY <2>3, <2>4, <2>5, <2>6, ReplyPut
<1>4. ASSUME NEW id \in Ids, NEW fn \in M!SingleWrites \cup M!BlockWrites, NEW a \in Words,
             NEW w \in Words,
             DeviceReply(id, fn, fn, <<High(a), Low(a), High(w), Low(w)>>, "Ok",
                         <<a, IF fn = 5 THEN w = 65280 ELSE w>>)
      PROVE  LineInv'
  <2>. DEFINE body == <<High(a), Low(a), High(w), Low(w)>>
              value == <<a, IF fn = 5 THEN w = 65280 ELSE w>>
  <2>1. a \in Word /\ w \in Word /\ id \in Word
    BY <1>1
  <2>2. body \in Seq(Byte) /\ Len(body) = 4
    <3>1. High(a) \in Byte /\ Low(a) \in Byte /\ High(w) \in Byte /\ Low(w) \in Byte
      BY <2>1, BigEndianFacts
    <3>. QED
      BY <3>1
  <2>3. \A b : IsFrame(b, id, fn, body)
                 => M!decodeResponse(fn, b) = [status |-> "Ok", value |-> value]
    BY <2>1, EchoDecoded
  <2>4. fn \in Byte
    BY DEF M!SingleWrites, M!BlockWrites, Byte
  <2>5. DeviceReply(id, fn, fn, body, "Ok", value)
    BY <1>4
  <2>. HIDE DEF body, value
  <2>6. 2 + Len(body) \in Word
    BY <2>2 DEF Word
  <2>. QED
    BY <2>1, <2>2, <2>3, <2>4, <2>5, <2>6, ReplyPut
<1>5. ASSUME NEW id \in Ids, NEW fn \in 1 .. 6, NEW code \in 1 .. 4,
             DeviceReply(id, fn, 128 + fn, <<code>>, "Exception", <<code>>)
      PROVE  LineInv'
  <2>. DEFINE body == <<code>>
  <2>1. id \in Word /\ 128 + fn \in Byte /\ code \in Byte
    BY <1>1 DEF Byte
  <2>2. body \in Seq(Byte) /\ Len(body) = 1
    BY <2>1
  <2>3. \A b : IsFrame(b, id, 128 + fn, body)
                 => M!decodeResponse(fn, b) = [status |-> "Exception", value |-> <<code>>]
    BY ExceptionDecoded
  <2>4. DeviceReply(id, fn, 128 + fn, body, "Exception", <<code>>)
    BY <1>5
  <2>. HIDE DEF body
  <2>5. 2 + Len(body) \in Word
    BY <2>2 DEF Word
  <2>. QED
    BY <2>1, <2>2, <2>3, <2>4, <2>5, ReplyPut
<1>6. CASE AnswerRegisters
  BY <1>2, <1>6 DEF AnswerRegisters
<1>7. CASE AnswerBits
  BY <1>3, <1>7, Zenon DEF AnswerBits
<1>8. CASE AnswerWrite
  BY <1>4, <1>8 DEF AnswerWrite
<1>9. CASE AnswerException
  BY <1>5, <1>9 DEF AnswerException
<1>. QED
  BY <1>6, <1>7, <1>8, <1>9

\* What the application asks of a panel.
LEMMA PanelRequestsKeepLine ==
  ASSUME RequestOfPanel
  PROVE  LineInv'
<1>1. \A offset \in {0, 255, 256, 65536, 131071} : IsOffset(offset)
  BY DEF IsOffset, Byte
<1>2. PICK id \in Ids, block \in BOOLEAN :
        \/ \E fields \in {<<>>, <<1>>, <<1, 2>>} :
             PanelRequest(C!encodeGetDataRequest(3, fields, id, 1, block), block, 8, id,
                          <<3, Len(fields)>> \o fields \o <<0, 0>>)
        \/ \E offset :
             /\ IsOffset(offset)
             /\ PanelRequest(C!encodeTransmitDataRequest(offset, id, 1, block), block, 14, id,
                             OffsetBytes(offset))
        \/ PanelRequest(C!encodeControlRequest(1, <<1, 1, 5>>, id, 1, block), block, 5, id,
                        <<1, 1, 1, 5, 0>>)
  BY <1>1 DEF RequestOfPanel, OffsetBytes
<1>3. id \in Word
  BY CodecAssumption
<1>4. ASSUME NEW fields \in {<<>>, << 1 >>, <<1, 2>>},
             PanelRequest(C!encodeGetDataRequest(3, fields, id, 1, block), block, 8, id,
                          <<3, Len(fields)>> \o fields \o <<0, 0>>)
      PROVE  LineInv'
  <2>. DEFINE payload == <<3, Len(fields)>> \o fields \o <<0, 0>>
              bytes == C!encodeGetDataRequest(3, fields, id, 1, block)
  <2>1. 0 \in Byte /\ 1 \in Byte /\ 2 \in Byte
    BY DEF Byte
  <2>2. fields \in Seq(Byte) /\ Len(fields) \in Byte
    <3>1. CASE fields = <<>>
      BY <2>1, <3>1
    <3>2. CASE fields = <<1>>
      BY <2>1, <3>2
    <3>3. CASE fields = <<1, 2>>
      BY <2>1, <3>3
    <3>. QED
      BY <3>1, <3>2, <3>3
  <2>3. PanelReads(bytes, block) = <<8, IF block THEN id ELSE 0, payload, TRUE>>
    BY <1>3, <2>2, FieldsAreRead
  <2>4. PanelRequest(bytes, block, 8, id, payload)
    BY <1>4
  <2>. HIDE DEF bytes, payload
  <2>. QED
    BY <2>3, <2>4, PanelRequestPut
<1>5. ASSUME NEW offset, IsOffset(offset),
             PanelRequest(C!encodeTransmitDataRequest(offset, id, 1, block), block, 14, id,
                          OffsetBytes(offset))
      PROVE  LineInv'
  <2>. DEFINE payload == OffsetBytes(offset)
              bytes == C!encodeTransmitDataRequest(offset, id, 1, block)
  <2>1. PanelReads(bytes, block) = <<14, IF block THEN id ELSE 0, payload, TRUE>>
    BY <1>3, <1>5, OffsetIsRead
  <2>2. PanelRequest(bytes, block, 14, id, payload)
    BY <1>5
  <2>. HIDE DEF bytes, payload
  <2>. QED
    BY <2>1, <2>2, PanelRequestPut
<1>6. ASSUME PanelRequest(C!encodeControlRequest(1, <<1, 1, 5>>, id, 1, block), block, 5, id,
                          <<1, 1, 1, 5, 0>>)
      PROVE  LineInv'
  <2>. DEFINE payload == <<1, 1, 1, 5, 0>>
              bytes == C!encodeControlRequest(1, <<1, 1, 5>>, id, 1, block)
  <2>1. PanelReads(bytes, block) = <<5, IF block THEN id ELSE 0, payload, TRUE>>
    BY <1>3, ControlIsRead
  <2>2. PanelRequest(bytes, block, 5, id, payload)
    BY <1>6
  <2>. HIDE DEF bytes, payload
  <2>. QED
    BY <2>1, <2>2, PanelRequestPut
<1>. QED
  BY <1>2, <1>4, <1>5, <1>6, Zenon

\* The answers of a panel.
LEMMA PanelKeepsLine ==
  ASSUME PanelAnswers
  PROVE  LineInv'
<1>1. Ids \subseteq Word /\ Words \subseteq Word
  BY CodecAssumption
<1>2. /\ C!kReplyOk \in Byte /\ C!kReplyError \in Byte /\ C!kCommandPrepareData \in Byte
      /\ 255 \in Byte /\ 0 \in Byte
      /\ 1 \in Byte /\ 4 \in Byte /\ 6 \in Byte /\ 16 \in Byte /\ 17 \in Byte
  BY DEF Byte, C!kReplyOk, C!kReplyError, C!kCommandPrepareData
<1>3. /\ "session" \in PanelDecoders /\ "generic" \in PanelDecoders /\ "count" \in PanelDecoders
      /\ "chunk" \in PanelDecoders /\ "rows" \in PanelDecoders /\ "log" \in PanelDecoders
      /\ {"session", "generic", "count", "rows", "log", "chunk"} = PanelDecoders
  BY DEF PanelDecoders
<1>4. AtMost(<<>>, 0) /\ AtMost(<<255>>, 1)
  BY <1>2 DEF AtMost
<1>5. SUFFICES ASSUME NEW id \in Ids, NEW block \in BOOLEAN
      PROVE  PanelConfirms(id, block) \/ PanelRejects(id, block) \/ PanelCounts(id, block)
               \/ PanelSendsChunk(id, block) \/ PanelSendsRows(id, block)
               \/ PanelAnnounces(id, block) \/ PanelSendsLog(id, block) => LineInv'
  BY DEF PanelAnswers
<1>6. id \in Word /\ TRUE \in BOOLEAN
  BY <1>1
<1>7. ASSUME PanelConfirms(id, block)
      PROVE  LineInv'
  <2>. DEFINE none == <<>>
              value == <<id>>
  <2>1. \/ PanelReply("session", C!kReplyOk, id, none, TRUE, "Ok", value)
        \/ PanelReply("generic", C!kReplyOk, id, none, block, "Ok", none)
    BY <1>7 DEF PanelConfirms, C!kReplyOk
  <2>2. AtMost(none, 0)
    BY <1>4
  <2>3. /\ \A b : Carries(b, C!kReplyOk, id, none, TRUE)
                    => Heard("session", b, TRUE) = [status |-> "Ok", value |-> value]
        /\ \A b : Carries(b, C!kReplyOk, id, none, block)
                    => Heard("generic", b, block) = [status |-> "Ok", value |-> none]
    BY <1>6, HeardConfirmed
  <2>. HIDE DEF none, value
  <2>4. CASE PanelReply("session", C!kReplyOk, id, none, TRUE, "Ok", value)
    BY <1>2, <1>3, <1>6, <2>2, <2>3, <2>4, PanelPut
  <2>5. CASE PanelReply("generic", C!kReplyOk, id, none, block, "Ok", none)
    BY <1>2, <1>3, <1>6, <2>2, <2>3, <2>5, PanelPut
  <2>. QED
    BY <2>1, <2>4, <2>5
<1>8. ASSUME NEW name \in {"session", "generic", "count", "rows", "log", "chunk"},
             PanelReply(name, 201, id, << 255 >>, block, "Rejected", <<>>)
      PROVE  LineInv'
  <2>. DEFINE payload == <<255>>
              value == <<>>
  <2>1. name \in PanelDecoders /\ AtMost(payload, 1) /\ payload \in Seq(Byte)
    BY <1>2, <1>3, <1>4
  <2>2. PanelReply(name, C!kReplyError, id, payload, block, "Rejected", value)
    BY <1>8 DEF C!kReplyError
  <2>3. \A b : Carries(b, C!kReplyError, id, payload, block)
                 => Heard(name, b, block) = [status |-> "Rejected", value |-> value]
    <3>. HIDE DEF payload
    <3>. QED
      BY <2>1, HeardRejected
  <2>. HIDE DEF payload, value
  <2>. QED
    BY <1>2, <1>6, <2>1, <2>2, <2>3, PanelPut
<1>9. ASSUME NEW w \in Words, PanelReply("count", 200, id, Long(w), block, "Ok", <<w>>)
      PROVE  LineInv'
  <2>. DEFINE payload == Long(w)
              value == <<w>>
  <2>1. AtMost(payload, 4)
    BY <1>1, LongFacts
  <2>2. PanelReply("count", C!kReplyOk, id, payload, block, "Ok", value)
    BY <1>9 DEF C!kReplyOk
  <2>3. \A b : Carries(b, C!kReplyOk, id, payload, block)
                 => Heard("count", b, block) = [status |-> "Ok", value |-> value]
    BY <1>1, HeardCount
  <2>. HIDE DEF payload, value
  <2>. QED
    BY <1>2, <1>3, <1>6, <2>1, <2>2, <2>3, PanelPut
<1>10. ASSUME NEW w \in Words, NEW data \in {<<>>, << 85 >>, <<170, 85>>},
              PanelReply("chunk", 200, id, Long(w) \o data, block, "Ok", <<w, data>>)
      PROVE  LineInv'
  <2>. DEFINE payload == Long(w) \o data
              value == <<w, data>>
  <2>1. AtMost(payload, 6)
    BY <1>1, DataFacts
  <2>2. PanelReply("chunk", C!kReplyOk, id, payload, block, "Ok", value)
    BY <1>10 DEF C!kReplyOk
  <2>3. \A b : Carries(b, C!kReplyOk, id, payload, block)
                 => Heard("chunk", b, block) = [status |-> "Ok", value |-> value]
    <3>1. w \in Word /\ data \in Seq(Byte)
      BY <1>1, ShortData
    <3>. QED
      BY <3>1, HeardChunk
  <2>. HIDE DEF payload, value
  <2>. QED
    BY <1>2, <1>3, <1>6, <2>1, <2>2, <2>3, PanelPut
<1>11. ASSUME NEW r \in Rows \cup {NoRow}, NEW s \in Rows \cup {NoRow},
              PanelReply("rows", 200, id, <<3, 2, 1, 2>> \o RowBytes(r) \o RowBytes(s), block,
                         "Ok", RowValues(r) \o RowValues(s))
      PROVE  LineInv'
  <2>. DEFINE payload == <<3, 2, 1, 2>> \o RowBytes(r) \o RowBytes(s)
              value == RowValues(r) \o RowValues(s)
  <2>1. AtMost(payload, 16)
    BY DataFacts
  <2>2. PanelReply("rows", C!kReplyOk, id, payload, block, "Ok", value)
    BY <1>11 DEF C!kReplyOk
  <2>3. \A b : Carries(b, C!kReplyOk, id, payload, block)
                 => Heard("rows", b, block) = [status |-> "Ok", value |-> value]
    BY HeardRows
  <2>. HIDE DEF payload, value
  <2>. QED
    BY <1>2, <1>3, <1>6, <2>1, <2>2, <2>3, PanelPut
<1>12. ASSUME NEW w \in Words, NEW packed \in {0, 1},
              PanelReply("rows", 13, id, <<packed>> \o Long(w) \o Long(2) \o Long(3) \o Long(4),
                         block, "BigDataPending", <<packed = 1, w, 2, 3, 4>>)
      PROVE  LineInv'
  <2>. DEFINE payload == <<packed>> \o Long(w) \o Long(2) \o Long(3) \o Long(4)
              value == <<packed = 1, w, 2, 3, 4>>
  <2>1. AtMost(payload, 17)
    BY <1>1, AnnouncementFacts
  <2>2. PanelReply("rows", C!kCommandPrepareData, id, payload, block, "BigDataPending", value)
    BY <1>12 DEF C!kCommandPrepareData
  <2>3. \A b : Carries(b, C!kCommandPrepareData, id, payload, block)
                 => Heard("rows", b, block) = [status |-> "BigDataPending", value |-> value]
    BY <1>1, HeardAnnounced
  <2>. HIDE DEF payload, value
  <2>. QED
    BY <1>2, <1>3, <1>6, <2>1, <2>2, <2>3, PanelPut
<1>13. ASSUME NEW w \in Words, NEW event \in {0, 255}, NEW time \in Times,
              PanelReply("log", 200, id, LogBytes(w, event, time), block, "Ok",
                         <<LogEntry(w, event, time)>>)
      PROVE  LineInv'
  <2>. DEFINE payload == LogBytes(w, event, time)
              value == <<LogEntry(w, event, time)>>
  <2>1. AtMost(payload, 16)
    BY <1>1, <1>2, LogFacts
  <2>2. PanelReply("log", C!kReplyOk, id, payload, block, "Ok", value)
    BY <1>13 DEF C!kReplyOk
  <2>3. \A b : Carries(b, C!kReplyOk, id, payload, block)
                 => Heard("log", b, block) = [status |-> "Ok", value |-> value]
    BY <1>1, <1>2, HeardLog
  <2>. HIDE DEF payload, value
  <2>. QED
    BY <1>2, <1>3, <1>6, <2>1, <2>2, <2>3, PanelPut
<1>14. CASE PanelRejects(id, block)
  BY <1>8, <1>14 DEF PanelRejects
<1>15. CASE PanelCounts(id, block)
  BY <1>9, <1>15 DEF PanelCounts
<1>16. CASE PanelSendsChunk(id, block)
  BY <1>10, <1>16, ZenonT(60) DEF PanelSendsChunk
<1>17. CASE PanelSendsRows(id, block)
  BY <1>11, <1>17, Zenon DEF PanelSendsRows
<1>18. CASE PanelAnnounces(id, block)
  BY <1>12, <1>18, Zenon DEF PanelAnnounces
<1>19. CASE PanelSendsLog(id, block)
  BY <1>13, <1>19, ZenonT(60) DEF PanelSendsLog
<1>. QED
  BY <1>7, <1>14, <1>15, <1>16, <1>17, <1>18, <1>19

\* Every step keeps the invariant.
LEMMA LineStep ==
  ASSUME LineInv, [Next]_vars
  PROVE  LineInv'
<1>1. CASE RequestWord \/ RequestBlock
  BY <1>1, RequestsKeepLine
<1>2. CASE AnswerRegisters \/ AnswerBits \/ AnswerWrite \/ AnswerException
  BY <1>2, DeviceKeepsLine
<1>3. CASE PanelAnswers
  BY <1>3, PanelKeepsLine
<1>4. CASE RequestOfPanel
  BY <1>4, PanelRequestsKeepLine
<1>5. CASE PanelGarbled
  BY <1>5, GarbledPut
<1>6. CASE Done
  <2>1. line'.kind = "idle"
    BY <1>6 DEF Done, Idle
  <2>. QED
    BY <2>1, OtherPut
<1>7. CASE Arrive
  <2>1. line' = line /\ got < Len(line.bytes) /\ got' = got + 1
    BY <1>7 DEF Arrive
  <2>2. ASSUME line.kind = "modbus"
        PROVE  got' \in Nat /\ got' <= Len(line.bytes)
    <3>1. PICK id \in Word, code \in Byte, body \in Seq(Byte) : IsFrame(line.bytes, id, code, body)
      BY <2>2 DEF LineInv, IsDeviceReply
    <3>2. Len(line.bytes) \in Nat /\ got \in Nat
      BY <2>2, <3>1 DEF LineInv, IsFrame
    <3>. QED
      BY <2>1, <3>2
  <2>3. ASSUME line.kind = "panel"
        PROVE  got' \in Nat /\ got' <= Len(line.bytes)
    <3>1. Len(line.bytes) \in Nat /\ got \in Nat
      BY <2>3 DEF LineInv, IsPanelFrame
    <3>. QED
      BY <2>1, <3>1
  <2>4. ASSUME line.kind = "garbled"
        PROVE  got' \in Nat /\ got' <= Len(line.bytes)
    <3>1. IsGarbled(line.bytes, line.block) /\ got \in Nat
      BY <2>4 DEF LineInv
    <3>2. Len(line.bytes) \in Nat
      BY <3>1, ExceptSeq DEF IsGarbled
    <3>. QED
      BY <2>1, <3>1, <3>2
  <2>. QED
    BY <2>1, <2>2, <2>3, <2>4 DEF LineInv
<1>8. CASE UNCHANGED vars
  BY <1>8 DEF vars, LineInv
<1>. QED
  BY <1>1, <1>2, <1>3, <1>4, <1>5, <1>6, <1>7, <1>8 DEF Next

\* What is on the line was put together by its sender, whatever the ids, the words and
\* the longest blocks are.
LEMMA LineInvariance == Spec => []LineInv
<1>1. Init => LineInv
  BY DEF Init, Idle, LineInv
<1>2. LineInv /\ [Next]_vars => LineInv'
  BY LineStep
<1>. QED
  BY <1>1, <1>2, PTL DEF Spec

\* A decoder waits for the last byte of a reply, wherever TCP cuts it: the length checks
\* of all Modbus and C3 decoders come before everything else they look at.
THEOREM PartsAreAwaited == Spec => []WaitsForWholeFrame
<1>1. LineInv => WaitsForWholeFrame
  <2>. SUFFICES ASSUME LineInv, line.kind \in {"modbus", "panel"}, got < Len(line.bytes)
                PROVE  Decoded.status = "Incomplete"
    BY DEF WaitsForWholeFrame
  <2>1. CASE line.kind = "modbus"
    <3>1. got \in Nat
      BY <2>1 DEF LineInv
    <3>2. PICK id \in Word, code \in Byte, body \in Seq(Byte) : IsFrame(line.bytes, id, code, body)
      BY <2>1 DEF LineInv, IsDeviceReply
    <3>3. M!decodeResponse(line.fn, SubSeq(line.bytes, 1, got)).status = "Incomplete"
      BY <3>1, <3>2, PartOfFrame
    <3>4. Decoded = M!decodeResponse(line.fn, SubSeq(line.bytes, 1, got))
      BY <2>1 DEF Decoded
    <3>. QED
      BY <3>3, <3>4
  <2>2. CASE line.kind = "panel"
    BY <2>2, PanelWaits DEF LineInv
  <2>. QED
    BY <2>1, <2>2
<1>. QED
  BY <1>1, LineInvariance, PTL

\* The Modbus codec and a device understand each other: a request is read as it was meant
\* and a whole reply is decoded to what the device meant, for all 16-bit words and ids
\* and for blocks up to the longest whose bytes one byte can count.
THEOREM ModbusUnderstood == Spec => []ModbusIsUnderstood
<1>1. LineInv => ModbusIsUnderstood
  <2>1. ASSUME LineInv, line.kind = "modbus", got = Len(line.bytes)
        PROVE  Decoded = line.means
    <3>1. PICK id \in Word, code \in Byte, body \in Seq(Byte) : IsFrame(line.bytes, id, code, body)
      BY <2>1 DEF LineInv, IsDeviceReply
    <3>2. line.bytes \in Seq(Byte)
      BY <3>1 DEF IsFrame
    <3>3. SubSeq(line.bytes, 1, Len(line.bytes)) = line.bytes
      BY <3>2, SubSeqFull
    <3>4. Decoded = M!decodeResponse(line.fn, line.bytes)
      BY <2>1, <3>3 DEF Decoded
    <3>. QED
      BY <2>1, <3>4 DEF LineInv, IsDeviceReply
  <2>. QED
    BY <2>1 DEF LineInv, ModbusIsUnderstood
<1>. QED
  BY <1>1, LineInvariance, PTL

\* So do the C3 codec and a panel: the panel reads a request as it was meant, with the
\* checksum, and its whole reply is decoded to what it meant, for all sessions and words,
\* with and without a session block, the rows of a table and the entries of its log included.
THEOREM PanelUnderstood == Spec => []PanelIsUnderstood
<1>1. LineInv => PanelIsUnderstood
  <2>1. ASSUME LineInv, line.kind = "panel", got = Len(line.bytes)
        PROVE  Decoded = line.means
    <3>1. IsPanelFrame(line.bytes) /\ Heard(line.name, line.bytes, line.block) = line.means
      BY <2>1 DEF LineInv
    <3>2. SubSeq(line.bytes, 1, Len(line.bytes)) = line.bytes
      BY <3>1, SubSeqFull DEF IsPanelFrame
    <3>3. Decoded = Heard(line.name, line.bytes, line.block)
      BY <2>1, <3>2 DEF Decoded
    <3>. QED
      BY <3>1, <3>3
  <2>. QED
    BY <2>1 DEF LineInv, PanelIsUnderstood
<1>. QED
  BY <1>1, LineInvariance, PTL

\* The reply to a count, of any session and with any word, with any one of its bytes
\* changed to any other (Changes may be all of 1 .. 255) is never taken for an answer, with
\* or without a session block and however much of it has arrived.
THEOREM GarbledRefused == Spec => []GarbledIsRefused
<1>1. LineInv => GarbledIsRefused
  <2>. SUFFICES ASSUME LineInv, line.kind = "garbled"
                PROVE  Decoded.status # "Ok"
    BY DEF GarbledIsRefused
  <2>1. /\ line.name = "count" /\ line.block \in BOOLEAN /\ IsGarbled(line.bytes, line.block)
        /\ got \in Nat /\ got <= Len(line.bytes)
    BY DEF LineInv
  <2>2. Decoded = C!decodeGetDataCountResponse(SubSeq(line.bytes, 1, got), line.block)
    BY <2>1 DEF Decoded, Heard
  <2>. QED
    BY <2>1, <2>2, GarbledFacts
<1>. QED
  BY <1>1, LineInvariance, PTL

=============================================================================
