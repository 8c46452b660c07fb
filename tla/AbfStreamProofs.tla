-------------------------- MODULE AbfStreamProofs --------------------------
(***************************************************************************)
(* Proofs about AbfStream, for every width of a byte, every size of the    *)
(* receive buffer, every set of payloads and every capacity of the link.   *)
(*                                                                         *)
(* Intact and LossBounded are about the bytes in flight, and the decoder's *)
(* state says nothing of what they are. FrameInv says it with four ghosts: *)
(* T, all the bytes ever put on the link; off, where in T the bytes of     *)
(* each frame start; c, how many bytes are processed; and place, where     *)
(* each frame is among the delivered ones.                                 *)
(***************************************************************************)
EXTENDS AbfStream, WellFoundedInduction, FiniteSetTheorems, TLAPS

Frame == [payload : Payloads, head : BOOLEAN, body : {"pending", "in", "refused"}]

AbfInv == AbfTypeOK /\ sent \in Seq(Frame) /\ delivered \in Seq(Seq(Byte))

USE DEF SYNC_BYTE, HEADER_SIZE

\* Distance is the distance to the first zero after i, or to the end.
LEMMA DistanceCorrect ==
    ASSUME NEW p \in Seq(Byte), NEW i \in 0 .. Len(p)
    PROVE  /\ Distance(p, i) \in 1 .. Len(p) + 1 - i
           /\ i + Distance(p, i) = Len(p) + 1 \/ p[i + Distance(p, i)] = 0
           /\ \A e \in 1 .. Distance(p, i) - 1 : p[i + e] # 0
  <1> DEFINE D == {d \in 1 .. Len(p) + 1 - i : i + d = Len(p) + 1 \/ p[i + d] = 0}
  <1>1. D \in SUBSET Nat
    OBVIOUS
  <1>2. Len(p) + 1 - i \in D
    OBVIOUS
  <1>3. PICK m \in D : \A d \in D : m <= d
    <2>1. PICK m \in D : \A d \in D : ~ (<<d, m>> \in OpToRel(<, Nat))
      BY <1>1, <1>2, NatLessThanWellFounded, WFMin
    <2>2. \A d \in D : ~ (d < m)
      BY <1>1, <2>1 DEF OpToRel
    <2>3. \A d \in D : m <= d
      <3>1. m \in Nat /\ \A d \in D : d \in Nat
        BY <1>1
      <3> HIDE DEF D
      <3>2. QED
        BY <2>2, <3>1
    <2>4. QED
      BY <2>3
  <1>4. \A e \in 1 .. m - 1 : p[i + e] # 0
    <2>1. SUFFICES ASSUME NEW e \in 1 .. m - 1, p[i + e] = 0 PROVE FALSE
      OBVIOUS
    <2>2. m \in 1 .. Len(p) + 1 - i /\ Len(p) \in Nat
      OBVIOUS
    <2>3. e \in 1 .. Len(p) + 1 - i /\ ~ (m <= e)
      BY <2>2
    <2>4. e \in D
      BY <2>1, <2>3
    <2>5. QED
      BY <1>3, <2>3, <2>4
  <1>5. \E d \in 1 .. Len(p) + 1 - i :
            /\ i + d = Len(p) + 1 \/ p[i + d] = 0
            /\ \A e \in 1 .. d - 1 : p[i + e] # 0
    BY <1>3, <1>4
  <1>6. QED
    BY <1>5 DEF Distance

\* What the encoder puts on the link are bytes.
LEMMA EncodingType ==
    ASSUME NEW p \in Payloads
    PROVE  Header(p) \in Seq(Byte) /\ Encoded(p) \in Seq(Byte)
  <1>1. p \in Seq(Byte) /\ Len(p) \in 1 .. W - 1 /\ W \in Nat /\ W > 2
    BY PayloadsAssumption, WAssumption
  <1>2. \A i \in 0 .. Len(p) : Distance(p, i) \in Nat
    BY <1>1, DistanceCorrect
  <1>3. \A i \in 0 .. Len(p) : Distance(p, i) % W \in Byte
    BY <1>1, <1>2 DEF Byte
  <1>4. Code(p) \in Byte
    BY <1>1, <1>3 DEF Code
  <1>5. Crc(Service, Len(p), Code(p)) \in Byte
    BY <1>1, <1>4 DEF Crc, Service, Byte
  <1>6. Header(p) \in Seq(Byte)
    BY <1>1, <1>4, <1>5 DEF Header, Service, Byte
  <1>7. Encoded(p) \in Seq(Byte)
    BY <1>1, <1>3 DEF Encoded
  <1>8. QED
    BY <1>6, <1>7

\* A write leaves bytes on the link, and no more than it holds.
LEMMA WritesType ==
    ASSUME AbfInv, NEW b \in Seq(Byte), Writes(b)
    PROVE  link' \in Seq(Byte) /\ Len(link') <= Room
  BY DEF AbfInv, AbfTypeOK, Writes, Fits

\* Taking a byte: what is left of the chunk is inside the receive buffer.
LEMMA NextByteType ==
    ASSUME AbfInv, NextByte
    PROVE  /\ chunk' \in Seq(Byte) /\ at' \in Nat
           /\ (Shared => at' + Len(chunk') <= capacity)
           /\ sent' = sent /\ link' = link /\ capacity' = capacity
           /\ Shared => at \in 0 .. capacity - 1
           /\ Data(mem) \in Byte
  <1>1. /\ chunk \in Seq(Byte) /\ chunk # << >> /\ chunk' = Tail(chunk)
        /\ Len(chunk) \in Nat /\ capacity \in Nat /\ W \in Nat
    BY CapacitiesAssumption, WAssumption DEF AbfInv, AbfTypeOK, NextByte
  <1>2. chunk' \in Seq(Byte) /\ Len(chunk') = Len(chunk) - 1 /\ Len(chunk) > 0 /\ Head(chunk) \in Byte
    BY <1>1
  <1>3. Shared => at \in 0 .. capacity - 1
    BY <1>1, <1>2 DEF AbfInv, AbfTypeOK
  <1>4. at' \in Nat /\ (Shared => at' + Len(chunk') <= capacity)
    BY <1>1, <1>2, <1>3 DEF AbfInv, AbfTypeOK, NextByte
  <1>5. Data(mem) \in Byte
    BY <1>2, <1>3 DEF Data, AbfInv, AbfTypeOK
  <1>6. QED
    BY <1>2, <1>3, <1>4, <1>5 DEF NextByte

\* Storing a byte inside the buffer keeps it a buffer of bytes.
LEMMA StoreType ==
    ASSUME AbfInv, NextByte, NEW pos \in 0 .. capacity - 1, NEW d \in Byte, Store(pos, d)
    PROVE  mem' \in [0 .. capacity - 1 -> Byte] /\ nextZero' \in Byte
  <1>1. /\ mem \in [0 .. capacity - 1 -> Byte] /\ nextZero \in Byte
        /\ W \in Nat /\ W > 2 /\ 0 \in Byte
    BY WAssumption DEF AbfInv, AbfTypeOK, Byte
  <1>2. mem' \in [0 .. capacity - 1 -> Byte]
    BY <1>1 DEF Store
  <1>3. Data(mem') \in Byte
    <2>1. CASE Shared
      BY <1>2, <2>1, NextByteType DEF Data
    <2>2. CASE ~Shared
      BY <2>2, NextByteType DEF Data
    <2>3. QED
      BY <2>1, <2>2
  <1>4. Countdown \in Byte
    BY <1>1 DEF Countdown, Byte
  <1>5. QED
    BY <1>2, <1>3, <1>4 DEF Store

\* A frame that ends is delivered as a sequence of bytes within the buffer.
LEMMA EndsType ==
    ASSUME AbfInv, NextByte, NEW pos \in 1 .. capacity, Ends(pos),
           mem' \in [0 .. capacity - 1 -> Byte]
    PROVE  /\ delivered' \in Seq(Seq(Byte))
           /\ \A k \in 1 .. Len(delivered') : Len(delivered'[k]) <= capacity
  <1> DEFINE frame == [i \in 1 .. pos |-> mem'[i - 1]]
  <1>1. delivered \in Seq(Seq(Byte)) /\ capacity \in Nat
    BY CapacitiesAssumption, WAssumption DEF AbfInv, AbfTypeOK
  <1>2. frame \in Seq(Byte) /\ Len(frame) = pos
    BY <1>1
  <1>3. CASE pos = header[2]
    <2>1. delivered' = Append(delivered, frame)
      BY <1>3 DEF Ends
    <2> HIDE DEF frame
    <2>2. QED
      BY <2>1, <1>1, <1>2 DEF AbfInv, AbfTypeOK
  <1>4. CASE pos # header[2]
    BY <1>4, <1>1 DEF Ends, AbfInv, AbfTypeOK
  <1>5. QED
    BY <1>3, <1>4

\* At first the values are the ones the types say.
LEMMA InitType == Init => AbfInv
  <1> SUFFICES ASSUME Init PROVE AbfInv
    OBVIOUS
  <1>1. 0 \in Byte /\ capacity \in Nat \ {0} /\ Room \in Nat
    BY WAssumption, CapacitiesAssumption, LinkAssumption DEF Byte, Init
  <1>2. QED
    BY <1>1 DEF Init, AbfInv, AbfTypeOK

\* The sender's steps: a header or a payload is written or refused.
LEMMA SenderType ==
    ASSUME AbfInv
    PROVE  /\ \A p \in Payloads : SendHeader(p) => AbfInv'
           /\ SendPayload => AbfInv'
  <1>1. ASSUME NEW p \in Payloads, SendHeader(p) PROVE AbfInv'
    <2>1. link' \in Seq(Byte) /\ Len(link') <= Room
      BY <1>1, EncodingType, WritesType DEF SendHeader
    <2>2. sent' \in Seq(Frame)
      BY <1>1 DEF SendHeader, AbfInv, Frame, Fits
    <2>3. QED
      BY <1>1, <2>1, <2>2 DEF SendHeader, AbfInv, AbfTypeOK, decoder
  <1>2. ASSUME SendPayload PROVE AbfInv'
    <2> DEFINE n == Len(sent)
    <2>1. n \in 1 .. Len(sent) /\ sent \in Seq(Frame) /\ sent[n] \in Frame /\ sent[n].payload \in Payloads
      <3>1. sent \in Seq(Frame) /\ sent # << >>
        BY <1>2 DEF SendPayload, Sending, AbfInv
      <3>2. n \in 1 .. Len(sent)
        BY <3>1
      <3>3. sent[n] \in Frame
        BY <3>1, <3>2
      <3>4. QED
        BY <3>1, <3>2, <3>3 DEF Frame
    <2>2. link' \in Seq(Byte) /\ Len(link') <= Room
      BY <1>2, <2>1, EncodingType, WritesType DEF SendPayload
    <2>3. sent' \in Seq(Frame)
      BY <1>2, <2>1 DEF SendPayload, Frame
    <2>4. QED
      BY <1>2, <2>2, <2>3 DEF SendPayload, AbfInv, AbfTypeOK, decoder
  <1>3. QED
    BY <1>1, <1>2

\* A chunk is read.
LEMMA ReadType ==
    ASSUME AbfInv, NEW n \in 0 .. Room, Read(n)
    PROVE  AbfInv'
  <1>1. link \in Seq(Byte) /\ n <= Len(link) /\ capacity \in Nat
    BY CapacitiesAssumption, WAssumption DEF AbfInv, AbfTypeOK, Read
  <1>2. /\ chunk' \in Seq(Byte) /\ Len(chunk') = n
        /\ link' \in Seq(Byte) /\ Len(link') <= Len(link)
    BY <1>1 DEF Read
  <1>3. mem' \in [0 .. capacity - 1 -> Byte]
    BY <1>1 DEF Read, Overwritten, AbfInv, AbfTypeOK
  <1>4. Len(link') <= Room
    BY <1>1, <1>2, LinkAssumption DEF AbfInv, AbfTypeOK
  <1>5. QED
    BY <1>1, <1>2, <1>3, <1>4 DEF Read, AbfInv, AbfTypeOK

\* The steps of Stream::process.
LEMMA ProcessType ==
    ASSUME AbfInv, Process
    PROVE  AbfInv'
  <1>1. NextByte
    BY DEF Process, HuntSync, HeaderByte, HeaderEnd, StoreByte, Incomplete, BufferSmall, EmptyFrame
  <1>2. /\ chunk' \in Seq(Byte) /\ at' \in Nat
        /\ (Shared => at' + Len(chunk') <= capacity)
        /\ sent' = sent /\ link' = link /\ capacity' = capacity
        /\ Data(mem) \in Byte
    BY <1>1, NextByteType
  <1>3. W \in Nat /\ W > 2 /\ capacity \in 1 .. W - 1 /\ 0 \in Byte /\ Byte \subseteq Nat
    BY WAssumption, CapacitiesAssumption DEF AbfInv, AbfTypeOK, Byte
  <1>4. CASE HuntSync
    BY <1>2, <1>3, <1>4 DEF HuntSync, AbfInv, AbfTypeOK
  <1>5. CASE HeaderByte
    BY <1>2, <1>3, <1>5 DEF HeaderByte, AbfInv, AbfTypeOK
  <1>6. CASE HeaderEnd
    <2>1. header' \in [0 .. HEADER_SIZE - 1 -> Byte] /\ header'[2] = header[2]
      BY <1>2, <1>6 DEF HeaderEnd, AbfInv, AbfTypeOK
    <2>2. nextZero' \in Byte /\ header[2] \in Byte
      BY <1>6 DEF HeaderEnd, AbfInv, AbfTypeOK
    <2>3. headerPos' \in 0 .. HEADER_SIZE /\ state' = "READ_PAYLOAD" /\ rxPos' = 0
      BY <1>6 DEF HeaderEnd
    <2>4. header'[2] >= 0
      BY <1>3, <2>1, <2>2 DEF Byte
    <2>5. mem' = mem /\ delivered' = delivered
      BY <1>6 DEF HeaderEnd
    <2>6. QED
      BY <1>2, <1>3, <2>1, <2>2, <2>3, <2>4, <2>5 DEF AbfInv, AbfTypeOK
  <1>7. CASE StoreByte
    <2>1. rxPos \in 0 .. capacity - 1 /\ header[2] \in Nat /\ rxPos < header[2]
      <3>1. header[2] \in Byte /\ rxPos \in 0 .. capacity /\ rxPos < header[2] /\ rxPos < capacity
        BY <1>7 DEF StoreByte, AbfInv, AbfTypeOK
      <3>2. QED
        BY <1>3, <3>1 DEF Byte
    <2>2. mem' \in [0 .. capacity - 1 -> Byte] /\ nextZero' \in Byte
      BY <1>1, <1>2, <1>7, <2>1, StoreType DEF StoreByte
    <2>3. /\ delivered' \in Seq(Seq(Byte))
          /\ \A k \in 1 .. Len(delivered') : Len(delivered'[k]) <= capacity
      BY <1>1, <1>3, <1>7, <2>1, <2>2, EndsType DEF StoreByte
    <2>4. header' = header
      BY <1>7 DEF StoreByte
    <2>5. CASE rxPos + 1 = header[2]
      <3>1. state' = "HUNT_SYNC" /\ rxPos' = 0 /\ headerPos' = 0
        BY <1>7, <2>5 DEF StoreByte, Ends, Reset
      <3>2. QED
        BY <1>2, <1>3, <2>2, <2>3, <2>4, <3>1 DEF AbfInv, AbfTypeOK
    <2>6. CASE rxPos + 1 # header[2]
      <3>1. state' = "READ_PAYLOAD" /\ rxPos' = rxPos + 1 /\ headerPos' = headerPos
        BY <1>1, <1>7, <2>6 DEF StoreByte
      <3>2. rxPos' \in 0 .. capacity /\ rxPos' <= header[2]
        BY <1>3, <2>1, <3>1
      <3>3. QED
        BY <1>2, <1>3, <2>2, <2>3, <2>4, <3>1, <3>2 DEF AbfInv, AbfTypeOK
    <2>7. QED
      BY <2>5, <2>6
  <1>8. CASE Incomplete
    <2>1. 0 \in 0 .. capacity - 1 /\ 1 \in 1 .. capacity /\ SYNC_BYTE \in Byte
      BY <1>3
    <2>2. mem' \in [0 .. capacity - 1 -> Byte] /\ nextZero' \in Byte
      BY <1>1, <1>8, <2>1, StoreType DEF Incomplete
    <2>3. /\ delivered' \in Seq(Seq(Byte))
          /\ \A k \in 1 .. Len(delivered') : Len(delivered'[k]) <= capacity
      BY <1>1, <1>8, <2>1, <2>2, EndsType DEF Incomplete
    <2>4. /\ state' = "HUNT_SYNC" /\ rxPos' \in {0, 1} /\ headerPos' = 0
          /\ header' = header
      BY <1>8 DEF Incomplete, Ends, Reset
    <2>5. QED
      BY <1>2, <1>3, <2>2, <2>3, <2>4 DEF AbfInv, AbfTypeOK
  <1>9. CASE BufferSmall
    BY <1>2, <1>3, <1>9 DEF BufferSmall, Reset, AbfInv, AbfTypeOK
  <1>10. CASE EmptyFrame
    <2>1. delivered' = Append(delivered, << >>) /\ << >> \in Seq(Byte) /\ Len(<< >>) <= capacity
      BY <1>3, <1>10 DEF EmptyFrame
    <2>2. /\ delivered' \in Seq(Seq(Byte))
          /\ \A k \in 1 .. Len(delivered') : Len(delivered'[k]) <= capacity
      BY <2>1 DEF AbfInv, AbfTypeOK
    <2>3. QED
      BY <1>2, <1>3, <1>10, <2>2, SMTT(30) DEF EmptyFrame, Reset, AbfInv, AbfTypeOK
  <1>11. QED
    BY <1>4, <1>5, <1>6, <1>7, <1>8, <1>9, <1>10 DEF Process

(***************************************************************************)
(* Whatever bytes the link carries and however they are cut into chunks,   *)
(* Stream::process indexes its header and its receive buffer within their  *)
(* bounds, and delivers no length beyond the buffer.                       *)
(***************************************************************************)
THEOREM AbfTypeCorrect == Spec => []AbfTypeOK
  <1>1. Init => AbfInv
    BY InitType
  <1>2. AbfInv /\ [Next]_vars => AbfInv'
    <2> SUFFICES ASSUME AbfInv, [Next]_vars PROVE AbfInv'
      OBVIOUS
    <2>1. ASSUME NEW p \in Payloads, SendHeader(p) PROVE AbfInv'
      BY <2>1, SenderType
    <2>2. CASE SendPayload
      BY <2>2, SenderType
    <2>3. ASSUME NEW n \in 0 .. Room, Read(n) PROVE AbfInv'
      BY <2>3, ReadType
    <2>4. CASE Process
      BY <2>4, ProcessType
    <2>5. CASE UNCHANGED vars
      BY <2>5 DEF vars, decoder, AbfInv, AbfTypeOK
    <2>6. QED
      BY <2>1, <2>2, <2>3, <2>4, <2>5 DEF Next
  <1>3. AbfInv => AbfTypeOK
    BY DEF AbfInv
  <1>4. QED
    BY <1>1, <1>2, <1>3, PTL DEF Spec

----------------------------------------------------------------------------
\* The encoding, a byte at a time.

\* One byte further the first zero is one nearer, unless that byte is the zero.
LEMMA DistanceStep ==
    ASSUME NEW p \in Seq(Byte), NEW r \in 0 .. Len(p) - 1
    PROVE  IF p[r + 1] = 0 THEN Distance(p, r) = 1
           ELSE Distance(p, r) > 1 /\ Distance(p, r) = Distance(p, r + 1) + 1
  <1>1. Len(p) \in Nat /\ r \in 0 .. Len(p) /\ r + 1 \in 0 .. Len(p) /\ r \in Nat
    OBVIOUS
  <1> DEFINE d == Distance(p, r)
             e == Distance(p, r + 1)
  <1>2. /\ d \in 1 .. Len(p) + 1 - r
        /\ r + d = Len(p) + 1 \/ p[r + d] = 0
        /\ \A x \in 1 .. d - 1 : p[r + x] # 0
    BY <1>1, DistanceCorrect
  <1>3. /\ e \in 1 .. Len(p) + 1 - (r + 1)
        /\ (r + 1) + e = Len(p) + 1 \/ p[(r + 1) + e] = 0
        /\ \A x \in 1 .. e - 1 : p[(r + 1) + x] # 0
    BY <1>1, DistanceCorrect
  <1> HIDE DEF d, e
  <1>4. CASE p[r + 1] = 0
    <2>1. ~ (1 \in 1 .. d - 1)
      BY <1>2, <1>4
    <2>2. d = 1
      BY <1>1, <1>2, <2>1
    <2>3. QED
      BY <1>4, <2>2 DEF d
  <1>5. CASE p[r + 1] # 0
    <2>1. d # 1
      <3>1. r + 1 # Len(p) + 1
        BY <1>1
      <3>2. QED
        BY <1>2, <1>5, <3>1
    <2>2. ~ (d - 1 < e)
      <3>1. SUFFICES ASSUME d - 1 < e PROVE FALSE
        OBVIOUS
      <3>2. d - 1 \in 1 .. e - 1 /\ (r + 1) + (d - 1) = r + d
        BY <1>1, <1>2, <1>3, <2>1, <3>1
      <3>3. p[r + d] # 0
        BY <1>3, <3>2
      <3>4. QED
        BY <1>1, <1>2, <1>3, <3>1, <3>3
    <2>3. ~ (d - 1 > e)
      <3>1. SUFFICES ASSUME d - 1 > e PROVE FALSE
        OBVIOUS
      <3>2. e + 1 \in 1 .. d - 1 /\ r + (e + 1) = (r + 1) + e
        BY <1>1, <1>2, <1>3, <3>1
      <3>3. p[(r + 1) + e] # 0
        BY <1>2, <3>2
      <3>4. QED
        BY <1>1, <1>2, <1>3, <3>1, <3>3
    <2>4. d > 1 /\ d = e + 1
      BY <1>1, <1>2, <1>3, <2>1, <2>2, <2>3
    <2>5. QED
      BY <1>5, <2>4 DEF d, e
  <1>6. QED
    BY <1>4, <1>5

\* A remainder, where the dividend is at most the divisor.
LEMMA ModSmall ==
    ASSUME NEW d \in 0 .. W
    PROVE  d % W = IF d = W THEN 0 ELSE d
  BY WAssumption

\* Inside the payload the distance is at most W, so its byte says 1 at a zero only.
LEMMA DistanceByte ==
    ASSUME NEW p \in Payloads, NEW r \in 0 .. Len(p)
    PROVE  /\ Distance(p, r) \in 1 .. W
           /\ r > 0 => Distance(p, r) < W
           /\ Distance(p, r) % W = (IF Distance(p, r) = W THEN 0 ELSE Distance(p, r))
           /\ Distance(p, r) % W = 1 <=> Distance(p, r) = 1
  <1>1. p \in Seq(Byte) /\ Len(p) \in 1 .. W - 1 /\ W \in Nat /\ W > 2
    BY PayloadsAssumption, WAssumption
  <1>2. Distance(p, r) \in 1 .. Len(p) + 1 - r
    BY <1>1, DistanceCorrect
  <1>3. Distance(p, r) \in 1 .. W /\ (r > 0 => Distance(p, r) < W)
    BY <1>1, <1>2
  <1>4. Distance(p, r) % W = (IF Distance(p, r) = W THEN 0 ELSE Distance(p, r))
    BY <1>1, <1>3, ModSmall
  <1>5. QED
    BY <1>1, <1>3, <1>4

\* An encoded payload has no zero; the code of a header may be one, the others
\* after the sync byte are not.
LEMMA NoZeros ==
    ASSUME NEW p \in Payloads
    PROVE  /\ Len(Encoded(p)) = Len(p) /\ Len(Header(p)) = HEADER_SIZE
           /\ \A i \in 1 .. Len(p) : Encoded(p)[i] # 0
           /\ Header(p)[1] = 0 /\ Header(p)[2] = Service /\ Header(p)[3] = Len(p)
           /\ Header(p)[4] = Code(p)
           /\ Header(p)[5] = Crc(Header(p)[2], Header(p)[3], Header(p)[4])
           /\ Code(p) # 0 => \A i \in 2 .. HEADER_SIZE : Header(p)[i] # 0
  <1>1. p \in Seq(Byte) /\ Len(p) \in 1 .. W - 1 /\ W \in Nat /\ W > 2
    BY PayloadsAssumption, WAssumption
  <1>2. Len(Encoded(p)) = Len(p) /\ \A i \in 1 .. Len(p) : Encoded(p)[i] # 0
    <2>1. \A i \in 1 .. Len(p) : p[i] = 0 => Distance(p, i) % W # 0
      BY <1>1, DistanceByte
    <2>2. QED
      BY <1>1, <2>1 DEF Encoded
  <1>3. Crc(Service, Len(p), Code(p)) # 0
    <2>1. \A s \in Nat : (IF s % W = 0 THEN W - 1 ELSE s % W) # 0
      BY <1>1
    <2>2. QED
      BY <1>1, <2>1 DEF Crc
  <1>4. /\ Len(Header(p)) = HEADER_SIZE
        /\ Header(p)[1] = 0 /\ Header(p)[2] = Service /\ Header(p)[3] = Len(p)
        /\ Header(p)[4] = Code(p) /\ Header(p)[5] = Crc(Service, Len(p), Code(p))
    BY DEF Header
  <1>5. Code(p) # 0 => \A i \in 2 .. HEADER_SIZE : Header(p)[i] # 0
    <2>1. \A i \in 2 .. HEADER_SIZE : i \in {2, 3, 4, 5}
      OBVIOUS
    <2>2. QED
      BY <1>1, <1>3, <1>4, <2>1 DEF Service
  <1>6. QED
    BY <1>2, <1>4, <1>5

\* What StoreByte does with the byte at r of an encoded payload: the byte of the
\* payload is stored, and the countdown is that of the next place.
LEMMA DecodeStep ==
    ASSUME NEW p \in Payloads, NEW r \in 0 .. Len(p) - 1
    PROVE  IF Distance(p, r) % W = 1
           THEN p[r + 1] = 0 /\ Encoded(p)[r + 1] = Distance(p, r + 1) % W
           ELSE /\ p[r + 1] = Encoded(p)[r + 1]
                /\ ((Distance(p, r) % W) - 1) % W = Distance(p, r + 1) % W
  <1>1. p \in Seq(Byte) /\ Len(p) \in 1 .. W - 1 /\ W \in Nat /\ W > 2
    BY PayloadsAssumption, WAssumption
  <1>2. r \in 0 .. Len(p) /\ r + 1 \in 0 .. Len(p) /\ r + 1 \in 1 .. Len(p)
    BY <1>1
  <1>3. Distance(p, r) % W = 1 <=> p[r + 1] = 0
    BY <1>1, <1>2, DistanceByte, DistanceStep
  <1>4. Encoded(p)[r + 1] = IF p[r + 1] = 0 THEN Distance(p, r + 1) % W ELSE p[r + 1]
    BY <1>1, <1>2 DEF Encoded
  <1>5. p[r + 1] # 0 => ((Distance(p, r) % W) - 1) % W = Distance(p, r + 1) % W
    <2>1. SUFFICES ASSUME p[r + 1] # 0
                   PROVE  ((Distance(p, r) % W) - 1) % W = Distance(p, r + 1) % W
      OBVIOUS
    <2> DEFINE d == Distance(p, r)
               e == Distance(p, r + 1)
    <2>2. d = e + 1 /\ d \in 1 .. W /\ e \in 1 .. W - 1 /\ d % W = (IF d = W THEN 0 ELSE d)
      BY <1>1, <1>2, <2>1, DistanceByte, DistanceStep
    <2> HIDE DEF d, e
    <2>3. e % W = e
      BY <1>1, <2>2
    <2>4. (0 - 1) % W = W - 1
      BY <1>1
    <2>5. ((d % W) - 1) % W = e % W
      BY <1>1, <2>2, <2>3, <2>4
    <2>6. QED
      BY <2>5 DEF d, e
  <1>6. QED
    BY <1>3, <1>4, <1>5

----------------------------------------------------------------------------
\* The layout of the frames in the bytes ever put on the link.

Pay(k) == sent[k].payload
HeadLen(k) == IF sent[k].head THEN HEADER_SIZE ELSE 0
BodyLen(k) == IF sent[k].body = "in" THEN Len(Pay(k)) ELSE 0
Last == Len(sent) + 1

\* A frame is pending only while it is the last.
OnlyLastPends == \A k \in 1 .. Len(sent) : sent[k].body = "pending" => k = Len(sent)

\* The frames follow each other: frame k takes the places off[k] + 1 .. off[k + 1].
Offsets(off) ==
    /\ off \in [Nat -> Nat] /\ off[1] = 0
    /\ \A k \in 1 .. Len(sent) : off[k + 1] = off[k] + HeadLen(k) + BodyLen(k)
    /\ \A j, k \in 1 .. Last : j <= k => off[j] <= off[k]

\* The bytes of T that frame k takes.
Carries(T, off) ==
    /\ T \in [Nat -> Byte]
    /\ \A k \in 1 .. Len(sent) : sent[k].head =>
           \A i \in 1 .. HEADER_SIZE : T[off[k] + i] = Header(Pay(k))[i]
    /\ \A k \in 1 .. Len(sent) : sent[k].body = "in" =>
           \A i \in 1 .. Len(Pay(k)) : T[(off[k] + HeadLen(k)) + i] = Encoded(Pay(k))[i]

\* Of the bytes ever written the first c are processed, the others in flight.
InFlight(T, off, c) ==
    /\ c \in Nat /\ c + Len(chunk) + Len(link) = off[Last]
    /\ \A i \in 1 .. Len(chunk) : T[c + i] = chunk[i]
    /\ \A i \in 1 .. Len(link) : T[(c + Len(chunk)) + i] = link[i]

Layout(T, off, c) == OnlyLastPends /\ Offsets(off) /\ Carries(T, off) /\ InFlight(T, off, c)

\* What is known of frame k.
LEMMA FrameFacts ==
    ASSUME AbfInv, NEW k \in 1 .. Len(sent)
    PROVE  /\ Pay(k) \in Payloads /\ Pay(k) \in Seq(Byte) /\ Len(Pay(k)) \in 1 .. W - 1
           /\ sent[k].head \in BOOLEAN /\ sent[k].body \in {"pending", "in", "refused"}
           /\ HeadLen(k) \in {0, HEADER_SIZE} /\ BodyLen(k) \in 0 .. W - 1
           /\ Accepted(k) => BodyLen(k) > 0
  <1>1. sent[k] \in Frame
    BY DEF AbfInv
  <1>2. W \in Nat
    BY WAssumption
  <1>3. Pay(k) \in Payloads /\ sent[k].head \in BOOLEAN /\ sent[k].body \in {"pending", "in", "refused"}
    BY <1>1 DEF Frame, Pay
  <1>4. Pay(k) \in Seq(Byte) /\ Len(Pay(k)) \in 1 .. W - 1
    BY <1>3, PayloadsAssumption
  <1>5. QED
    BY <1>2, <1>3, <1>4 DEF HeadLen, BodyLen, Accepted

\* A byte processed next belongs to one frame.
LEMMA Locate ==
    ASSUME AbfInv, NEW off, Offsets(off), NEW c \in Nat, c < off[Last]
    PROVE  \E k \in 1 .. Len(sent) : off[k] <= c /\ c < off[k + 1]
  <1> DEFINE S == {k \in 1 .. Last : c < off[k]}
  <1>1. S \in SUBSET Nat /\ Len(sent) \in Nat /\ Last \in S /\ sent \in Seq(Frame)
    BY DEF Last, AbfInv
  <1>2. PICK m \in S : \A d \in S : ~ (<<d, m>> \in OpToRel(<, Nat))
    BY <1>1, NatLessThanWellFounded, WFMin
  <1>3. \A d \in S : ~ (d < m)
    BY <1>1, <1>2 DEF OpToRel
  <1>4. m \in 1 .. Last /\ c < off[m] /\ m # 1 /\ m - 1 \in 1 .. Len(sent) /\ m - 1 \in 1 .. Last
    <2>1. m \in 1 .. Last /\ c < off[m] /\ off[1] = 0
      BY DEF Offsets
    <2>2. m # 1
      BY <2>1
    <2>3. QED
      BY <1>1, <2>1, <2>2 DEF Last
  <1>5. m - 1 \notin S
    BY <1>3, <1>4
  <1>6. ~ (c < off[m - 1]) /\ off[m - 1] \in Nat /\ (m - 1) + 1 = m
    BY <1>4, <1>5 DEF Offsets
  <1>7. QED
    BY <1>4, <1>6

\* A byte read from the start of the link goes to the end of the chunk.
LEMMA ReadLayout ==
    ASSUME AbfInv, NEW T, NEW off, NEW c, Layout(T, off, c), NEW n \in 0 .. Room, Read(n)
    PROVE  Layout(T, off, c)'
  <1>1. link \in Seq(Byte) /\ Len(link) \in Nat /\ n \in 0 .. Len(link) /\ chunk = << >> /\ Len(chunk) = 0
    BY LinkAssumption DEF AbfInv, AbfTypeOK, Read
  <1>2. /\ Len(chunk') = n /\ \A i \in 1 .. n : chunk'[i] = link[i]
        /\ Len(link') = Len(link) - n /\ \A i \in 1 .. Len(link) - n : link'[i] = link[n + i]
    BY <1>1 DEF Read
  <1>3. sent' = sent
    BY DEF Read
  <1>4. c \in Nat /\ c + Len(link) = off[Last] /\ \A i \in 1 .. Len(link) : T[c + i] = link[i]
    BY <1>1 DEF Layout, InFlight
  <1>5. c + Len(chunk') + Len(link') = off[Last]
    BY <1>1, <1>2, <1>4
  <1>6. \A i \in 1 .. Len(chunk') : T[c + i] = chunk'[i]
    BY <1>1, <1>2, <1>4
  <1>7. \A i \in 1 .. Len(link') : T[(c + Len(chunk')) + i] = link'[i]
    <2>1. SUFFICES ASSUME NEW i \in 1 .. Len(link') PROVE T[(c + Len(chunk')) + i] = link'[i]
      OBVIOUS
    <2>2. n + i \in 1 .. Len(link) /\ (c + n) + i = c + (n + i) /\ i \in 1 .. Len(link) - n
      BY <1>1, <1>2, <1>4
    <2>3. QED
      BY <1>2, <1>4, <2>2
  <1>8. QED
    BY <1>3, <1>4, <1>5, <1>6, <1>7, ZenonT(90)
    DEF Layout, OnlyLastPends, Offsets, Carries, InFlight, Last, Pay, HeadLen, BodyLen

\* Taking a byte: it is byte c + 1, and one more is processed.
LEMMA NextByteLayout ==
    ASSUME AbfInv, ~Shared, NEW T, NEW off, NEW c, Layout(T, off, c), NextByte
    PROVE  /\ Layout(T, off, c + 1)'
           /\ c \in Nat /\ c < off[Last] /\ Head(chunk) = T[c + 1] /\ T[c + 1] \in Byte
  <1>1. /\ chunk \in Seq(Byte) /\ Len(chunk) \in Nat \ {0} /\ link \in Seq(Byte) /\ Len(link) \in Nat
        /\ chunk' = Tail(chunk) /\ sent' = sent /\ link' = link
    BY DEF AbfInv, AbfTypeOK, NextByte
  <1>2. /\ c \in Nat /\ c + Len(chunk) + Len(link) = off[Last]
        /\ \A i \in 1 .. Len(chunk) : T[c + i] = chunk[i]
        /\ \A i \in 1 .. Len(link) : T[(c + Len(chunk)) + i] = link[i]
    BY DEF Layout, InFlight
  <1>3. /\ Len(chunk') = Len(chunk) - 1 /\ Head(chunk) = chunk[1]
        /\ \A i \in 1 .. Len(chunk) - 1 : chunk'[i] = chunk[i + 1]
    BY <1>1
  <1>4. off[Last] \in Nat /\ T \in [Nat -> Byte]
    BY DEF Layout, Offsets, Carries, Last, AbfInv
  <1>5. c + 1 + Len(chunk') + Len(link') = off[Last] /\ c < off[Last] /\ c + 1 \in Nat
    <2>1. Len(chunk') = Len(chunk) - 1 /\ Len(link') = Len(link)
      BY <1>1, <1>3
    <2>2. QED
      BY <1>1, <1>2, <1>4, <2>1
  <1>6. \A i \in 1 .. Len(chunk') : T[(c + 1) + i] = chunk'[i]
    <2>1. SUFFICES ASSUME NEW i \in 1 .. Len(chunk') PROVE T[(c + 1) + i] = chunk'[i]
      OBVIOUS
    <2>2. i + 1 \in 1 .. Len(chunk) /\ (c + 1) + i = c + (i + 1) /\ i \in 1 .. Len(chunk) - 1
      BY <1>1, <1>2, <1>3
    <2>3. QED
      BY <1>2, <1>3, <2>2
  <1>7. \A i \in 1 .. Len(link') : T[((c + 1) + Len(chunk')) + i] = link'[i]
    <2>1. (c + 1) + Len(chunk') = c + Len(chunk)
      BY <1>1, <1>2, <1>3
    <2>2. QED
      BY <1>1, <1>2, <2>1
  <1>8. Layout(T, off, c + 1)'
    <2>1. InFlight(T, off, c + 1)'
      BY <1>1, <1>5, <1>6, <1>7 DEF InFlight, Last
    <2>2. (OnlyLastPends /\ Offsets(off) /\ Carries(T, off))'
      BY <1>1, SMTT(30) DEF Layout, OnlyLastPends, Offsets, Carries, Last, Pay, HeadLen, BodyLen
    <2>3. QED
      BY <2>1, <2>2 DEF Layout
  <1>9. Head(chunk) = T[c + 1] /\ T[c + 1] \in Byte
    BY <1>1, <1>2, <1>3, <1>4
  <1>10. QED
    BY <1>2, <1>5, <1>8, <1>9

----------------------------------------------------------------------------
\* What the sender and a read do to the layout.

\* What a write puts on the link.
Written(b) == IF Fits(b) THEN b ELSE << >>
\* T with the bytes w after its first o.
Extended(T, o, w) == [i \in Nat |-> IF i \in o + 1 .. o + Len(w) THEN w[i - o] ELSE T[i]]

\* Bytes added at the end of T are found there, and move none of the others.
LEMMA ExtendedFacts ==
    ASSUME NEW T \in [Nat -> Byte], NEW o \in Nat, NEW w \in Seq(Byte)
    PROVE  /\ Extended(T, o, w) \in [Nat -> Byte]
           /\ \A i \in Nat : i <= o => Extended(T, o, w)[i] = T[i]
           /\ \A i \in 1 .. Len(w) : Extended(T, o, w)[o + i] = w[i]
  <1>1. Len(w) \in Nat
    OBVIOUS
  <1>2. \A i \in Nat : i \in o + 1 .. o + Len(w) => w[i - o] \in Byte
    <2>1. \A i \in Nat : i \in o + 1 .. o + Len(w) => i - o \in 1 .. Len(w)
      BY <1>1
    <2>2. QED
      BY <2>1
  <1>3. Extended(T, o, w) \in [Nat -> Byte]
    BY <1>2 DEF Extended
  <1>4. \A i \in Nat : i <= o => Extended(T, o, w)[i] = T[i]
    BY <1>1 DEF Extended
  <1>5. \A i \in 1 .. Len(w) : Extended(T, o, w)[o + i] = w[i]
    <2>1. SUFFICES ASSUME NEW i \in 1 .. Len(w) PROVE Extended(T, o, w)[o + i] = w[i]
      OBVIOUS
    <2>2. o + i \in Nat /\ o + i \in o + 1 .. o + Len(w) /\ (o + i) - o = i
      BY <1>1
    <2>3. QED
      BY <2>2 DEF Extended
  <1>6. QED
    BY <1>3, <1>4, <1>5

\* A write puts its bytes at the end of what is in flight, or nothing.
LEMMA WriteInFlight ==
    ASSUME AbfInv, NEW T, NEW off, NEW c, Layout(T, off, c), NEW b \in Seq(Byte),
           Writes(b), chunk' = chunk
    PROVE  /\ Written(b) \in Seq(Byte) /\ c \in Nat /\ off[Last] \in Nat /\ c <= off[Last]
           /\ c + Len(chunk') + Len(link') = off[Last] + Len(Written(b))
           /\ \A i \in 1 .. Len(chunk') : Extended(T, off[Last], Written(b))[c + i] = chunk'[i]
           /\ \A i \in 1 .. Len(link') :
                  Extended(T, off[Last], Written(b))[(c + Len(chunk')) + i] = link'[i]
  <1> DEFINE w == Written(b)
             o == off[Last]
             U == Extended(T, o, w)
  <1>1. /\ chunk \in Seq(Byte) /\ link \in Seq(Byte) /\ w \in Seq(Byte)
        /\ Len(chunk) \in Nat /\ Len(link) \in Nat /\ Len(w) \in Nat
    BY DEF AbfInv, AbfTypeOK, Written
  <1>2. T \in [Nat -> Byte] /\ o \in Nat
    BY SMTT(30) DEF Layout, Carries, Offsets, Last, AbfInv
  <1>3. /\ c \in Nat /\ c + Len(chunk) + Len(link) = o
        /\ \A i \in 1 .. Len(chunk) : T[c + i] = chunk[i]
        /\ \A i \in 1 .. Len(link) : T[(c + Len(chunk)) + i] = link[i]
    BY DEF Layout, InFlight
  <1>4. /\ \A i \in Nat : i <= o => U[i] = T[i]
        /\ \A i \in 1 .. Len(w) : U[o + i] = w[i]
    BY <1>1, <1>2, ExtendedFacts, ZenonT(40)
  <1>5. /\ Len(link') = Len(link) + Len(w)
        /\ \A i \in 1 .. Len(link) : link'[i] = link[i]
        /\ \A i \in 1 .. Len(w) : link'[Len(link) + i] = w[i]
    <2>1. CASE Fits(b)
      BY <1>1, <2>1 DEF Writes, Written
    <2>2. CASE ~Fits(b)
      BY <1>1, <2>2 DEF Writes, Written
    <2>3. QED
      BY <2>1, <2>2
  <1> HIDE DEF w, o, U
  <1>6. c + Len(chunk') + Len(link') = o + Len(w) /\ c <= o
    <2>1. /\ Len(chunk) \in Nat /\ Len(link) \in Nat /\ Len(w) \in Nat /\ o \in Nat /\ c \in Nat
          /\ c + Len(chunk) + Len(link) = o /\ Len(link') = Len(link) + Len(w) /\ chunk' = chunk
      BY <1>1, <1>2, <1>3, <1>5
    <2>2. QED
      BY ONLY <2>1
  <1>7. \A i \in 1 .. Len(chunk') : U[c + i] = chunk'[i]
    <2>1. \A i \in 1 .. Len(chunk) : c + i \in Nat /\ c + i <= o
      BY <1>1, <1>2, <1>3
    <2>2. QED
      BY <1>3, <1>4, <2>1
  <1>8. \A i \in 1 .. Len(link') : U[(c + Len(chunk')) + i] = link'[i]
    <2>1. SUFFICES ASSUME NEW i \in 1 .. Len(link') PROVE U[(c + Len(chunk)) + i] = link'[i]
      OBVIOUS
    <2>2. CASE i <= Len(link)
      <3>1. i \in 1 .. Len(link) /\ (c + Len(chunk)) + i \in Nat /\ (c + Len(chunk)) + i <= o
        BY <1>1, <1>2, <1>3, <2>2
      <3>2. QED
        BY <1>3, <1>4, <1>5, <3>1
    <2>3. CASE i > Len(link)
      <3>1. PICK j \in 1 .. Len(w) : i = Len(link) + j
        <4>1. i - Len(link) \in 1 .. Len(w) /\ i = Len(link) + (i - Len(link))
          BY <1>1, <1>5, <2>3
        <4>2. QED
          BY <4>1
      <3>2. (c + Len(chunk)) + i = o + j
        <4>1. /\ Len(chunk) \in Nat /\ Len(link) \in Nat /\ o \in Nat /\ c \in Nat /\ j \in Nat
              /\ c + Len(chunk) + Len(link) = o /\ i = Len(link) + j
          BY <1>1, <1>2, <1>3, <3>1
        <4>2. QED
          BY ONLY <4>1
      <3>3. QED
        BY <1>4, <1>5, <3>1, <3>2
    <2>4. QED
      BY <1>1, <2>2, <2>3, <1>5
  <1>9. QED
    BY <1>1, <1>2, <1>3, <1>6, <1>7, <1>8 DEF w, o, U

\* What the frames carry is unchanged by bytes written after them.
LEMMA CarriesExtended ==
    ASSUME AbfInv, NEW T, NEW off, Offsets(off), Carries(T, off), NEW w \in Seq(Byte)
    PROVE  Carries(Extended(T, off[Last], w), off)
  <1> DEFINE o == off[Last]
             U == Extended(T, o, w)
  <1>1. T \in [Nat -> Byte] /\ o \in Nat
    BY SMTT(30) DEF Carries, Offsets, Last, AbfInv
  <1>2. U \in [Nat -> Byte] /\ \A i \in Nat : i <= o => U[i] = T[i]
    BY <1>1, ExtendedFacts
  <1> HIDE DEF U
  <1>3. ASSUME NEW k \in 1 .. Len(sent)
        PROVE  /\ off[k] \in Nat /\ HeadLen(k) \in Nat /\ BodyLen(k) \in Nat
               /\ off[k] + HeadLen(k) + BodyLen(k) <= o
    <2>1. k \in 1 .. Last /\ k + 1 \in 1 .. Last /\ Last \in 1 .. Last /\ k + 1 <= Last /\ k + 1 \in Nat
      BY DEF Last, AbfInv
    <2>2. off[k + 1] <= o /\ off[k] \in Nat /\ off[k + 1] = off[k] + HeadLen(k) + BodyLen(k)
      BY <2>1 DEF Offsets
    <2>3. QED
      BY <2>2, FrameFacts, WAssumption
  <1>4. ASSUME NEW k \in 1 .. Len(sent), sent[k].head, NEW i \in 1 .. HEADER_SIZE
        PROVE  U[off[k] + i] = Header(Pay(k))[i]
    <2>1. off[k] + i \in Nat /\ off[k] + i <= o
      BY <1>1, <1>3, <1>4, SMTT(30) DEF HeadLen
    <2>2. QED
      BY <1>2, <1>4, <2>1 DEF Carries
  <1>5. ASSUME NEW k \in 1 .. Len(sent), sent[k].body = "in", NEW i \in 1 .. Len(Pay(k))
        PROVE  U[(off[k] + HeadLen(k)) + i] = Encoded(Pay(k))[i]
    <2>1. (off[k] + HeadLen(k)) + i \in Nat /\ (off[k] + HeadLen(k)) + i <= o
      <3>1. BodyLen(k) = Len(Pay(k))
        BY <1>5 DEF BodyLen
      <3>2. QED
        BY <1>1, <1>3, <3>1
    <2>2. QED
      BY <1>2, <1>5, <2>1 DEF Carries
  <1>6. QED
    BY <1>2, <1>4, <1>5 DEF Carries, U

\* A header goes out: one more frame, at the end, of a header or of nothing.
LEMMA SendHeaderLayout ==
    ASSUME AbfInv, NEW T, NEW off, NEW c, NEW p \in Payloads
    PROVE  Layout(T, off, c) /\ SendHeader(p) =>
             \E n \in Nat : \E U, next :
               /\ n = Len(sent) /\ Layout(U, next, c)'
               /\ Len(sent') = n + 1 /\ \A k \in 1 .. n : sent'[k] = sent[k]
               /\ sent'[n + 1] = [payload |-> p, head |-> Fits(Header(p)), body |-> "pending"]
               /\ \A k \in 1 .. n + 1 : next[k] = off[k]
               /\ c \in Nat /\ c <= off[n + 1]
  <1>h. HAVE Layout(T, off, c) /\ SendHeader(p)
  <1> DEFINE b == Header(p)
  <1>0. PICK n \in Nat : n = Len(sent)
    BY DEF AbfInv
  <1>w. PICK w : w = Written(b)
    OBVIOUS
  <1>U. PICK U : U = Extended(T, off[n + 1], w)
    OBVIOUS
  <1>n. PICK next : next = [off EXCEPT ![n + 2] = off[n + 1] + Len(w)]
    OBVIOUS
  <1>1. /\ b \in Seq(Byte) /\ Len(b) = HEADER_SIZE
    BY EncodingType, NoZeros
  <1>2. /\ sent \in Seq(Frame) /\ Last = n + 1
        /\ \A k \in 1 .. n : sent[k].body # "pending"
    <2>1. sent \in Seq(Frame) /\ Last = n + 1
      BY <1>0 DEF AbfInv, Last
    <2>2. ASSUME NEW k \in 1 .. n, sent[k].body = "pending" PROVE FALSE
      <3>1. k = n
        BY <1>h, <1>0, <2>2 DEF Layout, OnlyLastPends
      <3>2. sent # << >>
        BY <1>0, <2>1
      <3>3. QED
        BY <1>h, <1>0, <2>2, <3>1, <3>2 DEF SendHeader, Sending
    <2>3. QED
      BY <2>1, <2>2
  <1>3. /\ Len(sent') = n + 1 /\ \A k \in 1 .. n : sent'[k] = sent[k]
        /\ sent'[n + 1] = [payload |-> p, head |-> Fits(b), body |-> "pending"]
    BY <1>h, <1>0, <1>2 DEF SendHeader
  <1>4. /\ w \in Seq(Byte) /\ Len(w) \in Nat /\ c \in Nat /\ off[n + 1] \in Nat /\ c <= off[n + 1]
        /\ c + Len(chunk') + Len(link') = off[n + 1] + Len(w)
        /\ \A i \in 1 .. Len(chunk') : U[c + i] = chunk'[i]
        /\ \A i \in 1 .. Len(link') : U[(c + Len(chunk')) + i] = link'[i]
    <2>1. Writes(b) /\ chunk' = chunk /\ off[Last] = off[n + 1]
      BY <1>h, <1>2 DEF SendHeader
    <2>2. /\ Written(b) \in Seq(Byte) /\ c \in Nat /\ off[Last] \in Nat /\ c <= off[Last]
          /\ c + Len(chunk') + Len(link') = off[Last] + Len(Written(b))
          /\ \A i \in 1 .. Len(chunk') : Extended(T, off[Last], Written(b))[c + i] = chunk'[i]
          /\ \A i \in 1 .. Len(link') :
                 Extended(T, off[Last], Written(b))[(c + Len(chunk')) + i] = link'[i]
      BY <1>h, <1>1, <2>1, WriteInFlight
    <2>3. U = Extended(T, off[Last], Written(b)) /\ w = Written(b)
      BY <1>w, <1>U, <2>1
    <2>4. QED
      BY <2>1, <2>2, <2>3
  <1>5. /\ T \in [Nat -> Byte] /\ off \in [Nat -> Nat] /\ off[1] = 0
        /\ \A k \in 1 .. n : off[k + 1] = off[k] + HeadLen(k) + BodyLen(k)
        /\ \A j, k \in 1 .. n + 1 : j <= k => off[j] <= off[k]
    BY <1>h, <1>0, <1>2 DEF Layout, Carries, Offsets
  <1>a. /\ w \in Seq(Byte) /\ Len(w) \in Nat /\ off[n + 1] \in Nat
        /\ T \in [Nat -> Byte] /\ off \in [Nat -> Nat]
    BY <1>4, <1>5
  <1>6. /\ U \in [Nat -> Byte] /\ \A i \in 1 .. Len(w) : U[off[n + 1] + i] = w[i]
    BY <1>U, <1>a, ExtendedFacts
  <1>7. Carries(U, off)
    BY <1>U, <1>2, <1>4, CarriesExtended, <1>h DEF Layout
  <1>8. Len(w) = (IF sent'[n + 1].head THEN HEADER_SIZE ELSE 0)
    <2>1. sent'[n + 1].head = Fits(b) /\ Fits(b) \in BOOLEAN
      BY <1>3 DEF Fits
    <2>2. QED
      BY <1>w, <1>1, <2>1 DEF Written
  <1>9. /\ next \in [Nat -> Nat] /\ next[n + 2] = off[n + 1] + Len(w)
        /\ \A k \in 1 .. n + 1 : next[k] = off[k]
    <2>1. n + 2 \in Nat
      OBVIOUS
    <2>2. off[n + 1] + Len(w) \in Nat
      <3>1. \A i, j \in Nat : i + j \in Nat
        OBVIOUS
      <3>2. QED
        BY <1>a, <3>1, Zenon
    <2>3. \A k \in 1 .. n + 1 : k \in Nat /\ k # n + 2
      OBVIOUS
    <2>4. QED
      BY <1>n, <1>a, <2>1, <2>2, <2>3
  <1>10. \A k \in 1 .. n : HeadLen(k)' = HeadLen(k) /\ BodyLen(k)' = BodyLen(k) /\ Pay(k)' = Pay(k)
    BY <1>3 DEF HeadLen, BodyLen, Pay
  <1>11. HeadLen(n + 1)' = Len(w) /\ BodyLen(n + 1)' = 0 /\ Pay(n + 1)' = p /\ Last' = n + 2
    BY <1>3, <1>8 DEF HeadLen, BodyLen, Pay, Last
  <1>12. OnlyLastPends'
    <2>1. \A k \in 1 .. Len(sent') : k \in 1 .. n \/ k = Len(sent')
      BY <1>3
    <2>2. QED
      BY <1>2, <1>3, <2>1 DEF OnlyLastPends
  <1>13. Offsets(next)'
    <2>1. next[1] = 0
      BY <1>5, <1>9
    <2>2. ASSUME NEW k \in 1 .. Len(sent')
          PROVE  next[k + 1] = next[k] + HeadLen(k)' + BodyLen(k)'
      <3>1. CASE k \in 1 .. n
        <4>1. k \in 1 .. n + 1 /\ k + 1 \in 1 .. n + 1
          BY <3>1
        <4>2. QED
          BY <1>5, <1>9, <1>10, <3>1, <4>1
      <3>2. CASE k = n + 1
        <4>1. next[k] = off[n + 1] /\ k + 1 = n + 2
          BY <1>9, <3>2
        <4>2. QED
          BY <1>a, <1>9, <1>11, <3>2, <4>1
      <3>3. QED
        BY <1>3, <3>1, <3>2
    <2>3. ASSUME NEW j \in 1 .. n + 2, NEW k \in 1 .. n + 2, j <= k
          PROVE  next[j] <= next[k]
      <3>1. CASE k \in 1 .. n + 1
        <4>1. j \in 1 .. n + 1
          BY <2>3, <3>1
        <4>2. QED
          BY <1>5, <1>9, <2>3, <3>1, <4>1
      <3>2. CASE k = n + 2 /\ j \in 1 .. n + 1
        <4>1. off[j] <= off[n + 1] /\ off[j] \in Nat
          <5>1. n + 1 \in 1 .. n + 1 /\ j <= n + 1 /\ j \in Nat
            BY <3>2
          <5>2. QED
            BY <1>5, <3>2, <5>1
        <4>2. QED
          BY <1>a, <1>9, <3>2, <4>1
      <3>3. CASE k = n + 2 /\ j = n + 2
        BY <1>4, <1>9, <3>3
      <3>4. QED
        BY <3>1, <3>2, <3>3
    <2>4. QED
      BY <1>9, <1>11, <2>1, <2>2, <2>3 DEF Offsets
  <1>14. Carries(U, next)'
    <2>1. ASSUME NEW k \in 1 .. Len(sent'), sent'[k].head, NEW i \in 1 .. HEADER_SIZE
          PROVE  U[next[k] + i] = Header(Pay(k)')[i]
      <3>1. CASE k \in 1 .. n
        <4>1. sent[k].head /\ k \in 1 .. Len(sent) /\ next[k] = off[k] /\ Pay(k)' = Pay(k)
          BY <1>0, <1>3, <1>9, <1>10, <2>1, <3>1
        <4>2. QED
          BY <1>7, <4>1 DEF Carries
      <3>2. CASE k = n + 1
        <4>1. w = b /\ i \in 1 .. Len(w) /\ next[k] = off[n + 1]
          <5>1. sent'[n + 1].head = Fits(b) /\ Fits(b) \in BOOLEAN
            BY <1>3 DEF Fits
          <5>2. n + 1 \in 1 .. n + 1
            OBVIOUS
          <5>3. QED
            BY <1>w, <1>1, <1>9, <2>1, <3>2, <5>1, <5>2 DEF Written
        <4>2. QED
          BY <1>6, <1>11, <3>2, <4>1
      <3>3. QED
        BY <1>3, <3>1, <3>2
    <2>2. ASSUME NEW k \in 1 .. Len(sent'), sent'[k].body = "in", NEW i \in 1 .. Len(Pay(k)')
          PROVE  U[(next[k] + HeadLen(k)') + i] = Encoded(Pay(k)')[i]
      <3>1. k \in 1 .. n
        BY <1>3, <2>2
      <3>2. /\ sent[k].body = "in" /\ k \in 1 .. Len(sent) /\ next[k] = off[k] /\ Pay(k)' = Pay(k)
            /\ HeadLen(k)' = HeadLen(k) /\ i \in 1 .. Len(Pay(k))
        BY <1>0, <1>3, <1>9, <1>10, <2>2, <3>1
      <3>3. QED
        BY <1>7, <3>2 DEF Carries
    <2>3. QED
      BY <1>6, <2>1, <2>2 DEF Carries, Pay
  <1>15. InFlight(U, next, c)'
    BY <1>4, <1>9, <1>11 DEF InFlight
  <1>16. QED
    BY <1>0, <1>3, <1>4, <1>9, <1>12, <1>13, <1>14, <1>15 DEF Layout

\* A payload goes out: the last frame gets its bytes, or none.
LEMMA SendPayloadLayout ==
    ASSUME AbfInv, NEW T, NEW off, NEW c
    PROVE  Layout(T, off, c) /\ SendPayload =>
             \E n \in Nat \ {0} : \E U, next :
               /\ n = Len(sent) /\ Layout(U, next, c)'
               /\ Len(sent') = n /\ \A k \in 1 .. n - 1 : sent'[k] = sent[k]
               /\ sent[n].body = "pending" /\ sent'[n].body \in {"in", "refused"}
               /\ sent'[n].payload = sent[n].payload /\ sent'[n].head = sent[n].head
               /\ \A k \in 1 .. n : next[k] = off[k]
               /\ next[n + 1] = off[n + 1] + BodyLen(n)'
               /\ c \in Nat /\ off[n + 1] \in Nat /\ c <= off[n + 1]
  <1>h. HAVE Layout(T, off, c) /\ SendPayload
  <1>0. PICK n \in Nat \ {0} : n = Len(sent)
    BY <1>h DEF AbfInv, SendPayload, Sending
  <1>f. /\ Pay(n) \in Payloads /\ Len(Pay(n)) \in 1 .. W - 1
        /\ HeadLen(n) \in Nat /\ sent[n].body = "pending" /\ W \in Nat
    BY <1>h, <1>0, FrameFacts, WAssumption DEF SendPayload, Sending
  <1>w. PICK w : w = Written(Encoded(Pay(n)))
    OBVIOUS
  <1>U. PICK U : U = Extended(T, off[n + 1], w)
    OBVIOUS
  <1>n. PICK next : next = [off EXCEPT ![n + 1] = off[n + 1] + Len(w)]
    OBVIOUS
  <1>1. Encoded(Pay(n)) \in Seq(Byte) /\ Len(Encoded(Pay(n))) = Len(Pay(n))
    BY <1>f, EncodingType, NoZeros
  <1>2. /\ sent \in Seq(Frame) /\ Last = n + 1
        /\ sent' = [sent EXCEPT ![n].body = IF Fits(Encoded(Pay(n))) THEN "in" ELSE "refused"]
    BY <1>h, <1>0 DEF AbfInv, Last, SendPayload, Pay
  <1>3. /\ Len(sent') = n /\ \A k \in 1 .. n - 1 : sent'[k] = sent[k]
        /\ sent'[n].body = (IF Fits(Encoded(Pay(n))) THEN "in" ELSE "refused")
        /\ sent'[n].payload = sent[n].payload /\ sent'[n].head = sent[n].head
    <2>1. sent[n] \in Frame /\ n \in 1 .. Len(sent)
      BY <1>0, <1>2
    <2>2. QED
      BY <1>0, <1>2, <2>1 DEF Frame
  <1>4. /\ w \in Seq(Byte) /\ Len(w) \in Nat /\ c \in Nat /\ off[n + 1] \in Nat /\ c <= off[n + 1]
        /\ c + Len(chunk') + Len(link') = off[n + 1] + Len(w)
        /\ \A i \in 1 .. Len(chunk') : U[c + i] = chunk'[i]
        /\ \A i \in 1 .. Len(link') : U[(c + Len(chunk')) + i] = link'[i]
    <2>1. Writes(Encoded(Pay(n))) /\ chunk' = chunk /\ off[Last] = off[n + 1]
      BY <1>h, <1>0, <1>2 DEF SendPayload, Pay
    <2>2. LET b == Encoded(Pay(n)) IN
          /\ Written(b) \in Seq(Byte) /\ c \in Nat /\ off[Last] \in Nat /\ c <= off[Last]
          /\ c + Len(chunk') + Len(link') = off[Last] + Len(Written(b))
          /\ \A i \in 1 .. Len(chunk') : Extended(T, off[Last], Written(b))[c + i] = chunk'[i]
          /\ \A i \in 1 .. Len(link') :
                 Extended(T, off[Last], Written(b))[(c + Len(chunk')) + i] = link'[i]
      BY <1>h, <1>1, <2>1, WriteInFlight
    <2>3. U = Extended(T, off[Last], Written(Encoded(Pay(n)))) /\ w = Written(Encoded(Pay(n)))
      BY <1>w, <1>U, <2>1
    <2>4. QED
      BY <2>1, <2>2, <2>3
  <1>5. /\ T \in [Nat -> Byte] /\ off \in [Nat -> Nat] /\ off[1] = 0
        /\ \A k \in 1 .. n : off[k + 1] = off[k] + HeadLen(k) + BodyLen(k)
        /\ \A j, k \in 1 .. n + 1 : j <= k => off[j] <= off[k]
    BY <1>h, <1>0, <1>2 DEF Layout, Carries, Offsets
  <1>a. /\ w \in Seq(Byte) /\ Len(w) \in Nat /\ off[n + 1] \in Nat
        /\ T \in [Nat -> Byte] /\ off \in [Nat -> Nat]
    BY <1>4, <1>5
  <1>6. /\ U \in [Nat -> Byte] /\ \A i \in 1 .. Len(w) : U[off[n + 1] + i] = w[i]
    <2>1. ASSUME NEW o \in Nat
          PROVE  /\ Extended(T, o, w) \in [Nat -> Byte]
                 /\ \A i \in 1 .. Len(w) : Extended(T, o, w)[o + i] = w[i]
      BY <1>a, ExtendedFacts, ZenonT(40)
    <2>2. QED
      BY <1>U, <1>a, <2>1
  <1>7. Carries(U, off)
    BY <1>h, <1>U, <1>2, <1>4, CarriesExtended DEF Layout
  <1>8. Len(w) = (IF sent'[n].body = "in" THEN Len(Pay(n)) ELSE 0)
    BY <1>w, <1>1, <1>3 DEF Written
  <1>9. /\ next \in [Nat -> Nat] /\ next[n + 1] = off[n + 1] + Len(w)
        /\ \A k \in 1 .. n : next[k] = off[k]
    <2>1. n + 1 \in Nat
      OBVIOUS
    <2>2. off[n + 1] + Len(w) \in Nat
      BY <1>a, SMTT(30)
    <2>3. \A k \in 1 .. n : k \in Nat /\ k # n + 1
      OBVIOUS
    <2>4. QED
      BY <1>n, <1>a, <2>1, <2>2, <2>3
  <1>10. /\ \A k \in 1 .. n - 1 : BodyLen(k)' = BodyLen(k)
         /\ \A k \in 1 .. n : HeadLen(k)' = HeadLen(k) /\ Pay(k)' = Pay(k)
    <2>1. \A k \in 1 .. n : k \in 1 .. n - 1 \/ k = n
      OBVIOUS
    <2>2. QED
      BY <1>3, <2>1 DEF HeadLen, BodyLen, Pay
  <1>11. BodyLen(n)' = Len(w) /\ BodyLen(n) = 0 /\ Last' = n + 1
    BY <1>f, <1>3, <1>8 DEF BodyLen, Pay, Last
  <1>b. off[n + 1] = off[n] + HeadLen(n) /\ off[n] \in Nat
    <2>1. n \in 1 .. n /\ n \in Nat
      OBVIOUS
    <2>2. off[n + 1] = off[n] + HeadLen(n) + BodyLen(n) /\ off[n] \in Nat
      BY <1>5, <2>1
    <2>3. QED
      BY <1>f, <1>11, <2>2
  <1>12. OnlyLastPends'
    <2>1. \A k \in 1 .. Len(sent') : k \in 1 .. n - 1 \/ k = Len(sent')
      BY <1>3
    <2>2. \A k \in 1 .. n - 1 : k \in 1 .. Len(sent) /\ k # Len(sent)
      BY <1>0
    <2>3. QED
      BY <1>h, <1>3, <2>1, <2>2 DEF Layout, OnlyLastPends
  <1>13. Offsets(next)'
    <2>1. next[1] = 0
      BY <1>5, <1>9
    <2>2. ASSUME NEW k \in 1 .. Len(sent')
          PROVE  next[k + 1] = next[k] + HeadLen(k)' + BodyLen(k)'
      <3>1. CASE k \in 1 .. n - 1
        <4>1. k \in 1 .. n /\ k + 1 \in 1 .. n
          BY <3>1
        <4>2. QED
          BY <1>5, <1>9, <1>10, <3>1, <4>1
      <3>2. CASE k = n
        <4>1. k \in 1 .. n
          BY <3>2
        <4>2. off[n + 1] = off[n] + HeadLen(n) /\ off[n] \in Nat
          BY <1>b
        <4>3. QED
          BY <1>9, <1>10, <1>11, <3>2, <4>1, <4>2
      <3>3. QED
        BY <1>3, <3>1, <3>2
    <2>3. ASSUME NEW j \in 1 .. n + 1, NEW k \in 1 .. n + 1, j <= k
          PROVE  next[j] <= next[k]
      <3>1. CASE k \in 1 .. n
        <4>1. j \in 1 .. n /\ j \in 1 .. n + 1
          BY <2>3, <3>1
        <4>2. QED
          BY <1>5, <1>9, <2>3, <3>1, <4>1
      <3>2. CASE k = n + 1 /\ j \in 1 .. n
        <4>1. off[j] <= off[n + 1] /\ off[j] \in Nat
          <5>1. n + 1 \in 1 .. n + 1 /\ j <= n + 1 /\ j \in Nat
            BY <3>2
          <5>2. QED
            BY <1>5, <3>2, <5>1
        <4>2. QED
          BY <1>a, <1>9, <3>2, <4>1
      <3>3. CASE k = n + 1 /\ j = n + 1
        <4>1. next[k] \in Nat
          BY <1>9, SMTT(30)
        <4>2. QED
          BY <3>3, <4>1
      <3>4. QED
        BY <3>1, <3>2, <3>3
    <2>4. Last' = n + 1
      BY <1>11
    <2>5. QED
      BY <1>9, <2>1, <2>2, <2>3, <2>4 DEF Offsets
  <1>14. Carries(U, next)'
    <2>1. ASSUME NEW k \in 1 .. Len(sent'), sent'[k].head, NEW i \in 1 .. HEADER_SIZE
          PROVE  U[next[k] + i] = Header(Pay(k)')[i]
      <3>1. k \in 1 .. n /\ (k \in 1 .. n - 1 \/ k = n)
        BY <1>3
      <3>2. sent[k].head /\ k \in 1 .. Len(sent) /\ next[k] = off[k] /\ Pay(k)' = Pay(k)
        BY <1>0, <1>3, <1>9, <1>10, <2>1, <3>1
      <3>3. QED
        BY <1>7, <3>2 DEF Carries
    <2>2. ASSUME NEW k \in 1 .. Len(sent'), sent'[k].body = "in", NEW i \in 1 .. Len(Pay(k)')
          PROVE  U[(next[k] + HeadLen(k)') + i] = Encoded(Pay(k)')[i]
      <3>1. CASE k \in 1 .. n - 1
        <4>1. k \in 1 .. n /\ k \in 1 .. Len(sent)
          BY <1>0, <3>1
        <4>2. /\ sent[k].body = "in" /\ next[k] = off[k] /\ Pay(k)' = Pay(k)
              /\ HeadLen(k)' = HeadLen(k) /\ i \in 1 .. Len(Pay(k))
          BY <1>3, <1>9, <1>10, <2>2, <3>1, <4>1
        <4>3. QED
          BY <1>7, <4>1, <4>2 DEF Carries
      <3>2. CASE k = n
        <4>1. k \in 1 .. n
          BY <3>2
        <4>2. Pay(k)' = Pay(n) /\ HeadLen(k)' = HeadLen(n) /\ next[k] = off[n] /\ off[n] \in Nat
          BY <1>5, <1>9, <1>10, <3>2, <4>1
        <4>3. off[n + 1] = off[n] + HeadLen(n)
          BY <1>b
        <4>4. w = Encoded(Pay(n)) /\ i \in 1 .. Len(w)
          BY <1>w, <1>1, <1>3, <2>2, <3>2, <4>2 DEF Written
        <4>5. QED
          BY <1>6, <4>2, <4>3, <4>4
      <3>3. QED
        BY <1>3, <3>1, <3>2
    <2>3. QED
      BY <1>6, <2>1, <2>2 DEF Carries, Pay
  <1>15. InFlight(U, next, c)'
    BY <1>4, <1>9, <1>11 DEF InFlight
  <1>16. Layout(U, next, c)'
    BY <1>12, <1>13, <1>14, <1>15 DEF Layout
  <1>17. QED
    BY <1>0, <1>f, <1>3, <1>4, <1>9, <1>11, <1>16

----------------------------------------------------------------------------
\* What the decoder does with a byte of a frame.

\* The decoder has read r bytes of the frame of p, its header first.
Reading(p, r) ==
    IF r < HEADER_SIZE
    THEN /\ state = "READ_HEADER" /\ headerPos = r
         /\ \A j \in 0 .. r - 1 : header[j] = Header(p)[j + 1]
    ELSE /\ state = "READ_PAYLOAD" /\ rxPos = r - HEADER_SIZE /\ rxPos < Len(p)
         /\ header[2] = Len(p) /\ nextZero = Distance(p, rxPos) % W
         /\ \A j \in 0 .. rxPos - 1 : mem[j] = p[j + 1]

\* The calls of onFrame and onError that a step makes.
NoFrame == delivered' = delivered
SomeFrame == \E x : delivered' = Append(delivered, x)
NoError == errors' = errors

\* Between frames a byte starts one, or is skipped.
LEMMA HuntStep ==
    ASSUME AbfInv, ~Shared, Process, state = "HUNT_SYNC"
    PROVE  /\ NoFrame /\ NoError
           /\ Head(chunk) # 0 => state' = "HUNT_SYNC"
           /\ Head(chunk) = 0 => \A p \in Payloads : Reading(p, 1)'
  <1>1. HuntSync
    BY DEF Process, HuntSync, HeaderByte, HeaderEnd, StoreByte, Incomplete, BufferSmall, EmptyFrame
  <1>2. NoFrame /\ NoError /\ (Head(chunk) # 0 => state' = "HUNT_SYNC")
    BY <1>1 DEF HuntSync, Data, NoFrame, NoError
  <1>3. ASSUME Head(chunk) = 0, NEW p \in Payloads PROVE Reading(p, 1)'
    <2>1. state' = "READ_HEADER" /\ headerPos' = 1 /\ header'[0] = 0
      BY <1>1, <1>3 DEF HuntSync, Data, AbfInv, AbfTypeOK
    <2>2. Header(p)[1] = 0
      BY NoZeros
    <2>3. \A j \in 0 .. 1 - 1 : j = 0
      OBVIOUS
    <2>4. QED
      BY <2>1, <2>2, <2>3 DEF Reading
  <1>4. QED
    BY <1>2, <1>3

\* In a payload that is not there: a zero ends it, another byte may.
LEMMA StrayStep ==
    ASSUME AbfInv, ~Shared, Process, state = "READ_PAYLOAD"
    PROVE  /\ NoFrame \/ SomeFrame
           /\ Head(chunk) = 0 => state' = "HUNT_SYNC"
           /\ state' \in {"HUNT_SYNC", "READ_PAYLOAD"}
  <1>1. StoreByte \/ Incomplete \/ BufferSmall \/ EmptyFrame
    BY DEF Process, HuntSync, HeaderByte, HeaderEnd, StoreByte, Incomplete, BufferSmall, EmptyFrame
  <1>2. CASE StoreByte
    BY <1>2 DEF StoreByte, Ends, Reset, NextByte, Data, NoFrame, SomeFrame
  <1>3. CASE Incomplete
    BY <1>3 DEF Incomplete, Ends, Reset, NoFrame, SomeFrame
  <1>4. CASE BufferSmall
    BY <1>4 DEF BufferSmall, Reset, NoFrame
  <1>5. CASE EmptyFrame
    BY <1>5 DEF EmptyFrame, Reset, SomeFrame
  <1>6. QED
    BY <1>1, <1>2, <1>3, <1>4, <1>5

\* A byte of the header.
LEMMA HeaderStep ==
    ASSUME AbfInv, ~Shared, Process, NEW p \in Payloads, NEW r \in 1 .. HEADER_SIZE - 1,
           Reading(p, r), Head(chunk) = Header(p)[r + 1]
    PROVE  NoFrame /\ NoError /\ Reading(p, r + 1)'
  <1>1. /\ state = "READ_HEADER" /\ headerPos = r
        /\ \A j \in 0 .. r - 1 : header[j] = Header(p)[j + 1]
    BY DEF Reading
  <1>2. HeaderByte \/ HeaderEnd
    BY <1>1 DEF Process, HuntSync, HeaderByte, HeaderEnd, StoreByte, Incomplete, BufferSmall, EmptyFrame
  <1>3. header \in [0 .. HEADER_SIZE - 1 -> Byte] /\ r \in 0 .. HEADER_SIZE - 1
    BY DEF AbfInv, AbfTypeOK
  <1>4. header' = [header EXCEPT ![r] = Header(p)[r + 1]]
    BY <1>1, <1>2 DEF HeaderByte, HeaderEnd, Data
  <1>5. \A j \in 0 .. r : header'[j] = Header(p)[j + 1]
    <2>1. \A j \in 0 .. r : j \in 0 .. HEADER_SIZE - 1 /\ (j = r \/ j \in 0 .. r - 1)
      OBVIOUS
    <2>2. QED
      BY <1>1, <1>3, <1>4, <2>1
  <1>6. CASE HeaderByte
    <2>1. r + 1 < HEADER_SIZE /\ (r + 1) - 1 = r
      BY <1>1, <1>6 DEF HeaderByte
    <2>2. state' = "READ_HEADER" /\ headerPos' = r + 1 /\ NoFrame /\ NoError
      BY <1>1, <1>6 DEF HeaderByte, NoFrame, NoError
    <2>3. QED
      BY <1>5, <2>1, <2>2 DEF Reading
  <1>7. CASE HeaderEnd
    <2>1. r = 4
      BY <1>1, <1>7 DEF HeaderEnd
    <2>2. /\ header[1] = Header(p)[2] /\ header[2] = Header(p)[3] /\ header[3] = Header(p)[4]
          /\ Head(chunk) = Header(p)[5]
      BY <1>1, <2>1
    <2>3. Head(chunk) = Crc(header[1], header[2], header[3])
      BY <2>2, NoZeros
    <2>4. state' = "READ_PAYLOAD" /\ rxPos' = 0 /\ nextZero' = header[3] /\ NoFrame /\ NoError
      BY <1>7, <2>3 DEF HeaderEnd, Data, NoFrame, NoError
    <2>5. header'[2] = Len(p) /\ nextZero' = Distance(p, 0) % W
      BY <1>5, <2>1, <2>2, <2>4, NoZeros DEF Code
    <2>6. 0 < Len(p)
      BY PayloadsAssumption, WAssumption
    <2>7. QED
      BY <2>1, <2>4, <2>5, <2>6 DEF Reading
  <1>8. QED
    BY <1>2, <1>6, <1>7

\* A byte of the payload, while the buffer has room: the last one delivers it.
LEMMA PayloadStep ==
    ASSUME AbfInv, ~Shared, Process, NEW p \in Payloads, NEW q \in 0 .. Len(p) - 1,
           Reading(p, HEADER_SIZE + q), Head(chunk) = Encoded(p)[q + 1], q < capacity
    PROVE  /\ NoError
           /\ q + 1 = Len(p) => state' = "HUNT_SYNC" /\ delivered' = Append(delivered, p)
           /\ q + 1 # Len(p) => NoFrame /\ Reading(p, HEADER_SIZE + (q + 1))'
  <1>0. p \in Seq(Byte) /\ Len(p) \in 1 .. W - 1 /\ W \in Nat /\ W > 2 /\ capacity \in Nat
    BY PayloadsAssumption, WAssumption, CapacitiesAssumption DEF AbfInv, AbfTypeOK
  <1>1. /\ state = "READ_PAYLOAD" /\ rxPos = q /\ q < Len(p)
        /\ header[2] = Len(p) /\ nextZero = Distance(p, q) % W
        /\ \A j \in 0 .. q - 1 : mem[j] = p[j + 1]
    <2>1. ~ (HEADER_SIZE + q < HEADER_SIZE) /\ (HEADER_SIZE + q) - HEADER_SIZE = q
      BY <1>0
    <2>2. QED
      BY <2>1 DEF Reading
  <1>2. Head(chunk) # 0
    <2>1. q + 1 \in 1 .. Len(p)
      BY <1>0
    <2>2. QED
      BY <2>1, NoZeros
  <1>3. StoreByte
    BY <1>0, <1>1, <1>2 DEF Process, HuntSync, HeaderByte, HeaderEnd, StoreByte, Incomplete, BufferSmall, EmptyFrame, Data
  <1>4. Store(q, Head(chunk)) /\ Ends(q + 1) /\ NoError /\ header' = header
    BY <1>1, <1>3 DEF StoreByte, Data, NoError
  <1>5. mem \in [0 .. capacity - 1 -> Byte] /\ q \in 0 .. capacity - 1
    BY <1>0 DEF AbfInv, AbfTypeOK
  <1>6. /\ mem' = [mem EXCEPT ![q] = p[q + 1]]
        /\ nextZero' = Distance(p, q + 1) % W
    <2>1. CASE nextZero = 1
      <3>1. p[q + 1] = 0 /\ Encoded(p)[q + 1] = Distance(p, q + 1) % W
        BY <1>1, <2>1, DecodeStep
      <3>2. QED
        BY <1>4, <2>1, <3>1 DEF Store, Data
    <2>2. CASE nextZero # 1
      <3>1. p[q + 1] = Encoded(p)[q + 1] /\ (nextZero - 1) % W = Distance(p, q + 1) % W
        BY <1>1, <2>2, DecodeStep
      <3>2. QED
        BY <1>4, <2>2, <3>1 DEF Store, Countdown
    <2>3. QED
      BY <2>1, <2>2
  <1>7. \A j \in 0 .. q : mem'[j] = p[j + 1]
    <2>1. \A j \in 0 .. q : j \in 0 .. capacity - 1 /\ (j = q \/ j \in 0 .. q - 1)
      BY <1>0, <1>5
    <2>2. QED
      BY <1>1, <1>5, <1>6, <2>1
  <1>8. CASE q + 1 = Len(p)
    <2>1. state' = "HUNT_SYNC" /\ delivered' = Append(delivered, [i \in 1 .. q + 1 |-> mem'[i - 1]])
      BY <1>1, <1>4, <1>8 DEF Ends, Reset
    <2>2. [i \in 1 .. q + 1 |-> mem'[i - 1]] = p
      <3>1. \A i \in 1 .. q + 1 : mem'[i - 1] = p[i]
        <4>1. \A i \in 1 .. q + 1 : i - 1 \in 0 .. q /\ (i - 1) + 1 = i
          OBVIOUS
        <4>2. QED
          BY <1>7, <4>1
      <3>2. p = [i \in 1 .. Len(p) |-> p[i]]
        BY <1>0
      <3>3. QED
        BY <1>8, <3>1, <3>2
    <2>3. QED
      BY <1>4, <1>8, <2>1, <2>2
  <1>9. CASE q + 1 # Len(p)
    <2>1. state' = "READ_PAYLOAD" /\ rxPos' = q + 1 /\ NoFrame
      BY <1>1, <1>3, <1>4, <1>9 DEF StoreByte, Ends, NoFrame
    <2>2. /\ q + 1 < Len(p) /\ (q + 1) - 1 = q
          /\ ~ (HEADER_SIZE + (q + 1) < HEADER_SIZE) /\ (HEADER_SIZE + (q + 1)) - HEADER_SIZE = q + 1
      BY <1>0, <1>9
    <2>3. Reading(p, HEADER_SIZE + (q + 1))'
      BY <1>1, <1>4, <1>6, <1>7, <2>1, <2>2 DEF Reading
    <2>4. QED
      BY <1>4, <1>9, <2>1, <2>3
  <1>10. QED
    BY <1>8, <1>9

\* A byte of the payload when the buffer is full: the frame is given up.
LEMMA FullStep ==
    ASSUME AbfInv, ~Shared, Process, NEW p \in Payloads, NEW q \in 0 .. Len(p) - 1,
           Reading(p, HEADER_SIZE + q), Head(chunk) = Encoded(p)[q + 1], q >= capacity
    PROVE  NoFrame /\ errors' = errors + 1 /\ state' = "HUNT_SYNC"
  <1>0. p \in Seq(Byte) /\ Len(p) \in 1 .. W - 1 /\ capacity \in Nat
    BY PayloadsAssumption, WAssumption, CapacitiesAssumption DEF AbfInv, AbfTypeOK
  <1>1. state = "READ_PAYLOAD" /\ rxPos = q /\ q < Len(p) /\ header[2] = Len(p)
    <2>1. ~ (HEADER_SIZE + q < HEADER_SIZE) /\ (HEADER_SIZE + q) - HEADER_SIZE = q
      BY <1>0
    <2>2. QED
      BY <2>1 DEF Reading
  <1>2. Head(chunk) # 0
    <2>1. q + 1 \in 1 .. Len(p)
      BY <1>0
    <2>2. QED
      BY <2>1, NoZeros
  <1>3. BufferSmall
    BY <1>0, <1>1, <1>2 DEF Process, HuntSync, HeaderByte, HeaderEnd, StoreByte, Incomplete, BufferSmall, EmptyFrame, Data
  <1>4. QED
    BY <1>3 DEF BufferSmall, Reset, NoFrame

\* No write was refused, or no header has a zero where its code is.
Regular == AllAccepted \/ \A k \in 1 .. Len(sent) : Code(Pay(k)) # 0

Between == state \in {"HUNT_SYNC", "READ_PAYLOAD"}

\* The decoder looks for a sync byte through the rest of frame k: its start was
\* lost, or it is too long.
Skips(off, c, k) ==
    /\ state = "HUNT_SYNC"
    /\ CleanStart(k) => ~Held(k) /\ c > off[k] + HEADER_SIZE + capacity

\* Where the decoder is inside frame k.
Within(off, c, k) ==
    IF sent[k].head THEN Reading(Pay(k), c - off[k]) \/ Skips(off, c, k) ELSE Between

\* Frame k has begun, and has bytes to come.
Unfinished(off, c, k) ==
    /\ off[k] < c
    /\ c < off[k + 1] \/ (c = off[k + 1] /\ sent[k].body = "pending")

\* After a frame that got in whole the decoder looks for a sync byte.
Boundary(off, c) ==
    \A k \in 1 .. Last : c = off[k] => Between /\ (CleanStart(k) => state = "HUNT_SYNC")

Tracks(off, c) ==
    /\ Boundary(off, c)
    /\ \A k \in 1 .. Len(sent) : Unfinished(off, c, k) => Within(off, c, k)

\* What a byte of frame k does.
Outcome(off, c, k) ==
    /\ IF Unfinished(off, c + 1, k) THEN Within(off, c + 1, k)'
       ELSE Between' /\ (Accepted(k) => state' = "HUNT_SYNC")
    /\ NoFrame \/ SomeFrame
    /\ CleanStart(k) /\ sent[k].head /\ sent[k].body # "refused" =>
           /\ IF Accepted(k) /\ Held(k) /\ c + 1 = off[k + 1]
              THEN delivered' = Append(delivered, Pay(k)) ELSE NoFrame
           /\ errors' = IF c = off[k] + HEADER_SIZE + capacity THEN errors + 1 ELSE errors

\* A decoder that skips the start of a frame meets no zero there.
LEMMA SkippedHeader ==
    ASSUME AbfInv, NEW k \in 1 .. Len(sent), OnlyLastPends, Regular, ~CleanStart(k)
    PROVE  Code(Pay(k)) # 0
  <1>1. ~AllAccepted
    <2>1. SUFFICES ASSUME AllAccepted PROVE FALSE
      OBVIOUS
    <2>2. k # 1 /\ k - 1 \in 1 .. Len(sent) /\ k - 1 # Len(sent)
      BY DEF CleanStart, AbfInv
    <2>3. sent[k - 1].head /\ sent[k - 1].body = "in"
      BY <2>1, <2>2, FrameFacts DEF AllAccepted, OnlyLastPends
    <2>4. QED
      BY <2>3 DEF CleanStart, Accepted
  <1>2. QED
    BY <1>1 DEF Regular

\* A byte of frame k, wherever the decoder is inside the frame.
LEMMA FrameStep ==
    ASSUME AbfInv, ~Shared, NEW T, NEW off, NEW c, NEW k \in 1 .. Len(sent)
    PROVE  Layout(T, off, c) /\ Tracks(off, c) /\ Regular /\ Process /\ off[k] <= c /\ c < off[k + 1]
             => Outcome(off, c, k)
  <1>h. HAVE Layout(T, off, c) /\ Tracks(off, c) /\ Regular /\ Process /\ off[k] <= c /\ c < off[k + 1]
  <1>p. PICK p \in Payloads : p = Pay(k)
    BY FrameFacts
  <1>0. /\ Len(p) \in 1 .. W - 1 /\ W \in Nat /\ capacity \in Nat \ {0}
        /\ sent[k].head \in BOOLEAN /\ sent[k].body \in {"pending", "in", "refused"}
    BY <1>p, FrameFacts, WAssumption, CapacitiesAssumption, SMTT(30) DEF AbfInv, AbfTypeOK
  <1>b. PICK b : b = BodyLen(k)
    OBVIOUS
  <1>1. b = (IF sent[k].body = "in" THEN Len(p) ELSE 0) /\ b \in Nat
    BY <1>p, <1>b, <1>0 DEF BodyLen
  <1>g. PICK h : h = HeadLen(k)
    OBVIOUS
  <1>2. h = (IF sent[k].head THEN 5 ELSE 0) /\ h \in Nat
    BY <1>g, <1>0 DEF HeadLen
  <1>3. c \in Nat /\ off[k] \in Nat /\ off[k + 1] \in Nat
    <2>1. off \in [Nat -> Nat] /\ c \in Nat
      BY <1>h DEF Layout, Offsets, InFlight
    <2>2. k \in Nat /\ k + 1 \in Nat
      OBVIOUS
    <2>3. QED
      BY <2>1, <2>2
  <1>o. PICK o \in Nat : o = off[k]
    BY <1>3
  <1>e. PICK e \in Nat : e = off[k + 1]
    BY <1>3
  <1>r. PICK r \in Nat : c = o + r
    <2>1. o <= c
      BY <1>h, <1>o
    <2>2. c - o \in Nat /\ c = o + (c - o)
      BY <1>3, <2>1
    <2>3. QED
      BY <2>2
  <1>i. b \in Nat /\ h \in Nat /\ capacity \in Nat
    BY <1>0, <1>1, <1>2
  <1>4. e = o + h + b /\ r < h + b
    <2>1. off[k + 1] = off[k] + h + b
      BY <1>h, <1>b, <1>g DEF Layout, Offsets
    <2>2. e = o + h + b
      BY <1>o, <1>e, <2>1
    <2>3. c < e
      BY <1>h, <1>e
    <2>4. r < h + b
      BY <1>r, <1>i, <2>2, <2>3
    <2>5. QED
      BY <2>2, <2>4
  <1>5. NextByte
    BY <1>h DEF Process, HuntSync, HeaderByte, HeaderEnd, StoreByte, Incomplete, BufferSmall, EmptyFrame
  <1>6. Head(chunk) = T[c + 1]
    BY <1>h, <1>5, NextByteLayout
  <1>7. sent' = sent /\ capacity' = capacity
    BY <1>5 DEF NextByte
  \* Where the decoder is.
  <1>8. /\ r = 0 => Between /\ (CleanStart(k) => state = "HUNT_SYNC")
        /\ r > 0 /\ ~sent[k].head => Between
        /\ r > 0 /\ sent[k].head => Reading(p, r) \/ Skips(off, c, k)
    <2>1. ASSUME r = 0 PROVE Between /\ (CleanStart(k) => state = "HUNT_SYNC")
      <3>1. c = off[k] /\ k \in 1 .. Last
        BY <1>o, <1>r, <2>1 DEF Last, AbfInv
      <3>2. QED
        BY <1>h, <3>1 DEF Tracks, Boundary
    <2>2. ASSUME r > 0 PROVE Within(off, c, k)
      <3>1. off[k] < c /\ c < off[k + 1]
        BY <1>h, <1>o, <1>r, <2>2
      <3>2. QED
        BY <1>h, <3>1 DEF Tracks, Unfinished
    <2>3. c - off[k] = r
      BY <1>o, <1>r
    <2>4. QED
      BY <1>p, <2>1, <2>2, <2>3 DEF Within
  <1>9. Unfinished(off, c + 1, k) <=> r + 1 < h + b \/ (r + 1 = h + b /\ sent[k].body = "pending")
    <2>1. o < c + 1
      BY <1>r
    <2>2. c + 1 < e <=> r + 1 < h + b
      BY <1>r, <1>4, <1>i
    <2>3. c + 1 = e <=> r + 1 = h + b
      BY <1>r, <1>4, <1>i
    <2>4. QED
      BY <1>o, <1>e, <2>1, <2>2, <2>3 DEF Unfinished
  <1>10. Within(off, c + 1, k)' <=>
            IF sent[k].head
            THEN \/ Reading(p, r + 1)'
                 \/ state' = "HUNT_SYNC" /\ (CleanStart(k) => ~Held(k) /\ r + 1 > 5 + capacity)
            ELSE Between'
    <2>0. (c + 1) - o = r + 1
      BY <1>r
    <2>a. c + 1 > o + 5 + capacity <=> r + 1 > 5 + capacity
      BY <1>r, <1>i
    <2>1. (c + 1) - off[k] = r + 1 /\ (c + 1 > off[k] + 5 + capacity <=> r + 1 > 5 + capacity)
      BY <1>o, <2>0, <2>a
    <2>2. Reading(Pay(k), (c + 1) - off[k])' <=> Reading(p, r + 1)'
      BY <1>p, <1>7, <2>1 DEF Reading, Pay
    <2>3. Skips(off, c + 1, k)' <=>
             state' = "HUNT_SYNC" /\ (CleanStart(k) => ~Held(k) /\ r + 1 > 5 + capacity)
      BY <1>7, <2>1 DEF Skips, CleanStart, Accepted, Held
    <2>4. QED
      BY <1>7, <2>2, <2>3 DEF Within, Between
  <1>11. (Accepted(k) <=> sent[k].head /\ sent[k].body = "in") /\ (Held(k) <=> Len(p) <= capacity)
    BY <1>p DEF Accepted, Held, Pay
  <1>12. (c + 1 = off[k + 1] <=> r + 1 = h + b) /\ (c = off[k] + 5 + capacity <=> r = 5 + capacity)
    <2>1. c + 1 = e <=> r + 1 = h + b
      BY <1>r, <1>4, <1>i
    <2>2. c = o + 5 + capacity <=> r = 5 + capacity
      BY <1>r, <1>i
    <2>3. QED
      BY <1>o, <1>e, <2>1, <2>2
  \* What is to be shown, without the offsets.
  <1>13. SUFFICES
            /\ IF r + 1 < h + b \/ (r + 1 = h + b /\ sent[k].body = "pending")
               THEN IF sent[k].head
                    THEN \/ Reading(p, r + 1)'
                         \/ state' = "HUNT_SYNC" /\ (CleanStart(k) => ~Held(k) /\ r + 1 > 5 + capacity)
                    ELSE Between'
               ELSE Between' /\ (Accepted(k) => state' = "HUNT_SYNC")
            /\ NoFrame \/ SomeFrame
            /\ CleanStart(k) /\ sent[k].head /\ sent[k].body # "refused" =>
                  /\ IF Accepted(k) /\ Held(k) /\ r + 1 = h + b
                     THEN delivered' = Append(delivered, p) ELSE NoFrame
                  /\ errors' = IF r = 5 + capacity THEN errors + 1 ELSE errors
    BY <1>p, <1>9, <1>10, <1>12 DEF Outcome
  <1>14. CASE ~sent[k].head
    <2>1. Between
      BY <1>8, <1>14
    <2>2. Between' /\ (NoFrame \/ SomeFrame)
      <3>1. T[c + 1] # 0
        <4>1. sent[k].body = "in" /\ HeadLen(k) = 0 /\ r + 1 \in 1 .. Len(p)
          BY <1>14, <1>0, <1>1, <1>2, <1>4, <1>g
        <4>2. c + 1 = (off[k] + HeadLen(k)) + (r + 1)
          BY <1>o, <1>r, <4>1, SMTT(30)
        <4>3. T[c + 1] = Encoded(p)[r + 1]
          BY <1>h, <1>p, <4>1, <4>2 DEF Layout, Carries
        <4>4. QED
          BY <4>1, <4>3, NoZeros
      <3>2. CASE state = "HUNT_SYNC"
        BY <1>h, <1>6, <3>1, <3>2, HuntStep DEF Between
      <3>3. CASE state = "READ_PAYLOAD"
        BY <1>h, <3>3, StrayStep DEF Between
      <3>4. QED
        BY <2>1, <3>2, <3>3 DEF Between
    <2>3. QED
      BY <1>11, <1>14, <2>2
  <1>15. CASE sent[k].head /\ r < 5
    <2>1. h = 5 /\ T[c + 1] = Header(p)[r + 1]
      <3>1. r + 1 \in 1 .. HEADER_SIZE /\ c + 1 = off[k] + (r + 1)
        BY <1>o, <1>r, <1>15, SMTT(30)
      <3>2. QED
        BY <1>h, <1>p, <1>2, <1>15, <3>1 DEF Layout, Carries
    <2>2. r + 1 < 5 => r + 1 < h + b
      BY <1>1, <2>1
    <2>3. r # 5 + capacity
      BY <1>0, <1>15
    <2>4. Accepted(k) => r + 1 < h + b
      BY <1>0, <1>1, <1>11, <1>15, <2>1
    <2>5. SUFFICES /\ NoFrame \/ SomeFrame
                   /\ \/ Reading(p, r + 1)' /\ NoFrame /\ NoError
                      \/ state' = "HUNT_SYNC" /\ ~CleanStart(k)
      <3>1. CASE Reading(p, r + 1)' /\ NoFrame /\ NoError
        <4>1. ~ (r + 1 < h + b) => Between'
          <5>1. ~ (r + 1 < h + b) => r + 1 = 5
            BY <1>15, <2>2
          <5>2. QED
            BY <3>1, <5>1 DEF Reading, Between
        <4>2. QED
          BY <1>15, <2>3, <2>4, <3>1, <4>1 DEF NoError
      <3>2. CASE state' = "HUNT_SYNC" /\ ~CleanStart(k)
        BY <1>15, <2>5, <3>2 DEF Between
      <3>3. QED
        BY <2>5, <3>1, <3>2
    <2>6. CASE r = 0
      <3>1. Head(chunk) = 0
        BY <1>6, <2>1, <2>6, NoZeros
      <3>2. CASE state = "HUNT_SYNC"
        BY <1>h, <2>6, <3>1, <3>2, HuntStep
      <3>3. CASE state = "READ_PAYLOAD"
        BY <1>h, <1>8, <2>6, <3>1, <3>3, StrayStep
      <3>4. QED
        BY <1>8, <2>6, <3>2, <3>3 DEF Between
    <2>7. CASE r > 0 /\ Reading(p, r)
      <3>1. r \in 1 .. HEADER_SIZE - 1
        BY <1>15, <2>7
      <3>2. QED
        BY <1>h, <1>6, <2>1, <2>7, <3>1, HeaderStep
    <2>8. CASE r > 0 /\ Skips(off, c, k)
      <3>1. state = "HUNT_SYNC" /\ ~CleanStart(k)
        <4>1. ~ (c > off[k] + 5 + capacity)
          BY <1>o, <1>r, <1>0, <1>15, SMTT(30)
        <4>2. QED
          BY <2>8, <4>1 DEF Skips
      <3>2. Code(p) # 0
        BY <1>h, <1>p, <3>1, SkippedHeader DEF Layout
      <3>3. Head(chunk) # 0
        <4>1. r + 1 \in 2 .. HEADER_SIZE
          BY <1>15, <2>8
        <4>2. QED
          BY <1>6, <2>1, <3>2, <4>1, NoZeros
      <3>4. QED
        BY <1>h, <3>1, <3>3, HuntStep
    <2>9. QED
      BY <1>8, <1>15, <2>6, <2>7, <2>8
  <1>16. CASE sent[k].head /\ r >= 5
    <2>q. PICK q \in Nat : r = HEADER_SIZE + q
      <3>1. r - 5 \in Nat /\ r = 5 + (r - 5)
        BY <1>16
      <3>2. QED
        BY <3>1
    <2>1. h = 5 /\ sent[k].body = "in" /\ b = Len(p) /\ q \in 0 .. Len(p) - 1
      BY <1>0, <1>1, <1>2, <1>4, <1>16, <2>q
    <2>2. T[c + 1] = Encoded(p)[q + 1] /\ Head(chunk) # 0
      <3>1. q + 1 \in 1 .. Len(p) /\ HeadLen(k) = 5
        BY <1>0, <1>g, <2>1
      <3>2. c + 1 = (off[k] + HeadLen(k)) + (q + 1)
        <4>1. c + 1 = (o + 5) + (q + 1)
          BY <1>r, <2>q
        <4>2. QED
          BY <1>o, <3>1, <4>1
      <3>3. T[c + 1] = Encoded(p)[q + 1]
        BY <1>h, <1>p, <2>1, <3>1, <3>2 DEF Layout, Carries
      <3>4. QED
        BY <1>6, <3>1, <3>3, NoZeros
    <2>3. (r + 1 = h + b <=> q + 1 = Len(p)) /\ (r + 1 < h + b <=> q + 1 # Len(p)) /\ (r = 5 + capacity <=> q = capacity)
      BY <1>0, <2>1, <2>q
    <2>4. CASE Reading(p, r) /\ q < capacity
      <3>1. /\ NoError
            /\ q + 1 = Len(p) => state' = "HUNT_SYNC" /\ delivered' = Append(delivered, p)
            /\ q + 1 # Len(p) => NoFrame /\ Reading(p, HEADER_SIZE + (q + 1))'
        BY <1>h, <1>6, <2>1, <2>2, <2>4, <2>q, PayloadStep
      <3>2. HEADER_SIZE + (q + 1) = r + 1 /\ q # capacity /\ (q + 1 = Len(p) => Len(p) <= capacity)
        BY <1>0, <2>4, <2>q
      <3>3. QED
        BY <1>11, <1>16, <2>1, <2>3, <3>1, <3>2 DEF NoError, SomeFrame, Between
    <2>5. CASE Reading(p, r) /\ q >= capacity
      <3>1. NoFrame /\ errors' = errors + 1 /\ state' = "HUNT_SYNC"
        BY <1>h, <1>6, <2>1, <2>2, <2>5, <2>q, FullStep
      <3>2. q = capacity /\ ~ (Len(p) <= capacity) /\ r + 1 > 5 + capacity
        <4>1. rxPos = q /\ rxPos \in 0 .. capacity
          BY <1>16, <2>5, <2>q DEF Reading, AbfInv, AbfTypeOK
        <4>2. QED
          BY <1>0, <2>1, <2>5, <2>q, <4>1
      <3>3. QED
        BY <1>11, <1>16, <2>3, <3>1, <3>2 DEF Between
    <2>6. CASE Skips(off, c, k)
      <3>1. state = "HUNT_SYNC" /\ (CleanStart(k) => ~Held(k) /\ r > 5 + capacity)
        <4>1. c > off[k] + 5 + capacity <=> r > 5 + capacity
          BY <1>o, <1>r, <1>0, SMTT(30)
        <4>2. QED
          BY <2>6, <4>1 DEF Skips
      <3>2. state' = "HUNT_SYNC" /\ NoFrame /\ NoError
        BY <1>h, <2>2, <3>1, HuntStep
      <3>3. r > 5 + capacity => r + 1 > 5 + capacity /\ r # 5 + capacity
        BY <1>0
      <3>4. QED
        BY <1>11, <1>16, <3>1, <3>2, <3>3 DEF NoError, Between
    <2>7. QED
      BY <1>8, <1>0, <1>16, <2>q, <2>4, <2>5, <2>6
  <1>17. QED
    BY <1>14, <1>15, <1>16

----------------------------------------------------------------------------
\* How many of the frames the buffer holds.

\* Of one frame more, one more is held if that one is.
LEMMA HeldCount ==
    ASSUME NEW m \in Nat
    PROVE  /\ HeldUpTo(0) = 0 /\ HeldUpTo(m) \in Nat
           /\ HeldUpTo(m + 1) = HeldUpTo(m) + (IF Held(m + 1) THEN 1 ELSE 0)
  <1> DEFINE S == {k \in 1 .. m : Held(k)}
             R == {k \in 1 .. m + 1 : Held(k)}
  <1>1. IsFiniteSet(S) /\ Cardinality(S) \in Nat
    <2>1. IsFiniteSet(1 .. m)
      BY FS_Interval
    <2>2. S \subseteq 1 .. m
      OBVIOUS
    <2>3. QED
      BY <2>1, <2>2, FS_Subset, FS_CardinalityType
  <1>2. HeldUpTo(0) = 0
    <2>1. {k \in 1 .. 0 : Held(k)} = {}
      OBVIOUS
    <2>2. QED
      BY <2>1, FS_EmptySet DEF HeldUpTo
  <1>3. CASE Held(m + 1)
    <2>1. R = S \cup {m + 1} /\ m + 1 \notin S
      BY <1>3
    <2>2. Cardinality(S \cup {m + 1}) = Cardinality(S) + 1
      BY <1>1, <2>1, FS_AddElement
    <2>3. QED
      BY <1>1, <1>2, <1>3, <2>1, <2>2 DEF HeldUpTo
  <1>4. CASE ~Held(m + 1)
    <2>1. R = S
      BY <1>4
    <2>2. QED
      BY <1>1, <1>2, <1>4, <2>1 DEF HeldUpTo
  <1>5. QED
    BY <1>3, <1>4

\* The count of the held frames only grows, and counts a held one.
LEMMA HeldGrows ==
    ASSUME NEW m \in Nat, NEW j \in 0 .. m
    PROVE  HeldUpTo(j) \in Nat /\ HeldUpTo(j) <= HeldUpTo(m) /\ (Held(j) /\ j > 0 => HeldUpTo(j) > 0)
  <1>1. HeldUpTo(j) \in Nat /\ HeldUpTo(m) \in Nat
    BY HeldCount
  <1>2. HeldUpTo(j) <= HeldUpTo(m)
    <2>1. {k \in 1 .. j : Held(k)} \subseteq {k \in 1 .. m : Held(k)}
      OBVIOUS
    <2>2. IsFiniteSet({k \in 1 .. m : Held(k)})
      <3>1. IsFiniteSet(1 .. m) /\ {k \in 1 .. m : Held(k)} \subseteq 1 .. m
        BY FS_Interval
      <3>2. QED
        BY <3>1, FS_Subset
    <2>3. QED
      BY <2>1, <2>2, FS_Subset DEF HeldUpTo
  <1>3. ASSUME Held(j), j > 0 PROVE HeldUpTo(j) > 0
    <2>1. j - 1 \in Nat /\ (j - 1) + 1 = j
      BY <1>3
    <2>2. HeldUpTo(j - 1) \in Nat /\ HeldUpTo(j) = HeldUpTo(j - 1) + 1
      BY <1>3, <2>1, HeldCount
    <2>3. QED
      BY <2>2
  <1>4. QED
    BY <1>1, <1>2, <1>3

\* The offsets of the frames, seen from a byte of frame k.
LEMMA Nearby ==
    ASSUME AbfInv, NEW off, NEW c \in Nat, NEW k \in 1 .. Len(sent)
    PROVE  Offsets(off) /\ off[k] <= c /\ c < off[k + 1] =>
             \A j \in 1 .. Last : /\ off[j] \in Nat
                                  /\ j <= k => off[j] <= c
                                  /\ j > k => c + 1 <= off[k + 1] /\ off[k + 1] <= off[j]
  <1>h. HAVE Offsets(off) /\ off[k] <= c /\ c < off[k + 1]
  <1>1. off \in [Nat -> Nat] /\ \A j, m \in 1 .. Last : j <= m => off[j] <= off[m]
    BY <1>h DEF Offsets
  <1>2. k \in 1 .. Last /\ k + 1 \in 1 .. Last
    BY DEF Last, AbfInv
  <1>3. TAKE j \in 1 .. Last
  <1>4. off[j] \in Nat /\ off[k] \in Nat /\ off[k + 1] \in Nat
    BY <1>1, <1>2
  <1>5. j <= k => off[j] <= c
    BY <1>h, <1>1, <1>2, <1>4
  <1>6. j > k => off[k + 1] <= off[j]
    BY <1>1, <1>2
  <1>7. c + 1 <= off[k + 1]
    BY <1>h, <1>4
  <1>8. QED
    BY <1>4, <1>5, <1>6, <1>7

\* While every write is accepted, every frame starts clean.
LEMMA AllClean ==
    ASSUME AbfInv, OnlyLastPends, AllAccepted, NEW k \in 1 .. Len(sent)
    PROVE  CleanStart(k) /\ (sent[k].body # "pending" => Accepted(k))
  <1>1. \A j \in 1 .. Len(sent) : sent[j].head /\ (sent[j].body # "pending" => sent[j].body = "in")
    BY FrameFacts DEF AllAccepted
  <1>2. CleanStart(k)
    <2>1. SUFFICES ASSUME k # 1 PROVE CleanStart(k)
      BY DEF CleanStart
    <2>2. k - 1 \in 1 .. Len(sent) /\ k - 1 # Len(sent)
      BY <2>1 DEF AbfInv
    <2>3. QED
      BY <1>1, <2>2 DEF CleanStart, Accepted, OnlyLastPends
  <1>3. QED
    BY <1>1, <1>2 DEF Accepted

----------------------------------------------------------------------------
\* What is delivered and reported.

\* The frames that got in whole after a clean start, as far as they are processed,
\* are delivered, in order.
Placed(off, c, place) ==
    /\ place \in [Nat -> Nat]
    /\ \A k \in 1 .. Len(sent) : Safe(k) /\ off[k + 1] <= c =>
           place[k] \in 1 .. Len(delivered) /\ delivered[place[k]] = Pay(k)
    /\ \A j, k \in 1 .. Len(sent) : j < k /\ Safe(j) /\ Safe(k) /\ off[k + 1] <= c =>
           place[j] < place[k]

Done(off, c, k) == sent[k].body # "pending" /\ off[k + 1] <= c
\* Frame k, of which bytes are to come, has been given up.
GivenUp(off, c, k) == k <= Len(sent) /\ c > off[k] + HEADER_SIZE + capacity

\* What is delivered and reported when d frames are processed and all were accepted.
CountedAt(off, c, d) ==
    /\ \A k \in 1 .. Len(sent) : k <= d <=> Done(off, c, k)
    /\ Len(delivered) = HeldUpTo(d)
    /\ \A k \in 1 .. d : Held(k) => delivered[HeldUpTo(k)] = Pay(k)
    /\ errors = d - HeldUpTo(d) + (IF GivenUp(off, c, d + 1) THEN 1 ELSE 0)

Counted(off, c) == \E d \in 0 .. Len(sent) : CountedAt(off, c, d)

\* After a byte the decoder is where the frames say.
LEMMA TracksStep ==
    ASSUME AbfInv, NEW T, NEW off, NEW c, NEW k \in 1 .. Len(sent)
    PROVE  Layout(T, off, c) /\ off[k] <= c /\ c < off[k + 1] /\ NextByte /\ Outcome(off, c, k)
             => Tracks(off, c + 1)'
  <1>h. HAVE Layout(T, off, c) /\ off[k] <= c /\ c < off[k + 1] /\ NextByte /\ Outcome(off, c, k)
  <1>1. sent' = sent /\ capacity' = capacity /\ c \in Nat
    BY <1>h DEF NextByte, Layout, InFlight
  <1>2. ASSUME NEW j \in 1 .. Last
        PROVE  /\ off[j] \in Nat
               /\ j <= k => off[j] <= c
               /\ j > k => c + 1 <= off[k + 1] /\ off[k + 1] <= off[j]
    BY <1>h, <1>1, Nearby DEF Layout
  <1>3. Len(sent) \in Nat /\ Last = Len(sent) + 1 /\ \A j \in 1 .. Len(sent) : j \in 1 .. Last /\ j + 1 \in 1 .. Last
    BY DEF Last, AbfInv
  <1>4. ASSUME NEW j \in 1 .. Last, c + 1 = off[j]
        PROVE  Between' /\ (CleanStart(j) => state' = "HUNT_SYNC")
    <2>1. j > k /\ off[k + 1] = c + 1 /\ off[k + 1] \in Nat
      <3>1. ~ (j <= k)
        BY <1>1, <1>2, <1>4
      <3>2. j > k
        BY <3>1
      <3>3. off[k + 1] \in Nat /\ off[j] \in Nat
        BY <1>2, <1>3
      <3>4. QED
        BY <1>1, <1>2, <1>4, <3>2, <3>3
    <2>2. CASE sent[k].body = "pending"
      <3>1. k = Len(sent) /\ j = k + 1 /\ j # 1
        <4>1. k = Len(sent)
          BY <1>h, <2>2 DEF Layout, OnlyLastPends
        <4>2. QED
          BY <1>3, <2>1, <4>1
      <3>2. ~CleanStart(j)
        BY <2>2, <3>1 DEF CleanStart, Accepted
      <3>3. Unfinished(off, c + 1, k)
        <4>1. k \in 1 .. Last
          BY <1>3
        <4>2. off[k] < c + 1
          BY <1>1, <1>2, <4>1
        <4>3. QED
          BY <2>1, <2>2, <4>2 DEF Unfinished
      <3>4. Within(off, c + 1, k)'
        BY <1>h, <3>3 DEF Outcome
      <3>5. Between'
        <4>1. CASE sent[k].head
          <5>1. off[k + 1] = off[k] + HEADER_SIZE
            <6>1. off[k + 1] = off[k] + HeadLen(k) + BodyLen(k) /\ off[k] \in Nat
              BY <1>h, <1>2, <1>3 DEF Layout, Offsets
            <6>2. QED
              BY <2>2, <4>1, <6>1 DEF HeadLen, BodyLen
          <5>2. (c + 1) - off[k] = HEADER_SIZE
            <6>1. off[k] \in Nat
              BY <1>2, <1>3
            <6>2. QED
              BY <1>1, <2>1, <5>1, <6>1
          <5>3. (Reading(Pay(k), HEADER_SIZE) \/ Skips(off, c + 1, k))'
            BY <1>1, <3>4, <4>1, <5>2 DEF Within
          <5>4. QED
            BY <5>3 DEF Reading, Skips, Between
        <4>2. CASE ~sent[k].head
          BY <1>1, <3>4, <4>2 DEF Within
        <4>3. QED
          BY <4>1, <4>2
      <3>6. QED
        BY <3>2, <3>5
    <2>3. CASE sent[k].body # "pending"
      <3>1. ~Unfinished(off, c + 1, k)
        BY <1>1, <2>1, <2>3 DEF Unfinished
      <3>2. Between' /\ (Accepted(k) => state' = "HUNT_SYNC")
        BY <1>h, <3>1 DEF Outcome
      <3>3. ASSUME CleanStart(j) PROVE Accepted(k)
        <4>1. j - 1 \in 1 .. Len(sent) /\ j - 1 >= k /\ (j - 1) + 1 = j /\ j # 1
          BY <1>3, <2>1
        <4>2. Accepted(j - 1)
          BY <3>3, <4>1 DEF CleanStart
        <4>3. CASE j - 1 = k
          BY <4>2, <4>3
        <4>4. CASE j - 1 # k
          <5>1. j - 1 \in 1 .. Last /\ j - 1 > k
            BY <1>3, <4>1, <4>4
          <5>2. off[j - 1] >= c + 1 /\ off[j - 1] \in Nat
            BY <1>1, <1>2, <2>1, <5>1
          <5>3. BodyLen(j - 1) > 0 /\ BodyLen(j - 1) \in Nat /\ HeadLen(j - 1) \in Nat
            BY <4>1, <4>2, FrameFacts, WAssumption, SMTT(30)
          <5>4. off[j] = off[j - 1] + HeadLen(j - 1) + BodyLen(j - 1)
            BY <1>h, <4>1 DEF Layout, Offsets
          <5>5. QED
            BY <1>1, <1>4, <5>2, <5>3, <5>4
        <4>5. QED
          BY <4>3, <4>4
      <3>4. QED
        BY <3>2, <3>3
    <2>4. QED
      BY <2>2, <2>3
  <1>5. Boundary(off, c + 1)'
    BY <1>1, <1>4 DEF Boundary, Last, CleanStart, Accepted, Between
  <1>6. ASSUME NEW j \in 1 .. Len(sent), Unfinished(off, c + 1, j)
        PROVE  Within(off, c + 1, j)'
    <2>1. off[j] < c + 1 /\ c + 1 <= off[j + 1]
      <3>1. off[j + 1] \in Nat
        BY <1>2, <1>3
      <3>2. QED
        BY <1>1, <1>6, <3>1 DEF Unfinished
    <2>2. ~ (j > k)
      <3>1. off[j] \in Nat /\ (j > k => c + 1 <= off[k + 1] /\ off[k + 1] <= off[j]) /\ off[k + 1] \in Nat
        BY <1>2, <1>3
      <3>2. QED
        BY <1>1, <2>1, <3>1
    <2>3. ~ (j < k)
      <3>1. j + 1 \in 1 .. Last /\ (j < k => j + 1 <= k)
        BY <1>3
      <3>2. off[j + 1] \in Nat /\ (j < k => off[j + 1] <= c)
        BY <1>2, <3>1
      <3>3. QED
        BY <1>1, <2>1, <3>2
    <2>4. j = k
      BY <2>2, <2>3
    <2>5. QED
      BY <1>h, <1>6, <2>4 DEF Outcome
  <1>7. QED
    BY <1>1, <1>5, <1>6 DEF Tracks, Unfinished

\* What is delivered stays delivered.
LEMMA DeliveredGrows ==
    ASSUME AbfInv, NoFrame \/ SomeFrame
    PROVE  /\ Len(delivered) \in Nat /\ Len(delivered') \in Nat /\ Len(delivered) <= Len(delivered')
           /\ \A i \in 1 .. Len(delivered) : i \in 1 .. Len(delivered') /\ delivered'[i] = delivered[i]
  <1>1. delivered \in Seq(Seq(Byte)) /\ Len(delivered) \in Nat
    BY DEF AbfInv
  <1>2. CASE NoFrame
    BY <1>1, <1>2 DEF NoFrame
  <1>3. CASE SomeFrame
    <2>1. PICK x : delivered' = Append(delivered, x)
      BY <1>3 DEF SomeFrame
    <2>2. Len(delivered') = Len(delivered) + 1 /\ \A i \in 1 .. Len(delivered) : delivered'[i] = delivered[i]
      BY <1>1, <2>1
    <2>3. QED
      BY <1>1, <2>2
  <1>4. QED
    BY <1>2, <1>3

\* The frames a byte of frame k completes: k, or none.
LEMMA Completes ==
    ASSUME AbfInv, NEW off, NEW c \in Nat, NEW k \in 1 .. Len(sent), NEW j \in 1 .. Len(sent)
    PROVE  Offsets(off) /\ off[k] <= c /\ c < off[k + 1] =>
             /\ off[j + 1] <= c <=> j < k
             /\ j < k => off[j + 1] <= c + 1
             /\ j = k => (off[j + 1] <= c + 1 <=> c + 1 = off[k + 1])
             /\ j > k /\ HeadLen(j) + BodyLen(j) > 0 => ~ (off[j + 1] <= c + 1)
  <1>h. HAVE Offsets(off) /\ off[k] <= c /\ c < off[k + 1]
  <1>1. j \in 1 .. Last /\ j + 1 \in 1 .. Last /\ k + 1 \in 1 .. Last
    BY DEF Last, AbfInv
  <1>2. /\ off[j] \in Nat /\ off[j + 1] \in Nat /\ off[k + 1] \in Nat
        /\ j + 1 <= k => off[j + 1] <= c
        /\ j + 1 > k => c + 1 <= off[k + 1] /\ off[k + 1] <= off[j + 1]
        /\ j > k => c + 1 <= off[k + 1] /\ off[k + 1] <= off[j]
    BY <1>h, <1>1, Nearby
  <1>3. off[j + 1] <= c <=> j < k
    <2>1. j < k => j + 1 <= k
      OBVIOUS
    <2>2. ~ (j < k) => j + 1 > k
      OBVIOUS
    <2>3. QED
      BY <1>2, <2>1, <2>2
  <1>4. j < k => off[j + 1] <= c + 1
    BY <1>2, <1>3
  <1>5. j = k => (off[j + 1] <= c + 1 <=> c + 1 = off[k + 1])
    <2>1. j = k => j + 1 > k
      OBVIOUS
    <2>2. QED
      BY <1>2, <2>1
  <1>6. j > k /\ HeadLen(j) + BodyLen(j) > 0 => ~ (off[j + 1] <= c + 1)
    <2>1. SUFFICES ASSUME j > k, HeadLen(j) + BodyLen(j) > 0 PROVE ~ (off[j + 1] <= c + 1)
      OBVIOUS
    <2>2. off[j + 1] = off[j] + HeadLen(j) + BodyLen(j)
      BY <1>h DEF Offsets
    <2>3. HeadLen(j) \in Nat /\ BodyLen(j) \in Nat
      BY FrameFacts, WAssumption
    <2>4. off[j] \in Nat /\ c + 1 <= off[j]
      BY <1>2, <2>1
    <2>5. QED
      BY <2>1, <2>2, <2>3, <2>4
  <1>7. QED
    BY <1>3, <1>4, <1>5, <1>6

\* A byte that completes a frame got in whole gives it its place.
LEMMA PlacedStep ==
    ASSUME AbfInv, NEW off, NEW c \in Nat, NEW place, NEW k \in 1 .. Len(sent)
    PROVE  /\ Offsets(off) /\ off[k] <= c /\ c < off[k + 1] /\ NextByte /\ Outcome(off, c, k)
           /\ Placed(off, c, place)
           => \E next : Placed(off, c + 1, next)'
  <1>h. HAVE /\ Offsets(off) /\ off[k] <= c /\ c < off[k + 1] /\ NextByte /\ Outcome(off, c, k)
             /\ Placed(off, c, place)
  <1>1. sent' = sent /\ capacity' = capacity
    BY <1>h DEF NextByte
  <1>2. \A j \in 1 .. Len(sent) : (Safe(j)' <=> Safe(j)) /\ Pay(j)' = Pay(j)
    BY <1>1 DEF Safe, Accepted, CleanStart, Held, Pay
  <1>3. /\ Len(delivered) \in Nat /\ Len(delivered') \in Nat /\ Len(delivered) <= Len(delivered')
        /\ \A i \in 1 .. Len(delivered) : i \in 1 .. Len(delivered') /\ delivered'[i] = delivered[i]
    BY <1>h, DeliveredGrows DEF Outcome
  <1>4. /\ place \in [Nat -> Nat]
        /\ \A j \in 1 .. Len(sent) : Safe(j) /\ off[j + 1] <= c =>
               place[j] \in 1 .. Len(delivered) /\ delivered[place[j]] = Pay(j)
        /\ \A i, j \in 1 .. Len(sent) : i < j /\ Safe(i) /\ Safe(j) /\ off[j + 1] <= c =>
               place[i] < place[j]
    BY <1>h DEF Placed
  <1>5. ASSUME NEW j \in 1 .. Len(sent)
        PROVE  /\ off[j + 1] <= c <=> j < k
               /\ Safe(j) /\ off[j + 1] <= c + 1 => j < k \/ (j = k /\ c + 1 = off[k + 1])
    <2>1. /\ off[j + 1] <= c <=> j < k
          /\ j = k => (off[j + 1] <= c + 1 <=> c + 1 = off[k + 1])
          /\ j > k /\ HeadLen(j) + BodyLen(j) > 0 => ~ (off[j + 1] <= c + 1)
      BY <1>h, Completes
    <2>2. Safe(j) => HeadLen(j) + BodyLen(j) > 0
      <3>1. HeadLen(j) \in {0, HEADER_SIZE} /\ BodyLen(j) \in 0 .. W - 1 /\ (Accepted(j) => BodyLen(j) > 0)
        BY FrameFacts
      <3>2. HeadLen(j) \in Nat /\ BodyLen(j) \in Nat
        BY <3>1, WAssumption
      <3>3. QED
        BY <3>1, <3>2 DEF Safe
    <2>3. j < k \/ j = k \/ j > k
      OBVIOUS
    <2>4. QED
      BY <2>1, <2>2, <2>3
  <1>6. CASE Safe(k) /\ c + 1 = off[k + 1]
    <2>1. PICK next : next = [place EXCEPT ![k] = Len(delivered')]
      OBVIOUS
    <2>2. delivered' = Append(delivered, Pay(k))
      <3>1. Accepted(k) /\ CleanStart(k) /\ Held(k) /\ sent[k].head /\ sent[k].body # "refused"
        BY <1>6 DEF Safe, Accepted
      <3>2. QED
        BY <1>h, <1>6, <3>1 DEF Outcome
    <2>3. delivered \in Seq(Seq(Byte))
      BY DEF AbfInv
    <2>4. Len(delivered') = Len(delivered) + 1 /\ delivered'[Len(delivered')] = Pay(k)
      <3>1. Len(delivered') = Len(delivered) + 1
        BY <2>2, <2>3
      <3>2. delivered'[Len(delivered) + 1] = Pay(k)
        BY <2>2, <2>3
      <3>3. QED
        BY <3>1, <3>2
    <2>5. next \in [Nat -> Nat] /\ next[k] = Len(delivered') /\ \A j \in 1 .. Len(sent) : j # k => next[j] = place[j]
      <3>1. place \in [Nat -> Nat]
        BY <1>4
      <3>2. k \in Nat
        OBVIOUS
      <3>3. Len(delivered') \in Nat
        BY <1>3
      <3>4. \A j \in 1 .. Len(sent) : j \in Nat
        OBVIOUS
      <3>5. QED
        BY <2>1, <3>1, <3>2, <3>3, <3>4
    <2>6. ASSUME NEW j \in 1 .. Len(sent), Safe(j), off[j + 1] <= c + 1
          PROVE  next[j] \in 1 .. Len(delivered') /\ delivered'[next[j]] = Pay(j)
      <3>1. CASE j < k
        <4>1. place[j] \in 1 .. Len(delivered) /\ delivered[place[j]] = Pay(j)
          BY <1>4, <1>5, <2>6, <3>1
        <4>2. next[j] = place[j]
          BY <2>5, <3>1
        <4>3. QED
          BY <1>3, <4>1, <4>2
      <3>2. CASE j = k
        <4>1. next[j] = Len(delivered') /\ Len(delivered') \in 1 .. Len(delivered')
          BY <1>3, <2>4, <2>5, <3>2
        <4>2. QED
          BY <2>4, <3>2, <4>1
      <3>3. QED
        BY <1>5, <2>6, <3>1, <3>2
    <2>7. ASSUME NEW i \in 1 .. Len(sent), NEW j \in 1 .. Len(sent),
                 i < j, Safe(i), Safe(j), off[j + 1] <= c + 1
          PROVE  next[i] < next[j]
      <3>1. j < k \/ j = k
        BY <1>5, <2>7
      <3>2. i < k /\ next[i] = place[i] /\ off[i + 1] <= c
        <4>1. i < k
          BY <2>7, <3>1
        <4>2. QED
          BY <1>5, <2>5, <4>1
      <3>3. CASE j < k
        <4>1. next[j] = place[j] /\ off[j + 1] <= c
          BY <1>5, <2>5, <3>3
        <4>2. QED
          BY <1>4, <2>7, <3>2, <4>1
      <3>4. CASE j = k
        <4>1. place[i] \in 1 .. Len(delivered)
          BY <1>4, <2>7, <3>2
        <4>2. QED
          <5>1. next[i] <= Len(delivered) /\ next[i] \in Nat
            BY <1>3, <3>2, <4>1
          <5>2. next[j] = Len(delivered) + 1
            BY <2>4, <2>5, <3>4
          <5>3. QED
            BY <1>3, <5>1, <5>2
      <3>5. QED
        BY <3>1, <3>3, <3>4
    <2>8. Placed(off, c + 1, next)'
      BY <1>1, <1>2, <2>5, <2>6, <2>7 DEF Placed
    <2>9. QED
      BY <2>8
  <1>7. CASE ~ (Safe(k) /\ c + 1 = off[k + 1])
    <2>1. \A j \in 1 .. Len(sent) : Safe(j) /\ off[j + 1] <= c + 1 => off[j + 1] <= c
      BY <1>5, <1>7
    <2>2. Placed(off, c + 1, place)'
      BY <1>1, <1>2, <1>3, <1>4, <2>1 DEF Placed
    <2>3. QED
      BY <2>2
  <1>8. QED
    BY <1>6, <1>7

\* A byte that completes a frame delivers it or has reported it.
LEMMA CountedStep ==
    ASSUME AbfInv, NEW T, NEW off, NEW c \in Nat, NEW k \in 1 .. Len(sent)
    PROVE  /\ Layout(T, off, c) /\ off[k] <= c /\ c < off[k + 1] /\ NextByte /\ Outcome(off, c, k)
           /\ AllAccepted /\ Counted(off, c)
           => Counted(off, c + 1)'
  <1>h. HAVE /\ Layout(T, off, c) /\ off[k] <= c /\ c < off[k + 1] /\ NextByte /\ Outcome(off, c, k)
             /\ AllAccepted /\ Counted(off, c)
  <1>1. sent' = sent /\ capacity' = capacity
    BY <1>h DEF NextByte
  <1>2. /\ \A j \in 1 .. Len(sent) : (Done(off, c + 1, j)' <=> Done(off, c + 1, j)) /\ Pay(j)' = Pay(j)
        /\ \A j : Held(j)' <=> Held(j)
        /\ \A j : HeldUpTo(j)' = HeldUpTo(j)
    BY <1>1 DEF Done, Held, HeldUpTo, Pay
  <1>3. PICK d \in 0 .. Len(sent) : CountedAt(off, c, d)
    BY <1>h DEF Counted
  <1>4. /\ \A j \in 1 .. Len(sent) : j <= d <=> Done(off, c, j)
        /\ Len(delivered) = HeldUpTo(d)
        /\ \A j \in 1 .. d : Held(j) => delivered[HeldUpTo(j)] = Pay(j)
        /\ errors = d - HeldUpTo(d) + (IF GivenUp(off, c, d + 1) THEN 1 ELSE 0)
    BY <1>3 DEF CountedAt
  <1>5. /\ Len(sent) \in Nat /\ off[k] \in Nat /\ off[k + 1] \in Nat /\ capacity \in Nat
        /\ delivered \in Seq(Seq(Byte))
    <2>1. off \in [Nat -> Nat]
      BY <1>h DEF Layout, Offsets
    <2>2. Len(sent) \in Nat /\ k \in Nat /\ k + 1 \in Nat
      BY DEF AbfInv
    <2>3. capacity \in Nat /\ delivered \in Seq(Seq(Byte))
      BY CapacitiesAssumption, WAssumption DEF AbfInv, AbfTypeOK
    <2>4. QED
      BY <2>1, <2>2, <2>3
  <1>6. ASSUME NEW j \in 1 .. Len(sent)
        PROVE  /\ off[j + 1] <= c <=> j < k
               /\ j < k => off[j + 1] <= c + 1 /\ sent[j].body # "pending"
               /\ j = k => (off[j + 1] <= c + 1 <=> c + 1 = off[k + 1])
               /\ j > k => ~ (off[j + 1] <= c + 1)
    <2>1. HeadLen(j) + BodyLen(j) > 0
      <3>1. HeadLen(j) = HEADER_SIZE
        BY <1>h DEF AllAccepted, HeadLen
      <3>2. BodyLen(j) \in 0 .. W - 1
        BY FrameFacts
      <3>3. BodyLen(j) \in Nat
        BY <3>2, WAssumption
      <3>4. QED
        BY <3>1, <3>3
    <2>2. j < k => j # Len(sent)
      BY <1>5
    <2>3. j < k => sent[j].body # "pending"
      BY <1>h, <2>2 DEF Layout, OnlyLastPends
    <2>4. QED
      BY <1>h, <2>1, <2>3, Completes DEF Layout
  <1>7. d = k - 1
    <2>1. ~ (k <= d)
      BY <1>4, <1>6 DEF Done
    <2>2. ~ (d < k - 1)
      <3>1. SUFFICES ASSUME d < k - 1 PROVE FALSE
        OBVIOUS
      <3>2. d + 1 \in 1 .. Len(sent) /\ d + 1 < k /\ ~ (d + 1 <= d)
        BY <1>5, <3>1
      <3>3. Done(off, c, d + 1)
        BY <1>6, <3>2 DEF Done
      <3>4. QED
        BY <1>4, <3>2, <3>3
    <2>3. QED
      BY <2>1, <2>2
  <1>8. CleanStart(k) /\ sent[k].head /\ sent[k].body # "refused" /\ (Accepted(k) <=> sent[k].body # "pending")
    <2>1. CleanStart(k) /\ (sent[k].body # "pending" => Accepted(k))
      BY <1>h, AllClean DEF Layout
    <2>2. QED
      BY <1>h, <2>1 DEF AllAccepted, Accepted
  <1>9. /\ IF Accepted(k) /\ Held(k) /\ c + 1 = off[k + 1]
           THEN delivered' = Append(delivered, Pay(k)) ELSE NoFrame
        /\ errors' = IF c = off[k] + HEADER_SIZE + capacity THEN errors + 1 ELSE errors
    BY <1>h, <1>8 DEF Outcome
  <1>10. HeldUpTo(d) \in Nat /\ HeldUpTo(k) = HeldUpTo(d) + (IF Held(k) THEN 1 ELSE 0)
    <2>1. d \in Nat /\ d + 1 = k
      BY <1>7
    <2>2. QED
      BY <2>1, HeldCount
  <1>11. errors = d - HeldUpTo(d) + (IF c > off[k] + HEADER_SIZE + capacity THEN 1 ELSE 0)
    <2>1. d + 1 = k /\ k <= Len(sent)
      BY <1>7
    <2>2. QED
      BY <1>4, <2>1 DEF GivenUp
  <1>12. errors' = d - HeldUpTo(d) + (IF c + 1 > off[k] + HEADER_SIZE + capacity THEN 1 ELSE 0)
    <2>1. c = off[k] + HEADER_SIZE + capacity => ~ (c > off[k] + HEADER_SIZE + capacity)
      BY <1>5
    <2>2. c + 1 > off[k] + HEADER_SIZE + capacity <=>
             c > off[k] + HEADER_SIZE + capacity \/ c = off[k] + HEADER_SIZE + capacity
      <3>1. off[k] + HEADER_SIZE + capacity \in Nat
        BY <1>5
      <3>2. \A x \in Nat : c + 1 > x <=> c > x \/ c = x
        OBVIOUS
      <3>3. QED
        BY <3>1, <3>2
    <2>3. d - HeldUpTo(d) \in Int
      BY <1>10
    <2>4. QED
      BY <1>9, <1>11, <2>1, <2>2, <2>3
  <1>13. \A j \in 1 .. d : Held(j) => HeldUpTo(j) \in 1 .. Len(delivered)
    <2>1. ASSUME NEW j \in 1 .. d, Held(j) PROVE HeldUpTo(j) \in 1 .. HeldUpTo(d)
      <3>1. d \in Nat /\ j \in 0 .. d /\ j > 0
        OBVIOUS
      <3>2. HeldUpTo(j) \in Nat /\ HeldUpTo(j) <= HeldUpTo(d) /\ HeldUpTo(j) > 0
        BY <2>1, <3>1, HeldGrows
      <3>3. QED
        BY <1>10, <3>2
    <2>2. QED
      BY <1>4, <2>1
  <1>14. \A j \in 1 .. d : Held(j) => delivered'[HeldUpTo(j)] = Pay(j)
    <2>1. NoFrame \/ SomeFrame
      BY <1>h DEF Outcome
    <2>2. \A i \in 1 .. Len(delivered) : delivered'[i] = delivered[i]
      BY <2>1, DeliveredGrows
    <2>3. QED
      BY <1>4, <1>13, <2>2
  <1>15. CASE Accepted(k) /\ c + 1 = off[k + 1]
    <2>1. \A j \in 1 .. Len(sent) : j <= k <=> Done(off, c + 1, j)
      BY <1>6, <1>8, <1>15 DEF Done
    <2>2. Len(delivered') = HeldUpTo(k)
      <3>1. CASE Held(k)
        <4>1. delivered' = Append(delivered, Pay(k))
          BY <1>9, <1>15, <3>1
        <4>2. Len(delivered') = Len(delivered) + 1
          BY <1>5, <4>1
        <4>3. QED
          BY <1>4, <1>10, <3>1, <4>2
      <3>2. CASE ~Held(k)
        BY <1>4, <1>9, <1>10, <3>2 DEF NoFrame
      <3>3. QED
        BY <3>1, <3>2
    <2>3. ASSUME NEW j \in 1 .. k, Held(j) PROVE delivered'[HeldUpTo(j)] = Pay(j)
      <3>1. CASE j = k
        <4>1. delivered' = Append(delivered, Pay(k))
          BY <1>9, <1>15, <2>3, <3>1
        <4>2. HeldUpTo(k) = Len(delivered) + 1
          BY <1>4, <1>10, <2>3, <3>1
        <4>3. delivered'[Len(delivered) + 1] = Pay(k)
          BY <1>5, <4>1
        <4>4. QED
          BY <3>1, <4>2, <4>3
      <3>2. CASE j # k
        <4>1. j \in 1 .. d
          BY <1>7, <3>2
        <4>2. QED
          BY <1>14, <2>3, <4>1
      <3>3. QED
        BY <3>1, <3>2
    <2>4. errors' = k - HeldUpTo(k)
      <3>1. off[k + 1] = off[k] + HEADER_SIZE + Len(Pay(k))
        <4>1. off[k + 1] = off[k] + HeadLen(k) + BodyLen(k)
          BY <1>h DEF Layout, Offsets
        <4>2. QED
          BY <1>15, <4>1 DEF Accepted, HeadLen, BodyLen
      <3>2. Len(Pay(k)) \in Nat
        BY FrameFacts
      <3>3. c + 1 > off[k] + HEADER_SIZE + capacity <=> ~ (Len(Pay(k)) <= capacity)
        BY <1>5, <1>15, <3>1, <3>2, SMTT(30)
      <3>4. c + 1 > off[k] + HEADER_SIZE + capacity <=> ~Held(k)
        BY <3>3 DEF Held, Pay
      <3>5. QED
        BY <1>7, <1>10, <1>12, <3>4
    <2>5. ~GivenUp(off, c + 1, k + 1)
      <3>1. ~ (c + 1 > off[k + 1] + HEADER_SIZE + capacity)
        BY <1>5, <1>15
      <3>2. QED
        BY <3>1 DEF GivenUp
    <2>6. k \in 0 .. Len(sent)
      OBVIOUS
    <2>7. errors' = k - HeldUpTo(k) + (IF GivenUp(off, c + 1, k + 1) THEN 1 ELSE 0)
      <3>1. k - HeldUpTo(k) \in Int
        BY <1>10
      <3>2. QED
        BY <2>4, <2>5, <3>1
    <2>8. CountedAt(off, c + 1, k)'
      BY <1>1, <1>2, <2>1, <2>2, <2>3, <2>7 DEF CountedAt, GivenUp
    <2>9. QED
      BY <1>1, <2>6, <2>8 DEF Counted
  <1>16. CASE ~ (Accepted(k) /\ c + 1 = off[k + 1])
    <2>1. \A j \in 1 .. Len(sent) : j <= d <=> Done(off, c + 1, j)
      <3>1. \A j \in 1 .. Len(sent) : j <= d <=> j < k
        BY <1>7
      <3>2. QED
        BY <1>6, <1>8, <1>16, <3>1, SMTT(30) DEF Done
    <2>2. Len(delivered') = HeldUpTo(d)
      BY <1>4, <1>9, <1>16 DEF NoFrame
    <2>3. errors' = d - HeldUpTo(d) + (IF GivenUp(off, c + 1, d + 1) THEN 1 ELSE 0)
      <3>1. d + 1 = k /\ k <= Len(sent)
        BY <1>7
      <3>2. QED
        BY <1>12, <3>1 DEF GivenUp
    <2>4. CountedAt(off, c + 1, d)'
      BY <1>1, <1>2, <1>14, <2>1, <2>2, <2>3 DEF CountedAt, GivenUp
    <2>5. QED
      BY <1>1, <2>4 DEF Counted
  <1>17. QED
    BY <1>15, <1>16

----------------------------------------------------------------------------
\* The invariant.

\* The frames sent, the bytes in flight, where the decoder is, what it delivered.
Ghosts(T, off, c, place) ==
    /\ Layout(T, off, c) /\ Tracks(off, c) /\ Placed(off, c, place)
    /\ AllAccepted => Counted(off, c)

FrameInv == AbfInv /\ (Regular => \E T, off, c, place : Ghosts(T, off, c, place))

\* A header sent disturbs nothing of what came before.
LEMMA SendHeaderGhosts ==
    ASSUME AbfInv, NEW T, NEW off, NEW c, NEW place, NEW p \in Payloads
    PROVE  Ghosts(T, off, c, place) /\ SendHeader(p) =>
             \E U, next : Ghosts(U, next, c, place)'
  <1>h. HAVE Ghosts(T, off, c, place) /\ SendHeader(p)
  <1>1. PICK n \in Nat : \E U, next :
               /\ n = Len(sent) /\ Layout(U, next, c)'
               /\ Len(sent') = n + 1 /\ \A k \in 1 .. n : sent'[k] = sent[k]
               /\ sent'[n + 1] = [payload |-> p, head |-> Fits(Header(p)), body |-> "pending"]
               /\ \A k \in 1 .. n + 1 : next[k] = off[k]
               /\ c \in Nat /\ c <= off[n + 1]
    BY <1>h, SendHeaderLayout DEF Ghosts
  <1>2. PICK U, next :
               /\ n = Len(sent) /\ Layout(U, next, c)'
               /\ Len(sent') = n + 1 /\ \A k \in 1 .. n : sent'[k] = sent[k]
               /\ sent'[n + 1] = [payload |-> p, head |-> Fits(Header(p)), body |-> "pending"]
               /\ \A k \in 1 .. n + 1 : next[k] = off[k]
               /\ c \in Nat /\ c <= off[n + 1]
    BY <1>1
  <1>3. n = Len(sent) /\ Last = n + 1 /\ Len(sent') = n + 1 /\ Last' = n + 2
    BY <1>2 DEF Last
  <1>4. /\ capacity' = capacity /\ state' = state /\ mem' = mem /\ header' = header
        /\ headerPos' = headerPos /\ rxPos' = rxPos /\ nextZero' = nextZero
        /\ delivered' = delivered /\ errors' = errors
    BY <1>h DEF SendHeader, decoder
  <1>5. /\ \A k \in 1 .. n : sent'[k] = sent[k] /\ Pay(k)' = Pay(k) /\ (Held(k)' <=> Held(k))
        /\ \A k \in 1 .. n : Accepted(k)' <=> Accepted(k)
        /\ sent'[n + 1].body = "pending" /\ ~Accepted(n + 1)'
    BY <1>2, <1>4 DEF Pay, Held, Accepted
  <1>6. /\ \A k \in 1 .. n + 1 : CleanStart(k)' <=> CleanStart(k)
        /\ ~CleanStart(n + 2)'
        /\ \A k \in 1 .. n : Safe(k)' <=> Safe(k)
        /\ ~Safe(n + 1)'
    <2>1. \A k \in 1 .. n + 1 : k = 1 \/ k - 1 \in 1 .. n
      OBVIOUS
    <2>2. n + 2 # 1 /\ (n + 2) - 1 = n + 1
      OBVIOUS
    <2>3. \A k \in 1 .. n : k \in 1 .. n + 1
      OBVIOUS
    <2>4. \A k \in 1 .. n + 1 : CleanStart(k)' <=> CleanStart(k)
      BY <1>5, <2>1 DEF CleanStart
    <2>5. ~CleanStart(n + 2)'
      BY <1>5, <2>2 DEF CleanStart
    <2>6. QED
      BY <1>5, <2>3, <2>4, <2>5 DEF Safe
  <1>7. /\ c \in Nat /\ off[n + 1] \in Nat /\ c <= off[n + 1]
        /\ \A k \in 1 .. n + 1 : next[k] = off[k]
        /\ next[n + 2] \in Nat /\ next[n + 1] <= next[n + 2]
    <2>1. /\ next \in [Nat -> Nat]
          /\ \A j, k \in 1 .. n + 2 : j <= k => next[j] <= next[k]
      BY <1>2, <1>3 DEF Layout, Offsets
    <2>2. n + 1 \in 1 .. n + 2 /\ n + 2 \in 1 .. n + 2 /\ n + 1 <= n + 2
      OBVIOUS
    <2>3. n + 1 \in Nat /\ n + 2 \in Nat /\ n + 1 \in 1 .. n + 1
      OBVIOUS
    <2>4. off[n + 1] \in Nat
      BY <1>2, <2>1, <2>3
    <2>5. QED
      BY <1>2, <2>1, <2>2, <2>3, <2>4
  <1>8. Tracks(next, c)'
    <2>1. Boundary(off, c) /\ \A k \in 1 .. n : Unfinished(off, c, k) => Within(off, c, k)
      BY <1>h, <1>3 DEF Ghosts, Tracks
    <2>2. ASSUME NEW k \in 1 .. n + 2, c = next[k]
          PROVE  Between' /\ (CleanStart(k)' => state' = "HUNT_SYNC")
      <3>1. CASE k \in 1 .. n + 1
        <4>1. c = off[k] /\ k \in 1 .. Last
          BY <1>3, <1>7, <2>2, <3>1
        <4>2. QED
          BY <1>4, <1>6, <2>1, <3>1, <4>1 DEF Boundary, Between
      <3>2. CASE k = n + 2
        <4>1. n + 1 \in 1 .. n + 1
          OBVIOUS
        <4>2. next[n + 1] = off[n + 1]
          BY <1>7, <4>1
        <4>3. c = off[n + 1]
          BY <1>7, <2>2, <3>2, <4>2
        <4>4. QED
          BY <1>3, <1>4, <1>6, <2>1, <3>2, <4>1, <4>3 DEF Boundary, Between
      <3>3. QED
        BY <3>1, <3>2
    <2>3. ASSUME NEW k \in 1 .. n + 1, Unfinished(next, c, k)'
          PROVE  Within(next, c, k)'
      <3>1. CASE k \in 1 .. n
        <4>1. k \in 1 .. n + 1 /\ k + 1 \in 1 .. n + 1
          BY <3>1
        <4>2. next[k] = off[k] /\ next[k + 1] = off[k + 1]
          BY <1>7, <4>1
        <4>3. Unfinished(off, c, k)
          BY <1>5, <2>3, <3>1, <4>2 DEF Unfinished
        <4>4. Within(off, c, k)
          BY <2>1, <3>1, <4>3
        <4>5. Reading(Pay(k), c - off[k]) <=> Reading(Pay(k), c - next[k])'
          BY <1>4, <1>5, <3>1, <4>2 DEF Reading
        <4>6. Skips(off, c, k) <=> Skips(next, c, k)'
          BY <1>4, <1>5, <1>6, <3>1, <4>1, <4>2 DEF Skips
        <4>7. QED
          BY <1>4, <1>5, <3>1, <4>4, <4>5, <4>6 DEF Within, Between
      <3>2. CASE k = n + 1
        <4>1. next[n + 1] = off[n + 1]
          BY <1>7
        <4>2. ~ (next[k] < c)
          BY <1>7, <3>2, <4>1
        <4>3. QED
          BY <2>3, <4>2 DEF Unfinished
      <3>3. QED
        BY <3>1, <3>2
    <2>4. QED
      BY <1>3, <2>2, <2>3 DEF Tracks, Boundary
  <1>9. Placed(next, c, place)'
    <2>1. \A k \in 1 .. n + 1 : Safe(k)' => k \in 1 .. n
      BY <1>6
    <2>2. \A k \in 1 .. n : next[k + 1] = off[k + 1]
      <3>1. \A k \in 1 .. n : k + 1 \in 1 .. n + 1
        OBVIOUS
      <3>2. QED
        BY <1>7, <3>1
    <2>3. QED
      BY <1>h, <1>3, <1>4, <1>5, <1>6, <2>1, <2>2 DEF Ghosts, Placed
  <1>10. ASSUME AllAccepted' PROVE Counted(next, c)'
    <2>1. AllAccepted
      <3>1. \A k \in 1 .. n : k \in 1 .. n + 1
        OBVIOUS
      <3>2. QED
        BY <1>3, <1>5, <1>10, <3>1 DEF AllAccepted
    <2>2. PICK d \in 0 .. n : CountedAt(off, c, d)
      BY <1>h, <1>3, <2>1 DEF Ghosts, Counted
    <2>3. HeldUpTo(d)' = HeldUpTo(d)
      <3>1. \A k \in 1 .. d : k \in 1 .. n
        OBVIOUS
      <3>2. {k \in 1 .. d : Held(k)}' = {k \in 1 .. d : Held(k)}
        BY <1>5, <3>1
      <3>3. QED
        BY <3>2 DEF HeldUpTo
    <2>4. \A k \in 1 .. d : HeldUpTo(k)' = HeldUpTo(k) /\ Pay(k)' = Pay(k) /\ (Held(k)' <=> Held(k))
      <3>1. ASSUME NEW k \in 1 .. d PROVE HeldUpTo(k)' = HeldUpTo(k)
        <4>1. \A j \in 1 .. k : j \in 1 .. n
          OBVIOUS
        <4>2. {j \in 1 .. k : Held(j)}' = {j \in 1 .. k : Held(j)}
          BY <1>5, <4>1
        <4>3. QED
          BY <4>2 DEF HeldUpTo
      <3>2. \A k \in 1 .. d : k \in 1 .. n
        OBVIOUS
      <3>3. QED
        BY <1>5, <3>1, <3>2
    <2>5. ASSUME NEW k \in 1 .. n + 1 PROVE k <= d <=> Done(next, c, k)'
      <3>1. CASE k \in 1 .. n
        <4>1. k + 1 \in 1 .. n + 1
          BY <3>1
        <4>2. next[k + 1] = off[k + 1]
          BY <1>7, <4>1
        <4>3. Done(next, c, k)' <=> Done(off, c, k)
          BY <1>5, <3>1, <4>2 DEF Done
        <4>4. QED
          BY <1>3, <2>2, <3>1, <4>3 DEF CountedAt
      <3>2. CASE k = n + 1
        BY <1>5, <3>2 DEF Done
      <3>3. QED
        BY <3>1, <3>2
    <2>6. GivenUp(next, c, d + 1)' <=> GivenUp(off, c, d + 1)
      <3>1. CASE d + 1 <= n
        <4>1. d + 1 \in 1 .. n + 1
          BY <3>1
        <4>2. next[d + 1] = off[d + 1]
          BY <1>7, <4>1
        <4>3. QED
          BY <1>3, <1>4, <3>1, <4>2 DEF GivenUp
      <3>2. CASE d = n
        <4>1. next[n + 1] = off[n + 1]
          BY <1>7
        <4>2. capacity \in Nat
          BY CapacitiesAssumption, WAssumption DEF AbfInv, AbfTypeOK
        <4>3. ~ (c > off[n + 1] + HEADER_SIZE + capacity)
          BY <1>7, <4>2
        <4>4. QED
          BY <1>3, <1>4, <3>2, <4>1, <4>3 DEF GivenUp
      <3>3. QED
        BY <3>1, <3>2
    <2>7. /\ Len(delivered) = HeldUpTo(d)
          /\ \A k \in 1 .. d : Held(k) => delivered[HeldUpTo(k)] = Pay(k)
          /\ errors = d - HeldUpTo(d) + (IF GivenUp(off, c, d + 1) THEN 1 ELSE 0)
      BY <2>2 DEF CountedAt
    <2>8. CountedAt(next, c, d)'
      BY <1>3, <1>4, <2>3, <2>4, <2>5, <2>6, <2>7 DEF CountedAt
    <2>9. d \in 0 .. Len(sent')
      BY <1>3
    <2>10. QED
      BY <2>8, <2>9 DEF Counted
  <1>11. Layout(U, next, c)'
    BY <1>2
  <1>12. Ghosts(U, next, c, place)'
    BY <1>8, <1>9, <1>10, <1>11 DEF Ghosts
  <1>13. QED
    BY <1>12

\* A payload sent, or refused, disturbs nothing of what came before.
LEMMA SendPayloadGhosts ==
    ASSUME AbfInv, NEW T, NEW off, NEW c, NEW place
    PROVE  Ghosts(T, off, c, place) /\ SendPayload =>
             \E U, next : Ghosts(U, next, c, place)'
  <1>h. HAVE Ghosts(T, off, c, place) /\ SendPayload
  <1>1. PICK n \in Nat \ {0} : \E U, next :
               /\ n = Len(sent) /\ Layout(U, next, c)'
               /\ Len(sent') = n /\ \A k \in 1 .. n - 1 : sent'[k] = sent[k]
               /\ sent[n].body = "pending" /\ sent'[n].body \in {"in", "refused"}
               /\ sent'[n].payload = sent[n].payload /\ sent'[n].head = sent[n].head
               /\ \A k \in 1 .. n : next[k] = off[k]
               /\ next[n + 1] = off[n + 1] + BodyLen(n)'
               /\ c \in Nat /\ off[n + 1] \in Nat /\ c <= off[n + 1]
    BY <1>h, SendPayloadLayout DEF Ghosts
  <1>2. PICK U, next :
               /\ n = Len(sent) /\ Layout(U, next, c)'
               /\ Len(sent') = n /\ \A k \in 1 .. n - 1 : sent'[k] = sent[k]
               /\ sent[n].body = "pending" /\ sent'[n].body \in {"in", "refused"}
               /\ sent'[n].payload = sent[n].payload /\ sent'[n].head = sent[n].head
               /\ \A k \in 1 .. n : next[k] = off[k]
               /\ next[n + 1] = off[n + 1] + BodyLen(n)'
               /\ c \in Nat /\ off[n + 1] \in Nat /\ c <= off[n + 1]
    BY <1>1
  <1>3. n = Len(sent) /\ Last = n + 1 /\ Len(sent') = n /\ Last' = n + 1 /\ n \in 1 .. n
    BY <1>2 DEF Last
  <1>4. /\ capacity' = capacity /\ state' = state /\ mem' = mem /\ header' = header
        /\ headerPos' = headerPos /\ rxPos' = rxPos /\ nextZero' = nextZero
        /\ delivered' = delivered /\ errors' = errors
    BY <1>h DEF SendPayload, decoder
  <1>5. /\ \A k \in 1 .. n : /\ Pay(k)' = Pay(k) /\ (Held(k)' <=> Held(k))
                             /\ sent'[k].head = sent[k].head
        /\ \A k \in 1 .. n - 1 : sent'[k] = sent[k] /\ (Accepted(k)' <=> Accepted(k))
    <2>1. \A k \in 1 .. n : k = n \/ k \in 1 .. n - 1
      OBVIOUS
    <2>2. QED
      BY <1>2, <1>4, <2>1 DEF Pay, Held, Accepted
  <1>6. /\ \A k \in 1 .. n : CleanStart(k)' <=> CleanStart(k)
        /\ \A k \in 1 .. n - 1 : Safe(k)' <=> Safe(k)
    <2>1. \A k \in 1 .. n : k = 1 \/ k - 1 \in 1 .. n - 1
      OBVIOUS
    <2>2. \A k \in 1 .. n : CleanStart(k)' <=> CleanStart(k)
      BY <1>5, <2>1 DEF CleanStart
    <2>3. \A k \in 1 .. n - 1 : k \in 1 .. n
      OBVIOUS
    <2>4. QED
      BY <1>5, <2>2, <2>3 DEF Safe
  <1>7. /\ c \in Nat /\ off[n + 1] \in Nat /\ c <= off[n + 1]
        /\ \A k \in 1 .. n : next[k] = off[k]
        /\ \A k \in 1 .. n - 1 : next[k + 1] = off[k + 1]
    <2>1. \A k \in 1 .. n - 1 : k + 1 \in 1 .. n
      OBVIOUS
    <2>2. QED
      BY <1>2, <2>1
  \* The bytes of an accepted payload are still to come.
  <1>8. sent'[n].body = "in" => ~ (next[n + 1] <= c)
    <2>1. SUFFICES ASSUME sent'[n].body = "in" PROVE ~ (next[n + 1] <= c)
      OBVIOUS
    <2>2. Len(Pay(n)) \in 1 .. W - 1
      BY <1>3, FrameFacts
    <2>3. BodyLen(n)' = Len(Pay(n)) /\ Len(Pay(n)) \in Nat /\ Len(Pay(n)) > 0
      BY <1>5, <1>3, <2>1, <2>2, WAssumption DEF BodyLen
    <2>4. next[n + 1] = off[n + 1] + Len(Pay(n))
      BY <1>2, <2>3
    <2>5. QED
      BY <1>7, <2>3, <2>4
  <1>9. sent'[n].body = "refused" => next[n + 1] = off[n + 1]
    BY <1>2 DEF BodyLen
  <1>10. Tracks(next, c)'
    <2>1. Boundary(off, c) /\ \A k \in 1 .. n : Unfinished(off, c, k) => Within(off, c, k)
      BY <1>h, <1>3 DEF Ghosts, Tracks
    <2>2. c = off[n + 1] => Between
      <3>1. SUFFICES ASSUME c = off[n + 1] PROVE Between
        OBVIOUS
      <3>2. off[n] \in Nat /\ off[n] <= off[n + 1] /\ off[n + 1] = off[n] + HeadLen(n)
        <4>1. off \in [Nat -> Nat] /\ n \in Nat
          BY <1>h DEF Ghosts, Layout, Offsets
        <4>2. off[n + 1] = off[n] + HeadLen(n) + BodyLen(n)
          BY <1>h, <1>3 DEF Ghosts, Layout, Offsets
        <4>3. BodyLen(n) = 0 /\ HeadLen(n) \in {0, HEADER_SIZE}
          BY <1>2, <1>3, FrameFacts DEF BodyLen
        <4>4. off[n] \in Nat
          BY <4>1
        <4>5. QED
          BY <4>2, <4>3, <4>4
      <3>3. CASE off[n] = c
        <4>1. n \in 1 .. Last
          BY <1>3
        <4>2. QED
          BY <2>1, <3>3, <4>1 DEF Boundary
      <3>4. CASE off[n] < c
        <4>1. Within(off, c, n)
          BY <1>2, <1>3, <2>1, <3>1, <3>4 DEF Unfinished
        <4>2. CASE ~sent[n].head
          BY <4>1, <4>2 DEF Within
        <4>3. CASE sent[n].head
          <5>1. HeadLen(n) = HEADER_SIZE
            BY <4>3 DEF HeadLen
          <5>2. c - off[n] = HEADER_SIZE
            BY <3>1, <3>2, <5>1
          <5>3. Reading(Pay(n), HEADER_SIZE) \/ Skips(off, c, n)
            BY <4>1, <4>3, <5>2 DEF Within
          <5>4. QED
            BY <5>3 DEF Reading, Skips, Between
        <4>4. QED
          BY <4>2, <4>3
      <3>5. QED
        BY <1>7, <3>1, <3>2, <3>3, <3>4
    <2>3. ASSUME NEW k \in 1 .. n + 1, c = next[k]
          PROVE  Between' /\ (CleanStart(k)' => state' = "HUNT_SYNC")
      <3>1. CASE k \in 1 .. n
        <4>1. c = off[k] /\ k \in 1 .. Last
          BY <1>3, <1>7, <2>3, <3>1
        <4>2. QED
          BY <1>4, <1>6, <2>1, <3>1, <4>1 DEF Boundary, Between
      <3>2. CASE k = n + 1
        <4>1. sent'[n].body # "in"
          <5>1. next[n + 1] <= c
            BY <1>7, <2>3, <3>2
          <5>2. QED
            BY <1>8, <5>1
        <4>2. c = off[n + 1]
          BY <1>2, <1>9, <2>3, <3>2, <4>1
        <4>3. k # 1 /\ k - 1 = n
          BY <3>2
        <4>4. ~CleanStart(k)'
          BY <4>1, <4>3 DEF CleanStart, Accepted
        <4>5. QED
          BY <1>4, <2>2, <4>2, <4>4 DEF Between
      <3>3. QED
        BY <3>1, <3>2
    <2>4. ASSUME NEW k \in 1 .. n, Unfinished(next, c, k)'
          PROVE  Within(next, c, k)'
      <3>1. next[k] = off[k]
        BY <1>7
      <3>2. Unfinished(off, c, k)
        <4>1. CASE k \in 1 .. n - 1
          <5>1. next[k + 1] = off[k + 1] /\ sent'[k].body = sent[k].body
            BY <1>5, <1>7, <4>1
          <5>2. QED
            BY <2>4, <3>1, <5>1 DEF Unfinished
        <4>2. CASE k = n
          <5>1. c < off[n + 1] \/ c = off[n + 1]
            BY <1>7
          <5>2. QED
            BY <1>2, <2>4, <3>1, <4>2, <5>1 DEF Unfinished
        <4>3. QED
          BY <4>1, <4>2
      <3>3. Within(off, c, k)
        BY <2>1, <3>2
      <3>4. Reading(Pay(k), c - off[k]) <=> Reading(Pay(k), c - next[k])'
        BY <1>4, <1>5, <3>1 DEF Reading
      <3>5. Skips(off, c, k) <=> Skips(next, c, k)'
        BY <1>4, <1>5, <1>6, <3>1 DEF Skips
      <3>6. QED
        BY <1>4, <1>5, <3>3, <3>4, <3>5 DEF Within, Between
    <2>5. QED
      BY <1>3, <2>3, <2>4 DEF Tracks, Boundary
  <1>11. Placed(next, c, place)'
    <2>1. \A k \in 1 .. n : Safe(k)' /\ next[k + 1] <= c => k \in 1 .. n - 1
      <3>1. \A k \in 1 .. n : k = n \/ k \in 1 .. n - 1
        OBVIOUS
      <3>2. QED
        BY <1>8, <3>1 DEF Safe, Accepted
    <2>2. /\ place \in [Nat -> Nat]
          /\ \A k \in 1 .. n : Safe(k) /\ off[k + 1] <= c =>
                 place[k] \in 1 .. Len(delivered) /\ delivered[place[k]] = Pay(k)
          /\ \A j, k \in 1 .. n : j < k /\ Safe(j) /\ Safe(k) /\ off[k + 1] <= c => place[j] < place[k]
      BY <1>h, <1>3 DEF Ghosts, Placed
    <2>3. ASSUME NEW k \in 1 .. n, Safe(k)', next[k + 1] <= c
          PROVE  k \in 1 .. n - 1 /\ Safe(k) /\ off[k + 1] <= c /\ Pay(k)' = Pay(k)
      BY <1>5, <1>6, <1>7, <2>1, <2>3
    <2>4. ASSUME NEW j \in 1 .. n, NEW k \in 1 .. n, j < k, Safe(j)', Safe(k)', next[k + 1] <= c
          PROVE  place[j] < place[k]
      <3>1. k \in 1 .. n - 1 /\ Safe(k) /\ off[k + 1] <= c
        BY <2>3, <2>4
      <3>2. j \in 1 .. n - 1
        BY <2>4, <3>1
      <3>3. Safe(j)
        BY <1>6, <2>4, <3>2
      <3>4. QED
        BY <2>2, <2>4, <3>1, <3>3
    <2>5. QED
      BY <1>3, <1>4, <2>2, <2>3, <2>4 DEF Placed
  <1>12. ASSUME AllAccepted' PROVE Counted(next, c)'
    <2>1. AllAccepted /\ sent'[n].body = "in"
      <3>1. \A k \in 1 .. n : sent[k].head /\ sent'[k].body # "refused"
        BY <1>3, <1>5, <1>12 DEF AllAccepted
      <3>2. \A k \in 1 .. n : k = n \/ k \in 1 .. n - 1
        OBVIOUS
      <3>3. QED
        BY <1>2, <1>3, <1>5, <3>1, <3>2 DEF AllAccepted
    <2>2. PICK d \in 0 .. n : CountedAt(off, c, d)
      BY <1>h, <1>3, <2>1 DEF Ghosts, Counted
    <2>3. d < n
      <3>1. ~Done(off, c, n)
        BY <1>2 DEF Done
      <3>2. ~ (n <= d)
        BY <1>3, <2>2, <3>1 DEF CountedAt
      <3>3. QED
        BY <3>2
    <2>4. \A k : k \in 1 .. d => k \in 1 .. n
      BY <2>3
    <2>5. HeldUpTo(d)' = HeldUpTo(d)
      <3>1. {k \in 1 .. d : Held(k)}' = {k \in 1 .. d : Held(k)}
        BY <1>5, <2>4
      <3>2. QED
        BY <3>1 DEF HeldUpTo
    <2>6. \A k \in 1 .. d : HeldUpTo(k)' = HeldUpTo(k) /\ Pay(k)' = Pay(k) /\ (Held(k)' <=> Held(k))
      <3>1. ASSUME NEW k \in 1 .. d PROVE HeldUpTo(k)' = HeldUpTo(k)
        <4>1. \A j \in 1 .. k : j \in 1 .. n
          OBVIOUS
        <4>2. {j \in 1 .. k : Held(j)}' = {j \in 1 .. k : Held(j)}
          BY <1>5, <4>1
        <4>3. QED
          BY <4>2 DEF HeldUpTo
      <3>2. QED
        BY <1>5, <2>4, <3>1
    <2>7. ASSUME NEW k \in 1 .. n PROVE k <= d <=> Done(next, c, k)'
      <3>1. CASE k \in 1 .. n - 1
        <4>1. Done(next, c, k)' <=> Done(off, c, k)
          BY <1>5, <1>7, <3>1 DEF Done
        <4>2. QED
          BY <1>3, <2>2, <4>1 DEF CountedAt
      <3>2. CASE k = n
        BY <1>8, <2>1, <2>3, <3>2 DEF Done
      <3>3. QED
        BY <3>1, <3>2
    <2>8. GivenUp(next, c, d + 1)' <=> GivenUp(off, c, d + 1)
      <3>1. d + 1 \in 1 .. n
        BY <2>3
      <3>2. next[d + 1] = off[d + 1]
        BY <1>7, <3>1
      <3>3. QED
        BY <1>3, <1>4, <3>2 DEF GivenUp
    <2>9. /\ Len(delivered) = HeldUpTo(d)
          /\ \A k \in 1 .. d : Held(k) => delivered[HeldUpTo(k)] = Pay(k)
          /\ errors = d - HeldUpTo(d) + (IF GivenUp(off, c, d + 1) THEN 1 ELSE 0)
      BY <2>2 DEF CountedAt
    <2>10. CountedAt(next, c, d)'
      BY <1>3, <1>4, <2>5, <2>6, <2>7, <2>8, <2>9 DEF CountedAt
    <2>11. QED
      BY <1>3, <2>10 DEF Counted
  <1>13. Ghosts(U, next, c, place)'
    BY <1>2, <1>10, <1>11, <1>12 DEF Ghosts
  <1>14. QED
    BY <1>13

\* What a write refused or a zero code breaks stays broken.
LEMMA RegularBefore ==
    ASSUME AbfInv, [Next]_vars, Regular'
    PROVE  Regular
  <1>1. /\ Len(sent) \in Nat /\ Len(sent') \in Nat /\ Len(sent) <= Len(sent')
        /\ \A k \in 1 .. Len(sent) : /\ sent'[k].payload = sent[k].payload /\ sent'[k].head = sent[k].head
                                     /\ sent'[k].body # "refused" => sent[k].body # "refused"
    <2>1. sent \in Seq(Frame) /\ Len(sent) \in Nat
      BY DEF AbfInv
    <2>2. CASE sent' = sent
      BY <2>1, <2>2
    <2>3. ASSUME NEW p \in Payloads, SendHeader(p)
          PROVE  Len(sent') = Len(sent) + 1 /\ \A k \in 1 .. Len(sent) : sent'[k] = sent[k]
      BY <2>1, <2>3 DEF SendHeader
    <2>4. CASE SendPayload
      <3>1. PICK n : n = Len(sent)
        OBVIOUS
      <3>2. n \in 1 .. Len(sent) /\ sent[n].body = "pending" /\ sent[n] \in Frame
        BY <2>1, <2>4, <3>1 DEF SendPayload, Sending
      <3>3. PICK b : sent' = [sent EXCEPT ![n].body = b]
        BY <2>4, <3>1 DEF SendPayload
      <3>4. Len(sent') = Len(sent)
        BY <2>1, <3>3
      <3>5. \A k \in 1 .. Len(sent) : k # n => sent'[k] = sent[k]
        BY <2>1, <3>3
      <3>6. sent'[n].payload = sent[n].payload /\ sent'[n].head = sent[n].head
        BY <2>1, <3>2, <3>3 DEF Frame
      <3>7. QED
        BY <2>1, <3>2, <3>4, <3>5, <3>6
    <2>5. ASSUME NEW m \in 0 .. Room, Read(m) PROVE sent' = sent
      BY <2>5 DEF Read
    <2>6. CASE Process
      BY <2>6 DEF Process, HuntSync, HeaderByte, HeaderEnd, StoreByte, Incomplete, BufferSmall, EmptyFrame, NextByte
    <2>7. CASE UNCHANGED vars
      BY <2>7 DEF vars
    <2>8. CASE \E p \in Payloads : SendHeader(p)
      BY <2>1, <2>3, <2>8
    <2>9. QED
      BY <2>2, <2>4, <2>5, <2>6, <2>7, <2>8 DEF Next
  <1>2. \A k \in 1 .. Len(sent) : k \in 1 .. Len(sent')
    BY <1>1
  <1>3. CASE AllAccepted'
    BY <1>1, <1>2, <1>3 DEF AllAccepted, Regular
  <1>4. CASE \A k \in 1 .. Len(sent') : Code(Pay(k)') # 0
    BY <1>1, <1>2, <1>4 DEF Regular, Pay
  <1>5. QED
    BY <1>3, <1>4 DEF Regular

\* Steps that leave the frames, the decoder and what it delivered alone.
LEMMA QuietStep ==
    ASSUME NEW T, NEW off, NEW c, NEW place,
           sent' = sent, capacity' = capacity, mem' = mem, state' = state, header' = header,
           headerPos' = headerPos, rxPos' = rxPos, nextZero' = nextZero,
           delivered' = delivered, errors' = errors
    PROVE  Ghosts(T, off, c, place) /\ Layout(T, off, c)' => Ghosts(T, off, c, place)'
  <1>h. HAVE Ghosts(T, off, c, place) /\ Layout(T, off, c)'
  <1>1. Tracks(off, c)'
    BY <1>h DEF Ghosts, Tracks, Boundary, Between, Unfinished, Within, Skips, Reading,
                Last, CleanStart, Accepted, Held, Pay
  <1>2. Placed(off, c, place)'
    BY <1>h DEF Ghosts, Placed, Safe, CleanStart, Accepted, Held, Pay
  <1>3. AllAccepted' => Counted(off, c)'
    BY <1>h DEF Ghosts, AllAccepted, Counted, CountedAt, Done, HeldUpTo, GivenUp, Held, Pay
  <1>4. QED
    BY <1>h, <1>1, <1>2, <1>3 DEF Ghosts

\* A byte processed.
LEMMA ProcessGhosts ==
    ASSUME AbfInv, ~Shared, NEW T, NEW off, NEW c, NEW place
    PROVE  Ghosts(T, off, c, place) /\ Regular /\ Process =>
             \E next : Ghosts(T, off, c + 1, next)'
  <1>h. HAVE Ghosts(T, off, c, place) /\ Regular /\ Process
  <1>1. NextByte
    BY <1>h DEF Process, HuntSync, HeaderByte, HeaderEnd, StoreByte, Incomplete, BufferSmall, EmptyFrame
  <1>2. Layout(T, off, c + 1)' /\ c \in Nat /\ c < off[Last]
    BY <1>h, <1>1, NextByteLayout DEF Ghosts
  <1>3. Offsets(off)
    BY <1>h DEF Ghosts, Layout
  <1>4. PICK k \in 1 .. Len(sent) : off[k] <= c /\ c < off[k + 1]
    BY <1>2, <1>3, Locate
  <1>5. Outcome(off, c, k)
    BY <1>h, <1>4, FrameStep DEF Ghosts
  <1>6. Tracks(off, c + 1)'
    BY <1>h, <1>1, <1>4, <1>5, TracksStep DEF Ghosts
  <1>7. PICK next : Placed(off, c + 1, next)'
    BY <1>h, <1>1, <1>2, <1>3, <1>4, <1>5, PlacedStep DEF Ghosts
  <1>8. ASSUME AllAccepted' PROVE Counted(off, c + 1)'
    <2>1. AllAccepted
      BY <1>1, <1>8 DEF NextByte, AllAccepted
    <2>2. QED
      BY <1>h, <1>1, <1>2, <1>4, <1>5, <2>1, CountedStep DEF Ghosts
  <1>9. Ghosts(T, off, c + 1, next)'
    BY <1>2, <1>6, <1>7, <1>8 DEF Ghosts
  <1>10. QED
    BY <1>9

\* At first nothing is sent, processed or delivered.
LEMMA InitGhosts == Init => FrameInv
  <1> SUFFICES ASSUME Init PROVE FrameInv
    OBVIOUS
  <1>1. AbfInv
    BY InitType
  <1>2. PICK z : z = [i \in Nat |-> 0]
    OBVIOUS
  <1>3. /\ sent = << >> /\ chunk = << >> /\ link = << >> /\ delivered = << >> /\ errors = 0
        /\ state = "HUNT_SYNC" /\ Len(sent) = 0 /\ Last = 1
    BY DEF Init, Last
  <1>4. 0 \in Byte
    BY WAssumption DEF Byte
  <1>5. z \in [Nat -> Nat] /\ z \in [Nat -> Byte] /\ z[1] = 0
    BY <1>2, <1>4
  <1>6. Layout(z, z, 0)
    BY <1>3, <1>5 DEF Layout, OnlyLastPends, Offsets, Carries, InFlight
  <1>7. Tracks(z, 0)
    BY <1>3 DEF Tracks, Boundary, Between
  <1>8. Placed(z, 0, z)
    BY <1>3, <1>5 DEF Placed
  <1>9. Counted(z, 0)
    <2>1. HeldUpTo(0) = 0
      BY HeldCount
    <2>2. CountedAt(z, 0, 0)
      BY <1>3, <2>1 DEF CountedAt, GivenUp
    <2>3. QED
      BY <1>3, <2>2 DEF Counted
  <1>10. QED
    BY <1>1, <1>6, <1>7, <1>8, <1>9 DEF FrameInv, Ghosts

\* A stuttering step.
LEMMA StutterType == ASSUME AbfInv, UNCHANGED vars PROVE AbfInv'
  BY DEF vars, decoder, AbfInv, AbfTypeOK

\* Every step keeps the invariant.
LEMMA NextGhosts ==
    ASSUME ~Shared, FrameInv, [Next]_vars
    PROVE  FrameInv'
  <1>1. AbfInv /\ AbfInv'
    <2>1. AbfInv
      BY DEF FrameInv
    <2>2. QED
      BY <2>1, SenderType, ReadType, ProcessType, StutterType DEF Next
  <1>2. SUFFICES ASSUME Regular' PROVE \E T, off, c, place : Ghosts(T, off, c, place)'
    BY <1>1 DEF FrameInv
  <1>3. Regular
    BY <1>1, <1>2, RegularBefore
  <1>4. PICK T, off, c, place : Ghosts(T, off, c, place)
    BY <1>3 DEF FrameInv
  <1>5. ASSUME NEW p \in Payloads, SendHeader(p)
        PROVE  \E U, o, d, q : Ghosts(U, o, d, q)'
    BY <1>1, <1>4, <1>5, SendHeaderGhosts
  <1>6. CASE SendPayload
    BY <1>1, <1>4, <1>6, SendPayloadGhosts
  <1>7. ASSUME NEW n \in 0 .. Room, Read(n)
        PROVE  \E U, o, d, q : Ghosts(U, o, d, q)'
    <2>1. Layout(T, off, c)'
      BY <1>1, <1>4, <1>7, ReadLayout DEF Ghosts
    <2>2. mem' = mem
      BY <1>7 DEF Read, Overwritten
    <2>3. Ghosts(T, off, c, place)'
      BY <1>4, <1>7, <2>1, <2>2, QuietStep DEF Read
    <2>4. QED
      BY <2>3
  <1>8. CASE Process
    BY <1>1, <1>3, <1>4, <1>8, ProcessGhosts
  <1>9. CASE UNCHANGED vars
    <2>1. sent' = sent /\ link' = link /\ chunk' = chunk
      BY <1>9 DEF vars
    <2>2. /\ Last' = Last
          /\ \A k : HeadLen(k)' = HeadLen(k) /\ BodyLen(k)' = BodyLen(k) /\ Pay(k)' = Pay(k)
      BY <2>1 DEF Last, HeadLen, BodyLen, Pay
    <2>3. OnlyLastPends' /\ Offsets(off)'
      BY <1>4, <2>1, <2>2 DEF Ghosts, Layout, OnlyLastPends, Offsets
    <2>4. Carries(T, off)' /\ InFlight(T, off, c)'
      BY <1>4, <2>1, <2>2 DEF Ghosts, Layout, Carries, InFlight
    <2>5. Ghosts(T, off, c, place)'
      BY <1>4, <1>9, <2>3, <2>4, QuietStep DEF vars, decoder, Layout
    <2>6. QED
      BY <2>5
  <1>10. QED
    BY <1>5, <1>6, <1>7, <1>8, <1>9 DEF Next

\* When nothing is in flight every frame is processed.
LEMMA DrainedAll ==
    ASSUME AbfInv, NEW T, NEW off, NEW c
    PROVE  Layout(T, off, c) /\ Drained =>
             \A k \in 1 .. Len(sent) : off[k + 1] <= c /\ sent[k].body # "pending"
  <1>h. HAVE Layout(T, off, c) /\ Drained
  <1>1. Len(sent) \in Nat /\ Last = Len(sent) + 1 /\ off \in [Nat -> Nat] /\ c \in Nat
    <2>1. Len(sent) \in Nat
      BY DEF AbfInv
    <2>2. Last = Len(sent) + 1
      BY DEF Last
    <2>3. off \in [Nat -> Nat]
      BY <1>h DEF Layout, Offsets
    <2>4. c \in Nat
      BY <1>h DEF Layout, InFlight
    <2>5. QED
      BY <2>1, <2>2, <2>3, <2>4
  <1>2. c = off[Last]
    <2>1. c + Len(chunk) + Len(link) = off[Last] /\ Len(chunk) = 0 /\ Len(link) = 0
      BY <1>h DEF Layout, InFlight, Drained
    <2>2. QED
      BY <1>1, <2>1
  <1>3. TAKE k \in 1 .. Len(sent)
  <1>4. off[k + 1] <= c
    <2>1. k + 1 \in 1 .. Last /\ Last \in 1 .. Last /\ k + 1 <= Last
      BY <1>1
    <2>2. QED
      BY <1>h, <1>2, <2>1 DEF Layout, Offsets
  <1>5. sent[k].body # "pending"
    <2>1. sent # << >>
      BY <1>3
    <2>2. sent[Len(sent)].body # "pending"
      BY <1>h, <2>1 DEF Drained, Sending
    <2>3. sent[k].body = "pending" => k = Len(sent)
      BY <1>h, <1>3 DEF Layout, OnlyLastPends
    <2>4. QED
      BY <2>2, <2>3
  <1>6. QED
    BY <1>4, <1>5

\* The frames counted are the ones Intact asks for.
LEMMA FrameInvIntact == FrameInv => Intact
  <1>1. SUFFICES ASSUME FrameInv, AllAccepted
                 PROVE  /\ \E n \in 0 .. Len(sent) :
                               /\ Len(delivered) = HeldUpTo(n)
                               /\ \A k \in 1 .. n : Held(k) => delivered[HeldUpTo(k)] = sent[k].payload
                        /\ Drained => /\ Len(delivered) = HeldUpTo(Len(sent))
                                      /\ errors = Len(sent) - HeldUpTo(Len(sent))
    BY DEF Intact
  <1>2. AbfInv
    BY <1>1 DEF FrameInv
  <1>3. PICK T, off, c, place : Ghosts(T, off, c, place)
    BY <1>1 DEF FrameInv, Regular
  <1>4. PICK d \in 0 .. Len(sent) : CountedAt(off, c, d)
    BY <1>1, <1>3 DEF Ghosts, Counted
  <1>5. /\ Len(delivered) = HeldUpTo(d)
        /\ \A k \in 1 .. d : Held(k) => delivered[HeldUpTo(k)] = sent[k].payload
    BY <1>4 DEF CountedAt, Pay
  <1>6. ASSUME Drained PROVE d = Len(sent) /\ errors = d - HeldUpTo(d)
    <2>1. Len(sent) \in Nat
      BY <1>2 DEF AbfInv
    <2>2. d = Len(sent)
      <3>1. SUFFICES ASSUME d # Len(sent) PROVE FALSE
        OBVIOUS
      <3>2. d + 1 \in 1 .. Len(sent) /\ ~ (d + 1 <= d)
        BY <2>1, <3>1
      <3>3. Done(off, c, d + 1)
        BY <1>2, <1>3, <1>6, <3>2, DrainedAll DEF Ghosts, Done
      <3>4. QED
        BY <1>4, <3>2, <3>3 DEF CountedAt
    <2>3. ~GivenUp(off, c, d + 1)
      BY <2>1, <2>2 DEF GivenUp
    <2>4. HeldUpTo(d) \in Nat
      BY HeldCount
    <2>5. errors = d - HeldUpTo(d)
      BY <1>4, <2>3, <2>4 DEF CountedAt
    <2>6. QED
      BY <2>2, <2>5
  <1>7. QED
    BY <1>5, <1>6

\* The places are the ones LossBounded asks for.
LEMMA FrameInvLossBounded == FrameInv => LossBounded
  <1> DEFINE safe == {k \in 1 .. Len(sent) : Safe(k)}
  <1>1. SUFFICES ASSUME FrameInv, Drained, \A k \in 1 .. Len(sent) : Code(sent[k].payload) # SYNC_BYTE
                 PROVE  \E place \in [safe \cup {0} -> 0 .. Len(delivered)] :
                          /\ \A j, k \in safe \cup {0} : j < k => place[j] < place[k]
                          /\ \A k \in safe : delivered[place[k]] = sent[k].payload
    BY DEF LossBounded
  <1>2. AbfInv /\ Regular
    BY <1>1 DEF FrameInv, Regular, Pay
  <1>3. PICK T, off, c, place : Ghosts(T, off, c, place)
    BY <1>1, <1>2 DEF FrameInv
  <1>4. /\ \A k \in safe : place[k] \in 1 .. Len(delivered) /\ delivered[place[k]] = sent[k].payload
        /\ \A j, k \in safe : j < k => place[j] < place[k]
    <2>1. \A k \in safe : k \in 1 .. Len(sent) /\ Safe(k) /\ off[k + 1] <= c
      BY <1>1, <1>2, <1>3, DrainedAll DEF Ghosts
    <2>2. QED
      BY <1>3, <2>1 DEF Ghosts, Placed, Pay
  <1>5. PICK q : q = [k \in safe \cup {0} |-> IF k = 0 THEN 0 ELSE place[k]]
    OBVIOUS
  <1>6. 0 \notin safe /\ (\A k \in safe : k \in Nat /\ k > 0) /\ Len(delivered) \in Nat
    BY <1>2 DEF AbfInv
  <1> HIDE DEF safe
  <1>7. q[0] = 0 /\ \A k \in safe : q[k] = place[k]
    BY <1>5, <1>6
  <1>8. q \in [safe \cup {0} -> 0 .. Len(delivered)]
    <2>1. \A k \in safe \cup {0} : (IF k = 0 THEN 0 ELSE place[k]) \in 0 .. Len(delivered)
      BY <1>4, <1>6
    <2>2. QED
      BY <1>5, <2>1
  <1>9. \A j, k \in safe \cup {0} : j < k => q[j] < q[k]
    <2>1. SUFFICES ASSUME NEW j \in safe \cup {0}, NEW k \in safe \cup {0}, j < k
                   PROVE  q[j] < q[k]
      OBVIOUS
    <2>2. k \in safe
      BY <1>6, <2>1
    <2>3. CASE j \in safe
      BY <1>4, <1>7, <2>1, <2>2, <2>3
    <2>4. CASE j = 0
      <3>1. q[k] \in 1 .. Len(delivered) /\ q[j] = 0
        BY <1>4, <1>7, <2>2, <2>4
      <3>2. QED
        BY <1>6, <3>1
    <2>5. QED
      BY <2>3, <2>4
  <1>10. \A k \in safe : delivered[q[k]] = sent[k].payload
    BY <1>4, <1>7
  <1>11. QED
    BY <1>8, <1>9, <1>10

(***************************************************************************)
(* When the reader has a buffer of its own for the chunks, and no write is *)
(* refused, the payloads its receive buffer holds are delivered as they    *)
(* were sent, in order and once each, and the others are reported.         *)
(***************************************************************************)
THEOREM AbfIntact == ~Shared => (Spec => []Intact)
  <1>1. SUFFICES ASSUME ~Shared PROVE Spec => []Intact
    OBVIOUS
  <1>2. FrameInv /\ [Next]_vars => FrameInv'
    BY <1>1, NextGhosts
  <1>3. QED
    BY <1>2, InitGhosts, FrameInvIntact, PTL DEF Spec

(***************************************************************************)
(* And when writes are refused, a header here, a payload there, a frame    *)
(* that got in whole after another that did is delivered as it was sent.   *)
(***************************************************************************)
THEOREM AbfLossBounded == ~Shared => (Spec => []LossBounded)
  <1>1. SUFFICES ASSUME ~Shared PROVE Spec => []LossBounded
    OBVIOUS
  <1>2. FrameInv /\ [Next]_vars => FrameInv'
    BY <1>1, NextGhosts
  <1>3. QED
    BY <1>2, InitGhosts, FrameInvLossBounded, PTL DEF Spec
=============================================================================
