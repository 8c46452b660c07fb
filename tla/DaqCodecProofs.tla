--------------------------- MODULE DaqCodecProofs ---------------------------
(***************************************************************************)
(* What the code of DodCode does to every 16-bit residual and sample; the  *)
(* types and the room of DaqCodec for every good setup; and, from the      *)
(* pieces of a flattened sequence on, the codec's promise: what is written *)
(* (items), where the reader is among them (Place), what a byte, a control *)
(* chunk and a sample offered do to that, and the invariant of it all.     *)
(***************************************************************************)
EXTENDS DaqCodec, WellFoundedInduction, TLAPS

Word == {x \in Int : 0 <= x /\ x <= 65535}

\* The residuals that are written with VirtualBitsStart itself, which the
\* reader takes for a residual of one byte.
Gap == {d \in Int16 : 120 <= Mag(d) /\ Zigzag(d) < 256}

\* What the reader makes of the bytes of one code, in their order.
ParseCode(p, c) ==
    IF Len(c) = 1 THEN ParseByte(p, c[1])
    ELSE IF Len(c) = 2 THEN ParseByte(ParseByte(p, c[1]), c[2])
    ELSE ParseByte(ParseByte(ParseByte(p, c[1]), c[2]), c[3])

\* Quotient and remainder, for the divisors of the code.
LEMMA By2 == \A z \in Int : z % 2 = z - 2 * (z \div 2)
BY SMT
LEMMA By2Range == \A z \in Int : z % 2 \in {0, 1} /\ z \div 2 \in Int
BY SMT
LEMMA By256 == \A z \in Int : z % 256 = z - 256 * (z \div 256)
BY SMT
LEMMA By256Range == \A z \in Int : z % 256 \in Byte /\ z \div 256 \in Int
BY SMT DEF Byte
LEMMA By65536 == \A z \in Int : z % 65536 = z - 65536 * (z \div 65536)
BY SMT
LEMMA By65536Range == \A z \in Int : z % 65536 \in Word /\ z \div 65536 \in Int
BY SMT DEF Word

\* Half of an even and of an odd number.
LEMMA Halves ==
    ASSUME NEW z \in Int, NEW n \in Int
    PROVE  /\ z = 2 * n => z % 2 = 0 /\ z \div 2 = n
           /\ z = 2 * n + 1 => z % 2 = 1 /\ z \div 2 = n
<1> DEFINE q == z \div 2
           r == z % 2
<1>1. r = z - 2 * q /\ r \in {0, 1} /\ q \in Int
  BY By2, By2Range
<1> HIDE DEF q, r
<1>2. z = 2 * n => r = 0 /\ q = n
  BY <1>1
<1>3. z = 2 * n + 1 => r = 1 /\ q = n
  BY <1>1
<1> QED
  BY <1>2, <1>3 DEF q, r

\* The zigzag of a residual, and the size of it.
LEMMA ZigzagForm ==
    ASSUME NEW d \in Int16
    PROVE  /\ Mag(d) \in Nat
           /\ d >= 0 => Mag(d) = d /\ Zigzag(d) = 2 * d
           /\ d < 0 => Mag(d) = -d /\ Zigzag(d) = 2 * (-d - 1) + 1
           /\ Zigzag(d) \in Word
BY DEF Int16, Zigzag, Mag, Word

\* The reader's inverse undoes the zigzag.
LEMMA ZigzagInverse ==
    ASSUME NEW d \in Int16
    PROVE  Zigzag(d) \in Word /\ Unzigzag(Zigzag(d)) = d
<1> DEFINE z == Zigzag(d)
<1>1. z \in Word /\ z \in Int /\ d \in Int
  BY ZigzagForm DEF Int16, Word
<1> HIDE DEF z
<1>2. CASE d >= 0
  <2>1. z = 2 * d
    BY <1>2, ZigzagForm DEF z
  <2>2. z % 2 = 0 /\ z \div 2 = d
    BY <1>1, <2>1, Halves
  <2> QED
    BY <1>1, <2>2 DEF Unzigzag, z
<1>3. CASE d < 0
  <2>1. z = 2 * (-d - 1) + 1 /\ -d - 1 \in Int
    BY <1>1, <1>3, ZigzagForm DEF z
  <2>2. z % 2 = 1 /\ z \div 2 = -d - 1
    BY <1>1, <2>1, Halves
  <2>3. -(z \div 2) - 1 = d /\ z % 2 # 0
    BY <1>1, <2>2
  <2> QED
    BY <1>1, <2>3 DEF Unzigzag, z
<1> QED
  BY <1>1, <1>2, <1>3

\* The two bytes of a 16-bit number.
LEMMA TwoBytes ==
    ASSUME NEW z \in Word
    PROVE  /\ z \div 256 \in Byte /\ z % 256 \in Byte
           /\ (z \div 256) * 256 + (z % 256) = z
<1> DEFINE q == z \div 256
           r == z % 256
<1>1. r = z - 256 * q /\ r \in Byte /\ q \in Int /\ z \in Int
  BY By256, By256Range DEF Word
<1> HIDE DEF q, r
<1>2. q \in Byte /\ r \in Byte /\ q * 256 + r = z
  BY <1>1 DEF Byte, Word
<1> QED
  BY <1>2 DEF q, r

\* A residual's code is one to three bytes: its form in the three cases, for the
\* high and low byte of its zigzag.
LEMMA CodeForm ==
    ASSUME NEW d \in Int16
    PROVE  \E z \in Word, hi \in Byte, lo \in Byte :
             /\ z = Zigzag(d) /\ z = hi * 256 + lo
             /\ Mag(d) < 120 => Code(d) = <<z>> /\ z < 240
             /\ Mag(d) >= 120 /\ hi < 8 => Code(d) = <<240 + hi, lo>>
             /\ Mag(d) >= 120 /\ hi >= 8 => Code(d) = <<254, hi, lo>>
<1> DEFINE z == Zigzag(d)
<1> DEFINE hi == z \div 256
<1> DEFINE lo == z % 256
<1>1. z \in Word /\ Mag(d) \in Int
  BY ZigzagForm
<1>2. hi \in Byte /\ lo \in Byte /\ z = hi * 256 + lo
  BY <1>1, TwoBytes
<1>3. Code(d) = IF Mag(d) < 240 \div 2 THEN <<z>>
                ELSE IF hi < 8 THEN <<240 + hi, lo>> ELSE <<254, hi, lo>>
  BY DEF Code, VirtualBitsStart, Large16
<1>4. 240 \div 2 = 120
  BY SMT
<1>5. Mag(d) < 120 => z < 240
  BY ZigzagForm DEF Int16, Word
<1> HIDE DEF z, hi, lo
<1>6. /\ Mag(d) < 120 => Code(d) = <<z>>
      /\ Mag(d) >= 120 /\ hi < 8 => Code(d) = <<240 + hi, lo>>
      /\ Mag(d) >= 120 /\ hi >= 8 => Code(d) = <<254, hi, lo>>
  BY <1>1, <1>2, <1>3, <1>4 DEF Byte
<1>7. z = Zigzag(d)
  BY DEF z
<1> QED
  BY <1>1, <1>2, <1>5, <1>6, <1>7

\* What the reader's byte machine does with the first byte of a code, and with
\* the bytes after it.
LEMMA FirstByte ==
    ASSUME NEW dods, NEW b \in Byte
    PROVE  ParseByte(Idle(dods), b) = ParseDod(Idle(dods), b)
BY DEF ParseByte, Idle

LEMMA OneByte ==
    ASSUME NEW dods, NEW b \in Byte, b <= 240
    PROVE  ParseByte(Idle(dods), b) = Idle(Append(dods, Unzigzag(b)))
<1>1. ~(b > 247) /\ ~(b > 240)
  BY DEF Byte
<1>2. ParseDod(Idle(dods), b) = Took(Idle(dods), b)
  BY <1>1 DEF ParseDod, VirtualBitsStart, VirtualBitsEnd
<1>3. Idle(dods).dods = dods
  BY DEF Idle
<1> QED
  BY <1>2, <1>3, FirstByte DEF Took

LEMMA VirtualByte ==
    ASSUME NEW dods, NEW b \in Byte, 240 < b, b <= 247
    PROVE  ParseByte(Idle(dods), b) =
              [state |-> "VIRTUALBITS", got |-> <<b - 240>>, dods |-> dods]
<1>1. ~(b > 247) /\ b > 240
  BY DEF Byte
<1>2. Idle(dods).dods = dods
  BY DEF Idle
<1>3. ParseDod(Idle(dods), b) = [state |-> "VIRTUALBITS", got |-> <<b - 240>>, dods |-> dods]
  BY <1>1, <1>2 DEF ParseDod, VirtualBitsStart, VirtualBitsEnd
<1> QED
  BY <1>3, FirstByte

LEMMA EscapeByte ==
    ASSUME NEW dods
    PROVE  ParseByte(Idle(dods), 254) = [state |-> "LARGE16", got |-> << >>, dods |-> dods]
<1>1. 254 \in Byte /\ 254 > 247
  BY DEF Byte
<1>2. ParseDod(Idle(dods), 254) = [Idle(dods) EXCEPT !.state = "LARGE16"]
  BY <1>1 DEF ParseDod, Large16, VirtualBitsEnd
<1>3. [Idle(dods) EXCEPT !.state = "LARGE16"]
        = [state |-> "LARGE16", got |-> << >>, dods |-> dods]
  BY DEF Idle
<1> QED
  BY <1>1, <1>2, <1>3, FirstByte

LEMMA LastByte ==
    \A p, hi, lo :
        /\ p.got = <<hi>>
        /\ p.state = "LARGE16" \/ p.state = "VIRTUALBITS"
        => ParseByte(p, lo) = Idle(Append(p.dods, Unzigzag(hi * 256 + lo)))
<1> TAKE p, hi, lo
<1> HAVE /\ p.got = <<hi>>
         /\ p.state = "LARGE16" \/ p.state = "VIRTUALBITS"
<1>1. <<hi>>[1] = hi /\ <<hi>> # << >>
  OBVIOUS
<1>2. ParseByte(p, lo) = Took(p, hi * 256 + lo)
  BY <1>1 DEF ParseByte, ParseLarge16, ParseVirtualBits
<1> QED
  BY <1>2 DEF Took

LEMMA MiddleByte ==
    ASSUME NEW dods, NEW hi \in Byte
    PROVE  ParseByte([state |-> "LARGE16", got |-> << >>, dods |-> dods], hi)
              = [state |-> "LARGE16", got |-> <<hi>>, dods |-> dods]
<1> DEFINE p == [state |-> "LARGE16", got |-> << >>, dods |-> dods]
<1>1. ParseByte(p, hi) = ParseLarge16(p, hi)
  BY DEF ParseByte
<1>2. ParseLarge16(p, hi) = [p EXCEPT !.got = <<hi>>]
  BY DEF ParseLarge16
<1> QED
  BY <1>1, <1>2

\* The machine over codes of one, two and three bytes.
LEMMA ParseOne ==
    \A p, a : ParseCode(p, <<a>>) = ParseByte(p, a)
BY DEF ParseCode

LEMMA ParseTwo ==
    \A p, a, b : ParseCode(p, <<a, b>>) = ParseByte(ParseByte(p, a), b)
<1> TAKE p, a, b
<1>1. Len(<<a, b>>) = 2 /\ <<a, b>>[1] = a /\ <<a, b>>[2] = b
  OBVIOUS
<1> QED
  BY <1>1 DEF ParseCode

LEMMA ParseThree ==
    \A p, a, b, c :
        ParseCode(p, <<a, b, c>>) = ParseByte(ParseByte(ParseByte(p, a), b), c)
<1> TAKE p, a, b, c
<1>1. Len(<<a, b, c>>) = 3
  OBVIOUS
<1>2. <<a, b, c>>[1] = a /\ <<a, b, c>>[2] = b /\ <<a, b, c>>[3] = c
  OBVIOUS
<1> QED
  BY <1>1, <1>2 DEF ParseCode

\* A residual outside the gap comes back from its code: between two samples the
\* reader is left as it was, with the residual added.
THEOREM RoundTrip ==
    ASSUME NEW d \in Int16 \ Gap, NEW dods \in Seq(Int16)
    PROVE  ParseCode(Idle(dods), Code(d)) = Idle(Append(dods, d))
<1>1. PICK z \in Word, hi \in Byte, lo \in Byte :
        /\ z = Zigzag(d) /\ z = hi * 256 + lo
        /\ Mag(d) < 120 => Code(d) = <<z>> /\ z < 240
        /\ Mag(d) >= 120 /\ hi < 8 => Code(d) = <<240 + hi, lo>>
        /\ Mag(d) >= 120 /\ hi >= 8 => Code(d) = <<254, hi, lo>>
  BY CodeForm
<1>0. d \in Int16 /\ d \notin Gap
  OBVIOUS
<1>A. Unzigzag(Zigzag(d)) = d /\ Mag(d) \in Nat
  BY <1>0, ZigzagInverse, ZigzagForm
<1>B. z = Zigzag(d) /\ z = hi * 256 + lo
  BY <1>1
<1>2. Unzigzag(z) = d /\ Mag(d) \in Int
  BY <1>A, <1>B
<1>3. CASE Mag(d) < 120
  <2>1. Code(d) = <<z>> /\ z <= 240 /\ z \in Byte
    BY <1>1, <1>3 DEF Byte, Word
  <2>2. ParseByte(Idle(dods), z) = Idle(Append(dods, d))
    BY <1>2, <2>1, OneByte
  <2>3. ParseCode(Idle(dods), <<z>>) = ParseByte(Idle(dods), z)
    BY ParseOne
  <2> QED
    BY <2>1, <2>2, <2>3
<1>4. CASE Mag(d) >= 120 /\ hi < 8
  <2>1. z > 255
    <3>1. 120 <= Mag(d)
      BY <1>A, <1>4
    <3>2. ~(z < 256)
      BY <1>0, <1>B, <3>1 DEF Gap
    <3> QED
      BY <3>2 DEF Word
  <2>2. /\ 240 + hi \in Byte /\ 240 < 240 + hi /\ 240 + hi <= 247
        /\ (240 + hi) - 240 = hi
    BY <1>1, <1>4, <2>1 DEF Byte, Word
  <2>3. ParseByte(Idle(dods), 240 + hi)
          = [state |-> "VIRTUALBITS", got |-> <<hi>>, dods |-> dods]
    BY <2>2, VirtualByte
  <2>4. ParseByte(ParseByte(Idle(dods), 240 + hi), lo) = Idle(Append(dods, d))
    <3> DEFINE p == [state |-> "VIRTUALBITS", got |-> <<hi>>, dods |-> dods]
    <3>0. p.got = <<hi>> /\ p.state = "VIRTUALBITS" /\ p.dods = dods
      OBVIOUS
    <3>1. ParseByte(p, lo) = Idle(Append(dods, Unzigzag(hi * 256 + lo)))
      <4> HIDE DEF p
      <4> QED
        BY <3>0, LastByte
    <3> QED
      BY <1>1, <1>2, <2>3, <3>1
  <2>5. Code(d) = <<240 + hi, lo>>
    BY <1>1, <1>4
  <2>6. ParseCode(Idle(dods), <<240 + hi, lo>>)
          = ParseByte(ParseByte(Idle(dods), 240 + hi), lo)
    BY ParseTwo
  <2> QED
    BY <2>4, <2>5, <2>6
<1>5. CASE Mag(d) >= 120 /\ hi >= 8
  <2>1. ParseByte(ParseByte(Idle(dods), 254), hi)
          = [state |-> "LARGE16", got |-> <<hi>>, dods |-> dods]
    BY EscapeByte, MiddleByte, ZenonT(40)
  <2>2. ParseByte(ParseByte(ParseByte(Idle(dods), 254), hi), lo) = Idle(Append(dods, d))
    <3> DEFINE p == [state |-> "LARGE16", got |-> <<hi>>, dods |-> dods]
    <3>0. p.got = <<hi>> /\ p.state = "LARGE16" /\ p.dods = dods
      OBVIOUS
    <3>1. ParseByte(p, lo) = Idle(Append(dods, Unzigzag(hi * 256 + lo)))
      <4> HIDE DEF p
      <4> QED
        BY <3>0, LastByte
    <3> QED
      BY <1>1, <1>2, <2>1, <3>1
  <2>3. Code(d) = <<254, hi, lo>>
    BY <1>1, <1>5
  <2>4. ParseCode(Idle(dods), <<254, hi, lo>>)
          = ParseByte(ParseByte(ParseByte(Idle(dods), 254), hi), lo)
    BY ParseThree
  <2> QED
    BY <2>2, <2>3, <2>4
<1>6. Mag(d) < 120 \/ (Mag(d) >= 120 /\ hi < 8) \/ (Mag(d) >= 120 /\ hi >= 8)
  BY <1>2 DEF Byte
<1> QED
  BY <1>3, <1>4, <1>5, <1>6

\* A residual in the gap does not: the first byte of its code is taken for the
\* residual 120, and the second byte is left to be taken for another code.
THEOREM GapMisread ==
    ASSUME NEW d \in Gap, NEW dods \in Seq(Int16)
    PROVE  /\ Code(d) = <<240, Zigzag(d)>>
           /\ ParseByte(Idle(dods), 240) = Idle(Append(dods, 120))
<1>1. d \in Int16
  BY DEF Gap
<1>2. PICK z \in Word, hi \in Byte, lo \in Byte :
        /\ z = Zigzag(d) /\ z = hi * 256 + lo
        /\ Mag(d) >= 120 /\ hi < 8 => Code(d) = <<240 + hi, lo>>
  BY <1>1, CodeForm
<1>3. Mag(d) >= 120 /\ z <= 255
  <2>1. 120 <= Mag(d) /\ z < 256 /\ Mag(d) \in Nat
    BY <1>1, <1>2, ZigzagForm DEF Gap
  <2> QED
    BY <2>1 DEF Word
<1>4. hi = 0 /\ lo = z
  BY <1>2, <1>3 DEF Byte, Word
<1>5. Code(d) = <<240, z>>
  BY <1>2, <1>3, <1>4
<1>6. Unzigzag(240) = 120
  <2>1. 240 % 2 = 0 /\ 240 \div 2 = 120
    BY Halves
  <2> QED
    BY <2>1 DEF Unzigzag
<1>7. ParseByte(Idle(dods), 240) = Idle(Append(dods, 120))
  <2>1. 240 \in Byte
    BY DEF Byte
  <2> QED
    BY <1>6, <2>1, OneByte
<1> QED
  BY <1>2, <1>5, <1>7

\* Wrapping to 16 bits takes a multiple of 65536 off.
LEMMA WrapForm ==
    \A x \in Int : Wrap16(x) \in Int16 /\ \E k \in Int : Wrap16(x) = x - 65536 * k
<1> TAKE x \in Int
<1> DEFINE y == x + 32768
<1> DEFINE q == y \div 65536
           r == y % 65536
<1>1. y \in Int /\ y = x + 32768
  OBVIOUS
<1>2. Wrap16(x) = r - 32768
  BY DEF Wrap16
<1> HIDE DEF y
<1>3. r = y - 65536 * q /\ r \in Word /\ q \in Int
  BY <1>1, By65536, By65536Range
<1> HIDE DEF q, r
<1>4. r - 32768 \in Int16 /\ r - 32768 = x - 65536 * q
  BY <1>1, <1>3 DEF Int16, Word
<1> QED
  BY <1>2, <1>3, <1>4

\* Adding back what a wrapped difference took away gives the first number.
LEMMA WrapBack ==
    ASSUME NEW a \in Int16, NEW b \in Int16
    PROVE  Wrap16(Wrap16(a - b) + b) = a
<1>1. a \in Int /\ b \in Int /\ a - b \in Int
  BY DEF Int16
<1> DEFINE w == Wrap16(a - b)
<1>2. PICK k \in Int : w = a - b - 65536 * k
  BY <1>1, WrapForm
<1>3. w + b \in Int
  BY <1>1, <1>2
<1> HIDE DEF w
<1> DEFINE u == w + b
<1>4. u \in Int
  BY <1>3
<1> HIDE DEF u
<1>5. PICK l \in Int : Wrap16(u) = u - 65536 * l
  BY <1>4, WrapForm
<1> DEFINE v == Wrap16(u)
<1>6. v \in Int16
  BY <1>4, WrapForm
<1>7. v = u - 65536 * l
  BY <1>5
<1> HIDE DEF v
<1>8. v = a - 65536 * (k + l)
  <2>1. u = w + b /\ u \in Int /\ w \in Int
    BY <1>1, <1>2, <1>3 DEF u
  <2> QED
    BY <1>1, <1>2, <1>7, <2>1
<1>9. v = a
  <2> DEFINE m == k + l
  <2>1. m \in Int /\ v = a - 65536 * m
    BY <1>8
  <2> HIDE DEF m
  <2> QED
    BY <1>1, <1>6, <2>1 DEF Int16
<1> QED
  BY <1>9 DEF v, u, w

\* The reader's state of a channel after a residual is the writer's, whatever
\* wraps in 16 bits on the way.
THEOREM StatesAgree ==
    ASSUME NEW ch \in ChState, NEW s \in Int16
    PROVE  Decoded(ch, Dod(ch, s)) = [sample |-> s, delta |-> Delta(ch, s)]
<1>1. ch.sample \in Int16 /\ ch.delta \in Int16
  BY DEF ChState
<1>2. s - ch.sample \in Int
  BY <1>1 DEF Int16
<1>3. Delta(ch, s) \in Int16
  BY <1>2, WrapForm DEF Delta
<1>4. Wrap16(Dod(ch, s) + ch.delta) = Delta(ch, s)
  BY <1>1, <1>3, WrapBack DEF Dod
<1>5. Wrap16(Delta(ch, s) + ch.sample) = s
  BY <1>1, WrapBack DEF Delta
<1> QED
  BY <1>4, <1>5 DEF Decoded

----------------------------------------------------------------------------
\* The sequences the stream is made of.

\* A least element, for an induction over a bound.
LEMMA Least ==
    ASSUME NEW S \in SUBSET Nat, S # {}
    PROVE  \E m \in S : \A d \in S : m <= d
  <1>1. PICK m \in S : \A d \in S : ~ (<<d, m>> \in OpToRel(<, Nat))
    BY NatLessThanWellFounded, WFMin
  <1>2. \A d \in S : ~ (d < m)
    BY <1>1 DEF OpToRel
  <1>3. m \in Nat /\ \A d \in S : d \in Nat
    OBVIOUS
  <1>4. \A d \in S : m <= d
    BY <1>2, <1>3
  <1>5. QED
    BY <1>4

\* The recursion of FlattenSeq, as an equation.
FlattenFn(s, f) == f = [i \in 1 .. Len(s) |-> IF i = 1 THEN s[i] ELSE f[i - 1] \o s[i]]

\* The value of FlattenSeq solves it, if anything does.
LEMMA FlattenChoice ==
    ASSUME NEW s, NEW f, FlattenFn(s, f), Len(s) # 0
    PROVE  \E g : FlattenFn(s, g) /\ FlattenSeq(s) = g[Len(s)]
  BY DEF FlattenFn, FlattenSeq

\* The equation has a solution.
LEMMA FlattenExists ==
    ASSUME NEW s \in Seq(Seq(Byte)), Len(s) # 0
    PROVE  \E f : FlattenFn(s, f)
  <1> DEFINE Solves(n, f) == /\ f \in [1 .. n -> Seq(Byte)]
                             /\ \A i \in 1 .. n : f[i] = IF i = 1 THEN s[i] ELSE f[i - 1] \o s[i]
             Unsolved == {n \in 1 .. Len(s) : ~ \E f : Solves(n, f)}
  <1>1. Len(s) \in Nat \ {0}
    OBVIOUS
  <1>2. Unsolved = {}
    <2>1. SUFFICES ASSUME Unsolved # {} PROVE FALSE
      OBVIOUS
    <2>2. PICK m \in Unsolved : \A d \in Unsolved : m <= d
      <3>1. Unsolved \in SUBSET Nat
        BY <1>1
      <3> HIDE DEF Unsolved
      <3>2. QED
        BY <2>1, <3>1, Least
    <2>3. m \in 1 .. Len(s) /\ m \in Nat /\ s[m] \in Seq(Byte)
      BY <1>1
    <2>4. CASE m = 1
      <3>1. Solves(1, [i \in 1 .. 1 |-> s[i]])
        BY <1>1, <2>3, <2>4
      <3>2. QED
        BY <2>4, <3>1
    <2>5. CASE m # 1
      <3>1. m - 1 \in 1 .. Len(s) /\ ~ (m <= m - 1)
        BY <1>1, <2>3, <2>5
      <3>2. m - 1 \notin Unsolved
        BY <2>2, <3>1
      <3>3. PICK f : Solves(m - 1, f)
        BY <3>1, <3>2
      <3>4. PICK g : g = [i \in 1 .. m |-> IF i = m THEN f[m - 1] \o s[m] ELSE f[i]]
        OBVIOUS
      <3>5. f[m - 1] \in Seq(Byte) /\ f[m - 1] \o s[m] \in Seq(Byte)
        BY <2>3, <2>5, <3>1, <3>3
      <3>6. g \in [1 .. m -> Seq(Byte)]
        <4>1. \A i \in 1 .. m : i # m => i \in 1 .. m - 1
          BY <2>3
        <4>2. \A i \in 1 .. m : i # m => f[i] \in Seq(Byte)
          BY <3>3, <4>1
        <4>3. QED
          BY <3>4, <3>5, <4>2
      <3>7. ASSUME NEW i \in 1 .. m
            PROVE  g[i] = IF i = 1 THEN s[i] ELSE g[i - 1] \o s[i]
        <4>1. CASE i = m
          <5>1. m \in 1 .. m /\ m - 1 \in 1 .. m /\ m - 1 # m
            BY <2>3, <2>5, <3>1
          <5>2. g[m] = f[m - 1] \o s[m]
            BY <3>4, <5>1
          <5>3. g[m - 1] = f[m - 1]
            BY <3>4, <5>1
          <5>4. QED
            BY <2>5, <4>1, <5>2, <5>3
        <4>2. CASE i # m
          <5>1. i \in 1 .. m - 1 /\ g[i] = f[i]
            BY <2>3, <3>4, <4>2
          <5>2. i # 1 => i - 1 \in 1 .. m /\ i - 1 # m /\ g[i - 1] = f[i - 1]
            BY <2>3, <3>4, <4>2
          <5>3. QED
            BY <3>3, <5>1, <5>2
        <4>3. QED
          BY <4>1, <4>2
      <3>8. Solves(m, g)
        BY <3>6, <3>7
      <3>9. QED
        BY <3>8
    <2>6. QED
      BY <2>4, <2>5
  <1>3. PICK f : Solves(Len(s), f)
    <2>1. Len(s) \in 1 .. Len(s)
      BY <1>1
    <2>2. ~ (Len(s) \in Unsolved)
      BY <1>2
    <2>3. \E f : Solves(Len(s), f)
      BY <2>1, <2>2
    <2>4. QED
      BY <2>3
  <1>4. f = [i \in 1 .. Len(s) |-> IF i = 1 THEN s[i] ELSE f[i - 1] \o s[i]]
    BY <1>3
  <1>5. QED
    BY <1>4 DEF FlattenFn

\* Three bytes more for one piece more.
LEMMA Thrice == \A a, b, m \in Nat : a <= 3 * (m - 1) /\ b <= 3 => a + b <= 3 * m
BY SMT

\* Pieces of at most three bytes, or of four, one after the other.
LEMMA FlattenSize ==
    ASSUME NEW s \in Seq(Seq(Byte)), Len(s) # 0
    PROVE  /\ FlattenSeq(s) \in Seq(Byte)
           /\ (\A i \in 1 .. Len(s) : Len(s[i]) <= 3) => Len(FlattenSeq(s)) <= 3 * Len(s)
           /\ (\A i \in 1 .. Len(s) : Len(s[i]) = 4) => Len(FlattenSeq(s)) = 4 * Len(s)
  <1>1. PICK f : FlattenFn(s, f) /\ FlattenSeq(s) = f[Len(s)]
    BY FlattenExists, FlattenChoice
  <1>2. Len(s) \in Nat \ {0} /\ \A i \in 1 .. Len(s) : s[i] \in Seq(Byte)
    OBVIOUS
  <1>e. \A i \in 1 .. Len(s) : f[i] = IF i = 1 THEN s[i] ELSE f[i - 1] \o s[i]
    <2>1. f = [i \in 1 .. Len(s) |-> IF i = 1 THEN s[i] ELSE f[i - 1] \o s[i]]
      BY <1>1 DEF FlattenFn
    <2>2. TAKE i \in 1 .. Len(s)
    <2>3. [j \in 1 .. Len(s) |-> IF j = 1 THEN s[j] ELSE f[j - 1] \o s[j]][i]
             = IF i = 1 THEN s[i] ELSE f[i - 1] \o s[i]
      OBVIOUS
    <2>4. QED
      BY <2>1, <2>3
  <1> DEFINE Good(i) == /\ f[i] \in Seq(Byte)
                        /\ (\A j \in 1 .. Len(s) : Len(s[j]) <= 3) => Len(f[i]) <= 3 * i
                        /\ (\A j \in 1 .. Len(s) : Len(s[j]) = 4) => Len(f[i]) = 4 * i
             Bad == {i \in 1 .. Len(s) : ~Good(i)}
  <1>3. Bad = {}
    <2>1. SUFFICES ASSUME Bad # {} PROVE FALSE
      OBVIOUS
    <2>2. PICK m \in Bad : \A d \in Bad : m <= d
      <3>1. Bad \in SUBSET Nat
        BY <1>2
      <3> HIDE DEF Bad
      <3>2. QED
        BY <2>1, <3>1, Least
    <2>3. m \in 1 .. Len(s) /\ m \in Nat /\ s[m] \in Seq(Byte) /\ Len(s[m]) \in Nat /\ ~Good(m)
      BY <1>2
    <2>4. CASE m = 1
      <3>1. f[1] = s[1] /\ s[1] \in Seq(Byte)
        BY <1>2, <1>e, <2>3, <2>4
      <3>2. Good(1)
        BY <1>2, <2>3, <2>4, <3>1
      <3>3. QED
        BY <2>3, <2>4, <3>2
    <2>5. CASE m # 1
      <3>1. m - 1 \in 1 .. Len(s) /\ ~ (m <= m - 1)
        BY <1>2, <2>3, <2>5
      <3>2. Good(m - 1)
        BY <2>2, <3>1
      <3>3. f[m] = f[m - 1] \o s[m]
        BY <1>e, <2>3, <2>5
      <3>4. f[m] \in Seq(Byte) /\ Len(f[m]) = Len(f[m - 1]) + Len(s[m]) /\ Len(f[m - 1]) \in Nat
        BY <2>3, <3>2, <3>3
      <3>5. (\A j \in 1 .. Len(s) : Len(s[j]) <= 3) => Len(f[m]) <= 3 * m
        <4>1. HAVE \A j \in 1 .. Len(s) : Len(s[j]) <= 3
        <4>2. Len(s[m]) <= 3 /\ Len(f[m - 1]) <= 3 * (m - 1)
          BY <2>3, <3>2, <4>1
        <4>3. PICK a \in Nat, b \in Nat : a = Len(f[m - 1]) /\ b = Len(s[m])
          BY <2>3, <3>4
        <4>4. a <= 3 * (m - 1) /\ b <= 3
          BY <4>2, <4>3
        <4>6. a + b <= 3 * m
          BY <2>3, <4>4, Thrice
        <4>5. QED
          BY <3>4, <4>3, <4>6
      <3>6. (\A j \in 1 .. Len(s) : Len(s[j]) = 4) => Len(f[m]) = 4 * m
        <4>1. HAVE \A j \in 1 .. Len(s) : Len(s[j]) = 4
        <4>2. Len(s[m]) = 4 /\ Len(f[m - 1]) = 4 * (m - 1)
          BY <2>3, <3>2, <4>1
        <4> HIDE DEF Good
        <4>3. QED
          BY <2>3, <3>4, <4>2
      <3>7. Good(m)
        BY <3>4, <3>5, <3>6
      <3>8. QED
        BY <2>3, <3>7
    <2>6. QED
      BY <2>4, <2>5
  <1>4. Good(Len(s))
    <2>1. Len(s) \in 1 .. Len(s)
      BY <1>2
    <2>2. ~ (Len(s) \in Bad)
      BY <1>3
    <2>3. QED
      BY <2>1, <2>2
  <1>5. QED
    BY <1>1, <1>4

\* What a good setup says.
LEMMA SetupFacts ==
    ASSUME setup \in Setups
    PROVE  /\ setup.channels \in 1 .. 14 /\ setup.period \in 1 .. 255
           /\ setup.ring \in Nat /\ setup.ring - 1 > 16 * setup.channels
           /\ setup.readSize \in Nat /\ setup.markRing \in Nat /\ setup.block \in Nat
           /\ setup.vectors \subseteq [Chan -> Int16]
           /\ ResyncSize = 5 + 4 * setup.channels /\ ResyncSize \in Nat
  <1>1. GoodSetup(setup)
    BY SetupsAssumption
  <1>2. ResyncSize = 5 + 4 * setup.channels
    BY DEF ResyncSize
  <1>3. setup.channels \in 1 .. 14
    BY <1>1 DEF GoodSetup
  <1>4. ResyncSize \in Nat
    BY <1>2, <1>3
  <1>5. QED
    BY <1>1, <1>2, <1>3, <1>4 DEF GoodSetup, Chan

\* The codes of the residuals are bytes, three at most.
LEMMA CodeSize ==
    ASSUME NEW d \in Int16
    PROVE  Code(d) \in Seq(Byte) /\ Len(Code(d)) <= 3 /\ Len(Code(d)) > 0
  <1>1. PICK z \in Word, hi \in Byte, lo \in Byte :
        /\ z = Zigzag(d) /\ z = hi * 256 + lo
        /\ Mag(d) < 120 => Code(d) = <<z>> /\ z < 240
        /\ Mag(d) >= 120 /\ hi < 8 => Code(d) = <<240 + hi, lo>>
        /\ Mag(d) >= 120 /\ hi >= 8 => Code(d) = <<254, hi, lo>>
    BY CodeForm
  <1>2. Mag(d) \in Nat
    BY ZigzagForm
  <1>3. CASE Mag(d) < 120
    <2>1. z \in Byte
      BY <1>1, <1>3 DEF Byte, Word
    <2>2. <<z>> \in Seq(Byte) /\ Len(<<z>>) <= 3 /\ Len(<<z>>) > 0
      BY <2>1
    <2>3. Code(d) = <<z>>
      BY <1>1, <1>3
    <2>4. QED
      BY <2>2, <2>3
  <1>4. CASE Mag(d) >= 120 /\ hi < 8
    <2>1. 240 + hi \in Byte
      BY <1>4 DEF Byte
    <2>2. <<240 + hi, lo>> \in Seq(Byte) /\ Len(<<240 + hi, lo>>) <= 3 /\ Len(<<240 + hi, lo>>) > 0
      BY <2>1
    <2>3. Code(d) = <<240 + hi, lo>>
      BY <1>1, <1>4
    <2>4. QED
      BY <2>2, <2>3
  <1>5. CASE Mag(d) >= 120 /\ hi >= 8
    <2>1. 254 \in Byte
      BY DEF Byte
    <2>2. <<254, hi, lo>> \in Seq(Byte) /\ Len(<<254, hi, lo>>) <= 3 /\ Len(<<254, hi, lo>>) > 0
      BY <2>1
    <2>3. Code(d) = <<254, hi, lo>>
      BY <1>1, <1>5
    <2>4. QED
      BY <2>2, <2>3
  <1>6. hi < 8 \/ hi >= 8
    BY DEF Byte
  <1>7. QED
    BY <1>2, <1>3, <1>4, <1>5, <1>6

\* A 16-bit number is two bytes.
LEMMA BytesSize ==
    ASSUME NEW x \in Int16
    PROVE  Bytes16(x) \in Seq(Byte) /\ Len(Bytes16(x)) = 2
  <1>1. x \in Int
    BY DEF Int16
  <1>2. x % 65536 \in Word /\ x % 256 \in Byte
    BY <1>1, By65536Range, By256Range
  <1>3. (x % 65536) \div 256 \in Byte
    BY <1>2, TwoBytes
  <1>4. QED
    BY <1>2, <1>3 DEF Bytes16

\* Wrapping gives 16 bits.
LEMMA DodType ==
    ASSUME NEW ch \in ChState, NEW s \in Int16
    PROVE  Delta(ch, s) \in Int16 /\ Dod(ch, s) \in Int16
  <1>1. ch.sample \in Int /\ ch.delta \in Int /\ s \in Int
    BY DEF ChState, Int16
  <1>2. s - ch.sample \in Int
    BY <1>1
  <1>3. Delta(ch, s) \in Int16
    BY <1>2, WrapForm DEF Delta
  <1>4. Delta(ch, s) - ch.delta \in Int
    BY <1>1, <1>3 DEF Int16
  <1>5. QED
    BY <1>3, <1>4, WrapForm DEF Dod

\* A function on 1 .. n is a sequence.
LEMMA FunctionSeq ==
    ASSUME NEW n \in Nat, NEW S, NEW f \in [1 .. n -> S]
    PROVE  f \in Seq(S) /\ Len(f) = n
  OBVIOUS

\* Two sequences of bytes, one after the other.
LEMMA Concat ==
    ASSUME NEW a \in Seq(Byte), NEW b \in Seq(Byte)
    PROVE  /\ a \o b \in Seq(Byte) /\ Len(a \o b) = Len(a) + Len(b)
           /\ Len(a) > 0 => (a \o b)[1] = a[1]
  OBVIOUS

\* What a sample puts in the stream.
LEMMA ResyncBytesSize ==
    ASSUME setup \in Setups, NEW ccs \in [Chan -> ChState], Len(offered) \in Byte
    PROVE  /\ ResyncBytes(ccs) \in Seq(Byte) /\ Len(ResyncBytes(ccs)) = ResyncSize
           /\ ResyncBytes(ccs)[1] = Resync
  <1> DEFINE piece(c) == Bytes16(ccs[c].sample) \o Bytes16(ccs[c].delta)
             pieces == [c \in Chan |-> piece(c)]
             head == <<Resync, 0, 0, 0, Len(offered)>>
  <1>1. setup.channels \in 1 .. 14
    BY SetupFacts
  <1>2. ASSUME NEW c \in Chan PROVE piece(c) \in Seq(Byte) /\ Len(piece(c)) = 4
    <2>1. ccs[c].sample \in Int16 /\ ccs[c].delta \in Int16
      BY DEF ChState
    <2>2. /\ Bytes16(ccs[c].sample) \in Seq(Byte) /\ Len(Bytes16(ccs[c].sample)) = 2
          /\ Bytes16(ccs[c].delta) \in Seq(Byte) /\ Len(Bytes16(ccs[c].delta)) = 2
      BY <2>1, BytesSize
    <2>3. /\ piece(c) \in Seq(Byte)
          /\ Len(piece(c)) = Len(Bytes16(ccs[c].sample)) + Len(Bytes16(ccs[c].delta))
      BY <2>2, Concat
    <2>4. QED
      BY <2>2, <2>3
  <1>3. /\ pieces \in Seq(Seq(Byte)) /\ Len(pieces) = setup.channels
        /\ \A c \in 1 .. Len(pieces) : Len(pieces[c]) = 4
    <2>1. Chan = 1 .. setup.channels /\ setup.channels \in Nat
      BY <1>1 DEF Chan
    <2>2. \A c \in Chan : pieces[c] \in Seq(Byte) /\ Len(pieces[c]) = 4
      BY <1>2
    <2>3. pieces = [c \in 1 .. setup.channels |-> pieces[c]]
      BY <2>1
    <2> HIDE DEF pieces
    <2>4. pieces \in [1 .. setup.channels -> Seq(Byte)]
      BY <2>1, <2>2, <2>3
    <2>6. pieces \in Seq(Seq(Byte)) /\ Len(pieces) = setup.channels
      BY <2>1, <2>4, FunctionSeq
    <2>5. QED
      BY <2>1, <2>2, <2>6
  <1>4. head \in Seq(Byte) /\ Len(head) = 5 /\ head[1] = Resync
    <2>1. Resync \in Byte /\ 0 \in Byte
      BY DEF Resync, Byte
    <2>2. QED
      BY <2>1
  <1> HIDE DEF pieces, head
  <1>5. FlattenSeq(pieces) \in Seq(Byte) /\ Len(FlattenSeq(pieces)) = 4 * setup.channels
    <2>1. Len(pieces) # 0
      BY <1>1, <1>3
    <2>2. FlattenSeq(pieces) \in Seq(Byte) /\ Len(FlattenSeq(pieces)) = 4 * Len(pieces)
      BY <1>3, <2>1, FlattenSize
    <2>3. QED
      BY <1>3, <2>2
  <1>6. ResyncBytes(ccs) = head \o FlattenSeq(pieces)
    BY DEF ResyncBytes, head, pieces
  <1>7. /\ head \o FlattenSeq(pieces) \in Seq(Byte)
        /\ Len(head \o FlattenSeq(pieces)) = Len(head) + Len(FlattenSeq(pieces))
        /\ (head \o FlattenSeq(pieces))[1] = head[1]
    <2>1. PICK rest \in Seq(Byte) : rest = FlattenSeq(pieces)
      BY <1>5
    <2>2. head \in Seq(Byte) /\ Len(head) > 0
      BY <1>4
    <2>3. /\ head \o rest \in Seq(Byte) /\ Len(head \o rest) = Len(head) + Len(rest)
          /\ (head \o rest)[1] = head[1]
      BY <2>2, Concat
    <2>4. QED
      BY <2>1, <2>3
  <1>8. ResyncSize = 5 + 4 * setup.channels
    BY DEF ResyncSize
  <1>9. QED
    BY <1>4, <1>5, <1>6, <1>7, <1>8

\* And a sample that is no resync.
LEMMA CodesSize ==
    ASSUME setup \in Setups, wccs \in [Chan -> ChState], NEW v \in [Chan -> Int16]
    PROVE  LET codes == FlattenSeq([c \in Chan |-> Code(Dod(wccs[c], v[c]))])
           IN codes \in Seq(Byte) /\ Len(codes) <= 3 * setup.channels
  <1> DEFINE piece(c) == Code(Dod(wccs[c], v[c]))
             pieces == [c \in Chan |-> piece(c)]
  <1>1. setup.channels \in 1 .. 14
    BY SetupFacts
  <1>2. ASSUME NEW c \in Chan PROVE piece(c) \in Seq(Byte) /\ Len(piece(c)) <= 3
    <2>1. wccs[c] \in ChState /\ v[c] \in Int16
      OBVIOUS
    <2>2. QED
      BY <2>1, DodType, CodeSize
  <1>3. /\ pieces \in Seq(Seq(Byte)) /\ Len(pieces) = setup.channels
        /\ \A c \in 1 .. Len(pieces) : Len(pieces[c]) <= 3
    <2> HIDE DEF piece
    <2>1. QED
      BY <1>1, <1>2, SMTT(30) DEF Chan
  <1> HIDE DEF pieces
  <1>5. FlattenSeq(pieces) \in Seq(Byte) /\ Len(FlattenSeq(pieces)) <= 3 * setup.channels
    BY <1>1, <1>3, FlattenSize
  <1>7. QED
    BY <1>5 DEF pieces

----------------------------------------------------------------------------
\* The marks.

Mark == [at : Nat, size : Nat \ {0}]
\* Marks in order, one after the other, each at a control byte of the stream s.
MarksOK(ms, s) ==
    /\ ms \in Seq(Mark)
    /\ \A i \in 1 .. Len(ms) : /\ ms[i].at + ms[i].size <= Len(s)
                               /\ s[ms[i].at + 1] \in {Resync, FlushCode}
    /\ \A i, j \in 1 .. Len(ms) : i < j => ms[i].at + ms[i].size <= ms[j].at

\* Bytes put after the stream leave the marks where they are.
LEMMA MarksGrow ==
    ASSUME NEW s \in Seq(Byte), NEW w \in Seq(Byte), NEW ms, MarksOK(ms, s)
    PROVE  MarksOK(ms, s \o w)
  <1>1. Len(s) \in Nat /\ Len(w) \in Nat /\ Len(s \o w) = Len(s) + Len(w)
    OBVIOUS
  <1>2. ASSUME NEW i \in 1 .. Len(ms)
        PROVE  /\ ms[i].at + ms[i].size <= Len(s \o w)
               /\ (s \o w)[ms[i].at + 1] \in {Resync, FlushCode}
    <2>0. ms \in Seq(Mark)
      BY DEF MarksOK
    <2>m. ms[i] \in Mark
      BY <2>0
    <2>1. /\ ms[i].at \in Nat /\ ms[i].size \in Nat \ {0}
          /\ ms[i].at + ms[i].size <= Len(s) /\ s[ms[i].at + 1] \in {Resync, FlushCode}
      BY <2>m DEF MarksOK, Mark
    <2>2. ms[i].at + 1 \in 1 .. Len(s)
      BY <1>1, <2>1
    <2>3. (s \o w)[ms[i].at + 1] = s[ms[i].at + 1]
      BY <2>2
    <2>4. QED
      BY <1>1, <2>1, <2>3
  <1>3. QED
    BY <1>2 DEF MarksOK

\* A mark for the control bytes put after the stream.
LEMMA MarkedOK ==
    ASSUME stream \in Seq(Byte), MarksOK(marks, stream), NEW w \in Seq(Byte),
           NEW size \in Nat \ {0}, size <= Len(w), w[1] \in {Resync, FlushCode}
    PROVE  MarksOK(Marked(size), stream \o w)
  <1>1. MarksOK(marks, stream \o w)
    BY MarksGrow
  <1>2. Len(stream) \in Nat /\ Len(w) \in Nat \ {0} /\ Len(stream \o w) = Len(stream) + Len(w)
    OBVIOUS
  <1>3. CASE Marked(size) = marks
    BY <1>1, <1>3
  <1>4. CASE Marked(size) = Append(marks, [at |-> Len(stream), size |-> size])
    <2>1. PICK m : m = [at |-> Len(stream), size |-> size]
      OBVIOUS
    <2>2. m \in Mark /\ m.at = Len(stream) /\ m.size = size
      BY <1>2, <2>1 DEF Mark
    <2>3. marks \in Seq(Mark) /\ Len(marks) \in Nat
      BY DEF MarksOK
    <2>4. PICK ms : ms = Append(marks, m)
      OBVIOUS
    <2>5. /\ ms \in Seq(Mark) /\ Len(ms) = Len(marks) + 1 /\ ms[Len(marks) + 1] = m
          /\ \A i \in 1 .. Len(marks) : ms[i] = marks[i]
      BY <2>2, <2>3, <2>4
    <2>6. (stream \o w)[Len(stream) + 1] = w[1]
      <3>1. Len(stream) + 1 \in 1 .. Len(stream) + Len(w) /\ ~ (Len(stream) + 1 <= Len(stream))
        BY <1>2
      <3>2. QED
        BY <1>2, <3>1
    <2>7. ASSUME NEW i \in 1 .. Len(ms)
          PROVE  /\ ms[i].at + ms[i].size <= Len(stream \o w)
                 /\ (stream \o w)[ms[i].at + 1] \in {Resync, FlushCode}
      <3>1. CASE i \in 1 .. Len(marks)
        BY <1>1, <2>5, <3>1 DEF MarksOK
      <3>2. CASE i = Len(marks) + 1
        <4>1. ms[i].at = Len(stream) /\ ms[i].size = size
          BY <2>2, <2>5, <3>2
        <4>2. Len(stream) + size <= Len(stream \o w)
          BY <1>2
        <4>3. QED
          BY <2>6, <4>1, <4>2
      <3>3. i \in 1 .. Len(marks) \/ i = Len(marks) + 1
        BY <2>3, <2>5
      <3>4. QED
        BY <3>1, <3>2, <3>3
    <2>8. ASSUME NEW i \in 1 .. Len(ms), NEW j \in 1 .. Len(ms), i < j
          PROVE  ms[i].at + ms[i].size <= ms[j].at
      <3>1. i \in 1 .. Len(marks)
        BY <2>3, <2>5, <2>8
      <3>2. CASE j \in 1 .. Len(marks)
        BY <1>1, <2>5, <2>8, <3>1, <3>2 DEF MarksOK
      <3>3. CASE j = Len(marks) + 1
        <4>1. marks[i].at + marks[i].size <= Len(stream)
          BY <3>1 DEF MarksOK
        <4>2. QED
          BY <2>2, <2>5, <3>1, <3>3, <4>1
      <3>4. QED
        BY <2>3, <2>5, <3>2, <3>3
    <2>9. MarksOK(ms, stream \o w)
      BY <2>5, <2>7, <2>8 DEF MarksOK
    <2>10. QED
      BY <1>4, <2>1, <2>4, <2>9
  <1>5. QED
    BY <1>3, <1>4 DEF Marked

\* Bytes taken from the start of the stream, up to the first mark left.
LEMMA MarksShift ==
    ASSUME NEW s \in Seq(Byte), NEW left, MarksOK(left, s), NEW t \in 0 .. Len(s),
           \A i \in 1 .. Len(left) : t <= left[i].at
    PROVE  MarksOK([i \in DOMAIN left |-> [left[i] EXCEPT !.at = @ - t]], SubSeq(s, t + 1, Len(s)))
  <1>1. left \in Seq(Mark) /\ Len(left) \in Nat /\ DOMAIN left = 1 .. Len(left)
    BY DEF MarksOK
  <1>2. PICK ms : ms = [i \in DOMAIN left |-> [left[i] EXCEPT !.at = @ - t]]
    OBVIOUS
  <1>3. ASSUME NEW i \in 1 .. Len(left)
        PROVE  /\ ms[i] = [left[i] EXCEPT !.at = @ - t] /\ ms[i] \in Mark
               /\ ms[i].at = left[i].at - t /\ ms[i].size = left[i].size
               /\ left[i].at \in Nat /\ left[i].size \in Nat \ {0}
    <2>1. left[i] \in Mark
      BY <1>1
    <2>2. left[i].at \in Nat /\ left[i].size \in Nat \ {0} /\ left[i].at - t \in Nat
      BY <2>1 DEF Mark
    <2>3. ms[i] = [left[i] EXCEPT !.at = @ - t]
      BY <1>1, <1>2
    <2>4. QED
      BY <2>1, <2>2, <2>3 DEF Mark
  <1>4. ms \in Seq(Mark) /\ Len(ms) = Len(left)
    <2>1. ms = [i \in 1 .. Len(left) |-> ms[i]]
      BY <1>1, <1>2
    <2>2. \A i \in 1 .. Len(left) : ms[i] \in Mark
      BY <1>3
    <2>3. QED
      BY <1>1, <2>1, <2>2
  <1>5. PICK r : r = SubSeq(s, t + 1, Len(s))
    OBVIOUS
  <1>6. Len(s) \in Nat /\ Len(r) = Len(s) - t /\ \A k \in 1 .. Len(s) - t : r[k] = s[t + k]
    BY <1>5
  <1>7. ASSUME NEW i \in 1 .. Len(ms)
        PROVE  ms[i].at + ms[i].size <= Len(r) /\ r[ms[i].at + 1] \in {Resync, FlushCode}
    <2>1. /\ left[i].at + left[i].size <= Len(s) /\ s[left[i].at + 1] \in {Resync, FlushCode}
          /\ t <= left[i].at
      BY <1>4 DEF MarksOK
    <2>2. PICK a \in Nat, z \in Nat \ {0} : a = left[i].at /\ z = left[i].size
      BY <1>3, <1>4
    <2>3. ms[i].at = a - t /\ ms[i].size = z
      BY <1>3, <1>4, <2>2
    <2>4. a + z <= Len(s) /\ t <= a
      BY <2>1, <2>2
    <2>5. (a - t) + z <= Len(s) - t /\ (a - t) + 1 \in 1 .. Len(s) - t /\ t + ((a - t) + 1) = a + 1
      BY <1>6, <2>4
    <2>6. r[(a - t) + 1] = s[a + 1]
      BY <1>6, <2>5
    <2>7. QED
      BY <1>6, <2>1, <2>2, <2>3, <2>5, <2>6
  <1>8. ASSUME NEW i \in 1 .. Len(ms), NEW j \in 1 .. Len(ms), i < j
        PROVE  ms[i].at + ms[i].size <= ms[j].at
    <2>1. left[i].at + left[i].size <= left[j].at
      BY <1>4, <1>8 DEF MarksOK
    <2>2. PICK a \in Nat, z \in Nat, b \in Nat : a = left[i].at /\ z = left[i].size /\ b = left[j].at
      BY <1>3, <1>4
    <2>3. ms[i].at = a - t /\ ms[i].size = z /\ ms[j].at = b - t
      BY <1>3, <1>4, <2>2
    <2>4. a + z <= b
      BY <2>1, <2>2
    <2>5. (a - t) + z <= b - t
      BY <2>4
    <2>6. QED
      BY <2>3, <2>5
  <1>9. MarksOK(ms, r)
    BY <1>4, <1>7, <1>8 DEF MarksOK
  <1>10. QED
    BY <1>2, <1>5, <1>9

----------------------------------------------------------------------------
\* The reader.

\* The states of the byte machine, and of the reader.
Parser ==
    {p \in [state : ParserState, got : Seq(Byte), dods : Seq(Int)] :
        /\ Len(p.got) <= 1
        /\ p.state = "DOD" => p.got = << >>
        /\ p.state = "VIRTUALBITS" => Len(p.got) = 1}
Reader ==
    {r \in [ccs : [Chan -> ChState], parse : Parser, insync : BOOLEAN, pending : Seq(Byte),
            ready : BOOLEAN, counter : Byte, samples : Seq([Chan -> Int16])] :
        Len(r.pending) \in {0, ResyncSize - 1}}

\* A machine's state, from its parts.
LEMMA ParserParts ==
    ASSUME NEW q \in [state : ParserState, got : Seq(Byte), dods : Seq(Int)]
    PROVE  (/\ Len(q.got) <= 1
            /\ q.state = "DOD" => q.got = << >>
            /\ q.state = "VIRTUALBITS" => Len(q.got) = 1) => q \in Parser
  BY DEF Parser

\* The residual a code stands for.
LEMMA UnzigzagType == ASSUME NEW z \in Int PROVE Unzigzag(z) \in Int
  <1>1. z \div 2 \in Int
    BY By2Range
  <1>2. QED
    BY <1>1 DEF Unzigzag

\* A residual taken: the machine is between two codes.
LEMMA TookType ==
    ASSUME NEW p \in Parser, NEW z \in Int
    PROVE  Took(p, z) \in Parser
  <1>1. p.dods \in Seq(Int)
    BY DEF Parser
  <1>2. Append(p.dods, Unzigzag(z)) \in Seq(Int)
    BY <1>1, UnzigzagType
  <1>3. << >> \in Seq(Byte) /\ Len(<< >>) = 0
    OBVIOUS
  <1>4. QED
    BY <1>2, <1>3 DEF Took, Idle, Parser, ParserState

\* A byte leaves the machine in one of its states.
LEMMA ParseType ==
    ASSUME NEW p \in Parser, NEW b \in Byte
    PROVE  ParseByte(p, b) \in Parser
  <1>1. /\ p \in [state : ParserState, got : Seq(Byte), dods : Seq(Int)]
        /\ p.state \in ParserState /\ p.got \in Seq(Byte) /\ p.dods \in Seq(Int) /\ Len(p.got) <= 1
        /\ p.state = "DOD" => p.got = << >>
        /\ p.state = "VIRTUALBITS" => Len(p.got) = 1
    BY DEF Parser
  <1>2. b \in Int
    BY DEF Byte
  <1>3. ASSUME Len(p.got) = 1 PROVE p.got[1] * 256 + b \in Int
    <2>1. p.got[1] \in Byte
      BY <1>1, <1>3
    <2>2. QED
      BY <1>2, <2>1 DEF Byte
  <1>4. CASE p.state = "DOD"
    <2>1. ParseByte(p, b) = ParseDod(p, b)
      BY <1>4 DEF ParseByte
    <2>2. CASE b > VirtualBitsEnd
      <3>1. [p EXCEPT !.state = "LARGE16"] \in Parser
        BY <1>1, <1>4 DEF Parser, ParserState
      <3>2. QED
        BY <2>1, <2>2, <3>1 DEF ParseDod
    <2>3. CASE ~ (b > VirtualBitsEnd) /\ b > VirtualBitsStart
      <3>1. b - VirtualBitsStart \in Byte
        BY <1>2, <2>3 DEF VirtualBitsStart, Byte
      <3>2. <<b - VirtualBitsStart>> \in Seq(Byte) /\ Len(<<b - VirtualBitsStart>>) = 1
        BY <3>1
      <3>3. PICK g \in Seq(Byte) : g = <<b - VirtualBitsStart>> /\ Len(g) = 1
        BY <3>2
      <3>4. PICK q : q = [state |-> "VIRTUALBITS", got |-> g, dods |-> p.dods]
        OBVIOUS
      <3>5. /\ q \in [state : ParserState, got : Seq(Byte), dods : Seq(Int)]
            /\ q.state = "VIRTUALBITS" /\ q.got = g
        BY <1>1, <3>4 DEF ParserState
      <3>6. q.state # "DOD" /\ Len(q.got) = 1 /\ Len(q.got) <= 1
        BY <3>3, <3>5
      <3>7. q \in Parser
        BY <3>5, <3>6, ParserParts
      <3>8. QED
        BY <2>1, <2>3, <3>3, <3>4, <3>7 DEF ParseDod
    <2>4. CASE ~ (b > VirtualBitsEnd) /\ ~ (b > VirtualBitsStart)
      BY <1>2, <2>1, <2>4, TookType DEF ParseDod
    <2>5. QED
      BY <2>2, <2>3, <2>4
  <1>5. CASE p.state = "LARGE16"
    <2>1. ParseByte(p, b) = ParseLarge16(p, b)
      BY <1>5 DEF ParseByte
    <2>2. CASE p.got = << >>
      <3>1. <<b>> \in Seq(Byte) /\ Len(<<b>>) = 1
        OBVIOUS
      <3>2. PICK g \in Seq(Byte) : g = <<b>> /\ Len(g) = 1
        BY <3>1
      <3>3. PICK q : q = [p EXCEPT !.got = g]
        OBVIOUS
      <3>4. q \in [state : ParserState, got : Seq(Byte), dods : Seq(Int)] /\ q.got = g /\ q.state = "LARGE16"
        BY <1>1, <1>5, <3>3
      <3>7. q.state # "DOD" /\ q.state # "VIRTUALBITS" /\ Len(q.got) <= 1
        BY <3>2, <3>4
      <3>5. q \in Parser
        BY <3>4, <3>7, ParserParts
      <3>6. QED
        BY <2>1, <2>2, <3>2, <3>3, <3>5 DEF ParseLarge16
    <2>3. CASE p.got # << >>
      <3>1. Len(p.got) = 1
        <4>1. PICK g \in Seq(Byte) : g = p.got
          BY <1>1
        <4>2. Len(g) \in Nat /\ Len(g) # 0
          BY <2>3, <4>1
        <4>3. Len(g) <= 1
          BY <1>1, <4>1
        <4>4. Len(g) = 1
          BY <4>2, <4>3
        <4>5. QED
          BY <4>1, <4>4
      <3>2. QED
        BY <1>3, <2>1, <2>3, <3>1, TookType DEF ParseLarge16
    <2>4. QED
      BY <2>2, <2>3
  <1>6. CASE p.state = "VIRTUALBITS"
    <2>1. ParseByte(p, b) = ParseVirtualBits(p, b)
      BY <1>6 DEF ParseByte
    <2>2. QED
      BY <1>1, <1>3, <1>6, <2>1, TookType DEF ParseVirtualBits
  <1>7. QED
    BY <1>1, <1>4, <1>5, <1>6 DEF ParserState

\* A residual leaves the channel in one of its states.
LEMMA DecodedType ==
    ASSUME NEW ch \in ChState, NEW d \in Int
    PROVE  Decoded(ch, d) \in ChState
  <1>1. ch.sample \in Int /\ ch.delta \in Int
    BY DEF ChState, Int16
  <1>2. Wrap16(d + ch.delta) \in Int16
    BY <1>1, WrapForm
  <1>3. Wrap16(Wrap16(d + ch.delta) + ch.sample) \in Int16
    <2>1. Wrap16(d + ch.delta) + ch.sample \in Int
      BY <1>1, <1>2 DEF Int16
    <2>2. QED
      BY <2>1, WrapForm
  <1>4. QED
    BY <1>2, <1>3 DEF Decoded, ChState

\* So does a sample that is complete with the reader.
LEMMA EmitType ==
    ASSUME NEW r \in Reader, Len(r.parse.dods) = setup.channels
    PROVE  emitSample(r) \in Reader
  <1>1. CASE Len(r.samples) >= setup.block
    BY <1>1 DEF emitSample
  <1>2. CASE ~ (Len(r.samples) >= setup.block)
    <2> DEFINE ccs == [c \in Chan |-> Decoded(r.ccs[c], r.parse.dods[c])]
               row == [c \in Chan |-> ccs[c].sample]
    <2>1. /\ r.ccs \in [Chan -> ChState] /\ r.parse \in Parser /\ r.samples \in Seq([Chan -> Int16])
          /\ r.parse.dods \in Seq(Int)
      BY DEF Reader, Parser
    <2>2. ASSUME NEW c \in Chan PROVE Decoded(r.ccs[c], r.parse.dods[c]) \in ChState
      <3>1. r.parse.dods[c] \in Int
        BY <2>1 DEF Chan
      <3>2. r.ccs[c] \in ChState
        BY <2>1
      <3>3. QED
        BY <3>1, <3>2, DecodedType
    <2>3. ccs \in [Chan -> ChState]
      BY <2>2
    <2>4. row \in [Chan -> Int16]
      <3> HIDE DEF ccs
      <3>1. QED
        BY <2>3 DEF ChState
    <2> HIDE DEF ccs, row
    <2>5. Append(r.samples, row) \in Seq([Chan -> Int16])
      BY <2>1, <2>4
    <2>6. [r.parse EXCEPT !.dods = << >>] \in Parser
      <3>1. PICK q : q = [r.parse EXCEPT !.dods = << >>]
        OBVIOUS
      <3>2. /\ r.parse \in [state : ParserState, got : Seq(Byte), dods : Seq(Int)]
            /\ Len(r.parse.got) <= 1
            /\ r.parse.state = "DOD" => r.parse.got = << >>
            /\ r.parse.state = "VIRTUALBITS" => Len(r.parse.got) = 1
        BY <2>1 DEF Parser
      <3>3. << >> \in Seq(Int)
        OBVIOUS
      <3>4. /\ q \in [state : ParserState, got : Seq(Byte), dods : Seq(Int)]
            /\ q.got = r.parse.got /\ q.state = r.parse.state
        BY <3>1, <3>2, <3>3
      <3>5. /\ Len(q.got) <= 1
            /\ q.state = "DOD" => q.got = << >>
            /\ q.state = "VIRTUALBITS" => Len(q.got) = 1
        BY <3>2, <3>4
      <3>6. q \in Parser
        BY <3>4, <3>5, ParserParts
      <3>7. QED
        BY <3>1, <3>6
    <2>7. [r EXCEPT !.ccs = ccs, !.parse.dods = << >>, !.samples = Append(@, row)] \in Reader
      BY <2>3, <2>5, <2>6 DEF Reader
    <2>8. QED
      BY <1>2, <2>7 DEF emitSample, ccs, row
  <1>3. QED
    BY <1>1, <1>2

\* And a byte.
LEMMA DecodeByteType ==
    ASSUME NEW r \in Reader, NEW b \in Byte
    PROVE  decodeByte(r, b) \in Reader
  <1>1. r.parse \in Parser
    BY DEF Reader
  <1>2. PICK p \in Parser : p = ParseByte(r.parse, b)
    BY <1>1, ParseType
  <1>3. PICK parsed : parsed = [r EXCEPT !.parse = p]
    OBVIOUS
  <1>4. parsed \in Reader /\ parsed.parse = p
    BY <1>3 DEF Reader
  <1>5. decodeByte(r, b) = IF Len(p.dods) = setup.channels THEN emitSample(parsed) ELSE parsed
    BY <1>2, <1>3 DEF decodeByte
  <1>6. QED
    BY <1>4, <1>5, EmitType

\* The recursion of decodeSample, as an equation.
AfterFn(r, bytes, f) ==
    f = [i \in 0 .. Len(bytes) |->
           IF i = 0 THEN {r} ELSE {decodeByte(q, bytes[i]) : q \in f[i - 1]}]

\* The states decodeSample ends in solve it, if anything does.
LEMMA AfterChoice ==
    ASSUME NEW r, NEW bytes, NEW f, AfterFn(r, bytes, f)
    PROVE  \E g : AfterFn(r, bytes, g) /\ decodeSample(r, bytes) = g[Len(bytes)]
  BY DEF AfterFn, decodeSample

\* The equation has a solution.
LEMMA AfterExists ==
    ASSUME NEW r \in Reader, NEW bytes \in Seq(Byte)
    PROVE  \E f : AfterFn(r, bytes, f)
  <1> DEFINE Solves(n, f) ==
               /\ f \in [0 .. n -> SUBSET Reader]
               /\ \A i \in 0 .. n :
                    f[i] = IF i = 0 THEN {r} ELSE {decodeByte(q, bytes[i]) : q \in f[i - 1]}
             Unsolved == {n \in 0 .. Len(bytes) : ~ \E f : Solves(n, f)}
  <1>1. Len(bytes) \in Nat
    OBVIOUS
  <1>2. Unsolved = {}
    <2>1. SUFFICES ASSUME Unsolved # {} PROVE FALSE
      OBVIOUS
    <2>2. PICK m \in Unsolved : \A d \in Unsolved : m <= d
      <3>1. Unsolved \in SUBSET Nat
        BY <1>1
      <3> HIDE DEF Unsolved
      <3>2. QED
        BY <2>1, <3>1, Least
    <2>3. m \in 0 .. Len(bytes) /\ m \in Nat
      BY <1>1
    <2>4. CASE m = 0
      <3>1. Solves(0, [i \in 0 .. 0 |-> {r}])
        OBVIOUS
      <3>2. QED
        BY <2>4, <3>1
    <2>5. CASE m # 0
      <3>1. m - 1 \in 0 .. Len(bytes) /\ ~ (m <= m - 1) /\ bytes[m] \in Byte
        BY <1>1, <2>3, <2>5
      <3>2. m - 1 \notin Unsolved
        BY <2>2, <3>1
      <3>3. PICK f : Solves(m - 1, f)
        BY <3>1, <3>2
      <3>4. PICK next : next = {decodeByte(q, bytes[m]) : q \in f[m - 1]}
        OBVIOUS
      <3>5. f[m - 1] \in SUBSET Reader
        BY <2>3, <2>5, <3>1, <3>3
      <3>6. next \in SUBSET Reader
        BY <3>1, <3>4, <3>5, DecodeByteType
      <3>7. PICK g : g = [i \in 0 .. m |-> IF i = m THEN next ELSE f[i]]
        OBVIOUS
      <3>8. \A i \in 0 .. m : i # m => i \in 0 .. m - 1
        BY <2>3
      <3>9. g \in [0 .. m -> SUBSET Reader]
        <4>1. \A i \in 0 .. m : i # m => f[i] \in SUBSET Reader
          BY <3>3, <3>8
        <4>2. QED
          BY <3>6, <3>7, <4>1
      <3>10. ASSUME NEW i \in 0 .. m
             PROVE  g[i] = IF i = 0 THEN {r} ELSE {decodeByte(q, bytes[i]) : q \in g[i - 1]}
        <4>1. CASE i = m
          <5>1. m \in 0 .. m /\ m - 1 \in 0 .. m /\ m - 1 # m
            BY <2>3, <2>5, <3>1
          <5>2. g[m] = next
            BY <3>7, <5>1
          <5>3. g[m - 1] = f[m - 1]
            BY <3>7, <5>1
          <5>4. QED
            BY <2>5, <3>4, <4>1, <5>2, <5>3
        <4>2. CASE i # m
          <5>1. i \in 0 .. m - 1 /\ g[i] = f[i]
            BY <3>7, <3>8, <4>2
          <5>2. i # 0 => i - 1 \in 0 .. m /\ i - 1 # m
            BY <2>3, <4>2
          <5>3. i # 0 => g[i - 1] = f[i - 1]
            BY <3>7, <5>2
          <5>4. f[i] = IF i = 0 THEN {r} ELSE {decodeByte(q, bytes[i]) : q \in f[i - 1]}
            BY <3>3, <5>1
          <5>5. QED
            BY <5>1, <5>3, <5>4
        <4>3. QED
          BY <4>1, <4>2
      <3>11. Solves(m, g)
        BY <3>9, <3>10
      <3>12. QED
        BY <3>11
    <2>6. QED
      BY <2>4, <2>5
  <1>3. PICK f : Solves(Len(bytes), f)
    <2>1. Len(bytes) \in 0 .. Len(bytes)
      BY <1>1
    <2>2. ~ (Len(bytes) \in Unsolved)
      BY <1>2
    <2>3. \E f : Solves(Len(bytes), f)
      BY <2>1, <2>2
    <2>4. QED
      BY <2>3
  <1>4. f = [i \in 0 .. Len(bytes) |->
               IF i = 0 THEN {r} ELSE {decodeByte(q, bytes[i]) : q \in f[i - 1]}]
    BY <1>3
  <1>5. QED
    BY <1>4 DEF AfterFn

\* The bytes of a chunk, one by one, leave the reader in one of its states.
LEMMA DecodeSampleType ==
    ASSUME NEW r \in Reader, NEW bytes \in Seq(Byte)
    PROVE  decodeSample(r, bytes) \in SUBSET Reader
  <1>1. PICK f : AfterFn(r, bytes, f) /\ decodeSample(r, bytes) = f[Len(bytes)]
    BY AfterExists, AfterChoice
  <1>2. Len(bytes) \in Nat
    OBVIOUS
  <1>3. \A i \in 0 .. Len(bytes) :
          f[i] = IF i = 0 THEN {r} ELSE {decodeByte(q, bytes[i]) : q \in f[i - 1]}
    <2>1. f = [i \in 0 .. Len(bytes) |->
                 IF i = 0 THEN {r} ELSE {decodeByte(q, bytes[i]) : q \in f[i - 1]}]
      BY <1>1 DEF AfterFn
    <2>2. TAKE i \in 0 .. Len(bytes)
    <2>3. [j \in 0 .. Len(bytes) |->
             IF j = 0 THEN {r} ELSE {decodeByte(q, bytes[j]) : q \in f[j - 1]}][i]
           = IF i = 0 THEN {r} ELSE {decodeByte(q, bytes[i]) : q \in f[i - 1]}
      OBVIOUS
    <2>4. QED
      BY <2>1, <2>3
  <1> DEFINE Bad == {i \in 0 .. Len(bytes) : ~ (f[i] \in SUBSET Reader)}
  <1>4. Bad = {}
    <2>1. SUFFICES ASSUME Bad # {} PROVE FALSE
      OBVIOUS
    <2>2. PICK m \in Bad : \A d \in Bad : m <= d
      <3>1. Bad \in SUBSET Nat
        BY <1>2
      <3> HIDE DEF Bad
      <3>2. QED
        BY <2>1, <3>1, Least
    <2>3. m \in 0 .. Len(bytes) /\ m \in Nat /\ ~ (f[m] \in SUBSET Reader)
      BY <1>2
    <2>4. m # 0
      BY <1>3, <2>3
    <2>5. m - 1 \in 0 .. Len(bytes) /\ ~ (m <= m - 1) /\ bytes[m] \in Byte
      BY <1>2, <2>3, <2>4
    <2>6. f[m - 1] \in SUBSET Reader
      BY <2>2, <2>5
    <2>7. f[m] = {decodeByte(q, bytes[m]) : q \in f[m - 1]}
      BY <1>3, <2>3, <2>4
    <2>8. QED
      BY <2>3, <2>5, <2>6, <2>7, DecodeByteType
  <1>5. f[Len(bytes)] \in SUBSET Reader
    <2>1. Len(bytes) \in 0 .. Len(bytes)
      BY <1>2
    <2>2. ~ (Len(bytes) \in Bad)
      BY <1>4
    <2>3. QED
      BY <2>1, <2>2
  <1>6. QED
    BY <1>1, <1>5

\* A resync's bytes make a new block.
LEMMA SyncType ==
    ASSUME setup \in Setups, NEW r \in Reader, r.pending # << >>
    PROVE  syncUpdate(r) \in Reader
  <1> DEFINE state(c) == [sample |-> FromBytes(r.pending[4 * c + 1], r.pending[4 * c + 2]),
                          delta |-> FromBytes(r.pending[4 * c + 3], r.pending[4 * c + 4])]
             ccs == [c \in Chan |-> state(c)]
             row == [c \in Chan |-> state(c).sample]
  <1>1. setup.channels \in 1 .. 14
    BY SetupFacts
  <1>2. r.pending \in Seq(Byte) /\ Len(r.pending) = 4 + 4 * setup.channels
    <2>1. r.pending \in Seq(Byte) /\ Len(r.pending) \in {0, ResyncSize - 1}
      BY DEF Reader
    <2>2. Len(r.pending) # 0
      BY <2>1
    <2>3. QED
      BY <1>1, <2>1, <2>2, SMTT(30) DEF ResyncSize
  <1>3. ASSUME NEW k \in 1 .. 4 + 4 * setup.channels PROVE r.pending[k] \in Int
    <2>1. r.pending[k] \in Byte
      BY <1>2
    <2>2. QED
      BY <2>1 DEF Byte
  <1>4. ASSUME NEW hi \in Int, NEW lo \in Int PROVE FromBytes(hi, lo) \in Int16
    <2>1. hi * 256 + lo \in Int
      OBVIOUS
    <2>2. QED
      BY <2>1, WrapForm DEF FromBytes
  <1>5. ASSUME NEW c \in Chan PROVE state(c) \in ChState /\ state(c).sample \in Int16
    <2>1. /\ 4 * c + 1 \in 1 .. 4 + 4 * setup.channels /\ 4 * c + 2 \in 1 .. 4 + 4 * setup.channels
          /\ 4 * c + 3 \in 1 .. 4 + 4 * setup.channels /\ 4 * c + 4 \in 1 .. 4 + 4 * setup.channels
      <3>1. PICK n \in Nat : n = setup.channels
        BY <1>1
      <3>2. c \in 1 .. n
        BY <3>1 DEF Chan
      <3>3. /\ 4 * c + 1 \in 1 .. 4 + 4 * n /\ 4 * c + 2 \in 1 .. 4 + 4 * n
            /\ 4 * c + 3 \in 1 .. 4 + 4 * n /\ 4 * c + 4 \in 1 .. 4 + 4 * n
        BY <3>2
      <3>4. QED
        BY <3>1, <3>3
    <2>2. /\ r.pending[4 * c + 1] \in Int /\ r.pending[4 * c + 2] \in Int
          /\ r.pending[4 * c + 3] \in Int /\ r.pending[4 * c + 4] \in Int
      BY <1>3, <2>1
    <2>3. /\ FromBytes(r.pending[4 * c + 1], r.pending[4 * c + 2]) \in Int16
          /\ FromBytes(r.pending[4 * c + 3], r.pending[4 * c + 4]) \in Int16
      BY <1>4, <2>2
    <2>4. QED
      BY <2>3 DEF ChState
  <1> HIDE DEF state
  <1>6. ccs \in [Chan -> ChState] /\ row \in [Chan -> Int16]
    BY <1>5
  <1> HIDE DEF ccs, row
  <1>7. r.pending[4] \in Byte
    BY <1>1, <1>2, SMTT(30)
  <1>8. <<row>> \in Seq([Chan -> Int16])
    BY <1>6
  <1>9. << >> \in Seq(Byte) /\ Len(<< >>) = 0
    OBVIOUS
  <1>10. [r EXCEPT !.counter = r.pending[4], !.pending = << >>, !.ready = FALSE,
                   !.ccs = ccs, !.samples = <<row>>] \in Reader
    BY <1>6, <1>7, <1>8, <1>9 DEF Reader
  <1>11. QED
    BY <1>10 DEF syncUpdate, ccs, row, state

\* A control chunk.
LEMMA ControlType ==
    ASSUME setup \in Setups, NEW r \in Reader, NEW bytes \in Seq(Byte)
    PROVE  decodeControl(r, bytes) \in Reader
  <1>1. r.parse \in Parser /\ r.parse.dods \in Seq(Int) /\ r.ready \in BOOLEAN /\ r.insync \in BOOLEAN
    BY DEF Reader, Parser
  <1>2. CASE bytes[1] = Resync /\ Len(bytes) = ResyncSize
    <2>1. ResyncSize \in Nat /\ ResyncSize > 0
      <3>0. setup.channels \in 1 .. 14
        BY SetupFacts
      <3>1. PICK n \in Nat : n = setup.channels
        BY <3>0
      <3>2. ResyncSize = 5 + 4 * n
        BY <3>1 DEF ResyncSize
      <3>3. QED
        BY <3>2
    <2>2. PICK rest \in Seq(Byte) : rest = Tail(bytes) /\ Len(rest) = ResyncSize - 1
      <3>1. Tail(bytes) \in Seq(Byte) /\ Len(Tail(bytes)) = Len(bytes) - 1
        BY <1>2, <2>1
      <3>2. QED
        BY <1>2, <3>1
    <2>3. PICK p : p = Idle(r.parse.dods)
      OBVIOUS
    <2>4. p \in Parser
      <3>1. << >> \in Seq(Byte) /\ Len(<< >>) = 0
        OBVIOUS
      <3>2. QED
        BY <1>1, <2>3, <3>1 DEF Idle, Parser, ParserState
    <2>5. [r EXCEPT !.ready = @ \/ r.insync, !.insync = TRUE, !.pending = rest, !.parse = p] \in Reader
      BY <1>1, <2>2, <2>4 DEF Reader
    <2>6. QED
      BY <1>2, <2>2, <2>3, <2>5 DEF decodeControl
  <1>3. CASE ~ (bytes[1] = Resync /\ Len(bytes) = ResyncSize) /\ bytes[1] = FlushCode
    <2>1. [r EXCEPT !.ready = @ \/ r.insync] \in Reader
      BY <1>1 DEF Reader
    <2>2. QED
      BY <1>3, <2>1 DEF decodeControl
  <1>4. CASE ~ (bytes[1] = Resync /\ Len(bytes) = ResyncSize) /\ bytes[1] # FlushCode
    BY <1>4 DEF decodeControl
  <1>5. QED
    BY <1>2, <1>3, <1>4

\* A chunk, of samples or of control bytes.
LEMMA DecodeType ==
    ASSUME setup \in Setups, NEW r \in Reader, NEW bytes \in Seq(Byte), NEW control \in BOOLEAN
    PROVE  decode(r, bytes, control) \in SUBSET Reader
  <1>1. PICK s : s = IF r.pending # << >> THEN syncUpdate(r) ELSE r
    OBVIOUS
  <1>2. s \in Reader
    BY <1>1, SyncType
  <1>3. decodeControl(s, bytes) \in Reader /\ decodeSample(s, bytes) \in SUBSET Reader
    BY <1>2, ControlType, DecodeSampleType
  <1>4. decode(r, bytes, control) =
          IF control THEN {decodeControl(x, bytes) : x \in {s}}
          ELSE IF r.insync THEN UNION {decodeSample(x, bytes) : x \in {s}} ELSE {r}
    BY <1>1 DEF decode
  <1>5. QED
    BY <1>3, <1>4

----------------------------------------------------------------------------
\* The invariant.

Sample == [sample : [Chan -> Int16], accepted : BOOLEAN]

(***************************************************************************)
(* The inductive invariant: the types, the room, the marks in order and    *)
(* apart, and the states of the reader.                                    *)
(***************************************************************************)
WriterInv ==
    /\ setup \in Setups
    /\ wccs \in [Chan -> ChState]
    /\ stream \in Seq(Byte) /\ Len(stream) <= setup.ring - 1
    /\ MarksOK(marks, stream)
    /\ till \in 0 .. setup.period /\ backpressure \in BOOLEAN
CodecInv ==
    /\ WriterInv
    /\ reader \in Reader
    /\ offered \in Seq(Sample) /\ Len(offered) <= MaxOffered

\* The reserve of up to 14 channels is not cut by the 8 bits it is kept in.
LEMMA ReserveWhole == \A n \in 1 .. 14 : (16 * n) % 256 = 16 * n
  <1>1. TAKE n \in 1 .. 14
  <1>2. PICK z \in Int : z = 16 * n
    OBVIOUS
  <1>3. PICK q \in Int, r \in Int : q = z \div 256 /\ r = z % 256
    BY By256Range DEF Byte
  <1>4. r = z - 256 * q /\ 0 <= r /\ r <= 255
    BY <1>3, By256, By256Range DEF Byte
  <1>5. r = z
    BY <1>2, <1>4
  <1>6. QED
    BY <1>2, <1>3, <1>5

\* A sample accepted, as a resync or as codes, is within the reserve.
LEMMA PushWriter ==
    ASSUME CodecInv, NEW v \in setup.vectors, pushSample(v), Len(offered) < MaxOffered,
           setup' = setup
    PROVE  WriterInv' /\ offered' \in Seq(Sample) /\ Len(offered') <= MaxOffered
  <1> DEFINE refused == backpressure \/ Free <= Reserve
             sync == ~refused /\ till = 0
             ccs == [c \in Chan |-> [sample |-> v[c], delta |-> Delta(wccs[c], v[c])]]
             codes == FlattenSeq([c \in Chan |-> Code(Dod(wccs[c], v[c]))])
  <1>1. /\ wccs' = ccs /\ backpressure' = refused
        /\ till' = IF backpressure THEN till
                   ELSE IF refused THEN 0
                   ELSE IF sync THEN setup.period ELSE till - 1
        /\ stream' = IF refused THEN stream
                     ELSE IF sync THEN stream \o ResyncBytes(ccs) ELSE stream \o codes
        /\ marks' = IF sync THEN Marked(ResyncSize) ELSE marks
        /\ offered' = Append(offered, [sample |-> v, accepted |-> ~refused])
    BY DEF pushSample
  <1>2. /\ setup \in Setups /\ wccs \in [Chan -> ChState] /\ stream \in Seq(Byte)
        /\ Len(stream) <= setup.ring - 1 /\ MarksOK(marks, stream)
        /\ till \in 0 .. setup.period /\ backpressure \in BOOLEAN
        /\ offered \in Seq(Sample)
    BY DEF CodecInv, WriterInv
  <1>3. /\ setup.channels \in 1 .. 14 /\ setup.period \in 1 .. 255 /\ setup.ring \in Nat
        /\ v \in [Chan -> Int16]
    BY <1>2, SetupFacts
  <1>4. ccs \in [Chan -> ChState]
    <2>1. ASSUME NEW c \in Chan
          PROVE  [sample |-> v[c], delta |-> Delta(wccs[c], v[c])] \in ChState
      <3>1. v[c] \in Int16 /\ wccs[c] \in ChState
        BY <1>2, <1>3
      <3>2. Delta(wccs[c], v[c]) \in Int16
        BY <3>1, DodType
      <3>3. QED
        BY <3>1, <3>2 DEF ChState
    <2>2. QED
      BY <2>1
  <1>5. refused \in BOOLEAN
    OBVIOUS
  <1>6. Len(offered) \in Byte /\ Len(offered) \in Nat /\ MaxOffered \in 0 .. 255
    BY <1>2, MaxOfferedAssumption, SMTT(30) DEF Byte
  <1>7. offered' \in Seq(Sample) /\ Len(offered') <= MaxOffered
    <2>1. PICK b \in BOOLEAN : b = ~refused
      BY <1>5
    <2>2. [sample |-> v, accepted |-> b] \in Sample
      BY <1>3 DEF Sample
    <2>3. offered' = Append(offered, [sample |-> v, accepted |-> b])
      BY <1>1, <2>1
    <2>4. QED
      BY <1>2, <1>6, <2>2, <2>3
  <1>8. Chan' = Chan
    BY DEF Chan
  <1>9. ~refused => Len(stream) + 16 * setup.channels < setup.ring - 1
    <2>1. PICK n \in 1 .. 14 : n = setup.channels
      BY <1>3
    <2>2. (16 * n) % 256 = 16 * n
      BY <2>1, ReserveWhole
    <2>3. ~refused => setup.ring - 1 - Len(stream) > 16 * n
      <3>1. Free = setup.ring - 1 - Len(stream) /\ Reserve = 16 * n
        BY <2>1, <2>2 DEF Free, Reserve
      <3>2. Len(stream) \in Nat
        BY <1>2
      <3>3. QED
        BY <1>3, <3>1, <3>2
    <2>4. PICK k \in Nat, r \in Nat : k = Len(stream) /\ r = setup.ring
      BY <1>2, <1>3
    <2>5. r - 1 - k > 16 * n => k + 16 * n < r - 1
      OBVIOUS
    <2>6. QED
      BY <2>1, <2>3, <2>4, <2>5
  <1> HIDE DEF refused, ccs, codes
  <1>10. till' \in 0 .. setup.period
    <2>1. PICK p \in 1 .. 255 : p = setup.period
      BY <1>3
    <2>2. till \in 0 .. p
      BY <1>2, <2>1
    <2>3. till' \in {till, 0, p} \/ (till' = till - 1 /\ till # 0)
      BY <1>1, <2>1 DEF sync, refused
    <2>4. till' \in 0 .. p
      BY <2>2, <2>3
    <2>5. QED
      BY <2>1, <2>4
  <1>11. CASE refused
    <2>1. stream' = stream /\ marks' = marks
      BY <1>1, <1>11
    <2>2. QED
      BY <1>1, <1>2, <1>4, <1>5, <1>7, <1>8, <1>10, <2>1 DEF WriterInv
  <1>12. CASE ~refused /\ till = 0
    <2>1. PICK w \in Seq(Byte) : w = ResyncBytes(ccs) /\ Len(w) = ResyncSize /\ w[1] = Resync
      BY <1>2, <1>4, <1>6, ResyncBytesSize
    <2>2. stream' = stream \o w /\ marks' = Marked(ResyncSize)
      BY <1>1, <1>12, <2>1
    <2>3. PICK n \in 1 .. 14 : n = setup.channels /\ ResyncSize = 5 + 4 * n
      BY <1>3 DEF ResyncSize
    <2>4. ResyncSize \in Nat \ {0} /\ ResyncSize <= Len(w)
      BY <2>1, <2>3
    <2>5. MarksOK(marks', stream')
      BY <1>2, <2>1, <2>2, <2>4, MarkedOK
    <2>6. stream' \in Seq(Byte) /\ Len(stream') = Len(stream) + Len(w)
      BY <1>2, <2>1, <2>2, Concat
    <2>7. Len(stream') <= setup.ring - 1
      <3>1. PICK k \in Nat, r \in Nat : k = Len(stream) /\ r = setup.ring
        BY <1>2, <1>3
      <3>2. k + 16 * n < r - 1 /\ Len(stream') = k + (5 + 4 * n)
        BY <1>9, <1>12, <2>1, <2>3, <2>6, <3>1
      <3>3. k + (5 + 4 * n) <= r - 1
        BY <3>2
      <3>4. QED
        BY <3>1, <3>2, <3>3
    <2>8. QED
      BY <1>1, <1>2, <1>4, <1>5, <1>7, <1>8, <1>10, <2>5, <2>6, <2>7 DEF WriterInv
  <1>13. CASE ~refused /\ till # 0
    <2>1. PICK w \in Seq(Byte) : w = codes /\ Len(w) <= 3 * setup.channels
      BY <1>2, <1>3, CodesSize DEF codes
    <2>2. stream' = stream \o w /\ marks' = marks
      BY <1>1, <1>13, <2>1
    <2>3. MarksOK(marks', stream')
      BY <1>2, <2>1, <2>2, MarksGrow
    <2>4. stream' \in Seq(Byte) /\ Len(stream') = Len(stream) + Len(w)
      BY <1>2, <2>1, <2>2, Concat
    <2>5. Len(stream') <= setup.ring - 1
      <3>0. Len(stream) \in Nat /\ Len(w) \in Nat
        BY <1>2
      <3>1. PICK k \in Nat, r \in Nat, n \in 1 .. 14, z \in Nat :
                k = Len(stream) /\ r = setup.ring /\ n = setup.channels /\ z = Len(w)
        BY <1>3, <3>0
      <3>2. k + 16 * n < r - 1 /\ Len(stream') = k + z /\ z <= 3 * n
        BY <1>9, <1>13, <2>1, <2>4, <3>1
      <3>3. k + z <= r - 1
        BY <3>2
      <3>4. QED
        BY <3>1, <3>2, <3>3
    <2>6. QED
      BY <1>1, <1>2, <1>4, <1>5, <1>7, <1>8, <1>10, <2>3, <2>4, <2>5 DEF WriterInv
  <1>14. QED
    BY <1>11, <1>12, <1>13

\* A flush: one byte, marked.
LEMMA FlushWriter ==
    ASSUME CodecInv, flush, setup' = setup
    PROVE  WriterInv'
  <1>1. /\ setup \in Setups /\ wccs \in [Chan -> ChState] /\ stream \in Seq(Byte)
        /\ MarksOK(marks, stream) /\ backpressure \in BOOLEAN
    BY DEF CodecInv, WriterInv
  <1>2. setup.period \in 1 .. 255 /\ setup.ring \in Nat
    BY <1>1, SetupFacts
  <1>3. PICK w : w = <<FlushCode>>
    OBVIOUS
  <1>4. w \in Seq(Byte) /\ Len(w) = 1 /\ w[1] = FlushCode
    <2>1. FlushCode \in Byte
      BY DEF FlushCode, Byte
    <2>2. QED
      BY <1>3, <2>1
  <1>5. stream' = stream \o w
    BY <1>1, <1>3 DEF flush
  <1>6. MarksOK(marks', stream')
    BY <1>1, <1>4, <1>5, MarkedOK DEF flush
  <1>7. stream' \in Seq(Byte) /\ Len(stream') = Len(stream) + 1
    BY <1>1, <1>4, <1>5, Concat
  <1>8. Len(stream') <= setup.ring - 1
    <2>1. PICK k \in Nat, r \in Nat : k = Len(stream) /\ r = setup.ring
      BY <1>1, <1>2
    <2>2. r - 1 - k > 16
      BY <2>1 DEF flush, Free
    <2>3. k + 1 <= r - 1
      BY <2>2
    <2>4. QED
      BY <1>7, <2>1, <2>3
  <1>9. till' \in 0 .. setup.period /\ wccs' = wccs /\ backpressure' = backpressure
    <2>1. 0 \in 0 .. setup.period
      BY <1>2
    <2>2. QED
      BY <2>1 DEF flush
  <1>10. Chan' = Chan
    BY DEF Chan
  <1>11. QED
    BY <1>1, <1>6, <1>7, <1>8, <1>9, <1>10 DEF WriterInv

\* The marks that stay when a chunk is taken.
Left == IF AtMark THEN Tail(marks) ELSE marks

\* A chunk goes no further than the first of them.
LEMMA ChunkBound ==
    ASSUME WriterInv
    PROVE  /\ ChunkSize \in 0 .. Len(stream)
           /\ MarksOK(Left, stream) /\ \A i \in 1 .. Len(Left) : ChunkSize <= Left[i].at
  <1>1. setup \in Setups /\ stream \in Seq(Byte) /\ MarksOK(marks, stream)
    BY DEF WriterInv
  <1>2. setup.readSize \in Nat
    BY <1>1, SetupFacts
  <1>3. marks \in Seq(Mark) /\ Len(marks) \in Nat /\ Len(stream) \in Nat
    BY <1>1 DEF MarksOK
  <1>4. ASSUME NEW i \in 1 .. Len(marks)
        PROVE  /\ marks[i].at \in Nat /\ marks[i].size \in Nat \ {0}
               /\ marks[i].at + marks[i].size <= Len(stream)
               /\ \A j \in 1 .. Len(marks) : i < j => marks[i].at + marks[i].size <= marks[j].at
    <2>1. marks[i] \in Mark
      BY <1>3
    <2>2. QED
      BY <1>1, <2>1 DEF MarksOK, Mark
  <1>5. /\ ChunkSize \in 0 .. Len(stream)
        /\ MarksOK(Left, stream) /\ \A i \in 1 .. Len(Left) : ChunkSize <= Left[i].at
    <2>1. CASE AtMark
      <3>1. marks # << >> /\ marks[1].at = 0 /\ 1 \in 1 .. Len(marks)
        BY <1>3, <2>1 DEF AtMark
      <3>2. ChunkSize = marks[1].size
        BY <2>1 DEF ChunkSize
      <3>3. ChunkSize \in 0 .. Len(stream)
        BY <1>3, <1>4, <3>1, <3>2
      <3>4. PICK rest : rest = Tail(marks)
        OBVIOUS
      <3>5. rest \in Seq(Mark) /\ Len(rest) = Len(marks) - 1
        BY <1>3, <3>1, <3>4
      <3>6. ASSUME NEW i \in 1 .. Len(rest)
            PROVE  i + 1 \in 1 .. Len(marks) /\ rest[i] = marks[i + 1]
        BY <1>3, <3>1, <3>4, <3>5
      <3>7. MarksOK(rest, stream)
        <4>1. ASSUME NEW i \in 1 .. Len(rest)
              PROVE  /\ rest[i].at + rest[i].size <= Len(stream)
                     /\ stream[rest[i].at + 1] \in {Resync, FlushCode}
          BY <1>1, <3>6 DEF MarksOK
        <4>2. ASSUME NEW i \in 1 .. Len(rest), NEW j \in 1 .. Len(rest), i < j
              PROVE  rest[i].at + rest[i].size <= rest[j].at
          <5>1. i + 1 < j + 1
            BY <4>2
          <5>2. QED
            BY <1>4, <3>6, <5>1
        <4>3. QED
          BY <3>5, <4>1, <4>2 DEF MarksOK
      <3>8. ASSUME NEW i \in 1 .. Len(rest) PROVE ChunkSize <= rest[i].at
        <4>1. i + 1 \in 1 .. Len(marks) /\ 1 < i + 1 /\ rest[i] = marks[i + 1]
          BY <3>6
        <4>2. marks[1].at + marks[1].size <= marks[i + 1].at
          BY <1>4, <3>1, <4>1
        <4>3. QED
          BY <1>4, <3>1, <3>2, <4>1, <4>2
      <3>9. QED
        BY <2>1, <3>3, <3>4, <3>7, <3>8 DEF Left
    <2>2. CASE ~AtMark /\ marks = << >>
      <3>1. ChunkSize = Min2(setup.readSize, Len(stream))
        BY <2>2 DEF ChunkSize
      <3>2. ChunkSize \in 0 .. Len(stream)
        BY <1>2, <1>3, <3>1 DEF Min2
      <3>3. Left = marks /\ Len(Left) = 0
        BY <2>2 DEF Left
      <3>4. QED
        BY <1>1, <2>2, <3>2, <3>3
    <2>3. CASE ~AtMark /\ marks # << >>
      <3>1. ChunkSize = Min2(setup.readSize, marks[1].at) /\ 1 \in 1 .. Len(marks)
        BY <1>3, <2>3 DEF ChunkSize
      <3>2. ChunkSize \in Nat /\ ChunkSize <= marks[1].at
        BY <1>2, <1>4, <3>1 DEF Min2
      <3>3. ChunkSize \in 0 .. Len(stream)
        BY <1>3, <1>4, <3>1, <3>2
      <3>4. ASSUME NEW i \in 1 .. Len(marks) PROVE ChunkSize <= marks[i].at
        <4>1. marks[1].at <= marks[i].at
          <5>1. CASE i = 1
            BY <1>4, <5>1
          <5>2. CASE i # 1
            <6>1. 1 < i
              BY <5>2
            <6>2. marks[1].at + marks[1].size <= marks[i].at
              BY <1>4, <3>1, <6>1
            <6>3. QED
              BY <1>4, <3>1, <6>2
          <5>3. QED
            BY <5>1, <5>2
        <4>2. QED
          BY <1>4, <3>1, <3>2, <4>1
      <3>5. Left = marks
        BY <2>3 DEF Left
      <3>6. QED
        BY <1>1, <2>3, <3>3, <3>4, <3>5
    <2>4. QED
      BY <2>1, <2>2, <2>3
  <1>6. QED
    BY <1>5

\* A chunk taken.
LEMMA ReadWriter ==
    ASSUME CodecInv, readNext, setup' = setup
    PROVE  WriterInv' /\ Chunk \in Seq(Byte)
  <1>1. /\ setup \in Setups /\ wccs \in [Chan -> ChState] /\ stream \in Seq(Byte)
        /\ Len(stream) <= setup.ring - 1 /\ Len(stream) \in Nat
        /\ backpressure \in BOOLEAN /\ till \in 0 .. setup.period
    BY DEF CodecInv, WriterInv
  <1>2. setup.readSize \in Nat /\ setup.ring \in Nat
    BY <1>1, SetupFacts
  <1>5. /\ ChunkSize \in 0 .. Len(stream)
        /\ MarksOK(Left, stream) /\ \A i \in 1 .. Len(Left) : ChunkSize <= Left[i].at
    BY ChunkBound DEF CodecInv
  <1>6. PICK t \in 0 .. Len(stream) : t = ChunkSize
    BY <1>5
  <1>7. /\ stream' = SubSeq(stream, t + 1, Len(stream))
        /\ marks' = [i \in DOMAIN Left |-> [Left[i] EXCEPT !.at = @ - t]]
    BY <1>6 DEF readNext, Left
  <1>8. MarksOK(marks', stream')
    BY <1>1, <1>5, <1>6, <1>7, MarksShift
  <1>9. stream' \in Seq(Byte) /\ Len(stream') <= Len(stream)
    BY <1>1, <1>7
  <1>10. Len(stream') <= setup.ring - 1
    <2>1. Len(stream') \in Nat
      BY <1>9
    <2>2. QED
      BY <1>1, <1>2, <1>9, <2>1
  <1>11. Chunk \in Seq(Byte)
    <2>1. SubSeq(stream, 1, t) \in Seq(Byte)
      BY <1>1, <1>6
    <2>2. QED
      BY <1>6, <2>1 DEF Chunk
  <1>12. backpressure' \in BOOLEAN /\ wccs' = wccs /\ till' = till
    BY <1>1 DEF readNext
  <1>13. Chan' = Chan
    BY DEF Chan
  <1>14. QED
    BY <1>1, <1>8, <1>9, <1>10, <1>11, <1>12, <1>13 DEF WriterInv

----------------------------------------------------------------------------
\* At first everything is empty.
LEMMA InitCodec == Init => CodecInv
  <1> SUFFICES ASSUME Init PROVE CodecInv
    OBVIOUS
  <1>1. setup \in Setups
    BY DEF Init
  <1>2. setup.channels \in 1 .. 14 /\ setup.period \in 1 .. 255 /\ setup.ring \in Nat /\ setup.ring - 1 > 16 * setup.channels
    BY <1>1, SetupFacts
  <1>3. 0 \in Int16 /\ 0 \in Byte
    BY DEF Int16, Byte
  <1>4. wccs \in [Chan -> ChState]
    <2>1. [sample |-> 0, delta |-> 0] \in ChState
      BY <1>3 DEF ChState
    <2>2. QED
      BY <2>1 DEF Init
  <1>5. /\ << >> \in Seq(Byte) /\ << >> \in Seq(Int) /\ << >> \in Seq(Mark) /\ << >> \in Seq(Sample)
        /\ << >> \in Seq([Chan -> Int16]) /\ Len(<< >>) = 0
    OBVIOUS
  <1>6. Idle(<< >>) \in Parser
    BY <1>5 DEF Idle, Parser, ParserState
  <1>7. reader \in Reader
    <2>1. reader = [ccs |-> wccs, parse |-> Idle(<< >>), insync |-> FALSE, pending |-> << >>,
                    ready |-> FALSE, counter |-> 0, samples |-> << >>]
      BY DEF Init
    <2>2. QED
      BY <1>3, <1>4, <1>5, <1>6, <2>1 DEF Reader
  <1>8. MarksOK(marks, stream)
    <2>1. marks = << >>
      BY DEF Init
    <2>2. QED
      BY <1>5, <2>1 DEF MarksOK
  <1>9. Len(stream) <= setup.ring - 1
    <2>1. Len(stream) = 0
      BY <1>5 DEF Init
    <2>2. QED
      BY <1>2, <2>1
  <1>10. WriterInv
    <2>0. 0 \in 0 .. setup.period
      BY <1>2
    <2>1. till \in 0 .. setup.period
      BY <2>0 DEF Init
    <2>2. stream \in Seq(Byte) /\ backpressure \in BOOLEAN
      BY <1>5 DEF Init
    <2>3. QED
      BY <1>1, <1>4, <1>8, <1>9, <2>1, <2>2 DEF WriterInv
  <1>11. offered \in Seq(Sample) /\ Len(offered) <= MaxOffered
    BY <1>5, MaxOfferedAssumption DEF Init
  <1>12. QED
    BY <1>7, <1>10, <1>11 DEF CodecInv

\* A reader that a step leaves alone.
LEMMA ReaderKept ==
    ASSUME CodecInv, setup' = setup, reader' \in Reader
    PROVE  (reader \in Reader)'
  <1>1. Reader' = Reader
    BY DEF Reader, Chan, ResyncSize
  <1>2. QED
    BY <1>1

\* The samples offered that a step leaves alone.
LEMMA SampleKept ==
    ASSUME setup' = setup, offered' \in Seq(Sample), Len(offered') <= MaxOffered
    PROVE  (offered \in Seq(Sample) /\ Len(offered) <= MaxOffered)'
  <1>1. Sample' = Sample
    BY DEF Sample, Chan
  <1>2. QED
    BY <1>1

\* Every step keeps the invariant.
LEMMA NextCodec == ASSUME CodecInv, [Next]_vars PROVE CodecInv'
  <1>1. /\ reader \in Reader /\ offered \in Seq(Sample) /\ Len(offered) <= MaxOffered
        /\ WriterInv /\ setup \in Setups
    BY DEF CodecInv, WriterInv
  <1>2. CASE Push
    <2>1. PICK v \in setup.vectors : pushSample(v)
      BY <1>2 DEF Push
    <2>2. setup' = setup /\ reader' = reader /\ Len(offered) < MaxOffered
      BY <1>2 DEF Push
    <2>3. WriterInv' /\ offered' \in Seq(Sample) /\ Len(offered') <= MaxOffered
      BY <2>1, <2>2, PushWriter
    <2>4. QED
      BY <1>1, <2>2, <2>3, ReaderKept, SampleKept DEF CodecInv
  <1>3. CASE Flush \/ Close
    <2>1. flush /\ setup' = setup /\ reader' = reader /\ offered' = offered
      BY <1>3 DEF Flush, Close
    <2>2. QED
      BY <1>1, <2>1, FlushWriter, ReaderKept, SampleKept DEF CodecInv
  <1>4. CASE Receive
    <2>1. readNext /\ setup' = setup /\ offered' = offered
      BY <1>4 DEF Receive, caller
    <2>2. WriterInv' /\ Chunk \in Seq(Byte)
      BY <2>1, ReadWriter
    <2>3. PICK r \in decode(reader, Chunk, AtMark) : reader' = [r EXCEPT !.ready = FALSE]
      BY <1>4 DEF Receive
    <2>4. r \in Reader
      <3>1. AtMark \in BOOLEAN
        BY DEF AtMark
      <3>2. QED
        BY <1>1, <2>2, <2>3, <3>1, DecodeType
    <2>5. reader' \in Reader
      BY <2>3, <2>4 DEF Reader
    <2>6. QED
      BY <1>1, <2>1, <2>2, <2>5, ReaderKept, SampleKept DEF CodecInv
  <1>5. CASE Lose
    <2>1. readNext /\ setup' = setup /\ offered' = offered /\ reader' = reader
      BY <1>5 DEF Lose, caller
    <2>2. QED
      BY <1>1, <2>1, ReadWriter, ReaderKept, SampleKept DEF CodecInv
  <1>6. CASE UNCHANGED vars
    BY <1>1, <1>6 DEF vars, caller, link, CodecInv, WriterInv, Reader, Sample, Chan, ResyncSize, MarksOK
  <1>7. QED
    BY <1>2, <1>3, <1>4, <1>5, <1>6 DEF Next

\* It says what the type invariant says.
LEMMA CodecInvType == CodecInv => CodecTypeOK
  <1> SUFFICES ASSUME CodecInv PROVE CodecTypeOK
    OBVIOUS
  <1>1. /\ setup \in Setups /\ wccs \in [Chan -> ChState] /\ till \in 0 .. setup.period
        /\ stream \in Seq(Byte) /\ MarksOK(marks, stream) /\ reader \in Reader
    BY DEF CodecInv, WriterInv
  <1>2. \A i \in DOMAIN stream : stream[i] \in Byte
    BY <1>1
  <1>3. ASSUME NEW i \in DOMAIN marks
        PROVE  /\ marks[i].at >= 0 /\ marks[i].at + marks[i].size <= Len(stream)
               /\ stream[marks[i].at + 1] \in {Resync, FlushCode}
    <2>1. marks \in Seq(Mark)
      BY <1>1 DEF MarksOK
    <2>2. i \in 1 .. Len(marks) /\ marks[i] \in Mark
      BY <2>1
    <2>3. QED
      BY <1>1, <2>2 DEF MarksOK, Mark
  <1>4. /\ reader.ccs \in [Chan -> ChState] /\ reader.parse \in Parser
        /\ Len(reader.pending) \in {0, ResyncSize - 1}
    BY <1>1 DEF Reader
  <1>5. reader.parse.state \in ParserState /\ Len(reader.parse.got) <= 1
    BY <1>4 DEF Parser
  <1>6. QED
    BY <1>1, <1>2, <1>3, <1>4, <1>5 DEF CodecTypeOK

(***************************************************************************)
(* The marks lie in the stream, on control bytes; the counters and the     *)
(* reader's machine stay in their ranges.                                  *)
(***************************************************************************)
THEOREM CodecTypeCorrect == Spec => []CodecTypeOK
  <1>1. CodecInv /\ [Next]_vars => CodecInv'
    BY NextCodec
  <1>2. QED
    BY <1>1, InitCodec, CodecInvType, PTL DEF Spec

(***************************************************************************)
(* The writer never overruns its ring: pushFast looks for no room, and the *)
(* reserve that pushSample and flush keep is enough for what they push,    *)
(* for any number of channels the reader can resynchronise.                *)
(***************************************************************************)
THEOREM CodecRoom == Spec => []Room
  <1>1. CodecInv /\ [Next]_vars => CodecInv'
    BY NextCodec
  <1>2. CodecInv => Room
    BY DEF CodecInv, WriterInv, Room
  <1>3. QED
    BY <1>1, <1>2, InitCodec, PTL DEF Spec

----------------------------------------------------------------------------
\* Where the pieces of a flattened sequence are.

\* Piece m takes the places cut[m - 1] + 1 .. cut[m].
CutsOf(s, cut) ==
    /\ cut \in [0 .. Len(s) -> Nat] /\ cut[0] = 0 /\ cut[Len(s)] = Len(FlattenSeq(s))
    /\ \A m \in 1 .. Len(s) :
         /\ cut[m] = cut[m - 1] + Len(s[m])
         /\ \A j \in 1 .. Len(s[m]) : /\ cut[m - 1] + j \in 1 .. Len(FlattenSeq(s))
                                      /\ FlattenSeq(s)[cut[m - 1] + j] = s[m][j]

LEMMA InSum ==
    \A n, q \in Nat : /\ \A j \in 1 .. q : n + j \in 1 .. n + q
                     /\ \A x \in 1 .. n : x \in 1 .. n + q
  BY SMT

LEMMA ConcatAt ==
    ASSUME NEW a \in Seq(Byte), NEW b \in Seq(Byte)
    PROVE  /\ a \o b \in Seq(Byte) /\ Len(a) \in Nat /\ Len(b) \in Nat
           /\ Len(a \o b) = Len(a) + Len(b)
           /\ \A i \in 1 .. Len(a) : (a \o b)[i] = a[i]
           /\ \A j \in 1 .. Len(b) : (a \o b)[Len(a) + j] = b[j]
  OBVIOUS

LEMMA ConcatIs ==
    ASSUME NEW a \in Seq(Byte), NEW b \in Seq(Byte), NEW z, z = a \o b
    PROVE  /\ z \in Seq(Byte) /\ Len(z) \in Nat
           /\ Len(z) = Len(a) + Len(b) /\ Len(a) \in Nat
           /\ \A i \in 1 .. Len(a) : z[i] = a[i]
           /\ \A j \in 1 .. Len(b) : z[Len(a) + j] = b[j]
  BY ConcatAt

\* The pieces are there.
LEMMA FlattenCuts ==
    ASSUME NEW s \in Seq(Seq(Byte)), Len(s) # 0
    PROVE  \E cut : CutsOf(s, cut)
  <1>1. PICK f : FlattenFn(s, f) /\ FlattenSeq(s) = f[Len(s)]
    BY FlattenExists, FlattenChoice
  <1>2. Len(s) \in Nat \ {0} /\ \A i \in 1 .. Len(s) : s[i] \in Seq(Byte) /\ Len(s[i]) \in Nat
    OBVIOUS
  <1>e. \A i \in 1 .. Len(s) : f[i] = IF i = 1 THEN s[i] ELSE f[i - 1] \o s[i]
    <2>1. f = [i \in 1 .. Len(s) |-> IF i = 1 THEN s[i] ELSE f[i - 1] \o s[i]]
      BY <1>1 DEF FlattenFn
    <2>2. TAKE i \in 1 .. Len(s)
    <2>3. [j \in 1 .. Len(s) |-> IF j = 1 THEN s[j] ELSE f[j - 1] \o s[j]][i]
             = IF i = 1 THEN s[i] ELSE f[i - 1] \o s[i]
      OBVIOUS
    <2>4. QED
      BY <2>1, <2>3
  <1>c. PICK cut : cut = [m \in 0 .. Len(s) |-> IF m = 0 THEN 0 ELSE Len(f[m])]
    OBVIOUS
  <1>d. cut[0] = 0 /\ \A m \in 1 .. Len(s) : cut[m] = Len(f[m])
    <2>1. 0 \in 0 .. Len(s) /\ \A m \in 1 .. Len(s) : m \in 0 .. Len(s) /\ m # 0
      BY <1>2
    <2>2. QED
      BY <1>c, <2>1
  <1> DEFINE Good(i) ==
               /\ f[i] \in Seq(Byte) /\ cut[i] = cut[i - 1] + Len(s[i]) /\ cut[i - 1] \in Nat
               /\ \A m \in 1 .. i : \A j \in 1 .. Len(s[m]) :
                    cut[m - 1] + j \in 1 .. Len(f[i]) /\ f[i][cut[m - 1] + j] = s[m][j]
             Bad == {i \in 1 .. Len(s) : ~Good(i)}
  <1>3. Bad = {}
    <2>1. SUFFICES ASSUME Bad # {} PROVE FALSE
      OBVIOUS
    <2>2. PICK m \in Bad : \A d \in Bad : m <= d
      <3>1. Bad \in SUBSET Nat
        BY <1>2
      <3> HIDE DEF Bad
      <3>2. QED
        BY <2>1, <3>1, Least
    <2>3. m \in 1 .. Len(s) /\ m \in Nat /\ s[m] \in Seq(Byte) /\ Len(s[m]) \in Nat /\ ~Good(m)
          /\ \A x \in 1 .. Len(s) : Good(x) \/ m <= x
      <3> HIDE DEF Good
      <3>1. m \in 1 .. Len(s) /\ ~Good(m)
        BY <2>2
      <3>2. \A x \in 1 .. Len(s) : Good(x) \/ m <= x
        BY <2>2
      <3>3. m \in Nat /\ s[m] \in Seq(Byte) /\ Len(s[m]) \in Nat
        BY <1>2, <3>1
      <3>4. QED
        BY <3>1, <3>2, <3>3
    <2> HIDE DEF Bad
    <2>4. CASE m = 1
      <3>1. f[1] = s[1] /\ cut[1] = Len(s[1]) /\ cut[0] = 0
        BY <1>d, <1>e, <2>3, <2>4
      <3>2. ASSUME NEW k \in 1 .. 1, NEW j \in 1 .. Len(s[k])
            PROVE  cut[k - 1] + j \in 1 .. Len(f[1]) /\ f[1][cut[k - 1] + j] = s[k][j]
        BY <2>3, <2>4, <3>1
      <3>3. Good(1)
        BY <2>3, <2>4, <3>1, <3>2
      <3>4. QED
        BY <2>3, <2>4, <3>3
    <2>5. CASE m # 1
      <3>1. m - 1 \in 1 .. Len(s) /\ ~ (m <= m - 1)
        BY <1>2, <2>3, <2>5
      <3>2. Good(m - 1)
        BY <2>3, <3>1
      <3>3. f[m] = f[m - 1] \o s[m] /\ cut[m - 1] = Len(f[m - 1]) /\ cut[m] = Len(f[m])
        BY <1>d, <1>e, <2>3, <2>5, <3>1
      <3>4. /\ f[m] \in Seq(Byte) /\ Len(f[m]) \in Nat /\ Len(f[m]) = Len(f[m - 1]) + Len(s[m]) /\ Len(f[m - 1]) \in Nat
            /\ \A i \in 1 .. Len(f[m - 1]) : f[m][i] = f[m - 1][i]
            /\ \A j \in 1 .. Len(s[m]) : f[m][Len(f[m - 1]) + j] = s[m][j]
        <4>1. PICK a \in Seq(Byte), b \in Seq(Byte) : a = f[m - 1] /\ b = s[m]
          BY <2>3, <3>2
        <4>2. PICK z : z = a \o b
          OBVIOUS
        <4>3. /\ z \in Seq(Byte) /\ Len(z) \in Nat /\ Len(z) = Len(a) + Len(b) /\ Len(a) \in Nat
              /\ \A i \in 1 .. Len(a) : z[i] = a[i]
              /\ \A j \in 1 .. Len(b) : z[Len(a) + j] = b[j]
          BY <4>2, ConcatIs
        <4>4. f[m] = z
          BY <3>3, <4>1, <4>2
        <4>5. QED
          BY <4>1, <4>3, <4>4
      <3>5. ASSUME NEW k \in 1 .. m, NEW j \in 1 .. Len(s[k])
            PROVE  cut[k - 1] + j \in 1 .. Len(f[m]) /\ f[m][cut[k - 1] + j] = s[k][j]
        <4>1. CASE k = m
          <5>1. PICK n \in Nat, q \in Nat, t \in Nat : n = Len(f[m - 1]) /\ q = Len(s[m]) /\ t = Len(f[m])
            BY <2>3, <3>4
          <5>2. t = n + q /\ j \in 1 .. q
            BY <3>4, <4>1, <5>1
          <5>3. n + j \in 1 .. t
            BY <5>1, <5>2, InSum, Zenon
          <5>4. f[m][n + j] = s[m][j] /\ cut[m - 1] = n
            BY <3>3, <3>4, <4>1, <5>1
          <5>5. QED
            BY <4>1, <5>1, <5>3, <5>4
        <4>2. CASE k # m
          <5>1. k \in 1 .. m - 1
            BY <2>3, <4>2
          <5>2. cut[k - 1] + j \in 1 .. Len(f[m - 1]) /\ f[m - 1][cut[k - 1] + j] = s[k][j]
            BY <3>2, <5>1
          <5>3. cut[k - 1] + j \in 1 .. Len(f[m])
            <6>1. PICK n \in Nat, q \in Nat : n = Len(f[m - 1]) /\ q = Len(s[m])
              BY <2>3, <3>4
            <6>2. Len(f[m]) = n + q
              BY <3>4, <6>1
            <6>3. \A x \in 1 .. n : x \in 1 .. n + q
              BY <6>1, InSum, Zenon
            <6>4. QED
              BY <5>2, <6>1, <6>2, <6>3
          <5>4. QED
            BY <3>4, <5>2, <5>3
        <4>3. QED
          BY <4>1, <4>2
      <3>6. Good(m)
        BY <3>3, <3>4, <3>5
      <3>7. QED
        BY <2>3, <3>6
    <2>6. QED
      BY <2>4, <2>5
  <1>4. \A m \in 1 .. Len(s) : Good(m)
    BY <1>3
  <1>5. Len(s) \in 1 .. Len(s)
    BY <1>2
  <1>6. cut \in [0 .. Len(s) -> Nat]
    <2>1. \A m \in 1 .. Len(s) : cut[m] \in Nat
      BY <1>d, <1>4
    <2>2. \A m \in 0 .. Len(s) : m = 0 \/ m \in 1 .. Len(s)
      BY <1>2
    <2>3. \A m \in 0 .. Len(s) : cut[m] \in Nat
      BY <1>d, <2>1, <2>2
    <2>4. QED
      BY <1>c, <2>3
  <1>7. cut[Len(s)] = Len(FlattenSeq(s))
    BY <1>1, <1>d, <1>5
  <1>8. ASSUME NEW m \in 1 .. Len(s)
        PROVE  /\ cut[m] = cut[m - 1] + Len(s[m])
               /\ \A j \in 1 .. Len(s[m]) : /\ cut[m - 1] + j \in 1 .. Len(FlattenSeq(s))
                                            /\ FlattenSeq(s)[cut[m - 1] + j] = s[m][j]
    <2>1. m \in 1 .. Len(s) /\ Good(Len(s)) /\ Good(m)
      BY <1>4, <1>5
    <2>2. QED
      BY <1>1, <2>1
  <1> HIDE DEF Good, Bad
  <1>9. CutsOf(s, cut)
    BY <1>d, <1>6, <1>7, <1>8 DEF CutsOf
  <1>10. QED
    BY <1>9

\* Pieces of four bytes.
LEMMA FourCuts ==
    ASSUME NEW s \in Seq(Seq(Byte)), Len(s) # 0, \A i \in 1 .. Len(s) : Len(s[i]) = 4,
           NEW m \in 1 .. Len(s), NEW j \in 1 .. 4
    PROVE  FlattenSeq(s)[4 * (m - 1) + j] = s[m][j]
  <1>1. PICK cut : CutsOf(s, cut)
    BY FlattenCuts
  <1>2. /\ cut[0] = 0 /\ cut \in [0 .. Len(s) -> Nat] /\ Len(s) \in Nat
        /\ \A i \in 1 .. Len(s) : cut[i] = cut[i - 1] + 4
        /\ \A i \in 1 .. Len(s) : \A k \in 1 .. 4 : FlattenSeq(s)[cut[i - 1] + k] = s[i][k]
    <2>1. cut[0] = 0 /\ cut \in [0 .. Len(s) -> Nat] /\ Len(s) \in Nat
      BY <1>1 DEF CutsOf
    <2>2. ASSUME NEW i \in 1 .. Len(s)
          PROVE  /\ cut[i] = cut[i - 1] + 4
                 /\ \A k \in 1 .. 4 : FlattenSeq(s)[cut[i - 1] + k] = s[i][k]
      BY <1>1 DEF CutsOf
    <2>3. QED
      BY <2>1, <2>2
  <1> DEFINE Bad == {i \in 0 .. Len(s) : cut[i] # 4 * i}
  <1>3. Bad = {}
    <2>1. SUFFICES ASSUME Bad # {} PROVE FALSE
      OBVIOUS
    <2>2. PICK i \in Bad : \A d \in Bad : i <= d
      <3>1. Bad \in SUBSET Nat
        BY <1>2
      <3> HIDE DEF Bad
      <3>2. QED
        BY <2>1, <3>1, Least
    <2>3. i \in 0 .. Len(s) /\ i \in Nat /\ cut[i] # 4 * i
      BY <1>2
    <2>4. i # 0
      BY <1>2, <2>3
    <2>5. i \in 1 .. Len(s) /\ i - 1 \in 0 .. Len(s) /\ ~ (i <= i - 1)
      BY <1>2, <2>3, <2>4
    <2>6. cut[i - 1] = 4 * (i - 1)
      BY <2>2, <2>5
    <2>7. cut[i] = 4 * (i - 1) + 4
      BY <1>2, <2>5, <2>6
    <2>8. QED
      BY <2>3, <2>7
  <1>4. m - 1 \in 0 .. Len(s)
    BY <1>2
  <1>5. cut[m - 1] = 4 * (m - 1)
    BY <1>3, <1>4
  <1>6. QED
    BY <1>2, <1>5

----------------------------------------------------------------------------
\* The reader's machine in the middle of a code.

\* After j bytes of a code, with the residuals before it.
Part(dods, code, j) ==
    IF j = 0 THEN Idle(dods)
    ELSE IF j = 1 THEN ParseByte(Idle(dods), code[1])
    ELSE ParseByte(ParseByte(Idle(dods), code[1]), code[2])

\* The residual is there after the last byte and not before.
LEMMA PartStep ==
    ASSUME NEW d \in Int16 \ Gap, NEW dods \in Seq(Int16)
    PROVE  /\ Len(Code(d)) \in 1 .. 3
           /\ \A j \in 0 .. Len(Code(d)) - 1 :
                /\ Part(dods, Code(d), j).dods = dods
                /\ ParseByte(Part(dods, Code(d), j), Code(d)[j + 1])
                     = IF j + 1 = Len(Code(d)) THEN Idle(Append(dods, d))
                       ELSE Part(dods, Code(d), j + 1)
  <1>1. PICK z \in Word, hi \in Byte, lo \in Byte :
        /\ z = Zigzag(d) /\ z = hi * 256 + lo
        /\ Mag(d) < 120 => Code(d) = <<z>> /\ z < 240
        /\ Mag(d) >= 120 /\ hi < 8 => Code(d) = <<240 + hi, lo>>
        /\ Mag(d) >= 120 /\ hi >= 8 => Code(d) = <<254, hi, lo>>
    BY CodeForm
  <1>2. ParseCode(Idle(dods), Code(d)) = Idle(Append(dods, d)) /\ Mag(d) \in Nat
    BY RoundTrip, ZigzagForm
  <1>3. Idle(dods).dods = dods
    BY DEF Idle
  <1>4. CASE Mag(d) < 120
    <2>1. Code(d) = <<z>>
      BY <1>1, <1>4
    <2>2. Len(Code(d)) = 1 /\ Code(d)[1] = z
      BY <2>1
    <2>3. ParseByte(Idle(dods), z) = Idle(Append(dods, d))
      BY <1>2, <2>1, ParseOne
    <2>4. QED
      BY <1>3, <2>2, <2>3 DEF Part
  <1>5. CASE Mag(d) >= 120 /\ hi < 8
    <2>1. Code(d) = <<240 + hi, lo>>
      BY <1>1, <1>5
    <2>2. Len(Code(d)) = 2 /\ Code(d)[1] = 240 + hi /\ Code(d)[2] = lo
      BY <2>1
    <2>3. ParseByte(ParseByte(Idle(dods), 240 + hi), lo) = Idle(Append(dods, d))
      BY <1>2, <2>1, ParseTwo
    <2>4. ParseByte(Idle(dods), 240 + hi).dods = dods
      <3>1. hi # 0
        <4>1. SUFFICES ASSUME hi = 0 PROVE FALSE
          OBVIOUS
        <4>2. Zigzag(d) < 256
          BY <1>1, <4>1 DEF Byte
        <4>3. d \in Int16 /\ d \notin Gap
          OBVIOUS
        <4>4. QED
          BY <1>2, <1>5, <4>2, <4>3 DEF Gap
      <3>2. 240 + hi \in Byte /\ 240 < 240 + hi /\ 240 + hi <= 247
        BY <1>5, <3>1 DEF Byte
      <3>3. ParseByte(Idle(dods), 240 + hi)
              = [state |-> "VIRTUALBITS", got |-> <<(240 + hi) - 240>>, dods |-> dods]
        BY <3>2, VirtualByte
      <3>4. QED
        BY <3>3
    <2>5. QED
      BY <1>3, <2>2, <2>3, <2>4 DEF Part
  <1>6. CASE Mag(d) >= 120 /\ hi >= 8
    <2>1. Code(d) = <<254, hi, lo>>
      BY <1>1, <1>6
    <2>2. Len(Code(d)) = 3 /\ Code(d)[1] = 254 /\ Code(d)[2] = hi /\ Code(d)[3] = lo
      BY <2>1
    <2>3. ParseByte(ParseByte(ParseByte(Idle(dods), 254), hi), lo) = Idle(Append(dods, d))
      BY <1>2, <2>1, ParseThree
    <2>4. /\ ParseByte(Idle(dods), 254) = [state |-> "LARGE16", got |-> << >>, dods |-> dods]
          /\ ParseByte(ParseByte(Idle(dods), 254), hi).dods = dods
      <3>1. ParseByte(Idle(dods), 254) = [state |-> "LARGE16", got |-> << >>, dods |-> dods]
        BY EscapeByte
      <3>2. ParseByte([state |-> "LARGE16", got |-> << >>, dods |-> dods], hi)
              = [state |-> "LARGE16", got |-> <<hi>>, dods |-> dods]
        BY MiddleByte
      <3>3. ParseByte(ParseByte(Idle(dods), 254), hi) = [state |-> "LARGE16", got |-> <<hi>>, dods |-> dods]
        BY <3>1, <3>2
      <3>4. QED
        BY <3>1, <3>3
    <2>5. QED
      BY <1>3, <2>2, <2>3, <2>4 DEF Part
  <1>7. hi < 8 \/ hi >= 8
    BY DEF Byte
  <1>8. QED
    BY <1>2, <1>4, <1>5, <1>6, <1>7

\* A 16-bit number comes back from its two bytes.
LEMMA BytesBack ==
    ASSUME NEW x \in Int16
    PROVE  FromBytes(Bytes16(x)[1], Bytes16(x)[2]) = x
  <1>1. x \in Int /\ -32768 <= x /\ x <= 32767
    BY DEF Int16
  <1>2. x % 65536 = IF x < 0 THEN x + 65536 ELSE x
    BY <1>1, By65536, By65536Range DEF Word
  <1>3. x % 65536 \in Word /\ x % 65536 \in Int
    BY <1>1, By65536Range DEF Word
  <1>4. x % 256 = (x % 65536) % 256
    <2>1. PICK y \in Int : y = x % 65536
      BY <1>3
    <2>2. x = y \/ x = y - 65536
      BY <1>1, <1>2, <2>1
    <2>3. y % 256 = y - 256 * (y \div 256) /\ x % 256 = x - 256 * (x \div 256)
      BY <1>1, <2>1, By256
    <2>4. y % 256 \in Byte /\ x % 256 \in Byte /\ y \div 256 \in Int /\ x \div 256 \in Int
      BY <1>1, <2>1, By256Range
    <2>5. PICK a \in Int, b \in Int, p \in Int, q \in Int :
            a = y % 256 /\ b = x % 256 /\ p = y \div 256 /\ q = x \div 256
      BY <2>4 DEF Byte
    <2>6. a = y - 256 * p /\ b = x - 256 * q /\ 0 <= a /\ a <= 255 /\ 0 <= b /\ b <= 255
      BY <2>3, <2>4, <2>5 DEF Byte
    <2>7. a = b
      BY <1>1, <2>2, <2>6
    <2>8. QED
      BY <2>1, <2>5, <2>7
  <1>5. /\ Bytes16(x)[1] = (x % 65536) \div 256 /\ Bytes16(x)[2] = (x % 65536) % 256
    BY <1>4 DEF Bytes16
  <1>6. Bytes16(x)[1] * 256 + Bytes16(x)[2] = x % 65536
    BY <1>3, <1>5, TwoBytes
  <1>7. FromBytes(Bytes16(x)[1], Bytes16(x)[2]) = Wrap16(x % 65536)
    BY <1>6 DEF FromBytes
  <1>8. Wrap16(x % 65536) = x
    <2>1. PICK y \in Int : y = x % 65536
      BY <1>3
    <2>2. Wrap16(y) = ((y + 32768) % 65536) - 32768
      BY DEF Wrap16
    <2>3. PICK w \in Int : w = y + 32768
      BY <2>1
    <2>4. PICK r \in Int, q \in Int : r = w % 65536 /\ q = w \div 65536
      BY <2>3, By65536Range DEF Word
    <2>5. r = w - 65536 * q /\ 0 <= r /\ r <= 65535
      BY <2>3, <2>4, By65536, By65536Range DEF Word
    <2>6. x = y \/ x = y - 65536
      BY <1>1, <1>2, <2>1
    <2>7. r - 32768 = x
      BY <1>1, <2>3, <2>5, <2>6
    <2>8. QED
      BY <2>1, <2>2, <2>3, <2>4, <2>7
  <1>9. QED
    BY <1>7, <1>8

----------------------------------------------------------------------------
\* What was offered: o is the sequence of the samples, C the set of channels.

Offers(C) == [sample : [C -> Int16], accepted : BOOLEAN]
Smp(o, i, c) == IF i = 0 THEN 0 ELSE o[i].sample[c]
\* The channels' states after sample i.
After(C, o, i) ==
    [c \in C |-> [sample |-> Smp(o, i, c),
                  delta |-> IF i = 0 THEN 0 ELSE Wrap16(Smp(o, i, c) - Smp(o, i - 1, c))]]
\* The residuals of sample i, their codes, and the states as a resync's bytes.
Residual(C, o, i, c) == Dod(After(C, o, i - 1)[c], Smp(o, i, c))
Codes(C, o, i) == [c \in C |-> Code(Residual(C, o, i, c))]
StateBytes(C, o, i) ==
    [c \in C |-> Bytes16(After(C, o, i)[c].sample) \o Bytes16(After(C, o, i)[c].delta)]

LEMMA SmpType ==
    ASSUME NEW C, NEW o \in Seq(Offers(C)), NEW i \in 0 .. Len(o), NEW c \in C
    PROVE  Smp(o, i, c) \in Int16
  <1>1. CASE i = 0
    BY <1>1 DEF Smp, Int16
  <1>2. CASE i # 0
    <2>1. i \in 1 .. Len(o)
      BY <1>2
    <2>2. o[i] \in Offers(C)
      BY <2>1
    <2>3. o[i].sample[c] \in Int16
      BY <2>2 DEF Offers
    <2>4. QED
      BY <1>2, <2>3 DEF Smp
  <1>3. QED
    BY <1>1, <1>2

\* The states are the ones the writer goes through.
LEMMA AfterStep ==
    ASSUME NEW C, NEW o \in Seq(Offers(C)), NEW i \in 0 .. Len(o), NEW c \in C
    PROVE  /\ After(C, o, i) \in [C -> ChState] /\ After(C, o, i)[c] \in ChState
           /\ After(C, o, i)[c].sample = Smp(o, i, c)
           /\ i > 0 => /\ Residual(C, o, i, c) \in Int16
                       /\ After(C, o, i)[c] = Decoded(After(C, o, i - 1)[c], Residual(C, o, i, c))
                       /\ After(C, o, i)[c] =
                            [sample |-> Smp(o, i, c), delta |-> Delta(After(C, o, i - 1)[c], Smp(o, i, c))]
  <1>1. ASSUME NEW k \in 0 .. Len(o), NEW x \in C
        PROVE  /\ After(C, o, k)[x] \in ChState /\ After(C, o, k)[x].sample = Smp(o, k, x)
               /\ k > 0 => After(C, o, k)[x].delta = Wrap16(Smp(o, k, x) - Smp(o, k - 1, x))
    <2>1. After(C, o, k)[x] =
            [sample |-> Smp(o, k, x),
             delta |-> IF k = 0 THEN 0 ELSE Wrap16(Smp(o, k, x) - Smp(o, k - 1, x))]
      BY DEF After
    <2>2. Smp(o, k, x) \in Int16
      BY SmpType
    <2>3. k # 0 => Wrap16(Smp(o, k, x) - Smp(o, k - 1, x)) \in Int16
      <3>1. HAVE k # 0
      <3>2. k - 1 \in 0 .. Len(o)
        BY <3>1
      <3>3. Smp(o, k - 1, x) \in Int16
        BY <3>2, SmpType
      <3>4. Smp(o, k, x) - Smp(o, k - 1, x) \in Int
        BY <2>2, <3>3 DEF Int16
      <3>5. QED
        BY <3>4, WrapForm
    <2>4. 0 \in Int16
      BY DEF Int16
    <2>5. (IF k = 0 THEN 0 ELSE Wrap16(Smp(o, k, x) - Smp(o, k - 1, x))) \in Int16
      BY <2>3, <2>4
    <2>6. QED
      BY <2>1, <2>2, <2>5 DEF ChState
  <1>2. After(C, o, i) \in [C -> ChState]
    <2>1. \A x \in C : After(C, o, i)[x] \in ChState
      BY <1>1
    <2>2. QED
      BY <2>1 DEF After
  <1>3. ASSUME i > 0
        PROVE  /\ Residual(C, o, i, c) \in Int16
               /\ After(C, o, i)[c] = Decoded(After(C, o, i - 1)[c], Residual(C, o, i, c))
               /\ After(C, o, i)[c] =
                    [sample |-> Smp(o, i, c), delta |-> Delta(After(C, o, i - 1)[c], Smp(o, i, c))]
    <2>1. i - 1 \in 0 .. Len(o)
      BY <1>3
    <2>2. PICK ch \in ChState : ch = After(C, o, i - 1)[c] /\ ch.sample = Smp(o, i - 1, c)
      BY <1>1, <2>1
    <2>3. PICK v \in Int16 : v = Smp(o, i, c)
      BY SmpType
    <2>4. Decoded(ch, Dod(ch, v)) = [sample |-> v, delta |-> Delta(ch, v)] /\ Dod(ch, v) \in Int16
      BY StatesAgree, DodType
    <2>5. After(C, o, i)[c] = [sample |-> v, delta |-> Wrap16(v - ch.sample)]
      <3>1. After(C, o, i)[c] =
              [sample |-> Smp(o, i, c),
               delta |-> IF i = 0 THEN 0 ELSE Wrap16(Smp(o, i, c) - Smp(o, i - 1, c))]
        BY DEF After
      <3>2. i # 0
        BY <1>3
      <3>3. QED
        BY <2>2, <2>3, <3>1, <3>2
    <2>6. QED
      BY <2>2, <2>3, <2>4, <2>5 DEF Residual, Delta
  <1>4. QED
    BY <1>1, <1>2, <1>3

\* They do not change with what is offered later.
LEMMA AfterKept ==
    ASSUME NEW C, NEW o \in Seq(Offers(C)), NEW x, NEW p, p = Append(o, x), NEW i \in 0 .. Len(o)
    PROVE  /\ After(C, p, i) = After(C, o, i)
           /\ StateBytes(C, p, i) = StateBytes(C, o, i)
           /\ i > 0 => /\ \A c \in C : Residual(C, p, i, c) = Residual(C, o, i, c)
                       /\ Codes(C, p, i) = Codes(C, o, i)
  <1>1. ASSUME NEW k \in 0 .. Len(o), NEW c PROVE Smp(p, k, c) = Smp(o, k, c)
    <2>1. k # 0 => p[k] = o[k]
      OBVIOUS
    <2>2. QED
      BY <2>1 DEF Smp
  <1>2. ASSUME NEW k \in 0 .. Len(o) PROVE After(C, p, k) = After(C, o, k)
    <2>1. k # 0 => k - 1 \in 0 .. Len(o)
      OBVIOUS
    <2>2. \A c : Smp(p, k, c) = Smp(o, k, c)
      BY <1>1
    <2>3. k # 0 => \A c : Smp(p, k - 1, c) = Smp(o, k - 1, c)
      BY <1>1, <2>1
    <2>4. CASE k = 0
      BY <2>2, <2>4 DEF After
    <2>5. CASE k # 0
      BY <2>2, <2>3, <2>5 DEF After
    <2>6. QED
      BY <2>4, <2>5
  <1>3. After(C, p, i) = After(C, o, i)
    BY <1>2
  <1>4. StateBytes(C, p, i) = StateBytes(C, o, i)
    BY <1>3 DEF StateBytes
  <1>5. ASSUME i > 0
        PROVE  /\ \A c \in C : Residual(C, p, i, c) = Residual(C, o, i, c)
               /\ Codes(C, p, i) = Codes(C, o, i)
    <2>1. i - 1 \in 0 .. Len(o)
      BY <1>5
    <2>2. After(C, p, i - 1) = After(C, o, i - 1) /\ \A c : Smp(p, i, c) = Smp(o, i, c)
      BY <1>1, <1>2, <2>1
    <2>3. \A c \in C : Residual(C, p, i, c) = Residual(C, o, i, c)
      BY <2>2 DEF Residual
    <2>4. QED
      BY <2>3 DEF Codes
  <1>6. QED
    BY <1>3, <1>4, <1>5

----------------------------------------------------------------------------
(***************************************************************************)
(* What was ever put in the stream: items 1 .. n, each a resync, a sample  *)
(* or a flush. Item k takes the bytes en[k - 1] + 1 .. en[k] of all those  *)
(* written; after it the block at hand is the samples from + 1 .. idx.     *)
(* Item 0 stands for nothing at all.                                       *)
(***************************************************************************)
Item == [kind : {"sync", "data", "flush"}, from : Nat, idx : Nat, bytes : Seq(Byte)]

\* The items, and where their bytes end.
Pieces(it, n, en) ==
    /\ n \in Nat /\ it \in [Nat -> Item] /\ en \in [Nat -> Nat] /\ en[0] = 0
    /\ \A k \in 1 .. n : Len(it[k].bytes) > 0 /\ en[k] = en[k - 1] + Len(it[k].bytes)
    /\ \A j, k \in 0 .. n : j < k => en[j] < en[k]

\* The first c bytes are taken, the others are the stream s.
Layout(it, n, en, c, s) ==
    /\ Pieces(it, n, en)
    /\ c \in Nat /\ s \in Seq(Byte) /\ c + Len(s) = en[n]
    /\ \A k \in 1 .. n : \A j \in 1 .. Len(it[k].bytes) :
         en[k - 1] + j > c => s[(en[k - 1] + j) - c] = it[k].bytes[j]

\* A mark for each control item that is not taken yet.
MarksAt(it, n, en, c, ms) ==
    /\ \A i \in 1 .. Len(ms) : \E k \in 1 .. n :
         it[k].kind # "data" /\ en[k - 1] = c + ms[i].at /\ Len(it[k].bytes) = ms[i].size
    /\ \A k \in 1 .. n : it[k].kind # "data" =>
         en[k] <= c \/ \E i \in 1 .. Len(ms) : en[k - 1] = c + ms[i].at

\* Item x, with y before it, stands for what was offered; P is the period of
\* the resyncs.
Linked(C, P, o, y, x) ==
    /\ x.idx <= Len(o) /\ x.from <= x.idx /\ x.idx <= x.from + P + 1
    /\ y.idx <= x.idx
    /\ x.from = x.idx => x.idx = 0
    /\ \A i \in x.from + 1 .. x.idx : o[i].accepted
    /\ x.kind = "sync" =>
         /\ x.idx = x.from + 1 /\ y.idx <= x.from
         /\ \A i \in y.idx + 1 .. x.from : ~o[i].accepted
         /\ x.bytes = <<Resync, 0, 0, 0, x.from>> \o FlattenSeq(StateBytes(C, o, x.idx))
    /\ x.kind = "data" =>
         /\ y.kind # "flush" /\ x.from = y.from /\ x.idx = y.idx + 1
         /\ x.bytes = FlattenSeq(Codes(C, o, x.idx))
    /\ x.kind = "flush" =>
         /\ x.from = y.from /\ x.idx = y.idx /\ x.bytes = <<FlushCode>>
Chain(C, P, o, it, n) ==
    /\ it[0].kind = "flush" /\ it[0].idx = 0 /\ it[0].from = 0
    /\ \A k \in 1 .. n : Linked(C, P, o, it[k - 1], it[k])

\* The writer after item x, with w its channels' states, t its till and b its
\* backpressure.
WriterAt(C, P, o, x, w, t, b) ==
    /\ x.idx <= Len(o) /\ \A i \in x.idx + 1 .. Len(o) : ~o[i].accepted
    /\ w = After(C, o, Len(o))
    /\ b => t = 0
    /\ t > 0 => x.kind # "flush" /\ x.idx = Len(o) /\ x.idx + t = x.from + P + 1

\* What an item is.
LEMMA PieceFacts ==
    ASSUME NEW it, NEW n, NEW en, Pieces(it, n, en), NEW k \in 1 .. n
    PROVE  /\ n \in Nat /\ k \in Nat /\ k - 1 \in 0 .. n /\ k \in 0 .. n
           /\ it[k] \in Item /\ it[k - 1] \in Item /\ it[k].bytes \in Seq(Byte)
           /\ Len(it[k].bytes) \in Nat /\ Len(it[k].bytes) > 0
           /\ en[k - 1] \in Nat /\ en[k] \in Nat /\ en[n] \in Nat
           /\ en[k] = en[k - 1] + Len(it[k].bytes) /\ en[k - 1] < en[k] /\ en[k] <= en[n]
  <1>1. /\ n \in Nat /\ it \in [Nat -> Item] /\ en \in [Nat -> Nat]
        /\ Len(it[k].bytes) > 0 /\ en[k] = en[k - 1] + Len(it[k].bytes)
    BY DEF Pieces
  <1>2. k \in Nat /\ k - 1 \in Nat /\ k - 1 \in 0 .. n /\ k \in 0 .. n /\ n \in 0 .. n /\ k - 1 < k
    BY <1>1
  <1>3. it[k] \in Item /\ it[k - 1] \in Item /\ en[k - 1] \in Nat /\ en[k] \in Nat /\ en[n] \in Nat
    BY <1>1, <1>2
  <1>4. it[k].bytes \in Seq(Byte)
    BY <1>3 DEF Item
  <1>5. Len(it[k].bytes) \in Nat
    BY <1>4
  <1>6. en[k - 1] < en[k]
    BY <1>2 DEF Pieces
  <1>7. en[k] <= en[n]
    <2>1. CASE k = n
      BY <1>3, <2>1
    <2>2. CASE k # n
      <3>1. k < n
        BY <1>2, <2>2
      <3>2. en[k] < en[n]
        BY <1>2, <3>1 DEF Pieces
      <3>3. QED
        BY <1>3, <3>2
    <2>3. QED
      BY <2>1, <2>2
  <1>8. QED
    BY <1>1, <1>2, <1>3, <1>4, <1>5, <1>6, <1>7

\* One more entry of a function.
Put(f, n, v) == [f EXCEPT ![n + 1] = v]

\* Item x, of l bytes, put after the others.
More(it, n, en, x, l, e, jt, ey) ==
    /\ Pieces(it, n, en) /\ x \in Item /\ l \in Nat \ {0} /\ l = Len(x.bytes)
    /\ e = en[n] + l /\ jt = Put(it, n, x) /\ ey = Put(en, n, e)

Grown(it, n, en, x, e, jt, ey) ==
    /\ Pieces(jt, n + 1, ey) /\ jt[n + 1] = x /\ ey[n + 1] = e
    /\ \A k \in 0 .. n : jt[k] = it[k] /\ ey[k] = en[k]

\* One item more.
LEMMA PiecesGrow ==
    \A it, n, en, x, l, e, jt, ey :
        More(it, n, en, x, l, e, jt, ey) => Grown(it, n, en, x, e, jt, ey)
  <1> TAKE it, n, en, x, l, e, jt, ey
  <1>g. HAVE More(it, n, en, x, l, e, jt, ey)
  <1>h. /\ Pieces(it, n, en) /\ x \in Item /\ l \in Nat \ {0} /\ l = Len(x.bytes)
        /\ e = en[n] + l /\ jt = Put(it, n, x) /\ ey = Put(en, n, e)
    BY <1>g DEF More
  <1>1. n \in Nat /\ it \in [Nat -> Item] /\ en \in [Nat -> Nat] /\ en[0] = 0
    BY <1>h DEF Pieces
  <1>2. n + 1 \in Nat /\ 0 \in 0 .. n /\ n \in 0 .. n /\ \A k \in 0 .. n : k \in Nat /\ k # n + 1
    BY <1>1
  <1>3. jt \in [Nat -> Item] /\ jt[n + 1] = x /\ \A k \in 0 .. n : jt[k] = it[k]
    <2>1. PICK m \in Nat, g \in [Nat -> Item], y \in Item : m = n + 1 /\ g = it /\ y = x
      BY <1>1, <1>2, <1>h
    <2>2. jt = [g EXCEPT ![m] = y]
      BY <1>h, <2>1 DEF Put
    <2>3. jt \in [Nat -> Item] /\ jt[m] = y /\ \A k \in Nat : k # m => jt[k] = g[k]
      BY <2>2
    <2>4. QED
      BY <1>2, <2>1, <2>3
  <1>u. PICK u \in Nat, w \in Nat : u = en[n] /\ w = l /\ w > 0
    BY <1>1, <1>h
  <1>4. e = u + w /\ e \in Nat
    <2>1. e = u + w
      BY <1>h, <1>u
    <2>2. QED
      BY <1>u, <2>1
  <1>5. ey = [en EXCEPT ![n + 1] = e]
    BY <1>h DEF Put
  <1>6. ey \in [Nat -> Nat] /\ ey[n + 1] = e /\ \A k \in 0 .. n : ey[k] = en[k]
    <2>1. PICK m \in Nat, v \in Nat : m = n + 1 /\ v = e
      BY <1>2, <1>4
    <2>2. ey = [en EXCEPT ![m] = v]
      BY <1>5, <2>1
    <2>3. PICK g \in [Nat -> Nat] : g = en
      BY <1>1
    <2>4. ey = [g EXCEPT ![m] = v]
      BY <2>2, <2>3
    <2>5. ey \in [Nat -> Nat] /\ ey[m] = v /\ \A k \in Nat : k # m => ey[k] = g[k]
      BY <2>4
    <2>6. QED
      BY <1>2, <2>1, <2>3, <2>5
  <1>7. ASSUME NEW k \in 1 .. n + 1
        PROVE  Len(jt[k].bytes) > 0 /\ ey[k] = ey[k - 1] + Len(jt[k].bytes)
    <2>1. CASE k = n + 1
      <3>1. k - 1 = n
        BY <1>1, <2>1
      <3>2. QED
        <4>1. Len(jt[k].bytes) = w /\ ey[k] = u + w /\ ey[k - 1] = u
          BY <1>2, <1>3, <1>4, <1>6, <1>h, <1>u, <2>1, <3>1
        <4>2. QED
          BY <1>u, <4>1
    <2>2. CASE k # n + 1
      <3>1. k \in 1 .. n
        BY <1>1, <2>2
      <3>2. k \in 0 .. n /\ k - 1 \in 0 .. n /\ Len(it[k].bytes) > 0 /\ en[k] = en[k - 1] + Len(it[k].bytes)
        BY <1>h, <3>1, PieceFacts
      <3>3. QED
        BY <1>3, <1>6, <3>2
    <2>3. QED
      BY <2>1, <2>2
  <1>8. ASSUME NEW j \in 0 .. n + 1, NEW k \in 0 .. n + 1, j < k PROVE ey[j] < ey[k]
    <2>1. CASE k = n + 1
      <3>1. j \in 0 .. n
        BY <1>1, <1>8, <2>1
      <3>2. en[j] \in Nat /\ en[j] <= u
        <4>1. CASE j = 0
          BY <1>1, <1>u, <4>1
        <4>2. CASE j # 0
          <5>1. j \in 1 .. n
            BY <3>1, <4>2
          <5>2. QED
            BY <1>h, <1>u, <5>1, PieceFacts
        <4>3. QED
          BY <4>1, <4>2
      <3>3. PICK v \in Nat : v = en[j] /\ v <= u
        BY <3>2
      <3>4. v < u + w
        BY <1>u, <3>3
      <3>5. QED
        BY <1>4, <1>6, <2>1, <3>1, <3>3, <3>4
    <2>2. CASE k # n + 1
      <3>1. k \in 0 .. n /\ j \in 0 .. n
        BY <1>1, <1>8, <2>2
      <3>2. en[j] < en[k]
        BY <1>8, <1>h, <3>1 DEF Pieces
      <3>3. QED
        BY <1>6, <3>1, <3>2
    <2>3. QED
      BY <2>1, <2>2
  <1>9. ey[0] = 0
    BY <1>1, <1>2, <1>6
  <1>10. Pieces(jt, n + 1, ey)
    BY <1>2, <1>3, <1>6, <1>7, <1>8, <1>9 DEF Pieces
  <1>11. QED
    BY <1>3, <1>6, <1>10 DEF Grown

\* Its bytes are put after the stream.
LEMMA LayoutGrows ==
    \A it, n, en, c, s, x, l, f, jt, ey, z :
        Layout(it, n, en, c, s) /\ More(it, n, en, x, l, f, jt, ey) /\ z = s \o x.bytes
        => Layout(jt, n + 1, ey, c, z)
  <1> TAKE it, n, en, c, s, x, l, f, jt, ey, z
  <1>g. HAVE Layout(it, n, en, c, s) /\ More(it, n, en, x, l, f, jt, ey) /\ z = s \o x.bytes
  <1>h. /\ Layout(it, n, en, c, s) /\ x \in Item /\ l \in Nat \ {0} /\ l = Len(x.bytes)
        /\ f = en[n] + l /\ jt = Put(it, n, x) /\ ey = Put(en, n, f) /\ z = s \o x.bytes
    BY <1>g DEF More
  <1>a. Pieces(it, n, en) /\ c \in Nat /\ s \in Seq(Byte) /\ c + Len(s) = en[n]
    BY <1>h DEF Layout
  <1>b. n \in Nat /\ en \in [Nat -> Nat]
    BY <1>a DEF Pieces
  <1>1. /\ Pieces(it, n, en) /\ c \in Nat /\ s \in Seq(Byte) /\ c + Len(s) = en[n]
        /\ n \in Nat /\ Len(s) \in Nat /\ en[n] \in Nat
    BY <1>a, <1>b
  <1>2. /\ Pieces(jt, n + 1, ey) /\ jt[n + 1] = x /\ ey[n + 1] = f
        /\ \A k \in 0 .. n : jt[k] = it[k] /\ ey[k] = en[k]
    <2>1. Grown(it, n, en, x, f, jt, ey)
      BY <1>g, PiecesGrow, Zenon
    <2>2. QED
      BY <2>1 DEF Grown
  <1>3. PICK b \in Seq(Byte) : b = x.bytes
    BY <1>h DEF Item
  <1>4. z = s \o b /\ l = Len(b) /\ l \in Nat /\ f = en[n] + l
    BY <1>h, <1>3
  <1>5. /\ z \in Seq(Byte) /\ Len(z) = Len(s) + l
        /\ \A i \in 1 .. Len(s) : z[i] = s[i]
        /\ \A j \in 1 .. l : z[Len(s) + j] = b[j]
    BY <1>1, <1>4, ConcatIs
  <1>6. PICK e \in Nat, q \in Nat : e = en[n] /\ q = Len(s) /\ c + q = e
    BY <1>1
  <1>7. c + Len(z) = ey[n + 1]
    <2>1. PICK w \in Nat, d \in Nat : w = l /\ d = c
      BY <1>1, <1>4
    <2>3. d + q = e /\ f = e + w
      BY <1>4, <1>6, <2>1
    <2>4. d + (q + w) = f
      BY <2>3
    <2>2. QED
      BY <1>2, <1>5, <1>6, <2>1, <2>4
  <1>8. ASSUME NEW k \in 1 .. n + 1, NEW j \in 1 .. Len(jt[k].bytes), ey[k - 1] + j > c
        PROVE  z[(ey[k - 1] + j) - c] = jt[k].bytes[j]
    <2>1. CASE k = n + 1
      <3>1. k - 1 = n /\ n \in 0 .. n
        BY <1>1, <2>1
      <3>2. ey[k - 1] = e /\ jt[k].bytes = b /\ j \in 1 .. l
        BY <1>2, <1>3, <1>4, <1>6, <2>1, <3>1
      <3>3. (e + j) - c = q + j
        BY <1>1, <1>4, <1>6, <3>2
      <3>4. z[q + j] = b[j]
        BY <1>5, <1>6, <3>2
      <3>5. QED
        BY <3>2, <3>3, <3>4
    <2>2. CASE k # n + 1
      <3>1. k \in 1 .. n
        BY <1>1, <2>2
      <3>2. /\ k \in 0 .. n /\ k - 1 \in 0 .. n /\ Len(it[k].bytes) \in Nat /\ en[k - 1] \in Nat
            /\ en[k] = en[k - 1] + Len(it[k].bytes) /\ en[k] <= en[n]
        BY <1>1, <3>1, PieceFacts
      <3>3. jt[k] = it[k] /\ ey[k - 1] = en[k - 1]
        BY <1>2, <3>2
      <3>4. j \in 1 .. Len(it[k].bytes) /\ en[k - 1] + j > c
        BY <1>8, <3>3
      <3>5. s[(en[k - 1] + j) - c] = it[k].bytes[j]
        BY <1>h, <3>1, <3>4 DEF Layout
      <3>6. PICK a \in Nat, y \in Nat : a = en[k - 1] /\ y = Len(it[k].bytes)
        BY <3>2
      <3>7. a + y <= e /\ a + j > c /\ j \in 1 .. y
        BY <1>6, <3>2, <3>4, <3>6
      <3>8. (a + j) - c \in 1 .. q
        BY <1>1, <1>6, <3>7
      <3>9. z[(a + j) - c] = s[(a + j) - c]
        BY <1>5, <1>6, <3>8
      <3>10. QED
        BY <3>3, <3>5, <3>6, <3>9
    <2>3. QED
      BY <2>1, <2>2
  <1>9. QED
    <2>1. n + 1 \in Nat /\ Pieces(jt, n + 1, ey) /\ c \in Nat /\ z \in Seq(Byte)
      BY <1>1, <1>2, <1>5
    <2>2. QED
      BY <1>7, <1>8, <2>1 DEF Layout

\* Bytes taken from the stream.
LEMMA LayoutTake ==
    \A it, n, en, c, s, t, z :
        /\ Layout(it, n, en, c, s) /\ t \in 0 .. Len(s) /\ z = SubSeq(s, t + 1, Len(s))
        => Layout(it, n, en, c + t, z)
  <1> TAKE it, n, en, c, s, t, z
  <1>h. HAVE Layout(it, n, en, c, s) /\ t \in 0 .. Len(s) /\ z = SubSeq(s, t + 1, Len(s))
  <1>a. Pieces(it, n, en) /\ c \in Nat /\ s \in Seq(Byte) /\ c + Len(s) = en[n]
    BY <1>h DEF Layout
  <1>b. n \in Nat /\ en \in [Nat -> Nat]
    BY <1>a DEF Pieces
  <1>1. /\ Pieces(it, n, en) /\ c \in Nat /\ s \in Seq(Byte) /\ c + Len(s) = en[n]
        /\ n \in Nat /\ Len(s) \in Nat /\ en[n] \in Nat
    BY <1>a, <1>b
  <1>2. z \in Seq(Byte) /\ Len(z) = Len(s) - t /\ \A k \in 1 .. Len(s) - t : z[k] = s[t + k]
    BY <1>1, <1>h
  <1>3. PICK e \in Nat, q \in Nat : e = en[n] /\ q = Len(s) /\ c + q = e /\ t <= q /\ t \in Nat
    BY <1>1, <1>h
  <1>4. c + t \in Nat /\ (c + t) + Len(z) = en[n]
    BY <1>1, <1>2, <1>3
  <1>5. ASSUME NEW k \in 1 .. n, NEW j \in 1 .. Len(it[k].bytes), en[k - 1] + j > c + t
        PROVE  z[(en[k - 1] + j) - (c + t)] = it[k].bytes[j]
    <2>1. /\ Len(it[k].bytes) \in Nat /\ en[k - 1] \in Nat
          /\ en[k] = en[k - 1] + Len(it[k].bytes) /\ en[k] <= en[n]
      BY <1>1, PieceFacts
    <2>2. PICK a \in Nat, y \in Nat : a = en[k - 1] /\ y = Len(it[k].bytes)
      BY <2>1
    <2>3. a + y <= e /\ a + j > c + t /\ j \in 1 .. y
      BY <1>3, <1>5, <2>1, <2>2
    <2>4. a + j > c
      BY <1>1, <1>3, <2>3
    <2>5. s[(a + j) - c] = it[k].bytes[j]
      BY <1>h, <2>2, <2>4 DEF Layout
    <2>6. (a + j) - (c + t) \in 1 .. q - t /\ t + ((a + j) - (c + t)) = (a + j) - c
      BY <1>1, <1>3, <2>3
    <2>7. z[(a + j) - (c + t)] = s[(a + j) - c]
      BY <1>2, <1>3, <2>6
    <2>8. QED
      BY <2>2, <2>5, <2>7
  <1>6. QED
    BY <1>1, <1>2, <1>4, <1>5 DEF Layout

\* A sample is no control item: the marks are as they were.
LEMMA MarksData ==
    \A it, n, en, c, ms, jt, ey :
        /\ MarksAt(it, n, en, c, ms) /\ n \in Nat /\ jt[n + 1].kind = "data"
        /\ \A k \in 0 .. n : jt[k] = it[k] /\ ey[k] = en[k]
        => MarksAt(jt, n + 1, ey, c, ms)
  <1> TAKE it, n, en, c, ms, jt, ey
  <1>h. HAVE /\ MarksAt(it, n, en, c, ms) /\ n \in Nat /\ jt[n + 1].kind = "data"
             /\ \A k \in 0 .. n : jt[k] = it[k] /\ ey[k] = en[k]
  <1>1. n \in Nat /\ \A k \in 1 .. n : k \in 1 .. n + 1 /\ k \in 0 .. n /\ k - 1 \in 0 .. n
    BY <1>h
  <1>2. ASSUME NEW i \in 1 .. Len(ms)
        PROVE  \E k \in 1 .. n + 1 :
                 jt[k].kind # "data" /\ ey[k - 1] = c + ms[i].at /\ Len(jt[k].bytes) = ms[i].size
    <2>1. PICK k \in 1 .. n : it[k].kind # "data" /\ en[k - 1] = c + ms[i].at /\ Len(it[k].bytes) = ms[i].size
      BY <1>h DEF MarksAt
    <2>2. k \in 1 .. n + 1 /\ jt[k] = it[k] /\ ey[k - 1] = en[k - 1]
      BY <1>1, <1>h
    <2>3. QED
      BY <2>1, <2>2
  <1>3. ASSUME NEW k \in 1 .. n + 1, jt[k].kind # "data"
        PROVE  ey[k] <= c \/ \E i \in 1 .. Len(ms) : ey[k - 1] = c + ms[i].at
    <2>1. k # n + 1
      BY <1>3, <1>h
    <2>2. k \in 1 .. n
      BY <1>1, <2>1
    <2>3. jt[k] = it[k] /\ ey[k] = en[k] /\ ey[k - 1] = en[k - 1]
      BY <1>1, <1>h, <2>2
    <2>4. en[k] <= c \/ \E i \in 1 .. Len(ms) : en[k - 1] = c + ms[i].at
      BY <1>3, <1>h, <2>2, <2>3 DEF MarksAt
    <2>5. QED
      BY <2>3, <2>4
  <1>4. QED
    BY <1>2, <1>3 DEF MarksAt

\* One control item more, and mark m for it.
Marking(it, n, en, c, ms, jt, ey, m, mt) ==
    /\ MarksAt(it, n, en, c, ms) /\ n \in Nat /\ jt[n + 1].kind # "data"
    /\ \A k \in 0 .. n : jt[k] = it[k] /\ ey[k] = en[k]
    /\ ms \in Seq(Mark) /\ m \in Mark /\ mt = Append(ms, m)
    /\ en[n] = c + m.at /\ Len(jt[n + 1].bytes) = m.size

\* A control item is marked where its bytes begin.
LEMMA MarksControl ==
    \A it, n, en, c, ms, jt, ey, m, mt :
        Marking(it, n, en, c, ms, jt, ey, m, mt) => MarksAt(jt, n + 1, ey, c, mt)
  <1> TAKE it, n, en, c, ms, jt, ey, m, mt
  <1>g. HAVE Marking(it, n, en, c, ms, jt, ey, m, mt)
  <1>h. /\ MarksAt(it, n, en, c, ms) /\ n \in Nat /\ jt[n + 1].kind # "data"
        /\ \A k \in 0 .. n : jt[k] = it[k] /\ ey[k] = en[k]
        /\ ms \in Seq(Mark) /\ m \in Mark /\ mt = Append(ms, m)
        /\ en[n] = c + m.at /\ Len(jt[n + 1].bytes) = m.size
    BY <1>g DEF Marking
  <1>1. n \in Nat /\ n + 1 \in 1 .. n + 1 /\ n \in 0 .. n /\ (n + 1) - 1 = n
        /\ \A k \in 1 .. n : k \in 1 .. n + 1 /\ k \in 0 .. n /\ k - 1 \in 0 .. n
    BY <1>h
  <1>2. PICK l \in Nat : l = Len(ms)
    BY <1>h
  <1>3. /\ Len(mt) = l + 1 /\ mt[l + 1] = m
        /\ \A i \in 1 .. l : mt[i] = ms[i] /\ i \in 1 .. l + 1
    <2>1. PICK a \in Seq(Mark), b \in Mark : a = ms /\ b = m
      BY <1>h
    <2>2. mt = Append(a, b) /\ Len(a) = l
      BY <1>2, <1>h, <2>1
    <2>3. /\ Len(mt) = l + 1 /\ mt[l + 1] = b
          /\ \A i \in 1 .. l : mt[i] = a[i] /\ i \in 1 .. l + 1
      BY <2>2
    <2>4. QED
      BY <2>1, <2>3
  <1>4. ASSUME NEW i \in 1 .. Len(mt)
        PROVE  \E k \in 1 .. n + 1 :
                 jt[k].kind # "data" /\ ey[k - 1] = c + mt[i].at /\ Len(jt[k].bytes) = mt[i].size
    <2>1. CASE i = l + 1
      <3>1. /\ jt[n + 1].kind # "data" /\ ey[(n + 1) - 1] = c + mt[i].at
            /\ Len(jt[n + 1].bytes) = mt[i].size
        BY <1>1, <1>3, <1>h, <2>1
      <3>2. QED
        BY <1>1, <3>1
    <2>2. CASE i # l + 1
      <3>1. i \in 1 .. Len(ms) /\ mt[i] = ms[i]
        BY <1>2, <1>3, <2>2
      <3>2. PICK k \in 1 .. n : it[k].kind # "data" /\ en[k - 1] = c + ms[i].at /\ Len(it[k].bytes) = ms[i].size
        BY <1>h, <3>1 DEF MarksAt
      <3>3. k \in 1 .. n + 1 /\ jt[k] = it[k] /\ ey[k - 1] = en[k - 1]
        BY <1>1, <1>h
      <3>4. QED
        BY <3>1, <3>2, <3>3
    <2>3. QED
      BY <2>1, <2>2
  <1>5. ASSUME NEW k \in 1 .. n + 1, jt[k].kind # "data"
        PROVE  ey[k] <= c \/ \E i \in 1 .. Len(mt) : ey[k - 1] = c + mt[i].at
    <2>1. CASE k = n + 1
      <3>1. l + 1 \in 1 .. Len(mt)
        BY <1>2, <1>3
      <3>2. ey[k - 1] = c + mt[l + 1].at
        BY <1>1, <1>3, <1>h, <2>1
      <3>3. QED
        BY <3>1, <3>2
    <2>2. CASE k # n + 1
      <3>2. k \in 1 .. n
        BY <1>1, <2>2
      <3>3. jt[k] = it[k] /\ ey[k] = en[k] /\ ey[k - 1] = en[k - 1]
        BY <1>1, <1>h, <3>2
      <3>4. en[k] <= c \/ \E i \in 1 .. Len(ms) : en[k - 1] = c + ms[i].at
        BY <1>5, <1>h, <3>2, <3>3 DEF MarksAt
      <3>5. \A i \in 1 .. Len(ms) : i \in 1 .. Len(mt) /\ mt[i] = ms[i]
        BY <1>2, <1>3
      <3>6. QED
        BY <3>3, <3>4, <3>5
    <2>3. QED
      BY <2>1, <2>2
  <1>6. QED
    BY <1>4, <1>5 DEF MarksAt

\* t bytes are taken, a control item with its mark or others up to the first one.
LEMMA MarksTake ==
    \A it, n, en, c, ms, t, left, mt :
        /\ MarksAt(it, n, en, c, ms) /\ n \in Nat /\ en \in [Nat -> Nat] /\ c \in Nat /\ t \in Nat
        /\ left \in Seq(Mark) /\ mt = [i \in DOMAIN left |-> [left[i] EXCEPT !.at = @ - t]]
        /\ \A i \in 1 .. Len(left) : t <= left[i].at /\ \E j \in 1 .. Len(ms) : left[i] = ms[j]
        /\ \A j \in 1 .. Len(ms) : \/ \E i \in 1 .. Len(left) : left[i] = ms[j]
                                   \/ \A k \in 1 .. n : en[k - 1] = c + ms[j].at => en[k] <= c + t
        => MarksAt(it, n, en, c + t, mt)
  <1> TAKE it, n, en, c, ms, t, left, mt
  <1>h. HAVE
        /\ MarksAt(it, n, en, c, ms) /\ n \in Nat /\ en \in [Nat -> Nat] /\ c \in Nat /\ t \in Nat
        /\ left \in Seq(Mark) /\ mt = [i \in DOMAIN left |-> [left[i] EXCEPT !.at = @ - t]]
        /\ \A i \in 1 .. Len(left) : t <= left[i].at /\ \E j \in 1 .. Len(ms) : left[i] = ms[j]
        /\ \A j \in 1 .. Len(ms) : \/ \E i \in 1 .. Len(left) : left[i] = ms[j]
                                   \/ \A k \in 1 .. n : en[k - 1] = c + ms[j].at => en[k] <= c + t
  <1>l. left \in Seq(Mark)
    BY <1>h
  <1>1. PICK l \in Nat : l = Len(left) /\ DOMAIN left = 1 .. l
    BY <1>l
  <1>2. ASSUME NEW i \in 1 .. l
        PROVE  /\ mt[i].size = left[i].size /\ (c + t) + mt[i].at = c + left[i].at
    <2>1. left[i] \in Mark
      BY <1>1, <1>h
    <2>2. mt[i] = [left[i] EXCEPT !.at = @ - t]
      BY <1>1, <1>h
    <2>3. PICK a \in Nat : a = left[i].at
      BY <2>1 DEF Mark
    <2>4. mt[i].at = a - t /\ mt[i].size = left[i].size
      BY <2>1, <2>2, <2>3 DEF Mark
    <2>5. c \in Nat /\ t \in Nat
      BY <1>h
    <2>6. (c + t) + (a - t) = c + a
      BY <2>5
    <2>7. QED
      BY <2>3, <2>4, <2>6
  <1>3. Len(mt) = l
    <2>1. mt = [i \in 1 .. l |-> mt[i]]
      BY <1>1, <1>h
    <2>2. QED
      BY <2>1
  <1>4. ASSUME NEW i \in 1 .. Len(mt)
        PROVE  \E k \in 1 .. n :
                 it[k].kind # "data" /\ en[k - 1] = (c + t) + mt[i].at /\ Len(it[k].bytes) = mt[i].size
    <2>1. PICK j \in 1 .. Len(ms) : left[i] = ms[j]
      BY <1>1, <1>3, <1>h
    <2>2. PICK k \in 1 .. n : it[k].kind # "data" /\ en[k - 1] = c + ms[j].at /\ Len(it[k].bytes) = ms[j].size
      BY <1>h DEF MarksAt
    <2>3. QED
      BY <1>2, <1>3, <2>1, <2>2
  <1>5. ASSUME NEW k \in 1 .. n, it[k].kind # "data"
        PROVE  en[k] <= c + t \/ \E i \in 1 .. Len(mt) : en[k - 1] = (c + t) + mt[i].at
    <2>1. en[k] <= c \/ \E j \in 1 .. Len(ms) : en[k - 1] = c + ms[j].at
      BY <1>5, <1>h DEF MarksAt
    <2>2. CASE en[k] <= c
      <3>0. n \in Nat /\ en \in [Nat -> Nat] /\ c \in Nat /\ t \in Nat
        BY <1>h
      <3>1. PICK e \in Nat, d \in Nat, u \in Nat : e = en[k] /\ d = c /\ u = t
        BY <3>0
      <3>2. e <= d + u
        BY <2>2, <3>1
      <3>3. QED
        BY <3>1, <3>2
    <2>3. CASE \E j \in 1 .. Len(ms) : en[k - 1] = c + ms[j].at
      <3>1. PICK j \in 1 .. Len(ms) : en[k - 1] = c + ms[j].at
        BY <2>3
      <3>2. (\E i \in 1 .. Len(left) : left[i] = ms[j]) \/ en[k] <= c + t
        BY <1>h, <3>1
      <3>3. CASE \E i \in 1 .. Len(left) : left[i] = ms[j]
        <4>1. PICK i \in 1 .. Len(left) : left[i] = ms[j]
          BY <3>3
        <4>2. i \in 1 .. Len(mt) /\ en[k - 1] = (c + t) + mt[i].at
          BY <1>1, <1>2, <1>3, <3>1, <4>1
        <4>3. QED
          BY <4>2
      <3>4. QED
        BY <3>2, <3>3
    <2>4. QED
      BY <2>1, <2>2, <2>3
  <1>6. QED
    BY <1>4, <1>5 DEF MarksAt

\* A sample v offered, and the states after it.
Taken(C, o, v, a, p, w, ccs) ==
    /\ o \in Seq(Offers(C)) /\ v \in [C -> Int16] /\ a \in BOOLEAN /\ w = After(C, o, Len(o))
    /\ p = Append(o, [sample |-> v, accepted |-> a])
    /\ ccs = [c \in C |-> [sample |-> v[c], delta |-> Delta(w[c], v[c])]]

\* What it does to the states, their bytes and the codes; l is the number of
\* samples before it, m with it.
Taking(C, o, v, a, p, w, ccs, l, m) ==
    /\ l \in Nat /\ m \in Nat
    /\ l = Len(o) /\ m = l + 1 /\ p \in Seq(Offers(C)) /\ Len(p) = m
    /\ p[m].accepted = a
    /\ \A i \in 1 .. l : p[i] = o[i]
    /\ ccs = After(C, p, m)
    /\ Codes(C, p, m) = [c \in C |-> Code(Dod(w[c], v[c]))]
    /\ StateBytes(C, p, m) = [c \in C |-> Bytes16(ccs[c].sample) \o Bytes16(ccs[c].delta)]

LEMMA NewSample ==
    \A C, o, v, a, p, w, ccs :
        Taken(C, o, v, a, p, w, ccs) => \E l, m : Taking(C, o, v, a, p, w, ccs, l, m)
  <1> TAKE C, o, v, a, p, w, ccs
  <1>g. HAVE Taken(C, o, v, a, p, w, ccs)
  <1>h. /\ o \in Seq(Offers(C)) /\ v \in [C -> Int16] /\ a \in BOOLEAN /\ w = After(C, o, Len(o))
        /\ p = Append(o, [sample |-> v, accepted |-> a])
        /\ ccs = [c \in C |-> [sample |-> v[c], delta |-> Delta(w[c], v[c])]]
    BY <1>g DEF Taken
  <1>0. PICK x \in Offers(C) : x = [sample |-> v, accepted |-> a]
    BY <1>h DEF Offers
  <1>l. PICK l \in Nat : l = Len(o)
    BY <1>h
  <1>m. PICK m \in Nat : m = l + 1
    BY <1>l
  <1>1. /\ p \in Seq(Offers(C)) /\ Len(p) = m /\ p[m] = x /\ \A i \in 1 .. l : p[i] = o[i]
        /\ p = Append(o, x)
    <2>0. PICK S : S = Offers(C)
      OBVIOUS
    <2>1. PICK u \in Seq(S) : u = o
      BY <1>h, <2>0
    <2>2. PICK q : q = Append(u, x)
      OBVIOUS
    <2>3. Len(u) = l /\ x \in S
      BY <1>l, <2>0, <2>1
    <2>4. q \in Seq(S) /\ Len(q) = l + 1 /\ q[l + 1] = x /\ \A i \in 1 .. l : q[i] = u[i]
      BY <2>2, <2>3
    <2>5. q = p
      BY <1>0, <1>h, <2>1, <2>2
    <2>6. QED
      BY <1>m, <2>0, <2>1, <2>2, <2>4, <2>5
  <1>n. m \in 0 .. Len(p) /\ m > 0 /\ m # 0 /\ m - 1 = l /\ l \in 0 .. Len(o)
    <2>1. m \in 0 .. m /\ m > 0 /\ m # 0 /\ m - 1 = l /\ l \in 0 .. l
      BY <1>l, <1>m
    <2>2. QED
      BY <1>1, <1>l, <2>1
  <1>2. After(C, p, m - 1) = w
    <2>0. PICK q : q = p
      OBVIOUS
    <2>1. PICK u \in Seq(Offers(C)) : u = o /\ q = p /\ q = Append(u, x)
      BY <1>1, <1>h, <2>0
    <2>2. l \in 0 .. Len(u)
      BY <1>n, <2>1
    <2>3. After(C, q, l) = After(C, u, l)
      <3>1. q = Append(u, x) /\ l \in 0 .. Len(u)
        BY <2>1, <2>2
      <3>2. QED
        BY <3>1, AfterKept
    <2>4. QED
      BY <1>h, <1>l, <1>n, <2>1, <2>3
  <1>3. ASSUME NEW c \in C
        PROVE  /\ Smp(p, m, c) = v[c]
               /\ After(C, p, m)[c] = [sample |-> v[c], delta |-> Delta(w[c], v[c])]
    <2>2. Smp(p, m, c) = v[c]
      BY <1>0, <1>1, <1>n DEF Smp
    <2>3. After(C, p, m)[c] = [sample |-> Smp(p, m, c), delta |-> Delta(After(C, p, m - 1)[c], Smp(p, m, c))]
      <3>1. PICK q \in Seq(Offers(C)) : q = p
        BY <1>1
      <3>2. m \in 0 .. Len(q)
        BY <1>n, <3>1
      <3>3. After(C, q, m)[c] = [sample |-> Smp(q, m, c), delta |-> Delta(After(C, q, m - 1)[c], Smp(q, m, c))]
        BY <1>n, <3>2, AfterStep
      <3>4. QED
        BY <3>1, <3>3
    <2>4. QED
      BY <1>2, <2>2, <2>3
  <1>4. ccs = After(C, p, m)
    <2>1. After(C, p, m) = [c \in C |-> After(C, p, m)[c]]
      BY DEF After
    <2>2. QED
      BY <1>3, <1>h, <2>1
  <1>5. Codes(C, p, m) = [c \in C |-> Code(Dod(w[c], v[c]))]
    <2>1. \A c \in C : Residual(C, p, m, c) = Dod(w[c], v[c])
      BY <1>2, <1>3 DEF Residual
    <2>2. QED
      BY <2>1 DEF Codes
  <1>6. StateBytes(C, p, m) = [c \in C |-> Bytes16(ccs[c].sample) \o Bytes16(ccs[c].delta)]
    BY <1>4 DEF StateBytes
  <1>7. p[m].accepted = a
    BY <1>0, <1>1
  <1>8. QED
    <2>1. Taking(C, o, v, a, p, w, ccs, l, m)
      BY <1>1, <1>4, <1>5, <1>6, <1>7, <1>h, <1>l, <1>m DEF Taking
    <2>2. QED
      BY <2>1

\* What an item stands for does not change with what is offered later.
LEMMA LinkedKept ==
    ASSUME NEW C, NEW P, NEW o \in Seq(Offers(C)), NEW v \in Offers(C), NEW p, p = Append(o, v),
           NEW y \in Item, NEW x \in Item, Linked(C, P, o, y, x)
    PROVE  Linked(C, P, p, y, x)
  <1>1. Len(o) \in Nat /\ Len(p) = Len(o) + 1 /\ \A i \in 1 .. Len(o) : p[i] = o[i]
    OBVIOUS
  <1>2. x.idx \in Nat /\ x.from \in Nat /\ y.idx \in Nat /\ x.idx <= Len(o)
    BY DEF Item, Linked
  <1>3. x.idx \in 0 .. Len(o) /\ x.idx <= Len(p)
    BY <1>1, <1>2
  <1>4. \A i \in x.from + 1 .. x.idx : p[i].accepted
    <2>1. \A i \in x.from + 1 .. x.idx : i \in 1 .. Len(o)
      BY <1>1, <1>2
    <2>2. QED
      BY <1>1, <2>1 DEF Linked
  <1>5. ASSUME x.kind = "sync"
        PROVE  /\ \A i \in y.idx + 1 .. x.from : ~p[i].accepted
               /\ StateBytes(C, p, x.idx) = StateBytes(C, o, x.idx)
    <2>1. x.from <= Len(o)
      BY <1>1, <1>2 DEF Linked
    <2>2. \A i \in y.idx + 1 .. x.from : i \in 1 .. Len(o)
      BY <1>1, <1>2, <2>1
    <2>3. \A i \in y.idx + 1 .. x.from : ~o[i].accepted
      BY <1>5 DEF Linked
    <2>4. QED
      BY <1>1, <1>3, <2>2, <2>3, AfterKept
  <1>6. ASSUME x.kind = "data" PROVE Codes(C, p, x.idx) = Codes(C, o, x.idx)
    <2>1. x.idx > 0
      BY <1>2, <1>6 DEF Linked
    <2>2. QED
      BY <1>3, <2>1, AfterKept
  <1>7. QED
    BY <1>3, <1>4, <1>5, <1>6 DEF Linked

LEMMA ChainKept ==
    ASSUME NEW C, NEW P, NEW o \in Seq(Offers(C)), NEW v \in Offers(C), NEW p, p = Append(o, v),
           NEW it, NEW n, NEW en, Pieces(it, n, en), Chain(C, P, o, it, n)
    PROVE  Chain(C, P, p, it, n)
  <1>1. ASSUME NEW k \in 1 .. n PROVE Linked(C, P, p, it[k - 1], it[k])
    <2>1. it[k] \in Item /\ it[k - 1] \in Item
      BY PieceFacts
    <2>2. Linked(C, P, o, it[k - 1], it[k])
      BY DEF Chain
    <2>3. QED
      BY <2>1, <2>2, LinkedKept
  <1>2. QED
    BY <1>1 DEF Chain

\* One item more that stands for what was offered.
LEMMA ChainGrows ==
    ASSUME NEW C, NEW P, NEW o, NEW it, NEW n \in Nat, NEW en, NEW x, NEW e, NEW jt, NEW ey,
           Chain(C, P, o, it, n), Grown(it, n, en, x, e, jt, ey), Linked(C, P, o, it[n], x)
    PROVE  Chain(C, P, o, jt, n + 1)
  <1>1. jt[n + 1] = x /\ \A k \in 0 .. n : jt[k] = it[k]
    BY DEF Grown
  <1>2. 0 \in 0 .. n /\ n \in 0 .. n /\ (n + 1) - 1 = n
    OBVIOUS
  <1>3. ASSUME NEW k \in 1 .. n + 1 PROVE Linked(C, P, o, jt[k - 1], jt[k])
    <2>1. CASE k = n + 1
      BY <1>1, <1>2, <2>1
    <2>2. CASE k # n + 1
      <3>1. k \in 1 .. n /\ k \in 0 .. n /\ k - 1 \in 0 .. n
        BY <2>2
      <3>2. QED
        BY <1>1, <3>1 DEF Chain
    <2>3. QED
      BY <2>1, <2>2
  <1>4. QED
    BY <1>1, <1>2, <1>3 DEF Chain

\* The writer after item y of the chain.
Ready(C, P, o, y, w, t, b) ==
    /\ P \in Nat \ {0} /\ t \in Nat /\ y \in Item /\ WriterAt(C, P, o, y, w, t, b)
    /\ y.from <= y.idx /\ y.idx <= y.from + P + 1 /\ (y.from = y.idx => y.idx = 0)
    /\ \A i \in y.from + 1 .. y.idx : o[i].accepted

\* The item that a sample, or a flush, is put into the stream as.
SyncItem(C, o, ccs, x) ==
    /\ x = [kind |-> "sync", from |-> Len(o), idx |-> Len(o) + 1, bytes |-> x.bytes]
    /\ x.bytes \in Seq(Byte)
    /\ x.bytes = <<Resync, 0, 0, 0, Len(o)>>
                   \o FlattenSeq([c \in C |-> Bytes16(ccs[c].sample) \o Bytes16(ccs[c].delta)])
DataItem(C, v, y, w, x) ==
    /\ x = [kind |-> "data", from |-> y.from, idx |-> y.idx + 1, bytes |-> x.bytes]
    /\ x.bytes \in Seq(Byte)
    /\ x.bytes = FlattenSeq([c \in C |-> Code(Dod(w[c], v[c]))])
FlushItem(y, x) ==
    /\ x = [kind |-> "flush", from |-> y.from, idx |-> y.idx, bytes |-> x.bytes]
    /\ x.bytes \in Seq(Byte) /\ x.bytes = <<FlushCode>>

\* Item x may follow y, and the writer is after it.
Follows1(C, P, o, y, x, w, t, b) == x \in Item /\ Linked(C, P, o, y, x) /\ WriterAt(C, P, o, x, w, t, b)

LEMMA SyncFollows ==
    \A C, P, o, v, p, y, w, t, b, ccs, x :
        /\ Ready(C, P, o, y, w, t, b) /\ Taken(C, o, v, TRUE, p, w, ccs) /\ SyncItem(C, o, ccs, x)
        => Follows1(C, P, p, y, x, ccs, P, FALSE)
  <1> TAKE C, P, o, v, p, y, w, t, b, ccs, x
  <1>h. HAVE Ready(C, P, o, y, w, t, b) /\ Taken(C, o, v, TRUE, p, w, ccs) /\ SyncItem(C, o, ccs, x)
  <1>0. PICK l, m : Taking(C, o, v, TRUE, p, w, ccs, l, m)
    BY <1>h, NewSample, Zenon
  <1>1. /\ l \in Nat /\ m \in Nat
        /\ l = Len(o) /\ m = l + 1 /\ p \in Seq(Offers(C)) /\ Len(p) = m
        /\ p[m].accepted
        /\ \A i \in 1 .. l : p[i] = o[i]
        /\ ccs = After(C, p, m)
        /\ StateBytes(C, p, m) = [c \in C |-> Bytes16(ccs[c].sample) \o Bytes16(ccs[c].delta)]
    BY <1>0 DEF Taking
  <1>2. PICK d \in Nat, P0 \in Nat \ {0} : d = y.idx /\ P0 = P
    BY <1>h DEF Ready, Item
  <1>3. d <= l /\ \A i \in d + 1 .. l : ~o[i].accepted
    BY <1>1, <1>2, <1>h DEF Ready, WriterAt
  <1>4. x.kind = "sync" /\ x.from = l /\ x.idx = m /\ x.bytes \in Seq(Byte)
    BY <1>1, <1>h DEF SyncItem
  <1>5. x \in Item
    <2>1. PICK z \in Seq(Byte) : z = x.bytes
      BY <1>4
    <2>2. x = [kind |-> "sync", from |-> l, idx |-> m, bytes |-> z]
      BY <1>1, <1>h, <2>1 DEF SyncItem
    <2>3. QED
      BY <1>1, <2>2 DEF Item
  <1>6. x.bytes = <<Resync, 0, 0, 0, x.from>> \o FlattenSeq(StateBytes(C, p, x.idx))
    BY <1>1, <1>4, <1>h DEF SyncItem
  <1>7. \A i \in d + 1 .. l : ~p[i].accepted
    <2>1. \A i \in d + 1 .. l : i \in 1 .. l
      BY <1>1, <1>2
    <2>2. QED
      BY <1>1, <1>3, <2>1
  <1>8. \A i \in l + 1 .. m : p[i].accepted
    <2>1. \A i \in l + 1 .. m : i = m
      BY <1>1
    <2>2. QED
      BY <1>1, <2>1
  <1>a. m <= m /\ l <= m /\ m <= l + P0 + 1 /\ d <= m /\ l # m /\ m + P0 = l + P0 + 1
    BY <1>1, <1>2, <1>3
  <1>9. Linked(C, P, p, y, x)
    <2>1. x.kind # "data" /\ x.kind # "flush"
      BY <1>4
    <2>2. QED
      BY <1>1, <1>2, <1>3, <1>4, <1>6, <1>7, <1>8, <1>a, <2>1 DEF Linked
  <1>10. WriterAt(C, P, p, x, ccs, P, FALSE)
    <2>1. \A i \in m + 1 .. m : FALSE
      BY <1>1
    <2>2. x.kind # "flush"
      BY <1>4
    <2>3. QED
      BY <1>1, <1>2, <1>4, <1>a, <2>1, <2>2 DEF WriterAt
  <1>11. QED
    BY <1>5, <1>9, <1>10 DEF Follows1

LEMMA DataFollows ==
    \A C, P, o, v, p, y, w, t, b, ccs, x :
        /\ Ready(C, P, o, y, w, t, b) /\ t # 0 /\ Taken(C, o, v, TRUE, p, w, ccs)
        /\ DataItem(C, v, y, w, x)
        => Follows1(C, P, p, y, x, ccs, t - 1, FALSE)
  <1> TAKE C, P, o, v, p, y, w, t, b, ccs, x
  <1>h. HAVE /\ Ready(C, P, o, y, w, t, b) /\ t # 0 /\ Taken(C, o, v, TRUE, p, w, ccs)
             /\ DataItem(C, v, y, w, x)
  <1>0. PICK l, m : Taking(C, o, v, TRUE, p, w, ccs, l, m)
    BY <1>h, NewSample, Zenon
  <1>1. /\ l \in Nat /\ m \in Nat
        /\ l = Len(o) /\ m = l + 1 /\ p \in Seq(Offers(C)) /\ Len(p) = m
        /\ p[m].accepted
        /\ \A i \in 1 .. l : p[i] = o[i]
        /\ ccs = After(C, p, m)
        /\ Codes(C, p, m) = [c \in C |-> Code(Dod(w[c], v[c]))]
    BY <1>0 DEF Taking
  <1>2. PICK f \in Nat, t0 \in Nat \ {0}, P0 \in Nat \ {0} : f = y.from /\ t0 = t /\ P0 = P
    BY <1>h DEF Ready, Item
  <1>3. /\ y.kind # "flush" /\ y.idx = l /\ l + t0 = f + P0 + 1 /\ f <= l
        /\ \A i \in f + 1 .. l : o[i].accepted
    <2>1. WriterAt(C, P, o, y, w, t, b) /\ y.from <= y.idx /\ \A i \in y.from + 1 .. y.idx : o[i].accepted
      BY <1>h DEF Ready
    <2>2. t > 0
      BY <1>2
    <2>3. y.kind # "flush" /\ y.idx = Len(o) /\ y.idx + t = y.from + P + 1
      BY <2>1, <2>2 DEF WriterAt
    <2>4. QED
      BY <1>1, <1>2, <2>1, <2>3
  <1>4. x.kind = "data" /\ x.from = f /\ x.idx = m /\ x.bytes \in Seq(Byte)
    BY <1>1, <1>2, <1>3, <1>h DEF DataItem
  <1>5. x \in Item
    <2>1. PICK z \in Seq(Byte) : z = x.bytes
      BY <1>4
    <2>2. x = [kind |-> "data", from |-> f, idx |-> m, bytes |-> z]
      BY <1>1, <1>2, <1>3, <1>h, <2>1 DEF DataItem
    <2>3. QED
      BY <1>1, <1>2, <2>2 DEF Item
  <1>6. x.bytes = FlattenSeq(Codes(C, p, x.idx))
    BY <1>1, <1>4, <1>h DEF DataItem
  <1>8. \A i \in f + 1 .. m : p[i].accepted
    <2>1. \A i \in f + 1 .. m : i = m \/ (i \in 1 .. l /\ i \in f + 1 .. l)
      BY <1>1, <1>2
    <2>2. QED
      BY <1>1, <1>3, <2>1
  <1>a. m <= m /\ f <= m /\ m <= f + P0 + 1 /\ l <= m /\ f # m /\ m + (t0 - 1) = f + P0 + 1
    BY <1>1, <1>2, <1>3
  <1>9. Linked(C, P, p, y, x)
    <2>1. x.kind # "sync" /\ x.kind # "flush"
      BY <1>4
    <2>2. QED
      BY <1>1, <1>2, <1>3, <1>4, <1>6, <1>8, <1>a, <2>1 DEF Linked
  <1>10. WriterAt(C, P, p, x, ccs, t - 1, FALSE)
    <2>1. \A i \in m + 1 .. m : FALSE
      BY <1>1
    <2>2. x.kind # "flush"
      BY <1>4
    <2>3. QED
      BY <1>1, <1>2, <1>4, <1>a, <2>1, <2>2 DEF WriterAt
  <1>11. QED
    BY <1>5, <1>9, <1>10 DEF Follows1

LEMMA FlushFollows ==
    \A C, P, o, y, w, t, b, x :
        Ready(C, P, o, y, w, t, b) /\ FlushItem(y, x) => Follows1(C, P, o, y, x, w, 0, b)
  <1> TAKE C, P, o, y, w, t, b, x
  <1>h. HAVE Ready(C, P, o, y, w, t, b) /\ FlushItem(y, x)
  <1>1. /\ y \in Item /\ WriterAt(C, P, o, y, w, t, b)
        /\ y.from <= y.idx /\ y.idx <= y.from + P + 1 /\ (y.from = y.idx => y.idx = 0)
        /\ \A i \in y.from + 1 .. y.idx : o[i].accepted
    BY <1>h DEF Ready
  <1>2. y.idx \in Nat /\ y.from \in Nat /\ y.idx <= Len(o)
    BY <1>1 DEF Item, WriterAt
  <1>3. x.kind = "flush" /\ x.from = y.from /\ x.idx = y.idx /\ x.bytes = <<FlushCode>> /\ x.bytes \in Seq(Byte)
    BY <1>h DEF FlushItem
  <1>4. x \in Item
    <2>1. x = [kind |-> "flush", from |-> y.from, idx |-> y.idx, bytes |-> x.bytes]
      BY <1>h DEF FlushItem
    <2>2. QED
      BY <1>2, <1>3, <2>1 DEF Item
  <1>5. Linked(C, P, o, y, x)
    <2>1. x.kind # "sync" /\ x.kind # "data"
      BY <1>3
    <2>2. y.idx <= x.idx
      BY <1>2, <1>3
    <2>3. QED
      BY <1>1, <1>2, <1>3, <2>1, <2>2 DEF Linked
  <1>6. WriterAt(C, P, o, x, w, 0, b)
    BY <1>1, <1>2, <1>3 DEF WriterAt
  <1>7. QED
    BY <1>4, <1>5, <1>6 DEF Follows1

\* A sample that is refused.
LEMMA RefusedAt ==
    \A C, P, o, v, p, y, w, t, b, ccs :
        Ready(C, P, o, y, w, t, b) /\ Taken(C, o, v, FALSE, p, w, ccs)
        => WriterAt(C, P, p, y, ccs, 0, TRUE)
  <1> TAKE C, P, o, v, p, y, w, t, b, ccs
  <1>h. HAVE Ready(C, P, o, y, w, t, b) /\ Taken(C, o, v, FALSE, p, w, ccs)
  <1>0. PICK l, m : Taking(C, o, v, FALSE, p, w, ccs, l, m)
    BY <1>h, NewSample, Zenon
  <1>1. /\ l \in Nat /\ m \in Nat
        /\ l = Len(o) /\ m = l + 1 /\ Len(p) = m
        /\ p[m].accepted = FALSE
        /\ \A i \in 1 .. l : p[i] = o[i]
        /\ ccs = After(C, p, m)
    BY <1>0 DEF Taking
  <1>2. PICK d \in Nat : d = y.idx
    BY <1>h DEF Ready, Item
  <1>3. d <= l /\ \A i \in d + 1 .. l : ~o[i].accepted
    BY <1>1, <1>2, <1>h DEF Ready, WriterAt
  <1>4. \A i \in d + 1 .. m : ~p[i].accepted
    <2>1. \A i \in d + 1 .. m : i = m \/ (i \in 1 .. l /\ i \in d + 1 .. l)
      BY <1>1, <1>2
    <2>2. QED
      BY <1>1, <1>3, <2>1
  <1>5. d <= m
    BY <1>1, <1>2, <1>3
  <1>6. QED
    BY <1>1, <1>2, <1>4, <1>5 DEF WriterAt

----------------------------------------------------------------------------
\* The reader in the middle of a sample.

\* The residuals of sample i's first m channels.
Prefix(C, o, i, m) == [c \in 1 .. m |-> Residual(C, o, i, c)]

\* The byte machine p after the first q bytes of sample i.
InSample(C, o, i, q, p) ==
    \E cut : /\ CutsOf(Codes(C, o, i), cut)
             /\ \E m \in C : \E j \in 0 .. 2 :
                  /\ j < Len(Codes(C, o, i)[m]) /\ q = cut[m - 1] + j
                  /\ p = Part(Prefix(C, o, i, m - 1), Codes(C, o, i)[m], j)

\* A sample i of n channels, each of whose residuals the code can carry.
Sound(n, o, i) ==
    /\ n \in 1 .. 14 /\ o \in Seq(Offers(1 .. n)) /\ i \in 1 .. Len(o)
    /\ \A c \in 1 .. n : Residual(1 .. n, o, i, c) \notin Gap

\* Its residuals and codes, as sequences.
Coded(n, o, i) ==
    /\ n \in Nat /\ 1 \in 1 .. n /\ n \in 1 .. n
    /\ \A c \in 1 .. n : Residual(1 .. n, o, i, c) \in Int16 \ Gap
    /\ \A m \in 0 .. n : /\ Prefix(1 .. n, o, i, m) \in Seq(Int16)
                         /\ Len(Prefix(1 .. n, o, i, m)) = m
                         /\ \A c \in 1 .. m : Prefix(1 .. n, o, i, m)[c] = Residual(1 .. n, o, i, c)
    /\ Codes(1 .. n, o, i) \in Seq(Seq(Byte)) /\ Len(Codes(1 .. n, o, i)) = n
    /\ \A c \in 1 .. n : /\ Codes(1 .. n, o, i)[c] = Code(Residual(1 .. n, o, i, c))
                         /\ Len(Codes(1 .. n, o, i)[c]) \in 1 .. 3

LEMMA SoundCodes == \A n, o, i : Sound(n, o, i) => Coded(n, o, i)
  <1> TAKE n, o, i
  <1>h. HAVE Sound(n, o, i)
  <1>1. n \in Nat /\ 1 \in 1 .. n /\ n \in 1 .. n
    BY <1>h DEF Sound
  <1>2. i \in 0 .. Len(o) /\ i > 0
    BY <1>h DEF Sound
  <1>3. ASSUME NEW c \in 1 .. n PROVE Residual(1 .. n, o, i, c) \in Int16 \ Gap
    <2>1. o \in Seq(Offers(1 .. n))
      BY <1>h DEF Sound
    <2>0. PICK C : C = 1 .. n
      OBVIOUS
    <2>a. PICK u \in Seq(Offers(C)) : u = o
      BY <2>0, <2>1
    <2>b. i \in 0 .. Len(u) /\ i > 0 /\ c \in C
      BY <1>2, <2>0, <2>a
    <2>c. Residual(C, u, i, c) \in Int16
      BY <2>b, AfterStep
    <2>2. Residual(1 .. n, o, i, c) \in Int16
      BY <2>0, <2>a, <2>c
    <2>3. QED
      BY <1>h, <2>2 DEF Sound
  <1>4. ASSUME NEW m \in 0 .. n
        PROVE  /\ Prefix(1 .. n, o, i, m) \in Seq(Int16) /\ Len(Prefix(1 .. n, o, i, m)) = m
               /\ \A c \in 1 .. m : Prefix(1 .. n, o, i, m)[c] = Residual(1 .. n, o, i, c)
    <2>1. PICK f : f = Prefix(1 .. n, o, i, m)
      OBVIOUS
    <2>2. f = [c \in 1 .. m |-> Residual(1 .. n, o, i, c)]
      BY <2>1 DEF Prefix
    <2>i. m \in Nat /\ \A c \in 1 .. m : c \in 1 .. n
      BY <1>1
    <2>3. m \in Nat /\ \A c \in 1 .. m : Residual(1 .. n, o, i, c) \in Int16
      BY <1>3, <2>i
    <2>4. f \in [1 .. m -> Int16] /\ \A c \in 1 .. m : f[c] = Residual(1 .. n, o, i, c)
      BY <2>2, <2>3
    <2>5. f \in Seq(Int16) /\ Len(f) = m
      BY <2>3, <2>4, FunctionSeq
    <2>6. QED
      BY <2>1, <2>4, <2>5
  <1>5. ASSUME NEW c \in 1 .. n
        PROVE  /\ Codes(1 .. n, o, i)[c] = Code(Residual(1 .. n, o, i, c))
               /\ Codes(1 .. n, o, i)[c] \in Seq(Byte)
               /\ Len(Codes(1 .. n, o, i)[c]) \in 1 .. 3
    <2>1. PICK d \in Int16 \ Gap : d = Residual(1 .. n, o, i, c)
      BY <1>3
    <2>2. Codes(1 .. n, o, i)[c] = Code(d)
      BY <2>1 DEF Codes
    <2>3. Code(d) \in Seq(Byte)
      BY CodeSize
    <2>4. << >> \in Seq(Int16)
      OBVIOUS
    <2>5. Len(Code(d)) \in 1 .. 3
      BY <2>4, PartStep
    <2>6. QED
      BY <2>1, <2>2, <2>3, <2>5
  <1>6. Codes(1 .. n, o, i) \in Seq(Seq(Byte)) /\ Len(Codes(1 .. n, o, i)) = n
    <2>1. Codes(1 .. n, o, i) \in [1 .. n -> Seq(Byte)]
      BY <1>5 DEF Codes
    <2>2. QED
      BY <1>1, <2>1, FunctionSeq
  <1>7. QED
    BY <1>1, <1>3, <1>4, <1>5, <1>6 DEF Coded

\* Before the first byte the machine is idle, and holds no residual.
LEMMA SampleStart ==
    ASSUME NEW n, NEW o, NEW i, Sound(n, o, i)
    PROVE  InSample(1 .. n, o, i, 0, Idle(<< >>))
  <1> DEFINE s == Codes(1 .. n, o, i)
  <1>a. Coded(n, o, i)
    BY SoundCodes, Zenon
  <1>1. /\ n \in Nat /\ 1 \in 1 .. n /\ s \in Seq(Seq(Byte)) /\ Len(s) = n /\ Len(s[1]) \in 1 .. 3
        /\ Prefix(1 .. n, o, i, 0) \in Seq(Int16) /\ Len(Prefix(1 .. n, o, i, 0)) = 0
    <2>1. n \in Nat /\ 1 \in 1 .. n /\ s \in Seq(Seq(Byte)) /\ Len(s) = n /\ Len(s[1]) \in 1 .. 3
      BY <1>a DEF Coded
    <2>2. 0 \in 0 .. n
      BY <2>1
    <2>3. QED
      BY <1>a, <2>1, <2>2 DEF Coded
  <1> HIDE DEF s
  <1>2. PICK cut : CutsOf(s, cut)
    BY <1>1, FlattenCuts
  <1>3. cut[0] = 0
    BY <1>2 DEF CutsOf
  <1>4. Prefix(1 .. n, o, i, 1 - 1) = << >>
    <2>1. 1 - 1 = 0
      OBVIOUS
    <2>2. PICK f \in Seq(Int16) : f = Prefix(1 .. n, o, i, 0) /\ Len(f) = 0
      BY <1>1
    <2>3. f = << >>
      BY <2>2
    <2>4. QED
      BY <2>1, <2>2, <2>3
  <1>5. /\ 0 < Len(s[1]) /\ 0 = cut[1 - 1] + 0 /\ 0 \in 0 .. 2
        /\ Idle(<< >>) = Part(Prefix(1 .. n, o, i, 1 - 1), s[1], 0)
    <2>1. Idle(<< >>) = Part(Prefix(1 .. n, o, i, 1 - 1), s[1], 0)
      BY <1>4 DEF Part
    <2>2. 1 - 1 = 0 /\ 0 = 0 + 0 /\ 0 \in 0 .. 2
      OBVIOUS
    <2>3. 0 = cut[1 - 1] + 0
      BY <1>3, <2>2
    <2>4. PICK k \in 1 .. 3 : k = Len(s[1])
      BY <1>1
    <2>5. 0 < Len(s[1])
      BY <2>4
    <2>6. QED
      BY <2>1, <2>2, <2>3, <2>5
  <1>6. QED
    BY <1>1, <1>2, <1>5 DEF InSample, s

\* In the middle of it, the residuals are too few for the sample.
LEMMA SampleRoom ==
    ASSUME NEW n, NEW o, NEW i, Sound(n, o, i), NEW q, NEW p, InSample(1 .. n, o, i, q, p)
    PROVE  Len(p.dods) < n
  <1>1. PICK m \in 1 .. n, j \in 0 .. 2 :
          /\ j < Len(Codes(1 .. n, o, i)[m])
          /\ p = Part(Prefix(1 .. n, o, i, m - 1), Codes(1 .. n, o, i)[m], j)
    BY DEF InSample
  <1>a. Coded(n, o, i)
    BY SoundCodes, Zenon
  <1>2. n \in Nat /\ m - 1 \in 0 .. n /\ m - 1 < n /\ m - 1 \in Nat
    BY <1>1, <1>a DEF Coded
  <1>3. PICK d \in Int16 \ Gap : d = Residual(1 .. n, o, i, m) /\ Codes(1 .. n, o, i)[m] = Code(d)
    BY <1>1, <1>a DEF Coded
  <1>4. PICK f \in Seq(Int16) : f = Prefix(1 .. n, o, i, m - 1) /\ Len(f) = m - 1
    BY <1>2, <1>a DEF Coded
  <1>5. Len(Code(d)) \in 1 .. 3 /\ j \in 0 .. Len(Code(d)) - 1
    <2>1. Len(Code(d)) \in 1 .. 3
      BY PartStep
    <2>2. QED
      BY <1>1, <1>3, <2>1
  <1>6. Part(f, Code(d), j).dods = f
    BY <1>5, PartStep
  <1>7. QED
    BY <1>1, <1>2, <1>3, <1>4, <1>6

\* What byte q + 1 of the sample makes of machine p: another place in the
\* sample, or its end with all the residuals.
Advanced(n, o, i, q, p, b) ==
    /\ q \in Nat /\ b \in Byte
    /\ \/ /\ q + 1 < Len(FlattenSeq(Codes(1 .. n, o, i))) /\ Len(ParseByte(p, b).dods) < n
          /\ InSample(1 .. n, o, i, q + 1, ParseByte(p, b))
       \/ /\ q + 1 = Len(FlattenSeq(Codes(1 .. n, o, i)))
          /\ ParseByte(p, b) = Idle(Prefix(1 .. n, o, i, n))

LEMMA NextByte ==
    \A j \in 0 .. 2, l \in 1 .. 3 :
        /\ j < l => j + 1 \in 1 .. l
        /\ j < l /\ j + 1 # l => j + 1 \in 0 .. 2 /\ j + 1 < l /\ (j + 1) + 1 \in 1 .. l
  OBVIOUS

LEMMA NextPlace ==
    \A a, z \in Nat, j \in 0 .. 2 :
        /\ a + j \in Nat /\ (a + j) + 1 = a + (j + 1)
        /\ a + ((j + 1) + 1) \in 1 .. z => (a + j) + 1 < z
  OBVIOUS

LEMMA SampleByte ==
    \A n, o, i, q, p :
        Sound(n, o, i) /\ InSample(1 .. n, o, i, q, p)
        => Advanced(n, o, i, q, p, FlattenSeq(Codes(1 .. n, o, i))[q + 1])
  <1> TAKE n, o, i, q, p
  <1>h. HAVE Sound(n, o, i) /\ InSample(1 .. n, o, i, q, p)
  <1>a. Coded(n, o, i)
    BY <1>h, SoundCodes, Zenon
  <1>s. PICK s : s \in Seq(Seq(Byte)) /\ s = Codes(1 .. n, o, i) /\ Len(s) = n
    BY <1>a DEF Coded
  <1>i. InSample(1 .. n, o, i, q, p)
    BY <1>h
  <1>k. PICK cut :
          /\ CutsOf(s, cut)
          /\ \E m \in 1 .. n : \E j \in 0 .. 2 :
               /\ j < Len(s[m]) /\ q = cut[m - 1] + j
               /\ p = Part(Prefix(1 .. n, o, i, m - 1), s[m], j)
    BY <1>i, <1>s DEF InSample
  <1>1. PICK m \in 1 .. n, j \in 0 .. 2 :
          /\ CutsOf(s, cut) /\ j < Len(s[m]) /\ q = cut[m - 1] + j
          /\ p = Part(Prefix(1 .. n, o, i, m - 1), s[m], j)
    BY <1>k
  <1>2. n \in Nat /\ m - 1 \in 0 .. n /\ m \in 0 .. n /\ n \in 1 .. n /\ m \in Nat
    BY <1>1, <1>a DEF Coded
  <1>d. PICK d \in Int16 \ Gap : d = Residual(1 .. n, o, i, m) /\ s[m] = Code(d)
    BY <1>1, <1>a, <1>s DEF Coded
  <1>f. PICK f \in Seq(Int16) : f = Prefix(1 .. n, o, i, m - 1) /\ Len(f) = m - 1
    BY <1>2, <1>a DEF Coded
  <1>l. PICK l \in 1 .. 3 : l = Len(s[m]) /\ j < l /\ j + 1 \in 1 .. l
    <2>1. Len(s[m]) \in 1 .. 3
      BY <1>1, <1>a, <1>s DEF Coded
    <2>2. PICK l \in 1 .. 3 : l = Len(s[m])
      BY <2>1
    <2>3. j < l
      BY <1>1, <2>2
    <2>4. j + 1 \in 1 .. l
      BY <1>1, <2>2, <2>3
    <2>5. QED
      BY <2>2, <2>3, <2>4
  <1>3. ParseByte(p, s[m][j + 1]) = IF j + 1 = l THEN Idle(Append(f, d)) ELSE Part(f, s[m], j + 1)
    <2>1. j \in 0 .. Len(Code(d)) - 1
      BY <1>d, <1>l
    <2>2. ParseByte(Part(f, Code(d), j), Code(d)[j + 1])
            = IF j + 1 = Len(Code(d)) THEN Idle(Append(f, d)) ELSE Part(f, Code(d), j + 1)
      BY <2>1, PartStep
    <2>3. QED
      BY <1>1, <1>d, <1>f, <1>l, <2>2
  <1>c. PICK a \in Nat, e \in Nat, z \in Nat :
          a = cut[m - 1] /\ e = cut[m] /\ z = Len(FlattenSeq(s)) /\ e = a + l
    <2>1. cut \in [0 .. n -> Nat] /\ cut[n] = Len(FlattenSeq(s))
      BY <1>1, <1>s DEF CutsOf
    <2>2. cut[m] = cut[m - 1] + Len(s[m])
      BY <1>1, <1>s DEF CutsOf
    <2>3. n \in 0 .. n
      BY <1>2
    <2>4. QED
      BY <1>2, <1>l, <2>1, <2>2, <2>3
  <1>4. /\ q = a + j /\ q \in Nat /\ q + 1 = a + (j + 1)
        /\ FlattenSeq(s)[q + 1] = s[m][j + 1] /\ q + 1 <= z
    <2>0. q = a + j
      BY <1>1, <1>c
    <2>1. q = a + j /\ q \in Nat /\ q + 1 = a + (j + 1)
      BY <2>0, NextPlace
    <2>2. a + (j + 1) \in 1 .. z /\ FlattenSeq(s)[a + (j + 1)] = s[m][j + 1]
      BY <1>1, <1>c, <1>l, <1>s DEF CutsOf
    <2>3. QED
      BY <1>c, <2>1, <2>2
  <1>b. PICK b \in Byte : b = FlattenSeq(s)[q + 1] /\ b = s[m][j + 1]
    <2>1. m \in 1 .. Len(s)
      BY <1>1, <1>s
    <2>2. s[m] \in Seq(Byte)
      BY <1>s, <2>1
    <2>3. s[m][j + 1] \in Byte
      BY <1>l, <2>2
    <2>4. QED
      BY <1>4, <2>3
  <1>5. CASE j + 1 # l
    <2>1. j + 1 \in 0 .. 2 /\ j + 1 < l /\ (j + 1) + 1 \in 1 .. l
      BY <1>l, <1>5, NextByte
    <2>2. InSample(1 .. n, o, i, q + 1, ParseByte(p, b))
      BY <1>1, <1>3, <1>4, <1>5, <1>b, <1>c, <1>f, <1>l, <1>s, <2>1 DEF InSample
    <2>3. Len(ParseByte(p, b).dods) < n
      BY <1>h, <2>2, SampleRoom
    <2>4. a + ((j + 1) + 1) \in 1 .. z
      BY <1>1, <1>c, <1>l, <1>s, <2>1 DEF CutsOf
    <2>5. q + 1 < z
      BY <1>4, <2>4, NextPlace
    <2>6. QED
      BY <1>4, <1>b, <1>c, <1>s, <2>2, <2>3, <2>5 DEF Advanced
  <1>6. CASE j + 1 = l
    <2>1. Append(f, d) = Prefix(1 .. n, o, i, m)
      <3>1. PICK g \in Seq(Int16) : /\ g = Prefix(1 .. n, o, i, m) /\ Len(g) = m
                                    /\ \A c \in 1 .. m : g[c] = Residual(1 .. n, o, i, c)
        BY <1>2, <1>a DEF Coded
      <3>2. \A c \in 1 .. m - 1 : f[c] = Residual(1 .. n, o, i, c)
        BY <1>2, <1>a, <1>f DEF Coded
      <3>3. PICK y : y = Append(f, d)
        OBVIOUS
      <3>4. /\ y \in Seq(Int16) /\ Len(y) = m /\ y[m] = d
            /\ \A c \in 1 .. m - 1 : y[c] = f[c]
        <4>1. d \in Int16
          OBVIOUS
        <4>2. Len(y) = Len(f) + 1 /\ y[Len(f) + 1] = d /\ y \in Seq(Int16)
              /\ \A c \in 1 .. Len(f) : y[c] = f[c]
          BY <3>3, <4>1
        <4>3. Len(f) + 1 = m
          BY <1>2, <1>f
        <4>4. QED
          BY <1>f, <4>2, <4>3
      <3>5. \A c \in 1 .. m : c = m \/ c \in 1 .. m - 1
        BY <1>2
      <3>6. \A c \in 1 .. m : y[c] = g[c]
        BY <1>d, <3>1, <3>2, <3>4, <3>5
      <3>7. y = g
        BY <3>1, <3>4, <3>6
      <3>8. QED
        BY <3>1, <3>3, <3>7
    <2>2. ParseByte(p, b) = Idle(Prefix(1 .. n, o, i, m))
      BY <1>3, <1>6, <1>b, <2>1
    <2>3. q + 1 = e
      BY <1>4, <1>6, <1>c
    <2>4. CASE m = n
      <3>1. e = z
        BY <1>1, <1>c, <1>s, <2>4 DEF CutsOf
      <3>2. QED
        BY <1>4, <1>b, <1>c, <1>s, <2>2, <2>3, <2>4, <3>1 DEF Advanced
    <2>5. CASE m # n
      <3>1. m + 1 \in 1 .. n /\ (m + 1) - 1 = m
        BY <1>2, <2>5
      <3>2. PICK k \in 1 .. 3 : k = Len(s[m + 1])
        BY <1>a, <1>s, <3>1 DEF Coded
      <3>3. 0 < k /\ 0 \in 0 .. 2 /\ e = e + 0
        BY <1>c
      <3>4. ParseByte(p, b) = Part(Prefix(1 .. n, o, i, (m + 1) - 1), s[m + 1], 0)
        BY <2>2, <3>1 DEF Part
      <3>5. q + 1 = cut[(m + 1) - 1] + 0
        BY <1>c, <2>3, <3>1, <3>3
      <3>6. InSample(1 .. n, o, i, q + 1, ParseByte(p, b))
        BY <1>1, <1>s, <3>1, <3>2, <3>3, <3>4, <3>5 DEF InSample
      <3>7. Len(ParseByte(p, b).dods) < n
        BY <1>h, <3>6, SampleRoom
      <3>8. q + 1 < z
        <4>1. 1 \in 1 .. k
          BY <3>2
        <4>2. cut[(m + 1) - 1] + 1 \in 1 .. Len(FlattenSeq(s))
          BY <1>1, <1>s, <3>1, <3>2, <4>1 DEF CutsOf
        <4>3. e + 1 \in 1 .. z
          BY <1>c, <3>1, <4>2
        <4>4. QED
          BY <1>c, <2>3, <4>3
      <3>9. QED
        BY <1>4, <1>b, <1>c, <1>s, <3>6, <3>7, <3>8 DEF Advanced
    <2>6. QED
      BY <2>4, <2>5
  <1>7. QED
    BY <1>5, <1>6

----------------------------------------------------------------------------
\* The reader and its block.

\* The samples f + 1 .. l.
Run(o, f, l) == [j \in 1 .. l - f |-> o[f + j].sample]

Extended(C, o, f, l) ==
    /\ Len(Run(o, f, l)) = l - f
    /\ Run(o, f, l) \in Seq([C -> Int16]) /\ o[l + 1].sample \in [C -> Int16]
    /\ Append(Run(o, f, l), o[l + 1].sample) = Run(o, f, l + 1)

LEMMA RunStep ==
    ASSUME NEW C, NEW o \in Seq(Offers(C)), NEW f \in Nat, NEW l \in Nat, f <= l, l + 1 <= Len(o)
    PROVE  Extended(C, o, f, l)
  <1>1. ASSUME NEW i \in 1 .. Len(o) PROVE o[i].sample \in [C -> Int16]
    <2>1. o[i] \in Offers(C)
      OBVIOUS
    <2>2. QED
      BY <2>1 DEF Offers
  <1>2. PICK S : S = [C -> Int16]
    OBVIOUS
  <1>3. PICK k \in Nat, m \in Nat : k = l - f /\ m = k + 1 /\ m = (l + 1) - f /\ f + m = l + 1
    OBVIOUS
  <1>4. PICK u : u = Run(o, f, l)
    OBVIOUS
  <1>5. PICK w : w = Run(o, f, l + 1)
    OBVIOUS
  <1>6. \A j \in 1 .. m : f + j \in 1 .. Len(o)
    BY <1>3
  <1>7. \A j \in 1 .. k : j \in 1 .. m
    BY <1>3
  <1>8. u = [j \in 1 .. k |-> o[f + j].sample] /\ w = [j \in 1 .. m |-> o[f + j].sample]
    BY <1>3, <1>4, <1>5 DEF Run
  <1>9. u \in [1 .. k -> S] /\ w \in [1 .. m -> S]
    <2>1. \A j \in 1 .. m : o[f + j].sample \in S
      BY <1>1, <1>2, <1>6
    <2>2. QED
      BY <1>7, <1>8, <2>1
  <1>10. u \in Seq(S) /\ Len(u) = k /\ w \in Seq(S) /\ Len(w) = m
    BY <1>9, <1>3, FunctionSeq
  <1>11. PICK v \in S : v = o[l + 1].sample
    <2>1. l + 1 \in 1 .. Len(o)
      BY <1>3
    <2>2. QED
      BY <1>1, <1>2, <2>1
  <1>12. Append(u, v) = w
    <2>1. PICK z : z = Append(u, v)
      OBVIOUS
    <2>2. z \in Seq(S) /\ Len(z) = k + 1 /\ z[k + 1] = v /\ \A j \in 1 .. k : z[j] = u[j]
      BY <1>10, <2>1
    <2>3. w[m] = v
      <3>1. m \in 1 .. m
        BY <1>3
      <3>2. w[m] = o[f + m].sample
        BY <1>8, <3>1
      <3>3. QED
        BY <1>3, <1>11, <3>2
    <2>4. \A j \in 1 .. k : u[j] = w[j]
      BY <1>7, <1>8
    <2>5. \A j \in 1 .. m : j = m \/ j \in 1 .. k
      BY <1>3
    <2>6. \A j \in 1 .. m : z[j] = w[j]
      BY <1>3, <2>2, <2>3, <2>4, <2>5
    <2>7. z = w
      BY <1>3, <1>10, <2>2, <2>6
    <2>8. QED
      BY <2>1, <2>7
  <1>13. QED
    BY <1>2, <1>3, <1>4, <1>5, <1>10, <1>11, <1>12 DEF Extended

\* Reader r between two samples: its block is the samples f + 1 .. l, none
\* when it has seen no resync.
Held(o, r, f, l) ==
    /\ r.ready = FALSE /\ r.pending = << >>
    /\ l = 0 => ~r.insync
    /\ l # 0 => /\ r.insync /\ r.ccs = After(Chan, o, l)
                /\ r.counter = f /\ r.samples = Run(o, f, l)

\* Sample l + 1 comes after sample l of the block from f on.
Next1(o, f, l) ==
    /\ Sound(setup.channels, o, l + 1)
    /\ f \in Nat /\ l \in Nat \ {0} /\ f < l /\ l - f < setup.block /\ l + 1 <= Len(o)

\* All its residuals are there.
LEMMA EmitHeld ==
    ASSUME setup \in Setups, NEW o, NEW f, NEW l, Next1(o, f, l), NEW r, r \in Reader, Held(o, r, f, l),
           r.parse = Idle(Prefix(Chan, o, l + 1, setup.channels))
    PROVE  /\ Held(o, emitSample(r), f, l + 1) /\ emitSample(r).parse = Idle(<< >>)
  <1>1. /\ f \in Nat /\ l \in Nat \ {0} /\ f < l /\ l - f < setup.block /\ l + 1 <= Len(o)
        /\ o \in Seq(Offers(Chan)) /\ setup.block \in Nat
    BY SetupFacts DEF Next1, Sound, Chan
  <1>2. /\ r.ready = FALSE /\ r.pending = << >> /\ r.insync /\ r.ccs = After(Chan, o, l)
        /\ r.counter = f /\ r.samples = Run(o, f, l)
    BY <1>1 DEF Held
  <1>3. /\ Len(Run(o, f, l)) = l - f /\ o[l + 1].sample \in [Chan -> Int16]
        /\ Append(Run(o, f, l), o[l + 1].sample) = Run(o, f, l + 1)
    <2>1. f <= l /\ l \in Nat
      BY <1>1
    <2>2. PICK u \in Seq(Offers(Chan)), a \in Nat, m \in Nat : u = o /\ a = f /\ m = l
      BY <1>1, <2>1
    <2>3. a <= m /\ m + 1 <= Len(u)
      BY <1>1, <2>1, <2>2
    <2>4. Extended(Chan, u, a, m)
      BY <2>3, RunStep
    <2>5. QED
      BY <2>2, <2>4 DEF Extended
  <1>4. ~ (Len(r.samples) >= setup.block)
    BY <1>1, <1>2, <1>3
  <1>5. PICK ccs : ccs = [c \in Chan |-> Decoded(r.ccs[c], r.parse.dods[c])]
    OBVIOUS
  <1>6. ASSUME NEW c \in Chan
        PROVE  /\ Decoded(r.ccs[c], r.parse.dods[c]) = After(Chan, o, l + 1)[c]
               /\ After(Chan, o, l + 1)[c].sample = o[l + 1].sample[c]
    <2>1. r.parse.dods = Prefix(Chan, o, l + 1, setup.channels)
      BY DEF Idle
    <2>2. r.parse.dods[c] = Residual(Chan, o, l + 1, c)
      BY <2>1 DEF Prefix, Chan
    <2>3. PICK i : i = l + 1 /\ i \in 0 .. Len(o) /\ i > 0 /\ i # 0 /\ i - 1 = l
      BY <1>1
    <2>4. /\ After(Chan, o, i)[c] = Decoded(After(Chan, o, i - 1)[c], Residual(Chan, o, i, c))
          /\ After(Chan, o, i)[c].sample = Smp(o, i, c)
      <3>1. PICK u \in Seq(Offers(Chan)) : u = o
        BY <1>1
      <3>2. i \in 0 .. Len(u) /\ i > 0
        BY <2>3, <3>1
      <3>3. /\ After(Chan, u, i)[c] = Decoded(After(Chan, u, i - 1)[c], Residual(Chan, u, i, c))
            /\ After(Chan, u, i)[c].sample = Smp(u, i, c)
        BY <3>2, AfterStep
      <3>4. QED
        BY <3>1, <3>3
    <2>5. Smp(o, i, c) = o[i].sample[c]
      BY <2>3 DEF Smp
    <2>6. QED
      BY <1>2, <2>2, <2>3, <2>4, <2>5
  <1>7. ccs = After(Chan, o, l + 1)
    <2>1. After(Chan, o, l + 1) = [c \in Chan |-> After(Chan, o, l + 1)[c]]
      BY DEF After
    <2>2. QED
      BY <1>5, <1>6, <2>1
  <1>8. [c \in Chan |-> ccs[c].sample] = o[l + 1].sample
    <2>1. PICK v \in [Chan -> Int16] : v = o[l + 1].sample
      BY <1>3
    <2>2. \A c \in Chan : ccs[c].sample = v[c]
      BY <1>6, <1>7, <2>1
    <2>3. QED
      BY <2>1, <2>2
  <1>9. PICK row : row = o[l + 1].sample
    OBVIOUS
  <1>10. PICK t : t = [r EXCEPT !.ccs = ccs, !.parse.dods = << >>, !.samples = Append(@, row)]
    OBVIOUS
  <1>11. emitSample(r) = t
    BY <1>4, <1>5, <1>8, <1>9, <1>10 DEF emitSample
  <1>12. /\ t.ready = r.ready /\ t.pending = r.pending /\ t.insync = r.insync /\ t.ccs = ccs
         /\ t.counter = r.counter /\ t.samples = Append(r.samples, row)
         /\ t.parse = [r.parse EXCEPT !.dods = << >>]
    BY <1>10 DEF Reader
  <1>13. t.parse = Idle(<< >>)
    <2>1. [Idle(Prefix(Chan, o, l + 1, setup.channels)) EXCEPT !.dods = << >>] = Idle(<< >>)
      BY DEF Idle
    <2>2. QED
      BY <1>12, <2>1
  <1>14. Held(o, t, f, l + 1)
    <2>1. l + 1 # 0
      BY <1>1
    <2>2. t.samples = Run(o, f, l + 1)
      BY <1>2, <1>3, <1>9, <1>12
    <2>3. QED
      BY <1>2, <1>7, <1>12, <2>1, <2>2 DEF Held
  <1>15. QED
    BY <1>11, <1>13, <1>14

\* Reader t after one more byte of sample l + 1, q of its bytes taken.
Stepped(o, f, l, q, t) ==
    /\ t \in Reader
    /\ \/ /\ q < Len(FlattenSeq(Codes(Chan, o, l + 1)))
          /\ Held(o, t, f, l) /\ InSample(Chan, o, l + 1, q, t.parse)
       \/ /\ q = Len(FlattenSeq(Codes(Chan, o, l + 1)))
          /\ Held(o, t, f, l + 1) /\ t.parse = Idle(<< >>)

LEMMA DataByte ==
    \A o, f, l, q, r :
        /\ setup \in Setups /\ Next1(o, f, l) /\ r \in Reader /\ Held(o, r, f, l)
        /\ InSample(Chan, o, l + 1, q, r.parse)
        => Stepped(o, f, l, q + 1, decodeByte(r, FlattenSeq(Codes(Chan, o, l + 1))[q + 1]))
  <1> TAKE o, f, l, q, r
  <1>h. HAVE /\ setup \in Setups /\ Next1(o, f, l) /\ r \in Reader /\ Held(o, r, f, l)
             /\ InSample(Chan, o, l + 1, q, r.parse)
  <1>1. PICK n : n = setup.channels /\ n \in 1 .. 14 /\ Chan = 1 .. n
    BY <1>h, SetupFacts DEF Chan
  <1>2. Sound(n, o, l + 1) /\ InSample(1 .. n, o, l + 1, q, r.parse)
    BY <1>1, <1>h DEF Next1
  <1>3. PICK b : b = FlattenSeq(Codes(1 .. n, o, l + 1))[q + 1]
    OBVIOUS
  <1>4. Advanced(n, o, l + 1, q, r.parse, b)
    BY <1>2, <1>3, SampleByte
  <1>5. b \in Byte
    BY <1>4 DEF Advanced
  <1>6. PICK p : p = ParseByte(r.parse, b)
    OBVIOUS
  <1>7. PICK s : s = [r EXCEPT !.parse = p]
    OBVIOUS
  <1>8. decodeByte(r, b) = IF Len(p.dods) = setup.channels THEN emitSample(s) ELSE s
    BY <1>6, <1>7 DEF decodeByte
  <1>9. decodeByte(r, b) \in Reader
    BY <1>5, <1>h, DecodeByteType
  <1>10. s \in Reader /\ Held(o, s, f, l) /\ s.parse = p
    <2>1. p \in Parser
      <3>1. r.parse \in Parser
        BY <1>h DEF Reader
      <3>2. QED
        BY <1>5, <1>6, <3>1, ParseType
    <2>2. s \in Reader /\ s.parse = p
      BY <1>7, <1>h, <2>1 DEF Reader
    <2>3. /\ s.ready = r.ready /\ s.pending = r.pending /\ s.insync = r.insync /\ s.ccs = r.ccs
          /\ s.counter = r.counter /\ s.samples = r.samples
      BY <1>7, <1>h DEF Reader
    <2>4. Held(o, r, f, l)
      BY <1>h
    <2>5. Held(o, s, f, l)
      BY <2>3, <2>4 DEF Held
    <2>6. QED
      BY <2>2, <2>5
  <1>11. CASE /\ q + 1 < Len(FlattenSeq(Codes(1 .. n, o, l + 1))) /\ Len(p.dods) < n
              /\ InSample(1 .. n, o, l + 1, q + 1, p)
    <2>1. Len(p.dods) # setup.channels
      <3>1. n \in Nat
        BY <1>1
      <3>2. PICK k : k = Len(p.dods)
        OBVIOUS
      <3>3. k < n
        BY <1>11, <3>2
      <3>4. k # n
        BY <3>1, <3>3
      <3>5. QED
        BY <1>1, <3>2, <3>4
    <2>2. decodeByte(r, b) = s
      BY <1>8, <2>1
    <2>3. Stepped(o, f, l, q + 1, decodeByte(r, b))
      BY <1>1, <1>10, <1>11, <2>2 DEF Stepped
    <2>4. QED
      BY <1>1, <1>3, <2>3
  <1>12. CASE q + 1 = Len(FlattenSeq(Codes(1 .. n, o, l + 1))) /\ p = Idle(Prefix(1 .. n, o, l + 1, n))
    <2>1. Len(p.dods) = setup.channels
      <3>1. Coded(n, o, l + 1)
        BY <1>2, SoundCodes, Zenon
      <3>2. n \in 0 .. n
        BY <1>1
      <3>3. Len(Prefix(1 .. n, o, l + 1, n)) = n
        BY <3>1, <3>2 DEF Coded
      <3>4. QED
        BY <1>1, <1>12, <3>3 DEF Idle
    <2>2. decodeByte(r, b) = emitSample(s)
      BY <1>8, <2>1
    <2>3. s.parse = Idle(Prefix(Chan, o, l + 1, setup.channels))
      BY <1>1, <1>10, <1>12
    <2>4. Held(o, emitSample(s), f, l + 1) /\ emitSample(s).parse = Idle(<< >>)
      BY <1>10, <1>h, <2>3, EmitHeld
    <2>5. Stepped(o, f, l, q + 1, decodeByte(r, b))
      BY <1>1, <1>9, <1>12, <2>2, <2>4 DEF Stepped
    <2>6. QED
      BY <1>1, <1>3, <2>5
  <1>13. QED
    BY <1>4, <1>6, <1>11, <1>12 DEF Advanced

----------------------------------------------------------------------------
\* A resync, from the writer to the reader.

SyncBytes(o, f) == <<Resync, 0, 0, 0, f>> \o FlattenSeq(StateBytes(Chan, o, f + 1))

\* A resync before sample f + 1.
SyncAt(o, f) ==
    /\ setup \in Setups /\ o \in Seq(Offers(Chan)) /\ f \in Byte /\ f + 1 <= Len(o)

\* Byte k of channel c's state is where the reader looks for it.
SyncPlaces(o, f, b) ==
    /\ b \in Seq(Byte) /\ Len(b) = ResyncSize /\ b[1] = Resync /\ b[5] = f
    /\ \A c \in Chan : /\ b[4 * c + 2] = Bytes16(After(Chan, o, f + 1)[c].sample)[1]
                       /\ b[4 * c + 3] = Bytes16(After(Chan, o, f + 1)[c].sample)[2]
                       /\ b[4 * c + 4] = Bytes16(After(Chan, o, f + 1)[c].delta)[1]
                       /\ b[4 * c + 5] = Bytes16(After(Chan, o, f + 1)[c].delta)[2]

LEMMA FivePlaces ==
    \A c \in 1 .. 14 : /\ 4 * c + 2 = 5 + (4 * (c - 1) + 1) /\ 4 * c + 3 = 5 + (4 * (c - 1) + 2)
                       /\ 4 * c + 4 = 5 + (4 * (c - 1) + 3) /\ 4 * c + 5 = 5 + (4 * (c - 1) + 4)
  OBVIOUS

LEMMA StatePlaces ==
    \A n \in 1 .. 14 : \A c \in 1 .. n : \A j \in 1 .. 4 : 4 * (c - 1) + j \in 1 .. 4 * n
  OBVIOUS

LEMMA FourOf ==
    ASSUME NEW a \in Seq(Byte), NEW b \in Seq(Byte), Len(a) = 2, Len(b) = 2
    PROVE  /\ a \o b \in Seq(Byte) /\ Len(a \o b) = 4
           /\ (a \o b)[1] = a[1] /\ (a \o b)[2] = a[2] /\ (a \o b)[3] = b[1] /\ (a \o b)[4] = b[2]
  <1>1. 1 \in 1 .. Len(a) /\ 2 \in 1 .. Len(a) /\ 1 \in 1 .. Len(b) /\ 2 \in 1 .. Len(b)
    OBVIOUS
  <1>2. /\ a \o b \in Seq(Byte) /\ Len(a \o b) = Len(a) + Len(b)
        /\ \A i \in 1 .. Len(a) : (a \o b)[i] = a[i]
        /\ \A j \in 1 .. Len(b) : (a \o b)[Len(a) + j] = b[j]
    BY ConcatAt
  <1>3. (a \o b)[Len(a) + 1] = b[1] /\ (a \o b)[Len(a) + 2] = b[2] /\ Len(a) + 1 = 3 /\ Len(a) + 2 = 4
    BY <1>1, <1>2
  <1>4. QED
    BY <1>1, <1>2, <1>3

LEMMA SyncParts == \A o, f : SyncAt(o, f) => SyncPlaces(o, f, SyncBytes(o, f))
  <1> TAKE o, f
  <1>h. HAVE SyncAt(o, f)
  <1>1. PICK n \in 1 .. 14 : n = setup.channels /\ Chan = 1 .. n /\ ResyncSize = 5 + 4 * n
    BY <1>h, SetupFacts DEF SyncAt, Chan
  <1>2. PICK i : i = f + 1
    OBVIOUS
  <1>3. i \in 0 .. Len(o) /\ f \in Nat
    BY <1>2, <1>h DEF SyncAt, Byte
  <1>4. PICK s : s = StateBytes(Chan, o, i)
    OBVIOUS
  <1>5. ASSUME NEW c \in Chan
        PROVE  /\ s[c] \in Seq(Byte) /\ Len(s[c]) = 4
               /\ s[c][1] = Bytes16(After(Chan, o, i)[c].sample)[1]
               /\ s[c][2] = Bytes16(After(Chan, o, i)[c].sample)[2]
               /\ s[c][3] = Bytes16(After(Chan, o, i)[c].delta)[1]
               /\ s[c][4] = Bytes16(After(Chan, o, i)[c].delta)[2]
    <2>1. PICK x \in ChState : x = After(Chan, o, i)[c]
      <3>1. PICK u \in Seq(Offers(Chan)) : u = o
        BY <1>h DEF SyncAt
      <3>2. i \in 0 .. Len(u)
        BY <1>3, <3>1
      <3>3. After(Chan, u, i)[c] \in ChState
        BY <3>2, AfterStep
      <3>4. QED
        BY <3>1, <3>3
    <2>2. x.sample \in Int16 /\ x.delta \in Int16
      BY DEF ChState
    <2>3. PICK a \in Seq(Byte), b \in Seq(Byte) :
            a = Bytes16(x.sample) /\ b = Bytes16(x.delta) /\ Len(a) = 2 /\ Len(b) = 2
      BY <2>2, BytesSize
    <2>4. s[c] = a \o b
      BY <1>4, <2>1, <2>3 DEF StateBytes
    <2>5. /\ a \o b \in Seq(Byte) /\ Len(a \o b) = 4
          /\ (a \o b)[1] = a[1] /\ (a \o b)[2] = a[2] /\ (a \o b)[3] = b[1] /\ (a \o b)[4] = b[2]
      BY <2>3, FourOf
    <2>6. QED
      BY <2>1, <2>3, <2>4, <2>5
  <1>6. /\ s \in Seq(Seq(Byte)) /\ Len(s) = n /\ Len(s) # 0
        /\ \A c \in 1 .. Len(s) : Len(s[c]) = 4
    <2>1. s \in [1 .. n -> Seq(Byte)]
      <3>1. s = [c \in 1 .. n |-> s[c]]
        BY <1>1, <1>4 DEF StateBytes
      <3>2. \A c \in 1 .. n : s[c] \in Seq(Byte)
        BY <1>1, <1>5
      <3>3. QED
        BY <3>1, <3>2
    <2>2. s \in Seq(Seq(Byte)) /\ Len(s) = n
      BY <2>1, FunctionSeq
    <2>3. \A c \in 1 .. Len(s) : Len(s[c]) = 4
      BY <1>1, <1>5, <2>2
    <2>4. QED
      BY <2>2, <2>3
  <1>7. PICK w \in Seq(Byte) : w = FlattenSeq(s) /\ Len(w) = 4 * n
    BY <1>6, FlattenSize
  <1>8. PICK h \in Seq(Byte) : h = <<Resync, 0, 0, 0, f>> /\ Len(h) = 5 /\ h[1] = Resync /\ h[5] = f
    <2>1. Resync \in Byte /\ 0 \in Byte /\ f \in Byte
      BY <1>h DEF Resync, Byte, SyncAt
    <2>2. PICK z \in Byte, y \in Byte, x \in Byte : z = Resync /\ y = 0 /\ x = f
      BY <2>1
    <2>3. <<z, y, y, y, x>> \in Seq(Byte)
      OBVIOUS
    <2>4. /\ Len(<<z, y, y, y, x>>) = 5 /\ <<z, y, y, y, x>>[1] = z
          /\ <<z, y, y, y, x>>[5] = x
      OBVIOUS
    <2>5. QED
      BY <2>2, <2>3, <2>4
  <1>9. PICK b : b = h \o w
    OBVIOUS
  <1>10. /\ b \in Seq(Byte) /\ Len(b) = Len(h) + Len(w)
         /\ \A k \in 1 .. Len(h) : b[k] = h[k]
         /\ \A k \in 1 .. Len(w) : b[Len(h) + k] = w[k]
    BY <1>9, ConcatIs
  <1>11. b \in Seq(Byte) /\ Len(b) = ResyncSize /\ b[1] = Resync /\ b[5] = f
    <2>1. 1 \in 1 .. Len(h) /\ 5 \in 1 .. Len(h)
      BY <1>8
    <2>2. QED
      BY <1>1, <1>7, <1>8, <1>10, <2>1
  <1>12. ASSUME NEW c \in 1 .. n, NEW j \in 1 .. 4 PROVE b[5 + (4 * (c - 1) + j)] = s[c][j]
    <2>1. 4 * (c - 1) + j \in 1 .. Len(w)
      BY <1>7, StatePlaces
    <2>2. b[5 + (4 * (c - 1) + j)] = w[4 * (c - 1) + j]
      BY <1>8, <1>10, <2>1
    <2>3. w[4 * (c - 1) + j] = s[c][j]
      BY <1>6, <1>7, FourCuts
    <2>4. QED
      BY <2>2, <2>3
  <1>13. ASSUME NEW c \in Chan
         PROVE  /\ b[4 * c + 2] = s[c][1] /\ b[4 * c + 3] = s[c][2]
                /\ b[4 * c + 4] = s[c][3] /\ b[4 * c + 5] = s[c][4]
    <2>1. c \in 1 .. n /\ c \in 1 .. 14
      <3>1. c \in 1 .. n /\ n \in 1 .. 14
        BY <1>1
      <3>2. QED
        BY <3>1
    <2>2. 1 \in 1 .. 4 /\ 2 \in 1 .. 4 /\ 3 \in 1 .. 4 /\ 4 \in 1 .. 4
      OBVIOUS
    <2>3. /\ b[5 + (4 * (c - 1) + 1)] = s[c][1] /\ b[5 + (4 * (c - 1) + 2)] = s[c][2]
          /\ b[5 + (4 * (c - 1) + 3)] = s[c][3] /\ b[5 + (4 * (c - 1) + 4)] = s[c][4]
      BY <1>12, <2>1, <2>2
    <2>4. QED
      BY <2>1, <2>3, FivePlaces
  <1>14. SyncPlaces(o, f, b)
    BY <1>2, <1>5, <1>11, <1>13 DEF SyncPlaces
  <1>15. b = SyncBytes(o, f)
    BY <1>2, <1>4, <1>7, <1>8, <1>9 DEF SyncBytes
  <1>16. QED
    BY <1>14, <1>15

\* The reader that has the bytes of the resync pending.
Pending(o, f, r) ==
    r \in Reader /\ r.pending = Tail(SyncBytes(o, f)) /\ r.insync

Resynced(o, f, r, t) == Held(o, t, f, f + 1) /\ t.parse = r.parse

LEMMA SyncHeld ==
    \A o, f, r : SyncAt(o, f) /\ Pending(o, f, r) => Resynced(o, f, r, syncUpdate(r))
  <1> TAKE o, f, r
  <1>h. HAVE SyncAt(o, f) /\ Pending(o, f, r)
  <1>1. PICK n \in 1 .. 14 : n = setup.channels /\ Chan = 1 .. n /\ ResyncSize = 5 + 4 * n
    BY <1>h, SetupFacts DEF SyncAt, Chan
  <1>2. PICK b : b = SyncBytes(o, f)
    OBVIOUS
  <1>3. SyncPlaces(o, f, b)
    BY <1>2, <1>h, SyncParts
  <1>4. b \in Seq(Byte) /\ Len(b) = 5 + 4 * n /\ b[5] = f
    BY <1>1, <1>3 DEF SyncPlaces
  <1>5. PICK w : w = r.pending
    OBVIOUS
  <1>6. \A k \in 1 .. 4 + 4 * n : w[k] = b[k + 1]
    <2>1. w = Tail(b)
      BY <1>2, <1>5, <1>h DEF Pending
    <2>2. Len(b) # 0 /\ Len(b) - 1 = 4 + 4 * n
      BY <1>4
    <2>3. \A k \in 1 .. Len(b) - 1 : Tail(b)[k] = b[k + 1]
      BY <1>4, <2>2
    <2>4. QED
      BY <2>1, <2>2, <2>3
  <1>7. w[4] = f
    <2>1. 4 \in 1 .. 4 + 4 * n /\ 4 + 1 = 5
      OBVIOUS
    <2>2. w[4] = b[4 + 1]
      BY <1>6, <2>1
    <2>3. QED
      BY <1>4, <2>1, <2>2
  <1>8. PICK x : x = After(Chan, o, f + 1)
    OBVIOUS
  <1>9. f \in Nat /\ f + 1 \in 0 .. Len(o) /\ f + 1 # 0 /\ o \in Seq(Offers(Chan))
    BY <1>h DEF SyncAt, Byte
  <1>10. ASSUME NEW c \in Chan
         PROVE  /\ x[c] = [sample |-> FromBytes(w[4 * c + 1], w[4 * c + 2]),
                           delta |-> FromBytes(w[4 * c + 3], w[4 * c + 4])]
                /\ FromBytes(w[4 * c + 1], w[4 * c + 2]) = o[f + 1].sample[c]
    <2>1. PICK y \in ChState : y = x[c] /\ y.sample = Smp(o, f + 1, c)
      <3>0. PICK i : i = f + 1
        OBVIOUS
      <3>1. PICK u \in Seq(Offers(Chan)) : u = o /\ i = f + 1
        BY <1>9, <3>0
      <3>2. i \in 0 .. Len(u)
        BY <1>9, <3>1
      <3>3. After(Chan, u, i)[c] \in ChState /\ After(Chan, u, i)[c].sample = Smp(u, i, c)
        BY <3>2, AfterStep
      <3>4. QED
        BY <1>8, <3>1, <3>3
    <2>2. /\ b[4 * c + 2] = Bytes16(y.sample)[1] /\ b[4 * c + 3] = Bytes16(y.sample)[2]
          /\ b[4 * c + 4] = Bytes16(y.delta)[1] /\ b[4 * c + 5] = Bytes16(y.delta)[2]
      BY <1>3, <1>8, <2>1 DEF SyncPlaces
    <2>3. /\ w[4 * c + 1] = b[4 * c + 2] /\ w[4 * c + 2] = b[4 * c + 3]
          /\ w[4 * c + 3] = b[4 * c + 4] /\ w[4 * c + 4] = b[4 * c + 5]
      <3>1. c \in 1 .. n
        BY <1>1
      <3>2. /\ 4 * c + 1 \in 1 .. 4 + 4 * n /\ 4 * c + 2 \in 1 .. 4 + 4 * n
            /\ 4 * c + 3 \in 1 .. 4 + 4 * n /\ 4 * c + 4 \in 1 .. 4 + 4 * n
            /\ (4 * c + 1) + 1 = 4 * c + 2 /\ (4 * c + 2) + 1 = 4 * c + 3
            /\ (4 * c + 3) + 1 = 4 * c + 4 /\ (4 * c + 4) + 1 = 4 * c + 5
        BY <3>1
      <3>3. /\ w[4 * c + 1] = b[(4 * c + 1) + 1] /\ w[4 * c + 2] = b[(4 * c + 2) + 1]
            /\ w[4 * c + 3] = b[(4 * c + 3) + 1] /\ w[4 * c + 4] = b[(4 * c + 4) + 1]
        BY <1>6, <3>2
      <3>4. QED
        BY <3>2, <3>3
    <2>4. y.sample \in Int16 /\ y.delta \in Int16 /\ y = [sample |-> y.sample, delta |-> y.delta]
      BY DEF ChState
    <2>5. /\ FromBytes(Bytes16(y.sample)[1], Bytes16(y.sample)[2]) = y.sample
          /\ FromBytes(Bytes16(y.delta)[1], Bytes16(y.delta)[2]) = y.delta
      BY <2>4, BytesBack
    <2>6. Smp(o, f + 1, c) = o[f + 1].sample[c]
      BY <1>9 DEF Smp
    <2>7. QED
      BY <2>1, <2>2, <2>3, <2>4, <2>5, <2>6
  <1> DEFINE state(c) == [sample |-> FromBytes(r.pending[4 * c + 1], r.pending[4 * c + 2]),
                          delta |-> FromBytes(r.pending[4 * c + 3], r.pending[4 * c + 4])]
             row == [c \in Chan |-> state(c).sample]
  <1>11. [c \in Chan |-> state(c)] = x
    <2>1. \A c \in Chan : state(c) = x[c]
      BY <1>5, <1>10
    <2>2. x = [c \in Chan |-> x[c]]
      BY <1>8 DEF After
    <2>3. QED
      BY <2>1, <2>2
  <1>12. row = o[f + 1].sample
    <2>1. f + 1 \in 1 .. Len(o)
      BY <1>9
    <2>2. o[f + 1] \in Offers(Chan)
      BY <1>9, <2>1
    <2>3. PICK v \in [Chan -> Int16] : v = o[f + 1].sample
      BY <2>2 DEF Offers
    <2>4. \A c \in Chan : state(c).sample = v[c]
      BY <1>5, <1>10, <2>3
    <2>5. QED
      BY <2>3, <2>4
  <1>13. syncUpdate(r) = [r EXCEPT !.counter = r.pending[4], !.pending = << >>, !.ready = FALSE,
                                   !.ccs = [c \in Chan |-> state(c)], !.samples = <<row>>]
    BY DEF syncUpdate
  <1> HIDE DEF state, row
  <1>14. PICK t : t = [r EXCEPT !.counter = f, !.pending = << >>, !.ready = FALSE,
                                !.ccs = x, !.samples = <<row>>]
    OBVIOUS
  <1>15. syncUpdate(r) = t
    BY <1>5, <1>7, <1>11, <1>13, <1>14
  <1>16. /\ t.counter = f /\ t.pending = << >> /\ t.ready = FALSE /\ t.ccs = x /\ t.samples = <<row>>
         /\ t.parse = r.parse /\ t.insync = r.insync
    <2>1. r \in Reader
      BY <1>h DEF Pending
    <2>2. QED
      BY <1>14, <2>1 DEF Reader
  <1>17. <<row>> = Run(o, f, f + 1)
    <2>1. (f + 1) - f = 1
      BY <1>9
    <2>2. \A j \in 1 .. 1 : o[f + j].sample = row
      BY <1>12
    <2>3. [j \in 1 .. 1 |-> o[f + j].sample] = [j \in 1 .. 1 |-> row]
      BY <2>2
    <2>4. [j \in 1 .. 1 |-> row] = <<row>>
      OBVIOUS
    <2>5. QED
      BY <2>1, <2>3, <2>4 DEF Run
  <1>18. t.insync
    BY <1>16, <1>h DEF Pending
  <1>19. Held(o, t, f, f + 1)
    BY <1>8, <1>9, <1>16, <1>17, <1>18 DEF Held
  <1>20. QED
    BY <1>15, <1>16, <1>19 DEF Resynced

----------------------------------------------------------------------------
\* The reader's place among the items.

\* Every residual of a sample that was accepted is one that the code carries.
Clean(C, o) ==
    \A i \in 1 .. Len(o) : o[i].accepted => \A c \in C : Residual(C, o, i, c) \notin Gap

\* What was offered and what was written.
Written(o, it, n, en) ==
    /\ setup \in Setups /\ o \in Seq(Offers(Chan)) /\ Len(o) <= 255
    /\ Pieces(it, n, en) /\ Chain(Chan, setup.period, o, it, n)
World(o, it, n, en) == Written(o, it, n, en) /\ Clean(Chan, o)

\* The block after an item.
BlockOf(o, y) ==
    /\ y \in Item /\ y.idx \in Nat /\ y.from \in Nat /\ y.idx <= Len(o) /\ y.from <= y.idx
    /\ y.idx # 0 => y.from < y.idx
    /\ y.kind # "flush" => y.idx # 0
    /\ \A i \in y.from + 1 .. y.idx : o[i].accepted

LEMMA ItemBlock ==
    \A o, it, n, en, d : Written(o, it, n, en) /\ d \in 0 .. n => BlockOf(o, it[d])
  <1> TAKE o, it, n, en, d
  <1>h. HAVE Written(o, it, n, en) /\ d \in 0 .. n
  <1>1. /\ o \in Seq(Offers(Chan)) /\ Pieces(it, n, en) /\ Chain(Chan, setup.period, o, it, n)
    BY <1>h DEF Written
  <1>2. n \in Nat /\ d \in Nat /\ it[d] \in Item /\ Len(o) \in Nat
    BY <1>1, <1>h DEF Pieces
  <1>3. it[d].idx \in Nat /\ it[d].from \in Nat
    BY <1>2 DEF Item
  <1>4. CASE d = 0
    <2>1. it[d].kind = "flush" /\ it[d].idx = 0 /\ it[d].from = 0
      BY <1>1, <1>4 DEF Chain
    <2>2. \A i \in 0 + 1 .. 0 : FALSE
      OBVIOUS
    <2>3. QED
      BY <1>2, <1>3, <2>1, <2>2 DEF BlockOf
  <1>5. CASE d # 0
    <2>1. d \in 1 .. n
      BY <1>2, <1>h, <1>5
    <2>2. PICK y, x : y = it[d - 1] /\ x = it[d] /\ Linked(Chan, setup.period, o, y, x) /\ y \in Item
      BY <1>1, <2>1, PieceFacts DEF Chain
    <2>3. PICK f \in Nat, l \in Nat, k \in Nat : f = x.from /\ l = x.idx /\ k = y.idx
      BY <1>3, <2>2 DEF Item
    <2>4. l <= Len(o) /\ f <= l /\ (f = l => l = 0) /\ \A i \in f + 1 .. l : o[i].accepted
      BY <2>2, <2>3 DEF Linked
    <2>5. l # 0 => f < l
      BY <2>3, <2>4
    <2>6. x.kind # "flush" => l # 0
      <3>1. x.kind = "sync" => l = f + 1
        BY <2>2, <2>3 DEF Linked
      <3>2. x.kind = "data" => l = k + 1
        BY <2>2, <2>3 DEF Linked
      <3>3. x.kind \in {"sync", "data", "flush"}
        BY <1>2, <2>2 DEF Item
      <3>4. QED
        BY <2>3, <3>1, <3>2, <3>3
    <2>7. QED
      BY <1>2, <2>2, <2>3, <2>4, <2>5, <2>6 DEF BlockOf
  <1>6. QED
    BY <1>4, <1>5

\* A sample's item, after item y.
DataAt(o, y, x) ==
    /\ Next1(o, y.from, y.idx) /\ x.from = y.from /\ x.idx = y.idx + 1 /\ y.kind # "flush"
    /\ x.bytes = FlattenSeq(Codes(Chan, o, y.idx + 1))

LEMMA DataItemAt ==
    \A o, it, n, en, k :
        World(o, it, n, en) /\ k \in 1 .. n /\ it[k].kind = "data" => DataAt(o, it[k - 1], it[k])
  <1> TAKE o, it, n, en, k
  <1>h. HAVE World(o, it, n, en) /\ k \in 1 .. n /\ it[k].kind = "data"
  <1>1. /\ setup \in Setups /\ o \in Seq(Offers(Chan)) /\ Clean(Chan, o)
        /\ Pieces(it, n, en) /\ Chain(Chan, setup.period, o, it, n)
    BY <1>h DEF World, Written
  <1>2. k - 1 \in 0 .. n /\ k \in 0 .. n
    BY <1>1, <1>h, PieceFacts
  <1>3. BlockOf(o, it[k - 1]) /\ BlockOf(o, it[k])
    BY <1>2, <1>h, ItemBlock DEF World
  <1>4. PICK y, x : y = it[k - 1] /\ x = it[k] /\ Linked(Chan, setup.period, o, y, x)
    BY <1>1, <1>h DEF Chain
  <1>5. x.kind = "data" /\ BlockOf(o, y) /\ BlockOf(o, x)
    BY <1>3, <1>4, <1>h
  <1>6. /\ y.kind # "flush" /\ x.from = y.from /\ x.idx = y.idx + 1
        /\ x.bytes = FlattenSeq(Codes(Chan, o, x.idx))
    BY <1>4, <1>5 DEF Linked
  <1>7. PICK f \in Nat, l \in Nat : f = y.from /\ l = y.idx /\ l # 0 /\ f < l
    BY <1>5, <1>6 DEF BlockOf
  <1>8. PICK P \in Nat, B \in Nat : P = setup.period /\ B = setup.block /\ P < B
    <2>1. GoodSetup(setup)
      BY <1>1, SetupsAssumption
    <2>2. setup.period \in 1 .. 255 /\ setup.block \in Nat
      BY <1>1, SetupFacts
    <2>3. setup.block > setup.period
      BY <2>1 DEF GoodSetup
    <2>4. PICK P \in Nat, B \in Nat : P = setup.period /\ B = setup.block
      BY <2>2
    <2>5. P < B
      BY <2>3, <2>4
    <2>6. QED
      BY <2>4, <2>5
  <1>9. l + 1 <= f + P + 1 /\ l + 1 <= Len(o) /\ x.idx = l + 1
    <2>1. x.idx <= x.from + setup.period + 1 /\ x.idx <= Len(o)
      BY <1>4, <1>5 DEF Linked
    <2>2. x.idx = l + 1 /\ x.from = f
      BY <1>6, <1>7
    <2>3. P = setup.period
      BY <1>8
    <2>4. \A a, b, c, e : a <= b + c + 1 /\ a <= Len(o) /\ a = l + 1 /\ b = f /\ c = P
             => l + 1 <= f + P + 1 /\ l + 1 <= Len(o)
      OBVIOUS
    <2>5. QED
      BY <2>1, <2>2, <2>3, <2>4, Zenon
  <1>10. l - f < B
    <2>1. l + 1 <= f + P + 1 /\ P < B
      BY <1>8, <1>9
    <2>2. QED
      BY <2>1
  <1>11. l + 1 \in 1 .. Len(o)
    BY <1>1, <1>9
  <1>12. o[l + 1].accepted
    <2>1. l + 1 \in f + 1 .. l + 1
      BY <1>7
    <2>2. \A i \in x.from + 1 .. x.idx : o[i].accepted
      BY <1>5 DEF BlockOf
    <2>3. QED
      BY <1>6, <1>7, <1>9, <2>1, <2>2
  <1>13. Sound(setup.channels, o, l + 1)
    <2>1. setup.channels \in 1 .. 14
      BY <1>1, SetupFacts
    <2>2. \A c \in Chan : Residual(Chan, o, l + 1, c) \notin Gap
      BY <1>1, <1>11, <1>12 DEF Clean
    <2>3. QED
      BY <1>1, <1>11, <2>1, <2>2 DEF Sound, Chan
  <1>14. Next1(o, f, l)
    BY <1>7, <1>8, <1>9, <1>10, <1>13 DEF Next1
  <1>15. QED
    BY <1>4, <1>6, <1>7, <1>14 DEF DataAt

\* Item k holds byte c + 1 of all those written.
Covers(en, n, k, c) == k \in 1 .. n /\ en[k - 1] <= c /\ c < en[k]

\* Only one does, and there is one for every byte.
LEMMA CoverOnly ==
    \A it, n, en, c, k, d :
        /\ Pieces(it, n, en) /\ c \in Nat /\ Covers(en, n, k, c)
        /\ d \in 0 .. n /\ en[d] <= c /\ (d < n => c < en[d + 1])
        => d = k - 1
  <1> TAKE it, n, en, c, k, d
  <1>h. HAVE /\ Pieces(it, n, en) /\ c \in Nat /\ Covers(en, n, k, c)
             /\ d \in 0 .. n /\ en[d] <= c /\ (d < n => c < en[d + 1])
  <1>1. /\ n \in Nat /\ en \in [Nat -> Nat] /\ \A i, j \in 0 .. n : i < j => en[i] < en[j]
        /\ k \in 1 .. n /\ en[k - 1] <= c /\ c < en[k]
    BY <1>h DEF Pieces, Covers
  <1>2. k \in Nat /\ d \in Nat /\ k \in 0 .. n /\ k - 1 \in 0 .. n
    BY <1>1, <1>h
  <1>3. CASE k <= d
    <2>1. en[k] <= en[d]
      <3>1. CASE k = d
        BY <1>1, <1>2, <3>1
      <3>2. CASE k # d
        <4>1. k < d
          BY <1>2, <1>3, <3>2
        <4>2. en[k] < en[d]
          BY <1>1, <1>2, <1>h, <4>1
        <4>3. QED
          BY <1>1, <1>2, <4>2
      <3>3. QED
        BY <3>1, <3>2
    <2>2. PICK a \in Nat, b \in Nat : a = en[k] /\ b = en[d]
      BY <1>1, <1>2
    <2>3. a <= b /\ b <= c /\ c < a
      BY <1>1, <1>h, <2>1, <2>2
    <2>4. QED
      BY <1>h, <2>3
  <1>4. CASE d < k - 1
    <2>1. d < n /\ d + 1 \in 0 .. n /\ d + 1 <= k - 1 /\ d + 1 \in Nat /\ k - 1 \in Nat
      BY <1>1, <1>2, <1>4
    <2>2. en[d + 1] <= en[k - 1]
      <3>1. CASE d + 1 = k - 1
        BY <1>1, <2>1, <3>1
      <3>2. CASE d + 1 # k - 1
        <4>1. d + 1 < k - 1
          BY <1>2, <2>1, <3>2
        <4>2. en[d + 1] < en[k - 1]
          BY <1>1, <1>2, <2>1, <4>1
        <4>3. QED
          BY <1>1, <2>1, <4>2
      <3>3. QED
        BY <3>1, <3>2
    <2>3. PICK a \in Nat, b \in Nat : a = en[d + 1] /\ b = en[k - 1]
      BY <1>1, <2>1
    <2>4. a <= b /\ b <= c /\ c < a
      BY <1>1, <1>h, <2>1, <2>2, <2>3
    <2>5. QED
      BY <1>h, <2>4
  <1>5. QED
    BY <1>2, <1>3, <1>4

LEMMA CoverThere ==
    \A it, n, en, c :
        Pieces(it, n, en) /\ c \in Nat /\ c < en[n] => \E k : Covers(en, n, k, c)
  <1> TAKE it, n, en, c
  <1>h. HAVE Pieces(it, n, en) /\ c \in Nat /\ c < en[n]
  <1>1. n \in Nat /\ en \in [Nat -> Nat] /\ en[0] = 0
    BY <1>h DEF Pieces
  <1> DEFINE Over == {k \in 1 .. n : c < en[k]}
  <1>2. n # 0
    BY <1>1, <1>h
  <1>3. n \in Over
    BY <1>1, <1>2, <1>h
  <1>4. PICK k \in Over : \A d \in Over : k <= d
    <2>1. Over \in SUBSET Nat
      BY <1>1
    <2> HIDE DEF Over
    <2>2. QED
      BY <1>3, <2>1, Least
  <1>5. k \in 1 .. n /\ k \in Nat /\ c < en[k]
    BY <1>1
  <1>6. en[k - 1] <= c
    <2>1. CASE k = 1
      <3>1. k - 1 = 0
        BY <2>1
      <3>2. QED
        BY <1>1, <1>h, <3>1
    <2>2. CASE k # 1
      <3>1. k - 1 \in 1 .. n /\ ~ (k <= k - 1) /\ k - 1 \in Nat
        BY <1>1, <1>5, <2>2
      <3>2. k - 1 \notin Over
        BY <1>4, <3>1
      <3>3. ~ (c < en[k - 1])
        BY <3>1, <3>2
      <3>4. PICK a \in Nat : a = en[k - 1]
        BY <1>1, <3>1
      <3>5. QED
        BY <1>h, <3>3, <3>4
    <2>3. QED
      BY <2>1, <2>2
  <1>7. QED
    BY <1>5, <1>6 DEF Covers

\* Reader r has taken c bytes, items 1 .. d and a part of the next one.
Place(o, it, n, en, c, r, d) ==
    /\ d \in 0 .. n /\ en[d] <= c /\ (d < n => c < en[d + 1])
    /\ Held(o, r, it[d].from, it[d].idx)
    /\ c = en[d] => r.parse = Idle(<< >>)
    /\ c # en[d] => /\ d < n /\ it[d + 1].kind = "data"
                    /\ InSample(Chan, o, it[d + 1].idx, c - en[d], r.parse)

\* The last block handed out, after item x.
Block(o, f, l) == [counter |-> f, samples |-> Run(o, f, l)]
LastAt(o, x, b) ==
    \E f, l \in 0 .. Len(o) :
        /\ f <= l /\ b = Block(o, f, l) /\ \A i \in f + 1 .. l : o[i].accepted
        /\ x.kind = "flush" => f = x.from /\ l = x.idx
        /\ x.kind # "flush" => l <= x.from /\ \A i \in l + 1 .. x.from : ~o[i].accepted

At(o, it, n, en, c, r, b) ==
    \E d : Place(o, it, n, en, c, r, d) /\ LastAt(o, it[d], b)

\* Byte c + 1 belongs to a sample.
LEMMA ByteAt ==
    \A o, it, n, en, c, r, lst, k, b :
        /\ World(o, it, n, en) /\ c \in Nat /\ r \in Reader /\ At(o, it, n, en, c, r, lst)
        /\ Covers(en, n, k, c) /\ it[k].kind = "data" /\ b = it[k].bytes[(c - en[k - 1]) + 1]
        => decodeByte(r, b) \in Reader /\ At(o, it, n, en, c + 1, decodeByte(r, b), lst)
  <1> TAKE o, it, n, en, c, r, lst, k, b
  <1>h. HAVE
        /\ World(o, it, n, en) /\ c \in Nat /\ r \in Reader /\ At(o, it, n, en, c, r, lst)
        /\ Covers(en, n, k, c) /\ it[k].kind = "data" /\ b = it[k].bytes[(c - en[k - 1]) + 1]
  <1>w. /\ World(o, it, n, en) /\ c \in Nat /\ r \in Reader /\ Covers(en, n, k, c)
        /\ it[k].kind = "data" /\ setup \in Setups /\ Pieces(it, n, en)
    BY <1>h DEF World, Written
  <1>d. PICK d : Place(o, it, n, en, c, r, d) /\ LastAt(o, it[d], lst)
    BY <1>h DEF At
  <1>p. /\ d \in 0 .. n /\ en[d] <= c /\ (d < n => c < en[d + 1])
        /\ Held(o, r, it[d].from, it[d].idx)
        /\ c = en[d] => r.parse = Idle(<< >>)
        /\ c # en[d] => /\ d < n /\ it[d + 1].kind = "data"
                        /\ InSample(Chan, o, it[d + 1].idx, c - en[d], r.parse)
    BY <1>d DEF Place
  <1>1. d = k - 1
    BY <1>p, <1>w, CoverOnly
  <1>2. /\ n \in Nat /\ k \in 1 .. n /\ k \in 0 .. n /\ d + 1 = k /\ d < n /\ k \in Nat
        /\ Len(it[k].bytes) \in Nat /\ en[k] = en[d] + Len(it[k].bytes)
        /\ en[d] \in Nat /\ en[k] \in Nat
    <2>1. k \in 1 .. n
      BY <1>w DEF Covers
    <2>2. /\ n \in Nat /\ k \in Nat /\ k \in 0 .. n /\ Len(it[k].bytes) \in Nat
          /\ en[k] = en[k - 1] + Len(it[k].bytes) /\ en[k - 1] \in Nat /\ en[k] \in Nat
      BY <1>w, <2>1, PieceFacts
    <2>3. d + 1 = k /\ d < n
      BY <1>1, <2>1, <2>2
    <2>4. QED
      BY <1>1, <2>1, <2>2, <2>3
  <1>3. PICK y, x : y = it[d] /\ x = it[k] /\ DataAt(o, y, x)
    BY <1>1, <1>2, <1>w, DataItemAt
  <1>4. PICK f \in Nat, l \in Nat : f = y.from /\ l = y.idx /\ Next1(o, f, l)
    <2>1. Next1(o, y.from, y.idx)
      BY <1>3 DEF DataAt
    <2>2. y.from \in Nat /\ y.idx \in Nat
      BY <2>1 DEF Next1
    <2>3. QED
      BY <2>1, <2>2
  <1>5. /\ x.from = f /\ x.idx = l + 1 /\ y.kind # "flush" /\ x.kind = "data"
        /\ x.bytes = FlattenSeq(Codes(Chan, o, l + 1))
    BY <1>3, <1>4, <1>w DEF DataAt
  <1>6. PICK a \in Nat, e \in Nat, z \in Nat :
          a = en[d] /\ e = en[k] /\ z = Len(x.bytes) /\ e = a + z /\ a <= c /\ c < e
    BY <1>2, <1>3, <1>p, <1>w DEF Covers
  <1>7. PICK q \in Nat : q = c - a
    BY <1>6, <1>w
  <1>8. InSample(Chan, o, l + 1, q, r.parse)
    <2>1. CASE c = en[d]
      <3>1. r.parse = Idle(<< >>) /\ q = 0
        BY <1>6, <1>7, <1>p, <2>1
      <3>2. Sound(setup.channels, o, l + 1)
        BY <1>4 DEF Next1
      <3>3. InSample(1 .. setup.channels, o, l + 1, 0, Idle(<< >>))
        BY <3>2, SampleStart
      <3>4. QED
        BY <3>1, <3>3 DEF Chan
    <2>2. CASE c # en[d]
      BY <1>2, <1>3, <1>5, <1>6, <1>7, <1>p, <2>2
    <2>3. QED
      BY <2>1, <2>2
  <1>9. b = FlattenSeq(Codes(Chan, o, l + 1))[q + 1]
    BY <1>1, <1>3, <1>5, <1>6, <1>7, <1>h
  <1>10. PICK t : t = decodeByte(r, b)
    OBVIOUS
  <1>11. Held(o, r, f, l)
    BY <1>3, <1>4, <1>p
  <1>12. Stepped(o, f, l, q + 1, t)
    BY <1>4, <1>8, <1>9, <1>10, <1>11, <1>w, DataByte
  <1>13. t \in Reader
    BY <1>12 DEF Stepped
  <1>14. CASE q + 1 < z /\ Held(o, t, f, l) /\ InSample(Chan, o, l + 1, q + 1, t.parse)
    <2>1. c + 1 < e /\ a <= c + 1 /\ c + 1 # a /\ (c + 1) - a = q + 1
      <3>1. \A a1, e1, z1, c1, q1 \in Nat :
              e1 = a1 + z1 /\ a1 <= c1 /\ q1 = c1 - a1 /\ q1 + 1 < z1
              => c1 + 1 < e1 /\ a1 <= c1 + 1 /\ c1 + 1 # a1 /\ (c1 + 1) - a1 = q1 + 1
        OBVIOUS
      <3>2. q + 1 < z /\ c \in Nat
        BY <1>14, <1>w
      <3>3. /\ a \in Nat /\ e \in Nat /\ z \in Nat /\ c \in Nat /\ q \in Nat
            /\ e = a + z /\ a <= c /\ q = c - a /\ q + 1 < z
        BY <1>6, <1>7, <3>2
      <3>4. QED
        BY <3>1, <3>3
    <2>2. Place(o, it, n, en, c + 1, t, d)
      BY <1>2, <1>3, <1>4, <1>5, <1>6, <1>14, <1>p, <2>1 DEF Place
    <2>3. QED
      BY <1>d, <1>10, <1>13, <2>2 DEF At
  <1>15. CASE q + 1 = z /\ Held(o, t, f, l + 1) /\ t.parse = Idle(<< >>)
    <2>1. c + 1 = e
      <3>1. /\ a \in Nat /\ e \in Nat /\ z \in Nat /\ c \in Nat /\ q \in Nat
            /\ e = a + z /\ q = c - a /\ q + 1 = z
        BY <1>6, <1>7, <1>15, <1>w
      <3>2. QED
        BY <3>1
    <2>2. k < n => c + 1 < en[k + 1]
      <3>1. HAVE k < n
      <3>2. k + 1 \in 1 .. n /\ (k + 1) - 1 = k
        BY <1>2, <3>1
      <3>3. en[(k + 1) - 1] < en[k + 1]
        BY <1>w, <3>2, PieceFacts
      <3>4. QED
        BY <1>6, <2>1, <3>2, <3>3
    <2>3. Place(o, it, n, en, c + 1, t, k)
      <3>1. en[k] <= c + 1 /\ c + 1 = en[k]
        BY <1>6, <2>1
      <3>2. QED
        BY <1>2, <1>3, <1>5, <1>15, <2>2, <3>1 DEF Place
    <2>4. LastAt(o, it[k], lst)
      <3>1. LastAt(o, y, lst) /\ y.kind # "flush" /\ x.kind # "flush" /\ x.from = y.from
        BY <1>3, <1>4, <1>5, <1>d
      <3>2. LastAt(o, x, lst)
        BY <3>1 DEF LastAt
      <3>3. QED
        BY <1>3, <3>2
    <2>5. QED
      BY <1>10, <1>13, <2>3, <2>4 DEF At
  <1>16. QED
    BY <1>5, <1>6, <1>12, <1>14, <1>15 DEF Stepped

----------------------------------------------------------------------------
\* A chunk of samples' bytes.

InItems(it, n, en, c, bytes) ==
    /\ bytes \in Seq(Byte)
    /\ \A i \in 1 .. Len(bytes) :
         \E k : /\ Covers(en, n, k, (c + i) - 1) /\ it[k].kind = "data"
                /\ bytes[i] = it[k].bytes[(((c + i) - 1) - en[k - 1]) + 1]

Readers(o, it, n, en, c, lst) == {q \in Reader : At(o, it, n, en, c, q, lst)}

LEMMA ByteReaders ==
    \A o, it, n, en, c, lst, q, b :
        /\ World(o, it, n, en) /\ c \in Nat /\ q \in Readers(o, it, n, en, c, lst)
        /\ \E k : /\ Covers(en, n, k, c) /\ it[k].kind = "data"
                  /\ b = it[k].bytes[(c - en[k - 1]) + 1]
        => decodeByte(q, b) \in Readers(o, it, n, en, c + 1, lst)
  <1> TAKE o, it, n, en, c, lst, q, b
  <1>h. HAVE /\ World(o, it, n, en) /\ c \in Nat /\ q \in Readers(o, it, n, en, c, lst)
             /\ \E k : /\ Covers(en, n, k, c) /\ it[k].kind = "data"
                       /\ b = it[k].bytes[(c - en[k - 1]) + 1]
  <1>1. q \in Reader /\ At(o, it, n, en, c, q, lst)
    BY <1>h DEF Readers
  <1>2. decodeByte(q, b) \in Reader /\ At(o, it, n, en, c + 1, decodeByte(q, b), lst)
    BY <1>h, <1>1, ByteAt, Zenon
  <1>3. QED
    BY <1>2 DEF Readers

LEMMA ChunkAt ==
    \A o, it, n, en, c, r, lst, bytes :
        /\ World(o, it, n, en) /\ c \in Nat /\ r \in Readers(o, it, n, en, c, lst)
        /\ InItems(it, n, en, c, bytes)
        => decodeSample(r, bytes) \in SUBSET Readers(o, it, n, en, c + Len(bytes), lst)
  <1> TAKE o, it, n, en, c, r, lst, bytes
  <1>h. HAVE /\ World(o, it, n, en) /\ c \in Nat /\ r \in Readers(o, it, n, en, c, lst)
             /\ InItems(it, n, en, c, bytes)
  <1>b. /\ bytes \in Seq(Byte) /\ r \in Reader /\ Len(bytes) \in Nat
    BY <1>h DEF InItems, Readers
  <1>1. PICK f : AfterFn(r, bytes, f) /\ decodeSample(r, bytes) = f[Len(bytes)]
    BY <1>b, AfterExists, AfterChoice
  <1>3. \A i \in 0 .. Len(bytes) :
          f[i] = IF i = 0 THEN {r} ELSE {decodeByte(q, bytes[i]) : q \in f[i - 1]}
    <2>1. f = [i \in 0 .. Len(bytes) |->
                 IF i = 0 THEN {r} ELSE {decodeByte(q, bytes[i]) : q \in f[i - 1]}]
      BY <1>1 DEF AfterFn
    <2>2. TAKE i \in 0 .. Len(bytes)
    <2>3. [j \in 0 .. Len(bytes) |->
             IF j = 0 THEN {r} ELSE {decodeByte(q, bytes[j]) : q \in f[j - 1]}][i]
           = IF i = 0 THEN {r} ELSE {decodeByte(q, bytes[i]) : q \in f[i - 1]}
      OBVIOUS
    <2>4. QED
      BY <2>1, <2>3
  <1> DEFINE At2(i) == Readers(o, it, n, en, c + i, lst)
             Bad == {i \in 0 .. Len(bytes) : ~ (f[i] \in SUBSET At2(i))}
  <1>4. Bad = {}
    <2>1. SUFFICES ASSUME Bad # {} PROVE FALSE
      OBVIOUS
    <2>2. PICK m \in Bad : \A d \in Bad : m <= d
      <3>1. Bad \in SUBSET Nat
        BY <1>b
      <3> HIDE DEF Bad
      <3>2. QED
        BY <2>1, <3>1, Least
    <2>3. m \in 0 .. Len(bytes) /\ m \in Nat /\ ~ (f[m] \in SUBSET At2(m))
      BY <1>b
    <2> HIDE DEF At2
    <2>4. CASE m = 0
      <3>1. f[m] = {r} /\ c + m = c
        <4>1. f[m] = {r}
          BY <1>3, <2>3, <2>4
        <4>2. c + m = c
          BY <1>h, <2>3, <2>4
        <4>3. QED
          BY <4>1, <4>2
      <3>2. r \in At2(m)
        BY <1>h, <3>1 DEF At2
      <3>3. QED
        BY <2>3, <3>1, <3>2
    <2>5. CASE m # 0
      <3>1. m - 1 \in 0 .. Len(bytes) /\ ~ (m <= m - 1) /\ m \in 1 .. Len(bytes)
        BY <1>b, <2>3, <2>5
      <3>2. f[m - 1] \in SUBSET At2(m - 1)
        BY <2>2, <3>1
      <3>3. PICK e \in Nat : e = c + (m - 1) /\ e = (c + m) - 1 /\ e + 1 = c + m
        BY <1>h, <2>3, <2>5
      <3>4. \E k : /\ Covers(en, n, k, e) /\ it[k].kind = "data"
                   /\ bytes[m] = it[k].bytes[(e - en[k - 1]) + 1]
        BY <1>h, <3>1, <3>3 DEF InItems
      <3>5. ASSUME NEW q \in f[m - 1]
            PROVE  decodeByte(q, bytes[m]) \in At2(m)
        <4>1. q \in Readers(o, it, n, en, e, lst)
          BY <3>2, <3>3 DEF At2
        <4>2. decodeByte(q, bytes[m]) \in Readers(o, it, n, en, e + 1, lst)
          BY <1>h, <3>3, <3>4, <4>1, ByteReaders, Zenon
        <4>3. QED
          BY <3>3, <4>2 DEF At2
      <3>6. f[m] = {decodeByte(q, bytes[m]) : q \in f[m - 1]}
        BY <1>3, <2>3, <2>5
      <3>7. QED
        BY <2>3, <3>5, <3>6
    <2>6. QED
      BY <2>4, <2>5
  <1>5. f[Len(bytes)] \in SUBSET At2(Len(bytes))
    BY <1>4, <1>b
  <1>6. QED
    BY <1>1, <1>5

----------------------------------------------------------------------------
\* The next chunk among the items.

\* A chunk of t bytes with no control byte in it.
DataChunk(it, n, en, c, s, ms, t) ==
    /\ Layout(it, n, en, c, s) /\ MarksAt(it, n, en, c, ms) /\ t \in 0 .. Len(s)
    /\ \A i \in 1 .. Len(ms) : ms[i].at \in Nat /\ t <= ms[i].at

LEMMA DataItems ==
    \A it, n, en, c, s, ms, t :
        DataChunk(it, n, en, c, s, ms, t) => InItems(it, n, en, c, SubSeq(s, 1, t))
  <1> TAKE it, n, en, c, s, ms, t
  <1>g. HAVE DataChunk(it, n, en, c, s, ms, t)
  <1>h. /\ Layout(it, n, en, c, s) /\ MarksAt(it, n, en, c, ms) /\ t \in 0 .. Len(s)
        /\ \A i \in 1 .. Len(ms) : ms[i].at \in Nat /\ t <= ms[i].at
    BY <1>g DEF DataChunk
  <1>1. /\ Pieces(it, n, en) /\ c \in Nat /\ s \in Seq(Byte) /\ c + Len(s) = en[n]
        /\ \A k \in 1 .. n : \A j \in 1 .. Len(it[k].bytes) :
             en[k - 1] + j > c => s[(en[k - 1] + j) - c] = it[k].bytes[j]
    BY <1>h DEF Layout
  <1>2. PICK b \in Seq(Byte), m \in Nat :
          b = SubSeq(s, 1, t) /\ m = t /\ Len(b) = m /\ \A i \in 1 .. m : b[i] = s[i]
    <2>1. PICK u \in Seq(Byte), m \in Nat : u = s /\ m = t /\ m <= Len(u)
      BY <1>1, <1>h
    <2>2. PICK b : b = SubSeq(u, 1, m)
      OBVIOUS
    <2>3. b \in Seq(Byte) /\ Len(b) = m /\ \A i \in 1 .. m : b[i] = u[i]
      BY <2>1, <2>2
    <2>4. QED
      BY <2>1, <2>2, <2>3
  <1>3. ASSUME NEW i \in 1 .. m
        PROVE  \E k : /\ Covers(en, n, k, (c + i) - 1) /\ it[k].kind = "data"
                      /\ b[i] = it[k].bytes[(((c + i) - 1) - en[k - 1]) + 1]
    <2>1. PICK e \in Nat, z \in Nat :
            e = (c + i) - 1 /\ c <= e /\ e < c + m /\ e + 1 = c + i /\ z = Len(s) /\ m <= z
      <3>1. PICK c1 \in Nat, i1 \in Nat \ {0}, z \in Nat :
              c1 = c /\ i1 = i /\ i1 <= m /\ z = Len(s) /\ m <= z
        <4>1. Len(s) \in Nat /\ m \in 0 .. Len(s)
          BY <1>1, <1>2, <1>h
        <4>2. i \in Nat \ {0} /\ i <= m
          BY <1>2
        <4>3. m <= Len(s)
          BY <4>1
        <4>4. QED
          BY <1>1, <4>1, <4>2, <4>3
      <3>2. PICK e \in Nat : e = (c1 + i1) - 1 /\ c1 <= e /\ e < c1 + m /\ e + 1 = c1 + i1
        BY <3>1
      <3>3. QED
        BY <3>1, <3>2
    <2>2. e < en[n]
      BY <1>1, <2>1
    <2>3. PICK k : Covers(en, n, k, e)
      BY <1>1, <2>1, <2>2, CoverThere
    <2>4. k \in 1 .. n /\ en[k - 1] <= e /\ e < en[k]
      BY <2>3 DEF Covers
    <2>5. PICK a \in Nat, f \in Nat, w \in Nat :
            a = en[k - 1] /\ f = en[k] /\ w = Len(it[k].bytes) /\ f = a + w /\ a <= e /\ e < f
      <3>1. /\ Len(it[k].bytes) \in Nat /\ en[k - 1] \in Nat /\ en[k] \in Nat
            /\ en[k] = en[k - 1] + Len(it[k].bytes)
        BY <1>1, <2>4, PieceFacts
      <3>2. QED
        BY <2>4, <3>1
    <2>6. it[k].kind = "data"
      <3>1. SUFFICES ASSUME it[k].kind # "data" PROVE FALSE
        OBVIOUS
      <3>2. en[k] <= c \/ \E x \in 1 .. Len(ms) : en[k - 1] = c + ms[x].at
        BY <1>h, <2>4, <3>1 DEF MarksAt
      <3>3. ~ (en[k] <= c)
        BY <1>1, <2>1, <2>5
      <3>4. PICK x \in 1 .. Len(ms) : en[k - 1] = c + ms[x].at
        BY <3>2, <3>3
      <3>5. PICK g \in Nat : g = ms[x].at /\ m <= g
        BY <1>2, <1>h
      <3>6. a = c + g
        BY <2>5, <3>4, <3>5
      <3>7. /\ a \in Nat /\ c \in Nat /\ e \in Nat /\ g \in Nat /\ m \in Nat
            /\ a = c + g /\ m <= g /\ a <= e /\ e < c + m
        BY <1>1, <1>2, <2>1, <2>5, <3>5, <3>6
      <3>8. QED
        BY <3>7
    <2>7. PICK j \in Nat : j = (e - a) + 1 /\ j \in 1 .. w /\ a + j = c + i /\ a + j > c /\ (a + j) - c = i
      <3>1. PICK c1 \in Nat, i1 \in Nat \ {0} : c1 = c /\ i1 = i /\ e + 1 = c1 + i1 /\ c1 <= e
        BY <1>1, <2>1
      <3>2. a <= e /\ e < a + w
        BY <2>5
      <3>3. PICK j \in Nat :
              j = (e - a) + 1 /\ j \in 1 .. w /\ a + j = c1 + i1 /\ a + j > c1 /\ (a + j) - c1 = i1
        BY <3>1, <3>2
      <3>4. QED
        BY <3>1, <3>3
    <2>8. s[(a + j) - c] = it[k].bytes[j]
      BY <1>1, <2>4, <2>5, <2>7
    <2>9. b[i] = it[k].bytes[(e - en[k - 1]) + 1]
      BY <1>2, <2>5, <2>7, <2>8
    <2>10. QED
      BY <2>1, <2>3, <2>6, <2>9
  <1>4. QED
    BY <1>2, <1>3 DEF InItems

\* The chunk is the bytes of item k, which is at a mark of size t.
ControlItem(it, n, en, c, k, t, b) ==
    /\ k \in 1 .. n /\ it[k].kind # "data" /\ en[k - 1] = c /\ en[k] = c + t
    /\ it[k].bytes = b

LEMMA ControlItems ==
    \A it, n, en, c, s, ms, t :
        /\ Layout(it, n, en, c, s) /\ MarksAt(it, n, en, c, ms)
        /\ Len(ms) # 0 /\ Len(ms) \in Nat /\ ms[1].at = 0 /\ ms[1].size = t /\ t \in 0 .. Len(s)
        => \E k : ControlItem(it, n, en, c, k, t, SubSeq(s, 1, t))
  <1> TAKE it, n, en, c, s, ms, t
  <1>h. HAVE /\ Layout(it, n, en, c, s) /\ MarksAt(it, n, en, c, ms)
             /\ Len(ms) # 0 /\ Len(ms) \in Nat /\ ms[1].at = 0 /\ ms[1].size = t /\ t \in 0 .. Len(s)
  <1>1. /\ Pieces(it, n, en) /\ c \in Nat /\ s \in Seq(Byte)
        /\ \A k \in 1 .. n : \A j \in 1 .. Len(it[k].bytes) :
             en[k - 1] + j > c => s[(en[k - 1] + j) - c] = it[k].bytes[j]
    BY <1>h DEF Layout
  <1>2. PICK b \in Seq(Byte), m \in Nat :
          b = SubSeq(s, 1, t) /\ m = t /\ Len(b) = m /\ \A i \in 1 .. m : b[i] = s[i]
    <2>1. PICK u \in Seq(Byte), m \in Nat : u = s /\ m = t /\ m <= Len(u)
      BY <1>1, <1>h
    <2>2. PICK b : b = SubSeq(u, 1, m)
      OBVIOUS
    <2>3. b \in Seq(Byte) /\ Len(b) = m /\ \A i \in 1 .. m : b[i] = u[i]
      BY <2>1, <2>2
    <2>4. QED
      BY <2>1, <2>2, <2>3
  <1>3. PICK k \in 1 .. n : it[k].kind # "data" /\ en[k - 1] = c /\ Len(it[k].bytes) = m
    <2>1. 1 \in 1 .. Len(ms) /\ c + 0 = c
      BY <1>1, <1>h
    <2>2. PICK k \in 1 .. n : it[k].kind # "data" /\ en[k - 1] = c + ms[1].at /\ Len(it[k].bytes) = ms[1].size
      BY <1>h, <2>1 DEF MarksAt
    <2>3. QED
      BY <1>2, <1>h, <2>1, <2>2
  <1>4. PICK w \in Seq(Byte) : w = it[k].bytes /\ Len(w) = m /\ en[k] = c + m
    <2>1. it[k].bytes \in Seq(Byte) /\ en[k] = en[k - 1] + Len(it[k].bytes)
      BY <1>1, PieceFacts
    <2>2. QED
      BY <1>3, <2>1
  <1>5. \A j \in 1 .. m : b[j] = w[j]
    <2>1. TAKE j \in 1 .. m
    <2>2. c + j > c /\ (c + j) - c = j
      BY <1>1, <1>2
    <2>3. s[(c + j) - c] = w[j]
      BY <1>1, <1>3, <1>4, <2>2
    <2>4. QED
      BY <1>2, <2>2, <2>3
  <1>6. b = w
    BY <1>2, <1>4, <1>5
  <1>7. QED
    BY <1>2, <1>3, <1>4, <1>6 DEF ControlItem

----------------------------------------------------------------------------
\* What the reader does with a control chunk, and what it hands out.

\* The reader once a resync that is pending has been taken.
Synced(r) == IF r.pending # << >> THEN syncUpdate(r) ELSE r

\* The reader and the last block handed out, when the caller has taken it.
Given(q) == [q EXCEPT !.ready = FALSE]
Handed(q, lst) == IF q.ready THEN [counter |-> q.counter, samples |-> q.samples] ELSE lst

\* Block d may be handed out after block b.
NextBlock(o, b, d) ==
    \/ d = b
    \/ /\ d.counter >= b.counter + Len(b.samples)
       /\ d.samples # << >> /\ d.counter + Len(d.samples) <= Len(o)
       /\ \A j \in 1 .. Len(d.samples) :
            o[d.counter + j] = [sample |-> d.samples[j], accepted |-> TRUE]
       /\ \A i \in b.counter + Len(b.samples) + 1 .. d.counter : ~o[i].accepted

\* Reader r between item y and the control item x.
AtControl(o, y, x, r, lst) ==
    /\ setup \in Setups /\ o \in Seq(Offers(Chan)) /\ Len(o) <= 255
    /\ BlockOf(o, y) /\ BlockOf(o, x) /\ Linked(Chan, setup.period, o, y, x)
    /\ x.kind # "data"
    /\ r \in Reader /\ Held(o, r, y.from, y.idx) /\ r.parse = Idle(<< >>)
    /\ LastAt(o, y, lst)

RunIs(C, o, f, l) ==
    /\ Len(Run(o, f, l)) = l - f /\ Run(o, f, l) \in Seq([C -> Int16])
    /\ DOMAIN Run(o, f, l) = 1 .. l - f
    /\ \A j \in 1 .. l - f : Run(o, f, l)[j] = o[f + j].sample

LEMMA RunLength ==
    ASSUME NEW C, NEW o \in Seq(Offers(C)), NEW f \in Nat, NEW l \in Nat, f <= l, l <= Len(o)
    PROVE  RunIs(C, o, f, l)
  <1>1. PICK k \in Nat : k = l - f
    OBVIOUS
  <1>2. ASSUME NEW j \in 1 .. k PROVE o[f + j].sample \in [C -> Int16]
    <2>1. f + j \in 1 .. Len(o)
      BY <1>1
    <2>2. o[f + j] \in Offers(C)
      BY <2>1
    <2>3. QED
      BY <2>2 DEF Offers
  <1>3. PICK u : u = [j \in 1 .. k |-> o[f + j].sample]
    OBVIOUS
  <1>4. u \in [1 .. k -> [C -> Int16]]
    BY <1>2, <1>3
  <1>5. u \in Seq([C -> Int16]) /\ Len(u) = k
    BY <1>1, <1>4, FunctionSeq
  <1>6. Run(o, f, l) = u
    BY <1>1, <1>3 DEF Run
  <1>7. QED
    BY <1>1, <1>3, <1>5, <1>6 DEF RunIs

\* A block that is ready is the one the reader held.
LEMMA HandedBlock ==
    \A o, y, x, r, lst, q :
        /\ AtControl(o, y, x, r, lst)
        /\ q.ready = r.insync /\ q.counter = r.counter /\ q.samples = r.samples
        => /\ LastAt(o, x, Handed(q, lst)) /\ NextBlock(o, lst, Handed(q, lst))
  <1> TAKE o, y, x, r, lst, q
  <1>h. HAVE /\ AtControl(o, y, x, r, lst)
             /\ q.ready = r.insync /\ q.counter = r.counter /\ q.samples = r.samples
  <1>1. /\ o \in Seq(Offers(Chan)) /\ Len(o) \in Nat
        /\ BlockOf(o, y) /\ BlockOf(o, x) /\ Linked(Chan, setup.period, o, y, x)
        /\ x.kind # "data" /\ Held(o, r, y.from, y.idx) /\ LastAt(o, y, lst)
    BY <1>h DEF AtControl
  <1>2. PICK f \in Nat, l \in Nat :
          /\ f = y.from /\ l = y.idx /\ l <= Len(o) /\ f <= l /\ (l # 0 => f < l)
          /\ (y.kind # "flush" => l # 0) /\ \A i \in f + 1 .. l : o[i].accepted
    BY <1>1 DEF BlockOf
  <1>3. PICK g, m \in 0 .. Len(o) :
          /\ g <= m /\ lst = Block(o, g, m) /\ \A i \in g + 1 .. m : o[i].accepted
          /\ y.kind = "flush" => g = f /\ m = l
          /\ y.kind # "flush" => m <= f /\ \A i \in m + 1 .. f : ~o[i].accepted
    BY <1>1, <1>2 DEF LastAt
  <1>4. PICK d : d = Block(o, f, l)
    OBVIOUS
  <1>5. Handed(q, lst) = d
    <2>1. CASE l = 0
      <3>1. ~ q.ready
        BY <1>1, <1>2, <1>h, <2>1 DEF Held
      <3>2. lst = Block(o, f, l)
        BY <1>2, <1>3, <2>1
      <3>3. QED
        BY <1>4, <3>1, <3>2 DEF Handed
    <2>2. CASE l # 0
      <3>1. q.ready /\ q.counter = f /\ q.samples = Run(o, f, l)
        BY <1>1, <1>2, <1>h, <2>2 DEF Held
      <3>2. QED
        BY <1>4, <3>1 DEF Handed, Block
    <2>3. QED
      BY <2>1, <2>2
  <1>6. LastAt(o, x, d)
    <2>1. f \in 0 .. Len(o) /\ l \in 0 .. Len(o)
      BY <1>1, <1>2
    <2>2. x.kind = "flush" => f = x.from /\ l = x.idx
      BY <1>1, <1>2 DEF Linked
    <2>3. x.kind # "flush" => l <= x.from /\ \A i \in l + 1 .. x.from : ~o[i].accepted
      <3>1. HAVE x.kind # "flush"
      <3>2. x.kind = "sync"
        BY <1>1, <3>1 DEF BlockOf, Item
      <3>3. QED
        BY <1>1, <1>2, <3>2 DEF Linked
    <2>4. QED
      BY <1>2, <1>4, <2>1, <2>2, <2>3 DEF LastAt
  <1>7. NextBlock(o, lst, d)
    <2>1. CASE y.kind = "flush"
      BY <1>3, <1>4, <2>1 DEF NextBlock
    <2>2. CASE y.kind # "flush"
      <3>1. l # 0 /\ f < l /\ m <= f /\ \A i \in m + 1 .. f : ~o[i].accepted
        BY <1>2, <1>3, <2>2
      <3>2. PICK g1 \in Nat, m1 \in Nat : g1 = g /\ m1 = m /\ g1 <= m1 /\ m1 <= Len(o)
        BY <1>1, <1>3
      <3>3. PICK u \in Seq(Offers(Chan)) : u = o
        BY <1>1
      <3>a. g1 <= m1 /\ m1 <= Len(u) /\ f <= l /\ l <= Len(u)
        BY <1>2, <3>2, <3>3
      <3>4. Len(Run(u, g1, m1)) = m1 - g1
        <4>1. RunIs(Chan, u, g1, m1)
          BY <3>a, RunLength
        <4>2. QED
          BY <4>1 DEF RunIs
      <3>5. /\ Len(Run(u, f, l)) = l - f
            /\ \A j \in 1 .. l - f : Run(u, f, l)[j] = u[f + j].sample
        <4>1. RunIs(Chan, u, f, l)
          BY <3>a, RunLength
        <4>2. QED
          BY <4>1 DEF RunIs
      <3>6. lst.counter = g1 /\ lst.samples = Run(u, g1, m1) /\ lst.counter + Len(lst.samples) = m1
        <4>1. lst.counter = g1 /\ lst.samples = Run(u, g1, m1)
          BY <1>3, <3>2, <3>3 DEF Block
        <4>2. g1 + (m1 - g1) = m1
          OBVIOUS
        <4>3. QED
          BY <3>4, <4>1, <4>2
      <3>7. d.counter = f /\ d.samples = Run(u, f, l) /\ d.counter + Len(d.samples) = l
        <4>1. d.counter = f /\ d.samples = Run(u, f, l)
          BY <1>4, <3>3 DEF Block
        <4>2. f + (l - f) = l
          OBVIOUS
        <4>3. QED
          BY <3>5, <4>1, <4>2
      <3>8. d.samples # << >>
        <4>1. l - f # 0 /\ Len(<< >>) = 0
          BY <3>1
        <4>2. QED
          BY <3>5, <3>7, <4>1
      <3>9. ASSUME NEW j \in 1 .. Len(d.samples)
            PROVE  o[d.counter + j] = [sample |-> d.samples[j], accepted |-> TRUE]
        <4>1. j \in 1 .. l - f
          BY <3>5, <3>7
        <4>2. f + j \in f + 1 .. l /\ f + j \in 1 .. Len(u)
          <5>1. /\ f \in Nat /\ l \in Nat /\ j \in Nat /\ 1 <= j /\ j <= l - f
                /\ l <= Len(u) /\ Len(u) \in Nat
            BY <1>2, <3>3, <4>1
          <5>2. QED
            BY <5>1
        <4>3. o[f + j] \in Offers(Chan) /\ o[f + j].accepted
          <5>1. u[f + j] \in Offers(Chan)
            BY <4>2
          <5>2. o[f + j].accepted
            BY <1>2, <4>2
          <5>3. QED
            BY <3>3, <5>1, <5>2
        <4>4. o[f + j] = [sample |-> o[f + j].sample, accepted |-> TRUE]
          BY <4>3 DEF Offers
        <4>5. d.samples[j] = o[f + j].sample
          BY <3>3, <3>5, <3>7, <4>1
        <4>6. QED
          BY <3>7, <4>4, <4>5
      <3>10. d.counter >= lst.counter + Len(lst.samples)
        <4>1. f >= m1
          BY <3>1, <3>2
        <4>2. QED
          BY <3>6, <3>7, <4>1
      <3>11. \A i \in lst.counter + Len(lst.samples) + 1 .. d.counter : ~o[i].accepted
        BY <3>1, <3>2, <3>6, <3>7
      <3>12. d.counter + Len(d.samples) <= Len(o)
        BY <1>2, <3>7
      <3>13. QED
        BY <3>8, <3>9, <3>10, <3>11, <3>12 DEF NextBlock
    <2>3. QED
      BY <2>1, <2>2
  <1>8. QED
    BY <1>5, <1>6, <1>7

\* Reader q is r after the control item x.
Controlled(o, x, r, q) ==
    /\ q.ready = r.insync /\ q.counter = r.counter /\ q.samples = r.samples
    /\ Given(q) \in Reader /\ Synced(Given(q)) \in Reader
    /\ Held(o, Synced(Given(q)), x.from, x.idx) /\ Synced(Given(q)).parse = Idle(<< >>)

LEMMA FlushTaken ==
    \A o, y, x, r, lst :
        AtControl(o, y, x, r, lst) /\ x.kind = "flush"
        => Controlled(o, x, r, decodeControl(r, x.bytes))
  <1> TAKE o, y, x, r, lst
  <1>h. HAVE AtControl(o, y, x, r, lst) /\ x.kind = "flush"
  <1>1. /\ Linked(Chan, setup.period, o, y, x) /\ r \in Reader
        /\ Held(o, r, y.from, y.idx) /\ r.parse = Idle(<< >>)
    BY <1>h DEF AtControl
  <1>2. x.from = y.from /\ x.idx = y.idx /\ x.bytes = <<FlushCode>>
    BY <1>1, <1>h DEF Linked
  <1>3. r.ready = FALSE /\ r.pending = << >>
    BY <1>1 DEF Held
  <1>4. x.bytes[1] = FlushCode /\ FlushCode # Resync
    BY <1>2 DEF FlushCode, Resync
  <1>5. PICK q : q = [r EXCEPT !.ready = @ \/ r.insync]
    OBVIOUS
  <1>6. decodeControl(r, x.bytes) = q
    BY <1>4, <1>5 DEF decodeControl
  <1>7. r.insync \in BOOLEAN
    BY <1>1 DEF Reader
  <1>8. q.ready = r.insync /\ q.counter = r.counter /\ q.samples = r.samples /\ Given(q) = r
    BY <1>1, <1>3, <1>5, <1>7 DEF Reader, Given
  <1>9. Synced(Given(q)) = r
    BY <1>3, <1>8 DEF Synced
  <1>10. QED
    BY <1>1, <1>2, <1>6, <1>8, <1>9 DEF Controlled

LEMMA SyncTaken ==
    \A o, y, x, r, lst :
        AtControl(o, y, x, r, lst) /\ x.kind = "sync"
        => Controlled(o, x, r, decodeControl(r, x.bytes))
  <1> TAKE o, y, x, r, lst
  <1>h. HAVE AtControl(o, y, x, r, lst) /\ x.kind = "sync"
  <1>1. /\ setup \in Setups /\ o \in Seq(Offers(Chan)) /\ Len(o) <= 255 /\ Len(o) \in Nat
        /\ BlockOf(o, x) /\ Linked(Chan, setup.period, o, y, x) /\ r \in Reader
        /\ Held(o, r, y.from, y.idx) /\ r.parse = Idle(<< >>)
    BY <1>h DEF AtControl
  <1>2. PICK f \in Nat : f = x.from /\ x.idx = f + 1 /\ f + 1 <= Len(o)
    BY <1>1, <1>h DEF BlockOf, Linked
  <1>3. x.bytes = SyncBytes(o, f)
    BY <1>1, <1>2, <1>h DEF Linked, SyncBytes
  <1>4. SyncAt(o, f)
    <2>1. PICK m \in Nat : m = Len(o) /\ m <= 255 /\ f + 1 <= m
      BY <1>1, <1>2
    <2>2. f \in Byte
      BY <2>1 DEF Byte
    <2>3. QED
      BY <1>1, <1>2, <2>2 DEF SyncAt
  <1>5. PICK b \in Seq(Byte) : b = x.bytes /\ b[1] = Resync /\ Len(b) = ResyncSize
    BY <1>3, <1>4, SyncParts DEF SyncPlaces
  <1>6. r.ready = FALSE /\ r.insync \in BOOLEAN
    BY <1>1 DEF Held, Reader
  <1>7. PICK w : w = Tail(b)
    OBVIOUS
  <1>8. PICK q : q = [r EXCEPT !.ready = @ \/ r.insync, !.insync = TRUE, !.pending = w,
                               !.parse = Idle(@.dods)]
    OBVIOUS
  <1>9. decodeControl(r, x.bytes) = q
    BY <1>5, <1>7, <1>8 DEF decodeControl
  <1>10. q \in Reader
    BY <1>1, <1>5, <1>9, ControlType
  <1>11. PICK s : s = Given(q)
    OBVIOUS
  <1>12. /\ q.ready = r.insync /\ q.counter = r.counter /\ q.samples = r.samples
         /\ s.pending = w /\ s.insync /\ s.parse = Idle(r.parse.dods)
    BY <1>1, <1>6, <1>8, <1>11 DEF Reader, Given
  <1>13. s \in Reader
    <2>1. FALSE \in BOOLEAN
      OBVIOUS
    <2>2. QED
      BY <1>10, <1>11, <2>1 DEF Given, Reader
  <1>14. s.parse = Idle(<< >>)
    BY <1>1, <1>12 DEF Idle
  <1>15. Pending(o, f, s)
    BY <1>3, <1>5, <1>7, <1>12, <1>13 DEF Pending
  <1>16. Held(o, syncUpdate(s), f, f + 1) /\ syncUpdate(s).parse = Idle(<< >>)
    <2>1. Resynced(o, f, s, syncUpdate(s))
      BY <1>4, <1>15, SyncHeld, Zenon
    <2>2. QED
      BY <1>14, <2>1 DEF Resynced
  <1>17. s.pending # << >>
    <2>1. PICK n \in 1 .. 14 : ResyncSize = 5 + 4 * n
      BY <1>1, SetupFacts
    <2>2. Len(b) = 5 + 4 * n
      BY <1>5, <2>1
    <2>3. Len(w) = 4 + 4 * n /\ w \in Seq(Byte)
      BY <1>7, <2>2
    <2>4. Len(w) # 0 /\ Len(<< >>) = 0
      BY <2>3
    <2>5. QED
      BY <1>12, <2>4
  <1>18. Synced(s) = syncUpdate(s)
    BY <1>17 DEF Synced
  <1>19. syncUpdate(s) \in Reader
    BY <1>1, <1>13, <1>17, SyncType
  <1>20. QED
    BY <1>2, <1>9, <1>11, <1>12, <1>13, <1>16, <1>18, <1>19 DEF Controlled

----------------------------------------------------------------------------
\* A control chunk, and one with no control byte, at any place of the stream.

ControlDone(o, it, n, en, e, lst, q) ==
    /\ Given(q) \in Reader
    /\ Synced(Given(q)) \in Readers(o, it, n, en, e, Handed(q, lst))
    /\ NextBlock(o, lst, Handed(q, lst))

LEMMA ControlTaken ==
    \A o, it, n, en, c, r, lst, k, t, b :
        /\ World(o, it, n, en) /\ c \in Nat /\ r \in Readers(o, it, n, en, c, lst)
        /\ ControlItem(it, n, en, c, k, t, b) /\ t \in Nat
        => ControlDone(o, it, n, en, c + t, lst, decodeControl(r, b))
  <1> TAKE o, it, n, en, c, r, lst, k, t, b
  <1>h. HAVE /\ World(o, it, n, en) /\ c \in Nat /\ r \in Readers(o, it, n, en, c, lst)
             /\ ControlItem(it, n, en, c, k, t, b) /\ t \in Nat
  <1>1. /\ setup \in Setups /\ o \in Seq(Offers(Chan)) /\ Len(o) <= 255
        /\ Pieces(it, n, en) /\ Chain(Chan, setup.period, o, it, n)
    BY <1>h DEF World, Written
  <1>2. r \in Reader /\ At(o, it, n, en, c, r, lst)
    BY <1>h DEF Readers
  <1>3. /\ k \in 1 .. n /\ it[k].kind # "data" /\ en[k - 1] = c /\ en[k] = c + t
        /\ it[k].bytes = b
    BY <1>h DEF ControlItem
  <1>4. PICK d : Place(o, it, n, en, c, r, d) /\ LastAt(o, it[d], lst)
    BY <1>2 DEF At
  <1>5. /\ d \in 0 .. n /\ en[d] <= c /\ (d < n => c < en[d + 1])
        /\ Held(o, r, it[d].from, it[d].idx)
        /\ c = en[d] => r.parse = Idle(<< >>)
    BY <1>4 DEF Place
  <1>6. /\ n \in Nat /\ k \in Nat /\ k \in 0 .. n /\ k - 1 \in 0 .. n
        /\ en[k - 1] \in Nat /\ en[k] \in Nat /\ en[k - 1] < en[k]
    BY <1>1, <1>3, PieceFacts
  <1>7. d = k - 1
    <2>1. Covers(en, n, k, c)
      BY <1>3, <1>6, <1>h DEF Covers
    <2>2. QED
      BY <1>1, <1>5, <1>h, <2>1, CoverOnly
  <1>8. PICK y, x : y = it[d] /\ x = it[k]
    OBVIOUS
  <1>9. AtControl(o, y, x, r, lst)
    <2>1. Linked(Chan, setup.period, o, y, x)
      BY <1>1, <1>3, <1>7, <1>8 DEF Chain
    <2>2. BlockOf(o, y) /\ BlockOf(o, x)
      BY <1>5, <1>6, <1>8, <1>h, ItemBlock DEF World
    <2>3. QED
      BY <1>1, <1>2, <1>3, <1>4, <1>5, <1>7, <1>8, <2>1, <2>2 DEF AtControl
  <1>10. PICK q : q = decodeControl(r, x.bytes)
    OBVIOUS
  <1>11. Controlled(o, x, r, q)
    <2>1. x.kind = "flush" \/ x.kind = "sync"
      BY <1>3, <1>8, <1>9 DEF AtControl, BlockOf, Item
    <2>2. QED
      BY <1>9, <1>10, <2>1, FlushTaken, SyncTaken, Zenon
  <1>12. PICK s, l : s = Synced(Given(q)) /\ l = Handed(q, lst)
    OBVIOUS
  <1>13. LastAt(o, x, l) /\ NextBlock(o, lst, l)
    <2>1. q.ready = r.insync /\ q.counter = r.counter /\ q.samples = r.samples
      BY <1>11 DEF Controlled
    <2>2. QED
      BY <1>9, <1>12, <2>1, HandedBlock
  <1>14. s \in Reader /\ Held(o, s, x.from, x.idx) /\ s.parse = Idle(<< >>) /\ Given(q) \in Reader
    BY <1>11, <1>12 DEF Controlled
  <1>15. Place(o, it, n, en, c + t, s, k)
    <2>1. k < n => c + t < en[k + 1]
      <3>1. HAVE k < n
      <3>2. k + 1 \in 1 .. n /\ (k + 1) - 1 = k
        BY <1>6, <3>1
      <3>3. en[(k + 1) - 1] < en[k + 1]
        BY <1>1, <3>2, PieceFacts
      <3>4. QED
        BY <1>3, <3>2, <3>3
    <2>2. en[k] <= c + t
      BY <1>3, <1>6
    <2>3. QED
      BY <1>3, <1>6, <1>8, <1>14, <2>1, <2>2 DEF Place
  <1>16. At(o, it, n, en, c + t, s, l)
    BY <1>8, <1>13, <1>15 DEF At
  <1>17. s \in Readers(o, it, n, en, c + t, l)
    BY <1>14, <1>16 DEF Readers
  <1>18. QED
    BY <1>3, <1>8, <1>10, <1>12, <1>13, <1>14, <1>17 DEF ControlDone

\* Bytes of samples only come to a reader that has seen a resync.
LEMMA DataInsync ==
    \A o, it, n, en, c, r, lst, b :
        /\ World(o, it, n, en) /\ c \in Nat /\ r \in Readers(o, it, n, en, c, lst)
        /\ InItems(it, n, en, c, b) /\ Len(b) > 0
        => r.insync
  <1> TAKE o, it, n, en, c, r, lst, b
  <1>h. HAVE /\ World(o, it, n, en) /\ c \in Nat /\ r \in Readers(o, it, n, en, c, lst)
             /\ InItems(it, n, en, c, b) /\ Len(b) > 0
  <1>1. Pieces(it, n, en) /\ At(o, it, n, en, c, r, lst) /\ b \in Seq(Byte)
    BY <1>h DEF World, Written, Readers, InItems
  <1>2. PICK d : Place(o, it, n, en, c, r, d)
    BY <1>1 DEF At
  <1>3. /\ d \in 0 .. n /\ en[d] <= c /\ (d < n => c < en[d + 1])
        /\ Held(o, r, it[d].from, it[d].idx)
    BY <1>2 DEF Place
  <1>4. PICK k : Covers(en, n, k, c) /\ it[k].kind = "data"
    <2>1. 1 \in 1 .. Len(b) /\ (c + 1) - 1 = c
      BY <1>1, <1>h
    <2>2. QED
      BY <1>h, <2>1 DEF InItems
  <1>5. d = k - 1
    BY <1>1, <1>3, <1>4, <1>h, CoverOnly
  <1>6. DataAt(o, it[d], it[k])
    <2>1. k \in 1 .. n
      BY <1>4 DEF Covers
    <2>2. DataAt(o, it[k - 1], it[k])
      BY <1>4, <1>h, <2>1, DataItemAt
    <2>3. QED
      BY <1>5, <2>2
  <1>7. it[d].idx # 0
    BY <1>6 DEF DataAt, Next1
  <1>8. QED
    BY <1>3, <1>7 DEF Held

----------------------------------------------------------------------------
\* What the reader has done does not change with what comes later.

SameRun(p, o, f, l) == Run(p, f, l) = Run(o, f, l)

LEMMA RunKept ==
    ASSUME NEW S, NEW o \in Seq(S), NEW v, NEW p, p = Append(o, v),
           NEW f \in Nat, NEW l \in Nat, f <= l, l <= Len(o)
    PROVE  SameRun(p, o, f, l)
  <1>1. \A i \in 1 .. Len(o) : p[i] = o[i]
    OBVIOUS
  <1>2. PICK k \in Nat : k = l - f
    OBVIOUS
  <1>3. \A j \in 1 .. k : f + j \in 1 .. Len(o)
    BY <1>2
  <1>4. \A j \in 1 .. k : p[f + j].sample = o[f + j].sample
    BY <1>1, <1>3
  <1>5. QED
    BY <1>2, <1>4 DEF Run, SameRun

LEMMA HeldKept ==
    ASSUME NEW o \in Seq(Offers(Chan)), NEW v, NEW p, p = Append(o, v),
           NEW f \in Nat, NEW l \in Nat, f <= l, l <= Len(o), NEW r, Held(o, r, f, l)
    PROVE  Held(p, r, f, l)
  <1>0. SameRun(p, o, f, l)
    <2>1. PICK S : S = Offers(Chan)
      OBVIOUS
    <2>2. PICK u \in Seq(S) : u = o
      BY <2>1
    <2>3. p = Append(u, v) /\ l <= Len(u)
      BY <2>2
    <2>4. SameRun(p, u, f, l)
      BY <2>3, RunKept
    <2>5. QED
      BY <2>2, <2>4
  <1>1. Run(p, f, l) = Run(o, f, l)
    BY <1>0 DEF SameRun
  <1>2. After(Chan, p, l) = After(Chan, o, l)
    <2>1. l \in 0 .. Len(o)
      OBVIOUS
    <2>2. QED
      BY <2>1, AfterKept
  <1>3. QED
    BY <1>1, <1>2 DEF Held

LEMMA PlaceKept ==
    ASSUME NEW o \in Seq(Offers(Chan)), NEW v, NEW p, p = Append(o, v), NEW it, NEW n, NEW en,
           Written(o, it, n, en), NEW c, NEW r, NEW d, Place(o, it, n, en, c, r, d)
    PROVE  Place(p, it, n, en, c, r, d)
  <1>1. /\ d \in 0 .. n /\ en[d] <= c /\ (d < n => c < en[d + 1])
        /\ Held(o, r, it[d].from, it[d].idx)
        /\ c = en[d] => r.parse = Idle(<< >>)
        /\ c # en[d] => /\ d < n /\ it[d + 1].kind = "data"
                        /\ InSample(Chan, o, it[d + 1].idx, c - en[d], r.parse)
    BY DEF Place
  <1>2. n \in Nat /\ Len(o) \in Nat
    BY DEF Written, Pieces
  <1>3. Held(p, r, it[d].from, it[d].idx)
    <2>1. BlockOf(o, it[d])
      BY <1>1, ItemBlock
    <2>2. PICK f \in Nat, l \in Nat : f = it[d].from /\ l = it[d].idx /\ f <= l /\ l <= Len(o)
      BY <2>1 DEF BlockOf
    <2>3. Held(o, r, f, l)
      BY <1>1, <2>2
    <2>4. Held(p, r, f, l)
      BY <2>2, <2>3, HeldKept
    <2>5. QED
      BY <2>2, <2>4
  <1>4. ASSUME c # en[d]
        PROVE  InSample(Chan, p, it[d + 1].idx, c - en[d], r.parse)
    <2>1. d < n /\ it[d + 1].kind = "data" /\ d + 1 \in 0 .. n
      BY <1>1, <1>2, <1>4
    <2>2. BlockOf(o, it[d + 1])
      BY <2>1, ItemBlock
    <2>3. PICK i \in Nat : i = it[d + 1].idx /\ i > 0 /\ i <= Len(o)
      <3>1. it[d + 1].idx \in Nat /\ it[d + 1].idx # 0 /\ it[d + 1].idx <= Len(o)
        BY <2>1, <2>2 DEF BlockOf
      <3>2. QED
        BY <3>1
    <2>4. Codes(Chan, p, i) = Codes(Chan, o, i) /\ \A m \in Chan : Residual(Chan, p, i, m) = Residual(Chan, o, i, m)
      <3>1. i \in 0 .. Len(o)
        BY <1>2, <2>3
      <3>2. QED
        BY <2>3, <3>1, AfterKept
    <2>5. ASSUME NEW m \in Chan PROVE Prefix(Chan, p, i, m - 1) = Prefix(Chan, o, i, m - 1)
      <3>1. setup.channels \in 1 .. 14
        BY SetupFacts DEF Written
      <3>2. \A e \in 1 .. m - 1 : e \in Chan
        BY <3>1 DEF Chan
      <3>3. QED
        BY <2>4, <3>2 DEF Prefix
    <2>6. InSample(Chan, o, i, c - en[d], r.parse)
      BY <1>1, <1>4, <2>3
    <2>7. InSample(Chan, p, i, c - en[d], r.parse)
      BY <2>4, <2>5, <2>6 DEF InSample
    <2>8. QED
      BY <2>3, <2>7
  <1>5. QED
    BY <1>1, <1>3, <1>4 DEF Place

LEMMA LastKept ==
    ASSUME NEW o \in Seq(Offers(Chan)), NEW v, NEW p, p = Append(o, v), NEW x, BlockOf(o, x),
           NEW b, LastAt(o, x, b)
    PROVE  LastAt(p, x, b)
  <1>1. Len(o) \in Nat /\ Len(p) = Len(o) + 1 /\ \A i \in 1 .. Len(o) : p[i] = o[i]
    OBVIOUS
  <1>2. PICK f, l \in 0 .. Len(o) :
          /\ f <= l /\ b = Block(o, f, l) /\ \A i \in f + 1 .. l : o[i].accepted
          /\ x.kind = "flush" => f = x.from /\ l = x.idx
          /\ x.kind # "flush" => l <= x.from /\ \A i \in l + 1 .. x.from : ~o[i].accepted
    BY DEF LastAt
  <1>3. x.from \in Nat /\ x.from <= Len(o)
    <2>1. PICK f1 \in Nat, l1 \in Nat : f1 = x.from /\ l1 = x.idx /\ f1 <= l1 /\ l1 <= Len(o)
      BY DEF BlockOf
    <2>2. QED
      BY <1>1, <2>1
  <1>4. f \in Nat /\ l \in Nat /\ f <= l /\ l <= Len(o) /\ f \in 0 .. Len(p) /\ l \in 0 .. Len(p)
    BY <1>1, <1>2
  <1>5. Run(p, f, l) = Run(o, f, l)
    <2>1. PICK f1 \in Nat, l1 \in Nat : f1 = f /\ l1 = l /\ f1 <= l1 /\ l1 <= Len(o)
      BY <1>4
    <2>2. PICK S : S = Offers(Chan)
      OBVIOUS
    <2>3. PICK u \in Seq(S) : u = o
      BY <2>2
    <2>4. p = Append(u, v) /\ l1 <= Len(u)
      BY <2>1, <2>3
    <2>5. SameRun(p, u, f1, l1)
      BY <2>1, <2>4, RunKept
    <2>6. QED
      BY <2>1, <2>3, <2>5 DEF SameRun
  <1>6. b = Block(p, f, l)
    BY <1>2, <1>5 DEF Block
  <1>7. \A i \in f + 1 .. l : p[i].accepted
    <2>1. \A i \in f + 1 .. l : i \in 1 .. Len(o)
      BY <1>1, <1>4
    <2>2. QED
      BY <1>1, <1>2, <2>1
  <1>8. x.kind # "flush" => \A i \in l + 1 .. x.from : ~p[i].accepted
    <2>1. \A i \in l + 1 .. x.from : i \in 1 .. Len(o)
      BY <1>1, <1>3, <1>4
    <2>2. QED
      BY <1>1, <1>2, <2>1
  <1>9. QED
    BY <1>2, <1>4, <1>6, <1>7, <1>8 DEF LastAt

LEMMA AtKept ==
    \A o, v, p, it, n, en, c, r, b :
        Written(o, it, n, en) /\ p = Append(o, v) /\ At(o, it, n, en, c, r, b)
        => At(p, it, n, en, c, r, b)
  <1> TAKE o, v, p, it, n, en, c, r, b
  <1>h. HAVE Written(o, it, n, en) /\ p = Append(o, v) /\ At(o, it, n, en, c, r, b)
  <1>1. PICK d : Place(o, it, n, en, c, r, d) /\ LastAt(o, it[d], b)
    BY <1>h DEF At
  <1>0. PICK q : q = p
    OBVIOUS
  <1>2. PICK u \in Seq(Offers(Chan)) : u = o /\ q = p /\ q = Append(u, v)
    BY <1>0, <1>h DEF Written
  <1>3. Place(q, it, n, en, c, r, d)
    <2>1. Written(u, it, n, en) /\ Place(u, it, n, en, c, r, d)
      BY <1>1, <1>2, <1>h
    <2>2. QED
      BY <1>2, <2>1, PlaceKept
  <1>4. LastAt(q, it[d], b)
    <2>1. d \in 0 .. n
      BY <1>1 DEF Place
    <2>2. BlockOf(o, it[d])
      BY <1>h, <2>1, ItemBlock
    <2>3. PICK x : x = it[d]
      OBVIOUS
    <2>4. BlockOf(u, x) /\ LastAt(u, x, b)
      BY <1>1, <1>2, <2>2, <2>3
    <2>5. LastAt(q, x, b)
      BY <1>2, <2>4, LastKept
    <2>6. QED
      BY <2>3, <2>5
  <1>5. QED
    BY <1>2, <1>3, <1>4 DEF At

LEMMA AtGrows ==
    \A o, it, n, en, c, r, b, x, e, jt, ey :
        /\ Pieces(it, n, en) /\ c \in Nat /\ c <= en[n] /\ At(o, it, n, en, c, r, b)
        /\ Grown(it, n, en, x, e, jt, ey)
        => At(o, jt, n + 1, ey, c, r, b)
  <1> TAKE o, it, n, en, c, r, b, x, e, jt, ey
  <1>h. HAVE /\ Pieces(it, n, en) /\ c \in Nat /\ c <= en[n] /\ At(o, it, n, en, c, r, b)
             /\ Grown(it, n, en, x, e, jt, ey)
  <1>1. n \in Nat /\ en \in [Nat -> Nat]
    BY <1>h DEF Pieces
  <1>2. PICK d : Place(o, it, n, en, c, r, d) /\ LastAt(o, it[d], b)
    BY <1>h DEF At
  <1>3. /\ d \in 0 .. n /\ en[d] <= c /\ (d < n => c < en[d + 1])
        /\ Held(o, r, it[d].from, it[d].idx)
        /\ c = en[d] => r.parse = Idle(<< >>)
        /\ c # en[d] => /\ d < n /\ it[d + 1].kind = "data"
                        /\ InSample(Chan, o, it[d + 1].idx, c - en[d], r.parse)
    BY <1>2 DEF Place
  <1>4. d \in 0 .. n + 1 /\ d < n + 1 /\ d \in Nat /\ (d < n => d + 1 \in 0 .. n)
    <2>1. d \in 0 .. n
      BY <1>3
    <2>2. QED
      BY <1>1, <2>1
  <1>5. jt[d] = it[d] /\ ey[d] = en[d] /\ (d < n => jt[d + 1] = it[d + 1] /\ ey[d + 1] = en[d + 1])
    BY <1>3, <1>4, <1>h DEF Grown
  <1>6. c < ey[d + 1]
    <2>1. CASE d < n
      BY <1>3, <1>5, <2>1
    <2>2. CASE ~ (d < n)
      <3>1. d = n /\ n + 1 \in 1 .. n + 1 /\ (n + 1) - 1 = n /\ n \in 0 .. n
        <4>1. d \in Nat /\ n \in Nat /\ d < n + 1 /\ ~ (d < n)
          BY <1>1, <1>4, <2>2
        <4>2. QED
          BY <4>1
      <3>2. Pieces(jt, n + 1, ey) /\ ey[n] = en[n]
        BY <1>h, <3>1 DEF Grown
      <3>3. ey[(n + 1) - 1] \in Nat /\ ey[n + 1] \in Nat /\ ey[(n + 1) - 1] < ey[n + 1]
        BY <3>1, <3>2, PieceFacts
      <3>4. QED
        BY <1>h, <3>1, <3>2, <3>3
    <2>3. QED
      BY <2>1, <2>2
  <1>7. Place(o, jt, n + 1, ey, c, r, d)
    BY <1>3, <1>4, <1>5, <1>6 DEF Place
  <1>8. QED
    BY <1>2, <1>5, <1>7 DEF At

----------------------------------------------------------------------------
\* The codec's state: items 1 .. n were written, and the reader has taken c
\* of their bytes.

Base(it, n, en, c, s, ms, o, r, lst) ==
    /\ Written(o, it, n, en) /\ Layout(it, n, en, c, s) /\ MarksAt(it, n, en, c, ms)
    /\ Synced(r) \in Readers(o, it, n, en, c, lst)

Joined(it, n, en, c, s, ms, o, w, t, b, r, lst) ==
    /\ Base(it, n, en, c, s, ms, o, r, lst)
    /\ WriterAt(Chan, setup.period, o, it[n], w, t, b)

LEMMA BaseKept ==
    \A it, n, en, c, s, ms, o, r, lst, v, p :
        /\ Base(it, n, en, c, s, ms, o, r, lst)
        /\ v \in Offers(Chan) /\ p = Append(o, v) /\ Len(p) <= 255
        => Base(it, n, en, c, s, ms, p, r, lst)
  <1> TAKE it, n, en, c, s, ms, o, r, lst, v, p
  <1>h. HAVE /\ Base(it, n, en, c, s, ms, o, r, lst)
             /\ v \in Offers(Chan) /\ p = Append(o, v) /\ Len(p) <= 255
  <1>1. /\ Written(o, it, n, en) /\ Layout(it, n, en, c, s) /\ MarksAt(it, n, en, c, ms)
        /\ Synced(r) \in Reader /\ At(o, it, n, en, c, Synced(r), lst)
    BY <1>h DEF Base, Readers
  <1>2. Written(p, it, n, en)
    <2>1. PICK u \in Seq(Offers(Chan)), x \in Offers(Chan) : u = o /\ x = v
      BY <1>1, <1>h DEF Written
    <2>2. Pieces(it, n, en) /\ Chain(Chan, setup.period, u, it, n) /\ p = Append(u, x)
      BY <1>1, <1>h, <2>1 DEF Written
    <2>3. Chain(Chan, setup.period, p, it, n)
      BY <2>2, ChainKept
    <2>4. p \in Seq(Offers(Chan))
      <3>1. PICK S : S = Offers(Chan)
        OBVIOUS
      <3>2. u \in Seq(S) /\ x \in S
        BY <3>1
      <3>3. Append(u, x) \in Seq(S)
        BY <3>2
      <3>4. QED
        BY <2>2, <3>1, <3>3
    <2>5. QED
      BY <1>1, <1>h, <2>2, <2>3, <2>4 DEF Written
  <1>3. At(p, it, n, en, c, Synced(r), lst)
    BY <1>1, <1>h, AtKept, Zenon
  <1>4. QED
    BY <1>1, <1>2, <1>3 DEF Base, Readers

\* The marks when item x is written to the end of the stream s.
MarksPut(ms, s, x, mt) ==
    \/ x.kind = "data" /\ mt = ms
    \/ /\ x.kind # "data" /\ ms \in Seq(Mark)
       /\ mt = Append(ms, [at |-> Len(s), size |-> Len(x.bytes)])

LEMMA BaseGrows ==
    \A it, n, en, c, s, ms, o, r, lst, w, t, b, x, mt, z :
        /\ Base(it, n, en, c, s, ms, o, r, lst)
        /\ Follows1(Chan, setup.period, o, it[n], x, w, t, b) /\ Len(x.bytes) \in Nat \ {0}
        /\ MarksPut(ms, s, x, mt) /\ z = s \o x.bytes
        => \E jt, ny, ey : Joined(jt, ny, ey, c, z, mt, o, w, t, b, r, lst)
  <1> TAKE it, n, en, c, s, ms, o, r, lst, w, t, b, x, mt, z
  <1>h. HAVE
        /\ Base(it, n, en, c, s, ms, o, r, lst)
        /\ Follows1(Chan, setup.period, o, it[n], x, w, t, b) /\ Len(x.bytes) \in Nat \ {0}
        /\ MarksPut(ms, s, x, mt) /\ z = s \o x.bytes
  <1>1. /\ Written(o, it, n, en) /\ Layout(it, n, en, c, s) /\ MarksAt(it, n, en, c, ms)
        /\ Synced(r) \in Reader /\ At(o, it, n, en, c, Synced(r), lst)
    BY <1>h DEF Base, Readers
  <1>2. /\ Pieces(it, n, en) /\ n \in Nat /\ en \in [Nat -> Nat]
        /\ c \in Nat /\ s \in Seq(Byte) /\ Len(s) \in Nat /\ c + Len(s) = en[n]
    <2>1. Pieces(it, n, en) /\ c \in Nat /\ s \in Seq(Byte) /\ c + Len(s) = en[n]
      BY <1>1 DEF Layout
    <2>2. n \in Nat /\ en \in [Nat -> Nat]
      BY <2>1 DEF Pieces
    <2>3. Len(s) \in Nat
      BY <2>1
    <2>4. QED
      BY <2>1, <2>2, <2>3
  <1>3. /\ x \in Item /\ Linked(Chan, setup.period, o, it[n], x)
        /\ WriterAt(Chan, setup.period, o, x, w, t, b)
    BY <1>h DEF Follows1
  <1>0. PICK l \in Nat \ {0} : l = Len(x.bytes)
    BY <1>h
  <1>4. PICK e, jt, ey :
          /\ l \in Nat \ {0} /\ l = Len(x.bytes)
          /\ e = en[n] + l /\ jt = Put(it, n, x) /\ ey = Put(en, n, e)
    BY <1>0
  <1>5. More(it, n, en, x, l, e, jt, ey)
    BY <1>2, <1>3, <1>4 DEF More
  <1>6. Grown(it, n, en, x, e, jt, ey)
    BY <1>5, PiecesGrow, Zenon
  <1>7. Layout(jt, n + 1, ey, c, z)
    BY <1>1, <1>5, <1>h, LayoutGrows, Zenon
  <1>8. jt[n + 1] = x /\ Pieces(jt, n + 1, ey) /\ \A k \in 0 .. n : jt[k] = it[k] /\ ey[k] = en[k]
    BY <1>6 DEF Grown
  <1>9. MarksAt(jt, n + 1, ey, c, mt)
    <2>1. CASE x.kind = "data" /\ mt = ms
      <3>1. jt[n + 1].kind = "data"
        BY <1>8, <2>1
      <3>2. /\ MarksAt(it, n, en, c, ms) /\ n \in Nat /\ jt[n + 1].kind = "data"
            /\ \A k \in 0 .. n : jt[k] = it[k] /\ ey[k] = en[k]
        BY <1>1, <1>2, <1>8, <3>1
      <3>3. MarksAt(jt, n + 1, ey, c, ms)
        BY <3>2, MarksData
      <3>4. QED
        BY <2>1, <3>3
    <2>2. CASE /\ x.kind # "data" /\ ms \in Seq(Mark)
               /\ mt = Append(ms, [at |-> Len(s), size |-> Len(x.bytes)])
      <3>1. PICK m \in Mark : m = [at |-> Len(s), size |-> Len(x.bytes)]
        BY <1>2, <1>4 DEF Mark
      <3>2. m.at = Len(s) /\ m.size = Len(x.bytes) /\ mt = Append(ms, m)
        BY <2>2, <3>1
      <3>3. en[n] = c + m.at /\ Len(jt[n + 1].bytes) = m.size /\ jt[n + 1].kind # "data"
        BY <1>2, <1>8, <2>2, <3>2
      <3>4. Marking(it, n, en, c, ms, jt, ey, m, mt)
        <4>1. MarksAt(it, n, en, c, ms) /\ n \in Nat /\ jt[n + 1].kind # "data"
          BY <1>1, <1>2, <3>3
        <4>2. \A k \in 0 .. n : jt[k] = it[k] /\ ey[k] = en[k]
          BY <1>8
        <4>3. ms \in Seq(Mark) /\ m \in Mark /\ mt = Append(ms, m)
          BY <2>2, <3>2
        <4>4. QED
          BY <3>3, <4>1, <4>2, <4>3 DEF Marking
      <3>5. QED
        BY <3>4, MarksControl
    <2>3. QED
      BY <1>h, <2>1, <2>2 DEF MarksPut
  <1>10. Written(o, jt, n + 1, ey)
    <2>1. Chain(Chan, setup.period, o, it, n)
      BY <1>1 DEF Written
    <2>2. Chain(Chan, setup.period, o, jt, n + 1)
      BY <1>2, <1>3, <1>6, <2>1, ChainGrows
    <2>3. QED
      BY <1>1, <1>8, <2>2 DEF Written
  <1>11. At(o, jt, n + 1, ey, c, Synced(r), lst)
    <2>1. c <= en[n]
      <3>1. PICK k \in Nat : k = Len(s)
        BY <1>2
      <3>2. QED
        BY <1>2, <3>1
    <2>2. QED
      BY <1>1, <1>2, <1>6, <2>1, AtGrows, Zenon
  <1>12. Joined(jt, n + 1, ey, c, z, mt, o, w, t, b, r, lst)
    BY <1>1, <1>3, <1>7, <1>8, <1>9, <1>10, <1>11 DEF Joined, Base, Readers
  <1>13. QED
    BY <1>12

\* Item x follows the items written, and the stream and the marks with it.
Growth(it, n, en, c, s, ms, o, r, lst, y, w, t, b, x, mt, z) ==
    /\ Base(it, n, en, c, s, ms, o, r, lst) /\ y = it[n]
    /\ Follows1(Chan, setup.period, o, y, x, w, t, b) /\ Len(x.bytes) \in Nat \ {0}
    /\ MarksPut(ms, s, x, mt) /\ z = s \o x.bytes

SomeJoined(c, s, ms, o, w, t, b, r, lst) ==
    \E it, n, en : Joined(it, n, en, c, s, ms, o, w, t, b, r, lst)

LEMMA Growing ==
    \A it, n, en, c, s, ms, o, r, lst, y, w, t, b, x, mt, z :
        Growth(it, n, en, c, s, ms, o, r, lst, y, w, t, b, x, mt, z)
        => SomeJoined(c, z, mt, o, w, t, b, r, lst)
  <1> TAKE it, n, en, c, s, ms, o, r, lst, y, w, t, b, x, mt, z
  <1>h. HAVE Growth(it, n, en, c, s, ms, o, r, lst, y, w, t, b, x, mt, z)
  <1>1. /\ Base(it, n, en, c, s, ms, o, r, lst)
        /\ Follows1(Chan, setup.period, o, it[n], x, w, t, b) /\ Len(x.bytes) \in Nat \ {0}
        /\ MarksPut(ms, s, x, mt) /\ z = s \o x.bytes
    <2>1. Base(it, n, en, c, s, ms, o, r, lst) /\ y = it[n]
      BY <1>h DEF Growth
    <2>2. Follows1(Chan, setup.period, o, y, x, w, t, b) /\ Len(x.bytes) \in Nat \ {0}
      BY <1>h DEF Growth
    <2>3. MarksPut(ms, s, x, mt) /\ z = s \o x.bytes
      BY <1>h DEF Growth
    <2>4. QED
      BY <2>1, <2>2, <2>3
  <1>2. \E jt, ny, ey : Joined(jt, ny, ey, c, z, mt, o, w, t, b, r, lst)
    BY <1>1, BaseGrows, ZenonT(60)
  <1>3. QED
    BY <1>2 DEF SomeJoined

\* The writer is where it was after the last item.
LEMMA JoinedReady ==
    \A it, n, en, c, s, ms, o, w, t, b, r, lst :
        Joined(it, n, en, c, s, ms, o, w, t, b, r, lst) /\ t \in Nat
        => Ready(Chan, setup.period, o, it[n], w, t, b)
  <1> TAKE it, n, en, c, s, ms, o, w, t, b, r, lst
  <1>h. HAVE Joined(it, n, en, c, s, ms, o, w, t, b, r, lst) /\ t \in Nat
  <1>1. Written(o, it, n, en) /\ WriterAt(Chan, setup.period, o, it[n], w, t, b)
    BY <1>h DEF Joined, Base
  <1>2. setup \in Setups /\ Chain(Chan, setup.period, o, it, n) /\ n \in Nat
    BY <1>1 DEF Written, Pieces
  <1>3. setup.period \in 1 .. 255
    BY <1>2, SetupFacts
  <1>4. n \in 0 .. n
    BY <1>2
  <1>5. PICK y : y = it[n] /\ BlockOf(o, y)
    BY <1>1, <1>4, ItemBlock
  <1>6. PICK P \in Nat \ {0}, f \in Nat, l \in Nat :
          /\ P = setup.period /\ f = y.from /\ l = y.idx /\ f <= l /\ (l # 0 => f < l)
          /\ \A i \in f + 1 .. l : o[i].accepted
    <2>1. PICK P \in Nat \ {0} : P = setup.period
      BY <1>3
    <2>2. PICK f \in Nat, l \in Nat :
            /\ f = y.from /\ l = y.idx /\ f <= l /\ (l # 0 => f < l)
            /\ \A i \in f + 1 .. l : o[i].accepted
      BY <1>5 DEF BlockOf
    <2>3. QED
      BY <2>1, <2>2
  <1>7. l <= f + P + 1
    <2>1. CASE n = 0
      <3>1. l = 0
        BY <1>2, <1>5, <1>6, <2>1 DEF Chain
      <3>2. QED
        BY <3>1
    <2>2. CASE n # 0
      <3>1. n \in 1 .. n
        BY <1>2, <2>2
      <3>2. PICK x : x = it[n - 1] /\ Linked(Chan, setup.period, o, x, y)
        BY <1>2, <1>5, <3>1 DEF Chain
      <3>3. QED
        BY <1>6, <3>2 DEF Linked
    <2>3. QED
      BY <2>1, <2>2
  <1>8. f = l => l = 0
    BY <1>6
  <1>9. QED
    BY <1>1, <1>5, <1>6, <1>7, <1>8, <1>h DEF Ready, BlockOf

\* A sample's codes are at least a byte.
LEMMA CodesThere ==
    ASSUME setup \in Setups, wccs \in [Chan -> ChState], NEW v \in [Chan -> Int16]
    PROVE  Len(FlattenSeq([c \in Chan |-> Code(Dod(wccs[c], v[c]))])) > 0
  <1> DEFINE s == [c \in Chan |-> Code(Dod(wccs[c], v[c]))]
  <1>1. PICK n \in 1 .. 14 : n = setup.channels /\ Chan = 1 .. n
    BY SetupFacts DEF Chan
  <1>2. ASSUME NEW c \in 1 .. n PROVE s[c] \in Seq(Byte) /\ Len(s[c]) > 0
    <2>1. c \in Chan /\ wccs[c] \in ChState /\ v[c] \in Int16
      BY <1>1
    <2>2. Dod(wccs[c], v[c]) \in Int16
      BY <2>1, DodType
    <2>3. s[c] = Code(Dod(wccs[c], v[c]))
      BY <2>1
    <2>4. QED
      BY <2>2, <2>3, CodeSize
  <1>3. s \in [1 .. n -> Seq(Byte)]
    <2>1. s = [c \in 1 .. n |-> s[c]]
      BY <1>1
    <2> HIDE DEF s
    <2>2. QED
      BY <1>2, <2>1
  <1> HIDE DEF s
  <1>4. s \in Seq(Seq(Byte)) /\ Len(s) = n
    BY <1>3, FunctionSeq
  <1>5. PICK cut : CutsOf(s, cut)
    <2>1. Len(s) # 0
      BY <1>4
    <2>2. QED
      BY <1>4, <2>1, FlattenCuts
  <1>6. 1 \in 1 .. n /\ Len(s[1]) \in Nat /\ Len(s[1]) > 0
    <2>1. 1 \in 1 .. n
      OBVIOUS
    <2>2. QED
      BY <1>2, <2>1
  <1>7. 1 \in 1 .. Len(s) /\ 1 \in 1 .. Len(s[1]) /\ cut[0] = 0
    BY <1>4, <1>5, <1>6 DEF CutsOf
  <1>8. cut[1 - 1] + 1 \in 1 .. Len(FlattenSeq(s))
    BY <1>5, <1>7 DEF CutsOf
  <1>9. PICK k : k = Len(FlattenSeq(s))
    OBVIOUS
  <1>10. 1 \in 1 .. k
    BY <1>7, <1>8, <1>9
  <1>11. k \in Nat
    <2>1. FlattenSeq(s) \in Seq(Byte)
      <3>1. Len(s) # 0
        BY <1>4
      <3>2. QED
        BY <1>4, <3>1, FlattenSize
    <2>2. QED
      BY <1>9, <2>1
  <1>12. QED
    BY <1>9, <1>10, <1>11 DEF s

\* A sample is offered.
LEMMA PushLink ==
    ASSUME CodecInv, NEW v \in setup.vectors, pushSample(v), Len(offered) < MaxOffered,
           Len(marks) < setup.markRing - 1,
           NEW it, NEW n, NEW en, NEW c,
           Joined(it, n, en, c, stream, marks, offered, wccs, till, backpressure, reader, last)
    PROVE  SomeJoined(c, stream', marks', offered', wccs', till', backpressure', reader, last)
  <1> DEFINE refused == backpressure \/ Free <= Reserve
             sync == ~refused /\ till = 0
             ccs == [m \in Chan |-> [sample |-> v[m], delta |-> Delta(wccs[m], v[m])]]
             codes == FlattenSeq([m \in Chan |-> Code(Dod(wccs[m], v[m]))])
             o == offered
             p == Append(o, [sample |-> v, accepted |-> ~refused])
  <1>1. /\ wccs' = ccs /\ backpressure' = refused
        /\ till' = IF backpressure THEN till
                   ELSE IF refused THEN 0
                   ELSE IF sync THEN setup.period ELSE till - 1
        /\ stream' = IF refused THEN stream
                     ELSE IF sync THEN stream \o ResyncBytes(ccs) ELSE stream \o codes
        /\ marks' = IF sync THEN Marked(ResyncSize) ELSE marks
        /\ offered' = p
    BY DEF pushSample
  <1>2. /\ setup \in Setups /\ wccs \in [Chan -> ChState] /\ stream \in Seq(Byte)
        /\ MarksOK(marks, stream) /\ till \in 0 .. setup.period /\ backpressure \in BOOLEAN
        /\ offered \in Seq(Offers(Chan)) /\ Len(offered) \in Nat
    BY DEF CodecInv, WriterInv, Sample, Offers
  <1>3. /\ setup.channels \in 1 .. 14 /\ setup.period \in 1 .. 255 /\ v \in [Chan -> Int16]
    BY <1>2, SetupFacts
  <1>4. ccs \in [Chan -> ChState]
    <2>1. ASSUME NEW m \in Chan
          PROVE  [sample |-> v[m], delta |-> Delta(wccs[m], v[m])] \in ChState
      <3>1. v[m] \in Int16 /\ wccs[m] \in ChState
        BY <1>2, <1>3
      <3>2. Delta(wccs[m], v[m]) \in Int16
        BY <3>1, DodType
      <3>3. QED
        BY <3>1, <3>2 DEF ChState
    <2>2. QED
      BY <2>1
  <1>5. refused \in BOOLEAN
    OBVIOUS
  <1>6. Len(offered) \in Byte /\ Len(p) <= 255
    <2>1. PICK k \in Nat : k = Len(offered) /\ k < 255
      BY <1>2, MaxOfferedAssumption
    <2>2. Len(p) = k + 1
      BY <1>2, <2>1
    <2>3. QED
      BY <2>1, <2>2 DEF Byte
  <1>7. PICK y : y = it[n]
    OBVIOUS
  <1>8. Ready(Chan, setup.period, o, y, wccs, till, backpressure)
    <2>1. till \in Nat
      BY <1>2, <1>3
    <2>2. QED
      BY <1>7, <2>1, JoinedReady, Zenon
  <1>9. \A a \in BOOLEAN : a = ~refused => Taken(Chan, o, v, a, p, wccs, ccs)
    <2>1. wccs = After(Chan, o, Len(o))
      BY <1>8 DEF Ready, WriterAt
    <2>2. QED
      BY <1>2, <1>3, <2>1 DEF Taken
  <1>10. Base(it, n, en, c, stream, marks, p, reader, last)
    <2>1. Base(it, n, en, c, stream, marks, o, reader, last)
      BY DEF Joined
    <2>2. [sample |-> v, accepted |-> ~refused] \in Offers(Chan)
      BY <1>3, <1>5 DEF Offers
    <2>0. PICK q : q = p
      OBVIOUS
    <2>3. PICK a \in Offers(Chan) : a = [sample |-> v, accepted |-> ~refused] /\ q = p
      BY <2>0, <2>2
    <2>4. /\ Base(it, n, en, c, stream, marks, o, reader, last)
          /\ a \in Offers(Chan) /\ q = Append(o, a) /\ Len(q) <= 255
      BY <1>6, <2>1, <2>3
    <2>5. Base(it, n, en, c, stream, marks, q, reader, last)
      BY <2>4, BaseKept
    <2>6. QED
      BY <2>3, <2>5
  <1> HIDE DEF refused, ccs, codes, p
  <1>11. CASE refused
    <2>1. stream' = stream /\ marks' = marks /\ offered' = p /\ wccs' = ccs
      BY <1>1, <1>11
    <2>2. backpressure' = TRUE
      BY <1>1, <1>5, <1>11
    <2>3. till' = 0
      <3>1. backpressure => till = 0
        BY <1>8 DEF Ready, WriterAt
      <3>2. QED
        BY <1>1, <1>11, <3>1
    <2>4. FALSE = ~refused /\ FALSE \in BOOLEAN
      BY <1>5, <1>11
    <2>5. Taken(Chan, o, v, FALSE, p, wccs, ccs)
      BY <1>9, <2>4
    <2>6. WriterAt(Chan, setup.period, p, y, ccs, 0, TRUE)
      BY <1>8, <2>5, RefusedAt, Zenon
    <2>7. Joined(it, n, en, c, stream', marks', offered', wccs', till', backpressure', reader, last)
      BY <1>7, <1>10, <2>1, <2>2, <2>3, <2>6 DEF Joined
    <2>8. QED
      BY <2>7 DEF SomeJoined
  <1>12. CASE ~refused
    <2>1. backpressure' = FALSE /\ offered' = p /\ wccs' = ccs
      BY <1>1, <1>5, <1>12
    <2>2. Taken(Chan, o, v, TRUE, p, wccs, ccs)
      <3>1. TRUE = ~refused /\ TRUE \in BOOLEAN
        BY <1>5, <1>12
      <3>2. QED
        BY <1>9, <3>1
    <2>3. CASE till = 0
      <3>1. PICK w \in Seq(Byte) : w = ResyncBytes(ccs) /\ Len(w) = ResyncSize
        BY <1>2, <1>4, <1>6, ResyncBytesSize
      <3>2. stream' = stream \o w /\ marks' = Marked(ResyncSize) /\ till' = setup.period
        BY <1>1, <1>12, <2>3, <3>1 DEF refused
      <3>3. PICK x : x = [kind |-> "sync", from |-> Len(o), idx |-> Len(o) + 1, bytes |-> w]
        OBVIOUS
      <3>4. x.bytes = w /\ x.kind = "sync"
        BY <3>3
      <3>5. SyncItem(Chan, o, ccs, x)
        <4>1. w = <<Resync, 0, 0, 0, Len(o)>>
                    \o FlattenSeq([m \in Chan |-> Bytes16(ccs[m].sample) \o Bytes16(ccs[m].delta)])
          BY <3>1 DEF ResyncBytes
        <4>2. QED
          BY <3>3, <3>4, <4>1 DEF SyncItem
      <3>6. Follows1(Chan, setup.period, p, y, x, ccs, setup.period, FALSE)
        BY <1>8, <2>2, <3>5, SyncFollows, Zenon
      <3>7. Len(x.bytes) \in Nat \ {0}
        <4>1. PICK m \in Nat : m = setup.channels
          BY <1>3
        <4>2. Len(w) = 5 + 4 * m
          BY <3>1, <4>1 DEF ResyncSize
        <4>3. QED
          BY <3>4, <4>2
      <3>8. MarksPut(marks, stream, x, marks')
        <4>1. marks' = Append(marks, [at |-> Len(stream), size |-> ResyncSize])
          BY <3>2 DEF Marked
        <4>2. marks \in Seq(Mark)
          BY <1>2 DEF MarksOK
        <4>3. x.kind # "data"
          BY <3>4
        <4>4. QED
          BY <3>1, <3>4, <4>1, <4>2, <4>3 DEF MarksPut
      <3>9. stream' = stream \o x.bytes
        BY <3>2, <3>4
      <3>10. SomeJoined(c, stream', marks', p, ccs, setup.period, FALSE, reader, last)
        <4>1. Growth(it, n, en, c, stream, marks, p, reader, last, y, ccs, setup.period, FALSE, x,
                     marks', stream')
          BY <1>7, <1>10, <3>6, <3>7, <3>8, <3>9 DEF Growth
        <4>2. QED
          BY <4>1, Growing, Zenon
      <3>11. QED
        BY <2>1, <3>2, <3>10
    <2>4. CASE till # 0
      <3>1. PICK w \in Seq(Byte) : w = codes
        BY <1>2, <1>3, CodesSize DEF codes
      <3>2. stream' = stream \o w /\ marks' = marks /\ till' = till - 1
        BY <1>1, <1>12, <2>4, <3>1 DEF refused
      <3>3. PICK x : x = [kind |-> "data", from |-> y.from, idx |-> y.idx + 1, bytes |-> w]
        OBVIOUS
      <3>4. x.bytes = w /\ x.kind = "data"
        BY <3>3
      <3>5. DataItem(Chan, v, y, wccs, x)
        BY <3>1, <3>3, <3>4 DEF DataItem, codes
      <3>6. Follows1(Chan, setup.period, p, y, x, ccs, till - 1, FALSE)
        BY <1>8, <2>2, <2>4, <3>5, DataFollows, Zenon
      <3>7. Len(x.bytes) \in Nat \ {0}
        <4>1. Len(codes) > 0
          BY <1>2, <1>3, CodesThere DEF codes
        <4>2. Len(w) \in Nat /\ Len(w) > 0
          BY <3>1, <4>1
        <4>3. QED
          BY <3>4, <4>2
      <3>8. MarksPut(marks, stream, x, marks')
        BY <3>2, <3>4 DEF MarksPut
      <3>9. stream' = stream \o x.bytes
        BY <3>2, <3>4
      <3>10. SomeJoined(c, stream', marks', p, ccs, till - 1, FALSE, reader, last)
        <4>1. Growth(it, n, en, c, stream, marks, p, reader, last, y, ccs, till - 1, FALSE, x,
                     marks', stream')
          BY <1>7, <1>10, <3>6, <3>7, <3>8, <3>9 DEF Growth
        <4>2. QED
          BY <4>1, Growing, Zenon
      <3>11. QED
        BY <2>1, <3>2, <3>10
    <2>5. QED
      BY <2>3, <2>4
  <1>13. QED
    BY <1>11, <1>12

\* A flush.
LEMMA FlushLink ==
    ASSUME CodecInv, flush, Len(marks) < setup.markRing - 1,
           NEW it, NEW n, NEW en, NEW c,
           Joined(it, n, en, c, stream, marks, offered, wccs, till, backpressure, reader, last)
    PROVE  SomeJoined(c, stream', marks', offered, wccs', till', backpressure', reader, last)
  <1>1. /\ stream' = Append(stream, FlushCode) /\ marks' = Marked(1) /\ till' = 0
        /\ wccs' = wccs /\ backpressure' = backpressure
    BY DEF flush
  <1>2. /\ setup \in Setups /\ stream \in Seq(Byte) /\ marks \in Seq(Mark) /\ till \in 0 .. setup.period
    BY DEF CodecInv, WriterInv, MarksOK
  <1>3. till \in Nat
    <2>1. setup.period \in 1 .. 255
      BY <1>2, SetupFacts
    <2>2. QED
      BY <1>2, <2>1
  <1>4. PICK y : y = it[n]
    OBVIOUS
  <1>5. Ready(Chan, setup.period, offered, y, wccs, till, backpressure)
    BY <1>3, <1>4, JoinedReady, Zenon
  <1>6. PICK w \in Seq(Byte) : w = <<FlushCode>> /\ Len(w) = 1
    <2>1. PICK f \in Byte : f = FlushCode
      BY DEF FlushCode, Byte
    <2>2. <<f>> \in Seq(Byte) /\ Len(<<f>>) = 1
      OBVIOUS
    <2>3. QED
      BY <2>1, <2>2
  <1>7. stream' = stream \o w
    BY <1>1, <1>2, <1>6
  <1>8. PICK x : x = [kind |-> "flush", from |-> y.from, idx |-> y.idx, bytes |-> w]
    OBVIOUS
  <1>9. x.bytes = w /\ x.kind = "flush"
    BY <1>8
  <1>10. FlushItem(y, x)
    BY <1>6, <1>8, <1>9 DEF FlushItem
  <1>11. Follows1(Chan, setup.period, offered, y, x, wccs, 0, backpressure)
    BY <1>5, <1>10, FlushFollows, Zenon
  <1>12. Len(x.bytes) \in Nat \ {0}
    BY <1>6, <1>9
  <1>13. MarksPut(marks, stream, x, marks')
    <2>1. marks' = Append(marks, [at |-> Len(stream), size |-> 1])
      BY <1>1 DEF Marked
    <2>2. QED
      BY <1>2, <1>6, <1>9, <2>1 DEF MarksPut
  <1>14. Base(it, n, en, c, stream, marks, offered, reader, last)
    BY DEF Joined
  <1>15. SomeJoined(c, stream', marks', offered, wccs, 0, backpressure, reader, last)
    <2>1. stream' = stream \o x.bytes
      BY <1>7, <1>9
    <2>2. Growth(it, n, en, c, stream, marks, offered, reader, last, y, wccs, 0, backpressure, x,
                 marks', stream')
      BY <1>4, <1>11, <1>12, <1>13, <1>14, <2>1 DEF Growth
    <2>3. QED
      BY <2>2, Growing, Zenon
  <1>16. QED
    BY <1>1, <1>15

----------------------------------------------------------------------------
\* A chunk that is taken leaves the rest of the stream, and its marks.
LEMMA ChunkTaken ==
    ASSUME CodecInv, readNext, NEW it, NEW n, NEW en, NEW c,
           Layout(it, n, en, c, stream), MarksAt(it, n, en, c, marks)
    PROVE  Layout(it, n, en, c + ChunkSize, stream') /\ MarksAt(it, n, en, c + ChunkSize, marks')
  <1>1. /\ ChunkSize \in 0 .. Len(stream) /\ MarksOK(Left, stream)
        /\ \A i \in 1 .. Len(Left) : ChunkSize <= Left[i].at
    BY ChunkBound DEF CodecInv
  <1>2. /\ stream' = SubSeq(stream, ChunkSize + 1, Len(stream))
        /\ marks' = [i \in DOMAIN Left |-> [Left[i] EXCEPT !.at = @ - ChunkSize]]
    BY DEF readNext, Left
  <1>3. PICK t : t = ChunkSize
    OBVIOUS
  <1>4. PICK z, mt : z = stream' /\ mt = marks'
    OBVIOUS
  <1>5. Layout(it, n, en, c + t, z)
    <2>1. Layout(it, n, en, c, stream) /\ t \in 0 .. Len(stream) /\ z = SubSeq(stream, t + 1, Len(stream))
      BY <1>1, <1>2, <1>3, <1>4
    <2>2. QED
      BY <2>1, LayoutTake
  <1>6. /\ n \in Nat /\ en \in [Nat -> Nat] /\ c \in Nat /\ Pieces(it, n, en)
    BY DEF Layout, Pieces
  <1>7. marks \in Seq(Mark) /\ Len(marks) \in Nat
    BY DEF CodecInv, WriterInv, MarksOK
  <1>8. t \in Nat
    <2>1. stream \in Seq(Byte)
      BY DEF Layout
    <2>2. QED
      BY <1>1, <1>3, <2>1
  <1>9. PICK left \in Seq(Mark) : left = Left
    BY <1>1 DEF MarksOK
  <1>10. /\ \A i \in 1 .. Len(left) : \E j \in 1 .. Len(marks) : left[i] = marks[j]
         /\ \A j \in 1 .. Len(marks) : \/ \E i \in 1 .. Len(left) : left[i] = marks[j]
                                       \/ \A k \in 1 .. n : en[k - 1] = c + marks[j].at => en[k] <= c + t
    <2>1. CASE ~AtMark
      BY <1>9, <2>1 DEF Left
    <2>2. CASE AtMark
      <3>1. marks # << >> /\ marks[1].at = 0 /\ Len(marks) # 0
        BY <1>7, <2>2 DEF AtMark
      <3>2. ChunkSize = marks[1].size /\ left = Tail(marks)
        BY <1>9, <2>2 DEF ChunkSize, Left
      <3>3. Len(left) = Len(marks) - 1
        BY <1>7, <3>1, <3>2
      <3>4. ASSUME NEW i \in 1 .. Len(left)
            PROVE  i + 1 \in 1 .. Len(marks) /\ left[i] = marks[i + 1]
        BY <1>7, <3>1, <3>2, <3>3
      <3>5. PICK k0 : ControlItem(it, n, en, c, k0, t, SubSeq(stream, 1, t))
        <4>1. /\ Layout(it, n, en, c, stream) /\ MarksAt(it, n, en, c, marks)
              /\ Len(marks) # 0 /\ Len(marks) \in Nat /\ marks[1].at = 0 /\ marks[1].size = t
              /\ t \in 0 .. Len(stream)
          BY <1>1, <1>3, <1>7, <3>1, <3>2
        <4>2. QED
          BY <4>1, ControlItems
      <3>6. k0 \in 1 .. n /\ en[k0 - 1] = c /\ en[k0] = c + t
        BY <3>5 DEF ControlItem
      <3>7. ASSUME NEW j \in 1 .. Len(marks), j # 1
            PROVE  \E i \in 1 .. Len(left) : left[i] = marks[j]
        <4>1. j - 1 \in 1 .. Len(left) /\ (j - 1) + 1 = j
          BY <1>7, <3>3, <3>7
        <4>2. left[j - 1] = marks[j]
          BY <3>4, <4>1
        <4>3. QED
          BY <4>1, <4>2
      <3>8. ASSUME NEW k \in 1 .. n, en[k - 1] = c + marks[1].at PROVE en[k] <= c + t
        <4>1. en[k - 1] = c
          BY <1>6, <3>1, <3>8
        <4>2. k - 1 \in 0 .. n /\ k0 - 1 \in 0 .. n
          BY <1>6, <3>6
        <4>3. k - 1 = k0 - 1
          <5>1. ~(k - 1 < k0 - 1) /\ ~(k0 - 1 < k - 1)
            <6>1. \A a, b \in 0 .. n : a < b => en[a] < en[b]
              BY <1>6 DEF Pieces
            <6>2. k - 1 < k0 - 1 => en[k - 1] < en[k0 - 1]
              BY <4>2, <6>1
            <6>3. k0 - 1 < k - 1 => en[k0 - 1] < en[k - 1]
              BY <4>2, <6>1
            <6>4. QED
              BY <1>6, <3>6, <4>1, <6>2, <6>3
          <5>2. QED
            BY <1>6, <3>6, <4>2, <5>1
        <4>4. k = k0
          BY <1>6, <3>6, <4>3
        <4>5. QED
          BY <1>6, <1>8, <3>6, <4>4
      <3>9. ASSUME NEW j \in 1 .. Len(marks)
            PROVE  \/ \E i \in 1 .. Len(left) : left[i] = marks[j]
                   \/ \A k \in 1 .. n : en[k - 1] = c + marks[j].at => en[k] <= c + t
        BY <3>7, <3>8
      <3>10. QED
        BY <3>4, <3>9
    <2>3. QED
      BY <2>1, <2>2
  <1>11. MarksAt(it, n, en, c + t, mt)
    <2>1. /\ MarksAt(it, n, en, c, marks) /\ n \in Nat /\ en \in [Nat -> Nat] /\ c \in Nat /\ t \in Nat
          /\ left \in Seq(Mark) /\ mt = [i \in DOMAIN left |-> [left[i] EXCEPT !.at = @ - t]]
          /\ \A i \in 1 .. Len(left) : t <= left[i].at /\ \E j \in 1 .. Len(marks) : left[i] = marks[j]
          /\ \A j \in 1 .. Len(marks) : \/ \E i \in 1 .. Len(left) : left[i] = marks[j]
                                        \/ \A k \in 1 .. n : en[k - 1] = c + marks[j].at => en[k] <= c + t
      BY <1>1, <1>2, <1>3, <1>4, <1>6, <1>8, <1>9, <1>10
    <2>2. QED
      BY <2>1, MarksTake, ZenonT(60)
  <1>12. QED
    BY <1>3, <1>4, <1>5, <1>11

\* A reader among the items' bytes has nothing to hand out.
LEMMA DataDone ==
    \A o, it, n, en, e, lst, q :
        q \in Readers(o, it, n, en, e, lst) => ControlDone(o, it, n, en, e, lst, q)
  <1> TAKE o, it, n, en, e, lst, q
  <1>h. HAVE q \in Readers(o, it, n, en, e, lst)
  <1>1. q \in Reader /\ At(o, it, n, en, e, q, lst)
    BY <1>h DEF Readers
  <1>2. q.ready = FALSE /\ q.pending = << >>
    BY <1>1 DEF At, Place, Held
  <1>3. Given(q) = q
    BY <1>1, <1>2 DEF Given, Reader
  <1>4. Handed(q, lst) = lst /\ Synced(q) = q
    BY <1>2 DEF Handed, Synced
  <1>5. NextBlock(o, lst, lst)
    BY DEF NextBlock
  <1>6. QED
    BY <1>h, <1>1, <1>3, <1>4, <1>5 DEF ControlDone

\* What a chunk makes of the reader.
LEMMA ChunkDone ==
    ASSUME CodecInv, readNext, NEW it, NEW n, NEW en, NEW c,
           Base(it, n, en, c, stream, marks, offered, reader, last), Clean(Chan, offered),
           NEW r, r \in decode(reader, Chunk, AtMark)
    PROVE  ControlDone(offered, it, n, en, c + ChunkSize, last, r)
  <1>1. /\ ChunkSize \in 0 .. Len(stream) /\ MarksOK(Left, stream)
        /\ \A i \in 1 .. Len(Left) : ChunkSize <= Left[i].at
    BY ChunkBound DEF CodecInv
  <1>2. /\ Written(offered, it, n, en) /\ Layout(it, n, en, c, stream) /\ MarksAt(it, n, en, c, marks)
        /\ Synced(reader) \in Readers(offered, it, n, en, c, last)
    BY DEF Base
  <1>3. World(offered, it, n, en)
    BY <1>2 DEF World
  <1>4. c \in Nat /\ stream \in Seq(Byte) /\ Len(stream) \in Nat
    BY <1>2 DEF Layout
  <1>5. PICK t \in Nat : t = ChunkSize /\ t \in 0 .. Len(stream)
    BY <1>1, <1>4
  <1>6. PICK b : b = Chunk /\ b = SubSeq(stream, 1, t)
    BY <1>5 DEF Chunk
  <1>7. marks \in Seq(Mark) /\ Len(marks) \in Nat /\ setup \in Setups
    BY DEF CodecInv, WriterInv, MarksOK
  <1>8. PICK s : s = Synced(reader)
    OBVIOUS
  <1>9. CASE AtMark
    <2>1. marks # << >> /\ marks[1].at = 0 /\ Len(marks) # 0 /\ t = marks[1].size
      BY <1>5, <1>7, <1>9 DEF AtMark, ChunkSize
    <2>2. /\ Layout(it, n, en, c, stream) /\ MarksAt(it, n, en, c, marks)
          /\ Len(marks) # 0 /\ Len(marks) \in Nat /\ marks[1].at = 0 /\ marks[1].size = t
          /\ t \in 0 .. Len(stream)
      BY <1>2, <1>5, <1>7, <2>1
    <2>3. PICK k : ControlItem(it, n, en, c, k, t, SubSeq(stream, 1, t))
      BY <2>2, ControlItems
    <2>4. /\ World(offered, it, n, en) /\ c \in Nat /\ s \in Readers(offered, it, n, en, c, last)
          /\ ControlItem(it, n, en, c, k, t, b) /\ t \in Nat
      BY <1>2, <1>3, <1>4, <1>6, <1>8, <2>3
    <2>5. ControlDone(offered, it, n, en, c + t, last, decodeControl(s, b))
      BY <2>4, ControlTaken, ZenonT(60)
    <2>6. r = decodeControl(s, b)
      BY <1>6, <1>8, <1>9 DEF decode, Synced
    <2>7. QED
      BY <1>5, <2>5, <2>6
  <1>10. CASE ~AtMark
    <2>1. ASSUME NEW i \in 1 .. Len(marks) PROVE marks[i].at \in Nat /\ t <= marks[i].at
      <3>1. marks[i] \in Mark /\ Left = marks
        BY <1>7, <1>10 DEF Left
      <3>2. QED
        BY <1>1, <1>5, <3>1 DEF Mark
    <2>2. InItems(it, n, en, c, b)
      <3>1. DataChunk(it, n, en, c, stream, marks, t)
        BY <1>2, <1>5, <2>1 DEF DataChunk
      <3>2. InItems(it, n, en, c, SubSeq(stream, 1, t))
        BY <3>1, DataItems
      <3>3. QED
        BY <1>6, <3>2
    <2>3. Len(b) = t
      BY <1>4, <1>5, <1>6
    <2>4. t > 0
      <3>1. setup.readSize \in Nat /\ setup.readSize >= 5 /\ Len(stream) > 0
        <4>1. setup.channels \in 1 .. 14 /\ setup.readSize \in Nat
              /\ setup.readSize >= 5 + 4 * setup.channels
          BY <1>7, SetupsAssumption DEF GoodSetup
        <4>2. PICK m \in 1 .. 14 : m = setup.channels
          BY <4>1
        <4>3. stream # << >>
          BY DEF readNext
        <4>4. Len(stream) > 0
          BY <1>4, <4>3
        <4>5. setup.readSize >= 5
          BY <4>1, <4>2
        <4>6. QED
          BY <4>1, <4>4, <4>5
      <3>2. CASE marks = << >>
        BY <1>4, <1>5, <1>10, <3>1, <3>2 DEF ChunkSize, Min2
      <3>3. CASE marks # << >>
        <4>1. 1 \in 1 .. Len(marks)
          BY <1>7, <3>3
        <4>2. marks[1].at # 0 /\ marks[1].at \in Nat
          BY <1>10, <2>1, <3>3, <4>1 DEF AtMark
        <4>3. QED
          BY <1>5, <1>10, <3>1, <3>3, <4>2 DEF ChunkSize, Min2
      <3>4. QED
        BY <3>2, <3>3
    <2>5. s.insync
      <3>1. /\ World(offered, it, n, en) /\ c \in Nat /\ s \in Readers(offered, it, n, en, c, last)
            /\ InItems(it, n, en, c, b) /\ Len(b) > 0
        BY <1>2, <1>3, <1>4, <1>8, <2>2, <2>3, <2>4
      <3>2. QED
        BY <3>1, DataInsync
    <2>6. reader.insync
      <3>1. reader \in Reader
        BY DEF CodecInv
      <3>2. syncUpdate(reader).insync = reader.insync
        BY <3>1 DEF syncUpdate, Reader
      <3>3. QED
        BY <1>8, <2>5, <3>2 DEF Synced
    <2>7. r \in decodeSample(s, b)
      BY <1>6, <1>8, <1>10, <2>6 DEF decode, Synced
    <2>8. decodeSample(s, b) \in SUBSET Readers(offered, it, n, en, c + Len(b), last)
      <3>1. /\ World(offered, it, n, en) /\ c \in Nat /\ s \in Readers(offered, it, n, en, c, last)
            /\ InItems(it, n, en, c, b)
        BY <1>2, <1>3, <1>4, <1>8, <2>2
      <3>2. QED
        BY <3>1, ChunkAt
    <2>9. r \in Readers(offered, it, n, en, c + t, last)
      BY <2>3, <2>7, <2>8
    <2>10. QED
      BY <1>5, <2>9, DataDone
  <1>11. QED
    BY <1>9, <1>10

----------------------------------------------------------------------------
(***************************************************************************)
(* The codec on a link that loses nothing, whose marks have room and whose *)
(* samples the code can carry: the writer, the stream and the reader are   *)
(* joined by the items written.                                            *)
(***************************************************************************)
LinkInv == \E c : SomeJoined(c, stream, marks, offered, wccs, till, backpressure, reader, last)

PromiseInv == CodecInv /\ LinkInv /\ lost = 0 /\ torn = FALSE

\* The conditions of the promise, at one moment.
Healthy ==
    /\ setup.losses = 0 /\ Len(marks) < setup.markRing - 1
    /\ Clean(Chan, offered)

\* What is joined after a step is joined in the next state.
LEMMA JoinedNext ==
    ASSUME setup' = setup, NEW c, NEW o, NEW r, NEW b, o = offered', r = reader', b = last',
           SomeJoined(c, stream', marks', o, wccs', till', backpressure', r, b)
    PROVE  LinkInv'
  <1>1. PICK it, n, en :
          Joined(it, n, en, c, stream', marks', o, wccs', till', backpressure', r, b)
    BY DEF SomeJoined
  <1>2. /\ Layout(it, n, en, c, stream') /\ MarksAt(it, n, en, c, marks')
        /\ WriterAt(Chan, setup.period, offered', it[n], wccs', till', backpressure')
        /\ Written(offered', it, n, en)
        /\ Synced(r) \in Reader /\ At(offered', it, n, en, c, Synced(r), last')
    BY <1>1 DEF Joined, Base, Readers
  <1>3. Synced(reader)' = Synced(r) /\ Reader' = Reader
    BY DEF Synced, syncUpdate, Reader, Chan, ResyncSize
  <1>4. Written(offered, it, n, en)'
    BY <1>2 DEF Written, Chan
  <1>5. WriterAt(Chan, setup.period, offered, it[n], wccs, till, backpressure)'
    BY <1>2 DEF Chan
  <1>6. Layout(it, n, en, c, stream)' /\ MarksAt(it, n, en, c, marks)'
    BY <1>2
  <1>7. At(offered, it, n, en, c, Synced(reader), last)'
    <2>1. PICK s : s = Synced(r)
      OBVIOUS
    <2>2. PICK d : Place(offered', it, n, en, c, s, d) /\ LastAt(offered', it[d], last')
      BY <1>2, <2>1 DEF At
    <2>3. Place(offered, it, n, en, c, s, d)'
      BY <2>2 DEF Place, Held, Chan
    <2>4. At(offered, it, n, en, c, s, last)'
      BY <2>2, <2>3 DEF At
    <2>5. s = Synced(reader)'
      BY <1>3, <2>1
    <2>6. QED
      BY <2>4, <2>5 DEF At, Place, Held, Chan
  <1>8. Synced(reader)' \in Reader'
    BY <1>2, <1>3
  <1>9. SomeJoined(c, stream, marks, offered, wccs, till, backpressure, reader, last)'
    BY <1>4, <1>5, <1>6, <1>7, <1>8 DEF SomeJoined, Joined, Base, Readers
  <1>10. QED
    BY <1>9 DEF LinkInv

\* At first nothing is written.
LEMMA InitLink == Init => LinkInv
  <1> SUFFICES ASSUME Init PROVE LinkInv
    OBVIOUS
  <1>1. CodecInv
    BY InitCodec
  <1>2. setup \in Setups
    BY DEF Init
  <1>3. PICK x : x = [kind |-> "flush", from |-> 0, idx |-> 0, bytes |-> << >>]
    OBVIOUS
  <1>4. x \in Item /\ x.kind = "flush" /\ x.from = 0 /\ x.idx = 0
    <2>1. << >> \in Seq(Byte)
      OBVIOUS
    <2>2. QED
      BY <1>3, <2>1 DEF Item
  <1>5. PICK it, en : it = [k \in Nat |-> x] /\ en = [k \in Nat |-> 0]
    OBVIOUS
  <1>6. it \in [Nat -> Item] /\ en \in [Nat -> Nat] /\ en[0] = 0 /\ it[0] = x
    BY <1>4, <1>5
  <1>7. Pieces(it, 0, en)
    BY <1>6 DEF Pieces
  <1>8. PICK o \in Seq(Offers(Chan)) : o = offered /\ Len(o) = 0 /\ o = << >>
    <2>1. \A S : << >> \in Seq(S) /\ Len(<< >>) = 0
      OBVIOUS
    <2>2. << >> \in Seq(Offers(Chan)) /\ offered = << >> /\ Len(<< >>) = 0
      BY <2>1, Zenon DEF Init
    <2>3. QED
      BY <2>2
  <1>9. Written(offered, it, 0, en)
    <2>1. Chain(Chan, setup.period, o, it, 0)
      BY <1>4, <1>6 DEF Chain
    <2>2. QED
      BY <1>2, <1>7, <1>8, <2>1 DEF Written
  <1>10. Layout(it, 0, en, 0, stream)
    <2>1. stream = << >> /\ << >> \in Seq(Byte) /\ Len(<< >>) = 0
      BY DEF Init
    <2>2. QED
      BY <1>6, <1>7, <2>1 DEF Layout
  <1>11. MarksAt(it, 0, en, 0, marks)
    <2>1. marks = << >> /\ Len(<< >>) = 0
      BY DEF Init
    <2>2. QED
      BY <2>1 DEF MarksAt
  <1>12. WriterAt(Chan, setup.period, offered, it[0], wccs, till, backpressure)
    <2>1. wccs = [c \in Chan |-> [sample |-> 0, delta |-> 0]] /\ till = 0 /\ backpressure = FALSE
      BY DEF Init
    <2>2. After(Chan, o, 0) = [c \in Chan |-> [sample |-> 0, delta |-> 0]]
      BY DEF After, Smp
    <2>3. QED
      BY <1>4, <1>6, <1>8, <2>1, <2>2 DEF WriterAt
  <1>13. /\ reader.pending = << >> /\ reader.ready = FALSE /\ reader.insync = FALSE
         /\ reader.parse = Idle(<< >>) /\ reader \in Reader
    BY <1>1 DEF Init, CodecInv
  <1>14. Synced(reader) = reader
    BY <1>13 DEF Synced
  <1>15. Place(offered, it, 0, en, 0, reader, 0)
    BY <1>4, <1>6, <1>13 DEF Place, Held
  <1>16. LastAt(offered, it[0], last)
    <2>1. last = [counter |-> 0, samples |-> << >>]
      BY DEF Init
    <2>2. Run(o, 0, 0) = << >>
      BY DEF Run
    <2>3. last = Block(o, 0, 0) /\ 0 \in 0 .. Len(o)
      BY <1>8, <2>1, <2>2 DEF Block
    <2>4. QED
      BY <1>4, <1>6, <1>8, <2>3 DEF LastAt
  <1>17. Joined(it, 0, en, 0, stream, marks, offered, wccs, till, backpressure, reader, last)
    BY <1>9, <1>10, <1>11, <1>12, <1>13, <1>14, <1>15, <1>16 DEF Joined, Base, Readers, At
  <1>18. QED
    BY <1>17 DEF LinkInv, SomeJoined

\* A chunk that the reader takes, and the caller with it.
LEMMA ReceiveLink ==
    ASSUME PromiseInv, Healthy, Receive
    PROVE  LinkInv' /\ torn' = FALSE /\ NextBlock(offered, last, last')
  <1>1. PICK c, it, n, en :
          Joined(it, n, en, c, stream, marks, offered, wccs, till, backpressure, reader, last)
    BY DEF PromiseInv, LinkInv, SomeJoined
  <1>2. /\ Base(it, n, en, c, stream, marks, offered, reader, last)
        /\ WriterAt(Chan, setup.period, offered, it[n], wccs, till, backpressure)
        /\ CodecInv /\ Clean(Chan, offered) /\ torn = FALSE
    BY <1>1 DEF Joined, PromiseInv, Healthy
  <1>3. readNext /\ setup' = setup /\ offered' = offered
    BY DEF Receive, caller
  <1>4. PICK r \in decode(reader, Chunk, AtMark) :
          /\ reader' = [r EXCEPT !.ready = FALSE]
          /\ last' = IF r.ready /\ ~torn THEN [counter |-> r.counter, samples |-> r.samples]
                     ELSE last
    BY DEF Receive
  <1>5. reader' = Given(r) /\ last' = Handed(r, last)
    BY <1>2, <1>4 DEF Given, Handed
  <1>6. torn' = FALSE
    BY <1>2 DEF Receive
  <1>7. ControlDone(offered, it, n, en, c + ChunkSize, last, r)
    BY <1>2, <1>3, <1>4, ChunkDone
  <1>8. /\ Written(offered, it, n, en)
        /\ Layout(it, n, en, c, stream) /\ MarksAt(it, n, en, c, marks)
    BY <1>2 DEF Base
  <1>9. /\ Layout(it, n, en, c + ChunkSize, stream')
        /\ MarksAt(it, n, en, c + ChunkSize, marks')
    BY <1>2, <1>3, <1>8, ChunkTaken
  <1>10. PICK q, b, e : q = Given(r) /\ b = Handed(r, last) /\ e = c + ChunkSize
    OBVIOUS
  <1>11. Synced(q) \in Readers(offered, it, n, en, e, b) /\ NextBlock(offered, last, b)
    BY <1>7, <1>10 DEF ControlDone
  <1>12. WriterAt(Chan, setup.period, offered, it[n], wccs', till', backpressure')
    <2>1. wccs' = wccs /\ till' = till /\ (backpressure' => backpressure)
      BY <1>3 DEF readNext
    <2>2. QED
      BY <1>2, <2>1 DEF WriterAt
  <1>13. Joined(it, n, en, e, stream', marks', offered, wccs', till', backpressure', q, b)
    BY <1>8, <1>9, <1>10, <1>11, <1>12 DEF Joined, Base
  <1>14. SomeJoined(e, stream', marks', offered, wccs', till', backpressure', q, b)
    BY <1>13 DEF SomeJoined
  <1>15. LinkInv'
    <2>1. PICK o : o = offered
      OBVIOUS
    <2>2. o = offered' /\ q = reader' /\ b = last'
      BY <1>3, <1>5, <1>10, <2>1
    <2>3. SomeJoined(e, stream', marks', o, wccs', till', backpressure', q, b)
      BY <1>14, <2>1
    <2>4. QED
      BY <1>3, <2>2, <2>3, JoinedNext
  <1>16. QED
    BY <1>5, <1>6, <1>10, <1>11, <1>15

\* Every step keeps the invariant.
LEMMA NextPromise == ASSUME PromiseInv, Healthy, [Next]_vars PROVE PromiseInv'
  <1>1. CodecInv'
    BY NextCodec DEF PromiseInv
  <1>2. PICK c : SomeJoined(c, stream, marks, offered, wccs, till, backpressure, reader, last)
    BY DEF PromiseInv, LinkInv
  <1>3. PICK it, n, en :
          Joined(it, n, en, c, stream, marks, offered, wccs, till, backpressure, reader, last)
    BY <1>2 DEF SomeJoined
  <1>4. CodecInv /\ lost = 0 /\ torn = FALSE /\ setup.losses = 0 /\ Len(marks) < setup.markRing - 1
    BY DEF PromiseInv, Healthy
  <1>5. PICK o, r, b : o = offered' /\ r = reader' /\ b = last'
    OBVIOUS
  <1>6. CASE Push
    <2>1. PICK v \in setup.vectors : pushSample(v)
      BY <1>6 DEF Push
    <2>2. /\ setup' = setup /\ reader' = reader /\ Len(offered) < MaxOffered
          /\ lost' = lost /\ torn' = torn /\ last' = last
      BY <1>6 DEF Push, link
    <2>3. SomeJoined(c, stream', marks', offered', wccs', till', backpressure', reader, last)
      BY <1>3, <1>4, <2>1, <2>2, PushLink
    <2>4. SomeJoined(c, stream', marks', o, wccs', till', backpressure', r, b)
      BY <1>5, <2>2, <2>3
    <2>5. LinkInv'
      BY <1>5, <2>2, <2>4, JoinedNext
    <2>6. QED
      BY <1>1, <1>4, <2>2, <2>5 DEF PromiseInv
  <1>7. CASE Flush \/ Close
    <2>1. /\ flush /\ setup' = setup /\ reader' = reader /\ offered' = offered
          /\ lost' = lost /\ torn' = torn /\ last' = last
      BY <1>7 DEF Flush, Close, link
    <2>2. SomeJoined(c, stream', marks', offered, wccs', till', backpressure', reader, last)
      BY <1>3, <1>4, <2>1, FlushLink
    <2>3. SomeJoined(c, stream', marks', o, wccs', till', backpressure', r, b)
      BY <1>5, <2>1, <2>2
    <2>4. LinkInv'
      BY <1>5, <2>1, <2>3, JoinedNext
    <2>5. QED
      BY <1>1, <1>4, <2>1, <2>4 DEF PromiseInv
  <1>8. CASE Receive
    <2>1. lost' = lost
      BY <1>8 DEF Receive
    <2>2. LinkInv' /\ torn' = FALSE
      BY <1>8, ReceiveLink
    <2>3. QED
      BY <1>1, <1>4, <2>1, <2>2 DEF PromiseInv
  <1>9. CASE Lose
    BY <1>4, <1>9 DEF Lose
  <1>10. CASE UNCHANGED vars
    <2>1. /\ setup' = setup /\ reader' = reader /\ offered' = offered
          /\ wccs' = wccs /\ stream' = stream /\ marks' = marks /\ till' = till
          /\ backpressure' = backpressure
          /\ lost' = lost /\ torn' = torn /\ last' = last
      BY <1>10 DEF vars, link, caller
    <2>2. SomeJoined(c, stream', marks', o, wccs', till', backpressure', r, b)
      BY <1>2, <1>5, <2>1
    <2>3. LinkInv'
      BY <1>5, <2>1, <2>2, JoinedNext
    <2>4. QED
      BY <1>1, <1>4, <2>1, <2>3 DEF PromiseInv
  <1>11. QED
    BY <1>6, <1>7, <1>8, <1>9, <1>10 DEF Next

\* The reader's residuals are too few for a sample.
LEMMA PromiseBounds == PromiseInv /\ Healthy => InBounds
  <1> SUFFICES ASSUME PromiseInv, Healthy PROVE InBounds
    OBVIOUS
  <1>1. PICK c, it, n, en :
          Joined(it, n, en, c, stream, marks, offered, wccs, till, backpressure, reader, last)
    BY DEF PromiseInv, LinkInv, SomeJoined
  <1>2. /\ Written(offered, it, n, en) /\ Synced(reader) \in Reader
        /\ At(offered, it, n, en, c, Synced(reader), last)
    BY <1>1 DEF Joined, Base, Readers
  <1>3. World(offered, it, n, en) /\ n \in Nat /\ setup \in Setups
    BY <1>2 DEF World, Healthy, Written, Pieces
  <1>4. PICK k \in 1 .. 14 : k = setup.channels /\ Chan = 1 .. k
    BY <1>3, SetupFacts DEF Chan
  <1>5. Synced(reader).parse = reader.parse
    <2>1. reader \in Reader
      BY DEF PromiseInv, CodecInv
    <2>2. syncUpdate(reader).parse = reader.parse
      BY <2>1 DEF syncUpdate, Reader
    <2>3. QED
      BY <2>2 DEF Synced
  <1>6. PICK d : Place(offered, it, n, en, c, Synced(reader), d)
    BY <1>2 DEF At
  <1>7. CASE c = en[d]
    <2>1. reader.parse = Idle(<< >>)
      BY <1>5, <1>6, <1>7 DEF Place
    <2>2. reader.parse.dods = << >>
      BY <2>1 DEF Idle
    <2>3. QED
      BY <1>4, <2>2 DEF InBounds
  <1>8. CASE c # en[d]
    <2>1. /\ d \in 0 .. n /\ d < n /\ it[d + 1].kind = "data"
          /\ InSample(Chan, offered, it[d + 1].idx, c - en[d], reader.parse)
      BY <1>5, <1>6, <1>8 DEF Place
    <2>2. d + 1 \in 1 .. n /\ (d + 1) - 1 = d
      BY <1>3, <2>1
    <2>3. DataAt(offered, it[(d + 1) - 1], it[d + 1])
      BY <1>3, <2>1, <2>2, DataItemAt
    <2>4. /\ Sound(setup.channels, offered, it[d].idx + 1)
          /\ it[d + 1].idx = it[d].idx + 1
      BY <2>2, <2>3 DEF DataAt, Next1
    <2>5. PICK i, q, p : i = it[d + 1].idx /\ q = c - en[d] /\ p = reader.parse
      OBVIOUS
    <2>6. Sound(k, offered, i) /\ InSample(1 .. k, offered, i, q, p)
      BY <1>4, <2>1, <2>4, <2>5
    <2>7. Len(p.dods) < k
      BY <2>6, SampleRoom
    <2>8. QED
      BY <1>4, <2>5, <2>7 DEF InBounds
  <1>9. QED
    BY <1>7, <1>8

\* The last block is a run of what was offered.
LEMMA PromiseLossless == PromiseInv => Lossless
  <1> SUFFICES ASSUME PromiseInv PROVE Lossless
    OBVIOUS
  <1>1. PICK c, it, n, en :
          Joined(it, n, en, c, stream, marks, offered, wccs, till, backpressure, reader, last)
    BY DEF PromiseInv, LinkInv, SomeJoined
  <1>2. Written(offered, it, n, en) /\ At(offered, it, n, en, c, Synced(reader), last)
    BY <1>1 DEF Joined, Base, Readers
  <1>3. PICK x : LastAt(offered, x, last)
    BY <1>2 DEF At
  <1>4. PICK o \in Seq(Offers(Chan)) : o = offered
    BY <1>2 DEF Written
  <1>5. PICK f, l \in 0 .. Len(o) : f <= l /\ last = Block(o, f, l)
    BY <1>3, <1>4 DEF LastAt
  <1>6. f \in Nat /\ l \in Nat /\ l <= Len(o) /\ Len(o) \in Nat /\ f <= l
    <2>1. Len(o) \in Nat
      BY <1>4
    <2>2. QED
      BY <1>5, <2>1
  <1>7. RunIs(Chan, o, f, l)
    BY <1>6, RunLength
  <1>8. last.counter = f /\ last.samples = Run(o, f, l)
    BY <1>5 DEF Block
  <1>9. ASSUME NEW j \in DOMAIN last.samples
        PROVE  /\ last.counter + j <= Len(offered)
               /\ offered[last.counter + j].sample = last.samples[j]
    <2>1. j \in 1 .. l - f /\ last.samples[j] = o[f + j].sample
      BY <1>7, <1>8, <1>9 DEF RunIs
    <2>2. f + j <= Len(o)
      BY <1>6, <2>1
    <2>3. QED
      BY <1>4, <1>8, <2>1, <2>2
  <1>10. QED
    BY <1>9 DEF Lossless

\* The channel's initial states, and its steps.
LEMMA PromiseChannelInit == Init => Channel!ChanInit
  BY DEF Init, Channel!ChanInit

LEMMA PromiseChannel ==
    ASSUME PromiseInv, Healthy, [Next]_vars
    PROVE  [Channel!ChanNext]_(Channel!chanVars)
  <1>1. CASE Push
    <2>1. PICK v \in setup.vectors : pushSample(v)
      BY <1>1 DEF Push
    <2>2. setup' = setup /\ last' = last /\ Len(offered) < MaxOffered
      BY <1>1 DEF Push, link
    <2>3. \E ok \in BOOLEAN : offered' = Append(offered, [sample |-> v, accepted |-> ok])
      BY <2>1 DEF pushSample
    <2>4. v \in UNION {s.vectors : s \in Setups}
      <3>1. setup \in Setups
        BY DEF PromiseInv, CodecInv, WriterInv
      <3>2. QED
        BY <2>1, <3>1
    <2>5. Channel!Offer
      BY <2>2, <2>3, <2>4 DEF Channel!Offer
    <2>6. QED
      BY <2>5 DEF Channel!ChanNext
  <1>2. CASE Flush \/ Close
    <2>1. setup' = setup /\ offered' = offered /\ last' = last
      BY <1>2 DEF Flush, Close, link
    <2>2. QED
      BY <2>1 DEF Channel!chanVars
  <1>3. CASE Receive
    <2>1. setup' = setup /\ offered' = offered
      BY <1>3 DEF Receive, caller
    <2>2. NextBlock(offered, last, last')
      BY <1>3, ReceiveLink
    <2>3. CASE last' = last
      BY <2>1, <2>3 DEF Channel!chanVars
    <2>4. CASE last' # last
      <3>1. PICK b, d : b = last /\ d = last'
        OBVIOUS
      <3>2. /\ d.counter >= b.counter + Len(b.samples)
            /\ d.samples # << >> /\ d.counter + Len(d.samples) <= Len(offered)
            /\ \A j \in 1 .. Len(d.samples) :
                 offered[d.counter + j] = [sample |-> d.samples[j], accepted |-> TRUE]
            /\ \A i \in b.counter + Len(b.samples) + 1 .. d.counter : ~offered[i].accepted
        BY <2>2, <2>4, <3>1 DEF NextBlock
      <3>3. Channel!IsRun(last')
        BY <3>1, <3>2 DEF Channel!IsRun, Channel!End
      <3>4. Channel!Follows(last') /\ last'.counter >= Channel!End(last)
        BY <3>1, <3>2 DEF Channel!Follows, Channel!End
      <3>5. Channel!HandOut
        BY <2>1, <3>3, <3>4 DEF Channel!HandOut
      <3>6. QED
        BY <3>5 DEF Channel!ChanNext
    <2>5. QED
      BY <2>3, <2>4
  <1>4. CASE Lose
    BY <1>4 DEF Lose, PromiseInv, Healthy
  <1>5. CASE UNCHANGED vars
    BY <1>5 DEF vars, caller, link, Channel!chanVars
  <1>6. QED
    BY <1>1, <1>2, <1>3, <1>4, <1>5 DEF Next

----------------------------------------------------------------------------
(***************************************************************************)
(* Setups that are healthy whatever the caller does: the link loses        *)
(* nothing, every mark has room, and no three samples of a channel have a  *)
(* second difference in the code's gap.                                    *)
(***************************************************************************)
Levels(s, c) == {0} \cup {v[c] : v \in s.vectors}
Tame(s) ==
    /\ s.losses = 0 /\ s.markRing > MaxOffered + MaxFlush + 2
    /\ \A c \in 1 .. s.channels : \A x, y, z \in Levels(s, c) :
         Dod([sample |-> y, delta |-> Wrap16(y - x)], z) \notin Gap

Drawn == \A i \in 1 .. Len(offered) : offered[i].sample \in setup.vectors

TameInv ==
    /\ CodecInv /\ Tame(setup) /\ Drawn
    /\ flushes \in 0 .. MaxFlush /\ closed \in BOOLEAN
    /\ Len(marks) <= Len(offered) + flushes + (IF closed THEN 1 ELSE 0)

\* A mark more, at most.
LEMMA MarkedLength ==
    ASSUME marks \in Seq(Mark), NEW size PROVE Len(Marked(size)) <= Len(marks) + 1
  <1>1. PICK m : m = [at |-> Len(stream), size |-> size]
    OBVIOUS
  <1>2. Marked(size) = Append(marks, m) \/ Marked(size) = marks
    BY <1>1 DEF Marked
  <1>3. Len(marks) \in Nat /\ Len(Append(marks, m)) = Len(marks) + 1
    OBVIOUS
  <1>4. QED
    BY <1>2, <1>3

\* The marks when a chunk is taken.
LEMMA TakenLength ==
    ASSUME marks \in Seq(Mark), readNext PROVE Len(marks') <= Len(marks)
  <1>1. marks' = [i \in DOMAIN Left |-> [Left[i] EXCEPT !.at = @ - ChunkSize]]
    BY DEF readNext, Left
  <1>2. Left \in Seq(Mark) /\ Len(Left) <= Len(marks)
    <2>1. CASE ~AtMark
      BY <2>1 DEF Left
    <2>2. CASE AtMark
      <3>1. marks # << >> /\ Left = Tail(marks)
        BY <2>2 DEF AtMark, Left
      <3>2. Tail(marks) \in Seq(Mark) /\ Len(Tail(marks)) = Len(marks) - 1 /\ Len(marks) \in Nat
        BY <3>1
      <3>3. QED
        BY <3>1, <3>2
    <2>3. QED
      BY <2>1, <2>2
  <1>3. PICK k \in Nat : k = Len(Left) /\ DOMAIN Left = 1 .. k
    BY <1>2
  <1>4. Len(marks') = k
    <2>1. marks' = [i \in 1 .. k |-> [Left[i] EXCEPT !.at = @ - ChunkSize]]
      BY <1>1, <1>3
    <2>2. QED
      BY <2>1
  <1>5. QED
    BY <1>2, <1>3, <1>4

LEMMA InitTame == Init /\ Tame(setup) => TameInv
  <1> SUFFICES ASSUME Init, Tame(setup) PROVE TameInv
    OBVIOUS
  <1>1. CodecInv
    BY InitCodec
  <1>2. offered = << >> /\ marks = << >> /\ flushes = 0 /\ closed = FALSE /\ Len(<< >>) = 0
    BY DEF Init
  <1>3. Drawn
    BY <1>2 DEF Drawn
  <1>4. flushes \in 0 .. MaxFlush
    BY <1>2, MaxOfferedAssumption
  <1>5. Len(marks) <= Len(offered) + flushes + (IF closed THEN 1 ELSE 0)
    BY <1>2
  <1>6. closed \in BOOLEAN
    BY <1>2
  <1>7. QED
    BY <1>1, <1>3, <1>4, <1>5, <1>6 DEF TameInv

LEMMA NextTame == ASSUME TameInv, [Next]_vars PROVE TameInv'
  <1>1. CodecInv'
    BY NextCodec DEF TameInv
  <1>2. /\ marks \in Seq(Mark) /\ offered \in Seq(Sample) /\ CodecInv /\ Tame(setup) /\ Drawn
        /\ flushes \in 0 .. MaxFlush /\ closed \in BOOLEAN
        /\ Len(marks) <= Len(offered) + flushes + (IF closed THEN 1 ELSE 0)
    BY DEF TameInv, CodecInv, WriterInv, MarksOK
  <1>3. PICK m, l, f \in Nat : m = Len(marks) /\ l = Len(offered) /\ f = flushes
    <2>1. Len(marks) \in Nat /\ Len(offered) \in Nat /\ flushes \in Nat
      BY <1>2
    <2>2. QED
      BY <2>1
  <1>4. PICK a \in {0, 1} : a = IF closed THEN 1 ELSE 0
    BY <1>2
  <1>5. m <= l + f + a
    BY <1>2, <1>3, <1>4
  <1>6. setup' = setup => Tame(setup)'
    BY <1>2
  <1>7. setup' = setup /\ offered' = offered => Drawn'
    BY <1>2 DEF Drawn
  <1>8. CASE Push
    <2>1. PICK v \in setup.vectors : pushSample(v)
      BY <1>8 DEF Push
    <2>2. setup' = setup /\ flushes' = flushes /\ closed' = closed
      BY <1>8 DEF Push
    <2>3. PICK x : x.sample = v /\ offered' = Append(offered, x)
      <3>1. PICK y : y = [sample |-> v, accepted |-> ~(backpressure \/ Free <= Reserve)]
        OBVIOUS
      <3>2. y.sample = v /\ offered' = Append(offered, y)
        BY <2>1, <3>1 DEF pushSample
      <3>3. QED
        BY <3>2
    <2>4. Len(marks') <= m + 1
      <3>1. marks' = Marked(ResyncSize) \/ marks' = marks
        BY <2>1 DEF pushSample
      <3>2. QED
        BY <1>2, <1>3, <3>1, MarkedLength
    <2>5. Len(offered') = l + 1
      BY <1>2, <1>3, <2>3
    <2>6. Drawn'
      <3>1. ASSUME NEW i \in 1 .. Len(offered') PROVE offered'[i].sample \in setup.vectors
        <4>1. CASE i \in 1 .. l
          <5>1. offered'[i] = offered[i]
            BY <1>2, <1>3, <2>3, <4>1
          <5>2. QED
            BY <1>2, <1>3, <4>1, <5>1 DEF Drawn
        <4>2. CASE i = l + 1
          <5>1. offered'[i] = x
            BY <1>2, <1>3, <2>3, <4>2
          <5>2. QED
            BY <2>3, <5>1
        <4>3. QED
          BY <1>3, <2>5, <4>1, <4>2
      <3>2. QED
        BY <2>2, <3>1 DEF Drawn
    <2>7. Len(marks') \in Nat
      BY <1>1 DEF CodecInv, WriterInv, MarksOK
    <2>8. Len(marks') <= (l + 1) + f + a
      BY <1>3, <1>4, <1>5, <2>4, <2>7
    <2>9. Len(marks') <= Len(offered') + flushes' + (IF closed' THEN 1 ELSE 0)
      BY <1>3, <1>4, <2>2, <2>5, <2>8
    <2>10. QED
      BY <1>1, <1>2, <1>6, <2>2, <2>6, <2>9 DEF TameInv
  <1>9. CASE Flush
    <2>1. /\ flush /\ setup' = setup /\ offered' = offered /\ closed' = closed
          /\ flushes < MaxFlush /\ flushes' = flushes + 1
      BY <1>9 DEF Flush
    <2>2. Len(marks') <= m + 1
      BY <1>2, <1>3, <2>1, MarkedLength DEF flush
    <2>3. flushes' \in 0 .. MaxFlush
      BY <1>2, <2>1, MaxOfferedAssumption
    <2>4. Len(marks') \in Nat
      BY <1>1 DEF CodecInv, WriterInv, MarksOK
    <2>5. Len(marks') <= l + (f + 1) + a
      BY <1>3, <1>4, <1>5, <2>2, <2>4
    <2>6. Len(marks') <= Len(offered') + flushes' + (IF closed' THEN 1 ELSE 0)
      BY <1>3, <1>4, <2>1, <2>5
    <2>7. QED
      BY <1>1, <1>2, <1>6, <1>7, <2>1, <2>3, <2>6 DEF TameInv
  <1>10. CASE Close
    <2>1. /\ flush /\ setup' = setup /\ offered' = offered /\ flushes' = flushes
          /\ closed = FALSE /\ closed' = TRUE
      BY <1>2, <1>10 DEF Close
    <2>2. Len(marks') <= m + 1
      BY <1>2, <1>3, <2>1, MarkedLength DEF flush
    <2>3. Len(marks') \in Nat
      BY <1>1 DEF CodecInv, WriterInv, MarksOK
    <2>4. Len(marks') <= l + f + 1
      BY <1>3, <1>4, <1>5, <2>1, <2>2, <2>3
    <2>5. Len(marks') <= Len(offered') + flushes' + (IF closed' THEN 1 ELSE 0)
      BY <1>3, <2>1, <2>4
    <2>6. QED
      BY <1>1, <1>2, <1>6, <1>7, <2>1, <2>5 DEF TameInv
  <1>11. CASE Receive \/ Lose
    <2>1. /\ readNext /\ setup' = setup /\ offered' = offered /\ flushes' = flushes
          /\ closed' = closed
      BY <1>11 DEF Receive, Lose, caller
    <2>2. Len(marks') <= m
      BY <1>2, <1>3, <2>1, TakenLength
    <2>3. Len(marks') \in Nat
      BY <1>1 DEF CodecInv, WriterInv, MarksOK
    <2>4. Len(marks') <= l + f + a
      BY <1>3, <1>4, <1>5, <2>2, <2>3
    <2>5. Len(marks') <= Len(offered') + flushes' + (IF closed' THEN 1 ELSE 0)
      BY <1>3, <1>4, <2>1, <2>4
    <2>6. QED
      BY <1>1, <1>2, <1>6, <1>7, <2>1, <2>5 DEF TameInv
  <1>12. CASE UNCHANGED vars
    <2>1. /\ setup' = setup /\ offered' = offered /\ flushes' = flushes /\ closed' = closed
          /\ marks' = marks
      BY <1>12 DEF vars, caller
    <2>2. QED
      BY <1>1, <1>2, <1>6, <1>7, <2>1 DEF TameInv
  <1>13. QED
    BY <1>8, <1>9, <1>10, <1>11, <1>12 DEF Next

\* A tame setup stays healthy.
LEMMA TameHealthy == TameInv => Healthy
  <1> SUFFICES ASSUME TameInv PROVE Healthy
    OBVIOUS
  <1>1. /\ offered \in Seq(Sample) /\ Len(offered) <= MaxOffered /\ Drawn /\ setup \in Setups
        /\ flushes \in 0 .. MaxFlush /\ closed \in BOOLEAN
        /\ Len(marks) <= Len(offered) + flushes + (IF closed THEN 1 ELSE 0)
    BY DEF TameInv, CodecInv, WriterInv
  <1>2. /\ setup.losses = 0 /\ setup.markRing > MaxOffered + MaxFlush + 2
        /\ \A c \in 1 .. setup.channels : \A x, y, z \in Levels(setup, c) :
             Dod([sample |-> y, delta |-> Wrap16(y - x)], z) \notin Gap
    BY DEF TameInv, Tame
  <1>3. Len(marks) < setup.markRing - 1
    <2>1. Len(marks) \in Nat /\ Len(offered) \in Nat
      BY <1>1 DEF TameInv, CodecInv, WriterInv, MarksOK
    <2>2. setup.markRing \in Nat
      BY <1>1, SetupFacts
    <2>3. QED
      BY <1>1, <1>2, <2>1, <2>2, MaxOfferedAssumption
  <1>4. ASSUME NEW i \in 1 .. Len(offered), NEW c \in Chan
        PROVE  Residual(Chan, offered, i, c) \notin Gap
    <2>1. i \in Nat /\ i # 0
      BY <1>1
    <2>2. ASSUME NEW j \in 0 .. Len(offered) PROVE Smp(offered, j, c) \in Levels(setup, c)
      <3>1. CASE j = 0
        BY <3>1 DEF Smp, Levels
      <3>2. CASE j # 0
        <4>1. j \in 1 .. Len(offered)
          BY <1>1, <3>2
        <4>2. QED
          BY <1>1, <3>2, <4>1 DEF Smp, Levels, Drawn
      <3>3. QED
        BY <3>1, <3>2
    <2>3. PICK k : k = i - 1 /\ k \in 0 .. Len(offered) /\ i \in 0 .. Len(offered)
      BY <1>1
    <2>4. PICK y, z \in Levels(setup, c) : y = Smp(offered, k, c) /\ z = Smp(offered, i, c)
      BY <2>2, <2>3
    <2>5. \E x \in Levels(setup, c) :
            After(Chan, offered, k)[c] = [sample |-> y, delta |-> Wrap16(y - x)]
      <3>1. CASE k = 0
        <4>1. y = 0 /\ 0 \in Levels(setup, c)
          BY <2>4, <3>1 DEF Smp, Levels
        <4>2. Wrap16(0 - 0) = 0
          BY DEF Wrap16
        <4>3. After(Chan, offered, k)[c] = [sample |-> 0, delta |-> 0]
          BY <3>1 DEF After, Smp
        <4>4. QED
          BY <4>1, <4>2, <4>3
      <3>2. CASE k # 0
        <4>1. k - 1 \in 0 .. Len(offered)
          BY <1>1, <2>3, <3>2
        <4>2. PICK x \in Levels(setup, c) : x = Smp(offered, k - 1, c)
          BY <2>2, <4>1
        <4>3. After(Chan, offered, k)[c] = [sample |-> y, delta |-> Wrap16(y - x)]
          BY <2>4, <3>2, <4>2 DEF After
        <4>4. QED
          BY <4>2, <4>3
      <3>3. QED
        BY <3>1, <3>2
    <2>6. Residual(Chan, offered, i, c) = Dod(After(Chan, offered, k)[c], z)
      BY <2>3, <2>4 DEF Residual
    <2>7. c \in 1 .. setup.channels
      BY DEF Chan
    <2>8. QED
      BY <1>2, <2>4, <2>5, <2>6, <2>7
  <1>5. Clean(Chan, offered)
    BY <1>4 DEF Clean
  <1>6. QED
    BY <1>2, <1>3, <1>5 DEF Healthy

(***************************************************************************)
(* No byte finds the residual buffer full, which decodeSample would store  *)
(* beyond: as long as the link loses nothing, the marks have room and the  *)
(* code can carry what was accepted, a sample's residuals are used up by   *)
(* its last byte, for any chunk size, period and number of channels.       *)
(***************************************************************************)
THEOREM CodecInBounds == Spec /\ []Healthy => []InBounds
  <1>1. PromiseInv /\ Healthy /\ [Next]_vars => PromiseInv'
    BY NextPromise
  <1>2. Init => PromiseInv
    BY InitCodec, InitLink DEF Init, PromiseInv
  <1>3. QED
    BY <1>1, <1>2, PromiseBounds, PTL DEF Spec

(***************************************************************************)
(* What test_Codec.cpp asks, under the same conditions: what is            *)
(* reconstructed is what was offered, at the place its counter names.      *)
(***************************************************************************)
THEOREM CodecLossless == Spec /\ []Healthy => []Lossless
  <1>1. PromiseInv /\ Healthy /\ [Next]_vars => PromiseInv'
    BY NextPromise
  <1>2. Init => PromiseInv
    BY InitCodec, InitLink DEF Init, PromiseInv
  <1>3. QED
    BY <1>1, <1>2, PromiseLossless, PTL DEF Spec

(***************************************************************************)
(* The codec implements SampleChannel, under the same conditions: every    *)
(* block handed out is a run of accepted samples, and no accepted sample   *)
(* lies between a block and the next. A sample offered is an Offer, a      *)
(* chunk that makes a block ready a HandOut, any other step a stutter.     *)
(***************************************************************************)
THEOREM CodecImplements == Spec /\ []Healthy => ImplementsChannel
  <1>1. PromiseInv /\ Healthy /\ [Next]_vars => PromiseInv'
    BY NextPromise
  <1>2. Init => PromiseInv
    BY InitCodec, InitLink DEF Init, PromiseInv
  <1>3. PromiseInv /\ Healthy /\ [Next]_vars => [Channel!ChanNext]_(Channel!chanVars)
    BY PromiseChannel
  <1>4. QED
    BY <1>1, <1>2, <1>3, PromiseChannelInit, PTL DEF Spec, ImplementsChannel, Channel!ChanSpec

(***************************************************************************)
(* The conditions, from the setup alone: with no loss, room for every mark *)
(* and vectors whose second differences avoid the gap, whatever the caller *)
(* offers and flushes is handed out as the channel promises.               *)
(***************************************************************************)
THEOREM CodecPromise == Spec /\ Tame(setup) => []InBounds /\ []Lossless /\ ImplementsChannel
  <1>1. TameInv /\ [Next]_vars => TameInv'
    BY NextTame
  <1>2. Spec /\ Tame(setup) => []Healthy
    BY <1>1, InitTame, TameHealthy, PTL DEF Spec
  <1>3. QED
    BY <1>2, CodecInBounds, CodecLossless, CodecImplements, PTL
=============================================================================
