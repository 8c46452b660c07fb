------------------------------- MODULE DodCode -------------------------------
(***************************************************************************)
(* The code of one residual in the DAQ stream: what the writer's           *)
(* pushSample emits for the second difference of a channel, and the byte   *)
(* machine with which the reader takes residuals from the stream.          *)
(***************************************************************************)
EXTENDS Integers, Sequences

VirtualBitsStart == 240   \* VIRTUAL_BITS_START
VirtualBitsEnd == 247     \* VIRTUAL_BITS_END
Large16 == 254            \* Escape::LARGE16

Byte == {x \in Int : 0 <= x /\ x <= 255}
Int16 == {x \in Int : -32768 <= x /\ x <= 32767}
Wrap16(x) == ((x + 32768) % 65536) - 32768

\* The two bytes of a 16-bit number, and the number of two bytes.
Bytes16(x) == <<(x % 65536) \div 256, x % 256>>
FromBytes(hi, lo) == Wrap16(hi * 256 + lo)

\* The residual of a sample in a channel's state.
Delta(ch, sample) == Wrap16(sample - ch.sample)
Dod(ch, sample) == Wrap16(Delta(ch, sample) - ch.delta)

\* dod_decode: the channel's state after a residual.
Decoded(ch, dod) ==
    LET delta == Wrap16(dod + ch.delta)
    IN [sample |-> Wrap16(delta + ch.sample), delta |-> delta]

Mag(d) == IF d < 0 THEN -d ELSE d
Zigzag(d) == IF d < 0 THEN 2 * Mag(d) - 1 ELSE 2 * d
Unzigzag(z) == IF z % 2 = 0 THEN z \div 2 ELSE -(z \div 2) - 1

\* One byte, the "virtual bits" and a byte, or an escape and two bytes.
Code(d) ==
    LET z == Zigzag(d) IN
    IF Mag(d) < VirtualBitsStart \div 2 THEN <<z>>
    ELSE IF z \div 256 < 8 THEN <<VirtualBitsStart + z \div 256, z % 256>>
    ELSE <<Large16, z \div 256, z % 256>>

----------------------------------------------------------------------------
\* The reader's byte machine: its state, the bytes of a code it has (in
\* scratch_buf), and the residuals of the sample it has so far (dod_buf).

ParserState == {"DOD", "LARGE16", "VIRTUALBITS"}
Idle(dods) == [state |-> "DOD", got |-> << >>, dods |-> dods]
Took(p, z) == Idle(Append(p.dods, Unzigzag(z)))

ParseDod(p, byte) ==
    IF byte > VirtualBitsEnd
    THEN IF byte = Large16 THEN [p EXCEPT !.state = "LARGE16"] ELSE p
    ELSE IF byte > VirtualBitsStart
    THEN [state |-> "VIRTUALBITS", got |-> <<byte - VirtualBitsStart>>, dods |-> p.dods]
    ELSE Took(p, byte)

ParseLarge16(p, byte) ==
    IF p.got = << >> THEN [p EXCEPT !.got = <<byte>>] ELSE Took(p, p.got[1] * 256 + byte)

ParseVirtualBits(p, byte) == Took(p, p.got[1] * 256 + byte)

ParseByte(p, byte) ==
    CASE p.state = "DOD" -> ParseDod(p, byte)
      [] p.state = "LARGE16" -> ParseLarge16(p, byte)
      [] p.state = "VIRTUALBITS" -> ParseVirtualBits(p, byte)
=============================================================================
