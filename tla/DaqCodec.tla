------------------------------ MODULE DaqCodec ------------------------------
(***************************************************************************)
(* The DAQ sample codec: a writer that turns samples of some channels into *)
(* a stream of bytes with control marks, a link that carries the stream in *)
(* chunks and may lose some, and a reader that gathers blocks of samples   *)
(* from the chunks. The stream holds the program's own bytes.              *)
(*                                                                         *)
(* The caller offers samples and counts every one of them, flushes, sends  *)
(* what readNext gives it and takes the block that a chunk made ready      *)
(* before the next chunk is decoded, as test_Codec.cpp does.               *)
(***************************************************************************)
EXTENDS DodCode, SequencesExt

CONSTANTS
    Setups,      \* the channels, sizes and links tried, see SetupType
    MaxOffered,  \* bound: samples offered; below 256, so that a counter is a byte
    MaxFlush     \* bound: flushes before the last one

\* The setups the model is about. The reader's scratch buffer holds the resync
\* of 14 channels and an empty stream has room for the reserve of a resync;
\* readNext's caller leaves room for a resync. That a block is longer than the
\* resync period, without which residuals follow a full block into a buffer of
\* one sample, nothing in the code checks: two parties choose the two.
GoodSetup(s) ==
    /\ {s.ring, s.markRing, s.readSize, s.block} \subseteq Nat
    /\ s.channels \in 1 .. 14 /\ s.period \in 1 .. 255
    /\ s.ring - 1 > 16 * s.channels /\ s.readSize >= 5 + 4 * s.channels
    /\ s.markRing > 1 /\ s.block > s.period
    /\ s.losses \in Nat     \* bound: chunks the link loses
    /\ s.vectors \subseteq [1 .. s.channels -> Int16]

ASSUME SetupsAssumption == \A s \in Setups : GoodSetup(s)
ASSUME MaxOfferedAssumption == MaxOffered \in 0 .. 255 /\ MaxFlush \in Nat

VARIABLES
    setup,
    wccs, stream, marks, till, backpressure,  \* the writer
    reader,                                   \* the reader and its block
    offered, flushes, closed,                 \* the caller
    lost, torn, last    \* chunks lost; whether one was since the block's resync;
                        \* the last block handed out without a loss

caller == <<offered, flushes, closed>>
link == <<lost, torn, last>>
vars == <<setup, wccs, stream, marks, till, backpressure, reader, caller, link>>

Chan == 1 .. setup.channels
Resync == 255   \* ControlCode::RESYNCDOD
FlushCode == 254
ResyncSize == 5 + 4 * setup.channels

Init ==
    /\ setup \in Setups
    /\ wccs = [c \in Chan |-> [sample |-> 0, delta |-> 0]]
    /\ stream = << >> /\ marks = << >> /\ till = 0 /\ backpressure = FALSE
    /\ reader = [ccs |-> wccs, parse |-> Idle(<< >>), insync |-> FALSE,
                 pending |-> << >>,   \* a resync that no chunk has followed yet
                 ready |-> FALSE, counter |-> 0, samples |-> << >>]
    /\ offered = << >> /\ flushes = 0 /\ closed = FALSE
    /\ lost = 0 /\ torn = FALSE /\ last = [counter |-> 0, samples |-> << >>]

----------------------------------------------------------------------------
\* The writer.

Free == setup.ring - 1 - Len(stream)

\* mutant: room for the samples only.
MutReserve == 3 * setup.channels

\* CONTROL_RESERVE for every channel, in 8 bits.
Reserve == (16 * setup.channels) % 256

\* marks.push, whose result is not read.
Marked(size) ==
    IF Len(marks) < setup.markRing - 1
    THEN Append(marks, [at |-> Len(stream), size |-> size]) ELSE marks

\* internal_resync: the counter and every channel's state.
ResyncBytes(ccs) ==
    <<Resync, 0, 0, 0, Len(offered)>>
        \o FlattenSeq([c \in Chan |-> Bytes16(ccs[c].sample) \o Bytes16(ccs[c].delta)])

\* mutant: samples that were refused do not call for a resync.
MutpushSample(v) ==
    LET refused == backpressure \/ Free <= Reserve
        sync == ~refused /\ till = 0
        ccs == [c \in Chan |-> [sample |-> v[c], delta |-> Delta(wccs[c], v[c])]]
    IN /\ wccs' = ccs
       /\ backpressure' = refused
       /\ till' = IF refused THEN till ELSE IF sync THEN setup.period ELSE till - 1
       /\ stream' = IF refused THEN stream
                    ELSE IF sync THEN stream \o ResyncBytes(ccs)
                    ELSE stream \o FlattenSeq([c \in Chan |-> Code(Dod(wccs[c], v[c]))])
       /\ marks' = IF sync THEN Marked(ResyncSize) ELSE marks
       /\ offered' = Append(offered, [sample |-> v, accepted |-> ~refused])

\* Writer::pushSample: a refused sample updates the channels' states as well.
pushSample(v) ==
    LET refused == backpressure \/ Free <= Reserve
        sync == ~refused /\ till = 0
        ccs == [c \in Chan |-> [sample |-> v[c], delta |-> Delta(wccs[c], v[c])]]
    IN /\ wccs' = ccs
       /\ backpressure' = refused
       /\ till' = IF backpressure THEN till
                  ELSE IF refused THEN 0
                  ELSE IF sync THEN setup.period ELSE till - 1
       /\ stream' = IF refused THEN stream
                    ELSE IF sync THEN stream \o ResyncBytes(ccs)
                    ELSE stream \o FlattenSeq([c \in Chan |-> Code(Dod(wccs[c], v[c]))])
       /\ marks' = IF sync THEN Marked(ResyncSize) ELSE marks
       /\ offered' = Append(offered, [sample |-> v, accepted |-> ~refused])

\* Writer::flush, when it is not refused.
flush ==
    /\ Free > 16
    /\ stream' = Append(stream, FlushCode) /\ marks' = Marked(1)
    /\ till' = 0
    /\ UNCHANGED <<wccs, backpressure>>

Push ==
    /\ Len(offered) < MaxOffered
    /\ \E v \in setup.vectors : pushSample(v)
    /\ UNCHANGED <<setup, reader, flushes, closed, link>>

Flush ==
    /\ flushes < MaxFlush /\ flushes' = flushes + 1 /\ ~closed
    /\ flush
    /\ UNCHANGED <<setup, reader, offered, closed, link>>

\* The caller's last flush, after its last sample.
Close ==
    /\ Len(offered) = MaxOffered /\ ~closed /\ closed' = TRUE
    /\ flush
    /\ UNCHANGED <<setup, reader, offered, flushes, link>>

----------------------------------------------------------------------------
\* The next chunk: bytes up to the next mark, or the marked control bytes.

AtMark == marks # << >> /\ marks[1].at = 0
Min2(a, b) == IF a < b THEN a ELSE b
ChunkSize ==
    IF AtMark THEN marks[1].size
    ELSE Min2(setup.readSize, IF marks = << >> THEN Len(stream) ELSE marks[1].at)
Chunk == SubSeq(stream, 1, ChunkSize)

\* mutant: a control chunk that just fits is left.
MutFits ==
    /\ stream # << >> /\ ChunkSize < setup.readSize
    /\ stream' = SubSeq(stream, ChunkSize + 1, Len(stream))
    /\ LET left == IF AtMark THEN Tail(marks) ELSE marks
       IN marks' = [i \in DOMAIN left |-> [left[i] EXCEPT !.at = @ - ChunkSize]]
    /\ backpressure' = (backpressure /\ stream' # << >>)
    /\ UNCHANGED <<wccs, till>>

\* mutant: the mark of a control chunk stays.
MutreadNext ==
    /\ stream # << >> /\ ChunkSize <= setup.readSize
    /\ stream' = SubSeq(stream, ChunkSize + 1, Len(stream))
    /\ marks' = [i \in DOMAIN marks |-> [marks[i] EXCEPT !.at = @ - ChunkSize]]
    /\ backpressure' = (backpressure /\ stream' # << >>)
    /\ UNCHANGED <<wccs, till>>

\* Writer::readNext: a control chunk that does not fit is left.
readNext ==
    /\ stream # << >> /\ ChunkSize <= setup.readSize
    /\ stream' = SubSeq(stream, ChunkSize + 1, Len(stream))
    /\ LET left == IF AtMark THEN Tail(marks) ELSE marks
       IN marks' = [i \in DOMAIN left |-> [left[i] EXCEPT !.at = @ - ChunkSize]]
    /\ backpressure' = (backpressure /\ stream' # << >>)
    /\ UNCHANGED <<wccs, till>>

----------------------------------------------------------------------------
\* The reader.

\* mutant: the block is not cleared.
MutsyncUpdate(r) ==
    LET state(c) == [sample |-> FromBytes(r.pending[4 * c + 1], r.pending[4 * c + 2]),
                     delta |-> FromBytes(r.pending[4 * c + 3], r.pending[4 * c + 4])]
    IN [r EXCEPT !.counter = r.pending[4], !.pending = << >>, !.ready = FALSE,
                 !.ccs = [c \in Chan |-> state(c)],
                 !.samples = Append(@, [c \in Chan |-> state(c).sample])]

\* syncUpdate: a new block, from the resync's bytes.
syncUpdate(r) ==
    LET state(c) == [sample |-> FromBytes(r.pending[4 * c + 1], r.pending[4 * c + 2]),
                     delta |-> FromBytes(r.pending[4 * c + 3], r.pending[4 * c + 4])]
    IN [r EXCEPT !.counter = r.pending[4], !.pending = << >>, !.ready = FALSE,
                 !.ccs = [c \in Chan |-> state(c)],
                 !.samples = <<[c \in Chan |-> state(c).sample]>>]

\* emitSample: a full block leaves the residuals where they are.
emitSample(r) ==
    IF Len(r.samples) >= setup.block THEN r
    ELSE LET ccs == [c \in Chan |-> Decoded(r.ccs[c], r.parse.dods[c])]
         IN [r EXCEPT !.ccs = ccs, !.parse.dods = << >>,
                      !.samples = Append(@, [c \in Chan |-> ccs[c].sample])]

decodeByte(r, byte) ==
    LET p == ParseByte(r.parse, byte)
        parsed == [r EXCEPT !.parse = p]
    IN IF Len(p.dods) = setup.channels THEN emitSample(parsed) ELSE parsed

\* mutant: a flush hands nothing out.
MutdecodeControl(r, bytes) ==
    IF bytes[1] = Resync /\ Len(bytes) = ResyncSize
    THEN [r EXCEPT !.ready = @ \/ r.insync, !.insync = TRUE, !.pending = Tail(bytes),
                   !.parse = Idle(@.dods)]
    ELSE r

\* decodeControl: a resync ends the present block; it becomes the next one
\* when the next chunk comes. The residuals of half a sample stay.
decodeControl(r, bytes) ==
    IF bytes[1] = Resync /\ Len(bytes) = ResyncSize
    THEN [r EXCEPT !.ready = @ \/ r.insync, !.insync = TRUE, !.pending = Tail(bytes),
                   !.parse = Idle(@.dods)]
    ELSE IF bytes[1] = FlushCode THEN [r EXCEPT !.ready = @ \/ r.insync] ELSE r

\* decodeSample: every byte of the chunk in turn. The states that follow are
\* given as a set, here and in decode; it has one element.
decodeSample(r, bytes) ==
    LET after[i \in 0 .. Len(bytes)] ==
          IF i = 0 THEN {r} ELSE {decodeByte(q, bytes[i]) : q \in after[i - 1]}
    IN after[Len(bytes)]

\* Reader::decode
decode(r, bytes, control) ==
    LET synced == IF r.pending # << >> THEN syncUpdate(r) ELSE r
    IN IF control THEN {decodeControl(s, bytes) : s \in {synced}}
       ELSE IF r.insync THEN UNION {decodeSample(s, bytes) : s \in {synced}} ELSE {r}

\* A chunk arrives, and the caller takes a block that is ready.
Receive ==
    /\ readNext
    /\ \E r \in decode(reader, Chunk, AtMark) :
         /\ reader' = [r EXCEPT !.ready = FALSE]
         /\ last' = IF r.ready /\ ~torn THEN [counter |-> r.counter, samples |-> r.samples]
                    ELSE last
    /\ torn' = (torn /\ ~(AtMark /\ Chunk[1] = Resync))
    /\ UNCHANGED <<setup, caller, lost>>

\* A chunk is lost on the link.
Lose ==
    /\ lost < setup.losses /\ lost' = lost + 1
    /\ readNext /\ torn' = TRUE
    /\ UNCHANGED <<setup, reader, caller, last>>

Next == Push \/ Flush \/ Close \/ Receive \/ Lose

\* The caller sends what there is and closes; the link does not lose for ever.
Spec == Init /\ [][Next]_vars /\ WF_vars(Receive) /\ WF_vars(Close)

----------------------------------------------------------------------------
\* Properties.

ChState == [sample : Int16, delta : Int16]
CodecTypeOK ==
    /\ setup \in Setups
    /\ wccs \in [Chan -> ChState] /\ reader.ccs \in [Chan -> ChState]
    /\ \A i \in DOMAIN stream : stream[i] \in Byte
    /\ \A i \in DOMAIN marks :
         /\ marks[i].at >= 0 /\ marks[i].at + marks[i].size <= Len(stream)
         /\ stream[marks[i].at + 1] \in {Resync, FlushCode}
    /\ till \in 0 .. setup.period
    /\ reader.parse.state \in ParserState /\ Len(reader.parse.got) <= 1
    /\ Len(reader.pending) \in {0, ResyncSize - 1}

\* pushFast looks for no room: the reserve that pushSample and flush keep is
\* what stops them from overwriting bytes not yet read.
Room == Len(stream) <= setup.ring - 1

\* decodeSample stores residuals in dod_buf without a look at its end, and a
\* full block leaves it full: no byte may find it so.
InBounds == Len(reader.parse.dods) < setup.channels

\* What is handed out, without a loss in it, is what was accepted.
Channel == INSTANCE SampleChannel
           WITH lossy <- setup.losses > 0, Vectors <- UNION {s.vectors : s \in Setups}
ImplementsChannel == Channel!ChanSpec

\* Backpressure ends: the flag is cleared when the stream has been emptied,
\* which neither marks nor small reads may prevent.
BackpressureClears == backpressure ~> ~backpressure

\* On a link without loss every accepted sample is handed out once the caller
\* has closed the stream.
AllHandedOut ==
    setup.losses = 0 /\ closed
        ~> \A i \in DOMAIN offered : offered[i].accepted => Channel!End(last) >= i

\* test_Codec.cpp: on a link without loss, what is reconstructed is what was
\* offered.
Lossless ==
    setup.losses = 0 =>
        \A j \in DOMAIN last.samples :
            last.counter + j <= Len(offered)
                /\ offered[last.counter + j].sample = last.samples[j]
=============================================================================
