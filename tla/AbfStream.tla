----------------------------- MODULE AbfStream -----------------------------
(***************************************************************************)
(* The framing of fdlib/middleware/ABFStream.cpp and the link it runs on:  *)
(* DAQSessionAPP::send writes a header and a payload, each accepted whole  *)
(* or refused for lack of room, its result unread; the reader takes the    *)
(* bytes in chunks of any length and decodes them one by one.              *)
(*                                                                         *)
(* The checksum is abstract: never zero, a function of the three bytes.    *)
(***************************************************************************)
EXTENDS Integers, Sequences, FiniteSets

CONSTANTS
    W,          \* values of a byte (256)
    Capacities, \* sizes of a receive buffer
    Payloads,   \* payloads the application sends
    Room,       \* bytes the link holds
    MaxFrames,  \* bound on the frames sent
    Shared      \* TRUE: chunks are read into the receive buffer (sys.cpp)

Byte == 0 .. W - 1

ASSUME WAssumption == W \in Nat /\ W > 2
ASSUME CapacitiesAssumption == Capacities \subseteq 1 .. W - 1
ASSUME PayloadsAssumption ==
    \A p \in Payloads : p \in Seq(Byte) /\ Len(p) \in 1 .. W - 1
ASSUME LinkAssumption == Room \in Nat /\ MaxFrames \in Nat /\ Shared \in BOOLEAN

VARIABLES
    capacity,  \* m_rxCapacity, given to the constructor
    sent,      \* history: the frames, and whether header and payload got in
    link,      \* the bytes in flight
    chunk,     \* the bytes read and not yet processed
    at,        \* their place in the receive buffer, when shared
    mem,       \* m_rxPayload
    state, header, headerPos, rxPos, nextZero,
    delivered, errors  \* history: calls of onFrame and of onError

decoder == <<capacity, mem, state, header, headerPos, rxPos, nextZero>>
vars == <<sent, link, chunk, at, decoder, delivered, errors>>

SYNC_BYTE == 0
HEADER_SIZE == 5
Service == 1

----------------------------------------------------------------------------
\* Encoding.

Crc(a, b, c) == LET s == (a + b + c) % W IN IF s = 0 THEN W - 1 ELSE s

\* How far the next zero after position i is, the end counting as one.
Distance(p, i) ==
    CHOOSE d \in 1 .. Len(p) + 1 - i :
        /\ i + d = Len(p) + 1 \/ p[i + d] = 0
        /\ \A e \in 1 .. d - 1 : p[i + e] # 0

Code(p) == Distance(p, 0) % W
Header(p) == <<SYNC_BYTE, Service, Len(p), Code(p), Crc(Service, Len(p), Code(p))>>

\* mutant: the distance is one short
MutEncoded(p) == [i \in 1 .. Len(p) |-> IF p[i] = 0 THEN (Distance(p, i) - 1) % W ELSE p[i]]
\* The payload, each zero replaced by the distance to the next.
Encoded(p) == [i \in 1 .. Len(p) |-> IF p[i] = 0 THEN Distance(p, i) % W ELSE p[i]]

----------------------------------------------------------------------------
\* DAQSessionAPP::send and the link.

Fits(bytes) == Len(link) + Len(bytes) <= Room
\* fd_usbxch_write: all or nothing
Writes(bytes) == link' = IF Fits(bytes) THEN link \o bytes ELSE link

Init ==
    /\ sent = << >> /\ link = << >> /\ chunk = << >> /\ at = 0
    /\ capacity \in Capacities
    /\ mem = [i \in 0 .. capacity - 1 |-> 0]
    /\ state = "HUNT_SYNC" /\ header = [i \in 0 .. HEADER_SIZE - 1 |-> 0]
    /\ headerPos = 0 /\ rxPos = 0 /\ nextZero = 0
    /\ delivered = << >> /\ errors = 0

Sending == sent # << >> /\ sent[Len(sent)].body = "pending"

SendHeader(p) ==
    /\ ~Sending /\ Len(sent) < MaxFrames
    /\ Writes(Header(p))
    /\ sent' = Append(sent, [payload |-> p, head |-> Fits(Header(p)), body |-> "pending"])
    /\ UNCHANGED <<chunk, at, decoder, delivered, errors>>

SendPayload ==
    /\ Sending
    /\ LET n == Len(sent)
           e == Encoded(sent[n].payload)
       IN /\ Writes(e)
          /\ sent' = [sent EXCEPT ![n].body = IF Fits(e) THEN "in" ELSE "refused"]
    /\ UNCHANGED <<chunk, at, decoder, delivered, errors>>

\* The bytes read, over the start of the receive buffer when it is shared.
Overwritten(n) ==
    IF Shared THEN [i \in 0 .. capacity - 1 |-> IF i < n THEN link[i + 1] ELSE mem[i]]
    ELSE mem

Read(n) ==
    /\ chunk = << >> /\ n <= Len(link) /\ (Shared => n <= capacity)
    /\ chunk' = SubSeq(link, 1, n) /\ at' = 0
    /\ link' = SubSeq(link, n + 1, Len(link))
    /\ mem' = Overwritten(n)
    /\ UNCHANGED <<sent, capacity, state, header, headerPos, rxPos, nextZero, delivered, errors>>

----------------------------------------------------------------------------
\* Stream::process, a byte at a time.

\* data[i] once the store st has been made
Data(st) == IF Shared THEN st[at] ELSE Head(chunk)

NextByte ==
    /\ chunk # << >> /\ chunk' = Tail(chunk)
    /\ at' = IF Shared /\ chunk' # << >> THEN at + 1 ELSE 0
    /\ UNCHANGED <<sent, link, capacity>>

\* mutant: the decoder stays in the payload
MutReset == rxPos' = 0 /\ headerPos' = 0 /\ UNCHANGED state
Reset == state' = "HUNT_SYNC" /\ rxPos' = 0 /\ headerPos' = 0

HuntSync ==
    /\ NextByte /\ state = "HUNT_SYNC"
    /\ IF Data(mem) = SYNC_BYTE
       THEN state' = "READ_HEADER" /\ headerPos' = 1 /\ header' = [header EXCEPT ![0] = SYNC_BYTE]
       ELSE UNCHANGED <<state, headerPos, header>>
    /\ UNCHANGED <<mem, rxPos, nextZero, delivered, errors>>

HeaderByte ==
    /\ NextByte /\ state = "READ_HEADER" /\ headerPos < HEADER_SIZE - 1
    /\ header' = [header EXCEPT ![headerPos] = Data(mem)]
    /\ headerPos' = headerPos + 1
    /\ UNCHANGED <<mem, state, rxPos, nextZero, delivered, errors>>

\* A mismatch resets the decoder and is reported; the payload is read all the same.
HeaderEnd ==
    /\ NextByte /\ state = "READ_HEADER" /\ headerPos = HEADER_SIZE - 1
    /\ header' = [header EXCEPT ![headerPos] = Data(mem)]
    /\ LET ok == Data(mem) = Crc(header[1], header[2], header[3])
       IN /\ headerPos' = IF ok THEN HEADER_SIZE ELSE 1
          /\ errors' = IF ok THEN errors ELSE errors + 1
    /\ nextZero' = header[3] /\ state' = "READ_PAYLOAD" /\ rxPos' = 0
    /\ UNCHANGED <<mem, delivered>>

\* mutant: the distance does not wrap
MutCountdown == nextZero - 1
Countdown == (nextZero - 1) % W

\* The byte d goes to position pos, a zero where the distance says so. With a
\* shared buffer the distance is read after the zero is stored.
Store(pos, d) ==
    IF nextZero = 1
    THEN /\ mem' = [mem EXCEPT ![pos] = 0]
         /\ nextZero' = Data(mem')
    ELSE /\ mem' = [mem EXCEPT ![pos] = d]
         /\ nextZero' = Countdown

\* The end of a frame, when pos bytes of it are in.
Ends(pos) ==
    IF pos = header[2]
    THEN Reset /\ delivered' = Append(delivered, [i \in 1 .. pos |-> mem'[i - 1]])
    ELSE UNCHANGED delivered

StoreByte ==
    /\ NextByte /\ state = "READ_PAYLOAD"
    /\ rxPos < header[2] /\ Data(mem) # SYNC_BYTE /\ rxPos < capacity
    /\ Store(rxPos, Data(mem)) /\ Ends(rxPos + 1)
    /\ rxPos + 1 # header[2] => rxPos' = rxPos + 1 /\ UNCHANGED <<state, headerPos>>
    /\ UNCHANGED <<header, errors>>

\* A zero in a payload: the decoder resets, reports, stores the byte all the
\* same, and delivers if the frame had one byte.
Incomplete ==
    /\ NextByte /\ state = "READ_PAYLOAD"
    /\ rxPos < header[2] /\ Data(mem) = SYNC_BYTE
    /\ Store(0, SYNC_BYTE) /\ Ends(1)
    /\ header[2] # 1 => state' = "HUNT_SYNC" /\ rxPos' = 1 /\ headerPos' = 0
    /\ errors' = errors + 1
    /\ UNCHANGED header

BufferSmall ==
    /\ NextByte /\ state = "READ_PAYLOAD"
    /\ rxPos < header[2] /\ Data(mem) # SYNC_BYTE /\ rxPos >= capacity
    /\ Reset /\ errors' = errors + 1
    /\ UNCHANGED <<mem, nextZero, header, delivered>>

\* A header that announces no payload is delivered at the next byte.
EmptyFrame ==
    /\ NextByte /\ state = "READ_PAYLOAD" /\ header[2] = 0
    /\ Reset /\ delivered' = Append(delivered, << >>)
    /\ UNCHANGED <<mem, nextZero, header, errors>>

Process ==
    \/ HuntSync \/ HeaderByte \/ HeaderEnd
    \/ StoreByte \/ Incomplete \/ BufferSmall \/ EmptyFrame

Next ==
    \/ \E p \in Payloads : SendHeader(p)
    \/ SendPayload
    \/ \E n \in 0 .. Room : Read(n)
    \/ Process

Spec == Init /\ [][Next]_vars

----------------------------------------------------------------------------
\* Properties.

\* The values of the link and the decoder: the indices stay inside the header
\* and the receive buffer, and no delivered length exceeds it.
AbfTypeOK ==
    /\ link \in Seq(Byte) /\ Len(link) <= Room
    /\ chunk \in Seq(Byte) /\ at \in Nat /\ (Shared => at + Len(chunk) <= capacity)
    /\ capacity \in Capacities /\ mem \in [0 .. capacity - 1 -> Byte]
    /\ state \in {"HUNT_SYNC", "READ_HEADER", "READ_PAYLOAD"}
    /\ header \in [0 .. HEADER_SIZE - 1 -> Byte] /\ headerPos \in 0 .. HEADER_SIZE
    /\ state = "READ_HEADER" => headerPos \in 1 .. HEADER_SIZE - 1
    /\ rxPos \in 0 .. capacity /\ nextZero \in Byte
    /\ state = "READ_PAYLOAD" => rxPos <= header[2]
    /\ \A k \in 1 .. Len(delivered) : Len(delivered[k]) <= capacity

\* The frames whose payload the buffer holds, and how many of the first n are.
Held(k) == Len(sent[k].payload) <= capacity
HeldUpTo(n) == Cardinality({k \in 1 .. n : Held(k)})

Accepted(k) == sent[k].head /\ sent[k].body = "in"
AllAccepted == \A k \in 1 .. Len(sent) : sent[k].head /\ sent[k].body # "refused"
\* The frame before this one got in whole, or there was none.
CleanStart(k) == k = 1 \/ Accepted(k - 1)
\* Got in whole, after a clean start, and no longer than the buffer.
Safe(k) == Accepted(k) /\ CleanStart(k) /\ Held(k)
Drained == link = << >> /\ chunk = << >> /\ ~Sending

(***************************************************************************)
(* While no write has been refused, the reader gets exactly the payloads   *)
(* sent that its buffer holds, in order, however the bytes are cut into    *)
(* chunks; an error is reported for each of the others and for nothing     *)
(* else.                                                                   *)
(***************************************************************************)
Intact ==
    AllAccepted =>
        /\ \E n \in 0 .. Len(sent) :
               /\ Len(delivered) = HeldUpTo(n)
               /\ \A k \in 1 .. n : Held(k) => delivered[HeldUpTo(k)] = sent[k].payload
        /\ Drained => /\ Len(delivered) = HeldUpTo(Len(sent))
                      /\ errors = Len(sent) - HeldUpTo(Len(sent))

(***************************************************************************)
(* A refused write costs at most its own frame and the next: a frame that  *)
(* got in whole right after one that did is delivered as it was sent. (A   *)
(* header with a zero code, of 255 bytes without a zero, is excepted: the  *)
(* decoder may take the code for a sync byte.)                             *)
(***************************************************************************)
LossBounded ==
    LET safe == {k \in 1 .. Len(sent) : Safe(k)}
    IN Drained /\ (\A k \in 1 .. Len(sent) : Code(sent[k].payload) # SYNC_BYTE) =>
         \E place \in [safe \cup {0} -> 0 .. Len(delivered)] :
             /\ \A j, k \in safe \cup {0} : j < k => place[j] < place[k]
             /\ \A k \in safe : delivered[place[k]] = sent[k].payload
=============================================================================
