---------------------------- MODULE SerialPacket ----------------------------
(***************************************************************************)
(* The packets of serial recovery, as boot_serial builds and takes them with *)
(* the functions of the port: a length, a payload of header and data, and    *)
(* their CRC (crc16_port.c), the integers in network order (system_port.c),   *)
(* in base64 (base64_port.c), cut into lines. The UART may flip bits, make a   *)
(* line unreadable or lose it. A line is given by the bytes it stands for.     *)
(***************************************************************************)
EXTENDS Naturals, Sequences, FiniteSets, FiniteSetsExt

\* An unsigned integer is the set of its bits that are set.
Byte == SUBSET (0..7)
Word == SUBSET (0..15)

CONSTANTS
    Payloads,    \* what is sent
    LineBytes,   \* bytes that a line stands for at most
    BufSize,     \* of the packet before it is encoded
    MaxOut,      \* of the buffer that lines are decoded to
    Masks,       \* bits of two adjacent bytes that the UART may flip
    MaxPackets   \* bound: packets sent

ASSUME PacketAssumption ==
    /\ LineBytes \in Nat \ {0} /\ LineBytes % 3 = 0
    /\ BufSize \in Nat \ {0} /\ BufSize < 65536
    /\ MaxOut \in Nat /\ MaxPackets \in Nat
    /\ Masks \subseteq Byte \X Byte
    /\ Payloads \subseteq [hdr : Seq(Byte), data : Seq(Byte)]
    /\ \A p \in Payloads : p.hdr # <<>>

VARIABLES
    payload,    \* of the packet that is being sent
    packet,     \* its bytes, before they are encoded
    encoded,    \* they were
    off,        \* those of them whose line was sent
    out,        \* bytes decoded so far; out_off is their number
    accepted,   \* what the receiver took the packet for, or <<>>
    damaged,    \* a line of the packet was not delivered as it was sent
    packets

vars == <<payload, packet, encoded, off, out, accepted, damaged, packets>>

-----------------------------------------------------------------------------
(* crc16_port.c *)

ShiftLeft(x, n) == {b + n : b \in x}

\* Mutant: the polynomial without its last term.
ShiftOtherPolynomial(crc) ==
    IF 15 \in crc THEN SymDiff(ShiftLeft(crc, 1), {5, 12}) \cap (0..15)
                  ELSE ShiftLeft(crc, 1) \cap (0..15)

\* Bit 15 decides. The shift is done in an int, and cut to 16 bits when stored.
Shift(crc) ==
    IF 15 \in crc THEN SymDiff(ShiftLeft(crc, 1), {0, 5, 12}) \cap (0..15)
                  ELSE ShiftLeft(crc, 1) \cap (0..15)

WithByte(crc, byte) ==
    LET shifted[j \in 0..8] == IF j = 0 THEN SymDiff(crc, ShiftLeft(byte, 8))
                                        ELSE Shift(shifted[j - 1])
    IN  shifted[8]

crc16_port_ccitt(crc, data) ==
    LET after[i \in 0..Len(data)] == IF i = 0 THEN crc
                                              ELSE WithByte(after[i - 1], data[i])
    IN  after[Len(data)]

-----------------------------------------------------------------------------
(* system_port.c, and how a uint16_t lies in memory *)

Swapped(x) == {IF b < 8 THEN b + 8 ELSE b - 8 : b \in x}

system_port_htons(x) == Swapped(x)
system_port_ntohs(x) == Swapped(x)

Stored(x) == <<x \cap (0..7), {b - 8 : b \in x \ (0..7)}>>
Loaded(bytes) == bytes[1] \cup ShiftLeft(bytes[2], 8)

\* The uint16_t of a number.
Bits(n) ==
    LET half[b \in 0..15] == IF b = 0 THEN n ELSE half[b - 1] \div 2
    IN  {b \in 0..15 : half[b] % 2 = 1}

-----------------------------------------------------------------------------
(* base64_port.c; the library needs room for a final zero when it encodes *)

BASE64_ENCODE_SIZE(n) == ((n - 1) \div 3) * 4 + 4 + 1

base64_port_encode(dlen, slen) ==
    IF ((slen + 2) \div 3) * 4 + 1 <= dlen THEN "0" ELSE "-1"

base64_port_decode(line, dlen) ==
    IF line.readable /\ Len(line.bytes) <= dlen THEN "0" ELSE "-1"

-----------------------------------------------------------------------------
(* boot_serial_output *)

\* Mutant: the CRC is of the data alone.
CrcOfData(p) == crc16_port_ccitt({}, p.data)

\* The CRC of the header goes into that of the data.
Crc(p) == crc16_port_ccitt(crc16_port_ccitt({}, p.hdr), p.data)

Content(p) == p.hdr \o p.data

Packet(p) ==
    Stored(system_port_htons(Bits(Len(Content(p)) + 2))) \o Content(p)
        \o Stored(system_port_htons(Crc(p)))

\* What an encoding that failed leaves in the buffer is sent all the same.
Output(p) ==
    /\ off = Len(packet) /\ packets < MaxPackets
    /\ Len(Packet(p)) <= BufSize
    /\ payload' = p
    /\ packet' = Packet(p)
    /\ encoded' = (base64_port_encode(BASE64_ENCODE_SIZE(BufSize),
                                      Len(Packet(p))) = "0")
    /\ off' = 0
    /\ accepted' = <<>>
    /\ damaged' = FALSE
    /\ packets' = packets + 1
    /\ UNCHANGED out

\* The next line of the packet: the first is marked.
LineEnd == Min({off + LineBytes, Len(packet)})

Line == [start |-> off = 0, readable |-> encoded,
         bytes |-> SubSeq(packet, off + 1, LineEnd)]

-----------------------------------------------------------------------------
(* boot_serial_in_dec *)

\* Mutant: the whole buffer is taken to be free.
RoomOfAll(decoded) == MaxOut

Room(decoded) == MaxOut - Len(decoded)

\* As many bytes as the length says, which has 16 bits.
Complete(bytes) ==
    /\ Len(bytes) > 2 /\ Len(bytes) - 2 < 65536
    /\ system_port_ntohs(Loaded(bytes)) = Bits(Len(bytes) - 2)

\* Mutant: the CRC is not looked at.
CompleteSuffices(bytes) == Complete(bytes)

\* The CRC of something followed by its CRC is 0.
IsPacket(bytes) ==
    /\ Complete(bytes)
    /\ Len(bytes) > 4
    /\ crc16_port_ccitt({}, SubSeq(bytes, 3, Len(bytes))) = {}

\* A marked line begins a packet, any other continues one.
boot_serial_in_dec(line) ==
    LET before == IF line.start THEN <<>> ELSE out
        bytes  == before \o line.bytes
    IN  IF base64_port_decode(line, Room(before)) # "0"
        THEN out' = before /\ UNCHANGED accepted
        ELSE IF IsPacket(bytes)
        THEN /\ out' = SubSeq(bytes, 1, Len(bytes) - 2)
             /\ accepted' = SubSeq(bytes, 3, Len(bytes) - 2)
        ELSE out' = bytes /\ UNCHANGED accepted

-----------------------------------------------------------------------------
(* The UART (external) *)

Sends == off < Len(packet) /\ off' = LineEnd

Arrives(line) ==
    /\ Sends
    /\ boot_serial_in_dec(line)
    /\ UNCHANGED <<payload, packet, encoded, packets>>

Deliver == Arrives(Line) /\ UNCHANGED damaged

MayDamage == ~damaged /\ damaged' = TRUE

Flipped(bytes, k, mask) ==
    [i \in DOMAIN bytes |-> IF i = k THEN SymDiff(bytes[i], mask[1])
                            ELSE IF i = k + 1 THEN SymDiff(bytes[i], mask[2])
                            ELSE bytes[i]]

DeliverFlipped ==
    /\ MayDamage
    /\ \E k \in DOMAIN Line.bytes, mask \in Masks :
          Arrives([Line EXCEPT !.bytes = Flipped(@, k, mask)])

DeliverUnreadable == MayDamage /\ Arrives([Line EXCEPT !.readable = FALSE])

LoseLine ==
    /\ MayDamage /\ Sends
    /\ UNCHANGED <<payload, packet, encoded, out, accepted, packets>>

Init ==
    /\ payload \in Payloads
    /\ packet = <<>> /\ encoded = FALSE /\ off = 0
    /\ out = <<>> /\ accepted = <<>>
    /\ damaged = FALSE /\ packets = 0

Next ==
    \/ \E p \in Payloads : Output(p)
    \/ Deliver \/ DeliverFlipped \/ DeliverUnreadable \/ LoseLine

Spec == Init /\ [][Next]_vars

-----------------------------------------------------------------------------
\* A packet is never taken for another one: not after a burst of flipped bits,
\* a line that cannot be read, or a lost one, even the one that separates it
\* from the packet before. A payload with a packet inside, which begins where
\* a line does, is not that safe when the lines before it are lost.
AcceptedWasSent == accepted # <<>> => accepted = Content(payload)

\* A packet that arrives as it was sent is accepted, whatever was damaged
\* before it, if the receiver has room for it.
IntactAccepted ==
    packets > 0 /\ off = Len(packet) /\ ~damaged /\ Len(Packet(payload)) <= MaxOut
        => accepted = Content(payload)

\* Lines that continue a packet over and over do not get past the buffer.
OutFits == Len(out) <= MaxOut

\* crc16_port_ccitt computes what the protocol asks for (CRC-16 of CCITT): the
\* rest of the message, as a polynomial over the two-element field, times x^16
\* divided by x^16 + x^12 + x^5 + 1. A polynomial is the set of its exponents.
Polynomial(bytes) ==
    {e \in 0..(8 * Len(bytes) - 1) : e % 8 \in bytes[Len(bytes) - e \div 8]}

Remainder(poly, top) ==
    LET below[d \in 15..top] ==   \* the part of degree below d that is left
            IF d = top THEN poly
            ELSE LET p == below[d + 1]
                 IN  IF d + 1 \in p
                     THEN SymDiff(p, {d + 1, d - 3, d - 10, d - 15}) ELSE p
    IN  below[15]

CrcIsRemainder ==
    LET message == {e + 16 : e \in Polynomial(Content(payload))}
    IN  Crc(payload) = Remainder(message, 8 * Len(Content(payload)) + 16)
=============================================================================
