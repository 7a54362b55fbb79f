----------------------------- MODULE SerialPort -----------------------------
(***************************************************************************)
(* The mcumgr UART of the ESP32 port (boot_serial_port.c): bytes arrive in  *)
(* the receive FIFO by hardware while readline polls and drains it, and     *)
(* boot_port_serial_read hands what it got to MCUboot's boot_serial_start   *)
(* with a flag that says whether a full line was read. Responses go out     *)
(* through the transmit FIFO.                                               *)
(*                                                                          *)
(* A byte is the number of its place in the stream the host sends; which    *)
(* of them are newlines is the host's choice.                               *)
(***************************************************************************)
EXTENDS Naturals, Sequences, FiniteSets

CONSTANTS
    FifoSize,    \* of each of the two hardware FIFOs; 128 bytes
    MaxInput,    \* boot_serial's input buffer; 512 bytes
    ReplySizes,  \* lengths of the responses boot_serial writes
    MaxBytes     \* bound: bytes the host sends

ASSUME PortAssumption ==
    /\ FifoSize \in Nat \ {0} /\ MaxInput \in Nat \ {0}
    /\ ReplySizes \subseteq Nat \ {0}
    /\ MaxBytes \in Nat

VARIABLES
    \* the host and the wire
    polite,    \* it awaits the answer to a line, and sends none that is longer
               \* than the input buffer; a host is one or the other throughout
    sent,      \* bytes sent
    newlines,  \* those of them that are newlines
    lost,      \* those that arrived at a full FIFO
    rxfifo,
    txfifo,    \* bytes that wait to go out
    \* readline and boot_port_serial_read
    pc, len, i, stop,
    buf,       \* the bytes stored from buf[0] on; n_read is their number
    cap,
    newline,   \* the flag of the last call
    \* boot_serial_start
    off,       \* bytes of the current line it has collected
    taken,     \* bytes of all finished calls
    \* the transmit side
    reply,     \* bytes of the responses written so far
    cut        \* bytes of them that found the FIFO full

host   == <<polite, sent, newlines>>
reader == <<pc, len, i, stop, buf, cap, newline>>
loop   == <<off, taken>>
tx     == <<txfifo, reply, cut>>
vars   == <<host, lost, rxfifo, reader, loop, tx>>

n_read == Len(buf)
IsNewline(b) == b \in newlines
LastByte == buf[n_read]
Lesser(m, n) == IF m < n THEN m ELSE n

-----------------------------------------------------------------------------
(* The host, and the UART's receiver (external) *)

\* The bytes of the line being sent; a polite host begins one only when
\* nothing of the previous one is left unanswered.
LineStart == IF newlines = {} THEN 1
             ELSE 1 + CHOOSE b \in newlines : \A c \in newlines : c <= b
Quiet ==
    /\ rxfifo = <<>> /\ txfifo = 0
    /\ pc \in {"idle", "poll", "drain"}
    /\ pc # "idle" => buf = <<>>

MayBeginLine == polite /\ sent + 1 = LineStart => Quiet
MustEndLine  == polite /\ sent + 2 - LineStart = MaxInput

SendByte(isNewline) ==
    /\ sent < MaxBytes /\ MayBeginLine
    /\ MustEndLine => isNewline
    /\ sent' = sent + 1
    /\ newlines' = IF isNewline THEN newlines \cup {sent + 1} ELSE newlines
    /\ IF Len(rxfifo) < FifoSize
          THEN rxfifo' = Append(rxfifo, sent + 1) /\ UNCHANGED lost
          ELSE lost' = lost \cup {sent + 1} /\ UNCHANGED rxfifo
    /\ UNCHANGED <<polite, reader, loop, tx>>

-----------------------------------------------------------------------------
(* boot_port_serial_read and readline *)

\* Mutant: it keeps a place for a terminator.
ReadLess ==
    /\ pc = "idle" /\ off < MaxInput
    /\ cap' = MaxInput - off - 1
    /\ buf' = <<>> /\ stop' = FALSE
    /\ len' = 0 /\ i' = 0
    /\ pc' = "poll"
    /\ UNCHANGED <<host, lost, rxfifo, newline, loop, tx>>

\* boot_serial_start reads into what is left of its buffer.
Read ==
    /\ pc = "idle" /\ off < MaxInput
    /\ cap' = MaxInput - off
    /\ buf' = <<>> /\ stop' = FALSE
    /\ len' = 0 /\ i' = 0
    /\ pc' = "poll"
    /\ UNCHANGED <<host, lost, rxfifo, newline, loop, tx>>

\* How many bytes are there now: those that arrive later wait for the next
\* turn of the outer loop.
Poll ==
    /\ pc = "poll"
    /\ len' = Len(rxfifo) /\ i' = 0
    /\ pc' = "drain"
    /\ UNCHANGED <<host, lost, rxfifo, stop, buf, cap, newline, loop, tx>>

\* Mutants: only a full buffer stops; what does not fit is dropped.
DrainToCapacity ==
    /\ pc = "drain" /\ i < len
    /\ buf' = Append(buf, Head(rxfifo)) /\ rxfifo' = Tail(rxfifo)
    /\ stop' = (stop \/ Len(buf') = cap)
    /\ i' = i + 1
    /\ UNCHANGED <<host, lost, pc, len, cap, newline, loop, tx>>

DrainTruncates ==
    /\ pc = "drain" /\ i < len
    /\ buf' = IF n_read < cap THEN Append(buf, Head(rxfifo)) ELSE buf
    /\ rxfifo' = Tail(rxfifo)
    /\ stop' = (stop \/ Len(buf') = cap \/ IsNewline(Head(rxfifo)))
    /\ i' = i + 1
    /\ UNCHANGED <<host, lost, pc, len, cap, newline, loop, tx>>

\* The inner loop takes one of them; stop ends the outer loop only.
Drain ==
    /\ pc = "drain" /\ i < len
    /\ buf' = Append(buf, Head(rxfifo))
    /\ rxfifo' = Tail(rxfifo)
    /\ stop' = (stop \/ Len(buf') = cap \/ IsNewline(Head(rxfifo)))
    /\ i' = i + 1
    /\ UNCHANGED <<host, lost, pc, len, cap, newline, loop, tx>>

Drained ==
    /\ pc = "drain" /\ i = len
    /\ pc' = IF stop THEN "return" ELSE "poll"
    /\ UNCHANGED <<host, lost, rxfifo, len, i, stop, buf, cap, newline, loop, tx>>

\* Mutant: a read that did not fill the buffer must have been a line.
ReturnByLength ==
    /\ pc = "return"
    /\ newline' = (n_read < cap)
    /\ pc' = "returned"
    /\ UNCHANGED <<host, lost, rxfifo, len, i, stop, buf, cap, loop, tx>>

\* boot_port_serial_read looks at the last byte for its flag.
Return ==
    /\ pc = "return"
    /\ newline' = IsNewline(LastByte)
    /\ pc' = "returned"
    /\ UNCHANGED <<host, lost, rxfifo, len, i, stop, buf, cap, loop, tx>>

-----------------------------------------------------------------------------
(* boot_serial_start's loop (external): a full line is handled and answered,*)
(* a full buffer without one is dropped                                     *)

Full == off + n_read >= MaxInput

Collect ==
    /\ pc = "returned"
    /\ taken' = taken \o buf
    /\ \/ newline /\ off' = 0 /\ pc' = "answer"
       \/ ~newline /\ off' = (IF Full THEN 0 ELSE off + n_read) /\ pc' = "idle"
    /\ UNCHANGED <<host, lost, rxfifo, len, i, stop, buf, cap, newline, tx>>

\* Mutants: the level of the FIFO is ignored; its last place is not used.
WriteUnchecked(cnt) ==
    /\ pc = "answer"
    /\ txfifo' = txfifo + cnt /\ reply' = reply + cnt
    /\ pc' = "idle"
    /\ UNCHANGED <<host, lost, rxfifo, len, i, stop, buf, cap, newline, loop, cut>>

WriteLeavesOne(cnt) ==
    /\ pc = "answer"
    /\ LET stored == Lesser(cnt, FifoSize - 1 - txfifo)
       IN  txfifo' = txfifo + stored /\ cut' = cut + cnt - stored
    /\ reply' = reply + cnt
    /\ pc' = "idle"
    /\ UNCHANGED <<host, lost, rxfifo, len, i, stop, buf, cap, newline, loop>>

\* boot_port_serial_write pushes the whole response, whatever fits.
Write(cnt) ==
    /\ pc = "answer"
    /\ LET stored == Lesser(cnt, FifoSize - txfifo)
       IN  /\ txfifo' = txfifo + stored
           /\ cut' = cut + cnt - stored
    /\ reply' = reply + cnt
    /\ pc' = "idle"
    /\ UNCHANGED <<host, lost, rxfifo, len, i, stop, buf, cap, newline, loop>>

\* The UART sends a byte (external).
Transmit ==
    /\ txfifo > 0
    /\ txfifo' = txfifo - 1
    /\ UNCHANGED <<host, lost, rxfifo, reader, loop, reply, cut>>

-----------------------------------------------------------------------------
\* After boot_port_serial_init has reset both FIFOs.
Init ==
    /\ polite \in BOOLEAN
    /\ sent = 0 /\ newlines = {} /\ lost = {}
    /\ rxfifo = <<>> /\ txfifo = 0
    /\ pc = "idle" /\ len = 0 /\ i = 0 /\ stop = FALSE
    /\ buf = <<>> /\ cap = 0 /\ newline = FALSE
    /\ off = 0 /\ taken = <<>>
    /\ reply = 0 /\ cut = 0

Device ==
    \/ Read \/ Poll \/ Drain \/ Drained \/ Return
    \/ Collect
    \/ \E cnt \in ReplySizes : Write(cnt)

Next == Device \/ Transmit \/ \E isNewline \in BOOLEAN : SendByte(isNewline)

\* The bootloader runs and the UART sends; nothing makes the host send.
Spec == Init /\ [][Next]_vars /\ WF_vars(Device) /\ WF_vars(Transmit)

-----------------------------------------------------------------------------
TypeOK ==
    /\ polite \in BOOLEAN
    /\ sent \in 0..MaxBytes
    /\ newlines \subseteq 1..sent /\ lost \subseteq 1..sent
    /\ rxfifo \in Seq(1..sent) /\ Len(rxfifo) <= FifoSize
    /\ txfifo \in 0..FifoSize
    /\ pc \in {"idle", "poll", "drain", "return", "returned", "answer"}
    /\ len \in 0..FifoSize /\ i \in 0..len
    /\ stop \in BOOLEAN /\ newline \in BOOLEAN
    /\ buf \in Seq(1..sent) /\ cap \in 0..MaxInput
    /\ off \in 0..MaxInput
    /\ taken \in Seq(1..sent)
    /\ reply \in Nat /\ cut \in 0..reply

InReadline == pc \in {"poll", "drain", "return", "returned"}

\* What was handed over, what readline holds and what the FIFO holds.
Arrived == taken \o (IF InReadline THEN buf ELSE <<>>) \o rxfifo

\* Polling, draining in turns and returning in pieces neither loses, repeats
\* nor reorders a byte: all that no full FIFO dropped is there, once, and in
\* the order in which it was sent.
DeliveredInOrder ==
    /\ {Arrived[k] : k \in DOMAIN Arrived} = (1..sent) \ lost
    /\ \A j, k \in DOMAIN Arrived : j < k => Arrived[j] < Arrived[k]

\* "Stop at capacity or once full packet is ingested": readline stores no
\* more than the caller has room for, whoever sends.
WithinCapacity == InReadline => n_read <= cap

\* With a polite host it never does.
StopsAtCapacity == polite => WithinCapacity

\* The flag is set if and only if the bytes that are returned contain the end of
\* a line; PORTING.md:88 has it set "upon reading a full line".
LineFlagged ==
    pc = "returned" => (newline <=> \E k \in 1..n_read : IsNewline(buf[k]))

\* With a polite host the flag says so exactly.
FullLineFlagged == polite => LineFlagged

AnswersWhole == (\A cnt \in ReplySizes : cnt <= FifoSize) => cut = 0

\* A host that awaits each answer gets each answer whole, if no response is
\* larger than the FIFO.
RepliesWhole == polite => AnswersWhole

\* A newline that reached the FIFO ends a call of read sooner or later,
\* however the call's polls and the arrival of the bytes fall together.
LineIsReturned ==
    (\E k \in 1..Len(rxfifo) : IsNewline(rxfifo[k])) ~> pc = "returned"
=============================================================================
