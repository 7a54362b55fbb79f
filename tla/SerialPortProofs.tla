-------------------------- MODULE SerialPortProofs --------------------------
(***************************************************************************)
(* The serial port for FIFOs, buffers, responses and inputs of any size. The *)
(* types hold for every host, and so does the order of what arrives: the     *)
(* bytes delivered, in the buffer and in the FIFO are together all that were *)
(* sent and not dropped by a full FIFO. For a polite host the inductive      *)
(* invariant says that all bytes on the device are of one line: they fit the *)
(* input buffer, a newline can only be the last of them, and while a         *)
(* response goes out there are none.                                         *)
(***************************************************************************)
EXTENDS SerialPort, SequenceTheorems, TLAPS

\* The bytes that Poll counted are there until Drain takes them.
DrainLeft == pc = "drain" => len - i <= Len(rxfifo)

TypeInv == TypeOK /\ DrainLeft

\* The host is between two lines.
Closed == sent + 1 = LineStart

\* The bytes readline has stored, and those it has not taken yet.
Stored == IF InReadline THEN n_read ELSE 0
Held   == Stored + Len(rxfifo)

NewlinesHaveLast ==
    newlines = {} \/ \E b \in newlines : \A c \in newlines : c <= b
WholeBuffer == off = 0 /\ (InReadline => cap = MaxInput)
HeldFits ==
    /\ Held <= MaxInput
    /\ ~Closed => Held <= sent + 1 - LineStart /\ sent + 1 - LineStart < MaxInput
NewlineLastInFifo ==
    \A k \in 1..Len(rxfifo) : IsNewline(rxfifo[k]) => k = Len(rxfifo) /\ Closed
NewlineLastInBuf ==
    InReadline => \A k \in 1..n_read :
        IsNewline(buf[k]) => k = n_read /\ rxfifo = <<>> /\ Closed
StopsForCause ==
    /\ InReadline /\ stop => n_read > 0 /\ (n_read = cap \/ IsNewline(LastByte))
    /\ pc \in {"return", "returned"} => stop
AnswersWholeLine == pc = "answer" => rxfifo = <<>> /\ Closed
TxWhileQuiet ==
    txfifo > 0 => /\ Closed /\ rxfifo = <<>>
                  /\ pc \in {"idle", "poll", "drain"}
                  /\ pc # "idle" => buf = <<>>

PoliteInv ==
    /\ TypeInv
    /\ NewlinesHaveLast
    /\ WholeBuffer
    /\ HeldFits
    /\ NewlineLastInFifo /\ NewlineLastInBuf
    /\ StopsForCause
    /\ LineFlagged
    /\ AnswersWholeLine
    /\ TxWhileQuiet
    /\ AnswersWhole
-----------------------------------------------------------------------------
(* Every host: the types *)

\* A sequence of bytes sent stays one when more are sent.
LEMMA SeqWiden ==
    ASSUME NEW n \in Nat, NEW s \in Seq(1..n)
    PROVE  s \in Seq(1..(n + 1))
  OBVIOUS

\* Taking the head of a sequence leaves a shorter one of the same bytes.
LEMMA HeadTail ==
    ASSUME NEW S, NEW s \in Seq(S), s # <<>>
    PROVE  /\ Head(s) \in S /\ Head(s) = s[1]
           /\ Tail(s) \in Seq(S) /\ Len(Tail(s)) = Len(s) - 1
           /\ \A k \in 1..Len(s) - 1 : Tail(s)[k] = s[k + 1]
  OBVIOUS

\* Appending adds one place, at the end.
LEMMA AppendOne ==
    ASSUME NEW S, NEW s \in Seq(S), NEW e \in S
    PROVE  /\ Append(s, e) \in Seq(S) /\ Len(Append(s, e)) = Len(s) + 1
           /\ Append(s, e)[Len(s) + 1] = e
           /\ \A k \in 1..Len(s) : Append(s, e)[k] = s[k]
  OBVIOUS

\* An idle port has the types.
LEMMA TypeInit == Init => TypeInv
  <1> SUFFICES ASSUME Init PROVE TypeInv
    OBVIOUS
  <1> USE PortAssumption DEF Init
  <1>1. stop \in BOOLEAN /\ newline \in BOOLEAN
    OBVIOUS
  <1>2. rxfifo \in Seq(1..sent) /\ buf \in Seq(1..sent) /\ taken \in Seq(1..sent)
    OBVIOUS
  <1>3. Len(rxfifo) <= FifoSize
    OBVIOUS
  <1> QED BY <1>1, <1>2, <1>3 DEF TypeInv, TypeOK, DrainLeft

\* The host's step: the sets and sequences of bytes grow with "sent".
LEMMA TypeSendByte ==
    ASSUME TypeInv, NEW isNewline \in BOOLEAN, SendByte(isNewline)
    PROVE  TypeInv'
  <1> USE PortAssumption
  <1>1. sent \in Nat /\ sent' = sent + 1 /\ sent' \in 0..MaxBytes
    BY DEF TypeInv, TypeOK, SendByte
  <1>2. newlines' \subseteq 1..sent' /\ lost' \subseteq 1..sent'
    <2>1. newlines' \subseteq newlines \cup {sent + 1}
      BY DEF SendByte
    <2>2. lost' \subseteq lost \cup {sent + 1}
      BY DEF SendByte
    <2>3. newlines \subseteq 1..sent /\ lost \subseteq 1..sent
      BY DEF TypeInv, TypeOK
    <2>4. 1..sent \cup {sent + 1} \subseteq 1..sent'
      BY <1>1
    <2> QED BY <2>1, <2>2, <2>3, <2>4
  <1>3. /\ rxfifo \in Seq(1..sent') /\ buf \in Seq(1..sent')
        /\ taken \in Seq(1..sent')
    BY <1>1, SeqWiden DEF TypeInv, TypeOK
  <1>4. /\ rxfifo' \in Seq(1..sent') /\ Len(rxfifo') <= FifoSize
        /\ Len(rxfifo') >= Len(rxfifo)
    <2>1. CASE Len(rxfifo) < FifoSize
      <3>1. rxfifo' = Append(rxfifo, sent + 1) /\ sent + 1 \in 1..sent'
        BY <1>1, <2>1 DEF SendByte
      <3>2. rxfifo' \in Seq(1..sent') /\ Len(rxfifo') = Len(rxfifo) + 1
        BY <1>3, <3>1, AppendOne
      <3>3. Len(rxfifo) \in Nat
        BY <1>3
      <3> QED BY <2>1, <3>2, <3>3
    <2>2. CASE ~(Len(rxfifo) < FifoSize)
      <3>1. rxfifo' = rxfifo
        BY <2>2 DEF SendByte
      <3>2. Len(rxfifo) \in Nat /\ Len(rxfifo) <= FifoSize
        BY <1>3 DEF TypeInv, TypeOK
      <3> QED BY <1>3, <3>1, <3>2
    <2> QED BY <2>1, <2>2
  <1>5. UNCHANGED <<pc, len, i, stop, buf, cap, newline, off, taken, txfifo, reply, cut>>
    BY DEF SendByte, reader, loop, tx
  <1>6. TypeOK'
    <2>1. polite' \in BOOLEAN
      BY DEF TypeInv, TypeOK, SendByte
    <2> QED BY <2>1, <1>1, <1>2, <1>3, <1>4, <1>5 DEF TypeInv, TypeOK
  <1>7. DrainLeft'
    BY <1>1, <1>3, <1>4, <1>5 DEF TypeInv, TypeOK, DrainLeft
  <1> QED BY <1>6, <1>7 DEF TypeInv

\* Drain takes a byte that is there.
LEMMA TypeDrain ==
    ASSUME TypeInv, Drain
    PROVE  /\ TypeInv'
           /\ rxfifo # <<>>
           /\ Len(buf') = n_read + 1 /\ Len(rxfifo') = Len(rxfifo) - 1
           /\ buf'[n_read + 1] = Head(rxfifo) /\ Head(rxfifo) = rxfifo[1]
           /\ \A k \in 1..n_read : buf'[k] = buf[k]
           /\ \A k \in 1..Len(rxfifo) - 1 : rxfifo'[k] = rxfifo[k + 1]
  <1> USE PortAssumption
  <1>1. rxfifo # <<>> /\ Len(rxfifo) \in Nat
    BY DEF TypeInv, TypeOK, DrainLeft, Drain
  <1>2. rxfifo \in Seq(1..sent) /\ buf \in Seq(1..sent)
    BY DEF TypeInv, TypeOK
  <1>3. /\ rxfifo' \in Seq(1..sent) /\ Len(rxfifo') = Len(rxfifo) - 1
        /\ Head(rxfifo) \in 1..sent /\ Head(rxfifo) = rxfifo[1]
        /\ \A k \in 1..Len(rxfifo) - 1 : rxfifo'[k] = rxfifo[k + 1]
    <2>1. rxfifo' = Tail(rxfifo)
      BY DEF Drain
    <2> DEFINE Bytes == 1..sent
    <2>2. rxfifo \in Seq(Bytes)
      BY <1>2
    <2> HIDE DEF Bytes
    <2>3. /\ Tail(rxfifo) \in Seq(Bytes) /\ Len(Tail(rxfifo)) = Len(rxfifo) - 1
          /\ Head(rxfifo) \in Bytes /\ Head(rxfifo) = rxfifo[1]
          /\ \A k \in 1..Len(rxfifo) - 1 : Tail(rxfifo)[k] = rxfifo[k + 1]
      BY <1>1, <2>2, HeadTail
    <2> QED BY <2>1, <2>3 DEF Bytes
  <1>4. /\ buf' \in Seq(1..sent) /\ Len(buf') = Len(buf) + 1
        /\ buf'[n_read + 1] = Head(rxfifo)
        /\ \A k \in 1..n_read : buf'[k] = buf[k]
    BY <1>2, <1>3, AppendOne DEF Drain, n_read
  <1>5. stop' \in BOOLEAN
    BY DEF Drain
  <1>6. TypeOK'
    BY <1>1, <1>3, <1>4, <1>5 DEF TypeInv, TypeOK, Drain, host, loop, tx
  <1>7. DrainLeft'
    BY <1>1, <1>3 DEF TypeInv, TypeOK, DrainLeft, Drain
  <1> QED BY <1>1, <1>3, <1>4, <1>6, <1>7 DEF TypeInv, n_read

\* Every step keeps the types.
LEMMA TypeNext == TypeInv /\ [Next]_vars => TypeInv'
  <1> SUFFICES ASSUME TypeInv, [Next]_vars PROVE TypeInv'
    OBVIOUS
  <1> USE PortAssumption
  <1>1. CASE Read
    <2>1. stop' \in BOOLEAN
      BY <1>1 DEF Read
    <2>2. buf' = <<>> /\ <<>> \in Seq(1..sent)
      BY <1>1 DEF Read
    <2> QED BY <1>1, <2>1, <2>2 DEF Read, TypeInv, TypeOK, DrainLeft, host, loop, tx
  <1>2. CASE Poll
    BY <1>2 DEF Poll, TypeInv, TypeOK, DrainLeft, host, loop, tx
  <1>3. CASE Drain
    BY <1>3, TypeDrain
  <1>4. CASE Drained
    BY <1>4 DEF Drained, TypeInv, TypeOK, DrainLeft, host, loop, tx
  <1>5. CASE Return
    <2>1. newline' \in BOOLEAN
      BY <1>5 DEF Return, IsNewline
    <2> QED BY <1>5, <2>1 DEF Return, TypeInv, TypeOK, DrainLeft, host, loop, tx
  <1>6. CASE Collect
    <2>1. taken' \in Seq(1..sent)
      BY <1>6 DEF Collect, TypeInv, TypeOK
    <2>2. off' \in 0..MaxInput
      BY <1>6 DEF Collect, TypeInv, TypeOK, Full, n_read
    <2> QED BY <1>6, <2>1, <2>2 DEF Collect, TypeInv, TypeOK, DrainLeft, host, tx
  <1>7. ASSUME NEW cnt \in ReplySizes, Write(cnt) PROVE TypeInv'
    BY <1>7 DEF Write, Lesser, TypeInv, TypeOK, DrainLeft, host, loop
  <1>8. CASE Transmit
    BY <1>8 DEF Transmit, TypeInv, TypeOK, DrainLeft, host, reader, loop
  <1>9. ASSUME NEW isNewline \in BOOLEAN, SendByte(isNewline) PROVE TypeInv'
    BY <1>9, TypeSendByte
  <1>10. CASE UNCHANGED vars
    BY <1>10 DEF vars, host, reader, loop, tx, TypeInv, TypeOK, DrainLeft
  <1> QED BY <1>1, <1>2, <1>3, <1>4, <1>5, <1>6, <1>7, <1>8, <1>9, <1>10
       DEF Next, Device

\* Whatever the host sends and whenever it arrives, the FIFOs, the buffers and
\* the counters of boot_port_serial_read and _write keep their types.
THEOREM PortTypesOK == Spec => []TypeOK
  <1>1. TypeInv => TypeOK
    BY DEF TypeInv
  <1> QED BY <1>1, TypeInit, TypeNext, PTL DEF Spec

-----------------------------------------------------------------------------
(* Every host: the order of the bytes *)

\* Strictly increasing, and made of the elements of one set: there is only one
\* such sequence of it.
Ordered(s, from) ==
    /\ {s[k] : k \in DOMAIN s} = from
    /\ \A j, k \in DOMAIN s : j < k => s[j] < s[k]

\* The pieces in which bytes are held, put together.
Whole(done, read, waiting) == done \o read \o waiting

\* A byte that goes from the head of the last piece to the end of the one
\* before it stays where it is in the whole.
LEMMA MoveHead ==
    ASSUME NEW S, NEW t \in Seq(S), NEW b \in Seq(S), NEW r \in Seq(S), r # <<>>
    PROVE  Whole(t, Append(b, Head(r)), Tail(r)) = Whole(t, b, r)
  <1>1. /\ Head(r) \in S /\ Tail(r) \in Seq(S)
        /\ Append(b, Head(r)) = b \o <<Head(r)>> /\ <<Head(r)>> \in Seq(S)
    BY HeadTailProperties, AppendIsConcat
  <1>2. r = <<Head(r)>> \o Tail(r)
    <2>1. Len(r) \in Nat \ {0}
      BY EmptySeq
    <2>2. SubSeq(r, 1, Len(r)) = <<r[1]>> \o SubSeq(r, 2, Len(r))
      BY <2>1, SubSeqRecursiveFirst
    <2> QED BY <2>2, SubSeqFull, TailIsSubSeq
  <1>3. t \o (b \o <<Head(r)>>) = (t \o b) \o <<Head(r)>>
    BY <1>1, ConcatAssociative
  <1>4. t \o b \in Seq(S)
    BY ConcatProperties
  <1>5. ((t \o b) \o <<Head(r)>>) \o Tail(r) = (t \o b) \o (<<Head(r)>> \o Tail(r))
    BY <1>1, <1>4, ConcatAssociative
  <1> QED BY <1>1, <1>2, <1>3, <1>5 DEF Whole

\* A byte that arrives comes after all that were sent before it.
LEMMA OrderedAppend ==
    ASSUME NEW n \in Nat, NEW s \in Seq(1..n), NEW from \in SUBSET (1..n),
           Ordered(s, from)
    PROVE  Ordered(Append(s, n + 1), from \cup {n + 1})
  <1> DEFINE longer == Append(s, n + 1)
  <1>1. s \in Seq(1..(n + 1)) /\ n + 1 \in 1..(n + 1)
    BY SeqWiden
  <1>2. /\ DOMAIN longer = 1..(Len(s) + 1) /\ DOMAIN s = 1..Len(s) /\ Len(s) \in Nat
        /\ longer[Len(s) + 1] = n + 1
        /\ \A k \in 1..Len(s) : longer[k] = s[k] /\ s[k] \in 1..n
    <2>1. /\ longer \in Seq(1..(n + 1)) /\ Len(longer) = Len(s) + 1
          /\ longer[Len(s) + 1] = n + 1
          /\ \A k \in 1..Len(s) : longer[k] = s[k]
      BY <1>1, AppendProperties
    <2>2. \A k \in 1..Len(s) : s[k] \in 1..n
      BY ElementOfSeq
    <2> QED BY <2>1, <2>2, LenProperties
  <1> HIDE DEF longer
  <1>3. {longer[k] : k \in DOMAIN longer} = from \cup {n + 1}
    <2>1. from = {s[k] : k \in DOMAIN s}
      BY DEF Ordered
    <2>2. ASSUME NEW k \in DOMAIN longer PROVE longer[k] \in from \cup {n + 1}
      BY <1>2, <2>1
    <2>3. ASSUME NEW b \in from \cup {n + 1}
          PROVE  \E k \in DOMAIN longer : b = longer[k]
      <3>1. CASE b \in from
        <4>1. PICK k \in DOMAIN s : b = s[k]
          BY <2>1, <3>1
        <4> QED BY <1>2, <4>1
      <3>2. CASE b = n + 1
        BY <1>2, <3>2
      <3> QED BY <2>3, <3>1, <3>2
    <2> QED BY <2>2, <2>3
  <1>4. ASSUME NEW j \in DOMAIN longer, NEW k \in DOMAIN longer, j < k
        PROVE  longer[j] < longer[k]
    BY <1>2, <1>4 DEF Ordered
  <1> QED BY <1>3, <1>4 DEF Ordered, longer

OrderInv == TypeInv /\ DeliveredInOrder

\* Nothing arrived yet, so nothing is out of order.
LEMMA OrderInit == Init => OrderInv
  <1> SUFFICES ASSUME Init PROVE OrderInv
    OBVIOUS
  <1>1. Arrived = <<>>
    BY DEF Init, Arrived, InReadline
  <1>2. DOMAIN <<>> = {} /\ (1..0) = {}
    OBVIOUS
  <1>3. (1..sent) \ lost = {}
    BY <1>2 DEF Init
  <1> QED BY <1>1, <1>2, <1>3, TypeInit DEF OrderInv, DeliveredInOrder

\* The pieces are sequences of bytes that were sent.
LEMMA Pieces ==
    ASSUME TypeInv
    PROVE  /\ sent \in Nat /\ lost \in SUBSET (1..sent)
           /\ taken \in Seq(1..sent) /\ buf \in Seq(1..sent)
           /\ rxfifo \in Seq(1..sent) /\ <<>> \in Seq(1..sent)
           /\ taken \o (IF InReadline THEN buf ELSE <<>>) \in Seq(1..sent)
           /\ Arrived \in Seq(1..sent)
  <1>1. /\ sent \in Nat /\ lost \in SUBSET (1..sent)
        /\ taken \in Seq(1..sent) /\ buf \in Seq(1..sent)
        /\ rxfifo \in Seq(1..sent) /\ <<>> \in Seq(1..sent)
    BY PortAssumption, EmptySeq DEF TypeInv, TypeOK
  <1>2. taken \o (IF InReadline THEN buf ELSE <<>>) \in Seq(1..sent)
    BY <1>1, ConcatProperties
  <1> QED BY <1>1, <1>2, ConcatProperties DEF Arrived

\* A byte that arrives is the latest, and one that does not is lost.
LEMMA OrderSendByte ==
    ASSUME OrderInv, NEW isNewline \in BOOLEAN, SendByte(isNewline)
    PROVE  DeliveredInOrder'
  <1> DEFINE before == taken \o (IF InReadline THEN buf ELSE <<>>)
  <1>1. /\ sent \in Nat /\ lost \in SUBSET (1..sent) /\ rxfifo \in Seq(1..sent)
        /\ before \in Seq(1..sent) /\ Arrived \in Seq(1..sent)
    BY Pieces DEF OrderInv
  <1>2. sent' = sent + 1 /\ before' = before /\ Arrived = before \o rxfifo
        /\ Arrived' = before \o rxfifo'
    BY DEF SendByte, reader, loop, InReadline, Arrived
  <1>3. Ordered(Arrived, (1..sent) \ lost)
    BY DEF OrderInv, DeliveredInOrder, Ordered
  <1> HIDE DEF before
  <1>4. CASE Len(rxfifo) < FifoSize
    <2>1. rxfifo' = Append(rxfifo, sent + 1) /\ lost' = lost
      BY <1>4 DEF SendByte
    <2>2. Arrived' = Append(Arrived, sent + 1)
      <3>1. /\ before \in Seq(1..(sent + 1)) /\ rxfifo \in Seq(1..(sent + 1))
            /\ Arrived \in Seq(1..(sent + 1)) /\ sent + 1 \in 1..(sent + 1)
            /\ <<sent + 1>> \in Seq(1..(sent + 1))
        BY <1>1, SeqWiden
      <3>2. Append(rxfifo, sent + 1) = rxfifo \o <<sent + 1>>
        BY <3>1, AppendIsConcat
      <3>3. Append(Arrived, sent + 1) = Arrived \o <<sent + 1>>
        BY <3>1, AppendIsConcat
      <3>4. (before \o rxfifo) \o <<sent + 1>> = before \o (rxfifo \o <<sent + 1>>)
        BY <3>1, ConcatAssociative
      <3> QED BY <1>2, <2>1, <3>2, <3>3, <3>4
    <2>3. ((1..sent) \ lost) \cup {sent + 1} = (1..sent') \ lost'
      BY <1>1, <1>2, <2>1
    <2>4. Ordered(Append(Arrived, sent + 1), ((1..sent) \ lost) \cup {sent + 1})
      BY <1>1, <1>3, OrderedAppend
    <2>5. Ordered(Arrived', (1..sent') \ lost')
      BY <2>2, <2>3, <2>4
    <2> QED BY <2>5 DEF DeliveredInOrder, Ordered
  <1>5. CASE ~(Len(rxfifo) < FifoSize)
    <2>1. rxfifo' = rxfifo /\ lost' = lost \cup {sent + 1}
      BY <1>5 DEF SendByte
    <2>2. Arrived' = Arrived
      BY <1>2, <2>1
    <2>3. (1..sent') \ lost' = (1..sent) \ lost
      BY <1>1, <1>2, <2>1
    <2> QED BY <1>3, <2>2, <2>3 DEF DeliveredInOrder, Ordered
  <1> QED BY <1>4, <1>5

\* Every other step hands bytes on, at most.
LEMMA ArrivedStays ==
    ASSUME TypeInv,
           Device \/ Transmit \/ UNCHANGED vars
    PROVE  Arrived' = Arrived /\ sent' = sent /\ lost' = lost
  <1>1. CASE Read
    BY <1>1 DEF Read, Arrived, InReadline, host, loop
  <1>2. CASE Drain
    <2>1. /\ rxfifo # <<>> /\ buf' = Append(buf, Head(rxfifo)) /\ rxfifo' = Tail(rxfifo)
          /\ pc = "drain" /\ pc' = "drain" /\ taken' = taken
      BY <1>2, TypeDrain DEF Drain, loop
    <2>2. Arrived = Whole(taken, buf, rxfifo)
      BY <2>1 DEF Arrived, InReadline, Whole
    <2>3. Arrived' = Whole(taken, Append(buf, Head(rxfifo)), Tail(rxfifo))
      BY <2>1 DEF Arrived, InReadline, Whole
    <2>4. taken \in Seq(1..sent) /\ buf \in Seq(1..sent) /\ rxfifo \in Seq(1..sent)
      BY Pieces
    <2>5. Arrived' = Arrived
      <3> DEFINE Bytes == 1..sent
      <3>1. taken \in Seq(Bytes) /\ buf \in Seq(Bytes) /\ rxfifo \in Seq(Bytes)
        BY <2>4
      <3> HIDE DEF Bytes
      <3>2. Whole(taken, Append(buf, Head(rxfifo)), Tail(rxfifo))
                = Whole(taken, buf, rxfifo)
        BY <2>1, <3>1, MoveHead
      <3> QED BY <2>2, <2>3, <3>2
    <2>6. UNCHANGED <<host, lost>>
      BY <1>2 DEF Drain
    <2> QED BY <2>5, <2>6 DEF host
  <1>3. CASE Collect
    <2>1. /\ taken' = taken \o buf /\ rxfifo' = rxfifo /\ pc = "returned"
          /\ pc' \in {"answer", "idle"}
      BY <1>3 DEF Collect
    <2>2. Arrived = (taken \o buf) \o rxfifo
      BY <2>1 DEF Arrived, InReadline
    <2>3. Arrived' = ((taken \o buf) \o <<>>) \o rxfifo
      BY <2>1 DEF Arrived, InReadline
    <2>4. taken \o buf \in Seq(1..sent)
      BY Pieces, ConcatProperties
    <2>5. (taken \o buf) \o <<>> = taken \o buf
      BY <2>4, ConcatEmptySeq
    <2> QED BY <1>3, <2>2, <2>3, <2>5 DEF Collect, host
  <1>4. CASE Poll \/ Drained \/ Return
    BY <1>4 DEF Poll, Drained, Return, Arrived, InReadline, host, loop
  <1>5. ASSUME NEW cnt \in ReplySizes, Write(cnt)
        PROVE  Arrived' = Arrived /\ sent' = sent /\ lost' = lost
    BY <1>5 DEF Write, Arrived, InReadline, host, loop
  <1>6. CASE Transmit \/ UNCHANGED vars
    BY <1>6 DEF Transmit, Arrived, InReadline, host, reader, loop, vars
  <1> QED BY <1>1, <1>2, <1>3, <1>4, <1>5, <1>6 DEF Device

\* Every step keeps what arrived whole and in order.
LEMMA OrderNext == OrderInv /\ [Next]_vars => OrderInv'
  <1> SUFFICES ASSUME OrderInv, [Next]_vars PROVE OrderInv'
    OBVIOUS
  <1>1. TypeInv'
    BY TypeNext DEF OrderInv
  <1>2. ASSUME NEW isNewline \in BOOLEAN, SendByte(isNewline) PROVE DeliveredInOrder'
    BY <1>2, OrderSendByte
  <1>3. CASE Device \/ Transmit \/ UNCHANGED vars
    <2>1. Arrived' = Arrived /\ sent' = sent /\ lost' = lost
      BY <1>3, ArrivedStays DEF OrderInv
    <2>2. Ordered(Arrived, (1..sent) \ lost)
      BY DEF OrderInv, DeliveredInOrder, Ordered
    <2>3. Ordered(Arrived, (1..sent) \ lost)'
      BY <2>1, <2>2
    <2> QED BY <1>1, <2>3 DEF OrderInv, DeliveredInOrder, Ordered
  <1> QED BY <1>1, <1>2, <1>3 DEF OrderInv, Next

\* Whatever the host sends and whenever it arrives, boot_serial_start gets
\* every byte that no full FIFO dropped, once and in order.
THEOREM OrderSafe == Spec => []DeliveredInOrder
  <1>1. OrderInv => DeliveredInOrder
    BY DEF OrderInv
  <1> QED BY <1>1, OrderInit, OrderNext, PTL DEF Spec

-----------------------------------------------------------------------------
(* A polite host: one line at a time *)

\* The current line starts after the last newline.
LEMMA LineStartFacts ==
    ASSUME TypeOK, NewlinesHaveLast
    PROVE  /\ LineStart \in 1..sent + 1
           /\ \A c \in newlines : c < LineStart
  <1>0. sent \in Nat /\ newlines \subseteq 1..sent
    BY PortAssumption DEF TypeOK
  <1>1. CASE newlines = {}
    BY <1>0, <1>1 DEF LineStart
  <1>2. CASE newlines # {}
    <2> DEFINE last == CHOOSE b \in newlines : \A c \in newlines : c <= b
    <2>1. last \in newlines /\ \A c \in newlines : c <= last
      BY <1>2 DEF NewlinesHaveLast
    <2>2. LineStart = 1 + last
      BY <1>2 DEF LineStart
    <2> HIDE DEF last
    <2> QED BY <1>0, <2>1, <2>2
  <1> QED BY <1>1, <1>2

\* A newline closes the line; any other byte stays in it.
LEMMA LineAfterSend ==
    ASSUME TypeInv, NewlinesHaveLast,
           NEW isNewline \in BOOLEAN, SendByte(isNewline)
    PROVE  /\ NewlinesHaveLast'
           /\ isNewline => LineStart' = sent' + 1
           /\ ~isNewline => LineStart' = LineStart
  <1>0. sent \in Nat /\ newlines \subseteq 1..sent /\ sent' = sent + 1
    BY PortAssumption DEF TypeInv, TypeOK, SendByte
  <1>1. CASE isNewline
    <2>1. newlines' = newlines \cup {sent + 1}
      BY <1>1 DEF SendByte
    <2>2. sent + 1 \in newlines' /\ \A c \in newlines' : c \in Nat /\ c <= sent + 1
      BY <1>0, <2>1
    <2>3. NewlinesHaveLast'
      BY <2>2 DEF NewlinesHaveLast
    <2> DEFINE last == CHOOSE b \in newlines' : \A c \in newlines' : c <= b
    <2>4. last \in newlines' /\ \A c \in newlines' : c <= last
      BY <2>2
    <2>5. LineStart' = 1 + last
      BY <2>2 DEF LineStart
    <2> HIDE DEF last
    <2>6. last = sent + 1
      BY <1>0, <2>2, <2>4
    <2> QED BY <1>0, <1>1, <2>3, <2>5, <2>6
  <1>2. CASE ~isNewline
    BY <1>2 DEF SendByte, LineStart, NewlinesHaveLast
  <1> QED BY <1>1, <1>2

\* Where the host does not send, its lines stay as they are.
LEMMA HostRests ==
    ASSUME UNCHANGED host
    PROVE  /\ polite' = polite /\ sent' = sent /\ newlines' = newlines
           /\ LineStart' = LineStart /\ Closed' = Closed
           /\ NewlinesHaveLast' = NewlinesHaveLast
  BY DEF host, LineStart, Closed, NewlinesHaveLast

\* An idle port satisfies the invariant of a polite host.
LEMMA PoliteInit == Init => PoliteInv
  <1> SUFFICES ASSUME Init PROVE PoliteInv
    OBVIOUS
  <1>1. TypeInv
    BY TypeInit
  <1>2. LineStart = 1 /\ Closed
    BY DEF Init, LineStart, Closed
  <1>3. ~InReadline /\ Len(rxfifo) = 0
    BY DEF Init, InReadline
  <1>4. Held = 0
    BY <1>3 DEF Held, Stored
  <1> QED BY <1>1, <1>2, <1>3, <1>4, PortAssumption
       DEF Init, PoliteInv, NewlinesHaveLast, WholeBuffer, HeldFits,
           NewlineLastInFifo, NewlineLastInBuf, StopsForCause, LineFlagged,
           AnswersWholeLine, TxWhileQuiet, AnswersWhole

\* The host begins a line when the device holds nothing, and ends it before it
\* outgrows the input buffer.
LEMMA PoliteSendByte ==
    ASSUME polite, PoliteInv, NEW isNewline \in BOOLEAN, SendByte(isNewline)
    PROVE  PoliteInv'
  <1> USE PortAssumption
  <1>1. TypeInv' /\ NewlinesHaveLast'
    BY TypeSendByte, LineAfterSend DEF PoliteInv
  <1>2. /\ sent \in Nat /\ sent' = sent + 1
        /\ LineStart \in Nat /\ LineStart <= sent + 1
        /\ \A c \in newlines : c < LineStart
        /\ Closed => Quiet
        /\ sent + 2 - LineStart = MaxInput => isNewline
    BY LineStartFacts DEF PoliteInv, TypeInv, TypeOK, SendByte, MayBeginLine,
       MustEndLine, Closed
  <1>3. /\ isNewline => Closed'
        /\ ~isNewline => LineStart' = LineStart
    BY LineAfterSend DEF PoliteInv, Closed
  <1>4. UNCHANGED <<pc, len, i, stop, buf, cap, newline, off, taken, txfifo, reply, cut>>
    BY DEF SendByte, reader, loop, tx
  <1>5. InReadline' = InReadline /\ n_read' = n_read /\ Stored' = Stored
    BY <1>4 DEF InReadline, Stored, n_read
  <1>6. Len(rxfifo) \in Nat /\ n_read \in Nat /\ Stored \in Nat
    BY DEF PoliteInv, TypeInv, TypeOK, n_read, Stored
  \* the byte that is appended, if any
  <1>7. /\ Len(rxfifo') \in {Len(rxfifo), Len(rxfifo) + 1}
        /\ \A k \in 1..Len(rxfifo) : rxfifo'[k] = rxfifo[k]
        /\ Len(rxfifo') = Len(rxfifo) + 1 => rxfifo'[Len(rxfifo) + 1] = sent + 1
    <2>1. CASE Len(rxfifo) < FifoSize
      <3>1. rxfifo' = Append(rxfifo, sent + 1)
        BY <2>1 DEF SendByte
      <3>2. rxfifo \in Seq(1..sent) /\ rxfifo \in Seq(1..(sent + 1))
        BY <1>2, SeqWiden DEF PoliteInv, TypeInv, TypeOK
      <3>3. sent + 1 \in 1..(sent + 1)
        BY <1>2
      <3> QED BY <3>1, <3>2, <3>3, AppendOne
    <2>2. CASE ~(Len(rxfifo) < FifoSize)
      <3>1. rxfifo' = rxfifo
        BY <2>2 DEF SendByte
      <3> QED BY <3>1, <1>6
    <2> QED BY <2>1, <2>2
  <1>8. Quiet => Held = 0
    BY <1>6 DEF Quiet, Held, Stored, InReadline, n_read
  <1>9. Held' \in {Held, Held + 1} /\ Held \in Nat
    BY <1>5, <1>6, <1>7 DEF Held
  \* none of the bytes that were held is the new newline
  <1>10. /\ \A k \in 1..Len(rxfifo) :
               rxfifo[k] \in 1..sent /\ (IsNewline(rxfifo[k])' <=> IsNewline(rxfifo[k]))
         /\ \A k \in 1..n_read :
               buf[k] \in 1..sent /\ (IsNewline(buf[k])' <=> IsNewline(buf[k]))
    <2>1. \A b \in 1..sent : (b \in newlines' <=> b \in newlines)
      BY <1>2 DEF SendByte
    <2>2. \A k \in 1..Len(rxfifo) : rxfifo[k] \in 1..sent
      BY DEF PoliteInv, TypeInv, TypeOK
    <2>3. \A k \in 1..n_read : buf[k] \in 1..sent
      BY DEF PoliteInv, TypeInv, TypeOK, n_read
    <2> QED BY <2>1, <2>2, <2>3, <1>4, <1>7 DEF IsNewline
  <1>11. WholeBuffer'
    BY <1>4, <1>5 DEF PoliteInv, WholeBuffer
  <1>12. HeldFits'
    <2>1. CASE Closed
      <3>1. Held = 0
        BY <1>2, <1>8, <2>1
      <3> QED BY <1>2, <1>3, <1>9, <2>1, <3>1 DEF HeldFits, Closed
    <2>2. CASE ~Closed
      <3>1. Held <= sent + 1 - LineStart /\ sent + 1 - LineStart < MaxInput
        BY <2>2 DEF PoliteInv, HeldFits
      <3> QED BY <1>2, <1>3, <1>9, <3>1 DEF HeldFits, Closed
    <2> QED BY <2>1, <2>2
  <1>13. NewlineLastInFifo'
    <2> SUFFICES ASSUME NEW k \in 1..Len(rxfifo'), (IsNewline(rxfifo[k]))'
                 PROVE  k = Len(rxfifo') /\ Closed'
      BY DEF NewlineLastInFifo
    <2>1. CASE k \in 1..Len(rxfifo)
      <3>1. Closed
        BY <1>10, <2>1 DEF PoliteInv, NewlineLastInFifo
      <3>2. Len(rxfifo) = 0
        BY <1>2, <3>1 DEF Quiet
      <3> QED BY <2>1, <3>2
    <2>2. CASE k = Len(rxfifo) + 1
      <3>1. sent + 1 \in newlines'
        BY <1>6, <1>7, <2>2 DEF IsNewline
      <3>2. sent + 1 \notin newlines
        BY <1>2 DEF PoliteInv, TypeInv, TypeOK
      <3>3. isNewline
        BY <3>1, <3>2 DEF SendByte
      <3> QED BY <1>3, <1>6, <1>7, <2>2, <3>3
    <2> QED BY <1>6, <1>7, <2>1, <2>2
  <1>14. NewlineLastInBuf'
    <2> SUFFICES ASSUME InReadline', NEW k \in 1..n_read', (IsNewline(buf[k]))'
                 PROVE  FALSE
      BY DEF NewlineLastInBuf
    <2>1. InReadline /\ k \in 1..n_read /\ IsNewline(buf[k])
      BY <1>5, <1>10
    <2>2. Closed
      BY <2>1 DEF PoliteInv, NewlineLastInBuf
    <2>3. n_read = 0
      BY <1>2, <2>1, <2>2 DEF Quiet, InReadline, n_read
    <2> QED BY <2>1, <2>3
  <1>15. StopsForCause'
    <2>1. n_read > 0 => (IsNewline(LastByte)' <=> IsNewline(LastByte))
      BY <1>4, <1>6, <1>10 DEF LastByte, IsNewline, n_read
    <2> QED BY <1>4, <1>5, <2>1 DEF PoliteInv, StopsForCause
  <1>16. LineFlagged'
    BY <1>4, <1>5, <1>10 DEF PoliteInv, LineFlagged
  <1>17. AnswersWholeLine'
    BY <1>2, <1>4 DEF PoliteInv, AnswersWholeLine, Quiet
  <1>18. TxWhileQuiet'
    BY <1>2, <1>4 DEF PoliteInv, TxWhileQuiet, Quiet
  <1>19. AnswersWhole'
    BY <1>4 DEF PoliteInv, AnswersWhole
  <1> QED BY <1>1, <1>11, <1>12, <1>13, <1>14, <1>15, <1>16, <1>17, <1>18, <1>19
       DEF PoliteInv

\* A new call of boot_port_serial_read has the whole buffer.
LEMMA PoliteRead == ASSUME PoliteInv, Read PROVE PoliteInv'
  <1> USE PortAssumption
  <1>1. TypeInv'
    BY TypeNext DEF PoliteInv, Next, Device
  <1>2. /\ sent' = sent /\ newlines' = newlines /\ LineStart' = LineStart
        /\ Closed' = Closed /\ NewlinesHaveLast'
    BY HostRests DEF PoliteInv, Read
  <1>3. /\ pc = "idle" /\ pc' = "poll" /\ buf' = <<>> /\ stop' = FALSE
        /\ cap' = MaxInput - off /\ off' = off /\ rxfifo' = rxfifo
        /\ UNCHANGED <<newline, txfifo, reply, cut>>
    BY DEF Read, loop, tx
  <1>4. InReadline' /\ n_read' = 0 /\ ~InReadline
    BY <1>3 DEF InReadline, n_read
  <1>5. Held' = Held
    BY <1>3, <1>4 DEF Held, Stored
  <1>6. WholeBuffer'
    BY <1>3 DEF PoliteInv, WholeBuffer
  <1>7. HeldFits'
    BY <1>2, <1>5 DEF PoliteInv, HeldFits
  <1>8. NewlineLastInFifo' /\ NewlineLastInBuf'
    BY <1>2, <1>3, <1>4 DEF PoliteInv, NewlineLastInFifo, NewlineLastInBuf, IsNewline
  <1>9. StopsForCause' /\ LineFlagged' /\ AnswersWholeLine' /\ TxWhileQuiet'
    BY <1>2, <1>3 DEF PoliteInv, StopsForCause, LineFlagged,
       AnswersWholeLine, TxWhileQuiet
  <1>10. AnswersWhole'
    BY <1>3 DEF PoliteInv, AnswersWhole
  <1> QED BY <1>1, <1>2, <1>6, <1>7, <1>8, <1>9, <1>10 DEF PoliteInv

\* Steps of readline that move its pc between the polls, and the UART's.
LEMMA PoliteQuietSteps ==
    ASSUME PoliteInv, Poll \/ Drained \/ Transmit \/ UNCHANGED vars
    PROVE  PoliteInv'
  <1> USE PortAssumption
  <1>1. TypeInv'
    BY TypeNext DEF PoliteInv, Next, Device
  <1>2. /\ sent' = sent /\ newlines' = newlines /\ LineStart' = LineStart
        /\ Closed' = Closed /\ NewlinesHaveLast'
    BY HostRests DEF PoliteInv, Poll, Drained, Transmit, vars
  <1>3. UNCHANGED <<buf, stop, cap, off, rxfifo, newline, cut>>
    BY DEF Poll, Drained, Transmit, vars, reader, loop, tx
  <1>4. /\ pc' = pc \/ (pc = "poll" /\ pc' = "drain")
           \/ (pc = "drain" /\ ~stop /\ pc' = "poll")
           \/ (pc = "drain" /\ stop /\ pc' = "return")
        /\ txfifo' <= txfifo /\ txfifo \in Nat /\ txfifo' \in Nat
    BY <1>1 DEF PoliteInv, TypeInv, TypeOK, Poll, Drained, Transmit, vars, reader, tx
  <1>5. InReadline' = InReadline /\ n_read' = n_read
    BY <1>3, <1>4 DEF InReadline, n_read
  <1>6. Held' = Held
    BY <1>3, <1>5 DEF Held, Stored
  <1>7. WholeBuffer' /\ HeldFits'
    BY <1>2, <1>3, <1>5, <1>6 DEF PoliteInv, WholeBuffer, HeldFits
  <1>8. NewlineLastInFifo' /\ NewlineLastInBuf'
    BY <1>2, <1>3, <1>5 DEF PoliteInv, NewlineLastInFifo, NewlineLastInBuf, IsNewline
  <1>9. StopsForCause'
    <2>1. IsNewline(LastByte)' <=> IsNewline(LastByte)
      BY <1>2, <1>3 DEF IsNewline, LastByte, n_read
    <2> QED BY <1>3, <1>4, <1>5, <2>1 DEF PoliteInv, StopsForCause
  <1>10. LineFlagged' /\ AnswersWholeLine'
    BY <1>2, <1>3, <1>4 DEF PoliteInv, LineFlagged, AnswersWholeLine,
       IsNewline, n_read
  <1>11. TxWhileQuiet'
    <2>1. InReadline /\ stop => buf # <<>>
      BY DEF PoliteInv, StopsForCause, n_read
    <2> QED BY <1>2, <1>3, <1>4, <2>1 DEF PoliteInv, TxWhileQuiet, InReadline
  <1>12. AnswersWhole'
    BY <1>3 DEF PoliteInv, AnswersWhole
  <1> QED BY <1>1, <1>2, <1>7, <1>8, <1>9, <1>10, <1>11, <1>12 DEF PoliteInv

\* A byte moves from the FIFO to the buffer: no newline is there already.
LEMMA PoliteDrain == ASSUME PoliteInv, Drain PROVE PoliteInv'
  <1> USE PortAssumption
  <1>1. /\ TypeInv' /\ rxfifo # <<>>
        /\ n_read' = n_read + 1 /\ Len(rxfifo') = Len(rxfifo) - 1
        /\ buf'[n_read + 1] = rxfifo[1] /\ Head(rxfifo) = rxfifo[1]
        /\ \A k \in 1..n_read : buf'[k] = buf[k]
        /\ \A k \in 1..Len(rxfifo) - 1 : rxfifo'[k] = rxfifo[k + 1]
    BY TypeDrain DEF PoliteInv, n_read
  <1>2. /\ sent' = sent /\ newlines' = newlines /\ LineStart' = LineStart
        /\ Closed' = Closed /\ NewlinesHaveLast'
    BY HostRests DEF PoliteInv, Drain
  <1>3. /\ pc = "drain" /\ UNCHANGED <<pc, cap, off, newline, txfifo, cut>>
        /\ stop' = (stop \/ n_read' = cap \/ IsNewline(rxfifo[1]))
    BY <1>1 DEF Drain, loop, tx, n_read
  <1>4. InReadline /\ InReadline' /\ cap = MaxInput
    BY <1>3 DEF InReadline, PoliteInv, WholeBuffer
  <1>5. n_read \in Nat /\ Len(rxfifo) \in Nat /\ Len(rxfifo) >= 1
    <2>1. rxfifo \in Seq(1..sent) /\ buf \in Seq(1..sent)
      BY DEF PoliteInv, TypeInv, TypeOK
    <2>2. Len(rxfifo) \in Nat /\ Len(rxfifo) # 0
      BY <1>1, <2>1
    <2> QED BY <2>1, <2>2 DEF n_read
  <1>6. Held = n_read + Len(rxfifo) /\ Held' = Held
    BY <1>1, <1>4, <1>5 DEF Held, Stored
  <1>7. WholeBuffer' /\ HeldFits'
    BY <1>2, <1>3, <1>4, <1>6 DEF PoliteInv, WholeBuffer, HeldFits
  <1>8. \A k \in 1..n_read : ~IsNewline(buf[k])
    BY <1>1, <1>4 DEF PoliteInv, NewlineLastInBuf
  <1>9. NewlineLastInFifo'
    <2> SUFFICES ASSUME NEW k \in 1..Len(rxfifo'), (IsNewline(rxfifo[k]))'
                 PROVE  k = Len(rxfifo') /\ Closed'
      BY DEF NewlineLastInFifo
    <2>1. k + 1 \in 1..Len(rxfifo) /\ rxfifo'[k] = rxfifo[k + 1]
      BY <1>1, <1>5
    <2>2. IsNewline(rxfifo[k + 1])
      BY <1>2, <2>1 DEF IsNewline
    <2>3. k + 1 = Len(rxfifo) /\ Closed
      BY <2>1, <2>2 DEF PoliteInv, NewlineLastInFifo
    <2> QED BY <1>1, <1>2, <1>5, <2>3
  <1>10. NewlineLastInBuf'
    <2> SUFFICES ASSUME NEW k \in 1..n_read', (IsNewline(buf[k]))'
                 PROVE  k = n_read' /\ rxfifo' = <<>> /\ Closed'
      BY DEF NewlineLastInBuf
    <2>1. k = n_read + 1
      BY <1>1, <1>2, <1>5, <1>8 DEF IsNewline
    <2>2. IsNewline(rxfifo[1])
      BY <1>1, <1>2, <2>1 DEF IsNewline
    <2>3. Len(rxfifo) = 1 /\ Closed
      <3>1. 1 \in 1..Len(rxfifo)
        BY <1>5
      <3> QED BY <2>2, <3>1, Zenon DEF PoliteInv, NewlineLastInFifo
    <2>4. rxfifo' = <<>>
      BY <1>1, <2>3 DEF TypeInv, TypeOK
    <2> QED BY <1>1, <1>2, <2>1, <2>3, <2>4
  <1>11. StopsForCause'
    <2>1. ~stop
      <3>1. n_read # cap
        BY <1>4, <1>5, <1>6 DEF PoliteInv, HeldFits
      <3>2. n_read > 0 => ~IsNewline(LastByte)
        BY <1>5, <1>8 DEF LastByte
      <3> QED BY <1>4, <3>1, <3>2 DEF PoliteInv, StopsForCause
    <2>2. IsNewline(LastByte)' <=> IsNewline(rxfifo[1])
      BY <1>1, <1>2 DEF IsNewline, LastByte
    <2>3. stop' => n_read' = cap' \/ IsNewline(LastByte)'
      BY <1>3, <2>1, <2>2, Zenon
    <2>4. n_read' > 0
      BY <1>1, <1>5
    <2> QED BY <1>3, <2>3, <2>4 DEF StopsForCause
  <1>12. LineFlagged' /\ AnswersWholeLine'
    BY <1>3 DEF LineFlagged, AnswersWholeLine
  <1>13. TxWhileQuiet' /\ AnswersWhole'
    BY <1>1, <1>3 DEF PoliteInv, TxWhileQuiet, AnswersWhole
  <1> QED BY <1>1, <1>2, <1>7, <1>9, <1>10, <1>11, <1>12, <1>13 DEF PoliteInv

\* The flag is about the last byte, and no other byte can be a newline.
LEMMA PoliteReturn == ASSUME PoliteInv, Return PROVE PoliteInv'
  <1> USE PortAssumption
  <1>1. TypeInv'
    BY TypeNext DEF PoliteInv, Next, Device
  <1>2. /\ sent' = sent /\ newlines' = newlines /\ LineStart' = LineStart
        /\ Closed' = Closed /\ NewlinesHaveLast'
    BY HostRests DEF PoliteInv, Return
  <1>3. /\ pc = "return" /\ pc' = "returned" /\ newline' = IsNewline(LastByte)
        /\ UNCHANGED <<buf, stop, cap, off, rxfifo, txfifo, cut>>
    BY DEF Return, loop, tx
  <1>4. InReadline' /\ InReadline /\ n_read' = n_read
    BY <1>3 DEF InReadline, n_read
  <1>5. Held' = Held
    BY <1>3, <1>4 DEF Held, Stored
  <1>6. WholeBuffer' /\ HeldFits'
    BY <1>2, <1>3, <1>4, <1>5 DEF PoliteInv, WholeBuffer, HeldFits
  <1>7. NewlineLastInFifo' /\ NewlineLastInBuf'
    BY <1>2, <1>3, <1>4 DEF PoliteInv, NewlineLastInFifo, NewlineLastInBuf, IsNewline
  <1>8. StopsForCause'
    <2>1. IsNewline(LastByte)' <=> IsNewline(LastByte)
      BY <1>2, <1>3 DEF IsNewline, LastByte, n_read
    <2> QED BY <1>3, <1>4, <2>1 DEF PoliteInv, StopsForCause
  <1>9. LineFlagged'
    <2>1. n_read > 0 /\ n_read \in Nat
      BY <1>3, <1>4 DEF PoliteInv, StopsForCause, TypeInv, TypeOK, n_read
    <2>2. \A k \in 1..n_read : IsNewline(buf[k]) => k = n_read
      BY <1>4 DEF PoliteInv, NewlineLastInBuf
    <2>3. n_read \in 1..n_read
      BY <2>1
    <2>4. IsNewline(LastByte) <=> \E k \in 1..n_read : IsNewline(buf[k])
      BY <2>2, <2>3, Zenon DEF LastByte
    <2> QED BY <1>2, <1>3, <1>4, <2>4 DEF LineFlagged, IsNewline
  <1>10. AnswersWholeLine' /\ TxWhileQuiet' /\ AnswersWhole'
    BY <1>3 DEF PoliteInv, AnswersWholeLine, TxWhileQuiet, AnswersWhole
  <1> QED BY <1>1, <1>2, <1>6, <1>7, <1>8, <1>9, <1>10 DEF PoliteInv

\* boot_serial_start gets a whole line or a full buffer: it never has to keep
\* part of a line for the next call.
LEMMA PoliteCollect == ASSUME PoliteInv, Collect PROVE PoliteInv'
  <1> USE PortAssumption
  <1>1. TypeInv'
    BY TypeNext DEF PoliteInv, Next, Device
  <1>2. /\ sent' = sent /\ newlines' = newlines /\ LineStart' = LineStart
        /\ Closed' = Closed /\ NewlinesHaveLast'
    BY HostRests DEF PoliteInv, Collect
  <1>3. /\ pc = "returned" /\ pc' \in {"answer", "idle"}
        /\ UNCHANGED <<buf, stop, cap, rxfifo, txfifo, cut>>
        /\ pc' = "answer" => newline
    BY DEF Collect, tx
  <1>4. ~InReadline' /\ InReadline /\ cap = MaxInput /\ off = 0 /\ stop
    BY <1>3 DEF InReadline, PoliteInv, WholeBuffer, StopsForCause
  <1>5. n_read \in Nat /\ Len(rxfifo) \in Nat /\ n_read > 0
    BY <1>4 DEF PoliteInv, TypeInv, TypeOK, n_read, StopsForCause
  <1>6. newline <=> \E k \in 1..n_read : IsNewline(buf[k])
    BY <1>3 DEF PoliteInv, LineFlagged
  <1>7. off' = 0
    <2>1. CASE newline
      BY <2>1 DEF Collect
    <2>2. CASE ~newline
      <3>1. ~IsNewline(LastByte)
        BY <1>5, <1>6, <2>2 DEF LastByte
      <3>2. n_read = MaxInput
        BY <1>4, <3>1 DEF PoliteInv, StopsForCause
      <3> QED BY <1>4, <1>5, <2>2, <3>2 DEF Collect, Full
    <2> QED BY <2>1, <2>2
  <1>8. Held' \in Nat /\ Held' <= Held /\ Held \in Nat
    BY <1>3, <1>4, <1>5 DEF Held, Stored
  <1>9. WholeBuffer'
    BY <1>4, <1>7 DEF WholeBuffer
  <1>10. HeldFits'
    <2>1. sent \in Nat /\ LineStart \in Nat
      BY LineStartFacts DEF PoliteInv, TypeInv, TypeOK
    <2> QED BY <1>2, <1>8, <2>1 DEF PoliteInv, HeldFits
  <1>11. NewlineLastInFifo' /\ NewlineLastInBuf'
    BY <1>2, <1>3, <1>4 DEF PoliteInv, NewlineLastInFifo, NewlineLastInBuf, IsNewline
  <1>12. StopsForCause' /\ LineFlagged'
    BY <1>3, <1>4 DEF StopsForCause, LineFlagged
  <1>13. AnswersWholeLine'
    <2>1. newline => rxfifo = <<>> /\ Closed
      BY <1>4, <1>6 DEF PoliteInv, NewlineLastInBuf
    <2> QED BY <1>2, <1>3, <2>1 DEF AnswersWholeLine
  <1>14. TxWhileQuiet' /\ AnswersWhole'
    BY <1>3 DEF PoliteInv, TxWhileQuiet, AnswersWhole
  <1> QED BY <1>1, <1>2, <1>9, <1>10, <1>11, <1>12, <1>13, <1>14 DEF PoliteInv

\* A response is written into an empty FIFO.
LEMMA PoliteWrite ==
    ASSUME PoliteInv, NEW cnt \in ReplySizes, Write(cnt)
    PROVE  PoliteInv'
  <1> USE PortAssumption
  <1>1. TypeInv'
    BY TypeNext DEF PoliteInv, Next, Device
  <1>2. /\ sent' = sent /\ newlines' = newlines /\ LineStart' = LineStart
        /\ Closed' = Closed /\ NewlinesHaveLast'
    BY HostRests DEF PoliteInv, Write
  <1>3. /\ pc = "answer" /\ pc' = "idle"
        /\ UNCHANGED <<buf, stop, cap, off, rxfifo, newline>>
    BY DEF Write, loop
  <1>4. ~InReadline' /\ ~InReadline /\ rxfifo = <<>> /\ Closed
    BY <1>3 DEF InReadline, PoliteInv, AnswersWholeLine
  <1>5. Held' = Held
    BY <1>3, <1>4 DEF Held, Stored
  <1>6. WholeBuffer' /\ HeldFits'
    BY <1>2, <1>3, <1>4, <1>5 DEF PoliteInv, WholeBuffer, HeldFits
  <1>7. NewlineLastInFifo' /\ NewlineLastInBuf'
    BY <1>2, <1>3, <1>4 DEF PoliteInv, NewlineLastInFifo, NewlineLastInBuf, IsNewline
  <1>8. StopsForCause' /\ LineFlagged' /\ AnswersWholeLine'
    BY <1>3, <1>4 DEF StopsForCause, LineFlagged, AnswersWholeLine
  <1>9. TxWhileQuiet'
    BY <1>2, <1>3, <1>4 DEF TxWhileQuiet
  <1>10. AnswersWhole'
    <2> SUFFICES ASSUME \A c \in ReplySizes : c <= FifoSize PROVE cut' = 0
      BY DEF AnswersWhole
    <2>1. txfifo = 0 /\ cut = 0
      BY <1>3 DEF PoliteInv, TxWhileQuiet, AnswersWhole, TypeInv, TypeOK
    <2>2. cnt \in Nat /\ cnt <= FifoSize
      OBVIOUS
    <2> QED BY <2>1, <2>2 DEF Write, Lesser
  <1> QED BY <1>1, <1>2, <1>6, <1>7, <1>8, <1>9, <1>10 DEF PoliteInv

\* Every step of a polite host or of the bootloader keeps it.
LEMMA PoliteNext == ASSUME polite, PoliteInv, [Next]_vars PROVE PoliteInv'
  BY PoliteRead, PoliteQuietSteps, PoliteDrain, PoliteReturn,
     PoliteCollect, PoliteWrite, PoliteSendByte DEF Next, Device

\* A host does not change its manners.
LEMMA PoliteStays == [Next]_vars => polite' = polite
  BY DEF Next, Device, Read, Poll, Drain, Drained, Return, Collect, Write,
         Transmit, SendByte, vars, host

\* All that a polite host can rely on.
LEMMA PoliteHolds == Spec => [](polite => PoliteInv)
  <1>1. Init => (polite => PoliteInv)
    BY PoliteInit
  <1>2. (polite => PoliteInv) /\ [Next]_vars => (polite => PoliteInv)'
    BY PoliteNext, PoliteStays
  <1> QED BY <1>1, <1>2, PTL DEF Spec

\* readline never stores more than boot_serial's buffer has room for, when the
\* host sends no line that is longer and awaits the answer to each.
THEOREM CapacitySafe == Spec => []StopsAtCapacity
  <1>1. (polite => PoliteInv) => StopsAtCapacity
    <2> SUFFICES ASSUME PoliteInv, InReadline PROVE n_read <= cap
      BY DEF StopsAtCapacity, WithinCapacity
    <2>1. n_read \in Nat /\ Len(rxfifo) \in Nat
      BY DEF PoliteInv, TypeInv, TypeOK, n_read
    <2>2. n_read + Len(rxfifo) <= MaxInput /\ cap = MaxInput
      BY DEF PoliteInv, HeldFits, Held, Stored, WholeBuffer
    <2> QED BY <2>1, <2>2, PortAssumption
  <1> QED BY <1>1, PoliteHolds, PTL

\* The flag of boot_port_serial_read tells whether the bytes it returns contain
\* the end of a line, when the host awaits the answer to each line.
THEOREM FlagSafe == Spec => []FullLineFlagged
  <1>1. (polite => PoliteInv) => FullLineFlagged
    BY DEF PoliteInv, FullLineFlagged
  <1> QED BY <1>1, PoliteHolds, PTL

\* No response to such a host is cut by a full FIFO, if none is larger than it.
THEOREM RepliesSafe == Spec => []RepliesWhole
  <1>1. (polite => PoliteInv) => RepliesWhole
    BY DEF PoliteInv, RepliesWhole
  <1> QED BY <1>1, PoliteHolds, PTL
=============================================================================
