----------------------------- MODULE PortProofs -----------------------------
(***************************************************************************)
(* Proofs about two drivers of the port. FlashArea: for every size of flash,  *)
(* area and buffer, callers that read no more than the buffer holds see an    *)
(* area of single bytes. SerialPins, below: the UART of serial recovery and   *)
(* the serial boot pin are set up before they are used, whatever happens.      *)
(***************************************************************************)
EXTENDS FlashArea, SerialPins, TLAPS

Sizes ==
    /\ flash \in [Bytes!Flash -> Int]
    /\ ram \in [Bytes!Ram -> Int]
    /\ align_buf \in [Cells -> Int]

\* Rounded up, a length that fits the buffer still does.
LEMMA RoundsUp ==
    ASSUME NEW len \in Nat
    PROVE  /\ ReadLen(len) \in Nat /\ len <= ReadLen(len)
           /\ Direct(0, len) => ReadLen(len) = len
           /\ len <= BufSize => ReadLen(len) <= BufSize
BY BufferAssumption DEF ReadLen, Direct, IsAligned

\* The initial states are those of an area of bytes.
LEMMA AreaInit == Init => Sizes /\ Bytes!Init
BY BufferAssumption DEF Init, Sizes, Bytes!Init,
   Bytes!Flash, Bytes!Ram, Cells

\* A call of a careful caller is the abstract one.
LEMMA CallIsOfBytes ==
    ASSUME careful, Sizes, NEW c \in Bytes!Calls, Call(c)
    PROVE  /\ Sizes'
           /\ Bytes!Read(c.off, c.len, c.at) \/ Bytes!Write(c.off, c.len, c.at)
<1> DEFINE s == AreaStart + c.off
           n == c.len
<1>1. /\ c.off \in Nat /\ n \in Nat /\ n >= 1 /\ c.at \in Nat
      /\ c.at + n <= RamSize /\ s \in Nat
  BY BufferAssumption DEF Bytes!Calls, Bytes!Ram
<1>2. /\ Bytes!Ram \subseteq Int /\ Cells \subseteq Int /\ Bytes!Flash \subseteq Int
      /\ c.at..(c.at + n - 1) \subseteq Bytes!Ram
  BY <1>1, BufferAssumption DEF Bytes!Ram, Cells, Bytes!Flash
<1>3. ReadLen(n) \in Nat /\ n <= ReadLen(n)
      /\ (n <= BufSize => ReadLen(n) <= BufSize)
  BY <1>1, RoundsUp
<1>4. CASE ~Long(c) /\ flash_area_read(c.off, n, c.at)
  <2>1. /\ Bytes!InArea(c.off, n) /\ s + ReadLen(n) <= FlashSize
        /\ flash' = flash
    BY <1>4 DEF flash_area_read, DriverTakes
  <2>2. s..(s + ReadLen(n) - 1) \subseteq Bytes!Flash
        /\ s..(s + n - 1) \subseteq Bytes!Flash
    BY <2>1, <1>1, <1>3, BufferAssumption DEF Bytes!Flash
  <2>3. Bytes!Copied(ram, c.at, flash, s, n) \in [Bytes!Ram -> Int]
    <3>1. \A k \in c.at..(c.at + n - 1) : flash[s + (k - c.at)] \in Int
      BY <2>2, <1>1 DEF Sizes
    <3> QED  BY <3>1 DEF Sizes, Bytes!Copied
  <2>4. ram' = Bytes!Copied(ram, c.at, flash, s, n) /\ Sizes'
    <3>1. CASE Direct(c.at, n)
      <4>1. ReadLen(n) = n
        BY <3>1 DEF Direct, ReadLen
      <4>2. ram' = Bytes!Copied(ram, c.at, flash, s, n) /\ align_buf' = align_buf
        BY <1>4, <3>1, <4>1 DEF flash_area_read
      <4> QED  BY <4>2, <2>3, <2>1 DEF Sizes
    <3>2. CASE ~Direct(c.at, n)
      <4>1. n <= BufSize /\ ReadLen(n) <= BufSize
        BY <1>1, <1>3, <1>4, <3>2, BufferAssumption DEF Long
      <4>2. /\ align_buf' = Bytes!Copied(align_buf, 0, flash, s, ReadLen(n))
            /\ ram' = Bytes!Copied(ram, c.at, align_buf', 0, n)
        BY <1>4, <3>2 DEF flash_area_read
      <4>3. \A k \in 0..(n - 1) : align_buf'[k] = flash[s + k]
        <5>1. \A k \in 0..(n - 1) : /\ k \in Cells /\ k - 0 = k
                                    /\ k \in 0..(0 + ReadLen(n) - 1)
          BY <4>1, <1>1, <1>3, BufferAssumption DEF Cells
        <5> QED  BY <4>2, <5>1 DEF Sizes, Bytes!Copied
      <4>4. ram' = Bytes!Copied(ram, c.at, flash, s, n)
        <5>1. \A k \in c.at..(c.at + n - 1) :
                 align_buf'[0 + (k - c.at)] = flash[s + (k - c.at)]
          BY <4>3, <1>1
        <5> QED  BY <4>2, <5>1 DEF Bytes!Copied
      <4>5. align_buf' \in [Cells -> Int]
        <5>1. \A k \in 0..(0 + ReadLen(n) - 1) : flash[s + (k - 0)] \in Int
          BY <2>2, <1>1, <1>3 DEF Sizes
        <5> QED  BY <4>2, <5>1 DEF Sizes, Bytes!Copied
      <4> QED  BY <4>4, <4>5, <2>1, <2>3 DEF Sizes
    <3> QED  BY <3>1, <3>2
  <2>5. Bytes!Read(c.off, c.len, c.at)
    BY <2>1, <2>4 DEF Bytes!Read
  <2> QED  BY <2>4, <2>5 DEF Sizes
<1>5. CASE flash_area_write(c.off, n, c.at)
  <2>1. Bytes!InArea(c.off, n) /\ ram' = ram
    BY <1>5 DEF flash_area_write, WriteShort, WriteDirect, WriteBuffered
  <2>2. flash' = Bytes!Copied(flash, s, ram, c.at, n)
        /\ align_buf' \in [Cells -> Int]
    <3>1. CASE WriteShort(c.off, n, c.at) \/ WriteDirect(c.off, n, c.at)
      BY <3>1 DEF WriteShort, WriteDirect, Sizes
    <3>2. CASE WriteBuffered(c.off, n, c.at)
      <4>1. /\ n <= BufSize
            /\ align_buf' = Bytes!Copied(align_buf, 0, ram, c.at, n)
            /\ flash' = Bytes!Copied(flash, s, align_buf', 0, n)
        BY <3>2 DEF WriteBuffered
      <4>2. \A k \in 0..(n - 1) : align_buf'[k] = ram[c.at + k]
        <5>1. \A k \in 0..(n - 1) : /\ k \in Cells /\ k - 0 = k
                                    /\ k \in 0..(0 + n - 1)
          BY <4>1, <1>1, BufferAssumption DEF Cells
        <5> QED  BY <4>1, <5>1 DEF Sizes, Bytes!Copied
      <4>3. flash' = Bytes!Copied(flash, s, ram, c.at, n)
        <5>1. \A k \in s..(s + n - 1) :
                 align_buf'[0 + (k - s)] = ram[c.at + (k - s)]
          BY <4>2, <1>1
        <5> QED  BY <4>1, <5>1 DEF Bytes!Copied
      <4>4. align_buf' \in [Cells -> Int]
        <5>1. \A k \in 0..(0 + n - 1) : ram[c.at + (k - 0)] \in Int
          BY <1>1, <1>2 DEF Sizes
        <5> QED  BY <4>1, <5>1 DEF Sizes, Bytes!Copied
      <4> QED  BY <4>3, <4>4
    <3> QED  BY <1>5, <3>1, <3>2 DEF flash_area_write
  <2>3. flash' \in [Bytes!Flash -> Int]
    <3>1. \A k \in s..(s + n - 1) : ram[c.at + (k - s)] \in Int
      BY <1>1, <1>2 DEF Sizes
    <3> QED  BY <2>2, <3>1 DEF Sizes, Bytes!Copied
  <2>4. Bytes!Write(c.off, c.len, c.at)
    BY <2>1, <2>2 DEF Bytes!Write
  <2> QED  BY <2>1, <2>2, <2>3, <2>4 DEF Sizes
<1> QED  BY <1>4, <1>5 DEF Call

\* Every step keeps the sizes for careful callers, and is one of the area of
\* bytes.
LEMMA AreaNext ==
    (careful => Sizes) /\ [Next]_vars =>
        (careful => Sizes)' /\ [careful => Bytes!Next]_<<flash, ram>>
<1> SUFFICES ASSUME careful => Sizes, [Next]_vars
             PROVE  (careful => Sizes)' /\ [careful => Bytes!Next]_<<flash, ram>>
  OBVIOUS
<1>1. CASE Next
  <2>1. careful' = careful
    BY <1>1 DEF Next
  <2>2. CASE careful
    <3>1. PICK c \in Bytes!Calls : Call(c)
      BY <1>1 DEF Next
    <3>2. Sizes' /\ Bytes!Next
      BY <2>2, <3>1, CallIsOfBytes DEF Bytes!Next
    <3> QED
      BY <3>2
  <2> QED
    BY <2>1, <2>2
<1>2. CASE UNCHANGED vars
  BY <1>2 DEF vars, Sizes
<1> QED
  BY <1>1, <1>2

\* Callers that make no long reads see single bytes, for every size of the
\* buffer (flash_area_read and flash_area_write, mcuboot.patch:942-996).
THEOREM AreaImplementsBytes == Spec => ImplementsBytes
<1>1. Init => (careful => Sizes) /\ Bytes!Init
  BY AreaInit
<1> QED
  BY <1>1, AreaNext, PTL DEF Spec, ImplementsBytes

\* The buffer and what follows it, whatever a read puts there.
IsMemory == align_buf = [a \in Cells |-> align_buf[a]]

\* A step of any caller changes bytes behind the buffer only by a long read.
LEMMA CallOverruns ==
    ASSUME IsMemory, NEW c \in Bytes!Calls, Call(c)
    PROVE  /\ IsMemory'
           /\ (\E a \in Cells : a >= BufSize /\ align_buf'[a] # align_buf[a])
                => Long(c) /\ flash_area_read(c.off, c.len, c.at)
<1>1. c.len \in Nat /\ \A a \in Cells : a \in Nat
  BY BufferAssumption DEF Bytes!Calls, Cells
<1>2. ASSUME NEW from, NEW start, NEW n \in Nat,
             align_buf' = Bytes!Copied(align_buf, 0, from, start, n)
      PROVE  /\ IsMemory'
             /\ n <= BufSize => \A a \in Cells : a >= BufSize => align_buf'[a] = align_buf[a]
  <2>1. DOMAIN align_buf = Cells
    BY DEF IsMemory
  <2>2. align_buf' = [a \in Cells |-> IF a \in 0..(0 + n - 1)
                                      THEN from[start + (a - 0)] ELSE align_buf[a]]
    BY <1>2, <2>1 DEF Bytes!Copied
  <2>3. n <= BufSize => \A a \in Cells : a >= BufSize => a \notin 0..(0 + n - 1)
    BY <1>1, BufferAssumption
  <2> QED
    BY <2>2, <2>3 DEF IsMemory
<1>3. CASE align_buf' = align_buf
  BY <1>3 DEF IsMemory
<1>4. CASE flash_area_read(c.off, c.len, c.at)
  <2>1. ReadLen(c.len) \in Nat /\ (c.len <= BufSize => ReadLen(c.len) <= BufSize)
    BY <1>1, RoundsUp
  <2>2. CASE Direct(c.at, c.len)
    BY <1>3, <1>4, <2>2 DEF flash_area_read
  <2>3. CASE ~Direct(c.at, c.len)
    <3>1. align_buf' = Bytes!Copied(align_buf, 0, flash, AreaStart + c.off, ReadLen(c.len))
      BY <1>4, <2>3 DEF flash_area_read
    <3>2. ~Long(c) => c.len <= BufSize
      BY <1>1, <2>3, BufferAssumption DEF Long
    <3> QED
      BY <1>2, <1>4, <2>1, <3>1, <3>2
  <2> QED
    BY <2>2, <2>3
<1>5. CASE WriteBuffered(c.off, c.len, c.at)
  BY <1>1, <1>2, <1>5 DEF WriteBuffered
<1> QED
  BY <1>3, <1>4, <1>5 DEF Call, flash_area_write, WriteShort, WriteDirect

\* For every size of flash, buffer and requests, careful callers or not: only a
\* read of more than the buffer holds reaches the bytes behind it.
THEOREM OnlyLongReadsOverrun == Spec => OverrunByLongReadOnly
<1> DEFINE Explained ==
        (\E a \in Cells : a >= BufSize /\ align_buf'[a] # align_buf[a]) =>
            \E c \in Bytes!Calls : Long(c) /\ flash_area_read(c.off, c.len, c.at)
<1>1. Init => IsMemory
  BY DEF Init, IsMemory
<1>2. IsMemory /\ [Next]_vars => IsMemory' /\ [Explained]_vars
  <2> SUFFICES ASSUME IsMemory, [Next]_vars PROVE IsMemory' /\ [Explained]_vars
    OBVIOUS
  <2>1. CASE Next
    <3>1. PICK c \in Bytes!Calls : Call(c)
      BY <2>1 DEF Next
    <3> QED
      BY <3>1, CallOverruns
  <2>2. CASE UNCHANGED vars
    BY <2>2 DEF vars, IsMemory
  <2> QED
    BY <2>1, <2>2
<1>3. [][Explained]_vars => OverrunByLongReadOnly
  BY PTL DEF OverrunByLongReadOnly
<1> QED
  BY <1>1, <1>2, <1>3, PTL DEF Spec
-----------------------------------------------------------------------------
(* The pins of serial recovery *)

\* The steps before the one that enables the output of TX.
BeforeSet == {"start", "rx", "tx", "get", "set"}

\* What is set up stays so; the pull of a pad is what the next samples rely on.
PadsSetUp ==
    /\ pull \in [{RX, Button} -> SUBSET {"up", "down"}]
    /\ pc # "start" => RX \in gpio /\ rxPin = RX
    /\ pc \notin {"start", "rx"} => RX \in input /\ pull[RX] = {"up"}
    /\ pc \notin {"start", "rx", "tx"} =>
          TX \in gpio /\ txPin = TX /\ TX \in out
    /\ Initialised => Button \in gpio \cap input /\ "down" \in pull[Button]

\* The UART's input is driven only if the register read back the output of TX.
OutputsSet ==
    /\ pc \in BeforeSet \/ read = 0 => RX \notin out
    /\ pc \in BeforeSet \ {"set"} => read = 0

\* From the reset of the FIFOs on, no byte is garbled.
Received ==
    /\ pc \in {"reset", "button"} \/ Initialised => uartSet = TRUE
    /\ pc = "button" \/ Initialised => \A b \in rxfifo : b[2] = TRUE

\* While the pin keeps its place, all samples are alike, unless it is open and
\* its pad has a pull-up.
Sampled ==
    /\ bootPin \in {"vcc", "ground", "open"}
    /\ i \in 0..n_samples /\ aggregate \in 0..i
    /\ ~Initialised => i = 0
    /\ pc = "detected" => i = n_samples
    /\ still /\ bootPin = "vcc" => aggregate = i
    /\ still /\ (bootPin = "ground" \/ (bootPin = "open" /\ "up" \notin pull[Button]))
         => aggregate = 0

PinsInv == PadsSetUp /\ OutputsSet /\ Received /\ Sampled

\* The addition carries out of the bit of TX only if that bit was read: from
\* zero, the bits that are written are those of TX alone.
LEMMA AddedToZero == RX \notin Bits(0 + 2^TX)
<1>1. (2^26 \div 2^27) % 2 = 0
  OBVIOUS
<1> QED
  BY <1>1 DEF RX, TX, Bits

\* A sample reads the wire, or of an open pin without pull-up the pull-down.
LEMMA SampleReads ==
    ASSUME PinsInv, Sample
    PROVE  /\ i' = i + 1 /\ aggregate' \in {aggregate, aggregate + 1}
           /\ bootPin = "vcc" => aggregate' = aggregate + 1
           /\ bootPin = "ground" \/ (bootPin = "open" /\ "up" \notin pull[Button])
                => aggregate' = aggregate
<1>1. /\ Button \in gpio \cap input /\ "down" \in pull[Button]
      /\ pull[Button] \subseteq {"up", "down"}
  BY DEF PinsInv, PadsSetUp, Sample, Initialised, RX, Button
<1>2. aggregate \in Int
  BY DEF PinsInv, Sampled, n_samples
<1>3. PICK level \in Levels(Button) : aggregate' = aggregate + level
  BY DEF Sample
<1>4. /\ level \in {0, 1}
      /\ bootPin = "vcc" => level = 1
      /\ bootPin = "ground" => level = 0
  BY <1>1, <1>3 DEF Levels, PullLevels
<1>5. bootPin = "open" /\ "up" \notin pull[Button] => level = 0
  <2>1. "up" \notin pull[Button] => pull[Button] = {"down"}
    BY <1>1
  <2> QED
    BY <1>1, <1>3, <2>1 DEF Levels, PullLevels
<1> QED
  BY <1>2, <1>3, <1>4, <1>5 DEF Sample

\* The initial states have nothing set up.
LEMMA PinsBegin == PinsInit => PinsInv
BY DEF PinsInit, PinsInv, PadsSetUp, OutputsSet, Received, Sampled, BeforeSet,
   Initialised, RX, TX, Button, n_samples

\* Every step keeps the pads set up.
LEMMA PadsNext == PinsInv /\ PinsNext => PadsSetUp'
<1> SUFFICES ASSUME PinsInv, PinsNext PROVE PadsSetUp'
  OBVIOUS
<1> USE DEF PinsInv, PadsSetUp, Initialised, Goto,
            uart, pads, samples, RX, TX, Button
<1>1. CASE SelectRxPin
  BY <1>1 DEF SelectRxPin
<1>2. CASE EnableRxInput
  BY <1>2 DEF EnableRxInput, GPIO_PIN_MUX_REG, Pins
<1>3. CASE ConnectTxPin
  BY <1>3 DEF ConnectTxPin
<1>4. CASE GetEnabled
  BY <1>4 DEF GetEnabled
<1>5. CASE SetEnabled
  BY <1>5 DEF SetEnabled
<1>6. CASE ConfigureUart
  BY <1>6 DEF ConfigureUart
<1>7. CASE ResetFifos
  BY <1>7 DEF ResetFifos
<1>8. CASE configure_boot_serial_button
  BY <1>8 DEF configure_boot_serial_button, GPIO_PIN_MUX_REG, Pins
<1>9. CASE Sample
  BY <1>9 DEF Sample
<1>10. CASE Receive
  BY <1>10 DEF Receive
<1>11. CASE MovePin
  BY <1>11 DEF MovePin
<1> QED
  BY <1>1, <1>2, <1>3, <1>4, <1>5, <1>6, <1>7, <1>8, <1>9, <1>10, <1>11
  DEF PinsNext, boot_port_serial_init

\* Every step keeps the outputs as they are or should be.
LEMMA OutputsNext == PinsInv /\ PinsNext => OutputsSet'
<1> SUFFICES ASSUME PinsInv, PinsNext PROVE OutputsSet'
  OBVIOUS
<1> USE DEF PinsInv, OutputsSet, BeforeSet, Goto, uart
<1>1. CASE SelectRxPin \/ EnableRxInput \/ ConnectTxPin
  BY <1>1 DEF SelectRxPin, EnableRxInput, ConnectTxPin, RX, TX
<1>2. CASE GetEnabled
  BY <1>2 DEF GetEnabled
<1>3. CASE SetEnabled
  <2>1. read = 0 => RX \notin Bits(read + 2^TX)
    BY AddedToZero
  <2> QED
    BY <1>3, <2>1 DEF SetEnabled
<1>4. CASE ConfigureUart \/ ResetFifos
  BY <1>4 DEF ConfigureUart, ResetFifos
<1>5. CASE configure_boot_serial_button \/ Sample
  BY <1>5 DEF configure_boot_serial_button, Sample
<1>6. CASE Receive \/ MovePin
  BY <1>6 DEF Receive, MovePin
<1> QED
  BY <1>1, <1>2, <1>3, <1>4, <1>5, <1>6 DEF PinsNext, boot_port_serial_init

\* Every step keeps what was received since the reset free of garbled bytes.
LEMMA ReceivedNext == PinsInv /\ PinsNext => Received'
<1> SUFFICES ASSUME PinsInv, PinsNext PROVE Received'
  OBVIOUS
<1> USE DEF PinsInv, Received, Initialised, Goto, uart
<1>1. CASE SelectRxPin \/ EnableRxInput \/ ConnectTxPin
  BY <1>1 DEF SelectRxPin, EnableRxInput, ConnectTxPin
<1>2. CASE GetEnabled \/ SetEnabled
  BY <1>2 DEF GetEnabled, SetEnabled
<1>3. CASE ConfigureUart \/ ResetFifos
  BY <1>3 DEF ConfigureUart, ResetFifos
<1>4. CASE configure_boot_serial_button \/ Sample
  BY <1>4 DEF configure_boot_serial_button, Sample
<1>5. CASE Receive
  BY <1>5 DEF Receive
<1>6. CASE MovePin
  BY <1>6 DEF MovePin
<1> QED
  BY <1>1, <1>2, <1>3, <1>4, <1>5, <1>6 DEF PinsNext, boot_port_serial_init

\* Every step keeps the samples of a pin that keeps its place alike.
LEMMA SampledNext == PinsInv /\ PinsNext => Sampled'
<1> SUFFICES ASSUME PinsInv, PinsNext PROVE Sampled'
  OBVIOUS
<1> USE DEF PinsInv, Sampled, Initialised, Goto, samples, pads
<1>1. CASE SelectRxPin \/ EnableRxInput \/ ConnectTxPin
  BY <1>1 DEF SelectRxPin, EnableRxInput, ConnectTxPin, PadsSetUp, RX, Button
<1>2. CASE GetEnabled \/ SetEnabled
  BY <1>2 DEF GetEnabled, SetEnabled
<1>3. CASE ConfigureUart \/ ResetFifos
  BY <1>3 DEF ConfigureUart, ResetFifos
<1>4. CASE configure_boot_serial_button
  BY <1>4 DEF configure_boot_serial_button, PadsSetUp, RX, Button
<1>5. CASE Sample
  <2>1. /\ i' = i + 1 /\ i < 5 /\ i \in 0..5 /\ aggregate \in 0..i
        /\ aggregate' \in {aggregate, aggregate + 1}
        /\ pc' = IF i + 1 = 5 THEN "detected" ELSE "sample"
        /\ bootPin' = bootPin /\ pull' = pull
    BY <1>5, SampleReads DEF Sample, n_samples, pads
  <2>2. still' => i = 0 \/ still
    BY <1>5, Zenon DEF Sample
  <2>3. still' /\ bootPin = "vcc" => aggregate' = i'
    BY <1>5, <2>1, <2>2, SampleReads
  <2>4. still' /\ (bootPin = "ground" \/ (bootPin = "open" /\ "up" \notin pull[Button]))
          => aggregate' = 0
    BY <1>5, <2>1, <2>2, SampleReads
  <2> QED
    BY <2>1, <2>3, <2>4 DEF n_samples
<1>6. CASE Receive
  BY <1>6 DEF Receive
<1>7. CASE MovePin
  BY <1>7 DEF MovePin
<1> QED
  BY <1>1, <1>2, <1>3, <1>4, <1>5, <1>6, <1>7
  DEF PinsNext, boot_port_serial_init

\* The four parts together hold of every reachable state.
LEMMA PinsAlways == PinsSpec => []PinsInv
<1>1. PinsInv /\ UNCHANGED pinVars => PinsInv'
  BY DEF PinsInv, PadsSetUp, OutputsSet, Received, Sampled, BeforeSet,
     Initialised, pinVars, uart, pads, samples
<1>2. PinsInv /\ [PinsNext]_pinVars => PinsInv'
  BY <1>1, PadsNext, OutputsNext, ReceivedNext, SampledNext DEF PinsInv
<1> QED
  BY <1>2, PinsBegin, PTL DEF PinsSpec

\* Once the port is initialised, the UART receives from and drives its own
\* pins; nothing else drives its input, unless GPIO_ENABLE_W1TS_REG reads back
\* (configure_mcumgr_uart).
THEOREM UartHasItsPins == PinsSpec => []PinsAreTheUarts
<1>1. PinsInv => PinsAreTheUarts
  BY DEF PinsInv, PadsSetUp, OutputsSet, PinsAreTheUarts, Initialised
<1> QED
  BY <1>1, PinsAlways, PTL

\* No byte received before the UART had the host's rate is left for readline,
\* whatever the size of the FIFO and whenever it came (boot_port_serial_init).
THEOREM NoneGarbled == PinsSpec => []NoGarbledByte
<1>1. PinsInv => NoGarbledByte
  BY DEF PinsInv, Received, NoGarbledByte, Initialised
<1> QED
  BY <1>1, PinsAlways, PTL

\* The wire decides, whatever the pads had before, and an open pin without a
\* pull-up skips serial mode (boot_port_serial_detect_boot_pin).
THEOREM PinIsRead == PinsSpec => []PinDecides
<1>1. PinsInv => PinDecides
  <2>1. 5 \div 5 = 1 /\ 0 \div 5 # 1
    OBVIOUS
  <2> QED
    BY <2>1 DEF PinsInv, Sampled, PinDecides, Detected, n_samples
<1> QED
  BY <1>1, PinsAlways, PTL
=============================================================================
