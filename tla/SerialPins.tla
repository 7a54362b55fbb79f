----------------------------- MODULE SerialPins -----------------------------
(***************************************************************************)
(* The pins of serial recovery (boot_serial_port.c): boot_port_serial_init  *)
(* makes two GPIOs the mcumgr UART and a third one the serial boot pin, and   *)
(* boot_port_serial_detect_boot_pin samples that. Meanwhile the host may send *)
(* and the pin may be wired anew. The pads start with any function and pulls, *)
(* as reset, ROM and bootloader left them.                                    *)
(***************************************************************************)
EXTENDS Naturals, FiniteSets

CONSTANTS
    ReadsBack,   \* whether GPIO_ENABLE_W1TS_REG, which is written to set bits,
                 \* reads as the enabled outputs or as 0: the possible answers
    RxSize       \* bound: bytes that are in the receive FIFO at a time

ASSUME PinAssumption == ReadsBack \subseteq BOOLEAN /\ RxSize \in Nat

RX == 27
TX == 26
Button == 5
Pins == 0..39
n_samples == 5

\* The pad that the table gives for a pin: its own, or none for a number that
\* is no GPIO.
GPIO_PIN_MUX_REG == [p \in Pins |-> IF p \in {20, 24} \cup 28..31 THEN {} ELSE {p}]

VARIABLES
    pc,
    gpio,       \* pads with the GPIO function
    input,      \* pads whose input is enabled
    pull,       \* [pad -> those of "up" and "down" that are on]
    rxPin,      \* the pin the UART receives from
    txPin,      \* the pin the UART drives
    out,        \* pins whose output is enabled
    read,       \* gpio_enable_out
    uartSet,    \* the UART has the mode and baud rate of the host
    rxfifo,     \* of each byte received: whether it came at that rate
    bootPin,    \* the serial boot pin: at "vcc", at "ground", or "open"
    still,      \* that has not changed since the first sample
    aggregate,  \* of the samples
    i

pads == <<gpio, input, pull>>
uart == <<rxPin, txPin, out, read, uartSet>>
samples == <<still, aggregate, i>>
pinVars == <<pc, pads, uart, rxfifo, bootPin, samples>>

Goto(from, to) == pc = from /\ pc' = to
None == 40

-----------------------------------------------------------------------------
(* configure_mcumgr_uart *)

SelectRxPin ==
    /\ Goto("start", "rx")
    /\ gpio' = gpio \cup {RX}
    /\ rxPin' = RX
    /\ UNCHANGED <<input, pull, txPin, out, read, uartSet, rxfifo, bootPin,
                   samples>>

EnableRxInput ==
    /\ Goto("rx", "tx")
    /\ input' = input \cup GPIO_PIN_MUX_REG[RX]
    /\ pull' = [pull EXCEPT ![RX] = {"up"}]
    /\ UNCHANGED <<gpio, uart, rxfifo, bootPin, samples>>

\* The ROM enables the output of a pin that it connects to a signal.
ConnectTxPin ==
    /\ Goto("tx", "get")
    /\ gpio' = gpio \cup {TX}
    /\ txPin' = TX
    /\ out' = out \cup {TX}
    /\ UNCHANGED <<input, pull, rxPin, read, uartSet, rxfifo, bootPin, samples>>

Value(pins) == IF TX \in pins THEN 2^TX ELSE 0
Bits(value) == {p \in {Button, TX, RX} : (value \div 2^p) % 2 = 1}

GetEnabled ==
    /\ Goto("get", "set")
    /\ \E back \in ReadsBack : read' = IF back THEN Value(out) ELSE 0
    /\ UNCHANGED <<pads, rxPin, txPin, out, uartSet, rxfifo, bootPin, samples>>

\* Mutant: the bit next to it.
SetEnabledNext ==
    /\ Goto("set", "uart")
    /\ out' = out \cup Bits(read + 2^RX)
    /\ UNCHANGED <<pads, rxPin, txPin, read, uartSet, rxfifo, bootPin, samples>>

\* The pin's bit is added to what was read, not or-ed into it.
SetEnabled ==
    /\ Goto("set", "uart")
    /\ out' = out \cup Bits(read + 2^TX)
    /\ UNCHANGED <<pads, rxPin, txPin, read, uartSet, rxfifo, bootPin, samples>>

ConfigureUart ==
    /\ Goto("uart", "reset")
    /\ uartSet' = TRUE
    /\ UNCHANGED <<pads, rxPin, txPin, out, read, rxfifo, bootPin, samples>>

\* Mutant: only the transmit FIFO is reset.
ResetTxFifo ==
    /\ Goto("reset", "button")
    /\ UNCHANGED <<pads, uart, rxfifo, bootPin, samples>>

\* What was received before the UART was set is dropped.
ResetFifos ==
    /\ Goto("reset", "button")
    /\ rxfifo' = {}
    /\ UNCHANGED <<pads, uart, bootPin, samples>>

-----------------------------------------------------------------------------
(* configure_boot_serial_button *)

\* Mutant: the pad keeps the pulls that it had.
ConfigureFloating ==
    /\ Goto("button", "sample")
    /\ gpio' = gpio \cup {Button}
    /\ input' = input \cup GPIO_PIN_MUX_REG[Button]
    /\ UNCHANGED <<pull, uart, rxfifo, bootPin, samples>>

\* gpio_ll_pulldown_en sets the pull-down's bit: a pull-up stays.
configure_boot_serial_button ==
    /\ Goto("button", "sample")
    /\ gpio' = gpio \cup {Button}
    /\ input' = input \cup GPIO_PIN_MUX_REG[Button]
    /\ pull' = [pull EXCEPT ![Button] = @ \cup {"down"}]
    /\ UNCHANGED <<uart, rxfifo, bootPin, samples>>

-----------------------------------------------------------------------------
(* boot_port_serial_detect_boot_pin *)

\* An open pin follows its pull; with both or none of them, anything.
PullLevels(pin) ==
    IF pull[pin] = {"down"} THEN {0} ELSE IF pull[pin] = {"up"} THEN {1} ELSE {0, 1}

\* Without its input enabled a pad reads low.
Levels(pin) ==
    IF pin \notin gpio \cap input \/ bootPin = "ground" THEN {0}
    ELSE IF bootPin = "vcc" THEN {1} ELSE PullLevels(pin)

Sample ==
    /\ pc = "sample" /\ i < n_samples
    /\ \E level \in Levels(Button) : aggregate' = aggregate + level
    /\ i' = i + 1
    /\ still' = (i = 0 \/ still)
    /\ pc' = IF i + 1 = n_samples THEN "detected" ELSE "sample"
    /\ UNCHANGED <<pads, uart, rxfifo, bootPin>>

Detected == pc = "detected" /\ aggregate \div n_samples = 1

-----------------------------------------------------------------------------
(* The world outside (external) *)

\* A byte arrives if the UART listens to a pin; before its rate is set it is
\* garbled.
Receive ==
    /\ rxPin \in gpio \cap input
    /\ Cardinality(rxfifo) < RxSize
    /\ rxfifo' = rxfifo \cup {<<Cardinality(rxfifo), uartSet>>}
    /\ UNCHANGED <<pc, pads, uart, bootPin, samples>>

MovePin ==
    /\ pc # "detected"
    /\ bootPin' \in {"vcc", "ground", "open"} \ {bootPin}
    /\ still' = FALSE
    /\ UNCHANGED <<pc, pads, uart, rxfifo, aggregate, i>>

PinsInit ==
    /\ pc = "start"
    /\ gpio \in SUBSET {RX, Button} /\ input \in SUBSET {RX, Button}
    /\ pull \in [{RX, Button} -> SUBSET {"up", "down"}]
    /\ rxPin = None /\ txPin = None
    /\ out = {} /\ read = 0 /\ uartSet = FALSE
    /\ rxfifo = {}
    /\ bootPin \in {"vcc", "ground", "open"}
    /\ still = FALSE /\ aggregate = 0 /\ i = 0

boot_port_serial_init ==
    \/ SelectRxPin \/ EnableRxInput \/ ConnectTxPin \/ GetEnabled \/ SetEnabled
    \/ ConfigureUart \/ ResetFifos \/ configure_boot_serial_button

PinsNext == boot_port_serial_init \/ Sample \/ Receive \/ MovePin

PinsSpec == PinsInit /\ [][PinsNext]_pinVars

-----------------------------------------------------------------------------
Initialised == pc \in {"sample", "detected"}

\* The UART receives from and drives its own pins, whose pads are set up for
\* it, and nothing else drives its input: the addition carries into the bit of
\* the input pin only if the register reads back.
PinsAreTheUarts ==
    Initialised =>
        /\ rxPin \in gpio \cap input /\ pull[rxPin] = {"up"}
        /\ txPin \in gpio /\ txPin \in out
        /\ read = 0 => rxPin \notin out

\* readline never sees a byte received before the UART had the host's rate.
NoGarbledByte == Initialised => \A b \in rxfifo : b[2]

\* A pin that keeps its place while it is sampled decides: "You can ground the
\* pin to skip serial mode, or tie it to VCC to enter serial mode", whatever
\* pulls its pad had before. Left open it skips serial mode as well, unless the
\* pad came with a pull-up, which nothing turns off.
PinDecides ==
    pc = "detected" /\ still =>
        CASE bootPin = "vcc"    -> Detected
          [] bootPin = "ground" -> ~Detected
          [] bootPin = "open"   -> "up" \in pull[Button] \/ ~Detected
=============================================================================
