----------------------------- MODULE FlashBytes -----------------------------
(***************************************************************************)
(* What MCUboot expects of a flash area: a read copies bytes of the area    *)
(* into memory and a write copies memory into the area, both exactly the    *)
(* bytes asked for, or they fail and change nothing.                        *)
(***************************************************************************)
EXTENDS Integers

CONSTANTS
    FlashSize,   \* bytes of flash
    AreaStart,   \* fa_off
    AreaSize,    \* fa_size
    RamSize      \* bytes of the callers' memory

VARIABLES flash, ram

Flash == 0..(FlashSize - 1)
Ram   == 0..(RamSize - 1)

\* n bytes of one memory, copied to another one.
Copied(to, at, from, start, n) ==
    [k \in DOMAIN to |-> IF k \in at..(at + n - 1)
                         THEN from[start + (k - at)] ELSE to[k]]

InArea(off, len) == off + len <= AreaSize

Read(off, len, dst) ==
    /\ InArea(off, len)
    /\ ram' = Copied(ram, dst, flash, AreaStart + off, len)
    /\ UNCHANGED flash

Write(off, len, src) ==
    /\ InArea(off, len)
    /\ flash' = Copied(flash, AreaStart + off, ram, src, len)
    /\ UNCHANGED ram

\* A caller passes a place of its own memory.
Calls == {c \in [off : 0..AreaSize, len : 1..RamSize, at : Ram] :
              c.at + c.len <= RamSize}

Init == flash \in [Flash -> Int] /\ ram \in [Ram -> Int]

Next == \E c \in Calls : Read(c.off, c.len, c.at) \/ Write(c.off, c.len, c.at)

Spec == Init /\ [][Next]_<<flash, ram>>
=============================================================================
