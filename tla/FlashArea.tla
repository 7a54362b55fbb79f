----------------------------- MODULE FlashArea ------------------------------
(***************************************************************************)
(* The flash area backend of the port (esp_mcuboot.c as patched): the flash  *)
(* driver takes whole aligned words only, so requests that are not go        *)
(* through a static buffer that reads and writes share.                     *)
(***************************************************************************)
EXTENDS Integers

CONSTANTS
    FlashSize, AreaStart, AreaSize, RamSize,   \* as in FlashBytes
    BufSize,     \* sizeof(align_buf), 512 bytes
    Beyond,      \* bytes that follow the buffer in memory
    MaxCalls     \* bound: calls

ASSUME BufferAssumption ==
    /\ FlashSize \in Nat /\ RamSize \in Nat
    /\ AreaStart \in Nat /\ AreaSize \in Nat
    /\ AreaStart + AreaSize <= FlashSize
    /\ BufSize \in Nat /\ BufSize % 4 = 0 /\ Beyond \in Nat
    /\ MaxCalls \in Nat

VARIABLES
    flash,
    ram,        \* memory of the callers
    align_buf,  \* the buffer and what follows it
    calls,
    careful     \* chosen once: whether the callers make no long reads

vars == <<flash, ram, align_buf, calls, careful>>

Bytes == INSTANCE FlashBytes

Cells == 0..(BufSize + Beyond - 1)
IsAligned(a) == a % 4 = 0

-----------------------------------------------------------------------------
(* The flash driver (external) *)

DriverTakes(addr, len) ==
    IsAligned(addr) /\ IsAligned(len) /\ addr + len <= FlashSize

-----------------------------------------------------------------------------
(* flash_area_read and flash_area_write *)

\* Whole words.
ReadLen(len) == IF IsAligned(len) THEN len ELSE (len + 3) - ((len + 3) % 4)

\* Mutant: only the address decides, as before the length was looked at.
DirectByAddress(at, len) == IsAligned(at)

Direct(at, len) == IsAligned(at) /\ IsAligned(len)

flash_area_read(off, len, dst) ==
    /\ Bytes!InArea(off, len)
    /\ DriverTakes(AreaStart + off, ReadLen(len))
    /\ IF Direct(dst, len)
       THEN /\ ram' = Bytes!Copied(ram, dst, flash, AreaStart + off, ReadLen(len))
            /\ UNCHANGED align_buf
       ELSE /\ align_buf' = Bytes!Copied(align_buf, 0, flash, AreaStart + off,
                                         ReadLen(len))
            /\ ram' = Bytes!Copied(ram, dst, align_buf', 0, len)
    /\ UNCHANGED flash

\* Less than a word is completed with what the flash holds.
WriteShort(off, len, src) ==
    /\ len < 4
    /\ DriverTakes(AreaStart + off, 4)
    /\ flash' = Bytes!Copied(flash, AreaStart + off, ram, src, len)
    /\ UNCHANGED <<ram, align_buf>>

WriteDirect(off, len, src) ==
    /\ len >= 4 /\ IsAligned(src)
    /\ DriverTakes(AreaStart + off, len)
    /\ flash' = Bytes!Copied(flash, AreaStart + off, ram, src, len)
    /\ UNCHANGED <<ram, align_buf>>

\* Mutant: the size of the buffer is not checked.
WriteUnchecked(off, len, src) ==
    /\ len >= 4 /\ ~IsAligned(src)
    /\ DriverTakes(AreaStart + off, len)
    /\ align_buf' = Bytes!Copied(align_buf, 0, ram, src, len)
    /\ flash' = Bytes!Copied(flash, AreaStart + off, align_buf', 0, len)
    /\ UNCHANGED ram

WriteBuffered(off, len, src) ==
    /\ len >= 4 /\ ~IsAligned(src) /\ len <= BufSize
    /\ DriverTakes(AreaStart + off, len)
    /\ align_buf' = Bytes!Copied(align_buf, 0, ram, src, len)
    /\ flash' = Bytes!Copied(flash, AreaStart + off, align_buf', 0, len)
    /\ UNCHANGED ram

flash_area_write(off, len, src) ==
    /\ Bytes!InArea(off, len)
    /\ \/ WriteShort(off, len, src)
       \/ WriteDirect(off, len, src)
       \/ WriteBuffered(off, len, src)

-----------------------------------------------------------------------------
\* A read that goes through the buffer and is longer than that.
Long(c) == ~Direct(c.at, c.len) /\ c.len > BufSize

\* One call, of the arguments c.
Call(c) ==
    \/ (careful => ~Long(c)) /\ flash_area_read(c.off, c.len, c.at)
    \/ flash_area_write(c.off, c.len, c.at)

\* Flash and memory hold anything, here bytes that can be told apart.
Init ==
    /\ flash = [a \in Bytes!Flash |-> a]
    /\ ram = [a \in Bytes!Ram |-> -1 - a]
    /\ align_buf = [a \in Cells |-> 0]
    /\ calls = 0
    /\ careful \in BOOLEAN

\* A call that fails (out of the area, refused by the driver, or because the
\* flash chip does) changes nothing.
Next ==
    /\ calls < MaxCalls
    /\ calls' = calls + 1
    /\ \E c \in Bytes!Calls : Call(c)
    /\ UNCHANGED careful

Spec == Init /\ [][Next]_vars

-----------------------------------------------------------------------------
\* Callers that make no long reads see an area of single bytes, whatever the
\* alignment of their buffer and the length: the detour through the buffer
\* loses, adds and moves none, and no call leaves bytes for the next one.
ImplementsBytes == Bytes!Init /\ [][careful => Bytes!Next]_<<flash, ram>>

\* With any callers, only a read overruns the static buffer ("Should have check
\* to make sure than len can fit in static buffer"), and only a long one: no
\* write does, of any length, and no read whose length is rounded up.
OverrunByLongReadOnly ==
    [][(\E a \in Cells : a >= BufSize /\ align_buf'[a] # align_buf[a]) =>
          \E c \in Bytes!Calls : Long(c) /\ flash_area_read(c.off, c.len, c.at)]_vars
=============================================================================
