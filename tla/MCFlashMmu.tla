----------------------------- MODULE MCFlashMmu -----------------------------
(* Pages of four bytes, three on either bus; segments of one byte to all of    *)
(* the region, aligned, off by the same amount in flash as in memory, and not. *)
EXTENDS FlashMmu

MCPageSize == 4

Seg(v, l, n) == [vma |-> v, lma |-> l, size |-> n]

\* What the linker script produces: ALIGN(0xFFFF) on both output sections.
AlignedLayouts ==
    {[drom |-> Seg(0, 4, n), irom |-> Seg(12, 16, m)] :
        n, m \in {1, 4, 5, 12}}

\* What "LMA % 64KB == VMA % 64KB" alone would allow.
CongruentLayouts ==
    {[drom |-> Seg(o, 4 + o, n), irom |-> Seg(12 + o, 16 + o, n)] :
        o \in 1..3, n \in {1, 4, 6}}

\* No entry, and each at the bootloader's first page.
MCBootTables == {[e \in Entries |-> p] : p \in {Invalid, 0}}

MCLayouts == AlignedLayouts \cup CongruentLayouts
=============================================================================
