----------------------------- MODULE MCBootFlow -----------------------------
(* Instances of BootFlow for TLC. *)
EXTENDS BootFlowProps

CONSTANTS old, new, hangsEarly, hangsLate, unsigned

MCImages == {old, new, hangsEarly, hangsLate, unsigned}
MCValid == MCImages \ {unsigned}
MCHangsEarly == {hangsEarly}
MCHangsLate == {hangsLate}
=============================================================================
