-------------------------- MODULE MCDebugRegisters --------------------------
(* Two debug registers for up to two watchpoints and a hardware            *)
(* breakpoint, each at an address of its own that the same value names.    *)
(* What is written to a variable is told apart, and nothing else.          *)
EXTENDS DebugRegisters, TLC

CONSTANTS t1, t2, w1, w2, x, v1, v2

MCThread   == {t1, t2}
MCWatch    == {w1, w2}
MCExec     == {x}
MCAddr     == {w1, w2, x}
MCValue    == {v1, v2}
MCSymmetry == Permutations(MCThread) \cup Permutations(MCWatch) \cup Permutations(MCValue)
MCAddrOf   == [p \in Point |-> p]

(* Once a thread was created late only DisabledIsSilent promises anything. *)
(* It reads no value, and neither do the guards of the actions and what    *)
(* they do to the other variables: states that differ in values alone are  *)
(* the same.                                                               *)
MCView == IF late THEN <<live, current, wait, dr, dr7, point>> ELSE vars
=============================================================================
