--------------------------- MODULE MCThreadControl ---------------------------
(* A leader and two threads it may create.                                 *)
EXTENDS ThreadControl, TLC

CONSTANTS m, t1, t2

MCThread   == {m, t1, t2}
MCSymmetry == Permutations({t1, t2})
=============================================================================
