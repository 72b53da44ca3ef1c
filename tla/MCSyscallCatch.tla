--------------------------- MODULE MCSyscallCatch ---------------------------
(* Two threads and two system calls; the user catches neither, one or both. *)
EXTENDS SyscallCatch, TLC

CONSTANTS t1, t2, read, write

MCThread   == {t1, t2}
MCCall     == {read, write}
MCAnyPolicy == {{}, {write}, {read, write}}
MCAll      == {{read, write}}
=============================================================================
