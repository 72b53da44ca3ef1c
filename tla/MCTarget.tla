------------------------------ MODULE MCTarget ------------------------------
(* A process of up to three threads with two libraries from the start, one *)
(* of them without a file, and one that comes and goes.                    *)
EXTENDS Target

Entry(l, b) == [lib |-> l, base |-> b]
MCStartup == <<Entry("libc", 1), Entry("vdso", 2)>>
MCPlugins == {Entry("plugin", 3)}
=============================================================================
