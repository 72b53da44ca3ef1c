------------------------- MODULE MCBreakpointSites -------------------------
(* A program of four addresses: the entry point, _dl_debug_state, one more *)
(* mapped address and one that is not mapped.                              *)
EXTENDS BreakpointSites

CONSTANTS e, d, a, u

MCAddr   == {e, d, a, u}
MCMapped == {e, d, a}
MCNoUnmapped == {e, d, a}
MCByte   == {0, 144, 204}
MCText0  == [x \in Addr |-> 144]
=============================================================================
