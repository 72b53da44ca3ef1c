----------------------------- MODULE MCExprCall -----------------------------
(* Two registers of each kind for arguments where the code has six and     *)
(* eight, so that a few arguments fill them.                               *)
EXTENDS ExprCall

MCIntRegs == <<"rdi", "rsi">>
MCSseRegs == <<"xmm0", "xmm1">>

Ty(k, n, fs, to) == [kind |-> k, size |-> n, fields |-> fs, to |-> to]
F(off, t) == [off |-> off, type |-> t]
MCTypes ==
  [int  |-> Ty("int", 4, << >>, "int"), ptr |-> Ty("int", 8, << >>, "int"),
   dbl  |-> Ty("sse", 8, << >>, "int"), flt |-> Ty("sse", 4, << >>, "int"),
   ld   |-> Ty("x87", 16, << >>, "int"), ints |-> Ty("array", 12, << >>, "int"),
   pair |-> Ty("struct", 16, <<F(0, "int"), F(8, "dbl")>>, "int"),
   rec  |-> Ty("struct", 16, <<F(0, "ptr"), F(8, "int")>>, "int"),
   vec  |-> Ty("struct", 12, <<F(0, "flt"), F(4, "flt"), F(8, "flt")>>, "int"),
   buf  |-> Ty("struct", 16, <<F(0, "ints"), F(12, "flt")>>, "int"),
   in   |-> Ty("struct", 8, <<F(0, "int"), F(4, "int")>>, "int"),
   nest |-> Ty("struct", 12, <<F(0, "int"), F(4, "in")>>, "int"),
   big  |-> Ty("struct", 24, <<F(0, "int"), F(8, "pair")>>, "int")]

Lit(k)  == [k |-> k, type |-> None, n |-> 0]
Val(t)  == [k |-> "value", type |-> t, n |-> 0]
Res(i)  == [k |-> "result", type |-> None, n |-> i]
Of(params, ret, as) == [params |-> params, ret |-> ret, dwarf |-> TRUE, args |-> as]

MCCalls ==
  {Of(<<"int", "dbl">>, "int", <<Lit("int"), Lit("float")>>),
   Of(<<"pair", "int", "int">>, "pair", <<Val("pair"), Lit("int"), Val("int")>>),
   Of(<<"vec", "dbl", "int">>, "vec", <<Val("vec"), Val("dbl"), Lit("int")>>),
   Of(<<"int", "rec", "int">>, "rec", <<Lit("int"), Val("rec"), Lit("int")>>),
   Of(<<"big", "int">>, "big", <<Val("big"), Val("int")>>),
   Of(<<"ptr", "ld", "buf">>, "ld", <<Lit("string"), Val("ld"), Val("buf")>>),
   Of(<<"ptr", "ptr">>, "void", <<Lit("string"), Lit("string")>>),
   Of(<<"pair">>, "dbl", <<Res(1)>>),
   Of(<<"nest">>, "nest", <<Val("nest")>>),
   [Of(<<"ptr">>, "int", <<Lit("string")>>) EXCEPT !.dwarf = FALSE]}

Site(e, h) == [there |-> TRUE, enabled |-> e, handler |-> h]
MCSites == {Absent, Site(TRUE, "none"), Site(TRUE, "user"), Site(FALSE, "none")}
=============================================================================
