---------------------------- MODULE MCRegAlloc ----------------------------
(* Functions for TLC: parameters in two registers, a loop whose body and   *)
(* surroundings are any of the instructions of Menu, a call, a result.     *)
EXTENDS RegAlloc

CONSTANTS r0, r1, s0, a, b, f

Instr(op, dst, src) == [op |-> op, dst |-> dst, src |-> src, jumps |-> {}, label |-> NoLabel]
LabelOf(l) == [Instr("label", << >>, << >>) EXCEPT !.label = l]
Jump(src, ls) == [Instr("oper", << >>, src) EXCEPT !.jumps = ls]

Menu ==
  {Instr("move", <<b>>, <<a>>),          \* a move that may be coalesced
   Instr("oper", <<b>>, <<a, b>>),       \* three operands, two of them one temporary
   Instr("oper", <<r0, r1>>, <<r0>>),    \* a call, which overwrites the registers
   Instr("oper", <<f>>, <<b>>),          \* to float
   Instr("oper", <<b>>, <<f>>),          \* and back
   Instr("move", <<a>>, <<r0>>)}         \* a result

MCSpillable == {a, b, f, <<"int", 0, 1, 0>>}

MCPrograms ==
  {<<Instr("move", <<a>>, <<r0>>), Instr("move", <<b>>, <<r1>>), i[1], LabelOf("loop"), i[2], i[3],
     Jump(<<a>>, {"loop", "end"}), LabelOf("end"), Instr("move", <<r0>>, <<b>>),
     Instr("oper", << >>, <<r0>>)>> : i \in [1..3 -> Menu]}
=============================================================================
