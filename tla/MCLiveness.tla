----------------------------- MODULE MCLiveness -----------------------------
(* Instruction lists for TLC: two nested loops, or two branches that join  *)
(* and go back, in which the other instructions are any of those of Menu.  *)
EXTENDS Liveness

CONSTANTS x, y

Instr(defs, uses) == [defs |-> defs, uses |-> uses, jumps |-> {}, label |-> NoLabel]
Jump(uses, ls) == [defs |-> {}, uses |-> uses, jumps |-> ls, label |-> NoLabel]
LabelOf(l) == [defs |-> {}, uses |-> {}, jumps |-> {}, label |-> l]

Menu == {Instr({x}, {}), Instr({y}, {x}), Instr({}, {y}), Instr({x}, {x}), Instr({x}, {y})}

(* i1; do { i2; do { i3 } while (x); } while (..); i4 *)
Nested(i) ==
  <<i[1], LabelOf("outer"), i[2], LabelOf("inner"), i[3],
    Jump({x}, {"inner", "outer"}), LabelOf("end"), i[4]>>

(* do { i1; if (x) { i2; continue } i3 } while (y), which never ends       *)
Branches(i) ==
  <<LabelOf("outer"), i[1], Jump({x}, {"inner", "end"}), LabelOf("inner"), i[2],
    Jump({}, {"outer"}), LabelOf("end"), i[3], Jump({y}, {"outer", "inner"})>>

MCLabel == {"outer", "inner", "end"}
MCPrograms == {Nested(i) : i \in [1..4 -> Menu]} \cup {Branches(i) : i \in [1..3 -> Menu]}
=============================================================================
