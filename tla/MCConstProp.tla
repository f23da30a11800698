--------------------------- MODULE MCConstProp ---------------------------
(* Functions for TLC: a loop whose body branches and joins, around         *)
(* temporaries that start as a constant, as the result of a call, or as    *)
(* nothing at all, with any of a menu of statements in between.            *)
EXTENDS ConstProp

CONSTANTS i0, i1, i2, x0, x1, x2, x3, x4, y, c

Stm(dst, op, args) == [dst |-> dst, op |-> op, args |-> args]

Always(b) == [op |-> "always", left |-> 0, right |-> 0, true |-> b, false |-> b]
Branch(op, l, r, t, f) == [op |-> op, left |-> l, right |-> r, true |-> t, false |-> f]
Return == [op |-> "return", left |-> 0, right |-> 0, true |-> 1, false |-> 1]

(* 1 enters the loop 2..5, which 6 follows; 4 is the branch within it. *)
Looped(first, head, inner, step, next, back) ==
  [pred |-> << << >>, <<1, 5>>, <<2>>, <<3>>, <<3, 4>>, <<2>> >>,
   stms |-> << <<Stm(i0, "copy", <<0>>)>> \o first,
               <<Stm(i1, "phi", <<i0, i2>>), Stm(x1, "phi", <<x0, back>>)>>,
               <<Stm(c, "call", << >>)>>,
               <<step>>,
               <<Stm(x3, "phi", <<x1, x2>>), Stm(x4, "copy", <<1>>), next>>,
               <<Stm(y, "plus", <<x1, 1>>)>> >>,
   jump |-> << Always(2), head, inner, Always(5), Always(2), Return >>]

Starts == {<<Stm(x0, "copy", <<0>>)>>, <<Stm(x0, "copy", <<1>>)>>, <<Stm(x0, "call", << >>)>>}

Heads == {Branch("lt", i1, 2, 3, 6), Branch("lt", x1, 1, 3, 6), Branch("eq", x1, i1, 3, 6)}

Inners == {Branch("eq", c, 0, 4, 5), Branch("eq", x1, 1, 4, 5), Branch("lt", i1, 1, 5, 4)}

Steps == {Stm(x2, "copy", <<0>>), Stm(x2, "copy", <<1>>), Stm(x2, "copy", <<i1>>),
          Stm(x2, "plus", <<x1, 1>>), Stm(x2, "call", << >>)}

Nexts == {Stm(i2, "plus", <<i1, 1>>), Stm(i2, "plus", <<x3, i1>>), Stm(i2, "copy", <<x3>>)}

ProgramsOf(starts) ==
  {Looped(p[1], p[2], p[3], p[4], p[5], p[6]) :
     p \in starts \X Heads \X Inners \X Steps \X Nexts \X {x3, x4}}

(* 1 enters the loop 2..4, which counts, then the loop 5..6, which stops   *)
(* when head says so, or any time after its first round.                   *)
TwoLoops(first, head, step) ==
  [pred |-> << << >>, <<1, 4>>, <<2>>, <<3>>, <<2, 6>>, <<5>>, <<5, 6>> >>,
   stms |-> << <<Stm(i0, "copy", <<0>>)>> \o first,
               <<Stm(i1, "phi", <<i0, i2>>), Stm(c, "call", << >>)>>,
               << >>,
               <<Stm(i2, "plus", <<i1, 1>>)>>,
               <<Stm(x1, "phi", <<x0, x2>>)>>,
               <<step, Stm(x4, "call", << >>)>>,
               <<Stm(x3, "phi", <<x1, x2>>), Stm(y, "plus", <<x1, 1>>)>> >>,
   jump |-> << Always(2), Branch("eq", c, 0, 3, 5), Always(4), Always(2), head,
               Branch("eq", x4, 0, 5, 7), Return >>]

LaterHeads == {Branch("lt", i1, 1, 7, 6), Branch("eq", i1, 0, 7, 6), Branch("lt", x1, 1, 7, 6)}

TwoLoopsOf(starts) == {TwoLoops(p[1], p[2], p[3]) : p \in starts \X LaterHeads \X Steps}

(* 1 branches to 2 and 3; behind 3 is the loop 4, 6; all paths end in 5,   *)
(* which may be visited before 4.                                          *)
LoopBesides(start, step) ==
  [pred |-> << << >>, <<1>>, <<1>>, <<3, 6>>, <<2, 4>>, <<4>> >>,
   stms |-> << start \o <<Stm(c, "call", << >>)>>,
               << >>,
               << >>,
               <<Stm(x1, "phi", <<x0, x2>>), Stm(x4, "call", << >>)>>,
               <<Stm(x3, "phi", <<x0, x1>>), Stm(y, "plus", <<x3, 1>>)>>,
               <<[step EXCEPT !.args = IF @ = <<i1>> THEN <<x1>> ELSE @]>> >>,
   jump |-> << Branch("eq", c, 0, 2, 3), Always(5), Always(4),
               Branch("eq", x4, 0, 5, 6), Return, Always(4) >>]

LoopsBesides(starts) == {LoopBesides(p[1], p[2]) : p \in starts \X Steps}

(* Functions that assign what they use, and functions that need not. *)
AssignedFirst == ProgramsOf(Starts) \cup TwoLoopsOf(Starts) \cup LoopsBesides(Starts)
Unassigned == ProgramsOf({<< >>}) \cup TwoLoopsOf({<< >>})

(* The theorems of ConstPropProofs are about the first, and not about      *)
(* the others.                                                             *)
ASSUME StrictAssumption ==
  (\A p \in AssignedFirst : Strict(p)) /\ (\A p \in Unassigned : ~ Strict(p))
=============================================================================
