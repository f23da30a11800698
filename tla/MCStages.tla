------------------------------ MODULE MCStages ------------------------------
(***************************************************************************)
(* The stages of the compiler that have a model of their own and need no   *)
(* other: those of Stages, and translation to trees, function inlining,    *)
(* canonical trees and dominators.  Each behaviour is one of one stage,    *)
(* from one of the inputs its MC module gives, or of those given below.    *)
(***************************************************************************)
EXTENDS Stages, FiniteSetsExt

Translation == INSTANCE MCTranslate WITH
  Inputs <- {<<a, b, c>> : a \in 0..1, b \in 0..1, c \in 0..1}, Rounds <- 4,
  Programs <- {}, Fuel <- 8, prog <- v1, done <- v2, tr <- v3, funcs <- v4

Inlining == INSTANCE MCInline WITH
  Order <- <<"g", "f", "main">>, Programs <- {}, Globals <- {1, 2},
  Saved <- 4, maxstk <- 1000, Fuel <- 8, InOrder <- TRUE, start <- v1,
  ir <- v2, isrec <- v3, at <- v4, funcPos <- v5, phase <- v6, ntemp <- v7

Canonical == INSTANCE Canon WITH
  Trees <- {}, Names <- {1, 2}, NewTemp <- 1000, tree <- v1, code <- v2,
  phase <- v3, ntemp <- v4

Selection == INSTANCE MCTile WITH
  Given <- {}, stms <- v1, q <- v2, uses <- v3, whole <- v4, begins <- v5

Tree == INSTANCE Dominators WITH
  Flow <- {}, flow <- v1, g <- v2, phase <- v3, stk <- v4, i <- v5,
  dfnum <- v6, vertex <- v7, parent <- v8, semi <- v9, bucket <- v10, best <- v11,
  ancestor <- v12, samedom <- v13, idom <- v14, children <- v15, DF <- v16

ASSUME SymAssumption == Table!SymAssumption
ASSUME LayoutAssumption == ListsAssumption
ASSUME FloatAssumption == Temps!CodesAssumption
ASSUME SizesAssumption == Tiles!SizesAssumption
ASSUME PowersAssumption == Tiles!PowersAssumption
ASSUME GivenAssumption == Tiles!GivenAssumption
ASSUME InlineAssumption == Inlining!InlineAssumption

(* The end of a function; what instruction selection begins with. *)
End == <<"end", 0>>
Selected == Selection!Every

(* For the layout of blocks: a label, then five statements, operations,    *)
(* jumps and branches between three labels and the end, code nothing leads *)
(* to among them.                                                          *)
LayoutStms ==
  LET labels == {<<"L", 1>>, <<"L", 2>>}
      cond == [c |-> "c", neg |-> FALSE]
  IN  {Op("x")} \cup {Jump(l) : l \in {<<"L", 0>>, <<"L", 2>>, End}}
        \cup {Cjump(cond, t, f) : t \in labels \cup {<<"L", 0>>}, f \in labels}

(* The labels L1 and L2 are after the j-th and the k-th of the others. *)
WithLabels(s, j, k) ==
  <<Label(<<"L", 0>>)>> \o SubSeq(s, 1, j) \o <<Label(<<"L", 1>>)>>
    \o SubSeq(s, j + 1, k) \o <<Label(<<"L", 2>>)>> \o SubSeq(s, k + 1, 3)

LayoutLists ==
  {WithLabels(s, p[1], p[2]) :
     s \in [1..3 -> LayoutStms], p \in {q \in (0..3) \X (0..3) : q[1] <= q[2]}}

(* For the temporaries that are floats: three moves between five           *)
(* temporaries and r1, and one operation.                                  *)
FloatCodes ==
  LET T == 20..24
      moves == {[op |-> "move", def |-> d, uses |-> {u}] : d, u \in T}
                 \cup {[op |-> "move", def |-> 20, uses |-> {1}], [op |-> "move", def |-> 1, uses |-> {21}]}
      ops == {[op |-> "f2i", def |-> 23, uses |-> {20}], [op |-> "i2f", def |-> 20, uses |-> {24}],
              [op |-> "fbinop", def |-> 20, uses |-> {21}], [op |-> "fcjump", def |-> 0, uses |-> {22}],
              [op |-> "call", def |-> 20, uses |-> {21}]}
  IN  {m \cup {o} : m \in kSubset(3, {s \in moves : {s.def} # s.uses}), o \in ops}

(* For dominators: every graph of four nodes with at most two ways out of  *)
(* each, graphs of five nodes where each leads to the next and perhaps to  *)
(* one more, and, for control dependence, flow graphs whose last node is   *)
(* the end, which every block leads to.                                    *)
Graph(n, succ, exit) == [n |-> n, succ |-> succ, entry |-> 0, exit |-> exit]

AllReached(gr) == Tree!Reached(gr) = 0..(gr.n - 1)

Few(S) == {T \in SUBSET S : Cardinality(T) <= 2}

Small == {Graph(4, s, -1) : s \in [0..3 -> Few(0..3)]}

Spine ==
  {Graph(5, [v \in 0..4 |-> IF v = 4 THEN {e[4]} ELSE {v + 1, e[v]}], -1) :
     e \in [0..4 -> 0..4]}

Forward == {gr \in Small \cup Spine : AllReached(gr)}

(* A block leads to one block or two, the end to none. *)
WithExit(n) ==
  {gr \in {Graph(n, [s EXCEPT ![n - 1] = {}], n - 1) :
             s \in [0..(n - 1) -> Few(0..(n - 1)) \ {{}}]} :
     AllReached(gr)}

Backward == {gr \in WithExit(4) : AllReached(Tree!reversed(gr))}

(* Those Backward leaves out, for which the code has no answer.            *)
Endless == {gr \in WithExit(4) : ~ AllReached(Tree!reversed(gr))}

(* For canonical trees: two temporaries; expressions two operators deep,   *)
(* with calls of one and two arguments and assignments inside expressions. *)
a == Canonical!Temp(1)
b == Canonical!Temp(2)
One == Canonical!Const(1)
Plus(S, T) == {Canonical!Binop(x, y) : x \in S, y \in T}
Mems(S) == {Canonical!Mem(x) : x \in S}

Assign ==
  {Canonical!Move(a, Canonical!Const(3)), Canonical!Move(a, Canonical!Call("f", <<b>>)),
   Canonical!Move(Canonical!Mem(One), b)}

E0 == {a, b, One}

E1 ==
  E0 \cup Plus({a}, E0) \cup Mems({a, One}) \cup {Canonical!Call("f", <<x>>) : x \in {a, One}}
     \cup {Canonical!Eseq(s, x) : s \in Assign, x \in {a, Canonical!Mem(a)}}

E2 ==
  Plus(E1, E1) \cup {Canonical!Call("g", <<x, y>>) : x, y \in E1} \cup Mems(E1)
    \cup {Canonical!Eseq(Canonical!Move(a, x), y) : x, y \in E1 \ E0}

AllTrees ==
  {Canonical!Move(a, e) : e \in E2} \cup {Canonical!Move(x, y) : x \in Mems(E1), y \in E1}
    \cup {Canonical!ExpStm(e) : e \in E2} \cup {Canonical!Cjump(x, y) : x, y \in E1}
    \cup {Canonical!Seq_(Canonical!Move(b, x), Canonical!Move(Canonical!Eseq(s, Canonical!Mem(a)), y)) :
             x, y \in E1, s \in Assign}
    \cup {Canonical!Move(a, e) : e \in Plus(Plus(E1 \ E0, E1 \ E0), {a, Canonical!Call("f", <<b>>)})}

-----------------------------------------------------------------------------
AllInit ==
  \/ Begin
  \/ stage = "translate" /\ NoLayout /\ Unused(4) /\ \E p \in Translation!AllPrograms : Translation!InitWith(p)
  \/ stage = "inline" /\ NoLayout /\ Unused(7) /\ \E p \in Inlining!AllPrograms : Inlining!InitWith(p)
  \/ stage = "canon" /\ NoLayout /\ Unused(4) /\ \E t \in AllTrees : Canonical!InitWith(t)
  \/ stage = "dominators" /\ NoLayout /\ \E f \in Forward \cup Backward : Tree!InitWith(f)

translate == stage = "translate" /\ Translation!Next /\ UNCHANGED <<stage, vars, v5, above5>>

inline == stage = "inline" /\ Inlining!Next /\ UNCHANGED <<stage, vars, v8, v9, v10, v11, v12, v13, v14, v15, v16>>

canon == stage = "canon" /\ Canonical!Next /\ UNCHANGED <<stage, vars, v5, above5>>

dominators == stage = "dominators" /\ Tree!Next /\ UNCHANGED <<stage, vars>>

AllNext == Step \/ translate \/ inline \/ canon \/ dominators

AllSpec == AllInit /\ [][AllNext]_stageVars

-----------------------------------------------------------------------------
(* Properties. *)

(* ast2ir and handleGlobalVar: the code of a translated program prints     *)
(* what the program means, with every input, and every jump in it goes to  *)
(* a label of its own function.                                            *)
SameProgram ==
  stage = "translate" => Translation!TypeOK /\ Translation!Patched /\ Translation!SameProgram

(* funcinline2: the program prints what it printed after every step, no    *)
(* label is defined twice, and code is made for every function the code    *)
(* that is made calls.                                                     *)
SamePrints ==
  stage = "inline" => Inlining!TypeOK /\ Inlining!SamePrints /\ Inlining!LabelsOnce /\ Inlining!CalleesEmitted

(* Linearize and quad: calls, loads, stores and values are those of the    *)
(* tree, evaluated left to right.                                          *)
SameEffects == stage = "canon" => Canonical!SameEffects

(* They leave the form every later pass takes for granted, one operator on *)
(* atoms in each statement.                                                *)
Quadruples == stage = "canon" => Canonical!TypeOK /\ Canonical!Linear /\ Canonical!Quadruples

(* Dtree: semidominators at every round, the assertion that each node but  *)
(* the entry has a dominator, the tree and the frontiers are what their    *)
(* definitions say.                                                        *)
Dominance ==
  stage = "dominators" =>
    Tree!TypeOK /\ Tree!Semidominators /\ Tree!IdomAsserted /\ Tree!DominatorTree /\ Tree!Frontiers

(* CDGraph: CDnode gives the nodes that decide, directly or through        *)
(* others, whether a node is reached.                                      *)
ControlDependence == stage = "dominators" => Tree!ControlDependence

(* Instruction selection (Tile, ir2asm, muldiv): the instructions compute  *)
(* what the statements mean, wherever a constant, an address or a product  *)
(* is folded into one of them.                                             *)
SameMeaning == stage = "select" => Tiles!SameMeaning
=============================================================================
