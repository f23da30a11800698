------------------------------- MODULE Passes -------------------------------
(***************************************************************************)
(* The passes over one function, one after the other as main does them     *)
(* (src/src/main.cpp).  Each pass is one action; what it does is the       *)
(* operator of the same name in its module.                                *)
(***************************************************************************)
EXTENDS BuildSSA, DeadCode, ConstFold, CommonMem, CombExp, GvnPre, StrengthRed

CONSTANTS
  Plans \* <<functions, order>>: functions as blocks, and the names of the passes over them

VARIABLES
  p,     \* the function
  order, \* the names of its passes
  told,  \* what the function did at the beginning
  form,  \* "blocks", "ssa", and "code" after ssa2ir
  last,  \* the pass done last
  step   \* the place of the next in order

vars == <<p, order, told, form, last, step>>

Init ==
  /\ \E plan \in Plans : p \in plan[1] /\ order = plan[2]
  /\ told = Behaviour(p)
  /\ form = "blocks"
  /\ last = "none"
  /\ step = 1

(* The pass of this name is next; it leaves the function in the form f. *)
Pass(name, f) ==
  /\ step <= Len(order) /\ order[step] = name
  /\ p.fail = ""
  /\ form' = f
  /\ last' = name
  /\ step' = step + 1
  /\ UNCHANGED <<order, told>>

Connect == Pass("connect", form) /\ p' = connected(p)
CutEdge == Pass("cut_edge", form) /\ p' = cut_edge(p)
MergeNode == Pass("mergeNode", form) /\ p' = mergeNode(p)
PlacePhi == Pass("placePhi", form) /\ p' = placePhi(p)
Rename == Pass("rename", "ssa") /\ p' = rename(p)
DeadCodeElimilation == Pass("deadCode", form) /\ p' = deadCodeElimilation(p)
ConstantPropagation == Pass("constProp", form) /\ p' = constantPropagation(p)
CommonMemory == Pass("CME", form) /\ p' = CME(p)
CombineExpressions == Pass("combExp", form) /\ p' = combExp(p)
PartialRedundancy == Pass("PRE", form) /\ p' = PRE(p)

(* What is in the entries of dtreeinfo that nothing wrote: any number; two *)
(* that are on the same side of all numbers of blocks make no difference.  *)
(* One is taken for all entries.                                           *)
StrengthReduction ==
  /\ Pass("strengthReduction", form)
  /\ \E n \in 0..(nodecount(p) + 1) : p' = strengthReduction(p, n)

Out == Pass("ssa2ir", "code") /\ p' = ssa2ir(p)

Next ==
  \/ Connect \/ CutEdge \/ MergeNode \/ PlacePhi \/ Rename
  \/ DeadCodeElimilation \/ ConstantPropagation \/ CommonMemory \/ CombineExpressions \/ PartialRedundancy
  \/ StrengthReduction \/ Out

Spec == Init /\ [][Next]_vars

-----------------------------------------------------------------------------
(* Properties. *)

(* Types; edges and jumps stay within the function. *)
TypeOK ==
  /\ form \in {"blocks", "ssa", "code"}
  /\ p.exit \in Nodes(p) /\ p.nt \in Nat
  /\ DOMAIN p.jump = Nodes(p) /\ DOMAIN p.succ = Nodes(p) /\ DOMAIN p.prednode = Nodes(p)
  /\ \A v \in Nodes(p) : p.succ[v] \subseteq Nodes(p) /\ ToSet(p.jump[v].to) \subseteq Nodes(p)

(* No assertion of a pass fails and no lookup misses. *)
NeverAborts == p.fail = ""

(* After every pass the function prints what it printed at first, and ends *)
(* if it ended.  Nothing is said of a run that neither prints enough nor   *)
(* ends: dead code elimination drops loops without an effect.  A pass may  *)
(* make more blocks of the way, so the run is given four times as many.    *)
SameBehaviour ==
  last # "placePhi" =>
    \A in \in Inputs :
      told[in][2] \/ Len(told[in][1]) = Events => Observed(p, in, Doubles + 2) = told[in]

(* What the passes leave is in SSA form. *)
InSSA == form = "ssa" => SingleAssignment(p) /\ DefsDominate(p)

(* There is a place for the moves ssa2ir puts before phi functions. *)
PlaceForMoves == form = "ssa" => NoCriticalEdge(p)

(* Whether dead code elimination is among the passes done. *)
DeadCodeDone == \E k \in 1..(step - 1) : order[k] = "deadCode"

(* The graph stays the graph of the code: edges are what the jumps say, no *)
(* critical edge comes back after cut_edge, and in a block with phi        *)
(* functions prednode, the arguments and the edges agree.  In the other    *)
(* blocks prednode agrees with the edges only until dead code elimination  *)
(* runs: that pass gives blocks it keeps new edges and leaves prednode as  *)
(* it was (deadCodeElimilation.cpp:279 and 313), and the elimination of    *)
(* partial redundancies, which goes over prednode of every block           *)
(* (GVN_PRE.cpp:281), is wrong after it.                                   *)
GraphOfCode ==
  /\ TypeOK /\ PlaceForMoves
  /\ step > 2 => EdgesAreJumps(p) /\ ArgsAligned(p) /\ (DeadCodeDone \/ PredecessorsListed(p))

(* Dead code elimination leaves no result that nothing reads: what comes   *)
(* next looks up the uses of every sum and product.                        *)
NothingUnused == last = "deadCode" => EveryResultUsed(p)

(* The elimination of partial redundancies moves an operation to another   *)
(* place of the way and never adds one to it: no run that ends does more.   *)
NoMoreWork ==
  [][last' = "PRE" =>
       \A in \in Inputs : told[in][2] => Work(p', in, Doubles + 2) <= Work(p, in, Doubles + 2)]_vars
=============================================================================
