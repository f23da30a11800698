------------------------------ MODULE Liveness ------------------------------
(***************************************************************************)
(* The flow graph of an instruction list (FLOW::FlowGraph,                 *)
(* src/src/backend/flowgraph.cpp) and the analysis that finds which        *)
(* temporaries are live at each instruction (LIVENESS::Liveness,           *)
(* src/src/backend/liveness.cpp), a worklist algorithm whose worklist is a *)
(* stack.  What it should find is stated without an algorithm, by paths.   *)
(***************************************************************************)
EXTENDS Integers, Sequences, FiniteSets

CONSTANTS
  Temp,     \* the temporaries, machine registers among them
  Label,    \* the labels of instructions
  NoLabel,  \* not a label: what an instruction that is none has
  Programs  \* the instruction lists to analyse

(* An instruction: the temporaries it defines and uses, the label it is    *)
(* (if it is one) and the labels it may jump to (none: it falls through).  *)
(* Labels are unique and every jump has its label in the list.             *)
Instruction ==
  [defs : SUBSET Temp, uses : SUBSET Temp, jumps : SUBSET Label, label : Label \cup {NoLabel}]

IsProgram(p) ==
  /\ p \in Seq(Instruction)
  /\ \A i \in DOMAIN p : p[i].label # NoLabel =>
       p[i].defs = {} /\ p[i].uses = {} /\ p[i].jumps = {}
  /\ \A i \in DOMAIN p : \A l \in p[i].jumps : \E j \in DOMAIN p : p[j].label = l
  /\ \A i, j \in DOMAIN p : p[i].label = p[j].label /\ p[i].label \in Label => i = j

ASSUME LabelAssumption == NoLabel \notin Label

ASSUME ProgramsAssumption == \A p \in Programs : IsProgram(p)

VARIABLES
  prog,     \* the instruction list
  in, out,  \* InOutTable
  workset   \* the stack of nodes to look at again, top first

vars == <<prog, in, out, workset>>

Nodes == DOMAIN prog

-----------------------------------------------------------------------------
(* The flow graph: an instruction that does not jump falls through to the  *)
(* next, one that does goes to each of its labels (FG_AssemFlowGraph).     *)

FallsThrough(i, j) == prog[i].jumps = {} /\ j = i + 1

JumpsTo(i, j) == prog[j].label \in prog[i].jumps

Edge(i, j) == FallsThrough(i, j) \/ JumpsTo(i, j)

succ(i) == {j \in Nodes : Edge(i, j)}

pred(i) == {j \in Nodes : Edge(j, i)}

-----------------------------------------------------------------------------
(* The analysis. *)

outOf(i) == UNION {in[j] : j \in succ(i)}

(* Mutant: what the instruction defines stays live before it. *)
inOfNoKill(i, live) == prog[i].uses \cup live

inOf(i, live) == prog[i].uses \cup (live \ prog[i].defs)

(* S in the order in which its members leave the stack: a std::set is      *)
(* pushed in ascending order.                                              *)
IsPushed(q, S) ==
  /\ {q[i] : i \in DOMAIN q} = S
  /\ \A i, j \in DOMAIN q : i < j => q[i] > q[j]

(* Mutant: the node visited is not taken off. *)
PushOnly(S) ==
  \E q \in [1..Cardinality(S) -> S] : IsPushed(q, S) /\ workset' = q \o workset

Push(S) ==
  \E q \in [1..Cardinality(S) -> S] : IsPushed(q, S) /\ workset' = q \o Tail(workset)

(* Mutant: the sets start full. *)
InitFull ==
  /\ prog \in Programs
  /\ in = [i \in Nodes |-> Temp]
  /\ out = [i \in Nodes |-> {}]
  /\ workset = [i \in Nodes |-> Len(prog) + 1 - i]

Init ==
  /\ prog \in Programs
  /\ in = [i \in Nodes |-> {}]
  /\ out = [i \in Nodes |-> {}]
  /\ workset = [i \in Nodes |-> Len(prog) + 1 - i]

(* The node on top of the stack gets its new sets, and if those at its     *)
(* entry changed its predecessors are pushed.                              *)
visit(n) ==
  LET newOut == outOf(n)
      newIn  == inOf(n, newOut)
  IN  /\ workset # << >>
      /\ n = Head(workset)
      /\ Push(IF newIn = in[n] THEN {} ELSE pred(n))
      /\ in' = [in EXCEPT ![n] = newIn]
      /\ out' = [out EXCEPT ![n] = newOut]
      /\ UNCHANGED prog

Next == \E n \in Nodes : visit(n)

Spec == Init /\ [][Next]_vars

(* One thread runs the analysis, and nothing in it blocks. *)
FairSpec == Spec /\ WF_vars(Next)

-----------------------------------------------------------------------------
(* What liveness means: t is live at the entry of i if an instruction that *)
(* uses it can be reached from i without passing one that defines it.  The *)
(* entries where t is live are the least set that holds the uses of t and, *)
(* with a node, its predecessors that do not define t.                     *)

ClosedFor(t, S) ==
  /\ \A i \in Nodes : t \in prog[i].uses => i \in S
  /\ \A i, j \in Nodes : Edge(i, j) /\ j \in S /\ t \notin prog[i].defs => i \in S

LiveAt(t, i) == \A S \in SUBSET Nodes : ClosedFor(t, S) => i \in S

-----------------------------------------------------------------------------
(* Properties. *)

TypeOK ==
  /\ IsProgram(prog)
  /\ in \in [Nodes -> SUBSET Temp]
  /\ out \in [Nodes -> SUBSET Temp]
  /\ workset \in Seq(Nodes)

(* When the stack is empty the table is exactly liveness: nothing that is  *)
(* live is missed (two temporaries would share a register), and nothing    *)
(* else is in it.                                                          *)
Exact ==
  workset = << >> =>
    \A i \in Nodes :
      /\ in[i] = {t \in Temp : LiveAt(t, i)}
      /\ out[i] = {t \in Temp : \E j \in succ(i) : LiveAt(t, j)}

(* A set in the table only ever grows (the assert on the sizes in          *)
(* analysis()), whatever the order of the visits.                          *)
OnlyGrows == [][\A i \in Nodes : in[i] \subseteq in'[i]]_vars

(* The analysis ends. *)
Termination == <>(workset = << >>)
=============================================================================
