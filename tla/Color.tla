-------------------------------- MODULE Color --------------------------------
(***************************************************************************)
(* Graph colouring with coalescing, the heart of the register allocator    *)
(* (COLOR::COL_result, src/src/backend/color.cpp) and the interference     *)
(* graph it works on (IG::ConfGraph, src/src/backend/ig.cpp).              *)
(*                                                                         *)
(* A node of the graph stands for the temporary it was created for, so a   *)
(* temporary is named by its node; nodeTemp(n), the first temporary of n,  *)
(* is therefore n itself.  After a coalescing step a node also carries the *)
(* temporaries of the node it swallowed.                                   *)
(***************************************************************************)
EXTENDS Integers, Sequences, FiniteSets

CONSTANTS
  Node,            \* the keys of the nodes of the interference graph
  Reg,             \* the nodes of machine registers (Node::isreg)
  Colour,          \* COL_result::Precolored, the registers to hand out
  Precolour,       \* the register a node of Reg stands for
  StkUse,          \* the temporaries an earlier RA_Spill introduced
  ConflictGraphs,  \* the interference graphs Create_ig may have built
  MoveGraphs,      \* the move graphs Create_ig may have built
  None             \* no colour, no spill slot

(* COL_result sets REGNUM to the size of Precolored (13 or 32). *)
REGNUM == Cardinality(Colour)

IsGraph(g) ==
  /\ g \in [Node -> SUBSET Node]
  /\ \A m, n \in Node : m \in g[n] => m # n /\ n \in g[m]

ASSUME ConstantsAssumption ==
  /\ Node \subseteq Int /\ IsFiniteSet(Node)
  /\ Reg \subseteq Node
  /\ Colour \subseteq Int /\ IsFiniteSet(Colour)
  /\ Precolour \in [Reg -> Colour]
  /\ \A r, s \in Reg : r # s => Precolour[r] # Precolour[s]
  /\ StkUse \subseteq Node \ Reg
  /\ None \notin Node
  /\ None \notin Colour

ASSUME GraphsAssumption ==
  /\ \A g \in ConflictGraphs : IsGraph(g)
  /\ \A g \in MoveGraphs : IsGraph(g)

VARIABLES
  conflict,    \* the interference graph as Create_ig left it (never changes)
  adj,         \* Node::adj, the edges between nodes still in the graph
  hadj,        \* Node::h_adj, the edges hidden by simplify
  mvadj,       \* Node::mv_adj, the moves that may still be coalesced
  temp,        \* Node::temp, the temporaries a node carries
  tempNode,    \* ConfGraph::TempNodeMap
  SimplifyWorklist, CombineWorklist, FreezeWorklist, SpillWorklist,
  SelectStack,
  ColorMap,    \* the register of a temporary, or None
  SpilledTemp, \* the temporary whose slot a spilled temporary uses, or None
  pc           \* "make", "work", "assign", "done", or "abort" (assert failed)

graph  == <<adj, hadj, mvadj>>
names  == <<temp, tempNode>>
lists  == <<SimplifyWorklist, CombineWorklist, FreezeWorklist, SpillWorklist>>
result == <<ColorMap, SpilledTemp>>
vars   == <<conflict, graph, names, lists, SelectStack, result, pc>>

-----------------------------------------------------------------------------
(***************************************************************************)
(* The graph.                                                              *)
(***************************************************************************)

degree(g, n) == Cardinality(g[n])

(* *S.begin() of a std::set. *)
IsFirst(n, S) == n \in S /\ \A m \in S : n <= m

(* All edges of n to the nodes of S removed (rmEdge, rmEdge_mv, and the    *)
(* half of p2hEdge and h2pEdge that erases).                               *)
Unlink(g, n, S) ==
  [m \in Node |-> IF m = n THEN g[n] \ S
                  ELSE IF m \in S THEN g[m] \ {n} ELSE g[m]]

(* Edges from n to every node of S added; an edge from n to itself is      *)
(* ignored (addEdge, addEdge_h, addEdge_mv, p2hEdge, h2pEdge).             *)
Link(g, n, S) ==
  [m \in Node |-> IF m = n THEN g[n] \cup (S \ {n})
                  ELSE IF m \in S THEN g[m] \cup {n} ELSE g[m]]

(* Mutant: the edges of v are dropped. *)
RedirectDrops(g, u, v) == Unlink(g, v, g[v])

(* combine: u gets the edges of v, then v loses all of its own. *)
Redirect(g, u, v) == Unlink(Link(g, u, g[v]), v, g[v])

Clear == [n \in Node |-> {}]

Init ==
  /\ conflict \in ConflictGraphs
  /\ adj = conflict
  /\ hadj = Clear
  /\ mvadj \in MoveGraphs
  /\ temp = [n \in Node |-> {n}]
  /\ tempNode = [n \in Node |-> n]
  /\ SimplifyWorklist = {}
  /\ CombineWorklist = {}
  /\ FreezeWorklist = {}
  /\ SpillWorklist = {}
  /\ SelectStack = << >>
  /\ ColorMap = [t \in Node |-> None]
  /\ SpilledTemp = [t \in Node |-> None]
  /\ pc = "make"

-----------------------------------------------------------------------------
(***************************************************************************)
(* The worklists.                                                          *)
(***************************************************************************)

(* Mutants: the degree the node started with; off by one. *)
significantStale(a, n) == degree(conflict, n) >= REGNUM
significantAbove(a, n) == degree(a, n) > REGNUM

significant(a, n) == degree(a, n) >= REGNUM

(* Mutant: a node with a move is listed whatever its degree. *)
makeWorklistTwice ==
  LET high == {n \in Node \ Reg : significant(adj, n)}
      low  == (Node \ Reg) \ high
  IN  /\ pc = "make"
      /\ SpillWorklist' = high
      /\ CombineWorklist' = {n \in Node \ Reg : mvadj[n] # {}}
      /\ SimplifyWorklist' = {n \in low : mvadj[n] = {}}
      /\ pc' = "work"
      /\ UNCHANGED <<conflict, graph, names, FreezeWorklist, SelectStack, result>>

makeWorklist ==
  LET high == {n \in Node \ Reg : significant(adj, n)}
      low  == (Node \ Reg) \ high
  IN  /\ pc = "make"
      /\ SpillWorklist' = high
      /\ CombineWorklist' = {n \in low : mvadj[n] # {}}
      /\ SimplifyWorklist' = {n \in low : mvadj[n] = {}}
      /\ pc' = "work"
      /\ UNCHANGED <<conflict, graph, names, FreezeWorklist, SelectStack, result>>

(* Every node of M, whose edges a or moves mv have just shrunk, is filed   *)
(* again.  s, c, f and p are the four lists before that.                   *)
changeWorklist(M, a, mv, s, c, f, p) ==
  LET high   == {n \in M \ Reg : significant(a, n)}
      still  == {n \in (M \ Reg) \ high : mv[n] = {}}
      moving == ((M \ Reg) \ high) \ still
  IN  /\ SimplifyWorklist' = (s \ high) \cup (still \cap (c \cup f \cup p))
      /\ CombineWorklist' = (c \ (high \cup still)) \cup (moving \cap p)
      /\ FreezeWorklist' = f \ (high \cup still)
      /\ SpillWorklist' = (p \ (still \cup moving)) \cup (high \cap (s \cup c \cup f))

(* The node leaves the graph: its edges are hidden (p2hEdge) and it goes   *)
(* on the stack.                                                           *)
simplify(n) ==
  /\ pc = "work"
  /\ IsFirst(n, SimplifyWorklist)
  /\ adj' = Unlink(adj, n, adj[n])
  /\ hadj' = Link(hadj, n, adj[n])
  /\ SelectStack' = <<n>> \o SelectStack
  /\ changeWorklist(adj[n], adj', mvadj, SimplifyWorklist \ {n},
                    CombineWorklist, FreezeWorklist, SpillWorklist)
  /\ UNCHANGED <<conflict, mvadj, names, result, pc>>

(* The test for a conservative coalescing. *)
briggs(u, v) == Cardinality({n \in adj[u] \cup adj[v] : significant(adj, n)}) < REGNUM

(* Mutant: interfering nodes are coalesced. *)
constrainedNever(n) == {}

constrained(n) == {a \in mvadj[n] : n \in adj[a]}

coalescable(n) == {a \in mvadj[n] \ constrained(n) : briggs(n, a)}

(* Mutant: u does not take over the temporaries of v. *)
combineForgets(u, v, mv) ==
  /\ adj' = Redirect(adj, u, v)
  /\ hadj' = Redirect(hadj, u, v)
  /\ mvadj' = Redirect(mv, u, v)
  /\ tempNode' = [t \in Node |-> IF t \in temp[v] THEN u ELSE tempNode[t]]
  /\ UNCHANGED temp

(* v disappears into u.  Neither u nor a common neighbour is filed again,  *)
(* although the degree of the first may grow and of the second shrink.     *)
combine(u, v, mv) ==
  /\ adj' = Redirect(adj, u, v)
  /\ hadj' = Redirect(hadj, u, v)
  /\ mvadj' = Redirect(mv, u, v)
  /\ temp' = [temp EXCEPT ![u] = @ \cup temp[v]]
  /\ tempNode' = [t \in Node |-> IF t \in temp[v] THEN u ELSE tempNode[t]]

(* The moves of a node are looked at in order: those between nodes that    *)
(* interfere are given up, until one is found that can be coalesced ...    *)
unionNode(n) ==
  /\ pc = "work"
  /\ SimplifyWorklist = {}
  /\ IsFirst(n, CombineWorklist)
  /\ \E u \in coalescable(n) :
       LET dropped == {a \in constrained(n) : a < u}
           mv      == Unlink(mvadj, n, dropped)
       IN  /\ IsFirst(u, coalescable(n))
           /\ changeWorklist(dropped, adj, mv, SimplifyWorklist,
                 CombineWorklist \ {n}, FreezeWorklist, SpillWorklist)
           /\ combine(u, n, mv)
  /\ UNCHANGED <<conflict, SelectStack, result, pc>>

(* Mutant: the node stays where it is. *)
unionFailsAgain(n) ==
  /\ pc = "work"
  /\ SimplifyWorklist = {}
  /\ IsFirst(n, CombineWorklist)
  /\ coalescable(n) = {}
  /\ mvadj' = Unlink(mvadj, n, constrained(n))
  /\ changeWorklist(constrained(n), adj, mvadj', SimplifyWorklist,
        CombineWorklist, FreezeWorklist, SpillWorklist)
  /\ UNCHANGED <<conflict, adj, hadj, names, SelectStack, result, pc>>

(* ... or none is, and the node waits to be frozen. *)
unionFails(n) ==
  /\ pc = "work"
  /\ SimplifyWorklist = {}
  /\ IsFirst(n, CombineWorklist)
  /\ coalescable(n) = {}
  /\ mvadj' = Unlink(mvadj, n, constrained(n))
  /\ changeWorklist(constrained(n), adj, mvadj', SimplifyWorklist,
        CombineWorklist \ {n}, FreezeWorklist \cup {n}, SpillWorklist)
  /\ UNCHANGED <<conflict, adj, hadj, names, SelectStack, result, pc>>

(* All the moves of n are given up. *)
freezeMove(n) == mvadj' = Unlink(mvadj, n, mvadj[n])

freeze(n) ==
  /\ pc = "work"
  /\ SimplifyWorklist = {}
  /\ CombineWorklist = {}
  /\ IsFirst(n, FreezeWorklist)
  /\ freezeMove(n)
  /\ changeWorklist(mvadj[n], adj, mvadj', {n}, {}, FreezeWorklist \ {n}, SpillWorklist)
  /\ UNCHANGED <<conflict, adj, hadj, names, SelectStack, result, pc>>

OnlySpillsLeft ==
  /\ pc = "work"
  /\ SimplifyWorklist = {}
  /\ CombineWorklist = {}
  /\ FreezeWorklist = {}
  /\ SpillWorklist # {}

(* A candidate for spilling is simplified all the same (optimistically); a *)
(* temporary that an earlier spill introduced is never a candidate.        *)
selectSpill(n) ==
  /\ OnlySpillsLeft
  /\ IsFirst(n, SpillWorklist \ StkUse)
  /\ freezeMove(n)
  /\ changeWorklist(mvadj[n], adj, mvadj', {n}, {}, {}, SpillWorklist \ {n})
  /\ UNCHANGED <<conflict, adj, hadj, names, SelectStack, result, pc>>

(* assert(tnode != -1) fails. *)
selectSpillFails ==
  /\ OnlySpillsLeft
  /\ SpillWorklist \subseteq StkUse
  /\ pc' = "abort"
  /\ UNCHANGED <<conflict, graph, names, lists, SelectStack, result>>

-----------------------------------------------------------------------------
(***************************************************************************)
(* The colouring.                                                          *)
(***************************************************************************)

(* The temporaries that were coalesced with a register get that register. *)
colourRegisters ==
  /\ pc = "work"
  /\ SimplifyWorklist \cup CombineWorklist \cup FreezeWorklist \cup SpillWorklist = {}
  /\ ColorMap' = [t \in Node |-> IF \E r \in Reg : t \in temp[tempNode[r]]
                                 THEN Precolour[CHOOSE r \in Reg : t \in temp[tempNode[r]]]
                                 ELSE None]
  /\ pc' = "assign"
  /\ UNCHANGED <<conflict, graph, names, lists, SelectStack, SpilledTemp>>

(* Mutant: the hidden edges are not put back first. *)
okcolorHidden(a, n) == Colour \ {ColorMap[m] : m \in adj[n]}

okcolor(a, n) == Colour \ {ColorMap[m] : m \in a[n]}

(* The node on top of the stack is put back into the graph (h2pEdge) and   *)
(* its temporaries get the first register no neighbour has, or one slot.   *)
assignColor(n) ==
  /\ pc = "assign"
  /\ SelectStack # << >>
  /\ n = Head(SelectStack)
  /\ SelectStack' = Tail(SelectStack)
  /\ adj' = Link(adj, n, hadj[n])
  /\ hadj' = Unlink(hadj, n, hadj[n])
  /\ \/ /\ okcolor(adj', n) = {}
        /\ SpilledTemp' = [t \in Node |-> IF t \in temp[n] THEN n ELSE SpilledTemp[t]]
        /\ UNCHANGED ColorMap
     \/ \E c \in okcolor(adj', n) :
        /\ IsFirst(c, okcolor(adj', n))
        /\ ColorMap' = [t \in Node |-> IF t \in temp[n] THEN c ELSE ColorMap[t]]
        /\ UNCHANGED SpilledTemp
  /\ UNCHANGED <<conflict, mvadj, names, lists, pc>>

assignDone ==
  /\ pc = "assign"
  /\ SelectStack = << >>
  /\ pc' = "done"
  /\ UNCHANGED <<conflict, graph, names, lists, SelectStack, result>>

-----------------------------------------------------------------------------
(* COL_Color. *)
Next ==
  \/ makeWorklist
  \/ \E n \in Node : \/ simplify(n)
                     \/ unionNode(n)
                     \/ unionFails(n)
                     \/ freeze(n)
                     \/ selectSpill(n)
                     \/ assignColor(n)
  \/ selectSpillFails
  \/ colourRegisters
  \/ assignDone

Spec == Init /\ [][Next]_vars

(* One thread runs the allocator, and nothing it calls blocks. *)
FairSpec == Spec /\ WF_vars(Next)

-----------------------------------------------------------------------------
(***************************************************************************)
(* Properties.                                                             *)
(***************************************************************************)

(* The types: the three graphs stay symmetric and without loops, whatever  *)
(* addEdge, rmEdge, p2hEdge and h2pEdge do to one end and then the other,  *)
(* and no register is on a worklist or on the stack.                       *)
TypeOK ==
  /\ IsGraph(conflict) /\ IsGraph(adj) /\ IsGraph(hadj) /\ IsGraph(mvadj)
  /\ temp \in [Node -> SUBSET Node]
  /\ tempNode \in [Node -> Node]
  /\ SimplifyWorklist \subseteq Node \ Reg
  /\ CombineWorklist \subseteq Node \ Reg
  /\ FreezeWorklist \subseteq Node \ Reg
  /\ SpillWorklist \subseteq Node \ Reg
  /\ SelectStack \in Seq(Node \ Reg)
  /\ ColorMap \in [Node -> Colour \cup {None}]
  /\ SpilledTemp \in [Node -> Node \cup {None}]
  /\ pc \in {"make", "work", "assign", "done", "abort"}

(* Two temporaries that are live at the same time never share a register   *)
(* or a spill slot, whatever was coalesced, hidden, frozen or spilled.     *)
NoSharedPlace ==
  \A x, y \in Node : y \in conflict[x] =>
    /\ ColorMap[x] # None => ColorMap[x] # ColorMap[y]
    /\ SpilledTemp[x] # None => SpilledTemp[x] # SpilledTemp[y]

(* When the allocator is done every temporary has a register or a slot and *)
(* not both, and a machine register has itself.                            *)
EveryTempPlaced ==
  pc = "done" =>
    /\ \A t \in Node : (ColorMap[t] = None) # (SpilledTemp[t] = None)
    /\ \A r \in Reg : ColorMap[r] = Precolour[r]

Merged(n) == tempNode[n] # n
Stacked(n) == \E i \in 1..Len(SelectStack) : SelectStack[i] = n

(* Every node still in the graph is on exactly one worklist, and a node    *)
(* that was merged or simplified on none: changeWorklist never reaches its *)
(* assert(0), and no node is simplified twice.  A node that is about to be *)
(* simplified has no move left (the assert in simplify).                   *)
WorklistsPartition ==
  pc = "work" =>
    /\ \A n \in Node \ Reg :
         LET on == {l \in 1..4 : n \in lists[l]}
         IN  Cardinality(on) = IF Merged(n) \/ Stacked(n) THEN 0 ELSE 1
    /\ \A n \in SimplifyWorklist : mvadj[n] = {}

(* Coalescing and hiding never lose an interference: two temporaries that  *)
(* conflict are carried by different nodes, and an edge, visible or        *)
(* hidden, still joins them.  No edge is both (the asserts in addEdge and  *)
(* addEdge_h).                                                             *)
EdgesKept ==
  /\ \A x, y \in Node : y \in conflict[x] =>
       tempNode[y] \in adj[tempNode[x]] \cup hadj[tempNode[x]]
  /\ \A n \in Node : adj[n] \cap hadj[n] = {}

(* The temporaries that interfere with one the node n carries, the nodes   *)
(* that carry them, and whether one node carries two of them.              *)
near(n) == UNION {conflict[t] : t \in temp[n]}
carriers(n) == {tempNode[x] : x \in near(n)}
Joined(n) == \E x, y \in near(n) : x # y /\ tempNode[x] = tempNode[y]

(* The assert in selectSpill, that a candidate for spilling is found, only *)
(* fails when all that is left was introduced by earlier spills, and each  *)
(* of these temporaries interferes with at least REGNUM others, which are  *)
(* on REGNUM nodes of machine registers or of earlier spills, unless two   *)
(* were coalesced: combine does not file their neighbours again.  What has *)
(* fewer than REGNUM neighbours never stays on the list.                   *)
AbortOnlyCrowded ==
  pc = "abort" => \A s \in SpillWorklist :
    /\ s \in StkUse /\ Cardinality(near(s)) >= REGNUM
    /\ Joined(s) \/ Cardinality(carriers(s) \cap (Reg \cup StkUse)) >= REGNUM

(* Simplification alone would empty the graph: in whatever is left of it   *)
(* some temporary has fewer neighbours than there are registers.           *)
Simplifiable ==
  \A S \in SUBSET (Node \ Reg) \ {{}} :
    \E n \in S : Cardinality(conflict[n] \cap (S \cup Reg)) < REGNUM

(* No spill without need: with no move to coalesce, a graph that           *)
(* simplification alone would empty is coloured with no spill, however the *)
(* nodes were filed and in whatever order they were taken.  (With moves    *)
(* this does not hold: a merged node is simplified at any degree.)         *)
NoNeedlessSpill ==
  (pc = "done" /\ mvadj = Clear /\ tempNode = [n \in Node |-> n] /\ Simplifiable)
    => \A t \in Node : SpilledTemp[t] = None

(* The allocator ends. *)
Termination == <>(pc \in {"done", "abort"})

(* The allocator implements its abstract specification. *)
placeOf ==
  [t \in Node |-> IF ColorMap[t] # None THEN <<"register", ColorMap[t]>>
                  ELSE IF SpilledTemp[t] # None THEN <<"slot", SpilledTemp[t]>>
                  ELSE <<"nowhere", None>>]

A == INSTANCE Allocation WITH
       Temp <- Node,
       Place <- ({"register"} \X Colour) \cup ({"slot"} \X Node),
       NoPlace <- <<"nowhere", None>>,
       interference <- conflict,
       place <- placeOf

Implements == A!Spec

=============================================================================
