----------------------------- MODULE ColorProofs -----------------------------
(***************************************************************************)
(* Proofs about Color for every interference graph, every set of moves and *)
(* any number of registers.  The inductive invariant IInv says how merged, *)
(* stacked and listed nodes relate to the edges and to the result.  Then   *)
(* what becomes of hidden edges, that the worklists partition the graph,   *)
(* that simplification, on graphs nothing was coalesced in, spills nothing *)
(* without need, and what it takes for the assertion of selectSpill to     *)
(* fail, whatever was coalesced.                                           *)
(***************************************************************************)
EXTENDS Color, FiniteSetTheorems, TLAPS

Listed == SimplifyWorklist \cup CombineWorklist \cup FreezeWorklist \cup SpillWorklist

Disjoint(s, c, f, p) ==
  /\ s \cap c = {} /\ s \cap f = {} /\ s \cap p = {}
  /\ c \cap f = {} /\ c \cap p = {} /\ f \cap p = {}

(* A node carries the temporaries that are named after it; a merged node   *)
(* is named after nothing, and a register is never merged away.            *)
NamesInv ==
  /\ \A r \in Reg : tempNode[r] = r
  /\ \A t \in Node : tempNode[tempNode[t]] = tempNode[t]
  /\ \A n, t \in Node : ~ Merged(n) => (t \in temp[n] <=> tempNode[t] = n)

EdgesInv ==
  \A x, y \in Node : y \in conflict[x] =>
    tempNode[y] \in adj[tempNode[x]] \cup hadj[tempNode[x]]

MovesInv == \A n \in Node : mvadj[n] # {} => ~ Merged(n) /\ ~ Stacked(n)

ListsInv ==
  /\ Disjoint(SimplifyWorklist, CombineWorklist, FreezeWorklist, SpillWorklist)
  /\ \A n \in Listed : ~ Merged(n) /\ ~ Stacked(n)
  /\ \A n \in SimplifyWorklist : mvadj[n] = {}

(* The stack holds no node twice, and a hidden edge ends in the stack. *)
StackInv ==
  /\ \A i \in 1..Len(SelectStack) : ~ Merged(SelectStack[i])
  /\ \A i, j \in 1..Len(SelectStack) : SelectStack[i] = SelectStack[j] => i = j
  /\ pc \in {"make", "work"} =>
       \A m, n \in Node : m \in hadj[n] => Stacked(m) \/ Stacked(n)

(* All the temporaries of a node are placed together. *)
ResultInv ==
  /\ pc \in {"make", "work", "abort"} =>
       \A t \in Node : ColorMap[t] = None /\ SpilledTemp[t] = None
  /\ \A t \in Node : ColorMap[t] = ColorMap[tempNode[t]]
  /\ \A t \in Node : SpilledTemp[t] = SpilledTemp[tempNode[t]]
  /\ \A t \in Node : SpilledTemp[t] \in {None, tempNode[t]}
  /\ \A n \in Node : Stacked(n) => ColorMap[n] = None /\ SpilledTemp[n] = None
  /\ \A t \in Node : ColorMap[t] = None \/ SpilledTemp[t] = None
  /\ pc \in {"assign", "done"} => \A r \in Reg : ColorMap[r] = Precolour[r]

(* No node is forgotten. *)
ProgressInv ==
  /\ pc = "work" =>
       \A n \in Node \ Reg : ~ Merged(n) => n \in Listed \/ Stacked(n)
  /\ pc \in {"assign", "done"} =>
       \A n \in Node : ~ Merged(n) =>
         Stacked(n) \/ ColorMap[n] # None \/ SpilledTemp[n] # None
  /\ pc = "make" =>
       SelectStack = << >> /\ FreezeWorklist = {} /\ \A n \in Node : ~ Merged(n)
  /\ pc = "done" => SelectStack = << >>

IInv ==
  /\ TypeOK /\ NamesInv /\ EdgesInv /\ MovesInv /\ ListsInv
  /\ StackInv /\ ResultInv /\ ProgressInv /\ NoSharedPlace

-----------------------------------------------------------------------------
(* The operators on graphs and worklists. *)

(* Unlink only removes edges, and at both ends. *)
LEMMA UnlinkGraph ==
  ASSUME NEW g, IsGraph(g), NEW n \in Node, NEW S
  PROVE  /\ IsGraph(Unlink(g, n, S))
         /\ \A j, k \in Node : k \in Unlink(g, n, S)[j] <=>
              k \in g[j] /\ ~ (j = n /\ k \in S) /\ ~ (k = n /\ j \in S)
  BY DEF IsGraph, Unlink

(* Link only adds edges, and at both ends. *)
LEMMA LinkGraph ==
  ASSUME NEW g, IsGraph(g), NEW n \in Node, NEW S \in SUBSET Node
  PROVE  /\ IsGraph(Link(g, n, S))
         /\ \A j, k \in Node : k \in Link(g, n, S)[j] <=>
              k \in g[j] \/ (j = n /\ k \in S /\ k # n) \/ (k = n /\ j \in S /\ j # n)
  BY DEF IsGraph, Link

(* Redirect moves the edges of v to u, but for the one between them. *)
LEMMA RedirectGraph ==
  ASSUME NEW g, IsGraph(g), NEW u \in Node, NEW v \in Node, u # v
  PROVE  /\ IsGraph(Redirect(g, u, v))
         /\ \A j, k \in Node : k \in Redirect(g, u, v)[j] <=>
              /\ j # v /\ k # v /\ j # k
              /\ k \in g[j] \/ (j = u /\ k \in g[v]) \/ (k = u /\ j \in g[v])
  <1> DEFINE h == Link(g, u, g[v])
  <1>1. g[v] \in SUBSET Node
    BY DEF IsGraph
  <1>2. /\ IsGraph(h)
        /\ \A j, k \in Node : k \in h[j] <=>
             k \in g[j] \/ (j = u /\ k \in g[v] /\ k # u) \/ (k = u /\ j \in g[v] /\ j # u)
    BY <1>1, LinkGraph
  <1> HIDE DEF h
  <1>3. /\ IsGraph(Unlink(h, v, g[v]))
        /\ \A j, k \in Node : k \in Unlink(h, v, g[v])[j] <=>
             k \in h[j] /\ ~ (j = v /\ k \in g[v]) /\ ~ (k = v /\ j \in g[v])
    BY <1>2, UnlinkGraph
  <1>4. Redirect(g, u, v) = Unlink(h, v, g[v])
    BY DEF Redirect, h
  <1>5. \A j, k \in Node : k \in g[j] => k # j /\ j \in g[k]
    BY DEF IsGraph
  <1> QED
    BY <1>2, <1>3, <1>4, <1>5

(* Filing nodes again neither loses one nor lists one twice, and what      *)
(* becomes ready to be simplified has no move left.                        *)
LEMMA ChangeLists ==
  ASSUME NEW M, NEW a, NEW mv, NEW s, NEW c, NEW f, NEW p,
         Disjoint(s, c, f, p),
         changeWorklist(M, a, mv, s, c, f, p)
  PROVE  /\ Disjoint(SimplifyWorklist, CombineWorklist, FreezeWorklist, SpillWorklist)'
         /\ Listed' = s \cup c \cup f \cup p
         /\ \A n \in SimplifyWorklist' : n \in s \/ mv[n] = {}
  <1> DEFINE high   == {n \in M \ Reg : significant(a, n)}
             still  == {n \in (M \ Reg) \ high : mv[n] = {}}
             moving == ((M \ Reg) \ high) \ still
  <1>1. /\ SimplifyWorklist' = (s \ high) \cup (still \cap (c \cup f \cup p))
        /\ CombineWorklist' = (c \ (high \cup still)) \cup (moving \cap p)
        /\ FreezeWorklist' = f \ (high \cup still)
        /\ SpillWorklist' = (p \ (still \cup moving)) \cup (high \cap (s \cup c \cup f))
    BY DEF changeWorklist
  <1>2. \A n \in still : mv[n] = {}
    OBVIOUS
  <1>3. high \cap still = {} /\ high \cap moving = {} /\ still \cap moving = {}
    OBVIOUS
  <1> HIDE DEF high, still, moving
  <1> QED
    BY <1>1, <1>2, <1>3 DEF Disjoint, Listed

(* The stack. *)
LEMMA PushStack ==
  ASSUME NEW S, NEW q \in Seq(S), NEW e \in S
  PROVE  LET r == <<e>> \o q
         IN  /\ r \in Seq(S) /\ Len(r) = Len(q) + 1 /\ r[1] = e
             /\ \A i \in 1..Len(q) : r[i + 1] = q[i]
             /\ \A i \in 2..Len(r) : r[i] = q[i - 1] /\ i - 1 \in 1..Len(q)
  OBVIOUS

LEMMA PopStack ==
  ASSUME NEW S, NEW q \in Seq(S), q # << >>
  PROVE  /\ Head(q) \in S /\ Head(q) = q[1] /\ Len(q) \in Nat /\ Len(q) >= 1
         /\ Tail(q) \in Seq(S) /\ Len(Tail(q)) = Len(q) - 1
         /\ \A i \in 1..Len(Tail(q)) : Tail(q)[i] = q[i + 1] /\ i + 1 \in 1..Len(q)
         /\ \A i \in 2..Len(q) : q[i] = Tail(q)[i - 1] /\ i - 1 \in 1..Len(Tail(q))
  OBVIOUS

-----------------------------------------------------------------------------
(* Every step keeps the invariant. *)

LEMMA InitIInv == Init => IInv
  <1> SUFFICES ASSUME Init PROVE IInv
    OBVIOUS
  <1> USE ConstantsAssumption, GraphsAssumption DEF ConstantsAssumption, GraphsAssumption
  <1>1. IsGraph(conflict) /\ IsGraph(adj) /\ IsGraph(mvadj)
    BY DEF Init
  <1>2. IsGraph(hadj)
    BY DEF Init, Clear, IsGraph
  <1>3. TypeOK
    BY <1>1, <1>2 DEF Init, TypeOK
  <1>4. \A n \in Node : ~ Merged(n) /\ ~ Stacked(n)
    BY DEF Init, Merged, Stacked
  <1>5. NamesInv
    BY DEF Init, NamesInv
  <1>6. EdgesInv
    BY <1>1 DEF Init, EdgesInv, IsGraph
  <1>7. MovesInv /\ ListsInv
    BY <1>4 DEF Init, MovesInv, ListsInv, Disjoint, Listed
  <1>8. StackInv
    BY DEF Init, StackInv, Clear
  <1>9. ResultInv
    BY <1>4 DEF Init, ResultInv
  <1>10. ProgressInv /\ NoSharedPlace
    BY <1>4 DEF Init, ProgressInv, NoSharedPlace
  <1> QED
    BY <1>3, <1>5, <1>6, <1>7, <1>8, <1>9, <1>10 DEF IInv

LEMMA StutterIInv == ASSUME IInv, UNCHANGED vars PROVE IInv'
  BY DEF IInv, vars, graph, names, lists, result, TypeOK, NamesInv, EdgesInv, MovesInv,
         ListsInv, StackInv, ResultInv, ProgressInv, NoSharedPlace, Listed, Merged, Stacked

LEMMA MakeWorklistIInv == ASSUME IInv, makeWorklist PROVE IInv'
  <1> DEFINE high == {n \in Node \ Reg : significant(adj, n)}
             low  == (Node \ Reg) \ high
  <1>1. /\ pc = "make" /\ pc' = "work" /\ FreezeWorklist' = FreezeWorklist
        /\ SpillWorklist' = high
        /\ CombineWorklist' = {n \in low : mvadj[n] # {}}
        /\ SimplifyWorklist' = {n \in low : mvadj[n] = {}}
        /\ UNCHANGED <<conflict, adj, hadj, mvadj, temp, tempNode, SelectStack,
                       ColorMap, SpilledTemp>>
    BY DEF makeWorklist, graph, names, result
  <1> HIDE DEF high, low
  <1>2. /\ high \subseteq Node \ Reg /\ low = (Node \ Reg) \ high
        /\ FreezeWorklist = {} /\ SelectStack = << >> /\ \A n \in Node : ~ Merged(n)
    BY <1>1 DEF IInv, ProgressInv, high, low
  <1>3. TypeOK' /\ NamesInv' /\ EdgesInv' /\ NoSharedPlace'
    BY <1>1, <1>2 DEF IInv, TypeOK, NamesInv, EdgesInv, NoSharedPlace, Merged
  <1>4. \A n \in Node : (Merged(n)' <=> Merged(n)) /\ (Stacked(n)' <=> Stacked(n))
    BY <1>1 DEF Merged, Stacked
  <1>5. \A n \in Node : ~ Stacked(n)
    BY <1>2 DEF Stacked
  <1>6. MovesInv'
    BY <1>1, <1>4 DEF IInv, MovesInv
  <1>7. /\ Disjoint(SimplifyWorklist, CombineWorklist, FreezeWorklist, SpillWorklist)'
        /\ Listed' = Node \ Reg
    BY <1>1, <1>2 DEF Disjoint, Listed
  <1>8. ListsInv'
    BY <1>1, <1>2, <1>4, <1>5, <1>7 DEF ListsInv
  <1>9. StackInv'
    BY <1>1, <1>4 DEF IInv, StackInv, Merged
  <1>10. ResultInv' /\ ProgressInv'
    BY <1>1, <1>4, <1>7 DEF IInv, ResultInv, ProgressInv
  <1> QED
    BY <1>3, <1>6, <1>8, <1>9, <1>10 DEF IInv

LEMMA SimplifyIInv == ASSUME IInv, NEW n \in Node, simplify(n) PROVE IInv'
  <1>1. /\ pc = "work" /\ n \in SimplifyWorklist
        /\ adj' = Unlink(adj, n, adj[n]) /\ hadj' = Link(hadj, n, adj[n])
        /\ SelectStack' = <<n>> \o SelectStack
        /\ changeWorklist(adj[n], adj', mvadj, SimplifyWorklist \ {n},
                          CombineWorklist, FreezeWorklist, SpillWorklist)
        /\ UNCHANGED <<conflict, mvadj, temp, tempNode, ColorMap, SpilledTemp, pc>>
    BY DEF simplify, names, result, IsFirst
  <1>2. /\ n \in Node \ Reg /\ ~ Merged(n) /\ ~ Stacked(n) /\ mvadj[n] = {}
        /\ SelectStack \in Seq(Node \ Reg)
        /\ IsGraph(adj) /\ IsGraph(hadj) /\ IsGraph(mvadj) /\ adj[n] \in SUBSET Node
        /\ Listed \subseteq Node \ Reg
    BY <1>1 DEF IInv, TypeOK, ListsInv, Listed, IsGraph
  <1>3. /\ Disjoint(SimplifyWorklist, CombineWorklist, FreezeWorklist, SpillWorklist)'
        /\ Listed' = Listed \ {n}
        /\ \A k \in SimplifyWorklist' : mvadj[k] = {}
    <2>1. Disjoint(SimplifyWorklist \ {n}, CombineWorklist, FreezeWorklist, SpillWorklist)
      BY DEF IInv, ListsInv, Disjoint
    <2>2. /\ Disjoint(SimplifyWorklist, CombineWorklist, FreezeWorklist, SpillWorklist)'
          /\ Listed' = (SimplifyWorklist \ {n}) \cup CombineWorklist
                         \cup FreezeWorklist \cup SpillWorklist
          /\ \A k \in SimplifyWorklist' : k \in SimplifyWorklist \ {n} \/ mvadj[k] = {}
      BY <1>1, <2>1, ChangeLists
    <2> QED
      BY <1>1, <2>2 DEF IInv, ListsInv, Disjoint, Listed
  <1>4. /\ SelectStack' \in Seq(Node \ Reg) /\ Len(SelectStack') = Len(SelectStack) + 1
        /\ SelectStack'[1] = n
        /\ \A i \in 1..Len(SelectStack) : SelectStack'[i + 1] = SelectStack[i]
        /\ \A i \in 2..Len(SelectStack') :
             SelectStack'[i] = SelectStack[i - 1] /\ i - 1 \in 1..Len(SelectStack)
    BY <1>1, <1>2, PushStack
  <1>5. \A k \in Node : (Stacked(k)' <=> Stacked(k) \/ k = n) /\ (Merged(k)' <=> Merged(k))
    <2>1. Len(SelectStack) \in Nat
      BY <1>2
    <2> QED
      BY <1>1, <1>4, <2>1 DEF Stacked, Merged
  <1>6. /\ IsGraph(adj') /\ IsGraph(hadj')
        /\ \A j, k \in Node : k \in adj'[j] <=>
             k \in adj[j] /\ ~ (j = n /\ k \in adj[n]) /\ ~ (k = n /\ j \in adj[n])
        /\ \A j, k \in Node : k \in hadj'[j] <=>
             \/ k \in hadj[j]
             \/ j = n /\ k \in adj[n] /\ k # n
             \/ k = n /\ j \in adj[n] /\ j # n
    BY <1>1, <1>2, UnlinkGraph, LinkGraph
  <1>7. TypeOK'
    BY <1>1, <1>2, <1>3, <1>4, <1>6 DEF IInv, TypeOK, Listed
  <1>8. NamesInv' /\ NoSharedPlace'
    BY <1>1, <1>5 DEF IInv, NamesInv, NoSharedPlace
  <1>9. EdgesInv'
    <2>1. \A j, k \in Node : k \in adj[j] \cup hadj[j] => k \in adj'[j] \cup hadj'[j]
      BY <1>2, <1>6 DEF IsGraph
    <2> QED
      BY <1>1, <2>1 DEF IInv, TypeOK, EdgesInv
  <1>10. MovesInv'
    BY <1>1, <1>2, <1>5 DEF IInv, MovesInv
  <1>11. ListsInv'
    BY <1>1, <1>2, <1>3, <1>5 DEF IInv, ListsInv
  <1>12. StackInv'
    <2>1. Len(SelectStack) \in Nat
      BY <1>2
    <2>2. \A i \in 1..Len(SelectStack) : SelectStack[i] # n
      BY <1>2 DEF Stacked
    <2>3. (\A i \in 1..Len(SelectStack) : ~ Merged(SelectStack[i]))'
      BY <1>1, <1>2, <1>4, <2>1 DEF IInv, StackInv, Merged
    <2>4. \A i, j \in 1..Len(SelectStack') : SelectStack'[i] = SelectStack'[j] => i = j
      BY <1>4, <2>1, <2>2 DEF IInv, StackInv
    <2>5. \A j, k \in Node : j \in hadj'[k] => Stacked(j)' \/ Stacked(k)'
      BY <1>1, <1>5, <1>6 DEF IInv, StackInv
    <2> QED
      BY <2>3, <2>4, <2>5 DEF StackInv
  <1>13. ResultInv' /\ ProgressInv'
    BY <1>1, <1>2, <1>3, <1>5 DEF IInv, ResultInv, ProgressInv
  <1> QED
    BY <1>7, <1>8, <1>9, <1>10, <1>11, <1>12, <1>13 DEF IInv

(* Facts about a node with a move that the steps on moves share. *)
LEMMA MovePartner ==
  ASSUME IInv, NEW n \in Node, NEW u \in mvadj[n]
  PROVE  /\ u \in Node /\ u # n /\ n \in mvadj[u] /\ mvadj[u] # {}
         /\ ~ Merged(u) /\ ~ Stacked(u) /\ u \notin SimplifyWorklist
  BY DEF IInv, TypeOK, IsGraph, MovesInv, ListsInv

LEMMA UnionNodeIInv == ASSUME IInv, NEW n \in Node, unionNode(n) PROVE IInv'
  <1>1. PICK u \in coalescable(n) :
          LET dropped == {a \in constrained(n) : a < u}
              mv      == Unlink(mvadj, n, dropped)
          IN  /\ IsFirst(u, coalescable(n))
              /\ changeWorklist(dropped, adj, mv, SimplifyWorklist,
                    CombineWorklist \ {n}, FreezeWorklist, SpillWorklist)
              /\ combine(u, n, mv)
    BY DEF unionNode
  <1> DEFINE dropped == {a \in constrained(n) : a < u}
             mv      == Unlink(mvadj, n, dropped)
  <1>2. /\ pc = "work" /\ SimplifyWorklist = {} /\ n \in CombineWorklist
        /\ UNCHANGED <<conflict, SelectStack, ColorMap, SpilledTemp, pc>>
    BY DEF unionNode, IsFirst, result
  <1>3. /\ changeWorklist(dropped, adj, mv, SimplifyWorklist,
                          CombineWorklist \ {n}, FreezeWorklist, SpillWorklist)
        /\ adj' = Redirect(adj, u, n) /\ hadj' = Redirect(hadj, u, n)
        /\ mvadj' = Redirect(mv, u, n)
        /\ temp' = [temp EXCEPT ![u] = @ \cup temp[n]]
        /\ tempNode' = [t \in Node |-> IF t \in temp[n] THEN u ELSE tempNode[t]]
    BY <1>1 DEF combine
  <1>4. /\ n \in Node \ Reg /\ ~ Merged(n) /\ ~ Stacked(n)
        /\ IsGraph(adj) /\ IsGraph(hadj) /\ IsGraph(mvadj)
        /\ Listed \subseteq Node \ Reg
    BY <1>2 DEF IInv, TypeOK, ListsInv, Listed
  <1>5. u \in mvadj[n] /\ n \notin adj[u]
    BY DEF coalescable, constrained
  <1>6. /\ u \in Node /\ u # n /\ ~ Merged(u) /\ ~ Stacked(u)
    BY <1>5, MovePartner
  <1>7. /\ IsGraph(mv)
        /\ \A j, k \in Node : k \in mv[j] <=>
             k \in mvadj[j] /\ ~ (j = n /\ k \in dropped) /\ ~ (k = n /\ j \in dropped)
    BY <1>4, UnlinkGraph
  <1> HIDE DEF mv, dropped
  <1>8. /\ Disjoint(SimplifyWorklist, CombineWorklist, FreezeWorklist, SpillWorklist)'
        /\ Listed' = Listed \ {n}
        /\ \A k \in SimplifyWorklist' : mv[k] = {}
    <2>1. Disjoint(SimplifyWorklist, CombineWorklist \ {n}, FreezeWorklist, SpillWorklist)
      BY DEF IInv, ListsInv, Disjoint
    <2>2. /\ Disjoint(SimplifyWorklist, CombineWorklist, FreezeWorklist, SpillWorklist)'
          /\ Listed' = SimplifyWorklist \cup (CombineWorklist \ {n})
                         \cup FreezeWorklist \cup SpillWorklist
          /\ \A k \in SimplifyWorklist' : k \in SimplifyWorklist \/ mv[k] = {}
      BY <1>3, <2>1, ChangeLists
    <2> QED
      BY <1>2, <2>2 DEF IInv, ListsInv, Disjoint, Listed
  <1>9. /\ IsGraph(adj') /\ IsGraph(hadj') /\ IsGraph(mvadj')
        /\ \A j, k \in Node : k \in adj'[j] <=>
              /\ j # n /\ k # n /\ j # k
              /\ k \in adj[j] \/ (j = u /\ k \in adj[n]) \/ (k = u /\ j \in adj[n])
        /\ \A j, k \in Node : k \in hadj'[j] <=>
              /\ j # n /\ k # n /\ j # k
              /\ k \in hadj[j] \/ (j = u /\ k \in hadj[n]) \/ (k = u /\ j \in hadj[n])
        /\ \A j, k \in Node : k \in mvadj'[j] <=>
              /\ j # n /\ k # n /\ j # k
              /\ k \in mv[j] \/ (j = u /\ k \in mv[n]) \/ (k = u /\ j \in mv[n])
    <2>1. /\ IsGraph(adj')
          /\ \A j, k \in Node : k \in adj'[j] <=>
              /\ j # n /\ k # n /\ j # k
              /\ k \in adj[j] \/ (j = u /\ k \in adj[n]) \/ (k = u /\ j \in adj[n])
      <3>1. adj' = Redirect(adj, u, n) /\ IsGraph(adj) /\ u \in Node /\ n \in Node /\ u # n
        BY <1>3, <1>4, <1>6
      <3> QED
        BY ONLY <3>1, RedirectGraph
    <2>2. /\ IsGraph(hadj')
          /\ \A j, k \in Node : k \in hadj'[j] <=>
              /\ j # n /\ k # n /\ j # k
              /\ k \in hadj[j] \/ (j = u /\ k \in hadj[n]) \/ (k = u /\ j \in hadj[n])
      <3>1. hadj' = Redirect(hadj, u, n) /\ IsGraph(hadj) /\ u \in Node /\ n \in Node /\ u # n
        BY <1>3, <1>4, <1>6
      <3> QED
        BY ONLY <3>1, RedirectGraph
    <2>3. /\ IsGraph(mvadj')
          /\ \A j, k \in Node : k \in mvadj'[j] <=>
              /\ j # n /\ k # n /\ j # k
              /\ k \in mv[j] \/ (j = u /\ k \in mv[n]) \/ (k = u /\ j \in mv[n])
      <3>1. mvadj' = Redirect(mv, u, n) /\ IsGraph(mv) /\ u \in Node /\ n \in Node /\ u # n
        BY <1>3, <1>6, <1>7
      <3> QED
        BY ONLY <3>1, RedirectGraph
    <2> QED
      BY <2>1, <2>2, <2>3
  <1>10. \A t \in Node : t \in temp[n] <=> tempNode[t] = n
    BY <1>4 DEF IInv, NamesInv
  <1>11. /\ temp' \in [Node -> SUBSET Node] /\ tempNode' \in [Node -> Node]
         /\ \A t \in Node : tempNode'[t] = IF tempNode[t] = n THEN u ELSE tempNode[t]
         /\ \A k, t \in Node : t \in temp'[k] <=> t \in temp[k] \/ (k = u /\ t \in temp[n])
    BY <1>3, <1>6, <1>10 DEF IInv, TypeOK
  <1>12. \A k \in Node : /\ Merged(k)' <=> Merged(k) \/ k = n
                         /\ Stacked(k)' <=> Stacked(k)
    BY <1>2, <1>4, <1>6, <1>11 DEF Merged, Stacked
  <1>13. TypeOK'
    BY <1>2, <1>4, <1>8, <1>9, <1>11 DEF IInv, TypeOK, Listed
  <1>14. NamesInv'
    <2>1. \A r \in Reg : tempNode'[r] = r
      BY <1>4, <1>11, ConstantsAssumption DEF IInv, NamesInv, ConstantsAssumption
    <2>2. \A t \in Node : tempNode[t] \in Node /\ tempNode[tempNode[t]] = tempNode[t]
      BY DEF IInv, NamesInv, TypeOK
    <2>3. \A t \in Node : tempNode'[tempNode'[t]] = tempNode'[t]
      BY <1>6, <1>11, <2>2 DEF Merged
    <2>4. \A k, t \in Node : ~ Merged(k)' => (t \in temp'[k] <=> tempNode'[t] = k)
      BY <1>6, <1>10, <1>11, <1>12 DEF IInv, NamesInv
    <2> QED
      BY <2>1, <2>3, <2>4 DEF NamesInv
  <1>15. EdgesInv'
    <2>1. u \notin hadj[n] /\ n \notin hadj[u] /\ u \notin adj[n] /\ n \notin adj[u]
      BY <1>2, <1>4, <1>5, <1>6 DEF IInv, StackInv, IsGraph
    <2>2. SUFFICES ASSUME NEW x \in Node, NEW y \in Node, y \in conflict[x]
                   PROVE  tempNode'[y] \in adj'[tempNode'[x]] \cup hadj'[tempNode'[x]]
      BY <1>2 DEF EdgesInv
    <2>3. /\ tempNode[x] \in Node /\ tempNode[y] \in Node
          /\ tempNode[y] \in adj[tempNode[x]] \/ tempNode[y] \in hadj[tempNode[x]]
      BY <2>2 DEF IInv, TypeOK, EdgesInv
    <2>4. \A j, k \in Node : /\ j \in adj[k] => k \in adj[j] /\ j # k
                             /\ j \in hadj[k] => k \in hadj[j] /\ j # k
      BY <1>4 DEF IsGraph
    <2> QED
      BY <1>6, <1>9, <1>11, <2>1, <2>3, <2>4
  <1>16. MovesInv'
    BY <1>4, <1>6, <1>7, <1>9, <1>12 DEF IInv, MovesInv, IsGraph
  <1>17. ListsInv'
    <2>1. \A k \in SimplifyWorklist' : k \in Listed /\ k # n /\ k \in Node /\ mv[k] = {}
      BY <1>4, <1>8 DEF Listed
    <2>2. \A k \in SimplifyWorklist' : mvadj'[k] = {}
      <3>1. \A k \in Node : mv[k] \subseteq Node /\ mvadj'[k] \subseteq Node
        BY <1>7, <1>9 DEF IsGraph
      <3>2. u \in mv[n] /\ n \in mv[u]
        BY <1>4, <1>5, <1>6, <1>7 DEF dropped, constrained, IsGraph
      <3>3. \A k \in Node : mv[k] = {} => k # u /\ k \notin mv[n]
        BY <1>7, <3>2 DEF IsGraph
      <3> QED
        BY <1>9, <2>1, <3>1, <3>3
    <2> QED
      BY <1>4, <1>8, <1>12, <2>2 DEF IInv, ListsInv
  <1>18. StackInv'
    <2>1. \A i \in 1..Len(SelectStack) : SelectStack[i] \in Node /\ SelectStack[i] # n
      BY <1>4 DEF IInv, TypeOK, Stacked
    <2>2. (\A i \in 1..Len(SelectStack) : ~ Merged(SelectStack[i]))'
      BY <1>2, <1>12, <2>1 DEF IInv, StackInv, Merged
    <2>3. \A j, k \in Node : j \in hadj'[k] => Stacked(j)' \/ Stacked(k)'
      BY <1>2, <1>4, <1>6, <1>9, <1>12 DEF IInv, StackInv
    <2> QED
      BY <1>2, <2>2, <2>3 DEF IInv, StackInv
  <1>19. ResultInv' /\ NoSharedPlace'
    BY <1>2, <1>11, <1>12 DEF IInv, ResultInv, NoSharedPlace
  <1>20. ProgressInv'
    BY <1>2, <1>8, <1>12 DEF IInv, ProgressInv
  <1> QED
    BY <1>13, <1>14, <1>15, <1>16, <1>17, <1>18, <1>19, <1>20 DEF IInv

(* A step that only gives up moves of n, in mvadj' and in the worklists.   *)
LEMMA DropMoves ==
  ASSUME IInv, NEW n \in Node, NEW S \in SUBSET mvadj[n], pc = "work",
         n \in Listed, SimplifyWorklist = {},
         NEW s, NEW c, NEW f, NEW p, Disjoint(s, c, f, p),
         s \cup c \cup f \cup p = Listed,
         n \in s => S = mvadj[n], s \subseteq {n},
         mvadj' = Unlink(mvadj, n, S),
         changeWorklist(S, adj, mvadj', s, c, f, p),
         UNCHANGED <<conflict, adj, hadj, names, SelectStack, result, pc>>
  PROVE  IInv'
  <1>1. UNCHANGED <<conflict, adj, hadj, temp, tempNode, SelectStack,
                    ColorMap, SpilledTemp, pc>>
    BY DEF names, result
  <1>2. IsGraph(mvadj) /\ S \in SUBSET Node /\ n \notin mvadj[n] /\ Listed \subseteq Node \ Reg
    BY DEF IInv, TypeOK, IsGraph, Listed
  <1>3. /\ IsGraph(mvadj')
        /\ \A j, k \in Node : k \in mvadj'[j] <=>
             k \in mvadj[j] /\ ~ (j = n /\ k \in S) /\ ~ (k = n /\ j \in S)
    BY <1>2, UnlinkGraph
  <1>4. /\ Disjoint(SimplifyWorklist, CombineWorklist, FreezeWorklist, SpillWorklist)'
        /\ Listed' = Listed
        /\ \A k \in SimplifyWorklist' : k \in s \/ mvadj'[k] = {}
    <2>1. Disjoint(s, c, f, p) /\ changeWorklist(S, adj, mvadj', s, c, f, p)
      OBVIOUS
    <2>2. /\ Disjoint(SimplifyWorklist, CombineWorklist, FreezeWorklist, SpillWorklist)'
          /\ Listed' = s \cup c \cup f \cup p
          /\ \A k \in SimplifyWorklist' : k \in s \/ mvadj'[k] = {}
      BY ONLY <2>1, ChangeLists
    <2> QED
      BY <2>2
  <1>5. \A k \in Node : (Merged(k)' <=> Merged(k)) /\ (Stacked(k)' <=> Stacked(k))
    BY <1>1 DEF Merged, Stacked
  <1>6. TypeOK'
    BY <1>1, <1>2, <1>3, <1>4 DEF IInv, TypeOK, Listed
  <1>7. NamesInv' /\ EdgesInv' /\ NoSharedPlace' /\ ResultInv' /\ ProgressInv'
    BY <1>1, <1>4, <1>5
       DEF IInv, NamesInv, EdgesInv, NoSharedPlace, ResultInv, ProgressInv
  <1>8. MovesInv'
    BY <1>2, <1>3, <1>5 DEF IInv, MovesInv, IsGraph
  <1>9. ListsInv'
    <2>1. n \in s => mvadj'[n] = {}
      BY <1>2, <1>3 DEF IsGraph
    <2> QED
      BY <1>2, <1>4, <1>5, <2>1 DEF IInv, ListsInv
  <1>10. StackInv'
    BY <1>1, <1>5 DEF IInv, StackInv, Merged
  <1> QED
    BY <1>6, <1>7, <1>8, <1>9, <1>10 DEF IInv

LEMMA UnionFailsIInv == ASSUME IInv, NEW n \in Node, unionFails(n) PROVE IInv'
  <1>1. /\ pc = "work" /\ SimplifyWorklist = {} /\ n \in CombineWorklist
        /\ constrained(n) \in SUBSET mvadj[n]
    BY DEF unionFails, IsFirst, constrained
  <1>2. /\ Disjoint(SimplifyWorklist, CombineWorklist \ {n}, FreezeWorklist \cup {n},
                    SpillWorklist)
        /\ SimplifyWorklist \cup (CombineWorklist \ {n}) \cup (FreezeWorklist \cup {n})
             \cup SpillWorklist = Listed
    BY <1>1 DEF IInv, ListsInv, Disjoint, Listed
  <1>3. /\ mvadj' = Unlink(mvadj, n, constrained(n))
        /\ changeWorklist(constrained(n), adj, mvadj', SimplifyWorklist,
             CombineWorklist \ {n}, FreezeWorklist \cup {n}, SpillWorklist)
        /\ UNCHANGED <<conflict, adj, hadj, names, SelectStack, result, pc>>
    BY DEF unionFails
  <1>4. n \in Listed
    BY <1>1 DEF Listed
  <1> QED
    BY <1>1, <1>2, <1>3, <1>4, DropMoves

LEMMA FreezeIInv == ASSUME IInv, NEW n \in Node, freeze(n) PROVE IInv'
  <1>1. /\ pc = "work" /\ SimplifyWorklist = {} /\ CombineWorklist = {}
        /\ n \in FreezeWorklist
    BY DEF freeze, IsFirst
  <1>2. /\ Disjoint({n}, {}, FreezeWorklist \ {n}, SpillWorklist)
        /\ {n} \cup {} \cup (FreezeWorklist \ {n}) \cup SpillWorklist = Listed
    BY <1>1 DEF IInv, ListsInv, Disjoint, Listed
  <1>3. /\ mvadj' = Unlink(mvadj, n, mvadj[n])
        /\ changeWorklist(mvadj[n], adj, mvadj', {n}, {}, FreezeWorklist \ {n},
             SpillWorklist)
        /\ UNCHANGED <<conflict, adj, hadj, names, SelectStack, result, pc>>
    BY DEF freeze, freezeMove
  <1>4. n \in Listed /\ mvadj[n] \in SUBSET mvadj[n]
    BY <1>1 DEF Listed
  <1> QED
    BY <1>1, <1>2, <1>3, <1>4, DropMoves

LEMMA SelectSpillIInv == ASSUME IInv, NEW n \in Node, selectSpill(n) PROVE IInv'
  <1>1. /\ pc = "work" /\ SimplifyWorklist = {} /\ CombineWorklist = {}
        /\ FreezeWorklist = {} /\ n \in SpillWorklist
    BY DEF selectSpill, OnlySpillsLeft, IsFirst
  <1>2. /\ Disjoint({n}, {}, {}, SpillWorklist \ {n})
        /\ {n} \cup {} \cup {} \cup (SpillWorklist \ {n}) = Listed
    BY <1>1 DEF IInv, ListsInv, Disjoint, Listed
  <1>3. /\ mvadj' = Unlink(mvadj, n, mvadj[n])
        /\ changeWorklist(mvadj[n], adj, mvadj', {n}, {}, {}, SpillWorklist \ {n})
        /\ UNCHANGED <<conflict, adj, hadj, names, SelectStack, result, pc>>
    BY DEF selectSpill, freezeMove
  <1>4. n \in Listed /\ mvadj[n] \in SUBSET mvadj[n]
    BY <1>1 DEF Listed
  <1> QED
    BY <1>1, <1>2, <1>3, <1>4, DropMoves

LEMMA SelectSpillFailsIInv == ASSUME IInv, selectSpillFails PROVE IInv'
  <1>1. /\ pc = "work" /\ pc' = "abort"
        /\ UNCHANGED <<conflict, adj, hadj, mvadj, temp, tempNode, SimplifyWorklist,
                       CombineWorklist, FreezeWorklist, SpillWorklist, SelectStack,
                       ColorMap, SpilledTemp>>
    BY DEF selectSpillFails, OnlySpillsLeft, graph, names, lists, result
  <1>2. \A k \in Node : (Merged(k)' <=> Merged(k)) /\ (Stacked(k)' <=> Stacked(k))
    BY <1>1 DEF Merged, Stacked
  <1>3. Listed \subseteq Node
    BY DEF IInv, TypeOK, Listed
  <1>4. TypeOK' /\ NamesInv' /\ EdgesInv' /\ NoSharedPlace' /\ MovesInv'
    BY <1>1, <1>2 DEF IInv, TypeOK, NamesInv, EdgesInv, NoSharedPlace, MovesInv
  <1>5. ListsInv'
    BY <1>1, <1>2, <1>3 DEF IInv, ListsInv, Listed
  <1>6. StackInv' /\ ResultInv' /\ ProgressInv'
    BY <1>1, <1>2 DEF IInv, StackInv, ResultInv, ProgressInv, Merged
  <1> QED
    BY <1>4, <1>5, <1>6 DEF IInv

LEMMA ColourRegistersIInv == ASSUME IInv, colourRegisters PROVE IInv'
  <1>1. /\ pc = "work" /\ pc' = "assign" /\ Listed = {}
        /\ ColorMap' = [t \in Node |->
             IF \E r \in Reg : t \in temp[tempNode[r]]
             THEN Precolour[CHOOSE r \in Reg : t \in temp[tempNode[r]]] ELSE None]
        /\ UNCHANGED <<conflict, adj, hadj, mvadj, temp, tempNode, SimplifyWorklist,
                       CombineWorklist, FreezeWorklist, SpillWorklist, SelectStack,
                       SpilledTemp>>
    BY DEF colourRegisters, graph, names, lists, Listed
  <1>2. /\ Reg \subseteq Node /\ None \notin Colour
        /\ \A r \in Reg : Precolour[r] \in Colour
        /\ \A r, q \in Reg : r # q => Precolour[r] # Precolour[q]
    BY ConstantsAssumption DEF ConstantsAssumption
  <1>3. \A t \in Node, r \in Reg : t \in temp[tempNode[r]] <=> tempNode[t] = r
    BY <1>2 DEF IInv, NamesInv, Merged
  <1>4. \A t \in Node : ColorMap'[t] = IF tempNode[t] \in Reg
                                       THEN Precolour[tempNode[t]] ELSE None
    <2> SUFFICES ASSUME NEW t \in Node
                 PROVE  ColorMap'[t] = IF tempNode[t] \in Reg
                                       THEN Precolour[tempNode[t]] ELSE None
      OBVIOUS
    <2>1. CASE tempNode[t] \in Reg
      <3>1. (CHOOSE r \in Reg : t \in temp[tempNode[r]]) = tempNode[t]
        BY <1>3, <2>1
      <3> QED
        BY <1>1, <1>3, <2>1, <3>1
    <2>2. CASE tempNode[t] \notin Reg
      BY <1>1, <1>3, <2>2
    <2> QED
      BY <2>1, <2>2
  <1>5. \A k \in Node : (Merged(k)' <=> Merged(k)) /\ (Stacked(k)' <=> Stacked(k))
    BY <1>1 DEF Merged, Stacked
  <1>6. /\ tempNode \in [Node -> Node]
        /\ \A t \in Node : tempNode[tempNode[t]] = tempNode[t] /\ SpilledTemp[t] = None
        /\ \A r \in Reg : tempNode[r] = r
        /\ \A r \in Reg : ~ Stacked(r)
    BY <1>1 DEF IInv, TypeOK, NamesInv, ResultInv, Stacked
  <1>7. TypeOK'
    <2>1. ColorMap' \in [Node -> Colour \cup {None}]
      <3>1. \A t \in Node : ColorMap'[t] \in Colour \cup {None}
        BY <1>2, <1>4
      <3> QED
        BY <1>1, <3>1
    <2> QED
      BY <1>1, <2>1 DEF IInv, TypeOK
  <1>8. NamesInv' /\ EdgesInv' /\ MovesInv' /\ ListsInv'
    BY <1>1, <1>5 DEF IInv, NamesInv, EdgesInv, MovesInv, ListsInv, Listed
  <1>9. StackInv'
    BY <1>1, <1>5 DEF IInv, StackInv, Merged
  <1>10. ResultInv'
    <2>1. \A n \in Node : Stacked(n) => ColorMap'[n] = None
      <3> SUFFICES ASSUME NEW n \in Node, Stacked(n) PROVE ColorMap'[n] = None
        OBVIOUS
      <3>1. tempNode[n] = n
        BY DEF IInv, StackInv, Stacked, Merged
      <3> QED
        BY <1>4, <1>6, <3>1
    <2>2. \A t \in Node : ColorMap'[t] = ColorMap'[tempNode[t]]
      BY <1>4, <1>6
    <2>3. \A r \in Reg : ColorMap'[r] = Precolour[r]
      BY <1>2, <1>4, <1>6
    <2>4. \A t \in Node : SpilledTemp'[t] = None /\ SpilledTemp'[tempNode[t]] = None
      BY <1>1, <1>6
    <2>5. tempNode' = tempNode /\ pc' = "assign"
          /\ \A k \in Node : Stacked(k)' <=> Stacked(k)
      BY <1>1, <1>5
    <2> QED
      BY <2>1, <2>2, <2>3, <2>4, <2>5 DEF ResultInv
  <1>11. ProgressInv'
    <2>1. \A n \in Node : ~ Merged(n) => Stacked(n) \/ ColorMap'[n] # None
      BY <1>1, <1>2, <1>4 DEF IInv, ProgressInv, Merged
    <2> QED
      BY <1>1, <1>5, <2>1 DEF ProgressInv
  <1>12. NoSharedPlace'
    <2>1. \A x, y \in Node : y \in conflict[x] => tempNode[x] # tempNode[y]
      BY DEF IInv, TypeOK, EdgesInv, IsGraph
    <2>2. \A x, y \in Node : y \in conflict[x] /\ ColorMap'[x] # None
                               => ColorMap'[x] # ColorMap'[y]
      <3> SUFFICES ASSUME NEW x \in Node, NEW y \in Node, y \in conflict[x],
                          tempNode[x] \in Reg
                   PROVE  Precolour[tempNode[x]] # ColorMap'[y]
        BY <1>4
      <3>1. CASE tempNode[y] \in Reg
        BY <1>2, <1>4, <2>1, <3>1
      <3>2. CASE tempNode[y] \notin Reg
        BY <1>2, <1>4, <3>2
      <3> QED
        BY <3>1, <3>2
    <2> QED
      BY <1>1, <1>6, <2>2 DEF NoSharedPlace
  <1> QED
    BY <1>7, <1>8, <1>9, <1>10, <1>11, <1>12 DEF IInv

LEMMA AssignColorIInv == ASSUME IInv, NEW n \in Node, assignColor(n) PROVE IInv'
  <1>1. /\ pc = "assign" /\ SelectStack # << >> /\ n = Head(SelectStack)
        /\ SelectStack' = Tail(SelectStack)
        /\ adj' = Link(adj, n, hadj[n]) /\ hadj' = Unlink(hadj, n, hadj[n])
        /\ UNCHANGED <<conflict, mvadj, temp, tempNode, SimplifyWorklist,
                       CombineWorklist, FreezeWorklist, SpillWorklist, pc>>
    BY DEF assignColor, names, lists
  <1>2. /\ SelectStack \in Seq(Node \ Reg)
        /\ IsGraph(adj) /\ IsGraph(hadj) /\ hadj[n] \in SUBSET Node
    BY DEF IInv, TypeOK, IsGraph
  <1>3. /\ n = SelectStack[1] /\ Len(SelectStack) \in Nat /\ Len(SelectStack) >= 1
        /\ SelectStack' \in Seq(Node \ Reg) /\ Len(SelectStack') = Len(SelectStack) - 1
        /\ \A i \in 1..Len(SelectStack') :
             SelectStack'[i] = SelectStack[i + 1] /\ i + 1 \in 1..Len(SelectStack)
        /\ \A i \in 2..Len(SelectStack) :
             SelectStack[i] = SelectStack'[i - 1] /\ i - 1 \in 1..Len(SelectStack')
        /\ n \in Node \ Reg
    BY <1>1, <1>2, PopStack
  <1>4. /\ \A k \in Node : Merged(k)' <=> Merged(k)
        /\ \A k \in Node : Stacked(k)' <=> Stacked(k) /\ k # n
        /\ Stacked(n) /\ ~ Merged(n)
    <2>1. \A i \in 2..Len(SelectStack) : SelectStack[i] # n
      BY <1>3 DEF IInv, StackInv
    <2>2. Stacked(n) /\ ~ Merged(n)
      BY <1>3 DEF IInv, StackInv, Stacked
    <2>3. \A k \in Node : Stacked(k)' => Stacked(k) /\ k # n
      BY <1>3, <2>1 DEF Stacked
    <2>4. \A k \in Node : Stacked(k) /\ k # n => Stacked(k)'
      BY <1>3 DEF Stacked
    <2> QED
      BY <1>1, <2>2, <2>3, <2>4 DEF Merged
  <1>5. /\ IsGraph(adj') /\ IsGraph(hadj')
        /\ \A j, k \in Node : k \in adj'[j] <=>
             \/ k \in adj[j]
             \/ j = n /\ k \in hadj[n] /\ k # n
             \/ k = n /\ j \in hadj[n] /\ j # n
        /\ \A j, k \in Node : k \in hadj'[j] <=>
             k \in hadj[j] /\ ~ (j = n /\ k \in hadj[n]) /\ ~ (k = n /\ j \in hadj[n])
    BY <1>1, <1>2, UnlinkGraph, LinkGraph
  <1>6. \A t \in Node : t \in temp[n] <=> tempNode[t] = n
    BY <1>4 DEF IInv, NamesInv
  <1>7. /\ \/ /\ \A t \in Node : SpilledTemp'[t] = IF tempNode[t] = n THEN n
                                                    ELSE SpilledTemp[t]
              /\ SpilledTemp' \in [Node -> Node \cup {None}]
              /\ ColorMap' = ColorMap
           \/ \E c \in Colour :
              /\ \A m \in adj'[n] : ColorMap[m] # c
              /\ \A t \in Node : ColorMap'[t] = IF tempNode[t] = n THEN c ELSE ColorMap[t]
              /\ ColorMap' \in [Node -> Colour \cup {None}]
              /\ SpilledTemp' = SpilledTemp
    <2>1. CASE /\ okcolor(adj', n) = {}
               /\ SpilledTemp' = [t \in Node |-> IF t \in temp[n] THEN n ELSE SpilledTemp[t]]
               /\ UNCHANGED ColorMap
      BY <1>6, <2>1 DEF IInv, TypeOK
    <2>2. ASSUME NEW c \in okcolor(adj', n),
                 ColorMap' = [t \in Node |-> IF t \in temp[n] THEN c ELSE ColorMap[t]],
                 UNCHANGED SpilledTemp
          PROVE  \E d \in Colour :
              /\ \A m \in adj'[n] : ColorMap[m] # d
              /\ \A t \in Node : ColorMap'[t] = IF tempNode[t] = n THEN d ELSE ColorMap[t]
              /\ ColorMap' \in [Node -> Colour \cup {None}]
              /\ SpilledTemp' = SpilledTemp
      <3>1. c \in Colour /\ \A m \in adj'[n] : ColorMap[m] # c
        BY DEF okcolor
      <3> QED
        BY <1>6, <2>2, <3>1 DEF IInv, TypeOK
    <2> QED
      BY <2>1, <2>2 DEF assignColor
  <1>8. /\ tempNode \in [Node -> Node] /\ None \notin Colour /\ None \notin Node
        /\ \A t \in Node : tempNode[tempNode[t]] = tempNode[t]
        /\ tempNode[n] = n
        /\ \A r \in Reg : tempNode[r] = r /\ r # n
        /\ Reg \subseteq Node
    BY <1>3, <1>4, ConstantsAssumption
       DEF IInv, TypeOK, NamesInv, Merged, ConstantsAssumption
  <1>9. \A t \in Node : tempNode[t] = n => ColorMap[t] = None /\ SpilledTemp[t] = None
    BY <1>4 DEF IInv, ResultInv
  <1>10. \A x, y \in Node : y \in conflict[x] => /\ tempNode[x] # tempNode[y]
                                                 /\ x \in conflict[y]
    BY DEF IInv, TypeOK, EdgesInv, IsGraph
  <1>11. TypeOK'
    BY <1>1, <1>3, <1>5, <1>7 DEF IInv, TypeOK
  <1>12. NamesInv' /\ MovesInv' /\ ListsInv'
    BY <1>1, <1>4 DEF IInv, TypeOK, NamesInv, MovesInv, ListsInv, Listed
  <1>13. EdgesInv'
    <2>1. \A j, k \in Node : k \in adj[j] \cup hadj[j] => k \in adj'[j] \cup hadj'[j]
      BY <1>2, <1>5 DEF IsGraph
    <2> QED
      BY <1>1, <2>1 DEF IInv, TypeOK, EdgesInv
  <1>14. StackInv'
    <2>1. (\A i \in 1..Len(SelectStack) : ~ Merged(SelectStack[i]))'
      BY <1>1, <1>3 DEF IInv, StackInv, Merged
    <2>2. \A i, j \in 1..Len(SelectStack') : SelectStack'[i] = SelectStack'[j] => i = j
      BY <1>3 DEF IInv, StackInv
    <2> QED
      BY <1>1, <2>1, <2>2 DEF StackInv
  <1>15. ResultInv'
    <2>1. \A t \in Node : /\ ColorMap'[t] = ColorMap'[tempNode[t]]
                           /\ SpilledTemp'[t] = SpilledTemp'[tempNode[t]]
      BY <1>7, <1>8 DEF IInv, ResultInv
    <2>2. \A t \in Node : SpilledTemp'[t] \in {None, tempNode[t]}
      BY <1>7 DEF IInv, ResultInv
    <2>3. \A k \in Node : Stacked(k) /\ k # n => ColorMap'[k] = None /\ SpilledTemp'[k] = None
      <3>1. \A k \in Node : Stacked(k) => tempNode[k] = k
        BY DEF IInv, StackInv, Stacked, Merged
      <3> QED
        BY <1>7, <3>1 DEF IInv, ResultInv
    <2>4. \A t \in Node : ColorMap'[t] = None \/ SpilledTemp'[t] = None
      BY <1>7, <1>9 DEF IInv, ResultInv
    <2>5. \A r \in Reg : ColorMap'[r] = Precolour[r]
      BY <1>1, <1>7, <1>8 DEF IInv, ResultInv
    <2> QED
      BY <1>1, <1>4, <2>1, <2>2, <2>3, <2>4, <2>5 DEF ResultInv
  <1>16. ProgressInv'
    BY <1>1, <1>4, <1>7, <1>8, <1>9 DEF IInv, ProgressInv
  <1>17. NoSharedPlace'
    <2>1. \A y \in Node : tempNode[y] \in adj'[n] => ColorMap[y] = ColorMap[tempNode[y]]
      BY DEF IInv, ResultInv
    <2>2. \A x, y \in Node : y \in conflict[x] /\ tempNode[x] = n => tempNode[y] \in adj'[n]
      BY <1>2, <1>5, <1>8 DEF IInv, EdgesInv, IsGraph
    <2>3. \A t \in Node : SpilledTemp[t] \in {None, tempNode[t]}
      BY DEF IInv, ResultInv
    <2> QED
      BY <1>1, <1>7, <1>8, <1>9, <1>10, <2>1, <2>2, <2>3 DEF IInv, NoSharedPlace
  <1> QED
    BY <1>11, <1>12, <1>13, <1>14, <1>15, <1>16, <1>17 DEF IInv

LEMMA AssignDoneIInv == ASSUME IInv, assignDone PROVE IInv'
  <1>1. /\ pc = "assign" /\ pc' = "done" /\ SelectStack = << >>
        /\ UNCHANGED <<conflict, adj, hadj, mvadj, temp, tempNode, SimplifyWorklist,
                       CombineWorklist, FreezeWorklist, SpillWorklist, SelectStack,
                       ColorMap, SpilledTemp>>
    BY DEF assignDone, graph, names, lists, result
  <1>2. \A k \in Node : (Merged(k)' <=> Merged(k)) /\ (Stacked(k)' <=> Stacked(k))
    BY <1>1 DEF Merged, Stacked
  <1>3. TypeOK' /\ NamesInv' /\ EdgesInv' /\ NoSharedPlace' /\ MovesInv'
    BY <1>1, <1>2 DEF IInv, TypeOK, NamesInv, EdgesInv, NoSharedPlace, MovesInv
  <1>4. ListsInv'
    BY <1>1, <1>2 DEF IInv, TypeOK, ListsInv, Listed
  <1>5. StackInv' /\ ResultInv' /\ ProgressInv'
    BY <1>1, <1>2 DEF IInv, StackInv, ResultInv, ProgressInv, Merged
  <1> QED
    BY <1>3, <1>4, <1>5 DEF IInv

LEMMA NextIInv == IInv /\ [Next]_vars => IInv'
  <1> SUFFICES ASSUME IInv, [Next]_vars PROVE IInv'
    OBVIOUS
  <1>1. CASE makeWorklist
    BY <1>1, MakeWorklistIInv
  <1>2. ASSUME NEW n \in Node, simplify(n) PROVE IInv'
    BY <1>2, SimplifyIInv
  <1>3. ASSUME NEW n \in Node, unionNode(n) PROVE IInv'
    BY <1>3, UnionNodeIInv
  <1>4. ASSUME NEW n \in Node, unionFails(n) PROVE IInv'
    BY <1>4, UnionFailsIInv
  <1>5. ASSUME NEW n \in Node, freeze(n) PROVE IInv'
    BY <1>5, FreezeIInv
  <1>6. ASSUME NEW n \in Node, selectSpill(n) PROVE IInv'
    BY <1>6, SelectSpillIInv
  <1>7. ASSUME NEW n \in Node, assignColor(n) PROVE IInv'
    BY <1>7, AssignColorIInv
  <1>8. CASE selectSpillFails
    BY <1>8, SelectSpillFailsIInv
  <1>9. CASE colourRegisters
    BY <1>9, ColourRegistersIInv
  <1>10. CASE assignDone
    BY <1>10, AssignDoneIInv
  <1>11. CASE UNCHANGED vars
    BY <1>11, StutterIInv
  <1> QED
    BY <1>1, <1>2, <1>3, <1>4, <1>5, <1>6, <1>7, <1>8, <1>9, <1>10, <1>11 DEF Next

(* The inductive invariant holds in every state of COL_Color. *)
THEOREM Invariance == Spec => []IInv
  <1> QED
    BY InitIInv, NextIInv, PTL DEF Spec

-----------------------------------------------------------------------------
(* The results. *)

(* The state of COL_result keeps its types: the graphs stay symmetric and  *)
(* no register is ever on a worklist or on the stack.                      *)
THEOREM TypeCorrect == Spec => []TypeOK
  <1>1. IInv => TypeOK
    BY DEF IInv
  <1> QED
    BY <1>1, Invariance, PTL

(* Temporaries that are live at the same time never get the same register  *)
(* or the same slot (assignColor), for every graph and set of moves.       *)
THEOREM ProperColouring == Spec => []NoSharedPlace
  <1>1. IInv => NoSharedPlace
    BY DEF IInv
  <1> QED
    BY <1>1, Invariance, PTL

(* When COL_Color is done every temporary has a register or a slot and not *)
(* both, and every machine register has itself.                            *)
THEOREM Placement == Spec => []EveryTempPlaced
  <1>1. IInv => EveryTempPlaced
    <2> SUFFICES ASSUME IInv, pc = "done" PROVE EveryTempPlaced
      BY DEF EveryTempPlaced
    <2>1. /\ tempNode \in [Node -> Node]
          /\ \A t \in Node : ~ Merged(tempNode[t])
      BY DEF IInv, TypeOK, NamesInv, Merged
    <2>2. \A n \in Node : ~ Stacked(n)
      BY DEF IInv, ProgressInv, Stacked
    <2>3. \A t \in Node : ColorMap[tempNode[t]] # None \/ SpilledTemp[tempNode[t]] # None
      BY <2>1, <2>2 DEF IInv, ProgressInv
    <2> QED
      BY <2>3 DEF IInv, ResultInv, EveryTempPlaced
  <1> QED
    BY <1>1, Invariance, PTL

(* A place once given is given for good. *)
LEMMA PlacesFinal ==
  ASSUME IInv, [Next]_vars
  PROVE  \A t \in Node :
           /\ ColorMap[t] # None => ColorMap'[t] = ColorMap[t]
           /\ SpilledTemp[t] # None => SpilledTemp'[t] = SpilledTemp[t]
  <1>1. CASE colourRegisters
    BY <1>1 DEF colourRegisters, IInv, ResultInv
  <1>2. ASSUME NEW n \in Node, assignColor(n)
        PROVE  \A t \in Node :
                 /\ ColorMap[t] # None => ColorMap'[t] = ColorMap[t]
                 /\ SpilledTemp[t] # None => SpilledTemp'[t] = SpilledTemp[t]
    <2>1. n \in Node /\ Stacked(n) /\ ~ Merged(n)
      <3>1. SelectStack \in Seq(Node \ Reg) /\ SelectStack # << >> /\ n = Head(SelectStack)
        BY <1>2 DEF IInv, TypeOK, assignColor
      <3>2. n = SelectStack[1] /\ 1 \in 1..Len(SelectStack)
        BY <3>1, PopStack
      <3> QED
        BY <1>2, <3>2 DEF IInv, StackInv, Stacked
    <2>2. \A t \in temp[n] : t \in Node => ColorMap[t] = None /\ SpilledTemp[t] = None
      BY <2>1 DEF IInv, NamesInv, ResultInv
    <2> QED
      BY <1>2, <2>2 DEF assignColor
  <1>3. CASE UNCHANGED <<ColorMap, SpilledTemp>>
    BY <1>3
  <1>4. UNCHANGED result => UNCHANGED <<ColorMap, SpilledTemp>>
    BY DEF result
  <1>5. CASE makeWorklist \/ selectSpillFails \/ assignDone
    BY <1>3, <1>4, <1>5 DEF makeWorklist, selectSpillFails, assignDone
  <1>6. ASSUME NEW n \in Node, simplify(n) \/ unionNode(n) \/ unionFails(n)
        PROVE  UNCHANGED <<ColorMap, SpilledTemp>>
    BY <1>4, <1>6 DEF simplify, unionNode, unionFails
  <1>7. ASSUME NEW n \in Node, freeze(n) \/ selectSpill(n)
        PROVE  UNCHANGED <<ColorMap, SpilledTemp>>
    BY <1>4, <1>7 DEF freeze, selectSpill
  <1>8. CASE UNCHANGED vars
    BY <1>3, <1>4, <1>8 DEF vars
  <1> QED
    BY <1>1, <1>2, <1>3, <1>5, <1>6, <1>7, <1>8 DEF Next

LEMMA ConflictConstant == [Next]_vars => conflict' = conflict
  BY DEF Next, vars, makeWorklist, simplify, unionNode, unionFails, freeze, selectSpill,
         selectSpillFails, colourRegisters, assignColor, assignDone

(* The allocator implements Allocation: a place once given is final, and   *)
(* no step gives two temporaries that interfere the same place.            *)
THEOREM Refinement == Spec => Implements
  <1>1. Init => A!Init
    BY GraphsAssumption DEF Init, A!Init, placeOf, GraphsAssumption, IsGraph
  <1>2. IInv /\ IInv' /\ [Next]_vars => A!Assign
    <2> SUFFICES ASSUME IInv, IInv', [Next]_vars PROVE A!Assign
      OBVIOUS
    <2>1. conflict' = conflict
      BY ConflictConstant
    <2>2. \A t \in Node :
            /\ ColorMap[t] # None => ColorMap'[t] = ColorMap[t]
            /\ SpilledTemp[t] # None => SpilledTemp'[t] = SpilledTemp[t]
      BY PlacesFinal
    <2>3. /\ ColorMap' \in [Node -> Colour \cup {None}]
          /\ SpilledTemp' \in [Node -> Node \cup {None}]
          /\ \A t \in Node : ColorMap'[t] = None \/ SpilledTemp'[t] = None
      BY DEF IInv, TypeOK, ResultInv
    <2>4. placeOf' \in [Node -> ({"register"} \X Colour) \cup ({"slot"} \X Node)
                                  \cup {<<"nowhere", None>>}]
      BY <2>3 DEF placeOf
    <2>5. \A t \in Node : placeOf[t] # <<"nowhere", None>> => placeOf'[t] = placeOf[t]
      BY <2>2, <2>3 DEF placeOf
    <2>6. \A s, t \in Node : t \in conflict[s] /\ placeOf'[s] # <<"nowhere", None>>
                               => placeOf'[s] # placeOf'[t]
      <3>1. \A s, t \in Node : t \in conflict[s] =>
              /\ ColorMap'[s] # None => ColorMap'[s] # ColorMap'[t]
              /\ SpilledTemp'[s] # None => SpilledTemp'[s] # SpilledTemp'[t]
        BY <2>1 DEF IInv, NoSharedPlace
      <3> QED
        BY <2>3, <3>1 DEF placeOf
    <2> QED
      BY <2>1, <2>4, <2>5, <2>6 DEF A!Assign
  <1> QED
    BY <1>1, <1>2, Invariance, PTL DEF Spec, Implements, A!Spec

-----------------------------------------------------------------------------
(* Worklists, hidden edges and spills. *)

(* An edge is visible or hidden, and all edges of a stacked node are hidden. *)
HiddenInv ==
  /\ \A n \in Node : adj[n] \cap hadj[n] = {}
  /\ pc \in {"make", "work"} => \A n \in Node : Stacked(n) => adj[n] = {}

(* Nothing was coalesced. *)
Plain == \A n \in Node : ~ Merged(n)

(* Then the edges are those of the interference graph, and a candidate for *)
(* spilling has as many neighbours left as there are registers.            *)
PlainInv ==
  Plain => /\ \A n \in Node : adj[n] \cup hadj[n] \subseteq conflict[n]
           /\ pc = "work" => \A n \in SpillWorklist : significant(adj, n)

(* What is not on the stack from position i on: the neighbours among these *)
(* have their registers when the node at position i gets its own.          *)
Left(i) == {m \in Node : \A j \in i..Len(SelectStack) : SelectStack[j] # m}

(* If simplification alone would empty the graph, it does: every node was  *)
(* put on the stack with a register to spare, and nothing is spilled.      *)
EasyInv ==
  Plain /\ Simplifiable =>
    /\ pc = "work" => \A n \in SimplifyWorklist \cup CombineWorklist \cup FreezeWorklist :
                        ~ significant(adj, n)
    /\ \A i \in 1..Len(SelectStack) :
         Cardinality(conflict[SelectStack[i]] \cap Left(i)) < REGNUM
    /\ \A t \in Node : SpilledTemp[t] = None

-----------------------------------------------------------------------------
(* What the steps do. *)

(* simplify hides the edges of a node that is not on the stack yet. *)
LEMMA SimplifyStep ==
  ASSUME IInv, NEW n \in Node, simplify(n)
  PROVE  /\ pc = "work" /\ n \in SimplifyWorklist /\ n \in Node \ Reg /\ ~ Stacked(n)
         /\ \A j, k \in Node : k \in adj'[j] <=>
              k \in adj[j] /\ ~ (j = n /\ k \in adj[n]) /\ ~ (k = n /\ j \in adj[n])
         /\ \A j, k \in Node : k \in hadj'[j] <=>
              \/ k \in hadj[j]
              \/ j = n /\ k \in adj[n] /\ k # n
              \/ k = n /\ j \in adj[n] /\ j # n
         /\ Len(SelectStack) \in Nat /\ Len(SelectStack') = Len(SelectStack) + 1
         /\ SelectStack'[1] = n
         /\ \A i \in 2..Len(SelectStack') :
              SelectStack'[i] = SelectStack[i - 1] /\ i - 1 \in 1..Len(SelectStack)
         /\ \A k \in Node : Stacked(k)' => Stacked(k) \/ k = n
         /\ UNCHANGED <<conflict, mvadj, temp, tempNode, ColorMap, SpilledTemp, pc>>
  <1>1. /\ pc = "work" /\ n \in SimplifyWorklist
        /\ adj' = Unlink(adj, n, adj[n]) /\ hadj' = Link(hadj, n, adj[n])
        /\ SelectStack' = <<n>> \o SelectStack
        /\ UNCHANGED <<conflict, mvadj, temp, tempNode, ColorMap, SpilledTemp, pc>>
    BY DEF simplify, names, result, IsFirst
  <1>2. /\ n \in Node \ Reg /\ ~ Stacked(n)
        /\ SelectStack \in Seq(Node \ Reg)
        /\ IsGraph(adj) /\ IsGraph(hadj) /\ adj[n] \in SUBSET Node
    BY <1>1 DEF IInv, TypeOK, ListsInv, Listed, IsGraph
  <1>3. /\ Len(SelectStack') = Len(SelectStack) + 1 /\ SelectStack'[1] = n
        /\ \A i \in 2..Len(SelectStack') :
             SelectStack'[i] = SelectStack[i - 1] /\ i - 1 \in 1..Len(SelectStack)
    BY <1>1, <1>2, PushStack
  <1>4. Len(SelectStack) \in Nat
    BY <1>2
  <1>5. \A k \in Node : Stacked(k)' => Stacked(k) \/ k = n
    BY <1>3, <1>4 DEF Stacked
  <1>6. \A j, k \in Node : k \in adj'[j] <=>
          k \in adj[j] /\ ~ (j = n /\ k \in adj[n]) /\ ~ (k = n /\ j \in adj[n])
    BY <1>1, <1>2, UnlinkGraph
  <1>7. \A j, k \in Node : k \in hadj'[j] <=>
          \/ k \in hadj[j]
          \/ j = n /\ k \in adj[n] /\ k # n
          \/ k = n /\ j \in adj[n] /\ j # n
    BY <1>1, <1>2, LinkGraph
  <1> QED
    BY <1>1, <1>2, <1>3, <1>4, <1>5, <1>6, <1>7

(* A coalescing step moves the edges of n, visible and hidden, to a node   *)
(* that is in the graph too.                                               *)
LEMMA UnionNodeStep ==
  ASSUME IInv, NEW n \in Node, unionNode(n)
  PROVE  \E u \in Node :
           /\ u # n /\ u \in mvadj[n] /\ ~ Stacked(u) /\ ~ Stacked(n) /\ ~ Merged(n)
           /\ \A j, k \in Node : k \in adj'[j] <=>
                /\ j # n /\ k # n /\ j # k
                /\ k \in adj[j] \/ (j = u /\ k \in adj[n]) \/ (k = u /\ j \in adj[n])
           /\ \A j, k \in Node : k \in hadj'[j] <=>
                /\ j # n /\ k # n /\ j # k
                /\ k \in hadj[j] \/ (j = u /\ k \in hadj[n]) \/ (k = u /\ j \in hadj[n])
           /\ tempNode'[n] = u
           /\ UNCHANGED <<conflict, SelectStack, pc>>
  <1>1. PICK u \in coalescable(n) : \E mv : combine(u, n, mv)
    BY DEF unionNode
  <1>2. /\ adj' = Redirect(adj, u, n) /\ hadj' = Redirect(hadj, u, n)
        /\ tempNode' = [t \in Node |-> IF t \in temp[n] THEN u ELSE tempNode[t]]
    BY <1>1 DEF combine
  <1>3. n \in CombineWorklist /\ UNCHANGED <<conflict, SelectStack, pc>>
    BY DEF unionNode, IsFirst
  <1>4. ~ Merged(n) /\ ~ Stacked(n) /\ IsGraph(adj) /\ IsGraph(hadj)
    BY <1>3 DEF IInv, TypeOK, ListsInv, Listed
  <1>5. u \in mvadj[n]
    BY DEF coalescable
  <1>6. u \in Node /\ u # n /\ ~ Stacked(u)
    BY <1>5, MovePartner
  <1>7. \A j, k \in Node : k \in adj'[j] <=>
          /\ j # n /\ k # n /\ j # k
          /\ k \in adj[j] \/ (j = u /\ k \in adj[n]) \/ (k = u /\ j \in adj[n])
    <2>1. adj' = Redirect(adj, u, n) /\ IsGraph(adj) /\ u \in Node /\ n \in Node /\ u # n
      BY <1>2, <1>4, <1>6
    <2> QED
      BY ONLY <2>1, RedirectGraph
  <1>8. \A j, k \in Node : k \in hadj'[j] <=>
          /\ j # n /\ k # n /\ j # k
          /\ k \in hadj[j] \/ (j = u /\ k \in hadj[n]) \/ (k = u /\ j \in hadj[n])
    <2>1. hadj' = Redirect(hadj, u, n) /\ IsGraph(hadj) /\ u \in Node /\ n \in Node /\ u # n
      BY <1>2, <1>4, <1>6
    <2> QED
      BY ONLY <2>1, RedirectGraph
  <1>9. tempNode'[n] = u
    <2>1. n \in temp[n]
      BY <1>4 DEF IInv, NamesInv, Merged
    <2> QED
      BY <1>2, <2>1
  <1> QED
    BY <1>3, <1>4, <1>5, <1>6, <1>7, <1>8, <1>9

(* assignColor puts the edges of the top of the stack back. *)
LEMMA AssignStep ==
  ASSUME IInv, NEW n \in Node, assignColor(n)
  PROVE  /\ pc = "assign" /\ n = SelectStack[1]
         /\ \A j, k \in Node : k \in adj'[j] <=>
              \/ k \in adj[j]
              \/ j = n /\ k \in hadj[n] /\ k # n
              \/ k = n /\ j \in hadj[n] /\ j # n
         /\ \A j, k \in Node : k \in hadj'[j] <=>
              k \in hadj[j] /\ ~ (j = n /\ k \in hadj[n]) /\ ~ (k = n /\ j \in hadj[n])
         /\ Len(SelectStack) \in Nat /\ Len(SelectStack) >= 1
         /\ Len(SelectStack') = Len(SelectStack) - 1
         /\ \A i \in 1..Len(SelectStack') :
              SelectStack'[i] = SelectStack[i + 1] /\ i + 1 \in 1..Len(SelectStack)
         /\ UNCHANGED <<conflict, mvadj, tempNode, pc>>
  <1>1. /\ pc = "assign" /\ SelectStack # << >> /\ n = Head(SelectStack)
        /\ SelectStack' = Tail(SelectStack)
        /\ adj' = Link(adj, n, hadj[n]) /\ hadj' = Unlink(hadj, n, hadj[n])
        /\ UNCHANGED <<conflict, mvadj, tempNode, pc>>
    BY DEF assignColor, names
  <1>2. /\ SelectStack \in Seq(Node \ Reg)
        /\ IsGraph(adj) /\ IsGraph(hadj) /\ hadj[n] \in SUBSET Node
    BY DEF IInv, TypeOK, IsGraph
  <1>3. /\ n = SelectStack[1] /\ Len(SelectStack) \in Nat /\ Len(SelectStack) >= 1
        /\ Len(SelectStack') = Len(SelectStack) - 1
        /\ \A i \in 1..Len(SelectStack') :
             SelectStack'[i] = SelectStack[i + 1] /\ i + 1 \in 1..Len(SelectStack)
    BY <1>1, <1>2, PopStack
  <1>4. \A j, k \in Node : k \in adj'[j] <=>
          \/ k \in adj[j]
          \/ j = n /\ k \in hadj[n] /\ k # n
          \/ k = n /\ j \in hadj[n] /\ j # n
    BY <1>1, <1>2, LinkGraph
  <1>5. \A j, k \in Node : k \in hadj'[j] <=>
          k \in hadj[j] /\ ~ (j = n /\ k \in hadj[n]) /\ ~ (k = n /\ j \in hadj[n])
    BY <1>1, <1>2, UnlinkGraph
  <1> QED
    BY <1>1, <1>3, <1>4, <1>5

(* The other steps leave the edges and the stack alone. *)
OtherStep ==
  \/ makeWorklist \/ selectSpillFails \/ colourRegisters \/ assignDone
  \/ \E n \in Node : unionFails(n) \/ freeze(n) \/ selectSpill(n)
  \/ UNCHANGED vars

LEMMA OtherStepKeeps ==
  ASSUME OtherStep
  PROVE  /\ UNCHANGED <<conflict, adj, hadj, temp, tempNode, SelectStack, SpilledTemp>>
         /\ pc' \in {"make", "work"} => pc \in {"make", "work"}
  <1>1. CASE makeWorklist \/ selectSpillFails \/ colourRegisters \/ assignDone
    BY <1>1 DEF makeWorklist, selectSpillFails, colourRegisters, assignDone, graph, names,
                result
  <1>2. ASSUME NEW n \in Node, unionFails(n) \/ freeze(n) \/ selectSpill(n)
        PROVE  UNCHANGED <<conflict, adj, hadj, temp, tempNode, SelectStack, SpilledTemp, pc>>
    BY <1>2 DEF unionFails, freeze, selectSpill, names, result
  <1>3. CASE UNCHANGED vars
    BY <1>3 DEF vars, graph, names, result
  <1> QED
    BY <1>1, <1>2, <1>3 DEF OtherStep

LEMMA StepCases ==
  ASSUME [Next]_vars
  PROVE  \/ OtherStep
         \/ \E n \in Node : simplify(n) \/ unionNode(n) \/ assignColor(n)
  BY DEF Next, OtherStep

-----------------------------------------------------------------------------
(* Hidden edges. *)

LEMMA InitHidden == Init => HiddenInv
  BY DEF Init, HiddenInv, Clear, Stacked

LEMMA NextHidden == ASSUME IInv, HiddenInv, [Next]_vars PROVE HiddenInv'
  <1>1. CASE OtherStep
    BY <1>1, OtherStepKeeps DEF HiddenInv, Stacked
  <1>2. /\ \A k \in Node : adj[k] \subseteq Node /\ hadj[k] \subseteq Node
        /\ \A k \in Node : adj'[k] \subseteq Node /\ hadj'[k] \subseteq Node
        /\ \A j, k \in Node : k \in adj[j] => j \in adj[k]
    BY NextIInv DEF IInv, TypeOK, IsGraph
  <1>3. ASSUME NEW n \in Node, simplify(n) PROVE HiddenInv'
    <2>1. \A j, k \in Node : k \in adj'[j] => k \notin hadj'[j]
      BY <1>3, SimplifyStep DEF HiddenInv
    <2>2. \A k \in Node : Stacked(k)' => adj'[k] = {}
      BY <1>2, <1>3, SimplifyStep DEF HiddenInv
    <2> QED
      BY <1>2, <2>1, <2>2 DEF HiddenInv
  <1>4. ASSUME NEW n \in Node, unionNode(n) PROVE HiddenInv'
    <2>1. PICK u \in Node :
           /\ u # n /\ u \in mvadj[n] /\ ~ Stacked(u) /\ ~ Stacked(n) /\ ~ Merged(n)
           /\ \A j, k \in Node : k \in adj'[j] <=>
                /\ j # n /\ k # n /\ j # k
                /\ k \in adj[j] \/ (j = u /\ k \in adj[n]) \/ (k = u /\ j \in adj[n])
           /\ \A j, k \in Node : k \in hadj'[j] <=>
                /\ j # n /\ k # n /\ j # k
                /\ k \in hadj[j] \/ (j = u /\ k \in hadj[n]) \/ (k = u /\ j \in hadj[n])
           /\ UNCHANGED <<conflict, SelectStack, pc>>
      BY <1>4, UnionNodeStep
    <2>2. /\ pc = "work"
          /\ \A k \in Node : Stacked(k)' <=> Stacked(k)
      BY <1>4, <2>1 DEF unionNode, Stacked
    <2>3. \A k \in Node : Stacked(k) => adj[k] = {}
      BY <2>2 DEF HiddenInv
    <2>4. \A j, k \in Node : k \in hadj[j] => Stacked(j) \/ Stacked(k)
      BY <2>2 DEF IInv, StackInv
    <2>5. \A j, k \in Node : k \in adj'[j] => k \notin hadj'[j]
      BY <1>2, <2>1, <2>3, <2>4 DEF HiddenInv
    <2>6. \A k \in Node : Stacked(k)' => adj'[k] = {}
      BY <1>2, <2>1, <2>2, <2>3
    <2> QED
      BY <1>2, <2>5, <2>6 DEF HiddenInv
  <1>5. ASSUME NEW n \in Node, assignColor(n) PROVE HiddenInv'
    <2>1. \A j, k \in Node : k \in adj'[j] => k \notin hadj'[j]
      BY <1>5, AssignStep DEF HiddenInv
    <2>2. pc' = "assign"
      BY <1>5, AssignStep
    <2> QED
      BY <1>2, <2>1, <2>2 DEF HiddenInv
  <1> QED
    BY <1>1, <1>3, <1>4, <1>5, StepCases

LEMMA Hidden == Spec => []HiddenInv
  <1>1. Init => HiddenInv
    BY InitHidden
  <1>2. IInv /\ HiddenInv /\ [Next]_vars => HiddenInv'
    BY NextHidden
  <1> QED
    BY <1>1, <1>2, Invariance, PTL DEF Spec

(* addEdge and addEdge_h never find the edge they add visible and hidden   *)
(* at once, and two temporaries that interfere stay on nodes joined by an  *)
(* edge, whatever combine, p2hEdge and h2pEdge do.                         *)
THEOREM InterferenceKept == Spec => []EdgesKept
  <1>1. IInv /\ HiddenInv => EdgesKept
    BY DEF IInv, EdgesInv, HiddenInv, EdgesKept
  <1> QED
    BY <1>1, Invariance, Hidden, PTL

(* changeWorklist finds every node it is called for on one worklist, and   *)
(* simplify finds no moves left: their assertions hold.                    *)
THEOREM Partition == Spec => []WorklistsPartition
  <1>1. IInv => WorklistsPartition
    <2> SUFFICES ASSUME IInv, pc = "work"
                 PROVE  WorklistsPartition
      BY DEF WorklistsPartition
    <2>1. \A n \in SimplifyWorklist : mvadj[n] = {}
      BY DEF IInv, ListsInv
    <2>2. ASSUME NEW n \in Node \ Reg
          PROVE  LET on == {l \in 1..4 : n \in lists[l]}
                 IN  Cardinality(on) = IF Merged(n) \/ Stacked(n) THEN 0 ELSE 1
      <3> DEFINE on == {l \in 1..4 : n \in lists[l]}
      <3>1. /\ 1 \in on <=> n \in SimplifyWorklist
            /\ 2 \in on <=> n \in CombineWorklist
            /\ 3 \in on <=> n \in FreezeWorklist
            /\ 4 \in on <=> n \in SpillWorklist
            /\ on \subseteq {1, 2, 3, 4}
        BY DEF lists
      <3>2. Disjoint(SimplifyWorklist, CombineWorklist, FreezeWorklist, SpillWorklist)
        BY DEF IInv, ListsInv
      <3> HIDE DEF on
      <3>3. CASE Merged(n) \/ Stacked(n)
        <4>1. n \notin Listed
          BY <3>3 DEF IInv, ListsInv
        <4>2. on = {}
          BY <3>1, <4>1 DEF Listed
        <4> QED
          BY <3>3, <4>2, FS_EmptySet DEF on
      <3>4. CASE ~ (Merged(n) \/ Stacked(n))
        <4>1. n \in Listed
          BY <3>4 DEF IInv, ProgressInv
        <4>2. on = {1} \/ on = {2} \/ on = {3} \/ on = {4}
          BY <3>1, <3>2, <4>1 DEF Listed, Disjoint
        <4>3. Cardinality(on) = 1
          BY <4>2, FS_Singleton
        <4> QED
          BY <3>4, <4>3 DEF on
      <3> QED
        BY <3>3, <3>4
    <2> QED
      BY <2>1, <2>2 DEF WorklistsPartition
  <1> QED
    BY <1>1, Invariance, PTL

-----------------------------------------------------------------------------
(* Graphs nothing was coalesced in. *)

(* Filing nodes again leaves those with few neighbours off the spill list  *)
(* and those with many on it, as long as the others were filed right.      *)
LEMMA ChangeDegrees ==
  ASSUME NEW M, NEW a, NEW mv, NEW s, NEW c, NEW f, NEW p, p \cap Reg = {},
         changeWorklist(M, a, mv, s, c, f, p)
  PROVE  /\ \A k \in SpillWorklist' : significant(a, k) \/ (k \in p /\ k \notin M)
         /\ \A k \in (SimplifyWorklist \cup CombineWorklist \cup FreezeWorklist)' :
              ~ significant(a, k) \/ (k \in s \cup c \cup f /\ k \notin M \ Reg)
  <1> DEFINE high   == {k \in M \ Reg : significant(a, k)}
             still  == {k \in (M \ Reg) \ high : mv[k] = {}}
             moving == ((M \ Reg) \ high) \ still
  <1>1. /\ SimplifyWorklist' = (s \ high) \cup (still \cap (c \cup f \cup p))
        /\ CombineWorklist' = (c \ (high \cup still)) \cup (moving \cap p)
        /\ FreezeWorklist' = f \ (high \cup still)
        /\ SpillWorklist' = (p \ (still \cup moving)) \cup (high \cap (s \cup c \cup f))
    BY DEF changeWorklist
  <1>2. /\ \A k \in M \ Reg : significant(a, k) => k \in high
        /\ \A k \in M \ Reg : ~ significant(a, k) => k \in still \cup moving
        /\ \A k \in high : significant(a, k)
        /\ \A k \in still \cup moving : ~ significant(a, k)
    OBVIOUS
  <1> HIDE DEF high, still, moving
  <1> QED
    BY <1>1, <1>2

(* A set of nodes is finite, and no larger than one it is part of. *)
LEMMA NodesFinite ==
  ASSUME NEW T \in SUBSET Node, NEW U \in SUBSET T
  PROVE  /\ Cardinality(T) \in Nat /\ Cardinality(U) \in Nat
         /\ Cardinality(U) <= Cardinality(T)
  <1>1. IsFiniteSet(Node)
    BY ConstantsAssumption DEF ConstantsAssumption
  <1>2. IsFiniteSet(T)
    BY <1>1, FS_Subset
  <1>3. IsFiniteSet(U) /\ Cardinality(U) <= Cardinality(T)
    BY <1>2, FS_Subset
  <1> QED
    BY <1>2, <1>3, FS_CardinalityType

LEMMA RegisterCount == IsFiniteSet(Colour) /\ REGNUM \in Nat
  BY ConstantsAssumption, FS_CardinalityType DEF ConstantsAssumption, REGNUM

(* The steps that only file nodes, with few moves or after giving some up. *)
FileStep(n) ==
  /\ pc = "work" /\ adj' = adj /\ pc' = pc
  /\ \E M, mv, s, c, f, p :
       /\ changeWorklist(M, adj, mv, s, c, f, p)
       /\ p \subseteq SpillWorklist
       /\ \/ s \cup c \cup f \subseteq SimplifyWorklist \cup CombineWorklist \cup FreezeWorklist
          \/ selectSpill(n)

LEMMA FileSteps ==
  ASSUME NEW n \in Node, unionFails(n) \/ freeze(n) \/ selectSpill(n)
  PROVE  FileStep(n)
  <1>1. CASE unionFails(n)
    <2>1. n \in CombineWorklist
      BY <1>1 DEF unionFails, IsFirst
    <2>2. changeWorklist(constrained(n), adj, mvadj', SimplifyWorklist,
            CombineWorklist \ {n}, FreezeWorklist \cup {n}, SpillWorklist)
      BY <1>1 DEF unionFails
    <2>3. SimplifyWorklist \cup (CombineWorklist \ {n}) \cup (FreezeWorklist \cup {n})
            \subseteq SimplifyWorklist \cup CombineWorklist \cup FreezeWorklist
      BY <2>1
    <2>4. pc = "work" /\ adj' = adj /\ pc' = pc
      BY <1>1 DEF unionFails
    <2> QED
      BY <2>2, <2>3, <2>4 DEF FileStep
  <1>2. CASE freeze(n)
    <2>1. n \in FreezeWorklist
      BY <1>2 DEF freeze, IsFirst
    <2>2. changeWorklist(mvadj[n], adj, mvadj', {n}, {}, FreezeWorklist \ {n}, SpillWorklist)
      BY <1>2 DEF freeze
    <2>3. {n} \cup {} \cup (FreezeWorklist \ {n})
            \subseteq SimplifyWorklist \cup CombineWorklist \cup FreezeWorklist
      BY <2>1
    <2>4. pc = "work" /\ adj' = adj /\ pc' = pc
      BY <1>2 DEF freeze
    <2> QED
      BY <2>2, <2>3, <2>4 DEF FileStep
  <1>3. CASE selectSpill(n)
    <2>1. changeWorklist(mvadj[n], adj, mvadj', {n}, {}, {}, SpillWorklist \ {n})
      BY <1>3 DEF selectSpill
    <2>2. SpillWorklist \ {n} \subseteq SpillWorklist
      OBVIOUS
    <2>3. pc = "work" /\ adj' = adj /\ pc' = pc
      BY <1>3 DEF selectSpill, OnlySpillsLeft
    <2> QED
      BY <1>3, <2>1, <2>2, <2>3 DEF FileStep
  <1> QED
    BY <1>1, <1>2, <1>3

LEMMA FileDegrees ==
  ASSUME IInv, NEW n \in Node, FileStep(n)
  PROVE  /\ \A k \in SpillWorklist' : significant(adj, k) \/ k \in SpillWorklist
         /\ ~ selectSpill(n) =>
              \A k \in (SimplifyWorklist \cup CombineWorklist \cup FreezeWorklist)' :
                \/ ~ significant(adj, k)
                \/ k \in SimplifyWorklist \cup CombineWorklist \cup FreezeWorklist
  <1>1. PICK M, mv, s, c, f, p :
          /\ changeWorklist(M, adj, mv, s, c, f, p)
          /\ p \subseteq SpillWorklist
          /\ \/ s \cup c \cup f \subseteq SimplifyWorklist \cup CombineWorklist \cup FreezeWorklist
             \/ selectSpill(n)
    BY DEF FileStep
  <1>2. p \cap Reg = {}
    BY <1>1 DEF IInv, TypeOK
  <1>3. /\ \A k \in SpillWorklist' : significant(adj, k) \/ (k \in p /\ k \notin M)
        /\ \A k \in (SimplifyWorklist \cup CombineWorklist \cup FreezeWorklist)' :
             ~ significant(adj, k) \/ (k \in s \cup c \cup f /\ k \notin M \ Reg)
    BY <1>1, <1>2, ChangeDegrees
  <1> QED
    BY <1>1, <1>3

(* What simplify files is filed by the degree it has then. *)
LEMMA SimplifyDegrees ==
  ASSUME IInv, NEW n \in Node, simplify(n)
  PROVE  /\ \A k \in SpillWorklist' :
              significant(adj', k) \/ (k \in SpillWorklist /\ adj'[k] = adj[k])
         /\ \A k \in (SimplifyWorklist \cup CombineWorklist \cup FreezeWorklist)' :
              \/ ~ significant(adj', k)
              \/ /\ k \in SimplifyWorklist \cup CombineWorklist \cup FreezeWorklist
                 /\ adj'[k] = adj[k]
  <1>1. changeWorklist(adj[n], adj', mvadj, SimplifyWorklist \ {n},
                       CombineWorklist, FreezeWorklist, SpillWorklist)
    BY DEF simplify
  <1>2. SpillWorklist \cap Reg = {} /\ Listed \subseteq Node \ Reg
    BY DEF IInv, TypeOK, Listed
  <1>3. /\ \A k \in SpillWorklist' :
             significant(adj', k) \/ (k \in SpillWorklist /\ k \notin adj[n])
        /\ \A k \in (SimplifyWorklist \cup CombineWorklist \cup FreezeWorklist)' :
             \/ ~ significant(adj', k)
             \/ /\ k \in (SimplifyWorklist \ {n}) \cup CombineWorklist \cup FreezeWorklist
                /\ k \notin adj[n] \ Reg
    BY ONLY <1>1, <1>2, ChangeDegrees
  <1>4. \A k \in Node : k # n /\ k \notin adj[n] => adj'[k] = adj[k]
    BY DEF simplify, Unlink
  <1>5. n \notin CombineWorklist \cup FreezeWorklist \cup SpillWorklist
    BY SimplifyStep DEF IInv, ListsInv, Disjoint
  <1> QED
    BY <1>2, <1>3, <1>4, <1>5 DEF Listed

(* Nodes that are merged stay merged: what is plain after a step was plain *)
(* before it, and nothing was coalesced by it.                             *)
LEMMA PlainBefore ==
  ASSUME IInv, [Next]_vars, Plain'
  PROVE  /\ Plain
         /\ UNCHANGED <<conflict, tempNode>>
         /\ \/ OtherStep
            \/ \E n \in Node : simplify(n) \/ assignColor(n)
  <1>1. CASE OtherStep
    BY <1>1, OtherStepKeeps DEF Plain, Merged
  <1>2. ASSUME NEW n \in Node, simplify(n) PROVE Plain /\ UNCHANGED <<conflict, tempNode>>
    BY <1>2, SimplifyStep DEF Plain, Merged
  <1>3. ASSUME NEW n \in Node, assignColor(n) PROVE Plain /\ UNCHANGED <<conflict, tempNode>>
    BY <1>3, AssignStep DEF Plain, Merged
  <1>4. ASSUME NEW n \in Node PROVE ~ unionNode(n)
    <2> SUFFICES ASSUME unionNode(n) PROVE FALSE
      OBVIOUS
    <2>1. \E u \in Node : u # n /\ tempNode'[n] = u
      BY UnionNodeStep
    <2> QED
      BY <2>1 DEF Plain, Merged
  <1> QED
    BY <1>1, <1>2, <1>3, <1>4, StepCases

LEMMA InitPlain == Init => PlainInv
  <1> SUFFICES ASSUME Init PROVE PlainInv
    OBVIOUS
  <1> QED
    BY DEF Init, PlainInv, Clear

LEMMA NextPlain == ASSUME IInv, PlainInv, [Next]_vars PROVE PlainInv'
  <1> SUFFICES ASSUME Plain'
               PROVE  /\ \A n \in Node : adj'[n] \cup hadj'[n] \subseteq conflict'[n]
                      /\ pc' = "work" => \A n \in SpillWorklist' : significant(adj', n)
    BY DEF PlainInv, significant
  <1>1. /\ conflict' = conflict
        /\ \A n \in Node : adj[n] \cup hadj[n] \subseteq conflict[n]
        /\ pc = "work" => \A n \in SpillWorklist : significant(adj, n)
    BY PlainBefore DEF PlainInv
  <1>2. /\ \A k \in Node : adj'[k] \subseteq Node /\ hadj'[k] \subseteq Node
        /\ \A j, k \in Node : k \in adj[j] => j \in adj[k]
        /\ \A j, k \in Node : k \in hadj[j] => j \in hadj[k]
        /\ Listed' \subseteq Node
    BY NextIInv DEF IInv, TypeOK, IsGraph, Listed
  <1>3. CASE OtherStep
    <2>1. \A n \in Node : adj'[n] \cup hadj'[n] \subseteq conflict'[n]
      BY <1>1, <1>3, OtherStepKeeps
    <2>2. CASE makeWorklist
      BY <2>1, <2>2 DEF makeWorklist, graph, significant
    <2>3. ASSUME NEW n \in Node, unionFails(n) \/ freeze(n) \/ selectSpill(n)
          PROVE  \A k \in SpillWorklist' : significant(adj', k)
      <3>1. FileStep(n)
        BY <2>3, FileSteps
      <3>2. pc = "work" /\ adj' = adj
        BY <3>1 DEF FileStep
      <3> QED
        BY <1>1, <3>1, <3>2, FileDegrees
    <2>4. CASE selectSpillFails \/ colourRegisters \/ assignDone
      <3>1. pc' # "work"
        BY <2>4 DEF selectSpillFails, colourRegisters, assignDone
      <3> QED
        BY <2>1, <3>1
    <2>5. CASE UNCHANGED vars
      BY <1>1, <2>1, <2>5 DEF vars, graph, lists
    <2> QED
      BY <1>3, <2>1, <2>2, <2>3, <2>4, <2>5 DEF OtherStep
  <1>4. ASSUME NEW n \in Node, simplify(n)
        PROVE  /\ \A k \in Node : adj'[k] \cup hadj'[k] \subseteq conflict'[k]
               /\ pc' = "work" => \A k \in SpillWorklist' : significant(adj', k)
    <2>1. \A j, k \in Node : k \in adj'[j] \/ k \in hadj'[j] => k \in adj[j] \cup hadj[j]
      BY <1>2, <1>4, SimplifyStep
    <2>2. \A k \in SpillWorklist' :
            significant(adj', k) \/ (k \in SpillWorklist /\ adj'[k] = adj[k])
      BY <1>4, SimplifyDegrees
    <2>3. pc = "work"
      BY <1>4, SimplifyStep
    <2> QED
      BY <1>1, <1>2, <2>1, <2>2, <2>3 DEF significant, degree
  <1>5. ASSUME NEW n \in Node, assignColor(n)
        PROVE  /\ \A k \in Node : adj'[k] \cup hadj'[k] \subseteq conflict'[k]
               /\ pc' # "work"
    <2>1. \A j, k \in Node : k \in adj'[j] \/ k \in hadj'[j] => k \in adj[j] \cup hadj[j]
      BY <1>2, <1>5, AssignStep
    <2>2. pc' = "assign"
      BY <1>5, AssignStep
    <2> QED
      BY <1>1, <1>2, <2>1, <2>2
  <1> QED
    BY <1>3, <1>4, <1>5, PlainBefore

LEMMA PlainGraph == Spec => []PlainInv
  <1>1. Init => PlainInv
    BY InitPlain
  <1>2. IInv /\ PlainInv /\ [Next]_vars => PlainInv'
    BY NextPlain
  <1> QED
    BY <1>1, <1>2, Invariance, PTL DEF Spec

-----------------------------------------------------------------------------
(* Graphs that simplification alone would empty. *)

(* What is visible of a node's edges in a graph nothing was coalesced in.  *)
LEMMA PlainEdges ==
  ASSUME IInv, HiddenInv, PlainInv, Plain, pc = "work"
  PROVE  \A x, y \in Node : ~ Stacked(x) =>
           (y \in adj[x] <=> y \in conflict[x] /\ ~ Stacked(y))
  <1>1. \A x \in Node : tempNode[x] = x
    BY DEF Plain, Merged
  <1>2. \A x, y \in Node : y \in conflict[x] => y \in adj[x] \cup hadj[x]
    BY <1>1 DEF IInv, EdgesInv
  <1>3. \A x, y \in Node : y \in hadj[x] => Stacked(x) \/ Stacked(y)
    BY DEF IInv, StackInv
  <1>4. \A x, y \in Node : y \in adj[x] => y \in conflict[x] /\ ~ Stacked(y)
    <2>1. \A x, y \in Node : y \in adj[x] => x \in adj[y]
      BY DEF IInv, TypeOK, IsGraph
    <2> QED
      BY <2>1 DEF HiddenInv, PlainInv
  <1> QED
    BY <1>2, <1>3, <1>4

(* With only candidates for spilling left, one of them has few neighbours  *)
(* left, against PlainInv: simplification would have gone on.              *)
LEMMA NoCandidates ==
  ASSUME IInv, HiddenInv, PlainInv, Plain, Simplifiable, OnlySpillsLeft
  PROVE  FALSE
  <1>1. /\ pc = "work" /\ SpillWorklist # {} /\ Listed = SpillWorklist
        /\ SpillWorklist \subseteq Node \ Reg
    BY DEF OnlySpillsLeft, Listed, IInv, TypeOK
  <1>2. PICK n \in SpillWorklist :
          Cardinality(conflict[n] \cap (SpillWorklist \cup Reg)) < REGNUM
    BY <1>1 DEF Simplifiable
  <1>3. n \in Node /\ ~ Stacked(n)
    BY <1>1 DEF IInv, ListsInv
  <1>4. \A y \in Node : ~ Stacked(y) => y \in SpillWorklist \cup Reg
    BY <1>1 DEF IInv, ProgressInv, Plain
  <1>5. adj[n] \subseteq Node /\ conflict[n] \subseteq Node
    BY <1>3 DEF IInv, TypeOK, IsGraph
  <1>6. adj[n] \in SUBSET (conflict[n] \cap (SpillWorklist \cup Reg))
    BY <1>1, <1>3, <1>4, <1>5, PlainEdges
  <1>7. /\ Cardinality(adj[n]) <= Cardinality(conflict[n] \cap (SpillWorklist \cup Reg))
        /\ Cardinality(adj[n]) \in Nat
        /\ Cardinality(conflict[n] \cap (SpillWorklist \cup Reg)) \in Nat
    BY <1>5, <1>6, NodesFinite
  <1>8. Cardinality(adj[n]) >= REGNUM
    BY <1>1, <1>2 DEF PlainInv, significant, degree
  <1> QED
    BY <1>2, <1>7, <1>8, RegisterCount

(* A node with a register to spare gets one. *)
LEMMA RegisterLeft ==
  ASSUME IInv, NEW n \in Node, n = SelectStack[1], Len(SelectStack) \in Nat,
         Len(SelectStack) >= 1,
         Cardinality(conflict[n] \cap Left(1)) < REGNUM,
         NEW a, a[n] \in SUBSET conflict[n]
  PROVE  okcolor(a, n) # {}
  <1> SUFFICES ASSUME okcolor(a, n) = {} PROVE FALSE
    OBVIOUS
  <1> DEFINE F == conflict[n] \cap Left(1)
             G == {m \in F : ColorMap[m] \in Colour}
             f == [m \in G |-> ColorMap[m]]
  <1>1. conflict[n] \subseteq Node /\ None \notin Colour
    BY ConstantsAssumption DEF IInv, TypeOK, IsGraph, ConstantsAssumption
  <1>2. \A m \in Node : ColorMap[m] # None => m \in Left(1)
    BY DEF IInv, ResultInv, Left, Stacked
  <1>3. \A c \in Colour : \E m \in G : ColorMap[m] = c
    <2> SUFFICES ASSUME NEW c \in Colour PROVE \E m \in G : ColorMap[m] = c
      OBVIOUS
    <2>1. PICK m \in a[n] : ColorMap[m] = c
      BY DEF okcolor
    <2> QED
      BY <1>1, <1>2, <2>1
  <1>4. f \in Surjection(G, Colour)
    BY <1>3 DEF Surjection
  <1>5. F \in SUBSET Node /\ G \in SUBSET F
    BY <1>1
  <1>6. /\ Cardinality(F) \in Nat /\ Cardinality(G) \in Nat
        /\ Cardinality(G) <= Cardinality(F)
    BY <1>5, NodesFinite
  <1>7. IsFiniteSet(G)
    <2>1. IsFiniteSet(Node)
      BY ConstantsAssumption DEF ConstantsAssumption
    <2>2. G \in SUBSET Node
      BY <1>5
    <2> QED
      BY <2>1, <2>2, FS_Subset
  <1> HIDE DEF f, G, F
  <1>8. Cardinality(Colour) <= Cardinality(G)
    BY <1>4, <1>7, FS_Surjection
  <1>9. Cardinality(F) < Cardinality(Colour)
    BY DEF F, REGNUM
  <1>10. Cardinality(Colour) \in Nat
    BY RegisterCount DEF REGNUM
  <1> QED
    BY <1>6, <1>8, <1>9, <1>10


(* The parts of EasyInv. *)
LowLists ==
  \A n \in SimplifyWorklist \cup CombineWorklist \cup FreezeWorklist : ~ significant(adj, n)

LowStack ==
  \A i \in 1..Len(SelectStack) : Cardinality(conflict[SelectStack[i]] \cap Left(i)) < REGNUM

NothingSpilled == \A t \in Node : SpilledTemp[t] = None

LEMMA InitEasy == Init => EasyInv
  <1> SUFFICES ASSUME Init PROVE EasyInv
    OBVIOUS
  <1> QED
    BY DEF Init, EasyInv

LEMMA SimplifyEasy ==
  ASSUME IInv, HiddenInv, PlainInv, Plain, LowLists, LowStack, NothingSpilled,
         NEW n \in Node, simplify(n)
  PROVE  LowLists' /\ LowStack' /\ NothingSpilled'
  <1>1. /\ pc = "work" /\ n \in SimplifyWorklist /\ ~ Stacked(n)
        /\ Len(SelectStack) \in Nat /\ Len(SelectStack') = Len(SelectStack) + 1
        /\ SelectStack'[1] = n
        /\ \A i \in 2..Len(SelectStack') :
             SelectStack'[i] = SelectStack[i - 1] /\ i - 1 \in 1..Len(SelectStack)
        /\ conflict' = conflict /\ SpilledTemp' = SpilledTemp
    BY SimplifyStep
  <1>2. LowLists'
    BY SimplifyDegrees DEF LowLists, significant, degree
  <1>3. conflict[n] \subseteq Node
    BY DEF IInv, TypeOK, IsGraph
  <1>4. Left(1)' \subseteq {m \in Node : ~ Stacked(m) /\ m # n}
    <2> SUFFICES ASSUME NEW m \in Node, \A j \in 1..Len(SelectStack') : SelectStack'[j] # m
                 PROVE  ~ Stacked(m) /\ m # n
      BY DEF Left
    <2>1. m # n
      BY <1>1
    <2>2. ASSUME NEW i \in 1..Len(SelectStack), SelectStack[i] = m
          PROVE  FALSE
      <3>1. i + 1 \in 2..Len(SelectStack') /\ (i + 1) - 1 = i
        BY <1>1
      <3>2. SelectStack'[i + 1] = SelectStack[(i + 1) - 1]
        BY <1>1, <3>1
      <3> QED
        BY <2>2, <3>1, <3>2
    <2> QED
      BY <2>1, <2>2 DEF Stacked
  <1>5. Cardinality(conflict[n] \cap Left(1)') < REGNUM
    <2>1. conflict[n] \cap Left(1)' \in SUBSET adj[n]
      BY <1>1, <1>3, <1>4, PlainEdges
    <2>2. adj[n] \in SUBSET Node
      BY DEF IInv, TypeOK, IsGraph
    <2>3. /\ Cardinality(adj[n]) \in Nat /\ Cardinality(conflict[n] \cap Left(1)') \in Nat
          /\ Cardinality(conflict[n] \cap Left(1)') <= Cardinality(adj[n])
      BY <2>1, <2>2, NodesFinite
    <2>4. ~ (Cardinality(adj[n]) >= REGNUM)
      BY <1>1 DEF LowLists, significant, degree
    <2> QED
      BY <2>3, <2>4, RegisterCount
  <1>6. ASSUME NEW i \in 2..Len(SelectStack')
        PROVE  Cardinality(conflict[SelectStack'[i]] \cap Left(i)') < REGNUM
    <2>1. i - 1 \in 1..Len(SelectStack) /\ SelectStack'[i] = SelectStack[i - 1]
      BY <1>1
    <2>2. Left(i)' = Left(i - 1)
      <3>1. ASSUME NEW m \in Node, NEW j \in i..Len(SelectStack'), SelectStack'[j] = m
            PROVE  \E k \in (i - 1)..Len(SelectStack) : SelectStack[k] = m
        <4>1. j \in 2..Len(SelectStack') /\ j - 1 \in (i - 1)..Len(SelectStack)
          BY <1>1
        <4> QED
          BY <1>1, <3>1, <4>1
      <3>2. ASSUME NEW m \in Node, NEW k \in (i - 1)..Len(SelectStack), SelectStack[k] = m
            PROVE  \E j \in i..Len(SelectStack') : SelectStack'[j] = m
        <4>1. k + 1 \in i..Len(SelectStack') /\ k + 1 \in 2..Len(SelectStack') /\ (k + 1) - 1 = k
          BY <1>1
        <4>2. SelectStack'[k + 1] = SelectStack[(k + 1) - 1]
          BY <1>1, <4>1
        <4> QED
          BY <3>2, <4>1, <4>2
      <3> QED
        BY <3>1, <3>2 DEF Left
    <2> QED
      BY <2>1, <2>2 DEF LowStack
  <1>7. LowStack'
    <2> SUFFICES ASSUME NEW i \in 1..Len(SelectStack')
                 PROVE  Cardinality(conflict'[SelectStack'[i]] \cap Left(i)') < REGNUM
      BY DEF LowStack, REGNUM
    <2>1. CASE i = 1
      BY <1>1, <1>5, <2>1
    <2>2. CASE i # 1
      BY <1>1, <1>6, <2>2
    <2> QED
      BY <2>1, <2>2
  <1> QED
    BY <1>1, <1>2, <1>7 DEF NothingSpilled

LEMMA AssignEasy ==
  ASSUME IInv, HiddenInv, PlainInv, PlainInv', Plain, LowStack, NothingSpilled,
         NEW n \in Node, assignColor(n)
  PROVE  LowStack' /\ NothingSpilled'
  <1>1. /\ n = SelectStack[1] /\ Len(SelectStack) \in Nat /\ Len(SelectStack) >= 1
        /\ Len(SelectStack') = Len(SelectStack) - 1
        /\ \A i \in 1..Len(SelectStack') :
             SelectStack'[i] = SelectStack[i + 1] /\ i + 1 \in 1..Len(SelectStack)
        /\ conflict' = conflict /\ tempNode' = tempNode
    BY AssignStep
  <1>2. adj'[n] \in SUBSET conflict[n]
    BY <1>1 DEF PlainInv, Plain, Merged
  <1>3. Cardinality(conflict[n] \cap Left(1)) < REGNUM
    <2>1. 1 \in 1..Len(SelectStack)
      BY <1>1
    <2>2. Cardinality(conflict[SelectStack[1]] \cap Left(1)) < REGNUM
      BY <2>1 DEF LowStack
    <2> QED
      BY <1>1, <2>2
  <1>4. okcolor(adj', n) # {}
    BY <1>1, <1>2, <1>3, RegisterLeft
  <1>5. SpilledTemp' = SpilledTemp
    BY <1>4 DEF assignColor
  <1>6. ASSUME NEW i \in 1..Len(SelectStack')
        PROVE  Cardinality(conflict[SelectStack'[i]] \cap Left(i)') < REGNUM
    <2>1. i + 1 \in 1..Len(SelectStack) /\ SelectStack'[i] = SelectStack[i + 1]
      BY <1>1
    <2>2. Left(i)' = Left(i + 1)
      <3>1. ASSUME NEW m \in Node, NEW j \in i..Len(SelectStack'), SelectStack'[j] = m
            PROVE  \E k \in (i + 1)..Len(SelectStack) : SelectStack[k] = m
        <4>1. j \in 1..Len(SelectStack') /\ j + 1 \in (i + 1)..Len(SelectStack)
          BY <1>1
        <4> QED
          BY <1>1, <3>1, <4>1
      <3>2. ASSUME NEW m \in Node, NEW k \in (i + 1)..Len(SelectStack), SelectStack[k] = m
            PROVE  \E j \in i..Len(SelectStack') : SelectStack'[j] = m
        <4>1. k - 1 \in i..Len(SelectStack') /\ k - 1 \in 1..Len(SelectStack') /\ (k - 1) + 1 = k
          BY <1>1
        <4>2. SelectStack'[k - 1] = SelectStack[(k - 1) + 1]
          BY <1>1, <4>1
        <4> QED
          BY <3>2, <4>1, <4>2
      <3> QED
        BY <3>1, <3>2 DEF Left
    <2> QED
      BY <2>1, <2>2 DEF LowStack
  <1> QED
    BY <1>1, <1>5, <1>6 DEF LowStack, NothingSpilled, REGNUM

LEMMA OtherEasy ==
  ASSUME IInv, HiddenInv, PlainInv, Plain, Simplifiable, pc = "work" => LowLists, OtherStep
  PROVE  pc' = "work" => LowLists'
  <1>1. CASE makeWorklist
    <2>1. UNCHANGED adj
      BY <1>1 DEF makeWorklist, graph
    <2>2. \A n \in SimplifyWorklist' \cup CombineWorklist' : ~ significant(adj, n)
      BY <1>1 DEF makeWorklist
    <2>3. FreezeWorklist' = {}
      BY <1>1 DEF makeWorklist, IInv, ProgressInv
    <2> QED
      BY <2>1, <2>2, <2>3 DEF LowLists, significant, degree
  <1>2. ASSUME NEW n \in Node, unionFails(n) \/ freeze(n) \/ selectSpill(n)
        PROVE  LowLists'
    <2>1. FileStep(n)
      BY <1>2, FileSteps
    <2>2. ~ selectSpill(n)
      BY NoCandidates DEF selectSpill
    <2>3. pc = "work" /\ adj' = adj
      BY <2>1 DEF FileStep
    <2>4. \A k \in (SimplifyWorklist \cup CombineWorklist \cup FreezeWorklist)' :
            \/ ~ significant(adj, k)
            \/ k \in SimplifyWorklist \cup CombineWorklist \cup FreezeWorklist
      BY <2>1, <2>2, FileDegrees
    <2> QED
      BY <2>3, <2>4 DEF LowLists, significant, degree
  <1>3. CASE selectSpillFails \/ colourRegisters \/ assignDone
    BY <1>3 DEF selectSpillFails, colourRegisters, assignDone
  <1>4. CASE UNCHANGED vars
    BY <1>4 DEF vars, graph, lists, LowLists, significant, degree
  <1> QED
    BY <1>1, <1>2, <1>3, <1>4 DEF OtherStep

LEMMA NextEasy ==
  ASSUME IInv, HiddenInv, PlainInv, PlainInv', EasyInv, [Next]_vars
  PROVE  EasyInv'
  <1> SUFFICES ASSUME Plain', Simplifiable'
               PROVE  (pc' = "work" => LowLists') /\ LowStack' /\ NothingSpilled'
    BY DEF EasyInv, LowLists, LowStack, NothingSpilled
  <1>1. Plain /\ conflict' = conflict
    BY PlainBefore
  <1>2. Simplifiable
    BY <1>1 DEF Simplifiable, REGNUM
  <1>3. (pc = "work" => LowLists) /\ LowStack /\ NothingSpilled
    BY <1>1, <1>2 DEF EasyInv, LowLists, LowStack, NothingSpilled
  <1>4. CASE OtherStep
    <2>1. pc' = "work" => LowLists'
      BY <1>1, <1>2, <1>3, <1>4, OtherEasy
    <2>2. UNCHANGED <<conflict, SelectStack, SpilledTemp>>
      BY <1>4, OtherStepKeeps
    <2> QED
      BY <1>3, <2>1, <2>2 DEF LowStack, NothingSpilled, Left, REGNUM
  <1>5. ASSUME NEW n \in Node, simplify(n)
        PROVE  (pc' = "work" => LowLists') /\ LowStack' /\ NothingSpilled'
    BY <1>1, <1>3, <1>5, SimplifyEasy, SimplifyStep
  <1>6. ASSUME NEW n \in Node, assignColor(n)
        PROVE  (pc' = "work" => LowLists') /\ LowStack' /\ NothingSpilled'
    BY <1>1, <1>3, <1>6, AssignEasy, AssignStep
  <1> QED
    BY <1>4, <1>5, <1>6, PlainBefore

LEMMA EasyGraph == Spec => []EasyInv
  <1>1. Init => EasyInv
    BY InitEasy
  <1>2. IInv /\ HiddenInv /\ PlainInv /\ PlainInv' /\ EasyInv /\ [Next]_vars => EasyInv'
    BY NextEasy
  <1> QED
    BY <1>1, <1>2, Invariance, Hidden, PlainGraph, PTL DEF Spec

(* Optimistic colouring spills nothing without need (significant,          *)
(* changeWorklist, okcolor): if nothing was coalesced, a graph in whose    *)
(* every part some temporary has fewer neighbours than there are registers *)
(* is coloured with no spill.                                              *)
THEOREM NoSpillWithoutNeed == Spec => []NoNeedlessSpill
  <1>1. EasyInv => NoNeedlessSpill
    <2> SUFFICES ASSUME EasyInv, tempNode = [n \in Node |-> n], Simplifiable
                 PROVE  \A t \in Node : SpilledTemp[t] = None
      BY DEF NoNeedlessSpill
    <2>1. Plain
      BY DEF Plain, Merged
    <2> QED
      BY <2>1 DEF EasyInv
  <1> QED
    BY <1>1, EasyGraph, PTL

-----------------------------------------------------------------------------
(* The assertion of selectSpill. *)

(* An edge comes from an interference, of temporaries the two ends carry.  *)
OriginInv ==
  \A n \in Node : \A m \in adj[n] \cup hadj[n] : ~ Merged(m) /\ m \in carriers(n)

(* Why n may be on the spill worklist.  Its degree was significant when it *)
(* was filed; only a coalescing of two neighbours lowers it unnoticed.     *)
Crowded(n) == Cardinality(near(n)) >= REGNUM /\ (Joined(n) \/ significant(adj, n))

CrowdInv ==
  /\ OriginInv
  /\ pc = "work" => \A n \in SpillWorklist : Crowded(n)
  /\ AbortOnlyCrowded

(* No more nodes than temporaries they carry. *)
LEMMA NearCount ==
  ASSUME IInv, NEW n \in Node, NEW E \in SUBSET carriers(n)
  PROVE  /\ near(n) \in SUBSET Node /\ carriers(n) \in SUBSET Node
         /\ Cardinality(near(n)) \in Nat /\ Cardinality(E) \in Nat
         /\ Cardinality(E) <= Cardinality(near(n))
  <1> DEFINE F == near(n)
             G == {x \in F : tempNode[x] \in E}
             f == [x \in G |-> tempNode[x]]
  <1>1. /\ temp[n] \subseteq Node /\ \A t \in Node : conflict[t] \subseteq Node
        /\ \A t \in Node : tempNode[t] \in Node
    BY DEF IInv, TypeOK, IsGraph
  <1>2. F \in SUBSET Node
    BY <1>1 DEF near
  <1>3. G \in SUBSET F
    OBVIOUS
  <1>4. carriers(n) \in SUBSET Node
    BY <1>1, <1>2 DEF carriers
  <1>5. \A y \in E : \E x \in G : f[x] = y
    BY DEF carriers
  <1>6. f \in [G -> E]
    OBVIOUS
  <1>7. f \in Surjection(G, E)
    BY <1>5, <1>6 DEF Surjection
  <1> HIDE DEF F, G, f
  <1>8. /\ Cardinality(F) \in Nat /\ Cardinality(G) \in Nat
        /\ Cardinality(G) <= Cardinality(F)
    BY <1>2, <1>3, NodesFinite
  <1>9. IsFiniteSet(G)
    <2>1. IsFiniteSet(Node)
      BY ConstantsAssumption DEF ConstantsAssumption
    <2> QED
      BY <1>2, <1>3, <2>1, FS_Subset
  <1>10. Cardinality(E) <= Cardinality(G)
    BY <1>7, <1>9, FS_Surjection
  <1>11. Cardinality(E) \in Nat
    BY <1>4, NodesFinite
  <1> QED
    BY <1>2, <1>4, <1>8, <1>10, <1>11 DEF F

(* What is filed for its degree is crowded. *)
LEMMA FiledCrowded ==
  ASSUME IInv, NEW n \in Node, NEW E \in SUBSET carriers(n), Cardinality(E) >= REGNUM
  PROVE  Cardinality(near(n)) >= REGNUM
  BY NearCount, RegisterCount

(* A step that leaves the names alone, adds no edge, and files for the     *)
(* spill list only what is significant, or was there with the same edges.  *)
LEMMA CrowdKept ==
  ASSUME IInv, CrowdInv, IInv', UNCHANGED <<conflict, temp, tempNode>>,
         \A n \in Node : adj'[n] \cup hadj'[n] \subseteq adj[n] \cup hadj[n],
         pc' # "abort",
         pc' = "work" => \A n \in SpillWorklist' :
           \/ significant(adj', n)
           \/ pc = "work" /\ n \in SpillWorklist /\ adj'[n] = adj[n]
  PROVE  CrowdInv'
  <1>1. \A n \in Node : near(n)' = near(n) /\ carriers(n)' = carriers(n)
    BY DEF near, carriers
  <1>2. \A n \in Node : (Merged(n)' <=> Merged(n)) /\ (Joined(n)' <=> Joined(n))
    BY <1>1 DEF Merged, Joined
  <1>3. OriginInv'
    <2>1. \A n \in Node : adj'[n] \cup hadj'[n] \subseteq Node
      BY DEF IInv, TypeOK, IsGraph
    <2>2. \A n \in Node : \A m \in adj'[n] \cup hadj'[n] : ~ Merged(m) /\ m \in carriers(n)
      BY DEF CrowdInv, OriginInv
    <2> QED
      BY <1>1, <1>2, <2>1, <2>2 DEF OriginInv
  <1>4. ASSUME pc' = "work", NEW n \in SpillWorklist' PROVE Crowded(n)'
    <2>1. n \in Node
      BY <1>4 DEF IInv, TypeOK
    <2>2. CASE significant(adj', n)
      <3>1. adj'[n] \in SUBSET carriers(n) /\ Cardinality(adj'[n]) >= REGNUM
        BY <1>1, <1>3, <2>1, <2>2 DEF OriginInv, significant, degree
      <3>2. Cardinality(near(n)) >= REGNUM
        BY <2>1, <3>1, FiledCrowded
      <3> QED
        BY <1>1, <2>1, <2>2, <3>2 DEF Crowded, significant, degree, REGNUM
    <2>3. CASE pc = "work" /\ n \in SpillWorklist /\ adj'[n] = adj[n]
      <3>1. Crowded(n)
        BY <2>3 DEF CrowdInv
      <3> QED
        BY <1>1, <1>2, <2>1, <2>3, <3>1 DEF Crowded, significant, degree, REGNUM
    <2> QED
      BY <1>4, <2>2, <2>3
  <1> QED
    BY <1>3, <1>4 DEF CrowdInv, AbortOnlyCrowded

LEMMA InitCrowd == Init => CrowdInv
  <1> SUFFICES ASSUME Init PROVE CrowdInv
    OBVIOUS
  <1>1. \A n \in Node : \A m \in adj[n] \cup hadj[n] : m \in conflict[n] /\ m \in Node
    BY GraphsAssumption DEF Init, Clear, IsGraph
  <1>2. \A n \in Node : n \in temp[n] /\ tempNode[n] = n
    BY DEF Init
  <1>3. OriginInv
    BY <1>1, <1>2 DEF OriginInv, carriers, near, Merged
  <1> QED
    BY <1>3 DEF Init, CrowdInv, AbortOnlyCrowded

(* What a coalescing step does to names, edges and the spill list.         *)
LEMMA UnionNodeNames ==
  ASSUME IInv, NEW n \in Node, unionNode(n)
  PROVE  \E u \in Node :
           /\ u # n /\ u \notin adj[n] /\ ~ Merged(u) /\ ~ Merged(n)
           /\ \A j, k \in Node : k \in adj'[j] <=>
                /\ j # n /\ k # n /\ j # k
                /\ k \in adj[j] \/ (j = u /\ k \in adj[n]) \/ (k = u /\ j \in adj[n])
           /\ \A j, k \in Node : k \in hadj'[j] <=>
                /\ j # n /\ k # n /\ j # k
                /\ k \in hadj[j] \/ (j = u /\ k \in hadj[n]) \/ (k = u /\ j \in hadj[n])
           /\ temp' = [temp EXCEPT ![u] = @ \cup temp[n]]
           /\ \A t \in Node : tempNode'[t] = IF tempNode[t] = n THEN u ELSE tempNode[t]
           /\ \A k \in SpillWorklist' : significant(adj, k) \/ k \in SpillWorklist
           /\ UNCHANGED <<conflict, pc>>
  <1>1. PICK u, mv :
          /\ u \in coalescable(n)
          /\ combine(u, n, mv)
          /\ changeWorklist({a \in constrained(n) : a < u}, adj, mv, SimplifyWorklist,
                            CombineWorklist \ {n}, FreezeWorklist, SpillWorklist)
    BY DEF unionNode
  <1>2. /\ adj' = Redirect(adj, u, n) /\ hadj' = Redirect(hadj, u, n)
        /\ temp' = [temp EXCEPT ![u] = @ \cup temp[n]]
        /\ tempNode' = [t \in Node |-> IF t \in temp[n] THEN u ELSE tempNode[t]]
    BY <1>1 DEF combine
  <1>3. n \in CombineWorklist /\ UNCHANGED <<conflict, pc>>
    BY DEF unionNode, IsFirst
  <1>4. /\ ~ Merged(n) /\ IsGraph(adj) /\ IsGraph(hadj) /\ IsGraph(mvadj)
        /\ SpillWorklist \cap Reg = {}
    BY <1>3 DEF IInv, TypeOK, ListsInv, Listed
  <1>5. u \in mvadj[n] /\ n \notin adj[u]
    BY <1>1 DEF coalescable, constrained
  <1>6. u \in Node /\ u # n /\ u \notin adj[n] /\ ~ Merged(u)
    BY <1>4, <1>5 DEF IInv, MovesInv, IsGraph
  <1>7. \A j, k \in Node : k \in adj'[j] <=>
          /\ j # n /\ k # n /\ j # k
          /\ k \in adj[j] \/ (j = u /\ k \in adj[n]) \/ (k = u /\ j \in adj[n])
    <2>1. adj' = Redirect(adj, u, n) /\ IsGraph(adj) /\ u \in Node /\ n \in Node /\ u # n
      BY <1>2, <1>4, <1>6
    <2> QED
      BY ONLY <2>1, RedirectGraph
  <1>8. \A j, k \in Node : k \in hadj'[j] <=>
          /\ j # n /\ k # n /\ j # k
          /\ k \in hadj[j] \/ (j = u /\ k \in hadj[n]) \/ (k = u /\ j \in hadj[n])
    <2>1. hadj' = Redirect(hadj, u, n) /\ IsGraph(hadj) /\ u \in Node /\ n \in Node /\ u # n
      BY <1>2, <1>4, <1>6
    <2> QED
      BY ONLY <2>1, RedirectGraph
  <1>9. \A t \in Node : tempNode'[t] = IF tempNode[t] = n THEN u ELSE tempNode[t]
    BY <1>2, <1>4 DEF IInv, NamesInv
  <1>10. \A k \in SpillWorklist' : significant(adj, k) \/ k \in SpillWorklist
    BY <1>1, <1>4, ChangeDegrees
  <1> QED
    BY <1>2, <1>3, <1>4, <1>6, <1>7, <1>8, <1>9, <1>10

(* A coalescing step lowers a degree only where two neighbours become one. *)
LEMMA UnionNodeCrowd ==
  ASSUME IInv, CrowdInv, IInv', NEW n \in Node, unionNode(n)
  PROVE  CrowdInv'
  <1>1. PICK u \in Node :
           /\ u # n /\ u \notin adj[n] /\ ~ Merged(u) /\ ~ Merged(n)
           /\ \A j, k \in Node : k \in adj'[j] <=>
                /\ j # n /\ k # n /\ j # k
                /\ k \in adj[j] \/ (j = u /\ k \in adj[n]) \/ (k = u /\ j \in adj[n])
           /\ \A j, k \in Node : k \in hadj'[j] <=>
                /\ j # n /\ k # n /\ j # k
                /\ k \in hadj[j] \/ (j = u /\ k \in hadj[n]) \/ (k = u /\ j \in hadj[n])
           /\ temp' = [temp EXCEPT ![u] = @ \cup temp[n]]
           /\ \A t \in Node : tempNode'[t] = IF tempNode[t] = n THEN u ELSE tempNode[t]
           /\ \A k \in SpillWorklist' : significant(adj, k) \/ k \in SpillWorklist
           /\ UNCHANGED <<conflict, pc>>
    BY UnionNodeNames
  <1>2. /\ temp \in [Node -> SUBSET Node]
        /\ \A t \in Node : tempNode[t] \in Node /\ conflict[t] \subseteq Node
        /\ \A j \in Node : adj[j] \subseteq Node /\ hadj[j] \subseteq Node
        /\ \A j, k \in Node : k \in adj[j] => j \in adj[k] /\ j # k
        /\ \A j, k \in Node : k \in hadj[j] => j \in hadj[k] /\ j # k
    BY DEF IInv, TypeOK, IsGraph
  <1>3. \A j \in Node : adj'[j] \subseteq Node /\ hadj'[j] \subseteq Node
    BY DEF IInv, TypeOK, IsGraph
  <1>4. pc = "work" /\ pc' = "work"
    BY <1>1 DEF unionNode
  <1>5. /\ \A j \in Node : near(j) \subseteq Node /\ near(j) \subseteq near(j)'
        /\ near(n) \subseteq near(u)'
    <2>1. \A j \in Node : temp[j] \subseteq temp'[j] /\ temp[n] \subseteq temp'[u]
      BY <1>1, <1>2
    <2> QED
      BY <1>1, <1>2, <2>1 DEF near
  <1>6. \A k \in Node : k # n /\ Merged(k)' => Merged(k)
    BY <1>1 DEF Merged
  <1>7. ASSUME NEW j \in Node, NEW k \in Node, k \in adj'[j] \cup hadj'[j]
        PROVE  ~ Merged(k)' /\ k \in carriers(j)'
    <2>1. /\ j # n /\ k # n
          /\ \/ k \in adj[j] \cup hadj[j]
             \/ j = u /\ k \in adj[n] \cup hadj[n]
             \/ k = u /\ n \in adj[j] \cup hadj[j]
      BY <1>1, <1>2, <1>7
    <2>2. CASE k \in adj[j] \cup hadj[j]
      <3>1. ~ Merged(k) /\ \E x \in near(j) : tempNode[x] = k
        BY <2>2 DEF CrowdInv, OriginInv, carriers
      <3>2. \E x \in near(j)' : tempNode'[x] = k
        BY <1>1, <1>5, <2>1, <3>1
      <3> QED
        BY <1>6, <2>1, <3>1, <3>2 DEF carriers
    <2>3. CASE j = u /\ k \in adj[n] \cup hadj[n]
      <3>1. ~ Merged(k) /\ \E x \in near(n) : tempNode[x] = k
        BY <2>3 DEF CrowdInv, OriginInv, carriers
      <3>2. \E x \in near(j)' : tempNode'[x] = k
        BY <1>1, <1>5, <2>1, <2>3, <3>1
      <3> QED
        BY <1>6, <2>1, <3>1, <3>2 DEF carriers
    <2>4. CASE k = u /\ n \in adj[j] \cup hadj[j]
      <3>1. \E x \in near(j) : tempNode[x] = n
        BY <2>4 DEF CrowdInv, OriginInv, carriers
      <3>2. \E x \in near(j)' : tempNode'[x] = k
        BY <1>1, <1>5, <2>4, <3>1
      <3> QED
        BY <1>1, <1>6, <2>1, <2>4, <3>2 DEF carriers
    <2> QED
      BY <2>1, <2>2, <2>3, <2>4
  <1>8. OriginInv'
    BY <1>3, <1>7 DEF OriginInv
  <1>9. ASSUME NEW k \in SpillWorklist' PROVE Crowded(k)'
    <2>1. k \in Node /\ k # n
      <3>1. k \in Node /\ ~ Merged(k)'
        BY DEF IInv, TypeOK, ListsInv, Listed
      <3>2. Merged(n)'
        BY <1>1 DEF Merged
      <3> QED
        BY <3>1, <3>2
    <2>2. Crowded(k)
      <3>1. CASE significant(adj, k)
        <4>1. adj[k] \in SUBSET carriers(k) /\ Cardinality(adj[k]) >= REGNUM
          BY <2>1, <3>1 DEF CrowdInv, OriginInv, significant, degree
        <4> QED
          BY <2>1, <3>1, <4>1, FiledCrowded DEF Crowded
      <3>2. CASE k \in SpillWorklist
        BY <1>4, <3>2 DEF CrowdInv
      <3> QED
        BY <1>1, <3>1, <3>2
    <2>3. Cardinality(near(k)') >= REGNUM
      <3>1. near(k)' \in SUBSET Node
        BY <1>1, <1>2, <2>1 DEF near
      <3>2. Cardinality(near(k)) <= Cardinality(near(k)')
            /\ Cardinality(near(k)) \in Nat /\ Cardinality(near(k)') \in Nat
        BY <1>5, <2>1, <3>1, NodesFinite
      <3> QED
        BY <2>2, <3>2, RegisterCount DEF Crowded
    <2>4. Joined(k) => Joined(k)'
      BY <1>1, <1>5, <2>1 DEF Joined
    <2>5. ASSUME significant(adj, k), ~ Joined(k)' PROVE significant(adj', k)
      <3>1. adj'[k] \in SUBSET Node /\ IsFiniteSet(adj'[k]) /\ IsFiniteSet(adj[k])
            /\ Cardinality(adj[k]) \in Nat /\ Cardinality(adj'[k]) \in Nat
        <4>1. IsFiniteSet(Node)
          BY ConstantsAssumption DEF ConstantsAssumption
        <4> QED
          BY <1>2, <1>3, <2>1, <4>1, FS_Subset, FS_CardinalityType
      <3>2. CASE n \notin adj[k]
        <4>1. adj[k] \in SUBSET adj'[k]
          BY <1>1, <1>2, <2>1, <3>2
        <4> QED
          BY <2>5, <3>1, <4>1, FS_Subset, RegisterCount DEF significant, degree
      <3>3. CASE n \in adj[k]
        <4>1. u \notin adj[k]
          <5> SUFFICES ASSUME u \in adj[k] PROVE FALSE
            OBVIOUS
          <5>1. PICK x, y \in near(k) : tempNode[x] = n /\ tempNode[y] = u
            BY <2>1, <3>3 DEF CrowdInv, OriginInv, carriers
          <5>2. x # y /\ tempNode'[x] = u /\ tempNode'[y] = u /\ x \in near(k)' /\ y \in near(k)'
            BY <1>1, <1>5, <2>1, <5>1
          <5> QED
            BY <2>5, <5>2 DEF Joined
        <4>2. k # u
          BY <1>1, <1>2, <3>3
        <4>3. adj'[k] = (adj[k] \ {n}) \cup {u}
          BY <1>1, <1>2, <2>1, <3>1, <3>3, <4>2
        <4>4. /\ IsFiniteSet(adj[k] \ {n})
              /\ Cardinality(adj[k] \ {n}) = Cardinality(adj[k]) - 1
          BY <3>1, <3>3, FS_RemoveElement
        <4>5. Cardinality(adj'[k]) = (Cardinality(adj[k]) - 1) + 1
          BY <4>1, <4>3, <4>4, FS_AddElement
        <4>6. Cardinality(adj'[k]) = Cardinality(adj[k])
          BY <3>1, <4>5
        <4> QED
          BY <2>5, <4>6 DEF significant, degree
      <3> QED
        BY <3>2, <3>3
    <2> QED
      BY <2>2, <2>3, <2>4, <2>5 DEF Crowded, significant, degree, REGNUM
  <1> QED
    BY <1>4, <1>8, <1>9 DEF CrowdInv, AbortOnlyCrowded

(* With nothing else left, a node's edges lead to machine registers and to *)
(* temporaries of earlier spills.                                          *)
LEMMA FailsCrowded ==
  ASSUME IInv, HiddenInv, CrowdInv, selectSpillFails
  PROVE  CrowdInv'
  <1>1. /\ pc = "work" /\ Listed = SpillWorklist /\ SpillWorklist \subseteq StkUse /\ pc' = "abort"
        /\ UNCHANGED <<conflict, adj, hadj, temp, tempNode, SpillWorklist>>
    BY DEF selectSpillFails, OnlySpillsLeft, Listed, graph, names, lists
  <1>2. ASSUME NEW s \in SpillWorklist
        PROVE  /\ s \in StkUse /\ Cardinality(near(s)) >= REGNUM
               /\ Joined(s) \/ Cardinality(carriers(s) \cap (Reg \cup StkUse)) >= REGNUM
    <2>1. s \in Node /\ s \in StkUse /\ Crowded(s)
      BY <1>1 DEF IInv, TypeOK, CrowdInv
    <2>2. ASSUME significant(adj, s) PROVE Cardinality(carriers(s) \cap (Reg \cup StkUse)) >= REGNUM
      <3>1. adj[s] \subseteq Node /\ \A m \in adj[s] : s \in adj[m]
        BY <2>1 DEF IInv, TypeOK, IsGraph
      <3>2. \A m \in adj[s] : ~ Merged(m) /\ m \in carriers(s)
        BY <2>1 DEF CrowdInv, OriginInv
      <3>3. \A m \in adj[s] : ~ Stacked(m)
        BY <1>1, <3>1 DEF HiddenInv
      <3>4. \A m \in adj[s] : m \in Reg \cup StkUse
        BY <1>1, <3>1, <3>2, <3>3 DEF IInv, ProgressInv
      <3>5. adj[s] \in SUBSET (carriers(s) \cap (Reg \cup StkUse))
        BY <3>2, <3>4
      <3>6. carriers(s) \cap (Reg \cup StkUse) \in SUBSET Node
        <4>1. {} \in SUBSET carriers(s)
          OBVIOUS
        <4> QED
          BY <2>1, <4>1, NearCount
      <3>7. /\ Cardinality(adj[s]) <= Cardinality(carriers(s) \cap (Reg \cup StkUse))
            /\ Cardinality(adj[s]) \in Nat
            /\ Cardinality(carriers(s) \cap (Reg \cup StkUse)) \in Nat
        BY <3>5, <3>6, NodesFinite
      <3> QED
        BY <2>2, <3>7, RegisterCount DEF significant, degree
    <2> QED
      BY <2>1, <2>2 DEF Crowded
  <1>3. \A n \in Node : near(n)' = near(n) /\ carriers(n)' = carriers(n)
    BY <1>1 DEF near, carriers
  <1>4. OriginInv'
    BY <1>1, <1>3 DEF CrowdInv, OriginInv, Merged
  <1>5. AbortOnlyCrowded'
    <2>1. SpillWorklist \subseteq Node
      BY DEF IInv, TypeOK
    <2>2. \A s \in SpillWorklist : near(s)' = near(s)
      BY <1>3, <2>1
    <2>3. \A s \in SpillWorklist : carriers(s)' = carriers(s) /\ (Joined(s)' <=> Joined(s))
      BY <1>1, <1>3, <2>1, <2>2 DEF Joined
    <2> QED
      BY <1>1, <1>2, <2>2, <2>3 DEF AbortOnlyCrowded, REGNUM
  <1> QED
    BY <1>1, <1>4, <1>5 DEF CrowdInv

LEMMA NextCrowd ==
  ASSUME IInv, HiddenInv, CrowdInv, [Next]_vars
  PROVE  CrowdInv'
  <1>1. IInv'
    BY NextIInv
  <1>2. /\ \A k \in Node : adj'[k] \subseteq Node /\ hadj'[k] \subseteq Node
        /\ \A j, k \in Node : k \in adj[j] => j \in adj[k]
        /\ \A j, k \in Node : k \in hadj[j] => j \in hadj[k]
    BY <1>1 DEF IInv, TypeOK, IsGraph
  <1>3. ASSUME NEW n \in Node, simplify(n) PROVE CrowdInv'
    <2>1. /\ UNCHANGED <<conflict, temp, tempNode>> /\ pc = "work" /\ pc' = "work"
          /\ \A k \in Node : adj'[k] \cup hadj'[k] \subseteq adj[k] \cup hadj[k]
      BY <1>2, <1>3, SimplifyStep
    <2>2. \A k \in SpillWorklist' :
            significant(adj', k) \/ (k \in SpillWorklist /\ adj'[k] = adj[k])
      BY <1>3, SimplifyDegrees
    <2> QED
      BY <1>1, <2>1, <2>2, CrowdKept
  <1>4. ASSUME NEW n \in Node, unionNode(n) PROVE CrowdInv'
    BY <1>1, <1>4, UnionNodeCrowd
  <1>5. ASSUME NEW n \in Node, assignColor(n) PROVE CrowdInv'
    <2>1. /\ UNCHANGED <<conflict, temp, tempNode>> /\ pc' = "assign"
          /\ \A k \in Node : adj'[k] \cup hadj'[k] \subseteq adj[k] \cup hadj[k]
      <3>1. UNCHANGED temp
        BY <1>5 DEF assignColor, names
      <3> QED
        BY <1>2, <1>5, <3>1, AssignStep
    <2> QED
      BY <1>1, <2>1, CrowdKept
  <1>6. ASSUME OtherStep PROVE CrowdInv'
    <2>1. UNCHANGED <<conflict, adj, hadj, temp, tempNode>>
      BY <1>6, OtherStepKeeps
    <2>2. CASE makeWorklist
      <3>1. pc' = "work" /\ \A n \in SpillWorklist' : significant(adj', n)
        BY <2>1, <2>2 DEF makeWorklist, significant, degree
      <3> QED
        BY <1>1, <2>1, <3>1, CrowdKept
    <2>3. ASSUME NEW n \in Node, unionFails(n) \/ freeze(n) \/ selectSpill(n) PROVE CrowdInv'
      <3>1. FileStep(n)
        BY <2>3, FileSteps
      <3>2. \A k \in SpillWorklist' : significant(adj, k) \/ k \in SpillWorklist
        BY <3>1, FileDegrees
      <3>3. pc = "work" /\ pc' = "work"
        BY <3>1 DEF FileStep
      <3> QED
        BY <1>1, <2>1, <3>2, <3>3, CrowdKept DEF significant, degree
    <2>4. CASE colourRegisters \/ assignDone
      <3>1. pc' \in {"assign", "done"}
        BY <2>4 DEF colourRegisters, assignDone
      <3> QED
        BY <1>1, <2>1, <3>1, CrowdKept
    <2>5. CASE UNCHANGED vars
      <3>1. UNCHANGED <<adj, hadj, tempNode, SpillWorklist, pc>>
        BY <2>5 DEF vars, graph, names, lists
      <3>2. \A n \in Node : near(n)' = near(n)
        BY <2>1 DEF near
      <3>3. AbortOnlyCrowded'
        <4>1. SpillWorklist \subseteq Node
          BY DEF IInv, TypeOK
        <4>2. /\ \A n \in SpillWorklist : near(n)' = near(n) /\ carriers(n)' = carriers(n)
              /\ \A n \in SpillWorklist : Joined(n)' <=> Joined(n)
          BY <3>1, <3>2, <4>1 DEF carriers, Joined
        <4>3. AbortOnlyCrowded
          BY DEF CrowdInv
        <4> HIDE DEF CrowdInv
        <4> QED
          BY <3>1, <4>2, <4>3 DEF AbortOnlyCrowded, REGNUM
      <3>4. CASE pc # "abort"
        BY <1>1, <2>1, <3>1, <3>4, CrowdKept DEF CrowdInv
      <3>5. CASE pc = "abort"
        <4>1. OriginInv'
          BY <2>1, <3>2 DEF CrowdInv, OriginInv, carriers, Merged
        <4> QED
          BY <3>1, <3>3, <3>5, <4>1 DEF CrowdInv
      <3> QED
        BY <3>4, <3>5
    <2> QED
      BY <1>6, <2>2, <2>3, <2>4, <2>5, FailsCrowded DEF OtherStep
  <1> QED
    BY <1>3, <1>4, <1>5, <1>6, StepCases

(* The assertion of selectSpill can only fail when everything that is left *)
(* is the product of earlier spills and interferes with REGNUM temporaries *)
(* or more, which are such products or machine registers themselves unless *)
(* combine made one node of two of them.                                   *)
THEOREM AbortReason == Spec => []AbortOnlyCrowded
  <1>1. Init => CrowdInv
    BY InitCrowd
  <1>2. IInv /\ HiddenInv /\ CrowdInv /\ [Next]_vars => CrowdInv'
    BY NextCrowd
  <1>3. CrowdInv => AbortOnlyCrowded
    BY DEF CrowdInv
  <1> QED
    BY <1>1, <1>2, <1>3, Invariance, Hidden, PTL DEF Spec

=============================================================================
