----------------------------- MODULE Dominators -----------------------------
(***************************************************************************)
(* Dominators and dominance frontiers (DTREE::Dtree,                       *)
(* src/src/ssa/Dtree.cpp): the algorithm of Lengauer and Tarjan with path  *)
(* compression, step by step, then frontiers bottom up with a second,      *)
(* compressed forest in the same array; and the control dependence found   *)
(* from the frontiers of the reversed graph (CDG::CDgraph,                 *)
(* src/src/ssa/CDG.cpp).                                                   *)
(***************************************************************************)
EXTENDS Integers, Sequences, FiniteSets, FiniteSetsExt, SequencesExt, TLC

CONSTANT Flow  \* the graphs: [n, succ, entry, exit], nodes 0..n-1; -1 for no exit

VARIABLES
  flow,      \* the control flow graph
  g,         \* the graph whose dominators are found: flow, or flow reversed
  phase,     \* "dfs", "semi", "same", "children", "frontier", "done"
  stk,       \* the calls of dfs, then those of computeDF, under way
  i,         \* the loop over the vertices
  dfnum, vertex, parent,            \* depth-first search
  semi, bucket, best, ancestor,     \* semidominators
  samedom, idom, children,          \* dominators
  DF                                \* dominance frontiers

search == <<dfnum, vertex, parent>>
forest == <<best, ancestor>>
vars == <<flow, g, phase, stk, i, search, semi, bucket, forest, samedom, idom, children, DF>>

Node == 0..(g.n - 1)
pred(gr, v) == {u \in 0..(gr.n - 1) : v \in gr.succ[u]}
cnt == Len(vertex)
vertexAt(k) == vertex[k + 1]

(* The graph G' of control dependence: the edges reversed, and a node r    *)
(* that exit and entry lead to.                                            *)
reversed(f) ==
  [n |-> f.n + 1, entry |-> f.exit, exit |-> -1,
   succ |-> [v \in 0..f.n |->
     IF v = f.n THEN {} ELSE pred(f, v) \cup IF v \in {f.exit, f.entry} THEN {f.n} ELSE {}]]

InitWith(f) ==
  /\ flow = f
  /\ g = IF flow.exit = -1 THEN flow ELSE reversed(flow)
  /\ phase = "dfs"
  /\ stk = <<g.entry>>
  /\ i = 0
  /\ dfnum = [v \in Node |-> IF v = g.entry THEN 0 ELSE -1]
  /\ vertex = <<g.entry>>
  /\ parent = [v \in Node |-> -1]
  /\ semi = parent /\ best = parent /\ ancestor = parent /\ samedom = parent /\ idom = parent
  /\ bucket = [v \in Node |-> {}]
  /\ children = [v \in Node |-> << >>]
  /\ DF = bucket

Init == \E f \in Flow : InitWith(f)

-----------------------------------------------------------------------------
number(w) == [dfnum EXCEPT ![w] = cnt]

putOff(d, v) == IF samedom[v] = -1 THEN d ELSE [d EXCEPT ![v] = d[samedom[v]]]

(* dfs: the successors in ascending order. *)
dfs ==
  LET v == Head(stk)
      new == {w \in g.succ[v] : dfnum[w] = -1}
  IN  /\ phase = "dfs"
      /\ IF new # {}
         THEN LET w == Min(new)
              IN  /\ dfnum' = number(w)
                  /\ vertex' = Append(vertex, w)
                  /\ parent' = [parent EXCEPT ![w] = v]
                  /\ stk' = <<w>> \o stk
                  /\ phase' = phase
              /\ i' = i
         ELSE /\ UNCHANGED search
              /\ stk' = Tail(stk)
              /\ phase' = IF Tail(stk) = << >> THEN "semi" ELSE phase
              /\ i' = cnt - 1
      /\ UNCHANGED <<flow, g, semi, bucket, forest, samedom, idom, children, DF>>

(* Mutant: the ancestor of an ancestor is not looked at. *)
findLowestSemiAncestorNear(v, anc, bst, sem) == [low |-> bst[v], anc |-> anc, best |-> bst]

(* The lower of what the ancestor a of u gave and what u knew is now known *)
(* to u, which hangs below what a hangs below.                             *)
pulled(u, a, r, sem) ==
  LET lower(bu) == [low |-> bu, anc |-> [r.anc EXCEPT ![u] = r.anc[a]], best |-> [r.best EXCEPT ![u] = bu]]
  IN  lower(IF dfnum[sem[r.low]] < dfnum[sem[r.best[u]]] THEN r.low ELSE r.best[u])

(* findLowestSemiAncestor: the node it returns, and the compressed forest. *)
findLowestSemiAncestor(v, anc, bst, sem) ==
  LET look[u \in Node] ==
        IF anc[anc[u]] = -1 THEN [low |-> bst[u], anc |-> anc, best |-> bst]
        ELSE pulled(u, anc[u], look[anc[u]], sem)
  IN  look[v]

earlier(s, nxts) == IF dfnum[s] > dfnum[nxts] THEN nxts ELSE s

(* The semidominator of v: the best of its parent, its predecessors and    *)
(* what the predecessors found after it lead to.                           *)
semidominator(v) ==
  LET from(p, r) ==
        IF dfnum[p] <= dfnum[v] THEN [r EXCEPT !.s = earlier(r.s, p)]
        ELSE LET found(f) == [s |-> earlier(r.s, semi[f.low]), anc |-> f.anc, best |-> f.best]
             IN  found(findLowestSemiAncestor(p, r.anc, r.best, semi))
  IN  FoldLeft(LAMBDA r, p : from(p, r), [s |-> parent[v], anc |-> ancestor, best |-> best],
               SetToSortSeq(pred(g, v), <))

(* Whether the lowest of the nodes between, y, starts where w does. *)
same(sem, y, w) == sem[y] = sem[w]

(* The lowest node between for each that waits, as the forest is           *)
(* compressed with each.                                                   *)
lowest(waiting, anc, bst, sem) ==
  LET with(r, w, f) == [y |-> r.y @@ (w :> f.low), anc |-> f.anc, best |-> f.best]
  IN  FoldLeft(LAMBDA r, w : with(r, w, findLowestSemiAncestor(w, r.anc, r.best, sem)),
               [y |-> << >>, anc |-> anc, best |-> bst], SetToSeq(waiting))

(* One round of the main loop: the semidominator of v, which is linked to  *)
(* its parent p, then what waits in the bucket of p.                       *)
semidominators ==
  /\ phase = "semi" /\ i >= 1
  /\ \E v \in {vertexAt(i)} : \E p \in {parent[v]}, r \in {semidominator(v)} :
       /\ semi' = [semi EXCEPT ![v] = r.s]
       /\ \E bkt \in {[bucket EXCEPT ![r.s] = @ \cup {v}]} :
          \E low \in {lowest(bkt[p], [r.anc EXCEPT ![v] = p], [r.best EXCEPT ![v] = v], semi')} :
            /\ ancestor' = low.anc
            /\ best' = low.best
            /\ idom' = [w \in Node |-> IF w \in bkt[p] /\ same(semi', low.y[w], w) THEN p ELSE idom[w]]
            /\ samedom' = [w \in Node |->
                 IF w \in bkt[p] /\ ~ same(semi', low.y[w], w) THEN low.y[w] ELSE samedom[w]]
            /\ bucket' = [bkt EXCEPT ![p] = {}]
  /\ i' = i - 1
  /\ UNCHANGED <<flow, g, phase, stk, search, children, DF>>

(* The vertices in ascending order: what was put off is known by now. *)
samedominators ==
  LET upTo[k \in 0..(cnt - 1)] ==
        IF k = 0 THEN idom
        ELSE putOff(upTo[k - 1], vertexAt(k))
  IN  /\ phase = "semi" /\ i = 0
      /\ idom' = upTo[cnt - 1]
      /\ phase' = "children"
      /\ UNCHANGED <<flow, g, stk, i, search, semi, bucket, forest, samedom, children, DF>>

(* The assertion of the constructor: idom[node] is known. *)
IdomKnown == \A k \in 1..(cnt - 1) : idom[vertexAt(k)] # -1

dominatorTree ==
  /\ phase = "children" /\ IdomKnown
  /\ children' = [v \in Node |->
       SelectSeq(Tail(vertex), LAMBDA w : idom[w] = v)]
  /\ ancestor' = [v \in Node |-> v]
  /\ stk' = <<vertexAt(0)>>
  /\ phase' = "frontier"
  /\ UNCHANGED <<flow, g, i, search, semi, bucket, best, samedom, idom, DF>>

(* find: the root, and where everything on the way is hung. *)
find(v, anc) ==
  LET root[u \in Node] == IF anc[u] = u THEN u ELSE root[anc[u]] IN root[v]

onWay(v, anc) ==
  LET way[u \in Node] == IF anc[u] = u THEN {u} ELSE {u} \cup way[anc[u]] IN way[v]

(* What the frontiers of the children give v. *)
passedOn(v, anc) ==
  {w \in UNION {DF[children[v][k]] : k \in DOMAIN children[v]} : w = v \/ find(w, anc) # v}

(* computeDF: the children first, each hung below the node when it is done. *)
computeDF ==
  LET v == Head(stk)
      todo == SelectSeq(children[v], LAMBDA w : ancestor[w] # v)
      looked == UNION {DF[children[v][k]] : k \in DOMAIN children[v]} \ {v}
      moved == UNION {onWay(w, ancestor) : w \in looked}
      anc == [u \in Node |-> IF u \in moved THEN find(u, ancestor) ELSE ancestor[u]]
  IN  /\ phase = "frontier"
      /\ IF todo # << >>
         THEN stk' = <<Head(todo)>> \o stk /\ UNCHANGED <<DF, ancestor, phase>>
         ELSE /\ DF' = [DF EXCEPT ![v] = {w \in g.succ[v] : idom[w] # v} \cup passedOn(v, ancestor)]
              /\ stk' = Tail(stk)
              /\ ancestor' = IF stk' = << >> THEN anc ELSE [anc EXCEPT ![v] = Head(stk')]
              /\ phase' = IF stk' = << >> THEN "done" ELSE phase
      /\ UNCHANGED <<flow, g, i, search, semi, bucket, best, samedom, idom, children>>

(* Mutant: only what the frontier holds itself. *)
CDnodeDirect(v) == DF[v] \ {g.n - 1}

(* CDgraph: everything the frontiers of the reversed graph lead to, but r. *)
CDnode(v) ==
  LET reach[k \in 0..g.n] ==
        IF k = 0 THEN DF[v] ELSE LET R == reach[k - 1] IN R \cup UNION {DF[w] : w \in R}
  IN  reach[g.n] \ {g.n - 1}

Next == dfs \/ semidominators \/ samedominators \/ dominatorTree \/ computeDF

Spec == Init /\ [][Next]_vars

-----------------------------------------------------------------------------
(* Properties. *)

(* What the entry reaches without going through the nodes of X. *)
ReachOutside(gr, X) ==
  LET r[k \in 0..gr.n] ==
        IF k = 0 THEN {gr.entry} \ X
        ELSE LET R == r[k - 1] IN R \cup (UNION {gr.succ[u] : u \in R} \ X)
  IN  r[gr.n]

Reached(gr) == ReachOutside(gr, {})

Dom(gr, u, v) == v \notin ReachOutside(gr, {u})

SDom(gr, u, v) == u # v /\ Dom(gr, u, v)

(* Types. *)
TypeOK ==
  /\ phase \in {"dfs", "semi", "children", "frontier", "done"}
  /\ {vertex[k] : k \in DOMAIN vertex} = {v \in Node : dfnum[v] # -1}
  /\ \A k \in 0..(cnt - 1) : dfnum[vertexAt(k)] = k
  /\ \A v \in Node : ancestor[v] \in Node \cup {-1} /\ best[v] \in Node \cup {-1}

(* The semidominator of a node is the first, in the order of the search,   *)
(* from which a way leads to it that touches only nodes found after it.    *)
semiByDefinition(v) ==
  LET later == {u \in Node : dfnum[u] > dfnum[v]}
      back[k \in 0..g.n] ==
        IF k = 0 THEN {v}
        ELSE LET B == back[k - 1] IN B \cup {u \in later : g.succ[u] \cap B # {}}
      all == back[g.n]
      from == {u \in Node : dfnum[u] < dfnum[v] /\ g.succ[u] \cap all # {}}
  IN  CHOOSE u \in from : \A w \in from : dfnum[u] <= dfnum[w]

Semidominators ==
  phase \in {"semi", "children"} =>
    \A k \in (i + 1)..(cnt - 1) : semi[vertexAt(k)] = semiByDefinition(vertexAt(k))

(* The assertion of the constructor holds: each node but the entry has an  *)
(* immediate dominator.                                                    *)
IdomAsserted == phase = "children" => IdomKnown

(* The tree is the tree of immediate dominators: the parent of a node is   *)
(* on every way to it, and so is no other node below the parent.           *)
DominatorTree ==
  phase \in {"frontier", "done"} =>
    \A v \in Reached(g) \ {g.entry} :
      /\ SDom(g, idom[v], v)
      /\ \A u \in Reached(g) : SDom(g, u, v) => Dom(g, u, idom[v])
      /\ v \in {children[idom[v]][k] : k \in DOMAIN children[idom[v]]}

(* The frontier of v: where what v dominates ends. *)
Frontiers ==
  phase = "done" =>
    \A v \in Reached(g) :
      DF[v] = {w \in Reached(g) :
                 /\ \E u \in pred(g, w) \cap Reached(g) : Dom(g, v, u)
                 /\ ~ SDom(g, v, w)}

(* Whether u decides if v is reached: one way out of u always gets to v,   *)
(* another need not.                                                       *)
Decides(u, v) ==
  /\ \E w \in flow.succ[u] : Dom(g, v, w)
  /\ ~ SDom(g, v, u)

(* The nodes CDnode gives are those that decide, directly or through       *)
(* others, whether v is reached.                                           *)
ControlDependence ==
  phase = "done" /\ flow.exit # -1 =>
    LET by(V) == {u \in 0..(flow.n - 1) : \E v \in V : Decides(u, v)}
        all[v \in 0..(flow.n - 1), k \in 0..flow.n] ==
          IF k = 0 THEN by({v}) ELSE LET A == all[v, k - 1] IN A \cup by(A)
    IN  \A v \in 0..(flow.n - 1) : CDnode(v) = all[v, flow.n]
=============================================================================
