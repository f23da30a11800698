------------------------------ MODULE BuildSSA ------------------------------
(***************************************************************************)
(* Into SSA form and out of it: the flow graph made from the basic blocks  *)
(* (CFG::CFGraph, src/src/ssa/CFG.cpp), phi functions placed and           *)
(* temporaries renamed, and phi functions turned into moves (SSA::SSAIR,   *)
(* src/src/ssa/BuildSSA.cpp).                                              *)
(***************************************************************************)
EXTENDS SSAProgram

(* The blocks of a function: what is in each and how it ends; the last is  *)
(* the empty block of the end; nt is the first temporary not in use.       *)
Blocks(bodies, jumps, nt) ==
  [body |-> bodies, jump |-> jumps, succ |-> [v \in DOMAIN bodies |-> {}],
   prednode |-> [v \in DOMAIN bodies |-> << >>],
   exit |-> Max(DOMAIN bodies), nt |-> nt, fail |-> ""]

(* The constructor of CFGraph: an edge for every label of a jump, and none *)
(* left of what the entry does not lead to.                                *)
connected(p) ==
  LET q == [p EXCEPT !.succ = [v \in Nodes(p) |-> ToSet(p.jump[v].to)]]
      L == live(q)
      r == [q EXCEPT !.succ = [v \in Nodes(p) |-> IF v \in L THEN q.succ[v] ELSE {}]]
  IN  [r EXCEPT !.prednode = [v \in Nodes(p) |-> IF v \in L THEN sorted(preds(r, v)) ELSE << >>]]

(* The label l of a branch becomes n: the true label if it is that one.    *)
redirected(j, l, n) == [j EXCEPT !.to = IF @[1] = l THEN <<n, @[2]>> ELSE <<@[1], n>>]

(* A block between v and its k-th predecessor u, a branch. *)
between(p, v, k) ==
  LET u == p.prednode[v][k]
      n == nodecount(p)
      q == addNode(p, << >>, Jump(v), <<u>>)
  IN  [addEdge(addEdge(rmEdge(q, u, v), u, n), n, v)
         EXCEPT !.jump[u] = redirected(@, v, n), !.prednode[v][k] = n]

(* Mutant: blocks with two ways in are left alone. *)
cut_edgeTwo(p) ==
  LET cutAt(q, v) ==
        IF inDegree(q, v) <= 2 THEN q
        ELSE FoldLeft(LAMBDA r, k : IF isCjump(r.jump[r.prednode[v][k]]) THEN between(r, v, k) ELSE r,
                      q, [k \in DOMAIN q.prednode[v] |-> k])
  IN  FoldLeft(cutAt, p, sorted(Nodes(p)))

(* cut_edge: an edge from a branch to a block with other ways in gets a    *)
(* block of its own.                                                       *)
cut_edge(p) ==
  LET cutAt(q, v) ==
        IF inDegree(q, v) <= 1 THEN q
        ELSE FoldLeft(LAMBDA r, k : IF isCjump(r.jump[r.prednode[v][k]]) THEN between(r, v, k) ELSE r,
                      q, [k \in DOMAIN q.prednode[v] |-> k])
  IN  FoldLeft(cutAt, p, sorted(Nodes(p)))

(* mergeNode: a block that only leads to w, and w only from it, become     *)
(* one; w is left without statements and edges.                            *)
mergeable(p) ==
  {v \in Nodes(p) :
     /\ inDegree(p, v) # 0 \/ v = 0
     /\ outDegree(p, v) = 1
     /\ \A w \in p.succ[v] : inDegree(p, w) = 1 /\ w # p.exit}

mergedOnce(p, v) ==
  LET w == CHOOSE x \in Nodes(p) : p.succ[v] = {x}
      other(u) == IF u = w THEN v ELSE u
  IN  [p EXCEPT
         !.body = (v :> (p.body[v] \o p.body[w])) @@ (w :> << >>) @@ @,
         !.jump = (v :> p.jump[w]) @@ (w :> Jump(w)) @@ @,
         !.succ = (v :> p.succ[w]) @@ (w :> {}) @@ @,
         !.prednode = [u \in Nodes(p) |->
                         IF u = w THEN << >>
                         ELSE IF u \in p.succ[w] THEN [k \in DOMAIN p.prednode[u] |-> other(p.prednode[u][k])]
                         ELSE p.prednode[u]]]

RECURSIVE mergeNode(_)
mergeNode(p) == IF mergeable(p) = {} THEN p ELSE mergeNode(mergedOnce(p, Min(mergeable(p))))

-----------------------------------------------------------------------------
(* placePhi: a phi function for x wherever a definition of x, or a phi     *)
(* function for it, has its dominance frontier; none at the end.           *)

defsites(p, x) == {v \in live(p) : x \in {getDef(s) : s \in ToSet(p.body[v])}}

RECURSIVE frontier(_, _, _)
frontier(p, F, S) ==
  LET N == S \cup UNION {F[v] \ {p.exit} : v \in S}
  IN  IF N = S THEN S ELSE frontier(p, F, N)

phiPlaces(p, F, x) == UNION {F[v] \ {p.exit} : v \in frontier(p, F, defsites(p, x))}

placePhi(p) ==
  LET F == DF(p)
      vars == sorted(UNION {{getDef(s) : s \in ToSet(p.body[v])} : v \in live(p)} \ {0})
      phi(x, v) == Phi(x, [k \in 1..inDegree(p, v) |-> T(x)])
      at(x) == phiPlaces(p, F, x)
      for(v) == LET xs == SelectSeq(vars, LAMBDA x : v \in at(x))
                IN  [k \in DOMAIN xs |-> phi(xs[k], v)]
  IN  [p EXCEPT !.body = [v \in Nodes(p) |-> IF v \in live(p) THEN for(v) \o p.body[v] ELSE p.body[v]]]

(* rename(node): uses get the temporary on top of the stack of their       *)
(* variable, definitions a new one, then the arguments of the phi          *)
(* functions of what follows, then the children; what was pushed is popped *)
(* on return: top, the tops of the stacks, is passed down only.            *)
(* vars holds which variable a phi function is for: the key of Aphi.       *)

currentUse(q, x) ==
  IF x \in DOMAIN q.top THEN [q |-> q, t |-> q.top[x]]
  ELSE [q |-> [q EXCEPT !.p.nt = @ + 1], t |-> q.p.nt]

(* The temporaries an operand list reads, one after the other. *)
currentArgs(q, us) ==
  FoldLeft(LAMBDA a, u : IF ~ isTemp(u) THEN [a EXCEPT !.us = Append(@, u)]
                         ELSE LET c == currentUse(a.q, u[2])
                              IN  [q |-> c.q, us |-> Append(a.us, T(c.t))],
           [q |-> q, us |-> << >>], us)

renamed(q, v, s) ==
  LET a == IF isphifunc(s) THEN [q |-> q, us |-> s.args] ELSE currentArgs(q, s.args)
      nt == a.q.p.nt
      r == [s EXCEPT !.args = a.us]
  IN  IF s.dst = 0 THEN [a.q EXCEPT !.p.body[v] = Append(@, r)]
      ELSE [a.q EXCEPT !.p.body[v] = Append(@, [r EXCEPT !.dst = nt]),
                       !.p.nt = nt + 1,
                       !.top = (s.dst :> nt) @@ @]

placeOf(p, v, w) == CHOOSE k \in DOMAIN p.prednode[w] : p.prednode[w][k] = v

(* The arguments the phi functions of w get from v. *)
argumentsFor(q, vars, v, w) ==
  LET one(r, k) ==
        IF ~ isphifunc(r.p.body[w][k]) THEN r
        ELSE LET c == currentUse(r, vars[w][k])
             IN  [c.q EXCEPT !.p.body[w][k].args[placeOf(r.p, v, w)] = T(c.t)]
  IN  FoldLeft(one, q, [k \in DOMAIN q.p.body[w] |-> k])

(* Mutant: what a child pushed stays on the stacks. *)
poppedNot(q, top) == q

popped(q, top) == [q EXCEPT !.top = top]

RECURSIVE renameNode(_, _, _, _)
renameNode(q, vars, ch, v) ==
  LET b == q.p.body[v]
      stms == FoldLeft(LAMBDA r, s : renamed(r, v, s), [q EXCEPT !.p.body[v] = << >>], b)
      j == currentArgs(stms, q.p.jump[v].args)
      jumped == [j.q EXCEPT !.p.jump[v].args = j.us]
      given == FoldLeft(LAMBDA r, w : argumentsFor(r, vars, v, w), jumped, sorted(q.p.succ[v]))
      down == FoldLeft(LAMBDA r, w : popped(renameNode(r, vars, ch, w), given.top), given, ch[v])
  IN  popped(down, q.top)

rename(p) ==
  LET vars == [v \in Nodes(p) |-> [k \in DOMAIN p.body[v] |-> p.body[v][k].dst]]
  IN  renameNode([p |-> p, top |-> none], vars, children(p), 0).p

-----------------------------------------------------------------------------
(* ssa2ir: the moves for one predecessor, in an order in which nothing is  *)
(* overwritten that is still to be read; a circle is cut with a new        *)
(* temporary (module PhiMoves has the steps).                              *)

RECURSIVE inOrder(_, _)
inOrder(q, ms) ==
  LET reads(t) == \E m \in ms : m.args[1] = T(t)
      free == {m \in ms : ~ reads(m.dst)}
      m == IF free # {} THEN CHOOSE x \in free : TRUE ELSE CHOOSE x \in ms : TRUE
  IN  IF ms = {} THEN q
      ELSE IF free # {} THEN inOrder([q EXCEPT !.code = Append(@, m)], ms \ {m})
      ELSE inOrder([code |-> Append(q.code, Move(q.nt, m.args[1])), nt |-> q.nt + 1],
                   (ms \ {m}) \cup {Move(m.dst, T(q.nt))})

movesFrom(p, v, k) ==
  LET phis == Aphi(p, v)
      ms == {Move(s.dst, s.args[k]) : s \in {x \in phis : x.args[k] # T(x.dst)}}
      o == inOrder([code |-> << >>, nt |-> p.nt], ms)
      u == p.prednode[v][k]
  IN  IF isCjump(p.jump[u]) THEN [p EXCEPT !.fail = "ssa2ir: a branch before a phi function"]
      ELSE [p EXCEPT !.body[u] = @ \o o.code, !.nt = o.nt]

ssa2ir(p) ==
  LET at(q, v) ==
        IF inDegree(q, v) <= 1 \/ Aphi(q, v) = {} THEN q
        ELSE LET r == FoldLeft(LAMBDA x, k : movesFrom(x, v, k), q, [k \in DOMAIN q.prednode[v] |-> k])
             IN  [r EXCEPT !.body[v] = SelectSeq(@, LAMBDA s : ~ isphifunc(s))]
  IN  FoldLeft(at, p, sorted(Nodes(p)))
=============================================================================
