------------------------------ MODULE DeadCode ------------------------------
(***************************************************************************)
(* Dead code elimination (SSA::DCE, src/src/ssa/deadCodeElimilation.cpp):  *)
(* statements with an effect are marked, and what they depend on, by data  *)
(* and by control; the rest goes, and jumps go to the next block that has  *)
(* something marked in it.                                                 *)
(*                                                                         *)
(* <<v, k>> is the k-th statement of block v, <<v, 0>> its label, and      *)
(* <<v, -1>> its jump.                                                     *)
(***************************************************************************)
EXTENDS SSAProgram

label(v) == <<v, 0>>
jumpOf(v) == <<v, -1>>
stmAt(p, i) == IF i[2] = -1 THEN p.jump[i[1]] ELSE IF i[2] = 0 THEN nopStm ELSE p.body[i[1]][i[2]]

(* Mutant: a phi function counts as a call. *)
isNecessaryStmPhi(s) == isStr(s) \/ isCall(s)

isNecessaryStm(s) == isStr(s) \/ (isCall(s) /\ ~ isphifunc(s))

(* Control dependence: the frontiers of the reversed graph, and theirs in  *)
(* turn (module Dominators).                                               *)
RECURSIVE spread(_, _)
spread(F, S) == LET N == S \cup UNION {F[v] : v \in S} IN IF N = S THEN S ELSE spread(F, N)

CDnode(p) ==
  LET L == live(p)
      post == table([d \in L |-> IF d = p.exit THEN L ELSE L \ leadingTo(p, d, {p.exit})])
      F == table([d \in L |-> {y \in L : y \notin post[d] \ {d} /\ p.succ[y] \cap post[d] # {}}])
  IN  table([v \in Nodes(p) |-> IF v \in L THEN spread(F, F[v]) ELSE {}])

(* setup: the statements that are needed whatever uses them, and the label *)
(* of the end.                                                             *)
seeds(p) ==
  {label(p.exit)} \cup
  UNION {{<<v, k>> : k \in {j \in DOMAIN p.body[v] : isNecessaryStm(p.body[v][j])}} : v \in Nodes(p)}

tempDef(p) ==
  LET at == UNION {{<<v, k>> : k \in DOMAIN p.body[v]} : v \in Nodes(p)}
  IN  table([t \in {stmAt(p, i).dst : i \in at} \ {0} |-> CHOOSE i \in at : stmAt(p, i).dst = t])

(* The branches that decide whether v is executed. *)
branches(p, cd, v) == {jumpOf(u) : u \in {w \in cd[v] : isCjump(p.jump[w])}}

(* Mutant: what decides whether the block is executed is left out. *)
neededByData(p, cd, def, i) == {def[t] : t \in getUses(stmAt(p, i)) \cap DOMAIN def}

(* What a marked statement needs: where its operands are written, the      *)
(* branches its block depends on, and for a phi function those its         *)
(* predecessors depend on.                                                 *)
neededBy(p, cd, def, i) ==
  LET s == stmAt(p, i)
  IN  {def[t] : t \in getUses(s) \cap DOMAIN def}
        \cup branches(p, cd, i[1])
        \cup IF isphifunc(s) THEN UNION {branches(p, cd, u) : u \in preds(p, i[1])} ELSE {}

RECURSIVE closure(_, _, _, _)
closure(p, cd, def, S) ==
  LET N == S \cup UNION {neededBy(p, cd, def, i) : i \in S}
  IN  IF N = S THEN S ELSE closure(p, cd, def, N)

(* bfsMark: ActivatedStm *)
activated(p) == closure(p, CDnode(p), tempDef(p), seeds(p))

(* FindNextAcitveNode: depth first, the first block of B; old is the block *)
(* last left behind, oldParentKey.                                         *)
RECURSIVE search(_, _, _, _)
search(p, B, q, v) ==
  IF q.found # {} THEN q
  ELSE IF v \in B THEN [q EXCEPT !.found = {v}]
  ELSE FoldLeft(LAMBDA r, w : IF w \in r.vis THEN r ELSE search(p, B, [r EXCEPT !.vis = @ \cup {w}], w),
                [q EXCEPT !.old = v], sorted(p.succ[v]))

FindNextActiveNode(p, B, v, w) == search(p, B, [vis |-> {w}, found |-> {}, old |-> v], w)

(* The edges that lead from v by way of w: to the last block passed, if    *)
(* any was, and from there on.                                             *)
edgesBy(v, f) == (IF f.old # v THEN {<<v, f.old>>} ELSE {}) \cup {<<f.old, u>> : u \in f.found}

relabelled(j, k, v, f) == IF f.old # v THEN [j EXCEPT !.to[k] = f.old] ELSE j

(* One round of elimilation for block v: its jump, the edges, what comes   *)
(* next.  A marked branch goes both ways, any other jump one.              *)
bothWays(p, B, v) ==
  FoldLeft(LAMBDA q, w :
             LET f == FindNextActiveNode(p, B, v, w)
                 k == IF q.jump.to[1] = w THEN 1 ELSE 2
             IN  IF w \notin ToSet(q.jump.to) THEN q
                 ELSE [jump |-> relabelled(q.jump, k, v, f),
                       edges |-> q.edges \cup edgesBy(v, f),
                       next |-> q.next \cup f.found],
           [jump |-> p.jump[v], edges |-> {}, next |-> {}], sorted(p.succ[v]))

oneWay(p, B, v) ==
  LET fs == [w \in p.succ[v] |-> FindNextActiveNode(p, B, v, w)]
      w == Min({u \in p.succ[v] : fs[u].found # {}})
  IN  [jump |-> p.jump[v], edges |-> edgesBy(v, fs[w]), next |-> fs[w].found]

around(p, A, B, v) ==
  IF p.succ[v] = {} THEN [jump |-> p.jump[v], edges |-> {}, next |-> {}]
  ELSE IF jumpOf(v) \in A THEN bothWays(p, B, v) ELSE oneWay(p, B, v)

(* elimilation: what is not marked goes from the blocks visited, and every *)
(* block gets its new edges; with one way out its jump leads there.        *)
elimilation(p, A, B) ==
  LET kept(v) == LET ks == SelectSeq([k \in DOMAIN p.body[v] |-> k], LAMBDA k : <<v, k>> \in A)
                 IN  [j \in DOMAIN ks |-> p.body[v][ks[j]]]
      left(go, V, succ) ==
       [p EXCEPT
          !.body = [v \in Nodes(p) |-> IF v \in V THEN kept(v) ELSE p.body[v]],
          !.succ = succ,
          !.jump = [v \in Nodes(p) |->
                      IF Cardinality(succ[v]) = 1 THEN Jump(CHOOSE w \in succ[v] : TRUE)
                      ELSE IF v \in V THEN go[v].jump ELSE p.jump[v]]]
      to(go, V, E) == left(go, V, table([v \in Nodes(p) |-> {e[2] : e \in {d \in E : d[1] = v}}]))
      by(go, V) == to(go, V, UNION {go[v].edges : v \in V})
      from(go) == by(go, spread(table([v \in live(p) |-> go[v].next]), {0}))
  IN  from(table([v \in live(p) |-> around(p, A, B, v)]))

cleanup(p) == oneWayPhis(p)

cleanNotActiveNode(p, B) ==
  [p EXCEPT !.body = [v \in Nodes(p) |-> IF v \in B THEN p.body[v] ELSE << >>],
            !.prednode = [v \in Nodes(p) |-> IF v \in B THEN p.prednode[v] ELSE sorted(preds(p, v))]]

deadCodeElimilation(p) ==
  LET only(A, B) == cleanNotActiveNode(cleanup(elimilation(p, A, B)), B)
      for(A) == only(A, {i[1] : i \in A})
  IN  for(activated(p))

(* Every result is read somewhere. *)
EveryResultUsed(p) ==
  LET used == UNION {getUses(s) : s \in UNION {ToSet(p.body[v]) \cup {p.jump[v]} : v \in live(p)}}
  IN  \A v \in live(p) : \A s \in ToSet(p.body[v]) : s.dst # 0 /\ s.op # "getint" => s.dst \in used
=============================================================================
