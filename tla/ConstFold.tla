------------------------------ MODULE ConstFold ------------------------------
(***************************************************************************)
(* What constant propagation makes of the function once it has marked it   *)
(* (SSA::CP, src/src/ssa/constantPropagation.cpp): blocks that are not     *)
(* reached go, constants take the place of temporaries, copies and phi     *)
(* functions that are copies go.  Module ConstProp has the marking step by *)
(* step; here it is the fixpoint it finds.                                 *)
(***************************************************************************)
EXTENDS SSAProgram

Udf == <<"udf">>
Idf == <<"idf">>

(* Every temporary that is written has a value; others are indefinite.     *)
condOf(m, u) == IF isConst(u) THEN u ELSE IF isTemp(u) /\ u[2] \in DOMAIN m.cond THEN m.cond[u[2]] ELSE Idf

(* The arguments of a phi function that come from blocks reached.          *)
comesIn(p, m, v, s) ==
  {condOf(m, s.args[k]) : k \in {j \in DOMAIN s.args : p.prednode[v][j] \in m.reached}} \ {Udf}

doDef(p, m, v, s) ==
  LET a == [k \in DOMAIN s.args |-> condOf(m, s.args[k])]
      in == comesIn(p, m, v, s)
  IN  CASE isphifunc(s) -> IF Idf \in in \/ Cardinality(in) > 1 THEN Idf
                           ELSE IF in = {} THEN Udf ELSE CHOOSE c \in in : TRUE
        [] s.op = "move" -> a[1]
        [] ismovebi(s) -> IF Idf \in ToSet(a) THEN Idf
                          ELSE IF Udf \in ToSet(a) THEN Udf ELSE C(Calc(s.op, a[1][2], a[2][2]))
        [] OTHER -> Idf

(* Where the jump of v leads, as far as is known. *)
doJump(p, m, v) ==
  LET j == p.jump[v]
      a == [k \in DOMAIN j.args |-> condOf(m, j.args[k])]
  IN  IF ~ isCjump(j) \/ Idf \in ToSet(a) THEN p.succ[v]
      ELSE IF Udf \in ToSet(a) THEN {}
      ELSE p.succ[v] \cap {IF Holds(j.op, a[1][2], a[2][2]) THEN j.to[1] ELSE j.to[2]}

RECURSIVE bfsMark(_, _)
bfsMark(p, m) ==
  LET def(n, v, s) == IF s.dst = 0 THEN n ELSE [n EXCEPT !.cond = (s.dst :> doDef(p, n, v, s)) @@ @]
      jump(n, v) == [n EXCEPT !.reached = @ \cup doJump(p, n, v)]
      one(n, v) == jump(FoldLeft(LAMBDA o, s : def(o, v, s), n, p.body[v]), v)
      goOn(r) == IF r = m THEN m ELSE bfsMark(p, r)
  IN  goOn(FoldLeft(one, m, sorted(m.reached)))

(* tempCondition and blockCondition in the end. *)
marked(p) ==
  LET temps == {s.dst : s \in statements(p)} \ {0}
  IN  bfsMark(p, [cond |-> [t \in temps |-> Udf], reached |-> {0}])

-----------------------------------------------------------------------------
dropAt(s, k) == RemoveAt(s, k)

(* Mutant: in a block without phi functions the place is kept. *)
cutOneArguments(p, v, w) ==
  LET at == {k \in DOMAIN p.prednode[w] : p.prednode[w][k] = v}
      k == Min(at)
      cut(s) == IF isphifunc(s) THEN [s EXCEPT !.args = dropAt(@, k)] ELSE s
      q == rmEdge(p, v, w)
  IN  IF at = {} THEN [p EXCEPT !.fail = "cutEdge: cnt != prednode size"]
      ELSE IF Aphi(p, w) = {} THEN q
      ELSE [q EXCEPT !.prednode[w] = dropAt(@, k), !.body[w] = each(@, cut)]

(* The edge from v to w goes, with its place in the list of predecessors   *)
(* and the arguments of the phi functions that belong to it.               *)
cutOne(p, v, w) ==
  LET at == {k \in DOMAIN p.prednode[w] : p.prednode[w][k] = v}
      k == Min(at)
      cut(s) == IF isphifunc(s) THEN [s EXCEPT !.args = dropAt(@, k)] ELSE s
      q == rmEdge(p, v, w)
  IN  IF at = {} THEN [p EXCEPT !.fail = "cutEdge: cnt != prednode size"]
      ELSE [q EXCEPT !.prednode[w] = dropAt(@, k),
                     !.body[w] = each(@, cut)]

(* A block without predecessors left loses its successors too. *)
RECURSIVE cutEdge(_, _, _)
cutEdge(p, v, w) ==
  LET q == cutOne(p, v, w)
  IN  IF q.fail # "" \/ preds(q, w) # {} THEN q
      ELSE FoldLeft(LAMBDA r, x : IF x \in r.succ[w] THEN cutEdge(r, w, x) ELSE r, q, sorted(q.succ[w]))

unreachedCut(p, v) ==
  LET q == FoldLeft(LAMBDA r, u : rmEdge(r, u, v), p, sorted(preds(p, v)))
      r == FoldLeft(LAMBDA x, w : IF w \in x.succ[v] THEN cutEdge(x, v, w) ELSE x, q, sorted(q.succ[v]))
  IN  [r EXCEPT !.body = (v :> << >>) @@ @, !.jump = (v :> Jump(v)) @@ @]

isConstant(m, t) == t \in DOMAIN m.cond /\ isConst(m.cond[t])

constantFor(m, t) == IF isConstant(m, t) THEN m.cond[t] ELSE T(t)

(* A branch of which one way is not reached becomes a jump. *)
jumpLeft(p, m, j) ==
  LET reached == {l \in ToSet(j.to) : l \in m.reached}
  IN  IF isCjump(j) /\ Cardinality(reached) = 1 THEN Jump(CHOOSE l \in reached : TRUE) ELSE j

constantsIn(p, m, v) ==
  LET kept == SelectSeq(p.body[v], LAMBDA s : ~ (s.dst # 0 /\ isConstant(m, s.dst)))
      for(t) == constantFor(m, t)
      replaced(s) == usesReplaced(s, for)
  IN  [p EXCEPT !.body = (v :> each(kept, replaced)) @@ @,
                !.jump = (v :> jumpLeft(p, m, replaced(p.jump[v]))) @@ @]

replaceTemp(p, m) ==
  FoldLeft(LAMBDA q, v : IF v \in m.reached THEN constantsIn(q, m, v) ELSE unreachedCut(q, v),
           p, sorted(Nodes(p)))

-----------------------------------------------------------------------------
(* checkCopy and cleanCopy: where a temporary is copied from is read       *)
(* instead of it.                                                          *)

isCopy(s) == s.op = "move" /\ isTemp(s.args[1])

copiedFrom(p) ==
  LET cs == {s \in UNION {ToSet(p.body[v]) : v \in Nodes(p)} : isCopy(s)}
  IN  [t \in {s.dst : s \in cs} |-> (CHOOSE s \in cs : s.dst = t).args[1][2]]

withoutCopies(p, for(_)) ==
  LET replaced(s) == usesReplaced(s, for)
      body(v) == each(SelectSeq(p.body[v], LAMBDA s : ~ isCopy(s)), replaced)
  IN  withBodies([p EXCEPT !.jump = [v \in DOMAIN @ |-> replaced(@[v])] @@ @], body)

RECURSIVE root(_, _)
root(f, t) == IF t \in DOMAIN f THEN root(f, f[t]) ELSE t

cleanCopy(p) ==
  LET f == copiedFrom(p)
      for(t) == T(root(f, t))
  IN  withoutCopies(p, for)

(* The one argument of a phi function that is not itself; none if others.  *)
onlyArgument(s) ==
  LET other == SelectSeq(s.args, LAMBDA u : u # T(s.dst))
  IN  IF Len(other) = 1 THEN ToSet(other) ELSE {}

(* cleanSpPhi: a phi function with one such argument becomes a move behind *)
(* those of the block.                                                     *)
cleanSpPhi(p) ==
  LET sp(s) == isphifunc(s) /\ onlyArgument(s) # {}
      moves(v) == LET ss == SelectSeq(p.body[v], sp)
                  IN  each(ss, LAMBDA s : Move(s.dst, CHOOSE u \in onlyArgument(s) : TRUE))
      phis(v) == SelectSeq(p.body[v], LAMBDA s : isphifunc(s) /\ ~ sp(s))
      rest(v) == SelectSeq(p.body[v], LAMBDA s : ~ isphifunc(s))
      body(v) == phis(v) \o moves(v) \o rest(v)
  IN  withBodies(p, body)

(* The constructor of CP. *)
constantPropagation(p) ==
  LET clean(q) == IF q.fail # "" THEN q ELSE cleanCopy(cleanSpPhi(cleanCopy(oneWayPhis(q))))
  IN  clean(replaceTemp(p, marked(p)))
=============================================================================
