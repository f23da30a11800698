------------------------------- MODULE GvnPre -------------------------------
(***************************************************************************)
(* Value numbering and the elimination of partial redundancies             *)
(* (Optimizer::PRE, src/src/ssa/GVN_PRE.cpp): every operand and every      *)
(* expression gets a value; what is sure to be computed behind a join and  *)
(* has been computed on one way into it is computed on the others too; and *)
(* a result whose value is there already is copied.                        *)
(*                                                                         *)
(* An expression is <<op, l, r>>, over values, or an operand.              *)
(***************************************************************************)
EXTENDS BuildSSA

isExp(e) == Len(e) = 3

(* Biexp::operator==: sums and products commute. *)
key(e) ==
  IF isExp(e) /\ e[1] \in {"+", "*"} THEN <<e[1], Min({e[2], e[3]}), Max({e[2], e[3]})>> ELSE e

(* findGV: the value of e, a new one (the number of a new temporary) if it *)
(* has none.  g.G is G_map.                                                *)
findGV(g, e) ==
  IF key(e) \in DOMAIN g.G THEN g
  ELSE [g EXCEPT !.G = (key(e) :> g.nt) @@ (T(g.nt) :> g.nt) @@ @, !.nt = @ + 1]

valueOf(g, e) == g.G[key(e)]

known(g, e) == key(e) \in DOMAIN g.G

(* The value n of e, if it has none yet (unordered_map::insert). *)
sameAs(g, e, n) == [g EXCEPT !.G = @ @@ (key(e) :> n)]

(* A tree in the order its nodes are visited, each with its father; -1 is  *)
(* the father of the root.                                                 *)
RECURSIVE preorder(_, _, _)
preorder(ch, v, fa) ==
  <<<<v, fa>>>> \o FlattenSeq([k \in DOMAIN ch[v] |-> preorder(ch, ch[v][k], v)])

-----------------------------------------------------------------------------
(* buildAvail: g.gen are the expressions of every block, g.own what it     *)
(* writes, phi functions apart, g.leader the first temporary that has a    *)
(* value where the block ends.                                             *)

generate(g, v, e) ==
  IF \E k \in DOMAIN g.gen[v] : valueOf(g, g.gen[v][k]) = valueOf(g, e) THEN g
  ELSE [g EXCEPT !.gen[v] = Append(@, e)]

numberBinop(g, v, s) ==
  LET g1 == findGV(findGV(g, s.args[1]), s.args[2])
      e == <<s.op, valueOf(g1, s.args[1]), valueOf(g1, s.args[2])>>
      g2 == findGV(g1, e)
      g3 == sameAs(g2, T(s.dst), valueOf(g2, e))
  IN  [g |-> generate(generate(generate(g3, v, s.args[1]), v, s.args[2]), v, e), val |-> valueOf(g2, e)]

(* A phi function whose arguments all have one value has it too. *)
numberPhi(g, s) ==
  LET alldef == \A u \in ToSet(s.args) : known(g, u)
      vals == {valueOf(g, u) : u \in ToSet(s.args)}
      g1 == IF alldef /\ Cardinality(vals) = 1 THEN sameAs(g, T(s.dst), CHOOSE n \in vals : TRUE)
            ELSE findGV(g, T(s.dst))
  IN  [g |-> g1, val |-> valueOf(g1, T(s.dst))]

(* Anything else has a value of its own; with zero added it is the same.   *)
numberOther(g, s) ==
  LET g1 == findGV(findGV(g, T(s.dst)), C(0))
      n == valueOf(g1, T(s.dst))
  IN  [g |-> sameAs(g1, <<"+", n, valueOf(g1, C(0))>>, n), val |-> n]

numberStm(g, v, s) ==
  LET put(r) == [r.g EXCEPT !.leader[v] = @ @@ (r.val :> s.dst),
                            !.own[v] = IF isphifunc(s) THEN @ ELSE @ \cup {s.dst}]
  IN  IF s.dst = 0 THEN g
      ELSE IF s.op = "move" /\ isConst(s.args[1]) THEN [g EXCEPT !.fail = "buildAvail: src is constx"]
      ELSE put(IF ismovebi(s) THEN numberBinop(g, v, s)
               ELSE IF isphifunc(s) THEN numberPhi(g, s) ELSE numberOther(g, s))

buildAvail(p, g) ==
  LET one(h, n) ==
        LET v == n[1]
            from == IF n[2] = -1 THEN none ELSE h.leader[n[2]]
        IN  FoldLeft(LAMBDA x, s : numberStm(x, v, s), [h EXCEPT !.leader[v] = from], p.body[v])
  IN  FoldLeft(one, g, preorder(children(p), 0, -1))

-----------------------------------------------------------------------------
(* buildAntic: g.antic[v] is what is computed on every way on from the     *)
(* beginning of v, operands before what they are operands of.              *)

(* The phi function of v for t, if there is one. *)
phiFor(p, v, t) == {s \in Aphi(p, v) : s.dst = t}

translated(em, n) == IF n \in DOMAIN em THEN em[n] ELSE n

(* An expression of w as it is at the end of its k-th predecessor; q.em    *)
(* has the values that differ.                                             *)
translate(p, q, w, k, e) ==
  LET phis == IF isTemp(e) THEN phiFor(p, w, e[2]) ELSE {}
      nw == IF phis # {} THEN (CHOOSE s \in phis : TRUE).args[k]
            ELSE IF isExp(e) THEN <<e[1], translated(q.em, e[2]), translated(q.em, e[3])>> ELSE e
      g1 == findGV(findGV(q.g, e), nw)
      old == valueOf(g1, e)
      new == valueOf(g1, nw)
  IN  [g |-> g1,
       em |-> IF old = new THEN q.em ELSE q.em @@ (old :> new),
       out |-> IF \E j \in DOMAIN q.out : valueOf(g1, q.out[j]) = new THEN q.out ELSE Append(q.out, nw)]

(* Mutant: what the first of the two computes counts for both. *)
anticOutFirst(p, g, v) ==
  LET nothing == [g |-> g, em |-> none, out |-> << >>]
      w == Min(p.succ[v])
      at(a) == CHOOSE k \in DOMAIN p.prednode[w] : p.prednode[w][k] = v
  IN  IF p.succ[v] = {} THEN nothing
      ELSE IF outDegree(p, v) = 1
           THEN FoldLeft(LAMBDA q, e : translate(p, q, w, at(0), e), nothing, g.antic[w])
      ELSE [nothing EXCEPT !.out = SelectSeq(g.antic[w], LAMBDA e : e \in ToSet(g.gen[w]))]

(* What is computed on every way on from the end of v.  With two ways on   *)
(* it is what the first and v itself have.                                 *)
anticOut(p, g, v) ==
  LET nothing == [g |-> g, em |-> none, out |-> << >>]
      w == Min(p.succ[v])
      at(a) == CHOOSE k \in DOMAIN p.prednode[w] : p.prednode[w][k] = v
      here == {valueOf(g, g.antic[v][k]) : k \in DOMAIN g.antic[v]}
  IN  IF p.succ[v] = {} THEN nothing
      ELSE IF outDegree(p, v) = 1
           THEN FoldLeft(LAMBDA q, e : translate(p, q, w, at(0), e), nothing, g.antic[w])
      ELSE [nothing EXCEPT !.out = SelectSeq(g.antic[w], LAMBDA e : valueOf(g, e) \in here)]

(* Without the expressions whose operands are gone. *)
cleaned(g, es) ==
  LET vals(s) == {valueOf(g, s[k]) : k \in DOMAIN s}
      keep(s, e) == IF isExp(e) /\ ~ {e[2], e[3]} \subseteq vals(s) THEN s ELSE Append(s, e)
  IN  FoldLeft(keep, << >>, es)

anticNode(p, g, v) ==
  LET own(e) == isTemp(e) /\ e[2] \in g.own[v]
      gen == SelectSeq(g.gen[v], LAMBDA e : ~ own(e))
      has(o, e) == \E k \in DOMAIN gen : valueOf(o.g, gen[k]) = valueOf(o.g, e)
      set(o, in) ==
        IF Len(in) < Len(g.antic[v]) THEN [g EXCEPT !.fail = "buildAntic: newin.size() >= anticIn.size()"]
        ELSE [o.g EXCEPT !.antic[v] = in]
      after(o) == set(o, cleaned(o.g, gen \o SelectSeq(o.out, LAMBDA e : ~ own(e) /\ ~ has(o, e))))
  IN  after(anticOut(p, g, v))

(* Behind which nodes every way to the end leads by v. *)
postTree(p) ==
  LET L == live(p)
      post == table([d \in L |-> IF d = p.exit THEN L ELSE L \ leadingTo(p, d, {p.exit})])
  IN  table([d \in L |-> sorted({v \in post[d] \ {d} : \A e \in L : e # v /\ v \in post[e] => d \in post[e]})])

RECURSIVE buildAntic(_, _, _)
buildAntic(p, g, order) ==
  LET goOn(h) == IF h.fail # "" \/ h.antic = g.antic THEN h ELSE buildAntic(p, h, order)
  IN  goOn(FoldLeft(LAMBDA x, n : anticNode(p, x, n[1]), g, order))

-----------------------------------------------------------------------------
(* insertPRE *)

(* Values of numbers and names are there everywhere (vG_map). *)
everywhere(g) == {g.G[u] : u \in {x \in DOMAIN g.G : isConst(x) \/ isName(x)}}

operandsFor(g, u, n) ==
  IF n \in DOMAIN g.leader[u] THEN {T(g.leader[u][n])}
  ELSE {x \in DOMAIN g.G : (isConst(x) \/ isName(x)) /\ g.G[x] = n}

(* The expression e is computed at the end of u. *)
computeIn(q, u, e) ==
  LET t == q.p.nt
      n == valueOf(q.g, e)
      ls == operandsFor(q.g, u, e[2])
      rs == operandsFor(q.g, u, e[3])
      l == CHOOSE x \in ls : TRUE
      r == CHOOSE x \in rs : TRUE
  IN  IF n \in DOMAIN q.g.leader[u] \/ q.fail # "" THEN q
      ELSE IF ls = {} \/ rs = {} THEN [q EXCEPT !.fail = "insertPRE: vG_map.at"]
      ELSE [q EXCEPT !.p.body[u] = Append(@, Binop(t, e[1], l, r)), !.p.nt = t + 1,
                     !.g = sameAs([@ EXCEPT !.leader[u] = @ @@ (n :> t)], T(t), n)]

(* A phi function of v for the value n, that has the expressions es on the *)
(* ways into v.                                                            *)
joinValue(q, v, n, es) ==
  LET us == q.p.prednode[v]
      r == FoldLeft(LAMBDA x, k : computeIn(x, us[k], es[k]), q, [k \in DOMAIN us |-> k])
      args == << >> \o [k \in DOMAIN us |-> T(r.g.leader[us[k]][valueOf(r.g, es[k])])]
      t == r.p.nt
  IN  IF r.fail # "" THEN r
      ELSE [r EXCEPT !.p.body[v] = <<Phi(t, args)>> \o @, !.p.nt = t + 1,
                     !.g = sameAs([@ EXCEPT !.leader[v] = (n :> t) @@ @], T(t), n)]

partly(has) == (\E k \in DOMAIN has : has[k]) /\ ~ (\A k \in DOMAIN has : has[k])

(* One expression of antic[v]; q.em[k] has the values that differ on the   *)
(* k-th way.                                                               *)
insertFor(q, v, e) ==
  LET us == q.p.prednode[v]
      n == valueOf(q.g, e)
      phis == IF isTemp(e) THEN phiFor(q.p, v, e[2]) ELSE {}
      on(k) == IF phis # {} THEN (CHOOSE s \in phis : TRUE).args[k]
               ELSE IF isExp(e) THEN <<e[1], translated(q.em[k], e[2]), translated(q.em[k], e[3])>> ELSE e
      es == << >> \o [k \in DOMAIN us |-> on(k)]
      em == [k \in DOMAIN us |-> IF valueOf(q.g, es[k]) = n THEN q.em[k] ELSE q.em[k] @@ (n :> valueOf(q.g, es[k]))]
      has == [k \in DOMAIN us |-> valueOf(q.g, es[k]) \in DOMAIN q.g.leader[us[k]]]
      r == [q EXCEPT !.em = << >> \o em]
  IN  IF q.fail # "" THEN q
      ELSE IF \E k \in DOMAIN us : ~ known(q.g, es[k]) THEN [q EXCEPT !.fail = "insertPRE: G_map.at"]
      ELSE IF isExp(e) THEN IF partly(has) THEN joinValue(r, v, n, es) ELSE r
      ELSE IF \A k \in DOMAIN us : has[k] \/ valueOf(q.g, es[k]) \in q.every THEN r
      ELSE [q EXCEPT !.fail = "insertPRE: vG_map or avail_map"]

insertNode(q, v) ==
  IF inDegree(q.p, v) <= 1 THEN q
  ELSE FoldLeft(LAMBDA x, e : insertFor(x, v, e),
                [q EXCEPT !.em = << >> \o [k \in DOMAIN q.p.prednode[v] |-> none]], q.g.antic[v])

insertPRE(p, g) ==
  FoldLeft(LAMBDA q, n : insertNode(q, n[1]),
           [p |-> [p EXCEPT !.nt = g.nt], g |-> g, em |-> << >>, every |-> everywhere(g), fail |-> g.fail],
           preorder(children(p), 0, -1))

-----------------------------------------------------------------------------
(* deletePRE: a result whose value another temporary has first is a copy.  *)
deletenode(q, v) ==
  LET leader(s) == q.g.leader[v][valueOf(q.g, T(s.dst))]
      missing == {s \in ToSet(q.p.body[v]) : s.dst # 0 /\ valueOf(q.g, T(s.dst)) \notin DOMAIN q.g.leader[v]}
      copied(s) == IF s.dst = 0 \/ leader(s) = s.dst THEN s ELSE Move(s.dst, T(leader(s)))
  IN  IF missing # {} THEN [q EXCEPT !.fail = "deletenode: avail_map"]
      ELSE [q EXCEPT !.p.body[v] = each(@, copied)]

deletePRE(q) == FoldLeft(LAMBDA r, n : IF r.fail = "" THEN deletenode(r, n[1]) ELSE r, q, preorder(children(q.p), 0, -1))

PRE(f) ==
  LET p == cut_edge(f)
      begin == [G |-> none, nt |-> p.nt, fail |-> "",
                gen |-> table([v \in Nodes(p) |-> << >>]), own |-> table([v \in Nodes(p) |-> {}]),
                leader |-> table([v \in Nodes(p) |-> none]), antic |-> table([v \in Nodes(p) |-> << >>])]
      replaced(q) == [q.p EXCEPT !.fail = q.fail]
      inserted(g) == IF g.fail # "" THEN [p |-> p, fail |-> g.fail] ELSE deletePRE(insertPRE(p, g))
      numbered(g) == IF g.fail # "" THEN g ELSE buildAntic(p, g, preorder(postTree(p), p.exit, -1))
  IN  replaced(inserted(numbered(buildAvail(p, begin))))
=============================================================================
