----------------------------- MODULE StrengthRed -----------------------------
(***************************************************************************)
(* Operator strength reduction (OSR, src/src/ssa/osr.cpp): the strongly    *)
(* connected sets of temporaries that read one another are looked for      *)
(* induction variables, and what multiplies one by a constant of the loop, *)
(* or adds one to it, becomes a copy of the induction variable with every  *)
(* value multiplied, or with it added.                                     *)
(*                                                                         *)
(* s is the state of the pass: s.p the function, s.header what it is for   *)
(* an induction variable, s.ivmp the temporaries made so far, s.res the    *)
(* last one asked for; s.edges, s.num, s.low, s.stk, s.next are those of   *)
(* the search for the sets; s.dfn and s.tree number the blocks (class      *)
(* Loop_Nesting_Tree, src/src/ssa/DFSCFG.cpp), s.fresh is what the new     *)
(* entries of dtreeinfo have in dfsnum, which nothing initialises, and     *)
(* s.old the first temporary that the pass itself has made.                *)
(***************************************************************************)
EXTENDS SSAProgram

(* dfsHead: the number of every block in a search over the successors. *)
RECURSIVE dfsHead(_, _, _)
dfsHead(p, dfn, v) ==
  FoldLeft(LAMBDA d, w : IF w \in DOMAIN d THEN d ELSE dfsHead(p, d, w),
           (v :> Cardinality(DOMAIN dfn) + 1) @@ dfn, sorted(p.succ[v]))

(* dfsDTree: the blocks in the order of the dominator tree. *)
RECURSIVE dfsDTree(_, _)
dfsDTree(ch, v) == <<v>> \o FlattenSeq(each(ch[v], LAMBDA w : dfsDTree(ch, w)))

dtreeinfo(p) ==
  LET ch == children(p)
      order == dfsDTree(ch, 0)
  IN  table([v \in ToSet(order) |->
         [dfsnum |-> CHOOSE k \in DOMAIN order : order[k] = v, size |-> Len(dfsDTree(ch, v))]])

(* is_StrictlyDominate, of a block and of what ought to be one. *)
is_StrictlyDominate(s, pa, ch) ==
  LET n == IF ch \in DOMAIN s.tree THEN s.tree[ch].dfsnum ELSE s.fresh
  IN  s.tree[pa].dfsnum < n /\ n < s.tree[pa].dfsnum + s.tree[pa].size

-----------------------------------------------------------------------------
places(p) == UNION {{<<v, k>> : k \in DOMAIN p.body[v]} : v \in Nodes(p)}
written(p) == {st.dst : st \in statements(p)} \ {0}
placeOfDef(p, t) == CHOOSE i \in places(p) : p.body[i[1]][i[2]].dst = t
defStm(p, t) == LET i == placeOfDef(p, t) IN p.body[i[1]][i[2]]

(* tempDefBlockMap[t]: block 0 if t is not in it. *)
defBlock(p, t) == IF t \in written(p) THEN placeOfDef(p, t)[1] ELSE 0

insertAfter(p, i, st) == [p EXCEPT !.body[i[1]] = InsertAt(@, i[2] + 1, st)]

(* cleanNoDefTemp: what nothing writes is 0. *)
cleanNoDefTemp(p) ==
  LET defs == written(p)
      for(t) == IF t \in defs THEN T(t) ELSE C(0)
      inBody(v) == each(p.body[v], LAMBDA st : usesReplaced(st, for))
  IN  [withBodies(p, inBody) EXCEPT !.jump = table([v \in DOMAIN @ |-> usesReplaced(@[v], for)])]

(* buildSSAGraph: what the statement that writes t reads, in order. *)
buildSSAGraph(p) ==
  table([t \in written(p) |->
     [k \in DOMAIN SelectSeq(defStm(p, t).args, isTemp) |-> SelectSeq(defStm(p, t).args, isTemp)[k][2]]])

-----------------------------------------------------------------------------
(* No induction variable: -1. *)
notIV == -1

isiv(s, u) == isTemp(u) /\ u[2] \in DOMAIN s.header /\ s.header[u[2]] # notIV

(* A constant of the loop: the block that writes it is compared with the   *)
(* temporary the loop is named after.                                      *)
isrc(s, u, hder) == isConst(u) \/ (isTemp(u) /\ is_StrictlyDominate(s, defBlock(s.p, u[2]), hder))

(* What st computes from an induction variable and a constant of the loop: *)
(* nothing, or the operation, the variable and the constant.               *)
IsCandidateOperation(s, st) ==
  LET l == st.args[1] r == st.args[2]
      constant(iv, rc) == IF isrc(s, rc, s.header[iv[2]]) THEN {<<st.op, iv, rc>>} ELSE {}
  IN  CASE st.op \in {"*", "+"} /\ isiv(s, l) -> constant(l, r)
        [] st.op \in {"*", "+"} /\ ~ isiv(s, l) /\ isiv(s, r) -> constant(r, l)
        [] st.op = "-" /\ isiv(s, l) -> constant(l, r)
        [] st.op = "move" /\ isiv(s, l) -> {<<"+", l, C(0)>>}
        [] OTHER -> {}

IsUpdateValid(st) ==
  st.op \in {"+", "-"} \/ isphifunc(st) \/ (st.op = "move" /\ isTemp(st.args[1]))

-----------------------------------------------------------------------------
failing(s, why) == [s EXCEPT !.p.fail = why]

(* header[t] of a map: 0 is entered for a temporary that is not in it. *)
touched(s, u) == IF isTemp(u) THEN [s EXCEPT !.header = @ @@ (u[2] :> 0)] ELSE s

(* Where the new operation on a and b goes: behind the statement that      *)
(* writes the operand of the block found later, and behind phi functions.  *)
applyPlace(s, a, b) ==
  LET p == s.p
      blockOf(u) == defBlock(p, u[2])
      lb == IF isTemp(a) /\ isTemp(b)
            THEN IF s.dfn[blockOf(a)] < s.dfn[blockOf(b)] THEN blockOf(b) ELSE blockOf(a)
            ELSE IF isTemp(a) THEN blockOf(a) ELSE blockOf(b)
      at == {k \in DOMAIN p.body[lb] : \E u \in {a, b} : isTemp(u) /\ p.body[lb][k].dst = u[2]}
      phisTo(k) == \A j \in (Max(at) + 1)..k : isphifunc(p.body[lb][j])
  IN  IF at = {} THEN {} ELSE {<<lb, Max({k \in Max(at)..Len(p.body[lb]) : phisTo(k)})>>}

made(s, key, i) ==
  LET nt == s.p.nt
  IN  [s EXCEPT !.p = insertAfter([@ EXCEPT !.nt = nt + 1], i, Binop(nt, key[1], key[2], key[3])),
                !.ivmp = (key :> nt) @@ @, !.header = (nt :> notIV) @@ @, !.res = nt]

setOperand(s, t, k, x) ==
  LET i == placeOfDef(s.p, t) IN [s EXCEPT !.p.body[i[1]][i[2]].args[k] = x]

RECURSIVE Reduce(_, _, _, _), Apply(_, _, _, _), ApplySwapped(_, _, _, _)

(* The k-th operand of the copy nt of what writes iv. *)
operandReduced(s, op, iv, rc, nt, k) ==
  LET st == defStm(s.p, nt)
      u == st.args[k]
      inLoop == isTemp(u) /\ u[2] \in DOMAIN s.header /\ s.header[u[2]] = s.header[iv[2]]
      set(r) == setOperand(r, nt, k, T(r.res))
  IN  IF isName(u) THEN failing(s, "getOps: a name")
      ELSE IF inLoop THEN set(Reduce(s, op, u, rc))
      ELSE IF op = "*" \/ isphifunc(st) THEN set(Apply(s, op, u, rc)) ELSE s

(* iv op rc for an induction variable: a copy nt of what writes iv, behind *)
(* it, with its operands reduced in turn.                                  *)
Reduce(s, op, iv, rc) ==
  LET key == <<op, iv, rc>>
      nt == s.p.nt
      i == placeOfDef(s.p, iv[2])
      st == defStm(s.p, iv[2])
      copied == [s EXCEPT !.p = insertAfter([@ EXCEPT !.nt = nt + 1], i, [st EXCEPT !.dst = nt]),
                          !.ivmp = (key :> nt) @@ @, !.header = (nt :> s.header[iv[2]]) @@ @]
  IN  IF s.p.fail # "" THEN s
      ELSE IF key \in DOMAIN s.ivmp THEN [s EXCEPT !.res = s.ivmp[key]]
      ELSE IF ~ (ismovebi(st) \/ isCall(st)) THEN failing(s, "getOps: neither a sum nor a call")
      ELSE [FoldLeft(LAMBDA q, k : IF q.p.fail # "" THEN q ELSE operandReduced(q, op, iv, rc, nt, k),
                     copied, [k \in DOMAIN st.args |-> k])
              EXCEPT !.res = nt]

(* a op b for any two operands. *)
Apply(s, op, a, b) ==
  LET q == touched(s, a)
  IN  IF s.p.fail # "" THEN s
      ELSE IF <<op, a, b>> \in DOMAIN s.ivmp THEN [s EXCEPT !.res = s.ivmp[<<op, a, b>>]]
      ELSE IF isiv(q, a) /\ isrc(q, b, q.header[a[2]]) THEN Reduce(q, op, a, b)
      ELSE ApplySwapped(touched(q, b), op, a, b)

ApplySwapped(s, op, a, b) ==
  LET at == applyPlace(s, a, b)
  IN  IF isiv(s, b) /\ isrc(s, a, s.header[b[2]]) THEN Reduce(s, op, b, a)
      ELSE IF isConst(a) /\ isConst(b) THEN made(s, <<op, a, b>>, <<0, 0>>)
      ELSE IF at = {} THEN failing(s, "Apply: assert(tg)")
      ELSE made(s, <<op, a, b>>, CHOOSE i \in at : TRUE)

(* What read x reads what the reduction gives; the copies are not in       *)
(* uselog.                                                                 *)
Replace(s, x, key) ==
  LET logged(st, for(_)) == IF st.dst < s.old THEN usesReplaced(st, for) ELSE st
      read(r, p, i) ==
        LET for(t) == IF t = x THEN T(r.res) ELSE T(t)
        IN  [withBodies(p, LAMBDA v : each(p.body[v], LAMBDA st : logged(st, for)))
               EXCEPT !.jump = table([v \in DOMAIN @ |-> logged(@[v], for)]), !.body[i[1]][i[2]] = nopStm]
      after(r) ==
        IF r.p.fail # "" THEN r
        ELSE [r EXCEPT !.p = read(r, @, placeOfDef(@, x)), !.header = (r.res :> r.header[key[2][2]]) @@ @]
  IN  after(Reduce(s, key[1], key[2], key[3]))

replaceOrNot(s, x) ==
  LET c == IsCandidateOperation(s, defStm(s.p, x))
  IN  IF s.p.fail # "" THEN s
      ELSE IF c = {} THEN [s EXCEPT !.header = (x :> notIV) @@ @] ELSE Replace(s, x, CHOOSE key \in c : TRUE)

(* ClassifyIV: the set is one of induction variables if all are sums, phi  *)
(* functions or copies, and none reads a constant of the loop that is not  *)
(* in the set; the loop is named after the member found first.             *)
ClassifyIV(s, N) ==
  LET num(t) == s.dfn[defBlock(s.p, t)]
      hder == Min({t \in N : \A u \in N : num(t) <= num(u)})
      IsIV == \A t \in N :
                /\ IsUpdateValid(defStm(s.p, t))
                /\ \A u \in ToSet(s.edges[t]) \ N : ~ isrc(s, T(u), hder)
  IN  IF IsIV THEN [s EXCEPT !.header = [t \in N |-> hder] @@ @]
      ELSE FoldLeft(replaceOrNot, s, sorted(N))

Process(s, N) ==
  IF Cardinality(N) = 1 THEN replaceOrNot(s, CHOOSE t \in N : TRUE) ELSE ClassifyIV(s, N)

-----------------------------------------------------------------------------
(* DFS: a set is processed when all that it reads has been. *)
RECURSIVE DFS(_, _)
DFS(s, x) ==
  LET begun == [s EXCEPT !.num = (x :> s.next) @@ @, !.low = (x :> s.next) @@ @,
                         !.next = @ + 1, !.stk = <<x>> \o @]
      lower(q, n) == [q EXCEPT !.low[x] = Min({@, n})]
      seen(r, t) == IF r.num[t] < r.num[x] /\ t \in ToSet(r.stk) THEN lower(r, r.num[t]) ELSE r
      from(d, t) == seen(lower(d, d.low[t]), t)
      one(q, t) == IF t \in DOMAIN q.num THEN seen(q, t) ELSE from(DFS(q, t), t)
      upTo(q, k) == Process([q EXCEPT !.stk = SubSeq(@, k + 1, Len(@))], ToSet(SubSeq(q.stk, 1, k)))
      last(q) == IF q.low[x] = q.num[x] THEN upTo(q, CHOOSE j \in DOMAIN q.stk : q.stk[j] = x) ELSE q
  IN  last(FoldLeft(one, begun, s.edges[x]))

strengthReduction(p, fresh) ==
  LET c == cleanNoDefTemp(p)
      s == [p |-> c, header |-> none, ivmp |-> none, res |-> 0, edges |-> buildSSAGraph(c),
            num |-> none, low |-> none, stk |-> << >>, next |-> 0,
            dfn |-> dfsHead(c, none, 0), tree |-> dtreeinfo(c), fresh |-> fresh, old |-> c.nt]
  IN  FoldLeft(LAMBDA q, t : IF t \in DOMAIN q.num THEN q ELSE DFS(q, t), s, sorted(DOMAIN s.edges)).p
=============================================================================
