-------------------------------- MODULE Canon --------------------------------
(***************************************************************************)
(* From trees to quadruples.  A function arrives as a tree of expressions  *)
(* with statements inside (Eseq) and calls anywhere; linearize             *)
(* (src/src/backend/canon.cpp) pulls them out in order of evaluation,      *)
(* quad (src/src/structure/quad.cpp) gives every operator a temporary of   *)
(* its own, and linearize pulls out again what quad has nested.            *)
(***************************************************************************)
EXTENDS Integers, Sequences, FiniteSets, SequencesExt

CONSTANTS
  Trees,    \* the statements to begin with
  Names,    \* the temporaries of the program; new ones are numbers above them
  NewTemp   \* the first new temporary

VARIABLES
  tree,     \* the statement as it was
  code,     \* the statements it has become
  phase,    \* "tree", "linear", "quad", "done"
  ntemp     \* the next new temporary

vars == <<tree, code, phase, ntemp>>

Const(v) == [kind |-> "const", val |-> v]
Temp(t) == [kind |-> "temp", id |-> t]
Binop(l, r) == [kind |-> "binop", left |-> l, right |-> r]
Mem(e) == [kind |-> "mem", mem |-> e]
Call(f, args) == [kind |-> "call", fun |-> f, args |-> args]
Eseq(s, e) == [kind |-> "eseq", stm |-> s, exp |-> e]

Move(d, s) == [kind |-> "move", dst |-> d, src |-> s]
ExpStm(e) == [kind |-> "exp", exp |-> e]
Seq_(l, r) == [kind |-> "seq", left |-> l, right |-> r]
Cjump(l, r) == [kind |-> "cjump", left |-> l, right |-> r]

nopStm == ExpStm(Const(0))
isNop(s) == s.kind = "exp" /\ s.exp.kind = "const"
seq(x, y) == IF isNop(x) THEN y ELSE IF isNop(y) THEN x ELSE Seq_(x, y)

-----------------------------------------------------------------------------
(* linearize.  Every operator takes and returns the next new temporary n.  *)

(* Mutant: a temporary is thought to keep its value. *)
commuteTemps(s, e) == isNop(s) \/ e.kind \in {"const", "temp"}

commute(s, e) == isNop(s) \/ e.kind = "const"

RECURSIVE do_exp(_, _), do_stm(_, _)

(* What is left of the first expression of the list is h, what is left of  *)
(* the others s: h gets a temporary if s may change its value.             *)
before(h, s) ==
  IF commute(s.stm, h.exp)
  THEN [stm |-> seq(h.stm, s.stm), exps |-> <<h.exp>> \o s.exps, n |-> s.n]
  ELSE [stm |-> seq(h.stm, seq(Move(Temp(s.n), h.exp), s.stm)),
        exps |-> <<Temp(s.n)>> \o s.exps, n |-> s.n + 1]

(* Mutant: a call stays where it is. *)
namedCalls(e, n) == [exp |-> e, n |-> n]

(* A call gets a temporary at once. *)
named(e, n) ==
  IF e.kind = "call" THEN [exp |-> Eseq(Move(Temp(n), e), Temp(n)), n |-> n + 1]
  ELSE [exp |-> e, n |-> n]

(* reorder: one statement with the effects of the expressions es, and what *)
(* is left of them.                                                        *)
reorder(es, n) ==
  LET r[k \in 1..(Len(es) + 1), m \in n..(n + 1000)] ==
        LET after(h) == before(h, r[k + 1, h.n])
            first(x) == after(do_exp(x.exp, x.n))
        IN  IF k > Len(es) THEN [stm |-> nopStm, exps |-> << >>, n |-> m] ELSE first(named(es[k], m))
  IN  r[1, n]

operands(e) ==
  CASE e.kind = "binop" -> <<e.left, e.right>>
    [] e.kind = "mem" -> <<e.mem>>
    [] e.kind = "call" -> e.args
    [] OTHER -> << >>

withOperands(e, xs) ==
  CASE e.kind = "binop" -> Binop(xs[1], xs[2])
    [] e.kind = "mem" -> Mem(xs[1])
    [] e.kind = "call" -> Call(e.fun, xs)
    [] OTHER -> e

do_exp(e, n) ==
  LET whole(r) == [stm |-> r.stm, exp |-> withOperands(e, r.exps), n |-> r.n]
      both(x, s) == [stm |-> seq(s.stm, x.stm), exp |-> x.exp, n |-> s.n]
      outer(x) == both(x, do_stm(e.stm, x.n))
  IN  IF e.kind = "eseq" THEN outer(do_exp(e.exp, n)) ELSE whole(reorder(operands(e), n))

(* The expressions of a statement that is neither Seq nor a move to Eseq.  *)
ofStm(s) ==
  CASE s.kind = "cjump" -> <<s.left, s.right>>
    [] s.kind = "move" /\ s.dst.kind = "mem" -> <<s.dst.mem, s.src>>
    [] s.kind = "move" /\ s.dst.kind = "temp" -> IF s.src.kind = "call" THEN s.src.args ELSE <<s.src>>
    [] s.kind = "exp" -> IF s.exp.kind = "call" THEN s.exp.args ELSE <<s.exp>>

withExps(s, xs) ==
  CASE s.kind = "cjump" -> Cjump(xs[1], xs[2])
    [] s.kind = "move" /\ s.dst.kind = "mem" -> Move(Mem(xs[1]), xs[2])
    [] s.kind = "move" /\ s.dst.kind = "temp" ->
         Move(s.dst, IF s.src.kind = "call" THEN withOperands(s.src, xs) ELSE xs[1])
    [] s.kind = "exp" -> ExpStm(IF s.exp.kind = "call" THEN withOperands(s.exp, xs) ELSE xs[1])

do_stm(s, n) ==
  LET whole(r) == [stm |-> seq(r.stm, withExps(s, r.exps)), n |-> r.n]
      both(l, r) == [stm |-> seq(l.stm, r.stm), n |-> r.n]
      left(l) == both(l, do_stm(s.right, l.n))
  IN  CASE s.kind = "seq" -> left(do_stm(s.left, n))
        [] s.kind = "move" /\ s.dst.kind = "eseq" -> do_stm(Seq_(s.dst.stm, Move(s.dst.exp, s.src)), n)
        [] OTHER -> whole(reorder(ofStm(s), n))

RECURSIVE flat(_)
flat(s) == IF s.kind = "seq" THEN flat(s.left) \o flat(s.right) ELSE <<s>>

linearized(s, n) ==
  LET whole(r) == [list |-> flat(r.stm), n |-> r.n] IN whole(do_stm(s, n))

-----------------------------------------------------------------------------
(* quad *)

RECURSIVE quadExp(_, _)

quadArgs(es, n) ==
  LET add(p, x) == [exps |-> Append(p.exps, x.exp), n |-> x.n]
  IN  FoldLeft(LAMBDA p, e : add(p, quadExp(e, p.n)), [exps |-> << >>, n |-> n], es)

(* The operands first, then the operator into a temporary. *)
quadExp(e, n) ==
  LET into(q) == [exp |-> Eseq(Move(Temp(q.n), withOperands(e, q.exps)), Temp(q.n)), n |-> q.n + 1]
  IN  IF operands(e) = << >> /\ e.kind # "call" THEN [exp |-> e, n |-> n] ELSE into(quadArgs(operands(e), n))

(* A store: the address, then the value. *)
quadStore(s, n) ==
  LET a == quadExp(s.dst.mem, n)
      v == quadExp(s.src, a.n)
  IN  [stm |-> Move(Mem(a.exp), v.exp), n |-> v.n]

quadStm(s, n) ==
  CASE s.kind = "cjump" ->
         LET q == quadArgs(<<s.left, s.right>>, n) IN [stm |-> Cjump(q.exps[1], q.exps[2]), n |-> q.n]
    [] s.kind = "exp" -> LET q == quadExp(s.exp, n) IN [stm |-> ExpStm(q.exp), n |-> q.n]
    [] s.kind = "move" /\ s.dst.kind = "mem" /\ s.src.kind = "mem" ->
         LET v == quadExp(s.src.mem, n + 1)
             a == quadExp(s.dst.mem, v.n)
         IN  [stm |-> Seq_(Move(Temp(n), Mem(v.exp)), Move(Mem(a.exp), Temp(n))), n |-> a.n]
    [] s.kind = "move" /\ s.dst.kind = "mem" /\ s.src.kind # "mem" -> quadStore(s, n)
    [] s.kind = "move" /\ s.dst.kind = "temp" /\ s.src.kind = "mem" ->
         LET a == quadExp(s.src.mem, n) IN [stm |-> Move(s.dst, Mem(a.exp)), n |-> a.n]
    [] s.kind = "move" /\ s.dst.kind = "temp" /\ s.src.kind # "mem" ->
         LET v == quadExp(s.src, n) IN [stm |-> Move(s.dst, v.exp), n |-> v.n]

(* QUADRUPLE::handle *)
handle(list, n) ==
  LET q[k \in 0..Len(list)] ==
        IF k = 0 THEN [stm |-> nopStm, n |-> n]
        ELSE LET p == q[k - 1]
                 x == quadStm(list[k], p.n)
             IN  [stm |-> Seq_(p.stm, x.stm), n |-> x.n]
  IN  q[Len(list)]

-----------------------------------------------------------------------------
InitWith(stm) ==
  /\ tree = stm
  /\ code = <<tree>>
  /\ phase = "tree"
  /\ ntemp = NewTemp

Init == \E stm \in Trees : InitWith(stm)

becomes(list, n) == code' = list /\ ntemp' = n /\ tree' = tree

linearize ==
  /\ phase \in {"tree", "quad"}
  /\ \E r \in {linearized(code[1], ntemp)} : becomes(r.list, r.n)
  /\ phase' = IF phase = "tree" THEN "linear" ELSE "done"

quad ==
  /\ phase = "linear"
  /\ \E q \in {handle(code, ntemp)} : becomes(<<q.stm>>, q.n)
  /\ phase' = "quad"

Next == linearize \/ quad

Spec == Init /\ [][Next]_vars

-----------------------------------------------------------------------------
(* What code does, left to right: a call is seen, changes the memory, and  *)
(* its result depends on the calls before it.                              *)

Get(f, k) == IF k \in DOMAIN f THEN f[k] ELSE 0
Set(f, k, v) == [j \in DOMAIN f \cup {k} |-> IF j = k THEN v ELSE f[j]]

RECURSIVE Eval(_, _), EvalAll(_, _), Exec(_, _)

EvalAll(es, st) ==
  IF es = << >> THEN [vals |-> << >>, st |-> st]
  ELSE LET h == Eval(Head(es), st)
           r == EvalAll(Tail(es), h.st)
       IN  [vals |-> <<h.v>> \o r.vals, st |-> r.st]

Eval(e, st) ==
  CASE e.kind = "const" -> [v |-> e.val, st |-> st]
    [] e.kind = "temp" -> [v |-> Get(st.env, e.id), st |-> st]
    [] e.kind = "binop" ->
         LET r == EvalAll(<<e.left, e.right>>, st) IN [v |-> 2 * r.vals[1] - r.vals[2], st |-> r.st]
    [] e.kind = "mem" -> LET r == Eval(e.mem, st) IN [v |-> Get(r.st.mem, r.v), st |-> r.st]
    [] e.kind = "eseq" -> Eval(e.exp, Exec(e.stm, st))
    [] e.kind = "call" ->
         LET r == EvalAll(e.args, st)
             seen == Append(r.st.seen, <<e.fun, r.vals>>)
         IN  [v |-> 5 + Len(seen), st |-> [r.st EXCEPT !.seen = seen, !.mem = Set(@, 1, Len(seen) + 2)]]

Exec(s, st) ==
  CASE s.kind = "seq" -> Exec(s.right, Exec(s.left, st))
    [] s.kind = "exp" -> Eval(s.exp, st).st
    [] s.kind = "cjump" ->
         LET r == EvalAll(<<s.left, s.right>>, st)
         IN  [r.st EXCEPT !.seen = Append(@, <<"branch", r.vals>>)]
    [] s.kind = "move" /\ s.dst.kind = "temp" ->
         LET r == Eval(s.src, st) IN [r.st EXCEPT !.env = Set(@, s.dst.id, r.v)]
    [] s.kind = "move" /\ s.dst.kind = "mem" ->
         LET r == EvalAll(<<s.dst.mem, s.src>>, st)
         IN  [r.st EXCEPT !.mem = Set(@, r.vals[1], r.vals[2])]
    [] s.kind = "move" /\ s.dst.kind = "eseq" -> Exec(Move(s.dst.exp, s.src), Exec(s.dst.stm, st))

RECURSIVE ExecAll(_, _)
ExecAll(list, st) == IF list = << >> THEN st ELSE ExecAll(Tail(list), Exec(Head(list), st))

Effect(list) ==
  LET seenOf(st) == [env |-> [t \in Names |-> st.env[t]], mem |-> st.mem, seen |-> st.seen]
  IN  seenOf(ExecAll(list, [env |-> [t \in Names |-> t], mem |-> << >>, seen |-> << >>]))

-----------------------------------------------------------------------------
(* Properties. *)

RECURSIVE Temps(_)
Temps(e) ==
  CASE e.kind = "temp" -> {e.id}
    [] e.kind = "const" -> {}
    [] e.kind \in {"binop", "cjump", "seq"} -> Temps(e.left) \cup Temps(e.right)
    [] e.kind = "mem" -> Temps(e.mem)
    [] e.kind = "call" -> UNION {Temps(e.args[k]) : k \in DOMAIN e.args}
    [] e.kind = "eseq" -> Temps(e.stm) \cup Temps(e.exp)
    [] e.kind = "exp" -> Temps(e.exp)
    [] e.kind = "move" -> Temps(e.dst) \cup Temps(e.src)

(* New temporaries are new: all in use are below the next one. *)
TypeOK ==
  /\ phase \in {"tree", "linear", "quad", "done"}
  /\ \A k \in DOMAIN code : Temps(code[k]) \subseteq Names \cup NewTemp..(ntemp - 1)

(* The calls, the loads and stores, the branch and the values of the       *)
(* program's temporaries are those of the tree, evaluated left to right,   *)
(* after linearize, quad and linearize again.                              *)
SameEffects == Effect(code) = Effect(<<tree>>)

Atom(e) == e.kind \in {"const", "temp"}

RECURSIVE Pure(_)
Pure(e) ==
  CASE e.kind = "binop" -> Pure(e.left) /\ Pure(e.right)
    [] e.kind = "mem" -> Pure(e.mem)
    [] OTHER -> Atom(e)

CallOrPure(e) == Pure(e) \/ (e.kind = "call" /\ \A k \in DOMAIN e.args : Pure(e.args[k]))

(* After linearize no statement is inside an expression, and a call is     *)
(* only a statement or the source of a move to a temporary.                *)
Linear ==
  phase \in {"linear", "done"} =>
    \A k \in DOMAIN code :
      LET s == code[k]
      IN  CASE s.kind = "cjump" -> Pure(s.left) /\ Pure(s.right)
            [] s.kind = "exp" -> CallOrPure(s.exp)
            [] s.kind = "move" ->
                 \/ s.dst.kind = "temp" /\ CallOrPure(s.src)
                 \/ s.dst.kind = "mem" /\ Pure(s.dst.mem) /\ Pure(s.src)
            [] OTHER -> FALSE

(* In the end every statement is a quadruple, one operator on atoms: what  *)
(* getUses, getDef and all the passes on SSA form take for granted.        *)
Quadruples ==
  phase = "done" =>
    \A k \in DOMAIN code :
      LET s == code[k]
          one(e) == CASE e.kind = "binop" -> Atom(e.left) /\ Atom(e.right)
                      [] e.kind = "mem" -> Atom(e.mem)
                      [] e.kind = "call" -> \A j \in DOMAIN e.args : Atom(e.args[j])
                      [] OTHER -> Atom(e)
      IN  CASE s.kind = "cjump" -> Atom(s.left) /\ Atom(s.right)
            [] s.kind = "exp" -> one(s.exp)
            [] s.kind = "move" -> \/ s.dst.kind = "temp" /\ one(s.src)
                                  \/ s.dst.kind = "mem" /\ Atom(s.dst.mem) /\ Atom(s.src)
=============================================================================
