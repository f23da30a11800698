------------------------------- MODULE Source -------------------------------
(***************************************************************************)
(* SysY as the syntax tree has it (src/src/structure/ast.h), and what a    *)
(* program means.  An int is an integer, a float a number of halves; a     *)
(* value is <<kind, number>>, an array <<"array", where it is>>.           *)
(***************************************************************************)
EXTENDS Integers, Sequences, FiniteSets, SequencesExt, TLC

CONSTANT Rounds  \* bound of the model: a loop is followed for so many rounds

-----------------------------------------------------------------------------
(* The syntax tree. *)

IntNumber(v) == [kind |-> "int", val |-> v]
FloatNumber(h) == [kind |-> "float", val |-> h]
Lval(x, es) == [kind |-> "lval", name |-> x, index |-> es]
Var(x) == Lval(x, << >>)
UnaryExp(op, e) == [kind |-> "unary", op |-> op, exp |-> e]
Arith(op, l, r) == [kind |-> "arith", op |-> op, left |-> l, right |-> r]
Compare(op, l, r) == [kind |-> "compare", op |-> op, left |-> l, right |-> r]
LAndExp(l, r) == [kind |-> "and", left |-> l, right |-> r]
LOrExp(l, r) == [kind |-> "or", left |-> l, right |-> r]
CallExp(f, es) == [kind |-> "call", fun |-> f, args |-> es]
InitValList(es) == [kind |-> "list", list |-> es]
NoInit == [kind |-> "none"]

Def(c, k, x, ds, i) == [kind |-> "def", isconst |-> c, btype |-> k, name |-> x, index |-> ds, init |-> i]
VarDef(k, x, ds, i) == Def(FALSE, k, x, ds, i)
ConstDef(k, x, ds, i) == Def(TRUE, k, x, ds, i)
AssignStmt(l, e) == [kind |-> "assign", lval |-> l, exp |-> e]
ExpStmt(e) == [kind |-> "exp", exp |-> e]
PutStmt(k, e) == [kind |-> "put", btype |-> k, exp |-> e]
Block(ss) == [kind |-> "block", items |-> ss]
IfStmt(e, s, t) == [kind |-> "if", exp |-> e, if_part |-> s, else_part |-> t]
WhileStmt(e, s) == [kind |-> "while", exp |-> e, loop |-> s]
BreakStmt == [kind |-> "break"]
ContinueStmt == [kind |-> "continue"]
ReturnStmt(e) == [kind |-> "return", exp |-> e]
FuncDef(k, f, ps, ss) == [kind |-> "func", btype |-> k, name |-> f, params |-> ps, items |-> ss]
Parameter(k, x, ds) == [btype |-> k, name |-> x, index |-> ds]

-----------------------------------------------------------------------------
(* Arithmetic. *)

size(ds) == FoldLeft(LAMBDA n, d : n * d, 1, ds)

(* Division rounds to zero. *)
quot(a, b) ==
  LET abs(n) == IF n < 0 THEN 0 - n ELSE n
      q == abs(a) \div abs(b)
  IN  IF (a < 0) = (b < 0) THEN q ELSE 0 - q

intOp(op, a, b) ==
  CASE op = "+" -> a + b
    [] op = "-" -> a - b
    [] op = "*" -> a * b
    [] op = "/" -> quot(a, b)
    [] op = "%" -> a - b * quot(a, b)

(* On halves; only numbers that come out even are divided.                 *)
floatOp(op, a, b) ==
  CASE op = "+" -> a + b
    [] op = "-" -> a - b
    [] op = "*" -> quot(a * b, 2)
    [] op = "/" -> quot(2 * a, b)

holds(op, a, b) ==
  CASE op = "<" -> a < b
    [] op = "<=" -> a <= b
    [] op = ">" -> a > b
    [] op = ">=" -> a >= b
    [] op = "==" -> a = b
    [] op = "!=" -> a # b

halves(v) == IF v[1] = "int" THEN 2 * v[2] ELSE v[2]
convert(k, v) ==
  IF v[1] = k \/ v[1] = "array" THEN v ELSE IF k = "float" THEN <<k, halves(v)>> ELSE <<k, quot(v[2], 2)>>

arith(op, a, b) ==
  IF {a[1], b[1]} = {"int"} THEN <<"int", intOp(op, a[2], b[2])>>
  ELSE <<"float", floatOp(op, halves(a), halves(b))>>

truth(p) == <<"int", IF p THEN 1 ELSE 0>>

-----------------------------------------------------------------------------
(* The elements of an array of dimensions ds with the initialiser items, a *)
(* nested list.  What is in braces is for the largest part of the array    *)
(* that begins where it stands; other values go one after the other.       *)
RECURSIVE elements(_, _)
elements(ds, items) ==
  LET begins(k, at) == at % size(SubSeq(ds, k, Len(ds))) = 0
      partAt(at) ==
        LET ks == {k \in 2..(Len(ds) + 1) : begins(k, at)}
        IN  SubSeq(ds, CHOOSE k \in ks : \A j \in ks : k <= j, Len(ds))
      put(q, vals) == [at |-> q.at + Len(vals), vals |-> q.vals \o vals]
      one(q, e) == put(q, IF e.kind = "list" THEN elements(partAt(q.at), e.list) ELSE <<e>>)
      filled(vals) == vals \o [k \in 1..(size(ds) - Len(vals)) |-> IntNumber(0)]
  IN  filled(FoldLeft(one, [at |-> 0, vals |-> << >>], items).vals)

-----------------------------------------------------------------------------
(* What a program does.  w is the world: the functions, the input left,    *)
(* what is printed, the objects (sequences of numbers), what a function    *)
(* returns, and whether a loop went on for too long.  env says of a name   *)
(* which object it is, where in it, its dimensions and its kind.           *)

RECURSIVE means(_, _, _)
eval(env, w, e) == means(env, w, e)
exec(env, w, s) == means(env, w, s)

got(v, w) == [v |-> v, w |-> w]
did(env, w, next) == [env |-> env, w |-> w, next |-> next]

evalAll(env, w, es) ==
  LET one(q, e) == LET r == eval(env, q.w, e) IN [v |-> Append(q.v, r.v), w |-> r.w]
  IN  FoldLeft(one, got(<< >>, w), es)

(* The part of an object that es selects, numbers from 0.                  *)
part(b, es) ==
  LET n == FoldLeft(LAMBDA k, j : k * b.dims[j] + es[j][2], 0, [j \in DOMAIN es |-> j])
      rest == SubSeq(b.dims, Len(es) + 1, Len(b.dims))
  IN  [b EXCEPT !.at = @ + n * size(rest), !.dims = rest]

(* A new object b of the name x. *)
object(env, w, x, k, ds, vals) ==
  did((x :> [obj |-> Len(w.mem) + 1, at |-> 0, dims |-> ds, kind |-> k]) @@ env,
      [w EXCEPT !.mem = Append(@, << >> \o vals)], "next")

(* The initialiser of a definition, and the values it gives. *)
define(env, w, s) ==
  LET ds == << >> \o [k \in DOMAIN s.index |-> eval(env, w, s.index[k]).v[2]]
      es == IF s.init.kind \notin {"none", "list"} THEN <<s.init>>
            ELSE elements(ds, IF s.init.kind = "list" THEN s.init.list ELSE << >>)
      with(r) == object(env, r.w, s.name, s.btype, ds, [k \in DOMAIN r.v |-> convert(s.btype, r.v[k])[2]])
  IN  with(evalAll(env, w, es))

execAll(env, w, ss) ==
  FoldLeft(LAMBDA q, s : IF q.next = "next" THEN exec(q.env, q.w, s) ELSE q, did(env, w, "next"), ss)

(* One round of a loop, and whether another follows. *)
round(env, q, s) ==
  LET c == eval(env, q.w, s.exp)
      r == exec(env, c.w, s.loop)
  IN  IF c.v[2] = 0 THEN did(env, c.w, "break")
      ELSE IF r.next = "continue" THEN did(env, r.w, "next") ELSE did(env, r.w, r.next)

while(env, w, s) ==
  LET one(q, k) == IF q.next = "next" THEN round(env, q, s) ELSE q
      r == FoldLeft(one, did(env, w, "next"), [k \in 1..Rounds |-> k])
  IN  CASE r.next = "break" -> did(env, r.w, "next")
        [] r.next = "next" -> did(env, [r.w EXCEPT !.lost = TRUE], "return")
        [] OTHER -> r

call(w, f, vs) ==
  LET fun == w.funs[f]
      bind(q, k) ==
        LET p == fun.params[k]
            v == convert(p.btype, vs[k])
        IN  IF p.index # << >> THEN [q EXCEPT !.env = (p.name :> v[2]) @@ @]
            ELSE object(q.env, q.w, p.name, p.btype, << >>, <<v[2]>>)
      body(begin) == execAll(begin.env, begin.w, fun.items)
      result(end) == got(IF fun.btype = "void" THEN <<"void", 0>> ELSE convert(fun.btype, end.w.ret), end.w)
  IN  IF f = "getint" THEN got(<<"int", Head(w.in \o <<0>>)>>, [w EXCEPT !.in = Tail(@ \o <<0>>)])
      ELSE result(body(FoldLeft(bind, did(w.globals, w, "next"), [k \in DOMAIN fun.params |-> k])))

expression(env, w, e) ==
  CASE e.kind \in {"int", "float"} -> got(<<e.kind, e.val>>, w)
    [] e.kind = "lval" ->
         LET r == evalAll(env, w, e.index)
             b == part(env[e.name], r.v)
         IN  got(IF b.dims = << >> THEN <<b.kind, r.w.mem[b.obj][b.at + 1]>> ELSE <<"array", b>>, r.w)
    [] e.kind = "unary" ->
         LET r == eval(env, w, e.exp)
         IN  got(CASE e.op = "+" -> r.v
                   [] e.op = "-" -> arith("-", <<"int", 0>>, r.v)
                   [] e.op = "!" -> truth(r.v[2] = 0), r.w)
    [] e.kind = "arith" ->
         LET r == evalAll(env, w, <<e.left, e.right>>) IN got(arith(e.op, r.v[1], r.v[2]), r.w)
    [] e.kind = "compare" ->
         LET r == evalAll(env, w, <<e.left, e.right>>)
         IN  got(truth(holds(e.op, halves(r.v[1]), halves(r.v[2]))), r.w)
    [] e.kind \in {"and", "or"} ->
         LET l == eval(env, w, e.left)
             r == eval(env, l.w, e.right)
         IN  IF (e.kind = "and") = (l.v[2] = 0) THEN got(truth(e.kind = "or"), l.w) ELSE got(truth(r.v[2] # 0), r.w)
    [] e.kind = "call" -> LET r == evalAll(env, w, e.args) IN call(r.w, e.fun, r.v)

statement(env, w, s) ==
  CASE s.kind = "def" -> define(env, w, s)
    [] s.kind = "assign" ->
         LET l == evalAll(env, w, s.lval.index)
             b == part(env[s.lval.name], l.v)
             r == eval(env, l.w, s.exp)
         IN  did(env, [r.w EXCEPT !.mem[b.obj][b.at + 1] = convert(b.kind, r.v)[2]], "next")
    [] s.kind = "exp" -> did(env, eval(env, w, s.exp).w, "next")
    [] s.kind = "put" ->
         LET r == eval(env, w, s.exp)
         IN  did(env, [r.w EXCEPT !.out = Append(@, <<s.btype, convert(s.btype, r.v)[2]>>)], "next")
    [] s.kind = "block" -> [execAll(env, w, s.items) EXCEPT !.env = env]
    [] s.kind = "if" ->
         LET c == eval(env, w, s.exp) IN exec(env, c.w, IF c.v[2] # 0 THEN s.if_part ELSE s.else_part)
    [] s.kind = "while" -> while(env, w, s)
    [] s.kind \in {"break", "continue"} -> did(env, w, s.kind)
    [] s.kind = "return" /\ s.exp = NoInit -> did(env, w, "return")
    [] s.kind = "return" /\ s.exp # NoInit ->
         LET r == eval(env, w, s.exp) IN did(env, [r.w EXCEPT !.ret = r.v], "return")

(* The program: definitions of variables, then of functions; main is run.  *)
program(w, P) ==
  LET main(g) == call([g.w EXCEPT !.globals = g.env], "main", << >>)
  IN  main(execAll(<< >>, w, SelectSeq(P, LAMBDA d : d.kind = "def")))

means(env, w, s) ==
  IF s.kind = "program" THEN program(w, s.items)
  ELSE IF s.kind \in {"int", "float", "lval", "unary", "arith", "compare", "and", "or", "call"}
  THEN expression(env, w, s) ELSE statement(env, w, s)

Meaning(P, in) ==
  LET funs == ("getint" :> FuncDef("int", "getint", << >>, << >>))
                @@ [f \in {P[k].name : k \in DOMAIN P} |-> CHOOSE d \in ToSet(P) : d.name = f]
  IN  means(<< >>, [funs |-> funs, globals |-> << >>, in |-> in, out |-> << >>, mem |-> << >>,
                    ret |-> <<"int", 0>>, lost |-> FALSE],
            [kind |-> "program", items |-> P]).w
=============================================================================
