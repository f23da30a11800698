------------------------------ MODULE Translate ------------------------------
(***************************************************************************)
(* From the syntax tree to trees of the intermediate representation (the   *)
(* ast2ir functions, src/src/structure/ast.cpp), one definition of the     *)
(* program after the other as main does it (src/src/main.cpp), and what    *)
(* the code that comes out does when it is run.  Module Source has what    *)
(* the program means.                                                      *)
(*                                                                         *)
(* A statement of the representation is a sequence (Seq) of moves, jumps,  *)
(* branches, labels and calls.  The target of a branch is a hole, the      *)
(* number of the place doPatch writes the label to.  The bits of a float   *)
(* are a number, Enc of its value; values of floats are halves.            *)
(***************************************************************************)
EXTENDS Source

CONSTANTS
  Programs,  \* sequences of definitions of variables and functions, main last
  Inputs,    \* sequences of what getint returns
  Fuel       \* bound of the model: a function executes 2^Fuel statements

VARIABLES
  prog,  \* the program
  done,  \* how many of its definitions are translated
  tr,    \* what the translation keeps, see start
  funcs  \* the code of the functions

vars == <<prog, done, tr, funcs>>

-----------------------------------------------------------------------------
(* Trees. *)

Const(v) == [kind |-> "const", val |-> v]
Temp(t) == [kind |-> "temp", id |-> t]
Name(a) == [kind |-> "name", at |-> a]
Arithmetic(k, op, l, r) == [kind |-> "binop", type |-> k, op |-> op, args |-> <<l, r>>]
Binop(op, l, r) == Arithmetic("int", op, l, r)
Mem(e) == [kind |-> "mem", args |-> <<e>>]
Call(f, es) == [kind |-> "call", fun |-> f, args |-> es]
Eseq(s, e) == [kind |-> "eseq", stm |-> s, exp |-> e]

Move(d, e) == <<[kind |-> "move", dst |-> d, src |-> e]>>
ExpStm(e) == <<[kind |-> "exp", exp |-> e]>>
Label(l) == <<[kind |-> "label", label |-> l]>>
Jump(l) == <<[kind |-> "jump", label |-> l]>>
Cjump(k, op, l, r, t, f) == <<[kind |-> "cjump", type |-> k, op |-> op, args |-> <<l, r>>, trues |-> t, falses |-> f]>>
nopStm == << >>

fp == 11         \* the frame
RETURN == 0      \* the label at the end of every function

(* The bits of the float that is h halves, and back; those of 0 are 0.     *)
Enc(h) == IF h = 0 THEN 0 ELSE IF h > 0 THEN 1000 + h ELSE h - 1000
Dec(b) == IF b = 0 THEN 0 ELSE IF b > 0 THEN b - 1000 ELSE b + 1000

digit_i2f(i) == Enc(2 * i)
digit_f2i(b) == quot(Dec(b), 2)

ir_i2f(e) == IF e.kind = "const" THEN Const(digit_i2f(e.val)) ELSE Call("i2f", <<e>>)
ir_f2i(e) == IF e.kind = "const" THEN Const(digit_f2i(e.val)) ELSE Call("f2i", <<e>>)

-----------------------------------------------------------------------------
(* Types (ty.hpp): kind, dimensions, and the value known at compile time,  *)
(* bits or a sequence of them.                                             *)

Type(k, ds, v) == [kind |-> k, dims |-> ds, isconst |-> FALSE, value |-> v]
intType(v) == Type("int", << >>, v)
floatType(v) == Type("float", << >>, v)
isArray(ty) == ty.dims # << >>
arraysize(ty) == size(ty.dims)
tyType(ty) == IF isArray(ty) THEN "array" ELSE ty.kind

(* TyIRAssign: the expression e of type r where one of type l is needed.   *)
TyIRAssign(e, l, r) ==
  IF l = "float" /\ r = "int" THEN ir_i2f(e) ELSE IF l = "int" /\ r = "float" THEN ir_f2i(e) ELSE e

(* binopResType: the result, computed with 1 for a divisor of 0.           *)
binopResType(op, l, r) ==
  LET half(ty) == IF ty.kind = "int" THEN 2 * ty.value ELSE Dec(ty.value)
      nonzero(v, one) == IF op \in {"/", "%"} /\ v = 0 THEN one ELSE v
  IN  IF l.kind = "int" /\ r.kind = "int" THEN intType(intOp(op, l.value, nonzero(r.value, 1)))
      ELSE floatType(Enc(floatOp(op, half(l), nonzero(half(r), 2))))

TyIRBinop(op, lty, l, rty, r) ==
  IF lty.kind = "int" /\ rty.kind = "int" THEN Binop(op, l, r)
  ELSE Arithmetic("float", op, TyIRAssign(l, "float", lty.kind), TyIRAssign(r, "float", rty.kind))

-----------------------------------------------------------------------------
(* What the translation keeps: the tables venv and fenv, the next number   *)
(* for a temporary, a label or a hole, the labels in the holes, and the    *)
(* size of the frame.                                                      *)
start == [venv |-> << >>, fenv |-> ("getint" :> [kind |-> "int", params |-> << >>]),
          n |-> 100, holes |-> << >>, stksize |-> 64]

enter(t, x, loc, at, ty) == [t EXCEPT !.venv = (x :> [kind |-> loc, at |-> at, ty |-> ty]) @@ @]

doPatch(t, list, l) == [t EXCEPT !.holes = [h \in ToSet(list) |-> l] @@ @]

(* A translated statement. *)
translated(t, s) == [stm |-> s, t |-> t]

(* A translated expression: a tree, or a condition with two lists of holes. *)
Ex(t, e, ty) == [t |-> t, cx |-> FALSE, exp |-> e, ty |-> ty]
Cx(t, s, ts, fs, v) == [t |-> t, cx |-> TRUE, stm |-> s, trues |-> ts, falses |-> fs, ty |-> intType(v)]

condition(t, k, op, l, r) ==
  Cx([t EXCEPT !.n = @ + 2], Cjump(k, op, l, r, t.n, t.n + 1), <<t.n>>, <<t.n + 1>>, 0)

unCx(x) == IF x.cx THEN x ELSE condition(x.t, "int", "!=", x.exp, Const(0))

unEx(x) ==
  LET n == x.t.n
      t == doPatch(doPatch([x.t EXCEPT !.n = @ + 3], x.trues, n + 1), x.falses, n + 2)
      set(v) == Move(Temp(n), Const(v))
  IN  IF ~ x.cx THEN x
      ELSE Ex(t, Eseq(set(1) \o x.stm \o Label(n + 2) \o set(0) \o Label(n + 1), Temp(n)), x.ty)

(* Every part of the tree is translated by its ast2ir.  at says where:     *)
(* where break and continue go to, and in which function, "" in none.      *)
RECURSIVE ast2ir(_, _, _)
outside == [bre |-> RETURN, con |-> RETURN, name |-> ""]
exp2ir(t, e) == ast2ir(t, e, outside)

(* Two operands are translated, and then both are made trees, or both      *)
(* conditions (f is unEx or unCx).                                         *)
pair(t, l, r, f(_)) ==
  LET all(x, b) == [l |-> x, r |-> f([b EXCEPT !.t = x.t])]
      both(a, b) == all(f([a EXCEPT !.t = b.t]), b)
      second(a) == both(a, exp2ir(a.t, r))
  IN  second(exp2ir(t, l))

(* Expressions that are of the types of kinds, one after the other.        *)
arguments(t, es, kinds) ==
  LET add(q, x, k) == [exps |-> Append(q.exps, TyIRAssign(x.exp, kinds[k], tyType(x.ty))), t |-> x.t]
      one(q, k) == add(q, unEx(exp2ir(q.t, es[k])), k)
  IN  FoldLeft(one, [t |-> t, exps |-> << >>], [k \in DOMAIN es |-> k])

(* Lval::ast2ir, for the name that entry is of. *)
element(entry, at, n) ==
  LET ty == entry.ty
      id == IF entry.kind = "global" THEN Name(entry.at) ELSE Temp(entry.at)
      rest == SubSeq(ty.dims, n + 1, Len(ty.dims))
      there == Binop("+", id, Binop("*", Const(4 * size(rest)), at.exp))
      val == ty.value[(at.offset % arraysize(ty)) + 1]
  IN  CASE n > 0 /\ rest = << >> -> Ex(at.t, Mem(there), Type(ty.kind, << >>, val))
        [] n > 0 /\ rest # << >> -> Ex(at.t, there, Type(ty.kind, rest, << >>))
        [] n = 0 /\ isArray(ty) -> Ex(at.t, id, ty)
        [] n = 0 /\ ~ isArray(ty) /\ ty.isconst -> Ex(at.t, Const(ty.value), ty)
        [] OTHER -> Ex(at.t, IF entry.kind = "global" THEN Mem(id) ELSE id, ty)

lval(t, e) ==
  LET dim(k) == t.venv[e.name].ty.dims[k]
      add(q, x, k) ==
        [exp |-> Binop("+", Binop("*", Const(dim(k)), q.exp), x.exp), offset |-> q.offset * dim(k) + x.ty.value,
         t |-> x.t]
      one(q, k) == add(q, unEx(exp2ir(q.t, e.index[k])), k)
      at == FoldLeft(one, [t |-> t, exp |-> Const(0), offset |-> 0], [k \in DOMAIN e.index |-> k])
  IN  element(t.venv[e.name], at, Len(e.index))

arithExp(op, p) ==
  Ex(p.r.t, TyIRBinop(op, p.l.ty, p.l.exp, p.r.ty, p.r.exp), binopResType(op, p.l.ty, p.r.ty))

compareExp(op, p) ==
  LET k == IF "float" \in {p.l.ty.kind, p.r.ty.kind} THEN "float" ELSE "int"
  IN  condition(p.r.t, k, op, TyIRAssign(p.l.exp, k, p.l.ty.kind), TyIRAssign(p.r.exp, k, p.r.ty.kind))

(* LAndExp, LOrExp: the right side is behind a label of its own, which one *)
(* list of the left side goes to.                                          *)
shortCircuit(p, list, trues, falses) ==
  Cx(doPatch([p.r.t EXCEPT !.n = @ + 1], list, p.r.t.n), p.l.stm \o Label(p.r.t.n) \o p.r.stm, trues, falses, 0)

landExp(p) == shortCircuit(p, p.l.trues, p.r.trues, p.l.falses \o p.r.falses)

(* Mutant: the right side of || is behind the label of &&.                 *)
lorExpTrues(p) == shortCircuit(p, p.l.trues, p.l.falses \o p.r.trues, p.r.falses)

lorExp(p) == shortCircuit(p, p.l.falses, p.l.trues \o p.r.trues, p.r.falses)

minusExp(x) == Ex(x.t, TyIRBinop("-", intType(0), Const(0), x.ty, x.exp), binopResType("-", intType(0), x.ty))
notExp(x) == Cx(x.t, x.stm, x.falses, x.trues, 0)
callExp(f, fun, a) == Ex(a.t, Call(f, a.exps), Type(fun.kind, << >>, 0))

expression2ir(t, e) ==
  CASE e.kind = "int" -> Ex(t, Const(e.val), intType(e.val))
    [] e.kind = "float" -> Ex(t, Const(Enc(e.val)), floatType(Enc(e.val)))
    [] e.kind = "lval" -> lval(t, e)
    [] e.kind = "unary" /\ e.op = "+" -> exp2ir(t, e.exp)
    [] e.kind = "unary" /\ e.op = "-" -> minusExp(unEx(exp2ir(t, e.exp)))
    [] e.kind = "unary" /\ e.op = "!" -> notExp(unCx(exp2ir(t, e.exp)))
    [] e.kind = "arith" -> arithExp(e.op, pair(t, e.left, e.right, unEx))
    [] e.kind = "compare" -> compareExp(e.op, pair(t, e.left, e.right, unEx))
    [] e.kind = "and" -> landExp(pair(t, e.left, e.right, unCx))
    [] e.kind = "or" -> lorExp(pair(t, e.left, e.right, unCx))
    [] e.kind = "call" -> callExp(e.fun, t.fenv[e.fun], arguments(t, e.args, t.fenv[e.fun].params))

-----------------------------------------------------------------------------
(* Definitions of variables. *)

(* A constant array or variable of kind k gets bits v of kind r.           *)
known(k, r, v) == IF k = r THEN v ELSE IF k = "float" THEN digit_i2f(v) ELSE digit_f2i(v)

(* calArray: the stores that put the initialiser e into the array of       *)
(* dimensions ds that is noff words behind addr, and the values they have. *)
store(addr, noff, k, x) ==
  [stm |-> Move(Mem(Binop("+", addr, Const(4 * noff))), TyIRAssign(x.exp, k, x.ty.kind)),
   vals |-> <<known(k, x.ty.kind, x.ty.value)>>, t |-> x.t]

zeros(ds) == [j \in 1..size(ds) |-> 0]

RECURSIVE calArray(_, _, _, _, _, _)
calArray(t, addr, noff, k, ds, e) ==
  LET place(vals, at, vs) == [j \in DOMAIN vals |-> IF j - at \in DOMAIN vs THEN vs[j - at] ELSE vals[j]]
      put(q, r) ==
        [stm |-> q.stm \o r.stm, vals |-> place(q.vals, q.doff, r.vals), doff |-> q.doff + Len(r.vals), t |-> r.t]
      one(q, i) == put(q, calArray(q.t, addr, noff + q.doff, k, Tail(ds), i))
  IN  IF e.kind = "list" THEN FoldLeft(one, [t |-> t, stm |-> nopStm, vals |-> zeros(ds), doff |-> 0], e.list)
      ELSE store(addr, noff, k, unEx(exp2ir(t, e)))

dims(t, s) == << >> \o [k \in DOMAIN s.index |-> exp2ir(t, s.index[k]).ty.value]
newlabel(t) == [t EXCEPT !.n = @ + 1]

(* A global of the dimensions ds and the known value v. *)
global(t, s, ds, v) ==
  translated(enter(newlabel(t), s.name, "global", t.n, [Type(s.btype, ds, v) EXCEPT !.isconst = s.isconst /\ ds = << >>]),
             nopStm)

globalDef(t, s, ds) ==
  LET array(a) == global(a.t, s, ds, a.vals)
      scalar(x) == global(x.t, s, ds, known(s.btype, x.ty.kind, x.ty.value))
  IN  CASE s.init.kind = "none" -> global(t, s, ds, IF ds = << >> THEN 0 ELSE zeros(ds))
        [] s.init.kind # "none" /\ ds = << >> -> scalar(unEx(exp2ir(t, s.init)))
        [] OTHER -> array(calArray(newlabel(t), Name(t.n), 0, s.btype, ds, s.init))

localScalar(t, s) ==
  LET with(u, v, stm) == translated(enter(newlabel(u), s.name, "local", u.n, Type(s.btype, << >>, v)), stm)
      init(x) ==
        with(x.t, known(s.btype, x.ty.kind, x.ty.value), Move(Temp(x.t.n), TyIRAssign(x.exp, s.btype, x.ty.kind)))
  IN  IF s.init.kind = "none" THEN with(t, 0, nopStm) ELSE init(unEx(exp2ir(t, s.init)))

(* An array is in the frame; what is initialised is cleared first.         *)
localArray(t, s, ds) ==
  LET addr == Temp(t.n)
      u == [newlabel(t) EXCEPT !.stksize = @ + 4 * size(ds)]
      set == Move(addr, Binop("+", Temp(fp), Const(0 - u.stksize)))
      clear == ExpStm(Call("memset", <<addr, Const(0), Const(4 * size(ds))>>))
      with(v, vals, stm) == translated(enter(v, s.name, "local", t.n, Type(s.btype, ds, vals)), set \o stm)
      init(a) == with(a.t, a.vals, clear \o a.stm)
  IN  IF s.init.kind = "none" THEN with(u, zeros(ds), nopStm) ELSE init(calArray(u, addr, 0, s.btype, ds, s.init))

(* ConstDef::ast2ir, VarDef::ast2ir; at.name is "" outside of functions.   *)
definition(t, s, at) ==
  CASE at.name = "" \/ (s.isconst /\ s.index = << >>) -> globalDef(t, s, dims(t, s))
    [] at.name # "" /\ ~ s.isconst /\ s.index = << >> -> localScalar(t, s)
    [] OTHER -> localArray(t, s, dims(t, s))

-----------------------------------------------------------------------------
(* Statements. *)

stms2ir(t, ss, at) ==
  LET add(q, r) == translated(r.t, q.stm \o r.stm)
      one(q, s) == add(q, ast2ir(q.t, s, at))
  IN  FoldLeft(one, translated(t, nopStm), ss)

(* IfStmt: c is its condition. *)
ifStmt(c, s, at) ==
  LET tl == c.t.n
      u == doPatch(doPatch([c.t EXCEPT !.n = @ + 3], c.trues, tl), c.falses, tl + 1)
      all(a, b) ==
        translated(b.t, c.stm \o Label(tl) \o a.stm \o Jump(tl + 2) \o Label(tl + 1) \o b.stm \o Label(tl + 2))
      second(a) == all(a, ast2ir(a.t, s.else_part, at))
  IN  second(ast2ir(u, s.if_part, at))

(* WhileStmt: the condition is translated twice, to c before the loop and  *)
(* to d at its end.                                                        *)
whileStmt(t, s, at) ==
  LET all(c, d, begin, r) ==
        translated(r.t, Label(begin + 1) \o c.stm \o Label(begin) \o r.stm \o Label(begin + 2) \o d.stm
                          \o Label(begin + 3))
      patched(c, d) ==
        doPatch(doPatch([d.t EXCEPT !.n = @ + 4], c.trues \o d.trues, d.t.n), c.falses \o d.falses, d.t.n + 3)
      loop(c, d) ==
        all(c, d, d.t.n, ast2ir(patched(c, d), s.loop, [at EXCEPT !.bre = d.t.n + 3, !.con = d.t.n + 2]))
      second(c) == loop(c, unCx(exp2ir(c.t, s.exp)))
  IN  second(unCx(exp2ir(t, s.exp)))

(* The move of the value x to d, which has the type ty. *)
moved(d, ty, x) == translated(x.t, Move(d, TyIRAssign(x.exp, ty, tyType(x.ty))))
assignStmt(p) == moved(p.l.exp, p.l.ty.kind, p.r)
expStmt(x) == translated(x.t, ExpStm(x.exp))
putStmt(f, a) == translated(a.t, ExpStm(Call(f, a.exps)))
jumping(r, l) == [r EXCEPT !.stm = @ \o Jump(l)]
leaving(t, r) == [r EXCEPT !.t.venv = t.venv]

stm2ir(t, s, at) ==
  CASE s.kind = "def" -> definition(t, s, at)
    [] s.kind = "assign" -> assignStmt(pair(t, s.lval, s.exp, unEx))
    [] s.kind = "exp" -> expStmt(unEx(exp2ir(t, s.exp)))
    [] s.kind = "put" -> putStmt(IF s.btype = "int" THEN "putint" ELSE "putfloat", arguments(t, <<s.exp>>, <<s.btype>>))
    [] s.kind = "block" -> leaving(t, stms2ir(t, s.items, at))
    [] s.kind = "if" -> ifStmt(unCx(exp2ir(t, s.exp)), s, at)
    [] s.kind = "while" -> whileStmt(t, s, at)
    [] s.kind = "break" -> translated(t, Jump(at.bre))
    [] s.kind = "continue" -> translated(t, Jump(at.con))
    [] s.kind = "return" /\ s.exp = NoInit -> translated(t, Jump(RETURN))
    [] s.kind = "return" /\ s.exp # NoInit -> jumping(moved(Temp(0), t.fenv[at.name].kind, unEx(exp2ir(t, s.exp))), RETURN)

(* FuncDef::ast2ir: the first four parameters are in registers, the others *)
(* behind the frame.  A parameter is defined like a variable; the space    *)
(* that gives an array in the frame is not used.                           *)
funcDef(t, s) ==
  LET kind(p) == IF p.index = << >> THEN p.btype ELSE "array"
      f == [kind |-> s.btype, params |-> << >> \o [k \in DOMAIN s.params |-> kind(s.params[k])]]
      inside == [bre |-> RETURN, con |-> RETURN, name |-> s.name]
      from(k) == IF k <= 4 THEN Temp(k - 1) ELSE Mem(Binop("+", Temp(fp), Const(4 * (k - 5))))
      move(q, k, d) == translated(d.t, q.stm \o Move(Temp(d.t.venv[s.params[k].name].at), from(k)))
      param(q, k) ==
        LET p == s.params[k]
        IN  move(q, k, definition(q.t, VarDef(p.btype, p.name, p.index, NoInit), inside))
      u == [t EXCEPT !.fenv = (s.name :> f) @@ @, !.stksize = 64]
      all(q, r) == translated(r.t, q.stm \o r.stm)
      body(q) == all(q, stms2ir(q.t, s.items, inside))
  IN  leaving(t, body(FoldLeft(param, translated(u, nopStm), [k \in DOMAIN s.params |-> k])))

ast2ir(t, s, at) ==
  CASE s.kind \in {"int", "float", "lval", "unary", "arith", "compare", "and", "or", "call"} -> expression2ir(t, s)
    [] s.kind = "func" -> funcDef(t, s)
    [] OTHER -> stm2ir(t, s, at)

(* handleGlobalVar: main begins with the values of the globals.            *)
globalInit(t) ==
  LET one(q, x) ==
        LET v == q.t.venv[x]
            i == Temp(q.t.n)
            n == q.t.n
            at(e) == Mem(Binop("+", Name(v.at), e))
            nonzero == SelectSeq([k \in 1..arraysize(v.ty) |-> k], LAMBDA k : v.ty.value[k] # 0)
            clear ==
              Move(i, Const(arraysize(v.ty) - 1)) \o Label(n + 1) \o Move(at(Binop("*", Const(4), i)), Const(0))
                \o Move(i, Binop("-", i, Const(1))) \o Cjump("int", ">=", i, Const(0), n + 1, n + 2) \o Label(n + 2)
            stores == FlattenSeq([k \in DOMAIN nonzero |->
                        Move(at(Const(4 * (nonzero[k] - 1))), Const(v.ty.value[nonzero[k]]))])
        IN  IF v.ty.isconst THEN q
            ELSE IF ~ isArray(v.ty) THEN translated(q.t, q.stm \o Move(Mem(Name(v.at)), Const(v.ty.value)))
            ELSE translated(doPatch(doPatch([q.t EXCEPT !.n = @ + 3], <<n + 1>>, n + 1), <<n + 2>>, n + 2),
                       q.stm \o clear \o stores)
  IN  FoldLeft(one, translated(t, nopStm), SetToSeq(DOMAIN t.venv))

-----------------------------------------------------------------------------
InitWith(p) ==
  /\ prog = p
  /\ done = 0
  /\ tr = start
  /\ funcs = << >>

Init == \E p \in Programs : InitWith(p)

declared(r) == tr' = r.t /\ UNCHANGED funcs

declare ==
  /\ done < Len(prog) /\ prog[done + 1].kind = "def"
  /\ declared(ast2ir(tr, prog[done + 1], outside))
  /\ done' = done + 1
  /\ UNCHANGED prog

(* The function f is r, its code begins with g. *)
defined(f, g, r) ==
  /\ tr' = g.t
  /\ funcs' = (f :> [code |-> g.stm \o r.stm, stksize |-> g.t.stksize]) @@ funcs

function ==
  LET f == prog[done + 1].name
      with(r) == defined(f, IF f = "main" THEN globalInit(r.t) ELSE translated(r.t, nopStm), r)
  IN  /\ done < Len(prog) /\ prog[done + 1].kind = "func"
      /\ with(ast2ir(tr, prog[done + 1], outside))
      /\ done' = done + 1
      /\ UNCHANGED prog

Next == declare \/ function

Spec == Init /\ [][Next]_vars

-----------------------------------------------------------------------------
(* What the code does.  q is a function at work: its name, its frame, its  *)
(* temporaries, the next statement, and the world, which is memory, the    *)
(* input left and what is printed.                                         *)

(* What is read before it is written is 77. *)
Get(env, k) == IF k \in DOMAIN env THEN env[k] ELSE 77
Stored(w, a, v) == [w EXCEPT !.mem = (a :> v) @@ @]

(* On bits.  A product that is 0 has a sign. *)
floatBits(op, a, b) ==
  LET h == floatOp(op, Dec(a), Dec(b))
  IN  IF op = "*" /\ h = 0 /\ (a < 0) # (b < 0) THEN 0 - 1000 ELSE Enc(h)

Activation(f, fp0, temps, w) == [f |-> f, fp |-> fp0, temps |-> temps, pc |-> 1, w |-> w]

RECURSIVE value(_, _), run(_, _, _)

result(v, q) == [v |-> v, q |-> q]
values(q, es) ==
  LET add(r, x) == result(Append(r.v, x.v), x.q)
      one(r, e) == add(r, value(r.q, e))
  IN  FoldLeft(one, result(<< >>, q), es)

(* The call of f with values v. *)
invoke(q, f, v) ==
  LET w == q.w
      put(x) == result(0, [q EXCEPT !.w.out = Append(@, x)])
      below == q.fp - funcs[q.f].stksize - (IF Len(v) > 4 THEN 4 * (Len(v) - 4) ELSE 0)
      pushed == FoldLeft(LAMBDA u, k : Stored(u, below + 4 * (k - 1), v[k + 4]), w, [k \in 1..(Len(v) - 4) |-> k])
      left(end) == result(Get(end.temps, 0), [q EXCEPT !.w = end.w])
  IN  CASE f = "i2f" -> result(digit_i2f(v[1]), q)
        [] f = "f2i" -> result(digit_f2i(v[1]), q)
        [] f = "putint" -> put(<<"int", v[1]>>)
        [] f = "putfloat" -> put(<<"float", Dec(v[1])>>)
        [] f = "getint" -> result(Head(w.in \o <<0>>), [q EXCEPT !.w.in = Tail(@ \o <<0>>)])
        [] f = "memset" ->
             result(0, [q EXCEPT !.w.mem = [a \in {v[1] + 4 * k : k \in 0..((v[3] \div 4) - 1)} |-> v[2]] @@ @])
        [] OTHER -> left(run(Activation(f, below, [r \in 0..3 |-> IF r < Len(v) THEN v[r + 1] ELSE 0], pushed),
                             funcs[f].code, Fuel))

called(f, r) == invoke(r.q, f, r.v)
computed(e, r) == [r EXCEPT !.v = IF e.type = "int" THEN intOp(e.op, @[1], @[2]) ELSE floatBits(e.op, @[1], @[2])]
loaded(r) == [r EXCEPT !.v = Get(r.q.w.mem, @[1])]

value(q, e) ==
  CASE e.kind = "const" -> result(e.val, q)
    [] e.kind = "temp" -> result(IF e.id = fp THEN q.fp ELSE Get(q.temps, e.id), q)
    [] e.kind = "name" -> result(1000 * e.at, q)
    [] e.kind = "binop" -> computed(e, values(q, e.args))
    [] e.kind = "mem" -> loaded(values(q, e.args))
    [] e.kind = "call" -> called(e.fun, values(q, e.args))
    [] e.kind = "eseq" -> value([run([q EXCEPT !.pc = 1], e.stm, Fuel) EXCEPT !.pc = q.pc], e.exp)

(* One statement of code; pc is 0 when the code is left. *)
execute(q, code) ==
  LET s == code[q.pc]
      at(l) == {k \in DOMAIN code : code[k].kind = "label" /\ code[k].label = l}
      goto(r, l) == [r EXCEPT !.pc = IF at(l) = {} THEN 0 ELSE CHOOSE k \in at(l) : TRUE]
      next(r) == [r EXCEPT !.pc = @ + 1]
      true(v) == IF s.type = "int" THEN holds(s.op, v[1], v[2]) ELSE holds(s.op, Dec(v[1]), Dec(v[2]))
      branch(r) == goto(r.q, tr.holes[IF true(r.v) THEN s.trues ELSE s.falses])
      set(r) ==
        IF s.dst.kind = "temp" THEN next([r.q EXCEPT !.temps = (s.dst.id :> r.v[1]) @@ @])
        ELSE next([r.q EXCEPT !.w = Stored(@, r.v[1], r.v[2])])
      operands ==
        CASE s.kind = "cjump" -> s.args
          [] s.kind = "exp" -> <<s.exp>>
          [] s.kind = "move" -> IF s.dst.kind = "temp" THEN <<s.src>> ELSE s.dst.args \o <<s.src>>
          [] OTHER -> << >>
      effect(r) ==
        CASE s.kind = "cjump" -> branch(r)
          [] s.kind = "move" -> set(r)
          [] s.kind = "jump" -> goto(q, s.label)
          [] OTHER -> next(r.q)
  IN  IF q.pc > Len(code) THEN [q EXCEPT !.pc = 0] ELSE effect(values(q, operands))

(* At most 2^k of them. *)
run(q, code, k) ==
  IF q.pc = 0 THEN q
  ELSE IF k = 0 THEN execute(q, code)
  ELSE run(run(q, code, k - 1), code, k - 1)

Output(in) ==
  run(Activation("main", 0, [r \in 0..3 |-> 0], [mem |-> << >>, in |-> in, out |-> << >>]),
      funcs["main"].code, Fuel)

-----------------------------------------------------------------------------
(* Properties. *)

(* What is translated has its code, and what is left bound is a global.     *)
TypeOK ==
  /\ done \in 0..Len(prog)
  /\ DOMAIN funcs = {prog[k].name : k \in {j \in 1..done : prog[j].kind = "func"}}
  /\ \A f \in DOMAIN funcs : funcs[f].stksize >= 64
  /\ \A x \in DOMAIN tr.venv : tr.venv[x].kind = "global" /\ tr.venv[x].at < tr.n

(* Every hole that a jump goes through is patched, with a label of its own *)
(* function.                                                               *)
Patched ==
  \A f \in DOMAIN funcs :
    LET code == funcs[f].code
        labels == {code[k].label : k \in {j \in DOMAIN code : code[j].kind = "label"}}
    IN  \A k \in DOMAIN code :
          /\ code[k].kind = "jump" => code[k].label \in labels \cup {RETURN}
          /\ code[k].kind = "cjump" => {tr.holes[code[k].trues], tr.holes[code[k].falses]} \subseteq labels

(* The code of a translated program prints what the program means, with    *)
(* every input: short-circuit conditions, loops that are tested at their   *)
(* end, conversions of operands, arguments, results and initial values,    *)
(* parameters behind the fourth, arrays with nested initialisers, and the  *)
(* values main gives to the globals (ast2ir, handleGlobalVar).             *)
SameProgram ==
  LET agree(m, q) == ~ m.lost => q.pc = 0 /\ q.w.out = m.out
  IN  done = Len(prog) => \A in \in Inputs : agree(Meaning(prog, in), Output(in))
=============================================================================
