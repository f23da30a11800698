------------------------------ MODULE CombExp ------------------------------
(***************************************************************************)
(* Algebraic simplification (Optimizer::combExp, src/src/ssa/AlgoExp.cpp): *)
(* within a block, sums whose only use is another sum become part of it,   *)
(* so do products; then the constants of a sum are added, equal summands   *)
(* multiplied, and equal factors raised to a power.                        *)
(***************************************************************************)
EXTENDS SSAProgram

(* opCommutable; those of floats are "f+" and "f*".                        *)
opCommutable(op) == op \in {"+", "*", "f+", "f*"}

occurrences(s, u) == Cardinality({k \in DOMAIN s : s[k] = u})

(* usemap: <<v, k>> for every time the k-th statement of v reads t, 0 for  *)
(* the jump.                                                               *)
usesOf(p, t) ==
  LET of(v, k) == IF k = 0 THEN p.jump[v] ELSE p.body[v][k]
      args(v, k) == {j \in DOMAIN of(v, k).args : of(v, k).args[j] = T(t)}
  IN  UNION {{<<v, k, j>> : j \in args(v, k)} : <<v, k>> \in
        UNION {{<<v, k>> : k \in 0..Len(p.body[v])} : v \in live(p)}}

(* It can fall to the place of its use. *)
falls(p, v, s) ==
  /\ s.op \in {"+", "*"}
  /\ Cardinality(usesOf(p, s.dst)) = 1
  /\ \A u \in usesOf(p, s.dst) : u[1] = v /\ u[2] # 0 /\ p.body[v][u[2]].op = s.op

(* The leaves below u; m holds the statements that fell. *)
RECURSIVE leaves(_, _)
leaves(m, u) ==
  IF isTemp(u) /\ u[2] \in DOMAIN m
  THEN leaves(m, m[u[2]].args[1]) \o leaves(m, m[u[2]].args[2])
  ELSE <<u>>

-----------------------------------------------------------------------------
(* What is being put together: code, the next temporary nt, the number num *)
(* and the name still to be added, the sum so far acc (both none or one).  *)

emit(a, op, u, v) == [a EXCEPT !.code = Append(@, Binop(a.nt, op, u, v)), !.nt = @ + 1]

(* The operand u joins: with the number, or the name, or the sum so far.   *)
absorb(a, op, unit, u) ==
  LET with(x) == [emit(a, op, x, u) EXCEPT !.acc = <<T(a.nt)>>]
  IN  IF a.num # unit THEN [with(C(a.num)) EXCEPT !.num = unit]
      ELSE IF a.name # << >> THEN [with(a.name[1]) EXCEPT !.name = << >>]
      ELSE IF a.acc # << >> THEN with(a.acc[1])
      ELSE [a EXCEPT !.acc = <<u>>]

finished(a, t) ==
  LET left == a.acc \o a.name
  IN  IF left = << >> THEN [a EXCEPT !.fail = "handelexp: nothing left"]
      ELSE [a EXCEPT !.code = Append(@, Move(t, left[1]))]

(* Every key of a std::map in turn. *)
temps(ls) == sorted({u[2] : u \in {x \in Range(ls) : isTemp(x)}})
names(ls) == sorted({u[2] : u \in {x \in Range(ls) : isName(x)}})
numbers(ls) == SelectSeq(ls, isConst)

(* A summand that occurs more often is multiplied. *)
summand(a, ls, mul, u) ==
  LET n == occurrences(ls, u)
  IN  IF n = 1 THEN [a EXCEPT !.todo = Append(@, u)]
      ELSE [emit(a, mul, C(n), u) EXCEPT !.todo = Append(@, T(a.nt))]

(* A name that occurs once takes the number, or waits, or meets the one    *)
(* that waits.                                                             *)
nameOnce(a, u) ==
  IF a.num # 0 THEN [emit(a, "+", C(a.num), u) EXCEPT !.todo = Append(@, T(a.nt)), !.num = 0]
  ELSE IF a.name = << >> THEN [a EXCEPT !.name = <<u>>]
  ELSE [emit(a, "+", a.name[1], u) EXCEPT !.todo = Append(@, T(a.nt)), !.name = << >>]

joined(a) ==
  LET join(b, u) == IF b.acc = << >> THEN [b EXCEPT !.acc = <<u>>]
                    ELSE [emit(b, "+", b.acc[1], u) EXCEPT !.acc = <<T(b.nt)>>]
  IN  [FoldLeft(join, a, a.todo) EXCEPT !.todo = << >>]

(* T_plus *)
sumOf(a, ls) ==
  LET num == FoldLeft(LAMBDA x, u : Calc("+", x, u[2]), 0, numbers(ls))
      often == SelectSeq(names(ls), LAMBDA n : occurrences(ls, Name(n)) > 1)
      once == SelectSeq(names(ls), LAMBDA n : occurrences(ls, Name(n)) = 1)
      a1 == FoldLeft(LAMBDA b, n : summand(b, ls, "*", Name(n)), [a EXCEPT !.num = num], often)
      a2 == joined(FoldLeft(LAMBDA b, n : nameOnce(b, Name(n)), a1, once))
      a3 == FoldLeft(LAMBDA b, t : summand(b, ls, "*", T(t)), a2, temps(ls))
  IN  FoldLeft(LAMBDA b, u : absorb(b, "+", 0, u), [a3 EXCEPT !.todo = << >>], a3.todo)

(* F_plus: no names. *)
floatSumOf(a, ls) ==
  LET num == FoldLeft(LAMBDA x, u : Calc("f+", x, u[2]), 0, numbers(ls))
      b == FoldLeft(LAMBDA c, t : summand(c, ls, "f*", T(t)), [a EXCEPT !.num = num], temps(ls))
  IN  IF names(ls) # << >> THEN [a EXCEPT !.fail = "handelexp: namev.size() == 0"]
      ELSE FoldLeft(LAMBDA c, u : absorb(c, "f+", 0, u), [b EXCEPT !.todo = << >>], b.todo)

(* The power u^n: the squares of u are multiplied for the bits of n.  The  *)
(* power goes to todo.                                                     *)
RECURSIVE power(_, _, _, _)
power(a, op, u, n) ==
  LET bit == IF n % 2 = 0 THEN a
             ELSE IF a.todo = << >> THEN [a EXCEPT !.code = Append(@, Move(a.nt, u)), !.nt = @ + 1, !.todo = <<T(a.nt)>>]
             ELSE [emit(a, op, a.todo[1], u) EXCEPT !.todo = <<T(a.nt)>>]
  IN  IF n = 0 THEN a ELSE power(emit(bit, op, u, u), op, T(bit.nt), n \div 2)

factor(a, op, ls, t) ==
  LET b == power([a EXCEPT !.todo = << >>], op, T(t), occurrences(ls, T(t)))
  IN  absorb(b, op, 1, b.todo[1])

(* F_mul, and T_mul, in which an address is a factor once at most.         *)
productOf(a, op, ls) ==
  LET num == FoldLeft(LAMBDA x, u : Calc(op, x, u[2]), 1, numbers(ls))
      b == FoldLeft(LAMBDA c, n : IF c.num # 1 \/ c.name # << >> \/ c.acc # << >>
                                  THEN absorb(c, op, 1, Name(n)) ELSE [c EXCEPT !.name = <<Name(n)>>],
                    [a EXCEPT !.num = num], names(ls))
  IN  IF num = 0 THEN [a EXCEPT !.acc = <<C(0)>>]
      ELSE IF \E n \in Range(names(ls)) : op = "f*" \/ occurrences(ls, Name(n)) > 1
      THEN [a EXCEPT !.fail = "handelexp: address can not mul"]
      ELSE [FoldLeft(LAMBDA c, t : factor(c, op, ls, t), b, temps(ls)) EXCEPT !.name = << >>]

combined(a, op, ls) ==
  CASE op = "+" -> sumOf(a, ls)
    [] op = "f+" -> floatSumOf(a, ls)
    [] OTHER -> productOf(a, op, ls)

-----------------------------------------------------------------------------
(* handelexp: mergemap is m; a result that is not used has no entry in     *)
(* usemap.                                                                 *)
handleStm(p, v, q, s) ==
  LET ls == leaves(q.m, s.args[1]) \o leaves(q.m, s.args[2])
      a == [code |-> q.code, nt |-> q.nt, num |-> 0, name |-> << >>, acc |-> << >>, todo |-> << >>, fail |-> q.fail]
      put(r) == [q EXCEPT !.code = r.code, !.nt = r.nt, !.fail = r.fail]
  IN  IF q.fail # "" THEN q
      ELSE IF ~ opCommutable(s.op) THEN [q EXCEPT !.code = Append(@, s)]
      ELSE IF usesOf(p, s.dst) = {} THEN [q EXCEPT !.fail = "usemap.at"]
      ELSE IF falls(p, v, s) THEN [q EXCEPT !.m = (s.dst :> s) @@ @]
      ELSE put(finished(combined(a, s.op, ls), s.dst))

handelexp(p, q, v) ==
  LET put(r) == [q EXCEPT !.body[v] = r.code, !.nt = r.nt, !.fail = r.fail]
  IN  put(FoldLeft(LAMBDA b, s : handleStm(p, v, b, s),
                   [m |-> none, code |-> << >>, nt |-> q.nt, fail |-> q.fail], p.body[v]))

combExp(p) == FoldLeft(LAMBDA q, v : IF v = p.exit THEN q ELSE handelexp(p, q, v), p, sorted(live(p)))
=============================================================================
