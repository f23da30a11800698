-------------------------------- MODULE Tile --------------------------------
(***************************************************************************)
(* Instruction selection for integers (src/src/structure/tile.cpp): the    *)
(* statements of a function become instructions, one statement at a time,  *)
(* or two where a load, a store or a sum takes in what comes before it.    *)
(* Multiplication by, division by and remainder of constants become shifts *)
(* and sums (src/src/util/muldiv.cpp).                                     *)
(*                                                                         *)
(* The machine has words of Bits bits; the code is for 32.  A temporary is *)
(* a number; 0 to 3 and 13 are registers.  Floats are left out.            *)
(***************************************************************************)
EXTENDS Integers, Sequences, FiniteSets, TLC, FiniteSetsExt, SequencesExt

CONSTANTS
  Bits,       \* the width of a word, an even number; N in the code
  ImmBelow,   \* a constant from -ImmBelow to ImmHigh is an operand;
  ImmHigh,    \* -128 to 256 in the code
  OffMax,     \* an address may be so far from a register; 4095 in the code
  Given       \* <<lists, beginnings>>: lists of statements, and what temporaries hold before them

SizesAssumption ==
  /\ Bits \in Nat /\ Bits >= 4 /\ Bits % 2 = 0
  /\ ImmBelow \in Nat /\ ImmHigh \in Nat
  /\ OffMax \in Nat

(* What the proofs use of powers of two.                                   *)
PowersAssumption ==
  /\ 2 ^ 0 = 1
  /\ \A k \in 0..(2 * Bits) : 2 ^ k \in Nat \ {0} /\ 2 ^ (k + 1) = 2 * 2 ^ k

VARIABLES
  stms,  \* the statements left
  q,     \* the instructions so far, and the first number not in use
  uses,  \* tempcur: how often the statements read a temporary
  whole, \* all the statements
  begins \* what temporaries may hold before them

vars == <<stms, q, uses, whole, begins>>

T(t) == <<"temp", t>>
C(v) == <<"const", v>>
Name(a) == <<"name", a>>
isTemp(u) == u[1] = "temp"
isConst(u) == u[1] = "const"

Move(t, u) == [op |-> "move", dst |-> t, args |-> <<u>>]
Binop(t, op, u, v) == [op |-> op, dst |-> t, args |-> <<u, v>>]
Load(t, u) == [op |-> "load", dst |-> t, args |-> <<u>>]
Store(u, v) == [op |-> "store", dst |-> -1, args |-> <<u, v>>]
Call(t, us) == [op |-> "call", dst |-> t, args |-> us]
Cjump(rel, u, v) == [op |-> rel, dst |-> -1, args |-> <<u, v>>]
isBinop(st) == st.op \in {"+", "-", "*", "/", "%"}
isCjump(st) == st.op \in {"<", ">", "<=", ">=", "=", "#"}

sp == 13

-----------------------------------------------------------------------------
(* Words. *)

Abs(n) == IF n < 0 THEN -n ELSE n
Words == 2 ^ Bits
Least == -(Words \div 2)
word(n) == ((n - Least) % Words) + Least
lsr(n, k) == word((n % Words) \div 2 ^ k)
asr(n, k) == n \div 2 ^ k
lsl(n, k) == word(n * 2 ^ k)
high(x, y) == (x * y) \div Words
quotient(x, y) ==
  IF y = 0 THEN 0
  ELSE LET n == Abs(x) \div Abs(y) IN word(IF (x < 0) = (y < 0) THEN n ELSE -n)

Calc(op, x, y) ==
  CASE op = "+" -> word(x + y) [] op = "-" -> word(x - y) [] op = "*" -> word(x * y)
    [] op = "/" -> quotient(x, y) [] op = "%" -> word(x - word(quotient(x, y) * y))

Holds(rel, x, y) ==
  CASE rel = "<" -> x < y [] rel = ">" -> x > y [] rel = "<=" -> x <= y
    [] rel = ">=" -> x >= y [] rel = "=" -> x = y [] rel = "#" -> x # y

(* What m has done and holds: env, mem, the calls, whether a jump is taken. *)
get(m, t) == IF t \in DOMAIN m.env THEN m.env[t] ELSE 99
set(m, t, x) == [m EXCEPT !.env = (t :> x) @@ @]
stored(m, a) == IF a \in DOMAIN m.mem THEN m.mem[a] ELSE word(3 * a + 1)

(* A statement. *)
Does(m, st) ==
  LET v(k) == IF isTemp(st.args[k]) THEN get(m, st.args[k][2]) ELSE st.args[k][2]
  IN  CASE st.op = "move" -> set(m, st.dst, v(1))
        [] isBinop(st) -> set(m, st.dst, Calc(st.op, v(1), v(2)))
        [] st.op = "load" -> set(m, st.dst, stored(m, v(1)))
        [] st.op = "store" -> [m EXCEPT !.mem = (v(1) :> v(2)) @@ @]
        [] st.op = "call" ->
             LET n == [m EXCEPT !.calls = Append(@, [k \in DOMAIN st.args |-> v(k)])]
             IN  set(n, st.dst, Len(n.calls))
        [] isCjump(st) -> [m EXCEPT !.taken = Holds(st.op, v(1), v(2))]

(* An instruction: its name, the temporary it writes, those it reads and a *)
(* number.                                                                 *)
I(i, d, s, k) == [i |-> i, d |-> d, s |-> s, k |-> k]

half == 2 ^ (Bits \div 2)

Executes(m, n) ==
  LET v(k) == get(m, n.s[k])
      to(x) == set(m, n.d, word(x))
      passed == [k \in 1..n.k |-> IF k <= 4 THEN get(m, k - 1) ELSE stored(m, get(m, sp) + 4 * (k - 5))]
      back == [m EXCEPT !.calls = Append(@, passed)]
  IN  CASE n.i = "mov" -> to(v(1))
        [] n.i = "mov#" -> to(n.k)
        [] n.i = "mvn#" -> to(-(n.k) - 1)
        [] n.i = "movw" -> to(n.k % half)
        [] n.i = "movt" -> to((get(m, n.d) % half) + (n.k - (n.k % half)))
        [] n.i = "add" -> to(v(1) + v(2))
        [] n.i = "add#" -> to(v(1) + n.k)
        [] n.i = "sub" -> to(v(1) - v(2))
        [] n.i = "sub#" -> to(v(1) - n.k)
        [] n.i = "rsb#" -> to(n.k - v(1))
        [] n.i = "mul" -> to(v(1) * v(2))
        [] n.i = "mla" -> to(v(1) * v(2) + v(3))
        [] n.i = "mls" -> to(v(3) - v(1) * v(2))
        [] n.i = "sdiv" -> to(quotient(v(1), v(2)))
        [] n.i = "smmul" -> to(high(v(1), v(2)))
        [] n.i = "smmla" -> to(high(v(1), v(2)) + v(3))
        [] n.i = "lsl#" -> to(lsl(v(1), n.k))
        [] n.i = "asr#" -> to(asr(v(1), n.k))
        [] n.i = "add lsl" -> to(v(1) + lsl(v(2), n.k))
        [] n.i = "sub lsl" -> to(v(1) - lsl(v(2), n.k))
        [] n.i = "rsb lsl" -> to(lsl(v(2), n.k) - v(1))
        [] n.i = "add lsr" -> to(v(1) + lsr(v(2), n.k))
        [] n.i = "bfc" -> to(get(m, n.d) - (get(m, n.d) % 2 ^ n.k))
        [] n.i = "ldr" -> to(stored(m, v(1)))
        [] n.i = "ldr#" -> to(stored(m, word(v(1) + n.k)))
        [] n.i = "ldr+" -> to(stored(m, word(v(1) + v(2))))
        [] n.i = "str" -> [m EXCEPT !.mem = (v(2) :> v(1)) @@ @]
        [] n.i = "str#" -> [m EXCEPT !.mem = (word(v(2) + n.k) :> v(1)) @@ @]
        [] n.i = "str+" -> [m EXCEPT !.mem = (word(v(2) + v(3)) :> v(1)) @@ @]
        [] n.i = "cmp" -> [m EXCEPT !.cmp = <<v(1), v(2)>>]
        [] n.i = "cmp#" -> [m EXCEPT !.cmp = <<v(1), n.k>>]
        [] n.i = "b" -> [m EXCEPT !.taken = Holds(n.k, m.cmp[1], m.cmp[2])]
        [] n.i = "bl" ->
             [back EXCEPT !.env = (0 :> Len(back.calls)) @@ (1 :> 98) @@ (2 :> 98) @@ (3 :> 98) @@ @]

-----------------------------------------------------------------------------
(* muldiv: what a constant is a power of two, a sum or a difference of two *)
(* of.                                                                     *)

m1(c) == {i \in 0..(Bits - 2) : 2 ^ i = c}
m2(c) == {e \in (1..(Bits - 2)) \X (0..(Bits - 2)) : e[2] < e[1] /\ 2 ^ e[1] + 2 ^ e[2] = c}
m3(c) == {e \in (1..(Bits - 2)) \X (0..(Bits - 2)) : e[2] < e[1] /\ 2 ^ e[1] - 2 ^ e[2] = c}
MULoptTest(c) == m1(c) # {} \/ m2(c) # {} \/ m3(c) # {}
one(S) == CHOOSE e \in S : TRUE

log(d) == Min({l \in 0..Bits : 2 ^ l >= d})

(* Mutant: one bit less is looked at before the number is halved. *)
chooseMultiplierShort(d, p) ==
  LET l == log(d)
      low == 2 ^ (Bits + l) \div d
      top == (2 ^ (Bits + l) + 2 ^ (Bits + l - p)) \div d
      halved == {k \in 0..l : \A j \in 1..k : low \div 2 ^ j <= top \div 2 ^ j}
  IN  [m |-> top \div 2 ^ Max(halved), sh |-> l - Max(halved), l |-> l]

(* The multiplier for a division by d that is right for numbers of p bits, *)
(* and by how much the product is shifted.                                 *)
chooseMultiplier(d, p) ==
  LET l == log(d)
      low == 2 ^ (Bits + l) \div d
      top == (2 ^ (Bits + l) + 2 ^ (Bits + l - p)) \div d
      halved == {k \in 0..l : \A j \in 1..k : low \div 2 ^ j < top \div 2 ^ j}
  IN  [m |-> top \div 2 ^ Max(halved), sh |-> l - Max(halved), l |-> l]

(* check2pow: of a negative number only the least is a power of two. *)
check2pow(c) == c = Least \/ c \in {2 ^ i : i \in 0..(Bits - 2)}

isImm(c) == c \in (-ImmBelow)..ImmHigh
(* How far an address may be from a register in a load or a store. *)
isOffset(c) == c # 0 /\ Abs(c) <= OffMax

-----------------------------------------------------------------------------
(* Expressions and statements. *)

emit(r, n) == [r EXCEPT !.code = Append(@, n)]
emitAll(r, ns) == [r EXCEPT !.code = @ \o ns]
newtemp(r) == [r EXCEPT !.nt = @ + 1]

(* `mov: a constant into a temporary. *)
constant(d, k) ==
  IF k \in 0..ImmHigh THEN <<I("mov#", d, << >>, k)>>
  ELSE IF k < 0 /\ -k - 1 <= ImmHigh THEN <<I("mvn#", d, << >>, -k - 1)>>
  ELSE IF k \in 0..(half - 1) THEN <<I("movw", d, << >>, k)>>
  ELSE <<I("movw", d, << >>, k), I("movt", d, << >>, k)>>

address(d, a) == <<I("movw", d, << >>, a), I("movt", d, << >>, a)>>

(* An operand: the temporary that holds it is .t of what operand gives. *)
operand(r, u) ==
  IF isTemp(u) THEN [q |-> r, t |-> u[2]]
  ELSE [q |-> emitAll(newtemp(r), IF isConst(u) THEN constant(r.nt, u[2]) ELSE address(r.nt, u[2])), t |-> r.nt]

(* Both operands, u first. *)
operands(r, u, v) ==
  LET both(a, b) == [q |-> b.q, t |-> <<a.t, b.t>>]
      first(a) == both(a, operand(a.q, v))
  IN  first(operand(r, u))

general(r, d, op, u, v) ==
  LET name == CASE op = "+" -> "add" [] op = "-" -> "sub" [] op = "*" -> "mul" [] op = "/" -> "sdiv"
      by(o) == IF op # "%" THEN emit(o.q, I(name, d, o.t, 0))
               ELSE emitAll(newtemp(o.q), <<I("sdiv", o.q.nt, o.t, 0), I("mls", d, <<o.q.nt, o.t[2], o.t[1]>>, 0)>>)
  IN  by(operands(r, u, v))

(* d is t times c, a power of two, or a sum or a difference of two. *)
timesCode(d, t, c) ==
  LET s == one(m1(Abs(c)))
      e == one(IF m2(Abs(c)) # {} THEN m2(Abs(c)) ELSE m3(Abs(c)))
      first == IF m2(Abs(c)) # {} THEN "add lsl" ELSE "rsb lsl"
      negated == IF c < 0 THEN <<I("rsb#", d, <<d>>, 0)>> ELSE << >>
  IN  IF m1(Abs(c)) = {}
      THEN <<I(first, d, <<t, t>>, e[1] - e[2])>> \o negated \o <<I("lsl#", d, <<d>>, e[2])>>
      ELSE IF c > 0 THEN <<I("lsl#", d, <<t>>, s)>>
      ELSE <<I("mov#", d, << >>, 0), I("sub lsl", d, <<d, t>>, s)>>

times(r, d, t, c) ==
  IF MULoptTest(Abs(c)) THEN emitAll(r, timesCode(d, t, c)) ELSE general(r, d, "*", T(t), C(c))

dividedBy(r, d, t, c) ==
  LET mut == chooseMultiplier(Abs(c), Bits - 1)
      n == r.nt
      isSmall == mut.m < 2 ^ (Bits - 1)
      signed == IF c < 0 THEN <<I("rsb#", d, <<d>>, 0)>> ELSE << >>
      by == IF Abs(c) = 1 THEN <<I("mov", d, <<t>>, 0)>>
            ELSE IF check2pow(Abs(c)) \/ c = Least
            THEN <<I("asr#", d, <<t>>, mut.l - 1), I("add lsr", n, <<t, d>>, Bits - mut.l),
                   I("asr#", d, <<n>>, mut.l)>>
            ELSE constant(n, IF isSmall THEN mut.m ELSE mut.m - Words)
                 \o <<IF isSmall THEN I("smmul", n, <<n, t>>, 0) ELSE I("smmla", n, <<t, n, t>>, 0),
                      I("asr#", d, <<n>>, mut.sh),
                      I("add lsr", d, <<d, IF isSmall THEN t ELSE n>>, Bits - 1)>>
  IN  emitAll(newtemp(r), by \o signed)

remainderOf(r, d, t, c) ==
  LET n == r.nt
  IN  IF check2pow(c)
      THEN emitAll(r, <<I("asr#", d, <<t>>, Bits - 1), I("add lsr", d, <<t, d>>, Bits - log(c)),
                        I("bfc", d, << >>, log(c)), I("sub", d, <<t, d>>, 0)>>)
      ELSE emit(times(dividedBy(newtemp(r), n, t, c), n, n, c), I("sub", d, <<t, n>>, 0))

(* Mutant: a negative number is an operand of rsb. *)
withConstantAny(r, d, op, u, v) ==
  LET left == isConst(u)
      c == IF left THEN u[2] ELSE v[2]
      by(o) ==
        CASE isImm(c) /\ op = "+" -> emit(o.q, I("add#", d, <<o.t>>, c))
          [] isImm(c) /\ op = "-" -> emit(o.q, I(IF left THEN "rsb#" ELSE "sub#", d, <<o.t>>, c))
          [] OTHER -> general(r, d, op, u, v)
  IN  by(operand(r, IF left THEN v ELSE u))

(* d is u op v; one of them is a constant. *)
withConstant(r, d, op, u, v) ==
  LET left == isConst(u)
      c == IF left THEN u[2] ELSE v[2]
      negated == op = "*" /\ left /\ c = -1
      by(o) ==
        CASE isImm(c) /\ op = "+" -> emit(o.q, I("add#", d, <<o.t>>, c))
          [] isImm(c) /\ op = "-" /\ ~ (left /\ c < 0) ->
               emit(o.q, I(IF left THEN "rsb#" ELSE "sub#", d, <<o.t>>, c))
          [] op = "*" /\ ~ negated /\ MULoptTest(Abs(c)) -> times(o.q, d, o.t, c)
          [] op = "/" /\ ~ left -> dividedBy(o.q, d, o.t, c)
          [] op = "%" /\ ~ left -> remainderOf(o.q, d, o.t, c)
          [] OTHER -> general(IF negated THEN emit(o.q, I("rsb#", d, <<o.t>>, 0)) ELSE r, d, op, u, v)
  IN  by(operand(r, IF left THEN v ELSE u))

binop(r, st) ==
  IF isConst(st.args[1]) \/ isConst(st.args[2])
  THEN withConstant(r, st.dst, st.op, st.args[1], st.args[2])
  ELSE general(r, st.dst, st.op, st.args[1], st.args[2])

commute(rel) ==
  CASE rel = "<" -> ">" [] rel = ">" -> "<" [] rel = "<=" -> ">=" [] rel = ">=" -> "<=" [] OTHER -> rel

cjump(r, st) ==
  LET left == isConst(st.args[1])
      u == IF left THEN st.args[2] ELSE st.args[1]
      v == IF left THEN st.args[1] ELSE st.args[2]
      with(o) == emit(o.q, I("cmp", -1, o.t, 0))
      by(a) == emit(a.q, I("cmp#", -1, <<a.t>>, v[2]))
      compared == IF isConst(v) /\ isImm(v[2]) THEN by(operand(r, u)) ELSE with(operands(r, u, v))
  IN  emit(compared, I("b", -1, << >>, IF left THEN commute(st.op) ELSE st.op))

moved(r, d, u) ==
  IF isTemp(u) THEN emit(r, I("mov", d, <<u[2]>>, 0))
  ELSE emitAll(r, IF isConst(u) THEN constant(d, u[2]) ELSE address(d, u[2]))

storedAt(r, u, v) ==
  LET by(o) == emit(o.q, I("str", -1, o.t, 0)) IN by(operands(r, v, u))

(* Four arguments in registers, the others from the stack pointer up. *)
call(r, st) ==
  LET n == Len(st.args)
      size == 4 * Max({n - 4, 0})
      moveBy(a, k) == IF size = 0 THEN a ELSE binop(a, Binop(sp, "+", T(sp), C(k)))
      pass(a, k) ==
        IF k <= 4 THEN moved(a, k - 1, st.args[k])
        ELSE storedAt(binop(newtemp(a), Binop(a.nt, "+", T(sp), C(4 * (k - 5)))), T(a.nt), st.args[k])
      passed[k \in 0..n] == IF k = 0 THEN moveBy(r, -size) ELSE pass(passed[k - 1], k)
      called == emit(passed[n], I("bl", 0, << >>, n))
  IN  emit(moveBy(called, size), I("mov", st.dst, <<0>>, 0))

stm(r, st) ==
  CASE isBinop(st) -> binop(r, st)
    [] isCjump(st) -> cjump(r, st)
    [] st.op = "store" -> storedAt(r, st.args[1], st.args[2])
    [] st.op = "load" -> LET a == operand(r, st.args[1]) IN emit(a.q, I("ldr", st.dst, <<a.t>>, 0))
    [] st.op = "move" -> moved(r, st.dst, st.args[1])
    [] st.op = "call" -> call(r, st)

-----------------------------------------------------------------------------
(* The loop of ir2asm over the statements. *)

(* What selection is given, and remainders of 1 and of the least number    *)
(* aside, for which bfc would clear no bit: the operations have as many    *)
(* operands as they take, and a divisor is a word other than 0, as         *)
(* asserted.                                                               *)
Operand == ({"temp"} \X Int) \cup ({"const"} \X Int) \cup ({"name"} \X Int)

Proper(st) ==
  /\ isBinop(st) \/ isCjump(st) \/ st.op = "store" => Len(st.args) = 2
  /\ st.op \in {"load", "move"} => Len(st.args) = 1
  /\ st.op \in {"/", "%"} /\ isConst(st.args[2]) =>
       st.args[2][2] \in (Least..(-Least - 1)) \ {0}
  /\ st.op = "%" /\ isConst(st.args[2]) /\ ~ isConst(st.args[1]) => st.args[2][2] \notin {1, Least}

Ops == {"+", "-", "*", "/", "%", "<", ">", "<=", ">=", "=", "#", "store", "load", "move", "call"}

Statements == {st \in [op : Ops, dst : Int, args : Seq(Operand)] : Proper(st)}

GivenAssumption == \A family \in Given : \A list \in family[1] : list \in Seq(Statements)

readsOf(ss, t) == Cardinality({e \in (DOMAIN ss) \X (1..6) :
  e[2] \in DOMAIN ss[e[1]].args /\ ss[e[1]].args[e[2]] = T(t)})

InitWith(list, beginnings) ==
  /\ whole = list /\ begins = beginnings
  /\ stms = whole
  /\ q = [code |-> << >>, nt |-> 2000]
  /\ uses = [t \in {whole[k].dst : k \in DOMAIN whole} |-> readsOf(whole, t)]

Init == \E family \in Given : \E list \in family[1] : InitWith(list, family[2])

s1 == stms[1]

(* A load from where the statement before has stored takes what was stored. *)
s2 == IF s1.op = "store" /\ stms[2].op = "load" /\ stms[2].args[1] = s1.args[1]
      THEN Move(stms[2].dst, s1.args[2])
      ELSE stms[2]

onlyRead(t) == uses[t] = 1

(* s2 reads or writes memory where s1 says, and nothing else reads what s1 *)
(* computes.                                                               *)
addresses(op) ==
  /\ Len(stms) >= 2 /\ isBinop(s1) /\ s2.op = op
  /\ s2.args[1] = T(s1.dst) /\ onlyRead(s1.dst)

hasConst(st) == isConst(st.args[1]) \/ isConst(st.args[2])
constOf(st) == IF isConst(st.args[1]) THEN st.args[1][2] ELSE st.args[2][2]
otherOf(st) == IF isConst(st.args[1]) THEN st.args[2] ELSE st.args[1]

loadsAt == addresses("load") /\ s1.op = "+" /\ (hasConst(s1) => isOffset(constOf(s1)))

LoadAt ==
  /\ loadsAt
  /\ LET near(a) == emit(a.q, I("ldr#", s2.dst, <<a.t>>, constOf(s1)))
         far(o) == emit(o.q, I("ldr+", s2.dst, o.t, 0))
     IN  q' = IF hasConst(s1) THEN near(operand(q, otherOf(s1))) ELSE far(operands(q, s1.args[1], s1.args[2]))
  /\ stms' = Tail(Tail(stms))
  /\ UNCHANGED <<uses, whole, begins>>

storesAt == addresses("store") /\ s1.op = "+" /\ hasConst(s1)

StoreAt ==
  /\ storesAt
  /\ LET near(o) == emit(o.q, I("str#", -1, o.t, constOf(s1)))
         far(b, o) == emit(o.q, I("str+", -1, <<b.t>> \o o.t, 0))
         to(b) == far(b, operands(b.q, s1.args[1], s1.args[2]))
     IN  q' = IF isOffset(constOf(s1)) THEN near(operands(q, s2.args[2], otherOf(s1)))
              ELSE to(operand(q, s2.args[2]))
  /\ stms' = Tail(Tail(stms))
  /\ UNCHANGED <<uses, whole, begins>>

(* What the product s1 is added to or subtracted from in s2. *)
addend ==
  IF s2.args[1] = T(s1.dst) THEN IF s2.op = "+" THEN {s2.args[2]} ELSE {}
  ELSE IF s2.args[2] = T(s1.dst) THEN {s2.args[1]} ELSE {}

multipliesIn ==
  /\ Len(stms) >= 2 /\ s1.op = "*" /\ s2.op \in {"+", "-"}
  /\ onlyRead(s1.dst) /\ addend # {}
  /\ ~ (hasConst(s1) /\ MULoptTest(constOf(s1)))

MultiplyAdd ==
  /\ multipliesIn
  /\ LET by(o, c) == emit(c.q, I(IF s2.op = "+" THEN "mla" ELSE "mls", s2.dst, Append(o.t, c.t), 0))
         with(o) == by(o, operand(o.q, one(addend)))
     IN  q' = with(operands(q, s1.args[1], s1.args[2]))
  /\ stms' = Tail(Tail(stms))
  /\ UNCHANGED <<uses, whole, begins>>

(* s1 alone; the constant that s2 stores has already been put into a       *)
(* temporary when it is found that s2 stores elsewhere.                    *)
One ==
  /\ stms # << >>
  /\ ~ (loadsAt \/ storesAt \/ multipliesIn)
  /\ LET looked == Len(stms) >= 2 /\ isBinop(s1) /\ s2.op = "store" /\ isTemp(s2.args[1])
     IN  q' = stm(IF looked THEN operand(q, s2.args[2]).q ELSE q, s1)
  /\ stms' = IF Len(stms) >= 2 THEN <<s2>> \o Tail(Tail(stms)) ELSE << >>
  /\ UNCHANGED <<uses, whole, begins>>

(* The compiler aborts: an address computed from two constants, a load     *)
(* from the difference of two temporaries, or a store to a difference with *)
(* a constant that is no offset, is asserted not to occur.                 *)
asserted ==
  \/ (addresses("load") \/ addresses("store")) /\ isConst(s1.args[1]) /\ isConst(s1.args[2])
  \/ addresses("load") /\ s1.op = "-" /\ ~ hasConst(s1)
  \/ addresses("store") /\ s1.op = "-" /\ hasConst(s1) /\ ~ isOffset(constOf(s1))

Next == ~ asserted /\ (LoadAt \/ StoreAt \/ MultiplyAdd \/ One)

Spec == Init /\ [][Next]_vars

-----------------------------------------------------------------------------
(* Properties. *)

Begin(e) == [env |-> (sp :> 120) @@ e, mem |-> [a \in {} |-> 0], calls |-> << >>, taken |-> FALSE, cmp |-> <<0, 0>>]

(* Where arguments are put is not looked at. *)
onStack(a) == a \in 100..119

same(m, n) ==
  /\ \A t \in DOMAIN uses \ {-1} : uses[t] # 1 => get(m, t) = get(n, t)
  /\ \A a \in (DOMAIN m.mem \cup DOMAIN n.mem) : onStack(a) \/ stored(m, a) = stored(n, a)
  /\ m.calls = n.calls /\ m.taken = n.taken
  /\ get(m, sp) = get(n, sp)

(* The instructions selected so far, and then the statements that are      *)
(* left, do what the statements do: for every word the temporaries leave   *)
(* the same values, but those read once only, memory, calls and the way    *)
(* taken.                                                                  *)
SameMeaning ==
  \A e \in begins :
    same(FoldLeft(Does, FoldLeft(Executes, Begin(e), q.code), stms), FoldLeft(Does, Begin(e), whole))

(* Constants are in the range of an operand, shifts within the word, and   *)
(* bfc clears one bit at least.                                            *)
Takes(n) ==
  CASE n.i \in {"add#", "sub#", "cmp#"} -> isImm(n.k)
    [] n.i \in {"mov#", "mvn#", "rsb#"} -> n.k \in 0..ImmHigh
    [] n.i \in {"lsl#", "asr#", "add lsl", "sub lsl", "rsb lsl"} -> n.k \in 0..(Bits - 1)
    [] n.i \in {"add lsr", "bfc"} -> n.k \in 1..Bits
    [] n.i \in {"ldr#", "str#"} -> n.k \in (-OffMax)..OffMax
    [] OTHER -> TRUE

(* The assembler takes every instruction.                                  *)
Encodable == \A k \in DOMAIN q.code : Takes(q.code[k])
=============================================================================
