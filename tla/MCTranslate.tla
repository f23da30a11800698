---------------------------- MODULE MCTranslate ----------------------------
(***************************************************************************)
(* Programs for Translate, in families, one for each hazard of the         *)
(* translation; what a program reads is 0 or 1.                            *)
(***************************************************************************)
EXTENDS Translate

N(v) == IntNumber(v)
Put(e) == PutStmt("int", e)
IntVar(x, e) == VarDef("int", x, << >>, e)
Set(x, e) == AssignStmt(Var(x), e)
Inc(x) == Set(x, Arith("+", Var(x), N(1)))
If(e, s) == IfStmt(e, s, Block(<< >>))
Main(ss) == FuncDef("int", "main", << >>, ss \o <<ReturnStmt(N(0))>>)
Getint == CallExp("getint", << >>)

(* int tick(int x) { putint(x); return getint(); } *)
TickDef == FuncDef("int", "tick", <<Parameter("int", "x", << >>)>>, <<Put(Var("x")), ReturnStmt(Getint)>>)
Tick(k) == CallExp("tick", <<N(k)>>)

-----------------------------------------------------------------------------
(* Conditions of three calls, and where a condition can stand.             *)

Maybe(not, e) == IF not THEN UnaryExp("!", e) ELSE e
Join(and, l, r) == IF and THEN LAndExp(l, r) ELSE LOrExp(l, r)

Conditions ==
  {LET f(k) == Maybe(n[k], IF k = 2 THEN Compare("<", Tick(2), N(1)) ELSE Tick(k))
   IN  IF left THEN Join(p, Maybe(n[4], Join(o, f(1), f(2))), f(3))
       ELSE Join(p, f(1), Maybe(n[4], Join(o, f(2), f(3)))) :
     n \in {m \in [1..4 -> BOOLEAN] : Cardinality({k \in 1..4 : m[k]}) < 3},
     left \in BOOLEAN, o \in BOOLEAN, p \in BOOLEAN}

Placed(c) ==
  {<<IfStmt(c, Put(N(7)), Put(N(8)))>>,
   <<WhileStmt(c, Block(<<Put(N(7)), If(Tick(4), BreakStmt)>>))>>,
   <<Put(Arith("+", Tick(5), c))>>,
   <<IntVar("x", UnaryExp("-", c)), Put(CallExp("tick", <<Var("x")>>))>>}

ShortCircuit == {<<TickDef, Main(ss)>> : ss \in UNION {Placed(c) : c \in Conditions}}

-----------------------------------------------------------------------------
(* Loops: break and continue of inner and outer loops, and names that are  *)
(* defined again in a block.                                               *)

Equals(x, e) == Compare("==", Var(x), e)

Items ==
  {<<If(Equals("i", N(1)), ContinueStmt)>>,
   <<If(Equals("i", N(2)), BreakStmt)>>,
   <<Put(Var("i"))>>,
   <<Block(<<IntVar("i", Arith("+", Var("i"), N(5))), Inc("i"), Put(Var("i"))>>)>>,
   <<If(Equals("i", N(2)), ReturnStmt(Var("i")))>>}
  \cup {<<IntVar("j", N(0)), WhileStmt(Compare("<", Var("j"), N(2)),
          Block(<<Inc("j"), If(Equals("j", Var("i")), s), Put(Arith("*", N(10), Var("j")))>>))>> :
         s \in {ContinueStmt, BreakStmt}}

Loop(ss) ==
  Main(<<IntVar("i", Getint), WhileStmt(Compare("<", Var("i"), N(3)), Block(<<Inc("i")>> \o ss)), Put(Var("i"))>>)

Loops == {<<Loop(a \o b \o c)>> : a \in Items, b \in Items, c \in Items}

-----------------------------------------------------------------------------
(* Integers and floats: initial values, operands, arguments, results.      *)

Kinds == {"int", "float"}
Numbers == {N(3), FloatNumber(3), UnaryExp("-", FloatNumber(5))}

Conversion(k, l, m, e) ==
  <<VarDef(k, "g", << >>, e), ConstDef(l, "c", << >>, Arith("+", e, N(2))),
    FuncDef(m, "f", <<Parameter(l, "x", << >>)>>,
      <<If(Compare(">", Var("x"), FloatNumber(1)), ReturnStmt(Arith("+", Var("x"), Var("g")))),
        ReturnStmt(Arith("-", Var("c"), Var("x")))>>),
    Main(<<VarDef(l, "x", << >>, CallExp("f", <<Var("g")>>)), PutStmt("float", Var("x")),
           VarDef(k, "v", <<N(2)>>, InitValList(<<Var("x"), e>>)), PutStmt(m, Lval("v", <<N(1)>>)),
           AssignStmt(Lval("v", <<Getint>>), Arith("*", Var("c"), Var("x"))), PutStmt(k, Lval("v", <<N(0)>>)),
           Set("g", UnaryExp("-", Var("x"))), PutStmt(m, Arith("+", Var("g"), Getint)),
           If(UnaryExp("!", Compare("==", Var("g"), Var("x"))), Put(Var("c")))>>)>>

Conversions == {Conversion(k, l, m, e) : k \in Kinds, l \in Kinds, m \in Kinds, e \in Numbers}

-----------------------------------------------------------------------------
(* Parameters in registers and behind the frame, of a function with arrays *)
(* of its own that calls itself.                                           *)

Letter == <<"a", "b", "c", "d", "e", "f", "g">>

Many(n, ks) ==
  <<FuncDef("int", "h", [k \in 1..n |-> Parameter(ks[k], Letter[k], << >>)],
      <<VarDef("int", "v", <<N(2)>>, InitValList(<<Var(Letter[n]), Var("a")>>)),
        If(Compare(">", Var("a"), N(1)),
           Block(<<Put(CallExp("h", <<Arith("-", Var("a"), N(1))>> \o [k \in 1..(n - 1) |-> Var(Letter[k])]))>>))>>
        \o [k \in 1..n |-> PutStmt(ks[k], Var(Letter[k]))]
        \o <<Put(Lval("v", <<N(0)>>)), Put(Lval("v", <<N(1)>>)), ReturnStmt(Lval("v", <<Getint>>))>>),
    TickDef,
    Main(<<VarDef("int", "w", <<N(3)>>, InitValList(<<N(4)>>)),
           Put(CallExp("h", [k \in 1..n |-> IF k = 1 THEN N(3) ELSE IF k = 2 THEN Tick(9) ELSE N(10 + k)])),
           Put(Lval("w", <<N(0)>>))>>)>>

Parameters == {Many(n, [[k \in 1..n |-> "int"] EXCEPT ![i] = "float"]) : n \in 4..7, i \in {2, 4}}
                \cup {Many(n, [k \in 1..n |-> IF k = n THEN "float" ELSE "int"]) : n \in 4..7}

-----------------------------------------------------------------------------
(* Arrays of two dimensions: initialisers, where they are defined, rows    *)
(* and whole arrays as arguments, and a constant one that gives a size.    *)

Row(es) == InitValList(es)
Initialisers ==
  {Row(<< >>), Row(<<N(1)>>), Row(<<N(1), N(2), N(3), N(4), N(5), N(6)>>),
   Row(<<Row(<<N(1), N(2), N(3)>>), Row(<<N(4), N(5), N(6)>>)>>),
   Row(<<Row(<<N(1)>>), Row(<<N(2), N(3)>>)>>),
   Row(<<Row(<< >>), N(4), N(5)>>),
   Row(<<N(1), N(2), N(3), Row(<<N(4)>>)>>),
   Row(<<Row(<<N(1), FloatNumber(5)>>), N(3)>>)}

InLoop(x, n, s) ==
  <<IntVar(x, N(0)), WhileStmt(Compare("<", Var(x), n), Block(<<s, Inc(x)>>))>>

ArrayDefs(k, i) == {VarDef(k, "m", <<N(2), N(3)>>, i), ConstDef(k, "m", <<N(2), N(3)>>, i)}

(* int row(k v[], int n): the sum, and doubles the first. *)
RowDef(k) ==
  FuncDef("int", "row", <<Parameter(k, "v", <<N(1)>>), Parameter("int", "n", << >>)>>,
    <<IntVar("s", N(0))>>
      \o InLoop("i", Var("n"), Block(<<PutStmt(k, Lval("v", <<Var("i")>>)), Set("s", Arith("+", Var("s"), Lval("v", <<Var("i")>>)))>>))
      \o <<ReturnStmt(Var("s"))>>)

(* void turn(k m[][3]): exchanges two elements of different rows. *)
TurnDef(k) ==
  FuncDef("void", "turn", <<Parameter(k, "m", <<N(1), N(3)>>)>>,
    <<VarDef(k, "t", << >>, Lval("m", <<N(0), N(1)>>)),
      AssignStmt(Lval("m", <<N(0), N(1)>>), Lval("m", <<N(1), Getint>>)),
      AssignStmt(Lval("m", <<N(1), N(0)>>), Var("t")), ReturnStmt(NoInit)>>)

UseArray ==
  <<Put(CallExp("row", <<Lval("m", <<Getint>>), N(3)>>)), ExpStmt(CallExp("turn", <<Var("m")>>)),
    Put(CallExp("row", <<Lval("m", <<N(1)>>), N(3)>>)), Put(CallExp("row", <<Lval("m", <<N(0)>>), N(2)>>))>>

Arrays ==
  UNION {{<<d, RowDef(k), TurnDef(k), Main(UseArray)>>,
          <<RowDef(k), TurnDef(k), Main(<<VarDef("int", "z", <<N(2)>>, InitValList(<<N(8), N(9)>>)), d>> \o UseArray
                                         \o <<Put(Lval("z", <<N(0)>>)), Put(Lval("z", <<N(1)>>))>>)>>} :
            <<k, d>> \in UNION {{<<k, d>> : d \in UNION {ArrayDefs(k, i) : i \in Initialisers}} : k \in Kinds}}

Sizes ==
  {<<ConstDef("int", "c", <<N(2), N(2)>>, Row(<<Row(<<N(1), N(e)>>), N(3)>>)),
     ConstDef("int", "n", << >>, Lval("c", <<N(a), N(b)>>)),
     VarDef("int", "u", <<Arith("+", Var("n"), N(1))>>, NoInit), IntVar("w", N(5)), VarDef("float", "y", << >>, NoInit),
     Main(<<Put(Var("n")), AssignStmt(Lval("u", <<Var("n")>>), N(6)), Put(Lval("u", <<Var("n")>>)),
            Put(Lval("u", <<N(0)>>)), Put(Var("w")), PutStmt("float", Var("y"))>>)>> :
      e \in 2..3, a \in 0..1, b \in 0..1}

-----------------------------------------------------------------------------
AllPrograms == ShortCircuit \cup Loops \cup Conversions \cup Parameters \cup Arrays \cup Sizes

(* Braces that begin where a smaller part of the array does than calArray  *)
(* takes them for (not in the run).                                        *)
Braced ==
  {<<VarDef("int", "m", <<N(2), N(2), N(2)>>, Row(<<N(1), N(2), Row(<<N(3)>>), N(5)>>)),
     Main(<<Put(Lval("m", <<N(1), N(0), N(0)>>))>>)>>}

(* The product of 0 and a negative number as a condition (not in the run). *)
NegativeZero ==
  {<<VarDef("float", "x", << >>, NoInit),
     Main(<<If(Arith("*", Var("x"), UnaryExp("-", FloatNumber(2))), Put(N(1)))>>)>>}
=============================================================================
