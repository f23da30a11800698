------------------------------- MODULE MCTile -------------------------------
EXTENDS Tile

x == 1001
y == 1002
z == 1003
w == 1004

All == Least..(-Least - 1)

(* Those at which another instruction is chosen. *)
Few == {c \in All : \E k \in {-ImmHigh, -ImmBelow, 0, ImmBelow, ImmHigh, half} : Abs(c - k) <= 1} \cup {Least, -Least - 1}

EveryWord == {(x :> n) : n \in All}

(* x is a word, y a few. *)
SomeWords == {(x :> n) @@ (y :> k) : n \in {-31, -2, 0, 5, 30}, k \in {-3, 1, 8}}

Ones(op, c) == {<<Binop(z, op, T(x), C(c))>>, <<Binop(z, op, C(c), T(x))>>}

(* One statement with a constant; sums with 0, products with 0 and 1 and   *)
(* quotients by 0 do not get here.  What remainders of 1, of negative      *)
(* powers of two and of the least number become is looked at below.         *)
Constants ==
  UNION {Ones(op, c) : op \in {"+", "-"}, c \in Few \ {0}}
    \cup UNION {Ones("*", c) : c \in All \ {0, 1}}
    \cup {<<Binop(z, op, C(c), T(x))>> : op \in {"/", "%"}, c \in All}
    \cup {<<Binop(z, "/", T(x), C(c))>> : c \in All \ {0}}
    \cup {<<Binop(z, "%", T(x), C(c))>> : c \in {n \in All \ {0, 1} : n > 0 \/ (m1(-n) = {} /\ n # Least)}}
    \cup {<<Cjump(rel, C(c), T(x))>> : rel \in {"<", ">", "<=", ">=", "=", "#"}, c \in Few}
    \cup {<<Cjump(rel, T(x), C(c))>> : rel \in {"<", ">", "<=", ">=", "=", "#"}, c \in Few}

NegativeRemainders == {<<Binop(z, "%", T(x), C(c))>> : c \in All \ {0, 1, Least}}

SmallRemainders == {<<Binop(z, "%", T(x), C(c))>> : c \in 1..(-Least - 1)}

(* Three statements that load, store, add and multiply. *)
First == {
  Binop(z, "+", T(x), C(4)), Binop(z, "+", C(-7), T(x)), Binop(z, "+", T(x), C(20)),
  Binop(z, "+", T(x), T(y)), Binop(z, "+", T(x), Name(20)), Binop(z, "-", T(x), C(4)),
  Binop(z, "*", T(x), T(y)), Binop(z, "*", T(x), C(11)), Binop(z, "*", T(x), C(4)),
  Binop(z, "*", T(x), C(-4)), Store(T(y), T(x)), Store(Name(20), C(9)), Load(z, T(x))}

Second == {
  Load(w, T(z)), Load(w, T(y)), Load(w, Name(20)), Store(T(z), T(y)), Store(T(z), C(9)), Store(T(z), T(z)),
  Store(T(y), C(19)), Binop(w, "+", T(z), T(y)), Binop(w, "+", T(y), T(z)), Binop(w, "-", T(z), T(y)),
  Binop(w, "-", T(y), T(z)), Binop(w, "-", C(20), T(z)), Binop(w, "+", T(z), T(z)), Move(w, T(z))}

Third == {Load(1005, T(x)), Binop(1005, "+", T(z), C(1)), Store(T(w), T(x)), Binop(1005, "*", T(w), T(y)), Cjump("<", T(w), C(20))}

Operands == <<T(x), C(9), T(y), C(-20), T(x), T(y)>>

Several ==
  {<<a, b, c>> : a \in First, b \in Second, c \in Third}
    \cup {<<Call(z, SubSeq(Operands, k, n)), Binop(w, "+", T(z), T(x)), Move(1005, C(n))>> : k \in 1..3, n \in 2..6}

Every == {<<Constants, EveryWord>>, <<Several, SomeWords>>}

(* For these the properties do not hold. *)
Negative == {<<NegativeRemainders, EveryWord>>}
Small == {<<SmallRemainders, EveryWord>>}
=============================================================================
