------------------------------ MODULE MCPasses ------------------------------
EXTENDS Passes

(* Temporaries are numbered from 1000. *)
x == 1001
y == 1002
z == 1003
nt == 1004

Given == {<<0, 1>>, <<3, 2>>}

Bodies == {
  <<Binop(y, "+", T(y), T(x)), Put(T(y))>>,
  <<Binop(x, "+", T(x), C(1))>>,
  <<Move(z, T(x)), Move(x, T(y)), Move(y, T(z)), Put(T(x))>>}

Jumps(L) ==
  {Jump(l) : l \in L}
    \cup {Cjump("<", T(x), C(3), e[1], e[2]) : e \in {d \in L \X L : d[1] < d[2]}}
    \cup {Cjump(">=", T(x), C(3), e[1], e[2]) : e \in {d \in L \X L : d[1] = d[2] + 2}}

Start == <<Get(x), Move(y, C(1))>>

(* Three blocks between the entry and the end, all of them reached. *)
function(b, j) ==
  Blocks(<<b[1], b[2], b[3]>> @@ (0 :> Start) @@ (4 :> << >>),
         <<j[1], j[2], j[3]>> @@ (0 :> Jump(1)) @@ (4 :> Exit), nt)

ShapesOf(J) ==
  LET nothing == << << >>, << >>, << >> >>
  IN  {j \in J \X J \X J : live(connected(function(nothing, j))) = 0..4}

Shapes == ShapesOf(Jumps(1..4))

(* Three of them in some order. *)
Orders(S) == {c \in S \X S \X S : IsInjective(c)}

(* The first two blocks branch. *)
Branching(J) == {j \in J : isCjump(j[1]) /\ isCjump(j[2])}

Small == {function(b, j) : b \in Orders(Bodies), j \in Shapes}

(* Functions in which what is computed may not be needed; every block leads *)
(* to the end, as the graph of control dependence assumes.                 *)
Ends(q) == LET c == connected(q) IN \A v \in 0..4 : 4 \in reachedFrom(c, {v})

Lazy == {
  << >>,
  <<Binop(y, "+", T(y), T(x))>>,
  <<Binop(x, "+", T(x), C(1))>>,
  <<Put(T(y))>>}

Unneeded ==
  {q \in {function(b, j) : b \in {c \in Orders(Lazy) : <<Put(T(y))>> \in ToSet(c)}, j \in Branching(Shapes)} : Ends(q)}

(* Functions in which some numbers are known, and some branches. *)
Constant == {
  <<Move(x, C(2))>>,
  <<Binop(y, "+", T(y), C(1)), Put(T(y))>>,
  <<Move(z, T(y)), Move(y, T(x)), Put(T(z))>>}

KnownJumps(L) ==
  {Jump(l) : l \in L}
    \cup {Cjump("<", T(x), C(3), e[1], e[2]) : e \in {d \in L \X L : d[1] < d[2]}}
    \cup {Cjump("<", T(y), C(2), e[1], e[2]) : e \in {d \in L \X L : d[1] > d[2]}}

Known ==
  {q \in {function(b, j) : b \in Orders(Constant), j \in {i \in Branching(ShapesOf(KnownJumps(1..4))) : isCjump(i[3])}} :
     Ends(q)}

(* Without loops, so that the end is still reached when the branches known *)
(* not to be taken are gone.                                               *)
Forward(j) == \A v \in 1..3 : \A l \in ToSet(j[v].to) : l > v

Decided ==
  {function(b, j) : b \in Orders(Constant), j \in {i \in ShapesOf(KnownJumps(2..4)) : isCjump(i[1]) /\ Forward(i)}}

(* Functions that load and store: address 3, and one that may be 3.        *)
Accesses == {Store(T(x), C(1)), Store(C(3), T(y)), Load(y, C(3)), Load(y, T(x)), GetArray(y, C(3)), Put(T(y))}

Memory ==
  {Blocks(<<s \o <<Put(T(y))>> >> @@ (0 :> Start) @@ (2 :> << >>),
          <<j>> @@ (0 :> Jump(1)) @@ (2 :> Exit), nt) :
     s \in [1..4 -> Accesses], j \in {Jump(2), Cjump("<", T(y), C(2), 1, 2)}}

(* Functions that add and multiply, in a loop and behind it.               *)
Sums == {
  Binop(z, "+", T(z), T(x)), Binop(z, "*", T(z), T(z)), Binop(z, "+", T(z), C(2)),
  Binop(y, "+", T(y), T(z)), Binop(y, "+", Name(64), T(z)), Binop(y, "f+", T(z), T(z))}

Adding ==
  {Blocks(<<s, <<Put(T(z))>> >> @@ (0 :> <<Get(x), Get(y), Move(z, T(x))>>) @@ (3 :> << >>),
          <<j, Jump(3)>> @@ (0 :> Jump(1)) @@ (3 :> Exit), nt) :
     s \in [1..4 -> Sums], j \in {Jump(2), Cjump("<", T(y), C(9), 1, 2)}}

(* A sum that is used where the program never gets.                        *)
Useless ==
  {Blocks(<<<<Put(T(y))>> >> @@ (0 :> <<Get(x), Binop(y, op, T(x), C(1)), Move(z, C(n))>>) @@ (2 :> << >>),
          <<Jump(2)>> @@ (0 :> Cjump("#", T(z), C(0), 1, 2)) @@ (2 :> Exit), nt) :
     op \in {"+", "-", "*"}, n \in 0..40}

(* Functions that compute the same on some of the ways. *)
Again == {
  << >>,
  <<Binop(z, "+", T(x), T(y)), Put(T(z))>>,
  <<Binop(z, "-", T(x), T(y)), Binop(y, "-", T(y), T(x)), Put(T(y))>>,
  <<Get(y), Binop(z, "+", T(x), T(y)), Put(T(z))>>}

Redundant ==
  {q \in {Blocks(<<b[1], b[2], b[3]>> @@ (0 :> <<Get(x), Get(y), Move(z, T(x))>>) @@ (4 :> << >>),
                 <<j[1], j[2], j[3]>> @@ (0 :> Jump(1)) @@ (4 :> Exit), nt) :
            b \in {c \in Orders(Again) : << >> \in {c[1], c[2]}}, j \in Branching(Shapes)} : Ends(q)}

(* Functions in which variables that grow step by step are added to and    *)
(* multiplied.                                                             *)
Linear == {
  << >>,
  <<Binop(x, "-", T(x), C(2)), Binop(y, "*", T(x), C(3)), Put(T(y))>>,
  <<Binop(y, "+", T(y), T(x)), Binop(z, "*", T(y), C(5)), Put(T(z))>>,
  <<Binop(x, "+", T(x), C(1)), Binop(z, "+", T(x), C(7)), Binop(z, "*", C(3), T(z)), Put(T(z)), Binop(z, "-", T(y), C(4)), Put(T(z))>>}

Looping == {j \in Branching(Shapes) : isCjump(j[3]) /\ \E v \in 2..3 : \E l \in ToSet(j[v].to) : l <= v}

Growing ==
  {q \in {function(b, j) : b \in {c \in Orders(Linear) : c[1] = << >>}, j \in Looping} : Ends(q)}

(* A variable of a loop that is used as x + 7 and goes on as 5 - x.        *)
Turning ==
  {Blocks(<<<<Binop(z, "+", T(x), C(7)), Put(T(z)), st, Binop(y, "+", T(y), C(1))>> >>
            @@ (0 :> <<Get(x), Get(y)>>) @@ (2 :> << >>),
          <<Cjump("<", T(y), C(n), 1, 2)>> @@ (0 :> Jump(1)) @@ (2 :> Exit), nt) :
     st \in {Binop(x, "-", C(5), T(x)), Binop(x, "+", T(x), C(5))}, n \in 0..9}

SSAIR == <<"connect", "cut_edge", "mergeNode", "placePhi", "rename">>

Built == {<<Small, SSAIR \o <<"ssa2ir">>>>}
Dead == {<<Unneeded, SSAIR \o <<"deadCode", "ssa2ir">>>>}
Folded ==
  {<<Known, SSAIR \o <<"deadCode", "constProp", "ssa2ir">>>>,
   <<Decided, SSAIR \o <<"constProp", "deadCode", "ssa2ir">>>>}
Loaded == {<<Memory, SSAIR \o <<"CME", "ssa2ir">>>>}
Summed == {<<Adding, SSAIR \o <<"deadCode", "constProp", "combExp", "ssa2ir">>>>}
Moved == {<<Redundant, SSAIR \o <<"constProp", "PRE", "constProp", "deadCode", "ssa2ir">>>>}
Reduced ==
  {<<Growing, SSAIR \o <<"constProp", "deadCode", "strengthReduction", "constProp", "deadCode", "ssa2ir">>>>}

Every == Built \cup Dead \cup Folded \cup Loaded \cup Summed \cup Moved \cup Reduced

(* Plans for which a property of Passes does not hold. *)
Unused == {<<Useless, SSAIR \o <<"deadCode", "constProp", "combExp">>>>}
Stale == {<<Redundant, SSAIR \o <<"deadCode", "constProp", "PRE">>>>}
Turned ==
  {<<Turning, SSAIR \o <<"constProp", "deadCode", "strengthReduction", "constProp", "deadCode", "ssa2ir">>>>}
=============================================================================
