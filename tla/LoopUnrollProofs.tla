-------------------------- MODULE LoopUnrollProofs --------------------------
(***************************************************************************)
(* Proofs about LoopUnroll: for every loop that is Ordinary, of integers   *)
(* of any width, unrolling keeps how often the block is run.               *)
(***************************************************************************)
EXTENDS LoopUnroll, TLAPS

(* The value of the variable after k runs. *)
after(l, k) == l.begin + k * l.step

-----------------------------------------------------------------------------
(* Arithmetic. *)

LEMMA Quotient ==
  ASSUME NEW a \in Nat, NEW b \in Nat \ {0}
  PROVE  a \div b \in Nat /\ (a \div b) * b <= a /\ a < (a \div b) * b + b
  OBVIOUS

LEMMA Division ==
  ASSUME NEW a \in Int, NEW m \in Nat \ {0}
  PROVE  a % m \in Int /\ a \div m \in Int /\ a = m * (a \div m) + (a % m)
  OBVIOUS

LEMMA Steps ==
  ASSUME NEW j \in Int, NEW k \in Int, NEW s \in Int, j <= k
  PROVE  /\ j * s \in Int /\ k * s \in Int
         /\ s >= 0 => j * s <= k * s
         /\ s <= 0 => j * s >= k * s
         /\ j < k /\ s > 0 => j * s + s <= k * s
         /\ j < k /\ s < 0 => j * s + s >= k * s
  OBVIOUS

LEMMA NextStep ==
  ASSUME NEW k \in Int, NEW s \in Int
  PROVE  /\ (k + 1) * s = k * s + s /\ (k + 4) * s = k * s + 4 * s
         /\ (-k) * s = -(k * s) /\ k * (-s) = -(k * s) /\ 0 * s = 0 /\ 1 * s = s
  OBVIOUS

LEMMA WordInt == Half \in Nat \ {0} /\ \A x \in Word : x \in Int /\ -Half <= x /\ x < Half
  BY LoopsAssumption DEF Word

LEMMA WordMember == \A x \in Int : -Half <= x /\ x < Half => x \in Word
  BY LoopsAssumption DEF Word

(* What fits is left alone. *)
LEMMA WrapWord == \A x \in Word : wrap(x) = x
  <1> SUFFICES ASSUME NEW h \in Nat \ {0}, NEW x \in Int, -h <= x, x < h
               PROVE  ((x + h) % (2 * h)) - h = x
    BY WordInt DEF wrap
  <1> QED
    OBVIOUS

LEMMA WrapType == \A x \in Int : wrap(x) \in Word
  <1> SUFFICES ASSUME NEW x \in Int PROVE wrap(x) \in Word
    OBVIOUS
  <1> DEFINE m == 2 * Half
  <1>1. m \in Nat \ {0} /\ m - Half = Half /\ Half \in Nat
    BY LoopsAssumption
  <1>2. (x + Half) % m \in 0..(m - 1)
    BY <1>1
  <1> QED
    BY <1>1, <1>2 DEF wrap, Word

(* A sum that fits is right, even if a part of it did not.                 *)
LEMMA WrapSum ==
  ASSUME NEW x \in Int, NEW y \in Int, x + y \in Word
  PROVE  wrap(x + wrap(y)) = x + y
  <1> DEFINE m == 2 * Half
             r == (y + Half) % m
             q == (y + Half) \div m
  <1>1. m \in Nat \ {0} /\ m - Half = Half /\ Half \in Nat
    BY LoopsAssumption
  <1>2. r \in Int /\ q \in Int /\ y + Half = m * q + r
    <2>1. y + Half \in Int
      BY <1>1
    <2> HIDE DEF m
    <2> QED
      BY <1>1, <2>1, Division
  <1>3. wrap(y) = y - m * q
    BY <1>1, <1>2 DEF wrap
  <1> HIDE DEF r, q
  <1>4. x + wrap(y) + Half = (x + y + Half) + m * (-q)
    BY <1>1, <1>2, <1>3
  <1>5. (x + y + Half) \in 0..(m - 1)
    BY <1>1, WordInt
  <1> HIDE DEF m
  <1>6. ASSUME NEW a \in 0..(m - 1), NEW p \in Int PROVE (a + m * p) % m = a
    <2>1. a + m * p \in Int /\ a \in Int BY <1>1
    <2> QED BY <1>1, <1>6, <2>1
  <1>7. (x + wrap(y) + Half) % m = x + y + Half
    BY <1>2, <1>4, <1>5, <1>6
  <1> QED
    BY <1>1, <1>7 DEF wrap, m

-----------------------------------------------------------------------------
(* Loops. *)

LEMMA LoopParts ==
  ASSUME NEW l \in Loops
  PROVE  /\ l.cjump \in Cjump /\ l.cjump.op \in RelOp
         /\ l.cjump.boundLeft \in BOOLEAN /\ l.cjump.leaveIf \in BOOLEAN
         /\ l.begin \in Word /\ l.end \in Word /\ l.step \in Word
         /\ l.begin \in Int /\ l.end \in Int /\ l.step \in Int /\ l.isConst \in BOOLEAN
         /\ \A k \in Int : after(l, k) \in Int
  <1>1. l \in Loop
    BY LoopsAssumption
  <1>2. /\ l.cjump \in Cjump /\ l.begin \in Word /\ l.end \in Word /\ l.step \in Word
        /\ l.isConst \in BOOLEAN
    BY <1>1 DEF Loop
  <1>3. /\ l.cjump.op \in RelOp /\ l.cjump.boundLeft \in BOOLEAN /\ l.cjump.leaveIf \in BOOLEAN
    BY <1>2 DEF Cjump
  <1>4. l.begin \in Int /\ l.end \in Int /\ l.step \in Int
    BY <1>2, WordInt
  <1>5. \A k \in Int : after(l, k) \in Int
    BY <1>4, Steps DEF after
  <1> QED
    BY <1>2, <1>3, <1>4, <1>5

(* The number of runs is the first after which the jump leaves. *)
LEMMA FirstLeaving ==
  ASSUME NEW l \in Loops, IsProper(l)
  PROVE  LET T == Trips(l)
         IN  /\ T \in Nat /\ T >= 1 /\ LeavesAfter(l, T) /\ after(l, T) \in Word
             /\ \A j \in 1..(T - 1) : ~ LeavesAfter(l, j)
             /\ \A k \in Nat : 1 <= k /\ k <= T /\ LeavesAfter(l, k) => k = T
  <1>1. Trips(l) \in 1..(2 * Half) /\ Runs(l, Trips(l))
    BY DEF Trips, IsProper
  <1>2. Trips(l) \in Nat /\ Trips(l) >= 1
    BY <1>1, LoopsAssumption
  <1>3. \A j \in 1..(Trips(l) - 1) : ~ LeavesAfter(l, j)
    BY <1>1 DEF Runs
  <1>4. \A k \in Nat : 1 <= k /\ k <= Trips(l) /\ LeavesAfter(l, k) => k = Trips(l)
    BY <1>2, <1>3
  <1> QED
    BY <1>1, <1>2, <1>3, <1>4 DEF Runs, after

(* Two comparisons of ints are the same or opposite. *)
LEMMA Negation ==
  ASSUME NEW op \in RelOp, NEW a \in Int, NEW b \in Int
  PROVE  /\ notRel(op) \in RelOp
         /\ holds(notRel(op), a, b) = ~ holds(op, a, b)
         /\ op \in {"eq", "ne"} <=> notRel(op) \in {"eq", "ne"}
         /\ holds(op, a, b) \in BOOLEAN
  <1>1. op \in {"eq", "ne", "lt", "gt", "le", "ge"}
    BY DEF RelOp
  <1>2. CASE op = "eq" BY <1>2 DEF notRel, notRelTable, holds, RelOp
  <1>3. CASE op = "ne" BY <1>3 DEF notRel, notRelTable, holds, RelOp
  <1>4. CASE op = "lt" BY <1>4 DEF notRel, notRelTable, holds, RelOp
  <1>5. CASE op = "gt" BY <1>5 DEF notRel, notRelTable, holds, RelOp
  <1>6. CASE op = "le" BY <1>6 DEF notRel, notRelTable, holds, RelOp
  <1>7. CASE op = "ge" BY <1>7 DEF notRel, notRelTable, holds, RelOp
  <1> QED
    BY <1>1, <1>2, <1>3, <1>4, <1>5, <1>6, <1>7

(* What analyse makes of a jump whose bound is on the right. *)
LEMMA Rewritten ==
  ASSUME NEW c \in Cjump, ~ c.boundLeft
  PROVE  LET d == leaveIfTrue(variableLeft(c))
         IN  /\ d \in Cjump /\ ~ d.boundLeft /\ d.leaveIf
             /\ d.op \in {"eq", "ne"} <=> c.op \in {"eq", "ne"}
             /\ \A x, b \in Int : /\ Leaves(d, x, b) = Leaves(c, x, b)
                                  /\ Leaves(d, x, b) = holds(d.op, x, b)
  <1> DEFINE d == leaveIfTrue(variableLeft(c))
  <1>1. /\ c \in [op : RelOp, boundLeft : BOOLEAN, leaveIf : BOOLEAN] /\ variableLeft(c) = c
        /\ c.op \in RelOp /\ c.leaveIf \in BOOLEAN /\ c.boundLeft \in BOOLEAN
    BY DEF Cjump, variableLeft
  <1>2. CASE c.leaveIf
    <2>1. d = c /\ c.leaveIf = TRUE /\ c.boundLeft = FALSE
      BY <1>1, <1>2 DEF leaveIfTrue
    <2>2. \A x, b \in Int : holds(c.op, x, b) \in BOOLEAN
      BY <1>1, Negation
    <2>3. \A x, b \in Int : Leaves(c, x, b) = holds(c.op, x, b)
      BY <2>1, <2>2 DEF Leaves
    <2> HIDE DEF d
    <2> QED
      BY <2>1, <2>3 DEF d
  <1>3. CASE ~ c.leaveIf
    <2> DEFINE n == notRel(c.op)
    <2>1. d = [c EXCEPT !.op = n, !.leaveIf = TRUE] /\ c.leaveIf = FALSE /\ c.boundLeft = FALSE
      BY <1>1, <1>3 DEF leaveIfTrue
    <2>2. /\ n \in RelOp
          /\ c.op \in {"eq", "ne"} <=> n \in {"eq", "ne"}
          /\ \A x, b \in Int : holds(n, x, b) = ~ holds(c.op, x, b)
          /\ \A x, b \in Int : holds(c.op, x, b) \in BOOLEAN
      <3>1. 0 \in Int OBVIOUS
      <3> QED BY <1>1, <3>1, Negation
    <2> HIDE DEF n, d
    <2>3. d.op = n /\ d.leaveIf = TRUE /\ d.boundLeft = FALSE
      BY <1>1, <2>1
    <2>4. d \in Cjump
      BY <1>1, <2>1, <2>2 DEF Cjump
    <2>5. \A x, b \in Int : Leaves(d, x, b) = (holds(n, x, b) = TRUE)
      BY <2>3 DEF Leaves
    <2>6. \A x, b \in Int : Leaves(c, x, b) = (holds(c.op, x, b) = FALSE)
      BY <2>1 DEF Leaves
    <2>7. \A x, b \in Int : Leaves(d, x, b) = holds(n, x, b) /\ Leaves(c, x, b) = holds(n, x, b)
      <3> SUFFICES ASSUME NEW x \in Int, NEW b \in Int
                   PROVE  Leaves(d, x, b) = holds(n, x, b) /\ Leaves(c, x, b) = holds(n, x, b)
        OBVIOUS
      <3>1. holds(n, x, b) \in BOOLEAN /\ holds(c.op, x, b) \in BOOLEAN
        BY <1>1, <2>2, Negation
      <3>2. holds(n, x, b) = ~ holds(c.op, x, b)
        BY <2>2
      <3>3. Leaves(d, x, b) = (holds(n, x, b) = TRUE) /\ Leaves(c, x, b) = (holds(c.op, x, b) = FALSE)
        BY <2>5, <2>6
      <3>4. CASE holds(c.op, x, b)
        BY <3>1, <3>2, <3>3, <3>4
      <3>5. CASE ~ holds(c.op, x, b)
        BY <3>1, <3>2, <3>3, <3>5
      <3> QED BY <3>4, <3>5
    <2> QED
      BY <2>2, <2>3, <2>4, <2>7 DEF d
  <1> QED
    BY <1>2, <1>3

(* The jump analyse leaves behind. *)
exit(l) == leaveIfTrue(variableLeft(l.cjump))

Inequalities == {"ge", "gt", "le", "lt"}

LEMMA Exit ==
  ASSUME NEW l \in Loops, ~ l.cjump.boundLeft
  PROVE  /\ exit(l) \in Cjump /\ ~ exit(l).boundLeft /\ exit(l).leaveIf
         /\ l.cjump.op \notin {"eq", "ne"} <=> exit(l).op \in Inequalities
         /\ \A x \in Int : /\ Leaves(exit(l), x, l.end) = Leaves(l.cjump, x, l.end)
                           /\ Leaves(exit(l), x, l.end) = holds(exit(l).op, x, l.end)
         /\ \A k \in Int : LeavesAfter(l, k) <=> holds(exit(l).op, after(l, k), l.end)
  <1>1. l.cjump \in Cjump /\ l.end \in Int /\ \A k \in Int : after(l, k) \in Int
    BY LoopParts
  <1>2. /\ exit(l) \in Cjump /\ ~ exit(l).boundLeft /\ exit(l).leaveIf
        /\ exit(l).op \in {"eq", "ne"} <=> l.cjump.op \in {"eq", "ne"}
        /\ \A x \in Int : /\ Leaves(exit(l), x, l.end) = Leaves(l.cjump, x, l.end)
                          /\ Leaves(exit(l), x, l.end) = holds(exit(l).op, x, l.end)
    BY <1>1, Rewritten DEF exit
  <1>3. exit(l).op \in RelOp
    BY <1>2 DEF Cjump
  <1>4. l.cjump.op \notin {"eq", "ne"} <=> exit(l).op \in Inequalities
    BY <1>2, <1>3 DEF RelOp, Inequalities
  <1>5. ASSUME NEW k \in Int PROVE LeavesAfter(l, k) <=> holds(exit(l).op, after(l, k), l.end)
    BY <1>1, <1>2 DEF LeavesAfter, after
  <1> QED
    BY <1>2, <1>4, <1>5

LEMMA Start == ASSUME NEW l \in Loops PROVE after(l, 0) = l.begin
  BY LoopParts, NextStep DEF after

(* One run more, when the variable goes towards the bound, leaves a loop   *)
(* that was to be left before it; one run less, when it goes away.         *)
LEMMA Monotone ==
  ASSUME NEW l \in Loops, ~ l.cjump.boundLeft, exit(l).op \in Inequalities,
         NEW j \in Nat, NEW k \in Nat, j <= k
  PROVE  \/ LeavesAfter(l, j) => LeavesAfter(l, k)
         \/ \A i, m \in Nat : i <= m /\ LeavesAfter(l, m) => LeavesAfter(l, i)
  <1> DEFINE op == exit(l).op
  <1>1. l.begin \in Int /\ l.end \in Int /\ l.step \in Int
    BY LoopParts
  <1>2. \A i \in Nat : /\ LeavesAfter(l, i) <=> holds(op, after(l, i), l.end)
                       /\ after(l, i) = l.begin + i * l.step /\ i * l.step \in Int
    BY <1>1, Exit, Steps DEF after
  <1>3. \A i, m \in Nat : i <= m => /\ l.step >= 0 => i * l.step <= m * l.step
                                    /\ l.step <= 0 => i * l.step >= m * l.step
    BY <1>1, Steps
  <1>4. op \in {"ge", "gt", "le", "lt"}
    BY DEF Inequalities
  <1> HIDE DEF op
  <1>5. CASE op = "ge" BY <1>1, <1>2, <1>3, <1>5 DEF holds
  <1>6. CASE op = "gt" BY <1>1, <1>2, <1>3, <1>6 DEF holds
  <1>7. CASE op = "le" BY <1>1, <1>2, <1>3, <1>7 DEF holds
  <1>8. CASE op = "lt" BY <1>1, <1>2, <1>3, <1>8 DEF holds
  <1> QED
    BY <1>4, <1>5, <1>6, <1>7, <1>8

(* A loop whose condition was tested before its block, as the front end    *)
(* tests that of a while, does not turn back.                              *)
LEMMA TestedFirst ==
  ASSUME NEW l \in Loops, ~ l.cjump.boundLeft, exit(l).op \in Inequalities, ~ LeavesAfter(l, 0)
  PROVE  ~ TurnsBack(l)
  BY Monotone DEF TurnsBack

(* On the way the variable is an int. *)
LEMMA OnTheWay ==
  ASSUME NEW l \in Loops, IsProper(l), NEW k \in Nat, k <= Trips(l)
  PROVE  after(l, k) \in Word
  <1> DEFINE T == Trips(l)
  <1>1. T \in Nat /\ after(l, T) \in Word
    BY FirstLeaving
  <1>2. l.begin \in Word /\ l.begin \in Int /\ l.step \in Int
    BY LoopParts
  <1>3. /\ k * l.step \in Int /\ T * l.step \in Int
        /\ l.step >= 0 => 0 <= k * l.step /\ k * l.step <= T * l.step
        /\ l.step <= 0 => 0 >= k * l.step /\ k * l.step >= T * l.step
    <2>1. 0 * l.step = 0
      BY <1>2, NextStep
    <2> QED
      BY <1>1, <1>2, <2>1, Steps
  <1>4. after(l, T) = l.begin + T * l.step /\ after(l, k) = l.begin + k * l.step
    BY DEF after
  <1> HIDE DEF T
  <1>5. -Half <= after(l, k) /\ after(l, k) < Half /\ after(l, k) \in Int
    BY <1>1, <1>2, <1>3, <1>4, WordInt
  <1> QED
    BY <1>5, WordMember

-----------------------------------------------------------------------------
(* Counting. *)

count(d, s, strict) ==
  LET q == div(d, s)
      reached == wrap(q * s)
  IN  IF reached < d \/ (strict /\ reached = d) THEN q + 1 ELSE q

(* The least number of steps that bring the variable to the bound, or past it. *)
LEMMA Count ==
  ASSUME NEW d \in Nat, d \in Word, NEW s \in Nat \ {0}, NEW strict \in BOOLEAN
  PROVE  LET n == count(d, s, strict)
         IN  /\ n \in Nat
             /\ strict => n * s > d
             /\ ~ strict => n * s >= d
             /\ \A j \in Nat : j < n => (strict => j * s <= d) /\ (~ strict => j * s < d)
  <1> DEFINE q == d \div s
             n == count(d, s, strict)
  <1>1. q \in Nat /\ q * s \in Nat /\ q * s <= d /\ d < q * s + s
    <2>1. q \in Nat /\ q * s <= d /\ d < q * s + s
      BY Quotient
    <2> HIDE DEF q
    <2>2. 0 * s <= q * s /\ q * s \in Int /\ 0 * s = 0
      BY <2>1, Steps, NextStep
    <2> QED BY <2>1, <2>2
  <1>2. div(d, s) = q
    BY DEF div
  <1>3. wrap(q * s) = q * s
    <2>1. q * s \in Word
      BY <1>1, WordInt, WordMember
    <2> QED BY <2>1, WrapWord
  <1>4. n = IF q * s < d \/ (strict /\ q * s = d) THEN q + 1 ELSE q
    BY <1>2, <1>3 DEF count
  <1> HIDE DEF q, n
  <1>5. (q + 1) * s = q * s + s
    BY <1>1, NextStep
  <1>6. n \in Nat /\ n <= q + 1
    BY <1>1, <1>4
  <1>7. strict => n * s > d
    BY <1>1, <1>4, <1>5
  <1>8. ~ strict => n * s >= d
    BY <1>1, <1>4, <1>5
  <1>9. ASSUME NEW j \in Nat, j < n PROVE (strict => j * s <= d) /\ (~ strict => j * s < d)
    <2>1. j <= q
      BY <1>1, <1>4, <1>9
    <2>2. j * s <= q * s /\ j * s \in Int /\ (j < q => j * s + s <= q * s)
      BY <1>1, <2>1, Steps
    <2>3. CASE j = q
      BY <1>1, <1>4, <1>9, <2>3
    <2>4. CASE j # q
      BY <1>1, <2>1, <2>2, <2>4
    <2> QED BY <2>3, <2>4
  <1> QED
    BY <1>6, <1>7, <1>8, <1>9 DEF n

(* The count of analyse is the number of runs. *)
LEMMA TimesRight ==
  ASSUME NEW l \in Loops, Ordinary(l), l.isConst, exit(l).op \in Inequalities,
         towardsBound(exit(l).op, l)
  PROVE  times(exit(l).op, l) = Trips(l)
  <1> DEFINE op == exit(l).op
             T == Trips(l)
             up == op \in {"ge", "gt"}
             strict == op \in {"gt", "lt"}
             d == IF up THEN l.end - l.begin ELSE l.begin - l.end
             s == IF up THEN l.step ELSE -l.step
             n == count(d, s, strict)
  <1>1. IsProper(l) /\ ~ l.cjump.boundLeft /\ l.end - l.begin \in Word /\ l.begin - l.end \in Word
    BY DEF Ordinary
  <1>2. l.begin \in Int /\ l.end \in Int /\ l.step \in Int
    BY LoopParts
  <1>3. op \in {"ge", "gt", "le", "lt"}
    BY DEF Inequalities
  <1>4. d \in Nat /\ d \in Word /\ s \in Nat \ {0}
    <2>1. CASE op = "ge" BY <1>1, <1>2, <2>1 DEF towardsBound
    <2>2. CASE op = "gt" BY <1>1, <1>2, <2>2 DEF towardsBound
    <2>3. CASE op = "le" BY <1>1, <1>2, <2>3 DEF towardsBound
    <2>4. CASE op = "lt" BY <1>1, <1>2, <2>4 DEF towardsBound
    <2> QED BY <1>3, <2>1, <2>2, <2>3, <2>4
  <1>5. times(op, l) = n
    <2>1. wrap(d) = d
      BY <1>4, WrapWord
    <2> QED
      BY <2>1 DEF times, count
  <1>6. /\ n \in Nat
        /\ strict => n * s > d
        /\ ~ strict => n * s >= d
        /\ \A j \in Nat : j < n => (strict => j * s <= d) /\ (~ strict => j * s < d)
    <2>1. strict \in BOOLEAN
      OBVIOUS
    <2> HIDE DEF d, s, strict
    <2> QED
      BY <1>4, <2>1, Count
  <1>7. ASSUME NEW k \in Nat
        PROVE  LeavesAfter(l, k) <=> IF strict THEN k * s > d ELSE k * s >= d
    <2>1. LeavesAfter(l, k) <=> holds(op, after(l, k), l.end)
      BY <1>1, Exit
    <2>2. after(l, k) = l.begin + k * l.step /\ k * l.step \in Int /\ k * (-l.step) = -(k * l.step)
      BY <1>2, Steps, NextStep DEF after
    <2>3. CASE op = "ge" BY <1>2, <2>1, <2>2, <2>3 DEF holds
    <2>4. CASE op = "gt" BY <1>2, <2>1, <2>2, <2>4 DEF holds
    <2>5. CASE op = "le" BY <1>2, <2>1, <2>2, <2>5 DEF holds
    <2>6. CASE op = "lt" BY <1>2, <2>1, <2>2, <2>6 DEF holds
    <2> QED BY <1>3, <2>3, <2>4, <2>5, <2>6
  <1>8. LeavesAfter(l, n)
    BY <1>6, <1>7
  <1>9. ASSUME NEW j \in Nat, j < n PROVE ~ LeavesAfter(l, j)
    <2>1. j * s \in Int /\ d \in Int
      <3>1. s \in Int /\ j \in Int /\ d \in Int BY <1>4
      <3> HIDE DEF s, d
      <3> QED BY <3>1, Steps
    <2> HIDE DEF s, d, strict, n
    <2> QED BY <1>6, <1>7, <1>9, <2>1
  <1>10. T \in Nat /\ T >= 1 /\ LeavesAfter(l, T) /\ \A j \in 1..(T - 1) : ~ LeavesAfter(l, j)
    BY <1>1, FirstLeaving
  <1>11. n >= 1
    <2>1. 0 * s = 0 /\ d \in Nat /\ (~ strict => d > 0)
      <3>1. s \in Int
        BY <1>4
      <3>2. 0 * s = 0
        BY <3>1, NextStep
      <3>3. ~ strict => d > 0
        <4>1. CASE op = "ge" BY <1>2, <4>1 DEF towardsBound
        <4>2. CASE op = "le" BY <1>2, <4>2 DEF towardsBound
        <4> QED BY <1>3, <4>1, <4>2
      <3> QED
        BY <1>4, <3>2, <3>3
    <2> HIDE DEF s, d, strict, n
    <2> SUFFICES ASSUME n = 0 PROVE FALSE
      BY <1>6
    <2> QED
      BY <1>6, <2>1
  <1> HIDE DEF T, n
  <1>12. ~ (T < n)
    BY <1>9, <1>10
  <1>13. ~ (n < T)
    BY <1>6, <1>8, <1>10, <1>11
  <1> QED
    BY <1>5, <1>6, <1>10, <1>12, <1>13 DEF T

-----------------------------------------------------------------------------
(* The invariant.  Where the block is still to be run the loop has not run *)
(* it often enough; in front of four copies there is room for four.        *)
IInv ==
  /\ loop \in Loops
  /\ trips \in Nat /\ v = after(loop, trips) /\ trips <= Trips(loop)
  /\ pc \in {"analyse", "copies", "block1", "block2", "head", "done"}
  /\ pc = "analyse" => cjump = loop.cjump /\ trips = 0
  /\ pc # "analyse" => cjump \in {loop.cjump, exit(loop)}
  /\ pc \in {"head", "block1", "block2"} => trips < Trips(loop)
  /\ pc \in {"block1", "block2"} =>
       byFour(loop) /\ cjump = exit(loop) /\ cjump.op \in Inequalities
  /\ pc = "block2" => ~ holds(cjump.op, v, fourBefore)
  /\ pc = "copies" => trips = 0 /\ info.kind = "const"
  /\ info.kind = "const" => info.times = Trips(loop)
  /\ pc = "done" => trips = Trips(loop)

LEMMA InitIInv ==
  ASSUME \A l \in Loops : Ordinary(l)
  PROVE  Init => IInv
  <1> SUFFICES ASSUME Init PROVE IInv
    OBVIOUS
  <1>1. loop \in Loops /\ IsProper(loop) /\ v = loop.begin /\ trips = 0 /\ pc = "analyse"
        /\ cjump = loop.cjump /\ info.kind = "unknown"
    BY DEF Init, Ordinary
  <1>2. Trips(loop) \in Nat /\ Trips(loop) >= 1
    BY <1>1, FirstLeaving
  <1>3. v = after(loop, 0)
    BY <1>1, Start
  <1> QED
    BY <1>1, <1>2, <1>3 DEF IInv

(* The jump as it is leaves when the one of the loop does. *)
LEMMA SameJump ==
  ASSUME IInv, Ordinary(loop), pc # "analyse"
  PROVE  \A x \in Int : Leaves(cjump, x, loop.end) = Leaves(loop.cjump, x, loop.end)
  <1>1. loop \in Loops /\ ~ loop.cjump.boundLeft /\ cjump \in {loop.cjump, exit(loop)}
    BY DEF IInv, Ordinary
  <1> QED
    BY <1>1, Exit

(* The runs that are made are runs of the loop. *)
LEMMA RunStep ==
  ASSUME IInv, Ordinary(loop), NEW n \in Nat, run(n), trips + n <= Trips(loop)
  PROVE  /\ trips' = trips + n /\ trips' \in Nat /\ v' = after(loop, trips') /\ v' \in Int
         /\ UNCHANGED <<loop, cjump, info>>
  <1>1. /\ loop \in Loops /\ IsProper(loop) /\ trips \in Nat /\ v = after(loop, trips)
        /\ trips' = trips + n /\ v' = wrap(v + n * loop.step) /\ UNCHANGED <<loop, cjump, info>>
    BY DEF IInv, run, Ordinary
  <1>2. loop.step \in Int /\ loop.begin \in Int
    BY <1>1, LoopParts
  <1>3. v + n * loop.step = after(loop, trips + n)
    <2>1. trips * loop.step \in Int /\ n * loop.step \in Int
          /\ (trips + n) * loop.step = trips * loop.step + n * loop.step
      BY <1>1, <1>2
    <2> QED BY <1>1, <1>2, <2>1 DEF after
  <1>4. after(loop, trips + n) \in Word
    BY <1>1, OnTheWay
  <1> QED
    BY <1>1, <1>3, <1>4, WrapWord, WordInt

(* Four steps before the bound there is room for four runs and one more:   *)
(* had the loop been left by then, it would be past the bound after the    *)
(* four runs too, because it goes towards the bound or does not turn back. *)
LEMMA Room ==
  ASSUME NEW l \in Loops, Ordinary(l), byFour(l), exit(l).op \in Inequalities,
         NEW k \in Nat, k < Trips(l),
         ~ holds(exit(l).op, after(l, k), l.end - 4 * l.step)
  PROVE  k + 4 < Trips(l)
  <1> DEFINE T == Trips(l)
             op == exit(l).op
  <1>1. IsProper(l) /\ ~ l.cjump.boundLeft /\ ~ TurnsBack(l)
    BY DEF Ordinary
  <1>2. l.begin \in Int /\ l.end \in Int /\ l.step \in Int
    BY LoopParts
  <1>3. T \in Nat /\ T >= 1 /\ LeavesAfter(l, T) /\ \A j \in 1..(T - 1) : ~ LeavesAfter(l, j)
    BY <1>1, FirstLeaving
  <1>4. ~ LeavesAfter(l, k + 4)
    <2>1. LeavesAfter(l, k + 4) <=> holds(op, after(l, k + 4), l.end)
      BY <1>1, Exit
    <2>2. /\ (k + 4) * l.step = k * l.step + 4 * l.step /\ k * l.step \in Int
          /\ after(l, k + 4) = l.begin + (k + 4) * l.step /\ after(l, k) = l.begin + k * l.step
      BY <1>2, NextStep, Steps DEF after
    <2>3. op \in {"ge", "gt", "le", "lt"}
      BY DEF Inequalities
    <2>4. CASE op = "ge" BY <1>2, <2>1, <2>2, <2>4 DEF holds
    <2>5. CASE op = "gt" BY <1>2, <2>1, <2>2, <2>5 DEF holds
    <2>6. CASE op = "le" BY <1>2, <2>1, <2>2, <2>6 DEF holds
    <2>7. CASE op = "lt" BY <1>2, <2>1, <2>2, <2>7 DEF holds
    <2> QED
      BY <2>3, <2>4, <2>5, <2>6, <2>7
  <1> SUFFICES ASSUME T <= k + 4 PROVE FALSE
    BY <1>3
  <1>5. k + 4 \in Nat
    OBVIOUS
  <1> HIDE DEF T
  <1>6. \A i, m \in Nat : i <= m /\ LeavesAfter(l, m) => LeavesAfter(l, i)
    BY <1>1, <1>3, <1>4, <1>5, Monotone
  <1>7. CASE T = 1
    <2>1. k = 0
      BY <1>7 DEF T
    <2> QED
      BY <1>1, <1>3, <1>4, <1>7, <2>1 DEF TurnsBack
  <1>8. CASE T # 1
    <2>1. T - 1 \in Nat /\ T - 1 \in 1..(T - 1) /\ T - 1 <= T
      BY <1>3, <1>8
    <2> QED
      BY <1>3, <1>6, <2>1
  <1> QED
    BY <1>7, <1>8

LEMMA FourBefore ==
  ASSUME loop \in Loops, Ordinary(loop), byFour(loop)
  PROVE  fourBefore = loop.end - 4 * loop.step
  <1>1. loop.end \in Int /\ loop.step \in Int
    BY LoopParts
  <1>2. loop.end + (-4 * loop.step) = loop.end - 4 * loop.step /\ (-4 * loop.step) \in Int
    BY <1>1
  <1>3. loop.end + (-4 * loop.step) \in Word
    BY <1>2 DEF Ordinary
  <1> QED
    BY <1>1, <1>2, <1>3, WrapSum DEF fourBefore

LEMMA NextIInv ==
  ASSUME \A l \in Loops : Ordinary(l)
  PROVE  IInv /\ [Next]_vars => IInv'
  <1> SUFFICES ASSUME IInv, [Next]_vars PROVE IInv'
    OBVIOUS
  <1> DEFINE T == Trips(loop)
  <1>1. /\ loop \in Loops /\ Ordinary(loop) /\ IsProper(loop) /\ ~ loop.cjump.boundLeft
        /\ trips \in Nat /\ v = after(loop, trips) /\ trips <= T
    BY DEF IInv, Ordinary
  <1>2. T \in Nat /\ T >= 1 /\ \A k \in Nat : 1 <= k /\ k <= T /\ LeavesAfter(loop, k) => k = T
    BY <1>1, FirstLeaving
  <1>3. v \in Int /\ after(loop, trips) = loop.begin + trips * loop.step
    BY <1>1, LoopParts DEF after
  <1>4. CASE analyse
    <2>1. /\ pc = "analyse" /\ cjump = loop.cjump /\ trips = 0
          /\ UNCHANGED <<loop, v, trips>>
      BY <1>4 DEF analyse, IInv
    <2>2. cjump' \in {loop.cjump, exit(loop)}
      BY <1>4, <2>1 DEF analyse, exit
    <2>3. CASE info'.kind = "no"
      <3>1. pc' = "head"
        BY <1>4, <2>3 DEF analyse
      <3> QED
        BY <1>1, <1>2, <2>1, <2>2, <2>3, <3>1 DEF IInv
    <2>4. CASE info'.kind = "var"
      <3>1. pc' = "block1" /\ byFour(loop) /\ cjump' = exit(loop)
        BY <1>4, <2>1, <2>4 DEF analyse, exit, byFour
      <3>2. cjump'.op \in Inequalities
        BY <1>1, <3>1, Exit DEF byFour
      <3> QED
        BY <1>1, <1>2, <2>1, <2>2, <2>4, <3>1, <3>2 DEF IInv
    <2>5. CASE info'.kind = "const"
      <3>1. pc' = "copies" /\ loop.isConst /\ loop.cjump.op \notin {"eq", "ne"}
            /\ info'.times = times(exit(loop).op, loop) /\ towardsBound(exit(loop).op, loop)
        BY <1>4, <2>1, <2>5 DEF analyse, exit
      <3>2. info'.times = T
        BY <1>1, <3>1, Exit, TimesRight
      <3> QED
        BY <1>1, <1>2, <2>1, <2>2, <2>5, <3>1, <3>2 DEF IInv
    <2> QED
      BY <1>4, <2>3, <2>4, <2>5 DEF analyse
  <1>5. CASE copies
    <2>1. pc = "copies" /\ pc' = "done" /\ trips = 0 /\ info.times = T
      BY <1>5 DEF copies, IInv
    <2>2. run(T)
      BY <1>2, <1>5, <2>1 DEF copies
    <2>3. trips' = T /\ v' = after(loop, trips') /\ UNCHANGED <<loop, cjump, info>>
      BY <1>1, <1>2, <2>1, <2>2, RunStep
    <2> QED
      BY <1>1, <1>2, <2>1, <2>3 DEF IInv
  <1>6. CASE block1
    <2>1. /\ pc = "block1" /\ UNCHANGED <<loop, cjump, info, v, trips>>
          /\ pc' = IF holds(cjump.op, v, fourBefore) THEN "head" ELSE "block2"
          /\ fourBefore' = fourBefore
      BY <1>6 DEF block1, fourBefore
    <2>2. trips < T /\ byFour(loop) /\ cjump = exit(loop) /\ cjump.op \in Inequalities
      BY <2>1 DEF IInv
    <2> QED
      BY <1>1, <2>1, <2>2 DEF IInv
  <1>7. CASE block2
    <2>1. /\ pc = "block2" /\ run(4)
          /\ pc' = IF holds(cjump.op, v', fourBefore) THEN "head" ELSE "block2"
      BY <1>7 DEF block2
    <2>2. /\ byFour(loop) /\ cjump = exit(loop) /\ cjump.op \in Inequalities /\ trips < T
          /\ ~ holds(cjump.op, v, fourBefore)
      BY <2>1 DEF IInv
    <2>3. trips + 4 < T
      BY <1>1, <2>2, FourBefore, Room
    <2>4. trips' = trips + 4 /\ trips' \in Nat /\ v' = after(loop, trips') /\ UNCHANGED <<loop, cjump, info>>
      <3>1. 4 \in Nat /\ trips + 4 <= T BY <1>1, <1>2, <2>3
      <3> QED BY <1>1, <2>1, <3>1, RunStep
    <2>5. fourBefore' = fourBefore
      BY <2>4 DEF fourBefore
    <2>6. info.kind = "const" => info.times = T
      BY DEF IInv
    <2> QED
      BY <1>1, <1>2, <2>1, <2>2, <2>3, <2>4, <2>5, <2>6 DEF IInv
  <1>8. CASE head
    <2>1. pc = "head" /\ run(1) /\ trips < T
          /\ pc' = IF Leaves(cjump, v', loop.end) THEN "done" ELSE "head"
      BY <1>8 DEF head, IInv
    <2>2. /\ trips' = trips + 1 /\ trips' \in Nat /\ v' = after(loop, trips') /\ v' \in Int
          /\ UNCHANGED <<loop, cjump, info>>
      <3>1. 1 \in Nat /\ trips + 1 <= T BY <1>1, <1>2, <2>1
      <3> QED BY <1>1, <2>1, <3>1, RunStep
    <2>3. Leaves(cjump, v', loop.end) = LeavesAfter(loop, trips')
      BY <1>1, <2>1, <2>2, SameJump DEF LeavesAfter, after
    <2>4. LeavesAfter(loop, T)
      BY <1>1, FirstLeaving
    <2>5. trips' <= T /\ (LeavesAfter(loop, trips') <=> trips' = T)
      BY <1>1, <1>2, <2>1, <2>2, <2>4
    <2>6. (info.kind = "const" => info.times = T) /\ cjump \in {loop.cjump, exit(loop)}
      BY <2>1 DEF IInv
    <2> HIDE DEF T
    <2>7. pc' \in {"head", "done"} /\ (pc' = "done" => trips' = T) /\ (pc' = "head" => trips' < T)
      BY <1>2, <2>1, <2>2, <2>3, <2>5
    <2>8. T' = T
      BY <2>2 DEF T
    <2> QED
      BY <1>1, <2>2, <2>5, <2>6, <2>7, <2>8 DEF IInv, T
  <1>9. CASE UNCHANGED vars
    BY <1>9 DEF vars, IInv, fourBefore
  <1> QED
    BY <1>4, <1>5, <1>6, <1>7, <1>8, <1>9 DEF Next

-----------------------------------------------------------------------------
(* loopUnroll keeps how often the block of the loop is run, and the value  *)
(* its variable is left with.                                              *)
THEOREM SameRuns ==
  ASSUME \A l \in Loops : Ordinary(l)
  PROVE  Spec => []SameTrips
  <1>1. IInv => SameTrips
    BY DEF IInv, SameTrips, after
  <1> QED
    BY <1>1, InitIInv, NextIInv, PTL DEF Spec

(* analyse leaves a jump that leaves the loop when the one it found did.   *)
THEOREM JumpKept ==
  ASSUME \A l \in Loops : Ordinary(l)
  PROVE  Spec => []UntilTempRelEnd
  <1>1. ASSUME IInv PROVE UntilTempRelEnd
    <2>1. loop \in Loops /\ Ordinary(loop) /\ (pc = "analyse" => cjump = loop.cjump)
      BY <1>1 DEF IInv
    <2>2. \A x \in Word : x \in Int
      BY WordInt
    <2> QED
      BY <1>1, <2>1, <2>2, SameJump DEF UntilTempRelEnd
  <1> QED
    BY <1>1, InitIInv, NextIInv, PTL DEF Spec

(* The count of analyse is the number of runs.                             *)
THEOREM CountRight ==
  ASSUME \A l \in Loops : Ordinary(l)
  PROVE  Spec => []TimesUntilEnd
  <1>1. IInv => TimesUntilEnd
    BY DEF IInv, TimesUntilEnd
  <1> QED
    BY <1>1, InitIInv, NextIInv, PTL DEF Spec
=============================================================================
