----------------------------- MODULE LoopUnroll -----------------------------
(***************************************************************************)
(* Unrolling of a loop of one block (src/src/ssa/Loop.cpp).  Such a loop   *)
(* is a do-while: the block runs, which adds step to the induction         *)
(* variable, and a conditional jump at its end compares the variable with  *)
(* a bound.  The front end tests the condition of a while before the block *)
(* too, but a break at the end of while (1) is tested only here, and       *)
(* nothing in Loop.cpp tells the two apart.  analyse() rewrites the jump   *)
(* to "leave if variable rel bound" and, if both start and bound are       *)
(* constants, counts how often the block runs; loopUnroll() then copies    *)
(* the block that many times, or four times in a block in front of the     *)
(* loop.  The program that results is run here; what counts is how often   *)
(* the block is run.                                                       *)
(***************************************************************************)
EXTENDS Integers

CONSTANTS
  Half,     \* 2^31: an int is at least -Half and less than Half
  Loops,    \* the loops to unroll
  MaxStep,  \* no loop with a larger step is unrolled (1e7)
  MaxCopies,\* nor one that would be copied more often than this (5000)
  MaxTrips  \* bound of the model: no more runs than this are followed

Word == (-Half)..(Half - 1)

(* The int that has the lowest bits of x. *)
wrap(x) == ((x + Half) % (2 * Half)) - Half

-----------------------------------------------------------------------------
(* The comparison operators of the intermediate code. *)

RelOp == {"eq", "ne", "lt", "gt", "le", "ge"}

holds(op, a, b) ==
  CASE op = "eq" -> a = b
    [] op = "ne" -> a # b
    [] op = "lt" -> a < b
    [] op = "gt" -> a > b
    [] op = "le" -> a <= b
    [] op = "ge" -> a >= b

notRelTable == [eq |-> "ne", ne |-> "eq", lt |-> "ge", ge |-> "lt", gt |-> "le", le |-> "gt"]
notRel(op) == notRelTable[op]

(* A conditional jump of the induction variable and the bound: the bound   *)
(* may be on the left, and the loop may be left when the comparison holds  *)
(* or when it does not.                                                    *)
Cjump == [op : RelOp, boundLeft : BOOLEAN, leaveIf : BOOLEAN]

Leaves(c, v, bound) ==
  (IF c.boundLeft THEN holds(c.op, bound, v) ELSE holds(c.op, v, bound)) = c.leaveIf

(* A loop: the jump at its end, the values of start and bound and whether  *)
(* both are constants the compiler knows.                                  *)
Loop == [cjump : Cjump, begin : Word, end : Word, step : Word, isConst : BOOLEAN]

ASSUME LoopsAssumption ==
  Loops \subseteq Loop /\ Half \in Nat \ {0} /\ MaxCopies \in Nat /\ MaxTrips \in Nat

(* How often the loop l runs its block: until the first run after which    *)
(* the jump leaves.  The loops whose variable overflows before they end    *)
(* are left out: they have no meaning in the source language.              *)
LeavesAfter(l, k) == Leaves(l.cjump, l.begin + k * l.step, l.end)

Runs(l, k) ==
  /\ LeavesAfter(l, k)
  /\ \A j \in 1..(k - 1) : ~ LeavesAfter(l, j)
  /\ l.begin + k * l.step \in Word

IsProper(l) == \E k \in 1..(2 * Half) : Runs(l, k)

Trips(l) == CHOOSE k \in 1..(2 * Half) : Runs(l, k)

(* The loop is left after one run, but only because the variable started   *)
(* past the bound, and it goes back: after four runs it is past the bound  *)
(* no more.  A loop tested before its block never does that.               *)
TurnsBack(l) == LeavesAfter(l, 1) /\ ~ LeavesAfter(l, 4)

(* The loops that get a block of four copies. *)
byFour(l) ==
  ~ l.isConst /\ l.cjump.op \notin {"eq", "ne"} /\ l.step \in (-MaxStep)..MaxStep

(* The loops unrolling is right about: the bound is on the right; the      *)
(* distance to a constant bound is an int, either way; and so is four      *)
(* steps before a bound that is not, and the loop does not turn back.      *)
Ordinary(l) ==
  /\ IsProper(l) /\ ~ l.cjump.boundLeft
  /\ l.isConst => l.end - l.begin \in Word /\ l.begin - l.end \in Word
  /\ byFour(l) => l.end - 4 * l.step \in Word /\ ~ TurnsBack(l)

-----------------------------------------------------------------------------
VARIABLES
  loop,   \* the loop as it was
  cjump,  \* its jump as it is
  info,   \* what analyse() found
  pc,     \* the block the program that results is at
  v,      \* the induction variable
  trips   \* how often the block was run

vars == <<loop, cjump, info, pc, v, trips>>

Kind == {"unknown", "no", "const", "var"}

Init ==
  /\ loop \in Loops
  /\ cjump = loop.cjump
  /\ info = [kind |-> "unknown", times |-> 0]
  /\ pc = "analyse"
  /\ v = loop.begin
  /\ trips = 0

(* The jump with the variable on the left. *)
variableLeft(c) ==
  IF c.boundLeft THEN [c EXCEPT !.op = notRel(@), !.boundLeft = FALSE] ELSE c

(* The jump that leaves when the comparison holds. *)
leaveIfTrue(c) ==
  IF c.leaveIf THEN c ELSE [c EXCEPT !.op = notRel(@), !.leaveIf = TRUE]

(* Towards the bound: rel is what leaves the loop, and the variable goes   *)
(* the way that makes it hold.                                             *)
towardsBound(rel, l) ==
  \/ rel = "ge" /\ l.begin < l.end /\ l.step > 0
  \/ rel = "gt" /\ l.begin <= l.end /\ l.step > 0
  \/ rel = "le" /\ l.begin > l.end /\ l.step < 0
  \/ rel = "lt" /\ l.begin >= l.end /\ l.step < 0

(* C++ division rounds towards zero; the divisor is positive here. *)
div(a, b) == IF a >= 0 THEN a \div b ELSE -((-a) \div b)

(* Mutant: the bound itself is not passed. *)
timesStrict(rel, l) ==
  LET up == rel \in {"ge", "gt"}
      distance == wrap(IF up THEN l.end - l.begin ELSE l.begin - l.end)
      stride == IF up THEN l.step ELSE -l.step
      q == div(distance, stride)
  IN  IF wrap(q * stride) < distance THEN q + 1 ELSE q

(* How many runs until variable rel bound. *)
times(rel, l) ==
  LET up == rel \in {"ge", "gt"}
      distance == wrap(IF up THEN l.end - l.begin ELSE l.begin - l.end)
      stride == IF up THEN l.step ELSE -l.step
      q == div(distance, stride)
      reached == wrap(q * stride)
  IN  IF reached < distance \/ (rel \in {"gt", "lt"} /\ reached = distance) THEN q + 1 ELSE q

tooLong(n) == n > MaxCopies

(* The jump is rewritten, whether or not the loop is unrolled then. *)
analyse ==
  LET c == leaveIfTrue(variableLeft(cjump))
      kind == IF cjump.op \in {"eq", "ne"} \/ loop.step \notin (-MaxStep)..MaxStep THEN "no"
              ELSE IF ~ loop.isConst THEN "var"
              ELSE IF towardsBound(c.op, loop) /\ ~ tooLong(times(c.op, loop)) THEN "const"
              ELSE "no"
  IN  /\ pc = "analyse"
      /\ cjump' = IF cjump.op \in {"eq", "ne"} THEN cjump ELSE c
      /\ info' = [kind |-> kind, times |-> IF kind = "const" THEN times(c.op, loop) ELSE 0]
      /\ pc' = CASE kind = "no" -> "head" [] kind = "const" -> "copies" [] kind = "var" -> "block1"
      /\ UNCHANGED <<loop, v, trips>>

(* The block, n times. *)
run(n) ==
  /\ trips + n <= MaxTrips
  /\ v' = wrap(v + n * loop.step)
  /\ trips' = trips + n
  /\ UNCHANGED <<loop, cjump, info>>

(* A constant number of copies (one at least) and then the way out. *)
copies ==
  /\ pc = "copies"
  /\ run(IF info.times > 1 THEN info.times ELSE 1)
  /\ pc' = "done"

(* The bound of the blocks in front of the loop. *)
fourBefore == wrap(loop.end + wrap(-4 * loop.step))

(* Four runs or more before the end: is there room for them? *)
block1 ==
  /\ pc = "block1"
  /\ pc' = IF holds(cjump.op, v, fourBefore) THEN "head" ELSE "block2"
  /\ UNCHANGED <<loop, cjump, info, v, trips>>

(* Mutant: the two labels of its jump are swapped. *)
block2Again ==
  /\ pc = "block2"
  /\ run(4)
  /\ pc' = IF holds(cjump.op, v', fourBefore) THEN "block2" ELSE "head"

block2 ==
  /\ pc = "block2"
  /\ run(4)
  /\ pc' = IF holds(cjump.op, v', fourBefore) THEN "head" ELSE "block2"

(* The loop itself. *)
head ==
  /\ pc = "head"
  /\ run(1)
  /\ pc' = IF Leaves(cjump, v', loop.end) THEN "done" ELSE "head"

Next == analyse \/ copies \/ block1 \/ block2 \/ head

Spec == Init /\ [][Next]_vars

(* A program that can go on goes on. *)
FairSpec == Spec /\ WF_vars(Next)

-----------------------------------------------------------------------------
(* Properties. *)

TypeOK ==
  /\ loop \in Loops
  /\ cjump \in Cjump
  /\ info \in [kind : Kind, times : (-Half)..MaxCopies]
  /\ pc \in {"analyse", "copies", "block1", "block2", "head", "done"}
  /\ v \in Word
  /\ trips \in 0..MaxTrips

(* The program that results leaves the loop after as many runs of the      *)
(* block as the loop did, with the same value in the variable.             *)
SameTrips == pc = "done" => trips = Trips(loop) /\ v = loop.begin + trips * loop.step

(* It does leave the loop. *)
Leaving == <>(pc = "done")

(* What the comment "loop until temp relop end" (Loop.cpp:156) says of the *)
(* jump analyse() leaves behind: it leaves the loop exactly when it did.   *)
UntilTempRelEnd ==
  \A x \in Word : Leaves(cjump, x, loop.end) = Leaves(loop.cjump, x, loop.end)

(* What it says of info.times: the loop is run that often until            *)
(* temp relop end.                                                         *)
TimesUntilEnd == info.kind = "const" => info.times = Trips(loop)
=============================================================================
