----------------------------- MODULE ConstProp -----------------------------
(***************************************************************************)
(* Sparse conditional constant propagation (CP::bfsMark and what it calls, *)
(* src/src/ssa/constantPropagation.cpp).  It runs the function in SSA form *)
(* over the values undefined, a constant, indefinite, at first only over   *)
(* the blocks the entry leads to, and goes back to a statement when what   *)
(* it uses has become less definite.  Then the function is run on numbers, *)
(* to see what the constants found are worth.                              *)
(***************************************************************************)
EXTENDS Integers, Sequences, FiniteSets, SequencesExt

CONSTANTS
  Temp,        \* the temporaries of a function
  Val,         \* the numbers 0..n-1, on which + wraps around
  Programs,    \* the functions
  Udf, Idf,    \* COND::undefined (no entry in the table), COND::indefinite
  Nothing      \* what a temporary holds before it is assigned

(* A function: block b has the predecessors pred[b], in the order of the   *)
(* arguments of its phi functions, the statements stms[b], phi functions   *)
(* first, and ends with jump[b].  A statement is                           *)
(*   [dst, op, args]      with op one of "phi", "copy", "plus", and        *)
(*                        "call", whose value is not known, and            *)
(* a jump is [op, left, right, true, false] with op one of "lt", "eq", or  *)
(*   "always", which goes to true, or "return".                            *)
(* An argument is a number or a temporary.                                 *)
Statements ==
  [dst : Temp, op : {"phi", "copy", "plus", "call"}, args : Seq(Temp \cup Val)]

(* Block 0 of the code. *)
root == 1

(* Where a jump may go. *)
leadsTo(j) ==
  IF j.op = "return" THEN {} ELSE IF j.op = "always" THEN {j.true} ELSE {j.true, j.false}

WellFormed(p) ==
  LET B == DOMAIN p.stms
  IN  /\ p.stms \in Seq(Seq(Statements)) /\ root \in B
      /\ p.jump \in [B -> [op : {"lt", "eq", "always", "return"}, left : Temp \cup Val,
                           right : Temp \cup Val, true : B, false : B]]
      /\ p.pred \in [B -> Seq(B)] /\ p.pred[root] = << >>
      /\ \A b, c \in B : c \in leadsTo(p.jump[b]) <=> b \in Range(p.pred[c])
      /\ \A b \in B : \A k \in DOMAIN p.stms[b] :
           LET stm == p.stms[b][k]
           IN  /\ stm.op = "phi" => b # root /\ Len(stm.args) = Len(p.pred[b])
               /\ stm.op = "copy" => Len(stm.args) = 1
               /\ stm.op = "plus" => Len(stm.args) = 2

ASSUME ValuesAssumption ==
  /\ IsFiniteSet(Val) /\ Val # {} /\ Val = 0..Cardinality(Val) - 1
  /\ Temp \cap Val = {}
  /\ Udf \notin Val /\ Idf \notin Val /\ Udf # Idf /\ Nothing \notin Val

ASSUME ProgramsAssumption == \A p \in Programs : WellFormed(p)

VARIABLES
  prog,
  table,  \* tempCondition, blockCondition, curBlock, curTemp, the blocks
          \* visited so far (stmlBlockmap, tempDef) and tempUse
  loop,   \* which of the two inner loops is running, "blocks" or "temps"
  phase,  \* "mark", "run" or "returned"
  block,  \* the block about to be run
  from,   \* the one run before it
  env     \* what the temporaries hold

vars == <<prog, table, loop, phase, block, from, env>>

Blocks == DOMAIN prog.stms

succ(b) == leadsTo(prog.jump[b])

(* A place <<b, k>> of the code is the k-th statement of b, or its jump.   *)
places(b) == 1..Len(prog.stms[b]) + 1

Places == UNION {{b} \X places(b) : b \in Blocks}

argsAt(b, k) ==
  IF k \in DOMAIN prog.stms[b] THEN Range(prog.stms[b][k].args)
  ELSE {prog.jump[b].left, prog.jump[b].right}

(* Elements of a set of keys in the order a std::set is read. *)
inOrder(S) ==
  [i \in 1..Cardinality(S) |-> CHOOSE m \in S : Cardinality({n \in S : n < m}) = i - 1]

evalRel(op, l, r) == IF op = "lt" THEN l < r ELSE l = r

plus(l, r) == (l + r) % Cardinality(Val)

-----------------------------------------------------------------------------
(* The table of values. *)

rank(v) == IF v = Udf THEN 0 ELSE IF v = Idf THEN 2 ELSE 1

valueOf(cond, x) == IF x \in Temp THEN cond[x] ELSE x

isConst(cond, x) == rank(valueOf(cond, x)) = 1

(* To ask whether an operand is indefinite makes one without an entry so.  *)
settle(cond, xs) ==
  IF \A t \in Temp \cap xs : cond[t] # Udf THEN cond
  ELSE [t \in Temp |-> IF t \in xs /\ cond[t] = Udf THEN Idf ELSE cond[t]]

(* Mutant: two different constants are not noticed. *)
phiValueFirst(s, b, args) ==
  LET known == {valueOf(s.cond, args[k]) :
                  k \in {j \in DOMAIN prog.pred[b] : prog.pred[b][j] \in s.reached}} \ {Udf}
  IN  IF Idf \in known THEN Idf
      ELSE IF known = {} THEN 0 ELSE CHOOSE v \in known : TRUE

(* A phi function of b: of the arguments that come from reached blocks,    *)
(* those without an entry are passed over; if none is left it is 0.        *)
phiValue(s, b, args) ==
  LET known == {valueOf(s.cond, args[k]) :
                  k \in {j \in DOMAIN prog.pred[b] : prog.pred[b][j] \in s.reached}} \ {Udf}
  IN  IF Idf \in known \/ Cardinality(known) > 1 THEN Idf
      ELSE IF known = {} THEN 0 ELSE CHOOSE v \in known : TRUE

(* The new value of a statement's destination.  The block of a statement   *)
(* is only known once it has been visited; until then it is taken to be    *)
(* block 0 (the default of stmlBlockmap).                                  *)
defValue(s, b, stm) ==
  CASE stm.op = "phi" -> phiValue(s, IF b \in s.visited THEN b ELSE root, stm.args)
    [] stm.op = "copy" -> valueOf(settle(s.cond, Range(stm.args)), stm.args[1])
    [] stm.op = "plus" -> IF \A x \in Range(stm.args) : isConst(s.cond, x)
                          THEN plus(valueOf(s.cond, stm.args[1]), valueOf(s.cond, stm.args[2]))
                          ELSE Idf
    [] stm.op = "call" -> Idf

(* Mutant: what became indefinite is computed again. *)
doDefAgain(s, b, stm) ==
  LET v == defValue(s, b, stm)
      asked == IF stm.op \in {"copy", "plus"} THEN Range(stm.args) ELSE {}
  IN  [s EXCEPT !.cond = [settle(@, asked) EXCEPT ![stm.dst] = v],
                !.curTemp = IF rank(v) > rank(s.cond[stm.dst]) THEN Append(@, stm.dst) ELSE @]

(* Mutant: a temporary that got less definite is not put into the queue.   *)
doDefSilent(s, b, stm) ==
  LET v == defValue(s, b, stm)
      asked == IF stm.op \in {"copy", "plus"} THEN Range(stm.args) ELSE {}
  IN  IF s.cond[stm.dst] = Idf THEN s
      ELSE [s EXCEPT !.cond = [settle(@, asked) EXCEPT ![stm.dst] = v]]

doDef(s, b, stm) ==
  LET v == defValue(s, b, stm)
      asked == IF stm.op \in {"copy", "plus"} THEN Range(stm.args) ELSE {}
  IN  IF s.cond[stm.dst] = Idf THEN s
      ELSE [s EXCEPT !.cond = [settle(@, asked) EXCEPT ![stm.dst] = v],
                     !.curTemp = IF rank(v) > rank(s.cond[stm.dst]) THEN Append(@, stm.dst) ELSE @]

(* Mutant: a block goes into the queue each time a jump leads to it. *)
reachAgain(s, S) ==
  [s EXCEPT !.reached = @ \cup S, !.curBlock = @ \o inOrder(S)]

(* Blocks of S that were not reached before go into the queue. *)
reach(s, S) ==
  [s EXCEPT !.reached = @ \cup S, !.curBlock = @ \o inOrder(S \ s.reached)]

doJump(s, b) ==
  LET j == prog.jump[b]
      asked == IF valueOf(s.cond, j.left) \in {Udf, Idf} THEN {j.left} ELSE {j.right}
  IN  CASE j.op = "return" -> s
        [] j.op = "always" -> reach(s, {j.true})
        [] OTHER ->
             IF isConst(s.cond, j.left) /\ isConst(s.cond, j.right)
             THEN reach(s, {IF evalRel(j.op, valueOf(s.cond, j.left), valueOf(s.cond, j.right))
                            THEN j.true ELSE j.false})
             ELSE reach([s EXCEPT !.cond = settle(@, asked)], succ(b))

-----------------------------------------------------------------------------
Init ==
  /\ prog \in Programs
  /\ table = [cond |-> [t \in Temp |-> Udf], reached |-> {root},
              curBlock |-> <<root>>, curTemp |-> << >>, visited |-> {},
              tempUse |-> [t \in Temp |-> << >>]]
  /\ loop = "blocks"
  /\ phase = "mark"
  /\ block = root /\ from = root
  /\ env = [t \in Temp |-> Nothing]

phis(b) == {k \in DOMAIN prog.stms[b] : prog.stms[b][k].op = "phi"}

(* The phi functions of the reached successors of b, those of a block in   *)
(* any order (Aphi is an unordered_map).                                   *)
phiOrders(s, b) ==
  {q \in SetToSeqs(UNION {{n} \X phis(n) : n \in succ(b) \cap s.reached}) :
     \A i, j \in DOMAIN q : i < j => q[i][1] <= q[j][1]}

(* The places of b that use t. *)
usesIn(t, b) ==
  LET q == inOrder({k \in places(b) : t \in argsAt(b, k)})
  IN  [i \in DOMAIN q |-> <<b, q[i]>>]

visit(s, u) ==
  IF u[2] \in DOMAIN prog.stms[u[1]] THEN doDef(s, u[1], prog.stms[u[1]][u[2]])
  ELSE doJump(s, u[1])

(* The places of a sequence, one after the other. *)
visitAll(s, us) ==
  LET after[k \in 0..Len(us)] == IF k = 0 THEN s ELSE visit(after[k - 1], us[k])
  IN  after[Len(us)]

(* The first block of the queue is visited: its statements, its jump, and  *)
(* then the phi functions it feeds.                                        *)
visitBlock ==
  LET b == Head(table.curBlock)
      s0 == [table EXCEPT !.curBlock = Tail(@), !.visited = @ \cup {b},
                          !.tempUse = [t \in Temp |-> @[t] \o usesIn(t, b)]]
      s1 == visitAll(s0, [k \in places(b) |-> <<b, k>>])
  IN  /\ phase = "mark"
      /\ loop = "blocks" /\ table.curBlock # << >>
      /\ \E feed \in phiOrders(s1, b) : table' = visitAll(s1, feed)
      /\ UNCHANGED <<prog, loop, phase, block, from, env>>

(* With no block waiting, the uses of the first temporary of its queue are *)
(* visited; that loop goes on while there are any temporaries.             *)
visitTemp ==
  /\ phase = "mark"
  /\ table.curTemp # << >>
  /\ loop = "temps" \/ table.curBlock = << >>
  /\ table' = visitAll([table EXCEPT !.curTemp = Tail(@)], table.tempUse[Head(table.curTemp)])
  /\ loop' = IF table'.curTemp = << >> THEN "blocks" ELSE "temps"
  /\ UNCHANGED <<prog, phase, block, from, env>>

-----------------------------------------------------------------------------
marked ==
  /\ phase = "mark"
  /\ table.curBlock = << >> /\ table.curTemp = << >>
  /\ phase' = "run"
  /\ UNCHANGED <<prog, table, loop, block, from, env>>

(* A block is run: its phi functions at once, then its other statements.   *)
numberOf(e, x) == IF x \in Temp THEN e[x] ELSE x

runStm(e, stm, called) ==
  LET result ==
        CASE stm.op = "copy" -> numberOf(e, stm.args[1])
          [] stm.op = "plus" -> IF Nothing \in {numberOf(e, x) : x \in Range(stm.args)} THEN Nothing
                                ELSE plus(numberOf(e, stm.args[1]), numberOf(e, stm.args[2]))
          [] stm.op = "call" -> called
  IN  IF stm.op = "phi" THEN e ELSE [e EXCEPT ![stm.dst] = result]

(* What the temporaries hold after the phi functions of b, when b is       *)
(* entered from the predecessor in position pos.                           *)
atPhis(b, pos) ==
  LET of(t) == {k \in phis(b) : prog.stms[b][k].dst = t}
  IN  [t \in Temp |-> IF of(t) = {} THEN env[t]
                      ELSE numberOf(env, prog.stms[b][CHOOSE k \in of(t) : TRUE].args[pos])]

runBlock(b, e, called) ==
  LET after[k \in 0..Len(prog.stms[b])] ==
        IF k = 0 THEN e ELSE runStm(after[k - 1], prog.stms[b][k], called)
  IN  after[Len(prog.stms[b])]

run(called) ==
  LET pos == IF block = root THEN 0
             ELSE CHOOSE k \in DOMAIN prog.pred[block] : prog.pred[block][k] = from
      e == runBlock(block, atPhis(block, pos), called)
      j == prog.jump[block]
      l == numberOf(e, j.left)
      r == numberOf(e, j.right)
  IN  /\ phase = "run"
      /\ env' = e
      /\ from' = block
      /\ CASE j.op = "return" -> phase' = "returned" /\ block' = block
           [] j.op = "always" -> phase' = phase /\ block' = j.true
           [] OTHER -> /\ l # Nothing /\ r # Nothing
                       /\ phase' = phase
                       /\ block' = IF evalRel(j.op, l, r) THEN j.true ELSE j.false
      /\ UNCHANGED <<prog, table, loop>>

Next ==
  \/ visitBlock
  \/ visitTemp
  \/ marked
  \/ \E called \in Val : run(called)

Spec == Init /\ [][Next]_vars

-----------------------------------------------------------------------------
(* Functions that assign every temporary once, and before they use it.     *)

(* Block d is on every path from the entry to b: it is the only way into   *)
(* some region with b in it.                                               *)
Dominates(p, d, b) ==
  \E region \in SUBSET DOMAIN p.stms :
    /\ d \in region /\ b \in region
    /\ root \in region => d = root
    /\ \A c \in region \ {d} : Range(p.pred[c]) \subseteq region

(* A value x is a number, or a temporary assigned before the k-th          *)
(* statement of b is reached.                                              *)
AssignedBefore(p, x, b, k) ==
  x \in Temp =>
    \E d \in DOMAIN p.stms : \E l \in DOMAIN p.stms[d] :
      /\ p.stms[d][l].dst = x
      /\ IF d = b THEN l < k ELSE Dominates(p, d, b)

Strict(p) ==
  /\ \A b, c \in DOMAIN p.stms : \A k \in DOMAIN p.stms[b], l \in DOMAIN p.stms[c] :
       p.stms[b][k].dst = p.stms[c][l].dst => b = c /\ k = l
  /\ \A b \in DOMAIN p.stms :
       /\ \A k \in DOMAIN p.stms[b] :
            IF p.stms[b][k].op = "phi"
            THEN \A i \in DOMAIN p.pred[b] :
                   AssignedBefore(p, p.stms[b][k].args[i], p.pred[b][i], Len(p.stms[p.pred[b][i]]) + 1)
            ELSE \A x \in Range(p.stms[b][k].args) : AssignedBefore(p, x, b, k)
       /\ \A x \in {p.jump[b].left, p.jump[b].right} : AssignedBefore(p, x, b, Len(p.stms[b]) + 1)

-----------------------------------------------------------------------------
(* Properties. *)

Tables ==
  [cond : [Temp -> Val \cup {Udf, Idf}], reached : SUBSET Blocks, curBlock : Seq(Blocks),
   curTemp : Seq(Temp), visited : SUBSET Blocks, tempUse : [Temp -> Seq(Places)]]

TypeOK ==
  /\ table \in Tables
  /\ loop \in {"blocks", "temps"} /\ phase \in {"mark", "run", "returned"}
  /\ block \in Blocks /\ from \in Blocks
  /\ env \in [Temp -> Val \cup {Nothing}]

(* Whatever the calls return, only blocks that were marked reached are     *)
(* run, and a temporary found to be a constant never holds another number. *)
Sound ==
  phase # "mark" =>
    /\ block \in table.reached
    /\ \A t \in Temp : rank(table.cond[t]) = 1 => env[t] \in {table.cond[t], Nothing}

(* When both queues are empty every constant is what its statement makes   *)
(* of the values found for its operands: none is left that was computed    *)
(* from a guess that has been given up.                                    *)
Justified ==
  phase # "mark" =>
    \A b \in table.reached : \A k \in DOMAIN prog.stms[b] :
      LET stm == prog.stms[b][k]
      IN  rank(table.cond[stm.dst]) = 1 => defValue(table, b, stm) = table.cond[stm.dst]

(* A value only becomes less definite, and a block once reached stays so.  *)
OnlyFalls ==
  [][/\ \A t \in Temp : rank(table.cond[t]) <= rank(table'.cond[t])
     /\ table.reached \subseteq table'.reached]_vars

(* A step of the marking that neither reaches a block nor makes a          *)
(* temporary less definite leaves less in the queues: as the one can only  *)
(* happen so often, the marking comes to an end.                           *)
Dwindles ==
  [][phase = "mark" /\ phase' = "mark" =>
       \/ table'.cond # table.cond
       \/ table'.reached # table.reached
       \/ Len(table'.curBlock) + Len(table'.curTemp) < Len(table.curBlock) + Len(table.curTemp)]_vars
=============================================================================
