------------------------------- MODULE Inline -------------------------------
(***************************************************************************)
(* Function inlining (INTERP::FuncInline, src/src/ssa/FuncInline.cpp).     *)
(* Function by function, in the order of their definitions: a call of the  *)
(* function itself whose result is returned becomes a jump to its start,   *)
(* then calls of other functions are replaced by copies of their bodies    *)
(* (StmList::deepCopy, src/src/structure/treeIR.cpp).  At the end the      *)
(* global scalars that only main can touch become temporaries of main.     *)
(*                                                                         *)
(* A function is a sequence of quadruples.  An operand is a constant, a    *)
(* temporary or the name of a global (its address); a label is a triple    *)
(* whose number is 0 in the source program.                                *)
(***************************************************************************)
EXTENDS Integers, Sequences, FiniteSets

CONSTANTS
  Order,      \* the names of the functions in the order they are defined
  Programs,   \* the programs to begin with: [body, stksize] of each function
  Globals,    \* venv: the addresses of the scalars that are not constant
  Saved,      \* 64: the part of a frame that holds saved registers
  maxstk,     \* bound on a frame, 1e8
  Fuel        \* bound of the model: 2^Fuel statements are executed

InlineAssumption == Saved \in Nat /\ maxstk \in Nat /\ Fuel \in Nat

VARIABLES
  start,      \* the program as it was
  ir,         \* func_info[f].ir and stksize
  isrec,      \* func_info[f].isrec
  at,         \* place in Order of the function at work
  funcPos,    \* its calls that are still to be replaced
  phase,      \* "tail", "inline", "globals", "done"
  ntemp       \* every temporary and label number so far is below it

vars == <<start, ir, isrec, at, funcPos, phase, ntemp>>

None == -1
FP == 11

Funcs == {Order[i] : i \in DOMAIN Order}
const(n) == <<"c", n>>
temp(t) == <<"t", t>>
name(a) == <<"g", a>>

-----------------------------------------------------------------------------
(* What the pass asks of a statement (src/src/util/utils.hpp). *)

isCall(s) == s.op = "call"
getCallName(s) == s.to[1]
getCallParam(s) == s.args
isLdr(s) == s.op = "load"
isStr(s) == s.op = "store"

Begin(f) == <<"BEGIN", f, 0>>
Return(f) == <<"RETURN3124", f, 0>>

isJumpReturn(s) == s.op = "jump" /\ s.to[1][1] = "RETURN3124" /\ s.to[1][3] = 0

(* A call, the move of its result to r0, and the jump to the end. *)
isReturn(s1, s2, s3) ==
  /\ s2.op = "move" /\ s2.dst = 0 /\ s2.args[1] = temp(s1.dst)
  /\ s1.dst # None
  /\ isJumpReturn(s3)

beginAt(body, f) == CHOOSE i \in DOMAIN body : body[i].op = "label" /\ body[i].to[1] = Begin(f)

(* The temporaries that hold the parameters, in order: moves from an       *)
(* argument register ahead of the BEGIN label.                             *)
paramTemps(body, f) ==
  LET isParam(s) == s.op = "move" /\ s.args[1] \in {temp(r) : r \in 0..3}
      moves == SelectSeq(SubSeq(body, 1, beginAt(body, f) - 1), isParam)
  IN  [i \in DOMAIN moves |-> moves[i].dst]

Stm(op, dst, args, to) == [op |-> op, dst |-> dst, args |-> args, to |-> to, site |-> 0]
Move(d, a) == Stm("move", d, <<a>>, << >>)
Jump(l) == Stm("jump", None, << >>, <<l>>)
Label(l) == Stm("label", None, << >>, <<l>>)

-----------------------------------------------------------------------------
(* analyse *)

callsOf(body, f) == {i \in DOMAIN body : isCall(body[i]) /\ getCallName(body[i]) = f}

Recursive(body, f) == callsOf(body, f) # {}

(* The calls of other functions of the program, in order. *)
callpos(body, f) ==
  SelectSeq(body, LAMBDA s : isCall(s) /\ getCallName(s) \in Funcs \ {f})

callNum(prog, f, g) == Cardinality(callsOf(prog[f].body, g))

calledNum(prog, f) ==
  IF f = "main" THEN 1 ELSE Cardinality({g \in Funcs \ {f} : callNum(prog, g, f) > 0})

(* The globals a function touches itself. *)
touched(body) ==
  LET at1(P(_)) == {body[i].args[1] : i \in {j \in DOMAIN body : P(body[j])}}
  IN  {a[2] : a \in {b \in at1(isLdr) \cup at1(isStr) : b[1] = "g"}}

Gvar(prog, f) ==
  LET g[i \in 1..Len(Order)] ==
        touched(prog[Order[i]].body)
          \cup UNION {g[j] : j \in {k \in 1..(i - 1) : callNum(prog, Order[i], Order[k]) > 0}}
  IN  g[CHOOSE i \in 1..Len(Order) : Order[i] = f]

-----------------------------------------------------------------------------
(* A call of the function itself whose result is returned. *)

isvalrtn(body, i, f) ==
  /\ isCall(body[i]) /\ getCallName(body[i]) = f
  /\ i + 2 <= Len(body)
  /\ isReturn(body[i], body[i + 1], body[i + 2])

isvoidrtn(body, i, f) ==
  /\ isCall(body[i]) /\ getCallName(body[i]) = f
  /\ i + 1 <= Len(body)
  /\ isJumpReturn(body[i + 1])

(* The parameters assigned one after the other, and the jump. *)
again(body, s, f) ==
  LET p == paramTemps(body, f)
  IN  [i \in DOMAIN p |-> Move(p[i], getCallParam(s)[i])] \o <<Jump(Begin(f))>>

tailCalls(body, f) ==
  LET from[i \in 1..(Len(body) + 3)] ==
        IF i > Len(body) THEN << >>
        ELSE IF isvalrtn(body, i, f) THEN again(body, body[i], f) \o from[i + 3]
        ELSE IF isvoidrtn(body, i, f) THEN again(body, body[i], f) \o from[i + 2]
        ELSE <<body[i]>> \o from[i + 1]
  IN  from[1]

(* getInlinePos: the calls to replace, as long as the frame stays small.   *)
getInlinePos(f, prog, rec) ==
  LET calls == callpos(start[f].body, f)
      small(s, size) ==
        LET g == getCallName(s)
            sum == prog[g].stksize - Saved + size
        IN  /\ ~ rec[g]
            /\ \/ ~ rec[f] /\ sum < maxstk
               \/ /\ rec[f] /\ sum <= 10 * prog[f].stksize
                  /\ Len(start[g].body) < Len(start[f].body)
      upTo[i \in 0..Len(calls)] ==
        IF i = 0 THEN [pos |-> << >>, size |-> prog[f].stksize]
        ELSE LET p == upTo[i - 1]
                 s == calls[i]
             IN  IF ~ small(s, p.size) THEN p
                 ELSE [pos |-> Append(p.pos, s),
                       size |-> p.size + prog[getCallName(s)].stksize - Saved]
  IN  upTo[Len(calls)].pos

-----------------------------------------------------------------------------
(* deepCopy: every temporary but sp, and every label, gets a new name; the *)
(* copy of fp is a temporary that is set where the copy begins.            *)

newTemp(t) == IF t \in {13, None} THEN t ELSE ntemp + t

newArg(a) == IF a[1] = "t" THEN temp(newTemp(a[2])) ELSE a

newLabel(l) == <<l[1], l[2], l[3] + ntemp>>

deepCopy(s) ==
  [op |-> s.op, dst |-> newTemp(s.dst), args |-> [i \in DOMAIN s.args |-> newArg(s.args[i])],
   to |-> IF isCall(s) THEN s.to ELSE [i \in DOMAIN s.to |-> newLabel(s.to[i])],
   site |-> 0]

mentions(body, t) == \E i \in DOMAIN body : body[i].dst = t \/ temp(t) \in {body[i].args[j] : j \in DOMAIN body[i].args}

(* Mutant: the copy works in the caller's own frame. *)
offsetZero(f) == 0

offset(f) == Saved - ir[f].stksize

grown(f, g) == ir[f].stksize + ir[g].stksize - Saved

(* What replaces the call s of g in f. *)
inlined(f, s) ==
  LET g == getCallName(s)
      b == ir[g].body
      from == SubSeq(b, beginAt(b, g), Len(b))
      copy == [i \in DOMAIN from |-> deepCopy(from[i])]
      p == paramTemps(b, g)
      used == SelectSeq([i \in DOMAIN p |-> i], LAMBDA i : mentions(from, p[i]))
  IN  [i \in DOMAIN used |-> Move(newTemp(p[used[i]]), getCallParam(s)[used[i]])]
        \o <<Head(copy), Stm("plus", newTemp(FP), <<temp(FP), const(offset(f))>>, << >>)>>
        \o Tail(copy)
        \o <<Label(newLabel(Return(g)))>>
        \o (IF s.dst = None THEN << >> ELSE <<Move(s.dst, temp(newTemp(0)))>>)

(* Where the call s is now. *)
place(f, s) == CHOOSE i \in DOMAIN ir[f].body : ir[f].body[i].site = s.site

-----------------------------------------------------------------------------
(* G2Lvar *)

(* The globals no function that main still calls may touch. *)
locals ==
  LET b == ir["main"].body
      called == {getCallName(b[i]) : i \in {j \in DOMAIN b : isCall(b[j])}} \cap Funcs
  IN  Globals \ UNION {Gvar(start, g) : g \in called}

inTemp(s) ==
  IF (isLdr(s) \/ isStr(s)) /\ s.args[1][1] = "g" /\ s.args[1][2] \in locals
  THEN LET t == ntemp + s.args[1][2]
       IN  IF isLdr(s) THEN Move(s.dst, temp(t)) ELSE Move(t, s.args[2])
  ELSE s

nocall == \A g \in Funcs : callsOf(ir["main"].body, g) = {}

(* The functions for which code is made. *)
procs == IF nocall THEN {"main"} ELSE {f \in Funcs : calledNum(start, f) # 0}

-----------------------------------------------------------------------------
InitWith(program) ==
  /\ start = program
  /\ ir = start
  /\ isrec = [f \in Funcs |-> Recursive(start[f].body, f)]
  /\ at = 1
  /\ funcPos = << >>
  /\ phase = "tail"
  /\ ntemp = 2000

Init == \E program \in Programs : InitWith(program)

replaceTailCalls ==
  LET f == Order[at]
      body == tailCalls(ir[f].body, f)
  IN  /\ phase = "tail"
      /\ ir' = [ir EXCEPT ![f].body = body]
      /\ isrec' = [isrec EXCEPT ![f] = Recursive(body, f)]
      /\ funcPos' = getInlinePos(f, ir', isrec')
      /\ phase' = "inline"
      /\ UNCHANGED <<start, at, ntemp>>

inlineCall ==
  LET f == Order[at]
      s == Head(funcPos)
      i == place(f, s)
      b == ir[f].body
  IN  /\ phase = "inline" /\ funcPos # << >>
      /\ ir' = [ir EXCEPT
           ![f].body = SubSeq(b, 1, i - 1) \o inlined(f, s) \o SubSeq(b, i + 1, Len(b)),
           ![f].stksize = grown(f, getCallName(s))]
      /\ funcPos' = Tail(funcPos)
      /\ ntemp' = 2 * ntemp
      /\ UNCHANGED <<start, isrec, at, phase>>

nextFunction ==
  /\ phase = "inline" /\ funcPos = << >>
  /\ IF at < Len(Order) THEN at' = at + 1 /\ phase' = "tail" ELSE at' = at /\ phase' = "globals"
  /\ UNCHANGED <<start, ir, isrec, funcPos, ntemp>>

G2Lvar ==
  /\ phase = "globals"
  /\ ir' = [ir EXCEPT !["main"].body = [i \in DOMAIN @ |-> inTemp(@[i])]]
  /\ phase' = "done"
  /\ UNCHANGED <<start, isrec, at, funcPos, ntemp>>

Next == replaceTailCalls \/ inlineCall \/ nextFunction \/ G2Lvar

Spec == Init /\ [][Next]_vars

-----------------------------------------------------------------------------
(* What a program does: putint is all that can be seen of it. *)

Get(env, k) == IF k \in DOMAIN env THEN env[k] ELSE 0
Set(env, k, v) == [j \in DOMAIN env \cup {k} |-> IF j = k THEN v ELSE env[j]]

value(fr, a) ==
  CASE a[1] = "t" -> IF a[2] = FP THEN fr.fp ELSE Get(fr.env, a[2])
    [] OTHER -> a[2]

Entry(f, args, fp) ==
  [f |-> f, pc |-> 1, env |-> [r \in 0..(Len(args) - 1) |-> args[r + 1]], fp |-> fp, dst |-> None]

(* The caller goes on, with the result where the call puts it. *)
Popped(c) ==
  LET fr == Head(c.stack)
      rest == Tail(c.stack)
      up == Head(rest)
      d == fr.dst
  IN  IF rest = << >> THEN [c EXCEPT !.stack = << >>]
      ELSE [c EXCEPT !.stack =
             <<[up EXCEPT !.env = IF d = None THEN @ ELSE Set(@, d, Get(fr.env, 0))]>> \o Tail(rest)]

labelAt(body, l) == CHOOSE i \in DOMAIN body : body[i].op = "label" /\ body[i].to[1] = l

Step(prog, c) ==
  LET fr == Head(c.stack)
      body == prog[fr.f].body
      s == body[fr.pc]
      v(i) == value(fr, s.args[i])
      next == [fr EXCEPT !.pc = @ + 1]
      top(x) == [c EXCEPT !.stack = <<x>> \o Tail(@)]
      set(x) == top([next EXCEPT !.env = Set(@, s.dst, x)])
      goto(l) == IF l = Return(fr.f) THEN Popped(c) ELSE top([fr EXCEPT !.pc = labelAt(body, l)])
  IN  IF c.stack = << >> THEN c
      ELSE IF fr.pc > Len(body) THEN Popped(c)
      ELSE CASE s.op = "label" -> top(next)
        [] s.op = "move" -> set(v(1))
        [] s.op = "plus" -> set(v(1) + v(2))
        [] s.op = "load" -> set(Get(c.mem, v(1)))
        [] s.op = "store" -> [top(next) EXCEPT !.mem = Set(@, v(1), v(2))]
        [] s.op = "jump" -> goto(s.to[1])
        [] s.op = "cjump" -> IF v(1) > 0 THEN goto(s.to[1]) ELSE goto(s.to[2])
        [] s.op = "call" /\ s.to[1] = "putint" -> [top(next) EXCEPT !.out = Append(@, v(1))]
        [] s.op = "call" /\ s.to[1] \in Funcs ->
             [c EXCEPT !.stack =
                <<[Entry(s.to[1], [i \in DOMAIN s.args |-> v(i)], fr.fp - prog[fr.f].stksize)
                     EXCEPT !.dst = s.dst], next>> \o Tail(c.stack)]

(* At most 2^k statements. *)
RECURSIVE Steps(_, _, _)
Steps(prog, c, k) ==
  IF c.stack = << >> THEN c
  ELSE IF k = 0 THEN Step(prog, c)
  ELSE LET half == Steps(prog, c, k - 1) IN Steps(prog, half, k - 1)

Output(prog) ==
  Steps(prog, [stack |-> <<Entry("main", << >>, 0)>>, mem |-> << >>, out |-> << >>], Fuel)

-----------------------------------------------------------------------------
(* Properties. *)

Labels(body) == {i \in DOMAIN body : body[i].op = "label"}

(* Types. *)
TypeOK ==
  /\ phase \in {"tail", "inline", "globals", "done"}
  /\ at \in DOMAIN Order
  /\ \A f \in Funcs :
       /\ ir[f].stksize >= start[f].stksize
       /\ \A i \in DOMAIN ir[f].body :
            LET s == ir[f].body[i]
            IN  /\ s.dst \in {None} \cup 0..(2 * ntemp)
                /\ s.site # 0 => s \in {start[f].body[j] : j \in DOMAIN start[f].body}

(* The program prints what it printed, after every step of the pass: also  *)
(* when a body is copied more than once, into a loop, or into a function   *)
(* that has arrays of its own, and when globals become temporaries.        *)
SamePrints ==
  LET a == Output(start)
      b == Output(ir)
  IN  a.stack = << >> /\ b.stack = << >> /\ a.out = b.out

(* No label is defined twice in the whole program, and every jump has one  *)
(* to go to in its own function.                                           *)
LabelsOnce ==
  /\ \A f, g \in Funcs : \A i \in Labels(ir[f].body), j \in Labels(ir[g].body) :
       ir[f].body[i].to = ir[g].body[j].to => f = g /\ i = j
  /\ \A f \in Funcs : \A i \in DOMAIN ir[f].body :
       ir[f].body[i].op \in {"jump", "cjump"} =>
         \A k \in DOMAIN ir[f].body[i].to :
           ir[f].body[i].to[k] \in {Return(f)} \cup
             {ir[f].body[j].to[1] : j \in Labels(ir[f].body)}

(* Code is made for every function the code that is made calls. *)
CalleesEmitted ==
  phase = "done" =>
    \A f \in procs : \A g \in Funcs : callsOf(ir[f].body, g) # {} => g \in procs
=============================================================================
