----------------------------- MODULE SSAProgram -----------------------------
(***************************************************************************)
(* A function as the passes between CFGraph and ssa2ir see it: basic       *)
(* blocks of quadruples, numbered from 0, with edges in both directions    *)
(* (src/src/ssa/CFG.hpp, src/src/backend/graph.hpp), what a statement      *)
(* reads and writes (src/src/util/utils.hpp), and what such a function     *)
(* does when it is run.                                                    *)
(*                                                                         *)
(* A label is the number of the block it begins.  An operand is a          *)
(* temporary T(t) or a constant C(v).  A statement is a record of op, dst  *)
(* (0 if it has none) and args; a phi function has the op "phi".           *)
(***************************************************************************)
EXTENDS Integers, Sequences, FiniteSets, TLC, FiniteSetsExt, SequencesExt

CONSTANTS
  Inputs,  \* sequences of what getint returns
  Events,  \* a run is looked at until so many numbers have been printed
  Doubles  \* and at most 2^Doubles blocks have been executed

T(t) == <<"temp", t>>
C(v) == <<"const", v>>
isTemp(u) == u[1] = "temp"
isConst(u) == u[1] = "const"

(* The address of a global variable. *)
Name(a) == <<"name", a>>
isName(u) == u[1] = "name"

Move(t, u) == [op |-> "move", dst |-> t, args |-> <<u>>]
Binop(t, op, u, v) == [op |-> op, dst |-> t, args |-> <<u, v>>]
Phi(t, us) == [op |-> "phi", dst |-> t, args |-> us]
Load(t, u) == [op |-> "load", dst |-> t, args |-> <<u>>]
Store(u, v) == [op |-> "store", dst |-> 0, args |-> <<u, v>>]
Get(t) == [op |-> "getint", dst |-> t, args |-> << >>]
GetArray(t, u) == [op |-> "getarray", dst |-> t, args |-> <<u>>]
Put(u) == [op |-> "putint", dst |-> 0, args |-> <<u>>]
nopStm == [op |-> "nop", dst |-> 0, args |-> << >>]

Jump(l) == [op |-> "jump", dst |-> 0, args |-> << >>, to |-> <<l>>]
Cjump(rel, u, v, t, f) == [op |-> rel, dst |-> 0, args |-> <<u, v>>, to |-> <<t, f>>]
Exit == [op |-> "exit", dst |-> 0, args |-> << >>, to |-> << >>]

isphifunc(s) == s.op = "phi"
isLdr(s) == s.op = "load"
isStr(s) == s.op = "store"
isCall(s) == s.op \in {"phi", "getint", "getarray", "putint"}
ismovebi(s) == s.op \in {"+", "-", "*", "f+", "f*"}
isCjump(j) == Len(j.to) = 2

(* getDef and getUses *)
getDef(s) == s.dst
getUses(s) == {u[2] : u \in {x \in ToSet(s.args) : isTemp(x)}}

(* f itself, as a table that is computed once. *)
none == [k \in {} |-> 0]
table(f) == f @@ none

(* f of every element; the concatenation makes a tuple of it. *)
each(s, f(_)) == << >> \o [k \in DOMAIN s |-> f(s[k])]

(* The body of v becomes f(v). *)
withBodies(p, f(_)) == [p EXCEPT !.body = [v \in DOMAIN @ |-> f(v)] @@ @]

(* A use for which f gives another operand is replaced by it. *)
usesReplaced(s, f(_)) ==
  LET for(u) == IF isTemp(u) THEN f(u[2]) ELSE u
  IN  [s EXCEPT !.args = each(@, for)]

-----------------------------------------------------------------------------
(* The graph.  p.prednode[v] is the order in which the arguments of the    *)
(* phi functions of v belong to its predecessors.                          *)

RECURSIVE sorted(_)
sorted(S) == IF S = {} THEN << >> ELSE <<Min(S)>> \o sorted(S \ {Min(S)})

Nodes(p) == DOMAIN p.body
nodecount(p) == Cardinality(Nodes(p))
succs(p, v) == p.succ[v]
preds(p, v) == {u \in Nodes(p) : v \in p.succ[u]}
inDegree(p, v) == Cardinality(preds(p, v))
outDegree(p, v) == Cardinality(p.succ[v])

addEdge(p, u, v) == [p EXCEPT !.succ[u] = @ \cup {v}]
rmEdge(p, u, v) == [p EXCEPT !.succ[u] = @ \ {v}]

(* A node with these statements, without edges, its number the next one. *)
addNode(p, body, jump, pred) ==
  LET n == nodecount(p)
  IN  [p EXCEPT !.body = (n :> body) @@ @, !.jump = (n :> jump) @@ @,
                !.succ = (n :> {}) @@ @, !.prednode = (n :> pred) @@ @]

Aphi(p, v) == {s \in ToSet(p.body[v]) : isphifunc(s)}
statements(p) == UNION {ToSet(p.body[v]) \cup {p.jump[v]} : v \in Nodes(p)}

(* With one way in, a phi function is a move of its first argument. *)
oneWayPhis(p) ==
  LET moved(s) == IF isphifunc(s) THEN Move(s.dst, s.args[1]) ELSE s
      for(v) == IF inDegree(p, v) = 1 THEN each(p.body[v], moved) ELSE p.body[v]
  IN  withBodies(p, for)

(* What the entry leads to. *)
RECURSIVE reachedFrom(_, _)
reachedFrom(p, S) ==
  LET N == S \cup UNION {p.succ[v] : v \in S}
  IN  IF N = S THEN S ELSE reachedFrom(p, N)

live(p) == reachedFrom(p, {0})

(* Nothing gets from the entry to v without passing d. *)
RECURSIVE avoiding(_, _, _)
avoiding(p, d, S) ==
  LET N == S \cup UNION {p.succ[v] \ {d} : v \in S}
  IN  IF N = S THEN S ELSE avoiding(p, d, N)

dominated(p) ==
  LET L == live(p)
  IN  table([d \in L |-> IF d = 0 THEN L ELSE L \ avoiding(p, d, {0})])

(* Everything that leads to S without passing d. *)
RECURSIVE leadingTo(_, _, _)
leadingTo(p, d, S) ==
  LET N == S \cup UNION {preds(p, v) \ {d} : v \in S}
  IN  IF N = S THEN S ELSE leadingTo(p, d, N)

(* The children of the nodes in the dominator tree, which module           *)
(* Dominators shows the algorithm to find.                                 *)
children(p) ==
  LET D == dominated(p)
  IN  table([d \in DOMAIN D |->
         sorted({v \in D[d] \ {d} : \A e \in DOMAIN D : e # v /\ v \in D[e] => d \in D[e]})])

(* Every dominance frontier. *)
DF(p) ==
  LET D == dominated(p)
  IN  table([d \in DOMAIN D |->
         {v \in DOMAIN D : v \notin D[d] \ {d} /\ preds(p, v) \cap D[d] # {}}])

-----------------------------------------------------------------------------
(* A run. *)

(* Integers are this wide, so that they wrap around in small instances.    *)
Width == 4096
wrapped(n) == ((n + Width \div 2) % Width) - Width \div 2

Calc(op, x, y) ==
  wrapped(CASE op \in {"+", "f+"} -> x + y [] op = "-" -> x - y [] op \in {"*", "f*"} -> x * y)

Holds(rel, x, y) ==
  CASE rel = "<" -> x < y [] rel = ">=" -> x >= y [] rel = "=" -> x = y [] rel = "#" -> x # y

Read(m, k) == IF k \in DOMAIN m THEN m[k] ELSE 0

Value(r, u) == IF isTemp(u) THEN Read(r.env, u[2]) ELSE u[2]

Exec(r, s) ==
  LET v(k) == Value(r, s.args[k])
      set(x) == [r EXCEPT !.env = (s.dst :> x) @@ @]
  IN  CASE s.op = "move" -> set(v(1))
        [] ismovebi(s) -> [set(Calc(s.op, v(1), v(2))) EXCEPT !.ops = @ + 1]
        [] s.op = "load" -> set(Read(r.mem, v(1)))
        [] s.op = "store" -> [r EXCEPT !.mem = (v(1) :> v(2)) @@ @]
        [] s.op = "getint" ->
             [r EXCEPT !.env = (s.dst :> IF r.in = << >> THEN 0 ELSE Head(r.in)) @@ @,
                       !.in = IF @ = << >> THEN @ ELSE Tail(@),
                       !.seen = Append(@, "get")]
        [] s.op = "getarray" ->
             [r EXCEPT !.env = (s.dst :> 1) @@ @,
                       !.mem = (v(1) :> IF r.in = << >> THEN 0 ELSE Head(r.in)) @@ @,
                       !.in = IF @ = << >> THEN @ ELSE Tail(@),
                       !.seen = Append(@, "get")]
        [] s.op = "putint" -> [r EXCEPT !.seen = Append(@, ToString(v(1)))]
        [] OTHER -> r

(* What a phi function gives that has no argument for the way taken. *)
nowhere == 777

(* The phi functions of a block all read before any of them writes. *)
enter(p, r) ==
  LET phis == SelectSeq(p.body[r.at], isphifunc)
      places(s) == {k \in DOMAIN s.args \cap DOMAIN p.prednode[r.at] : p.prednode[r.at][k] = r.from}
      arg(s) == IF places(s) = {} THEN nowhere ELSE Value(r, s.args[Min(places(s))])
  IN  IF phis = << >> THEN r
      ELSE [r EXCEPT !.env = FoldLeft(LAMBDA e, s : (s.dst :> arg(s)) @@ e, @, phis)]

block(p, r) ==
  LET j == p.jump[r.at]
      to(e) == IF ~ isCjump(j) \/ Holds(j.op, Value(e, j.args[1]), Value(e, j.args[2])) THEN j.to[1] ELSE j.to[2]
      leave(e) == [e EXCEPT !.at = to(e), !.from = r.at]
  IN  leave(FoldLeft(Exec, enter(p, r), p.body[r.at]))

RECURSIVE blocks(_, _, _)
blocks(p, r, k) ==
  IF r.at = p.exit \/ Len(r.seen) >= Events THEN r
  ELSE IF k = 0 THEN block(p, r)
  ELSE LET h == blocks(p, r, k - 1) IN blocks(p, h, k - 1)

(* 2^n blocks from the entry on. *)
run(p, in, n) ==
  blocks(p, [at |-> 0, from |-> 0, env |-> none, mem |-> none, in |-> in, seen |-> << >>, ops |-> 0], n)

(* What is printed, and whether the end is reached, in 2^n blocks. *)
Observed(p, in, n) ==
  LET seenOf(r) == IF Len(r.seen) >= Events THEN <<SubSeq(r.seen, 1, Events), FALSE>> ELSE <<r.seen, r.at = p.exit>>
  IN  seenOf(run(p, in, n))

(* How many operations a run does. *)
Work(p, in, n) == run(p, in, n).ops

Behaviour(p) == [in \in Inputs |-> Observed(p, in, Doubles)]

-----------------------------------------------------------------------------
(* What every pass relies on. *)

(* Every temporary is written by one statement. *)
SingleAssignment(p) ==
  \A v, w \in live(p) : \A j \in DOMAIN p.body[v], k \in DOMAIN p.body[w] :
    p.body[v][j].dst # 0 /\ p.body[v][j].dst = p.body[w][k].dst => v = w /\ j = k

(* A temporary some statement writes is written before it is read: the     *)
(* block that writes it dominates the one that reads it, and for an        *)
(* argument of a phi function the predecessor it comes from.               *)
DefsDominate(p) ==
  LET D == dominated(p)
      defs(v) == {s.dst : s \in ToSet(p.body[v])} \ {0}
      at == [t \in UNION {defs(v) : v \in live(p)} |-> CHOOSE v \in live(p) : t \in defs(v)]
      before(v, k) == {p.body[v][j].dst : j \in 1..(k - 1)}
      fine(t, v, k) == t \in DOMAIN at => IF at[t] = v THEN t \in before(v, k) ELSE v \in D[at[t]]
      onEdge(u, w) == isTemp(u) /\ u[2] \in DOMAIN at => w \in D[at[u[2]]]
  IN  \A v \in live(p) :
        /\ \A k \in DOMAIN p.body[v] :
             IF isphifunc(p.body[v][k])
             THEN \A j \in DOMAIN p.prednode[v] : onEdge(p.body[v][k].args[j], p.prednode[v][j])
             ELSE \A t \in getUses(p.body[v][k]) : fine(t, v, k)
        /\ \A t \in getUses(p.jump[v]) : fine(t, v, Len(p.body[v]) + 1)

(* prednode lists the predecessors of the block, each once. *)
Listed(p, v) == IsInjective(p.prednode[v]) /\ ToSet(p.prednode[v]) = preds(p, v)

(* It does so for every block. *)
PredecessorsListed(p) == \A v \in live(p) : Listed(p, v)

(* In a block with phi functions prednode lists the predecessors, and a    *)
(* phi function has an argument for each.  Nothing is said of the others.  *)
ArgsAligned(p) ==
  \A v \in live(p) : Aphi(p, v) # {} =>
    Listed(p, v) /\ \A s \in Aphi(p, v) : Len(s.args) = Len(p.prednode[v])

(* The edges are what the jumps of the code say. *)
EdgesAreJumps(p) == \A v \in live(p) : p.succ[v] = ToSet(p.jump[v].to)

(* No predecessor of a block with phi functions ends in a branch: the      *)
(* moves that replace them need a place.                                   *)
NoCriticalEdge(p) ==
  \A v \in live(p) : Aphi(p, v) # {} /\ inDegree(p, v) > 1 =>
    \A u \in preds(p, v) : ~ isCjump(p.jump[u])
=============================================================================
