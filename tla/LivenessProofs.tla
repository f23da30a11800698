--------------------------- MODULE LivenessProofs ---------------------------
(***************************************************************************)
(* Proofs about Liveness: whatever the instruction list, the worklist      *)
(* algorithm computes exactly the live temporaries, if it ends.            *)
(***************************************************************************)
EXTENDS Liveness, FiniteSetTheorems, TLAPS

OnStack(i) == \E k \in DOMAIN workset : workset[k] = i

(* The equations hold wherever the stack does not remember a visit.        *)
Equations ==
  \A i \in Nodes : ~ OnStack(i) => out[i] = outOf(i) /\ in[i] = inOf(i, outOf(i))

(* A set never holds more than the equation gives: what a visit finds is   *)
(* never less than what was there.                                         *)
Below == \A i \in Nodes : in[i] \subseteq inOf(i, outOf(i))

(* A set never holds more than what is live.                               *)
NeverTooMuch == \A i \in Nodes : \A t \in in[i] : LiveAt(t, i)

IInv == TypeOK /\ Equations /\ Below /\ NeverTooMuch

-----------------------------------------------------------------------------
(* What a program is made of. *)

(* Definitions and uses of an instruction are temporaries. *)
LEMMA InstrType ==
  ASSUME TypeOK
  PROVE  /\ \A i \in Nodes : prog[i].defs \subseteq Temp /\ prog[i].uses \subseteq Temp
         /\ Len(prog) \in Nat /\ Nodes = 1..Len(prog)
<1>1. prog \in Seq(Instruction)
  BY DEF TypeOK, IsProgram
<1>2. Len(prog) \in Nat /\ Nodes = 1..Len(prog)
  BY <1>1 DEF Nodes
<1>3. \A i \in Nodes : prog[i] \in Instruction
  BY <1>1, <1>2
<1> QED
  BY <1>2, <1>3 DEF Instruction

(* The sets at the ends of a node are sets of temporaries. *)
LEMMA SetsType ==
  ASSUME TypeOK, NEW i \in Nodes
  PROVE  outOf(i) \subseteq Temp /\ inOf(i, outOf(i)) \subseteq Temp
<1>1. outOf(i) \subseteq Temp
  BY DEF TypeOK, outOf, succ
<1> QED
  BY <1>1, InstrType DEF inOf

(* The edges do not depend on the sets. *)
LEMMA EdgesUnchanged ==
  ASSUME prog' = prog
  PROVE  /\ Nodes' = Nodes
         /\ \A i : succ(i)' = succ(i)
         /\ \A i, j : Edge(i, j)' = Edge(i, j)
         /\ \A t, i : LiveAt(t, i)' = LiveAt(t, i)
BY DEF Nodes, succ, Edge, FallsThrough, JumpsTo, LiveAt, ClosedFor

(* Pushing leaves a stack of nodes, with the nodes pushed on it and the    *)
(* others that were below the top.                                         *)
LEMMA Pushed ==
  ASSUME TypeOK, workset # << >>, NEW S \in SUBSET Nodes, Push(S)
  PROVE  /\ workset' \in Seq(Nodes)
         /\ \A i \in Nodes : (i \in S \/ (OnStack(i) /\ i # Head(workset))) =>
              \E k \in DOMAIN workset' : workset'[k] = i
<1>1. Cardinality(S) \in Nat
  <2>1. IsFiniteSet(Nodes)
    BY InstrType, FS_Interval
  <2> QED
    BY <2>1, FS_Subset, FS_CardinalityType
<1>2. PICK q \in [1..Cardinality(S) -> S] : IsPushed(q, S) /\ workset' = q \o Tail(workset)
  BY DEF Push
<1>3. q \in Seq(Nodes) /\ DOMAIN q = 1..Len(q) /\ Len(q) \in Nat
  BY <1>1, <1>2
<1>4. workset \in Seq(Nodes) /\ Tail(workset) \in Seq(Nodes)
      /\ Len(Tail(workset)) = Len(workset) - 1 /\ Len(workset) \in Nat
  BY DEF TypeOK
<1>5. workset' \in Seq(Nodes)
  BY <1>2, <1>3, <1>4
<1>6. ASSUME NEW i \in S
      PROVE  \E k \in DOMAIN workset' : workset'[k] = i
  <2>1. PICK k \in DOMAIN q : q[k] = i
    BY <1>2 DEF IsPushed
  <2>2. k \in 1..Len(workset') /\ workset'[k] = q[k]
    BY <2>1, <1>2, <1>3, <1>4
  <2> QED
    BY <2>1, <2>2, <1>5
<1>7. ASSUME NEW i \in Nodes, OnStack(i), i # Head(workset)
      PROVE  \E k \in DOMAIN workset' : workset'[k] = i
  <2>1. PICK k \in 1..Len(workset) : workset[k] = i
    BY <1>4, <1>7 DEF OnStack
  <2>2. k # 1
    BY <2>1, <1>4, <1>7
  <2>3. Tail(workset)[k - 1] = workset[k] /\ k - 1 \in 1..Len(Tail(workset))
    BY <2>1, <2>2, <1>4
  <2> DEFINE m == Len(q) + (k - 1)
  <2>4. m \in 1..Len(workset') /\ workset'[m] = Tail(workset)[k - 1]
    BY <2>3, <1>2, <1>3, <1>4
  <2> QED
    BY <2>1, <2>3, <2>4, <1>5
<1> QED
  BY <1>5, <1>6, <1>7
-----------------------------------------------------------------------------
(* The invariant. *)

LEMMA InitIInv == Init => IInv
<1> SUFFICES ASSUME Init PROVE IInv
  OBVIOUS
<1>1. IsProgram(prog)
  BY ProgramsAssumption DEF Init
<1>2. prog \in Seq(Instruction) /\ Len(prog) \in Nat /\ Nodes = 1..Len(prog)
  BY <1>1 DEF IsProgram, Nodes
<1>3. /\ in = [i \in Nodes |-> {}] /\ out = [i \in Nodes |-> {}]
      /\ workset = [i \in Nodes |-> Len(prog) + 1 - i]
  BY DEF Init
<1>4. workset \in Seq(Nodes)
  BY <1>2, <1>3
<1>5. TypeOK
  BY <1>1, <1>3, <1>4 DEF TypeOK
<1>6. \A i \in Nodes : OnStack(i)
  <2> TAKE i \in Nodes
  <2>1. Len(prog) + 1 - i \in Nodes /\ workset[Len(prog) + 1 - i] = i
    BY <1>2, <1>3
  <2> QED
    BY <2>1, <1>3 DEF OnStack
<1> QED
  BY <1>3, <1>5, <1>6 DEF IInv, Equations, Below, NeverTooMuch

(* What is known of the step that visits n. *)
LEMMA VisitFacts ==
  ASSUME IInv, NEW n \in Nodes, visit(n)
  PROVE  /\ prog' = prog
         /\ workset # << >> /\ n = Head(workset)
         /\ Push(IF inOf(n, outOf(n)) = in[n] THEN {} ELSE pred(n))
         /\ \A i \in Nodes : in'[i] = IF i = n THEN inOf(n, outOf(n)) ELSE in[i]
         /\ \A i \in Nodes : out'[i] = IF i = n THEN outOf(n) ELSE out[i]
         /\ \A i \in Nodes : in[i] \subseteq in'[i]
BY DEF visit, IInv, TypeOK, Below

(* What flows out of a node only grows, and is the same if the node is     *)
(* not a predecessor of the one visited or nothing came of the visit.      *)
LEMMA OutOfAfter ==
  ASSUME IInv, NEW n \in Nodes, visit(n), NEW i \in Nodes
  PROVE  /\ outOf(i) \subseteq outOf(i)'
         /\ inOf(i, outOf(i)) \subseteq inOf(i, outOf(i))'
         /\ (i \notin pred(n) \/ inOf(n, outOf(n)) = in[n]) =>
              outOf(i)' = outOf(i) /\ inOf(i, outOf(i))' = inOf(i, outOf(i))
<1>1. prog' = prog /\ succ(i)' = succ(i)
  BY VisitFacts, EdgesUnchanged
<1>2. succ(i) \subseteq Nodes /\ (n \in succ(i) => i \in pred(n))
  BY DEF succ, pred
<1>3. outOf(i)' = UNION {in'[j] : j \in succ(i)}
  BY <1>1 DEF outOf
<1>4. outOf(i) \subseteq outOf(i)'
  <2>1. \A j \in succ(i) : in[j] \subseteq in'[j]
    BY <1>2, VisitFacts
  <2>2. UNION {in[j] : j \in succ(i)} \subseteq UNION {in'[j] : j \in succ(i)}
    BY ONLY <2>1
  <2> QED
    BY ONLY <2>2, <1>3 DEF outOf
<1>5. ASSUME i \notin pred(n) \/ inOf(n, outOf(n)) = in[n]
      PROVE  outOf(i)' = outOf(i)
  <2>1. \A j \in succ(i) : in'[j] = in[j]
    BY <1>2, <1>5, VisitFacts
  <2> QED
    BY <2>1, <1>3 DEF outOf
<1> QED
  BY <1>1, <1>4, <1>5 DEF inOf

LEMMA VisitIInv ==
  ASSUME IInv, NEW n \in Nodes, visit(n)
  PROVE  IInv'
<1> DEFINE S == IF inOf(n, outOf(n)) = in[n] THEN {} ELSE pred(n)
<1>1. /\ prog' = prog /\ Nodes' = Nodes
      /\ \A t, i : LiveAt(t, i)' = LiveAt(t, i)
  BY VisitFacts, EdgesUnchanged
<1>2. TypeOK
  BY DEF IInv
<1>3. S \in SUBSET Nodes /\ Push(S)
  BY VisitFacts DEF pred
<1>4. TypeOK'
  <2>1. workset' \in Seq(Nodes)
    BY <1>2, <1>3, VisitFacts, Pushed
  <2>2. in' \in [Nodes -> SUBSET Temp] /\ out' \in [Nodes -> SUBSET Temp]
    BY <1>2, SetsType DEF visit, TypeOK
  <2> QED
    BY <1>1, <1>2, <2>1, <2>2 DEF TypeOK, IsProgram
<1>5. Equations'
  <2> SUFFICES ASSUME NEW i \in Nodes, ~ OnStack(i)'
               PROVE  out'[i] = outOf(i)' /\ in'[i] = inOf(i, outOf(i))'
    BY <1>1 DEF Equations
  <2>1. ~ (i \in S \/ (OnStack(i) /\ i # n))
    BY <1>2, <1>3, VisitFacts, Pushed DEF OnStack
  <2>2. outOf(i)' = outOf(i) /\ inOf(i, outOf(i))' = inOf(i, outOf(i))
    BY <2>1, OutOfAfter
  <2>3. CASE i = n
    BY <2>2, <2>3, VisitFacts
  <2>4. CASE i # n
    BY <2>1, <2>2, <2>4, VisitFacts DEF IInv, Equations
  <2> QED
    BY <2>3, <2>4
<1>6. Below'
  <2> SUFFICES ASSUME NEW i \in Nodes
               PROVE  in'[i] \subseteq inOf(i, outOf(i))'
    BY <1>1 DEF Below
  <2>1. in'[i] \subseteq inOf(i, outOf(i))
    BY VisitFacts DEF IInv, Below
  <2> QED
    BY <2>1, OutOfAfter
<1>7. NeverTooMuch'
  <2> SUFFICES ASSUME NEW i \in Nodes, NEW t \in in'[i]
               PROVE  LiveAt(t, i)
    BY <1>1 DEF NeverTooMuch
  <2>1. CASE t \in in[i]
    BY <2>1 DEF IInv, NeverTooMuch
  <2>2. CASE t \notin in[i]
    <3>1. i = n /\ t \in inOf(n, outOf(n))
      BY <2>2, VisitFacts
    <3>2. SUFFICES ASSUME NEW C \in SUBSET Nodes, ClosedFor(t, C)
                   PROVE  i \in C
      BY DEF LiveAt
    <3>3. CASE t \in prog[i].uses
      BY <3>2, <3>3 DEF ClosedFor
    <3>4. CASE t \in outOf(i) /\ t \notin prog[i].defs
      <4>1. PICK j \in Nodes : Edge(i, j) /\ t \in in[j]
        BY <3>4 DEF outOf, succ
      <4>2. j \in C
        BY <4>1, <3>2 DEF IInv, NeverTooMuch, LiveAt
      <4> QED
        BY <4>1, <4>2, <3>2, <3>4 DEF ClosedFor
    <3> QED
      BY <3>1, <3>3, <3>4 DEF inOf
  <2> QED
    BY <2>1, <2>2
<1> QED
  BY <1>4, <1>5, <1>6, <1>7 DEF IInv

LEMMA StutterIInv == IInv /\ UNCHANGED vars => IInv'
<1> SUFFICES ASSUME IInv, prog' = prog, in' = in, out' = out, workset' = workset
             PROVE  IInv'
  BY DEF vars
<1>1. /\ Nodes' = Nodes
      /\ \A i : succ(i)' = succ(i)
      /\ \A t, i : LiveAt(t, i)' = LiveAt(t, i)
  BY EdgesUnchanged
<1>2. \A i : outOf(i)' = outOf(i) /\ inOf(i, outOf(i))' = inOf(i, outOf(i))
  BY <1>1 DEF outOf, inOf
<1>3. \A i : OnStack(i)' = OnStack(i)
  BY DEF OnStack
<1>4. TypeOK'
  BY <1>1 DEF IInv, TypeOK, IsProgram
<1>5. Equations' /\ Below'
  BY <1>1, <1>2, <1>3 DEF IInv, Equations, Below
<1>6. NeverTooMuch'
  BY <1>1 DEF IInv, NeverTooMuch
<1> QED
  BY <1>4, <1>5, <1>6 DEF IInv

(* The invariant holds in every state of the analysis. *)
THEOREM Invariance == Spec => []IInv
<1>1. IInv /\ [Next]_vars => IInv'
  BY VisitIInv, StutterIInv DEF Next
<1> QED
  BY <1>1, InitIInv, PTL DEF Spec

(* The table holds sets of temporaries and the stack holds nodes.          *)
THEOREM TypeCorrect == Spec => []TypeOK
BY Invariance, PTL DEF IInv

-----------------------------------------------------------------------------
(* When nothing is left on the stack all equations hold, and the entries   *)
(* where t is found are then closed under going back.                      *)
LEMMA TableIsClosed ==
  ASSUME IInv, workset = << >>, NEW t \in Temp
  PROVE  ClosedFor(t, {i \in Nodes : t \in in[i]})
<1>1. \A i \in Nodes : ~ OnStack(i)
  BY DEF OnStack
<1>2. \A i \in Nodes : in[i] = inOf(i, outOf(i))
  BY <1>1 DEF IInv, Equations
<1>3. \A i, j \in Nodes : Edge(i, j) => in[j] \subseteq outOf(i)
  BY DEF outOf, succ
<1> QED
  BY <1>2, <1>3 DEF ClosedFor, inOf

LEMMA IInvExact == IInv => Exact
<1> SUFFICES ASSUME IInv, workset = << >>, NEW i \in Nodes
             PROVE  /\ in[i] = {t \in Temp : LiveAt(t, i)}
                    /\ out[i] = {t \in Temp : \E j \in succ(i) : LiveAt(t, j)}
  BY DEF Exact
<1>1. \A j \in Nodes : in[j] \subseteq Temp
  BY DEF IInv, TypeOK
<1>2. \A j \in Nodes : \A t \in Temp : t \in in[j] <=> LiveAt(t, j)
  <2> TAKE j \in Nodes
  <2> TAKE t \in Temp
  <2>1. LiveAt(t, j) => t \in in[j]
    BY TableIsClosed DEF LiveAt
  <2> QED
    BY <2>1 DEF IInv, NeverTooMuch
<1>3. out[i] = outOf(i) /\ succ(i) \subseteq Nodes
  BY DEF IInv, Equations, OnStack, succ
<1>4. out[i] = {t \in Temp : \E j \in succ(i) : t \in in[j]}
  BY <1>1, <1>3 DEF outOf
<1> QED
  BY <1>1, <1>2, <1>3, <1>4

(* Whatever the instruction list, the worklist stopped with exactly the    *)
(* temporaries that are live at each entry and exit: analysis() misses     *)
(* none, so that no two that are live together can share a register.       *)
THEOREM Correctness == Spec => []Exact
BY Invariance, IInvExact, PTL

(* The sets only grow (the assert on their sizes in analysis()).           *)
THEOREM Growth == Spec => OnlyGrows
<1>1. IInv /\ [Next]_vars => [\A i \in Nodes : in[i] \subseteq in'[i]]_vars
  BY VisitFacts DEF Next, vars
<1> QED
  BY <1>1, Invariance, PTL DEF Spec, OnlyGrows
=============================================================================
