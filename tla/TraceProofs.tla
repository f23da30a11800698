----------------------------- MODULE TraceProofs -----------------------------
(***************************************************************************)
(* Proofs about the layout of basic blocks, of every code it may be given. *)
(*                                                                         *)
(* The blocks mkBlocks makes, and the code traceSchedule lays out,         *)
(* do what the list did.  Both are layouts of the same blocks (Lays): what *)
(* is inside a block is there, one statement after the other, and from its *)
(* end the code leads, by labels and jumps nobody sees, to where the block *)
(* it goes to next is entered.  Two layouts of the same blocks have the    *)
(* same runs (LayoutsSame), because one answers every step of the other    *)
(* and neither can go round in circles unseen while the other goes on.     *)
(* The invariant TInv then says how far the list is cut (Cutting), and     *)
(* which blocks are laid out and how they were closed (Placing,            *)
(* Following).                                                             *)
(***************************************************************************)
EXTENDS Traces, FiniteSetTheorems, SequenceTheorems, TLAPS

-----------------------------------------------------------------------------
(* A set of numbers has a least.                                           *)
LEMMA Least ==
  ASSUME NEW S \in SUBSET Nat, S # {}
  PROVE  \E m \in S : \A k \in S : m <= k
  <1> DEFINE below(s) == 0..(s - 1)
             F == {below(s) : s \in S}
  <1>1. PICK s0 \in S : TRUE
    OBVIOUS
  <1>2. \A s \in S : below(s) \in FiniteSubsetsOf(Nat)
    <2> SUFFICES ASSUME NEW s \in S PROVE below(s) \in SUBSET Nat /\ IsFiniteSet(below(s))
      BY DEF FiniteSubsetsOf
    <2>1. s \in Nat
      OBVIOUS
    <2> QED
      BY <2>1, FS_Interval
  <1>3. F \subseteq FiniteSubsetsOf(Nat) /\ F # {}
    BY <1>1, <1>2
  <1>4. \E x \in F : \A y \in F : ~ (<<y, x>> \in StrictSubsetOrdering(Nat))
    <2> HIDE DEF F
    <2> QED
      BY <1>3, FS_StrictSubsetOrderingWellFounded, WFMin
  <1>5. PICK m \in S : \A k \in S : ~ (<<below(k), below(m)>> \in StrictSubsetOrdering(Nat))
    BY <1>4
  <1>6. ASSUME NEW k \in S PROVE m <= k
    <2> SUFFICES ASSUME k < m PROVE FALSE
      BY <1>6
    <2>1. k \in Nat /\ m \in Nat
      OBVIOUS
    <2>2. below(k) \subseteq below(m) /\ below(k) # below(m)
      <3>1. k \in below(m) /\ k \notin below(k)
        BY <2>1
      <3> QED
        BY <2>1, <3>1
    <2>3. <<below(k), below(m)>> \in StrictSubsetOrdering(Nat)
      <3>1. below(k) \in SUBSET Nat /\ below(m) \in SUBSET Nat
        OBVIOUS
      <3> HIDE DEF below
      <3> QED
        BY <3>1, <2>2 DEF StrictSubsetOrdering
    <2> QED
      BY <1>5, <2>3
  <1> QED
    BY <1>6

(* Induction, about the set of the numbers that have the property. *)
LEMMA Induction ==
  ASSUME NEW S, 0 \in S, \A n \in Nat : n \in S => n + 1 \in S
  PROVE  \A n \in Nat : n \in S
  <1> DEFINE T == {n \in Nat : n \notin S}
  <1> SUFFICES ASSUME T # {} PROVE FALSE
    OBVIOUS
  <1>1. PICK m \in T : \A k \in T : m <= k
    BY Least
  <1>2. m \in Nat /\ m # 0 /\ m - 1 \in Nat
    OBVIOUS
  <1>3. m - 1 \notin T
    BY <1>1, <1>2
  <1>4. m - 1 \in S /\ (m - 1) + 1 = m
    BY <1>2, <1>3
  <1>5. m \in S
    BY <1>2, <1>4
  <1> QED
    BY <1>5

(* A function can be defined by its value at 0 and how each other value    *)
(* follows from the one before.                                            *)
LEMMA Stream ==
  ASSUME NEW A, NEW a \in A, NEW G \in [A -> A]
  PROVE  \E f \in [Nat -> A] : f[0] = a /\ \A n \in Nat : f[n + 1] = G[f[n]]
  <1> DEFINE P(n, f) == f \in [0..n -> A] /\ f[0] = a /\ \A k \in Nat : k < n => f[k + 1] = G[f[k]]
             S == {n \in Nat : \E f : P(n, f)}
             pre(n) == CHOOSE f : P(n, f)
  <1>1. 0 \in S
    <2>1. P(0, [k \in 0..0 |-> a])
      OBVIOUS
    <2> QED
      BY <2>1
  <1>2. ASSUME NEW n \in Nat, n \in S PROVE n + 1 \in S
    <2>1. PICK f : P(n, f)
      BY <1>2
    <2> DEFINE g == [k \in 0..(n + 1) |-> IF k = n + 1 THEN G[f[n]] ELSE f[k]]
    <2>2. n \in 0..n /\ f[n] \in A
      BY <2>1
    <2>3. g \in [0..(n + 1) -> A] /\ g[0] = a
      BY <2>1, <2>2
    <2>4. ASSUME NEW k \in Nat, k < n + 1 PROVE g[k + 1] = G[g[k]]
      <3>1. CASE k = n
        BY <3>1
      <3>2. CASE k # n
        <4>1. k < n /\ k + 1 \in 0..n /\ g[k + 1] = f[k + 1] /\ g[k] = f[k]
          BY <2>4, <3>2
        <4> QED
          BY <4>1, <2>1
      <3> QED
        BY <3>1, <3>2
    <2>5. P(n + 1, g)
      BY <2>3, <2>4
    <2> HIDE DEF P, g
    <2> QED
      BY <2>5
  <1>3. \A n \in Nat : P(n, pre(n))
    <2>1. \A n \in Nat : n \in S
      <3> HIDE DEF S
      <3> QED
        BY <1>1, <1>2, Induction
    <2> HIDE DEF P
    <2> QED
      BY <2>1
  <1>4. ASSUME NEW n \in Nat PROVE pre(n + 1)[n] = pre(n)[n]
    <2> DEFINE f == pre(n)
               g == pre(n + 1)
               T == {k \in Nat : k <= n => f[k] = g[k]}
    <2> HIDE DEF pre
    <2>1. P(n, f) /\ P(n + 1, g)
      <3> HIDE DEF P
      <3> QED
        BY <1>3
    <2>2. 0 \in T
      BY <2>1
    <2>3. ASSUME NEW k \in Nat, k \in T PROVE k + 1 \in T
      BY <2>1, <2>3
    <2>4. n \in T
      <3> HIDE DEF T
      <3> QED
        BY <2>2, <2>3, Induction
    <2> QED
      BY <2>4
  <1> DEFINE h == [n \in Nat |-> pre(n)[n]]
  <1>5. h \in [Nat -> A] /\ h[0] = a
    <2>1. \A n \in Nat : pre(n)[n] \in A /\ pre(0)[0] = a
      <3> HIDE DEF pre
      <3> QED
        BY <1>3
    <2> HIDE DEF pre
    <2> QED
      BY <2>1
  <1>6. ASSUME NEW n \in Nat PROVE h[n + 1] = G[h[n]]
    <2>1. pre(n + 1)[n + 1] = G[pre(n + 1)[n]]
      <3> HIDE DEF pre
      <3> QED
        BY <1>3
    <2> HIDE DEF pre, P
    <2> QED
      BY <2>1, <1>4
  <1> HIDE DEF h
  <1> QED
    BY <1>5, <1>6
-----------------------------------------------------------------------------
(* Runs of a piece of code.                                                *)

Code(z) ==
  /\ Len(z) \in Nat /\ z = [k \in 1..Len(z) |-> z[k]]
  /\ \A k \in 1..Len(z) : Statement(z[k]) /\ Targets(z[k]) \subseteq LabelsOf(z) \cup {done}

Places(z) == 1..(Len(z) + 1)

LEMMA Kinds ==
  ASSUME NEW s, Statement(s)
  PROVE  /\ s.kind \in {"op", "label", "jump", "cjump"}
         /\ s.kind = "op" => s = Op(s.op)
         /\ s.kind = "label" => s = Label(s.label)
         /\ s.kind = "jump" => s = Jump(s.label) /\ Targets(s) = {s.label}
         /\ s.kind = "cjump" => /\ s = Cjump(s.op, s.true, s.false) /\ s.op \in [c : {s.op.c}, neg : BOOLEAN]
                                /\ Targets(s) = {s.true, s.false} /\ \A b \in BOOLEAN : chosen(s, b) \in Targets(s)
  BY DEF Statement, Targets, chosen, Op, Label, Jump, Cjump

LEMMA AtIn ==
  ASSUME NEW z, Code(z), NEW l \in LabelsOf(z) \cup {done}
  PROVE  At(z, l) \in Places(z) /\ (l # done => At(z, l) \in 1..Len(z) /\ z[At(z, l)].kind = "label"
                                               /\ z[At(z, l)].label = l)
  <1>1. CASE l = done
    BY <1>1 DEF At, Code, Places
  <1>2. CASE l # done
    <2>1. DOMAIN z = 1..Len(z)
      BY DEF Code
    <2>2. \E k \in 1..Len(z) : z[k].kind = "label" /\ z[k].label = l
      BY <1>2, <2>1 DEF LabelsOf
    <2>3. labelAt(z, l) \in 1..Len(z) /\ z[labelAt(z, l)].kind = "label" /\ z[labelAt(z, l)].label = l
      BY <2>1, <2>2 DEF labelAt
    <2> QED
      BY <1>2, <2>3 DEF At, Code, Places
  <1> QED
    BY <1>1, <1>2

Seen(z) == {z[k].op : k \in 1..Len(z)} \cup {<<z[k].op.c, b>> : k \in 1..Len(z), b \in BOOLEAN}

States(z) == {r \in [pc : Places(z), seen : Seq(Seen(z))] : Len(r.seen) <= Events}

LEMMA StateTypes ==
  ASSUME NEW z, NEW r \in States(z)
  PROVE  /\ r \in [pc : Places(z), seen : Seq(Seen(z))]
         /\ r.pc \in Places(z) /\ r.seen \in Seq(Seen(z)) /\ Len(r.seen) \in Nat /\ Len(r.seen) <= Events
  <1>1. r \in [pc : Places(z), seen : Seq(Seen(z))] /\ Len(r.seen) <= Events
    BY DEF States
  <1>2. r.seen \in Seq(Seen(z))
    BY <1>1
  <1> QED
    BY <1>1, <1>2

begin == [pc |-> 1, seen |-> << >>]

LEMMA Executes ==
  ASSUME NEW z, Code(z), Events \in Nat, NEW o, NEW r \in States(z)
  PROVE  /\ execute(z, o, r) \in States(z)
         /\ r.pc = Len(z) + 1 \/ Len(r.seen) = Events => execute(z, o, r) = r
         /\ r.pc # Len(z) + 1 /\ Len(r.seen) # Events =>
              \/ execute(z, o, r).seen = r.seen
              \/ \E e \in Seen(z) : execute(z, o, r).seen = Append(r.seen, e)
  <1>1. r \in [pc : Places(z), seen : Seq(Seen(z))] /\ Len(r.seen) <= Events /\ Len(z) \in Nat
        /\ Len(r.seen) \in Nat
    BY DEF States, Code
  <1>2. CASE r.pc > Len(z) \/ Len(r.seen) = Events
    <2>1. execute(z, o, r) = r
      BY <1>2 DEF execute
    <2>2. r.pc = Len(z) + 1 \/ Len(r.seen) = Events
      BY <1>1, <1>2 DEF Places
    <2> QED
      BY <2>1, <2>2
  <1>3. CASE ~ (r.pc > Len(z) \/ Len(r.seen) = Events)
    <2> DEFINE s == z[r.pc]
               b == bit(o, Len(r.seen))
    <2>1. r.pc \in 1..Len(z) /\ Len(r.seen) < Events
      BY <1>1, <1>3 DEF Places
    <2>2. Statement(s) /\ Targets(s) \subseteq LabelsOf(z) \cup {done}
      BY <2>1 DEF Code
    <2>3. b \in BOOLEAN
      BY DEF bit
    <2>4. s.op \in Seen(z) /\ <<s.op.c, b>> \in Seen(z)
      BY <2>1, <2>3 DEF Seen
    <2> HIDE DEF b
    <2>5. CASE s.kind = "label"
      <3>1. execute(z, o, r) = [r EXCEPT !.pc = r.pc + 1]
        BY <1>3, <2>5 DEF execute
      <3>2. r.pc + 1 \in Places(z)
        BY <1>1, <2>1 DEF Places
      <3> QED
        BY <1>1, <2>1, <3>1, <3>2 DEF States
    <2>6. CASE s.kind = "op"
      <3>1. execute(z, o, r) = [pc |-> r.pc + 1, seen |-> Append(r.seen, s.op)]
        BY <1>3, <2>6 DEF execute
      <3>2. r.pc + 1 \in Places(z)
        BY <1>1, <2>1 DEF Places
      <3>3. Append(r.seen, s.op) \in Seq(Seen(z)) /\ Len(Append(r.seen, s.op)) <= Events
        BY <1>1, <2>1, <2>4
      <3> QED
        BY <1>1, <2>1, <2>4, <3>1, <3>2, <3>3 DEF States
    <2>7. CASE s.kind = "jump"
      <3>1. execute(z, o, r) = [r EXCEPT !.pc = At(z, s.label)]
        BY <1>3, <2>7 DEF execute
      <3>2. At(z, s.label) \in Places(z)
        BY <2>2, <2>7, Kinds, AtIn
      <3> QED
        BY <1>1, <2>1, <3>1, <3>2 DEF States
    <2>8. CASE s.kind = "cjump"
      <3>1. execute(z, o, r) = [pc |-> At(z, chosen(s, b)), seen |-> Append(r.seen, <<s.op.c, b>>)]
        BY <1>3, <2>8 DEF execute, b
      <3>2. At(z, chosen(s, b)) \in Places(z)
        BY <2>2, <2>3, <2>8, Kinds, AtIn
      <3>3. Append(r.seen, <<s.op.c, b>>) \in Seq(Seen(z)) /\ Len(Append(r.seen, <<s.op.c, b>>)) <= Events
        BY <1>1, <2>1, <2>4
      <3> QED
        BY <1>1, <2>1, <2>4, <3>1, <3>2, <3>3 DEF States
    <2> QED
      BY <2>2, <2>5, <2>6, <2>7, <2>8, Kinds
  <1> QED
    BY <1>2, <1>3

(* All the states of a run, without a bound.                               *)
Trail(z, o, f) ==
  /\ f \in [Nat -> States(z)] /\ f[0] = begin
  /\ \A n \in Nat : f[n + 1] = execute(z, o, f[n])

LEMMA Trails ==
  ASSUME NEW z, Code(z), Events \in Nat, NEW o
  PROVE  \E f : Trail(z, o, f)
  <1> DEFINE G == [r \in States(z) |-> execute(z, o, r)]
  <1>1. begin \in States(z)
    <2>1. 1 \in Places(z)
      BY DEF Code, Places
    <2>2. << >> \in Seq(Seen(z)) /\ Len(<< >>) = 0
      OBVIOUS
    <2> QED
      BY <2>1, <2>2 DEF begin, States
  <1>2. G \in [States(z) -> States(z)]
    BY Executes
  <1>3. PICK f \in [Nat -> States(z)] : f[0] = begin /\ \A n \in Nat : f[n + 1] = G[f[n]]
    <2> DEFINE A == States(z)
    <2>1. begin \in A /\ G \in [A -> A]
      BY <1>1, <1>2
    <2> HIDE DEF G, A
    <2>2. \E f \in [Nat -> A] : f[0] = begin /\ \A n \in Nat : f[n + 1] = G[f[n]]
      BY <2>1, Stream
    <2> QED
      BY <2>2 DEF A
  <1> QED
    BY <1>3 DEF Trail

LEMMA RunOfTrail ==
  ASSUME NEW z, Code(z), Events \in Nat, NEW o, NEW f, Trail(z, o, f)
  PROVE  /\ longest(z) \in Nat
         /\ Run(z, o) = [seen |-> f[longest(z)].seen,
                         over |-> f[longest(z)].pc > Len(z) /\ Len(f[longest(z)].seen) < Events]
  <1> DEFINE N == longest(z)
             def(g) == [n \in 0..N |-> IF n = 0 THEN begin ELSE execute(z, o, g[n - 1])]
             run == CHOOSE g : g = def(g)
  <1>1. N \in Nat
    BY DEF longest, Code
  <1>2. Run(z, o) = [seen |-> run[N].seen, over |-> run[N].pc > Len(z) /\ Len(run[N].seen) < Events]
    BY Zenon DEF Run, begin
  <1> HIDE DEF N
  <1>3. \E g : g = def(g)
    <2> DEFINE h == [n \in 0..N |-> f[n]]
    <2>1. ASSUME NEW n \in 0..N PROVE h[n] = (IF n = 0 THEN begin ELSE execute(z, o, h[n - 1]))
      <3>1. CASE n = 0
        BY <3>1, <1>1 DEF Trail
      <3>2. CASE n # 0
        <4>1. n - 1 \in Nat /\ n - 1 \in 0..N /\ (n - 1) + 1 = n
          BY <3>2, <1>1
        <4>2. f[n] = execute(z, o, f[n - 1])
          BY <4>1 DEF Trail
        <4> QED
          BY <3>2, <4>1, <4>2
      <3> QED
        BY <3>1, <3>2
    <2>2. h = def(h)
      <3>1. h = [n \in 0..N |-> h[n]]
        BY Zenon
      <3> HIDE DEF h
      <3> QED
        BY <2>1, <3>1
    <2> QED
      BY <2>2
  <1>4. run = def(run)
    <2> HIDE DEF def
    <2> QED
      BY <1>3
  <1>5. ASSUME NEW n \in 0..N PROVE run[n] = (IF n = 0 THEN begin ELSE execute(z, o, run[n - 1]))
    <2> HIDE DEF run
    <2> QED
      BY <1>4
  <1>6. run[N] = f[N]
    <2> HIDE DEF run
    <2> DEFINE S == {n \in Nat : n <= N => run[n] = f[n]}
    <2>1. 0 \in S
      BY <1>1, <1>5 DEF Trail
    <2>2. ASSUME NEW n \in Nat, n \in S PROVE n + 1 \in S
      <3>1. CASE n + 1 <= N
        <4>1. n + 1 \in 0..N /\ n + 1 # 0 /\ (n + 1) - 1 = n /\ run[n] = f[n]
          BY <1>1, <2>2, <3>1
        <4>2. run[n + 1] = execute(z, o, run[n])
          BY <1>5, <4>1
        <4> QED
          BY <4>1, <4>2 DEF Trail
      <3>2. CASE ~ (n + 1 <= N)
        BY <3>2
      <3> QED
        BY <3>1, <3>2
    <2>3. N \in S
      <3> HIDE DEF S
      <3> QED
        BY <1>1, <2>1, <2>2, Induction
    <2> QED
      BY <1>1, <2>3
  <1> HIDE DEF run
  <1> QED
    BY <1>1, <1>2, <1>6 DEF N
(* What has been seen stays, and a run that is over stays over.            *)
LEMMA Grows ==
  ASSUME NEW z, Code(z), Events \in Nat, NEW o, NEW f, Trail(z, o, f),
         NEW m \in Nat, NEW n \in Nat, m <= n
  PROVE  /\ Len(f[m].seen) <= Len(f[n].seen)
         /\ \A i \in 1..Len(f[m].seen) : f[n].seen[i] = f[m].seen[i]
         /\ f[m].pc = Len(z) + 1 \/ Len(f[m].seen) = Events => f[n] = f[m]
  <1> DEFINE S == {k \in Nat : /\ Len(f[m].seen) <= Len(f[m + k].seen)
                               /\ \A i \in 1..Len(f[m].seen) : f[m + k].seen[i] = f[m].seen[i]
                               /\ f[m].pc = Len(z) + 1 \/ Len(f[m].seen) = Events => f[m + k] = f[m]}
  <1>1. \A k \in Nat : /\ f[k] \in States(z) /\ f[k + 1] = execute(z, o, f[k])
                       /\ f[k].seen \in Seq(Seen(z)) /\ Len(f[k].seen) \in Nat
    <2> SUFFICES ASSUME NEW k \in Nat
                 PROVE  /\ f[k] \in States(z) /\ f[k + 1] = execute(z, o, f[k])
                        /\ f[k].seen \in Seq(Seen(z)) /\ Len(f[k].seen) \in Nat
      OBVIOUS
    <2>1. f[k] \in States(z) /\ f[k + 1] = execute(z, o, f[k])
      BY DEF Trail
    <2> QED
      BY <2>1, StateTypes
  <1>2. 0 \in S
    BY <1>1
  <1>3. ASSUME NEW k \in Nat, k \in S PROVE k + 1 \in S
    <2>1. m + k \in Nat /\ m + (k + 1) = (m + k) + 1
      OBVIOUS
    <2> DEFINE r == f[m + k]
               q == f[(m + k) + 1]
    <2>2. r \in States(z) /\ q \in States(z) /\ q = execute(z, o, r) /\ r.seen \in Seq(Seen(z))
          /\ q.seen \in Seq(Seen(z)) /\ Len(r.seen) \in Nat /\ f[m].seen \in Seq(Seen(z))
      <3>1. f[m + k] \in States(z) /\ f[(m + k) + 1] \in States(z)
            /\ f[(m + k) + 1] = execute(z, o, f[m + k]) /\ f[m] \in States(z)
        <4> DEFINE h == m + k
        <4>1. h \in Nat /\ h + 1 \in Nat
          BY <2>1
        <4> HIDE DEF h, r, q, S
        <4>2. f[h] \in States(z) /\ f[h + 1] \in States(z) /\ f[h + 1] = execute(z, o, f[h]) /\ f[m] \in States(z)
          BY <4>1, <1>1
        <4> QED
          BY <4>2 DEF h
      <3> QED
        BY <3>1, StateTypes
    <2>3. /\ r.pc = Len(z) + 1 \/ Len(r.seen) = Events => q = r
          /\ r.pc # Len(z) + 1 /\ Len(r.seen) # Events =>
               q.seen = r.seen \/ \E e \in Seen(z) : q.seen = Append(r.seen, e)
      <3> HIDE DEF r, q
      <3> QED
        BY <2>2, Executes
    <2>4. Len(r.seen) <= Len(q.seen) /\ \A i \in 1..Len(r.seen) : q.seen[i] = r.seen[i]
      <3> HIDE DEF r, q, S
      <3>1. q.seen = r.seen \/ \E e \in Seen(z) : q.seen = Append(r.seen, e)
        BY <2>3
      <3>2. CASE q.seen = r.seen
        <4>1. Len(r.seen) \in Nat
          BY <2>2
        <4> QED
          BY <3>2, <4>1
      <3>3. ASSUME NEW e \in Seen(z), q.seen = Append(r.seen, e)
            PROVE  Len(r.seen) <= Len(q.seen) /\ \A i \in 1..Len(r.seen) : q.seen[i] = r.seen[i]
        <4>1. r.seen \in Seq(Seen(z)) /\ Len(r.seen) \in Nat
          BY <2>2
        <4>2. Len(Append(r.seen, e)) = Len(r.seen) + 1
              /\ \A i \in 1..Len(r.seen) : Append(r.seen, e)[i] = r.seen[i]
          BY <4>1
        <4> QED
          BY <3>3, <4>1, <4>2
      <3> QED
        BY <3>1, <3>2, <3>3
    <2>5. /\ Len(f[m].seen) <= Len(r.seen) /\ \A i \in 1..Len(f[m].seen) : r.seen[i] = f[m].seen[i]
          /\ f[m].pc = Len(z) + 1 \/ Len(f[m].seen) = Events => r = f[m]
      BY <1>3
    <2>6. f[m + (k + 1)] = q
      BY <2>1
    <2> HIDE DEF r, q
    <2>7. /\ Len(f[m].seen) <= Len(q.seen) /\ \A i \in 1..Len(f[m].seen) : q.seen[i] = f[m].seen[i]
          /\ f[m].pc = Len(z) + 1 \/ Len(f[m].seen) = Events => q = f[m]
      <3> DEFINE p == f[m]
      <3>1. Len(p.seen) \in Nat /\ Len(q.seen) \in Nat
        <4>1. p \in States(z)
          BY <1>1
        <4> QED
          BY <2>2, <4>1, StateTypes
      <3>2. \A i \in 1..Len(p.seen) : i \in 1..Len(r.seen)
        BY <2>2, <2>5, <3>1
      <3>3. Len(p.seen) <= Len(q.seen)
        BY <2>2, <2>4, <2>5, <3>1
      <3>4. \A i \in 1..Len(p.seen) : q.seen[i] = p.seen[i]
        BY <2>4, <2>5, <3>2
      <3>5. p.pc = Len(z) + 1 \/ Len(p.seen) = Events => q = p
        BY <2>3, <2>5
      <3> QED
        BY <3>3, <3>4, <3>5
    <2> QED
      BY <2>6, <2>7
  <1>4. n - m \in S
    <2>1. n - m \in Nat
      OBVIOUS
    <2> HIDE DEF S
    <2> QED
      BY <1>2, <1>3, <2>1, Induction
  <1>5. m + (n - m) = n
    OBVIOUS
  <1> QED
    BY <1>4, <1>5

(* Nothing more happens after the n-th step.                               *)
Settled(z, f, n) ==
  \A m \in Nat : n <= m => f[m].seen = f[n].seen /\ (f[m].pc = Len(z) + 1 <=> f[n].pc = Len(z) + 1)

LEMMA SettledLater ==
  ASSUME NEW z, NEW f, NEW n \in Nat, NEW m \in Nat, n <= m, Settled(z, f, n)
  PROVE  Settled(z, f, m)
  BY DEF Settled

(* A state that comes again comes again and again.                         *)
LEMMA Circle ==
  ASSUME NEW z, Code(z), Events \in Nat, NEW o, NEW f, Trail(z, o, f),
         NEW i \in Nat, NEW j \in Nat, i < j, f[i] = f[j],
         \A k \in i..j : f[k].seen = f[i].seen /\ f[k].pc # Len(z) + 1
  PROVE  Settled(z, f, i)
  <1> DEFINE S == {k \in Nat : \E h \in i..(j - 1) : f[i + k] = f[h]}
  <1>1. 0 \in S
    <2>1. i \in i..(j - 1) /\ i + 0 = i
      OBVIOUS
    <2> QED
      BY <2>1
  <1>2. ASSUME NEW k \in Nat, k \in S PROVE k + 1 \in S
    <2>1. PICK h \in i..(j - 1) : f[i + k] = f[h]
      BY <1>2
    <2>2. h \in Nat /\ i + k \in Nat /\ i + (k + 1) = (i + k) + 1
      BY <2>1
    <2>3. f[i + (k + 1)] = f[h + 1]
      BY <2>1, <2>2 DEF Trail
    <2>4. CASE h + 1 = j
      <3>1. f[i + (k + 1)] = f[i] /\ i \in i..(j - 1)
        BY <2>3, <2>4
      <3> QED
        BY <3>1
    <2>5. CASE h + 1 # j
      <3>1. h + 1 \in i..(j - 1)
        BY <2>5
      <3> QED
        BY <2>3, <3>1
    <2> QED
      BY <2>4, <2>5
  <1>3. ASSUME NEW m \in Nat, i <= m PROVE f[m].seen = f[i].seen /\ f[m].pc # Len(z) + 1
    <2>1. m - i \in Nat /\ i + (m - i) = m
      BY <1>3
    <2>2. m - i \in S
      <3> HIDE DEF S
      <3> QED
        BY <1>1, <1>2, <2>1, Induction
    <2>3. PICK h \in i..(j - 1) : f[m] = f[h]
      BY <2>1, <2>2
    <2>4. h \in i..j
      OBVIOUS
    <2> QED
      BY <2>3, <2>4
  <1>4. i \in i..j
    OBVIOUS
  <1> QED
    BY <1>3, <1>4 DEF Settled

(* In as many steps as there are places something happens, or nothing does *)
(* any more.                                                               *)
LEMMA Happens ==
  ASSUME NEW z, Code(z), Events \in Nat, NEW o, NEW f, Trail(z, o, f), NEW n \in Nat
  PROVE  \/ Settled(z, f, n + (Len(z) + 1))
         \/ Len(f[n + (Len(z) + 1)].seen) > Len(f[n].seen)
  <1> DEFINE L == Len(z) + 1
  <1>1. L \in Nat /\ n + L \in Nat /\ Len(z) \in Nat
    BY DEF Code
  <1>2. \A k \in Nat : f[k] \in [pc : Places(z), seen : Seq(Seen(z))] /\ Len(f[k].seen) \in Nat
    <2> SUFFICES ASSUME NEW k \in Nat
                 PROVE  f[k] \in [pc : Places(z), seen : Seq(Seen(z))] /\ Len(f[k].seen) \in Nat
      OBVIOUS
    <2>1. f[k] \in States(z)
      BY DEF Trail
    <2> QED
      BY <2>1, StateTypes
  <1>3. CASE \E k \in n..(n + L) : f[k].pc = L
    <2>1. PICK k \in n..(n + L) : f[k].pc = L
      BY <1>3
    <2>2. k \in Nat /\ k <= n + L
      BY <1>1
    <2>3. \A m \in Nat : k <= m => f[m] = f[k]
      BY <2>1, <2>2, Grows
    <2>4. Settled(z, f, k)
      BY <2>2, <2>3 DEF Settled
    <2> QED
      BY <1>1, <2>2, <2>4, SettledLater
  <1>4. CASE Len(f[n + L].seen) = Len(f[n].seen) /\ ~ \E k \in n..(n + L) : f[k].pc = L
    <2>1. ASSUME NEW k \in n..(n + L) PROVE f[k].seen = f[n].seen
      <3>1. k \in Nat /\ n <= k /\ k <= n + L
        BY <1>1
      <3>2. Len(f[n].seen) <= Len(f[k].seen) /\ Len(f[k].seen) <= Len(f[n + L].seen)
        BY <1>1, <3>1, Grows
      <3>3. Len(f[k].seen) = Len(f[n].seen)
        BY <1>1, <1>2, <1>4, <3>1, <3>2
      <3>4. \A i \in 1..Len(f[n].seen) : f[k].seen[i] = f[n].seen[i]
        BY <3>1, Grows
      <3>5. f[k].seen \in Seq(Seen(z)) /\ f[n].seen \in Seq(Seen(z))
        BY <1>2, <3>1
      <3> HIDE DEF L
      <3> QED
        BY <3>3, <3>4, <3>5, SeqEqual
    <2> DEFINE h == [k \in n..(n + Len(z)) |-> f[k].pc]
    <2>2. \E i, j \in n..(n + Len(z)) : i # j /\ h[i] = h[j]
      <3>1. h \in [n..(n + Len(z)) -> 1..Len(z)]
        <4> SUFFICES ASSUME NEW k \in n..(n + Len(z)) PROVE f[k].pc \in 1..Len(z)
          OBVIOUS
        <4>1. k \in Nat /\ k \in n..(n + L)
          BY <1>1
        <4>2. f[k].pc \in 1..(Len(z) + 1) /\ f[k].pc # Len(z) + 1
          BY <1>2, <1>4, <4>1 DEF Places
        <4> QED
          BY <1>1, <4>2
      <3>2. IsFiniteSet(n..(n + Len(z))) /\ Cardinality(n..(n + Len(z))) = Len(z) + 1
            /\ IsFiniteSet(1..Len(z)) /\ Cardinality(1..Len(z)) = Len(z)
        <4>1. n \in Int /\ n + Len(z) \in Int /\ 1 \in Int /\ Len(z) \in Int /\ n <= n + Len(z)
              /\ (n + Len(z)) - n + 1 = Len(z) + 1
          BY <1>1
        <4>2. IsFiniteSet(n..(n + Len(z))) /\ Cardinality(n..(n + Len(z))) = (n + Len(z)) - n + 1
          BY <4>1, FS_Interval
        <4>3. IsFiniteSet(1..Len(z)) /\ Cardinality(1..Len(z)) = IF 1 > Len(z) THEN 0 ELSE Len(z) - 1 + 1
          BY <4>1, FS_Interval
        <4> QED
          BY <1>1, <4>1, <4>2, <4>3
      <3>3. Cardinality(1..Len(z)) < Cardinality(n..(n + Len(z)))
        BY <1>1, <3>2
      <3> HIDE DEF h, L
      <3> QED
        BY <3>1, <3>2, <3>3, FS_PigeonHole
    <2>3. PICK i \in n..(n + Len(z)), j \in n..(n + Len(z)) : i < j /\ f[i].pc = f[j].pc
      <3>1. PICK i \in n..(n + Len(z)), j \in n..(n + Len(z)) : i # j /\ f[i].pc = f[j].pc
        BY <2>2
      <3>2. i < j \/ j < i
        BY <1>1, <3>1
      <3> QED
        BY <3>1, <3>2
    <2>4. i \in Nat /\ j \in Nat /\ i \in n..(n + L) /\ j \in n..(n + L) /\ i <= n + L
          /\ \A k \in i..j : k \in n..(n + L)
      BY <1>1, <2>3
    <2>5. f[i] = f[j]
      <3>1. f[i] \in [pc : Places(z), seen : Seq(Seen(z))] /\ f[j] \in [pc : Places(z), seen : Seq(Seen(z))]
        BY <1>2, <2>4
      <3>2. f[i].seen = f[j].seen
        BY <2>1, <2>4
      <3> QED
        BY <2>3, <3>1, <3>2
    <2>6. \A k \in i..j : f[k].seen = f[i].seen /\ f[k].pc # Len(z) + 1
      BY <1>4, <2>1, <2>4
    <2>7. Settled(z, f, i)
      BY <2>3, <2>4, <2>5, <2>6, Circle
    <2> QED
      BY <1>1, <2>4, <2>7, SettledLater
  <1>5. CASE Len(f[n + L].seen) # Len(f[n].seen)
    <2>1. Len(f[n].seen) <= Len(f[n + L].seen)
      BY <1>1, Grows
    <2> QED
      BY <1>1, <1>2, <1>5, <2>1
  <1> QED
    BY <1>3, <1>4, <1>5

(* The bound of Run is no bound.                                           *)
LEMMA Settles ==
  ASSUME NEW z, Code(z), Events \in Nat, NEW o, NEW f, Trail(z, o, f)
  PROVE  Settled(z, f, longest(z))
  <1> DEFINE L == Len(z) + 1
             S == {k \in Nat : Settled(z, f, k * L) \/ Len(f[k * L].seen) >= k}
  <1>1. L \in Nat
    BY DEF Code
  <1>2. \A k \in Nat : Len(f[k].seen) \in Nat /\ Len(f[k].seen) <= Events
    BY DEF Trail, States
  <1> HIDE DEF L
  <1>3. 0 \in S
    BY <1>1, <1>2
  <1>4. ASSUME NEW k \in Nat, k \in S PROVE k + 1 \in S
    <2>1. k * L \in Nat /\ (k + 1) * L = k * L + L /\ (k + 1) * L \in Nat /\ k * L <= (k + 1) * L
      BY <1>1
    <2> DEFINE n == k * L
    <2>2. n \in Nat /\ (k + 1) * L = n + L /\ n <= n + L /\ n + L \in Nat
      BY <1>1, <2>1
    <2>3. Settled(z, f, n) \/ Len(f[n].seen) >= k
      BY <1>4
    <2>4. Settled(z, f, n + L) \/ Len(f[n + L].seen) > Len(f[n].seen)
      BY <2>2, Happens DEF L
    <2> HIDE DEF n
    <2>5. Settled(z, f, n) => Settled(z, f, n + L)
      BY <2>2, SettledLater
    <2>6. Settled(z, f, n + L) \/ Len(f[n + L].seen) >= k + 1
      BY <1>2, <2>2, <2>3, <2>4, <2>5
    <2> QED
      BY <2>2, <2>6
  <1>5. Events \in S
    <2> HIDE DEF S
    <2> QED
      BY <1>3, <1>4, Induction
  <1>6. Settled(z, f, Events * L) \/ Len(f[Events * L].seen) >= Events
    BY <1>5
  <1>7. Events * L \in Nat /\ longest(z) = Events * L
    BY <1>1 DEF longest, L
  <1> DEFINE N == Events * L
  <1>8. N \in Nat /\ longest(z) = N /\ (Settled(z, f, N) \/ Len(f[N].seen) >= Events)
    BY <1>6, <1>7
  <1> HIDE DEF N
  <1>9. ASSUME Len(f[N].seen) >= Events PROVE Settled(z, f, N)
    <2>1. Len(f[N].seen) = Events
      BY <1>2, <1>8, <1>9
    <2>2. \A m \in Nat : N <= m => f[m] = f[N]
      BY <1>8, <2>1, Grows
    <2> QED
      BY <2>2 DEF Settled
  <1> QED
    BY <1>8, <1>9

-----------------------------------------------------------------------------
(* Where labels and jumps lead, which nobody sees.                         *)

Silent(z, p, q) ==
  /\ p \in 1..Len(z)
  /\ \/ z[p].kind = "label" /\ q = p + 1
     \/ z[p].kind = "jump" /\ q = At(z, z[p].label)

Onward(z, S) == \A x \in S : \A y \in Places(z) : Silent(z, x, y) => y \in S

Leads(z, p, q) == \A S : p \in S /\ Onward(z, S) => q \in S

LEMMA LeadsSelf == ASSUME NEW z, NEW p PROVE Leads(z, p, p)
  BY DEF Leads

LEMMA LeadsOn ==
  ASSUME NEW z, NEW p, NEW q, NEW r, Leads(z, p, q), Leads(z, q, r)
  PROVE  Leads(z, p, r)
  BY DEF Leads

LEMMA LeadsStep ==
  ASSUME NEW z, NEW p, NEW q \in Places(z), Silent(z, p, q)
  PROVE  Leads(z, p, q)
  BY DEF Leads, Onward

LEMMA LeadsIn ==
  ASSUME NEW z, NEW p \in Places(z), NEW q, Leads(z, p, q)
  PROVE  q \in Places(z)
  BY DEF Leads, Onward

(* Unless p is the place, one step is taken.                               *)
LEMMA LeadsFrom ==
  ASSUME NEW z, NEW p, NEW r, Leads(z, p, r), p # r
  PROVE  \E q \in Places(z) : Silent(z, p, q) /\ Leads(z, q, r)
  <1> DEFINE S == {p} \cup {x \in Places(z) : \E q \in Places(z) : Silent(z, p, q) /\ Leads(z, q, x)}
  <1>1. ASSUME NEW x \in S, NEW y \in Places(z), Silent(z, x, y) PROVE y \in S
    <2>1. CASE x = p
      BY <1>1, <2>1, LeadsSelf
    <2>2. CASE x # p
      <3>1. PICK q \in Places(z) : Silent(z, p, q) /\ Leads(z, q, x)
        BY <2>2
      <3>2. Leads(z, x, y)
        BY <1>1, LeadsStep
      <3>3. Leads(z, q, y)
        BY <3>1, <3>2, LeadsOn
      <3> QED
        BY <3>1, <3>3
    <2> QED
      BY <2>1, <2>2
  <1>2. r \in S
    <2>1. p \in S
      OBVIOUS
    <2> HIDE DEF S
    <2> QED
      BY <1>1, <2>1 DEF Leads, Onward
  <1> QED
    BY <1>2

LEMMA SilentOne ==
  ASSUME NEW z, NEW p, NEW q, NEW r, Silent(z, p, q), Silent(z, p, r)
  PROVE  q = r
  BY DEF Silent

Reaches(f, s, q) == \E m \in Nat : f[m].pc = q /\ f[m].seen = s

(* What is executed follows it, and nothing is seen.                       *)
LEMMA Follows ==
  ASSUME NEW z, Code(z), Events \in Nat, NEW o, NEW f, Trail(z, o, f), NEW n \in Nat,
         NEW p, f[n].pc = p, NEW s, f[n].seen = s, Len(s) < Events, NEW q, Leads(z, p, q)
  PROVE  Reaches(f, s, q)
  <1> DEFINE S == {x \in Places(z) : \E m \in Nat : n <= m /\ f[m].pc = x /\ f[m].seen = f[n].seen}
  <1>1. f[n].pc \in S
    <2>1. f[n].pc \in Places(z) /\ n <= n
      BY StateTypes DEF Trail
    <2> QED
      BY <2>1
  <1>2. ASSUME NEW x \in S, NEW y \in Places(z), Silent(z, x, y) PROVE y \in S
    <2>1. PICK m \in Nat : n <= m /\ f[m].pc = x /\ f[m].seen = f[n].seen
      OBVIOUS
    <2>2. f[m + 1] = execute(z, o, f[m]) /\ f[m] \in States(z) /\ m + 1 \in Nat /\ n <= m + 1
      <3>1. f[m + 1] = execute(z, o, f[m]) /\ f[m] \in States(z)
        BY Zenon DEF Trail
      <3>2. m + 1 \in Nat /\ n <= m + 1
        BY <2>1
      <3> QED
        BY <3>1, <3>2
    <2>3. execute(z, o, f[m]).pc = y /\ execute(z, o, f[m]).seen = f[m].seen
      <3> DEFINE r == f[m]
      <3>1. r \in [pc : Places(z), seen : Seq(Seen(z))] /\ Len(r.seen) < Events /\ r.pc = x
            /\ Len(r.seen) \in Nat /\ x \in 1..Len(z) /\ Len(z) \in Nat
        BY <1>2, <2>1, <2>2, StateTypes DEF Silent, Code
      <3> HIDE DEF r
      <3>2. CASE z[x].kind = "label" /\ y = x + 1
        <4>1. execute(z, o, r) = [r EXCEPT !.pc = x + 1]
          BY <3>1, <3>2 DEF execute
        <4> QED
          BY <3>1, <3>2, <4>1 DEF r
      <3>3. CASE z[x].kind = "jump" /\ y = At(z, z[x].label)
        <4>1. execute(z, o, r) = [r EXCEPT !.pc = y]
          BY <3>1, <3>3 DEF execute
        <4> QED
          BY <3>1, <3>3, <4>1 DEF r
      <3> QED
        BY <1>2, <3>2, <3>3 DEF Silent
    <2> QED
      BY <2>1, <2>2, <2>3
  <1>3. q \in S
    <2> HIDE DEF S
    <2> QED
      BY <1>1, <1>2 DEF Leads, Onward
  <1> QED
    BY <1>3 DEF Reaches

-----------------------------------------------------------------------------
(* Blocks, and code in which they are laid out.                            *)

Blocks(B) ==
  /\ Len(B) \in Nat \ {0}
  /\ \A k \in 1..Len(B) :
       /\ Len(B[k]) \in Nat /\ 2 <= Len(B[k])
       /\ \A j \in 1..Len(B[k]) : Statement(B[k][j])
       /\ B[k][1].kind = "label" /\ B[k][1].label # done
       /\ B[k][Len(B[k])].kind \in {"jump", "cjump"}
       /\ Targets(B[k][Len(B[k])]) \subseteq {B[h][1].label : h \in 1..Len(B)} \cup {done}
       /\ \A j \in 2..(Len(B[k]) - 1) : B[k][j].kind = "op"
  /\ \A j, k \in 1..Len(B) : B[j][1].label = B[k][1].label => j = k

(* The place of a label: where the block is entered.                       *)
Goal(z, B, ent, l, q) ==
  \/ l = done /\ q = Len(z) + 1
  \/ \E k \in 1..Len(B) : l = B[k][1].label /\ q = ent[k]

(* What is at the end p of a block does what its last statement s says.    *)
EndOf(z, B, ent, s, p) ==
  /\ p \in Places(z)
  /\ s.kind = "jump" =>
       \E q : /\ Goal(z, B, ent, s.label, q) /\ Leads(z, p, q)
              /\ p = q /\ q # Len(z) + 1 => z[q].kind = "label"
  /\ s.kind = "cjump" =>
       /\ p \in 1..Len(z) /\ z[p].kind = "cjump" /\ z[p].op.c = s.op.c
       /\ \A b \in BOOLEAN : \E q : /\ Goal(z, B, ent, chosen(s, b), q)
                                    /\ Leads(z, At(z, chosen(z[p], b)), q)

(* The j-th statement of block k is at pos[k] + j; it is entered at its    *)
(* label, or, if it has none, after it.                                    *)
Lays(z, B, pos, ent) ==
  /\ Code(z)
  /\ \A k \in 1..Len(B) :
       /\ pos[k] \in Int /\ ent[k] \in 1..Len(z)
       /\ ent[k] = IF z[ent[k]].kind = "label" THEN pos[k] + 1 ELSE pos[k] + 2
       /\ \A j \in 2..(Len(B[k]) - 1) : pos[k] + j \in 1..Len(z) /\ z[pos[k] + j] = B[k][j]
       /\ EndOf(z, B, ent, B[k][Len(B[k])], pos[k] + Len(B[k]))
  /\ Leads(z, 1, ent[1])

(* Two layouts of the same blocks at the same point: inside a block, or on *)
(* the way to the same place.                                              *)
Inside(B, px, py, p, q) ==
  \E k \in 1..Len(B) : \E j \in 2..Len(B[k]) : p = px[k] + j /\ q = py[k] + j

Toward(x, y, B, ex, ey, p, q) ==
  \/ Leads(x, p, Len(x) + 1) /\ Leads(y, q, Len(y) + 1)
  \/ \E k \in 1..Len(B) : Leads(x, p, ex[k]) /\ Leads(y, q, ey[k])

Together(x, y, B, px, ex, py, ey, p, q) ==
  Inside(B, px, py, p, q) \/ Toward(x, y, B, ex, ey, p, q)

(* y does, perhaps after steps nobody sees, what x does in one step.       *)
Answers(x, y, B, px, ex, py, ey, o, p, q, s) ==
  \E u \in Places(y) :
    /\ Leads(y, q, u)
    /\ LET r == execute(x, o, [pc |-> p, seen |-> s])
           t == execute(y, o, [pc |-> u, seen |-> s])
       IN  \/ r.seen = s /\ Together(x, y, B, px, ex, py, ey, r.pc, u)
           \/ r.seen = t.seen /\ Together(x, y, B, px, ex, py, ey, r.pc, t.pc)

LEMMA SameGoal ==
  ASSUME NEW x, NEW y, NEW B, Blocks(B), NEW ex, NEW ey, NEW l, NEW p, NEW q, NEW u, NEW v,
         Goal(x, B, ex, l, u), Goal(y, B, ey, l, v), Leads(x, p, u), Leads(y, q, v)
  PROVE  Toward(x, y, B, ex, ey, p, q)
  <1>1. CASE l = done
    <2>1. \A k \in 1..Len(B) : l # B[k][1].label
      BY <1>1 DEF Blocks
    <2> QED
      BY <2>1 DEF Goal, Toward
  <1>2. CASE l # done
    <2>1. PICK k \in 1..Len(B) : l = B[k][1].label /\ u = ex[k]
      BY <1>2 DEF Goal
    <2>2. PICK h \in 1..Len(B) : l = B[h][1].label /\ v = ey[h]
      BY <1>2 DEF Goal
    <2>3. h = k
      BY <2>1, <2>2 DEF Blocks
    <2> QED
      BY <2>1, <2>2, <2>3 DEF Toward
  <1> QED
    BY <1>1, <1>2

(* One silent step of x on its way.                                        *)
LEMMA StepOnWay ==
  ASSUME NEW x, Code(x), NEW o, NEW p, NEW r \in Places(x), NEW s, Len(s) # Events, Silent(x, p, r)
  PROVE  execute(x, o, [pc |-> p, seen |-> s]) = [pc |-> r, seen |-> s]
  <1>1. p \in 1..Len(x) /\ ~ (p > Len(x))
    BY DEF Silent, Code
  <1>2. CASE x[p].kind = "label" /\ r = p + 1
    BY <1>1, <1>2 DEF execute
  <1>3. CASE x[p].kind = "jump" /\ r = At(x, x[p].label)
    BY <1>1, <1>3 DEF execute
  <1> QED
    BY <1>2, <1>3 DEF Silent

LEMMA OpEvent ==
  ASSUME NEW z, Code(z), NEW o, NEW p \in 1..Len(z), NEW s, Len(s) # Events, z[p].kind = "op"
  PROVE  execute(z, o, [pc |-> p, seen |-> s]) = [pc |-> p + 1, seen |-> Append(s, z[p].op)]
  <1>1. ~ (p > Len(z))
    BY DEF Code
  <1> QED
    BY <1>1 DEF execute

LEMMA BranchEvent ==
  ASSUME NEW z, Code(z), NEW o, NEW p \in 1..Len(z), NEW s, Len(s) # Events, z[p].kind = "cjump"
  PROVE  LET b == bit(o, Len(s))
         IN  /\ b \in BOOLEAN
             /\ execute(z, o, [pc |-> p, seen |-> s])
                  = [pc |-> At(z, chosen(z[p], b)), seen |-> Append(s, <<z[p].op.c, b>>)]
  <1>1. ~ (p > Len(z))
    BY DEF Code
  <1>2. bit(o, Len(s)) \in BOOLEAN
    BY DEF bit
  <1> QED
    BY <1>1, <1>2 DEF execute

(* One block in a layout.                                                  *)
LEMMA Laid ==
  ASSUME NEW z, NEW B, Blocks(B), NEW pos, NEW ent, Lays(z, B, pos, ent), NEW k \in 1..Len(B)
  PROVE  /\ Code(z) /\ Len(z) \in Nat
         /\ pos[k] \in Int /\ ent[k] \in 1..Len(z) /\ ent[k] \in Places(z)
         /\ Len(B[k]) \in Nat /\ 2 <= Len(B[k])
         /\ pos[k] + 2 \in Places(z)
         /\ Leads(z, ent[k], pos[k] + 2)
         /\ z[ent[k]].kind # "label" => ent[k] = pos[k] + 2
         /\ z[ent[k]].kind = "label" => Silent(z, ent[k], pos[k] + 2)
  <1>1. /\ Code(z) /\ Len(z) \in Nat
        /\ pos[k] \in Int /\ ent[k] \in 1..Len(z) /\ Len(B[k]) \in Nat /\ 2 <= Len(B[k])
        /\ ent[k] = IF z[ent[k]].kind = "label" THEN pos[k] + 1 ELSE pos[k] + 2
    BY DEF Lays, Blocks, Code
  <1>2. pos[k] + 2 \in Places(z) /\ ent[k] \in Places(z)
    BY <1>1 DEF Places
  <1>3. z[ent[k]].kind = "label" => Silent(z, ent[k], pos[k] + 2)
    BY <1>1 DEF Silent
  <1>4. Leads(z, ent[k], pos[k] + 2)
    BY <1>1, <1>2, <1>3, LeadsStep, LeadsSelf
  <1> QED
    BY <1>1, <1>2, <1>3, <1>4

LEMMA AtEntry ==
  ASSUME NEW x, NEW y, NEW B, Blocks(B), NEW px, NEW ex, NEW py, NEW ey,
         Lays(x, B, px, ex), Lays(y, B, py, ey), NEW o, NEW s, Len(s) # Events,
         NEW k \in 1..Len(B), x[ex[k]].kind = "label", NEW q, Leads(y, q, ey[k])
  PROVE  Answers(x, y, B, px, ex, py, ey, o, ex[k], q, s)
  <1>1. /\ Code(x) /\ px[k] + 2 \in Places(x) /\ Silent(x, ex[k], px[k] + 2)
        /\ Len(B[k]) \in Nat /\ 2 <= Len(B[k])
    BY Laid
  <1>2. py[k] + 2 \in Places(y) /\ Leads(y, ey[k], py[k] + 2)
    BY Laid
  <1>3. Leads(y, q, py[k] + 2)
    BY <1>2, LeadsOn
  <1>4. execute(x, o, [pc |-> ex[k], seen |-> s]) = [pc |-> px[k] + 2, seen |-> s]
    BY <1>1, StepOnWay
  <1>5. Together(x, y, B, px, ex, py, ey, px[k] + 2, py[k] + 2)
    <2>1. 2 \in 2..Len(B[k])
      BY <1>1
    <2> QED
      BY <2>1 DEF Together, Inside
  <1> QED
    BY <1>2, <1>3, <1>4, <1>5 DEF Answers

LEMMA AtOp ==
  ASSUME NEW x, NEW y, NEW B, Blocks(B), NEW px, NEW ex, NEW py, NEW ey,
         Lays(x, B, px, ex), Lays(y, B, py, ey), NEW o, NEW s, Len(s) # Events,
         NEW k \in 1..Len(B), NEW j \in 2..(Len(B[k]) - 1)
  PROVE  Answers(x, y, B, px, ex, py, ey, o, px[k] + j, py[k] + j, s)
  <1> DEFINE p == px[k] + j
             q == py[k] + j
  <1>1. /\ Code(x) /\ Code(y) /\ p \in 1..Len(x) /\ q \in 1..Len(y)
        /\ x[p] = B[k][j] /\ y[q] = B[k][j] /\ B[k][j].kind = "op"
        /\ px[k] \in Int /\ py[k] \in Int /\ Len(B[k]) \in Nat
        /\ x[p].kind = "op" /\ y[q].kind = "op" /\ x[p].op = y[q].op
    <2>1. B[k][j].kind = "op" /\ Len(B[k]) \in Nat
      BY DEF Blocks
    <2>2. Code(x) /\ px[k] \in Int /\ p \in 1..Len(x) /\ x[p] = B[k][j]
      BY DEF Lays
    <2>3. Code(y) /\ py[k] \in Int /\ q \in 1..Len(y) /\ y[q] = B[k][j]
      BY DEF Lays
    <2> QED
      BY <2>1, <2>2, <2>3
  <1>0. Len(y) \in Nat
    BY <1>1 DEF Code
  <1>2. /\ p + 1 = px[k] + (j + 1) /\ q + 1 = py[k] + (j + 1) /\ j + 1 \in 2..Len(B[k])
        /\ q \in Places(y)
    <2>1. j \in Int /\ j + 1 \in 2..Len(B[k])
      BY <1>1
    <2>2. p + 1 = px[k] + (j + 1) /\ q + 1 = py[k] + (j + 1)
      <3>1. px[k] \in Int /\ py[k] \in Int /\ j \in Int
        BY <1>1
      <3> QED
        BY <3>1
    <2>3. q \in Places(y)
      BY <1>0, <1>1 DEF Places
    <2> QED
      BY <2>1, <2>2, <2>3
  <1>3. Together(x, y, B, px, ex, py, ey, p + 1, q + 1)
    BY <1>2 DEF Together, Inside
  <1> HIDE DEF p, q
  <1>4. execute(x, o, [pc |-> p, seen |-> s]) = [pc |-> p + 1, seen |-> Append(s, x[p].op)]
        /\ execute(y, o, [pc |-> q, seen |-> s]) = [pc |-> q + 1, seen |-> Append(s, y[q].op)]
    BY <1>1, OpEvent
  <1> DEFINE r == execute(x, o, [pc |-> p, seen |-> s])
             t == execute(y, o, [pc |-> q, seen |-> s])
  <1>6. r.seen = t.seen /\ r.pc = p + 1 /\ t.pc = q + 1
    <2>1. r.seen = Append(s, x[p].op) /\ t.seen = Append(s, y[q].op) /\ r.pc = p + 1 /\ t.pc = q + 1
      BY <1>4
    <2> HIDE DEF r, t
    <2> QED
      BY <1>1, <2>1
  <1>7. Leads(y, q, q)
    BY LeadsSelf
  <1>8. r.seen = t.seen /\ Together(x, y, B, px, ex, py, ey, r.pc, t.pc)
    BY <1>3, <1>6
  <1>5. Answers(x, y, B, px, ex, py, ey, o, p, q, s)
    BY <1>2, <1>7, <1>8 DEF Answers
  <1> QED
    BY <1>5 DEF p, q

LEMMA AtBranch ==
  ASSUME NEW x, NEW y, NEW B, Blocks(B), NEW px, NEW ex, NEW py, NEW ey,
         Lays(x, B, px, ex), Lays(y, B, py, ey), NEW o, NEW s, Len(s) # Events,
         NEW k \in 1..Len(B), B[k][Len(B[k])].kind = "cjump"
  PROVE  Answers(x, y, B, px, ex, py, ey, o, px[k] + Len(B[k]), py[k] + Len(B[k]), s)
  <1> DEFINE p == px[k] + Len(B[k])
             q == py[k] + Len(B[k])
             e == B[k][Len(B[k])]
             b == bit(o, Len(s))
  <1>1. Code(x) /\ Code(y) /\ EndOf(x, B, ex, e, p) /\ EndOf(y, B, ey, e, q)
    BY DEF Lays
  <1> HIDE DEF p, q
  <1>2. /\ p \in 1..Len(x) /\ x[p].kind = "cjump" /\ x[p].op.c = e.op.c
        /\ q \in 1..Len(y) /\ y[q].kind = "cjump" /\ y[q].op.c = e.op.c
        /\ q \in Places(y)
    BY <1>1 DEF EndOf
  <1>3. b \in BOOLEAN
        /\ execute(x, o, [pc |-> p, seen |-> s])
             = [pc |-> At(x, chosen(x[p], b)), seen |-> Append(s, <<x[p].op.c, b>>)]
        /\ execute(y, o, [pc |-> q, seen |-> s])
             = [pc |-> At(y, chosen(y[q], b)), seen |-> Append(s, <<y[q].op.c, b>>)]
    BY <1>1, <1>2, BranchEvent
  <1> HIDE DEF b
  <1>4. PICK u : Goal(x, B, ex, chosen(e, b), u) /\ Leads(x, At(x, chosen(x[p], b)), u)
    BY <1>1, <1>3 DEF EndOf
  <1>5. PICK v : Goal(y, B, ey, chosen(e, b), v) /\ Leads(y, At(y, chosen(y[q], b)), v)
    BY <1>1, <1>3 DEF EndOf
  <1> HIDE DEF e
  <1>6. Together(x, y, B, px, ex, py, ey, At(x, chosen(x[p], b)), At(y, chosen(y[q], b)))
    BY <1>4, <1>5, SameGoal DEF Together
  <1> DEFINE r == execute(x, o, [pc |-> p, seen |-> s])
             t == execute(y, o, [pc |-> q, seen |-> s])
  <1>8. r.seen = t.seen /\ r.pc = At(x, chosen(x[p], b)) /\ t.pc = At(y, chosen(y[q], b))
    <2>1. /\ r.seen = Append(s, <<x[p].op.c, b>>) /\ t.seen = Append(s, <<y[q].op.c, b>>)
          /\ r.pc = At(x, chosen(x[p], b)) /\ t.pc = At(y, chosen(y[q], b))
      BY <1>3
    <2>2. x[p].op.c = y[q].op.c
      BY <1>2
    <2> HIDE DEF r, t
    <2> QED
      BY <2>1, <2>2
  <1>9. Leads(y, q, q)
    BY LeadsSelf
  <1>10. r.seen = t.seen /\ Together(x, y, B, px, ex, py, ey, r.pc, t.pc)
    BY <1>6, <1>8
  <1>7. Answers(x, y, B, px, ex, py, ey, o, p, q, s)
    BY <1>2, <1>9, <1>10 DEF Answers
  <1> QED
    BY <1>7 DEF p, q

(* x takes one step of its way, y waits.                                   *)
LEMMA OnWay ==
  ASSUME NEW x, NEW y, NEW B, NEW px, NEW ex, NEW py, NEW ey, Code(x),
         NEW o, NEW s, Len(s) # Events, NEW p, NEW q \in Places(y),
         NEW u, Leads(x, p, u), p # u,
         \A r \in Places(x) : Leads(x, r, u) => Toward(x, y, B, ex, ey, r, q)
  PROVE  Answers(x, y, B, px, ex, py, ey, o, p, q, s)
  <1>1. PICK r \in Places(x) : Silent(x, p, r) /\ Leads(x, r, u)
    BY LeadsFrom
  <1>2. execute(x, o, [pc |-> p, seen |-> s]) = [pc |-> r, seen |-> s]
    BY <1>1, StepOnWay
  <1>3. Together(x, y, B, px, ex, py, ey, r, q)
    BY <1>1 DEF Together
  <1> QED
    BY <1>2, <1>3, LeadsSelf DEF Answers

LEMMA AtJump ==
  ASSUME NEW x, NEW y, NEW B, Blocks(B), NEW px, NEW ex, NEW py, NEW ey,
         Lays(x, B, px, ex), Lays(y, B, py, ey), NEW o, NEW s, Len(s) # Events,
         NEW k \in 1..Len(B), B[k][Len(B[k])].kind = "jump", px[k] + Len(B[k]) \in 1..Len(x)
  PROVE  Answers(x, y, B, px, ex, py, ey, o, px[k] + Len(B[k]), py[k] + Len(B[k]), s)
  <1> DEFINE p == px[k] + Len(B[k])
             q == py[k] + Len(B[k])
             e == B[k][Len(B[k])]
  <1>1. Code(x) /\ EndOf(x, B, ex, e, p) /\ EndOf(y, B, ey, e, q) /\ e.kind = "jump" /\ p \in 1..Len(x)
    BY DEF Lays
  <1> HIDE DEF p, q, e
  <1>2. PICK u : /\ Goal(x, B, ex, e.label, u) /\ Leads(x, p, u)
                 /\ p = u /\ u # Len(x) + 1 => x[u].kind = "label"
    BY <1>1 DEF EndOf
  <1>3. PICK v : Goal(y, B, ey, e.label, v) /\ Leads(y, q, v)
    BY <1>1 DEF EndOf
  <1>4. q \in Places(y) /\ p # Len(x) + 1
    BY <1>1 DEF EndOf, Code
  <1>5. CASE p # u
    <2>1. \A r \in Places(x) : Leads(x, r, u) => Toward(x, y, B, ex, ey, r, q)
      BY <1>2, <1>3, SameGoal
    <2>2. Answers(x, y, B, px, ex, py, ey, o, p, q, s)
      BY <1>1, <1>2, <1>4, <1>5, <2>1, OnWay
    <2> QED
      BY <2>2 DEF p, q
  <1>6. CASE p = u
    <2>1. u # Len(x) + 1 /\ x[u].kind = "label"
      BY <1>2, <1>4, <1>6
    <2>2. PICK h \in 1..Len(B) : e.label = B[h][1].label /\ u = ex[h]
      BY <1>2, <2>1 DEF Goal
    <2>3. e.label # done
      BY <2>2 DEF Blocks
    <2>4. PICK g \in 1..Len(B) : e.label = B[g][1].label /\ v = ey[g]
      BY <1>3, <2>3 DEF Goal
    <2>5. g = h
      BY <2>2, <2>4 DEF Blocks
    <2>6. Answers(x, y, B, px, ex, py, ey, o, ex[h], q, s)
      BY <1>3, <2>1, <2>2, <2>4, <2>5, AtEntry
    <2> QED
      BY <1>6, <2>2, <2>6 DEF p, q
  <1> QED
    BY <1>5, <1>6

LEMMA AtInside ==
  ASSUME NEW x, NEW y, NEW B, Blocks(B), NEW px, NEW ex, NEW py, NEW ey,
         Lays(x, B, px, ex), Lays(y, B, py, ey), NEW o, NEW s, Len(s) # Events,
         NEW k \in 1..Len(B), NEW j \in 2..Len(B[k]), px[k] + j \in 1..Len(x)
  PROVE  Answers(x, y, B, px, ex, py, ey, o, px[k] + j, py[k] + j, s)
  <1>1. Len(B[k]) \in Nat /\ B[k][Len(B[k])].kind \in {"jump", "cjump"}
    BY DEF Blocks
  <1>2. CASE j # Len(B[k])
    <2>1. j \in 2..(Len(B[k]) - 1)
      BY <1>1, <1>2
    <2> QED
      BY <2>1, AtOp
  <1>3. CASE j = Len(B[k]) /\ B[k][Len(B[k])].kind = "jump"
    BY <1>3, AtJump
  <1>4. CASE j = Len(B[k]) /\ B[k][Len(B[k])].kind = "cjump"
    BY <1>4, AtBranch
  <1> QED
    BY <1>1, <1>2, <1>3, <1>4

LEMMA Answered ==
  ASSUME NEW x, NEW y, NEW B, Blocks(B), NEW px, NEW ex, NEW py, NEW ey,
         Lays(x, B, px, ex), Lays(y, B, py, ey), NEW o, NEW s, Len(s) # Events,
         NEW p \in 1..Len(x), NEW q \in Places(y), Together(x, y, B, px, ex, py, ey, p, q)
  PROVE  Answers(x, y, B, px, ex, py, ey, o, p, q, s)
  <1>1. CASE Inside(B, px, py, p, q)
    BY <1>1, AtInside DEF Inside
  <1>2. CASE Leads(x, p, Len(x) + 1) /\ Leads(y, q, Len(y) + 1)
    <2>1. \A r \in Places(x) : Leads(x, r, Len(x) + 1) => Toward(x, y, B, ex, ey, r, q)
      BY <1>2 DEF Toward
    <2>2. Code(x) /\ p # Len(x) + 1
      BY DEF Lays, Code
    <2> QED
      BY <1>2, <2>1, <2>2, OnWay
  <1>3. ASSUME NEW k \in 1..Len(B), Leads(x, p, ex[k]), Leads(y, q, ey[k])
        PROVE  Answers(x, y, B, px, ex, py, ey, o, p, q, s)
    <2>1. CASE p # ex[k]
      <3>1. \A r \in Places(x) : Leads(x, r, ex[k]) => Toward(x, y, B, ex, ey, r, q)
        BY <1>3 DEF Toward
      <3>2. Code(x)
        BY DEF Lays
      <3> QED
        BY <1>3, <2>1, <3>1, <3>2, OnWay
    <2>2. CASE p = ex[k] /\ x[ex[k]].kind = "label"
      BY <1>3, <2>2, AtEntry
    <2>3. CASE p = ex[k] /\ x[ex[k]].kind # "label"
      <3>1. p = px[k] + 2 /\ 2 \in 2..Len(B[k]) /\ p \in 1..Len(x)
        <4>1. Len(B[k]) \in Nat /\ 2 <= Len(B[k]) /\ (x[ex[k]].kind # "label" => ex[k] = px[k] + 2)
          BY DEF Lays, Blocks
        <4>2. 2 \in 2..Len(B[k])
          BY <4>1
        <4> QED
          BY <2>3, <4>1, <4>2
      <3>2. Leads(y, q, py[k] + 2)
        <4>1. Leads(y, ey[k], py[k] + 2)
          BY Laid
        <4> QED
          BY <1>3, <4>1, LeadsOn
      <3>3. Answers(x, y, B, px, ex, py, ey, o, p, py[k] + 2, s)
        BY <3>1, AtInside
      <3>4. PICK u \in Places(y) :
              /\ Leads(y, py[k] + 2, u)
              /\ LET r == execute(x, o, [pc |-> p, seen |-> s])
                     t == execute(y, o, [pc |-> u, seen |-> s])
                 IN  \/ r.seen = s /\ Together(x, y, B, px, ex, py, ey, r.pc, u)
                     \/ r.seen = t.seen /\ Together(x, y, B, px, ex, py, ey, r.pc, t.pc)
        BY <3>3 DEF Answers
      <3>5. Leads(y, q, u)
        BY <3>2, <3>4, LeadsOn
      <3> QED
        BY <3>4, <3>5 DEF Answers
    <2> QED
      BY <2>1, <2>2, <2>3
  <1> QED
    BY <1>1, <1>2, <1>3 DEF Together, Toward

(* The answer of a state of y's trail is another state of it.              *)
Agree(x, y, B, px, ex, py, ey, r, t) ==
  /\ r.seen = t.seen
  /\ Len(r.seen) = Events \/ Together(x, y, B, px, ex, py, ey, r.pc, t.pc)

LEMMA AnswerOnTrail ==
  ASSUME NEW x, NEW y, NEW B, Blocks(B), NEW px, NEW ex, NEW py, NEW ey,
         Lays(x, B, px, ex), Lays(y, B, py, ey), Events \in Nat, NEW o,
         NEW f, Trail(x, o, f), NEW g, Trail(y, o, g), NEW n \in Nat, NEW m \in Nat,
         f[n].seen = g[m].seen, Len(f[n].seen) # Events, f[n].pc # Len(x) + 1,
         Together(x, y, B, px, ex, py, ey, f[n].pc, g[m].pc)
  PROVE  \E k \in Nat : Agree(x, y, B, px, ex, py, ey, f[n + 1], g[k])
  <1> DEFINE p == f[n].pc
             q == g[m].pc
             s == f[n].seen
  <1>1. /\ Code(x) /\ Code(y) /\ Len(x) \in Nat
        /\ f[n] \in States(x) /\ g[m] \in States(y) /\ f[n + 1] = execute(x, o, f[n])
    BY DEF Lays, Code, Trail
  <1>2. /\ p \in Places(x) /\ q \in Places(y) /\ Len(s) \in Nat /\ Len(s) < Events
        /\ f[n] = [pc |-> p, seen |-> s]
    <2>1. f[n] \in [pc : Places(x), seen : Seq(Seen(x))] /\ Len(f[n].seen) \in Nat /\ Len(f[n].seen) <= Events
          /\ f[n].pc \in Places(x)
      BY <1>1, StateTypes
    <2>2. g[m].pc \in Places(y)
      BY <1>1, StateTypes
    <2> QED
      BY <2>1, <2>2
  <1>3. p \in 1..Len(x)
    BY <1>1, <1>2 DEF Places
  <1>4. f[n + 1] = execute(x, o, [pc |-> p, seen |-> s]) /\ g[m].seen = s
    BY <1>1, <1>2
  <1>5. Together(x, y, B, px, ex, py, ey, p, q) /\ Len(s) # Events
    OBVIOUS
  <1>50. g[m].pc = q
    OBVIOUS
  <1> HIDE DEF p, q, s
  <1>6. Answers(x, y, B, px, ex, py, ey, o, p, q, s)
    BY <1>2, <1>3, <1>5, Answered
  <1> DEFINE r == f[n + 1]
  <1>7. PICK u \in Places(y) :
          /\ Leads(y, q, u)
          /\ \/ r.seen = s /\ Together(x, y, B, px, ex, py, ey, r.pc, u)
             \/ /\ r.seen = execute(y, o, [pc |-> u, seen |-> s]).seen
                /\ Together(x, y, B, px, ex, py, ey, r.pc, execute(y, o, [pc |-> u, seen |-> s]).pc)
    BY <1>4, <1>6 DEF Answers
  <1>8. PICK k \in Nat : g[k].pc = u /\ g[k].seen = s
    <2>1. Leads(y, g[m].pc, u) /\ Len(g[m].seen) < Events
      BY <1>2, <1>4, <1>50, <1>7
    <2>2. Code(y)
      BY <1>1
    <2> HIDE DEF r
    <2>3. Reaches(g, s, u)
      BY <1>4, <1>50, <2>1, <2>2, <1>7, Follows
    <2> QED
      BY <2>3 DEF Reaches
  <1> HIDE DEF r
  <1>9. CASE r.seen = s /\ Together(x, y, B, px, ex, py, ey, r.pc, u)
    BY <1>8, <1>9 DEF r, Agree
  <1>10. CASE /\ r.seen = execute(y, o, [pc |-> u, seen |-> s]).seen
              /\ Together(x, y, B, px, ex, py, ey, r.pc, execute(y, o, [pc |-> u, seen |-> s]).pc)
    <2>1. g[k] = [pc |-> u, seen |-> s]
      <3>1. g[k] \in States(y)
        BY DEF Trail
      <3>2. g[k] \in [pc : Places(y), seen : Seq(Seen(y))]
        BY <3>1, StateTypes
      <3> QED
        BY <1>8, <3>2
    <2>2. g[k + 1] = execute(y, o, [pc |-> u, seen |-> s]) /\ k + 1 \in Nat
      BY <2>1 DEF Trail
    <2> QED
      BY <1>10, <2>2 DEF r, Agree
  <1> QED
    BY <1>7, <1>9, <1>10

LEMMA Simulates ==
  ASSUME NEW x, NEW y, NEW B, Blocks(B), NEW px, NEW ex, NEW py, NEW ey,
         Lays(x, B, px, ex), Lays(y, B, py, ey), Events \in Nat, NEW o,
         NEW f, Trail(x, o, f), NEW g, Trail(y, o, g), NEW n \in Nat
  PROVE  \E m \in Nat : Agree(x, y, B, px, ex, py, ey, f[n], g[m])
  <1> DEFINE P(k, m) == Agree(x, y, B, px, ex, py, ey, f[k], g[m])
             S == {k \in Nat : \E m \in Nat : P(k, m)}
  <1>1. 0 \in S
    <2>1. f[0] = begin /\ g[0] = begin /\ 1 \in 1..Len(B)
      BY DEF Trail, Blocks
    <2>2. Toward(x, y, B, ex, ey, 1, 1)
      BY <2>1 DEF Toward, Lays
    <2>3. P(0, 0)
      BY <2>1, <2>2 DEF begin, Together, Agree
    <2> QED
      BY <2>3
  <1>2. ASSUME NEW k \in Nat, k \in S PROVE k + 1 \in S
    <2>1. PICK m \in Nat : P(k, m)
      BY <1>2
    <2>2. f[k] \in States(x) /\ f[k + 1] = execute(x, o, f[k]) /\ Code(x)
      BY DEF Trail, Lays
    <2>3. CASE Len(f[k].seen) = Events \/ f[k].pc = Len(x) + 1
      <3>1. f[k + 1] = f[k]
        BY <2>2, <2>3, Executes
      <3>2. P(k + 1, m)
        BY <2>1, <3>1
      <3> HIDE DEF P
      <3> QED
        BY <3>2
    <2>4. CASE Len(f[k].seen) # Events /\ f[k].pc # Len(x) + 1
      <3>1. f[k].seen = g[m].seen /\ Together(x, y, B, px, ex, py, ey, f[k].pc, g[m].pc)
        BY <2>1, <2>4 DEF Agree
      <3>2. \E h \in Nat : P(k + 1, h)
        BY <3>1, <2>4, AnswerOnTrail
      <3> HIDE DEF P
      <3> QED
        BY <3>2
    <2> QED
      BY <2>3, <2>4
  <1>3. n \in S
    <2> HIDE DEF S
    <2> QED
      BY <1>1, <1>2, Induction
  <1> QED
    BY <1>3

(* Where x is at its end, y gets to its own.                               *)
LEMMA EndsTogether ==
  ASSUME NEW x, NEW y, NEW B, Blocks(B), NEW px, NEW ex, NEW py, NEW ey,
         Lays(x, B, px, ex), Lays(y, B, py, ey), NEW q,
         Together(x, y, B, px, ex, py, ey, Len(x) + 1, q)
  PROVE  Leads(y, q, Len(y) + 1)
  <1>1. Len(x) \in Nat /\ \A k \in 1..Len(B) : ex[k] # Len(x) + 1 /\ ex[k] \in 1..Len(x)
    BY DEF Lays, Code
  <1>2. ASSUME NEW u, Leads(x, Len(x) + 1, u) PROVE u = Len(x) + 1
    <2>1. \A v : ~ Silent(x, Len(x) + 1, v)
      BY <1>1 DEF Silent
    <2> QED
      BY <1>2, <2>1, LeadsFrom
  <1>3. CASE Toward(x, y, B, ex, ey, Len(x) + 1, q)
    BY <1>1, <1>2, <1>3 DEF Toward
  <1>4. ASSUME NEW k \in 1..Len(B), NEW j \in 2..Len(B[k]), Len(x) + 1 = px[k] + j, q = py[k] + j
        PROVE  Leads(y, q, Len(y) + 1)
    <2> DEFINE e == B[k][Len(B[k])]
    <2>1. Len(B[k]) \in Nat /\ e.kind \in {"jump", "cjump"}
      BY DEF Blocks
    <2>2. \A i \in 2..(Len(B[k]) - 1) : px[k] + i \in 1..Len(x)
      BY DEF Lays
    <2>3. j = Len(B[k])
      <3>1. ~ (Len(x) + 1 \in 1..Len(x))
        BY <1>1
      <3>2. j \notin 2..(Len(B[k]) - 1)
        BY <1>4, <2>2, <3>1
      <3> QED
        BY <2>1, <3>2
    <2>4. EndOf(x, B, ex, e, Len(x) + 1) /\ EndOf(y, B, ey, e, q)
      BY <1>4, <2>3 DEF Lays
    <2> HIDE DEF e
    <2>5. e.kind = "jump"
      BY <1>1, <2>1, <2>4 DEF EndOf
    <2>6. PICK u : Goal(x, B, ex, e.label, u) /\ Leads(x, Len(x) + 1, u)
      BY <2>4, <2>5 DEF EndOf
    <2>7. e.label = done
      BY <1>1, <1>2, <2>6 DEF Goal
    <2>8. PICK v : Goal(y, B, ey, e.label, v) /\ Leads(y, q, v)
      BY <2>4, <2>5 DEF EndOf
    <2>9. v = Len(y) + 1
      <3>1. \A h \in 1..Len(B) : e.label # B[h][1].label
        BY <2>7 DEF Blocks
      <3> QED
        BY <2>8, <3>1 DEF Goal
    <2> QED
      BY <2>8, <2>9
  <1> QED
    BY <1>3, <1>4 DEF Together, Inside

(* One layout sees no more than the other, and is not over before it.      *)
LEMMA NoMore ==
  ASSUME NEW x, NEW y, NEW B, Blocks(B), NEW px, NEW ex, NEW py, NEW ey,
         Lays(x, B, px, ex), Lays(y, B, py, ey), Events \in Nat, NEW o,
         NEW f, Trail(x, o, f), NEW g, Trail(y, o, g), NEW n \in Nat, NEW m \in Nat, Settled(y, g, m)
  PROVE  /\ Len(f[n].seen) <= Len(g[m].seen)
         /\ \A i \in 1..Len(f[n].seen) : g[m].seen[i] = f[n].seen[i]
         /\ f[n].pc = Len(x) + 1 /\ Len(f[n].seen) # Events =>
              g[m].pc = Len(y) + 1 /\ g[m].seen = f[n].seen
  <1>1. Code(x) /\ Code(y)
    BY DEF Lays
  <1>2. ASSUME NEW k \in Nat, f[n].seen = g[k].seen
        PROVE  /\ Len(f[n].seen) <= Len(g[m].seen)
               /\ \A i \in 1..Len(f[n].seen) : g[m].seen[i] = f[n].seen[i]
               /\ g[k].pc = Len(y) + 1 => g[m].pc = Len(y) + 1 /\ g[m].seen = f[n].seen
    <2>1. CASE k <= m
      <3>1. /\ Len(g[k].seen) <= Len(g[m].seen)
            /\ \A i \in 1..Len(g[k].seen) : g[m].seen[i] = g[k].seen[i]
            /\ g[k].pc = Len(y) + 1 \/ Len(g[k].seen) = Events => g[m] = g[k]
        BY <1>1, <2>1, Grows
      <3> QED
        BY <1>2, <3>1
    <2>2. CASE m <= k
      <3>1. g[k].seen = g[m].seen /\ (g[k].pc = Len(y) + 1 <=> g[m].pc = Len(y) + 1)
        BY <2>2 DEF Settled
      <3>2. Len(g[m].seen) \in Nat
        <4>1. g[m] \in States(y)
          BY DEF Trail
        <4> QED
          BY <4>1, StateTypes
      <3> QED
        BY <1>2, <3>1, <3>2
    <2> QED
      BY <2>1, <2>2
  <1>3. PICK k \in Nat : /\ f[n].seen = g[k].seen
                         /\ \/ Len(f[n].seen) = Events
                            \/ Together(x, y, B, px, ex, py, ey, f[n].pc, g[k].pc)
    <2>1. \E k \in Nat : Agree(x, y, B, px, ex, py, ey, f[n], g[k])
      BY Simulates
    <2> QED
      BY <2>1 DEF Agree
  <1>4. ASSUME f[n].pc = Len(x) + 1, Len(f[n].seen) # Events
        PROVE  g[m].pc = Len(y) + 1 /\ g[m].seen = f[n].seen
    <2>1. Leads(y, g[k].pc, Len(y) + 1)
      BY <1>3, <1>4, EndsTogether
    <2>2. Len(g[k].seen) < Events
      <3>1. g[k] \in States(y)
        BY DEF Trail
      <3>2. Len(g[k].seen) \in Nat /\ Len(g[k].seen) <= Events
        BY <3>1, StateTypes
      <3> QED
        BY <1>3, <1>4, <3>2
    <2>3. PICK h \in Nat : g[h].pc = Len(y) + 1 /\ g[h].seen = g[k].seen
      <3>1. Reaches(g, g[k].seen, Len(y) + 1)
        BY <1>1, <2>1, <2>2, Follows
      <3> QED
        BY <3>1 DEF Reaches
    <2>4. f[n].seen = g[h].seen
      BY <1>3, <2>3
    <2> QED
      BY <1>2, <2>3, <2>4
  <1> QED
    BY <1>2, <1>3, <1>4

(* Two layouts of the same blocks do the same.                             *)
LEMMA LayoutsSame ==
  ASSUME NEW x, NEW y, NEW B, Blocks(B), NEW px, NEW ex, NEW py, NEW ey,
         Lays(x, B, px, ex), Lays(y, B, py, ey), Events \in Nat
  PROVE  Same(x, y)
  <1> SUFFICES ASSUME NEW o PROVE Run(x, o) = Run(y, o)
    BY DEF Same
  <1>1. Code(x) /\ Code(y) /\ Len(x) \in Nat /\ Len(y) \in Nat
    BY DEF Lays, Code
  <1>2. PICK f : Trail(x, o, f)
    BY <1>1, Trails
  <1>3. PICK g : Trail(y, o, g)
    BY <1>1, Trails
  <1> DEFINE n == longest(x)
             m == longest(y)
  <1>4. /\ n \in Nat
        /\ Run(x, o) = [seen |-> f[n].seen, over |-> f[n].pc > Len(x) /\ Len(f[n].seen) < Events]
        /\ m \in Nat
        /\ Run(y, o) = [seen |-> g[m].seen, over |-> g[m].pc > Len(y) /\ Len(g[m].seen) < Events]
    BY <1>1, <1>2, <1>3, RunOfTrail
  <1>5. Settled(x, f, n) /\ Settled(y, g, m)
    BY <1>1, <1>2, <1>3, Settles
  <1> HIDE DEF n, m
  <1>6. /\ Len(f[n].seen) <= Len(g[m].seen)
        /\ \A i \in 1..Len(f[n].seen) : g[m].seen[i] = f[n].seen[i]
        /\ f[n].pc = Len(x) + 1 /\ Len(f[n].seen) # Events => g[m].pc = Len(y) + 1
    BY <1>2, <1>3, <1>4, <1>5, NoMore
  <1>7. /\ Len(g[m].seen) <= Len(f[n].seen)
        /\ g[m].pc = Len(y) + 1 /\ Len(g[m].seen) # Events => f[n].pc = Len(x) + 1
    BY <1>2, <1>3, <1>4, <1>5, NoMore
  <1>8. /\ f[n].pc \in Places(x) /\ f[n].seen \in Seq(Seen(x)) /\ Len(f[n].seen) \in Nat
        /\ Len(f[n].seen) <= Events
        /\ g[m].pc \in Places(y) /\ g[m].seen \in Seq(Seen(y)) /\ Len(g[m].seen) \in Nat
    <2>1. f[n] \in States(x) /\ g[m] \in States(y)
      BY <1>2, <1>3, <1>4 DEF Trail
    <2> QED
      BY <2>1, StateTypes
  <1>9. f[n].seen = g[m].seen
    <2> DEFINE A == Seen(x) \cup Seen(y)
    <2>1. f[n].seen \in Seq(A) /\ g[m].seen \in Seq(A)
      BY <1>8
    <2>2. Len(f[n].seen) = Len(g[m].seen)
      BY <1>6, <1>7, <1>8
    <2>3. \A i \in 1..Len(f[n].seen) : f[n].seen[i] = g[m].seen[i]
      BY <1>6
    <2> HIDE DEF A
    <2> QED
      BY <2>1, <2>2, <2>3, SeqEqual
  <1>10. (f[n].pc > Len(x) /\ Len(f[n].seen) < Events) = (g[m].pc > Len(y) /\ Len(g[m].seen) < Events)
    <2>1. (f[n].pc > Len(x) <=> f[n].pc = Len(x) + 1) /\ (g[m].pc > Len(y) <=> g[m].pc = Len(y) + 1)
      BY <1>1, <1>8 DEF Places
    <2>2. Len(f[n].seen) < Events <=> Len(f[n].seen) # Events
      BY <1>8
    <2> QED
      BY <1>6, <1>7, <1>9, <2>1, <2>2
  <1> QED
    BY <1>4, <1>9, <1>10

-----------------------------------------------------------------------------
(* Sequences, whatever their elements are.                                 *)

Row(q) == Len(q) \in Nat /\ q = [k \in 1..Len(q) |-> q[k]]

Elements(q) == {q[k] : k \in 1..Len(q)}

LEMMA RowSeq ==
  ASSUME NEW q, Row(q), NEW S, Elements(q) \subseteq S
  PROVE  q \in Seq(S)
  <1>1. \A k \in 1..Len(q) : q[k] \in S
    BY DEF Elements
  <1>2. [k \in 1..Len(q) |-> q[k]] \in Seq(S)
    BY <1>1 DEF Row
  <1> QED
    BY <1>2, Zenon DEF Row

LEMMA SeqRow ==
  ASSUME NEW S, NEW q \in Seq(S)
  PROVE  Row(q)
  BY DEF Row

LEMMA RowEmpty == Row(<< >>) /\ Len(<< >>) = 0
  <1>1. << >> \in Seq({})
    OBVIOUS
  <1> QED
    BY <1>1, SeqRow

LEMMA RowLen ==
  ASSUME NEW q, Row(q)
  PROVE  (q = << >> <=> Len(q) = 0) /\ DOMAIN q = 1..Len(q)
  <1>1. q \in Seq(Elements(q))
    BY RowSeq
  <1> QED
    BY <1>1

LEMMA RowAppend ==
  ASSUME NEW q, Row(q), NEW s
  PROVE  /\ Row(Append(q, s)) /\ Len(Append(q, s)) = Len(q) + 1
         /\ \A k \in 1..Len(q) : Append(q, s)[k] = q[k]
         /\ Append(q, s)[Len(q) + 1] = s
  <1> DEFINE S == Elements(q) \cup {s}
  <1>1. q \in Seq(S) /\ s \in S
    BY RowSeq
  <1> HIDE DEF S
  <1>2. /\ Append(q, s) \in Seq(S) /\ Len(Append(q, s)) = Len(q) + 1
        /\ \A k \in 1..Len(q) : Append(q, s)[k] = q[k]
        /\ Append(q, s)[Len(q) + 1] = s
    BY <1>1, AppendProperties
  <1>3. Row(Append(q, s))
    BY <1>2, SeqRow
  <1> QED
    BY <1>2, <1>3

LEMMA RowTail ==
  ASSUME NEW q, Row(q), q # << >>
  PROVE  /\ Row(Tail(q)) /\ Len(Tail(q)) = Len(q) - 1 /\ Len(q) \in Nat \ {0} /\ Head(q) = q[1]
         /\ \A k \in 1..(Len(q) - 1) : Tail(q)[k] = q[k + 1]
  <1> DEFINE S == Elements(q)
  <1>1. q \in Seq(S)
    BY RowSeq
  <1> HIDE DEF S
  <1>2. Row(Tail(q)) /\ Len(Tail(q)) = Len(q) - 1 /\ \A k \in 1..Len(Tail(q)) : Tail(q)[k] = q[k + 1]
    BY <1>1, HeadTailProperties, SeqRow
  <1>3. Len(q) \in Nat \ {0} /\ Head(q) = q[1]
    BY <1>1
  <1> QED
    BY <1>2, <1>3

LEMMA RowConcat ==
  ASSUME NEW q, Row(q), NEW r, Row(r)
  PROVE  /\ Row(q \o r) /\ Len(q \o r) = Len(q) + Len(r)
         /\ \A k \in 1..Len(q) : (q \o r)[k] = q[k]
         /\ \A k \in 1..Len(r) : (q \o r)[Len(q) + k] = r[k]
  <1> DEFINE S == Elements(q) \cup Elements(r)
             z == q \o r
  <1>1. q \in Seq(S) /\ r \in Seq(S)
    BY RowSeq
  <1> HIDE DEF S
  <1>2. /\ z \in Seq(S) /\ Len(z) = Len(q) + Len(r)
        /\ \A i \in 1..(Len(q) + Len(r)) : z[i] = IF i <= Len(q) THEN q[i] ELSE r[i - Len(q)]
    BY <1>1, ConcatProperties
  <1>3. Row(z) /\ Len(q) \in Nat /\ Len(r) \in Nat
    BY <1>2, SeqRow DEF Row
  <1> HIDE DEF z
  <1>4. \A k \in 1..Len(q) : z[k] = q[k]
    BY <1>2, <1>3
  <1>5. ASSUME NEW k \in 1..Len(r) PROVE z[Len(q) + k] = r[k]
    <2>1. Len(q) + k \in 1..(Len(q) + Len(r)) /\ ~ (Len(q) + k <= Len(q)) /\ (Len(q) + k) - Len(q) = k
      BY <1>3
    <2> QED
      BY <1>2, <2>1
  <1> QED
    BY <1>2, <1>3, <1>4, <1>5 DEF z

LEMMA RowFront ==
  ASSUME NEW q, Row(q), Len(q) # 0
  PROVE  /\ Row(Front(q)) /\ Len(Front(q)) = Len(q) - 1 /\ Len(Front(q)) \in Nat
         /\ \A k \in 1..(Len(q) - 1) : Front(q)[k] = q[k]
         /\ Last(q) = q[Len(q)]
  <1> DEFINE S == Elements(q)
             n == Len(q) - 1
  <1>1. n \in Nat /\ 1 \in Int /\ n \in Int /\ (n - 1) + 1 = n /\ Len(q) \in Nat
    BY DEF Row
  <1>2. \A i \in 1..n : q[i] \in S
    BY <1>1 DEF Elements
  <1> HIDE DEF S, n
  <1>3. /\ SubSeq(q, 1, n) \in Seq(S) /\ Len(SubSeq(q, 1, n)) = IF 1 <= n THEN n - 1 + 1 ELSE 0
        /\ \A i \in 1..(n - 1 + 1) : SubSeq(q, 1, n)[i] = q[1 + i - 1]
    BY <1>1, <1>2, SubSeqProperties
  <1>4. Front(q) = SubSeq(q, 1, n)
    BY DEF Front, n
  <1>5. Row(Front(q)) /\ Len(Front(q)) = n
    <2>1. Row(Front(q))
      BY <1>3, <1>4, SeqRow
    <2>2. Len(Front(q)) = n
      BY <1>1, <1>3, <1>4
    <2> QED
      BY <2>1, <2>2
  <1>6. \A i \in 1..n : Front(q)[i] = q[i]
    BY <1>1, <1>3, <1>4
  <1>7. Last(q) = q[Len(q)]
    BY DEF Last
  <1> QED
    BY <1>1, <1>5, <1>6, <1>7 DEF n

-----------------------------------------------------------------------------
(* mkBlocks: what is known of the blocks made from the first c statements  *)
(* of a list.                                                              *)

(* The label of a block is before its first statement, or was missing and  *)
(* made.                                                                   *)
Named(l, c, n, b, p) ==
  /\ b[1] = Label(b[1].label)
  /\ \/ p + 1 \in 1..c /\ l[p + 1] = b[1]
     \/ /\ p + 2 \in 1..Len(l) /\ l[p + 2].kind # "label"
        /\ \E m \in 1..(n - 1) : b[1] = Label(<<"new", m>>)

Filled(l, c, b, p, n) == \A j \in 2..n : p + j \in 1..c /\ l[p + j] = b[j] /\ b[j].kind = "op"

(* The last statement of a block is one of the list, or a jump to what     *)
(* comes next there.                                                       *)
Stops(l, c, b, p) ==
  /\ 2 <= Len(b)
  /\ \/ p + Len(b) \in 1..c /\ l[p + Len(b)] = b[Len(b)] /\ b[Len(b)].kind \in {"jump", "cjump"}
     \/ p + Len(b) = Len(l) + 1 /\ b[Len(b)] = Jump(done)
     \/ p + Len(b) \in 1..Len(l) /\ l[p + Len(b)].kind = "label" /\ b[Len(b)] = Jump(l[p + Len(b)].label)

Ended(l, c, b, p) == Filled(l, c, b, p, Len(b) - 1) /\ Stops(l, c, b, p)

Cut(l, c, n, B, pos) ==
  /\ Row(B)
  /\ \A k \in 1..Len(B) : pos[k] \in Int /\ Row(B[k]) /\ Len(B[k]) # 0 /\ Named(l, c, n, B[k], pos[k])
  /\ \A j, k \in 1..Len(B) : B[j][1].label = B[k][1].label => j = k
  /\ \A i \in 1..c : l[i].kind = "label" => \E k \in 1..Len(B) : pos[k] + 1 = i /\ B[k][1] = l[i]
  /\ Len(B) # 0 => pos[1] = -1 \/ (pos[1] = 0 /\ l[1] = B[1][1])
  /\ Len(B) = 0 => c = 0

got == Len(list) - Len(stms)

made == IF state = "IN" THEN Append(llist, block) ELSE llist

Rest == Row(stms) /\ Len(stms) <= Len(list) /\ \A i \in 1..Len(stms) : stms[i] = list[got + i]

CutAt(pos) ==
  /\ Cut(list, got, nlabel, made, pos)
  /\ \A k \in 1..Len(llist) : Ended(list, got, llist[k], pos[k])
  /\ state = "IN" => /\ Filled(list, got, block, pos[Len(llist) + 1], Len(block))
                     /\ pos[Len(llist) + 1] + Len(block) = got
                     /\ Row(block)

Cutting == Rest /\ Row(llist) /\ out = << >> /\ env = {} /\ \E pos : CutAt(pos)

LEMMA NamedOn ==
  ASSUME NEW l, NEW c \in Nat, NEW d \in Nat, c <= d, NEW n \in Nat, NEW m \in Nat, n <= m,
         NEW b, NEW p \in Int, Named(l, c, n, b, p)
  PROVE  Named(l, d, m, b, p)
  <1>1. CASE p + 1 \in 1..c /\ l[p + 1] = b[1]
    <2>1. p + 1 \in 1..d
      BY <1>1
    <2> QED
      BY <1>1, <2>1 DEF Named
  <1>2. ASSUME p + 2 \in 1..Len(l), l[p + 2].kind # "label", NEW i \in 1..(n - 1), b[1] = Label(<<"new", i>>)
        PROVE  Named(l, d, m, b, p)
    <2>1. i \in 1..(m - 1)
      OBVIOUS
    <2> QED
      BY <1>2, <2>1 DEF Named
  <1> QED
    BY <1>1, <1>2 DEF Named

LEMMA EndedOn ==
  ASSUME NEW l, NEW c \in Nat, NEW d \in Nat, c <= d, NEW b, Row(b), NEW p \in Int, Ended(l, c, b, p)
  PROVE  Ended(l, d, b, p)
  <1>1. \A i \in 1..c : i \in 1..d
    OBVIOUS
  <1>2. Filled(l, d, b, p, Len(b) - 1)
    BY <1>1 DEF Ended, Filled
  <1>3. Stops(l, d, b, p)
    BY <1>1 DEF Ended, Stops
  <1> QED
    BY <1>2, <1>3 DEF Ended

(* A block begins with a label no other has, which is the next of the      *)
(* list's if that is there.                                                *)
Begun(l, c, d, B, b, p) ==
  /\ \A k \in 1..Len(B) : B[k][1].label # b[1].label
  /\ \A i \in (c + 1)..d : l[i].kind = "label" => p + 1 = i /\ b[1] = l[i]
  /\ Len(B) = 0 => p = -1 \/ (p = 0 /\ l[1] = b[1])

Extends(q, pos, n, p) == q[n + 1] = p /\ \A k \in 1..n : q[k] = pos[k]

(* A block is begun.                                                       *)
LEMMA CutAdd ==
  ASSUME NEW l, NEW c \in Nat, NEW d \in Nat, c <= d, NEW n \in Nat, NEW m \in Nat, n <= m,
         NEW B, NEW pos, Cut(l, c, n, B, pos),
         NEW b, Row(b), Len(b) # 0, NEW p \in Int, Named(l, d, m, b, p),
         Begun(l, c, d, B, b, p), NEW q, Extends(q, pos, Len(B), p)
  PROVE  Cut(l, d, m, Append(B, b), q)
  <1> DEFINE A == Append(B, b)
             N == Len(B)
  <1>1. Row(B) /\ N \in Nat
    BY DEF Cut, Row
  <1>2. Row(A) /\ Len(A) = N + 1 /\ A[N + 1] = b /\ \A k \in 1..N : A[k] = B[k]
    BY <1>1, RowAppend
  <1> HIDE DEF A
  <1>3. q[N + 1] = p /\ \A k \in 1..N : q[k] = pos[k]
    BY <1>1 DEF Extends
  <1> HIDE DEF N
  <1>4. \A k \in 1..(N + 1) : k = N + 1 \/ k \in 1..N
    BY <1>1
  <1>5. ASSUME NEW k \in 1..N
        PROVE  q[k] \in Int /\ Row(A[k]) /\ Len(A[k]) # 0 /\ Named(l, d, m, A[k], q[k])
    <2>1. pos[k] \in Int /\ Row(B[k]) /\ Len(B[k]) # 0 /\ Named(l, c, n, B[k], pos[k])
      BY DEF Cut, N
    <2>2. Named(l, d, m, B[k], pos[k])
      BY <2>1, NamedOn
    <2> QED
      BY <1>2, <1>3, <2>1, <2>2
  <1>6. \A k \in 1..Len(A) : q[k] \in Int /\ Row(A[k]) /\ Len(A[k]) # 0 /\ Named(l, d, m, A[k], q[k])
    BY <1>2, <1>3, <1>4, <1>5
  <1>7. \A j, k \in 1..Len(A) : A[j][1].label = A[k][1].label => j = k
    <2>1. \A j, k \in 1..N : B[j][1].label = B[k][1].label => j = k
      BY DEF Cut, N
    <2>2. \A k \in 1..N : B[k][1].label # b[1].label
      BY DEF N, Begun
    <2> QED
      BY <1>2, <1>4, <2>1, <2>2
  <1>8. ASSUME NEW i \in 1..d, l[i].kind = "label" PROVE \E k \in 1..Len(A) : q[k] + 1 = i /\ A[k][1] = l[i]
    <2>1. CASE i \in 1..c
      <3>1. PICK k \in 1..N : pos[k] + 1 = i /\ B[k][1] = l[i]
        BY <1>8, <2>1 DEF Cut, N
      <3>2. k \in 1..Len(A)
        BY <1>1, <1>2
      <3> QED
        BY <1>2, <1>3, <3>1, <3>2
    <2>2. CASE i \in (c + 1)..d
      <3>1. N + 1 \in 1..Len(A)
        BY <1>1, <1>2
      <3>2. p + 1 = i /\ b[1] = l[i]
        BY <1>8, <2>2 DEF Begun
      <3> QED
        BY <1>2, <1>3, <3>1, <3>2
    <2>3. i \in 1..c \/ i \in (c + 1)..d
      OBVIOUS
    <2> QED
      BY <2>1, <2>2, <2>3
  <1>9. q[1] = -1 \/ (q[1] = 0 /\ l[1] = A[1][1])
    <2>1. CASE N = 0
      BY <1>2, <1>3, <2>1 DEF N, Begun
    <2>2. CASE N # 0
      <3>1. 1 \in 1..N
        BY <1>1, <2>2
      <3>2. pos[1] = -1 \/ (pos[1] = 0 /\ l[1] = B[1][1])
        BY <2>2 DEF Cut, N
      <3> QED
        BY <1>2, <1>3, <3>1, <3>2
    <2> QED
      BY <2>1, <2>2
  <1>10. Len(A) # 0
    BY <1>1, <1>2
  <1>11. Cut(l, d, m, A, q)
    BY <1>2, <1>6, <1>7, <1>8, <1>9, <1>10 DEF Cut
  <1> QED
    BY <1>11 DEF A

(* The last block gets another statement.                                  *)
LEMMA CutMore ==
  ASSUME NEW l, NEW c \in Nat, NEW d \in Nat, c <= d, NEW n \in Nat,
         NEW B, Row(B), NEW a, NEW pos, Cut(l, c, n, Append(B, a), pos),
         NEW b, Row(b), Len(b) # 0, b[1] = a[1],
         \A i \in (c + 1)..d : l[i].kind # "label"
  PROVE  Cut(l, d, n, Append(B, b), pos)
  <1> DEFINE X == Append(B, a)
             Y == Append(B, b)
             N == Len(B)
  <1>1. N \in Nat
    BY DEF Row
  <1>2. /\ Row(X) /\ Len(X) = N + 1 /\ X[N + 1] = a /\ \A k \in 1..N : X[k] = B[k]
        /\ Row(Y) /\ Len(Y) = N + 1 /\ Y[N + 1] = b /\ \A k \in 1..N : Y[k] = B[k]
    BY RowAppend
  <1>0. Cut(l, c, n, X, pos)
    OBVIOUS
  <1> HIDE DEF X, Y, N
  <1>3. \A k \in 1..(N + 1) : (k = N + 1 \/ k \in 1..N) /\ X[k][1] = Y[k][1]
    BY <1>1, <1>2
  <1>4. ASSUME NEW k \in 1..(N + 1)
        PROVE  pos[k] \in Int /\ Row(Y[k]) /\ Len(Y[k]) # 0 /\ Named(l, d, n, Y[k], pos[k])
    <2>1. pos[k] \in Int /\ Row(X[k]) /\ Len(X[k]) # 0 /\ Named(l, c, n, X[k], pos[k])
      BY <1>0, <1>2 DEF Cut
    <2>2. Named(l, c, n, Y[k], pos[k])
      BY <1>3, <2>1 DEF Named
    <2>3. Named(l, d, n, Y[k], pos[k])
      BY <2>1, <2>2, NamedOn
    <2>4. Row(Y[k]) /\ Len(Y[k]) # 0
      <3>1. CASE k = N + 1
        BY <1>2, <3>1
      <3>2. CASE k \in 1..N
        BY <1>2, <2>1, <3>2
      <3> QED
        BY <1>3, <3>1, <3>2
    <2> QED
      BY <2>1, <2>3, <2>4
  <1>5. \A j, k \in 1..Len(Y) : Y[j][1].label = Y[k][1].label => j = k
    <2>1. \A j, k \in 1..Len(X) : X[j][1].label = X[k][1].label => j = k
      BY <1>0 DEF Cut
    <2>2. Len(X) = N + 1 /\ Len(Y) = N + 1
      BY <1>2
    <2> QED
      BY <1>3, <2>1, <2>2
  <1>6. ASSUME NEW i \in 1..d, l[i].kind = "label" PROVE \E k \in 1..Len(Y) : pos[k] + 1 = i /\ Y[k][1] = l[i]
    <2>1. i \in 1..c
      <3>1. i \notin (c + 1)..d
        BY <1>6
      <3> QED
        BY <3>1
    <2>2. PICK k \in 1..Len(X) : pos[k] + 1 = i /\ X[k][1] = l[i]
      BY <1>0, <1>6, <2>1 DEF Cut
    <2> QED
      BY <1>2, <1>3, <2>2
  <1>7. pos[1] = -1 \/ (pos[1] = 0 /\ l[1] = Y[1][1])
    <2>1. 1 \in 1..(N + 1) /\ Len(X) # 0
      BY <1>1, <1>2
    <2>2. pos[1] = -1 \/ (pos[1] = 0 /\ l[1] = X[1][1])
      BY <1>0, <2>1 DEF Cut
    <2> QED
      BY <1>3, <2>1, <2>2
  <1>8. Len(Y) # 0
    BY <1>1, <1>2
  <1>9. Cut(l, d, n, Y, pos)
    BY <1>2, <1>4, <1>5, <1>6, <1>7, <1>8 DEF Cut
  <1> QED
    BY <1>9 DEF Y

LEMMA ListFacts ==
  ASSUME NEW l, Proper(l)
  PROVE  /\ Row(l) /\ Len(l) \in Nat \ {0}
         /\ \A k \in 1..Len(l) : Statement(l[k]) /\ Targets(l[k]) \subseteq LabelsOf(l) \cup {done}
         /\ \A j, k \in 1..Len(l) : l[j].kind = "label" /\ l[k] = l[j] => j = k
         /\ \A x \in LabelsOf(l) : x # done /\ x[1] # "new"
         /\ \A k \in 1..Len(l) : l[k].kind = "label" => l[k].label \in LabelsOf(l) /\ l[k] = Label(l[k].label)
  <1>1. Row(l) /\ l # << >>
    BY DEF Proper, Row
  <1>2. DOMAIN l = 1..Len(l) /\ Len(l) \in Nat \ {0}
    BY <1>1, RowLen DEF Row
  <1>3. \A k \in 1..Len(l) : Statement(l[k])
    BY DEF Proper
  <1>4. \A k \in 1..Len(l) : l[k].kind = "label" => l[k].label \in LabelsOf(l) /\ l[k] = Label(l[k].label)
    BY <1>2, <1>3, Kinds DEF LabelsOf
  <1> QED
    BY <1>1, <1>2, <1>4 DEF Proper

(* The numbers of a state of mkBlocks.                                     *)
LEMMA GotFacts ==
  ASSUME Proper(list), Rest
  PROVE  /\ Len(list) \in Nat \ {0} /\ Len(stms) \in Nat /\ got \in Nat /\ got <= Len(list)
         /\ stms = << >> <=> got = Len(list)
         /\ stms # << >> => /\ got + 1 \in 1..Len(list) /\ Head(stms) = list[got + 1]
                            /\ Statement(Head(stms))
                            /\ Row(Tail(stms)) /\ Len(Tail(stms)) = Len(stms) - 1
                            /\ \A i \in 1..Len(Tail(stms)) : Tail(stms)[i] = list[got + 1 + i]
  <1>1. Len(list) \in Nat \ {0} /\ Len(stms) \in Nat /\ got \in Nat /\ got <= Len(list)
    BY ListFacts DEF Rest, Row, got
  <1>2. stms = << >> <=> got = Len(list)
    BY <1>1, RowLen DEF Rest, got
  <1>3. ASSUME stms # << >>
        PROVE  /\ got + 1 \in 1..Len(list) /\ Head(stms) = list[got + 1]
               /\ Statement(Head(stms))
               /\ Row(Tail(stms)) /\ Len(Tail(stms)) = Len(stms) - 1
               /\ \A i \in 1..Len(Tail(stms)) : Tail(stms)[i] = list[got + 1 + i]
    <2>1. /\ Row(Tail(stms)) /\ Len(Tail(stms)) = Len(stms) - 1 /\ Len(stms) \in Nat \ {0} /\ Head(stms) = stms[1]
          /\ \A k \in 1..(Len(stms) - 1) : Tail(stms)[k] = stms[k + 1]
      BY <1>3, RowTail DEF Rest
    <2>2. got + 1 \in 1..Len(list)
      BY <1>1, <1>2, <1>3
    <2>3. Head(stms) = list[got + 1]
      BY <2>1 DEF Rest
    <2>4. Statement(Head(stms))
      BY <2>2, <2>3, ListFacts
    <2>5. ASSUME NEW i \in 1..(Len(stms) - 1) PROVE Tail(stms)[i] = list[got + 1 + i]
      <3>1. i + 1 \in 1..Len(stms) /\ got + (i + 1) = got + 1 + i
        BY <1>1
      <3>2. stms[i + 1] = list[got + (i + 1)]
        BY <3>1 DEF Rest
      <3> QED
        BY <2>1, <3>1, <3>2
    <2> QED
      BY <2>1, <2>2, <2>3, <2>4, <2>5
  <1> QED
    BY <1>1, <1>2, <1>3

LEMMA Begins ==
  ASSUME Proper(list), nlabel \in Nat \ {0}, Cutting, beginBlock
  PROVE  Cutting' /\ nlabel' \in Nat \ {0}
  <1> DEFINE s == Head(stms)
             isLabel == s.kind = "label"
  <1>1. /\ stms # << >> /\ state = "OUT" /\ state' = "IN" /\ list' = list /\ llist' = llist
        /\ env' = env /\ out' = out
        /\ IF isLabel THEN block' = <<s>> /\ stms' = Tail(stms) /\ nlabel' = nlabel
           ELSE block' = <<Label(newLabel)>> /\ stms' = stms /\ nlabel' = nlabel + 1
    BY DEF beginBlock
  <1>2. Rest /\ Row(llist) /\ out = << >> /\ env = {} /\ \E pos : CutAt(pos)
    BY DEF Cutting
  <1>3. PICK pos : CutAt(pos)
    BY <1>2
  <1>4. /\ Len(list) \in Nat \ {0} /\ Len(stms) \in Nat /\ got \in Nat /\ got <= Len(list)
        /\ got + 1 \in 1..Len(list) /\ s = list[got + 1] /\ Statement(s)
        /\ Row(Tail(stms)) /\ Len(Tail(stms)) = Len(stms) - 1
        /\ \A i \in 1..Len(Tail(stms)) : Tail(stms)[i] = list[got + 1 + i]
    BY <1>1, <1>2, GotFacts
  <1>5. made = llist /\ made' = Append(llist, block')
    BY <1>1 DEF made
  <1>6. /\ Cut(list, got, nlabel, llist, pos)
        /\ \A k \in 1..Len(llist) : Ended(list, got, llist[k], pos[k])
    BY <1>3, <1>5 DEF CutAt
  <1> DEFINE p == IF isLabel THEN got ELSE got - 1
             d == IF isLabel THEN got + 1 ELSE got
             m == IF isLabel THEN nlabel ELSE nlabel + 1
             b == IF isLabel THEN <<s>> ELSE <<Label(newLabel)>>
  <1>7. /\ p \in Int /\ d \in Nat /\ got <= d /\ m \in Nat /\ m \in Nat \ {0} /\ nlabel <= m
        /\ block' = b /\ nlabel' = m /\ p + 1 = d
    BY <1>1, <1>4
  <1>8. got' = d
    <2>1. list' = list /\ Len(stms') = IF isLabel THEN Len(stms) - 1 ELSE Len(stms)
      BY <1>1, <1>4
    <2> QED
      BY <1>4, <2>1 DEF got
  <1>9. Rest'
    <2>1. CASE isLabel
      <3>1. stms' = Tail(stms) /\ got' = got + 1 /\ list' = list
        BY <1>1, <1>8, <2>1
      <3>2. Row(stms') /\ Len(stms') <= Len(list')
        <4>1. Len(stms') = Len(stms) - 1 /\ Row(stms')
          BY <1>4, <3>1
        <4>2. Len(stms) <= Len(list)
          BY <1>2 DEF Rest
        <4> QED
          BY <1>4, <3>1, <4>1, <4>2
      <3>3. \A i \in 1..Len(stms') : stms'[i] = list'[got' + i]
        BY <1>4, <3>1
      <3> QED
        BY <3>2, <3>3 DEF Rest
    <2>2. CASE ~ isLabel
      BY <1>1, <1>2, <1>8, <2>2 DEF Rest
    <2> QED
      BY <2>1, <2>2
  <1>10. Row(b) /\ Len(b) = 1 /\ b[1] = (IF isLabel THEN s ELSE Label(newLabel))
    <2>1. \A e : Row(<<e>>) /\ Len(<<e>>) = 1 /\ <<e>>[1] = e
      <3> SUFFICES ASSUME NEW e PROVE Row(<<e>>) /\ Len(<<e>>) = 1 /\ <<e>>[1] = e
        OBVIOUS
      <3>1. <<e>> \in Seq({e})
        OBVIOUS
      <3> QED
        BY <3>1, SeqRow
    <2> QED
      BY <2>1
  <1>11. b[1] = Label(b[1].label)
    <2>1. \A x : Label(x).label = x
      BY DEF Label
    <2>2. isLabel => s = Label(s.label)
      BY <1>4, Kinds
    <2> QED
      BY <1>10, <2>1, <2>2
  <1> HIDE DEF b
  <1>12. Named(list, d, m, b, p)
    <2>1. CASE isLabel
      <3>1. p + 1 \in 1..d /\ list[p + 1] = b[1]
        BY <1>4, <1>10, <2>1
      <3> QED
        BY <1>11, <3>1 DEF Named
    <2>2. CASE ~ isLabel
      <3>1. p + 2 \in 1..Len(list) /\ list[p + 2].kind # "label"
        BY <1>4, <2>2
      <3>2. nlabel \in 1..(m - 1) /\ b[1] = Label(<<"new", nlabel>>)
        BY <1>10, <2>2 DEF newLabel
      <3> QED
        BY <1>11, <3>1, <3>2 DEF Named
    <2> QED
      BY <2>1, <2>2
  <1>13. ASSUME NEW k \in 1..Len(llist) PROVE llist[k][1].label # b[1].label
    <2>1. Named(list, got, nlabel, llist[k], pos[k]) /\ pos[k] \in Int
      BY <1>6 DEF Cut
    <2>2. \A x : Label(x).label = x
      BY DEF Label
    <2> SUFFICES ASSUME llist[k][1].label = b[1].label PROVE FALSE
      OBVIOUS
    <2>3. llist[k][1] = b[1]
      BY <1>11, <2>1 DEF Named
    <2>4. CASE isLabel
      <3>1. list[got + 1].kind = "label" /\ llist[k][1] = list[got + 1] /\ list[got + 1].label \in LabelsOf(list)
        BY <1>4, <1>10, <2>3, <2>4, ListFacts
      <3>2. CASE pos[k] + 1 \in 1..got /\ list[pos[k] + 1] = llist[k][1]
        <4>1. pos[k] + 1 \in 1..Len(list) /\ pos[k] + 1 # got + 1
          BY <1>4, <3>2
        <4> QED
          BY <1>4, <3>1, <3>2, <4>1, ListFacts
      <3>3. ASSUME NEW i \in 1..(nlabel - 1), llist[k][1] = Label(<<"new", i>>) PROVE FALSE
        <4>1. list[got + 1].label = <<"new", i>>
          BY <2>2, <3>1, <3>3
        <4>2. <<"new", i>>[1] = "new"
          OBVIOUS
        <4> QED
          BY <3>1, <4>1, <4>2, ListFacts
      <3> QED
        BY <2>1, <3>2, <3>3 DEF Named
    <2>5. CASE ~ isLabel
      <3>1. b[1].label = <<"new", nlabel>>
        BY <1>10, <2>2, <2>5 DEF newLabel
      <3>2. CASE pos[k] + 1 \in 1..got /\ list[pos[k] + 1] = llist[k][1]
        <4>1. pos[k] + 1 \in 1..Len(list) /\ list[pos[k] + 1] = Label(<<"new", nlabel>>)
          BY <1>4, <1>11, <2>3, <3>1, <3>2
        <4>2. list[pos[k] + 1].kind = "label" /\ list[pos[k] + 1].label = <<"new", nlabel>>
          BY <4>1 DEF Label
        <4>3. <<"new", nlabel>>[1] = "new"
          OBVIOUS
        <4> QED
          BY <4>1, <4>2, <4>3, ListFacts
      <3>3. ASSUME NEW i \in 1..(nlabel - 1), llist[k][1] = Label(<<"new", i>>) PROVE FALSE
        <4>1. <<"new", i>> = <<"new", nlabel>>
          BY <2>2, <2>3, <3>1, <3>3
        <4> QED
          BY <4>1
      <3> QED
        BY <2>1, <3>2, <3>3 DEF Named
    <2> QED
      BY <2>4, <2>5
  <1>14. \A i \in (got + 1)..d : list[i].kind = "label" => p + 1 = i /\ b[1] = list[i]
    BY <1>4, <1>10
  <1>15. Len(llist) = 0 => p = -1 \/ (p = 0 /\ list[1] = b[1])
    <2> SUFFICES ASSUME Len(llist) = 0 PROVE p = -1 \/ (p = 0 /\ list[1] = b[1])
      OBVIOUS
    <2>1. got = 0
      BY <1>6 DEF Cut
    <2> QED
      BY <1>4, <1>10, <2>1
  <1>16. PICK q : q = [k \in 1..(Len(llist) + 1) |-> IF k = Len(llist) + 1 THEN p ELSE pos[k]]
    OBVIOUS
  <1> HIDE DEF p, d, m
  <1>19. Len(llist) \in Nat /\ q[Len(llist) + 1] = p /\ \A k \in 1..Len(llist) : q[k] = pos[k]
    <2>1. Len(llist) \in Nat
      BY <1>2 DEF Row
    <2> QED
      BY <1>16, <2>1
  <1>17. Cut(list, d, m, Append(llist, b), q)
    <2>1. /\ got \in Nat /\ d \in Nat /\ got <= d /\ nlabel \in Nat /\ m \in Nat /\ nlabel <= m
          /\ Row(b) /\ Len(b) # 0 /\ p \in Int /\ Cut(list, got, nlabel, llist, pos)
      BY <1>4, <1>6, <1>7, <1>10
    <2>2. Begun(list, got, d, llist, b, p)
      BY <1>13, <1>14, <1>15 DEF Begun
    <2>3. Extends(q, pos, Len(llist), p)
      BY <1>19 DEF Extends
    <2> HIDE DEF isLabel, s
    <2> QED
      BY <2>1, <2>2, <2>3, <1>12, CutAdd
  <1>18. Cut(list', got', nlabel', made', q)
    BY <1>1, <1>5, <1>7, <1>8, <1>17
  <1>20. ASSUME NEW k \in 1..Len(llist') PROVE Ended(list', got', llist'[k], q[k])
    <2>1. k \in 1..Len(llist) /\ Ended(list, got, llist[k], pos[k]) /\ Row(llist[k]) /\ pos[k] \in Int
      BY <1>1, <1>6 DEF Cut
    <2>2. Ended(list, d, llist[k], pos[k])
      BY <1>4, <1>7, <2>1, EndedOn
    <2> QED
      BY <1>1, <1>8, <1>19, <2>1, <2>2
  <1>21. Filled(list', got', block', q[Len(llist') + 1], Len(block')) /\ q[Len(llist') + 1] + Len(block') = got' /\ Row(block')
    <2>1. block' = b /\ Len(block') = 1 /\ q[Len(llist') + 1] = p /\ Row(block')
      BY <1>1, <1>7, <1>10, <1>19
    <2>2. \A j \in 2..Len(block') : FALSE
      BY <2>1
    <2> QED
      BY <1>7, <1>8, <2>1, <2>2 DEF Filled
  <1>22. CutAt(q)'
    BY <1>18, <1>20, <1>21 DEF CutAt
  <1> QED
    BY <1>1, <1>2, <1>7, <1>9, <1>22 DEF Cutting

(* The block at work with one more statement, which is the last or not.    *)
GrownTo(pos, p, b, s) ==
  /\ p \in Int /\ Row(block) /\ Row(b) /\ Len(block) \in Nat \ {0} /\ Len(b) = Len(block) + 1
  /\ b[Len(b)] = s /\ \A j \in 1..Len(block) : b[j] = block[j]
  /\ p + Len(b) = got + 1
  /\ Cut(list, got, nlabel, Append(llist, block), pos)
  /\ \A d \in Nat : got <= d => Filled(list, d, b, p, Len(b) - 1)
  /\ Len(llist) \in Nat
  /\ \A k \in 1..Len(llist) : Ended(list, got, llist[k], pos[k]) /\ Row(llist[k]) /\ pos[k] \in Int

LEMMA Grown ==
  ASSUME Proper(list), Rest, Row(llist), state = "IN", NEW pos, CutAt(pos), NEW s,
         NEW b, b = Append(block, s)
  PROVE  GrownTo(pos, pos[Len(llist) + 1], b, s)
  <1> DEFINE n == Len(llist)
             p == pos[n + 1]
             A == Append(llist, block)
  <1>1. made = A
    BY DEF made
  <1>2. /\ Cut(list, got, nlabel, A, pos)
        /\ \A k \in 1..n : Ended(list, got, llist[k], pos[k])
        /\ Filled(list, got, block, p, Len(block)) /\ p + Len(block) = got /\ Row(block)
    BY <1>1 DEF CutAt
  <1>3. n \in Nat /\ Row(A) /\ Len(A) = n + 1 /\ A[n + 1] = block /\ \A k \in 1..n : A[k] = llist[k]
    <2>1. n \in Nat
      BY DEF Row
    <2> QED
      BY <2>1, RowAppend
  <1> HIDE DEF A
  <1>4. ASSUME NEW k \in 1..(n + 1) PROVE pos[k] \in Int /\ Row(A[k]) /\ Len(A[k]) # 0
    BY <1>2, <1>3 DEF Cut
  <1>5. n + 1 \in 1..(n + 1) /\ \A k \in 1..n : k \in 1..(n + 1)
    BY <1>3
  <1>6. p \in Int /\ Len(block) \in Nat \ {0} /\ \A k \in 1..n : Row(llist[k]) /\ pos[k] \in Int
    <2>1. p \in Int /\ Len(block) # 0
      BY <1>3, <1>4, <1>5
    <2>2. \A k \in 1..n : Row(llist[k]) /\ pos[k] \in Int
      BY <1>3, <1>4, <1>5
    <2> QED
      BY <1>2, <2>1, <2>2 DEF Row
  <1>7. Row(b) /\ Len(b) = Len(block) + 1 /\ b[Len(b)] = s /\ \A j \in 1..Len(block) : b[j] = block[j]
    BY <1>2, RowAppend
  <1> HIDE DEF p
  <1>8. p + Len(b) = got + 1
    <2>1. got \in Nat
      BY GotFacts
    <2> QED
      BY <1>2, <1>6, <1>7, <2>1
  <1>9. ASSUME NEW d \in Nat, got <= d PROVE Filled(list, d, b, p, Len(b) - 1)
    <2>1. got \in Nat
      BY GotFacts
    <2>2. \A i \in 1..got : i \in 1..d
      BY <1>9, <2>1
    <2>3. \A j \in 2..(Len(b) - 1) : j \in 2..Len(block) /\ b[j] = block[j]
      BY <1>6, <1>7
    <2> QED
      BY <1>2, <2>2, <2>3 DEF Filled
  <1> QED
    BY <1>2, <1>3, <1>6, <1>7, <1>8, <1>9 DEF A, p, GrownTo

LEMMA Adds ==
  ASSUME Proper(list), nlabel \in Nat \ {0}, Cutting, addStm
  PROVE  Cutting' /\ nlabel' \in Nat \ {0}
  <1> DEFINE s == Head(stms)
             n == Len(llist)
  <1>1. /\ stms # << >> /\ state = "IN" /\ s.kind # "label" /\ stms' = Tail(stms) /\ block' = Append(block, s)
        /\ list' = list /\ env' = env /\ out' = out /\ nlabel' = nlabel
        /\ IF s.kind \in {"jump", "cjump"} THEN state' = "OUT" /\ llist' = Append(llist, block')
           ELSE state' = "IN" /\ llist' = llist
    BY DEF addStm
  <1>2. Rest /\ Row(llist) /\ out = << >> /\ env = {} /\ \E pos : CutAt(pos)
    BY DEF Cutting
  <1>3. PICK pos : CutAt(pos)
    BY <1>2
  <1> DEFINE p == pos[n + 1]
  <1>4. /\ Len(list) \in Nat \ {0} /\ Len(stms) \in Nat /\ got \in Nat /\ got <= Len(list)
        /\ got + 1 \in 1..Len(list) /\ s = list[got + 1] /\ Statement(s)
        /\ Row(Tail(stms)) /\ Len(Tail(stms)) = Len(stms) - 1
        /\ \A i \in 1..Len(Tail(stms)) : Tail(stms)[i] = list[got + 1 + i]
    BY <1>1, <1>2, GotFacts
  <1>5. PICK b : b = Append(block, s)
    OBVIOUS
  <1>6. /\ p \in Int /\ Row(block) /\ Row(b) /\ Len(block) \in Nat \ {0} /\ Len(b) = Len(block) + 1
        /\ b[Len(b)] = s /\ \A j \in 1..Len(block) : b[j] = block[j]
        /\ p + Len(b) = got + 1
        /\ Cut(list, got, nlabel, Append(llist, block), pos)
        /\ \A d \in Nat : got <= d => Filled(list, d, b, p, Len(b) - 1)
        /\ n \in Nat
        /\ \A k \in 1..n : Ended(list, got, llist[k], pos[k]) /\ Row(llist[k]) /\ pos[k] \in Int
    <2>1. GrownTo(pos, p, b, s)
      BY <1>1, <1>2, <1>3, <1>5, Grown
    <2> HIDE DEF p, s
    <2> QED
      BY <2>1 DEF GrownTo
  <1>7. got' = got + 1
    <2>1. list' = list /\ Len(stms') = Len(stms) - 1
      BY <1>1, <1>4
    <2> QED
      BY <1>4, <2>1 DEF got
  <1>8. Rest'
    <2>1. Row(stms') /\ Len(stms') <= Len(list')
      <3>1. Len(stms') = Len(stms) - 1 /\ Row(stms')
        BY <1>1, <1>4
      <3>2. Len(stms) <= Len(list)
        BY <1>2 DEF Rest
      <3> QED
        BY <1>1, <1>4, <3>1, <3>2
    <2>2. \A i \in 1..Len(stms') : stms'[i] = list'[got' + i]
      BY <1>1, <1>4, <1>7
    <2> QED
      BY <2>1, <2>2 DEF Rest
  <1>9. made' = Append(llist, b)
    BY <1>1, <1>5 DEF made
  <1>10. Cut(list, got + 1, nlabel, Append(llist, b), pos)
    <2>1. b[1] = block[1] /\ Len(b) # 0 /\ got + 1 \in Nat /\ got <= got + 1
      BY <1>4, <1>6
    <2>2. \A i \in (got + 1)..(got + 1) : list[i].kind # "label"
      BY <1>1, <1>4
    <2> QED
      BY <1>2, <1>4, <1>6, <2>1, <2>2, CutMore
  <1>11. Cut(list', got', nlabel', made', pos)
    BY <1>1, <1>7, <1>9, <1>10
  <1>12. \A k \in 1..n : Ended(list, got + 1, llist[k], pos[k])
    <2> SUFFICES ASSUME NEW k \in 1..n PROVE Ended(list, got + 1, llist[k], pos[k])
      OBVIOUS
    <2>1. got + 1 \in Nat /\ got <= got + 1
      BY <1>4
    <2> QED
      BY <1>4, <1>6, <2>1, EndedOn
  <1>13. Filled(list, got + 1, b, p, Len(b) - 1)
    <2>1. got + 1 \in Nat /\ got <= got + 1
      BY <1>4
    <2> QED
      BY <1>6, <2>1
  <1> HIDE DEF p
  <1>14. p + Len(b) \in 1..(got + 1) /\ list[p + Len(b)] = b[Len(b)] /\ Len(b) \in Nat /\ 2 <= Len(b)
    BY <1>4, <1>6
  <1>15. CASE s.kind \in {"jump", "cjump"}
    <2>1. Ended(list, got + 1, b, p)
      BY <1>6, <1>13, <1>14, <1>15 DEF Ended, Stops
    <2>2. llist' = Append(llist, b) /\ state' = "OUT"
      BY <1>1, <1>5, <1>15
    <2>3. Row(llist') /\ Len(llist') = n + 1 /\ llist'[n + 1] = b /\ \A k \in 1..n : llist'[k] = llist[k]
      BY <1>2, <2>2, RowAppend
    <2>4. \A k \in 1..Len(llist') : Ended(list', got', llist'[k], pos[k])
      <3> SUFFICES ASSUME NEW k \in 1..(n + 1) PROVE Ended(list, got + 1, llist'[k], pos[k])
        BY <1>1, <1>7, <2>3
      <3>1. k = n + 1 \/ k \in 1..n
        BY <1>6
      <3> QED
        BY <1>12, <2>1, <2>3, <3>1 DEF p
    <2>5. CutAt(pos)'
      BY <1>11, <2>2, <2>4 DEF CutAt
    <2> QED
      BY <1>1, <1>2, <1>8, <2>3, <2>5 DEF Cutting
  <1>16. CASE s.kind \notin {"jump", "cjump"}
    <2>1. llist' = llist /\ state' = "IN" /\ block' = b
      BY <1>1, <1>5, <1>16
    <2>2. s.kind = "op"
      BY <1>1, <1>4, <1>16, Kinds
    <2>3. Filled(list, got + 1, b, p, Len(b))
      <3> SUFFICES ASSUME NEW j \in 2..Len(b)
                   PROVE  p + j \in 1..(got + 1) /\ list[p + j] = b[j] /\ b[j].kind = "op"
        BY DEF Filled
      <3>1. j = Len(b) \/ j \in 2..(Len(b) - 1)
        BY <1>14
      <3> QED
        BY <1>6, <1>13, <1>14, <2>2, <3>1 DEF Filled
    <2>4. /\ Filled(list', got', block', pos[Len(llist') + 1], Len(block'))
          /\ pos[Len(llist') + 1] + Len(block') = got' /\ Row(block')
      BY <1>1, <1>6, <1>7, <2>1, <2>3 DEF p
    <2>5. \A k \in 1..Len(llist') : Ended(list', got', llist'[k], pos[k])
      BY <1>1, <1>7, <1>12, <2>1
    <2>6. CutAt(pos)'
      BY <1>11, <2>4, <2>5 DEF CutAt
    <2> QED
      BY <1>1, <1>2, <1>8, <2>1, <2>6 DEF Cutting
  <1> QED
    BY <1>15, <1>16

LEMMA Ends ==
  ASSUME Proper(list), nlabel \in Nat \ {0}, Cutting, endBlock
  PROVE  Cutting' /\ nlabel' \in Nat \ {0}
  <1> DEFINE n == Len(llist)
             l == IF stms = << >> THEN done ELSE Head(stms).label
             s == Jump(l)
  <1>1. /\ state = "IN" /\ (stms # << >> => Head(stms).kind = "label") /\ llist' = Append(llist, Append(block, s))
        /\ state' = "OUT"
        /\ list' = list /\ stms' = stms /\ env' = env /\ out' = out /\ nlabel' = nlabel
    BY DEF endBlock, closed
  <1>2. Rest /\ Row(llist) /\ out = << >> /\ env = {} /\ \E pos : CutAt(pos)
    BY DEF Cutting
  <1>3. PICK pos : CutAt(pos)
    BY <1>2
  <1> DEFINE p == pos[n + 1]
  <1>4. /\ Len(list) \in Nat \ {0} /\ got \in Nat /\ got <= Len(list)
        /\ (stms = << >> <=> got = Len(list))
        /\ stms # << >> => got + 1 \in 1..Len(list) /\ Head(stms) = list[got + 1]
    BY <1>2, GotFacts
  <1>5. PICK b : b = Append(block, s)
    OBVIOUS
  <1>6. /\ p \in Int /\ Row(block) /\ Row(b) /\ Len(block) \in Nat \ {0} /\ Len(b) = Len(block) + 1
        /\ b[Len(b)] = s /\ \A j \in 1..Len(block) : b[j] = block[j]
        /\ p + Len(b) = got + 1
        /\ Cut(list, got, nlabel, Append(llist, block), pos)
        /\ \A d \in Nat : got <= d => Filled(list, d, b, p, Len(b) - 1)
        /\ n \in Nat
        /\ \A k \in 1..n : Ended(list, got, llist[k], pos[k]) /\ Row(llist[k]) /\ pos[k] \in Int
    <2> HIDE DEF s
    <2>1. GrownTo(pos, p, b, s)
      BY <1>1, <1>2, <1>3, <1>5, Grown
    <2> HIDE DEF p
    <2> QED
      BY <2>1 DEF GrownTo
  <1>7. got' = got
    BY <1>1 DEF got
  <1>8. Rest'
    BY <1>1, <1>2, <1>7 DEF Rest
  <1>9. made' = Append(llist, b) /\ llist' = Append(llist, b)
    BY <1>1, <1>5 DEF made
  <1>10. Cut(list, got, nlabel, Append(llist, b), pos)
    <2>1. b[1] = block[1] /\ Len(b) # 0 /\ got <= got
      BY <1>4, <1>6
    <2>2. \A i \in (got + 1)..got : list[i].kind # "label"
      BY <1>4
    <2> HIDE DEF s, p
    <2> QED
      BY <1>2, <1>4, <1>6, <2>1, <2>2, CutMore
  <1>11. Cut(list', got', nlabel', made', pos)
    BY <1>1, <1>7, <1>9, <1>10
  <1>12. Ended(list, got, b, p)
    <2>1. Filled(list, got, b, p, Len(b) - 1)
      BY <1>4, <1>6
    <2>2. 2 <= Len(b)
      BY <1>6
    <2>3. CASE stms = << >>
      <3>1. p + Len(b) = Len(list) + 1 /\ b[Len(b)] = Jump(done)
        BY <1>4, <1>6, <2>3
      <3> QED
        BY <2>1, <2>2, <3>1 DEF Ended, Stops
    <2>4. CASE stms # << >>
      <3>1. /\ p + Len(b) \in 1..Len(list) /\ list[p + Len(b)].kind = "label"
            /\ b[Len(b)] = Jump(list[p + Len(b)].label)
        BY <1>1, <1>4, <1>6, <2>4
      <3> HIDE DEF p
      <3> QED
        BY <2>1, <2>2, <3>1 DEF Ended, Stops
    <2> QED
      BY <2>3, <2>4
  <1>13. Row(llist') /\ Len(llist') = n + 1 /\ llist'[n + 1] = b /\ \A k \in 1..n : llist'[k] = llist[k]
    BY <1>2, <1>9, RowAppend
  <1>14. \A k \in 1..Len(llist') : Ended(list', got', llist'[k], pos[k])
    <2> SUFFICES ASSUME NEW k \in 1..(n + 1) PROVE Ended(list, got, llist'[k], pos[k])
      BY <1>1, <1>7, <1>13
    <2>1. k = n + 1 \/ k \in 1..n
      <3>1. n \in Nat
        BY <1>6
      <3> QED
        BY <3>1
    <2> QED
      BY <1>6, <1>12, <1>13, <2>1
  <1>15. CutAt(pos)'
    <2>1. state' # "IN"
      BY <1>1
    <2> QED
      BY <1>11, <1>14, <2>1 DEF CutAt
  <1> QED
    BY <1>1, <1>2, <1>8, <1>13, <1>15 DEF Cutting

-----------------------------------------------------------------------------
(* The list is a layout of the blocks mkBlocks has made of it.             *)

Fresh(B, n) == \A k \in 1..Len(B) : \A m \in Nat : n <= m => B[k][1].label # <<"new", m>>

(* No label is put twice, nor that of the end.                             *)
Single(z) ==
  \A i, j \in 1..Len(z) :
    z[i].kind = "label" => z[i].label # done /\ (z[j].kind = "label" /\ z[j].label = z[i].label => i = j)

LEMMA AtLabel ==
  ASSUME NEW z, Code(z), Single(z), NEW i \in 1..Len(z), z[i].kind = "label"
  PROVE  At(z, z[i].label) = i /\ z[i].label \in LabelsOf(z) /\ z[i].label # done
  <1>1. DOMAIN z = 1..Len(z)
    BY DEF Code
  <1>2. z[i].label # done
    BY DEF Single
  <1>3. z[i].label \in LabelsOf(z)
    BY <1>1 DEF LabelsOf
  <1>4. At(z, z[i].label) \in 1..Len(z) /\ z[At(z, z[i].label)].kind = "label"
        /\ z[At(z, z[i].label)].label = z[i].label
    BY <1>2, <1>3, AtIn
  <1> QED
    BY <1>2, <1>3, <1>4 DEF Single

LEMMA ListCode ==
  ASSUME NEW l, Proper(l)
  PROVE  Code(l) /\ Single(l)
  <1>1. Code(l)
    BY ListFacts DEF Code, Row
  <1>2. ASSUME NEW i \in 1..Len(l), NEW j \in 1..Len(l), l[i].kind = "label"
        PROVE  l[i].label # done /\ (l[j].kind = "label" /\ l[j].label = l[i].label => i = j)
    <2>1. l[i].label \in LabelsOf(l) /\ l[i] = Label(l[i].label)
      BY <1>2, ListFacts
    <2>2. l[j].kind = "label" => l[j] = Label(l[j].label)
      BY ListFacts
    <2> QED
      BY <1>2, <2>1, <2>2, ListFacts
  <1> QED
    BY <1>1, <1>2 DEF Single

LEMMA BlocksMade ==
  ASSUME done[1] # "new", NEW l, Proper(l), NEW n \in Nat, NEW B, NEW pos, Cut(l, Len(l), n, B, pos),
         \A k \in 1..Len(B) : Ended(l, Len(l), B[k], pos[k])
  PROVE  Blocks(B) /\ Fresh(B, n)
  <1>1. /\ Row(B) /\ Len(B) \in Nat \ {0} /\ Len(l) \in Nat
        /\ \A k \in 1..Len(B) : Row(B[k]) /\ Len(B[k]) \in Nat /\ pos[k] \in Int
    <2>1. Len(l) \in Nat \ {0}
      BY ListFacts
    <2>2. Row(B) /\ Len(B) # 0 /\ \A k \in 1..Len(B) : Row(B[k]) /\ pos[k] \in Int
      BY <2>1 DEF Cut
    <2> QED
      BY <2>1, <2>2 DEF Row
  <1>2. \A x : Label(x).kind = "label" /\ Label(x).label = x
    BY DEF Label
  <1>3. ASSUME NEW x \in LabelsOf(l) PROVE x \in {B[h][1].label : h \in 1..Len(B)}
    <2>1. DOMAIN l = 1..Len(l)
      BY ListFacts, RowLen
    <2>2. PICK i \in 1..Len(l) : l[i].kind = "label" /\ l[i].label = x
      BY <2>1 DEF LabelsOf
    <2>3. PICK k \in 1..Len(B) : pos[k] + 1 = i /\ B[k][1] = l[i]
      BY <2>2 DEF Cut
    <2> QED
      BY <2>2, <2>3
  <1>4. ASSUME NEW k \in 1..Len(B)
        PROVE  /\ B[k][1].kind = "label" /\ B[k][1].label # done /\ B[k][1] = Label(B[k][1].label)
               /\ \A m \in Nat : n <= m => B[k][1].label # <<"new", m>>
    <2>1. Named(l, Len(l), n, B[k], pos[k])
      BY DEF Cut
    <2>2. CASE pos[k] + 1 \in 1..Len(l) /\ l[pos[k] + 1] = B[k][1]
      <3> DEFINE x == B[k][1].label
      <3>1. B[k][1] = Label(x) /\ B[k][1].kind = "label"
        BY <1>2, <2>1 DEF Named
      <3>2. x \in LabelsOf(l)
        BY <2>2, <3>1, ListFacts
      <3>3. x # done /\ x[1] # "new"
        BY <3>2, ListFacts
      <3>4. \A m \in Nat : <<"new", m>>[1] = "new"
        OBVIOUS
      <3> HIDE DEF x
      <3>5. \A m \in Nat : x # <<"new", m>>
        BY <3>3, <3>4
      <3> QED
        BY <3>1, <3>3, <3>5 DEF x
    <2>3. ASSUME NEW i \in 1..(n - 1), B[k][1] = Label(<<"new", i>>)
          PROVE  /\ B[k][1].kind = "label" /\ B[k][1].label # done /\ B[k][1] = Label(B[k][1].label)
                 /\ \A m \in Nat : n <= m => B[k][1].label # <<"new", m>>
      <3>1. B[k][1].kind = "label" /\ B[k][1].label = <<"new", i>> /\ <<"new", i>>[1] = "new"
        BY <1>2, <2>3
      <3>2. \A m \in Nat : n <= m => m # i
        OBVIOUS
      <3> QED
        BY <2>3, <3>1, <3>2
    <2> QED
      BY <2>1, <2>2, <2>3 DEF Named
  <1>5. ASSUME NEW k \in 1..Len(B)
        PROVE  /\ 2 <= Len(B[k])
               /\ B[k][Len(B[k])].kind \in {"jump", "cjump"} /\ Statement(B[k][Len(B[k])])
               /\ Targets(B[k][Len(B[k])]) \subseteq LabelsOf(l) \cup {done}
               /\ \A j \in 2..(Len(B[k]) - 1) : B[k][j].kind = "op" /\ Statement(B[k][j])
    <2> DEFINE e == B[k][Len(B[k])]
               q == pos[k] + Len(B[k])
    <2>1. Filled(l, Len(l), B[k], pos[k], Len(B[k]) - 1) /\ Stops(l, Len(l), B[k], pos[k])
      BY DEF Ended
    <2>2. \A j \in 2..(Len(B[k]) - 1) : B[k][j].kind = "op" /\ Statement(B[k][j])
      BY <2>1, ListFacts DEF Filled
    <2>3. \A x : Statement(Jump(x)) /\ Jump(x).kind = "jump" /\ Targets(Jump(x)) = {x}
      BY DEF Statement, Jump, Targets
    <2>4. CASE q \in 1..Len(l) /\ l[q] = e /\ e.kind \in {"jump", "cjump"}
      BY <2>1, <2>2, <2>4, ListFacts DEF Stops
    <2>5. CASE e = Jump(done)
      BY <2>1, <2>2, <2>3, <2>5 DEF Stops
    <2>6. CASE q \in 1..Len(l) /\ l[q].kind = "label" /\ e = Jump(l[q].label)
      <3>1. l[q].label \in LabelsOf(l)
        BY <2>6, ListFacts
      <3> QED
        BY <2>1, <2>2, <2>3, <2>6, <3>1 DEF Stops
    <2> QED
      BY <2>1, <2>4, <2>5, <2>6 DEF Stops
  <1>6. Fresh(B, n)
    BY <1>4 DEF Fresh
  <1>7. ASSUME NEW k \in 1..Len(B), NEW j \in 1..Len(B[k]) PROVE Statement(B[k][j])
    <2>1. \A x : Statement(Label(x))
      BY DEF Statement, Label
    <2>2. j = 1 \/ j = Len(B[k]) \/ j \in 2..(Len(B[k]) - 1)
      BY <1>1
    <2> QED
      BY <1>4, <1>5, <2>1, <2>2
  <1>8. \A j, k \in 1..Len(B) : B[j][1].label = B[k][1].label => j = k
    BY DEF Cut
  <1>9. \A k \in 1..Len(B) : Targets(B[k][Len(B[k])]) \subseteq {B[h][1].label : h \in 1..Len(B)} \cup {done}
    BY <1>3, <1>5
  <1> QED
    BY <1>1, <1>4, <1>5, <1>6, <1>7, <1>8, <1>9 DEF Blocks

LEMMA ListLaid ==
  ASSUME done[1] # "new", NEW l, Proper(l), NEW n \in Nat, NEW B, NEW pos, Cut(l, Len(l), n, B, pos),
         \A k \in 1..Len(B) : Ended(l, Len(l), B[k], pos[k])
  PROVE  \E ent : Lays(l, B, pos, ent)
  <1> DEFINE there(k) == pos[k] + 1 \in 1..Len(l) /\ l[pos[k] + 1] = B[k][1]
             ent == [k \in 1..Len(B) |-> IF there(k) THEN pos[k] + 1 ELSE pos[k] + 2]
  <1>1. Code(l) /\ Single(l) /\ Len(l) \in Nat \ {0} /\ Blocks(B)
    BY ListCode, ListFacts, BlocksMade
  <1>2. ASSUME NEW k \in 1..Len(B)
        PROVE  /\ pos[k] \in Int /\ Len(B[k]) \in Nat /\ 2 <= Len(B[k])
               /\ B[k][1].kind = "label"
               /\ Filled(l, Len(l), B[k], pos[k], Len(B[k]) - 1) /\ Stops(l, Len(l), B[k], pos[k])
               /\ there(k) => ent[k] = pos[k] + 1
               /\ ~ there(k) => ent[k] = pos[k] + 2 /\ ent[k] \in 1..Len(l) /\ l[ent[k]].kind # "label"
    <2>1. pos[k] \in Int /\ Named(l, Len(l), n, B[k], pos[k])
      BY DEF Cut
    <2>2. Len(B[k]) \in Nat /\ 2 <= Len(B[k]) /\ B[k][1].kind = "label"
      BY <1>1 DEF Blocks
    <2>3. Filled(l, Len(l), B[k], pos[k], Len(B[k]) - 1) /\ Stops(l, Len(l), B[k], pos[k])
      BY DEF Ended
    <2>4. ~ there(k) => pos[k] + 2 \in 1..Len(l) /\ l[pos[k] + 2].kind # "label"
      BY <2>1 DEF Named
    <2> QED
      BY <2>1, <2>2, <2>3, <2>4
  <1>3. ASSUME NEW x \in LabelsOf(l) \cup {done} PROVE Goal(l, B, ent, x, At(l, x))
    <2>1. CASE x = done
      BY <2>1 DEF Goal, At
    <2>2. CASE x # done
      <3> DEFINE i == At(l, x)
      <3>1. i \in 1..Len(l) /\ l[i].kind = "label" /\ l[i].label = x
        BY <1>1, <2>2, AtIn
      <3>2. PICK k \in 1..Len(B) : pos[k] + 1 = i /\ B[k][1] = l[i]
        BY <3>1 DEF Cut
      <3> HIDE DEF i
      <3>3. ent[k] = i
        BY <1>2, <3>1, <3>2
      <3> QED
        BY <3>1, <3>2, <3>3 DEF Goal, i
    <2> QED
      BY <2>1, <2>2
  <1> HIDE DEF ent
  <1>4. ASSUME NEW k \in 1..Len(B)
        PROVE  ent[k] \in 1..Len(l) /\ ent[k] = IF l[ent[k]].kind = "label" THEN pos[k] + 1 ELSE pos[k] + 2
    BY <1>2
  <1>5. ASSUME NEW k \in 1..Len(B) PROVE EndOf(l, B, ent, B[k][Len(B[k])], pos[k] + Len(B[k]))
    <2> DEFINE e == B[k][Len(B[k])]
               q == pos[k] + Len(B[k])
    <2> SUFFICES EndOf(l, B, ent, e, q)
      OBVIOUS
    <2>1. /\ pos[k] \in Int /\ Len(B[k]) \in Nat
          /\ \/ q \in 1..Len(l) /\ l[q] = e /\ e.kind \in {"jump", "cjump"}
             \/ q = Len(l) + 1 /\ e = Jump(done)
             \/ q \in 1..Len(l) /\ l[q].kind = "label" /\ e = Jump(l[q].label)
      BY <1>2 DEF Stops
    <2>2. Len(l) \in Nat /\ \A i \in 1..Len(l) : i \in Places(l)
      BY <1>1 DEF Places
    <2>3. \A x : Jump(x).kind = "jump" /\ Jump(x).label = x
      BY DEF Jump
    <2>4. CASE q \in 1..Len(l) /\ l[q] = e /\ e.kind = "jump"
      <3> DEFINE x == e.label
                 r == At(l, x)
      <3>1. x \in LabelsOf(l) \cup {done}
        <4>1. Statement(e) /\ Targets(e) \subseteq LabelsOf(l) \cup {done}
          BY <2>4, ListFacts
        <4> QED
          BY <2>4, <4>1, Kinds
      <3>2. r \in Places(l) /\ (r # Len(l) + 1 => l[r].kind = "label")
        <4>1. x = done => r = Len(l) + 1
          BY DEF At
        <4> QED
          BY <1>1, <3>1, <4>1, AtIn
      <3>3. Leads(l, q, r)
        <4>1. Silent(l, q, r)
          BY <2>4 DEF Silent
        <4> HIDE DEF q, r
        <4> QED
          BY <3>2, <4>1, LeadsStep
      <3>4. Goal(l, B, ent, x, r)
        BY <1>3, <3>1
      <3> QED
        BY <2>2, <2>4, <3>2, <3>3, <3>4 DEF EndOf
    <2>5. CASE q \in 1..Len(l) /\ l[q] = e /\ e.kind = "cjump"
      <3>1. ASSUME NEW b \in BOOLEAN
            PROVE  Goal(l, B, ent, chosen(e, b), At(l, chosen(l[q], b))) /\ Leads(l, At(l, chosen(l[q], b)), At(l, chosen(l[q], b)))
        <4>1. Statement(e) /\ Targets(e) \subseteq LabelsOf(l) \cup {done}
          BY <2>5, ListFacts
        <4>2. chosen(e, b) \in LabelsOf(l) \cup {done}
          BY <2>5, <4>1, Kinds
        <4> HIDE DEF e, q
        <4> QED
          BY <1>3, <2>5, <4>2, LeadsSelf
      <3> HIDE DEF q, e
      <3> QED
        BY <2>2, <2>5, <3>1 DEF EndOf
    <2>6. CASE q = Len(l) + 1 /\ e = Jump(done)
      <3>1. Goal(l, B, ent, done, q) /\ Leads(l, q, q)
        BY <2>6, LeadsSelf DEF Goal
      <3>2. q \in Places(l)
        BY <2>2, <2>6 DEF Places
      <3> HIDE DEF q, e
      <3> QED
        BY <2>3, <2>6, <3>1, <3>2 DEF EndOf
    <2>7. CASE q \in 1..Len(l) /\ l[q].kind = "label" /\ e = Jump(l[q].label)
      <3>1. At(l, l[q].label) = q /\ l[q].label \in LabelsOf(l)
        BY <1>1, <2>7, AtLabel
      <3> HIDE DEF q, e
      <3>2. Goal(l, B, ent, l[q].label, q) /\ Leads(l, q, q)
        BY <1>3, <3>1, LeadsSelf
      <3> QED
        BY <2>2, <2>3, <2>7, <3>2 DEF EndOf
    <2> QED
      BY <2>1, <2>4, <2>5, <2>6, <2>7
  <1>6. Leads(l, 1, ent[1])
    <2>1. 1 \in 1..Len(B) /\ Len(B) # 0
      BY <1>1 DEF Blocks
    <2>2. pos[1] = -1 \/ (pos[1] = 0 /\ l[1] = B[1][1])
      BY <2>1 DEF Cut
    <2>3. ent[1] = 1
      <3>1. CASE pos[1] = -1
        <4>1. ~ there(1)
          BY <3>1
        <4> QED
          BY <1>2, <2>1, <3>1, <4>1
      <3>2. CASE pos[1] = 0 /\ l[1] = B[1][1]
        <4>1. there(1)
          BY <1>1, <3>2
        <4> QED
          BY <1>2, <2>1, <3>2, <4>1
      <3> QED
        BY <2>2, <3>1, <3>2
    <2> QED
      BY <2>3, LeadsSelf
  <1>7. \A k \in 1..Len(B) : \A j \in 2..(Len(B[k]) - 1) : pos[k] + j \in 1..Len(l) /\ l[pos[k] + j] = B[k][j]
    BY <1>2 DEF Filled
  <1> HIDE DEF there
  <1>8. \A k \in 1..Len(B) : pos[k] \in Int
    BY <1>2
  <1>9. Lays(l, B, pos, ent)
    BY <1>1, <1>4, <1>5, <1>6, <1>7, <1>8 DEF Lays
  <1> QED
    BY <1>9

-----------------------------------------------------------------------------
(* The blocks one after the other are a layout of them.                    *)

(* A function can be defined by what its value at 0 is and how each other  *)
(* value follows from the one before.                                      *)
Iteration(f, N, A, a, G) ==
  f \in [0..N -> A] /\ f[0] = a /\ \A k \in 1..N : f[k] = G[<<k, f[k - 1]>>]

LEMMA Iterates ==
  ASSUME NEW N \in Nat, NEW A, NEW a \in A, NEW G \in [(1..N) \X A -> A]
  PROVE  \E f : Iteration(f, N, A, a, G)
  <1> DEFINE P(n, f) == f[0] = a /\ \A k \in 1..n : f[k] = G[<<k, f[k - 1]>>]
             S == {n \in Nat : n <= N => \E f \in [0..n -> A] : P(n, f)}
  <1>1. 0 \in S
    <2>1. [k \in 0..0 |-> a] \in [0..0 -> A] /\ P(0, [k \in 0..0 |-> a])
      OBVIOUS
    <2> QED
      BY <2>1
  <1>2. ASSUME NEW n \in Nat, n \in S, n + 1 <= N PROVE \E f \in [0..(n + 1) -> A] : P(n + 1, f)
    <2>1. PICK f \in [0..n -> A] : P(n, f)
      BY <1>2
    <2> DEFINE g == [k \in 0..(n + 1) |-> IF k = n + 1 THEN G[<<n + 1, f[n]>>] ELSE f[k]]
    <2>2. <<n + 1, f[n]>> \in (1..N) \X A
      BY <1>2
    <2>3. g \in [0..(n + 1) -> A]
      BY <2>2
    <2>4. P(n + 1, g)
      <3>1. g[0] = a
        BY <2>1
      <3>2. ASSUME NEW k \in 1..(n + 1) PROVE g[k] = G[<<k, g[k - 1]>>]
        <4>1. CASE k = n + 1
          <5>1. g[k - 1] = f[n] /\ g[k] = G[<<n + 1, f[n]>>]
            BY <4>1
          <5> QED
            BY <4>1, <5>1
        <4>2. CASE k # n + 1
          <5>1. k \in 1..n /\ g[k] = f[k] /\ g[k - 1] = f[k - 1]
            BY <4>2
          <5> QED
            BY <5>1, <2>1
        <4> QED
          BY <4>1, <4>2
      <3> QED
        BY <3>1, <3>2
    <2> QED
      BY <2>3, <2>4
  <1>3. \A n \in Nat : n \in S
    <2>1. \A n \in Nat : n \in S => n + 1 \in S
      BY <1>2
    <2> HIDE DEF S
    <2> QED
      BY <1>1, <2>1, Induction
  <1> QED
    BY <1>3 DEF Iteration

(* Where the parts of FlattenSeq(seqs) are. *)
Parts(all, n, seqs, start) ==
  /\ start \in [1..(n + 1) -> Nat] /\ start[1] = 0 /\ start[n + 1] = Len(all)
  /\ \A i \in 1..n : start[i + 1] = start[i] + Len(seqs[i])
  /\ \A i \in 1..n : \A k \in 1..Len(seqs[i]) :
       start[i] + k \in 1..Len(all) /\ all[start[i] + k] = seqs[i][k]
  /\ \A j \in 1..Len(all) : \E i \in 1..n : \E k \in 1..Len(seqs[i]) : j = start[i] + k
  /\ \A i, h \in 1..n : \A k \in 1..Len(seqs[i]), m \in 1..Len(seqs[h]) :
       start[i] + k = start[h] + m => i = h /\ k = m

LEMMA Flattened ==
  ASSUME NEW S, NEW n \in Nat, n # 0, NEW seqs \in [1..n -> Seq(S)],
         NEW all, all = FlattenSeq(seqs)
  PROVE  all \in Seq(S) /\ \E start : Parts(all, n, seqs, start)
  <1> DEFINE A == Seq(S)
             G == [z \in (1..n) \X A |-> z[2] \o seqs[z[1]]]
             empty == << >>
  <1>1. \A i \in 1..n : seqs[i] \in A /\ Len(seqs[i]) \in Nat
    OBVIOUS
  <1>2. G \in [(1..n) \X A -> A] /\ empty \in A
    BY <1>1
  <1>3. PICK f : Iteration(f, n, A, empty, G)
    <2> HIDE DEF A, G, empty
    <2> QED
      BY <1>2, Iterates
  <1>0. f \in [0..n -> Seq(S)] /\ f[0] = << >>
    BY <1>3 DEF Iteration
  <1>4. \A k \in 1..n : f[k] = f[k - 1] \o seqs[k] /\ f[k - 1] \in A /\ f[k] \in A
    <2> SUFFICES ASSUME NEW k \in 1..n PROVE f[k] = f[k - 1] \o seqs[k] /\ f[k - 1] \in A /\ f[k] \in A
      OBVIOUS
    <2>1. f[k] = G[<<k, f[k - 1]>>]
      <3> HIDE DEF A, G, empty
      <3> QED
        BY <1>3 DEF Iteration
    <2>2. k - 1 \in 0..n /\ k \in 0..n
      OBVIOUS
    <2>3. f[k - 1] \in A /\ f[k] \in A
      BY <1>0, <2>2
    <2>4. G[<<k, f[k - 1]>>] = f[k - 1] \o seqs[k]
      <3> HIDE DEF A
      <3> QED
        BY <2>3
    <2> QED
      BY <2>1, <2>3, <2>4
  <1>41. f[1] = seqs[1]
    <2>1. 1 \in 1..n /\ 1 - 1 = 0
      OBVIOUS
    <2>2. f[1] = f[0] \o seqs[1]
      BY <1>4, <2>1
    <2>3. f[0] \o seqs[1] = empty \o seqs[1]
      <3> HIDE DEF A, G
      <3> QED
        BY <1>0
    <2>4. empty \o seqs[1] = seqs[1]
      BY <1>1, <2>1, ConcatEmptySeq
    <2> HIDE DEF empty, A, G
    <2> QED
      BY <2>2, <2>3, <2>4
  <1>5. all = f[n]
    <2> DEFINE def(g) == [i \in 1..n |-> IF i = 1 THEN seqs[i] ELSE g[i - 1] \o seqs[i]]
               flatten == CHOOSE g : g = def(g)
    <2>1. all = flatten[n]
      <3>1. Len(seqs) = n
        OBVIOUS
      <3> QED
        BY <3>1 DEF FlattenSeq
    <2>2. \E g : g = def(g)
      <3> DEFINE g == [i \in 1..n |-> f[i]]
      <3>1. ASSUME NEW i \in 1..n PROVE g[i] = IF i = 1 THEN seqs[i] ELSE g[i - 1] \o seqs[i]
        <4>1. CASE i = 1
          <5> HIDE DEF A, G, empty
          <5> QED
            BY <1>41, <4>1
        <4>2. CASE i # 1
          <5>1. i - 1 \in 1..n
            BY <4>2
          <5> QED
            BY <1>4, <4>2, <5>1
        <4> QED
          BY <4>1, <4>2
      <3>2. g = def(g)
        BY <3>1
      <3> QED
        BY <3>2
    <2>3. flatten = def(flatten)
      <3> HIDE DEF def
      <3> QED
        BY <2>2
    <2> HIDE DEF flatten
    <2>4. \A i \in 1..n : flatten[i] = IF i = 1 THEN seqs[i] ELSE flatten[i - 1] \o seqs[i]
      BY <2>3
    <2> DEFINE T == {k \in Nat : k + 1 <= n => flatten[k + 1] = f[k + 1]}
    <2>5. 0 \in T
      <3>1. 1 \in 1..n /\ 0 + 1 = 1
        OBVIOUS
      <3>2. flatten[1] = seqs[1]
        BY <2>4, <3>1
      <3> QED
        BY <1>41, <3>1, <3>2
    <2>6. ASSUME NEW k \in Nat, k \in T PROVE k + 1 \in T
      <3> SUFFICES ASSUME k + 2 <= n PROVE flatten[k + 2] = f[k + 2]
        OBVIOUS
      <3>1. flatten[k + 1] = f[k + 1]
        BY <2>6
      <3>2. k + 2 \in 1..n /\ k + 2 # 1 /\ (k + 2) - 1 = k + 1
        OBVIOUS
      <3>3. flatten[k + 2] = flatten[k + 1] \o seqs[k + 2]
        BY <2>4, <3>2
      <3>4. f[k + 2] = f[k + 1] \o seqs[k + 2]
        BY <1>4, <3>2
      <3> QED
        BY <3>1, <3>3, <3>4
    <2>7. \A k \in Nat : k \in T
      <3> HIDE DEF T
      <3> QED
        BY <2>5, <2>6, Induction
    <2>8. n - 1 \in Nat /\ (n - 1) + 1 = n
      OBVIOUS
    <2>9. flatten[(n - 1) + 1] = f[(n - 1) + 1]
      <3>1. n - 1 \in T
        BY <2>7, <2>8
      <3> HIDE DEF A, G, empty
      <3> QED
        BY <2>8, <3>1
    <2> QED
      BY <2>1, <2>8, <2>9
  <1> DEFINE start == [i \in 1..(n + 1) |-> Len(f[i - 1])]
  <1>6. \A i \in 0..n : f[i] \in Seq(S) /\ Len(f[i]) \in Nat
    BY <1>0
  <1>7. \A i \in 1..n : /\ Len(f[i]) = Len(f[i - 1]) + Len(seqs[i])
                        /\ \A k \in 1..Len(f[i]) :
                             f[i][k] = IF k <= Len(f[i - 1]) THEN f[i - 1][k]
                                       ELSE seqs[i][k - Len(f[i - 1])]
    <2> SUFFICES ASSUME NEW i \in 1..n
                 PROVE  /\ Len(f[i]) = Len(f[i - 1]) + Len(seqs[i])
                        /\ \A k \in 1..Len(f[i]) :
                             f[i][k] = IF k <= Len(f[i - 1]) THEN f[i - 1][k]
                                       ELSE seqs[i][k - Len(f[i - 1])]
      OBVIOUS
    <2> DEFINE p == f[i - 1]
               q == seqs[i]
               r == f[i]
    <2>1. r = p \o q /\ p \in Seq(S) /\ q \in Seq(S)
      BY <1>1, <1>4
    <2> HIDE DEF p, q, r
    <2>2. /\ Len(r) = Len(p) + Len(q)
          /\ \A k \in 1..Len(r) : r[k] = IF k <= Len(p) THEN p[k] ELSE q[k - Len(p)]
      BY <2>1, ConcatProperties
    <2> QED
      BY <2>2 DEF p, q, r
  <1> HIDE DEF A, G, empty
  (* What is there after i parts stays where it is. *)
  <1>8. ASSUME NEW i \in 0..n
        PROVE  \A m \in i..n : Len(f[i]) <= Len(f[m]) /\ \A k \in 1..Len(f[i]) : f[m][k] = f[i][k]
    <2> DEFINE T == {d \in Nat : i + d <= n =>
                       Len(f[i]) <= Len(f[i + d]) /\ \A k \in 1..Len(f[i]) : f[i + d][k] = f[i][k]}
    <2>1. 0 \in T
      BY <1>6
    <2>2. ASSUME NEW d \in Nat, d \in T PROVE d + 1 \in T
      <3> SUFFICES ASSUME i + (d + 1) <= n
                   PROVE  /\ Len(f[i]) <= Len(f[i + (d + 1)])
                          /\ \A k \in 1..Len(f[i]) : f[i + (d + 1)][k] = f[i][k]
        OBVIOUS
      <3> DEFINE m == i + (d + 1)
      <3>1. m \in 1..n /\ m - 1 = i + d /\ m - 1 \in 0..n
        OBVIOUS
      <3>2. Len(f[i]) <= Len(f[m - 1]) /\ \A k \in 1..Len(f[i]) : f[m - 1][k] = f[i][k]
        BY <2>2, <3>1
      <3>3. Len(f[m]) \in Nat /\ Len(f[m - 1]) \in Nat /\ Len(f[i]) \in Nat /\ Len(seqs[m]) \in Nat
        BY <1>1, <1>6, <3>1
      <3>4. Len(f[m]) = Len(f[m - 1]) + Len(seqs[m])
            /\ \A k \in 1..Len(f[m]) : k <= Len(f[m - 1]) => f[m][k] = f[m - 1][k]
        BY <1>7, <3>1
      <3> HIDE DEF m
      <3> DEFINE li == Len(f[i])
                 lp == Len(f[m - 1])
                 lm == Len(f[m])
                 ls == Len(seqs[m])
      <3>0. li \in Nat /\ lp \in Nat /\ ls \in Nat /\ lm = lp + ls /\ li <= lp
        BY <3>2, <3>3, <3>4
      <3>5. Len(f[i]) <= Len(f[m])
        <4> SUFFICES li <= lm
          OBVIOUS
        <4> HIDE DEF li, lp, lm, ls
        <4> QED
          BY <3>0
      <3>6. ASSUME NEW k \in 1..Len(f[i]) PROVE f[m][k] = f[i][k]
        <4>1. k <= Len(f[m - 1]) /\ k \in 1..Len(f[m])
          <5> SUFFICES k <= lp /\ k \in 1..lm
            OBVIOUS
          <5>1. k \in 1..li
            OBVIOUS
          <5> HIDE DEF li, lp, lm, ls
          <5> QED
            BY <3>0, <5>1
        <4> QED
          BY <3>2, <3>4, <4>1
      <3> QED
        BY <3>5, <3>6 DEF m
    <2>3. \A d \in Nat : d \in T
      <3> HIDE DEF T
      <3> QED
        BY <2>1, <2>2, Induction
    <2> SUFFICES ASSUME NEW m \in i..n
                 PROVE  Len(f[i]) <= Len(f[m]) /\ \A k \in 1..Len(f[i]) : f[m][k] = f[i][k]
      OBVIOUS
    <2>4. m - i \in Nat /\ i + (m - i) = m /\ m <= n
      OBVIOUS
    <2> QED
      BY <2>3, <2>4
  <1>9. start \in [1..(n + 1) -> Nat] /\ start[1] = 0 /\ start[n + 1] = Len(all)
    <2>1. ASSUME NEW i \in 1..(n + 1) PROVE Len(f[i - 1]) \in Nat
      BY <1>6
    <2> QED
      BY <1>0, <1>5, <2>1
  <1>10. \A i \in 1..n : start[i] = Len(f[i - 1]) /\ start[i + 1] = Len(f[i])
                         /\ start[i + 1] = start[i] + Len(seqs[i]) /\ start[i] \in Nat
    <2> SUFFICES ASSUME NEW i \in 1..n
                 PROVE  start[i] = Len(f[i - 1]) /\ start[i + 1] = Len(f[i])
                         /\ start[i + 1] = start[i] + Len(seqs[i]) /\ start[i] \in Nat
      OBVIOUS
    <2>1. i \in 1..(n + 1) /\ i + 1 \in 1..(n + 1) /\ (i + 1) - 1 = i /\ i - 1 \in 0..n
      OBVIOUS
    <2>2. start[i] = Len(f[i - 1]) /\ start[i + 1] = Len(f[i])
      BY <2>1
    <2> HIDE DEF start
    <2> QED
      BY <1>6, <1>7, <2>1, <2>2
  <1> HIDE DEF start
  <1>11. ASSUME NEW i \in 1..n, NEW k \in 1..Len(seqs[i])
         PROVE  start[i] + k \in 1..Len(all) /\ all[start[i] + k] = seqs[i][k]
    <2> DEFINE j == start[i] + k
    <2>1. Len(f[i]) = start[i] + Len(seqs[i]) /\ start[i] \in Nat /\ Len(seqs[i]) \in Nat
      BY <1>1, <1>10
    <2>2. j \in 1..Len(f[i]) /\ ~ (j <= start[i]) /\ j - start[i] = k
      BY <2>1
    <2>3. f[i][j] = seqs[i][k]
      <3> HIDE DEF j
      <3>1. f[i][j] = seqs[i][j - start[i]]
        BY <1>7, <1>10, <2>2
      <3> QED
        BY <2>2, <3>1
    <2>4. Len(f[i]) <= Len(f[n]) /\ f[n][j] = f[i][j]
      <3>1. i \in 0..n /\ n \in i..n
        OBVIOUS
      <3> HIDE DEF j
      <3> QED
        BY <1>8, <2>2, <3>1
    <2>5. Len(f[n]) \in Nat /\ Len(f[i]) \in Nat
      BY <1>6
    <2> QED
      BY <1>5, <2>2, <2>3, <2>4, <2>5
  <1>12. ASSUME NEW j \in 1..Len(all) PROVE \E i \in 1..n : \E k \in 1..Len(seqs[i]) : j = start[i] + k
    <2> DEFINE T == {i \in 0..n : j <= Len(f[i])}
    <2>1. T \in SUBSET Nat /\ n \in T
      BY <1>5
    <2>2. PICK i \in T : \A h \in T : i <= h
      <3> HIDE DEF T
      <3> QED
        BY <2>1, Least
    <2>3. i # 0
      <3>1. Len(f[0]) = 0
        BY <1>0
      <3> QED
        BY <2>2, <3>1
    <2>4. i \in 1..n /\ i - 1 \in 0..n /\ i - 1 \notin T
      BY <2>2, <2>3
    <2>5. j > Len(f[i - 1]) /\ j <= Len(f[i])
      BY <1>6, <2>2, <2>4
    <2>6. start[i] = Len(f[i - 1]) /\ Len(f[i]) = start[i] + Len(seqs[i]) /\ start[i] \in Nat
          /\ Len(seqs[i]) \in Nat
      BY <1>1, <1>10, <2>4
    <2>7. j - start[i] \in 1..Len(seqs[i]) /\ j = start[i] + (j - start[i])
      <3> DEFINE p == start[i]
                 l == Len(seqs[i])
      <3>1. j \in Int /\ j > p /\ j <= p + l /\ p \in Nat /\ l \in Nat
        <4>1. j \in Int
          OBVIOUS
        <4>2. p \in Nat /\ l \in Nat
          BY <2>6
        <4>3. j > p
          BY <2>5, <2>6
        <4>4. j <= p + l
          BY <2>5, <2>6
        <4> QED
          BY <4>1, <4>2, <4>3, <4>4
      <3> HIDE DEF p, l
      <3>2. j - p \in 1..l /\ j = p + (j - p)
        BY <3>1
      <3> QED
        BY <3>2 DEF p, l
    <2> QED
      BY <2>4, <2>7
  <1>13. ASSUME NEW i \in 1..n, NEW h \in 1..n, i < h PROVE start[i] + Len(seqs[i]) <= start[h]
    <2>1. i \in 0..n /\ h - 1 \in i..n
      BY <1>13
    <2>2. Len(f[i]) <= Len(f[h - 1])
      BY <1>8, <2>1
    <2> QED
      BY <1>10, <2>2
  <1>14. ASSUME NEW i \in 1..n, NEW h \in 1..n, NEW k \in 1..Len(seqs[i]), NEW m \in 1..Len(seqs[h]),
                start[i] + k = start[h] + m
         PROVE  i = h /\ k = m
    <2>1. start[i] \in Nat /\ start[h] \in Nat /\ Len(seqs[i]) \in Nat /\ Len(seqs[h]) \in Nat
      BY <1>1, <1>10
    <2>2. ~ (i < h)
      BY <1>13, <1>14, <2>1
    <2>3. ~ (h < i)
      BY <1>13, <1>14, <2>1
    <2>4. i = h
      BY <2>2, <2>3
    <2> QED
      BY <1>14, <2>1, <2>4
  <1>15. all \in Seq(S)
    BY <1>5, <1>6
  <1>16. \A i \in 1..n : start[i + 1] = start[i] + Len(seqs[i])
    BY <1>10
  <1>17. Parts(all, n, seqs, start)
    BY <1>9, <1>11, <1>12, <1>14, <1>16 DEF Parts
  <1> QED
    BY <1>15, <1>17

LEMMA FlatLaid ==
  ASSUME NEW B, Blocks(B), Row(B), \A k \in 1..Len(B) : Row(B[k]), NEW z, z = FlattenSeq(B)
  PROVE  \E pos, ent : Lays(z, B, pos, ent)
  <1> DEFINE S == UNION {Elements(B[k]) : k \in 1..Len(B)}
             n == Len(B)
  <1>1. n \in Nat /\ n # 0
    BY DEF Blocks
  <1>2. B \in [1..n -> Seq(S)]
    <2>1. \A k \in 1..n : B[k] \in Seq(S)
      <3> SUFFICES ASSUME NEW k \in 1..n PROVE B[k] \in Seq(S)
        OBVIOUS
      <3>1. Elements(B[k]) \subseteq S /\ Row(B[k])
        OBVIOUS
      <3> HIDE DEF S
      <3> QED
        BY <3>1, RowSeq
    <2>2. B = [k \in 1..n |-> B[k]]
      BY Zenon DEF Row
    <2> HIDE DEF S, n
    <2> QED
      BY <2>1, <2>2
  <1> HIDE DEF S
  <1>3. z \in Seq(S) /\ \E start : Parts(z, n, B, start)
    <2> HIDE DEF n
    <2> QED
      BY <1>1, <1>2, Flattened
  <1>4. PICK pos : Parts(z, n, B, pos)
    BY <1>3
  <1> DEFINE ent == [k \in 1..n |-> pos[k] + 1]
  <1>5. /\ pos[1] = 0
        /\ \A i \in 1..n : pos[i] \in Nat
        /\ \A i \in 1..n : \A k \in 1..Len(B[i]) : pos[i] + k \in 1..Len(z) /\ z[pos[i] + k] = B[i][k]
        /\ \A j \in 1..Len(z) : \E i \in 1..n : \E k \in 1..Len(B[i]) : j = pos[i] + k
    <2>1. \A i \in 1..n : i \in 1..(n + 1)
      BY <1>1
    <2> HIDE DEF n
    <2> QED
      BY <1>4, <2>1 DEF Parts
  <1>6. /\ \A k \in 1..n :
             /\ Len(B[k]) \in Nat /\ 2 <= Len(B[k])
             /\ \A j \in 1..Len(B[k]) : Statement(B[k][j])
             /\ B[k][1].kind = "label" /\ B[k][1].label # done
             /\ B[k][Len(B[k])].kind \in {"jump", "cjump"}
             /\ Targets(B[k][Len(B[k])]) \subseteq {B[h][1].label : h \in 1..n} \cup {done}
             /\ \A j \in 2..(Len(B[k]) - 1) : B[k][j].kind = "op"
        /\ \A j, k \in 1..n : B[j][1].label = B[k][1].label => j = k
    BY DEF Blocks
  <1>7. Row(z) /\ DOMAIN z = 1..Len(z) /\ Len(z) \in Nat
    BY <1>3, SeqRow, RowLen DEF Row
  <1> HIDE DEF n
  (* Which statement of which block. *)
  <1>8. \A i \in 1..Len(z) : \E k \in 1..n : \E j \in 1..Len(B[k]) :
          /\ i = pos[k] + j /\ z[i] = B[k][j] /\ (z[i].kind = "label" => j = 1)
          /\ (j = Len(B[k]) \/ Targets(z[i]) = {})
    <2> SUFFICES ASSUME NEW i \in 1..Len(z)
                 PROVE  \E k \in 1..n : \E j \in 1..Len(B[k]) :
                          /\ i = pos[k] + j /\ z[i] = B[k][j] /\ (z[i].kind = "label" => j = 1)
                          /\ (j = Len(B[k]) \/ Targets(z[i]) = {})
      OBVIOUS
    <2>0. PICK k \in 1..n : \E j \in 1..Len(B[k]) : i = pos[k] + j
      BY <1>5
    <2>1. PICK j \in 1..Len(B[k]) : i = pos[k] + j
      BY <2>0
    <2>2. z[i] = B[k][j]
      BY <1>5, <2>1
    <2>3. j = 1 \/ j = Len(B[k]) \/ j \in 2..(Len(B[k]) - 1)
      BY <1>6
    <2>4. B[k][Len(B[k])].kind # "label"
      BY <1>6
    <2>5. z[i].kind = "label" => j = 1
      BY <1>6, <2>2, <2>3, <2>4
    <2>6. \A s : s.kind \in {"label", "op"} => Targets(s) = {}
      BY DEF Targets
    <2>7. j # Len(B[k]) => z[i].kind \in {"label", "op"}
      BY <1>6, <2>2, <2>3
    <2> QED
      BY <2>1, <2>2, <2>5, <2>6, <2>7
  <1>9. \A k \in 1..n : /\ pos[k] + 1 \in 1..Len(z) /\ z[pos[k] + 1] = B[k][1] /\ B[k][1].kind = "label"
                        /\ B[k][1].label \in LabelsOf(z)
    <2> SUFFICES ASSUME NEW k \in 1..n
                 PROVE  /\ pos[k] + 1 \in 1..Len(z) /\ z[pos[k] + 1] = B[k][1] /\ B[k][1].kind = "label"
                        /\ B[k][1].label \in LabelsOf(z)
      OBVIOUS
    <2>1. 1 \in 1..Len(B[k])
      BY <1>6
    <2>2. pos[k] + 1 \in 1..Len(z) /\ z[pos[k] + 1] = B[k][1] /\ B[k][1].kind = "label"
      BY <1>5, <1>6, <2>1
    <2> QED
      BY <1>7, <2>2 DEF LabelsOf
  <1>10. Single(z)
    <2> SUFFICES ASSUME NEW g \in 1..Len(z), NEW h \in 1..Len(z), z[g].kind = "label"
                 PROVE  z[g].label # done /\ (z[h].kind = "label" /\ z[h].label = z[g].label => g = h)
      BY DEF Single
    <2>1. PICK k \in 1..n : g = pos[k] + 1 /\ z[g] = B[k][1]
      BY <1>8
    <2>2. ASSUME z[h].kind = "label", z[h].label = z[g].label PROVE g = h
      <3>1. PICK i \in 1..n : h = pos[i] + 1 /\ z[h] = B[i][1]
        BY <1>8, <2>2
      <3>2. i = k
        BY <1>6, <2>1, <2>2, <3>1
      <3> QED
        BY <2>1, <3>1, <3>2
    <2> QED
      BY <1>6, <2>1, <2>2
  <1>11. Code(z)
    <2> SUFFICES ASSUME NEW i \in 1..Len(z) PROVE Statement(z[i]) /\ Targets(z[i]) \subseteq LabelsOf(z) \cup {done}
      BY <1>7 DEF Code, Row
    <2>0. PICK k \in 1..n : \E j \in 1..Len(B[k]) : z[i] = B[k][j] /\ (j = Len(B[k]) \/ Targets(z[i]) = {})
      BY <1>8
    <2>1. PICK j \in 1..Len(B[k]) : z[i] = B[k][j] /\ (j = Len(B[k]) \/ Targets(z[i]) = {})
      BY <2>0
    <2>2. {B[h][1].label : h \in 1..n} \subseteq LabelsOf(z)
      BY <1>9
    <2> QED
      BY <1>6, <2>1, <2>2
  <1>12. ASSUME NEW x, x \in {B[h][1].label : h \in 1..n} \cup {done}
         PROVE  /\ Goal(z, B, ent, x, At(z, x)) /\ At(z, x) \in Places(z)
                /\ At(z, x) # Len(z) + 1 => z[At(z, x)].kind = "label"
    <2>1. CASE x = done
      <3>1. At(z, x) = Len(z) + 1 /\ Len(z) + 1 \in Places(z)
        BY <1>7, <2>1 DEF At, Places
      <3> QED
        BY <2>1, <3>1 DEF Goal
    <2>2. CASE x # done
      <3>1. PICK h \in 1..n : x = B[h][1].label
        BY <1>12, <2>2
      <3>2. pos[h] + 1 \in 1..Len(z) /\ z[pos[h] + 1].kind = "label" /\ z[pos[h] + 1].label = x
        BY <1>9, <3>1
      <3>3. At(z, x) = pos[h] + 1
        BY <1>10, <1>11, <3>2, AtLabel
      <3>4. Goal(z, B, ent, x, At(z, x))
        BY <3>1, <3>3 DEF Goal, n
      <3> QED
        BY <1>7, <3>2, <3>3, <3>4 DEF Places
    <2> QED
      BY <2>1, <2>2
  <1>13. ASSUME NEW k \in 1..n PROVE EndOf(z, B, ent, B[k][Len(B[k])], pos[k] + Len(B[k]))
    <2> DEFINE e == B[k][Len(B[k])]
               q == pos[k] + Len(B[k])
    <2>1. Len(B[k]) \in 1..Len(B[k])
      BY <1>6
    <2>2. q \in 1..Len(z) /\ z[q] = e
      BY <1>5, <2>1
    <2>3. Statement(e) /\ Targets(e) \subseteq {B[h][1].label : h \in 1..n} \cup {done}
      BY <1>6, <2>1
    <2> HIDE DEF q, e, ent
    <2>4. q \in Places(z)
      BY <1>7, <2>2 DEF Places
    <2>5. ASSUME e.kind = "jump"
          PROVE  \E r : /\ Goal(z, B, ent, e.label, r) /\ Leads(z, q, r)
                        /\ q = r /\ r # Len(z) + 1 => z[r].kind = "label"
      <3>1. e.label \in {B[h][1].label : h \in 1..n} \cup {done}
        BY <2>3, <2>5, Kinds
      <3>2. Goal(z, B, ent, e.label, At(z, e.label)) /\ At(z, e.label) \in Places(z)
            /\ (At(z, e.label) # Len(z) + 1 => z[At(z, e.label)].kind = "label")
        BY <1>12, <3>1
      <3>3. Silent(z, q, At(z, e.label))
        BY <2>2, <2>5 DEF Silent
      <3>4. Leads(z, q, At(z, e.label))
        BY <3>2, <3>3, LeadsStep
      <3> QED
        BY <3>2, <3>4
    <2>6. ASSUME e.kind = "cjump", NEW b \in BOOLEAN
          PROVE  \E r : Goal(z, B, ent, chosen(e, b), r) /\ Leads(z, At(z, chosen(z[q], b)), r)
      <3>1. chosen(e, b) \in {B[h][1].label : h \in 1..n} \cup {done}
        BY <2>3, <2>6, Kinds
      <3>2. Goal(z, B, ent, chosen(e, b), At(z, chosen(e, b)))
        BY <1>12, <3>1
      <3> QED
        BY <2>2, <3>2, LeadsSelf
    <2>7. EndOf(z, B, ent, e, q)
      BY <2>2, <2>4, <2>5, <2>6 DEF EndOf
    <2> QED
      BY <2>7 DEF e, q
  <1>14. \A k \in 1..n : ent[k] \in 1..Len(z) /\ ent[k] = IF z[ent[k]].kind = "label" THEN pos[k] + 1 ELSE pos[k] + 2
    BY <1>9
  <1>15. Leads(z, 1, ent[1])
    <2>1. 1 \in 1..n
      BY <1>1
    <2>2. ent[1] = 1
      BY <1>5, <2>1
    <2> QED
      BY <2>2, LeadsSelf
  <1>16. \A k \in 1..n : \A j \in 2..(Len(B[k]) - 1) : pos[k] + j \in 1..Len(z) /\ z[pos[k] + j] = B[k][j]
    <2> SUFFICES ASSUME NEW k \in 1..n, NEW j \in 2..(Len(B[k]) - 1)
                 PROVE  pos[k] + j \in 1..Len(z) /\ z[pos[k] + j] = B[k][j]
      OBVIOUS
    <2>1. j \in 1..Len(B[k])
      BY <1>6
    <2> QED
      BY <1>5, <2>1
  <1>17. \A k \in 1..n : pos[k] \in Int
    BY <1>5
  <1> HIDE DEF ent
  <1>18. Lays(z, B, pos, ent)
    BY <1>11, <1>13, <1>14, <1>15, <1>16, <1>17 DEF Lays, n
  <1> QED
    BY <1>18

-----------------------------------------------------------------------------
(* traceSchedule: what is known of the code z laid out so far, when the    *)
(* blocks of B with a label of E are left and n is the next new label.     *)

Names(B) == {B[k][1].label : k \in 1..Len(B)}

Good(z, E, B, n) ==
  /\ Row(z)
  /\ \A i \in 1..Len(z) : Statement(z[i])
  /\ \A i \in 1..Len(z) :
       z[i].kind = "label" => /\ z[i].label \notin E \cup {done}
                              /\ \A m \in Nat : n <= m => z[i].label # <<"new", m>>
  /\ \A i, j \in 1..Len(z) :
       z[i].kind = "label" /\ z[j].kind = "label" /\ z[i].label = z[j].label => i = j
  /\ \A i \in 1..Len(z) : \A x \in Targets(z[i]) :
       \/ x \in Names(B) \cup {done}
       \/ i + 1 \in 1..Len(z) /\ z[i + 1] = Label(x)

(* The first n branches have their false label after them.                 *)
Falls(z, n) ==
  \A i \in 1..n : z[i].kind = "cjump" => i + 1 \in 1..Len(z) /\ z[i + 1] = Label(z[i].false)

(* A block is at p, but for its last statement.                            *)
Put(z, b, p, m) == p \in Nat /\ \A j \in 1..(Len(b) - 1) : p + j \in 1..m /\ z[p + j] = b[j]

(* What follow made of the last statement e, at q.                         *)
Jumped(z, e, q, m) == q \in 1..m /\ e.kind = "jump" /\ (z[q] = e \/ z[q] = Label(e.label))

Branched(z, e, q, m) ==
  /\ q \in 1..m /\ q + 1 \in 1..m /\ e.kind = "cjump"
  /\ \/ z[q] = e /\ z[q + 1] = Label(e.false)
     \/ z[q] = negated(e) /\ z[q + 1] = Label(e.true)

Detoured(z, e, q, m) ==
  /\ q \in 1..m /\ q + 1 \in 1..m /\ q + 2 \in 1..m /\ e.kind = "cjump"
  /\ \E l : z[q] = Cjump(e.op, e.true, l) /\ z[q + 1] = Label(l) /\ z[q + 2] = Jump(e.false)

Closed(z, b, p, m) ==
  \/ Jumped(z, b[Len(b)], p + Len(b), m)
  \/ Branched(z, b[Len(b)], p + Len(b), m)
  \/ Detoured(z, b[Len(b)], p + Len(b), m)

(* Between two traces.                                                     *)
Placing(z, E, B, n, pos) ==
  /\ Good(z, E, B, n) /\ Falls(z, Len(z))
  /\ \A k \in 1..Len(B) : B[k][1].label \notin E => Put(z, B[k], pos[k], Len(z)) /\ Closed(z, B[k], pos[k], Len(z))
  /\ Len(z) # 0 => B[1][1].label \notin E
  /\ B[1][1].label \notin E => pos[1] = 0

(* Block g is the last of a trace, and its end not dealt with.             *)
Following(z, E, B, n, pos, g) ==
  /\ Good(z, E, B, n) /\ Falls(z, Len(z) - 1)
  /\ g \in 1..Len(B) /\ B[g][1].label \notin E
  /\ pos[g] + Len(B[g]) = Len(z) /\ z[Len(z)] = B[g][Len(B[g])]
  /\ Put(z, B[g], pos[g], Len(z) - 1)
  /\ \A k \in 1..Len(B) : k # g /\ B[k][1].label \notin E =>
       Put(z, B[k], pos[k], pos[g] + 1) /\ Closed(z, B[k], pos[k], pos[g] + 1)
  /\ B[1][1].label \notin E /\ pos[1] = 0

LEMMA PutOn ==
  ASSUME NEW z, NEW w, NEW m \in Nat, NEW d \in Nat, m <= d, \A i \in 1..m : w[i] = z[i], NEW b, NEW p,
         Put(z, b, p, m)
  PROVE  Put(w, b, p, d)
  <1>1. \A i \in 1..m : i \in 1..d
    OBVIOUS
  <1> QED
    BY <1>1 DEF Put

LEMMA ClosedOn ==
  ASSUME NEW z, NEW w, NEW m \in Nat, NEW d \in Nat, m <= d, \A i \in 1..m : w[i] = z[i], NEW b, NEW p,
         Closed(z, b, p, m)
  PROVE  Closed(w, b, p, d)
  <1> DEFINE e == b[Len(b)]
             q == p + Len(b)
  <1>1. \A i \in 1..m : i \in 1..d
    OBVIOUS
  <1>2. Jumped(z, e, q, m) \/ Branched(z, e, q, m) \/ Detoured(z, e, q, m)
    BY DEF Closed
  <1> HIDE DEF e, q
  <1>3. CASE Jumped(z, e, q, m)
    <2>1. Jumped(w, e, q, d)
      BY <1>1, <1>3 DEF Jumped
    <2> QED
      BY <2>1 DEF Closed, e, q
  <1>4. CASE Branched(z, e, q, m)
    <2>1. Branched(w, e, q, d)
      BY <1>1, <1>4 DEF Branched
    <2> QED
      BY <2>1 DEF Closed, e, q
  <1>5. CASE Detoured(z, e, q, m)
    <2>1. Detoured(w, e, q, d)
      BY <1>1, <1>5 DEF Detoured
    <2> QED
      BY <2>1 DEF Closed, e, q
  <1> QED
    BY <1>2, <1>3, <1>4, <1>5

(* What may be put after z.                                                *)
Fits(r, z, E, B, n) ==
  /\ Row(r)
  /\ \A i \in 1..Len(r) : Statement(r[i])
  /\ \A i \in 1..Len(r) :
       r[i].kind = "label" => /\ r[i].label \notin E \cup {done}
                              /\ \A m \in Nat : n <= m => r[i].label # <<"new", m>>
                              /\ \A j \in 1..Len(z) : z[j].kind = "label" => z[j].label # r[i].label
  /\ \A i, j \in 1..Len(r) :
       r[i].kind = "label" /\ r[j].kind = "label" /\ r[i].label = r[j].label => i = j
  /\ \A i \in 1..Len(r) : \A x \in Targets(r[i]) :
       \/ x \in Names(B) \cup {done}
       \/ i + 1 \in 1..Len(r) /\ r[i + 1] = Label(x)

LEMMA GoodMore ==
  ASSUME NEW z, NEW E, NEW D, D \subseteq E, NEW B, NEW n \in Nat, NEW m \in Nat, n <= m,
         Good(z, E, B, n), NEW r, Fits(r, z, D, B, m), NEW w, w = z \o r
  PROVE  Good(w, D, B, m)
  <1> DEFINE a == Len(z)
             c == Len(r)
  <1>1. /\ Row(w) /\ Len(w) = a + c /\ a \in Nat /\ c \in Nat
        /\ \A k \in 1..a : w[k] = z[k]
        /\ \A k \in 1..c : w[a + k] = r[k]
    <2>1. Row(z) /\ Row(r)
      BY DEF Good, Fits
    <2>2. /\ Row(z \o r) /\ Len(z \o r) = a + c
          /\ \A k \in 1..a : (z \o r)[k] = z[k]
          /\ \A k \in 1..c : (z \o r)[a + k] = r[k]
      BY <2>1, RowConcat
    <2>3. a \in Nat /\ c \in Nat
      BY <2>1 DEF Row
    <2> HIDE DEF a, c
    <2> QED
      BY <2>2, <2>3
  <1>2. /\ \A i \in 1..a : Statement(z[i])
        /\ \A i \in 1..a : z[i].kind = "label" => /\ z[i].label \notin E \cup {done}
                                                  /\ \A k \in Nat : n <= k => z[i].label # <<"new", k>>
        /\ \A i, j \in 1..a : z[i].kind = "label" /\ z[j].kind = "label" /\ z[i].label = z[j].label => i = j
        /\ \A i \in 1..a : \A x \in Targets(z[i]) :
             x \in Names(B) \cup {done} \/ (i + 1 \in 1..a /\ z[i + 1] = Label(x))
    BY DEF Good
  <1>3. /\ \A i \in 1..c : Statement(r[i])
        /\ \A i \in 1..c : r[i].kind = "label" => /\ r[i].label \notin D \cup {done}
                                                  /\ \A k \in Nat : m <= k => r[i].label # <<"new", k>>
                                                  /\ \A j \in 1..a : z[j].kind = "label" => z[j].label # r[i].label
        /\ \A i, j \in 1..c : r[i].kind = "label" /\ r[j].kind = "label" /\ r[i].label = r[j].label => i = j
        /\ \A i \in 1..c : \A x \in Targets(r[i]) :
             x \in Names(B) \cup {done} \/ (i + 1 \in 1..c /\ r[i + 1] = Label(x))
    BY DEF Fits
  <1> HIDE DEF a, c
  <1>4. \A i \in 1..(a + c) : i \in 1..a \/ (i - a \in 1..c /\ i = a + (i - a))
    BY <1>1
  <1>5. \A i \in 1..(a + c) : \/ i \in 1..a /\ w[i] = z[i]
                              \/ \E j \in 1..c : i = a + j /\ w[i] = r[j]
    <2> SUFFICES ASSUME NEW i \in 1..(a + c)
                 PROVE  \/ i \in 1..a /\ w[i] = z[i]
                        \/ \E j \in 1..c : i = a + j /\ w[i] = r[j]
      OBVIOUS
    <2>1. CASE i \in 1..a
      BY <1>1, <2>1
    <2>2. CASE i - a \in 1..c /\ i = a + (i - a)
      <3>1. w[a + (i - a)] = r[i - a]
        BY <1>1, <2>2
      <3> QED
        BY <2>2, <3>1
    <2> QED
      BY <1>4, <2>1, <2>2
  <1>6. \A i \in 1..(a + c) : Statement(w[i])
    BY <1>2, <1>3, <1>5
  <1>7. \A i \in 1..(a + c) :
          w[i].kind = "label" => /\ w[i].label \notin D \cup {done}
                                 /\ \A k \in Nat : m <= k => w[i].label # <<"new", k>>
    <2> SUFFICES ASSUME NEW i \in 1..(a + c), w[i].kind = "label"
                 PROVE  /\ w[i].label \notin D \cup {done}
                        /\ \A k \in Nat : m <= k => w[i].label # <<"new", k>>
      OBVIOUS
    <2>1. CASE i \in 1..a /\ w[i] = z[i]
      <3>1. \A k \in Nat : m <= k => n <= k
        OBVIOUS
      <3> QED
        BY <1>2, <2>1, <3>1
    <2>2. CASE \E j \in 1..c : i = a + j /\ w[i] = r[j]
      BY <1>3, <2>2
    <2> QED
      BY <1>5, <2>1, <2>2
  <1>8. \A i, j \in 1..(a + c) : w[i].kind = "label" /\ w[j].kind = "label" /\ w[i].label = w[j].label => i = j
    <2> SUFFICES ASSUME NEW i \in 1..(a + c), NEW j \in 1..(a + c),
                        w[i].kind = "label", w[j].kind = "label", w[i].label = w[j].label
                 PROVE  i = j
      OBVIOUS
    <2>1. CASE i \in 1..a /\ w[i] = z[i]
      <3>1. CASE j \in 1..a /\ w[j] = z[j]
        BY <1>2, <2>1, <3>1
      <3>2. ASSUME NEW k \in 1..c, j = a + k, w[j] = r[k] PROVE i = j
        BY <1>3, <2>1, <3>2
      <3> QED
        BY <1>5, <3>1, <3>2
    <2>2. ASSUME NEW k \in 1..c, i = a + k, w[i] = r[k] PROVE i = j
      <3>1. CASE j \in 1..a /\ w[j] = z[j]
        BY <1>3, <2>2, <3>1
      <3>2. ASSUME NEW h \in 1..c, j = a + h, w[j] = r[h] PROVE i = j
        <4>1. k = h
          BY <1>3, <2>2, <3>2
        <4> QED
          BY <2>2, <3>2, <4>1
      <3> QED
        BY <1>5, <3>1, <3>2
    <2> QED
      BY <1>5, <2>1, <2>2
  <1>9. \A i \in 1..(a + c) : \A x \in Targets(w[i]) :
          x \in Names(B) \cup {done} \/ (i + 1 \in 1..(a + c) /\ w[i + 1] = Label(x))
    <2> SUFFICES ASSUME NEW i \in 1..(a + c), NEW x \in Targets(w[i]), x \notin Names(B) \cup {done}
                 PROVE  i + 1 \in 1..(a + c) /\ w[i + 1] = Label(x)
      OBVIOUS
    <2>1. CASE i \in 1..a /\ w[i] = z[i]
      <3>1. i + 1 \in 1..a /\ z[i + 1] = Label(x)
        BY <1>2, <2>1
      <3>2. w[i + 1] = z[i + 1]
        BY <1>1, <3>1
      <3>3. i + 1 \in 1..(a + c)
        <4>1. a \in Nat /\ c \in Nat /\ i + 1 \in 1..a
          BY <1>1, <3>1
        <4> QED
          BY <4>1
      <3> QED
        BY <3>1, <3>2, <3>3
    <2>2. ASSUME NEW j \in 1..c, i = a + j, w[i] = r[j] PROVE i + 1 \in 1..(a + c) /\ w[i + 1] = Label(x)
      <3>1. j + 1 \in 1..c /\ r[j + 1] = Label(x)
        BY <1>3, <2>2
      <3>2. i + 1 = a + (j + 1) /\ i + 1 \in 1..(a + c)
        <4>1. a \in Nat /\ c \in Nat /\ j + 1 \in 1..c /\ i = a + j
          BY <1>1, <2>2, <3>1
        <4> QED
          BY <4>1
      <3>3. w[a + (j + 1)] = r[j + 1]
        BY <1>1, <3>1
      <3> QED
        BY <3>1, <3>2, <3>3
    <2> QED
      BY <1>5, <2>1, <2>2
  <1> QED
    BY <1>1, <1>6, <1>7, <1>8, <1>9 DEF Good

(* Without its last statement, a jump or a branch.                         *)
LEMMA GoodLess ==
  ASSUME NEW z, NEW E, NEW B, NEW n \in Nat, Good(z, E, B, n), Len(z) # 0, Falls(z, Len(z) - 1),
         z[Len(z)].kind \in {"jump", "cjump"}, NEW y, y = Front(z)
  PROVE  /\ Good(y, E, B, n) /\ Falls(y, Len(y)) /\ Row(z) /\ Row(y)
         /\ Len(z) \in Nat /\ Len(y) = Len(z) - 1 /\ Len(y) \in Nat /\ \A i \in 1..Len(y) : y[i] = z[i]
  <1>1. /\ Row(z) /\ Row(y) /\ Len(y) = Len(z) - 1 /\ Len(y) \in Nat /\ Len(z) \in Nat
        /\ \A i \in 1..Len(y) : y[i] = z[i] /\ i \in 1..Len(z)
    <2>1. Row(z)
      BY DEF Good
    <2>2. /\ Row(y) /\ Len(y) = Len(z) - 1 /\ Len(y) \in Nat
          /\ \A i \in 1..(Len(z) - 1) : y[i] = z[i]
      BY <2>1, RowFront
    <2>3. Len(z) \in Nat
      BY <2>1 DEF Row
    <2> QED
      BY <2>1, <2>2, <2>3
  <1>2. \A x : z[Len(z)] # Label(x)
    BY DEF Label
  <1>3. ASSUME NEW i \in 1..Len(y), i + 1 \in 1..Len(z), NEW x, z[i + 1] = Label(x)
        PROVE  i + 1 \in 1..Len(y) /\ y[i + 1] = Label(x)
    <2>1. i + 1 # Len(z)
      BY <1>2, <1>3
    <2>2. i + 1 \in 1..Len(y)
      BY <1>1, <1>3, <2>1
    <2> QED
      BY <1>1, <1>3, <2>2
  <1>4. Falls(y, Len(y))
    <2> SUFFICES ASSUME NEW i \in 1..Len(y), y[i].kind = "cjump"
                 PROVE  i + 1 \in 1..Len(y) /\ y[i + 1] = Label(y[i].false)
      BY DEF Falls
    <2>1. i \in 1..(Len(z) - 1) /\ z[i] = y[i]
      BY <1>1
    <2>2. i + 1 \in 1..Len(z) /\ z[i + 1] = Label(z[i].false)
      BY <2>1 DEF Falls
    <2> QED
      BY <1>3, <2>1, <2>2
  <1>5. \A i \in 1..Len(y) : \A x \in Targets(y[i]) :
          x \in Names(B) \cup {done} \/ (i + 1 \in 1..Len(y) /\ y[i + 1] = Label(x))
    <2> SUFFICES ASSUME NEW i \in 1..Len(y), NEW x \in Targets(y[i]), x \notin Names(B) \cup {done}
                 PROVE  i + 1 \in 1..Len(y) /\ y[i + 1] = Label(x)
      OBVIOUS
    <2>1. i + 1 \in 1..Len(z) /\ z[i + 1] = Label(x)
      BY <1>1 DEF Good
    <2> QED
      BY <1>3, <2>1
  <1>6. Good(y, E, B, n)
    <2>1. \A i \in 1..Len(y) : Statement(y[i])
      BY <1>1 DEF Good
    <2>2. \A i \in 1..Len(y) :
            y[i].kind = "label" => /\ y[i].label \notin E \cup {done}
                                   /\ \A m \in Nat : n <= m => y[i].label # <<"new", m>>
      BY <1>1 DEF Good
    <2>3. \A i, j \in 1..Len(y) :
            y[i].kind = "label" /\ y[j].kind = "label" /\ y[i].label = y[j].label => i = j
      BY <1>1 DEF Good
    <2> QED
      BY <1>1, <1>5, <2>1, <2>2, <2>3 DEF Good
  <1> QED
    BY <1>1, <1>4, <1>6

(* The block h is put after y.                                             *)
Chained(w, y, E, B, n, h) ==
  /\ Good(w, E \ {B[h][1].label}, B, n) /\ Falls(w, Len(w) - 1)
  /\ Len(y) \in Nat /\ Len(w) = Len(y) + Len(B[h]) /\ Len(w) \in Nat
  /\ Put(w, B[h], Len(y), Len(w) - 1) /\ w[Len(w)] = B[h][Len(B[h])]
  /\ w[Len(y) + 1] = Label(B[h][1].label) /\ Len(y) + 1 \in 1..(Len(w) - 1)
  /\ \A i \in 1..Len(y) : w[i] = y[i]

Ready(y, E, B, n, h) ==
  /\ Good(y, E, B, n) /\ Falls(y, Len(y) - 1)
  /\ Len(y) # 0 /\ y[Len(y)].kind = "cjump" => y[Len(y)].false = B[h][1].label

Sound(B, n) == Blocks(B) /\ Fresh(B, n) /\ n \in Nat /\ \A k \in 1..Len(B) : Row(B[k])

LEMMA BlockFacts ==
  ASSUME NEW B, NEW n, Sound(B, n), NEW k \in 1..Len(B)
  PROVE  /\ Row(B[k]) /\ Len(B[k]) \in Nat /\ 2 <= Len(B[k])
         /\ \A j \in 1..Len(B[k]) : Statement(B[k][j])
         /\ B[k][1] = Label(B[k][1].label) /\ B[k][1].label # done
         /\ \A m \in Nat : n <= m => B[k][1].label # <<"new", m>>
         /\ B[k][Len(B[k])].kind \in {"jump", "cjump"}
         /\ Targets(B[k][Len(B[k])]) \subseteq Names(B) \cup {done}
         /\ \A j \in 2..(Len(B[k]) - 1) : B[k][j].kind = "op"
         /\ \A j \in 1..Len(B) : B[j][1].label = B[k][1].label => j = k
  <1>1. /\ Len(B[k]) \in Nat /\ 2 <= Len(B[k])
        /\ \A j \in 1..Len(B[k]) : Statement(B[k][j])
        /\ B[k][1].kind = "label" /\ B[k][1].label # done
        /\ B[k][Len(B[k])].kind \in {"jump", "cjump"}
        /\ Targets(B[k][Len(B[k])]) \subseteq Names(B) \cup {done}
        /\ \A j \in 2..(Len(B[k]) - 1) : B[k][j].kind = "op"
        /\ \A j \in 1..Len(B) : B[j][1].label = B[k][1].label => j = k
    BY DEF Sound, Blocks, Names
  <1>2. B[k][1] = Label(B[k][1].label)
    <2>1. 1 \in 1..Len(B[k])
      BY <1>1
    <2> QED
      BY <1>1, <2>1, Kinds
  <1>3. Row(B[k]) /\ \A m \in Nat : n <= m => B[k][1].label # <<"new", m>>
    BY DEF Sound, Fresh
  <1> QED
    BY <1>1, <1>2, <1>3

LEMMA Chains ==
  ASSUME NEW B, NEW n, Sound(B, n), NEW E, NEW h \in 1..Len(B), B[h][1].label \in E,
         NEW y, Ready(y, E, B, n, h), NEW w, w = y \o B[h]
  PROVE  Chained(w, y, E, B, n, h)
  <1> DEFINE b == B[h]
             l == b[1].label
             a == Len(y)
             c == Len(b)
  <1>1. /\ Row(b) /\ c \in Nat /\ 2 <= c
        /\ \A j \in 1..c : Statement(b[j])
        /\ b[1] = Label(l) /\ l # done
        /\ \A m \in Nat : n <= m => l # <<"new", m>>
        /\ b[c].kind \in {"jump", "cjump"}
        /\ Targets(b[c]) \subseteq Names(B) \cup {done}
        /\ \A j \in 2..(c - 1) : b[j].kind = "op"
    BY BlockFacts
  <1>2. Good(y, E, B, n) /\ Falls(y, a - 1) /\ (a # 0 /\ y[a].kind = "cjump" => y[a].false = l)
    BY DEF Ready
  <1>3. /\ Row(w) /\ Len(w) = a + c /\ a \in Nat
        /\ \A k \in 1..a : w[k] = y[k]
        /\ \A k \in 1..c : w[a + k] = b[k]
    <2>1. Row(y) /\ a \in Nat
      BY <1>2 DEF Good, Row
    <2>2. w = y \o b
      OBVIOUS
    <2> HIDE DEF b, c
    <2>3. /\ Row(y \o b) /\ Len(y \o b) = a + Len(b)
          /\ \A k \in 1..a : (y \o b)[k] = y[k]
          /\ \A k \in 1..Len(b) : (y \o b)[a + k] = b[k]
      BY <1>1, <2>1, RowConcat
    <2> HIDE DEF a
    <2> QED
      BY <2>1, <2>2, <2>3 DEF c
  <1>4. \A x : Label(x).kind = "label" /\ Label(x).label = x
    BY DEF Label
  <1> HIDE DEF b, c
  <1>5. \A j \in 1..c : j = 1 \/ j = c \/ j \in 2..(c - 1)
    BY <1>1
  <1>6. \A j \in 1..c : (b[j].kind = "label" => j = 1 /\ b[j].label = l) /\ (j # c => b[j].kind \in {"label", "op"})
    BY <1>1, <1>4, <1>5
  <1>7. Fits(b, y, E \ {l}, B, n)
    <2>1. \A j \in 1..a : y[j].kind = "label" => y[j].label # l
      <3>1. l \in E
        BY DEF b
      <3> QED
        BY <1>2, <3>1 DEF Good
    <2>2. \A i \in 1..c :
            b[i].kind = "label" => /\ b[i].label \notin (E \ {l}) \cup {done}
                                   /\ \A m \in Nat : n <= m => b[i].label # <<"new", m>>
                                   /\ \A j \in 1..a : y[j].kind = "label" => y[j].label # b[i].label
      BY <1>1, <1>6, <2>1
    <2>3. \A i, j \in 1..c : b[i].kind = "label" /\ b[j].kind = "label" /\ b[i].label = b[j].label => i = j
      BY <1>6
    <2>4. \A i \in 1..c : \A x \in Targets(b[i]) : x \in Names(B) \cup {done}
      <3>1. \A s : s.kind \in {"label", "op"} => Targets(s) = {}
        BY DEF Targets
      <3> QED
        BY <1>1, <1>6, <3>1
    <2> HIDE DEF l, a
    <2> QED
      BY <1>1, <2>2, <2>3, <2>4 DEF Fits, a, c
  <1>8. Good(w, E \ {l}, B, n)
    <2>1. E \ {l} \subseteq E /\ n \in Nat /\ n <= n /\ w = y \o b
      BY DEF Sound, b
    <2> HIDE DEF l
    <2> QED
      BY <1>2, <1>7, <2>1, GoodMore
  <1>9. Falls(w, Len(w) - 1)
    <2> SUFFICES ASSUME NEW i \in 1..(a + c - 1), w[i].kind = "cjump"
                 PROVE  i + 1 \in 1..(a + c) /\ w[i + 1] = Label(w[i].false)
      <3>1. Len(w) = a + c /\ a \in Nat /\ c \in Nat
        BY <1>1, <1>3
      <3> HIDE DEF a, l
      <3>2. Len(w) - 1 = a + c - 1
        BY <3>1
      <3> QED
        BY <3>1, <3>2 DEF Falls
    <2> HIDE DEF a, l
    <2>1. i + 1 \in 1..(a + c)
      BY <1>1, <1>3
    <2>2. CASE i \in 1..(a - 1)
      <3>1. i \in 1..a /\ i + 1 \in 1..a
        BY <1>3, <2>2
      <3>2. i + 1 \in 1..Len(y) /\ y[i + 1] = Label(y[i].false)
        BY <1>2, <1>3, <2>2, <3>1 DEF Falls
      <3> QED
        BY <1>3, <2>1, <3>1, <3>2
    <2>3. CASE i = a
      <3>1. a # 0 /\ w[i] = y[a] /\ 1 \in 1..c
        <4>1. a \in 1..a /\ 1 \in 1..c /\ a # 0
          BY <1>1, <1>3, <2>3
        <4>2. w[a] = y[a]
          BY <1>3, <4>1
        <4> QED
          BY <2>3, <4>1, <4>2
      <3>2. w[i + 1] = b[1]
        BY <1>3, <2>3, <3>1
      <3> QED
        BY <1>1, <1>2, <2>1, <2>3, <3>1, <3>2
    <2>4. CASE i - a \in 1..(c - 1)
      <3>1. i = a + (i - a) /\ i - a \in 1..c /\ i - a # c
        BY <1>1, <1>3, <2>4
      <3>2. w[a + (i - a)] = b[i - a]
        BY <1>3, <3>1
      <3>3. w[i] = b[i - a]
        BY <3>1, <3>2
      <3> QED
        BY <1>6, <3>1, <3>3
    <2>5. i \in 1..(a - 1) \/ i = a \/ i - a \in 1..(c - 1)
      <3>1. a \in Nat /\ c \in Nat
        BY <1>1, <1>3
      <3> HIDE DEF c
      <3> QED
        BY <3>1
    <2> QED
      BY <2>2, <2>3, <2>4, <2>5
  <1>10. Put(w, b, a, Len(w) - 1)
    <2> SUFFICES ASSUME NEW j \in 1..(c - 1) PROVE a + j \in 1..(Len(w) - 1) /\ w[a + j] = b[j]
      BY <1>3 DEF Put, c
    <2> HIDE DEF a, l
    <2>1. j \in 1..c /\ a + j \in 1..(Len(w) - 1)
      <3>1. Len(w) = a + c /\ a \in Nat /\ c \in Nat
        BY <1>1, <1>3
      <3> QED
        BY <3>1
    <2> QED
      BY <1>3, <2>1
  <1>11. w[Len(w)] = b[c] /\ w[a + 1] = b[1] /\ a + 1 \in 1..(Len(w) - 1)
    <2>1. 1 \in 1..c /\ c \in 1..c
      BY <1>1
    <2>2. w[a + c] = b[c] /\ w[a + 1] = b[1]
      BY <1>3, <2>1
    <2>3. a + 1 \in 1..(Len(w) - 1)
      <3> HIDE DEF a
      <3>1. Len(w) = a + c /\ a \in Nat /\ c \in Nat /\ 2 <= c
        BY <1>1, <1>3
      <3> QED
        BY <3>1
    <2> QED
      BY <1>3, <2>2, <2>3
  <1>12. Len(w) \in Nat
    BY <1>3 DEF Row
  <1> HIDE DEF l
  <1>13. /\ Good(w, E \ {l}, B, n) /\ Falls(w, Len(w) - 1)
         /\ Len(y) \in Nat /\ Len(w) = Len(y) + Len(b) /\ Len(w) \in Nat
         /\ Put(w, b, Len(y), Len(w) - 1) /\ w[Len(w)] = b[Len(b)]
         /\ w[Len(y) + 1] = Label(l) /\ Len(y) + 1 \in 1..(Len(w) - 1)
         /\ \A i \in 1..Len(y) : w[i] = y[i]
    BY <1>1, <1>3, <1>8, <1>9, <1>10, <1>11, <1>12 DEF c
  <1> QED
    BY <1>13 DEF Chained, b, l

(* With it, the trace goes on.                                             *)
LEMMA GoesOn ==
  ASSUME NEW B, NEW n, Sound(B, n), NEW E, NEW h \in 1..Len(B), B[h][1].label \in E,
         NEW y, NEW w, Chained(w, y, E, B, n, h), NEW pos,
         \A k \in 1..Len(B) : B[k][1].label \notin E => Put(w, B[k], pos[k], Len(y) + 1)
                                                        /\ Closed(w, B[k], pos[k], Len(y) + 1),
         (h = 1 /\ Len(y) = 0) \/ (B[1][1].label \notin E /\ pos[1] = 0)
  PROVE  \E q : Following(w, E \ {B[h][1].label}, B, n, q, h)
  <1> DEFINE q == [k \in 1..Len(B) |-> IF k = h THEN Len(y) ELSE pos[k]]
             D == E \ {B[h][1].label}
  <1>1. Len(B) \in Nat \ {0} /\ 1 \in 1..Len(B) /\ \A j \in 1..Len(B) : B[j][1].label = B[h][1].label => j = h
    BY BlockFacts DEF Sound, Blocks
  <1>2. q[h] = Len(y) /\ \A k \in 1..Len(B) : k # h => q[k] = pos[k]
    OBVIOUS
  <1>3. \A k \in 1..Len(B) : B[k][1].label \notin D => k = h \/ B[k][1].label \notin E
    BY <1>1
  <1>4. B[h][1].label \notin D
    OBVIOUS
  <1>5. B[1][1].label \notin D /\ q[1] = 0
    <2>1. CASE h = 1 /\ Len(y) = 0
      BY <1>2, <1>4, <2>1
    <2>2. CASE B[1][1].label \notin E /\ pos[1] = 0
      <3>1. h # 1
        BY <2>2
      <3> QED
        BY <1>1, <1>2, <2>2, <3>1
    <2> QED
      BY <2>1, <2>2
  <1> HIDE DEF q, D
  <1>6. /\ Good(w, D, B, n) /\ Falls(w, Len(w) - 1)
        /\ q[h] + Len(B[h]) = Len(w) /\ w[Len(w)] = B[h][Len(B[h])]
        /\ Put(w, B[h], q[h], Len(w) - 1)
    BY <1>2 DEF Chained, D
  <1>7. \A k \in 1..Len(B) : k # h /\ B[k][1].label \notin D =>
          Put(w, B[k], q[k], q[h] + 1) /\ Closed(w, B[k], q[k], q[h] + 1)
    BY <1>2, <1>3
  <1>8. Following(w, D, B, n, q, h)
    BY <1>4, <1>5, <1>6, <1>7 DEF Following
  <1> QED
    BY <1>8 DEF D

(* A trace is begun with the first block left.                             *)
LEMMA TraceBegins ==
  ASSUME NEW B, NEW n, Sound(B, n), NEW E, NEW z, NEW pos, Placing(z, E, B, n, pos),
         NEW h \in 1..Len(B), B[h][1].label \in E, \A j \in 1..(h - 1) : B[j][1].label \notin E
  PROVE  \E q : Following(z \o B[h], E \ {B[h][1].label}, B, n, q, h)
  <1>1. Good(z, E, B, n) /\ Falls(z, Len(z)) /\ Len(z) \in Nat
    BY DEF Placing, Good, Row
  <1>2. Ready(z, E, B, n, h)
    <2>1. Falls(z, Len(z) - 1)
      BY <1>1 DEF Falls
    <2>2. Len(z) # 0 => z[Len(z)].kind # "cjump"
      <3> SUFFICES ASSUME Len(z) # 0, z[Len(z)].kind = "cjump" PROVE FALSE
        OBVIOUS
      <3>1. Len(z) \in 1..Len(z)
        BY <1>1
      <3>2. Len(z) + 1 \in 1..Len(z)
        BY <1>1, <3>1 DEF Falls
      <3> QED
        BY <1>1, <3>2
    <2> QED
      BY <1>1, <2>1, <2>2 DEF Ready
  <1> DEFINE w == z \o B[h]
  <1>3. Chained(w, z, E, B, n, h)
    BY <1>2, Chains
  <1> HIDE DEF w
  <1>4. ASSUME NEW k \in 1..Len(B), B[k][1].label \notin E
        PROVE  Put(w, B[k], pos[k], Len(z) + 1) /\ Closed(w, B[k], pos[k], Len(z) + 1)
    <2>1. Put(z, B[k], pos[k], Len(z)) /\ Closed(z, B[k], pos[k], Len(z))
      BY <1>4 DEF Placing
    <2>2. Len(z) + 1 \in Nat /\ Len(z) <= Len(z) + 1 /\ \A i \in 1..Len(z) : w[i] = z[i]
      BY <1>1, <1>3 DEF Chained
    <2>3. Put(w, B[k], pos[k], Len(z) + 1)
      BY <1>1, <2>1, <2>2, PutOn
    <2>4. Closed(w, B[k], pos[k], Len(z) + 1)
      BY <1>1, <2>1, <2>2, ClosedOn
    <2> QED
      BY <2>3, <2>4
  <1>5. (h = 1 /\ Len(z) = 0) \/ (B[1][1].label \notin E /\ pos[1] = 0)
    <2>1. CASE h = 1
      <3>1. Len(z) = 0
        BY <2>1 DEF Placing
      <3> QED
        BY <2>1, <3>1
    <2>2. CASE h # 1
      <3>1. 1 \in 1..(h - 1)
        BY <2>2
      <3> QED
        BY <3>1 DEF Placing
    <2> QED
      BY <2>1, <2>2
  <1>6. \E q : Following(w, E \ {B[h][1].label}, B, n, q, h)
    BY <1>3, <1>4, <1>5, GoesOn
  <1> QED
    BY <1>6 DEF w

(* The last statement of the trace is that of its last block.              *)
LastOf(z, B, g, e) ==
  /\ z # << >> /\ Len(z) \in Nat \ {0} /\ Last(z) = e /\ z[Len(z)] = e /\ e = B[g][Len(B[g])]
  /\ e.kind \in {"jump", "cjump"} /\ Statement(e) /\ Targets(e) \subseteq Names(B) \cup {done}

LEMMA AtLast ==
  ASSUME NEW B, NEW n, Sound(B, n), NEW E, NEW z, NEW pos, NEW g, Following(z, E, B, n, pos, g)
  PROVE  /\ LastOf(z, B, g, Last(z))
         /\ pos[g] \in Nat /\ pos[g] + Len(B[g]) = Len(z) /\ pos[g] + 1 \in 1..(Len(z) - 1)
  <1>1. /\ Row(z) /\ Len(z) \in Nat /\ g \in 1..Len(B)
        /\ pos[g] + Len(B[g]) = Len(z) /\ z[Len(z)] = B[g][Len(B[g])] /\ pos[g] \in Nat
    BY DEF Following, Good, Row, Put
  <1>2. /\ Len(B[g]) \in Nat /\ 2 <= Len(B[g])
        /\ B[g][Len(B[g])].kind \in {"jump", "cjump"}
        /\ Targets(B[g][Len(B[g])]) \subseteq Names(B) \cup {done}
        /\ \A j \in 1..Len(B[g]) : Statement(B[g][j])
    BY <1>1, BlockFacts
  <1>3. Len(z) \in Nat \ {0} /\ Len(B[g]) \in 1..Len(B[g]) /\ pos[g] + 1 \in 1..(Len(z) - 1)
    BY <1>1, <1>2
  <1>4. z # << >> /\ Last(z) = z[Len(z)]
    BY <1>1, <1>3, RowLen, RowFront
  <1> QED
    BY <1>1, <1>2, <1>3, <1>4 DEF LastOf

Stay(w, E, B, pos, g, m) ==
  /\ \A k \in 1..Len(B) : k # g /\ B[k][1].label \notin E => Put(w, B[k], pos[k], m) /\ Closed(w, B[k], pos[k], m)
  /\ Put(w, B[g], pos[g], m)

(* w begins as z does, but for the last statement of z.                    *)
Amends(w, z, m) == m \in Nat /\ Len(z) <= m + 1 /\ \A i \in 1..(Len(z) - 1) : w[i] = z[i]

(* The other blocks stay where they are when the code changes only after   *)
(* the last of its trace begins.                                           *)
LEMMA OthersStay ==
  ASSUME NEW B, NEW n, Sound(B, n), NEW E, NEW z, NEW pos, NEW g, Following(z, E, B, n, pos, g),
         NEW w, NEW m, Amends(w, z, m)
  PROVE  Stay(w, E, B, pos, g, m)
  <1>0. m \in Nat /\ Len(z) <= m + 1 /\ \A i \in 1..(Len(z) - 1) : w[i] = z[i]
    BY DEF Amends
  <1>1. pos[g] \in Nat /\ pos[g] + 1 \in 1..(Len(z) - 1) /\ Len(z) \in Nat \ {0} /\ Len(z) - 1 \in Nat
    BY AtLast DEF LastOf
  <1> DEFINE d == pos[g] + 1
             c == Len(z) - 1
  <1>2. d \in Nat /\ d <= m /\ c \in Nat /\ c <= m /\ (\A i \in 1..d : w[i] = z[i]) /\ (\A i \in 1..c : w[i] = z[i])
    <2>1. d <= c /\ c <= m
      BY <1>0, <1>1
    <2>2. d \in Nat /\ d <= m /\ c \in Nat /\ c <= m /\ d <= c
      BY <1>0, <1>1, <2>1
    <2>3. \A i \in 1..c : w[i] = z[i]
      BY <1>0
    <2> HIDE DEF d, c
    <2>4. \A i \in 1..d : i \in 1..c
      BY <2>2
    <2> QED
      BY <2>2, <2>3, <2>4
  <1>3. /\ \A k \in 1..Len(B) : k # g /\ B[k][1].label \notin E => Put(z, B[k], pos[k], d) /\ Closed(z, B[k], pos[k], d)
        /\ Put(z, B[g], pos[g], c)
    BY DEF Following
  <1> HIDE DEF d, c
  <1>4. ASSUME NEW k \in 1..Len(B), k # g, B[k][1].label \notin E
        PROVE  Put(w, B[k], pos[k], m) /\ Closed(w, B[k], pos[k], m)
    <2>1. Put(z, B[k], pos[k], d) /\ Closed(z, B[k], pos[k], d)
      BY <1>3, <1>4
    <2>2. Put(w, B[k], pos[k], m)
      BY <1>0, <1>2, <2>1, PutOn
    <2>3. Closed(w, B[k], pos[k], m)
      BY <1>0, <1>2, <2>1, ClosedOn
    <2> QED
      BY <2>2, <2>3
  <1>5. Put(w, B[g], pos[g], m)
    BY <1>0, <1>2, <1>3, PutOn
  <1> QED
    BY <1>4, <1>5 DEF Stay

(* The next block of the trace, put after y, which is what there was but   *)
(* for the last statement.                                                 *)
LEMMA TraceGoesOn ==
  ASSUME NEW B, NEW n, Sound(B, n), NEW E, NEW z, NEW pos, NEW g, Following(z, E, B, n, pos, g),
         NEW h \in 1..Len(B), B[h][1].label \in E, NEW y, Ready(y, E, B, n, h),
         Len(z) <= Len(y) + 1, \A i \in 1..(Len(z) - 1) : y[i] = z[i],
         NEW w, w = y \o B[h],
         Chained(w, y, E, B, n, h) => Closed(w, B[g], pos[g], Len(y) + 1)
  PROVE  \E q : Following(w, E \ {B[h][1].label}, B, n, q, h)
  <1>1. Chained(w, y, E, B, n, h)
    BY Chains
  <1>2. Len(y) \in Nat /\ (\A i \in 1..Len(y) : w[i] = y[i]) /\ Len(z) \in Nat
    BY <1>1, AtLast DEF Chained, LastOf
  <1>3. Len(y) + 1 \in Nat /\ Len(z) <= (Len(y) + 1) + 1 /\ \A i \in 1..(Len(z) - 1) : w[i] = z[i]
    BY <1>2
  <1>4. Stay(w, E, B, pos, g, Len(y) + 1)
    <2>1. Amends(w, z, Len(y) + 1)
      BY <1>3 DEF Amends
    <2> QED
      BY <2>1, OthersStay
  <1>5. \A k \in 1..Len(B) : B[k][1].label \notin E =>
          Put(w, B[k], pos[k], Len(y) + 1) /\ Closed(w, B[k], pos[k], Len(y) + 1)
    BY <1>1, <1>4 DEF Stay
  <1>6. B[1][1].label \notin E /\ pos[1] = 0
    BY DEF Following
  <1> QED
    BY <1>1, <1>5, <1>6, GoesOn

LEMMA LessOfFollowing ==
  ASSUME NEW B, NEW n, Sound(B, n), NEW E, NEW z, NEW pos, NEW g, Following(z, E, B, n, pos, g),
         NEW y, y = Front(z)
  PROVE  /\ Good(y, E, B, n) /\ Falls(y, Len(y)) /\ Row(z) /\ Row(y)
         /\ Len(z) \in Nat \ {0} /\ Len(y) = Len(z) - 1 /\ Len(y) \in Nat /\ \A i \in 1..Len(y) : y[i] = z[i]
  <1>1. Len(z) \in Nat \ {0} /\ Len(z) # 0 /\ z[Len(z)].kind \in {"jump", "cjump"}
    BY AtLast DEF LastOf
  <1>2. Good(z, E, B, n) /\ Falls(z, Len(z) - 1) /\ n \in Nat
    BY DEF Following, Sound
  <1>3. /\ Good(y, E, B, n) /\ Falls(y, Len(y)) /\ Row(z) /\ Row(y)
        /\ Len(y) = Len(z) - 1 /\ Len(y) \in Nat /\ \A i \in 1..Len(y) : y[i] = z[i]
    BY <1>1, <1>2, GoodLess
  <1> QED
    BY <1>1, <1>3

(* A branch that is not the last has its false label after it.             *)
LEMMA NoBranchLast ==
  ASSUME NEW y, Len(y) \in Nat, Falls(y, Len(y)), Len(y) # 0
  PROVE  y[Len(y)].kind # "cjump"
  <1>1. Len(y) \in 1..Len(y) /\ Len(y) + 1 \notin 1..Len(y)
    OBVIOUS
  <1> QED
    BY <1>1 DEF Falls

LEMMA FollowsJump ==
  ASSUME NEW B, NEW n, Sound(B, n), NEW E, NEW z, NEW pos, NEW g, Following(z, E, B, n, pos, g),
         NEW h \in 1..Len(B), B[h][1].label \in E, Last(z).kind = "jump", Last(z).label = B[h][1].label
  PROVE  \E q : Following(Front(z) \o B[h], E \ {B[h][1].label}, B, n, q, h)
  <1> DEFINE y == Front(z)
             e == Last(z)
             w == y \o B[h]
  <1>1. /\ Good(y, E, B, n) /\ Falls(y, Len(y)) /\ Row(z) /\ Row(y)
        /\ Len(z) \in Nat \ {0} /\ Len(y) = Len(z) - 1 /\ Len(y) \in Nat /\ \A i \in 1..Len(y) : y[i] = z[i]
    BY LessOfFollowing
  <1>2. LastOf(z, B, g, e) /\ pos[g] + Len(B[g]) = Len(z)
    BY AtLast
  <1> HIDE DEF y
  <1>3. Ready(y, E, B, n, h)
    <2>1. Falls(y, Len(y) - 1)
      BY <1>1 DEF Falls
    <2> QED
      BY <1>1, <2>1, NoBranchLast DEF Ready
  <1> HIDE DEF w, e
  <1>4. ASSUME Chained(w, y, E, B, n, h) PROVE Closed(w, B[g], pos[g], Len(y) + 1)
    <2>1. w[Len(y) + 1] = Label(e.label)
      BY <1>4 DEF Chained, e
    <2>2. pos[g] + Len(B[g]) = Len(y) + 1 /\ Len(y) + 1 \in 1..(Len(y) + 1)
      BY <1>1, <1>2
    <2>3. Jumped(w, e, Len(y) + 1, Len(y) + 1)
      BY <2>1, <2>2 DEF Jumped, e
    <2>4. B[g][Len(B[g])] = e
      BY <1>2 DEF LastOf
    <2> QED
      BY <2>2, <2>3, <2>4 DEF Closed
  <1>5. Len(z) <= Len(y) + 1 /\ \A i \in 1..(Len(z) - 1) : y[i] = z[i]
    BY <1>1
  <1>6. w = y \o B[h]
    BY DEF w
  <1>7. \E q : Following(w, E \ {B[h][1].label}, B, n, q, h)
    BY <1>3, <1>4, <1>5, <1>6, TraceGoesOn
  <1> QED
    BY <1>7 DEF w, y

LEMMA FollowsFalse ==
  ASSUME NEW B, NEW n, Sound(B, n), NEW E, NEW z, NEW pos, NEW g, Following(z, E, B, n, pos, g),
         NEW h \in 1..Len(B), B[h][1].label \in E, Last(z).kind = "cjump", Last(z).false = B[h][1].label
  PROVE  \E q : Following(z \o B[h], E \ {B[h][1].label}, B, n, q, h)
  <1> DEFINE e == Last(z)
             w == z \o B[h]
  <1>1. LastOf(z, B, g, e) /\ pos[g] + Len(B[g]) = Len(z) /\ Len(z) \in Nat \ {0} /\ z[Len(z)] = e
    BY AtLast DEF LastOf
  <1>2. Ready(z, E, B, n, h)
    BY <1>1 DEF Ready, Following
  <1> HIDE DEF w, e
  <1>3. ASSUME Chained(w, z, E, B, n, h) PROVE Closed(w, B[g], pos[g], Len(z) + 1)
    <2>0. Len(z) \in 1..(Len(z) + 1) /\ Len(z) + 1 \in 1..(Len(z) + 1) /\ Len(z) \in 1..Len(z)
      BY <1>1
    <2>1. w[Len(z)] = e /\ w[Len(z) + 1] = Label(e.false)
      BY <1>1, <1>3, <2>0 DEF Chained, e
    <2>2. Branched(w, e, Len(z), Len(z) + 1)
      BY <2>0, <2>1 DEF Branched, e
    <2>3. B[g][Len(B[g])] = e
      BY <1>1 DEF LastOf
    <2> QED
      BY <1>1, <2>2, <2>3 DEF Closed
  <1>4. Len(z) <= Len(z) + 1
    BY <1>1
  <1>5. w = z \o B[h]
    BY DEF w
  <1>6. \E q : Following(w, E \ {B[h][1].label}, B, n, q, h)
    BY <1>2, <1>3, <1>4, <1>5, TraceGoesOn
  <1> QED
    BY <1>6 DEF w

(* With the condition negated and the labels exchanged a branch goes the   *)
(* same way.                                                               *)
LEMMA NegatedSame ==
  ASSUME NEW e, Statement(e), e.kind = "cjump"
  PROVE  /\ negated(e).kind = "cjump" /\ Statement(negated(e)) /\ Targets(negated(e)) = Targets(e)
         /\ negated(e).op.c = e.op.c /\ negated(e).false = e.true
         /\ \A b \in BOOLEAN : chosen(negated(e), b) = chosen(e, b)
  <1>1. e = Cjump(e.op, e.true, e.false) /\ e.op \in [c : {e.op.c}, neg : BOOLEAN]
    BY Kinds
  <1> DEFINE r == notRel(e.op)
  <1>2. r = [c |-> e.op.c, neg |-> ~ e.op.neg] /\ e.op.neg \in BOOLEAN
    BY <1>1 DEF notRel
  <1>3. r.c = e.op.c /\ r.neg = (~ e.op.neg) /\ r \in [c : {r.c}, neg : BOOLEAN]
    BY <1>2
  <1>4. negated(e) = Cjump(r, e.false, e.true)
    BY DEF negated
  <1> HIDE DEF r
  <1>5. negated(e).kind = "cjump" /\ negated(e).op = r /\ negated(e).true = e.false /\ negated(e).false = e.true
    BY <1>4 DEF Cjump
  <1>6. Statement(negated(e))
    BY <1>3, <1>4, <1>5 DEF Statement
  <1>7. Targets(negated(e)) = Targets(e)
    BY <1>5 DEF Targets
  <1>8. ASSUME NEW b \in BOOLEAN PROVE chosen(negated(e), b) = chosen(e, b)
    <2>1. b # (~ e.op.neg) <=> ~ (b # e.op.neg)
      BY <1>2
    <2> QED
      BY <1>3, <1>5, <2>1 DEF chosen
  <1> QED
    BY <1>3, <1>5, <1>6, <1>7, <1>8

LEMMA FollowsTrue ==
  ASSUME NEW B, NEW n, Sound(B, n), NEW E, NEW z, NEW pos, NEW g, Following(z, E, B, n, pos, g),
         NEW h \in 1..Len(B), B[h][1].label \in E, Last(z).kind = "cjump", Last(z).true = B[h][1].label
  PROVE  \E q : Following(Append(Front(z), negated(Last(z))) \o B[h], E \ {B[h][1].label}, B, n, q, h)
  <1> DEFINE x == Front(z)
             e == Last(z)
             s == negated(e)
             y == Append(x, s)
             w == y \o B[h]
  <1>1. /\ Good(x, E, B, n) /\ Falls(x, Len(x)) /\ Row(z) /\ Row(x)
        /\ Len(z) \in Nat \ {0} /\ Len(x) = Len(z) - 1 /\ Len(x) \in Nat /\ \A i \in 1..Len(x) : x[i] = z[i]
    BY LessOfFollowing
  <1>2. LastOf(z, B, g, e) /\ pos[g] + Len(B[g]) = Len(z) /\ Statement(e) /\ e.kind = "cjump"
        /\ Targets(e) \subseteq Names(B) \cup {done}
    BY AtLast DEF LastOf
  <1>3. s.kind = "cjump" /\ Statement(s) /\ Targets(s) \subseteq Names(B) \cup {done} /\ s.false = e.true
    BY <1>2, NegatedSame
  <1> HIDE DEF x, s
  <1>4. Row(y) /\ Len(y) = Len(z) /\ (\A i \in 1..Len(x) : y[i] = z[i]) /\ y[Len(z)] = s
    <2>1. Row(y) /\ Len(y) = Len(x) + 1 /\ (\A i \in 1..Len(x) : y[i] = x[i]) /\ y[Len(x) + 1] = s
      BY <1>1, RowAppend
    <2>2. Len(x) + 1 = Len(z)
      BY <1>1
    <2> HIDE DEF y
    <2> QED
      BY <1>1, <2>1, <2>2
  <1>5. Good(y, E, B, n)
    <2> DEFINE r == <<s>>
    <2>1. Row(r) /\ Len(r) = 1 /\ r[1] = s
      <3>1. r \in Seq({s})
        OBVIOUS
      <3> QED
        BY <3>1, SeqRow
    <2>2. y = x \o r
      <3> DEFINE S == Elements(x) \cup {s}
      <3>1. x \in Seq(S) /\ s \in S
        BY <1>1, RowSeq
      <3> HIDE DEF S
      <3> QED
        BY <3>1, AppendIsConcat
    <2> HIDE DEF r, y
    <2>3. Fits(r, x, E, B, n)
      BY <1>3, <2>1 DEF Fits
    <2>4. n \in Nat /\ n <= n /\ E \subseteq E
      BY DEF Sound
    <2> QED
      BY <1>1, <2>2, <2>3, <2>4, GoodMore
  <1> HIDE DEF y
  <1>6. Ready(y, E, B, n, h)
    <2>1. Falls(y, Len(y) - 1)
      <3> SUFFICES ASSUME NEW i \in 1..(Len(z) - 1), y[i].kind = "cjump"
                   PROVE  i + 1 \in 1..Len(z) /\ y[i + 1] = Label(y[i].false)
        BY <1>4 DEF Falls
      <3>1. i \in 1..Len(x) /\ x[i] = y[i]
        BY <1>1, <1>4
      <3>2. i + 1 \in 1..Len(x) /\ x[i + 1] = Label(x[i].false)
        BY <1>1, <3>1 DEF Falls
      <3> QED
        BY <1>1, <1>4, <3>1, <3>2
    <2>2. y[Len(y)].false = B[h][1].label
      BY <1>3, <1>4
    <2> QED
      BY <1>5, <2>1, <2>2 DEF Ready
  <1>7. Len(z) <= Len(y) + 1 /\ \A i \in 1..(Len(z) - 1) : y[i] = z[i]
    BY <1>1, <1>4
  <1> HIDE DEF w
  <1>8. ASSUME Chained(w, y, E, B, n, h) PROVE Closed(w, B[g], pos[g], Len(y) + 1)
    <2>0. Len(z) \in 1..(Len(z) + 1) /\ Len(z) + 1 \in 1..(Len(z) + 1) /\ Len(z) \in 1..Len(z)
      BY <1>1
    <2>1. w[Len(z)] = s /\ w[Len(z) + 1] = Label(e.true)
      BY <1>4, <1>8, <2>0 DEF Chained
    <2> HIDE DEF e
    <2>2. Branched(w, e, Len(z), Len(z) + 1)
      BY <1>2, <2>0, <2>1 DEF Branched, s
    <2>3. B[g][Len(B[g])] = e
      BY <1>2 DEF LastOf
    <2> QED
      BY <1>2, <1>4, <2>2, <2>3 DEF Closed
  <1>9. w = y \o B[h]
    BY DEF w
  <1>10. \E q : Following(w, E \ {B[h][1].label}, B, n, q, h)
    BY <1>6, <1>7, <1>8, <1>9, TraceGoesOn
  <1> QED
    BY <1>10 DEF w, y, x, s

(* The trace ends with its jump.                                           *)
LEMMA FollowsStop ==
  ASSUME NEW B, NEW n, Sound(B, n), NEW E, NEW z, NEW pos, NEW g, Following(z, E, B, n, pos, g),
         Last(z).kind = "jump"
  PROVE  Placing(z, E, B, n, pos)
  <1> DEFINE e == Last(z)
  <1>1. LastOf(z, B, g, e) /\ pos[g] + Len(B[g]) = Len(z) /\ Len(z) \in Nat \ {0} /\ z[Len(z)] = e
        /\ e = B[g][Len(B[g])]
    BY AtLast DEF LastOf
  <1>2. Good(z, E, B, n) /\ Falls(z, Len(z) - 1)
    BY DEF Following
  <1>3. Falls(z, Len(z))
    <2> SUFFICES ASSUME NEW i \in 1..Len(z), z[i].kind = "cjump"
                 PROVE  i + 1 \in 1..Len(z) /\ z[i + 1] = Label(z[i].false)
      BY DEF Falls
    <2>1. i \in 1..(Len(z) - 1)
      BY <1>1
    <2> QED
      BY <1>2, <2>1 DEF Falls
  <1>4. Stay(z, E, B, pos, g, Len(z))
    <2>1. Amends(z, z, Len(z))
      BY <1>1 DEF Amends
    <2> QED
      BY <2>1, OthersStay
  <1>5. Closed(z, B[g], pos[g], Len(z))
    <2>1. Len(z) \in 1..Len(z)
      BY <1>1
    <2>2. Jumped(z, e, Len(z), Len(z))
      BY <1>1, <2>1 DEF Jumped
    <2> QED
      BY <1>1, <2>2 DEF Closed
  <1>6. B[1][1].label \notin E /\ pos[1] = 0
    BY DEF Following
  <1> HIDE DEF e
  <1>7. \A k \in 1..Len(B) : B[k][1].label \notin E => Put(z, B[k], pos[k], Len(z)) /\ Closed(z, B[k], pos[k], Len(z))
    BY <1>4, <1>5 DEF Stay
  <1> QED
    BY <1>2, <1>3, <1>6, <1>7 DEF Placing

(* Where neither label is left, the false one is jumped to from a new      *)
(* label.                                                                  *)
LEMMA FollowsNew ==
  ASSUME NEW B, NEW n, Sound(B, n), NEW E, E \subseteq Names(B), done[1] # "new",
         NEW z, NEW pos, NEW g, Following(z, E, B, n, pos, g), Last(z).kind = "cjump"
  PROVE  LET e == Last(z)
             l == <<"new", n>>
         IN  Placing(Front(z) \o <<Cjump(e.op, e.true, l), Label(l), Jump(e.false)>>, E, B, n + 1, pos)
  <1> DEFINE y == Front(z)
             e == Last(z)
             l == <<"new", n>>
             s == Cjump(e.op, e.true, l)
             r == <<s, Label(l), Jump(e.false)>>
             w == y \o r
             a == Len(y)
  <1>1. /\ Good(y, E, B, n) /\ Falls(y, Len(y)) /\ Row(z) /\ Row(y)
        /\ Len(z) \in Nat \ {0} /\ Len(y) = Len(z) - 1 /\ Len(y) \in Nat /\ \A i \in 1..Len(y) : y[i] = z[i]
    BY LessOfFollowing
  <1>2. LastOf(z, B, g, e) /\ pos[g] + Len(B[g]) = Len(z) /\ Statement(e) /\ e.kind = "cjump"
        /\ Targets(e) \subseteq Names(B) \cup {done}
    BY AtLast DEF LastOf
  <1>3. /\ e = Cjump(e.op, e.true, e.false) /\ e.op \in [c : {e.op.c}, neg : BOOLEAN]
        /\ e.true \in Names(B) \cup {done} /\ e.false \in Names(B) \cup {done}
    BY <1>2, Kinds
  <1>4. n \in Nat /\ n + 1 \in Nat /\ n <= n + 1 /\ n <= n /\ \A m \in Nat : n + 1 <= m => n # m
    BY DEF Sound
  <1>5. Row(r) /\ Len(r) = 3 /\ r[1] = s /\ r[2] = Label(l) /\ r[3] = Jump(e.false)
    <2> DEFINE S == {s, Label(l), Jump(e.false)}
    <2>1. r \in Seq(S) /\ Len(r) = 3 /\ r[1] = s /\ r[2] = Label(l) /\ r[3] = Jump(e.false)
      <3> HIDE DEF s, l, e
      <3> QED
        OBVIOUS
    <2> HIDE DEF r, S
    <2> QED
      BY <2>1, SeqRow
  <1>6. /\ s.kind = "cjump" /\ s.op = e.op /\ s.true = e.true /\ s.false = l /\ s = Cjump(s.op, s.true, s.false)
        /\ Targets(s) = {e.true, l}
    BY DEF Cjump, Targets
  <1>7. /\ Label(l).kind = "label" /\ Label(l).label = l /\ Label(l) = Label(Label(l).label)
        /\ Targets(Label(l)) = {}
    BY DEF Label, Targets
  <1>8. /\ Jump(e.false).kind = "jump" /\ Jump(e.false).label = e.false /\ Jump(e.false) = Jump(Jump(e.false).label)
        /\ Targets(Jump(e.false)) = {e.false}
    BY DEF Jump, Targets
  <1>9. l \notin Names(B) /\ l # done /\ (\A m \in Nat : n + 1 <= m => l # <<"new", m>>)
    <2>1. \A k \in 1..Len(B) : B[k][1].label # l
      BY <1>4 DEF Sound, Fresh
    <2>2. l # done
      BY DEF l
    <2>3. \A m \in Nat : n # m => l # <<"new", m>>
      OBVIOUS
    <2> HIDE DEF l
    <2> QED
      BY <1>4, <2>1, <2>2, <2>3 DEF Names
  <1>10. \A j \in 1..a : y[j].kind = "label" => y[j].label # l
    BY <1>1, <1>4 DEF Good
  <1>11. Len(z) = a + 1 /\ a \in Nat
    BY <1>1
  <1> HIDE DEF s, r, l, y, e
  <1>12. \A i \in 1..3 : i = 1 \/ i = 2 \/ i = 3
    OBVIOUS
  <1>13. Fits(r, y, E, B, n + 1)
    <2>1. \A i \in 1..3 : Statement(r[i])
      <3>1. Statement(s)
        BY <1>3, <1>6 DEF Statement
      <3>2. Statement(Label(l))
        BY <1>7 DEF Statement
      <3>3. Statement(Jump(e.false))
        BY <1>8 DEF Statement
      <3> QED
        BY <1>5, <1>12, <3>1, <3>2, <3>3
    <2>2. \A i \in 1..3 : r[i].kind = "label" => i = 2 /\ r[i].label = l
      BY <1>5, <1>6, <1>7, <1>8, <1>12
    <2>3. \A i \in 1..3 : \A x \in Targets(r[i]) : x \in Names(B) \cup {done} \/ (i + 1 \in 1..3 /\ r[i + 1] = Label(x))
      <3> SUFFICES ASSUME NEW i \in 1..3, NEW x \in Targets(r[i])
                   PROVE  x \in Names(B) \cup {done} \/ (i + 1 \in 1..3 /\ r[i + 1] = Label(x))
        OBVIOUS
      <3>1. CASE i = 1
        BY <1>3, <1>5, <1>6, <3>1
      <3>2. CASE i = 2
        BY <1>5, <1>7, <3>2
      <3>3. CASE i = 3
        BY <1>3, <1>5, <1>8, <3>3
      <3> QED
        BY <1>12, <3>1, <3>2, <3>3
    <2>4. l \notin E \cup {done}
      BY <1>9
    <2>5. \A i \in 1..3 : r[i].kind = "label" => /\ r[i].label \notin E \cup {done}
                                                 /\ \A m \in Nat : n + 1 <= m => r[i].label # <<"new", m>>
                                                 /\ \A j \in 1..Len(y) : y[j].kind = "label" => y[j].label # r[i].label
      BY <1>9, <1>10, <2>2, <2>4
    <2>6. \A i, j \in 1..3 : r[i].kind = "label" /\ r[j].kind = "label" /\ r[i].label = r[j].label => i = j
      BY <2>2
    <2> QED
      BY <1>5, <2>1, <2>3, <2>5, <2>6 DEF Fits
  <1>14. Good(w, E, B, n + 1)
    <2>1. E \subseteq E /\ w = y \o r
      OBVIOUS
    <2> HIDE DEF w
    <2> QED
      BY <1>1, <1>4, <1>13, <2>1, GoodMore
  <1>15. /\ Len(w) = a + 3 /\ (\A i \in 1..a : w[i] = y[i])
         /\ w[a + 1] = s /\ w[a + 2] = Label(l) /\ w[a + 3] = Jump(e.false)
    <2>1. /\ Len(w) = Len(y) + Len(r) /\ (\A k \in 1..Len(y) : w[k] = y[k])
          /\ \A k \in 1..Len(r) : w[Len(y) + k] = r[k]
      <3>1. /\ Len(y \o r) = Len(y) + Len(r)
            /\ \A k \in 1..Len(y) : (y \o r)[k] = y[k]
            /\ \A k \in 1..Len(r) : (y \o r)[Len(y) + k] = r[k]
        <4>1. Row(y) /\ Row(r)
          BY <1>1, <1>5
        <4> QED
          BY <4>1, RowConcat
      <3>2. w = y \o r
        OBVIOUS
      <3> HIDE DEF w, a
      <3> QED
        BY <3>1, <3>2
    <2>2. 1 \in 1..3 /\ 2 \in 1..3 /\ 3 \in 1..3
      OBVIOUS
    <2> HIDE DEF w
    <2> QED
      BY <1>5, <2>1, <2>2
  <1> HIDE DEF w, a
  <1>16. Falls(w, Len(w))
    <2> SUFFICES ASSUME NEW i \in 1..(a + 3), w[i].kind = "cjump"
                 PROVE  i + 1 \in 1..(a + 3) /\ w[i + 1] = Label(w[i].false)
      BY <1>15 DEF Falls
    <2>1. i \in 1..a \/ i = a + 1 \/ i = a + 2 \/ i = a + 3
      BY <1>11
    <2>2. CASE i \in 1..a
      <3>1. w[i] = y[i] /\ i + 1 \in 1..a /\ y[i + 1] = Label(y[i].false)
        BY <1>1, <1>15, <2>2 DEF Falls, a
      <3>2. w[i + 1] = y[i + 1] /\ i + 1 \in 1..(a + 3)
        BY <1>11, <1>15, <3>1
      <3> QED
        BY <3>1, <3>2
    <2>3. CASE i = a + 1
      <3>1. i + 1 = a + 2 /\ i + 1 \in 1..(a + 3)
        BY <1>11, <2>3
      <3> QED
        BY <1>6, <1>15, <2>3, <3>1
    <2> QED
      BY <1>7, <1>8, <1>15, <2>1, <2>2, <2>3
  <1>17. Stay(w, E, B, pos, g, Len(w))
    <2>1. Len(w) \in Nat /\ Len(z) <= Len(w) + 1 /\ Len(z) - 1 = a
      BY <1>11, <1>15
    <2>2. \A i \in 1..(Len(z) - 1) : w[i] = z[i]
      BY <1>1, <1>15, <2>1 DEF a
    <2>3. Amends(w, z, Len(w))
      BY <2>1, <2>2 DEF Amends
    <2> QED
      BY <2>3, OthersStay
  <1>18. Closed(w, B[g], pos[g], Len(w))
    <2>1. /\ a + 1 \in 1..(a + 3) /\ (a + 1) + 1 \in 1..(a + 3) /\ (a + 1) + 2 \in 1..(a + 3)
          /\ (a + 1) + 1 = a + 2 /\ (a + 1) + 2 = a + 3
      BY <1>11
    <2>2. Detoured(w, e, a + 1, Len(w))
      BY <1>2, <1>15, <2>1 DEF Detoured, s
    <2>3. B[g][Len(B[g])] = e /\ pos[g] + Len(B[g]) = a + 1
      BY <1>2, <1>11 DEF LastOf
    <2> QED
      BY <2>2, <2>3 DEF Closed
  <1>19. B[1][1].label \notin E /\ pos[1] = 0
    BY DEF Following
  <1>20. \A k \in 1..Len(B) : B[k][1].label \notin E => Put(w, B[k], pos[k], Len(w)) /\ Closed(w, B[k], pos[k], Len(w))
    BY <1>17, <1>18 DEF Stay
  <1>21. Placing(w, E, B, n + 1, pos)
    BY <1>14, <1>16, <1>19, <1>20 DEF Placing
  <1> QED
    BY <1>21 DEF w, r, s, l, y, e

-----------------------------------------------------------------------------
(* When all is laid out and the label of the end is put after it, what is  *)
(* there is a layout of the blocks.                                        *)

Found(w, B, pos) ==
  /\ Code(w)
  /\ \A i \in 1..Len(w) : w[i].kind = "label" /\ w[i].label # done => At(w, w[i].label) = i
  /\ \A k \in 1..Len(B) : /\ pos[k] + 1 \in 1..Len(w) /\ w[pos[k] + 1] = Label(B[k][1].label)
                          /\ B[k][1].label # done

(* Every label a block may jump to is the place where a block is entered.  *)
LEMMA GoalAt ==
  ASSUME NEW w, NEW B, NEW pos, Found(w, B, pos), NEW ent, \A k \in 1..Len(B) : ent[k] = pos[k] + 1,
         NEW l \in Names(B) \cup {done}
  PROVE  Goal(w, B, ent, l, At(w, l)) /\ At(w, l) \in Places(w) /\ (l # done => w[At(w, l)].kind = "label")
  <1>0. \A x : Label(x).kind = "label" /\ Label(x).label = x
    BY DEF Label
  <1>1. CASE l = done
    BY <1>1 DEF Goal, At, Places, Found, Code
  <1>2. CASE l # done
    <2>1. PICK k \in 1..Len(B) : l = B[k][1].label
      BY <1>2 DEF Names
    <2>2. pos[k] + 1 \in 1..Len(w) /\ w[pos[k] + 1] = Label(l)
      BY <2>1 DEF Found
    <2>3. At(w, l) = pos[k] + 1
      BY <1>0, <1>2, <2>2 DEF Found
    <2>4. Goal(w, B, ent, l, At(w, l))
      BY <2>1, <2>3 DEF Goal
    <2>5. Len(w) \in Nat
      BY DEF Found, Code
    <2> HIDE DEF Goal
    <2> QED
      BY <1>0, <2>2, <2>3, <2>4, <2>5 DEF Places
  <1> QED
    BY <1>1, <1>2

LEMMA EndJumped ==
  ASSUME NEW w, NEW B, NEW pos, Found(w, B, pos), NEW ent, \A k \in 1..Len(B) : ent[k] = pos[k] + 1,
         NEW e, Statement(e), Targets(e) \subseteq Names(B) \cup {done},
         NEW p \in 1..Len(w), e.kind = "jump", w[p] = e \/ (w[p] = Label(e.label) /\ e.label # done)
  PROVE  EndOf(w, B, ent, e, p)
  <1> DEFINE l == e.label
             q == At(w, l)
  <1>1. l \in Names(B) \cup {done} /\ Len(w) \in Nat
    BY Kinds DEF Found, Code
  <1>2. Goal(w, B, ent, l, q) /\ q \in Places(w) /\ (l # done => w[q].kind = "label")
    BY <1>1, GoalAt
  <1>3. p \in Places(w)
    BY <1>1 DEF Places
  <1>4. Leads(w, p, q) /\ (p = q /\ q # Len(w) + 1 => w[q].kind = "label")
    <2>1. CASE w[p] = e
      <3>1. Silent(w, p, q)
        BY <2>1 DEF Silent
      <3>2. p # q
        <4>1. CASE l = done
          <5>1. q = Len(w) + 1
            BY <4>1 DEF At
          <5> QED
            BY <1>1, <5>1
        <4>2. CASE l # done
          BY <1>2, <2>1, <4>2
        <4> QED
          BY <4>1, <4>2
      <3>3. Leads(w, p, q)
        BY <1>2, <3>1, LeadsStep
      <3> QED
        BY <3>2, <3>3
    <2>2. CASE w[p] = Label(l) /\ l # done
      <3>1. w[p].kind = "label" /\ w[p].label = l
        BY <2>2 DEF Label
      <3>2. q = p
        BY <2>2, <3>1 DEF Found
      <3> QED
        BY <3>1, <3>2, LeadsSelf
    <2> QED
      BY <2>1, <2>2
  <1>5. e.kind # "cjump"
    OBVIOUS
  <1> HIDE DEF q
  <1> QED
    BY <1>2, <1>3, <1>4, <1>5 DEF EndOf

LEMMA EndBranched ==
  ASSUME NEW w, NEW B, NEW pos, Found(w, B, pos), NEW ent, \A k \in 1..Len(B) : ent[k] = pos[k] + 1,
         NEW e, Statement(e), Targets(e) \subseteq Names(B) \cup {done},
         NEW p \in 1..Len(w), e.kind = "cjump", w[p] = e \/ w[p] = negated(e)
  PROVE  EndOf(w, B, ent, e, p)
  <1>1. p \in Places(w)
    BY DEF Found, Code, Places
  <1>2. w[p].kind = "cjump" /\ w[p].op.c = e.op.c /\ \A b \in BOOLEAN : chosen(w[p], b) = chosen(e, b)
    BY NegatedSame
  <1>3. \A b \in BOOLEAN : \E q : Goal(w, B, ent, chosen(e, b), q) /\ Leads(w, At(w, chosen(w[p], b)), q)
    <2> SUFFICES ASSUME NEW b \in BOOLEAN
                 PROVE  \E q : Goal(w, B, ent, chosen(e, b), q) /\ Leads(w, At(w, chosen(w[p], b)), q)
      OBVIOUS
    <2>1. chosen(e, b) \in Names(B) \cup {done}
      BY Kinds
    <2>2. Goal(w, B, ent, chosen(e, b), At(w, chosen(e, b)))
      BY <2>1, GoalAt
    <2>3. Leads(w, At(w, chosen(w[p], b)), At(w, chosen(e, b)))
      BY <1>2, LeadsSelf
    <2> QED
      BY <2>2, <2>3
  <1>4. e.kind # "jump"
    OBVIOUS
  <1> QED
    BY <1>1, <1>2, <1>3, <1>4 DEF EndOf

LEMMA EndDetoured ==
  ASSUME NEW w, NEW B, NEW pos, Found(w, B, pos), NEW ent, \A k \in 1..Len(B) : ent[k] = pos[k] + 1,
         NEW e, Statement(e), Targets(e) \subseteq Names(B) \cup {done}, e.kind = "cjump",
         NEW p \in 1..Len(w), p + 1 \in 1..Len(w), p + 2 \in 1..Len(w),
         NEW l, l # done, w[p] = Cjump(e.op, e.true, l), w[p + 1] = Label(l), w[p + 2] = Jump(e.false)
  PROVE  EndOf(w, B, ent, e, p)
  <1> DEFINE s == Cjump(e.op, e.true, l)
  <1>1. p \in Places(w) /\ p + 1 \in Places(w) /\ p + 2 \in Places(w) /\ Len(w) \in Nat
    BY DEF Found, Code, Places
  <1>2. w[p].kind = "cjump" /\ w[p].op = e.op /\ w[p].true = e.true /\ w[p].false = l
    BY DEF Cjump
  <1>3. e.true \in Names(B) \cup {done} /\ e.false \in Names(B) \cup {done}
    BY Kinds
  <1>4. At(w, l) = p + 1
    <2>1. w[p + 1].kind = "label" /\ w[p + 1].label = l
      BY DEF Label
    <2> QED
      BY <2>1 DEF Found
  <1>5. Leads(w, p + 1, At(w, e.false))
    <2>1. At(w, e.false) \in Places(w)
      BY <1>3, GoalAt
    <2>2. Silent(w, p + 1, p + 2)
      <3>1. w[p + 1].kind = "label" /\ p + 2 = (p + 1) + 1
        BY DEF Label
      <3> QED
        BY <3>1 DEF Silent
    <2>3. Silent(w, p + 2, At(w, e.false))
      <3>1. w[p + 2].kind = "jump" /\ w[p + 2].label = e.false
        BY DEF Jump
      <3> QED
        BY <3>1 DEF Silent
    <2>4. Leads(w, p + 2, At(w, e.false))
      BY <2>1, <2>3, LeadsStep
    <2>5. Leads(w, p + 1, p + 2)
      BY <1>1, <2>2, LeadsStep
    <2> QED
      BY <2>4, <2>5, LeadsOn
  <1>6. \A b \in BOOLEAN : \E q : Goal(w, B, ent, chosen(e, b), q) /\ Leads(w, At(w, chosen(w[p], b)), q)
    <2> SUFFICES ASSUME NEW b \in BOOLEAN
                 PROVE  \E q : Goal(w, B, ent, chosen(e, b), q) /\ Leads(w, At(w, chosen(w[p], b)), q)
      OBVIOUS
    <2>1. CASE b # e.op.neg
      <3>1. chosen(e, b) = e.true /\ chosen(w[p], b) = e.true
        BY <1>2, <2>1 DEF chosen
      <3>2. Goal(w, B, ent, e.true, At(w, e.true))
        BY <1>3, GoalAt
      <3> QED
        BY <3>1, <3>2, LeadsSelf
    <2>2. CASE ~ (b # e.op.neg)
      <3>1. chosen(e, b) = e.false /\ chosen(w[p], b) = l
        BY <1>2, <2>2 DEF chosen
      <3>2. Goal(w, B, ent, e.false, At(w, e.false))
        BY <1>3, GoalAt
      <3> QED
        BY <1>4, <1>5, <3>1, <3>2
    <2> QED
      BY <2>1, <2>2
  <1>7. e.kind # "jump"
    OBVIOUS
  <1> QED
    BY <1>1, <1>2, <1>6, <1>7 DEF EndOf

Falling(w) == \A k \in 1..Len(w) : w[k].kind = "cjump" => w[k + 1] = Label(w[k].false)

LEMMA OutLaid ==
  ASSUME NEW B, NEW n, Sound(B, n), NEW z, NEW pos, Placing(z, {}, B, n, pos),
         NEW w, w = Append(z, Label(done))
  PROVE  (\E ent : Lays(w, B, pos, ent)) /\ Row(w) /\ Falling(w)
  <1> DEFINE a == Len(z)
             ent == [k \in 1..Len(B) |-> pos[k] + 1]
  <1>1. /\ Row(z) /\ a \in Nat
        /\ \A i \in 1..a : Statement(z[i])
        /\ \A i \in 1..a : z[i].kind = "label" => z[i].label # done
        /\ \A i, j \in 1..a : z[i].kind = "label" /\ z[j].kind = "label" /\ z[i].label = z[j].label => i = j
        /\ \A i \in 1..a : \A x \in Targets(z[i]) : x \in Names(B) \cup {done} \/ (i + 1 \in 1..a /\ z[i + 1] = Label(x))
        /\ Falls(z, a)
    BY DEF Placing, Good, Row
  <1>2. \A k \in 1..Len(B) : Put(z, B[k], pos[k], a) /\ Closed(z, B[k], pos[k], a)
    BY DEF Placing
  <1>3. \A x : Label(x).kind = "label" /\ Label(x).label = x /\ Statement(Label(x)) /\ Targets(Label(x)) = {}
    BY DEF Label, Statement, Targets
  <1>4. Row(w) /\ Len(w) = a + 1 /\ (\A i \in 1..a : w[i] = z[i]) /\ w[a + 1] = Label(done)
    BY <1>1, RowAppend
  <1>5. /\ \A i \in 1..(a + 1) : i \in 1..a \/ i = a + 1
        /\ \A i \in 1..a : i \in 1..(a + 1)
        /\ a + 1 \in Nat
    BY <1>1
  <1> HIDE DEF a
  <1>6. \A k \in 1..Len(B) : pos[k] + 1 \in 1..a /\ w[pos[k] + 1] = Label(B[k][1].label) /\ B[k][1].label # done
                             /\ pos[k] \in Nat
    <2> SUFFICES ASSUME NEW k \in 1..Len(B)
                 PROVE  pos[k] + 1 \in 1..a /\ w[pos[k] + 1] = Label(B[k][1].label) /\ B[k][1].label # done
                        /\ pos[k] \in Nat
      OBVIOUS
    <2>1. B[k][1] = Label(B[k][1].label) /\ B[k][1].label # done /\ Len(B[k]) \in Nat /\ 2 <= Len(B[k])
      BY BlockFacts
    <2>2. 1 \in 1..(Len(B[k]) - 1)
      BY <2>1
    <2>3. pos[k] + 1 \in 1..a /\ z[pos[k] + 1] = B[k][1] /\ pos[k] \in Nat
      BY <1>2, <2>2 DEF Put
    <2> QED
      BY <1>4, <2>1, <2>3
  <1>7. \A x \in Names(B) : x \in LabelsOf(w)
    <2> SUFFICES ASSUME NEW k \in 1..Len(B) PROVE B[k][1].label \in LabelsOf(w)
      BY DEF Names
    <2>1. DOMAIN w = 1..(a + 1)
      BY <1>4, RowLen
    <2>2. pos[k] + 1 \in 1..(a + 1) /\ w[pos[k] + 1].kind = "label" /\ w[pos[k] + 1].label = B[k][1].label
      BY <1>3, <1>5, <1>6
    <2> QED
      BY <2>1, <2>2 DEF LabelsOf
  <1>8. Code(w)
    <2>1. \A i \in 1..(a + 1) : Statement(w[i]) /\ Targets(w[i]) \subseteq LabelsOf(w) \cup {done}
      <3> SUFFICES ASSUME NEW i \in 1..(a + 1), NEW x \in Targets(w[i]), x # done
                   PROVE  x \in LabelsOf(w)
        BY <1>1, <1>3, <1>4, <1>5
      <3>1. i \in 1..a /\ x \in Targets(z[i])
        BY <1>3, <1>4, <1>5
      <3>2. CASE x \in Names(B)
        BY <1>7, <3>2
      <3>3. CASE i + 1 \in 1..a /\ z[i + 1] = Label(x)
        <4>1. DOMAIN w = 1..(a + 1)
          BY <1>4, RowLen
        <4>2. i + 1 \in 1..(a + 1) /\ w[i + 1].kind = "label" /\ w[i + 1].label = x
          BY <1>3, <1>4, <1>5, <3>3
        <4> QED
          BY <4>1, <4>2 DEF LabelsOf
      <3> QED
        BY <1>1, <3>1, <3>2, <3>3
    <2> QED
      BY <1>4, <1>5, <2>1 DEF Code, Row
  <1>9. ASSUME NEW i \in 1..(a + 1), w[i].kind = "label", w[i].label # done
        PROVE  At(w, w[i].label) = i
    <2> DEFINE l == w[i].label
               j == At(w, l)
    <2>1. DOMAIN w = 1..(a + 1)
      BY <1>4, RowLen
    <2>2. l \in LabelsOf(w)
      BY <1>9, <2>1 DEF LabelsOf
    <2>3. j \in 1..(a + 1) /\ w[j].kind = "label" /\ w[j].label = l
      <3>1. l \in LabelsOf(w) \cup {done} /\ l # done
        BY <1>9, <2>2
      <3> HIDE DEF l
      <3> QED
        BY <1>4, <1>8, <3>1, AtIn
    <2>4. i \in 1..a /\ w[i] = z[i]
      BY <1>3, <1>4, <1>5, <1>9
    <2> HIDE DEF j
    <2>5. j \in 1..a /\ w[j] = z[j]
      BY <1>3, <1>4, <1>5, <1>9, <2>3
    <2>6. z[i].kind = "label" /\ z[j].kind = "label" /\ z[i].label = z[j].label
      BY <1>9, <2>3, <2>4, <2>5
    <2>7. j = i
      BY <1>1, <2>4, <2>5, <2>6 DEF a
    <2> QED
      BY <2>7 DEF j
  <1>10. Found(w, B, pos)
    BY <1>4, <1>5, <1>6, <1>8, <1>9 DEF Found
  <1>11. \A k \in 1..Len(B) : ent[k] = pos[k] + 1
    OBVIOUS
  <1> HIDE DEF ent
  <1>12. ASSUME NEW k \in 1..Len(B)
         PROVE  EndOf(w, B, ent, B[k][Len(B[k])], pos[k] + Len(B[k]))
    <2> DEFINE e == B[k][Len(B[k])]
               p == pos[k] + Len(B[k])
    <2>1. Statement(e) /\ Targets(e) \subseteq Names(B) \cup {done}
      <3>1. Len(B[k]) \in 1..Len(B[k])
        BY BlockFacts
      <3> QED
        BY <3>1, BlockFacts
    <2>2. Jumped(z, e, p, a) \/ Branched(z, e, p, a) \/ Detoured(z, e, p, a)
      BY <1>2 DEF Closed
    <2> HIDE DEF e, p
    <2>3. CASE Jumped(z, e, p, a)
      <3>1. p \in 1..a /\ e.kind = "jump" /\ (z[p] = e \/ z[p] = Label(e.label))
        BY <2>3 DEF Jumped
      <3>2. z[p] = Label(e.label) => e.label # done
        BY <1>1, <1>3, <3>1 DEF a
      <3>3. p \in 1..Len(w) /\ (w[p] = e \/ (w[p] = Label(e.label) /\ e.label # done))
        BY <1>4, <1>5, <3>1, <3>2
      <3> QED
        BY <1>10, <1>11, <2>1, <3>1, <3>3, EndJumped DEF e, p
    <2>4. CASE Branched(z, e, p, a)
      <3>1. p \in 1..Len(w) /\ e.kind = "cjump" /\ (w[p] = e \/ w[p] = negated(e))
        BY <1>4, <1>5, <2>4 DEF Branched
      <3> QED
        BY <1>10, <1>11, <2>1, <3>1, EndBranched DEF e, p
    <2>5. CASE Detoured(z, e, p, a)
      <3>1. /\ p \in 1..a /\ p + 1 \in 1..a /\ p + 2 \in 1..a /\ e.kind = "cjump"
            /\ \E l : z[p] = Cjump(e.op, e.true, l) /\ z[p + 1] = Label(l) /\ z[p + 2] = Jump(e.false)
        BY <2>5 DEF Detoured
      <3>2. PICK l : z[p] = Cjump(e.op, e.true, l) /\ z[p + 1] = Label(l) /\ z[p + 2] = Jump(e.false)
        BY <3>1
      <3>3. l # done
        BY <1>1, <1>3, <3>1, <3>2 DEF a
      <3>4. /\ p \in 1..Len(w) /\ p + 1 \in 1..Len(w) /\ p + 2 \in 1..Len(w)
            /\ w[p] = Cjump(e.op, e.true, l) /\ w[p + 1] = Label(l) /\ w[p + 2] = Jump(e.false)
        BY <1>4, <1>5, <3>1, <3>2
      <3> QED
        BY <1>10, <1>11, <2>1, <3>1, <3>3, <3>4, EndDetoured DEF e, p
    <2> QED
      BY <2>2, <2>3, <2>4, <2>5
  <1>13. Lays(w, B, pos, ent)
    <2>1. ASSUME NEW k \in 1..Len(B)
          PROVE  /\ pos[k] \in Int /\ ent[k] \in 1..Len(w) /\ ent[k] = pos[k] + 1 /\ w[ent[k]].kind = "label"
                 /\ \A j \in 2..(Len(B[k]) - 1) : pos[k] + j \in 1..Len(w) /\ w[pos[k] + j] = B[k][j]
      <3>1. /\ pos[k] \in Int /\ ent[k] \in 1..Len(w) /\ ent[k] = pos[k] + 1 /\ w[ent[k]].kind = "label"
        BY <1>3, <1>4, <1>5, <1>6, <1>11
      <3>2. \A j \in 2..(Len(B[k]) - 1) : j \in 1..(Len(B[k]) - 1)
        BY BlockFacts
      <3>3. \A j \in 2..(Len(B[k]) - 1) : pos[k] + j \in 1..a /\ z[pos[k] + j] = B[k][j]
        BY <1>2, <3>2 DEF Put
      <3>4. \A j \in 2..(Len(B[k]) - 1) : pos[k] + j \in 1..Len(w) /\ w[pos[k] + j] = B[k][j]
        BY <1>4, <1>5, <3>3
      <3> QED
        BY <3>1, <3>4
    <2>2. Leads(w, 1, ent[1])
      <3>1. 1 \in 1..Len(B)
        BY DEF Sound, Blocks
      <3>2. pos[1] = 0
        BY DEF Placing
      <3>3. ent[1] = 1
        BY <1>11, <3>1, <3>2
      <3> QED
        BY <3>3, LeadsSelf
    <2> QED
      BY <1>8, <1>12, <2>1, <2>2 DEF Lays
  <1>14. Falling(w)
    <2> SUFFICES ASSUME NEW i \in 1..(a + 1), w[i].kind = "cjump" PROVE w[i + 1] = Label(w[i].false)
      BY <1>4 DEF Falling
    <2>1. i \in 1..a /\ w[i] = z[i]
      BY <1>3, <1>4, <1>5
    <2>2. i + 1 \in 1..a /\ z[i + 1] = Label(z[i].false)
      BY <1>1, <2>1 DEF Falls, a
    <2> QED
      BY <1>4, <2>1, <2>2
  <1> QED
    BY <1>4, <1>13, <1>14

-----------------------------------------------------------------------------
(* The invariant of the module, and what it says of the blocks.            *)

Formed(B) ==
  /\ Row(B)
  /\ \A k \in 1..Len(B) :
       /\ Row(B[k]) /\ 2 <= Len(B[k]) /\ B[k][1].kind = "label"
       /\ B[k][Len(B[k])].kind \in {"jump", "cjump"}
       /\ \A j \in 2..(Len(B[k]) - 1) : B[k][j].kind = "op"
  /\ \A j, k \in 1..Len(B) : B[j][1].label = B[k][1].label => j = k

LaysOut(z, B) == \E pos, ent : Lays(z, B, pos, ent)

Laying == Row(llist) /\ Sound(llist, nlabel) /\ env \subseteq Names(llist) /\ LaysOut(list, llist)

TInv ==
  /\ Proper(list) /\ nlabel \in Nat \ {0}
  /\ phase \in {"blocks", "place", "follow", "done"} /\ state \in {"IN", "OUT"}
  /\ phase = "blocks" => Cutting
  /\ phase # "blocks" => Laying
  /\ phase = "place" => \E pos : Placing(out, env, llist, nlabel, pos)
  /\ phase = "follow" => \E pos : \E g : Following(out, env, llist, nlabel, pos, g)
  /\ phase = "done" => LaysOut(out, llist) /\ Falling(out) /\ Row(out)

LEMMA SoundFormed ==
  ASSUME NEW B, Row(B), NEW n, Sound(B, n)
  PROVE  Formed(B)
  BY DEF Formed, Sound, Blocks

LEMMA CutFormed ==
  ASSUME Proper(list), state \in {"IN", "OUT"}, Cutting
  PROVE  Formed(llist)
  <1>1. PICK pos : CutAt(pos)
    BY DEF Cutting
  <1>2. Row(llist) /\ Len(llist) \in Nat
    BY DEF Cutting, Row
  <1>3. \A k \in 1..Len(llist) : k \in 1..Len(made) /\ made[k] = llist[k]
    <2>1. CASE state = "IN"
      <3>1. /\ Len(made) = Len(llist) + 1
            /\ \A k \in 1..Len(llist) : made[k] = llist[k]
        BY <1>2, <2>1, RowAppend DEF made
      <3> QED
        BY <1>2, <3>1
    <2>2. CASE state = "OUT"
      BY <2>2 DEF made
    <2> QED
      BY <2>1, <2>2
  <1>4. /\ \A k \in 1..Len(made) : Row(made[k]) /\ made[k][1] = Label(made[k][1].label)
        /\ \A j, k \in 1..Len(made) : made[j][1].label = made[k][1].label => j = k
    BY <1>1 DEF CutAt, Cut, Named
  <1>5. \A k \in 1..Len(llist) :
          /\ 2 <= Len(llist[k]) /\ llist[k][Len(llist[k])].kind \in {"jump", "cjump"}
          /\ \A j \in 2..(Len(llist[k]) - 1) : llist[k][j].kind = "op"
    <2>1. \A x : Jump(x).kind = "jump"
      BY DEF Jump
    <2> SUFFICES ASSUME NEW k \in 1..Len(llist)
                 PROVE  /\ 2 <= Len(llist[k]) /\ llist[k][Len(llist[k])].kind \in {"jump", "cjump"}
                        /\ \A j \in 2..(Len(llist[k]) - 1) : llist[k][j].kind = "op"
      OBVIOUS
    <2>2. Ended(list, got, llist[k], pos[k])
      BY <1>1 DEF CutAt
    <2>3. Filled(list, got, llist[k], pos[k], Len(llist[k]) - 1) /\ Stops(list, got, llist[k], pos[k])
      BY <2>2 DEF Ended
    <2> QED
      BY <2>1, <2>3 DEF Filled, Stops
  <1>6. \A x : Label(x).kind = "label"
    BY DEF Label
  <1>7. \A k \in 1..Len(llist) : Row(llist[k]) /\ llist[k][1].kind = "label"
    BY <1>3, <1>4, <1>6
  <1>8. \A j, k \in 1..Len(llist) : llist[j][1].label = llist[k][1].label => j = k
    BY <1>3, <1>4
  <1> QED
    BY <1>2, <1>5, <1>7, <1>8 DEF Formed

LEMMA LabelOfRow ==
  ASSUME NEW b, Row(b), 2 <= Len(b)
  PROVE  labelOf(b) = b[1].label /\ Head(b) = b[1] /\ Last(b) = b[Len(b)]
  <1>1. b # << >>
    BY RowLen DEF Row
  <1>2. Head(b) = b[1] /\ Last(b) = b[Len(b)]
    BY <1>1, RowTail, RowFront
  <1> QED
    BY <1>2 DEF labelOf

LEMMA NamesOfBlocks ==
  ASSUME NEW B, Formed(B)
  PROVE  DOMAIN B = 1..Len(B) /\ (\A k \in 1..Len(B) : labelOf(B[k]) = B[k][1].label)
         /\ {labelOf(B[k]) : k \in DOMAIN B} = Names(B)
  <1>1. DOMAIN B = 1..Len(B)
    BY RowLen DEF Formed
  <1>2. \A k \in 1..Len(B) : labelOf(B[k]) = B[k][1].label
    BY LabelOfRow DEF Formed
  <1> QED
    BY <1>1, <1>2 DEF Names

LEMMA TInit ==
  ASSUME ListsAssumption, Init
  PROVE  TInv
  <1>1. PICK l \in Lists : InitWith(l)
    BY DEF Init
  <1>2. /\ Proper(list) /\ list = l /\ stms = list /\ state = "OUT" /\ llist = << >> /\ env = {} /\ out = << >>
        /\ phase = "blocks" /\ nlabel = 1
    BY <1>1 DEF InitWith, ListsAssumption
  <1>3. Row(list) /\ Len(list) \in Nat \ {0} /\ got = 0 /\ made = << >>
    BY <1>2, ListFacts DEF got, made
  <1>4. Row(<< >>) /\ Len(<< >>) = 0
    BY RowEmpty
  <1>5. Rest
    BY <1>2, <1>3 DEF Rest
  <1>6. CutAt(<< >>)
    <2>1. Cut(list, 0, 1, << >>, << >>)
      BY <1>4 DEF Cut
    <2> QED
      BY <1>2, <1>3, <1>4, <2>1 DEF CutAt
  <1>7. Cutting
    BY <1>2, <1>4, <1>5, <1>6 DEF Cutting
  <1> QED
    BY <1>2, <1>7 DEF TInv

LEMMA Schedules ==
  ASSUME ListsAssumption, TInv, schedule
  PROVE  TInv'
  <1>1. /\ stms = << >> /\ state = "OUT" /\ env' = {labelOf(llist[k]) : k \in DOMAIN llist}
        /\ phase = "blocks" /\ phase' = "place" /\ list' = list /\ state' = state /\ llist' = llist /\ out' = out
        /\ nlabel' = nlabel
    BY DEF schedule
  <1>2. Proper(list) /\ nlabel \in Nat \ {0} /\ Cutting /\ Rest /\ out = << >> /\ Row(llist)
    BY <1>1 DEF TInv, Cutting
  <1>3. Formed(llist)
    BY <1>1, <1>2, CutFormed
  <1>4. env' = Names(llist)
    BY <1>1, <1>3, NamesOfBlocks
  <1>5. PICK pos : CutAt(pos)
    BY <1>2 DEF Cutting
  <1>6. /\ Cut(list, Len(list), nlabel, llist, pos)
        /\ \A k \in 1..Len(llist) : Ended(list, Len(list), llist[k], pos[k])
    <2>1. got = Len(list) /\ made = llist
      BY <1>1, <1>2, GotFacts DEF made
    <2> QED
      BY <1>5, <2>1 DEF CutAt
  <1>7. Blocks(llist) /\ Fresh(llist, nlabel) /\ LaysOut(list, llist)
    <2>1. done[1] # "new" /\ nlabel \in Nat
      BY <1>2 DEF ListsAssumption
    <2>2. Blocks(llist) /\ Fresh(llist, nlabel)
      BY <1>2, <1>6, <2>1, BlocksMade
    <2>3. \E ent : Lays(list, llist, pos, ent)
      BY <1>2, <1>6, <2>1, ListLaid
    <2> QED
      BY <2>2, <2>3 DEF LaysOut
  <1>8. Sound(llist, nlabel)
    BY <1>2, <1>3, <1>7 DEF Sound, Formed
  <1>9. Placing(<< >>, Names(llist), llist, nlabel, pos)
    <2>1. Row(<< >>) /\ Len(<< >>) = 0
      BY RowEmpty
    <2>2. Good(<< >>, Names(llist), llist, nlabel)
      BY <2>1 DEF Good
    <2>3. Falls(<< >>, 0)
      BY DEF Falls
    <2>4. \A k \in 1..Len(llist) : llist[k][1].label \in Names(llist)
      BY DEF Names
    <2>5. 1 \in 1..Len(llist)
      BY <1>7 DEF Blocks
    <2> QED
      BY <2>1, <2>2, <2>3, <2>4, <2>5 DEF Placing
  <1>10. Laying'
    <2>1. Names(llist) \subseteq Names(llist)
      OBVIOUS
    <2> QED
      BY <1>1, <1>2, <1>4, <1>7, <1>8, <2>1 DEF Laying
  <1>11. \E q : Placing(out', env', llist', nlabel', q)
    BY <1>1, <1>2, <1>4, <1>9
  <1> QED
    BY <1>1, <1>2, <1>10, <1>11 DEF TInv

LEMMA FirstLeft ==
  ASSUME Formed(llist), env \subseteq Names(llist), env # {}
  PROVE  /\ firstLeft \in 1..Len(llist) /\ llist[firstLeft][1].label \in env
         /\ \A j \in 1..(firstLeft - 1) : llist[j][1].label \notin env
         /\ labelOf(llist[firstLeft]) = llist[firstLeft][1].label
  <1> DEFINE S == {k \in 1..Len(llist) : llist[k][1].label \in env}
             left(k) == labelOf(llist[k]) \in env /\ \A j \in 1..(k - 1) : labelOf(llist[j]) \notin env
  <1>1. /\ DOMAIN llist = 1..Len(llist) /\ Len(llist) \in Nat
        /\ \A k \in 1..Len(llist) : labelOf(llist[k]) = llist[k][1].label
    BY NamesOfBlocks DEF Formed, Row
  <1>2. S \in SUBSET Nat /\ S # {}
    BY DEF Names
  <1>3. PICK m \in S : \A k \in S : m <= k
    <2> HIDE DEF S
    <2> QED
      BY <1>2, Least
  <1>4. m \in 1..Len(llist) /\ llist[m][1].label \in env
    OBVIOUS
  <1>5. \A k \in 1..Len(llist) : \A j \in 1..(k - 1) : j \in 1..Len(llist)
    BY <1>1
  <1>6. \A j \in 1..(m - 1) : llist[j][1].label \notin env
    <2> SUFFICES ASSUME NEW j \in 1..(m - 1), llist[j][1].label \in env PROVE FALSE
      OBVIOUS
    <2>1. j \in S
      BY <1>4, <1>5
    <2>2. m <= j /\ j \in Int /\ m \in Int
      BY <1>3, <1>4, <2>1
    <2> QED
      BY <2>2
  <1>7. left(m)
    BY <1>1, <1>4, <1>5, <1>6
  <1>8. firstLeft \in DOMAIN llist /\ left(firstLeft)
    <2>1. m \in DOMAIN llist
      BY <1>1, <1>4
    <2>2. firstLeft = CHOOSE k \in DOMAIN llist : left(k)
      BY DEF firstLeft
    <2> HIDE DEF left, S
    <2> QED
      BY <1>7, <2>1, <2>2
  <1> QED
    BY <1>1, <1>5, <1>8

LEMMA BlockOf ==
  ASSUME Formed(llist), env \subseteq Names(llist), NEW l \in env
  PROVE  \E h \in 1..Len(llist) : blockOf(l) = llist[h] /\ llist[h][1].label = l
  <1>1. /\ DOMAIN llist = 1..Len(llist)
        /\ \A k \in 1..Len(llist) : labelOf(llist[k]) = llist[k][1].label
    BY NamesOfBlocks
  <1> DEFINE h == CHOOSE k \in DOMAIN llist : labelOf(llist[k]) = l
  <1>2. \E k \in DOMAIN llist : labelOf(llist[k]) = l
    BY <1>1 DEF Names
  <1>3. h \in DOMAIN llist /\ labelOf(llist[h]) = l
    BY <1>2
  <1>4. blockOf(l) = llist[h]
    BY DEF blockOf
  <1> HIDE DEF h
  <1> QED
    BY <1>1, <1>3, <1>4

(* What the actions of traceSchedule leave alone. *)
Kept == UNCHANGED <<list, stms, state, block, llist>>

LEMMA LayingKept ==
  ASSUME TInv, Laying, Kept, env' \subseteq env, nlabel' \in {nlabel, nlabel + 1}
  PROVE  Proper(list)' /\ nlabel' \in Nat \ {0} /\ state' \in {"IN", "OUT"} /\ Laying'
  <1>1. /\ list' = list /\ state' = state /\ llist' = llist
        /\ Proper(list) /\ nlabel \in Nat \ {0} /\ state \in {"IN", "OUT"}
    BY DEF Kept, TInv
  <1>2. nlabel' \in Nat \ {0} /\ nlabel <= nlabel'
    BY <1>1
  <1>3. Sound(llist, nlabel')
    <2>1. \A m \in Nat : nlabel' <= m => nlabel <= m
      BY <1>1, <1>2
    <2> QED
      BY <1>2, <2>1 DEF Laying, Sound, Fresh
  <1>4. Row(llist) /\ env' \subseteq Names(llist) /\ LaysOut(list, llist)
    BY DEF Laying
  <1> QED
    BY <1>1, <1>2, <1>3, <1>4 DEF Laying

LEMMA Puts ==
  ASSUME ListsAssumption, TInv, place
  PROVE  TInv'
  <1>1. phase = "place" /\ Kept /\ nlabel' = nlabel
    BY DEF place, Kept
  <1>2. Laying /\ Sound(llist, nlabel) /\ Formed(llist) /\ env \subseteq Names(llist)
    <2>1. Laying
      BY <1>1 DEF TInv
    <2> QED
      BY <2>1, SoundFormed DEF Laying
  <1>3. PICK pos : Placing(out, env, llist, nlabel, pos)
    BY <1>1 DEF TInv
  <1>4. CASE env = {}
    <2>1. out' = Append(out, Label(done)) /\ phase' = "done" /\ env' = env
      BY <1>4 DEF place
    <2>2. LaysOut(out', llist) /\ Row(out') /\ Falling(out')
      <3>1. Placing(out, {}, llist, nlabel, pos)
        BY <1>3, <1>4
      <3> QED
        BY <1>2, <2>1, <3>1, OutLaid DEF LaysOut
    <2>3. Proper(list)' /\ nlabel' \in Nat \ {0} /\ state' \in {"IN", "OUT"} /\ Laying'
      <3>1. env' \subseteq env
        BY <2>1
      <3> QED
        BY <1>1, <1>2, <3>1, LayingKept
    <2>4. llist' = llist
      BY <1>1 DEF Kept
    <2>5. LaysOut(out, llist)'
      BY <2>2, <2>4 DEF LaysOut
    <2>6. Row(out)' /\ Falling(out)'
      BY <2>2 DEF Row, Falling
    <2> QED
      BY <2>1, <2>3, <2>5, <2>6 DEF TInv
  <1>5. CASE env # {}
    <2> DEFINE h == firstLeft
    <2>1. /\ out' = out \o llist[h] /\ env' = env \ {labelOf(llist[h])} /\ phase' = "follow"
      BY <1>5 DEF place
    <2>2. /\ h \in 1..Len(llist) /\ llist[h][1].label \in env /\ \A j \in 1..(h - 1) : llist[j][1].label \notin env
          /\ labelOf(llist[h]) = llist[h][1].label
      BY <1>2, <1>5, FirstLeft
    <2> HIDE DEF h
    <2>3. PICK q : Following(out', env', llist, nlabel, q, h)
      <3>1. \E q : Following(out \o llist[h], env \ {llist[h][1].label}, llist, nlabel, q, h)
        BY <1>2, <1>3, <2>2, TraceBegins
      <3> QED
        BY <2>1, <2>2, <3>1
    <2>4. Proper(list)' /\ nlabel' \in Nat \ {0} /\ state' \in {"IN", "OUT"} /\ Laying'
      <3>1. env' \subseteq env
        BY <2>1
      <3> QED
        BY <1>1, <1>2, <3>1, LayingKept
    <2>5. \E p : \E g : Following(out', env', llist', nlabel', p, g)
      BY <1>1, <2>3 DEF Kept
    <2> QED
      BY <2>1, <2>4, <2>5 DEF TInv
  <1> QED
    BY <1>4, <1>5

(* A block of the label l comes next, after head.                          *)
LEMMA Continues ==
  ASSUME TInv, Laying, Kept, phase' = "follow", nlabel' = nlabel, NEW l \in env, NEW head,
         out' = head \o blockOf(l), env' = env \ {l},
         \A h \in 1..Len(llist) :
           llist[h][1].label = l => \E q : Following(head \o llist[h], env \ {l}, llist, nlabel, q, h)
  PROVE  TInv'
  <1>1. PICK h \in 1..Len(llist) : blockOf(l) = llist[h] /\ llist[h][1].label = l
    <2>1. Formed(llist) /\ env \subseteq Names(llist)
      BY SoundFormed DEF Laying
    <2> QED
      BY <2>1, BlockOf
  <1>2. \E q : Following(out', env', llist, nlabel, q, h)
    BY <1>1
  <1>3. \E q : \E g : Following(out', env', llist', nlabel', q, g)
    BY <1>2 DEF Kept
  <1>4. Proper(list)' /\ nlabel' \in Nat \ {0} /\ state' \in {"IN", "OUT"} /\ Laying'
    <2>1. env' \subseteq env
      OBVIOUS
    <2> QED
      BY <2>1, LayingKept
  <1> QED
    BY <1>3, <1>4 DEF TInv

LEMMA TraceStops ==
  ASSUME TInv, Laying, Kept, phase' = "place", env' = env, nlabel' \in {nlabel, nlabel + 1},
         NEW pos, Placing(out', env, llist, nlabel', pos)
  PROVE  TInv'
  <1>1. \E p : Placing(out', env', llist', nlabel', p)
    BY DEF Kept
  <1>2. Proper(list)' /\ nlabel' \in Nat \ {0} /\ state' \in {"IN", "OUT"} /\ Laying'
    <2>1. env' \subseteq env
      OBVIOUS
    <2> QED
      BY <2>1, LayingKept
  <1> QED
    BY <1>1, <1>2 DEF TInv

LEMMA GoesWith ==
  ASSUME ListsAssumption, TInv, follow
  PROVE  TInv'
  <1> DEFINE s == Last(out)
  <1>1. phase = "follow" /\ Kept
    BY DEF follow, Kept
  <1>2. Laying /\ Sound(llist, nlabel) /\ env \subseteq Names(llist)
    BY <1>1 DEF TInv, Laying
  <1>3. PICK pos : \E g : Following(out, env, llist, nlabel, pos, g)
    BY <1>1 DEF TInv
  <1>4. PICK g : Following(out, env, llist, nlabel, pos, g)
    BY <1>3
  <1>5. CASE /\ s.kind = "jump" /\ s.label \in env
             /\ out' = Front(out) \o blockOf(s.label) /\ env' = env \ {s.label} /\ UNCHANGED <<phase, nlabel>>
    <2>1. \A h \in 1..Len(llist) :
            llist[h][1].label = s.label =>
              \E q : Following(Front(out) \o llist[h], env \ {s.label}, llist, nlabel, q, h)
      <3> SUFFICES ASSUME NEW h \in 1..Len(llist), llist[h][1].label = s.label
                   PROVE  \E q : Following(Front(out) \o llist[h], env \ {llist[h][1].label}, llist, nlabel, q, h)
        OBVIOUS
      <3> QED
        BY <1>2, <1>4, <1>5, FollowsJump
    <2> HIDE DEF s
    <2> QED
      BY <1>1, <1>2, <1>5, <2>1, Continues
  <1>6. CASE /\ s.kind = "cjump" /\ s.false \in env
             /\ out' = out \o blockOf(s.false) /\ env' = env \ {s.false} /\ UNCHANGED <<phase, nlabel>>
    <2>1. \A h \in 1..Len(llist) :
            llist[h][1].label = s.false => \E q : Following(out \o llist[h], env \ {s.false}, llist, nlabel, q, h)
      <3> SUFFICES ASSUME NEW h \in 1..Len(llist), llist[h][1].label = s.false
                   PROVE  \E q : Following(out \o llist[h], env \ {llist[h][1].label}, llist, nlabel, q, h)
        OBVIOUS
      <3> QED
        BY <1>2, <1>4, <1>6, FollowsFalse
    <2> HIDE DEF s
    <2> QED
      BY <1>1, <1>2, <1>6, <2>1, Continues
  <1>7. CASE /\ s.kind = "cjump" /\ s.true \in env
             /\ out' = Append(Front(out), negated(s)) \o blockOf(s.true) /\ env' = env \ {s.true}
             /\ UNCHANGED <<phase, nlabel>>
    <2>1. \A h \in 1..Len(llist) :
            llist[h][1].label = s.true =>
              \E q : Following(Append(Front(out), negated(s)) \o llist[h], env \ {s.true}, llist, nlabel, q, h)
      <3> SUFFICES ASSUME NEW h \in 1..Len(llist), llist[h][1].label = s.true
                   PROVE  \E q : Following(Append(Front(out), negated(s)) \o llist[h], env \ {llist[h][1].label},
                                           llist, nlabel, q, h)
        OBVIOUS
      <3> QED
        BY <1>2, <1>4, <1>7, FollowsTrue
    <2> HIDE DEF s
    <2> QED
      BY <1>1, <1>2, <1>7, <2>1, Continues
  <1>8. CASE /\ s.kind = "cjump"
             /\ out' = Front(out) \o <<Cjump(s.op, s.true, newLabel), Label(newLabel), Jump(s.false)>>
             /\ nlabel' = nlabel + 1 /\ phase' = "place" /\ env' = env
    <2>1. done[1] # "new"
      BY DEF ListsAssumption
    <2>2. Placing(out', env, llist, nlabel + 1, pos)
      BY <1>2, <1>4, <1>8, <2>1, FollowsNew DEF newLabel
    <2> QED
      BY <1>1, <1>2, <1>8, <2>2, TraceStops
  <1>9. CASE s.kind = "jump" /\ phase' = "place" /\ UNCHANGED <<out, env, nlabel>>
    <2>1. Placing(out', env, llist, nlabel', pos)
      BY <1>2, <1>4, <1>9, FollowsStop
    <2> QED
      BY <1>1, <1>2, <1>9, <2>1, TraceStops
  <1> QED
    BY <1>5, <1>6, <1>7, <1>8, <1>9 DEF follow

LEMMA TStep ==
  ASSUME ListsAssumption, TInv, [Next]_vars
  PROVE  TInv'
  <1>1. ASSUME phase = "blocks", phase' = "blocks", list' = list, state' \in {"IN", "OUT"},
               Cutting', nlabel' \in Nat \ {0}
        PROVE  TInv'
    <2>1. Proper(list)'
      BY <1>1 DEF TInv
    <2> QED
      BY <1>1, <2>1 DEF TInv
  <1>2. phase = "blocks" => Proper(list) /\ nlabel \in Nat \ {0} /\ Cutting
    BY DEF TInv
  <1>3. CASE beginBlock
    <2>1. phase = "blocks" /\ phase' = "blocks" /\ list' = list /\ state' = "IN"
      BY <1>3 DEF beginBlock
    <2>2. Cutting' /\ nlabel' \in Nat \ {0}
      BY <1>2, <1>3, <2>1, Begins
    <2> QED
      BY <1>1, <2>1, <2>2
  <1>4. CASE addStm
    <2>1. phase = "blocks" /\ phase' = "blocks" /\ list' = list /\ state' \in {"IN", "OUT"}
      BY <1>4 DEF addStm
    <2>2. Cutting' /\ nlabel' \in Nat \ {0}
      BY <1>2, <1>4, <2>1, Adds
    <2> QED
      BY <1>1, <2>1, <2>2
  <1>5. CASE endBlock
    <2>1. phase = "blocks" /\ phase' = "blocks" /\ list' = list /\ state' = "OUT"
      BY <1>5 DEF endBlock
    <2>2. Cutting' /\ nlabel' \in Nat \ {0}
      BY <1>2, <1>5, <2>1, Ends
    <2> QED
      BY <1>1, <2>1, <2>2
  <1>6. CASE schedule
    BY <1>6, Schedules
  <1>7. CASE place
    BY <1>7, Puts
  <1>8. CASE follow
    BY <1>8, GoesWith
  <1>9. CASE UNCHANGED vars
    BY <1>9 DEF vars, TInv, Cutting, Rest, CutAt, got, made, Laying
  <1> QED
    BY <1>3, <1>4, <1>5, <1>6, <1>7, <1>8, <1>9 DEF Next

LEMMA TSame ==
  ASSUME ListsAssumption, TInv
  PROVE  TraceSame
  <1>1. Formed(llist)
    <2>1. CASE phase = "blocks"
      BY <2>1, CutFormed DEF TInv
    <2>2. CASE phase # "blocks"
      BY <2>2, SoundFormed DEF TInv, Laying
    <2> QED
      BY <2>1, <2>2
  <1>2. /\ DOMAIN llist = 1..Len(llist) /\ Len(llist) \in Nat
        /\ \A k \in 1..Len(llist) : labelOf(llist[k]) = llist[k][1].label
        /\ {labelOf(llist[k]) : k \in DOMAIN llist} = Names(llist)
    BY <1>1, NamesOfBlocks DEF Formed, Row
  <1>3. TypeOK
    <2>1. phase \in {"blocks", "place", "follow", "done"} /\ state \in {"IN", "OUT"}
      BY DEF TInv
    <2>2. env \subseteq {labelOf(llist[k]) : k \in DOMAIN llist}
      <3>1. phase = "blocks" => env = {}
        BY DEF TInv, Cutting
      <3>2. phase # "blocks" => env \subseteq Names(llist)
        BY DEF TInv, Laying
      <3> QED
        BY <1>2, <3>1, <3>2
    <2>3. \A k \in DOMAIN llist : labelOf(llist[k]) \notin {labelOf(llist[j]) : j \in 1..(k - 1)}
      <3> SUFFICES ASSUME NEW k \in 1..Len(llist), NEW j \in 1..(k - 1), labelOf(llist[k]) = labelOf(llist[j])
                   PROVE  FALSE
        BY <1>2
      <3>1. j \in 1..Len(llist) /\ j # k
        BY <1>2
      <3>2. llist[j][1].label = llist[k][1].label
        BY <1>2, <3>1
      <3> QED
        BY <1>1, <3>1, <3>2 DEF Formed
    <2> QED
      BY <2>1, <2>2, <2>3 DEF TypeOK
  <1>4. WellFormed
    <2> SUFFICES ASSUME NEW k \in 1..Len(llist)
                 PROVE  /\ Head(llist[k]).kind = "label" /\ Last(llist[k]).kind \in {"jump", "cjump"}
                        /\ \A i \in 2..(Len(llist[k]) - 1) : llist[k][i].kind = "op"
      BY <1>2 DEF WellFormed
    <2>1. Row(llist[k]) /\ 2 <= Len(llist[k])
      BY <1>1 DEF Formed
    <2>2. Head(llist[k]) = llist[k][1] /\ Last(llist[k]) = llist[k][Len(llist[k])]
      BY <2>1, LabelOfRow
    <2> QED
      BY <1>1, <2>2 DEF Formed
  <1>5. phase # "blocks" => Blocks(llist) /\ LaysOut(list, llist)
    BY DEF TInv, Laying, Sound
  <1>6. Events \in Nat
    BY DEF ListsAssumption
  <1>7. \A x, y : Blocks(llist) /\ LaysOut(x, llist) /\ LaysOut(y, llist) => Same(x, y)
    <2> SUFFICES ASSUME NEW x, NEW y, Blocks(llist), LaysOut(x, llist), LaysOut(y, llist) PROVE Same(x, y)
      OBVIOUS
    <2>1. PICK px : \E ex : Lays(x, llist, px, ex)
      BY DEF LaysOut
    <2>2. PICK ex : Lays(x, llist, px, ex)
      BY <2>1
    <2>3. PICK py : \E ey : Lays(y, llist, py, ey)
      BY DEF LaysOut
    <2>4. PICK ey : Lays(y, llist, py, ey)
      BY <2>3
    <2> QED
      BY <1>6, <2>2, <2>4, LayoutsSame
  <1>8. BlocksSame
    <2> SUFFICES ASSUME phase = "place" PROVE Same(list, FlattenSeq(llist))
      BY DEF BlocksSame
    <2>1. LaysOut(FlattenSeq(llist), llist)
      <3>1. Blocks(llist) /\ Row(llist) /\ \A k \in 1..Len(llist) : Row(llist[k])
        BY <1>1, <1>5 DEF Formed
      <3> QED
        BY <3>1, FlatLaid DEF LaysOut
    <2> QED
      BY <1>5, <1>7, <2>1
  <1>9. OutSame
    <2> SUFFICES ASSUME phase = "done" PROVE Same(list, out)
      BY DEF OutSame
    <2>1. LaysOut(out, llist)
      BY DEF TInv
    <2> QED
      BY <1>5, <1>7, <2>1
  <1>10. FalseFollows
    <2> SUFFICES ASSUME phase = "done", NEW k \in DOMAIN out, out[k].kind = "cjump"
                 PROVE  out[k + 1] = Label(out[k].false)
      BY DEF FalseFollows
    <2>1. Falling(out) /\ Row(out)
      BY DEF TInv
    <2>2. k \in 1..Len(out)
      BY <2>1, RowLen
    <2> QED
      BY <2>1, <2>2 DEF Falling
  <1> QED
    BY <1>3, <1>4, <1>8, <1>9, <1>10 DEF TraceSame

(* TInv holds in every state, whatever the lists are: mkBlocks cuts the    *)
(* list into blocks, and what traceSchedule has laid out is the blocks     *)
(* already placed, each but perhaps the last closed by what does the same  *)
(* as its own jump.                                                        *)
THEOREM TraceInvariance ==
  ASSUME ListsAssumption
  PROVE  Spec => []TInv
  <1>1. Init => TInv
    BY TInit
  <1>2. TInv /\ [Next]_vars => TInv'
    BY TStep
  <1> QED
    BY <1>1, <1>2, PTL DEF Spec

(* The blocks mkBlocks makes and the code traceSchedule lays out do, for   *)
(* every way the conditions may turn out and however long the run, what    *)
(* the list did; the blocks have the form the flow graph asserts of them;  *)
(* and every branch laid out is followed by its false label.               *)
THEOREM TracesSame ==
  ASSUME ListsAssumption
  PROVE  Spec => []TraceSame
  <1>1. TInv => TraceSame
    BY TSame
  <1> QED
    BY <1>1, TraceInvariance, PTL
=============================================================================
