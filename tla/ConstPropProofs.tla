-------------------------- MODULE ConstPropProofs --------------------------
(***************************************************************************)
(* Proofs about ConstProp, for every well-formed function: the tables stay *)
(* tables, values only become less definite, and each round of the marking *)
(* uses up what is in its queues; then, that what it finds is right.  The  *)
(* lemmas say what one visit does and, by induction over the places        *)
(* visited, what visiting a sequence does.                                 *)
(***************************************************************************)
EXTENDS ConstProp, FiniteSetTheorems, WellFoundedInduction, TLAPS

(* The least number principle, as a fact about sets. *)
LEMMA SetInduction ==
  ASSUME NEW S, 0 \in S, \A n \in Nat : n \in S => n + 1 \in S
  PROVE  Nat \subseteq S
  <1> SUFFICES ASSUME Nat \ S # {} PROVE FALSE
    OBVIOUS
  <1> DEFINE T == Nat \ S
  <1>1. PICK x \in T : \A y \in T : ~ (<<y, x>> \in OpToRel(<, Nat))
    <2>1. IsWellFoundedOn(OpToRel(<, Nat), Nat)
      BY NatLessThanWellFounded
    <2>2. T \subseteq Nat /\ T # {}
      OBVIOUS
    <2> HIDE DEF T
    <2> QED
      BY <2>1, <2>2, WFMin
  <1>2. x # 0 /\ x \in Nat
    OBVIOUS
  <1>3. x - 1 \in Nat /\ x - 1 \in S => x \in S
    BY <1>2
  <1>4. x - 1 \in T
    BY <1>2, <1>3
  <1>5. <<x - 1, x>> \in OpToRel(<, Nat)
    BY <1>2, <1>4 DEF OpToRel
  <1> QED
    BY <1>1, <1>4, <1>5

(* inOrder lists the elements of a finite set of numbers. *)
LEMMA InOrder ==
  ASSUME NEW S \in SUBSET Int, IsFiniteSet(S)
  PROVE  /\ inOrder(S) \in Seq(S) /\ Len(inOrder(S)) = Cardinality(S)
         /\ \A m \in S : \E i \in 1..Len(inOrder(S)) : inOrder(S)[i] = m
         /\ \A i, j \in 1..Len(inOrder(S)) : inOrder(S)[i] = inOrder(S)[j] => i = j
  <1> DEFINE below(m) == {n \in S : n < m}
             c == Cardinality(S)
             place == [m \in S |-> Cardinality(below(m)) + 1]
  <1>1. c \in Nat
    BY FS_CardinalityType
  <1>2. ASSUME NEW m \in S
        PROVE  IsFiniteSet(below(m)) /\ Cardinality(below(m)) \in Nat /\ Cardinality(below(m)) < c
    <2>1. below(m) \in SUBSET (S \ {m}) /\ below(m) \in SUBSET S
      OBVIOUS
    <2>2. IsFiniteSet(S \ {m}) /\ Cardinality(S \ {m}) = c - 1
      BY FS_RemoveElement
    <2> HIDE DEF below, c
    <2>3. IsFiniteSet(below(m)) /\ Cardinality(below(m)) <= Cardinality(S \ {m})
      BY <2>1, <2>2, FS_Subset
    <2>4. Cardinality(below(m)) \in Nat
      BY <2>3, FS_CardinalityType
    <2> QED
      BY <2>2, <2>3, <2>4, <1>1
  <1>3. ASSUME NEW m \in S, NEW n \in S, m < n
        PROVE  Cardinality(below(m)) < Cardinality(below(n))
    <2>1. below(m) \cup {m} \in SUBSET below(n) /\ m \notin below(m)
      <3>1. S \subseteq Int /\ m \in Int /\ n \in Int /\ m < n BY <1>3
      <3>2. \A k \in below(m) \cup {m} : k \in below(n) BY <3>1
      <3>3. m \notin below(m) BY <3>1
      <3> QED BY <3>2, <3>3
    <2>2. IsFiniteSet(below(m)) /\ IsFiniteSet(below(n))
          /\ Cardinality(below(m)) \in Nat /\ Cardinality(below(n)) \in Nat
      BY <1>2
    <2> HIDE DEF below
    <2>3. Cardinality(below(m) \cup {m}) = Cardinality(below(m)) + 1
      BY <2>1, <2>2, FS_AddElement
    <2>4. Cardinality(below(m) \cup {m}) <= Cardinality(below(n))
      BY <2>1, <2>2, FS_Subset
    <2> QED
      BY <2>2, <2>3, <2>4
  <1>4. place \in [S -> 1..c]
    <2>1. \A m \in S : Cardinality(below(m)) + 1 \in 1..c
      <3> HIDE DEF below, c
      <3> QED BY <1>1, <1>2
    <2> QED BY <2>1
  <1>5. \A m, n \in S : place[m] = place[n] => m = n
    <2> SUFFICES ASSUME NEW m \in S, NEW n \in S, m # n PROVE place[m] # place[n]
      OBVIOUS
    <2>1. Cardinality(below(m)) \in Nat /\ Cardinality(below(n)) \in Nat
      BY <1>2
    <2>2. Cardinality(below(m)) < Cardinality(below(n)) \/ Cardinality(below(n)) < Cardinality(below(m))
      <3>1. m \in Int /\ n \in Int OBVIOUS
      <3>2. m < n \/ n < m BY <3>1
      <3> QED BY <3>2, <1>3
    <2>3. place[m] = Cardinality(below(m)) + 1 /\ place[n] = Cardinality(below(n)) + 1
      OBVIOUS
    <2> HIDE DEF place, below
    <2> QED BY <2>1, <2>2, <2>3
  <1>6. \A i \in 1..c : \E m \in S : place[m] = i
    <2> HIDE DEF place
    <2>1. place \in Injection(S, 1..c)
      BY <1>4, <1>5 DEF Injection, IsInjective
    <2>2. IsFiniteSet(1..c) /\ Cardinality(1..c) = c
      <3>1. 1 \in Int /\ c \in Int /\ c >= 0 BY <1>1
      <3> QED BY <3>1, FS_Interval
    <2>3. place \in Surjection(S, 1..c)
      BY <2>1, <2>2, FS_Injection
    <2> QED
      BY <2>3 DEF Surjection
  <1>7. \A i \in 1..c : inOrder(S)[i] \in S /\ place[inOrder(S)[i]] = i
    <2> SUFFICES ASSUME NEW i \in 1..c PROVE inOrder(S)[i] \in S /\ place[inOrder(S)[i]] = i
      OBVIOUS
    <2>1. inOrder(S)[i] = CHOOSE m \in S : Cardinality(below(m)) = i - 1
      BY DEF inOrder
    <2>2. PICK m \in S : place[m] = i
      BY <1>6
    <2>3. Cardinality(below(m)) = i - 1
      <3>1. Cardinality(below(m)) \in Nat /\ place[m] = Cardinality(below(m)) + 1 BY <1>2
      <3> HIDE DEF below, place
      <3> QED BY <3>1, <2>2
    <2>4. inOrder(S)[i] \in S /\ Cardinality(below(inOrder(S)[i])) = i - 1
      <3> HIDE DEF below
      <3> QED BY <2>1, <2>3
    <2>5. place[inOrder(S)[i]] = Cardinality(below(inOrder(S)[i])) + 1
      BY <2>4
    <2> HIDE DEF place, below
    <2> QED BY <2>4, <2>5
  <1>9. inOrder(S) \in Seq(S) /\ Len(inOrder(S)) = c
    <2>0. inOrder(S) = [i \in 1..c |-> CHOOSE m \in S : Cardinality({n \in S : n < m}) = i - 1]
      BY Zenon DEF inOrder
    <2>1. DOMAIN inOrder(S) = 1..c /\ inOrder(S) = [i \in DOMAIN inOrder(S) |-> inOrder(S)[i]]
      <3> DEFINE first(i) == CHOOSE m \in S : Cardinality({n \in S : n < m}) = i - 1
      <3>1. inOrder(S) = [i \in 1..c |-> first(i)] BY <2>0, Zenon
      <3> HIDE DEF first, c
      <3> QED BY <3>1, Zenon
    <2> HIDE DEF place, c
    <2>2. inOrder(S) \in [1..c -> S] BY <1>7, <2>1
    <2> QED BY <2>2, <1>1
  <1>10. ASSUME NEW m \in S PROVE \E i \in 1..c : inOrder(S)[i] = m
    <2>1. place[m] \in 1..c BY <1>4
    <2>2. place[inOrder(S)[place[m]]] = place[m] /\ inOrder(S)[place[m]] \in S
      <3> HIDE DEF place, c
      <3> QED BY <2>1, <1>7
    <2>3. inOrder(S)[place[m]] = m
      <3> HIDE DEF place, c
      <3> QED BY <2>2, <1>5
    <2> QED BY <2>1, <2>3
  <1>11. \A i, j \in 1..c : inOrder(S)[i] = inOrder(S)[j] => i = j
    <2> HIDE DEF place, c
    <2> QED BY <1>7
  <1> QED
    BY <1>9, <1>10, <1>11

(* The sequences of SetToSeqs list the elements of a finite set. *)
LEMMA SeqsOfSet ==
  ASSUME NEW S, IsFiniteSet(S), NEW q \in SetToSeqs(S)
  PROVE  /\ q \in Seq(S) /\ Len(q) \in Nat
         /\ \A m \in S : \E i \in 1..Len(q) : q[i] = m
         /\ \A i, j \in 1..Len(q) : q[i] = q[j] => i = j
  <1> DEFINE c == Cardinality(S)
  <1>1. c \in Nat
    BY FS_CardinalityType
  <1>2. q \in [1..c -> S] /\ \A i, j \in 1..c : i # j => q[i] # q[j]
    BY DEF SetToSeqs
  <1>3. IsFiniteSet(1..c) /\ Cardinality(1..c) = c
    <2>1. 1 \in Int /\ c \in Int /\ c >= 0 BY <1>1
    <2> QED BY <2>1, FS_Interval
  <1>4. q \in Injection(1..c, S)
    BY <1>2 DEF Injection, IsInjective
  <1>5. q \in Surjection(1..c, S)
    BY <1>3, <1>4, FS_Injection
  <1>6. Len(q) = c /\ q \in Seq(S)
    BY <1>1, <1>2
  <1> QED
    BY <1>1, <1>2, <1>5, <1>6 DEF Surjection

(* visitAll is the fold it looks like: what holds of s, and is handed on   *)
(* by each visit, holds of the table after the last.                       *)
LEMMA VisitAll ==
  ASSUME NEW s, NEW us, Len(us) \in Nat, NEW I, s \in I[0],
         \A k \in 1..Len(us) : \A x \in I[k - 1] : visit(x, us[k]) \in I[k]
  PROVE  visitAll(s, us) \in I[Len(us)]
  <1> DEFINE n == Len(us)
             unfolds(g, m) ==
               g = [k \in 0..m |-> IF k = 0 THEN s ELSE visit(g[k - 1], us[k])]
             good == {m \in Nat : m <= n => \E g : unfolds(g, m)}
             after == CHOOSE g : unfolds(g, n)
  <1>1. visitAll(s, us) = after[n]
    BY DEF visitAll
  <1>2. 0 \in good
    <2>1. unfolds([k \in 0..0 |-> s], 0)
      OBVIOUS
    <2> HIDE DEF unfolds
    <2> QED BY <2>1
  <1>3. ASSUME NEW m \in Nat, m \in good PROVE m + 1 \in good
    <2> SUFFICES ASSUME m + 1 <= n PROVE \E g : unfolds(g, m + 1)
      OBVIOUS
    <2>1. PICK g : unfolds(g, m)
      <3>1. m <= n BY m + 1 <= n, n \in Nat
      <3> HIDE DEF unfolds
      <3> QED BY <3>1, <1>3
    <2> DEFINE h == [k \in 0..(m + 1) |-> IF k <= m THEN g[k] ELSE visit(g[m], us[m + 1])]
    <2>2. \A k \in 0..m : g[k] = IF k = 0 THEN s ELSE visit(g[k - 1], us[k])
      BY <2>1
    <2>3. \A k \in 0..(m + 1) : h[k] = IF k = 0 THEN s ELSE visit(h[k - 1], us[k])
      <3> TAKE k \in 0..(m + 1)
      <3>1. CASE k = 0
        BY <3>1, <2>2
      <3>2. CASE k \in 1..m
        <4>1. h[k] = g[k] /\ h[k - 1] = g[k - 1] BY <3>2
        <4>2. g[k] = visit(g[k - 1], us[k]) BY <3>2, <2>2
        <4> QED BY <3>2, <4>1, <4>2
      <3>3. CASE k = m + 1
        <4>1. h[k] = visit(g[m], us[m + 1]) /\ h[k - 1] = g[m] BY <3>3
        <4> QED BY <3>3, <4>1
      <3> QED BY <3>1, <3>2, <3>3
    <2>4. DOMAIN h = 0..(m + 1) /\ h = [k \in DOMAIN h |-> h[k]]
      OBVIOUS
    <2> HIDE DEF h
    <2>5. unfolds(h, m + 1)
      BY <2>3, <2>4
    <2> HIDE DEF unfolds
    <2> QED BY <2>5
  <1>4. unfolds(after, n)
    <2>1. n \in good
      <3> HIDE DEF good
      <3>1. Nat \subseteq good BY <1>2, <1>3, SetInduction
      <3> QED BY <3>1
    <2>2. \E g : unfolds(g, n)
      BY <2>1
    <2> HIDE DEF unfolds
    <2> QED BY <2>2
  <1>5. \A k \in 0..n : after[k] = IF k = 0 THEN s ELSE visit(after[k - 1], us[k])
    <2> HIDE DEF after
    <2> QED BY <1>4
  <1> DEFINE kept == {m \in Nat : m <= n => after[m] \in I[m]}
  <1>6. 0 \in kept
    <2> HIDE DEF after
    <2> QED BY <1>5
  <1>7. ASSUME NEW m \in Nat, m \in kept PROVE m + 1 \in kept
    <2> HIDE DEF after
    <2> SUFFICES ASSUME m + 1 <= n PROVE after[m + 1] \in I[m + 1]
      OBVIOUS
    <2>1. m <= n /\ m + 1 \in 1..n /\ m + 1 # 0 /\ (m + 1) - 1 = m /\ m + 1 \in 0..n
      BY m + 1 <= n, n \in Nat
    <2>2. after[m] \in I[m] BY <2>1, <1>7
    <2>3. after[m + 1] = visit(after[m], us[m + 1]) BY <2>1, <1>5
    <2>4. \A x \in I[m] : visit(x, us[m + 1]) \in I[m + 1] BY <2>1
    <2> QED BY <2>2, <2>3, <2>4
  <1> QED
    <2>1. n \in kept
      <3> HIDE DEF kept
      <3>1. Nat \subseteq kept BY <1>6, <1>7, SetInduction
      <3> QED BY <3>1
    <2> HIDE DEF after
    <2> QED BY <2>1, <1>1

-----------------------------------------------------------------------------
(* Visits. *)

(* From s to t nothing becomes more definite, and when nothing becomes     *)
(* less definite and no block is reached nothing is put into a queue.      *)
Falls(s, t) ==
  /\ \A x \in Temp : rank(s.cond[x]) <= rank(t.cond[x])
  /\ s.reached \subseteq t.reached
  /\ s.visited = t.visited /\ s.tempUse = t.tempUse
  /\ (\A x \in Temp : rank(s.cond[x]) = rank(t.cond[x])) /\ s.reached = t.reached =>
       s.curBlock = t.curBlock /\ s.curTemp = t.curTemp

LEMMA FallsTransitive ==
  ASSUME NEW s, NEW t, NEW u, Falls(s, t), Falls(t, u)
  PROVE  Falls(s, u)
  <1>1. \A v : rank(v) \in 0..2
    BY DEF rank
  <1>2. \A x \in Temp : rank(s.cond[x]) <= rank(t.cond[x]) /\ rank(t.cond[x]) <= rank(u.cond[x])
    BY DEF Falls
  <1>3. \A x \in Temp : rank(s.cond[x]) <= rank(u.cond[x])
    BY <1>1, <1>2
  <1>4. ASSUME \A x \in Temp : rank(s.cond[x]) = rank(u.cond[x]), s.reached = u.reached
        PROVE  s.curBlock = u.curBlock /\ s.curTemp = u.curTemp
    <2>1. \A x \in Temp : rank(s.cond[x]) = rank(t.cond[x]) /\ rank(t.cond[x]) = rank(u.cond[x])
      BY <1>1, <1>2, <1>4
    <2>2. s.reached = t.reached /\ t.reached = u.reached
      BY <1>4 DEF Falls
    <2> QED
      BY <2>1, <2>2 DEF Falls
  <1> QED
    BY <1>3, <1>4 DEF Falls

LEMMA Numbers ==
  /\ 0 \in Val
  /\ \A l, r \in Val : plus(l, r) \in Val
  /\ \A v \in Val : rank(v) = 1
  /\ rank(Udf) = 0 /\ rank(Idf) = 2 /\ \A v : rank(v) \in 0..2
  /\ \A v \in Val \cup {Udf, Idf} : rank(v) = 1 => v \in Val
  /\ \A v \in Val \cup {Udf, Idf} : (rank(v) = 0 => v = Udf) /\ (rank(v) = 2 => v = Idf)
  <1>1. Cardinality(Val) \in Nat /\ Cardinality(Val) > 0
    BY ValuesAssumption, FS_CardinalityType, FS_EmptySet
  <1>2. 0 \in Val
    BY <1>1, ValuesAssumption
  <1>3. ASSUME NEW l \in Val, NEW r \in Val PROVE plus(l, r) \in Val
    <2>1. l \in Nat /\ r \in Nat
      BY ValuesAssumption, <1>1
    <2>2. (l + r) % Cardinality(Val) \in 0..Cardinality(Val) - 1
      BY <2>1, <1>1
    <2> QED
      BY <2>2, ValuesAssumption DEF plus
  <1>4. \A v \in Val : rank(v) = 1
    BY ValuesAssumption DEF rank
  <1>5. rank(Udf) = 0 /\ rank(Idf) = 2 /\ \A v : rank(v) \in 0..2
    BY ValuesAssumption DEF rank
  <1> QED
    BY <1>2, <1>3, <1>4, <1>5 DEF rank

(* An operand has a value in the table. *)
LEMMA ValueOf ==
  ASSUME NEW cond \in [Temp -> Val \cup {Udf, Idf}], NEW x \in Temp \cup Val
  PROVE  /\ valueOf(cond, x) \in Val \cup {Udf, Idf}
         /\ x \in Temp => valueOf(cond, x) = cond[x]
         /\ x \notin Temp => valueOf(cond, x) = x /\ x \in Val
  BY DEF valueOf

LEMMA Settle ==
  ASSUME NEW cond \in [Temp -> Val \cup {Udf, Idf}], NEW xs
  PROVE  /\ settle(cond, xs) \in [Temp -> Val \cup {Udf, Idf}]
         /\ \A x \in Temp : settle(cond, xs)[x] = IF x \in xs /\ cond[x] = Udf THEN Idf ELSE cond[x]
         /\ \A x \in Temp : rank(cond[x]) <= rank(settle(cond, xs)[x])
  <1>1. /\ settle(cond, xs) \in [Temp -> Val \cup {Udf, Idf}]
        /\ \A x \in Temp : settle(cond, xs)[x] = IF x \in xs /\ cond[x] = Udf THEN Idf ELSE cond[x]
    <2>1. CASE \A t \in Temp \cap xs : cond[t] # Udf
      BY <2>1 DEF settle
    <2>2. CASE ~ \A t \in Temp \cap xs : cond[t] # Udf
      <3>1. settle(cond, xs) = [t \in Temp |-> IF t \in xs /\ cond[t] = Udf THEN Idf ELSE cond[t]]
        BY <2>2 DEF settle
      <3> QED BY <3>1
    <2> QED BY <2>1, <2>2
  <1>2. ASSUME NEW x \in Temp PROVE rank(cond[x]) <= rank(settle(cond, xs)[x])
    <2>1. settle(cond, xs)[x] = Idf \/ settle(cond, xs)[x] = cond[x] BY <1>1
    <2> QED BY <2>1, Numbers
  <1> QED BY <1>1, <1>2

(* What is known of the arguments of a phi function. *)
known(s, b, args) ==
  {valueOf(s.cond, args[k]) :
     k \in {j \in DOMAIN prog.pred[b] : prog.pred[b][j] \in s.reached}} \ {Udf}

LEMMA PhiValue ==
  ASSUME NEW s, NEW b, NEW args,
         \A j \in DOMAIN prog.pred[b] : valueOf(s.cond, args[j]) \in Val \cup {Udf, Idf}
  PROVE  /\ phiValue(s, b, args) \in Val \cup {Idf}
         /\ known(s, b, args) = {} => phiValue(s, b, args) = 0
         /\ known(s, b, args) # {} /\ phiValue(s, b, args) # Idf =>
              known(s, b, args) = {phiValue(s, b, args)}
         /\ \A v \in Val : known(s, b, args) = {v} => phiValue(s, b, args) = v
  <1> DEFINE K == known(s, b, args)
  <1>1. K \subseteq Val \cup {Idf}
    BY DEF known
  <1>2. phiValue(s, b, args) =
          IF Idf \in K \/ Cardinality(K) > 1 THEN Idf
          ELSE IF K = {} THEN 0 ELSE CHOOSE v \in K : TRUE
    BY DEF phiValue, known
  <1>3. IsFiniteSet(K)
    <2>1. IsFiniteSet(Val \cup {Idf})
      BY ValuesAssumption, FS_AddElement
    <2> HIDE DEF K
    <2> QED BY <1>1, <2>1, FS_Subset
  <1> HIDE DEF K
  <1>4. Cardinality(K) \in Nat
    BY <1>3, FS_CardinalityType
  <1>5. ASSUME Cardinality(K) <= 1, K # {} PROVE \E v \in K : K = {v}
    <2>1. Cardinality(K) = 1 BY <1>3, <1>4, <1>5, FS_EmptySet
    <2>2. PICK v : K = {v} BY <1>3, <2>1, FS_Singleton
    <2> QED BY <2>2
  <1>6. \A v : Cardinality({v}) = 1
    BY FS_Singleton
  <1>7. ASSUME K = {} PROVE phiValue(s, b, args) = 0
    <2>1. Cardinality(K) = 0 BY <1>7, FS_EmptySet
    <2> QED BY <1>2, <1>7, <2>1
  <1>8. ASSUME K # {}, phiValue(s, b, args) # Idf PROVE K = {phiValue(s, b, args)} /\ phiValue(s, b, args) \in K
    <2>1. Idf \notin K /\ Cardinality(K) <= 1 BY <1>2, <1>4, <1>8
    <2>2. PICK v \in K : K = {v} BY <2>1, <1>5, <1>8
    <2>3. phiValue(s, b, args) = CHOOSE w \in K : TRUE BY <1>2, <1>4, <1>8, <2>1
    <2>4. phiValue(s, b, args) \in K BY <2>2, <2>3
    <2> QED BY <2>2, <2>4
  <1>9. ASSUME NEW v \in Val, K = {v} PROVE phiValue(s, b, args) = v
    <2>1. Idf \notin K /\ Cardinality(K) = 1 /\ K # {} BY <1>6, <1>9, ValuesAssumption
    <2>2. phiValue(s, b, args) = CHOOSE w \in K : TRUE BY <1>2, <2>1
    <2>3. phiValue(s, b, args) \in K BY <2>1, <2>2
    <2> QED BY <2>3, <1>9
  <1>10. phiValue(s, b, args) \in Val \cup {Idf}
    BY <1>1, <1>7, <1>8, Numbers
  <1> QED
    BY <1>7, <1>8, <1>9, <1>10 DEF K

LEMMA Code ==
  ASSUME WellFormed(prog), NEW b \in Blocks
  PROVE  /\ root \in Blocks /\ Blocks \subseteq Nat
         /\ Len(prog.stms[b]) \in Nat /\ DOMAIN prog.stms[b] = 1..Len(prog.stms[b])
         /\ DOMAIN prog.pred[b] = 1..Len(prog.pred[b]) /\ Len(prog.pred[b]) \in Nat
         /\ \A i \in DOMAIN prog.pred[b] : prog.pred[b][i] \in Blocks
         /\ prog.jump[b].op \in {"lt", "eq", "always", "return"}
         /\ prog.jump[b].left \in Temp \cup Val /\ prog.jump[b].right \in Temp \cup Val
         /\ prog.jump[b].true \in Blocks /\ prog.jump[b].false \in Blocks
         /\ succ(b) \subseteq Blocks
         /\ DOMAIN prog.pred[root] = {}
  <1>1. prog.stms \in Seq(Seq(Statements)) /\ root \in Blocks
    BY DEF WellFormed, Blocks
  <1>2. prog.stms[b] \in Seq(Statements) /\ Blocks \subseteq Nat
    BY <1>1 DEF Blocks
  <1>3. prog.pred \in [Blocks -> Seq(Blocks)] /\ prog.pred[root] = << >>
    BY DEF WellFormed, Blocks
  <1>4. prog.pred[b] \in Seq(Blocks)
    BY <1>3
  <1>5. prog.jump[b] \in [op : {"lt", "eq", "always", "return"}, left : Temp \cup Val,
                          right : Temp \cup Val, true : Blocks, false : Blocks]
    BY DEF WellFormed, Blocks
  <1>6. succ(b) \subseteq {prog.jump[b].true, prog.jump[b].false}
    BY DEF succ, leadsTo
  <1>7. /\ prog.jump[b].op \in {"lt", "eq", "always", "return"}
        /\ prog.jump[b].left \in Temp \cup Val /\ prog.jump[b].right \in Temp \cup Val
        /\ prog.jump[b].true \in Blocks /\ prog.jump[b].false \in Blocks
    BY <1>5
  <1>8. succ(b) \subseteq Blocks
    BY <1>6, <1>7
  <1>9. Len(prog.stms[b]) \in Nat /\ DOMAIN prog.stms[b] = 1..Len(prog.stms[b])
    <2> DEFINE q == prog.stms[b]
    <2>1. q \in Seq(Statements) BY <1>2
    <2> HIDE DEF q
    <2>2. Len(q) \in Nat /\ DOMAIN q = 1..Len(q) BY <2>1
    <2> QED BY <2>2 DEF q
  <1>10. /\ DOMAIN prog.pred[b] = 1..Len(prog.pred[b]) /\ Len(prog.pred[b]) \in Nat
         /\ \A i \in DOMAIN prog.pred[b] : prog.pred[b][i] \in Blocks
    <2> DEFINE q == prog.pred[b]
    <2>1. q \in Seq(Blocks) BY <1>4
    <2> HIDE DEF q
    <2>2. Len(q) \in Nat /\ DOMAIN q = 1..Len(q) /\ \A i \in DOMAIN q : q[i] \in Blocks BY <2>1
    <2> QED BY <2>2 DEF q
  <1>11. DOMAIN prog.pred[root] = {}
    <2>1. prog.pred[root] = << >> BY <1>3
    <2>2. DOMAIN << >> = {} OBVIOUS
    <2> QED BY <2>1, <2>2
  <1> QED
    BY <1>1, <1>2, <1>7, <1>8, <1>9, <1>10, <1>11

LEMMA Statement ==
  ASSUME WellFormed(prog), NEW b \in Blocks, NEW k \in DOMAIN prog.stms[b]
  PROVE  LET stm == prog.stms[b][k]
         IN  /\ stm.dst \in Temp /\ stm.op \in {"phi", "copy", "plus", "call"}
             /\ Len(stm.args) \in Nat /\ DOMAIN stm.args = 1..Len(stm.args)
             /\ \A i \in DOMAIN stm.args : stm.args[i] \in Temp \cup Val
             /\ stm.op = "phi" => b # root /\ DOMAIN stm.args = DOMAIN prog.pred[b]
             /\ stm.op = "copy" => Len(stm.args) = 1
             /\ stm.op = "plus" => Len(stm.args) = 2
  <1> DEFINE stm == prog.stms[b][k]
  <1>1. stm \in Statements
    <2>1. prog.stms \in Seq(Seq(Statements))
      BY DEF WellFormed
    <2>2. prog.stms[b] \in Seq(Statements)
      BY <2>1 DEF Blocks
    <2> QED BY <2>2
  <1>2. stm.dst \in Temp /\ stm.op \in {"phi", "copy", "plus", "call"} /\ stm.args \in Seq(Temp \cup Val)
    BY <1>1 DEF Statements
  <1>3. /\ stm.op = "phi" => b # root /\ Len(stm.args) = Len(prog.pred[b])
        /\ stm.op = "copy" => Len(stm.args) = 1
        /\ stm.op = "plus" => Len(stm.args) = 2
    BY DEF WellFormed, Blocks
  <1>4. DOMAIN prog.pred[b] = 1..Len(prog.pred[b])
    BY Code
  <1> HIDE DEF stm
  <1>5. DOMAIN stm.args = 1..Len(stm.args) /\ Len(stm.args) \in Nat
        /\ \A i \in DOMAIN stm.args : stm.args[i] \in Temp \cup Val
    BY <1>2
  <1>6. stm.op = "phi" => b # root /\ DOMAIN stm.args = DOMAIN prog.pred[b]
    BY <1>3, <1>4, <1>5
  <1> QED
    BY <1>2, <1>3, <1>5, <1>6 DEF stm

(* A statement makes a number of what it uses, or something indefinite. *)
LEMMA DefValue ==
  ASSUME WellFormed(prog), NEW s \in Tables, NEW b \in Blocks, NEW k \in DOMAIN prog.stms[b]
  PROVE  defValue(s, b, prog.stms[b][k]) \in Val \cup {Idf}
  <1> DEFINE stm == prog.stms[b][k]
  <1>1. /\ stm.op \in {"phi", "copy", "plus", "call"} /\ Len(stm.args) \in Nat
        /\ DOMAIN stm.args = 1..Len(stm.args)
        /\ \A i \in DOMAIN stm.args : stm.args[i] \in Temp \cup Val
        /\ stm.op = "phi" => DOMAIN stm.args = DOMAIN prog.pred[b]
        /\ stm.op = "copy" => Len(stm.args) = 1
        /\ stm.op = "plus" => Len(stm.args) = 2
    BY Statement
  <1>2. s.cond \in [Temp -> Val \cup {Udf, Idf}]
    BY DEF Tables
  <1>3. DOMAIN prog.pred[root] = {}
    BY Code
  <1> SUFFICES defValue(s, b, stm) \in Val \cup {Idf}
    OBVIOUS
  <1> HIDE DEF stm
  <1>4. CASE stm.op = "phi"
    <2> DEFINE c == IF b \in s.visited THEN b ELSE root
    <2>1. \A j \in DOMAIN prog.pred[c] : valueOf(s.cond, stm.args[j]) \in Val \cup {Udf, Idf}
      BY <1>1, <1>2, <1>3, <1>4, ValueOf
    <2>2. defValue(s, b, stm) = phiValue(s, c, stm.args)
      BY <1>4 DEF defValue
    <2> HIDE DEF c
    <2> QED BY <2>1, <2>2, PhiValue
  <1>5. CASE stm.op = "copy"
    <2>1. defValue(s, b, stm) = valueOf(settle(s.cond, Range(stm.args)), stm.args[1])
      BY <1>5 DEF defValue
    <2>2. 1 \in DOMAIN stm.args /\ stm.args[1] \in Temp \cup Val /\ stm.args[1] \in Range(stm.args)
      <3>1. 1 \in DOMAIN stm.args
        <4>1. Len(stm.args) = 1 /\ DOMAIN stm.args = 1..Len(stm.args) BY <1>1, <1>5
        <4>2. DOMAIN stm.args = 1..1 BY <4>1
        <4> QED BY <4>2
      <3>2. stm.args[1] \in Range(stm.args) BY <3>1 DEF Range
      <3> QED BY <1>1, <3>1, <3>2
    <2>3. settle(s.cond, Range(stm.args)) \in [Temp -> Val \cup {Udf, Idf}]
      BY <1>2, Settle
    <2>4. CASE stm.args[1] \in Temp
      <3>1. settle(s.cond, Range(stm.args))[stm.args[1]] # Udf
        BY <1>2, <2>2, <2>4, Settle, ValuesAssumption
      <3> QED BY <2>1, <2>2, <2>3, <2>4, <3>1, ValueOf
    <2>5. CASE stm.args[1] \notin Temp
      BY <2>1, <2>2, <2>3, <2>5, ValueOf
    <2> QED BY <2>4, <2>5
  <1>6. CASE stm.op = "plus"
    <2>1. defValue(s, b, stm) =
            IF \A x \in Range(stm.args) : isConst(s.cond, x)
            THEN plus(valueOf(s.cond, stm.args[1]), valueOf(s.cond, stm.args[2])) ELSE Idf
      BY <1>6 DEF defValue
    <2>2. ASSUME \A x \in Range(stm.args) : isConst(s.cond, x), NEW i \in {1, 2}
          PROVE  valueOf(s.cond, stm.args[i]) \in Val
      <3>1. i \in DOMAIN stm.args /\ stm.args[i] \in Temp \cup Val /\ stm.args[i] \in Range(stm.args)
        <4>1. i \in DOMAIN stm.args
          <5>1. Len(stm.args) = 2 /\ DOMAIN stm.args = 1..Len(stm.args) BY <1>1, <1>6
          <5>2. DOMAIN stm.args = 1..2 BY <5>1
          <5> QED BY <5>2
        <4>2. stm.args[i] \in Range(stm.args) BY <4>1 DEF Range
        <4> QED BY <1>1, <4>1, <4>2
      <3>2. valueOf(s.cond, stm.args[i]) \in Val \cup {Udf, Idf}
        BY <3>1, <1>2, ValueOf
      <3>3. rank(valueOf(s.cond, stm.args[i])) = 1
        BY <3>1, <2>2 DEF isConst
      <3> QED BY <3>2, <3>3, Numbers
    <2> QED BY <2>1, <2>2, Numbers
  <1>7. CASE stm.op = "call"
    BY <1>7 DEF defValue
  <1> QED
    BY <1>1, <1>4, <1>5, <1>6, <1>7

(* A definition: its destination gets its value unless it is indefinite,   *)
(* its operands are settled, and it is put into the queue when its value   *)
(* became less definite.                                                   *)
LEMMA DoDef ==
  ASSUME WellFormed(prog), NEW s \in Tables, NEW b \in Blocks, NEW k \in DOMAIN prog.stms[b]
  PROVE  LET stm == prog.stms[b][k]
             t == doDef(s, b, stm)
             v == defValue(s, b, stm)
         IN  /\ t \in Tables
             /\ s.cond[stm.dst] = Idf => t = s
             /\ s.cond[stm.dst] # Idf => t.cond[stm.dst] = v
             /\ \A x \in Temp \ {stm.dst} :
                  t.cond[x] = s.cond[x]
                    \/ (s.cond[x] = Udf /\ x \in Range(stm.args) /\ stm.op \in {"copy", "plus"})
             /\ t.reached = s.reached /\ t.curBlock = s.curBlock /\ t.visited = s.visited
             /\ t.tempUse = s.tempUse
             /\ Range(s.curTemp) \subseteq Range(t.curTemp)
             /\ rank(v) > rank(s.cond[stm.dst]) /\ s.cond[stm.dst] # Idf => stm.dst \in Range(t.curTemp)
             /\ Falls(s, t)
  <1> DEFINE stm == prog.stms[b][k]
             t == doDef(s, b, stm)
             v == defValue(s, b, stm)
             asked == IF stm.op \in {"copy", "plus"} THEN Range(stm.args) ELSE {}
             cond == settle(s.cond, asked)
  <1>1. v \in Val \cup {Idf}
    BY DefValue
  <1>2. stm.dst \in Temp
    BY Statement
  <1>3. s.cond \in [Temp -> Val \cup {Udf, Idf}]
    BY DEF Tables
  <1>0. SUFFICES /\ t \in Tables
                 /\ s.cond[stm.dst] = Idf => t = s
                 /\ s.cond[stm.dst] # Idf => t.cond[stm.dst] = v
                 /\ \A x \in Temp \ {stm.dst} :
                      t.cond[x] = s.cond[x]
                        \/ (s.cond[x] = Udf /\ x \in Range(stm.args) /\ stm.op \in {"copy", "plus"})
                 /\ t.reached = s.reached /\ t.curBlock = s.curBlock /\ t.visited = s.visited
                 /\ t.tempUse = s.tempUse
                 /\ Range(s.curTemp) \subseteq Range(t.curTemp)
                 /\ rank(v) > rank(s.cond[stm.dst]) /\ s.cond[stm.dst] # Idf =>
                      stm.dst \in Range(t.curTemp)
                 /\ Falls(s, t)
    OBVIOUS
  <1> HIDE DEF stm
  <1>4. /\ cond \in [Temp -> Val \cup {Udf, Idf}]
        /\ \A x \in Temp : cond[x] = IF x \in asked /\ s.cond[x] = Udf THEN Idf ELSE s.cond[x]
        /\ \A x \in Temp : rank(s.cond[x]) <= rank(cond[x])
    <2> HIDE DEF asked
    <2> QED BY <1>3, Settle
  <1>5. CASE s.cond[stm.dst] = Idf
    <2>1. t = s
      BY <1>5 DEF doDef
    <2>2. Falls(s, s)
      BY Numbers DEF Falls
    <2> HIDE DEF t, v
    <2> QED BY <1>5, <2>1, <2>2
  <1>6. CASE s.cond[stm.dst] # Idf
    <2>1. t = [s EXCEPT !.cond = [cond EXCEPT ![stm.dst] = v],
                        !.curTemp = IF rank(v) > rank(s.cond[stm.dst]) THEN Append(@, stm.dst) ELSE @]
      BY <1>6 DEF doDef
    <2> HIDE DEF v, cond, asked, t
    <2>2. /\ s.curTemp \in Seq(Temp)
          /\ t.cond = [cond EXCEPT ![stm.dst] = v]
          /\ t.curTemp = IF rank(v) > rank(s.cond[stm.dst]) THEN Append(s.curTemp, stm.dst) ELSE s.curTemp
          /\ t.reached = s.reached /\ t.curBlock = s.curBlock /\ t.visited = s.visited
          /\ t.tempUse = s.tempUse
          /\ t \in [cond : {t.cond}, reached : {s.reached}, curBlock : {s.curBlock},
                    curTemp : {t.curTemp}, visited : {s.visited}, tempUse : {s.tempUse}]
      BY <2>1 DEF Tables
    <2>3. t.cond \in [Temp -> Val \cup {Udf, Idf}] /\ t.cond[stm.dst] = v
          /\ \A x \in Temp \ {stm.dst} : t.cond[x] = cond[x]
      BY <2>2, <1>1, <1>2, <1>4
    <2>4. t.curTemp \in Seq(Temp)
      BY <2>2, <1>2
    <2>5. t \in Tables
      BY <2>2, <2>3, <2>4 DEF Tables
    <2>6. \A x \in Temp \ {stm.dst} :
            t.cond[x] = s.cond[x]
              \/ (s.cond[x] = Udf /\ x \in Range(stm.args) /\ stm.op \in {"copy", "plus"})
      <3> TAKE x \in Temp \ {stm.dst}
      <3>1. t.cond[x] = s.cond[x] \/ (s.cond[x] = Udf /\ x \in asked)
        BY <2>3, <1>4
      <3> QED BY <3>1 DEF asked
    <2>7. Range(s.curTemp) \subseteq Range(t.curTemp)
          /\ (rank(v) > rank(s.cond[stm.dst]) => stm.dst \in Range(t.curTemp))
      <3>1. CASE rank(v) > rank(s.cond[stm.dst])
        <4> DEFINE q == s.curTemp
        <4>1. t.curTemp = Append(q, stm.dst) /\ q \in Seq(Temp) BY <3>1, <2>2
        <4> HIDE DEF q
        <4>2. /\ \A i \in 1..Len(q) : i \in 1..Len(Append(q, stm.dst)) /\ Append(q, stm.dst)[i] = q[i]
              /\ Len(q) + 1 \in 1..Len(Append(q, stm.dst)) /\ Append(q, stm.dst)[Len(q) + 1] = stm.dst
              /\ DOMAIN q = 1..Len(q) /\ DOMAIN Append(q, stm.dst) = 1..Len(Append(q, stm.dst))
          BY <4>1
        <4>3. Range(q) \subseteq Range(t.curTemp) /\ stm.dst \in Range(t.curTemp)
          BY <4>1, <4>2 DEF Range
        <4> QED BY <4>3 DEF q
      <3>2. CASE ~ (rank(v) > rank(s.cond[stm.dst]))
        BY <3>2, <2>2
      <3> QED BY <3>1, <3>2
    <2>8. rank(s.cond[stm.dst]) <= rank(v)
      <3>1. s.cond[stm.dst] \in Val \cup {Udf} BY <1>2, <1>3, <1>6
      <3>2. rank(s.cond[stm.dst]) \in 0..1 BY <3>1, Numbers
      <3>3. rank(v) \in 1..2 BY <1>1, Numbers
      <3> QED BY <3>2, <3>3
    <2>9. \A x \in Temp : rank(s.cond[x]) <= rank(t.cond[x])
      BY <2>3, <2>8, <1>4
    <2>10. (\A x \in Temp : rank(s.cond[x]) = rank(t.cond[x])) => t.curTemp = s.curTemp
      <3> SUFFICES ASSUME \A x \in Temp : rank(s.cond[x]) = rank(t.cond[x]) PROVE t.curTemp = s.curTemp
        OBVIOUS
      <3>1. rank(s.cond[stm.dst]) = rank(v) BY <1>2, <2>3
      <3>2. rank(v) \in 0..2 BY Numbers
      <3>3. ~ (rank(v) > rank(s.cond[stm.dst])) BY <3>1, <3>2
      <3> QED BY <3>3, <2>2
    <2>11. Falls(s, t)
      BY <2>2, <2>9, <2>10 DEF Falls
    <2> QED
      BY <1>6, <2>2, <2>3, <2>5, <2>6, <2>7, <2>11
  <1> QED
    BY <1>5, <1>6

LEMMA Concat ==
  ASSUME NEW A, NEW p \in Seq(A), NEW q \in Seq(A)
  PROVE  /\ p \o q \in Seq(A) /\ Range(p \o q) = Range(p) \cup Range(q)
         /\ Len(q) = 0 => p \o q = p
         /\ /\ \A i, j \in 1..Len(p) : p[i] = p[j] => i = j
            /\ \A i, j \in 1..Len(q) : q[i] = q[j] => i = j
            /\ Range(p) \cap Range(q) = {}
            => \A i, j \in 1..Len(p \o q) : (p \o q)[i] = (p \o q)[j] => i = j
  <1> DEFINE r == p \o q
  <1>1. /\ r \in Seq(A) /\ Len(r) = Len(p) + Len(q) /\ Len(p) \in Nat /\ Len(q) \in Nat
        /\ DOMAIN r = 1..Len(r) /\ DOMAIN p = 1..Len(p) /\ DOMAIN q = 1..Len(q)
        /\ \A i \in 1..Len(r) : r[i] = IF i <= Len(p) THEN p[i] ELSE q[i - Len(p)]
    OBVIOUS
  <1> HIDE DEF r
  <1>2. Range(r) = Range(p) \cup Range(q)
    <2>1. ASSUME NEW i \in 1..Len(r) PROVE r[i] \in Range(p) \cup Range(q)
      <3>1. CASE i <= Len(p)
        <4>1. i \in DOMAIN p /\ r[i] = p[i] BY <1>1, <3>1
        <4> QED BY <4>1 DEF Range
      <3>2. CASE ~ (i <= Len(p))
        <4>1. i - Len(p) \in DOMAIN q /\ r[i] = q[i - Len(p)] BY <1>1, <3>2
        <4> QED BY <4>1 DEF Range
      <3> QED BY <3>1, <3>2
    <2>2. ASSUME NEW i \in 1..Len(p) PROVE p[i] \in Range(r)
      <3>1. i \in DOMAIN r /\ r[i] = p[i] BY <1>1
      <3> QED BY <3>1 DEF Range
    <2>3. ASSUME NEW i \in 1..Len(q) PROVE q[i] \in Range(r)
      <3>1. i + Len(p) \in 1..Len(r) /\ ~ (i + Len(p) <= Len(p)) /\ (i + Len(p)) - Len(p) = i BY <1>1
      <3>2. r[i + Len(p)] = q[i] BY <1>1, <3>1
      <3>3. i + Len(p) \in DOMAIN r BY <1>1, <3>1
      <3> QED BY <3>2, <3>3 DEF Range
    <2>4. \A x \in Range(r) : x \in Range(p) \cup Range(q) BY <2>1, <1>1 DEF Range
    <2>5. \A x \in Range(p) : x \in Range(r) BY <2>2, <1>1 DEF Range
    <2>6. \A x \in Range(q) : x \in Range(r) BY <2>3, <1>1 DEF Range
    <2> QED BY <2>4, <2>5, <2>6
  <1>3. ASSUME Len(q) = 0 PROVE r = p
    <2>1. Len(r) = Len(p) /\ \A i \in 1..Len(p) : r[i] = p[i] BY <1>1, <1>3
    <2> QED BY <2>1, <1>1
  <1>4. ASSUME \A i, j \in 1..Len(p) : p[i] = p[j] => i = j,
               \A i, j \in 1..Len(q) : q[i] = q[j] => i = j,
               Range(p) \cap Range(q) = {},
               NEW i \in 1..Len(r), NEW j \in 1..Len(r), r[i] = r[j]
        PROVE  i = j
    <2>1. CASE i <= Len(p) /\ j <= Len(p)
      <3>1. i \in 1..Len(p) /\ j \in 1..Len(p) /\ r[i] = p[i] /\ r[j] = p[j] BY <1>1, <2>1
      <3> QED BY <3>1, <1>4
    <2>2. CASE ~ (i <= Len(p)) /\ ~ (j <= Len(p))
      <3>1. i - Len(p) \in 1..Len(q) /\ j - Len(p) \in 1..Len(q)
            /\ r[i] = q[i - Len(p)] /\ r[j] = q[j - Len(p)]
        BY <1>1, <2>2
      <3>2. i - Len(p) = j - Len(p) BY <3>1, <1>4
      <3> QED BY <3>2, <1>1
    <2>3. ASSUME NEW m \in 1..Len(r), NEW n \in 1..Len(r), m <= Len(p), ~ (n <= Len(p)), r[m] = r[n]
          PROVE  FALSE
      <3>1. m \in DOMAIN p /\ n - Len(p) \in DOMAIN q /\ r[m] = p[m] /\ r[n] = q[n - Len(p)]
        BY <1>1, <2>3
      <3>2. r[m] \in Range(p) /\ r[n] \in Range(q) BY <3>1 DEF Range
      <3> QED BY <3>2, <2>3, <1>4
    <2> QED BY <2>1, <2>2, <2>3, <1>4
  <1> QED
    BY <1>1, <1>2, <1>3, <1>4 DEF r

(* The blocks a jump leads to, those not reached before into the queue. *)
LEMMA Reach ==
  ASSUME NEW s \in Tables, NEW S \in SUBSET Blocks, IsFiniteSet(S), Blocks \subseteq Nat
  PROVE  LET t == reach(s, S)
         IN  /\ t \in Tables /\ t.cond = s.cond /\ t.curTemp = s.curTemp
             /\ t.visited = s.visited /\ t.tempUse = s.tempUse
             /\ t.reached = s.reached \cup S
             /\ Range(t.curBlock) = Range(s.curBlock) \cup (S \ s.reached)
             /\ S \subseteq s.reached => t.curBlock = s.curBlock
             /\ /\ \A i, j \in 1..Len(s.curBlock) : s.curBlock[i] = s.curBlock[j] => i = j
                /\ Range(s.curBlock) \subseteq s.reached
                => \A i, j \in 1..Len(t.curBlock) : t.curBlock[i] = t.curBlock[j] => i = j
  <1> DEFINE t == reach(s, S)
             N == S \ s.reached
             q == inOrder(N)
             p == s.curBlock
  <1>1. N \in SUBSET Int /\ IsFiniteSet(N) /\ N \in SUBSET Blocks
    <2>1. N \in SUBSET S /\ N \in SUBSET Blocks OBVIOUS
    <2> HIDE DEF N
    <2>2. IsFiniteSet(N) BY <2>1, FS_Subset
    <2>3. N \in SUBSET Int BY <2>1
    <2> QED BY <2>1, <2>2, <2>3
  <1>2. /\ q \in Seq(N) /\ Len(q) = Cardinality(N)
        /\ \A m \in N : \E i \in 1..Len(q) : q[i] = m
        /\ \A i, j \in 1..Len(q) : q[i] = q[j] => i = j
    <2> HIDE DEF N
    <2> QED BY <1>1, InOrder
  <1>3. t = [s EXCEPT !.reached = @ \cup S, !.curBlock = @ \o q] /\ p \in Seq(Blocks)
    BY DEF reach, Tables
  <1>4. Range(q) = N /\ q \in Seq(Blocks)
    <2> HIDE DEF N, q
    <2>1. DOMAIN q = 1..Len(q) /\ \A i \in 1..Len(q) : q[i] \in N BY <1>2
    <2>2. \A m \in Range(q) : m \in N BY <2>1 DEF Range
    <2>3. \A m \in N : m \in Range(q) BY <2>1, <1>2 DEF Range
    <2>4. q \in Seq(Blocks)
      <3>1. Len(q) \in Nat /\ q \in [1..Len(q) -> N] BY <1>2
      <3>2. q \in [1..Len(q) -> Blocks] BY <3>1, <1>1
      <3> QED BY <3>1, <3>2
    <2> QED BY <2>2, <2>3, <2>4
  <1>5. N = {} => Len(q) = 0
    <2>1. N = {} => Cardinality(N) = 0 BY FS_EmptySet
    <2> QED BY <2>1, <1>2
  <1> HIDE DEF q
  <1>6. t.curBlock = p \o q /\ t.cond = s.cond /\ t.curTemp = s.curTemp
        /\ t.visited = s.visited /\ t.tempUse = s.tempUse /\ t.reached = s.reached \cup S
    BY <1>3 DEF Tables
  <1>7. /\ p \o q \in Seq(Blocks) /\ Range(p \o q) = Range(p) \cup Range(q)
        /\ Len(q) = 0 => p \o q = p
        /\ /\ \A i, j \in 1..Len(p) : p[i] = p[j] => i = j
           /\ \A i, j \in 1..Len(q) : q[i] = q[j] => i = j
           /\ Range(p) \cap Range(q) = {}
           => \A i, j \in 1..Len(p \o q) : (p \o q)[i] = (p \o q)[j] => i = j
    <2> HIDE DEF p
    <2> QED BY <1>3, <1>4, Concat
  <1>8. t \in Tables
    BY <1>3, <1>7 DEF Tables
  <1>9. S \subseteq s.reached => t.curBlock = s.curBlock
    <2>1. S \subseteq s.reached => N = {} OBVIOUS
    <2> QED BY <2>1, <1>5, <1>6, <1>7
  <1>10. ASSUME \A i, j \in 1..Len(p) : p[i] = p[j] => i = j, Range(p) \subseteq s.reached
         PROVE  \A i, j \in 1..Len(t.curBlock) : t.curBlock[i] = t.curBlock[j] => i = j
    <2>1. Range(p) \cap Range(q) = {} BY <1>10, <1>4
    <2> HIDE DEF p, t
    <2> QED BY <2>1, <1>2, <1>6, <1>7, <1>10
  <1>11. Range(t.curBlock) = Range(s.curBlock) \cup (S \ s.reached)
    BY <1>4, <1>6, <1>7
  <1> HIDE DEF t
  <1> QED
    BY <1>6, <1>8, <1>9, <1>10, <1>11 DEF t

(* The operands of the jump of b. *)
operands(b) == {prog.jump[b].left, prog.jump[b].right}

(* Where the jump goes when its operands are numbers. *)
chosen(s, b) ==
  IF evalRel(prog.jump[b].op, valueOf(s.cond, prog.jump[b].left), valueOf(s.cond, prog.jump[b].right))
  THEN prog.jump[b].true ELSE prog.jump[b].false

(* A jump leads on to where the table says it may go. *)
LEMMA DoJump ==
  ASSUME WellFormed(prog), NEW s \in Tables, NEW b \in Blocks
  PROVE  LET t == doJump(s, b)
         IN  /\ t \in Tables /\ t.curTemp = s.curTemp
             /\ t.visited = s.visited /\ t.tempUse = s.tempUse
             /\ \A x \in Temp : t.cond[x] = s.cond[x] \/ (s.cond[x] = Udf /\ x \in operands(b))
             /\ s.reached \subseteq t.reached /\ t.reached \subseteq s.reached \cup succ(b)
             /\ Range(t.curBlock) = Range(s.curBlock) \cup (t.reached \ s.reached)
             /\ t.reached = s.reached => t.curBlock = s.curBlock
             /\ /\ \A i, j \in 1..Len(s.curBlock) : s.curBlock[i] = s.curBlock[j] => i = j
                /\ Range(s.curBlock) \subseteq s.reached
                => \A i, j \in 1..Len(t.curBlock) : t.curBlock[i] = t.curBlock[j] => i = j
             /\ prog.jump[b].op = "always" => succ(b) \subseteq t.reached
             /\ prog.jump[b].op \in {"lt", "eq"} =>
                  \/ succ(b) \subseteq t.reached
                  \/ /\ \A x \in operands(b) : isConst(s.cond, x)
                     /\ chosen(s, b) \in t.reached
             /\ Falls(s, t)
  <1> DEFINE j == prog.jump[b]
             t == doJump(s, b)
             Goal(u) ==
               /\ u \in Tables /\ u.curTemp = s.curTemp
               /\ u.visited = s.visited /\ u.tempUse = s.tempUse
               /\ \A x \in Temp : u.cond[x] = s.cond[x] \/ (s.cond[x] = Udf /\ x \in operands(b))
               /\ s.reached \subseteq u.reached /\ u.reached \subseteq s.reached \cup succ(b)
               /\ Range(u.curBlock) = Range(s.curBlock) \cup (u.reached \ s.reached)
               /\ u.reached = s.reached => u.curBlock = s.curBlock
               /\ /\ \A m, n \in 1..Len(s.curBlock) : s.curBlock[m] = s.curBlock[n] => m = n
                  /\ Range(s.curBlock) \subseteq s.reached
                  => \A m, n \in 1..Len(u.curBlock) : u.curBlock[m] = u.curBlock[n] => m = n
               /\ Falls(s, u)
  <1>1. /\ j.op \in {"lt", "eq", "always", "return"} /\ j.true \in Blocks /\ j.false \in Blocks
        /\ Blocks \subseteq Nat /\ succ(b) \subseteq Blocks
    BY Code
  <1>2. /\ succ(b) = IF j.op = "return" THEN {} ELSE IF j.op = "always" THEN {j.true} ELSE {j.true, j.false}
    BY DEF succ, leadsTo
  <1>3. /\ s.cond \in [Temp -> Val \cup {Udf, Idf}]
        /\ s = [cond |-> s.cond, reached |-> s.reached, curBlock |-> s.curBlock,
                curTemp |-> s.curTemp, visited |-> s.visited, tempUse |-> s.tempUse]
    BY DEF Tables
  <1>4. ASSUME NEW S \in SUBSET succ(b), IsFiniteSet(S), NEW c \in [Temp -> Val \cup {Udf, Idf}],
               \A x \in Temp : c[x] = s.cond[x] \/ (s.cond[x] = Udf /\ x \in operands(b)),
               \A x \in Temp : rank(s.cond[x]) <= rank(c[x])
        PROVE  LET u == reach([s EXCEPT !.cond = c], S) IN Goal(u) /\ S \subseteq u.reached
    <2> DEFINE r == [s EXCEPT !.cond = c]
               u == reach(r, S)
    <2>1. /\ r \in Tables /\ r.cond = c /\ r.reached = s.reached /\ r.curBlock = s.curBlock
          /\ r.curTemp = s.curTemp /\ r.visited = s.visited /\ r.tempUse = s.tempUse
      BY <1>3 DEF Tables
    <2>2. S \in SUBSET Blocks BY <1>1
    <2> HIDE DEF r
    <2>3. /\ u \in Tables /\ u.cond = r.cond /\ u.curTemp = r.curTemp
          /\ u.visited = r.visited /\ u.tempUse = r.tempUse
          /\ u.reached = r.reached \cup S
          /\ Range(u.curBlock) = Range(r.curBlock) \cup (S \ r.reached)
          /\ S \subseteq r.reached => u.curBlock = r.curBlock
          /\ /\ \A m, n \in 1..Len(r.curBlock) : r.curBlock[m] = r.curBlock[n] => m = n
             /\ Range(r.curBlock) \subseteq r.reached
             => \A m, n \in 1..Len(u.curBlock) : u.curBlock[m] = u.curBlock[n] => m = n
      BY <1>1, <1>4, <2>1, <2>2, Reach
    <2> HIDE DEF u
    <2>4. u.reached = s.reached => u.curBlock = s.curBlock
      BY <2>1, <2>3
    <2>5. \A x \in Temp : rank(s.cond[x]) <= rank(u.cond[x])
      BY <2>1, <2>3, <1>4
    <2>6. Falls(s, u)
      BY <2>1, <2>3, <2>4, <2>5 DEF Falls
    <2>7. Range(u.curBlock) = Range(s.curBlock) \cup (u.reached \ s.reached)
      BY <2>1, <2>3
    <2>8. \A x \in Temp : u.cond[x] = s.cond[x] \/ (s.cond[x] = Udf /\ x \in operands(b))
      BY <2>1, <2>3, <1>4
    <2> HIDE DEF operands
    <2>9. Goal(u) /\ S \subseteq u.reached
      BY <2>1, <2>3, <2>4, <2>6, <2>7, <2>8
    <2> QED BY <2>9 DEF u, r
  <1>5. [s EXCEPT !.cond = s.cond] = s
    BY <1>3
  <1>6. \A x \in Temp : rank(s.cond[x]) <= rank(s.cond[x])
    BY Numbers
  <1>7. ASSUME NEW x, x \in succ(b) PROVE Goal(reach(s, {x})) /\ x \in reach(s, {x}).reached
    <2>1. {x} \in SUBSET succ(b) /\ IsFiniteSet({x})
      BY <1>7, FS_Singleton
    <2> HIDE DEF Goal
    <2>2. Goal(reach([s EXCEPT !.cond = s.cond], {x})) /\ {x} \subseteq reach([s EXCEPT !.cond = s.cond], {x}).reached
      BY <2>1, <1>3, <1>4, <1>6
    <2> QED BY <2>2, <1>5
  <1>8. CASE j.op = "return"
    <2>1. t = s /\ succ(b) = {} BY <1>8, <1>2 DEF doJump
    <2>2. Falls(s, s) BY Numbers DEF Falls
    <2> HIDE DEF t
    <2> QED BY <1>8, <2>1, <2>2 DEF t
  <1>9. CASE j.op = "always"
    <2>1. t = reach(s, {j.true}) /\ succ(b) = {j.true} BY <1>9, <1>2 DEF doJump
    <2>2. Goal(t) /\ succ(b) \subseteq t.reached BY <2>1, <1>7
    <2> HIDE DEF t
    <2> QED BY <1>9, <2>2 DEF t
  <1>10. CASE j.op \in {"lt", "eq"} /\ \A x \in operands(b) : isConst(s.cond, x)
    <2>1. t = reach(s, {chosen(s, b)})
      BY <1>10 DEF doJump, chosen, operands
    <2>2. chosen(s, b) \in succ(b)
      BY <1>2, <1>10 DEF chosen
    <2>3. Goal(t) /\ chosen(s, b) \in t.reached
      <3> HIDE DEF Goal
      <3> QED BY <2>1, <2>2, <1>7
    <2> HIDE DEF t
    <2> QED BY <1>10, <2>3 DEF t
  <1>11. CASE j.op \in {"lt", "eq"} /\ ~ \A x \in operands(b) : isConst(s.cond, x)
    <2> DEFINE asked == IF valueOf(s.cond, j.left) \in {Udf, Idf} THEN {j.left} ELSE {j.right}
               c == settle(s.cond, asked)
    <2>1. t = reach([s EXCEPT !.cond = c], succ(b))
      BY <1>11 DEF doJump, operands
    <2>2. /\ c \in [Temp -> Val \cup {Udf, Idf}]
          /\ \A x \in Temp : c[x] = IF x \in asked /\ s.cond[x] = Udf THEN Idf ELSE s.cond[x]
          /\ \A x \in Temp : rank(s.cond[x]) <= rank(c[x])
      <3> HIDE DEF asked
      <3> QED BY <1>3, Settle
    <2>3. asked \subseteq operands(b) BY DEF operands
    <2>4. \A x \in Temp : c[x] = s.cond[x] \/ (s.cond[x] = Udf /\ x \in operands(b))
      <3> HIDE DEF c, asked
      <3> QED BY <2>2, <2>3
    <2>5. IsFiniteSet(succ(b))
      <3>1. succ(b) = {j.true, j.false} BY <1>2, <1>11
      <3>2. IsFiniteSet({j.true, j.false})
        <4>1. IsFiniteSet({j.true}) /\ {j.true, j.false} = {j.true} \cup {j.false} BY FS_Singleton
        <4> QED BY <4>1, FS_AddElement
      <3> QED BY <3>1, <3>2
    <2>6. Goal(t) /\ succ(b) \subseteq t.reached
      <3> HIDE DEF c, Goal
      <3>1. succ(b) \in SUBSET succ(b) OBVIOUS
      <3>2. Goal(reach([s EXCEPT !.cond = c], succ(b)))
            /\ succ(b) \subseteq reach([s EXCEPT !.cond = c], succ(b)).reached
        BY <2>2, <2>4, <2>5, <3>1, <1>4
      <3> QED BY <2>1, <3>2
    <2> HIDE DEF t
    <2> QED BY <1>11, <2>6 DEF t
  <1> QED
    BY <1>1, <1>8, <1>9, <1>10, <1>11

LEMMA Visit ==
  ASSUME WellFormed(prog), NEW s \in Tables, NEW u \in Places
  PROVE  visit(s, u) \in Tables /\ Falls(s, visit(s, u))
  <1>1. u[1] \in Blocks
    BY DEF Places
  <1>2. CASE u[2] \in DOMAIN prog.stms[u[1]]
    BY <1>1, <1>2, DoDef DEF visit
  <1>3. CASE u[2] \notin DOMAIN prog.stms[u[1]]
    BY <1>1, <1>3, DoJump DEF visit
  <1> QED
    BY <1>2, <1>3

LEMMA VisitAllFalls ==
  ASSUME WellFormed(prog), NEW s \in Tables, NEW us \in Seq(Places)
  PROVE  visitAll(s, us) \in Tables /\ Falls(s, visitAll(s, us))
  <1> DEFINE kept == {t \in Tables : Falls(s, t)}
             I == [k \in 0..Len(us) |-> kept]
  <1>1. Len(us) \in Nat /\ \A k \in 1..Len(us) : us[k] \in Places
    OBVIOUS
  <1>2. s \in kept
    BY Numbers DEF Falls
  <1>3. ASSUME NEW k \in 1..Len(us), NEW x \in kept PROVE visit(x, us[k]) \in kept
    <2>1. visit(x, us[k]) \in Tables /\ Falls(x, visit(x, us[k]))
      BY <1>1, Visit
    <2>2. Falls(s, visit(x, us[k]))
      BY <2>1, FallsTransitive
    <2> QED BY <2>1, <2>2
  <1>4. \A k \in 0..Len(us) : I[k] = kept
    OBVIOUS
  <1> HIDE DEF kept
  <1>5. s \in I[0] /\ \A k \in 1..Len(us) : k - 1 \in 0..Len(us) /\ I[k - 1] = kept /\ I[k] = kept
    BY <1>1, <1>2
  <1> HIDE DEF I
  <1>6. visitAll(s, us) \in I[Len(us)]
    BY <1>1, <1>3, <1>5, VisitAll
  <1>7. visitAll(s, us) \in kept
    BY <1>1, <1>4, <1>6 DEF I
  <1> QED
    BY <1>7 DEF kept

-----------------------------------------------------------------------------
(* The function, run on numbers. *)

(* runBlock is a fold as well. *)
LEMMA RunBlock ==
  ASSUME NEW b, NEW e, NEW called, Len(prog.stms[b]) \in Nat, NEW I, e \in I[0],
         \A k \in 1..Len(prog.stms[b]) : \A x \in I[k - 1] : runStm(x, prog.stms[b][k], called) \in I[k]
  PROVE  runBlock(b, e, called) \in I[Len(prog.stms[b])]
  <1> DEFINE n == Len(prog.stms[b])
             unfolds(g, m) ==
               g = [k \in 0..m |-> IF k = 0 THEN e ELSE runStm(g[k - 1], prog.stms[b][k], called)]
             good == {m \in Nat : m <= n => \E g : unfolds(g, m)}
             after == CHOOSE g : unfolds(g, n)
  <1>1. runBlock(b, e, called) = after[n]
    BY DEF runBlock
  <1>2. 0 \in good
    <2>1. unfolds([k \in 0..0 |-> e], 0)
      OBVIOUS
    <2> HIDE DEF unfolds
    <2> QED BY <2>1
  <1>3. ASSUME NEW m \in Nat, m \in good PROVE m + 1 \in good
    <2> SUFFICES ASSUME m + 1 <= n PROVE \E g : unfolds(g, m + 1)
      OBVIOUS
    <2>1. PICK g : unfolds(g, m)
      <3>1. m <= n BY m + 1 <= n, n \in Nat
      <3> HIDE DEF unfolds
      <3> QED BY <3>1, <1>3
    <2> DEFINE h == [k \in 0..(m + 1) |->
                       IF k <= m THEN g[k] ELSE runStm(g[m], prog.stms[b][m + 1], called)]
    <2>2. \A k \in 0..m : g[k] = IF k = 0 THEN e ELSE runStm(g[k - 1], prog.stms[b][k], called)
      BY <2>1
    <2>3. \A k \in 0..(m + 1) : h[k] = IF k = 0 THEN e ELSE runStm(h[k - 1], prog.stms[b][k], called)
      <3> TAKE k \in 0..(m + 1)
      <3>1. CASE k = 0
        BY <3>1, <2>2
      <3>2. CASE k \in 1..m
        <4>1. h[k] = g[k] /\ h[k - 1] = g[k - 1] BY <3>2
        <4>2. g[k] = runStm(g[k - 1], prog.stms[b][k], called) BY <3>2, <2>2
        <4> QED BY <3>2, <4>1, <4>2
      <3>3. CASE k = m + 1
        <4>1. h[k] = runStm(g[m], prog.stms[b][m + 1], called) /\ h[k - 1] = g[m] BY <3>3
        <4> QED BY <3>3, <4>1
      <3> QED BY <3>1, <3>2, <3>3
    <2>4. DOMAIN h = 0..(m + 1) /\ h = [k \in DOMAIN h |-> h[k]]
      OBVIOUS
    <2> HIDE DEF h
    <2>5. unfolds(h, m + 1)
      BY <2>3, <2>4
    <2> HIDE DEF unfolds
    <2> QED BY <2>5
  <1>4. unfolds(after, n)
    <2>1. n \in good
      <3> HIDE DEF good
      <3>1. Nat \subseteq good BY <1>2, <1>3, SetInduction
      <3> QED BY <3>1
    <2>2. \E g : unfolds(g, n)
      BY <2>1
    <2> HIDE DEF unfolds
    <2> QED BY <2>2
  <1>5. \A k \in 0..n : after[k] = IF k = 0 THEN e ELSE runStm(after[k - 1], prog.stms[b][k], called)
    <2> HIDE DEF after
    <2> QED BY <1>4
  <1> DEFINE kept == {m \in Nat : m <= n => after[m] \in I[m]}
  <1>6. 0 \in kept
    <2> HIDE DEF after
    <2> QED BY <1>5
  <1>7. ASSUME NEW m \in Nat, m \in kept PROVE m + 1 \in kept
    <2> HIDE DEF after
    <2> SUFFICES ASSUME m + 1 <= n PROVE after[m + 1] \in I[m + 1]
      OBVIOUS
    <2>1. m <= n /\ m + 1 \in 1..n /\ m + 1 # 0 /\ (m + 1) - 1 = m /\ m + 1 \in 0..n
      BY m + 1 <= n, n \in Nat
    <2>2. after[m] \in I[m] BY <2>1, <1>7
    <2>3. after[m + 1] = runStm(after[m], prog.stms[b][m + 1], called) BY <2>1, <1>5
    <2>4. \A x \in I[m] : runStm(x, prog.stms[b][m + 1], called) \in I[m + 1] BY <2>1
    <2> QED BY <2>2, <2>3, <2>4
  <1> QED
    <2>1. n \in kept
      <3> HIDE DEF kept
      <3>1. Nat \subseteq kept BY <1>6, <1>7, SetInduction
      <3> QED BY <3>1
    <2> HIDE DEF after
    <2> QED BY <2>1, <1>1

Envs == [Temp -> Val \cup {Nothing}]

LEMMA NumberOf ==
  ASSUME NEW e \in Envs, NEW x \in Temp \cup Val
  PROVE  numberOf(e, x) \in Val \cup {Nothing}
  BY DEF numberOf, Envs

(* What a statement other than a phi function makes of its operands. *)
LEMMA RunStm ==
  ASSUME WellFormed(prog), NEW b \in Blocks, NEW k \in DOMAIN prog.stms[b],
         NEW e \in Envs, NEW called \in Val
  PROVE  LET stm == prog.stms[b][k]
             f == runStm(e, stm, called)
         IN  /\ f \in Envs
             /\ stm.op = "phi" => f = e
             /\ \A x \in Temp \ {stm.dst} : f[x] = e[x]
             /\ stm.op = "copy" => f[stm.dst] = numberOf(e, stm.args[1])
             /\ stm.op = "plus" =>
                  f[stm.dst] = IF Nothing \in {numberOf(e, stm.args[1]), numberOf(e, stm.args[2])} THEN Nothing
                               ELSE plus(numberOf(e, stm.args[1]), numberOf(e, stm.args[2]))
  <1> DEFINE stm == prog.stms[b][k]
             f == runStm(e, stm, called)
             result ==
               CASE stm.op = "copy" -> numberOf(e, stm.args[1])
                 [] stm.op = "plus" ->
                      IF Nothing \in {numberOf(e, x) : x \in Range(stm.args)} THEN Nothing
                      ELSE plus(numberOf(e, stm.args[1]), numberOf(e, stm.args[2]))
                 [] stm.op = "call" -> called
  <1>1. /\ stm.dst \in Temp /\ stm.op \in {"phi", "copy", "plus", "call"}
        /\ DOMAIN stm.args = 1..Len(stm.args) /\ \A i \in DOMAIN stm.args : stm.args[i] \in Temp \cup Val
        /\ stm.op = "copy" => Len(stm.args) = 1
        /\ stm.op = "plus" => Len(stm.args) = 2
    BY Statement
  <1>2. f = IF stm.op = "phi" THEN e ELSE [e EXCEPT ![stm.dst] = result]
    BY DEF runStm
  <1> SUFFICES /\ f \in Envs
               /\ stm.op = "phi" => f = e
               /\ \A x \in Temp \ {stm.dst} : f[x] = e[x]
               /\ stm.op = "copy" => f[stm.dst] = numberOf(e, stm.args[1])
               /\ stm.op = "plus" =>
                    f[stm.dst] = IF Nothing \in {numberOf(e, stm.args[1]), numberOf(e, stm.args[2])} THEN Nothing
                                 ELSE plus(numberOf(e, stm.args[1]), numberOf(e, stm.args[2]))
    OBVIOUS
  <1> HIDE DEF stm, f
  <1>3. CASE stm.op = "phi"
    BY <1>2, <1>3
  <1>4. CASE stm.op = "copy"
    <2>1. DOMAIN stm.args = 1..1 BY <1>1, <1>4
    <2>2. stm.args[1] \in Temp \cup Val BY <2>1, <1>1
    <2>3. result = numberOf(e, stm.args[1]) BY <1>4
    <2> HIDE DEF result
    <2>4. result \in Val \cup {Nothing} BY <2>2, <2>3, NumberOf
    <2> QED BY <1>1, <1>2, <1>4, <2>3, <2>4 DEF Envs
  <1>5. CASE stm.op = "plus"
    <2>1. DOMAIN stm.args = 1..2 BY <1>1, <1>5
    <2>2. stm.args[1] \in Temp \cup Val /\ stm.args[2] \in Temp \cup Val BY <2>1, <1>1
    <2>3. Range(stm.args) = {stm.args[1], stm.args[2]}
      <3>1. 1..2 = {1, 2} OBVIOUS
      <3> QED BY <2>1, <3>1 DEF Range
    <2>4. result = IF Nothing \in {numberOf(e, stm.args[1]), numberOf(e, stm.args[2])} THEN Nothing
                   ELSE plus(numberOf(e, stm.args[1]), numberOf(e, stm.args[2]))
      <3>1. {numberOf(e, x) : x \in Range(stm.args)} = {numberOf(e, stm.args[1]), numberOf(e, stm.args[2])}
        BY <2>3
      <3> QED BY <3>1, <1>5
    <2> HIDE DEF result
    <2>5. numberOf(e, stm.args[1]) \in Val \cup {Nothing} /\ numberOf(e, stm.args[2]) \in Val \cup {Nothing}
      BY <2>2, NumberOf
    <2>6. result \in Val \cup {Nothing} BY <2>4, <2>5, Numbers
    <2> QED BY <1>1, <1>2, <1>5, <2>4, <2>6 DEF Envs
  <1>6. CASE stm.op = "call"
    <2>1. result = called BY <1>6
    <2> HIDE DEF result
    <2> QED BY <1>1, <1>2, <1>6, <2>1 DEF Envs
  <1> QED
    BY <1>1, <1>3, <1>4, <1>5, <1>6

LEMMA AtPhis ==
  ASSUME WellFormed(prog), env \in Envs, NEW b \in Blocks,
         NEW pos, b # root => pos \in DOMAIN prog.pred[b]
  PROVE  /\ atPhis(b, pos) \in Envs
         /\ \A t \in Temp :
              \/ (\A k \in phis(b) : prog.stms[b][k].dst # t) /\ atPhis(b, pos)[t] = env[t]
              \/ \E k \in phis(b) : /\ prog.stms[b][k].dst = t
                                    /\ pos \in DOMAIN prog.pred[b]
                                    /\ prog.stms[b][k].args[pos] \in Temp \cup Val
                                    /\ atPhis(b, pos)[t] = numberOf(env, prog.stms[b][k].args[pos])
  <1> DEFINE of(t) == {k \in phis(b) : prog.stms[b][k].dst = t}
             first(t) == CHOOSE k \in of(t) : TRUE
             value(t) == IF of(t) = {} THEN env[t] ELSE numberOf(env, prog.stms[b][first(t)].args[pos])
  <1>1. atPhis(b, pos) = [t \in Temp |-> value(t)]
    BY DEF atPhis
  <1>2. ASSUME NEW k \in phis(b)
        PROVE  pos \in DOMAIN prog.pred[b] /\ prog.stms[b][k].args[pos] \in Temp \cup Val
    <2>1. k \in DOMAIN prog.stms[b] /\ prog.stms[b][k].op = "phi" BY DEF phis
    <2>2. b # root /\ DOMAIN prog.stms[b][k].args = DOMAIN prog.pred[b]
          /\ \A i \in DOMAIN prog.stms[b][k].args : prog.stms[b][k].args[i] \in Temp \cup Val
      BY <2>1, Statement
    <2> QED BY <2>2
  <1>3. ASSUME NEW t \in Temp
        PROVE  /\ value(t) \in Val \cup {Nothing}
               /\ \/ (\A k \in phis(b) : prog.stms[b][k].dst # t) /\ value(t) = env[t]
                  \/ \E k \in phis(b) : /\ prog.stms[b][k].dst = t
                                        /\ pos \in DOMAIN prog.pred[b]
                                        /\ prog.stms[b][k].args[pos] \in Temp \cup Val
                                        /\ value(t) = numberOf(env, prog.stms[b][k].args[pos])
    <2>1. CASE of(t) = {}
      <3>1. value(t) = env[t] BY <2>1
      <3>2. \A k \in phis(b) : prog.stms[b][k].dst # t BY <2>1
      <3>3. env[t] \in Val \cup {Nothing} BY DEF Envs
      <3> HIDE DEF value
      <3> QED BY <3>1, <3>2, <3>3
    <2>2. CASE of(t) # {}
      <3>1. first(t) \in of(t) BY <2>2
      <3>2. first(t) \in phis(b) /\ prog.stms[b][first(t)].dst = t BY <3>1
      <3>3. value(t) = numberOf(env, prog.stms[b][first(t)].args[pos]) BY <2>2
      <3> HIDE DEF first, value, of
      <3>4. pos \in DOMAIN prog.pred[b] /\ prog.stms[b][first(t)].args[pos] \in Temp \cup Val
        BY <3>2, <1>2
      <3>5. value(t) \in Val \cup {Nothing} BY <3>3, <3>4, NumberOf
      <3> QED BY <3>2, <3>3, <3>4, <3>5
    <2> QED BY <2>1, <2>2
  <1> HIDE DEF value
  <1>4. atPhis(b, pos) \in Envs /\ \A t \in Temp : atPhis(b, pos)[t] = value(t)
    BY <1>1, <1>3 DEF Envs
  <1>5. ASSUME NEW t \in Temp
        PROVE  \/ (\A k \in phis(b) : prog.stms[b][k].dst # t) /\ atPhis(b, pos)[t] = env[t]
               \/ \E k \in phis(b) : /\ prog.stms[b][k].dst = t
                                     /\ pos \in DOMAIN prog.pred[b]
                                     /\ prog.stms[b][k].args[pos] \in Temp \cup Val
                                     /\ atPhis(b, pos)[t] = numberOf(env, prog.stms[b][k].args[pos])
    <2>1. atPhis(b, pos)[t] = value(t) BY <1>4
    <2> QED BY <2>1, <1>3
  <1> QED
    BY <1>4, <1>5

-----------------------------------------------------------------------------
(* The invariant. *)

(* While the function runs, a block other than the first was entered from  *)
(* one of its predecessors.                                                *)
FromInv == block = root \/ phase = "returned" \/ from \in Range(prog.pred[block])

IInv == WellFormed(prog) /\ TypeOK /\ FromInv

LEMMA InitIInv == Init => IInv
  <1> SUFFICES ASSUME Init PROVE IInv
    OBVIOUS
  <1>1. WellFormed(prog)
    BY ProgramsAssumption DEF Init
  <1>2. root \in Blocks
    BY <1>1 DEF WellFormed, Blocks
  <1>3. table \in Tables
    <2>1. [t \in Temp |-> Udf] \in [Temp -> Val \cup {Udf, Idf}]
      OBVIOUS
    <2>2. [t \in Temp |-> << >>] \in [Temp -> Seq(Places)]
      OBVIOUS
    <2>3. <<root>> \in Seq(Blocks) /\ << >> \in Seq(Temp) /\ {root} \in SUBSET Blocks /\ {} \in SUBSET Blocks
      BY <1>2
    <2>4. table = [cond |-> [t \in Temp |-> Udf], reached |-> {root}, curBlock |-> <<root>>,
                   curTemp |-> << >>, visited |-> {}, tempUse |-> [t \in Temp |-> << >>]]
      BY DEF Init
    <2> QED BY <2>1, <2>2, <2>3, <2>4 DEF Tables
  <1> QED
    BY <1>1, <1>2, <1>3 DEF Init, IInv, TypeOK, FromInv

(* A block of the queue is visited: first it is taken out, and what it     *)
(* uses is noted; then its places and the phi functions behind it are      *)
(* visited.                                                                *)
entered(b) ==
  [table EXCEPT !.curBlock = Tail(@), !.visited = @ \cup {b},
                !.tempUse = [t \in Temp |-> @[t] \o usesIn(t, b)]]

LEMMA UsesIn ==
  ASSUME WellFormed(prog), NEW b \in Blocks, NEW t
  PROVE  /\ usesIn(t, b) \in Seq(Places)
         /\ \A k \in places(b) : t \in argsAt(b, k) =>
              \E i \in 1..Len(usesIn(t, b)) : usesIn(t, b)[i] = <<b, k>>
         /\ \A i \in 1..Len(usesIn(t, b)) :
              \E k \in places(b) : t \in argsAt(b, k) /\ usesIn(t, b)[i] = <<b, k>>
  <1> DEFINE K == {k \in places(b) : t \in argsAt(b, k)}
             q == inOrder(K)
             r == usesIn(t, b)
  <1>1. Len(prog.stms[b]) \in Nat
    BY Code
  <1>2. IsFiniteSet(places(b)) /\ places(b) \subseteq Int
    <2>1. 1 \in Int /\ Len(prog.stms[b]) + 1 \in Int BY <1>1
    <2>2. IsFiniteSet(1..Len(prog.stms[b]) + 1) BY <2>1, FS_Interval
    <2> QED BY <2>1, <2>2 DEF places
  <1>3. K \in SUBSET places(b) /\ K \in SUBSET Int
    BY <1>2
  <1> HIDE DEF K
  <1>4. /\ q \in Seq(K) /\ \A m \in K : \E i \in 1..Len(q) : q[i] = m
    <2>1. IsFiniteSet(K) BY <1>2, <1>3, FS_Subset
    <2> QED BY <1>3, <2>1, InOrder
  <1> HIDE DEF q
  <1>5. Len(q) \in Nat /\ DOMAIN q = 1..Len(q) /\ \A i \in 1..Len(q) : q[i] \in K
    BY <1>4
  <1>6. r = [i \in DOMAIN q |-> <<b, q[i]>>]
    BY DEF usesIn, q, K
  <1>7. \A k \in K : <<b, k>> \in Places
    BY <1>3 DEF Places
  <1>8. r \in Seq(Places) /\ Len(r) = Len(q) /\ \A i \in 1..Len(r) : r[i] = <<b, q[i]>>
    BY <1>5, <1>6, <1>7
  <1> HIDE DEF r
  <1>9. ASSUME NEW k \in places(b), t \in argsAt(b, k) PROVE \E i \in 1..Len(r) : r[i] = <<b, k>>
    <2>1. k \in K BY <1>9 DEF K
    <2>2. PICK i \in 1..Len(q) : q[i] = k BY <2>1, <1>4
    <2>3. i \in 1..Len(r) /\ r[i] = <<b, k>> BY <2>2, <1>8
    <2> QED BY <2>3
  <1>10. ASSUME NEW i \in 1..Len(r)
         PROVE  \E k \in places(b) : t \in argsAt(b, k) /\ r[i] = <<b, k>>
    <2>1. q[i] \in K /\ r[i] = <<b, q[i]>> BY <1>5, <1>8
    <2> QED BY <2>1 DEF K
  <1> QED
    BY <1>8, <1>9, <1>10 DEF r

LEMMA Entered ==
  ASSUME WellFormed(prog), table \in Tables, NEW b \in Blocks, table.curBlock # << >>
  PROVE  /\ entered(b) \in Tables
         /\ entered(b).cond = table.cond /\ entered(b).reached = table.reached
         /\ entered(b).curTemp = table.curTemp /\ entered(b).curBlock = Tail(table.curBlock)
         /\ entered(b).visited = table.visited \cup {b}
         /\ \A t \in Temp : entered(b).tempUse[t] = table.tempUse[t] \o usesIn(t, b)
  <1> DEFINE uses == [t \in Temp |-> table.tempUse[t] \o usesIn(t, b)]
             s == entered(b)
  <1>1. /\ s.cond = table.cond /\ s.reached = table.reached /\ s.curTemp = table.curTemp
        /\ s.curBlock = Tail(table.curBlock) /\ s.visited = table.visited \cup {b} /\ s.tempUse = uses
        /\ s \in [cond : {s.cond}, reached : {s.reached}, curBlock : {s.curBlock},
                  curTemp : {s.curTemp}, visited : {s.visited}, tempUse : {s.tempUse}]
    BY DEF entered, Tables
  <1>2. uses \in [Temp -> Seq(Places)]
    <2>1. ASSUME NEW t \in Temp PROVE table.tempUse[t] \o usesIn(t, b) \in Seq(Places)
      <3>1. table.tempUse[t] \in Seq(Places) BY DEF Tables
      <3>2. usesIn(t, b) \in Seq(Places) BY UsesIn
      <3> QED BY <3>1, <3>2
    <2> QED BY <2>1
  <1>3. \A t \in Temp : uses[t] = table.tempUse[t] \o usesIn(t, b)
    OBVIOUS
  <1>4. Tail(table.curBlock) \in Seq(Blocks)
    BY DEF Tables
  <1>5. table.cond \in [Temp -> Val \cup {Udf, Idf}] /\ table.reached \in SUBSET Blocks
        /\ table.curTemp \in Seq(Temp) /\ table.visited \cup {b} \in SUBSET Blocks
    BY DEF Tables
  <1> HIDE DEF uses, s
  <1>6. s \in Tables
    BY <1>1, <1>2, <1>4, <1>5 DEF Tables
  <1> QED
    BY <1>1, <1>3, <1>6 DEF s

own(b) == [k \in places(b) |-> <<b, k>>]

LEMMA OwnPlaces ==
  ASSUME WellFormed(prog), NEW b \in Blocks
  PROVE  /\ own(b) \in Seq(Places) /\ Len(own(b)) = Len(prog.stms[b]) + 1
         /\ Len(prog.stms[b]) \in Nat
         /\ \A k \in 1..Len(own(b)) : own(b)[k] = <<b, k>> /\ k \in places(b)
  <1>1. Len(prog.stms[b]) \in Nat
    BY Code
  <1>2. places(b) = 1..Len(prog.stms[b]) + 1
    BY DEF places
  <1>3. \A k \in places(b) : <<b, k>> \in Places
    BY DEF Places
  <1> DEFINE n == Len(prog.stms[b]) + 1
  <1>4. own(b) = [k \in 1..n |-> <<b, k>>] /\ n \in Nat
    BY <1>1, <1>2 DEF own
  <1>5. \A k \in 1..n : <<b, k>> \in Places
    BY <1>2, <1>3
  <1>6. n = Len(prog.stms[b]) + 1 /\ 1..n = places(b)
    BY <1>2
  <1> HIDE DEF n
  <1>7. own(b) \in Seq(Places) /\ Len(own(b)) = n /\ \A k \in 1..n : own(b)[k] = <<b, k>>
    BY <1>4, <1>5
  <1> QED
    BY <1>1, <1>6, <1>7

LEMMA PhiOrders ==
  ASSUME WellFormed(prog), NEW s \in Tables, NEW b \in Blocks, NEW q \in phiOrders(s, b)
  PROVE  /\ q \in Seq(Places)
         /\ \A i \in 1..Len(q) : \E n \in succ(b) \cap s.reached : \E k \in phis(n) : q[i] = <<n, k>>
         /\ \A n \in succ(b) \cap s.reached : \A k \in phis(n) : \E i \in 1..Len(q) : q[i] = <<n, k>>
  <1> DEFINE P == UNION {{n} \X phis(n) : n \in succ(b) \cap s.reached}
             j == prog.jump[b]
  <1>1. succ(b) \subseteq {j.true, j.false} /\ succ(b) \subseteq Blocks /\ j.true \in Blocks /\ j.false \in Blocks
    BY Code DEF succ, leadsTo
  <1>2. ASSUME NEW n \in Blocks PROVE IsFiniteSet(phis(n)) /\ phis(n) \subseteq places(n)
    <2>1. Len(prog.stms[n]) \in Nat /\ DOMAIN prog.stms[n] = 1..Len(prog.stms[n]) BY Code
    <2>2. phis(n) \in SUBSET (1..Len(prog.stms[n])) BY <2>1 DEF phis
    <2>3. IsFiniteSet(1..Len(prog.stms[n]))
      <3>1. 1 \in Int /\ Len(prog.stms[n]) \in Int BY <2>1
      <3> QED BY <3>1, FS_Interval
    <2>4. 1..Len(prog.stms[n]) \subseteq places(n) BY <2>1 DEF places
    <2>5. IsFiniteSet(phis(n)) BY <2>2, <2>3, FS_Subset
    <2> QED BY <2>2, <2>4, <2>5
  <1>3. IsFiniteSet(P)
    <2> DEFINE A == {j.true, j.false}
               B == phis(j.true) \cup phis(j.false)
    <2>1. IsFiniteSet(A)
      <3>1. IsFiniteSet({j.true}) /\ {j.true, j.false} = {j.true} \cup {j.false} BY FS_Singleton
      <3> QED BY <3>1, FS_AddElement
    <2>2. IsFiniteSet(B)
      <3>1. IsFiniteSet(phis(j.true)) /\ IsFiniteSet(phis(j.false)) BY <1>1, <1>2
      <3> QED BY <3>1, FS_Union
    <2>3. P \in SUBSET (A \X B)
      <3> SUFFICES ASSUME NEW u \in P PROVE u \in A \X B
        OBVIOUS
      <3>1. PICK n \in succ(b) \cap s.reached : u \in {n} \X phis(n)
        OBVIOUS
      <3>2. n = j.true \/ n = j.false BY <1>1
      <3> QED BY <3>1, <3>2
    <2> HIDE DEF A, B, P
    <2>4. IsFiniteSet(A \X B) BY <2>1, <2>2, FS_Product
    <2> QED BY <2>3, <2>4, FS_Subset
  <1>4. q \in SetToSeqs(P)
    BY DEF phiOrders
  <1>5. /\ q \in Seq(P) /\ \A m \in P : \E i \in 1..Len(q) : q[i] = m
    <2> HIDE DEF P
    <2> QED BY <1>3, <1>4, SeqsOfSet
  <1>6. Len(q) \in Nat /\ \A i \in 1..Len(q) : q[i] \in P
    <2> HIDE DEF P
    <2> QED BY <1>5
  <1>7. \A i \in 1..Len(q) : \E n \in succ(b) \cap s.reached : \E k \in phis(n) : q[i] = <<n, k>>
    <2> TAKE i \in 1..Len(q)
    <2>1. q[i] \in P BY <1>6
    <2>2. PICK n \in succ(b) \cap s.reached : q[i] \in {n} \X phis(n) BY <2>1
    <2>3. \E k \in phis(n) : q[i] = <<n, k>> BY <2>2
    <2> QED BY <2>3
  <1>8. ASSUME NEW n \in succ(b) \cap s.reached, NEW k \in phis(n) PROVE \E i \in 1..Len(q) : q[i] = <<n, k>>
    <2>1. <<n, k>> \in P OBVIOUS
    <2> QED BY <2>1, <1>5
  <1>9. P \subseteq Places
    <2> SUFFICES ASSUME NEW n \in succ(b) \cap s.reached, NEW k \in phis(n) PROVE <<n, k>> \in Places
      OBVIOUS
    <2>1. n \in Blocks /\ k \in places(n) BY <1>1, <1>2
    <2> QED BY <2>1 DEF Places
  <1>10. q \in Seq(Places)
    <2> HIDE DEF P
    <2>1. q \in [1..Len(q) -> P] BY <1>5
    <2>2. q \in [1..Len(q) -> Places] BY <2>1, <1>9
    <2> QED BY <2>2, <1>6
  <1> QED
    BY <1>7, <1>8, <1>10

(* A step of the first loop. *)
LEMMA VisitBlock ==
  ASSUME IInv, visitBlock
  PROVE  /\ phase = "mark" /\ UNCHANGED <<prog, loop, phase, block, from, env>>
         /\ table.curBlock # << >>
         /\ \E b \in Blocks, s \in Tables : \E feed \in phiOrders(s, b) :
              /\ b = Head(table.curBlock) /\ entered(b) \in Tables
              /\ s = visitAll(entered(b), own(b))
              /\ table' = visitAll(s, feed) /\ table' \in Tables
              /\ Falls(entered(b), s) /\ Falls(s, table')
  <1> DEFINE b == Head(table.curBlock)
             s == visitAll(entered(b), own(b))
  <1>1. /\ phase = "mark" /\ table.curBlock # << >>
        /\ UNCHANGED <<prog, loop, phase, block, from, env>>
        /\ \E feed \in phiOrders(s, b) : table' = visitAll(s, feed)
    BY DEF visitBlock, entered, own
  <1>2. WellFormed(prog) /\ table \in Tables /\ b \in Blocks
    <2>1. table.curBlock \in Seq(Blocks) BY DEF IInv, TypeOK, Tables
    <2>2. Head(table.curBlock) \in Blocks BY <1>1, <2>1
    <2> QED BY <2>2 DEF IInv, TypeOK
  <1> HIDE DEF b
  <1>3. entered(b) \in Tables
    BY <1>1, <1>2, Entered
  <1>4. s \in Tables /\ Falls(entered(b), s)
    <2>1. own(b) \in Seq(Places) BY <1>2, OwnPlaces
    <2> QED BY <1>2, <1>3, <2>1, VisitAllFalls
  <1> HIDE DEF s
  <1>5. PICK feed \in phiOrders(s, b) : table' = visitAll(s, feed)
    BY <1>1
  <1>6. feed \in Seq(Places)
    BY <1>2, <1>4, PhiOrders
  <1>7. table' \in Tables /\ Falls(s, table')
    BY <1>2, <1>4, <1>5, <1>6, VisitAllFalls
  <1>8. b = Head(table.curBlock) /\ s = visitAll(entered(b), own(b))
    BY DEF b, s
  <1> QED
    BY <1>1, <1>2, <1>3, <1>4, <1>5, <1>7, <1>8

(* A step of the second loop. *)
popped == [table EXCEPT !.curTemp = Tail(@)]

LEMMA VisitTemp ==
  ASSUME IInv, visitTemp
  PROVE  /\ phase = "mark" /\ UNCHANGED <<prog, phase, block, from, env>>
         /\ loop' \in {"blocks", "temps"}
         /\ table.curTemp # << >> /\ Head(table.curTemp) \in Temp
         /\ popped \in Tables /\ popped.cond = table.cond /\ popped.reached = table.reached
         /\ popped.curBlock = table.curBlock /\ popped.curTemp = Tail(table.curTemp)
         /\ popped.visited = table.visited /\ popped.tempUse = table.tempUse
         /\ table' = visitAll(popped, table.tempUse[Head(table.curTemp)])
         /\ table' \in Tables /\ Falls(popped, table')
  <1>1. /\ phase = "mark" /\ UNCHANGED <<prog, phase, block, from, env>>
        /\ table.curTemp # << >> /\ loop' \in {"blocks", "temps"}
        /\ table' = visitAll(popped, table.tempUse[Head(table.curTemp)])
    BY DEF visitTemp, popped
  <1>2. WellFormed(prog) /\ table \in Tables
    BY DEF IInv, TypeOK
  <1>3. table.curTemp \in Seq(Temp) /\ table.tempUse \in [Temp -> Seq(Places)]
    BY <1>2 DEF Tables
  <1>4. Head(table.curTemp) \in Temp /\ Tail(table.curTemp) \in Seq(Temp)
    BY <1>1, <1>3
  <1>5. /\ popped \in Tables /\ popped.cond = table.cond /\ popped.reached = table.reached
        /\ popped.curBlock = table.curBlock /\ popped.curTemp = Tail(table.curTemp)
        /\ popped.visited = table.visited /\ popped.tempUse = table.tempUse
    BY <1>2, <1>4 DEF popped, Tables
  <1>6. table.tempUse[Head(table.curTemp)] \in Seq(Places)
    BY <1>3, <1>4
  <1>7. table' \in Tables /\ Falls(popped, table')
    BY <1>1, <1>2, <1>5, <1>6, VisitAllFalls
  <1> QED
    BY <1>1, <1>4, <1>5, <1>7

(* A block is run. *)
LEMMA Run ==
  ASSUME IInv, NEW called \in Val, run(called)
  PROVE  /\ phase = "run" /\ UNCHANGED <<prog, table, loop>> /\ from' = block
         /\ \E pos : /\ block # root => pos \in DOMAIN prog.pred[block] /\ prog.pred[block][pos] = from
                     /\ env' = runBlock(block, atPhis(block, pos), called)
         /\ env' \in Envs
         /\ LET j == prog.jump[block]
            IN  \/ j.op = "return" /\ phase' = "returned" /\ block' = block
                \/ j.op = "always" /\ phase' = phase /\ block' = j.true /\ block' \in succ(block)
                \/ /\ j.op \in {"lt", "eq"} /\ phase' = phase /\ block' \in succ(block)
                   /\ numberOf(env', j.left) # Nothing /\ numberOf(env', j.right) # Nothing
                   /\ block' = IF evalRel(j.op, numberOf(env', j.left), numberOf(env', j.right))
                               THEN j.true ELSE j.false
  <1> DEFINE pos == IF block = root THEN 0
                    ELSE CHOOSE k \in DOMAIN prog.pred[block] : prog.pred[block][k] = from
             j == prog.jump[block]
             e == runBlock(block, atPhis(block, pos), called)
  <1>1. WellFormed(prog) /\ block \in Blocks /\ env \in Envs
    BY DEF IInv, TypeOK, Envs
  <1>2. phase = "run" /\ UNCHANGED <<prog, table, loop>> /\ from' = block /\ env' = e
    BY DEF run
  <1>3. /\ j.op = "return" => phase' = "returned" /\ block' = block
        /\ j.op = "always" => phase' = phase /\ block' = j.true
        /\ j.op \in {"lt", "eq"} =>
             /\ numberOf(e, j.left) # Nothing /\ numberOf(e, j.right) # Nothing
             /\ phase' = phase
             /\ block' = IF evalRel(j.op, numberOf(e, j.left), numberOf(e, j.right))
                         THEN j.true ELSE j.false
    BY DEF run
  <1>4. block # root => pos \in DOMAIN prog.pred[block] /\ prog.pred[block][pos] = from
    <2> SUFFICES ASSUME block # root PROVE pos \in DOMAIN prog.pred[block] /\ prog.pred[block][pos] = from
      OBVIOUS
    <2>1. from \in Range(prog.pred[block]) BY <1>2 DEF IInv, FromInv
    <2>2. \E k \in DOMAIN prog.pred[block] : prog.pred[block][k] = from BY <2>1 DEF Range
    <2> QED BY <2>2
  <1> HIDE DEF pos
  <1>5. atPhis(block, pos) \in Envs
    BY <1>1, <1>4, AtPhis
  <1>6. e \in Envs
    <2> DEFINE n == Len(prog.stms[block])
               I == [k \in 0..n |-> Envs]
    <2>1. n \in Nat /\ DOMAIN prog.stms[block] = 1..n BY <1>1, Code
    <2>2. \A k \in 1..n : \A x \in Envs : runStm(x, prog.stms[block][k], called) \in Envs
      BY <2>1, <1>1, RunStm
    <2>3. \A k \in 0..n : I[k] = Envs OBVIOUS
    <2> HIDE DEF I, n
    <2>4. atPhis(block, pos) \in I[0] /\ n \in 0..n
          /\ \A k \in 1..n : k - 1 \in 0..n /\ I[k - 1] = Envs /\ I[k] = Envs
      BY <2>1, <2>3, <1>5
    <2>5. e \in I[n] BY <2>1, <2>2, <2>4, RunBlock DEF n
    <2> QED BY <2>3, <2>4, <2>5
  <1>7. /\ j.op \in {"lt", "eq", "always", "return"}
        /\ j.op = "always" => j.true \in succ(block)
        /\ j.op \in {"lt", "eq"} => j.true \in succ(block) /\ j.false \in succ(block)
    BY <1>1, Code DEF succ, leadsTo
  <1> HIDE DEF e, j
  <1>8. \/ j.op = "return" /\ phase' = "returned" /\ block' = block
        \/ j.op = "always" /\ phase' = phase /\ block' = j.true /\ block' \in succ(block)
        \/ /\ j.op \in {"lt", "eq"} /\ phase' = phase /\ block' \in succ(block)
           /\ numberOf(e, j.left) # Nothing /\ numberOf(e, j.right) # Nothing
           /\ block' = IF evalRel(j.op, numberOf(e, j.left), numberOf(e, j.right))
                       THEN j.true ELSE j.false
    BY <1>3, <1>7
  <1>9. \E p : /\ block # root => p \in DOMAIN prog.pred[block] /\ prog.pred[block][p] = from
               /\ env' = runBlock(block, atPhis(block, p), called)
    BY <1>2, <1>4 DEF e
  <1> QED
    BY <1>2, <1>6, <1>8, <1>9 DEF j

LEMMA NextIInv == IInv /\ [Next]_vars => IInv'
  <1> SUFFICES ASSUME IInv, [Next]_vars PROVE IInv'
    OBVIOUS
  <1>1. WellFormed(prog) /\ TypeOK /\ FromInv
    BY DEF IInv
  <1>2. ASSUME prog' = prog, table' \in Tables, UNCHANGED <<phase, block, from, env>>,
               loop' \in {"blocks", "temps"}
        PROVE  IInv'
    BY <1>1, <1>2 DEF IInv, TypeOK, FromInv, Blocks, Tables, Places, places
  <1>3. CASE visitBlock
    BY <1>1, <1>2, <1>3, VisitBlock DEF TypeOK
  <1>4. CASE visitTemp
    BY <1>2, <1>4, VisitTemp
  <1>5. CASE marked
    BY <1>1, <1>5 DEF marked, IInv, TypeOK, FromInv, Blocks, Tables, Places, places
  <1>6. ASSUME NEW called \in Val, run(called) PROVE IInv'
    <2>1. /\ phase = "run" /\ UNCHANGED <<prog, table, loop>> /\ from' = block /\ env' \in Envs
          /\ \/ phase' = "returned" /\ block' = block
             \/ phase' = phase /\ block' \in succ(block)
      BY <1>6, Run
    <2>2. block \in Blocks /\ succ(block) \subseteq Blocks
      BY <1>1, Code DEF TypeOK
    <2>3. TypeOK'
      BY <1>1, <2>1, <2>2 DEF TypeOK, Envs, Blocks, Tables, Places, places
    <2>4. FromInv'
      <3>1. CASE phase' = "returned"
        BY <3>1 DEF FromInv
      <3>2. CASE block' \in succ(block)
        <4>1. \A b, c \in Blocks : c \in leadsTo(prog.jump[b]) <=> b \in Range(prog.pred[c])
          BY <1>1 DEF WellFormed, Blocks
        <4>2. block \in Range(prog.pred[block'])
          BY <4>1, <3>2, <2>2 DEF succ
        <4> QED BY <4>2, <2>1 DEF FromInv
      <3> QED BY <2>1, <3>1, <3>2
    <2> QED BY <1>1, <2>1, <2>3, <2>4 DEF IInv
  <1>7. CASE UNCHANGED vars
    BY <1>1, <1>7 DEF vars, IInv, TypeOK, FromInv, Blocks, Tables, Places, places
  <1> QED
    BY <1>3, <1>4, <1>5, <1>6, <1>7 DEF Next

(* The table holds a value for every temporary, only blocks and places of  *)
(* the function are in the queues, and run on numbers the function stays   *)
(* among its blocks.                                                       *)
THEOREM TypeCorrect == Spec => []TypeOK
  <1>1. IInv => TypeOK
    BY DEF IInv
  <1> QED
    BY <1>1, InitIInv, NextIInv, PTL DEF Spec

(* bfsMark: a value only becomes less definite, and a block once reached   *)
(* stays so, whatever the order in which phi functions are fed.            *)
THEOREM Monotone == Spec => OnlyFalls
  <1> DEFINE Step == /\ \A t \in Temp : rank(table.cond[t]) <= rank(table'.cond[t])
                     /\ table.reached \subseteq table'.reached
  <1>1. ASSUME IInv, Next PROVE Step
    <2>1. CASE visitBlock
      <3>1. PICK b \in Blocks, s \in Tables :
              Falls(entered(b), s) /\ Falls(s, table')
        BY <1>1, <2>1, VisitBlock
      <3>2. entered(b).cond = table.cond /\ entered(b).reached = table.reached
        BY <1>1, <2>1, VisitBlock, Entered DEF IInv, TypeOK
      <3>3. Falls(entered(b), table')
        BY <3>1, FallsTransitive
      <3> QED BY <3>2, <3>3 DEF Falls
    <2>2. CASE visitTemp
      <3>1. Falls(popped, table') /\ popped.cond = table.cond /\ popped.reached = table.reached
        BY <1>1, <2>2, VisitTemp
      <3> QED BY <3>1 DEF Falls
    <2>3. CASE table' = table
      BY <2>3, Numbers
    <2> QED BY <1>1, <2>1, <2>2, <2>3 DEF Next, marked, run
  <1>2. IInv /\ [Next]_vars => [Step]_vars
    BY <1>1
  <1> QED
    BY <1>2, InitIInv, NextIInv, PTL DEF Spec, OnlyFalls

(* A step of the marking that changes no value and reaches no block leaves *)
(* less in the queues: it cannot go on for ever.                           *)
THEOREM Ends == Spec => Dwindles
  <1> DEFINE Step == phase = "mark" /\ phase' = "mark" =>
                       \/ table'.cond # table.cond
                       \/ table'.reached # table.reached
                       \/ Len(table'.curBlock) + Len(table'.curTemp)
                            < Len(table.curBlock) + Len(table.curTemp)
  <1>1. ASSUME IInv, Next PROVE Step
    <2> SUFFICES ASSUME phase = "mark", phase' = "mark",
                        table'.cond = table.cond, table'.reached = table.reached
                 PROVE  Len(table'.curBlock) + Len(table'.curTemp)
                          < Len(table.curBlock) + Len(table.curTemp)
      OBVIOUS
    <2>1. table \in Tables /\ WellFormed(prog)
      BY <1>1 DEF IInv, TypeOK
    <2>2. table.curBlock \in Seq(Blocks) /\ table.curTemp \in Seq(Temp)
      BY <2>1 DEF Tables
    <2>3. CASE visitBlock
      <3>1. PICK b \in Blocks, s \in Tables :
              table.curBlock # << >> /\ Falls(entered(b), s) /\ Falls(s, table')
        BY <1>1, <2>3, VisitBlock
      <3>2. entered(b).cond = table.cond /\ entered(b).reached = table.reached
            /\ entered(b).curTemp = table.curTemp /\ entered(b).curBlock = Tail(table.curBlock)
        BY <2>1, <3>1, Entered
      <3>3. Falls(entered(b), table')
        BY <3>1, FallsTransitive
      <3>4. table'.curBlock = Tail(table.curBlock) /\ table'.curTemp = table.curTemp
        BY <3>2, <3>3 DEF Falls
      <3> DEFINE m == Len(table.curBlock)
                 n == Len(table.curTemp)
      <3>5. m \in Nat /\ n \in Nat /\ Len(Tail(table.curBlock)) = m - 1
        BY <2>2, <3>1
      <3>6. Len(table'.curBlock) = m - 1 /\ Len(table'.curTemp) = n
        BY <3>4, <3>5
      <3> HIDE DEF m, n
      <3>7. (m - 1) + n < m + n
        BY <3>5
      <3> QED BY <3>6, <3>7 DEF m, n
    <2>4. CASE visitTemp
      <3>1. /\ Falls(popped, table') /\ popped.cond = table.cond /\ popped.reached = table.reached
            /\ popped.curBlock = table.curBlock /\ popped.curTemp = Tail(table.curTemp)
            /\ table.curTemp # << >>
        BY <1>1, <2>4, VisitTemp
      <3>2. table'.curBlock = table.curBlock /\ table'.curTemp = Tail(table.curTemp)
        BY <3>1 DEF Falls
      <3> DEFINE m == Len(table.curBlock)
                 n == Len(table.curTemp)
      <3>3. m \in Nat /\ n \in Nat /\ Len(Tail(table.curTemp)) = n - 1
        BY <2>2, <3>1
      <3>4. Len(table'.curBlock) = m /\ Len(table'.curTemp) = n - 1
        BY <3>2, <3>3
      <3> HIDE DEF m, n
      <3>5. m + (n - 1) < m + n
        BY <3>3
      <3> QED BY <3>4, <3>5 DEF m, n
    <2>5. CASE marked \/ \E called \in Val : run(called)
      BY <2>5 DEF marked, run
    <2> QED BY <1>1, <2>3, <2>4, <2>5 DEF Next
  <1>2. IInv /\ [Next]_vars => [Step]_vars
    BY <1>1
  <1> QED
    BY <1>2, InitIInv, NextIInv, PTL DEF Spec, Dwindles

-----------------------------------------------------------------------------
(***************************************************************************)
(* The constants found are right, for every well-formed function in which  *)
(* a temporary is assigned once and before it is used.                     *)
(*                                                                         *)
(* While the marking goes on, a number in the table agrees with the values *)
(* of the operands its statement was last computed from, or an operand has *)
(* become indefinite and is in the queue.  Which operands count depends on *)
(* the blocks visited so far, and changes while a block is visited; so the *)
(* invariant is stated for a set G of places that were visited and a set R *)
(* of operands that count, and W are places still to be visited again.     *)
(***************************************************************************)

At(u) == prog.stms[u[1]][u[2]]

Stms == {u \in Places : u[2] \in DOMAIN prog.stms[u[1]]}

value(s, u, i) == valueOf(s.cond, At(u).args[i])

(* The temporaries the statements of G assign. *)
Assigned(G) == {At(u).dst : u \in G \cap Stms}

(* What was visited has a value; a phi function that is fed before its     *)
(* block was visited is 0.                                                 *)
Valued(s, G) ==
  \A u \in Stms : IF u \in G THEN s.cond[At(u).dst] # Udf
                  ELSE s.cond[At(u).dst] = Udf \/ (At(u).op = "phi" /\ s.cond[At(u).dst] = 0)

(* A number is the value of its operands that count, unless one of them is *)
(* indefinite.                                                             *)
AgreesAt(s, R, u) ==
  /\ At(u).op \in {"copy", "phi"} =>
       \A i \in DOMAIN At(u).args : <<u, i>> \in R => value(s, u, i) \in {s.cond[At(u).dst], Idf}
  /\ At(u).op = "plus" =>
       \/ /\ value(s, u, 1) \in Val /\ value(s, u, 2) \in Val
          /\ s.cond[At(u).dst] = plus(value(s, u, 1), value(s, u, 2))
       \/ value(s, u, 1) = Idf \/ value(s, u, 2) = Idf
  /\ At(u).op # "call"

Agrees(s, G, R) == \A u \in G \cap Stms : s.cond[At(u).dst] \in Val => AgreesAt(s, R, u)

(* Then that operand is in the queue, or the place will be visited.        *)
Queued(s, G, R, W) ==
  \A u \in G \cap Stms : s.cond[At(u).dst] \in Val =>
    \A i \in DOMAIN At(u).args :
      <<u, i>> \in R /\ value(s, u, i) = Idf => At(u).args[i] \in Range(s.curTemp) \/ u \in W

(* The same for jumps. *)
JumpAgrees(s, b) ==
  /\ prog.jump[b].op = "always" => succ(b) \subseteq s.reached
  /\ prog.jump[b].op \in {"lt", "eq"} =>
       \/ succ(b) \subseteq s.reached
       \/ (\A x \in operands(b) : isConst(s.cond, x)) /\ chosen(s, b) \in s.reached
       \/ \E x \in operands(b) : valueOf(s.cond, x) = Idf

JumpsAgree(s, G) == \A u \in G \ Stms : JumpAgrees(s, u[1])

JumpsQueued(s, G, W) ==
  \A u \in G \ Stms : prog.jump[u[1]].op \in {"lt", "eq"} =>
    \A x \in operands(u[1]) :
      valueOf(s.cond, x) = Idf => succ(u[1]) \subseteq s.reached \/ x \in Range(s.curTemp) \/ u \in W

(* The operands of a phi function that count come from reached blocks.     *)
Counted(s, G, R) ==
  \A u \in G \cap Stms : At(u).op = "phi" =>
    \A i \in DOMAIN At(u).args :
      <<u, i>> \in R => u[1] \in s.visited /\ prog.pred[u[1]][i] \in s.reached

Good(s, G, R, W) ==
  /\ Valued(s, G) /\ Agrees(s, G, R) /\ Queued(s, G, R, W)
  /\ JumpsAgree(s, G) /\ JumpsQueued(s, G, W) /\ Counted(s, G, R)

-----------------------------------------------------------------------------
LEMMA AtPlace ==
  ASSUME WellFormed(prog), NEW u \in Stms
  PROVE  /\ u \in Places /\ u[1] \in Blocks /\ u[2] \in DOMAIN prog.stms[u[1]] /\ u = <<u[1], u[2]>>
         /\ At(u).dst \in Temp /\ At(u).op \in {"phi", "copy", "plus", "call"}
         /\ \A i \in DOMAIN At(u).args : At(u).args[i] \in Temp \cup Val
         /\ At(u).op = "phi" => u[1] # root /\ DOMAIN At(u).args = DOMAIN prog.pred[u[1]]
         /\ At(u).op = "copy" => DOMAIN At(u).args = {1}
         /\ At(u).op = "plus" => DOMAIN At(u).args = {1, 2}
  <1>1. u \in Places /\ u[1] \in Blocks /\ u[2] \in DOMAIN prog.stms[u[1]] /\ u = <<u[1], u[2]>>
    BY DEF Stms, Places
  <1> DEFINE stm == At(u)
  <1>2. /\ stm.dst \in Temp /\ stm.op \in {"phi", "copy", "plus", "call"}
        /\ DOMAIN stm.args = 1..Len(stm.args)
        /\ \A i \in DOMAIN stm.args : stm.args[i] \in Temp \cup Val
        /\ stm.op = "phi" => u[1] # root /\ DOMAIN stm.args = DOMAIN prog.pred[u[1]]
        /\ stm.op = "copy" => Len(stm.args) = 1
        /\ stm.op = "plus" => Len(stm.args) = 2
    BY <1>1, Statement DEF At
  <1> HIDE DEF stm
  <1>3. stm.op = "copy" => DOMAIN stm.args = {1}
    <2>1. 1..1 = {1} OBVIOUS
    <2> QED BY <1>2, <2>1
  <1>4. stm.op = "plus" => DOMAIN stm.args = {1, 2}
    <2>1. 1..2 = {1, 2} OBVIOUS
    <2> QED BY <1>2, <2>1
  <1> QED
    BY <1>1, <1>2, <1>3, <1>4 DEF stm

LEMMA OneAssignment ==
  ASSUME WellFormed(prog), Strict(prog), NEW u \in Stms, NEW v \in Stms, At(u).dst = At(v).dst
  PROVE  u = v
  <1>1. /\ u[1] \in DOMAIN prog.stms /\ u[2] \in DOMAIN prog.stms[u[1]] /\ u = <<u[1], u[2]>>
        /\ v[1] \in DOMAIN prog.stms /\ v[2] \in DOMAIN prog.stms[v[1]] /\ v = <<v[1], v[2]>>
    BY AtPlace DEF Blocks
  <1>2. u[1] = v[1] /\ u[2] = v[2]
    BY <1>1 DEF Strict, At
  <1> QED
    BY <1>1, <1>2

LEMMA OperandValue ==
  ASSUME WellFormed(prog), NEW s \in Tables, NEW u \in Stms, NEW i \in DOMAIN At(u).args
  PROVE  /\ value(s, u, i) \in Val \cup {Udf, Idf}
         /\ At(u).args[i] \in Temp => value(s, u, i) = s.cond[At(u).args[i]]
         /\ At(u).args[i] \notin Temp => value(s, u, i) \in Val /\ value(s, u, i) = At(u).args[i]
  <1>1. s.cond \in [Temp -> Val \cup {Udf, Idf}] /\ At(u).args[i] \in Temp \cup Val
    BY AtPlace DEF Tables
  <1> QED
    BY <1>1, ValueOf DEF value

(* Operands assigned by what was visited have a value. *)
LEMMA AssignedValue ==
  ASSUME WellFormed(prog), NEW s \in Tables, NEW G, Valued(s, G),
         NEW x \in Temp \cup Val, x \in Temp => x \in Assigned(G)
  PROVE  valueOf(s.cond, x) \in Val \cup {Idf} /\ (x \in Temp => s.cond[x] # Udf)
  <1>1. s.cond \in [Temp -> Val \cup {Udf, Idf}]
    BY DEF Tables
  <1>2. CASE x \in Temp
    <2>1. PICK u \in G \cap Stms : x = At(u).dst
      BY <1>2 DEF Assigned
    <2>2. s.cond[x] # Udf
      BY <2>1 DEF Valued
    <2> QED BY <1>1, <1>2, <2>2, ValueOf
  <1>3. CASE x \notin Temp
    BY <1>1, <1>3, ValueOf
  <1> QED BY <1>2, <1>3

(* The new value of a visited statement: what it was, or indefinite; what  *)
(* the operands that count agree on, or indefinite.                        *)
LEMMA NewValue ==
  ASSUME WellFormed(prog), NEW s \in Tables, NEW u \in Stms, NEW R,
         At(u).op # "phi" => \A i \in DOMAIN At(u).args : <<u, i>> \in R,
         \A i \in DOMAIN At(u).args : <<u, i>> \in R => value(s, u, i) # Udf,
         At(u).op = "phi" =>
           /\ \E i \in DOMAIN At(u).args : <<u, i>> \in R
           /\ \A i \in DOMAIN At(u).args :
                <<u, i>> \in R => u[1] \in s.visited /\ prog.pred[u[1]][i] \in s.reached
  PROVE  LET v == defValue(s, u[1], At(u))
         IN  /\ v \in Val \cup {Idf}
             /\ At(u).op \in {"copy", "phi"} /\ v \in Val =>
                  \A i \in DOMAIN At(u).args : <<u, i>> \in R => value(s, u, i) = v
             /\ At(u).op \in {"copy", "phi"} =>
                  \E i \in DOMAIN At(u).args : <<u, i>> \in R /\ (v \in Val => value(s, u, i) = v)
             /\ At(u).op = "plus" =>
                  \/ /\ value(s, u, 1) \in Val /\ value(s, u, 2) \in Val
                     /\ v = plus(value(s, u, 1), value(s, u, 2))
                  \/ v = Idf
             /\ At(u).op = "plus" /\ (value(s, u, 1) = Idf \/ value(s, u, 2) = Idf) => v = Idf
             /\ At(u).op = "call" => v = Idf
  <1> DEFINE stm == At(u)
             v == defValue(s, u[1], stm)
  <1>1. /\ u[1] \in Blocks /\ stm.op \in {"phi", "copy", "plus", "call"}
        /\ \A i \in DOMAIN stm.args : stm.args[i] \in Temp \cup Val
        /\ stm.op = "phi" => DOMAIN stm.args = DOMAIN prog.pred[u[1]]
        /\ stm.op = "copy" => DOMAIN stm.args = {1}
        /\ stm.op = "plus" => DOMAIN stm.args = {1, 2}
    BY AtPlace
  <1>2. v \in Val \cup {Idf}
    BY AtPlace, DefValue DEF At
  <1>3. s.cond \in [Temp -> Val \cup {Udf, Idf}]
    BY DEF Tables
  <1>4. \A i \in DOMAIN stm.args : value(s, u, i) \in Val \cup {Udf, Idf} /\ value(s, u, i) = valueOf(s.cond, stm.args[i])
    BY OperandValue DEF value
  <1>5. Udf # Idf /\ Udf \notin Val /\ Idf \notin Val
    BY ValuesAssumption
  <1>6. CASE stm.op = "copy"
    <2>1. v = valueOf(settle(s.cond, Range(stm.args)), stm.args[1])
      BY <1>6 DEF defValue
    <2>2. 1 \in DOMAIN stm.args /\ <<u, 1>> \in R /\ value(s, u, 1) # Udf /\ stm.args[1] \in Temp \cup Val
      BY <1>1, <1>6
    <2>3. value(s, u, 1) = valueOf(s.cond, stm.args[1])
      BY <1>4, <2>2
    <2>4. v = value(s, u, 1)
      <3>1. CASE stm.args[1] \in Temp
        <4>1. s.cond[stm.args[1]] # Udf BY <2>2, <2>3, <3>1, <1>3, ValueOf
        <4>2. settle(s.cond, Range(stm.args))[stm.args[1]] = s.cond[stm.args[1]]
          BY <4>1, <1>3, <3>1, Settle
        <4> QED BY <4>2, <2>1, <2>3, <3>1 DEF valueOf
      <3>2. CASE stm.args[1] \notin Temp
        BY <2>1, <2>3, <3>2 DEF valueOf
      <3> QED BY <3>1, <3>2
    <2>5. \A i \in DOMAIN stm.args : i = 1 BY <1>1, <1>6
    <2> HIDE DEF v, stm
    <2> QED BY <1>2, <1>6, <2>2, <2>4, <2>5 DEF v, stm
  <1>7. CASE stm.op = "plus"
    <2>1. v = IF \A x \in Range(stm.args) : isConst(s.cond, x)
              THEN plus(valueOf(s.cond, stm.args[1]), valueOf(s.cond, stm.args[2])) ELSE Idf
      BY <1>7 DEF defValue
    <2>2. Range(stm.args) = {stm.args[1], stm.args[2]}
      BY <1>1, <1>7 DEF Range
    <2>3. value(s, u, 1) = valueOf(s.cond, stm.args[1]) /\ value(s, u, 2) = valueOf(s.cond, stm.args[2])
          /\ value(s, u, 1) \in Val \cup {Udf, Idf} /\ value(s, u, 2) \in Val \cup {Udf, Idf}
      BY <1>1, <1>4, <1>7
    <2>4. (\A x \in Range(stm.args) : isConst(s.cond, x)) <=> value(s, u, 1) \in Val /\ value(s, u, 2) \in Val
      <3>1. \A w \in Val \cup {Udf, Idf} : rank(w) = 1 <=> w \in Val BY Numbers, <1>5
      <3> QED BY <2>2, <2>3, <3>1 DEF isConst
    <2>5. IF value(s, u, 1) \in Val /\ value(s, u, 2) \in Val
          THEN v = plus(value(s, u, 1), value(s, u, 2)) ELSE v = Idf
      BY <2>1, <2>3, <2>4
    <2> HIDE DEF v, stm
    <2> QED BY <1>2, <1>5, <1>7, <2>5 DEF v, stm
  <1>8. CASE stm.op = "call"
    BY <1>2, <1>8 DEF defValue
  <1>9. CASE stm.op = "phi"
    <2> DEFINE K == known(s, u[1], stm.args)
    <2>1. PICK i0 \in DOMAIN stm.args : <<u, i0>> \in R
      BY <1>9
    <2>2. u[1] \in s.visited
      BY <1>9, <2>1
    <2>3. v = phiValue(s, u[1], stm.args)
      BY <1>9, <2>2 DEF defValue
    <2>4. \A i \in DOMAIN stm.args : <<u, i>> \in R => value(s, u, i) \in K
      <3> SUFFICES ASSUME NEW i \in DOMAIN stm.args, <<u, i>> \in R PROVE value(s, u, i) \in K
        OBVIOUS
      <3>1. i \in DOMAIN prog.pred[u[1]] /\ prog.pred[u[1]][i] \in s.reached BY <1>1, <1>9
      <3>2. value(s, u, i) = valueOf(s.cond, stm.args[i]) /\ value(s, u, i) # Udf BY <1>4
      <3> QED BY <3>1, <3>2 DEF known
    <2>5. \A j \in DOMAIN prog.pred[u[1]] : valueOf(s.cond, stm.args[j]) \in Val \cup {Udf, Idf}
      BY <1>1, <1>3, <1>9, ValueOf
    <2>6. K # {} /\ v # Idf => K = {v}
      BY <2>3, <2>5, PhiValue
    <2> HIDE DEF v, stm, K
    <2>7. v \in Val => \A i \in DOMAIN stm.args : <<u, i>> \in R => value(s, u, i) = v
      BY <2>4, <2>6, <1>5
    <2> QED BY <1>2, <1>9, <2>1, <2>7 DEF v, stm
  <1> QED
    BY <1>1, <1>6, <1>7, <1>8, <1>9

-----------------------------------------------------------------------------
(* Visits. *)

(* The operands that count are assigned by what was visited; those of a    *)
(* statement all do, and of a phi function at least one.                   *)
Closed(G, R) ==
  /\ G \subseteq Places
  /\ \A u \in G \cap Stms :
       /\ \A i \in DOMAIN At(u).args :
            <<u, i>> \in R /\ At(u).args[i] \in Temp => At(u).args[i] \in Assigned(G)
       /\ At(u).op # "phi" => \A i \in DOMAIN At(u).args : <<u, i>> \in R
       /\ At(u).op = "phi" => \E i \in DOMAIN At(u).args : <<u, i>> \in R
  /\ \A u \in G \ Stms : \A x \in operands(u[1]) : x \in Temp => x \in Assigned(G)

(* When the operands have values, only the destination changes. *)
LEMMA StmStep ==
  ASSUME WellFormed(prog), NEW s \in Tables, NEW u \in Stms,
         At(u).op # "phi" => \A i \in DOMAIN At(u).args : value(s, u, i) # Udf
  PROVE  LET t == visit(s, u)
             v == defValue(s, u[1], At(u))
             x == At(u).dst
         IN  /\ t \in Tables
             /\ s.cond[x] = Idf => t = s
             /\ s.cond[x] # Idf => t.cond[x] = v
             /\ \A y \in Temp \ {x} : t.cond[y] = s.cond[y]
             /\ t.reached = s.reached /\ t.curBlock = s.curBlock /\ t.visited = s.visited
             /\ t.tempUse = s.tempUse
             /\ Range(s.curTemp) \subseteq Range(t.curTemp)
             /\ rank(v) > rank(s.cond[x]) /\ s.cond[x] # Idf => x \in Range(t.curTemp)
  <1> DEFINE stm == prog.stms[u[1]][u[2]]
             t == doDef(s, u[1], stm)
  <1>1. At(u) = stm /\ visit(s, u) = t /\ u[1] \in Blocks /\ u[2] \in DOMAIN prog.stms[u[1]]
    BY AtPlace DEF At, visit
  <1>2. /\ t \in Tables
        /\ s.cond[stm.dst] = Idf => t = s
        /\ s.cond[stm.dst] # Idf => t.cond[stm.dst] = defValue(s, u[1], stm)
        /\ \A y \in Temp \ {stm.dst} :
             t.cond[y] = s.cond[y]
               \/ (s.cond[y] = Udf /\ y \in Range(stm.args) /\ stm.op \in {"copy", "plus"})
        /\ t.reached = s.reached /\ t.curBlock = s.curBlock /\ t.visited = s.visited
        /\ t.tempUse = s.tempUse
        /\ Range(s.curTemp) \subseteq Range(t.curTemp)
        /\ rank(defValue(s, u[1], stm)) > rank(s.cond[stm.dst]) /\ s.cond[stm.dst] # Idf =>
             stm.dst \in Range(t.curTemp)
    BY <1>1, DoDef
  <1>3. ASSUME NEW y \in Temp, y \in Range(stm.args), stm.op \in {"copy", "plus"} PROVE s.cond[y] # Udf
    <2>1. PICK i \in DOMAIN stm.args : y = stm.args[i] BY <1>3 DEF Range
    <2>2. value(s, u, i) # Udf /\ value(s, u, i) = s.cond[y]
      <3>1. i \in DOMAIN At(u).args /\ At(u).args[i] = y /\ At(u).op # "phi" BY <1>1, <1>3, <2>1
      <3> QED BY <3>1, OperandValue
    <2> QED BY <2>2
  <1> HIDE DEF stm, t
  <1>4. \A y \in Temp \ {stm.dst} : t.cond[y] = s.cond[y]
    BY <1>2, <1>3
  <1> QED
    BY <1>1, <1>2, <1>4

(* A statement that has been visited keeps its value or becomes            *)
(* indefinite; the first visit changes no operand that counts.             *)
LEMMA Changes ==
  ASSUME WellFormed(prog), Strict(prog), NEW s \in Tables, NEW u \in Stms,
         NEW G, NEW R, NEW R1, NEW W, Good(s, G, R, W), Closed(G, R), R \subseteq R1,
         \A i \in DOMAIN At(u).args :
           <<u, i>> \in R1 /\ At(u).args[i] \in Temp => At(u).args[i] \in Assigned(G),
         At(u).op # "phi" => \A i \in DOMAIN At(u).args : <<u, i>> \in R1,
         At(u).op = "phi" =>
           /\ \E i \in DOMAIN At(u).args : <<u, i>> \in R1
           /\ \A i \in DOMAIN At(u).args :
                <<u, i>> \in R1 => u[1] \in s.visited /\ prog.pred[u[1]][i] \in s.reached
  PROVE  LET v == defValue(s, u[1], At(u))
             t == visit(s, u)
         IN  /\ \A i \in DOMAIN At(u).args : <<u, i>> \in R1 => value(s, u, i) # Udf
             /\ u \in G => /\ s.cond[At(u).dst] # Udf
                           /\ s.cond[At(u).dst] # Idf => v \in {s.cond[At(u).dst], Idf}
             /\ \A x \in Temp \cup Val : (x \in Temp => x \in Assigned(G)) =>
                  \/ valueOf(t.cond, x) = valueOf(s.cond, x)
                  \/ valueOf(t.cond, x) = Idf /\ x \in Range(t.curTemp)
  <1> DEFINE v == defValue(s, u[1], At(u))
             t == visit(s, u)
             d == At(u).dst
  <1>1. ASSUME NEW i \in DOMAIN At(u).args, <<u, i>> \in R1 PROVE value(s, u, i) \in Val \cup {Idf} /\ value(s, u, i) # Udf
    <2>1. At(u).args[i] \in Temp \cup Val BY AtPlace
    <2>2. Valued(s, G) BY DEF Good
    <2>3. valueOf(s.cond, At(u).args[i]) \in Val \cup {Idf} BY <1>1, <2>1, <2>2, AssignedValue
    <2>4. Udf \notin Val \cup {Idf} BY ValuesAssumption
    <2> QED BY <2>3, <2>4 DEF value
  <1>2. /\ v \in Val \cup {Idf}
        /\ At(u).op \in {"copy", "phi"} /\ v \in Val =>
             \A i \in DOMAIN At(u).args : <<u, i>> \in R1 => value(s, u, i) = v
        /\ At(u).op = "plus" =>
             \/ /\ value(s, u, 1) \in Val /\ value(s, u, 2) \in Val
                /\ v = plus(value(s, u, 1), value(s, u, 2))
             \/ v = Idf
        /\ At(u).op = "plus" /\ (value(s, u, 1) = Idf \/ value(s, u, 2) = Idf) => v = Idf
        /\ At(u).op = "call" => v = Idf
    BY <1>1, NewValue
  <1>3. d \in Temp /\ At(u).op \in {"phi", "copy", "plus", "call"}
        /\ (At(u).op = "copy" => DOMAIN At(u).args = {1})
    BY AtPlace
  <1>4. s.cond \in [Temp -> Val \cup {Udf, Idf}] /\ Udf \notin Val /\ Idf \notin Val /\ Udf # Idf
    BY ValuesAssumption DEF Tables
  <1>5. ASSUME u \in G PROVE s.cond[d] # Udf /\ (s.cond[d] # Idf => v \in {s.cond[d], Idf})
    <2>1. s.cond[d] # Udf BY <1>5 DEF Good, Valued
    <2>2. ASSUME s.cond[d] \in Val, v \in Val PROVE v = s.cond[d]
      <3>1. AgreesAt(s, R, u) BY <1>5, <2>2 DEF Good, Agrees
      <3>2. ASSUME At(u).op \in {"copy", "phi"} PROVE v = s.cond[d]
        <4>1. PICK i \in DOMAIN At(u).args : <<u, i>> \in R
          <5>1. CASE At(u).op = "copy" BY <5>1, <1>3, <1>5 DEF Closed
          <5>2. CASE At(u).op = "phi" BY <5>2, <1>5 DEF Closed
          <5> QED BY <3>2, <5>1, <5>2
        <4>2. value(s, u, i) \in {s.cond[d], Idf} BY <3>1, <3>2, <4>1 DEF AgreesAt
        <4>3. value(s, u, i) = v
          <5>1. <<u, i>> \in R1 BY <4>1
          <5> QED BY <5>1, <1>2, <2>2, <3>2
        <4> QED BY <4>2, <4>3, <2>2, <1>4
      <3>3. ASSUME At(u).op = "plus" PROVE v = s.cond[d]
        <4> HIDE DEF v
        <4>1. v # Idf BY <2>2, <1>4
        <4>2. v = plus(value(s, u, 1), value(s, u, 2)) /\ value(s, u, 1) # Idf /\ value(s, u, 2) # Idf
          BY <1>2, <3>3, <4>1
        <4>3. s.cond[d] = plus(value(s, u, 1), value(s, u, 2)) BY <3>1, <3>3, <4>2 DEF AgreesAt
        <4> QED BY <4>2, <4>3
      <3>4. At(u).op # "call" BY <3>1 DEF AgreesAt
      <3> QED BY <3>2, <3>3, <3>4, <1>3
    <2>3. s.cond[d] \in Val \cup {Idf} BY <2>1, <1>3, <1>4
    <2> QED BY <2>1, <2>2, <2>3, <1>2
  <1>6. ASSUME NEW x \in Temp \cup Val, x \in Temp => x \in Assigned(G)
        PROVE  \/ valueOf(t.cond, x) = valueOf(s.cond, x)
               \/ valueOf(t.cond, x) = Idf /\ x \in Range(t.curTemp)
    <2>1. /\ s.cond[d] = Idf => t = s
          /\ s.cond[d] # Idf => t.cond[d] = v
          /\ \A y \in Temp \ {d} : t.cond[y] = s.cond[y]
          /\ rank(v) > rank(s.cond[d]) /\ s.cond[d] # Idf => d \in Range(t.curTemp)
      BY <1>1, StmStep
    <2> HIDE DEF t, v, d
    <2>2. CASE x \notin Temp \/ x # d
      BY <2>1, <2>2 DEF valueOf
    <2>3. CASE x \in Temp /\ x = d
      <3>1. PICK w \in G \cap Stms : At(w).dst = x BY <2>3, <1>6 DEF Assigned
      <3>2. w = u BY <3>1, <2>3, OneAssignment DEF d
      <3>3. s.cond[d] # Udf /\ (s.cond[d] # Idf => v \in {s.cond[d], Idf}) BY <1>5, <3>1, <3>2
      <3>4. valueOf(t.cond, x) = t.cond[d] /\ valueOf(s.cond, x) = s.cond[d] BY <2>3 DEF valueOf
      <3>5. CASE s.cond[d] = Idf BY <3>5, <2>1
      <3>6. CASE s.cond[d] # Idf /\ v = s.cond[d] BY <3>6, <2>1, <3>4
      <3>7. CASE s.cond[d] # Idf /\ v = Idf
        <4>1. s.cond[d] \in Val BY <3>3, <3>7, <1>3, <1>4
        <4>2. rank(s.cond[d]) = 1 /\ rank(v) = 2 BY <4>1, <3>7, Numbers
        <4>3. rank(v) > rank(s.cond[d]) BY <4>2
        <4> QED BY <2>1, <2>3, <3>4, <3>7, <4>3
      <3> QED BY <3>3, <3>5, <3>6, <3>7
    <2> QED BY <2>2, <2>3
  <1> HIDE DEF v, t, d
  <1> QED
    BY <1>1, <1>5, <1>6 DEF v, t, d

(* A visit to a statement that is known, or becomes known by it. *)
LEMMA VisitStm ==
  ASSUME WellFormed(prog), Strict(prog), NEW s \in Tables, NEW u \in Stms,
         NEW G, NEW R, NEW R1, NEW W, NEW W1, Good(s, G, R, W), Closed(G, R), R \subseteq R1,
         \A w \in Stms \ {u} : \A i \in DOMAIN At(w).args : <<w, i>> \in R1 => <<w, i>> \in R,
         W \subseteq W1 \cup {u},
         \A i \in DOMAIN At(u).args :
           <<u, i>> \in R1 /\ At(u).args[i] \in Temp => At(u).args[i] \in Assigned(G),
         At(u).op # "phi" => \A i \in DOMAIN At(u).args : <<u, i>> \in R1,
         At(u).op = "phi" =>
           /\ \E i \in DOMAIN At(u).args : <<u, i>> \in R1
           /\ \A i \in DOMAIN At(u).args :
                <<u, i>> \in R1 => u[1] \in s.visited /\ prog.pred[u[1]][i] \in s.reached
  PROVE  Good(visit(s, u), G \cup {u}, R1, W1) /\ Closed(G \cup {u}, R1)
  <1> DEFINE v == defValue(s, u[1], At(u))
             t == visit(s, u)
             d == At(u).dst
             G1 == G \cup {u}
  <1>1. /\ \A i \in DOMAIN At(u).args : <<u, i>> \in R1 => value(s, u, i) # Udf
        /\ u \in G => s.cond[d] # Udf /\ (s.cond[d] # Idf => v \in {s.cond[d], Idf})
        /\ \A x \in Temp \cup Val : (x \in Temp => x \in Assigned(G)) =>
             \/ valueOf(t.cond, x) = valueOf(s.cond, x)
             \/ valueOf(t.cond, x) = Idf /\ x \in Range(t.curTemp)
    BY Changes
  <1>2. /\ t \in Tables
        /\ s.cond[d] = Idf => t = s
        /\ s.cond[d] # Idf => t.cond[d] = v
        /\ \A y \in Temp \ {d} : t.cond[y] = s.cond[y]
        /\ t.reached = s.reached /\ t.visited = s.visited
        /\ Range(s.curTemp) \subseteq Range(t.curTemp)
    BY <1>1, StmStep
  <1>3. /\ v \in Val \cup {Idf}
        /\ At(u).op \in {"copy", "phi"} /\ v \in Val =>
             \A i \in DOMAIN At(u).args : <<u, i>> \in R1 => value(s, u, i) = v
        /\ At(u).op = "plus" =>
             \/ /\ value(s, u, 1) \in Val /\ value(s, u, 2) \in Val
                /\ v = plus(value(s, u, 1), value(s, u, 2))
             \/ v = Idf
        /\ At(u).op = "call" => v = Idf
    BY <1>1, NewValue
  <1>4. \A w \in G1 \cap Stms : w = u \/ (w # u /\ w \in G /\ At(w).dst \in Temp /\ At(w).dst # d)
    BY AtPlace, OneAssignment
  <1>5. Valued(s, G) /\ Agrees(s, G, R) /\ Queued(s, G, R, W) /\ JumpsAgree(s, G)
        /\ JumpsQueued(s, G, W) /\ Counted(s, G, R)
    BY DEF Good
  <1>6. Udf \notin Val /\ Idf \notin Val /\ Udf # Idf /\ d \in Temp
    BY ValuesAssumption, AtPlace
  <1>7. Assigned(G) \subseteq Assigned(G1)
    BY DEF Assigned
  <1>8. Closed(G1, R1)
    <2>1. ASSUME NEW w \in G1 \cap Stms
          PROVE  /\ \A i \in DOMAIN At(w).args :
                      <<w, i>> \in R1 /\ At(w).args[i] \in Temp => At(w).args[i] \in Assigned(G)
                 /\ At(w).op # "phi" => \A i \in DOMAIN At(w).args : <<w, i>> \in R1
                 /\ At(w).op = "phi" => \E i \in DOMAIN At(w).args : <<w, i>> \in R1
      <3>1. CASE w = u BY <3>1
      <3>2. CASE w # u /\ w \in G
        <4>1. w \in G \cap Stms /\ w \in Stms \ {u} BY <3>2
        <4> QED BY <4>1 DEF Closed
      <3> QED BY <1>4, <3>1, <3>2
    <2>2. ASSUME NEW w \in G1 \ Stms, NEW x \in operands(w[1]), x \in Temp PROVE x \in Assigned(G)
      <3>1. w \in G \ Stms OBVIOUS
      <3> QED BY <2>2, <3>1 DEF Closed
    <2>3. G1 \subseteq Places
      BY AtPlace DEF Closed
    <2> QED BY <1>7, <2>1, <2>2, <2>3 DEF Closed
  <1> HIDE DEF t, v, d
  <1>9. ASSUME NEW w \in G1 \cap Stms, NEW i \in DOMAIN At(w).args, <<w, i>> \in R1
        PROVE  \/ value(t, w, i) = value(s, w, i)
               \/ value(t, w, i) = Idf /\ At(w).args[i] \in Range(t.curTemp)
    <2>1. At(w).args[i] \in Temp \cup Val BY AtPlace
    <2>2. At(w).args[i] \in Temp => At(w).args[i] \in Assigned(G)
      <3>1. CASE w = u BY <3>1, <1>9
      <3>2. CASE w # u /\ w \in G
        <4>1. w \in G \cap Stms /\ w \in Stms \ {u} BY <3>2
        <4> QED BY <4>1, <1>9 DEF Closed
      <3> QED BY <1>4, <3>1, <3>2
    <2> QED BY <1>1, <2>1, <2>2 DEF value
  <1>10. ASSUME NEW w \in G \ Stms, NEW x \in operands(w[1])
         PROVE  \/ valueOf(t.cond, x) = valueOf(s.cond, x)
                \/ valueOf(t.cond, x) = Idf /\ x \in Range(t.curTemp)
    <2>0. w[1] \in Blocks BY DEF Closed, Places
    <2>1. x \in Temp \cup Val BY <1>10, <2>0, Code DEF operands
    <2>2. x \in Temp => x \in Assigned(G) BY <1>10 DEF Closed
    <2> QED BY <1>1, <2>1, <2>2
  <1>11. Valued(t, G1)
    <2> SUFFICES ASSUME NEW w \in Stms
                 PROVE  IF w \in G1 THEN t.cond[At(w).dst] # Udf
                        ELSE t.cond[At(w).dst] = Udf \/ (At(w).op = "phi" /\ t.cond[At(w).dst] = 0)
      BY DEF Valued
    <2>1. CASE w = u
      <3>1. At(w).dst = d BY <2>1 DEF d
      <3>2. t.cond[d] # Udf BY <1>2, <1>3, <1>6
      <3> QED BY <2>1, <3>1, <3>2
    <2>2. CASE w # u
      <3>1. At(w).dst \in Temp /\ At(w).dst # d BY <2>2, AtPlace, OneAssignment DEF d
      <3>2. t.cond[At(w).dst] = s.cond[At(w).dst] /\ (w \in G1 <=> w \in G) BY <1>2, <2>2, <3>1
      <3> QED BY <1>5, <3>2 DEF Valued
    <2> QED BY <2>1, <2>2
  <1>12. ASSUME NEW w \in G1 \cap Stms, t.cond[At(w).dst] \in Val, w # u
         PROVE  w \in G \cap Stms /\ s.cond[At(w).dst] = t.cond[At(w).dst] /\ AgreesAt(s, R, w)
    <2>1. w \in G \cap Stms /\ s.cond[At(w).dst] = t.cond[At(w).dst] BY <1>2, <1>4, <1>12
    <2> QED BY <2>1, <1>5, <1>12 DEF Agrees
  <1>13. ASSUME u \in G1 \cap Stms, t.cond[d] \in Val
         PROVE  t.cond[d] = v /\ v \in Val /\ s.cond[d] # Idf
    BY <1>2, <1>6, <1>13
  <1>14. Agrees(t, G1, R1)
    <2> SUFFICES ASSUME NEW w \in G1 \cap Stms, t.cond[At(w).dst] \in Val PROVE AgreesAt(t, R1, w)
      BY DEF Agrees
    <2>1. ASSUME At(w).op \in {"copy", "phi"}, NEW i \in DOMAIN At(w).args, <<w, i>> \in R1
          PROVE  value(t, w, i) \in {t.cond[At(w).dst], Idf}
      <3>1. value(t, w, i) \in {value(s, w, i), Idf} BY <1>9, <2>1
      <3>2. CASE w = u
        <4>1. value(s, w, i) = v BY <1>3, <1>13, <2>1, <3>2 DEF d
        <4> QED BY <1>13, <3>1, <3>2, <4>1 DEF d
      <3>3. CASE w # u
        <4>1. AgreesAt(s, R, w) /\ s.cond[At(w).dst] = t.cond[At(w).dst] BY <1>12, <3>3
        <4>2. <<w, i>> \in R BY <2>1, <3>3
        <4>3. value(s, w, i) \in {s.cond[At(w).dst], Idf} BY <2>1, <4>1, <4>2 DEF AgreesAt
        <4> QED BY <3>1, <4>1, <4>3
      <3> QED BY <3>2, <3>3
    <2>2. ASSUME At(w).op = "plus"
          PROVE  \/ /\ value(t, w, 1) \in Val /\ value(t, w, 2) \in Val
                    /\ t.cond[At(w).dst] = plus(value(t, w, 1), value(t, w, 2))
                 \/ value(t, w, 1) = Idf \/ value(t, w, 2) = Idf
      <3>1. 1 \in DOMAIN At(w).args /\ 2 \in DOMAIN At(w).args BY <2>2, AtPlace
      <3>2. <<w, 1>> \in R1 /\ <<w, 2>> \in R1 BY <1>8, <2>2, <3>1 DEF Closed
      <3>3. value(t, w, 1) \in {value(s, w, 1), Idf} /\ value(t, w, 2) \in {value(s, w, 2), Idf}
        BY <1>9, <3>1, <3>2
      <3>4. \/ /\ value(s, w, 1) \in Val /\ value(s, w, 2) \in Val
               /\ t.cond[At(w).dst] = plus(value(s, w, 1), value(s, w, 2))
            \/ value(s, w, 1) = Idf \/ value(s, w, 2) = Idf
        <4>1. CASE w = u BY <1>3, <1>6, <1>13, <2>2, <4>1 DEF d
        <4>2. CASE w # u BY <1>12, <2>2, <4>2 DEF AgreesAt
        <4> QED BY <4>1, <4>2
      <3> QED BY <3>3, <3>4
    <2>3. At(w).op # "call"
      <3>1. CASE w = u BY <1>3, <1>6, <1>13, <3>1 DEF d
      <3>2. CASE w # u BY <1>12, <3>2 DEF AgreesAt
      <3> QED BY <3>1, <3>2
    <2> QED BY <2>1, <2>2, <2>3 DEF AgreesAt
  <1>15. Queued(t, G1, R1, W1)
    <2> SUFFICES ASSUME NEW w \in G1 \cap Stms, t.cond[At(w).dst] \in Val, NEW i \in DOMAIN At(w).args,
                        <<w, i>> \in R1, value(t, w, i) = Idf, At(w).args[i] \notin Range(t.curTemp)
                 PROVE  w \in W1
      BY DEF Queued
    <2>1. value(s, w, i) = Idf BY <1>9
    <2>2. CASE w = u
      <3>1. v \in Val /\ i \in DOMAIN At(u).args /\ <<u, i>> \in R1 /\ value(s, u, i) = Idf
        BY <1>13, <2>1, <2>2 DEF d
      <3>2. At(u).op \notin {"copy", "phi"} BY <1>3, <1>6, <3>1
      <3>3. At(u).op # "call" BY <1>3, <1>6, <3>1
      <3>4. CASE At(u).op = "plus"
        <4>1. i = 1 \/ i = 2 BY <3>1, <3>4, AtPlace
        <4>2. value(s, u, 1) # Idf /\ value(s, u, 2) # Idf BY <1>3, <1>6, <3>1, <3>4
        <4> QED BY <3>1, <4>1, <4>2
      <3> QED BY <3>2, <3>3, <3>4, AtPlace
    <2>3. CASE w # u
      <3>1. w \in G \cap Stms /\ s.cond[At(w).dst] \in Val /\ <<w, i>> \in R BY <1>12, <2>3
      <3>2. At(w).args[i] \in Range(s.curTemp) \/ w \in W BY <1>5, <2>1, <3>1 DEF Queued
      <3> QED BY <1>2, <2>3, <3>2
    <2> QED BY <2>2, <2>3
  <1>16. JumpsAgree(t, G1)
    <2> SUFFICES ASSUME NEW w \in G1 \ Stms PROVE JumpAgrees(t, w[1])
      BY DEF JumpsAgree
    <2>1. w \in G \ Stms OBVIOUS
    <2>2. JumpAgrees(s, w[1]) BY <1>5, <2>1 DEF JumpsAgree
    <2>3. CASE \E x \in operands(w[1]) : valueOf(t.cond, x) = Idf
      BY <1>2, <2>2, <2>3 DEF JumpAgrees
    <2>4. CASE \A x \in operands(w[1]) : valueOf(t.cond, x) = valueOf(s.cond, x)
      <3>1. chosen(t, w[1]) = chosen(s, w[1]) BY <2>4 DEF chosen, operands
      <3>2. \A x \in operands(w[1]) : isConst(t.cond, x) <=> isConst(s.cond, x) BY <2>4 DEF isConst
      <3> QED BY <1>2, <2>2, <2>4, <3>1, <3>2 DEF JumpAgrees
    <2> QED BY <1>10, <2>1, <2>3, <2>4
  <1>17. JumpsQueued(t, G1, W1)
    <2> SUFFICES ASSUME NEW w \in G1 \ Stms, prog.jump[w[1]].op \in {"lt", "eq"}, NEW x \in operands(w[1]),
                        valueOf(t.cond, x) = Idf, ~ succ(w[1]) \subseteq t.reached, x \notin Range(t.curTemp)
                 PROVE  w \in W1
      BY DEF JumpsQueued
    <2>1. w \in G \ Stms OBVIOUS
    <2>2. valueOf(s.cond, x) = Idf BY <1>10, <2>1
    <2>3. succ(w[1]) \subseteq s.reached \/ x \in Range(s.curTemp) \/ w \in W
      BY <1>5, <2>1, <2>2 DEF JumpsQueued
    <2> QED BY <1>2, <2>1, <2>3
  <1>18. Counted(t, G1, R1)
    <2> SUFFICES ASSUME NEW w \in G1 \cap Stms, At(w).op = "phi", NEW i \in DOMAIN At(w).args, <<w, i>> \in R1
                 PROVE  w[1] \in s.visited /\ prog.pred[w[1]][i] \in s.reached
      BY <1>2 DEF Counted
    <2>1. CASE w = u BY <2>1
    <2>2. CASE w # u /\ w \in G
      <3>1. <<w, i>> \in R BY <2>2
      <3> QED BY <1>5, <2>2, <3>1 DEF Counted
    <2> QED BY <1>4, <2>1, <2>2
  <1> QED
    BY <1>8, <1>11, <1>14, <1>15, <1>16, <1>17, <1>18 DEF Good, t

(* A visit to a jump: what it may lead to is reached. *)
LEMMA VisitJump ==
  ASSUME WellFormed(prog), NEW s \in Tables, NEW u \in Places \ Stms,
         NEW G, NEW R, NEW W, NEW W1, Good(s, G, R, W), Closed(G, R), W \subseteq W1 \cup {u},
         \A x \in operands(u[1]) : x \in Temp => x \in Assigned(G)
  PROVE  /\ Good(visit(s, u), G \cup {u}, R, W1) /\ Closed(G \cup {u}, R)
         /\ visit(s, u).cond = s.cond
  <1> DEFINE b == u[1]
             t == visit(s, u)
             G1 == G \cup {u}
  <1>1. b \in Blocks /\ t = doJump(s, b)
    BY DEF Places, Stms, visit
  <1>2. /\ t \in Tables /\ t.curTemp = s.curTemp /\ t.visited = s.visited
        /\ \A x \in Temp : t.cond[x] = s.cond[x] \/ (s.cond[x] = Udf /\ x \in operands(b))
        /\ s.reached \subseteq t.reached
        /\ prog.jump[b].op = "always" => succ(b) \subseteq t.reached
        /\ prog.jump[b].op \in {"lt", "eq"} =>
             \/ succ(b) \subseteq t.reached
             \/ /\ \A x \in operands(b) : isConst(s.cond, x)
                /\ chosen(s, b) \in t.reached
    BY <1>1, DoJump
  <1> HIDE DEF t
  <1>3. \A x \in operands(b) : x \in Temp => s.cond[x] # Udf
    BY AssignedValue DEF Good
  <1>4. t.cond = s.cond
    <2>1. t.cond \in [Temp -> Val \cup {Udf, Idf}] /\ s.cond \in [Temp -> Val \cup {Udf, Idf}]
      BY <1>2 DEF Tables
    <2>2. \A x \in Temp : t.cond[x] = s.cond[x] BY <1>2, <1>3
    <2> QED BY <2>1, <2>2
  <1>5. Valued(s, G) /\ Agrees(s, G, R) /\ Queued(s, G, R, W) /\ JumpsAgree(s, G)
        /\ JumpsQueued(s, G, W) /\ Counted(s, G, R)
    BY DEF Good
  <1>6. G1 \cap Stms = G \cap Stms /\ u \notin Stms
    OBVIOUS
  <1>7. \A c, w, i : /\ value(t, w, i) = value(s, w, i) /\ chosen(t, c) = chosen(s, c)
                     /\ \A x : isConst(t.cond, x) <=> isConst(s.cond, x)
    BY <1>4 DEF value, chosen
  <1>8. Assigned(G1) = Assigned(G)
    BY <1>6 DEF Assigned
  <1>9. Closed(G1, R)
    <2>1. G1 \subseteq Places BY DEF Closed
    <2>2. \A w \in G1 \cap Stms :
            /\ \A i \in DOMAIN At(w).args :
                 <<w, i>> \in R /\ At(w).args[i] \in Temp => At(w).args[i] \in Assigned(G1)
            /\ At(w).op # "phi" => \A i \in DOMAIN At(w).args : <<w, i>> \in R
            /\ At(w).op = "phi" => \E i \in DOMAIN At(w).args : <<w, i>> \in R
      BY <1>6, <1>8 DEF Closed
    <2>3. \A w \in G1 \ Stms : \A x \in operands(w[1]) : x \in Temp => x \in Assigned(G1)
      BY <1>8 DEF Closed
    <2> QED BY <2>1, <2>2, <2>3 DEF Closed
  <1>10. Valued(t, G1)
    BY <1>4, <1>5, <1>6 DEF Valued
  <1>11. Agrees(t, G1, R)
    <2> SUFFICES ASSUME NEW w \in G1 \cap Stms, t.cond[At(w).dst] \in Val PROVE AgreesAt(t, R, w)
      BY DEF Agrees
    <2>1. AgreesAt(s, R, w) BY <1>4, <1>5, <1>6 DEF Agrees
    <2> QED BY <1>4, <1>7, <2>1 DEF AgreesAt
  <1>12. Queued(t, G1, R, W1)
    BY <1>2, <1>4, <1>5, <1>6, <1>7 DEF Queued
  <1>13. JumpsAgree(t, G1)
    <2> SUFFICES ASSUME NEW w \in G1 \ Stms PROVE JumpAgrees(t, w[1])
      BY DEF JumpsAgree
    <2>1. CASE w = u
      BY <1>2, <1>7, <2>1 DEF JumpAgrees
    <2>2. CASE w \in G
      <3>1. JumpAgrees(s, w[1]) BY <1>5, <2>2 DEF JumpsAgree
      <3> QED BY <1>2, <1>4, <1>7, <3>1 DEF JumpAgrees
    <2> QED BY <2>1, <2>2
  <1>14. JumpsQueued(t, G1, W1)
    <2> SUFFICES ASSUME NEW w \in G1 \ Stms, prog.jump[w[1]].op \in {"lt", "eq"}, NEW x \in operands(w[1]),
                        valueOf(s.cond, x) = Idf
                 PROVE  succ(w[1]) \subseteq t.reached \/ x \in Range(s.curTemp) \/ w \in W1
      BY <1>2, <1>4 DEF JumpsQueued
    <2>1. CASE w = u
      <3>1. ~ isConst(s.cond, x) BY Numbers DEF isConst
      <3> QED BY <1>2, <2>1, <3>1
    <2>2. CASE w \in G /\ w # u
      BY <1>2, <1>5, <2>2 DEF JumpsQueued
    <2> QED BY <2>1, <2>2
  <1>15. Counted(t, G1, R)
    BY <1>2, <1>5, <1>6 DEF Counted
  <1> QED
    BY <1>4, <1>9, <1>10, <1>11, <1>12, <1>13, <1>14, <1>15 DEF Good, t

(* A phi function whose block was not visited is made 0: no operand that   *)
(* counts is changed.                                                      *)
LEMMA VisitUnknownPhi ==
  ASSUME WellFormed(prog), Strict(prog), NEW s \in Tables, NEW u \in Stms, At(u).op = "phi",
         NEW G, NEW R, NEW W, Good(s, G, R, W), Closed(G, R), u \notin G, u[1] \notin s.visited
  PROVE  Good(visit(s, u), G, R, W)
  <1> DEFINE v == defValue(s, u[1], At(u))
             t == visit(s, u)
             d == At(u).dst
  <1>1. v = 0
    <2>1. v = phiValue(s, root, At(u).args) BY DEF defValue
    <2>2. DOMAIN prog.pred[root] = {} BY AtPlace, Code
    <2>3. known(s, root, At(u).args) = {} BY <2>2 DEF known
    <2>4. phiValue(s, root, At(u).args) = 0 BY <2>2, <2>3, PhiValue
    <2> QED BY <2>1, <2>4
  <1>2. /\ t \in Tables
        /\ s.cond[d] # Idf => t.cond[d] = v
        /\ \A y \in Temp \ {d} : t.cond[y] = s.cond[y]
        /\ t.reached = s.reached /\ t.visited = s.visited
        /\ Range(s.curTemp) \subseteq Range(t.curTemp)
    BY StmStep
  <1>3. Valued(s, G) /\ Agrees(s, G, R) /\ Queued(s, G, R, W) /\ JumpsAgree(s, G)
        /\ JumpsQueued(s, G, W) /\ Counted(s, G, R)
    BY DEF Good
  <1> HIDE DEF t, v, d
  <1>4. s.cond[d] # Idf /\ t.cond[d] = 0
    <2>1. s.cond[d] = Udf \/ s.cond[d] = 0 BY <1>3 DEF Valued, d
    <2>2. Udf # Idf /\ 0 # Idf BY ValuesAssumption, Numbers
    <2> QED BY <1>1, <1>2, <2>1, <2>2
  <1>5. \A w \in Stms \ {u} : At(w).dst \in Temp \ {d} /\ t.cond[At(w).dst] = s.cond[At(w).dst]
    BY <1>2, AtPlace, OneAssignment DEF d
  <1>6. ASSUME NEW x \in Temp \cup Val, x \in Temp => x \in Assigned(G)
        PROVE  valueOf(t.cond, x) = valueOf(s.cond, x)
    <2>1. ASSUME x \in Temp PROVE x # d
      <3>1. PICK w \in G \cap Stms : At(w).dst = x BY <1>6, <2>1 DEF Assigned
      <3> QED BY <1>5, <3>1
    <2> QED BY <1>2, <2>1 DEF valueOf
  <1>7. ASSUME NEW w \in G \cap Stms, NEW i \in DOMAIN At(w).args, <<w, i>> \in R
        PROVE  value(t, w, i) = value(s, w, i)
    <2>1. At(w).args[i] \in Temp \cup Val BY AtPlace
    <2>2. At(w).args[i] \in Temp => At(w).args[i] \in Assigned(G) BY <1>7 DEF Closed
    <2> QED BY <1>6, <2>1, <2>2 DEF value
  <1>8. ASSUME NEW w \in G \ Stms, NEW x \in operands(w[1])
        PROVE  valueOf(t.cond, x) = valueOf(s.cond, x)
    <2>0. w[1] \in Blocks BY DEF Closed, Places
    <2>1. x \in Temp \cup Val BY <1>8, <2>0, Code DEF operands
    <2>2. x \in Temp => x \in Assigned(G) BY <1>8 DEF Closed
    <2> QED BY <1>6, <2>1, <2>2
  <1>9. Valued(t, G)
    <2> SUFFICES ASSUME NEW w \in Stms
                 PROVE  IF w \in G THEN t.cond[At(w).dst] # Udf
                        ELSE t.cond[At(w).dst] = Udf \/ (At(w).op = "phi" /\ t.cond[At(w).dst] = 0)
      BY DEF Valued
    <2>1. CASE w = u BY <1>4, <2>1 DEF d
    <2>2. CASE w # u BY <1>3, <1>5, <2>2 DEF Valued
    <2> QED BY <2>1, <2>2
  <1>10. Agrees(t, G, R)
    <2> SUFFICES ASSUME NEW w \in G \cap Stms, t.cond[At(w).dst] \in Val PROVE AgreesAt(t, R, w)
      BY DEF Agrees
    <2>1. t.cond[At(w).dst] = s.cond[At(w).dst] BY <1>5
    <2>2. AgreesAt(s, R, w) BY <1>3, <2>1 DEF Agrees
    <2>3. ASSUME At(w).op = "plus" PROVE value(t, w, 1) = value(s, w, 1) /\ value(t, w, 2) = value(s, w, 2)
      <3>1. 1 \in DOMAIN At(w).args /\ 2 \in DOMAIN At(w).args BY <2>3, AtPlace
      <3>2. <<w, 1>> \in R /\ <<w, 2>> \in R BY <2>3, <3>1 DEF Closed
      <3> QED BY <1>7, <3>1, <3>2
    <2>4. \A i \in DOMAIN At(w).args : <<w, i>> \in R => value(t, w, i) = value(s, w, i) BY <1>7
    <2> QED BY <2>1, <2>2, <2>3, <2>4 DEF AgreesAt
  <1>11. Queued(t, G, R, W)
    <2> SUFFICES ASSUME NEW w \in G \cap Stms, t.cond[At(w).dst] \in Val, NEW i \in DOMAIN At(w).args,
                        <<w, i>> \in R, value(t, w, i) = Idf
                 PROVE  At(w).args[i] \in Range(t.curTemp) \/ w \in W
      BY DEF Queued
    <2>1. s.cond[At(w).dst] \in Val /\ value(s, w, i) = Idf BY <1>5, <1>7
    <2> QED BY <1>2, <1>3, <2>1 DEF Queued
  <1>12. JumpsAgree(t, G)
    <2> SUFFICES ASSUME NEW w \in G \ Stms PROVE JumpAgrees(t, w[1])
      BY DEF JumpsAgree
    <2>1. JumpAgrees(s, w[1]) BY <1>3 DEF JumpsAgree
    <2>2. \A x \in operands(w[1]) : valueOf(t.cond, x) = valueOf(s.cond, x) BY <1>8
    <2>3. chosen(t, w[1]) = chosen(s, w[1]) BY <2>2 DEF chosen, operands
    <2>4. \A x \in operands(w[1]) : isConst(t.cond, x) <=> isConst(s.cond, x) BY <2>2 DEF isConst
    <2> QED BY <1>2, <2>1, <2>2, <2>3, <2>4 DEF JumpAgrees
  <1>13. JumpsQueued(t, G, W)
    BY <1>2, <1>3, <1>8 DEF JumpsQueued
  <1>14. Counted(t, G, R)
    BY <1>2, <1>3 DEF Counted
  <1> QED
    BY <1>9, <1>10, <1>11, <1>12, <1>13, <1>14 DEF Good, t

-----------------------------------------------------------------------------
(* Blocks. *)

(* The places of the blocks V. *)
Within(V) == {u \in Places : u[1] \in V}

(* The operands of the statements of G, of a phi function those that come  *)
(* from the blocks V; and those that count once the blocks V were visited. *)
Incoming(G, V) ==
  UNION {{<<u, i>> : i \in {j \in DOMAIN At(u).args :
                             At(u).op = "phi" => prog.pred[u[1]][j] \in V}} : u \in G \cap Stms}

Counting(V) == Incoming(Within(V), V)

(* A reached block is visited or waits in the queue, once; it was reached  *)
(* from a visited block, and so through the blocks that dominate it.       *)
Frame(s) ==
  /\ s.reached = s.visited \cup Range(s.curBlock) /\ root \in s.reached
  /\ \A i, j \in 1..Len(s.curBlock) : s.curBlock[i] = s.curBlock[j] => i = j
  /\ Range(s.curBlock) \cap s.visited = {}
  /\ \A b \in s.reached \ {root} : Range(prog.pred[b]) \cap s.visited # {}
  /\ \A b \in s.reached : \A d \in Blocks \ {b} : Dominates(prog, d, b) => d \in s.visited

(* The places that use a temporary are noted when their block is visited.  *)
UsesNoted(s) ==
  \A t \in Temp :
    /\ \A u \in Within(s.visited) : t \in argsAt(u[1], u[2]) => u \in Range(s.tempUse[t])
    /\ \A u \in Range(s.tempUse[t]) : u[1] \in s.visited

LEMMA IncomingMember ==
  ASSUME NEW G, NEW V, NEW u, NEW i
  PROVE  <<u, i>> \in Incoming(G, V) <=>
           /\ u \in G \cap Stms /\ i \in DOMAIN At(u).args
           /\ At(u).op = "phi" => prog.pred[u[1]][i] \in V
  BY DEF Incoming

LEMMA IncomingPair ==
  ASSUME NEW G, NEW V, NEW r \in Incoming(G, V)
  PROVE  \E u \in G \cap Stms : \E i \in DOMAIN At(u).args :
           r = <<u, i>> /\ (At(u).op = "phi" => prog.pred[u[1]][i] \in V)
  <1>1. PICK u \in G \cap Stms :
          r \in {<<u, i>> : i \in {j \in DOMAIN At(u).args : At(u).op = "phi" => prog.pred[u[1]][j] \in V}}
    BY DEF Incoming
  <1> QED
    BY <1>1

LEMMA IncomingMore ==
  ASSUME NEW G, NEW V, NEW V1, V \subseteq V1
  PROVE  Incoming(G, V) \subseteq Incoming(G, V1)
  <1> SUFFICES ASSUME NEW r \in Incoming(G, V) PROVE r \in Incoming(G, V1)
    OBVIOUS
  <1>1. PICK u \in G \cap Stms : \E i \in DOMAIN At(u).args :
           r = <<u, i>> /\ (At(u).op = "phi" => prog.pred[u[1]][i] \in V)
    BY IncomingPair
  <1>2. PICK i \in DOMAIN At(u).args : r = <<u, i>> /\ (At(u).op = "phi" => prog.pred[u[1]][i] \in V)
    BY <1>1
  <1> QED
    BY <1>2, IncomingMember

LEMMA CountingMember ==
  ASSUME NEW V, NEW u, NEW i
  PROVE  <<u, i>> \in Counting(V) <=>
           /\ u \in Within(V) \cap Stms /\ i \in DOMAIN At(u).args
           /\ At(u).op = "phi" => prog.pred[u[1]][i] \in V
  BY IncomingMember DEF Counting

(* The blocks c comes after on every path are those b, from which c is     *)
(* reached, does, and b.                                                   *)
LEMMA DominatesSucc ==
  ASSUME WellFormed(prog), NEW b \in Blocks, NEW c \in succ(b), NEW d \in Blocks \ {c},
         Dominates(prog, d, c)
  PROVE  b \in Range(prog.pred[c]) /\ (d = b \/ Dominates(prog, d, b))
  <1>1. c \in Blocks
    BY Code
  <1>2. b \in Range(prog.pred[c])
    BY <1>1 DEF WellFormed, Blocks, succ
  <1>3. PICK region \in SUBSET DOMAIN prog.stms :
          /\ d \in region /\ c \in region
          /\ root \in region => d = root
          /\ \A a \in region \ {d} : Range(prog.pred[a]) \subseteq region
    BY DEF Dominates
  <1>4. b \in region
    BY <1>2, <1>3
  <1> QED
    BY <1>2, <1>3, <1>4 DEF Dominates

LEMMA VisitFrame ==
  ASSUME WellFormed(prog), NEW s \in Tables, NEW u \in Places, Frame(s),
         u \in Stms \/ u[1] \in s.visited
  PROVE  Frame(visit(s, u))
  <1> DEFINE t == visit(s, u)
             b == u[1]
  <1>1. b \in Blocks
    BY DEF Places
  <1>2. CASE u \in Stms
    <2>1. u[2] \in DOMAIN prog.stms[b] /\ t = doDef(s, b, prog.stms[b][u[2]]) BY <1>2 DEF Stms, visit
    <2>2. t.reached = s.reached /\ t.curBlock = s.curBlock /\ t.visited = s.visited
      BY <1>1, <2>1, DoDef
    <2> HIDE DEF t
    <2> QED BY <2>2 DEF Frame, t
  <1>3. CASE u \notin Stms
    <2>1. t = doJump(s, b) BY <1>3 DEF Stms, visit
    <2> HIDE DEF t, b
    <2>2. /\ t.visited = s.visited
          /\ s.reached \subseteq t.reached /\ t.reached \subseteq s.reached \cup succ(b)
          /\ Range(t.curBlock) = Range(s.curBlock) \cup (t.reached \ s.reached)
          /\ /\ \A i, j \in 1..Len(s.curBlock) : s.curBlock[i] = s.curBlock[j] => i = j
             /\ Range(s.curBlock) \subseteq s.reached
             => \A i, j \in 1..Len(t.curBlock) : t.curBlock[i] = t.curBlock[j] => i = j
      BY <1>1, <2>1, DoJump
    <2>3. b \in s.visited BY <1>3 DEF b
    <2>4. /\ s.reached = s.visited \cup Range(s.curBlock) /\ root \in s.reached
          /\ \A i, j \in 1..Len(s.curBlock) : s.curBlock[i] = s.curBlock[j] => i = j
          /\ Range(s.curBlock) \cap s.visited = {}
      BY DEF Frame
    <2>5. t.reached = t.visited \cup Range(t.curBlock) /\ root \in t.reached
          /\ Range(t.curBlock) \cap t.visited = {}
      BY <2>2, <2>4
    <2>6. \A i, j \in 1..Len(t.curBlock) : t.curBlock[i] = t.curBlock[j] => i = j
      BY <2>2, <2>4
    <2>7. ASSUME NEW c \in t.reached \ {root} PROVE Range(prog.pred[c]) \cap s.visited # {}
      <3>1. CASE c \in s.reached BY <3>1 DEF Frame
      <3>2. CASE c \in succ(b)
        <4>1. c \in Blocks BY <1>1, <3>2, Code
        <4>2. b \in Range(prog.pred[c]) BY <1>1, <3>2, <4>1 DEF WellFormed, Blocks, succ
        <4> QED BY <2>3, <4>2
      <3> QED BY <2>2, <3>1, <3>2
    <2>8. ASSUME NEW c \in t.reached, NEW d \in Blocks \ {c}, Dominates(prog, d, c) PROVE d \in s.visited
      <3>1. CASE c \in s.reached BY <2>8, <3>1 DEF Frame
      <3>2. CASE c \in succ(b)
        <4>1. d = b \/ Dominates(prog, d, b) BY <1>1, <2>8, <3>2, DominatesSucc
        <4>2. b \in s.reached BY <2>3, <2>4
        <4> QED BY <2>3, <4>1, <4>2 DEF Frame
      <3> QED BY <2>2, <3>1, <3>2
    <2> QED BY <2>2, <2>5, <2>6, <2>7, <2>8 DEF Frame, t
  <1> QED
    BY <1>2, <1>3

(* A temporary assigned before a place of a reached block is assigned by a *)
(* visited block, or earlier in the same.                                  *)
LEMMA Before ==
  ASSUME WellFormed(prog), NEW s, Frame(s), NEW b \in s.reached, NEW x \in Temp, NEW k,
         AssignedBefore(prog, x, b, k)
  PROVE  \E w \in Stms : At(w).dst = x /\ (w[1] \in s.visited \/ (w[1] = b /\ w[2] < k))
  <1>1. PICK d \in DOMAIN prog.stms : \E l \in DOMAIN prog.stms[d] :
          /\ prog.stms[d][l].dst = x
          /\ IF d = b THEN l < k ELSE Dominates(prog, d, b)
    BY DEF AssignedBefore
  <1>2. PICK l \in DOMAIN prog.stms[d] :
          /\ prog.stms[d][l].dst = x
          /\ IF d = b THEN l < k ELSE Dominates(prog, d, b)
    BY <1>1
  <1>3. d # b => d \in s.visited
    BY <1>2 DEF Frame, Blocks
  <1>4. <<d, l>> \in Stms
    <2>1. Len(prog.stms[d]) \in Nat /\ DOMAIN prog.stms[d] = 1..Len(prog.stms[d])
      BY Code DEF Blocks
    <2>2. l \in places(d) BY <2>1 DEF places
    <2> QED BY <2>2 DEF Stms, Places, Blocks
  <1>5. At(<<d, l>>).dst = x
    BY <1>2 DEF At
  <1> QED
    BY <1>2, <1>3, <1>4, <1>5

(* What Strict says of a place. *)
LEMMA OperandsBefore ==
  ASSUME WellFormed(prog), Strict(prog)
  PROVE  /\ \A u \in Stms : \A i \in DOMAIN At(u).args :
              /\ At(u).op # "phi" => AssignedBefore(prog, At(u).args[i], u[1], u[2])
              /\ At(u).op = "phi" =>
                   LET c == prog.pred[u[1]][i]
                   IN  AssignedBefore(prog, At(u).args[i], c, Len(prog.stms[c]) + 1)
         /\ \A b \in Blocks : \A x \in operands(b) : AssignedBefore(prog, x, b, Len(prog.stms[b]) + 1)
  <1>1. ASSUME NEW u \in Stms, NEW i \in DOMAIN At(u).args
        PROVE  /\ At(u).op # "phi" => AssignedBefore(prog, At(u).args[i], u[1], u[2])
               /\ At(u).op = "phi" =>
                    LET c == prog.pred[u[1]][i]
                    IN  AssignedBefore(prog, At(u).args[i], c, Len(prog.stms[c]) + 1)
    <2>1. u[1] \in DOMAIN prog.stms /\ u[2] \in DOMAIN prog.stms[u[1]]
          /\ (At(u).op = "phi" => DOMAIN At(u).args = DOMAIN prog.pred[u[1]])
      BY AtPlace DEF Blocks
    <2>2. IF At(u).op = "phi"
          THEN \A j \in DOMAIN prog.pred[u[1]] :
                 AssignedBefore(prog, At(u).args[j], prog.pred[u[1]][j], Len(prog.stms[prog.pred[u[1]][j]]) + 1)
          ELSE \A x \in Range(At(u).args) : AssignedBefore(prog, x, u[1], u[2])
      BY <2>1 DEF Strict, At
    <2>3. At(u).args[i] \in Range(At(u).args) BY DEF Range
    <2> QED BY <2>1, <2>2, <2>3
  <1>2. \A b \in Blocks : \A x \in operands(b) : AssignedBefore(prog, x, b, Len(prog.stms[b]) + 1)
    BY DEF Strict, operands, Blocks
  <1> QED
    BY <1>1, <1>2

LEMMA WithinAssigned ==
  ASSUME WellFormed(prog), NEW s, Frame(s), NEW b \in s.visited, NEW x \in Temp,
         AssignedBefore(prog, x, b, Len(prog.stms[b]) + 1)
  PROVE  x \in Assigned(Within(s.visited))
  <1>1. b \in s.reached
    BY DEF Frame
  <1>2. PICK w \in Stms : At(w).dst = x /\ (w[1] \in s.visited \/ (w[1] = b /\ w[2] < Len(prog.stms[b]) + 1))
    BY <1>1, Before
  <1>3. w \in Within(s.visited) \cap Stms
    BY <1>2 DEF Within, Stms
  <1> QED
    BY <1>2, <1>3 DEF Assigned

LEMMA ClosedVisited ==
  ASSUME WellFormed(prog), Strict(prog), NEW s \in Tables, Frame(s)
  PROVE  Closed(Within(s.visited), Counting(s.visited))
  <1> DEFINE V == s.visited
             G == Within(V)
             R == Counting(V)
  <1>1. G \subseteq Places
    BY DEF Within
  <1>2. V \subseteq s.reached /\ V \subseteq Blocks
    BY DEF Frame, Tables
  <1>3. ASSUME NEW u \in G \cap Stms, NEW i \in DOMAIN At(u).args, <<u, i>> \in R, At(u).args[i] \in Temp
        PROVE  At(u).args[i] \in Assigned(G)
    <2> DEFINE x == At(u).args[i]
    <2>1. u[1] \in V BY DEF Within
    <2>2. CASE At(u).op # "phi"
      <3>1. AssignedBefore(prog, x, u[1], u[2]) BY <2>2, OperandsBefore
      <3>2. PICK w \in Stms : At(w).dst = x /\ (w[1] \in V \/ (w[1] = u[1] /\ w[2] < u[2]))
        BY <1>2, <1>3, <2>1, <3>1, Before
      <3>3. w \in G \cap Stms BY <2>1, <3>2 DEF Within, Stms
      <3> QED BY <3>2, <3>3 DEF Assigned
    <2>3. CASE At(u).op = "phi"
      <3> DEFINE c == prog.pred[u[1]][i]
      <3>1. c \in V BY <1>3, <2>3, CountingMember
      <3>2. AssignedBefore(prog, x, c, Len(prog.stms[c]) + 1) BY <2>3, OperandsBefore
      <3> QED BY <1>3, <3>1, <3>2, WithinAssigned
    <2> QED BY <2>2, <2>3
  <1>4. ASSUME NEW u \in G \cap Stms, At(u).op # "phi", NEW i \in DOMAIN At(u).args PROVE <<u, i>> \in R
    BY <1>4, CountingMember
  <1>5. ASSUME NEW u \in G \cap Stms, At(u).op = "phi" PROVE \E i \in DOMAIN At(u).args : <<u, i>> \in R
    <2>1. u[1] \in V /\ u[1] # root /\ DOMAIN At(u).args = DOMAIN prog.pred[u[1]]
      BY <1>5, AtPlace DEF Within
    <2>2. Range(prog.pred[u[1]]) \cap V # {} BY <1>2, <2>1 DEF Frame
    <2>3. PICK i \in DOMAIN prog.pred[u[1]] : prog.pred[u[1]][i] \in V BY <2>2 DEF Range
    <2> QED BY <2>1, <2>3, CountingMember
  <1>6. ASSUME NEW u \in G \ Stms, NEW x \in operands(u[1]), x \in Temp PROVE x \in Assigned(G)
    <2>1. u[1] \in V BY DEF Within
    <2>2. AssignedBefore(prog, x, u[1], Len(prog.stms[u[1]]) + 1) BY <1>2, <2>1, OperandsBefore
    <2> QED BY <1>6, <2>1, <2>2, WithinAssigned
  <1> QED
    BY <1>1, <1>3, <1>4, <1>5, <1>6 DEF Closed

(* A visit to a place of a visited block. *)
LEMMA VisitKnown ==
  ASSUME WellFormed(prog), Strict(prog), NEW s \in Tables, Frame(s), NEW u \in Within(s.visited),
         NEW W, NEW W1, W \subseteq W1 \cup {u},
         Good(s, Within(s.visited), Counting(s.visited), W)
  PROVE  Good(visit(s, u), Within(s.visited), Counting(s.visited), W1)
  <1> DEFINE G == Within(s.visited)
             R == Counting(s.visited)
  <1>1. Closed(G, R)
    BY ClosedVisited
  <1>2. u \in Places /\ G \cup {u} = G
    BY DEF Within
  <1>3. CASE u \in Stms
    <2>1. u \in G \cap Stms BY <1>3
    <2>2. /\ \A i \in DOMAIN At(u).args :
               <<u, i>> \in R /\ At(u).args[i] \in Temp => At(u).args[i] \in Assigned(G)
          /\ At(u).op # "phi" => \A i \in DOMAIN At(u).args : <<u, i>> \in R
          /\ At(u).op = "phi" => \E i \in DOMAIN At(u).args : <<u, i>> \in R
      BY <1>1, <2>1 DEF Closed
    <2>3. At(u).op = "phi" => \A i \in DOMAIN At(u).args :
                <<u, i>> \in R => u[1] \in s.visited /\ prog.pred[u[1]][i] \in s.reached
      BY CountingMember DEF Within, Frame
    <2> HIDE DEF G, R
    <2>4. Good(visit(s, u), G \cup {u}, R, W1)
      BY <1>1, <1>3, <2>2, <2>3, VisitStm DEF G, R
    <2> QED BY <1>2, <2>4 DEF G, R
  <1>4. CASE u \notin Stms
    <2>1. \A x \in operands(u[1]) : x \in Temp => x \in Assigned(G) BY <1>1, <1>4 DEF Closed
    <2> HIDE DEF G, R
    <2>2. Good(visit(s, u), G \cup {u}, R, W1)
      BY <1>1, <1>2, <1>4, <2>1, VisitJump DEF G, R
    <2> QED BY <1>2, <2>2 DEF G, R
  <1> QED
    BY <1>3, <1>4

-----------------------------------------------------------------------------
(* The invariant. *)

MInv ==
  /\ Frame(table) /\ UsesNoted(table)
  /\ Good(table, Within(table.visited), Counting(table.visited), {})

(* The first of a queue is taken out. *)
LEMMA HeadTail ==
  ASSUME NEW A, NEW q \in Seq(A), q # << >>
  PROVE  /\ Head(q) \in A /\ Head(q) \in Range(q) /\ Range(q) = {Head(q)} \cup Range(Tail(q))
         /\ (\A i, j \in 1..Len(q) : q[i] = q[j] => i = j) =>
              /\ Head(q) \notin Range(Tail(q))
              /\ \A i, j \in 1..Len(Tail(q)) : Tail(q)[i] = Tail(q)[j] => i = j
  <1> DEFINE r == Tail(q)
             n == Len(q)
  <1>1. /\ n \in Nat /\ n # 0 /\ DOMAIN q = 1..n /\ Head(q) = q[1] /\ \A i \in 1..n : q[i] \in A
        /\ Len(r) = n - 1 /\ DOMAIN r = 1..(n - 1) /\ \A i \in 1..(n - 1) : r[i] = q[i + 1]
    OBVIOUS
  <1> HIDE DEF r, n
  <1>2. 1 \in 1..n
    BY <1>1
  <1>3. Range(r) \subseteq Range(q)
    <2> SUFFICES ASSUME NEW i \in 1..(n - 1) PROVE q[i + 1] \in Range(q)
      BY <1>1 DEF Range
    <2>1. i + 1 \in 1..n BY <1>1
    <2> QED BY <1>1, <2>1 DEF Range
  <1>4. ASSUME NEW i \in 1..n PROVE q[i] = q[1] \/ q[i] \in Range(r)
    <2>1. CASE i = 1 BY <2>1
    <2>2. CASE i # 1
      <3>1. i - 1 \in 1..(n - 1) /\ (i - 1) + 1 = i BY <1>1, <2>2
      <3>2. r[i - 1] = q[i] BY <1>1, <3>1
      <3> QED BY <1>1, <3>1, <3>2 DEF Range
    <2> QED BY <2>1, <2>2
  <1>5. Range(q) = {q[1]} \cup Range(r)
    BY <1>1, <1>2, <1>3, <1>4 DEF Range
  <1>6. ASSUME \A i, j \in 1..n : q[i] = q[j] => i = j
        PROVE  /\ q[1] \notin Range(r)
               /\ \A i, j \in 1..Len(r) : r[i] = r[j] => i = j
    <2>1. ASSUME NEW i \in 1..(n - 1) PROVE i + 1 \in 1..n /\ i + 1 # 1
      BY <1>1
    <2>2. \A i \in 1..(n - 1) : r[i] # q[1] BY <1>1, <1>2, <1>6, <2>1
    <2>3. ASSUME NEW i \in 1..(n - 1), NEW j \in 1..(n - 1), r[i] = r[j] PROVE i = j
      <3>1. i + 1 = j + 1 BY <1>1, <1>6, <2>1, <2>3
      <3> QED BY <3>1, <1>1
    <2> QED BY <1>1, <2>2, <2>3 DEF Range
  <1> QED
    BY <1>1, <1>2, <1>5, <1>6 DEF r, n

LEMMA TempMInv ==
  ASSUME IInv, Strict(prog), MInv, visitTemp
  PROVE  Frame(table') /\ UsesNoted(table')
         /\ Good(table', Within(table'.visited), Counting(table'.visited), {})
  <1> DEFINE t == Head(table.curTemp)
             us == table.tempUse[t]
             n == Len(us)
             V == table.visited
             G == Within(V)
             R == Counting(V)
             left(k) == {us[i] : i \in {j \in 1..n : k < j}}
             kept(k) == {x \in Tables : x.visited = V /\ x.tempUse = table.tempUse /\ Frame(x) /\ Good(x, G, R, left(k))}
             I == [k \in 0..n |-> kept(k)]
  <1>1. WellFormed(prog) /\ table \in Tables
    BY DEF IInv, TypeOK
  <1>2. /\ table.curTemp # << >> /\ t \in Temp
        /\ popped \in Tables /\ popped.cond = table.cond /\ popped.reached = table.reached
        /\ popped.curBlock = table.curBlock /\ popped.curTemp = Tail(table.curTemp)
        /\ popped.visited = V /\ popped.tempUse = table.tempUse
        /\ table' = visitAll(popped, us)
    BY VisitTemp
  <1>3. us \in Seq(Places) /\ n \in Nat /\ DOMAIN us = 1..n /\ \A i \in 1..n : us[i] \in Places
    BY <1>1, <1>2 DEF Tables
  <1>4. Range(table.curTemp) = {t} \cup Range(popped.curTemp)
    <2>1. table.curTemp \in Seq(Temp) BY <1>1 DEF Tables
    <2> QED BY <1>2, <2>1, HeadTail
  <1>5. \A i \in 1..n : us[i] \in Within(V)
    BY <1>2, <1>3 DEF MInv, UsesNoted, Within, Range
  <1>6. left(0) = Range(us)
    BY <1>3 DEF Range
  <1> HIDE DEF t, us, n, V, G, R
  <1>7. Frame(popped)
    BY <1>2 DEF MInv, Frame, V
  <1>8. Good(popped, G, R, left(0))
    <2>1. Good(table, G, R, {}) BY DEF MInv, G, R, V
    <2>2. \A u \in Within(V) : t \in argsAt(u[1], u[2]) => u \in left(0)
      BY <1>2, <1>6 DEF MInv, UsesNoted, us, V
    <2> HIDE DEF left
    <2>3. Valued(popped, G) /\ JumpsAgree(popped, G) /\ Counted(popped, G, R)
      BY <1>2, <2>1 DEF Good, Valued, JumpsAgree, JumpAgrees, chosen, Counted, V
    <2>4. Agrees(popped, G, R)
      BY <1>2, <2>1 DEF Good, Agrees, AgreesAt, value
    <2>5. Queued(popped, G, R, left(0))
      <3> SUFFICES ASSUME NEW u \in G \cap Stms, popped.cond[At(u).dst] \in Val, NEW i \in DOMAIN At(u).args,
                          <<u, i>> \in R, value(popped, u, i) = Idf
                   PROVE  At(u).args[i] \in Range(popped.curTemp) \/ u \in left(0)
        BY DEF Queued
      <3>1. At(u).args[i] \in Range(table.curTemp) BY <1>2, <2>1 DEF Good, Queued, value
      <3>2. ASSUME At(u).args[i] = t PROVE u \in left(0)
        <4>1. t \in argsAt(u[1], u[2]) BY <3>2 DEF argsAt, Stms, At, Range
        <4> QED BY <2>2, <4>1 DEF G
      <3> QED BY <1>4, <3>1, <3>2
    <2>6. JumpsQueued(popped, G, left(0))
      <3> SUFFICES ASSUME NEW u \in G \ Stms, prog.jump[u[1]].op \in {"lt", "eq"}, NEW x \in operands(u[1]),
                          valueOf(popped.cond, x) = Idf, ~ succ(u[1]) \subseteq popped.reached
                   PROVE  x \in Range(popped.curTemp) \/ u \in left(0)
        BY DEF JumpsQueued
      <3>1. x \in Range(table.curTemp) BY <1>2, <2>1 DEF Good, JumpsQueued
      <3>2. ASSUME x = t PROVE u \in left(0)
        <4>1. t \in argsAt(u[1], u[2]) BY <3>2 DEF argsAt, Stms, operands, G, Within
        <4> QED BY <2>2, <4>1 DEF G
      <3> QED BY <1>4, <3>1, <3>2
    <2> QED BY <2>3, <2>4, <2>5, <2>6 DEF Good
  <1>9. ASSUME NEW k \in 1..n, NEW x \in kept(k - 1) PROVE visit(x, us[k]) \in kept(k)
    <2>1. left(k - 1) \subseteq left(k) \cup {us[k]}
      <3> SUFFICES ASSUME NEW j \in 1..n, k - 1 < j PROVE j = k \/ k < j
        OBVIOUS
      <3> QED BY <1>3
    <2> DEFINE W == left(k - 1)
               W1 == left(k)
    <2>2. x \in Tables /\ x.visited = V /\ x.tempUse = table.tempUse /\ Frame(x) /\ Good(x, G, R, W)
      OBVIOUS
    <2>3. W \subseteq W1 \cup {us[k]} BY <2>1
    <2> HIDE DEF left, W, W1
    <2>4. us[k] \in Within(x.visited) /\ us[k] \in Places BY <1>3, <1>5, <2>2
    <2>5. Good(visit(x, us[k]), G, R, W1)
      BY <1>1, <2>2, <2>3, <2>4, VisitKnown DEF G, R
    <2>6. Frame(visit(x, us[k]))
      <3>1. us[k] \in Stms \/ us[k][1] \in x.visited BY <2>4 DEF Within
      <3> QED BY <1>1, <2>2, <2>4, <3>1, VisitFrame
    <2>7. visit(x, us[k]) \in Tables /\ visit(x, us[k]).visited = V /\ visit(x, us[k]).tempUse = table.tempUse
      BY <1>1, <2>2, <2>4, Visit DEF Falls
    <2> QED BY <2>5, <2>6, <2>7 DEF W1
  <1>10. popped \in kept(0)
    BY <1>2, <1>7, <1>8
  <1>11. \A k \in 0..n : I[k] = kept(k)
    OBVIOUS
  <1> HIDE DEF kept
  <1>12. /\ n = Len(us) /\ 0 \in 0..n /\ n \in 0..n
         /\ \A k \in 1..n : k \in 0..n /\ k - 1 \in 0..n
    BY <1>3 DEF n
  <1>13. popped \in I[0] /\ \A k \in 1..n : \A x \in I[k - 1] : visit(x, us[k]) \in I[k]
    BY <1>9, <1>10, <1>11, <1>12
  <1> HIDE DEF I
  <1>14. visitAll(popped, us) \in I[n]
    BY <1>3, <1>12, <1>13, VisitAll
  <1>15. table' \in kept(n)
    BY <1>2, <1>11, <1>12, <1>14
  <1>16. left(n) = {}
    BY <1>3
  <1>17. table'.visited = V /\ table'.tempUse = table.tempUse /\ Frame(table') /\ Good(table', G, R, {})
    BY <1>15, <1>16 DEF kept
  <1>18. UsesNoted(table')
    BY <1>17 DEF MInv, UsesNoted, V
  <1> QED
    BY <1>17, <1>18 DEF G, R

(* The first block of the queue, taken out, is visited. *)
LEMMA EnteredMInv ==
  ASSUME IInv, Strict(prog), MInv, NEW b \in Blocks, table.curBlock # << >>, b = Head(table.curBlock)
  PROVE  /\ b \in table.reached /\ b \notin table.visited
         /\ Frame(entered(b)) /\ UsesNoted(entered(b))
         /\ Good(entered(b), Within(table.visited), Counting(table.visited), {})
         /\ Closed(Within(table.visited), Counting(table.visited))
  <1> DEFINE s == entered(b)
             V == table.visited
             G == Within(V)
             R == Counting(V)
  <1>1. WellFormed(prog) /\ table \in Tables
    BY DEF IInv, TypeOK
  <1>2. /\ s \in Tables /\ s.cond = table.cond /\ s.reached = table.reached
        /\ s.curTemp = table.curTemp /\ s.curBlock = Tail(table.curBlock)
        /\ s.visited = V \cup {b}
        /\ \A t \in Temp : s.tempUse[t] = table.tempUse[t] \o usesIn(t, b)
    BY <1>1, Entered
  <1>3. Frame(table) /\ UsesNoted(table) /\ Good(table, G, R, {})
    BY DEF MInv
  <1>4. Closed(G, R)
    BY <1>1, <1>3, ClosedVisited
  <1> HIDE DEF s
  <1>5. /\ b \in Range(table.curBlock) /\ Range(table.curBlock) = {b} \cup Range(s.curBlock)
        /\ b \notin Range(s.curBlock)
        /\ \A i, j \in 1..Len(s.curBlock) : s.curBlock[i] = s.curBlock[j] => i = j
    <2>1. table.curBlock \in Seq(Blocks) BY <1>1 DEF Tables
    <2>2. \A i, j \in 1..Len(table.curBlock) : table.curBlock[i] = table.curBlock[j] => i = j
      BY <1>3 DEF Frame
    <2>3. /\ b \in Range(table.curBlock) /\ Range(table.curBlock) = {b} \cup Range(Tail(table.curBlock))
          /\ b \notin Range(Tail(table.curBlock))
          /\ \A i, j \in 1..Len(Tail(table.curBlock)) :
               Tail(table.curBlock)[i] = Tail(table.curBlock)[j] => i = j
      BY <2>1, <2>2, HeadTail
    <2> QED BY <1>2, <2>3
  <1> HIDE DEF G, R
  <1>6. b \in table.reached /\ b \notin V
    BY <1>3, <1>5 DEF Frame
  <1>7. Frame(s)
    <2>1. s.reached = s.visited \cup Range(s.curBlock) /\ root \in s.reached
          /\ Range(s.curBlock) \cap s.visited = {}
      BY <1>2, <1>3, <1>5 DEF Frame
    <2>2. \A c \in s.reached \ {root} : Range(prog.pred[c]) \cap s.visited # {}
      BY <1>2, <1>3 DEF Frame
    <2>3. \A c \in s.reached : \A d \in Blocks \ {c} : Dominates(prog, d, c) => d \in s.visited
      BY <1>2, <1>3 DEF Frame
    <2> QED BY <1>5, <2>1, <2>2, <2>3 DEF Frame
  <1>8. UsesNoted(s)
    <2> SUFFICES ASSUME NEW t \in Temp
                 PROVE  /\ \A u \in Within(s.visited) : t \in argsAt(u[1], u[2]) => u \in Range(s.tempUse[t])
                        /\ \A u \in Range(s.tempUse[t]) : u[1] \in s.visited
      BY DEF UsesNoted
    <2> DEFINE q == usesIn(t, b)
    <2>1. /\ q \in Seq(Places)
          /\ \A k \in places(b) : t \in argsAt(b, k) => \E i \in 1..Len(q) : q[i] = <<b, k>>
          /\ \A i \in 1..Len(q) : \E k \in places(b) : t \in argsAt(b, k) /\ q[i] = <<b, k>>
      BY <1>1, UsesIn
    <2>2. s.tempUse[t] = table.tempUse[t] \o q /\ table.tempUse[t] \in Seq(Places)
      BY <1>1, <1>2 DEF Tables
    <2> HIDE DEF q
    <2>3. Range(s.tempUse[t]) = Range(table.tempUse[t]) \cup Range(q)
      BY <2>1, <2>2, Concat
    <2>4. DOMAIN q = 1..Len(q) BY <2>1
    <2>5. ASSUME NEW u \in Within(s.visited), t \in argsAt(u[1], u[2]) PROVE u \in Range(s.tempUse[t])
      <3>1. CASE u[1] \in V
        <4>1. u \in Within(V) BY <3>1 DEF Within
        <4> QED BY <1>3, <2>3, <2>5, <4>1 DEF UsesNoted, V
      <3>2. CASE u[1] = b
        <4>1. u = <<b, u[2]>> /\ u[2] \in places(b) BY <3>2 DEF Within, Places
        <4>2. PICK i \in 1..Len(q) : q[i] = u BY <2>1, <2>5, <3>2, <4>1
        <4>3. u \in Range(q) BY <2>4, <4>2 DEF Range
        <4> QED BY <2>3, <4>3
      <3>3. u[1] \in V \cup {b} BY <1>2 DEF Within
      <3> QED BY <3>1, <3>2, <3>3
    <2>6. ASSUME NEW u \in Range(s.tempUse[t]) PROVE u[1] \in s.visited
      <3>1. CASE u \in Range(table.tempUse[t])
        BY <1>2, <1>3, <3>1 DEF UsesNoted
      <3>2. CASE u \in Range(q)
        <4>1. PICK i \in 1..Len(q) : u = q[i] BY <2>4, <3>2 DEF Range
        <4>2. u[1] = b BY <2>1, <4>1
        <4> QED BY <1>2, <4>2
      <3> QED BY <2>3, <3>1, <3>2
    <2> QED BY <2>5, <2>6
  <1>9. Good(s, G, R, {})
    <2>1. Valued(s, G) /\ JumpsAgree(s, G) /\ Counted(s, G, R)
      BY <1>2, <1>3 DEF Good, Valued, JumpsAgree, JumpAgrees, chosen, Counted
    <2>2. Agrees(s, G, R) /\ Queued(s, G, R, {}) /\ JumpsQueued(s, G, {})
      BY <1>2, <1>3 DEF Good, Agrees, AgreesAt, Queued, JumpsQueued, value
    <2> QED BY <2>1, <2>2 DEF Good
  <1> QED
    BY <1>4, <1>6, <1>7, <1>8, <1>9 DEF s, G, R

(* Then its own places: with each one more of them is known. *)
LEMMA OwnMInv ==
  ASSUME IInv, Strict(prog), MInv, NEW b \in Blocks, table.curBlock # << >>, b = Head(table.curBlock)
  PROVE  LET V == table.visited
             G == Within(V \cup {b})
             s == visitAll(entered(b), own(b))
         IN  /\ s \in Tables /\ s.visited = V \cup {b} /\ s.tempUse = entered(b).tempUse
             /\ Frame(s) /\ Good(s, G, Incoming(G, V), {}) /\ Closed(G, Incoming(G, V))
  <1> DEFINE V == table.visited
             us == own(b)
             n == Len(us)
             G(k) == Within(V) \cup {<<b, j>> : j \in 1..k}
             R(k) == Incoming(G(k), V)
             s0 == entered(b)
             kept(k) == {x \in Tables : /\ x.visited = V \cup {b} /\ x.tempUse = s0.tempUse /\ Frame(x)
                                        /\ Good(x, G(k), R(k), {}) /\ Closed(G(k), R(k))}
             I == [k \in 0..n |-> kept(k)]
  <1>1. WellFormed(prog) /\ table \in Tables /\ Frame(table)
    BY DEF IInv, TypeOK, MInv
  <1>2. s0 \in Tables /\ s0.visited = V \cup {b}
    BY <1>1, Entered
  <1>3. /\ b \in table.reached /\ b \notin V /\ Frame(s0)
        /\ Good(s0, Within(V), Counting(V), {}) /\ Closed(Within(V), Counting(V))
    BY EnteredMInv
  <1>4. /\ n \in Nat /\ n = Len(prog.stms[b]) + 1 /\ Len(prog.stms[b]) \in Nat
        /\ \A k \in 1..n : us[k] = <<b, k>> /\ us[k] \in Places
        /\ DOMAIN prog.stms[b] = 1..Len(prog.stms[b])
    <2>1. /\ Len(us) = Len(prog.stms[b]) + 1 /\ Len(prog.stms[b]) \in Nat
          /\ \A k \in 1..Len(us) : us[k] = <<b, k>> /\ k \in places(b)
      BY <1>1, OwnPlaces
    <2>2. DOMAIN prog.stms[b] = 1..Len(prog.stms[b])
      BY <1>1, Code
    <2>3. \A k \in places(b) : <<b, k>> \in Places
      BY DEF Places
    <2>4. n \in Nat /\ n = Len(prog.stms[b]) + 1
      BY <2>1
    <2>5. \A k \in 1..n : us[k] = <<b, k>> /\ us[k] \in Places
      BY <2>1, <2>3 DEF n
    <2> HIDE DEF us, n
    <2> QED BY <2>1, <2>2, <2>4, <2>5
  <1> HIDE DEF us, n, s0, V
  <1>5. s0 \in kept(0)
    <2>1. G(0) = Within(V) OBVIOUS
    <2>2. R(0) = Counting(V) BY <2>1 DEF Counting
    <2> QED BY <1>2, <1>3, <2>1, <2>2
  <1>6. ASSUME NEW k \in 1..n, NEW x \in kept(k - 1) PROVE visit(x, us[k]) \in kept(k)
    <2> DEFINE u == us[k]
               G0 == G(k - 1)
               G1 == G(k)
               R0 == R(k - 1)
               R1 == R(k)
               t == visit(x, u)
    <2>1. x \in Tables /\ x.visited = V \cup {b} /\ x.tempUse = s0.tempUse /\ Frame(x)
          /\ Good(x, G0, R0, {}) /\ Closed(G0, R0)
      OBVIOUS
    <2>2. u = <<b, k>> /\ u \in Places /\ u[1] = b /\ u[2] = k BY <1>4
    <2>3. G1 = G0 \cup {u}
      <3>1. 1..k = 1..(k - 1) \cup {k} BY <1>4
      <3> QED BY <2>2, <3>1
    <2>4. t \in Tables /\ t.visited = V \cup {b} /\ t.tempUse = s0.tempUse
      BY <1>1, <2>1, <2>2, Visit DEF Falls
    <2>5. Frame(t)
      BY <1>1, <2>1, <2>2, VisitFrame
    <2>6. Within(V) \subseteq G0 /\ \A j \in 1..(k - 1) : <<b, j>> \in G0
      OBVIOUS
    <2> HIDE DEF kept, G, G0, G1, t, u
    <2>7. /\ \A w, i : <<w, i>> \in R0 <=> /\ w \in G0 \cap Stms /\ i \in DOMAIN At(w).args
                                           /\ At(w).op = "phi" => prog.pred[w[1]][i] \in V
          /\ \A w, i : <<w, i>> \in R1 <=> /\ w \in G1 \cap Stms /\ i \in DOMAIN At(w).args
                                           /\ At(w).op = "phi" => prog.pred[w[1]][i] \in V
      <3>1. R0 = Incoming(G0, V) /\ R1 = Incoming(G1, V) BY DEF G0, G1
      <3> HIDE DEF R0, R1
      <3> QED BY <3>1, IncomingMember
    <2> HIDE DEF R, R0, R1
    <2>8. ASSUME NEW y \in Temp, AssignedBefore(prog, y, b, k) PROVE y \in Assigned(G0)
      <3>1. PICK w \in Stms : At(w).dst = y /\ (w[1] \in V \/ (w[1] = b /\ w[2] < k))
        BY <1>1, <1>3, <2>8, Before DEF V
      <3>2. w \in Places /\ w = <<w[1], w[2]>> /\ w[2] \in DOMAIN prog.stms[w[1]] BY <1>1, AtPlace
      <3>3. CASE w[1] \in V
        <4>1. w \in Within(V) BY <3>2, <3>3 DEF Within
        <4> QED BY <2>6, <3>1, <4>1 DEF Assigned
      <3>4. CASE w[1] = b /\ w[2] < k
        <4>1. w[2] \in 1..(k - 1) BY <1>4, <3>2, <3>4
        <4>2. w \in G0 BY <2>6, <3>2, <3>4, <4>1
        <4> QED BY <3>1, <4>2 DEF Assigned
      <3> QED BY <3>1, <3>3, <3>4
    <2>9. CASE u \in Stms
      <3>1. R0 \subseteq R1
        <4> SUFFICES ASSUME NEW r \in R0 PROVE r \in R1
          OBVIOUS
        <4>1. PICK w \in G0 \cap Stms : \E i \in DOMAIN At(w).args : r = <<w, i>>
          BY DEF R0, R, Incoming, G0
        <4>2. PICK i \in DOMAIN At(w).args : r = <<w, i>> BY <4>1
        <4> QED BY <2>3, <2>7, <4>2
      <3>2. \A w \in Stms \ {u} : \A i \in DOMAIN At(w).args : <<w, i>> \in R1 => <<w, i>> \in R0
        BY <2>3, <2>7
      <3>3. ASSUME NEW i \in DOMAIN At(u).args, <<u, i>> \in R1, At(u).args[i] \in Temp
            PROVE  At(u).args[i] \in Assigned(G0)
        <4>1. CASE At(u).op # "phi"
          BY <1>1, <2>2, <2>8, <2>9, <3>3, <4>1, OperandsBefore
        <4>2. CASE At(u).op = "phi"
          <5> DEFINE c == prog.pred[u[1]][i]
          <5>1. c \in V BY <2>7, <3>3, <4>2
          <5>2. AssignedBefore(prog, At(u).args[i], c, Len(prog.stms[c]) + 1)
            BY <1>1, <2>9, <4>2, OperandsBefore
          <5>3. At(u).args[i] \in Assigned(Within(V)) BY <1>1, <3>3, <5>1, <5>2, WithinAssigned DEF V
          <5> QED BY <2>6, <5>3 DEF Assigned
        <4> QED BY <4>1, <4>2
      <3>4. At(u).op # "phi" => \A i \in DOMAIN At(u).args : <<u, i>> \in R1
        BY <2>3, <2>7, <2>9
      <3>5. ASSUME At(u).op = "phi" PROVE \E i \in DOMAIN At(u).args : <<u, i>> \in R1
        <4>1. b # root /\ DOMAIN At(u).args = DOMAIN prog.pred[b] BY <1>1, <2>2, <2>9, <3>5, AtPlace
        <4>2. Range(prog.pred[b]) \cap V # {} BY <1>1, <1>3, <4>1 DEF Frame, V
        <4>3. PICK i \in DOMAIN prog.pred[b] : prog.pred[b][i] \in V BY <4>2 DEF Range
        <4> QED BY <2>2, <2>3, <2>7, <2>9, <4>1, <4>3
      <3>6. ASSUME At(u).op = "phi", NEW i \in DOMAIN At(u).args, <<u, i>> \in R1
            PROVE  u[1] \in x.visited /\ prog.pred[u[1]][i] \in x.reached
        <4>1. prog.pred[u[1]][i] \in V BY <2>7, <3>6
        <4> QED BY <2>1, <2>2, <4>1 DEF Frame
      <3>7. Good(t, G0 \cup {u}, R1, {}) /\ Closed(G0 \cup {u}, R1)
        BY <1>1, <2>1, <2>9, <3>1, <3>2, <3>3, <3>4, <3>5, <3>6, VisitStm DEF t
      <3> QED BY <2>3, <2>4, <2>5, <3>7 DEF kept, t, u, G1, R1
    <2>10. CASE u \notin Stms
      <3>1. R1 = R0
        <4>1. G1 \cap Stms = G0 \cap Stms BY <2>3, <2>10
        <4> QED BY <4>1 DEF R1, R0, R, G1, G0, Incoming
      <3>2. k = Len(prog.stms[b]) + 1
        BY <1>4, <2>2, <2>10 DEF Stms
      <3>3. \A y \in operands(u[1]) : y \in Temp => y \in Assigned(G0)
        BY <1>1, <2>2, <2>8, <3>2, OperandsBefore
      <3>4. Good(t, G0 \cup {u}, R0, {}) /\ Closed(G0 \cup {u}, R0)
        BY <1>1, <2>1, <2>2, <2>10, <3>3, VisitJump DEF t
      <3> QED BY <2>3, <2>4, <2>5, <3>1, <3>4 DEF kept, t, u, G1, R1
    <2> QED BY <2>9, <2>10
  <1>7. \A k \in 0..n : I[k] = kept(k)
    OBVIOUS
  <1> HIDE DEF kept
  <1>8. n = Len(us) /\ 0 \in 0..n /\ n \in 0..n /\ \A k \in 1..n : k \in 0..n /\ k - 1 \in 0..n
    BY <1>4 DEF n
  <1>9. s0 \in I[0] /\ \A k \in 1..n : \A x \in I[k - 1] : visit(x, us[k]) \in I[k]
    BY <1>5, <1>6, <1>7, <1>8
  <1> HIDE DEF I
  <1>10. visitAll(s0, us) \in I[n]
    BY <1>4, <1>8, <1>9, VisitAll
  <1>11. visitAll(s0, us) \in kept(n)
    BY <1>7, <1>8, <1>10
  <1>12. G(n) = Within(V \cup {b})
    <2>1. \A w \in Within(V \cup {b}) : w \in Within(V) \/ (w = <<b, w[2]>> /\ w[2] \in 1..n)
      BY <1>4 DEF Within, Places, places
    <2>2. \A j \in 1..n : <<b, j>> \in Within(V \cup {b}) BY <1>4 DEF Within
    <2>3. Within(V) \subseteq Within(V \cup {b}) BY DEF Within
    <2> QED BY <2>1, <2>2, <2>3
  <1> QED
    BY <1>11, <1>12 DEF kept, s0, us, V

(* Then the phi functions behind it, whose operands that come from it      *)
(* count from then on.                                                     *)
LEMMA FeedMInv ==
  ASSUME WellFormed(prog), Strict(prog), NEW s \in Tables, NEW V, NEW b \in Blocks,
         s.visited = V \cup {b}, Frame(s),
         Good(s, Within(s.visited), Incoming(Within(s.visited), V), {}),
         Closed(Within(s.visited), Incoming(Within(s.visited), V)), NEW feed \in phiOrders(s, b)
  PROVE  LET t == visitAll(s, feed)
         IN  /\ t \in Tables /\ t.visited = s.visited /\ t.tempUse = s.tempUse
             /\ Frame(t) /\ Good(t, Within(t.visited), Counting(t.visited), {})
  <1> DEFINE n == Len(feed)
             V1 == V \cup {b}
             G == Within(V1)
             R(k) == Incoming(G, V) \cup {r \in Counting(V1) : \E j \in 1..k : r[1] = feed[j]}
             kept(k) == {x \in Tables : /\ x.visited = V1 /\ x.tempUse = s.tempUse
                                        /\ s.reached \subseteq x.reached /\ Frame(x)
                                        /\ Good(x, G, R(k), {}) /\ Closed(G, R(k))}
             I == [k \in 0..n |-> kept(k)]
  <1>1. /\ feed \in Seq(Places)
        /\ \A i \in 1..Len(feed) : \E m \in succ(b) \cap s.reached : \E k \in phis(m) : feed[i] = <<m, k>>
        /\ \A m \in succ(b) \cap s.reached : \A k \in phis(m) : \E i \in 1..Len(feed) : feed[i] = <<m, k>>
    BY PhiOrders
  <1>2. /\ n \in Nat
        /\ \A k \in 1..n : feed[k] \in Stms /\ At(feed[k]).op = "phi" /\ feed[k] \in Places
    <2>1. n \in Nat /\ \A k \in 1..n : feed[k] \in Places BY <1>1
    <2>2. ASSUME NEW k \in 1..n PROVE feed[k] \in Stms /\ At(feed[k]).op = "phi"
      <3>1. PICK m \in succ(b) \cap s.reached : \E l \in phis(m) : feed[k] = <<m, l>> BY <1>1
      <3>2. PICK l \in phis(m) : feed[k] = <<m, l>> BY <3>1
      <3> QED BY <2>1, <3>2 DEF phis, Stms, At
    <2> QED BY <2>1, <2>2
  <1>3. R(0) = Incoming(G, V)
    OBVIOUS
  <1>4. s \in kept(0)
    BY <1>3
  <1>5. ASSUME NEW k \in 1..n, NEW x \in kept(k - 1) PROVE visit(x, feed[k]) \in kept(k)
    <2> DEFINE u == feed[k]
               R0 == R(k - 1)
               R1 == R(k)
               t == visit(x, u)
    <2>1. x \in Tables /\ x.visited = V1 /\ x.tempUse = s.tempUse /\ s.reached \subseteq x.reached
          /\ Frame(x) /\ Good(x, G, R0, {}) /\ Closed(G, R0)
      OBVIOUS
    <2>2. u \in Stms /\ At(u).op = "phi" /\ u \in Places BY <1>2
    <2>3. t \in Tables /\ t.visited = V1 /\ t.tempUse = s.tempUse /\ s.reached \subseteq t.reached
      BY <2>1, <2>2, Visit DEF Falls
    <2>4. Frame(t)
      BY <2>1, <2>2, VisitFrame
    <2>5. R0 \subseteq R1
      <3>1. \A j \in 1..(k - 1) : j \in 1..k BY <1>2
      <3> QED BY <3>1
    <2>6. \A r \in R1 : r \in R0 \/ (r \in Counting(V1) /\ r[1] = u)
      <3>1. \A j \in 1..k : j \in 1..(k - 1) \/ j = k BY <1>2
      <3> QED BY <3>1
    <2>7. R1 \subseteq Counting(V1)
      <3>1. Incoming(G, V) \subseteq Incoming(G, V1) BY IncomingMore
      <3> QED BY <3>1 DEF Counting
    <2> HIDE DEF kept, R, R0, R1, t, u, G, V1
    <2>8. CASE u \in G
      <3>1. \A w \in Stms \ {u} : \A i \in DOMAIN At(w).args : <<w, i>> \in R1 => <<w, i>> \in R0
        BY <2>6
      <3>2. ASSUME NEW i \in DOMAIN At(u).args, <<u, i>> \in R1
            PROVE  prog.pred[u[1]][i] \in V1
        BY <2>2, <2>7, <3>2, CountingMember
      <3>3. ASSUME NEW i \in DOMAIN At(u).args, <<u, i>> \in R1, At(u).args[i] \in Temp
            PROVE  At(u).args[i] \in Assigned(G)
        <4> DEFINE c == prog.pred[u[1]][i]
        <4>1. c \in x.visited BY <2>1, <3>2, <3>3
        <4>2. AssignedBefore(prog, At(u).args[i], c, Len(prog.stms[c]) + 1)
          BY <2>2, OperandsBefore
        <4> QED BY <2>1, <3>3, <4>1, <4>2, WithinAssigned DEF G
      <3>4. \E i \in DOMAIN At(u).args : <<u, i>> \in R1
        BY <2>1, <2>2, <2>5, <2>8 DEF Closed
      <3>5. ASSUME NEW i \in DOMAIN At(u).args, <<u, i>> \in R1
            PROVE  u[1] \in x.visited /\ prog.pred[u[1]][i] \in x.reached
        BY <2>1, <2>8, <3>2, <3>5 DEF Frame, G, Within
      <3>6. Good(t, G \cup {u}, R1, {}) /\ Closed(G \cup {u}, R1)
        BY <2>1, <2>2, <2>5, <3>1, <3>3, <3>4, <3>5, VisitStm DEF t
      <3>7. G \cup {u} = G BY <2>8
      <3> QED BY <2>3, <2>4, <3>6, <3>7 DEF kept, t, u, R1
    <2>9. CASE u \notin G
      <3>1. R1 = R0
        <4>1. \A r \in Counting(V1) : r[1] # u
          BY <2>9 DEF Counting, Incoming, G
        <4> QED BY <2>5, <2>6, <4>1
      <3>2. u[1] \notin x.visited BY <2>1, <2>2, <2>9 DEF G, Within
      <3>3. Good(t, G, R0, {})
        BY <2>1, <2>2, <2>9, <3>2, VisitUnknownPhi DEF t
      <3> QED BY <2>1, <2>3, <2>4, <3>1, <3>3 DEF kept, t, u, R1
    <2> QED BY <2>8, <2>9
  <1>6. \A k \in 0..n : I[k] = kept(k)
    OBVIOUS
  <1> HIDE DEF kept
  <1>7. n = Len(feed) /\ 0 \in 0..n /\ n \in 0..n /\ \A k \in 1..n : k \in 0..n /\ k - 1 \in 0..n
    BY <1>2
  <1> HIDE DEF n
  <1>8. s \in I[0] /\ \A k \in 1..n : \A x \in I[k - 1] : visit(x, feed[k]) \in I[k]
    BY <1>4, <1>5, <1>6, <1>7
  <1> HIDE DEF I
  <1>9. visitAll(s, feed) \in I[n]
    BY <1>2, <1>7, <1>8, VisitAll
  <1>10. visitAll(s, feed) \in kept(n)
    BY <1>6, <1>7, <1>9
  <1>11. R(n) = Counting(V1)
    <2>1. Incoming(G, V) \subseteq Counting(V1) BY IncomingMore DEF Counting
    <2>2. ASSUME NEW u \in G \cap Stms, NEW i \in DOMAIN At(u).args,
                 At(u).op = "phi" => prog.pred[u[1]][i] \in V1
          PROVE  <<u, i>> \in Incoming(G, V) \/ \E j \in 1..n : u = feed[j]
      <3>1. CASE At(u).op = "phi" => prog.pred[u[1]][i] \in V
        BY <3>1, IncomingMember
      <3>2. CASE At(u).op = "phi" /\ prog.pred[u[1]][i] = b
        <4>1. u[1] \in Blocks /\ DOMAIN At(u).args = DOMAIN prog.pred[u[1]]
              /\ u[2] \in DOMAIN prog.stms[u[1]] /\ u = <<u[1], u[2]>>
          BY <3>2, AtPlace
        <4>2. b \in Range(prog.pred[u[1]]) BY <3>2, <4>1 DEF Range
        <4>3. u[1] \in succ(b) BY <4>1, <4>2 DEF WellFormed, Blocks, succ
        <4>4. u[1] \in s.reached BY DEF G, Within, Frame
        <4>5. u[2] \in phis(u[1]) BY <3>2, <4>1 DEF phis, At
        <4>6. \E j \in 1..n : feed[j] = <<u[1], u[2]>> BY <1>1, <4>3, <4>4, <4>5 DEF n
        <4> QED BY <4>1, <4>6
      <3> QED BY <2>2, <3>1, <3>2
    <2>3. ASSUME NEW r \in Counting(V1)
          PROVE  \E u \in G \cap Stms : \E i \in DOMAIN At(u).args :
                   r = <<u, i>> /\ (At(u).op = "phi" => prog.pred[u[1]][i] \in V1)
      BY IncomingPair DEF Counting
    <2>4. ASSUME NEW r \in Counting(V1) PROVE r \in Incoming(G, V) \/ \E j \in 1..n : r[1] = feed[j]
      <3>1. PICK u \in G \cap Stms : \E i \in DOMAIN At(u).args :
                   r = <<u, i>> /\ (At(u).op = "phi" => prog.pred[u[1]][i] \in V1)
        BY <2>3
      <3>2. PICK i \in DOMAIN At(u).args : r = <<u, i>> /\ (At(u).op = "phi" => prog.pred[u[1]][i] \in V1)
        BY <3>1
      <3>3. <<u, i>> \in Incoming(G, V) \/ \E j \in 1..n : u = feed[j] BY <2>2, <3>2
      <3>4. r[1] = u BY <3>2
      <3> QED BY <3>2, <3>3, <3>4
    <2> QED BY <2>1, <2>4
  <1> QED
    BY <1>10, <1>11 DEF kept

LEMMA BlockMInv ==
  ASSUME IInv, Strict(prog), MInv, visitBlock
  PROVE  Frame(table') /\ UsesNoted(table')
         /\ Good(table', Within(table'.visited), Counting(table'.visited), {})
  <1>1. WellFormed(prog) /\ table \in Tables
    BY DEF IInv, TypeOK
  <1>2. PICK b \in Blocks, s \in Tables : \E feed \in phiOrders(s, b) :
              /\ b = Head(table.curBlock) /\ entered(b) \in Tables
              /\ s = visitAll(entered(b), own(b))
              /\ table' = visitAll(s, feed) /\ table' \in Tables
    BY VisitBlock
  <1>3. PICK feed \in phiOrders(s, b) : table' = visitAll(s, feed)
    BY <1>2
  <1>4. table.curBlock # << >>
    BY DEF visitBlock
  <1> DEFINE V == table.visited
             G == Within(V \cup {b})
  <1>5. /\ s \in Tables /\ s.visited = V \cup {b} /\ s.tempUse = entered(b).tempUse
        /\ Frame(s) /\ Good(s, G, Incoming(G, V), {}) /\ Closed(G, Incoming(G, V))
    BY <1>2, <1>4, OwnMInv
  <1>6. /\ table'.visited = s.visited /\ table'.tempUse = s.tempUse
        /\ Frame(table') /\ Good(table', Within(table'.visited), Counting(table'.visited), {})
    BY <1>1, <1>3, <1>5, FeedMInv
  <1>7. UsesNoted(entered(b)) /\ entered(b).visited = V \cup {b}
    BY <1>1, <1>2, <1>4, EnteredMInv, Entered
  <1>8. UsesNoted(table')
    BY <1>5, <1>6, <1>7 DEF UsesNoted
  <1> QED
    BY <1>6, <1>8

(* The function does not change. *)
LEMMA PrimedMInv ==
  ASSUME prog' = prog, Frame(table'), UsesNoted(table'),
         Good(table', Within(table'.visited), Counting(table'.visited), {})
  PROVE  MInv'
  <1> DEFINE G == Within(table'.visited)
             R == Counting(table'.visited)
  <1>1. Blocks' = Blocks /\ Places' = Places
    BY DEF Blocks, Places, places
  <1>2. Stms' = Stms
    BY <1>1 DEF Stms
  <1>3. \A u : At(u)' = At(u)
    BY DEF At
  <1>4. Within(table.visited)' = G
    BY <1>1 DEF Within
  <1>5. Counting(table.visited)' = R
    BY <1>2, <1>3, <1>4 DEF Counting, Incoming
  <1>6. Frame(table)'
    BY <1>1 DEF Frame, Dominates
  <1>7. UsesNoted(table)'
    BY <1>4 DEF UsesNoted, argsAt
  <1>8. Good(table, Within(table.visited), Counting(table.visited), {})'
    <2> HIDE DEF G, R
    <2>2. Valued(table, Within(table.visited))'
      BY <1>2, <1>3, <1>4 DEF Good, Valued, G
    <2>3. Agrees(table, Within(table.visited), Counting(table.visited))'
      BY <1>2, <1>3, <1>4, <1>5 DEF Good, Agrees, AgreesAt, value, G, R
    <2>4. Queued(table, Within(table.visited), Counting(table.visited), {})'
      BY <1>2, <1>3, <1>4, <1>5 DEF Good, Queued, value, G, R
    <2>5. JumpsAgree(table, Within(table.visited))'
      BY <1>2, <1>4 DEF Good, JumpsAgree, JumpAgrees, succ, operands, chosen, G
    <2>6. JumpsQueued(table, Within(table.visited), {})'
      BY <1>2, <1>4 DEF Good, JumpsQueued, succ, operands, G
    <2>7. Counted(table, Within(table.visited), Counting(table.visited))'
      BY <1>2, <1>3, <1>4, <1>5 DEF Good, Counted, G, R
    <2> QED BY <2>2, <2>3, <2>4, <2>5, <2>6, <2>7 DEF Good
  <1> QED
    BY <1>6, <1>7, <1>8 DEF MInv

LEMMA InitMInv ==
  ASSUME Init, WellFormed(prog)
  PROVE  MInv
  <1>1. /\ table.reached = {root} /\ table.curBlock = <<root>> /\ table.curTemp = << >>
        /\ table.visited = {} /\ table.cond = [t \in Temp |-> Udf]
        /\ table.tempUse = [t \in Temp |-> << >>]
    BY DEF Init
  <1>2. Range(table.curBlock) = {root} /\ Len(table.curBlock) = 1
    BY <1>1 DEF Range
  <1>3. Within(table.visited) = {}
    BY <1>1 DEF Within
  <1>4. \A d \in Blocks \ {root} : ~ Dominates(prog, d, root)
    BY DEF Dominates
  <1>5. Frame(table)
    <2>1. \A i, j \in 1..1 : i = j OBVIOUS
    <2> QED BY <1>1, <1>2, <1>4, <2>1 DEF Frame
  <1>6. UsesNoted(table)
    <2>1. \A t \in Temp : Range(table.tempUse[t]) = {} BY <1>1 DEF Range
    <2> QED BY <1>3, <2>1 DEF UsesNoted
  <1>7. Good(table, {}, Counting(table.visited), {})
    <2>1. \A u \in Stms : table.cond[At(u).dst] = Udf BY <1>1, AtPlace
    <2> QED BY <2>1 DEF Good, Valued, Agrees, Queued, JumpsAgree, JumpsQueued, Counted
  <1> QED
    BY <1>3, <1>5, <1>6, <1>7 DEF MInv

-----------------------------------------------------------------------------
(* When the marking has ended. *)

Marked == table.curBlock = << >> /\ table.curTemp = << >>

(* A statement whose destination is a number. *)
LEMMA NumberOperands ==
  ASSUME IInv, Strict(prog), MInv, Marked, NEW u \in Stms, u[1] \in table.reached,
         table.cond[At(u).dst] \in Val
  PROVE  LET c == table.cond[At(u).dst]
         IN  /\ At(u).op = "copy" => value(table, u, 1) = c
             /\ At(u).op = "phi" => \A i \in DOMAIN At(u).args :
                  prog.pred[u[1]][i] \in table.reached => value(table, u, i) = c
             /\ At(u).op = "plus" => /\ value(table, u, 1) \in Val /\ value(table, u, 2) \in Val
                                     /\ c = plus(value(table, u, 1), value(table, u, 2))
             /\ At(u).op # "call"
  <1> DEFINE V == table.visited
             G == Within(V)
             R == Counting(V)
             c == table.cond[At(u).dst]
  <1>1. WellFormed(prog) /\ table \in Tables
    BY DEF IInv, TypeOK
  <1>2. Range(<< >>) = {} /\ table.reached = V
    <2>1. Range(<< >>) = {} BY DEF Range
    <2> QED BY <2>1 DEF Marked, MInv, Frame
  <1>3. u \in G \cap Stms
    BY <1>2 DEF Within, Stms
  <1>4. AgreesAt(table, R, u)
    BY <1>3 DEF MInv, Good, Agrees
  <1>5. \A i \in DOMAIN At(u).args : <<u, i>> \in R => value(table, u, i) # Idf
    BY <1>2, <1>3 DEF MInv, Good, Queued, Marked
  <1>6. \A i \in DOMAIN At(u).args :
          (At(u).op = "phi" => prog.pred[u[1]][i] \in table.reached) => <<u, i>> \in R
    BY <1>2, <1>3, CountingMember
  <1>7. ASSUME At(u).op = "copy" PROVE value(table, u, 1) = c
    <2>1. 1 \in DOMAIN At(u).args BY <1>1, <1>7, AtPlace
    <2>2. <<u, 1>> \in R BY <1>6, <1>7, <2>1
    <2> QED BY <1>4, <1>5, <1>7, <2>1, <2>2 DEF AgreesAt
  <1>8. ASSUME At(u).op = "phi", NEW i \in DOMAIN At(u).args, prog.pred[u[1]][i] \in table.reached
        PROVE  value(table, u, i) = c
    <2>1. <<u, i>> \in R BY <1>6, <1>8
    <2> QED BY <1>4, <1>5, <1>8, <2>1 DEF AgreesAt
  <1>9. ASSUME At(u).op = "plus"
        PROVE  /\ value(table, u, 1) \in Val /\ value(table, u, 2) \in Val
               /\ c = plus(value(table, u, 1), value(table, u, 2))
    <2>1. 1 \in DOMAIN At(u).args /\ 2 \in DOMAIN At(u).args BY <1>1, <1>9, AtPlace
    <2>2. <<u, 1>> \in R /\ <<u, 2>> \in R BY <1>6, <1>9, <2>1
    <2> QED BY <1>4, <1>5, <1>9, <2>1, <2>2 DEF AgreesAt
  <1>10. At(u).op # "call"
    BY <1>4 DEF AgreesAt
  <1> QED
    BY <1>7, <1>8, <1>9, <1>10

(* A number is what its statement makes of the values of its operands. *)
LEMMA NumberJustified ==
  ASSUME IInv, Strict(prog), MInv, Marked, NEW u \in Stms, u[1] \in table.reached,
         table.cond[At(u).dst] \in Val
  PROVE  defValue(table, u[1], At(u)) = table.cond[At(u).dst]
  <1> DEFINE c == table.cond[At(u).dst]
             stm == At(u)
             v == defValue(table, u[1], stm)
  <1>1. WellFormed(prog) /\ table \in Tables
    BY DEF IInv, TypeOK
  <1>2. /\ stm.op = "copy" => value(table, u, 1) = c
        /\ stm.op = "phi" => \A i \in DOMAIN stm.args :
             prog.pred[u[1]][i] \in table.reached => value(table, u, i) = c
        /\ stm.op = "plus" => /\ value(table, u, 1) \in Val /\ value(table, u, 2) \in Val
                              /\ c = plus(value(table, u, 1), value(table, u, 2))
        /\ stm.op # "call"
    BY NumberOperands
  <1>3. /\ u[1] \in Blocks /\ stm.op \in {"phi", "copy", "plus", "call"}
        /\ \A i \in DOMAIN stm.args : stm.args[i] \in Temp \cup Val
        /\ stm.op = "phi" => u[1] # root /\ DOMAIN stm.args = DOMAIN prog.pred[u[1]]
        /\ stm.op = "copy" => DOMAIN stm.args = {1}
        /\ stm.op = "plus" => DOMAIN stm.args = {1, 2}
    BY <1>1, AtPlace
  <1>4. Udf \notin Val /\ Idf \notin Val /\ table.cond \in [Temp -> Val \cup {Udf, Idf}]
    BY <1>1, ValuesAssumption DEF Tables
  <1>5. (u[1] \in table.visited /\ Range(prog.pred[u[1]]) \cap table.reached # {}) \/ u[1] = root
    <2>1. Range(<< >>) = {} BY DEF Range
    <2> QED BY <2>1 DEF Marked, MInv, Frame
  <1>6. CASE stm.op = "copy"
    <2>1. v = valueOf(settle(table.cond, Range(stm.args)), stm.args[1])
      BY <1>6 DEF defValue
    <2>2. value(table, u, 1) = valueOf(table.cond, stm.args[1]) /\ stm.args[1] \in Temp \cup Val
      BY <1>3, <1>6 DEF value
    <2>3. CASE stm.args[1] \in Temp
      <3>1. table.cond[stm.args[1]] # Udf /\ table.cond[stm.args[1]] = c
        BY <1>2, <1>4, <1>6, <2>2, <2>3, ValueOf
      <3>2. settle(table.cond, Range(stm.args))[stm.args[1]] = table.cond[stm.args[1]]
        BY <3>1, <1>4, <2>3, Settle
      <3> QED BY <2>1, <2>3, <3>1, <3>2 DEF valueOf
    <2>4. CASE stm.args[1] \notin Temp
      BY <1>2, <1>6, <2>1, <2>2, <2>4 DEF valueOf
    <2> QED BY <2>3, <2>4
  <1>7. CASE stm.op = "phi"
    <2> DEFINE K == known(table, u[1], stm.args)
    <2>1. v = phiValue(table, u[1], stm.args)
      BY <1>3, <1>5, <1>7 DEF defValue
    <2>2. \A i \in DOMAIN prog.pred[u[1]] : prog.pred[u[1]][i] \in table.reached => valueOf(table.cond, stm.args[i]) = c
      BY <1>2, <1>3, <1>7 DEF value
    <2>3. \E i \in DOMAIN prog.pred[u[1]] : prog.pred[u[1]][i] \in table.reached
      BY <1>3, <1>5, <1>7 DEF Range
    <2>4. K = {c}
      BY <1>4, <2>2, <2>3 DEF known
    <2>5. \A j \in DOMAIN prog.pred[u[1]] : valueOf(table.cond, stm.args[j]) \in Val \cup {Udf, Idf}
      BY <1>3, <1>4, <1>7, ValueOf
    <2> HIDE DEF stm
    <2>6. phiValue(table, u[1], stm.args) = c
      BY <2>4, <2>5, PhiValue DEF stm
    <2> QED BY <2>1, <2>6 DEF stm
  <1>8. CASE stm.op = "plus"
    <2>1. v = IF \A x \in Range(stm.args) : isConst(table.cond, x)
              THEN plus(valueOf(table.cond, stm.args[1]), valueOf(table.cond, stm.args[2])) ELSE Idf
      BY <1>8 DEF defValue
    <2>2. Range(stm.args) = {stm.args[1], stm.args[2]}
      BY <1>3, <1>8 DEF Range
    <2>3. \A x \in Range(stm.args) : isConst(table.cond, x)
      BY <1>2, <1>8, <2>2, Numbers DEF isConst, value
    <2> QED BY <1>2, <1>8, <2>1, <2>3 DEF value
  <1> QED
    BY <1>2, <1>3, <1>6, <1>7, <1>8

(* The temporaries agree with the constants. *)
Kept(e) ==
  e \in Envs /\ \A t \in Temp : table.cond[t] \in Val => e[t] \in {table.cond[t], Nothing}

LEMMA KeptNumber ==
  ASSUME table \in Tables, NEW e, Kept(e), NEW x \in Temp \cup Val, valueOf(table.cond, x) \in Val
  PROVE  numberOf(e, x) \in {valueOf(table.cond, x), Nothing}
  BY DEF Kept, numberOf, valueOf

LEMMA KeptPhis ==
  ASSUME IInv, Strict(prog), MInv, Marked, Kept(env), NEW b \in table.reached,
         NEW pos, b # root => pos \in DOMAIN prog.pred[b] /\ prog.pred[b][pos] \in table.reached
  PROVE  Kept(atPhis(b, pos))
  <1>1. WellFormed(prog) /\ table \in Tables /\ b \in Blocks
    BY DEF IInv, TypeOK, Tables
  <1>2. /\ atPhis(b, pos) \in Envs
        /\ \A t \in Temp :
             \/ (\A k \in phis(b) : prog.stms[b][k].dst # t) /\ atPhis(b, pos)[t] = env[t]
             \/ \E k \in phis(b) : /\ prog.stms[b][k].dst = t
                                   /\ pos \in DOMAIN prog.pred[b]
                                   /\ prog.stms[b][k].args[pos] \in Temp \cup Val
                                   /\ atPhis(b, pos)[t] = numberOf(env, prog.stms[b][k].args[pos])
    BY <1>1, AtPhis DEF Kept
  <1>3. ASSUME NEW t \in Temp, table.cond[t] \in Val
        PROVE  atPhis(b, pos)[t] \in {table.cond[t], Nothing}
    <2>1. CASE atPhis(b, pos)[t] = env[t]
      BY <1>3, <2>1 DEF Kept
    <2>2. CASE \E k \in phis(b) : /\ prog.stms[b][k].dst = t
                                  /\ pos \in DOMAIN prog.pred[b]
                                  /\ prog.stms[b][k].args[pos] \in Temp \cup Val
                                  /\ atPhis(b, pos)[t] = numberOf(env, prog.stms[b][k].args[pos])
      <3>1. PICK k \in phis(b) : /\ prog.stms[b][k].dst = t
                                 /\ pos \in DOMAIN prog.pred[b]
                                 /\ prog.stms[b][k].args[pos] \in Temp \cup Val
                                 /\ atPhis(b, pos)[t] = numberOf(env, prog.stms[b][k].args[pos])
        BY <2>2
      <3> DEFINE u == <<b, k>>
      <3>2. k \in DOMAIN prog.stms[b] /\ k \in places(b)
        <4>1. DOMAIN prog.stms[b] = 1..Len(prog.stms[b]) /\ Len(prog.stms[b]) \in Nat BY <1>1, Code
        <4>2. k \in DOMAIN prog.stms[b] BY DEF phis
        <4> QED BY <4>1, <4>2 DEF places
      <3>3. u \in Stms /\ u[1] = b /\ At(u) = prog.stms[b][k] /\ At(u).op = "phi"
        BY <1>1, <3>2 DEF Stms, Places, At, phis
      <3> HIDE DEF u
      <3>4. u[1] # root /\ DOMAIN At(u).args = DOMAIN prog.pred[u[1]]
        BY <1>1, <3>3, AtPlace
      <3>5. value(table, u, pos) = table.cond[t]
        BY <1>3, <3>1, <3>3, <3>4, NumberOperands
      <3>6. numberOf(env, At(u).args[pos]) \in {table.cond[t], Nothing}
        BY <1>1, <1>3, <3>1, <3>3, <3>5, KeptNumber DEF value
      <3> QED BY <3>1, <3>3, <3>6
    <2> QED BY <1>2, <2>1, <2>2
  <1> QED
    BY <1>2, <1>3 DEF Kept

LEMMA KeptStm ==
  ASSUME IInv, Strict(prog), MInv, Marked, NEW b \in table.reached, NEW k \in DOMAIN prog.stms[b],
         NEW e, Kept(e), NEW called \in Val
  PROVE  Kept(runStm(e, prog.stms[b][k], called))
  <1> DEFINE u == <<b, k>>
             f == runStm(e, prog.stms[b][k], called)
             d == At(u).dst
  <1>1. WellFormed(prog) /\ table \in Tables /\ b \in Blocks /\ e \in Envs
    BY DEF IInv, TypeOK, Tables, Kept
  <1>2. u \in Stms /\ u[1] = b /\ At(u) = prog.stms[b][k]
    <2>1. DOMAIN prog.stms[b] = 1..Len(prog.stms[b]) /\ Len(prog.stms[b]) \in Nat BY <1>1, Code
    <2>2. k \in places(b) BY <2>1 DEF places
    <2> QED BY <1>1, <2>2 DEF Stms, Places, At
  <1>3. /\ f \in Envs
        /\ At(u).op = "phi" => f = e
        /\ \A x \in Temp \ {d} : f[x] = e[x]
        /\ At(u).op = "copy" => f[d] = numberOf(e, At(u).args[1])
        /\ At(u).op = "plus" =>
             f[d] = IF Nothing \in {numberOf(e, At(u).args[1]), numberOf(e, At(u).args[2])} THEN Nothing
                    ELSE plus(numberOf(e, At(u).args[1]), numberOf(e, At(u).args[2]))
    <2>1. At(u) = prog.stms[b][k] BY <1>2
    <2> HIDE DEF u
    <2> QED BY <1>1, <2>1, RunStm
  <1> HIDE DEF f, u
  <1>4. ASSUME table.cond[d] \in Val PROVE f[d] \in {table.cond[d], Nothing}
    <2>1. /\ At(u).op = "copy" => value(table, u, 1) = table.cond[d]
          /\ At(u).op = "plus" => /\ value(table, u, 1) \in Val /\ value(table, u, 2) \in Val
                                  /\ table.cond[d] = plus(value(table, u, 1), value(table, u, 2))
          /\ At(u).op # "call"
      BY <1>2, <1>4, NumberOperands
    <2>2. /\ At(u).op \in {"phi", "copy", "plus", "call"} /\ d \in Temp
          /\ \A i \in DOMAIN At(u).args : At(u).args[i] \in Temp \cup Val
          /\ At(u).op = "copy" => DOMAIN At(u).args = {1}
          /\ At(u).op = "plus" => DOMAIN At(u).args = {1, 2}
      BY <1>1, <1>2, AtPlace
    <2>3. \A i \in DOMAIN At(u).args : value(table, u, i) \in Val =>
            numberOf(e, At(u).args[i]) \in {value(table, u, i), Nothing}
      BY <1>1, <2>2, KeptNumber DEF value
    <2> HIDE DEF d
    <2>4. CASE At(u).op = "phi" BY <1>3, <1>4, <2>2, <2>4 DEF Kept
    <2>5. CASE At(u).op = "copy" BY <1>3, <1>4, <2>1, <2>2, <2>3, <2>5
    <2>6. CASE At(u).op = "plus" BY <1>3, <1>4, <2>1, <2>2, <2>3, <2>6
    <2> QED BY <2>1, <2>2, <2>4, <2>5, <2>6
  <1>5. ASSUME NEW t \in Temp, table.cond[t] \in Val PROVE f[t] \in {table.cond[t], Nothing}
    <2>1. CASE t = d BY <1>4, <1>5, <2>1
    <2>2. CASE t # d BY <1>3, <1>5, <2>2 DEF Kept
    <2> QED BY <2>1, <2>2
  <1> QED
    BY <1>3, <1>5 DEF Kept, f

(* So the jump of a block goes where the marking went. *)
LEMMA KeptJump ==
  ASSUME IInv, Strict(prog), MInv, Marked, NEW b \in table.reached, NEW e, Kept(e), NEW c \in succ(b),
         prog.jump[b].op \in {"lt", "eq"} =>
           /\ numberOf(e, prog.jump[b].left) # Nothing /\ numberOf(e, prog.jump[b].right) # Nothing
           /\ c = IF evalRel(prog.jump[b].op, numberOf(e, prog.jump[b].left), numberOf(e, prog.jump[b].right))
                  THEN prog.jump[b].true ELSE prog.jump[b].false
  PROVE  c \in table.reached
  <1> DEFINE u == <<b, Len(prog.stms[b]) + 1>>
             V == table.visited
             j == prog.jump[b]
  <1>1. WellFormed(prog) /\ table \in Tables /\ b \in Blocks
    BY DEF IInv, TypeOK, Tables
  <1>2. Range(<< >>) = {} /\ table.reached = V
    <2>1. Range(<< >>) = {} BY DEF Range
    <2> QED BY <2>1 DEF Marked, MInv, Frame
  <1>3. u \in Within(V) \ Stms /\ u[1] = b
    <2>1. Len(prog.stms[b]) \in Nat /\ DOMAIN prog.stms[b] = 1..Len(prog.stms[b]) BY <1>1, Code
    <2>2. Len(prog.stms[b]) + 1 \in places(b) /\ Len(prog.stms[b]) + 1 \notin DOMAIN prog.stms[b]
      BY <2>1 DEF places
    <2> QED BY <1>1, <1>2, <2>2 DEF Within, Stms, Places
  <1> HIDE DEF u
  <1>4. JumpAgrees(table, b)
    BY <1>3 DEF MInv, Good, JumpsAgree
  <1>5. j.op \in {"lt", "eq"} => \A x \in operands(b) : valueOf(table.cond, x) = Idf => succ(b) \subseteq table.reached
    BY <1>2, <1>3 DEF MInv, Good, JumpsQueued, Marked
  <1>6. j.op \in {"lt", "eq", "always", "return"} /\ j.left \in Temp \cup Val /\ j.right \in Temp \cup Val
    BY <1>1, Code
  <1>7. CASE succ(b) \subseteq table.reached
    BY <1>7
  <1>8. CASE j.op \in {"lt", "eq"} /\ (\A x \in operands(b) : isConst(table.cond, x)) /\ chosen(table, b) \in table.reached
    <2>1. ASSUME NEW x \in operands(b) PROVE valueOf(table.cond, x) \in Val
      <3>1. table.cond \in [Temp -> Val \cup {Udf, Idf}] BY <1>1 DEF Tables
      <3>2. x \in Temp \cup Val BY <1>6 DEF operands
      <3>3. valueOf(table.cond, x) \in Val \cup {Udf, Idf} BY <3>1, <3>2, ValueOf
      <3>4. rank(valueOf(table.cond, x)) = 1 BY <1>8 DEF isConst
      <3> QED BY <3>3, <3>4, Numbers
    <2>2. ASSUME NEW x \in operands(b), numberOf(e, x) # Nothing PROVE numberOf(e, x) = valueOf(table.cond, x)
      <3>1. x \in Temp \cup Val BY <1>6 DEF operands
      <3> QED BY <1>1, <2>1, <2>2, <3>1, KeptNumber
    <2>3. j.left \in operands(b) /\ j.right \in operands(b) BY DEF operands
    <2>4. c = chosen(table, b) BY <1>8, <2>2, <2>3 DEF chosen
    <2> QED BY <1>8, <2>4
  <1>9. CASE j.op = "return"
    BY <1>9 DEF succ, leadsTo
  <1> QED
    BY <1>4, <1>5, <1>6, <1>7, <1>8, <1>9 DEF JumpAgrees

SInv ==
  /\ IInv /\ Strict(prog) /\ MInv
  /\ phase # "mark" => Marked
  /\ phase = "mark" => block = root /\ \A t \in Temp : env[t] = Nothing
  /\ block \in table.reached /\ from \in table.reached /\ Kept(env)

LEMMA InitSInv ==
  ASSUME \A p \in Programs : Strict(p)
  PROVE  Init => SInv
  <1> SUFFICES ASSUME Init PROVE SInv
    OBVIOUS
  <1>1. IInv
    BY InitIInv
  <1>2. Strict(prog)
    BY DEF Init
  <1>3. MInv
    BY <1>1, InitMInv DEF IInv
  <1>4. block = root /\ from = root /\ table.reached = {root} /\ phase = "mark"
    BY DEF Init
  <1>5. Kept(env) /\ \A t \in Temp : env[t] = Nothing
    BY DEF Init, Kept, Envs
  <1> QED
    BY <1>1, <1>2, <1>3, <1>4, <1>5 DEF SInv

LEMMA NextSInv == SInv /\ [Next]_vars => SInv'
  <1> SUFFICES ASSUME SInv, [Next]_vars PROVE SInv'
    OBVIOUS
  <1>1. IInv /\ Strict(prog) /\ MInv /\ IInv' /\ WellFormed(prog) /\ table \in Tables
    BY NextIInv DEF SInv, IInv, TypeOK
  <1>2. Frame(table) /\ UsesNoted(table) /\ Good(table, Within(table.visited), Counting(table.visited), {})
    BY <1>1 DEF MInv
  <1>3. ASSUME prog' = prog, MInv', phase = "mark", phase' = "mark", UNCHANGED <<block, from, env>>,
               table.reached \subseteq table'.reached
        PROVE  SInv'
    <2>1. Strict(prog)' BY <1>1, <1>3
    <2>2. block \in table'.reached /\ from \in table'.reached /\ env \in Envs /\ block = root
          /\ \A t \in Temp : env[t] = Nothing
      BY <1>3 DEF SInv, Kept
    <2>3. Kept(env)' BY <1>3, <2>2 DEF Kept, Envs
    <2> QED BY <1>1, <1>3, <2>1, <2>2, <2>3 DEF SInv
  <1>4. CASE visitBlock
    <2>1. phase = "mark" /\ UNCHANGED <<prog, loop, phase, block, from, env>> BY <1>1, <1>4, VisitBlock
    <2>2. MInv' BY <1>1, <1>4, <2>1, BlockMInv, PrimedMInv
    <2>3. table.reached \subseteq table'.reached
      <3>1. PICK b \in Blocks, s \in Tables :
              table.curBlock # << >> /\ Falls(entered(b), s) /\ Falls(s, table')
        BY <1>1, <1>4, VisitBlock
      <3>2. entered(b).reached = table.reached BY <1>1, <3>1, Entered
      <3> QED BY <3>1, <3>2 DEF Falls
    <2> QED BY <1>3, <2>1, <2>2, <2>3
  <1>5. CASE visitTemp
    <2>1. phase = "mark" /\ UNCHANGED <<prog, phase, block, from, env>>
          /\ popped.reached = table.reached /\ Falls(popped, table')
      BY <1>1, <1>5, VisitTemp
    <2>2. MInv' BY <1>1, <1>5, <2>1, TempMInv, PrimedMInv
    <2> QED BY <1>3, <2>1, <2>2 DEF Falls
  <1>6. CASE marked
    <2>1. UNCHANGED <<prog, table, loop, block, from, env>> /\ phase' = "run" /\ Marked
      BY <1>6 DEF marked, Marked
    <2>2. MInv' BY <1>2, <2>1, PrimedMInv
    <2>3. Strict(prog)' BY <1>1, <2>1
    <2>4. Kept(env)' BY <2>1 DEF SInv, Kept, Envs
    <2> QED BY <1>1, <2>1, <2>2, <2>3, <2>4 DEF SInv, Marked
  <1>7. ASSUME NEW called \in Val, run(called) PROVE SInv'
    <2>1. /\ phase = "run" /\ UNCHANGED <<prog, table, loop>> /\ from' = block
          /\ \E pos : /\ block # root => pos \in DOMAIN prog.pred[block] /\ prog.pred[block][pos] = from
                      /\ env' = runBlock(block, atPhis(block, pos), called)
          /\ env' \in Envs
      BY <1>1, <1>7, Run
    <2>2. Marked /\ block \in table.reached /\ from \in table.reached /\ Kept(env) /\ block \in Blocks
      BY <1>1, <2>1 DEF SInv, Tables
    <2>3. PICK pos : /\ block # root => pos \in DOMAIN prog.pred[block] /\ prog.pred[block][pos] = from
                     /\ env' = runBlock(block, atPhis(block, pos), called)
      BY <2>1
    <2>4. Kept(atPhis(block, pos))
      BY <1>1, <2>2, <2>3, KeptPhis
    <2>5. Kept(env')
      <3> DEFINE n == Len(prog.stms[block])
                 all == {e \in Envs : Kept(e)}
                 I == [k \in 0..n |-> all]
      <3>1. n \in Nat /\ DOMAIN prog.stms[block] = 1..n BY <1>1, <2>2, Code
      <3>2. \A e : Kept(e) => e \in Envs BY DEF Kept
      <3>3. \A k \in 1..n : \A x \in all : runStm(x, prog.stms[block][k], called) \in all
        BY <1>1, <2>2, <3>1, <3>2, KeptStm
      <3>4. \A k \in 0..n : I[k] = all OBVIOUS
      <3>5. atPhis(block, pos) \in all BY <2>4, <3>2
      <3> HIDE DEF I, n, all
      <3>6. n \in 0..n /\ atPhis(block, pos) \in I[0]
            /\ \A k \in 1..n : k - 1 \in 0..n /\ I[k - 1] = all /\ I[k] = all
        BY <3>1, <3>4, <3>5
      <3>7. runBlock(block, atPhis(block, pos), called) \in I[n]
        BY <3>1, <3>3, <3>6, RunBlock DEF n
      <3> QED BY <2>3, <3>4, <3>6, <3>7 DEF all
    <2>6. block' \in table.reached /\ phase' # "mark"
      <3>1. LET j == prog.jump[block]
            IN  \/ j.op = "return" /\ phase' = "returned" /\ block' = block
                \/ j.op = "always" /\ phase' = phase /\ block' = j.true /\ block' \in succ(block)
                \/ /\ j.op \in {"lt", "eq"} /\ phase' = phase /\ block' \in succ(block)
                   /\ numberOf(env', j.left) # Nothing /\ numberOf(env', j.right) # Nothing
                   /\ block' = IF evalRel(j.op, numberOf(env', j.left), numberOf(env', j.right))
                               THEN j.true ELSE j.false
        BY <1>1, <1>7, Run
      <3>2. CASE block' = block /\ phase' = "returned" BY <2>2, <3>2
      <3>3. CASE prog.jump[block].op = "always" /\ phase' = phase /\ block' \in succ(block)
        <4>1. block' \in table.reached BY <1>1, <2>2, <2>5, <3>3, KeptJump
        <4> QED BY <2>1, <3>3, <4>1
      <3>4. CASE /\ prog.jump[block].op \in {"lt", "eq"} /\ phase' = phase /\ block' \in succ(block)
                 /\ numberOf(env', prog.jump[block].left) # Nothing
                 /\ numberOf(env', prog.jump[block].right) # Nothing
                 /\ block' = IF evalRel(prog.jump[block].op, numberOf(env', prog.jump[block].left),
                                        numberOf(env', prog.jump[block].right))
                             THEN prog.jump[block].true ELSE prog.jump[block].false
        <4>1. block' \in table.reached BY <1>1, <2>2, <2>5, <3>4, KeptJump
        <4> QED BY <2>1, <3>4, <4>1
      <3> QED BY <3>1, <3>2, <3>3, <3>4
    <2>7. MInv' BY <1>2, <2>1, PrimedMInv
    <2>8. Strict(prog)' BY <1>1, <2>1
    <2>9. Kept(env)' BY <2>1, <2>5 DEF Kept, Envs
    <2> QED BY <1>1, <2>1, <2>2, <2>6, <2>7, <2>8, <2>9 DEF SInv, Marked
  <1>8. CASE UNCHANGED vars
    <2>1. UNCHANGED <<prog, table, phase, block, from, env>> BY <1>8 DEF vars
    <2>2. MInv' BY <1>2, <2>1, PrimedMInv
    <2>3. Strict(prog)' BY <1>1, <2>1
    <2>4. Kept(env)' BY <2>1 DEF SInv, Kept, Envs
    <2> QED BY <1>1, <2>1, <2>2, <2>3, <2>4 DEF SInv, Marked
  <1> QED
    BY <1>4, <1>5, <1>6, <1>7, <1>8 DEF Next

(* bfsMark leaves no constant that was computed from a guess since given   *)
(* up: at its end each is what its statement makes of its operands.        *)
THEOREM NoStaleGuess ==
  ASSUME \A p \in Programs : Strict(p)
  PROVE  Spec => []Justified
  <1>1. ASSUME SInv PROVE Justified
    <2> SUFFICES ASSUME phase # "mark", NEW b \in table.reached, NEW k \in DOMAIN prog.stms[b],
                        rank(table.cond[prog.stms[b][k].dst]) = 1
                 PROVE  defValue(table, b, prog.stms[b][k]) = table.cond[prog.stms[b][k].dst]
      BY DEF Justified
    <2>1. IInv /\ Strict(prog) /\ MInv /\ Marked /\ WellFormed(prog) /\ table \in Tables
      BY <1>1 DEF SInv, IInv, TypeOK
    <2>2. b \in Blocks /\ table.cond \in [Temp -> Val \cup {Udf, Idf}] BY <2>1 DEF Tables
    <2> DEFINE u == <<b, k>>
    <2>3. u \in Stms /\ u[1] = b /\ At(u) = prog.stms[b][k]
      <3>1. DOMAIN prog.stms[b] = 1..Len(prog.stms[b]) /\ Len(prog.stms[b]) \in Nat BY <2>1, <2>2, Code
      <3>2. k \in places(b) BY <3>1 DEF places
      <3> QED BY <2>2, <3>2 DEF Stms, Places, At
    <2> HIDE DEF u
    <2>4. table.cond[At(u).dst] \in Val
      <3>1. At(u).dst \in Temp BY <2>1, <2>3, AtPlace
      <3> QED BY <2>2, <2>3, <3>1, Numbers
    <2>5. defValue(table, u[1], At(u)) = table.cond[At(u).dst]
      BY <2>1, <2>3, <2>4, NumberJustified
    <2> QED BY <2>3, <2>5
  <1> QED
    BY <1>1, InitSInv, NextSInv, PTL DEF Spec

(* Whatever the calls return, run on numbers the function stays among the  *)
(* blocks that were reached, and a temporary found to be a constant holds  *)
(* no other number.                                                        *)
THEOREM ConstantsRight ==
  ASSUME \A p \in Programs : Strict(p)
  PROVE  Spec => []Sound
  <1>1. ASSUME SInv PROVE Sound
    <2>1. table \in Tables BY <1>1 DEF SInv, IInv, TypeOK
    <2>2. table.cond \in [Temp -> Val \cup {Udf, Idf}] BY <2>1 DEF Tables
    <2>3. \A t \in Temp : rank(table.cond[t]) = 1 => table.cond[t] \in Val BY <2>2, Numbers
    <2> QED BY <1>1, <2>3 DEF SInv, Sound, Kept
  <1> QED
    BY <1>1, InitSInv, NextSInv, PTL DEF Spec

=============================================================================
