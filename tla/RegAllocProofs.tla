--------------------------- MODULE RegAllocProofs ---------------------------
(***************************************************************************)
(* Proofs about RegAlloc: whatever placements Allocation allows, for any   *)
(* number of registers and of rounds that spill, the function in registers *)
(* and slots finds in the operands of every operation what the function in *)
(* temporaries found there.                                                *)
(***************************************************************************)
EXTENDS RegAlloc, FiniteSetTheorems, SequenceTheorems, TLAPS

-----------------------------------------------------------------------------
(* Numbers, sets and sequences. *)

LEMMA Least ==
  ASSUME NEW S \in SUBSET Nat, S # {}
  PROVE  \E m \in S : \A k \in S : m <= k
  <1> DEFINE below(s) == 0..(s - 1)
             F == {below(s) : s \in S}
  <1>1. PICK s0 \in S : TRUE
    OBVIOUS
  <1>2. \A s \in S : below(s) \in FiniteSubsetsOf(Nat)
    <2> SUFFICES ASSUME NEW s \in S PROVE below(s) \in SUBSET Nat /\ IsFiniteSet(below(s))
      BY DEF FiniteSubsetsOf
    <2>1. s \in Nat
      OBVIOUS
    <2> QED
      BY <2>1, FS_Interval
  <1>3. F \subseteq FiniteSubsetsOf(Nat) /\ F # {}
    BY <1>1, <1>2
  <1>4. \E x \in F : \A y \in F : ~ (<<y, x>> \in StrictSubsetOrdering(Nat))
    <2> HIDE DEF F
    <2> QED
      BY <1>3, FS_StrictSubsetOrderingWellFounded, WFMin
  <1>5. PICK m \in S : \A k \in S : ~ (<<below(k), below(m)>> \in StrictSubsetOrdering(Nat))
    BY <1>4
  <1>6. ASSUME NEW k \in S PROVE m <= k
    <2> SUFFICES ASSUME k < m PROVE FALSE
      BY <1>6
    <2>1. k \in Nat /\ m \in Nat
      OBVIOUS
    <2>2. below(k) \subseteq below(m) /\ below(k) # below(m)
      <3>1. k \in below(m) /\ k \notin below(k)
        BY <2>1
      <3> QED
        BY <2>1, <3>1
    <2>3. <<below(k), below(m)>> \in StrictSubsetOrdering(Nat)
      <3>1. below(k) \in SUBSET Nat /\ below(m) \in SUBSET Nat
        OBVIOUS
      <3> HIDE DEF below
      <3> QED
        BY <3>1, <2>2 DEF StrictSubsetOrdering
    <2> QED
      BY <1>5, <2>3
  <1> QED
    BY <1>6

(* Induction, about the set of the numbers that have the property. *)
LEMMA Induction ==
  ASSUME NEW S, 0 \in S, \A n \in Nat : n \in S => n + 1 \in S
  PROVE  \A n \in Nat : n \in S
  <1> DEFINE T == {n \in Nat : n \notin S}
  <1> SUFFICES ASSUME T # {} PROVE FALSE
    OBVIOUS
  <1>1. PICK m \in T : \A k \in T : m <= k
    BY Least
  <1>2. m \in Nat /\ m # 0 /\ m - 1 \in Nat
    OBVIOUS
  <1>3. m - 1 \notin T
    BY <1>1, <1>2
  <1>4. m - 1 \in S /\ (m - 1) + 1 = m
    BY <1>2, <1>3
  <1>5. m \in S
    BY <1>2, <1>4
  <1> QED
    BY <1>5

(* A function can be defined by what its value at 0 is and how each other  *)
(* value follows from the one before.                                      *)
Iteration(f, N, A, a, G) ==
  f \in [0..N -> A] /\ f[0] = a /\ \A k \in 1..N : f[k] = G[<<k, f[k - 1]>>]

LEMMA Iterates ==
  ASSUME NEW N \in Nat, NEW A, NEW a \in A, NEW G \in [(1..N) \X A -> A]
  PROVE  \E f : Iteration(f, N, A, a, G)
  <1> DEFINE P(n, f) == f[0] = a /\ \A k \in 1..n : f[k] = G[<<k, f[k - 1]>>]
             S == {n \in Nat : n <= N => \E f \in [0..n -> A] : P(n, f)}
  <1>1. 0 \in S
    <2>1. [k \in 0..0 |-> a] \in [0..0 -> A] /\ P(0, [k \in 0..0 |-> a])
      OBVIOUS
    <2> QED
      BY <2>1
  <1>2. ASSUME NEW n \in Nat, n \in S, n + 1 <= N PROVE \E f \in [0..(n + 1) -> A] : P(n + 1, f)
    <2>1. PICK f \in [0..n -> A] : P(n, f)
      BY <1>2
    <2> DEFINE g == [k \in 0..(n + 1) |-> IF k = n + 1 THEN G[<<n + 1, f[n]>>] ELSE f[k]]
    <2>2. <<n + 1, f[n]>> \in (1..N) \X A
      BY <1>2
    <2>3. g \in [0..(n + 1) -> A]
      BY <2>2
    <2>4. P(n + 1, g)
      <3>1. g[0] = a
        BY <2>1
      <3>2. ASSUME NEW k \in 1..(n + 1) PROVE g[k] = G[<<k, g[k - 1]>>]
        <4>1. CASE k = n + 1
          <5>1. g[k - 1] = f[n] /\ g[k] = G[<<n + 1, f[n]>>]
            BY <4>1
          <5> QED
            BY <4>1, <5>1
        <4>2. CASE k # n + 1
          <5>1. k \in 1..n /\ g[k] = f[k] /\ g[k - 1] = f[k - 1]
            BY <4>2
          <5> QED
            BY <5>1, <2>1
        <4> QED
          BY <4>1, <4>2
      <3> QED
        BY <3>1, <3>2
    <2> QED
      BY <2>3, <2>4
  <1>3. \A n \in Nat : n \in S
    <2>1. \A n \in Nat : n \in S => n + 1 \in S
      BY <1>2
    <2> HIDE DEF S
    <2> QED
      BY <1>1, <2>1, Induction
  <1> QED
    BY <1>3 DEF Iteration

LEMMA Listed ==
  ASSUME NEW S, IsFiniteSet(S)
  PROVE  /\ Cardinality(S) \in Nat
         /\ listed(S) \in [1..Cardinality(S) -> S]
         /\ \A m \in S : \E i \in 1..Cardinality(S) : listed(S)[i] = m
  <1>1. Cardinality(S) \in Nat /\ ExistsBijection(1..Cardinality(S), S)
    BY FS_CardinalityType
  <1>2. PICK f \in [1..Cardinality(S) -> S] : \A m \in S : \E i \in 1..Cardinality(S) : f[i] = m
    BY <1>1 DEF ExistsBijection, Bijection, Injection, Surjection
  <1>3. Temps(f) = S
    BY <1>2 DEF Temps
  <1>4. listed(S) \in [1..Cardinality(S) -> S] /\ Temps(listed(S)) = S
    BY <1>2, <1>3 DEF listed
  <1> QED
    BY <1>1, <1>4 DEF Temps

(* Where the parts of FlattenSeq(seqs) are. *)
Parts(all, n, seqs, start) ==
  /\ start \in [1..(n + 1) -> Nat] /\ start[1] = 0 /\ start[n + 1] = Len(all)
  /\ \A i \in 1..n : start[i + 1] = start[i] + Len(seqs[i])
  /\ \A i \in 1..n : \A k \in 1..Len(seqs[i]) :
       start[i] + k \in 1..Len(all) /\ all[start[i] + k] = seqs[i][k]
  /\ \A j \in 1..Len(all) : \E i \in 1..n : \E k \in 1..Len(seqs[i]) : j = start[i] + k
  /\ \A i, h \in 1..n : \A k \in 1..Len(seqs[i]), m \in 1..Len(seqs[h]) :
       start[i] + k = start[h] + m => i = h /\ k = m

LEMMA Flattened ==
  ASSUME NEW S, NEW n \in Nat, n # 0, NEW seqs \in [1..n -> Seq(S)],
         NEW all, all = FlattenSeq(seqs)
  PROVE  all \in Seq(S) /\ \E start : Parts(all, n, seqs, start)
  <1> DEFINE A == Seq(S)
             G == [z \in (1..n) \X A |-> z[2] \o seqs[z[1]]]
             empty == << >>
  <1>1. \A i \in 1..n : seqs[i] \in A /\ Len(seqs[i]) \in Nat
    OBVIOUS
  <1>2. G \in [(1..n) \X A -> A] /\ empty \in A
    BY <1>1
  <1>3. PICK f : Iteration(f, n, A, empty, G)
    <2> HIDE DEF A, G, empty
    <2> QED
      BY <1>2, Iterates
  <1>0. f \in [0..n -> Seq(S)] /\ f[0] = << >>
    BY <1>3 DEF Iteration
  <1>4. \A k \in 1..n : f[k] = f[k - 1] \o seqs[k] /\ f[k - 1] \in A /\ f[k] \in A
    <2> SUFFICES ASSUME NEW k \in 1..n PROVE f[k] = f[k - 1] \o seqs[k] /\ f[k - 1] \in A /\ f[k] \in A
      OBVIOUS
    <2>1. f[k] = G[<<k, f[k - 1]>>]
      <3> HIDE DEF A, G, empty
      <3> QED
        BY <1>3 DEF Iteration
    <2>2. k - 1 \in 0..n /\ k \in 0..n
      OBVIOUS
    <2>3. f[k - 1] \in A /\ f[k] \in A
      BY <1>0, <2>2
    <2>4. G[<<k, f[k - 1]>>] = f[k - 1] \o seqs[k]
      <3> HIDE DEF A
      <3> QED
        BY <2>3
    <2> QED
      BY <2>1, <2>3, <2>4
  <1>41. f[1] = seqs[1]
    <2>1. 1 \in 1..n /\ 1 - 1 = 0
      OBVIOUS
    <2>2. f[1] = f[0] \o seqs[1]
      BY <1>4, <2>1
    <2>3. f[0] \o seqs[1] = empty \o seqs[1]
      <3> HIDE DEF A, G
      <3> QED
        BY <1>0
    <2>4. empty \o seqs[1] = seqs[1]
      BY <1>1, <2>1, ConcatEmptySeq
    <2> HIDE DEF empty, A, G
    <2> QED
      BY <2>2, <2>3, <2>4
  <1>5. all = f[n]
    <2> DEFINE def(g) == [i \in 1..n |-> IF i = 1 THEN seqs[i] ELSE g[i - 1] \o seqs[i]]
               flatten == CHOOSE g : g = def(g)
    <2>1. all = flatten[n]
      <3>1. Len(seqs) = n
        OBVIOUS
      <3> QED
        BY <3>1 DEF FlattenSeq
    <2>2. \E g : g = def(g)
      <3> DEFINE g == [i \in 1..n |-> f[i]]
      <3>1. ASSUME NEW i \in 1..n PROVE g[i] = IF i = 1 THEN seqs[i] ELSE g[i - 1] \o seqs[i]
        <4>1. CASE i = 1
          <5> HIDE DEF A, G, empty
          <5> QED
            BY <1>41, <4>1
        <4>2. CASE i # 1
          <5>1. i - 1 \in 1..n
            BY <4>2
          <5> QED
            BY <1>4, <4>2, <5>1
        <4> QED
          BY <4>1, <4>2
      <3>2. g = def(g)
        BY <3>1
      <3> QED
        BY <3>2
    <2>3. flatten = def(flatten)
      <3> HIDE DEF def
      <3> QED
        BY <2>2
    <2> HIDE DEF flatten
    <2>4. \A i \in 1..n : flatten[i] = IF i = 1 THEN seqs[i] ELSE flatten[i - 1] \o seqs[i]
      BY <2>3
    <2> DEFINE T == {k \in Nat : k + 1 <= n => flatten[k + 1] = f[k + 1]}
    <2>5. 0 \in T
      <3>1. 1 \in 1..n /\ 0 + 1 = 1
        OBVIOUS
      <3>2. flatten[1] = seqs[1]
        BY <2>4, <3>1
      <3> QED
        BY <1>41, <3>1, <3>2
    <2>6. ASSUME NEW k \in Nat, k \in T PROVE k + 1 \in T
      <3> SUFFICES ASSUME k + 2 <= n PROVE flatten[k + 2] = f[k + 2]
        OBVIOUS
      <3>1. flatten[k + 1] = f[k + 1]
        BY <2>6
      <3>2. k + 2 \in 1..n /\ k + 2 # 1 /\ (k + 2) - 1 = k + 1
        OBVIOUS
      <3>3. flatten[k + 2] = flatten[k + 1] \o seqs[k + 2]
        BY <2>4, <3>2
      <3>4. f[k + 2] = f[k + 1] \o seqs[k + 2]
        BY <1>4, <3>2
      <3> QED
        BY <3>1, <3>3, <3>4
    <2>7. \A k \in Nat : k \in T
      <3> HIDE DEF T
      <3> QED
        BY <2>5, <2>6, Induction
    <2>8. n - 1 \in Nat /\ (n - 1) + 1 = n
      OBVIOUS
    <2>9. flatten[(n - 1) + 1] = f[(n - 1) + 1]
      <3>1. n - 1 \in T
        BY <2>7, <2>8
      <3> HIDE DEF A, G, empty
      <3> QED
        BY <2>8, <3>1
    <2> QED
      BY <2>1, <2>8, <2>9
  <1> DEFINE start == [i \in 1..(n + 1) |-> Len(f[i - 1])]
  <1>6. \A i \in 0..n : f[i] \in Seq(S) /\ Len(f[i]) \in Nat
    BY <1>0
  <1>7. \A i \in 1..n : /\ Len(f[i]) = Len(f[i - 1]) + Len(seqs[i])
                        /\ \A k \in 1..Len(f[i]) :
                             f[i][k] = IF k <= Len(f[i - 1]) THEN f[i - 1][k]
                                       ELSE seqs[i][k - Len(f[i - 1])]
    <2> SUFFICES ASSUME NEW i \in 1..n
                 PROVE  /\ Len(f[i]) = Len(f[i - 1]) + Len(seqs[i])
                        /\ \A k \in 1..Len(f[i]) :
                             f[i][k] = IF k <= Len(f[i - 1]) THEN f[i - 1][k]
                                       ELSE seqs[i][k - Len(f[i - 1])]
      OBVIOUS
    <2> DEFINE p == f[i - 1]
               q == seqs[i]
               r == f[i]
    <2>1. r = p \o q /\ p \in Seq(S) /\ q \in Seq(S)
      BY <1>1, <1>4
    <2> HIDE DEF p, q, r
    <2>2. /\ Len(r) = Len(p) + Len(q)
          /\ \A k \in 1..Len(r) : r[k] = IF k <= Len(p) THEN p[k] ELSE q[k - Len(p)]
      BY <2>1, ConcatProperties
    <2> QED
      BY <2>2 DEF p, q, r
  <1> HIDE DEF A, G, empty
  (* What is there after i parts stays where it is. *)
  <1>8. ASSUME NEW i \in 0..n
        PROVE  \A m \in i..n : Len(f[i]) <= Len(f[m]) /\ \A k \in 1..Len(f[i]) : f[m][k] = f[i][k]
    <2> DEFINE T == {d \in Nat : i + d <= n =>
                       Len(f[i]) <= Len(f[i + d]) /\ \A k \in 1..Len(f[i]) : f[i + d][k] = f[i][k]}
    <2>1. 0 \in T
      BY <1>6
    <2>2. ASSUME NEW d \in Nat, d \in T PROVE d + 1 \in T
      <3> SUFFICES ASSUME i + (d + 1) <= n
                   PROVE  /\ Len(f[i]) <= Len(f[i + (d + 1)])
                          /\ \A k \in 1..Len(f[i]) : f[i + (d + 1)][k] = f[i][k]
        OBVIOUS
      <3> DEFINE m == i + (d + 1)
      <3>1. m \in 1..n /\ m - 1 = i + d /\ m - 1 \in 0..n
        OBVIOUS
      <3>2. Len(f[i]) <= Len(f[m - 1]) /\ \A k \in 1..Len(f[i]) : f[m - 1][k] = f[i][k]
        BY <2>2, <3>1
      <3>3. Len(f[m]) \in Nat /\ Len(f[m - 1]) \in Nat /\ Len(f[i]) \in Nat /\ Len(seqs[m]) \in Nat
        BY <1>1, <1>6, <3>1
      <3>4. Len(f[m]) = Len(f[m - 1]) + Len(seqs[m])
            /\ \A k \in 1..Len(f[m]) : k <= Len(f[m - 1]) => f[m][k] = f[m - 1][k]
        BY <1>7, <3>1
      <3> HIDE DEF m
      <3> DEFINE li == Len(f[i])
                 lp == Len(f[m - 1])
                 lm == Len(f[m])
                 ls == Len(seqs[m])
      <3>0. li \in Nat /\ lp \in Nat /\ ls \in Nat /\ lm = lp + ls /\ li <= lp
        BY <3>2, <3>3, <3>4
      <3>5. Len(f[i]) <= Len(f[m])
        <4> SUFFICES li <= lm
          OBVIOUS
        <4> HIDE DEF li, lp, lm, ls
        <4> QED
          BY <3>0
      <3>6. ASSUME NEW k \in 1..Len(f[i]) PROVE f[m][k] = f[i][k]
        <4>1. k <= Len(f[m - 1]) /\ k \in 1..Len(f[m])
          <5> SUFFICES k <= lp /\ k \in 1..lm
            OBVIOUS
          <5>1. k \in 1..li
            OBVIOUS
          <5> HIDE DEF li, lp, lm, ls
          <5> QED
            BY <3>0, <5>1
        <4> QED
          BY <3>2, <3>4, <4>1
      <3> QED
        BY <3>5, <3>6 DEF m
    <2>3. \A d \in Nat : d \in T
      <3> HIDE DEF T
      <3> QED
        BY <2>1, <2>2, Induction
    <2> SUFFICES ASSUME NEW m \in i..n
                 PROVE  Len(f[i]) <= Len(f[m]) /\ \A k \in 1..Len(f[i]) : f[m][k] = f[i][k]
      OBVIOUS
    <2>4. m - i \in Nat /\ i + (m - i) = m /\ m <= n
      OBVIOUS
    <2> QED
      BY <2>3, <2>4
  <1>9. start \in [1..(n + 1) -> Nat] /\ start[1] = 0 /\ start[n + 1] = Len(all)
    <2>1. ASSUME NEW i \in 1..(n + 1) PROVE Len(f[i - 1]) \in Nat
      BY <1>6
    <2> QED
      BY <1>0, <1>5, <2>1
  <1>10. \A i \in 1..n : start[i] = Len(f[i - 1]) /\ start[i + 1] = Len(f[i])
                         /\ start[i + 1] = start[i] + Len(seqs[i]) /\ start[i] \in Nat
    <2> SUFFICES ASSUME NEW i \in 1..n
                 PROVE  start[i] = Len(f[i - 1]) /\ start[i + 1] = Len(f[i])
                         /\ start[i + 1] = start[i] + Len(seqs[i]) /\ start[i] \in Nat
      OBVIOUS
    <2>1. i \in 1..(n + 1) /\ i + 1 \in 1..(n + 1) /\ (i + 1) - 1 = i /\ i - 1 \in 0..n
      OBVIOUS
    <2>2. start[i] = Len(f[i - 1]) /\ start[i + 1] = Len(f[i])
      BY <2>1
    <2> HIDE DEF start
    <2> QED
      BY <1>6, <1>7, <2>1, <2>2
  <1> HIDE DEF start
  <1>11. ASSUME NEW i \in 1..n, NEW k \in 1..Len(seqs[i])
         PROVE  start[i] + k \in 1..Len(all) /\ all[start[i] + k] = seqs[i][k]
    <2> DEFINE j == start[i] + k
    <2>1. Len(f[i]) = start[i] + Len(seqs[i]) /\ start[i] \in Nat /\ Len(seqs[i]) \in Nat
      BY <1>1, <1>10
    <2>2. j \in 1..Len(f[i]) /\ ~ (j <= start[i]) /\ j - start[i] = k
      BY <2>1
    <2>3. f[i][j] = seqs[i][k]
      <3> HIDE DEF j
      <3>1. f[i][j] = seqs[i][j - start[i]]
        BY <1>7, <1>10, <2>2
      <3> QED
        BY <2>2, <3>1
    <2>4. Len(f[i]) <= Len(f[n]) /\ f[n][j] = f[i][j]
      <3>1. i \in 0..n /\ n \in i..n
        OBVIOUS
      <3> HIDE DEF j
      <3> QED
        BY <1>8, <2>2, <3>1
    <2>5. Len(f[n]) \in Nat /\ Len(f[i]) \in Nat
      BY <1>6
    <2> QED
      BY <1>5, <2>2, <2>3, <2>4, <2>5
  <1>12. ASSUME NEW j \in 1..Len(all) PROVE \E i \in 1..n : \E k \in 1..Len(seqs[i]) : j = start[i] + k
    <2> DEFINE T == {i \in 0..n : j <= Len(f[i])}
    <2>1. T \in SUBSET Nat /\ n \in T
      BY <1>5
    <2>2. PICK i \in T : \A h \in T : i <= h
      <3> HIDE DEF T
      <3> QED
        BY <2>1, Least
    <2>3. i # 0
      <3>1. Len(f[0]) = 0
        BY <1>0
      <3> QED
        BY <2>2, <3>1
    <2>4. i \in 1..n /\ i - 1 \in 0..n /\ i - 1 \notin T
      BY <2>2, <2>3
    <2>5. j > Len(f[i - 1]) /\ j <= Len(f[i])
      BY <1>6, <2>2, <2>4
    <2>6. start[i] = Len(f[i - 1]) /\ Len(f[i]) = start[i] + Len(seqs[i]) /\ start[i] \in Nat
          /\ Len(seqs[i]) \in Nat
      BY <1>1, <1>10, <2>4
    <2>7. j - start[i] \in 1..Len(seqs[i]) /\ j = start[i] + (j - start[i])
      <3> DEFINE p == start[i]
                 l == Len(seqs[i])
      <3>1. j \in Int /\ j > p /\ j <= p + l /\ p \in Nat /\ l \in Nat
        <4>1. j \in Int
          OBVIOUS
        <4>2. p \in Nat /\ l \in Nat
          BY <2>6
        <4>3. j > p
          BY <2>5, <2>6
        <4>4. j <= p + l
          BY <2>5, <2>6
        <4> QED
          BY <4>1, <4>2, <4>3, <4>4
      <3> HIDE DEF p, l
      <3>2. j - p \in 1..l /\ j = p + (j - p)
        BY <3>1
      <3> QED
        BY <3>2 DEF p, l
    <2> QED
      BY <2>4, <2>7
  <1>13. ASSUME NEW i \in 1..n, NEW h \in 1..n, i < h PROVE start[i] + Len(seqs[i]) <= start[h]
    <2>1. i \in 0..n /\ h - 1 \in i..n
      BY <1>13
    <2>2. Len(f[i]) <= Len(f[h - 1])
      BY <1>8, <2>1
    <2> QED
      BY <1>10, <2>2
  <1>14. ASSUME NEW i \in 1..n, NEW h \in 1..n, NEW k \in 1..Len(seqs[i]), NEW m \in 1..Len(seqs[h]),
                start[i] + k = start[h] + m
         PROVE  i = h /\ k = m
    <2>1. start[i] \in Nat /\ start[h] \in Nat /\ Len(seqs[i]) \in Nat /\ Len(seqs[h]) \in Nat
      BY <1>1, <1>10
    <2>2. ~ (i < h)
      BY <1>13, <1>14, <2>1
    <2>3. ~ (h < i)
      BY <1>13, <1>14, <2>1
    <2>4. i = h
      BY <2>2, <2>3
    <2> QED
      BY <1>14, <2>1, <2>4
  <1>15. all \in Seq(S)
    BY <1>5, <1>6
  <1>16. \A i \in 1..n : start[i + 1] = start[i] + Len(seqs[i])
    BY <1>10
  <1>17. Parts(all, n, seqs, start)
    BY <1>9, <1>11, <1>12, <1>14, <1>16 DEF Parts
  <1> QED
    BY <1>15, <1>17

-----------------------------------------------------------------------------
(* Liveness. *)

(* The temporaries that occur in the instructions. *)
Occurring == UNION {Temps(il[i].dst) \cup Temps(il[i].src) : i \in DOMAIN il}

(* As many rounds as there are instructions are enough: the nodes where a  *)
(* temporary is live are more in each round, or the same ever after.       *)
LEMMA LiveIn ==
  ASSUME NEW n \in Nat, DOMAIN il = 1..n, Len(il) = n
  PROVE  /\ \A i \in 1..n : liveIn[i] \subseteq Occurring /\ Temps(il[i].src) \subseteq liveIn[i]
         /\ \A i \in 1..n : \A j \in succ(i) : liveIn[j] \ Temps(il[i].dst) \subseteq liveIn[i]
  <1> DEFINE D == 1..n
             A == [D -> SUBSET Occurring]
             none == [i \in DOMAIN il |-> {}]
             def(g) == [k \in 0..Len(il) |-> IF k = 0 THEN none ELSE equations(g[k - 1])]
             after == CHOOSE g : g = def(g)
             G == [z \in (1..n) \X A |-> equations(z[2])]
  <1>1. liveIn = after[n]
    BY DEF liveIn
  <1>2. \A i \in D : succ(i) \subseteq D
    BY DEF succ
  <1>3. ASSUME NEW in, NEW i \in D, NEW t
         PROVE  t \in equations(in)[i]
                  <=> t \in Temps(il[i].src) \/ (t \notin Temps(il[i].dst) /\ \E j \in succ(i) : t \in in[j])
    <2>1. equations(in)[i] = inOf(in, i)
      BY DEF equations
    <2>2. t \in outOf(in, i) <=> \E j \in succ(i) : t \in in[j]
      BY DEF outOf
    <2> QED
      BY <2>1, <2>2 DEF inOf
  <1>31. ASSUME NEW in \in A PROVE equations(in) \in A
    <2>1. \A i \in D : equations(in)[i] \in SUBSET Occurring
      <3> SUFFICES ASSUME NEW i \in D, NEW t \in equations(in)[i] PROVE t \in Occurring
        OBVIOUS
      <3>1. CASE t \in Temps(il[i].src)
        BY <3>1 DEF Occurring
      <3>2. CASE t \notin Temps(il[i].src)
        <4>1. PICK j \in succ(i) : t \in in[j]
          BY <1>3, <3>2
        <4>2. j \in D
          BY <1>2, <4>1
        <4> QED
          BY <4>1, <4>2
      <3> QED
        BY <3>1, <3>2
    <2> QED
      BY <2>1 DEF equations
  <1>4. none \in A
    OBVIOUS
  <1>5. \E g : g = def(g) /\ g \in [0..n -> A]
    <2>1. G \in [(1..n) \X A -> A]
      <3> HIDE DEF A
      <3> QED
        BY <1>31
    <2>2. PICK g : Iteration(g, n, A, none, G)
      <3> HIDE DEF A, none, G
      <3> QED
        BY <1>4, <2>1, Iterates
    <2>3. g \in [0..n -> A] /\ g[0] = none
      <3> HIDE DEF A, none, G
      <3> QED
        BY <2>2 DEF Iteration
    <2>4. ASSUME NEW k \in 1..n PROVE g[k] = equations(g[k - 1])
      <3>1. g[k] = G[<<k, g[k - 1]>>]
        <4> HIDE DEF A, none, G
        <4> QED
          BY <2>2 DEF Iteration
      <3>2. k - 1 \in 0..n
        OBVIOUS
      <3>3. g[k - 1] \in A
        <4> HIDE DEF A
        <4> QED
          BY <2>3, <3>2
      <3> HIDE DEF A
      <3> QED
        BY <3>1, <3>3
    <2>5. g = def(g)
      <3>1. \A k \in 0..n : g[k] = IF k = 0 THEN none ELSE equations(g[k - 1])
        <4> HIDE DEF none
        <4> QED
          BY <2>3, <2>4
      <3> HIDE DEF none, A
      <3> QED
        BY <2>3, <3>1
    <2> QED
      BY <2>3, <2>5
  <1>6. after = def(after)
    <2> HIDE DEF def
    <2> QED
      BY <1>5
  <1> HIDE DEF after
  <1>7. \A k \in 0..n : after[k] = IF k = 0 THEN none ELSE equations(after[k - 1])
    <2> HIDE DEF none
    <2> QED
      BY <1>6
  <1> DEFINE all == [k \in 0..(n + 1) |-> IF k <= n THEN after[k] ELSE equations(after[n])]
  <1>8. all[0] = none /\ \A k \in 0..n : all[k + 1] = equations(all[k])
    <2> HIDE DEF none
    <2>1. all[0] = none
      BY <1>7
    <2>2. ASSUME NEW k \in 0..n PROVE all[k + 1] = equations(all[k])
      <3>1. all[k] = after[k]
        OBVIOUS
      <3>2. CASE k = n
        <4>1. k + 1 \in 0..(n + 1) /\ ~ (k + 1 <= n)
          BY <3>2
        <4>2. all[k + 1] = equations(after[n])
          BY <4>1
        <4> QED
          BY <3>1, <3>2, <4>2
      <3>3. CASE k # n
        <4>1. k + 1 \in 0..n /\ k + 1 # 0 /\ (k + 1) - 1 = k
          BY <3>3
        <4>2. all[k + 1] = after[k + 1] /\ after[k + 1] = equations(after[k])
          BY <1>7, <4>1
        <4> QED
          BY <3>1, <4>2
      <3> QED
        BY <3>2, <3>3
    <2> QED
      BY <2>1, <2>2
  <1>9. liveIn = all[n]
    BY <1>1
  <1> HIDE DEF all
  <1>10. \A k \in 0..n : all[k] \in A
    <2> DEFINE S == {k \in Nat : k <= n => all[k] \in A}
    <2> HIDE DEF none, A
    <2>1. 0 \in S
      BY <1>4, <1>8
    <2>2. ASSUME NEW k \in Nat, k \in S PROVE k + 1 \in S
      <3> SUFFICES ASSUME k + 1 <= n PROVE all[k + 1] \in A
        OBVIOUS
      <3>1. k \in 0..n /\ all[k] \in A
        BY <2>2
      <3> QED
        BY <1>31, <1>8, <3>1
    <2>3. \A k \in Nat : k \in S
      <3> HIDE DEF S
      <3> QED
        BY <2>1, <2>2, Induction
    <2> QED
      BY <2>3
  <1>11. ASSUME NEW k \in 0..n, NEW i \in D, NEW t
         PROVE  t \in all[k + 1][i]
                  <=> t \in Temps(il[i].src) \/ (t \notin Temps(il[i].dst) /\ \E j \in succ(i) : t \in all[k][j])
    <2>1. all[k + 1] = equations(all[k])
      BY <1>8
    <2> QED
      BY <1>3, <2>1
  (* The sets grow. *)
  <1>12. \A k \in 0..n : \A i \in D : all[k][i] \subseteq all[k + 1][i]
    <2> DEFINE S == {k \in Nat : k <= n => \A i \in D : all[k][i] \subseteq all[k + 1][i]}
    <2>1. 0 \in S
      BY <1>8
    <2>2. ASSUME NEW k \in Nat, k \in S PROVE k + 1 \in S
      <3> SUFFICES ASSUME k + 1 <= n, NEW i \in D, NEW t \in all[k + 1][i] PROVE t \in all[(k + 1) + 1][i]
        OBVIOUS
      <3>1. k \in 0..n /\ k + 1 \in 0..n
        OBVIOUS
      <3>2. \A j \in D : all[k][j] \subseteq all[k + 1][j]
        BY <2>2, <3>1
      <3>3. t \in Temps(il[i].src)
              \/ (t \notin Temps(il[i].dst) /\ \E j \in succ(i) : t \in all[k][j])
        BY <1>11, <3>1
      <3>4. t \in Temps(il[i].src)
              \/ (t \notin Temps(il[i].dst) /\ \E j \in succ(i) : t \in all[k + 1][j])
        BY <1>2, <3>2, <3>3
      <3> QED
        BY <1>11, <3>1, <3>4
    <2>3. \A k \in Nat : k \in S
      <3> HIDE DEF S
      <3> QED
        BY <2>1, <2>2, Induction
    <2> QED
      BY <2>3
  (* The nodes where one temporary is live. *)
  <1>13. ASSUME NEW t PROVE \A i \in D : t \in all[n + 1][i] => t \in all[n][i]
    <2> DEFINE X(k) == {i \in D : t \in all[k][i]}
    <2>1. \A k \in 0..n : X(k) \subseteq X(k + 1)
      BY <1>12
    <2>2. ASSUME NEW k \in 0..n, k + 1 <= n, X(k) = X(k + 1) PROVE X(k + 1) = X((k + 1) + 1)
      <3>1. k + 1 \in 0..n
        BY <2>2
      <3>2. \A j \in D : t \in all[k][j] <=> t \in all[k + 1][j]
        BY <2>2
      <3>3. ASSUME NEW i \in D PROVE t \in all[k + 1][i] <=> t \in all[(k + 1) + 1][i]
        <4>1. (\E j \in succ(i) : t \in all[k][j]) <=> (\E j \in succ(i) : t \in all[k + 1][j])
          BY <1>2, <3>2
        <4>2. t \in all[k + 1][i] <=> t \in Temps(il[i].src)
                 \/ (t \notin Temps(il[i].dst) /\ \E j \in succ(i) : t \in all[k][j])
          BY <1>11
        <4>3. t \in all[(k + 1) + 1][i] <=> t \in Temps(il[i].src)
                 \/ (t \notin Temps(il[i].dst) /\ \E j \in succ(i) : t \in all[k + 1][j])
          BY <1>11, <3>1
        <4> QED
          BY <4>1, <4>2, <4>3
      <3> QED
        BY <3>3
    <2>3. IsFiniteSet(D) /\ Cardinality(D) = n
      BY FS_Interval
    <2>4. \A k \in 0..(n + 1) : IsFiniteSet(X(k)) /\ Cardinality(X(k)) \in Nat /\ Cardinality(X(k)) <= n
      <3> SUFFICES ASSUME NEW k \in 0..(n + 1)
                   PROVE  IsFiniteSet(X(k)) /\ Cardinality(X(k)) \in Nat /\ Cardinality(X(k)) <= n
        OBVIOUS
      <3>1. X(k) \in SUBSET D
        OBVIOUS
      <3> HIDE DEF X, D
      <3>2. IsFiniteSet(X(k)) /\ Cardinality(X(k)) <= n
        BY <2>3, <3>1, FS_Subset
      <3> QED
        BY <3>2, FS_CardinalityType
    <2>5. \A k \in 0..n : Cardinality(X(k)) >= k \/ X(k) = X(k + 1)
      <3> DEFINE S == {k \in Nat : k <= n => Cardinality(X(k)) >= k \/ X(k) = X(k + 1)}
      <3>1. 0 \in S
        <4>1. 0 \in 0..(n + 1)
          OBVIOUS
        <4>2. Cardinality(X(0)) >= 0
          <5> HIDE DEF X
          <5> QED
            BY <2>4, <4>1
        <4> QED
          BY <4>2
      <3>2. ASSUME NEW k \in Nat, k \in S PROVE k + 1 \in S
        <4> SUFFICES ASSUME k + 1 <= n, X(k + 1) # X((k + 1) + 1) PROVE Cardinality(X(k + 1)) >= k + 1
          OBVIOUS
        <4> HIDE DEF X, D
        <4>1. k \in 0..n /\ k \in 0..(n + 1) /\ k + 1 \in 0..(n + 1)
          OBVIOUS
        <4>2. X(k) # X(k + 1)
          BY <2>2, <4>1
        <4>3. Cardinality(X(k)) >= k
          BY <3>2, <4>1, <4>2
        <4>4. X(k) \in SUBSET X(k + 1)
          BY <2>1, <4>1
        <4>5. IsFiniteSet(X(k)) /\ IsFiniteSet(X(k + 1))
              /\ Cardinality(X(k)) \in Nat /\ Cardinality(X(k + 1)) \in Nat
          BY <2>4, <4>1
        <4>6. Cardinality(X(k)) <= Cardinality(X(k + 1)) /\ Cardinality(X(k)) # Cardinality(X(k + 1))
          BY <4>2, <4>4, <4>5, FS_Subset
        <4> QED
          BY <4>3, <4>5, <4>6
      <3>3. \A k \in Nat : k \in S
        <4> HIDE DEF S
        <4> QED
          BY <3>1, <3>2, Induction
      <3> HIDE DEF X
      <3> QED
        BY <3>3
    <2>6. n \in 0..n /\ n \in 0..(n + 1) /\ n + 1 \in 0..(n + 1)
      OBVIOUS
    <2>7. X(n) = X(n + 1)
      <3> SUFFICES ASSUME Cardinality(X(n)) >= n PROVE X(n) = X(n + 1)
        <4> HIDE DEF X
        <4> QED
          BY <2>5, <2>6
      <3>1. X(n) \in SUBSET D /\ X(n + 1) \in SUBSET D
        OBVIOUS
      <3> HIDE DEF X, D
      <3>2. Cardinality(X(n)) = Cardinality(D)
        BY <2>3, <2>4, <2>6
      <3>3. X(n) = D
        BY <2>3, <3>1, <3>2, FS_Subset
      <3> QED
        BY <2>1, <2>6, <3>1, <3>3
    <2> QED
      BY <2>7
  <1>14. n \in 0..n
    OBVIOUS
  <1>15. ASSUME NEW i \in D PROVE Temps(il[i].src) \subseteq all[n][i]
    BY <1>11, <1>13, <1>14, <1>15
  <1>16. ASSUME NEW i \in D, NEW j \in succ(i) PROVE all[n][j] \ Temps(il[i].dst) \subseteq all[n][i]
    <2> SUFFICES ASSUME NEW t \in all[n][j], t \notin Temps(il[i].dst) PROVE t \in all[n][i]
      OBVIOUS
    <2>1. t \in all[n + 1][i]
      BY <1>11, <1>14
    <2> QED
      BY <1>13, <2>1
  <1>17. ASSUME NEW i \in D PROVE all[n][i] \subseteq Occurring
    BY <1>10, <1>14
  <1> QED
    BY <1>9, <1>15, <1>16, <1>17

-----------------------------------------------------------------------------
(* What is where: a certificate that comes with the instructions. *)

Named == Floats \cup Ints

(* The temporaries there are before round r. *)
Temporary(r) == Named \cup {u \in Made : u[2] < r}

(* A place is a temporary or a slot of the stack. *)
temp(u) == <<"temp", u>>
slot(s) == <<"slot", s>>
Place(r, size) == {temp(u) : u \in Temporary(r)} \cup {slot(s) : s \in 1..size}

Entry(r) ==
  [op : {"oper", "move", "label", "copy", "load", "store"},
   dst : Seq(Temporary(r)), src : Seq(Temporary(r)),
   jumps : SUBSET Label, label : Label \cup {NoLabel}, of : Nat, slot : Nat, gone : BOOLEAN]

(* How an instruction relates to the one it comes from: it is that one but *)
(* for its temporaries, and calls keep their registers; or it was put      *)
(* there.                                                                  *)
FitsOriginal(x, x0) ==
  /\ x.op = x0.op /\ x.jumps = x0.jumps /\ x.label = x0.label
  /\ x.gone => x.op = "move" /\ x.dst = << >> /\ x.src = << >>
  /\ ~ x.gone => Len(x.dst) = Len(x0.dst) /\ Len(x.src) = Len(x0.src)
  /\ Len(x0.dst) > 1 => x.dst = x0.dst

FitsInserted(x, size) ==
  /\ x.op \in {"copy", "load", "store"} /\ ~ x.gone /\ x.jumps = {} /\ x.label = NoLabel
  /\ x.op # "copy" => x.slot \in 1..size
  /\ IF x.op = "store" THEN x.dst = << >> ELSE Len(x.dst) = 1
  /\ IF x.op = "load" THEN x.src = << >> ELSE Len(x.src) = 1

Fits(P, x, size) ==
  IF x.of = 0 THEN FitsInserted(x, size)
  ELSE x.of \in DOMAIN P /\ FitsOriginal(x, P[x.of])

(* Where an instruction writes, and where a move, copy, load or store      *)
(* reads; what a temporary of the function as it was had before a move.    *)
written(x) == IF x.op = "store" THEN <<slot(x.slot)>> ELSE [k \in DOMAIN x.dst |-> temp(x.dst[k])]
read(x) == IF x.op = "load" THEN slot(x.slot) ELSE temp(x.src[1])
origin(x0, t) == IF t = x0.dst[1] THEN x0.src[1] ELSE t
carries(x) == x.of = 0 \/ x.op = "move"

(* If place l is to hold the value of temporary t of the function as it    *)
(* was once x is run, writing to the places D and, if it carries a value,  *)
(* reading it from b, then before that what Q says must have been so.      *)
Pulled(P, x, D, b, l, t, Q) ==
  IF carries(x)
  THEN <<IF 1 \in DOMAIN D /\ l = D[1] THEN b ELSE l, IF x.of = 0 THEN t ELSE origin(P[x.of], t)>> \in Q
  ELSE \/ \E k \in DOMAIN D : l = D[k] /\ t = P[x.of].dst[k]
       \/ <<l, t>> \in Q /\ (\A k \in DOMAIN D : l # D[k]) /\ t \notin Temps(P[x.of].dst)

Keeps(P, x, l, t, Q) == Pulled(P, x, written(x), read(x), l, t, Q)

follows(c, i) ==
  {j \in DOMAIN c : IF c[i].jumps = {} THEN j = i + 1 ELSE c[j].label \in c[i].jumps}

(* R says which places hold which values before each instruction, ahead    *)
(* which instruction of the function as it was is the next.                *)
Certified(P, c, R, ahead) ==
  /\ ahead \in [1..(Len(c) + 1) -> Nat] /\ ahead[1] = 1
  /\ \A i \in DOMAIN c :
       IF c[i].of = 0 THEN ahead[i + 1] = ahead[i] ELSE c[i].of = ahead[i] /\ ahead[i + 1] = ahead[i] + 1
  /\ \A i \in DOMAIN c : \A j \in follows(c, i) : \A l, t : <<l, t>> \in R[j] => Keeps(P, c[i], l, t, R[i])
  /\ \A i \in DOMAIN c : c[i].of # 0 /\ c[i].op = "oper" =>
       \A k \in DOMAIN c[i].src : <<temp(c[i].src[k]), P[c[i].of].src[k]>> \in R[i]
  /\ 1 \in DOMAIN c => \A l, t : <<l, t>> \in R[1] /\ t \in Reg => l = temp(t)

Holding(c, R, r, size) == R \in [DOMAIN c -> SUBSET (Place(r, size) \X Named)]

Shape ==
  /\ prog \in Programs /\ isf \in BOOLEAN /\ round \in Nat /\ stk_size \in Nat /\ steps \in Nat
  /\ phase \in {"allocate", "run"}
  /\ il \in Seq(Entry(round))
  /\ \A i \in DOMAIN il : Fits(prog, il[i], stk_size)
  /\ DOMAIN stkmap \subseteq Temporary(round) \ (Occurring \cup Reg)
  /\ ~ isf => \A u \in Occurring : isFloat(u) => u \in Reg
  /\ phase = "run" => Occurring \subseteq Reg
  /\ phase = "allocate" =>
       /\ pc = 1 /\ pc0 = 1 /\ steps = 0 /\ mem = << >>
       /\ env = [r \in Reg |-> <<"at entry", r>>]
       /\ env0 = [t \in Named |-> IF t \in Reg THEN <<"at entry", t>> ELSE Undefined]

-----------------------------------------------------------------------------
(* Places are renamed. *)

(* If w keeps apart what is alive, what held before holds of the places w  *)
(* has for them.                                                           *)
LEMMA Renaming ==
  ASSUME NEW P, NEW x, NEW D, NEW b, NEW l, NEW t, NEW Q, NEW w, NEW A, NEW D2, NEW Q2,
         Pulled(P, x, D, b, l, t, Q),
         DOMAIN D2 = DOMAIN D, \A k \in DOMAIN D : D2[k] = w[D[k]],
         \A k \in DOMAIN D : w[l] = w[D[k]] /\ l # D[k] => x.op = "move" /\ l = b,
         carries(x) /\ 1 \in DOMAIN D => b \in A,
         carries(x) => DOMAIN D \subseteq {1},
         (\A k \in DOMAIN D : l # D[k]) => l \in A,
         \A m, u : <<m, u>> \in Q /\ m \in A => <<w[m], u>> \in Q2
  PROVE  Pulled(P, x, D2, w[b], w[l], t, Q2)
  <1>1. CASE carries(x)
    <2> DEFINE u == IF x.of = 0 THEN t ELSE origin(P[x.of], t)
    <2>1. <<IF 1 \in DOMAIN D /\ l = D[1] THEN b ELSE l, u>> \in Q
      BY <1>1 DEF Pulled
    <2>2. SUFFICES <<IF 1 \in DOMAIN D2 /\ w[l] = D2[1] THEN w[b] ELSE w[l], u>> \in Q2
      BY <1>1 DEF Pulled
    <2> HIDE DEF u
    <2>3. CASE 1 \in DOMAIN D /\ l = D[1]
      BY <1>1, <2>1, <2>3
    <2>4. CASE ~ (1 \in DOMAIN D /\ l = D[1])
      <3>1. l \in A
        BY <1>1, <2>4
      <3>2. <<w[l], u>> \in Q2
        BY <2>1, <2>4, <3>1
      <3> QED
        BY <2>4, <3>2
    <2> QED
      BY <2>3, <2>4
  <1>2. CASE ~ carries(x)
    <2>1. \A k \in DOMAIN D : w[l] = w[D[k]] => l = D[k]
      BY <1>2 DEF carries
    <2> QED
      BY <1>2, <2>1 DEF Pulled
  <1> QED
    BY <1>1, <1>2

(* A move between what w has in one place can be left out. *)
LEMMA Dropping ==
  ASSUME NEW P, NEW x, NEW D, NEW b, NEW l, NEW t, NEW Q, NEW w, NEW A, NEW Q2,
         Pulled(P, x, D, b, l, t, Q),
         x.op = "move", 1 \in DOMAIN D => w[D[1]] = w[b],
         1 \in DOMAIN D => b \in A,
         DOMAIN D \subseteq {1},
         (\A k \in DOMAIN D : l # D[k]) => l \in A,
         \A m, u : <<m, u>> \in Q /\ m \in A => <<w[m], u>> \in Q2,
         NEW y, y.of = x.of, y.op = "move", NEW c
  PROVE  Pulled(P, y, << >>, c, w[l], t, Q2)
  <1> DEFINE u == IF x.of = 0 THEN t ELSE origin(P[x.of], t)
  <1>1. <<IF 1 \in DOMAIN D /\ l = D[1] THEN b ELSE l, u>> \in Q
    BY DEF Pulled, carries
  <1>2. SUFFICES <<w[l], u>> \in Q2
    <2>1. 1 \notin DOMAIN << >>
      OBVIOUS
    <2> QED
      BY <2>1 DEF Pulled, carries
  <1> HIDE DEF u
  <1>3. CASE 1 \in DOMAIN D /\ l = D[1]
    BY <1>1, <1>3
  <1>4. CASE ~ (1 \in DOMAIN D /\ l = D[1])
    BY <1>1, <1>4
  <1> QED
    BY <1>3, <1>4

(* The same if the places it writes are exchanged for others and what it   *)
(* reads is there already.                                                 *)
LEMMA Exchanging ==
  ASSUME NEW P, NEW x, NEW D, NEW b, NEW l, NEW t, NEW Q, NEW D2, NEW b2, NEW l2, NEW Q2,
         NEW y, y.of = x.of, y.op = x.op,
         Pulled(P, x, D, b, l, t, Q),
         DOMAIN D2 = DOMAIN D, \A k \in DOMAIN D : l = D[k] <=> l2 = D2[k],
         l2 = l \/ \E k \in DOMAIN D : l = D[k],
         carries(x) => DOMAIN D \subseteq {1},
         Q \subseteq Q2, \A u : <<b, u>> \in Q => <<b2, u>> \in Q2
  PROVE  Pulled(P, y, D2, b2, l2, t, Q2)
  <1>1. CASE carries(x)
    <2> DEFINE u == IF x.of = 0 THEN t ELSE origin(P[x.of], t)
    <2>1. <<IF 1 \in DOMAIN D /\ l = D[1] THEN b ELSE l, u>> \in Q
      BY <1>1 DEF Pulled
    <2>2. SUFFICES <<IF 1 \in DOMAIN D2 /\ l2 = D2[1] THEN b2 ELSE l2, u>> \in Q2
      BY <1>1 DEF Pulled, carries
    <2> HIDE DEF u
    <2>3. CASE 1 \in DOMAIN D /\ l = D[1]
      BY <1>1, <2>1, <2>3
    <2>4. CASE ~ (1 \in DOMAIN D /\ l = D[1])
      BY <1>1, <2>1, <2>4
    <2> QED
      BY <2>3, <2>4
  <1>2. CASE ~ carries(x)
    BY <1>2 DEF Pulled, carries
  <1> QED
    BY <1>1, <1>2

-----------------------------------------------------------------------------
(* What is alive. *)

alive(i) == {temp(u) : u \in liveIn[i]} \cup {slot(s) : s \in 1..stk_size}

LEMMA Functions ==
  ASSUME Shape
  PROVE  /\ prog \in Seq(Instruction) /\ \A i \in DOMAIN prog : WellFormed(prog[i]) /\ prog[i] \in Instruction
         /\ NoLabel \notin Label
  <1>1. prog \in Seq(Instruction) /\ \A i \in DOMAIN prog : WellFormed(prog[i])
    BY ProgramsAssumption DEF Shape
  <1>2. \A i \in DOMAIN prog : prog[i] \in Instruction
    BY <1>1
  <1> QED
    BY <1>1, <1>2, ProgramsAssumption

LEMMA Items ==
  ASSUME Shape
  PROVE  /\ Len(il) \in Nat /\ DOMAIN il = 1..Len(il)
         /\ \A i \in DOMAIN il :
              /\ il[i] \in Entry(round) /\ Fits(prog, il[i], stk_size)
              /\ il[i].dst \in Seq(Temporary(round)) /\ il[i].src \in Seq(Temporary(round))
              /\ Temps(il[i].dst) \subseteq Occurring /\ Temps(il[i].src) \subseteq Occurring
         /\ Occurring \subseteq Temporary(round)
  <1>0. il \in Seq(Entry(round))
    BY DEF Shape
  <1>1. Len(il) \in Nat /\ DOMAIN il = 1..Len(il)
    BY <1>0
  <1>2. ASSUME NEW i \in DOMAIN il
        PROVE  /\ il[i] \in Entry(round) /\ Fits(prog, il[i], stk_size)
               /\ il[i].dst \in Seq(Temporary(round)) /\ il[i].src \in Seq(Temporary(round))
    <2>1. il[i] \in Entry(round)
      BY <1>0
    <2>2. il[i].dst \in Seq(Temporary(round)) /\ il[i].src \in Seq(Temporary(round))
      BY <2>1 DEF Entry
    <2> QED
      BY <2>1, <2>2 DEF Shape
  <1>3. ASSUME NEW i \in DOMAIN il
        PROVE  Temps(il[i].dst) \subseteq Occurring /\ Temps(il[i].src) \subseteq Occurring
    BY DEF Occurring
  <1>4. Occurring \subseteq Temporary(round)
    BY <1>2 DEF Occurring, Temps
  <1> QED
    BY <1>1, <1>2, <1>3, <1>4

(* What an instruction that carries a value writes and reads. *)
LEMMA Carrying ==
  ASSUME Shape, NEW i \in DOMAIN il
  PROVE  /\ carries(il[i]) => DOMAIN written(il[i]) \subseteq {1}
         /\ carries(il[i]) /\ 1 \in DOMAIN written(il[i]) /\ il[i].op # "load" => Len(il[i].src) = 1
         /\ il[i].op = "load" => il[i].of = 0 /\ il[i].src = << >>
         /\ il[i].op = "store" => il[i].of = 0 /\ il[i].dst = << >>
         /\ il[i].op = "move" => il[i].of # 0
         /\ il[i].op \in {"load", "store"} => il[i].slot \in 1..stk_size
         /\ il[i].op = "move" /\ ~ il[i].gone => Len(il[i].dst) = 1 /\ Len(il[i].src) = 1
  <1> DEFINE x == il[i]
  <1>1. Fits(prog, x, stk_size) /\ x \in Entry(round) /\ x.dst \in Seq(Temporary(round))
    BY Items
  <1>2. CASE x.of = 0
    <2>1. FitsInserted(x, stk_size)
      BY <1>1, <1>2 DEF Fits
    <2>2. x.op # "move" /\ ~ x.gone
      BY <2>1 DEF FitsInserted
    <2>3. DOMAIN written(x) \subseteq {1}
      <3>1. CASE x.op = "store"
        BY <3>1 DEF written
      <3>2. CASE x.op # "store"
        <4>1. Len(x.dst) = 1
          BY <2>1, <3>2 DEF FitsInserted
        <4>2. DOMAIN written(x) = DOMAIN x.dst
          BY <3>2 DEF written
        <4> QED
          BY <1>1, <4>1, <4>2
      <3> QED
        BY <3>1, <3>2
    <2> QED
      BY <1>2, <2>1, <2>2, <2>3 DEF FitsInserted
  <1>3. CASE x.of # 0
    <2> DEFINE x0 == prog[x.of]
    <2>1. x.of \in DOMAIN prog /\ FitsOriginal(x, x0) /\ WellFormed(x0) /\ x0 \in Instruction
      BY <1>1, <1>3, Functions DEF Fits
    <2>2. x.op \in {"oper", "move", "label"}
      BY <2>1 DEF FitsOriginal, Instruction
    <2>3. CASE x.op = "move"
      <3>1. Len(x0.dst) = 1 /\ Len(x0.src) = 1
        BY <2>1, <2>3 DEF WellFormed, FitsOriginal
      <3>2. DOMAIN written(x) = DOMAIN x.dst
        BY <2>3 DEF written
      <3>3. CASE x.gone
        <4>1. x.dst = << >>
          BY <2>1, <3>3 DEF FitsOriginal
        <4>2. DOMAIN x.dst = {}
          BY <4>1
        <4> QED
          BY <1>3, <2>3, <3>2, <3>3, <4>2
      <3>4. CASE ~ x.gone
        <4>1. Len(x.dst) = 1 /\ Len(x.src) = 1
          BY <2>1, <3>1, <3>4 DEF FitsOriginal
        <4>2. DOMAIN x.dst = 1..1
          BY <1>1, <4>1
        <4> QED
          BY <1>3, <2>3, <3>2, <4>1, <4>2
      <3>5. x.gone \in BOOLEAN
        BY <1>1 DEF Entry
      <3> QED
        BY <3>3, <3>4, <3>5
    <2>4. CASE x.op # "move"
      BY <1>3, <2>2, <2>4 DEF carries
    <2> QED
      BY <2>3, <2>4
  <1> QED
    BY <1>2, <1>3

LEMMA Alive ==
  ASSUME Shape, NEW i \in DOMAIN il
  PROVE  /\ liveIn[i] \subseteq Occurring
         /\ alive(i) \subseteq Place(round, stk_size)
         /\ \A k \in DOMAIN il[i].src : temp(il[i].src[k]) \in alive(i)
         /\ carries(il[i]) /\ 1 \in DOMAIN written(il[i]) => read(il[i]) \in alive(i)
         /\ \A j \in succ(i) : \A l \in alive(j) :
              (\A k \in DOMAIN written(il[i]) : l # written(il[i])[k]) => l \in alive(i)
  <1> DEFINE x == il[i]
  <1>1. /\ \A h \in DOMAIN il : liveIn[h] \subseteq Occurring /\ Temps(il[h].src) \subseteq liveIn[h]
        /\ \A h \in DOMAIN il : \A j \in succ(h) : liveIn[j] \ Temps(il[h].dst) \subseteq liveIn[h]
    BY Items, LiveIn
  <1>2. alive(i) \subseteq Place(round, stk_size)
    BY <1>1, Items DEF alive, Place
  <1>3. \A k \in DOMAIN x.src : temp(x.src[k]) \in alive(i)
    BY <1>1 DEF alive, Temps
  <1>4. ASSUME carries(x), 1 \in DOMAIN written(x) PROVE read(x) \in alive(i)
    <2>1. CASE x.op = "load"
      BY <2>1, Carrying DEF read, alive
    <2>2. CASE x.op # "load"
      <3>1. Len(x.src) = 1 /\ x.src \in Seq(Temporary(round))
        BY <1>4, <2>2, Carrying, Items
      <3>2. 1 \in DOMAIN x.src
        BY <3>1
      <3> QED
        BY <1>3, <2>2, <3>2 DEF read
    <2> QED
      BY <2>1, <2>2
  <1>5. ASSUME NEW j \in succ(i), NEW l \in alive(j), \A k \in DOMAIN written(x) : l # written(x)[k]
        PROVE  l \in alive(i)
    <2>1. CASE l \in {slot(s) : s \in 1..stk_size}
      BY <2>1 DEF alive
    <2>2. CASE l \notin {slot(s) : s \in 1..stk_size}
      <3>1. PICK u \in liveIn[j] : l = temp(u)
        BY <2>2 DEF alive
      <3>2. u \notin Temps(x.dst)
        <4>1. CASE x.op = "store"
          <5>1. x.dst = << >>
            BY <4>1, Carrying
          <5>2. DOMAIN x.dst = {}
            BY <5>1
          <5> QED
            BY <5>2 DEF Temps
        <4>2. CASE x.op # "store"
          BY <1>5, <3>1, <4>2 DEF Temps, written
        <4> QED
          BY <4>1, <4>2
      <3>3. u \in liveIn[i]
        BY <1>1, <3>1, <3>2
      <3> QED
        BY <3>1, <3>3 DEF alive
    <2> QED
      BY <2>1, <2>2
  <1> QED
    BY <1>1, <1>2, <1>3, <1>4, <1>5

(* What an instruction defines and what is live after it have different    *)
(* places, but for the source of a move.                                   *)
LEMMA Apart ==
  ASSUME Shape, NEW p, Allowed(p), NEW i \in DOMAIN il, NEW j \in succ(i),
         NEW d \in Temps(il[i].dst), NEW u \in liveIn[j], u # d,
         d \in Bank, u \in Bank, p[u] = p[d]
  PROVE  il[i].op = "move" /\ u = il[i].src[1]
  <1> DEFINE live == outOf(liveIn, i)
             e == <<d, u>>
  <1>1. u \in live
    BY DEF outOf
  <1>2. e \notin Interference
    BY DEF Allowed
  <1>3. e \notin conflicts(il[i], live)
    BY <1>2 DEF Interference
  <1> HIDE DEF live
  <1>4. e \in Temps(il[i].dst) \X live /\ e[1] # e[2] /\ e[2] = u
    BY <1>1
  <1> QED
    BY <1>3, <1>4 DEF conflicts

-----------------------------------------------------------------------------
(* What is alive, in other places. *)

Renamed(Q, A, w) == {<<w[z[1]], z[2]>> : z \in {y \in Q : y[1] \in A}}

LEMMA RenamedSet ==
  ASSUME NEW Q, NEW A, NEW w, \A z \in Q : z = <<z[1], z[2]>>
  PROVE  /\ \A m, t : <<m, t>> \in Renamed(Q, A, w) => \E l \in A : <<l, t>> \in Q /\ m = w[l]
         /\ \A l \in A : \A t : <<l, t>> \in Q => <<w[l], t>> \in Renamed(Q, A, w)
  <1>1. ASSUME NEW m, NEW t, <<m, t>> \in Renamed(Q, A, w) PROVE \E l \in A : <<l, t>> \in Q /\ m = w[l]
    <2>1. PICK z \in Q : z[1] \in A /\ <<m, t>> = <<w[z[1]], z[2]>>
      BY <1>1 DEF Renamed
    <2>2. z = <<z[1], z[2]>>
      OBVIOUS
    <2> QED
      BY <2>1, <2>2
  <1>2. ASSUME NEW l \in A, NEW t, <<l, t>> \in Q PROVE <<w[l], t>> \in Renamed(Q, A, w)
    <2>1. <<l, t>>[1] = l /\ <<l, t>>[2] = t
      OBVIOUS
    <2> QED
      BY <1>2, <2>1 DEF Renamed
  <1> QED
    BY <1>1, <1>2

keepsApart(w, i, j) ==
  \A l \in alive(j) : \A k \in DOMAIN written(il[i]) :
    w[l] = w[written(il[i])[k]] /\ l # written(il[i])[k] => il[i].op = "move" /\ l = read(il[i])

LEMMA Based ==
  ASSUME Shape, NEW R, Holding(il, R, round, stk_size), NEW ahead, Certified(prog, il, R, ahead),
         NEW w, NEW i \in DOMAIN il, NEW j \in succ(i), keepsApart(w, i, j),
         NEW m, NEW t, <<m, t>> \in Renamed(R[j], alive(j), w)
  PROVE  /\ \A D2 : DOMAIN D2 = DOMAIN written(il[i])
                    /\ (\A k \in DOMAIN D2 : D2[k] = w[written(il[i])[k]])
                    => Pulled(prog, il[i], D2, w[read(il[i])], m, t, Renamed(R[i], alive(i), w))
         /\ il[i].op = "move" /\ (1 \in DOMAIN written(il[i]) => w[written(il[i])[1]] = w[read(il[i])])
              => \A y, b : y.of = il[i].of /\ y.op = "move"
                             => Pulled(prog, y, << >>, b, m, t, Renamed(R[i], alive(i), w))
  <1> DEFINE x == il[i]
             Q == R[i]
             A == alive(i)
             Q2 == Renamed(Q, A, w)
             D == written(x)
             b == read(x)
  <1>0. j \in DOMAIN il /\ j \in follows(il, i)
    BY DEF succ, follows
  <1>1. Q \in SUBSET (Place(round, stk_size) \X Named) /\ R[j] \in SUBSET (Place(round, stk_size) \X Named)
    BY <1>0 DEF Holding
  <1>2. PICK l \in alive(j) : <<l, t>> \in R[j] /\ m = w[l]
    <2>1. \A z \in R[j] : z = <<z[1], z[2]>>
      BY <1>1
    <2> QED
      BY <2>1, RenamedSet
  <1>3. Pulled(prog, x, D, b, l, t, Q)
    BY <1>0, <1>2 DEF Certified, Keeps
  <1>4. \A n, u : <<n, u>> \in Q /\ n \in A => <<w[n], u>> \in Q2
    <2>1. \A z \in Q : z = <<z[1], z[2]>>
      BY <1>1
    <2> QED
      BY <2>1, RenamedSet
  <1>5. carries(x) => DOMAIN D \subseteq {1}
    BY Carrying
  <1>6. carries(x) /\ 1 \in DOMAIN D => b \in A
    BY Alive
  <1>7. (\A k \in DOMAIN D : l # D[k]) => l \in A
    BY Alive
  <1>8. \A k \in DOMAIN D : w[l] = w[D[k]] /\ l # D[k] => x.op = "move" /\ l = b
    BY DEF keepsApart
  <1> HIDE DEF x, Q, A, Q2, D, b
  <1>9. ASSUME NEW D2, DOMAIN D2 = DOMAIN D, \A k \in DOMAIN D2 : D2[k] = w[D[k]]
        PROVE  Pulled(prog, x, D2, w[b], m, t, Q2)
    <2>1. Pulled(prog, x, D2, w[b], w[l], t, Q2)
      BY <1>3, <1>4, <1>5, <1>6, <1>7, <1>8, <1>9, Renaming
    <2> QED
      BY <1>2, <2>1
  <1>10. ASSUME x.op = "move", 1 \in DOMAIN D => w[D[1]] = w[b],
                NEW y, y.of = x.of, y.op = "move", NEW c
         PROVE  Pulled(prog, y, << >>, c, m, t, Q2)
    <2>0. DOMAIN D \subseteq {1} /\ (1 \in DOMAIN D => b \in A)
      BY <1>5, <1>6, <1>10 DEF carries
    <2>1. Pulled(prog, y, << >>, c, w[l], t, Q2)
      BY <1>3, <1>4, <1>7, <1>10, <2>0, Dropping
    <2> QED
      BY <1>2, <2>1
  <1> QED
    BY <1>9, <1>10 DEF x, Q, A, Q2, D, b

-----------------------------------------------------------------------------
(* The last round of a bank. *)

homeOf(p, u) == IF u \in Bank THEN p[u] ELSE u
homes(p) == [l \in Place(round, stk_size) |-> IF l[1] = "temp" THEN temp(homeOf(p, l[2])) ELSE l]

LEMMA Homes ==
  ASSUME Shape, NEW p, Allowed(p), Spilled(p) = {}
  PROVE  /\ \A u \in Temporary(round) : homes(p)[temp(u)] = temp(homeOf(p, u))
         /\ \A s \in 1..stk_size : homes(p)[slot(s)] = slot(s)
         /\ \A u \in Reg : homeOf(p, u) = u
         /\ \A u \in Bank : homeOf(p, u) \in Reg /\ isFloat(homeOf(p, u)) = isf
         /\ \A u \in Temporary(round) : homeOf(p, u) \in Temporary(round)
         /\ ~ isf => \A u \in Occurring : homeOf(p, u) \in Reg
  <1>1. \A u \in Temporary(round) : homes(p)[temp(u)] = temp(homeOf(p, u))
    <2> SUFFICES ASSUME NEW u \in Temporary(round) PROVE homes(p)[temp(u)] = temp(homeOf(p, u))
      OBVIOUS
    <2>1. temp(u) \in Place(round, stk_size) /\ temp(u)[1] = "temp" /\ temp(u)[2] = u
      BY DEF Place, temp
    <2> QED
      BY <2>1 DEF homes
  <1>2. \A s \in 1..stk_size : homes(p)[slot(s)] = slot(s)
    <2> SUFFICES ASSUME NEW s \in 1..stk_size PROVE homes(p)[slot(s)] = slot(s)
      OBVIOUS
    <2>1. slot(s) \in Place(round, stk_size) /\ slot(s)[1] # "temp"
      BY DEF Place, slot
    <2> QED
      BY <2>1 DEF homes
  <1>3. \A u \in Bank : p[u] \in Reg
    BY DEF Spilled
  <1>4. \A u \in Reg : homeOf(p, u) = u
    BY DEF Allowed, homeOf
  <1>5. \A u \in Bank : homeOf(p, u) \in Reg /\ isFloat(homeOf(p, u)) = isf
    BY <1>3 DEF Allowed, homeOf
  <1>6. Reg \subseteq Temporary(round)
    BY TempsAssumption DEF Temporary, Named
  <1>7. \A u \in Temporary(round) : homeOf(p, u) \in Temporary(round)
    BY <1>5, <1>6 DEF homeOf
  <1>8. ASSUME ~ isf, NEW u \in Occurring PROVE homeOf(p, u) \in Reg
    <2>1. CASE u \in Bank
      BY <1>5, <2>1
    <2>2. CASE u \notin Bank
      <3>1. isFloat(u) # isf
        BY <2>2 DEF Bank, Occurring
      <3>2. isFloat(u) \in BOOLEAN /\ isf \in BOOLEAN
        BY DEF isFloat, Shape
      <3>3. isFloat(u)
        BY <1>8, <3>1, <3>2
      <3> QED
        BY <1>8, <2>2, <3>3 DEF Shape, homeOf
    <2> QED
      BY <2>1, <2>2
  <1> QED
    BY <1>1, <1>2, <1>4, <1>5, <1>7, <1>8

LEMMA HomesApart ==
  ASSUME Shape, NEW p, Allowed(p), Spilled(p) = {}, NEW i \in DOMAIN il, NEW j \in succ(i)
  PROVE  keepsApart(homes(p), i, j)
  <1> DEFINE x == il[i]
             w == homes(p)
  <1> SUFFICES ASSUME NEW l \in alive(j), NEW k \in DOMAIN written(x),
                      w[l] = w[written(x)[k]], l # written(x)[k]
               PROVE  x.op = "move" /\ l = read(x)
    BY DEF keepsApart
  <1>0. j \in DOMAIN il /\ liveIn[j] \subseteq Occurring
    BY Alive DEF succ
  <1>1. CASE x.op = "store"
    <2>1. written(x)[k] = slot(x.slot) /\ x.slot \in 1..stk_size
      BY <1>1, Carrying DEF written
    <2>2. w[l] = slot(x.slot)
      BY <2>1, Homes
    <2>3. CASE l \in {slot(s) : s \in 1..stk_size}
      BY <2>1, <2>2, <2>3, Homes
    <2>4. CASE l \notin {slot(s) : s \in 1..stk_size}
      <3>1. PICK u \in liveIn[j] : l = temp(u)
        BY <2>4 DEF alive
      <3>2. w[l] = temp(homeOf(p, u))
        BY <1>0, <3>1, Homes, Items
      <3> QED
        BY <2>2, <3>2 DEF temp, slot
    <2> QED
      BY <2>3, <2>4
  <1>2. CASE x.op # "store"
    <2> DEFINE d == x.dst[k]
    <2>1. k \in DOMAIN x.dst /\ written(x)[k] = temp(d) /\ d \in Temps(x.dst) /\ d \in Occurring
      BY <1>2, Items DEF written, Temps
    <2>2. w[l] = temp(homeOf(p, d))
      BY <2>1, Homes, Items
    <2>3. CASE l \in {slot(s) : s \in 1..stk_size}
      <3>1. w[l] = l
        BY <2>3, Homes
      <3> QED
        BY <2>2, <2>3, <3>1 DEF temp, slot
    <2>4. CASE l \notin {slot(s) : s \in 1..stk_size}
      <3>1. PICK u \in liveIn[j] : l = temp(u)
        BY <2>4 DEF alive
      <3>2. w[l] = temp(homeOf(p, u)) /\ u \in Occurring
        BY <1>0, <3>1, Homes, Items
      <3>3. homeOf(p, u) = homeOf(p, d) /\ u # d
        BY <2>1, <2>2, <3>1, <3>2 DEF temp
      <3>4. \A v \in Occurring : v \in Bank <=> isFloat(v) = isf
        BY DEF Bank, Occurring
      <3>5. u \in Bank /\ d \in Bank
        <4>1. ASSUME u \in Bank, d \notin Bank PROVE FALSE
          BY <2>1, <3>3, <3>4, <4>1, Homes DEF homeOf
        <4>2. ASSUME u \notin Bank, d \in Bank PROVE FALSE
          BY <3>2, <3>3, <3>4, <4>2, Homes DEF homeOf
        <4>3. ASSUME u \notin Bank, d \notin Bank PROVE FALSE
          BY <3>3, <4>3 DEF homeOf
        <4> QED
          BY <4>1, <4>2, <4>3
      <3>6. p[u] = p[d]
        BY <3>3, <3>5 DEF homeOf
      <3>7. x.op = "move" /\ u = x.src[1]
        <4> HIDE DEF d
        <4> QED
          BY <2>1, <3>1, <3>3, <3>5, <3>6, Apart
      <3> QED
        BY <3>1, <3>7 DEF read
    <2> QED
      BY <2>3, <2>4
  <1> QED
    BY <1>1, <1>2

LEMMA Unread ==
  ASSUME NEW P, NEW x, NEW D, NEW b, NEW l, NEW t, NEW Q, Pulled(P, x, D, b, l, t, Q),
         NEW y, y.of = x.of, y.op = x.op, NEW c, carries(x) /\ 1 \in DOMAIN D => c = b
  PROVE  Pulled(P, y, D, c, l, t, Q)
  BY DEF Pulled, carries

LEMMA Later ==
  ASSUME NEW r \in Nat
  PROVE  /\ Temporary(r) \subseteq Temporary(r + 1)
         /\ \A size : Place(r, size) \subseteq Place(r + 1, size)
  <1>1. Temporary(r) \subseteq Temporary(r + 1)
    <2> SUFFICES ASSUME NEW u \in Temporary(r), u \notin Named PROVE u \in Temporary(r + 1)
      BY DEF Temporary
    <2>1. u \in Made /\ u[2] < r
      BY DEF Temporary
    <2>2. u[2] \in Nat
      BY <2>1 DEF Made
    <2> QED
      BY <2>1, <2>2 DEF Temporary
  <1> QED
    BY <1>1 DEF Place

LEMMA Placed ==
  ASSUME Shape, NEW p, Allowed(p), Spilled(p) = {}, NEW s \in Seq(Temporary(round))
  PROVE  /\ placed(s, p) \in Seq(Temporary(round))
         /\ Len(placed(s, p)) = Len(s) /\ DOMAIN placed(s, p) = DOMAIN s
         /\ \A k \in DOMAIN s : placed(s, p)[k] = homeOf(p, s[k])
  <1>1. \A k \in DOMAIN s : placed(s, p)[k] = homeOf(p, s[k]) /\ homeOf(p, s[k]) \in Temporary(round)
    BY Homes DEF placed, homeOf
  <1>2. DOMAIN placed(s, p) = DOMAIN s /\ DOMAIN s = 1..Len(s) /\ Len(s) \in Nat
    BY DEF placed
  <1>3. placed(s, p) = [k \in DOMAIN s |-> placed(s, p)[k]]
    BY DEF placed
  <1>4. placed(s, p) \in [1..Len(s) -> Temporary(round)]
    BY <1>1, <1>2, <1>3
  <1>5. placed(s, p) \in Seq(Temporary(round)) /\ Len(placed(s, p)) = Len(s)
    BY <1>2, <1>4
  <1> QED
    BY <1>1, <1>2, <1>5

(* What becomes of an instruction. *)
Turned(x, y, p) ==
  /\ y.op = x.op /\ y.of = x.of /\ y.jumps = x.jumps /\ y.label = x.label /\ y.slot = x.slot
  /\ \/ y.gone = x.gone /\ y.dst = placed(x.dst, p) /\ y.src = placed(x.src, p)
     \/ /\ x.op = "move" /\ y.gone = TRUE /\ y.dst = << >> /\ y.src = << >>
        /\ placed(x.dst, p) = placed(x.src, p)

LEMMA Outs ==
  ASSUME Shape, NEW p, Allowed(p), Spilled(p) = {}, NEW i \in DOMAIN il
  PROVE  Turned(il[i], out(il[i], p), p) /\ out(il[i], p) \in Entry(round + 1)
  <1> DEFINE x == il[i]
             y == out(x, p)
             z == replaced(x, p)
  <1>0. x \in Entry(round)
    BY Items
  <1>1. placed(x.dst, p) \in Seq(Temporary(round)) /\ placed(x.src, p) \in Seq(Temporary(round))
    BY Items, Placed
  <1> HIDE DEF x
  <1>2. /\ z.op = x.op /\ z.of = x.of /\ z.jumps = x.jumps /\ z.label = x.label /\ z.slot = x.slot
        /\ z.gone = x.gone /\ z.dst = placed(x.dst, p) /\ z.src = placed(x.src, p)
        /\ z \in Entry(round)
    <2> DEFINE a == placed(x.dst, p)
               b == placed(x.src, p)
    <2>1. z = [x EXCEPT !.src = b, !.dst = a]
      BY DEF replaced
    <2> HIDE DEF a, b, z
    <2>2. a \in Seq(Temporary(round)) /\ b \in Seq(Temporary(round))
      BY <1>1 DEF a, b
    <2> QED
      BY <1>0, <2>1, <2>2 DEF Entry, a, b
  <1>3. LET g == Gone(x)
        IN  /\ g.op = x.op /\ g.of = x.of /\ g.jumps = x.jumps /\ g.label = x.label /\ g.slot = x.slot
            /\ g.gone = TRUE /\ g.dst = << >> /\ g.src = << >>
            /\ g \in Entry(round)
    <2>1. << >> \in Seq(Temporary(round))
      OBVIOUS
    <2> QED
      BY <1>0, <2>1 DEF Entry, Gone
  <1>4. Entry(round) \subseteq Entry(round + 1)
    <2>1. Seq(Temporary(round)) \subseteq Seq(Temporary(round + 1))
      <3>1. Temporary(round) \subseteq Temporary(round + 1)
        BY Later DEF Shape
      <3> HIDE DEF Temporary
      <3> QED
        BY <3>1
    <2> QED
      BY <2>1 DEF Entry
  <1>5. CASE x.op = "move" /\ z.src = z.dst
    <2>1. y = Gone(x)
      BY <1>5 DEF out, x
    <2> HIDE DEF z, y
    <2>2. Turned(x, y, p) /\ y \in Entry(round)
      BY <1>2, <1>3, <1>5, <2>1 DEF Turned
    <2> QED
      BY <1>4, <2>2 DEF x, y
  <1>6. CASE ~ (x.op = "move" /\ z.src = z.dst)
    <2>1. y = z
      BY <1>6 DEF out, x
    <2> HIDE DEF z, y
    <2>2. Turned(x, y, p) /\ y \in Entry(round)
      BY <1>2, <2>1 DEF Turned
    <2> QED
      BY <1>4, <2>2 DEF x, y
  <1> QED
    BY <1>5, <1>6

(* Where values are when only registers are left. *)
RegPlace(size) == {temp(u) : u \in Reg} \cup {slot(s) : s \in 1..size}

(* What is known of a place after the last round of a bank. *)
Homed(R, p) == [i \in DOMAIN il |-> Renamed(R[i], alive(i), homes(p))]

LEMMA OutKeeps ==
  ASSUME Shape, NEW p, Allowed(p), Spilled(p) = {},
         NEW R, Holding(il, R, round, stk_size), NEW ahead, Certified(prog, il, R, ahead),
         NEW i \in DOMAIN il, NEW j \in succ(i), NEW m, NEW t,
         <<m, t>> \in Renamed(R[j], alive(j), homes(p)), NEW y, y = out(il[i], p)
  PROVE  Keeps(prog, y, m, t, Renamed(R[i], alive(i), homes(p)))
  <1> DEFINE x == il[i]
             w == homes(p)
             Q2 == Renamed(R[i], alive(i), w)
  <1>1. keepsApart(w, i, j)
    BY HomesApart
  <1>2. /\ \A D2 : DOMAIN D2 = DOMAIN written(x) /\ (\A k \in DOMAIN D2 : D2[k] = w[written(x)[k]])
                    => Pulled(prog, x, D2, w[read(x)], m, t, Q2)
        /\ x.op = "move" /\ (1 \in DOMAIN written(x) => w[written(x)[1]] = w[read(x)])
              => \A z, b : z.of = x.of /\ z.op = "move" => Pulled(prog, z, << >>, b, m, t, Q2)
    BY <1>1, Based
  <1>3. /\ y.op = x.op /\ y.of = x.of /\ y.slot = x.slot
        /\ \/ y.gone = x.gone /\ y.dst = placed(x.dst, p) /\ y.src = placed(x.src, p)
           \/ /\ x.op = "move" /\ y.gone = TRUE /\ y.dst = << >> /\ y.src = << >>
              /\ placed(x.dst, p) = placed(x.src, p)
    BY Outs DEF Turned
  <1>4. x.dst \in Seq(Temporary(round)) /\ x.src \in Seq(Temporary(round))
    BY Items
  <1>5. \A s \in Seq(Temporary(round)) :
          /\ DOMAIN placed(s, p) = DOMAIN s
          /\ \A k \in DOMAIN s : temp(placed(s, p)[k]) = w[temp(s[k])]
    <2> SUFFICES ASSUME NEW s \in Seq(Temporary(round))
                 PROVE  /\ DOMAIN placed(s, p) = DOMAIN s
                        /\ \A k \in DOMAIN s : temp(placed(s, p)[k]) = w[temp(s[k])]
      OBVIOUS
    <2>1. \A k \in DOMAIN s : s[k] \in Temporary(round)
      OBVIOUS
    <2>2. DOMAIN placed(s, p) = DOMAIN s /\ \A k \in DOMAIN s : placed(s, p)[k] = homeOf(p, s[k])
      BY Placed
    <2> QED
      BY <2>1, <2>2, Homes
  <1>6. carries(x) /\ 1 \in DOMAIN written(x) /\ x.op # "load" => 1 \in DOMAIN x.src
    <2> SUFFICES ASSUME carries(x), 1 \in DOMAIN written(x), x.op # "load" PROVE 1 \in DOMAIN x.src
      OBVIOUS
    <2>1. Len(x.src) = 1
      BY Carrying
    <2> QED
      BY <1>4, <2>1
  <1> HIDE DEF w, Q2
  <1>7. CASE y.dst = placed(x.dst, p) /\ y.src = placed(x.src, p)
    <2>1. DOMAIN written(y) = DOMAIN written(x) /\ \A k \in DOMAIN written(y) : written(y)[k] = w[written(x)[k]]
      <3>1. CASE x.op = "store"
        <4>1. x.slot \in 1..stk_size
          BY <3>1, Carrying
        <4>2. written(x) = <<slot(x.slot)>> /\ written(y) = <<slot(x.slot)>>
          BY <1>3, <3>1 DEF written
        <4>3. w[slot(x.slot)] = slot(x.slot)
          BY <4>1, Homes DEF w
        <4> QED
          BY <4>2, <4>3
      <3>2. CASE x.op # "store"
        BY <1>3, <1>4, <1>5, <1>7, <3>2 DEF written
      <3> QED
        BY <3>1, <3>2
    <2>2. carries(x) /\ 1 \in DOMAIN written(x) => read(y) = w[read(x)]
      <3>1. CASE x.op = "load"
        <4>1. x.slot \in 1..stk_size
          BY <3>1, Carrying
        <4> QED
          BY <1>3, <3>1, <4>1, Homes DEF read, w
      <3>2. CASE x.op # "load"
        BY <1>3, <1>4, <1>5, <1>6, <1>7, <3>2 DEF read
      <3> QED
        BY <3>1, <3>2
    <2>3. Pulled(prog, x, written(y), w[read(x)], m, t, Q2)
      BY <1>2, <2>1
    <2>4. Pulled(prog, y, written(y), read(y), m, t, Q2)
      BY <1>3, <2>1, <2>2, <2>3, Unread
    <2> QED
      BY <2>4 DEF Keeps, Q2, w
  <1>8. CASE x.op = "move" /\ y.gone = TRUE /\ y.dst = << >> /\ placed(x.dst, p) = placed(x.src, p)
    <2>1. carries(x) /\ x.op # "store" /\ x.op # "load"
      BY <1>8 DEF carries
    <2>2. 1 \in DOMAIN written(x) => w[written(x)[1]] = w[read(x)]
      <3> SUFFICES ASSUME 1 \in DOMAIN written(x) PROVE w[written(x)[1]] = w[read(x)]
        OBVIOUS
      <3>1. 1 \in DOMAIN x.dst /\ written(x)[1] = temp(x.dst[1])
        BY <2>1 DEF written
      <3>2. 1 \in DOMAIN x.src /\ read(x) = temp(x.src[1])
        BY <1>6, <2>1 DEF read
      <3>3. temp(placed(x.dst, p)[1]) = w[temp(x.dst[1])] /\ temp(placed(x.src, p)[1]) = w[temp(x.src[1])]
        BY <1>4, <1>5, <3>1, <3>2
      <3> QED
        BY <1>8, <3>1, <3>2, <3>3
    <2>3. Pulled(prog, y, << >>, read(y), m, t, Q2)
      BY <1>2, <1>3, <1>8, <2>2
    <2>4. written(y) = << >>
      <3>1. y.op # "store" /\ DOMAIN y.dst = {}
        BY <1>3, <1>8
      <3> QED
        BY <3>1 DEF written
    <2> QED
      BY <2>3, <2>4 DEF Keeps, Q2, w
  <1> QED
    BY <1>3, <1>7, <1>8

LEMMA Transcribed ==
  ASSUME Shape, NEW p, Allowed(p), Spilled(p) = {},
         NEW R, Holding(il, R, round, stk_size), NEW ahead, Certified(prog, il, R, ahead),
         NEW c, c = [i \in DOMAIN il |-> out(il[i], p)]
  PROVE  \E R2 : /\ Holding(c, R2, round + 1, stk_size) /\ Certified(prog, c, R2, ahead)
                 /\ ~ isf => \A i \in DOMAIN c : \A l, t : <<l, t>> \in R2[i] => l \in RegPlace(stk_size)
  <1> DEFINE R2 == Homed(R, p)
  <1>0. PICK w : w = homes(p)
    OBVIOUS
  <1>1. /\ DOMAIN il = 1..Len(il) /\ Len(il) \in Nat
        /\ DOMAIN c = DOMAIN il /\ Len(c) = Len(il)
        /\ \A i \in DOMAIN il : c[i] = out(il[i], p)
    BY Items
  <1>2. \A i \in DOMAIN il : c[i].op = il[i].op /\ c[i].of = il[i].of /\ c[i].jumps = il[i].jumps
                             /\ c[i].label = il[i].label
    BY <1>1, Outs DEF Turned
  <1>3. \A i \in DOMAIN il : follows(c, i) = succ(i)
    BY <1>1, <1>2 DEF follows, succ
  <1>4. DOMAIN R2 = DOMAIN il /\ \A i \in DOMAIN il : R2[i] = Renamed(R[i], alive(i), w)
    BY <1>0 DEF Homed
  <1>5. \A i \in DOMAIN il : R[i] \in SUBSET (Place(round, stk_size) \X Named)
    BY DEF Holding
  <1>6. ASSUME NEW i \in DOMAIN il
        PROVE  /\ \A m, t : <<m, t>> \in R2[i] => \E l \in alive(i) : <<l, t>> \in R[i] /\ m = w[l]
               /\ \A l \in alive(i) : \A t : <<l, t>> \in R[i] => <<w[l], t>> \in R2[i]
    <2>1. PICK Q, A : Q = R[i] /\ A = alive(i)
      OBVIOUS
    <2>2. \A z \in Q : z = <<z[1], z[2]>>
      BY <1>5, <2>1
    <2>3. /\ \A m, t : <<m, t>> \in Renamed(Q, A, w) => \E l \in A : <<l, t>> \in Q /\ m = w[l]
          /\ \A l \in A : \A t : <<l, t>> \in Q => <<w[l], t>> \in Renamed(Q, A, w)
      BY <2>2, RenamedSet
    <2> QED
      BY <1>4, <2>1, <2>3
  <1> HIDE DEF R2
  <1>7. ASSUME NEW i \in DOMAIN il, NEW l \in alive(i)
        PROVE  /\ w[l] \in Place(round + 1, stk_size)
               /\ ~ isf => w[l] \in RegPlace(stk_size)
    <2>1. CASE l \in {slot(s) : s \in 1..stk_size}
      BY <1>0, <2>1, Homes DEF Place, RegPlace
    <2>2. CASE l \notin {slot(s) : s \in 1..stk_size}
      <3>1. PICK u \in liveIn[i] : l = temp(u)
        BY <2>2 DEF alive
      <3>2. u \in Occurring /\ u \in Temporary(round)
        BY Alive, Items
      <3>3. w[l] = temp(homeOf(p, u)) /\ homeOf(p, u) \in Temporary(round)
            /\ (~ isf => homeOf(p, u) \in Reg)
        BY <1>0, <3>1, <3>2, Homes
      <3>4. homeOf(p, u) \in Temporary(round + 1)
        BY <3>3, Later DEF Shape
      <3> QED
        BY <3>3, <3>4 DEF Place, RegPlace
    <2> QED
      BY <2>1, <2>2
  <1>8. Holding(c, R2, round + 1, stk_size)
    <2>1. ASSUME NEW i \in DOMAIN il, NEW z \in R2[i] PROVE z \in Place(round + 1, stk_size) \X Named
      <3>1. \E y \in R[i] : y[1] \in alive(i) /\ z = <<w[y[1]], y[2]>>
        BY <1>4, <2>1 DEF Renamed
      <3>2. PICK y \in R[i] : y[1] \in alive(i) /\ z = <<w[y[1]], y[2]>>
        BY <3>1
      <3>3. y[2] \in Named
        BY <1>5
      <3> QED
        BY <1>7, <3>2, <3>3
    <2>2. \A i \in DOMAIN il : R2[i] \in SUBSET (Place(round + 1, stk_size) \X Named)
      BY <2>1
    <2>3. R2 = [i \in DOMAIN il |-> R2[i]]
      BY <1>0 DEF R2, Homed
    <2> QED
      BY <1>1, <1>4, <2>2, <2>3 DEF Holding
  <1>9. Certified(prog, c, R2, ahead)
    <2>1. /\ ahead \in [1..(Len(c) + 1) -> Nat] /\ ahead[1] = 1
          /\ \A i \in DOMAIN c :
               IF c[i].of = 0 THEN ahead[i + 1] = ahead[i]
               ELSE c[i].of = ahead[i] /\ ahead[i + 1] = ahead[i] + 1
      BY <1>1, <1>2 DEF Certified
    <2>2. ASSUME NEW i \in DOMAIN c, NEW j \in follows(c, i), NEW m, NEW t, <<m, t>> \in R2[j]
          PROVE  Keeps(prog, c[i], m, t, R2[i])
      <3>1. j \in succ(i) /\ j \in DOMAIN il /\ i \in DOMAIN il
        BY <1>1, <1>3 DEF succ
      <3>2. <<m, t>> \in Renamed(R[j], alive(j), homes(p))
        BY <1>0, <1>4, <2>2, <3>1
      <3>3. Keeps(prog, c[i], m, t, Renamed(R[i], alive(i), homes(p)))
        BY <1>1, <3>1, <3>2, OutKeeps
      <3> QED
        BY <1>0, <1>4, <3>1, <3>3
    <2>3. ASSUME NEW i \in DOMAIN c, c[i].of # 0, c[i].op = "oper", NEW k \in DOMAIN c[i].src
          PROVE  <<temp(c[i].src[k]), prog[c[i].of].src[k]>> \in R2[i]
      <3> DEFINE x == il[i]
                 t == prog[x.of].src[k]
      <3>0. i \in DOMAIN il /\ x.op = "oper" /\ x.of # 0 /\ x.of = c[i].of
        BY <1>1, <1>2, <2>3
      <3>1. c[i].src = placed(x.src, p)
        <4>1. x.op # "move" /\ c[i] = out(x, p)
          BY <1>1, <3>0
        <4> QED
          BY <3>0, <4>1, Outs DEF Turned
      <3>2. x.src \in Seq(Temporary(round))
        BY <3>0, Items
      <3>3. k \in DOMAIN x.src /\ c[i].src[k] = homeOf(p, x.src[k]) /\ x.src[k] \in Temporary(round)
        <4>1. DOMAIN placed(x.src, p) = DOMAIN x.src
              /\ \A h \in DOMAIN x.src : placed(x.src, p)[h] = homeOf(p, x.src[h])
          BY <3>2, Placed
        <4> QED
          BY <2>3, <3>1, <3>2, <4>1
      <3>4. temp(c[i].src[k]) = w[temp(x.src[k])]
        BY <1>0, <3>3, Homes
      <3>5. <<temp(x.src[k]), t>> \in R[i]
        BY <3>0, <3>3 DEF Certified
      <3>6. temp(x.src[k]) \in alive(i)
        BY <3>0, <3>3, Alive
      <3> QED
        BY <1>6, <3>0, <3>4, <3>5, <3>6
    <2>4. ASSUME 1 \in DOMAIN c, NEW m, NEW t, <<m, t>> \in R2[1], t \in Reg PROVE m = temp(t)
      <3>1. 1 \in DOMAIN il
        BY <1>1, <2>4
      <3>2. PICK l \in alive(1) : <<l, t>> \in R[1] /\ m = w[l]
        BY <1>6, <2>4, <3>1
      <3>3. l = temp(t)
        BY <2>4, <3>1, <3>2 DEF Certified
      <3>4. t \in Temporary(round)
        BY <2>4, TempsAssumption DEF Temporary, Named
      <3> QED
        BY <1>0, <2>4, <3>2, <3>3, <3>4, Homes
    <2> QED
      BY <2>1, <2>2, <2>3, <2>4 DEF Certified
  <1>10. ASSUME ~ isf, NEW i \in DOMAIN c, NEW l, NEW t, <<l, t>> \in R2[i] PROVE l \in RegPlace(stk_size)
    <2>0. i \in DOMAIN il
      BY <1>1
    <2>3. \A m, u : <<m, u>> \in R2[i] => \E n \in alive(i) : <<n, u>> \in R[i] /\ m = w[n]
      BY <1>6, <2>0
    <2>1. \E n \in alive(i) : <<n, t>> \in R[i] /\ l = w[n]
      BY <1>10, <2>3
    <2>2. PICK n \in alive(i) : <<n, t>> \in R[i] /\ l = w[n]
      BY <2>1
    <2> QED
      BY <1>1, <1>7, <1>10, <2>2
  <1> QED
    BY <1>8, <1>9, <1>10

-----------------------------------------------------------------------------
(* A round that spills: the places on the stack are new. *)

keysOf(p) == {p[t] : t \in Spilled(p)}
sizeAfter(p) == IF isf THEN stk_size ELSE stk_size + Cardinality(keysOf(p) \ DOMAIN stkmap)

LEMMA FiniteRange ==
  ASSUME NEW S, NEW f, f = [k \in S |-> f[k]], IsFiniteSet(S)
  PROVE  IsFiniteSet({f[k] : k \in S})
  <1> DEFINE T == {f[k] : k \in S}
  <1>1. f \in [S -> T] /\ \A u \in T : \E k \in S : f[k] = u
    OBVIOUS
  <1> HIDE DEF T
  <1>2. f \in Surjection(S, T)
    BY <1>1 DEF Surjection
  <1>3. IsFiniteSet(T)
    BY <1>2, FS_Surjection
  <1> QED
    BY <1>3 DEF T

LEMMA OccurringFinite ==
  ASSUME Shape
  PROVE  IsFiniteSet(Occurring)
  <1> DEFINE at(i) == Temps(il[i].dst) \cup Temps(il[i].src)
             F == {at(i) : i \in DOMAIN il}
  <1>1. \A s \in Seq(Temporary(round)) : IsFiniteSet(Temps(s))
    <2> SUFFICES ASSUME NEW s \in Seq(Temporary(round)) PROVE IsFiniteSet({s[k] : k \in DOMAIN s})
      BY DEF Temps
    <2>1. IsFiniteSet(DOMAIN s)
      <3>1. DOMAIN s = 1..Len(s) /\ Len(s) \in Nat
        OBVIOUS
      <3> QED
        BY <3>1, FS_Interval
    <2>2. s = [k \in DOMAIN s |-> s[k]]
      OBVIOUS
    <2> QED
      BY <2>1, <2>2, FiniteRange
  <1>2. \A i \in DOMAIN il : IsFiniteSet(at(i))
    <2> SUFFICES ASSUME NEW i \in DOMAIN il PROVE IsFiniteSet(at(i))
      OBVIOUS
    <2>1. IsFiniteSet(Temps(il[i].dst)) /\ IsFiniteSet(Temps(il[i].src))
      BY <1>1, Items
    <2> QED
      BY <2>1, FS_Union
  <1>3. IsFiniteSet(F)
    <2>1. IsFiniteSet(DOMAIN il)
      BY Items, FS_Interval
    <2> DEFINE f == [i \in DOMAIN il |-> at(i)]
    <2>2. f = [i \in DOMAIN il |-> f[i]] /\ F = {f[i] : i \in DOMAIN il}
      OBVIOUS
    <2> HIDE DEF f, F
    <2> QED
      BY <2>1, <2>2, FiniteRange
  <1>4. \A X \in F : IsFiniteSet(X)
    BY <1>2
  <1>5. IsFiniteSet(UNION F)
    <2> HIDE DEF F
    <2> QED
      BY <1>3, <1>4, FS_UNION
  <1> QED
    BY <1>5 DEF Occurring

LEMMA Keys ==
  ASSUME Shape, NEW p, Allowed(p)
  PROVE  /\ Spilled(p) \subseteq Occurring /\ Spilled(p) \cap Reg = {}
         /\ keysOf(p) \subseteq Spilled(p) /\ IsFiniteSet(keysOf(p))
         /\ keysOf(p) \cap DOMAIN stkmap = {} /\ keysOf(p) \ DOMAIN stkmap = keysOf(p)
         /\ \A t \in Spilled(p) : p[t] \in keysOf(p)
         /\ \A t \in Spilled(p) : isFloat(t) = isf
  <1>1. Bank \subseteq Occurring /\ \A t \in Bank : isFloat(t) = isf
    BY DEF Bank, Occurring
  <1>2. Spilled(p) \subseteq Bank
    BY DEF Spilled
  <1>3. Spilled(p) \cap Reg = {}
    BY DEF Spilled, Allowed
  <1>4. \A t \in Spilled(p) : p[t] \in Spilled(p)
    BY DEF Spilled, Allowed
  <1>5. keysOf(p) \subseteq Spilled(p)
    BY <1>4 DEF keysOf
  <1>6. IsFiniteSet(keysOf(p))
    BY <1>1, <1>2, <1>5, OccurringFinite, FS_Subset
  <1>7. keysOf(p) \cap DOMAIN stkmap = {}
    BY <1>1, <1>2, <1>5 DEF Shape
  <1>8. \A t \in Spilled(p) : p[t] \in keysOf(p)
    BY DEF keysOf
  <1> QED
    BY <1>1, <1>2, <1>3, <1>5, <1>6, <1>7, <1>8

LEMMA NewPlaces ==
  ASSUME Shape, NEW p, Allowed(p), NEW places, places = placesOf(keysOf(p))
  PROVE  /\ DOMAIN places = DOMAIN stkmap \cup keysOf(p)
         /\ sizeAfter(p) \in Nat /\ stk_size <= sizeAfter(p)
         /\ isf => sizeAfter(p) = stk_size
         /\ \A key \in keysOf(p) :
              IF isf THEN /\ places[key] \in Temporary(round + 1) \ Temporary(round)
                          /\ places[key] \notin Named /\ places[key][1] = "int"
              ELSE places[key] \in (stk_size + 1)..sizeAfter(p)
         /\ \A k1, k2 \in keysOf(p) : places[k1] = places[k2] => k1 = k2
  <1> DEFINE keys == keysOf(p)
             new == listed(keys)
             number(key) == CHOOSE n \in DOMAIN new : new[n] = key
             N == Cardinality(keys)
  <1>1. keys \cap DOMAIN stkmap = {} /\ keys \ DOMAIN stkmap = keys /\ IsFiniteSet(keys)
    BY Keys
  <1>2. N \in Nat /\ new \in [1..N -> keys] /\ \A key \in keys : \E n \in 1..N : new[n] = key
    BY <1>1, Listed
  <1>3. DOMAIN places = DOMAIN stkmap \cup keys
        /\ \A key \in keys : places[key] = IF isf THEN sptmp(number(key)) ELSE stk_size + number(key)
    BY <1>1 DEF placesOf
  <1>4. \A key \in keys : number(key) \in 1..N /\ new[number(key)] = key
    BY <1>2
  <1>5. round \in Nat /\ stk_size \in Nat /\ isf \in BOOLEAN
    BY DEF Shape
  <1>6. sizeAfter(p) = IF isf THEN stk_size ELSE stk_size + N
    BY <1>1 DEF sizeAfter
  <1> HIDE DEF number, new, N, keys
  <1>7. ASSUME NEW key \in keys, isf
        PROVE  /\ places[key] \in Temporary(round + 1) \ Temporary(round)
               /\ places[key] \notin Named /\ places[key][1] = "int"
    <2> DEFINE u == places[key]
    <2>1. u = <<"int", round, number(key), 0>>
      BY <1>3, <1>7 DEF sptmp
    <2>2. number(key) \in Nat
      BY <1>2, <1>4
    <2>3. u \in Made
      BY <1>5, <2>1, <2>2 DEF Made
    <2>4. u[1] = "int" /\ u[2] = round
      BY <2>1
    <2> HIDE DEF u
    <2>5. u \notin Named
      BY <2>3, TempsAssumption DEF Named
    <2> QED
      BY <1>5, <2>3, <2>4, <2>5 DEF u, Temporary
  <1>8. ASSUME NEW key \in keys, ~ isf PROVE places[key] \in (stk_size + 1)..sizeAfter(p)
    BY <1>2, <1>3, <1>4, <1>5, <1>6, <1>8
  <1>9. ASSUME NEW k1 \in keys, NEW k2 \in keys, places[k1] = places[k2] PROVE k1 = k2
    <2>1. number(k1) = number(k2)
      <3>1. CASE isf
        BY <1>3, <1>9, <3>1 DEF sptmp
      <3>2. CASE ~ isf
        <4>1. number(k1) \in Nat /\ number(k2) \in Nat
          BY <1>2, <1>4
        <4>2. stk_size + number(k1) = stk_size + number(k2)
          BY <1>3, <1>9, <3>2
        <4> QED
          BY <1>5, <4>1, <4>2
      <3> QED
        BY <3>1, <3>2
    <2> QED
      BY <1>4, <2>1
  <1> QED
    BY <1>2, <1>3, <1>5, <1>6, <1>7, <1>8, <1>9 DEF keys

LEMMA NewTemps ==
  ASSUME Shape, NEW i \in Nat, NEW k \in Int
  PROVE  /\ newtemp(i, k) \in Temporary(round + 1) \ Temporary(round)
         /\ newtemp(i, k) \notin Named /\ isFloat(newtemp(i, k)) = isf
         /\ newtemp(i, k)[1] = (IF isf THEN "float" ELSE "int")
         /\ \A h : newtemp(i, h) = newtemp(i, k) => h = k
  <1> DEFINE u == newtemp(i, k)
  <1>1. round \in Nat /\ isf \in BOOLEAN
    BY DEF Shape
  <1>2. u = <<IF isf THEN "float" ELSE "int", round, i, k>>
    BY DEF newtemp
  <1>3. u \in Made /\ u[2] = round /\ u[1] = (IF isf THEN "float" ELSE "int")
    BY <1>1, <1>2 DEF Made
  <1>4. \A h : newtemp(i, h) = u => h = k
    BY DEF newtemp
  <1> HIDE DEF u
  <1>5. u \notin Named
    BY <1>3, TempsAssumption DEF Named
  <1>6. isFloat(u) = isf
    <2>1. u \notin Floats /\ u \notin Ints
      BY <1>5 DEF Named
    <2>2. CASE isf
      BY <1>3, <2>1, <2>2 DEF isFloat
    <2>3. CASE ~ isf
      BY <1>1, <1>3, <2>1, <2>3 DEF isFloat
    <2> QED
      BY <2>2, <2>3
  <1>7. u \in Temporary(round + 1) /\ u \notin Temporary(round)
    BY <1>1, <1>3, <1>5 DEF Temporary
  <1> QED
    BY <1>3, <1>4, <1>5, <1>6, <1>7 DEF u

(* Where a temporary is after the round: what is spilled on the stack. *)
onStack(places, key) == IF isf THEN temp(places[key]) ELSE slot(places[key])
placeOf(p, places, u) == IF u \in Spilled(p) THEN onStack(places, p[u]) ELSE temp(u)
stackHomes(p, places) ==
  [l \in Place(round, stk_size) |-> IF l[1] = "temp" THEN placeOf(p, places, l[2]) ELSE l]

LEMMA StackHomes ==
  ASSUME Shape, NEW p, Allowed(p), NEW places, places = placesOf(keysOf(p))
  PROVE  /\ \A u \in Temporary(round) : stackHomes(p, places)[temp(u)] = placeOf(p, places, u)
         /\ \A s \in 1..stk_size : stackHomes(p, places)[slot(s)] = slot(s)
         /\ \A u \in Temporary(round) :
              /\ placeOf(p, places, u) \in Place(round + 1, sizeAfter(p))
              /\ \A s \in 1..stk_size : placeOf(p, places, u) # slot(s)
              /\ \A v \in Temporary(round) : placeOf(p, places, u) = temp(v) => u = v /\ u \notin Spilled(p)
              /\ \A i \in Nat, k \in Int : placeOf(p, places, u) # temp(newtemp(i, k))
         /\ \A u, v \in Temporary(round) :
              placeOf(p, places, u) = placeOf(p, places, v)
                => u = v \/ (u \in Spilled(p) /\ v \in Spilled(p) /\ p[u] = p[v])
  <1>0. round \in Nat /\ stk_size \in Nat /\ isf \in BOOLEAN
    BY DEF Shape
  <1>1. \A u \in Temporary(round) : stackHomes(p, places)[temp(u)] = placeOf(p, places, u)
    <2> SUFFICES ASSUME NEW u \in Temporary(round)
                 PROVE  stackHomes(p, places)[temp(u)] = placeOf(p, places, u)
      OBVIOUS
    <2>1. temp(u) \in Place(round, stk_size) /\ temp(u)[1] = "temp" /\ temp(u)[2] = u
      BY DEF Place, temp
    <2> QED
      BY <2>1 DEF stackHomes
  <1>2. \A s \in 1..stk_size : stackHomes(p, places)[slot(s)] = slot(s)
    <2> SUFFICES ASSUME NEW s \in 1..stk_size PROVE stackHomes(p, places)[slot(s)] = slot(s)
      OBVIOUS
    <2>1. slot(s) \in Place(round, stk_size) /\ slot(s)[1] # "temp"
      BY DEF Place, slot
    <2> QED
      BY <2>1 DEF stackHomes
  <1>3. ASSUME NEW u \in Spilled(p), isf
        PROVE  /\ placeOf(p, places, u) = temp(places[p[u]])
               /\ places[p[u]] \in Temporary(round + 1) /\ places[p[u]] \notin Temporary(round)
               /\ places[p[u]][1] = "int" /\ p[u] \in keysOf(p)
    <2>1. p[u] \in keysOf(p)
      BY Keys
    <2>2. places[p[u]] \in Temporary(round + 1) \ Temporary(round) /\ places[p[u]][1] = "int"
      BY <1>3, <2>1, NewPlaces
    <2>3. placeOf(p, places, u) = temp(places[p[u]])
      BY <1>3 DEF placeOf, onStack
    <2> QED
      BY <2>1, <2>2, <2>3
  <1>4. ASSUME NEW u \in Spilled(p), ~ isf
        PROVE  /\ placeOf(p, places, u) = slot(places[p[u]])
               /\ places[p[u]] \in (stk_size + 1)..sizeAfter(p) /\ p[u] \in keysOf(p)
    <2>1. p[u] \in keysOf(p)
      BY Keys
    <2>2. places[p[u]] \in (stk_size + 1)..sizeAfter(p)
      BY <1>4, <2>1, NewPlaces
    <2>3. placeOf(p, places, u) = slot(places[p[u]])
      BY <1>4 DEF placeOf, onStack
    <2> QED
      BY <2>1, <2>2, <2>3
  <1>5. \A u : u \notin Spilled(p) => placeOf(p, places, u) = temp(u)
    BY DEF placeOf
  <1>6. ASSUME NEW u \in Temporary(round)
        PROVE  /\ placeOf(p, places, u) \in Place(round + 1, sizeAfter(p))
               /\ \A s \in 1..stk_size : placeOf(p, places, u) # slot(s)
               /\ \A v \in Temporary(round) : placeOf(p, places, u) = temp(v) => u = v /\ u \notin Spilled(p)
               /\ \A i \in Nat, k \in Int : placeOf(p, places, u) # temp(newtemp(i, k))
    <2>0. \A i \in Nat, k \in Int : newtemp(i, k) \notin Temporary(round) /\ newtemp(i, k)[1] = (IF isf THEN "float" ELSE "int")
      BY NewTemps
    <2>1. CASE u \notin Spilled(p)
      <3>1. u \in Temporary(round + 1)
        BY <1>0, Later
      <3> QED
        BY <1>5, <2>0, <2>1, <3>1 DEF Place, temp, slot
    <2>2. CASE u \in Spilled(p) /\ isf
      <3>1. /\ placeOf(p, places, u) = temp(places[p[u]])
            /\ places[p[u]] \in Temporary(round + 1) /\ places[p[u]] \notin Temporary(round)
            /\ places[p[u]][1] = "int"
        BY <1>3, <2>2
      <3> QED
        BY <2>0, <2>2, <3>1 DEF Place, temp, slot
    <2>3. CASE u \in Spilled(p) /\ ~ isf
      <3>1. placeOf(p, places, u) = slot(places[p[u]]) /\ places[p[u]] \in (stk_size + 1)..sizeAfter(p)
        BY <1>4, <2>3
      <3>2. places[p[u]] \in 1..sizeAfter(p) /\ places[p[u]] \notin 1..stk_size
        BY <1>0, <3>1, NewPlaces
      <3> QED
        BY <3>1, <3>2 DEF Place, temp, slot
    <2> QED
      BY <1>0, <2>1, <2>2, <2>3
  <1>7. ASSUME NEW u \in Temporary(round), NEW v \in Temporary(round),
               placeOf(p, places, u) = placeOf(p, places, v), u # v
        PROVE  u \in Spilled(p) /\ v \in Spilled(p) /\ p[u] = p[v]
    <2>1. u \in Spilled(p)
      BY <1>5, <1>6, <1>7
    <2>2. v \in Spilled(p)
      BY <1>5, <1>6, <1>7
    <2>3. places[p[u]] = places[p[v]] /\ p[u] \in keysOf(p) /\ p[v] \in keysOf(p)
      <3>1. CASE isf
        BY <1>3, <1>7, <2>1, <2>2, <3>1 DEF temp
      <3>2. CASE ~ isf
        BY <1>4, <1>7, <2>1, <2>2, <3>2 DEF slot
      <3> QED
        BY <3>1, <3>2
    <2> QED
      BY <2>1, <2>2, <2>3, NewPlaces
  <1> QED
    BY <1>1, <1>2, <1>6, <1>7

LEMMA StackApart ==
  ASSUME Shape, NEW p, Allowed(p), NEW places, places = placesOf(keysOf(p)),
         NEW i \in DOMAIN il, NEW j \in succ(i)
  PROVE  keepsApart(stackHomes(p, places), i, j)
  <1> DEFINE x == il[i]
             w == stackHomes(p, places)
  <1> SUFFICES ASSUME NEW l \in alive(j), NEW k \in DOMAIN written(x),
                      w[l] = w[written(x)[k]], l # written(x)[k]
               PROVE  x.op = "move" /\ l = read(x)
    BY DEF keepsApart
  <1>0. j \in DOMAIN il /\ liveIn[j] \subseteq Occurring /\ Occurring \subseteq Temporary(round)
    BY Alive, Items DEF succ
  <1>1. CASE x.op = "store"
    <2>1. written(x)[k] = slot(x.slot) /\ x.slot \in 1..stk_size
      BY <1>1, Carrying DEF written
    <2>2. w[l] = slot(x.slot)
      BY <2>1, StackHomes
    <2>3. CASE l \in {slot(s) : s \in 1..stk_size}
      BY <2>1, <2>2, <2>3, StackHomes
    <2>4. CASE l \notin {slot(s) : s \in 1..stk_size}
      <3>1. PICK u \in liveIn[j] : l = temp(u)
        BY <2>4 DEF alive
      <3>2. w[l] = placeOf(p, places, u)
        BY <1>0, <3>1, StackHomes
      <3> QED
        BY <1>0, <2>1, <2>2, <3>1, <3>2, StackHomes
    <2> QED
      BY <2>3, <2>4
  <1>2. CASE x.op # "store"
    <2> DEFINE d == x.dst[k]
    <2>1. k \in DOMAIN x.dst /\ written(x)[k] = temp(d) /\ d \in Temps(x.dst) /\ d \in Temporary(round)
      BY <1>2, Items DEF written, Temps
    <2>2. w[l] = placeOf(p, places, d)
      BY <2>1, StackHomes
    <2>3. CASE l \in {slot(s) : s \in 1..stk_size}
      BY <2>1, <2>2, <2>3, StackHomes
    <2>4. CASE l \notin {slot(s) : s \in 1..stk_size}
      <3>1. PICK u \in liveIn[j] : l = temp(u)
        BY <2>4 DEF alive
      <3>2. w[l] = placeOf(p, places, u) /\ u \in Temporary(round)
        BY <1>0, <3>1, StackHomes
      <3>3. u # d
        BY <2>1, <3>1
      <3>4. u \in Spilled(p) /\ d \in Spilled(p) /\ p[u] = p[d]
        BY <2>1, <2>2, <3>2, <3>3, StackHomes
      <3>5. x.op = "move" /\ u = x.src[1]
        <4>1. u \in Bank /\ d \in Bank
          BY <3>4 DEF Spilled
        <4> HIDE DEF d
        <4> QED
          BY <2>1, <3>1, <3>3, <3>4, <4>1, Apart
      <3> QED
        BY <3>1, <3>5 DEF read
    <2> QED
      BY <2>3, <2>4
  <1> QED
    BY <1>1, <1>2

-----------------------------------------------------------------------------
(* A round that spills: the instructions that one becomes. *)

main(i, p) == [il[i] EXCEPT !.src = renamed(i, @, 1, p), !.dst = renamed(i, @, -1, p)]

(* What one instruction becomes another that works on other temporaries.   *)
Rewritten(x, y, i, p) ==
  /\ y.op = x.op /\ y.of = x.of /\ y.jumps = x.jumps /\ y.label = x.label /\ y.slot = x.slot
  /\ y.gone = x.gone /\ y.dst = renamed(i, x.dst, -1, p) /\ y.src = renamed(i, x.src, 1, p)

LEMMA RenamedOperands ==
  ASSUME Shape, NEW p, Allowed(p), NEW i \in Nat, NEW s \in Seq(Temporary(round)), NEW sign \in {1, -1}
  PROVE  /\ renamed(i, s, sign, p) \in Seq(Temporary(round + 1))
         /\ Len(renamed(i, s, sign, p)) = Len(s) /\ DOMAIN renamed(i, s, sign, p) = DOMAIN s
         /\ \A k \in DOMAIN s :
              renamed(i, s, sign, p)[k] = IF s[k] \in Spilled(p) THEN newtemp(i, sign * k) ELSE s[k]
  <1> DEFINE r == renamed(i, s, sign, p)
  <1>1. DOMAIN s = 1..Len(s) /\ Len(s) \in Nat /\ \A k \in DOMAIN s : s[k] \in Temporary(round) /\ k \in Nat
    OBVIOUS
  <1>2. r = [k \in DOMAIN s |-> IF s[k] \in Spilled(p) THEN newtemp(i, sign * k) ELSE s[k]]
    BY DEF renamed
  <1>3. ASSUME NEW k \in DOMAIN s PROVE r[k] \in Temporary(round + 1)
    <2>1. CASE s[k] \in Spilled(p)
      <3>1. sign * k \in Int
        <4>1. CASE sign = 1
          BY <1>1, <4>1
        <4>2. CASE sign = -1
          BY <1>1, <4>2
        <4> QED
          BY <4>1, <4>2
      <3> QED
        BY <1>2, <2>1, <3>1, NewTemps
    <2>2. CASE s[k] \notin Spilled(p)
      <3>1. s[k] \in Temporary(round + 1)
        BY <1>1, Later DEF Shape
      <3> QED
        BY <1>2, <2>2, <3>1
    <2> QED
      BY <2>1, <2>2
  <1>4. r \in [1..Len(s) -> Temporary(round + 1)]
    BY <1>1, <1>2, <1>3
  <1>5. r \in Seq(Temporary(round + 1)) /\ Len(r) = Len(s)
    BY <1>1, <1>4
  <1> QED
    BY <1>1, <1>2, <1>5

LEMMA Mains ==
  ASSUME Shape, NEW p, Allowed(p), NEW i \in DOMAIN il
  PROVE  Rewritten(il[i], main(i, p), i, p) /\ main(i, p) \in Entry(round + 1)
  <1> DEFINE x == il[i]
             y == main(i, p)
             a == renamed(i, x.dst, -1, p)
             b == renamed(i, x.src, 1, p)
  <1>1. x \in Entry(round) /\ x.dst \in Seq(Temporary(round)) /\ x.src \in Seq(Temporary(round)) /\ i \in Nat
    BY Items
  <1>2. a \in Seq(Temporary(round + 1)) /\ b \in Seq(Temporary(round + 1))
    BY <1>1, RenamedOperands
  <1>3. y = [x EXCEPT !.src = b, !.dst = a]
    BY DEF main
  <1> HIDE DEF x, y, a, b
  <1>4. /\ y.op = x.op /\ y.of = x.of /\ y.jumps = x.jumps /\ y.label = x.label /\ y.slot = x.slot
        /\ y.gone = x.gone /\ y.dst = a /\ y.src = b
    BY <1>1, <1>3 DEF Entry
  <1>5. y \in Entry(round + 1)
    BY <1>1, <1>2, <1>3 DEF Entry
  <1> QED
    BY <1>4, <1>5 DEF Rewritten, x, y, a, b

LEMMA SpilledAt ==
  ASSUME Shape, NEW p, NEW s \in Seq(Temporary(round))
  PROVE  LET at == spilledAt(s, p)
             S == {k \in DOMAIN s : s[k] \in Spilled(p)}
         IN  /\ Len(at) \in Nat /\ DOMAIN at = 1..Len(at)
             /\ \A k \in 1..Len(at) : at[k] \in S
             /\ \A h \in S : \E k \in 1..Len(at) : at[k] = h
             /\ (S = {} <=> Len(at) = 0)
             /\ S \subseteq {1} => Len(at) <= 1
  <1> DEFINE at == spilledAt(s, p)
             S == {k \in DOMAIN s : s[k] \in Spilled(p)}
             N == Cardinality(S)
  <1>1. S \in SUBSET (1..Len(s)) /\ Len(s) \in Nat
    OBVIOUS
  <1>2. IsFiniteSet(S)
    <2>1. IsFiniteSet(1..Len(s))
      BY <1>1, FS_Interval
    <2> HIDE DEF S
    <2> QED
      BY <1>1, <2>1, FS_Subset
  <1>3. at = listed(S)
    BY DEF spilledAt
  <1> HIDE DEF at
  <1>4. N \in Nat /\ at \in [1..N -> S] /\ \A h \in S : \E k \in 1..N : at[k] = h
    <2> HIDE DEF S
    <2> QED
      BY <1>2, <1>3, Listed
  <1>5. S \subseteq {1} => N <= 1
    <2>1. Cardinality({1}) = 1 /\ IsFiniteSet({1})
      BY FS_Singleton
    <2> HIDE DEF S
    <2> QED
      BY <2>1, FS_Subset
  <1>6. S = {} <=> N = 0
    <2> HIDE DEF S
    <2> QED
      BY <1>2, FS_EmptySet
  <1> HIDE DEF S, N
  <1>7. Len(at) = N /\ DOMAIN at = 1..N
    BY <1>4
  <1> QED
    BY <1>4, <1>5, <1>6, <1>7 DEF at, S

(* Only one of the operands that are written can be spilled. *)
LEMMA SpilledWritten ==
  ASSUME Shape, NEW p, Allowed(p), NEW i \in DOMAIN il, NEW k \in DOMAIN il[i].dst, il[i].dst[k] \in Spilled(p)
  PROVE  k = 1 /\ Len(il[i].dst) = 1 /\ il[i].jumps = {} /\ il[i].op # "store"
  <1> DEFINE x == il[i]
  <1>1. x.dst \in Seq(Temporary(round)) /\ Fits(prog, x, stk_size)
    BY Items
  <1>2. Len(x.dst) \in Nat /\ Len(x.dst) # 0 /\ k \in 1..Len(x.dst)
    BY <1>1
  <1>3. x.op # "store"
    <2>1. ~ (x.dst = << >>)
      BY <1>2
    <2> QED
      BY <2>1, Carrying
  <1>4. CASE x.of = 0
    <2>1. FitsInserted(x, stk_size)
      BY <1>1, <1>4 DEF Fits
    <2>2. Len(x.dst) = 1 /\ x.jumps = {}
      BY <1>3, <2>1 DEF FitsInserted
    <2> QED
      BY <1>2, <1>3, <2>2
  <1>5. CASE x.of # 0
    <2> DEFINE x0 == prog[x.of]
    <2>1. x.of \in DOMAIN prog /\ FitsOriginal(x, x0) /\ WellFormed(x0) /\ x0 \in Instruction
      BY <1>1, <1>5, Functions DEF Fits
    <2>2. ~ x.gone
      <3>1. x.dst # << >>
        BY <1>2
      <3> QED
        BY <2>1, <3>1 DEF FitsOriginal
    <2>3. Len(x.dst) = Len(x0.dst) /\ x.jumps = x0.jumps
      BY <2>1, <2>2 DEF FitsOriginal
    <2>4. x0.jumps = {}
      <3>1. x0.dst # << >>
        BY <1>2, <2>3
      <3> QED
        BY <2>1, <3>1 DEF WellFormed
    <2>5. ~ (Len(x0.dst) > 1)
      <3> SUFFICES ASSUME Len(x0.dst) > 1 PROVE FALSE
        OBVIOUS
      <3>1. x.dst = x0.dst /\ Temps(x0.dst) \subseteq Reg
        BY <2>1 DEF FitsOriginal, WellFormed
      <3>2. x.dst[k] \in Reg
        BY <3>1 DEF Temps
      <3> QED
        BY <3>2, Keys
    <2>6. Len(x.dst) = 1
      <3> DEFINE n == Len(x.dst)
      <3>1. n \in Nat /\ n # 0 /\ ~ (n > 1)
        BY <1>2, <2>3, <2>5
      <3> HIDE DEF n
      <3>2. n = 1
        BY <3>1
      <3> QED
        BY <3>2 DEF n
    <2>7. k = 1
      BY <1>2, <2>6
    <2> QED
      BY <1>3, <2>3, <2>4, <2>6, <2>7
  <1> QED
    BY <1>4, <1>5

(* What is where before the instruction at i, after its operands H have    *)
(* been loaded, and before what it defines is stored.                      *)
Base(R, p, places, i) == Renamed(R[i], alive(i), stackHomes(p, places))

Loaded(R, p, places, i, H) ==
  Base(R, p, places, i)
    \cup {<<temp(newtemp(i, y[1])), y[2]>> : y \in
            {z \in H \X Named :
               <<stackHomes(p, places)[temp(il[i].src[z[1]])], z[2]>> \in Base(R, p, places, i)}}

Stored(R, p, places, i) ==
  {<<IF z[1] = stackHomes(p, places)[temp(il[i].dst[1])] THEN temp(newtemp(i, -1)) ELSE z[1], z[2]>> :
     z \in Base(R, p, places, i + 1)}

Spilling(p, places, R, ahead) ==
  /\ Shape /\ Allowed(p) /\ places = placesOf(keysOf(p))
  /\ Holding(il, R, round, stk_size) /\ Certified(prog, il, R, ahead)

LEMMA BaseSet ==
  ASSUME NEW p, NEW places, NEW R, NEW ahead, Spilling(p, places, R, ahead), NEW i \in DOMAIN il
  PROVE  /\ \A m, t : <<m, t>> \in Base(R, p, places, i)
                        => \E l \in alive(i) : <<l, t>> \in R[i] /\ m = stackHomes(p, places)[l]
         /\ \A l \in alive(i) : \A t : <<l, t>> \in R[i]
                        => <<stackHomes(p, places)[l], t>> \in Base(R, p, places, i)
         /\ Base(R, p, places, i) \subseteq Place(round + 1, sizeAfter(p)) \X Named
         /\ \A z \in Base(R, p, places, i) : \A h \in Nat, k \in Int : z[1] # temp(newtemp(h, k))
  <1> DEFINE w == stackHomes(p, places)
  <1>0. Shape /\ Allowed(p) /\ places = placesOf(keysOf(p))
    BY DEF Spilling
  <1>1. R[i] \in SUBSET (Place(round, stk_size) \X Named)
    BY DEF Spilling, Holding
  <1>2. \A z \in R[i] : z = <<z[1], z[2]>>
    BY <1>1
  <1>3. PICK Q, A, v : Q = R[i] /\ A = alive(i) /\ v = w
    OBVIOUS
  <1>4. \A z \in Q : z = <<z[1], z[2]>>
    BY <1>2, <1>3
  <1>5. /\ \A m, t : <<m, t>> \in Renamed(Q, A, v) => \E l \in A : <<l, t>> \in Q /\ m = v[l]
        /\ \A l \in A : \A t : <<l, t>> \in Q => <<v[l], t>> \in Renamed(Q, A, v)
    BY <1>4, RenamedSet
  <1>6. Base(R, p, places, i) = Renamed(Q, A, v)
    BY <1>3 DEF Base
  <1>7. ASSUME NEW l \in A
        PROVE  /\ v[l] \in Place(round + 1, sizeAfter(p))
               /\ \A h \in Nat, k \in Int : v[l] # temp(newtemp(h, k))
    <2>1. CASE l \in {slot(s) : s \in 1..stk_size}
      <3>1. PICK s \in 1..stk_size : l = slot(s)
        BY <2>1
      <3>2. v[l] = slot(s)
        BY <1>0, <1>3, <3>1, StackHomes
      <3>3. s \in 1..sizeAfter(p)
        <4>1. stk_size \in Nat /\ sizeAfter(p) \in Nat /\ stk_size <= sizeAfter(p)
          BY <1>0, NewPlaces DEF Shape
        <4> QED
          BY <4>1
      <3> QED
        BY <3>2, <3>3 DEF Place, slot, temp
    <2>2. CASE l \notin {slot(s) : s \in 1..stk_size}
      <3>1. PICK u \in liveIn[i] : l = temp(u)
        BY <1>3, <2>2 DEF alive
      <3>2. u \in Temporary(round)
        BY <1>0, Alive, Items
      <3>3. v[l] = placeOf(p, places, u)
        BY <1>0, <1>3, <3>1, <3>2, StackHomes
      <3> QED
        BY <1>0, <3>2, <3>3, StackHomes
    <2> QED
      BY <2>1, <2>2
  <1>8. ASSUME NEW z \in Renamed(Q, A, v)
        PROVE  /\ z \in Place(round + 1, sizeAfter(p)) \X Named
               /\ \A h \in Nat, k \in Int : z[1] # temp(newtemp(h, k))
    <2>1. PICK y \in Q : y[1] \in A /\ z = <<v[y[1]], y[2]>>
      BY DEF Renamed
    <2>2. y[2] \in Named
      BY <1>1, <1>3
    <2>3. z[1] = v[y[1]]
      BY <2>1
    <2> QED
      BY <1>7, <2>1, <2>2, <2>3
  <1> HIDE DEF w
  <1> QED
    BY <1>3, <1>5, <1>6, <1>8 DEF w

LEMMA LoadedSet ==
  ASSUME NEW p, NEW places, NEW R, NEW ahead, Spilling(p, places, R, ahead), NEW i \in DOMAIN il,
         NEW H \in SUBSET (DOMAIN il[i].src)
  PROVE  /\ \A m, t : <<m, t>> \in Loaded(R, p, places, i, H)
              => \/ <<m, t>> \in Base(R, p, places, i)
                 \/ \E h \in H : /\ m = temp(newtemp(i, h))
                                 /\ <<stackHomes(p, places)[temp(il[i].src[h])], t>> \in Base(R, p, places, i)
         /\ Base(R, p, places, i) \subseteq Loaded(R, p, places, i, H)
         /\ \A h \in H : \A t : <<stackHomes(p, places)[temp(il[i].src[h])], t>> \in Base(R, p, places, i)
              => <<temp(newtemp(i, h)), t>> \in Loaded(R, p, places, i, H)
         /\ Loaded(R, p, places, i, H) \subseteq Place(round + 1, sizeAfter(p)) \X Named
         /\ Loaded(R, p, places, i, {}) = Base(R, p, places, i)
  <1> DEFINE B == Base(R, p, places, i)
             w == stackHomes(p, places)
             S == {z \in H \X Named : <<w[temp(il[i].src[z[1]])], z[2]>> \in B}
             L == Loaded(R, p, places, i, H)
  <1>1. B \subseteq Place(round + 1, sizeAfter(p)) \X Named
    BY BaseSet
  <1>2. L = B \cup {<<temp(newtemp(i, y[1])), y[2]>> : y \in S}
    BY DEF Loaded
  <1> HIDE DEF B, w
  <1>3. ASSUME NEW m, NEW t, <<m, t>> \in L, <<m, t>> \notin B
        PROVE  \E h \in H : m = temp(newtemp(i, h)) /\ <<w[temp(il[i].src[h])], t>> \in B
    <2>1. PICK y \in S : <<m, t>> = <<temp(newtemp(i, y[1])), y[2]>>
      BY <1>2, <1>3
    <2> QED
      BY <2>1
  <1>4. ASSUME NEW h \in H, NEW t, <<w[temp(il[i].src[h])], t>> \in B
        PROVE  <<temp(newtemp(i, h)), t>> \in L
    <2>1. <<h, t>> \in S
      BY <1>1, <1>4
    <2>2. <<h, t>>[1] = h /\ <<h, t>>[2] = t
      OBVIOUS
    <2> HIDE DEF S, L, B
    <2> QED
      BY <1>2, <2>1, <2>2
  <1>5. ASSUME NEW z \in L PROVE z \in Place(round + 1, sizeAfter(p)) \X Named
    <2>1. CASE z \in B
      BY <1>1, <2>1
    <2>2. CASE z \notin B
      <3>1. PICK y \in S : z = <<temp(newtemp(i, y[1])), y[2]>>
        BY <1>2, <2>2
      <3>2. y[1] \in Int /\ i \in Nat /\ y[2] \in Named
        <4>1. il[i].src \in Seq(Temporary(round)) /\ i \in Nat
          BY Items DEF Spilling
        <4> QED
          BY <4>1
      <3>3. newtemp(i, y[1]) \in Temporary(round + 1)
        BY <3>2, NewTemps DEF Spilling
      <3> QED
        BY <3>1, <3>2, <3>3 DEF Place
    <2> QED
      BY <2>1, <2>2
  <1>6. Loaded(R, p, places, i, {}) = B
    BY DEF Loaded, B
  <1> QED
    BY <1>2, <1>3, <1>4, <1>5, <1>6 DEF B, w

(* Where the value of place n is until it is stored. *)
unstored(p, places, i, n) ==
  IF n = stackHomes(p, places)[temp(il[i].dst[1])] THEN temp(newtemp(i, -1)) ELSE n

LEMMA StoredSet ==
  ASSUME NEW p, NEW places, NEW R, NEW ahead, Spilling(p, places, R, ahead), NEW i \in DOMAIN il,
         i + 1 \in DOMAIN il
  PROVE  /\ \A m, t : <<m, t>> \in Stored(R, p, places, i)
              => \E n : <<n, t>> \in Base(R, p, places, i + 1) /\ m = unstored(p, places, i, n)
         /\ \A n, t : <<n, t>> \in Base(R, p, places, i + 1)
              => <<IF n = stackHomes(p, places)[temp(il[i].dst[1])] THEN temp(newtemp(i, -1)) ELSE n, t>>
                   \in Stored(R, p, places, i)
         /\ Stored(R, p, places, i) \subseteq Place(round + 1, sizeAfter(p)) \X Named
  <1> DEFINE B == Base(R, p, places, i + 1)
             a == stackHomes(p, places)[temp(il[i].dst[1])]
             c == temp(newtemp(i, -1))
             S == Stored(R, p, places, i)
  <1>1. S = {<<IF z[1] = a THEN c ELSE z[1], z[2]>> : z \in B}
    BY DEF Stored
  <1>2. B \subseteq Place(round + 1, sizeAfter(p)) \X Named
    BY BaseSet
  <1>3. c \in Place(round + 1, sizeAfter(p))
    <2>1. i \in Nat /\ -1 \in Int
      BY Items DEF Spilling
    <2>2. newtemp(i, -1) \in Temporary(round + 1)
      BY <2>1, NewTemps DEF Spilling
    <2> QED
      BY <2>2 DEF Place
  <1> HIDE DEF S, B, a, c
  <1>4. ASSUME NEW m, NEW t, <<m, t>> \in S
        PROVE  \E n : <<n, t>> \in B /\ m = IF n = a THEN c ELSE n
    <2>1. PICK z \in B : <<m, t>> = <<IF z[1] = a THEN c ELSE z[1], z[2]>>
      BY <1>1, <1>4
    <2>2. z = <<z[1], z[2]>>
      BY <1>2
    <2>3. <<z[1], t>> \in B /\ m = IF z[1] = a THEN c ELSE z[1]
      BY <2>1, <2>2
    <2> QED
      BY <2>3
  <1>5. ASSUME NEW n, NEW t, <<n, t>> \in B
        PROVE  <<IF n = a THEN c ELSE n, t>> \in S
    <2>1. <<n, t>>[1] = n /\ <<n, t>>[2] = t
      OBVIOUS
    <2> QED
      BY <1>1, <1>5, <2>1
  <1>6. S \subseteq Place(round + 1, sizeAfter(p)) \X Named
    BY <1>1, <1>2, <1>3
  <1>7. \A n : unstored(p, places, i, n) = IF n = a THEN c ELSE n
    BY DEF unstored, a, c
  <1>8. ASSUME NEW m, NEW t, <<m, t>> \in S
        PROVE  \E n : <<n, t>> \in B /\ m = unstored(p, places, i, n)
    BY <1>4, <1>7, <1>8
  <1> QED
    BY <1>5, <1>6, <1>8 DEF S, B, a, c

LEMMA OneOperand ==
  ASSUME NEW x, NEW u
  PROVE  /\ x.op # "store" /\ x.dst = <<u>> => written(x) = <<temp(u)>>
         /\ x.op # "load" /\ x.src = <<u>> => read(x) = temp(u)
  <1>1. ASSUME x.op # "store", x.dst = <<u>> PROVE written(x) = <<temp(u)>>
    <2>1. DOMAIN x.dst = 1..1 /\ x.dst[1] = u
      BY <1>1
    <2>2. written(x) = [k \in 1..1 |-> temp(x.dst[k])]
      BY <1>1, <2>1 DEF written
    <2>3. \A k \in 1..1 : temp(x.dst[k]) = temp(u)
      BY <2>1
    <2>4. written(x) = [k \in 1..1 |-> temp(u)]
      BY <2>2, <2>3
    <2> HIDE DEF temp
    <2> QED
      BY <2>4
  <1>2. ASSUME x.op # "load", x.src = <<u>> PROVE read(x) = temp(u)
    <2>1. x.src[1] = u
      BY <1>2
    <2> QED
      BY <1>2, <2>1 DEF read
  <1> QED
    BY <1>1, <1>2

LEMMA LoadKeeps ==
  ASSUME NEW p, NEW places, NEW R, NEW ahead, Spilling(p, places, R, ahead), NEW i \in DOMAIN il,
         NEW H \in SUBSET (DOMAIN il[i].src), NEW h \in DOMAIN il[i].src, il[i].src[h] \in Spilled(p),
         NEW y, y = load(newtemp(i, h), places[p[il[i].src[h]]]),
         NEW m, NEW t, <<m, t>> \in Loaded(R, p, places, i, H \cup {h})
  PROVE  Keeps(prog, y, m, t, Loaded(R, p, places, i, H))
  <1> DEFINE u == il[i].src[h]
             w == stackHomes(p, places)
             c == temp(newtemp(i, h))
             L == Loaded(R, p, places, i, H)
             B == Base(R, p, places, i)
  <1>0. Shape /\ Allowed(p) /\ places = placesOf(keysOf(p))
    BY DEF Spilling
  <1>1. i \in Nat /\ h \in Int /\ u \in Temporary(round)
    <2>1. il[i].src \in Seq(Temporary(round)) /\ i \in Nat
      BY <1>0, Items
    <2> QED
      BY <2>1
  <1>2. w[temp(u)] = onStack(places, p[u])
    BY <1>0, <1>1, StackHomes DEF placeOf
  <1>3. y.of = 0 /\ written(y) = <<c>> /\ read(y) = w[temp(u)]
    <2>1. CASE isf
      <3>1. y.op = "copy" /\ y.of = 0 /\ y.dst = <<newtemp(i, h)>> /\ y.src = <<places[p[u]]>>
        BY <2>1 DEF load, Inserted
      <3>2. written(y) = <<c>> /\ read(y) = temp(places[p[u]])
        BY <3>1, OneOperand
      <3> HIDE DEF u, w, c
      <3> QED
        BY <1>2, <2>1, <3>1, <3>2 DEF onStack
    <2>2. CASE ~ isf
      <3>1. y.op = "load" /\ y.of = 0 /\ y.dst = <<newtemp(i, h)>> /\ y.slot = places[p[u]]
        BY <2>2 DEF load, Inserted
      <3>2. written(y) = <<c>>
        BY <3>1, OneOperand
      <3> HIDE DEF u, w, c
      <3> QED
        BY <1>2, <2>2, <3>1, <3>2 DEF read, onStack
    <2> QED
      BY <2>1, <2>2
  <1>4. SUFFICES <<IF m = c THEN w[temp(u)] ELSE m, t>> \in L
    <2>1. 1 \in DOMAIN written(y) /\ written(y)[1] = c
      BY <1>3
    <2> QED
      BY <1>3, <2>1 DEF Keeps, Pulled, carries
  <1>5. B \subseteq L
    BY LoadedSet
  <1>6. H \cup {h} \in SUBSET (DOMAIN il[i].src)
    OBVIOUS
  <1>7. \/ <<m, t>> \in B
        \/ \E g \in H \cup {h} : m = temp(newtemp(i, g)) /\ <<w[temp(il[i].src[g])], t>> \in B
    BY <1>6, LoadedSet
  <1>8. CASE <<m, t>> \in B
    <2>1. m # c
      <3>1. <<m, t>>[1] = m
        OBVIOUS
      <3> QED
        BY <1>1, <1>8, <3>1, BaseSet
    <2> QED
      BY <1>5, <1>8, <2>1
  <1>9. ASSUME NEW g \in H \cup {h}, m = temp(newtemp(i, g)), <<w[temp(il[i].src[g])], t>> \in B
        PROVE  <<IF m = c THEN w[temp(u)] ELSE m, t>> \in L
    <2>1. CASE g = h
      BY <1>5, <1>9, <2>1
    <2>2. CASE g # h
      <3>1. newtemp(i, g) # newtemp(i, h)
        BY <1>0, <1>1, <2>2, NewTemps
      <3>2. m # c
        BY <1>9, <3>1 DEF temp
      <3>3. g \in H
        BY <2>2
      <3>4. <<m, t>> \in L
        BY <1>9, <3>3, LoadedSet
      <3> QED
        BY <3>2, <3>4
    <2> QED
      BY <2>1, <2>2
  <1> QED
    BY <1>7, <1>8, <1>9

LEMMA StoreKeeps ==
  ASSUME NEW p, NEW places, NEW R, NEW ahead, Spilling(p, places, R, ahead), NEW i \in DOMAIN il,
         i + 1 \in DOMAIN il, 1 \in DOMAIN il[i].dst, il[i].dst[1] \in Spilled(p),
         NEW y, y = store(newtemp(i, -1), places[p[il[i].dst[1]]]),
         NEW m, NEW t, <<m, t>> \in Base(R, p, places, i + 1)
  PROVE  Keeps(prog, y, m, t, Stored(R, p, places, i))
  <1> DEFINE u == il[i].dst[1]
             w == stackHomes(p, places)
             c == temp(newtemp(i, -1))
             S == Stored(R, p, places, i)
  <1>0. Shape /\ Allowed(p) /\ places = placesOf(keysOf(p))
    BY DEF Spilling
  <1>1. u \in Temporary(round)
    <2>1. il[i].dst \in Seq(Temporary(round))
      BY <1>0, Items
    <2> QED
      BY <2>1
  <1>2. w[temp(u)] = onStack(places, p[u])
    BY <1>0, <1>1, StackHomes DEF placeOf
  <1>3. y.of = 0 /\ written(y) = <<w[temp(u)]>> /\ read(y) = c
    <2>1. CASE isf
      <3>1. y.op = "copy" /\ y.of = 0 /\ y.src = <<newtemp(i, -1)>> /\ y.dst = <<places[p[u]]>>
        BY <2>1 DEF store, Inserted
      <3>2. written(y) = <<temp(places[p[u]])>> /\ read(y) = c
        BY <3>1, OneOperand
      <3> HIDE DEF u, w, c
      <3> QED
        BY <1>2, <2>1, <3>1, <3>2 DEF onStack
    <2>2. CASE ~ isf
      <3>1. y.op = "store" /\ y.of = 0 /\ y.src = <<newtemp(i, -1)>> /\ y.slot = places[p[u]]
        BY <2>2 DEF store, Inserted
      <3>2. written(y) = <<slot(places[p[u]])>> /\ read(y) = c
        BY <3>1, OneOperand DEF written
      <3> HIDE DEF u, w, c
      <3> QED
        BY <1>2, <2>2, <3>1, <3>2 DEF onStack
    <2> QED
      BY <2>1, <2>2
  <1>4. <<IF m = w[temp(u)] THEN c ELSE m, t>> \in S
    BY StoredSet
  <1>5. 1 \in DOMAIN written(y) /\ written(y)[1] = w[temp(u)]
    BY <1>3
  <1> QED
    BY <1>3, <1>4, <1>5 DEF Keeps, Pulled, carries

(* What is to be where once the instruction at i has run, if its temporary *)
(* that is spilled has not been stored yet.                                *)
pending(p, places, i, n) ==
  IF 1 \in DOMAIN il[i].dst /\ il[i].dst[1] \in Spilled(p) /\ n = stackHomes(p, places)[temp(il[i].dst[1])]
  THEN temp(newtemp(i, -1)) ELSE n

LEMMA BaseKeeps ==
  ASSUME NEW p, NEW places, NEW R, NEW ahead, Spilling(p, places, R, ahead), NEW i \in DOMAIN il,
         NEW j \in succ(i), NEW n, NEW t, <<n, t>> \in Base(R, p, places, j)
  PROVE  /\ \A D2 : DOMAIN D2 = DOMAIN written(il[i])
                    /\ (\A k \in DOMAIN D2 : D2[k] = stackHomes(p, places)[written(il[i])[k]])
                    => Pulled(prog, il[i], D2, stackHomes(p, places)[read(il[i])], n, t, Base(R, p, places, i))
         /\ withinGroup(il[i], p) => Keeps(prog, Gone(il[i]), n, t, Base(R, p, places, i))
  <1> DEFINE x == il[i]
             B == Base(R, p, places, i)
  <1>0. Shape /\ Allowed(p) /\ places = placesOf(keysOf(p)) /\ Holding(il, R, round, stk_size)
        /\ Certified(prog, il, R, ahead)
    BY DEF Spilling
  <1>1. PICK w : w = stackHomes(p, places)
    OBVIOUS
  <1>2. keepsApart(w, i, j)
    BY <1>0, <1>1, StackApart
  <1>3. /\ \A D2 : DOMAIN D2 = DOMAIN written(x) /\ (\A k \in DOMAIN D2 : D2[k] = w[written(x)[k]])
                    => Pulled(prog, x, D2, w[read(x)], n, t, Renamed(R[i], alive(i), w))
        /\ x.op = "move" /\ (1 \in DOMAIN written(x) => w[written(x)[1]] = w[read(x)])
              => \A z, b : z.of = x.of /\ z.op = "move"
                             => Pulled(prog, z, << >>, b, n, t, Renamed(R[i], alive(i), w))
    <2>1. <<n, t>> \in Renamed(R[j], alive(j), w)
      BY <1>1 DEF Base
    <2> QED
      BY <1>0, <1>2, <2>1, Based
  <1>4. B = Renamed(R[i], alive(i), w)
    BY <1>1 DEF Base
  <1>5. ASSUME withinGroup(x, p) PROVE Keeps(prog, Gone(x), n, t, B)
    <2>1. x.op = "move" /\ ~ x.gone /\ x.dst[1] \in Spilled(p) /\ x.src[1] \in Spilled(p) /\ p[x.dst[1]] = p[x.src[1]]
      BY <1>5 DEF withinGroup
    <2>2. /\ x.dst \in Seq(Temporary(round)) /\ x.src \in Seq(Temporary(round))
          /\ Len(x.dst) = 1 /\ Len(x.src) = 1 /\ x \in Entry(round)
      BY <1>0, <2>1, Items, Carrying
    <2>3. 1 \in DOMAIN x.dst /\ x.dst[1] \in Temporary(round) /\ x.src[1] \in Temporary(round)
      BY <2>2
    <2>4. written(x)[1] = temp(x.dst[1]) /\ read(x) = temp(x.src[1])
      BY <2>1, <2>3 DEF written, read
    <2>5. w[written(x)[1]] = onStack(places, p[x.dst[1]]) /\ w[read(x)] = onStack(places, p[x.src[1]])
      BY <1>0, <1>1, <2>1, <2>3, <2>4, StackHomes DEF placeOf
    <2>6. w[written(x)[1]] = w[read(x)]
      BY <2>1, <2>5
    <2> DEFINE g == Gone(x)
    <2>7. g.of = x.of /\ g.op = "move" /\ g.dst = << >>
      <3> HIDE DEF x
      <3> QED
        BY <2>1, <2>2 DEF Gone, Entry
    <2> HIDE DEF g
    <2>8. written(g) = << >>
      <3>1. DOMAIN g.dst = {} /\ g.op # "store"
        BY <2>7
      <3> QED
        BY <3>1 DEF written
    <2>9. Pulled(prog, g, << >>, read(g), n, t, B)
      BY <1>3, <1>4, <2>1, <2>6, <2>7
    <2> QED
      BY <2>8, <2>9 DEF Keeps, g
  <1> QED
    BY <1>1, <1>3, <1>4, <1>5

LEMMA MainKeeps ==
  ASSUME NEW p, NEW places, NEW R, NEW ahead, Spilling(p, places, R, ahead), NEW i \in DOMAIN il,
         NEW j \in succ(i), NEW n, NEW t, <<n, t>> \in Base(R, p, places, j),
         NEW H \in SUBSET (DOMAIN il[i].src), \A k \in DOMAIN il[i].src : il[i].src[k] \in Spilled(p) => k \in H
  PROVE  Keeps(prog, main(i, p), pending(p, places, i, n), t, Loaded(R, p, places, i, H))
  <1> DEFINE x == il[i]
             y == main(i, p)
             B == Base(R, p, places, i)
             L == Loaded(R, p, places, i, H)
             m == pending(p, places, i, n)
             D == written(x)
             D2 == written(y)
             c == temp(newtemp(i, -1))
  <1>0. Shape /\ Allowed(p) /\ places = placesOf(keysOf(p))
    BY DEF Spilling
  <1>1. PICK w : w = stackHomes(p, places)
    OBVIOUS
  <1>2. \A E : DOMAIN E = DOMAIN D /\ (\A k \in DOMAIN E : E[k] = w[D[k]])
                 => Pulled(prog, x, E, w[read(x)], n, t, B)
    BY <1>1, BaseKeeps
  <1>3. /\ y.op = x.op /\ y.of = x.of /\ y.slot = x.slot
        /\ y.dst = renamed(i, x.dst, -1, p) /\ y.src = renamed(i, x.src, 1, p)
    BY <1>0, Mains DEF Rewritten
  <1>4. x.dst \in Seq(Temporary(round)) /\ x.src \in Seq(Temporary(round)) /\ i \in Nat
    BY <1>0, Items
  <1>5. /\ DOMAIN y.dst = DOMAIN x.dst
        /\ \A k \in DOMAIN x.dst : y.dst[k] = IF x.dst[k] \in Spilled(p) THEN newtemp(i, -1 * k) ELSE x.dst[k]
    BY <1>0, <1>3, <1>4, RenamedOperands
  <1>6. /\ DOMAIN y.src = DOMAIN x.src
        /\ \A k \in DOMAIN x.src : y.src[k] = IF x.src[k] \in Spilled(p) THEN newtemp(i, 1 * k) ELSE x.src[k]
    BY <1>0, <1>3, <1>4, RenamedOperands
  <1>7. B \subseteq L
    BY LoadedSet
  <1> DEFINE E == [k \in DOMAIN D |-> w[D[k]]]
  <1>8. DOMAIN D2 = DOMAIN D
    <2>1. CASE x.op = "store"
      BY <1>3, <2>1 DEF written
    <2>2. CASE x.op # "store"
      BY <1>3, <1>5, <2>2 DEF written
    <2> QED
      BY <2>1, <2>2
  <1>9. ASSUME NEW k \in DOMAIN D, x.op = "store" \/ x.dst[k] \notin Spilled(p) PROVE E[k] = D2[k]
    <2>1. CASE x.op = "store"
      <3>1. x.slot \in 1..stk_size
        BY <1>0, <2>1, Carrying
      <3>2. k = 1 /\ D[k] = slot(x.slot) /\ D2[k] = slot(x.slot)
        BY <1>3, <2>1 DEF written
      <3> QED
        BY <1>0, <1>1, <3>1, <3>2, StackHomes
    <2>2. CASE x.op # "store"
      <3>1. k \in DOMAIN x.dst /\ D[k] = temp(x.dst[k]) /\ D2[k] = temp(y.dst[k])
        BY <1>3, <1>5, <2>2 DEF written
      <3>2. y.dst[k] = x.dst[k] /\ x.dst[k] \in Temporary(round) /\ x.dst[k] \notin Spilled(p)
        BY <1>4, <1>5, <1>9, <2>2, <3>1
      <3>3. w[temp(x.dst[k])] = temp(x.dst[k])
        BY <1>0, <1>1, <3>2, StackHomes DEF placeOf
      <3> QED
        BY <3>1, <3>2, <3>3
    <2> QED
      BY <2>1, <2>2
  (* What is written is exchanged. *)
  <1>10. (\A k \in DOMAIN D : n = E[k] <=> m = D2[k]) /\ (m = n \/ \E k \in DOMAIN D : n = E[k])
    <2>1. CASE 1 \in DOMAIN x.dst /\ x.dst[1] \in Spilled(p)
      <3>1. x.op # "store" /\ Len(x.dst) = 1
        BY <1>0, <2>1, SpilledWritten
      <3>2. DOMAIN x.dst = {1}
        BY <1>4, <3>1
      <3>3. DOMAIN D = {1} /\ D[1] = temp(x.dst[1]) /\ D2[1] = temp(y.dst[1])
        BY <1>3, <1>5, <3>1, <3>2 DEF written
      <3>4. y.dst[1] = newtemp(i, -1)
        <4>1. -1 * 1 = -1
          OBVIOUS
        <4> QED
          BY <1>5, <2>1, <4>1
      <3>5. m = IF n = E[1] THEN c ELSE n
        BY <1>1, <2>1, <3>3 DEF pending
      <3>6. n # c
        <4>1. <<n, t>>[1] = n /\ -1 \in Int
          OBVIOUS
        <4>2. j \in DOMAIN il
          BY DEF succ
        <4> QED
          BY <1>4, <4>1, <4>2, BaseSet
      <3>7. D2[1] = c
        BY <3>3, <3>4
      <3> HIDE DEF E, m, D, D2, c
      <3> QED
        BY <3>3, <3>5, <3>6, <3>7
    <2>2. CASE ~ (1 \in DOMAIN x.dst /\ x.dst[1] \in Spilled(p))
      <3>1. m = n
        BY <2>2 DEF pending
      <3>2. \A k \in DOMAIN D : E[k] = D2[k]
        <4> SUFFICES ASSUME NEW k \in DOMAIN D PROVE x.op = "store" \/ x.dst[k] \notin Spilled(p)
          BY <1>9
        <4> SUFFICES ASSUME x.op # "store", x.dst[k] \in Spilled(p) PROVE FALSE
          OBVIOUS
        <4>1. k \in DOMAIN x.dst
          BY DEF written
        <4>2. k = 1
          BY <1>0, <4>1, SpilledWritten
        <4> QED
          BY <2>2, <4>1, <4>2
      <3> QED
        BY <3>1, <3>2
    <2> QED
      BY <2>1, <2>2
  (* What is read has been loaded. *)
  <1> DEFINE b == IF carries(x) /\ 1 \in DOMAIN D THEN w[read(x)] ELSE read(y)
  <1>11. Pulled(prog, x, E, b, n, t, B)
    <2>1. Pulled(prog, x, E, w[read(x)], n, t, B)
      <3>1. DOMAIN E = DOMAIN D /\ \A k \in DOMAIN E : E[k] = w[D[k]]
        OBVIOUS
      <3> HIDE DEF E
      <3> QED
        BY <1>2, <3>1
    <2>2. carries(x) /\ 1 \in DOMAIN E => b = w[read(x)]
      OBVIOUS
    <2> HIDE DEF b, E
    <2> QED
      BY <2>1, <2>2, Unread
  <1>12. \A u : <<b, u>> \in B => <<read(y), u>> \in L
    <2> SUFFICES ASSUME NEW u, <<b, u>> \in B PROVE <<read(y), u>> \in L
      OBVIOUS
    <2>1. CASE ~ (carries(x) /\ 1 \in DOMAIN D)
      BY <1>7, <2>1
    <2>2. CASE carries(x) /\ 1 \in DOMAIN D /\ x.op = "load"
      <3>1. x.slot \in 1..stk_size
        BY <1>0, <2>2, Carrying
      <3>2. read(x) = slot(x.slot) /\ read(y) = slot(x.slot)
        BY <1>3, <2>2 DEF read
      <3>3. w[read(x)] = read(y)
        BY <1>0, <1>1, <3>1, <3>2, StackHomes
      <3> QED
        BY <1>7, <2>2, <3>3
    <2>3. CASE carries(x) /\ 1 \in DOMAIN D /\ x.op # "load"
      <3>1. Len(x.src) = 1
        BY <1>0, <2>3, Carrying
      <3>2. 1 \in DOMAIN x.src /\ x.src[1] \in Temporary(round)
        BY <1>4, <3>1
      <3>3. read(x) = temp(x.src[1]) /\ read(y) = temp(y.src[1])
        BY <1>3, <2>3 DEF read
      <3>4. CASE x.src[1] \in Spilled(p)
        <4>1. y.src[1] = newtemp(i, 1)
          <5>1. 1 * 1 = 1
            OBVIOUS
          <5> QED
            BY <1>6, <3>2, <3>4, <5>1
        <4>2. 1 \in H
          BY <3>2, <3>4
        <4>3. <<w[temp(x.src[1])], u>> \in B
          BY <2>3, <3>3
        <4>4. <<temp(newtemp(i, 1)), u>> \in L
          BY <1>1, <4>2, <4>3, LoadedSet
        <4> QED
          BY <3>3, <4>1, <4>4
      <3>5. CASE x.src[1] \notin Spilled(p)
        <4>1. y.src[1] = x.src[1]
          BY <1>6, <3>2, <3>5
        <4>2. w[temp(x.src[1])] = temp(x.src[1])
          BY <1>0, <1>1, <3>2, <3>5, StackHomes DEF placeOf
        <4> QED
          BY <1>7, <2>3, <3>3, <4>1, <4>2
      <3> QED
        BY <3>4, <3>5
    <2> QED
      BY <2>1, <2>2, <2>3
  <1>13. Pulled(prog, y, D2, read(y), m, t, L)
    <2>1. carries(x) => DOMAIN E \subseteq {1}
      BY <1>0, Carrying
    <2>2. DOMAIN D2 = DOMAIN E
      BY <1>8
    <2>3. (\A k \in DOMAIN E : n = E[k] <=> m = D2[k]) /\ (m = n \/ \E k \in DOMAIN E : n = E[k])
      BY <1>10
    <2>4. y.of = x.of /\ y.op = x.op
      BY <1>3
    <2>5. Pulled(prog, x, E, b, n, t, B) /\ \A u : <<b, u>> \in B => <<read(y), u>> \in L
      BY <1>11, <1>12
    <2> HIDE DEF x, y, B, L, m, D, D2, E, b
    <2> QED
      BY <1>7, <2>1, <2>2, <2>3, <2>4, <2>5, Exchanging
  <1> QED
    BY <1>13 DEF Keeps

(* An operation finds in its operands what it found there. *)
LEMMA OperandsLoaded ==
  ASSUME NEW p, NEW places, NEW R, NEW ahead, Spilling(p, places, R, ahead), NEW i \in DOMAIN il,
         NEW H \in SUBSET (DOMAIN il[i].src), \A k \in DOMAIN il[i].src : il[i].src[k] \in Spilled(p) => k \in H,
         il[i].of # 0, il[i].op = "oper", NEW k \in DOMAIN main(i, p).src
  PROVE  <<temp(main(i, p).src[k]), prog[main(i, p).of].src[k]>> \in Loaded(R, p, places, i, H)
  <1> DEFINE x == il[i]
             y == main(i, p)
             t == prog[x.of].src[k]
             w == stackHomes(p, places)
             B == Base(R, p, places, i)
  <1>0. Shape /\ Allowed(p) /\ places = placesOf(keysOf(p)) /\ Certified(prog, il, R, ahead)
    BY DEF Spilling
  <1>1. y.of = x.of /\ y.src = renamed(i, x.src, 1, p)
    BY <1>0, Mains DEF Rewritten
  <1>2. x.src \in Seq(Temporary(round)) /\ i \in Nat
    BY <1>0, Items
  <1>3. k \in DOMAIN x.src /\ y.src[k] = IF x.src[k] \in Spilled(p) THEN newtemp(i, 1 * k) ELSE x.src[k]
    BY <1>0, <1>1, <1>2, RenamedOperands
  <1>4. k \in Nat /\ x.src[k] \in Temporary(round) /\ 1 * k = k
    BY <1>2, <1>3
  <1>5. <<temp(x.src[k]), t>> \in R[i] /\ temp(x.src[k]) \in alive(i)
    BY <1>0, <1>3, Alive DEF Certified
  <1>6. <<w[temp(x.src[k])], t>> \in B
    BY <1>5, BaseSet
  <1>7. CASE x.src[k] \in Spilled(p)
    <2>1. k \in H
      BY <1>3, <1>7
    <2>2. <<temp(newtemp(i, k)), t>> \in Loaded(R, p, places, i, H)
      BY <1>6, <2>1, LoadedSet
    <2> QED
      BY <1>1, <1>3, <1>4, <1>7, <2>2
  <1>8. CASE x.src[k] \notin Spilled(p)
    <2>1. w[temp(x.src[k])] = temp(x.src[k])
      BY <1>0, <1>4, <1>8, StackHomes DEF placeOf
    <2>2. <<temp(x.src[k]), t>> \in Loaded(R, p, places, i, H)
      BY <1>6, <2>1, LoadedSet
    <2> QED
      BY <1>1, <1>3, <1>8, <2>2
  <1> QED
    BY <1>7, <1>8

-----------------------------------------------------------------------------
(* A round that spills: all instructions. *)

(* How many loads come before the instruction at i, and stores after it.   *)
loadsOf(i, p) == IF withinGroup(il[i], p) THEN 0 ELSE Len(spilledAt(il[i].src, p))
storesOf(i, p) == IF withinGroup(il[i], p) THEN 0 ELSE Len(spilledAt(il[i].dst, p))
center(i, p) == IF withinGroup(il[i], p) THEN Gone(il[i]) ELSE main(i, p)

loadAt(i, p, places, h) == load(newtemp(i, h), places[p[il[i].src[h]]])
storeAt(i, p, places, h) == store(newtemp(i, -h), places[p[il[i].dst[h]]])

(* What is put there fits, and is made of new temporaries. *)
LEMMA OneTemp ==
  ASSUME NEW S, NEW u \in S
  PROVE  <<u>> \in Seq(S) /\ Len(<<u>>) = 1 /\ Temps(<<u>>) = {u}
  <1>1. <<u>> \in Seq(S) /\ Len(<<u>>) = 1 /\ DOMAIN <<u>> = {1} /\ <<u>>[1] = u
    OBVIOUS
  <1> QED
    BY <1>1 DEF Temps

LEMMA Loads ==
  ASSUME Shape, NEW p, Allowed(p), NEW places, places = placesOf(keysOf(p)), NEW i \in DOMAIN il,
         NEW h \in Nat, NEW u \in Spilled(p), NEW sign \in {1, -1},
         NEW y, y = load(newtemp(i, sign * h), places[p[u]]) \/ y = store(newtemp(i, sign * h), places[p[u]])
  PROVE  /\ y \in Entry(round + 1) /\ y.of = 0 /\ Fits(prog, y, sizeAfter(p))
         /\ y.jumps = {} /\ y.label = NoLabel
         /\ Temps(y.dst) \cup Temps(y.src) \subseteq Temporary(round + 1) \ Temporary(round)
         /\ ~ isf => \A v \in Temps(y.dst) \cup Temps(y.src) : ~ isFloat(v)
  <1> DEFINE c == newtemp(i, sign * h)
             q == places[p[u]]
  <1>01. i \in Nat
    BY Items
  <1>02. p[u] \in keysOf(p)
    BY Keys
  <1>03. round \in Nat /\ stk_size \in Nat /\ isf \in BOOLEAN
    BY DEF Shape
  <1>0. round \in Nat /\ stk_size \in Nat /\ isf \in BOOLEAN /\ i \in Nat /\ p[u] \in keysOf(p)
    BY <1>01, <1>02, <1>03
  <1>1. sign * h \in Int
    <2>1. CASE sign = 1
      BY <2>1
    <2>2. CASE sign = -1
      BY <2>2
    <2> QED
      BY <2>1, <2>2
  <1>2. c \in Temporary(round + 1) \ Temporary(round) /\ isFloat(c) = isf
    BY <1>0, <1>1, NewTemps
  <1>3. IF isf THEN q \in Temporary(round + 1) \ Temporary(round)
        ELSE q \in (stk_size + 1)..sizeAfter(p)
    BY <1>0, NewPlaces
  <1> HIDE DEF c, q
  <1>4. CASE isf
    <2>1. y = Inserted("copy", <<c>>, <<q>>, 0) \/ y = Inserted("copy", <<q>>, <<c>>, 0)
      BY <1>4 DEF load, store, c, q
    <2>2. PICK v, v2 : {v, v2} = {c, q} /\ y = Inserted("copy", <<v>>, <<v2>>, 0)
      BY <2>1
    <2>3. {v, v2} \subseteq Temporary(round + 1) \ Temporary(round)
      BY <1>2, <1>3, <1>4, <2>2
    <2>4. /\ y.op = "copy" /\ y.dst = <<v>> /\ y.src = <<v2>> /\ y.jumps = {} /\ y.label = NoLabel
          /\ y.of = 0 /\ y.slot = 0 /\ y.gone = FALSE
      BY <2>2 DEF Inserted
    <2>5. <<v>> \in Seq(Temporary(round + 1)) /\ <<v2>> \in Seq(Temporary(round + 1))
          /\ Len(<<v>>) = 1 /\ Len(<<v2>>) = 1 /\ Temps(<<v>>) = {v} /\ Temps(<<v2>>) = {v2}
      <3>1. v \in Temporary(round + 1) /\ v2 \in Temporary(round + 1)
        BY <2>3
      <3> QED
        BY <3>1, OneTemp
    <2>6. y \in Entry(round + 1)
      BY <2>2, <2>5 DEF Inserted, Entry
    <2>7. Fits(prog, y, sizeAfter(p))
      BY <2>4, <2>5 DEF Fits, FitsInserted
    <2> QED
      BY <1>4, <2>3, <2>4, <2>5, <2>6, <2>7
  <1>5. CASE ~ isf
    <2>1. q \in 1..sizeAfter(p) /\ q \in Nat
      <3>1. sizeAfter(p) \in Nat
        BY NewPlaces
      <3> QED
        BY <1>0, <1>3, <1>5, <3>1
    <2>2. <<c>> \in Seq(Temporary(round + 1)) /\ << >> \in Seq(Temporary(round + 1))
          /\ Len(<<c>>) = 1 /\ Temps(<<c>>) = {c} /\ Temps(<< >>) = {}
      BY <1>2 DEF Temps
    <2>3. CASE y = load(newtemp(i, sign * h), places[p[u]])
      <3>1. y = Inserted("load", <<c>>, << >>, q)
        BY <1>5, <2>3 DEF load, c, q
      <3>2. /\ y.op = "load" /\ y.dst = <<c>> /\ y.src = << >> /\ y.jumps = {} /\ y.label = NoLabel
            /\ y.of = 0 /\ y.slot = q /\ y.gone = FALSE
        BY <3>1 DEF Inserted
      <3>3. y \in Entry(round + 1)
        BY <2>1, <2>2, <3>1 DEF Inserted, Entry
      <3>4. Fits(prog, y, sizeAfter(p))
        BY <2>1, <2>2, <3>2 DEF Fits, FitsInserted
      <3> QED
        BY <1>2, <1>5, <2>2, <3>2, <3>3, <3>4
    <2>4. CASE y = store(newtemp(i, sign * h), places[p[u]])
      <3>1. y = Inserted("store", << >>, <<c>>, q)
        BY <1>5, <2>4 DEF store, c, q
      <3>2. /\ y.op = "store" /\ y.src = <<c>> /\ y.dst = << >> /\ y.jumps = {} /\ y.label = NoLabel
            /\ y.of = 0 /\ y.slot = q /\ y.gone = FALSE
        BY <3>1 DEF Inserted
      <3>3. y \in Entry(round + 1)
        BY <2>1, <2>2, <3>1 DEF Inserted, Entry
      <3>4. Fits(prog, y, sizeAfter(p))
        BY <2>1, <2>2, <3>2 DEF Fits, FitsInserted
      <3> QED
        BY <1>2, <1>5, <2>2, <3>2, <3>3, <3>4
    <2> QED
      BY <2>3, <2>4
  <1> QED
    BY <1>0, <1>4, <1>5

LEMMA Centers ==
  ASSUME Shape, NEW p, Allowed(p), NEW i \in DOMAIN il
  PROVE  LET y == center(i, p)
         IN  /\ y \in Entry(round + 1) /\ Fits(prog, y, sizeAfter(p))
             /\ y.op = il[i].op /\ y.of = il[i].of /\ y.jumps = il[i].jumps /\ y.label = il[i].label
             /\ \A v \in Temps(y.dst) \cup Temps(y.src) :
                  \/ v \in Occurring \ Spilled(p)
                  \/ v \in Temporary(round + 1) \ Temporary(round) /\ isFloat(v) = isf
  <1> DEFINE x == il[i]
             y == center(i, p)
             size == sizeAfter(p)
  <1>0. /\ x \in Entry(round) /\ Fits(prog, x, stk_size) /\ i \in Nat
        /\ x.dst \in Seq(Temporary(round)) /\ x.src \in Seq(Temporary(round))
        /\ Temps(x.dst) \subseteq Occurring /\ Temps(x.src) \subseteq Occurring
    BY Items
  <1>1. stk_size \in Nat /\ size \in Nat /\ stk_size <= size
    BY NewPlaces DEF Shape
  <1>2. CASE withinGroup(x, p)
    <2>1. y = Gone(x) /\ x.op = "move" /\ ~ x.gone
      BY <1>2 DEF center, withinGroup
    <2>2. x.of # 0
      BY <2>1, Carrying
    <2> HIDE DEF x, y
    <2>3. /\ y.op = x.op /\ y.of = x.of /\ y.jumps = x.jumps /\ y.label = x.label
          /\ y.gone = TRUE /\ y.dst = << >> /\ y.src = << >>
      BY <1>0, <2>1 DEF Gone, Entry
    <2>4. << >> \in Seq(Temporary(round)) /\ << >> \in Seq(Temporary(round + 1)) /\ Temps(<< >>) = {}
      BY DEF Temps
    <2>5. y \in Entry(round + 1)
      BY <1>0, <2>1, <2>4 DEF Gone, Entry
    <2>6. Fits(prog, y, size)
      <3>1. x.of \in DOMAIN prog /\ FitsOriginal(x, prog[x.of])
        BY <1>0, <2>2 DEF Fits
      <3>2. WellFormed(prog[x.of]) /\ prog[x.of] \in Instruction
        BY <3>1, Functions
      <3>3. Len(prog[x.of].dst) = 1
        BY <2>1, <3>1, <3>2 DEF WellFormed, FitsOriginal
      <3>4. ~ (Len(prog[x.of].dst) > 1)
        BY <3>3
      <3> QED
        BY <2>1, <2>2, <2>3, <3>1, <3>4 DEF Fits, FitsOriginal
    <2> QED
      BY <2>3, <2>4, <2>5, <2>6 DEF x, y
  <1>3. CASE ~ withinGroup(x, p)
    <2> DEFINE dst == renamed(i, x.dst, -1, p)
               src == renamed(i, x.src, 1, p)
    <2>1. y = main(i, p)
      BY <1>3 DEF center
    <2>2. /\ y.op = x.op /\ y.of = x.of /\ y.jumps = x.jumps /\ y.label = x.label /\ y.slot = x.slot
          /\ y.gone = x.gone /\ y.dst = dst /\ y.src = src
          /\ y \in Entry(round + 1)
      BY <2>1, Mains DEF Rewritten
    <2>3. \A s \in Seq(Temporary(round)) : \A sign \in {1, -1} :
            /\ Len(renamed(i, s, sign, p)) = Len(s)
            /\ DOMAIN renamed(i, s, sign, p) = DOMAIN s
            /\ \A k \in DOMAIN s :
                 renamed(i, s, sign, p)[k] = IF s[k] \in Spilled(p) THEN newtemp(i, sign * k) ELSE s[k]
      BY <1>0, RenamedOperands
    <2>4. ASSUME NEW s \in Seq(Temporary(round)), Temps(s) \subseteq Occurring, NEW sign \in {1, -1},
                 NEW v \in Temps(renamed(i, s, sign, p))
          PROVE  \/ v \in Occurring \ Spilled(p)
                 \/ v \in Temporary(round + 1) \ Temporary(round) /\ isFloat(v) = isf
      <3>1. PICK k \in DOMAIN s : v = renamed(i, s, sign, p)[k]
        BY <2>3 DEF Temps
      <3>2. s[k] \in Occurring /\ k \in Nat
        BY <2>4 DEF Temps
      <3>3. sign * k \in Int
        <4>1. CASE sign = 1
          BY <3>2, <4>1
        <4>2. CASE sign = -1
          BY <3>2, <4>2
        <4> QED
          BY <4>1, <4>2
      <3>4. CASE s[k] \in Spilled(p)
        BY <1>0, <2>3, <3>1, <3>3, <3>4, NewTemps
      <3>5. CASE s[k] \notin Spilled(p)
        BY <2>3, <3>1, <3>2, <3>5
      <3> QED
        BY <3>4, <3>5
    <2>5. \A v \in Temps(y.dst) \cup Temps(y.src) :
                  \/ v \in Occurring \ Spilled(p)
                  \/ v \in Temporary(round + 1) \ Temporary(round) /\ isFloat(v) = isf
      BY <1>0, <2>2, <2>4
    <2>6. Len(y.dst) = Len(x.dst) /\ Len(y.src) = Len(x.src) /\ (x.dst = << >> => y.dst = << >>)
          /\ (x.src = << >> => y.src = << >>)
      <3>1. Len(dst) = Len(x.dst) /\ Len(src) = Len(x.src)
        BY <1>0, <2>3
      <3>2. dst \in Seq(Temporary(round + 1)) /\ src \in Seq(Temporary(round + 1))
        BY <1>0, RenamedOperands
      <3> HIDE DEF dst, src
      <3>3. ASSUME NEW s \in Seq(Temporary(round)), NEW r \in Seq(Temporary(round + 1)), Len(r) = Len(s), s = << >>
            PROVE  r = << >>
        BY <3>3
      <3> QED
        BY <1>0, <2>2, <3>1, <3>2, <3>3
    <2>7. Fits(prog, y, size)
      <3>1. CASE x.of = 0
        <4>1. FitsInserted(x, stk_size)
          BY <1>0, <3>1 DEF Fits
        <4>2. x.slot \in 1..stk_size => y.slot \in 1..size
          BY <1>1, <2>2
        <4> HIDE DEF size, y
        <4>3. FitsInserted(y, size)
          BY <2>2, <2>6, <4>1, <4>2 DEF FitsInserted
        <4> QED
          BY <2>2, <3>1, <4>3 DEF Fits
      <3>2. CASE x.of # 0
        <4> DEFINE x0 == prog[x.of]
        <4>1. x.of \in DOMAIN prog /\ FitsOriginal(x, x0)
          BY <1>0, <3>2 DEF Fits
        <4>2. WellFormed(x0)
          BY <4>1, Functions
        <4>3. Len(x0.dst) > 1 => y.dst = x.dst
          <5> SUFFICES ASSUME Len(x0.dst) > 1 PROVE dst = x.dst
            BY <2>2
          <5>1. x.dst = x0.dst /\ Temps(x.dst) \subseteq Reg
            BY <4>1, <4>2 DEF FitsOriginal, WellFormed
          <5>2. \A k \in DOMAIN x.dst : x.dst[k] \notin Spilled(p)
            BY <5>1, Keys DEF Temps
          <5>6. \A k \in DOMAIN x.dst : dst[k] = x.dst[k]
            BY <1>0, <2>3, <5>2
          <5>7. dst = [k \in DOMAIN x.dst |-> dst[k]]
            BY DEF renamed
          <5> HIDE DEF dst
          <5>4. dst = [k \in DOMAIN x.dst |-> x.dst[k]]
            BY <5>6, <5>7
          <5>5. x.dst = [k \in DOMAIN x.dst |-> x.dst[k]]
            BY <1>0
          <5> QED
            BY <5>4, <5>5
        <4> HIDE DEF y, x0
        <4>4. FitsOriginal(y, x0)
          BY <2>2, <2>6, <4>1, <4>3 DEF FitsOriginal
        <4> QED
          BY <2>2, <3>2, <4>1, <4>4 DEF Fits, x0
      <3> QED
        BY <3>1, <3>2
    <2> QED
      BY <2>2, <2>5, <2>7
  <1> QED
    BY <1>2, <1>3

(* The instructions that the one at i becomes. *)
BlockOf(q, i, p, places) ==
  /\ q \in Seq(Entry(round + 1))
  /\ loadsOf(i, p) \in Nat /\ storesOf(i, p) \in {0, 1}
  /\ Len(q) = loadsOf(i, p) + 1 + storesOf(i, p)
  /\ loadsOf(i, p) > 0 => loadsOf(i, p) = Len(spilledAt(il[i].src, p))
  /\ \A k \in 1..loadsOf(i, p) :
       LET h == spilledAt(il[i].src, p)[k]
       IN  h \in DOMAIN il[i].src /\ il[i].src[h] \in Spilled(p) /\ q[k] = loadAt(i, p, places, h)
  /\ q[loadsOf(i, p) + 1] = center(i, p)
  /\ storesOf(i, p) = 1 =>
       /\ ~ withinGroup(il[i], p) /\ 1 \in DOMAIN il[i].dst /\ il[i].dst[1] \in Spilled(p)
       /\ q[loadsOf(i, p) + 2] = storeAt(i, p, places, 1)
  /\ storesOf(i, p) = 0 /\ ~ withinGroup(il[i], p) => ~ (1 \in DOMAIN il[i].dst /\ il[i].dst[1] \in Spilled(p))

LEMMA LoadItems ==
  ASSUME Shape, NEW p, Allowed(p), NEW places, places = placesOf(keysOf(p)), NEW i \in DOMAIN il,
         NEW h \in Nat, NEW y,
         \/ il[i].src[h] \in Spilled(p) /\ y = loadAt(i, p, places, h)
         \/ il[i].dst[h] \in Spilled(p) /\ y = storeAt(i, p, places, h)
  PROVE  /\ y \in Entry(round + 1) /\ y.of = 0 /\ Fits(prog, y, sizeAfter(p))
         /\ y.jumps = {} /\ y.label = NoLabel
         /\ Temps(y.dst) \cup Temps(y.src) \subseteq Temporary(round + 1) \ Temporary(round)
         /\ ~ isf => \A v \in Temps(y.dst) \cup Temps(y.src) : ~ isFloat(v)
  <1>1. 1 * h = h /\ (-1) * h = -h
    OBVIOUS
  <1>2. CASE il[i].src[h] \in Spilled(p) /\ y = loadAt(i, p, places, h)
    <2>1. PICK u \in Spilled(p) : u = il[i].src[h]
      BY <1>2
    <2>2. y = load(newtemp(i, 1 * h), places[p[u]])
      BY <1>1, <1>2, <2>1 DEF loadAt
    <2> QED
      BY <2>2, Loads
  <1>3. CASE il[i].dst[h] \in Spilled(p) /\ y = storeAt(i, p, places, h)
    <2>1. PICK u \in Spilled(p) : u = il[i].dst[h]
      BY <1>3
    <2>2. y = store(newtemp(i, (-1) * h), places[p[u]])
      BY <1>1, <1>3, <2>1 DEF storeAt
    <2> QED
      BY <2>2, Loads
  <1> QED
    BY <1>2, <1>3

LEMMA Blocks ==
  ASSUME Shape, NEW p, Allowed(p), NEW places, places = placesOf(keysOf(p)), NEW i \in DOMAIN il
  PROVE  BlockOf(rewrite(i, p, places), i, p, places)
  <1> DEFINE x == il[i]
             q == rewrite(i, p, places)
             E == Entry(round + 1)
             src == spilledAt(x.src, p)
             dst == spilledAt(x.dst, p)
             S == {k \in DOMAIN x.src : x.src[k] \in Spilled(p)}
             D == {k \in DOMAIN x.dst : x.dst[k] \in Spilled(p)}
  <1>0. x.dst \in Seq(Temporary(round)) /\ x.src \in Seq(Temporary(round))
    BY Items
  <1>1. /\ Len(src) \in Nat /\ DOMAIN src = 1..Len(src)
        /\ \A k \in 1..Len(src) : src[k] \in S
    BY <1>0, SpilledAt
  <1>2. /\ Len(dst) \in Nat /\ DOMAIN dst = 1..Len(dst)
        /\ \A k \in 1..Len(dst) : dst[k] \in D
        /\ (D = {} <=> Len(dst) = 0)
        /\ D \subseteq {1} => Len(dst) <= 1
    BY <1>0, SpilledAt
  <1>3. D \subseteq {1}
    BY SpilledWritten
  <1>4. Len(dst) \in {0, 1} /\ (Len(dst) = 1 <=> 1 \in D)
    <2> HIDE DEF D, dst
    <2>1. Len(dst) \in {0, 1}
      BY <1>2, <1>3
    <2> QED
      BY <1>2, <1>3, <2>1
  <1>5. center(i, p) \in E
    BY Centers
  <1>6. CASE withinGroup(x, p)
    <2>1. q = <<center(i, p)>> /\ loadsOf(i, p) = 0 /\ storesOf(i, p) = 0
      BY <1>6 DEF rewrite, loadsOf, storesOf, center
    <2> HIDE DEF E, q
    <2>2. q \in Seq(E) /\ Len(q) = 1 /\ q[1] = center(i, p)
      BY <1>5, <2>1, OneTemp
    <2> QED
      BY <1>6, <2>1, <2>2 DEF BlockOf, E, q
  <1>7. CASE ~ withinGroup(x, p)
    <2> DEFINE ls == loads(i, p, places)
               ss == stores(i, p, places)
               ms == <<center(i, p)>>
    <2>1. q = (ls \o ms) \o ss /\ loadsOf(i, p) = Len(src) /\ storesOf(i, p) = Len(dst)
      BY <1>7 DEF rewrite, loadsOf, storesOf, center, main
    <2>2. ls = [k \in 1..Len(src) |-> loadAt(i, p, places, src[k])]
      BY <1>1 DEF loads, loadAt
    <2>3. ss = [k \in 1..Len(dst) |-> storeAt(i, p, places, dst[k])]
      BY <1>2 DEF stores, storeAt
    <2>4. \A k \in 1..Len(src) : loadAt(i, p, places, src[k]) \in E
      <3> SUFFICES ASSUME NEW k \in 1..Len(src) PROVE loadAt(i, p, places, src[k]) \in E
        OBVIOUS
      <3>1. PICK h \in S : h = src[k]
        BY <1>1
      <3>2. h \in Nat
        BY <1>0
      <3>3. loadAt(i, p, places, h) \in E
        BY <3>2, LoadItems
      <3> QED
        BY <3>1, <3>3
    <2>5. \A k \in 1..Len(dst) : storeAt(i, p, places, dst[k]) \in E
      <3> SUFFICES ASSUME NEW k \in 1..Len(dst) PROVE storeAt(i, p, places, dst[k]) \in E
        OBVIOUS
      <3>1. PICK h \in D : h = dst[k]
        BY <1>2
      <3>2. h \in Nat
        BY <1>0
      <3>3. storeAt(i, p, places, h) \in E
        BY <3>2, LoadItems
      <3> QED
        BY <3>1, <3>3
    <2> DEFINE la == Len(src)
               ld == Len(dst)
    <2>6. ls \in Seq(E) /\ Len(ls) = la /\ ss \in Seq(E) /\ Len(ss) = ld
      <3> HIDE DEF ls, ss, E, src, dst
      <3> QED
        BY <1>1, <1>2, <2>2, <2>3, <2>4, <2>5
    <2>7. ms \in Seq(E) /\ Len(ms) = 1 /\ ms[1] = center(i, p)
      BY <1>5, OneTemp
    <2>8. la \in Nat /\ ld \in {0, 1}
      BY <1>1, <1>4
    <2> DEFINE lm == ls \o ms
    <2>9. lm \in Seq(E) /\ Len(lm) = la + 1
          /\ \A k \in 1..(la + 1) : lm[k] = IF k <= la THEN ls[k] ELSE ms[k - la]
      <3>1. /\ lm \in Seq(E)
            /\ Len(lm) = Len(ls) + Len(ms)
            /\ \A k \in 1..(Len(ls) + Len(ms)) :
                 lm[k] = IF k <= Len(ls) THEN ls[k] ELSE ms[k - Len(ls)]
        <4> HIDE DEF ls, ms, E, la, ld
        <4> QED
          BY <2>6, <2>7, ConcatProperties DEF lm
      <3> HIDE DEF ls, ms, E, la, ld, lm
      <3> QED
        BY <2>6, <2>7, <3>1
    <2>10. q \in Seq(E) /\ Len(q) = (la + 1) + ld
          /\ \A k \in 1..((la + 1) + ld) : q[k] = IF k <= la + 1 THEN lm[k] ELSE ss[k - (la + 1)]
      <3>1. q = lm \o ss
        BY <2>1
      <3>2. /\ q \in Seq(E)
            /\ Len(q) = Len(lm) + Len(ss)
            /\ \A k \in 1..(Len(lm) + Len(ss)) :
                 q[k] = IF k <= Len(lm) THEN lm[k] ELSE ss[k - Len(lm)]
        <4> HIDE DEF ls, ms, ss, lm, E, la, ld, q
        <4> QED
          BY <2>6, <2>9, <3>1, ConcatProperties
      <3> HIDE DEF ls, ms, ss, lm, E, la, ld, q
      <3> QED
        BY <2>6, <2>9, <3>2
    <2> HIDE DEF ls, ms, ss, lm, la, ld, q
    <2>11. \A k \in 1..la : q[k] = ls[k]
      <3> SUFFICES ASSUME NEW k \in 1..la PROVE q[k] = ls[k]
        OBVIOUS
      <3>1. k \in 1..(la + 1) /\ k \in 1..((la + 1) + ld) /\ k <= la /\ k <= la + 1
        BY <2>8
      <3> QED
        BY <2>9, <2>10, <3>1
    <2>12. q[la + 1] = center(i, p)
      <3>1. la + 1 \in 1..(la + 1) /\ la + 1 \in 1..((la + 1) + ld) /\ ~ (la + 1 <= la) /\ (la + 1) - la = 1
        BY <2>8
      <3> QED
        BY <2>7, <2>9, <2>10, <3>1
    <2>13. ld = 1 => q[la + 2] = storeAt(i, p, places, 1)
      <3> SUFFICES ASSUME ld = 1 PROVE q[la + 2] = storeAt(i, p, places, 1)
        OBVIOUS
      <3>1. la + 2 \in 1..((la + 1) + ld) /\ ~ (la + 2 <= la + 1) /\ (la + 2) - (la + 1) = 1
        BY <2>8
      <3>2. q[la + 2] = ss[1]
        BY <2>10, <3>1
      <3>3. 1 \in 1..Len(dst)
        BY DEF ld
      <3>4. dst[1] = 1
        BY <1>2, <1>3, <3>3
      <3>5. ss[1] = storeAt(i, p, places, dst[1])
        BY <2>3, <3>3
      <3> QED
        BY <3>2, <3>4, <3>5
    <2>14. \A k \in 1..la : ls[k] = loadAt(i, p, places, src[k])
      BY <2>2 DEF la
    <2>15. loadsOf(i, p) = la /\ storesOf(i, p) = ld
      BY <2>1 DEF la, ld
    <2>16. /\ q \in Seq(E) /\ la \in Nat /\ ld \in {0, 1} /\ Len(q) = la + 1 + ld
           /\ la > 0 => la = Len(src)
           /\ \A k \in 1..la : LET h == src[k]
                IN  h \in DOMAIN x.src /\ x.src[h] \in Spilled(p) /\ q[k] = loadAt(i, p, places, h)
           /\ q[la + 1] = center(i, p)
           /\ ld = 1 => /\ ~ withinGroup(x, p) /\ 1 \in DOMAIN x.dst /\ x.dst[1] \in Spilled(p)
                        /\ q[la + 2] = storeAt(i, p, places, 1)
           /\ ld = 0 /\ ~ withinGroup(x, p) => ~ (1 \in DOMAIN x.dst /\ x.dst[1] \in Spilled(p))
      <3>1. \A k \in 1..la : src[k] \in S
        BY <1>1 DEF la
      <3>2. ld = 1 <=> 1 \in D
        BY <1>4 DEF ld
      <3>3. la = Len(src)
        BY DEF la
      <3> HIDE DEF src, dst, x
      <3> QED
        BY <1>7, <2>8, <2>10, <2>11, <2>12, <2>13, <2>14, <3>1, <3>2, <3>3 DEF x
    <2> HIDE DEF E
    <2> QED
      BY <2>15, <2>16 DEF BlockOf, E, q
  <1> QED
    BY <1>6, <1>7
(* Where the instructions that the one at i becomes are in the list c.     *)
sizeOf(i, p) == loadsOf(i, p) + 1 + storesOf(i, p)

Laid(c, start, p, places) ==
  /\ c \in Seq(Entry(round + 1))
  /\ start \in [1..(Len(il) + 1) -> Nat] /\ start[1] = 0 /\ start[Len(il) + 1] = Len(c)
  /\ \A i \in DOMAIN il : start[i + 1] = start[i] + sizeOf(i, p)
  /\ \A i \in DOMAIN il : \A k \in 1..sizeOf(i, p) : start[i] + k \in 1..Len(c)
  /\ \A i \in DOMAIN il : \A k \in 1..loadsOf(i, p) :
       c[start[i] + k] = loadAt(i, p, places, spilledAt(il[i].src, p)[k])
  /\ \A i \in DOMAIN il : c[start[i] + (loadsOf(i, p) + 1)] = center(i, p)
  /\ \A i \in DOMAIN il : storesOf(i, p) = 1 => c[start[i] + (loadsOf(i, p) + 2)] = storeAt(i, p, places, 1)
  /\ \A j \in 1..Len(c) : \E i \in DOMAIN il : \E k \in 1..sizeOf(i, p) : j = start[i] + k
  /\ \A i, h \in DOMAIN il : \A k \in 1..sizeOf(i, p), m \in 1..sizeOf(h, p) :
       start[i] + k = start[h] + m => i = h /\ k = m

LEMMA Layout ==
  ASSUME Shape, NEW p, Allowed(p), NEW places, places = placesOf(keysOf(p)), Len(il) # 0,
         NEW c, c = FlattenSeq([i \in DOMAIN il |-> rewrite(i, p, places)])
  PROVE  \E start : Laid(c, start, p, places)
  <1> DEFINE seqs == [i \in DOMAIN il |-> rewrite(i, p, places)]
             n == Len(il)
  <1>1. n \in Nat /\ DOMAIN il = 1..n
    BY Items
  <1>2. \A i \in DOMAIN il : BlockOf(seqs[i], i, p, places)
    BY Blocks
  <1>3. \A i \in DOMAIN il : seqs[i] \in Seq(Entry(round + 1)) /\ Len(seqs[i]) = sizeOf(i, p)
    BY <1>2 DEF BlockOf, sizeOf
  <1>4. seqs \in [1..n -> Seq(Entry(round + 1))]
    BY <1>1, <1>3
  <1>5. c = FlattenSeq(seqs) /\ n # 0
    OBVIOUS
  <1>11. c \in Seq(Entry(round + 1)) /\ \E start : Parts(c, n, seqs, start)
    <2> HIDE DEF seqs, n
    <2> QED
      BY <1>1, <1>4, <1>5, Flattened
  <1>6. PICK start : Parts(c, n, seqs, start)
    BY <1>11
  <1>7. c \in Seq(Entry(round + 1))
    BY <1>11
  <1> HIDE DEF seqs, n
  <1>8. ASSUME NEW i \in DOMAIN il
        PROVE  /\ \A k \in 1..loadsOf(i, p) :
                    c[start[i] + k] = loadAt(i, p, places, spilledAt(il[i].src, p)[k])
               /\ c[start[i] + (loadsOf(i, p) + 1)] = center(i, p)
               /\ storesOf(i, p) = 1 => c[start[i] + (loadsOf(i, p) + 2)] = storeAt(i, p, places, 1)
    <2>1. /\ loadsOf(i, p) \in Nat /\ storesOf(i, p) \in {0, 1} /\ Len(seqs[i]) = loadsOf(i, p) + 1 + storesOf(i, p)
          /\ \A k \in 1..loadsOf(i, p) : seqs[i][k] = loadAt(i, p, places, spilledAt(il[i].src, p)[k])
          /\ seqs[i][loadsOf(i, p) + 1] = center(i, p)
          /\ storesOf(i, p) = 1 => seqs[i][loadsOf(i, p) + 2] = storeAt(i, p, places, 1)
      BY <1>2 DEF BlockOf
    <2>2. \A k \in 1..Len(seqs[i]) : c[start[i] + k] = seqs[i][k]
      BY <1>1, <1>6 DEF n, Parts
    <2>3. loadsOf(i, p) + 1 \in 1..Len(seqs[i])
      BY <2>1
    <2>4. storesOf(i, p) = 1 => loadsOf(i, p) + 2 \in 1..Len(seqs[i])
      BY <2>1
    <2>5. \A k \in 1..loadsOf(i, p) : k \in 1..Len(seqs[i])
      BY <2>1
    <2> QED
      BY <2>1, <2>2, <2>3, <2>4, <2>5
  <1>9. Laid(c, start, p, places)
    <2> USE <1>1
    <2>1. DOMAIN il = 1..n /\ n = Len(il)
      BY <1>1 DEF n
    <2>2. /\ start \in [1..(n + 1) -> Nat] /\ start[1] = 0 /\ start[n + 1] = Len(c)
          /\ \A i \in 1..n : start[i + 1] = start[i] + Len(seqs[i])
      BY <1>6 DEF Parts
    <2>3. \A i \in 1..n : \A k \in 1..Len(seqs[i]) : start[i] + k \in 1..Len(c)
      BY <1>6 DEF Parts
    <2>4. \A j \in 1..Len(c) : \E i \in 1..n : \E k \in 1..Len(seqs[i]) : j = start[i] + k
      BY <1>6 DEF Parts
    <2>5. \A i, h \in 1..n : \A k \in 1..Len(seqs[i]), m \in 1..Len(seqs[h]) :
            start[i] + k = start[h] + m => i = h /\ k = m
      BY <1>6 DEF Parts
    <2>6. \A i \in 1..n : Len(seqs[i]) = sizeOf(i, p)
      BY <1>3, <2>1
    <2>7. \A j \in 1..Len(c) : \E i \in 1..n : \E k \in 1..sizeOf(i, p) : j = start[i] + k
      BY <2>4, <2>6
    <2>8. \A i, h \in 1..n : \A k \in 1..sizeOf(i, p), m \in 1..sizeOf(h, p) :
            start[i] + k = start[h] + m => i = h /\ k = m
      BY <2>5, <2>6
    <2>9. \A i \in 1..n : start[i + 1] = start[i] + sizeOf(i, p)
      BY <2>2, <2>6
    <2>10. \A i \in 1..n : \A k \in 1..sizeOf(i, p) : start[i] + k \in 1..Len(c)
      BY <2>3, <2>6
    <2>11. /\ start \in [1..(Len(il) + 1) -> Nat] /\ start[1] = 0 /\ start[Len(il) + 1] = Len(c)
           /\ \A i \in DOMAIN il : start[i + 1] = start[i] + sizeOf(i, p)
           /\ \A i \in DOMAIN il : \A k \in 1..sizeOf(i, p) : start[i] + k \in 1..Len(c)
      BY <2>1, <2>2, <2>9, <2>10
    <2>12. \A j \in 1..Len(c) : \E i \in DOMAIN il : \E k \in 1..sizeOf(i, p) : j = start[i] + k
      <3> SUFFICES ASSUME NEW j \in 1..Len(c)
                   PROVE  \E i \in DOMAIN il : \E k \in 1..sizeOf(i, p) : j = start[i] + k
        OBVIOUS
      <3>1. PICK i \in 1..n : \E k \in 1..sizeOf(i, p) : j = start[i] + k
        BY <2>7
      <3>2. i \in DOMAIN il
        BY <2>1
      <3> QED
        BY <3>1, <3>2
    <2>13. \A i, h \in DOMAIN il : \A k \in 1..sizeOf(i, p), m \in 1..sizeOf(h, p) :
             start[i] + k = start[h] + m => i = h /\ k = m
      BY <2>1, <2>8, Zenon
    <2> QED
      BY <1>7, <1>8, <2>11, <2>12, <2>13, ZenonT(60) DEF Laid
  <1> QED
    BY <1>9

(* Which of the loads of the instruction at i come before position k.      *)
loaded(i, p, k) == {spilledAt(il[i].src, p)[h] : h \in 1..(k - 1)}

LEMMA LoadedBefore ==
  ASSUME Shape, NEW p, Allowed(p), NEW places, places = placesOf(keysOf(p)), NEW i \in DOMAIN il
  PROVE  /\ loadsOf(i, p) \in Nat /\ storesOf(i, p) \in {0, 1}
         /\ loaded(i, p, 1) = {}
         /\ \A k \in 1..loadsOf(i, p) :
              LET h == spilledAt(il[i].src, p)[k]
              IN  /\ h \in DOMAIN il[i].src /\ il[i].src[h] \in Spilled(p)
                  /\ loaded(i, p, k) \in SUBSET (DOMAIN il[i].src)
                  /\ loaded(i, p, k + 1) = loaded(i, p, k) \cup {h}
         /\ loaded(i, p, loadsOf(i, p) + 1) \in SUBSET (DOMAIN il[i].src)
         /\ ~ withinGroup(il[i], p) =>
              \A k \in DOMAIN il[i].src : il[i].src[k] \in Spilled(p) => k \in loaded(i, p, loadsOf(i, p) + 1)
  <1> DEFINE at == spilledAt(il[i].src, p)
             a == loadsOf(i, p)
  <1>1. /\ a \in Nat /\ storesOf(i, p) \in {0, 1}
        /\ \A k \in 1..a : at[k] \in DOMAIN il[i].src /\ il[i].src[at[k]] \in Spilled(p)
    BY Blocks DEF BlockOf
  <1>2. loaded(i, p, 1) = {}
    BY DEF loaded
  <1>3. ASSUME NEW k \in 1..a
        PROVE  loaded(i, p, k) \in SUBSET (DOMAIN il[i].src) /\ loaded(i, p, k + 1) = loaded(i, p, k) \cup {at[k]}
    <2>1. k - 1 \in Nat /\ (k + 1) - 1 = k /\ 1..(k - 1) \subseteq 1..a /\ 1..k = 1..(k - 1) \cup {k}
      BY <1>1
    <2>2. loaded(i, p, k) = {at[h] : h \in 1..(k - 1)} /\ loaded(i, p, k + 1) = {at[h] : h \in 1..k}
      BY <2>1 DEF loaded
    <2> HIDE DEF at
    <2> QED
      BY <1>1, <2>1, <2>2
  <1>4. (a + 1) - 1 = a
    BY <1>1
  <1>5. loaded(i, p, a + 1) = {at[h] : h \in 1..a}
    BY <1>4 DEF loaded
  <1>6. loaded(i, p, a + 1) \in SUBSET (DOMAIN il[i].src)
    <2> HIDE DEF at, a
    <2> QED
      BY <1>1, <1>5
  <1>7. ASSUME ~ withinGroup(il[i], p), NEW k \in DOMAIN il[i].src, il[i].src[k] \in Spilled(p)
        PROVE  k \in loaded(i, p, a + 1)
    <2>1. a = Len(at)
      BY <1>7 DEF loadsOf
    <2>2. il[i].src \in Seq(Temporary(round))
      BY Items
    <2>3. \E h \in 1..Len(at) : at[h] = k
      BY <1>7, <2>2, SpilledAt
    <2> HIDE DEF at, a
    <2> QED
      BY <1>5, <2>1, <2>3
  <1> HIDE DEF a
  <1>8. a = loadsOf(i, p)
    BY DEF a
  <1> QED
    BY <1>1, <1>2, <1>3, <1>6, <1>7, <1>8

(* What the instruction at i becomes, position by position.                *)
Kinds(c, start, i, p, places) ==
  /\ loadsOf(i, p) \in Nat /\ storesOf(i, p) \in {0, 1} /\ start[i] \in Nat
  /\ sizeOf(i, p) = loadsOf(i, p) + 1 + storesOf(i, p)
  /\ start[i + 1] = start[i] + sizeOf(i, p)
  /\ \A k \in 1..sizeOf(i, p) :
       k \in 1..loadsOf(i, p) \/ k = loadsOf(i, p) + 1 \/ (storesOf(i, p) = 1 /\ k = loadsOf(i, p) + 2)
  /\ \A k \in 1..loadsOf(i, p) :
       /\ k + 1 \in 1..sizeOf(i, p)
       /\ c[start[i] + k].of = 0 /\ c[start[i] + k].jumps = {} /\ c[start[i] + k].label = NoLabel
  /\ c[start[i] + (loadsOf(i, p) + 1)] = center(i, p)
  /\ loadsOf(i, p) + 1 \in 1..sizeOf(i, p)
  /\ storesOf(i, p) = 1 =>
       LET y == c[start[i] + (loadsOf(i, p) + 2)]
       IN  /\ loadsOf(i, p) + 2 \in 1..sizeOf(i, p)
           /\ y.of = 0 /\ y.jumps = {} /\ y.label = NoLabel /\ y = storeAt(i, p, places, 1)
           /\ 1 \in DOMAIN il[i].dst /\ il[i].dst[1] \in Spilled(p) /\ ~ withinGroup(il[i], p)
           /\ il[i].jumps = {}
  /\ storesOf(i, p) = 0 /\ ~ withinGroup(il[i], p) => ~ (1 \in DOMAIN il[i].dst /\ il[i].dst[1] \in Spilled(p))
  /\ il[i].label # NoLabel => loadsOf(i, p) = 0
  /\ center(i, p).of = il[i].of /\ center(i, p).op = il[i].op
  /\ center(i, p).jumps = il[i].jumps /\ center(i, p).label = il[i].label

LEMMA Labels ==
  ASSUME Shape, NEW i \in DOMAIN il, il[i].label # NoLabel
  PROVE  il[i].src = << >>
  <1>1. Fits(prog, il[i], stk_size) /\ il[i].src \in Seq(Temporary(round))
    BY Items
  <1>2. il[i].of # 0
    BY <1>1 DEF Fits, FitsInserted
  <1>3. il[i].of \in DOMAIN prog /\ FitsOriginal(il[i], prog[il[i].of])
    BY <1>1, <1>2 DEF Fits
  <1>4. WellFormed(prog[il[i].of])
    BY <1>3, Functions
  <1>5. prog[il[i].of].op = "label" /\ prog[il[i].of].src = << >>
    BY <1>3, <1>4 DEF FitsOriginal, WellFormed
  <1>6. il[i].op = "label"
    BY <1>3, <1>5 DEF FitsOriginal
  <1>7. Len(il[i].src) = 0
    BY <1>3, <1>5, <1>6 DEF FitsOriginal
  <1> QED
    BY <1>1, <1>7

LEMMA KindsOf ==
  ASSUME Shape, NEW p, Allowed(p), NEW places, places = placesOf(keysOf(p)),
         NEW c, NEW start, Laid(c, start, p, places), NEW i \in DOMAIN il
  PROVE  Kinds(c, start, i, p, places)
  <1> DEFINE a == loadsOf(i, p)
             b == storesOf(i, p)
  <1>1. /\ a \in Nat /\ b \in {0, 1} /\ sizeOf(i, p) = a + 1 + b
        /\ \A k \in 1..a : LET h == spilledAt(il[i].src, p)[k] IN h \in DOMAIN il[i].src /\ il[i].src[h] \in Spilled(p)
        /\ b = 1 => ~ withinGroup(il[i], p) /\ 1 \in DOMAIN il[i].dst /\ il[i].dst[1] \in Spilled(p)
        /\ b = 0 /\ ~ withinGroup(il[i], p) => ~ (1 \in DOMAIN il[i].dst /\ il[i].dst[1] \in Spilled(p))
    BY Blocks DEF BlockOf, sizeOf
  <1>2. start[i] \in Nat /\ start[i + 1] = start[i] + sizeOf(i, p)
    BY Items DEF Laid
  <1>3. /\ \A k \in 1..a : c[start[i] + k] = loadAt(i, p, places, spilledAt(il[i].src, p)[k])
        /\ c[start[i] + (a + 1)] = center(i, p)
        /\ b = 1 => c[start[i] + (a + 2)] = storeAt(i, p, places, 1)
    BY DEF Laid
  <1>4. ASSUME NEW k \in 1..a
        PROVE  c[start[i] + k].of = 0 /\ c[start[i] + k].jumps = {} /\ c[start[i] + k].label = NoLabel
    <2>1. PICK h \in DOMAIN il[i].src : h = spilledAt(il[i].src, p)[k] /\ il[i].src[h] \in Spilled(p)
      BY <1>1
    <2>2. h \in Nat
      BY Items
    <2>3. PICK y : y = loadAt(i, p, places, h)
      OBVIOUS
    <2>4. y.of = 0 /\ y.jumps = {} /\ y.label = NoLabel
      BY <2>1, <2>2, <2>3, LoadItems
    <2> QED
      BY <1>3, <2>1, <2>3, <2>4
  <1>5. ASSUME b = 1
        PROVE  LET y == c[start[i] + (a + 2)]
               IN  /\ y.of = 0 /\ y.jumps = {} /\ y.label = NoLabel /\ y = storeAt(i, p, places, 1)
                   /\ il[i].jumps = {}
    <2>1. 1 \in DOMAIN il[i].dst /\ il[i].dst[1] \in Spilled(p)
      BY <1>1, <1>5
    <2>2. PICK y : y = storeAt(i, p, places, 1)
      OBVIOUS
    <2>3. y.of = 0 /\ y.jumps = {} /\ y.label = NoLabel
      BY <2>1, <2>2, LoadItems
    <2>4. il[i].jumps = {}
      BY <2>1, SpilledWritten
    <2> QED
      BY <1>3, <1>5, <2>2, <2>3, <2>4
  <1>6. ASSUME il[i].label # NoLabel PROVE a = 0
    <2>1. il[i].src = << >>
      BY <1>6, Labels
    <2>2. DOMAIN il[i].src = {}
      BY <2>1
    <2>3. 1 \notin 1..a
      BY <1>1, <2>2
    <2> QED
      BY <1>1, <2>3
  <1>7. /\ center(i, p).of = il[i].of /\ center(i, p).op = il[i].op
        /\ center(i, p).jumps = il[i].jumps /\ center(i, p).label = il[i].label
    BY Centers
  <1> HIDE DEF a, b
  <1>8. /\ \A k \in 1..sizeOf(i, p) : k \in 1..a \/ k = a + 1 \/ (b = 1 /\ k = a + 2)
        /\ \A k \in 1..a : k + 1 \in 1..sizeOf(i, p)
        /\ a + 1 \in 1..sizeOf(i, p)
        /\ b = 1 => a + 2 \in 1..sizeOf(i, p)
    BY <1>1
  <1>9. a = loadsOf(i, p) /\ b = storesOf(i, p)
    BY DEF a, b
  <1> QED
    BY <1>1, <1>2, <1>3, <1>4, <1>5, <1>6, <1>7, <1>8, <1>9 DEF Kinds

(* What is said of every position of every instruction is said of the list.*)
positions(p) == {z \in (DOMAIN il) \X Nat : z[2] \in 1..sizeOf(z[1], p)}

LEMMA Pairs ==
  ASSUME NEW A, NEW B
  PROVE  /\ \A z \in A \X B : z[1] \in A /\ z[2] \in B /\ z = <<z[1], z[2]>>
         /\ \A m \in A, k \in B : <<m, k>> \in A \X B /\ <<m, k>>[1] = m /\ <<m, k>>[2] = k
  OBVIOUS

LEMMA Spread ==
  ASSUME Shape, NEW p, Allowed(p), NEW places, places = placesOf(keysOf(p)),
         NEW c, NEW start, Laid(c, start, p, places), NEW V, NEW F \in [positions(p) -> V]
  PROVE  \E G \in [1..Len(c) -> V] :
           \A i \in DOMAIN il : \A k \in 1..sizeOf(i, p) : G[start[i] + k] = F[<<i, k>>]
  <1> DEFINE at(j) == CHOOSE z \in positions(p) : j = start[z[1]] + z[2]
             G == [j \in 1..Len(c) |-> F[at(j)]]
  <1>1. ASSUME NEW i \in DOMAIN il, NEW k \in 1..sizeOf(i, p)
        PROVE  <<i, k>> \in positions(p)
    <2>1. loadsOf(i, p) \in Nat /\ storesOf(i, p) \in {0, 1} /\ sizeOf(i, p) = loadsOf(i, p) + 1 + storesOf(i, p)
      BY KindsOf DEF Kinds
    <2>2. k \in Nat
      BY <2>1
    <2>3. PICK z : z = <<i, k>>
      OBVIOUS
    <2>4. z \in (DOMAIN il) \X Nat /\ z[1] = i /\ z[2] = k
      <3>1. PICK D : D = DOMAIN il
        OBVIOUS
      <3>2. z \in D \X Nat /\ z[1] = i /\ z[2] = k
        BY <2>2, <2>3, <3>1, Pairs
      <3> QED
        BY <3>1, <3>2
    <2> QED
      BY <2>3, <2>4 DEF positions
  <1>2. ASSUME NEW j \in 1..Len(c)
        PROVE  at(j) \in positions(p) /\ j = start[at(j)[1]] + at(j)[2]
    <2>3. PICK i \in DOMAIN il : \E k \in 1..sizeOf(i, p) : j = start[i] + k
      BY DEF Laid
    <2>1. PICK k \in 1..sizeOf(i, p) : j = start[i] + k
      BY <2>3
    <2>2. <<i, k>> \in positions(p) /\ j = start[<<i, k>>[1]] + <<i, k>>[2]
      BY <1>1, <2>1
    <2> QED
      BY <2>2
  <1>3. G \in [1..Len(c) -> V]
    <2> HIDE DEF at
    <2> QED
      BY <1>2
  <1>4. ASSUME NEW i \in DOMAIN il, NEW k \in 1..sizeOf(i, p)
        PROVE  G[start[i] + k] = F[<<i, k>>]
    <2>1. PICK j \in 1..Len(c) : j = start[i] + k
      BY DEF Laid
    <2>2. PICK z : z = at(j)
      OBVIOUS
    <2>3. z \in positions(p) /\ j = start[z[1]] + z[2] /\ G[j] = F[z]
      BY <1>2, <2>2
    <2> HIDE DEF at, G
    <2>6. z \in (DOMAIN il) \X Nat /\ z[2] \in 1..sizeOf(z[1], p)
      BY <2>3 DEF positions
    <2>4. z[1] \in DOMAIN il /\ z[2] \in 1..sizeOf(z[1], p) /\ z = <<z[1], z[2]>>
      <3>1. PICK D : D = DOMAIN il
        OBVIOUS
      <3>2. z \in D \X Nat
        BY <2>6, <3>1
      <3>3. z[1] \in D /\ z = <<z[1], z[2]>>
        BY <3>2, Pairs
      <3> QED
        BY <2>6, <3>1, <3>3
    <2>5. z[1] = i /\ z[2] = k
      BY <2>1, <2>3, <2>4 DEF Laid
    <2> QED
      BY <2>1, <2>3, <2>4, <2>5
  <1> QED
    BY <1>3, <1>4

(* What is where before the k-th instruction that the one at i becomes.    *)
before(R, p, places, i, k) ==
  IF k <= loadsOf(i, p) + 1 THEN Loaded(R, p, places, i, loaded(i, p, k))
  ELSE IF i + 1 \in DOMAIN il THEN Stored(R, p, places, i) ELSE {}

Spilt(p, places, R, ahead, c, start) == Spilling(p, places, R, ahead) /\ Laid(c, start, p, places)

LEMMA SpiltKinds ==
  ASSUME NEW p, NEW places, NEW R, NEW ahead, NEW c, NEW start, Spilt(p, places, R, ahead, c, start),
         NEW i \in DOMAIN il
  PROVE  /\ Kinds(c, start, i, p, places)
         /\ before(R, p, places, i, 1) = Base(R, p, places, i)
         /\ before(R, p, places, i, loadsOf(i, p) + 1)
              = Loaded(R, p, places, i, loaded(i, p, loadsOf(i, p) + 1))
         /\ before(R, p, places, i, loadsOf(i, p) + 2)
              = IF i + 1 \in DOMAIN il THEN Stored(R, p, places, i) ELSE {}
         /\ \A k \in 1..loadsOf(i, p) :
              /\ before(R, p, places, i, k) = Loaded(R, p, places, i, loaded(i, p, k))
              /\ before(R, p, places, i, k + 1) = Loaded(R, p, places, i, loaded(i, p, k + 1))
         /\ \A k \in 1..sizeOf(i, p) : before(R, p, places, i, k) \in SUBSET (Place(round + 1, sizeAfter(p)) \X Named)
  <1> DEFINE a == loadsOf(i, p)
  <1>1. Shape /\ Allowed(p) /\ places = placesOf(keysOf(p)) /\ Spilling(p, places, R, ahead) /\ Laid(c, start, p, places)
    BY DEF Spilt, Spilling
  <1>2. Kinds(c, start, i, p, places)
    BY <1>1, KindsOf
  <1>3. a \in Nat
    BY <1>2 DEF Kinds
  <1>4. /\ loaded(i, p, 1) = {}
        /\ \A k \in 1..a : loaded(i, p, k) \in SUBSET (DOMAIN il[i].src)
        /\ loaded(i, p, a + 1) \in SUBSET (DOMAIN il[i].src)
    BY <1>1, LoadedBefore
  <1>5. Loaded(R, p, places, i, {}) = Base(R, p, places, i)
    BY <1>1, LoadedSet
  <1>6. /\ 1 <= a + 1 /\ a + 1 <= a + 1 /\ ~ (a + 2 <= a + 1)
        /\ \A k \in 1..a : k <= a + 1 /\ k + 1 <= a + 1
    BY <1>3
  <1> HIDE DEF a
  <1>7. a = loadsOf(i, p)
    BY DEF a
  <1>8. ASSUME NEW k \in 1..sizeOf(i, p)
        PROVE  before(R, p, places, i, k) \in SUBSET (Place(round + 1, sizeAfter(p)) \X Named)
    <2>1. k \in 1..a \/ k = a + 1 \/ (~ (k <= a + 1) /\ k = a + 2)
      BY <1>2, <1>6, <1>7 DEF Kinds
    <2>2. CASE k \in 1..a \/ k = a + 1
      <3>1. before(R, p, places, i, k) = Loaded(R, p, places, i, loaded(i, p, k))
        BY <1>6, <1>7, <2>2 DEF before
      <3>2. loaded(i, p, k) \in SUBSET (DOMAIN il[i].src)
        BY <1>4, <2>2
      <3> QED
        BY <1>1, <3>1, <3>2, LoadedSet
    <2>3. CASE ~ (k <= a + 1)
      <3>1. before(R, p, places, i, k) = IF i + 1 \in DOMAIN il THEN Stored(R, p, places, i) ELSE {}
        BY <1>7, <2>3 DEF before
      <3>2. CASE i + 1 \in DOMAIN il
        <4>1. Stored(R, p, places, i) \subseteq Place(round + 1, sizeAfter(p)) \X Named
          BY <1>1, <3>2, StoredSet
        <4> QED
          BY <3>1, <3>2, <4>1
      <3> QED
        BY <3>1, <3>2
    <2> QED
      BY <2>1, <2>2, <2>3
  <1>9. /\ before(R, p, places, i, 1) = Loaded(R, p, places, i, loaded(i, p, 1))
        /\ before(R, p, places, i, a + 1) = Loaded(R, p, places, i, loaded(i, p, a + 1))
        /\ before(R, p, places, i, a + 2) = IF i + 1 \in DOMAIN il THEN Stored(R, p, places, i) ELSE {}
    BY <1>6, <1>7 DEF before
  <1>10. ASSUME NEW k \in 1..a
         PROVE  /\ before(R, p, places, i, k) = Loaded(R, p, places, i, loaded(i, p, k))
                /\ before(R, p, places, i, k + 1) = Loaded(R, p, places, i, loaded(i, p, k + 1))
    BY <1>6, <1>7 DEF before
  <1> QED
    BY <1>2, <1>4, <1>5, <1>7, <1>8, <1>9, <1>10

LEMMA StepLoad ==
  ASSUME NEW p, NEW places, NEW R, NEW ahead, NEW c, NEW start, Spilt(p, places, R, ahead, c, start),
         NEW i \in DOMAIN il, NEW k \in 1..loadsOf(i, p), NEW m, NEW t, <<m, t>> \in before(R, p, places, i, k + 1)
  PROVE  Keeps(prog, c[start[i] + k], m, t, before(R, p, places, i, k))
  <1>1. Shape /\ Allowed(p) /\ places = placesOf(keysOf(p)) /\ Spilling(p, places, R, ahead) /\ Laid(c, start, p, places)
    BY DEF Spilt, Spilling
  <1>2. PICK h : h = spilledAt(il[i].src, p)[k]
    OBVIOUS
  <1>3. /\ h \in DOMAIN il[i].src /\ il[i].src[h] \in Spilled(p)
        /\ loaded(i, p, k) \in SUBSET (DOMAIN il[i].src)
        /\ loaded(i, p, k + 1) = loaded(i, p, k) \cup {h}
    <2>1. \A o \in 1..loadsOf(i, p) :
            LET g == spilledAt(il[i].src, p)[o]
            IN  /\ g \in DOMAIN il[i].src /\ il[i].src[g] \in Spilled(p)
                /\ loaded(i, p, o) \in SUBSET (DOMAIN il[i].src)
                /\ loaded(i, p, o + 1) = loaded(i, p, o) \cup {g}
      BY <1>1, LoadedBefore
    <2> QED
      BY <1>2, <2>1
  <1>4. PICK H \in SUBSET (DOMAIN il[i].src) : H = loaded(i, p, k)
    BY <1>3
  <1>5. /\ before(R, p, places, i, k) = Loaded(R, p, places, i, H)
        /\ before(R, p, places, i, k + 1) = Loaded(R, p, places, i, H \cup {h})
    BY <1>3, <1>4, SpiltKinds
  <1>6. PICK y : y = c[start[i] + k]
    OBVIOUS
  <1>7. y = load(newtemp(i, h), places[p[il[i].src[h]]])
    BY <1>1, <1>2, <1>6 DEF Laid, loadAt
  <1>8. Keeps(prog, y, m, t, Loaded(R, p, places, i, H))
    BY <1>1, <1>3, <1>5, <1>7, LoadKeeps
  <1> QED
    BY <1>5, <1>6, <1>8

LEMMA StepStore ==
  ASSUME NEW p, NEW places, NEW R, NEW ahead, NEW c, NEW start, Spilt(p, places, R, ahead, c, start),
         NEW i \in DOMAIN il, i + 1 \in DOMAIN il, storesOf(i, p) = 1,
         NEW m, NEW t, <<m, t>> \in before(R, p, places, i + 1, 1)
  PROVE  Keeps(prog, c[start[i] + (loadsOf(i, p) + 2)], m, t, before(R, p, places, i, loadsOf(i, p) + 2))
  <1>1. Spilling(p, places, R, ahead)
    BY DEF Spilt
  <1>2. before(R, p, places, i, loadsOf(i, p) + 2) = Stored(R, p, places, i)
    BY SpiltKinds
  <1>3. PICK h \in DOMAIN il : h = i + 1
    OBVIOUS
  <1>4. <<m, t>> \in Base(R, p, places, i + 1)
    BY <1>3, SpiltKinds
  <1>5. PICK y : y = c[start[i] + (loadsOf(i, p) + 2)]
    OBVIOUS
  <1>6. y = storeAt(i, p, places, 1) /\ 1 \in DOMAIN il[i].dst /\ il[i].dst[1] \in Spilled(p)
    BY <1>5, SpiltKinds DEF Kinds
  <1>7. y = store(newtemp(i, -1), places[p[il[i].dst[1]]])
    BY <1>6 DEF storeAt
  <1>8. Keeps(prog, y, m, t, Stored(R, p, places, i))
    BY <1>1, <1>4, <1>6, <1>7, StoreKeeps
  <1> QED
    BY <1>2, <1>5, <1>8

LEMMA StepStored ==
  ASSUME NEW p, NEW places, NEW R, NEW ahead, NEW c, NEW start, Spilt(p, places, R, ahead, c, start),
         NEW i \in DOMAIN il, storesOf(i, p) = 1,
         NEW m, NEW t, <<m, t>> \in before(R, p, places, i, loadsOf(i, p) + 2)
  PROVE  Keeps(prog, c[start[i] + (loadsOf(i, p) + 1)], m, t, before(R, p, places, i, loadsOf(i, p) + 1))
  <1>1. Shape /\ Allowed(p) /\ places = placesOf(keysOf(p)) /\ Spilling(p, places, R, ahead)
    BY DEF Spilt, Spilling
  <1>2. i + 1 \in DOMAIN il /\ <<m, t>> \in Stored(R, p, places, i)
    BY SpiltKinds
  <1>3. /\ 1 \in DOMAIN il[i].dst /\ il[i].dst[1] \in Spilled(p) /\ ~ withinGroup(il[i], p) /\ il[i].jumps = {}
        /\ c[start[i] + (loadsOf(i, p) + 1)] = center(i, p)
    BY SpiltKinds DEF Kinds
  <1>4. PICK n : <<n, t>> \in Base(R, p, places, i + 1) /\ m = unstored(p, places, i, n)
    <2>1. PICK S, B : S = Stored(R, p, places, i) /\ B = Base(R, p, places, i + 1)
      OBVIOUS
    <2>2. \A o, u : <<o, u>> \in S => \E n : <<n, u>> \in B /\ o = unstored(p, places, i, n)
      BY <1>1, <1>2, <2>1, StoredSet
    <2>3. <<m, t>> \in S
      BY <1>2, <2>1
    <2>4. \E n : <<n, t>> \in B /\ m = unstored(p, places, i, n)
      BY <2>2, <2>3
    <2> QED
      BY <2>1, <2>4
  <1>5. m = pending(p, places, i, n)
    BY <1>3, <1>4 DEF pending, unstored
  <1>6. PICK j \in succ(i) : j = i + 1
    BY <1>2, <1>3 DEF succ
  <1>7. PICK H \in SUBSET (DOMAIN il[i].src) : H = loaded(i, p, loadsOf(i, p) + 1)
    BY <1>1, LoadedBefore
  <1>8. \A k \in DOMAIN il[i].src : il[i].src[k] \in Spilled(p) => k \in H
    BY <1>1, <1>3, <1>7, LoadedBefore
  <1>9. <<n, t>> \in Base(R, p, places, j)
    BY <1>4, <1>6
  <1>10. Keeps(prog, main(i, p), pending(p, places, i, n), t, Loaded(R, p, places, i, H))
    BY <1>1, <1>8, <1>9, MainKeeps
  <1>11. c[start[i] + (loadsOf(i, p) + 1)] = main(i, p)
    BY <1>3 DEF center
  <1>12. before(R, p, places, i, loadsOf(i, p) + 1) = Loaded(R, p, places, i, H)
    BY <1>7, SpiltKinds
  <1> QED
    BY <1>5, <1>10, <1>11, <1>12

LEMMA StepCenter ==
  ASSUME NEW p, NEW places, NEW R, NEW ahead, NEW c, NEW start, Spilt(p, places, R, ahead, c, start),
         NEW i \in DOMAIN il, storesOf(i, p) = 0, NEW j \in succ(i),
         NEW m, NEW t, <<m, t>> \in before(R, p, places, j, 1)
  PROVE  Keeps(prog, c[start[i] + (loadsOf(i, p) + 1)], m, t, before(R, p, places, i, loadsOf(i, p) + 1))
  <1>1. Shape /\ Allowed(p) /\ places = placesOf(keysOf(p)) /\ Spilling(p, places, R, ahead)
    BY DEF Spilt, Spilling
  <1>2. j \in DOMAIN il
    BY DEF succ
  <1>3. <<m, t>> \in Base(R, p, places, j)
    BY <1>2, SpiltKinds
  <1>4. c[start[i] + (loadsOf(i, p) + 1)] = center(i, p)
    BY SpiltKinds DEF Kinds
  <1>5. CASE withinGroup(il[i], p)
    <2>1. center(i, p) = Gone(il[i]) /\ loadsOf(i, p) = 0
      BY <1>5 DEF center, loadsOf
    <2>2. before(R, p, places, i, loadsOf(i, p) + 1) = Base(R, p, places, i)
      BY <2>1, SpiltKinds
    <2>3. Keeps(prog, Gone(il[i]), m, t, Base(R, p, places, i))
      BY <1>1, <1>3, <1>5, BaseKeeps
    <2> QED
      BY <1>4, <2>1, <2>2, <2>3
  <1>6. CASE ~ withinGroup(il[i], p)
    <2>1. ~ (1 \in DOMAIN il[i].dst /\ il[i].dst[1] \in Spilled(p))
      BY <1>6, SpiltKinds DEF Kinds
    <2>2. m = pending(p, places, i, m)
      BY <2>1 DEF pending
    <2>3. PICK H \in SUBSET (DOMAIN il[i].src) : H = loaded(i, p, loadsOf(i, p) + 1)
      BY <1>1, LoadedBefore
    <2>4. \A k \in DOMAIN il[i].src : il[i].src[k] \in Spilled(p) => k \in H
      BY <1>1, <1>6, <2>3, LoadedBefore
    <2>5. Keeps(prog, main(i, p), pending(p, places, i, m), t, Loaded(R, p, places, i, H))
      BY <1>1, <1>3, <2>4, MainKeeps
    <2>6. c[start[i] + (loadsOf(i, p) + 1)] = main(i, p)
      BY <1>4, <1>6 DEF center
    <2>7. before(R, p, places, i, loadsOf(i, p) + 1) = Loaded(R, p, places, i, H)
      BY <2>3, SpiltKinds
    <2> QED
      BY <2>2, <2>5, <2>6, <2>7
  <1> QED
    BY <1>5, <1>6

(* The instruction of the function as it was that is the next before the   *)
(* k-th instruction that the one at i becomes.                             *)
aheadAt(ahead, i, k, p) == IF k <= loadsOf(i, p) + 1 THEN ahead[i] ELSE ahead[i + 1]

(* What R2 and ahead2 say of the list c is what before and aheadAt say.    *)
SpreadOver(R2, ahead2, p, places, R, ahead, c, start) ==
  /\ R2 \in [1..Len(c) -> SUBSET (Place(round + 1, sizeAfter(p)) \X Named)]
  /\ ahead2 \in [1..(Len(c) + 1) -> Nat]
  /\ \A i \in DOMAIN il : \A k \in 1..sizeOf(i, p) :
       R2[start[i] + k] = before(R, p, places, i, k) /\ ahead2[start[i] + k] = aheadAt(ahead, i, k, p)
  /\ \A i \in DOMAIN il : ahead2[start[i + 1] + 1] = ahead[i + 1]
  /\ \A i \in DOMAIN il : start[i + 1] + 1 \in 1..Len(c) =>
       i + 1 \in DOMAIN il /\ R2[start[i + 1] + 1] = before(R, p, places, i + 1, 1)

LEMMA Spreads ==
  ASSUME NEW p, NEW places, NEW R, NEW ahead, NEW c, NEW start, Spilt(p, places, R, ahead, c, start)
  PROVE  \E R2, ahead2 : SpreadOver(R2, ahead2, p, places, R, ahead, c, start)
  <1> DEFINE V == SUBSET (Place(round + 1, sizeAfter(p)) \X Named)
             n == Len(il)
             F == [z \in positions(p) |-> before(R, p, places, z[1], z[2])]
             G == [z \in positions(p) |-> aheadAt(ahead, z[1], z[2], p)]
  <1>1. Shape /\ Allowed(p) /\ places = placesOf(keysOf(p)) /\ Spilling(p, places, R, ahead) /\ Laid(c, start, p, places)
    BY DEF Spilt, Spilling
  <1>2. n \in Nat /\ DOMAIN il = 1..n
    BY <1>1, Items
  <1>3. ahead \in [1..(n + 1) -> Nat]
    BY <1>1 DEF Spilling, Certified
  <1>4. ASSUME NEW z \in positions(p)
        PROVE  z[1] \in DOMAIN il /\ z[2] \in 1..sizeOf(z[1], p)
    <2>1. z \in (DOMAIN il) \X Nat /\ z[2] \in 1..sizeOf(z[1], p)
      BY <1>4 DEF positions
    <2>2. PICK D : D = DOMAIN il
      OBVIOUS
    <2>3. z \in D \X Nat
      BY <2>1, <2>2
    <2>4. z[1] \in D
      BY <2>3, Pairs
    <2> QED
      BY <2>1, <2>2, <2>4
  <1>5. ASSUME NEW i \in DOMAIN il, NEW k \in 1..sizeOf(i, p)
        PROVE  <<i, k>> \in positions(p) /\ <<i, k>>[1] = i /\ <<i, k>>[2] = k
    <2>1. loadsOf(i, p) \in Nat /\ storesOf(i, p) \in {0, 1} /\ sizeOf(i, p) = loadsOf(i, p) + 1 + storesOf(i, p)
      BY SpiltKinds DEF Kinds
    <2>2. k \in Nat
      BY <2>1
    <2>3. PICK z : z = <<i, k>>
      OBVIOUS
    <2>4. z \in (DOMAIN il) \X Nat /\ z[1] = i /\ z[2] = k
      <3>1. PICK D : D = DOMAIN il
        OBVIOUS
      <3>2. z \in D \X Nat /\ z[1] = i /\ z[2] = k
        BY <2>2, <2>3, <3>1, Pairs
      <3> QED
        BY <3>1, <3>2
    <2> QED
      BY <2>3, <2>4 DEF positions
  <1>6. F \in [positions(p) -> V]
    <2> SUFFICES ASSUME NEW z \in positions(p) PROVE before(R, p, places, z[1], z[2]) \in V
      OBVIOUS
    <2>1. z[1] \in DOMAIN il /\ z[2] \in 1..sizeOf(z[1], p)
      BY <1>4
    <2>2. PICK i \in DOMAIN il : i = z[1]
      BY <2>1
    <2>3. PICK k \in 1..sizeOf(i, p) : k = z[2]
      BY <2>1, <2>2
    <2>4. before(R, p, places, i, k) \in V
      BY SpiltKinds
    <2> QED
      BY <2>2, <2>3, <2>4
  <1>7. G \in [positions(p) -> Nat]
    <2> SUFFICES ASSUME NEW z \in positions(p) PROVE aheadAt(ahead, z[1], z[2], p) \in Nat
      OBVIOUS
    <2>1. z[1] \in 1..n
      BY <1>2, <1>4
    <2>2. z[1] \in 1..(n + 1) /\ z[1] + 1 \in 1..(n + 1)
      BY <1>2, <2>1
    <2> QED
      BY <1>3, <2>2 DEF aheadAt
  <1>8. \A i \in DOMAIN il : \A k \in 1..sizeOf(i, p) :
          F[<<i, k>>] = before(R, p, places, i, k) /\ G[<<i, k>>] = aheadAt(ahead, i, k, p)
    BY <1>5
  <1> HIDE DEF F, G, V, n
  <1>9. \E R2 \in [1..Len(c) -> V] : \A i \in DOMAIN il : \A k \in 1..sizeOf(i, p) : R2[start[i] + k] = F[<<i, k>>]
    BY <1>1, <1>6, Spread
  <1>10. \E A \in [1..Len(c) -> Nat] : \A i \in DOMAIN il : \A k \in 1..sizeOf(i, p) : A[start[i] + k] = G[<<i, k>>]
    <2>1. PICK W : W = Nat
      OBVIOUS
    <2>2. G \in [positions(p) -> W]
      BY <1>7, <2>1
    <2>3. \E A \in [1..Len(c) -> W] : \A i \in DOMAIN il : \A k \in 1..sizeOf(i, p) : A[start[i] + k] = G[<<i, k>>]
      BY <1>1, <2>2, Spread
    <2> QED
      BY <2>1, <2>3
  <1>11. PICK R2 \in [1..Len(c) -> V] :
           \A i \in DOMAIN il : \A k \in 1..sizeOf(i, p) : R2[start[i] + k] = before(R, p, places, i, k)
    BY <1>8, <1>9
  <1>12. PICK A \in [1..Len(c) -> Nat] :
           \A i \in DOMAIN il : \A k \in 1..sizeOf(i, p) : A[start[i] + k] = aheadAt(ahead, i, k, p)
    BY <1>8, <1>10
  <1> DEFINE ahead2 == [j \in 1..(Len(c) + 1) |-> IF j \in 1..Len(c) THEN A[j] ELSE ahead[n + 1]]
  <1>13. Len(c) \in Nat
    BY <1>1, LenProperties DEF Laid
  <1>14. ahead2 \in [1..(Len(c) + 1) -> Nat]
    <2>1. ahead[n + 1] \in Nat
      BY <1>2, <1>3
    <2> QED
      BY <1>12, <2>1
  <1>15. \A i \in DOMAIN il : \A k \in 1..sizeOf(i, p) : start[i] + k \in 1..Len(c)
    BY <1>1 DEF Laid
  <1>16. \A i \in DOMAIN il : \A k \in 1..sizeOf(i, p) : ahead2[start[i] + k] = aheadAt(ahead, i, k, p)
    <2>1. \A j \in 1..Len(c) : ahead2[j] = A[j]
      BY <1>13
    <2> HIDE DEF ahead2
    <2> QED
      BY <1>12, <1>15, <2>1
  <1>17. start[n + 1] = Len(c)
    BY <1>1 DEF Laid, n
  <1>18. ASSUME NEW i \in DOMAIN il
         PROVE  /\ ahead2[start[i + 1] + 1] = ahead[i + 1]
                /\ start[i + 1] + 1 \in 1..Len(c) => i + 1 \in DOMAIN il /\ R2[start[i + 1] + 1] = before(R, p, places, i + 1, 1)
    <2>1. CASE i + 1 \in DOMAIN il
      <3>1. PICK h \in DOMAIN il : h = i + 1
        BY <2>1
      <3>2. 1 \in 1..sizeOf(h, p) /\ 1 <= loadsOf(h, p) + 1
        <4>1. loadsOf(h, p) \in Nat /\ storesOf(h, p) \in {0, 1} /\ sizeOf(h, p) = loadsOf(h, p) + 1 + storesOf(h, p)
          BY SpiltKinds DEF Kinds
        <4> QED
          BY <4>1
      <3>3. ahead2[start[h] + 1] = ahead[h] /\ R2[start[h] + 1] = before(R, p, places, h, 1)
        <4> HIDE DEF ahead2
        <4> QED
          BY <1>11, <1>16, <3>2 DEF aheadAt
      <3> HIDE DEF ahead2
      <3> QED
        BY <2>1, <3>1, <3>3
    <2>2. CASE i + 1 \notin DOMAIN il
      <3>1. i + 1 = n + 1
        BY <1>2, <2>2
      <3>2. start[i + 1] + 1 = Len(c) + 1
        BY <1>17, <3>1
      <3>3. start[i + 1] + 1 \notin 1..Len(c) /\ start[i + 1] + 1 \in 1..(Len(c) + 1)
        BY <1>13, <3>2
      <3> QED
        BY <3>1, <3>3
    <2> QED
      BY <2>1, <2>2
  <1> HIDE DEF ahead2
  <1>19. SpreadOver(R2, ahead2, p, places, R, ahead, c, start)
    BY <1>11, <1>14, <1>16, <1>18 DEF SpreadOver, V
  <1> QED
    BY <1>19

LEMMA SpiltAhead ==
  ASSUME NEW p, NEW places, NEW R, NEW ahead, NEW c, NEW start, Spilt(p, places, R, ahead, c, start),
         NEW R2, NEW ahead2, SpreadOver(R2, ahead2, p, places, R, ahead, c, start), NEW j \in 1..Len(c)
  PROVE  IF c[j].of = 0 THEN ahead2[j + 1] = ahead2[j]
         ELSE c[j].of = ahead2[j] /\ ahead2[j + 1] = ahead2[j] + 1
  <1>1. PICK i \in DOMAIN il : \E k \in 1..sizeOf(i, p) : j = start[i] + k
    BY DEF Spilt, Laid
  <1>2. PICK k \in 1..sizeOf(i, p) : j = start[i] + k
    BY <1>1
  <1>3. PICK a, b, s : a = loadsOf(i, p) /\ b = storesOf(i, p) /\ s = start[i]
    OBVIOUS
  <1>4. /\ a \in Nat /\ b \in {0, 1} /\ s \in Nat
        /\ sizeOf(i, p) = a + 1 + b
        /\ start[i + 1] = s + sizeOf(i, p)
        /\ k \in 1..a \/ k = a + 1 \/ (b = 1 /\ k = a + 2)
        /\ \A m \in 1..a : m + 1 \in 1..sizeOf(i, p) /\ c[s + m].of = 0
        /\ c[s + (a + 1)].of = il[i].of
        /\ b = 1 => a + 2 \in 1..sizeOf(i, p) /\ c[s + (a + 2)].of = 0
    BY <1>3, SpiltKinds DEF Kinds
  <1>20. j = s + k /\ k \in Int
    BY <1>2, <1>3, <1>4
  <1>5. /\ \A m \in 1..sizeOf(i, p) : ahead2[s + m] = IF m <= a + 1 THEN ahead[i] ELSE ahead[i + 1]
        /\ ahead2[start[i + 1] + 1] = ahead[i + 1]
    BY <1>3 DEF SpreadOver, aheadAt
  <1>6. IF il[i].of = 0 THEN ahead[i + 1] = ahead[i] ELSE il[i].of = ahead[i] /\ ahead[i + 1] = ahead[i] + 1
    BY DEF Spilt, Spilling, Certified
  <1>7. CASE k \in 1..a
    <2>1. j + 1 = s + (k + 1) /\ k + 1 <= a + 1 /\ k <= a + 1
      BY <1>4, <1>7, <1>20
    <2>2. ahead2[j] = ahead[i]
      BY <1>2, <1>3, <1>5, <2>1
    <2>3. ahead2[j + 1] = ahead[i]
      BY <1>4, <1>5, <1>7, <2>1
    <2>4. c[j].of = 0
      BY <1>2, <1>3, <1>4, <1>7
    <2> QED
      BY <2>2, <2>3, <2>4
  <1>8. CASE k = a + 1
    <2>1. ahead2[j] = ahead[i]
      BY <1>2, <1>3, <1>4, <1>5, <1>8
    <2>2. ahead2[j + 1] = ahead[i + 1]
      <3>1. CASE b = 1
        <4>1. j + 1 = s + (a + 2) /\ a + 2 \in 1..sizeOf(i, p) /\ ~ (a + 2 <= a + 1)
          BY <1>4, <1>8, <1>20, <3>1
        <4> QED
          BY <1>5, <4>1
      <3>2. CASE b = 0
        <4>1. j + 1 = start[i + 1] + 1
          BY <1>2, <1>3, <1>4, <1>8, <3>2
        <4> QED
          BY <1>5, <4>1
      <3> QED
        BY <1>4, <3>1, <3>2
    <2>3. c[j].of = il[i].of
      BY <1>2, <1>3, <1>4, <1>8
    <2> QED
      BY <1>6, <2>1, <2>2, <2>3
  <1>9. CASE b = 1 /\ k = a + 2
    <2>1. j + 1 = start[i + 1] + 1 /\ ~ (k <= a + 1)
      BY <1>2, <1>3, <1>4, <1>9
    <2>2. ahead2[j] = ahead[i + 1]
      BY <1>2, <1>3, <1>5, <2>1
    <2>3. ahead2[j + 1] = ahead[i + 1]
      BY <1>5, <2>1
    <2>4. c[j].of = 0
      BY <1>2, <1>3, <1>4, <1>9
    <2> QED
      BY <2>2, <2>3, <2>4
  <1> QED
    BY <1>4, <1>7, <1>8, <1>9

LEMMA SpiltKeeps ==
  ASSUME NEW p, NEW places, NEW R, NEW ahead, NEW c, NEW start, Spilt(p, places, R, ahead, c, start),
         NEW R2, NEW ahead2, SpreadOver(R2, ahead2, p, places, R, ahead, c, start),
         NEW j \in 1..Len(c), NEW j2 \in follows(c, j), j2 \in 1..Len(c), NEW m, NEW t, <<m, t>> \in R2[j2]
  PROVE  Keeps(prog, c[j], m, t, R2[j])
  <1>1. PICK i \in DOMAIN il : \E k \in 1..sizeOf(i, p) : j = start[i] + k
    BY DEF Spilt, Laid
  <1>2. PICK k \in 1..sizeOf(i, p) : j = start[i] + k
    BY <1>1
  <1>3. PICK a, b, s : a = loadsOf(i, p) /\ b = storesOf(i, p) /\ s = start[i]
    OBVIOUS
  <1>21. Kinds(c, start, i, p, places)
    BY SpiltKinds
  <1>22. /\ a \in Nat /\ b \in {0, 1} /\ s \in Nat
         /\ sizeOf(i, p) = a + 1 + b
         /\ start[i + 1] = s + sizeOf(i, p)
         /\ k \in 1..a \/ k = a + 1 \/ (b = 1 /\ k = a + 2)
    BY <1>3, <1>21 DEF Kinds
  <1>23. /\ \A o \in 1..a : o + 1 \in 1..sizeOf(i, p) /\ c[s + o].jumps = {}
         /\ c[s + (a + 1)].jumps = il[i].jumps
    BY <1>3, <1>21 DEF Kinds
  <1>24. b = 1 => a + 2 \in 1..sizeOf(i, p) /\ c[s + (a + 2)].jumps = {} /\ il[i].jumps = {}
    BY <1>3, <1>21 DEF Kinds
  <1>4. /\ a \in Nat /\ b \in {0, 1} /\ s \in Nat
        /\ sizeOf(i, p) = a + 1 + b
        /\ start[i + 1] = s + sizeOf(i, p)
        /\ k \in 1..a \/ k = a + 1 \/ (b = 1 /\ k = a + 2)
        /\ \A o \in 1..a : o + 1 \in 1..sizeOf(i, p) /\ c[s + o].jumps = {}
        /\ c[s + (a + 1)].jumps = il[i].jumps
        /\ b = 1 => a + 2 \in 1..sizeOf(i, p) /\ c[s + (a + 2)].jumps = {} /\ il[i].jumps = {}
    BY <1>22, <1>23, <1>24
  <1>20. j = s + k /\ k \in Int
    BY <1>2, <1>3, <1>4
  <1>5. /\ \A o \in 1..sizeOf(i, p) : R2[s + o] = before(R, p, places, i, o)
        /\ start[i + 1] + 1 \in 1..Len(c) =>
             i + 1 \in DOMAIN il /\ R2[start[i + 1] + 1] = before(R, p, places, i + 1, 1)
    BY <1>3 DEF SpreadOver
  <1>6. c[j].jumps = {} => j2 = j + 1
    BY DEF follows
  <1>7. R2[j] = before(R, p, places, i, k)
    BY <1>2, <1>3, <1>5
  <1>8. CASE k \in 1..a
    <2>3. j + 1 = s + (k + 1)
      BY <1>22, <1>20
    <2>4. k + 1 \in 1..sizeOf(i, p) /\ c[s + k].jumps = {}
      BY <1>8, <1>23
    <2>1. j + 1 = s + (k + 1) /\ k + 1 \in 1..sizeOf(i, p) /\ c[j].jumps = {}
      BY <1>20, <2>3, <2>4
    <2>2. R2[j2] = before(R, p, places, i, k + 1)
      BY <1>5, <1>6, <2>1
    <2> QED
      BY <1>2, <1>3, <1>7, <1>8, <2>2, StepLoad
  <1>9. CASE k = a + 1 /\ b = 1
    <2>1. j + 1 = s + (a + 2) /\ a + 2 \in 1..sizeOf(i, p) /\ c[j].jumps = {}
      BY <1>4, <1>9, <1>20
    <2>2. R2[j2] = before(R, p, places, i, a + 2)
      BY <1>5, <1>6, <2>1
    <2> QED
      BY <1>2, <1>3, <1>7, <1>9, <2>2, StepStored
  <1>10. CASE k = a + 1 /\ b = 0
    <2>1. c[j].jumps = il[i].jumps /\ j + 1 = start[i + 1] + 1
      BY <1>2, <1>3, <1>4, <1>10
    <2>2. \E h \in succ(i) : R2[j2] = before(R, p, places, h, 1)
      <3>1. CASE il[i].jumps = {}
        <4>1. j2 = start[i + 1] + 1
          BY <1>6, <2>1, <3>1
        <4>2. i + 1 \in DOMAIN il /\ R2[j2] = before(R, p, places, i + 1, 1)
          BY <1>5, <4>1
        <4>3. i + 1 \in succ(i)
          BY <3>1, <4>2 DEF succ
        <4> QED
          BY <4>2, <4>3
      <3>2. CASE il[i].jumps # {}
        <4>1. c[j2].label \in il[i].jumps
          BY <2>1, <3>2 DEF follows
        <4>2. c[j2].label # NoLabel
          <5>1. Shape
            BY DEF Spilt, Spilling
          <5>2. il[i].jumps \subseteq Label /\ NoLabel \notin Label
            BY <5>1, Items, ProgramsAssumption DEF Entry
          <5> QED
            BY <4>1, <5>2
        <4>3. PICK h \in DOMAIN il : \E g \in 1..sizeOf(h, p) : j2 = start[h] + g
          BY DEF Spilt, Laid
        <4>4. PICK g \in 1..sizeOf(h, p) : j2 = start[h] + g
          BY <4>3
        <4>5. Kinds(c, start, h, p, places)
          BY SpiltKinds
        <4>6. g = loadsOf(h, p) + 1
          BY <4>2, <4>4, <4>5 DEF Kinds
        <4>7. c[j2].label = il[h].label
          BY <4>4, <4>5, <4>6 DEF Kinds
        <4>8. g = 1
          BY <4>2, <4>5, <4>6, <4>7 DEF Kinds
        <4>9. h \in succ(i)
          BY <3>2, <4>1, <4>7 DEF succ
        <4>10. R2[j2] = before(R, p, places, h, 1)
          BY <4>4, <4>8 DEF SpreadOver
        <4> QED
          BY <4>9, <4>10
      <3> QED
        BY <3>1, <3>2
    <2>3. PICK h \in succ(i) : R2[j2] = before(R, p, places, h, 1)
      BY <2>2
    <2> QED
      BY <1>2, <1>3, <1>7, <1>10, <2>3, StepCenter
  <1>11. CASE b = 1 /\ k = a + 2
    <2>1. j + 1 = start[i + 1] + 1 /\ c[j].jumps = {}
      BY <1>2, <1>3, <1>4, <1>11
    <2>2. i + 1 \in DOMAIN il /\ R2[j2] = before(R, p, places, i + 1, 1)
      BY <1>5, <1>6, <2>1
    <2> QED
      BY <1>2, <1>3, <1>7, <1>11, <2>2, StepStore
  <1> QED
    BY <1>4, <1>8, <1>9, <1>10, <1>11

(* A round that spills leads from one certificate to another.              *)
LEMMA SpillCertified ==
  ASSUME NEW p, NEW places, NEW R, NEW ahead, Spilling(p, places, R, ahead), Len(il) # 0,
         NEW c, c = FlattenSeq([i \in DOMAIN il |-> rewrite(i, p, places)])
  PROVE  \E R2, ahead2 : Holding(c, R2, round + 1, sizeAfter(p)) /\ Certified(prog, c, R2, ahead2)
  <1>1. Shape /\ Allowed(p) /\ places = placesOf(keysOf(p))
    BY DEF Spilling
  <1>2. PICK start : Laid(c, start, p, places)
    BY <1>1, Layout
  <1>3. Spilt(p, places, R, ahead, c, start)
    BY <1>2 DEF Spilt
  <1>4. PICK R2, ahead2 : SpreadOver(R2, ahead2, p, places, R, ahead, c, start)
    BY <1>3, Spreads
  <1>5. c \in Seq(Entry(round + 1)) /\ DOMAIN c = 1..Len(c) /\ Len(c) \in Nat
    BY <1>2 DEF Laid
  <1>6. Holding(c, R2, round + 1, sizeAfter(p)) /\ ahead2 \in [1..(Len(c) + 1) -> Nat]
    BY <1>4, <1>5 DEF SpreadOver, Holding
  <1>7. 1 \in DOMAIN il /\ start[1] = 0
    BY <1>1, <1>2, Items DEF Laid
  <1>8. PICK i \in DOMAIN il : i = 1
    BY <1>7
  <1>9. /\ loadsOf(i, p) \in Nat /\ sizeOf(i, p) \in Nat /\ 1 \in 1..sizeOf(i, p) /\ 1 <= loadsOf(i, p) + 1
        /\ before(R, p, places, i, 1) = Base(R, p, places, i)
    <2>1. loadsOf(i, p) \in Nat /\ storesOf(i, p) \in {0, 1} /\ sizeOf(i, p) = loadsOf(i, p) + 1 + storesOf(i, p)
      BY <1>3, SpiltKinds DEF Kinds
    <2> QED
      BY <1>3, <2>1, SpiltKinds
  <1>10. ahead2[1] = ahead[1] /\ R2[1] = Base(R, p, places, i)
    <2>1. start[i] + 1 = 1
      BY <1>7, <1>8
    <2>2. ahead2[start[i] + 1] = aheadAt(ahead, i, 1, p) /\ R2[start[i] + 1] = before(R, p, places, i, 1)
      BY <1>4, <1>9 DEF SpreadOver
    <2> QED
      BY <1>8, <1>9, <2>1, <2>2 DEF aheadAt
  <1>11. ahead[1] = 1 /\ \A l, t : <<l, t>> \in R[1] /\ t \in Reg => l = temp(t)
    BY <1>7 DEF Spilling, Certified
  <1>12. ASSUME NEW l, NEW t, <<l, t>> \in R2[1], t \in Reg
         PROVE  l = temp(t)
    <2>1. PICK m \in alive(i) : <<m, t>> \in R[i] /\ l = stackHomes(p, places)[m]
      BY <1>10, <1>12, BaseSet
    <2>2. m = temp(t)
      BY <1>8, <1>11, <1>12, <2>1
    <2>3. t \in Temporary(round) /\ t \notin Spilled(p)
      BY <1>1, <1>12, Keys, TempsAssumption DEF Temporary, Named
    <2>4. stackHomes(p, places)[temp(t)] = placeOf(p, places, t)
      BY <1>1, <2>3, StackHomes
    <2> QED
      BY <2>1, <2>2, <2>3, <2>4 DEF placeOf
  <1>13. ASSUME NEW j \in DOMAIN c
         PROVE  IF c[j].of = 0 THEN ahead2[j + 1] = ahead2[j]
                ELSE c[j].of = ahead2[j] /\ ahead2[j + 1] = ahead2[j] + 1
    BY <1>3, <1>4, <1>5, SpiltAhead
  <1>14. ASSUME NEW j \in DOMAIN c, NEW j2 \in follows(c, j), NEW m, NEW t, <<m, t>> \in R2[j2]
         PROVE  Keeps(prog, c[j], m, t, R2[j])
    <2>1. j2 \in 1..Len(c) /\ j \in 1..Len(c)
      BY <1>5 DEF follows
    <2> QED
      BY <1>3, <1>4, <1>14, <2>1, SpiltKeeps
  <1>15. ASSUME NEW j \in DOMAIN c, c[j].of # 0, c[j].op = "oper", NEW k \in DOMAIN c[j].src
         PROVE  <<temp(c[j].src[k]), prog[c[j].of].src[k]>> \in R2[j]
    <2>1. PICK h \in DOMAIN il : \E g \in 1..sizeOf(h, p) : j = start[h] + g
      BY <1>2, <1>5 DEF Laid
    <2>2. PICK g \in 1..sizeOf(h, p) : j = start[h] + g
      BY <2>1
    <2>3. Kinds(c, start, h, p, places)
      BY <1>3, SpiltKinds
    <2>4. g = loadsOf(h, p) + 1
      BY <1>15, <2>2, <2>3 DEF Kinds
    <2>5. c[j] = center(h, p) /\ il[h].of # 0 /\ il[h].op = "oper"
      BY <1>15, <2>2, <2>3, <2>4 DEF Kinds
    <2>6. ~ withinGroup(il[h], p)
      BY <2>5 DEF withinGroup
    <2>7. c[j] = main(h, p)
      BY <2>5, <2>6 DEF center
    <2>8. PICK H \in SUBSET (DOMAIN il[h].src) : H = loaded(h, p, loadsOf(h, p) + 1)
      BY <1>1, LoadedBefore
    <2>9. \A o \in DOMAIN il[h].src : il[h].src[o] \in Spilled(p) => o \in H
      BY <1>1, <2>6, <2>8, LoadedBefore
    <2>10. k \in DOMAIN main(h, p).src
      BY <1>15, <2>7
    <2>11. <<temp(main(h, p).src[k]), prog[main(h, p).of].src[k]>> \in Loaded(R, p, places, h, H)
      BY <2>5, <2>9, <2>10, OperandsLoaded
    <2>12. R2[j] = Loaded(R, p, places, h, H)
      <3>1. R2[j] = before(R, p, places, h, g)
        BY <1>4, <2>2 DEF SpreadOver
      <3> QED
        BY <1>3, <2>4, <2>8, <3>1, SpiltKinds
    <2> QED
      BY <2>7, <2>11, <2>12
  <1>16. Certified(prog, c, R2, ahead2)
    BY <1>6, <1>10, <1>11, <1>12, <1>13, <1>14, <1>15 DEF Certified
  <1> QED
    BY <1>6, <1>16

-----------------------------------------------------------------------------
(* The shape is kept. *)

LEMMA OutsFit ==
  ASSUME Shape, NEW p, Allowed(p), Spilled(p) = {}, NEW i \in DOMAIN il, NEW y, y = out(il[i], p)
  PROVE  /\ Fits(prog, y, stk_size)
         /\ \A v \in Temps(y.dst) \cup Temps(y.src) : v \in Reg \/ (v \in Occurring /\ isFloat(v) # isf)
  <1> DEFINE x == il[i]
  <1>1. Turned(x, y, p)
    BY Outs
  <1>2. /\ x.dst \in Seq(Temporary(round)) /\ x.src \in Seq(Temporary(round)) /\ Fits(prog, x, stk_size)
        /\ Temps(x.dst) \subseteq Occurring /\ Temps(x.src) \subseteq Occurring
    BY Items
  <1> HIDE DEF x
  <1>3. ASSUME NEW s \in Seq(Temporary(round))
        PROVE  /\ Len(placed(s, p)) = Len(s) /\ (s = << >> => placed(s, p) = << >>)
               /\ Temps(s) \subseteq Reg => placed(s, p) = s
               /\ Temps(s) \subseteq Occurring =>
                    \A v \in Temps(placed(s, p)) : v \in Reg \/ (v \in Occurring /\ isFloat(v) # isf)
    <2>1. /\ placed(s, p) \in Seq(Temporary(round)) /\ Len(placed(s, p)) = Len(s) /\ DOMAIN placed(s, p) = DOMAIN s
          /\ \A k \in DOMAIN s : placed(s, p)[k] = homeOf(p, s[k])
      BY Placed
    <2>2. s = << >> => placed(s, p) = << >>
      BY <2>1
    <2>3. ASSUME Temps(s) \subseteq Reg PROVE placed(s, p) = s
      <3>1. \A k \in DOMAIN s : placed(s, p)[k] = s[k]
        BY <2>1, <2>3, Homes DEF Temps
      <3> QED
        BY <2>1, <3>1
    <2>4. ASSUME Temps(s) \subseteq Occurring, NEW v \in Temps(placed(s, p))
          PROVE  v \in Reg \/ (v \in Occurring /\ isFloat(v) # isf)
      <3>1. PICK u \in Temps(s) : v = homeOf(p, u)
        BY <2>1, <2>4 DEF Temps
      <3>2. CASE u \in Bank
        BY <3>1, <3>2, Homes
      <3>3. CASE u \notin Bank
        <4>1. v = u /\ u \in Occurring
          BY <2>4, <3>1, <3>3 DEF homeOf
        <4>2. isFloat(u) # isf
          BY <3>3, <4>1 DEF Bank, Occurring
        <4> QED
          BY <4>1, <4>2
      <3> QED
        BY <3>2, <3>3
    <2> QED
      BY <2>1, <2>2, <2>3, <2>4
  <1>4. /\ Len(placed(x.dst, p)) = Len(x.dst) /\ Len(placed(x.src, p)) = Len(x.src)
        /\ x.dst = << >> => placed(x.dst, p) = << >>
        /\ x.src = << >> => placed(x.src, p) = << >>
    BY <1>2, <1>3
  <1>5. CASE x.of = 0
    <2>1. FitsInserted(x, stk_size)
      BY <1>2, <1>5 DEF Fits
    <2>2. y.dst = placed(x.dst, p) /\ y.src = placed(x.src, p) /\ y.gone = x.gone
      BY <1>1, <2>1 DEF Turned, FitsInserted
    <2>3. FitsInserted(y, stk_size)
      BY <1>1, <1>4, <2>1, <2>2 DEF Turned, FitsInserted
    <2> QED
      BY <1>1, <1>2, <1>3, <1>5, <2>2, <2>3 DEF Turned, Fits
  <1>6. CASE x.of # 0
    <2>1. x.of \in DOMAIN prog /\ FitsOriginal(x, prog[x.of])
      BY <1>2, <1>6 DEF Fits
    <2>2. PICK x0 : x0 = prog[x.of]
      OBVIOUS
    <2>3. WellFormed(x0) /\ FitsOriginal(x, x0)
      BY <2>1, <2>2, Functions
    <2>4. CASE y.gone = x.gone /\ y.dst = placed(x.dst, p) /\ y.src = placed(x.src, p)
      <3>1. Len(x0.dst) > 1 => y.dst = x0.dst
        <4> SUFFICES ASSUME Len(x0.dst) > 1 PROVE y.dst = x0.dst
          OBVIOUS
        <4>1. x.dst = x0.dst /\ Temps(x0.dst) \subseteq Reg
          BY <2>3 DEF FitsOriginal, WellFormed
        <4>2. placed(x.dst, p) = x.dst
          BY <1>2, <1>3, <4>1
        <4> QED
          BY <2>4, <4>1, <4>2
      <3>2. FitsOriginal(y, x0)
        BY <1>1, <1>4, <2>3, <2>4, <3>1 DEF Turned, FitsOriginal
      <3>3. Fits(prog, y, stk_size)
        BY <1>1, <1>6, <2>1, <2>2, <3>2 DEF Turned, Fits
      <3> QED
        BY <1>2, <1>3, <2>4, <3>3
    <2>5. CASE x.op = "move" /\ y.gone = TRUE /\ y.dst = << >> /\ y.src = << >>
      <3>1. Len(x0.dst) = 1
        BY <2>3, <2>5 DEF FitsOriginal, WellFormed
      <3>2. FitsOriginal(y, x0)
        BY <1>1, <2>3, <2>5, <3>1 DEF Turned, FitsOriginal
      <3>3. Fits(prog, y, stk_size)
        BY <1>1, <1>6, <2>1, <2>2, <3>2 DEF Turned, Fits
      <3>4. Temps(y.dst) = {} /\ Temps(y.src) = {}
        BY <2>5 DEF Temps
      <3> QED
        BY <3>3, <3>4
    <2> QED
      BY <1>1, <2>4, <2>5 DEF Turned
  <1> QED
    BY <1>5, <1>6

LEMMA ShapeTurned ==
  ASSUME Shape, NEW p, Allowed(p), transAsm(p)
  PROVE  Shape'
  <1>1. /\ Spilled(p) = {} /\ phase = "allocate" /\ isf' = FALSE /\ round' = round + 1
        /\ phase' = IF isf THEN "allocate" ELSE "run"
        /\ mem' = IF isf THEN mem ELSE [s \in 1..stk_size |-> Undefined]
        /\ prog' = prog /\ stkmap' = stkmap /\ stk_size' = stk_size
        /\ pc' = pc /\ env' = env /\ pc0' = pc0 /\ env0' = env0 /\ steps' = steps
        /\ il' = [i \in DOMAIN il |-> out(il[i], p)]
    BY DEF transAsm
  <1>2. /\ prog \in Programs /\ isf \in BOOLEAN /\ round \in Nat /\ stk_size \in Nat /\ steps \in Nat
        /\ DOMAIN stkmap \subseteq Temporary(round) \ (Occurring \cup Reg)
        /\ ~ isf => \A u \in Occurring : isFloat(u) => u \in Reg
        /\ pc = 1 /\ pc0 = 1 /\ steps = 0 /\ mem = << >>
        /\ env = [r \in Reg |-> <<"at entry", r>>]
        /\ env0 = [t \in Named |-> IF t \in Reg THEN <<"at entry", t>> ELSE Undefined]
    BY <1>1 DEF Shape
  <1>3. /\ Len(il) \in Nat /\ DOMAIN il = 1..Len(il) /\ DOMAIN il' = DOMAIN il
        /\ \A i \in DOMAIN il : il'[i] = out(il[i], p)
    BY <1>1, Items
  <1>4. \A i \in DOMAIN il : il'[i] \in Entry(round + 1)
    BY <1>1, <1>3, Outs
  <1>5. il' \in Seq(Entry(round + 1))
    <2>1. il' \in [1..Len(il) -> Entry(round + 1)]
      <3>1. il' = [i \in DOMAIN il |-> il'[i]]
        BY <1>1, <1>3
      <3> QED
        BY <1>3, <1>4, <3>1
    <2> QED
      BY <1>3, <2>1
  <1>6. ASSUME NEW i \in DOMAIN il
        PROVE  /\ Fits(prog, il'[i], stk_size)
               /\ \A v \in Temps(il'[i].dst) \cup Temps(il'[i].src) : v \in Reg \/ (v \in Occurring /\ isFloat(v) # isf)
    <2>1. PICK y : y = il'[i]
      OBVIOUS
    <2>2. y = out(il[i], p)
      BY <1>3, <2>1
    <2> QED
      BY <1>1, <2>1, <2>2, OutsFit
  <1>7. \A v \in Occurring' : v \in Reg \/ (v \in Occurring /\ isFloat(v) # isf)
    <2>1. Occurring' = UNION {Temps(il'[i].dst) \cup Temps(il'[i].src) : i \in DOMAIN il'}
      BY DEF Occurring, Temps
    <2> HIDE DEF Occurring
    <2> QED
      BY <1>3, <1>6, <2>1
  <1>8. (il \in Seq(Entry(round)))'
    BY <1>1, <1>5 DEF Entry, Temporary
  <1>9. (\A i \in DOMAIN il : Fits(prog, il[i], stk_size))'
    BY <1>1, <1>3, <1>6 DEF Fits, FitsInserted, FitsOriginal
  <1>10. (DOMAIN stkmap \subseteq Temporary(round) \ (Occurring \cup Reg))'
    <2>1. Temporary(round)' = Temporary(round + 1) /\ Temporary(round) \subseteq Temporary(round + 1)
      BY <1>1, <1>2, Later DEF Temporary
    <2> QED
      BY <1>1, <1>2, <1>7, <2>1
  <1>11. (~ isf => \A u \in Occurring : isFloat(u) => u \in Reg)'
    <2>1. \A u \in Occurring' : isFloat(u) => u \in Reg
      BY <1>2, <1>7
    <2> QED
      BY <2>1 DEF isFloat
  <1>12. (phase = "run" => Occurring \subseteq Reg)'
    <2>1. ASSUME ~ isf, NEW v \in Occurring' PROVE v \in Reg
      <3>1. v \in Reg \/ (v \in Occurring /\ isFloat(v) # isf)
        BY <1>7
      <3>2. CASE v \in Occurring /\ isFloat(v) # isf
        <4>1. isFloat(v) \in BOOLEAN
          BY DEF isFloat
        <4>3. isf = FALSE
          BY <1>2, <2>1
        <4>4. isFloat(v) = TRUE
          BY <3>2, <4>1, <4>3, Zenon
        <4>2. isFloat(v)
          BY <4>4
        <4> QED
          BY <1>2, <2>1, <3>2, <4>2
      <3> QED
        BY <3>1, <3>2
    <2> QED
      BY <1>1, <2>1
  <1>13. (phase = "allocate" =>
            /\ pc = 1 /\ pc0 = 1 /\ steps = 0 /\ mem = << >>
            /\ env = [r \in Reg |-> <<"at entry", r>>]
            /\ env0 = [t \in Named |-> IF t \in Reg THEN <<"at entry", t>> ELSE Undefined])'
    BY <1>1, <1>2 DEF Named
  <1>14. (prog \in Programs /\ isf \in BOOLEAN /\ round \in Nat /\ stk_size \in Nat /\ steps \in Nat
          /\ phase \in {"allocate", "run"})'
    <2>1. phase' \in {"allocate", "run"}
      BY <1>1
    <2>4. prog' \in Programs /\ stk_size' \in Nat /\ steps' \in Nat
      BY <1>1, <1>2, Zenon
    <2>5. round' = round + 1 /\ round \in Nat
      BY <1>1, <1>2, Zenon
    <2>2. prog' \in Programs /\ round' \in Nat /\ stk_size' \in Nat /\ steps' \in Nat
      BY <2>4, <2>5
    <2>3. isf' \in BOOLEAN
      BY <1>1, Zenon
    <2> QED
      BY <2>1, <2>2, <2>3
  <1> QED
    BY <1>8, <1>9, <1>10, <1>11, <1>12, <1>13, <1>14 DEF Shape

LEMMA SpiltFit ==
  ASSUME Shape, NEW p, Allowed(p), NEW places, places = placesOf(keysOf(p)),
         NEW c, NEW start, Laid(c, start, p, places), NEW j \in 1..Len(c)
  PROVE  /\ Fits(prog, c[j], sizeAfter(p))
         /\ \A v \in Temps(c[j].dst) \cup Temps(c[j].src) :
              \/ v \in Occurring \ Spilled(p)
              \/ v \in Temporary(round + 1) \ Temporary(round) /\ (~ isf => ~ isFloat(v))
  <1>1. PICK i \in DOMAIN il : \E k \in 1..sizeOf(i, p) : j = start[i] + k
    BY DEF Laid
  <1>2. PICK k \in 1..sizeOf(i, p) : j = start[i] + k
    BY <1>1
  <1>3. Kinds(c, start, i, p, places)
    BY KindsOf
  <1>4. PICK y : y = c[j]
    OBVIOUS
  <1>5. CASE k \in 1..loadsOf(i, p)
    <2>1. PICK h : h = spilledAt(il[i].src, p)[k]
      OBVIOUS
    <2>2. \A o \in 1..loadsOf(i, p) :
            LET g == spilledAt(il[i].src, p)[o] IN g \in DOMAIN il[i].src /\ il[i].src[g] \in Spilled(p)
      BY LoadedBefore
    <2>3. h \in DOMAIN il[i].src /\ il[i].src[h] \in Spilled(p)
      BY <1>5, <2>1, <2>2
    <2>4. h \in Nat
      BY <2>3, Items
    <2>5. y = loadAt(i, p, places, h)
      BY <1>2, <1>4, <1>5, <2>1 DEF Laid
    <2>6. /\ Fits(prog, y, sizeAfter(p))
          /\ Temps(y.dst) \cup Temps(y.src) \subseteq Temporary(round + 1) \ Temporary(round)
          /\ ~ isf => \A v \in Temps(y.dst) \cup Temps(y.src) : ~ isFloat(v)
      BY <2>3, <2>4, <2>5, LoadItems
    <2> QED
      BY <1>4, <2>6
  <1>6. CASE k = loadsOf(i, p) + 1
    <2>1. y = center(i, p)
      BY <1>2, <1>3, <1>4, <1>6 DEF Kinds
    <2>2. /\ Fits(prog, y, sizeAfter(p))
          /\ \A v \in Temps(y.dst) \cup Temps(y.src) :
               \/ v \in Occurring \ Spilled(p)
               \/ v \in Temporary(round + 1) \ Temporary(round) /\ isFloat(v) = isf
      BY <2>1, Centers
    <2>3. ASSUME NEW v, isFloat(v) = isf, ~ isf PROVE ~ isFloat(v)
      BY <2>3, Zenon
    <2> QED
      BY <1>4, <2>2, <2>3
  <1>7. CASE storesOf(i, p) = 1 /\ k = loadsOf(i, p) + 2
    <2>1. y = storeAt(i, p, places, 1) /\ il[i].dst[1] \in Spilled(p)
      BY <1>2, <1>3, <1>4, <1>7 DEF Kinds
    <2>2. /\ Fits(prog, y, sizeAfter(p))
          /\ Temps(y.dst) \cup Temps(y.src) \subseteq Temporary(round + 1) \ Temporary(round)
          /\ ~ isf => \A v \in Temps(y.dst) \cup Temps(y.src) : ~ isFloat(v)
      BY <2>1, LoadItems
    <2> QED
      BY <1>4, <2>2
  <1> QED
    BY <1>3, <1>5, <1>6, <1>7 DEF Kinds

LEMMA Rounds ==
  ASSUME Shape, NEW p, Allowed(p), RA_Spill(p)
  PROVE  /\ phase = "allocate" /\ Spilled(p) # {} /\ Len(il) # 0
         /\ il' = FlattenSeq([i \in DOMAIN il |-> rewrite(i, p, placesOf(keysOf(p)))])
         /\ stkmap' = placesOf(keysOf(p)) /\ stk_size' = sizeAfter(p)
         /\ round' = round + 1 /\ prog' = prog /\ isf' = isf /\ phase' = phase
         /\ pc' = pc /\ env' = env /\ mem' = mem /\ pc0' = pc0 /\ env0' = env0 /\ steps' = steps
  <1>1. /\ phase = "allocate" /\ Spilled(p) # {}
        /\ il' = FlattenSeq([i \in DOMAIN il |-> rewrite(i, p, placesOf(keysOf(p)))])
        /\ stkmap' = placesOf(keysOf(p)) /\ stk_size' = sizeAfter(p)
        /\ round' = round + 1 /\ prog' = prog /\ isf' = isf /\ phase' = phase
        /\ pc' = pc /\ env' = env /\ mem' = mem /\ pc0' = pc0 /\ env0' = env0 /\ steps' = steps
    BY DEF RA_Spill, keysOf, sizeAfter, machine
  <1>2. Len(il) # 0
    <2>1. Spilled(p) \subseteq Occurring
      BY Keys
    <2>2. DOMAIN il # {}
      BY <1>1, <2>1 DEF Occurring
    <2> QED
      BY <2>2, Items
  <1> QED
    BY <1>1, <1>2

LEMMA ShapeSpilt ==
  ASSUME Shape, NEW p, Allowed(p), RA_Spill(p)
  PROVE  Shape'
  <1>1. PICK places : places = placesOf(keysOf(p))
    OBVIOUS
  <1>2. /\ phase = "allocate" /\ Len(il) # 0
        /\ il' = FlattenSeq([i \in DOMAIN il |-> rewrite(i, p, places)])
        /\ stkmap' = places /\ stk_size' = sizeAfter(p)
        /\ round' = round + 1 /\ prog' = prog /\ isf' = isf /\ phase' = phase
        /\ pc' = pc /\ env' = env /\ mem' = mem /\ pc0' = pc0 /\ env0' = env0 /\ steps' = steps
    BY <1>1, Rounds
  <1>3. PICK c : c = il'
    OBVIOUS
  <1>4. PICK start : Laid(c, start, p, places)
    BY <1>1, <1>2, <1>3, Layout
  <1>5. c \in Seq(Entry(round + 1)) /\ DOMAIN c = 1..Len(c)
    BY <1>4 DEF Laid
  <1>6. \A j \in DOMAIN c :
          /\ Fits(prog, c[j], sizeAfter(p))
          /\ \A v \in Temps(c[j].dst) \cup Temps(c[j].src) :
               \/ v \in Occurring \ Spilled(p)
               \/ v \in Temporary(round + 1) \ Temporary(round) /\ (~ isf => ~ isFloat(v))
    BY <1>1, <1>4, <1>5, SpiltFit
  <1>7. \A v \in Occurring' : \/ v \in Occurring \ Spilled(p)
                              \/ v \in Temporary(round + 1) \ Temporary(round) /\ (~ isf => ~ isFloat(v))
    <2>1. Occurring' = UNION {Temps(il'[i].dst) \cup Temps(il'[i].src) : i \in DOMAIN il'}
      BY DEF Occurring, Temps
    <2> HIDE DEF Occurring
    <2> QED
      BY <1>3, <1>6, <2>1
  <1>8. /\ prog \in Programs /\ isf \in BOOLEAN /\ round \in Nat /\ stk_size \in Nat /\ steps \in Nat
        /\ phase \in {"allocate", "run"}
        /\ DOMAIN stkmap \subseteq Temporary(round) \ (Occurring \cup Reg)
        /\ ~ isf => \A u \in Occurring : isFloat(u) => u \in Reg
        /\ pc = 1 /\ pc0 = 1 /\ steps = 0 /\ mem = << >>
        /\ env = [r \in Reg |-> <<"at entry", r>>]
        /\ env0 = [t \in Named |-> IF t \in Reg THEN <<"at entry", t>> ELSE Undefined]
    BY <1>2 DEF Shape
  <1>9. (il \in Seq(Entry(round)))'
    BY <1>2, <1>3, <1>5 DEF Entry, Temporary
  <1>10. (\A i \in DOMAIN il : Fits(prog, il[i], stk_size))'
    BY <1>2, <1>3, <1>6 DEF Fits, FitsInserted, FitsOriginal
  <1>11. (DOMAIN stkmap \subseteq Temporary(round) \ (Occurring \cup Reg))'
    <2>1. Temporary(round)' = Temporary(round + 1) /\ Temporary(round) \subseteq Temporary(round + 1)
      BY <1>2, <1>8, Later DEF Temporary
    <2>2. DOMAIN places = DOMAIN stkmap \cup keysOf(p)
      BY <1>1, NewPlaces
    <2>3. keysOf(p) \subseteq Spilled(p) /\ Spilled(p) \subseteq Occurring /\ Spilled(p) \cap Reg = {}
      BY Keys
    <2>4. Occurring \subseteq Temporary(round)
      BY Items
    <2>5. DOMAIN places \subseteq Temporary(round) /\ DOMAIN places \cap Reg = {}
      BY <1>8, <2>2, <2>3, <2>4
    <2>6. DOMAIN places \cap Occurring' = {}
      BY <1>7, <1>8, <2>2, <2>3, <2>5
    <2> QED
      BY <1>2, <2>1, <2>5, <2>6
  <1>12. (~ isf => \A u \in Occurring : isFloat(u) => u \in Reg)'
    <2>1. ASSUME ~ isf, NEW u \in Occurring', isFloat(u) PROVE u \in Reg
      BY <1>7, <1>8, <2>1
    <2> QED
      BY <1>2, <2>1 DEF isFloat
  <1>13. (phase = "run" => Occurring \subseteq Reg)'
    BY <1>2
  <1>14. (phase = "allocate" =>
            /\ pc = 1 /\ pc0 = 1 /\ steps = 0 /\ mem = << >>
            /\ env = [r \in Reg |-> <<"at entry", r>>]
            /\ env0 = [t \in Named |-> IF t \in Reg THEN <<"at entry", t>> ELSE Undefined])'
    BY <1>2, <1>8 DEF Named
  <1>15. (prog \in Programs /\ isf \in BOOLEAN /\ round \in Nat /\ stk_size \in Nat /\ steps \in Nat
          /\ phase \in {"allocate", "run"})'
    <2>1. phase' \in {"allocate", "run"} /\ prog' \in Programs /\ steps' \in Nat
      BY <1>2, <1>8, Zenon
    <2>2. isf' \in BOOLEAN
      BY <1>2, <1>8, Zenon
    <2>3. round' = round + 1 /\ round \in Nat /\ stk_size' = sizeAfter(p)
      BY <1>2, <1>8, Zenon
    <2>4. sizeAfter(p) \in Nat
      BY <1>1, NewPlaces
    <2>5. round' \in Nat /\ stk_size' \in Nat
      BY <2>3, <2>4
    <2> QED
      BY <2>1, <2>2, <2>5
  <1> QED
    BY <1>9, <1>10, <1>11, <1>12, <1>13, <1>14, <1>15 DEF Shape

-----------------------------------------------------------------------------
(* The two functions run. *)

valueAt(l) == IF l[1] = "temp" THEN env[l[2]] ELSE mem[l[2]]

(* The certificate is true of the values there are. *)
Agreeing(R, ahead) ==
  /\ pc \in 1..(Len(il) + 1) /\ pc0 = ahead[pc]
  /\ env = [u \in Reg |-> env[u]] /\ env0 = [t \in Named |-> env0[t]] /\ mem = [s \in 1..stk_size |-> mem[s]]
  /\ \A i \in DOMAIN il : \A l, t : <<l, t>> \in R[i] => l \in RegPlace(stk_size)
  /\ pc \in DOMAIN il =>
       \A l, t : <<l, t>> \in R[pc] /\ env0[t] # Undefined => valueAt(l) = env0[t]

(* The inductive invariant: there is a certificate. *)
Certificate(R, ahead) ==
  /\ Holding(il, R, round, stk_size) /\ Certified(prog, il, R, ahead)
  /\ phase = "run" => Agreeing(R, ahead)

IInv == Shape /\ \E R, ahead : Certificate(R, ahead)

(* A place is on the stack or not. *)
LEMMA RegPlaces ==
  ASSUME NEW size, NEW l \in RegPlace(size)
  PROVE  \/ \E u \in Reg : l = temp(u) /\ l[1] = "temp" /\ l[2] = u
         \/ \E s \in 1..size : l = slot(s) /\ l[1] # "temp" /\ l[2] = s
  BY DEF RegPlace, temp, slot

LEMMA Distinct ==
  /\ \A u, v : temp(u) = temp(v) => u = v
  /\ \A r, s : slot(r) = slot(s) => r = s
  /\ \A u, s : temp(u) # slot(s)
  BY DEF temp, slot

LEMMA ValueAt ==
  /\ \A u : valueAt(temp(u)) = env[u]
  /\ \A s : valueAt(slot(s)) = mem[s]
  BY DEF valueAt, temp, slot

LEMMA ValueAtNext ==
  /\ \A u : valueAt(temp(u))' = env'[u]
  /\ \A s : valueAt(slot(s))' = mem'[s]
  BY DEF valueAt, temp, slot

(* After an instruction that was put there. *)
LEMMA InsertedValues ==
  ASSUME Shape, phase = "run", pc \in DOMAIN il, il[pc].of = 0,
         env = [u \in Reg |-> env[u]], mem = [s \in 1..stk_size |-> mem[s]],
         NEW x, x = il[pc],
         env' = IF x.op = "store" THEN env
                ELSE [env EXCEPT ![x.dst[1]] = IF x.op = "load" THEN mem[x.slot] ELSE env[x.src[1]]],
         mem' = IF x.op = "store" THEN [mem EXCEPT ![x.slot] = env[x.src[1]]] ELSE mem
  PROVE  /\ env' = [u \in Reg |-> env'[u]] /\ mem' = [s \in 1..stk_size |-> mem'[s]]
         /\ x.jumps = {}
         /\ \A l \in RegPlace(stk_size) :
              valueAt(l)' = IF 1 \in DOMAIN written(x) /\ l = written(x)[1] THEN valueAt(read(x)) ELSE valueAt(l)
  <1>1. /\ FitsInserted(x, stk_size) /\ x.dst \in Seq(Temporary(round)) /\ x.src \in Seq(Temporary(round))
        /\ Temps(x.dst) \subseteq Reg /\ Temps(x.src) \subseteq Reg
    <2>1. Fits(prog, x, stk_size) /\ x.dst \in Seq(Temporary(round)) /\ x.src \in Seq(Temporary(round))
          /\ Temps(x.dst) \subseteq Occurring /\ Temps(x.src) \subseteq Occurring
      BY Items
    <2>2. Occurring \subseteq Reg
      BY DEF Shape
    <2> QED
      BY <2>1, <2>2 DEF Fits
  <1>2. x.jumps = {}
    BY <1>1 DEF FitsInserted
  <1>3. CASE x.op = "store"
    <2>1. x.slot \in 1..stk_size /\ written(x) = <<slot(x.slot)>> /\ read(x) = temp(x.src[1])
      BY <1>1, <1>3 DEF FitsInserted, written, read
    <2>2. 1 \in DOMAIN written(x) /\ written(x)[1] = slot(x.slot)
      BY <2>1
    <2>3. env' = env /\ mem' = [mem EXCEPT ![x.slot] = env[x.src[1]]]
      BY <1>3
    <2>4. /\ mem' = [s \in 1..stk_size |-> mem'[s]]
          /\ \A s \in 1..stk_size : mem'[s] = IF s = x.slot THEN env[x.src[1]] ELSE mem[s]
      BY <2>1, <2>3
    <2>5. ASSUME NEW l \in RegPlace(stk_size)
          PROVE  valueAt(l)' = IF l = slot(x.slot) THEN valueAt(read(x)) ELSE valueAt(l)
      <3>1. CASE \E u \in Reg : l = temp(u)
        <4>1. PICK u \in Reg : l = temp(u)
          BY <3>1
        <4>3. valueAt(l)' = env'[u] /\ valueAt(l) = env[u]
          BY <4>1, ValueAt, ValueAtNext
        <4>4. l # slot(x.slot)
          BY <4>1, Distinct
        <4>2. valueAt(l)' = env[u] /\ valueAt(l) = env[u] /\ l # slot(x.slot)
          BY <2>3, <4>3, <4>4
        <4> QED
          BY <4>2
      <3>2. CASE \E s \in 1..stk_size : l = slot(s)
        <4>1. PICK s \in 1..stk_size : l = slot(s)
          BY <3>2
        <4>2. valueAt(l)' = mem'[s] /\ valueAt(l) = mem[s] /\ (l = slot(x.slot) <=> s = x.slot)
          BY <4>1, ValueAt, ValueAtNext, Distinct
        <4>3. valueAt(read(x)) = env[x.src[1]]
          BY <2>1, ValueAt
        <4> QED
          BY <2>4, <4>2, <4>3
      <3> QED
        BY <3>1, <3>2, RegPlaces
    <2> QED
      BY <1>2, <2>2, <2>3, <2>4, <2>5
  <1>4. CASE x.op # "store"
    <2>1. Len(x.dst) = 1 /\ x.dst[1] \in Reg
      BY <1>1, <1>4 DEF FitsInserted, Temps
    <2>2. 1 \in DOMAIN written(x) /\ written(x)[1] = temp(x.dst[1])
      BY <1>1, <1>4, <2>1 DEF written
    <2>3. mem' = mem /\ env' = [env EXCEPT ![x.dst[1]] = IF x.op = "load" THEN mem[x.slot] ELSE env[x.src[1]]]
      BY <1>4
    <2>4. valueAt(read(x)) = IF x.op = "load" THEN mem[x.slot] ELSE env[x.src[1]]
      BY ValueAt DEF read
    <2>5. env' = [env EXCEPT ![x.dst[1]] = valueAt(read(x))]
      BY <2>3, <2>4
    <2>6. /\ env' = [u \in Reg |-> env'[u]]
          /\ \A u \in Reg : env'[u] = IF u = x.dst[1] THEN valueAt(read(x)) ELSE env[u]
      <3>1. PICK v : v = valueAt(read(x))
        OBVIOUS
      <3> QED
        BY <2>1, <2>5, <3>1
    <2>7. ASSUME NEW l \in RegPlace(stk_size)
          PROVE  valueAt(l)' = IF l = temp(x.dst[1]) THEN valueAt(read(x)) ELSE valueAt(l)
      <3>1. CASE \E u \in Reg : l = temp(u)
        <4>1. PICK u \in Reg : l = temp(u)
          BY <3>1
        <4>2. valueAt(l)' = env'[u] /\ valueAt(l) = env[u] /\ (l = temp(x.dst[1]) <=> u = x.dst[1])
          BY <4>1, ValueAt, ValueAtNext, Distinct
        <4> QED
          BY <2>6, <4>2
      <3>2. CASE \E s \in 1..stk_size : l = slot(s)
        <4>1. PICK s \in 1..stk_size : l = slot(s)
          BY <3>2
        <4>2. valueAt(l)' = mem[s] /\ valueAt(l) = mem[s] /\ l # temp(x.dst[1])
          BY <2>3, <4>1, ValueAt, ValueAtNext, Distinct
        <4> QED
          BY <4>2
      <3> QED
        BY <3>1, <3>2, RegPlaces
    <2> QED
      BY <1>2, <2>2, <2>3, <2>6, <2>7
  <1> QED
    BY <1>3, <1>4

(* What assigning several temporaries at once does. *)
LEMMA Assigned ==
  ASSUME NEW S, NEW e, e = [t \in S |-> e[t]], NEW dst, NEW values, NEW f, f = assigned(e, dst, values)
  PROVE  /\ f = [t \in S |-> f[t]]
         /\ \A t \in S : (\A k \in DOMAIN dst : dst[k] # t) => f[t] = e[t]
         /\ \A k \in DOMAIN dst : dst[k] \in S /\ (\A m \in DOMAIN dst : dst[m] = dst[k] => m = k)
              => f[dst[k]] = values[k]
  <1>1. DOMAIN e = S
    BY Zenon
  <1>2. f = [t \in S |-> IF t \in Temps(dst) THEN values[CHOOSE k \in DOMAIN dst : dst[k] = t] ELSE e[t]]
    BY <1>1 DEF assigned
  <1>3. f = [t \in S |-> f[t]]
    BY <1>2
  <1>4. ASSUME NEW t \in S, \A k \in DOMAIN dst : dst[k] # t PROVE f[t] = e[t]
    BY <1>2, <1>4 DEF Temps
  <1>5. ASSUME NEW k \in DOMAIN dst, dst[k] \in S, \A m \in DOMAIN dst : dst[m] = dst[k] => m = k
        PROVE  f[dst[k]] = values[k]
    <2>1. dst[k] \in Temps(dst)
      BY DEF Temps
    <2>2. (CHOOSE m \in DOMAIN dst : dst[m] = dst[k]) = k
      BY <1>5
    <2> QED
      BY <1>2, <1>5, <2>1, <2>2
  <1> QED
    BY <1>3, <1>4, <1>5

(* After an instruction of the function as it was. *)
LEMMA OriginalValues ==
  ASSUME Shape, phase = "run", pc \in DOMAIN il,
         env = [u \in Reg |-> env[u]], env0 = [t \in Named |-> env0[t]], mem' = mem,
         NEW x, x = il[pc], x.of # 0, NEW x0, x0 = prog[x.of],
         env' = IF x.gone THEN env
                ELSE IF x0.op = "move" THEN assigned(env, x.dst, <<env[x.src[1]]>>)
                ELSE assigned(env, x.dst, computed(x.of)),
         env0' = IF x0.op = "move" THEN assigned(env0, x0.dst, <<env0[x0.src[1]]>>)
                 ELSE assigned(env0, x0.dst, computed(x.of))
  PROVE  /\ env' = [u \in Reg |-> env'[u]] /\ env0' = [t \in Named |-> env0'[t]]
         /\ \A l \in RegPlace(stk_size), t \in Named : \A Q :
              /\ Keeps(prog, x, l, t, Q)
              /\ \A m, u : <<m, u>> \in Q /\ env0[u] # Undefined => valueAt(m) = env0[u]
              /\ env0'[t] # Undefined
              => valueAt(l)' = env0'[t]
  <1>1. /\ x.of \in DOMAIN prog /\ FitsOriginal(x, x0)
        /\ x.dst \in Seq(Temporary(round)) /\ x.src \in Seq(Temporary(round))
        /\ Temps(x.dst) \subseteq Reg /\ Temps(x.src) \subseteq Reg
    <2>1. Fits(prog, x, stk_size) /\ x.dst \in Seq(Temporary(round)) /\ x.src \in Seq(Temporary(round))
          /\ Temps(x.dst) \subseteq Occurring /\ Temps(x.src) \subseteq Occurring
      BY Items
    <2>2. Occurring \subseteq Reg
      BY DEF Shape
    <2> QED
      BY <2>1, <2>2 DEF Fits
  <1>2. WellFormed(x0) /\ x0.dst \in Seq(Named) /\ x0.src \in Seq(Named)
    BY <1>1, Functions DEF Instruction, Named
  <1>3. x.op # "store" /\ x.op # "load" /\ x.op = x0.op
    <2>1. x0.op \in {"oper", "move", "label"}
      BY <1>1, Functions DEF Instruction
    <2> QED
      BY <1>1, <2>1 DEF FitsOriginal
  <1>4. written(x) = [k \in DOMAIN x.dst |-> temp(x.dst[k])] /\ read(x) = temp(x.src[1])
    BY <1>3 DEF written, read
  <1>5. CASE x0.op = "move"
    <2>1. Len(x0.dst) = 1 /\ Len(x0.src) = 1
      BY <1>2, <1>5 DEF WellFormed
    <2>2. x0.dst[1] \in Named /\ x0.src[1] \in Named /\ DOMAIN x0.dst = {1}
      BY <1>2, <2>1
    <2>3. env0' = assigned(env0, x0.dst, <<env0[x0.src[1]]>>)
      BY <1>5
    <2>4. PICK v0 : v0 = <<env0[x0.src[1]]>>
      OBVIOUS
    <2>5. v0[1] = env0[x0.src[1]]
      BY <2>4
    <2>6. PICK f0 : f0 = env0'
      OBVIOUS
    <2>7. f0 = assigned(env0, x0.dst, v0)
      BY <2>3, <2>4, <2>6
    <2>8. /\ f0 = [t \in Named |-> f0[t]]
          /\ \A t \in Named : (\A k \in DOMAIN x0.dst : x0.dst[k] # t) => f0[t] = env0[t]
          /\ \A k \in DOMAIN x0.dst :
               x0.dst[k] \in Named /\ (\A m \in DOMAIN x0.dst : x0.dst[m] = x0.dst[k] => m = k)
                 => f0[x0.dst[k]] = v0[k]
      BY <2>7, Assigned
    <2>9. \A t \in Named : env0'[t] = env0[origin(x0, t)]
      <3> SUFFICES ASSUME NEW t \in Named PROVE f0[t] = env0[origin(x0, t)]
        BY <2>6
      <3>1. CASE t = x0.dst[1]
        <4>1. 1 \in DOMAIN x0.dst /\ \A m \in DOMAIN x0.dst : x0.dst[m] = x0.dst[1] => m = 1
          BY <2>2
        <4>2. f0[x0.dst[1]] = v0[1]
          BY <2>2, <2>8, <4>1
        <4> QED
          BY <2>5, <3>1, <4>2 DEF origin
      <3>2. CASE t # x0.dst[1]
        <4>1. \A k \in DOMAIN x0.dst : x0.dst[k] # t
          BY <2>2, <3>2
        <4>2. f0[t] = env0[t]
          BY <2>8, <4>1
        <4> QED
          BY <3>2, <4>2 DEF origin
      <3> QED
        BY <3>1, <3>2
    <2>10. /\ env' = [u \in Reg |-> env'[u]]
           /\ \A l \in RegPlace(stk_size) :
                valueAt(l)' = IF 1 \in DOMAIN written(x) /\ l = written(x)[1] THEN valueAt(read(x)) ELSE valueAt(l)
      <3>1. CASE x.gone
        <4>1. x.dst = << >> /\ env' = env
          BY <1>1, <3>1 DEF FitsOriginal
        <4>2. 1 \notin DOMAIN written(x)
          BY <1>4, <4>1
        <4>3. \A l \in RegPlace(stk_size) : valueAt(l)' = valueAt(l)
          BY <4>1 DEF valueAt
        <4> QED
          BY <4>1, <4>2, <4>3
      <3>2. CASE ~ x.gone
        <4>1. Len(x.dst) = 1
          BY <1>1, <2>1, <3>2 DEF FitsOriginal
        <4>2. DOMAIN x.dst = {1} /\ x.dst[1] \in Reg
          BY <1>1, <4>1 DEF Temps
        <4>3. 1 \in DOMAIN written(x) /\ written(x)[1] = temp(x.dst[1])
          BY <1>4, <4>2
        <4>4. PICK v : v = <<env[x.src[1]]>>
          OBVIOUS
        <4>5. v[1] = env[x.src[1]]
          BY <4>4
        <4>6. PICK f : f = env'
          OBVIOUS
        <4>7. f = assigned(env, x.dst, v)
          BY <1>5, <3>2, <4>4, <4>6
        <4>8. /\ f = [u \in Reg |-> f[u]]
              /\ \A u \in Reg : (\A k \in DOMAIN x.dst : x.dst[k] # u) => f[u] = env[u]
              /\ \A k \in DOMAIN x.dst :
                   x.dst[k] \in Reg /\ (\A m \in DOMAIN x.dst : x.dst[m] = x.dst[k] => m = k)
                     => f[x.dst[k]] = v[k]
          BY <4>7, Assigned
        <4>9. \A u \in Reg : env'[u] = IF u = x.dst[1] THEN env[x.src[1]] ELSE env[u]
          BY <4>2, <4>5, <4>6, <4>8
        <4>10. valueAt(read(x)) = env[x.src[1]]
          BY <1>4, ValueAt
        <4>11. ASSUME NEW l \in RegPlace(stk_size)
               PROVE  valueAt(l)' = IF l = temp(x.dst[1]) THEN valueAt(read(x)) ELSE valueAt(l)
          <5>1. CASE \E u \in Reg : l = temp(u)
            <6>1. PICK u \in Reg : l = temp(u)
              BY <5>1
            <6>2. valueAt(l)' = env'[u] /\ valueAt(l) = env[u] /\ (l = temp(x.dst[1]) <=> u = x.dst[1])
              BY <6>1, ValueAt, ValueAtNext, Distinct
            <6> QED
              BY <4>9, <4>10, <6>2
          <5>2. CASE \E s \in 1..stk_size : l = slot(s)
            <6>1. PICK s \in 1..stk_size : l = slot(s)
              BY <5>2
            <6>2. valueAt(l)' = mem[s] /\ valueAt(l) = mem[s] /\ l # temp(x.dst[1])
              BY <6>1, ValueAt, ValueAtNext, Distinct
            <6> QED
              BY <6>2
          <5> QED
            BY <5>1, <5>2, RegPlaces
        <4> QED
          BY <4>3, <4>6, <4>8, <4>11
      <3> QED
        BY <3>1, <3>2
    <2>11. ASSUME NEW l \in RegPlace(stk_size), NEW t \in Named, NEW Q, Keeps(prog, x, l, t, Q),
                  \A m, u : <<m, u>> \in Q /\ env0[u] # Undefined => valueAt(m) = env0[u],
                  env0'[t] # Undefined
           PROVE  valueAt(l)' = env0'[t]
      <3>1. <<IF 1 \in DOMAIN written(x) /\ l = written(x)[1] THEN read(x) ELSE l, origin(x0, t)>> \in Q
        BY <1>3, <1>5, <2>11 DEF Keeps, Pulled, carries
      <3>2. env0[origin(x0, t)] # Undefined
        BY <2>9, <2>11
      <3>3. valueAt(IF 1 \in DOMAIN written(x) /\ l = written(x)[1] THEN read(x) ELSE l) = env0[origin(x0, t)]
        BY <2>11, <3>1, <3>2
      <3> QED
        BY <2>9, <2>10, <3>3
    <2>12. env0' = [t \in Named |-> env0'[t]]
      BY <2>6, <2>8
    <2> QED
      BY <2>10, <2>11, <2>12
  <1>6. CASE x0.op # "move"
    <2>1. ~ x.gone /\ ~ carries(x)
      BY <1>1, <1>3, <1>6 DEF FitsOriginal, carries
    <2>2. DOMAIN x.dst = DOMAIN x0.dst /\ \A k, m \in DOMAIN x.dst : x.dst[k] = x.dst[m] => k = m
      <3>1. Len(x.dst) = Len(x0.dst)
        BY <1>1, <2>1 DEF FitsOriginal
      <3>2. DOMAIN x.dst = 1..Len(x.dst) /\ DOMAIN x0.dst = 1..Len(x0.dst) /\ Len(x.dst) \in Nat
        BY <1>1, <1>2
      <3>3. CASE Len(x0.dst) > 1
        <4>1. x.dst = x0.dst
          BY <1>1, <3>3 DEF FitsOriginal
        <4> QED
          BY <1>2, <4>1 DEF WellFormed
      <3>4. CASE ~ (Len(x0.dst) > 1)
        BY <3>1, <3>2, <3>4
      <3> QED
        BY <3>3, <3>4
    <2>3. PICK v, f, f0 : v = computed(x.of) /\ f = env' /\ f0 = env0'
      OBVIOUS
    <2>4. f = assigned(env, x.dst, v) /\ f0 = assigned(env0, x0.dst, v)
      BY <1>6, <2>1, <2>3
    <2>5. /\ f = [u \in Reg |-> f[u]]
          /\ \A u \in Reg : (\A k \in DOMAIN x.dst : x.dst[k] # u) => f[u] = env[u]
          /\ \A k \in DOMAIN x.dst :
               x.dst[k] \in Reg /\ (\A m \in DOMAIN x.dst : x.dst[m] = x.dst[k] => m = k)
                 => f[x.dst[k]] = v[k]
      BY <2>4, Assigned
    <2>6. /\ f0 = [t \in Named |-> f0[t]]
          /\ \A t \in Named : (\A k \in DOMAIN x0.dst : x0.dst[k] # t) => f0[t] = env0[t]
          /\ \A k \in DOMAIN x0.dst :
               x0.dst[k] \in Named /\ (\A m \in DOMAIN x0.dst : x0.dst[m] = x0.dst[k] => m = k)
                 => f0[x0.dst[k]] = v[k]
      BY <2>4, Assigned
    <2>7. \A k, m \in DOMAIN x0.dst : x0.dst[k] = x0.dst[m] => k = m
      BY <1>2 DEF WellFormed
    <2>8. ASSUME NEW l \in RegPlace(stk_size), NEW t \in Named, NEW Q, Keeps(prog, x, l, t, Q),
                 \A m, u : <<m, u>> \in Q /\ env0[u] # Undefined => valueAt(m) = env0[u],
                 env0'[t] # Undefined
          PROVE  valueAt(l)' = env0'[t]
      <3>1. \/ \E k \in DOMAIN x.dst : l = temp(x.dst[k]) /\ t = x0.dst[k]
            \/ <<l, t>> \in Q /\ (\A k \in DOMAIN x.dst : l # temp(x.dst[k])) /\ t \notin Temps(x0.dst)
        BY <1>4, <2>1, <2>8 DEF Keeps, Pulled
      <3>2. CASE \E k \in DOMAIN x.dst : l = temp(x.dst[k]) /\ t = x0.dst[k]
        <4>1. PICK k \in DOMAIN x.dst : l = temp(x.dst[k]) /\ t = x0.dst[k]
          BY <3>2
        <4>2. x.dst[k] \in Reg /\ x0.dst[k] \in Named /\ k \in DOMAIN x0.dst
          BY <1>1, <1>2, <2>2 DEF Temps
        <4>4. \A m \in DOMAIN x.dst : x.dst[m] = x.dst[k] => m = k
          BY <2>2
        <4>5. f[x.dst[k]] = v[k]
          BY <2>5, <4>2, <4>4
        <4>6. \A m \in DOMAIN x0.dst : x0.dst[m] = x0.dst[k] => m = k
          BY <2>7, <4>2
        <4>7. f0[x0.dst[k]] = v[k]
          BY <2>6, <4>2, <4>6
        <4>3. env'[x.dst[k]] = v[k] /\ env0'[t] = v[k]
          BY <2>3, <4>1, <4>5, <4>7
        <4> QED
          BY <4>1, <4>3, ValueAtNext
      <3>3. CASE <<l, t>> \in Q /\ (\A k \in DOMAIN x.dst : l # temp(x.dst[k])) /\ t \notin Temps(x0.dst)
        <4>4. \A k \in DOMAIN x0.dst : x0.dst[k] # t
          BY <3>3 DEF Temps
        <4>5. f0[t] = env0[t]
          BY <2>6, <4>4
        <4>1. env0'[t] = env0[t]
          BY <2>3, <4>5
        <4>2. valueAt(l) = env0[t]
          BY <2>8, <3>3, <4>1
        <4>3. valueAt(l)' = valueAt(l)
          <5>1. CASE \E u \in Reg : l = temp(u)
            <6>1. PICK u \in Reg : l = temp(u)
              BY <5>1
            <6>2. env'[u] = env[u]
              BY <2>3, <2>5, <3>3, <6>1
            <6>3. valueAt(l)' = env'[u] /\ valueAt(l) = env[u]
              BY <6>1, ValueAt, ValueAtNext
            <6> QED
              BY <6>2, <6>3
          <5>2. CASE \E s \in 1..stk_size : l = slot(s)
            <6>1. PICK s \in 1..stk_size : l = slot(s)
              BY <5>2
            <6>2. valueAt(l)' = mem'[s] /\ valueAt(l) = mem[s]
              BY <6>1, ValueAt, ValueAtNext
            <6> QED
              BY <6>2
          <5> QED
            BY <5>1, <5>2, RegPlaces
        <4> QED
          BY <4>1, <4>2, <4>3
      <3> QED
        BY <3>1, <3>2, <3>3
    <2> QED
      BY <2>3, <2>5, <2>6, <2>8
  <1> QED
    BY <1>5, <1>6

-----------------------------------------------------------------------------
(* The inductive invariant. *)

(* At first every temporary is where it is. *)
LEMMA AtFirst ==
  ASSUME Init
  PROVE  IInv
  <1> DEFINE n == Len(prog)
             Q == {<<temp(t), t>> : t \in Named}
             R == [i \in DOMAIN il |-> Q]
             ahead == [i \in 1..(n + 1) |-> i]
  <1>1. /\ prog \in Programs /\ il = [i \in DOMAIN prog |-> Original(i, prog[i])]
        /\ isf = TRUE /\ round = 0 /\ stkmap = << >> /\ stk_size = 0 /\ phase = "allocate"
        /\ pc = 1 /\ pc0 = 1 /\ steps = 0 /\ mem = << >>
        /\ env = [r \in Reg |-> <<"at entry", r>>]
        /\ env0 = [t \in Named |-> IF t \in Reg THEN <<"at entry", t>> ELSE Undefined]
    BY DEF Init, Named
  <1>2. prog \in Seq(Instruction) /\ \A i \in DOMAIN prog : WellFormed(prog[i]) /\ prog[i] \in Instruction
    <2>1. prog \in Seq(Instruction) /\ \A i \in DOMAIN prog : WellFormed(prog[i])
      BY <1>1, ProgramsAssumption
    <2> QED
      BY <2>1
  <1>3. n \in Nat /\ DOMAIN prog = 1..n
    BY <1>2
  <1>4. DOMAIN il = 1..n /\ \A i \in 1..n : il[i] = Original(i, prog[i])
    BY <1>1, <1>3
  <1>5. Named \subseteq Temporary(round)
    BY DEF Temporary
  <1>6. ASSUME NEW i \in 1..n
        PROVE  /\ il[i] \in Entry(round) /\ Fits(prog, il[i], stk_size)
               /\ il[i].op = prog[i].op /\ il[i].dst = prog[i].dst /\ il[i].src = prog[i].src
               /\ il[i].of = i /\ il[i].jumps = prog[i].jumps /\ il[i].label = prog[i].label
               /\ Temps(il[i].dst) \subseteq Named /\ Temps(il[i].src) \subseteq Named
    <2>1. PICK x0 : x0 = prog[i]
      OBVIOUS
    <2>2. /\ x0.op \in {"oper", "move", "label"} /\ x0.dst \in Seq(Named) /\ x0.src \in Seq(Named)
          /\ x0.jumps \in SUBSET Label /\ x0.label \in Label \cup {NoLabel}
      BY <1>2, <1>3, <2>1 DEF Instruction, Named
    <2>3. x0.dst \in Seq(Temporary(round)) /\ x0.src \in Seq(Temporary(round))
      <3> HIDE DEF Temporary, Named
      <3> QED
        BY <1>5, <2>2
    <2>4. PICK x : x = Original(i, x0)
      OBVIOUS
    <2>5. /\ x.op = x0.op /\ x.dst = x0.dst /\ x.src = x0.src /\ x.jumps = x0.jumps /\ x.label = x0.label
          /\ x.of = i /\ x.slot = 0 /\ x.gone = FALSE
      BY <2>4 DEF Original
    <2>6. x \in Entry(round)
      <3> HIDE DEF Temporary
      <3> QED
        BY <1>3, <2>2, <2>3, <2>4 DEF Entry, Original
    <2>7. FitsOriginal(x, x0)
      BY <2>5 DEF FitsOriginal
    <2>8. Fits(prog, x, stk_size)
      BY <1>3, <2>1, <2>5, <2>7 DEF Fits
    <2>9. Temps(x0.dst) \subseteq Named /\ Temps(x0.src) \subseteq Named
      BY <2>2 DEF Temps
    <2> QED
      BY <1>4, <2>1, <2>4, <2>5, <2>6, <2>8, <2>9
  <1>7. il \in Seq(Entry(round)) /\ Len(il) = n
    <2>1. il \in [1..n -> Entry(round)]
      <3>1. il = [i \in 1..n |-> il[i]]
        BY <1>1, <1>3, <1>4
      <3> QED
        BY <1>6, <3>1
    <2> QED
      BY <1>3, <2>1
  <1>8. Shape
    <2>1. DOMAIN stkmap = {}
      <3>1. DOMAIN << >> = {}
        OBVIOUS
      <3> QED
        BY <1>1, <3>1, Zenon
    <2>2. \A i \in DOMAIN il : Fits(prog, il[i], stk_size)
      BY <1>4, <1>6
    <2>3. isf \in BOOLEAN
      BY <1>1, Zenon
    <2> QED
      BY <1>1, <1>7, <2>1, <2>2, <2>3 DEF Shape
  <1>9. Holding(il, R, round, stk_size)
    <2>1. \A t \in Named : temp(t) \in Place(round, stk_size)
      BY <1>5 DEF Place
    <2>2. Q \in SUBSET (Place(round, stk_size) \X Named)
      <3> HIDE DEF Named, Place, temp
      <3> QED
        BY <2>1
    <2> HIDE DEF Q
    <2> QED
      BY <2>2 DEF Holding
  <1>10. Certified(prog, il, R, ahead)
    <2>1. ahead \in [1..(Len(il) + 1) -> Nat] /\ ahead[1] = 1
      BY <1>3, <1>7
    <2>2. \A i \in DOMAIN il : il[i].of # 0 /\ il[i].of = ahead[i] /\ ahead[i + 1] = ahead[i] + 1
      BY <1>3, <1>4, <1>6
    <2>3. \A i \in DOMAIN il : R[i] = Q
      OBVIOUS
    <2>4. ASSUME NEW l, NEW t, <<l, t>> \in Q PROVE l = temp(t) /\ t \in Named
      BY <2>4
    <2>5. \A t \in Named : <<temp(t), t>> \in Q
      OBVIOUS
    <2> HIDE DEF ahead, R, Q
    <2>6. ASSUME NEW i \in DOMAIN il, NEW j \in follows(il, i), NEW l, NEW t, <<l, t>> \in R[j]
          PROVE  Keeps(prog, il[i], l, t, R[i])
      <3>1. i \in 1..n /\ j \in DOMAIN il
        BY <1>4 DEF follows
      <3>2. l = temp(t) /\ t \in Named
        BY <2>3, <2>4, <2>6, <3>1
      <3>3. PICK x, x0 : x = il[i] /\ x0 = prog[i]
        OBVIOUS
      <3>4. /\ x.op = x0.op /\ x.dst = x0.dst /\ x.src = x0.src /\ x.of = i /\ i # 0
            /\ WellFormed(x0) /\ x0.op \in {"oper", "move", "label"} /\ x0.dst \in Seq(Named) /\ x0.src \in Seq(Named)
        BY <1>2, <1>3, <1>6, <3>1, <3>3 DEF Instruction, Named
      <3>5. written(x) = [k \in DOMAIN x0.dst |-> temp(x0.dst[k])] /\ read(x) = temp(x0.src[1])
        BY <3>4 DEF written, read
      <3>6. DOMAIN written(x) = DOMAIN x0.dst /\ \A k \in DOMAIN x0.dst : (l = written(x)[k] <=> t = x0.dst[k])
        BY <3>2, <3>5, Distinct
      <3>7. CASE x0.op = "move"
        <4>1. Len(x0.dst) = 1 /\ Len(x0.src) = 1
          BY <3>4, <3>7 DEF WellFormed
        <4>2. 1 \in DOMAIN x0.dst /\ x0.src[1] \in Named
          BY <3>4, <4>1
        <4>3. CASE t = x0.dst[1]
          <5>1. <<read(x), origin(x0, t)>> \in R[i]
            BY <2>3, <2>5, <3>5, <4>2, <4>3 DEF origin
          <5>2. 1 \in DOMAIN written(x) /\ l = written(x)[1]
            BY <3>6, <4>2, <4>3
          <5> QED
            BY <3>3, <3>4, <3>7, <5>1, <5>2 DEF Keeps, Pulled, carries
        <4>4. CASE t # x0.dst[1]
          <5>1. <<l, origin(x0, t)>> \in R[i]
            BY <2>3, <2>5, <3>2, <4>4 DEF origin
          <5>2. ~ (1 \in DOMAIN written(x) /\ l = written(x)[1])
            BY <3>6, <4>2, <4>4
          <5> QED
            BY <3>3, <3>4, <3>7, <5>1, <5>2 DEF Keeps, Pulled, carries
        <4> QED
          BY <4>3, <4>4
      <3>8. CASE x0.op # "move"
        <4>1. ~ carries(x)
          BY <3>4, <3>8 DEF carries
        <4>2. CASE \E k \in DOMAIN x0.dst : t = x0.dst[k]
          <5>1. \E k \in DOMAIN written(x) : l = written(x)[k] /\ t = x0.dst[k]
            BY <3>6, <4>2
          <5> QED
            BY <3>3, <3>4, <4>1, <5>1 DEF Keeps, Pulled
        <4>3. CASE ~ \E k \in DOMAIN x0.dst : t = x0.dst[k]
          <5>1. /\ <<l, t>> \in R[i] /\ (\A k \in DOMAIN written(x) : l # written(x)[k])
                /\ t \notin Temps(x0.dst)
            BY <2>3, <2>5, <3>2, <3>6, <4>3 DEF Temps
          <5> QED
            BY <3>3, <3>4, <4>1, <5>1 DEF Keeps, Pulled
        <4> QED
          BY <4>2, <4>3
      <3> QED
        BY <3>7, <3>8
    <2>7. ASSUME NEW i \in DOMAIN il, NEW k \in DOMAIN il[i].src
          PROVE  <<temp(il[i].src[k]), prog[il[i].of].src[k]>> \in R[i]
      <3>1. i \in 1..n /\ il[i].of = i /\ prog[i].src = il[i].src /\ Temps(il[i].src) \subseteq Named
        BY <1>4, <1>6
      <3>2. il[i].src[k] \in Named
        BY <3>1 DEF Temps
      <3> QED
        BY <2>3, <2>5, <3>1, <3>2
    <2>8. ASSUME 1 \in DOMAIN il, NEW l, NEW t, <<l, t>> \in R[1] PROVE l = temp(t)
      BY <2>3, <2>4, <2>8
    <2> QED
      BY <2>1, <2>2, <2>6, <2>7, <2>8 DEF Certified
  <1> HIDE DEF R, ahead
  <1>11. Certificate(R, ahead)
    BY <1>1, <1>9, <1>10 DEF Certificate
  <1> QED
    BY <1>8, <1>11 DEF IInv

LEMMA AfterSpill ==
  ASSUME IInv, NEW p, Allowed(p), RA_Spill(p)
  PROVE  IInv'
  <1>1. Shape
    BY DEF IInv
  <1>2. Shape'
    BY <1>1, ShapeSpilt
  <1>3. PICK R, ahead : Certificate(R, ahead)
    BY DEF IInv
  <1>4. PICK places : places = placesOf(keysOf(p))
    OBVIOUS
  <1>5. PICK c : c = il'
    OBVIOUS
  <1>6. /\ phase = "allocate" /\ Len(il) # 0 /\ phase' = phase
        /\ c = FlattenSeq([i \in DOMAIN il |-> rewrite(i, p, places)])
        /\ stk_size' = sizeAfter(p) /\ round' = round + 1 /\ prog' = prog
    BY <1>1, <1>4, <1>5, Rounds
  <1>7. Spilling(p, places, R, ahead)
    BY <1>1, <1>3, <1>4 DEF Spilling, Certificate
  <1>8. PICK R2, ahead2 : Holding(c, R2, round + 1, sizeAfter(p)) /\ Certified(prog, c, R2, ahead2)
    BY <1>6, <1>7, SpillCertified
  <1>9. Holding(il', R2, round', stk_size') /\ Certified(prog', il', R2, ahead2) /\ phase' # "run"
    BY <1>5, <1>6, <1>8
  <1>10. Certificate(R2, ahead2)'
    BY <1>9 DEF Certificate, Holding, Certified, Place, Temporary, Keeps, Pulled
  <1> QED
    BY <1>2, <1>10 DEF IInv

LEMMA AfterTurned ==
  ASSUME IInv, NEW p, Allowed(p), transAsm(p)
  PROVE  IInv'
  <1>1. Shape
    BY DEF IInv
  <1>2. Shape'
    BY <1>1, ShapeTurned
  <1>3. PICK R, ahead : Certificate(R, ahead)
    BY DEF IInv
  <1>4. PICK c : c = il'
    OBVIOUS
  <1>5. /\ Spilled(p) = {} /\ phase = "allocate" /\ round' = round + 1
        /\ phase' = IF isf THEN "allocate" ELSE "run"
        /\ mem' = IF isf THEN mem ELSE [s \in 1..stk_size |-> Undefined]
        /\ prog' = prog /\ stk_size' = stk_size
        /\ pc' = pc /\ env' = env /\ pc0' = pc0 /\ env0' = env0
        /\ c = [i \in DOMAIN il |-> out(il[i], p)]
    BY <1>4 DEF transAsm
  <1>6. PICK R2 : /\ Holding(c, R2, round + 1, stk_size) /\ Certified(prog, c, R2, ahead)
                  /\ ~ isf => \A i \in DOMAIN c : \A l, t : <<l, t>> \in R2[i] => l \in RegPlace(stk_size)
    <2>1. Holding(il, R, round, stk_size) /\ Certified(prog, il, R, ahead)
      BY <1>3 DEF Certificate
    <2> QED
      BY <1>1, <1>5, <2>1, Transcribed
  <1>7. Holding(il', R2, round', stk_size') /\ Certified(prog', il', R2, ahead)
    BY <1>4, <1>5, <1>6
  <1>8. ASSUME ~ isf
        PROVE  Agreeing(R2, ahead)'
    <2>1. /\ pc = 1 /\ pc0 = 1
          /\ env = [r \in Reg |-> <<"at entry", r>>]
          /\ env0 = [t \in Named |-> IF t \in Reg THEN <<"at entry", t>> ELSE Undefined]
      BY <1>1, <1>5 DEF Shape
    <2>2. mem' = [s \in 1..stk_size |-> Undefined]
      BY <1>5, <1>8
    <2>3. Len(c) \in Nat /\ DOMAIN c = 1..Len(c) /\ ahead[1] = 1
      <3>1. c \in Seq(Entry(round)')
        BY <1>2, <1>4 DEF Shape
      <3>2. Len(c) \in Nat /\ DOMAIN c = 1..Len(c)
        <4> HIDE DEF Entry
        <4> QED
          BY <3>1
      <3> QED
        BY <1>6, <3>2 DEF Certified
    <2>8. pc' = 1 /\ pc0' = 1 /\ Len(il') = Len(c)
      BY <1>4, <1>5, <2>1
    <2>4. pc' \in 1..(Len(il') + 1) /\ pc0' = ahead[pc']
      BY <2>3, <2>8
    <2>5. env' = [u \in Reg |-> env'[u]] /\ env0' = [t \in Named |-> env0'[t]] /\ mem' = [s \in 1..stk_size' |-> mem'[s]]
      BY <1>5, <2>1, <2>2
    <2>6. \A i \in DOMAIN il' : \A l, t : <<l, t>> \in R2[i] => l \in RegPlace(stk_size')
      BY <1>4, <1>5, <1>6, <1>8
    <2>7. ASSUME pc' \in DOMAIN il', NEW l, NEW t, <<l, t>> \in R2[pc'], env0'[t] # Undefined
          PROVE  valueAt(l)' = env0'[t]
      <3>1. 1 \in DOMAIN c /\ <<l, t>> \in R2[1]
        BY <1>4, <1>5, <2>1, <2>7
      <3>2. t \in Named
        <4>1. R2[1] \in SUBSET (Place(round + 1, stk_size) \X Named)
          BY <1>6, <3>1 DEF Holding
        <4> HIDE DEF Named, Place
        <4> QED
          BY <3>1, <4>1
      <3>3. t \in Reg
        BY <1>5, <2>1, <2>7, <3>2
      <3>4. l = temp(t)
        BY <1>6, <3>1, <3>3 DEF Certified
      <3>5. valueAt(l)' = env'[t]
        BY <3>4, ValueAtNext
      <3> QED
        BY <1>5, <2>1, <3>2, <3>3, <3>5
    <2> QED
      BY <2>4, <2>5, <2>6, <2>7 DEF Agreeing, RegPlace, Named, valueAt
  <1>9. phase' = "run" => Agreeing(R2, ahead)'
    BY <1>5, <1>8
  <1>10. Certificate(R2, ahead)'
    BY <1>7, <1>9 DEF Certificate, Holding, Certified, Place, Temporary, Keeps, Pulled
  <1> QED
    BY <1>2, <1>10 DEF IInv

(* While the functions run, the instructions stay what they are.           *)
LEMMA ShapeRunning ==
  ASSUME Shape, phase = "run", UNCHANGED <<prog, alloc>>, steps' = steps + 1
  PROVE  Shape'
  <1>1. /\ prog' = prog /\ il' = il /\ isf' = isf /\ round' = round /\ stkmap' = stkmap
        /\ stk_size' = stk_size /\ phase' = phase /\ phase' # "allocate"
    BY DEF alloc
  <1>2. steps' \in Nat
    <2>1. steps \in Nat
      BY DEF Shape
    <2> QED
      BY <2>1
  <1>3. Occurring' = Occurring
    BY <1>1 DEF Occurring, Temps
  <1>4. (il \in Seq(Entry(round)))'
    BY <1>1 DEF Shape, Entry, Temporary
  <1>5. (\A i \in DOMAIN il : Fits(prog, il[i], stk_size))'
    BY <1>1 DEF Shape, Fits, FitsInserted, FitsOriginal
  <1>6. (DOMAIN stkmap \subseteq Temporary(round) \ (Occurring \cup Reg))'
    BY <1>1, <1>3 DEF Shape, Temporary
  <1>7. (~ isf => \A u \in Occurring : isFloat(u) => u \in Reg)'
    BY <1>1, <1>3 DEF Shape, isFloat
  <1>8. (phase = "run" => Occurring \subseteq Reg)'
    BY <1>1, <1>3 DEF Shape
  <1>9. (prog \in Programs /\ isf \in BOOLEAN /\ round \in Nat /\ stk_size \in Nat /\ phase \in {"allocate", "run"})'
    <2>1. prog \in Programs /\ isf \in BOOLEAN /\ round \in Nat /\ stk_size \in Nat /\ phase \in {"allocate", "run"}
      BY DEF Shape
    <2> QED
      BY <1>1, <2>1, Zenon
  <1> QED
    BY <1>1, <1>2, <1>4, <1>5, <1>6, <1>7, <1>8, <1>9 DEF Shape

LEMMA AfterInserted ==
  ASSUME IInv, runInserted
  PROVE  IInv'
  <1>1. Shape
    BY DEF IInv
  <1>2. PICK R, ahead : Certificate(R, ahead)
    BY DEF IInv
  <1>3. PICK x : x = il[pc]
    OBVIOUS
  <1>4. /\ phase = "run" /\ pc <= Len(il) /\ x.of = 0
        /\ env' = IF x.op = "store" THEN env
                  ELSE [env EXCEPT ![x.dst[1]] = IF x.op = "load" THEN mem[x.slot] ELSE env[x.src[1]]]
        /\ mem' = IF x.op = "store" THEN [mem EXCEPT ![x.slot] = env[x.src[1]]] ELSE mem
        /\ pc' = pc + 1 /\ steps' = steps + 1
        /\ UNCHANGED <<prog, alloc>> /\ pc0' = pc0 /\ env0' = env0
    BY <1>3 DEF runInserted, Running, At
  <1>5. Shape'
    BY <1>1, <1>4, ShapeRunning
  <1>6. prog' = prog /\ il' = il /\ round' = round /\ stk_size' = stk_size /\ phase' = phase
    BY <1>4 DEF alloc
  <1>7. Holding(il, R, round, stk_size) /\ Certified(prog, il, R, ahead) /\ Agreeing(R, ahead)
    BY <1>2, <1>4 DEF Certificate
  <1>8. Len(il) \in Nat /\ DOMAIN il = 1..Len(il)
    BY <1>1, Items
  <1>9. pc \in 1..(Len(il) + 1) /\ pc \in DOMAIN il /\ pc + 1 \in 1..(Len(il) + 1)
    <2>1. pc \in 1..(Len(il) + 1)
      BY <1>7 DEF Agreeing
    <2> QED
      BY <1>4, <1>8, <2>1
  <1>10. env = [u \in Reg |-> env[u]] /\ env0 = [t \in Named |-> env0[t]] /\ mem = [s \in 1..stk_size |-> mem[s]]
    BY <1>7 DEF Agreeing
  <1>11. /\ env' = [u \in Reg |-> env'[u]] /\ mem' = [s \in 1..stk_size |-> mem'[s]]
         /\ x.jumps = {}
         /\ \A l \in RegPlace(stk_size) :
              valueAt(l)' = IF 1 \in DOMAIN written(x) /\ l = written(x)[1] THEN valueAt(read(x)) ELSE valueAt(l)
    BY <1>1, <1>3, <1>4, <1>9, <1>10, InsertedValues
  <1>12. pc0' = ahead[pc']
    <2>1. ahead[pc + 1] = ahead[pc]
      BY <1>3, <1>4, <1>7, <1>9 DEF Certified
    <2>2. pc0 = ahead[pc]
      BY <1>7 DEF Agreeing
    <2> QED
      BY <1>4, <2>1, <2>2
  <1>13. \A i \in DOMAIN il : \A l, t : <<l, t>> \in R[i] => l \in RegPlace(stk_size)
    BY <1>7 DEF Agreeing
  <1>14. ASSUME pc' \in DOMAIN il, NEW l, NEW t, <<l, t>> \in R[pc'], env0'[t] # Undefined
         PROVE  valueAt(l)' = env0'[t]
    <2>1. pc' \in follows(il, pc)
      BY <1>3, <1>4, <1>11, <1>14 DEF follows
    <2>2. Keeps(prog, x, l, t, R[pc])
      BY <1>3, <1>7, <1>9, <1>14, <2>1 DEF Certified
    <2>3. <<IF 1 \in DOMAIN written(x) /\ l = written(x)[1] THEN read(x) ELSE l, t>> \in R[pc]
      BY <1>4, <2>2 DEF Keeps, Pulled, carries
    <2>4. \A m, u : <<m, u>> \in R[pc] /\ env0[u] # Undefined => valueAt(m) = env0[u]
      BY <1>7, <1>9 DEF Agreeing
    <2>5. valueAt(IF 1 \in DOMAIN written(x) /\ l = written(x)[1] THEN read(x) ELSE l) = env0[t]
      BY <1>4, <1>14, <2>3, <2>4
    <2>6. l \in RegPlace(stk_size)
      BY <1>13, <1>14
    <2> QED
      BY <1>4, <1>11, <2>5, <2>6
  <1>15. Agreeing(R, ahead)'
    BY <1>4, <1>6, <1>9, <1>10, <1>11, <1>12, <1>13, <1>14 DEF Agreeing, RegPlace, Named
  <1>16. Certificate(R, ahead)'
    BY <1>6, <1>7, <1>15 DEF Certificate, Holding, Certified, Place, Temporary, Keeps, Pulled
  <1> QED
    BY <1>5, <1>16 DEF IInv

LEMMA AfterOriginal ==
  ASSUME IInv, runOriginal
  PROVE  IInv'
  <1>1. Shape
    BY DEF IInv
  <1>2. PICK R, ahead : Certificate(R, ahead)
    BY DEF IInv
  <1>3. PICK x, x0 : x = il[pc] /\ x0 = prog[x.of]
    OBVIOUS
  <1>4. phase = "run" /\ pc <= Len(il) /\ x.of # 0
    BY <1>3 DEF runOriginal, Running, At
  <1>5. Holding(il, R, round, stk_size) /\ Certified(prog, il, R, ahead) /\ Agreeing(R, ahead)
    BY <1>2, <1>4 DEF Certificate
  <1>6. Len(il) \in Nat /\ DOMAIN il = 1..Len(il)
    BY <1>1, Items
  <1>7. pc \in 1..(Len(il) + 1) /\ pc \in DOMAIN il /\ pc + 1 \in 1..(Len(il) + 1)
    <2>1. pc \in 1..(Len(il) + 1)
      BY <1>5 DEF Agreeing
    <2> QED
      BY <1>4, <1>6, <2>1
  <1>8. pc0 = ahead[pc] /\ x.of = ahead[pc] /\ ahead[pc + 1] = ahead[pc] + 1
    BY <1>3, <1>4, <1>5, <1>7 DEF Agreeing, Certified
  <1>9. /\ env' = IF x.gone THEN env
                  ELSE IF x0.op = "move" THEN assigned(env, x.dst, <<env[x.src[1]]>>)
                  ELSE assigned(env, x.dst, computed(x.of))
        /\ env0' = IF x0.op = "move" THEN assigned(env0, x0.dst, <<env0[x0.src[1]]>>)
                   ELSE assigned(env0, x0.dst, computed(x.of))
        /\ IF x0.jumps = {} THEN pc' = pc + 1 /\ pc0' = pc0 + 1
           ELSE \E i \in DOMAIN il : il[i].label \in x0.jumps /\ pc' = i /\ pc0' = il[i].of
        /\ steps' = steps + 1
        /\ UNCHANGED <<prog, alloc>> /\ mem' = mem
    <2>1. x.of = pc0
      BY <1>8
    <2> QED
      BY <1>3, <2>1 DEF runOriginal, At
  <1>10. Shape'
    BY <1>1, <1>4, <1>9, ShapeRunning
  <1>11. prog' = prog /\ il' = il /\ round' = round /\ stk_size' = stk_size /\ phase' = phase
    BY <1>9 DEF alloc
  <1>12. env = [u \in Reg |-> env[u]] /\ env0 = [t \in Named |-> env0[t]] /\ mem = [s \in 1..stk_size |-> mem[s]]
    BY <1>5 DEF Agreeing
  <1>13. /\ env' = [u \in Reg |-> env'[u]] /\ env0' = [t \in Named |-> env0'[t]]
         /\ \A l \in RegPlace(stk_size), t \in Named : \A Q :
              /\ Keeps(prog, x, l, t, Q)
              /\ \A m, u : <<m, u>> \in Q /\ env0[u] # Undefined => valueAt(m) = env0[u]
              /\ env0'[t] # Undefined
              => valueAt(l)' = env0'[t]
    BY <1>1, <1>3, <1>4, <1>7, <1>9, <1>12, OriginalValues
  <1>14. x0.jumps = x.jumps /\ x.jumps \subseteq Label
    <2>1. x \in Entry(round) /\ Fits(prog, x, stk_size)
      BY <1>1, <1>3, <1>7, Items
    <2> QED
      BY <1>3, <1>4, <2>1 DEF Fits, FitsOriginal, Entry
  <1>15. /\ pc' \in 1..(Len(il) + 1) /\ pc0' = ahead[pc']
         /\ pc' \in DOMAIN il => pc' \in follows(il, pc)
    <2>1. CASE x0.jumps = {}
      <3>1. pc' = pc + 1 /\ pc0' = pc0 + 1
        BY <1>9, <2>1
      <3> QED
        BY <1>3, <1>7, <1>8, <1>14, <2>1, <3>1 DEF follows
    <2>2. CASE x0.jumps # {}
      <3>1. PICK i \in DOMAIN il : il[i].label \in x0.jumps /\ pc' = i /\ pc0' = il[i].of
        BY <1>9, <2>2
      <3>2. il[i].label # NoLabel
        BY <1>14, <3>1, ProgramsAssumption
      <3>3. il[i].of # 0
        BY <1>1, <3>2, Items DEF Fits, FitsInserted
      <3>4. il[i].of = ahead[i]
        BY <1>5, <3>3 DEF Certified
      <3>5. i \in 1..(Len(il) + 1)
        BY <1>6
      <3> QED
        BY <1>3, <1>14, <2>2, <3>1, <3>4, <3>5 DEF follows
    <2> QED
      BY <2>1, <2>2
  <1>16. \A i \in DOMAIN il : \A l, t : <<l, t>> \in R[i] => l \in RegPlace(stk_size)
    BY <1>5 DEF Agreeing
  <1>17. ASSUME pc' \in DOMAIN il, NEW l, NEW t, <<l, t>> \in R[pc'], env0'[t] # Undefined
         PROVE  valueAt(l)' = env0'[t]
    <2>1. Keeps(prog, x, l, t, R[pc])
      BY <1>3, <1>5, <1>7, <1>15, <1>17 DEF Certified
    <2>2. \A m, u : <<m, u>> \in R[pc] /\ env0[u] # Undefined => valueAt(m) = env0[u]
      BY <1>5, <1>7 DEF Agreeing
    <2>3. l \in RegPlace(stk_size)
      BY <1>16, <1>17
    <2>4. t \in Named
      <3>1. R[pc'] \in SUBSET (Place(round, stk_size) \X Named)
        BY <1>5, <1>17 DEF Holding
      <3> HIDE DEF Named, Place
      <3> QED
        BY <1>17, <3>1
    <2>5. PICK Q : Q = R[pc]
      OBVIOUS
    <2> QED
      BY <1>13, <1>17, <2>1, <2>2, <2>3, <2>4, <2>5
  <1>18. Agreeing(R, ahead)'
    BY <1>9, <1>11, <1>12, <1>13, <1>15, <1>16, <1>17 DEF Agreeing, RegPlace, Named
  <1>19. Certificate(R, ahead)'
    BY <1>5, <1>11, <1>18 DEF Certificate, Holding, Certified, Place, Temporary, Keeps, Pulled
  <1> QED
    BY <1>10, <1>19 DEF IInv

LEMMA Stutters ==
  ASSUME IInv, UNCHANGED vars
  PROVE  IInv'
  <1>1. /\ prog' = prog /\ il' = il /\ isf' = isf /\ round' = round /\ stkmap' = stkmap
        /\ stk_size' = stk_size /\ phase' = phase /\ pc' = pc /\ env' = env /\ mem' = mem
        /\ pc0' = pc0 /\ env0' = env0 /\ steps' = steps
    BY DEF vars, alloc, machine
  <1>2. Shape'
    <2>1. Occurring' = Occurring
      BY <1>1 DEF Occurring, Temps
    <2>2. (il \in Seq(Entry(round)) /\ \A i \in DOMAIN il : Fits(prog, il[i], stk_size))'
      BY <1>1 DEF IInv, Shape, Entry, Temporary, Fits, FitsInserted, FitsOriginal
    <2>3. (/\ DOMAIN stkmap \subseteq Temporary(round) \ (Occurring \cup Reg)
           /\ ~ isf => \A u \in Occurring : isFloat(u) => u \in Reg
           /\ phase = "run" => Occurring \subseteq Reg)'
      BY <1>1, <2>1 DEF IInv, Shape, Temporary, isFloat
    <2> QED
      BY <1>1, <2>2, <2>3 DEF IInv, Shape, Named
  <1>3. PICK R, ahead : Certificate(R, ahead)
    BY DEF IInv
  <1>4. Certificate(R, ahead)'
    BY <1>1, <1>3 DEF Certificate, Holding, Certified, Place, Temporary, Keeps, Pulled,
                      Agreeing, RegPlace, Named, valueAt
  <1> QED
    BY <1>2, <1>4 DEF IInv

(* The next states when every placement that Allocation allows is tried,   *)
(* not only those of Placements.                                           *)
AllowedNext ==
  \/ phase = "allocate" /\ \E p : Allowed(p) /\ (RA_Spill(p) \/ transAsm(p))
  \/ runInserted
  \/ runOriginal

LEMMA Kept == IInv /\ [AllowedNext]_vars => IInv'
  <1> SUFFICES ASSUME IInv, [AllowedNext]_vars PROVE IInv'
    OBVIOUS
  <1>1. CASE phase = "allocate" /\ \E p : Allowed(p) /\ (RA_Spill(p) \/ transAsm(p))
    <2>1. PICK p : Allowed(p) /\ (RA_Spill(p) \/ transAsm(p))
      BY <1>1
    <2> QED
      BY <2>1, AfterSpill, AfterTurned
  <1>2. CASE runInserted
    BY <1>2, AfterInserted
  <1>3. CASE runOriginal
    BY <1>3, AfterOriginal
  <1>4. CASE UNCHANGED vars
    BY <1>4, Stutters
  <1> QED
    BY <1>1, <1>2, <1>3, <1>4 DEF AllowedNext

(* A certificate that is true of the values says that the operands agree.  *)
LEMMA CertificateAgrees ==
  ASSUME IInv
  PROVE  UsesAgree
  <1>1. Shape
    BY DEF IInv
  <1>2. RegistersOnly
    <2>1. phase = "run" => Occurring \subseteq Reg
      BY <1>1 DEF Shape
    <2> QED
      BY <2>1 DEF RegistersOnly, Occurring
  <1>3. ASSUME Running, At.of # 0
        PROVE  /\ pc0 = At.of
               /\ prog[pc0].op = "oper" =>
                    \A k \in DOMAIN prog[pc0].src :
                      env0[prog[pc0].src[k]] # Undefined => env[At.src[k]] = env0[prog[pc0].src[k]]
    <2>1. PICK R, ahead : Certificate(R, ahead)
      BY DEF IInv
    <2>2. Certified(prog, il, R, ahead) /\ Agreeing(R, ahead)
      BY <1>3, <2>1 DEF Certificate, Running
    <2>3. Len(il) \in Nat /\ DOMAIN il = 1..Len(il)
      BY <1>1, Items
    <2>4. pc \in DOMAIN il
      BY <1>3, <2>2, <2>3 DEF Agreeing, Running
    <2>5. PICK x : x = il[pc]
      OBVIOUS
    <2>6. At = x /\ x.of # 0
      BY <1>3, <2>5 DEF At
    <2>7. pc0 = x.of
      BY <2>2, <2>4, <2>5, <2>6 DEF Certified, Agreeing
    <2>8. ASSUME prog[pc0].op = "oper", NEW k \in DOMAIN prog[pc0].src, env0[prog[pc0].src[k]] # Undefined
          PROVE  env[x.src[k]] = env0[prog[pc0].src[k]]
      <3>1. Fits(prog, x, stk_size) /\ x.src \in Seq(Temporary(round))
        BY <1>1, <2>4, <2>5, Items
      <3>2. x.of \in DOMAIN prog /\ FitsOriginal(x, prog[x.of])
        BY <2>6, <3>1 DEF Fits
      <3>3. x.op = "oper" /\ ~ x.gone
        BY <2>7, <2>8, <3>2 DEF FitsOriginal
      <3>4. prog[x.of].src \in Seq(Named)
        BY <1>1, <3>2, Functions DEF Instruction, Named
      <3>5. Len(x.src) = Len(prog[x.of].src)
        BY <3>2, <3>3 DEF FitsOriginal
      <3>6. k \in DOMAIN x.src
        BY <2>7, <2>8, <3>1, <3>4, <3>5
      <3>7. <<temp(x.src[k]), prog[x.of].src[k]>> \in R[pc]
        BY <2>2, <2>4, <2>5, <2>6, <3>3, <3>6 DEF Certified
      <3>8. valueAt(temp(x.src[k])) = env0[prog[x.of].src[k]]
        BY <2>2, <2>4, <2>7, <2>8, <3>7 DEF Agreeing
      <3> QED
        BY <2>7, <3>8, ValueAt
    <2> QED
      BY <2>6, <2>7, <2>8
  <1> QED
    BY <1>2, <1>3 DEF UsesAgree

(* In every state there is a certificate: a relation, before every         *)
(* instruction, of registers and slots to the temporaries of the function  *)
(* as it was whose values they hold, which every round of allocation       *)
(* (RA::RA_RegAlloc) renames and every step of the two functions keeps     *)
(* true.                                                                   *)
THEOREM Invariance == Spec => []IInv
  <1>1. Init => IInv
    BY AtFirst
  <1>2. [Next]_vars => [AllowedNext]_vars
    BY DEF Next, AllowedNext
  <1> QED
    BY <1>1, <1>2, Kept, PTL DEF Spec

(* In every round that spills and in the last round of each bank, with the *)
(* placements that are tried: when allocation is done only registers are   *)
(* left and every operation finds in its registers what it found in its    *)
(* temporaries in the function as it was.                                  *)
THEOREM Agreement == Spec => []UsesAgree
  <1>1. IInv => UsesAgree
    BY CertificateAgrees
  <1> QED
    BY <1>1, Invariance, PTL

(* The same whichever placements Color returns (COL_Color), if they keep   *)
(* what interferes apart, and however many rounds spill.                   *)
THEOREM AnyPlacement == Init /\ [][AllowedNext]_vars => []UsesAgree
  <1>1. Init => IInv
    BY AtFirst
  <1>2. IInv => UsesAgree
    BY CertificateAgrees
  <1> QED
    BY <1>1, <1>2, Kept, PTL

=============================================================================
