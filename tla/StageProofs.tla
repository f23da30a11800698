---------------------------- MODULE StageProofs ----------------------------
(***************************************************************************)
(* Proofs about the stages of the compiler in Stages.                      *)
(*                                                                         *)
(* SymTable: what the table keeps of every name and binding, for any       *)
(* names, values and number of bindings, and that it is a stack of scopes. *)
(*                                                                         *)
(* FloatTemps: the worklist finds exactly what moves join to a float       *)
(* operation, under the invariant FInv.                                    *)
(*                                                                         *)
(* Tile: whatever the statements, instruction selection only emits         *)
(* instructions whose constants are in the ranges of their operands; one   *)
(* lemma for each function of tile.cpp that emits some.                    *)
(***************************************************************************)
EXTENDS Stages, FiniteSetTheorems, SequenceTheorems, TLAPS

-----------------------------------------------------------------------------
(* An instance has operators of its own for finite sets, which mean the    *)
(* same.                                                                   *)
LEMMA Finiteness == \A T : Table!Cardinality(T) = Cardinality(T)
  <1>1. \A T : Table!IsFiniteSet(T) <=> IsFiniteSet(T)
    BY DEF IsFiniteSet, Table!IsFiniteSet
  <1> QED
    BY <1>1 DEF Cardinality, Table!Cardinality

(* A binding left word of another one exactly if there was one below it.   *)
Recorded ==
  \A i \in DOMAIN v2 :
    /\ v2[i].had <=> v2[i].old # Absent
    /\ v2[i].had <=> \E j \in 1..(i - 1) : v2[j].key = v2[i].key

IInv == Table!TypeOK /\ Table!BoundIffOnStack /\ Recorded /\ Table!MarkAhead

LEMMA Initially ==
  ASSUME Table!Init
  PROVE  IInv
<1>1. /\ v1 = [k \in Table!Name |-> Absent] /\ v2 = << >> /\ v3 = FALSE
      /\ DOMAIN v2 = {}
  BY DEF Table!Init
<1>2. Table!TypeOK
  <2>1. v1 \in [Table!Name -> Value \cup {Absent}]
    BY <1>1
  <2>2. v2 \in Seq(Table!Bound)
    BY <1>1
  <2> QED BY <1>1, <2>1, <2>2 DEF Table!TypeOK
<1>3. Table!BoundIffOnStack
  BY <1>1 DEF Table!BoundIffOnStack
<1>4. Recorded
  BY <1>1 DEF Recorded
<1>5. Table!MarkAhead
  BY <1>1 DEF Table!MarkAhead
<1> QED BY <1>2, <1>3, <1>4, <1>5 DEF IInv

(* A name is bound: table::enter, of a name of the program or of the mark. *)
LEMMA BindKeeps ==
  ASSUME Table!SymAssumption, IInv, NEW k \in Table!Name, NEW v \in Value, Table!bind(k, v),
         ~ v3, UNCHANGED v3
  PROVE  IInv'
<1> DEFINE e == [key |-> k, old |-> v1[k], had |-> v1[k] # Absent]
<1>1. /\ v2 \in Seq(Table!Bound) /\ e \in Table!Bound
      /\ v2' = Append(v2, e) /\ v1' = [v1 EXCEPT ![k] = v]
      /\ v1 \in [Table!Name -> Value \cup {Absent}]
  BY DEF IInv, Table!TypeOK, Table!bind, Table!Bound
<1>2. /\ Len(v2') = Len(v2) + 1 /\ Len(v2) \in Nat
      /\ DOMAIN v2 = 1..Len(v2) /\ DOMAIN v2' = 1..(Len(v2) + 1)
      /\ \A i \in 1..Len(v2) : v2'[i] = v2[i]
      /\ v2'[Len(v2) + 1] = e
  BY <1>1
<1>3. Table!TypeOK'
  BY <1>1 DEF Table!TypeOK, IInv
<1>4. Table!BoundIffOnStack'
  <2> SUFFICES ASSUME NEW n \in Table!Name
               PROVE  v1'[n] # Absent <=> \E i \in DOMAIN v2' : v2'[i].key = n
    BY DEF Table!BoundIffOnStack
  <2>1. CASE n = k
    <3>1. v1'[n] # Absent
      BY <1>1, <2>1 DEF Table!SymAssumption
    <3>2. v2'[Len(v2) + 1].key = n /\ Len(v2) + 1 \in DOMAIN v2'
      BY <1>2, <2>1
    <3> QED BY <3>1, <3>2
  <2>2. CASE n # k
    <3>1. v1'[n] = v1[n]
      BY <1>1, <2>2
    <3>2. v1[n] # Absent <=> \E i \in 1..Len(v2) : v2[i].key = n
      BY <1>2 DEF IInv, Table!BoundIffOnStack
    <3>3. (\E i \in 1..Len(v2) : v2[i].key = n)
            <=> \E i \in 1..(Len(v2) + 1) : v2'[i].key = n
      BY <1>2, <2>2
    <3> QED BY <1>2, <3>1, <3>2, <3>3
  <2> QED BY <2>1, <2>2
<1>5. Recorded'
  <2> SUFFICES ASSUME NEW i \in 1..(Len(v2) + 1)
               PROVE  /\ v2'[i].had <=> v2'[i].old # Absent
                      /\ v2'[i].had <=> \E j \in 1..(i - 1) : v2'[j].key = v2'[i].key
    BY <1>2 DEF Recorded
  <2>1. CASE i \in 1..Len(v2)
    <3>1. /\ v2[i].had <=> v2[i].old # Absent
          /\ v2[i].had <=> \E j \in 1..(i - 1) : v2[j].key = v2[i].key
      BY <1>2, <2>1 DEF IInv, Recorded
    <3>2. \A j \in 1..(i - 1) : v2'[j] = v2[j]
      BY <1>2, <2>1
    <3> QED BY <1>2, <2>1, <3>1, <3>2
  <2>2. CASE i = Len(v2) + 1
    <3>1. v1[k] # Absent <=> \E j \in 1..Len(v2) : v2[j].key = k
      BY <1>2 DEF IInv, Table!BoundIffOnStack
    <3>2. \A j \in 1..(i - 1) : v2'[j].key = v2[j].key
      BY <1>2, <2>2
    <3>3. v2'[i].key = k /\ v2'[i].old = v1[k] /\ v2'[i].had = (v1[k] # Absent)
      <4>1. v2'[i] = e
        BY <1>2, <2>2
      <4> QED BY <4>1
    <3>4. 1..(i - 1) = 1..Len(v2)
      BY <1>2, <2>2
    <3> QED BY <3>1, <3>2, <3>3, <3>4
  <2> QED BY <1>2, <2>1, <2>2
<1>6. Table!MarkAhead'
  BY DEF Table!MarkAhead
<1> QED BY <1>3, <1>4, <1>5, <1>6 DEF IInv

(* A round of the loop in endScope.  There is a binding to undo because    *)
(* the mark is on the stack, and if the mark was not undone it still is.   *)
LEMMA PopKeeps ==
  ASSUME Table!SymAssumption, IInv, Table!pop
  PROVE  IInv'
<1> DEFINE n == Len(v2)
           e == v2[n]
<1>1. PICK m \in DOMAIN v2 : v2[m].key = Mark
  BY DEF IInv, Table!MarkAhead, Table!pop
<1>2. /\ n \in Nat \ {0} /\ DOMAIN v2 = 1..n /\ v2 \in Seq(Table!Bound) /\ m \in 1..n
      /\ v1 \in [Table!Name -> Value \cup {Absent}]
  BY <1>1 DEF IInv, Table!TypeOK
<1>3. e \in Table!Bound
  BY <1>2
<1>4. /\ e.key \in Table!Name /\ e.old \in Value \cup {Absent}
      /\ v2' = SubSeq(v2, 1, n - 1) /\ v3' = (e.key # Mark)
      /\ v1' = [v1 EXCEPT ![e.key] = IF e.had THEN e.old ELSE Absent]
  BY <1>3 DEF Table!pop, Table!undone, Table!Bound
<1>5. /\ v2' \in Seq(Table!Bound) /\ DOMAIN v2' = 1..(n - 1)
      /\ \A i \in 1..(n - 1) : v2'[i] = v2[i]
  BY <1>2, <1>4
<1>6. Table!TypeOK'
  BY <1>2, <1>4, <1>5 DEF Table!TypeOK
<1>7. /\ e.had <=> e.old # Absent
      /\ e.had <=> \E j \in 1..(n - 1) : v2[j].key = e.key
  BY <1>2 DEF IInv, Recorded
<1>8. Table!BoundIffOnStack'
  <2> SUFFICES ASSUME NEW k \in Table!Name
               PROVE  v1'[k] # Absent <=> \E i \in 1..(n - 1) : v2'[i].key = k
    BY <1>5 DEF Table!BoundIffOnStack
  <2>1. (\E i \in 1..(n - 1) : v2'[i].key = k) <=> \E i \in 1..(n - 1) : v2[i].key = k
    BY <1>5
  <2>2. CASE k = e.key
    <3>1. v1'[k] # Absent <=> e.had
      BY <1>2, <1>4, <1>7, <2>2
    <3> QED BY <1>7, <2>1, <2>2, <3>1
  <2>3. CASE k # e.key
    <3>1. v1'[k] = v1[k]
      BY <1>2, <1>4, <2>3
    <3>2. v1[k] # Absent <=> \E i \in 1..n : v2[i].key = k
      BY <1>2 DEF IInv, Table!BoundIffOnStack
    <3>3. (\E i \in 1..n : v2[i].key = k) <=> \E i \in 1..(n - 1) : v2[i].key = k
      BY <1>2, <2>3
    <3> QED BY <2>1, <3>1, <3>2, <3>3
  <2> QED BY <2>2, <2>3
<1>9. Recorded'
  <2> SUFFICES ASSUME NEW i \in 1..(n - 1)
               PROVE  /\ v2'[i].had <=> v2'[i].old # Absent
                      /\ v2'[i].had <=> \E j \in 1..(i - 1) : v2'[j].key = v2'[i].key
    BY <1>5 DEF Recorded
  <2>1. /\ v2[i].had <=> v2[i].old # Absent
        /\ v2[i].had <=> \E j \in 1..(i - 1) : v2[j].key = v2[i].key
    BY <1>2 DEF IInv, Recorded
  <2>2. v2'[i] = v2[i] /\ \A j \in 1..(i - 1) : v2'[j] = v2[j]
    BY <1>2, <1>5
  <2> QED BY <2>1, <2>2
<1>10. Table!MarkAhead'
  <2>1. ASSUME v3' PROVE m \in 1..(n - 1) /\ v2'[m].key = Mark
    <3>1. e.key # Mark
      BY <1>4, <2>1
    <3>2. m # n
      BY <1>1, <3>1
    <3>3. m \in 1..(n - 1)
      BY <1>2, <3>2
    <3> QED BY <1>1, <1>5, <3>3
  <2> QED BY <1>5, <2>1 DEF Table!MarkAhead
<1> QED BY <1>6, <1>8, <1>9, <1>10 DEF IInv

LEMMA StepKeeps ==
  ASSUME Table!SymAssumption, IInv, [Table!Next]_(Table!vars)
  PROVE  IInv'
<1>1. CASE Table!beginScope
  <2>1. PICK v \in Value : Table!bind(Mark, v)
    BY <1>1 DEF Table!beginScope
  <2>2. Mark \in Table!Name
    BY DEF Table!Name
  <2> QED BY <1>1, <2>1, <2>2, BindKeeps DEF Table!beginScope
<1>2. CASE Table!endScope
  BY <1>2 DEF Table!endScope, IInv, Table!TypeOK, Table!BoundIffOnStack, Recorded, Table!MarkAhead
<1>3. CASE Table!pop
  BY <1>3, PopKeeps
<1>4. ASSUME NEW k \in Key, NEW v \in Value, Table!enter(k, v) PROVE IInv'
  BY <1>4, BindKeeps DEF Table!enter, Table!Name
<1>5. CASE UNCHANGED Table!vars
  BY <1>5 DEF Table!vars, IInv, Table!TypeOK, Table!BoundIffOnStack, Recorded, Table!MarkAhead
<1> QED BY <1>1, <1>2, <1>3, <1>4, <1>5 DEF Table!Next

(* table.hpp: a name is bound exactly while a binding of it is on the      *)
(* stack, and while endScope undoes bindings the mark it is looking for is *)
(* still ahead.                                                            *)
THEOREM Bindings ==
  ASSUME Table!SymAssumption
  PROVE  Table!Spec => [](Table!TypeOK /\ Table!BoundIffOnStack /\ Table!MarkAhead)
<1>1. IInv /\ [Table!Next]_(Table!vars) => IInv'
  BY StepKeeps
<1>2. Table!Init => IInv
  BY Initially
<1>3. IInv => Table!TypeOK /\ Table!BoundIffOnStack /\ Table!MarkAhead
  BY DEF IInv
<1> QED BY <1>1, <1>2, <1>3, PTL DEF Table!Spec

-----------------------------------------------------------------------------
(* The same with the stack, the map and the set of marks as parameters, so *)
(* that what is shown of them holds before and after a step.               *)

Ups(s, k, m) == {i \in DOMAIN s : i > m /\ s[i].key = k}

isFirst(T, i) == i \in T /\ \A j \in T : i <= j

AtOf(s, mp, k, m) ==
  IF Ups(s, k, m) = {} THEN mp[k]
  ELSE s[CHOOSE i \in Ups(s, k, m) : \A j \in Ups(s, k, m) : i <= j].old

(* Of the bindings of a name above a place, one is the first.              *)
HasFirst(s) ==
  \A k \in Table!Name, m \in Nat : Ups(s, k, m) # {} => \E i : isFirst(Ups(s, k, m), i)

Rank(M, i) == Cardinality({j \in M : j <= i})
MarkIn(M, n) == CHOOSE i \in M : Rank(M, i) = n

MarksOf(s) == {i \in DOMAIN s : s[i].key = Mark}

(* Every scope that is open has a mark.                                    *)
Ranked(M) == \A n \in 1..Cardinality(M) : \E i \in M : Rank(M, i) = n

LEMMA AtFirst ==
  ASSUME NEW s \in Seq(Table!Bound), NEW mp, NEW k, NEW m, NEW i, isFirst(Ups(s, k, m), i)
  PROVE  AtOf(s, mp, k, m) = s[i].old
<1> DEFINE T == Ups(s, k, m)
           c == CHOOSE x \in T : \A j \in T : x <= j
<1>1. T \subseteq Int
  BY DEF Ups
<1>2. i \in T /\ \A j \in T : i <= j
  BY DEF isFirst
<1>3. c \in T /\ \A j \in T : c <= j
  BY <1>2
<1>4. c = i
  <2> HIDE DEF T, c
  <2> QED BY <1>1, <1>2, <1>3
<1> QED BY <1>2, <1>4 DEF AtOf

(* A binding that keeps what the name was does not change what any name    *)
(* was before it.                                                          *)
LEMMA Pushed ==
  ASSUME NEW s \in Seq(Table!Bound), NEW e \in Table!Bound, NEW mp, NEW mq,
         e.old = mp[e.key], \A q \in Table!Name : q # e.key => mq[q] = mp[q],
         HasFirst(s), NEW k \in Table!Name, NEW m \in 0..Len(s)
  PROVE  AtOf(Append(s, e), mq, k, m) = AtOf(s, mp, k, m)
<1> DEFINE t == Append(s, e)
           n == Len(s) + 1
<1>1. /\ t \in Seq(Table!Bound) /\ Len(s) \in Nat /\ DOMAIN s = 1..Len(s) /\ DOMAIN t = 1..n
      /\ t[n] = e /\ \A i \in 1..Len(s) : t[i] = s[i]
  OBVIOUS
<1> HIDE DEF t
<1>2. CASE k # e.key
  <2>1. Ups(t, k, m) = Ups(s, k, m)
    BY <1>1, <1>2 DEF Ups
  <2>2. CASE Ups(s, k, m) = {}
    BY <1>2, <2>1, <2>2 DEF AtOf, t
  <2>3. CASE Ups(s, k, m) # {}
    <3>1. PICK i : isFirst(Ups(s, k, m), i)
      BY <2>3 DEF HasFirst
    <3>2. AtOf(s, mp, k, m) = s[i].old
      BY <3>1, AtFirst
    <3>3. AtOf(t, mq, k, m) = t[i].old
      BY <1>1, <2>1, <3>1, AtFirst
    <3>4. t[i] = s[i]
      BY <1>1, <3>1 DEF isFirst, Ups
    <3> QED BY <3>2, <3>3, <3>4 DEF t
  <2> QED BY <2>2, <2>3
<1>3. CASE k = e.key
  <2>1. Ups(t, k, m) = Ups(s, k, m) \cup {n}
    BY <1>1, <1>3 DEF Ups
  <2>2. CASE Ups(s, k, m) = {}
    <3>1. isFirst(Ups(t, k, m), n)
      BY <1>1, <2>1, <2>2 DEF isFirst
    <3>2. AtOf(t, mq, k, m) = t[n].old
      BY <1>1, <3>1, AtFirst
    <3>3. AtOf(s, mp, k, m) = mp[k]
      BY <2>2 DEF AtOf
    <3> QED BY <1>1, <1>3, <3>2, <3>3 DEF t
  <2>3. CASE Ups(s, k, m) # {}
    <3>1. PICK i : isFirst(Ups(s, k, m), i)
      BY <2>3 DEF HasFirst
    <3>2. AtOf(s, mp, k, m) = s[i].old
      BY <3>1, AtFirst
    <3>3. i \in 1..Len(s)
      BY <1>1, <3>1 DEF isFirst, Ups
    <3>4. isFirst(Ups(t, k, m), i)
      BY <1>1, <2>1, <3>1, <3>3 DEF isFirst
    <3>5. AtOf(t, mq, k, m) = t[i].old
      BY <1>1, <3>4, AtFirst
    <3> QED BY <1>1, <3>2, <3>3, <3>5 DEF t
  <2> QED BY <2>2, <2>3
<1> QED BY <1>2, <1>3

LEMMA FirstPushed ==
  ASSUME NEW s \in Seq(Table!Bound), NEW e \in Table!Bound
  PROVE  HasFirst(s) <=> HasFirst(Append(s, e))
<1> DEFINE t == Append(s, e)
           n == Len(s) + 1
<1>1. /\ Len(s) \in Nat /\ DOMAIN s = 1..Len(s) /\ DOMAIN t = 1..n
      /\ t[n] = e /\ \A i \in 1..Len(s) : t[i] = s[i]
  OBVIOUS
<1> HIDE DEF t
<1> SUFFICES ASSUME NEW k \in Table!Name, NEW m \in Nat
             PROVE  (Ups(s, k, m) # {} => \E i : isFirst(Ups(s, k, m), i))
                      <=> (Ups(t, k, m) # {} => \E i : isFirst(Ups(t, k, m), i))
  BY DEF HasFirst, t
<1>2. Ups(s, k, m) \subseteq 1..Len(s)
  BY <1>1 DEF Ups
<1>3. CASE ~ (n > m /\ e.key = k)
  <2>1. Ups(t, k, m) = Ups(s, k, m)
    BY <1>1, <1>3 DEF Ups
  <2> QED BY <2>1
<1>4. CASE n > m /\ e.key = k
  <2>1. Ups(t, k, m) = Ups(s, k, m) \cup {n}
    BY <1>1, <1>4 DEF Ups
  <2>2. CASE Ups(s, k, m) = {}
    BY <1>1, <2>1, <2>2 DEF isFirst
  <2>3. CASE Ups(s, k, m) # {}
    <3>1. ASSUME NEW i, isFirst(Ups(s, k, m), i) PROVE isFirst(Ups(t, k, m), i)
      BY <1>1, <1>2, <2>1, <3>1 DEF isFirst
    <3>2. ASSUME NEW i, isFirst(Ups(t, k, m), i) PROVE isFirst(Ups(s, k, m), i)
      <4>1. PICK j : j \in Ups(s, k, m)
        BY <2>3
      <4>2. i # n
        BY <1>1, <1>2, <2>1, <3>2, <4>1 DEF isFirst
      <4> QED BY <2>1, <3>2, <4>2 DEF isFirst
    <3> QED BY <2>1, <2>3, <3>1, <3>2
  <2> QED BY <2>2, <2>3
<1> QED BY <1>3, <1>4

LEMMA UpToFinite ==
  ASSUME NEW n \in Nat, NEW M \in SUBSET (1..n)
  PROVE  /\ IsFiniteSet(M) /\ Cardinality(M) \in Nat
         /\ \A i \in M : i \in Int /\ 1 <= i /\ i <= n
<1>1. IsFiniteSet(1..n)
  <2>1. 1 \in Int /\ n \in Int
    OBVIOUS
  <2> QED BY <2>1, FS_Interval
<1>2. IsFiniteSet(M)
  BY <1>1, FS_Subset
<1>3. Cardinality(M) \in Nat
  BY <1>2, FS_CardinalityType
<1> QED BY <1>2, <1>3

(* No two marks have the same rank.                                        *)
LEMMA MarkAtRank ==
  ASSUME NEW n \in Nat, NEW M \in SUBSET (1..n), NEW i \in M
  PROVE  MarkIn(M, Rank(M, i)) = i
<1>1. IsFiniteSet(M) /\ \A j \in M : j \in Int
  BY UpToFinite
<1>2. ASSUME NEW a \in M, NEW b \in M, a < b PROVE Rank(M, a) # Rank(M, b)
  <2> DEFINE A == {j \in M : j <= a}
             B == {j \in M : j <= b}
  <2>1. IsFiniteSet(B)
    BY <1>1, FS_Subset
  <2>2. A \in SUBSET B
    <3>1. \A j \in M : j <= a => j <= b
      BY <1>1, <1>2
    <3> QED BY <3>1
  <2>3. b \in B /\ b \notin A
    BY <1>2
  <2>4. Cardinality(A) # Cardinality(B)
    <3> HIDE DEF A, B
    <3> QED BY <2>1, <2>2, <2>3, FS_Subset
  <2> QED BY <2>4 DEF Rank
<1>3. ASSUME NEW a \in M, Rank(M, a) = Rank(M, i) PROVE a = i
  BY <1>1, <1>2, <1>3
<1> QED BY <1>3 DEF MarkIn

(* The mark of a new scope comes after the others and leaves them theirs.  *)
LEMMA MarkPushed ==
  ASSUME NEW n \in Nat, NEW M \in SUBSET (1..n), NEW i
  PROVE  /\ Cardinality(M \cup {n + 1}) = Cardinality(M) + 1
         /\ i \in M => Rank(M \cup {n + 1}, i) = Rank(M, i)
         /\ Rank(M \cup {n + 1}, n + 1) = Cardinality(M) + 1
<1>1. /\ IsFiniteSet(M) /\ n + 1 \notin M
      /\ \A j \in M : j \in Int /\ j <= n
  BY UpToFinite
<1>2. Cardinality(M \cup {n + 1}) = Cardinality(M) + 1
  BY <1>1, FS_AddElement
<1>3. ASSUME i \in M PROVE Rank(M \cup {n + 1}, i) = Rank(M, i)
  <2>1. {j \in M \cup {n + 1} : j <= i} = {j \in M : j <= i}
    BY <1>1, <1>3
  <2> QED BY <2>1 DEF Rank
<1>4. {j \in M \cup {n + 1} : j <= n + 1} = M \cup {n + 1}
  <2>1. \A j \in M \cup {n + 1} : j <= n + 1
    BY <1>1
  <2> QED BY <2>1
<1> QED BY <1>2, <1>3, <1>4 DEF Rank

LEMMA RankedPushed ==
  ASSUME NEW n \in Nat, NEW M \in SUBSET (1..n)
  PROVE  Ranked(M) <=> Ranked(M \cup {n + 1})
<1> DEFINE N == M \cup {n + 1}
           c == Cardinality(M)
<1>1. /\ Cardinality(N) = c + 1 /\ Rank(N, n + 1) = c + 1 /\ n + 1 \in N
      /\ \A i \in M : Rank(N, i) = Rank(M, i)
  BY MarkPushed
<1>2. c \in Nat
  BY UpToFinite
<1>3. ASSUME Ranked(M), NEW k \in 1..(c + 1) PROVE \E i \in N : Rank(N, i) = k
  <2>1. CASE k = c + 1
    BY <1>1, <2>1
  <2>2. CASE k \in 1..c
    <3>1. PICK i \in M : Rank(M, i) = k
      BY <1>3, <2>2 DEF Ranked
    <3> QED BY <1>1, <3>1
  <2> QED BY <1>2, <2>1, <2>2
<1>4. ASSUME Ranked(N), NEW k \in 1..c PROVE \E i \in M : Rank(M, i) = k
  <2>1. k \in 1..Cardinality(N)
    BY <1>1, <1>2
  <2>2. PICK i \in N : Rank(N, i) = k
    BY <1>4, <2>1 DEF Ranked
  <2>3. i # n + 1
    BY <1>1, <1>2, <2>2
  <2>4. i \in M
    BY <2>3
  <2> QED BY <1>1, <2>2, <2>4
<1> HIDE DEF N
<1> QED BY <1>1, <1>3, <1>4 DEF Ranked, N

(* The scopes that are open keep their marks when one more is opened.      *)
LEMMA MarksKept ==
  ASSUME NEW n \in Nat, NEW M \in SUBSET (1..n), Ranked(M),
         NEW k \in 1..Cardinality(M)
  PROVE  MarkIn(M, k) \in M /\ MarkIn(M \cup {n + 1}, k) = MarkIn(M, k)
<1>1. PICK i \in M : Rank(M, i) = k
  BY DEF Ranked
<1>2. MarkIn(M, k) = i
  BY <1>1, MarkAtRank
<1>3. M \cup {n + 1} \in SUBSET (1..(n + 1)) /\ n + 1 \in Nat
  OBVIOUS
<1>4. MarkIn(M \cup {n + 1}, Rank(M \cup {n + 1}, i)) = i
  BY <1>3, MarkAtRank
<1> QED BY <1>1, <1>2, <1>4, MarkPushed

LEMMA LastMark ==
  ASSUME NEW n \in Nat, NEW M \in SUBSET (1..n)
  PROVE  MarkIn(M \cup {n + 1}, Cardinality(M) + 1) = n + 1
<1>1. M \cup {n + 1} \in SUBSET (1..(n + 1)) /\ n + 1 \in Nat
  OBVIOUS
<1>2. MarkIn(M \cup {n + 1}, Rank(M \cup {n + 1}, n + 1)) = n + 1
  BY <1>1, MarkAtRank
<1> QED BY <1>2, MarkPushed

LEMMA MarksAppended ==
  ASSUME NEW s \in Seq(Table!Bound), NEW e \in Table!Bound
  PROVE  MarksOf(Append(s, e)) =
           IF e.key = Mark THEN MarksOf(s) \cup {Len(s) + 1} ELSE MarksOf(s)
  BY DEF MarksOf

-----------------------------------------------------------------------------
(* The scopes that a stack and a map stand for.                            *)

EnvOf(s, mp, m) == [k \in Key |-> AtOf(s, mp, k, m)]

SavedOf(s, mp, c) == [n \in 1..c |-> EnvOf(s, mp, MarkIn(MarksOf(s), n) - 1)]

Env == IF v3 THEN Table!envAt(Table!mark(Table!Cardinality(Table!Marks)) - 1) ELSE Table!envAt(Len(v2))
Saved == [n \in 1..Table!Open |-> Table!envAt(Table!mark(n) - 1)]

LEMMA EnvIs ==
  /\ Env = IF v3 THEN EnvOf(v2, v1, MarkIn(MarksOf(v2), Cardinality(MarksOf(v2))) - 1)
           ELSE EnvOf(v2, v1, Len(v2))
  /\ Saved = SavedOf(v2, v1, IF v3 THEN Cardinality(MarksOf(v2)) - 1
                               ELSE Cardinality(MarksOf(v2)))
<1>1. \A n : Table!envAt(n) = EnvOf(v2, v1, n)
  BY DEF Table!envAt, Table!at, Table!Above, EnvOf, AtOf, Ups
<1>2. Table!Marks = MarksOf(v2) /\ \A n : Table!mark(n) = MarkIn(MarksOf(v2), n)
  <2>1. Table!Marks = MarksOf(v2)
    BY DEF Table!Marks, MarksOf
  <2> QED
    BY <2>1, Finiteness DEF Table!mark, MarkIn, Rank
<1>3. \A T : Table!Cardinality(T) = Cardinality(T)
  BY Finiteness
<1> QED BY <1>1, <1>2, <1>3 DEF Env, Saved, SavedOf, Table!Open

LEMMA EnvWillBe ==
  /\ Env' = IF v3' THEN EnvOf(v2', v1', MarkIn(MarksOf(v2'), Cardinality(MarksOf(v2'))) - 1)
            ELSE EnvOf(v2', v1', Len(v2'))
  /\ Saved' = SavedOf(v2', v1', IF v3' THEN Cardinality(MarksOf(v2')) - 1
                                  ELSE Cardinality(MarksOf(v2')))
<1>1. \A n : Table!envAt(n)' = EnvOf(v2', v1', n)
  BY DEF Table!envAt, Table!at, Table!Above, EnvOf, AtOf, Ups
<1>2. Table!Marks' = MarksOf(v2') /\ \A n : Table!mark(n)' = MarkIn(MarksOf(v2'), n)
  <2>1. Table!Marks' = MarksOf(v2')
    BY DEF Table!Marks, MarksOf
  <2> QED
    BY <2>1, Finiteness DEF Table!mark, MarkIn, Rank
<1>3. \A T : Table!Cardinality(T) = Cardinality(T)
  BY Finiteness
<1> QED BY <1>1, <1>2, <1>3 DEF Env, Saved, SavedOf, Table!Open

LEMMA EnvTop ==
  ASSUME NEW s \in Seq(Table!Bound), NEW mp
  PROVE  EnvOf(s, mp, Len(s)) = [k \in Key |-> mp[k]]
<1>1. \A k : Ups(s, k, Len(s)) = {}
  BY DEF Ups
<1> QED BY <1>1 DEF EnvOf, AtOf

LEMMA MarksOfType ==
  ASSUME NEW s \in Seq(Table!Bound)
  PROVE  Len(s) \in Nat /\ MarksOf(s) \in SUBSET (1..Len(s))
  BY DEF MarksOf

Tops(t, s, e) == t = Append(s, e)

(* A binding on top, and the map before and after it: what all names were  *)
(* before, and what the open scopes have saved, is the same.               *)
LEMMA ScopesBelow ==
  ASSUME NEW s \in Seq(Table!Bound), NEW e \in Table!Bound, NEW t, Tops(t, s, e), NEW mp, NEW mq,
         e.old = mp[e.key], \A q \in Table!Name : q # e.key => mq[q] = mp[q],
         HasFirst(s), Ranked(MarksOf(s))
  PROVE  /\ \A m \in 0..Len(s) : EnvOf(t, mq, m) = EnvOf(s, mp, m)
         /\ \A n \in 1..Cardinality(MarksOf(s)) :
              /\ MarkIn(MarksOf(s), n) - 1 \in 0..Len(s)
              /\ MarkIn(MarksOf(t), n) = MarkIn(MarksOf(s), n)
         /\ \A c \in Nat : c <= Cardinality(MarksOf(s)) =>
              SavedOf(t, mq, c) = SavedOf(s, mp, c)
<1> DEFINE M == MarksOf(s)
<1>1. ASSUME NEW m \in 0..Len(s) PROVE EnvOf(t, mq, m) = EnvOf(s, mp, m)
  <2>1. \A k \in Key : AtOf(t, mq, k, m) = AtOf(s, mp, k, m)
    <3> SUFFICES ASSUME NEW k \in Key PROVE AtOf(t, mq, k, m) = AtOf(s, mp, k, m)
      OBVIOUS
    <3>1. k \in Table!Name
      BY DEF Table!Name
    <3>2. t = Append(s, e)
      BY DEF Tops
    <3> QED
      BY <3>1, <3>2, Pushed
  <2> QED BY <2>1 DEF EnvOf
<1>2. ASSUME NEW n \in 1..Cardinality(M)
      PROVE  MarkIn(M, n) - 1 \in 0..Len(s) /\ MarkIn(MarksOf(t), n) = MarkIn(M, n)
  <2>1. Len(s) \in Nat /\ M \in SUBSET (1..Len(s))
    BY MarksOfType
  <2>2. MarkIn(M, n) \in M /\ MarkIn(M \cup {Len(s) + 1}, n) = MarkIn(M, n)
    <3> HIDE DEF M
    <3> QED BY <2>1, MarksKept DEF M
  <2>3. MarkIn(M, n) - 1 \in 0..Len(s)
    BY <2>1, <2>2
  <2> QED BY <2>2, <2>3, MarksAppended DEF Tops
<1>3. ASSUME NEW c \in Nat, c <= Cardinality(M) PROVE SavedOf(t, mq, c) = SavedOf(s, mp, c)
  <2>1. Cardinality(M) \in Nat
    BY MarksOfType, UpToFinite
  <2>2. \A n \in 1..c : n \in 1..Cardinality(M)
    BY <1>3, <2>1
  <2>3. \A n \in 1..c : EnvOf(t, mq, MarkIn(MarksOf(t), n) - 1) = EnvOf(s, mp, MarkIn(M, n) - 1)
    BY <1>1, <1>2, <2>2
  <2> QED BY <2>3 DEF SavedOf
<1> QED BY <1>1, <1>2, <1>3

-----------------------------------------------------------------------------
(* The table implements a stack of scopes.                                 *)

RInv == IInv /\ HasFirst(v2) /\ Ranked(MarksOf(v2))

LEMMA RankedAppended ==
  ASSUME NEW s \in Seq(Table!Bound), NEW e \in Table!Bound
  PROVE  Ranked(MarksOf(s)) <=> Ranked(MarksOf(Append(s, e)))
<1>1. Len(s) \in Nat /\ MarksOf(s) \in SUBSET (1..Len(s))
  BY MarksOfType
<1>2. Ranked(MarksOf(s)) <=> Ranked(MarksOf(s) \cup {Len(s) + 1})
  BY <1>1, RankedPushed
<1> QED BY <1>2, MarksAppended

(* What a binding adds, and what pop takes away.                           *)
LEMMA BindIs ==
  ASSUME IInv, NEW k \in Table!Name, NEW v \in Value, Table!bind(k, v)
  PROVE  \E e \in Table!Bound :
           /\ e.key = k /\ e.old = v1[e.key]
           /\ v2 \in Seq(Table!Bound) /\ v2' = Append(v2, e)
           /\ v1' = [v1 EXCEPT ![k] = v] /\ v1 \in [Table!Name -> Value \cup {Absent}]
<1> DEFINE e == [key |-> k, old |-> v1[k], had |-> v1[k] # Absent]
<1>1. e \in Table!Bound
  BY DEF IInv, Table!TypeOK, Table!Bound
<1> QED BY <1>1 DEF Table!bind, IInv, Table!TypeOK

LEMMA PopIs ==
  ASSUME IInv, Table!pop
  PROVE  \E e \in Table!Bound :
           /\ e.old = v1'[e.key] /\ \A q \in Table!Name : q # e.key => v1'[q] = v1[q]
           /\ v2' \in Seq(Table!Bound) /\ v2 = Append(v2', e)
           /\ v3 /\ v3' = (e.key # Mark)
<1> DEFINE n == Len(v2)
           e == v2[n]
<1>1. PICK m \in DOMAIN v2 : v2[m].key = Mark
  BY DEF IInv, Table!MarkAhead, Table!pop
<1>2. /\ n \in Nat \ {0} /\ DOMAIN v2 = 1..n /\ v2 \in Seq(Table!Bound)
      /\ v1 \in [Table!Name -> Value \cup {Absent}]
  BY <1>1 DEF IInv, Table!TypeOK
<1>3. e \in Table!Bound
  BY <1>2
<1>4. /\ e.key \in Table!Name /\ v2' = SubSeq(v2, 1, n - 1) /\ v3 /\ v3' = (e.key # Mark)
      /\ v1' = [v1 EXCEPT ![e.key] = IF e.had THEN e.old ELSE Absent]
  BY <1>3 DEF Table!pop, Table!undone, Table!Bound
<1>5. e.had <=> e.old # Absent
  BY <1>2 DEF IInv, Recorded
<1>6. v1'[e.key] = IF e.had THEN e.old ELSE Absent
  BY <1>2, <1>4
<1>7. e.old = v1'[e.key]
  BY <1>5, <1>6
<1>8. v2' \in Seq(Table!Bound) /\ v2 = Append(v2', e)
  BY <1>2, <1>4
<1>9. \A q \in Table!Name : q # e.key => v1'[q] = v1[q]
  BY <1>2, <1>4
<1> QED BY <1>3, <1>4, <1>7, <1>8, <1>9

LEMMA RStepKeeps ==
  ASSUME Table!SymAssumption, RInv, [Table!Next]_(Table!vars)
  PROVE  RInv'
<1>1. IInv'
  BY StepKeeps DEF RInv
<1>2. HasFirst(v2') /\ Ranked(MarksOf(v2'))
  <2>1. CASE v2' = v2
    BY <2>1 DEF RInv
  <2>2. ASSUME NEW k \in Table!Name, NEW v \in Value, Table!bind(k, v)
        PROVE  HasFirst(v2') /\ Ranked(MarksOf(v2'))
    BY <2>2, BindIs, FirstPushed, RankedAppended DEF RInv
  <2>3. CASE Table!pop
    <3>1. PICK e \in Table!Bound : v2' \in Seq(Table!Bound) /\ v2 = Append(v2', e)
      BY <2>3, PopIs DEF RInv
    <3>2. HasFirst(v2') <=> HasFirst(v2)
      BY <3>1, FirstPushed
    <3>3. Ranked(MarksOf(v2')) <=> Ranked(MarksOf(v2))
      BY <3>1, RankedAppended
    <3> QED BY <3>2, <3>3 DEF RInv
  <2> QED BY <2>1, <2>2, <2>3 DEF Table!Next, Table!vars, Table!beginScope, Table!endScope, Table!enter, Table!Name
<1>3. RInv' = (IInv' /\ HasFirst(v2') /\ Ranked(MarksOf(v2')))
  BY DEF RInv, HasFirst, Ranked, MarksOf, Ups, isFirst, Rank
<1> QED BY <1>1, <1>2, <1>3

LEMMA OpenCount ==
  ASSUME RInv
  PROVE  /\ v2 \in Seq(Table!Bound) /\ Len(v2) \in Nat
         /\ MarksOf(v2) \in SUBSET (1..Len(v2))
         /\ IsFiniteSet(MarksOf(v2)) /\ Cardinality(MarksOf(v2)) \in Nat
         /\ (\E i \in DOMAIN v2 : v2[i].key = Mark) => Cardinality(MarksOf(v2)) # 0
<1>1. v2 \in Seq(Table!Bound)
  BY DEF RInv, IInv, Table!TypeOK
<1>2. Len(v2) \in Nat /\ MarksOf(v2) \in SUBSET (1..Len(v2))
  BY <1>1, MarksOfType
<1>3. IsFiniteSet(MarksOf(v2)) /\ Cardinality(MarksOf(v2)) \in Nat
  BY <1>2, UpToFinite
<1>4. (\E i \in DOMAIN v2 : v2[i].key = Mark) => MarksOf(v2) # {}
  BY DEF MarksOf
<1> QED BY <1>1, <1>2, <1>3, <1>4, FS_EmptySet

LEMMA EnterRefines ==
  ASSUME Table!SymAssumption, RInv, NEW k \in Key, NEW v \in Value, Table!enter(k, v)
  PROVE  Env' = [Env EXCEPT ![k] = v] /\ Saved' = Saved
<1>1. PICK e \in Table!Bound :
        /\ e.key = k /\ e.old = v1[e.key]
        /\ v2 \in Seq(Table!Bound) /\ v2' = Append(v2, e)
        /\ v1' = [v1 EXCEPT ![k] = v] /\ v1 \in [Table!Name -> Value \cup {Absent}]
  BY BindIs DEF RInv, Table!enter, Table!Name
<1>2. /\ ~ v3 /\ ~ v3' /\ k # Mark
      /\ \A q \in Table!Name : q # e.key => v1'[q] = v1[q]
  BY <1>1 DEF Table!enter, Table!SymAssumption
<1>3. MarksOf(v2') = MarksOf(v2)
  BY <1>1, <1>2, MarksAppended
<1>4. Cardinality(MarksOf(v2)) \in Nat
  BY OpenCount
<1>5. SavedOf(v2', v1', Cardinality(MarksOf(v2))) = SavedOf(v2, v1, Cardinality(MarksOf(v2)))
  <2>1. HasFirst(v2) /\ Ranked(MarksOf(v2))
    BY DEF RInv
  <2>2. \A d \in Nat : d <= Cardinality(MarksOf(v2)) =>
          SavedOf(v2', v1', d) = SavedOf(v2, v1, d)
    <3>1. v2 \in Seq(Table!Bound) /\ e.old = v1[e.key] /\ Tops(v2', v2, e)
      BY <1>1 DEF Tops
    <3> QED BY <1>2, <2>1, <3>1, ScopesBelow
  <2> QED BY <1>4, <2>2
<1>6. Saved' = Saved
  BY <1>2, <1>3, <1>5, EnvIs, EnvWillBe
<1>7. v2' \in Seq(Table!Bound)
  BY <1>1
<1>8. Env = [q \in Key |-> v1[q]] /\ Env' = [q \in Key |-> v1'[q]]
  <2>1. EnvOf(v2, v1, Len(v2)) = [q \in Key |-> v1[q]]
    BY <1>1, EnvTop
  <2>2. EnvOf(v2', v1', Len(v2')) = [q \in Key |-> v1'[q]]
    BY <1>7, EnvTop
  <2>3. Env = EnvOf(v2, v1, Len(v2)) /\ Env' = EnvOf(v2', v1', Len(v2'))
    BY <1>2, EnvIs, EnvWillBe
  <2> QED BY <2>1, <2>2, <2>3
<1>9. [q \in Key |-> v1'[q]] = [[q \in Key |-> v1[q]] EXCEPT ![k] = v]
  BY <1>1 DEF Table!Name
<1> QED BY <1>6, <1>8, <1>9

LEMMA BeginRefines ==
  ASSUME Table!SymAssumption, RInv, Table!beginScope
  PROVE  Saved' = Append(Saved, Env) /\ Env' = Env
<1> DEFINE c == Cardinality(MarksOf(v2))
<1>1. PICK v \in Value : Table!bind(Mark, v)
  BY DEF Table!beginScope
<1>2. PICK e \in Table!Bound :
        /\ e.key = Mark /\ e.old = v1[e.key]
        /\ v2 \in Seq(Table!Bound) /\ v2' = Append(v2, e)
        /\ v1' = [v1 EXCEPT ![Mark] = v] /\ v1 \in [Table!Name -> Value \cup {Absent}]
  BY <1>1, BindIs DEF RInv, Table!Name
<1>3. /\ ~ v3 /\ ~ v3' /\ Mark \notin Key
      /\ \A q \in Table!Name : q # e.key => v1'[q] = v1[q]
  BY <1>2 DEF Table!beginScope, Table!SymAssumption
<1>4. /\ Len(v2) \in Nat /\ c \in Nat /\ MarksOf(v2) \in SUBSET (1..Len(v2))
      /\ MarksOf(v2') = MarksOf(v2) \cup {Len(v2) + 1}
  BY <1>2, OpenCount, MarksAppended
<1>5. Cardinality(MarksOf(v2')) = c + 1 /\ MarkIn(MarksOf(v2'), c + 1) = Len(v2) + 1
  BY <1>4, MarkPushed, LastMark
<1>6. /\ \A m \in 0..Len(v2) : EnvOf(v2', v1', m) = EnvOf(v2, v1, m)
      /\ SavedOf(v2', v1', c) = SavedOf(v2, v1, c)
  <2>1. HasFirst(v2) /\ Ranked(MarksOf(v2))
    BY DEF RInv
  <2>2. /\ \A m \in 0..Len(v2) : EnvOf(v2', v1', m) = EnvOf(v2, v1, m)
        /\ \A d \in Nat : d <= Cardinality(MarksOf(v2)) =>
             SavedOf(v2', v1', d) = SavedOf(v2, v1, d)
    <3>1. v2 \in Seq(Table!Bound) /\ e.old = v1[e.key] /\ Tops(v2', v2, e)
      BY <1>2 DEF Tops
    <3> QED BY <1>3, <2>1, <3>1, ScopesBelow
  <2>3. c \in Nat /\ c <= c
    BY <1>4
  <2> QED BY <2>2, <2>3
<1>7. v2' \in Seq(Table!Bound)
  BY <1>2
<1>8. /\ Env = EnvOf(v2, v1, Len(v2)) /\ Env = [q \in Key |-> v1[q]]
      /\ Env' = [q \in Key |-> v1'[q]]
  <2>1. EnvOf(v2, v1, Len(v2)) = [q \in Key |-> v1[q]]
    BY <1>2, EnvTop
  <2>2. EnvOf(v2', v1', Len(v2')) = [q \in Key |-> v1'[q]]
    BY <1>7, EnvTop
  <2>3. Env = EnvOf(v2, v1, Len(v2)) /\ Env' = EnvOf(v2', v1', Len(v2'))
    BY <1>3, EnvIs, EnvWillBe
  <2> QED BY <2>1, <2>2, <2>3
<1>9. Env' = Env
  <2>1. \A q \in Key : v1'[q] = v1[q]
    BY <1>2, <1>3 DEF Table!Name
  <2> QED BY <1>8, <2>1
<1>10. Saved = SavedOf(v2, v1, c) /\ Saved' = SavedOf(v2', v1', c + 1)
  BY <1>3, <1>5, EnvIs, EnvWillBe
<1>11. EnvOf(v2', v1', MarkIn(MarksOf(v2'), c + 1) - 1) = Env
  <2>1. MarkIn(MarksOf(v2'), c + 1) - 1 = Len(v2) /\ Len(v2) \in 0..Len(v2)
    BY <1>4, <1>5
  <2> QED BY <1>6, <1>8, <2>1
<1>12. SavedOf(v2', v1', c + 1) = Append(SavedOf(v2', v1', c), Env)
  <2> HIDE DEF c
  <2> QED BY <1>4, <1>11 DEF SavedOf
<1> QED BY <1>6, <1>9, <1>10, <1>12

LEMMA EndRefines ==
  ASSUME RInv, Table!endScope
  PROVE  /\ Saved # << >> /\ Env' = Saved[Len(Saved)]
         /\ Saved' = SubSeq(Saved, 1, Len(Saved) - 1)
<1> DEFINE c == Cardinality(MarksOf(v2))
<1>1. v2' = v2 /\ v1' = v1 /\ ~ v3 /\ v3' /\ c \in Nat \ {0}
  BY OpenCount DEF Table!endScope
<1>2. Saved = SavedOf(v2, v1, c) /\ Saved' = SavedOf(v2, v1, c - 1)
  BY <1>1, EnvIs, EnvWillBe
<1>3. Env' = EnvOf(v2, v1, MarkIn(MarksOf(v2), c) - 1)
  BY <1>1, EnvWillBe
<1> HIDE DEF c
<1>4. /\ SavedOf(v2, v1, c) # << >> /\ Len(SavedOf(v2, v1, c)) = c
      /\ SavedOf(v2, v1, c)[c] = EnvOf(v2, v1, MarkIn(MarksOf(v2), c) - 1)
      /\ SubSeq(SavedOf(v2, v1, c), 1, c - 1) = SavedOf(v2, v1, c - 1)
  BY <1>1 DEF SavedOf
<1> QED BY <1>2, <1>3, <1>4

LEMMA PopRefines ==
  ASSUME Table!SymAssumption, RInv, RInv', Table!pop
  PROVE  Env' = Env /\ Saved' = Saved
<1> DEFINE c == Cardinality(MarksOf(v2'))
<1>1. PICK e \in Table!Bound :
        /\ e.old = v1'[e.key] /\ \A q \in Table!Name : q # e.key => v1'[q] = v1[q]
        /\ v2' \in Seq(Table!Bound) /\ v2 = Append(v2', e)
        /\ v3 /\ v3' = (e.key # Mark)
  BY PopIs DEF RInv
<1>2. HasFirst(v2') /\ Ranked(MarksOf(v2'))
  <2>1. v2 \in Seq(Table!Bound)
    BY <1>1
  <2>2. HasFirst(v2) /\ Ranked(MarksOf(v2))
    BY DEF RInv
  <2> QED BY <1>1, <2>2, FirstPushed, RankedAppended
<1>3. Len(v2') \in Nat /\ MarksOf(v2') \in SUBSET (1..Len(v2')) /\ c \in Nat
  BY <1>1, MarksOfType, UpToFinite
<1>4. /\ \A m \in 0..Len(v2') : EnvOf(v2, v1, m) = EnvOf(v2', v1', m)
      /\ \A n \in 1..c : /\ MarkIn(MarksOf(v2'), n) - 1 \in 0..Len(v2')
                         /\ MarkIn(MarksOf(v2), n) = MarkIn(MarksOf(v2'), n)
      /\ \A d \in Nat : d <= c => SavedOf(v2, v1, d) = SavedOf(v2', v1', d)
  <2>1. /\ v2' \in Seq(Table!Bound) /\ e.old = v1'[e.key] /\ Tops(v2, v2', e)
        /\ \A q \in Table!Name : q # e.key => v1[q] = v1'[q]
    BY <1>1 DEF Tops
  <2> QED BY <1>2, <2>1, ScopesBelow
<1>5. CASE e.key # Mark
  <2>1. MarksOf(v2) = MarksOf(v2') /\ v3'
    BY <1>1, <1>5, MarksAppended
  <2>2. c # 0
    <3>1. Cardinality(MarksOf(v2)) # 0
      BY <1>1, OpenCount DEF RInv, IInv, Table!MarkAhead
    <3> QED BY <2>1, <3>1
  <2>3. c \in 1..c /\ c - 1 \in Nat /\ c - 1 <= c
    BY <1>3, <2>2
  <2>4. EnvOf(v2, v1, MarkIn(MarksOf(v2), c) - 1) = EnvOf(v2', v1', MarkIn(MarksOf(v2'), c) - 1)
    BY <1>4, <2>3
  <2>5. SavedOf(v2, v1, c - 1) = SavedOf(v2', v1', c - 1)
    BY <1>4, <2>3
  <2> QED BY <1>1, <2>1, <2>4, <2>5, EnvIs, EnvWillBe
<1>6. CASE e.key = Mark
  <2>1. MarksOf(v2) = MarksOf(v2') \cup {Len(v2') + 1} /\ ~ v3'
    BY <1>1, <1>6, MarksAppended
  <2>2. Cardinality(MarksOf(v2)) = c + 1 /\ MarkIn(MarksOf(v2), c + 1) = Len(v2') + 1
    BY <1>3, <2>1, MarkPushed, LastMark
  <2>3. MarkIn(MarksOf(v2), c + 1) - 1 = Len(v2') /\ Len(v2') \in 0..Len(v2') /\ c + 1 - 1 = c
    BY <1>3, <2>2
  <2>4. Env = EnvOf(v2', v1', Len(v2')) /\ Saved = SavedOf(v2, v1, c)
    <3>1. Cardinality(MarksOf(v2)) - 1 = c
      BY <1>3, <2>2
    <3>2. Env = EnvOf(v2, v1, Len(v2')) /\ Saved = SavedOf(v2, v1, c)
      BY <1>1, <2>2, <2>3, <3>1, EnvIs
    <3> QED BY <1>4, <2>3, <3>2
  <2>5. Env' = EnvOf(v2', v1', Len(v2')) /\ Saved' = SavedOf(v2', v1', c)
    BY <2>1, EnvWillBe
  <2>6. SavedOf(v2, v1, c) = SavedOf(v2', v1', c)
    BY <1>3, <1>4
  <2> QED BY <2>4, <2>5, <2>6
<1> QED BY <1>5, <1>6

LEMMA RInitially ==
  ASSUME Table!Init
  PROVE  RInv
<1>1. IInv
  BY Initially
<1>2. v2 = << >> /\ DOMAIN v2 = {}
  BY DEF Table!Init
<1>3. HasFirst(v2)
  BY <1>2 DEF HasFirst, Ups
<1>4. MarksOf(v2) = {}
  BY <1>2 DEF MarksOf
<1>5. Ranked(MarksOf(v2))
  BY <1>4, FS_EmptySet DEF Ranked
<1> QED BY <1>1, <1>3, <1>5 DEF RInv

LEMMA InitRefines ==
  ASSUME Table!Init
  PROVE  Env = [k \in Key |-> Absent] /\ Saved = << >>
<1>1. ~ v3 /\ v2 = << >> /\ DOMAIN v2 = {} /\ v1 = [k \in Table!Name |-> Absent]
  BY DEF Table!Init
<1>2. MarksOf(v2) = {} /\ Cardinality({}) = 0
  BY <1>1, FS_EmptySet DEF MarksOf
<1>3. v2 \in Seq(Table!Bound)
  BY <1>1
<1>4. Env = [k \in Key |-> v1[k]]
  <2>1. EnvOf(v2, v1, Len(v2)) = [k \in Key |-> v1[k]]
    BY <1>3, EnvTop
  <2>2. ~ v3
    BY <1>1
  <2>3. Env = EnvOf(v2, v1, Len(v2))
    BY <2>2, EnvIs
  <2> QED BY <2>1, <2>3
<1>5. \A k \in Key : v1[k] = Absent
  BY <1>1 DEF Table!Name
<1>6. Saved = SavedOf(v2, v1, 0)
  BY <1>1, <1>2, EnvIs
<1>7. SavedOf(v2, v1, 0) = << >>
  BY DEF SavedOf
<1> QED BY <1>4, <1>5, <1>6, <1>7

LEMMA StepRefines ==
  ASSUME Table!SymAssumption, RInv, RInv', [Table!Next]_(Table!vars)
  PROVE  [Table!S!Next]_(Table!S!vars)
<1>1. CASE Table!beginScope
  <2>1. Table!S!BeginScope
    BY <1>1, BeginRefines DEF Table!S!BeginScope, Env, Saved
  <2> QED BY <2>1 DEF Table!S!Next
<1>2. CASE Table!endScope
  <2>1. Table!S!EndScope
    BY <1>2, EndRefines DEF Table!S!EndScope, Env, Saved
  <2> QED BY <2>1 DEF Table!S!Next
<1>3. CASE Table!pop
  BY <1>3, PopRefines DEF Table!S!vars, Env, Saved
<1>4. ASSUME NEW k \in Key, NEW v \in Value, Table!enter(k, v) PROVE Table!S!Next
  <2>1. Table!S!Enter(k, v)
    BY <1>4, EnterRefines DEF Table!S!Enter, Env, Saved
  <2> QED BY <2>1 DEF Table!S!Next
<1>5. CASE UNCHANGED Table!vars
  BY <1>5 DEF Table!vars, Table!S!vars, Table!envAt, Table!at, Table!Above, Table!mark, Table!Marks, Table!Open
<1> QED BY <1>1, <1>2, <1>3, <1>4, <1>5 DEF Table!Next

(* table.hpp implements a stack of scopes: endScope, undoing bindings down *)
(* to its mark, leaves every name with what it meant when the scope was    *)
(* entered, however often it was bound since, in whatever inner scopes.    *)
THEOREM Refinement ==
  ASSUME Table!SymAssumption
  PROVE  Table!Spec => Table!Implements
<1>1. Table!Init => Table!S!Init
  BY InitRefines DEF Table!S!Init, Env, Saved
<1>2. RInv /\ RInv' /\ [Table!Next]_(Table!vars) => [Table!S!Next]_(Table!S!vars)
  BY StepRefines
<1>3. Table!Init => RInv
  BY RInitially
<1>4. RInv /\ [Table!Next]_(Table!vars) => RInv'
  BY RStepKeeps
<1> QED BY <1>1, <1>2, <1>3, <1>4, PTL DEF Table!Spec, Table!Implements, Table!S!Spec

(* The same as a property of each step, with what Bindings says of the     *)
(* state after it: enter, beginScope and every round of the loop of        *)
(* endScope do what they do to a stack of scopes or nothing to it, and     *)
(* leave the map and the stack of bindings in agreement.                   *)
THEOREM EveryStep ==
  ASSUME Table!SymAssumption
  PROVE  StagesSpec => ScopesKept
<1> DEFINE Kept == stage = "symbols" => RInv
<1>1. Begin => (stage = "symbols" => Table!S!Init) /\ Kept
  <2> SUFFICES ASSUME Begin, stage = "symbols" PROVE Table!S!Init /\ RInv
    OBVIOUS
  <2>1. Table!Init
    BY DEF Begin
  <2> QED
    BY <2>1, InitRefines, RInitially DEF Table!S!Init, Env, Saved
<1>2. Kept /\ [Step]_stageVars => Kept' /\ [stage = "symbols" => Table!ScopeStep]_stageVars
  <2> SUFFICES ASSUME Kept, [Step]_stageVars
               PROVE  Kept' /\ (stage = "symbols" => Table!ScopeStep)
    OBVIOUS
  <2>1. stage' = stage /\ (stage = "symbols" => [Table!Next]_(Table!vars))
    BY DEF Step, symbols, layout, floats, select, stageVars, upTo5, upTo3, Table!vars
  <2>2. CASE stage = "symbols"
    <3>1. RInv /\ [Table!Next]_(Table!vars)
      BY <2>1, <2>2
    <3>2. RInv'
      BY <3>1, RStepKeeps
    <3>3. Table!S!Next \/ UNCHANGED Table!S!vars
      BY <3>1, <3>2, StepRefines
    <3>4. Table!TypeOK' /\ Table!BoundIffOnStack' /\ Table!MarkAhead'
      BY <3>2 DEF RInv, IInv
    <3> QED
      BY <3>2, <3>3, <3>4 DEF Table!ScopeStep
  <2>3. CASE stage # "symbols"
    BY <2>1, <2>3
  <2> QED
    BY <2>2, <2>3
<1> QED
  BY <1>1, <1>2, PTL DEF StagesSpec, ScopesKept

-----------------------------------------------------------------------------
(* An instance has operators of its own for finite sets, which mean the    *)
(* same.                                                                   *)
LEMMA TempsFiniteness ==
  /\ \A S : Temps!IsFiniteSet(S) <=> IsFiniteSet(S)
  /\ \A S : Temps!Cardinality(S) = Cardinality(S)
  <1>1. \A S : Temps!IsFiniteSet(S) <=> IsFiniteSet(S)
    BY DEF IsFiniteSet, Temps!IsFiniteSet
  <1>2. \A S : Temps!Cardinality(S) = Cardinality(S)
    BY <1>1 DEF Cardinality, Temps!Cardinality
  <1> QED
    BY <1>1, <1>2

(* Temps!inOrder lists the elements of a finite set of numbers. *)
LEMMA InOrder ==
  ASSUME NEW S \in SUBSET Int, IsFiniteSet(S)
  PROVE  /\ Temps!inOrder(S) \in Seq(S) /\ Len(Temps!inOrder(S)) = Cardinality(S)
         /\ \A m \in S : \E i \in 1..Len(Temps!inOrder(S)) : Temps!inOrder(S)[i] = m
         /\ \A i, j \in 1..Len(Temps!inOrder(S)) : Temps!inOrder(S)[i] = Temps!inOrder(S)[j] => i = j
  <1> DEFINE below(m) == {n \in S : n < m}
             c == Cardinality(S)
             nth == [m \in S |-> Cardinality(below(m)) + 1]
  <1>1. c \in Nat
    BY FS_CardinalityType
  <1>2. ASSUME NEW m \in S
        PROVE  IsFiniteSet(below(m)) /\ Cardinality(below(m)) \in Nat /\ Cardinality(below(m)) < c
    <2>1. below(m) \in SUBSET (S \ {m}) /\ below(m) \in SUBSET S
      OBVIOUS
    <2>2. IsFiniteSet(S \ {m}) /\ Cardinality(S \ {m}) = c - 1
      BY FS_RemoveElement
    <2> HIDE DEF below, c
    <2>3. IsFiniteSet(below(m)) /\ Cardinality(below(m)) <= Cardinality(S \ {m})
      BY <2>1, <2>2, FS_Subset
    <2>4. Cardinality(below(m)) \in Nat
      BY <2>3, FS_CardinalityType
    <2> QED
      BY <2>2, <2>3, <2>4, <1>1
  <1>3. ASSUME NEW m \in S, NEW n \in S, m < n
        PROVE  Cardinality(below(m)) < Cardinality(below(n))
    <2>1. below(m) \cup {m} \in SUBSET below(n) /\ m \notin below(m)
      <3>1. S \subseteq Int /\ m \in Int /\ n \in Int /\ m < n BY <1>3
      <3>2. \A k \in below(m) \cup {m} : k \in below(n) BY <3>1
      <3>3. m \notin below(m) BY <3>1
      <3> QED BY <3>2, <3>3
    <2>2. IsFiniteSet(below(m)) /\ IsFiniteSet(below(n))
          /\ Cardinality(below(m)) \in Nat /\ Cardinality(below(n)) \in Nat
      BY <1>2
    <2> HIDE DEF below
    <2>3. Cardinality(below(m) \cup {m}) = Cardinality(below(m)) + 1
      BY <2>1, <2>2, FS_AddElement
    <2>4. Cardinality(below(m) \cup {m}) <= Cardinality(below(n))
      BY <2>1, <2>2, FS_Subset
    <2> QED
      BY <2>2, <2>3, <2>4
  <1>4. nth \in [S -> 1..c]
    <2>1. \A m \in S : Cardinality(below(m)) + 1 \in 1..c
      <3> HIDE DEF below, c
      <3> QED BY <1>1, <1>2
    <2> QED BY <2>1
  <1>5. \A m, n \in S : nth[m] = nth[n] => m = n
    <2> SUFFICES ASSUME NEW m \in S, NEW n \in S, m # n PROVE nth[m] # nth[n]
      OBVIOUS
    <2>1. Cardinality(below(m)) \in Nat /\ Cardinality(below(n)) \in Nat
      BY <1>2
    <2>2. Cardinality(below(m)) < Cardinality(below(n)) \/ Cardinality(below(n)) < Cardinality(below(m))
      <3>1. m \in Int /\ n \in Int OBVIOUS
      <3>2. m < n \/ n < m BY <3>1
      <3> QED BY <3>2, <1>3
    <2>3. nth[m] = Cardinality(below(m)) + 1 /\ nth[n] = Cardinality(below(n)) + 1
      OBVIOUS
    <2> HIDE DEF nth, below
    <2> QED BY <2>1, <2>2, <2>3
  <1>6. \A i \in 1..c : \E m \in S : nth[m] = i
    <2> HIDE DEF nth
    <2>1. nth \in Injection(S, 1..c)
      BY <1>4, <1>5 DEF Injection, IsInjective
    <2>2. IsFiniteSet(1..c) /\ Cardinality(1..c) = c
      <3>1. 1 \in Int /\ c \in Int /\ c >= 0 BY <1>1
      <3> QED BY <3>1, FS_Interval
    <2>3. nth \in Surjection(S, 1..c)
      BY <2>1, <2>2, FS_Injection
    <2> QED
      BY <2>3 DEF Surjection
  <1>7. \A i \in 1..c : Temps!inOrder(S)[i] \in S /\ nth[Temps!inOrder(S)[i]] = i
    <2> SUFFICES ASSUME NEW i \in 1..c PROVE Temps!inOrder(S)[i] \in S /\ nth[Temps!inOrder(S)[i]] = i
      OBVIOUS
    <2>1. Temps!inOrder(S)[i] = CHOOSE m \in S : Cardinality(below(m)) = i - 1
      BY TempsFiniteness, Zenon DEF Temps!inOrder
    <2>2. PICK m \in S : nth[m] = i
      BY <1>6
    <2>3. Cardinality(below(m)) = i - 1
      <3>1. Cardinality(below(m)) \in Nat /\ nth[m] = Cardinality(below(m)) + 1 BY <1>2
      <3> HIDE DEF below, nth
      <3> QED BY <3>1, <2>2
    <2>4. Temps!inOrder(S)[i] \in S /\ Cardinality(below(Temps!inOrder(S)[i])) = i - 1
      <3> HIDE DEF below
      <3> QED BY <2>1, <2>3
    <2>5. nth[Temps!inOrder(S)[i]] = Cardinality(below(Temps!inOrder(S)[i])) + 1
      BY <2>4
    <2> HIDE DEF nth, below
    <2> QED BY <2>4, <2>5
  <1>9. Temps!inOrder(S) \in Seq(S) /\ Len(Temps!inOrder(S)) = c
    <2>1. DOMAIN Temps!inOrder(S) = 1..c /\ Temps!inOrder(S) = [i \in DOMAIN Temps!inOrder(S) |-> Temps!inOrder(S)[i]]
      <3> DEFINE first(i) == CHOOSE m \in S : Temps!Cardinality({n \in S : n < m}) = i - 1
      <3>1. Temps!inOrder(S) = [i \in 1..Temps!Cardinality(S) |-> first(i)]
        BY Zenon DEF Temps!inOrder
      <3>2. Temps!Cardinality(S) = c
        BY TempsFiniteness
      <3> HIDE DEF first, c
      <3> QED
        BY <3>1, <3>2, Zenon
    <2> HIDE DEF nth, c
    <2>2. Temps!inOrder(S) \in [1..c -> S] BY <1>7, <2>1
    <2> QED BY <2>2, <1>1
  <1>10. ASSUME NEW m \in S PROVE \E i \in 1..c : Temps!inOrder(S)[i] = m
    <2>1. nth[m] \in 1..c BY <1>4
    <2>2. nth[Temps!inOrder(S)[nth[m]]] = nth[m] /\ Temps!inOrder(S)[nth[m]] \in S
      <3> HIDE DEF nth, c
      <3> QED BY <2>1, <1>7
    <2>3. Temps!inOrder(S)[nth[m]] = m
      <3> HIDE DEF nth, c
      <3> QED BY <2>2, <1>5
    <2> QED BY <2>1, <2>3
  <1>11. \A i, j \in 1..c : Temps!inOrder(S)[i] = Temps!inOrder(S)[j] => i = j
    <2> HIDE DEF nth, c
    <2> QED BY <1>7
  <1> QED
    BY <1>9, <1>10, <1>11

(* The invariant: what has been found is needed, whatever has been found   *)
(* and is not waiting has its neighbours found too.                        *)
Waiting == {v4[k] : k \in DOMAIN v4}

FInv ==
  /\ v5 \in {"start", "spread", "done"}
  /\ IsFiniteSet(v3) /\ v3 \subseteq {t \in Nat : t >= FirstTemp}
  /\ v4 \in Seq(v3)
  /\ v5 = "start" => Temps!Handed(v1) /\ v3 = {}
  /\ v5 = "spread" =>
       /\ Temps!Handed(v1)
       /\ v2 = Temps!moves
       /\ Temps!Needed \subseteq v3 /\ v3 \subseteq Temps!temps(v1)
       /\ \A T : Temps!Closed(T) => v3 \subseteq T
       /\ \A t \in v3 \ Waiting : \A u : <<t, u>> \in v2 => u \in v3
  /\ v5 = "done" => Temps!OneKind

LEMMA FloatsTouched ==
  ASSUME Temps!CodesAssumption, NEW s, Temps!Statement(s)
  PROVE  /\ Temps!floats(s) \subseteq ({s.def} \cup s.uses) \ {0}
         /\ Temps!floats(s) \subseteq {t \in Nat : t >= FirstTemp}
         /\ IsFiniteSet(Temps!floats(s))
  <1>1. Temps!floats(s) \subseteq ({s.def} \cup s.uses) \ {0}
    BY DEF Temps!floats
  <1>2. IsFiniteSet({s.def} \cup s.uses)
    BY TempsFiniteness, FS_Singleton, FS_Union DEF Temps!Statement
  <1>3. IsFiniteSet(Temps!floats(s))
    <2>1. Temps!floats(s) \subseteq {s.def} \cup s.uses
      BY <1>1
    <2> QED
      BY <1>2, <2>1, FS_Subset
  <1>4. ASSUME NEW t \in Temps!floats(s) PROVE t \in Nat /\ t >= FirstTemp
    <2>1. t \in Nat /\ t # 0
      BY <1>1, <1>4 DEF Temps!Statement
    <2>2. CASE s.op = "f2i"
      BY <2>1, <2>2, <1>4 DEF Temps!floats, Temps!Statement
    <2>3. CASE s.op = "i2f"
      BY <2>1, <2>3, <1>4 DEF Temps!floats, Temps!Statement
    <2>4. CASE s.op = "fbinop"
      BY <2>1, <2>4, <1>4 DEF Temps!floats, Temps!Statement
    <2>5. CASE s.op = "fcjump"
      BY <2>1, <2>5, <1>4 DEF Temps!floats, Temps!Statement
    <2> QED
      BY <2>2, <2>3, <2>4, <2>5, <1>4 DEF Temps!floats
  <1> QED
    BY <1>1, <1>3, <1>4

LEMMA MovesJoin ==
  ASSUME Temps!CodesAssumption, Temps!Handed(v1), NEW t, NEW u
  PROVE  <<t, u>> \in Temps!moves <=>
           \E s \in v1 : /\ Temps!isttmove(s) /\ \A x \in {s.def} \cup s.uses : x >= FirstTemp
                          /\ \/ t = s.def /\ u \in s.uses
                             \/ u = s.def /\ t \in s.uses
  <1>1. <<t, u>> \in Temps!moves <=>
          \E s \in v1 : Temps!isttmove(s) /\ \E x \in s.uses :
            s.def >= FirstTemp /\ x >= FirstTemp /\ <<t, u>> \in Temps!connected(s.def, x)
    BY DEF Temps!moves
  <1>2. ASSUME NEW s, NEW x
        PROVE  <<t, u>> \in Temps!connected(s.def, x) <=> (t = s.def /\ u = x) \/ (u = s.def /\ t = x)
    BY DEF Temps!connected
  <1>3. ASSUME NEW s \in v1, Temps!isttmove(s) PROVE \E u0 \in s.uses : s.uses = {u0}
    BY <1>3 DEF Temps!Handed, Temps!Statement, Temps!isttmove
  <1> HIDE DEF Temps!moves, Temps!connected
  <1>4. ASSUME NEW s \in v1, Temps!isttmove(s)
        PROVE  (\E x \in s.uses : s.def >= FirstTemp /\ x >= FirstTemp /\ <<t, u>> \in Temps!connected(s.def, x))
               <=> /\ \A x \in {s.def} \cup s.uses : x >= FirstTemp
                   /\ \/ t = s.def /\ u \in s.uses
                      \/ u = s.def /\ t \in s.uses
    BY <1>2, <1>3, <1>4
  <1> QED
    BY <1>1, <1>4

LEMMA NearMoves ==
  ASSUME Temps!CodesAssumption, Temps!Handed(v1), NEW T, NEW t \in T, NEW u, <<t, u>> \in Temps!moves
  PROVE  u \in Temps!near(T) /\ u \in Temps!temps(v1) /\ u \in Nat /\ u >= FirstTemp
  <1>1. PICK s \in v1 : /\ Temps!isttmove(s) /\ \A x \in {s.def} \cup s.uses : x >= FirstTemp
                         /\ t \in {s.def} \cup s.uses /\ u \in {s.def} \cup s.uses
    BY MovesJoin
  <1>2. u \in Temps!near(T)
    BY <1>1 DEF Temps!near
  <1>3. u \in Nat /\ u >= FirstTemp /\ u # 0
    <2>1. s.def \in Nat /\ s.uses \in SUBSET Nat
      BY DEF Temps!Handed, Temps!Statement
    <2>2. u \in Nat /\ u >= FirstTemp
      BY <1>1, <2>1
    <2> QED
      BY <2>2 DEF Temps!CodesAssumption
  <1>4. u \in Temps!temps(v1)
    BY <1>1, <1>3 DEF Temps!temps
  <1> QED
    BY <1>2, <1>3, <1>4

LEMMA NeededFound ==
  ASSUME Temps!CodesAssumption, Temps!Handed(v1)
  PROVE  /\ IsFiniteSet(Temps!Needed) /\ Temps!Needed \subseteq Temps!temps(v1)
         /\ Temps!Needed \subseteq {t \in Nat : t >= FirstTemp}
         /\ IsFiniteSet(Temps!temps(v1))
  <1>1. \A s \in v1 : Temps!Statement(s) /\ Temps!floats(s) \subseteq {t \in Nat : t >= FirstTemp}
                       /\ Temps!floats(s) \subseteq ({s.def} \cup s.uses) \ {0}
    BY FloatsTouched DEF Temps!Handed
  <1>2. Temps!Needed \subseteq Temps!temps(v1) /\ Temps!Needed \subseteq {t \in Nat : t >= FirstTemp}
    <2> HIDE DEF Temps!floats
    <2> SUFFICES ASSUME NEW t \in Temps!Needed
                 PROVE  t \in Temps!temps(v1) /\ t \in {x \in Nat : x >= FirstTemp}
      OBVIOUS
    <2>1. PICK s \in v1 : t \in Temps!floats(s)
      BY DEF Temps!Needed
    <2>2. t \in ({s.def} \cup s.uses) \ {0} /\ t \in {x \in Nat : x >= FirstTemp}
      BY <1>1, <2>1
    <2> QED
      BY <2>2 DEF Temps!temps
  <1>3. IsFiniteSet(Temps!temps(v1))
    <2> DEFINE touched(s) == {s.def} \cup s.uses
               all == {touched(s) : s \in v1}
    <2>1. IsFiniteSet(all)
      <3> DEFINE f == [s \in v1 |-> touched(s)]
      <3>1. f \in Surjection(v1, all)
        BY DEF Surjection
      <3>2. IsFiniteSet(v1)
        BY TempsFiniteness DEF Temps!Handed
      <3> HIDE DEF f, all
      <3> QED
        BY <3>1, <3>2, FS_Surjection
    <2>2. \A s \in v1 : IsFiniteSet(touched(s))
      BY <1>1, TempsFiniteness, FS_Singleton, FS_Union DEF Temps!Statement
    <2>3. IsFiniteSet(UNION all)
      BY <2>1, <2>2, FS_UNION
    <2>4. Temps!temps(v1) \subseteq UNION all
      BY DEF Temps!temps
    <2> QED
      BY <2>3, <2>4, FS_Subset
  <1> QED
    BY <1>2, <1>3, FS_Subset

LEMMA FStart == ASSUME Temps!CodesAssumption, Temps!Init PROVE FInv
  <1>1. Temps!Handed(v1) /\ v2 = {} /\ v3 = {} /\ v4 = << >> /\ v5 = "start"
    BY DEF Temps!Init, Temps!InitWith, Temps!CodesAssumption
  <1>2. IsFiniteSet({})
    BY FS_EmptySet
  <1> QED
    BY <1>1, <1>2 DEF FInv

LEMMA FCollect == ASSUME Temps!CodesAssumption, FInv, Temps!collect PROVE FInv'
  <1>1. v5 = "start" /\ Temps!Handed(v1) /\ v2' = Temps!moves /\ v3' = Temps!Needed
        /\ v4' = Temps!inOrder(Temps!Needed) /\ v5' = "spread" /\ v1' = v1
    BY DEF FInv, Temps!collect, Temps!Needed
  <1>2. IsFiniteSet(Temps!Needed) /\ Temps!Needed \subseteq Temps!temps(v1)
        /\ Temps!Needed \subseteq {t \in Nat : t >= FirstTemp}
    BY <1>1, NeededFound
  <1>3. Temps!Needed \in SUBSET Int
    BY <1>2
  <1>4. v4' \in Seq(v3') /\ \A m \in v3' : \E i \in DOMAIN v4' : v4'[i] = m
    <2>1. Temps!inOrder(Temps!Needed) \in Seq(Temps!Needed)
          /\ \A m \in Temps!Needed : \E i \in 1..Len(Temps!inOrder(Temps!Needed)) : Temps!inOrder(Temps!Needed)[i] = m
      BY <1>2, <1>3, InOrder
    <2>2. DOMAIN Temps!inOrder(Temps!Needed) = 1..Len(Temps!inOrder(Temps!Needed))
      BY <2>1
    <2> QED
      BY <1>1, <2>1, <2>2
  <1>5. Temps!Handed(v1)' /\ Temps!moves' = Temps!moves /\ Temps!Needed' = Temps!Needed /\ Temps!temps(v1)' = Temps!temps(v1)
        /\ \A T : Temps!Closed(T)' = Temps!Closed(T)
    BY <1>1 DEF Temps!moves, Temps!Needed, Temps!Closed, Temps!near
  <1>6. \A T : Temps!Closed(T) => Temps!Needed \subseteq T
    BY DEF Temps!Closed
  <1> HIDE DEF Temps!Needed, Temps!moves, Temps!Closed, Temps!Handed, Temps!temps
  <1>7. v3' \ Waiting' = {}
    BY <1>4 DEF Waiting
  <1> QED
    BY <1>1, <1>2, <1>4, <1>5, <1>6, <1>7 DEF FInv

LEMMA FSpread == ASSUME Temps!CodesAssumption, FInv, Temps!spread PROVE FInv'
  <1> DEFINE t == Head(v4)
             new == {u \in Temps!temps(v1) : <<t, u>> \in v2} \ v3
  <1>1. v5 = "spread" /\ v4 # << >> /\ v3' = v3 \cup new
        /\ v4' = Tail(v4) \o Temps!inOrder(new) /\ UNCHANGED <<v1, v2, v5>>
    BY DEF Temps!spread
  <1>2. /\ Temps!Handed(v1) /\ v2 = Temps!moves
        /\ Temps!Needed \subseteq v3 /\ v3 \subseteq Temps!temps(v1)
        /\ \A T : Temps!Closed(T) => v3 \subseteq T
        /\ \A x \in v3 \ Waiting : \A u : <<x, u>> \in v2 => u \in v3
        /\ IsFiniteSet(v3) /\ v3 \subseteq {x \in Nat : x >= FirstTemp}
        /\ v4 \in Seq(v3)
    BY <1>1 DEF FInv
  <1>3. t \in v3
    BY <1>1, <1>2
  <1>4. IsFiniteSet(new) /\ new \subseteq Temps!temps(v1) /\ new \subseteq {x \in Nat : x >= FirstTemp}
    <2>1. IsFiniteSet(Temps!temps(v1))
      BY <1>2, NeededFound
    <2>2. \A u \in new : u \in Nat /\ u >= FirstTemp
      BY <1>2, <1>3, NearMoves
    <2> QED
      BY <2>1, <2>2, FS_Subset
  <1>5. \A T : Temps!Closed(T) => new \subseteq T
    <2> SUFFICES ASSUME NEW T, Temps!Closed(T), NEW u \in new PROVE u \in T
      OBVIOUS
    <2>1. t \in T
      BY <1>2, <1>3
    <2>2. u \in Temps!near(T)
      BY <1>2, <2>1, NearMoves
    <2> QED
      BY <2>2 DEF Temps!Closed
  <1>6. Temps!inOrder(new) \in Seq(new) /\ \A m \in new : \E i \in 1..Len(Temps!inOrder(new)) : Temps!inOrder(new)[i] = m
    <2>1. new \in SUBSET Int
      BY <1>4
    <2> HIDE DEF new
    <2> QED
      BY <1>4, <2>1, InOrder
  <1>7. \A u : <<t, u>> \in v2 => u \in v3'
    BY <1>1, <1>2, <1>3, NearMoves
  <1> HIDE DEF new, t
  <1>8. /\ v4' \in Seq(v3')
        /\ \A x \in Waiting : x = t \/ x \in Waiting'
        /\ \A x \in new : x \in Waiting'
    <2> DEFINE rest == Tail(v4)
               more == Temps!inOrder(new)
    <2>1. rest \in Seq(v3') /\ more \in Seq(v3') /\ Len(v4) \in Nat \ {0}
          /\ Len(rest) = Len(v4) - 1 /\ DOMAIN v4 = 1..Len(v4)
          /\ \A i \in 1..(Len(v4) - 1) : rest[i] = v4[i + 1]
      BY <1>1, <1>2, <1>6
    <2>2. v4' = rest \o more
      BY <1>1
    <2> HIDE DEF rest, more
    <2>3. /\ v4' \in Seq(v3') /\ DOMAIN v4' = 1..(Len(rest) + Len(more))
          /\ Len(rest) \in Nat /\ Len(more) \in Nat
          /\ \A i \in 1..Len(rest) : v4'[i] = rest[i]
          /\ \A i \in 1..Len(more) : v4'[Len(rest) + i] = more[i]
      <3>1. /\ v4' \in Seq(v3') /\ Len(v4') = Len(rest) + Len(more)
            /\ \A i \in 1..(Len(rest) + Len(more)) :
                 v4'[i] = IF i <= Len(rest) THEN rest[i] ELSE more[i - Len(rest)]
        BY <2>1, <2>2, ConcatProperties
      <3>2. Len(rest) \in Nat /\ Len(more) \in Nat
        BY <2>1
      <3>3. DOMAIN v4' = 1..(Len(rest) + Len(more))
        BY <3>1
      <3>4. ASSUME NEW i \in 1..Len(more) PROVE v4'[Len(rest) + i] = more[i]
        <4>1. /\ Len(rest) + i \in 1..(Len(rest) + Len(more)) /\ ~ (Len(rest) + i <= Len(rest))
              /\ (Len(rest) + i) - Len(rest) = i
          BY <3>2
        <4> QED
          BY <3>1, <4>1
      <3>5. ASSUME NEW i \in 1..Len(rest) PROVE v4'[i] = rest[i]
        <4>1. i \in 1..(Len(rest) + Len(more)) /\ i <= Len(rest)
          BY <3>2
        <4> QED
          BY <3>1, <4>1
      <3> QED
        BY <3>1, <3>2, <3>3, <3>4, <3>5
    <2>4. ASSUME NEW x \in Waiting PROVE x = t \/ x \in Waiting'
      <3>1. PICK k \in 1..Len(v4) : x = v4[k]
        BY <2>1 DEF Waiting
      <3>2. CASE k = 1
        BY <3>1, <3>2, <1>1, <1>2 DEF t
      <3>3. CASE k # 1
        <4>1. k - 1 \in 1..Len(rest) /\ rest[k - 1] = x /\ k - 1 \in DOMAIN v4'
          BY <3>1, <3>3, <2>1, <2>3
        <4> QED
          BY <4>1, <2>3 DEF Waiting
      <3> QED
        BY <3>2, <3>3
    <2>5. ASSUME NEW x \in new PROVE x \in Waiting'
      <3>1. PICK i \in 1..Len(more) : more[i] = x
        BY <1>6 DEF more
      <3>2. Len(rest) + i \in DOMAIN v4' /\ v4'[Len(rest) + i] = x
        BY <3>1, <2>3
      <3> QED
        BY <3>2 DEF Waiting
    <2> QED
      BY <2>3, <2>4, <2>5
  <1>9. IsFiniteSet(v3')
    BY <1>1, <1>2, <1>4, FS_Union
  <1>10. Temps!Handed(v1)' /\ Temps!moves' = Temps!moves /\ Temps!Needed' = Temps!Needed /\ Temps!temps(v1)' = Temps!temps(v1)
         /\ \A T : Temps!Closed(T)' = Temps!Closed(T)
    BY <1>1, <1>2 DEF Temps!moves, Temps!Needed, Temps!Closed, Temps!near
  <1> HIDE DEF Temps!Needed, Temps!moves, Temps!Closed, Temps!Handed, Temps!temps
  <1>11. \A x \in v3' \ Waiting' : \A u : <<x, u>> \in v2' => u \in v3'
    BY <1>1, <1>2, <1>7, <1>8
  <1> QED
    BY <1>1, <1>2, <1>4, <1>5, <1>8, <1>9, <1>10, <1>11 DEF FInv

LEMMA FMark == ASSUME Temps!CodesAssumption, FInv, Temps!mark PROVE FInv'
  <1>1. v5 = "spread" /\ v4 = << >> /\ v1' = {Temps!marked(s) : s \in v1} /\ v5' = "done"
        /\ UNCHANGED <<v2, v3, v4>>
    BY DEF Temps!mark
  <1>2. /\ Temps!Handed(v1) /\ v2 = Temps!moves /\ Temps!Needed \subseteq v3
        /\ v3 \subseteq {x \in Nat : x >= FirstTemp}
        /\ \A x \in v3 : \A u : <<x, u>> \in Temps!moves => u \in v3
    BY <1>1 DEF FInv, Waiting
  <1> DEFINE m(x) == IF x \in v3 THEN -x - 1 ELSE x
  <1>3. FirstTemp \in Nat \ {0}
    BY DEF Temps!CodesAssumption
  <1>4. \A x \in Nat : /\ m(x) < 0 <=> x \in v3
                       /\ m(x) >= FirstTemp => x \notin v3 /\ m(x) = x
                       /\ m(x) \in Int
    BY <1>2, <1>3
  <1>5. Temps!OneKind'
    <2> SUFFICES ASSUME NEW r \in v1'
                 PROVE  /\ Temps!isttmove(r) => \A u \in r.uses :
                             (r.def < 0 \/ r.def >= FirstTemp) /\ (u < 0 \/ u >= FirstTemp)
                               => (r.def < 0 <=> u < 0)
                        /\ \A x \in Temps!floats(r) : x < 0
      BY DEF Temps!OneKind
    <2>1. PICK s \in v1 : r = Temps!marked(s)
      BY <1>1
    <2>2. Temps!Statement(s) /\ s.def \in Nat /\ s.uses \in SUBSET Nat
      BY <1>2 DEF Temps!Handed, Temps!Statement
    <2>3. r.op = s.op /\ r.def = m(s.def) /\ r.uses = {m(x) : x \in s.uses}
      <3>1. s = [op |-> s.op, def |-> s.def, uses |-> s.uses]
        BY <2>2 DEF Temps!Statement
      <3>2. Temps!marked(s) = [[s EXCEPT !.def = m(@)] EXCEPT !.uses = {m(x) : x \in @}]
        BY DEF Temps!marked
      <3> HIDE DEF m
      <3> QED
        BY <2>1, <3>1, <3>2
    <2> HIDE DEF m
    <2>4. ASSUME Temps!isttmove(r), NEW u \in r.uses,
                 r.def < 0 \/ r.def >= FirstTemp, u < 0 \/ u >= FirstTemp
          PROVE  r.def < 0 <=> u < 0
      <3>1. Temps!isttmove(s)
        BY <2>3, <2>4 DEF Temps!isttmove
      <3>2. PICK x \in s.uses : u = m(x) /\ s.uses = {x}
        <4>1. PICK x \in s.uses : u = m(x)
          BY <2>3, <2>4
        <4> QED
          BY <4>1, <2>2, <3>1 DEF Temps!Statement, Temps!isttmove
      <3>3. x \in Nat /\ s.def \in Nat
        BY <2>2
      <3>4. s.def >= FirstTemp /\ x >= FirstTemp
        BY <1>2, <1>4, <2>3, <2>4, <3>2, <3>3
      <3>5. <<s.def, x>> \in Temps!moves /\ <<x, s.def>> \in Temps!moves
        BY <1>2, <3>1, <3>2, <3>4, MovesJoin
      <3>6. s.def \in v3 <=> x \in v3
        BY <1>2, <3>5
      <3> QED
        BY <1>4, <2>3, <3>2, <3>3, <3>6
    <2>5. ASSUME NEW x \in Temps!floats(r) PROVE x < 0
      <3>1. x # 0 /\ \E y \in Temps!floats(s) \cup {0} : x = m(y)
        <4>1. m(0) = 0
          BY <1>2, <1>3 DEF m
        <4>2. CASE r.op = "f2i"
          BY <2>3, <2>5, <4>1, <4>2 DEF Temps!floats
        <4>3. CASE r.op = "i2f"
          BY <2>3, <2>5, <4>1, <4>3 DEF Temps!floats
        <4>4. CASE r.op = "fbinop"
          BY <2>3, <2>5, <4>1, <4>4 DEF Temps!floats
        <4>5. CASE r.op = "fcjump"
          BY <2>3, <2>5, <4>1, <4>5 DEF Temps!floats
        <4> QED
          BY <4>2, <4>3, <4>4, <4>5, <2>5 DEF Temps!floats
      <3>2. PICK y \in Temps!floats(s) \cup {0} : x = m(y)
        BY <3>1
      <3>3. y # 0
        BY <3>1, <3>2, <1>2, <1>3 DEF m
      <3>4. y \in v3
        BY <3>2, <3>3, <1>2 DEF Temps!Needed
      <3> QED
        BY <3>2, <3>4, <1>2, <1>4
    <2> QED
      BY <2>4, <2>5
  <1> QED
    BY <1>1, <1>5 DEF FInv

LEMMA FKept == ASSUME Temps!CodesAssumption, FInv, [Temps!Next]_(Temps!vars) PROVE FInv'
  <1>1. CASE Temps!collect
    BY <1>1, FCollect
  <1>2. CASE Temps!spread
    BY <1>2, FSpread
  <1>3. CASE Temps!mark
    BY <1>3, FMark
  <1>4. CASE UNCHANGED Temps!vars
    <2>1. UNCHANGED <<v1, v2, v3, v4, v5>>
      BY <1>4 DEF Temps!vars
    <2> QED
      BY <2>1 DEF FInv, Temps!Handed, Temps!Statement, Temps!moves, Temps!Needed, Temps!Closed, Temps!near, Temps!OneKind, Waiting
  <1> QED
    BY <1>1, <1>2, <1>3, <1>4 DEF Temps!Next

LEMMA FFollows == ASSUME Temps!CodesAssumption, FInv PROVE Temps!FloatsExact
  <1>1. Temps!TypeOK
    BY DEF FInv, Temps!TypeOK
  <1>2. Temps!OneKind
    BY DEF FInv, Temps!OneKind
  <1>3. ASSUME v5 = "spread", v4 = << >> PROVE v3 = Temps!Joined
    <2>1. /\ Temps!Handed(v1) /\ v2 = Temps!moves /\ Temps!Needed \subseteq v3 /\ v3 \subseteq Temps!temps(v1)
          /\ \A T : Temps!Closed(T) => v3 \subseteq T
          /\ \A x \in v3 : \A u : <<x, u>> \in Temps!moves => u \in v3
          /\ v3 \subseteq {t \in Nat : t >= FirstTemp}
      BY <1>3 DEF FInv, Waiting
    <2>2. Temps!near(v3) \subseteq v3
      <3> SUFFICES ASSUME NEW u \in Temps!near(v3) PROVE u \in v3
        OBVIOUS
      <3>1. PICK s \in v1 : /\ Temps!isttmove(s)
                             /\ \A t \in {s.def} \cup s.uses : t >= FirstTemp
                             /\ ({s.def} \cup s.uses) \cap v3 # {} /\ u \in {s.def} \cup s.uses
        BY DEF Temps!near
      <3>2. PICK x \in ({s.def} \cup s.uses) \cap v3 : TRUE
        BY <3>1
      <3>3. PICK y \in s.uses : s.uses = {y}
        BY <2>1, <3>1 DEF Temps!Handed, Temps!Statement, Temps!isttmove
      <3>4. <<s.def, y>> \in Temps!moves /\ <<y, s.def>> \in Temps!moves
        BY <2>1, <3>1, <3>3, MovesJoin
      <3> QED
        BY <2>1, <3>1, <3>2, <3>3, <3>4
    <2>3. Temps!Closed(v3)
      BY <2>1, <2>2 DEF Temps!Closed
    <2> HIDE DEF Temps!Closed
    <2> QED
      BY <2>1, <2>3 DEF Temps!Joined
  <1> QED
    BY <1>1, <1>2, <1>3 DEF Temps!FloatsExact, Temps!Exact

(* FInv holds in every state, whatever the code is: what is in fset or on  *)
(* the worklist is joined by moves to a float operation, and what is next  *)
(* to a temporary already taken from the worklist is in fset.              *)
THEOREM FloatInvariance ==
  ASSUME Temps!CodesAssumption
  PROVE  StagesSpec => [](stage = "floats" => FInv)
  <1> DEFINE Gathered == stage = "floats" => FInv
  <1>1. Begin => Gathered
    BY FStart DEF Begin
  <1>2. Gathered /\ [Step]_stageVars => Gathered'
    <2> SUFFICES ASSUME Gathered, [Step]_stageVars, stage' = "floats" PROVE FInv'
      OBVIOUS
    <2>1. stage' = stage /\ [Temps!Next]_(Temps!vars)
      BY DEF Step, symbols, layout, floats, select, stageVars, upTo5, upTo3, Temps!vars
    <2> QED
      BY <2>1, FKept
  <1> QED
    BY <1>1, <1>2, PTL DEF StagesSpec

(* canon.cpp (FloatTemp): exactly the temporaries that moves join, in any  *)
(* direction and over any number of them, to the operand or the result of  *)
(* a float operation are given float registers, and no move is left        *)
(* between the two kinds.                                                  *)
THEOREM Floats ==
  ASSUME Temps!CodesAssumption
  PROVE  StagesSpec => []FloatsExact
  <1>1. (stage = "floats" => FInv) => FloatsExact
    BY FFollows DEF FloatsExact
  <1> QED
    BY <1>1, FloatInvariance, PTL

-----------------------------------------------------------------------------
(* Induction and functions defined by it.                                  *)

(* A set of numbers has a least.                                           *)
LEMMA Least ==
  ASSUME NEW S \in SUBSET Nat, S # {}
  PROVE  \E m \in S : \A k \in S : m <= k
  <1> DEFINE below(s) == 0..(s - 1)
             F == {below(s) : s \in S}
  <1>1. PICK s0 \in S : TRUE
    OBVIOUS
  <1>2. \A s \in S : below(s) \in FiniteSubsetsOf(Nat)
    <2> SUFFICES ASSUME NEW s \in S PROVE below(s) \in SUBSET Nat /\ IsFiniteSet(below(s))
      BY DEF FiniteSubsetsOf
    <2>1. s \in Nat
      OBVIOUS
    <2> QED
      BY <2>1, FS_Interval
  <1>3. F \subseteq FiniteSubsetsOf(Nat) /\ F # {}
    BY <1>1, <1>2
  <1>4. \E x \in F : \A y \in F : ~ (<<y, x>> \in StrictSubsetOrdering(Nat))
    <2> HIDE DEF F
    <2> QED
      BY <1>3, FS_StrictSubsetOrderingWellFounded, WFMin
  <1>5. PICK m \in S : \A k \in S : ~ (<<below(k), below(m)>> \in StrictSubsetOrdering(Nat))
    BY <1>4
  <1>6. ASSUME NEW k \in S PROVE m <= k
    <2> SUFFICES ASSUME k < m PROVE FALSE
      BY <1>6
    <2>1. k \in Nat /\ m \in Nat
      OBVIOUS
    <2>2. below(k) \subseteq below(m) /\ below(k) # below(m)
      <3>1. k \in below(m) /\ k \notin below(k)
        BY <2>1
      <3> QED
        BY <2>1, <3>1
    <2>3. <<below(k), below(m)>> \in StrictSubsetOrdering(Nat)
      <3>1. below(k) \in SUBSET Nat /\ below(m) \in SUBSET Nat
        OBVIOUS
      <3> HIDE DEF below
      <3> QED
        BY <3>1, <2>2 DEF StrictSubsetOrdering
    <2> QED
      BY <1>5, <2>3
  <1> QED
    BY <1>6

(* Induction, about the set of the numbers that have the property.         *)
LEMMA Induction ==
  ASSUME NEW S, 0 \in S, \A n \in Nat : n \in S => n + 1 \in S
  PROVE  \A n \in Nat : n \in S
  <1> DEFINE T == {n \in Nat : n \notin S}
  <1> SUFFICES ASSUME T # {} PROVE FALSE
    OBVIOUS
  <1>1. PICK m \in T : \A k \in T : m <= k
    BY Least
  <1>2. m \in Nat /\ m # 0 /\ m - 1 \in Nat
    OBVIOUS
  <1>3. m - 1 \notin T
    BY <1>1, <1>2
  <1>4. m - 1 \in S /\ (m - 1) + 1 = m
    BY <1>2, <1>3
  <1>5. m \in S
    BY <1>2, <1>4
  <1> QED
    BY <1>5

(* A function can be defined by what its value at 0 is and how each other  *)
(* value follows from the one before.                                      *)
Iteration(f, N, A, a, G) ==
  f \in [0..N -> A] /\ f[0] = a /\ \A k \in 1..N : f[k] = G[<<k, f[k - 1]>>]

LEMMA Iterates ==
  ASSUME NEW N \in Nat, NEW A, NEW a \in A, NEW G \in [(1..N) \X A -> A]
  PROVE  \E f : Iteration(f, N, A, a, G)
  <1> DEFINE P(n, f) == f[0] = a /\ \A k \in 1..n : f[k] = G[<<k, f[k - 1]>>]
             S == {n \in Nat : n <= N => \E f \in [0..n -> A] : P(n, f)}
  <1>1. 0 \in S
    <2>1. [k \in 0..0 |-> a] \in [0..0 -> A] /\ P(0, [k \in 0..0 |-> a])
      OBVIOUS
    <2> QED
      BY <2>1
  <1>2. ASSUME NEW n \in Nat, n \in S, n + 1 <= N PROVE \E f \in [0..(n + 1) -> A] : P(n + 1, f)
    <2>1. PICK f \in [0..n -> A] : P(n, f)
      BY <1>2
    <2> DEFINE g == [k \in 0..(n + 1) |-> IF k = n + 1 THEN G[<<n + 1, f[n]>>] ELSE f[k]]
    <2>2. <<n + 1, f[n]>> \in (1..N) \X A
      BY <1>2
    <2>3. g \in [0..(n + 1) -> A]
      BY <2>2
    <2>4. P(n + 1, g)
      <3>1. g[0] = a
        BY <2>1
      <3>2. ASSUME NEW k \in 1..(n + 1) PROVE g[k] = G[<<k, g[k - 1]>>]
        <4>1. CASE k = n + 1
          <5>1. g[k - 1] = f[n] /\ g[k] = G[<<n + 1, f[n]>>]
            BY <4>1
          <5> QED
            BY <4>1, <5>1
        <4>2. CASE k # n + 1
          <5>1. k \in 1..n /\ g[k] = f[k] /\ g[k - 1] = f[k - 1]
            BY <4>2
          <5> QED
            BY <5>1, <2>1
        <4> QED
          BY <4>1, <4>2
      <3> QED
        BY <3>1, <3>2
    <2> QED
      BY <2>3, <2>4
  <1>3. \A n \in Nat : n \in S
    <2>1. \A n \in Nat : n \in S => n + 1 \in S
      BY <1>2
    <2> HIDE DEF S
    <2> QED
      BY <1>1, <2>1, Induction
  <1> QED
    BY <1>3 DEF Iteration

-----------------------------------------------------------------------------
(* Instruction selection: the instructions Tile emits.                     *)

Mnemonics == {
  "mov", "mov#", "mvn#", "movw", "movt", "add", "add#", "sub", "sub#", "rsb#", "mul", "mla", "mls", "sdiv", "smmul",
  "smmla", "lsl#", "asr#", "add lsl", "sub lsl", "rsb lsl", "add lsr", "bfc", "ldr", "ldr#", "ldr+", "str", "str#",
  "str+", "cmp", "cmp#", "b", "bl"}
Relations == {"<", ">", "<=", ">=", "=", "#"}
(* Instructions with operands of any size; Legal are those the machine    *)
(* has.                                                                    *)
Emitted == [i : Mnemonics, d : Int, s : Seq(Int), k : Int \cup Relations]
Legal == {n \in Emitted : Tiles!Takes(n)}
Asm == [code : Seq(Legal), nt : Nat]
AsmWith == [q : Asm, t : Int]

Sized == Tiles!SizesAssumption /\ Tiles!PowersAssumption

LEMMA LegalCode ==
  ASSUME NEW c, c \in Seq(Legal)
  PROVE  \A k \in DOMAIN c : Tiles!Takes(c[k])
  BY DEF Legal

LEMMA Emits ==
  ASSUME NEW r \in Asm, NEW n \in Legal
  PROVE  Tiles!emit(r, n) \in Asm /\ Tiles!emit(r, n).nt = r.nt
  BY DEF Tiles!emit, Asm

LEMMA EmitsAll ==
  ASSUME NEW r \in Asm, NEW ns \in Seq(Legal)
  PROVE  Tiles!emitAll(r, ns) \in Asm /\ Tiles!emitAll(r, ns).nt = r.nt
  <1>1. r.code \in Seq(Legal) /\ r.code \o ns \in Seq(Legal)
    BY DEF Asm
  <1> DEFINE c == r.code \o ns
  <1>2. Tiles!emitAll(r, ns) = [r EXCEPT !.code = c]
    BY DEF Tiles!emitAll
  <1> HIDE DEF c
  <1> QED
    BY <1>1, <1>2 DEF Asm, c

LEMMA NewTemps ==
  ASSUME NEW r \in Asm
  PROVE  Tiles!newtemp(r) \in Asm /\ r.nt \in Int /\ Tiles!newtemp(r).nt \in Int
  BY DEF Tiles!newtemp, Asm

(* An instruction with no number, or one that is always taken. *)
LEMMA Made ==
  ASSUME NEW i \in Mnemonics, NEW d \in Int, NEW s \in Seq(Int), NEW k \in Int \cup Relations
  PROVE  /\ Tiles!I(i, d, s, k) \in Emitted
         /\ Tiles!I(i, d, s, k).i = i /\ Tiles!I(i, d, s, k).k = k
  BY DEF Tiles!I, Emitted

LEMMA Plain ==
  ASSUME NEW i \in Mnemonics, NEW d \in Int, NEW s \in Seq(Int), NEW k \in Int \cup Relations,
         i \notin {"add#", "sub#", "cmp#", "mov#", "mvn#", "rsb#", "lsl#", "asr#", "add lsl", "sub lsl", "rsb lsl",
                   "add lsr", "bfc", "ldr#", "str#"}
  PROVE  Tiles!I(i, d, s, k) \in Legal
  <1> DEFINE n == Tiles!I(i, d, s, k)
  <1>0. i \in Mnemonics /\ k \in Int \cup Relations
    BY DEF Mnemonics
  <1>1. n \in Emitted /\ n.i = i /\ n.k = k
    BY <1>0 DEF Tiles!I, Emitted
  <1> HIDE DEF n
  <1>2. Tiles!Takes(n)
    BY <1>1 DEF Tiles!Takes
  <1> QED
    BY <1>1, <1>2 DEF Legal, n

LEMMA Imms ==
  ASSUME NEW i \in {"add#", "sub#", "cmp#"}, NEW d \in Int, NEW s \in Seq(Int), NEW k \in Int, Tiles!isImm(k)
  PROVE  Tiles!I(i, d, s, k) \in Legal
  <1> DEFINE n == Tiles!I(i, d, s, k)
  <1>0. i \in Mnemonics /\ k \in Int \cup Relations
    BY DEF Mnemonics
  <1>1. n \in Emitted /\ n.i = i /\ n.k = k
    BY <1>0 DEF Tiles!I, Emitted
  <1> HIDE DEF n
  <1>2. Tiles!Takes(n)
    BY <1>1 DEF Tiles!Takes
  <1> QED
    BY <1>1, <1>2 DEF Legal, n

LEMMA Moves ==
  ASSUME NEW i \in {"mov#", "mvn#", "rsb#"}, NEW d \in Int, NEW s \in Seq(Int), NEW k \in Int, k \in 0..ImmHigh
  PROVE  Tiles!I(i, d, s, k) \in Legal
  <1> DEFINE n == Tiles!I(i, d, s, k)
  <1>0. i \in Mnemonics /\ k \in Int \cup Relations
    BY DEF Mnemonics
  <1>1. n \in Emitted /\ n.i = i /\ n.k = k
    BY <1>0 DEF Tiles!I, Emitted
  <1> HIDE DEF n
  <1>2. Tiles!Takes(n)
    BY <1>1 DEF Tiles!Takes
  <1> QED
    BY <1>1, <1>2 DEF Legal, n

LEMMA Shifts ==
  ASSUME NEW i \in {"lsl#", "asr#", "add lsl", "sub lsl", "rsb lsl"}, NEW d \in Int, NEW s \in Seq(Int),
         NEW k \in Int, k \in 0..(Bits - 1)
  PROVE  Tiles!I(i, d, s, k) \in Legal
  <1> DEFINE n == Tiles!I(i, d, s, k)
  <1>0. i \in Mnemonics /\ k \in Int \cup Relations
    BY DEF Mnemonics
  <1>1. n \in Emitted /\ n.i = i /\ n.k = k
    BY <1>0 DEF Tiles!I, Emitted
  <1> HIDE DEF n
  <1>2. Tiles!Takes(n)
    BY <1>1 DEF Tiles!Takes
  <1> QED
    BY <1>1, <1>2 DEF Legal, n

LEMMA Wide ==
  ASSUME NEW i \in {"add lsr", "bfc"}, NEW d \in Int, NEW s \in Seq(Int), NEW k \in Int, k \in 1..Bits
  PROVE  Tiles!I(i, d, s, k) \in Legal
  <1> DEFINE n == Tiles!I(i, d, s, k)
  <1>0. i \in Mnemonics /\ k \in Int \cup Relations
    BY DEF Mnemonics
  <1>1. n \in Emitted /\ n.i = i /\ n.k = k
    BY <1>0 DEF Tiles!I, Emitted
  <1> HIDE DEF n
  <1>2. Tiles!Takes(n)
    BY <1>1 DEF Tiles!Takes
  <1> QED
    BY <1>1, <1>2 DEF Legal, n

LEMMA Offsets ==
  ASSUME NEW i \in {"ldr#", "str#"}, NEW d \in Int, NEW s \in Seq(Int), NEW k \in Int, k \in (-OffMax)..OffMax
  PROVE  Tiles!I(i, d, s, k) \in Legal
  <1> DEFINE n == Tiles!I(i, d, s, k)
  <1>0. i \in Mnemonics /\ k \in Int \cup Relations
    BY DEF Mnemonics
  <1>1. n \in Emitted /\ n.i = i /\ n.k = k
    BY <1>0 DEF Tiles!I, Emitted
  <1> HIDE DEF n
  <1>2. Tiles!Takes(n)
    BY <1>1 DEF Tiles!Takes
  <1> QED
    BY <1>1, <1>2 DEF Legal, n

LEMMA OneSeq == ASSUME NEW S, NEW x \in S PROVE <<x>> \in Seq(S)
  OBVIOUS

LEMMA TwoSeq == ASSUME NEW S, NEW x \in S, NEW y \in S PROVE <<x, y>> \in Seq(S)
  OBVIOUS

LEMMA ConstantLegal ==
  ASSUME Sized, NEW d \in Int, NEW k \in Int
  PROVE  Tiles!constant(d, k) \in Seq(Legal)
  <1> DEFINE w == Tiles!I("movw", d, << >>, k)
             t == Tiles!I("movt", d, << >>, k)
             m == Tiles!I("mov#", d, << >>, k)
             n == Tiles!I("mvn#", d, << >>, -k - 1)
  <1>0. << >> \in Seq(Int) /\ ImmHigh \in Nat /\ -k - 1 \in Int
    BY DEF Sized, Tiles!SizesAssumption
  <1>1. w \in Legal /\ t \in Legal
    <2>1. "movw" \in Mnemonics /\ "movt" \in Mnemonics /\ k \in Int \cup Relations
      BY DEF Mnemonics
    <2> QED
      BY <1>0, <2>1, Plain
  <1>2. k \in 0..ImmHigh => m \in Legal
    BY <1>0, Moves
  <1>3. k < 0 /\ -k - 1 <= ImmHigh => n \in Legal
    <2>1. k < 0 /\ -k - 1 <= ImmHigh => -k - 1 \in 0..ImmHigh
      BY <1>0
    <2> QED
      BY <2>1, <1>0, Moves
  <1> HIDE DEF w, t, m, n
  <1>6. CASE k \in 0..ImmHigh
    <2>1. Tiles!constant(d, k) = <<m>>
      BY <1>6 DEF Tiles!constant, m
    <2> QED
      BY <2>1, <1>6, <1>2
  <1>7. CASE k \notin 0..ImmHigh /\ k < 0 /\ -k - 1 <= ImmHigh
    <2>1. Tiles!constant(d, k) = <<n>>
      BY <1>7 DEF Tiles!constant, n
    <2> QED
      BY <2>1, <1>7, <1>3
  <1>8. CASE k \notin 0..ImmHigh /\ ~ (k < 0 /\ -k - 1 <= ImmHigh)
    <2>1. Tiles!constant(d, k) \in {<<w>>, <<w, t>>}
      BY <1>8 DEF Tiles!constant, w, t
    <2> QED
      BY <2>1, <1>1, Zenon, OneSeq, TwoSeq
  <1> QED
    BY <1>6, <1>7, <1>8

-----------------------------------------------------------------------------
(* Logarithms. *)

LEMMA MinOf ==
  ASSUME NEW n \in Nat, NEW S, S \subseteq 0..n, S # {}
  PROVE  Tiles!Min(S) \in S /\ \A y \in S : Tiles!Min(S) <= y
  <1>1. \E x \in S : \A y \in S : x <= y
    <2>1. S \in SUBSET Nat
      OBVIOUS
    <2> QED
      BY <2>1, Least
  <1> QED
    BY <1>1 DEF Tiles!Min

LEMMA MaxOf ==
  ASSUME NEW n \in Nat, NEW S, S \subseteq 0..n, S # {}
  PROVE  Tiles!Max(S) \in S
  <1> DEFINE R == {n - x : x \in S}
  <1>1. R \in SUBSET Nat /\ R # {}
    <2>1. \A x \in S : n - x \in Nat
      <3> SUFFICES ASSUME NEW x \in S PROVE n - x \in Nat
        OBVIOUS
      <3>1. x \in 0..n
        OBVIOUS
      <3> QED
        BY <3>1
    <2> QED
      BY <2>1
  <1>2. PICK m \in R : \A k \in R : m <= k
    BY <1>1, Least
  <1>3. PICK x \in S : m = n - x
    BY <1>2
  <1>4. \A y \in S : x >= y
    <2> SUFFICES ASSUME NEW y \in S PROVE x >= y
      OBVIOUS
    <2>1. m <= n - y
      BY <1>2
    <2>2. x \in Int /\ y \in Int
      OBVIOUS
    <2> QED
      BY <2>1, <2>2, <1>3
  <1> QED
    BY <1>4 DEF Tiles!Max

(* The number of bits of a word without the sign. *)
LEMMA Widest ==
  ASSUME Sized
  PROVE  /\ Bits \in Nat /\ Bits - 1 \in 0..(2 * Bits) /\ Bits >= 4
         /\ 2 ^ (Bits - 1) \in Nat /\ 2 ^ (Bits - 1) > 1 /\ Tiles!Least = -(2 ^ (Bits - 1))
  <1>1. Bits \in Nat /\ Bits - 1 \in 0..(2 * Bits) /\ Bits - 2 \in 0..(2 * Bits) /\ Bits >= 4
    BY DEF Sized, Tiles!SizesAssumption
  <1>2. (Bits - 1) + 1 = Bits /\ (Bits - 2) + 1 = Bits - 1
    BY <1>1
  <1> DEFINE a == 2 ^ (Bits - 1)
             b == 2 ^ (Bits - 2)
  <1>3. a \in Nat \ {0} /\ b \in Nat \ {0}
    BY <1>1 DEF Sized, Tiles!PowersAssumption
  <1>4. 2 ^ Bits = 2 * a /\ a = 2 * b
    BY <1>1, <1>2 DEF Sized, Tiles!PowersAssumption
  <1> HIDE DEF a, b
  <1>5. (2 * a) \div 2 = a
    BY <1>3
  <1> QED
    BY <1>1, <1>3, <1>4, <1>5 DEF Tiles!Least, Tiles!Words, a

LEMMA LogRange ==
  ASSUME Sized, NEW d \in Int, d <= 2 ^ (Bits - 1)
  PROVE  Tiles!log(d) \in 0..(Bits - 1) /\ (d > 1 => Tiles!log(d) # 0)
  <1> DEFINE S == {l \in 0..Bits : 2 ^ l >= d}
  <1>1. Bits - 1 \in S
    BY Widest
  <1>2. Bits \in Nat /\ S \subseteq 0..Bits
    BY Widest
  <1>3. Tiles!Min(S) \in S /\ Tiles!Min(S) <= Bits - 1
    <2> HIDE DEF S
    <2> QED
      BY <1>1, <1>2, MinOf
  <1>4. Tiles!log(d) = Tiles!Min(S)
    BY DEF Tiles!log
  <1>5. d > 1 => 0 \notin S
    BY DEF Sized, Tiles!PowersAssumption
  <1> HIDE DEF S
  <1>6. Tiles!log(d) \in 0..Bits /\ Tiles!log(d) <= Bits - 1
    BY <1>2, <1>3, <1>4
  <1> QED
    BY <1>2, <1>3, <1>4, <1>5, <1>6

LEMMA PowerRange ==
  ASSUME Sized, NEW c, c \in {2 ^ i : i \in 0..(Bits - 2)}
  PROVE  c \in Nat \ {0} /\ (c # 1 => c > 1)
  <1>1. PICK i \in 0..(Bits - 2) : c = 2 ^ i
    OBVIOUS
  <1>2. i \in 0..(2 * Bits)
    BY Widest
  <1>3. c \in Nat \ {0}
    BY <1>1, <1>2 DEF Sized, Tiles!PowersAssumption
  <1> QED
    BY <1>3

(* The log of a power of two, other than 1, is not 0, and below Bits. *)
LEMMA PowerLog ==
  ASSUME Sized, NEW c, c \in {2 ^ i : i \in 0..(Bits - 2)}, c # 1
  PROVE  Tiles!log(c) \in 1..(Bits - 1)
  <1> DEFINE S == {l \in 0..Bits : 2 ^ l >= c}
  <1>1. PICK i \in 0..(Bits - 2) : c = 2 ^ i
    OBVIOUS
  <1>2. c \in Nat \ {0} /\ c > 1 /\ Bits \in Nat
    BY PowerRange, Widest
  <1>3. i \in S
    BY <1>1, <1>2
  <1>4. Tiles!Min(S) \in S /\ Tiles!Min(S) <= i
    <2>1. S \subseteq 0..Bits
      OBVIOUS
    <2> HIDE DEF S
    <2> QED
      BY <1>2, <1>3, <2>1, MinOf
  <1>5. 0 \notin S
    BY <1>2 DEF Sized, Tiles!PowersAssumption
  <1>6. Tiles!log(c) = Tiles!Min(S)
    BY DEF Tiles!log
  <1>7. Tiles!Min(S) \in 0..Bits
    BY <1>4
  <1> HIDE DEF S
  <1> QED
    BY <1>2, <1>4, <1>5, <1>6, <1>7

LEMMA Multiplier ==
  ASSUME Sized, NEW d \in Nat \ {0}, d <= 2 ^ (Bits - 1)
  PROVE  LET mut == Tiles!chooseMultiplier(d, Bits - 1)
         IN  mut.m \in Int /\ mut.sh \in 0..(Bits - 1) /\ mut.l = Tiles!log(d)
  <1> DEFINE l == Tiles!log(d)
             low == 2 ^ (Bits + l) \div d
             up == 2 ^ (Bits + l) + 2 ^ (Bits + l - (Bits - 1))
             top == up \div d
             halved == {k \in 0..l : \A j \in 1..k : low \div 2 ^ j < top \div 2 ^ j}
             h == Tiles!Max(halved)
  <1>1. Tiles!chooseMultiplier(d, Bits - 1) = [m |-> top \div 2 ^ h, sh |-> l - h, l |-> l]
    BY DEF Tiles!chooseMultiplier
  <1>2. l \in 0..(Bits - 1) /\ Bits \in Nat
    BY LogRange, Widest
  <1>3. 0 \in halved /\ halved \subseteq 0..l /\ l \in Nat
    BY <1>2
  <1>4. h \in halved
    <2> HIDE DEF halved
    <2> QED
      BY <1>3, MaxOf
  <1>5. h \in 0..l
    BY <1>3, <1>4
  <1>6. 2 ^ (Bits + l) \in Nat /\ 2 ^ (Bits + l - (Bits - 1)) \in Nat /\ 2 ^ h \in Nat \ {0}
    <2>1. Bits + l \in 0..(2 * Bits) /\ Bits + l - (Bits - 1) \in 0..(2 * Bits) /\ h \in 0..(2 * Bits)
      <3> HIDE DEF l, h
      <3> QED
        BY <1>2, <1>5
    <2> HIDE DEF l, h
    <2> QED
      BY <2>1 DEF Sized, Tiles!PowersAssumption
  <1>7. up \in Int /\ top \in Int
    <2>1. up \in Int
      <3> HIDE DEF l
      <3> QED
        BY <1>6
    <2> HIDE DEF up
    <2> QED
      BY <2>1
  <1>8. top \div 2 ^ h \in Int
    <2> DEFINE w == 2 ^ h
    <2>1. w \in Nat \ {0}
      BY <1>6
    <2> HIDE DEF w, h, top
    <2>2. top \div w \in Int
      BY <2>1, <1>7
    <2> QED
      BY <2>2 DEF w
  <1>9. l - h \in 0..(Bits - 1)
    <2> HIDE DEF l, h
    <2> QED
      BY <1>2, <1>5
  <1> HIDE DEF l, h, top
  <1> QED
    BY <1>1, <1>8, <1>9 DEF l

-----------------------------------------------------------------------------
(* Expressions. *)

LEMMA OperandInt ==
  ASSUME NEW u \in Tiles!Operand
  PROVE  u[2] \in Int
  BY DEF Tiles!Operand

LEMMA ThreeSeq == ASSUME NEW S, NEW x \in S, NEW y \in S, NEW z \in S PROVE <<x, y, z>> \in Seq(S)
  OBVIOUS

LEMMA NoSeq == ASSUME NEW S PROVE << >> \in Seq(S)
  OBVIOUS

LEMMA AddressLegal ==
  ASSUME Sized, NEW d \in Int, NEW a \in Int
  PROVE  Tiles!address(d, a) \in Seq(Legal)
  <1>1. "movw" \in Mnemonics /\ "movt" \in Mnemonics /\ << >> \in Seq(Int) /\ a \in Int \cup Relations
    BY DEF Mnemonics
  <1>2. Tiles!I("movw", d, << >>, a) \in Legal /\ Tiles!I("movt", d, << >>, a) \in Legal
    BY <1>1, Plain
  <1> QED
    BY <1>2, TwoSeq DEF Tiles!address

LEMMA ValueLegal ==
  ASSUME Sized, NEW d \in Int, NEW u \in Tiles!Operand
  PROVE  (IF Tiles!isConst(u) THEN Tiles!constant(d, u[2]) ELSE Tiles!address(d, u[2])) \in Seq(Legal)
  BY OperandInt, ConstantLegal, AddressLegal

LEMMA OperandAsm ==
  ASSUME Sized, NEW r \in Asm, NEW u \in Tiles!Operand
  PROVE  Tiles!operand(r, u).q \in Asm /\ Tiles!operand(r, u).t \in Int
  <1> DEFINE v == IF Tiles!isConst(u) THEN Tiles!constant(r.nt, u[2]) ELSE Tiles!address(r.nt, u[2])
  <1>1. u[2] \in Int /\ r.nt \in Int /\ Tiles!newtemp(r) \in Asm
    BY OperandInt, NewTemps
  <1>2. v \in Seq(Legal)
    BY <1>1, ValueLegal
  <1> HIDE DEF v
  <1>3. Tiles!emitAll(Tiles!newtemp(r), v) \in Asm
    BY <1>1, <1>2, EmitsAll
  <1> QED
    BY <1>1, <1>3 DEF Tiles!operand, v

LEMMA OperandsAsm ==
  ASSUME Sized, NEW r \in Asm, NEW u \in Tiles!Operand, NEW v \in Tiles!Operand
  PROVE  /\ Tiles!operands(r, u, v).q \in Asm /\ Tiles!operands(r, u, v).t \in Seq(Int)
         /\ Tiles!operands(r, u, v).t[1] \in Int /\ Tiles!operands(r, u, v).t[2] \in Int
         /\ Len(Tiles!operands(r, u, v).t) = 2
  <1> DEFINE a == Tiles!operand(r, u)
             b == Tiles!operand(a.q, v)
  <1>1. a.q \in Asm /\ a.t \in Int
    BY OperandAsm
  <1>2. b.q \in Asm /\ b.t \in Int
    BY <1>1, OperandAsm
  <1>3. Tiles!operands(r, u, v) = [q |-> b.q, t |-> <<a.t, b.t>>]
    BY DEF Tiles!operands
  <1> HIDE DEF a, b
  <1>4. <<a.t, b.t>> \in Seq(Int)
    BY <1>1, <1>2
  <1> QED
    BY <1>1, <1>2, <1>3, <1>4

LEMMA GeneralAsm ==
  ASSUME Sized, NEW r \in Asm, NEW d \in Int, NEW op \in {"+", "-", "*", "/", "%"}, NEW u \in Tiles!Operand, NEW v \in Tiles!Operand
  PROVE  Tiles!general(r, d, op, u, v) \in Asm
  <1> DEFINE o == Tiles!operands(r, u, v)
             name == CASE op = "+" -> "add" [] op = "-" -> "sub" [] op = "*" -> "mul" [] op = "/" -> "sdiv"
             one1 == Tiles!I(name, d, o.t, 0)
             n1 == Tiles!I("sdiv", o.q.nt, o.t, 0)
             n2 == Tiles!I("mls", d, <<o.q.nt, o.t[2], o.t[1]>>, 0)
  <1>1. o.q \in Asm /\ o.t \in Seq(Int) /\ o.t[1] \in Int /\ o.t[2] \in Int
    BY OperandsAsm
  <1>2. Tiles!general(r, d, op, u, v) = IF op # "%" THEN Tiles!emit(o.q, one1) ELSE Tiles!emitAll(Tiles!newtemp(o.q), <<n1, n2>>)
    BY DEF Tiles!general
  <1>3. o.q.nt \in Int /\ Tiles!newtemp(o.q) \in Asm
    BY <1>1, NewTemps
  <1> HIDE DEF o
  <1>4. <<o.q.nt, o.t[2], o.t[1]>> \in Seq(Int) /\ 0 \in Int \cup Relations
    BY <1>1, <1>3
  <1>5. n1 \in Legal /\ n2 \in Legal
    <2>1. "sdiv" \in Mnemonics /\ "mls" \in Mnemonics
      BY DEF Mnemonics
    <2> QED
      BY <1>1, <1>3, <1>4, <2>1, Plain
  <1>6. op # "%" => one1 \in Legal
    <2> SUFFICES ASSUME op # "%" PROVE one1 \in Legal
      OBVIOUS
    <2>1. name \in {"add", "sub", "mul", "sdiv"}
      OBVIOUS
    <2> HIDE DEF name
    <2>2. name \in Mnemonics /\ name \notin {"add#", "sub#", "cmp#", "mov#", "mvn#", "rsb#", "lsl#", "asr#", "add lsl", "sub lsl",
             "rsb lsl", "add lsr", "bfc", "ldr#", "str#"}
      BY <2>1 DEF Mnemonics
    <2> QED
      BY <1>1, <1>4, <2>2, Plain
  <1> HIDE DEF one1, n1, n2
  <1>7. <<n1, n2>> \in Seq(Legal)
    BY <1>5, TwoSeq
  <1>8. Tiles!emitAll(Tiles!newtemp(o.q), <<n1, n2>>) \in Asm
    BY <1>3, <1>7, EmitsAll
  <1>9. op # "%" => Tiles!emit(o.q, one1) \in Asm
    BY <1>1, <1>6, Emits
  <1> QED
    BY <1>2, <1>8, <1>9

LEMMA TimesCodeLegal ==
  ASSUME Sized, NEW d \in Int, NEW t \in Int, NEW c \in Int, Tiles!MULoptTest(Tiles!Abs(c))
  PROVE  Tiles!timesCode(d, t, c) \in Seq(Legal)
  <1> DEFINE a == Tiles!Abs(c)
             s == Tiles!one(Tiles!m1(a))
             e == Tiles!one(IF Tiles!m2(a) # {} THEN Tiles!m2(a) ELSE Tiles!m3(a))
             first == IF Tiles!m2(a) # {} THEN "add lsl" ELSE "rsb lsl"
             neg == IF c < 0 THEN <<Tiles!I("rsb#", d, <<d>>, 0)>> ELSE << >>
             i1 == Tiles!I(first, d, <<t, t>>, e[1] - e[2])
             i2 == Tiles!I("lsl#", d, <<d>>, e[2])
             i3 == Tiles!I("lsl#", d, <<t>>, s)
             i4 == Tiles!I("mov#", d, << >>, 0)
             i5 == Tiles!I("sub lsl", d, <<d, t>>, s)
  <1>0. Bits \in Nat /\ Bits >= 4 /\ 0 \in 0..ImmHigh /\ 0 \in Int
    BY DEF Sized, Tiles!SizesAssumption
  <1>1. Tiles!timesCode(d, t, c) =
          IF Tiles!m1(a) = {} THEN <<i1>> \o neg \o <<i2>> ELSE IF c > 0 THEN <<i3>> ELSE <<i4, i5>>
    BY DEF Tiles!timesCode
  <1>2. Tiles!m1(a) # {} => s \in 0..(Bits - 2)
    BY DEF Tiles!one, Tiles!m1
  <1>3. Tiles!m1(a) = {} => e \in (1..(Bits - 2)) \X (0..(Bits - 2)) /\ e[2] < e[1]
    <2> SUFFICES ASSUME Tiles!m1(a) = {} PROVE e \in (1..(Bits - 2)) \X (0..(Bits - 2)) /\ e[2] < e[1]
      OBVIOUS
    <2> DEFINE S == IF Tiles!m2(a) # {} THEN Tiles!m2(a) ELSE Tiles!m3(a)
    <2>1. S # {}
      BY DEF Tiles!MULoptTest
    <2>2. \A x \in S : x \in (1..(Bits - 2)) \X (0..(Bits - 2)) /\ x[2] < x[1]
      BY DEF Tiles!m2, Tiles!m3
    <2> HIDE DEF S
    <2>3. Tiles!one(S) \in S
      BY <2>1 DEF Tiles!one
    <2> QED
      BY <2>2, <2>3 DEF S
  <1>4. <<t>> \in Seq(Int) /\ <<d>> \in Seq(Int) /\ <<t, t>> \in Seq(Int) /\ <<d, t>> \in Seq(Int) /\ << >> \in Seq(Int)
    OBVIOUS
  <1> HIDE DEF a
  <1>5. neg \in Seq(Legal)
    <2>1. Tiles!I("rsb#", d, <<d>>, 0) \in Legal
      BY <1>0, <1>4, Moves
    <2> QED
      BY <2>1, OneSeq, NoSeq
  <1>6. Tiles!m1(a) = {} => i1 \in Legal /\ i2 \in Legal
    <2> SUFFICES ASSUME Tiles!m1(a) = {} PROVE i1 \in Legal /\ i2 \in Legal
      OBVIOUS
    <2> HIDE DEF e
    <2>1. e[1] \in 1..(Bits - 2) /\ e[2] \in 0..(Bits - 2) /\ e[2] < e[1]
      BY <1>3
    <2> DEFINE x == e[1] - e[2]
               y == e[2]
    <2>2. x \in 0..(Bits - 1) /\ y \in 0..(Bits - 1) /\ x \in Int /\ y \in Int
      BY <2>1, <1>0
    <2>3. first \in {"add lsl", "rsb lsl"}
      OBVIOUS
    <2> HIDE DEF x, y, first
    <2>4. Tiles!I(first, d, <<t, t>>, x) \in Legal
      BY <1>4, <2>2, <2>3, Shifts
    <2>5. Tiles!I("lsl#", d, <<d>>, y) \in Legal
      BY <1>4, <2>2, Shifts
    <2> QED
      BY <2>4, <2>5 DEF x, y
  <1>7. Tiles!m1(a) # {} => i3 \in Legal /\ i4 \in Legal /\ i5 \in Legal
    <2> SUFFICES ASSUME Tiles!m1(a) # {} PROVE i3 \in Legal /\ i4 \in Legal /\ i5 \in Legal
      OBVIOUS
    <2> HIDE DEF s
    <2>1. s \in 0..(Bits - 1) /\ s \in Int
      BY <1>0, <1>2
    <2>2. i3 \in Legal /\ i5 \in Legal
      BY <1>4, <2>1, Shifts
    <2>3. i4 \in Legal
      BY <1>0, <1>4, Moves
    <2> QED
      BY <2>2, <2>3
  <1> HIDE DEF neg, i1, i2, i3, i4, i5
  <1>8. CASE Tiles!m1(a) = {}
    <2>1. <<i1>> \in Seq(Legal) /\ <<i2>> \in Seq(Legal)
      BY <1>6, <1>8, OneSeq
    <2>2. <<i1>> \o neg \in Seq(Legal)
      BY <2>1, <1>5, ConcatProperties
    <2>3. (<<i1>> \o neg) \o <<i2>> \in Seq(Legal)
      BY <2>1, <2>2, ConcatProperties
    <2> QED
      BY <1>1, <1>8, <2>3
  <1>9. CASE Tiles!m1(a) # {}
    <2>1. <<i3>> \in Seq(Legal) /\ <<i4, i5>> \in Seq(Legal)
      BY <1>7, <1>9, OneSeq, TwoSeq
    <2> QED
      BY <1>1, <1>9, <2>1
  <1> QED
    BY <1>8, <1>9

LEMMA TimesAsm ==
  ASSUME Sized, NEW r \in Asm, NEW d \in Int, NEW t \in Int, NEW c \in Int
  PROVE  Tiles!times(r, d, t, c) \in Asm
  <1>1. Tiles!T(t) \in Tiles!Operand /\ Tiles!C(c) \in Tiles!Operand /\ "*" \in {"+", "-", "*", "/", "%"}
    BY DEF Tiles!T, Tiles!C, Tiles!Operand
  <1>2. Tiles!general(r, d, "*", Tiles!T(t), Tiles!C(c)) \in Asm
    BY <1>1, GeneralAsm
  <1>3. Tiles!MULoptTest(Tiles!Abs(c)) => Tiles!emitAll(r, Tiles!timesCode(d, t, c)) \in Asm
    BY TimesCodeLegal, EmitsAll
  <1> QED
    BY <1>2, <1>3 DEF Tiles!times

(* A word is no further from 0 than the least is. *)
LEMMA AbsRange ==
  ASSUME Sized, NEW c \in (Tiles!Least..(-Tiles!Least - 1)) \ {0}
  PROVE  c \in Int /\ Tiles!Abs(c) \in Nat \ {0} /\ Tiles!Abs(c) <= 2 ^ (Bits - 1) /\ Tiles!Abs(Tiles!Least) > 1
  <1> DEFINE w == 2 ^ (Bits - 1)
  <1>1. w \in Nat /\ w > 1 /\ Tiles!Least = -w
    BY Widest
  <1> HIDE DEF w
  <1> QED
    BY <1>1 DEF Tiles!Abs, w

LEMMA DividedAsm ==
  ASSUME Sized, NEW r \in Asm, NEW d \in Int, NEW t \in Int, NEW c \in (Tiles!Least..(-Tiles!Least - 1)) \ {0}
  PROVE  Tiles!dividedBy(r, d, t, c) \in Asm
  <1> DEFINE mut == Tiles!chooseMultiplier(Tiles!Abs(c), Bits - 1)
             n == r.nt
             isSmall == mut.m < 2 ^ (Bits - 1)
             signed == IF c < 0 THEN <<Tiles!I("rsb#", d, <<d>>, 0)>> ELSE << >>
             k == Tiles!constant(n, IF isSmall THEN mut.m ELSE mut.m - Tiles!Words)
             high2 == IF isSmall THEN Tiles!I("smmul", n, <<n, t>>, 0) ELSE Tiles!I("smmla", n, <<t, n, t>>, 0)
             a1 == Tiles!I("asr#", d, <<n>>, mut.sh)
             a2 == Tiles!I("add lsr", d, <<d, IF isSmall THEN t ELSE n>>, Bits - 1)
             p1 == Tiles!I("asr#", d, <<t>>, mut.l - 1)
             p2 == Tiles!I("add lsr", n, <<t, d>>, Bits - mut.l)
             p3 == Tiles!I("asr#", d, <<n>>, mut.l)
             mv == Tiles!I("mov", d, <<t>>, 0)
             by == IF Tiles!Abs(c) = 1 THEN <<mv>>
                   ELSE IF Tiles!check2pow(Tiles!Abs(c)) \/ c = Tiles!Least THEN <<p1, p2, p3>>
                   ELSE k \o <<high2, a1, a2>>
  <1>0. Bits \in Nat /\ Bits >= 4 /\ 0 \in 0..ImmHigh /\ 0 \in Int /\ 0 \in Int \cup Relations
    BY DEF Sized, Tiles!SizesAssumption
  <1>1. Tiles!dividedBy(r, d, t, c) = Tiles!emitAll(Tiles!newtemp(r), by \o signed)
    BY DEF Tiles!dividedBy
  <1>2. Tiles!newtemp(r) \in Asm /\ n \in Int
    BY NewTemps
  <1>3. c \in Int /\ Tiles!Abs(c) \in Nat \ {0} /\ Tiles!Abs(c) <= 2 ^ (Bits - 1) /\ Tiles!Abs(Tiles!Least) > 1
    BY AbsRange
  <1>4. mut.m \in Int /\ mut.sh \in 0..(Bits - 1) /\ mut.l = Tiles!log(Tiles!Abs(c))
    BY <1>3, Multiplier
  <1>5. Tiles!log(Tiles!Abs(c)) \in 0..(Bits - 1) /\ (Tiles!Abs(c) > 1 => Tiles!log(Tiles!Abs(c)) # 0)
    BY <1>3, LogRange
  <1> HIDE DEF mut, n
  <1>6. /\ <<t>> \in Seq(Int) /\ <<d>> \in Seq(Int) /\ <<n>> \in Seq(Int) /\ <<t, d>> \in Seq(Int) /\ <<n, t>> \in Seq(Int)
        /\ <<t, n, t>> \in Seq(Int)
    BY <1>2
  <1>7. signed \in Seq(Legal)
    <2>1. Tiles!I("rsb#", d, <<d>>, 0) \in Legal
      BY <1>0, <1>6, Moves
    <2> QED
      BY <2>1, OneSeq, NoSeq
  <1>8. CASE Tiles!Abs(c) = 1
    <2>1. "mov" \in Mnemonics
      BY DEF Mnemonics
    <2>2. mv \in Legal
      BY <1>0, <1>6, <2>1, Plain
    <2> HIDE DEF mv
    <2>3. by = <<mv>> /\ <<mv>> \in Seq(Legal)
      BY <1>8, <2>2, OneSeq
    <2> HIDE DEF by, signed
    <2>4. by \o signed \in Seq(Legal)
      BY <1>7, <2>3, ConcatProperties
    <2> QED
      BY <1>1, <1>2, <2>4, EmitsAll
  <1>9. CASE Tiles!Abs(c) # 1 /\ (Tiles!check2pow(Tiles!Abs(c)) \/ c = Tiles!Least)
    <2>1. mut.l \in 1..(Bits - 1)
      <3>1. Tiles!Abs(c) > 1
        BY <1>3, <1>9
      <3> QED
        BY <1>0, <1>4, <1>5, <3>1
    <2> DEFINE x == mut.l - 1
               y == Bits - mut.l
               z == mut.l
    <2>2. x \in 0..(Bits - 1) /\ x \in Int /\ y \in 1..Bits /\ y \in Int /\ z \in 0..(Bits - 1) /\ z \in Int
      BY <1>0, <2>1
    <2> HIDE DEF x, y, z
    <2>3. Tiles!I("asr#", d, <<t>>, x) \in Legal /\ Tiles!I("asr#", d, <<n>>, z) \in Legal
      BY <1>6, <2>2, Shifts
    <2>4. Tiles!I("add lsr", n, <<t, d>>, y) \in Legal
      BY <1>2, <1>6, <2>2, Wide
    <2>5. p1 \in Legal /\ p2 \in Legal /\ p3 \in Legal
      BY <2>3, <2>4 DEF x, y, z
    <2> HIDE DEF p1, p2, p3
    <2>6. by = <<p1, p2, p3>> /\ <<p1, p2, p3>> \in Seq(Legal)
      BY <1>9, <2>5, ThreeSeq
    <2> HIDE DEF by, signed
    <2>7. by \o signed \in Seq(Legal)
      BY <1>7, <2>6, ConcatProperties
    <2> QED
      BY <1>1, <1>2, <2>7, EmitsAll
  <1>10. CASE Tiles!Abs(c) # 1 /\ ~ (Tiles!check2pow(Tiles!Abs(c)) \/ c = Tiles!Least)
    <2>1. k \in Seq(Legal)
      <3> DEFINE v == IF isSmall THEN mut.m ELSE mut.m - Tiles!Words
      <3>1. Tiles!Words \in Int
        <4>1. Bits \in 0..(2 * Bits)
          BY <1>0
        <4> QED
          BY <4>1 DEF Tiles!Words, Sized, Tiles!PowersAssumption
      <3>2. v \in Int
        <4> HIDE DEF isSmall
        <4> QED
          BY <1>4, <3>1
      <3> HIDE DEF v
      <3>3. Tiles!constant(n, v) \in Seq(Legal)
        BY <1>2, <3>2, ConstantLegal
      <3> QED
        BY <3>3 DEF v
    <2>2. high2 \in Legal
      <3>1. "smmul" \in Mnemonics /\ "smmla" \in Mnemonics
        BY DEF Mnemonics
      <3>2. Tiles!I("smmul", n, <<n, t>>, 0) \in Legal /\ Tiles!I("smmla", n, <<t, n, t>>, 0) \in Legal
        BY <1>0, <1>2, <1>6, <3>1, Plain
      <3> HIDE DEF isSmall
      <3> QED
        BY <3>2
    <2>3. a1 \in Legal
      <3> DEFINE x == mut.sh
      <3>1. x \in 0..(Bits - 1) /\ x \in Int
        BY <1>0, <1>4
      <3> HIDE DEF x
      <3>2. Tiles!I("asr#", d, <<n>>, x) \in Legal
        BY <1>6, <3>1, Shifts
      <3> QED
        BY <3>2 DEF x
    <2>4. a2 \in Legal
      <3> DEFINE o == IF isSmall THEN t ELSE n
                 x == Bits - 1
      <3>1. o \in Int /\ x \in 1..Bits /\ x \in Int
        <4> HIDE DEF isSmall
        <4> QED
          BY <1>0, <1>2
      <3> HIDE DEF o, x
      <3>2. <<d, o>> \in Seq(Int)
        BY <3>1
      <3>3. Tiles!I("add lsr", d, <<d, o>>, x) \in Legal
        BY <3>1, <3>2, Wide
      <3> QED
        BY <3>3 DEF o, x
    <2> HIDE DEF k, high2, a1, a2
    <2>5. by = k \o <<high2, a1, a2>> /\ <<high2, a1, a2>> \in Seq(Legal)
      BY <1>10, <2>2, <2>3, <2>4, ThreeSeq
    <2>6. k \o <<high2, a1, a2>> \in Seq(Legal)
      BY <2>1, <2>5, ConcatProperties
    <2> HIDE DEF by, signed
    <2>7. by \o signed \in Seq(Legal)
      BY <1>7, <2>5, <2>6, ConcatProperties
    <2> QED
      BY <1>1, <1>2, <2>7, EmitsAll
  <1> QED
    BY <1>8, <1>9, <1>10

LEMMA RemainderAsm ==
  ASSUME Sized, NEW r \in Asm, NEW d \in Int, NEW t \in Int, NEW c \in (Tiles!Least..(-Tiles!Least - 1)) \ {0},
         c \notin {1, Tiles!Least}
  PROVE  Tiles!remainderOf(r, d, t, c) \in Asm
  <1> DEFINE n == r.nt
             p1 == Tiles!I("asr#", d, <<t>>, Bits - 1)
             p2 == Tiles!I("add lsr", d, <<t, d>>, Bits - Tiles!log(c))
             p3 == Tiles!I("bfc", d, << >>, Tiles!log(c))
             p4 == Tiles!I("sub", d, <<t, d>>, 0)
             s == Tiles!I("sub", d, <<t, n>>, 0)
             a == Tiles!dividedBy(Tiles!newtemp(r), n, t, c)
             b == Tiles!times(a, n, n, c)
  <1>0. Bits \in Nat /\ Bits >= 4 /\ 0 \in Int \cup Relations
    BY DEF Sized, Tiles!SizesAssumption
  <1>1. Tiles!remainderOf(r, d, t, c) =
          IF Tiles!check2pow(c) THEN Tiles!emitAll(r, <<p1, p2, p3, p4>>) ELSE Tiles!emit(b, s)
    BY DEF Tiles!remainderOf
  <1>2. Tiles!newtemp(r) \in Asm /\ n \in Int /\ c \in Int
    BY NewTemps, AbsRange
  <1>3. a \in Asm
    <2> HIDE DEF n
    <2> QED
      BY <1>2, DividedAsm
  <1>4. b \in Asm
    <2> HIDE DEF n, a
    <2> QED
      BY <1>2, <1>3, TimesAsm
  <1> HIDE DEF n
  <1>5. <<t, n>> \in Seq(Int) /\ <<t>> \in Seq(Int) /\ <<t, d>> \in Seq(Int) /\ << >> \in Seq(Int)
    BY <1>2
  <1>6. "sub" \in Mnemonics
    BY DEF Mnemonics
  <1>7. s \in Legal /\ p4 \in Legal
    BY <1>0, <1>5, <1>6, Plain
  <1>8. CASE Tiles!check2pow(c)
    <2>1. Tiles!log(c) \in 1..(Bits - 1)
      <3>1. c \in {2 ^ i : i \in 0..(Bits - 2)} /\ c # 1
        BY <1>8 DEF Tiles!check2pow
      <3> QED
        BY <3>1, PowerLog
    <2> DEFINE x == Bits - 1
               y == Bits - Tiles!log(c)
               z == Tiles!log(c)
    <2>2. x \in 0..(Bits - 1) /\ x \in Int /\ y \in 1..Bits /\ y \in Int /\ z \in 1..Bits /\ z \in Int
      BY <1>0, <2>1
    <2> HIDE DEF x, y, z
    <2>3. Tiles!I("asr#", d, <<t>>, x) \in Legal
      BY <1>5, <2>2, Shifts
    <2>4. Tiles!I("add lsr", d, <<t, d>>, y) \in Legal /\ Tiles!I("bfc", d, << >>, z) \in Legal
      BY <1>5, <2>2, Wide
    <2>5. p1 \in Legal /\ p2 \in Legal /\ p3 \in Legal
      BY <2>3, <2>4 DEF x, y, z
    <2> HIDE DEF p1, p2, p3, p4
    <2>6. <<p1, p2, p3, p4>> \in Seq(Legal)
      BY <1>7, <2>5
    <2> QED
      BY <1>1, <1>8, <2>6, EmitsAll
  <1>9. CASE ~ Tiles!check2pow(c)
    <2> HIDE DEF b, s
    <2>1. Tiles!emit(b, s) \in Asm
      BY <1>4, <1>7, Emits
    <2> QED
      BY <1>1, <1>9, <2>1
  <1> QED
    BY <1>8, <1>9

(* The constants by which division and remainder have ways of their own.   *)
Divides(op, u, v) ==
  /\ op \in {"/", "%"} /\ Tiles!isConst(v) => v[2] \in (Tiles!Least..(-Tiles!Least - 1)) \ {0}
  /\ op = "%" /\ Tiles!isConst(v) /\ ~ Tiles!isConst(u) => v[2] \notin {1, Tiles!Least}

LEMMA WithConstantAsm ==
  ASSUME Sized, NEW r \in Asm, NEW d \in Int, NEW op \in {"+", "-", "*", "/", "%"}, NEW u \in Tiles!Operand, NEW v \in Tiles!Operand,
         Divides(op, u, v), Tiles!isConst(u) \/ Tiles!isConst(v)
  PROVE  Tiles!withConstant(r, d, op, u, v) \in Asm
  <1> DEFINE left == Tiles!isConst(u)
             c == IF left THEN u[2] ELSE v[2]
             w == IF left THEN v ELSE u
             turned == op = "*" /\ left /\ c = -1
             o == Tiles!operand(r, w)
             i1 == Tiles!I("add#", d, <<o.t>>, c)
             i2 == Tiles!I(IF left THEN "rsb#" ELSE "sub#", d, <<o.t>>, c)
             i3 == Tiles!I("rsb#", d, <<o.t>>, 0)
             base == IF turned THEN Tiles!emit(o.q, i3) ELSE r
             other == Tiles!general(base, d, op, u, v)
  <1>0. ImmHigh \in Nat /\ 0 \in 0..ImmHigh /\ 0 \in Int
    BY DEF Sized, Tiles!SizesAssumption
  <1>1. Tiles!withConstant(r, d, op, u, v) =
          CASE Tiles!isImm(c) /\ op = "+" -> Tiles!emit(o.q, i1)
            [] Tiles!isImm(c) /\ op = "-" /\ ~ (left /\ c < 0) -> Tiles!emit(o.q, i2)
            [] op = "*" /\ ~ turned /\ Tiles!MULoptTest(Tiles!Abs(c)) -> Tiles!times(o.q, d, o.t, c)
            [] op = "/" /\ ~ left -> Tiles!dividedBy(o.q, d, o.t, c)
            [] op = "%" /\ ~ left -> Tiles!remainderOf(o.q, d, o.t, c)
            [] OTHER -> other
    BY DEF Tiles!withConstant
  <1>2. c \in Int /\ w \in Tiles!Operand
    BY OperandInt
  <1> DEFINE oq == o.q
             ot == o.t
  <1>3. oq \in Asm /\ ot \in Int
    <2> HIDE DEF w
    <2> QED
      BY <1>2, OperandAsm
  <1>4. <<ot>> \in Seq(Int)
    BY <1>3
  <1> HIDE DEF o
  <1>5. Tiles!isImm(c) => i1 \in Legal
    <2> HIDE DEF c
    <2> QED
      BY <1>2, <1>4, Imms
  <1>6. Tiles!isImm(c) /\ ~ (left /\ c < 0) => i2 \in Legal
    <2> SUFFICES ASSUME Tiles!isImm(c), ~ (left /\ c < 0) PROVE i2 \in Legal
      OBVIOUS
    <2>1. CASE left
      <3>1. c \in 0..ImmHigh
        <4> HIDE DEF c
        <4> QED
          BY <1>2, <2>1, <1>0 DEF Tiles!isImm
      <3> HIDE DEF c
      <3>2. Tiles!I("rsb#", d, <<ot>>, c) \in Legal
        BY <1>2, <1>4, <3>1, Moves
      <3> QED
        BY <2>1, <3>2
    <2>2. CASE ~ left
      <3> HIDE DEF c
      <3>2. Tiles!I("sub#", d, <<ot>>, c) \in Legal
        BY <1>2, <1>4, Imms
      <3> QED
        BY <2>2, <3>2
    <2> QED
      BY <2>1, <2>2
  <1>7. i3 \in Legal
    BY <1>0, <1>4, Moves
  <1> HIDE DEF i1, i2, i3
  <1>8. Tiles!emit(oq, i3) \in Asm /\ (Tiles!isImm(c) => Tiles!emit(oq, i1) \in Asm)
        /\ (Tiles!isImm(c) /\ ~ (left /\ c < 0) => Tiles!emit(oq, i2) \in Asm)
    BY <1>3, <1>5, <1>6, <1>7, Emits
  <1>9. other \in Asm
    <2>1. base \in Asm
      BY <1>8
    <2> HIDE DEF base
    <2> QED
      BY <2>1, GeneralAsm
  <1>10. Tiles!times(oq, d, ot, c) \in Asm
    <2> HIDE DEF c, oq, ot
    <2> QED
      BY <1>2, <1>3, TimesAsm
  <1>11. op = "/" /\ ~ left => Tiles!dividedBy(oq, d, ot, c) \in Asm
    <2> SUFFICES ASSUME op = "/", ~ left PROVE Tiles!dividedBy(oq, d, ot, c) \in Asm
      OBVIOUS
    <2>1. c \in (Tiles!Least..(-Tiles!Least - 1)) \ {0}
      BY DEF Divides
    <2> HIDE DEF c, oq, ot
    <2> QED
      BY <1>3, <2>1, DividedAsm
  <1>12. op = "%" /\ ~ left => Tiles!remainderOf(oq, d, ot, c) \in Asm
    <2> SUFFICES ASSUME op = "%", ~ left PROVE Tiles!remainderOf(oq, d, ot, c) \in Asm
      OBVIOUS
    <2>1. c \in (Tiles!Least..(-Tiles!Least - 1)) \ {0} /\ c \notin {1, Tiles!Least}
      BY DEF Divides
    <2> HIDE DEF c, oq, ot
    <2> QED
      BY <1>3, <2>1, RemainderAsm
  <1> HIDE DEF c, other, base, left, w
  <1> QED
    BY <1>1, <1>8, <1>9, <1>10, <1>11, <1>12

LEMMA BinopAsm ==
  ASSUME Sized, NEW r \in Asm, NEW st, st.dst \in Int, st.op \in {"+", "-", "*", "/", "%"},
         st.args[1] \in Tiles!Operand, st.args[2] \in Tiles!Operand, Divides(st.op, st.args[1], st.args[2])
  PROVE  Tiles!binop(r, st) \in Asm
  BY WithConstantAsm, GeneralAsm DEF Tiles!binop

(* A sum, of whatever constant. *)
LEMMA SumAsm ==
  ASSUME Sized, NEW r \in Asm, NEW d \in Int, NEW t \in Int, NEW k \in Int
  PROVE  Tiles!binop(r, Tiles!Binop(d, "+", Tiles!T(t), Tiles!C(k))) \in Asm
  <1> DEFINE st == Tiles!Binop(d, "+", Tiles!T(t), Tiles!C(k))
  <1>1. Tiles!T(t) \in Tiles!Operand /\ Tiles!C(k) \in Tiles!Operand
    BY DEF Tiles!T, Tiles!C, Tiles!Operand
  <1>2. st.dst = d /\ st.op = "+" /\ st.args[1] = Tiles!T(t) /\ st.args[2] = Tiles!C(k)
    BY DEF Tiles!Binop
  <1>3. Divides(st.op, st.args[1], st.args[2])
    BY <1>2 DEF Divides
  <1> HIDE DEF st
  <1>4. Tiles!binop(r, st) \in Asm
    BY <1>1, <1>2, <1>3, BinopAsm
  <1> QED
    BY <1>4 DEF st

LEMMA CommuteIn ==
  ASSUME NEW rel \in Relations
  PROVE  Tiles!commute(rel) \in Relations
  BY DEF Tiles!commute, Relations

LEMMA CjumpAsm ==
  ASSUME Sized, NEW r \in Asm, NEW st, st.op \in Relations, st.args[1] \in Tiles!Operand, st.args[2] \in Tiles!Operand
  PROVE  Tiles!cjump(r, st) \in Asm
  <1> DEFINE left == Tiles!isConst(st.args[1])
             u == IF left THEN st.args[2] ELSE st.args[1]
             v == IF left THEN st.args[1] ELSE st.args[2]
             a == Tiles!operand(r, u)
             o == Tiles!operands(r, u, v)
             rel == IF left THEN Tiles!commute(st.op) ELSE st.op
             i1 == Tiles!I("cmp", -1, o.t, 0)
             i2 == Tiles!I("cmp#", -1, <<a.t>>, v[2])
             i3 == Tiles!I("b", -1, << >>, rel)
             compared == IF Tiles!isConst(v) /\ Tiles!isImm(v[2]) THEN Tiles!emit(a.q, i2) ELSE Tiles!emit(o.q, i1)
  <1>1. Tiles!cjump(r, st) = Tiles!emit(compared, i3)
    BY DEF Tiles!cjump
  <1>2. u \in Tiles!Operand /\ v \in Tiles!Operand /\ v[2] \in Int
    BY OperandInt
  <1> HIDE DEF u, v
  <1>3. a.q \in Asm /\ a.t \in Int
    BY <1>2, OperandAsm
  <1>4. o.q \in Asm /\ o.t \in Seq(Int)
    BY <1>2, OperandsAsm
  <1>5. rel \in Int \cup Relations /\ 0 \in Int \cup Relations /\ -1 \in Int
    BY CommuteIn
  <1> HIDE DEF a, o, rel
  <1>6. "cmp" \in Mnemonics /\ "b" \in Mnemonics /\ <<a.t>> \in Seq(Int) /\ << >> \in Seq(Int)
    BY <1>3 DEF Mnemonics
  <1>7. i1 \in Legal /\ i3 \in Legal
    BY <1>4, <1>5, <1>6, Plain
  <1>8. Tiles!isImm(v[2]) => i2 \in Legal
    <2> DEFINE k == v[2]
    <2>1. k \in Int
      BY <1>2
    <2> HIDE DEF k
    <2>2. Tiles!isImm(k) => Tiles!I("cmp#", -1, <<a.t>>, k) \in Legal
      BY <1>5, <1>6, <2>1, Imms
    <2> QED
      BY <2>2 DEF k
  <1> HIDE DEF i1, i2, i3
  <1>9. compared \in Asm
    BY <1>3, <1>4, <1>7, <1>8, Emits
  <1> HIDE DEF compared
  <1> QED
    BY <1>1, <1>7, <1>9, Emits

LEMMA MovedAsm ==
  ASSUME Sized, NEW r \in Asm, NEW d \in Int, NEW u \in Tiles!Operand
  PROVE  Tiles!moved(r, d, u) \in Asm
  <1> DEFINE v == IF Tiles!isConst(u) THEN Tiles!constant(d, u[2]) ELSE Tiles!address(d, u[2])
             k == u[2]
             m == Tiles!I("mov", d, <<k>>, 0)
  <1>1. k \in Int
    BY OperandInt
  <1> HIDE DEF k
  <1>2. m \in Legal
    <2>1. "mov" \in Mnemonics /\ <<k>> \in Seq(Int) /\ 0 \in Int \cup Relations
      BY <1>1 DEF Mnemonics
    <2> QED
      BY <2>1, Plain
  <1>3. v \in Seq(Legal)
    BY ValueLegal
  <1> HIDE DEF v, m
  <1>4. Tiles!emit(r, m) \in Asm /\ Tiles!emitAll(r, v) \in Asm
    BY <1>2, <1>3, Emits, EmitsAll
  <1> QED
    BY <1>4 DEF Tiles!moved, v, m, k

LEMMA StoredAsm ==
  ASSUME Sized, NEW r \in Asm, NEW u \in Tiles!Operand, NEW v \in Tiles!Operand
  PROVE  Tiles!storedAt(r, u, v) \in Asm
  <1> DEFINE o == Tiles!operands(r, v, u)
             n == Tiles!I("str", -1, o.t, 0)
  <1>1. o.q \in Asm /\ o.t \in Seq(Int)
    BY OperandsAsm
  <1> HIDE DEF o
  <1>2. n \in Legal
    <2>1. "str" \in Mnemonics /\ -1 \in Int /\ 0 \in Int \cup Relations
      BY DEF Mnemonics
    <2> QED
      BY <1>1, <2>1, Plain
  <1> HIDE DEF n
  <1>3. Tiles!emit(o.q, n) \in Asm
    BY <1>1, <1>2, Emits
  <1> QED
    BY <1>3 DEF Tiles!storedAt, o, n

LEMMA PassAsm ==
  ASSUME Sized, NEW a \in Asm, NEW k \in Nat \ {0}, NEW u \in Tiles!Operand
  PROVE  /\ Tiles!moved(a, k - 1, u) \in Asm
         /\ Tiles!storedAt(Tiles!binop(Tiles!newtemp(a), Tiles!Binop(a.nt, "+", Tiles!T(Tiles!sp), Tiles!C(4 * (k - 5)))), Tiles!T(a.nt), u) \in Asm
  <1> DEFINE x == 4 * (k - 5)
             b == Tiles!binop(Tiles!newtemp(a), Tiles!Binop(a.nt, "+", Tiles!T(Tiles!sp), Tiles!C(x)))
  <1>1. Tiles!newtemp(a) \in Asm /\ a.nt \in Int /\ Tiles!sp \in Int /\ x \in Int /\ k - 1 \in Int
    BY NewTemps DEF Tiles!sp
  <1>2. Tiles!moved(a, k - 1, u) \in Asm
    BY <1>1, MovedAsm
  <1> HIDE DEF x
  <1>3. b \in Asm
    BY <1>1, SumAsm
  <1>4. Tiles!T(a.nt) \in Tiles!Operand
    BY <1>1 DEF Tiles!T, Tiles!Operand
  <1> HIDE DEF b
  <1>5. Tiles!storedAt(b, Tiles!T(a.nt), u) \in Asm
    BY <1>3, <1>4, StoredAsm
  <1> QED
    BY <1>2, <1>5 DEF b, x

LEMMA CallAsm ==
  ASSUME Sized, NEW r \in Asm, NEW st, st.dst \in Int, st.args \in Seq(Tiles!Operand)
  PROVE  Tiles!call(r, st) \in Asm
  <1> DEFINE n == Len(st.args)
             size == 4 * Tiles!Max({n - 4, 0})
             moveBy(a, k) == IF size = 0 THEN a ELSE Tiles!binop(a, Tiles!Binop(Tiles!sp, "+", Tiles!T(Tiles!sp), Tiles!C(k)))
             pass(a, k) ==
               IF k <= 4 THEN Tiles!moved(a, k - 1, st.args[k])
               ELSE Tiles!storedAt(Tiles!binop(Tiles!newtemp(a), Tiles!Binop(a.nt, "+", Tiles!T(Tiles!sp), Tiles!C(4 * (k - 5)))), Tiles!T(a.nt), st.args[k])
             start == moveBy(r, -size)
             def(f) == [k \in 0..n |-> IF k = 0 THEN start ELSE pass(f[k - 1], k)]
             passed == CHOOSE f : f = def(f)
             bl == Tiles!I("bl", 0, << >>, n)
             mv == Tiles!I("mov", st.dst, <<0>>, 0)
             called == Tiles!emit(passed[n], bl)
  <1>1. Tiles!call(r, st) = Tiles!emit(moveBy(called, size), mv)
    BY DEF Tiles!call
  <1>2. n \in Nat /\ \A k \in 1..n : st.args[k] \in Tiles!Operand
    OBVIOUS
  <1> HIDE DEF n
  <1>3. size \in Int /\ -size \in Int /\ Tiles!sp \in Int
    <2>1. \E x \in {n - 4, 0} : \A y \in {n - 4, 0} : x >= y
      BY <1>2
    <2>2. Tiles!Max({n - 4, 0}) \in {n - 4, 0}
      BY <2>1 DEF Tiles!Max
    <2>3. Tiles!Max({n - 4, 0}) \in Int
      BY <1>2, <2>2
    <2> DEFINE m == Tiles!Max({n - 4, 0})
    <2>4. m \in Int
      BY <2>3
    <2> HIDE DEF m
    <2>5. 4 * m \in Int /\ -(4 * m) \in Int
      BY <2>4
    <2> QED
      BY <2>5 DEF m, Tiles!sp
  <1> HIDE DEF size
  <1>4. ASSUME NEW a \in Asm, NEW k \in Int PROVE moveBy(a, k) \in Asm
    BY <1>3, SumAsm
  <1>5. start \in Asm
    BY <1>3, <1>4
  <1>6. ASSUME NEW a \in Asm, NEW k \in 1..n PROVE pass(a, k) \in Asm
    <2>1. st.args[k] \in Tiles!Operand /\ k \in Nat \ {0}
      BY <1>2
    <2> QED
      BY <2>1, PassAsm
  <1> HIDE DEF start, pass, moveBy
  <1> DEFINE G == [z \in (1..n) \X Asm |-> pass(z[2], z[1])]
  <1>7. G \in [(1..n) \X Asm -> Asm]
    BY <1>6
  <1>8. PICK f : Iteration(f, n, Asm, start, G)
    <2> HIDE DEF G
    <2> QED
      BY <1>2, <1>5, <1>7, Iterates
  <1>9. f \in [0..n -> Asm] /\ f[0] = start /\ \A k \in 1..n : f[k] = pass(f[k - 1], k)
    <2>1. f \in [0..n -> Asm] /\ f[0] = start /\ \A k \in 1..n : f[k] = G[<<k, f[k - 1]>>]
      <3> HIDE DEF G
      <3> QED
        BY <1>8 DEF Iteration
    <2>2. ASSUME NEW k \in 1..n PROVE G[<<k, f[k - 1]>>] = pass(f[k - 1], k)
      <3>1. k - 1 \in 0..n
        BY <1>2
      <3>2. <<k, f[k - 1]>> \in (1..n) \X Asm
        BY <2>1, <3>1
      <3> QED
        BY <3>2
    <2> HIDE DEF G
    <2> QED
      BY <2>1, <2>2
  <1>10. f = def(f)
    <2>1. \A k \in 0..n : f[k] = IF k = 0 THEN start ELSE pass(f[k - 1], k)
      <3> SUFFICES ASSUME NEW k \in 0..n PROVE f[k] = IF k = 0 THEN start ELSE pass(f[k - 1], k)
        OBVIOUS
      <3>1. k # 0 => k \in 1..n
        BY <1>2
      <3> QED
        BY <1>9, <3>1
    <2>2. f = [k \in 0..n |-> f[k]]
      BY <1>9
    <2> QED
      BY <2>1, <2>2
  <1>11. passed = def(passed)
    <2> HIDE DEF def
    <2> QED
      BY <1>10
  <1> HIDE DEF passed
  <1>12. \A k \in 0..n : passed[k] = IF k = 0 THEN start ELSE pass(passed[k - 1], k)
    BY <1>11
  <1>13. passed[n] \in Asm
    <2> DEFINE S == {k \in Nat : k <= n => passed[k] \in Asm}
    <2>1. 0 \in S
      BY <1>5, <1>12, <1>2
    <2>2. ASSUME NEW k \in Nat, k \in S PROVE k + 1 \in S
      <3> SUFFICES ASSUME k + 1 <= n PROVE passed[k + 1] \in Asm
        OBVIOUS
      <3>1. k + 1 \in 0..n /\ k + 1 \in 1..n /\ k + 1 # 0 /\ (k + 1) - 1 = k /\ k <= n
        BY <1>2
      <3>2. passed[k] \in Asm
        BY <2>2, <3>1
      <3>3. passed[k + 1] = pass(passed[k], k + 1)
        BY <1>12, <3>1
      <3> QED
        BY <1>6, <3>1, <3>2, <3>3
    <2>3. n \in S
      <3> HIDE DEF S
      <3> QED
        BY <1>2, <2>1, <2>2, Induction
    <2> QED
      BY <2>3, <1>2
  <1>14. bl \in Legal /\ mv \in Legal
    <2>1. "bl" \in Mnemonics /\ "mov" \in Mnemonics /\ << >> \in Seq(Int) /\ <<0>> \in Seq(Int) /\ 0 \in Int
          /\ 0 \in Int \cup Relations /\ n \in Int \cup Relations
      BY <1>2 DEF Mnemonics
    <2> QED
      BY <2>1, Plain
  <1> HIDE DEF bl, mv
  <1>15. called \in Asm
    BY <1>13, <1>14, Emits
  <1> HIDE DEF called
  <1>16. moveBy(called, size) \in Asm
    BY <1>3, <1>4, <1>15
  <1> QED
    BY <1>1, <1>14, <1>16, Emits

LEMMA StatementFacts ==
  ASSUME NEW st \in Tiles!Statements
  PROVE  /\ st.op \in Tiles!Ops /\ st.dst \in Int /\ st.args \in Seq(Tiles!Operand)
         /\ st.op \in {"+", "-", "*", "/", "%", "store"} \cup Relations =>
              st.args[1] \in Tiles!Operand /\ st.args[2] \in Tiles!Operand
         /\ st.op \in {"load", "move"} => st.args[1] \in Tiles!Operand
         /\ Divides(st.op, st.args[1], st.args[2])
  <1>1. st.op \in Tiles!Ops /\ st.dst \in Int /\ st.args \in Seq(Tiles!Operand) /\ Tiles!Proper(st)
    BY DEF Tiles!Statements
  <1>2. st.op \in {"+", "-", "*", "/", "%", "store"} \cup Relations => Len(st.args) = 2
    BY <1>1 DEF Tiles!Proper, Tiles!isBinop, Tiles!isCjump, Relations
  <1>3. Divides(st.op, st.args[1], st.args[2])
    BY <1>1 DEF Tiles!Proper, Divides
  <1>4. st.op \in {"load", "move"} => Len(st.args) = 1
    BY <1>1 DEF Tiles!Proper
  <1> QED
    BY <1>1, <1>2, <1>3, <1>4

LEMMA StmAsm ==
  ASSUME Sized, NEW r \in Asm, NEW st \in Tiles!Statements
  PROVE  Tiles!stm(r, st) \in Asm
  <1> DEFINE a == Tiles!operand(r, st.args[1])
             ld == Tiles!I("ldr", st.dst, <<a.t>>, 0)
  <1>1. /\ st.op \in Tiles!Ops /\ st.dst \in Int /\ st.args \in Seq(Tiles!Operand)
        /\ st.op \in {"+", "-", "*", "/", "%", "store"} \cup Relations =>
              st.args[1] \in Tiles!Operand /\ st.args[2] \in Tiles!Operand
        /\ st.op \in {"load", "move"} => st.args[1] \in Tiles!Operand
        /\ Divides(st.op, st.args[1], st.args[2])
    BY StatementFacts
  <1>2. Tiles!stm(r, st) =
          CASE Tiles!isBinop(st) -> Tiles!binop(r, st)
            [] Tiles!isCjump(st) -> Tiles!cjump(r, st)
            [] st.op = "store" -> Tiles!storedAt(r, st.args[1], st.args[2])
            [] st.op = "load" -> Tiles!emit(a.q, ld)
            [] st.op = "move" -> Tiles!moved(r, st.dst, st.args[1])
            [] st.op = "call" -> Tiles!call(r, st)
    BY DEF Tiles!stm
  <1>3. Tiles!isBinop(st) => Tiles!binop(r, st) \in Asm
    BY <1>1, BinopAsm DEF Tiles!isBinop
  <1>4. Tiles!isCjump(st) => Tiles!cjump(r, st) \in Asm
    BY <1>1, CjumpAsm DEF Tiles!isCjump, Relations
  <1>5. st.op = "store" => Tiles!storedAt(r, st.args[1], st.args[2]) \in Asm
    BY <1>1, StoredAsm
  <1>6. st.op = "load" => Tiles!emit(a.q, ld) \in Asm
    <2> SUFFICES ASSUME st.op = "load" PROVE Tiles!emit(a.q, ld) \in Asm
      OBVIOUS
    <2>1. a.q \in Asm /\ a.t \in Int
      BY <1>1, OperandAsm
    <2>2. "ldr" \in Mnemonics /\ <<a.t>> \in Seq(Int) /\ 0 \in Int \cup Relations
      BY <2>1 DEF Mnemonics
    <2>3. ld \in Legal
      BY <1>1, <2>2, Plain
    <2> HIDE DEF a, ld
    <2> QED
      BY <2>1, <2>3, Emits
  <1>7. st.op = "move" => Tiles!moved(r, st.dst, st.args[1]) \in Asm
    BY <1>1, MovedAsm
  <1>8. st.op = "call" => Tiles!call(r, st) \in Asm
    BY <1>1, CallAsm
  <1>9. Tiles!isBinop(st) \/ Tiles!isCjump(st) \/ st.op \in {"store", "load", "move", "call"}
    BY <1>1 DEF Tiles!isBinop, Tiles!isCjump, Tiles!Ops
  <1> HIDE DEF a, ld
  <1> QED
    BY <1>2, <1>3, <1>4, <1>5, <1>6, <1>7, <1>8, <1>9

-----------------------------------------------------------------------------
(* The loop over the statements. *)

SelectInv == v1 \in Seq(Tiles!Statements) /\ v2 \in Asm

(* s2 is a statement, also when it is a load made a move. *)
LEMMA NextStatement ==
  ASSUME v1 \in Seq(Tiles!Statements), Len(v1) >= 2
  PROVE  Tiles!s1 \in Tiles!Statements /\ Tiles!s2 \in Tiles!Statements
  <1>1. v1[1] \in Tiles!Statements /\ v1[2] \in Tiles!Statements
    OBVIOUS
  <1>2. ASSUME Tiles!s1.op = "store" PROVE Tiles!Move(v1[2].dst, Tiles!s1.args[2]) \in Tiles!Statements
    <2>1. Tiles!s1.args[2] \in Tiles!Operand /\ v1[2].dst \in Int
      BY <1>1, <1>2, StatementFacts DEF Tiles!s1
    <2> DEFINE d == v1[2].dst
               u == Tiles!s1.args[2]
               m == Tiles!Move(d, u)
    <2> HIDE DEF d, u
    <2>2. d \in Int /\ u \in Tiles!Operand
      BY <2>1 DEF d, u
    <2>3. m = [op |-> "move", dst |-> d, args |-> <<u>>] /\ <<u>> \in Seq(Tiles!Operand) /\ Len(<<u>>) = 1 /\ "move" \in Tiles!Ops
      BY <2>2 DEF Tiles!Move, Tiles!Ops
    <2>4. m \in [op : Tiles!Ops, dst : Int, args : Seq(Tiles!Operand)]
      BY <2>2, <2>3
    <2>5. m.op = "move" /\ m.args = <<u>>
      BY <2>3
    <2> HIDE DEF m
    <2>6. Tiles!Proper(m)
      BY <2>3, <2>5 DEF Tiles!Proper, Tiles!isBinop, Tiles!isCjump
    <2>7. m \in Tiles!Statements
      BY <2>4, <2>6 DEF Tiles!Statements
    <2> QED
      BY <2>7 DEF m, d, u
  <1> QED
    BY <1>1, <1>2 DEF Tiles!s1, Tiles!s2

LEMMA Selects ==
  ASSUME Sized, SelectInv, Tiles!Next
  PROVE  SelectInv'
  <1>0. v2 \in Asm /\ v1 \in Seq(Tiles!Statements)
    BY DEF SelectInv
  <1>1. ASSUME Len(v1) >= 2
        PROVE  Tail(Tail(v1)) \in Seq(Tiles!Statements) /\ <<Tiles!s2>> \o Tail(Tail(v1)) \in Seq(Tiles!Statements)
    <2>1. v1 # << >> /\ Tail(v1) \in Seq(Tiles!Statements) /\ Len(Tail(v1)) >= 1
      BY <1>0, <1>1
    <2>2. Tail(Tail(v1)) \in Seq(Tiles!Statements)
      <3> DEFINE w == Tail(v1)
      <3>1. w \in Seq(Tiles!Statements) /\ Len(w) >= 1
        BY <2>1
      <3> HIDE DEF w
      <3>2. Tail(w) \in Seq(Tiles!Statements)
        BY <3>1
      <3> QED
        BY <3>2 DEF w
    <2>3. <<Tiles!s2>> \in Seq(Tiles!Statements)
      BY <1>0, <1>1, NextStatement, OneSeq
    <2> QED
      BY <2>2, <2>3, ConcatProperties
  <1>2. CASE Tiles!LoadAt
    <2>1. Len(v1) >= 2 /\ Tiles!isBinop(Tiles!s1) /\ Tiles!s1.op = "+" /\ Tiles!s2.op = "load" /\ (Tiles!hasConst(Tiles!s1) => Tiles!isOffset(Tiles!constOf(Tiles!s1)))
      BY <1>2 DEF Tiles!LoadAt, Tiles!loadsAt, Tiles!addresses
    <2>2. Tiles!s1.args[1] \in Tiles!Operand /\ Tiles!s1.args[2] \in Tiles!Operand /\ Tiles!s2.dst \in Int
      BY <1>0, <2>1, NextStatement, StatementFacts
    <2> DEFINE a == Tiles!operand(v2, Tiles!otherOf(Tiles!s1))
               o == Tiles!operands(v2, Tiles!s1.args[1], Tiles!s1.args[2])
               n == Tiles!I("ldr#", Tiles!s2.dst, <<a.t>>, Tiles!constOf(Tiles!s1))
               m == Tiles!I("ldr+", Tiles!s2.dst, o.t, 0)
    <2>3. v2' = IF Tiles!hasConst(Tiles!s1) THEN Tiles!emit(a.q, n) ELSE Tiles!emit(o.q, m)
      BY <1>2 DEF Tiles!LoadAt
    <2>4. a.q \in Asm /\ a.t \in Int
      <3>1. Tiles!otherOf(Tiles!s1) \in Tiles!Operand
        BY <2>2 DEF Tiles!otherOf
      <3> QED
        BY <1>0, <3>1, OperandAsm
    <2>5. o.q \in Asm /\ o.t \in Seq(Int)
      BY <1>0, <2>2, OperandsAsm
    <2> HIDE DEF a, o
    <2>6. <<a.t>> \in Seq(Int)
      BY <2>4
    <2>7. Tiles!hasConst(Tiles!s1) => n \in Legal
      <3> SUFFICES ASSUME Tiles!hasConst(Tiles!s1) PROVE n \in Legal
        OBVIOUS
      <3> DEFINE k == Tiles!constOf(Tiles!s1)
      <3>1. k \in Int
        BY <2>2, OperandInt DEF Tiles!constOf
      <3>2. Tiles!isOffset(k)
        BY <2>1
      <3> HIDE DEF k
      <3>3. k \in (-OffMax)..OffMax
        BY <3>1, <3>2 DEF Tiles!isOffset, Tiles!Abs, Sized, Tiles!SizesAssumption
      <3>4. Tiles!I("ldr#", Tiles!s2.dst, <<a.t>>, k) \in Legal
        BY <2>2, <2>6, <3>1, <3>3, Offsets
      <3> QED
        BY <3>4 DEF k
    <2>8. m \in Legal
      <3>1. "ldr+" \in Mnemonics /\ 0 \in Int \cup Relations
        BY DEF Mnemonics
      <3> QED
        BY <2>2, <2>5, <3>1, Plain
    <2> HIDE DEF n, m
    <2>9. v2' \in Asm
      BY <2>3, <2>4, <2>5, <2>7, <2>8, Emits
    <2>10. v1' = Tail(Tail(v1))
      BY <1>2 DEF Tiles!LoadAt
    <2> QED
      BY <1>1, <2>1, <2>9, <2>10 DEF SelectInv
  <1>3. CASE Tiles!StoreAt
    <2>1. Len(v1) >= 2 /\ Tiles!isBinop(Tiles!s1) /\ Tiles!s1.op = "+" /\ Tiles!s2.op = "store" /\ Tiles!hasConst(Tiles!s1)
      BY <1>3 DEF Tiles!StoreAt, Tiles!storesAt, Tiles!addresses
    <2>2. Tiles!s1.args[1] \in Tiles!Operand /\ Tiles!s1.args[2] \in Tiles!Operand /\ Tiles!s2.args[2] \in Tiles!Operand
      BY <1>0, <2>1, NextStatement, StatementFacts
    <2> DEFINE o == Tiles!operands(v2, Tiles!s2.args[2], Tiles!otherOf(Tiles!s1))
               b == Tiles!operand(v2, Tiles!s2.args[2])
               p == Tiles!operands(b.q, Tiles!s1.args[1], Tiles!s1.args[2])
               n == Tiles!I("str#", -1, o.t, Tiles!constOf(Tiles!s1))
               z == <<b.t>> \o p.t
               m == Tiles!I("str+", -1, z, 0)
    <2>3. v2' = IF Tiles!isOffset(Tiles!constOf(Tiles!s1)) THEN Tiles!emit(o.q, n) ELSE Tiles!emit(p.q, m)
      BY <1>3 DEF Tiles!StoreAt
    <2>4. o.q \in Asm /\ o.t \in Seq(Int)
      <3>1. Tiles!otherOf(Tiles!s1) \in Tiles!Operand
        BY <2>2 DEF Tiles!otherOf
      <3> QED
        BY <1>0, <2>2, <3>1, OperandsAsm
    <2>5. b.q \in Asm /\ b.t \in Int
      BY <1>0, <2>2, OperandAsm
    <2>6. p.q \in Asm /\ p.t \in Seq(Int)
      BY <2>2, <2>5, OperandsAsm
    <2> HIDE DEF o, b, p
    <2>7. Tiles!isOffset(Tiles!constOf(Tiles!s1)) => n \in Legal
      <3> SUFFICES ASSUME Tiles!isOffset(Tiles!constOf(Tiles!s1)) PROVE n \in Legal
        OBVIOUS
      <3> DEFINE k == Tiles!constOf(Tiles!s1)
      <3>1. k \in Int
        BY <2>2, OperandInt DEF Tiles!constOf
      <3>2. Tiles!isOffset(k)
        OBVIOUS
      <3> HIDE DEF k
      <3>3. k \in (-OffMax)..OffMax /\ -1 \in Int
        BY <3>1, <3>2 DEF Tiles!isOffset, Tiles!Abs, Sized, Tiles!SizesAssumption
      <3>4. Tiles!I("str#", -1, o.t, k) \in Legal
        BY <2>4, <3>1, <3>3, Offsets
      <3> QED
        BY <3>4 DEF k
    <2>8. m \in Legal
      <3>1. "str+" \in Mnemonics /\ 0 \in Int \cup Relations /\ -1 \in Int
        BY DEF Mnemonics
      <3>2. z \in Seq(Int)
        <4>1. <<b.t>> \in Seq(Int)
          BY <2>5
        <4> QED
          BY <2>6, <4>1, ConcatProperties
      <3> HIDE DEF z
      <3> QED
        BY <3>1, <3>2, Plain
    <2> HIDE DEF n, m
    <2>9. v2' \in Asm
      BY <2>3, <2>4, <2>6, <2>7, <2>8, Emits
    <2>10. v1' = Tail(Tail(v1))
      BY <1>3 DEF Tiles!StoreAt
    <2> QED
      BY <1>1, <2>1, <2>9, <2>10 DEF SelectInv
  <1>4. CASE Tiles!MultiplyAdd
    <2>1. Len(v1) >= 2 /\ Tiles!s1.op = "*" /\ Tiles!s2.op \in {"+", "-"} /\ Tiles!addend # {}
      BY <1>4 DEF Tiles!MultiplyAdd, Tiles!multipliesIn
    <2>2. Tiles!s1.args[1] \in Tiles!Operand /\ Tiles!s1.args[2] \in Tiles!Operand /\ Tiles!s2.args[1] \in Tiles!Operand /\ Tiles!s2.args[2] \in Tiles!Operand
          /\ Tiles!s2.dst \in Int
      BY <1>0, <2>1, NextStatement, StatementFacts
    <2> DEFINE o == Tiles!operands(v2, Tiles!s1.args[1], Tiles!s1.args[2])
               c == Tiles!operand(o.q, Tiles!one(Tiles!addend))
               name == IF Tiles!s2.op = "+" THEN "mla" ELSE "mls"
               z == Append(o.t, c.t)
               n == Tiles!I(name, Tiles!s2.dst, z, 0)
    <2>3. v2' = Tiles!emit(c.q, n)
      BY <1>4 DEF Tiles!MultiplyAdd
    <2>4. o.q \in Asm /\ o.t \in Seq(Int)
      BY <1>0, <2>2, OperandsAsm
    <2>5. c.q \in Asm /\ c.t \in Int
      <3>1. Tiles!addend \subseteq Tiles!Operand
        BY <2>2 DEF Tiles!addend
      <3>2. Tiles!one(Tiles!addend) \in Tiles!Operand
        BY <2>1, <3>1 DEF Tiles!one
      <3> HIDE DEF o
      <3> QED
        BY <2>4, <3>2, OperandAsm
    <2> HIDE DEF o, c
    <2>6. z \in Seq(Int)
      BY <2>4, <2>5
    <2>7. name \in {"mla", "mls"}
      OBVIOUS
    <2> HIDE DEF z, name
    <2>8. n \in Legal
      <3>1. name \in Mnemonics
        BY <2>7 DEF Mnemonics
      <3>2. 0 \in Int \cup Relations
        OBVIOUS
      <3> QED
        BY <2>2, <2>6, <2>7, <3>1, <3>2, Plain
    <2> HIDE DEF n
    <2>9. v2' \in Asm
      BY <2>3, <2>5, <2>8, Emits
    <2>10. v1' = Tail(Tail(v1))
      BY <1>4 DEF Tiles!MultiplyAdd
    <2> QED
      BY <1>1, <2>1, <2>9, <2>10 DEF SelectInv
  <1>5. CASE Tiles!One
    <2> DEFINE looked == Len(v1) >= 2 /\ Tiles!isBinop(Tiles!s1) /\ Tiles!s2.op = "store" /\ Tiles!isTemp(Tiles!s2.args[1])
               r == IF looked THEN Tiles!operand(v2, Tiles!s2.args[2]).q ELSE v2
    <2>1. v1 # << >> /\ v2' = Tiles!stm(r, Tiles!s1) /\ v1' = IF Len(v1) >= 2 THEN <<Tiles!s2>> \o Tail(Tail(v1)) ELSE << >>
      BY <1>5 DEF Tiles!One
    <2>2. Tiles!s1 \in Tiles!Statements
      BY <1>0, <2>1 DEF Tiles!s1
    <2>3. r \in Asm
      <3>1. CASE looked
        <4>1. Tiles!s2.args[2] \in Tiles!Operand
          BY <1>0, <3>1, NextStatement, StatementFacts
        <4> QED
          BY <1>0, <3>1, <4>1, OperandAsm
      <3>2. CASE ~ looked
        BY <1>0, <3>2
      <3> QED
        BY <3>1, <3>2
    <2> HIDE DEF r
    <2>4. v2' \in Asm
      BY <2>1, <2>2, <2>3, StmAsm
    <2>5. v1' \in Seq(Tiles!Statements)
      BY <1>1, <2>1, NoSeq
    <2> QED
      BY <2>4, <2>5 DEF SelectInv
  <1> QED
    BY <1>2, <1>3, <1>4, <1>5 DEF Tiles!Next

LEMMA SelectBegins ==
  ASSUME Tiles!GivenAssumption, Tiles!Init
  PROVE  SelectInv
  <1>1. PICK family \in Given : \E given \in family[1] : Tiles!InitWith(given, family[2])
    BY DEF Tiles!Init
  <1>2. PICK given \in family[1] : Tiles!InitWith(given, family[2])
    BY <1>1
  <1>3. v1 \in Seq(Tiles!Statements) /\ v2 = [code |-> << >>, nt |-> 2000]
    BY <1>2 DEF Tiles!InitWith, Tiles!GivenAssumption
  <1>4. << >> \in Seq(Legal) /\ 2000 \in Nat
    BY NoSeq
  <1> QED
    BY <1>3, <1>4 DEF SelectInv, Asm

(* In every state the instructions selected so far are ones the machine    *)
(* has, with operands in their ranges, and what is left are statements.    *)
THEOREM SelectInvariance ==
  ASSUME Tiles!SizesAssumption, Tiles!PowersAssumption, Tiles!GivenAssumption
  PROVE  StagesSpec => [](stage = "select" => SelectInv)
  <1> DEFINE Selected == stage = "select" => SelectInv
  <1>0. Sized
    BY DEF Sized
  <1>1. Begin => Selected
    BY SelectBegins DEF Begin
  <1>2. Selected /\ [Step]_stageVars => Selected'
    <2> SUFFICES ASSUME Selected, [Step]_stageVars, stage' = "select" PROVE SelectInv'
      OBVIOUS
    <2>1. stage' = stage /\ (Tiles!Next \/ UNCHANGED <<v1, v2>>)
      BY DEF Step, symbols, layout, floats, select, stageVars, upTo5, upTo3
    <2>2. SelectInv
      BY <2>1
    <2>3. CASE Tiles!Next
      BY <1>0, <2>2, <2>3, Selects
    <2>4. CASE UNCHANGED <<v1, v2>>
      BY <2>2, <2>4 DEF SelectInv
    <2> QED
      BY <2>1, <2>3, <2>4
  <1> QED
    BY <1>1, <1>2, PTL DEF StagesSpec

(* tile.cpp, muldiv.cpp: whatever the width of a word and the ranges of    *)
(* operands, no instruction is selected that the assembler refuses, apart  *)
(* from remainders of 1 and of the least number.                           *)
THEOREM Encodes ==
  ASSUME Tiles!SizesAssumption, Tiles!PowersAssumption, Tiles!GivenAssumption
  PROVE  StagesSpec => []Encodable
  <1>1. SelectInv => Tiles!Encodable
    <2> SUFFICES ASSUME SelectInv PROVE Tiles!Encodable
      OBVIOUS
    <2>1. v2.code \in Seq(Legal)
      BY DEF SelectInv, Asm
    <2>2. \A k \in DOMAIN v2.code : Tiles!Takes(v2.code[k])
      BY <2>1, LegalCode
    <2> QED
      BY <2>2 DEF Tiles!Encodable
  <1>2. (stage = "select" => SelectInv) => Encodable
    BY <1>1 DEF Encodable
  <1> QED
    BY <1>2, SelectInvariance, PTL
=============================================================================
