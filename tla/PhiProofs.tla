----------------------------- MODULE PhiProofs -----------------------------
(***************************************************************************)
(* Proofs about PhiMoves: for any number of phi functions with any         *)
(* arguments, the moves made one by one do what the phi functions do at    *)
(* once, and the asserts of ssa2ir hold.                                   *)
(***************************************************************************)
EXTENDS PhiMoves, FiniteSetTheorems, TLAPS

Queued(d) == \E i \in DOMAIN mvq : mvq[i] = d

(* indg counts the moves that read a temporary. *)
Counted == \A t \in Temp : indg[t] = Cardinality(Reads(mvstms, t))

(* A destination that no move reads is in the queue. *)
FreeQueued == \A d \in DOMAIN mvstms : Reads(mvstms, d) = {} => Queued(d)

(* Only a temporary made earlier can have replaced a source. *)
FreshUsed == \A d \in DOMAIN mvstms : mvstms[d] \in Fresh => mvstms[d] \in addtmp

(* A temporary that no move is to change any more has its final value. *)
Settled ==
  \A t \in Temp \ DOMAIN mvstms : store[t] = IF t \in DOMAIN phi THEN phi[t] ELSE t

IInv ==
  /\ TypeOK
  /\ Counted
  /\ FreeQueued
  /\ FreshUsed
  /\ Settled
  /\ NothingLost
  /\ QueuedOnce

-----------------------------------------------------------------------------
(* The moves that are left are finitely many, between temporaries.         *)
LEMMA MovesType ==
  ASSUME TypeOK
  PROVE  /\ IsFiniteSet(DOMAIN mvstms)
         /\ DOMAIN mvstms \subseteq Temp
         /\ \A d \in DOMAIN mvstms : mvstms[d] \in Source \cup Fresh
         /\ \A t : IsFiniteSet(Reads(mvstms, t))
<1>1. IsFiniteSet(DOMAIN phi) /\ DOMAIN phi \subseteq Temp
  BY PhiAssumption DEF TypeOK
<1>2. DOMAIN mvstms \subseteq DOMAIN phi /\ mvstms \in [DOMAIN mvstms -> Source \cup Fresh]
  BY DEF TypeOK
<1>3. IsFiniteSet(DOMAIN mvstms)
  BY <1>1, <1>2, FS_Subset
<1>4. \A t : IsFiniteSet(Reads(mvstms, t))
  BY <1>3, FS_Subset DEF Reads
<1> QED
  BY <1>1, <1>2, <1>3, <1>4

(* What no move reads has count zero; what one move reads, count one. *)
LEMMA CountOf ==
  ASSUME IInv, NEW t \in Temp
  PROVE  /\ indg[t] = 0 <=> Reads(mvstms, t) = {}
         /\ indg[t] = 1 <=> \E d : Reads(mvstms, t) = {d}
<1>1. indg[t] = Cardinality(Reads(mvstms, t)) /\ IsFiniteSet(Reads(mvstms, t))
  BY MovesType DEF IInv, Counted
<1> QED
  BY <1>1, FS_EmptySet, FS_Singleton

(* If every destination is the source of some move, every source is a      *)
(* destination and the source of one move only.                            *)
LEMMA Circles ==
  ASSUME NEW D, IsFiniteSet(D), NEW f, f \in [D -> {f[e] : e \in D}],
         \A d \in D : \E e \in D : f[e] = d
  PROVE  /\ \A d \in D : f[d] \in D
         /\ \A d, e \in D : f[d] = f[e] => d = e
<1> DEFINE R == {f[e] : e \in D}
<1>1. f \in Surjection(D, R)
  BY DEF Surjection
<1>2. IsFiniteSet(R) /\ Cardinality(R) <= Cardinality(D)
      /\ (Cardinality(R) = Cardinality(D) => f \in Injection(D, R))
  BY <1>1, FS_Surjection
<1>3. D \in SUBSET R
  OBVIOUS
<1>4. Cardinality(D) <= Cardinality(R) /\ (Cardinality(R) = Cardinality(D) => R = D)
  BY <1>2, <1>3, FS_Subset
<1>5. Cardinality(D) \in Nat /\ Cardinality(R) \in Nat
  BY <1>2, FS_CardinalityType
<1>6. R = D /\ f \in Injection(D, R)
  BY <1>2, <1>4, <1>5
<1> QED
  BY <1>6 DEF Injection, IsInjective

-----------------------------------------------------------------------------
(* About sequences. *)

LEMMA SeqFacts ==
  ASSUME NEW S, NEW q \in Seq(S)
  PROVE  Len(q) \in Nat /\ DOMAIN q = 1..Len(q) /\ (q # << >> => Len(q) >= 1 /\ Head(q) = q[1])
OBVIOUS

LEMMA TailFacts ==
  ASSUME NEW S, NEW q \in Seq(S), q # << >>
  PROVE  /\ Tail(q) \in Seq(S) /\ Len(Tail(q)) = Len(q) - 1
         /\ \A i \in 1..(Len(q) - 1) : Tail(q)[i] = q[i + 1]
OBVIOUS

LEMMA AppendFacts ==
  ASSUME NEW S, NEW q \in Seq(S), NEW x \in S
  PROVE  /\ Append(q, x) \in Seq(S) /\ DOMAIN Append(q, x) = 1..(Len(q) + 1)
         /\ Append(q, x)[Len(q) + 1] = x
         /\ \A i \in 1..Len(q) : Append(q, x)[i] = q[i]
OBVIOUS

LEMMA SeqOf ==
  ASSUME NEW S, NEW T, NEW q \in Seq(S), \A i \in DOMAIN q : q[i] \in T
  PROVE  q \in Seq(T)
OBVIOUS

-----------------------------------------------------------------------------
LEMMA InitIInv == Init => IInv
<1> SUFFICES ASSUME Init PROVE IInv
  OBVIOUS
<1> DEFINE F == {d \in DOMAIN mvstms : indg[d] = 0}
<1>1. /\ phi \in PhiTables /\ IsFiniteSet(DOMAIN phi) /\ DOMAIN phi \subseteq Temp
      /\ phi \in [DOMAIN phi -> Source]
  BY PhiAssumption DEF Init
<1>2. /\ mvstms = [d \in {e \in DOMAIN phi : phi[e] # e} |-> phi[d]]
      /\ indg = [t \in Temp |-> Cardinality(Reads(mvstms, t))]
      /\ addtmp = {}
      /\ store = [t \in Temp \cup Fresh |-> IF t \in Temp THEN t ELSE Nothing]
  BY DEF Init
<1>3. PICK q \in [1..Cardinality(F) -> DOMAIN mvstms] : Lists(q, F) /\ mvq = q
  BY DEF Init
<1>4. /\ DOMAIN mvstms = {e \in DOMAIN phi : phi[e] # e}
      /\ \A d \in DOMAIN mvstms : mvstms[d] = phi[d]
  BY <1>2
<1>5. IsFiniteSet(DOMAIN mvstms) /\ \A t : IsFiniteSet(Reads(mvstms, t))
  BY <1>1, <1>4, FS_Subset DEF Reads
<1>6. Cardinality(F) \in Nat
  BY <1>5, FS_Subset, FS_CardinalityType
<1>7. TypeOK
  <2>1. indg \in [Temp -> Nat]
    BY <1>2, <1>5, FS_CardinalityType
  <2>2. mvq \in Seq(DOMAIN mvstms)
    <3>1. \A n \in Nat : \A s \in [1..n -> DOMAIN mvstms] : s \in Seq(DOMAIN mvstms)
      OBVIOUS
    <3> QED
      BY ONLY <1>3, <1>6, <3>1
  <2>3. store \in [Temp \cup Fresh -> Source \cup {Nothing}]
    BY <1>2 DEF Source
  <2>4. mvstms \in [DOMAIN mvstms -> Source \cup Fresh]
    BY <1>1, <1>2, <1>4
  <2> QED
    BY <1>1, <1>2, <1>4, <2>1, <2>2, <2>3, <2>4 DEF TypeOK
<1>8. Counted
  BY <1>2 DEF Counted
<1>9. \A d \in DOMAIN mvstms : d \in F <=> Reads(mvstms, d) = {}
  <2> TAKE d \in DOMAIN mvstms
  <2>1. d \in Temp /\ indg[d] = Cardinality(Reads(mvstms, d))
    BY <1>1, <1>2, <1>4
  <2> QED
    BY <2>1, <1>5, FS_EmptySet
<1>10. {mvq[i] : i \in DOMAIN mvq} = F /\ \A i, j \in DOMAIN mvq : mvq[i] = mvq[j] => i = j
  BY <1>3 DEF Lists
<1>11. FreeQueued /\ QueuedOnce
  BY <1>9, <1>10 DEF FreeQueued, QueuedOnce, Queued
<1>12. FreshUsed
  BY <1>1, <1>4, DisjointAssumption DEF FreshUsed, Source
<1>13. Settled
  BY <1>1, <1>2, <1>4 DEF Settled
<1>14. NothingLost
  BY <1>1, <1>2, <1>4, DisjointAssumption DEF NothingLost, value, Source
<1> QED
  BY <1>7, <1>8, <1>11, <1>12, <1>13, <1>14 DEF IInv

-----------------------------------------------------------------------------
(* Appending the move to d leaves the other moves as they are; nothing     *)
(* reads d, and one less reads its source.                                 *)
LEMMA EmitFacts ==
  ASSUME IInv, NEW d \in DOMAIN mvstms, emit(d), NEW s, s = mvstms[d]
  PROVE  /\ phi' = phi /\ addtmp' = addtmp /\ mvq # << >> /\ d = Head(mvq)
         /\ d \in DOMAIN phi /\ d \in Temp /\ value(s) = phi[d]
         /\ DOMAIN mvstms' = DOMAIN mvstms \ {d}
         /\ \A e \in DOMAIN mvstms' : mvstms'[e] = mvstms[e]
         /\ \A t \in Temp \cup Fresh : store'[t] = IF t = d THEN phi[d] ELSE store[t]
         /\ Reads(mvstms, d) = {}
         /\ \A t : Reads(mvstms', t) = Reads(mvstms, t) \ {d}
<1>1. DOMAIN mvstms \subseteq DOMAIN phi /\ d \in Temp /\ store \in [Temp \cup Fresh -> Source \cup {Nothing}]
  BY MovesType DEF IInv, TypeOK
<1>2. value(s) = phi[d]
  BY DEF IInv, NothingLost
<1>3. phi' = phi /\ addtmp' = addtmp /\ mvq # << >> /\ d = Head(mvq) /\ mvstms' = Without(mvstms, d)
      /\ store' = [store EXCEPT ![d] = value(s)]
  BY DEF emit
<1>4. mvq \in Seq(DOMAIN mvstms)
  BY DEF IInv, TypeOK
<1>5. 1 \in DOMAIN mvq /\ mvq[1] = d
  BY <1>3, <1>4
<1>6. Reads(mvstms, d) = {}
  BY <1>5 DEF IInv, QueuedOnce
<1>7. DOMAIN mvstms' = DOMAIN mvstms \ {d} /\ \A e \in DOMAIN mvstms' : mvstms'[e] = mvstms[e]
  BY <1>3 DEF Without
<1> QED
  BY <1>1, <1>2, <1>3, <1>6, <1>7 DEF Reads

(* The queue after d was taken off it, and s perhaps put on. *)
LEMMA EmitQueue ==
  ASSUME IInv, NEW d \in DOMAIN mvstms, emit(d), NEW s, s = mvstms[d]
  PROVE  /\ mvq' \in Seq(DOMAIN mvstms')
         /\ \A i, j \in DOMAIN mvq' : mvq'[i] = mvq'[j] => i = j
         /\ \A i \in DOMAIN mvq' : Reads(mvstms', mvq'[i]) = {}
         /\ \A e : Queued(e) /\ e # d => Queued(e)'
         /\ (freed(s) /\ s \in DOMAIN mvstms) => Queued(s)'
<1> DEFINE tail == Tail(mvq)
           on == freed(s) /\ s \in DOMAIN mvstms
<1>1. mvq \in Seq(DOMAIN mvstms) /\ mvq # << >> /\ Len(mvq) \in Nat \ {0}
      /\ DOMAIN mvq = 1..Len(mvq) /\ mvq[1] = d
  <2>1. mvq \in Seq(DOMAIN mvstms)
    BY DEF IInv, TypeOK
  <2>2. mvq # << >> /\ d = Head(mvq)
    BY EmitFacts
  <2> QED
    BY <2>1, <2>2, SeqFacts
<1>2. /\ \A i, j \in 1..Len(mvq) : mvq[i] = mvq[j] => i = j
      /\ \A i \in 1..Len(mvq) : Reads(mvstms, mvq[i]) = {}
  BY <1>1 DEF IInv, QueuedOnce
<1>3. /\ tail \in Seq(DOMAIN mvstms) /\ Len(tail) = Len(mvq) - 1
      /\ DOMAIN tail = 1..(Len(mvq) - 1)
      /\ \A i \in 1..(Len(mvq) - 1) : tail[i] = mvq[i + 1] /\ i + 1 \in 1..Len(mvq)
  <2>1. tail \in Seq(DOMAIN mvstms) /\ Len(tail) = Len(mvq) - 1
        /\ \A i \in 1..(Len(mvq) - 1) : tail[i] = mvq[i + 1]
    BY <1>1, TailFacts
  <2>2. DOMAIN tail = 1..Len(tail)
    BY <2>1, SeqFacts
  <2> QED
    BY <1>1, <2>1, <2>2
<1>4. mvq' = IF on THEN Append(tail, s) ELSE tail
  BY DEF emit
<1>5. \A i \in 1..(Len(mvq) - 1) : tail[i] # d /\ tail[i] \in DOMAIN mvstms
  BY <1>1, <1>2, <1>3
<1>6. \A i, j \in 1..(Len(mvq) - 1) : tail[i] = tail[j] => i = j
  BY <1>1, <1>2, <1>3
<1>7. on => Reads(mvstms, s) = {d} /\ s # d
  <2> SUFFICES ASSUME on PROVE Reads(mvstms, s) = {d} /\ s # d
    OBVIOUS
  <2>1. s \in Temp /\ indg[s] = 1
    BY DEF freed
  <2>2. PICK x : Reads(mvstms, s) = {x}
    BY <2>1, CountOf
  <2>3. d \in Reads(mvstms, s)
    BY DEF Reads
  <2> QED
    BY <2>2, <2>3, EmitFacts
<1>8. on => \A i \in 1..(Len(mvq) - 1) : tail[i] # s
  BY <1>2, <1>3, <1>7
<1>9. \A i \in 1..(Len(mvq) - 1) : Reads(mvstms', tail[i]) = {}
  BY <1>2, <1>3, EmitFacts
<1>10. on => Reads(mvstms', s) = {}
  BY <1>7, EmitFacts
<1>11. DOMAIN mvstms' = DOMAIN mvstms \ {d}
  BY EmitFacts
<1>12. tail \in Seq(DOMAIN mvstms')
  <2>1. \A i \in DOMAIN tail : tail[i] \in DOMAIN mvstms'
    BY <1>3, <1>5, <1>11
  <2> QED
    BY <1>3, <2>1, SeqOf
<1>13. \A e : Queued(e) /\ e # d => \E i \in 1..(Len(mvq) - 1) : tail[i] = e
  <2> SUFFICES ASSUME NEW e, Queued(e), e # d
               PROVE  \E i \in 1..(Len(mvq) - 1) : tail[i] = e
    OBVIOUS
  <2>1. PICK k \in 1..Len(mvq) : mvq[k] = e
    BY <1>1 DEF Queued
  <2>2. k # 1 /\ k - 1 \in 1..(Len(mvq) - 1) /\ tail[k - 1] = mvq[(k - 1) + 1]
    BY <1>1, <1>3, <2>1
  <2> QED
    BY <1>1, <2>1, <2>2
<1> HIDE DEF tail, on
<1>14. CASE ~ on
  <2>1. mvq' = tail
    BY <1>4, <1>14
  <2> QED
    BY <1>3, <1>6, <1>9, <1>12, <1>13, <1>14, <2>1 DEF Queued, on
<1>15. CASE on
  <2>1. mvq' = Append(tail, s) /\ s \in DOMAIN mvstms'
    BY <1>4, <1>7, <1>11, <1>15 DEF on
  <2>2. /\ mvq' \in Seq(DOMAIN mvstms')
        /\ DOMAIN mvq' = 1..Len(mvq)
        /\ mvq'[Len(mvq)] = s
        /\ \A i \in 1..(Len(mvq) - 1) : mvq'[i] = tail[i]
    <3>1. (Len(mvq) - 1) + 1 = Len(mvq)
      BY <1>1
    <3> QED
      BY <1>3, <1>12, <2>1, <3>1, AppendFacts
  <2>3. /\ \A i \in 1..Len(mvq) : i = Len(mvq) \/ i \in 1..(Len(mvq) - 1)
        /\ Len(mvq) \in 1..Len(mvq) /\ \A i \in 1..(Len(mvq) - 1) : i \in 1..Len(mvq)
    <3>1. Len(mvq) \in Nat \ {0}
      BY <1>1
    <3> QED
      BY ONLY <3>1
  <2>4. \A i, j \in DOMAIN mvq' : mvq'[i] = mvq'[j] => i = j
    BY <1>6, <1>8, <1>15, <2>2, <2>3
  <2>5. \A i \in DOMAIN mvq' : Reads(mvstms', mvq'[i]) = {}
    BY <1>9, <1>10, <1>15, <2>2, <2>3
  <2>6. \A e : Queued(e) /\ e # d => Queued(e)'
    BY <1>13, <2>2, <2>3 DEF Queued
  <2>7. Queued(s)'
    BY <2>2, <2>3 DEF Queued
  <2> QED
    BY <2>2, <2>4, <2>5, <2>6, <2>7
<1> QED
  BY <1>14, <1>15

LEMMA EmitIInv ==
  ASSUME IInv, NEW d \in DOMAIN mvstms, emit(d)
  PROVE  IInv'
<1> DEFINE s == mvstms[d]
<1>1. /\ TypeOK /\ s \in Source \cup Fresh /\ DOMAIN mvstms \subseteq Temp
      /\ \A t : IsFiniteSet(Reads(mvstms, t))
      /\ \A e \in DOMAIN mvstms : mvstms[e] \in Source \cup Fresh
  BY MovesType DEF IInv
<1>2. /\ phi' = phi /\ addtmp' = addtmp
      /\ d \in DOMAIN phi /\ d \in Temp
      /\ DOMAIN mvstms' = DOMAIN mvstms \ {d}
      /\ \A e \in DOMAIN mvstms' : mvstms'[e] = mvstms[e]
      /\ \A t \in Temp \cup Fresh : store'[t] = IF t = d THEN phi[d] ELSE store[t]
      /\ Reads(mvstms, d) = {}
      /\ \A t : Reads(mvstms', t) = Reads(mvstms, t) \ {d}
  BY EmitFacts
<1>3. \A t \in Temp : /\ indg'[t] = IF t = s THEN indg[t] - 1 ELSE indg[t]
                      /\ indg[t] = Cardinality(Reads(mvstms, t))
                      /\ indg[t] \in Nat
  BY DEF emit, IInv, TypeOK, Counted
<1>4. \A t \in Temp : indg'[t] = Cardinality(Reads(mvstms, t) \ {d})
  <2> TAKE t \in Temp
  <2>1. Cardinality(Reads(mvstms, t) \ {d})
          = IF d \in Reads(mvstms, t) THEN Cardinality(Reads(mvstms, t)) - 1
                                      ELSE Cardinality(Reads(mvstms, t))
    BY <1>1, FS_RemoveElement
  <2>2. d \in Reads(mvstms, t) <=> t = s
    BY DEF Reads
  <2> QED
    BY <1>3, <2>1, <2>2
<1>5. TypeOK'
  <2>1. DOMAIN mvstms' \subseteq DOMAIN phi' /\ mvstms' \in [DOMAIN mvstms' -> Source \cup Fresh]
    <3>1. mvstms' = Without(mvstms, d)
      BY DEF emit
    <3> QED
      BY <1>1, <1>2, <3>1 DEF Without, TypeOK
  <2>2. indg' \in [Temp -> Nat]
    <3>1. ASSUME NEW t \in Temp PROVE indg'[t] \in Nat
      <4>1. IsFiniteSet(Reads(mvstms, t) \ {d})
        BY <1>1, FS_RemoveElement
      <4> QED
        BY <1>4, <4>1, FS_CardinalityType
    <3>2. indg' = [t \in Temp |-> indg'[t]]
      BY <1>1 DEF emit, TypeOK
    <3> QED
      BY <3>1, <3>2
  <2>3. store' \in [Temp \cup Fresh -> Source \cup {Nothing}]
    <3>1. phi[d] \in Source
      BY <1>1, <1>2, PhiAssumption DEF TypeOK
    <3>2. store' = [store EXCEPT ![d] = value(s)] /\ value(s) = phi[d]
      BY EmitFacts DEF emit
    <3> QED
      BY <1>1, <3>1, <3>2 DEF TypeOK
  <2>4. mvq' \in Seq(DOMAIN mvstms')
    BY EmitQueue
  <2> QED
    BY <1>1, <1>2, <2>1, <2>2, <2>3, <2>4 DEF TypeOK
<1>6. Counted'
  BY <1>2, <1>4 DEF Counted
<1>7. FreeQueued'
  <2> SUFFICES ASSUME NEW e \in DOMAIN mvstms', Reads(mvstms', e) = {}
               PROVE  Queued(e)'
    BY DEF FreeQueued
  <2>1. e \in DOMAIN mvstms /\ e # d /\ e \in Temp
    BY <1>1, <1>2
  <2>2. CASE Reads(mvstms, e) = {}
    BY <2>1, <2>2, EmitQueue DEF IInv, FreeQueued
  <2>3. CASE Reads(mvstms, e) # {}
    <3>1. Reads(mvstms, e) = {d}
      BY <1>2, <2>3
    <3>2. e = s /\ indg[e] = 1
      BY <2>1, <3>1, CountOf DEF Reads
    <3> QED
      BY <2>1, <3>2, EmitQueue DEF freed
  <2> QED
    BY <2>2, <2>3
<1>8. FreshUsed'
  BY <1>2 DEF IInv, FreshUsed
<1>9. Settled'
  BY <1>2 DEF IInv, Settled
<1>10. NothingLost'
  <2> SUFFICES ASSUME NEW e \in DOMAIN mvstms'
               PROVE  value(mvstms[e])' = phi[e]
    BY <1>2 DEF NothingLost
  <2>1. e \in DOMAIN mvstms /\ mvstms[e] # d /\ mvstms'[e] = mvstms[e]
    BY <1>2 DEF Reads
  <2>2. mvstms[e] \in Const \/ mvstms[e] \in Temp \cup Fresh
    BY <1>1, <2>1 DEF Source
  <2>3. value(mvstms[e]) = phi[e]
    BY <2>1 DEF IInv, NothingLost
  <2> QED
    BY <1>2, <2>1, <2>2, <2>3 DEF value
<1>11. QueuedOnce'
  BY EmitQueue DEF QueuedOnce
<1> QED
  BY <1>5, <1>6, <1>7, <1>8, <1>9, <1>10, <1>11 DEF IInv

LEMMA BreakIInv ==
  ASSUME IInv, NEW d \in DOMAIN mvstms, NEW t \in Fresh \ addtmp, breakCircle(d, t)
  PROVE  IInv'
<1> DEFINE s == mvstms[d]
<1>1. /\ TypeOK /\ DOMAIN mvstms \subseteq Temp
      /\ \A e \in DOMAIN mvstms : mvstms[e] \in Source \cup Fresh
  BY MovesType DEF IInv
<1>2. /\ mvq = << >> /\ s \in Temp /\ s \in DOMAIN mvstms /\ indg[s] = 1
      /\ store' = [store EXCEPT ![t] = store[s]]
      /\ mvstms' = [mvstms EXCEPT ![d] = t]
      /\ indg' = [indg EXCEPT ![s] = 0]
      /\ mvq' = <<s>> /\ addtmp' = addtmp \cup {t} /\ phi' = phi
  BY DEF breakCircle, InCircle
<1>3. t \notin Temp /\ t \notin Const /\ t \in Fresh
  BY DisjointAssumption
<1>4. DOMAIN mvstms' = DOMAIN mvstms
      /\ \A e \in DOMAIN mvstms : mvstms'[e] = IF e = d THEN t ELSE mvstms[e]
  BY <1>1, <1>2 DEF TypeOK
<1>5. \A e \in DOMAIN mvstms : mvstms[e] # t
  BY <1>1, <1>3 DEF IInv, FreshUsed
<1>6. Reads(mvstms, s) = {d}
  <2>1. PICK x : Reads(mvstms, s) = {x}
    BY <1>2, CountOf
  <2> QED
    BY <2>1 DEF Reads
<1>7. Reads(mvstms', s) = {}
  BY <1>2, <1>3, <1>4, <1>6 DEF Reads
<1>8. \A u \in Temp : u # s => Reads(mvstms', u) = Reads(mvstms, u)
  BY <1>3, <1>4 DEF Reads
<1>9. TypeOK'
  <2>1. mvq' \in Seq(DOMAIN mvstms')
    BY <1>2, <1>4
  <2>2. store' \in [Temp \cup Fresh -> Source \cup {Nothing}]
    BY <1>1, <1>2 DEF TypeOK
  <2>3. indg' \in [Temp -> Nat]
    BY <1>1, <1>2 DEF TypeOK
  <2>4. mvstms' \in [DOMAIN mvstms' -> Source \cup Fresh]
    BY <1>1, <1>2, <1>4 DEF TypeOK
  <2> QED
    BY <1>1, <1>2, <1>4, <2>1, <2>2, <2>3, <2>4 DEF TypeOK
<1>10. Counted'
  <2> SUFFICES ASSUME NEW u \in Temp
               PROVE  indg'[u] = Cardinality(Reads(mvstms', u))
    BY DEF Counted
  <2>1. indg'[u] = IF u = s THEN 0 ELSE indg[u]
    BY <1>1, <1>2 DEF TypeOK
  <2> QED
    BY <1>7, <1>8, <2>1, FS_EmptySet DEF IInv, Counted
<1>11. \A e \in DOMAIN mvstms : Reads(mvstms, e) # {}
  BY <1>2 DEF IInv, FreeQueued, Queued
<1>12. mvq' = <<s>> /\ DOMAIN mvq' = {1} /\ mvq'[1] = s
  BY <1>2
<1>13. FreeQueued'
  BY <1>1, <1>4, <1>8, <1>11, <1>12 DEF FreeQueued, Queued
<1>14. FreshUsed'
  BY <1>2, <1>4 DEF IInv, FreshUsed
<1>15. \A u \in Temp \cup Fresh : store'[u] = IF u = t THEN store[s] ELSE store[u]
  BY <1>1, <1>2 DEF TypeOK
<1>16. Settled'
  BY <1>2, <1>3, <1>4, <1>15 DEF IInv, Settled
<1>17. NothingLost'
  <2> SUFFICES ASSUME NEW e \in DOMAIN mvstms
               PROVE  value(mvstms[e])' = phi[e]
    BY <1>2, <1>4 DEF NothingLost
  <2>1. value(mvstms[e]) = phi[e]
    BY DEF IInv, NothingLost
  <2>2. CASE e = d
    <3>1. s \notin Const
      BY <1>2, DisjointAssumption
    <3> QED
      BY <1>3, <1>4, <1>15, <2>1, <2>2, <3>1 DEF value
  <2>3. CASE e # d
    <3>1. mvstms[e] \in Const \/ (mvstms[e] \in Temp \cup Fresh /\ mvstms[e] # t)
      BY <1>1, <1>5 DEF Source
    <3> QED
      BY <1>4, <1>15, <2>1, <2>3, <3>1 DEF value
  <2> QED
    BY <2>2, <2>3
<1>18. QueuedOnce'
  BY <1>7, <1>12 DEF QueuedOnce
<1> QED
  BY <1>9, <1>10, <1>13, <1>14, <1>16, <1>17, <1>18 DEF IInv

LEMMA StutterIInv == IInv /\ UNCHANGED vars => IInv'
BY DEF IInv, TypeOK, Counted, FreeQueued, Queued, FreshUsed, Settled, NothingLost, QueuedOnce,
       value, vars

(* The invariant holds in every state of the loop of ssa2ir. *)
THEOREM Invariance == Spec => []IInv
<1>1. IInv /\ [Next]_vars => IInv'
  BY EmitIInv, BreakIInv, StutterIInv DEF Next
<1> QED
  BY <1>1, InitIInv, PTL DEF Spec

(* The counts are never negative and the queue holds only moves that are   *)
(* still to be made: none of the lookups in ssa2ir fails.                  *)
THEOREM TypeCorrect == Spec => []TypeOK
BY Invariance, PTL DEF IInv

(* The moves appended to a predecessor do what the phi functions of the    *)
(* block do at once, whatever the phi functions and the order of the hash  *)
(* maps.                                                                   *)
THEOREM Correctness == Spec => []Parallel
<1>1. IInv => Parallel
  BY DEF IInv, Settled, Parallel
<1> QED
  BY <1>1, Invariance, PTL

(* No move overwrites what a later move reads. *)
THEOREM Preservation == Spec => []NothingLost
BY Invariance, PTL DEF IInv

(* A destination is put in the queue once, when nothing reads it. *)
THEOREM Queueing == Spec => []QueuedOnce
BY Invariance, PTL DEF IInv

(* The asserts where a circle is broken never fail. *)
THEOREM AssertsHold == Spec => []OnlyCirclesLeft
<1>1. IInv => OnlyCirclesLeft
  <2> SUFFICES ASSUME IInv, mvq = << >>, NEW d \in DOMAIN mvstms
               PROVE  InCircle(d)
    BY DEF OnlyCirclesLeft
  <2>1. /\ IsFiniteSet(DOMAIN mvstms) /\ DOMAIN mvstms \subseteq Temp
        /\ mvstms = [e \in DOMAIN mvstms |-> mvstms[e]]
    BY MovesType DEF IInv, TypeOK
  <2>2. \A e \in DOMAIN mvstms : \E f \in DOMAIN mvstms : mvstms[f] = e
    BY DEF IInv, FreeQueued, Queued, Reads
  <2>3. /\ \A e \in DOMAIN mvstms : mvstms[e] \in DOMAIN mvstms
        /\ \A e, f \in DOMAIN mvstms : mvstms[e] = mvstms[f] => e = f
    BY <2>1, <2>2, Circles
  <2>4. \A e \in DOMAIN mvstms : indg[e] = 1
    <3> TAKE e \in DOMAIN mvstms
    <3>1. \E x : Reads(mvstms, e) = {x}
      BY <2>2, <2>3 DEF Reads
    <3> QED
      BY <2>1, <3>1, CountOf
  <2> QED
    BY <2>1, <2>3, <2>4 DEF InCircle
<1> QED
  BY <1>1, Invariance, PTL
=============================================================================
