------------------------------ MODULE PhiMoves ------------------------------
(***************************************************************************)
(* Leaving SSA form (SSAIR::ssa2ir, src/src/ssa/BuildSSA.cpp): the phi     *)
(* functions of a block, which take their arguments all at once, become a  *)
(* list of moves at the end of each predecessor, which run one by one.     *)
(* Here for one predecessor: the moves are put in an order in which none   *)
(* overwrites a temporary that a later one reads, and where there is a     *)
(* circle a new temporary breaks it.  Each move is run as it is appended.  *)
(***************************************************************************)
EXTENDS Integers, Sequences, FiniteSets

CONSTANTS
  Temp,      \* the temporaries of the function
  Const,     \* the constants
  Fresh,     \* the temporaries Temp_newtemp has not given out yet
  PhiTables, \* what the phi functions of a block may be
  Nothing    \* what is in a temporary that has not been assigned

ASSUME DisjointAssumption == Temp \cap Const = {} /\ (Temp \cup Const) \cap Fresh = {}

Source == Temp \cup Const

(* The phi functions of the block: of each destination, its argument for   *)
(* the predecessor.                                                        *)
ASSUME PhiAssumption ==
  \A p \in PhiTables : IsFiniteSet(DOMAIN p) /\ DOMAIN p \subseteq Temp
                       /\ p \in [DOMAIN p -> Source]

VARIABLES
  phi,     \* the phi functions, Aphi[i] at argument cnt
  mvstms,  \* the moves to make: of each destination, its source
  indg,    \* of each temporary, how many of those moves read it
  mvq,     \* the queue of destinations that nothing reads any more
  addtmp,  \* the temporaries made to break circles
  store    \* what the temporaries hold after the moves made so far

vars == <<phi, mvstms, indg, mvq, addtmp, store>>

Reads(moves, t) == {d \in DOMAIN moves : moves[d] = t}

Without(moves, d) == [e \in DOMAIN moves \ {d} |-> moves[e]]

(* q lists S, in any order (that of a hash map).                           *)
Lists(q, S) ==
  /\ {q[i] : i \in DOMAIN q} = S
  /\ \A i, j \in DOMAIN q : q[i] = q[j] => i = j

-----------------------------------------------------------------------------
(* Every temporary starts with a value of its own, so that where a value   *)
(* came from shows.                                                        *)

Init ==
  /\ phi \in PhiTables
  /\ mvstms = [d \in {e \in DOMAIN phi : phi[e] # e} |-> phi[d]]
  /\ indg = [t \in Temp |-> Cardinality(Reads(mvstms, t))]
  /\ \E q \in [1..Cardinality({d \in DOMAIN mvstms : indg[d] = 0}) -> DOMAIN mvstms] :
       Lists(q, {d \in DOMAIN mvstms : indg[d] = 0}) /\ mvq = q
  /\ addtmp = {}
  /\ store = [t \in Temp \cup Fresh |-> IF t \in Temp THEN t ELSE Nothing]

(* What a source holds. *)
value(s) == IF s \in Const THEN s ELSE store[s]

(* Mutant: the source may be overwritten although another move reads it. *)
freedEarly(s) == s \in Temp

(* Mutant: off by one. *)
freedNever(s) == s \in Temp /\ indg[s] = 2

freed(s) == s \in Temp /\ indg[s] = 1

(* The move to the front of the queue is appended.  If it was the last to  *)
(* read its source, the source may be overwritten next.                    *)
emit(d) ==
  LET s == mvstms[d]
  IN  /\ mvq # << >>
      /\ d = Head(mvq)
      /\ store' = [store EXCEPT ![d] = value(s)]
      /\ indg' = IF s \in Temp THEN [indg EXCEPT ![s] = @ - 1] ELSE indg
      /\ mvq' = IF freed(s) /\ s \in DOMAIN mvstms THEN Append(Tail(mvq), s) ELSE Tail(mvq)
      /\ mvstms' = Without(mvstms, d)
      /\ UNCHANGED <<phi, addtmp>>

(* What the asserts say of a move that is left when the queue is empty: it *)
(* is part of a circle of temporaries that are read once.                  *)
InCircle(d) ==
  /\ mvstms[d] \in Temp \cap DOMAIN mvstms
  /\ indg[d] = 1
  /\ indg[mvstms[d]] = 1

(* Mutant: the source is not saved. *)
breakCircleUnsaved(d, t) ==
  /\ mvq = << >>
  /\ InCircle(d)
  /\ mvstms' = [mvstms EXCEPT ![d] = t]
  /\ indg' = [indg EXCEPT ![mvstms[d]] = 0]
  /\ mvq' = <<mvstms[d]>>
  /\ addtmp' = addtmp \cup {t}
  /\ UNCHANGED <<phi, store>>

(* Mutant: the source is not queued. *)
breakCircleUnqueued(d, t) ==
  /\ mvq = << >>
  /\ InCircle(d)
  /\ store' = [store EXCEPT ![t] = store[mvstms[d]]]
  /\ mvstms' = [mvstms EXCEPT ![d] = t]
  /\ indg' = [indg EXCEPT ![mvstms[d]] = 0]
  /\ addtmp' = addtmp \cup {t}
  /\ UNCHANGED <<phi, mvq>>

(* Only circles are left: the source of one of the moves is saved in a new *)
(* temporary, and may be overwritten then.                                 *)
breakCircle(d, t) ==
  LET s == mvstms[d]
  IN  /\ mvq = << >>
      /\ InCircle(d)
      /\ store' = [store EXCEPT ![t] = store[s]]
      /\ mvstms' = [mvstms EXCEPT ![d] = t]
      /\ indg' = [indg EXCEPT ![s] = 0]
      /\ mvq' = <<s>>
      /\ addtmp' = addtmp \cup {t}
      /\ UNCHANGED phi

Next ==
  \E d \in DOMAIN mvstms : emit(d) \/ \E t \in Fresh \ addtmp : breakCircle(d, t)

Spec == Init /\ [][Next]_vars

(* One thread runs the loop, and nothing in it blocks. *)
FairSpec == Spec /\ WF_vars(Next)

-----------------------------------------------------------------------------
(* Properties. *)

TypeOK ==
  /\ phi \in PhiTables
  /\ DOMAIN mvstms \subseteq DOMAIN phi
  /\ mvstms \in [DOMAIN mvstms -> Source \cup Fresh]
  /\ indg \in [Temp -> Nat]
  /\ mvq \in Seq(DOMAIN mvstms)
  /\ addtmp \subseteq Fresh
  /\ store \in [Temp \cup Fresh -> Source \cup {Nothing}]

(* When the moves are made, every destination holds what its argument held *)
(* before the first of them, and no other temporary has changed: the moves *)
(* do what the phi functions do.                                           *)
Parallel ==
  DOMAIN mvstms = {} =>
    \A t \in Temp : store[t] = IF t \in DOMAIN phi THEN phi[t] ELSE t

(* No move destroys a value that one still to be made needs.               *)
NothingLost == \A d \in DOMAIN mvstms : value(mvstms[d]) = phi[d]

(* A destination is queued once, and only when no move reads it.           *)
QueuedOnce ==
  /\ \A i, j \in DOMAIN mvq : mvq[i] = mvq[j] => i = j
  /\ \A i \in DOMAIN mvq : Reads(mvstms, mvq[i]) = {}

(* The asserts of ssa2ir hold: what is left when the queue is empty is     *)
(* circles.                                                                *)
OnlyCirclesLeft == mvq = << >> => \A d \in DOMAIN mvstms : InCircle(d)

(* All the moves are made. *)
Termination == <>(DOMAIN mvstms = {})
=============================================================================
