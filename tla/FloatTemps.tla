----------------------------- MODULE FloatTemps -----------------------------
(***************************************************************************)
(* Which temporaries need a float register (CANON::transIR,                *)
(* src/src/backend/canon.cpp): those a float operation reads or writes,    *)
(* and those moves connect with them.  Their numbers are complemented,     *)
(* which is how instruction selection and register allocation know them.   *)
(***************************************************************************)
EXTENDS Integers, Sequences, FiniteSets

CONSTANTS
  Codes,   \* sets of statements: [op, def, uses], def 0 if none
  FirstTemp \* 15: below are registers of the machine

VARIABLES code, mvmap, fset, worklist, phase

vars == <<code, mvmap, fset, worklist, phase>>

(* What transIR is given: a move is between two temporaries, and no float  *)
(* operation has a register of the machine for an operand.                 *)
Statement(s) ==
  /\ s.def \in Nat /\ s.uses \in SUBSET Nat /\ IsFiniteSet(s.uses)
  /\ s = [op |-> s.op, def |-> s.def, uses |-> s.uses]
  /\ s.op = "move" => \E u \in s.uses : s.uses = {u}
  /\ s.op \in {"f2i", "fbinop", "fcjump"} => \A u \in s.uses : u >= FirstTemp
  /\ s.op \in {"i2f", "fbinop"} => s.def = 0 \/ s.def >= FirstTemp

Handed(c) == IsFiniteSet(c) /\ \A s \in c : Statement(s)

CodesAssumption == FirstTemp \in Nat \ {0} /\ \A c \in Codes : Handed(c)

isttmove(s) == s.op = "move"
temps(c) == (UNION {{s.def} \cup s.uses : s \in c}) \ {0}

InitWith(c) ==
  /\ code = c
  /\ mvmap = {}
  /\ fset = {}
  /\ worklist = << >>
  /\ phase = "start"

Init == \E c \in Codes : InitWith(c)

(* Mutant: a move connects its source with its destination only. *)
connectedOne(d, s) == {<<d, s>>}

connected(d, s) == {<<d, s>>, <<s, d>>}

moves ==
  UNION {UNION {connected(s.def, u) : u \in {x \in s.uses : s.def >= FirstTemp /\ x >= FirstTemp}} :
         s \in {x \in code : isttmove(x)}}

(* What the statement itself says: the source of f2i, the result of i2f,   *)
(* everything a float operation or comparison touches.                     *)
floats(s) ==
  {t \in CASE s.op = "f2i" -> s.uses
           [] s.op = "i2f" -> {s.def}
           [] s.op = "fbinop" -> s.uses \cup {s.def}
           [] s.op = "fcjump" -> s.uses
           [] OTHER -> {} : t # 0}

(* The elements of a set of numbers in the order a std::set is read. *)
inOrder(S) ==
  [i \in 1..Cardinality(S) |-> CHOOSE m \in S : Cardinality({n \in S : n < m}) = i - 1]

collect ==
  LET f == UNION {floats(s) : s \in code}
  IN  /\ phase = "start"
      /\ mvmap' = moves
      /\ fset' = f
      /\ worklist' = inOrder(f)
      /\ phase' = "spread"
      /\ code' = code

spread ==
  LET t == Head(worklist)
      new == {u \in temps(code) : <<t, u>> \in mvmap} \ fset
  IN  /\ phase = "spread" /\ worklist # << >>
      /\ fset' = fset \cup new
      /\ worklist' = Tail(worklist) \o inOrder(new)
      /\ UNCHANGED <<code, mvmap, phase>>

marked(s) ==
  LET m(t) == IF t \in fset THEN -t - 1 ELSE t
  IN  [s EXCEPT !.def = m(@), !.uses = {m(u) : u \in @}]

mark ==
  /\ phase = "spread" /\ worklist = << >>
  /\ code' = {marked(s) : s \in code}
  /\ phase' = "done"
  /\ UNCHANGED <<mvmap, fset, worklist>>

Next == collect \/ spread \/ mark

Spec == Init /\ [][Next]_vars

-----------------------------------------------------------------------------
(* Properties. *)

Needed == UNION {floats(s) : s \in code}

(* What a move between two temporaries, one of them in T, touches. *)
near(T) ==
  UNION {{s.def} \cup s.uses : s \in
    {x \in code : /\ isttmove(x)
                  /\ \A t \in {x.def} \cup x.uses : t >= FirstTemp
                  /\ ({x.def} \cup x.uses) \cap T # {}}}

Closed(T) == Needed \subseteq T /\ near(T) \subseteq T

(* Joined to a float operation by moves, in any direction and over any     *)
(* number of them.                                                         *)
Joined ==
  LET closed == {T \in SUBSET temps(code) : Closed(T)}
  IN  {t \in temps(code) : \A T \in closed : t \in T}

(* Types. *)
TypeOK ==
  /\ phase \in {"start", "spread", "done"}
  /\ fset \subseteq {t \in Nat : t >= FirstTemp}
  /\ {worklist[k] : k \in DOMAIN worklist} \subseteq fset

(* When the worklist is empty, exactly the temporaries that moves join to  *)
(* a float operation are in float registers: an integer stays where it is. *)
Exact == phase = "spread" /\ worklist = << >> => fset = Joined

(* No move that is left is between the two kinds of registers, and no      *)
(* float operation has an operand of the other kind.                       *)
OneKind ==
  phase = "done" =>
    \A s \in code :
      /\ isttmove(s) => \A u \in s.uses :
           (s.def < 0 \/ s.def >= FirstTemp) /\ (u < 0 \/ u >= FirstTemp) => (s.def < 0 <=> u < 0)
      /\ \A t \in floats(s) : t < 0

(* What FloatTempHandle promises: a temporary goes to the float registers  *)
(* exactly when moves join it to a float operation, and then no statement  *)
(* mixes the two kinds of registers.                                       *)
FloatsExact == TypeOK /\ Exact /\ OneKind
=============================================================================
