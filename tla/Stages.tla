------------------------------- MODULE Stages -------------------------------
(***************************************************************************)
(* The stages of the compiler about which theorems are proved here and     *)
(* that no other model is composed with: the symbol table, the layout of   *)
(* basic blocks, temporaries for floats and instruction selection.  Each   *)
(* behaviour is one of one stage.  The layout has the variables of Traces; *)
(* of every other stage v1, v2... are the variables.  Those a stage has    *)
(* not are idle.                                                           *)
(***************************************************************************)
EXTENDS Traces

CONSTANTS
  Key, Mark, Value, Absent, MaxBound,     \* of SymTable
  Codes, FirstTemp,                       \* of FloatTemps
  Bits, ImmBelow, ImmHigh, OffMax, Given  \* of Tile

VARIABLES
  stage, v1, v2, v3, v4, v5, v6, v7, v8, v9, v10, v11, v12, v13, v14, v15, v16

upTo3 == <<v1, v2, v3>>
upTo5 == <<upTo3, v4, v5>>
above5 == <<v6, v7, v8, v9, v10, v11, v12, v13, v14, v15, v16>>
above3 == <<v4, v5, above5>>

stageVars == <<stage, vars, upTo5, above5>>

Table == INSTANCE SymTable WITH map <- v1, stk <- v2, closing <- v3

Temps == INSTANCE FloatTemps WITH
  code <- v1, mvmap <- v2, fset <- v3, worklist <- v4, phase <- v5

Tiles == INSTANCE Tile WITH
  stms <- v1, q <- v2, uses <- v3, whole <- v4, begins <- v5

(* The variables above the n-th are 0. *)
Unused(n) ==
  /\ IF n < 1 THEN v1 = 0 ELSE TRUE
  /\ IF n < 2 THEN v2 = 0 ELSE TRUE
  /\ IF n < 3 THEN v3 = 0 ELSE TRUE
  /\ IF n < 4 THEN v4 = 0 ELSE TRUE
  /\ IF n < 5 THEN v5 = 0 ELSE TRUE
  /\ IF n < 6 THEN v6 = 0 ELSE TRUE
  /\ IF n < 7 THEN v7 = 0 ELSE TRUE
  /\ IF n < 8 THEN v8 = 0 ELSE TRUE
  /\ IF n < 9 THEN v9 = 0 ELSE TRUE
  /\ IF n < 10 THEN v10 = 0 ELSE TRUE
  /\ IF n < 11 THEN v11 = 0 ELSE TRUE
  /\ IF n < 12 THEN v12 = 0 ELSE TRUE
  /\ IF n < 13 THEN v13 = 0 ELSE TRUE
  /\ IF n < 14 THEN v14 = 0 ELSE TRUE
  /\ IF n < 15 THEN v15 = 0 ELSE TRUE
  /\ IF n < 16 THEN v16 = 0 ELSE TRUE

(* The variables of the layout, with nothing to lay out. *)
NoLayout ==
  /\ list = << >> /\ stms = << >> /\ block = << >> /\ llist = << >> /\ out = << >>
  /\ env = {} /\ state = "OUT" /\ phase = "blocks" /\ nlabel = 1

Begin ==
  \/ stage = "symbols" /\ NoLayout /\ Unused(3) /\ Table!Init
  \/ stage = "layout" /\ Unused(0) /\ Init
  \/ stage = "floats" /\ NoLayout /\ Unused(5) /\ Temps!Init
  \/ stage = "select" /\ NoLayout /\ Unused(5) /\ Tiles!Init

symbols == stage = "symbols" /\ Table!Next /\ UNCHANGED <<stage, vars, above3>>

layout == stage = "layout" /\ Next /\ UNCHANGED <<stage, upTo5, above5>>

floats == stage = "floats" /\ Temps!Next /\ UNCHANGED <<stage, vars, above5>>

select == stage = "select" /\ Tiles!Next /\ UNCHANGED <<stage, vars, above5>>

Step == symbols \/ layout \/ floats \/ select

StagesSpec == Begin /\ [][Step]_stageVars

-----------------------------------------------------------------------------
(* Properties.  That of the layout of blocks is TraceSame.                 *)

(* The symbol table (table.hpp) behaves like a stack of scopes: a name     *)
(* bound twice in a scope, or bound in several nested ones, is what it was *)
(* outside when endScope has left the scope.  A name is bound exactly      *)
(* while a binding of it is on the stack, and endScope ends at the mark.   *)
ScopesKept ==
  /\ stage = "symbols" => Table!S!Init
  /\ [][stage = "symbols" => Table!ScopeStep]_stageVars

(* FloatTemp: exactly the temporaries that moves join to a float operation *)
(* are in float registers, and no move is left between the two kinds.      *)
FloatsExact == stage = "floats" => Temps!FloatsExact

(* Every constant and offset in an instruction is one that fits it.        *)
Encodable == stage = "select" => Tiles!Encodable
=============================================================================
