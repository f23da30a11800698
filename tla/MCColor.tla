------------------------------ MODULE MCColor ------------------------------
(* Small interference graphs for TLC: every set of edges between the nodes *)
(* of MCNode that join no two registers, and every set of at most MoveMax  *)
(* moves.                                                                  *)
EXTENDS Color

CONSTANTS NodeCount, RegCount, ColourCount, MoveMax

MCNode == 0..(NodeCount - 1)
MCReg == 0..(RegCount - 1)
MCColour == 0..(ColourCount - 1)
MCPrecolour == [r \in MCReg |-> r]

Pairs == {p \in SUBSET MCNode : Cardinality(p) = 2 /\ ~ (p \subseteq MCReg)}

GraphOf(edges) == [n \in MCNode |-> {m \in MCNode \ {n} : {m, n} \in edges}]

MCConflictGraphs == {GraphOf(edges) : edges \in SUBSET Pairs}

MCMoveGraphs ==
  {GraphOf(edges) : edges \in {e \in SUBSET Pairs : Cardinality(e) <= MoveMax}}
=============================================================================
