---------------------------- MODULE MCLoopUnroll ----------------------------
(* Loops for TLC, between any two values of at most Span, by steps of at   *)
(* most Stride.  Only those that end without an overflow have a meaning.   *)
(* Those that turn back and whose bound the compiler does not know are     *)
(* looked at apart (Backs).                                                *)
EXTENDS LoopUnroll

CONSTANTS Span, Stride, BoundLefts, Backs

MCLoops ==
  {l \in [cjump : Cjump, begin : (-Span - 1)..Span, end : (-Span - 1)..Span,
          step : (-Stride)..Stride, isConst : BOOLEAN] :
     /\ l.cjump.boundLeft \in BoundLefts /\ IsProper(l)
     /\ (byFour(l) /\ TurnsBack(l)) \in Backs}

(* The theorems of LoopUnrollProofs are about all of them if the bound is  *)
(* on the right, there is room for the differences and no loop with a      *)
(* block of four turns back.                                               *)
ASSUME OrdinaryAssumption ==
  BoundLefts = {FALSE} /\ Backs = {FALSE} /\ 2 * Span + 1 < Half /\ Span + 4 * Stride < Half
    => \A l \in MCLoops : Ordinary(l)
=============================================================================
