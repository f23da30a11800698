----------------------------- MODULE MCPhiMoves -----------------------------
(* Every block with phi functions for up to all of four of five            *)
(* temporaries, whose arguments are any of the five or a constant.         *)
EXTENDS PhiMoves

CONSTANTS t1, t2, t3, t4, t5, c

MCTemp == {t1, t2, t3, t4, t5}
MCConst == {c}
MCPhiTables == [{t1, t2, t3, t4} -> Source]
=============================================================================
