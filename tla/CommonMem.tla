----------------------------- MODULE CommonMem -----------------------------
(***************************************************************************)
(* Common memory elimination (Optimizer::CME, src/src/ssa/NaiveMemCE.cpp): *)
(* within a block, a load from an address that was just loaded from or     *)
(* stored to gives the value known, and a store of that value goes.        *)
(***************************************************************************)
EXTENDS SSAProgram

(* A store may change what any other address holds. *)
stored(m, s) == s.args[1] :> s.args[2]

(* avail_mem and the statements so far. *)
CMEstm(q, s) ==
  LET addr == s.args[1]
      known == addr \in DOMAIN q.mem
      add(x) == Append(q.code, x)
  IN  CASE isLdr(s) /\ known -> [q EXCEPT !.code = add(Move(s.dst, q.mem[addr]))]
        [] isLdr(s) /\ ~ known -> [mem |-> (addr :> T(s.dst)) @@ q.mem, code |-> add(s)]
        [] isStr(s) /\ known /\ q.mem[addr] = s.args[2] -> q
        [] isStr(s) /\ ~ (known /\ q.mem[addr] = s.args[2]) -> [mem |-> stored(q.mem, s), code |-> add(s)]
        [] isCall(s) -> [mem |-> none, code |-> add(s)]
        [] OTHER -> [q EXCEPT !.code = add(s)]

CME(p) ==
  LET body(v) == IF inDegree(p, v) = 0 /\ v # 0 THEN p.body[v]
                 ELSE FoldLeft(CMEstm, [mem |-> none, code |-> << >>], p.body[v]).code
  IN  withBodies(p, body)
=============================================================================
