------------------------------- MODULE Scopes -------------------------------
(***************************************************************************)
(* What a table of names promises to a compiler: a name means what it was  *)
(* last bound to in the scopes that are open, and when a scope is left     *)
(* every name means again what it meant when the scope was entered.        *)
(***************************************************************************)
EXTENDS Integers, Sequences

CONSTANTS Key, Value, Absent

VARIABLES
  env,    \* what each name means, Absent if nothing
  saved   \* what each meant when each open scope was entered

vars == <<env, saved>>

Init == env = [k \in Key |-> Absent] /\ saved = << >>

Enter(k, v) == env' = [env EXCEPT ![k] = v] /\ saved' = saved

BeginScope == saved' = Append(saved, env) /\ env' = env

EndScope ==
  /\ saved # << >>
  /\ env' = saved[Len(saved)]
  /\ saved' = SubSeq(saved, 1, Len(saved) - 1)

Next == BeginScope \/ EndScope \/ \E k \in Key, v \in Value : Enter(k, v)

Spec == Init /\ [][Next]_vars
=============================================================================
