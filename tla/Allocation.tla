----------------------------- MODULE Allocation -----------------------------
(***************************************************************************)
(* What one pass of the register allocator promises, whatever the way it   *)
(* gets there: temporaries are given places (machine registers and stack   *)
(* slots) for good, and two that are live at the same time never have the  *)
(* same place.                                                             *)
(***************************************************************************)
CONSTANTS Temp, Place, NoPlace

VARIABLES interference, place

vars == <<interference, place>>

Init ==
  /\ interference \in [Temp -> SUBSET Temp]
  /\ place = [t \in Temp |-> NoPlace]

(* Any number of temporaries that have no place yet are given one. *)
Assign ==
  /\ interference' = interference
  /\ place' \in [Temp -> Place \cup {NoPlace}]
  /\ \A t \in Temp : place[t] # NoPlace => place'[t] = place[t]
  /\ \A s, t \in Temp :
       (t \in interference[s] /\ place'[s] # NoPlace) => place'[s] # place'[t]

Spec == Init /\ [][Assign]_vars
=============================================================================
