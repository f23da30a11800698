------------------------------ MODULE SymTable ------------------------------
(***************************************************************************)
(* The symbol table (Table::table and Table::Stable,                       *)
(* src/src/util/table.hpp): one map for all the scopes, and a stack on     *)
(* which every binding leaves what it replaced.  A scope is opened by      *)
(* binding a name no program can have, and closed by undoing bindings one  *)
(* by one until that name has been undone.                                 *)
(***************************************************************************)
EXTENDS Integers, Sequences, FiniteSets

CONSTANTS
  Key,      \* names
  Mark,     \* "[_A__SCOPE_]"
  Value,    \* what names are bound to
  Absent,   \* no binding
  MaxBound  \* bound of the model: the bindings on the stack

SymAssumption == Mark \notin Key /\ Absent \notin Value /\ MaxBound \in Nat

VARIABLES
  map,      \* of each name, its binding
  stk,      \* the bindings made, each with what the name had before
  closing   \* whether endScope is at work

vars == <<map, stk, closing>>

Name == Key \cup {Mark}

Init ==
  /\ map = [k \in Name |-> Absent]
  /\ stk = << >>
  /\ closing = FALSE

(* table::enter *)
bind(k, v) ==
  /\ stk' = Append(stk, [key |-> k, old |-> map[k], had |-> map[k] # Absent])
  /\ map' = [map EXCEPT ![k] = v]

enter(k, v) ==
  /\ ~ closing /\ Len(stk) < MaxBound
  /\ bind(k, v)
  /\ UNCHANGED closing

beginScope ==
  /\ ~ closing /\ Len(stk) < MaxBound
  /\ \E useless \in Value : bind(Mark, useless)
  /\ UNCHANGED closing

(* A scope is closed only if one is open (AST::Block, AST::FuncDef). *)
endScope ==
  /\ ~ closing
  /\ \E i \in DOMAIN stk : stk[i].key = Mark
  /\ closing' = TRUE
  /\ UNCHANGED <<map, stk>>

(* Mutant: the binding goes, whatever was there before. *)
undoneErased(e) == [map EXCEPT ![e.key] = Absent]

undone(e) == [map EXCEPT ![e.key] = IF e.had THEN e.old ELSE Absent]

(* One round of the loop in endScope. *)
pop ==
  LET e == stk[Len(stk)]
  IN  /\ closing
      /\ map' = undone(e)
      /\ stk' = SubSeq(stk, 1, Len(stk) - 1)
      /\ closing' = (e.key # Mark)

Next == beginScope \/ endScope \/ pop \/ \E k \in Key, v \in Value : enter(k, v)

Spec == Init /\ [][Next]_vars

-----------------------------------------------------------------------------
(* Properties. *)

Bound == [key : Name, old : Value \cup {Absent}, had : BOOLEAN]

(* Types. *)
TypeOK ==
  /\ map \in [Name -> Value \cup {Absent}]
  /\ stk \in Seq(Bound)
  /\ closing \in BOOLEAN

(* A name is bound exactly while a binding of it is on the stack: pop      *)
(* always finds what it undoes, and who goes through the stack to see all  *)
(* globals (main.cpp, FuncInline) finds each of them bound.                *)
BoundIffOnStack ==
  \A k \in Name : map[k] # Absent <=> \E i \in DOMAIN stk : stk[i].key = k

(* The loop of endScope ends at the mark of the scope, not past it. *)
MarkAhead == closing => \E i \in DOMAIN stk : stk[i].key = Mark

(* What name k had when the stack had n bindings: what the first binding   *)
(* above them replaced.                                                    *)
Above(k, n) == {i \in DOMAIN stk : i > n /\ stk[i].key = k}

at(k, n) ==
  IF Above(k, n) = {} THEN map[k]
  ELSE stk[CHOOSE i \in Above(k, n) : \A j \in Above(k, n) : i <= j].old

envAt(n) == [k \in Key |-> at(k, n)]

Marks == {i \in DOMAIN stk : stk[i].key = Mark}

(* The place of the mark of the n-th scope. *)
mark(n) == CHOOSE i \in Marks : Cardinality({j \in Marks : j <= i}) = n

(* The scope that is being closed counts as closed.                        *)
Open == IF closing THEN Cardinality(Marks) - 1 ELSE Cardinality(Marks)

S == INSTANCE Scopes WITH
  env <- IF closing THEN envAt(mark(Cardinality(Marks)) - 1) ELSE envAt(Len(stk)),
  saved <- [n \in 1..Open |-> envAt(mark(n) - 1)]

(* The table behaves like a stack of scopes: a name bound twice in a       *)
(* scope, or bound in several nested ones, is what it was outside when the *)
(* scope is left.                                                          *)
Implements == S!Spec

(* The same of each step, and that the map and the stack agree after it.   *)
ScopeStep ==
  (S!Next \/ UNCHANGED S!vars) /\ TypeOK' /\ BoundIffOnStack' /\ MarkAhead'

ScopesKept == S!Init /\ [][ScopeStep]_vars
=============================================================================
