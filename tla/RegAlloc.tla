------------------------------ MODULE RegAlloc ------------------------------
(***************************************************************************)
(* Register allocation of a function (RA::RA_RegAlloc,                     *)
(* src/src/backend/regalloc.cpp), first of its floats and then of its      *)
(* integers: build the interference graph from liveness, place the         *)
(* temporaries, and if some did not get a register rewrite the             *)
(* instructions so that those live on the stack, and start again.  Placing *)
(* is Color's part; here a round takes any placement that Allocation       *)
(* allows, so what holds here holds whatever Color decides.                *)
(* Then the function as it was and as it became run side by side.  Values  *)
(* are abstract: whatever an operation computes is a value of its own.     *)
(***************************************************************************)
EXTENDS Integers, Sequences, FiniteSets, SequencesExt

CONSTANTS
  Floats,    \* the temporaries that hold floats, machine registers among them
  Ints,      \* those that hold integers, machine registers among them
  Reg,       \* the machine registers
  Label,     \* the labels of instructions
  NoLabel,   \* the label of an instruction that is none
  Programs,  \* the functions, as instruction lists
  Undefined, \* what a temporary holds before it is assigned
  Spillable, \* bound of the model: the temporaries that may be spilled
  MaxRounds, \* bound of the model: how many rounds may spill
  MaxSteps   \* bound of the model: how far a function is run

Temps(s) == {s[k] : k \in DOMAIN s}

(* The temporaries that spilling makes: the bank, the round, and two       *)
(* numbers that tell those of a round apart.                               *)
Made == {"int", "float"} \X Nat \X Nat \X Int

ASSUME TempsAssumption ==
  Reg \subseteq Floats \cup Ints /\ \A t \in Floats \cup Ints : t \notin Made

(* A function: a move has one temporary on either side, an operation that  *)
(* jumps defines none, and only calls define several, all registers.       *)
Instruction ==
  [op : {"oper", "move", "label"}, dst : Seq(Floats \cup Ints), src : Seq(Floats \cup Ints),
   jumps : SUBSET Label, label : Label \cup {NoLabel}]

WellFormed(x) ==
  /\ x.op = "move" => Len(x.dst) = 1 /\ Len(x.src) = 1 /\ x.jumps = {}
  /\ x.op = "label" => x.dst = << >> /\ x.src = << >> /\ x.jumps = {}
  /\ x.op # "label" => x.label = NoLabel
  /\ x.jumps # {} => x.dst = << >>
  /\ Len(x.dst) > 1 => Temps(x.dst) \subseteq Reg
  /\ \A k, m \in DOMAIN x.dst : x.dst[k] = x.dst[m] => k = m

ASSUME ProgramsAssumption ==
  /\ NoLabel \notin Label
  /\ MaxSteps \in Nat
  /\ \A c \in Programs : c \in Seq(Instruction) /\ \A i \in DOMAIN c : WellFormed(c[i])

(* An instruction: an operation, move or label of the function, or a copy, *)
(* load or store put there for a spilled temporary; of is its place in the *)
(* function as it was (0 if it was put there), slot where it finds its     *)
(* temporary on the stack; gone says that it is left out of the output.    *)
Original(i, x) ==
  [op |-> x.op, dst |-> x.dst, src |-> x.src, jumps |-> x.jumps, label |-> x.label,
   of |-> i, slot |-> 0, gone |-> FALSE]

Inserted(op, dst, src, slot) ==
  [op |-> op, dst |-> dst, src |-> src, jumps |-> {}, label |-> NoLabel,
   of |-> 0, slot |-> slot, gone |-> FALSE]

Gone(x) == [x EXCEPT !.gone = TRUE, !.dst = << >>, !.src = << >>]

VARIABLES
  prog,     \* the function as it was
  il,       \* the instructions as they are
  isf,      \* whether the floats are being placed, or the integers
  round,    \* how many placements were made
  stkmap,   \* of each spilled group, its slot on the stack or its temporary
  stk_size, \* the slots in use
  phase,    \* "allocate" or "run"
  pc, env, mem, \* where the function as it became is, its registers and slots
  pc0, env0,    \* where the function as it was is, and its temporaries
  steps         \* how far they ran

alloc == <<il, isf, round, stkmap, stk_size, phase>>
machine == <<pc, env, mem, pc0, env0, steps>>
vars == <<prog, alloc, machine>>

(* A temporary made for an operand says which bank it is of.               *)
isFloat(t) == t \in Floats \/ (t \notin Ints /\ t[1] = "float")

-----------------------------------------------------------------------------
(* Liveness and interference of the instructions as they are. *)

succ(i) ==
  {j \in DOMAIN il : IF il[i].jumps = {} THEN j = i + 1 ELSE il[j].label \in il[i].jumps}

(* What is live after instruction i and before it, if in is what is live   *)
(* before the others.                                                      *)
outOf(in, i) == UNION {in[j] : j \in succ(i)}
inOf(in, i) == Temps(il[i].src) \cup (outOf(in, i) \ Temps(il[i].dst))

equations(in) == [i \in DOMAIN il |-> inOf(in, i)]

(* What is live at each entry: the sets after as many rounds of the        *)
(* equations of Liveness as there are instructions.                        *)
liveIn ==
  LET after[k \in 0..Len(il)] ==
        IF k = 0 THEN [i \in DOMAIN il |-> {}] ELSE equations(after[k - 1])
  IN  after[Len(il)]

(* What an instruction defines interferes with what is live after it, but  *)
(* for the source of a move (Create_ig).                                   *)
conflicts(x, live) ==
  {e \in Temps(x.dst) \X live : e[1] # e[2] /\ ~ (x.op = "move" /\ x.src[1] = e[2])}

Interference ==
  LET in == liveIn
  IN  UNION {conflicts(il[i], outOf(in, i)) : i \in DOMAIN il}

(* The temporaries of the bank, registers among them (addNode). *)
Bank ==
  {t \in UNION {Temps(il[i].dst) \cup Temps(il[i].src) : i \in DOMAIN il} : isFloat(t) = isf}

(* What Allocation promises of a placement: those that interfere have      *)
(* different places.  A register is its own place; any other temporary has *)
(* a register, or is spilled, and then its group goes by one of its        *)
(* temporaries (SpilledTemp).                                              *)
Allowed(p) ==
  /\ \A t \in Bank \cap Reg : p[t] = t
  /\ \A t \in Bank : p[t] \in {r \in Reg : isFloat(r) = isf} \cup (Bank \ Reg)
  /\ \A t \in Bank : p[t] \notin Reg => p[p[t]] = p[t]
  /\ \A e \in Interference : e[1] \in Bank /\ e[2] \in Bank => p[e[1]] # p[e[2]]

(* Bound of the model, the placements that are tried: a temporary that is  *)
(* not a register has the first register left, or is spilled, and its      *)
(* group goes by its name; or it has been coalesced with a temporary it is *)
(* moved to or from, and has the same place.                               *)
Placements ==
  LET edges == {e \in Interference : e[1] \in Bank /\ e[2] \in Bank}
      moves == {<<il[i].dst[1], il[i].src[1]>> : i \in {k \in DOMAIN il : il[k].op = "move" /\ ~ il[k].gone}}
      near(g, t) == {u \in Bank : {<<t, u>>, <<u, t>>} \cap g # {}}
      taken(p, t) == {p[u] : u \in near(edges, t) \cap DOMAIN p}
      free(p, t) == {r \in Reg : isFloat(r) = isf} \ taken(p, t)
      coalesced(p, t) == {p[u] : u \in near(moves, t) \cap DOMAIN p} \ taken(p, t)
      places(p, t) ==
        IF t \in Reg THEN {t}
        ELSE coalesced(p, t)
               \cup {c \in free(p, t) : c = CHOOSE r \in free(p, t) : TRUE}
               \cup (IF t \in Spillable /\ round < MaxRounds THEN {t} ELSE {})
      place(t, ps) == UNION {{p @@ (t :> c) : c \in places(p, t)} : p \in ps}
  IN  FoldSet(place, FoldSet(place, {<< >>}, Bank \cap Reg), Bank \ Reg)

Spilled(p) == {t \in Bank : p[t] \notin Reg}

-----------------------------------------------------------------------------
(* Every register starts with a value of its own. *)
Init ==
  /\ prog \in Programs
  /\ il = [i \in DOMAIN prog |-> Original(i, prog[i])]
  /\ isf = TRUE
  /\ round = 0
  /\ stkmap = << >>
  /\ stk_size = 0
  /\ phase = "allocate"
  /\ pc = 1 /\ pc0 = 1 /\ steps = 0
  /\ env = [r \in Reg |-> <<"at entry", r>>]
  /\ env0 = [t \in Floats \cup Ints |-> IF t \in Reg THEN <<"at entry", t>> ELSE Undefined]
  /\ mem = << >>

(* The temporary for operand k of the instruction at i (k < 0: defined).   *)
newtemp(i, k) == <<IF isf THEN "float" ELSE "int", round, i, k>>

(* The temporary of integers the n-th new group of floats is kept in.      *)
sptmp(n) == <<"int", round, n, 0>>

(* A finite set as a list.  The code takes operands and groups as it meets *)
(* them; in which order they are loaded, stored or given slots makes no    *)
(* difference.                                                             *)
listed(S) == CHOOSE q \in [1..Cardinality(S) -> S] : Temps(q) = S

(* Mutant: the offset of the last slot is used again. *)
placesOfSame(keys) ==
  LET new == listed(keys \ DOMAIN stkmap)
      number(key) == CHOOSE n \in DOMAIN new : new[n] = key
  IN  [key \in DOMAIN stkmap \cup keys |->
         IF key \in DOMAIN stkmap THEN stkmap[key]
         ELSE IF isf THEN sptmp(number(key))
         ELSE (IF stk_size = 0 THEN 1 ELSE stk_size) + number(key) - 1]

(* New groups get slots of their own. *)
placesOf(keys) ==
  LET new == listed(keys \ DOMAIN stkmap)
      number(key) == CHOOSE n \in DOMAIN new : new[n] = key
  IN  [key \in DOMAIN stkmap \cup keys |->
         IF key \in DOMAIN stkmap THEN stkmap[key]
         ELSE IF isf THEN sptmp(number(key)) ELSE stk_size + number(key)]

load(t, place) ==
  IF isf THEN Inserted("copy", <<t>>, <<place>>, 0) ELSE Inserted("load", <<t>>, << >>, place)

store(t, place) ==
  IF isf THEN Inserted("copy", <<place>>, <<t>>, 0) ELSE Inserted("store", << >>, <<t>>, place)

(* Which of the operands s are spilled, and the operands of the            *)
(* instruction at i with a temporary of its own for each that is.          *)
spilledAt(s, p) == listed({k \in DOMAIN s : s[k] \in Spilled(p)})

renamed(i, s, sign, p) ==
  [k \in DOMAIN s |-> IF s[k] \in Spilled(p) THEN newtemp(i, sign * k) ELSE s[k]]

loads(i, p, places) ==
  LET src == il[i].src
      at == spilledAt(src, p)
  IN  [k \in DOMAIN at |-> load(newtemp(i, at[k]), places[p[src[at[k]]]])]

stores(i, p, places) ==
  LET dst == il[i].dst
      at == spilledAt(dst, p)
  IN  [k \in DOMAIN at |-> store(newtemp(i, -at[k]), places[p[dst[at[k]]]])]

(* A move within a group that is spilled. *)
withinGroup(x, p) ==
  /\ x.op = "move" /\ ~ x.gone
  /\ x.dst[1] \in Spilled(p) /\ x.src[1] \in Spilled(p) /\ p[x.dst[1]] = p[x.src[1]]

(* What becomes of the instruction at i: what is spilled is loaded before  *)
(* it or stored after it.  A move within a group is left out.              *)
rewrite(i, p, places) ==
  IF withinGroup(il[i], p) THEN <<Gone(il[i])>>
  ELSE loads(i, p, places)
         \o <<[il[i] EXCEPT !.src = renamed(i, @, 1, p), !.dst = renamed(i, @, -1, p)]>>
         \o stores(i, p, places)

(* A round that spills. *)
RA_Spill(p) ==
  LET keys == {p[t] : t \in Spilled(p)}
      places == placesOf(keys)
  IN  /\ phase = "allocate"
      /\ Spilled(p) # {}
      /\ il' = FlattenSeq([i \in DOMAIN il |-> rewrite(i, p, places)])
      /\ stkmap' = places
      /\ stk_size' = IF isf THEN stk_size ELSE stk_size + Cardinality(keys \ DOMAIN stkmap)
      /\ round' = round + 1
      /\ UNCHANGED <<prog, isf, phase, machine>>

(* An instruction with its temporaries replaced by their places; a move    *)
(* between equals is left out.                                             *)
placed(s, p) == [k \in DOMAIN s |-> IF s[k] \in Bank THEN p[s[k]] ELSE s[k]]
replaced(x, p) == [x EXCEPT !.src = placed(@, p), !.dst = placed(@, p)]
out(x, p) ==
  IF x.op = "move" /\ replaced(x, p).src = replaced(x, p).dst THEN Gone(x) ELSE replaced(x, p)

(* The last round of a bank: its temporaries become registers.  After the  *)
(* integers the function is run.                                           *)
transAsm(p) ==
  /\ phase = "allocate"
  /\ Spilled(p) = {}
  /\ il' = [i \in DOMAIN il |-> out(il[i], p)]
  /\ isf' = FALSE
  /\ phase' = IF isf THEN "allocate" ELSE "run"
  /\ mem' = IF isf THEN mem ELSE [s \in 1..stk_size |-> Undefined]
  /\ round' = round + 1
  /\ UNCHANGED <<prog, stkmap, stk_size, pc, env, pc0, env0, steps>>

-----------------------------------------------------------------------------
(* The two functions run: an instruction of the function as it was is run  *)
(* in both, one put there for a spilled temporary in the second only.      *)

At == il[pc]

Running == phase = "run" /\ pc <= Len(il) /\ steps < MaxSteps

runInserted ==
  /\ Running
  /\ At.of = 0
  /\ env' = IF At.op = "store" THEN env
            ELSE [env EXCEPT ![At.dst[1]] = IF At.op = "load" THEN mem[At.slot] ELSE env[At.src[1]]]
  /\ mem' = IF At.op = "store" THEN [mem EXCEPT ![At.slot] = env[At.src[1]]] ELSE mem
  /\ pc' = pc + 1
  /\ steps' = steps + 1
  /\ UNCHANGED <<prog, alloc, pc0, env0>>

(* What operation i computes now, for each temporary it defines. *)
computed(i) == [k \in DOMAIN prog[i].dst |-> <<i, steps, k>>]

assigned(e, dst, values) ==
  [t \in DOMAIN e |-> IF t \in Temps(dst) THEN values[CHOOSE k \in DOMAIN dst : dst[k] = t] ELSE e[t]]

runOriginal ==
  LET x0 == prog[pc0]
  IN  /\ Running
      /\ At.of # 0
      /\ env' = IF At.gone THEN env
                ELSE IF x0.op = "move" THEN assigned(env, At.dst, <<env[At.src[1]]>>)
                ELSE assigned(env, At.dst, computed(pc0))
      /\ env0' = IF x0.op = "move" THEN assigned(env0, x0.dst, <<env0[x0.src[1]]>>)
                 ELSE assigned(env0, x0.dst, computed(pc0))
      /\ IF x0.jumps = {} THEN pc' = pc + 1 /\ pc0' = pc0 + 1
         ELSE \E i \in DOMAIN il : /\ il[i].label \in x0.jumps
                                   /\ pc' = i /\ pc0' = il[i].of
      /\ steps' = steps + 1
      /\ UNCHANGED <<prog, alloc, mem>>

Next ==
  \/ phase = "allocate" /\ \E p \in Placements : Allowed(p) /\ (RA_Spill(p) \/ transAsm(p))
  \/ runInserted
  \/ runOriginal

Spec == Init /\ [][Next]_vars
-----------------------------------------------------------------------------
(* Properties. *)

TypeOK ==
  /\ prog \in Programs
  /\ isf \in BOOLEAN /\ round \in Nat /\ stk_size \in Nat /\ steps \in 0..MaxSteps
  /\ phase \in {"allocate", "run"}
  /\ \A i \in DOMAIN il : il[i].of \in 0..Len(prog) /\ il[i].slot \in 0..stk_size
  /\ \A key \in DOMAIN stkmap : IF isFloat(key) THEN ~ isFloat(stkmap[key])
                                 ELSE stkmap[key] \in 1..stk_size
  /\ pc \in 1..(Len(il) + 1) /\ pc0 \in 1..(Len(prog) + 1)
  /\ DOMAIN env = Reg /\ DOMAIN mem \subseteq 1..stk_size

(* When the allocator is done only registers are left. *)
RegistersOnly ==
  phase = "run" => \A i \in DOMAIN il : Temps(il[i].dst) \cup Temps(il[i].src) \subseteq Reg

(* Only registers are left, and every operation finds in its registers     *)
(* what it found in its temporaries in the function as it was: neither     *)
(* sharing registers, nor spilling, nor leaving out moves changes what the *)
(* function computes.                                                      *)
UsesAgree ==
  /\ RegistersOnly
  /\ Running /\ At.of # 0 =>
       /\ pc0 = At.of
       /\ prog[pc0].op = "oper" =>
            \A k \in DOMAIN prog[pc0].src :
              env0[prog[pc0].src[k]] # Undefined => env[At.src[k]] = env0[prog[pc0].src[k]]
=============================================================================
