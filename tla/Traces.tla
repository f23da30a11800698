------------------------------- MODULE Traces -------------------------------
(***************************************************************************)
(* Basic blocks and traces (src/src/backend/canon.cpp).  mkBlocks cuts a   *)
(* list of statements into blocks that begin with a label and end with a   *)
(* jump; traceSchedule lays the blocks out again so that the false label   *)
(* of every branch comes right after it, and jumps to what comes next are  *)
(* dropped.                                                                *)
(***************************************************************************)
EXTENDS Integers, Sequences, FiniteSets, SequencesExt

CONSTANTS
  Lists,   \* the lists of statements to begin with
  done,    \* the label of the end: funcname_RETURN3124
  Events   \* bound of the properties: operations and branches of a run

VARIABLES
  list,    \* the statements as they were
  stms,    \* those mkBlocks has not got to
  state,   \* "IN" or "OUT" of a block
  block,   \* the block at work
  llist,   \* the blocks made
  env,     \* block_env: the blocks not laid out yet
  out,     \* the statements laid out
  phase,   \* "blocks", "place", "follow", "done"
  nlabel   \* the number of the next new label

vars == <<list, stms, state, block, llist, env, out, phase, nlabel>>

Op(n) == [kind |-> "op", op |-> n]
Label(l) == [kind |-> "label", label |-> l]
Jump(l) == [kind |-> "jump", label |-> l]
Cjump(op, t, f) == [kind |-> "cjump", op |-> op, true |-> t, false |-> f]

(* IR::notRel *)
notRel(op) == [c |-> op.c, neg |-> ~ op.neg]

newLabel == <<"new", nlabel>>
labelOf(b) == Head(b).label

(* What mkBlocks is given: the statements of a function, in which no label *)
(* is put twice and every jump goes to one of the labels or to the end;    *)
(* new labels are new.                                                     *)
Statement(s) ==
  \/ s.kind = "op" /\ s = Op(s.op)
  \/ s.kind = "label" /\ s = Label(s.label)
  \/ s.kind = "jump" /\ s = Jump(s.label)
  \/ s.kind = "cjump" /\ s = Cjump(s.op, s.true, s.false) /\ s.op \in [c : {s.op.c}, neg : BOOLEAN]

Targets(s) ==
  CASE s.kind = "jump" -> {s.label} [] s.kind = "cjump" -> {s.true, s.false} [] OTHER -> {}

LabelsOf(code) == {s.label : s \in {code[k] : k \in {j \in DOMAIN code : code[j].kind = "label"}}}

Proper(l) ==
  /\ l # << >> /\ l = [k \in 1..Len(l) |-> l[k]] /\ Len(l) \in Nat
  /\ \A k \in 1..Len(l) : Statement(l[k]) /\ Targets(l[k]) \subseteq LabelsOf(l) \cup {done}
  /\ \A j, k \in 1..Len(l) : l[j].kind = "label" /\ l[k] = l[j] => j = k
  /\ \A x \in LabelsOf(l) : x # done /\ x[1] # "new"

ListsAssumption == Events \in Nat /\ done[1] # "new" /\ \A l \in Lists : Proper(l)

InitWith(l) ==
  /\ list = l
  /\ stms = list
  /\ state = "OUT"
  /\ block = << >> /\ llist = << >> /\ env = {} /\ out = << >>
  /\ phase = "blocks"
  /\ nlabel = 1

Init == \E l \in Lists : InitWith(l)

-----------------------------------------------------------------------------
(* mkBlocks: one action for each way a round of its loop can go. *)

beginBlock ==
  /\ phase = "blocks" /\ stms # << >> /\ state = "OUT"
  /\ state' = "IN"
  /\ IF Head(stms).kind = "label"
     THEN block' = <<Head(stms)>> /\ stms' = Tail(stms) /\ nlabel' = nlabel
     ELSE block' = <<Label(newLabel)>> /\ stms' = stms /\ nlabel' = nlabel + 1
  /\ UNCHANGED <<list, llist, env, out, phase>>

addStm ==
  LET s == Head(stms)
      b == Append(block, s)
      ends == s.kind \in {"jump", "cjump"}
  IN  /\ phase = "blocks" /\ stms # << >> /\ state = "IN" /\ s.kind # "label"
      /\ stms' = Tail(stms)
      /\ block' = b
      /\ state' = IF ends THEN "OUT" ELSE "IN"
      /\ llist' = IF ends THEN Append(llist, b) ELSE llist
      /\ UNCHANGED <<list, env, out, phase, nlabel>>

closed(l) == Append(block, Jump(l))

(* A label in a block, or the end of the list: a jump is added. *)
endBlock ==
  /\ phase = "blocks" /\ state = "IN"
  /\ stms # << >> => Head(stms).kind = "label"
  /\ llist' = Append(llist, closed(IF stms = << >> THEN done ELSE Head(stms).label))
  /\ state' = "OUT"
  /\ UNCHANGED <<list, stms, block, env, out, phase, nlabel>>

(* traceSchedule begins. *)
schedule ==
  /\ phase = "blocks" /\ stms = << >> /\ state = "OUT"
  /\ env' = {labelOf(llist[k]) : k \in DOMAIN llist}
  /\ phase' = "place"
  /\ UNCHANGED <<list, stms, state, block, llist, out, nlabel>>

-----------------------------------------------------------------------------
(* traceSchedule *)

blockOf(l) == llist[CHOOSE k \in DOMAIN llist : labelOf(llist[k]) = l]

firstLeft ==
  CHOOSE k \in DOMAIN llist :
    labelOf(llist[k]) \in env /\ \A j \in 1..(k - 1) : labelOf(llist[j]) \notin env

(* The first block left begins a trace; when none is left, the label of    *)
(* the end is put after all.                                               *)
place ==
  /\ phase = "place"
  /\ IF env = {}
     THEN out' = Append(out, Label(done)) /\ phase' = "done" /\ env' = env
     ELSE LET b == llist[firstLeft]
          IN  /\ out' = out \o b
              /\ env' = env \ {labelOf(b)}
              /\ phase' = "follow"
  /\ UNCHANGED <<list, stms, state, block, llist, nlabel>>

(* Mutant: the labels are exchanged, the condition stays. *)
negatedNot(s) == Cjump(s.op, s.false, s.true)

negated(s) == Cjump(notRel(s.op), s.false, s.true)

(* Where the last jump of the trace leads comes next if it is still to be  *)
(* laid out: after a jump, which goes; after a branch, the false label,    *)
(* or the true label with the condition negated, or else a new label with  *)
(* a jump to the false one.                                                *)
follow ==
  LET s == Last(out)
      next(head, l) ==
        /\ out' = head \o blockOf(l)
        /\ env' = env \ {l}
        /\ UNCHANGED <<phase, nlabel>>
  IN  /\ phase = "follow"
      /\ \/ /\ s.kind = "jump" /\ s.label \in env
            /\ next(Front(out), s.label)
         \/ /\ s.kind = "cjump" /\ s.false \in env
            /\ next(out, s.false)
         \/ /\ s.kind = "cjump" /\ s.false \notin env /\ s.true \in env
            /\ next(Append(Front(out), negated(s)), s.true)
         \/ /\ s.kind = "cjump" /\ {s.true, s.false} \cap env = {}
            /\ out' = Front(out) \o <<Cjump(s.op, s.true, newLabel), Label(newLabel), Jump(s.false)>>
            /\ nlabel' = nlabel + 1
            /\ phase' = "place" /\ env' = env
         \/ /\ s.kind = "jump" /\ s.label \notin env
            /\ phase' = "place"
            /\ UNCHANGED <<out, env, nlabel>>
      /\ UNCHANGED <<list, stms, state, block, llist>>

Next == beginBlock \/ addStm \/ endBlock \/ schedule \/ place \/ follow

Spec == Init /\ [][Next]_vars

-----------------------------------------------------------------------------
(* A run: what is executed until Events operations and branches have been  *)
(* seen, when the conditions turn out as the bits of a number.             *)

bit(o, k) == (o \div 2 ^ k) % 2 = 1

labelAt(code, l) == CHOOSE k \in DOMAIN code : code[k].kind = "label" /\ code[k].label = l

At(code, l) == IF l = done THEN Len(code) + 1 ELSE labelAt(code, l)

(* The label a branch goes to when its condition turns out as b.           *)
chosen(s, b) == IF b # s.op.neg THEN s.true ELSE s.false

(* One statement, from pc with the events seen.                            *)
execute(code, o, r) ==
  LET s == code[r.pc]
      b == bit(o, Len(r.seen))
  IN  IF r.pc > Len(code) \/ Len(r.seen) = Events THEN r
      ELSE CASE s.kind = "label" -> [r EXCEPT !.pc = @ + 1]
             [] s.kind = "op" -> [pc |-> r.pc + 1, seen |-> Append(r.seen, s.op)]
             [] s.kind = "jump" -> [r EXCEPT !.pc = At(code, s.label)]
             [] s.kind = "cjump" ->
                  [pc |-> At(code, chosen(s, b)), seen |-> Append(r.seen, <<s.op.c, b>>)]

(* A jump may lead anywhere, so at most as many statements are executed as *)
(* a run without circles of jumps can have.                                *)
longest(code) == Events * (Len(code) + 1)

Run(code, o) ==
  LET run[n \in 0..longest(code)] ==
        IF n = 0 THEN [pc |-> 1, seen |-> << >>] ELSE execute(code, o, run[n - 1])
      r == run[longest(code)]
  IN  [seen |-> r.seen, over |-> r.pc > Len(code) /\ Len(r.seen) < Events]

Same(x, y) == \A o \in 0..(2 ^ Events - 1) : Run(x, o) = Run(y, o)

-----------------------------------------------------------------------------
(* Properties. *)

(* Types; the blocks have different labels, and env has those not placed. *)
TypeOK ==
  /\ phase \in {"blocks", "place", "follow", "done"}
  /\ state \in {"IN", "OUT"}
  /\ \A k \in DOMAIN llist : labelOf(llist[k]) \notin {labelOf(llist[j]) : j \in 1..(k - 1)}
  /\ env \subseteq {labelOf(llist[k]) : k \in DOMAIN llist}

(* A block has a label at its beginning, a jump at its end, and neither in *)
(* between: what CFGraph asserts of each.                                  *)
WellFormed ==
  \A k \in DOMAIN llist :
    LET b == llist[k]
    IN  /\ Head(b).kind = "label"
        /\ Last(b).kind \in {"jump", "cjump"}
        /\ \A i \in 2..(Len(b) - 1) : b[i].kind = "op"

(* The blocks, in any order, do what the list did. *)
BlocksSame == phase = "place" /\ out = << >> => Same(list, FlattenSeq(llist))

(* The code laid out does what the list did: no condition is turned round  *)
(* once too often, no block is left out or entered from above.             *)
OutSame == phase = "done" => Same(list, out)

(* After a branch comes its false label, so that one conditional jump to   *)
(* the true label is all Cjump::ir2asm need emit.                          *)
FalseFollows ==
  phase = "done" =>
    \A k \in DOMAIN out : out[k].kind = "cjump" => out[k + 1] = Label(out[k].false)

(* What traceSchedule and CFGraph promise together: from cutting into      *)
(* blocks to the last block placed, the program stays the one it was, and  *)
(* what is laid out has the shape the back end reads.                      *)
TraceSame == TypeOK /\ WellFormed /\ BlocksSame /\ OutSame /\ FalseFollows
=============================================================================
