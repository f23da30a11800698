# A verification project for PenguinCompiler

PenguinCompiler translates SysY, a small subset of C with `int`, `float` and
arrays, to ARM assembly. This directory holds TLA+ modules of the parts of the
compiler in which a mistake would silently miscompile a program, TLC
configurations that check them on small instances, and proofs, checked by
TLAPS, of the theorems that should hold for every instance.

Paths below are relative to the repository, whose sources are in `src/`
(`src/src/backend/color.cpp` and so on is written `backend/color.cpp`).
`PROJECT.json` is the index: the components, the runs, for every property a
deliberately wrong variant of the code that violates it, for every definition
the source lines it stands for, the hazards, the findings and the theorems.

## 1. The system

The compiler is one sequential program. It reads a file, transforms one data
structure after another, and writes a file. Nothing runs concurrently, nothing
is persisted, nothing is retried. What makes it hard is inside the passes:

* worklist algorithms whose result must not depend on the order of the work,
  several of them over `unordered_map`s whose order nobody chose;
* state that is cached and must be kept in step with the program it describes
  (degrees, adjacency, the number of readers of a temporary, where a block is,
  which argument of a phi function belongs to which predecessor);
* things that happen at once (phi functions, arguments of a call) and are
  done one by one;
* places that are filled in later (labels of conditions, copies of bodies);
* arithmetic at compile time, on `int`s that overflow;
* fixed points that must be reached, and asserts the author believed.

The driver, `main.cpp`, calls:

    yyparse -> ast2ir -> linearize -> QUADRUPLE::handle -> linearize
      -> FuncInline -> basic blocks -> SSA form (CFG, dominators, phi functions, renaming)
      -> repeated: DCE, CP, combExp, PRE, CME, mergeNode, loopUnroll, strengthReduction
      -> ssa2ir -> traceSchedule -> ir2asm -> RA_RegAlloc (Liveness, ConfGraph, COL, RA_Spill)

Passes talk to each other only through the program they leave behind: the
trees and blocks up to `ir2asm`, the instruction list and its temporaries
after it. So each pass has the program as its input, and what a module promises
about the program it leaves is what the next one assumes.

### Components

| Component | State it keeps | Operations | What makes it correct | Module |
|---|---|---|---|---|
| Driver (`main.cpp`) | the globals' values | definitions in order, `handleGlobalVar`, the order of the passes | globals have their values when `main` begins | `Translate`, `Passes` |
| Lexer and parser (`frontend/`) | generated | build the syntax tree | — | — |
| Syntax tree and translation (`structure/ast.*`, `ty.hpp`) | symbol tables, lists of places to patch | `ast2ir` per node | the trees do what the source means | `Source`, `Translate` |
| Intermediate representation (`treeIR`, `quad`, `quadruple`, `utils`) | none | `notRel`, `commute`, `quad`, `deepCopy`, `getUses`, `getDef` | one operator per statement; operators are what their comments say | `Canon`, `Inline`, `SSAProgram`, `LoopUnroll` |
| Symbol table (`util/table.hpp`) | bindings, undo stack | `enter`, `look`, `beginScope`, `endScope` | leaving a scope restores what was there | `SymTable`, `Scopes` |
| Canonical trees and traces (`backend/canon`) | blocks, traces | `linearize`, `mkBlocks`, `traceSchedule`, `transIR` | order of effects; every block once; floats in float registers | `Canon`, `Traces`, `FloatTemps` |
| Function inlining (`ssa/FuncInline`) | call graph, sizes | tail recursion to a loop, inlining, globals of `main` to temporaries | arguments are bound at once; a promoted global is seen by nobody else | `Inline` |
| Control flow graph (`ssa/CFG`) | blocks, ordered predecessors | build, `cut_edge`, `mergeNode` | predecessors and phi arguments stay in step | `BuildSSA`, `SSAProgram` |
| Dominators (`DFSCFG`, `Dtree`) | numbering, forest | semidominators, frontiers | agrees with the definition of dominance | `Dominators` |
| Control dependence (`CDG`) | reversed graph | frontiers of it | agrees with the definition | `Dominators` |
| SSA form (`BuildSSA`) | stacks of names | `placePhi`, `rename`, `ssa2ir` | one definition each; leaving SSA form keeps every value | `BuildSSA`, `PhiMoves` |
| Dead code elimination | marks | mark, sweep, rewire jumps | nothing with an effect goes | `DeadCode` |
| Constant propagation | table of values, two queues | `bfsMark`, `cutEdge`, `replaceTemp`, copies | constants are the values computed | `ConstProp`, `ConstFold` |
| Algebraic simplification (`AlgoExp`) | what is put aside | `combExp` | the same sums and products | `CombExp` |
| Partial redundancy elimination (`GVN_PRE`) | value numbers, available and anticipated sets | insert, delete | no path computes more, all compute the same | `GvnPre` |
| Common memory elimination (`NaiveMemCE`) | what an address holds | per block | stale after a store or a call | `CommonMem` |
| Loop unrolling (`Loop`) | loops, `info` | `findLoop`, `analyse`, `loopUnroll` | the block runs as often as before | `LoopUnroll` |
| Strength reduction (`osr`) | strongly connected sets, copies made | replace products and sums | same values | `StrengthRed` |
| Instruction selection (`tile`, `muldiv`) | instruction list | `ir2asm`, constants | arithmetic by constants is exact; constants can be encoded | `Tile` |
| Flow graph (`backend/flowgraph`) | graph | build | edges are where control goes | `Liveness` |
| Liveness (`backend/liveness`) | `InOutTable`, stack | `analysis` | exactly the live temporaries | `Liveness` |
| Interference graph (`backend/ig`) | adjacency, bank | `Create_ig`, edges | holds every conflict | `RegAlloc`, `Color` |
| Graph colouring (`backend/color`) | three graphs, four worklists, stack | `simplify`, `unionNode`, `freeze`, `selectSpill`, `assignColor` | neighbours never share a place | `Color` |
| Register allocation (`backend/regalloc`) | instruction list, slots | `RA_RegAlloc`, `RA_Spill`, `transAsm` | the function computes what it did | `RegAlloc` |
| Unused passes, utilities | — | printing, fresh names | names are fresh | — |

`lexer.cpp` and `parser.cpp` are generated; `constantPropagationbasic.cpp` is
commented out and `ssa/test.cpp` only prints. There is nothing to check in
them.

## 2. Modules

| Module | What it is |
|---|---|
| `Scopes`, `SymTable` | abstract: a stack of scopes; the map with an undo stack that implements it |
| `Source` | the syntax tree, and what a program means |
| `Translate` | from syntax trees to trees, then the code is run |
| `Canon` | from trees to quadruples, effects recorded |
| `Inline` | function inlining, the program run after every step |
| `Traces`, `TraceProofs` | basic blocks and their layout; theorems |
| `FloatTemps` | which temporaries need a float register |
| `Dominators` | dominator tree, frontiers and control dependence |
| `SSAProgram` | functions as the passes on SSA form see them, and what they do |
| `BuildSSA`, `DeadCode`, `ConstFold`, `CommonMem`, `CombExp`, `GvnPre`, `StrengthRed` | one pass each, as an operator on functions |
| `Passes` | the passes over one function, one action each |
| `ConstProp`, `ConstPropProofs` | the marking of constant propagation, step by step; theorems: it ends, and what it finds is right |
| `PhiMoves`, `PhiProofs` | the loop of `ssa2ir` move by move; theorems |
| `LoopUnroll`, `LoopUnrollProofs` | analysis and unrolling of loops, then the result is run; theorems |
| `Tile` | instruction selection, on a machine with small words |
| `Stages`, `StageProofs` | `SymTable`, `Traces`, `FloatTemps` and `Tile`, a behaviour of one of them at a time; theorems about all but `Traces` |
| `Liveness`, `LivenessProofs` | flow graph and liveness analysis, its meaning by paths; theorems |
| `Allocation` | abstract: places are given for good and never clash |
| `Color`, `ColorProofs` | one run of the graph colouring allocator; theorems: it implements `Allocation`; worklists, hidden edges and spills |
| `RegAlloc`, `RegAllocProofs` | rounds of allocation and spilling, then both functions run side by side; theorems: they agree |
| `MC...` | instances for TLC |

How they compose. `Passes` runs the passes on one function, one after the
other, so that what one leaves is what the next begins with, in plans that are
parts of the sequence in `main`, some with a pass left out or exchanged
(section 4). `Stages` puts
stages that have a model of their own side by side, those about which theorems
are proved, and `MCStages` adds the rest for one run: a behaviour is a
behaviour of one of them. `Liveness` promises exact live sets, from which
`RegAlloc` builds the interference graph in every round. `Color` takes *any*
interference graph and implements `Allocation`; `RegAlloc` takes *any*
placement that `Allocation` allows, so what holds of it does not depend on the
choices of `Color`. The loop of `PhiMoves` is run on each edge of the control
flow graph on its own, as `ssa2ir` does; `BuildSSA` has it as one operator.

A module that transforms a program also runs the result. The property then
speaks of what the compiled program does, not of the shape of the data.

`Allocation`, `Color`, `ConstProp`, `FloatTemps`, `Liveness`, `LoopUnroll`,
`PhiMoves`, `RegAlloc`, `Scopes`, `Stages`, `SymTable`, `Tile` and `Traces`, about which
theorems are proved, declare no RECURSIVE operator; loops over sequences
and sets are folds or recursive functions.
Modules that only TLC evaluates may (`Source`, `Translate`, `Canon`, `Inline`,
`SSAProgram` and the passes on it).

### `Source`, `Translate` (`structure/ast.h`, `ast.cpp`, `main.cpp`)

`Source` has the constructors of the syntax tree and `Meaning`, what a program
prints according to the language: names in scopes, arrays, conversions,
short-circuit operators, loops, calls. It is the reference, not the code.
`Translate` has the `ast2ir` functions under their names or, where one method
does several things, under the name of the thing (`landExp`, `whileStmt`,
`globalDef`). A translated expression is a tree or a condition with two lists
of *holes*, places for a label; `doPatch` fills them. The state is the tables
`venv` and `fenv`, the counter of temporaries and labels, and the code made;
`declare` and `function` are the iterations of the loop in `main`, one for each
definition, and `function` puts what `handleGlobalVar` makes in front of the
body of `main`. When the whole program is translated the trees are run on a
machine with memory, a frame for each call, and floats as bits.

### `SymTable` (`util/table.hpp`)

`enter`, `beginScope` and the iterations of `endScope` are actions; a scope is
opened by binding a name no program can have. `Scopes` is what a compiler needs
of it.

### `Canon`, `Traces`, `FloatTemps` (`backend/canon.cpp`, `structure/quad.cpp`)

`linear`, `quad` and `linear` again are three steps over a tree; `Effect` is
the sequence of calls, loads, stores and branches with their values. `Traces`
takes a statement of `mkBlocks` and a block of `traceSchedule` at a time.
`FloatTemps` is the worklist of `transIR`.

### `Inline` (`ssa/FuncInline.cpp`, `deepCopy`)

One action replaces the tail calls of a function, one replaces a call by a
copy, one makes temporaries of globals; functions are taken in the order of
their definition, as the code does.

### `Dominators` (`ssa/Dtree.cpp`, `DFSCFG.cpp`, `CDG.cpp`)

The calls of the recursive search are a stack, a call or a return an action;
then one vertex at a time in reverse for semidominators, one forward for
dominators that were put off, one call of `computeDF` at a time. `CDnode` is
computed from the frontiers of the reversed graph.

### `SSAProgram`, the modules of the passes, `Passes`

A function is a record: blocks of quadruples, their jumps, edges in both
directions, and `prednode`, the ordered predecessors phi functions go by. Code
and edges are kept apart, as in the compiler, because passes change one and
forget the other. A pass is an operator; where it fails an assertion or misses
a lookup it sets `fail`. `Behaviour` is what a function prints and whether it
ends, for each input; `Work` how many operations it does on the way. In
`StrengthRed` the numbers of a search that nothing initialises for some blocks
(osr.cpp:212) are chosen by TLC.

### `Tile` (`structure/tile.cpp`, `util/muldiv.cpp`)

`select` takes a statement, or two where a load, a store or a sum takes in the
one before it, and appends its instructions. Words have `Bits` bits and the
ranges of constants and offsets are parameters, so that every dividend can be
tried for every divisor and every boundary is crossed. Where an assertion on
the address of a load or store fails (`asserted`) no step is possible.

### `Color` (`backend/color.cpp`, `color.hpp`, `ig.cpp`)

One variable per member of `COLOR`: the adjacency `adj`, the adjacency kept
when nodes leave the graph `hadj`, the move graph `mvadj`, the four worklists,
`SelectStack`, the union-find `tempNode`/`temp`, `ColorMap`, `SpilledTemp`.
`conflict` remembers the graph the allocator was called with. Each iteration of
the loops of `COL_result` is one action: `makeWorklist`, `simplify`,
`unionNode` or `unionFails` (when no neighbour passes the Briggs test),
`freeze`, `selectSpill` or `selectSpillFails` (the assert at color.cpp:126),
`colourRegisters`, `assignColor`, `assignDone`. Worklists are `std::set`s, so
their first element is the least; the guards say so. An action does everything
its handler does, `changeWorklist` for the neighbours included; where the code
does *not* re-file a node (after coalescing) the action does not either.

### `Liveness` (`backend/flowgraph.cpp`, `liveness.cpp`)

`succ` and `pred` follow `FG_AssemFlowGraph`; `visit` is one iteration of
`analysis`: pop, recompute, push the predecessors if the entry set changed.
`LiveAt` says what liveness is without an algorithm: the least set of
instructions that holds the uses and is closed backwards.

### `PhiMoves` (`BuildSSA.cpp`, `ssa2ir`)

`indg` counts readers, `mvq` is the queue, `mvstms` the moves to be made.
`emit` is one iteration of the queue loop; `breakCircle` is the body of the
outer loop that saves one source in a new temporary. The first queue, and the
move chosen to break a circle, come from `unordered_map`s: any order. Every
move is run on `store` as it is appended.

### `RegAlloc` (`backend/regalloc.cpp`, `liveness.cpp`, `ig.cpp`)

`RA_Spill(p)` rewrites the instructions for a round that spilled, `transAsm(p)`
replaces temporaries by registers and ends a bank: first the floats, whose
spilled groups move to integer temporaries, then the integers, whose groups
move to slots of the frame. `liveIn` is liveness in each round, the sets after as
many rounds of the equations as there are instructions (that these are enough is
a lemma), and `Interference` is what `Create_ig` makes of it. `Allowed(p)` is
what `Allocation` promises of a placement; `Placements` are those TLC tries, a
bound of the model. The order in which operands and groups are taken makes no
difference to what is written, so the model fixes one (`listed`). Then `runOriginal` and `runInserted` run the function
as it was and as it became in lock step; what an operation computes is an
abstract value, unique to the instruction and the moment.

### `LoopUnroll` (`ssa/Loop.cpp`, `ast.cpp`)

`analyse` normalises the jump (`variableLeft`, `leaveIfTrue`), checks the
direction (`towardsBound`) and counts (`times`); `loopUnroll` chooses between
copying the block `times` times and a block of four copies in front of the
loop. The resulting program is then run and its trips counted; `Trips` is how
often the loop runs its block as it was. A loop tests its condition after the
block; whether it was tested before it too, as the front end does for `while`
but not for a `break` at the end of `while (1)`, cannot be seen in the loop, and
the loops of the model are of both kinds. `TurnsBack` holds of loops of the
second kind only: they are left after one run because they started past the
bound, and the next runs lead back. Integers are at least `-Half` and less than
`Half`, and wrap.

### `ConstProp` (`ssa/constantPropagation.cpp`)

`visitBlock` is one iteration of the block loop of `bfsMark` (`doDef` for each
statement, `doJump`, the phi functions fed), `visitTemp` one of the temporary
loop, `marked` the end. That `tempCondition` gains an entry when asked for a
temporary it does not know is kept (`settle`), and so is the default of
`stmlBlockmap`: a phi function evaluated before its block is visited looks at
block 0. A place `<<b, k>>` is the k-th statement of block b, or its jump;
`tempUse` has, for each temporary, the places of visited blocks that use it, in
the order `bfsMark` meets them, and `visitAll` goes over places one after the
other. `run` then runs a block of the function, phi functions at once, calls
returning anything. `WellFormed` is what SSA construction leaves behind: jumps
and predecessors agree, a phi function has an argument for each predecessor,
the entry has none. `Strict` says more, that every temporary is assigned once and
before it is used; of a source program with a variable declared without a value
it does not hold.

## 3. Runs

States are distinct states. `passes` and `stages` take two to three minutes,
the others at most one.

| Run | Question | Instance | States |
|---|---|---|---|
| `passes` | Does a function do the same after every pass, and does each pass leave what the next relies on? | 21,378 functions through eight plans of passes, section 4 | 187,774 |
| `stages` | Does each of eight stages do what it is for? | 32,572 inputs, section 4 | 439,892 |
| `color` | Is the colouring proper, is no interference lost, do the worklists partition the graph, when does the assertion fail, is nothing spilled needlessly, does the allocator end, does it implement `Allocation`? | every graph on 1 register and 4 temporaries, at most 2 moves, 2 colours, two temporaries from earlier spills | 272,233 |
| `liveness` | Exact, monotone, ends? | 750 lists over 2 temporaries: nested loops, joining branches | 13,347 |
| `phi_moves` | Do the moves do what the phi functions do? | 4 phi functions over 5 temporaries or a constant, 2 fresh temporaries, any order | 14,616 |
| `regalloc` | Does the allocated function compute what it did? | 216 functions, 2 integer registers, 1 float register, up to 3 spilling rounds | 40,086 |
| `loop_unroll` | Does the unrolled program run the block as often? | all loops between values from -6 to 5 by steps of at most 4, 6-bit integers, whether or not the condition was tested before the block; without those that turn back in a block of four | 65,904 |
| `const_prop` | Are the constants the values computed, does marking end? | functions with one or two loops, branches, joins, all temporaries assigned first | 55,163 |
| `loop_bound_left` | The same as `loop_unroll`, bound on the left — **violated** | see section 6 | — |
| `loop_wide` | The count, for wide loops — **violated** | see section 6 | — |
| `loop_backwards` | The same as `loop_unroll`, for the loops that turn back — **violated** | see section 6 | — |
| `const_prop_unassigned` | No constant from a guess given up — **violated** | the same with a variable declared without a value | — |

### What the properties say

*`passes`.* `SameBehaviour`: for every input the function prints what it printed
before the first pass, and ends if it ended. `InSSA`: one definition of each
temporary, and it dominates the uses. `GraphOfCode`: the edges are what the
jumps say, and there is no critical edge, so that `ssa2ir` has a place for its
moves; in a block with phi functions `prednode` lists just the predecessors and
there is an argument for each. In every other block `prednode` lists just the
predecessors until dead code elimination has run. From then on it does not: dead
code elimination gives the blocks it keeps new edges and leaves `prednode` alone
(deadCodeElimilation.cpp:279, 313), and a pass that goes over `prednode` of
every block, as GVN_PRE.cpp:281 does, is wrong after it (section 6). The others
use it for the arguments of phi functions, or look up one predecessor, which
`NeverAborts` covers. `NeverAborts`: no assertion fails, no lookup misses.
`NothingUnused`: dead code elimination leaves no result nothing reads, on which
`combExp` relies. `NoMoreWork`: no run that ends does more operations after the
elimination of partial redundancies than before.

*`stages`.* `ScopesKept`: the table implements `Scopes`, step by step; a name is
bound exactly while a binding of it is on the stack. `SameProgram`: the code of
a translated program prints what the program means; every hole is filled with a
label of its own function. `SamePrints`: a program prints the same after every
step of inlining, no label is there twice, and code is made for all functions
that are still called. `SameEffects`, `Quadruples`: `linearize` and `quad` keep
calls, loads, stores and values in order, and leave one operator in each
statement. `TraceSame`: blocks and their layout do what the list did, and a
branch comes before its false label. `FloatsExact`: exactly the temporaries that
moves join to a float operation are floats. `Dominance`, `ControlDependence`:
semidominators, dominators, frontiers and control dependence are those of the
definitions, the assertion of the constructor holds. `SameMeaning`: the
instructions compute what the statements do, for every word. `Encodable`: no
constant, shift or offset is out of the range of its instruction.

*Color.* `NoSharedPlace`: two temporaries that interfere never share a register
or a slot. `EveryTempPlaced`: at the end each has exactly one place.
`WorklistsPartition`: a node in the graph is on exactly one worklist, one that
left it on none. `EdgesKept`: while coalescing redirects edges and
simplification hides them, each original conflict can still be found between
the representatives, in `adj` or in `hadj`. `AbortOnlyCrowded`: the assertion of
`selectSpill`, that there is a candidate that is not itself the product of a
spill, fails only when nothing but products of spills is left, each with as many
temporaries near it as there are registers, and either two of those were
coalesced or the registers and products of spills alone fill all registers.
`NoNeedlessSpill`: a graph that simplification alone can colour is coloured
without a spill if nothing was coalesced.
`Termination`: it ends. `Implements`: the behaviour is one of
`Allocation`.

*Liveness.* `Exact`: with the stack empty, the table is exactly liveness —
missing one means two temporaries in one register, one too many means spills.
`OnlyGrows`: the assert on sizes at liveness.cpp:35. `Termination`: it ends.

*PhiMoves.* `Parallel`: destinations hold what their arguments held before.
`NothingLost`: no move destroys a value still needed. `QueuedOnce`,
`OnlyCirclesLeft`: what the counts are for, and the asserts of `ssa2ir`.

*RegAlloc.* `UsesAgree`: every operation finds in its registers what it found
in its temporaries.

*LoopUnroll.* `SameTrips`, `Leaving`: the block runs as often as it did in the
loop, and a run of the program gets there. `UntilTempRelEnd`, `TimesUntilEnd`: what
the comments of `analyse` say of its rewriting and of its count.

*ConstProp.* `Sound`: whatever calls return, only reached blocks are run and a
temporary found constant holds that constant. `Justified`: no constant was
computed from a value since given up. `OnlyFalls`, `Dwindles`: values only
become less definite, and a step that changes none shortens the queues.

For each of them `PROJECT.json` names a variant of the code with a plausible
mistake, defined next to the original and marked `Mutant`, that violates it.

## 4. Bounds, and why they are enough

* Translation (`MCTranslate`): conditions of three calls that print, joined by
  `&&` and `||` in all ways with up to two `!`, in each place a condition can
  stand, so that every order of evaluation shows; loops with `break`,
  `continue`, `return`, inner loops and redefined names in three places;
  conversions between `int` and `float` of variables, constants, arguments,
  results and elements; up to seven parameters (four are in registers) of both
  kinds; arrays of two dimensions with eight initialisers, global, constant and
  local, whole and by rows as arguments; constants that give sizes. What a
  program reads is 0 or 1. A float is a number of halves, so arithmetic on
  floats is exact, and a program is run for 2^8 statements in each function.
* Symbol table: two names, two values, five bindings: a name bound twice in a
  scope, shadowed in two, and a scope left with another open.
* Inlining: three functions, which call in a chain, twice and themselves; tail
  calls that do not read a parameter assigned before (for the others see
  section 6).
* `Canon`: expressions two operators deep, with calls and assignments at every
  place in them. `Traces`: three statements between three labels and the end,
  all lists. `FloatTemps`: three moves between five temporaries and a register.
* `Dominators`: every graph of four nodes with at most two ways out of each, as
  in a flow graph; graphs of five nodes along a path; with an end to which all
  nodes lead for control dependence. Four nodes are enough for path compression
  over two steps and for a graph that cannot be reduced.
* `Tile`: words of 8 bits, each constant and each dividend for multiplication,
  division and remainder; sequences of three statements with each pair the
  selector joins; calls with up to six arguments.
* `passes`: three blocks between entry and end with all jumps among them, which
  has nested loops, loops with two ways in, and branches that join; bodies of
  one to five statements of the kind the pass is for, in all orders. Two inputs,
  four numbers printed, 2^6 blocks of the way (2^8 after a pass). The plans are
  those in which the passes do not meet the failures of section 6: the one with
  `PRE` has constant propagation where `main` also has dead code elimination
  before it, no plan has `mergeNode` twice, and loop unrolling, with a model of
  its own, is in none. One plan has constant propagation before dead code
  elimination, other than `main`, over functions without loops, to see that it
  keeps `prednode` in step in blocks without phi functions.
* `Color`: 4 temporaries and 2 colours are the least with which a temporary has
  as many neighbours as there are colours, two moves compete, a coalesced node
  becomes significant, and a spill is followed by a select. All graphs are
  taken, so no shape is missed at that size. Two temporaries from earlier
  spills, with moves, are enough for the assertion to fail in each of the two
  ways `AbortOnlyCrowded` has: two were coalesced, or there are too many.
* `Liveness`: 2 temporaries suffice for each instruction to define one and use
  the other; the sets of different temporaries do not influence each other
  beyond the order of the visits.
* `PhiMoves`: 4 destinations give two circles of two, one of four, a circle
  with a tail, and a chain; 5th temporary and a constant are sources that are no
  destination. Two circles need two fresh temporaries.
* `RegAlloc`: `MaxRounds` 3 lets floats, then integers, then the temporaries
  made for spilled floats spill. `Spillable` leaves out the temporaries of one
  instruction made by a spill, which `Color` avoids spilling (`stkuse`).
  `MaxSteps` 20 is more than twice around the loop.
* `LoopUnroll`: `Half` 32 (6 bits) keeps all loops between -6 and 5 from
  overflowing, `MaxStep` 3 and `MaxCopies` 9 stand for 1e7 and 5000, so both limits are met from both
  sides. `MaxTrips` bounds loops that never leave. `Backs` chooses between the
  loops that turn back in a block of four, which have the run `loop_backwards`,
  and all others.
* `ConstProp`: values modulo 3; constants 0 (the guess), 1 and one more; each
  block order that a join with two predecessors and a nested branch allow.

Every bound that is not in the code is called a bound of the model where it is
declared. Runs that say `CHECK_DEADLOCK FALSE` are of passes that end.

## 5. What is proved

TLAPS proves the following for every value of the constants, under the named
assumptions of the modules, which TLC evaluates on every run.

* **Color** (assumptions `ConstantsAssumption`: nodes are integers, registers
  are nodes with distinct colours, temporaries of earlier spills are no
  registers, and there are finitely many of each; `GraphsAssumption`:
  the graphs handed over are symmetric and without loops, as `ig.cpp` builds
  them). `TypeCorrect`, `ProperColouring`, `Placement`, `Refinement`. The
  invariant `IInv` conjoins: `NamesInv` (the two maps of coalescing agree, and
  a merged node points to one that is in use), `EdgesInv` (each conflict is an
  edge between the nodes that now carry the two temporaries, in `adj` or
  `hadj`), `MovesInv` (no moves at nodes that left), `ListsInv` and `StackInv`
  (the lists are disjoint, a node on the stack is on none and there once, and a
  hidden edge has an end on the stack), `ResultInv` (what a node carries is
  placed together, and not before it is popped), `ProgressInv` (no node is
  forgotten between the lists, the stack and the result). `NoSharedPlace` is not
  inductive alone: that a node gets a colour unlike its neighbours' helps only
  if every conflict is still an edge, which is what `EdgesInv` carries through
  `combine`. `Refinement` shows that each action is a step of `Allocation`, a
  placement being fixed from the moment it is made.
* **Color, spills** (in the second half of `ColorProofs`, the same assumptions).
  `InterferenceKept` proves the whole of `EdgesKept`: it needs `HiddenInv`, that
  a stacked node has no visible edge, or else `unhide` could make an edge
  visible twice. `Partition` (`WorklistsPartition`). `NoSpillWithoutNeed`
  (`NoNeedlessSpill`): when nothing was coalesced, the graph is the one handed
  over (`PlainInv`), every node that is pushed has fewer neighbours off the
  stack than there are registers, and finds a colour when it is popped
  (`EasyInv`); when only candidates for spilling are left, one of them has a
  register to spare after all, by the hypothesis on every part of the graph, so
  none is left (`NoCandidates`). `AbortReason` (`AbortOnlyCrowded`), for every
  graph and every set of moves. `CrowdInv` says that what is on
  `SpillWorklist` interferes with at least `REGNUM` temporaries, and that its
  degree is significant unless two of these were joined in one node:
  coalescing two neighbours is the only step that lowers a degree without
  `changeWorklist` taking the node off the list (`CrowdKept`,
  `UnionNodeCrowd`). That an edge comes from an interference of what its ends
  carry is `OriginInv`. When no candidate is left, all neighbours are machine
  registers or were made by spills (`FailsCrowded`).
* **Liveness** (`LabelAssumption`, `ProgramsAssumption`). `Correctness`,
  `Growth`, `TypeCorrect`. `Exact` needs three facts on the way: `Equations` (a
  node not on the stack has the sets its equations give), `Below` (every set is below
  what its equation gives, so they only grow) and `NeverTooMuch` (nothing in a
  set is not live). When the stack is empty the table is closed, and the least
  closed set is liveness.
* **PhiMoves** (`DisjointAssumption`, `PhiAssumption`). `Correctness`,
  `Preservation`, `Queueing`, `AssertsHold`, `TypeCorrect`. `IInv` adds
  `Counted` (`indg` is the number of moves that read), `FreeQueued` (a
  destination no move reads is queued), `FreshUsed`, and `Settled` (what is not
  a destination any more holds its final value). That the moves left with an
  empty queue are circles is a counting argument: each is read by exactly one
  other (lemma `Circles`).
* **ConstProp** (`ValuesAssumption`: the numbers are 0..n-1 and are none of the
  markers; `ProgramsAssumption`: every function is `WellFormed`).
  `ConstPropProofs`: `TypeCorrect`, `Monotone` (`OnlyFalls`), `Ends`
  (`Dwindles`). A visit only makes values less definite (`Visit`), which the
  lemma `VisitAll` carries over a list of places, so it holds in whatever
  order phi functions are fed.
  In its second half `NoStaleGuess` (`Justified`) and `ConstantsRight`
  (`Sound`), under the hypothesis that every function is `Strict`.
  `MCConstProp` states that this holds of the functions of `const_prop` and of
  none of `const_prop_unassigned`, where the code is wrong (finding 3): the
  proofs show that it takes such a variable to get there. The
  invariant `SInv`: a block that was reached is visited or queued, once, and the
  blocks that dominate it have been visited (`Frame`); `tempUse` misses no place
  of a visited block (`UsesNoted`); a number in the table agrees with the
  operands of its statement that count, those of a phi function only from
  reached blocks, or one of them is indefinite and its temporary in the queue
  (`Good`, and the same for jumps). While a block is visited this holds of a
  part of its places only, so `Good` has the set of places, the set of operands
  that count and the set of places still to be visited as parameters. A phi
  function fed too early gets 0 from the default of `stmlBlockmap`; `Valued`
  says that it is visited again before anything reads it, since what reads it
  is dominated by its block. With empty queues `Good` makes every constant the
  value of its statement, and a run on numbers cannot leave it (`Kept`).
* **LoopUnroll** (`LoopsAssumption`: the limits are natural numbers and `Half` is
  not 0). `SameRuns` (`SameTrips`), `JumpKept` (`UntilTempRelEnd`) and
  `CountRight` (`TimesUntilEnd`), for integers of any width and all loops that
  are `Ordinary`: they end without an overflow, the bound is on the right, the
  distance to a constant bound is an `int` in both directions, and if the loop
  gets a block of four, the point four steps before its bound is an `int` and
  the loop does not turn back. Nothing is said of how it begins: the condition
  may have been tested before the block or not. Without the second, the third
  or the last condition the code is wrong, which is findings 1, 2 and 4. A loop
  whose condition was tested before its block never turns back (`TestedFirst`),
  so of the `while` loops of the front end none is left out by that condition.
  `MCLoopUnroll` states that the loops of `loop_unroll` are `Ordinary`. The
  invariant says that where the block is still to be run it was run less often
  than the loop runs it, and that at the block of four copies the variable is not
  yet past the point four steps before the bound, which leaves room for four runs
  and one more (`Room`); that the count is right is arithmetic (`Count`: the
  least number of steps that reach the bound, or pass it).
* **RegAlloc** (`TempsAssumption`: temporaries of the function are none of those
  that spilling makes; `ProgramsAssumption`: a move has one operand on either
  side, what jumps defines nothing, and an instruction that defines several
  temporaries defines registers only, as calls do, tile.cpp:470). `Invariance`, `Agreement`
  (`UsesAgree`) and `AnyPlacement`: for all functions of this form, any number of
  registers, groups and rounds. `Agreement` is about `Spec`, `AnyPlacement` about
  the same behaviours with every placement that is `Allowed`, not only those of
  `Placements`. `UsesAgree` speaks of two functions that run only after
  allocation, while what makes it true is decided in every round before. The
  invariant carries it there: `Shape` (each instruction comes from one of the
  function, or was put there; the keys of `stkmap` occur no more; after the
  floats no float but registers occurs) and a `Certificate`, which is,
  before every instruction, a relation `R` of places to the temporaries of the
  function as it was whose values they hold, and the instruction `ahead` that is
  next there. It is `Certified` when every instruction takes what `R` says before
  it to what `R` says after it (`Keeps`) and the operands of operations are in
  it. At first every temporary holds itself (`AtFirst`). A round renames the
  places: to registers in the last round of a bank (`Transcribed`), to slots or
  integer temporaries in a round that spills (`SpillCertified`, where the loads
  and stores around an instruction get relations of their own). A place is given
  to two others only if they are not both live there, or a move has just made
  them equal, because what interferes is kept apart (`HomesApart`, `StackApart`)
  and `liveIn` is a fixpoint (`LiveIn`: the entries where a temporary is live are
  more in each round or the same ever after, and there are as many entries as
  instructions); so `R` is kept for what is live and dropped for
  the rest. When the functions run, the certificate is true of the values there
  are (`Agreeing`), which each step keeps (`AfterInserted`, `AfterOriginal`).
  The certificate is found by the proof and not by the code, so TLC does not
  evaluate `IInv`; it checks `UsesAgree`, and the condition on `stkmap` in `Shape`
  was checked by it before it was proved.
* **SymTable** (in `StageProofs`; `SymAssumption`, a hypothesis of the theorems: the mark is no
  name of a program, and "no binding" is no value). `Bindings`, `Refinement`,
  `EveryStep` (`ScopesKept`, what a scope opened and closed leaves as it was).
  `IInv` adds to the properties `Recorded`: a binding left word of another
  exactly if there was one below it, so undoing it is right about whether the
  name is bound. `Refinement` rests on two facts about a stack with one binding
  more, which hold as well read backwards, for `pop`: what any name was at a
  lower place does not change (`Pushed`), and the marks of the scopes below stay
  what they were (`MarksKept`); that the first binding above a place and the
  mark of every open scope exist is carried as an invariant (`HasFirst`,
  `Ranked`), in place of an induction over the stack.
* **Traces** (`ListsAssumption`, a hypothesis of the theorems: every list is
  `Proper`, as the translation makes them: it is not empty, labels are defined
  once, and every jump is to a label of the list or to the end; the label of the end is none that `mkBlocks` makes). In `TraceProofs`:
  `TraceInvariance` and
  `TracesSame` (`TraceSame`): the blocks and then the code laid out do what the
  list did, for lists of any length, runs of any length and every way
  conditions may turn out, and every branch laid out is followed by its false
  label. What a list does is a recursive function of the number of steps, so that
  two lists do the same cannot be seen action by action. The proof goes by *trails*:
  a run is a sequence of places in the code, and what it shows is
  determined by the places. A list `Lays` the blocks when every block is found
  in it in one piece, ending with its own jump or with what does
  the same: falling into the next label, the branch with its sides exchanged, or a branch to a
  new label and a jump from there. Two lists that lay out the same blocks have
  the same runs (`LayoutsSame`): each answers the steps of the other, and
  neither goes on for ever while the other shows nothing. `TInv` says of each
  phase how far the layout has come: which part of the list is cut into blocks
  (`Cutting`), at which place of the output every block placed so far begins
  (`Placing`), and that the last of them is still open (`Following`).
* **FloatTemps** (`CodesAssumption`, a hypothesis: registers and temporaries are
  numbers, a move has one operand, and there are finitely many statements). In
  `StageProofs`: `FloatInvariance` and `Floats` (`FloatsExact`): exactly the
  temporaries that moves join to a float operation, over any number of moves in
  either direction, get float registers. `FInv` says that what is in the set is
  in every set that is closed under moves and has the operands of
  float operations, and that all neighbours of a temporary in it are in it, or the
  temporary still waits on the worklist.
* **Tile** (hypotheses: `SizesAssumption`: words have an even number of bits,
  four at least, and the bounds on constants and offsets are natural numbers, as
  32, 256, 128 and 4095 are; `PowersAssumption`: what the provers have to be told of powers of
  two; `GivenAssumption`: statements have the operands their operations take, a
  divisor is not 0, which tile.cpp asserts, and there is no remainder by 1 or by
  the least number, with which the code is wrong, section 6). In `StageProofs`:
  `SelectInvariance` and
  `Encodes` (`Encodable`): no constant, offset, shift or field is selected that
  the instruction has no room for. There is one lemma for each function of
  `tile.cpp` and one for each way a multiplication or a division by a constant is taken
  apart, each saying that it adds instructions the machine has when the
  instructions before were such; the shifts of a division by a multiplier are
  bounded by following `chooseMultiplier` through its loop. `SelectInv` adds
  to `Encodable` that what is left are statements, also where a load is made a
  move because the store before it wrote the same place.

What is proved in `StageProofs` of `FloatTemps` and `Tile`, and `EveryStep`, is said
of the behaviours of `Stages` (`StagesSpec`), with the properties the run checks.
`MCStages` evaluates the hypotheses about `SymTable`, `Traces`, `FloatTemps` and
`Tile` for what its run gives them.

### Only model-checked

* Liveness properties (`Termination`, `Leaving`) and everything about ENABLED:
  the prover has no means for them.
* All properties of `passes`, and `SameProgram`, `SamePrints`, `SameEffects` and
  `Quadruples` of `stages`. What a transformed program *does* is there the
  result of a recursive function on trees or on functions with calls, which
  would need induction over data; `Source`, `Translate`, `Canon`, `Inline` and
  `SSAProgram` declare RECURSIVE operators, about which nothing can be proved
  here. (Where a loop goes over a list or counts steps, the lemma `SetInduction`,
  that a set of natural numbers that is not empty has a least one, takes the
  place of induction: in `ConstProp`, in `Traces`.)
* `SameMeaning` of `stages`: that the multiplier and the shift chosen for a
  divisor give the quotient for every dividend is arithmetic on products of
  unknowns, modulo powers of two, which the installed provers do not decide.
  TLC tries every divisor with every dividend, on words of 8 bits.
* `Dominance` and `ControlDependence` of `stages`. `Dominators` declares no
  RECURSIVE operator, but that Lengauer and Tarjan's algorithm is right rests
  on a theory of paths and depth-first trees that would have to be proved first.
  TLC compares it with the definition by paths on all graphs of four nodes.

### Fairness

Weak fairness of the whole next-state relation, and only where an ending is
claimed: one thread runs each of these loops and nothing in it blocks, so a
step that can be taken is taken. For `ConstProp` no fairness is assumed:
`Dwindles` shows with `OnlyFalls` that steps cannot go on for ever.

## 6. Findings

Each was met while a module was written or reviewed. The first four are shown
by a run that expects the violation:

1. **`Loop.cpp:102` and `:120`, run `loop_bound_left`.** A bound on the left of
   the comparison is moved to the right with `notRel`, which negates, where
   `commute` (treeIR.hpp:27) would mirror; the jump is overwritten whether the
   loop is unrolled or not. `while (5 > i)` runs one time too many.
2. **`Loop.cpp:157`, run `loop_wide`.** `end - begin` overflows for a loop over
   more than half of the integers; the negative count passes the limit of 5000
   and the block is copied once.
3. **`constantPropagation.cpp:284`, run `const_prop_unassigned`.** A phi
   function without a known argument is guessed to be 0; when the guess is
   replaced by another constant the uses are not visited again, since only the
   *kinds* are compared. What was computed from the guess stays.
4. **`Loop.cpp:342`, run `loop_backwards`.** A loop with a variable bound gets a
   block of four in whichever direction it runs, also when its condition is only
   tested after the block. `while (1) { i = i + 1; putint(i); if (i < n) break; }`
   with i = 3 and n = 5 read by `getint` prints 4 and ends; compiled, it runs
   four copies, compares with the bound less 4 and goes on. The run finds the
   same in smaller numbers.

The others have no run of their own. The inputs that show them are defined in
the MC modules and left out of the runs; put in the place named, TLC finds the
property violated.

| Where | What happens | How to see it |
|---|---|---|
| `FuncInline.cpp:42` | the parameters of a tail call are assigned in turn: in `return f(a - 1, a)` the second gets `a - 1` | `InOrder <- FALSE` for `Inlining` in `MCStages`: `SamePrints` |
| `FuncInline.cpp:48` | a tail call becomes a jump that keeps the frame, so an array it is given is the one the next round writes to | `Inlining!ArrayPrograms` for `Inlining!AllPrograms`: `SamePrints` |
| `Dtree.cpp:51` | the assertion fails for the reversed graph when the end cannot be reached from some block: `if (getint()) while (1) putint(1);` | `Endless` for `Backward` in `MCStages`: `Dominance` |
| `AlgoExp.cpp:61` | `combExp` looks up the uses of a result that has none any more, because constant propagation removed the block of the only use, and aborts | `Plans <- Unused` in `MCPasses.cfg`: `NeverAborts` |
| `GVN_PRE.cpp:281` | the predecessors dead code elimination left behind do not agree with the edges; the assertion of line 322 fails | `Plans <- Stale`: `NeverAborts` |
| `osr.cpp:334` | an operand of the same loop is reduced whatever the operation that writes it: `x + 7` with `x = 5 - x` goes on with `5 - (x + 7)` | `Plans <- Turned`: `SameBehaviour` |
| `tile.cpp:268` | the remainder by a negative power of two multiplies in place, which clears the operand first (tile.cpp:153) | `Selection!Negative` for `Selection!Every` in `MCStages`: `SameMeaning` |
| `tile.cpp:259` | the remainder by 1 clears a field of width 0, which cannot be encoded | `Selection!Small` for `Selection!Every` in `MCStages`: `GivenAssumption` is false, and without it `Encodable` |
| `ast.cpp:494` | a list in braces is taken to initialise an element of the outermost dimension, wherever it stands | `Translation!Braced` for `Translation!AllPrograms`: `SameProgram` |
| `treeIR.cpp:55` | a float used as a condition is compared with 0 by its bits, so -0.0 is true | `Translation!NegativeZero` for `Translation!AllPrograms`: `SameProgram` |

Where `PROJECT.json` says what the compiler makes of a program, that program
was compiled.

The passing runs leave these inputs out, so a property listed with a hazard
covers what is left of it. The hazards at FuncInline.cpp:42 and AlgoExp.cpp:61
have no property, because nothing else is left of them; the others say in a
note which part is left out.

## 7. Limits of what is modelled

* `Translate`: the functions of the library besides `getint`, `putint` and
  `putfloat` are left out, which are translated the same way, and so are
  pointers used as values.
* `Inline`: parameters passed on the stack are left out.
* `Passes`: of the operators, sums, differences and products. Where a pass goes
  over a set that has no order of its own, the model takes one order, except in
  `ConstProp`, `PhiMoves` and for the numbers of `StrengthRed`.
* `CombExp`: floats are integers that do not mix with the others; rounding and
  -0.0 are left out. `GvnPre`: the registers 11 and 13 as operands are left out.
  `StrengthRed`: the tree of loop heads is left out, which nothing reads.
* `Tile`: operations on floats, `i2f` and `f2i`, and the alignment of the stack
  for `putfloat` are left out.
* `Color`: that the assertion of `selectSpill` never fails is not claimed: with
  temporaries of earlier spills it can, and `AbortOnlyCrowded` says when.
  Whether `RegAlloc` gets to such a graph in a later round is not modelled.
  `NoNeedlessSpill` says nothing of graphs in which nodes were coalesced.
  Priorities among spill candidates do not matter to what is checked, beyond
  what the code does with the sets.
* `RegAlloc`: that the rounds end is not claimed: a temporary made by a spill
  can be spilled again when it was coalesced. The base of the frame, offsets of
  4096 and more, and `funcEntryExit3` are left out. Instructions are taken with
  the operands the selector gives them; that `bfc` reads its destination, which
  the list of its operands does not say (tile.cpp:259), is not composed with
  the allocator, so the hazard there has no property. That the temporary of an
  offset of 4096 or more is not entered in `stkuse` (regalloc.cpp:64) has none
  either.
* `LoopUnroll`: `findLoop`, `findCircle` and the renaming of temporaries in the
  copies are left out; so is the overflow of `end - 4 * step` near the least
  integer.
* `ConstProp`: division at compile time, on the integers of the machine the
  compiler runs on, is left out (the hazard at constantPropagation.cpp:156 has
  no property). That as many constants as possible are found
  is not claimed: a phi function fed before its block is visited is 0 for a
  moment, which can make another one indefinite.

### Not modelled

The lexer and the parser are generated by flex and bison; they only build the
syntax tree, with which `Source` begins. The command line, printing
of trees, graphs and assembly, the pass that is commented out and the one that
only prints have no state of their own. The run-time library is external: a
call of it prints or reads.

## 8. Plan

Done, in this order: colouring, liveness, leaving SSA form, rounds of
allocation, loop unrolling, constant propagation; then the
stages before SSA form (`SymTable`, `Translate`, `Canon`, `Inline`, `Traces`,
`FloatTemps`), `Dominators`, the passes on SSA form and their composition
(`Passes`), and instruction selection (`Tile`). Theorems are proved
of colouring, liveness, leaving SSA form, constant propagation,
loop unrolling, register allocation, the symbol table, the layout of blocks,
float temporaries, and the operands of selected instructions.

What is left, in this order:

1. `Dominators`: the theory of paths that `Dominance` needs, beginning with the
   numbers of the depth-first search and the assertion at Dtree.cpp:51.
2. `Tile` with the allocator: that `bfc` reads its destination (section 7).

## 9. Running

In this directory,

    tlc -workers 2 -config MCColor.cfg MCColor.tla

checks one run (`PROJECT.json` lists module and configuration of each), and

    tlapm ColorProofs.tla

the theorems of one module (`ColorProofs`, `LoopUnrollProofs`,
`LivenessProofs`, `PhiProofs`, `ConstPropProofs`, `RegAllocProofs`,
`StageProofs`, `TraceProofs`). The last three take several minutes each.
