# A verification model of RustShard-Compiler

RustShard-Compiler translates a subset of Rust to RISC-V 64 assembly. This
directory holds TLA+ modules translated from its source, TLC configurations
that check them on small instances, and TLAPS proofs of the properties that
matter most for every value of the constants. Paths below are relative to the
repository root.

## The system

`src/main.cpp` runs the passes in sequence, each on the whole program; there
is one thread, and nothing survives a run. What is hard is therefore not
interleaving but order inside the passes: texts that must be scanned with
look-ahead, grammar rules that must give back what they took, types that are
settled after their readers have looked, names that are entered and looked up
by different passes, fixpoints over arbitrary control flow graphs, worklists
that grow while they are consumed, moves that are simultaneous in the IR and
sequential in assembly, and preconditions one pass leaves to another.

| Component | State | Operations | Interacts with | Correct when |
|---|---|---|---|---|
| Lexer (`frontend/lexer`) | position, row, column, tokens | scan by first character | feeds Parser | longest match; nothing lost; places are those of the source |
| Parser (`frontend/parser`) | token cursor with backtracking | recursive descent, precedence climbing | builds the AST | sentences of the grammar, grouped by the precedences |
| Names and constants (`frontend/syntax_check`) | scopes, symbol tables, method table, impl and self contexts | four visitors: collect, declare, pre-fill, fill; `ConstEvaluator` | each pass starts if the one before reported nothing | a name means what it means in Rust; constants have their values |
| Type filling (`frontend/syntax_check`) | types of expressions, places, jumps | one handler per kind of node | reads the symbols, leaves types to IR generation | accepts what is well typed; types agree |
| Types (`common/stype`) | interned types, layouts | construct, compare, size, layout | used by all passes | fields do not overlap |
| IR generation (`ir/ir_generator`) | current block, loops, places, pending addresses | one visitor per kind of node | reads the types, builds `IrPack` | the blocks do what the tree says and obey the rules of the IR |
| CFG analyses (`ir/ir_pack`) | `cfg`, `dom_tree` | `construct_cfg`, `construct_domtree`, renumbering | mem2reg, canonicalization, register allocation | dominators, tree and frontiers are those of the graph |
| PromoteAlloca (`ir/optimizer`) | phis, version stacks, replacements | place phis, rename along the dominator tree, erase | first optimisation | every promoted load reads what memory held |
| Canonicalization (`ir/optimizer`) | use map, worklists | single-phi removal, dead code removal, critical edges, constant folding | after mem2reg and after inlining | meaning kept, no use without a definition, no critical edge |
| FunctionInline (`ir/optimizer`) | cheap functions, labels, registers | splice callees, rename, renumber | before the second canonicalization | the program prints the same; labels and phis match |
| Liveness, intervals (`backend/regalloc`) | live sets, interval list | backward fixpoint, interval scan | feeds the allocator | exactly the live registers; intervals cover them |
| Linear scan (`backend/regalloc`) | active set, free registers, mapping, spill area | expire, take, evict, spill | feeds code generation | overlapping intervals in different places |
| Frame and calls (`backend/regalloc`, `asm_generator`) | frame offsets, saved registers | prologue, epilogue, save, pass, restore | caller and callee share the stack | every value live across a call survives it |
| Parallel moves (`backend/asm_generator`) | pending moves | free moves first, then cycles | phis, arguments, parameters | destinations receive what sources held at the start |
| Phi lowering (`backend/asm_generator`) | moves per edge | collect, emit before the jump | linear scan, parallel moves | each phi receives its operand; other values survive |
| Instruction selection (`backend/asm_generator`) | instruction list | one function per IR instruction | uses the allocation | computes the result and changes nothing else |
| Printers, driver, runtime | none of interest | text output | | |

## Modules

A module per component has the component's input as variables that `Init`
leaves open, so that one run covers every input within its bounds; the MC
modules only bound the inputs. Where several components read the same kind of
input, one MC module holds both, and a behaviour is one of them at work (its
variable `unit` or `pass` says which) while the variables of the other rest.

### Front end

`Lexer` is `Lexer::tokenize`: a step is one turn of its loop, which skips blanks
and comments (`Skip`) and takes one token by its first character. `Parser` has a
row of `Rules` for each `parseX`, and `Match` is the code they share, including
what a failed rule gives back (`Tracked`: the functions that declare a
`Backtracker`). `Infix` and `Prefix` are the precedence climber. `MCLexer` and
`MCParser` bound their inputs.

`Declarations` is the four visitors as far as names go: `SymbolCollector`
(`Collect...`), `TypeDeclarator` (`DeclareType`), `PreTypeFiller` (`Pre...`) and
`TypeFiller` (`Fill...`), with the scope handling they inherit from
`ScopedVisitor`. A crate is the sequence of its nodes that matter to names, in
the order of `RecursiveVisitor`. It extends `ConstEvaluator`, the evaluation of
constants and array lengths in the two representations the code keeps numbers
in. `Scoping` extends it with what names and constants mean in Rust.

`TypeFiller` is the visitor of that name on the body of one function: the
recursion is a stack of pending visits, with one action per kind of node
(`PostArith` is `postVisit(ArithmeticOrLogicalExpression)`, and so on). `Reach`
is `set_type`, which hands a type found late down to literals. It extends `Ast`
(the node classes) and `Types` (conversion, coercion, sizes, layouts).
`LanguageRules` extends it with the rules of typing stated without an order of
visits, as the set of types an expression may have.

### Middle end

`IRGenerator` extends `TypeFiller`: when a function is accepted, `Generate`
produces its blocks, with one operator per handler on a context that stands for
`FunctionContext`. `Meaning` extends it and `LanguageRules` with what a function
does, by evaluating its tree and by executing its blocks; `MCCompile` extends
`Meaning` with the programs.

`Inline` is `FunctionInline`: `NextFunction` takes the next function, `InlineCall`
is the treatment of one call, `Reorder` the renumbering at the end. `Execution`
extends it with what a program prints, `MCInline` with the programs.

`Dominance` defines the dominators of a graph. `DomTree` is `construct_domtree`
on the output of `construct_cfg`: the sweep to a fixpoint, `SetIdom`, then the frontier loop, whose `Climb` is one step of the
inner `while`. `CriticalEdge` is `eliminate_critical_edge`; `Split` is one
iteration over `edges_to_split`. `MCCfg` extends the first and instantiates the
second and `Liveness`. `Canonicalize` holds the other passes of `Canonicalization::optimize`.

`Mem2Reg` is `PromoteAlloca::optimize` on one function: `PlacePhis` is one
worklist step, `RenameEntry` and `RenameChild` a call of `SlotRenamer::rename` up
to its recursion, `Rollback` the rest. When the pass is done, `Erase`
starts the original and the promoted program, and `Follow` takes both along the
same path. Its input is the dominator tree and the frontiers of `Dominance`.

### Back end

`Liveness` is `compute_liveness` (`Sweep`, `EndSweep`) followed by
`build_intervals`. `LinearScan` is `linear_coloring`: `TakeFree`, `Evict`,
`SpillSelf` and `SkipParam` are the ways an interval can be handled. `PhiMoves`
extends it with the end of `generate_func` for one edge of the graph: `Allocate`
runs the allocator, `CollectPhi` is one iteration over the target's phis,
`CallAssignment` hands the map to `parallel_assignment`, and `Assign` is a step of
that function: `PhiMoves` instantiates `ParallelCopy` with its own map of moves.

`ParallelCopy` is `parallel_assignment`. `todo` is `dst_to_src`; `Visit` is one
iteration of the `for` in the first loop (the unordered map may be walked in any
order, so the choice is free), `EndPass` its `while`; `OpenCycle`, `FollowCycle`
and `CloseCycle` are the second loop. `LocationAssign` is the effect of
`location_assign`, with the temporaries that far slots and memory-to-memory moves
clobber; `store` is what the registers and slots hold after the code emitted so
far. In `MCPhiMoves` a behaviour is the end of a block (`unit` is "edge") or a
call of `parallel_assignment` with any moves, as for arguments and parameters.

`Lowering` is one call of `generate_instruction`: `Lower` gives the instructions
appended for an operator, load, store, cast or `gep`, and `Step` runs them on a
machine of registers, frame slots and memory.

`CallFrame` is one call: `Save` to `Call` and `TakeResult`, `Restore` are
`generate_call` in the caller, `Push`, `MoveParams` and `Pop` the prologue and
the epilogue of the callee. `FrameSize` and the offsets are those of
`AllocationResult`, `CallerToSave` is `calc_caller_callee_save`. Caller and callee
share registers and one stack addressed in bytes. `Body` stands for whatever the
callee does: it destroys all that the allocation lets it use. `CallSpec` is the
abstract view: to the virtual registers of the caller, a call hands over the
arguments, and later changes its destination only. `CallFrame` implements it by
the mapping that reads each live register at its place (`Env`), and each
parameter where the callee looks for it (`Received`). `MCCode` extends
`CallFrame` and instantiates `Lowering`.

Other compositions are by assumption and guarantee: `Mem2Reg` takes the
dominator tree and frontiers that `DomTree` shows to be computed, `LinearScan`
takes intervals as `Liveness` builds them, and `Liveness` takes definitions to precede uses in the layout, which
`ValidIR` and `WellFormedBlocks` show of generated and inlined code.

## What the runs check

| Run (module) | Instance | Shows |
|---|---|---|
| `lexer` (`MCLexer`) | families of character strings | `Lossless`: no character is lost or read twice, and what is dropped between tokens is blanks and whole comments. `LongestMatch`: tokens are maximal, but for the suffixes of floats. `Places`: rows and columns |
| `parser` (`MCParser`) | families of token strings | `OnlySentences`, `NothingElseHidden`: what is accepted is a sentence and, but for named gaps, every sentence is. `RegularPrecedence`: trees group by the table |
| `crate` (`MCCrate`) | 8507 crates in eight families | `NamesResolve`: a crate is accepted exactly if its names are legal, and each use was resolved to the item Rust says. `ConstantsExact`: the same of constants and array lengths, and their values are those of exact arithmetic |
| `inline` (`MCInline`) | programs of a leaf, a caller of it and main, in four orders | `SameBehaviour`: after every function inlined the program prints what it printed. `WellFormedBlocks`: after every call labels are unique, branches and calls lead somewhere, phis name the predecessors, no edge is critical, definitions come first |
| `compile` (`MCCompile`) | 22658 bodies of one function in fifteen families; code is generated for 6488, of which 4683 are executed | `Decides`: accepted exactly if well typed. `NeverCompletes`: what is marked `always_returns` never reaches its end. `OneType`: no operation mixes types. `FieldsApart`: fields are aligned and do not overlap. `RunsAsWritten`: the generated blocks print and return what the tree does. `ValidIR`: unique labels and registers, one jump per block, phis match, definitions dominate uses with their type and come first |
| `cfg` (`MCCfg`) | every graph of 4 blocks | `DominatorsExact`, `TreeExact` (immediate dominators and frontiers) against the definitions by paths, `Terminates`; `NoCriticalEdge`, `SameFlow`: every arm leads where it led, and phis name exactly the predecessors |
| | every graph of 3 blocks, 2 registers, phis, allocas and parameters | `LivenessExact` (the least solution), `IntervalsCover` (every point from which a use can be reached), `LivenessTerminates` |
| `mem2reg` (`MCMem2Reg`) | 4 graphs (diamond, loops, nested loops), 2 slots, up to 4 accesses | `SameValues`: every promoted load reads what memory held, on every path, and the renamer never throws. `Terminates` |
| `canonicalize` (`MCCanonicalize`) | every function of 3 instructions over `add`, `sub`, `mul`, phis, small constants | `NoDanglingUse`, `SameMeaning`, `NothingDead`, `Terminates` |
| `registers_and_phis` (`MCPhiMoves`) | 4 intervals, 2 registers, a block with 2 phis, a forward or a back edge | `NoInterference` and `SlotsDisjoint` of the allocator; `PhisReceiveOperands` and `CrossingValuesKept`: what the places hold after the code emitted for the edge |
| | any moves between 2 registers, 2 slots (one far), from an address and an immediate | `Simultaneous`: destinations receive what sources held. `Terminates`: allocation, collection and moves |
| `emitted_code` (`MCCode`) | a caller with 3 virtual registers, 3 callees, up to 4 arguments of which 2 in registers | `ImplementsCallSpec`: arguments arrive, the result reaches its place, what lives across the call survives. `CalleeContract`: `sp`, `ra`, saved registers and the caller's part of the stack are as before |
| | other instructions: words of 4 bits, immediates of 3, all operators, operands anywhere | `WellFormed`: what is emitted can be encoded. `InstructionExact`: it computes what the IR means, for casts that keep the word, and nothing else changes |
| `dead_phi` (`MCPhiMovesDead.cfg`) | as `registers_and_phis`, with dead phis | `OneDestinationPerPhi` fails: see the findings |
| `inline_unused` (`MCInlineUnused.cfg`) | as `inline`, with functions that use none of their parameters | `SameBehaviour` fails: see the findings |

Every property of a passing run is tied to a small change of the code's model
that breaks it (definitions such as `Evict_KeepSlot`, `Find_Outermost` or
`NewOut_NoPhis`, next to the one they change), so that none of them holds by
the shape of the model.

### Bounds

- `MCLexer`, `MCParser`: strings of up to four to six pieces per family of characters
  (comments, numbers, quotes, marks, words) and of up to eight tokens per family
  (expressions, statements, patterns, types, items). `MaxLiteral` is 5, so that
  a literal can be too long, `MaxTokens` 8. Two operators and a bracket are what
  a decision of the climber depends on.
- `MCCrate`: families of pieces put together in every way that closes its
  scopes: a name bound outside, in a function and in a block, inner function or
  loop of it, used before, in and after; functions before and after their
  calls; structs and enums in two scopes; impls, `self` and `Self`; breaks;
  `main`; constants of two definitions and lengths, and names that hide them. Two levels of scope inside a
  function are enough for a lookup to go too far or not far enough. Widths are
  scaled to 8, 12 and 15 bits.
- `MCInline`: `g`, `f` that calls it and `main`, in four orders, with the body
  shapes the pass must tell apart. `Threshold` 30 makes the bodies cheap; `Fuel`
  60 bounds the steps of a run (a program cut off is compared up to there).
- `MCCompile`: literals under all operators to depth two; jumps in branches and
  loops to depth two; places behind references, fields, elements and method
  calls; calls, patterns of lets and parameters, lets that never end, returns;
  layouts of up to three fields; copies of aggregates, as arguments of functions
  and methods among them. Widths are scaled to 8, 12 and 14 bits; `Fuel` 12 bounds the turns
  of a loop. Each family is the product of what its handlers distinguish.
- `MCCfg`: four blocks contain diamonds, loops, irreducible loops, unreachable
  blocks and critical edges in every arrangement. Up to three sweeps occur. For
  liveness three blocks do, with two registers, because the flow equations are
  separate for each register and interact only through definitions inside a
  block.
- `MCCanonicalize`: three instructions give one that folds only after another
  has, and a phi between.
- `MCMem2Reg`: in the second graph the loop header gets a phi only from the
  iterated frontier; two slots allow copies from one to the other.
- `MCPhiMoves`: two phis, their operands and a crossing value in two registers
  make every eviction case happen.
- `MCPhiMoves`, any moves: the algorithm only compares locations, and treats
  registers, slots and slots beyond the reach of an immediate offset
  differently. Two of each writable kind give cycles of length one to four
  through registers and memory, and trees hanging from cycles.
- `MCCode`, calls: the code treats a register by its class and each argument by
  whether it has a register, so two argument registers, one more caller-saved
  and two callee-saved ones are enough; the third and fourth argument are on the
  stack, with padding in the frame or not.
- `MCCode`, other instructions: four and three bits keep the two facts that
  matter of 64 and 12: some constants do not fit, and the range is not symmetric.

### Preconditions

Inputs a property leaves out. In the front end each is a named predicate next
to the property, with the reason: the compiler decides differently there.

- `Lexer.Swallows`: `1.` before a line end. `Lexer.CutsSuffix`: a float with a
  suffix, cut before it.
- `Parser.Gap`: seven kinds of sentence of `docs/semantic_rules.md` the parser
  refuses. `Parser.MissingAlternative`: a pattern with nothing behind `|`, which
  it takes. An empty body of a function is a sentence here as it is for the
  parser and in Rust, although the docs' `FunctionBodyExpr` asks for statements.
- `Scoping.NameGap`: types and values in one namespace (`OneNamespace`), methods
  by their bare name (`BareMember`), variables of an outer function
  (`Captures`), bindings that replace an item or hide their own function
  (`Replaces`) or a constant of a scope around (`HidesConstant`), signatures that read types of the body (`LocalInSignature`),
  functions and impls inside methods (`InMethod`), breaks out of an inner
  function (`BreakOut`), impls of structs of one name (`Confused`), second
  methods of a name (`FirstStays`). The model stops at the first report, where
  the compiler goes to the end of the pass, at times to a crash.
- `Scoping.ValueGap`: expressions the evaluator refuses, overflow it does not
  notice, constants used before their definition, operands of different
  representation, lengths of another type than `usize`.
- `LanguageRules.Gap`, `PatternGap`, `Late` and `LoopGap`: where the type filler
  is stricter or laxer than the rules, each disjunct with its comment. The rules
  bind patterns by `Binding`, which is written from the language and not from
  `bind_pattern`; they leave out whether a place that is borrowed mutably may be.
  `Meaning.NotHandled`: what IR generation refuses or does in another order, and
  the arguments of methods it clones as another type.
- `Liveness.DefinedFirst`: a register's definition comes before its uses in the
  layout of blocks. `ValidIR` shows it of generated code and `WellFormedBlocks` of
  inlined code; the other passes keep the order of the blocks, or append blocks
  that only jump.
- `Mem2Reg.ProgramsAssumption`: all blocks can be reached, on every path a store
  precedes each load (`WellDefined`), and no address of a slot is stored
  (`NoLeak`).
- `MCCanonicalize`: no single-operand phi has another one as its operand
  (`ChainedPhis`).
- `MCPhiMoves`: no dead phi (`DeadPhis`). `MCInline`: a function with parameters
  uses one (`UnusedParameters`).
- `Inline.ProgramsAssumption`: functions have different names, calls lead to
  functions of the program and fit their parameters, and each function is `Formed`
  and `WellFormed` with labels no inlining has made. `PromoteAlloca::optimize`
  ends with a canonicalization, so that edges are split and phis match when the
  inliner starts; `ValidIR` shows the rest of generated code, which the passes
  before keep.
- `MCCode`: no shift of an immediate (`ShiftOfImm`); loaded types are signed
  (`Unsigned`); casts to a type in which every integer of the operand's type is
  the same word (`Narrowing`: a `trunc`, or a `sext` to an unsigned type narrower
  than a word, would have to change it); arithmetic is that of full words. With
  any of the three set to TRUE, `InstructionExact` fails.
- `CallFrame`: the caller's registers are placed as the allocator promises, and
  there is room for the registers to save (`max_caller_save_num`, the maximum
  over the calls). `RegistersAssumption` says that the classes of registers are
  disjoint, `FramesAssumption` that frames are as `allocate_registers` makes them
  (`IsFrame`: parameters with a register are in it or in a word of the spill
  area) and that the modelled stack has room for them.
- `TreeExact` speaks of graphs whose blocks can be reached; `DominatorsExact`
  of all.

### Fairness

The compiler is sequential and never waits, so the modules with a liveness
property assume weak fairness of their next-state relation: an enabled step is
taken. `Mem2Reg` assumes it of the pass only (`Pass`), not of the program that is
run afterwards, which may loop.

## Findings

Two runs are expected to fail, each with one property.

- `dead_phi`: a phi without uses can be given the location of a phi that has
  some, and the map keyed by location (`asm_generator.cpp:748`) drops the second
  move.
- `inline_unused`: registers of an inlined body are numbered from what the
  caller's blocks mention (`optimizer.cpp:368`), and may coincide with its unused
  parameters, which a later inlining replaces by arguments.

Other disagreements met while modelling; the preconditions above keep the
properties away from them.

Scanning and parsing
- `1.` takes the character after the point, and a line end taken so is not
  counted (`lexer.cpp:106`).
- `1.5f32` is read as `1.5` and `f32`: the pattern has the suffix
  (`lexer.cpp:106`), but an alternative without it comes first. The parser's
  handling of float suffixes (`parser.cpp:1226`) is never reached.
- Ranges bind by a precedence of their own and may lack the right operand; a
  struct expression named by a path, a jump or range before a block, a trailing
  comma in a struct pattern and a parameter type that begins with `self` are
  refused. So are paths in expressions that begin with `::`, `super` or `crate`
  (`docs/semantic_rules.md:184` and 233, `parser.cpp:1040`), and paths in patterns that
  begin with a keyword (`parser.cpp:1805`).
- `( id | )` is taken for a pattern, and a null alternative kept
  (`parser.cpp:1761`); `docs/semantic_rules.md:460` requires one.

Names and constants
- A nested function that reads a variable of the function around is accepted,
  and IR generation throws. A break in it is collected by the loop around.
- `_impl_type`, `is_in_asso_block` and the state of `self` are not set aside for a
  function or impl inside a method: such a function enters the method table
  first, and `emplace` then drops the real associated function of that name.
- One scope holds types and values; a struct's name passes as a value; a
  parameter's type may be a struct of the body; a `let` replaces a function of
  its scope; an associated function is found by its bare name; a second method
  of a name, in another impl, is dropped silently.
- A `let` or parameter may hide a constant of a scope around
  (`syntax_check.cpp:2895`); in Rust the pattern is the constant (E0005).
- A binding with the name of its function makes the compiler follow a null
  pointer (`syntax_check.cpp:1860`). A type alias recurses without end. A trait
  or trait impl with a function is refused.
- Constants: shifts and comparisons are refused or throw, overflow is not
  noticed, a constant cannot be used before its definition, `3usize` and `1` do
  not add up, lengths may have any integer type.

Types
- `true + true` is accepted; bit operators with an undetermined left literal are
  refused; `!` of a literal is checked as a negative; `-128i8` is refused;
  shifts bring both operands to one type; an index of another unsigned type is
  relabelled without a cast (`syntax_check.cpp:2062`).
- Literals are not checked for their range where `set_type`'s answer is not
  looked at (return, assignment, branches, arrays, structs).
- A method by its path without an object is accepted, and refused with one; a
  call with missing arguments follows a null pointer; `&self` methods on fields of
  immutable objects are refused.
- `&x` as a pattern binds `x` with the type of the reference, not of what it
  refers to (`syntax_check.cpp:2969`), so that `let &v = &x; v + x` is refused. Of
  a tuple pattern, members after the first are read past the end of a vector
  (`syntax_check.cpp:2930`). Tuples and structs are not taken apart through a
  reference; a field or a name may be bound twice, in parameters too.
- A block with a `let` whose initialiser never ends is taken to go on, and a
  condition that never ends is refused.
- A loop without a break, a loop whose block always returns and a while with a
  tail get other answers than in Rust; breaks of different types are accepted.
- A field of zero size restarts the offsets of a struct at 0 (`stype.hpp:263`).
  Structs of one name in two functions share a type.

IR generation and optimisation
- Compound assignments read the left side before the right side is computed;
  fields are computed in the order of the declaration; `!` of an integer is
  `== 0`; the value of a `break` in a `while` is stored to register -1; an
  aggregate as the value of a block is held in a register, for which the back end
  throws (`asm_generator.cpp:503`).
- An aggregate argument of a method is cloned with the type of the caller
  instead of the parameter's (`ir_generator.cpp:628`): it is copied in part, or
  together with what is behind it, and the pointer's type does not fit the call.
- A parameter `ref x` is stored as `x`.
- A single-operand phi whose operand is another one leaves uses of an erased
  register (`optimizer.cpp:6`).
- An unreachable block gets an immediate dominator, although -1 is said to mark
  it (`ir_pack.hpp:35`), and the frontier loop may run for ever.
- `eliminate_critical_edge` compares with a label that has been moved from
  (`optimizer.cpp:231`). mem2reg promotes a slot whose address is stored
  (`optimizer.cpp:516`). `constant_fold` ignores widths.

Code generation
- `1 << n` is emitted as `slli` of `n` by 1 (`asm_generator.cpp:433`). A `u32` is
  loaded with `lw` (`asm_generator.cpp:498`). Indexes are not checked.
- A cast is a move whatever its operator (`asm_generator.cpp:636`): `trunc` leaves
  the high bits (`300 as u8` in a register stays 300), and `sext` to `u32` does not
  clear them.
- Any exception after the semantic check ends the compiler with status 0 and no
  assembly.

## Proofs

Eight modules hold theorems. `LexerProofs` (the scanner), `AllocationProofs` (linear scan, phi lowering and
parallel moves), `InlineProofs`, `Mem2RegProofs` and `CanonicalizeProofs` extend their component's module;
`CfgProofs` extends `MCCfg`, which composes `DomTree`, `CriticalEdge` and `Liveness`, and
`CodeProofs` extends `MCCode`, which composes `CallFrame` and `Lowering`; `ProofLibrary` holds the lemmas that several of them cite, on
induction and on dominance. All theorems hold for every value of the constants
under the assumptions named in the component's module: sets of locations of
different kinds are disjoint; a positive number of blocks; finite sets of
registers; intervals that start before they end; programs as in
`ProgramsAssumption`; frames that satisfy `FramesAssumption`; operators among
`add`, `sub` and `mul` in canonicalization; for instruction selection
`IsConfiguration` (constants fit in words, and 1 in an immediate); for the
scanner `LexerAssumption`, that texts are sequences of characters.

- Induction. A theorem with an operator as parameter cannot be instantiated, so
  `ProofLibrary` takes a property as the set of numbers that have it and a
  step as a function. `UpTo` follows from the pigeonhole theorem, `Recursion` (a
  recursive function on `0..N` exists) from `UpTo`; `AllAbove` and
  `RecursionFromTheEnd` are the same from `N` downwards.
- The scanner, for every text. Its recursive functions over positions
  (`CommentEnd`, `Skip`, `StringEnd`) and those of the grammar they are compared
  with (`Bodies`, `Gaps`) ask for later positions only, so they are unfolded by
  `RecursionFromTheEnd` and reasoned about by `AllAbove`. `CommentBody`: the end
  that counting brackets finds is the end of a comment of the grammar; it is used
  twice at a nested comment, for the inner one and for what follows it.
  `SkipPassesGaps`: what `advance` passes is blanks and whole comments. The
  invariant `ScannerState` adds to `Lossless` that the scanner stands where the
  last token ends and that tokens lie in the text; each handler moves by at least
  one character and not beyond the end (`NumberFacts`, `StringEndAbove`,
  `StartsAt`), whence `NothingLost` and `EveryTurnAdvances`. For `PlacesExact`,
  `advance_one` over a piece of the text goes from exact to exact (`WalkExact`),
  and the number scanner, which adds to the column instead, passes no newline but
  a last one after a point (`NumberFacts`). For `LongestTokens`, the step proofs
  carry `Maximal` for the token taken, which excepts the suffix of a float. Of a number, the pattern that wins is the
  longest integer, no shorter one is followed by a letter that begins a suffix
  (`IntLongest`), a float extends the decimal integer only (`FloatLongest`), and
  no suffix begins another (`SuffixFacts`); from these `NumberLongest` follows for
  each rule of `Number`, and `NumberWindow` carries it to the text. Of a mark, no
  branch of the switch comes before a longer one (`Ordered`, `BranchFacts`), and
  what begins with the character of a mark is no word or number
  (`MarkCharFacts`, `OtherForms`).
- Parallel moves. `Simultaneous` is not inductive: the invariant (`CopyInv`) adds
  that places without a pending move are right already (`DoneRight`), that each
  pending source still holds its initial content or is the one saved in the
  temporary (`SourcesSurvive`), and that an open cycle is a path in the remaining
  permutation (`OpenPath`). After a pass without progress every pending
  destination is read by a pending move (`VisitedRead`); by counting (a finite
  set mapped onto itself) the moves left are a permutation (`OnlyCyclesLeft`).
- Linear scan. `NoInterference` needs `Occupants` (the active set holds, for each
  register in use, the one interval that has it), `Placed` (parameters
  are placed before the loop, everything else by it) and `Tenants` (whoever was
  given a register still occupies it, or ended before all that is to come). The proof has a lemma for each way of placing an interval.
- Phis. Through `LinearScan`'s invariant: the phis of a block are alive together,
  and each with whatever crosses the edge into the block (`PhisApart`,
  `PhiStarts`), so they have different places and no entry of the map of moves
  is asked for twice (`Collected`). The places are ones that moves can be between
  (`Slotted`: an eviction takes the next slot, and `Slots` has one for every
  register). `parallel_assignment` runs on the collected map and its invariant
  holds while it does (`Called`), so the theorems are about the contents its
  instructions leave, not about the map. `OperandsArrive` and `DestinationsDiffer`
  assume that no phi is dead, `CrossingValuesSpared` does not; the run `dead_phi`
  shows that `DestinationsDiffer` needs it.
- Dominators and liveness. Both fixpoints follow the same argument: the sets
  never leave the right side of the true solution (`NeverTooSmall`,
  `NeverTooLive`), and when a sweep changes nothing every block satisfies its
  equation (`Settled`, which records the blocks of the sweep seen so far). The
  solution on that side is then the exact one.
- Dominator tree and frontiers (`TreeComputed`), for graphs whose blocks can be
  reached. Dominance is stated by closed sets of blocks rather than paths; from
  that it is transitive and antisymmetric, and the dominators of a block are in
  line. `SetIdom` scans the bitmap for the block that all others dominate:
  `ScanUnfolds` proves what the recursive function computes, `ScanFinds` that it
  is the immediate dominator. For the frontiers the invariant `TreeInv` has two
  halves: what has been listed belongs to a frontier (`OnlyFrontier`), and what
  belongs to one has been listed, or is above the block the climb has reached,
  or comes from an edge still to be taken (`AllFrontier`, `Climbing`).
- Slots (`SlotsPromoted`). Which version of a slot counts at a point is said
  without paths and without stacks: versions come from places, the writes and the
  phis, and the one that counts is the last place among the point's dominators
  (`IsLast`, `Before`). `NoPhi` is what phis are placed for: a block without a phi
  for the slot has the same last place as the end of each of its predecessors.
  It needs that the frontier of every defining block has phis (`Placed`), which
  the worklist establishes (`Placing`: each defining block is done or in the
  worklist). While the renamer is inside a tree of calls, the stacks are, top
  first, the places before the point it has reached, each call's frame tells
  where its block ended, and a child starts from there (`Renaming`); the rollback
  gives back exactly the stack of the parent (`TakenOff`). Every block is renamed
  because every block has an immediate dominator (`HasIdom`, `EveryBlock`). A
  load has a version since a store precedes it on every path
  (`LoadHasVersion`). In the final run the register of the last place holds what
  memory holds (`Agrees`): over a block (`RanRight`), and over an edge by `NoPhi`
  or by the operand the phi got from this predecessor (`Followed`).
- Intervals. `LivePointsCovered` joins the liveness proof with the scan: from a
  point where a register is live, either the next point of the block has it live
  or it is in the block's live-out set, and both are before the interval's end
  (`Covered`). The points from which a use can be reached are a least fixpoint;
  that it is one (`LivePointsLeast`) is by the lemmas on induction.
- Critical edges. The invariant says that an arm leads where it led, and is still
  to be split if it is critical, or leads through a new block that no other arm
  uses (`Routed`, `Private`), and that phis name the predecessors (`Phis`). The
  difficult step is that `Redirect`, which looks for the target by its label,
  changes one arm only, since the arms of a branch differ. `NoneLeft` and
  `FlowAsBefore` are about the specification the run `cfg` checks: where that
  run has `DomTree` at work, `CriticalEdge` rests in an initial state of its own
  (`AtRest`).
- Inlining (`InlineStateInvariant`, `InlinedBlocksWellFormed`), for programs of
  any functions and any threshold. `WellFormedBlocks` is not inductive by itself.
  That the labels of a copy are new follows from what labels record: a label
  names, in its appendix, the functions it was copied for, a function still in
  the pack is named by none (`Whole`), and the one being inlined is named with
  numbers up to `hint_id` in the function searched and not at all in those behind
  it (`Searching`). That no call of an erased function is left needs that the
  search has passed every call before its position, and that the callee does
  not call itself. That a phi has one income per return, and that the result is
  defined, needs that a call fits its callee, and that a function is `Formed`:
  jumps end the blocks, phis begin them, nothing branches to the entry. That one
  inlined call keeps this is shown in layers: the blocks of the result
  (`Spliced`), their labels and edges (`Shape`, `Edges`), the instructions and
  their order (`Laid`, `Orderly`), and from them each part of `WellFormed`.
  Renumbering changes registers only (`Renumbered`), and maps a register read to
  the number its definition got. No theorem says that the program prints the
  same: the run does.
- Canonicalization (`NothingDangles`, `MeaningKept`, `OnlyNeededLeft`), for
  functions of any length without chained single-operand phis. The registers of
  the function before the passes have values, one valuation for each way to
  enter the blocks; the invariant says that this same valuation satisfies every
  instruction as rewritten, so that erasing instructions or replacing operands
  cannot change what the sink sees, and that the uses left are of registers
  left. During marking, what is useful is needed and what it uses is useful or
  in the worklist. The recursive functions (`ReplaceAll`, `Value`) are unfolded
  by the lemmas on induction. Without the hypothesis the first theorem is false, as
  the code leaves uses of an erased register (see the findings).
- Frames and calls. `BodySparesSavedWords` and `ArgumentsMeet` are facts of the
  layout: the areas follow each other (`Ordered`) and fit below the arguments once
  the size is rounded up (`SizeFacts`). The invariant (`IInv`) says,
  for each operation of the call, what every register and every cell of the
  stack that matters holds at that moment: saved registers in their words,
  arguments in their registers or words, the rest as at the start. From it follow
  `Aligned`, `ContractKept`, and, step by step, the refinement of `CallSpec`
  (`CallImplemented`): `ArgumentsArrive` for the entry, `GivenBack` for the end,
  `Unseen` for the steps the abstract call does not show.
- Instruction selection (`LoweringExact`, `CodeWellFormed`), for words and
  immediates of every width. The invariant `LoweringInv` says that what remains
  to be run leads from the present state of the machine to the right one: the
  place of the result holds what the instruction means, memory too, and no
  other register or slot has changed. Running one machine instruction keeps this
  by the definition of a run, so the work is at the start: for each kind of
  instruction the sequence is run symbolically, with `Fetch` and `Flush` as
  lemmas about operands and destinations in slots, and the word it computes is
  compared with the meaning. That comparison is modular arithmetic over words
  of `Pow2[XLen]` values (negated immediates, shifts for multiplications and
  divisions by powers of two, comparisons by swapped, incremented or negated
  results). A cast is a move, and the operand's word is right for the type it is
  cast to by `CastKeepsWord`; that the word had that property before the cast is a
  conjunct of the invariant (`Unaltered`). The hypothesis `IsSupported` is what
  the run sets: no shift of an immediate, no unsigned loads and no cast that has
  to change the word, for which the code is wrong (see the findings and the
  hazards). The theorems are about `MCSpec`, where the module
  that has no work rests; `LoweringAssumption` wants a register for that.

Left to TLC: everything about the rest of the front end and IR generation; that inlining keeps what a program prints; liveness under fairness
(`Terminates` in each run that has it, and `LivenessTerminates`); what recursive
definitions compute where no bound is known. The parser, the checker, `Execution`
and `Meaning` use recursive operators, which the provers do not support.

## Not modelled, and why

- `graph_coloring` (`regalloc.cpp`) is never called; the magic-number division
  of `asm_generator.cpp` returns before doing anything.
- Traits, trait impls and type aliases: the compiler refuses programs with them,
  or does not end.
- Constants that are arrays or references, strings, characters and floats beyond
  the lexer; constant items and nested structs in IR generation.
- The pools of types and constants: what is interned is compared by value here.
  A pooled constant whose type is set later keeps its old hash, so that it is not
  found again and not confused with another.
- The valid flags of cached analyses and `update_block_ids`: which pass
  recomputes what is the driver's order of calls; blocks are found by label.
- `local_var_alloc`: only the size it arrives at appears, as a field of the frame.
- Conditional branches in instruction selection: a fetch and one branch.
- Widths of integer types in constant folding.
- Printers, the driver's options, and the runtime (`src/builtin`), which is
  linked to the output.
- Exceptions thrown on input that earlier passes exclude.

## Plan

Left, in this order:

1. The driver's sequence of passes over one function, with the cached analyses.
2. Array constants and constant items, in `ConstEvaluator` and `IRGenerator`.
