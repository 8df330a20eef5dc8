# Verification of simplifier

TLA+ models of the boolean circuit simplifier in this repository (C++, header
only, under `src/src/`, with its program `src/app/simplifier.cpp`), checked with
TLC on small circuits and files.  For the sort, the evaluation, the parser and
writer, three of the transformers and the strategies that chain them, TLAPS
checks proofs that hold for circuits and files of every size (section 5).  The program is a function: a directory of
circuits in, a directory of smaller circuits out.  What can go wrong in it is
not a race but the bookkeeping: gate ids that live in four containers at once,
links from dropped gates to what replaces them, an order of gates that every
loop relies on, and rewriting steps that read the circuit as it was while they
change it.  The models keep exactly this.

Gate id `i` of the code is `i + 1` here.  Line numbers refer to the sources at
the commit beside this directory.

## 1. The system

| Component | Sources | State it keeps | Operations | Module |
|---|---|---|---|---|
| Gate types, states, operators | `common/csat_types.hpp`, `common/operators.hpp`, `utility/converters.hpp` | none | operators on two states, on containers of states (with early return and assertions), `symmetricOperatorQ`, types from and to text | `Operators`, `Evaluation`, `BenchFormat` |
| Circuit | `structures/circuit/*.hpp`, `structures/assignment/*.hpp` | gates with types, sorted operands and users; inputs; outputs; immutable once built | accessors, `evaluateCircuit` | `Circuits`, `Evaluation` |
| Graph algorithms | `algo.hpp` | an explicit stack, a state per gate, the sorting | `performDepthFirstSearch`, `TopSortAlgorithm<DFSTopSort>` | `DepthFirstSearch`, `TopSort` |
| Encoder, names | `utility/encoder.hpp`, `simplification/transformer_base.hpp` | names to ids and back | `encodeGate`, `keyExists`, `decodeGate`, `mergeGateEncoders`, names of added gates | `GateEncoder` |
| Transformers | `simplification/redundant_gates_cleaner.hpp`, `duplicate_gates_cleaner.hpp`, `reduce_not_composition.hpp`, `constant_gate_reducer.hpp`, `duplicate_operands_cleaner.hpp` | per call: new gates, old-to-new ids or links, new outputs, encoders | `transform` | a module of each name, and `Transformer` for what all promise |
| Composition, Nest, strategies | `composition.hpp`, `nest.hpp`, `strategy.hpp` | the circuit and encoder passed along | `transform` of each in turn | `Pipeline` |
| Colorings | `utils/two_coloring.hpp`, `utils/three_coloring.hpp` | colors with parents and gates, colors of a gate, last negation of a gate | the constructors | `TwoColoring`, `ThreeColoring`, `Coloring` |
| Database | `utils/circuits_db.hpp` | entries by sorted truth tables | reading an entry, lookup | `CircuitDB`, `SmallDatabases` |
| Subcircuit minimization | `three_inputs_optimization.hpp` (AIG), `three_inputs_optimization_bench.hpp` | gates being rewritten, `is_removed`, `is_modified`, tables of a color, a static statistics object | `transform` | `SubcircuitMinimization` |
| Application | `src/app/simplifier.cpp` | the statistics object, shared by the files | per file: parse, five times strategy and minimization, then the strategy, write | `Application` |
| Parser, writers | `parser/*.hpp`, `utility/string_utils.hpp`, `utility/write_utils.hpp` | names met so far, gates and outputs collected | text to circuit and back | `BenchParser`, `BenchFormat` |
| Random numbers, logger | `utility/random.hpp`, `utility/logger.hpp` | a seeded engine | draw, print | only the drawn prefix, in `GateEncoder` |
| Data, scripts, tests, vendored code | `src/databases`, `src/benchmark`, `src/tools`, `src/tests`, `src/third_party` | – | – | not modelled |

How they interact: everything runs in one thread.  A strategy is a list of
transformers; `Composition` gives each the circuit and the encoder that the one
before has returned.  A transformer builds a topological sort (`algo.hpp`)
and, the constant reducer, an evaluation with no input assigned
(`icircuit.hpp`), then goes through the gates from operands to users, fills
new containers and returns a new circuit.  Minimization colors the circuit it
gets, looks the truth tables of each color up in the database and rewrites.
The application does all this for one file after the other in one process.
Correctness of one is the precondition of the next: there is no check of a
circuit anywhere in between, apart from the bound check of `DAG` and a few
assertions.

What is hard here (each at its line in `PROJECT.json`, "hazards"):

* *order*: transformers rely on a sort that comes out of a stack with repeated
  entries; colorings and truth tables rely on operands coming before users;
* *protocol*: each transformer leaves debris to later ones (negations,
  constants, links), only their order makes the result small and, for basis
  and colorings, usable;
* *stale state*: links followed once, tables and users read from the circuit
  given after it has been changed, an encoder asked for dropped gates;
* *ids*: an id is a position in the gates, the assignment and the links and a
  number in the encoder, all of which have to be extended alike;
* *edges*: no inputs, no outputs, constant outputs, gates of one or no operand
  left, arity assertions;
* *termination*: every walk ends only because the circuit has no cycle;
* *files*: one statistics object serves all of them, and one that aborts the
  program takes those with it that come later;
* *text*: names are used before they are defined, twice or never, and names
  made up by five iterations must not meet.

There is no concurrency, no persistence and no message, hence no property
about them.

## 2. Modules

`Operators`, `GateEncoder`, `Circuits`, `TopSort`, `CircuitDB` and `BenchFormat`
are operators on values.  `Operators` has the three states and each operator as
`FoldMapOperator_` computes it, early return and all; `SimpleOperator` is the
second family, on two states.  `Circuits` has circuits as records, well-formedness,
`EvaluateCircuit` as a recursive function and `SameFunction`, the comparison
of two circuits over named inputs.  An encoder is the sequence of its keys.

`DepthFirstSearch` is `performDepthFirstSearch` with the operations of
`DFSTopSort`: `Start` takes a start gate, `Enter`, `Leave` and `Skip` are the
three cases of the switch, `EnqueueOperand` is one call of `enqueue_next`,
`Over` the reversal, `Rest` the loop that appends unvisited gates.  `TopSort`
says the same as a function, which the transformers use (from
the end); the run `search` shows that they agree on small circuits, and
`SortIsTopSort` proves it for all.

`Evaluation` is `evaluateGate_` with its stack: `NextSink` (one output, whose
`evaluated_` starts empty while `internal_asmt` is kept), `TakeGiven`,
`PushOperands`, `ApplyOperator`, `Abort` (an arity assertion).
Its operators are
checked there as well: `ImpliedIsGiven` completes the open operands of a gate in
every way and asks whether the code finds the state all completions share.

`Transformer` is the abstract specification: from a circuit and its encoder,
once, to a well-formed circuit with as many names as gates that computes the
same outputs from the same named inputs.  The five transformers are modules of
their own, one action per branch of the loop body and per loop; names of
variables are those of the code.  In `ConstantGateReducer`, for example,
`LinkToOperand`, `LinkToNegation`, `LinkMux`, `KeepGate` and
`ReplaceByConstant` are the branches for a gate, `MoveOutput`, `BuildGadget`
and `Abort` those for an output.  `Pipeline` instantiates all of them over one
set of variables (the code's transformers are created and dropped one after
another), adds `HandOver` and holds the strategies.  A task of `Pipeline` is a
circuit and a strategy, so that one transformer alone is a strategy too.

`TwoColoring` and `ThreeColoring` paint one gate at a time, `Coloring` runs
their constructors one after the other.  `SubcircuitMinimization` goes through
the colors: `SkipColor` (a stale color), `StartScan`, `ScanGate` (tables,
primitive gates, outputs), then `ImprovePrimitives` (not in the database),
`KeepColor` (no gain) or `Replace`.  The two classes are near copies; the
module has a `basis` where they differ (types accepted, what counts as size,
the statistics that decide whether the AIG class skips an iteration).

`CircuitDB` has the entries of a database, the six orders of its inputs and
`ReadEntry`, which reads a line as the code does, with a loop whose bound grows
while it runs.  `SmallDatabases` makes entries: the smallest circuits of few
gates, and lines of the two files of the repository.

`BenchFormat` is a file as a list of lines, each with its kind, name, operator
and operands; `IsLegal`, `Meaning` and `MeaningNames` say which circuit it
stands for without regard to the order of lines, and `writeBenchFile` writes
one.  `BenchParser` reads a file, one action per kind of line (`ParseInput`,
`ParseOutput`, `ParseSpecial`, `ParseGate`, `SkipLine`, `Abort`), then
`Instantiate` or `Throw` (an operand out of range), and `Clear` for the next.

`Application` composes everything: `OpenFile`, `Parse` (a step of
`BenchParser`), `StartSimplification` (`cleanState`), `Clean` (a step of
`Pipeline`, which hands over between its transformers), `Minimize` (a step of
`SubcircuitMinimization`), `HandOverMinimized` and `writeResult`.  The list of
47 transformers is `applySimplification`.  Of the statistics it keeps the two
fields that decide anything.  It runs in the variables of its parts, and each
part sees only those that its module declares.

`MC*` modules and `.cfg` files name the circuits; `CircuitSets` builds them:
`CircuitsOf` all acyclic circuits of given shapes in any order of ids,
`OrderedCircuits` those whose operands have smaller ids, `TidyCircuits` the
ones that colorings expect.  Definitions marked "Mutant of" change one
definition as a slip in the code would; they are used by nothing in the model, and show for each
property that it can fail.

Proofs are in modules of their own.  `CircuitLemmas` holds what several proofs
need: induction, cones, states, the gate operators, the sort as a function,
sorted operands, encoders, copies of circuits, and equations between the states
of gates.  `DepthFirstSearchProofs`, `EvaluationProofs`,
`RedundantGatesCleanerProofs`, `DuplicateGatesCleanerProofs`,
`ReduceNotCompositionProofs`, `BenchParserProofs` and `PipelineProofs` are about
the module in their name.

## 3. What the runs check

| Run | Shows | Bounds |
|---|---|---|
| `search` | The search ends; the mask is closed under operands and exactly the cone of the starts; the sorting is topological and the one `TopSort` defines | one input, three NOT/AND gates in any order of ids, one or two outputs, started from sources and from outputs |
| `evaluation` | The machine computes the recursive definition, ends, never changes a state it has derived, and derives only what is implied whatever the open inputs are; each operator but MUX finds all that is implied, and the two families of operators agree | up to three inputs, two or three gates of all kinds incl. one of wrong arity, all partial assignments, of inner gates too in the deeper circuits |
| `pipeline` | Each of the six transformers by itself, the application's strategy and the others in a row implement `Transformer` and end. Encoders and ids agree at every step, links need one step, the cleaner's second loop only looks ids up, each transformer does what it is for. Circuits handed over are well formed and named; the result of the application's strategy has nothing removable and no auxiliary gate, fits the colorings. A strategy aborts only if no output reaches an input or, where the constant reducer comes before `ReduceNotComposition_`, at a NOT gate out of use. No strategy that ends with `DuplicateGatesCleaner_` enlarges the circuit (a reducer by itself may, by negations) | see below |
| `coloring` | Two colors at most; subcircuits closed over their parents with operands first, every gate of a color needs all of its parents | four gates over three inputs, of which the first is over some pairs only |
| `minimization` | Each rewritten color leaves all gates their function; tables are right; growth is at most the gates taken for removed that stay; an AIG iteration is skipped only if nothing changes; it implements `Transformer` | three inputs, three or four gates (more in the chosen ones), a generated database of the smallest circuits of few gates, and entries of the repository's |
| `parser` | A file that means a circuit is read as that circuit whatever the order of its lines; a name that is never defined gives no gate; what is written and read again means the same unless it has constants | every order of four or five lines, two of 55 choices and three longer files; the parser is cleared and used again |
| `application` | The whole program: what is written for a file means what the file does; each of the 47 transformers gets a circuit and names to work on, and each iteration room in the statistics; equal files have equal results; only unfit files abort the program; it stops nowhere else | see below |
| `duplicates_left`, `pipeline_aborts`, `minimization_cycle`, `minimization_growth`, `application_basis` | see Findings | |

Why the bounds suffice to be of interest: every branch of every handler fires
in some passing run (all disjuncts of the next-state relations do), and the
sets are chosen for the patterns that the code distinguishes.  For
`pipeline`, besides one to three gates with constants for the strategies:
unused gates and inputs whose removal reorders operands; duplicates of duplicates with ids in any order; chains of up to four NOT
gates, shared and cut; gates of up to four operands with duplicates, opposites
and both, over links; constants under every operator of up to three operands,
MUX included, and circuits without inputs or outputs.  Two draws of
`getUniqueId_` suffice as one pass over a strategy has two transformers that draw.
`CHECK_DEADLOCK FALSE` is set where a behaviour stays in "done" or "aborted"
and is meant to; that nothing else stops is `Termination`.

For `application`: directories of one or two files; all circuits of three gates
of some kinds over two inputs, and chosen ones: two subcircuits replaced by the
same entry over other parents, a circuit that grows, one that is improved and is
read twice with nothing in between, gates of three operands, gates of the other
basis, constants, circuits without inputs or outputs, and text that means no
circuit, each before or after a file that is fine.  The database is four lines
of `database_bench.txt` with one that lets circuits grow, or lines of
`database_aig.txt`, so that the first iterations change something and the later
ones find nothing.  Six draws of `getUniqueId_` are enough for the names that
are alive at once.  The program's end is the action `Exit`, so that deadlock
checking finds any other stop; that it does not go round for ever is left to
the `Termination` of its parts, because the check of liveness over 47 stages is
out of TLC's reach here (ENABLED evaluates the circuit of a state again and
again).

Fairness: `WF_vars(Next)` in every specification.  One thread executes a loop;
it takes its next step as long as there is one, and there is nothing to be
fair between.  `Termination` is checked for `search`, `evaluation` and
`pipeline` (which runs every transformer); coloring, minimization, parser and
application loop over lists that do not grow.

Data that is abstracted: names are tuples, logging and statistics that are
only printed are left out, a truth table is the set of rows in which it is
true, the database is a constant set of entries (`DBAssumption`: each entry
computes its key), a line of text comes apart into its fields, and whether a
name begins with `INPUT` cannot be asked.  The prefix drawn for added gates is
assumed to be new (900 million values).

## 4. Findings

Each is a run that violates one property; the property quotes what the
repository says.

* `minimization_cycle` (`three_inputs_optimization_bench.hpp:679`): a parent
  of a color may be computed from one of the color's own gates; if the
  database entry uses that parent for an earlier output, rewriting closes a
  cycle in the "Directed Acyclic Graph" of `dag.hpp:104`.  The run uses
  line 1064 of `database_bench.txt`.
* `minimization_growth` (`three_inputs_optimization_bench.hpp:584`): all
  gates of a color count as removed although a parent may need them; a
  replacement that counts as smaller enlarges the circuit.  Line 138427.
  `GrowsByKeptOnly` bounds the growth.
* `pipeline_aborts` (`constant_gate_reducer.hpp:283`): the assertion that
  there is an input fails if no output depends on one, although the strategy
  is to "save at least one input" (`strategy.hpp:107`): the first cleaner of
  the same strategy has removed them.  `AbortsHaveCause` shows that
  this is the only case but for the one below (`get_operand`).
* `duplicates_left` (`duplicate_gates_cleaner.hpp:127`): operands are listed
  in the order of the old ids, so two gates over the same merged operands may
  both stay.
* `application_basis` (`constant_gate_reducer.hpp:302`): an output that is
  always true becomes `OR(x, NOT(x))` in either basis, so that a circuit of AND
  and NOT gates is written with an OR gate although the strategies are to run
  "in the provided basis" (`simplifier.cpp:40`).

Without a run: of a NOT gate over a constant that no output needs,
`ConstantGateReducer_` drops the operand and keeps the gate, because only
needed gates have been evaluated; `ReduceNotComposition_` reads the operand of
every NOT gate, needed or not, and `get_operand` throws `std::out_of_range`.  The
strategy `ConstantGateReducer` (`strategy.hpp:67`) has the two in this order
(`UnusedChain` in `MCPipeline` is such a circuit); the application's begins
with a cleaner, and no gate is out of use when it comes to them.
`ThrowsOnlyAtUnused` proves that nothing else makes it throw.  `icircuit.hpp:66` says the assignment returned by
`evaluateCircuit` has "no intersection" with the one given; the code repeats
the given states of the gates it meets (`:116`), which every caller expects
(`Evaluation!TakeGiven`).  Merging duplicate gates last can give a gate the same
operand twice again, although `strategy.hpp:75` says its strategy cleans "from
gates with the same operands".  `simplifier.cpp:79` says the result goes to the
standard output if no path is given; `program.get("--output")` at `:383` throws
then.

## 5. What is proved

Each theorem is about a specification `Spec` of a module and holds for every
value of its constants: circuits with any number of gates, files with any
number of lines.  `PROJECT.json` lists them; most name a property that a run
also checks, so that the run shows what the theorem says on an instance.

### Assumptions

* `DepthFirstSearch` (`CircuitsAssumption`): operands and outputs are gates of
  the circuit, and a ranking `Rank(c)` exists that grows from operands to users.
  The ranking is the evidence that there is no cycle, and all that the
  arguments need of acyclicity.  TLC evaluates the assumption with `ConeSizes`,
  and `RankedIsAcyclic` proves that if there is any ranking, this is one.
* `Evaluation` (`CircuitsAssumption`): the same, and assignments give states.
* `BenchParser` (`FilesAssumption`): files are lists of lines as `IsFile` says,
  each with a kind, a name, an operator and operands.  Nothing is assumed about
  which names are defined, or how often; the theorems about meaning speak of
  legal files in their statement, as the properties do.
* The transformers: every circuit given is `WellFormed` (ids in range, no
  cycle, inputs without operands, the arities that evaluation asserts where the
  outputs reach).  It is a hypothesis of the theorem, not of the module.  The
  parser makes such circuits of legal files (`LegalFilesAreRead`), and one
  transformer hands them to the next (`CircuitsHandedOver`).
* `Pipeline`, of the circuits of the tasks (`CircuitsFit`): they are `WellFormed`,
  and every gate is of a type that the reducers can work on, a MUX with three
  operands and an input with none (`Usable`; the parser makes no others).
* `Pipeline`, of names (`PrefixIsFree`): when `ConstantGateReducer_` starts there is a
  prefix that begins no name.  `getUniqueId_` (`transformer_base.hpp`) draws nine
  digits and takes for granted that it has found one; this hypothesis is where the
  theorems do, too.
* `Pipeline`, of the transformer that is not proved (`OthersReturnCorrect`): what
  `DuplicateOperandsCleaner_` returns is correct, which the run `pipeline` checks.
  Strategies without it need no such hypothesis (`ProvedStrategyIsTransformer`).

### Recursive definitions

Cones, states, folds over operands, the postorder, encoders made of a list and
files filtered by kind are recursive functions.  `RecursiveFunction`
(`CircuitLemmas`) gives such a function its equation: if the body at an argument
depends only on arguments of lower rank, a fixed point exists.  `NatSetInduction`
and `RankInduction` then prove facts about all arguments as facts about a set.
They take sets and functions where the library's theorems take operators, so
that they can be cited.

### The search (`DepthFirstSearchProofs`)

`TypeCorrect`, `SortingIsTopological`, `MaskOfCone`, `SortsEveryGate` and
`SortIsTopSort` state `TypeOK`, `SortIsTopological`, `MaskIsCone`,
`SortsAllGates` and `ReturnsTopSort`.  Three invariants carry them, each on top
of the one before:

* `SearchInv` (`SearchCorrect`): an entered gate has a place on the stack above
  which there are only gates of lower rank and where each operand has been
  entered, waits above it, or is about to be pushed (`EnteredOnStack`); operands
  about to be pushed rank below all entered gates (`PendingBelowEntered`).  So
  when an entered gate is found on top, an operand that is not visited would be
  entered, hence have its place below, hence rank above
  (`OperandsLeftFirst`): gates are recorded after all of their operands.  The
  property itself speaks of the end only and is not inductive.
* `ReachInv` (`SearchReaches`): what is on the stack, entered or visited is
  reached from a start; a start that has been taken is visited or on the stack;
  each gate is recorded once.  At the end the mask is the cone, and from the
  sources the sort has every gate.
* `ReturnInv` (`SearchFollowsPostorder`): the stack stands for a plan, a
  sequence of postorders in which each place continues what the places above
  it have left.  An entry that is found visited changes nothing (`VisitAgain`),
  which is why repeated entries are harmless; an entered gate adds just
  itself.  What the plan ends with never changes, and at the start it is
  `Postorder`.

### The evaluation (`EvaluationProofs`)

`EvaluationCorrect` is the invariant: a state once written is the one of the
recursive definition; a mark is set after those of the operands; each output
waits, is at work with a place on the stack, or is finished with its whole cone
known.  From it: `EvaluationIsDefinition` (`ComputesStates`), and
`DerivedStatesAreFinal` (`StatesAreFinal`), although marks are forgotten for
every output.  `DerivedIsImplied` (`ImpliedByInput`) is by rank: operators are
monotone, so a state derived from a partial assignment stays under every
completion.  `NothingImpliedIsMissed` (`ImpliedIsGiven`) is the converse for one
gate, whatever operand the fold stops at, and `FamiliesAreOne` (`FamiliesAgree`)
compares the two families of operators.

### The transformers

The results of the two cleaners are copies of a set of gates in the sense of `IsCopy`: a map to
the gates of the new circuit that keeps types and takes operands to operands,
in an order of their own unless the type is MUX (`GateInfo` sorts them, and
`OperatorPermuted` shows that no other operator minds).  `CopiedStates`: a copy
evaluates to the state of the gate.  `CopiedCone` and `CopySameFunction`: an
output reaches the copies of what it reached, and the circuits compute the same
function.

`RedundantGatesCleanerProofs`: the gates kept are closed under operands.  The
invariant `Inv` says that the encoder numbers exactly the kept gates below the
counter, and that a place of `gate_info` holds the kept gate rebuilt.  So no two
gates have one copy, `encodeGate` never gives an id after the first loop
(`IdsOnlyLookedUp`), nothing redundant is left (`NothingRedundantAtEnd`), and
the result is correct (`CorrectAtEnd`).

`DuplicateGatesCleanerProofs`: here gates share a copy, and the point is that
merging closes no cycle.  `Inv` says that every gate passed has the id of its
auxiliary name, that the gate an id was first given to is the one that stays,
and that its operands have smaller ids; that last part is what the sort, taken
from the end, is for, and it makes the ids a ranking of the result.  Gates of
one name have one type and the same new operands (`SameName`; an input is named
by its id and never merged), so that all of them are copied by the one that is
built.  `EncodersStayInStep` is for the two encoders that are filled in
parallel, `CorrectAtEnd` for the result.

`ReduceNotCompositionProofs`: the gates stay, but their operands change, so the
result is no copy.  `Solves` says of a map from gates to states that each
state is what the gate computes of those of its operands.  Where there is no
cycle such equations have one solution, `StatesFor` (`SolutionIsStates`), and a
circuit whose equations are solved by the states of another one computes the
same function (`SolvedIsCorrect`).  `Inv` says that the operand collected for a
gate stands for the one it replaces: it has the same state for all values of
the inputs, is needed if that one is, and has no higher rank.  The gate where a
walk along a chain of negations has arrived has this state or the opposite one,
as the flag says; the flag is what the walk is about, and the code keeps it
nowhere else.  Hence no chain is left (`ChainsReduced`), the ranks of the source
still rank the result, the states of the source solve its equations, and the
result is correct (`CorrectAtEnd`).  `ThrowsOnlyAtUnused` is about the one way to
fail.

`IsTransformer`, in all three: `Spec => T!Safety`, where `T` is `Transformer` with
the result visible once `pc` is "done".  `Return` is the step of the abstract
specification, all others are stutters.  The liveness in `Transformer!Spec` is
left to TLC.

### Gates that are linked and added (`CircuitLemmas`)

`ConstantGateReducer_` links gates to others of the same state and adds new ones.
Neither ids nor the set of gates stay, so the lemmas speak of a circuit that is
rebuilt while it is used.  `IsReduction` holds of links and gates: a link leads to
a gate that is linked to itself and ranks no higher, and every gate built, added
ones included, ranks above its operands; hence there is never a cycle.  `Computes`
holds of the states: for all values of the inputs, the equations of the gates
built so far have a solution in which the gate that a needed gate is linked to
has the state of that gate.  `LinksKnown` says that what evaluation without
inputs knows of a gate it knows of the one that it is linked to.  The lemmas
`VisitLinked`, `VisitKept`, `VisitMux`, `VisitConstant`, `VisitToNegation` and
`GadgetAdded` take these three through one step each.  What makes them true is a
statement about every fold operator and any number of operands: dropping operands
that are known, and turning XOR into NXOR for an odd number of true ones, leaves
the state (`MetOfBits`, `ParityOfBits`, `FoldValueIs`).  `ReductionIsCorrect` draws the
conclusion at the end, where the solution is the evaluation because there is no
cycle.

### Strategies (`PipelineProofs`)

A strategy is any sequence of transformers.  `InvAlways`: the circuit of each
stage is well formed, named and computes what the circuit given does, and the
running transformer is in the invariant of its own module, of which `Pipeline`
has an instance over its variables; so each step is one that the module's own
proof is about, and `HandOver` turns the correctness of a result into the
precondition of the next (`SameFunctionTransitive` chains the functions).  The
invariant of `ConstantGateReducer_` is `CGRInv`: the gates in `todo` wait, each
after its operands (`IsQueue`), the others are a reduction that computes their
states (`Reduces`), the encoder goes on where the names of the circuit end
(`NamesExtended`: that is what the prefix is for), and outputs found so far have
the states of the outputs they replace (`OutputsFound`).

From it: `CircuitsHandedOver` (`HandsOverCircuits`), `StrategyIsTransformer`
(`ImplementsTransformer`: the strategy as a whole returns once, with a correct
result), `NothingRedundantLeft` (`NothingRedundant`) and `IdsOnlyLookedUp`
(`EncoderIsComplete`).  These take `OthersReturnCorrect` as a hypothesis.
`ProvedStrategyIsTransformer` has none: strategies of the two cleaners,
`ReduceNotComposition_` and `ConstantGateReducer_`, such as all of `strategy.hpp`
that do without `DuplicateOperandsCleaner_` and any `Nest` of them, hand over
circuits and implement `Transformer`.

### Parser and writer (`BenchParserProofs`)

`InvAlways`: after any number of lines the encoder has exactly the names met,
and a gate is what the last definition of its name among these lines says, over
the ids that the encoder gives now (ids only grow, so what was built earlier
stays right).  `MissingGates` (`MissingStaysMissing`) follows, for any file.
For legal files the gates read are a copy of what the file means, in another
order of ids, hence `LegalFilesAreRead` (`ReadsMeaning`): accepted, well formed,
the same function.  `RoundTripKeepsMeaning` (`RoundTrip`) shows of
`writeBenchFile` that what it writes is legal and means the circuit, for
circuits without constants.

### Only model-checked

* Liveness (`Termination` everywhere, the liveness of `Transformer!Spec`), and
  whatever depends on ENABLED: out of the prover's reach.
* Of `Pipeline`: that `DuplicateOperandsCleaner_` is correct, what the reducers
  promise of their own data (`IdsStayAligned`, `LinksAreFinal`, `OperandsReduced`), what the strategies
  achieve (`NothingLeftToRemove`, `FitsColoring`, `NeverGrows`) and when they abort
  (`AbortsHaveCause`).
* `DuplicateOperandsCleaner`, `SubcircuitMinimization`, the colorings and
  `Application`.  Those that sort or fold sequences with operators of the community modules (`SetToSortSeq`, `SelectInSeq`, `FoldLeft`)
  would need these restated as functions, because the provers cannot take an
  operator as an argument.
* What is computed by `CircuitDB` and `SmallDatabases`.

## 6. Not modelled, and the plan

Not modelled: text within a line (delimiters, spaces, names that begin like a
keyword), options, opening of files and databases, logging, statistics that are
only printed, `printCircuit`, the search along users (no caller), copy and move
constructors, data files and scripts.  `PROJECT.json` lists each with its
reason.

The order of work follows what depends on what:

1. Done: values (`Operators`, `Circuits`, `GateEncoder`), search and
   evaluation, `Transformer`, the five transformers and `Pipeline`, colorings,
   minimization; proofs about the search.
2. Done: `Application` over `BenchParser`, `Pipeline` and
   `SubcircuitMinimization`, with the statistics over iterations and files and
   names made up several times; parser and writer; how a line of a database is
   read.
3. Done: proofs about the search, the evaluation, the parser and writer,
   `RedundantGatesCleaner`, `DuplicateGatesCleaner`, `ReduceNotComposition`,
   `ConstantGateReducer`, and `Pipeline` as far as it is made of them.
4. Next: the result of `DuplicateOperandsCleaner`, with the lemmas on linked and
   added gates, so that `OthersReturnCorrect` can go; then `LinksAreFinal` and
   `IdsStayAligned`; the number of iterations in `Application`.
