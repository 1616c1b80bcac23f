# Verification of numba_dpcomp (Intel Extension for MLIR)

TLA+ models of the parts of this compiler and of its runtime whose correctness
depends on an order of events (concurrent threads, passes that run until nothing
changes, graphs that are updated while they are walked) or on getting many cases
of one rule right (structured control flow, fixed-width arithmetic, broadcasting).
TLC checks the models on small instances; TLAPS proves, for every instance, the
results about parallel reductions and iteration spaces, the registry and schedule of
pipelines, calls between jitted functions, and the integer operators.

## 1. The system

`numba_dpcomp` replaces numba's code generator. A decorated Python function goes
through these parts (paths are relative to `src/`):

| part | state it keeps | operations | talks to |
|---|---|---|---|
| Python front end: `numba_dpcomp/mlir/{compiler,passes,lowering,inner_compiler}.py`, `func_registry.py` | the stack of active functions, the active module, numba's flags | compile a function, resolve a callee by name, compile it into the same module | numba, the C++ module |
| translation to the *plier* dialect: `mlir_compiler/src/lowering.cpp` | the module under construction | `lower_function`, `compile_module` | pipelines |
| pipeline registry: `dpcomp/src/compiler/pipeline_registry.cpp` | registrations with dependencies and jumps | `register_pipeline`, `populate_pass_manager` | every `register*Pipeline` function, the schedule |
| pass schedule: `dpcomp/src/compiler/compiler.cpp`, `transforms/pipeline_utils.cpp` | current stage, jump markers on the module | run a stage, jump back, fail | passes, which set markers |
| `plier_to_std` (`pipelines/plier_to_std.cpp`) | the function being rewritten | blocks to structured control flow, operators and casts, ranges | rewrites of `dpcomp/src/rewrites` |
| `plier_to_linalg` (`pipelines/plier_to_linalg.cpp`, `py_linalg_resolver.cpp`, `numpy/funcs.py`) | the function being rewritten | resolve calls (`prange`, NumPy, jitted functions), bufferize, optimize | function resolver, linalg resolver, memory optimizations |
| memory optimizations: `analysis/memory_ssa*.cpp`, `rewrites/memory_rewrites.cpp` | the memory SSA graph of one function | build, optimize uses, fold loads, drop stores, merge loads | alias analysis, `applyOptimizations` |
| loop transformations: `transforms/loop_utils.cpp`, `rewrites/{loop_rewrites,promote_to_parallel,canonicalize_reductions}.cpp` | - | `while` to `for`, promotion to parallel loops, fusion | - |
| `parallel_to_tbb`, `lower_to_llvm` | - | a parallel loop becomes an outlined function, a reduce variable and a call of the runtime | runtime |
| runtime: `dpcomp_runtime/src/tbb_parallel.cpp` | the TBB arena; while a loop runs, its chunks | `dpcomp_parallel_init`, `_for`, `_finalize` | TBB worker threads, generated code |

What is hard in it, and what makes each part correct:

* **Parallel loops.** The generated code and the runtime meet in one array with an
  entry per thread slot, loaded and stored around every chunk. Threads take
  chunks in any order, a waiting thread takes other chunks, and the array is
  reused. Correct: every iteration's operand reaches the result exactly once.
* **Iteration spaces.** Counts are computed in `size_t` from signed bounds, cut
  by TBB, and turned back into bounds, over several levels. Correct: the calls of
  the outlined function partition the loop nest.
* **The registry.** Dependencies are declared on either side, names are strings,
  and stages are cut at jumps. Correct: the order satisfies all of them or the
  registration is impossible, and each jump has its stage.
* **The schedule.** Passes ask for earlier stages through attributes of the
  module. Correct: no request is lost and the repetition ends.
* **Calls of jitted functions.** Compilations nest on the Python stack and share
  three globals: the names of the active functions, the active module, and the
  function compiled last. Correct: each call becomes a call of the function that
  Python would call, and an exception leaves the globals as they were.
* **Memory optimizations.** Four functions rewrite the code and the graph they
  read it from. Correct: the function computes what it computed before, and the
  graph is the graph of the function at every step.

* **Control flow.** numba's graph of blocks is translated block by block, values
  travel as block arguments, and patterns copy and merge blocks until one is left.
  Correct: the structured function makes the same calls with the same values, and
  a function without jumps out of its loops ends as one block.
* **Loops.** Ranges become counted loops, reductions become carried values, loops
  become parallel, move and merge, in the middle of other rewrites. Correct: the
  function computes what it did, in whatever order the iterations are taken, and
  the loops that can be parallel or merged are.
* **Scalars.** Python's integers and floats become fixed-width operations on coerced
  operands. Correct: Python's value, wherever it is in the range of numba's type.
* **Arrays.** NumPy's functions are built from linalg operations, on tensors that
  become buffers. Correct: NumPy's shapes and elements, and an assignment is seen
  through the names that share the array.

Section 7 lists what is not modelled.

## 2. Modules

| module | models | state and actions against the code |
|---|---|---|
| `LoopOnce` | what a parallel loop promises | abstract: iterations performed, value published after all of them |
| `ParallelFor` | the code `ParallelToTbb` generates, run by TBB | `InitEntry`, `CombineEntry`: one iteration of the two sequential loops; `TakeChunk`/`StoreChunk`: the load and store of the slot's entry in the outlined function; `Iterate`: one iteration of the cloned loop; `EnterNested`/`LeaveNested`: a body that waits in its own `dpcomp_parallel_for`; `SplitChunk`: TBB |
| `ParallelForProofs` | theorems about `ParallelFor` | |
| `NestedLoops` | `dpcomp_parallel_for` for any number of loops | `tasks` are the ranges TBB holds; `Whole`, `Dims`: `run_parallel_for` and `loopBody` with `size_t` arithmetic modulo `Word`; `RunFunc` walks the chain of `Dim` records; `RunNested` is the second level; `Split`, `SkipEmpty`: TBB |
| `NestedLoopsProofs` | theorems about `NestedLoops` | |
| `PipelineRegistry` | `populate_pass_manager` | `Register` is one `sink` call; `LinkDeps`; `VisitRoot`, `VisitPrev`, `Leave` are the steps of `topo_visit` with its recursion as an explicit stack; `Cut` makes the stages (`JumpTargets`, `AddPipeline`, `Flushed`), or stops where an assertion does (`Abort`) |
| `PipelineRegistryProofs` | theorems about the sort and about the stages | |
| `RegisteredPipelines` | the compiler's registrations | one definition per `register*Pipeline` function, and `CompilerStages`, the stages they lead to |
| `PassSchedule` | `PassManagerSchedule::run` | `RunStd`, `RunGen`, `RunOther` run one pipeline of the stage (`RunStd` is `PlierToScfPass`, which handles branches, and then `PlierToStdPass`, which handles the rest and resolves calls), `RunGen` also asks for `plier_to_std` without lowering anything; `NextStage` and `Jump` are the end of the loop's body, `PassFails` a failing pass |
| `CompilerContext` | the constructor and `run` of `CompilerContextImpl`: `PipelineRegistry` and `PassSchedule` composed | `Populate` is a step of the registry; `StartRun` gives a module to the finished stages, `RunModule` is a step of the schedule over them |
| `CompilerContextProofs` | theorems about the composition, on those about the registry | |
| `FuncResolution` | nested compilations of `MlirBackend` and `MlirBackendInner`, and the resolution of calls | `frames` is the Python stack; `Request` and `TypeCallee` start a compilation with a module of its own; `Backend`, `BackendInner` are the two `run_pass_impl` up to the lowering; `CallFound`, `CallCompiled`, `ReturnInner` are a `CallLowerer` with `get_func` and `compile_func`; `Finish` and `Raise` run the `finally` blocks |
| `FuncResolutionProofs` | theorems about `FuncResolution` | |
| `MemorySSA` | `memory_ssa.cpp`, as operators on a graph record | `SetArgument`, `CreateNode`, `EraseNode` with the use lists in order and both dominator fields; `Process` handles one operation of `memSSAProcessRegion`; `GetDef` with `checkPhisAlias` |
| `MemoryOpt` | `optimizeMemoryOps` under `applyOptimizations` | a body is written, analysed and rewritten node by node (`OptimizeUse`, `FoldLoad`, `EraseDeadStore`, `LoadCSE`, `PassEnds`), then the original and the rewritten body run in lockstep |
| `MemoryOptProofs` | theorems about `MemorySSA` and `MemoryOpt` | |
| `MemoryGraphProofs` | that no node is erased which another still hangs on, on top of these | |
| `Ir` | execution of the operations that the passes work on: blocks, `scf`, `memref`, calls | external: MLIR's semantics. A value is a sequence (a name and the suffixes its copies got); `RunOps` has a direction, in which parallel loops take their iterations |
| `PySource` | Python functions of assignments, calls, `if`, `while` with jumps; their meaning, and the blocks numba makes of them | external |
| `PlierLowerer` | `plier_lowerer`: the function of plier operations | `LowerBlock` is `lower_block` for any block that is next, `FixupPhis` adds block arguments and the operands of every jump |
| `CfgToScf` | `PlierToScfPass` | `OneExit`, `TwoExits`, `WhileRewrite`, `BreakRewrite` with the conditions (`...At`) under which they match; MLIR's own branch patterns (`Merge`, `PassThrough`, `Identical`); the driver applies one at any block; `LooksAtErased` and `EnteredByCond` are where the compiler stops in the middle of one (phase "aborted") |
| `Rewriting` | what the loop passes share: walking, replacing, canonicalization | external |
| `RangeLoops` | `lowerRange`, `lowerWhileToFor` | `LowerWhileToFor` makes both loops of a range with unknown sign, `LastIterValue`; `ResultsLeft` is what its last assertion refuses |
| `CommonOpts` | `CmpLoopBoundsSimplify`, `IfOpConstCond`, CSE, subview propagation, `ForceInline` | one operator per pattern, with its condition |
| `ParallelLoops` | `CanonicalizeReduction`, `PromoteToParallel`, `MergeNestedForIntoParallel` | as above; `WithoutResult` is what the assertions of `PromoteToParallel` refuse |
| `LoopFusion` | `prepareForFusion`, `naivelyFuseParallelOps` | as functions of a block |
| `LoopPipeline` | the passes these belong to | `pass`: `PlierToStdPass`, `ForceInlinePass`, `PostPlierToLinalgPass`, `PostLinalgOptPass` with `additionalOpt`; within a pass any pattern anywhere, MLIR's canonicalization before, between and after them; `Iterate` counts what the greedy driver does when a pattern matches without changing anything |
| `ScalarOps` | `coerce`, the casts, `BinOpLowering`, `UnaryOpLowering`; numba's result types | operators on `[type, bits]` |
| `ScalarLowering` | a function on two scalars | each statement computes the lowered and Python's value |
| `ScalarLoweringProofs` | theorems about `ScalarLowering` on integers, and about fixed-width arithmetic | |
| `LinalgBuilder` | `broadcast_impl` and the builder; `numpy/funcs.py` | operators on `[type, shape, elements]` |
| `ArrayProgram` | a function on two arrays: calls, indexing, assignments; NumPy's views | `x`, `y`, `heap`: the lowered function on buffers; `px`, `py`, `base`: NumPy's arrays and views |
| `MC*` | instances for TLC | |

`CompilerContext` runs the schedule over the stages that the registry has made
from the registrations; `CompilerStages` in `RegisteredPipelines` says what they
should be. In `FuncResolution` an unresolved call is what `PassSchedule` calls an
operation in state "call": the two models look at the same event, one at which
function is brought into the module, the other at which pipelines it still meets.
`ParallelFor` and `NestedLoops` are two views of the same call: the first keeps
what happens between the load and the store of a slot's entry and one range of
counts, the second keeps the arithmetic of several loops and no values.

`CfgToScf` extends `PlierLowerer` extends `PySource`: a program is generated,
translated, and rewritten, and all three are run on the same inputs. `LoopPipeline`
takes over where `CfgToScf` ends (a single block with `scf.while`), from programs of
its own. `ArrayProgram` uses `ScalarOps` for the elements, as the linalg bodies are
compiled by the same patterns.

Abstractions worth knowing:

* In `ParallelFor` a value is the number of times each iteration's operand was
  applied to it. The neutral element is the zero vector for `+` and `*` alike;
  a subtraction applies -1. Rounding of floating-point sums is left out.
* The entries of the reduce variable start with what an earlier execution left
  in them (`StaleValues`).
* In `PassSchedule` an operation is what it is to the two pipelines that can
  repeat: unstructured control flow (`branch`), something for `PlierToStdPass`
  (`std`), a call, something for `plier_to_linalg_gen` (`array`), a tuple whose elements
  have got another type (`tuple`), an access that `plier_to_linalg_gen` gives up after it has
  asked for `plier_to_std` (`view`), or lowered. What
  a call brings in is `absent` before. `Kinds` says what a module may hold and
  `StdCallees` what the functions that
  `PlierToStdPass` brings in may hold: in `compiler_context` all but views, and all but
  views and branches; the instances of section 3 have these too.
* A marker may be set without progress: `CheckForBuildTuple` asks for `plier_to_std` each
  time `plier_to_linalg_gen` meets such a tuple. `RunEnds` rests on `plier_to_std` removing
  what was asked for (`StdKinds`: `PropagateBuildTupleTypes` for tuples); its mutant leaves
  tuples as they are, and the stage repeats for ever.
* In `FuncResolution` a function stands for the function with the argument types
  of its calls, so a name also stands for the mangled name. Functions do not call
  themselves, directly or through others: whether numba's type inference can
  compile such a program at all is not decided in this repository. Typing may
  compile any dispatcher the function calls (it was not compiled for these types
  before); an exception may come from anywhere and is caught by the user or by a
  type inference that was compiling a dispatcher.
* In `MemoryOpt` stored values are opaque and fresh at every store, an array is
  the set of its (array, index) locations, and which references are the same
  array is chosen when the execution starts, among the choices the alias
  analysis leaves open. Conditions are nondeterministic; both versions take the
  same branches.
* `OptimizeUse` stands for `optimizeUses` called by the constructor of the analysis
  and by `optimizeMemoryOps`. In these instances only the first finds something to
  do: what the other three functions erase never lets a use move further. For the graph
  as it was built, which is what `RepeatsAfterErasure` relies on, section 5 has a proof.
* In `CfgToScf` a condition is a predicate of a variable that is chosen before the
  run (`Oracles`), so all paths are taken; `emit` is a call that can be observed,
  `inc` one that cannot. Traces are cut at `MaxTrace` on both sides.
* In `LoopPipeline` values are unbounded integers; a memory cell is an array and a
  number. `Whole` is an array as an argument, `Cell` a view of it. The two arguments may be
  one array. Then a `prange` may depend on the order of its iterations, so each execution of
  such an input is compared with the one in Python's order; for two arrays also with the
  reverse order.
* An assertion that fails, `llvm_unreachable`, or a use of something that is not there ends a
  model of a compiler pass in the phase "aborted" (`PipelineRegistry`, `CfgToScf`,
  `LoopPipeline`). Where the code without assertions goes on with undefined behaviour, as
  `IfOpConstCond` does with the first block of an empty region, both outcomes are there.
* In `ScalarOps` floats are integers with a bounded mantissa and no exponent range;
  a quotient that is not an integer is only looked at under `//` and `%`. The `sign_cast`
  that `BinOpLowering` puts behind the result of a float operation of another type has no
  lowering, and its value is none of the floats (`Unlowered`).
* In `ArrayProgram` every statement's value is computed where it stands, on buffers
  of its own; upstream bufferization and fusion keep that, or are taken to.
* Some code that is not in the repository is modelled from its use: TBB (any chunk longer
  than the grain may be cut, any thread may take any chunk), MLIR's dominance
  information, `replaceAllUsesWith` and the meaning of loads, stores and
  structured control flow.

## 3. Runs

| run | instance | what it shows |
|---|---|---|
| `parallel_for` | 2 threads, 3 entries, 5 iterations, grain 1 | `EachIterationHeldOnce`, `ResultCorrect`, `ImplementsLoopOnce`, `Termination` |
| `nested_loops` | 1 to 3 loops (and 4, for termination), bounds -5..7, steps 1..3, word 32; loops that begin or end where the signed range does | `ExactlyOnce` (on the way and on return), `NothingOutside`, `Termination` |
| `compiler_context` | all dependencies among 3 pipelines; 4 pipelines with all jumps; the 10 registered pipelines in 720 orders, then 3 operations of 5 kinds through their stages | `OrderRespectsDeps`, `ErrorsJustified`, `StagesServeJumps`, `CompilerSchedule`, `NothingLeftForStd`, `MarkersServed`, `Termination`, `RunEnds` |
| `memory_opt` | all bodies of up to 4 operations on 3 arrays and 2 indices, of up to 7 on one location, and of up to 4 with an index loaded from another array | `SameResults`, `SameMemory`, `GraphConsistent`, `RepeatsAfterErasure` |
| `func_resolution` | 4 functions, all acyclic call graphs with up to 2 calls in a function, 3 compilations with a module | `CallsTheCallee`, `ContextMatches`, `OneCopy`, `NamesAvailable`, `InlineHonoured` |
| `cfg_to_scf` | about 130 functions: loops with a conditional statement, nested loops, nested conditional statements, every jump at every place | `BranchesFit`, `SameMeaning`, `Structured`, `RewritingEnds` |
| `loops` | 139 functions: six kinds of range, every comparison with a bound, reductions in cells and carried values, nests, rows of loops; on two arrays and on one under two names | `LegalFunction`, `SameMeaning`, `LoopsParallel`, `NeighboursFused` |
| `scalars` | widths 4 and 2, mantissas 3 and 2, all values, sequences of any length | `SameValue` |
| `arrays` | 30 pairs of arguments of ranks 0 to 2 and 3 element types, 3 statements of 18 kinds | `SameElements` |

A type invariant (for functions: `BranchesFit`, `LegalFunction`) is checked in all but
`scalars`, whose only property reads a value by its type. The runs ask one question
per part of the system: a part's safety and liveness are checked over the same
instance. Every property of these runs is violated when the definition PROJECT.json
names for it is replaced by its mutant (in the modules, "Mutant of ...").

Runs that end in a counterexample record disagreements between the code and what
its documentation, tests or assertions say:

| run | what happens |
|---|---|
| `parallel_for_nested_lost` | `tbb::parallel_for` is not isolated: a thread that waits for a nested loop takes another chunk of the outer loop, stores its result in the slot's entry, and then overwrites it when the suspended chunk ends |
| `cfg_to_scf_break` | `BreakRewrite` drops the operands of the edge that leaves the loop: `a = a * 2; if a == 3: break` leaves `a` as it was at the loop's header |
| `array_mixed_types` | `broadcast_impl` drops the sign of the operands before it casts them to the common type: `[-1, 3]` (int) plus `[1, 2]` (float) has a large first element |

### Disagreements without a run

The same models show these; the instance to check is named where it takes no more
than other constants in the configuration of the run.

| where | what happens | instance |
|---|---|---|
| `parallel_to_tbb.cpp:48` | a loop reduced with `-` keeps minus the operands in each entry and then subtracts the entries | `MCParallelFor`, `ReduceOp = "sub"`, `ResultCorrect` |
| `tbb_parallel.cpp:175` | with more than three loops, `loopBody` passes `prev_dim` instead of `prev`; `runFunc` follows a null pointer | `MCNestedLoops`, `Inputs <- FourLoops`, `ChainLongEnough` |
| `tbb_parallel.cpp:116` | for `prange(5, 3)` the count is computed in `size_t` and wraps to almost 2^64 | `MCNestedLoops`, `Inputs <- Reversed`, `NothingOutside` |
| `plier_to_std.cpp:1884` | a called function that `PlierToStdPass` brings into the module has missed `PlierToScfPass`, and no marker asks for another round: its branches stay | `MCCompilerContext`, `Registrations <- CompilerInOrder`, `"branch"` in `StdCallees`, `NothingLeftForStd` |
| `plier_to_linalg.cpp:493` | a `getitem` of a buffer with a slice and an integer is given up after `index_cast` (344) asked for `plier_to_std`, which lowers the cast and not the `getitem`: the stage repeats for ever. Arguments become buffers in `plier_to_linalg_opt` only, behind that stage, so no function of today's pipelines gets there | `MCCompilerContext`, `Registrations <- CompilerInOrder`, `"view"` in `Kinds`, `RunEnds` |
| `memory_ssa.cpp:422` | a call has no node in the graph, so loads on both sides of it are merged | `MCMemoryOpt`, `Families <- WithCall`, `SameResults` |
| `func_registry.py:39` | two closures of one function have one qualified name: the second replaces the first, and both calls call the second | `MCFuncResolution`, `Programs <- SharedNames`, `CallsTheCallee` |
| `plier_to_std.cpp:1364` | the values that leave a `while` are replaced by its results also where they are used inside an enclosing loop's other blocks: an inner loop that leaves alone a variable the outer one goes on with | `MCCfgToScf`, `Family = "nested"`, `SameMeaning` |
| `loop_utils.cpp:395` | a call between two parallel loops does not keep them from being merged, though it may write what the second reads (the comment at 431-433 asks for operations without effects) | `MCLoopPipeline`, `Family = "call"`, `SameMeaning` |
| `if_rewrites.cpp:60` | for `if x != 3` without an else block `IfOpConstCond` takes the first block of an empty region | `MCLoopPipeline`, `Family = "noelse"`, `LegalFunction` |
| `if_rewrites.cpp:65` | `IfOpConstCond` returns success without a change, so a function with such a comparison is rewritten until the greedy driver gives up, each time `applyOptimizations` runs; the result is right and `MaxIterations` bounds it | in the run |
| `loop_utils.cpp:241` | `haveNoReadsAfterWriteExceptSameIndex` knows the arrays by their values: `a[i] = i` and then a sum over `b[i + 1]` are merged also if `b` is `a` | `MCLoopPipeline`, `Family = "alias"`, `SameMeaning` |
| `promote_to_parallel.cpp:82` | a count that is set back to 0 under a condition: the walk from the addition reaches the `yield` of the `scf.if` and asks for its result | `MCLoopPipeline`, `Family = "reset"`, `LegalFunction` |
| `plier_to_std.cpp:739` | `replace_fmod_op` ignores the type of the result, so a float32 `%` an integer is computed as float32 and gets a `sign_cast` to float64 (846) that no pass lowers | `MCScalarLowering`, `Ops <- MCModulo`, `Faithful <- MCSmallFloat` |
| `plier_to_std.cpp:736` | in `a % b` the sum `(a rem b) + b` overflows a narrow type | `MCScalarLowering`, `Ops <- MCModulo`, `Faithful <- MCNarrow` |
| `promote_to_parallel.cpp:124` | `x = a - x` becomes `acc - a` | - |
| `promote_to_parallel.cpp:186` | a serial loop around a parallel one becomes parallel with it | - |
| `canonicalize_reductions.cpp:56` | an access to the reduced element in a nested region is not seen | - |
| `loop_utils.cpp:46` | the value of the loop variable behind the loop is one step too far when the step divides the length | - |
| `plier_to_std.cpp:511` | signed and unsigned operands are coerced to the wider type whatever its sign | - |
| `cast_utils.cpp:31` | an unsigned number with its highest bit set, or a bool, becomes a negative index | - |
| `plier_to_linalg.cpp:501`, `numpy/funcs.py:178` | slices and `.T` are copies, so an assignment to one does not reach the array; `flatten` of a local array is no copy (`numpy/funcs.py:206`) | `MCArrayProgram` without `SharedAlike` |
| `plier_to_linalg.cpp:404` | a slice with a stride has end minus begin elements | - |
| `numpy/funcs.py:252`, `linalg_builder.py:126` | `concatenate` and `convert_array` take the type of the first array ("TODO") | `MCArrayProgram`, `Supported <- MCAnything` |
| `pipeline_registry.cpp:218` | a jump to the very first pipeline fails the assertion at the end of `flush_stages`, which runs with nothing to flush and a name (202); nobody asks for such a jump today. The model stops there (`AssertedFor`); a build without assertions would go on with stages that serve it | in the run |
| `memory_ssa.cpp:197` | after one dead store was erased, `eraseNode` leaves the previous node's `postDominator` on it, so that erasing that store too makes the assertion read a destroyed node | - |

The passing runs leave these cases out: in the programs of the instance, by
`Faithful` and `Supported`, or by a guard (`SharedAlike`), each with a comment.

### Bounds

`Count`, `NumThreads`, `MaxConcurrency`: two slots and one spare entry are what it
takes for a stale entry, a slot that runs several chunks, and an entry no thread
uses; five iterations give chunks that are cut twice. The theorems of section 5
cover the rest. `MaxDepth = 2` (`parallel_for_nested_lost`) lets a waiting thread
take one other chunk of the loop.

`Word = 32` keeps every product of the small bounds below the word, as real
bounds are with respect to 2^64, except for reversed bounds, which wrap in both.
`NumThreads = 1` and `MaxGrain = 2` make the grain 1 or 2, so that small loops are
both cut and left whole. Four loops are the smallest nest with two levels. The
instance's loops satisfy `BoundsFit`: they do not end before they begin, and the upper
bound plus a step is still in the signed range, since the outlined function gets the end of
a chunk as `lower + count * step`, which may lie up to a step behind the upper bound.

Three pipelines with all pairs of dependencies contain every cycle, diamond and
self-dependency; jumps need a fourth to have stages before and after. Three
operations suffice for one that stays, one that is resolved and one it brings in.

In the registrations of four pipelines each takes its jumps from `JumpSets`: none, one to any
of three pipelines, the first included, which fails an assertion, or two. Of the kinds of operations, `view` is left out: without a buffer there is none (section 3).

A family of bodies bounds the operations of a body (`len`, structure included) and
the arrays they use; `MaxBack` bounds the back edges one execution takes: two are
needed to come back to a location through a loop-carried path. Four operations over three
references contain all the pairs of accesses with one thing between them; seven operations on one location
are needed for two nested structures around two accesses. A header of a `while`
only contains loads, because the condition of a Python loop that reaches this
pass is computed by operations that do not store.

`MaxCompiles = 3` nests a dispatcher's compilation inside an inner compilation,
and another one inside it. Four functions allow a call chain of three and two
paths to one function. The names of the functions that one function reaches
differ (`NamesApart`) in `func_resolution`; a function outside them may share a
name. The inline option is left out or "always" there (`NoNever`), because a later
"never" undoes an earlier "always" in the code (`DEFAULT_FLAGS` is one object).

The functions of `cfg_to_scf` have at most one loop in another and two predicates; the
patterns look at a block, its successors and their successors, so these contain each
pair of patterns next to each other. `MaxArg = 3` lets a loop run up to three times,
`MaxTrace = 6` observes as many calls. `MaxRewrites` is more than any program needs.

`loops` runs each function with a bound of 0, 1 and 3, a step of -2 and 1, and arrays
that differ or are one array; it takes parallel iterations forwards and backwards. Three loops in a
row are the shortest row in which a merge enables another. `MaxIterations` is the default of
MLIR's greedy driver.

`scalars` has a wide and a narrow integer (`W = 4`, `N = 2`) and float (`P64 = 3`,
`P32 = 2`): two widths distinguish extension from truncation, and all values of each
are tried. `Scalars` are the types of the variables, and `Faithful` the uses of an operator
that are looked at: `Meant` in the run, which says operator by operator what the lowering
is meant for. In `arrays` the shapes are those that broadcasting distinguishes (missing
dimension, one, more, none), three statements reach an assignment to an array that was
aliased, reshaped or computed; `MaxFloat` keeps floats exact.

### Fairness

`ParallelFor!FairSpec` asks for weak fairness of the calling thread and of every
slot: the generated code never blocks, and TBB does not leave a chunk to a thread
that never takes it. `NestedLoops` is fair in `Next` as a whole (the runtime keeps
going), `CompilerContext` in `Populate` and in the steps of the schedule: each is
a single loop of one thread. `PassFails` is not fair, and nobody has to run a
module. `MemoryOpt` states no liveness
of its own; that `applyOptimizations` repeats only after an operation is gone
(`RepeatsAfterErasure`) is an action property, and bodies are finite.

Of the rewriting passes no liveness is stated as a temporal property: `RewritingEnds`
and `LegalFunction` bound the number of rewrites by more than any program needs, and
deadlock is checked, so every behaviour goes on to the end in finitely many steps.

Deadlock is checked in every run but `arrays`: finished systems stutter through an
explicit action (`Returned`, `Finished`, `Ended`, `Idle`, `Stop`). A function of
`ArrayProgram` ends after `MaxSteps` statements.

## 4. Reading a counterexample

`tlc -config MCArrayMixedTypes.cfg MCArrayProgram` and the like print the states; in
`MemoryOpt`, `source` is the body, `there` the operations that are left and
`graph.pdom` the `postDominator` fields.

## 5. Theorems

### The parallel loop

In `ParallelForProofs`, for every value of the constants that satisfies
`ThreadsAssumption` and `LoopAssumption`:

* `TypeCorrect`: `Spec => []TypeOK`, for loops with and without waits inside.
* `HeldOnce`: `Spec => []EachIterationHeldOnce`,
* `ReductionExact`: `Spec => []ResultCorrect`,
* `Refinement`: `Spec => ImplementsLoopOnce`, these three for `Flat` loops: an
  additive operation, and a thread that waits for a nested loop in the body takes
  no chunk of this loop meanwhile (`MaxDepth = 1`). So they also hold for bodies
  with nested loops under a runtime that isolates the wait. The run
  `parallel_for_nested_lost` and the instance with a subtraction (section 3) show
  that neither condition can be dropped.

The assumptions: at least one slot, no more slots than entries (both come from
numba's thread count), natural numbers of iterations and a positive grain.

`EachIterationHeldOnce` is not inductive, and it only speaks of the parallel
phase. `LoopInv` strengthens it with `EntriesCleared` (the entries below `idx` are
neutral while the init loop runs), `Idle` (nothing is open outside the parallel
phase), `FramesFlat` (a slot has at most one chunk), `Disjoint` (no iteration is in
two chunks, so one pending in a chunk is in no other) and `Folding`, which takes
over after the join: in the combine loop and at the end, every iteration has an
entry `h` with `Holds(h, i)`: `h` is the only entry that holds the iteration, and
the result has it exactly when the combine loop has passed `h`. Each action has a
lemma that it preserves `LoopInv` (`InitEntryKeeps` to `ReturnKeeps`);
`LoopInvNext` puts them together. `DoneIsFull`
derives the result, and `RefineNext` maps an iteration to `Execute`, the return
to `Publish` and every other step to a stutter.

### The registry and its stages

For every set of names (numbers, for their lexicographic order) and every sequence
of `sink` calls over them (`NamesAssumption`, `RegistrationsAssumption`):

* `OrderIsTopological`: `Spec => []OrderRespectsDeps`,
* `RefusedForAReason`: `Spec => []ErrorsJustified`, for errors and for failing assertions,
* `RegistryTypeCorrect`: `Spec => []TypeOK`,
* `JumpsHaveStages`: `Spec => []StagesServeJumps`. A registration that jumps to its first
  pipeline makes no stages, since an assertion stops it; `RefusedForAReason` says that no
  other does (but one without any pipeline).

`OrderRespectsDeps` speaks of the end only. The inductive invariant `RegistryInv`
describes the sort on its way: a visited pipeline is in the order or on the stack
and in only one place (`Partition`); what a visit is done with (`prev[n] \ todo[n]`)
is in the order (`Worklist`), so a pipeline that is left has its predecessors before
it (`Sorted`); the loop over the set still reaches every name it has not (`Covered`);
and any ranking that satisfies the dependencies falls along the stack (`Descends`).
The last is why a cycle is reported only where there is one: a predecessor that is
on the stack would have to rank below itself.

`StagesOf` is a loop, and TLAPS has no induction over it. `FoldInv(f, k)` is its
invariant after `k` pipelines (the stages so far and the open one concatenate to the
first `k`, each stage is named after its first pipeline and only its last one has
jumps, each target seen has a stage); `FoldStep` is one iteration, and `FoldInvHolds`
looks at the least `k` that would break it (`LeastExists`, from the well-foundedness
of the natural numbers). `FoldExists` shows in the same way that the recursive
function exists, and `UpToUnique` that there is one concatenation.

### The schedule

In `CompilerContextProofs`, for every set of operations and all registrations in which
`plier_to_linalg_gen` and no other pipeline jumps to `plier_to_std`, and is registered
as following it (`JumpsAssumption`, which TLC evaluates for the registrations of
`compiler_context`), and for modules of any `Kinds`, views included (`KindsAssumption`):

* `ContextTypeCorrect`: `ContextSpec => []ContextTypeOK`,
* `RequestsServed`: `ContextSpec => []MarkersServed`,
* `StdComplete`: `ContextSpec => []NothingLeftForStd`, if no function that
  `PlierToStdPass` brings in has unstructured control flow. It covers the tuples whose
  elements `plier_to_linalg_gen` gives another type. Section 3 has the instance
  that shows the condition cannot be dropped.

`StagesScheduled` carries what the registry does over to the schedule (`Scheduled`):
the cuts of `StagesPlaced` grow, so one stage ends with `plier_to_linalg_gen`, and
the topological order puts the stage that `plier_to_std` begins at or before it.
`ScheduleInv` is then that a marker is only on the module at the end of that stage,
where `Jump` takes it; `StdAwaited` that whatever is left for `plier_to_std` waits
for a marker or for the start of its stage.

* `StagesFixed`: `ContextSpec => []CompilerSchedule`: the ten pipelines of the compiler
  always end up in the same three stages, if they are registered by the compiler's own
  calls (`SinksAssumption`), in any order; a call may be repeated, which the registry refuses.

The dependencies of the ten pipelines leave one pair in either order: `untuple` and
`plier_to_linalg_gen`. `GenFirst` is what the sorted sets make of it: the sort meets
`plier_to_linalg_gen` first. When `untuple` is the least root left, `lower_to_llvm` has been
one, and with it all it depends on is in the order; when `untuple` is a predecessor to visit,
`plier_to_linalg_gen` or `plier_to_linalg_opt` was a lesser one of the same pipeline. With it
the order is a chain (`TheOrder`). `FromCompiler` carries the declared dependencies from the calls to the sort
(`Declared`, `DepsLinked`); `TheLoop` runs the loop that cuts over the one order.

### Iteration spaces

In `NestedLoopsProofs`, for every even word, any number of threads, any grain and every
nest of loops (`WordAssumption`, `GrainAssumption`, `InputsAssumption`: the bounds are
words and steps are positive):

* `NestTypeCorrect`: `Spec => []TypeOK`;
* `DeepNestsNeverCall`: `runFunc` follows a null pointer only in nests of more than three
  loops, and of such a nest no iteration is executed, whatever TBB does. This is the
  general form of the second disagreement of section 3;
* `NothingOutsideBounds`: `Spec => []NothingOutside` and
* `IterationsOnce`: `Spec => []ExactlyOnce`, if the loops satisfy `InputsFit` (each one
  `BoundsFit`, section 3; the instance with `prange(5, 3)` shows that it is needed).

The invariant `NestInv` says of each task TBB holds that it is a box of counts of the
loops at its depth, within their numbers of iterations; only then do the bounds that
`loopBody` computes modulo the word mean what they say (`ChunkBounds`, `ChunkPoints`).
`Once` adds that each iteration within the bounds has one holder: a task whose box has its
counts, or one call. A cut gives each count of the old box to one of the halves, and a
call takes a box over. `IterationsCount` is what the proofs need of `getRange`: the k-th
iteration exists exactly if it begins before the upper bound.

### Calls of jitted functions

In `FuncResolutionProofs`, for all sets of functions, all programs without recursion and any
number of nested compilations (`ProgramsAssumption`, `BoundAssumption`):

* `FuncTypeCorrect`: `Spec => []TypeOK`,
* `FuncContextMatches`: `Spec => []ContextMatches`,
* `FuncOneCopy`: `Spec => []OneCopy`,
* `FuncNamesAvailable`: `Spec => []NamesAvailable`, without further conditions;
* `FuncCallsTheCallee`: `Spec => []CallsTheCallee`, if every program is `NamesApart`;
* `FuncInlineHonoured`: `Spec => []InlineHonoured`, if every program is `NoNever`.

`func_resolution` has programs that satisfy the last two conditions, and section 3 says
what happens without them. The parts of `FuncInv`: `Shape` (which frame can be above which),
`Globals` (what a backend saved is what was active before it; by it an exception finds the
right module on its way down), `DictsMatch` (the dictionary of a backend has the calls of
the functions in its module and nothing else), `ModulesOK` (no name twice), `Pending` (an
inner backend works for an unresolved call of the module below) and `Lowered` (between its
end and the return of `get_func` the last function compiled is its own). `ContextMatches`
is about `Globals` only, but a step keeps it because of `Shape`; `NamesAvailable` needs
`DictsMatch` and `ModulesOK`. Two properties need another invariant on top of it:
`Lineages` (all functions of a module are reachable from the first, so their names differ,
and every resolved call has the callee of the program) and `Marks` (the inline flag of each
function in a module, and the global default, are what the options say).

### Integers

In `ScalarLoweringProofs`, for every two widths:

* `IntegersSameValue`: `Spec => []SameValue` for an `IntegerFunction`: variables of the
  integer types, bool and index, all operators but `/`, and uses of them that are `Meant`.

So whatever sequence of casts, negations, operators, comparisons and branches computes
them, the bits are those of Python's values, as long as each value is in the range of the
type that numba gives it. The invariant `Holds` is stronger than `SameValue` in that it
says what the bits are, and not only how they are read. Each operator has a lemma about it
(`CastHolds`, `ArithHolds`, `FloorHolds`, `ModHolds`, `PowerHolds`, `CompareHolds`,
`NegateHolds`), on lemmas about `Bits` and about division that truncates. The provers know
nothing of `2 ^ n`; `PowerCounts` and `PowerAdd` get what is needed by counting the subsets
of `1 .. n`.

### Memory SSA

In `MemoryOptProofs` and `MemoryGraphProofs`, for every function body, any references, alias pairs and families of
accesses (`NoneAssumption`: the null pointer is not a node):

* `TypesHold`: `Spec => []TypeOK`. The part that says something is about the graph: no live
  access belongs to an operation that has been erased, and no live node but the root lacks an
  argument, whether the graph has just been built or is being rewritten;
* `UseListsHold`: `Spec => []UseListsAgree`, the first part of `GraphConsistent`: the user list
  of each live node is exactly the arguments that are this node, each once;
* `RepeatsHold`: `Spec => RepeatsAfterErasure`: `applyOptimizations` builds a new analysis only
  after an operation was erased, so it comes to an end;
* `ArgumentsLiveHold`: `Spec => []NothingDangles`, the second part of `GraphConsistent`: no
  live node has an argument that has been erased.

The argument of the first three has five parts. `Sound(g, X)` is what every operation on the graph keeps: the
use lists agree, an argument, a dominator or a post-dominator of a node is of a type and a
place that it may have (`NodeFine`), and every live node but those of `X` is complete
(`Settled`). `SetArgument`, `CreateNode`, `ReplaceUses`, `Bypass` and `EraseNode` have a lemma
each (`OneSet`, `NodeCreated`, `UsesReplaced`, `Bypassed`, `NodeErased`).

`memSSAProcessRegion` leaves Phis incomplete while it is in their regions. `BuildState`
describes its state after `k` operations of the body: the graph is sound but for the Phis
of the open loops (`Pending`), and each open operation has in its frame what the code needs at
its end (`Frame`: the entry, the Phi, the node at the end of the first region). It needs the
structure of a body (`IsBody`), for which the walk over the operations and `Around` are related
(`OpenAt`). There is one lemma for the entry to, the middle of and the exit from each kind of
operation (`ForIn`, `ForOut`, `IfIn`, `ElseIn`, ...), and, as TLAPS has no induction over a
fold, the loop looks at the least operation that would break it (`Stepped`, `LeastExists`).

The walk of `getDef` ends since a dominator of a node belongs to an earlier operation
(`Before`), and where it ends is a node that a Use may have. `GraphOf` then says that the graph
is sound, complete and has accesses of operations that are there only; `optimizeUses`,
`foldLoads`, `deadStoreElemination` and `loadCSE` (which visits a list of users that its own
erasures change) keep it, and `IInv` adds that the body keeps its structure when values are
substituted.

`RInv` is about the graph as it was built: no use that the constructor of the analysis has
visited would move again, so that `optimizeUses` finds nothing to do in the first round. A
use moves to a node at which the walk of `getDef` stops (`DefFound`), and as no walk, not even
`checkPhisAlias`, goes through a use (`PathMoved`), it stops there ever after and the walks
of the other uses are what they were (`MovedOnce`).

`NothingDangles` needs more of the graph than soundness. `eraseNode` gives the users of a Def to
its argument and forgets it; the dominator fields of the other nodes keep it. So `getDef`, which
walks along the dominators, could end at an erased node, and the dominator of a live Phi could be
gone when the Phi is asked for. The invariant `Linked` has what prevents both:

* `DefsLinked`: the dominator of a live Def is its argument, or an erased Def on the way there
  which writes the same (`Alike`; a store is erased only for a `MustAlias` one). A walk that
  comes from a live node therefore does not stop at an erased one: it would have stopped before;
* `PhisJoined`: the dominator of a live Phi is alive and is an argument of two nodes, or of a Phi
  (`Joined`). `deadStoreElemination` asks for one user which is a Def, so it never takes that node;
* `PostsAgree`: a post-dominator has the node for its dominator;
* `ArgumentsLive` (the property) and `RootAlone`.

`Linked` holds of a graph as it was built (`LinkedBuilt`). This is the history of
`memSSAProcessRegion`, which the invariant `Struct` gives after `k` operations:

* `Hung`: a complete node hangs on live nodes, the dominator of a Def is its argument, and that
  of a complete Phi is alive and has two users, or a Phi for a user; only the Phis of the open loops are excepted;
* `Shape`, for each open operation: the Phi of a loop still has what it was created with, and of
  a branch whose first region has left the entry there is a complete user of the entry in that
  region, so that the second user comes when the branch is left (`BranchLeft`);
* `Apart`: the nodes before an operation use nothing behind it, and the nodes inside a loop
  nothing before its Phi;
* `Inside`: what is current in a loop is the Phi of the loop or behind it.

Moving or erasing a Use keeps `Linked`, as Uses are not in it (`LinkedSame`),
and so does erasing a Def for a `MustAlias` one (`LinkedBypassed`).

Not proved is the third part of `GraphConsistent`, `UsersInOrder`. It rests on the order in which
uses are appended to the list of a node, so on the whole history of that list.

### Out of the prover's reach

Left to TLC: `Termination` and `RunEnds` (liveness under fairness). Floats stay with it
too: `Round` is about the length of a number in binary, a recursion over the number, whose
properties (rounding twice, comparing two lengths) would be proved by induction over data.

## 6. Only model-checked

Of `MemoryOpt`: `SameResults` and `SameMemory` (what an execution reads, before and after),
`UsersInOrder` (section 5). The rewriting of functions (`CfgToScf`,
`LoopPipeline` and their parts), whose execution is recursive and out of the prover's reach; the float part of `ScalarLowering`; `ArrayProgram`, where that the
position of an element is inside its buffer is an induction over the shape (`SizeOf`, `Position`).

## 7. Not modelled, and the plan

In the order in which the work should go on:

1. `SharedReduce`: the reduce variable of a parallel loop inside another one,
   allocated at the function's entry and shared by concurrent outer chunks.
2. `Buffers`: the lifetime of buffers (`CloneArgsPass`, `FixDeallocPlacement`, the
   reference counts of `lower_to_llvm.cpp`), which rests on the upstream pass that
   inserts the deallocations.
3. `LowerParallel` (outlining in `lower_to_llvm.cpp`).
4. `FuncResolution` with the registry of intrinsics (`add_func`).

Left out for good: the mapping of types and name mangling (formatting), type
conversion, tuple and sign removal (local patterns), `index_type_propagation` and
`call_lowering` (local patterns), LAPACK calls, settings and decorators, the
`dpcomp-opt` tool and the vendored FileCheck. Of the modelled parts: tuples, `None` and
complex numbers in `plier_to_std.cpp`, external calls of the linalg builder, tensor
fusion (upstream patterns). PROJECT.json lists each part with its reason.
