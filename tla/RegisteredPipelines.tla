------------------------ MODULE RegisteredPipelines ------------------------
(***************************************************************************)
(* The pipelines that create_pipeline (lowering.cpp:672-679) registers,    *)
(* numbered in the lexicographic order of their names.                     *)
(***************************************************************************)
EXTENDS Naturals, Sequences

init         == 1
lowerToLLVM  == 2   \* "lower_to_llvm"
lowering     == 3
parallelToTBB == 4  \* "parallel_to_tbb"
linalgGen    == 5   \* "plier_to_linalg_gen"
linalgOpt    == 6   \* "plier_to_linalg_opt"
plierToStd   == 7   \* "plier_to_std"
removeSign   == 8   \* "pre_low_remove_sign"
untuple      == 9   \* "pre_low_untuple"
terminate    == 10

Sink(name, before, after, jumps) ==
  [name |-> name, prev |-> before, next |-> after, jumps |-> jumps]

\* getHighLoweringStage is {init, lowering}, getLowerLoweringStage {lowering, terminate}.
registerBasePipeline ==
  << Sink(init, {}, {}, {}), Sink(lowering, {init}, {}, {}), Sink(terminate, {lowering}, {}, {}) >>
registerLowerToLLVMPipeline == << Sink(lowerToLLVM, {lowering}, {terminate}, {}) >>
registerPlierToStdPipeline == << Sink(plierToStd, {init}, {lowering}, {}) >>
registerPlierToLinalgPipeline ==
  << Sink(linalgGen, {plierToStd}, {linalgOpt}, {plierToStd}),
     Sink(linalgOpt, {linalgGen, untuple}, {removeSign, lowering}, {}) >>
registerPreLowSimpleficationsPipeline ==
  << Sink(untuple, {init}, {lowering}, {}), Sink(removeSign, {untuple, init}, {lowering}, {}) >>
registerParallelToTBBPipeline == << Sink(parallelToTBB, {lowering}, {lowerToLLVM}, {}) >>

create_pipeline ==
  << registerBasePipeline, registerLowerToLLVMPipeline, registerPlierToStdPipeline,
     registerPlierToLinalgPipeline, registerPreLowSimpleficationsPipeline,
     registerParallelToTBBPipeline >>

\* What populate_pass_manager makes of them: three stages <<name, jumps,
\* pipelines>>, of which the second can jump back to its own beginning.
CompilerStages ==
  << << <<init>>, {}, <<init>> >>,
     << <<plierToStd>>, {plierToStd}, <<plierToStd, linalgGen>> >>,
     << <<untuple>>, {},
        <<untuple, linalgOpt, removeSign, lowering, parallelToTBB, lowerToLLVM, terminate>> >> >>
=============================================================================
