------------------------- MODULE MCCompilerContext --------------------------
(***************************************************************************)
(* An instance of CompilerContext for TLC.                                 *)
(***************************************************************************)
EXTENDS CompilerContext, SequencesExt

Ten == 1 .. 10

\* Every way to declare predecessors, and up to one successor, for pipelines 1,
\* 2 and 3; also with one registration missing or repeated.
DepCalls(n) ==
  {Sink(n, p, q, {}) : p \in SUBSET (1 .. 3), q \in {{}, {1}, {2}}}
DepRegistrations ==
  (DepCalls(1) \X DepCalls(2) \X DepCalls(3))
    \cup (DepCalls(1) \X DepCalls(2))
    \cup {<<c, Sink(2, {1}, {}, {}), d>> : c \in DepCalls(1), d \in DepCalls(1)}

\* A chain of four pipelines, or a chain with the second out of it, with any
\* jump or pair of jumps.
JumpSets == {{}, {1}, {2}, {3}, {2, 4}}
JumpCalls(n, before) == {Sink(n, before, {}, j) : j \in JumpSets}
JumpRegistrations ==
  UNION {JumpCalls(1, {}) \X JumpCalls(2, a) \X JumpCalls(3, {1}) \X JumpCalls(4, {3})
           : a \in {{1}, {4}}}

\* create_pipeline with the register functions called in any order.
CompilerRegistrations ==
  {FlattenSeq([k \in 1 .. 6 |-> create_pipeline[f[k]]]) : f \in Permutations(1 .. 6)}

\* For another run, with "branch" in StdCallees (NothingLeftForStd fails).
CompilerInOrder == {FlattenSeq(create_pipeline)}

AllRegistrations == DepRegistrations \cup JumpRegistrations \cup CompilerRegistrations
=============================================================================
