---------------------------- MODULE LoopPipeline ----------------------------
(***************************************************************************)
(* A function on its way to parallel loops: PlierToStdPass lowers ranges,  *)
(* PostPlierToLinalgPass applies the common rewrites, ForceInlinePass      *)
(* inlines, and PostLinalgOptPass makes loops parallel and fuses them      *)
(* until nothing changes. Within a pass MLIR's greedy driver applies any   *)
(* pattern that matches anywhere.                                          *)
(***************************************************************************)
EXTENDS RangeLoops, CommonOpts, ParallelLoops, LoopFusion

CONSTANTS
    Programs,             \* the functions
    Inputs,               \* the arguments and the memory they are called with, and the
                          \* orders in which prange iterations may run: [env, mem, orders]
    MaxRewrites,          \* more changes than any of them needs
    MaxIterations         \* of the greedy driver over one function

VARIABLES
    source,               \* the function as it was given to the passes
    ops,                  \* the function now
    pass,                 \* "std", "inline", "common", "linalg", "done" or "aborted"
    iteration,            \* the iterations of the driver that changed nothing
    rewrites              \* how many rewrites have changed the function

vars == <<source, ops, pass, iteration, rewrites>>

Init ==
    /\ source \in Programs
    /\ ops = source
    /\ pass = "std"
    /\ iteration = 0
    /\ rewrites = 0

\* A pattern applies somewhere, or one of its assertions fails.
Rewrite(passes, At(_, _, _), New(_, _, _), Asserts(_, _, _)) ==
    /\ pass \in passes
    /\ \E p \in BlockPaths(ops) : \E i \in DOMAIN OpsAt(ops, p) :
         /\ At(ops, p, i)
         /\ IF Asserts(ops, p, i) THEN ops' = ops /\ pass' = "aborted"
            ELSE ops' = New(ops, p, i) /\ UNCHANGED pass
    /\ rewrites' = rewrites + 1
    /\ UNCHANGED <<source, iteration>>

Nothing(os, path, i) == FALSE
Optimizing == {"common", "linalg"}
LowerRange == Rewrite({"std"}, RangeLoopAt, LowerWhileToFor, ResultsLeft)
Inline == Rewrite({"inline"}, ForceInlineAt, ForceInline, Nothing)
CmpLoopBounds == Rewrite(Optimizing, CmpLoopBoundsAt, CmpLoopBoundsSimplify, Nothing)
Subview == Rewrite(Optimizing, SubviewAt, SubviewPropagate, Nothing)
Reduction == Rewrite({"linalg"}, CanonicalizeReductionAt, CanonicalizeReduction, Nothing)
Promote == Rewrite({"linalg"}, PromoteAt, PromoteToParallel, WithoutResult)
Merge == Rewrite({"linalg"}, MergeNestedAt, MergeNested, Nothing)

\* IfOpConstCond on an if without the branch it wants is undefined: the end of the region
\* stands for its first block. Built with assertions the compiler stops there, without
\* them no use is found inside of it.
ConstCond ==
    /\ pass \in Optimizing
    /\ \E p \in BlockPaths(ops) : \E i \in DOMAIN OpsAt(ops, p) :
         /\ IfOpConstCondAt(ops, p, i)
         /\ ops' = IfOpConstCond(ops, p, i)
         /\ pass' \in IF NoSuchBlock(ops, OpsAt(ops, p)[i]) THEN {pass, "aborted"} ELSE {pass}
    /\ rewrites' = rewrites + Bit(ops' # ops)
    /\ UNCHANGED <<source, iteration>>

CSE ==
    /\ pass \in Optimizing
    /\ ops' = SimplifyRegion(ops)
    /\ ops' # ops
    /\ rewrites' = rewrites + 1
    /\ UNCHANGED <<source, pass, iteration>>

\* MLIR's canonicalization runs in every pass and is not counted.
Canonicalize ==
    /\ pass \notin {"done", "aborted"}
    /\ ops # Canonical(ops)
    /\ ops' = Canonical(ops)
    /\ UNCHANGED <<source, pass, iteration, rewrites>>

Matches(At(_, _, _)) == \E p \in BlockPaths(ops) : \E i \in DOMAIN OpsAt(ops, p) : At(ops, p, i)
ConstCondChanges ==
    \E p \in BlockPaths(ops) : \E i \in DOMAIN OpsAt(ops, p) :
      IfOpConstCondAt(ops, p, i) /\ IfOpConstCond(ops, p, i) # ops
Quiet ==
    /\ ops = Canonical(ops)
    /\ pass = "std" => ~Matches(RangeLoopAt)
    /\ pass = "inline" => ~Matches(ForceInlineAt)
    /\ pass \in Optimizing =>
         /\ ~Matches(CmpLoopBoundsAt) /\ ~Matches(SubviewAt) /\ ~ConstCondChanges
         /\ SimplifyRegion(ops) = ops
    /\ pass = "linalg" =>
         ~Matches(CanonicalizeReductionAt) /\ ~Matches(PromoteAt) /\ ~Matches(MergeNestedAt)

\* Everything is done and only IfOpConstCond still matches: the driver takes that for
\* progress and goes over the function again, until it has done so often enough. What it
\* returns then is ignored (applyOptimizations).
Applies == pass \in Optimizing /\ Matches(IfOpConstCondAt)
Iterate ==
    /\ Quiet /\ Applies
    /\ iteration < MaxIterations
    /\ iteration' = iteration + 1
    /\ UNCHANGED <<source, ops, pass, rewrites>>
DriverEnds == Quiet /\ (Applies => iteration = MaxIterations)

NextPass ==
    /\ DriverEnds
    /\ \/ pass = "std" /\ pass' = "inline"
       \/ pass = "inline" /\ pass' = "common"
       \/ pass = "common" /\ pass' = "linalg"
    /\ iteration' = 0
    /\ UNCHANGED <<source, ops, rewrites>>

\* additionalOpt at the end of a round of applyOptimizations; the function goes through
\* another round if loops were fused, not if something was only moved.
AdditionalOpt ==
    /\ pass = "linalg"
    /\ DriverEnds
    /\ LET prepared == PrepareForFusion(ops)
       IN  /\ ops' = NaivelyFuse(prepared)
           /\ pass' = IF ops' = prepared THEN "done" ELSE "linalg"
    /\ iteration' = 0
    /\ rewrites' = rewrites + 1
    /\ UNCHANGED source

Stop == pass \in {"done", "aborted"} /\ UNCHANGED vars

Next ==
    \/ LowerRange \/ Inline \/ CmpLoopBounds \/ ConstCond \/ Subview \/ Reduction
    \/ Promote \/ Merge \/ CSE \/ Canonicalize \/ Iterate \/ NextPass \/ AdditionalOpt \/ Stop

Spec == Init /\ [][Next]_vars

(***************************************************************************)
(* Properties                                                              *)
(***************************************************************************)

\* Type invariant: a legal function. Every value has one definition, and it comes before
\* each use, in the same block or around it. And few rewrites change it, none undoing
\* another: the one that matches its own result is stopped by the driver's limit, and no
\* assertion is.
RECURSIVE Legal(_, _)
Legal(os, known) ==
    \A i \in DOMAIN os :
      LET visible == known \cup ElemsOf(ResultsOf(SubSeq(os, 1, i - 1)))
      IN  /\ ElemsOf(os[i].args) \subseteq visible
          /\ \A r \in DOMAIN Regions(os[i]) :
               Legal(os[i].reg[r].ops, visible \cup ElemsOf(os[i].reg[r].args))
AllNames(os) ==
    ResultsOf(Walk(os)) \o Flatten(Map(Walk(os), LAMBDA o : Flatten(Map(Regions(o), LAMBDA r : r.args))))
LegalFunction ==
    /\ pass \in {"std", "inline", "common", "linalg", "done"}
    /\ rewrites \in 0..MaxRewrites /\ iteration \in 0..MaxIterations
    /\ Legal(ops, UNION {DOMAIN d.env : d \in Inputs})
    /\ Cardinality(ElemsOf(AllNames(ops))) = Len(AllNames(ops))

\* The function does what it did: after every rewrite it makes the same calls with the
\* same arguments, returns the same value and leaves the same contents in the arrays it
\* was given, and so it does when parallel loops take their iterations in another order,
\* unless two of the arrays are one: then a prange may depend on its order.
Observed(os, d, dir) ==
    LET st == RunOps(os, Start(d.env, d.mem), <<>>, dir)
    IN  [out |-> st.out, ret |-> st.ret, mem |-> [c \in DOMAIN d.mem |-> st.mem[c]]]
SameMeaning ==
    \A d \in Inputs : \A dir \in d.orders : Observed(ops, d, dir) = Observed(source, d, 1)

\* A loop over a prange, or one that neither writes nor calls, ends up parallel if it
\* carries nothing but sums and products.
Accumulates(o, k) ==
    LET carried == o.reg[1].args[k + 1]
        yielded == Last(o.reg[1].ops).args[k]
    IN  /\ \E u \in ElemsOf(o.reg[1].ops) :
             u.op \in {"add", "mul"} /\ u.res = <<yielded>> /\ carried \in ElemsOf(u.args)
        /\ HasOneUse(ops, carried) /\ HasOneUse(ops, yielded)
LoopsParallel ==
    pass = "done" =>
      \A o \in ElemsOf(Walk(ops)) :
        ~(/\ o.op = "for"
          /\ \/ o.attr.par = 1
             \/ \A u \in ElemsOf(Inside(o)) : u.op \notin {"store", "call", "emit"}
          /\ \A k \in DOMAIN o.res : Accumulates(o, k))

\* Neighbouring parallel loops over one range that only read and need nothing from each
\* other end up as one loop, also when a computation stands between them.
ReadsOnly(o) == \A u \in ElemsOf(Inside(o)) : u.op \in PureOps \cup {"load", "reduce", "parallel", "yield"}
NeighboursFused ==
    pass = "done" =>
      \A path \in BlockPaths(ops) :
        LET b == OpsAt(ops, path)
        IN  \A i, j \in DOMAIN b :
              ~(/\ i < j /\ IsParallel(b[i]) /\ IsParallel(b[j])
                /\ SubSeq(b[i].args, 1, 3 * b[i].attr.dims) = SubSeq(b[j].args, 1, 3 * b[j].attr.dims)
                /\ \A k \in (i + 1)..(j - 1) : b[k].op \in PureOps
                /\ UsesOf(<<b[j]>>) \cap ElemsOf(ResultsOf(SubSeq(b, i, j - 1))) = {}
                /\ ReadsOnly(b[i]) /\ ReadsOnly(b[j])
                /\ ~HasNestedParallelOp(b[i]) /\ ~HasNestedParallelOp(b[j]))
=============================================================================
