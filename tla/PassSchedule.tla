---------------------------- MODULE PassSchedule ----------------------------
(***************************************************************************)
(* PassManagerSchedule::run (compiler.cpp:166-184) over the stages that    *)
(* PipelineRegistry makes, and the jump markers of pipeline_utils.cpp by   *)
(* which a pipeline asks for an earlier stage to run again: whenever       *)
(* plier_to_linalg_gen lowers an operation into operations of the standard *)
(* lowering, and whenever it meets one that needs the standard lowering    *)
(* first, rerun_std_pipeline (plier_to_linalg.cpp:205) marks the module    *)
(* with "plier_to_std".                                                    *)
(*                                                                         *)
(* The module being compiled is a set of operations, each in one state:    *)
(*   absent   not in the module yet: it is in a function that a call will  *)
(*            bring in, or in the code a call will be replaced by          *)
(*   branch   unstructured control flow, for PlierToScfPass, the first     *)
(*            part of plier_to_std                                         *)
(*   std      an operation for PlierToStdPass, the second part             *)
(*   call     a call of another function: PlierToStdPass brings the        *)
(*            function in, for arguments whose types it knows, and         *)
(*            plier_to_linalg_gen for others                               *)
(*   array    an operation for plier_to_linalg_gen                         *)
(*   tuple    a build_tuple whose type is not that of its operands, for    *)
(*            PlierToStdPass                                               *)
(*   view     a getitem of a buffer with a slice and an integer: it is     *)
(*            given up after index_cast asked for plier_to_std             *)
(*   lowered  nothing left to do for these two pipelines                   *)
(***************************************************************************)
EXTENDS Naturals, Sequences

CONSTANTS
  Ops,         \* the operations the module may come to hold
  StdPipeline, \* plier_to_std
  GenPipeline, \* plier_to_linalg_gen
  Kinds,       \* what a module may hold
  StdCallees   \* what the functions that PlierToStdPass brings in may hold

VARIABLES
  stages,    \* sequence of <<name, jumps, pipelines>>; run does not change it
  outcome,   \* "running", "ok" or "failed"
  stage,     \* index of the current stage
  step,      \* pipelines of the stage that have run
  markers,   \* the jump markers on the module
  op         \* the state of every operation

vars == <<stages, outcome, stage, step, markers, op>>

Present  == {"branch", "std", "call", "array", "tuple", "view"}
OpStates == Present \cup {"absent", "lowered"}
Names    == UNION {stages[k][2] : k \in DOMAIN stages}
Funcs    == stages[stage][3]
In(s)    == {o \in Ops : op[o] = s}
-----------------------------------------------------------------------------
\* A module as lower_function leaves it.
Init ==
  /\ Len(stages) > 0
  /\ outcome = "running"
  /\ stage = 1
  /\ step = 0
  /\ markers = {}
  /\ op \in [Ops -> Kinds \cup {"absent"}]

Running == outcome = "running"
AtPipeline(p) == Running /\ step < Len(Funcs) /\ Funcs[step + 1] = p
Ran == step' = step + 1

\* The operations after one of kinds has been brought in for some absent ones.
Bring(kinds, after) ==
  \E added \in [In("absent") -> kinds \cup {"absent"}] :
    op' = [o \in Ops |-> IF op[o] = "absent" THEN added[o] ELSE after[o]]

\* MUTANT of StdKinds: build_tuple keeps the type it has, as without
\* PropagateBuildTupleTypes.
StdKindsNoTuples == {"branch", "std"}

\* What plier_to_std leaves nothing of.
StdKinds == {"branch", "std", "tuple"}

\* plier_to_std makes control flow structured and then lowers every operation it
\* knows. A call it resolves brings in a function, whose operations it lowers
\* too; but structured control flow was made before.
RunStd ==
  /\ AtPipeline(StdPipeline)
  /\ Ran
  /\ \E resolved \in SUBSET In("call") :
       LET after == [o \in Ops |-> IF op[o] \in StdKinds \/ o \in resolved
                                  THEN "lowered" ELSE op[o]]
           brought == {IF k \in StdKinds \ {"branch"} THEN "lowered" ELSE k : k \in StdCallees}
       IN  IF resolved = {} THEN op' = after ELSE Bring(brought, after)
  /\ UNCHANGED <<stages, outcome, stage, markers>>

\* MUTANT of RunGen: no marker when nothing of its own is left, as if only
\* rewrites that leave work behind had to be followed by plier_to_std.
RunGenLastUnmarked ==
  /\ AtPipeline(GenPipeline)
  /\ Ran
  /\ \E resolved \in SUBSET (In("array") \cup In("call")) :
       /\ op' = [o \in Ops |-> IF o \in resolved THEN "std" ELSE op[o]]
       /\ markers' = IF resolved = In("array") \cup In("call") THEN markers
                     ELSE markers \cup {StdPipeline}
  /\ UNCHANGED <<stages, outcome, stage>>

\* plier_to_linalg_gen lowers some operations, each into operations for
\* plier_to_std or into a call of a function it brings into the module, and asks
\* for plier_to_std each time; some casts, assignments and element types it lowers
\* without asking, and what it cannot resolve (yet) stays. It also asks, without
\* lowering anything, for a tuple whose elements have got other types
\* (CheckForBuildTuple) and for a view it then gives up (index_cast).
RunGen ==
  /\ AtPipeline(GenPipeline)
  /\ Ran
  /\ \E requested \in SUBSET (In("array") \cup In("call")) :
       \E quiet \in SUBSET (In("array") \ requested) :
         LET after == [o \in Ops |-> IF o \in requested THEN "std"
                                    ELSE IF o \in quiet THEN "lowered" ELSE op[o]]
             brought == IF requested # {} THEN Kinds
                        ELSE IF quiet # {} THEN Kinds \cap {"tuple"} ELSE {}
         IN  /\ Bring(brought, after)
             /\ markers' = IF requested # {} \/ \E o \in Ops : op'[o] \in {"tuple", "view"}
                           THEN markers \cup {StdPipeline} ELSE markers
  /\ UNCHANGED <<stages, outcome, stage>>

\* The other pipelines neither produce nor lower operations of these kinds.
RunOther ==
  /\ Running
  /\ step < Len(Funcs)
  /\ Funcs[step + 1] \notin {StdPipeline, GenPipeline}
  /\ Ran
  /\ UNCHANGED <<stages, outcome, stage, markers, op>>

\* Any pass may fail; run returns failure at once.
PassFails ==
  /\ Running
  /\ step < Len(Funcs)
  /\ outcome' = "failed"
  /\ UNCHANGED <<stages, stage, step, markers, op>>

\* The jumps of the stage that are marked, in the order of add_jump; get_jump
\* takes the first.
Marked == stages[stage][2] \cap markers
Target(name) == CHOOSE k \in DOMAIN stages : stages[k][1] = <<name>>

\* MUTANT of NextStage: a marked jump is not taken once no array operation is left.
NextStageDropsRequests ==
  /\ Running
  /\ step = Len(Funcs)
  /\ Marked = {} \/ In("array") = {}
  /\ IF stage = Len(stages)
     THEN outcome' = "ok" /\ UNCHANGED <<stage, step>>
     ELSE stage' = stage + 1 /\ step' = 0 /\ UNCHANGED outcome
  /\ UNCHANGED <<stages, markers, op>>

\* A stage without a marked jump is followed by the next one.
NextStage ==
  /\ Running
  /\ step = Len(Funcs)
  /\ Marked = {}
  /\ IF stage = Len(stages)
     THEN outcome' = "ok" /\ UNCHANGED <<stage, step>>
     ELSE stage' = stage + 1 /\ step' = 0 /\ UNCHANGED outcome
  /\ UNCHANGED <<stages, markers, op>>

\* A marked jump takes its marker off the module and goes to its target.
Jump ==
  /\ Running
  /\ step = Len(Funcs)
  /\ \E name \in Marked :
       /\ markers' = markers \ {name}
       /\ stage' = Target(name)
       /\ step' = 0
  /\ UNCHANGED <<stages, outcome, op>>

Ended == ~Running /\ UNCHANGED vars

Step == RunStd \/ RunGen \/ RunOther \/ NextStage \/ Jump

Next == Step \/ PassFails \/ Ended

Spec == Init /\ [][Next]_vars
-----------------------------------------------------------------------------
\* The counters stay within the stages, and only pipelines that a stage can
\* jump to are ever marked.
TypeOK ==
  /\ outcome \in {"running", "ok", "failed"}
  /\ stage \in DOMAIN stages
  /\ step \in 0 .. Len(Funcs)
  /\ markers \subseteq Names
  /\ op \in [Ops -> OpStates]
=============================================================================
