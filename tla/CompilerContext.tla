--------------------------- MODULE CompilerContext ---------------------------
(***************************************************************************)
(* CompilerContextImpl (compiler.cpp:196-229): the constructor has         *)
(* PipelineRegistry make the stages and PassManagerSchedule keeps them;    *)
(* run takes a module through the schedule.                                *)
(***************************************************************************)
EXTENDS PipelineRegistry, RegisteredPipelines

CONSTANTS Ops, Kinds, StdCallees   \* of PassSchedule

ASSUME OpsAssumption == IsFiniteSet(Ops)
ASSUME PipelinesDiffer == plierToStd # linalgGen

\* The calls of sink that create_pipeline makes, and the names that calls bring
\* into the order.
SinkCalls == UNION {Members(create_pipeline[k]) : k \in DOMAIN create_pipeline}
Mentions(s) == UNION {{c.name} \cup c.prev \cup c.next : c \in Members(s)}

\* The compiler's ten pipelines are registered by its own calls, in any order.
ASSUME SinksAssumption ==
  \A registrations \in Registrations :
    Mentions(registrations) = 1 .. 10 => Members(registrations) = SinkCalls

VARIABLES outcome, stage, step, markers, op

Schedule == INSTANCE PassSchedule WITH StdPipeline <- plierToStd, GenPipeline <- linalgGen

ASSUME KindsAssumption == Kinds \subseteq Schedule!Present /\ StdCallees \subseteq Kinds

\* plier_to_linalg_gen, and no other pipeline, jumps to plier_to_std; it is
\* registered as following it (plier_to_linalg.cpp:2061).
ASSUME JumpsAssumption ==
  /\ {plierToStd, linalgGen} \subseteq Pipelines
  /\ \A registrations \in Registrations : \A k \in DOMAIN registrations :
       LET call == registrations[k] IN
       /\ plierToStd \in call.jumps <=> call.name = linalgGen
       /\ call.name = linalgGen => plierToStd \in call.prev

run == <<outcome, stage, step, markers, op>>
contextVars == <<vars, run>>
-----------------------------------------------------------------------------
NoModule == [o \in Ops |-> "absent"]

ContextInit ==
  /\ Init
  /\ outcome = "new"
  /\ stage = 1
  /\ step = 0
  /\ markers = {}
  /\ op = NoModule

\* The stages are complete and run is called with a module. (Only the registry
\* of the compiler's own pipelines is given modules.)
StartRun ==
  /\ phase = "done"
  /\ outcome = "new"
  /\ known = Pipelines
  /\ outcome' = "running"
  /\ op' \in [Ops -> Kinds \cup {"absent"}]
  /\ UNCHANGED <<vars, stage, step, markers>>

Populate == Next /\ UNCHANGED run

RunModule == outcome # "new" /\ Schedule!Next /\ UNCHANGED vars

ContextNext == Populate \/ StartRun \/ RunModule

ContextSpec ==
  /\ ContextInit
  /\ [][ContextNext]_contextVars
  /\ WF_contextVars(Populate)
  /\ WF_contextVars(RunModule /\ Schedule!Step)
-----------------------------------------------------------------------------
\* The counters of the schedule stay within the stages, and only pipelines that
\* a stage can jump to are ever marked.
ScheduleTypeOK == outcome # "new" => Schedule!TypeOK

\* Type invariant of the composition.
ContextTypeOK == TypeOK /\ ScheduleTypeOK

\* The schedule has left the stage that can jump back to plier_to_std.
PastJumps ==
  outcome # "new" /\ \E k \in DOMAIN stages : plierToStd \in stages[k][2] /\ stage > k

\* Later stages never meet something that plier_to_std would have lowered: every
\* operation it has to handle is in the module before a run of it, the ones that
\* calls bring in, and the tuples whose elements plier_to_linalg_gen changes, too.
NothingLeftForStd ==
  PastJumps => Schedule!In("std") \cup Schedule!In("branch") \cup Schedule!In("tuple") = {}

\* Past the stage that can jump no request is pending: a marker that the later
\* stages do not know would be ignored for good.
MarkersServed == PastJumps => markers = {}

\* The stages of the ten pipelines do not depend on the order of registration
\* ("sorted set to make order consistent", pipeline_registry.cpp:59), and are the
\* three that the compiler is built for.
CompilerSchedule == phase = "done" /\ ordered = 1 .. 10 => stages = CompilerStages

\* The loop of jumps ends, although plier_to_linalg_gen also asks for another round
\* when it has lowered nothing: what it asks for is then gone after that round.
RunEnds == (outcome = "running") ~> (outcome \in {"ok", "failed"})
=============================================================================
