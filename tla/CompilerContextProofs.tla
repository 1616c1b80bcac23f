----------------------- MODULE CompilerContextProofs ------------------------
(***************************************************************************)
(* Theorems about the compiler's schedule, for every set of operations and *)
(* every sequence of registrations in which plier_to_linalg_gen jumps to   *)
(* plier_to_std, and about the schedule of the compiler's own ten          *)
(* pipelines.                                                              *)
(***************************************************************************)
EXTENDS CompilerContext, PipelineRegistryProofs

(***************************************************************************)
(* What the registry makes of JumpsAssumption.                             *)
(***************************************************************************)

\* Who jumps to plier_to_std, in the calls to come and in the registered ones.
GenJumps ==
  /\ \A k \in DOMAIN calls :
       /\ plierToStd \in calls[k].jumps <=> calls[k].name = linalgGen
       /\ calls[k].name = linalgGen => plierToStd \in calls[k].prev
  /\ \A n \in Pipelines : plierToStd \in jumps[n] => n = linalgGen
  /\ linalgGen \in known => plierToStd \in jumps[linalgGen] /\ plierToStd \in prev[linalgGen]

\* Sequences of calls of which a part has been handled.
LEMMA GenJumpsNext == RegistryInv /\ GenJumps /\ [Next]_vars => GenJumps'
<1> SUFFICES ASSUME RegistryInv, GenJumps, [Next]_vars
             PROVE  GenJumps'
  OBVIOUS
<1>1. SortTypeOK
  BY DEF RegistryInv
<1>2. CASE Register /\ Head(calls).name \notin known
  <2> DEFINE call == Head(calls)
  <2>1. /\ calls # << >> /\ calls' = Tail(calls)
        /\ known' = known \cup {call.name}
        /\ prev' = [prev EXCEPT ![call.name] = call.prev]
        /\ jumps' = [jumps EXCEPT ![call.name] = call.jumps]
    BY <1>2 DEF Register
  <2>2. /\ calls \in Seq(Declarations)
        /\ jumps \in [Pipelines -> SUBSET Pipelines] /\ prev \in [Pipelines -> SUBSET Pipelines]
    BY <1>1 DEF SortTypeOK
  <2>3. 1 \in DOMAIN calls /\ call = calls[1] /\ call \in Declarations
    BY <2>1, <2>2, HeadTailProperties, EmptySeq, LenProperties, ElementOfSeq
  <2>4. call.name \in Pipelines
    BY <2>3 DEF Declarations
  <2>5. \A k \in DOMAIN calls' : k + 1 \in DOMAIN calls /\ calls'[k] = calls[k + 1]
    BY <2>1, <2>2, HeadTailProperties, LenProperties
  <2>6. /\ plierToStd \in call.jumps <=> call.name = linalgGen
        /\ call.name = linalgGen => plierToStd \in call.prev
    BY <2>3 DEF GenJumps
  <2> HIDE DEF call
  <2>7. \A k \in DOMAIN calls' :
          /\ plierToStd \in calls'[k].jumps <=> calls'[k].name = linalgGen
          /\ calls'[k].name = linalgGen => plierToStd \in calls'[k].prev
    BY <2>5 DEF GenJumps
  <2>8. \A n \in Pipelines : plierToStd \in jumps'[n] => n = linalgGen
    BY <2>1, <2>2, <2>4, <2>6 DEF GenJumps
  <2>9. linalgGen \in known' => plierToStd \in jumps'[linalgGen] /\ plierToStd \in prev'[linalgGen]
    BY <2>1, <2>2, <2>4, <2>6, JumpsAssumption DEF GenJumps
  <2> QED BY <2>7, <2>8, <2>9 DEF GenJumps
<1>3. CASE LinkDeps
  <2>1. /\ UNCHANGED <<calls, known, jumps>>
        /\ \A n \in Pipelines : prev[n] \subseteq prev'[n]
    BY <1>1, <1>3 DEF LinkDeps, SortTypeOK
  <2> QED BY <2>1, JumpsAssumption DEF GenJumps
<1>4. CASE ~(Register /\ Head(calls).name \notin known) /\ ~LinkDeps
  <2>1. UNCHANGED <<calls, known, prev, jumps>>
    BY <1>4
    DEF Next, Register, VisitRoot, VisitPrev, Leave, Cut, Finished, vars, deps, walk
  <2> QED BY <2>1 DEF GenJumps
<1> QED BY <1>2, <1>3, <1>4

(***************************************************************************)
(* What the schedule relies on: one stage can jump, at its end, to a stage *)
(* at or before it.                                                        *)
(***************************************************************************)

Scheduled(S) ==
  /\ S \in Seq(Stages)
  /\ S # << >>
  /\ \A k \in DOMAIN S : S[k][3] # << >>
  /\ \A k \in DOMAIN S : \A p \in DOMAIN S[k][3] :
       S[k][3][p] = linalgGen => p = Len(S[k][3]) /\ plierToStd \in S[k][2]
  /\ \A k, m \in DOMAIN S : plierToStd \in S[k][2] /\ plierToStd \in S[m][2] => k = m
  /\ \A k, m \in DOMAIN S : plierToStd \in S[k][2] /\ S[m][1] = <<plierToStd>> => m <= k
  /\ \A m \in DOMAIN S : S[m][1] = <<plierToStd>> => S[m][3][1] = plierToStd
  /\ \E m \in DOMAIN S : S[m][1] = <<plierToStd>>

\* The stages of the registry are such stages.
LEMMA StagesScheduled ==
  RegistryInv /\ StagesInv /\ GenJumps /\ phase = "done" /\ known = Pipelines => Scheduled(stages)
<1> SUFFICES ASSUME RegistryInv, StagesInv, GenJumps, phase = "done", known = Pipelines
             PROVE  Scheduled(stages)
  OBVIOUS
<1>1. SortTypeOK /\ StagesTyped /\ StagesPlaced(stages)
  BY DEF RegistryInv, StagesInv
<1>2. /\ order \in Seq(Pipelines) /\ DOMAIN order = 1 .. Len(order) /\ Len(order) \in Nat
      /\ stages \in Seq(Stages) /\ DOMAIN stages = 1 .. Len(stages) /\ Len(stages) \in Nat
  BY <1>1, LenProperties DEF SortTypeOK, StagesTyped
<1>3. Members(order) = Pipelines
  BY <1>1 DEF RegistryInv, SortTypeOK, Covered, Partition, Sorting, Members
<1>4. /\ plierToStd \in jumps[linalgGen] /\ plierToStd \in prev[linalgGen]
      /\ \A n \in Pipelines : plierToStd \in jumps[n] => n = linalgGen
      /\ linalgGen \in Pipelines /\ plierToStd \in Pipelines
  BY JumpsAssumption DEF GenJumps
<1>5. PICK g \in DOMAIN order : order[g] = linalgGen
  BY <1>3, <1>4 DEF Members
<1>6. PICK s \in 1 .. g - 1 : order[s] = plierToStd
  BY <1>4, <1>5 DEF RegistryInv, Sorted, Sorting
<1>7. Injective(order)
  BY DEF RegistryInv, Partition
<1>8. PICK cuts \in [0 .. Len(stages) -> Nat] : IsCut(cuts, stages) /\ cuts[Len(stages)] = Len(order)
  BY <1>1 DEF StagesPlaced
<1>9. /\ \A k, m \in 0 .. Len(stages) : k < m => cuts[k] < cuts[m]
      /\ \A k \in DOMAIN stages :
           /\ stages[k][3][1] = order[cuts[k - 1] + 1]
           /\ stages[k][3][Len(stages[k][3])] = order[cuts[k]]
  BY <1>2, <1>8 DEF IsCut
<1>10. ASSUME NEW k \in DOMAIN stages
       PROVE  /\ cuts[k] \in DOMAIN order
              /\ cuts[k - 1] + 1 \in DOMAIN order
              /\ StageOK(stages[k][1], stages[k][2], stages[k][3])
  <2>1. k \in 0 .. Len(stages) /\ k - 1 \in 0 .. Len(stages) /\ k - 1 < k
        /\ Len(stages) \in 0 .. Len(stages)
    BY <1>2
  <2>2. cuts[k - 1] < cuts[k] /\ cuts[k] \in Nat /\ cuts[k - 1] \in Nat
    BY <1>8, <1>9, <2>1
  <2>3. k = Len(stages) \/ cuts[k] < cuts[Len(stages)]
    BY <1>2, <1>9, <2>1
  <2>4. cuts[k] <= Len(order)
    BY <1>2, <1>8, <2>2, <2>3
  <2> QED BY <1>1, <1>2, <2>2, <2>4 DEF StagesPlaced
<1>11. ASSUME NEW k \in DOMAIN stages, plierToStd \in stages[k][2]
       PROVE  cuts[k] = g
  <2> DEFINE last == stages[k][3][Len(stages[k][3])]
  <2>1. last \in Pipelines /\ plierToStd \in jumps[last]
    BY <1>3, <1>10, <1>11 DEF StageOK
  <2>2. order[cuts[k]] = linalgGen
    BY <1>4, <1>9, <2>1
  <2> QED BY <1>5, <1>7, <1>10, <2>2 DEF Injective
<1>12. ASSUME NEW m \in DOMAIN stages, stages[m][1] = <<plierToStd>>
       PROVE  stages[m][3][1] = plierToStd /\ cuts[m - 1] + 1 = s
  <2>1. stages[m][3][1] = plierToStd
    BY <1>10, <1>12 DEF StageOK
  <2>2. s \in DOMAIN order
    BY <1>2, <1>5, <1>6
  <2> QED BY <1>6, <1>7, <1>9, <1>10, <2>1, <2>2 DEF Injective
<1>13. ASSUME NEW k \in DOMAIN stages, NEW p \in DOMAIN stages[k][3],
              stages[k][3][p] = linalgGen
       PROVE  p = Len(stages[k][3]) /\ plierToStd \in stages[k][2]
  BY <1>4, <1>10, <1>13 DEF StageOK
<1>14. ASSUME NEW k \in DOMAIN stages, NEW m \in DOMAIN stages,
              plierToStd \in stages[k][2], plierToStd \in stages[m][2]
       PROVE  k = m
  <2>1. cuts[k] = g /\ cuts[m] = g
    BY <1>11, <1>14
  <2>2. k \in 0 .. Len(stages) /\ m \in 0 .. Len(stages)
    BY <1>2
  <2>3. ~(k < m) /\ ~(m < k)
    BY <1>2, <1>5, <1>9, <2>1, <2>2
  <2> QED BY <1>2, <2>3
<1>15. ASSUME NEW k \in DOMAIN stages, NEW m \in DOMAIN stages,
              plierToStd \in stages[k][2], stages[m][1] = <<plierToStd>>
       PROVE  m <= k
  <2>1. cuts[k] = g /\ cuts[m - 1] + 1 = s
    BY <1>11, <1>12, <1>15
  <2>2. SUFFICES ASSUME k < m PROVE FALSE
    BY <1>2
  <2>3. k \in 0 .. Len(stages) /\ m - 1 \in 0 .. Len(stages)
    BY <1>2
  <2>4. cuts[m - 1] \in Nat /\ cuts[k] \in Nat
    BY <1>8, <2>3
  <2>5. k = m - 1 \/ cuts[k] < cuts[m - 1]
    BY <1>2, <1>9, <2>2, <2>3
  <2> QED BY <1>2, <1>6, <2>1, <2>4, <2>5
<1>16. \E m \in DOMAIN stages : stages[m][1] = <<plierToStd>>
  <2>1. plierToStd \in JumpTargets \cap Members(order)
    BY <1>3, <1>4 DEF JumpTargets
  <2> QED BY <1>1, <2>1 DEF StagesPlaced
<1>17. stages # << >> /\ \A k \in DOMAIN stages : stages[k][3] # << >>
  BY <1>1, <1>10 DEF StagesPlaced, StageOK
<1> QED BY <1>2, <1>12, <1>13, <1>14, <1>15, <1>16, <1>17, Zenon DEF Scheduled

(***************************************************************************)
(* The invariant of the schedule.                                          *)
(***************************************************************************)

\* A module is only run through finished stages; the one request there can be is
\* made at the end of the stage that can serve it.
ScheduleInv ==
  /\ outcome \in {"new", "running", "ok", "failed"}
  /\ outcome = "new" => stage = 1 /\ step = 0 /\ markers = {}
  /\ outcome # "new" => phase = "done" /\ known = Pipelines
  /\ ScheduleTypeOK
  /\ markers \subseteq {plierToStd}
  /\ markers # {} => step = Len(stages[stage][3]) /\ plierToStd \in stages[stage][2]

Unstructured == Schedule!In("std") \cup Schedule!In("branch") \cup Schedule!In("tuple")

\* The start of a stage of plier_to_std is still to come.
StdAhead ==
  \E m \in DOMAIN stages :
    stages[m][1] = <<plierToStd>> /\ (stage < m \/ (stage = m /\ step = 0))

\* What plier_to_std has to handle waits for a request or for its stage.
StdAwaited == outcome # "new" => Unstructured = {} \/ markers # {} \/ StdAhead

\* A stage holds at least one pipeline.
LEMMA StageTyped ==
  ASSUME Scheduled(stages), Schedule!TypeOK
  PROVE  /\ stages \in Seq(Stages) /\ DOMAIN stages = 1 .. Len(stages) /\ Len(stages) \in Nat
         /\ stage \in 1 .. Len(stages)
         /\ \A k \in DOMAIN stages :
              /\ stages[k][3] \in Seq(Pipelines) /\ Len(stages[k][3]) \in Nat \ {0}
              /\ DOMAIN stages[k][3] = 1 .. Len(stages[k][3])
              /\ stages[k][2] \in SUBSET Pipelines
<1>1. /\ stages \in Seq(Stages) /\ DOMAIN stages = 1 .. Len(stages) /\ Len(stages) \in Nat
      /\ stage \in 1 .. Len(stages)
  BY LenProperties DEF Scheduled, Schedule!TypeOK
<1>2. ASSUME NEW k \in DOMAIN stages
      PROVE  /\ stages[k][3] \in Seq(Pipelines) /\ Len(stages[k][3]) \in Nat \ {0}
             /\ DOMAIN stages[k][3] = 1 .. Len(stages[k][3])
             /\ stages[k][2] \in SUBSET Pipelines
  <2>1. stages[k] \in Stages
    BY <1>1, ElementOfSeq
  <2>2. stages[k][3] \in Seq(Pipelines) /\ stages[k][2] \in SUBSET Pipelines
    BY <2>1 DEF Stages
  <2> QED BY <1>2, <2>2, LenProperties, EmptySeq DEF Scheduled
<1> QED BY <1>1, <1>2

\* Where a marker leads.
LEMMA TargetFound ==
  ASSUME Scheduled(stages)
  PROVE  /\ Schedule!Target(plierToStd) \in DOMAIN stages
         /\ stages[Schedule!Target(plierToStd)][1] = <<plierToStd>>
BY DEF Scheduled, Schedule!Target

\* New operations are of the kinds that were brought.
LEMMA Brought ==
  ASSUME NEW kinds, kinds \subseteq Schedule!OpStates,
         NEW after \in [Ops -> Schedule!OpStates], Schedule!Bring(kinds, after)
  PROVE  /\ op' \in [Ops -> Schedule!OpStates]
         /\ \A o \in Ops : op[o] # "absent" => op'[o] = after[o]
         /\ \A o \in Ops : op[o] = "absent" => op'[o] \in kinds \cup {"absent"}
<1>1. PICK added \in [Schedule!In("absent") -> kinds \cup {"absent"}] :
        op' = [o \in Ops |-> IF op[o] = "absent" THEN added[o] ELSE after[o]]
  BY DEF Schedule!Bring
<1>2. \A o \in Ops : op[o] = "absent" => added[o] \in kinds \cup {"absent"}
  BY <1>1 DEF Schedule!In
<1>3. "absent" \in Schedule!OpStates
  BY DEF Schedule!OpStates
<1> QED BY <1>1, <1>2, <1>3

\* plier_to_std leaves nothing it can lower, unless a function it brings in has
\* unstructured control flow.
LEMMA StdStep ==
  ASSUME op \in [Ops -> Schedule!OpStates], Schedule!RunStd
  PROVE  /\ op' \in [Ops -> Schedule!OpStates]
         /\ "branch" \notin StdCallees => \A o \in Ops : op'[o] \notin {"std", "branch", "tuple"}
<1> DEFINE after(resolved) == [o \in Ops |-> IF op[o] \in Schedule!StdKinds \/ o \in resolved
                                            THEN "lowered" ELSE op[o]]
           brought == {IF k \in Schedule!StdKinds \ {"branch"} THEN "lowered" ELSE k
                         : k \in StdCallees}
<1>1. PICK resolved \in SUBSET Schedule!In("call") :
        IF resolved = {} THEN op' = after(resolved) ELSE Schedule!Bring(brought, after(resolved))
  BY DEF Schedule!RunStd
<1>2. after(resolved) \in [Ops -> Schedule!OpStates] /\ brought \subseteq Schedule!OpStates
  BY KindsAssumption DEF Schedule!OpStates, Schedule!Present
<1>3. \A o \in Ops : after(resolved)[o] \notin {"std", "branch", "tuple"}
  BY DEF Schedule!StdKinds
<1>4. "branch" \notin StdCallees => brought \cap {"std", "branch", "tuple"} = {}
  BY DEF Schedule!StdKinds
<1> HIDE DEF after, brought
<1>5. CASE op' = after(resolved)
  BY <1>2, <1>3, <1>5
<1>6. CASE Schedule!Bring(brought, after(resolved))
  <2>1. /\ op' \in [Ops -> Schedule!OpStates]
        /\ \A o \in Ops : op[o] # "absent" => op'[o] = after(resolved)[o]
        /\ \A o \in Ops : op[o] = "absent" => op'[o] \in brought \cup {"absent"}
    BY <1>2, <1>6, Brought
  <2> QED BY <1>3, <1>4, <2>1
<1> QED BY <1>1, <1>5, <1>6

\* plier_to_linalg_gen asks for plier_to_std, or makes nothing for it.
LEMMA GenStep ==
  ASSUME op \in [Ops -> Schedule!OpStates], Schedule!RunGen
  PROVE  /\ op' \in [Ops -> Schedule!OpStates]
         /\ \/ markers' = markers \cup {plierToStd}
            \/ /\ UNCHANGED markers
               /\ \A o \in Ops : op'[o] \in {"std", "branch", "tuple"} => op'[o] = op[o]
<1>1. PICK requested \in SUBSET (Schedule!In("array") \cup Schedule!In("call")) :
      \E quiet \in SUBSET (Schedule!In("array") \ requested) :
        LET after == [o \in Ops |-> IF o \in requested THEN "std"
                                   ELSE IF o \in quiet THEN "lowered" ELSE op[o]]
            brought == IF requested # {} THEN Kinds
                       ELSE IF quiet # {} THEN Kinds \cap {"tuple"} ELSE {}
        IN  /\ Schedule!Bring(brought, after)
            /\ markers' = IF requested # {} \/ \E o \in Ops : op'[o] \in {"tuple", "view"}
                          THEN markers \cup {plierToStd} ELSE markers
  BY DEF Schedule!RunGen
<1>2. PICK quiet \in SUBSET (Schedule!In("array") \ requested) :
        LET after == [o \in Ops |-> IF o \in requested THEN "std"
                                   ELSE IF o \in quiet THEN "lowered" ELSE op[o]]
            brought == IF requested # {} THEN Kinds
                       ELSE IF quiet # {} THEN Kinds \cap {"tuple"} ELSE {}
        IN  /\ Schedule!Bring(brought, after)
            /\ markers' = IF requested # {} \/ \E o \in Ops : op'[o] \in {"tuple", "view"}
                          THEN markers \cup {plierToStd} ELSE markers
  BY <1>1
<1> DEFINE after == [o \in Ops |-> IF o \in requested THEN "std"
                                  ELSE IF o \in quiet THEN "lowered" ELSE op[o]]
           brought == IF requested # {} THEN Kinds
                      ELSE IF quiet # {} THEN Kinds \cap {"tuple"} ELSE {}
<1>3. /\ Schedule!Bring(brought, after)
      /\ markers' = IF requested # {} \/ \E o \in Ops : op'[o] \in {"tuple", "view"}
                    THEN markers \cup {plierToStd} ELSE markers
  BY <1>2
<1>4. after \in [Ops -> Schedule!OpStates] /\ brought \subseteq Schedule!OpStates
  BY KindsAssumption DEF Schedule!OpStates, Schedule!Present
<1>5. requested = {} => /\ brought \subseteq {"tuple"}
                        /\ \A o \in Ops : after[o] = op[o] \/ after[o] = "lowered"
  OBVIOUS
<1> HIDE DEF after, brought
<1>6. /\ op' \in [Ops -> Schedule!OpStates]
      /\ \A o \in Ops : op[o] # "absent" => op'[o] = after[o]
      /\ \A o \in Ops : op[o] = "absent" => op'[o] \in brought \cup {"absent"}
  BY <1>3, <1>4, Brought
<1>7. ASSUME UNCHANGED markers, markers' # markers \cup {plierToStd},
             NEW o \in Ops, op'[o] \in {"std", "branch", "tuple"}
      PROVE  op'[o] = op[o]
  <2>1. requested = {} /\ op'[o] # "tuple"
    BY <1>3, <1>7
  <2> QED BY <1>5, <1>6, <1>7, <2>1
<1> QED BY <1>3, <1>6, <1>7

\* One pipeline of the stage, or the end of the stage.
LEMMA ModuleKeeps ==
  ScheduleInv /\ Scheduled(stages) /\ RunModule => ScheduleInv'
<1> SUFFICES ASSUME ScheduleInv, Scheduled(stages), RunModule
             PROVE  ScheduleInv'
  OBVIOUS
<1>1. Schedule!TypeOK /\ outcome # "new" /\ UNCHANGED vars /\ Schedule!Next
  BY DEF ScheduleInv, ScheduleTypeOK, RunModule
<1>2. UNCHANGED <<phase, known, stages>>
  BY <1>1 DEF vars
<1>3. /\ stages \in Seq(Stages) /\ DOMAIN stages = 1 .. Len(stages) /\ Len(stages) \in Nat
      /\ stage \in 1 .. Len(stages)
      /\ \A k \in DOMAIN stages :
           /\ stages[k][3] \in Seq(Pipelines) /\ Len(stages[k][3]) \in Nat \ {0}
           /\ DOMAIN stages[k][3] = 1 .. Len(stages[k][3])
           /\ stages[k][2] \in SUBSET Pipelines
  BY <1>1, StageTyped
<1>4. /\ outcome \in {"running", "ok", "failed"}
      /\ step \in 0 .. Len(stages[stage][3])
      /\ op \in [Ops -> Schedule!OpStates]
      /\ markers \subseteq {plierToStd}
  BY <1>1 DEF Schedule!TypeOK, Schedule!Funcs, ScheduleInv
<1>5. SUFFICES /\ outcome' \in {"running", "ok", "failed"}
               /\ stage' \in DOMAIN stages
               /\ step' \in 0 .. Len(stages[stage'][3])
               /\ op' \in [Ops -> Schedule!OpStates]
               /\ markers' \subseteq {plierToStd}
               /\ markers' # {} => step' = Len(stages[stage'][3]) /\ plierToStd \in stages[stage'][2]
  BY <1>1, <1>2 DEF ScheduleInv, ScheduleTypeOK, Schedule!TypeOK, Schedule!Funcs, Schedule!Names
<1>6. CASE Schedule!RunStd
  <2>1. /\ step < Len(stages[stage][3]) /\ step' = step + 1
        /\ UNCHANGED <<outcome, stage, markers>>
    BY <1>6 DEF Schedule!RunStd, Schedule!AtPipeline, Schedule!Ran, Schedule!Funcs
  <2>2. op' \in [Ops -> Schedule!OpStates]
    BY <1>4, <1>6, StdStep
  <2> QED BY <1>3, <1>4, <2>1, <2>2 DEF ScheduleInv
<1>7. CASE Schedule!RunGen
  <2>1. /\ step < Len(stages[stage][3]) /\ step' = step + 1
        /\ stages[stage][3][step + 1] = linalgGen
        /\ UNCHANGED <<outcome, stage>>
    BY <1>7 DEF Schedule!RunGen, Schedule!AtPipeline, Schedule!Ran, Schedule!Funcs
  <2>2. step + 1 = Len(stages[stage][3]) /\ plierToStd \in stages[stage][2]
    BY <1>3, <1>4, <2>1 DEF Scheduled
  <2>3. op' \in [Ops -> Schedule!OpStates] /\ markers' \subseteq {plierToStd}
    BY <1>4, <1>7, GenStep
  <2> QED BY <1>3, <1>4, <2>1, <2>2, <2>3
<1>8. CASE Schedule!RunOther
  <2>1. /\ step < Len(stages[stage][3]) /\ step' = step + 1
        /\ UNCHANGED <<outcome, stage, markers, op>>
    BY <1>8 DEF Schedule!RunOther, Schedule!Ran, Schedule!Funcs
  <2> QED BY <1>3, <1>4, <2>1 DEF ScheduleInv
<1>9. CASE Schedule!NextStage
  <2>1. markers = {}
    BY <1>4, <1>9 DEF Schedule!NextStage, Schedule!Marked, ScheduleInv
  <2>2. /\ UNCHANGED <<markers, op>>
        /\ \/ outcome' = "ok" /\ UNCHANGED <<stage, step>>
           \/ stage # Len(stages) /\ stage' = stage + 1 /\ step' = 0 /\ UNCHANGED outcome
    BY <1>9 DEF Schedule!NextStage
  <2>3. CASE outcome' = "ok" /\ UNCHANGED <<stage, step>>
    <3>1. op' = op /\ markers' = {} /\ stage' = stage /\ step' = step
      BY <2>1, <2>2, <2>3
    <3> QED BY <1>3, <1>4, <2>3, <3>1
  <2>4. CASE stage # Len(stages) /\ stage' = stage + 1 /\ step' = 0 /\ UNCHANGED outcome
    <3>1. op' = op /\ markers' = {} /\ stage' \in DOMAIN stages /\ step' = 0 /\ outcome' = outcome
      BY <1>3, <2>1, <2>2, <2>4
    <3> QED BY <1>3, <1>4, <3>1
  <2> QED BY <2>2, <2>3, <2>4
<1>10. CASE Schedule!Jump
  <2>1. PICK name \in Schedule!Marked : markers' = markers \ {name} /\ stage' = Schedule!Target(name)
    BY <1>10 DEF Schedule!Jump
  <2>2. name = plierToStd /\ markers' = {}
    BY <1>4, <2>1 DEF Schedule!Marked
  <2>3. step' = 0 /\ UNCHANGED <<outcome, op>>
    BY <1>10 DEF Schedule!Jump
  <2>4. stage' \in DOMAIN stages
    BY <2>1, <2>2, TargetFound
  <2> QED BY <1>3, <1>4, <2>2, <2>3, <2>4
<1>11. CASE Schedule!PassFails
  BY <1>3, <1>4, <1>11 DEF Schedule!PassFails, ScheduleInv
<1>12. CASE Schedule!Ended
  BY <1>3, <1>4, <1>12 DEF Schedule!Ended, Schedule!vars, ScheduleInv
<1> QED BY <1>1, <1>6, <1>7, <1>8, <1>9, <1>10, <1>11, <1>12 DEF Schedule!Next, Schedule!Step

\* Only plier_to_linalg_gen makes operations for plier_to_std, and it asks for it.
LEMMA AwaitedKept ==
  ScheduleInv /\ Scheduled(stages) /\ StdAwaited /\ "branch" \notin StdCallees /\ RunModule
    => StdAwaited'
<1> SUFFICES ASSUME ScheduleInv, Scheduled(stages), StdAwaited, "branch" \notin StdCallees, RunModule
             PROVE  StdAwaited'
  OBVIOUS
<1>1. Schedule!TypeOK /\ outcome # "new" /\ UNCHANGED vars /\ Schedule!Next
  BY DEF ScheduleInv, ScheduleTypeOK, RunModule
<1>2. stages' = stages /\ op \in [Ops -> Schedule!OpStates]
  BY <1>1 DEF vars, Schedule!TypeOK
<1>3. /\ DOMAIN stages = 1 .. Len(stages) /\ Len(stages) \in Nat
      /\ stage \in 1 .. Len(stages)
      /\ \A k \in DOMAIN stages : Len(stages[k][3]) \in Nat \ {0}
  BY <1>1, StageTyped
<1>4. Unstructured = {} \/ markers # {} \/ StdAhead
  BY <1>1 DEF StdAwaited
<1>5. step \in 0 .. Len(stages[stage][3]) /\ markers \subseteq {plierToStd}
  BY <1>1 DEF Schedule!TypeOK, Schedule!Funcs, ScheduleInv
\* A pipeline that is not plier_to_std leaves what is ahead ahead.
<1>6. ASSUME step < Len(stages[stage][3]), stages[stage][3][step + 1] # plierToStd,
             UNCHANGED <<stage, markers>>, Unstructured' \subseteq Unstructured
      PROVE  StdAwaited'
  <2>1. markers = {}
    BY <1>3, <1>5, <1>6 DEF ScheduleInv
  <2>2. ASSUME StdAhead PROVE StdAhead'
    <3>1. PICK m \in DOMAIN stages :
            stages[m][1] = <<plierToStd>> /\ (stage < m \/ (stage = m /\ step = 0))
      BY <2>2 DEF StdAhead
    <3>2. stages[m][3][1] = plierToStd
      BY <3>1 DEF Scheduled
    <3>3. stage < m
      BY <1>6, <3>1, <3>2
    <3> QED BY <1>2, <1>6, <3>1, <3>3 DEF StdAhead
  <2> QED BY <1>4, <1>6, <2>1, <2>2 DEF StdAwaited
<1>7. CASE Schedule!RunStd
  <2>1. \A o \in Ops : op'[o] \notin {"std", "branch", "tuple"}
    BY <1>2, <1>7, StdStep
  <2>2. Unstructured' = {}
    BY <2>1 DEF Unstructured, Schedule!In
  <2> QED BY <2>2 DEF StdAwaited
<1>8. CASE Schedule!RunGen
  <2>1. /\ step < Len(stages[stage][3]) /\ stages[stage][3][step + 1] # plierToStd
        /\ UNCHANGED stage
    BY <1>8, PipelinesDiffer DEF Schedule!RunGen, Schedule!AtPipeline, Schedule!Funcs
  <2>2. CASE markers' = markers \cup {plierToStd}
    BY <2>2 DEF StdAwaited
  <2>3. CASE UNCHANGED markers /\ \A o \in Ops :
               op'[o] \in {"std", "branch", "tuple"} => op'[o] = op[o]
    <3>1. Unstructured' \subseteq Unstructured
      BY <2>3 DEF Unstructured, Schedule!In
    <3> QED BY <1>6, <2>1, <2>3, <3>1
  <2> QED BY <1>2, <1>8, <2>2, <2>3, GenStep
<1>9. CASE Schedule!RunOther
  BY <1>6, <1>9 DEF Schedule!RunOther, Schedule!Funcs, Unstructured, Schedule!In
<1>10. CASE Schedule!NextStage
  <2>1. markers = {}
    BY <1>5, <1>10 DEF Schedule!NextStage, Schedule!Marked, ScheduleInv
  <2>2. /\ UNCHANGED <<markers, op>> /\ step = Len(stages[stage][3])
        /\ \/ UNCHANGED <<stage, step>>
           \/ stage' = stage + 1 /\ step' = 0
    BY <1>10 DEF Schedule!NextStage, Schedule!Funcs
  <2>3. ASSUME StdAhead PROVE StdAhead'
    <3>1. PICK m \in DOMAIN stages :
            stages[m][1] = <<plierToStd>> /\ (stage < m \/ (stage = m /\ step = 0))
      BY <2>3 DEF StdAhead
    <3>2. stage < m
      BY <1>3, <2>2, <3>1
    <3>3. stage' < m \/ (stage' = m /\ step' = 0)
      BY <1>3, <2>2, <3>2
    <3> QED BY <1>2, <3>1, <3>3 DEF StdAhead
  <2>4. Unstructured' = Unstructured
    BY <2>2 DEF Unstructured, Schedule!In
  <2> QED BY <1>4, <2>1, <2>3, <2>4 DEF StdAwaited
<1>11. CASE Schedule!Jump
  <2>1. PICK name \in Schedule!Marked : stage' = Schedule!Target(name)
    BY <1>11 DEF Schedule!Jump
  <2>2. name = plierToStd /\ step' = 0
    BY <1>5, <1>11, <2>1 DEF Schedule!Marked, Schedule!Jump
  <2>3. StdAhead'
    BY <1>2, <2>1, <2>2, TargetFound DEF StdAhead
  <2> QED BY <2>3 DEF StdAwaited
<1>12. CASE Schedule!PassFails \/ Schedule!Ended
  <2>1. UNCHANGED <<stages, stage, step, markers, op>>
    BY <1>12 DEF Schedule!PassFails, Schedule!Ended, Schedule!vars
  <2>2. Unstructured' = Unstructured /\ StdAhead' = StdAhead
    BY <2>1 DEF Unstructured, Schedule!In, StdAhead
  <2> QED BY <1>4, <2>1, <2>2 DEF StdAwaited
<1> QED BY <1>1, <1>7, <1>8, <1>9, <1>10, <1>11, <1>12 DEF Schedule!Next, Schedule!Step

(***************************************************************************)
(* The composition.                                                        *)
(***************************************************************************)

ContextInv == RegistryInv /\ StagesInv /\ GenJumps /\ ScheduleInv

LEMMA InitContext == ContextInit => ContextInv /\ StdAwaited
<1> SUFFICES ASSUME ContextInit PROVE ContextInv /\ StdAwaited
  OBVIOUS
<1>1. RegistryInv
  BY InitRegistry DEF ContextInit
<1>2. StagesInv
  BY EmptySeq DEF ContextInit, Init, StagesInv, StagesTyped, StagesServeJumps, AssertedFor
<1>3. GenJumps
  BY JumpsAssumption DEF ContextInit, Init, GenJumps, NoPipelines
<1> QED BY <1>1, <1>2, <1>3
    DEF ContextInit, ContextInv, ScheduleInv, ScheduleTypeOK, StdAwaited

\* The stages are complete before a module enters them, and do not change then.
LEMMA ContextKeeps ==
  ContextInv /\ [ContextNext]_contextVars
    => /\ ContextInv'
       /\ StdAwaited /\ "branch" \notin StdCallees => StdAwaited'
<1> SUFFICES ASSUME ContextInv, [ContextNext]_contextVars
             PROVE  /\ ContextInv'
                    /\ StdAwaited /\ "branch" \notin StdCallees => StdAwaited'
  OBVIOUS
<1>1. RegistryInv /\ StagesInv /\ GenJumps /\ ScheduleInv
  BY DEF ContextInv
<1>2. [Next]_vars
  BY DEF ContextNext, Populate, StartRun, RunModule, contextVars
<1>3. RegistryInv' /\ StagesInv' /\ GenJumps'
  BY <1>1, <1>2, RegistryNext, StagesNext, GenJumpsNext
<1>4. ASSUME outcome # "new" \/ StartRun PROVE Scheduled(stages)
  BY <1>1, <1>4, StagesScheduled DEF ScheduleInv, StartRun
<1>5. CASE RunModule
  <2>1. Scheduled(stages)
    BY <1>4, <1>5 DEF RunModule
  <2> QED BY <1>1, <1>3, <1>5, <2>1, ModuleKeeps, AwaitedKept DEF ContextInv
<1>6. CASE StartRun
  <2>1. /\ outcome = "new" /\ phase = "done" /\ known = Pipelines
        /\ outcome' = "running"
        /\ op' \in [Ops -> Kinds \cup {"absent"}]
        /\ UNCHANGED <<phase, known, stages, stage, step, markers>>
    BY <1>6 DEF StartRun, vars
  <2>2. stage = 1 /\ step = 0 /\ markers = {}
    BY <1>1, <2>1 DEF ScheduleInv
  <2>3. Scheduled(stages)
    BY <1>4, <1>6
  <2>4. stages \in Seq(Stages) /\ stages # << >>
    BY <2>3 DEF Scheduled
  <2>5. DOMAIN stages = 1 .. Len(stages) /\ Len(stages) \in Nat \ {0}
    BY <2>4, LenProperties, EmptySeq
  <2>6. op' \in [Ops -> Schedule!OpStates]
    BY <2>1, KindsAssumption DEF Schedule!OpStates
  <2>7. Len(stages[1][3]) \in Nat
    <3>1. stages[1] \in Stages
      BY <2>4, <2>5, ElementOfSeq
    <3> QED BY <3>1, LenProperties DEF Stages
  <2>8. ScheduleInv'
    BY <2>1, <2>2, <2>5, <2>6, <2>7
    DEF ScheduleInv, ScheduleTypeOK, Schedule!TypeOK, Schedule!Funcs, Schedule!Names
  <2>9. StdAwaited'
    <3>1. PICK m \in DOMAIN stages : stages[m][1] = <<plierToStd>>
      BY <2>3 DEF Scheduled
    <3>2. stage' = 1 /\ step' = 0 /\ stages' = stages
      BY <2>1, <2>2
    <3>3. stage' < m \/ stage' = m
      BY <2>5, <3>2
    <3> QED BY <3>1, <3>2, <3>3 DEF StdAwaited, StdAhead
  <2> QED BY <1>3, <2>8, <2>9 DEF ContextInv
<1>7. CASE Populate \/ UNCHANGED contextVars
  <2>1. UNCHANGED <<outcome, stage, step, markers, op>>
    BY <1>7 DEF Populate, contextVars, run
  <2>2. CASE outcome = "new"
    BY <1>1, <1>3, <2>1, <2>2 DEF ContextInv, ScheduleInv, ScheduleTypeOK, StdAwaited
  <2>3. CASE outcome # "new"
    <3>1. phase = "done"
      BY <1>1, <2>3 DEF ScheduleInv
    <3>2. UNCHANGED <<phase, known, stages>>
      BY <1>7, <3>1
      DEF Populate, Next, Register, LinkDeps, VisitRoot, VisitPrev, Leave, Cut, Finished, vars,
          contextVars
    <3>3. ScheduleInv'
      BY <1>1, <2>1, <3>2
      DEF ScheduleInv, ScheduleTypeOK, Schedule!TypeOK, Schedule!Funcs, Schedule!Names
    <3>4. StdAwaited => StdAwaited'
      BY <2>1, <3>2 DEF StdAwaited, StdAhead, Unstructured, Schedule!In
    <3> QED BY <1>3, <3>3, <3>4 DEF ContextInv
  <2> QED BY <2>2, <2>3
<1> QED BY <1>5, <1>6, <1>7 DEF ContextNext

LEMMA ContextInvariant == ContextSpec => []ContextInv
BY InitContext, ContextKeeps, PTL DEF ContextSpec

\* The registry and the schedule are well typed in every state: a jump finds its
\* stage and only pipelines that a stage can jump to are marked.
THEOREM ContextTypeCorrect == ContextSpec => []ContextTypeOK
<1>1. ContextInv => ContextTypeOK
  BY DEF ContextInv, RegistryInv, SortTypeOK, StagesInv, StagesTyped, Stages, ScheduleInv,
         ContextTypeOK, TypeOK
<1> QED BY <1>1, ContextInvariant, PTL

\* plier_to_linalg_gen's request for plier_to_std is always served: no module gets
\* past the stage that can jump with the marker on it.
THEOREM RequestsServed == ContextSpec => []MarkersServed
<1>1. ContextInv => MarkersServed
  <2> SUFFICES ASSUME ContextInv, PastJumps, markers # {} PROVE FALSE
    BY DEF MarkersServed
  <2>1. outcome # "new"
    BY DEF PastJumps
  <2>2. Scheduled(stages) /\ Schedule!TypeOK
    BY <2>1, StagesScheduled DEF ContextInv, ScheduleInv, ScheduleTypeOK
  <2>3. stage \in DOMAIN stages /\ DOMAIN stages = 1 .. Len(stages)
    BY <2>2, StageTyped
  <2>4. PICK k \in DOMAIN stages : plierToStd \in stages[k][2] /\ stage > k
    BY DEF PastJumps
  <2>5. stage = k
    BY <2>2, <2>3, <2>4 DEF ContextInv, ScheduleInv, Scheduled
  <2> QED BY <2>3, <2>4, <2>5
<1> QED BY <1>1, ContextInvariant, PTL

\* Unless a call brings in unstructured control flow, no later stage meets an
\* operation that plier_to_std would have lowered, however many operations
\* plier_to_linalg_gen makes of one, however often it changes the elements of a tuple
\* and however many functions calls bring in.
THEOREM StdComplete == "branch" \notin StdCallees => (ContextSpec => []NothingLeftForStd)
<1> SUFFICES ASSUME "branch" \notin StdCallees
             PROVE  ContextSpec => []NothingLeftForStd
  OBVIOUS
<1>1. ContextInv /\ StdAwaited => NothingLeftForStd
  <2> SUFFICES ASSUME ContextInv, StdAwaited, PastJumps PROVE Unstructured = {}
    BY DEF NothingLeftForStd, Unstructured
  <2>1. outcome # "new"
    BY DEF PastJumps
  <2>2. Scheduled(stages) /\ Schedule!TypeOK
    BY <2>1, StagesScheduled DEF ContextInv, ScheduleInv, ScheduleTypeOK
  <2>3. stage \in DOMAIN stages /\ DOMAIN stages = 1 .. Len(stages)
    BY <2>2, StageTyped
  <2>4. PICK k \in DOMAIN stages : plierToStd \in stages[k][2] /\ stage > k
    BY DEF PastJumps
  <2>5. markers = {}
    BY <2>2, <2>3, <2>4 DEF ContextInv, ScheduleInv, Scheduled
  <2>6. ~StdAhead
    BY <2>2, <2>3, <2>4 DEF StdAhead, Scheduled
  <2> QED BY <2>1, <2>5, <2>6 DEF StdAwaited
<1>2. ContextInit => StdAwaited
  BY InitContext
<1>3. ContextInv /\ StdAwaited /\ [ContextNext]_contextVars => StdAwaited'
  BY ContextKeeps
<1>4. ContextSpec => []StdAwaited
  BY <1>2, <1>3, ContextInvariant, PTL DEF ContextSpec
<1> QED BY <1>1, <1>4, ContextInvariant, PTL

(***************************************************************************)
(* The compiler's own ten pipelines, registered in any order.              *)
(***************************************************************************)

\* What the calls handled so far have declared.
Declared ==
  /\ \A c \in SinkCalls : c.name \in known =>
       prev[c.name] = c.prev /\ next[c.name] = c.next /\ jumps[c.name] = c.jumps
  /\ \A n \in Pipelines : n \notin known => prev[n] = {} /\ next[n] = {}

\* The dependencies that decide the order.
CompilerDeps ==
  /\ init \in prev[plierToStd] /\ plierToStd \in prev[linalgGen]
  /\ linalgGen \in prev[linalgOpt] /\ untuple \in prev[linalgOpt]
  /\ linalgOpt \in prev[removeSign] /\ linalgOpt \in prev[lowering]
  /\ removeSign \in prev[lowering] /\ lowering \in prev[parallelToTBB]
  /\ parallelToTBB \in prev[lowerToLLVM] /\ lowerToLLVM \in prev[terminate]
  /\ \A n \in Pipelines : untuple \in prev[n] => n \in {linalgOpt, removeSign, lowering}
  /\ \A n \in 1 .. 10 : jumps[n] = IF n = linalgGen THEN {plierToStd} ELSE {}

\* untuple and plier_to_linalg_gen do not depend on each other, but the sort has
\* always met the latter first.
GenFirst ==
  /\ untuple \in visited => linalgGen \in Members(order)
  /\ \A i \in DOMAIN order : order[i] = untuple => \E j \in 1 .. i - 1 : order[j] = linalgGen

FromCompiler ==
  /\ Sorting => calls = << >>
  /\ ordered \cup Mentions(calls) = 1 .. 10 =>
       /\ Members(calls) \subseteq SinkCalls
       /\ phase = "register" => Declared
       /\ Sorting => CompilerDeps /\ GenFirst

\* The ten calls.
LEMMA TheCalls ==
  SinkCalls =
    { Sink(init, {}, {}, {}), Sink(lowering, {init}, {}, {}), Sink(terminate, {lowering}, {}, {}),
      Sink(lowerToLLVM, {lowering}, {terminate}, {}),
      Sink(plierToStd, {init}, {lowering}, {}),
      Sink(linalgGen, {plierToStd}, {linalgOpt}, {plierToStd}),
      Sink(linalgOpt, {linalgGen, untuple}, {removeSign, lowering}, {}),
      Sink(untuple, {init}, {lowering}, {}), Sink(removeSign, {untuple, init}, {lowering}, {}),
      Sink(parallelToTBB, {lowering}, {lowerToLLVM}, {}) }
<1>1. \A a, b, c : Members(<<a>>) = {a} /\ Members(<<a, b>>) = {a, b} /\ Members(<<a, b, c>>) = {a, b, c}
  BY DEF Members
<1> DEFINE M(k) == Members(create_pipeline[k])
<1>2. DOMAIN create_pipeline = 1 .. 6
  BY DEF create_pipeline
<1>3. SinkCalls = M(1) \cup M(2) \cup M(3) \cup M(4) \cup M(5) \cup M(6)
  <2> HIDE DEF M
  <2>1. SinkCalls = UNION {M(k) : k \in 1 .. 6}
    BY <1>2 DEF SinkCalls, M
  <2> QED BY <2>1
<1>4. /\ create_pipeline[1] = registerBasePipeline
      /\ create_pipeline[2] = registerLowerToLLVMPipeline
      /\ create_pipeline[3] = registerPlierToStdPipeline
      /\ create_pipeline[4] = registerPlierToLinalgPipeline
      /\ create_pipeline[5] = registerPreLowSimpleficationsPipeline
      /\ create_pipeline[6] = registerParallelToTBBPipeline
  BY DEF create_pipeline
<1>5. M(1) = {Sink(init, {}, {}, {}), Sink(lowering, {init}, {}, {}),
              Sink(terminate, {lowering}, {}, {})}
  <2> DEFINE a == Sink(init, {}, {}, {})
             b == Sink(lowering, {init}, {}, {})
             c == Sink(terminate, {lowering}, {}, {})
  <2>1. M(1) = Members(<<a, b, c>>)
    BY <1>4 DEF registerBasePipeline
  <2> HIDE DEF a, b, c
  <2>2. Members(<<a, b, c>>) = {a, b, c}
    BY <1>1
  <2> QED BY <2>1, <2>2 DEF a, b, c
<1>6. M(2) = {Sink(lowerToLLVM, {lowering}, {terminate}, {})}
  BY <1>1, <1>4, Zenon DEF registerLowerToLLVMPipeline
<1>7. M(3) = {Sink(plierToStd, {init}, {lowering}, {})}
  BY <1>1, <1>4, Zenon DEF registerPlierToStdPipeline
<1>8. M(4) = {Sink(linalgGen, {plierToStd}, {linalgOpt}, {plierToStd}),
              Sink(linalgOpt, {linalgGen, untuple}, {removeSign, lowering}, {})}
  BY <1>1, <1>4, Zenon DEF registerPlierToLinalgPipeline
<1>9. M(5) = {Sink(untuple, {init}, {lowering}, {}),
              Sink(removeSign, {untuple, init}, {lowering}, {})}
  BY <1>1, <1>4, Zenon DEF registerPreLowSimpleficationsPipeline
<1>10. M(6) = {Sink(parallelToTBB, {lowering}, {lowerToLLVM}, {})}
  BY <1>1, <1>4, Zenon DEF registerParallelToTBBPipeline
<1> HIDE DEF M
<1> QED BY <1>3, <1>5, <1>6, <1>7, <1>8, <1>9, <1>10

\* No two calls are for the same pipeline, and every pipeline has one.
LEMMA CallsByName ==
  /\ \A c, d \in SinkCalls : c.name = d.name => c = d
  /\ \A c \in SinkCalls : c.name \in 1 .. 10
  /\ \A n \in 1 .. 10 : \E c \in SinkCalls : c.name = n
<1>1. \A n, b, a, j : Sink(n, b, a, j).name = n
  BY DEF Sink
<1> USE TheCalls, <1>1
    DEF init, lowering, terminate, lowerToLLVM, plierToStd, linalgGen, linalgOpt, untuple,
        removeSign, parallelToTBB
<1>2. ASSUME NEW c \in SinkCalls, NEW d \in SinkCalls, c.name = d.name PROVE c = d
  BY <1>2
<1>3. \A c \in SinkCalls : c.name \in 1 .. 10
  OBVIOUS
<1>4. ASSUME NEW n \in 1 .. 10 PROVE \E c \in SinkCalls : c.name = n
  OBVIOUS
<1> QED BY <1>2, <1>3, <1>4

\* Handling a call moves its names from the calls to the order.
LEMMA MentionsHead ==
  ASSUME NEW S, NEW s \in Seq(S), s # << >>
  PROVE  /\ Members(Tail(s)) \subseteq Members(s)
         /\ Head(s) \in Members(s)
         /\ Mentions(s) = ({Head(s).name} \cup Head(s).prev \cup Head(s).next) \cup Mentions(Tail(s))
<1> DEFINE t == Tail(s)
<1>1. /\ Len(s) \in Nat \ {0} /\ DOMAIN s = 1 .. Len(s) /\ Head(s) = s[1]
      /\ t \in Seq(S) /\ Len(t) = Len(s) - 1
      /\ \A i \in 1 .. Len(t) : t[i] = s[i + 1]
  BY HeadTailProperties, LenProperties, EmptySeq
<1>2. DOMAIN t = 1 .. Len(s) - 1
  BY <1>1, LenProperties
<1> HIDE DEF t
<1>3. Members(t) \subseteq Members(s) /\ Head(s) \in Members(s)
  <2>1. s[1] \in Members(s)
    BY <1>1 DEF Members
  <2>2. ASSUME NEW i \in 1 .. Len(s) - 1 PROVE t[i] \in Members(s)
    <3>1. i + 1 \in DOMAIN s /\ t[i] = s[i + 1]
      BY <1>1
    <3> QED BY <3>1 DEF Members
  <2> QED BY <1>1, <1>2, <2>1, <2>2 DEF Members
<1>4. \A c \in Members(s) : c = Head(s) \/ c \in Members(t)
  <2> SUFFICES ASSUME NEW i \in 1 .. Len(s), i # 1 PROVE s[i] \in Members(t)
    BY <1>1 DEF Members
  <2>1. i - 1 \in 1 .. Len(s) - 1 /\ s[i] = t[i - 1]
    BY <1>1
  <2> QED BY <1>2, <2>1 DEF Members
<1>5. Members(s) = {Head(s)} \cup Members(t)
  BY <1>3, <1>4
<1> DEFINE Of(c) == {c.name} \cup c.prev \cup c.next
<1>6. /\ Mentions(s) = UNION {Of(c) : c \in Members(s)}
      /\ Mentions(t) = UNION {Of(c) : c \in Members(t)}
  BY DEF Mentions
<1> HIDE DEF Of
<1>7. Mentions(s) = Of(Head(s)) \cup Mentions(t)
  BY <1>5, <1>6
<1> QED BY <1>3, <1>7 DEF t, Of

LEMMA OneToTen ==
  \A n \in 1 .. 10 : n = 1 \/ n = 2 \/ n = 3 \/ n = 4 \/ n = 5 \/ n = 6 \/ n = 7 \/ n = 8 \/ n = 9 \/ n = 10
OBVIOUS

\* A call is handled with what it declares.
LEMMA DeclaredNext ==
  ASSUME SortTypeOK, Register, calls # << >>, Members(calls) \subseteq SinkCalls, Declared,
         Head(calls).name \notin known
  PROVE  Declared'
<1> DEFINE call == Head(calls)
<1>1. /\ known' = known \cup {call.name}
      /\ prev' = [prev EXCEPT ![call.name] = call.prev]
      /\ next' = [next EXCEPT ![call.name] = call.next]
      /\ jumps' = [jumps EXCEPT ![call.name] = call.jumps]
  BY DEF Register
<1>2. call \in SinkCalls /\ call \in Declarations
  BY MentionsHead, HeadTailProperties DEF SortTypeOK
<1>3. call.name \in Pipelines
  BY <1>2 DEF Declarations
<1> HIDE DEF call
<1>4. ASSUME NEW c \in SinkCalls, c.name \in known'
      PROVE  prev'[c.name] = c.prev /\ next'[c.name] = c.next /\ jumps'[c.name] = c.jumps
  <2>1. CASE c.name = call.name
    <3>1. c = call
      BY <1>2, <2>1, CallsByName
    <3> QED BY <1>1, <1>3, <3>1 DEF SortTypeOK
  <2>2. CASE c.name # call.name
    <3>1. c.name \in known /\ c.name \in Pipelines
      BY <1>1, <1>4, <2>2 DEF SortTypeOK
    <3> QED BY <1>1, <1>3, <2>2, <3>1 DEF SortTypeOK, Declared
  <2> QED BY <2>1, <2>2
<1>5. \A n \in Pipelines : n \notin known' => prev'[n] = {} /\ next'[n] = {}
  BY <1>1, <1>3 DEF SortTypeOK, Declared
<1> QED BY <1>4, <1>5 DEF Declared

\* Once the dependencies are bidirectional they are those that decide the order.
LEMMA DepsLinked ==
  ASSUME SortTypeOK, Declared, 1 .. 10 \subseteq known,
         known \subseteq 1 .. 10,
         prev' = [n \in Pipelines |-> prev[n] \cup {m \in Pipelines : n \in next[m]}],
         jumps' = jumps
  PROVE  CompilerDeps'
<1> USE DEF init, lowering, terminate, lowerToLLVM, plierToStd, linalgGen, linalgOpt, untuple,
        removeSign, parallelToTBB
<1>1. 1 .. 10 \subseteq Pipelines
  BY DEF SortTypeOK
<1>2. \A n, b, a, j : LET c == Sink(n, b, a, j) IN
         c.name = n /\ c.prev = b /\ c.next = a /\ c.jumps = j
  BY DEF Sink
<1> DEFINE Is(n, b, a, j) == prev[n] = b /\ next[n] = a /\ jumps[n] = j
<1>3. ASSUME NEW n \in 1 .. 10, NEW b, NEW a, NEW j, Sink(n, b, a, j) \in SinkCalls
      PROVE  Is(n, b, a, j)
  BY <1>2, <1>3 DEF Declared
<1>4. /\ Is(1, {}, {}, {}) /\ Is(3, {1}, {}, {}) /\ Is(10, {3}, {}, {})
      /\ Is(2, {3}, {10}, {}) /\ Is(7, {1}, {3}, {}) /\ Is(5, {7}, {6}, {7})
      /\ Is(6, {5, 9}, {8, 3}, {}) /\ Is(9, {1}, {3}, {}) /\ Is(8, {9, 1}, {3}, {})
      /\ Is(4, {3}, {2}, {})
  <2> HIDE DEF Is
  <2> QED BY <1>3, TheCalls
<1>5. \A n \in Pipelines : prev'[n] = prev[n] \cup {m \in Pipelines : n \in next[m]}
  OBVIOUS
<1>6. /\ init \in prev'[plierToStd] /\ plierToStd \in prev'[linalgGen]
      /\ linalgGen \in prev'[linalgOpt] /\ untuple \in prev'[linalgOpt]
      /\ linalgOpt \in prev'[removeSign] /\ linalgOpt \in prev'[lowering]
      /\ removeSign \in prev'[lowering] /\ lowering \in prev'[parallelToTBB]
      /\ parallelToTBB \in prev'[lowerToLLVM] /\ lowerToLLVM \in prev'[terminate]
  BY <1>1, <1>4, <1>5
<1>7. ASSUME NEW n \in Pipelines, untuple \in prev'[n]
      PROVE  n \in {linalgOpt, removeSign, lowering}
  <2>1. CASE untuple \in prev[n]
    <3>1. n \in 1 .. 10
      <4>1. n \in known
        BY <2>1 DEF Declared
      <4> QED BY <4>1
    <3> QED BY <1>4, <2>1, <3>1, OneToTen
  <2>2. CASE n \in next[9]
    BY <1>4, <2>2
  <2> QED BY <1>5, <1>7, <2>1, <2>2
<1>8. \A n \in 1 .. 10 : jumps'[n] = IF n = linalgGen THEN {plierToStd} ELSE {}
  BY <1>4, OneToTen
<1> QED BY <1>6, <1>7, <1>8 DEF CompilerDeps

\* What is in the order has its predecessors in the order.
LEMMA OrderClosed ==
  ASSUME RegistryInv, Sorting, NEW n \in Members(order), NEW p \in prev[n]
  PROVE  p \in Members(order)
<1>1. PICK i \in DOMAIN order : order[i] = n
  BY DEF Members
<1>2. DOMAIN order = 1 .. Len(order) /\ Len(order) \in Nat
  BY LenProperties DEF RegistryInv, SortTypeOK
<1>3. PICK j \in 1 .. i - 1 : order[j] = p
  BY <1>1 DEF RegistryInv, Sorted
<1>4. j \in DOMAIN order
  BY <1>2, <1>3
<1> QED BY <1>3, <1>4 DEF Members

\* The sort reaches untuple as a root only after lower_to_llvm, which is behind
\* everything, and as a predecessor only of pipelines that have a smaller one
\* behind plier_to_linalg_gen.
LEMMA GenStaysFirst ==
  ASSUME RegistryInv, CompilerDeps, GenFirst, phase = "sort", ordered = 1 .. 10,
         VisitRoot \/ VisitPrev
  PROVE  GenFirst'
<1>1. Sorting /\ UNCHANGED <<order, prev>>
  BY DEF VisitRoot, VisitPrev, deps, Sorting
<1>2. 1 .. 10 \subseteq Pipelines
  BY DEF RegistryInv, SortTypeOK
<1>3. linalgOpt \in Members(order) => linalgGen \in Members(order)
  BY <1>1, OrderClosed DEF CompilerDeps
<1>4. CASE VisitRoot
  <2>1. PICK n \in roots : (\A m \in roots : n <= m) /\ visited' = visited \cup {n}
    <3>1. \E n \in roots : \A m \in roots : n <= m
      BY <1>4, NamesAssumption, LeastExists DEF VisitRoot, RegistryInv, SortTypeOK
    <3> QED BY <1>4, <3>1 DEF VisitRoot, Least
  <2>2. CASE n # untuple
    BY <1>1, <2>1, <2>2 DEF GenFirst, Members
  <2>3. CASE n = untuple
    <3>1. lowerToLLVM \notin roots
      BY <2>1, <2>3 DEF lowerToLLVM, untuple
    <3>2. lowerToLLVM \in visited
      BY <1>1, <3>1 DEF RegistryInv, Covered, lowerToLLVM
    <3>3. Members(stack) = {}
      BY <1>4 DEF VisitRoot, Members
    <3>4. lowerToLLVM \in Members(order)
      BY <3>2, <3>3 DEF RegistryInv, Partition
    <3>5. parallelToTBB \in Members(order)
      BY <1>1, <3>4, OrderClosed DEF CompilerDeps
    <3>6. lowering \in Members(order)
      BY <1>1, <3>5, OrderClosed DEF CompilerDeps
    <3>7. linalgOpt \in Members(order)
      BY <1>1, <3>6, OrderClosed DEF CompilerDeps
    <3>8. linalgGen \in Members(order)
      BY <1>3, <3>7
    <3> QED BY <1>1, <3>8 DEF GenFirst, Members
  <2> QED BY <2>2, <2>3
<1>5. CASE VisitPrev
  <2>1. Top \in Pipelines
    BY <1>5, TopOfStack DEF VisitPrev, RegistryInv
  <2>2. PICK p \in todo[Top] : (\A m \in todo[Top] : p <= m) /\ visited' \subseteq visited \cup {p}
    <3>1. \E n \in todo[Top] : \A m \in todo[Top] : n <= m
      <4>1. todo[Top] \in SUBSET Nat /\ todo[Top] # {}
        BY <1>5, <2>1, NamesAssumption DEF VisitPrev, RegistryInv, SortTypeOK
      <4> QED BY <4>1, LeastExists
    <3> QED BY <1>5, <3>1 DEF VisitPrev, Least
  <2>3. CASE p # untuple
    BY <1>1, <2>2, <2>3 DEF GenFirst, Members
  <2>4. CASE p = untuple
    <3>1. untuple \in prev[Top]
      BY <1>1, <2>1, <2>2, <2>4 DEF RegistryInv, Worklist
    <3>2. Top \in {linalgOpt, removeSign, lowering}
      BY <2>1, <3>1 DEF CompilerDeps
    <3>3. linalgGen \notin todo[Top] /\ linalgOpt \notin todo[Top]
      BY <2>2, <2>4 DEF linalgGen, linalgOpt, untuple
    <3>4. prev[Top] \ todo[Top] \subseteq Members(order)
      BY <1>1, <2>1 DEF RegistryInv, Worklist
    <3>5. linalgGen \in prev[Top] \/ linalgOpt \in prev[Top]
      BY <3>2 DEF CompilerDeps
    <3>6. linalgGen \in Members(order)
      BY <1>3, <3>3, <3>4, <3>5
    <3> QED BY <1>1, <3>6 DEF GenFirst, Members
  <2> QED BY <2>3, <2>4
<1> QED BY <1>4, <1>5

\* Before the first call nothing is declared.
LEMMA InitFromCompiler == Init => FromCompiler
<1> SUFFICES ASSUME Init PROVE FromCompiler
  OBVIOUS
<1>1. ASSUME ordered \cup Mentions(calls) = 1 .. 10 PROVE Members(calls) \subseteq SinkCalls
  BY <1>1, SinksAssumption DEF Init
<1> QED BY <1>1 DEF Init, FromCompiler, Declared, NoPipelines, Sorting

LEMMA FromCompilerNext == RegistryInv /\ FromCompiler /\ [Next]_vars => FromCompiler'
<1> SUFFICES ASSUME RegistryInv, FromCompiler, [Next]_vars PROVE FromCompiler'
  OBVIOUS
<1>1. SortTypeOK
  BY DEF RegistryInv
<1>2. CASE Register
  <2> DEFINE call == Head(calls)
  <2>1. phase = "register" /\ calls # << >> /\ calls \in Seq(Declarations)
    BY <1>1, <1>2 DEF Register, SortTypeOK
  <2>2. CASE call.name \in known
    <3>1. phase' = "error" /\ UNCHANGED <<calls, ordered>>
      BY <1>2, <2>2 DEF Register, Fail
    <3> QED BY <3>1 DEF FromCompiler, Sorting, Mentions, Members
  <2>3. CASE call.name \notin known
    <3>1. /\ phase' = "register" /\ calls' = Tail(calls)
          /\ ordered' = ordered \cup {call.name} \cup call.prev \cup call.next
      BY <1>2, <2>1, <2>3 DEF Register
    <3>2. /\ Members(Tail(calls)) \subseteq Members(calls)
          /\ Mentions(calls) = ({call.name} \cup call.prev \cup call.next) \cup Mentions(Tail(calls))
      BY <2>1, MentionsHead
    <3>3. Mentions(calls)' = Mentions(Tail(calls)) /\ Members(calls)' = Members(Tail(calls))
      BY <3>1 DEF Mentions, Members
    <3> HIDE DEF call
    <3>4. ordered' \cup Mentions(calls)' = ordered \cup Mentions(calls)
      BY <3>1, <3>2, <3>3
    <3>5. ASSUME ordered \cup Mentions(calls) = 1 .. 10
          PROVE  Members(calls)' \subseteq SinkCalls /\ Declared'
      <4>1. Members(calls) \subseteq SinkCalls /\ Declared
        BY <2>1, <3>5 DEF FromCompiler
      <4> QED BY <1>1, <1>2, <2>1, <2>3, <3>2, <3>3, <4>1, DeclaredNext DEF call
    <3> QED BY <3>1, <3>4, <3>5 DEF FromCompiler, Sorting
  <2> QED BY <2>2, <2>3
<1>3. CASE LinkDeps
  <2>1. calls = << >> /\ UNCHANGED <<calls, ordered, known, jumps, visited, order>>
    BY <1>3 DEF LinkDeps
  <2>2. Mentions(calls) = {} /\ Members(calls) = {} /\ Mentions(calls)' = {} /\ Members(calls)' = {}
    BY <2>1 DEF Mentions, Members
  <2>3. CASE ~(ordered \subseteq known)
    BY <1>3, <2>1, <2>2, <2>3 DEF LinkDeps, Fail, FromCompiler, Sorting
  <2>4. CASE ordered \subseteq known
    <3>1. /\ phase = "register" /\ phase' = "sort"
          /\ prev' = [n \in Pipelines |-> prev[n] \cup {m \in Pipelines : n \in next[m]}]
      BY <1>3, <2>4 DEF LinkDeps
    <3>2. visited' = {} /\ order' = << >>
      BY <2>1, <3>1 DEF RegistryInv, NotStarted
    <3>3. ASSUME ordered = 1 .. 10 PROVE CompilerDeps'
      BY <1>1, <2>1, <2>2, <2>4, <3>1, <3>3, DepsLinked DEF SortTypeOK, FromCompiler
    <3> QED BY <2>1, <2>2, <3>1, <3>2, <3>3 DEF FromCompiler, Sorting, GenFirst
  <2> QED BY <2>3, <2>4
<1>4. ASSUME UNCHANGED <<calls, ordered, prev, jumps, known, next>>,
             phase = "sort" => Sorting \/ phase' \in {"error", "aborted"},
             phase' = phase \/ phase' \in {"error", "aborted"} \/ (phase = "sort" /\ phase' = "done"),
             ordered = 1 .. 10 /\ CompilerDeps /\ GenFirst /\ phase = "sort" => GenFirst',
             phase # "sort" => UNCHANGED <<visited, order>>
      PROVE  FromCompiler'
  <2>1. Mentions(calls)' = Mentions(calls) /\ Members(calls)' = Members(calls)
    BY <1>4 DEF Mentions, Members
  <2>2. Mentions(<< >>) = {}
    BY DEF Mentions, Members
  <2>3. CompilerDeps => CompilerDeps'
    BY <1>4 DEF CompilerDeps
  <2>4. Declared => Declared'
    BY <1>4 DEF Declared
  <2>5. phase # "sort" => (GenFirst => GenFirst')
    BY <1>4 DEF GenFirst, Members
  <2>6. Sorting => calls = << >>
    BY DEF FromCompiler
  <2> QED BY <1>4, <2>1, <2>2, <2>3, <2>4, <2>5, <2>6 DEF FromCompiler, Sorting
<1>5. CASE VisitRoot
  BY <1>4, <1>5, GenStaysFirst DEF VisitRoot, deps, Sorting
<1>6. CASE VisitPrev
  BY <1>4, <1>6, GenStaysFirst DEF VisitPrev, deps, Sorting, Fail
<1>7. CASE Leave
  <2>1. UNCHANGED <<phase, calls, ordered, known, prev, next, jumps, visited>> /\ phase = "sort"
        /\ order' = Append(order, Top) /\ stack # << >>
    BY <1>7 DEF Leave, deps
  <2>2. Members(order) \subseteq Members(order)'
    <3>1. order \in Seq(Pipelines) /\ Top \in Pipelines
      BY <1>1, <2>1, TopOfStack DEF SortTypeOK
    <3>2. Members(Append(order, Top)) = Members(order) \cup {Top}
      BY <3>1, AppendMember
    <3> QED BY <2>1, <3>2 DEF Members
  <2>3. ASSUME GenFirst PROVE GenFirst'
    <3>1. /\ Top \in Members(stack) /\ order \in Seq(Pipelines) /\ Top \in Pipelines
      BY <1>1, <2>1, TopOfStack DEF SortTypeOK
    <3>2. /\ DOMAIN order = 1 .. Len(order) /\ Len(order) \in Nat
          /\ DOMAIN order' = 1 .. Len(order) + 1
          /\ \A i \in DOMAIN order : order'[i] = order[i]
          /\ order'[Len(order) + 1] = Top
      BY <2>1, <3>1, AppendProperties, LenProperties
    <3>3. Top \in visited
      BY <3>1 DEF RegistryInv, Partition
    <3>4. ASSUME NEW i \in DOMAIN order', order'[i] = untuple
          PROVE  \E j \in 1 .. i - 1 : order'[j] = linalgGen
      <4>1. CASE i \in DOMAIN order
        <5>1. PICK j \in 1 .. i - 1 : order[j] = linalgGen
          BY <2>3, <3>2, <3>4, <4>1 DEF GenFirst
        <5> QED BY <3>2, <4>1, <5>1
      <4>2. CASE i = Len(order) + 1
        <5>1. linalgGen \in Members(order)
          BY <2>3, <3>2, <3>3, <3>4, <4>2 DEF GenFirst
        <5>2. PICK j \in DOMAIN order : order[j] = linalgGen
          BY <5>1 DEF Members
        <5> QED BY <3>2, <4>2, <5>2
      <4> QED BY <3>2, <4>1, <4>2
    <3> QED BY <2>1, <2>2, <2>3, <3>4 DEF GenFirst
  <2> QED BY <1>4, <2>1, <2>3 DEF Sorting
<1>8. CASE Cut
  BY <1>4, <1>8 DEF Cut, walk, deps, Sorting, Fail, Abort, GenFirst, Members
<1>9. CASE Finished \/ UNCHANGED vars
  <2>1. UNCHANGED vars
    BY <1>9 DEF Finished
  <2> QED BY <1>4, <2>1 DEF vars, Sorting, GenFirst, Members
<1> QED BY <1>2, <1>3, <1>5, <1>6, <1>7, <1>8, <1>9 DEF Next

\* The order that the compiler's dependencies leave.
LEMMA TheOrder ==
  ASSUME RegistryInv, CompilerDeps, GenFirst, phase = "sort", stack = << >>, roots = {},
         ordered = 1 .. 10
  PROVE  order = <<init, plierToStd, linalgGen, untuple, linalgOpt, removeSign, lowering,
                   parallelToTBB, lowerToLLVM, terminate>>
<1> DEFINE N == Len(order)
<1>1. order \in Seq(Pipelines) /\ DOMAIN order = 1 .. N /\ N \in Nat /\ Sorting
  BY LenProperties DEF RegistryInv, SortTypeOK, Sorting
<1> HIDE DEF N
<1>2. Members(order) = 1 .. 10
  <2>1. Members(stack) = {}
    BY DEF Members
  <2>2. visited = Members(order) /\ visited = ordered
    BY <1>1, <2>1 DEF RegistryInv, Partition, Covered
  <2> QED BY <2>2
<1>3. Injective(order)
  BY DEF RegistryInv, Partition
<1> DEFINE Below(m, j) == j \in 1 .. N /\ j < m
<1> HIDE DEF Below
<1>27. \A m \in 1 .. N : \A j \in 1 .. m - 1 : Below(m, j)
  BY <1>1 DEF Below
<1>4. ASSUME NEW n \in 1 .. 10 PROVE \E i \in 1 .. N : order[i] = n
  BY <1>1, <1>2, <1>4 DEF Members
<1> DEFINE At == [n \in 1 .. 10 |-> CHOOSE i \in 1 .. N : order[i] = n]
<1>5. \A n \in 1 .. 10 : At[n] \in 1 .. N /\ order[At[n]] = n
  BY <1>4
<1>6. \A i \in 1 .. N : order[i] \in 1 .. 10 /\ At[order[i]] = i
  <2>1. \A i \in 1 .. N : order[i] \in 1 .. 10
    BY <1>1, <1>2 DEF Members
  <2> HIDE DEF At
  <2> QED BY <1>1, <1>3, <1>5, <2>1 DEF Injective
<1> HIDE DEF At
<1>7. ASSUME NEW n \in 1 .. 10, NEW p \in 1 .. 10, p \in prev[n] PROVE At[p] < At[n]
  <2>1. PICK j \in 1 .. At[n] - 1 : order[j] = p
    <3>1. At[n] \in DOMAIN order /\ p \in prev[order[At[n]]]
      BY <1>1, <1>5, <1>7
    <3> QED BY <1>1, <3>1 DEF RegistryInv, Sorted
  <2>2. j \in 1 .. N /\ j < At[n]
    <3>1. At[n] \in 1 .. N
      BY <1>5
    <3>2. Below(At[n], j)
      BY <1>27, <2>1, <3>1
    <3> QED BY <3>2 DEF Below
  <2>3. At[p] = j
    BY <1>6, <2>1, <2>2
  <2> QED BY <2>2, <2>3
<1>8. At[linalgGen] < At[untuple]
  <2>1. linalgGen \in 1 .. 10 /\ untuple \in 1 .. 10
    BY DEF linalgGen, untuple
  <2>2. PICK j \in 1 .. At[untuple] - 1 : order[j] = linalgGen
    <3>1. At[untuple] \in DOMAIN order /\ order[At[untuple]] = untuple
      BY <1>1, <1>5, <2>1
    <3> QED BY <3>1 DEF GenFirst
  <2>3. j \in 1 .. N /\ j < At[untuple]
    <3>1. At[untuple] \in 1 .. N
      BY <1>5, <2>1
    <3>2. Below(At[untuple], j)
      BY <1>27, <2>2, <3>1
    <3> QED BY <3>2 DEF Below
  <2>4. At[linalgGen] = j
    BY <1>6, <2>2, <2>3
  <2> QED BY <2>3, <2>4
<1>9. /\ At[1] < At[7] /\ At[7] < At[5] /\ At[5] < At[9] /\ At[9] < At[6] /\ At[6] < At[8]
      /\ At[8] < At[3] /\ At[3] < At[4] /\ At[4] < At[2] /\ At[2] < At[10]
  BY <1>7, <1>8
  DEF CompilerDeps, init, lowering, terminate, lowerToLLVM, plierToStd, linalgGen, linalgOpt,
      untuple, removeSign, parallelToTBB
<1>10. /\ At[1] \in 1 .. N /\ At[2] \in 1 .. N /\ At[3] \in 1 .. N /\ At[4] \in 1 .. N
       /\ At[5] \in 1 .. N /\ At[6] \in 1 .. N /\ At[7] \in 1 .. N /\ At[8] \in 1 .. N
       /\ At[9] \in 1 .. N /\ At[10] \in 1 .. N
  BY <1>5
<1>11. ASSUME NEW i \in 1 .. N
       PROVE  i \in {At[1], At[2], At[3], At[4], At[5], At[6], At[7], At[8], At[9], At[10]}
  BY <1>6, OneToTen
<1> DEFINE a1 == At[1]
           a2 == At[7]
           a3 == At[5]
           a4 == At[9]
           a5 == At[6]
           a6 == At[8]
           a7 == At[3]
           a8 == At[4]
           a9 == At[2]
           a10 == At[10]
<1>12. /\ a1 < a2 /\ a2 < a3 /\ a3 < a4 /\ a4 < a5 /\ a5 < a6 /\ a6 < a7 /\ a7 < a8 /\ a8 < a9 /\ a9 < a10
       /\ a1 \in 1 .. N /\ a2 \in 1 .. N /\ a3 \in 1 .. N /\ a4 \in 1 .. N /\ a5 \in 1 .. N
       /\ a6 \in 1 .. N /\ a7 \in 1 .. N /\ a8 \in 1 .. N /\ a9 \in 1 .. N /\ a10 \in 1 .. N
  BY <1>9, <1>10
<1>13. \A i \in 1 .. N : i = a1 \/ i = a2 \/ i = a3 \/ i = a4 \/ i = a5 \/ i = a6 \/ i = a7 \/ i = a8 \/ i = a9 \/ i = a10
  BY <1>11
<1> HIDE DEF a1, a2, a3, a4, a5, a6, a7, a8, a9, a10
<1>14. a1 = 1
  <2>1. 1 \in 1 .. N
    BY <1>1, <1>12
  <2> QED BY <1>12, <1>13, <2>1
<1>15. a2 = 2
  <2>1. 2 \in 1 .. N
    BY <1>1, <1>12, <1>14
  <2> QED BY <1>12, <1>13, <1>14, <2>1
<1>16. a3 = 3
  <2>1. 3 \in 1 .. N
    BY <1>1, <1>12, <1>15
  <2> QED BY <1>12, <1>13, <1>15, <2>1
<1>17. a4 = 4
  <2>1. 4 \in 1 .. N
    BY <1>1, <1>12, <1>16
  <2> QED BY <1>12, <1>13, <1>16, <2>1
<1>18. a5 = 5
  <2>1. 5 \in 1 .. N
    BY <1>1, <1>12, <1>17
  <2> QED BY <1>12, <1>13, <1>17, <2>1
<1>19. a6 = 6
  <2>1. 6 \in 1 .. N
    BY <1>1, <1>12, <1>18
  <2> QED BY <1>12, <1>13, <1>18, <2>1
<1>20. a7 = 7
  <2>1. 7 \in 1 .. N
    BY <1>1, <1>12, <1>19
  <2> QED BY <1>12, <1>13, <1>19, <2>1
<1>21. a8 = 8
  <2>1. 8 \in 1 .. N
    BY <1>1, <1>12, <1>20
  <2> QED BY <1>12, <1>13, <1>20, <2>1
<1>22. a9 = 9
  <2>1. 9 \in 1 .. N
    BY <1>1, <1>12, <1>21
  <2> QED BY <1>12, <1>13, <1>21, <2>1
<1>23. a10 = 10
  <2>1. 10 \in 1 .. N
    BY <1>1, <1>12, <1>22
  <2> QED BY <1>12, <1>13, <1>22, <2>1
<1>24. N = 10
  <2>1. N \in 1 .. N
    BY <1>1, <1>12
  <2> QED BY <1>1, <1>12, <1>13, <1>23, <2>1
<1>25. /\ order[1] = 1 /\ order[2] = 7 /\ order[3] = 5 /\ order[4] = 9 /\ order[5] = 6
       /\ order[6] = 8 /\ order[7] = 3 /\ order[8] = 4 /\ order[9] = 2 /\ order[10] = 10
  BY <1>5, <1>14, <1>15, <1>16, <1>17, <1>18, <1>19, <1>20, <1>21, <1>22, <1>23
     DEF a1, a2, a3, a4, a5, a6, a7, a8, a9, a10
<1> DEFINE the == <<1, 7, 5, 9, 6, 8, 3, 4, 2, 10>>
<1>26. order = the
  <2>1. the \in Seq(Nat) /\ Len(the) = 10
    OBVIOUS
  <2>2. \A i \in 1 .. 10 : order[i] = the[i]
    BY <1>25, OneToTen
  <2>3. order \in Seq(Nat)
    <3>1. \A i \in 1 .. Len(order) : order[i] \in Nat
      BY <1>1, NamesAssumption, ElementOfSeq DEF N
    <3> QED BY <1>1, <3>1, IsASeq DEF N
  <2> HIDE DEF the
  <2> QED BY <1>1, <1>24, <2>1, <2>2, <2>3, SeqEqual DEF N
<1> QED BY <1>26
    DEF init, lowering, terminate, lowerToLLVM, plierToStd, linalgGen, linalgOpt, untuple,
        removeSign, parallelToTBB

\* A sequence with one more element, given by its elements.
LEMMA AppendOne ==
  ASSUME NEW S, NEW s \in Seq(S), NEW e \in S, NEW t \in Seq(S),
         Len(t) = Len(s) + 1, \A i \in 1 .. Len(s) : t[i] = s[i], t[Len(t)] = e
  PROVE  Append(s, e) = t
<1>1. /\ Append(s, e) \in Seq(S) /\ Len(Append(s, e)) = Len(s) + 1
      /\ \A i \in 1 .. Len(s) : Append(s, e)[i] = s[i]
      /\ Append(s, e)[Len(s) + 1] = e
  BY AppendProperties
<1>2. \A i \in 1 .. Len(s) + 1 : i \in 1 .. Len(s) \/ i = Len(s) + 1
  BY LenProperties
<1> QED BY <1>1, <1>2, SeqEqual

LEMMA AppendStage ==
  ASSUME NEW a, NEW b, NEW c
  PROVE  /\ Append(<< >>, a) = <<a>>
         /\ Append(<<a>>, b) = <<a, b>>
         /\ Append(<<a, b>>, c) = <<a, b, c>>
<1> DEFINE S == {a, b, c}
           s0 == << >>
           s1 == <<a>>
           s2 == <<a, b>>
           s3 == <<a, b, c>>
<1>1. /\ s0 \in Seq(S) /\ Len(s0) = 0
      /\ s1 \in Seq(S) /\ Len(s1) = 1
      /\ s2 \in Seq(S) /\ Len(s2) = 2
      /\ s3 \in Seq(S) /\ Len(s3) = 3
  OBVIOUS
<1>2. /\ s1[1] = a /\ s2[1] = a /\ s2[2] = b /\ s3[1] = a /\ s3[2] = b /\ s3[3] = c
      /\ a \in S /\ b \in S /\ c \in S
  OBVIOUS
<1> HIDE DEF S, s0, s1, s2, s3
<1>3. Len(s2) = Len(s1) + 1 /\ s2[Len(s2)] = b /\ \A i \in 1 .. Len(s1) : s2[i] = s1[i]
  BY <1>1, <1>2
<1>4. Len(s3) = Len(s2) + 1 /\ s3[Len(s3)] = c /\ \A i \in 1 .. Len(s2) : s3[i] = s2[i]
  BY <1>1, <1>2
<1>5. Append(s0, a) = s1
  BY <1>1, <1>2, AppendOne
<1>6. Append(s1, b) = s2
  BY <1>1, <1>2, <1>3, AppendOne
<1>7. Append(s2, c) = s3
  BY <1>1, <1>2, <1>4, AppendOne
<1> QED BY <1>5, <1>6, <1>7 DEF s0, s1, s2, s3

\* f is the state of the loop of StagesOf, with its stage under construction.
Loop(f, name, jumpsOf, funcs, out) ==
  f.out = out /\ f.cur.name = name /\ f.cur.jumps = jumpsOf /\ f.cur.funcs = funcs

\* One iteration of the loop, for a pipeline that stays in the stage and for one
\* that starts the next one.
LEMMA LoopKeeps ==
  ASSUME jumps \in [Pipelines -> SUBSET Pipelines], NEW f \in States,
         NEW n \in Pipelines, n \notin JumpTargets
  PROVE  Loop(AddPipeline(f, n), f.cur.name, jumps[n], Append(f.cur.funcs, n), f.out)
<1> QED BY AddCases DEF Loop

LEMMA LoopStarts ==
  ASSUME jumps \in [Pipelines -> SUBSET Pipelines], NEW f \in States,
         NEW n \in Pipelines, n \in JumpTargets, f.cur.funcs # << >>
  PROVE  Loop(AddPipeline(f, n), <<n>>, jumps[n], <<n>>,
              Append(f.out, <<f.cur.name, f.cur.jumps, f.cur.funcs>>))
<1> QED BY AddCases DEF Loop

\* The compiler's order, and where it is cut.
InOrder ==
  /\ order \in Seq(Pipelines) /\ jumps \in [Pipelines -> SUBSET Pipelines] /\ 1 .. 10 \subseteq Pipelines
  /\ Len(order) = 10
  /\ order[1] = 1 /\ order[2] = 7 /\ order[3] = 5 /\ order[4] = 9 /\ order[5] = 6
  /\ order[6] = 8 /\ order[7] = 3 /\ order[8] = 4 /\ order[9] = 2 /\ order[10] = 10
  /\ \A n \in 1 .. 10 : jumps[n] = IF n = 5 THEN {7} ELSE {}
  /\ JumpTargets = {7, 9}

\* The loop over the compiler's order.
LEMMA TheLoop ==
  ASSUME InOrder
  PROVE  StagesOf.out = << << <<1>>, {}, <<1>> >>, << <<7>>, {7}, <<7, 5>> >>,
                           << <<9>>, {}, <<9, 6, 8, 3, 4, 2, 10>> >> >>
<1>1. jumps \in [Pipelines -> SUBSET Pipelines]
  BY DEF InOrder
<1>6. /\ StagesOf = Flushed(Fold[10])
      /\ Fold[0] = FirstState
      /\ \A k \in 1 .. 10 : Fold[k] = AddPipeline(Fold[k - 1], order[k])
      /\ \A k \in 0 .. 10 : Fold[k] \in States
  <2>1. order # << >>
    <3>1. Len(order) = 10
      BY DEF InOrder
    <3>2. Len(<< >>) = 0
      BY EmptySeq
    <3> QED BY <3>1, <3>2
  <2> QED BY <2>1, StagesOfIsFold, FoldInvHolds DEF FoldInv, InOrder
<1> DEFINE first  == << <<1>>, {}, <<1>> >>
           second == << <<7>>, {7}, <<7, 5>> >>
<1>7. Loop(Fold[0], <<1>>, {}, << >>, << >>)
  BY <1>6 DEF FirstState, Open, Loop, InOrder
<1>8. Loop(Fold[1], <<1>>, {}, <<1>>, << >>)
  <2> DEFINE f == Fold[0]  name == <<1>>  js == {}  funcs == << >>  out == << >>
             more == <<1>>  to == {}
  <2>1. /\ 1 \in Pipelines /\ 1 \notin JumpTargets /\ jumps[1] = to
        /\ f \in States /\ Fold[1] = AddPipeline(f, 1)
    BY <1>6 DEF InOrder
  <2>2. Loop(f, name, js, funcs, out)
    BY <1>7
  <2>3. /\ funcs \in Seq(Nat) /\ more \in Seq(Nat) /\ Len(funcs) = 0
        /\ Len(more) = Len(funcs) + 1 /\ more[Len(more)] = 1
    OBVIOUS
  <2>4. \A i \in 1 .. Len(funcs) : more[i] = funcs[i]
    OBVIOUS
  <2> HIDE DEF f, name, js, funcs, out, more, to
  <2>5. Append(funcs, 1) = more
    BY <2>3, <2>4, AppendOne
  <2>6. Loop(AddPipeline(f, 1), f.cur.name, jumps[1], Append(f.cur.funcs, 1), f.out)
    BY <1>1, <2>1, LoopKeeps
  <2>7. Loop(AddPipeline(f, 1), name, to, more, out)
    BY <2>1, <2>2, <2>5, <2>6 DEF Loop
  <2> QED BY <2>1, <2>7 DEF name, to, more, out
<1>9. Loop(Fold[2], <<7>>, {}, <<7>>, <<first>>)
  <2> DEFINE f == Fold[1]  name == <<1>>  js == {}  funcs == <<1>>  out == << >>
             more == <<first>>  to == {}
  <2>1. /\ 7 \in Pipelines /\ 7 \in JumpTargets /\ jumps[7] = to
        /\ f \in States /\ Fold[2] = AddPipeline(f, 7)
    BY <1>6 DEF InOrder
  <2>2. Loop(f, name, js, funcs, out)
    BY <1>8
  <2>3. funcs # << >>
    OBVIOUS
  <2>4. Append(out, <<name, js, funcs>>) = more
    <3> HIDE DEF first
    <3>1. Append(out, first) = more
      BY AppendStage
    <3> QED BY <3>1 DEF first
  <2> HIDE DEF f, name, js, funcs, out, more, to
  <2>5. Loop(AddPipeline(f, 7), <<7>>, jumps[7], <<7>>,
             Append(f.out, <<f.cur.name, f.cur.jumps, f.cur.funcs>>))
    BY <1>1, <2>1, <2>2, <2>3, LoopStarts DEF Loop
  <2>6. Loop(AddPipeline(f, 7), <<7>>, to, <<7>>, more)
    BY <2>1, <2>2, <2>4, <2>5 DEF Loop
  <2> QED BY <2>1, <2>6 DEF to, more
<1>10. Loop(Fold[3], <<7>>, {7}, <<7, 5>>, <<first>>)
  <2> DEFINE f == Fold[2]  name == <<7>>  js == {}  funcs == <<7>>  out == <<first>>
             more == <<7, 5>>  to == {7}
  <2>1. /\ 5 \in Pipelines /\ 5 \notin JumpTargets /\ jumps[5] = to
        /\ f \in States /\ Fold[3] = AddPipeline(f, 5)
    BY <1>6 DEF InOrder
  <2>2. Loop(f, name, js, funcs, out)
    BY <1>9
  <2>3. /\ funcs \in Seq(Nat) /\ more \in Seq(Nat) /\ Len(funcs) = 1
        /\ Len(more) = Len(funcs) + 1 /\ more[Len(more)] = 5
    OBVIOUS
  <2>4. \A i \in 1 .. Len(funcs) : more[i] = funcs[i]
    OBVIOUS
  <2> HIDE DEF f, name, js, funcs, out, more, to
  <2>5. Append(funcs, 5) = more
    BY <2>3, <2>4, AppendOne
  <2>6. Loop(AddPipeline(f, 5), f.cur.name, jumps[5], Append(f.cur.funcs, 5), f.out)
    BY <1>1, <2>1, LoopKeeps
  <2>7. Loop(AddPipeline(f, 5), name, to, more, out)
    BY <2>1, <2>2, <2>5, <2>6 DEF Loop
  <2> QED BY <2>1, <2>7 DEF name, to, more, out
<1>11. Loop(Fold[4], <<9>>, {}, <<9>>, <<first, second>>)
  <2> DEFINE f == Fold[3]  name == <<7>>  js == {7}  funcs == <<7, 5>>  out == <<first>>
             more == <<first, second>>  to == {}
  <2>1. /\ 9 \in Pipelines /\ 9 \in JumpTargets /\ jumps[9] = to
        /\ f \in States /\ Fold[4] = AddPipeline(f, 9)
    BY <1>6 DEF InOrder
  <2>2. Loop(f, name, js, funcs, out)
    BY <1>10
  <2>3. funcs # << >>
    OBVIOUS
  <2>4. Append(out, <<name, js, funcs>>) = more
    <3> HIDE DEF second
    <3>1. Append(out, second) = more
      BY AppendStage
    <3> QED BY <3>1 DEF second
  <2> HIDE DEF f, name, js, funcs, out, more, to
  <2>5. Loop(AddPipeline(f, 9), <<9>>, jumps[9], <<9>>,
             Append(f.out, <<f.cur.name, f.cur.jumps, f.cur.funcs>>))
    BY <1>1, <2>1, <2>2, <2>3, LoopStarts DEF Loop
  <2>6. Loop(AddPipeline(f, 9), <<9>>, to, <<9>>, more)
    BY <2>1, <2>2, <2>4, <2>5 DEF Loop
  <2> QED BY <2>1, <2>6 DEF to, more
<1>12. Loop(Fold[5], <<9>>, {}, <<9, 6>>, <<first, second>>)
  <2> DEFINE f == Fold[4]  name == <<9>>  js == {}  funcs == <<9>>  out == <<first, second>>
             more == <<9, 6>>  to == {}
  <2>1. /\ 6 \in Pipelines /\ 6 \notin JumpTargets /\ jumps[6] = to
        /\ f \in States /\ Fold[5] = AddPipeline(f, 6)
    BY <1>6 DEF InOrder
  <2>2. Loop(f, name, js, funcs, out)
    BY <1>11
  <2>3. /\ funcs \in Seq(Nat) /\ more \in Seq(Nat) /\ Len(funcs) = 1
        /\ Len(more) = Len(funcs) + 1 /\ more[Len(more)] = 6
    OBVIOUS
  <2>4. \A i \in 1 .. Len(funcs) : more[i] = funcs[i]
    OBVIOUS
  <2> HIDE DEF f, name, js, funcs, out, more, to
  <2>5. Append(funcs, 6) = more
    BY <2>3, <2>4, AppendOne
  <2>6. Loop(AddPipeline(f, 6), f.cur.name, jumps[6], Append(f.cur.funcs, 6), f.out)
    BY <1>1, <2>1, LoopKeeps
  <2>7. Loop(AddPipeline(f, 6), name, to, more, out)
    BY <2>1, <2>2, <2>5, <2>6 DEF Loop
  <2> QED BY <2>1, <2>7 DEF name, to, more, out
<1>13. Loop(Fold[6], <<9>>, {}, <<9, 6, 8>>, <<first, second>>)
  <2> DEFINE f == Fold[5]  name == <<9>>  js == {}  funcs == <<9, 6>>  out == <<first, second>>
             more == <<9, 6, 8>>  to == {}
  <2>1. /\ 8 \in Pipelines /\ 8 \notin JumpTargets /\ jumps[8] = to
        /\ f \in States /\ Fold[6] = AddPipeline(f, 8)
    BY <1>6 DEF InOrder
  <2>2. Loop(f, name, js, funcs, out)
    BY <1>12
  <2>3. /\ funcs \in Seq(Nat) /\ more \in Seq(Nat) /\ Len(funcs) = 2
        /\ Len(more) = Len(funcs) + 1 /\ more[Len(more)] = 8
    OBVIOUS
  <2>4. \A i \in 1 .. Len(funcs) : more[i] = funcs[i]
    OBVIOUS
  <2> HIDE DEF f, name, js, funcs, out, more, to
  <2>5. Append(funcs, 8) = more
    BY <2>3, <2>4, AppendOne
  <2>6. Loop(AddPipeline(f, 8), f.cur.name, jumps[8], Append(f.cur.funcs, 8), f.out)
    BY <1>1, <2>1, LoopKeeps
  <2>7. Loop(AddPipeline(f, 8), name, to, more, out)
    BY <2>1, <2>2, <2>5, <2>6 DEF Loop
  <2> QED BY <2>1, <2>7 DEF name, to, more, out
<1>14. Loop(Fold[7], <<9>>, {}, <<9, 6, 8, 3>>, <<first, second>>)
  <2> DEFINE f == Fold[6]  name == <<9>>  js == {}  funcs == <<9, 6, 8>>  out == <<first, second>>
             more == <<9, 6, 8, 3>>  to == {}
  <2>1. /\ 3 \in Pipelines /\ 3 \notin JumpTargets /\ jumps[3] = to
        /\ f \in States /\ Fold[7] = AddPipeline(f, 3)
    BY <1>6 DEF InOrder
  <2>2. Loop(f, name, js, funcs, out)
    BY <1>13
  <2>3. /\ funcs \in Seq(Nat) /\ more \in Seq(Nat) /\ Len(funcs) = 3
        /\ Len(more) = Len(funcs) + 1 /\ more[Len(more)] = 3
    OBVIOUS
  <2>4. \A i \in 1 .. Len(funcs) : more[i] = funcs[i]
    OBVIOUS
  <2> HIDE DEF f, name, js, funcs, out, more, to
  <2>5. Append(funcs, 3) = more
    BY <2>3, <2>4, AppendOne
  <2>6. Loop(AddPipeline(f, 3), f.cur.name, jumps[3], Append(f.cur.funcs, 3), f.out)
    BY <1>1, <2>1, LoopKeeps
  <2>7. Loop(AddPipeline(f, 3), name, to, more, out)
    BY <2>1, <2>2, <2>5, <2>6 DEF Loop
  <2> QED BY <2>1, <2>7 DEF name, to, more, out
<1>15. Loop(Fold[8], <<9>>, {}, <<9, 6, 8, 3, 4>>, <<first, second>>)
  <2> DEFINE f == Fold[7]  name == <<9>>  js == {}  funcs == <<9, 6, 8, 3>>  out == <<first, second>>
             more == <<9, 6, 8, 3, 4>>  to == {}
  <2>1. /\ 4 \in Pipelines /\ 4 \notin JumpTargets /\ jumps[4] = to
        /\ f \in States /\ Fold[8] = AddPipeline(f, 4)
    BY <1>6 DEF InOrder
  <2>2. Loop(f, name, js, funcs, out)
    BY <1>14
  <2>3. /\ funcs \in Seq(Nat) /\ more \in Seq(Nat) /\ Len(funcs) = 4
        /\ Len(more) = Len(funcs) + 1 /\ more[Len(more)] = 4
    OBVIOUS
  <2>4. \A i \in 1 .. Len(funcs) : more[i] = funcs[i]
    OBVIOUS
  <2> HIDE DEF f, name, js, funcs, out, more, to
  <2>5. Append(funcs, 4) = more
    BY <2>3, <2>4, AppendOne
  <2>6. Loop(AddPipeline(f, 4), f.cur.name, jumps[4], Append(f.cur.funcs, 4), f.out)
    BY <1>1, <2>1, LoopKeeps
  <2>7. Loop(AddPipeline(f, 4), name, to, more, out)
    BY <2>1, <2>2, <2>5, <2>6 DEF Loop
  <2> QED BY <2>1, <2>7 DEF name, to, more, out
<1>16. Loop(Fold[9], <<9>>, {}, <<9, 6, 8, 3, 4, 2>>, <<first, second>>)
  <2> DEFINE f == Fold[8]  name == <<9>>  js == {}  funcs == <<9, 6, 8, 3, 4>>  out == <<first, second>>
             more == <<9, 6, 8, 3, 4, 2>>  to == {}
  <2>1. /\ 2 \in Pipelines /\ 2 \notin JumpTargets /\ jumps[2] = to
        /\ f \in States /\ Fold[9] = AddPipeline(f, 2)
    BY <1>6 DEF InOrder
  <2>2. Loop(f, name, js, funcs, out)
    BY <1>15
  <2>3. /\ funcs \in Seq(Nat) /\ more \in Seq(Nat) /\ Len(funcs) = 5
        /\ Len(more) = Len(funcs) + 1 /\ more[Len(more)] = 2
    OBVIOUS
  <2>4. \A i \in 1 .. Len(funcs) : more[i] = funcs[i]
    OBVIOUS
  <2> HIDE DEF f, name, js, funcs, out, more, to
  <2>5. Append(funcs, 2) = more
    BY <2>3, <2>4, AppendOne
  <2>6. Loop(AddPipeline(f, 2), f.cur.name, jumps[2], Append(f.cur.funcs, 2), f.out)
    BY <1>1, <2>1, LoopKeeps
  <2>7. Loop(AddPipeline(f, 2), name, to, more, out)
    BY <2>1, <2>2, <2>5, <2>6 DEF Loop
  <2> QED BY <2>1, <2>7 DEF name, to, more, out
<1>17. Loop(Fold[10], <<9>>, {}, <<9, 6, 8, 3, 4, 2, 10>>, <<first, second>>)
  <2> DEFINE f == Fold[9]  name == <<9>>  js == {}  funcs == <<9, 6, 8, 3, 4, 2>>  out == <<first, second>>
             more == <<9, 6, 8, 3, 4, 2, 10>>  to == {}
  <2>1. /\ 10 \in Pipelines /\ 10 \notin JumpTargets /\ jumps[10] = to
        /\ f \in States /\ Fold[10] = AddPipeline(f, 10)
    BY <1>6 DEF InOrder
  <2>2. Loop(f, name, js, funcs, out)
    BY <1>16
  <2>3. /\ funcs \in Seq(Nat) /\ more \in Seq(Nat) /\ Len(funcs) = 6
        /\ Len(more) = Len(funcs) + 1 /\ more[Len(more)] = 10
    OBVIOUS
  <2>4. \A i \in 1 .. Len(funcs) : more[i] = funcs[i]
    OBVIOUS
  <2> HIDE DEF f, name, js, funcs, out, more, to
  <2>5. Append(funcs, 10) = more
    BY <2>3, <2>4, AppendOne
  <2>6. Loop(AddPipeline(f, 10), f.cur.name, jumps[10], Append(f.cur.funcs, 10), f.out)
    BY <1>1, <2>1, LoopKeeps
  <2>7. Loop(AddPipeline(f, 10), name, to, more, out)
    BY <2>1, <2>2, <2>5, <2>6 DEF Loop
  <2> QED BY <2>1, <2>7 DEF name, to, more, out
<1>18. StagesOf.out = <<first, second, << <<9>>, {}, <<9, 6, 8, 3, 4, 2, 10>> >> >>
  <2> DEFINE f == Fold[10]  funcs == <<9, 6, 8, 3, 4, 2, 10>>
             third == << <<9>>, {}, funcs >>
  <2>1. Len(funcs) = 7
    OBVIOUS
  <2>2. Append(<<first, second>>, third) = <<first, second, third>>
    BY AppendStage
  <2>3. Loop(f, <<9>>, {}, funcs, <<first, second>>)
    BY <1>17
  <2> HIDE DEF f, funcs, first, second
  <2>4. Flushed(f).out = Append(f.out, <<f.cur.name, f.cur.jumps, f.cur.funcs>>)
    BY <2>1, <2>3 DEF Flushed, Loop
  <2>5. Flushed(f).out = Append(<<first, second>>, third)
    BY <2>3, <2>4 DEF Loop
  <2> QED BY <1>6, <2>2, <2>5 DEF f, funcs
<1> QED BY <1>18

\* The stages of the compiler's order.
LEMMA TheStages ==
  ASSUME order = <<init, plierToStd, linalgGen, untuple, linalgOpt, removeSign, lowering,
                   parallelToTBB, lowerToLLVM, terminate>>,
         order \in Seq(Pipelines), jumps \in [Pipelines -> SUBSET Pipelines],
         \A n \in 1 .. 10 : jumps[n] = IF n = linalgGen THEN {plierToStd} ELSE {}
  PROVE  StagesOf.out = CompilerStages
<1> USE DEF init, lowering, terminate, lowerToLLVM, plierToStd, linalgGen, linalgOpt, untuple,
        removeSign, parallelToTBB
<1>1. /\ Len(order) = 10 /\ DOMAIN order = 1 .. 10
      /\ order[1] = 1 /\ order[2] = 7 /\ order[3] = 5 /\ order[4] = 9 /\ order[5] = 6
      /\ order[6] = 8 /\ order[7] = 3 /\ order[8] = 4 /\ order[9] = 2 /\ order[10] = 10
  OBVIOUS
<1>2. /\ jumps[1] = {} /\ jumps[2] = {} /\ jumps[3] = {} /\ jumps[4] = {} /\ jumps[5] = {7}
      /\ jumps[6] = {} /\ jumps[7] = {} /\ jumps[8] = {} /\ jumps[9] = {} /\ jumps[10] = {}
  OBVIOUS
<1>3. Members(order) = 1 .. 10
  <2>1. \A i \in 1 .. 10 : order[i] \in 1 .. 10
    BY <1>1, OneToTen
  <2>2. \A n \in 1 .. 10 : \E i \in 1 .. 10 : order[i] = n
    BY <1>1, OneToTen
  <2> QED BY <1>1, <2>1, <2>2 DEF Members
<1>4. JumpTargets = {7, 9}
  <2>1. UNION {jumps[n] : n \in Members(order)} = {7}
    BY <1>2, <1>3, OneToTen
  <2>2. \A j \in 1 .. 9 : jumps[order[j]] # {} <=> j = 3
    BY <1>1, <1>2, OneToTen
  <2>3. {order[k + 1] : k \in {j \in 1 .. Len(order) - 1 : jumps[order[j]] # {}}} = {9}
    <3>1. Len(order) - 1 = 9
      BY <1>1
    <3>2. {j \in 1 .. Len(order) - 1 : jumps[order[j]] # {}} = {3}
      BY <2>2, <3>1
    <3>3. {order[k + 1] : k \in {3}} = {order[4]}
      OBVIOUS
    <3> QED BY <1>1, <3>2, <3>3
  <2> QED BY <2>1, <2>3 DEF JumpTargets
<1>5. 1 .. 10 \subseteq Pipelines
  <2>1. \A i \in 1 .. 10 : order[i] \in Pipelines
    BY <1>1, ElementOfSeq
  <2> QED BY <1>1, <2>1, OneToTen
<1>6. InOrder
  BY <1>1, <1>2, <1>4, <1>5, OneToTen DEF InOrder
<1> HIDE DEF init, lowering, terminate, lowerToLLVM, plierToStd, linalgGen, linalgOpt, untuple,
        removeSign, parallelToTBB
<1> QED BY <1>6, TheLoop
    DEF CompilerStages, init, lowering, terminate, lowerToLLVM, plierToStd, linalgGen, linalgOpt,
        untuple, removeSign, parallelToTBB

\* Only Cut makes stages, and it makes those of the one order.
LEMMA ScheduleNext ==
  RegistryInv /\ FromCompiler /\ CompilerSchedule /\ [Next]_vars => CompilerSchedule'
<1> SUFFICES ASSUME RegistryInv, FromCompiler, CompilerSchedule, [Next]_vars,
                    (phase = "done" /\ ordered = 1 .. 10)'
             PROVE  stages' = CompilerStages
  BY DEF CompilerSchedule
<1>1. CASE Cut /\ phase = "sort"
  <2>1. /\ UNCHANGED <<calls, ordered>> /\ stages' = StagesOf.out
        /\ stack = << >> /\ roots = {}
    BY <1>1 DEF Cut, Fail, Abort
  <2>2. calls = << >> /\ Mentions(<< >>) = {}
    BY <1>1 DEF FromCompiler, Sorting, Mentions, Members
  <2>3. ordered = 1 .. 10
    BY <2>1
  <2>4. CompilerDeps /\ GenFirst
    BY <1>1, <2>2, <2>3 DEF FromCompiler, Sorting
  <2>5. order \in Seq(Pipelines) /\ jumps \in [Pipelines -> SUBSET Pipelines]
    BY DEF RegistryInv, SortTypeOK
  <2> QED BY <1>1, <2>1, <2>3, <2>4, <2>5, TheOrder, TheStages DEF CompilerDeps
<1>2. CASE ~(Cut /\ phase = "sort")
  <2>1. UNCHANGED <<phase, ordered, stages>>
    BY <1>2
    DEF Next, Register, LinkDeps, VisitRoot, VisitPrev, Leave, Cut, Finished, vars, walk, Fail
  <2> QED BY <2>1 DEF CompilerSchedule
<1> QED BY <1>1, <1>2

\* In whatever order the compiler's pipelines are registered, populate_pass_manager
\* makes the same three stages of them: the order that the names give to pipelines
\* which do not depend on each other is the same, and so are the cuts.
THEOREM StagesFixed == ContextSpec => []CompilerSchedule
<1>1. ContextInit => FromCompiler /\ CompilerSchedule
  BY InitFromCompiler DEF ContextInit, Init, CompilerSchedule
<1>2. [ContextNext]_contextVars => [Next]_vars
  BY DEF ContextNext, Populate, StartRun, RunModule, contextVars
<1>3. ContextInv /\ FromCompiler /\ CompilerSchedule /\ [ContextNext]_contextVars
        => FromCompiler' /\ CompilerSchedule'
  BY <1>2, FromCompilerNext, ScheduleNext DEF ContextInv
<1> QED BY <1>1, <1>3, ContextInvariant, PTL DEF ContextSpec
=============================================================================
