-------------------------- MODULE PipelineRegistry --------------------------
(***************************************************************************)
(* PipelineRegistry::populate_pass_manager (pipeline_registry.cpp): from   *)
(* the registered pipelines, each with the pipelines it must follow        *)
(* (prev), the ones it must precede (next) and the ones it may jump back   *)
(* to (jumps), one linear order is computed by a depth-first topological   *)
(* sort and cut into the stages that the pass manager runs.                *)
(*                                                                         *)
(* Pipelines are numbered in the lexicographic order of their names, the   *)
(* order of the std::set and of the sorted PipelineSets.                   *)
(***************************************************************************)
EXTENDS Naturals, Sequences, FiniteSets

CONSTANTS
  Pipelines,       \* the names that may occur
  Registrations    \* the sequences of sink() calls to consider

ASSUME NamesAssumption == Pipelines \subseteq Nat

Declarations ==
  [name : Pipelines, prev : SUBSET Pipelines, next : SUBSET Pipelines, jumps : SUBSET Pipelines]
ASSUME RegistrationsAssumption == Registrations \subseteq Seq(Declarations)

VARIABLES
  phase,      \* "register", "sort", "done", "error" (report_error) or "aborted" (an assertion)
  calls,      \* the sink() calls still to come
  ordered,    \* pipelines_ordered: the names mentioned so far
  known,      \* the keys of pipelines_map
  prev,       \* PipelineInfo::prev_pipelines
  next,       \* PipelineInfo::next_pipelines
  jumps,      \* PipelineInfo::jumps
  roots,      \* names the toposort loop has not reached
  visited,    \* PipelineInfo::visited
  stack,      \* the active topo_visit calls, innermost last: the ones with iterating set
  todo,       \* todo[n]: predecessors the call for n has still to look at
  order,      \* the list from first_pipeline along PipelineInfo::next
  stages      \* the add_stage() calls: <<name, jumps, pipelines>>

vars == <<phase, calls, ordered, known, prev, next, jumps, roots, visited, stack, todo, order,
          stages>>
deps == <<prev, next, jumps>>
walk == <<roots, visited, stack, todo, order>>

NoName == << >>
NoPipelines == [n \in Pipelines |-> {}]

Least(S) == CHOOSE n \in S : \A m \in S : n <= m
Members(s) == {s[k] : k \in DOMAIN s}
-----------------------------------------------------------------------------
Init ==
  /\ phase = "register"
  /\ calls \in Registrations
  /\ ordered = {}
  /\ known = {}
  /\ prev = NoPipelines
  /\ next = NoPipelines
  /\ jumps = NoPipelines
  /\ roots = {}
  /\ visited = {}
  /\ stack = << >>
  /\ todo = NoPipelines
  /\ order = << >>
  /\ stages = << >>

Fail == phase' = "error"
Abort == phase' = "aborted"

\* Mutant of Register: only the names in prev and next enter the order.
RegisterDepsOnly ==
  /\ phase = "register"
  /\ calls # << >>
  /\ LET call == Head(calls) IN
     /\ calls' = Tail(calls)
     /\ ordered' = ordered \cup call.prev \cup call.next
     /\ known' = known \cup {call.name}
     /\ prev' = [prev EXCEPT ![call.name] = call.prev]
     /\ next' = [next EXCEPT ![call.name] = call.next]
     /\ jumps' = [jumps EXCEPT ![call.name] = call.jumps]
     /\ UNCHANGED <<phase, walk, stages>>

\* One call of sink: names of prev and next become known to the order, those of
\* jumps do not; a second call with the same name is an error.
Register ==
  /\ phase = "register"
  /\ calls # << >>
  /\ LET call == Head(calls) IN
     IF call.name \in known
     THEN Fail /\ UNCHANGED <<calls, ordered, known, deps, walk, stages>>
     ELSE /\ calls' = Tail(calls)
          /\ ordered' = ordered \cup {call.name} \cup call.prev \cup call.next
          /\ known' = known \cup {call.name}
          /\ prev' = [prev EXCEPT ![call.name] = call.prev]
          /\ next' = [next EXCEPT ![call.name] = call.next]
          /\ jumps' = [jumps EXCEPT ![call.name] = call.jumps]
          /\ UNCHANGED <<phase, walk, stages>>

\* Mutant of LinkDeps: only the declared predecessors count.
LinkPrevOnly ==
  /\ phase = "register"
  /\ calls = << >>
  /\ IF ~(ordered \subseteq known)
     THEN Fail /\ UNCHANGED <<roots, todo>>
     ELSE phase' = "sort" /\ roots' = ordered /\ todo' = prev
  /\ UNCHANGED <<calls, ordered, known, deps, visited, stack, order, stages>>

\* "Make all deps bidirectional"; a name without a registration is an error.
LinkDeps ==
  /\ phase = "register"
  /\ calls = << >>
  /\ IF ~(ordered \subseteq known)
     THEN Fail /\ UNCHANGED <<prev, next, roots, todo>>
     ELSE LET before == [n \in Pipelines |-> prev[n] \cup {m \in Pipelines : n \in next[m]}]
          IN /\ phase' = "sort"
             /\ prev' = before
             /\ next' = [n \in Pipelines |-> next[n] \cup {m \in Pipelines : n \in prev[m]}]
             /\ roots' = ordered
             /\ todo' = before
  /\ UNCHANGED <<calls, ordered, known, jumps, visited, stack, order, stages>>

\* topo_visit is called for the next name of the ordered set; it returns at
\* once for a pipeline that was visited.
VisitRoot ==
  /\ phase = "sort"
  /\ stack = << >>
  /\ roots # {}
  /\ LET n == Least(roots) IN
     /\ roots' = roots \ {n}
     /\ visited' = visited \cup {n}
     /\ stack' = IF n \in visited THEN << >> ELSE <<n>>
  /\ UNCHANGED <<phase, calls, ordered, known, deps, todo, order, stages>>

Top == stack[Len(stack)]

\* Mutant of VisitPrev: iterating is still set when a finished call is seen
\* again, so a predecessor shared by two pipelines is taken for a cycle.
VisitPrevOnce ==
  /\ phase = "sort"
  /\ stack # << >>
  /\ todo[Top] # {}
  /\ LET p == Least(todo[Top]) IN
     \/ /\ p \in visited
        /\ Fail
        /\ UNCHANGED <<visited, stack, todo>>
     \/ /\ p \notin visited
        /\ visited' = visited \cup {p}
        /\ stack' = Append(stack, p)
        /\ todo' = [todo EXCEPT ![Top] = @ \ {p}]
        /\ UNCHANGED phase
  /\ UNCHANGED <<calls, ordered, known, deps, roots, order, stages>>

\* Mutant of VisitPrev: a visited predecessor is not taken from the worklist.
VisitPrevStays ==
  /\ phase = "sort"
  /\ stack # << >>
  /\ todo[Top] # {}
  /\ LET p == Least(todo[Top]) IN
     /\ visited' = visited \cup {p}
     /\ stack' = IF p \in visited THEN stack ELSE Append(stack, p)
  /\ UNCHANGED <<phase, calls, ordered, known, deps, roots, todo, order, stages>>

\* iter_func looks at the next predecessor: one that is iterating closes a
\* cycle, an unvisited one is visited first, a visited one is passed over.
VisitPrev ==
  /\ phase = "sort"
  /\ stack # << >>
  /\ todo[Top] # {}
  /\ LET p == Least(todo[Top]) IN
     \/ /\ p \in Members(stack)
        /\ Fail
        /\ UNCHANGED <<visited, stack, todo>>
     \/ /\ p \notin visited
        /\ visited' = visited \cup {p}
        /\ stack' = Append(stack, p)
        /\ UNCHANGED <<phase, todo>>
     \/ /\ p \in visited
        /\ p \notin Members(stack)
        /\ todo' = [todo EXCEPT ![Top] = @ \ {p}]
        /\ UNCHANGED <<phase, visited, stack>>
  /\ UNCHANGED <<calls, ordered, known, deps, roots, order, stages>>

\* visit_func links the pipeline after the current last one.
Leave ==
  /\ phase = "sort"
  /\ stack # << >>
  /\ todo[Top] = {}
  /\ order' = Append(order, Top)
  /\ stack' = SubSeq(stack, 1, Len(stack) - 1)
  /\ UNCHANGED <<phase, calls, ordered, known, deps, roots, visited, todo, stages>>
-----------------------------------------------------------------------------
\* Mutant of JumpTargets: the pipeline behind one with jumps stays in its stage.
JumpNamesOnly == UNION {jumps[n] : n \in Members(order)}

\* A stage starts at every target of a jump and behind every pipeline that
\* has jumps.
JumpTargets ==
  (UNION {jumps[n] : n \in Members(order)})
    \cup {order[k + 1] : k \in {j \in 1 .. Len(order) - 1 : jumps[order[j]] # {}}}

\* current_name, current_jumps and funcs, with the stages added so far; ok until an
\* assertion of flush_stages fails.
Open(name) == [name |-> name, jumps |-> {}, funcs |-> << >>]

\* After every flush the name and the jumps have to be empty, also when there was
\* nothing to flush and they were left alone.
Flushed(f) ==
  IF f.cur.funcs = << >>
  THEN [f EXCEPT !.ok = @ /\ f.cur.name = NoName /\ f.cur.jumps = {}]
  ELSE [ok |-> f.ok /\ f.cur.name # NoName, cur |-> Open(NoName),
        out |-> Append(f.out, <<f.cur.name, f.cur.jumps, f.cur.funcs>>)]

AddPipeline(f, n) ==
  [(IF n \in JumpTargets THEN Flushed(f) ELSE f) EXCEPT
     !.cur = [name |-> IF n \in JumpTargets THEN <<n>> ELSE @.name,
              jumps |-> jumps[n], funcs |-> Append(@.funcs, n)]]

\* The loop over the pipelines; Folded[k] is its state after k of them.
StagesOf ==
  LET Folded[k \in 0 .. Len(order)] ==
        IF k = 0 THEN [ok |-> TRUE, cur |-> Open(<<order[1]>>), out |-> << >>]
                 ELSE AddPipeline(Folded[k - 1], order[k])
  IN  Flushed(Folded[Len(order)])

\* The order is complete: jump targets are looked up (an unknown one is an
\* error) and the stages are handed to the pass manager; assertions want a first
\* pipeline and the flushes in order.
Cut ==
  /\ phase = "sort"
  /\ stack = << >>
  /\ roots = {}
  /\ IF ~(UNION {jumps[n] : n \in Members(order)} \subseteq known)
     THEN Fail /\ UNCHANGED stages
     ELSE IF order = << >> \/ ~StagesOf.ok
     THEN Abort /\ UNCHANGED stages
     ELSE phase' = "done" /\ stages' = StagesOf.out
  /\ UNCHANGED <<calls, ordered, known, deps, walk>>

Finished == phase \in {"done", "error", "aborted"} /\ UNCHANGED vars

Next == Register \/ LinkDeps \/ VisitRoot \/ VisitPrev \/ Leave \/ Cut \/ Finished

Spec == Init /\ [][Next]_vars

FairSpec == Spec /\ WF_vars(Next)
-----------------------------------------------------------------------------
MaybeName == {NoName} \cup {<<n>> : n \in Pipelines}

TypeOK ==
  /\ phase \in {"register", "sort", "done", "error", "aborted"}
  /\ calls \in Seq(Declarations)
  /\ ordered \subseteq Pipelines
  /\ known \subseteq ordered
  /\ prev \in [Pipelines -> SUBSET Pipelines]
  /\ next \in [Pipelines -> SUBSET Pipelines]
  /\ jumps \in [Pipelines -> SUBSET Pipelines]
  /\ roots \subseteq Pipelines
  /\ visited \subseteq Pipelines
  /\ stack \in Seq(Pipelines)
  /\ todo \in [Pipelines -> SUBSET Pipelines]
  /\ order \in Seq(Pipelines)
  /\ stages \in Seq(MaybeName \X (SUBSET Pipelines) \X Seq(Pipelines))

\* Every pipeline that was named runs exactly once, after everything that was
\* registered as its predecessor, on either side of the relation.
OrderRespectsDeps ==
  phase = "done" =>
    /\ Members(order) = ordered
    /\ \A i, j \in DOMAIN order :
         /\ order[i] = order[j] => i = j
         /\ order[i] \in prev[order[j]] => i < j
         /\ order[j] \in next[order[i]] => i < j

\* What report_error refuses: a name given twice, a name that nobody registered,
\* or dependencies that no order can satisfy.
RefusedFor ==
  phase = "error" =>
    \/ calls # << >>
    \/ ~(ordered \subseteq known)
    \/ ~(UNION {jumps[n] : n \in known} \subseteq known)
    \/ \A rank \in [ordered -> 1 .. Cardinality(ordered)] :
         \E n \in ordered : \E p \in prev[n] : rank[p] >= rank[n]

\* What an assertion stops: no pipeline at all, or a stage that would have to start
\* in front of the very first pipeline, where flush_stages finds a name but no
\* functions (pipeline_registry.cpp:218).
AssertedFor == phase = "aborted" => order = << >> \/ order[1] \in JumpTargets

\* A registration is refused only for a reason, by an error or by an assertion.
ErrorsJustified == RefusedFor /\ AssertedFor

\* The stages, once they are made without a failing assertion, cover the order; a
\* pipeline with jumps ends its stage, so that its jumps are looked at right after
\* it ran, and every jump has a stage that begins with its target (compiler.cpp:137
\* and 150 assert the names).
StagesServeJumps ==
  phase = "done" =>
    LET upTo[k \in 0 .. Len(stages)] == IF k = 0 THEN << >> ELSE upTo[k - 1] \o stages[k][3]
    IN  /\ upTo[Len(stages)] = order
        /\ \A k \in DOMAIN stages :
             LET name == stages[k][1]  funcs == stages[k][3] IN
             /\ name = <<funcs[1]>>
             /\ \A f \in DOMAIN funcs : jumps[funcs[f]] # {} =>
                  f = Len(funcs) /\ stages[k][2] = jumps[funcs[f]]
             /\ \A j \in stages[k][2] : \E m \in DOMAIN stages : stages[m][1] = <<j>>

\* The sort and the loops end, whatever was registered.
Termination == <>(phase \in {"done", "error", "aborted"})
=============================================================================
