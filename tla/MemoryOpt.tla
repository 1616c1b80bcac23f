------------------------------ MODULE MemoryOpt ------------------------------
(***************************************************************************)
(* The memory optimizations of memory_rewrites.cpp, as applyOptimizations  *)
(* (plier_to_linalg.cpp) runs them on one function, and an execution of    *)
(* the function before and after them in lockstep.                         *)
(*                                                                         *)
(*   write     the function body is chosen, one operation at a time;       *)
(*   build     MemorySSAAnalysis is computed;                              *)
(*   optimize  optimizeMemoryOps runs its four functions over the nodes,   *)
(*             again as long as one of them changes something; a change    *)
(*             makes applyOptimizations rebuild the analysis and repeat;   *)
(*   run       both versions execute, taking the same branches.            *)
(*                                                                         *)
(* SSA values: <<"const", c>> is defined before all the operations,        *)
(* <<"load", p>> is the result of load p and <<"val", p>> the value that   *)
(* store p stores, defined next to the store.                              *)
(***************************************************************************)
EXTENDS MemorySSA, FiniteSets

CONSTANTS
  Families,    \* the bodies considered: each of at most len operations, which are
               \* loads and stores at an access <<reference, index>>, stores to
               \* an indirect reference at a loaded index, and markers
  MaxBack      \* bound: back edges taken in one execution

VARIABLES
  source,   \* the body as written
  body,     \* the body with the operands as rewritten
  there,    \* the operations that have not been erased
  repl,     \* for an erased load, the value its uses were given
  phase,
  graph,    \* the analysis
  pass,     \* index in funcs of the running function
  left,     \* the nodes it has still to visit
  changed,  \* optimizeMemoryOps: in this round, in any, and of which operations
  exec      \* the two executions

vars == <<source, body, there, repl, phase, graph, pass, left, changed, exec>>
optVars == <<graph, pass, left, changed>>

\* The constructor of the analysis optimizes the uses; then optimizeMemoryOps calls
\* its four functions until none of them changes anything.
Passes == <<"constructor", "optimizeUses", "foldLoads", "deadStoreElemination", "loadCSE">>
Openers == {"for", "if", "while"}
NoRef == "none"
-----------------------------------------------------------------------------
\* The structure of a body: the operations whose regions contain position p,
\* the innermost last.
Enter(b, stack, i) == CASE b[i].kind \in Openers -> Append(stack, i)
                        [] b[i].kind = "end"     -> Front(stack)
                        [] OTHER                 -> stack

Around(b, p) == Fold(LAMBDA stack, i : Enter(b, stack, i), <<>>, [i \in 1 .. p - 1 |-> i])

\* The separator ("else" or "do") and the end of the operation at p.
Parts(b, p) == {i \in p + 1 .. Len(b) : /\ b[i].kind \in {"else", "do", "end"}
                                        /\ Last(Around(b, i)) = p}
EndOf(b, p) == CHOOSE i \in Parts(b, p) : b[i].kind = "end"
MidOf(b, p) == LET mids == Parts(b, p) \ {EndOf(b, p)}
               IN  IF mids = {} THEN EndOf(b, p) ELSE CHOOSE i \in mids : TRUE

\* The region of an operation: the operation around it and its side of the
\* separator.
RegionOf(b, p) ==
  LET open == Around(b, p)
  IN  [i \in DOMAIN open |-> <<open[i], p > MidOf(b, open[i])>>]

\* DominanceInfo::properlyDominates in structured control flow.
ProperlyDominates(b, p, q) == p < q /\ IsPrefix(RegionOf(b, p), RegionOf(b, q))

\* What the value is defined by dominates operation p.
Visible(b, value, p) ==
  CASE value[1] = "const" -> TRUE
    [] value[1] = "load"  -> ProperlyDominates(b, value[2], p)
    [] value[1] = "val"   -> ProperlyDominates(b, value[2], p)
-----------------------------------------------------------------------------
Op(kind, ref, idx) == [kind |-> kind, ref |-> ref, idx |-> idx]
NoExec == [pc |-> 0]

Init ==
  /\ source = <<>>
  /\ body = <<>>
  /\ there = {}
  /\ repl = <<>>
  /\ phase = "write"
  /\ graph = RootOnly
  /\ pass = 1
  /\ left = <<>>
  /\ changed = [round |-> FALSE, any |-> FALSE, of |-> {}]
  /\ exec = NoExec

\* The next operation may follow what has been written so far. The header of a
\* loop, its before region, only computes the condition: no stores or calls.
Fits(op) ==
  LET open   == Around(source, Len(source) + 1)
      opener == IF open = <<>> THEN "none" ELSE source[Last(open)].kind
      mids   == IF open = <<>> THEN {}
                ELSE {i \in Last(open) + 1 .. Len(source) :
                        /\ source[i].kind \in {"else", "do"}
                        /\ Last(Around(source, i)) = Last(open)}
  IN  CASE op.kind = "else" -> opener = "if" /\ mids = {}
        [] op.kind = "do"   -> opener = "while" /\ mids = {}
        [] op.kind = "end"  -> opener \in {"for", "if"} \/ (opener = "while" /\ mids # {})
        [] OTHER -> /\ (opener = "while" /\ mids = {}) => op.kind = "load"
                    /\ op.idx[1] = "load" =>
                         /\ op.idx[2] \in DOMAIN source
                         /\ source[op.idx[2]].kind = "load"
                         /\ Around(source, op.idx[2]) = <<>>

Operations(family) ==
  {Op(k, a[1], <<"const", a[2]>>) : k \in {"load", "store"}, a \in family.accesses}
    \cup {Op("store", r, <<"load", p>>) : r \in family.indirect, p \in DOMAIN source}
    \cup {Op(k, NoRef, <<"const", NoRef>>) : k \in family.markers}

Write ==
  /\ phase = "write"
  /\ \E family \in Families :
       /\ Len(source) < family.len
       /\ Range(source) \subseteq Operations(family)
       /\ \E op \in Operations(family) : Fits(op) /\ source' = Append(source, op)
  /\ UNCHANGED <<body, there, repl, phase, exec, optVars>>

Written ==
  /\ phase = "write"
  /\ source # <<>>
  /\ Around(source, Len(source) + 1) = <<>>
  /\ phase' = "build"
  /\ body' = source
  /\ there' = DOMAIN source
  /\ repl' = [p \in DOMAIN source |-> <<"load", p>>]
  /\ UNCHANGED <<source, exec, optVars>>

\* Mutant of Build: the constructor does not optimize the uses.
BuildUnoptimized ==
  /\ phase = "build"
  /\ graph' = BuildMemorySSA(body, there)
  /\ phase' = "optimize"
  /\ pass' = 2
  /\ left' = graph'.nodes
  /\ changed' = [round |-> FALSE, any |-> FALSE, of |-> there]
  /\ UNCHANGED <<source, body, there, repl, exec>>

\* getAnalysis<MemorySSAAnalysis>: the graph is built, and the constructor goes on
\* to optimize its uses.
Build ==
  /\ phase = "build"
  /\ graph' = BuildMemorySSA(body, there)
  /\ phase' = "optimize"
  /\ pass' = 1
  /\ left' = graph'.nodes
  /\ changed' = [round |-> FALSE, any |-> FALSE, of |-> there]
  /\ UNCHANGED <<source, body, there, repl, exec>>
-----------------------------------------------------------------------------
Running(name) == phase = "optimize" /\ Passes[pass] = name

\* replaceAllUsesWith: a value takes the place of the result of load p.
Substituted(b, p, value) ==
  [i \in DOMAIN b |-> IF b[i].idx = <<"load", p>> THEN [b[i] EXCEPT !.idx = value] ELSE b[i]]

Redirected(r, p, value) ==
  [i \in DOMAIN r |-> IF r[i] = <<"load", p>> THEN value ELSE r[i]]

\* The function goes on to the first node it changes something at.
FirstWith(Changes(_)) ==
  /\ \E i \in DOMAIN left : Changes(left[i])
  /\ LET i == CHOOSE j \in DOMAIN left :
                Changes(left[j]) /\ \A k \in 1 .. j - 1 : ~Changes(left[k])
     IN  left' = SubSeq(left, i + 1, Len(left))
Current == left[Len(left) - Len(left')]
NoneWith(Changes(_)) == \A i \in DOMAIN left : ~Changes(left[i])

\* optimizeUses: a use moves up to the nearest node that may write what it reads.
Nearest(n)  == GetDef(graph, body, Dominator(graph, n), body[OpOf(n)])
UseMoves(n) == IsLive(graph, n) /\ Type(n) = "Use" /\ Nearest(n) # Dominator(graph, n)

OptimizeUse ==
  /\ Running("constructor") \/ Running("optimizeUses")
  /\ FirstWith(UseMoves)
  /\ graph' = SetArgument(graph, Current, 1, Nearest(Current))
  /\ changed' = IF Running("constructor") THEN changed
                ELSE [changed EXCEPT !.round = TRUE, !.any = TRUE]
  /\ UNCHANGED <<source, body, there, repl, phase, pass, exec>>

\* foldLoads: a load from where its Def has just stored becomes the value stored.
LoadFolds(n) ==
  /\ IsLive(graph, n) /\ Type(n) = "Use"
  /\ LET d == graph.args[n][1]
     IN  Type(d) = "Def" /\ MustAlias(body[OpOf(n)], body[OpOf(d)])

FoldLoad ==
  /\ Running("foldLoads")
  /\ FirstWith(LoadFolds)
  /\ LET p == OpOf(Current)
         value == <<"val", OpOf(graph.args[Current][1])>>
     IN  /\ body' = Substituted(body, p, value)
         /\ repl' = Redirected(repl, p, value)
         /\ there' = there \ {p}
         /\ graph' = EraseNode(graph, Current)
  /\ changed' = [changed EXCEPT !.round = TRUE, !.any = TRUE]
  /\ UNCHANGED <<source, phase, pass, exec>>

\* Mutant of NextDef: users that are no Def do not keep a store alive.
NextDefAnyPath(n) ==
  LET next == {u \in Users(graph, n) : Type(u) = "Def"}
  IN  IF Cardinality(next) = 1 THEN CHOOSE u \in next : TRUE ELSE None

\* getNextDef: the only user, if that is a Def.
NextDef(n) ==
  LET next == Users(graph, n)
  IN  IF Cardinality(next) = 1 /\ \A u \in next : Type(u) = "Def"
      THEN CHOOSE u \in next : TRUE ELSE None

\* deadStoreElemination: a store that only the next store at the same place sees.
StoreDies(n) ==
  /\ IsLive(graph, n) /\ Type(n) = "Def"
  /\ NextDef(n) # None
  /\ MustAlias(body[OpOf(n)], body[OpOf(NextDef(n))])

EraseDeadStore ==
  /\ Running("deadStoreElemination")
  /\ FirstWith(StoreDies)
  /\ there' = there \ {OpOf(Current)}
  /\ graph' = EraseNode(graph, Current)
  /\ changed' = [changed EXCEPT !.round = TRUE, !.any = TRUE]
  /\ UNCHANGED <<source, body, repl, phase, pass, exec>>
\* Mutant of Merged: the node of the erased load stays in the graph.
MergedNodeStays(s, p, first) ==
  IF ~ProperlyDominates(s.body, first, p) THEN s
  ELSE [s EXCEPT !.body = Substituted(@, p, <<"load", first>>),
                 !.repl = Redirected(@, p, <<"load", first>>),
                 !.there = @ \ {p}]

\* Two equal loads of the same memory state: the dominating one replaces the
\* other, if there is one.
Merged(s, p, first) ==
  LET Replace(old, new, map) ==
        [body  |-> Substituted(s.body, old, <<"load", new>>),
         repl  |-> Redirected(s.repl, old, <<"load", new>>),
         there |-> s.there \ {old},
         graph |-> EraseNode(s.graph, Use(old)),
         map   |-> map]
  IN  IF ProperlyDominates(s.body, p, first)
      THEN Replace(first, p, [k \in DOMAIN s.map |-> IF s.map[k] = first THEN p ELSE s.map[k]])
      ELSE IF ProperlyDominates(s.body, first, p) THEN Replace(p, first, s.map)
      ELSE s

\* loadCSE at one node: its users in the order of the list; opsMap takes each
\* load to the first one it is equal to.
Visit(s, u) ==
  IF Type(u) # "Use" \/ s.body[OpOf(u)].kind # "load" THEN s
  ELSE LET p    == OpOf(u)
           same == {k \in DOMAIN s.map : MustAlias(s.body[p], s.body[k])}
       IN  IF same = {} THEN [s EXCEPT !.map = With(@, p, p)]
           ELSE Merged(s, p, s.map[CHOOSE k \in same : TRUE])

CseAt(n) ==
  Fold(Visit,
       [body |-> body, repl |-> repl, there |-> there, graph |-> graph, map |-> <<>>],
       [i \in DOMAIN graph.users[n] |-> graph.users[n][i][1]])

LoadsMerge(n) == /\ IsLive(graph, n) /\ Type(n) \in {"Def", "Phi", "Root"}
                 /\ CseAt(n).there # there

LoadCSE ==
  /\ Running("loadCSE")
  /\ FirstWith(LoadsMerge)
  /\ LET s == CseAt(Current)
     IN  /\ body' = s.body
         /\ repl' = s.repl
         /\ there' = s.there
         /\ graph' = s.graph
  /\ changed' = [changed EXCEPT !.round = TRUE, !.any = TRUE]
  /\ UNCHANGED <<source, phase, pass, exec>>

\* The running function has visited all nodes. After the last one the functions
\* run again if any has changed something in this round; when none has, either
\* applyOptimizations repeats with a new analysis or the function is finished.
PassEnds ==
  /\ phase = "optimize"
  /\ CASE Running("constructor")          -> NoneWith(UseMoves)
       [] Running("optimizeUses")         -> NoneWith(UseMoves)
       [] Running("foldLoads")            -> NoneWith(LoadFolds)
       [] Running("deadStoreElemination") -> NoneWith(StoreDies)
       [] Running("loadCSE")              -> NoneWith(LoadsMerge)
  /\ LET last == pass = Len(Passes)
     IN  /\ pass' = IF last THEN 2 ELSE pass + 1
         /\ phase' = IF ~last \/ changed.round THEN "optimize"
                     ELSE IF changed.any THEN "build" ELSE "start"
         /\ changed' = IF last THEN [changed EXCEPT !.round = FALSE] ELSE changed
  /\ left' = graph.nodes
  /\ UNCHANGED <<source, body, there, repl, graph, exec>>
-----------------------------------------------------------------------------
\* An execution. Memory is [epoch, cells]: a location not in cells holds what it
\* held when the epoch began. Every store and every call makes fresh values.
Refs == UNION {{a[1] : a \in family.accesses} \cup family.indirect : family \in Families}
Untouched == [epoch |-> 0, cells |-> <<>>]
Read(memory, at) == IF at \in DOMAIN memory.cells THEN memory.cells[at]
                    ELSE <<"memory", memory.epoch, at>>

\* Two references are to the same array only if the alias analysis allows it;
\* indices may or may not be equal.
Start ==
  /\ phase = "start"
  /\ phase' = "run"
  /\ \E base \in [Refs -> Refs], equal \in BOOLEAN :
       /\ \A r, q \in Refs : base[r] = base[q] => <<r, q>> \in AliasPairs
       /\ \A r \in Refs : base[base[r]] = base[r]
       /\ exec' = [pc |-> 1, back |-> 0, base |-> base, equal |-> equal, clock |-> 0,
                   before |-> [memory |-> Untouched, env |-> <<>>],
                   after  |-> [memory |-> Untouched, env |-> <<>>]]
  /\ UNCHANGED <<source, body, there, repl, optVars>>

ValueOf(side, value) ==
  IF value[1] = "const" THEN (IF exec.equal THEN "the index" ELSE value[2])
  ELSE IF value \in DOMAIN side.env THEN side.env[value] ELSE "undefined"

Location(side, op) == <<exec.base[op.ref], ValueOf(side, op.idx)>>

Here == source[exec.pc]
Executing(kinds) == phase = "run" /\ exec.pc <= Len(source) /\ Here.kind \in kinds
Goto(pc) == exec' = [exec EXCEPT !.pc = pc]
RunOnly == UNCHANGED <<source, body, there, repl, phase, optVars>>

\* The result of a load that was erased is what its uses were given.
Load ==
  /\ Executing({"load"})
  /\ LET p == exec.pc
         old == Read(exec.before.memory, Location(exec.before, Here))
         new == IF p \in there THEN Read(exec.after.memory, Location(exec.after, body[p]))
                ELSE ValueOf(exec.after, repl[p])
     IN  exec' = [exec EXCEPT !.pc = p + 1,
                              !.before.env = <<"load", p>> :> old @@ @,
                              !.after.env = <<"load", p>> :> new @@ @]
  /\ RunOnly

Store ==
  /\ Executing({"store"})
  /\ LET p == exec.pc
         value == <<"stored", p, exec.clock>>
         To(side, op) == [memory |-> [side.memory EXCEPT !.cells = Location(side, op) :> value @@ @],
                          env    |-> <<"val", p>> :> value @@ side.env]
     IN  exec' = [exec EXCEPT !.pc = p + 1,
                              !.clock = @ + 1,
                              !.before = To(@, Here),
                              !.after = IF p \in there THEN To(@, body[p])
                                        ELSE [@ EXCEPT !.env = <<"val", p>> :> value @@ @]]
  /\ RunOnly

\* A copy or a call: reads all of memory and may leave anything in it.
Overwrite ==
  /\ Executing({"copy", "call"})
  /\ exec' = [exec EXCEPT !.pc = @ + 1,
                          !.clock = @ + 1,
                          !.before.memory = [epoch |-> exec.clock + 1, cells |-> <<>>],
                          !.after.memory = [epoch |-> exec.clock + 1, cells |-> <<>>]]
  /\ RunOnly

\* Control flow is that of the structured operations.
Branch ==
  /\ Executing({"for", "if", "while", "else", "do"})
  /\ LET p == exec.pc
         open == Last(Around(source, p))
     IN  CASE Here.kind = "for"   -> Goto(p + 1) \/ Goto(EndOf(source, p) + 1)
           [] Here.kind = "if"    -> Goto(p + 1) \/ Goto(MidOf(source, p) + 1)
           [] Here.kind = "while" -> Goto(p + 1)
           [] Here.kind = "else"  -> Goto(EndOf(source, open) + 1)
           [] Here.kind = "do"    -> Goto(EndOf(source, open) + 1)
                                     \/ (exec.back < MaxBack /\ Goto(p + 1))
  /\ RunOnly

End ==
  /\ Executing({"end"})
  /\ LET p == exec.pc
         open == Last(Around(source, p))
         Back(to) == exec' = [exec EXCEPT !.pc = to, !.back = @ + 1]
     IN  CASE source[open].kind = "if"    -> Goto(p + 1)
           [] source[open].kind = "for"   -> Goto(p + 1)
                                             \/ (exec.back < MaxBack /\ Back(open + 1))
           [] source[open].kind = "while" -> Back(open + 1)
  /\ RunOnly

Finish ==
  /\ phase = "run"
  /\ exec.pc > Len(source)
  /\ phase' = "done"
  /\ UNCHANGED <<source, body, there, repl, optVars, exec>>

\* A body that is complete or too long to be completed is the end of a behaviour.
Ended == phase \in {"write", "done"} /\ UNCHANGED vars

Optimize == Build \/ OptimizeUse \/ FoldLoad \/ EraseDeadStore \/ LoadCSE \/ PassEnds
Execute  == Start \/ Load \/ Store \/ Overwrite \/ Branch \/ End \/ Finish

Next == Write \/ Written \/ Optimize \/ Execute \/ Ended

Spec == Init /\ [][Next]_vars
-----------------------------------------------------------------------------
TypeOK ==
  /\ phase \in {"write", "build", "optimize", "start", "run", "done"}
  /\ pass \in DOMAIN Passes
  /\ there \subseteq DOMAIN body
  /\ DOMAIN repl = DOMAIN body
  /\ \A i \in DOMAIN graph.nodes :
       LET n == graph.nodes[i]
       IN  /\ Type(n) \in {"Root", "Term", "Phi", "Def", "Use"}
           /\ Type(n) \in {"Def", "Use"} => OpOf(n) \in there
           /\ Type(n) # "Root" => None \notin Range(graph.args[n])

\* Every load yields in the optimized function what it yields in the function as
\* it was written: loads are folded and merged only when nothing that may write
\* the location is between, on any path.
SameResults ==
  phase \in {"run", "done"} =>
    \A value \in DOMAIN exec.before.env : exec.before.env[value] = exec.after.env[value]

\* What a copy or the caller finds in memory is what it would have found without
\* the stores that deadStoreElemination removed.
SameMemory ==
  phase = "done" \/ Executing({"copy", "call"}) =>
    \A at \in DOMAIN exec.before.memory.cells \cup DOMAIN exec.after.memory.cells :
      Read(exec.before.memory, at) = Read(exec.after.memory, at)

\* The use lists and the arguments of the nodes agree: the list of a node has each
\* argument that is this node, once.
UseListsAgree ==
  \A n \in Range(graph.nodes) :
    /\ Range(graph.users[n]) =
         {use \in Range(graph.nodes) \X (1 .. 2) :
            use[2] \in DOMAIN graph.args[use[1]] /\ graph.args[use[1]][use[2]] = n}
    /\ IsInjective(graph.users[n])

\* No live node hangs on an erased one.
NothingDangles ==
  \A n \in Range(graph.nodes) : Range(graph.args[n]) \subseteq Range(graph.nodes)

\* In the use list of a node no load dominates an equal one that comes before
\* it, so loadCSE never leaves an erased operation as a key of opsMap.
UsersInOrder ==
  phase = "optimize" =>
    \A n \in Range(graph.nodes) :
      LET users == graph.users[n]
      IN  \A i, j \in DOMAIN users :
            /\ i < j
            /\ Type(users[i][1]) = "Use" /\ Type(users[j][1]) = "Use"
            /\ MustAlias(body[OpOf(users[i][1])], body[OpOf(users[j][1])])
            => ~ProperlyDominates(body, OpOf(users[j][1]), OpOf(users[i][1]))

\* The graph stays consistent while it is rewritten: all of the above after every step.
GraphConsistent == UseListsAgree /\ NothingDangles /\ UsersInOrder

\* applyOptimizations reaches its fixed point: it repeats with a new analysis
\* only after an operation was erased.
RepeatsAfterErasure ==
  [][phase = "optimize" /\ phase' = "build" => there # changed.of]_vars
=============================================================================
