------------------------------ MODULE MemorySSA ------------------------------
(***************************************************************************)
(* The memory SSA graph of memory_ssa.cpp: a chain of nodes over the       *)
(* memory operations of one function, with a Phi at every loop and branch. *)
(*                                                                         *)
(* A function body is a sequence of operations; structured control flow is *)
(* flattened: "for" ... "end", "if" ... "else" ... "end" and               *)
(* "while" ... "do" ... "end" (scf.while: the before region, then the      *)
(* after region). The other kinds are "load" and "store" (of reference ref *)
(* at index idx), "copy" (an operation with other memory effects) and      *)
(* "call" (std.call). An operation is named by its position.               *)
(*                                                                         *)
(* A node is <<type, operation>>. A graph is a record:                     *)
(*   nodes  the live nodes in order of creation (the intrusive list)       *)
(*   args   the arguments of every node                                    *)
(*   users  for every node the <<user, argument index>> pairs, in order    *)
(*   dom, pdom  the dominator and postDominator fields, None when not set  *)
(* An erased node keeps its record: the allocator does not reuse it.       *)
(***************************************************************************)
EXTENDS Integers, Sequences, FiniteSets, SequencesExt

CONSTANTS
  None,       \* a null pointer
  AliasPairs  \* pairs of references for which AliasAnalysis does not say "no"

Root    == <<"Root", 0>>
Term    == <<"Term", 0>>
Def(p)  == <<"Def", p>>
Use(p)  == <<"Use", p>>
Phi(p)  == <<"Phi", p>>
Type(n) == n[1]
OpOf(n) == n[2]

NodeTypes == {"Root", "Term", "Def", "Use", "Phi"}
ASSUME NoneAssumption == None \notin NodeTypes \X Nat

\* f with a value for x.
With(f, x, value) == [y \in DOMAIN f \cup {x} |-> IF y = x THEN value ELSE f[y]]

\* A list without the element e, which is in it at most once.
Without(list, e) ==
  IF Contains(list, e) THEN RemoveAt(list, CHOOSE i \in DOMAIN list : list[i] = e) ELSE list

RootOnly == [nodes |-> <<Root>>, args |-> [n \in {Root} |-> <<>>], users |-> [n \in {Root} |-> <<>>],
             dom |-> [n \in {Root} |-> None], pdom |-> [n \in {Root} |-> None]]

\* FoldLeft of SequencesExt, with every intermediate result evaluated just once.
Fold(op(_, _), base, seq) ==
  LET Upto[k \in 0 .. Len(seq)] ==
        IF k = 0 THEN base
        ELSE CHOOSE r \in {op(t, seq[k]) : t \in {Upto[k - 1]}} : TRUE
  IN  Upto[Len(seq)]

IsLive(g, n) == Contains(g.nodes, n)
Users(g, n)  == {g.users[n][i][1] : i \in DOMAIN g.users[n]}
-----------------------------------------------------------------------------
\* Mutant of SetArgument: the old argument keeps its use.
SetArgumentKeepUse(g, n, i, new) ==
  [g EXCEPT !.args[n][i] = new,
            !.users = IF new = None THEN @ ELSE [@ EXCEPT ![new] = Append(@, <<n, i>>)]]

\* Node::setArgument.
SetArgument(g, n, i, new) ==
  LET old     == g.args[n][i]
      without == IF old = None THEN g.users
                 ELSE [g.users EXCEPT ![old] = Without(@, <<n, i>>)]
  IN  [g EXCEPT !.args[n][i] = new,
                !.users = IF new = None THEN without
                          ELSE [without EXCEPT ![new] = Append(@, <<n, i>>)]]

\* All arguments of a node, which has one unless it is a Phi of two.
SetArguments(g, n, arguments) ==
  LET first == SetArgument(g, n, 1, arguments[1])
  IN  IF Len(arguments) = 1 THEN first ELSE SetArgument(first, n, 2, arguments[2])

\* createNode: the constructor registers the node as a user of its arguments.
CreateNode(g, n, arguments) ==
  SetArguments([nodes |-> Append(g.nodes, n),
                args  |-> With(g.args, n, [i \in DOMAIN arguments |-> None]),
                users |-> With(g.users, n, <<>>),
                dom   |-> With(g.dom, n, None),
                pdom  |-> With(g.pdom, n, None)],
               n, arguments)

\* setDominator and setPostDominator, called in pairs.
Dominates(g, n, m) == [g EXCEPT !.dom[m] = n, !.pdom[n] = m]

\* setArgument(i, to) for every use of a node: to gets them, in their order.
ReplaceUses(g, n, to) ==
  LET uses == Range(g.users[n])
      moved(u) == [i \in DOMAIN g.args[u] |-> IF <<u, i>> \in uses THEN to ELSE g.args[u][i]]
  IN  [g EXCEPT !.args = [u \in DOMAIN g.args |-> moved(u)],
                !.users[n] = <<>>,
                !.users[to] = @ \o g.users[n]]

\* The part of eraseNode for a Def: its users move to the previous node, which
\* also takes the node's place in the dominator fields.
Bypass(g, n) ==
  LET prev  == g.args[n][1]
      moved == ReplaceUses(g, n, prev)
      post  == g.pdom[n]
  IN  IF post = None THEN moved
      ELSE [moved EXCEPT !.dom[post] = prev,
                         !.pdom[prev] = IF @ = None THEN post ELSE @]

\* eraseNode: the destructor drops the node from its arguments' users.
EraseNode(g, n) ==
  LET h == IF Type(n) = "Def" THEN Bypass(g, n) ELSE g
  IN  [SetArguments(h, n, [i \in DOMAIN h.args[n] |-> None]) EXCEPT !.nodes = Without(@, n)]

\* getDominator.
Dominator(g, n) ==
  IF g.dom[n] # None THEN g.dom[n]
  ELSE IF n = Root THEN None ELSE g.args[n][1]
-----------------------------------------------------------------------------
\* memSSAProcessRegion, one operation at a time: s.g is the graph, s.cur the
\* current node and s.open the operations whose regions are being processed,
\* with the node before the operation and what is known of its results.
Opened(s, p, entry, phi) ==
  Append(s.open, [op |-> p, entry |-> entry, phi |-> phi, result |-> None])

Innermost(s) == Last(s.open)
Closed(s)    == Front(s.open)

\* hasMemEffect: an operation that writes becomes a Def, one that reads a Use.
\* A call has no MemoryEffectOpInterface, so neither.
Reads(op)  == op.kind \in {"load", "copy"}
Writes(op) == op.kind \in {"store", "copy"}

AddAccess(s, p, op) ==
  LET new     == Def(p)
      written == IF ~Writes(op) THEN s
                 ELSE [s EXCEPT !.g = Dominates(CreateNode(s.g, new, <<s.cur>>), s.cur, new),
                                !.cur = new]
  IN  IF ~Reads(op) THEN written
      ELSE [written EXCEPT !.g = CreateNode(written.g, Use(p), <<written.cur>>)]

\* A loop gets a Phi of its body's last node and of the node before it.
EnterFor(s, p) ==
  [s EXCEPT !.g = CreateNode(s.g, Phi(p), <<None, s.cur>>),
            !.cur = Phi(p),
            !.open = Opened(s, p, s.cur, Phi(p))]

\* The Phi of a loop whose body has no Def is taken out again.
LeaveFor(s) ==
  LET r == Innermost(s)
  IN  IF s.cur # r.phi
      THEN [g    |-> Dominates(SetArgument(s.g, r.phi, 1, s.cur), r.entry, r.phi),
            cur  |-> r.phi,
            open |-> Closed(s)]
      ELSE [g    |-> EraseNode(ReplaceUses(s.g, r.phi, r.entry), r.phi),
            cur  |-> r.entry,
            open |-> Closed(s)]

\* scf.if: both regions start at the node before it.
EnterIf(s, p) == [s EXCEPT !.open = Opened(s, p, s.cur, None)]

Else(s) ==
  [s EXCEPT !.cur = Innermost(s).entry,
            !.open = Append(Closed(s), [Innermost(s) EXCEPT !.result = s.cur])]

LeaveIf(s) ==
  LET r    == Innermost(s)
      phi  == Phi(r.op)
      prev == IF r.result = None THEN <<r.entry, s.cur>> ELSE <<r.result, s.cur>>
  IN  [g    |-> Dominates(CreateNode(s.g, phi, prev), r.entry, phi),
       cur  |-> phi,
       open |-> Closed(s)]

\* scf.while (RegionVisitor): the before region starts at a Phi of the node
\* before the loop and of the after region's last node, and is what comes after
\* the loop.
EnterWhile(s, p) ==
  [s EXCEPT !.g = Dominates(CreateNode(s.g, Phi(p), <<None, None>>), s.cur, Phi(p)),
            !.cur = Phi(p),
            !.open = Opened(s, p, s.cur, Phi(p))]

Do(s) == [s EXCEPT !.open = Append(Closed(s), [Innermost(s) EXCEPT !.result = s.cur])]

LeaveWhile(s) ==
  LET r == Innermost(s)
  IN  [g    |-> SetArgument(SetArgument(s.g, r.phi, 1, r.entry), r.phi, 2, s.cur),
       cur  |-> r.result,
       open |-> Closed(s)]

Process(s, p, op, opener) ==
  CASE op.kind = "for"   -> EnterFor(s, p)
    [] op.kind = "if"    -> EnterIf(s, p)
    [] op.kind = "while" -> EnterWhile(s, p)
    [] op.kind = "else"  -> Else(s)
    [] op.kind = "do"    -> Do(s)
    [] op.kind = "end"   -> (CASE opener = "for"   -> LeaveFor(s)
                               [] opener = "if"    -> LeaveIf(s)
                               [] opener = "while" -> LeaveWhile(s))
    [] OTHER             -> AddAccess(s, p, op)

ProcessIfThere(body, there, s, p) ==
  IF p \notin there THEN s
  ELSE Process(s, p, body[p], IF s.open = <<>> THEN "none" ELSE body[Innermost(s).op].kind)

\* buildMemorySSA over the operations of body that are still there.
BuildMemorySSA(body, there) ==
  LET start == [g |-> RootOnly, cur |-> Root, open |-> <<>>]
      last  == Fold(LAMBDA s, p : ProcessIfThere(body, there, s, p), start, [p \in DOMAIN body |-> p])
  IN  CreateNode(last.g, Term, <<last.cur>>)
-----------------------------------------------------------------------------
IsAccess(op) == op.kind \in {"load", "store"}

\* Mutant of MayAlias: only accesses through the same reference conflict.
MayAliasSameRef(op1, op2) == IsAccess(op1) /\ IsAccess(op2) => op1.ref = op2.ref

\* mayAlias of MemorySSAAnalysis::optimizeUses.
MayAlias(op1, op2) ==
  IsAccess(op1) /\ IsAccess(op2) => <<op1.ref, op2.ref>> \in AliasPairs

\* MustAlias: the same reference and the same index values.
MustAlias(op1, op2) ==
  /\ IsAccess(op1) /\ IsAccess(op2)
  /\ op1.ref = op2.ref
  /\ op1.idx = op2.idx

\* The nodes that checkPhisAlias looks at after node n, on its way to stop.
Predecessors(g, n, stop) ==
  ({Dominator(g, n)} \cup (IF Type(n) = "Phi" THEN Range(g.args[n]) ELSE {})) \ {stop, None}

\* The nodes reached, and those one step back from them.
Behind(g, stop, reached) == reached \cup UNION {Predecessors(g, n, stop) : n \in reached}

\* Enough steps to reach every node, the erased ones too: a dominator may be one.
Steps(g) == [i \in 1 .. Cardinality(DOMAIN g.args) |-> i]

\* Mutant of PathNodes: only the first way into the Phi is looked at.
PathNodesFirstArg(g, phi, stop) ==
  Fold(LAMBDA reached, i : Behind(g, stop, reached), {g.args[phi][1]} \ {stop, None}, Steps(g))

\* checkPhisAlias visits every node on the paths into the Phi.
PathNodes(g, phi, stop) ==
  Fold(LAMBDA reached, i : Behind(g, stop, reached), Range(g.args[phi]) \ {stop, None}, Steps(g))

\* Whether the walk of getDef for the operation ends at node n.
Clobbers(g, body, n, op) ==
  CASE Type(n) = "Def" -> MayAlias(body[OpOf(n)], op)
    [] Type(n) = "Phi" -> \E d \in PathNodes(g, n, Dominator(g, n)) :
                            Type(d) = "Def" /\ MayAlias(body[OpOf(d)], op)
    [] OTHER           -> TRUE

\* getDef.
GetDef(g, body, from, op) ==
  LET Walk[n \in DOMAIN g.args] ==
        IF Dominator(g, n) = None \/ Clobbers(g, body, n, op) THEN n
        ELSE Walk[Dominator(g, n)]
  IN  Walk[from]
=============================================================================
