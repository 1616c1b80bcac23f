---------------------------- MODULE PlierLowerer ----------------------------
(***************************************************************************)
(* plier_lowerer in mlir_compiler/src/lowering.cpp: the numba IR of one    *)
(* function becomes a graph of blocks, one block after the other, with the *)
(* arguments for the phi nodes added at the end.                           *)
(***************************************************************************)
EXTENDS PySource

VARIABLES
    func_ir,      \* the numba IR
    vars_map,     \* the value each variable name stands for
    done,         \* how many blocks are lowered
    outgoing,     \* for each block, the phi nodes its terminator feeds
    graph         \* block |-> [args, ops, term]

vars == <<func_ir, vars_map, done, outgoing, graph>>

One == 100                \* the suffix of the name of an operation's constant
Labels == ElemsOf(func_ir.order)
Entry == func_ir.order[1]
NoTerm == [op |-> "none", cond |-> <<>>, dest |-> <<>>, vals |-> <<>>]

InitFor(ir) ==
    /\ func_ir = ir
    /\ vars_map = <<>>
    /\ done = 0
    /\ outgoing = [l \in ElemsOf(ir.order) |-> <<>>]
    /\ graph = [l \in ElemsOf(ir.order) |->
                  [args |-> IF l = ir.order[1] THEN [i \in DOMAIN Params |-> <<Argument, i>>]
                            ELSE <<>>,
                   ops |-> <<>>, term |-> NoTerm]]

(***************************************************************************)
(* One block. c is what the lowering of an instruction may change: the     *)
(* variables, the operations and arguments of the current block, its       *)
(* terminator, and the phi nodes announced to other blocks.                *)
(***************************************************************************)

\* Of numba's operators, those of PySource: "inc" is an addition, "ask" a predicate
\* that is computed by a call.
Operation(op, res, args, attr) ==
    CASE op = "inc" -> << Const(Append(res, One), 1),
                          Pure("add", <<res>>, args \o <<Append(res, One)>>) >>
      [] op = "ask" -> << Op("emit", <<>>, args, attr, <<>>),
                          Op("test", <<res>>, args, attr, <<>>) >>
      [] OTHER -> << Op(op, IF op = "emit" THEN <<>> ELSE <<res>>, args, attr, <<>>) >>

\* storevar(lower_assign(inst)): the value itself for a variable, an argument of the
\* block for a phi, else the result of a new operation on the loaded variables.
LowerAssign(inst, l, c) ==
    LET e == inst.value
        val == IF e.kind = "var" THEN c.map[e.vars[1]] ELSE inst.target
        phi(b) == [dest |-> l, var |-> e.vars[CHOOSE i \in DOMAIN e.from : e.from[i] = b],
                   arg |-> Len(c.args) + 1]
    IN  [c EXCEPT
           !.map = (inst.target :> val) @@ @,
           !.ops = CASE e.kind = "expr" -> @ \o Operation(e.op, val, ImgSeq(c.map, e.vars), e.attr)
                     [] e.kind = "arg" -> Append(@, Op("arg", <<val>>, <<>>, e.attr, <<>>))
                     [] OTHER -> @,
           !.args = IF e.kind = "phi" THEN Append(@, val) ELSE @,
           !.phis = IF e.kind = "phi"
                    THEN [b \in DOMAIN @ |-> IF b \in ElemsOf(e.from)
                                             THEN Append(@[b], phi(b)) ELSE @[b]]
                    ELSE @]

\* retvar, branch and jump.
LowerTerm(inst, c) ==
    LET vals == ImgSeq(c.map, inst.vars)
    IN  [c EXCEPT !.term =
          [op |-> CASE inst.inst = "branch" -> "condbr"
                    [] inst.inst = "jump" -> "br" [] OTHER -> "return",
           cond |-> IF inst.inst = "branch" THEN vals ELSE <<>>,
           dest |-> inst.dest,
           vals |-> IF inst.inst = "return" THEN <<vals>> ELSE Map(inst.dest, LAMBDA d : <<>>)]]

RECURSIVE LowerInsts(_, _, _)
LowerInsts(insts, l, c) ==
    IF insts = <<>> THEN c
    ELSE LowerInsts(Tail(insts), l,
                    IF Head(insts).inst = "assign" THEN LowerAssign(Head(insts), l, c)
                    ELSE LowerTerm(Head(insts), c))

LowerBlock ==
    /\ done < Len(func_ir.order)
    /\ LET l == func_ir.order[done + 1]
           c == LowerInsts(func_ir.body[l], l,
                           [map |-> vars_map, ops |-> <<>>, args |-> graph[l].args, term |-> NoTerm,
                            phis |-> outgoing])
       IN  /\ graph' = [graph EXCEPT ![l] = [args |-> c.args, ops |-> c.ops, term |-> c.term]]
           /\ vars_map' = c.map
           /\ outgoing' = c.phis
    /\ done' = done + 1
    /\ UNCHANGED func_ir

\* build_arg_list for the successor dest of block l.
ArgList(l, dest) ==
    LET here == SelectSeq(outgoing[l], LAMBDA o : o.dest = dest)
    IN  [i \in DOMAIN here |->
           vars_map[here[CHOOSE k \in DOMAIN here : here[k].arg = i].var]]

FixupPhis ==
    /\ done = Len(func_ir.order)
    /\ graph' = [l \in Labels |->
                   IF outgoing[l] = <<>> THEN graph[l]
                   ELSE [graph[l] EXCEPT !.term.vals =
                           Map(graph[l].term.dest, LAMBDA d : ArgList(l, d))]]
    /\ done' = done + 1
    /\ UNCHANGED <<func_ir, vars_map, outgoing>>

Lowered == done > Len(func_ir.order)
=============================================================================
