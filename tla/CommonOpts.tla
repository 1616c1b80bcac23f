----------------------------- MODULE CommonOpts -----------------------------
(***************************************************************************)
(* The rewrites that every optimization pass applies (common_opts.cpp):    *)
(* comparisons with a loop's bounds, conditional code that knows a value,  *)
(* common subexpressions, and accesses through a view; and the inlining of *)
(* calls that must be inlined.                                             *)
(***************************************************************************)
EXTENDS Rewriting

(***************************************************************************)
(* CmpLoopBoundsSimplify                                                   *)
(***************************************************************************)

\* The predicate with its operands swapped.
Swapped(pred) ==
    CASE pred = "sle" -> "sge" [] pred = "sge" -> "sle" [] pred = "slt" -> "sgt"
      [] pred = "sgt" -> "slt" [] OTHER -> pred

\* The normalized comparison: the index on the left.
Normalized(cmp, index) ==
    IF cmp.args[1] = index THEN <<cmp.op, cmp.args[2]>> ELSE <<Swapped(cmp.op), cmp.args[1]>>

BoundHandlers(for) ==
    << <<"sge", for.args[2], 0>>, <<"slt", for.args[1], 0>>,
       <<"sge", for.args[1], 1>>, <<"slt", for.args[2], 1>> >>

HandlersFor(for, cmp) ==
    SelectSeq(BoundHandlers(for), LAMBDA h : <<h[1], h[2]>> = Normalized(cmp, for.reg[1].args[1]))
IsBoundCmp(for, o) ==
    /\ o.op \in CompareOps
    /\ for.reg[1].args[1] \in ElemsOf(o.args)
    /\ HandlersFor(for, o) # <<>>

CmpLoopBoundsAt(ops, path, i) ==
    LET o == OpsAt(ops, path)[i]
    IN  o.op = "for" /\ \E u \in ElemsOf(Inside(o)) : IsBoundCmp(o, u)

RECURSIVE BoundsKnown(_, _)
BoundsKnown(for, ops) ==
    Map(ops, LAMBDA o : IF IsBoundCmp(for, o) THEN Const(o.res[1], HandlersFor(for, o)[1][3])
                        ELSE [o EXCEPT !.reg = Map(@, LAMBDA r :
                                                     [r EXCEPT !.ops = BoundsKnown(for, @)])])

CmpLoopBoundsSimplify(ops, path, i) ==
    LET o == OpsAt(ops, path)[i]
    IN  ReplaceOp(ops, path, i,
                  <<[o EXCEPT !.reg[1].ops = BoundsKnown(o, @)]>>, <<>>)

(***************************************************************************)
(* IfOpConstCond: where x = c holds, x is c. It also matches when nothing  *)
(* is left to replace.                                                     *)
(***************************************************************************)

BranchKnowing(cmp) == IF cmp.op = "eq" THEN 1 ELSE 2

\* The first block of the branch is taken without a look whether there is one.
NoSuchBlock(ops, o) == BranchKnowing(Def(ops, o.args[1])) \notin DOMAIN o.reg

KnownIn(ops, o) ==
    LET cmp == Def(ops, o.args[1])
        c == IF DefinedBy(ops, cmp.args[1], "const") THEN 1 ELSE 2
    IN  cmp.args[3 - c] :> cmp.args[c]
IfWithKnown(ops, o) ==
    LET r == BranchKnowing(Def(ops, o.args[1]))
    IN  IF NoSuchBlock(ops, o) THEN o ELSE [o EXCEPT !.reg[r].ops = Subst(@, KnownIn(ops, o))]

IfOpConstCondAt(ops, path, i) ==
    LET o == OpsAt(ops, path)[i]
    IN  /\ o.op = "if"
        /\ DefinedBy(ops, o.args[1], "eq") \/ DefinedBy(ops, o.args[1], "ne")
        /\ \E k \in {1, 2} : DefinedBy(ops, Def(ops, o.args[1]).args[k], "const")
IfOpConstCond(ops, path, i) ==
    ReplaceOp(ops, path, i, <<IfWithKnown(ops, OpsAt(ops, path)[i])>>, <<>>)

(***************************************************************************)
(* simplifyRegion of cse.cpp, not recursive: every region starts with an   *)
(* empty table. Operations with effects or regions are not entered in it.  *)
(***************************************************************************)

\* Mutant of Entered: an operation that reads memory counts as one without effects.
EnteredLoads(o) == o.op \in PureOps \cup {"load"}

Entered(o) == o.op \in PureOps

Equivalent(o, p) == o.op = p.op /\ o.args = p.args /\ o.attr = p.attr

RECURSIVE SimplifyRegion(_)
SimplifyRegion(ops) ==
    LET again == {j \in DOMAIN ops : Entered(ops[j]) /\
                    \E i \in 1..(j - 1) : Entered(ops[i]) /\ Equivalent(ops[i], ops[j])}
        j == CHOOSE j \in again : \A k \in again : j <= k
        i == CHOOSE i \in 1..(j - 1) : Entered(ops[i]) /\ Equivalent(ops[i], ops[j])
    IN  IF again # {} THEN SimplifyRegion(ReplaceOp(ops, <<>>, j, <<>>, Pairing(ops[j].res, ops[i].res)))
        ELSE Map(ops, LAMBDA o : [o EXCEPT !.reg = IF o.op = "call" THEN @ ELSE
                                    Map(@, LAMBDA r : [r EXCEPT !.ops = SimplifyRegion(@)])])

(***************************************************************************)
(* SubviewLoadPropagate, SubviewStorePropagate. A view [at, step, rank]    *)
(* starts at element at of its source and takes every step-th one.         *)
(***************************************************************************)

ViewOperand(o) == IF o.op = "load" THEN 1 ELSE 2
PlainView(view) == view.attr.rank = 1 /\ view.attr.at = 0 /\ view.attr.step = 1

SubviewAt(ops, path, i) ==
    LET o == OpsAt(ops, path)[i]
    IN  /\ o.op \in {"load", "store"}
        /\ DefinedBy(ops, o.args[ViewOperand(o)], "subview")
        /\ PlainView(Def(ops, o.args[ViewOperand(o)]))
SubviewPropagate(ops, path, i) ==
    LET o == OpsAt(ops, path)[i]
    IN  ReplaceOp(ops, path, i,
                  <<[o EXCEPT !.args[ViewOperand(o)] = Def(ops, @).args[1]]>>, <<>>)

(***************************************************************************)
(* ForceInline. The callee is known, has one block, and it or the call has *)
(* the attribute.                                                          *)
(***************************************************************************)

ForceInlineAt(ops, path, i) ==
    LET o == OpsAt(ops, path)[i] IN o.op = "call" /\ o.attr = "inline" /\ o.reg # <<>>

ForceInline(ops, path, i) ==
    LET o == OpsAt(ops, path)[i]
        callee == o.reg[1]
        m == [v \in DefsOf(callee.ops) |-> v \o o.res[1]] @@ Pairing(callee.args, o.args)
        res == NewNames(o.res[1], 0, Len(o.res))
    IN  ReplaceOp(ops, path, i, <<Op("reg", res, <<>>, 0, <<Region(<<>>, Renamed(callee.ops, m))>>)>>,
                  Pairing(o.res, res))
=============================================================================
