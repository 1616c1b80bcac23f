------------------------------ MODULE Rewriting ------------------------------
(***************************************************************************)
(* Rewriting structured operations. A function is a sequence of operations *)
(* that ends with a return; a block of it is named by the path of regions  *)
(* that lead to it, an operation by its block and its place there.         *)
(* This is MLIR's PatternRewriter and Operation, which are libraries, as   *)
(* the patterns of this repository use them.                               *)
(***************************************************************************)
EXTENDS Ir

\* The body of a callee is no part of the function.
Regions(o) == IF o.op = "call" THEN <<>> ELSE o.reg

RECURSIVE BlockPaths(_), OpsAt(_, _), SetOps(_, _, _)
BlockPaths(ops) ==
    {<<>>} \cup UNION {
        UNION {{<<i, r>> \o p : p \in BlockPaths(ops[i].reg[r].ops)}
                 : r \in DOMAIN Regions(ops[i])} : i \in DOMAIN ops}
OpsAt(ops, path) ==
    IF path = <<>> THEN ops
    ELSE OpsAt(ops[path[1]].reg[path[2]].ops, SubSeq(path, 3, Len(path)))
SetOps(ops, path, new) ==
    IF path = <<>> THEN new
    ELSE [ops EXCEPT ![path[1]].reg[path[2]].ops = SetOps(@, SubSeq(path, 3, Len(path)), new)]

\* walk: an operation and everything inside it, in order.
RECURSIVE Walk(_)
Walk(ops) == Flatten(Map(ops, LAMBDA o : <<o>> \o Flatten(Map(Regions(o), LAMBDA r : Walk(r.ops)))))
Inside(o) == Walk(<<o>>)

DefinedBy(ops, v, kind) ==
    \E o \in ElemsOf(Walk(ops)) : v \in ElemsOf(o.res) /\ o.op = kind
Def(ops, v) == CHOOSE o \in ElemsOf(Walk(ops)) : v \in ElemsOf(o.res)

\* The uses of v: pairs of a place in the walk and an operand.
UsesIn(ops, v) ==
    LET w == Walk(ops) IN {<<k, j>> \in (DOMAIN w) \X (1..12) : j \in DOMAIN w[k].args /\ w[k].args[j] = v}
Unused(ops, v) == UsesIn(ops, v) = {}
HasOneUse(ops, v) == Cardinality(UsesIn(ops, v)) = 1
SingleUser(ops, v) == LET w == Walk(ops) IN w[(CHOOSE u \in UsesIn(ops, v) : TRUE)[1]]

\* Operation i of the block at path makes way for new, its results for those of m.
ReplaceOp(ops, path, i, new, m) ==
    LET b == OpsAt(ops, path)
    IN  Subst(SetOps(ops, path, SubSeq(b, 1, i - 1) \o new \o SubSeq(b, i + 1, Len(b))), m)
Pairing(names, vals) ==
    [v \in ElemsOf(names) |-> vals[CHOOSE k \in DOMAIN names : names[k] = v]]

ResultsOf(ops) == Flatten(Map(ops, LAMBDA o : o.res))

NewName(base, k) == base \o <<k>>
NewNames(base, k, n) == [i \in 1..n |-> base \o <<k, i>>]

PureOps == ArithOps \cup {"const", "cast", "select"}
CompareOps == {"eq", "ne", "slt", "sle", "sgt", "sge"}

(***************************************************************************)
(* The canonicalization MLIR brings along, as far as it matters here.      *)
(***************************************************************************)

\* One step in a block: an if with a constant condition becomes the branch taken, a
\* region with one block its operations, an operation of constants a constant; an unused
\* operation without effects goes.
Foldable(ops, o) ==
    \/ o.op = "if" /\ DefinedBy(ops, o.args[1], "const")
    \/ o.op = "reg"
    \/ o.op \in ArithOps /\ \A k \in DOMAIN o.args : DefinedBy(ops, o.args[k], "const")
Dead(ops, o) ==
    o.op \in PureOps \cup {"alloc"} /\ \A v \in ElemsOf(o.res) : Unused(ops, v)

Fold(ops, path, i) ==
    LET o == OpsAt(ops, path)[i]
        taken == IF o.op = "reg" \/ Def(ops, o.args[1]).attr = 1 THEN 1 ELSE 2
        inner == o.reg[taken].ops
        attr(k) == Def(ops, o.args[k]).attr
    IN  IF Dead(ops, o) THEN ReplaceOp(ops, path, i, <<>>, <<>>)
        ELSE IF o.op \in ArithOps
        THEN ReplaceOp(ops, path, i, <<Const(o.res[1], Arith(o.op, attr(1), attr(2)))>>, <<>>)
        ELSE IF taken \notin DOMAIN o.reg THEN ReplaceOp(ops, path, i, <<>>, <<>>)
        ELSE ReplaceOp(ops, path, i, Front(inner), Pairing(o.res, Last(inner).args))

\* Constants are kept at the start of the function.
Hoist(ops) ==
    LET isConst(o) == o.op = "const"
        RECURSIVE Rest(_)
        Rest(os) == Map(SelectSeq(os, LAMBDA o : ~isConst(o)), LAMBDA o :
                        IF Regions(o) = <<>> THEN o
                        ELSE [o EXCEPT !.reg = Map(@, LAMBDA r : [r EXCEPT !.ops = Rest(@)])])
    IN  SelectSeq(Walk(ops), isConst) \o Rest(ops)

RECURSIVE Canonical(_)
Canonical(ops) ==
    LET h == Hoist(ops)
        at == {<<p, i>> \in BlockPaths(h) \X (1..20) :
                 /\ i \in DOMAIN OpsAt(h, p)
                 /\ Foldable(h, OpsAt(h, p)[i]) \/ Dead(h, OpsAt(h, p)[i])}
        a == CHOOSE a \in at : TRUE
    IN  IF at = {} THEN h ELSE Canonical(Fold(h, a[1], a[2]))
=============================================================================
