----------------------------- MODULE LoopFusion -----------------------------
(***************************************************************************)
(* prepareForFusion and naivelyFuseParallelOps (loop_utils.cpp): what      *)
(* stands between two parallel loops moves out of the way, and loops with  *)
(* one iteration space become one loop.                                    *)
(***************************************************************************)
EXTENDS Rewriting

\* Operations with regions may have any effect; a call is taken to have none, and so is
\* the release of an array.
HasNoEffect(o) == Regions(o) = <<>> /\ o.op \notin {"load", "store"}

IsParallel(o) == o.op = "parallel"
HasNestedParallelOp(o) == \E u \in ElemsOf(Walk(o.reg[1].ops)) : IsParallel(u)

(***************************************************************************)
(* fuseIfLegal                                                             *)
(***************************************************************************)

EqualIterationSpaces(o, p) ==
    /\ o.attr.dims = p.attr.dims
    /\ SubSeq(o.args, 1, 3 * o.attr.dims) = SubSeq(p.args, 1, 3 * p.attr.dims)

StoresOf(o, ref) == SelectSeq(Walk(o.reg[1].ops), LAMBDA u : u.op = "store" /\ u.args[2] = ref)

\* What o writes, p reads in the same iteration at most; indices: from o's to p's.
NoReadsAfterWriteExceptSameIndex(o, p, indices) ==
    \A load \in {u \in ElemsOf(Walk(p.reg[1].ops)) : u.op = "load"} :
      LET writes == StoresOf(o, load.args[1])
      IN  /\ load.args[1] \notin ElemsOf(ResultsOf(p.reg[1].ops))
          /\ \/ writes = <<>>
             \/ Len(writes) = 1 /\ Img(indices, writes[1].args[3]) = load.args[2]

IsFusionLegal(o, p) ==
    /\ ~HasNestedParallelOp(o) /\ ~HasNestedParallelOp(p)
    /\ EqualIterationSpaces(o, p)
    /\ ElemsOf(o.res) \cap UsesOf(<<p>>) = {}
    /\ NoReadsAfterWriteExceptSameIndex(o, p, Pairing(o.reg[1].args, p.reg[1].args))
    /\ NoReadsAfterWriteExceptSameIndex(p, o, Pairing(p.reg[1].args, o.reg[1].args))

\* The values the fused loop starts with, and so its results: the second loop's first.
FusedResults(o, p) == p.res \o o.res

\* The first loop's body is put before the second's, its reduces at the end.
Fused(o, p) ==
    LET n == 3 * p.attr.dims
        isReduce(u) == u.op = "reduce"
        first == Renamed(o.reg[1].ops, Pairing(o.reg[1].args, p.reg[1].args))
        notReduce == SelectSeq(first, LAMBDA u : ~isReduce(u))
    IN  [p EXCEPT !.res = FusedResults(o, p),
                  !.args = @ \o SubSeq(o.args, n + 1, Len(o.args)),
                  !.reg[1].ops = notReduce \o @ \o SelectSeq(first, isReduce)]

(***************************************************************************)
(* naivelyFuseParallelOps. In a block, chains of parallel loops with       *)
(* nothing between two of them that has an effect or uses a result of the  *)
(* loop before it.                                                         *)
(***************************************************************************)

Between(ops, i, j) ==
    \A k \in (i + 1)..(j - 1) :
      HasNoEffect(ops[k]) /\ ElemsOf(ops[k].args) \cap ElemsOf(ops[i].res) = {}

NextLoop(ops, i) ==
    LET later == {j \in (i + 1)..Len(ops) : IsParallel(ops[j])}
    IN  IF later = {} THEN 0 ELSE CHOOSE j \in later : \A k \in later : j <= k

\* The links of the chains are found once; then, from the first loop on, each is fused
\* with the next one if that is linked and legal.
Gone == Op("gone", <<>>, <<>>, 0, <<>>)

RECURSIVE FuseFrom(_, _, _), NaivelyFuse(_)
FuseFrom(ops, i, linked) ==
    LET j == NextLoop(ops, i)
    IN  IF j = 0 THEN ops
        ELSE IF <<i, j>> \in linked /\ IsFusionLegal(ops[i], ops[j])
        THEN FuseFrom([ops EXCEPT ![j] = Fused(ops[i], ops[j]), ![i] = Gone], j, linked)
        ELSE FuseFrom(ops, j, linked)
NaivelyFuse(ops) ==
    LET inner == Map(ops, LAMBDA o : IF Regions(o) = <<>> THEN o ELSE
                       [o EXCEPT !.reg = Map(@, LAMBDA r : [r EXCEPT !.ops = NaivelyFuse(@)])])
        loops == {i \in DOMAIN inner : IsParallel(inner[i])}
        linked == {<<i, j>> \in loops \X loops : j = NextLoop(inner, i) /\ Between(inner, i, j)}
    IN  SelectSeq(FuseFrom(inner, 0, linked), LAMBDA o : o # Gone)

(***************************************************************************)
(* prepareForFusion. From a parallel loop backwards to the one before it:  *)
(* what has no effect and is used after the loop only moves behind it.     *)
(***************************************************************************)

\* Mutant of CanMove: what uses another value stays.
CanMoveUnused(ops, k, loop) == ops[k].args = <<>> /\ ElemsOf(ops[k].res) \cap UsesOf(ops) = {}

CanMove(ops, k, loop) ==
    /\ HasNoEffect(ops[k])
    /\ \A v \in ElemsOf(ops[k].res) : v \notin UsesOf(SubSeq(ops, k + 1, loop))

RECURSIVE MoveBehind(_, _, _)
MoveBehind(ops, k, loop) ==
    IF k = 0 \/ (k > 0 /\ IsParallel(ops[k])) THEN ops
    ELSE IF CanMove(ops, k, loop)
    THEN MoveBehind(SubSeq(ops, 1, k - 1) \o SubSeq(ops, k + 1, loop) \o <<ops[k]>>
                      \o SubSeq(ops, loop + 1, Len(ops)), k - 1, loop - 1)
    ELSE MoveBehind(ops, k - 1, loop)

RECURSIVE PrepareFrom(_, _), PrepareForFusion(_)
PrepareFrom(ops, i) ==
    LET loop == NextLoop(ops, i)
        id == ops[loop]
        moved == MoveBehind(ops, loop - 1, loop)
        at == CHOOSE k \in DOMAIN moved : moved[k] = id
    IN  IF loop = 0 THEN ops ELSE PrepareFrom(moved, at)
PrepareForFusion(ops) ==
    PrepareFrom(Map(ops, LAMBDA o : IF Regions(o) = <<>> THEN o ELSE
                      [o EXCEPT !.reg = Map(@, LAMBDA r : [r EXCEPT !.ops = PrepareForFusion(@)])]), 0)
=============================================================================
