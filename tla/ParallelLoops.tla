---------------------------- MODULE ParallelLoops ----------------------------
(***************************************************************************)
(* From sequential to parallel loops: CanonicalizeReduction turns a cell   *)
(* that a loop accumulates in into a value carried by the loop,            *)
(* PromoteToParallel turns carried values into reductions and the loop     *)
(* into a parallel one, MergeNestedForIntoParallel joins a nest of loops.  *)
(***************************************************************************)
EXTENDS Rewriting

(***************************************************************************)
(* CanonicalizeReduction                                                   *)
(***************************************************************************)

Carried == 301
Iter == 302

Ref(o) == IF o.op = "load" THEN o.args[1] ELSE o.args[2]
Index(o) == IF o.op = "load" THEN o.args[2] ELSE o.args[3]
Accesses(ops, v) == SelectSeq(ops, LAMBDA o : o.op \in {"load", "store"} /\ Ref(o) = v)

\* Of the accesses in the block, the first is a load and the second a store to the same
\* cell, and there are no others.
OneLoadOneStore(body, v) ==
    LET a == Accesses(body, v)
    IN  Len(a) = 2 /\ a[1].op = "load" /\ a[2].op = "store" /\ Index(a[1]) = Index(a[2])

\* checkMemref: the array is new, no view of it is made, no access of it is in a nested
\* block, and the cell does not depend on the loop.
CheckMemref(ops, for, v) ==
    LET body == for.reg[1].ops
        nested == SelectSeq(Walk(body), LAMBDA o : o \notin ElemsOf(body))
    IN  /\ DefinedBy(ops, v, "alloc")
        /\ \A o \in ElemsOf(Walk(ops)) : o.op = "subview" => v \notin ElemsOf(o.args)
        /\ Accesses(nested, v) = <<>>
        /\ OneLoadOneStore(body, v)
        /\ Index(Accesses(body, v)[1]) \notin DefsOf(body) \cup ElemsOf(for.reg[1].args)
        /\ \A o \in ElemsOf(body) : v \in ElemsOf(o.args) => o.op \in {"load", "store"}

ToProcess(ops, for) ==
    Map(SelectSeq(for.reg[1].ops, LAMBDA o : o.op = "load" /\ CheckMemref(ops, for, Ref(o))),
        LAMBDA o : <<Ref(o), Index(o)>>)
CanonicalizeReductionAt(ops, path, i) ==
    LET o == OpsAt(ops, path)[i] IN o.op = "for" /\ ToProcess(ops, o) # <<>>

CanonicalizeReduction(ops, path, i) ==
    LET for == OpsAt(ops, path)[i]
        cells == ToProcess(ops, for)
        iv == for.reg[1].args[1]
        body == for.reg[1].ops
        base == iv
        inits == NewNames(base, Carried, Len(cells))
        newIv == NewName(base, Iter)
        old == Tail(for.reg[1].args)
        iters == NewNames(base, Iter, Len(old) + Len(cells))
        slot(o) == Len(old) + CHOOSE k \in DOMAIN cells : cells[k][1] = Ref(o)
        processed(o) == o.op \in {"load", "store"} /\ \E k \in DOMAIN cells : cells[k][1] = Ref(o)
        m == CloneMap(body, [v \in ElemsOf(Tail(for.reg[1].args)) |-> Pairing(old, iters)[v]]
                              @@ (iv :> newIv), Iter)
        \* the values that replace loads: what the iteration started with
        loaded == [v \in UNION {ElemsOf(o.res) : o \in ElemsOf(SelectSeq(body, processed))} |->
                     iters[slot(CHOOSE o \in ElemsOf(body) : o.res = <<v>>)]]
        full == loaded @@ m
        stored(k) == CHOOSE o \in ElemsOf(body) :
                       o.op = "store" /\ processed(o) /\ slot(o) = Len(old) + k
        rest == SelectSeq(Front(body), LAMBDA o : ~processed(o))
        yields == [k \in DOMAIN iters |->
                     \* the results of the old yield are copied as they are
                     IF k <= Len(old) THEN Last(body).args[k]
                     \* mapping.lookup: a value from outside the loop has no entry
                     ELSE LET v == stored(k - Len(old)).args[1]
                          IN  IF v \in DOMAIN full THEN full[v] ELSE <<>>]
        res == NewNames(base, Carried + 10, Len(iters))
        new == [k \in DOMAIN cells |-> Pure("load", <<inits[k]>>, cells[k])]
                 \o << Op("for", res, for.args \o inits, for.attr,
                          <<Region(<<newIv>> \o iters, Append(Renamed(rest, full), Yield(yields)))>>) >>
                 \o [k \in DOMAIN cells |->
                       Pure("store", <<>>, <<res[Len(old) + k]>> \o cells[k])]
    IN  ReplaceOp(ops, path, i, new, Pairing(for.res, res))

(***************************************************************************)
(* PromoteToParallel                                                       *)
(***************************************************************************)

\* Mutant of HasSideEffects: reading counts as an effect.
HasSideEffectsLoads(o) ==
    \E u \in ElemsOf(Inside(o)) : u.op \in {"load", "store", "call", "emit"}

HasSideEffects(o) == \E u \in ElemsOf(Inside(o)) : u.op \in {"store", "call", "emit"}

\* Mutant of CanParallelizeLoop: side effects are not looked for.
CanParallelizeLoopAlways(o, hasParallelAttr) == TRUE

CanParallelizeLoop(o, hasParallelAttr) == hasParallelAttr \/ ~HasSideEffects(o)

\* The operations from a carried value to the yield, each the only user of the one
\* before; <<>> if there is no such chain. The walk goes on to users without a result.
RECURSIVE ChainFrom(_, _, _, _)
ChainFrom(ops, for, o, slot) ==
    LET body == for.reg[1].ops
        yield == Last(body)
        next == SingleUser(ops, o.res[1])
        rest == ChainFrom(ops, for, next, slot)
    IN  IF o.res = <<>> THEN <<o>>
        ELSE IF ~HasOneUse(ops, o.res[1]) THEN <<>>
        ELSE IF next = yield
        THEN IF yield.args[slot] = o.res[1] THEN <<o>> ELSE <<>>
        ELSE IF \E v \in ElemsOf(next.args) \ {o.res[1]} :
                  v \in ElemsOf(ResultsOf(body)) \cup ElemsOf(for.reg[1].args)
        THEN <<>>
        ELSE IF rest = <<>> THEN <<>> ELSE <<o>> \o rest
Chain(ops, for, slot) ==
    LET v == for.reg[1].args[slot + 1]
        first == SingleUser(ops, v)
    IN  IF ~HasOneUse(ops, v) THEN <<>>
        ELSE IF Len(first.args) # 2 \/ Len(first.res) # 1 THEN <<>>
        ELSE ChainFrom(ops, for, first, slot)

\* The walk asks such a user for its result, which an assertion refuses; another one
\* refuses to clone an operation with several.
WithoutResult(ops, path, i) ==
    LET o == OpsAt(ops, path)[i]
        found(k) == Chain(ops, o, k) # <<>>
    IN  \/ \E k \in DOMAIN o.res :
             (\A j \in 1..k : found(j)) /\ Last(Chain(ops, o, k)).res = <<>>
        \/ /\ \A k \in DOMAIN o.res : found(k)
           /\ \E k \in DOMAIN o.res : \E u \in ElemsOf(Chain(ops, o, k)) : Len(u.res) # 1

PromoteAt(ops, path, i) ==
    LET o == OpsAt(ops, path)[i]
    IN  /\ o.op = "for"
        /\ CanParallelizeLoop(o, o.attr.par = 1)
        /\ WithoutResult(ops, path, i) \/ \A k \in DOMAIN o.res : Chain(ops, o, k) # <<>>

PromoteToParallel(ops, path, i) ==
    LET for == OpsAt(ops, path)[i]
        body == for.reg[1].ops
        chains == [k \in DOMAIN for.res |-> Chain(ops, for, k)]
        inChain == UNION {ElemsOf(chains[k]) : k \in DOMAIN chains}
        rest == SelectSeq(Front(body), LAMBDA o : o \notin inChain)
        reduce(k) ==
            LET c == chains[k]
                first == c[1]
                acc == for.reg[1].args[k + 1]
                operand == IF first.args[1] = acc THEN first.args[2] ELSE first.args[1]
                vals == NewNames(acc, Iter, 2)
                \* operand 0 is the accumulator and operand 1 the element, always
                m == CloneMap(c, Pairing(first.args, vals), Iter)
            IN  Op("reduce", <<>>, <<operand>>, 0,
                   <<Region(vals, Append(Renamed(c, m), Yield(<<Img(m, Last(c).res[1])>>)))>>)
        new == Op("parallel", for.res, for.args, [dims |-> 1, par |-> for.attr.par],
                  <<Region(<<for.reg[1].args[1]>>, rest \o [k \in DOMAIN chains |-> reduce(k)])>>)
    IN  ReplaceOp(ops, path, i, <<new>>, <<>>)

(***************************************************************************)
(* MergeNestedForIntoParallel, at the for that contains the parallel loop  *)
(***************************************************************************)

\* Mutant of BoundsOutside: the bounds of the inner loop are not looked at.
BoundsOutsideAlways(o, for) == TRUE

BoundsOutside(o, for) ==
    \A k \in 1..(3 * o.attr.dims) :
      o.args[k] \notin ElemsOf(ResultsOf(for.reg[1].ops)) \cup ElemsOf(for.reg[1].args)

MergeNestedAt(ops, path, i) ==
    LET for == OpsAt(ops, path)[i]
        body == for.reg[1].ops
        o == body[1]
        carried == Tail(for.reg[1].args)
    IN  /\ for.op = "for"
        /\ Len(body) = 2
        /\ o.op = "parallel"
        /\ Len(o.res) = Len(carried)
        /\ \A k \in DOMAIN carried :
             /\ HasOneUse(ops, carried[k])
             /\ o.args[3 * o.attr.dims + k] = carried[k]
             /\ body[2].args[k] = o.res[k]
        /\ BoundsOutside(o, for)
        /\ CanParallelizeLoop(o, o.attr.par = 1)

MergeNested(ops, path, i) ==
    LET for == OpsAt(ops, path)[i]
        o == for.reg[1].ops[1]
        n == o.attr.dims
        part(k) == <<for.args[k]>> \o SubSeq(o.args, (k - 1) * n + 1, k * n)
        inits == SubSeq(for.args, 4, Len(for.args))
        new == Op("parallel", for.res, part(1) \o part(2) \o part(3) \o inits,
                  [o.attr EXCEPT !.dims = n + 1],
                  <<Region(<<for.reg[1].args[1]>> \o o.reg[1].args, o.reg[1].ops)>>)
    IN  ReplaceOp(ops, path, i, <<new>>, <<>>)
=============================================================================
