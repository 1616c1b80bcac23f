----------------------------- MODULE RangeLoops -----------------------------
(***************************************************************************)
(* lowerRange and lowerWhileToFor: a while over the iterator of a range    *)
(* becomes a loop with an induction variable. Loops only count upwards, so *)
(* a range with an unknown step becomes two loops of which one runs.       *)
(***************************************************************************)
EXTENDS Rewriting

\* Suffixes of new names.
Zero == 201
Step1 == 202
Neg == 203
Iv == 204
Sign == 205
ForRes == 206
LastIter == 207

\* get_next_op over the operations of the condition's block: iternext, perhaps pairfirst,
\* pairsecond, casts of it, condition.
Shape(before) ==
    LET first == before[2].op = "pairfirst"
        s == IF first THEN 3 ELSE 2
        casts == (s + 1) .. (Len(before) - 1)
    IN  /\ Len(before) >= 3
        /\ before[1].op = "iternext"
        /\ Len(before) > s
        /\ before[s].op = "pairsecond"
        /\ \A k \in casts : before[k].op = "cast"
        /\ Last(before).args[1] \in UNION {ElemsOf(before[k].res) : k \in {s} \cup casts}

\* range(hi), range(lo, hi) or range(lo, hi, step) over which the while iterates.
RangeOf(ops, while) == Def(ops, Def(ops, while.reg[1].ops[1].args[1]).args[1])

RangeLoopAt(ops, path, i) ==
    LET o == OpsAt(ops, path)[i]
    IN  /\ o.op = "while"
        /\ Shape(o.reg[1].ops)
        /\ DefinedBy(ops, o.reg[1].ops[1].args[1], "getiter")
        /\ DefinedBy(ops, Def(ops, o.reg[1].ops[1].args[1]).args[1], "range")

\* A result of the while is used that is neither a carried value nor the loop variable:
\* nothing takes its place, which an assertion refuses.
ResultsLeft(ops, path, i) ==
    LET while == OpsAt(ops, path)[i]
        before == while.reg[1]
        replaced == ElemsOf(before.args) \cup
                    IF before.ops[2].op = "pairfirst" THEN ElemsOf(before.ops[2].res) ELSE {}
    IN  \E k \in DOMAIN while.res :
          Last(before.ops).args[k + 1] \notin replaced /\ ~Unused(ops, while.res[k])

\* get_last_iter_value: lower + (upper - lower) / step * step.
LastIterValue(base, lo, hi, step) ==
    LET n(k) == base \o <<LastIter, k>>
    IN  << Pure("sub", <<n(1)>>, <<hi, lo>>), Pure("sdiv", <<n(2)>>, <<n(1), step>>),
           Pure("mul", <<n(3)>>, <<n(2), step>>), Pure("add", <<n(4)>>, <<lo, n(3)>>) >>

\* parallel: the attribute that prange's caller sets on the loop.
LowerWhileToFor(ops, path, i) ==
    LET while == OpsAt(ops, path)[i]
        before == while.reg[1]
        after == while.reg[2]
        p == before.ops[1].res[1]
        first == IF before.ops[2].op = "pairfirst" THEN before.ops[2].res[1] ELSE <<>>
        passed == Tail(Last(before.ops).args)
        range == RangeOf(ops, while)
        zero == NewName(p, Zero)
        one == NewName(p, Step1)
        lo == IF Len(range.args) >= 2 THEN range.args[1] ELSE zero
        hi == IF Len(range.args) >= 2 THEN range.args[2] ELSE range.args[1]
        step == IF Len(range.args) = 3 THEN range.args[3] ELSE one
        neg(v) == v \o <<Neg>> \o p
        negate(v) == Pure("sub", <<neg(v)>>, <<zero, v>>)
        \* the loop for one sign of the step
        body(positive, sign) ==
            LET iv == p \o <<Iv, sign>>
                val == p \o <<Iv, sign, 1>>
                iters == NewNames(p, Iv + 10 + sign, Len(before.args))
                outer == Pairing(before.args, iters)
                given == [v \in ElemsOf(after.args) |->
                            LET k == CHOOSE k \in DOMAIN after.args : after.args[k] = v
                            IN  IF passed[k] = first THEN val ELSE Img(outer, passed[k])]
            IN  Region(<<iv>> \o iters,
                       (IF positive THEN <<>> ELSE <<negate(iv)>>)
                         \o << Pure("cast", <<val>>, <<IF positive THEN iv ELSE neg(iv)>>) >>
                         \o Renamed(after.ops, CloneMap(after.ops, given @@ outer, sign)))
        res(sign) == NewNames(p, ForRes + 10 + sign, Len(before.args))
        genFor(positive, sign) ==
            (IF positive THEN <<>> ELSE <<negate(lo), negate(hi), negate(step)>>)
              \o << Op("for", res(sign),
                       (IF positive THEN <<lo, hi, step>> ELSE <<neg(lo), neg(hi), neg(step)>>)
                         \o while.args,
                       [par |-> range.attr], <<body(positive, sign)>>),
                    Yield(res(sign)) >>
        known == Len(range.args) < 3 \/ DefinedBy(ops, step, "const")
        up == Len(range.args) < 3 \/ Def(ops, step).attr >= 0
        results == NewNames(p, ForRes, Len(before.args))
        loop == IF known THEN Op("reg", results, <<>>, 0, <<Region(<<>>, genFor(up, 1))>>)
                ELSE Op("if", results, <<NewName(p, Sign)>>, 0,
                        <<Region(<<>>, genFor(TRUE, 1)), Region(<<>>, genFor(FALSE, 2))>>)
        lastUsed == \E k \in DOMAIN passed :
                      passed[k] = first /\ ~Unused(ops, while.res[k])
        lastIter == IF lastUsed THEN LastIterValue(p, lo, hi, step) ELSE <<>>
        new == << Const(zero, 0), Const(one, 1),
                  Pure("sge", <<NewName(p, Sign)>>, <<step, zero>>), loop >> \o lastIter
        m == [v \in ElemsOf(while.res) |->
                LET k == CHOOSE k \in DOMAIN while.res : while.res[k] = v
                IN  IF passed[k] = first THEN p \o <<LastIter, 4>>
                    ELSE Img(Pairing(before.args, results), passed[k])]
        lowered == ReplaceOp(ops, path, i, new, m)
        \* the iterator and the range have no users left
        gone == {range.res[1], before.ops[1].args[1]}
    IN  SetOps(lowered, path, SelectSeq(OpsAt(lowered, path), LAMBDA o :
               o.op \notin {"range", "getiter"} \/ ElemsOf(o.res) \cap gone = {}))
=============================================================================
