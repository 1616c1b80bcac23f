--------------------------------- MODULE Ir ---------------------------------
(***************************************************************************)
(* Operations with results, operands and regions, as the rewrites of this  *)
(* compiler see them, and what it means to execute them.                   *)
(*                                                                         *)
(*   operation  [op, res, args, attr, reg]   reg: a sequence of regions    *)
(*   region     [args, ops]                  the last one is a terminator  *)
(*   block      [args, ops, term]            of a control flow graph       *)
(*   term       [op, cond, dest, vals]       dest, vals: one per successor *)
(*                                                                         *)
(* A value is named by a sequence; a copy of an operation gets the names   *)
(* of its results from the original ones, extended by a tag. Integers are  *)
(* integers, an i1 is 0 or 1.                                              *)
(*                                                                         *)
(* The operations are those of the standard, scf and plier dialects, which *)
(* are libraries: this module is modelled from how the code uses them.     *)
(***************************************************************************)
EXTENDS Integers, Sequences, FiniteSets, TLC

\* An execution is cut off after so many effects, or five times as many tests.
CONSTANT MaxTrace

Undef == -99              \* a value that no operation has computed

Op(op, res, args, attr, reg) ==
    [op |-> op, res |-> res, args |-> args, attr |-> attr, reg |-> reg]
Pure(op, res, args) == Op(op, res, args, 0, <<>>)
Const(res, n) == Op("const", <<res>>, <<>>, n, <<>>)
Yield(vals) == Pure("yield", <<>>, vals)
Region(args, ops) == [args |-> args, ops |-> ops]

Last(s) == s[Len(s)]
Front(s) == SubSeq(s, 1, Len(s) - 1)
ElemsOf(s) == {s[i] : i \in DOMAIN s}
Map(s, F(_)) == [i \in DOMAIN s |-> F(s[i])]
RECURSIVE Flatten(_)
Flatten(ss) == IF ss = <<>> THEN <<>> ELSE Head(ss) \o Flatten(Tail(ss))

(***************************************************************************)
(* Names                                                                   *)
(***************************************************************************)

Img(m, v) == IF v \in DOMAIN m THEN m[v] ELSE v
ImgSeq(m, s) == [i \in DOMAIN s |-> Img(m, s[i])]

\* The values defined by ops and by the regions in them.
RECURSIVE DefsOf(_)
DefsOf(ops) ==
    UNION {ElemsOf(ops[i].res)
             \cup UNION {ElemsOf(ops[i].reg[j].args) \cup DefsOf(ops[i].reg[j].ops)
                           : j \in DOMAIN ops[i].reg} : i \in DOMAIN ops}

\* The values read by ops, and those read inside their regions only.
RECURSIVE UsesOf(_)
UsesOf(ops) ==
    UNION {ElemsOf(ops[i].args)
             \cup UNION {UsesOf(ops[i].reg[j].ops) : j \in DOMAIN ops[i].reg}
             : i \in DOMAIN ops}
NestedUses(ops) ==
    UNION {UsesOf(ops[i].reg[j].ops) : <<i, j>> \in
             {p \in (DOMAIN ops) \X {1, 2} : p[2] \in DOMAIN ops[p[1]].reg}}

\* replaceAllUsesWith inside ops: operands are mapped, results are kept.
RECURSIVE Subst(_, _)
Subst(ops, m) ==
    [i \in DOMAIN ops |->
        [ops[i] EXCEPT !.args = ImgSeq(m, @),
                       !.reg = [j \in DOMAIN @ |->
                                  [@[j] EXCEPT !.ops = Subst(@, m)]]]]

\* builder.clone with a mapping: results get names of their own.
RECURSIVE Renamed(_, _)
Renamed(ops, m) ==
    [i \in DOMAIN ops |->
        [ops[i] EXCEPT !.args = ImgSeq(m, @), !.res = ImgSeq(m, @),
                       !.reg = [j \in DOMAIN @ |->
                                  [args |-> ImgSeq(m, @[j].args),
                                   ops |-> Renamed(@[j].ops, m)]]]]
CloneMap(ops, m, tag) == [v \in DefsOf(ops) |-> Append(v, tag)] @@ m
Clone(ops, m, tag) == Renamed(ops, CloneMap(ops, m, tag))

(***************************************************************************)
(* Execution. The state of one: the values, the memory, the trace of what  *)
(* an observer sees, what the last terminator passed on, and whether it    *)
(* was cut off. oracle[k][x] is the answer of the opaque predicate k.      *)
(***************************************************************************)

Start(env, mem) ==
    [env |-> env, mem |-> mem, out |-> <<>>, ret |-> <<>>, red |-> <<>>,
     asked |-> 0, cut |-> FALSE]

Get(st, v) == IF v \in DOMAIN st.env THEN st.env[v] ELSE Undef
GetSeq(st, s) == [i \in DOMAIN s |-> Get(st, s[i])]
Bind(st, names, vals) ==
    [st EXCEPT !.env = [i \in ElemsOf(names) |->
        vals[CHOOSE k \in DOMAIN names : names[k] = i]] @@ @]
Emit(st, event) ==
    IF Len(st.out) < MaxTrace THEN [st EXCEPT !.out = Append(@, event)]
    ELSE [st EXCEPT !.cut = TRUE]
Ask(st) == [st EXCEPT !.asked = @ + 1, !.cut = @ \/ st.asked = 5 * MaxTrace]

\* A reference to an array: where its element 0 is and how far apart elements are.
Whole(id) == [id |-> id, at |-> 0, step |-> 1]
Cell(ref, i) == <<ref.id, ref.at + i * ref.step>>

Bit(b) == IF b THEN 1 ELSE 0
Answer(oracle, k, x) == IF x \in DOMAIN oracle[k] THEN Bit(oracle[k][x]) ELSE 0

\* SignedDivIOp rounds towards zero.
SDiv(a, b) == IF (a < 0) = (b < 0) THEN (IF a < 0 THEN (-a) \div (-b) ELSE a \div b)
              ELSE -((IF a < 0 THEN -a ELSE a) \div (IF b < 0 THEN -b ELSE b))

Compare(op, a, b) ==
    CASE op = "eq" -> a = b  [] op = "ne" -> a # b  [] op = "slt" -> a < b
      [] op = "sle" -> a <= b  [] op = "sgt" -> a > b  [] op = "sge" -> a >= b

Arith(op, a, b) ==
    CASE op = "add" -> a + b  [] op = "sub" -> a - b  [] op = "mul" -> a * b
      [] op = "sdiv" -> SDiv(a, b)
      [] op = "and" -> a * b
      [] op = "xor" -> Bit(a # b)
      [] OTHER -> Bit(Compare(op, a, b))

ArithOps == {"add", "sub", "mul", "sdiv", "and", "xor",
             "eq", "ne", "slt", "sle", "sgt", "sge"}

RECURSIVE RunOps(_, _, _, _), RunWhile(_, _, _, _, _), RunFor(_, _, _, _, _, _, _),
          RunParallel(_, _, _, _, _, _)

RunRegion(region, vals, st, orc, dir) ==
    RunOps(region.ops, Bind(st, region.args, vals), orc, dir)

RunWhile(op, vals, st, orc, dir) ==
    LET b == RunRegion(op.reg[1], vals, st, orc, dir)
        a == RunRegion(op.reg[2], Tail(b.ret), b, orc, dir)
    IN  IF b.cut THEN b
        ELSE IF Head(b.ret) # 1 THEN Bind(b, op.res, Tail(b.ret))
        ELSE IF a.cut THEN a
        ELSE RunWhile(op, a.ret, a, orc, dir)

RunFor(op, i, ub, vals, st, orc, dir) ==
    LET s == Get(st, op.args[3])
        b == RunRegion(op.reg[1], <<i>> \o vals, st, orc, dir)
    IN  IF st.cut \/ i >= ub \/ s < 1 THEN Bind(st, op.res, vals)
        ELSE RunFor(op, i + s, ub, b.ret, b, orc, dir)

\* The values of the induction variables of a loop nest, in order; dir 2 goes backwards.
\* attr.dims loops: the lower bounds, upper bounds and steps come first in args.
RECURSIVE Iterations(_, _, _)
Iterations(a, n, d) ==
    IF d = 0 THEN << <<>> >>
    ELSE LET count == (a[n + d] - a[d] + a[2 * n + d] - 1) \div a[2 * n + d]
             ivs == [k \in 1 .. (IF count > 0 THEN count ELSE 0) |-> a[d] + (k - 1) * a[2 * n + d]]
             outer == Iterations(a, n, d - 1)
         IN  Flatten(Map(outer, LAMBDA o : Map(ivs, LAMBDA i : Append(o, i))))
Backwards(s) == [i \in DOMAIN s |-> s[Len(s) + 1 - i]]

\* The operands of the reduces of one iteration are collected in st.red and then
\* combined, each with its own result.
ReducesOf(region) == SelectSeq(region.ops, LAMBDA o : o.op = "reduce")
RunParallel(op, todo, accs, st, orc, dir) ==
    LET b == RunRegion(op.reg[1], Head(todo), [st EXCEPT !.red = <<>>], orc, dir)
        reduces == ReducesOf(op.reg[1])
        next == [k \in DOMAIN accs |->
                   RunRegion(reduces[k].reg[1], <<accs[k], b.red[k]>>, b, orc, dir).ret[1]]
    IN  IF todo = <<>> \/ st.cut THEN Bind(st, op.res, accs)
        ELSE RunParallel(op, Tail(todo), next, [b EXCEPT !.red = st.red], orc, dir)

\* An iterator is [at, hi, st]; iternext gives a pair and moves it on.
NextPair(it) == IF (it.st > 0 /\ it.at < it.hi) \/ (it.st < 0 /\ it.at > it.hi)
            THEN <<it.at, 1>> ELSE <<it.at - it.st, 0>>

Exec(op, st, orc, dir) ==
    LET a == GetSeq(st, op.args)
    IN  CASE op.op = "const" -> Bind(st, op.res, <<op.attr>>)
          [] op.op \in ArithOps -> Bind(st, op.res, <<Arith(op.op, a[1], a[2])>>)
          [] op.op = "test" -> Ask(Bind(st, op.res, <<Answer(orc, op.attr, a[1])>>))
          [] op.op = "select" -> Bind(st, op.res, <<IF a[1] = 1 THEN a[2] ELSE a[3]>>)
          [] op.op = "emit" -> Emit(st, <<op.attr, a>>)
          [] op.op = "arg" -> Bind(st, op.res, <<Get(st, <<4, op.attr>>)>>)
          [] op.op = "undef" -> Bind(st, op.res, <<Undef>>)
          [] op.op = "load" ->
                Bind(st, op.res, <<IF Cell(a[1], a[2]) \in DOMAIN st.mem
                                   THEN st.mem[Cell(a[1], a[2])] ELSE Undef>>)
          [] op.op = "store" ->
                [st EXCEPT !.mem = (Cell(a[2], a[3]) :> a[1]) @@ @]
          [] op.op = "if" ->
                LET k == IF a[1] = 1 THEN 1 ELSE 2
                    b == RunRegion(op.reg[k], <<>>, st, orc, dir)
                IN  IF k \notin DOMAIN op.reg THEN st
                    ELSE IF b.cut THEN b ELSE Bind(b, op.res, b.ret)
          [] op.op = "while" -> RunWhile(op, a, st, orc, dir)
          [] op.op = "for" -> RunFor(op, a[1], a[2], SubSeq(a, 4, Len(a)), st, orc, dir)
          [] op.op = "cast" -> Bind(st, op.res, a)
          [] op.op = "range" ->
                Bind(st, op.res, << [at |-> IF Len(a) = 1 THEN 0 ELSE a[1],
                                     hi |-> IF Len(a) = 1 THEN a[1] ELSE a[2],
                                     st |-> IF Len(a) = 3 THEN a[3] ELSE 1] >>)
          [] op.op = "getiter" -> Bind(st, op.res, a)
          [] op.op = "iternext" ->
                Bind(Bind(st, op.args, <<[a[1] EXCEPT !.at = @ + NextPair(a[1])[2] * a[1].st]>>),
                     op.res, <<NextPair(a[1])>>)
          [] op.op = "pairfirst" -> Bind(st, op.res, <<a[1][1]>>)
          [] op.op = "pairsecond" -> Bind(st, op.res, <<a[1][2]>>)
          [] op.op = "alloc" -> Bind(st, op.res, <<Whole(op.res[1])>>)
          [] op.op = "subview" ->
                Bind(st, op.res, <<[a[1] EXCEPT !.at = @ + op.attr.at * a[1].step,
                                                !.step = @ * op.attr.step]>>)
          [] op.op \in {"reg", "call"} ->
                LET b == RunRegion(op.reg[1], a, st, orc, dir)
                IN  IF b.cut THEN b ELSE Bind(b, op.res, b.ret)
          [] op.op = "parallel" ->
                LET n == op.attr.dims
                    its == Iterations(a, n, n)
                IN  RunParallel(op, IF dir = 1 THEN its ELSE Backwards(its),
                                SubSeq(a, 3 * n + 1, Len(a)), st, orc, dir)
          [] op.op = "reduce" -> [st EXCEPT !.red = Append(@, a[1])]
          [] OTHER -> [st EXCEPT !.ret = a]

RunOps(ops, st, orc, dir) ==
    IF ops = <<>> \/ st.cut THEN st
    ELSE RunOps(Tail(ops), Exec(Head(ops), st, orc, dir), orc, dir)

\* A graph of blocks, from block b on; dir is the order in which parallel loops
\* take their iterations.
RECURSIVE RunBlock(_, _, _, _, _)
RunBlock(blocks, b, vals, st, orc) ==
    LET s == RunOps(blocks[b].ops, Bind(st, blocks[b].args, vals), orc, 1)
        t == blocks[b].term
        k == IF t.op = "condbr" /\ Get(s, t.cond[1]) # 1 THEN 2 ELSE 1
    IN  IF b \notin DOMAIN blocks THEN [st EXCEPT !.ret = <<Undef>>]
        ELSE IF s.cut THEN s
        ELSE IF t.op = "return" THEN [s EXCEPT !.ret = GetSeq(s, t.vals[1])]
        ELSE RunBlock(blocks, t.dest[k], GetSeq(s, t.vals[k]), s, orc)

\* What is observed of an execution.
Seen(st) == [out |-> st.out, ret |-> IF st.cut THEN <<>> ELSE st.ret, cut |-> st.cut]
=============================================================================
