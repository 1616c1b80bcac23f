--------------------------- MODULE MCLoopPipeline ---------------------------
EXTENDS LoopPipeline

CONSTANT Family

V(k) == <<k>>
n == V(1)                 \* integer arguments
s == V(2)
a == V(8)                 \* arrays
b == V(9)
c(k) == Const(V(20 + k), k)
C(k) == V(20 + k)
Return(vals) == Pure("return", <<>>, vals)
Bin(op, r, v, w) == Pure(op, <<V(r)>>, <<v, w>>)
Load(r, ref, i) == Pure("load", <<V(r)>>, <<ref, i>>)
Store(v, ref, i) == Pure("store", <<>>, <<v, ref, i>>)
Emit1(v) == Pure("emit", <<>>, <<v>>)
For(res, args, par, params, body) == Op("for", res, args, [par |-> par], <<Region(params, body)>>)

\* for i in range(args): body, with the carried values x; numba's form of it.
RangeLoop(args, par, body, yields, inits) ==
    LET k == Len(inits)
        bargs == [j \in 1..k |-> V(30 + j)]
    IN  << Op("range", <<V(40)>>, args, par, <<>>), Pure("getiter", <<V(41)>>, <<V(40)>>),
           Op("while", [j \in 1..(k + 1) |-> V(50 + j)], inits, 0,
              << Region(bargs,
                   << Pure("iternext", <<V(42)>>, <<V(41)>>), Pure("pairfirst", <<V(43)>>, <<V(42)>>),
                      Pure("pairsecond", <<V(44)>>, <<V(42)>>), Pure("cast", <<V(45)>>, <<V(44)>>),
                      Pure("condition", <<>>, <<V(45)>> \o bargs \o <<V(43)>>) >>),
                 Region([j \in 1..(k + 1) |-> V(60 + j)], body \o <<Yield(yields)>>) >>) >>

Ranges == {<<n>>, <<C(1), n>>, <<C(0), n, C(2)>>, <<n, C(0), C(-1)>>, <<n, C(0), s>>, <<C(0), n, s>>}
Consts == <<c(0), c(1), c(2), c(3), Const(C(-1), -1)>>

RangePrograms ==
    {Consts \o RangeLoop(r, 0, <<Bin("add", 70, V(61), V(62))>>, <<V(70)>>, <<C(0)>>)
       \o <<Return(<<V(51)>>)>> : r \in Ranges}
    \cup {Consts \o RangeLoop(r, 0, <<Emit1(V(61))>>, <<>>, <<>>) \o <<Return(<<>>)>> : r \in Ranges}
    \cup {Consts \o RangeLoop(r, 1, <<Store(V(61), a, V(61))>>, <<>>, <<>>) \o <<Return(<<>>)>>
            : r \in {<<n>>, <<C(1), n>>}}


\* Comparisons of the induction variable with a bound; comparisons with a constant.
iv == V(61)
Both(v) == <<Region(<<>>, <<Emit1(v), Yield(<<>>)>>), Region(<<>>, <<Emit1(C(1)), Emit1(v), Yield(<<>>)>>)>>
IfOp(cond, regs) == Op("if", <<>>, <<cond>>, 0, regs)
IfCmp(op, o, regs) == Consts \o << Bin(op, 70, o[1], o[2]), IfOp(V(70), regs), Return(<<n>>) >>
ComparePrograms ==
    {Consts \o << For(<<>>, <<C(1), n, C(1)>>, 0, <<iv>>,
                      << Bin(op, 70, o[1], o[2]), IfOp(V(70), Both(iv)), Yield(<<>>) >>), Return(<<>>) >>
       : op \in CompareOps, o \in {<<iv, C(1)>>, <<C(1), iv>>, <<iv, n>>, <<n, iv>>}}
    \cup {IfCmp(op, o, Both(n)) : op \in {"eq", "ne", "slt"}, o \in {<<n, C(3)>>, <<C(3), n>>}}
    \cup {IfCmp(op, <<n, C(3)>>, <<Both(n)[1]>>) : op \in {"eq", "slt"}}
\* For another run (LegalFunction fails): the compiler may stop at an if without else.
NoElse == {IfCmp("ne", <<n, C(3)>>, <<Both(n)[1]>>)}

\* Repeated operations, around a store and in nested blocks; views; calls.
Again(o) == [o EXCEPT !.res[1] = @ \o <<1>>]
Repeats ==
    {Consts \o << Bin("add", 70, n, s), Load(71, a, C(1)), st, Again(Bin("add", 70, n, s)),
                  Again(Load(71, a, C(1))), Emit1(V(70) \o <<1>>),
                  IfOp(V(72), << Region(<<>>, << Bin("sub", 73, n, s), Again(Bin("sub", 73, n, s)),
                                                Emit1(V(73) \o <<1>>), Yield(<<>>) >>) >>),
                  Return(<<V(71), V(71) \o <<1>>>>) >>
       : st \in {Store(n, a, C(1)), Store(n, b, C(1))}}
RepeatPrograms == {<<Bin("slt", 72, n, s)>> \o p : p \in Repeats}
ViewPrograms ==
    {Consts \o << Op("subview", <<V(70)>>, <<a>>, [at |-> k, step |-> t, rank |-> r], <<>>),
                  Load(71, V(70), C(1)), Store(n, V(70), C(0)), Return(<<V(71)>>) >>
       : k \in {0, 1}, t \in {1, 2}, r \in {1, 2}}
Callee == Region(<<V(90)>>, << Bin("mul", 91, V(90), V(90)), Bin("add", 92, V(91), V(90)), Yield(<<V(92)>>) >>)
CallOp(r, v, attr) == Op("call", <<V(r)>>, <<v>>, attr, <<Callee>>)
CallPrograms ==
    {Consts \o << CallOp(70, n, f), CallOp(71, s, g), Bin("add", 72, V(70), V(71)), Return(<<V(72)>>) >>
       : f \in {"inline", ""}, g \in {"inline", ""}}

\* Cells that a loop accumulates in, and values that it carries.
Cells ==
    {Consts \o << Pure("alloc", <<V(80)>>, <<>>), Store(C(2), V(80), C(0)) >>
       \o << For(<<>>, <<C(0), n, C(1)>>, par, <<iv>>,
                 << Load(70, ref, k), Bin("add", 71, V(70), iv) >> \o st \o <<Yield(<<>>)>>),
             Load(74, V(80), C(0)), Return(<<V(74)>>) >>
       : par \in {0}, ref \in {V(80), a, b}, k \in {C(0), C(1), iv},
         st \in {<<Store(V(71), ref2, C(0))>> : ref2 \in {V(80), a}}
                  \cup {<<Store(V(71), V(80), C(0)), Bin("mul", 72, V(71), C(2)), Store(V(72), V(80), C(0))>>}}
TwoCells ==
    {Consts \o << Pure("alloc", <<V(80)>>, <<>>), Store(C(2), V(80), C(0)),
                  Pure("alloc", <<V(81)>>, <<>>), Store(C(1), V(81), C(1)),
             For(<<>>, <<C(0), n, C(1)>>, 0, <<iv>>,
                 << Load(70, V(80), C(0)), Load(71, V(81), C(1)), Bin("add", 72, V(70), iv),
                    Bin("mul", 73, V(71), C(2)), Store(V(73), V(81), C(1)), Store(V(72), V(80), C(0)),
                    Yield(<<>>) >>),
             Load(74, V(80), C(0)), Load(75, V(81), C(1)), Return(<<V(74), V(75)>>) >>}
x == V(62)
Carry(body, r) ==
    Consts \o << For(<<V(50)>>, <<C(0), n, C(1), C(1)>>, 0, <<iv, x>>, body \o <<Yield(<<V(r)>>)>>),
                 Return(<<V(50)>>) >>
CarryPrograms ==
    {Carry(<<Bin(op, 70, o[1], o[2])>>, 70)
       : op \in {"add", "mul"}, o \in {<<x, iv>>, <<iv, x>>, <<x, s>>}}
    \cup {Carry(<<Load(69, a, iv), Bin("add", 70, x, V(69)), Bin("add", 71, V(70), v)>>, 71) : v \in {s, V(69)}}
    \cup {Carry(<<Load(69, a, iv), Bin("add", 70, V(69), x)>>, 70)}
    \cup {Carry(<<Bin("add", 70, x, iv), st>>, 70) : st \in {Store(iv, a, iv), Store(iv, a, C(0)), Emit1(iv)}}
    \cup {Carry(<<Bin("add", 70, x, iv), Bin("add", 71, V(70), x)>>, 71),
          Carry(<<Bin("sub", 70, iv, x), Emit1(V(70))>>, 70),
          Consts \o << For(<<>>, <<C(0), n, C(1)>>, 1, <<iv>>,
                           <<Store(iv, a, iv), Yield(<<>>)>>), Return(<<>>) >>,
          Consts \o << For(<<>>, <<C(0), n, C(1)>>, 0, <<iv>>,
                           <<Store(iv, a, C(1)), Yield(<<>>)>>), Return(<<>>) >>}

\* Nests of loops. j goes up to a constant, to i, or to a value computed inside.
jv == V(64)
y == V(65)
NestPrograms ==
    {Consts \o << For(<<V(50)>>, <<C(0), n, C(1), C(0)>>, 0, <<iv, x>>, pre \o
                      << For(<<V(51)>>, <<C(0), hi, C(1), init>>, 0, <<jv, y>>,
                             << Bin("mul", 71, iv, jv), Bin("add", 72, y, V(71)), Yield(<<V(72)>>) >>),
                         Yield(<<V(51)>>) >>), Return(<<V(50)>>) >>
       : pre \in {<<>>, <<Bin("add", 70, iv, s)>>}, hi \in {C(2), iv}, init \in {x, C(1)}}
    \cup {Consts \o << For(<<V(50)>>, <<C(0), n, C(1), C(0)>>, 0, <<iv, x>>,
                      << Bin("add", 70, n, iv), For(<<V(51)>>, <<C(0), V(70), C(1), x>>, 0, <<jv, y>>,
                             << Bin("mul", 71, iv, jv), Bin("add", 72, y, V(71)), Yield(<<V(72)>>) >>),
                         Yield(<<V(51)>>) >>), Return(<<V(50)>>) >>}
    \cup {Consts \o << For(<<>>, <<C(0), n, C(1)>>, p, <<iv>>,
                           << For(<<>>, <<C(0), C(2), C(1)>>, q, <<jv>>,
                                  << Bin("add", 71, iv, jv), Store(V(71), a, i), Yield(<<>>) >>),
                              Yield(<<>>) >>), Return(<<>>) >>
            : <<p, q, i>> \in {<<1, 0, iv>>, <<0, 0, jv>>}}

\* Loops in a row: the first, something between them, the second.
Row(first, between, second, ret) ==
    Consts \o <<first>> \o between \o <<second, Return(ret)>>
ParFor(r, init, body(_), yields) ==
    IF init = <<>> THEN For(<<>>, <<C(0), n, C(1)>>, 1, <<V(61 + r)>>, body(V(61 + r)) \o <<Yield(<<>>)>>)
    ELSE For(<<V(50 + r)>>, <<C(0), n, C(1), init[1]>>, 1, <<V(61 + r), V(71 + r)>>,
             body(V(61 + r)) \o <<Bin("add", 80 + r, V(71 + r), yields), Yield(<<V(80 + r)>>)>>)
Fill(r) == ParFor(r, <<>>, LAMBDA i : <<Store(i, a, i)>>, C(1))
CopyOf(r, at) == ParFor(r, <<>>, LAMBDA i : <<Bin("add", 90 + r, i, at), Load(95 + r, a, V(90 + r)), Store(V(95 + r), b, i)>>, C(1))
Same(r) == ParFor(r, <<>>, LAMBDA i : <<Load(95 + r, a, i), Store(V(95 + r), b, i)>>, C(1))
Sum(r, init) == ParFor(r, <<init>>, LAMBDA i : <<Load(95 + r, a, i)>>, V(95 + r))
SumOfB(r, at) == ParFor(r, <<C(0)>>, LAMBDA i : <<Bin("add", 90 + r, i, at), Load(95 + r, b, V(90 + r))>>, V(95 + r))
RowPrograms ==
    {Row(Fill(1), t, l, <<>>) : t \in {<<>>, <<Emit1(n)>>, <<Store(n, b, C(0))>>},
                                l \in {Same(2), CopyOf(2, C(1)), CopyOf(2, C(0)), Fill(2)}}
    \cup {Row(l, <<>>, Fill(2), <<>>) : l \in {Same(1), CopyOf(1, C(1))}}
    \cup {Row(Sum(1, C(0)), t, Sum(2, C(1)), <<u, V(52)>>)
            : <<t, u>> \in {<<<<>>, V(51)>>, <<<<Bin("add", 100, V(51), C(2))>>, V(100)>>,
                            <<<<Bin("add", 100, n, C(2))>>, V(100)>>}}
    \cup {Row(Sum(1, C(0)), <<Bin("add", 100, V(51), C(2))>>, Sum(2, V(100)), <<V(52)>>),
          Row(Sum(1, C(0)), <<>>, Sum(2, V(51)), <<V(52)>>),
          Row(Sum(1, C(0)), <<Fill(2)>>, Sum(3, C(1)), <<V(51), V(53)>>)}
    \cup {Row(Fill(1), <<>>, SumOfB(2, C(0)), <<V(52)>>), Row(SumOfB(1, C(0)), <<>>, Fill(2), <<V(51)>>)}
    \cup {Row(Sum(1, C(0)), <<Sum(2, C(1))>> \o t, Sum(3, C(2)), <<V(51), V(52), V(53)>>)
            : t \in {<<>>, <<Emit1(n)>>}}

\* For another run (SameMeaning fails): a call between two loops of which the first writes
\* what the callee overwrites.
Overwrite == Op("call", <<>>, <<a>>, "",
                << Region(<<V(90)>>, << Const(V(91), 0), Const(V(92), 7), Store(V(92), V(90), V(91)), Yield(<<>>) >>) >>)
\* For another run (SameMeaning fails): the second loop reads what the first one writes in
\* a later iteration, through another name.
Ahead == {Row(Fill(1), <<>>, SumOfB(2, C(1)), <<V(52)>>)}
\* For another run (LegalFunction fails): a count that starts again under a condition.
Reset == {Carry(<< Bin("slt", 70, iv, s),
                   Op("if", <<V(71)>>, <<V(70)>>, 0,
                      << Region(<<>>, <<Bin("add", 72, x, C(1)), Yield(<<V(72)>>)>>),
                         Region(<<>>, <<Yield(<<C(0)>>)>>) >>) >>, 71)}
CallBetween == {Row(Fill(1), <<Overwrite>>, Same(2), <<>>)}

Supported == RangePrograms \cup ComparePrograms \cup RepeatPrograms \cup ViewPrograms
                \cup CallPrograms \cup Cells \cup TwoCells \cup CarryPrograms \cup NestPrograms \cup RowPrograms
MCPrograms == CASE Family = "supported" -> Supported
                [] Family = "call" -> CallBetween
                [] Family = "noelse" -> NoElse
                [] Family = "alias" -> Ahead
                [] Family = "reset" -> Reset
\* r: the array that the second name stands for, which may be the first one.
MCInputs == {[env |-> n :> k @@ s :> t @@ a :> Whole(a) @@ b :> Whole(r),
              mem |-> [w \in {a, b} \X (-1..4) |-> 10 * w[1][1] + w[2]],
              orders |-> IF r = a THEN {1} ELSE {1, 2}]
               : k \in {0, 1, 3}, t \in {-2, 1}, r \in {a, b}}
=============================================================================
