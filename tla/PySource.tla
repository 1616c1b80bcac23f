------------------------------ MODULE PySource ------------------------------
(***************************************************************************)
(* Small Python functions, what they mean, and the numba IR that numba     *)
(* gives the compiler for them. Neither Python nor numba is part of this   *)
(* repository: mlir_compiler/src/lowering.cpp says what an IR consists of. *)
(*                                                                         *)
(*   <<"inc", v>>        v += 1             <<"return", v>>                *)
(*   <<"set", v, w>>     v = w              <<"break">>, <<"continue">>    *)
(*   <<"emit", v>>       a call with v      <<"if", cond, then, else>>     *)
(*                                          <<"while", cond, body>>        *)
(*   cond                [k, v, eff]: the predicate k of v, which is       *)
(*                       computed with a call if eff                       *)
(***************************************************************************)
EXTENDS Ir

If(c, t, e) == <<"if", c, t, e>>
While(c, b) == <<"while", c, b>>
Cond(k, v, eff) == [k |-> k, v |-> v, eff |-> eff]

\* Names are sequences of numbers.
X == 1
Y == 2
Temp == 3
Argument == 4
Vars == {X, Y}
Params == <<X, Y>>        \* the function's arguments

(***************************************************************************)
(* Meaning                                                                 *)
(***************************************************************************)

\* st.ret is <<>> while execution goes on in sequence.
RECURSIVE Do(_, _, _), DoWhile(_, _, _)
DoCond(c, st, orc) ==
    Ask(IF c.eff THEN Emit(st, <<c.k, <<st.env[c.v]>>>>) ELSE st)
Holds(c, st, orc) == Answer(orc, c.k, st.env[c.v]) = 1

DoStmt(s, st, orc) ==
    CASE s[1] = "inc" -> [st EXCEPT !.env[s[2]] = @ + 1]
      [] s[1] = "set" -> [st EXCEPT !.env[s[2]] = st.env[s[3]]]
      [] s[1] = "emit" -> Emit(st, <<0, <<st.env[s[2]]>>>>)
      [] s[1] = "return" -> [st EXCEPT !.ret = <<"return", st.env[s[2]]>>]
      [] s[1] \in {"break", "continue"} -> [st EXCEPT !.ret = <<s[1]>>]
      [] s[1] = "if" ->
            LET c == DoCond(s[2], st, orc)
            IN  Do(IF Holds(s[2], c, orc) THEN s[3] ELSE s[4], c, orc)
      [] s[1] = "while" -> DoWhile(s, st, orc)
Do(ss, st, orc) ==
    IF ss = <<>> \/ st.ret # <<>> \/ st.cut THEN st
    ELSE Do(Tail(ss), DoStmt(Head(ss), st, orc), orc)
DoWhile(s, st, orc) ==
    LET c == DoCond(s[2], st, orc)
        b == Do(s[3], c, orc)
    IN  IF c.cut \/ ~Holds(s[2], c, orc) THEN c
        ELSE IF b.cut \/ Head(b.ret \o <<"">>) = "return" THEN b
        ELSE IF b.ret = <<"break">> THEN [b EXCEPT !.ret = <<>>]
        ELSE DoWhile(s, [b EXCEPT !.ret = <<>>], orc)

\* What is observed of the function with the arguments vals; it returns its
\* first variable if it does nothing else.
PyMeaning(body, vals, orc) ==
    LET env == [v \in ElemsOf(Params) |->
                  vals[CHOOSE i \in DOMAIN Params : Params[i] = v]]
        st == Do(body \o << <<"return", X>> >>, Start(env, <<>>), orc)
    IN  [out |-> st.out, cut |-> st.cut, ret |-> IF st.cut THEN <<>> ELSE <<st.ret[2]>>]

(***************************************************************************)
(* numba IR: [order, body] with the labels of the blocks in order and an   *)
(* instruction sequence for each. Every variable is assigned once.         *)
(*   assign: target, value = [kind, op, vars, attr, from]                  *)
(*   branch: vars, dest   jump: dest   return: vars                        *)
(***************************************************************************)

Expr(kind, op, vars, attr, from) ==
    [kind |-> kind, op |-> op, vars |-> vars, attr |-> attr, from |-> from]
Assign(target, value) == [inst |-> "assign", target |-> target, value |-> value]
Branch(var, t, f) == [inst |-> "branch", vars |-> <<var>>, dest |-> <<t, f>>]
Jump(t) == [inst |-> "jump", vars |-> <<>>, dest |-> <<t>>]
Ret(var) == [inst |-> "return", vars |-> <<var>>, dest |-> <<>>]

\* The compilation of a function: blocks so far, the open one (0 after a jump), the
\* current name of each variable, and the breaks and continues to connect.
NoCode == [order |-> <<>>, body |-> <<>>, cur |-> 0, ver |-> <<>>, next |-> 1, n |-> 0,
           brk |-> <<>>, cont |-> <<>>]
Out(s, inst) == [s EXCEPT !.body[s.cur] = Append(@, inst)]
Leave(s) == [from |-> s.cur, ver |-> s.ver]
JumpTo(s, l) == [Out(s, Jump(l)) EXCEPT !.cur = 0]
Name(v, n) == <<v, n>>

\* Starts block l, entered from preds: a phi for each variable with several names.
StartBlock(s, l, preds) ==
    LET names(v) == {preds[i].ver[v] : i \in DOMAIN preds}
        merged == {v \in Vars : Cardinality(names(v)) > 1}
        phi(v) == Assign(Name(v, s.n), Expr("phi", "", Map(preds, LAMBDA p : p.ver[v]), 0,
                                            Map(preds, LAMBDA p : p.from)))
        phis == SelectSeq(Params, LAMBDA v : v \in merged)
    IN  IF preds = <<>> THEN [s EXCEPT !.cur = 0]
        ELSE [s EXCEPT !.order = Append(@, l), !.cur = l, !.n = @ + 1,
                       !.body = (l :> Map(phis, phi)) @@ @,
                       !.ver = [v \in Vars |-> IF v \in merged THEN Name(v, s.n)
                                               ELSE preds[1].ver[v]]]

RECURSIVE Assigned(_), Gen(_, _)
Assigned(ss) ==
    UNION {CASE ss[i][1] \in {"inc", "set"} -> {ss[i][2]}
             [] ss[i][1] = "if" -> Assigned(ss[i][3]) \cup Assigned(ss[i][4])
             [] ss[i][1] = "while" -> Assigned(ss[i][3])
             [] OTHER -> {} : i \in DOMAIN ss}

GenCond(s, c, t, f) ==
    LET test == Expr("expr", IF c.eff THEN "ask" ELSE "test", <<s.ver[c.v]>>, c.k, <<>>)
    IN  Out(Out([s EXCEPT !.n = @ + 1], Assign(Name(Temp, s.n), test)),
            Branch(Name(Temp, s.n), t, f))

GenIf(st, s) ==
    LET t == s.next  e == t + 1  j == t + 2
        hasElse == st[4] # <<>>
        c == GenCond([s EXCEPT !.next = @ + 3], st[2], t, IF hasElse THEN e ELSE j)
        end(r) == IF r.cur = 0 THEN r ELSE JumpTo(r, j)
        leave(r) == IF r.cur = 0 THEN <<>> ELSE <<Leave(r)>>
        then == Gen(st[3], StartBlock(c, t, <<Leave(c)>>))
        else == Gen(st[4], StartBlock(end(then), e, <<Leave(c)>>))
    IN  IF hasElse THEN StartBlock(end(else), j, leave(then) \o leave(else))
        ELSE StartBlock(end(then), j, <<Leave(c)>> \o leave(then))

GenWhile(st, s) ==
    LET h == s.next  b == h + 1  e == h + 2
        entry == Leave(s)
        changed == SelectSeq(Params, LAMBDA v : v \in Assigned(st[3]))
        s1 == JumpTo([s EXCEPT !.next = @ + 3, !.n = @ + 1], h)
        ver == [v \in Vars |-> IF v \in ElemsOf(changed) THEN Name(v, s.n) ELSE s.ver[v]]
        head == StartBlock(s1, h, <<[entry EXCEPT !.ver = ver]>>)
        c == GenCond(head, st[2], b, e)
        body == Gen(st[3], [StartBlock(c, b, <<Leave(c)>>) EXCEPT !.brk = <<>>, !.cont = <<>>])
        last == IF body.cur = 0 THEN body ELSE JumpTo(body, h)
        backs == body.cont \o (IF body.cur = 0 THEN <<>> ELSE <<Leave(body)>>)
        ins == <<entry>> \o backs
        phi(v) == Assign(ver[v], Expr("phi", "", Map(ins, LAMBDA p : p.ver[v]), 0,
                                      Map(ins, LAMBDA p : p.from)))
        patched == [l \in DOMAIN last.body |->
                      IF l = h THEN Map(changed, phi) \o last.body[h]
                      ELSE Map(last.body[l], LAMBDA i :
                             IF i.inst = "jump" /\ l \in {p.from : p \in ElemsOf(body.brk)}
                             THEN Jump(e)
                             ELSE IF i.inst = "jump" /\ l \in {p.from : p \in ElemsOf(body.cont)}
                             THEN Jump(h) ELSE i)]
    IN  StartBlock([last EXCEPT !.body = patched, !.brk = s.brk, !.cont = s.cont], e,
                   <<Leave(c)>> \o body.brk)

GenStmt(st, s) ==
    CASE st[1] = "inc" ->
           [Out(s, Assign(Name(st[2], s.n), Expr("expr", "inc", <<s.ver[st[2]]>>, 1, <<>>)))
              EXCEPT !.ver[st[2]] = Name(st[2], s.n), !.n = @ + 1]
      [] st[1] = "set" ->
           [Out(s, Assign(Name(st[2], s.n), Expr("var", "", <<s.ver[st[3]]>>, 0, <<>>)))
              EXCEPT !.ver[st[2]] = Name(st[2], s.n), !.n = @ + 1]
      [] st[1] = "emit" ->
           [Out(s, Assign(Name(Temp, s.n), Expr("expr", "emit", <<s.ver[st[2]]>>, 0, <<>>)))
              EXCEPT !.n = @ + 1]
      [] st[1] = "return" -> [Out(s, Ret(s.ver[st[2]])) EXCEPT !.cur = 0]
      [] st[1] = "break" -> [JumpTo(s, 0) EXCEPT !.brk = Append(@, Leave(s))]
      [] st[1] = "continue" -> [JumpTo(s, 0) EXCEPT !.cont = Append(@, Leave(s))]
      [] st[1] = "if" -> GenIf(st, s)
      [] st[1] = "while" -> GenWhile(st, s)
Gen(ss, s) == IF ss = <<>> \/ s.cur = 0 THEN s ELSE Gen(Tail(ss), GenStmt(Head(ss), s))

FuncIR(body) ==
    LET arg(v) == Assign(Name(v, 0), Expr("arg", "", <<>>, CHOOSE i \in {1, 2} : Params[i] = v,
                                          <<>>))
        entry == [NoCode EXCEPT !.order = <<1>>, !.body = (1 :> Map(Params, arg)), !.cur = 1,
                                !.next = 2, !.n = 1, !.ver = [v \in Vars |-> Name(v, 0)]]
        end == Gen(body \o << <<"return", X>> >>, entry)
    IN  [order |-> end.order, body |-> end.body]
=============================================================================
