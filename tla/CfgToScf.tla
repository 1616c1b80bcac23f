------------------------------ MODULE CfgToScf ------------------------------
(***************************************************************************)
(* PlierToScfPass (pipelines/plier_to_std.cpp): the patterns that turn a   *)
(* graph of blocks into structured operations, applied by MLIR's greedy    *)
(* driver together with MLIR's own canonicalization of branches.           *)
(***************************************************************************)
EXTENDS PlierLowerer

CONSTANT MaxArg           \* the predicates of a program may hold for 1 .. MaxArg
CONSTANT MaxRewrites      \* more rewrites than any of the programs needs

ReturnBlock == -1         \* the "fake block" that returns lead to
NoBlock == 0

Not == 101                \* suffixes of the names of new values
And == 102
Break == 103
IfRes == 104
WhileRes == 105
WhileArg == 106
Select == 107

\* A pattern may meet a branch to a block that is erased.
Term(g, b) == IF b \in DOMAIN g THEN g[b].term ELSE NoTerm
IsCond(g, b) == Term(g, b).op = "condbr"
Preds(g, b) == {p \in DOMAIN g : b \in ElemsOf(Term(g, p).dest)}
Reachable(g) ==
    LET R[n \in Nat] == IF n = 0 THEN {Entry}
                        ELSE R[n - 1] \cup UNION {ElemsOf(Term(g, b).dest) : b \in R[n - 1]}
    IN  R[Cardinality(DOMAIN g)]

TermUses(t) == ElemsOf(t.cond) \cup UNION {ElemsOf(t.vals[i]) : i \in DOMAIN t.vals}
BlockUses(bl) == UsesOf(bl.ops) \cup TermUses(bl.term)
ResultsIn(ops) == Flatten(Map(ops, LAMBDA o : o.res))

\* replaceAllUsesWith in the whole function.
SubstTerm(t, m) ==
    [t EXCEPT !.cond = ImgSeq(m, @), !.vals = [i \in DOMAIN @ |-> ImgSeq(m, @[i])]]
ReplaceUses(g, m) ==
    [b \in DOMAIN g |-> [g[b] EXCEPT !.ops = Subst(@, m), !.term = SubstTerm(@, m)]]

Without(g, S) == [b \in (DOMAIN g) \ S |-> g[b]]
Br(dest, vals) == [op |-> "br", cond |-> <<>>, dest |-> <<dest>>, vals |-> <<vals>>]
CondBr(cond, dest, vals) ==
    [op |-> "condbr", cond |-> <<cond>>, dest |-> dest, vals |-> vals]
Return(vals) == [op |-> "return", cond |-> <<>>, dest |-> <<>>, vals |-> <<vals>>]
Names(base, k, n) == [i \in 1..n |-> base \o <<k, i>>]

Replace(g, b, newOps, t) ==
    [g EXCEPT ![b].ops = @ \o newOps, ![b].term = t]

\* getNextBlock.
NextBlock(g, b) ==
    CASE Term(g, b).op = "br" -> Term(g, b).dest[1]
      [] Term(g, b).op = "return" -> ReturnBlock
      [] OTHER -> NoBlock

\* Mutant of Negated: the operands of the subtraction are swapped.
NegatedSwapped(cond, op) ==
    LET one == Const(cond \o <<Not, 1>>, 1)
    IN  << one, Pure(op, << cond \o <<Not>> >>, <<cond, one.res[1]>>) >>

\* The negation of cond, as xor with 1 or as 1 - cond.
Negated(cond, op) ==
    LET one == Const(cond \o <<Not, 1>>, 1)
        args == IF op = "xor" THEN <<cond, one.res[1]>> ELSE <<one.res[1], cond>>
    IN  << one, Pure(op, << cond \o <<Not>> >>, args) >>

(***************************************************************************)
(* ScfIfRewriteOneExit. k is the successor taken as "true": 1, or 2 when   *)
(* reversed.                                                               *)
(***************************************************************************)

\* Mutant of OneExitAt: the rewrite looks at the true successor only.
OneExitAtTrueOnly(g, b, k) ==
    /\ k = 1
    /\ IsCond(g, b)
    /\ LET postBlock == NextBlock(g, Term(g, b).dest[1])
       IN  /\ postBlock # NoBlock
           /\ Term(g, b).dest[2] = postBlock
           /\ Cardinality({b, Term(g, b).dest[1], postBlock}) = 3

OneExitAt(g, b, k) ==
    /\ IsCond(g, b)
    /\ LET trueBlock == Term(g, b).dest[k]
           falseBlock == Term(g, b).dest[3 - k]
           postBlock == NextBlock(g, trueBlock)
       IN  /\ postBlock # NoBlock
           /\ falseBlock = postBlock \/ NextBlock(g, falseBlock) = postBlock
           /\ Cardinality({b, trueBlock, postBlock}) = 3

\* erase_blocks for the blocks that nothing branches to any more.
EraseUnused(g, S) == Without(g, {b \in S \cap DOMAIN g : b # Entry /\ Preds(g, b) = {}})

OneExit(g, b, k) ==
    LET t == Term(g, b)
        trueBlock == t.dest[k]
        falseBlock == t.dest[3 - k]
        postBlock == NextBlock(g, trueBlock)
        cond == t.cond[1]
        copy(c, tag) ==
            LET m == CloneMap(g[c].ops, <<>>, tag)
            IN  Region(<<>>, Append(Renamed(g[c].ops, m), Yield(ImgSeq(m, Term(g, c).vals[1]))))
        res == Names(cond, IfRes, Len(Term(g, trueBlock).vals[1]))
        else == IF falseBlock # postBlock THEN <<copy(falseBlock, -b)>>
                ELSE IF res = <<>> THEN <<>>
                ELSE << Region(<<>>, <<Yield(t.vals[3 - k])>>) >>
        neg == IF k = 2 THEN Negated(cond, "xor") ELSE <<>>
        ifOp == Op("if", res, << IF k = 2 THEN cond \o <<Not>> ELSE cond >>, 0,
                   <<copy(trueBlock, b)>> \o else)
        new == Replace(g, b, Append(neg, ifOp),
                       IF postBlock = ReturnBlock THEN Return(res) ELSE Br(postBlock, res))
    IN  EraseUnused(new, {trueBlock, falseBlock})
\* Whether the one block that both branches lead to is looked at again once it is erased.
LooksAtErased(g, b) ==
    /\ Term(g, b).dest[1] = Term(g, b).dest[2]
    /\ Preds(g, Term(g, b).dest[1]) = {b}

(***************************************************************************)
(* ScfIfRewriteTwoExits                                                    *)
(***************************************************************************)

TwoExitsAt(g, b, k) ==
    /\ IsCond(g, b)
    /\ LET thenBlock == Term(g, b).dest[k]
           exitBlock == Term(g, b).dest[3 - k]
       IN  /\ b \notin {thenBlock, exitBlock}
           /\ IsCond(g, thenBlock)
           /\ exitBlock \in ElemsOf(Term(g, thenBlock).dest)
           /\ LET e == IF Term(g, thenBlock).dest[2] = exitBlock THEN 2 ELSE 1
              IN  /\ Term(g, thenBlock).dest[3 - e] \in DOMAIN g
                  /\ g[Term(g, thenBlock).dest[3 - e]].args = <<>>
           /\ g[thenBlock].args = <<>>

TwoExits(g, b, k) ==
    LET t == Term(g, b)
        thenBlock == t.dest[k]
        exitBlock == t.dest[3 - k]
        tt == Term(g, thenBlock)
        e == IF tt.dest[2] = exitBlock THEN 2 ELSE 1
        ops == g[thenBlock].ops
        outside == NestedUses(ops) \cup UNION {BlockUses(g[c]) : c \in (DOMAIN g) \ {thenBlock}}
        users == SelectSeq(ResultsIn(ops), LAMBDA v : v \in outside)
        m == CloneMap(ops, <<>>, b)
        thenCond == Img(m, tt.cond[1])
        neg(c) == c \o <<Not>>
        then == Renamed(ops, m)
                  \o (IF e = 1 THEN Negated(thenCond, "sub") ELSE <<>>)
                  \o << Yield(<<IF e = 1 THEN neg(thenCond) ELSE thenCond>>
                                \o ImgSeq(m, tt.vals[e]) \o ImgSeq(m, users)) >>
        cond == t.cond[1]
        zero == Const(cond \o <<IfRes, 0>>, 0)
        undefs == [i \in DOMAIN users |-> Pure("undef", <<users[i] \o <<Not, b>>>>, <<>>)]
        else == <<zero>> \o undefs
                  \o << Yield(zero.res \o t.vals[3 - k] \o ResultsIn(undefs)) >>
        ifCond == IF k = 2 THEN neg(cond) ELSE cond
        n == Len(t.vals[3 - k])
        res == Names(cond, IfRes, 1 + n + Len(users))
        both == ifCond \o <<And>>
        new == Replace(g, b,
                 (IF k = 2 THEN Negated(cond, "sub") ELSE <<>>)
                   \o << Op("if", res, <<ifCond>>, 0, <<Region(<<>>, then), Region(<<>>, else)>>),
                         Pure("and", <<both>>, <<ifCond, res[1]>>) >>,
                 CondBr(both, <<tt.dest[3 - e], exitBlock>>,
                        <<tt.vals[3 - e], SubSeq(res, 2, n + 1)>>))
    IN  ReplaceUses(new, [v \in ElemsOf(users) |->
                            res[1 + n + CHOOSE i \in DOMAIN users : users[i] = v]])

(***************************************************************************)
(* ScfWhileRewrite, at the branch that ends block b                        *)
(***************************************************************************)

WhileAt(g, b) ==
    /\ Term(g, b).op = "br"
    /\ LET before == Term(g, b).dest[1]
       IN  /\ IsCond(g, before)
           /\ LET after == Term(g, before).dest[1]
                  post == Term(g, before).dest[2]
              IN  /\ NextBlock(g, after) = before
                  /\ Cardinality({b, before, after, post}) = 4
                  /\ DefsOf(g[after].ops) \cap
                       UNION {BlockUses(g[c]) : c \in (DOMAIN g) \ {before, after}} = {}

WhileRewrite(g, b) ==
    LET before == Term(g, b).dest[1]
        bt == Term(g, before)
        after == bt.dest[1]
        bargs == g[before].args
        inner == [i \in DOMAIN bargs |-> bargs[i] \o <<WhileArg, b>>]
        m == CloneMap(g[before].ops,
                      [v \in ElemsOf(bargs) |-> inner[CHOOSE i \in DOMAIN bargs : bargs[i] = v]],
                      b)
        outside == UNION {BlockUses(g[c]) : c \in (DOMAIN g) \ {before}}
        escaping == Flatten(Map(SelectSeq(g[before].ops,
                                          LAMBDA o : ElemsOf(o.res) \cap outside # {}),
                                LAMBDA o : o.res))
        orig == bargs \o escaping \o bt.vals[2]
        condition == Op("condition", <<>>, <<Img(m, bt.cond[1])>> \o ImgSeq(m, orig), 0, <<>>)
        afterArgs == Names(bt.cond[1], WhileArg, Len(orig))
        \* mapper.map(orig_vars, ...): the last one wins
        lastOf(v) == CHOOSE i \in DOMAIN orig :
                       orig[i] = v /\ \A j \in DOMAIN orig : orig[j] = v => j <= i
        firstOf(v) == CHOOSE i \in DOMAIN orig :
                       orig[i] = v /\ \A j \in DOMAIN orig : orig[j] = v => j >= i
        am == CloneMap(g[after].ops, [v \in ElemsOf(orig) |-> afterArgs[lastOf(v)]], b)
        res == Names(bt.cond[1], WhileRes, Len(orig))
        whileOp == Op("while", res, Term(g, b).vals[1], 0,
                      << Region(inner, Append(Renamed(g[before].ops, m), condition)),
                         Region(afterArgs, Append(Renamed(g[after].ops, am),
                                            Yield(ImgSeq(am, Term(g, after).vals[1])))) >>)
        \* every use of a value of orig becomes a use of the result, wherever it is
        out == [v \in ElemsOf(orig) |-> res[firstOf(v)]]
        new == Replace(g, b, <<whileOp>>, Br(bt.dest[2], bt.vals[2]))
    IN  Without(ReplaceUses(new, out), {before, after})

(***************************************************************************)
(* BreakRewrite, at the conditional branch that ends block b               *)
(***************************************************************************)

BreakAt(g, b) ==
    /\ IsCond(g, b)
    /\ LET exit == Term(g, b).dest[1]
           condition == Term(g, b).dest[2]
       IN  /\ IsCond(g, condition)
           /\ Term(g, condition).dest = <<b, exit>>

\* Mutant of EnterLoop: the branch does not pass the new argument.
EnterLoopWithout(g, b, p) == g[p]

\* A branch from elsewhere to the condition block of the loop that block b leaves. The
\* code handles plain branches; a conditional one is "not implemented" and stops it.
EnteredByCond(g, b) ==
    \E p \in Preds(g, Term(g, b).dest[2]) \ {b} : IsCond(g, p)
EnterLoop(g, b, p) ==
    LET condition == Term(g, b).dest[2]
        goOn == <<condition, Break, b, p>>
    IN  Replace([q \in {p} |-> g[p]], p, <<Const(goOn, 1)>>,
                Br(condition, Append(Term(g, p).vals[1], goOn)))[p]

BreakRewrite(g, b) ==
    LET t == Term(g, b)
        condition == t.dest[2]
        ct == Term(g, condition)
        flag == ct.cond[1] \o <<Break, b>>
        both == flag \o <<And>>
        one == Const(flag \o <<Not>>, 1)
        bodyTail == Negated(t.cond[1], "sub")
    IN  [p \in DOMAIN g |->
           CASE p = b ->
                  [g[b] EXCEPT !.ops = @ \o bodyTail,
                     !.term = Br(condition, Append(t.vals[2], t.cond[1] \o <<Not>>))]
             [] p = condition ->
                  [g[p] EXCEPT !.args = Append(@, flag),
                     !.ops = @ \o << one, Pure("and", <<both>>, <<flag, ct.cond[1]>>) >>,
                     !.term = [ct EXCEPT !.cond = <<both>>]]
             [] p \in Preds(g, condition) \ {b} -> EnterLoop(g, b, p)
             [] OTHER -> g[p]]

(***************************************************************************)
(* ArgOpLowering and MLIR's canonicalization of branches                   *)
(***************************************************************************)

ArgOpAt(g, b) == \E i \in DOMAIN g[b].ops : g[b].ops[i].op = "arg"
\* Mutant of ArgOpLowering: the operation is not erased.
ArgOpLoweringStays(g, b) == g

ArgOpLowering(g, b) ==
    LET isArg(o) == o.op = "arg"
        found == SelectSeq(g[b].ops, isArg)
        m == [v \in ElemsOf(ResultsIn(found)) |->
                LET o == CHOOSE o \in ElemsOf(found) : o.res = <<v>> IN g[Entry].args[o.attr]]
    IN  ReplaceUses([g EXCEPT ![b].ops = SelectSeq(@, LAMBDA o : ~isArg(o))], m)

\* A branch to a block with no other predecessor: the blocks become one.
MergeAt(g, b) ==
    /\ Term(g, b).op = "br"
    /\ Term(g, b).dest[1] \in (DOMAIN g) \ {b, Entry}
    /\ Preds(g, Term(g, b).dest[1]) = {b}
Merge(g, b) ==
    LET d == Term(g, b).dest[1]
        m == [v \in ElemsOf(g[d].args) |->
                Term(g, b).vals[1][CHOOSE i \in DOMAIN g[d].args : g[d].args[i] = v]]
    IN  ReplaceUses(Without(Replace(g, b, g[d].ops, g[d].term), {d}), m)

\* A branch to a block that only branches on, with arguments used only there.
PassThroughAt(g, b, k) ==
    /\ k \in DOMAIN Term(g, b).dest
    /\ LET d == Term(g, b).dest[k]
       IN  /\ d \in DOMAIN g
           /\ g[d].ops = <<>>
           /\ Term(g, d).op = "br"
           /\ Term(g, d).dest[1] # d
           /\ ElemsOf(g[d].args) \cap
                UNION {BlockUses(g[c]) : c \in (DOMAIN g) \ {d}} = {}
PassThrough(g, b, k) ==
    LET d == Term(g, b).dest[k]
        m == [v \in ElemsOf(g[d].args) |->
                Term(g, b).vals[k][CHOOSE i \in DOMAIN g[d].args : g[d].args[i] = v]]
    IN  [g EXCEPT ![b].term.dest[k] = Term(g, d).dest[1],
                  ![b].term.vals[k] = ImgSeq(m, Term(g, d).vals[1])]

\* A conditional branch whose successors are one block: a plain branch if it passes the
\* same values, or with selects if that block has no other predecessor.
IdenticalAt(g, b) ==
    LET t == Term(g, b)
    IN  /\ IsCond(g, b)
        /\ t.dest[1] = t.dest[2]
        /\ t.vals[1] = t.vals[2] \/ Preds(g, t.dest[1]) = {b}
Identical(g, b) ==
    LET t == Term(g, b)
        both == DOMAIN t.vals[1]
        name(i) == IF t.vals[1][i] = t.vals[2][i] THEN t.vals[1][i]
                   ELSE t.cond[1] \o <<Select, i>>
        selects == Map(SelectSeq([i \in both |-> i], LAMBDA i : t.vals[1][i] # t.vals[2][i]),
                       LAMBDA i : Pure("select", <<name(i)>>,
                                       <<t.cond[1], t.vals[1][i], t.vals[2][i]>>))
    IN  Replace(g, b, selects, Br(t.dest[1], [i \in both |-> name(i)]))

EraseUnreachable(g) == [b \in Reachable(g) |-> g[b]]

(***************************************************************************)
(* The passes: MLIR's canonicalizer, then PlierToScfPass. Both apply a     *)
(* pattern somewhere as long as one applies; of several patterns for one   *)
(* branch the first of the list is tried first.                            *)
(***************************************************************************)

VARIABLES
    body,                 \* the Python function that is compiled
    phase,                \* "lower", "canonicalize", "scf", "done" or "aborted"
    rewrites              \* how many patterns have been applied

cvars == <<vars, body, phase, rewrites>>

CInit(Programs) ==
    /\ body \in Programs
    /\ phase = "lower"
    /\ rewrites = 0
    /\ InitFor(FuncIR(body))

First(At(_, _, _), g, b) == IF At(g, b, 1) THEN 1 ELSE 2
Either(At(_, _, _), g, b) == At(g, b, 1) \/ At(g, b, 2)

\* The first pattern of the pass that matches at block b; none is 0.
Canonical(g, b) ==
    CASE MergeAt(g, b) -> "merge"
      [] ~MergeAt(g, b) /\ Either(PassThroughAt, g, b) -> "collapse"
      [] IdenticalAt(g, b) /\ ~Either(PassThroughAt, g, b) -> "identical"
      [] OTHER -> "none"
Match(g, b) ==
    IF phase = "canonicalize" THEN Canonical(g, b)
    ELSE IF BreakAt(g, b) THEN "break"
    ELSE IF Either(OneExitAt, g, b) THEN "one"
    ELSE IF Either(TwoExitsAt, g, b) THEN "two"
    ELSE IF WhileAt(g, b) THEN "while"
    ELSE Canonical(g, b)

Applied ==
    /\ rewrites' = rewrites + 1
    /\ UNCHANGED <<func_ir, vars_map, done, outgoing, body>>
\* The pattern is applied somewhere, or stops the compiler.
Rewrite(name, New(_, _), Stops(_, _)) ==
    /\ phase \in {"canonicalize", "scf"}
    /\ \E b \in DOMAIN graph :
         /\ Match(graph, b) = name
         /\ IF Stops(graph, b) THEN phase' = "aborted" /\ UNCHANGED graph
            ELSE graph' = New(graph, b) /\ UNCHANGED phase
    /\ Applied
Nowhere(g, b) == FALSE

ScfIfRewriteOneExit ==
    Rewrite("one", LAMBDA g, b : OneExit(g, b, First(OneExitAt, g, b)), LooksAtErased)
ScfIfRewriteTwoExits ==
    Rewrite("two", LAMBDA g, b : TwoExits(g, b, First(TwoExitsAt, g, b)), Nowhere)
ScfWhileRewrite == Rewrite("while", WhileRewrite, Nowhere)
BreakPattern == Rewrite("break", BreakRewrite, EnteredByCond)
MergeBlocks == Rewrite("merge", Merge, Nowhere)
CollapseBranch ==
    Rewrite("collapse", LAMBDA g, b : PassThrough(g, b, First(PassThroughAt, g, b)), Nowhere)
JoinSuccessors == Rewrite("identical", Identical, Nowhere)

LowerArg ==
    /\ phase = "scf"
    /\ \E b \in DOMAIN graph : ArgOpAt(graph, b) /\ graph' = ArgOpLowering(graph, b)
    /\ Applied /\ UNCHANGED phase
SimplifyRegions ==
    /\ phase \in {"canonicalize", "scf"}
    /\ Reachable(graph) # DOMAIN graph
    /\ graph' = EraseUnreachable(graph)
    /\ Applied /\ UNCHANGED phase

Finished(g) ==
    /\ \A b \in DOMAIN g : Match(g, b) = "none" /\ (phase = "scf" => ~ArgOpAt(g, b))
    /\ Reachable(g) = DOMAIN g
NextPass ==
    /\ \/ phase = "lower" /\ Lowered /\ phase' = "canonicalize"
       \/ phase = "canonicalize" /\ Finished(graph) /\ phase' = "scf"
       \/ phase = "scf" /\ Finished(graph) /\ phase' = "done"
    /\ UNCHANGED <<vars, body, rewrites>>
Lower == (LowerBlock \/ FixupPhis) /\ UNCHANGED <<body, phase, rewrites>>

Patterns == \/ ScfIfRewriteOneExit \/ ScfIfRewriteTwoExits \/ ScfWhileRewrite \/ BreakPattern
            \/ LowerArg \/ MergeBlocks \/ CollapseBranch
            \/ JoinSuccessors \/ SimplifyRegions
Stop == phase \in {"done", "aborted"} /\ UNCHANGED cvars
CNext == Lower \/ NextPass \/ Patterns \/ Stop

(***************************************************************************)
(* Properties                                                              *)
(***************************************************************************)

\* Type invariant: once fixup_phis has run, every branch leads to a block that exists and
\* passes one value for each of its arguments (erase_blocks, the arguments BreakRewrite
\* adds); blocks that nothing reaches are exempt. No pattern stops the compiler.
BranchesFit ==
    /\ phase \in {"lower", "canonicalize", "scf", "done"}
    /\ Lowered =>
         \A b \in Reachable(graph) :
           /\ b \in DOMAIN graph
           /\ LET t == Term(graph, b)
              IN  \A k \in DOMAIN t.dest :
                    /\ t.dest[k] \in DOMAIN graph
                    /\ Len(t.vals[k]) = Len(graph[t.dest[k]].args)

\* The graph means what the Python function means, after lower_func_body and after every
\* rewrite, whatever the conditions of the function evaluate to: the calls made, their
\* arguments and order, and the result are Python's.
Oracles == [1..2 -> [1..MaxArg -> BOOLEAN]]
Ones == <<1, 1>>          \* the arguments of the function
Meaning(orc) == Seen(RunBlock(graph, Entry, Ones, Start(<<>>, <<>>), orc))
SameMeaning == Lowered => \A orc \in Oracles : Meaning(orc) = PyMeaning(body, Ones, orc)

\* A function whose blocks have one entry and one exit ends as a single block of
\* structured operations, which is what the loop and parallel passes need.
RECURSIVE Jumps(_)
Jumps(ss) ==
    \E i \in DOMAIN ss :
      \/ ss[i][1] \in {"break", "continue", "return"}
      \/ ss[i][1] = "if" /\ (Jumps(ss[i][3]) \/ Jumps(ss[i][4]))
      \/ ss[i][1] = "while" /\ Jumps(ss[i][3])
Structured == phase = "done" /\ ~Jumps(body) => DOMAIN graph = {Entry}

\* The rewriting ends: no pattern undoes another one or applies to its own result for
\* ever. (That it never stops before "done" is the absence of deadlock.)
RewritingEnds == rewrites <= MaxRewrites
=============================================================================
