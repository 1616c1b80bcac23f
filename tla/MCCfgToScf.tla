----------------------------- MODULE MCCfgToScf -----------------------------
(***************************************************************************)
(* Loops with a conditional statement, nested loops and nested conditional *)
(* statements, with calls, early returns, breaks and continues.            *)
(***************************************************************************)
EXTENDS CfgToScf

CONSTANT Family           \* which programs: "supported", "break" or "nested"

c1 == Cond(1, X, FALSE)
c2 == Cond(2, X, FALSE)
e1 == Cond(1, X, TRUE)    \* computed by a call
e2 == Cond(2, X, TRUE)
I == <<"inc", X>>
J == <<"inc", Y>>
E == <<"emit", X>>
F == <<"emit", Y>>
Copy == <<"set", Y, X>>
B == <<"break">>
C == <<"continue">>
R == <<"return", X>>

Ends == {<<B>>, <<C>>, <<R>>, <<E, B>>, <<E, C>>, <<E, R>>, <<I, B>>}
Ifs(c) == {If(c, t, <<>>) : t \in {<<I>>, <<E, Copy>>} \cup Ends}
            \cup {If(c, t, <<I>>) : t \in {<<E>>} \cup Ends}
Loops ==
    {<< While(c1, <<I, s>> \o p), E, F >> : s \in Ifs(c2) \cup Ifs(e2), p \in {<<>>, <<E>>}}
      \cup {<< While(e1, <<I, If(c2, t, <<>>)>>), E >> : t \in {<<I>>, <<C>>, <<E, C>>, <<E, R>>}}
      \cup {<< While(c1, <<s, I>>), E >> : s \in Ifs(c2)}
NestedLoops == {<< While(c1, <<I, While(c2, q)>> \o r), E, F >> :
                  q \in {<<I>>, <<I, E>>, <<J>>, <<J, Copy>>}, r \in {<<E>>, <<I>>, <<F>>}}
                \cup {<< While(c1, <<E, While(c2, <<I>>)>>), E >>}
NestedIfs == {<< If(c1, <<If(c2, q, r)>> \o t, u), E, F >> :
                q \in {<<I>>, <<E>>, <<J, E>>}, r \in {<<>>, <<J>>, <<E>>},
                t \in {<<>>, <<E>>, <<Copy>>}, u \in {<<>>, <<I>>}}
             \cup {<< If(c1, <<E, R>>, u), E, F >> : u \in {<<>>, <<I>>}}

\* A break that takes along a value of its own.
BreakWith == {<< While(c1, <<I, If(c2, <<Copy, B>>, <<>>)>>), E, F >>}

\* For another run (SameMeaning fails): the inner loop leaves alone a variable
\* that the outer one changes and goes on with.
Untouched == {<< While(c1, <<I, While(c2, <<E>>)>>), E >>}

Init == CInit(CASE Family = "supported" -> Loops \cup NestedLoops \cup NestedIfs
                [] Family = "break" -> BreakWith
                [] Family = "nested" -> Untouched)
Spec == Init /\ [][CNext]_cvars
=============================================================================
