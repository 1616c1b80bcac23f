-------------------------- MODULE MCFuncResolution --------------------------
(***************************************************************************)
(* Small instances of FuncResolution: four functions, the first calls      *)
(* others that call others, never the other way round.                     *)
(***************************************************************************)
EXTENDS FuncResolution

CONSTANTS n1, n2, n3, n4

Four == 1 .. 4

\* Up to two calls of functions with a higher number.
Later(f) == {g \in Four : g > f}
CallsFrom(f) == {<<>>} \cup {<<g>> : g \in Later(f)} \cup (Later(f) \X Later(f))
Graphs == {<<a, b, c, <<>>>> : a \in CallsFrom(1) \ {<<>>}, b \in CallsFrom(2), c \in CallsFrom(3)}

Program(calls, name, inline) == [calls |-> calls, name |-> name, inline |-> inline]

\* Every naming that tells apart the functions that one function reaches.
NamedApart ==
  {p \in {Program(g, <<n1, n2, n3, m>>, <<"unset", "unset", i, j>>) :
            g \in Graphs, m \in {n2, n4}, i, j \in {"unset", "always"}} : NamesApart(p)}

\* For another run: two closures made by the same function have one name, and
\* CallsTheCallee fails.
SharedNames == {Program(<<<<2, 3>>, <<>>, <<>>, <<>>>>, <<n1, n2, n2, n4>>, [f \in Four |-> "unset"])}
=============================================================================
