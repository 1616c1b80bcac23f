--------------------------- MODULE MCArrayProgram ---------------------------
(***************************************************************************)
(* Arguments as in the tests of broadcasting: numbers, rows, columns and   *)
(* tables with one or two elements per dimension, of two integer types and *)
(* a float type.                                                           *)
(***************************************************************************)
EXTENDS ArrayProgram

Narrow == Type("si", N)
In(t, shape, el) == [t |-> t, shape |-> shape, el |-> el]

MCFirst ==
    { In(Int64, <<1>>, <<3>>), In(Int64, <<2>>, <<-1, 3>>), In(Int64, <<2, 2>>, <<1, 2, 3, 0>>),
      In(Int64, <<2, 1>>, <<2, -2>>), In(Int64, <<1, 2>>, <<4, 1>>) }
MCSecond ==
    { In(Int64, <<>>, <<2>>), In(Int64, <<1, 2>>, <<1, -3>>), In(Int64, <<2, 2>>, <<1, 0, 2, 1>>),
      In(Float64, <<2>>, <<1, 2>>), In(Narrow, <<2, 1>>, <<3, 1>>), In(Type("ui", N), <<0>>, <<>>) }
MCInputs == MCFirst \X MCSecond

Full == SliceEntry(-100, -100, -100)
MCIndices ==
    { <<IntEntry(0)>>, <<IntEntry(1)>>, <<IntEntry(1), IntEntry(0)>>, <<IntEntry(0), Full>>,
      <<Full, IntEntry(0)>>, <<SliceEntry(1, -100, 1)>>, <<SliceEntry(0, 1, 2)>>,
      <<Full, SliceEntry(-100, 1, -100)>> }
MCNewShapes == {<<2>>, <<4>>, <<1, 2>>, <<2, 1>>}

\* What the lowering is meant for. Left out: operands of different types with negative
\* elements, products and concatenations of arrays of different types.
NonNegative(a) == \A k \in DOMAIN a.el : Read([t |-> a.t, v |-> a.el[k]]) >= 0
MCSupported(op, a, b) ==
    /\ op \in {"dot", "concatenate"} => a.t = b.t
    /\ op \in {"+", "-", "*", "/", "**"} /\ a.t # b.t => NonNegative(a) /\ NonNegative(b)
MCAnything(op, a, b) == TRUE
=============================================================================
