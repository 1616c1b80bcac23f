--------------------------- MODULE MCScalarLowering ---------------------------
(***************************************************************************)
(* Scalars of four and two bits and floats of three and two bits mantissa. *)
(***************************************************************************)
EXTENDS ScalarLowering

MCOps == {"+", "-", "*", "**", "//", "%", "/"} \cup Relations

\* All uses the lowering is meant for.
MCFaithful(op, a, b) == Meant(op, a, b)

\* For another run: % of two narrow signed integers, and no casts. A remainder overflows.
MCModulo == {"%"}
MCNarrow(op, a, b) == op = "%" /\ a.t = b.t /\ a.t = Type("si", N)

\* For another run: % of a small float with an integer, and no casts.
MCSmallFloat(op, a, b) == op = "%" /\ a.t # b.t /\ FinalType(a.t, b.t) = Type("f", P32)
=============================================================================
